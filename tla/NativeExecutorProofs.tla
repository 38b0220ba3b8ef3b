------------------------ MODULE NativeExecutorProofs ------------------------
(***************************************************************************)
(* Theorems about NativeExecutor for every set of executors and every      *)
(* value of the bounds.                                                    *)
(***************************************************************************)
EXTENDS NativeExecutorRefinement, FiniteSetTheorems, TLAPS

\* Rows are counted when a scan starts, so the requests must stay finite.
TypeInv == TypeOK /\ IsFiniteSet(sent)

-----------------------------------------------------------------------------
(* The ways a step may end keep the types.                                 *)

LEMMA GotoType ==
    ASSUME TypeOK, NEW e \in Executors, NEW step \in Step, Goto(e, step)
    PROVE  me' \in [Executors -> Local]
BY DEF Goto, TypeOK, Local

LEMMA IdleType == Idle \in Local
BY BoundAssumption DEF Idle, Local, Step, Fences, Grants

LEMMA ReturnType ==
    ASSUME TypeOK, NEW e \in Executors, Return(e)
    PROVE  me' \in [Executors -> Local]
BY IdleType DEF Return, TypeOK

LEMMA SaveThenType ==
    ASSUME TypeOK, NEW e \in Executors, NEW new \in Receipt, NEW step \in Step,
           SaveThen(e, new, step)
    PROVE  receipt' \in Receipt /\ me' \in [Executors -> Local]
BY GotoType, ReturnType DEF SaveThen, TypeOK

LEMMA ReleasedType ==
    ASSUME NEW new \in Receipt
    PROVE  [new EXCEPT !.leaseLive = FALSE] \in Receipt
BY DEF Receipt

LEMMA SaveAndReturnType ==
    ASSUME TypeOK, NEW e \in Executors, NEW new \in Receipt,
           SaveAndReturn(e, new)
    PROVE  receipt' \in Receipt /\ me' \in [Executors -> Local]
BY ReleasedType, ReturnType DEF SaveAndReturn, TypeOK

LEMMA ClaimType ==
    ASSUME TypeOK, NEW e \in Executors, NEW new \in Receipt, NEW step \in Step,
           new.fence = receipt.fence, Claimable(e), Claim(e, new, step)
    PROVE  receipt' \in Receipt /\ me' \in [Executors -> Local]
<1>1. receipt.fence + 1 \in Fences
  BY BoundAssumption DEF Claimable, TypeOK, Receipt, Fences
<1>2. receipt' \in Receipt
  BY <1>1 DEF Claim, Receipt
<1>3. me' \in [Executors -> Local]
  BY <1>1 DEF Claim, TypeOK, Local
<1> QED BY <1>2, <1>3

LEMMA MarkType ==
    ASSUME TypeOK, NEW e \in Executors
    PROVE  MyMark(e) \in SendMark /\ Req(e) \in Request
BY DEF MyMark, Req, SendMark, Request, TypeOK, Local

-----------------------------------------------------------------------------
(* Type correctness, one step per action.                                  *)

LEMMA RequestsAdded ==
    ASSUME TypeInv, NEW r \in Request, sent' = sent \union {r}
    PROVE  sent' \subseteq Request /\ IsFiniteSet(sent')
BY FS_AddElement DEF TypeInv, TypeOK

LEMMA RowCount ==
    ASSUME TypeInv
    PROVE  Cardinality(landed) \in Nat
BY FS_Subset, FS_CardinalityType DEF TypeInv, TypeOK

LEMMA InitType == Init => TypeInv
<1> SUFFICES ASSUME Init PROVE TypeInv
  OBVIOUS
<1>1. /\ \A c \in BOOLEAN : NewReceipt("none", c) \in Receipt
      /\ NewReceipt("legacy", TRUE) \in Receipt
      /\ LegacyRequest \in Request
  BY BoundAssumption DEF NewReceipt, NoMark, Receipt, Status, Fences, Grants,
     SendMark, LegacyRequest, Request
<1>2. IsFiniteSet(sent)
  <2>1. IsFiniteSet({}) /\ IsFiniteSet({LegacyRequest})
    BY FS_EmptySet, FS_Singleton
  <2> QED BY <2>1 DEF Init
<1>3. me \in [Executors -> Local]
  BY IdleType DEF Init
<1>4. receipt \in Receipt /\ sent \subseteq Request /\ wire \subseteq sent
  BY <1>1 DEF Init
<1> QED BY <1>2, <1>3, <1>4 DEF Init, TypeInv, TypeOK

LEMMA BeginType ==
    ASSUME TypeInv, NEW e \in Executors, Begin(e)
    PROVE  TypeInv'
<1> SUFFICES /\ receipt' \in Receipt /\ me' \in [Executors -> Local]
             /\ UNCHANGED <<provider, cooldown>>
  BY DEF TypeInv, TypeOK, provider
<1> USE DEF TypeInv
<1>0. receipt \in Receipt
  BY DEF TypeOK
<1>1. CASE BeginFresh(e)
  <2>1. [receipt EXCEPT !.status = "reserved"] \in Receipt
    BY <1>0 DEF Receipt, Status
  <2> QED BY <1>0, <1>1, <2>1, ClaimType DEF BeginFresh, Claim, Step, Receipt
<1>2. CASE BeginLegacyRecovery(e)
  <2>1. [receipt EXCEPT !.status = "recovery_required"] \in Receipt
    BY <1>0 DEF Receipt, Status, Uncertain
  <2> QED BY <1>0, <1>2, <2>1, ClaimType DEF BeginLegacyRecovery, Claim, Step, Receipt
<1>3. CASE BeginResumeNotSent(e)
  BY <1>0, <1>3, ClaimType DEF BeginResumeNotSent, Claim, Step
<1>4. CASE BeginAuthorized(e)
  <2>1. PICK a \in Pending : Claim(e, ConsumeAuthorization(a), "reserve")
    BY <1>4 DEF BeginAuthorized
  <2>2. a \in Grants
    BY <1>0, <2>1, BoundAssumption DEF Pending, Receipt, Grants
  <2>3. ConsumeAuthorization(a) \in Receipt
    BY <1>0, <2>2 DEF ConsumeAuthorization, Receipt, Status
  <2>4. ConsumeAuthorization(a).fence = receipt.fence
    BY <1>0 DEF ConsumeAuthorization, Receipt
  <2> QED BY <1>4, <2>1, <2>3, <2>4, ClaimType DEF BeginAuthorized, Claim, Step
<1>5. CASE BeginAfterCrash(e)
  <2>1. AfterCrash \in Receipt /\ AfterCrash.fence = receipt.fence
    BY <1>0 DEF AfterCrash, Receipt, Status, Uncertain
  <2> QED BY <1>5, <2>1, ClaimType DEF BeginAfterCrash, Claim, Step
<1>6. CASE BeginRecovery(e)
  BY <1>0, <1>6, ClaimType DEF BeginRecovery, Claim, Step
<1>7. CASE BeginReadback(e)
  BY <1>0, <1>7, ClaimType DEF BeginReadback, Claim, Step
<1> QED BY <1>1, <1>2, <1>3, <1>4, <1>5, <1>6, <1>7 DEF Begin

LEMMA WriteType ==
    ASSUME TypeInv, NEW e \in Executors, Write(e)
    PROVE  TypeInv'
<1> USE DEF TypeInv
<1>0. receipt \in Receipt /\ me \in [Executors -> Local] /\ me[e] \in Local
  BY DEF TypeOK
<1>1. CASE MarkSending(e)
  <2>1. CASE Owns(e) /\ receipt' = [receipt EXCEPT !.status = "sending", !.mark =
                           [fence |-> me[e].fence, grant |-> receipt.activeAuth]]
                    /\ me' = [me EXCEPT ![e] = [@ EXCEPT !.pc = "dispatch", !.try = 1,
                                               !.grant = receipt.activeAuth]]
    <3>1. receipt' \in Receipt
      BY <1>0, <2>1 DEF Receipt, SendMark, Local, Status
    <3>2. [me[e] EXCEPT !.pc = "dispatch", !.try = 1,
                        !.grant = receipt.activeAuth] \in Local
      <4>1. 1 \in 0 .. MaxTries
        BY BoundAssumption
      <4>2. receipt.activeAuth \in Grants
        BY <1>0 DEF Receipt
      <4> QED BY <1>0, <4>1, <4>2 DEF Local, Step
    <3>3. me' \in [Executors -> Local]
      BY <1>0, <2>1, <3>2
    <3> QED BY <1>1, <3>1, <3>3 DEF MarkSending, TypeOK, provider
  <2>2. CASE UNCHANGED receipt /\ Return(e)
    BY <1>1, <2>2, ReturnType DEF MarkSending, TypeOK, provider
  <2> QED BY <1>1, <2>1, <2>2 DEF MarkSending
<1>2. CASE BackOff(e) \/ ConnectionRefused(e) \/ ReceiveAck(e)
           \/ ReceiveRejection(e) \/ ReceiveNothing(e) \/ ReceiveGarbled(e)
  <2>1. me' \in [Executors -> Local]
    BY <1>2, GotoType DEF BackOff, ConnectionRefused, ReceiveAck,
       ReceiveRejection, ReceiveNothing, ReceiveGarbled, Step
  <2> QED BY <1>2, <2>1 DEF BackOff, ConnectionRefused, ReceiveAck,
       ReceiveRejection, ReceiveNothing, ReceiveGarbled, TypeOK, provider
<1>3. CASE Dispatch(e)
  <2>1. me' \in [Executors -> Local]
    BY <1>3, GotoType DEF Dispatch, Step
  <2>2. sent' \subseteq Request /\ IsFiniteSet(sent')
    BY <1>3, RequestsAdded, MarkType DEF Dispatch
  <2> QED BY <1>3, <2>1, <2>2 DEF Dispatch, TypeOK
<1>4. CASE RetryWrite(e)
  <2>1. CASE Owns(e) /\ me' = [me EXCEPT ![e] = [@ EXCEPT !.pc = "dispatch",
                                                        !.try = me[e].try + 1]]
    <3>0. me[e].try + 1 \in 0 .. MaxTries
      BY <1>0, <1>4, BoundAssumption DEF RetryWrite, Local
    <3>1. [me[e] EXCEPT !.pc = "dispatch", !.try = me[e].try + 1] \in Local
      BY <1>0, <3>0 DEF Local, Step
    <3>2. me' \in [Executors -> Local]
      BY <1>0, <2>1, <3>1
    <3> QED BY <1>4, <3>2 DEF RetryWrite, TypeOK, provider
  <2>2. CASE Return(e)
    BY <1>4, <2>2, ReturnType DEF RetryWrite, TypeOK, provider
  <2> QED BY <1>4, <2>1, <2>2 DEF RetryWrite
<1>5. CASE RecordNotSent(e)
  <2>1. [receipt EXCEPT !.status = "not_sent_retryable", !.applied = "no"] \in Receipt
    BY <1>0 DEF Receipt, Status
  <2> QED BY <1>5, <2>1, SaveAndReturnType DEF RecordNotSent, TypeOK, provider
<1>6. CASE RecordRejection(e)
  <2>1. [receipt EXCEPT !.status = "rejected_not_applied", !.applied = "no"] \in Receipt
    BY <1>0 DEF Receipt, Status, Terminal
  <2> QED BY <1>6, <2>1, SaveAndReturnType DEF RecordRejection, TypeOK, provider
<1>7. CASE RecordUnknown(e)
  <2>1. [receipt EXCEPT !.status = "outcome_unknown",
                        !.uncertain = @ \union {MyMark(e)}] \in Receipt
    BY <1>0, MarkType DEF Receipt, Status, Uncertain
  <2>2. receipt' \in Receipt /\ me' \in [Executors -> Local]
    BY <1>7, <2>1, SaveAndReturnType DEF RecordUnknown
  <2> QED BY <1>7, <2>2 DEF RecordUnknown, TypeOK, provider
<1>8. CASE RecordAck(e)
  <2>1. [receipt EXCEPT !.status = "applied_pending_readback",
                        !.applied = "yes", !.ackValidated = FALSE] \in Receipt
    BY <1>0 DEF Receipt, Status, Acknowledged
  <2>2. receipt' \in Receipt /\ me' \in [Executors -> Local]
    BY <1>8, <2>1, SaveThenType DEF RecordAck, Step
  <2> QED BY <1>8, <2>2 DEF RecordAck, TypeOK, provider
<1>9. CASE AcceptAck(e)
  <2>1. [receipt EXCEPT !.ackValidated = TRUE] \in Receipt
    BY <1>0 DEF Receipt
  <2>2. receipt' \in Receipt /\ me' \in [Executors -> Local]
    BY <1>9, <2>1, SaveThenType DEF AcceptAck, Step
  <2> QED BY <1>9, <2>2 DEF AcceptAck, TypeOK, provider
<1>10. CASE RejectAck(e)
  <2>1. Unproven \in Receipt
    BY <1>0 DEF Unproven, Receipt, Status, Acknowledged
  <2> QED BY <1>10, <2>1, SaveAndReturnType DEF RejectAck, TypeOK, provider
<1> QED BY <1>1, <1>2, <1>3, <1>4, <1>5, <1>6, <1>7, <1>8, <1>9, <1>10 DEF Write

LEMMA RecoverType ==
    ASSUME TypeInv, NEW e \in Executors, Recover(e)
    PROVE  TypeInv'
<1> USE DEF TypeInv
<1>0. receipt \in Receipt /\ me \in [Executors -> Local] /\ me[e] \in Local
  BY DEF TypeOK
<1>1. Unproven \in Receipt
  BY <1>0 DEF Unproven, Receipt, Status, Acknowledged
<1> SUFFICES receipt' \in Receipt /\ me' \in [Executors -> Local]
  BY DEF Recover, Resume, ProveEffect, ReadbackFails, StartScan, NoScan,
     ReadPages, ScanFails, CompleteScan, DecideScan, FlagEvidence,
     ConcludeFailure, TypeOK, provider
<1>2. CASE Resume(e)
  <2>1. CASE receipt.ackValidated
    BY <1>0, <1>2, <2>1, GotoType DEF Resume, Step
  <2>2. CASE ~receipt.ackValidated
    BY <1>1, <1>2, <2>2, SaveAndReturnType DEF Resume
  <2> QED BY <2>1, <2>2
<1>3. CASE ProveEffect(e)
  <2>1. [receipt EXCEPT !.status = "verified"] \in Receipt
    BY <1>0 DEF Receipt, Status, Terminal
  <2> QED BY <1>3, <2>1, SaveAndReturnType DEF ProveEffect
<1>4. CASE ReadbackFails(e) \/ ScanFails(e)
  BY <1>0, <1>4, GotoType DEF ReadbackFails, ScanFails, Step
<1>5. CASE StartScan(e)
  <2>1. CASE /\ receipt' = [receipt EXCEPT !.evidence = "partial", !.fresh = FALSE,
                                           !.scanFence = me[e].fence]
             /\ me' = [me EXCEPT ![e] = [@ EXCEPT !.pc = "pages",
                                               !.base = Cardinality(landed)]]
    <3>1. receipt' \in Receipt
      BY <1>0, <2>1 DEF Receipt, Local
    <3>2. [me[e] EXCEPT !.pc = "pages", !.base = Cardinality(landed)] \in Local
      BY <1>0, RowCount DEF Local, Step
    <3> QED BY <1>0, <2>1, <3>1, <3>2
  <2>2. CASE UNCHANGED receipt /\ Return(e)
    BY <1>0, <2>2, ReturnType
  <2> QED BY <1>5, <2>1, <2>2 DEF StartScan
<1>6. CASE NoScan(e)
  <2>1. [receipt EXCEPT !.status = "recovery_required"] \in Receipt
    BY <1>0 DEF Receipt, Status, Uncertain
  <2> QED BY <1>6, <2>1, SaveAndReturnType DEF NoScan
<1>7. CASE ReadPages(e)
  <2>1. ASSUME NEW n \in me[e].base .. Cardinality(landed),
               me' = [me EXCEPT ![e] = [@ EXCEPT !.pc = "scanned", !.found = n]]
        PROVE  me' \in [Executors -> Local]
    <3>1. n \in Nat
      BY <1>0, RowCount DEF Local
    <3>2. [me[e] EXCEPT !.pc = "scanned", !.found = n] \in Local
      BY <1>0, <3>1 DEF Local, Step
    <3> QED BY <1>0, <2>1, <3>2
  <2>2. ASSUME Return(e) PROVE me' \in [Executors -> Local]
    BY <2>2, ReturnType
  <2> QED BY <1>0, <1>7, <2>1, <2>2 DEF ReadPages
<1>8. CASE CompleteScan(e)
  <2>1. [receipt EXCEPT !.evidence = IF me[e].found = 0 THEN "absent" ELSE "found",
                        !.fresh = TRUE] \in Receipt
    BY <1>0 DEF Receipt
  <2> QED BY <1>8, <2>1, SaveThenType DEF CompleteScan, Step
<1>9. CASE DecideScan(e)
  <2>1. ScanVerdict(me[e].found) \in Receipt
    BY <1>0 DEF ScanVerdict, Receipt, Status, Terminal, Uncertain
  <2> QED BY <1>9, <2>1, SaveAndReturnType DEF DecideScan
<1>10. CASE FlagEvidence(e)
  <2>1. [receipt EXCEPT !.evidence = "failed"] \in Receipt
    BY <1>0 DEF Receipt
  <2>2. CASE UNCHANGED receipt /\ Goto(e, "conclude")
    BY <1>0, <2>2, GotoType DEF Step
  <2>3. CASE SaveThen(e, [receipt EXCEPT !.evidence = "failed"], "conclude")
    BY <2>1, <2>3, SaveThenType DEF Step
  <2> QED BY <1>10, <2>2, <2>3 DEF FlagEvidence
<1>11. CASE ConcludeFailure(e)
  <2>1. [receipt EXCEPT !.status = "outcome_unknown"] \in Receipt
    BY <1>0 DEF Receipt, Status, Uncertain
  <2> QED BY <1>1, <1>11, <2>1, SaveAndReturnType DEF ConcludeFailure
<1> QED BY <1>2, <1>3, <1>4, <1>5, <1>6, <1>7, <1>8, <1>9, <1>10, <1>11 DEF Recover

LEMMA EnvironmentType ==
    ASSUME TypeInv,
           AuthorizeReattempt \/ Provider \/ Clock
             \/ \E e \in Executors : Crash(e)
    PROVE  TypeInv'
<1> USE DEF TypeInv
<1>0. receipt \in Receipt
  BY DEF TypeOK
<1>1. CASE AuthorizeReattempt
  <2>1. receipt.issued + 1 \in Grants
    BY <1>0, <1>1, BoundAssumption DEF AuthorizeReattempt, Authorizable, Receipt, Grants
  <2>2. receipt' \in Receipt
    <3>1. receipt' = [receipt EXCEPT !.status = "authorized_retry",
                                     !.issued = receipt.issued + 1]
      BY <1>1 DEF AuthorizeReattempt
    <3>2. "authorized_retry" \in Status
      BY DEF Status
    <3> QED BY <1>0, <2>1, <3>1, <3>2 DEF Receipt
  <2> QED BY <1>1, <2>2 DEF AuthorizeReattempt, TypeOK, provider
<1>2. CASE Provider
  BY <1>2 DEF Provider, Land, Refuse, Lose, TypeOK
<1>3. CASE Clock
  <2>1. receipt' \in Receipt
    <3>1. CASE receipt' = [receipt EXCEPT !.leaseLive = FALSE]
      BY <1>0, <3>1 DEF Receipt
    <3>2. CASE receipt' = [receipt EXCEPT !.fresh = FALSE]
      BY <1>0, <3>2 DEF Receipt
    <3>3. CASE receipt' = receipt
      BY <1>0, <3>3
    <3> QED
      BY <1>3, <3>1, <3>2, <3>3
      DEF Clock, ExpireLease, EvidenceAges, CooldownChanges
  <2> QED BY <1>3, <2>1 DEF Clock, ExpireLease, EvidenceAges, CooldownChanges,
     TypeOK, provider
<1>4. CASE \E e \in Executors : Crash(e)
  BY <1>4, ReturnType DEF Crash, TypeOK, provider
<1> QED BY <1>1, <1>2, <1>3, <1>4

LEMMA TypeInvariant == Spec => []TypeInv
<1>1. TypeInv /\ [Next]_vars => TypeInv'
  <2> SUFFICES ASSUME TypeInv, [Next]_vars PROVE TypeInv'
    OBVIOUS
  <2>1. CASE Next
    BY <2>1, BeginType, WriteType, RecoverType, EnvironmentType DEF Next, Work
  <2>2. CASE UNCHANGED vars
    BY <2>2 DEF TypeInv, TypeOK, vars
  <2> QED BY <2>1, <2>2
<1> QED BY <1>1, InitType, PTL DEF Spec

\* Every reachable state is well typed: the statuses, fences, grants and local
\* positions the executor code moves through never leave their ranges.
THEOREM TypeCorrect == Spec => []TypeOK
<1>1. TypeInv => TypeOK
  BY DEF TypeInv
<1> QED BY <1>1, TypeInvariant, PTL

-----------------------------------------------------------------------------
(* GrantInv is inductive.  Most steps are quiet: they send nothing, touch  *)
(* no grant, and change the status only for the owner and to a value that  *)
(* cannot send.  Claims and the three sending steps are treated apart.     *)

Quiet(e) ==
    /\ sent' = sent
    /\ receipt'.owner = receipt.owner
    /\ receipt'.fence = receipt.fence
    /\ receipt'.consumed = receipt.consumed
    /\ receipt'.activeAuth = receipt.activeAuth
    /\ \/ receipt'.status = receipt.status
       \/ Owns(e) /\ receipt'.status \notin Open
    /\ \A f \in Executors \ {e} : me'[f] = me[f]
    /\ me'[e].pc # "reserve"
    /\ me'[e].pc \in UnsentSteps =>
         Unsent(e) /\ me'[e].grant = me[e].grant /\ me'[e].fence = me[e].fence

LEMMA QuietKeepsGrants ==
    ASSUME TypeInv, GrantInv, NEW e \in Executors, Quiet(e)
    PROVE  GrantInv'
<1> USE DEF GrantInv, Quiet
<1>1. \A f \in Executors : Unsent(f)' => Unsent(f) /\ me'[f].grant = me[f].grant
  BY DEF Unsent
<1>2. \A g \in Grants : Used(g)' => Used(g)
  BY <1>1 DEF Used, Unsent
<1>3. OneWritePerGrant'
  BY DEF OneWritePerGrant
<1>4. UsedIsGranted'
  BY <1>2 DEF UsedIsGranted
<1>5. UnsentIsUnused'
  BY <1>1 DEF UnsentIsUnused
<1>6. OpenIsUnused'
  <2>1. receipt.activeAuth \in Grants
    BY DEF TypeInv, TypeOK, Receipt
  <2>2. receipt'.status \in Open => receipt.status \in Open
    OBVIOUS
  <2>3. Used(receipt.activeAuth)' => Used(receipt.activeAuth)
    BY <1>1 DEF Used, Unsent
  <2> QED BY <2>2, <2>3 DEF OpenIsUnused
<1>7. OwnerHoldsGrant'
  <2> SUFFICES ASSUME NEW f \in Executors, receipt'.owner = f,
                      receipt'.fence = me'[f].fence
               PROVE  /\ me'[f].pc = "reserve" => receipt'.status \in Open
                      /\ Unsent(f)' => me'[f].grant = receipt'.activeAuth
    BY DEF OwnerHoldsGrant
  <2>1. CASE f = e
    BY <2>1 DEF OwnerHoldsGrant, Unsent
  <2>2. CASE f # e
    BY <2>2 DEF OwnerHoldsGrant, Unsent, Owns
  <2> QED BY <2>1, <2>2
<1>8. ActiveIsGranted'
  BY DEF ActiveIsGranted
<1> QED BY <1>3, <1>4, <1>5, <1>6, <1>7, <1>8

\* A claim hands out an unused grant or none at all.
LEMMA ClaimKeepsGrants ==
    ASSUME TypeInv, GrantInv, NEW e \in Executors, NEW new \in Receipt,
           NEW step \in Step, Claimable(e), Claim(e, new, step),
           step \notin UnsentSteps,
           receipt.consumed \subseteq new.consumed,
           new.activeAuth \in {0} \union new.consumed,
           step = "reserve" => new.status \in Open,
           new.status \in Open => ~Used(new.activeAuth)
    PROVE  GrantInv'
<1> USE DEF GrantInv
<1>1. /\ sent' = sent
      /\ receipt' = [new EXCEPT !.owner = e, !.fence = @ + 1, !.leaseLive = TRUE]
      /\ me' = [me EXCEPT ![e] = [@ EXCEPT !.pc = step, !.fence = receipt.fence + 1]]
      /\ me \in [Executors -> Local] /\ me[e] \in Local
  BY DEF Claim, provider, TypeInv, TypeOK
<1>2. /\ receipt'.owner = e
      /\ receipt'.status = new.status
      /\ receipt'.consumed = new.consumed
      /\ receipt'.activeAuth = new.activeAuth
  BY <1>1 DEF Receipt
<1>3. /\ me'[e].pc = step
      /\ \A f \in Executors \ {e} : me'[f] = me[f]
  BY <1>1 DEF Local
<1>4. \A f \in Executors : Unsent(f)' => Unsent(f) /\ me'[f] = me[f]
  BY <1>3 DEF Unsent
<1>5. \A g \in Grants : Used(g)' => Used(g)
  BY <1>1, <1>4 DEF Used, Unsent
<1>6. OneWritePerGrant'
  BY <1>1 DEF OneWritePerGrant
<1>7. UsedIsGranted'
  BY <1>2, <1>5 DEF UsedIsGranted
<1>8. UnsentIsUnused'
  BY <1>1, <1>4 DEF UnsentIsUnused
<1>9. OpenIsUnused'
  <2>1. Used(new.activeAuth)' => Used(new.activeAuth)
    BY <1>1, <1>4 DEF Used, Unsent
  <2> QED BY <1>2, <2>1 DEF OpenIsUnused
<1>10. OwnerHoldsGrant'
  BY <1>2, <1>3, <1>4 DEF OwnerHoldsGrant, Unsent
<1>11. ActiveIsGranted'
  BY <1>2 DEF ActiveIsGranted
<1> QED BY <1>6, <1>7, <1>8, <1>9, <1>10, <1>11

LEMMA BeginKeepsGrants ==
    ASSUME TypeInv, GrantInv, NEW e \in Executors, Begin(e)
    PROVE  GrantInv'
<1>0. receipt \in Receipt /\ receipt.activeAuth \in {0} \union receipt.consumed
  BY DEF TypeInv, TypeOK, GrantInv, ActiveIsGranted
<1> DEFINE Fresh   == [receipt EXCEPT !.status = "reserved"]
           Adopted == [receipt EXCEPT !.status = "recovery_required"]
<1> USE DEF UnsentSteps, Open, Uncertain, Acknowledged, Terminal
<1>1. CASE BeginFresh(e)
  <2>1. Fresh \in Receipt /\ Fresh.status = "reserved"
        /\ Fresh.consumed = receipt.consumed
        /\ Fresh.activeAuth = receipt.activeAuth
    BY <1>0 DEF Receipt, Status
  <2>2. ~Used(receipt.activeAuth)
    BY <1>1 DEF BeginFresh, GrantInv, OpenIsUnused
  <2> HIDE DEF Fresh
  <2>3. Claim(e, Fresh, "reserve") /\ Claimable(e)
    BY <1>1 DEF BeginFresh, Fresh
  <2> QED BY <1>0, <2>1, <2>2, <2>3, ClaimKeepsGrants DEF Step
<1>2. CASE BeginLegacyRecovery(e)
  <2>1. Adopted \in Receipt /\ Adopted.status = "recovery_required"
        /\ Adopted.consumed = receipt.consumed
        /\ Adopted.activeAuth = receipt.activeAuth
    BY <1>0 DEF Receipt, Status
  <2> HIDE DEF Adopted
  <2>2. Claim(e, Adopted, "scan") /\ Claimable(e)
    BY <1>2 DEF BeginLegacyRecovery, Adopted
  <2> QED BY <1>0, <2>1, <2>2, ClaimKeepsGrants DEF Step
<1>3. CASE BeginResumeNotSent(e)
  BY <1>0, <1>3, ClaimKeepsGrants DEF BeginResumeNotSent, Step, GrantInv, OpenIsUnused
<1>4. CASE BeginAuthorized(e)
  <2>1. PICK a \in Pending : Claim(e, ConsumeAuthorization(a), "reserve")
    BY <1>4 DEF BeginAuthorized
  <2>2. a \in Grants /\ a # 0 /\ a \notin receipt.consumed
    BY <1>0, <2>1, BoundAssumption DEF Pending, Receipt, Grants
  <2>3. ~Used(a)
    BY <2>2 DEF GrantInv, UsedIsGranted
  <2>4. /\ ConsumeAuthorization(a) \in Receipt
        /\ ConsumeAuthorization(a).status = "reserved"
        /\ ConsumeAuthorization(a).consumed = receipt.consumed \union {a}
        /\ ConsumeAuthorization(a).activeAuth = a
    BY <1>0, <2>2 DEF ConsumeAuthorization, Receipt, Status
  <2>5. Claimable(e)
    BY <1>4 DEF BeginAuthorized
  <2> QED BY <2>1, <2>3, <2>4, <2>5, ClaimKeepsGrants DEF Step
<1>5. CASE BeginAfterCrash(e)
  <2>1. AfterCrash \in Receipt /\ AfterCrash.status = "recovery_required"
        /\ AfterCrash.consumed = receipt.consumed
        /\ AfterCrash.activeAuth = receipt.activeAuth
    BY <1>0 DEF AfterCrash, Receipt, Status
  <2>2. Claim(e, AfterCrash, "scan") /\ Claimable(e)
    BY <1>5 DEF BeginAfterCrash
  <2> QED BY <1>0, <2>1, <2>2, ClaimKeepsGrants DEF Step
<1>6. CASE BeginRecovery(e)
  BY <1>0, <1>6, ClaimKeepsGrants DEF BeginRecovery, Step
<1>7. CASE BeginReadback(e)
  BY <1>0, <1>7, ClaimKeepsGrants DEF BeginReadback, Step
<1> QED BY <1>1, <1>2, <1>3, <1>4, <1>5, <1>6, <1>7 DEF Begin

\* What a save must leave alone for its step to be quiet.
SameClaim(new) ==
    /\ new \in Receipt
    /\ new.owner = receipt.owner
    /\ new.fence = receipt.fence
    /\ new.consumed = receipt.consumed
    /\ new.activeAuth = receipt.activeAuth

LEMMA ReturnIsQuiet ==
    ASSUME TypeInv, NEW e \in Executors, Return(e), UNCHANGED <<receipt, sent>>
    PROVE  Quiet(e)
BY DEF Return, Quiet, Idle, UnsentSteps, TypeInv, TypeOK

LEMMA GotoIsQuiet ==
    ASSUME TypeInv, NEW e \in Executors, NEW step \in Step, Goto(e, step),
           UNCHANGED <<receipt, sent>>,
           step # "reserve", step \in UnsentSteps => Unsent(e)
    PROVE  Quiet(e)
BY DEF Goto, Quiet, TypeInv, TypeOK, Local

LEMMA SaveThenIsQuiet ==
    ASSUME TypeInv, NEW e \in Executors, NEW new, NEW step \in Step,
           SaveThen(e, new, step), UNCHANGED sent, SameClaim(new),
           new.status = receipt.status \/ new.status \notin Open,
           step # "reserve", step \notin UnsentSteps
    PROVE  Quiet(e)
<1>1. CASE Owns(e) /\ receipt' = new /\ Goto(e, step)
  <2>1. me'[e].pc = step /\ \A f \in Executors \ {e} : me'[f] = me[f]
    BY <1>1 DEF Goto, TypeInv, TypeOK, Local
  <2> QED BY <1>1, <2>1 DEF Quiet, SameClaim
<1>2. CASE UNCHANGED receipt /\ Return(e)
  BY <1>2, ReturnIsQuiet
<1> QED BY <1>1, <1>2 DEF SaveThen

LEMMA SaveAndReturnIsQuiet ==
    ASSUME TypeInv, NEW e \in Executors, NEW new,
           SaveAndReturn(e, new), UNCHANGED sent, SameClaim(new),
           new.status \notin Open
    PROVE  Quiet(e)
<1>1. CASE ~Owns(e)
  BY <1>1, ReturnIsQuiet DEF SaveAndReturn
<1>2. CASE Owns(e)
  <2>1. receipt' = [new EXCEPT !.leaseLive = FALSE] /\ Return(e)
    BY <1>2 DEF SaveAndReturn
  <2>2. /\ receipt'.owner = receipt.owner
        /\ receipt'.fence = receipt.fence
        /\ receipt'.consumed = receipt.consumed
        /\ receipt'.activeAuth = receipt.activeAuth
        /\ receipt'.status = new.status
    BY <2>1 DEF SameClaim, Receipt
  <2> QED BY <1>2, <2>1, <2>2 DEF Return, Quiet, Idle, UnsentSteps, TypeInv, TypeOK
<1> QED BY <1>1, <1>2

\* The send boundary passes the receipt's grant on to the process.
LEMMA MarkSendingKeepsGrants ==
    ASSUME TypeInv, GrantInv, NEW e \in Executors, MarkSending(e)
    PROVE  GrantInv'
<1>1. CASE UNCHANGED receipt /\ Return(e)
  BY <1>1, ReturnIsQuiet, QuietKeepsGrants DEF MarkSending, provider
<1>2. CASE /\ Owns(e)
           /\ receipt' = [receipt EXCEPT !.status = "sending", !.mark =
                            [fence |-> me[e].fence, grant |-> receipt.activeAuth]]
           /\ me' = [me EXCEPT ![e] = [@ EXCEPT !.pc = "dispatch", !.try = 1,
                                               !.grant = receipt.activeAuth]]
  <2> USE DEF GrantInv
  <2>0. /\ me[e].pc = "reserve" /\ sent' = sent /\ me[e] \in Local
        /\ receipt.activeAuth \in Grants
    BY <1>2 DEF MarkSending, provider, TypeInv, TypeOK, Receipt
  <2>1. /\ me'[e].pc = "dispatch"
        /\ me'[e].grant = receipt.activeAuth
        /\ me'[e].fence = me[e].fence
        /\ \A f \in Executors \ {e} : me'[f] = me[f]
    BY <1>2 DEF TypeInv, TypeOK, Local
  <2>2. /\ receipt'.status = "sending"
        /\ receipt'.owner = receipt.owner
        /\ receipt'.fence = receipt.fence
        /\ receipt'.consumed = receipt.consumed
        /\ receipt'.activeAuth = receipt.activeAuth
    BY <1>2 DEF TypeInv, TypeOK, Receipt
  <2>3. ~Used(receipt.activeAuth)
    BY <1>2, <2>0 DEF OwnerHoldsGrant, Owns, OpenIsUnused
  <2>4. receipt.activeAuth \in {0} \union receipt.consumed
    BY DEF ActiveIsGranted
  <2>5. OneWritePerGrant'
    BY <2>0 DEF OneWritePerGrant
  <2>6. UsedIsGranted'
    BY <2>0, <2>1, <2>2, <2>4 DEF UsedIsGranted, Used, Unsent
  <2>7. UnsentIsUnused'
    BY <2>0, <2>1, <2>3 DEF UnsentIsUnused, Used, Unsent
  <2>8. OpenIsUnused'
    BY <2>2 DEF OpenIsUnused, Open
  <2>9. OwnerHoldsGrant'
    BY <1>2, <2>1, <2>2 DEF OwnerHoldsGrant, Unsent, Owns
  <2>10. ActiveIsGranted'
    BY <2>2 DEF ActiveIsGranted
  <2> QED BY <2>5, <2>6, <2>7, <2>8, <2>9, <2>10
<1> QED BY <1>1, <1>2 DEF MarkSending

\* The request takes the grant over from the process that sends it.
LEMMA DispatchKeepsGrants ==
    ASSUME TypeInv, GrantInv, NEW e \in Executors, Dispatch(e)
    PROVE  GrantInv'
<1> USE DEF GrantInv
<1>0. /\ me[e].pc = "dispatch" /\ receipt' = receipt
      /\ sent' = sent \union {Req(e)} /\ Req(e).grant = me[e].grant
      /\ me[e].grant \in Grants
  BY DEF Dispatch, Req, TypeInv, TypeOK, Local
<1>1. /\ me'[e].pc = "await"
      /\ \A f \in Executors \ {e} : me'[f] = me[f]
  BY DEF Dispatch, Goto, TypeInv, TypeOK, Local
<1>2. Unsent(e) /\ ~Unsent(e)'
  BY <1>0, <1>1 DEF Unsent, UnsentSteps
<1>3. \A f \in Executors : Unsent(f)' => Unsent(f) /\ f # e /\ me'[f] = me[f]
  BY <1>1, <1>2 DEF Unsent
<1>4. \A g \in Grants : Used(g)' => Used(g)
  BY <1>0, <1>2, <1>3 DEF Used, Unsent
<1>5. OneWritePerGrant'
  BY <1>0, <1>2 DEF OneWritePerGrant, UnsentIsUnused
<1>6. UsedIsGranted'
  BY <1>0, <1>4 DEF UsedIsGranted
<1>7. UnsentIsUnused'
  BY <1>0, <1>2, <1>3 DEF UnsentIsUnused
<1>8. OpenIsUnused'
  BY <1>0, <1>4 DEF OpenIsUnused, TypeInv, TypeOK, Receipt
<1>9. OwnerHoldsGrant'
  BY <1>0, <1>1, <1>2, <1>3 DEF OwnerHoldsGrant, Unsent
<1>10. ActiveIsGranted'
  BY <1>0 DEF ActiveIsGranted
<1> QED BY <1>5, <1>6, <1>7, <1>8, <1>9, <1>10

\* A proven not-sent write gives the grant back to the receipt.
LEMMA RecordNotSentKeepsGrants ==
    ASSUME TypeInv, GrantInv, NEW e \in Executors, RecordNotSent(e)
    PROVE  GrantInv'
<1> DEFINE New == [receipt EXCEPT !.status = "not_sent_retryable", !.applied = "no"]
<1>1. CASE ~Owns(e)
  <2>1. UNCHANGED <<receipt, sent>> /\ Return(e)
    BY <1>1 DEF RecordNotSent, SaveAndReturn, provider
  <2> QED BY <2>1, ReturnIsQuiet, QuietKeepsGrants
<1>2. CASE Owns(e)
  <2> USE DEF GrantInv
  <2>0. Unsent(e) /\ sent' = sent
    BY DEF RecordNotSent, Unsent, UnsentSteps, provider
  <2>1. receipt' = [New EXCEPT !.leaseLive = FALSE] /\ Return(e)
    BY <1>2 DEF RecordNotSent, SaveAndReturn
  <2>2. /\ receipt'.owner = receipt.owner
        /\ receipt'.fence = receipt.fence
        /\ receipt'.consumed = receipt.consumed
        /\ receipt'.activeAuth = receipt.activeAuth
        /\ receipt'.status = "not_sent_retryable"
        /\ receipt.activeAuth \in Grants
    BY <2>1 DEF Receipt, TypeInv, TypeOK
  <2>3. me'[e].pc = "idle" /\ \A f \in Executors \ {e} : me'[f] = me[f]
    BY <2>1 DEF Return, Idle, TypeInv, TypeOK
  <2>4. \A f \in Executors : Unsent(f)' => Unsent(f) /\ f # e /\ me'[f] = me[f]
    BY <2>3 DEF Unsent, UnsentSteps
  <2>5. \A g \in Grants : Used(g)' => Used(g)
    BY <2>0, <2>4 DEF Used, Unsent
  <2>6. me[e].grant = receipt.activeAuth
    BY <1>2, <2>0 DEF OwnerHoldsGrant, Owns
  <2>7. ~Used(receipt.activeAuth)'
    <3>1. receipt'.activeAuth = me[e].grant
      BY <2>2, <2>6
    <3>2. \A r \in sent' : r.grant # receipt'.activeAuth
      BY <2>0, <3>1 DEF UnsentIsUnused
    <3>3. \A f \in Executors : Unsent(f)' => me'[f].grant # receipt'.activeAuth
      BY <2>0, <2>4, <3>1 DEF UnsentIsUnused
    <3> QED BY <3>2, <3>3 DEF Used
  <2>8. OneWritePerGrant'
    BY <2>0 DEF OneWritePerGrant
  <2>9. UsedIsGranted'
    BY <2>2, <2>5 DEF UsedIsGranted
  <2>10. UnsentIsUnused'
    BY <2>0, <2>4 DEF UnsentIsUnused
  <2>11. OpenIsUnused'
    BY <2>2, <2>7 DEF OpenIsUnused
  <2>12. OwnerHoldsGrant'
    BY <2>2, <2>3, <2>4 DEF OwnerHoldsGrant, Unsent, UnsentSteps, Open
  <2>13. ActiveIsGranted'
    BY <2>2 DEF ActiveIsGranted
  <2> QED BY <2>8, <2>9, <2>10, <2>11, <2>12, <2>13
<1> QED BY <1>1, <1>2

LEMMA WriteKeepsGrants ==
    ASSUME TypeInv, GrantInv, NEW e \in Executors, Write(e)
    PROVE  GrantInv'
<1>0. /\ receipt \in Receipt /\ me[e] \in Local
      /\ SameClaim(receipt) /\ SameClaim(Unproven)
      /\ Unproven.status \notin Open
  BY DEF TypeInv, TypeOK, SameClaim, Unproven, Receipt, Status, Acknowledged, Open
<1>1. CASE MarkSending(e)
  BY <1>1, MarkSendingKeepsGrants
<1>2. CASE Dispatch(e)
  BY <1>2, DispatchKeepsGrants
<1>3. CASE RecordNotSent(e)
  BY <1>3, RecordNotSentKeepsGrants
<1>4. CASE BackOff(e) \/ ConnectionRefused(e) \/ ReceiveAck(e)
           \/ ReceiveRejection(e) \/ ReceiveNothing(e) \/ ReceiveGarbled(e)
  <2>1. Quiet(e)
    BY <1>4, GotoIsQuiet DEF BackOff, ConnectionRefused, ReceiveAck,
       ReceiveRejection, ReceiveNothing, ReceiveGarbled, Step, UnsentSteps,
       Unsent, provider
  <2> QED BY <2>1, QuietKeepsGrants
<1>5. CASE RetryWrite(e)
  <2>1. CASE Return(e)
    BY <1>5, <2>1, ReturnIsQuiet, QuietKeepsGrants DEF RetryWrite, provider
  <2>2. CASE me' = [me EXCEPT ![e] = [@ EXCEPT !.pc = "dispatch",
                                               !.try = me[e].try + 1]]
    <3>1. /\ me'[e].pc = "dispatch" /\ me'[e].grant = me[e].grant
          /\ me'[e].fence = me[e].fence
          /\ \A f \in Executors \ {e} : me'[f] = me[f]
      BY <2>2 DEF TypeInv, TypeOK, Local
    <3>2. Quiet(e)
      BY <1>5, <3>1 DEF RetryWrite, Retryable, Quiet, Unsent, UnsentSteps, provider
    <3> QED BY <3>2, QuietKeepsGrants
  <2> QED BY <1>5, <2>1, <2>2 DEF RetryWrite
<1>6. CASE RecordRejection(e)
  <2> DEFINE New == [receipt EXCEPT !.status = "rejected_not_applied", !.applied = "no"]
  <2>1. SameClaim(New) /\ New.status \notin Open
    BY <1>0 DEF SameClaim, Receipt, Status, Terminal, Open
  <2>2. SaveAndReturn(e, New) /\ UNCHANGED sent
    BY <1>6 DEF RecordRejection, provider
  <2> HIDE DEF New
  <2> QED BY <2>1, <2>2, SaveAndReturnIsQuiet, QuietKeepsGrants
<1>7. CASE RecordUnknown(e)
  <2> DEFINE New == [receipt EXCEPT !.status = "outcome_unknown",
                                    !.uncertain = @ \union {MyMark(e)}]
  <2>1. SameClaim(New) /\ New.status \notin Open
    <3>1. New \in Receipt
      BY <1>0, MarkType DEF TypeInv, Receipt, Status, Uncertain
    <3> QED BY <1>0, <3>1 DEF SameClaim, Receipt, Open
  <2>2. SaveAndReturn(e, New) /\ UNCHANGED sent
    BY <1>7 DEF RecordUnknown, provider
  <2> HIDE DEF New
  <2> QED BY <2>1, <2>2, SaveAndReturnIsQuiet, QuietKeepsGrants
<1>8. CASE RecordAck(e)
  <2> DEFINE New == [receipt EXCEPT !.status = "applied_pending_readback",
                                    !.applied = "yes", !.ackValidated = FALSE]
  <2>1. SameClaim(New) /\ New.status \notin Open
    <3>1. New \in Receipt
      BY <1>0 DEF Receipt, Status, Acknowledged
    <3> QED BY <1>0, <3>1 DEF SameClaim, Receipt, Open
  <2>2. SaveThen(e, New, "validate") /\ UNCHANGED sent
    BY <1>8 DEF RecordAck, provider
  <2> HIDE DEF New
  <2> QED BY <2>1, <2>2, SaveThenIsQuiet, QuietKeepsGrants DEF Step, UnsentSteps
<1>9. CASE AcceptAck(e)
  <2> DEFINE New == [receipt EXCEPT !.ackValidated = TRUE]
  <2>1. SameClaim(New) /\ New.status = receipt.status
    <3>1. New \in Receipt
      BY <1>0 DEF Receipt
    <3> QED BY <1>0, <3>1 DEF SameClaim, Receipt
  <2>2. SaveThen(e, New, "readback") /\ UNCHANGED sent
    BY <1>9 DEF AcceptAck, provider
  <2> HIDE DEF New
  <2> QED BY <2>1, <2>2, SaveThenIsQuiet, QuietKeepsGrants DEF Step, UnsentSteps
<1>10. CASE RejectAck(e)
  BY <1>0, <1>10, SaveAndReturnIsQuiet, QuietKeepsGrants DEF RejectAck, provider
<1> QED BY <1>1, <1>2, <1>3, <1>4, <1>5, <1>6, <1>7, <1>8, <1>9, <1>10 DEF Write

LEMMA RecoverKeepsGrants ==
    ASSUME TypeInv, GrantInv, NEW e \in Executors, Recover(e)
    PROVE  GrantInv'
<1> SUFFICES Quiet(e)
  BY QuietKeepsGrants
<1>0. /\ receipt \in Receipt /\ me \in [Executors -> Local] /\ me[e] \in Local
      /\ SameClaim(Unproven) /\ Unproven.status \notin Open
  BY DEF TypeInv, TypeOK, SameClaim, Unproven, Receipt, Status, Acknowledged, Open
<1>1. sent' = sent
  BY DEF Recover, Resume, ProveEffect, ReadbackFails, StartScan, NoScan,
     ReadPages, ScanFails, CompleteScan, DecideScan, FlagEvidence,
     ConcludeFailure, provider
<1>2. CASE Resume(e)
  <2>1. CASE receipt.ackValidated
    BY <1>1, <1>2, <2>1, GotoIsQuiet DEF Resume, Step, UnsentSteps
  <2>2. CASE ~receipt.ackValidated
    BY <1>0, <1>1, <1>2, <2>2, SaveAndReturnIsQuiet DEF Resume
  <2> QED BY <2>1, <2>2
<1>3. CASE ProveEffect(e)
  <2> DEFINE New == [receipt EXCEPT !.status = "verified"]
  <2>1. New \in Receipt
    BY <1>0 DEF Receipt, Status, Terminal
  <2>2. SameClaim(New) /\ New.status \notin Open
    BY <1>0, <2>1 DEF SameClaim, Receipt, Open
  <2>3. SaveAndReturn(e, New)
    BY <1>3 DEF ProveEffect
  <2> HIDE DEF New
  <2> QED BY <1>1, <2>2, <2>3, SaveAndReturnIsQuiet
<1>4. CASE ReadbackFails(e) \/ ScanFails(e)
  BY <1>1, <1>4, GotoIsQuiet DEF ReadbackFails, ScanFails, Step, UnsentSteps
<1>5. CASE StartScan(e)
  <2>1. CASE /\ receipt' = [receipt EXCEPT !.evidence = "partial", !.fresh = FALSE,
                                           !.scanFence = me[e].fence]
             /\ me' = [me EXCEPT ![e] = [@ EXCEPT !.pc = "pages",
                                               !.base = Cardinality(landed)]]
    <3>1. /\ receipt'.owner = receipt.owner
          /\ receipt'.fence = receipt.fence
          /\ receipt'.consumed = receipt.consumed
          /\ receipt'.activeAuth = receipt.activeAuth
          /\ receipt'.status = receipt.status
      BY <1>0, <2>1 DEF Receipt
    <3>2. me'[e].pc = "pages" /\ \A f \in Executors \ {e} : me'[f] = me[f]
      BY <1>0, <2>1 DEF Local
    <3> QED BY <1>1, <3>1, <3>2 DEF Quiet, UnsentSteps
  <2>2. CASE UNCHANGED receipt /\ Return(e)
    BY <1>1, <2>2, ReturnIsQuiet
  <2> QED BY <1>5, <2>1, <2>2 DEF StartScan
<1>6. CASE NoScan(e)
  <2> DEFINE New == [receipt EXCEPT !.status = "recovery_required"]
  <2>1. New \in Receipt
    BY <1>0 DEF Receipt, Status, Uncertain
  <2>2. SameClaim(New) /\ New.status \notin Open
    BY <1>0, <2>1 DEF SameClaim, Receipt, Open
  <2>3. SaveAndReturn(e, New)
    BY <1>6 DEF NoScan
  <2> HIDE DEF New
  <2> QED BY <1>1, <2>2, <2>3, SaveAndReturnIsQuiet
<1>7. CASE ReadPages(e)
  <2>1. ASSUME NEW n \in me[e].base .. Cardinality(landed),
               me' = [me EXCEPT ![e] = [@ EXCEPT !.pc = "scanned", !.found = n]]
        PROVE  Quiet(e)
    <3>1. me'[e].pc = "scanned" /\ \A f \in Executors \ {e} : me'[f] = me[f]
      BY <1>0, <2>1 DEF Local
    <3> QED BY <1>1, <1>7, <3>1 DEF ReadPages, Quiet, UnsentSteps
  <2>2. ASSUME Return(e) PROVE Quiet(e)
    BY <1>1, <1>7, <2>2, ReturnIsQuiet DEF ReadPages
  <2> QED BY <1>7, <2>1, <2>2 DEF ReadPages
<1>8. CASE CompleteScan(e)
  <2> DEFINE New == [receipt EXCEPT
                       !.evidence = IF me[e].found = 0 THEN "absent" ELSE "found",
                       !.fresh = TRUE]
  <2>1. New \in Receipt
    BY <1>0 DEF Receipt
  <2>2. SameClaim(New) /\ New.status = receipt.status
    BY <1>0, <2>1 DEF SameClaim, Receipt
  <2>3. SaveThen(e, New, "decide")
    BY <1>8 DEF CompleteScan
  <2> HIDE DEF New
  <2> QED BY <1>1, <2>2, <2>3, SaveThenIsQuiet DEF Step, UnsentSteps
<1>9. CASE DecideScan(e)
  <2>1. ScanVerdict(me[e].found) \in Receipt
    BY <1>0 DEF ScanVerdict, Receipt, Status, Terminal, Uncertain
  <2>2. SameClaim(ScanVerdict(me[e].found))
        /\ ScanVerdict(me[e].found).status \notin Open
    BY <1>0, <2>1 DEF ScanVerdict, SameClaim, Receipt, Open
  <2> QED BY <1>1, <1>9, <2>2, SaveAndReturnIsQuiet DEF DecideScan
<1>10. CASE FlagEvidence(e)
  <2> DEFINE New == [receipt EXCEPT !.evidence = "failed"]
  <2>1. New \in Receipt
    BY <1>0 DEF Receipt
  <2>2. SameClaim(New) /\ New.status = receipt.status
    BY <1>0, <2>1 DEF SameClaim, Receipt
  <2>3. CASE UNCHANGED receipt /\ Goto(e, "conclude")
    BY <1>1, <2>3, GotoIsQuiet DEF Step, UnsentSteps
  <2>4. CASE SaveThen(e, New, "conclude")
    <3> HIDE DEF New
    <3> QED BY <1>1, <2>2, <2>4, SaveThenIsQuiet DEF Step, UnsentSteps
  <2> QED BY <1>10, <2>3, <2>4 DEF FlagEvidence
<1>11. CASE ConcludeFailure(e)
  <2> DEFINE New == [receipt EXCEPT !.status = "outcome_unknown"]
  <2>1. New \in Receipt
    BY <1>0 DEF Receipt, Status, Uncertain
  <2>2. SameClaim(New) /\ New.status \notin Open
    BY <1>0, <2>1 DEF SameClaim, Receipt, Open
  <2>3. SaveAndReturn(e, New) \/ SaveAndReturn(e, Unproven)
    BY <1>11 DEF ConcludeFailure
  <2> HIDE DEF New
  <2> QED BY <1>0, <1>1, <2>2, <2>3, SaveAndReturnIsQuiet
<1> QED BY <1>2, <1>3, <1>4, <1>5, <1>6, <1>7, <1>8, <1>9, <1>10, <1>11 DEF Recover

\* Grants are untouched by a step that leaves the processes and the requests
\* alone and does not reopen the receipt.
LEMMA AmbientKeepsGrants ==
    ASSUME GrantInv, UNCHANGED <<me, sent>>,
           receipt'.owner = receipt.owner, receipt'.fence = receipt.fence,
           receipt'.consumed = receipt.consumed,
           receipt'.activeAuth = receipt.activeAuth,
           \/ receipt'.status = receipt.status
           \/ receipt'.status \notin Open /\ receipt.status \notin Open
    PROVE  GrantInv'
<1> USE DEF GrantInv
<1>1. OneWritePerGrant' /\ UnsentIsUnused' /\ ActiveIsGranted'
  BY DEF OneWritePerGrant, UnsentIsUnused, Unsent, ActiveIsGranted
<1>2. UsedIsGranted' /\ OpenIsUnused'
  BY DEF UsedIsGranted, OpenIsUnused, Used, Unsent
<1>3. OwnerHoldsGrant'
  BY DEF OwnerHoldsGrant, Unsent
<1> QED BY <1>1, <1>2, <1>3

LEMMA EnvironmentKeepsGrants ==
    ASSUME TypeInv, GrantInv,
           AuthorizeReattempt \/ Provider \/ Clock
             \/ \E e \in Executors : Crash(e)
    PROVE  GrantInv'
<1>0. receipt \in Receipt
  BY DEF TypeInv, TypeOK
<1>1. CASE AuthorizeReattempt
  <2>1. /\ receipt.status = "outcome_unknown"
        /\ receipt'.status = "authorized_retry"
        /\ receipt'.owner = receipt.owner
        /\ receipt'.fence = receipt.fence
        /\ receipt'.consumed = receipt.consumed
        /\ receipt'.activeAuth = receipt.activeAuth
        /\ UNCHANGED <<me, sent>>
    BY <1>0, <1>1 DEF AuthorizeReattempt, Authorizable, Receipt, provider
  <2> QED BY <2>1, AmbientKeepsGrants DEF Open
<1>2. CASE Provider
  BY <1>2, AmbientKeepsGrants DEF Provider, Land, Refuse, Lose
<1>3. CASE Clock
  <2>1. /\ receipt'.status = receipt.status
        /\ receipt'.owner = receipt.owner
        /\ receipt'.fence = receipt.fence
        /\ receipt'.consumed = receipt.consumed
        /\ receipt'.activeAuth = receipt.activeAuth
        /\ UNCHANGED <<me, sent>>
    BY <1>0, <1>3 DEF Clock, ExpireLease, EvidenceAges, CooldownChanges,
       Receipt, provider
  <2> QED BY <2>1, AmbientKeepsGrants
<1>4. CASE \E e \in Executors : Crash(e)
  BY <1>4, ReturnIsQuiet, QuietKeepsGrants DEF Crash, provider
<1> QED BY <1>1, <1>2, <1>3, <1>4

LEMMA InitGrants == Init => GrantInv
<1> SUFFICES ASSUME Init PROVE GrantInv
  OBVIOUS
<1>1. \A e \in Executors : me[e].pc = "idle"
  BY DEF Init, Idle
<1>2. /\ receipt.activeAuth = 0
      /\ \/ receipt.status = "none" /\ sent = {}
         \/ receipt.status = "legacy" /\ sent = {LegacyRequest}
  BY DEF Init, NewReceipt
<1>3. \A r \in sent : r = LegacyRequest /\ r.grant = 0
  BY <1>2 DEF LegacyRequest
<1>4. OneWritePerGrant
  BY <1>3 DEF OneWritePerGrant
<1>5. ActiveIsGranted
  BY <1>2 DEF ActiveIsGranted
<1>6. UsedIsGranted
  BY <1>1, <1>3 DEF UsedIsGranted, Used, Unsent, UnsentSteps
<1>7. UnsentIsUnused
  BY <1>1 DEF UnsentIsUnused, Unsent, UnsentSteps
<1>8. OpenIsUnused
  BY <1>1, <1>2 DEF OpenIsUnused, Open, Used, Unsent, UnsentSteps
<1>9. OwnerHoldsGrant
  BY <1>1 DEF OwnerHoldsGrant, Unsent, UnsentSteps
<1> QED BY <1>4, <1>5, <1>6, <1>7, <1>8, <1>9 DEF GrantInv

LEMMA GrantInvariant == Spec => []GrantInv
<1>1. TypeInv /\ GrantInv /\ [Next]_vars => GrantInv'
  <2> SUFFICES ASSUME TypeInv, GrantInv, [Next]_vars PROVE GrantInv'
    OBVIOUS
  <2>1. CASE Next
    BY <2>1, BeginKeepsGrants, WriteKeepsGrants, RecoverKeepsGrants,
       EnvironmentKeepsGrants DEF Next, Work
  <2>2. CASE UNCHANGED vars
    BY <2>2, AmbientKeepsGrants DEF vars
  <2> QED BY <2>1, <2>2
<1> QED BY <1>1, InitGrants, TypeInvariant, PTL DEF Spec

\* However many processes claim, crash, lose their lease or still send after
\* losing it, two requests never leave under one grant: the first reservation
\* and each consumed authorization send at most one write.
THEOREM AtMostOneWritePerGrant == Spec => []OneWritePerGrant
<1>1. GrantInv => OneWritePerGrant
  BY DEF GrantInv
<1> QED BY <1>1, GrantInvariant, PTL

\* When the receipt says not_sent_retryable, no request of its current grant is
\* out in the world, so the same-key call that resumes it duplicates nothing.
THEOREM ResumingDuplicatesNothing == Spec => []ResumeIsUnambiguous
<1>1. GrantInv => ResumeIsUnambiguous
  BY DEF GrantInv, OpenIsUnused, Open, Used, ResumeIsUnambiguous
<1> QED BY <1>1, GrantInvariant, PTL

-----------------------------------------------------------------------------
(* TerminalIsReleased is inductive: every save of a terminal status gives  *)
(* the lease back, and no claim takes a terminal receipt.                  *)

LEMMA TerminalStep ==
    ASSUME TypeInv, TerminalIsReleased, [Next]_vars
    PROVE  /\ TerminalIsReleased'
           /\ receipt.status \in Terminal =>
                [receipt' EXCEPT !.fresh = receipt.fresh] = receipt
<1>0. receipt \in Receipt
  BY DEF TypeInv, TypeOK
<1> DEFINE Stays == receipt' = receipt
           Frees == receipt'.leaseLive = FALSE /\ receipt.status \notin Terminal
           Works == receipt'.status \notin Terminal /\ receipt.status \notin Terminal
           Ages  == receipt' = [receipt EXCEPT !.fresh = FALSE]
<1>1. SUFFICES Stays \/ Frees \/ Works \/ Ages
  <2>1. CASE Stays
    BY <1>0, <2>1 DEF TerminalIsReleased, Receipt
  <2>2. CASE Frees
    BY <2>2 DEF TerminalIsReleased
  <2>3. CASE Works
    BY <2>3 DEF TerminalIsReleased
  <2>4. CASE Ages
    BY <1>0, <2>4 DEF TerminalIsReleased, Receipt
  <2> QED BY <2>1, <2>2, <2>3, <2>4
<1>2. \A e \in Executors : Owns(e) => receipt.status \notin Terminal
  BY DEF Owns, TerminalIsReleased
<1>3. ASSUME NEW e \in Executors, NEW new \in Receipt, SaveAndReturn(e, new)
      PROVE  Stays \/ Frees
  <2>1. CASE Owns(e)
    BY <1>2, <1>3, <2>1 DEF SaveAndReturn, Receipt
  <2>2. CASE ~Owns(e)
    BY <1>3, <2>2 DEF SaveAndReturn
  <2> QED BY <2>1, <2>2
<1>4. ASSUME NEW e \in Executors, NEW new, NEW step, SaveThen(e, new, step),
             Owns(e) => new.status \notin Terminal
      PROVE  Stays \/ Works
  BY <1>2, <1>4 DEF SaveThen
<1>5. ASSUME NEW e \in Executors, NEW new \in Receipt, NEW step,
             Claim(e, new, step), new.status \notin Terminal,
             receipt.status \notin Terminal
      PROVE  Works
  BY <1>5 DEF Claim, Receipt
<1>6. ASSUME NEW e \in Executors, Begin(e) PROVE Works
  <2> USE <1>0 DEF Terminal
  <2>1. CASE BeginFresh(e)
    <3>1. [receipt EXCEPT !.status = "reserved"] \in Receipt
      BY DEF Receipt, Status
    <3> QED BY <2>1, <3>1, <1>5 DEF BeginFresh, Receipt
  <2>2. CASE BeginLegacyRecovery(e)
    <3>1. [receipt EXCEPT !.status = "recovery_required"] \in Receipt
      BY DEF Receipt, Status, Uncertain
    <3> QED BY <2>2, <3>1, <1>5 DEF BeginLegacyRecovery, Receipt
  <2>3. CASE BeginResumeNotSent(e) \/ BeginRecovery(e) \/ BeginReadback(e)
    BY <2>3, <1>5 DEF BeginResumeNotSent, BeginRecovery, BeginReadback,
       Uncertain, Acknowledged
  <2>4. CASE BeginAuthorized(e)
    <3>1. PICK a \in Pending : Claim(e, ConsumeAuthorization(a), "reserve")
      BY <2>4 DEF BeginAuthorized
    <3>2. a \in Grants
      BY <3>1, BoundAssumption DEF Pending, Receipt, Grants
    <3>3. ConsumeAuthorization(a) \in Receipt
          /\ ConsumeAuthorization(a).status = "reserved"
      BY <3>2 DEF ConsumeAuthorization, Receipt, Status
    <3> QED BY <2>4, <3>1, <3>3, <1>5 DEF BeginAuthorized
  <2>5. CASE BeginAfterCrash(e)
    <3>1. AfterCrash \in Receipt /\ AfterCrash.status = "recovery_required"
      BY DEF AfterCrash, Receipt, Status, Uncertain
    <3> QED BY <2>5, <3>1, <1>5 DEF BeginAfterCrash
  <2> QED BY <1>6, <2>1, <2>2, <2>3, <2>4, <2>5 DEF Begin
<1>7. ASSUME NEW e \in Executors, Write(e) PROVE Stays \/ Frees \/ Works
  <2> USE <1>0 DEF Terminal
  <2>1. CASE MarkSending(e)
    BY <1>2, <2>1 DEF MarkSending, Receipt
  <2>2. CASE BackOff(e) \/ ConnectionRefused(e) \/ Dispatch(e) \/ ReceiveAck(e)
             \/ ReceiveRejection(e) \/ ReceiveNothing(e) \/ ReceiveGarbled(e)
             \/ RetryWrite(e)
    BY <2>2 DEF BackOff, ConnectionRefused, Dispatch, ReceiveAck,
       ReceiveRejection, ReceiveNothing, ReceiveGarbled, RetryWrite
  <2>3. CASE RecordNotSent(e)
    <3>1. [receipt EXCEPT !.status = "not_sent_retryable", !.applied = "no"] \in Receipt
      BY DEF Receipt, Status
    <3> QED BY <2>3, <3>1, <1>3 DEF RecordNotSent
  <2>4. CASE RecordRejection(e)
    <3>1. [receipt EXCEPT !.status = "rejected_not_applied", !.applied = "no"] \in Receipt
      BY DEF Receipt, Status
    <3> QED BY <2>4, <3>1, <1>3 DEF RecordRejection
  <2>5. CASE RecordUnknown(e)
    <3>1. [receipt EXCEPT !.status = "outcome_unknown",
                          !.uncertain = @ \union {MyMark(e)}] \in Receipt
      BY MarkType DEF TypeInv, Receipt, Status, Uncertain
    <3>2. SaveAndReturn(e, [receipt EXCEPT !.status = "outcome_unknown",
                                           !.uncertain = @ \union {MyMark(e)}])
      BY <2>5 DEF RecordUnknown
    <3> QED BY <3>1, <3>2, <1>3
  <2>6. CASE RecordAck(e)
    <3>1. SaveThen(e, [receipt EXCEPT !.status = "applied_pending_readback",
                         !.applied = "yes", !.ackValidated = FALSE], "validate")
      BY <2>6 DEF RecordAck
    <3>2. [receipt EXCEPT !.status = "applied_pending_readback",
             !.applied = "yes", !.ackValidated = FALSE].status \notin Terminal
      BY DEF Receipt
    <3> QED BY <3>1, <3>2, <1>4
  <2>7. CASE AcceptAck(e)
    <3>1. SaveThen(e, [receipt EXCEPT !.ackValidated = TRUE], "readback")
      BY <2>7 DEF AcceptAck
    <3>2. Owns(e) => [receipt EXCEPT !.ackValidated = TRUE].status \notin Terminal
      BY <1>2 DEF Receipt
    <3> QED BY <3>1, <3>2, <1>4
  <2>8. CASE RejectAck(e)
    <3>1. Unproven \in Receipt
      BY DEF Unproven, Receipt, Status, Acknowledged
    <3> QED BY <2>8, <3>1, <1>3 DEF RejectAck
  <2> QED BY <1>7, <2>1, <2>2, <2>3, <2>4, <2>5, <2>6, <2>7, <2>8 DEF Write
<1>8. ASSUME NEW e \in Executors, Recover(e) PROVE Stays \/ Frees \/ Works
  <2> USE <1>0
  <2>0. Unproven \in Receipt
    BY DEF Unproven, Receipt, Status, Acknowledged
  <2>1. CASE Resume(e)
    BY <2>0, <2>1, <1>3 DEF Resume
  <2>2. CASE ProveEffect(e)
    <3>1. [receipt EXCEPT !.status = "verified"] \in Receipt
      BY DEF Receipt, Status, Terminal
    <3> QED BY <2>2, <3>1, <1>3 DEF ProveEffect
  <2>3. CASE ReadbackFails(e) \/ ScanFails(e) \/ ReadPages(e)
    BY <2>3 DEF ReadbackFails, ScanFails, ReadPages
  <2>4. CASE StartScan(e)
    BY <1>2, <2>4 DEF StartScan, Receipt
  <2>5. CASE NoScan(e)
    <3>1. [receipt EXCEPT !.status = "recovery_required"] \in Receipt
      BY DEF Receipt, Status, Uncertain
    <3> QED BY <2>5, <3>1, <1>3 DEF NoScan
  <2>6. CASE CompleteScan(e)
    <3> DEFINE New == [receipt EXCEPT
                         !.evidence = IF me[e].found = 0 THEN "absent" ELSE "found",
                         !.fresh = TRUE]
    <3>1. SaveThen(e, New, "decide")
      BY <2>6 DEF CompleteScan
    <3>2. Owns(e) => New.status \notin Terminal
      BY <1>2 DEF Receipt
    <3> QED BY <3>1, <3>2, <1>4
  <2>7. CASE DecideScan(e)
    <3>1. ScanVerdict(me[e].found) \in Receipt
      BY DEF ScanVerdict, Receipt, Status, Terminal, Uncertain
    <3> QED BY <2>7, <3>1, <1>3 DEF DecideScan
  <2>8. CASE FlagEvidence(e)
    <3> DEFINE New == [receipt EXCEPT !.evidence = "failed"]
    <3>1. UNCHANGED receipt \/ SaveThen(e, New, "conclude")
      BY <2>8 DEF FlagEvidence
    <3>2. Owns(e) => New.status \notin Terminal
      BY <1>2 DEF Receipt
    <3> QED BY <3>1, <3>2, <1>4
  <2>9. CASE ConcludeFailure(e)
    <3>1. [receipt EXCEPT !.status = "outcome_unknown"] \in Receipt
      BY DEF Receipt, Status, Uncertain
    <3>2. \/ SaveAndReturn(e, Unproven)
          \/ SaveAndReturn(e, [receipt EXCEPT !.status = "outcome_unknown"])
      BY <2>9 DEF ConcludeFailure
    <3> QED BY <2>0, <3>1, <3>2, <1>3
  <2> QED BY <1>8, <2>1, <2>2, <2>3, <2>4, <2>5, <2>6, <2>7, <2>8, <2>9 DEF Recover
<1>9. CASE AuthorizeReattempt
  BY <1>0, <1>9 DEF AuthorizeReattempt, Authorizable, Receipt, Terminal
<1>10. CASE Provider \/ \E e \in Executors : Crash(e)
  BY <1>10 DEF Provider, Land, Refuse, Lose, Crash
<1>11. CASE Clock
  BY <1>0, <1>11 DEF Clock, ExpireLease, EvidenceAges, CooldownChanges, Receipt,
     TerminalIsReleased
<1>12. CASE UNCHANGED vars
  BY <1>12 DEF vars
<1> QED BY <1>6, <1>7, <1>8, <1>9, <1>10, <1>11, <1>12 DEF Next, Work

\* verified and rejected_not_applied are final: no owner, stale or current, and
\* no later claim, recovery or authorization changes what such a receipt says.
THEOREM TerminalReceiptsNeverChange == Spec => TerminalReceiptIsFinal
<1>1. Init => TerminalIsReleased
  BY DEF Init, NewReceipt, TerminalIsReleased
<1>2. TypeInv /\ TerminalIsReleased /\ [Next]_vars =>
        /\ TerminalIsReleased'
        /\ [receipt.status \in Terminal =>
              [receipt' EXCEPT !.fresh = receipt.fresh] = receipt]_vars
  BY TerminalStep
<1> QED BY <1>1, <1>2, TypeInvariant, PTL DEF Spec, TerminalReceiptIsFinal

-----------------------------------------------------------------------------
(* What each step does, field by field: a process leaves, goes on without  *)
(* a save, saves and goes on, saves and ends its call, or claims; or no    *)
(* process moves.  The invariants below are shown over these descriptions. *)

OthersStay(e) == \A f \in Executors \ {e} : me'[f] = me[f]

\* A crash, or a save that lost the receipt: nothing but the process changes.
Left(e) ==
    /\ UNCHANGED <<receipt, provider>>
    /\ OthersStay(e) /\ me'[e] = Idle

From(e, old, new) == me[e].pc = old /\ me'[e].pc = new

Went(e) ==
    /\ UNCHANGED receipt
    /\ OthersStay(e)
    /\ me'[e].fence = me[e].fence /\ me'[e].grant = me[e].grant
    /\ \/ /\ From(e, "dispatch", "await")
          /\ sent' = sent \union {Req(e)} /\ wire' = wire \union {Req(e)}
          /\ UNCHANGED <<landed, refused>>
       \/ /\ UNCHANGED provider
          /\ \/ From(e, "dispatch", "backoff") \/ From(e, "dispatch", "notSent")
             \/ From(e, "await", "acked") /\ Req(e) \in landed
                  /\ me'[e].try = me[e].try
             \/ From(e, "await", "refusal") /\ Req(e) \in refused
                  /\ me'[e].try = me[e].try
             \/ From(e, "await", "opaque")
             \/ From(e, "await", "fail") /\ DecodeFaults
             \/ From(e, "notSent", "dispatch")
             \/ From(e, "resume", "readback") \/ From(e, "readback", "fail")
             \/ From(e, "pages", "scanned") /\ me'[e].found <= Cardinality(landed)
             \/ From(e, "pages", "fail") \/ From(e, "fail", "conclude")

\* A save never touches the claim.
KeepsClaim ==
    /\ receipt'.owner = receipt.owner /\ receipt'.fence = receipt.fence
    /\ receipt'.issued = receipt.issued /\ receipt'.consumed = receipt.consumed
    /\ receipt'.activeAuth = receipt.activeAuth

KeepsOutcome ==
    /\ receipt'.status = receipt.status /\ receipt'.applied = receipt.applied
KeepsRecord ==
    /\ receipt'.mark = receipt.mark /\ receipt'.uncertain = receipt.uncertain
KeepsEvidence ==
    /\ receipt'.evidence = receipt.evidence
    /\ receipt'.scanFence = receipt.scanFence

Saved(e) ==
    /\ Owns(e) /\ KeepsClaim /\ receipt'.leaseLive
    /\ UNCHANGED provider
    /\ OthersStay(e) /\ me'[e].fence = me[e].fence
    /\ \/ /\ From(e, "reserve", "dispatch")
          /\ me'[e].grant = receipt.activeAuth
          /\ receipt'.status = "sending"
          /\ receipt'.mark = [fence |-> me[e].fence, grant |-> receipt.activeAuth]
          /\ receipt'.applied = receipt.applied
          /\ receipt'.uncertain = receipt.uncertain /\ KeepsEvidence
       \/ /\ From(e, "acked", "validate")
          /\ receipt'.status = "applied_pending_readback"
          /\ receipt'.applied = "yes"
          /\ KeepsRecord /\ KeepsEvidence
       \/ /\ From(e, "validate", "readback")
          /\ KeepsOutcome /\ KeepsRecord /\ KeepsEvidence
       \/ /\ From(e, "scan", "pages")
          /\ receipt'.evidence # "none" /\ receipt'.scanFence = me[e].fence
          /\ KeepsOutcome /\ KeepsRecord
       \/ /\ From(e, "scanned", "decide")
          /\ receipt'.scanFence = receipt.scanFence
          /\ me'[e].found = me[e].found
          /\ KeepsOutcome /\ KeepsRecord
       \/ /\ From(e, "fail", "conclude")
          /\ receipt.evidence # "none" /\ receipt'.evidence # "none"
          /\ receipt'.scanFence = receipt.scanFence
          /\ KeepsOutcome /\ KeepsRecord

Ended(e) ==
    /\ Owns(e) /\ KeepsClaim /\ ~receipt'.leaseLive
    /\ UNCHANGED provider
    /\ OthersStay(e) /\ me'[e] = Idle
    /\ receipt'.mark = receipt.mark /\ KeepsEvidence
    /\ \/ /\ me[e].pc \in {"notSent", "backoff"}
          /\ receipt'.status = "not_sent_retryable" /\ receipt'.applied = "no"
          /\ receipt'.uncertain = receipt.uncertain
       \/ /\ me[e].pc = "refusal"
          /\ receipt'.status = "rejected_not_applied" /\ receipt'.applied = "no"
          /\ receipt'.uncertain = receipt.uncertain
       \/ /\ me[e].pc = "opaque"
          /\ receipt'.status = "outcome_unknown"
          /\ receipt'.applied = receipt.applied
          /\ receipt'.uncertain = receipt.uncertain \union {MyMark(e)}
       \/ /\ me[e].pc = "decide" /\ me[e].found = 1
          /\ receipt'.status = "verified" /\ receipt'.applied = "yes"
          /\ receipt'.uncertain = receipt.uncertain
       \/ /\ receipt'.applied = receipt.applied
          /\ receipt'.uncertain = receipt.uncertain
          /\ \/ /\ me[e].pc \in {"validate", "resume"}
                /\ receipt'.status = "write_succeeded_readback_validation_failed"
             \/ /\ me[e].pc = "readback" /\ landed # {}
                /\ receipt'.status = "verified"
             \/ /\ me[e].pc \in {"scan", "decide"}
                /\ receipt'.status \in Uncertain
             \/ /\ me[e].pc = "conclude" /\ receipt.applied = "yes"
                /\ receipt'.status = "write_succeeded_readback_validation_failed"
             \/ /\ me[e].pc = "conclude" /\ receipt.applied # "yes"
                /\ receipt'.status = "outcome_unknown"

Claimed(e) ==
    /\ ~Live(e) /\ ~receipt.leaseLive
    /\ receipt'.owner = e /\ receipt'.fence = receipt.fence + 1
    /\ receipt'.leaseLive
    /\ UNCHANGED provider
    /\ OthersStay(e) /\ me'[e].fence = receipt.fence + 1
    /\ receipt'.issued = receipt.issued
    /\ receipt'.mark = receipt.mark
    /\ receipt'.applied = receipt.applied
    /\ receipt'.scanFence = receipt.scanFence
    /\ \/ /\ receipt.status = "authorized_retry"
          /\ me'[e].pc = "reserve" /\ receipt'.status = "reserved"
          /\ receipt'.evidence = "none"
          /\ receipt'.uncertain = receipt.uncertain
          /\ \E a \in Pending :
               /\ Pending = {a}
               /\ receipt'.consumed = receipt.consumed \union {a}
               /\ receipt'.activeAuth = a
       \/ /\ receipt'.evidence = receipt.evidence
          /\ receipt'.consumed = receipt.consumed
          /\ receipt'.activeAuth = receipt.activeAuth
          /\ \/ /\ receipt.status = "sending"
                /\ me'[e].pc = "scan" /\ receipt'.status = "recovery_required"
                /\ receipt'.uncertain = receipt.uncertain \union {receipt.mark}
             \/ /\ receipt'.uncertain = receipt.uncertain
                /\ \/ /\ receipt.status \in {"none", "not_sent_retryable"}
                      /\ me'[e].pc = "reserve"
                      /\ receipt'.status \in {"reserved", receipt.status}
                   \/ /\ receipt.status \in {"legacy", "reserved"}
                      /\ me'[e].pc = "scan"
                      /\ receipt'.status = "recovery_required"
                   \/ /\ receipt.status \in Uncertain
                      /\ me'[e].pc = "scan"
                      /\ receipt'.status = receipt.status
                   \/ /\ receipt.status \in Acknowledged
                      /\ me'[e].pc = "resume"
                      /\ receipt'.status = receipt.status

\* No process moves: an authorization, the clock, or the provider.
Authorized ==
    /\ UNCHANGED <<me, provider>>
    /\ receipt.status = "outcome_unknown" /\ receipt'.status = "authorized_retry"
    /\ ~receipt.leaseLive /\ ~receipt'.leaseLive
    /\ receipt'.owner = receipt.owner /\ receipt'.fence = receipt.fence
    /\ receipt'.issued = receipt.issued + 1
    /\ receipt'.consumed = receipt.consumed
    /\ receipt'.activeAuth = receipt.activeAuth
    /\ receipt'.applied = receipt.applied
    /\ KeepsRecord /\ KeepsEvidence

Ticked ==
    /\ UNCHANGED <<me, provider>>
    /\ KeepsClaim /\ KeepsOutcome /\ KeepsRecord /\ KeepsEvidence
    /\ receipt'.leaseLive => receipt.leaseLive

Fated ==
    /\ UNCHANGED <<me, receipt, sent>>
    /\ \E r \in wire :
        /\ wire' = wire \ {r}
        /\ \/ landed' = landed \union {r} /\ refused' = refused
           \/ refused' = refused \union {r} /\ landed' = landed
           \/ landed' = landed /\ refused' = refused

ProcessStep(e) == Left(e) \/ Went(e) \/ Saved(e) \/ Ended(e) \/ Claimed(e)
OtherStep == Authorized \/ Ticked \/ Fated

LEMMA ReturnLeaves ==
    ASSUME TypeInv, NEW e \in Executors, Return(e), UNCHANGED <<receipt, provider>>
    PROVE  Left(e)
BY DEF Return, Left, OthersStay, TypeInv, TypeOK

LEMMA GotoMoves ==
    ASSUME TypeInv, NEW e \in Executors, NEW step, Goto(e, step)
    PROVE  /\ OthersStay(e) /\ me'[e].pc = step
           /\ me'[e].fence = me[e].fence /\ me'[e].grant = me[e].grant
           /\ me'[e].try = me[e].try /\ me'[e].found = me[e].found
BY DEF Goto, OthersStay, TypeInv, TypeOK, Local

\* A saved record, and the same record with its lease given back.
LEMMA ReleasedFields ==
    ASSUME NEW new \in Receipt
    PROVE  LET r == [new EXCEPT !.leaseLive = FALSE] IN
           /\ r.owner = new.owner /\ r.fence = new.fence
           /\ r.issued = new.issued /\ r.consumed = new.consumed
           /\ r.activeAuth = new.activeAuth /\ r.status = new.status
           /\ r.applied = new.applied /\ r.mark = new.mark
           /\ r.uncertain = new.uncertain /\ r.evidence = new.evidence
           /\ r.scanFence = new.scanFence /\ r.leaseLive = FALSE
BY DEF Receipt

LEMMA BeginShape ==
    ASSUME TypeInv, NEW e \in Executors, Begin(e)
    PROVE  Claimed(e)
<1>0. receipt \in Receipt /\ me \in [Executors -> Local]
  BY DEF TypeInv, TypeOK
<1>1. ASSUME NEW new \in Receipt, NEW step, Claimable(e), Claim(e, new, step),
             new.fence = receipt.fence
      PROVE  /\ ~Live(e) /\ ~receipt.leaseLive
             /\ receipt'.owner = e /\ receipt'.fence = receipt.fence + 1
             /\ receipt'.leaseLive
             /\ UNCHANGED provider
             /\ OthersStay(e)
             /\ me'[e].pc = step /\ me'[e].fence = receipt.fence + 1
             /\ receipt'.issued = new.issued /\ receipt'.mark = new.mark
             /\ receipt'.applied = new.applied
             /\ receipt'.scanFence = new.scanFence
             /\ receipt'.status = new.status
             /\ receipt'.evidence = new.evidence
             /\ receipt'.uncertain = new.uncertain
             /\ receipt'.consumed = new.consumed
             /\ receipt'.activeAuth = new.activeAuth
  <2>1. ~Live(e) /\ ~receipt.leaseLive /\ UNCHANGED provider
    BY <1>1 DEF Claimable, Claim
  <2>2. OthersStay(e) /\ me'[e].pc = step /\ me'[e].fence = receipt.fence + 1
    BY <1>0, <1>1 DEF Claim, OthersStay, Local
  <2>3. receipt' = [new EXCEPT !.owner = e, !.fence = @ + 1, !.leaseLive = TRUE]
    BY <1>1 DEF Claim
  <2> QED BY <1>1, <2>1, <2>2, <2>3 DEF Receipt
<1> DEFINE Fresh   == [receipt EXCEPT !.status = "reserved"]
           Adopted == [receipt EXCEPT !.status = "recovery_required"]
<1>2. CASE BeginFresh(e)
  <2>1. Fresh \in Receipt /\ Fresh.fence = receipt.fence /\ Fresh.status = "reserved"
        /\ Fresh.issued = receipt.issued /\ Fresh.mark = receipt.mark
        /\ Fresh.applied = receipt.applied /\ Fresh.scanFence = receipt.scanFence
        /\ Fresh.evidence = receipt.evidence /\ Fresh.uncertain = receipt.uncertain
        /\ Fresh.consumed = receipt.consumed
        /\ Fresh.activeAuth = receipt.activeAuth
    BY <1>0 DEF Receipt, Status
  <2>2. Claim(e, Fresh, "reserve") /\ Claimable(e) /\ receipt.status = "none"
    BY <1>2 DEF BeginFresh
  <2> HIDE DEF Fresh
  <2> QED BY <1>1, <2>1, <2>2 DEF Claimed
<1>3. CASE BeginLegacyRecovery(e)
  <2>1. Adopted \in Receipt /\ Adopted.fence = receipt.fence
        /\ Adopted.status = "recovery_required"
        /\ Adopted.issued = receipt.issued /\ Adopted.mark = receipt.mark
        /\ Adopted.applied = receipt.applied /\ Adopted.scanFence = receipt.scanFence
        /\ Adopted.evidence = receipt.evidence
        /\ Adopted.uncertain = receipt.uncertain
        /\ Adopted.consumed = receipt.consumed
        /\ Adopted.activeAuth = receipt.activeAuth
    BY <1>0 DEF Receipt, Status, Uncertain
  <2>2. Claim(e, Adopted, "scan") /\ Claimable(e) /\ receipt.status = "legacy"
    BY <1>3 DEF BeginLegacyRecovery
  <2> HIDE DEF Adopted
  <2> QED BY <1>1, <2>1, <2>2 DEF Claimed
<1>4. CASE BeginResumeNotSent(e)
  <2>1. Claim(e, receipt, "reserve") /\ Claimable(e)
        /\ receipt.status = "not_sent_retryable"
    BY <1>4 DEF BeginResumeNotSent
  <2> QED BY <1>0, <1>1, <2>1 DEF Claimed
<1>5. CASE BeginAuthorized(e)
  <2>1. PICK a \in Pending :
          Pending = {a} /\ Claim(e, ConsumeAuthorization(a), "reserve")
    BY <1>5 DEF BeginAuthorized
  <2>2. a \in Grants
    BY <1>0, <2>1, BoundAssumption DEF Pending, Receipt, Grants
  <2> DEFINE New == ConsumeAuthorization(a)
  <2>3. New \in Receipt /\ New.fence = receipt.fence /\ New.status = "reserved"
        /\ New.issued = receipt.issued /\ New.mark = receipt.mark
        /\ New.applied = receipt.applied /\ New.scanFence = receipt.scanFence
        /\ New.evidence = "none" /\ New.uncertain = receipt.uncertain
        /\ New.consumed = receipt.consumed \union {a}
        /\ New.activeAuth = a
    BY <1>0, <2>2 DEF ConsumeAuthorization, Receipt, Status
  <2>4. Claim(e, New, "reserve") /\ Claimable(e) /\ receipt.status = "authorized_retry"
    BY <1>5, <2>1 DEF BeginAuthorized
  <2> HIDE DEF New
  <2> QED BY <1>1, <2>1, <2>3, <2>4 DEF Claimed
<1>6. CASE BeginAfterCrash(e)
  <2>1. AfterCrash \in Receipt /\ AfterCrash.fence = receipt.fence
        /\ AfterCrash.status = "recovery_required"
        /\ AfterCrash.issued = receipt.issued /\ AfterCrash.mark = receipt.mark
        /\ AfterCrash.applied = receipt.applied
        /\ AfterCrash.scanFence = receipt.scanFence
        /\ AfterCrash.evidence = receipt.evidence
        /\ AfterCrash.consumed = receipt.consumed
        /\ AfterCrash.activeAuth = receipt.activeAuth
        /\ AfterCrash.uncertain = IF receipt.status = "sending"
             THEN receipt.uncertain \union {receipt.mark} ELSE receipt.uncertain
    BY <1>0 DEF AfterCrash, Receipt, Status, Uncertain
  <2>2. Claim(e, AfterCrash, "scan") /\ Claimable(e)
        /\ receipt.status \in {"reserved", "sending"}
    BY <1>6 DEF BeginAfterCrash
  <2> QED BY <1>1, <2>1, <2>2 DEF Claimed
<1>7. CASE BeginRecovery(e)
  <2>1. Claim(e, receipt, "scan") /\ Claimable(e) /\ receipt.status \in Uncertain
    BY <1>7 DEF BeginRecovery
  <2> QED BY <1>0, <1>1, <2>1 DEF Claimed
<1>8. CASE BeginReadback(e)
  <2>1. Claim(e, receipt, "resume") /\ Claimable(e) /\ receipt.status \in Acknowledged
    BY <1>8 DEF BeginReadback
  <2> QED BY <1>0, <1>1, <2>1 DEF Claimed
<1> QED BY <1>2, <1>3, <1>4, <1>5, <1>6, <1>7, <1>8 DEF Begin

\* A save that ends the call is lost, or writes the new record unleased.
LEMMA EndShape ==
    ASSUME TypeInv, NEW e \in Executors, NEW new \in Receipt,
           SaveAndReturn(e, new), UNCHANGED provider,
           new.owner = receipt.owner, new.fence = receipt.fence,
           new.issued = receipt.issued, new.consumed = receipt.consumed,
           new.activeAuth = receipt.activeAuth, new.mark = receipt.mark,
           new.evidence = receipt.evidence, new.scanFence = receipt.scanFence
    PROVE  \/ Left(e)
           \/ /\ Owns(e) /\ KeepsClaim /\ ~receipt'.leaseLive
              /\ OthersStay(e) /\ me'[e] = Idle
              /\ receipt'.mark = receipt.mark /\ KeepsEvidence
              /\ receipt'.status = new.status /\ receipt'.applied = new.applied
              /\ receipt'.uncertain = new.uncertain
<1>1. Return(e)
  BY DEF SaveAndReturn
<1>2. OthersStay(e) /\ me'[e] = Idle
  BY <1>1 DEF Return, OthersStay, TypeInv, TypeOK
<1>3. CASE ~Owns(e)
  BY <1>2, <1>3 DEF SaveAndReturn, Left
<1>4. CASE Owns(e)
  <2>1. receipt' = [new EXCEPT !.leaseLive = FALSE]
    BY <1>4 DEF SaveAndReturn
  <2> QED BY <1>2, <1>4, <2>1, ReleasedFields DEF KeepsClaim, KeepsEvidence
<1> QED BY <1>3, <1>4

\* A save the call goes on after is lost, or writes the new record.
LEMMA SaveShape ==
    ASSUME TypeInv, NEW e \in Executors, NEW new \in Receipt, NEW step,
           SaveThen(e, new, step), UNCHANGED provider,
           new.owner = receipt.owner, new.fence = receipt.fence,
           new.issued = receipt.issued, new.consumed = receipt.consumed,
           new.activeAuth = receipt.activeAuth, new.leaseLive = receipt.leaseLive
    PROVE  \/ Left(e)
           \/ /\ Owns(e) /\ KeepsClaim /\ receipt'.leaseLive
              /\ OthersStay(e) /\ me'[e].fence = me[e].fence
              /\ me'[e].pc = step /\ me'[e].found = me[e].found
              /\ receipt' = new
<1>1. CASE UNCHANGED receipt /\ Return(e)
  BY <1>1, ReturnLeaves
<1>2. CASE Owns(e) /\ receipt' = new /\ Goto(e, step)
  BY <1>2, GotoMoves DEF KeepsClaim, Owns
<1> QED BY <1>1, <1>2 DEF SaveThen

\* What every save leaves of the receipt, its lease included.
SavedFrom(new) ==
    /\ new \in Receipt
    /\ new.owner = receipt.owner /\ new.fence = receipt.fence
    /\ new.issued = receipt.issued /\ new.consumed = receipt.consumed
    /\ new.activeAuth = receipt.activeAuth /\ new.leaseLive = receipt.leaseLive

LEMMA UnprovenFields ==
    ASSUME TypeInv
    PROVE  /\ SavedFrom(Unproven)
           /\ Unproven.status = "write_succeeded_readback_validation_failed"
           /\ Unproven.applied = receipt.applied
           /\ Unproven.mark = receipt.mark
           /\ Unproven.uncertain = receipt.uncertain
           /\ Unproven.evidence = receipt.evidence
           /\ Unproven.scanFence = receipt.scanFence
BY DEF TypeInv, TypeOK, Unproven, SavedFrom, Receipt, Status, Acknowledged

LEMMA WriteShape ==
    ASSUME TypeInv, NEW e \in Executors, Write(e)
    PROVE  Left(e) \/ Went(e) \/ Saved(e) \/ Ended(e)
<1>0. receipt \in Receipt /\ me \in [Executors -> Local] /\ me[e] \in Local
  BY DEF TypeInv, TypeOK
<1>1. CASE MarkSending(e)
  <2>1. CASE /\ Owns(e)
             /\ receipt' = [receipt EXCEPT !.status = "sending", !.mark =
                           [fence |-> me[e].fence, grant |-> receipt.activeAuth]]
             /\ me' = [me EXCEPT ![e] = [@ EXCEPT !.pc = "dispatch", !.try = 1,
                                               !.grant = receipt.activeAuth]]
    <3>1. /\ KeepsClaim /\ receipt'.leaseLive /\ KeepsEvidence
          /\ receipt'.status = "sending" /\ receipt'.applied = receipt.applied
          /\ receipt'.uncertain = receipt.uncertain
          /\ receipt'.mark = [fence |-> me[e].fence, grant |-> receipt.activeAuth]
      BY <1>0, <2>1 DEF Receipt, KeepsClaim, KeepsEvidence, Owns
    <3>2. /\ OthersStay(e) /\ me'[e].fence = me[e].fence
          /\ me'[e].grant = receipt.activeAuth /\ me'[e].pc = "dispatch"
      BY <1>0, <2>1 DEF OthersStay, Local
    <3>3. me[e].pc = "reserve" /\ UNCHANGED provider
      BY <1>1 DEF MarkSending
    <3> QED BY <2>1, <3>1, <3>2, <3>3 DEF Saved, From
  <2>2. CASE UNCHANGED receipt /\ Return(e)
    BY <1>1, <2>2, ReturnLeaves DEF MarkSending
  <2> QED BY <1>1, <2>1, <2>2 DEF MarkSending
<1>2. CASE BackOff(e) \/ ConnectionRefused(e) \/ ReceiveAck(e)
           \/ ReceiveRejection(e) \/ ReceiveNothing(e) \/ ReceiveGarbled(e)
  <2>1. \/ BackOff(e) /\ Goto(e, "backoff")
        \/ ConnectionRefused(e) /\ Goto(e, "notSent")
        \/ ReceiveAck(e) /\ Goto(e, "acked")
        \/ ReceiveRejection(e) /\ Goto(e, "refusal")
        \/ ReceiveNothing(e) /\ Goto(e, "opaque")
        \/ ReceiveGarbled(e) /\ Goto(e, "fail")
    BY <1>2 DEF BackOff, ConnectionRefused, ReceiveAck, ReceiveRejection,
       ReceiveNothing, ReceiveGarbled
  <2>2. UNCHANGED <<receipt, provider>>
    BY <1>2 DEF BackOff, ConnectionRefused, ReceiveAck, ReceiveRejection,
       ReceiveNothing, ReceiveGarbled
  <2>3. Req(e) \in landed \/ ~ReceiveAck(e)
    BY DEF ReceiveAck
  <2> QED BY <2>1, <2>2, <2>3, GotoMoves DEF BackOff, ConnectionRefused,
       ReceiveAck, ReceiveRejection, ReceiveNothing, ReceiveGarbled, Went, From
<1>3. CASE Dispatch(e)
  BY <1>3, GotoMoves DEF Dispatch, Went, From
<1>4. CASE RetryWrite(e)
  <2>1. CASE Return(e)
    BY <1>4, <2>1, ReturnLeaves DEF RetryWrite
  <2>2. CASE me' = [me EXCEPT ![e] = [@ EXCEPT !.pc = "dispatch",
                                               !.try = me[e].try + 1]]
    <3>1. /\ OthersStay(e) /\ me'[e].pc = "dispatch"
          /\ me'[e].fence = me[e].fence /\ me'[e].grant = me[e].grant
      BY <1>0, <2>2 DEF OthersStay, Local
    <3> QED BY <1>4, <3>1 DEF RetryWrite, Retryable, Went, From
  <2> QED BY <1>4, <2>1, <2>2 DEF RetryWrite
<1>5. CASE RecordNotSent(e)
  <2> DEFINE New == [receipt EXCEPT !.status = "not_sent_retryable", !.applied = "no"]
  <2>1. SavedFrom(New) /\ New.status = "not_sent_retryable" /\ New.applied = "no"
        /\ New.mark = receipt.mark /\ New.uncertain = receipt.uncertain
        /\ New.evidence = receipt.evidence /\ New.scanFence = receipt.scanFence
    BY <1>0 DEF SavedFrom, Receipt, Status
  <2>2. SaveAndReturn(e, New) /\ UNCHANGED provider /\ me[e].pc \in {"notSent", "backoff"}
    BY <1>5 DEF RecordNotSent
  <2> HIDE DEF New
  <2> QED BY <2>1, <2>2, EndShape DEF SavedFrom, Ended
<1>6. CASE RecordRejection(e)
  <2> DEFINE New == [receipt EXCEPT !.status = "rejected_not_applied", !.applied = "no"]
  <2>1. SavedFrom(New) /\ New.status = "rejected_not_applied" /\ New.applied = "no"
        /\ New.mark = receipt.mark /\ New.uncertain = receipt.uncertain
        /\ New.evidence = receipt.evidence /\ New.scanFence = receipt.scanFence
    BY <1>0 DEF SavedFrom, Receipt, Status, Terminal
  <2>2. SaveAndReturn(e, New) /\ UNCHANGED provider /\ me[e].pc = "refusal"
    BY <1>6 DEF RecordRejection
  <2> HIDE DEF New
  <2> QED BY <2>1, <2>2, EndShape DEF SavedFrom, Ended
<1>7. CASE RecordUnknown(e)
  <2> DEFINE New == [receipt EXCEPT !.status = "outcome_unknown",
                                    !.uncertain = @ \union {MyMark(e)}]
  <2>0. MyMark(e) \in SendMark
    BY MarkType DEF TypeInv
  <2>1. SavedFrom(New) /\ New.status = "outcome_unknown"
        /\ New.applied = receipt.applied
        /\ New.mark = receipt.mark
        /\ New.uncertain = receipt.uncertain \union {MyMark(e)}
        /\ New.evidence = receipt.evidence /\ New.scanFence = receipt.scanFence
    BY <1>0, <2>0 DEF SavedFrom, Receipt, Status, Uncertain
  <2>2. SaveAndReturn(e, New) /\ UNCHANGED provider /\ me[e].pc = "opaque"
    BY <1>7 DEF RecordUnknown
  <2> HIDE DEF New
  <2> QED BY <2>1, <2>2, EndShape DEF SavedFrom, Ended
<1>8. CASE RecordAck(e)
  <2> DEFINE New == [receipt EXCEPT !.status = "applied_pending_readback",
                                    !.applied = "yes", !.ackValidated = FALSE]
  <2>1. SavedFrom(New) /\ New.status = "applied_pending_readback"
        /\ New.applied = "yes"
        /\ New.mark = receipt.mark /\ New.uncertain = receipt.uncertain
        /\ New.evidence = receipt.evidence /\ New.scanFence = receipt.scanFence
    BY <1>0 DEF SavedFrom, Receipt, Status, Acknowledged
  <2>2. SaveThen(e, New, "validate") /\ UNCHANGED provider /\ me[e].pc = "acked"
    BY <1>8 DEF RecordAck
  <2> HIDE DEF New
  <2> QED BY <2>1, <2>2, SaveShape
          DEF SavedFrom, Saved, From, KeepsRecord, KeepsEvidence
<1>9. CASE AcceptAck(e)
  <2> DEFINE New == [receipt EXCEPT !.ackValidated = TRUE]
  <2>1. SavedFrom(New) /\ New.status = receipt.status
        /\ New.applied = receipt.applied
        /\ New.mark = receipt.mark /\ New.uncertain = receipt.uncertain
        /\ New.evidence = receipt.evidence /\ New.scanFence = receipt.scanFence
    BY <1>0 DEF SavedFrom, Receipt
  <2>2. SaveThen(e, New, "readback") /\ UNCHANGED provider /\ me[e].pc = "validate"
    BY <1>9 DEF AcceptAck
  <2> HIDE DEF New
  <2> QED BY <2>1, <2>2, SaveShape
          DEF SavedFrom, Saved, From, KeepsRecord, KeepsEvidence, KeepsOutcome
<1>10. CASE RejectAck(e)
  BY <1>10, UnprovenFields, EndShape DEF RejectAck, SavedFrom, Ended
<1> QED BY <1>1, <1>2, <1>3, <1>4, <1>5, <1>6, <1>7, <1>8, <1>9, <1>10 DEF Write

LEMMA RecoverShape ==
    ASSUME TypeInv, NEW e \in Executors, Recover(e)
    PROVE  Left(e) \/ Went(e) \/ Saved(e) \/ Ended(e)
<1>0. receipt \in Receipt /\ me \in [Executors -> Local] /\ me[e] \in Local
  BY DEF TypeInv, TypeOK
<1>1. CASE Resume(e)
  <2>1. CASE receipt.ackValidated
    BY <1>1, <2>1, GotoMoves DEF Resume, Went, From
  <2>2. CASE ~receipt.ackValidated
    BY <1>1, <2>2, UnprovenFields, EndShape DEF Resume, SavedFrom, Ended
  <2> QED BY <2>1, <2>2
<1>2. CASE ProveEffect(e)
  <2> DEFINE New == [receipt EXCEPT !.status = "verified"]
  <2>1. SavedFrom(New) /\ New.status = "verified" /\ New.applied = receipt.applied
        /\ New.mark = receipt.mark /\ New.uncertain = receipt.uncertain
        /\ New.evidence = receipt.evidence /\ New.scanFence = receipt.scanFence
    BY <1>0 DEF SavedFrom, Receipt, Status, Terminal
  <2>2. SaveAndReturn(e, New) /\ UNCHANGED provider
        /\ me[e].pc = "readback" /\ landed # {}
    BY <1>2 DEF ProveEffect
  <2> HIDE DEF New
  <2> QED BY <2>1, <2>2, EndShape DEF SavedFrom, Ended
<1>3. CASE ReadbackFails(e) \/ ScanFails(e)
  BY <1>3, GotoMoves DEF ReadbackFails, ScanFails, Went, From
<1>4. CASE StartScan(e)
  <2>1. CASE /\ Owns(e)
             /\ receipt' = [receipt EXCEPT !.evidence = "partial", !.fresh = FALSE,
                                           !.scanFence = me[e].fence]
             /\ me' = [me EXCEPT ![e] = [@ EXCEPT !.pc = "pages",
                                               !.base = Cardinality(landed)]]
    <3>1. /\ KeepsClaim /\ receipt'.leaseLive /\ KeepsOutcome /\ KeepsRecord
          /\ receipt'.evidence = "partial" /\ receipt'.scanFence = me[e].fence
      BY <1>0, <2>1 DEF Receipt, KeepsClaim, KeepsOutcome, KeepsRecord, Owns
    <3>2. /\ OthersStay(e) /\ me'[e].fence = me[e].fence /\ me'[e].pc = "pages"
      BY <1>0, <2>1 DEF OthersStay, Local
    <3>3. me[e].pc = "scan" /\ UNCHANGED provider
      BY <1>4 DEF StartScan
    <3> QED BY <2>1, <3>1, <3>2, <3>3 DEF Saved, From
  <2>2. CASE UNCHANGED receipt /\ Return(e)
    BY <1>4, <2>2, ReturnLeaves DEF StartScan
  <2> QED BY <1>4, <2>1, <2>2 DEF StartScan
<1>5. CASE NoScan(e)
  <2> DEFINE New == [receipt EXCEPT !.status = "recovery_required"]
  <2>1. SavedFrom(New) /\ New.status \in Uncertain /\ New.applied = receipt.applied
        /\ New.mark = receipt.mark /\ New.uncertain = receipt.uncertain
        /\ New.evidence = receipt.evidence /\ New.scanFence = receipt.scanFence
    BY <1>0 DEF SavedFrom, Receipt, Status, Uncertain
  <2>2. SaveAndReturn(e, New) /\ UNCHANGED provider /\ me[e].pc = "scan"
    BY <1>5 DEF NoScan
  <2> HIDE DEF New
  <2> QED BY <2>1, <2>2, EndShape DEF SavedFrom, Ended
<1>6. CASE ReadPages(e)
  <2>1. ASSUME NEW n \in me[e].base .. Cardinality(landed),
               me' = [me EXCEPT ![e] = [@ EXCEPT !.pc = "scanned", !.found = n]]
        PROVE  Went(e)
    <3>1. /\ OthersStay(e) /\ me'[e].pc = "scanned" /\ me'[e].found = n
          /\ me'[e].fence = me[e].fence /\ me'[e].grant = me[e].grant
      BY <1>0, <2>1 DEF OthersStay, Local
    <3>2. n <= Cardinality(landed)
      BY <1>0, RowCount DEF Local
    <3> QED BY <1>6, <3>1, <3>2 DEF ReadPages, Went, From
  <2>2. ASSUME Return(e) PROVE Left(e)
    BY <1>6, <2>2, ReturnLeaves DEF ReadPages
  <2> QED BY <1>6, <2>1, <2>2 DEF ReadPages
<1>7. CASE CompleteScan(e)
  <2> DEFINE New == [receipt EXCEPT
                       !.evidence = IF me[e].found = 0 THEN "absent" ELSE "found",
                       !.fresh = TRUE]
  <2>1. SavedFrom(New) /\ New.status = receipt.status
        /\ New.applied = receipt.applied
        /\ New.mark = receipt.mark /\ New.uncertain = receipt.uncertain
        /\ New.scanFence = receipt.scanFence
    BY <1>0 DEF SavedFrom, Receipt
  <2>2. SaveThen(e, New, "decide") /\ UNCHANGED provider /\ me[e].pc = "scanned"
    BY <1>7 DEF CompleteScan
  <2> HIDE DEF New
  <2> QED BY <2>1, <2>2, SaveShape
          DEF SavedFrom, Saved, From, KeepsRecord, KeepsOutcome
<1>8. CASE DecideScan(e)
  <2> DEFINE New == ScanVerdict(me[e].found)
  <2>1. SavedFrom(New) /\ New.mark = receipt.mark
        /\ New.uncertain = receipt.uncertain
        /\ New.evidence = receipt.evidence /\ New.scanFence = receipt.scanFence
        /\ \/ me[e].found = 1 /\ New.status = "verified" /\ New.applied = "yes"
           \/ New.status \in Uncertain /\ New.applied = receipt.applied
    BY <1>0 DEF ScanVerdict, SavedFrom, Receipt, Status, Terminal, Uncertain
  <2>2. SaveAndReturn(e, New) /\ UNCHANGED provider /\ me[e].pc = "decide"
    BY <1>8 DEF DecideScan
  <2> HIDE DEF New
  <2> QED BY <2>1, <2>2, EndShape DEF SavedFrom, Ended
<1>9. CASE FlagEvidence(e)
  <2> DEFINE New == [receipt EXCEPT !.evidence = "failed"]
  <2>1. SavedFrom(New) /\ New.status = receipt.status
        /\ New.applied = receipt.applied
        /\ New.mark = receipt.mark /\ New.uncertain = receipt.uncertain
        /\ New.evidence = "failed" /\ New.scanFence = receipt.scanFence
    BY <1>0 DEF SavedFrom, Receipt
  <2>2. UNCHANGED provider /\ me[e].pc = "fail"
    BY <1>9 DEF FlagEvidence
  <2>3. CASE receipt.evidence = "none"
    BY <1>9, <2>2, <2>3, GotoMoves DEF FlagEvidence, Went, From
  <2>4. CASE receipt.evidence # "none"
    <3>1. SaveThen(e, New, "conclude")
      BY <1>9, <2>4 DEF FlagEvidence
    <3> HIDE DEF New
    <3> QED BY <2>1, <2>2, <2>4, <3>1, SaveShape
            DEF SavedFrom, Saved, From, KeepsRecord, KeepsOutcome
  <2> QED BY <2>3, <2>4
<1>10. CASE ConcludeFailure(e)
  <2> DEFINE New == [receipt EXCEPT !.status = "outcome_unknown"]
  <2>1. SavedFrom(New) /\ New.status = "outcome_unknown"
        /\ New.applied = receipt.applied
        /\ New.mark = receipt.mark /\ New.uncertain = receipt.uncertain
        /\ New.evidence = receipt.evidence /\ New.scanFence = receipt.scanFence
    BY <1>0 DEF SavedFrom, Receipt, Status, Uncertain
  <2>2. UNCHANGED provider /\ me[e].pc = "conclude"
    BY <1>10 DEF ConcludeFailure
  <2>3. CASE receipt.applied = "yes"
    BY <1>10, <2>2, <2>3, UnprovenFields, EndShape
    DEF ConcludeFailure, SavedFrom, Ended
  <2>4. CASE receipt.applied # "yes"
    <3>1. SaveAndReturn(e, New)
      BY <1>10, <2>4 DEF ConcludeFailure
    <3> HIDE DEF New
    <3> QED BY <2>1, <2>2, <2>4, <3>1, EndShape DEF SavedFrom, Ended
  <2> QED BY <2>3, <2>4
<1> QED BY <1>1, <1>2, <1>3, <1>4, <1>5, <1>6, <1>7, <1>8, <1>9, <1>10 DEF Recover

LEMMA StepShape ==
    ASSUME TypeInv, [Next]_vars
    PROVE  \/ \E e \in Executors : ProcessStep(e)
           \/ OtherStep
<1>0. receipt \in Receipt
  BY DEF TypeInv, TypeOK
<1>1. ASSUME NEW e \in Executors, Begin(e) \/ Work(e) \/ Crash(e)
      PROVE  ProcessStep(e)
  BY <1>1, BeginShape, WriteShape, RecoverShape, ReturnLeaves
  DEF Work, Crash, ProcessStep
<1>2. CASE AuthorizeReattempt
  <2>1. receipt' = [receipt EXCEPT !.status = "authorized_retry", !.issued = @ + 1]
        /\ receipt.status = "outcome_unknown" /\ ~receipt.leaseLive
        /\ UNCHANGED <<me, provider>>
    BY <1>2 DEF AuthorizeReattempt, Authorizable
  <2>2. Authorized
    BY <1>0, <2>1 DEF Authorized, KeepsRecord, KeepsEvidence, Receipt
  <2> QED BY <2>2 DEF OtherStep
<1>3. CASE Provider
  BY <1>3 DEF Provider, Land, Refuse, Lose, Fated, OtherStep
<1>4. CASE Clock
  <2>1. Ticked
    BY <1>0, <1>4 DEF Clock, ExpireLease, EvidenceAges, CooldownChanges, Ticked,
       KeepsClaim, KeepsOutcome, KeepsRecord, KeepsEvidence, Receipt
  <2> QED BY <2>1 DEF OtherStep
<1>5. CASE UNCHANGED vars
  BY <1>5 DEF vars, provider, Ticked, OtherStep, KeepsClaim, KeepsOutcome,
     KeepsRecord, KeepsEvidence
<1> QED BY <1>1, <1>2, <1>3, <1>4, <1>5 DEF Next

-----------------------------------------------------------------------------
(* EvidenceInv is inductive: whoever may still send owns a receipt without *)
(* evidence, and a scan is claimed after the last boundary.                *)

LEMMA EvidenceTypes ==
    ASSUME TypeInv
    PROVE  /\ receipt.fence \in Nat /\ receipt.scanFence \in Nat
           /\ receipt.mark.fence \in Nat
           /\ \A e \in Executors : me[e].fence \in Nat
BY BoundAssumption DEF TypeInv, TypeOK, Receipt, Local, SendMark, Fences

LEMMA IdleFacts == Idle.pc = "idle" /\ Idle.fence = 0
BY DEF Idle

\* What EvidenceInv says of one process.
EvidenceAt(f) ==
    Owns(f) =>
        /\ me[f].pc \in WriteSteps => receipt.evidence = "none"
        /\ me[f].pc \in ScanSteps =>
             receipt.status \in Uncertain /\ receipt.mark.fence < receipt.fence
        /\ me[f].pc \in ScanSteps \ {"scan"} => receipt.scanFence = receipt.fence

LEMMA ProcessKeepsEvidence ==
    ASSUME TypeInv, EvidenceInv, NEW e \in Executors, ProcessStep(e)
    PROVE  EvidenceInv'
<1> USE DEF WriteSteps, MarkedSteps, UnsentSteps, ScanSteps
<1>0. \A f \in Executors : EvidenceAt(f)
  BY DEF EvidenceInv, EvidenceAt
<1>1. CASE Left(e)
  <2>1. \A f \in Executors : EvidenceAt(f)'
    BY <1>0, <1>1, IdleFacts DEF Left, OthersStay, EvidenceAt, Owns
  <2> QED BY <1>1, <2>1 DEF Left, EvidenceInv, EvidencePostdatesSends, EvidenceAt
<1>2. CASE Went(e)
  <2>1. EvidenceAt(e)'
    BY <1>0, <1>2 DEF Went, From, EvidenceAt, Owns
  <2>2. \A f \in Executors \ {e} : EvidenceAt(f)'
    BY <1>0, <1>2 DEF Went, OthersStay, EvidenceAt, Owns
  <2> QED BY <1>2, <2>1, <2>2
          DEF Went, EvidenceInv, EvidencePostdatesSends, EvidenceAt
<1>3. CASE Saved(e)
  <2> USE DEF Saved, KeepsClaim
  <2>1. receipt'.owner = e /\ receipt'.fence = receipt.fence
        /\ me[e].fence = receipt.fence
    BY <1>3 DEF Owns
  <2>2. \A f \in Executors \ {e} : EvidenceAt(f)'
    BY <2>1 DEF EvidenceAt, Owns
  <2>3. EvidenceAt(e)'
    BY <1>0, <1>3, <2>1, EvidenceTypes
    DEF From, EvidenceAt, KeepsOutcome, KeepsRecord, KeepsEvidence
  <2>4. EvidencePostdatesSends' /\ receipt'.mark.fence <= receipt'.fence
    BY <1>0, <1>3, <2>1, EvidenceTypes DEF From, EvidenceAt, EvidenceInv,
       EvidencePostdatesSends, KeepsRecord, KeepsEvidence
  <2>5. receipt'.status \in Open => receipt'.evidence = "none"
    <3>1. Open \intersect Uncertain = {}
      BY DEF Open, Uncertain
    <3> QED BY <1>0, <1>3, <2>1, <3>1 DEF From, EvidenceAt, EvidenceInv, Open,
       KeepsOutcome, KeepsEvidence
  <2> QED BY <2>2, <2>3, <2>4, <2>5 DEF EvidenceInv, EvidenceAt
<1>4. CASE Ended(e)
  <2>1. \A f \in Executors : EvidenceAt(f)'
    BY <1>4 DEF Ended, EvidenceAt, Owns
  <2>2. EvidencePostdatesSends' /\ receipt'.mark.fence <= receipt'.fence
    BY <1>4 DEF Ended, KeepsClaim, KeepsEvidence, EvidenceInv, EvidencePostdatesSends
  <2>3. receipt'.status \in Open => receipt'.evidence = "none"
    BY <1>0, <1>4 DEF Ended, KeepsEvidence, EvidenceAt, Open, Uncertain
  <2> QED BY <2>1, <2>2, <2>3 DEF EvidenceInv, EvidenceAt
<1>5. CASE Claimed(e)
  <2>1. receipt'.owner = e /\ receipt'.fence = receipt.fence + 1
        /\ receipt'.mark = receipt.mark
    BY <1>5 DEF Claimed
  <2>2. \A f \in Executors \ {e} : EvidenceAt(f)'
    BY <2>1 DEF EvidenceAt, Owns
  <2>3. EvidenceAt(e)'
    BY <1>5, <2>1, EvidenceTypes
    DEF Claimed, EvidenceAt, EvidenceInv, Open, Uncertain
  <2>4. EvidencePostdatesSends' /\ receipt'.mark.fence <= receipt'.fence
    BY <1>5, <2>1, EvidenceTypes DEF Claimed, EvidenceInv, EvidencePostdatesSends
  <2>5. receipt'.status \in Open => receipt'.evidence = "none"
    <3>1. \/ receipt'.evidence = "none"
          \/ receipt'.evidence = receipt.evidence
               /\ (receipt'.status \in Open => receipt.status \in Open)
      <4>1. Open \intersect (Uncertain \union Acknowledged) = {}
        BY DEF Open, Uncertain, Acknowledged
      <4> QED BY <1>5, <4>1 DEF Claimed, Open
    <3> QED BY <3>1 DEF EvidenceInv
  <2> QED BY <2>2, <2>3, <2>4, <2>5 DEF EvidenceInv, EvidenceAt
<1> QED BY <1>1, <1>2, <1>3, <1>4, <1>5 DEF ProcessStep

LEMMA OtherKeepsEvidence ==
    ASSUME TypeInv, EvidenceInv, OtherStep
    PROVE  EvidenceInv'
<1>1. CASE Authorized
  BY <1>1 DEF Authorized, KeepsRecord, KeepsEvidence, EvidenceInv,
     EvidencePostdatesSends, Owns, Open
<1>2. CASE Ticked
  BY <1>2 DEF Ticked, KeepsClaim, KeepsOutcome, KeepsRecord, KeepsEvidence,
     EvidenceInv, EvidencePostdatesSends, Owns
<1>3. CASE Fated
  BY <1>3 DEF Fated, EvidenceInv, EvidencePostdatesSends, Owns
<1> QED BY <1>1, <1>2, <1>3 DEF OtherStep

LEMMA EvidenceInvariant == Spec => []EvidenceInv
<1>1. Init => EvidenceInv
  BY DEF Init, NewReceipt, NoMark, Idle, EvidenceInv, EvidencePostdatesSends,
     WriteSteps, MarkedSteps, UnsentSteps, ScanSteps
<1>2. TypeInv /\ EvidenceInv /\ [Next]_vars => EvidenceInv'
  BY StepShape, ProcessKeepsEvidence, OtherKeepsEvidence
<1> QED BY <1>1, <1>2, TypeInvariant, PTL DEF Spec

\* Absence evidence is never older than a send: the scan behind it belongs to a
\* claim made after the last durable send boundary, whoever crashed or sent late.
THEOREM EvidenceIsNewerThanSends == Spec => []EvidencePostdatesSends
<1>1. EvidenceInv => EvidencePostdatesSends
  BY DEF EvidenceInv
<1> QED BY <1>1, EvidenceInvariant, PTL

-----------------------------------------------------------------------------
(* FateInv is inductive given GrantInv: a request that is about to leave   *)
(* is not among those sent, so it has no fate yet.                         *)

\* What FateInv says of one process.
ToldTrue(f) ==
    /\ me[f].pc = "acked" => Req(f) \in landed
    /\ me[f].pc = "refusal" => Req(f) \in refused
    /\ me[f].pc \in {"scanned", "decide"} => me[f].found <= Cardinality(landed)

OneFate ==
    /\ wire \intersect (landed \union refused) = {}
    /\ landed \intersect refused = {}

LEMMA FateParts ==
    FateInv <=> /\ VerifiedMeansLanded
                /\ OneFate
                /\ receipt.status = "rejected_not_applied" => refused # {}
                /\ \A e \in Executors : ToldTrue(e)
BY DEF FateInv, OneFate, ToldTrue

LEMMA DispatchedIsNew ==
    ASSUME TypeInv, GrantInv, NEW e \in Executors, me[e].pc = "dispatch"
    PROVE  Req(e) \notin sent
BY DEF GrantInv, UnsentIsUnused, Unsent, UnsentSteps, Req

LEMMA OthersToldTrue ==
    ASSUME FateInv, NEW e \in Executors, OthersStay(e), UNCHANGED <<landed, refused>>
    PROVE  \A f \in Executors \ {e} : ToldTrue(f)'
BY DEF FateInv, ToldTrue, OthersStay, Req

LEMMA ProcessKeepsFate ==
    ASSUME TypeInv, GrantInv, FateInv, NEW e \in Executors, ProcessStep(e)
    PROVE  FateInv'
<1>0. /\ VerifiedMeansLanded /\ OneFate
      /\ receipt.status = "rejected_not_applied" => refused # {}
      /\ \A f \in Executors : ToldTrue(f)
  BY FateParts
<1>1. SUFFICES /\ VerifiedMeansLanded'
               /\ OneFate'
               /\ receipt'.status = "rejected_not_applied" => refused' # {}
               /\ ToldTrue(e)' /\ OthersStay(e)
               /\ UNCHANGED <<landed, refused>>
  BY OthersToldTrue DEF FateInv, OneFate, ToldTrue
<1>2. OthersStay(e) /\ UNCHANGED <<landed, refused>>
  BY DEF ProcessStep, Left, Went, Saved, Ended, Claimed, provider
<1>3. CASE Left(e)
  BY <1>0, <1>2, <1>3, IdleFacts
  DEF Left, provider, VerifiedMeansLanded, OneFate, ToldTrue
<1>4. CASE Went(e)
  <2>1. OneFate'
    <3>1. CASE UNCHANGED provider
      BY <1>0, <3>1 DEF provider, OneFate
    <3>2. CASE From(e, "dispatch", "await") /\ wire' = wire \union {Req(e)}
      <4>1. Req(e) \notin landed \union refused
        BY <3>2, DispatchedIsNew DEF From, TypeInv, TypeOK
      <4> QED BY <1>0, <1>2, <3>2, <4>1 DEF OneFate
    <3> QED BY <1>4, <3>1, <3>2 DEF Went
  <2>2. ToldTrue(e)'
    <3>1. me'[e].pc = "refusal" =>
            /\ me'[e].fence = me[e].fence /\ me'[e].grant = me[e].grant
            /\ me'[e].try = me[e].try /\ Req(e) \in refused
      BY <1>4 DEF Went, From
    <3>2. me'[e].pc = "refusal" => Req(e)' \in refused'
      BY <1>2, <3>1 DEF Req
    <3>3. me'[e].pc = "acked" => Req(e)' \in landed'
      <4>1. me'[e].pc = "acked" =>
              /\ me'[e].fence = me[e].fence /\ me'[e].grant = me[e].grant
              /\ me'[e].try = me[e].try /\ Req(e) \in landed
        BY <1>4 DEF Went, From
      <4> QED BY <1>2, <4>1 DEF Req
    <3>4. me'[e].pc \in {"scanned", "decide"} => me'[e].found <= Cardinality(landed')
      BY <1>2, <1>4 DEF Went, From
    <3> QED BY <3>2, <3>3, <3>4 DEF ToldTrue
  <2> QED BY <1>0, <1>2, <1>4, <2>1, <2>2 DEF Went, VerifiedMeansLanded
<1>5. CASE Saved(e)
  <2>1. OneFate'
    BY <1>0, <1>5 DEF Saved, provider, OneFate
  <2>2. ToldTrue(e)'
    BY <1>0, <1>2, <1>5 DEF Saved, From, ToldTrue
  <2>3. VerifiedMeansLanded'
    BY <1>0, <1>2, <1>5 DEF Saved, From, ToldTrue, VerifiedMeansLanded, KeepsOutcome
  <2>4. receipt'.status = "rejected_not_applied" => refused' # {}
    BY <1>0, <1>2, <1>5 DEF Saved, KeepsOutcome
  <2> QED BY <1>2, <2>1, <2>2, <2>3, <2>4
<1>6. CASE Ended(e)
  <2>1. OneFate'
    BY <1>0, <1>6 DEF Ended, provider, OneFate
  <2>2. ToldTrue(e)'
    BY <1>6, IdleFacts DEF Ended, ToldTrue
  <2>3. me[e].pc = "decide" /\ me[e].found = 1 => landed # {}
    <3>1. me[e].pc = "decide" => me[e].found <= Cardinality(landed)
      BY <1>0 DEF ToldTrue
    <3>2. landed = {} => Cardinality(landed) = 0
      BY FS_EmptySet
    <3> QED BY <3>1, <3>2
  <2>4. VerifiedMeansLanded'
    BY <1>0, <1>2, <1>6, <2>3 DEF Ended, VerifiedMeansLanded, Uncertain
  <2>5. receipt'.status = "rejected_not_applied" => refused' # {}
    BY <1>0, <1>2, <1>6 DEF Ended, ToldTrue, Uncertain
  <2> QED BY <1>2, <2>1, <2>2, <2>4, <2>5
<1>7. CASE Claimed(e)
  <2>1. OneFate'
    BY <1>0, <1>7 DEF Claimed, provider, OneFate
  <2>2. ToldTrue(e)'
    BY <1>7 DEF Claimed, ToldTrue
  <2>3. VerifiedMeansLanded'
    <3>1. receipt'.status # "verified" /\ receipt'.applied = receipt.applied
      BY <1>7 DEF Claimed, Uncertain, Acknowledged
    <3> QED BY <1>0, <1>2, <3>1 DEF VerifiedMeansLanded
  <2>4. receipt'.status # "rejected_not_applied"
    BY <1>7 DEF Claimed, Uncertain, Acknowledged
  <2> QED BY <1>2, <2>1, <2>2, <2>3, <2>4
<1> QED BY <1>3, <1>4, <1>5, <1>6, <1>7 DEF ProcessStep

LEMMA LandedGrows ==
    ASSUME TypeInv, TypeInv', landed \subseteq landed'
    PROVE  /\ Cardinality(landed) <= Cardinality(landed')
           /\ Cardinality(landed) \in Nat /\ Cardinality(landed') \in Nat
<1>1. IsFiniteSet(landed) /\ IsFiniteSet(landed')
  BY FS_Subset DEF TypeInv, TypeOK
<1> QED BY <1>1, FS_Subset, FS_CardinalityType

LEMMA OtherKeepsFate ==
    ASSUME TypeInv, TypeInv', FateInv, OtherStep
    PROVE  FateInv'
<1>1. CASE Authorized
  BY <1>1 DEF Authorized, provider, FateInv, VerifiedMeansLanded, Req
<1>2. CASE Ticked
  BY <1>2 DEF Ticked, provider, KeepsOutcome, FateInv, VerifiedMeansLanded, Req
<1>3. CASE Fated
  <2>1. PICK r \in wire :
          /\ wire' = wire \ {r}
          /\ \/ landed' = landed \union {r} /\ refused' = refused
             \/ refused' = refused \union {r} /\ landed' = landed
             \/ landed' = landed /\ refused' = refused
    BY <1>3 DEF Fated
  <2>2. OneFate'
    BY <2>1 DEF FateInv, OneFate
  <2>3. landed \subseteq landed' /\ refused \subseteq refused'
    BY <2>1
  <2>4. \A e \in Executors : ToldTrue(e)'
    <3> SUFFICES ASSUME NEW e \in Executors PROVE ToldTrue(e)'
      OBVIOUS
    <3>1. me'[e] = me[e]
      BY <1>3 DEF Fated
    <3>2. me[e].pc \in {"scanned", "decide"} => me[e].found <= Cardinality(landed')
      <4>1. me[e].found \in Nat
        BY DEF TypeInv, TypeOK, Local
      <4> QED BY <2>3, <4>1, LandedGrows DEF FateInv
    <3> QED BY <2>3, <3>1, <3>2 DEF FateInv, ToldTrue, Req
  <2> QED BY <1>3, <2>2, <2>3, <2>4, FateParts
          DEF Fated, FateInv, VerifiedMeansLanded, OneFate, ToldTrue
<1> QED BY <1>1, <1>2, <1>3 DEF OtherStep

LEMMA FateInvariant == Spec => []FateInv
<1>1. Init => FateInv
  BY DEF Init, NewReceipt, Idle, FateInv, VerifiedMeansLanded
<1>2. TypeInv /\ TypeInv' /\ GrantInv /\ FateInv /\ [Next]_vars => FateInv'
  BY StepShape, ProcessKeepsFate, OtherKeepsFate
<1> QED BY <1>1, <1>2, TypeInvariant, GrantInvariant, PTL DEF Spec

\* A verified receipt, and one that says its write was applied, stand on a write
\* the provider did apply: an empty scan or a lost answer never verifies.
THEOREM VerdictsStandOnWrites == Spec => []VerifiedMeansLanded
<1>1. FateInv => VerifiedMeansLanded
  BY DEF FateInv
<1> QED BY <1>1, FateInvariant, PTL

\* While no reattempt was authorized, a receipt rejected by the provider proves
\* that nothing of the operation was applied.
THEOREM SoleRejectionProvesAbsence == Spec => []SoleRejectionIsAbsence
<1>1. TypeInv /\ GrantInv /\ FateInv => SoleRejectionIsAbsence
  <2> SUFFICES ASSUME TypeInv, GrantInv, FateInv,
                      receipt.status = "rejected_not_applied",
                      receipt.consumed = {}
               PROVE  landed = {}
    BY DEF SoleRejectionIsAbsence
  <2>1. \A r \in sent : r.grant = 0
    <3>1. \A r \in sent : r.grant \in Grants /\ Used(r.grant)
      BY DEF TypeInv, TypeOK, Request, Used
    <3> QED BY <3>1 DEF GrantInv, UsedIsGranted
  <2>2. \A r, s \in sent : r = s
    BY <2>1 DEF GrantInv, OneWritePerGrant
  <2>3. PICK r \in refused : r \in sent
    BY DEF FateInv, TypeInv, TypeOK
  <2> QED BY <2>2, <2>3 DEF FateInv, TypeInv, TypeOK
<1> QED BY <1>1, TypeInvariant, GrantInvariant, FateInvariant, PTL

-----------------------------------------------------------------------------
(* RecordInv is inductive as long as every acquired answer can be decoded: *)
(* then whoever gives up on a request puts its boundary on record first.   *)

\* What RecordInv says of one process that owns the receipt.
OwnerRecords(f) ==
    Owns(f) =>
        /\ me[f].pc \in MarkedSteps => receipt.mark = MyMark(f)
        /\ me[f].pc \in ReadbackSteps => receipt.applied = "yes"
        /\ me[f].pc \in {"fail", "conclude"} =>
             receipt.applied = "yes" \/ receipt.status \in Uncertain

Calm == {"sending"} \union Acknowledged \union Terminal
MarkIsKept ==
    receipt.status \notin Calm =>
        receipt.mark \in receipt.uncertain \/ ~Passed(receipt.mark)
UnsentAreRecorded == \A e \in Executors : Unsent(e) => MyMark(e) \in Recorded
AckIsApplied == receipt.status \in Acknowledged => receipt.applied = "yes"

LEMMA RecordParts ==
    RecordInv <=> /\ SendsAreRecorded /\ UnsentAreRecorded
                  /\ MarkIsKept /\ AckIsApplied
                  /\ \A e \in Executors : OwnerRecords(e)
BY DEF RecordInv, UnsentAreRecorded, MarkIsKept, Calm, AckIsApplied, OwnerRecords

LEMMA RecordAgain ==
    ASSUME SendsAreRecorded', UnsentAreRecorded', MarkIsKept', AckIsApplied',
           \A e \in Executors : OwnerRecords(e)'
    PROVE  RecordInv'
BY DEF RecordInv, UnsentAreRecorded, MarkIsKept, Calm, AckIsApplied, OwnerRecords

\* Requests and unsent processes stay on record while the record only grows and
\* nobody new comes to send.
LEMMA RecordGrows ==
    ASSUME SendsAreRecorded, UnsentAreRecorded,
           sent' = sent, Recorded \subseteq Recorded',
           \A f \in Executors : Unsent(f)' => Unsent(f) /\ MyMark(f)' = MyMark(f)
    PROVE  /\ SendsAreRecorded' /\ UnsentAreRecorded'
           /\ \A m : Passed(m)' => Passed(m)
<1>1. SendsAreRecorded'
  BY DEF SendsAreRecorded, Recorded
<1>2. UnsentAreRecorded'
  BY DEF UnsentAreRecorded
<1>3. \A m : Passed(m)' => Passed(m)
  BY DEF Passed
<1> QED BY <1>1, <1>2, <1>3

LEMMA LeftKeepsRecord ==
    ASSUME TypeInv, RecordInv, NEW e \in Executors, Left(e)
    PROVE  RecordInv'
<1>1. \A f \in Executors : Unsent(f)' => Unsent(f) /\ MyMark(f)' = MyMark(f)
  BY IdleFacts DEF Left, OthersStay, Unsent, UnsentSteps, MyMark
<1>2. receipt' = receipt /\ sent' = sent
  BY DEF Left, provider
<1>3. /\ SendsAreRecorded' /\ UnsentAreRecorded'
      /\ \A m : Passed(m)' => Passed(m)
  BY <1>1, <1>2, RecordGrows, RecordParts DEF Recorded
<1>4. \A f \in Executors : OwnerRecords(f)'
  <2>1. \A f \in Executors \ {e} : OwnerRecords(f)'
    BY <1>2, RecordParts DEF Left, OthersStay, OwnerRecords, Owns, MyMark
  <2>2. OwnerRecords(e)'
    BY IdleFacts DEF Left, OwnerRecords, MarkedSteps, UnsentSteps, ReadbackSteps
  <2> QED BY <2>1, <2>2
<1> QED BY <1>2, <1>3, <1>4, RecordParts, RecordAgain DEF MarkIsKept, AckIsApplied

LEMMA WentKeepsRecord ==
    ASSUME TypeInv, EvidenceInv, RecordInv, ~DecodeFaults,
           NEW e \in Executors, Went(e)
    PROVE  RecordInv'
<1>1. receipt' = receipt /\ OthersStay(e) /\ MyMark(e)' = MyMark(e)
  BY DEF Went, MyMark
<1>2. Owns(e)' <=> Owns(e)
  BY DEF Went, Owns
<1>3. OwnerRecords(e)'
  <2>1. Owns(e) /\ me[e].pc = "pages" => receipt.status \in Uncertain
    BY DEF EvidenceInv, ScanSteps
  <2>2. \/ me[e].pc \in MarkedSteps /\ me'[e].pc \in MarkedSteps
        \/ me[e].pc = "resume" /\ me'[e].pc = "readback"
        \/ me[e].pc \in {"readback", "pages"} /\ me'[e].pc = "fail"
        \/ me[e].pc = "pages" /\ me'[e].pc = "scanned"
        \/ me[e].pc = "fail" /\ me'[e].pc = "conclude"
    BY DEF Went, From, MarkedSteps, UnsentSteps
  <2> QED BY <1>1, <1>2, <2>1, <2>2, RecordParts
          DEF OwnerRecords, MarkedSteps, UnsentSteps, ReadbackSteps
<1>4. \A f \in Executors \ {e} : OwnerRecords(f)'
  BY <1>1, RecordParts DEF OthersStay, OwnerRecords, Owns, MyMark
<1>5. \A f \in Executors : Unsent(f)' => Unsent(f) /\ MyMark(f)' = MyMark(f)
  BY <1>1 DEF Went, From, OthersStay, Unsent, UnsentSteps, MyMark
<1>6. CASE UNCHANGED provider
  BY <1>1, <1>3, <1>4, <1>5, <1>6, RecordGrows, RecordParts, RecordAgain
  DEF provider, Recorded, MarkIsKept, AckIsApplied
<1>7. CASE From(e, "dispatch", "await") /\ sent' = sent \union {Req(e)}
  <2>1. Unsent(e) /\ Boundary(Req(e)) = MyMark(e)
    BY <1>7 DEF From, Unsent, UnsentSteps, Boundary, Req, MyMark
  <2>2. MyMark(e) \in Recorded
    BY <2>1, RecordParts DEF UnsentAreRecorded
  <2>3. SendsAreRecorded'
    BY <1>1, <1>7, <2>2, RecordParts
    DEF SendsAreRecorded, Recorded, Req, MyMark
  <2>4. UnsentAreRecorded'
    BY <1>1, <1>5, RecordParts DEF UnsentAreRecorded, Recorded
  <2>5. \A m : Passed(m)' => Passed(m)
    BY <1>5, <1>7, <2>1 DEF Passed
  <2> QED BY <1>1, <1>3, <1>4, <2>3, <2>4, <2>5, RecordParts, RecordAgain
          DEF MarkIsKept, AckIsApplied
<1> QED BY <1>6, <1>7 DEF Went

LEMMA SavedKeepsRecord ==
    ASSUME TypeInv, GrantInv, EvidenceInv, RecordInv, NEW e \in Executors, Saved(e)
    PROVE  RecordInv'
<1>1. /\ OthersStay(e) /\ sent' = sent /\ Owns(e)
      /\ receipt'.owner = e /\ me'[e].fence = me[e].fence
  BY DEF Saved, provider, KeepsClaim, Owns
<1>2. \A f \in Executors \ {e} : OwnerRecords(f)'
  BY <1>1 DEF OwnerRecords, Owns
<1>3. CASE From(e, "reserve", "dispatch")
  <2>1. /\ receipt'.status = "sending" /\ receipt'.uncertain = receipt.uncertain
        /\ me'[e].grant = receipt.activeAuth
        /\ receipt'.mark = [fence |-> me[e].fence, grant |-> receipt.activeAuth]
    BY <1>3 DEF Saved, From
  <2>2. receipt.status \in Open
    BY <1>1, <1>3 DEF From, GrantInv, OwnerHoldsGrant, Owns
  <2>3. receipt.mark \in receipt.uncertain \/ ~Passed(receipt.mark)
    <3>1. Open \intersect Calm = {}
      BY DEF Open, Calm, Acknowledged, Terminal
    <3> QED BY <2>2, <3>1, RecordParts DEF MarkIsKept
  <2>4. SendsAreRecorded'
    <3> SUFFICES ASSUME NEW r \in sent \ {LegacyRequest}
                 PROVE  \E m \in Recorded' : m.fence = r.fence /\ m.grant = r.grant
      BY <1>1 DEF SendsAreRecorded, Recorded
    <3>1. PICK m \in Recorded : m.fence = r.fence /\ m.grant = r.grant
      BY RecordParts DEF SendsAreRecorded, Recorded
    <3>2. m = Boundary(r)
      <4>1. m \in SendMark
        BY <3>1 DEF Recorded, TypeInv, TypeOK, Receipt
      <4> QED BY <3>1, <4>1 DEF SendMark, Boundary
    <3>3. m \in receipt.uncertain
      BY <2>3, <3>1, <3>2 DEF Recorded, Passed
    <3> QED BY <2>1, <3>1, <3>3 DEF Recorded
  <2>5. UnsentAreRecorded'
    <3>1. MyMark(e)' = receipt'.mark
      BY <1>1, <2>1 DEF MyMark
    <3>2. ASSUME NEW f \in Executors \ {e}, Unsent(f)'
          PROVE  MyMark(f)' \in Recorded'
      <4>1. Unsent(f) /\ MyMark(f)' = MyMark(f)
        BY <1>1, <3>2 DEF OthersStay, Unsent, MyMark
      <4>2. MyMark(f) \in Recorded
        BY <4>1, RecordParts DEF UnsentAreRecorded
      <4>3. MyMark(f) \in receipt.uncertain
        BY <2>3, <4>1, <4>2 DEF Recorded, Passed
      <4> QED BY <2>1, <4>1, <4>3 DEF Recorded
    <3> QED BY <3>1, <3>2 DEF UnsentAreRecorded, Recorded
  <2>6. OwnerRecords(e)'
    BY <1>1, <1>3, <2>1
    DEF From, OwnerRecords, MyMark, MarkedSteps, UnsentSteps, ReadbackSteps
  <2>7. MarkIsKept' /\ AckIsApplied'
    BY <2>1 DEF MarkIsKept, AckIsApplied, Calm, Acknowledged
  <2> QED BY <1>2, <2>4, <2>5, <2>6, <2>7, RecordParts, RecordAgain
<1>4. CASE ~From(e, "reserve", "dispatch")
  <2>1. KeepsRecord
    BY <1>4 DEF Saved
  <2>2. \A f \in Executors : Unsent(f)' => Unsent(f) /\ MyMark(f)' = MyMark(f)
    BY <1>1, <1>4 DEF Saved, From, OthersStay, Unsent, UnsentSteps, MyMark
  <2>3. /\ SendsAreRecorded' /\ UnsentAreRecorded'
        /\ \A m : Passed(m)' => Passed(m)
    BY <1>1, <2>1, <2>2, RecordGrows, RecordParts DEF Recorded, KeepsRecord
  <2>4. \/ From(e, "acked", "validate")
             /\ receipt'.status = "applied_pending_readback"
             /\ receipt'.applied = "yes"
        \/ KeepsOutcome /\ me[e].pc \in {"validate", "scan", "scanned", "fail"}
    BY <1>4 DEF Saved, From
  <2>5. MarkIsKept' /\ AckIsApplied'
    BY <2>1, <2>3, <2>4, RecordParts
    DEF MarkIsKept, AckIsApplied, KeepsRecord, KeepsOutcome, Calm, Acknowledged
  <2>6. OwnerRecords(e)'
    <3>1. \/ From(e, "acked", "validate") /\ receipt'.applied = "yes"
          \/ From(e, "validate", "readback") /\ KeepsOutcome
          \/ From(e, "scan", "pages") \/ From(e, "scanned", "decide")
          \/ From(e, "fail", "conclude") /\ KeepsOutcome
      BY <1>4 DEF Saved
    <3> QED BY <1>1, <3>1, RecordParts DEF From, OwnerRecords, KeepsOutcome,
            MarkedSteps, UnsentSteps, ReadbackSteps
  <2> QED BY <1>2, <2>3, <2>5, <2>6, RecordParts, RecordAgain
<1> QED BY <1>3, <1>4

LEMMA EndedKeepsRecord ==
    ASSUME TypeInv, GrantInv, EvidenceInv, RecordInv, NEW e \in Executors, Ended(e)
    PROVE  RecordInv'
<1>1. /\ OthersStay(e) /\ me'[e] = Idle /\ sent' = sent /\ Owns(e)
      /\ receipt'.mark = receipt.mark /\ ~receipt'.leaseLive
      /\ receipt.uncertain \subseteq receipt'.uncertain
  BY DEF Ended, provider
<1>2. \A f \in Executors : Unsent(f)' => f # e /\ Unsent(f) /\ MyMark(f)' = MyMark(f)
  BY <1>1, IdleFacts DEF OthersStay, Unsent, UnsentSteps, MyMark
<1>3. /\ SendsAreRecorded' /\ UnsentAreRecorded'
      /\ \A m : Passed(m)' => Passed(m)
  BY <1>1, <1>2, RecordGrows, RecordParts DEF Recorded
<1>4. \A f \in Executors : OwnerRecords(f)'
  BY <1>1 DEF OwnerRecords, Owns
<1>5. OwnerRecords(e)
  BY RecordParts
<1>6. AckIsApplied'
  <2>1. CASE me[e].pc \in {"validate", "resume"}
    BY <1>1, <1>5, <2>1 DEF Ended, OwnerRecords, ReadbackSteps, AckIsApplied
  <2>2. CASE me[e].pc \notin {"validate", "resume"}
    BY <2>2 DEF Ended, AckIsApplied, Acknowledged, Uncertain
  <2> QED BY <2>1, <2>2
<1>7. MarkIsKept'
  <2>1. CASE me[e].pc \in {"notSent", "backoff"}
    <3>1. Unsent(e) /\ receipt.mark = MyMark(e)
      BY <1>1, <1>5, <2>1 DEF OwnerRecords, Unsent, UnsentSteps, MarkedSteps
    <3>2. \A r \in sent : Boundary(r) # MyMark(e)
      BY <3>1 DEF GrantInv, UnsentIsUnused, Boundary, MyMark
    <3>3. \A f \in Executors \ {e} : Unsent(f) => MyMark(f) # MyMark(e)
      BY <3>1 DEF GrantInv, UnsentIsUnused, MyMark
    <3>4. ~Passed(receipt.mark)'
      BY <1>1, <1>2, <3>1, <3>2, <3>3 DEF Passed, Boundary
    <3> QED BY <3>4 DEF MarkIsKept
  <2>2. CASE me[e].pc = "opaque"
    <3>1. receipt.mark = MyMark(e)
      BY <1>1, <1>5, <2>2 DEF OwnerRecords, MarkedSteps
    <3>2. receipt'.uncertain = receipt.uncertain \union {MyMark(e)}
      BY <2>2 DEF Ended
    <3> QED BY <1>1, <3>1, <3>2 DEF MarkIsKept
  <2>3. CASE me[e].pc \notin {"notSent", "backoff", "opaque"}
    <3>1. receipt'.status \in Calm \/ receipt.status \in Uncertain
      <4>1. me[e].pc \in {"scan", "decide"} => receipt.status \in Uncertain
        BY <1>1 DEF EvidenceInv, ScanSteps
      <4>2. me[e].pc = "conclude" /\ receipt.applied # "yes" =>
              receipt.status \in Uncertain
        BY <1>1, <1>5 DEF OwnerRecords
      <4> QED BY <2>3, <4>1, <4>2 DEF Ended, Calm, Acknowledged, Terminal
    <3>2. Uncertain \intersect Calm = {}
      BY DEF Uncertain, Calm, Acknowledged, Terminal
    <3> QED BY <1>1, <1>3, <3>1, <3>2, RecordParts DEF MarkIsKept
  <2> QED BY <2>1, <2>2, <2>3
<1> QED BY <1>3, <1>4, <1>6, <1>7, RecordParts, RecordAgain

LEMMA ClaimedKeepsRecord ==
    ASSUME TypeInv, RecordInv, NEW e \in Executors, Claimed(e)
    PROVE  RecordInv'
<1>1. /\ OthersStay(e) /\ sent' = sent /\ receipt'.owner = e
      /\ receipt'.mark = receipt.mark /\ receipt'.applied = receipt.applied
      /\ receipt.uncertain \subseteq receipt'.uncertain
      /\ me'[e].pc \in {"reserve", "scan", "resume"}
  BY DEF Claimed, provider
<1>2. \A f \in Executors : Unsent(f)' => Unsent(f) /\ MyMark(f)' = MyMark(f)
  BY <1>1 DEF OthersStay, Unsent, UnsentSteps, MyMark
<1>3. /\ SendsAreRecorded' /\ UnsentAreRecorded'
      /\ \A m : Passed(m)' => Passed(m)
  BY <1>1, <1>2, RecordGrows, RecordParts DEF Recorded
<1>4. AckIsApplied'
  <2>1. receipt'.status \in Acknowledged => receipt.status \in Acknowledged
    BY DEF Claimed, Acknowledged, Uncertain
  <2> QED BY <1>1, <2>1, RecordParts DEF AckIsApplied
<1>5. \A f \in Executors : OwnerRecords(f)'
  <2>1. \A f \in Executors \ {e} : OwnerRecords(f)'
    BY <1>1 DEF OwnerRecords, Owns
  <2>2. OwnerRecords(e)'
    <3>1. me'[e].pc = "resume" => receipt.status \in Acknowledged
      BY DEF Claimed
    <3> QED BY <1>1, <3>1, RecordParts
            DEF OwnerRecords, AckIsApplied, MarkedSteps, UnsentSteps, ReadbackSteps
  <2> QED BY <2>1, <2>2
<1>6. MarkIsKept'
  <2>1. CASE receipt.status = "sending"
    <3>1. receipt'.uncertain = receipt.uncertain \union {receipt.mark}
      BY <2>1 DEF Claimed, Uncertain, Acknowledged
    <3> QED BY <1>1, <3>1 DEF MarkIsKept
  <2>2. CASE receipt.status # "sending"
    <3>1. receipt'.status \in Calm \/ receipt.status \notin Calm
      BY <2>2 DEF Claimed, Calm, Uncertain, Acknowledged, Terminal
    <3> QED BY <1>1, <1>3, <3>1, RecordParts DEF MarkIsKept
  <2> QED BY <2>1, <2>2
<1> QED BY <1>3, <1>4, <1>5, <1>6, RecordParts, RecordAgain

LEMMA OtherKeepsRecord ==
    ASSUME TypeInv, RecordInv, OtherStep
    PROVE  RecordInv'
<1>1. me' = me /\ sent' = sent /\ KeepsRecord
  BY DEF OtherStep, Authorized, Ticked, Fated, provider, KeepsRecord
<1>2. /\ SendsAreRecorded' /\ UnsentAreRecorded'
      /\ \A m : Passed(m)' => Passed(m)
  BY <1>1, RecordGrows, RecordParts DEF Recorded, KeepsRecord, Unsent, MyMark
<1>3. \/ KeepsOutcome
      \/ receipt.status = "outcome_unknown" /\ receipt'.status = "authorized_retry"
  BY DEF OtherStep, Authorized, Ticked, Fated, KeepsOutcome
<1>4. MarkIsKept' /\ AckIsApplied'
  BY <1>1, <1>2, <1>3, RecordParts DEF MarkIsKept, AckIsApplied, KeepsRecord,
     KeepsOutcome, Calm, Acknowledged, Terminal
<1>5. \A f \in Executors : OwnerRecords(f)'
  <2>1. \/ KeepsOutcome /\ \A f \in Executors : Owns(f)' => Owns(f)
        \/ \A f \in Executors : ~Owns(f)'
    BY <1>1 DEF OtherStep, Authorized, Ticked, Fated, KeepsClaim, KeepsOutcome, Owns
  <2> QED BY <1>1, <2>1, RecordParts
          DEF OwnerRecords, KeepsOutcome, KeepsRecord, MyMark
<1> QED BY <1>2, <1>4, <1>5, RecordParts, RecordAgain

LEMMA RecordInvariant == ASSUME ~DecodeFaults PROVE Spec => []RecordInv
<1>1. Init => RecordInv
  BY DEF Init, NewReceipt, NoMark, Idle, RecordInv, SendsAreRecorded, Passed,
     Unsent, UnsentSteps, MarkedSteps, ReadbackSteps, Acknowledged, LegacyRequest
<1>2. TypeInv /\ GrantInv /\ EvidenceInv /\ RecordInv /\ [Next]_vars => RecordInv'
  BY StepShape, LeftKeepsRecord, WentKeepsRecord, SavedKeepsRecord,
     EndedKeepsRecord, ClaimedKeepsRecord, OtherKeepsRecord DEF ProcessStep
<1> QED BY <1>1, <1>2, TypeInvariant, GrantInvariant, EvidenceInvariant, PTL
        DEF Spec

\* When every acquired answer can be decoded, each request that may have been
\* delivered is traceable in the receipt: its boundary is the current one or is
\* kept among the uncertain writes, whatever crashed or was authorized since.
THEOREM EverySendIsOnRecord == ASSUME ~DecodeFaults PROVE Spec => []SendsAreRecorded
<1>1. RecordInv => SendsAreRecorded
  BY DEF RecordInv
<1> QED BY <1>1, RecordInvariant, PTL

-----------------------------------------------------------------------------
(* AuthorizationInv is inductive: an authorized receipt is unleased, so no *)
(* save reaches it, and only the claim that consumes the authorization     *)
(* takes it.                                                               *)

LEMMA AuthorizationStep ==
    ASSUME TypeInv, AuthorizationInv, [Next]_vars
    PROVE  /\ AuthorizationInv'
           /\ receipt.status = "authorized_retry" =>
                \/ receipt'.status = "authorized_retry"
                \/ receipt'.status = "reserved" /\ receipt'.consumed = 1 .. receipt.issued
<1>0. receipt.issued \in Nat
  BY BoundAssumption DEF TypeInv, TypeOK, Receipt, Grants
<1>1. ASSUME NEW e \in Executors, Left(e) \/ Went(e)
      PROVE  UNCHANGED receipt
  BY <1>1 DEF Left, Went
<1>2. ASSUME NEW e \in Executors, Saved(e) \/ Ended(e)
      PROVE  /\ receipt.status # "authorized_retry"
             /\ receipt'.status # "authorized_retry"
             /\ receipt'.issued = receipt.issued
             /\ receipt'.consumed = receipt.consumed
  BY <1>2 DEF Saved, Ended, Owns, AuthorizationInv, KeepsClaim, KeepsOutcome, Uncertain
<1>3. ASSUME NEW e \in Executors, Claimed(e)
      PROVE  /\ receipt'.status # "authorized_retry"
             /\ receipt'.issued = receipt.issued
             /\ receipt'.consumed \subseteq 1 .. receipt.issued
             /\ receipt.status = "authorized_retry" =>
                  receipt'.status = "reserved" /\ receipt'.consumed = 1 .. receipt.issued
  <2>1. CASE receipt.status = "authorized_retry"
    <3>1. PICK a \in Pending :
            Pending = {a} /\ receipt'.consumed = receipt.consumed \union {a}
      BY <1>3, <2>1 DEF Claimed, Uncertain, Acknowledged
    <3>2. receipt'.consumed = 1 .. receipt.issued
      BY <3>1 DEF Pending, AuthorizationInv
    <3> QED BY <1>3, <2>1, <3>2 DEF Claimed, Uncertain, Acknowledged
  <2>2. CASE receipt.status # "authorized_retry"
    BY <1>3, <2>2 DEF Claimed, Uncertain, Acknowledged, AuthorizationInv
  <2> QED BY <2>1, <2>2
<1>4. CASE OtherStep
  <2>1. CASE Authorized
    <3>1. 1 .. receipt.issued \subseteq 1 .. (receipt.issued + 1)
      BY <1>0
    <3> QED BY <2>1, <3>1 DEF Authorized, AuthorizationInv
  <2>2. CASE Ticked
    BY <2>2 DEF Ticked, KeepsClaim, KeepsOutcome, AuthorizationInv
  <2>3. CASE Fated
    BY <2>3 DEF Fated, AuthorizationInv
  <2> QED BY <1>4, <2>1, <2>2, <2>3 DEF OtherStep
<1> QED BY <1>1, <1>2, <1>3, <1>4, StepShape DEF ProcessStep, AuthorizationInv

\* An operator's authorization waits until the next same-key call consumes it: a
\* process that was still recovering cannot overwrite it, and after it is
\* consumed none is left over.
THEOREM AuthorizationsAreUsed == Spec => AuthorizationIsNotLost
<1>1. Init => AuthorizationInv
  BY DEF Init, NewReceipt, AuthorizationInv
<1>2. TypeInv /\ AuthorizationInv /\ [Next]_vars =>
        /\ AuthorizationInv'
        /\ [receipt.status = "authorized_retry" =>
              \/ receipt'.status = "authorized_retry"
              \/ receipt'.status = "reserved"
                   /\ receipt'.consumed = 1 .. receipt.issued]_vars
  BY AuthorizationStep
<1> QED BY <1>1, <1>2, TypeInvariant, PTL DEF Spec, AuthorizationIsNotLost

-----------------------------------------------------------------------------
(* Authorizations are issued and consumed one after the other.             *)

LEMMA AuthorizationInvariant == Spec => []AuthorizationInv
<1>1. Init => AuthorizationInv
  BY DEF Init, NewReceipt, AuthorizationInv
<1> QED BY <1>1, AuthorizationStep, TypeInvariant, PTL DEF Spec

\* All but the newest are consumed; the newest waits exactly while the receipt is
\* authorized_retry.
ConsumedInOrder ==
    IF receipt.status = "authorized_retry"
    THEN receipt.issued # 0 /\ receipt.consumed = 1 .. (receipt.issued - 1)
    ELSE receipt.consumed = 1 .. receipt.issued

LEMMA OrderStep ==
    ASSUME TypeInv, AuthorizationInv, ConsumedInOrder, [Next]_vars
    PROVE  ConsumedInOrder'
<1>0. receipt.issued \in Nat
  BY BoundAssumption DEF TypeInv, TypeOK, Receipt, Grants
<1>1. ASSUME receipt'.status = receipt.status, receipt'.issued = receipt.issued,
             receipt'.consumed = receipt.consumed
      PROVE  ConsumedInOrder'
  BY <1>1 DEF ConsumedInOrder
<1>2. ASSUME NEW e \in Executors, Left(e) \/ Went(e)
      PROVE  ConsumedInOrder'
  BY <1>1, <1>2 DEF Left, Went
<1>3. ASSUME NEW e \in Executors, Saved(e) \/ Ended(e)
      PROVE  ConsumedInOrder'
  <2>1. receipt.status # "authorized_retry"
    BY <1>3 DEF Saved, Ended, Owns, AuthorizationInv
  <2>2. receipt'.status # "authorized_retry"
    BY <1>3, <2>1 DEF Saved, Ended, KeepsOutcome, Uncertain
  <2>3. receipt'.issued = receipt.issued /\ receipt'.consumed = receipt.consumed
    BY <1>3 DEF Saved, Ended, KeepsClaim
  <2> QED BY <2>1, <2>2, <2>3 DEF ConsumedInOrder
<1>4. ASSUME NEW e \in Executors, Claimed(e)
      PROVE  ConsumedInOrder'
  <2>1. receipt'.status # "authorized_retry" /\ receipt'.issued = receipt.issued
    BY <1>4 DEF Claimed, Uncertain, Acknowledged
  <2>2. CASE receipt.status = "authorized_retry"
    <3>1. /\ receipt'.status = "reserved"
          /\ receipt'.consumed = 1 .. receipt.issued
      BY <2>2, AuthorizationStep, <2>1
    <3> QED BY <2>1, <3>1 DEF ConsumedInOrder
  <2>3. CASE receipt.status # "authorized_retry"
    BY <1>4, <2>1, <2>3 DEF Claimed, ConsumedInOrder
  <2> QED BY <2>2, <2>3
<1>5. CASE Authorized
  <2>1. (receipt.issued + 1) # 0 /\ (receipt.issued + 1) - 1 = receipt.issued
    BY <1>0
  <2> QED BY <1>5, <2>1 DEF Authorized, ConsumedInOrder
<1>6. CASE Ticked \/ Fated
  BY <1>1, <1>6 DEF Ticked, Fated, KeepsClaim, KeepsOutcome
<1> QED BY <1>2, <1>3, <1>4, <1>5, <1>6, StepShape DEF ProcessStep, OtherStep

\* The next call of execute() finds a way to take the receipt up.
CanBeTaken ==
    \/ receipt.status \in {"none", "legacy", "reserved", "sending", "not_sent_retryable"}
                          \union Uncertain \union Acknowledged
    \/ /\ receipt.status = "authorized_retry"
       /\ \E a \in Pending : Pending = {a}

\* A receipt that is not terminal is never stuck: whatever processes died in it,
\* the next call can claim it once the lease is out.  In particular the refusal
\* "authorized retry has no unique unused authorization" (resilience.py:239) is
\* never met, for exactly the newest authorization is unused then.
THEOREM ReceiptsCanBeTaken == Spec => [](receipt.status \notin Terminal => CanBeTaken)
<1>1. Init => ConsumedInOrder
  <2> SUFFICES ASSUME Init PROVE ConsumedInOrder
    OBVIOUS
  <2>1. receipt.status # "authorized_retry" /\ receipt.issued = 0 /\ receipt.consumed = {}
    BY DEF Init, NewReceipt
  <2>2. 1 .. 0 = {}
    OBVIOUS
  <2> QED BY <2>1, <2>2 DEF ConsumedInOrder
<1>2. TypeInv /\ ConsumedInOrder => (receipt.status \notin Terminal => CanBeTaken)
  <2> SUFFICES ASSUME TypeInv, ConsumedInOrder, receipt.status \notin Terminal
               PROVE  CanBeTaken
    OBVIOUS
  <2>1. receipt.status \in Status /\ receipt.issued \in Nat
    BY BoundAssumption DEF TypeInv, TypeOK, Receipt, Grants
  <2>2. CASE receipt.status = "authorized_retry"
    <3>1. receipt.issued # 0 /\ receipt.consumed = 1 .. (receipt.issued - 1)
      BY <2>2 DEF ConsumedInOrder
    <3>2. Pending = {receipt.issued}
      BY <2>1, <3>1 DEF Pending
    <3> QED BY <2>2, <3>2 DEF CanBeTaken
  <2>3. CASE receipt.status # "authorized_retry"
    BY <2>1, <2>3 DEF CanBeTaken, Status
  <2> QED BY <2>2, <2>3
<1> QED BY <1>1, <1>2, OrderStep, TypeInvariant, AuthorizationInvariant, PTL DEF Spec

-----------------------------------------------------------------------------
(* How many requests an operation can send in all.                         *)

LEMMA GrantsAreFinite ==
    ASSUME TypeInv, AuthorizationInv
    PROVE  /\ IsFiniteSet(receipt.consumed)
           /\ Cardinality(receipt.consumed) <= receipt.issued
           /\ IsFiniteSet({0} \union receipt.consumed)
           /\ Cardinality({0} \union receipt.consumed) = 1 + Cardinality(receipt.consumed)
<1>1. receipt.issued \in Nat /\ 0 \notin 1 .. receipt.issued
  BY BoundAssumption DEF TypeInv, TypeOK, Receipt, Grants
<1>2. IsFiniteSet(1 .. receipt.issued) /\ Cardinality(1 .. receipt.issued) = receipt.issued
  <2> DEFINE n == receipt.issued
  <2>1. n \in Int /\ 1 \in Int /\ n >= 0
    BY <1>1
  <2> HIDE DEF n
  <2>2. IsFiniteSet(1 .. n) /\ Cardinality(1 .. n) = IF 1 > n THEN 0 ELSE n - 1 + 1
    BY ONLY <2>1, FS_Interval
  <2>3. Cardinality(1 .. n) = n
    BY <2>1, <2>2
  <2> QED BY <2>2, <2>3 DEF n
<1>3. receipt.consumed \in SUBSET (1 .. receipt.issued)
  BY DEF AuthorizationInv
<1>4. IsFiniteSet(receipt.consumed) /\ Cardinality(receipt.consumed) <= receipt.issued
  BY <1>2, <1>3, FS_Subset
<1>5. Cardinality(receipt.consumed) \in Nat
  BY <1>4, FS_CardinalityType
<1>6. /\ IsFiniteSet(receipt.consumed \union {0})
      /\ Cardinality(receipt.consumed \union {0}) = Cardinality(receipt.consumed) + 1
  BY <1>1, <1>3, <1>4, FS_AddElement
<1>7. {0} \union receipt.consumed = receipt.consumed \union {0}
  OBVIOUS
<1>8. Cardinality(receipt.consumed) + 1 = 1 + Cardinality(receipt.consumed)
  BY <1>5
<1> QED BY <1>4, <1>6, <1>7, <1>8, Zenon

\* The requests of an operation are no more than one and one for each consumed
\* authorization; the rows it inserted are among them.
RequestsAreCounted ==
    /\ IsFiniteSet(sent) /\ landed \subseteq sent
    /\ Cardinality(landed) <= Cardinality(sent)
    /\ Cardinality(sent) <= 1 + Cardinality(receipt.consumed)
    /\ Cardinality(receipt.consumed) <= receipt.issued

LEMMA RequestsFitGrants ==
    ASSUME TypeInv, GrantInv, AuthorizationInv
    PROVE  RequestsAreCounted
<1> DEFINE G == {0} \union receipt.consumed
           GrantOf == [r \in sent |-> r.grant]
<1>1. \A r \in sent : r.grant \in G
  BY DEF TypeInv, TypeOK, Request, GrantInv, UsedIsGranted, Used
<1>2. GrantOf \in Injection(sent, G)
  BY <1>1 DEF GrantInv, OneWritePerGrant, Injection, IsInjective
<1>3. IsFiniteSet(G) /\ Cardinality(G) = 1 + Cardinality(receipt.consumed)
  BY GrantsAreFinite
<1> HIDE DEF G, GrantOf
<1>4. IsFiniteSet(sent) /\ Cardinality(sent) <= Cardinality(G)
  BY <1>2, <1>3, FS_Injection
<1>5. landed \in SUBSET sent
  BY DEF TypeInv, TypeOK
<1>6. Cardinality(landed) <= Cardinality(sent)
  BY <1>4, <1>5, FS_Subset
<1> QED BY <1>3, <1>4, <1>5, <1>6, GrantsAreFinite DEF RequestsAreCounted

\* Whatever crashes, goes stale or is retried, an operation sends one request,
\* and one more for each time an operator authorized it and that was used; it
\* inserts no more rows than that.
THEOREM WritesAreCounted == Spec => []RequestsAreCounted
BY RequestsFitGrants, TypeInvariant, GrantInvariant, AuthorizationInvariant, PTL

-----------------------------------------------------------------------------
(* StatusInv is inductive: a save by the owner moves the status as its     *)
(* step does, and a claim picks the step that fits the status.             *)

\* What StatusInv says of one process.
InStep(f) ==
    Owns(f) =>
        /\ me[f].pc \in MarkedSteps =>
             receipt.status = "sending" /\ me[f].grant = receipt.activeAuth
        /\ me[f].pc \in ScanSteps => receipt.status \in Uncertain
        /\ me[f].pc \in ReadbackSteps => receipt.status \in Acknowledged
        /\ me[f].pc \in {"fail", "conclude"} =>
             receipt.status \in {"sending"} \union Uncertain \union Acknowledged

AppliedIsAcknowledged ==
    receipt.applied = "yes" <=> receipt.status \in Acknowledged \union {"verified"}

LEMMA StatusParts ==
    StatusInv <=> AppliedIsAcknowledged /\ \A f \in Executors : InStep(f)
BY DEF StatusInv, AppliedIsAcknowledged, InStep

LEMMA ProcessKeepsStatus ==
    ASSUME TypeInv, GrantInv, StatusInv, NEW e \in Executors, ProcessStep(e)
    PROVE  StatusInv'
<1> USE DEF MarkedSteps, UnsentSteps, ScanSteps, ReadbackSteps
<1>0. AppliedIsAcknowledged /\ \A f \in Executors : InStep(f)
  BY StatusParts
<1> SUFFICES AppliedIsAcknowledged' /\ \A f \in Executors : InStep(f)'
  BY DEF StatusInv, AppliedIsAcknowledged, InStep
<1>1. CASE Left(e)
  BY <1>0, <1>1, IdleFacts DEF Left, OthersStay, InStep, Owns, AppliedIsAcknowledged
<1>2. CASE Went(e)
  <2>1. InStep(e)'
    BY <1>0, <1>2 DEF Went, From, InStep, Owns
  <2>2. \A f \in Executors \ {e} : InStep(f)'
    BY <1>0, <1>2 DEF Went, OthersStay, InStep, Owns
  <2>3. AppliedIsAcknowledged'
    BY <1>0, <1>2 DEF Went, AppliedIsAcknowledged
  <2> QED BY <2>1, <2>2, <2>3
<1>3. CASE Saved(e)
  <2>1. \A f \in Executors \ {e} : InStep(f)'
    BY <1>3 DEF Saved, KeepsClaim, InStep, Owns
  <2>2. InStep(e)'
    BY <1>0, <1>3 DEF Saved, From, KeepsClaim, KeepsOutcome, InStep, Owns, Acknowledged
  <2>3. AppliedIsAcknowledged'
    <3>1. me[e].pc = "reserve" => receipt.status \in Open
      BY <1>3 DEF Saved, GrantInv, OwnerHoldsGrant, Owns
    <3> QED BY <1>0, <1>3, <3>1
            DEF Saved, From, KeepsOutcome, AppliedIsAcknowledged, Acknowledged, Open
  <2> QED BY <2>1, <2>2, <2>3
<1>4. CASE Ended(e)
  <2>1. \A f \in Executors : InStep(f)'
    BY <1>4 DEF Ended, InStep, Owns
  <2>2. InStep(e) /\ Owns(e)
    BY <1>0, <1>4 DEF Ended
  <2>3. AppliedIsAcknowledged'
    BY <1>0, <1>4, <2>2 DEF Ended, AppliedIsAcknowledged, InStep, Uncertain, Acknowledged
  <2> QED BY <2>1, <2>3
<1>5. CASE Claimed(e)
  <2>1. \A f \in Executors \ {e} : InStep(f)'
    BY <1>5 DEF Claimed, InStep, Owns
  <2>2. InStep(e)'
    BY <1>5 DEF Claimed, InStep, Uncertain
  <2>3. AppliedIsAcknowledged'
    BY <1>0, <1>5 DEF Claimed, AppliedIsAcknowledged, Uncertain, Acknowledged
  <2> QED BY <2>1, <2>2, <2>3
<1> QED BY <1>1, <1>2, <1>3, <1>4, <1>5 DEF ProcessStep

LEMMA OtherKeepsStatus ==
    ASSUME TypeInv, StatusInv, OtherStep
    PROVE  StatusInv'
<1>1. CASE Authorized
  BY <1>1 DEF Authorized, StatusInv, Owns, Acknowledged
<1>2. CASE Ticked
  BY <1>2 DEF Ticked, KeepsClaim, KeepsOutcome, StatusInv, Owns
<1>3. CASE Fated
  BY <1>3 DEF Fated, StatusInv, Owns
<1> QED BY <1>1, <1>2, <1>3 DEF OtherStep

LEMMA StatusInvariant == Spec => []StatusInv
<1>1. Init => StatusInv
  BY DEF Init, NewReceipt, StatusInv, Acknowledged, Owns
<1>2. TypeInv /\ GrantInv /\ StatusInv /\ [Next]_vars => StatusInv'
  BY StepShape, ProcessKeepsStatus, OtherKeepsStatus
<1> QED BY <1>1, <1>2, TypeInvariant, GrantInvariant, PTL DEF Spec

-----------------------------------------------------------------------------
(* The executor implements GrantedWrites.  By OneWritePerGrant the fate of *)
(* a grant is the fate of its only request.                                *)

LEMMA UnusedFate ==
    ASSUME TypeInv, NEW g, \A r \in sent : r.grant # g
    PROVE  FateOf(g) = "unused"
<1>1. ~Of(g, sent) /\ ~Of(g, wire) /\ ~Of(g, landed) /\ ~Of(g, refused)
  BY DEF Of, TypeInv, TypeOK
<1> QED BY <1>1 DEF FateOf

LEMMA RequestFate ==
    ASSUME TypeInv, GrantInv, FateInv, NEW r \in sent
    PROVE  /\ r \in wire    => FateOf(r.grant) = "out"
           /\ r \in landed  => FateOf(r.grant) = "landed"
           /\ r \in refused => FateOf(r.grant) = "refused"
           /\ r \notin wire \union landed \union refused => FateOf(r.grant) = "lost"
           /\ FateOf(r.grant) # "unused"
<1>1. /\ Of(r.grant, sent)
      /\ Of(r.grant, wire) <=> r \in wire
      /\ Of(r.grant, landed) <=> r \in landed
      /\ Of(r.grant, refused) <=> r \in refused
  BY DEF Of, GrantInv, OneWritePerGrant, TypeInv, TypeOK
<1>2. /\ r \in wire => r \notin landed /\ r \notin refused
      /\ r \in landed => r \notin refused
  BY DEF FateInv
<1> QED BY <1>1, <1>2 DEF FateOf

\* The same of the next state.
LEMMA NextRequestFate ==
    ASSUME TypeInv', GrantInv', FateInv', NEW r \in sent'
    PROVE  /\ r \in wire'    => FateOf(r.grant)' = "out"
           /\ r \in landed'  => FateOf(r.grant)' = "landed"
           /\ r \in refused' => FateOf(r.grant)' = "refused"
           /\ r \notin wire' \union landed' \union refused' => FateOf(r.grant)' = "lost"
<1>1. /\ Of(r.grant, sent')
      /\ Of(r.grant, wire') <=> r \in wire'
      /\ Of(r.grant, landed') <=> r \in landed'
      /\ Of(r.grant, refused') <=> r \in refused'
  BY DEF Of, GrantInv, OneWritePerGrant, TypeInv, TypeOK
<1>2. /\ r \in wire' => r \notin landed' /\ r \notin refused'
      /\ r \in landed' => r \notin refused'
  BY DEF FateInv
<1>3. FateOf(r.grant)' = CASE ~Of(r.grant, sent')    -> "unused"
                           [] Of(r.grant, wire')    -> "out"
                           [] Of(r.grant, landed')  -> "landed"
                           [] Of(r.grant, refused') -> "refused"
                           [] OTHER                 -> "lost"
  BY DEF FateOf, Of
<1> QED BY <1>1, <1>2, <1>3

ReqGranted == \A r \in sent : r.grant \in Grants /\ r.grant \in {0} \union receipt.consumed

LEMMA RequestsAreGranted ==
    ASSUME TypeInv, GrantInv
    PROVE  ReqGranted
<1>1. \A r \in sent : r.grant \in Grants /\ Used(r.grant)
  BY DEF TypeInv, TypeOK, Request, Used
<1> QED BY <1>1 DEF GrantInv, UsedIsGranted, ReqGranted

\* A step that changes one grant's fate leaves those of the others.
LEMMA OtherFates ==
    ASSUME NEW g, NEW h, g # h,
           \A r : r.grant = h =>
                     /\ r \in sent' <=> r \in sent
                     /\ r \in wire' <=> r \in wire
                     /\ r \in landed' <=> r \in landed
                     /\ r \in refused' <=> r \in refused
    PROVE  FateOf(h)' = FateOf(h)
BY DEF FateOf, Of

\* The promise's variables, as the executor's state gives them.
Fates == [g \in Grants |-> FateOf(g)]
Shown == StatusOf(receipt.status)
Granted == {0} \union receipt.consumed

\* The statuses and what they fold onto.
LEMMA Folds ==
    /\ StatusOf("none") = "free" /\ StatusOf("not_sent_retryable") = "unsent"
    /\ StatusOf("reserved") = "sending" /\ StatusOf("sending") = "sending"
    /\ StatusOf("legacy") = "unknown"
    /\ \A s \in Uncertain : StatusOf(s) = "unknown"
    /\ StatusOf("authorized_retry") = "authorized"
    /\ \A s \in Acknowledged : StatusOf(s) = "applied"
    /\ StatusOf("rejected_not_applied") = "rejected"
    /\ StatusOf("verified") = "verified"
BY DEF StatusOf, Uncertain, Acknowledged

LEMMA OnlyOpenIsResendable ==
    ASSUME TypeInv, Shown \in Abstract!Resendable
    PROVE  receipt.status \in Open
<1>1. receipt.status \in Status
  BY DEF TypeInv, TypeOK, Receipt
<1> QED BY <1>1, Folds DEF Shown, Abstract!Resendable, Status, Terminal, Open

LEMMA FatesStay ==
    ASSUME UNCHANGED provider
    PROVE  Fates' = Fates
BY DEF Fates, FateOf, Of, provider

LEMMA OneFateChanges ==
    ASSUME NEW g \in Grants, NEW fate, FateOf(g)' = fate,
           \A h \in Grants \ {g} : FateOf(h)' = FateOf(h)
    PROVE  Fates' = [Fates EXCEPT ![g] = fate]
BY DEF Fates

\* No request moves and nothing is granted: whatever happens is in the status.
StatusMoves(old, new) ==
    /\ UNCHANGED provider
    /\ receipt'.consumed = receipt.consumed
    /\ receipt'.activeAuth = receipt.activeAuth
    /\ Shown = old /\ Shown' = new

LEMMA StatusTurns ==
    ASSUME NEW old, NEW new, StatusMoves(old, new), NEW from, old \in from
    PROVE  Abstract!Turn(from, new)
BY FatesStay DEF StatusMoves, Abstract!Turn, Shown, Fates

LEMMA StatusStays ==
    ASSUME NEW old, StatusMoves(old, old)
    PROVE  UNCHANGED Abstract!gvars
BY FatesStay DEF StatusMoves, Abstract!gvars, Shown, Fates

LEMMA QuietStep ==
    ASSUME UNCHANGED provider, receipt'.consumed = receipt.consumed,
           receipt'.activeAuth = receipt.activeAuth,
           receipt'.status = receipt.status
    PROVE  UNCHANGED Abstract!gvars
BY StatusStays DEF StatusMoves, Shown

\* The current grant's fate is told by an owner's step.
LEMMA CurrentFate ==
    ASSUME TypeInv, GrantInv, FateInv, StatusInv, NEW e \in Executors, Owns(e)
    PROVE  /\ receipt.activeAuth \in Grants
           /\ Unsent(e) => Fates[receipt.activeAuth] = "unused"
           /\ me[e].pc = "acked" => Fates[receipt.activeAuth] = "landed"
           /\ me[e].pc = "refusal" => Fates[receipt.activeAuth] = "refused"
<1>1. receipt.activeAuth \in Grants
  BY DEF TypeInv, TypeOK, Receipt
<1>2. me[e].pc \in MarkedSteps => me[e].grant = receipt.activeAuth
  BY DEF StatusInv
<1>3. Fates[receipt.activeAuth] = FateOf(receipt.activeAuth)
  BY <1>1 DEF Fates
<1>4. ASSUME Unsent(e) PROVE FateOf(receipt.activeAuth) = "unused"
  <2>1. \A r \in sent : r.grant # receipt.activeAuth
    BY <1>2, <1>4 DEF Unsent, MarkedSteps, GrantInv, UnsentIsUnused
  <2> QED BY <2>1, UnusedFate
<1>5. PICK r : r = Req(e)
  OBVIOUS
<1>6. ASSUME me[e].pc = "acked" PROVE FateOf(receipt.activeAuth) = "landed"
  <2>1. r \in landed /\ r \in sent /\ r.grant = receipt.activeAuth
    BY <1>2, <1>5, <1>6 DEF MarkedSteps, FateInv, TypeInv, TypeOK, Req
  <2> QED BY <2>1, RequestFate
<1>7. ASSUME me[e].pc = "refusal" PROVE FateOf(receipt.activeAuth) = "refused"
  <2>1. r \in refused /\ r \in sent /\ r.grant = receipt.activeAuth
    BY <1>2, <1>5, <1>7 DEF MarkedSteps, FateInv, TypeInv, TypeOK, Req
  <2> QED BY <2>1, RequestFate
<1> QED BY <1>1, <1>3, <1>4, <1>6, <1>7

LEMMA LandedIsGranted ==
    ASSUME TypeInv, GrantInv, FateInv, landed # {}
    PROVE  \E g \in Granted : Fates[g] = "landed"
<1>1. PICK r \in landed : r \in sent
  BY DEF TypeInv, TypeOK
<1>2. r.grant \in Grants /\ r.grant \in Granted
  BY <1>1, RequestsAreGranted DEF ReqGranted, Granted
<1>3. Fates[r.grant] = "landed"
  BY <1>1, <1>2, RequestFate DEF Fates
<1> QED BY <1>2, <1>3

LEMMA AbstractSend ==
    ASSUME TypeInv, GrantInv, FateInv, TypeInv', GrantInv', FateInv',
           NEW e \in Executors, Went(e), ~UNCHANGED provider
    PROVE  Abstract!GNext
<1>1. PICK r : r = Req(e)
  OBVIOUS
<1>2. /\ me[e].pc = "dispatch" /\ receipt' = receipt
      /\ sent' = sent \union {r} /\ wire' = wire \union {r}
      /\ landed' = landed /\ refused' = refused
  BY <1>1 DEF Went, From, provider
<1>3. Unsent(e) /\ r.grant = me[e].grant /\ r.grant \in Grants
  BY <1>1, <1>2 DEF Unsent, UnsentSteps, Req, TypeInv, TypeOK, Local
<1>4. r.grant \in Granted
  BY <1>3 DEF GrantInv, UsedIsGranted, Used, Granted
<1>5. FateOf(r.grant) = "unused"
  <2>1. \A q \in sent : q.grant # r.grant
    BY <1>3 DEF GrantInv, UnsentIsUnused
  <2> QED BY <2>1, UnusedFate
<1>6. FateOf(r.grant)' = "out"
  BY <1>2, NextRequestFate
<1>7. ASSUME NEW h \in Grants \ {r.grant}
      PROVE  FateOf(h)' = FateOf(h)
  <2>1. \A q : q.grant = h =>
          /\ q \in sent' <=> q \in sent
          /\ q \in wire' <=> q \in wire
          /\ q \in landed' <=> q \in landed
          /\ q \in refused' <=> q \in refused
    BY <1>2
  <2> QED BY <2>1, OtherFates
<1>8. Fates' = [Fates EXCEPT ![r.grant] = "out"]
  BY <1>3, <1>6, <1>7, OneFateChanges
<1>9. UNCHANGED <<receipt, Shown, Granted>>
  BY <1>2 DEF Shown, Granted
<1>10. Fates[r.grant] = "unused"
  BY <1>3, <1>5 DEF Fates
<1>11. r.grant = receipt.activeAuth => Shown \notin Abstract!Resendable
  <2>1. r.grant = receipt.activeAuth => Used(receipt.activeAuth)
    BY <1>3 DEF Used
  <2> QED BY <2>1, OnlyOpenIsResendable DEF GrantInv, OpenIsUnused
<1>12. Abstract!Send(r.grant)
  BY <1>4, <1>8, <1>9, <1>10, <1>11 DEF Abstract!Send, Fates, Shown, Granted
<1> QED BY <1>3, <1>12 DEF Abstract!GNext

LEMMA AbstractSettle ==
    ASSUME TypeInv, GrantInv, FateInv, TypeInv', GrantInv', FateInv', Fated
    PROVE  Abstract!GNext
<1>1. PICK r \in wire :
        /\ wire' = wire \ {r}
        /\ \/ landed' = landed \union {r} /\ refused' = refused
           \/ refused' = refused \union {r} /\ landed' = landed
           \/ landed' = landed /\ refused' = refused
  BY DEF Fated
<1>2. receipt' = receipt /\ sent' = sent
  BY DEF Fated
<1>3. r \in sent /\ r.grant \in Grants
  BY DEF TypeInv, TypeOK, Request
<1>4. FateOf(r.grant) = "out"
  BY <1>3, RequestFate
<1>5. PICK outcome \in {"landed", "refused", "lost"} : FateOf(r.grant)' = outcome
  <2>1. r \notin landed /\ r \notin refused
    BY DEF FateInv
  <2>2. r \in sent' /\ r \notin wire'
    BY <1>1, <1>2, <1>3
  <2> QED BY <2>2, NextRequestFate
<1>6. ASSUME NEW h \in Grants \ {r.grant}
      PROVE  FateOf(h)' = FateOf(h)
  <2>1. \A q : q.grant = h =>
          /\ q \in sent' <=> q \in sent
          /\ q \in wire' <=> q \in wire
          /\ q \in landed' <=> q \in landed
          /\ q \in refused' <=> q \in refused
    BY <1>1, <1>2
  <2> QED BY <2>1, OtherFates
<1>7. Fates' = [Fates EXCEPT ![r.grant] = outcome]
  BY <1>3, <1>5, <1>6, OneFateChanges
<1>8. UNCHANGED <<receipt, Shown, Granted>>
  BY <1>2 DEF Shown, Granted
<1>9. Fates[r.grant] = "out"
  BY <1>3, <1>4 DEF Fates
<1>10. Abstract!Settle(r.grant, outcome)
  BY <1>7, <1>8, <1>9 DEF Abstract!Settle, Fates, Shown, Granted
<1> QED BY <1>3, <1>10 DEF Abstract!GNext

\* A save the call goes on after: the send boundary, or the acknowledgment.
LEMMA AbstractSave ==
    ASSUME TypeInv, GrantInv, FateInv, StatusInv, NEW e \in Executors, Saved(e)
    PROVE  [Abstract!GNext]_(Abstract!gvars)
<1>0. /\ UNCHANGED provider /\ receipt'.consumed = receipt.consumed
      /\ receipt'.activeAuth = receipt.activeAuth /\ Owns(e)
  BY DEF Saved, KeepsClaim
<1>1. CASE me[e].pc = "reserve" /\ receipt'.status = "sending"
  <2>1. receipt.status \in Open
    BY <1>0, <1>1 DEF GrantInv, OwnerHoldsGrant, Owns
  <2>2. Shown' = "sending" /\ Shown \in {"free", "unsent", "sending"}
    BY <1>1, <2>1, Folds DEF Shown, Open
  <2>3. CASE Shown = "sending"
    BY <1>0, <2>2, <2>3, StatusStays DEF StatusMoves
  <2>4. CASE Shown # "sending"
    <3>1. StatusMoves(Shown, "sending") /\ Shown \in Abstract!Resendable
      BY <1>0, <2>2, <2>4 DEF StatusMoves, Abstract!Resendable
    <3>2. Abstract!Reserve
      BY <3>1, StatusTurns DEF Abstract!Reserve
    <3> QED BY <3>2 DEF Abstract!GNext
  <2> QED BY <2>3, <2>4
<1>2. CASE me[e].pc = "acked" /\ receipt'.status = "applied_pending_readback"
  <2>1. receipt.status = "sending"
    BY <1>0, <1>2 DEF StatusInv, MarkedSteps
  <2>2. StatusMoves("sending", "applied")
    BY <1>0, <1>2, <2>1, Folds DEF StatusMoves, Shown, Acknowledged
  <2>3. Fates[receipt.activeAuth] = "landed"
    BY <1>0, <1>2, CurrentFate
  <2>4. Abstract!Turn({"sending"}, "applied")
    BY <2>2, StatusTurns
  <2>5. Abstract!Acknowledge
    BY <2>3, <2>4 DEF Abstract!Acknowledge, Fates
  <2> QED BY <2>5 DEF Abstract!GNext
<1>3. CASE KeepsOutcome
  BY <1>0, <1>3, QuietStep DEF KeepsOutcome
<1> QED BY <1>1, <1>2, <1>3 DEF Saved, From

\* A save that ends the call.
LEMMA AbstractEnd ==
    ASSUME TypeInv, GrantInv, FateInv, StatusInv, NEW e \in Executors, Ended(e)
    PROVE  [Abstract!GNext]_(Abstract!gvars)
<1>0. /\ UNCHANGED provider /\ receipt'.consumed = receipt.consumed
      /\ receipt'.activeAuth = receipt.activeAuth /\ Owns(e)
  BY DEF Ended, KeepsClaim
<1>1. CASE me[e].pc \in {"notSent", "backoff"}
           /\ receipt'.status = "not_sent_retryable"
  <2>1. receipt.status = "sending" /\ Fates[receipt.activeAuth] = "unused"
    BY <1>0, <1>1, CurrentFate DEF StatusInv, MarkedSteps, UnsentSteps, Unsent
  <2>2. StatusMoves("sending", "unsent")
    BY <1>0, <1>1, <2>1, Folds DEF StatusMoves, Shown
  <2>3. Abstract!Turn({"sending"}, "unsent")
    BY <2>2, StatusTurns
  <2>4. Abstract!ReleaseUnsent
    BY <2>1, <2>3 DEF Abstract!ReleaseUnsent, Fates
  <2> QED BY <2>4 DEF Abstract!GNext
<1>2. CASE me[e].pc = "refusal" /\ receipt'.status = "rejected_not_applied"
  <2>1. receipt.status = "sending" /\ Fates[receipt.activeAuth] = "refused"
    BY <1>0, <1>2, CurrentFate DEF StatusInv, MarkedSteps
  <2>2. StatusMoves("sending", "rejected")
    BY <1>0, <1>2, <2>1, Folds DEF StatusMoves, Shown
  <2>3. Abstract!Turn({"sending"}, "rejected")
    BY <2>2, StatusTurns
  <2>4. Abstract!Reject
    BY <2>1, <2>3 DEF Abstract!Reject, Fates
  <2> QED BY <2>4 DEF Abstract!GNext
<1>3. CASE receipt'.status = "verified" /\ landed # {}
           /\ receipt.status \in Uncertain \union Acknowledged
  <2>1. StatusMoves(Shown, "verified") /\ Shown \in {"applied", "unknown"}
    BY <1>0, <1>3, Folds DEF StatusMoves, Shown
  <2>2. Abstract!Turn({"applied", "unknown"}, "verified")
    BY <2>1, StatusTurns
  <2>3. Abstract!Verify
    BY <1>3, <2>2, LandedIsGranted DEF Abstract!Verify, Fates, Granted
  <2> QED BY <2>3 DEF Abstract!GNext
<1>4. CASE receipt'.status \in Uncertain /\ receipt.status = "sending"
  <2>1. StatusMoves("sending", "unknown")
    BY <1>0, <1>4, Folds DEF StatusMoves, Shown
  <2>2. Abstract!Doubt
    BY <2>1, StatusTurns DEF Abstract!Doubt
  <2> QED BY <2>2 DEF Abstract!GNext
<1>5. CASE receipt'.status \in Uncertain /\ receipt.status \in Uncertain
  <2>1. StatusMoves("unknown", "unknown")
    BY <1>0, <1>5, Folds DEF StatusMoves, Shown
  <2> QED BY <2>1, StatusStays
<1>6. CASE receipt'.status \in Acknowledged /\ receipt.status \in Acknowledged
  <2>1. StatusMoves("applied", "applied")
    BY <1>0, <1>6, Folds DEF StatusMoves, Shown
  <2> QED BY <2>1, StatusStays
<1>7. InStep(e) /\ AppliedIsAcknowledged
  BY StatusParts
<1>8. me[e].pc = "decide" /\ me[e].found = 1 => landed # {}
  <2>1. me[e].pc = "decide" => me[e].found <= Cardinality(landed)
    BY DEF FateInv
  <2>2. landed = {} => Cardinality(landed) = 0
    BY FS_EmptySet
  <2> QED BY <2>1, <2>2
<1> QED
  BY <1>0, <1>1, <1>2, <1>3, <1>4, <1>5, <1>6, <1>7, <1>8
  DEF Ended, InStep, AppliedIsAcknowledged, MarkedSteps, ScanSteps, ReadbackSteps,
      Uncertain, Acknowledged

LEMMA AbstractClaim ==
    ASSUME TypeInv, NEW e \in Executors, Claimed(e)
    PROVE  [Abstract!GNext]_(Abstract!gvars)
<1>0. UNCHANGED provider
  BY DEF Claimed
<1>1. CASE receipt.status = "authorized_retry"
  <2>1. PICK a \in Pending :
          /\ receipt'.consumed = receipt.consumed \union {a}
          /\ receipt'.activeAuth = a /\ receipt'.status = "reserved"
    BY <1>1 DEF Claimed, Uncertain, Acknowledged
  <2>2. a \in Grants /\ a \notin Granted /\ Granted' = Granted \union {a}
    BY <2>1, BoundAssumption
    DEF Pending, Granted, Grants, TypeInv, TypeOK, Receipt
  <2>3. Shown = "authorized" /\ Shown' = "sending" /\ Fates' = Fates
    BY <1>0, <1>1, <2>1, Folds, FatesStay DEF Shown
  <2>4. Abstract!Grant(a)
    BY <2>1, <2>2, <2>3 DEF Abstract!Grant, Fates, Shown, Granted
  <2> QED BY <2>2, <2>4 DEF Abstract!GNext
<1>2. CASE receipt.status # "authorized_retry"
  <2>0. /\ receipt'.consumed = receipt.consumed
        /\ receipt'.activeAuth = receipt.activeAuth
    BY <1>2 DEF Claimed
  <2>1. CASE receipt'.status = receipt.status
    BY <1>0, <2>0, <2>1, QuietStep
  <2>2. CASE receipt.status \in {"none", "not_sent_retryable"}
             /\ receipt'.status = "reserved"
    <3>1. StatusMoves(Shown, "sending") /\ Shown \in Abstract!Resendable
      BY <1>0, <2>0, <2>2, Folds DEF StatusMoves, Shown, Abstract!Resendable
    <3>2. Abstract!Reserve
      BY <3>1, StatusTurns DEF Abstract!Reserve
    <3> QED BY <3>2 DEF Abstract!GNext
  <2>3. CASE receipt.status \in {"reserved", "sending"}
             /\ receipt'.status = "recovery_required"
    <3>1. StatusMoves("sending", "unknown")
      BY <1>0, <2>0, <2>3, Folds DEF StatusMoves, Shown, Uncertain
    <3>2. Abstract!Doubt
      BY <3>1, StatusTurns DEF Abstract!Doubt
    <3> QED BY <3>2 DEF Abstract!GNext
  <2>4. CASE receipt.status = "legacy" /\ receipt'.status = "recovery_required"
    <3>1. StatusMoves("unknown", "unknown")
      BY <1>0, <2>0, <2>4, Folds DEF StatusMoves, Shown, Uncertain
    <3> QED BY <3>1, StatusStays
  <2> QED BY <1>2, <2>1, <2>2, <2>3, <2>4 DEF Claimed
<1> QED BY <1>1, <1>2

LEMMA AbstractStep ==
    ASSUME TypeInv, GrantInv, FateInv, StatusInv,
           TypeInv', GrantInv', FateInv', [Next]_vars
    PROVE  [Abstract!GNext]_(Abstract!gvars)
<1>1. ASSUME NEW e \in Executors, ProcessStep(e)
      PROVE  [Abstract!GNext]_(Abstract!gvars)
  <2>1. CASE Left(e)
    BY <2>1, QuietStep DEF Left
  <2>2. CASE Went(e)
    <3>1. CASE UNCHANGED provider
      BY <2>2, <3>1, QuietStep DEF Went
    <3> QED BY <2>2, <3>1, AbstractSend
  <2>3. CASE Saved(e)
    BY <2>3, AbstractSave
  <2>4. CASE Ended(e)
    BY <2>4, AbstractEnd
  <2>5. CASE Claimed(e)
    BY <2>5, AbstractClaim
  <2> QED BY <1>1, <2>1, <2>2, <2>3, <2>4, <2>5 DEF ProcessStep
<1>2. CASE Authorized
  <2>1. StatusMoves("unknown", "authorized")
    BY <1>2, Folds DEF Authorized, StatusMoves, Shown, Uncertain
  <2>2. Abstract!Authorize
    BY <2>1, StatusTurns DEF Abstract!Authorize
  <2> QED BY <2>2 DEF Abstract!GNext
<1>3. CASE Ticked
  BY <1>3, QuietStep DEF Ticked, KeepsClaim, KeepsOutcome
<1>4. CASE Fated
  BY <1>4, AbstractSettle
<1> QED BY <1>1, <1>2, <1>3, <1>4, StepShape DEF OtherStep

LEMMA AbstractInit ==
    ASSUME Init
    PROVE  Abstract!GInit
<1>1. Granted = {0} /\ receipt.activeAuth = 0
  BY DEF Init, NewReceipt, Granted
<1>2. CASE receipt.status = "none" /\ sent = {} /\ wire = {}
  <2>1. Fates = [g \in Grants |-> "unused"]
    BY <1>2 DEF Init, Fates, FateOf, Of
  <2>2. Shown = "free"
    BY <1>2, Folds DEF Shown
  <2> QED BY <1>1, <2>1, <2>2 DEF Abstract!GInit, Fates, Granted, Shown
<1>3. CASE receipt.status = "legacy" /\ sent = {LegacyRequest}
           /\ wire = {LegacyRequest}
  <2>1. FateOf(0) = "out"
    <3>1. \E r \in sent : r.grant = 0
      BY <1>3 DEF LegacyRequest
    <3>2. landed = {} /\ refused = {} /\ wire = sent
      BY <1>3 DEF Init
    <3> QED BY <3>1, <3>2 DEF FateOf, Of
  <2>2. \A g \in Grants \ {0} : FateOf(g) = "unused"
    BY <1>3 DEF Init, FateOf, Of, LegacyRequest
  <2>3. Fates = [g \in Grants |-> IF g = 0 THEN "out" ELSE "unused"]
    BY <2>1, <2>2 DEF Fates
  <2>4. Shown = "unknown"
    BY <1>3, Folds DEF Shown
  <2> QED BY <1>1, <2>3, <2>4 DEF Abstract!GInit, Fates, Granted, Shown
<1> QED BY <1>2, <1>3 DEF Init, NewReceipt

\* With leases, fences, crashes, retries and stale owners, the executor does no
\* more than the promise allows: each grant sends at most one write, and every
\* move of the receipt's status is one the promise makes on the same ground.
THEOREM PromiseIsImplemented == Spec => ImplementsGrantedWrites
<1>1. Init => Abstract!GInit
  BY AbstractInit
<1>2. /\ TypeInv /\ GrantInv /\ FateInv /\ StatusInv
      /\ TypeInv' /\ GrantInv' /\ FateInv'
      /\ [Next]_vars
      => [Abstract!GNext]_(Abstract!gvars)
  BY AbstractStep
<1> QED BY <1>1, <1>2, TypeInvariant, GrantInvariant, FateInvariant,
           StatusInvariant, PTL
        DEF Spec, ImplementsGrantedWrites, Abstract!GSpec

-----------------------------------------------------------------------------
(* What a reader of the status may rely on, proved of the promise and      *)
(* carried over to the executor by the refinement.                         *)

\* The promise's Honest in the executor's terms.
Honest ==
    /\ Shown \in Abstract!Resendable => Fates[receipt.activeAuth] = "unused"
    /\ Shown = "applied" => Fates[receipt.activeAuth] = "landed"
    /\ Shown = "rejected" => Fates[receipt.activeAuth] = "refused"
    /\ Shown = "verified" => \E g \in Granted : Fates[g] = "landed"

LEMMA HonestFolds == (Abstract!Honest <=> Honest) /\ (Abstract!Honest' <=> Honest')
BY DEF Abstract!Honest, Honest, Shown, Fates, Granted

LEMMA PromiseIsHonest == Abstract!GSpec => []Abstract!Honest
<1> DEFINE Granting == receipt.activeAuth \in Grants /\ Granted \subseteq Grants
           Kept == Granting /\ Abstract!Honest
<1>1. Abstract!GInit => Kept
  <2> SUFFICES ASSUME Abstract!GInit PROVE Kept
    OBVIOUS
  <2>1. /\ Granted = {0} /\ receipt.activeAuth = 0
        /\ \/ Shown = "free" /\ Fates = [g \in Grants |-> "unused"]
           \/ Shown = "unknown"
    BY DEF Abstract!GInit, Granted, Shown, Fates
  <2>2. 0 \in Grants
    BY BoundAssumption DEF Grants
  <2> QED BY <2>1, <2>2, HonestFolds DEF Honest, Abstract!Resendable
<1>2. Kept /\ [Abstract!GNext]_(Abstract!gvars) => Kept'
  <2> SUFFICES ASSUME Granting, Honest, [Abstract!GNext]_(Abstract!gvars)
               PROVE  Granting' /\ Honest'
    BY HonestFolds
  <2> USE DEF Honest, Abstract!Resendable
  <2>0. DOMAIN Fates = Grants
    BY DEF Fates
  <2>1. ASSUME NEW g \in Grants, Abstract!Grant(g)
        PROVE  Granting' /\ Honest'
    <3>1. /\ Granted' = Granted \union {g} /\ receipt'.activeAuth = g
          /\ Shown' = "sending"
      BY <2>1 DEF Abstract!Grant, Granted, Shown
    <3> QED BY <3>1
  <2>2. ASSUME NEW g \in Grants, Abstract!Send(g)
        PROVE  Granting' /\ Honest'
    <3>1. /\ Fates[g] = "unused" /\ Fates' = [Fates EXCEPT ![g] = "out"]
          /\ g = receipt.activeAuth => Shown \notin Abstract!Resendable
          /\ UNCHANGED <<Granted, Shown>> /\ receipt'.activeAuth = receipt.activeAuth
      BY <2>2 DEF Abstract!Send, Fates, Granted, Shown
    <3> QED BY <2>0, <3>1
  <2>3. ASSUME NEW g \in Grants, NEW outcome \in {"landed", "refused", "lost"},
               Abstract!Settle(g, outcome)
        PROVE  Granting' /\ Honest'
    <3>1. /\ Fates[g] = "out" /\ Fates' = [Fates EXCEPT ![g] = outcome]
          /\ UNCHANGED <<Granted, Shown>> /\ receipt'.activeAuth = receipt.activeAuth
      BY <2>3 DEF Abstract!Settle, Fates, Granted, Shown
    <3> QED BY <2>0, <3>1
  <2>4. ASSUME NEW old, NEW new, Abstract!Turn(old, new),
               /\ new \in Abstract!Resendable => Fates[receipt.activeAuth] = "unused"
               /\ new = "applied" => Fates[receipt.activeAuth] = "landed"
               /\ new = "rejected" => Fates[receipt.activeAuth] = "refused"
               /\ new = "verified" => \E g \in Granted : Fates[g] = "landed"
        PROVE  Granting' /\ Honest'
    <3>1. /\ Shown' = new /\ UNCHANGED <<Granted, Fates>>
          /\ receipt'.activeAuth = receipt.activeAuth
      BY <2>4 DEF Abstract!Turn, Fates, Granted, Shown
    <3> QED BY <2>4, <3>1
  <2>5. CASE Abstract!Reserve
    BY <2>4, <2>5 DEF Abstract!Reserve
  <2>6. CASE Abstract!ReleaseUnsent
    BY <2>4, <2>6 DEF Abstract!ReleaseUnsent, Fates
  <2>7. CASE Abstract!Doubt
    BY <2>4, <2>7 DEF Abstract!Doubt
  <2>8. CASE Abstract!Acknowledge
    BY <2>4, <2>8 DEF Abstract!Acknowledge, Fates
  <2>9. CASE Abstract!Reject
    BY <2>4, <2>9 DEF Abstract!Reject, Fates
  <2>10. CASE Abstract!Verify
    BY <2>4, <2>10 DEF Abstract!Verify, Fates, Granted
  <2>11. CASE Abstract!Authorize
    BY <2>4, <2>11 DEF Abstract!Authorize
  <2>12. CASE UNCHANGED Abstract!gvars
    <3>1. UNCHANGED <<Granted, Fates, Shown>> /\ receipt'.activeAuth = receipt.activeAuth
      BY <2>12 DEF Abstract!gvars, Fates, Granted, Shown
    <3> QED BY <3>1
  <2> QED BY <2>1, <2>2, <2>3, <2>5, <2>6, <2>7, <2>8, <2>9, <2>10, <2>11, <2>12
          DEF Abstract!GNext
<1> QED BY <1>1, <1>2, PTL DEF Abstract!GSpec

\* The receipt never tells a caller what is not so: a status that offers a plain
\* resend has no write of its grant out in the world, an acknowledged and a
\* rejected receipt speak of their own last write, and a verified one stands on
\* a write the provider applied (resilience.py:194-463).
THEOREM StatusIsHonest == Spec => []Abstract!Honest
BY PromiseIsImplemented, PromiseIsHonest, PTL DEF ImplementsGrantedWrites

-----------------------------------------------------------------------------
(* The safety half of "every call returns": a call can only go on.         *)

\* How many steps a call has before it at most.  The transport loop goes through
\* dispatch and notSent once for each attempt that is left; the rest is a straight
\* way to the end.
StepsOf(call) ==
    LET attempts == 2 * (MaxTries - call.try)
    IN  CASE call.pc = "idle" -> 0
          [] call.pc = "reserve" -> 9 + 2 * MaxTries
          [] call.pc = "dispatch" -> 8 + attempts
          [] call.pc = "notSent" -> 7 + attempts
          [] call.pc = "await" -> 6
          [] call.pc = "acked" -> 5
          [] call.pc \in {"validate", "resume", "scan"} -> 4
          [] call.pc \in {"readback", "pages"} -> 3
          [] call.pc \in {"fail", "scanned"} -> 2
          [] OTHER -> 1
StepsLeft(e) == StepsOf(me[e])
MostSteps == 9 + 2 * MaxTries

\* A step of another process leaves the call where it is; one of its own brings it
\* closer to its end.
CallGoesOn(e) == Live(e) => UNCHANGED me[e] \/ StepsLeft(e)' < StepsLeft(e)

LEMMA StepsAreCounted ==
    ASSUME NEW call \in Local
    PROVE  /\ StepsOf(call) \in 0 .. MostSteps
           /\ StepsOf(call) = 0 <=> call.pc = "idle"
<1>1. /\ call.pc \in Step /\ call.try \in 0 .. MaxTries
      /\ MaxTries \in Nat
  BY BoundAssumption DEF Local
<1> QED BY <1>1 DEF StepsOf, MostSteps, Step

LEMMA EndingCounts ==
    ASSUME TypeInv, NEW e \in Executors, Live(e), Return(e)
    PROVE  StepsLeft(e)' < StepsLeft(e)
<1>1. me[e] \in Local /\ me'[e] = Idle
  BY DEF TypeInv, TypeOK, Return
<1>2. StepsOf(Idle) = 0
  BY DEF StepsOf, Idle
<1>3. StepsOf(me[e]) \in Nat /\ StepsOf(me[e]) # 0
  BY <1>1, StepsAreCounted, BoundAssumption DEF Live, MostSteps
<1> QED BY <1>1, <1>2, <1>3 DEF StepsLeft

\* The ways from one place of a call to the next, but for those around the loop.
Ways ==
    {<<"dispatch", "backoff">>, <<"dispatch", "notSent">>, <<"dispatch", "await">>,
     <<"await", "acked">>, <<"await", "refusal">>, <<"await", "opaque">>,
     <<"await", "fail">>, <<"acked", "validate">>, <<"validate", "readback">>,
     <<"resume", "readback">>, <<"readback", "fail">>, <<"pages", "fail">>,
     <<"scanned", "decide">>, <<"fail", "conclude">>}

LEMMA GoingCounts ==
    ASSUME TypeInv, NEW e \in Executors, NEW next, Goto(e, next),
           <<me[e].pc, next>> \in Ways
    PROVE  StepsLeft(e)' < StepsLeft(e)
<1>1. /\ me[e] \in Local /\ me[e].try \in 0 .. MaxTries /\ MaxTries \in Nat
      /\ me'[e] = [me[e] EXCEPT !.pc = next]
  BY BoundAssumption DEF TypeInv, TypeOK, Local, Goto
<1>2. me'[e].pc = next /\ me'[e].try = me[e].try
  BY <1>1 DEF Local
<1> QED BY <1>1, <1>2 DEF StepsLeft, StepsOf, Ways

LEMMA LoopCounts ==
    ASSUME TypeInv, NEW e \in Executors,
           MarkSending(e) \/ RetryWrite(e) \/ StartScan(e) \/ ReadPages(e)
    PROVE  StepsLeft(e)' < StepsLeft(e)
<1>1. /\ me[e] \in Local /\ me[e].try \in 0 .. MaxTries /\ MaxTries \in Nat \ {0}
      /\ e \in DOMAIN me
  BY BoundAssumption DEF TypeInv, TypeOK, Local
<1>2. me[e].pc \in {"reserve", "notSent", "scan", "pages"}
  BY DEF MarkSending, RetryWrite, Retryable, StartScan, ReadPages
<1>3. CASE Return(e)
  BY <1>2, <1>3, EndingCounts DEF Live
<1>4. CASE me[e].pc = "reserve" /\ me'[e].pc = "dispatch" /\ me'[e].try = 1
  BY <1>1, <1>4 DEF StepsLeft, StepsOf
<1>5. CASE /\ me[e].pc = "notSent" /\ me'[e].pc = "dispatch"
           /\ me[e].try < MaxTries /\ me'[e].try = me[e].try + 1
  BY <1>1, <1>5 DEF StepsLeft, StepsOf
<1>6. CASE \/ me[e].pc = "scan" /\ me'[e].pc = "pages"
           \/ me[e].pc = "pages" /\ me'[e].pc = "scanned"
  BY <1>6 DEF StepsLeft, StepsOf
<1>7. CASE MarkSending(e)
  <2>1. \/ Return(e)
        \/ me'[e] = [me[e] EXCEPT !.pc = "dispatch", !.try = 1,
                                  !.grant = receipt.activeAuth]
    BY <1>1, <1>7 DEF MarkSending
  <2> QED BY <1>1, <1>3, <1>4, <1>7, <2>1 DEF MarkSending, Local
<1>8. CASE RetryWrite(e)
  <2>1. \/ Return(e)
        \/ me'[e] = [me[e] EXCEPT !.pc = "dispatch", !.try = me[e].try + 1]
    BY <1>1, <1>8 DEF RetryWrite
  <2> QED BY <1>1, <1>3, <1>5, <1>8, <2>1 DEF RetryWrite, Retryable, Local
<1>9. CASE StartScan(e)
  <2>1. \/ Return(e)
        \/ me'[e] = [me[e] EXCEPT !.pc = "pages", !.base = Cardinality(landed)]
    BY <1>1, <1>9 DEF StartScan
  <2> QED BY <1>1, <1>3, <1>6, <1>9, <2>1 DEF StartScan, Local
<1>10. CASE ReadPages(e)
  <2>1. \/ Return(e)
        \/ \E n : me'[e] = [me[e] EXCEPT !.pc = "scanned", !.found = n]
    BY <1>1, <1>10 DEF ReadPages
  <2> QED BY <1>1, <1>3, <1>6, <1>10, <2>1 DEF ReadPages, Local
<1> QED BY <1>7, <1>8, <1>9, <1>10

LEMMA WorkCounts ==
    ASSUME TypeInv, NEW e \in Executors, Work(e)
    PROVE  StepsLeft(e)' < StepsLeft(e)
<1>1. CASE Live(e) /\ Return(e)
  BY <1>1, EndingCounts
<1>2. CASE \E next : Goto(e, next) /\ <<me[e].pc, next>> \in Ways
  BY <1>2, GoingCounts
<1>3. CASE MarkSending(e) \/ RetryWrite(e) \/ StartScan(e) \/ ReadPages(e)
  BY <1>3, LoopCounts
<1>4. CASE \/ BackOff(e) \/ ConnectionRefused(e) \/ Dispatch(e)
           \/ ReceiveAck(e) \/ ReceiveRejection(e) \/ ReceiveNothing(e)
           \/ ReceiveGarbled(e) \/ ReadbackFails(e) \/ ScanFails(e)
  BY <1>2, <1>4 DEF Ways, BackOff, ConnectionRefused, Dispatch, ReceiveAck,
     ReceiveRejection, ReceiveNothing, ReceiveGarbled, ReadbackFails, ScanFails
<1>5. CASE \/ RecordNotSent(e) \/ RecordRejection(e) \/ RecordUnknown(e)
           \/ RejectAck(e) \/ ProveEffect(e) \/ NoScan(e) \/ DecideScan(e)
           \/ ConcludeFailure(e)
  BY <1>1, <1>5 DEF Live, SaveAndReturn, RecordNotSent, RecordRejection,
     RecordUnknown, RejectAck, ProveEffect, NoScan, DecideScan, ConcludeFailure
<1>6. CASE \/ RecordAck(e) \/ AcceptAck(e) \/ Resume(e) \/ CompleteScan(e)
           \/ FlagEvidence(e)
  BY <1>1, <1>2, <1>6 DEF Ways, Live, SaveThen, SaveAndReturn, RecordAck, AcceptAck,
     Resume, CompleteScan, FlagEvidence
<1> QED BY <1>3, <1>4, <1>5, <1>6 DEF Work, Write, Recover

\* A live call takes part in its own work and in no other process's.
LEMMA CallStep ==
    ASSUME TypeInv, [Next]_vars, NEW e \in Executors
    PROVE  CallGoesOn(e)
<1> SUFFICES ASSUME Live(e) PROVE UNCHANGED me[e] \/ StepsLeft(e)' < StepsLeft(e)
  BY DEF CallGoesOn
<1>1. ASSUME NEW f \in Executors, Begin(f) \/ Work(f) \/ Crash(f)
      PROVE  UNCHANGED me[e] \/ StepsLeft(e)' < StepsLeft(e)
  <2>1. CASE f = e
    <3>1. ~Begin(e)
      BY DEF Begin, BeginFresh, BeginLegacyRecovery, BeginResumeNotSent,
         BeginAuthorized, BeginAfterCrash, BeginRecovery, BeginReadback, Claimable
    <3> QED BY <1>1, <2>1, <3>1, WorkCounts, EndingCounts DEF Crash
  <2>2. CASE f # e
    <3>1. OthersStay(f)
      BY <1>1, BeginShape, WriteShape, RecoverShape, ReturnLeaves
         DEF Work, Crash, Left, Went, Saved, Ended, Claimed
    <3> QED BY <2>2, <3>1 DEF OthersStay
  <2> QED BY <2>1, <2>2
<1>2. CASE AuthorizeReattempt \/ Provider \/ Clock \/ UNCHANGED vars
  BY <1>2 DEF AuthorizeReattempt, Provider, Clock, Land, Refuse, Lose, ExpireLease,
     EvidenceAges, CooldownChanges, vars
<1> QED BY <1>1, <1>2 DEF Next

\* A call of execute() ends after at most 9 + 2 * MaxTries steps of its own,
\* whatever the other processes, the provider and the clock do meanwhile, and
\* whatever becomes of the lease: the transport loop counts its attempts, and no
\* other place is come to twice (resilience.py:269-302).  A scan's pages and a
\* readback's reads are a step each here; they have limits of their own.
THEOREM CallsAreBounded ==
    Spec => /\ [](\A e \in Executors : StepsLeft(e) \in 0 .. MostSteps)
            /\ [][\A e \in Executors : CallGoesOn(e)]_vars
<1>1. TypeInv => \A e \in Executors : StepsLeft(e) \in 0 .. MostSteps
  BY StepsAreCounted DEF TypeInv, TypeOK, StepsLeft
<1>2. TypeInv /\ [Next]_vars => \A e \in Executors : CallGoesOn(e)
  BY CallStep
<1> QED BY <1>1, <1>2, TypeInvariant, PTL DEF Spec
=============================================================================
