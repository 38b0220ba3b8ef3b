----------------------- MODULE OperatorLifecycleProofs -----------------------
(***************************************************************************)
(* Theorems about OperatorLifecycle, for every set of processes and states *)
(* and every bound.  The steps of a call are described once, by what they  *)
(* do to the process (Ended, Went, Turned) and to the receipt it works on  *)
(* (Wrote); the invariant is then preserved by each description.           *)
(***************************************************************************)
EXTENDS OperatorLifecycle, TLAPS

-----------------------------------------------------------------------------
(* Descriptions of steps.                                                  *)

Untouched(p) ==
    \A q \in Processes : q # p => pc'[q] = pc[q] /\ call'[q] = call[q]

\* The call is over, it goes on, it turns to its comment.
Ended(p) == pc'[p] = "idle" /\ call'[p] = None /\ Untouched(p)
Went(p, step) == pc'[p] = step /\ call'[p] = call[p] /\ Untouched(p)
Turned(p) ==
    /\ pc'[p] = "ask"
    /\ call'[p] = [call[p] EXCEPT !.key = "comment"]
    /\ Untouched(p)

\* The receipt of one key has a new status and owner.
Wrote(k, status, owner) ==
    /\ writes'[k].status = status
    /\ writes'[k].owner = owner
    /\ writes'[k].body = writes[k].body
    /\ \A j \in Keys : j # k => writes'[j] = writes[j]

\* What a step leaves of the processes has its types.
ProcessesTyped ==
    /\ pc' \in [Processes -> Steps]
    /\ call' \in [Processes -> Call \union {None}]
    /\ said' \in Report \union {None}
    /\ \A p \in Processes : call'[p] = None <=> pc'[p] = "idle"

Said(p, applied, state, comment) ==
    /\ said'.of = call[p] /\ said'.applied = applied
    /\ said'.state = state /\ said'.comment = comment

\* The fields of a call and of a receipt have their types.
LEMMA Fields ==
    ASSUME TypeOK, NEW p \in Processes, pc[p] # "idle"
    PROVE  /\ call[p] \in Call
           /\ call[p].key \in Keys
           /\ Mine(p) \in Write
  BY DEF TypeOK, WritesTyped, Call, Mine

\* A status and an owner can be set.
LEMMA SetStatusWrites ==
    ASSUME TypeOK, NEW p \in Processes, pc[p] # "idle",
           NEW status, NEW owner \in Processes \union {None},
           status \in {"free", "unsent", "sending", "unknown", "applied",
                       "rejected", "verified"},
           SetStatus(p, status, owner)
    PROVE  WritesTyped' /\ Wrote(call[p].key, status, owner)
<1>1. call[p].key \in Keys
  BY Fields
<1> DEFINE k == call[p].key
           w == [writes[k] EXCEPT !.status = status, !.owner = owner]
<1>2. writes[k] \in Write
  BY <1>1 DEF TypeOK, WritesTyped
<1>3. w \in Write /\ w.status = status /\ w.owner = owner /\ w.body = writes[k].body
  BY <1>2 DEF Write
<1>4. writes' = [writes EXCEPT ![k] = w]
  BY DEF SetStatus
<1> HIDE DEF w
<1>5. writes' \in [Keys -> Write] /\ writes'[k] = w
  BY <1>1, <1>3, <1>4 DEF TypeOK, WritesTyped
<1>6. \A j \in Keys : j # k => writes'[j] = writes[j]
  BY <1>1, <1>4 DEF TypeOK, WritesTyped
<1>7. Wrote(k, status, owner)
  BY <1>3, <1>5, <1>6 DEF Wrote
<1>8. writes'["state"].body = writes["state"].body
  BY <1>1, <1>7 DEF Wrote, Keys
<1> QED
  BY <1>5, <1>7, <1>8 DEF TypeOK, WritesTyped

\* A call that reports is over.
LEMMA SayEnds ==
    ASSUME TypeOK, NEW p \in Processes, pc[p] # "idle",
           NEW status, NEW applied \in BOOLEAN, NEW state \in BOOLEAN,
           NEW comment \in BOOLEAN,
           status \in {"precondition_failed", "state_ambiguous",
                       "comment_pending", "final_state_readback_failed",
                       "verified"},
           Say(p, status, applied, state, comment)
    PROVE  ProcessesTyped /\ Ended(p) /\ Said(p, applied, state, comment)
<1>1. call[p] \in Call
  BY Fields
<1> QED
  BY <1>1, NoneAssumption
  DEF Say, Goto, TypeOK, Ended, Untouched, Report, Steps, Said, ProcessesTyped

\* A call that stops half way claims a patch only if its receipt does, or if it
\* had come to the comment.
LEMMA PartialEnds ==
    ASSUME TypeOK, NEW p \in Processes, pc[p] # "idle",
           NEW applied \in BOOLEAN, ReportPartial(p, applied)
    PROVE  /\ ProcessesTyped /\ Ended(p)
           /\ \/ call[p].key = "state" /\ Said(p, applied, FALSE, FALSE)
              \/ /\ call[p].key = "comment"
                 /\ Said(p, Patches(call[p]),
                         Patches(call[p]) \/ call[p].tool = "operator", FALSE)
<1>1. call[p].key \in Keys /\ call[p] \in Call
  BY Fields
<1>2. CASE call[p].key = "state"
  BY <1>2, SayEnds DEF ReportPartial
<1>3. CASE call[p].key = "comment"
  <2> DEFINE patched == Patches(call[p])
             known == patched \/ call[p].tool = "operator"
  <2>1. Say(p, "comment_pending", patched, known, FALSE)
    BY <1>3 DEF ReportPartial
  <2>2. patched \in BOOLEAN /\ known \in BOOLEAN
    BY DEF Patches, Annotation
  <2> HIDE DEF patched, known
  <2>3. ProcessesTyped /\ Ended(p) /\ Said(p, patched, known, FALSE)
    BY <2>1, <2>2, SayEnds
  <2> QED
    BY <1>3, <2>3 DEF patched, known
<1> QED
  BY <1>1, <1>2, <1>3 DEF Keys

\* A call whose receipt is proof ends, turns to its comment or to its last read.
LEMMA ProceedGoesOn ==
    ASSUME TypeOK, NEW p \in Processes, pc[p] # "idle", Proceed(p)
    PROVE  /\ ProcessesTyped
           /\ \/ /\ call[p].key = "state" /\ call[p].comment
                 /\ Turned(p) /\ said' = None
              \/ /\ call[p].key = "state" /\ Ended(p)
                 /\ Said(p, TRUE, TRUE, FALSE)
              \/ /\ call[p].key = "comment" /\ call[p].tool = "operator"
                 /\ Went(p, "final") /\ said' = None
              \/ /\ call[p].key = "comment" /\ Ended(p)
                 /\ Said(p, Patches(call[p]), Patches(call[p]), TRUE)
<1> DEFINE c == call[p]
           patched == Patches(c)
<1>1. c.key \in Keys /\ c \in Call
  BY Fields
<1>2. patched \in BOOLEAN
  BY DEF Patches, Annotation
<1>3. CASE c.key = "state" /\ c.comment /\ call' = [call EXCEPT ![p].key = "comment"]
           /\ Goto(p, "ask") /\ said' = None
  <2>1. [c EXCEPT !.key = "comment"] \in Call
    BY <1>1 DEF Call, Keys
  <2>2. call' = [call EXCEPT ![p] = [c EXCEPT !.key = "comment"]]
    BY <1>3
  <2> QED
    BY <1>3, <2>1, <2>2, NoneAssumption
    DEF TypeOK, Goto, Turned, Untouched, ProcessesTyped, Steps
<1>4. CASE c.key = "state" /\ Say(p, "verified", TRUE, TRUE, FALSE)
  BY <1>4, SayEnds
<1>5. CASE c.key = "comment" /\ c.tool = "operator" /\ Goto(p, "final")
           /\ said' = None /\ UNCHANGED call
  BY <1>5 DEF TypeOK, Goto, Went, Untouched, ProcessesTyped, Steps
<1>6. CASE c.key = "comment" /\ Say(p, "verified", patched, patched, TRUE)
  <2> HIDE DEF patched
  <2>1. ProcessesTyped /\ Ended(p) /\ Said(p, patched, patched, TRUE)
    BY <1>2, <1>6, SayEnds
  <2> QED
    BY <1>6, <2>1 DEF patched
<1> QED
  BY <1>3, <1>4, <1>5, <1>6 DEF Proceed
-----------------------------------------------------------------------------
(* Types.                                                                  *)

\* The types are kept once those of the processes and the receipts are.
LEMMA TypedStep ==
    ASSUME TypeOK, ProcessesTyped, WritesTyped',
           UNCHANGED <<provider, issued, posts>>
    PROVE  TypeOK'
  BY DEF TypeOK, ProcessesTyped, provider

Claimed(p, status) ==
    writes'[call[p].key] =
        [status |-> status, body |-> Body(call[p]), owner |-> p]

\* A claim writes the receipt and moves its process on.
LEMMA ClaimStep ==
    ASSUME TypeOK, NEW p \in Processes, NEW status, NEW step,
           status \in {"sending", "applied", "unknown"},
           step \in {"send", "prove", "scan"},
           Claimable(p), Claim(p, status, step),
           call[p].key = "state" => call[p].target # None
    PROVE  /\ ProcessesTyped /\ WritesTyped'
           /\ pc[p] = "ask" /\ Went(p, step) /\ said' = None
           /\ Claimed(p, status)
           /\ \A j \in Keys : j # call[p].key => writes'[j] = writes[j]
           /\ Body(call[p]) # None
           /\ call[p].key = "state" => Body(call[p]) \in States
<1>1. pc[p] = "ask"
  BY DEF Claimable
<1>2. call[p].key \in Keys /\ call[p] \in Call
  BY <1>1, Fields
<1>3. Body(call[p]) \in States \union Comment \union {None} /\ Body(call[p]) # None
  BY <1>1, <1>2, NoneAssumption, BoundsAssumption DEF Body, Call, Comment, Keys
<1>4. [status |-> status, body |-> Body(call[p]), owner |-> p] \in Write
  BY <1>3 DEF Write
<1>5. call[p].key = "state" => Body(call[p]) \in States
  BY <1>2 DEF Body, Call
<1>6. ProcessesTyped /\ Went(p, step) /\ said' = None
  BY <1>1 DEF Claim, Goto, TypeOK, ProcessesTyped, Went, Untouched, Steps
<1>7. writes' = [writes EXCEPT ![call[p].key] =
        [status |-> status, body |-> Body(call[p]), owner |-> p]]
  BY DEF Claim
<1>8. /\ writes'[call[p].key] =
          [status |-> status, body |-> Body(call[p]), owner |-> p]
      /\ \A j \in Keys : j # call[p].key => writes'[j] = writes[j]
      /\ writes' \in [Keys -> Write]
  BY <1>2, <1>4, <1>7 DEF TypeOK, WritesTyped
<1>9. WritesTyped'
  BY <1>2, <1>5, <1>8 DEF TypeOK, WritesTyped, Keys
<1> QED
  BY <1>1, <1>3, <1>5, <1>6, <1>8, <1>9 DEF Claim, Claimed

\* A save after the request changes the receipt only under its lease.
LEMMA SaveWrites ==
    ASSUME TypeOK, NEW p \in Processes, pc[p] # "idle",
           NEW status, NEW owner \in {p, None},
           status \in {"free", "unsent", "sending", "unknown", "applied",
                       "rejected", "verified"},
           Save(p, status, owner)
    PROVE  /\ WritesTyped'
           /\ IF Owns(p) THEN Wrote(call[p].key, status, owner)
              ELSE writes' = writes
  BY SetStatusWrites DEF Save, TypeOK, WritesTyped

\* No step breaks the types.
LEMMA TypesAreKept ==
    ASSUME LifecycleInv, [Next]_vars
    PROVE  TypeOK'
<1> USE DEF LifecycleInv
<1>1. ASSUME NEW p \in Processes, NEW c \in Call, Accept(p, c)
      PROVE  TypeOK'
  BY <1>1, BoundsAssumption, NoneAssumption DEF Accept, TypeOK, WritesTyped, Goto, provider, Steps
<1>2. ASSUME NEW p \in Processes, PreRead(p)
      PROVE  TypeOK'
  <2>1. pc[p] # "idle" /\ UNCHANGED <<provider, writes, issued, posts>>
    BY <1>2 DEF PreRead
  <2>2. CASE Expected(call[p])
    <3> DEFINE k == IF Patches(call[p]) THEN "state" ELSE "comment"
    <3>1. [call[p] EXCEPT !.key = k] \in Call
      BY <2>1, Fields DEF Call, Keys
    <3>2. call' = [call EXCEPT ![p] = [call[p] EXCEPT !.key = k]]
      BY <1>2, <2>2 DEF PreRead
    <3> HIDE DEF k
    <3> QED
      BY <1>2, <2>1, <2>2, <3>1, <3>2, NoneAssumption
      DEF PreRead, TypeOK, WritesTyped, Goto, provider, Steps
  <2>3. CASE ~Expected(call[p])
    <3>1. ProcessesTyped
      BY <1>2, <2>1, <2>3, SayEnds DEF PreRead
    <3> QED
      BY <2>1, <3>1, TypedStep DEF TypeOK, WritesTyped
  <2> QED
    BY <2>2, <2>3
<1>3. ASSUME NEW p \in Processes, FinalRead(p)
      PROVE  TypeOK'
  <2> DEFINE there == item.state = call[p].target
  <2>1. pc[p] # "idle" /\ UNCHANGED <<provider, writes, issued, posts>>
    BY <1>3 DEF FinalRead
  <2>2. there \in BOOLEAN /\ (~Annotation(call[p])) \in BOOLEAN
    BY DEF Annotation
  <2>3. Say(p, IF there THEN "verified" ELSE "final_state_readback_failed",
            ~Annotation(call[p]), there, TRUE)
    BY <1>3 DEF FinalRead
  <2> HIDE DEF there
  <2>4. ProcessesTyped
    BY <2>1, <2>2, <2>3, SayEnds
  <2> QED
    BY <2>1, <2>4, TypedStep DEF TypeOK, WritesTyped
<1>4. ASSUME NEW p \in Processes, Die(p)
      PROVE  TypeOK'
  BY <1>4 DEF Die, TypeOK, WritesTyped, Goto, provider, Steps
<1>5. ASSUME NEW p \in Processes, Replay(p)
      PROVE  TypeOK'
  <2>1. pc[p] # "idle" /\ UNCHANGED <<provider, writes, issued, posts>>
    BY <1>5 DEF Replay
  <2>2. ProcessesTyped
    BY <1>5, <2>1, PartialEnds, ProceedGoesOn DEF Replay
  <2> QED
    BY <2>1, <2>2, TypedStep DEF TypeOK, WritesTyped
<1>6. ASSUME NEW p \in Processes,
             ClaimToSend(p) \/ ClaimToProve(p) \/ ClaimToScan(p)
      PROVE  TypeOK'
  <2>1. pc[p] = "ask" /\ UNCHANGED <<provider, issued, posts>>
    BY <1>6 DEF ClaimToSend, ClaimToProve, ClaimToScan, Claim, Claimable
  <2>2. call[p].key = "state" => call[p].target # None
    BY <2>1 DEF InOrder, Asking, Patches
  <2>4. ProcessesTyped /\ WritesTyped'
    <3>1. CASE ClaimToSend(p)
      BY <2>2, <3>1, ClaimStep DEF ClaimToSend
    <3>2. CASE ClaimToProve(p)
      BY <2>2, <3>2, ClaimStep DEF ClaimToProve
    <3>3. CASE ClaimToScan(p)
      BY <2>2, <3>3, ClaimStep DEF ClaimToScan
    <3> QED
      BY <1>6, <3>1, <3>2, <3>3
  <2> QED
    BY <2>1, <2>4, TypedStep
<1>7. ASSUME NEW p \in Processes, LeaveUnknown(p)
      PROVE  TypeOK'
  <2>1. pc[p] # "idle" /\ UNCHANGED <<provider, issued, posts>>
    BY <1>7 DEF LeaveUnknown, Claimable
  <2>2. ProcessesTyped /\ WritesTyped'
    BY <1>7, <2>1, PartialEnds, SetStatusWrites DEF LeaveUnknown, Claimable
  <2> QED
    BY <2>1, <2>2, TypedStep
<1>8. ASSUME NEW p \in Processes, Send(p)
      PROVE  TypeOK'
  <2>1. call[p].key \in Keys
    BY <1>8, Fields DEF Send
  <2> QED
    BY <1>8, <2>1 DEF Send, TypeOK, WritesTyped, Goto, Steps
<1>9. ASSUME NEW p \in Processes, NotSent(p) \/ Refused(p) \/ Unanswered(p)
      PROVE  TypeOK'
  <2>1. pc[p] # "idle" /\ UNCHANGED <<provider, issued, posts>>
    BY <1>9 DEF NotSent, Refused, Unanswered
  <2>2. ProcessesTyped
    BY <1>9, <2>1, PartialEnds DEF NotSent, Refused, Unanswered
  <2>3. WritesTyped'
    BY <1>9, <2>1, SaveWrites DEF NotSent, Refused, Unanswered
  <2> QED
    BY <2>1, <2>2, <2>3, TypedStep
<1>10. ASSUME NEW p \in Processes, Answered(p)
       PROVE  TypeOK'
  <2>1. pc[p] # "idle" /\ UNCHANGED <<provider, issued, posts>>
    BY <1>10 DEF Answered
  <2>2. WritesTyped'
    BY <1>10, <2>1, SaveWrites DEF Answered
  <2>3. ProcessesTyped
    <3>1. CASE Owns(p)
      BY <1>10, <2>1, <3>1 DEF Answered, Goto, TypeOK, ProcessesTyped, Steps
    <3>2. CASE ~Owns(p)
      BY <1>10, <2>1, <3>2, PartialEnds DEF Answered
    <3> QED
      BY <3>1, <3>2
  <2> QED
    BY <2>1, <2>2, <2>3, TypedStep
<1>11. ASSUME NEW p \in Processes, Prove(p)
       PROVE  TypeOK'
  <2>1. pc[p] # "idle" /\ UNCHANGED <<provider, issued, posts>>
    BY <1>11 DEF Prove
  <2>2. ProcessesTyped /\ WritesTyped'
    BY <1>11, <2>1, ProceedGoesOn, SetStatusWrites DEF Prove
  <2> QED
    BY <2>1, <2>2, TypedStep
<1>12. ASSUME NEW p \in Processes, Unproved(p)
       PROVE  TypeOK'
  <2>1. pc[p] # "idle" /\ UNCHANGED <<provider, issued, posts>>
    BY <1>12 DEF Unproved
  <2>2. Mine(p).status \in {"free", "unsent", "sending", "unknown", "applied",
                            "rejected", "verified"}
    BY <2>1, Fields DEF Write
  <2>3. ProcessesTyped /\ WritesTyped'
    BY <1>12, <2>1, <2>2, PartialEnds, SaveWrites DEF Unproved
  <2> QED
    BY <2>1, <2>3, TypedStep
<1>13. ASSUME NEW k \in Keys, Land(k)
       PROVE  TypeOK'
  <2>1. writes[k].body # None
    BY <1>13 DEF Land, SentOnce, TrueReceipt, Keys
  <2>2. k = "state" => writes[k].body \in States
    BY <2>1 DEF TypeOK, WritesTyped
  <2> QED
    BY <1>13, <2>2 DEF Land, Moved, TypeOK, WritesTyped
<1>14. ASSUME NEW k \in Keys, Refuse(k) \/ Expire(k)
       PROVE  TypeOK'
  <2>1. CASE Refuse(k)
    BY <1>14, <2>1 DEF Refuse, TypeOK, WritesTyped
  <2>2. CASE Expire(k)
    <3>1. [writes[k] EXCEPT !.owner = None] \in Write
      BY DEF TypeOK, WritesTyped, Write
    <3>2. writes' = [writes EXCEPT ![k] = [writes[k] EXCEPT !.owner = None]]
      BY <2>2 DEF Expire
    <3>3. writes'["state"].body = writes["state"].body
      BY <3>1, <3>2 DEF TypeOK, WritesTyped, Keys, Write
    <3> QED
      BY <2>2, <3>1, <3>2, <3>3 DEF Expire, TypeOK, WritesTyped, provider
  <2> QED
    BY <1>14, <2>1, <2>2
<1>15. ASSUME NEW state \in States, Others(state)
       PROVE  TypeOK'
  BY <1>15 DEF Others, Moved, TypeOK, WritesTyped
<1>16. CASE UNCHANGED vars
  BY <1>16 DEF vars, provider, TypeOK, WritesTyped
<1>17. ASSUME NEW p \in Processes, Begin(p)
       PROVE  TypeOK'
  <2>1. item.state \in States /\ item.revision \in Nat /\ issued \in 0..MaxCalls
    BY DEF TypeOK
  <2>2. ASSUME NEW target \in States, BeginOperator(p, target)
        PROVE  TypeOK'
    <3> DEFINE c == [tool |-> "operator", serial |-> issued + 1,
                     expected |-> item.state, revision |-> item.revision,
                     target |-> target, comment |-> TRUE, key |-> "state"]
    <3>1. Accept(p, c) /\ issued < MaxCalls
      BY <2>2 DEF BeginOperator, Accept
    <3>2. c \in Call
      BY <2>1, <3>1, BoundsAssumption DEF Call, Keys
    <3> QED
      BY <1>1, <3>1, <3>2
  <2>3. ASSUME NEW target \in States \union {None}, NEW comment \in BOOLEAN,
               NEW careful \in BOOLEAN, BeginSimple(p, target, comment, careful)
        PROVE  TypeOK'
    <3> DEFINE c == [tool |-> "simple", serial |-> issued + 1,
                     expected |-> IF careful THEN item.state ELSE None,
                     revision |-> IF careful THEN item.revision ELSE None,
                     target |-> target, comment |-> comment, key |-> "state"]
    <3>1. Accept(p, c) /\ issued < MaxCalls
      BY <2>3 DEF BeginSimple, Accept
    <3>2. c \in Call
      BY <2>1, <3>1, BoundsAssumption DEF Call, Keys
    <3> QED
      BY <1>1, <3>1, <3>2
  <2> QED
    BY <1>17, <2>2, <2>3 DEF Begin
<1> QED
  BY <1>2, <1>3, <1>4, <1>5, <1>6, <1>7, <1>8, <1>9, <1>10, <1>11, <1>12,
     <1>13, <1>14, <1>15, <1>16, <1>17
  DEF Next, Execute

-----------------------------------------------------------------------------
(* Receipts and calls.                                                     *)

\* What no step takes back.
Grown ==
    /\ landed \subseteq landed'
    /\ \A k \in Keys :
        /\ writes[k].body # None => writes'[k].body = writes[k].body
        /\ writes[k].status = "verified" => writes'[k].status = "verified"
        /\ writes[k].status # "free" => writes'[k].status # "free"

ReceiptsKept == \A k \in Keys : SentOnce(k)' /\ TrueReceipt(k)'

\* A process that does not move stays as it is while receipts only grow.
LEMMA BystandersAreKept ==
    ASSUME LifecycleInv, Grown, NEW q \in Processes,
           pc'[q] = pc[q], call'[q] = call[q]
    PROVE  InOrder(q)' /\ AtWork(q)'
<1>1. InOrder(q) /\ AtWork(q) /\ TypeOK /\ \A k \in Keys : TrueReceipt(k)
  BY DEF LifecycleInv
<1>2. InOrder(q)'
  <2>1. CASE pc[q] = "idle"
    BY <2>1 DEF InOrder, Asking
  <2>2. CASE pc[q] # "idle"
    <3>1. call[q] \in Call
      BY <1>1, <2>2, Fields
    <3>2. \A k \in Keys : \A body : Verified(k, body) => Verified(k, body)'
      BY <1>1 DEF Grown, Verified, TrueReceipt
    <3> QED
      BY <1>1, <3>1, <3>2 DEF InOrder, Asking, Keys, Patches, Annotation, Body
  <2> QED
    BY <2>1, <2>2
<1>3. AtWork(q)'
  <2>1. CASE pc[q] \in {"send", "answer", "scan", "prove"}
    <3>1. call[q].key \in Keys
      BY <1>1, <2>1, Fields
    <3> QED
      BY <1>1, <2>1, <3>1 DEF AtWork, Grown, Mine, TrueReceipt, Body
  <2>2. CASE pc[q] \notin {"send", "answer", "scan", "prove"}
    BY <2>2 DEF AtWork
  <2> QED
    BY <2>1, <2>2
<1> QED
  BY <1>2, <1>3

\* A step that leaves receipts and writes alone and sends nothing.
LEMMA QuietStep ==
    ASSUME LifecycleInv, NEW p \in Processes, Untouched(p),
           pc'[p] \notin {"send", "answer"}, UNCHANGED <<provider, writes, posts>>
    PROVE  Grown /\ ReceiptsKept
  BY DEF LifecycleInv, Grown, ReceiptsKept, SentOnce, TrueReceipt, Sending,
         Untouched, provider

\* An ended call owes nothing.
LEMMA EndedIsKept ==
    ASSUME NEW p \in Processes, Ended(p)
    PROVE  InOrder(p)' /\ AtWork(p)'
  BY DEF Ended, InOrder, AtWork, Asking

\* A call whose receipt is proof comes to the comment, or to its last read.
LEMMA ProofCarriesOn ==
    ASSUME LifecycleInv, NEW p \in Processes, pc[p] \notin {"idle", "read"},
           Grown, Proceed(p),
           writes'[call[p].key].status = "verified",
           writes'[call[p].key].body = Body(call[p])
    PROVE  /\ InOrder(p)' /\ AtWork(p)'
           /\ Untouched(p) /\ pc'[p] \notin {"send", "answer"}
<1>1. TypeOK /\ InOrder(p) /\ call[p] \in Call
  BY Fields DEF LifecycleInv
<1>2. CASE call[p].key = "state" /\ call[p].comment /\ Turned(p)
  <2>1. writes'["state"].status = "verified" /\ writes'["state"].body = call[p].target
    BY <1>2 DEF Body
  <2>2. /\ call'[p].tool = call[p].tool /\ call'[p].target = call[p].target
        /\ call'[p].comment = call[p].comment /\ call'[p].key = "comment"
        /\ pc'[p] = "ask"
    BY <1>1, <1>2 DEF Turned, Call
  <2> QED
    BY <1>1, <1>2, <2>1, <2>2 DEF Turned, InOrder, AtWork, Asking, Verified
<1>3. CASE Ended(p)
  BY <1>3, EndedIsKept DEF Ended
<1>4. CASE call[p].key = "comment" /\ call[p].tool = "operator" /\ Went(p, "final")
  <2>1. Patches(call[p]) =>
            /\ writes'["state"].status = "verified"
            /\ writes'["state"].body = call[p].target
    BY <1>1, <1>4, NoneAssumption
    DEF InOrder, Asking, LifecycleInv, TrueReceipt, Grown, Verified, Keys, Patches
  <2> QED
    BY <1>1, <1>4, <2>1
    DEF Went, InOrder, AtWork, Asking, Verified, Patches, Annotation, Body
<1> QED
  <2>1. \/ call[p].key = "state" /\ call[p].comment /\ Turned(p)
        \/ Ended(p)
        \/ call[p].key = "comment" /\ call[p].tool = "operator" /\ Went(p, "final")
    BY <1>1, ProceedGoesOn
  <2> QED
    BY <1>2, <1>3, <1>4, <2>1 DEF Turned, Ended, Went

\* Steps of the tools themselves.
LEMMA ToolSteps ==
    ASSUME LifecycleInv, NEW p \in Processes,
           Begin(p) \/ PreRead(p) \/ FinalRead(p) \/ Die(p)
    PROVE  /\ Untouched(p) /\ pc'[p] \notin {"send", "answer"}
           /\ UNCHANGED <<provider, writes, posts>>
           /\ InOrder(p)' /\ AtWork(p)'
<1>1. TypeOK
  BY DEF LifecycleInv
<1>2. CASE Begin(p)
  <2>1. PICK c : Accept(p, c) /\ (c.target # None \/ c.comment)
             /\ (c.tool = "operator" => c.target # None /\ c.comment)
    <3>1. CASE \E target \in States : BeginOperator(p, target)
      BY <3>1, NoneAssumption DEF BeginOperator
    <3>2. CASE \E target \in States \union {None}, comment, careful \in BOOLEAN :
                 BeginSimple(p, target, comment, careful)
      BY <3>2 DEF BeginSimple
    <3> QED
      BY <1>2, <3>1, <3>2 DEF Begin
  <2> QED
    BY <1>1, <2>1
    DEF Accept, Goto, TypeOK, Untouched, provider, InOrder, AtWork, Asking
<1>3. CASE PreRead(p)
  <2>1. pc[p] # "idle" /\ UNCHANGED <<provider, writes, posts>>
    BY <1>3 DEF PreRead
  <2>2. CASE Expected(call[p])
    <3> DEFINE k == IF Patches(call[p]) THEN "state" ELSE "comment"
               c == [call[p] EXCEPT !.key = k]
    <3>1. call[p] \in Call /\ InOrder(p)
      BY <1>1, <2>1, Fields DEF LifecycleInv
    <3>2. call' = [call EXCEPT ![p] = c] /\ pc' = [pc EXCEPT ![p] = "ask"]
      BY <1>3, <2>2 DEF PreRead, Goto
    <3>3. /\ c.tool = call[p].tool /\ c.target = call[p].target /\ c.key = k
          /\ c.comment = call[p].comment /\ c.expected = call[p].expected
      BY <3>1 DEF Call
    <3>4. Patches(c) <=> Patches(call[p])
      BY <3>3 DEF Patches, Annotation
    <3>5. call[p].target # None \/ call[p].comment
      BY <2>1, <3>1 DEF InOrder
    <3> HIDE DEF c
    <3>6. call'[p] = c /\ pc'[p] = "ask" /\ Untouched(p)
      BY <1>1, <3>2 DEF TypeOK, Untouched
    <3> QED
      BY <2>1, <3>1, <3>3, <3>4, <3>5, <3>6 DEF InOrder, AtWork, Asking, Patches, Annotation
  <2>3. CASE ~Expected(call[p])
    <3>1. Ended(p)
      BY <1>1, <1>3, <2>1, <2>3, SayEnds DEF PreRead
    <3> QED
      BY <2>1, <3>1, EndedIsKept DEF Ended
  <2> QED
    BY <2>2, <2>3
<1>4. CASE FinalRead(p)
  <2> DEFINE there == item.state = call[p].target
  <2>1. pc[p] # "idle" /\ UNCHANGED <<provider, writes, posts>>
    BY <1>4 DEF FinalRead
  <2>2. there \in BOOLEAN /\ (~Annotation(call[p])) \in BOOLEAN
    BY DEF Annotation
  <2>3. Say(p, IF there THEN "verified" ELSE "final_state_readback_failed",
            ~Annotation(call[p]), there, TRUE)
    BY <1>4 DEF FinalRead
  <2> HIDE DEF there
  <2>4. Ended(p)
    BY <1>1, <2>1, <2>2, <2>3, SayEnds
  <2> QED
    BY <2>1, <2>4, EndedIsKept DEF Ended
<1>5. CASE Die(p)
  BY <1>1, <1>5 DEF Die, Goto, TypeOK, Untouched, provider, InOrder, AtWork, Asking
<1> QED
  BY <1>2, <1>3, <1>4, <1>5

\* What is asked of a step of a process.
KeptBy(p) ==
    /\ Untouched(p) /\ Grown /\ ReceiptsKept
    /\ InOrder(p)' /\ AtWork(p)'

\* The other receipts apart from the one worked on.
LEMMA EveryReceipt ==
    ASSUME NEW k \in Keys, SentOnce(k)', TrueReceipt(k)',
           NEW others, others = Keys \ {k},
           \A j \in others : SentOnce(j)' /\ TrueReceipt(j)'
    PROVE  ReceiptsKept
  BY DEF ReceiptsKept, SentOnce, TrueReceipt, Sending

\* A call answered by its receipt keeps the invariant.
LEMMA ReplayKeeps ==
    ASSUME LifecycleInv, NEW p \in Processes, Replay(p)
    PROVE  KeptBy(p)
<1>1. /\ TypeOK /\ pc[p] = "ask" /\ Bound(p)
      /\ UNCHANGED <<provider, writes, posts>>
  BY DEF LifecycleInv, Replay
<1>2. CASE Mine(p).status = "verified"
  <2>1. call[p].key \in Keys
    BY <1>1, Fields
  <2>2. Mine(p).body = Body(call[p])
    BY <1>1, <1>2, <2>1 DEF Bound, LifecycleInv, TrueReceipt, Mine
  <2>3. Grown
    BY <1>1 DEF Grown, provider
  <2>4. /\ InOrder(p)' /\ AtWork(p)' /\ Untouched(p)
        /\ pc'[p] \notin {"send", "answer"}
    BY <1>1, <1>2, <2>2, <2>3, ProofCarriesOn DEF Replay, Mine
  <2> QED
    BY <1>1, <2>3, <2>4, QuietStep DEF KeptBy
<1>3. CASE Mine(p).status # "verified"
  <2>1. Ended(p)
    BY <1>1, <1>3, PartialEnds DEF Replay
  <2> QED
    BY <1>1, <2>1, EndedIsKept, QuietStep DEF KeptBy, Ended
<1> QED
  BY <1>2, <1>3

\* A claim keeps the invariant.
LEMMA ClaimKeeps ==
    ASSUME LifecycleInv, NEW p \in Processes,
           ClaimToSend(p) \/ ClaimToProve(p) \/ ClaimToScan(p)
    PROVE  KeptBy(p)
<1>1. /\ TypeOK /\ Claimable(p) /\ pc[p] = "ask" /\ InOrder(p)
      /\ UNCHANGED <<provider, posts>>
  BY DEF LifecycleInv, ClaimToSend, ClaimToProve, ClaimToScan, Claimable, Claim
<1>2. PICK k \in Keys : k = call[p].key /\ call[p] \in Call
  BY <1>1, Fields
<1>3. k = "state" => call[p].target # None
  BY <1>1, <1>2 DEF InOrder, Asking, Patches
<1>4. PICK status \in {"sending", "applied", "unknown"} :
        /\ Claimed(p, status) /\ \A j \in Keys : j # k => writes'[j] = writes[j]
        /\ Body(call[p]) # None
        /\ \/ /\ status = "sending" /\ Went(p, "send")
              /\ writes[k].status \in {"free", "unsent"}
           \/ /\ status = "applied" /\ Went(p, "prove")
              /\ writes[k].status = "applied"
           \/ /\ status = "unknown" /\ Went(p, "scan") /\ k = "comment"
              /\ writes[k].status \in {"sending", "unknown"}
  <2>1. CASE ClaimToSend(p)
    BY <1>1, <1>2, <1>3, <2>1, ClaimStep DEF ClaimToSend, Mine
  <2>2. CASE ClaimToProve(p)
    BY <1>1, <1>2, <1>3, <2>2, ClaimStep DEF ClaimToProve, Mine
  <2>3. CASE ClaimToScan(p)
    BY <1>1, <1>2, <1>3, <2>3, ClaimStep DEF ClaimToScan, Mine
  <2> QED
    BY <2>1, <2>2, <2>3
<1>5. /\ writes'[k].status = status /\ writes'[k].body = Body(call[p])
      /\ writes'[k].owner = p
  BY <1>2, <1>4 DEF Claimed
<1>6. writes[k].body \in {None, Body(call[p])}
  BY <1>1, <1>2 DEF Claimable, Bound, Mine
<1>7. Untouched(p) /\ call'[p] = call[p] /\ pc'[p] \in {"send", "prove", "scan"}
  BY <1>4 DEF Went
<1>8. Grown
  BY <1>1, <1>4, <1>5, <1>6 DEF Grown, provider
<1>9. ReceiptsKept
  <2>1. ASSUME NEW j \in Keys \ {k}
        PROVE  SentOnce(j)' /\ TrueReceipt(j)'
    BY <1>1, <1>2, <1>4, <1>7, <2>1
    DEF LifecycleInv, SentOnce, TrueReceipt, Sending, Untouched, provider
  <2>2. SentOnce(k)'
    BY <1>1, <1>2, <1>4, <1>5, <1>7
    DEF LifecycleInv, SentOnce, Sending, Untouched, Went, provider
  <2>3. TrueReceipt(k)'
    BY <1>1, <1>2, <1>4, <1>5 DEF LifecycleInv, TrueReceipt, Settled, provider
  <2> QED
    BY <2>1, <2>2, <2>3, EveryReceipt
<1>10. InOrder(p)'
  <2>1. Verified("state", call[p].target) /\ k = "comment" =>
            /\ writes'["state"].status = "verified"
            /\ writes'["state"].body = call[p].target
    BY <1>2, <1>4 DEF Verified, Keys
  <2> QED
    BY <1>1, <1>2, <1>4, <1>7, <2>1
    DEF InOrder, Asking, Went, Verified, Patches, Annotation, Keys
<1>11. AtWork(p)'
  BY <1>1, <1>2, <1>4, <1>5, <1>7
  DEF AtWork, Mine, Went, Body, LifecycleInv, TrueReceipt, provider
<1> QED
  BY <1>7, <1>8, <1>9, <1>10, <1>11 DEF KeptBy, ReceiptsKept

\* The request that leaves keeps the invariant.
LEMMA SendKeeps ==
    ASSUME LifecycleInv, NEW p \in Processes, Send(p)
    PROVE  KeptBy(p)
<1>1. /\ TypeOK /\ pc[p] = "send" /\ InOrder(p) /\ AtWork(p)
      /\ UNCHANGED <<item, landed, writes, call>>
      /\ posts' = [posts EXCEPT ![call[p].key] = @ + 1]
      /\ wire' = wire \union {call[p].key}
  BY DEF LifecycleInv, Send
<1>2. PICK k \in Keys : k = call[p].key
  BY <1>1, Fields
<1>3. Went(p, "answer")
  BY <1>1 DEF Send, Goto, Went, Untouched, TypeOK
<1>4. posts[k] = 0 /\ k \notin wire \union landed
      /\ writes[k].status \in {"sending", "unknown"}
  BY <1>1, <1>2 DEF LifecycleInv, SentOnce, TrueReceipt, Sending
<1>5. posts'[k] = 1 /\ \A j \in Keys : j # k => posts'[j] = posts[j]
  BY <1>1, <1>2, <1>4 DEF TypeOK
<1>6. ReceiptsKept
  <2>1. ASSUME NEW j \in Keys \ {k}
        PROVE  SentOnce(j)' /\ TrueReceipt(j)'
    BY <1>1, <1>2, <1>3, <1>5, <2>1
    DEF LifecycleInv, SentOnce, TrueReceipt, Sending, Untouched, Went
  <2>2. \A q \in Processes : Sending(q, k)' => q = p
    BY <1>1, <1>2, <1>3 DEF LifecycleInv, SentOnce, Sending, Went, Untouched
  <2>3. SentOnce(k)'
    BY <1>1, <1>2, <1>3, <1>4, <1>5, <2>2 DEF SentOnce, Went
  <2>4. TrueReceipt(k)'
    BY <1>1, <1>2, <1>4, <1>5 DEF LifecycleInv, TrueReceipt, Settled
  <2> QED
    BY <2>1, <2>3, <2>4, EveryReceipt
<1>7. Grown
  BY <1>1 DEF Grown
<1> QED
  BY <1>1, <1>2, <1>3, <1>6, <1>7
  DEF KeptBy, ReceiptsKept, Went, InOrder, AtWork, Asking, Mine, Verified, Body,
      Patches, Annotation, Keys

\* A call that ends and lets go of its receipt, or lost it before, keeps the
\* invariant, if what it leaves in the receipt is so.
LEMMA ReleaseKeeps ==
    ASSUME LifecycleInv, NEW p \in Processes, Ended(p),
           UNCHANGED <<provider, posts>>, NEW k \in Keys, NEW status,
           \/ writes' = writes
           \/ /\ Wrote(k, status, None)
              /\ writes[k].status \notin {"free", "verified"}
              /\ status \in {"unsent", "sending", "unknown", "applied", "rejected"}
              /\ status = "unsent" => posts[k] = 0
              /\ status = "applied" => writes[k].status = "applied"
              /\ status = "rejected" => posts[k] = 1 /\ k \notin wire \union landed
              /\ \A q \in Processes : q # p /\ Sending(q, k) =>
                    status \in {"sending", "unknown"}
    PROVE  KeptBy(p)
<1>1. Untouched(p) /\ InOrder(p)' /\ AtWork(p)'
  BY EndedIsKept DEF Ended
<1>2. CASE writes' = writes
  BY <1>1, <1>2, QuietStep DEF KeptBy, Ended
<1>3. CASE writes' # writes
  <2>1. Grown
    BY <1>3 DEF Grown, Wrote, provider
  <2>2. ASSUME NEW j \in Keys \ {k}
        PROVE  SentOnce(j)' /\ TrueReceipt(j)'
    BY <1>1, <1>3, <2>2
    DEF LifecycleInv, SentOnce, TrueReceipt, Sending, Untouched, Ended, Wrote,
        provider
  <2>3. SentOnce(k)'
    BY <1>1, <1>3
    DEF LifecycleInv, SentOnce, Sending, Untouched, Ended, Wrote, provider
  <2>4. TrueReceipt(k)'
    BY <1>1, <1>3 DEF LifecycleInv, TrueReceipt, Settled, Wrote, provider
  <2> QED
    BY <1>1, <2>1, <2>2, <2>3, <2>4, EveryReceipt DEF KeptBy
<1> QED
  BY <1>2, <1>3

\* The ends of a call short of its proof keep the invariant.
LEMMA PartialKeeps ==
    ASSUME LifecycleInv, NEW p \in Processes,
           \/ LeaveUnknown(p) \/ NotSent(p) \/ Refused(p) \/ Unanswered(p)
           \/ Unproved(p)
    PROVE  KeptBy(p)
<1>1. /\ TypeOK /\ pc[p] # "idle" /\ AtWork(p)
      /\ UNCHANGED <<provider, posts>>
  BY DEF LifecycleInv, LeaveUnknown, NotSent, Refused, Unanswered, Unproved,
         Claimable
<1>2. PICK k \in Keys : k = call[p].key
  BY <1>1, Fields
<1>3. Mine(p) = writes[k] /\ writes[k] \in Write
  BY <1>1, <1>2, Fields DEF Mine
<1>4. SentOnce(k) /\ TrueReceipt(k)
  BY DEF LifecycleInv
<1>5. Owns(p) => writes[k].status \notin Settled
  BY <1>3, <1>4, NoneAssumption DEF Owns, TrueReceipt
<1>6. pc[p] \in {"send", "answer"} =>
        /\ writes[k].status \in {"sending", "unknown", "verified"}
        /\ posts[k] = IF pc[p] = "send" THEN 0 ELSE 1
        /\ \A q \in Processes : Sending(q, k) => q = p
  BY <1>2, <1>4 DEF SentOnce, Sending
<1>7. CASE LeaveUnknown(p)
  <2>1. Ended(p)
    BY <1>1, <1>7, PartialEnds DEF LeaveUnknown
  <2>2. Wrote(k, "unknown", None)
    BY <1>1, <1>2, <1>7, SetStatusWrites DEF LeaveUnknown
  <2>3. writes[k].status \in {"sending", "unknown"}
    BY <1>3, <1>7 DEF LeaveUnknown
  <2> QED
    BY <1>1, <2>1, <2>2, <2>3, ReleaseKeeps
<1>8. CASE NotSent(p)
  <2>1. Ended(p) /\ pc[p] = "send"
    BY <1>1, <1>8, PartialEnds DEF NotSent
  <2>2. IF Owns(p) THEN Wrote(k, "unsent", None) ELSE writes' = writes
    BY <1>1, <1>2, <1>8, SaveWrites DEF NotSent
  <2> QED
    BY <1>1, <1>5, <1>6, <2>1, <2>2, ReleaseKeeps DEF Settled
<1>9. CASE Refused(p)
  <2>1. Ended(p) /\ pc[p] = "answer" /\ k \notin wire \union landed
    BY <1>1, <1>2, <1>9, PartialEnds DEF Refused
  <2>2. IF Owns(p) THEN Wrote(k, "rejected", None) ELSE writes' = writes
    BY <1>1, <1>2, <1>9, SaveWrites DEF Refused
  <2> QED
    BY <1>1, <1>5, <1>6, <2>1, <2>2, ReleaseKeeps DEF Settled
<1>10. CASE Unanswered(p)
  <2>1. Ended(p) /\ pc[p] = "answer"
    BY <1>1, <1>10, PartialEnds DEF Unanswered
  <2>2. IF Owns(p) THEN Wrote(k, "unknown", None) ELSE writes' = writes
    BY <1>1, <1>2, <1>10, SaveWrites DEF Unanswered
  <2> QED
    BY <1>1, <1>5, <1>6, <2>1, <2>2, ReleaseKeeps DEF Settled
<1>11. CASE Unproved(p)
  <2>1. Ended(p) /\ pc[p] \in {"prove", "scan"}
    BY <1>1, <1>11, PartialEnds DEF Unproved
  <2>2. writes[k].status # "free"
    BY <1>1, <1>3, <2>1 DEF AtWork
  <2>3. IF Owns(p) THEN Wrote(k, writes[k].status, None) ELSE writes' = writes
    BY <1>1, <1>2, <1>3, <1>11, SaveWrites DEF Unproved, Write
  <2>4. CASE ~Owns(p)
    BY <1>1, <2>1, <2>3, <2>4, ReleaseKeeps
  <2>5. CASE Owns(p)
    <3>1. writes[k].status \in {"unsent", "sending", "unknown", "applied"}
      BY <1>3, <1>5, <2>2, <2>5 DEF Write, Settled
    <3>2. writes[k].status = "unsent" => posts[k] = 0
      BY <1>4 DEF SentOnce
    <3>3. \A q \in Processes : q # p /\ Sending(q, k) =>
            writes[k].status \in {"sending", "unknown"}
      BY <1>4, <3>1 DEF SentOnce
    <3> QED
      BY <1>1, <2>1, <2>3, <2>5, <3>1, <3>2, <3>3, ReleaseKeeps
  <2> QED
    BY <2>4, <2>5
<1> QED
  BY <1>7, <1>8, <1>9, <1>10, <1>11

\* An acknowledgement keeps the invariant.
LEMMA AnsweredKeeps ==
    ASSUME LifecycleInv, NEW p \in Processes, Answered(p)
    PROVE  KeptBy(p)
<1>1. /\ TypeOK /\ pc[p] = "answer" /\ InOrder(p) /\ AtWork(p)
      /\ call[p].key \in landed /\ UNCHANGED <<provider, posts>>
  BY DEF LifecycleInv, Answered
<1>2. PICK k \in Keys : k = call[p].key /\ call[p] \in Call
  BY <1>1, Fields
<1>3. IF Owns(p) THEN Wrote(k, "applied", p) ELSE writes' = writes
  BY <1>1, <1>2, SaveWrites DEF Answered
<1>4. CASE ~Owns(p)
  <2>1. Ended(p)
    BY <1>1, <1>4, PartialEnds DEF Answered
  <2> QED
    BY <1>1, <1>3, <1>4, <2>1, ReleaseKeeps
<1>5. CASE Owns(p)
  <2>1. Went(p, "prove")
    BY <1>1, <1>5 DEF Answered, Goto, Went, Untouched, TypeOK
  <2>2. /\ writes[k].body = Body(call[p]) /\ writes[k].body # None
        /\ writes[k].status \notin {"free", "verified"} /\ posts[k] = 1
        /\ \A q \in Processes : Sending(q, k) => q = p
    BY <1>1, <1>2, <1>5, NoneAssumption
    DEF AtWork, Mine, LifecycleInv, SentOnce, TrueReceipt, Settled, Sending, Owns
  <2>3. Grown
    BY <1>1, <1>3, <1>5, <2>2 DEF Grown, Wrote, provider
  <2>4. ReceiptsKept
    <3>1. ASSUME NEW j \in Keys \ {k}
          PROVE  SentOnce(j)' /\ TrueReceipt(j)'
      BY <1>1, <1>2, <1>3, <1>5, <2>1, <3>1
      DEF LifecycleInv, SentOnce, TrueReceipt, Sending, Untouched, Went, Wrote,
          provider
    <3>2. SentOnce(k)'
      BY <1>1, <1>2, <1>3, <1>5, <2>1, <2>2
      DEF LifecycleInv, SentOnce, Sending, Untouched, Went, Wrote, provider
    <3>3. TrueReceipt(k)'
      BY <1>1, <1>2, <1>3, <1>5, <2>2
      DEF LifecycleInv, TrueReceipt, Settled, Wrote, provider
    <3> QED
      BY <3>1, <3>2, <3>3, EveryReceipt
  <2>5. InOrder(p)'
    <3>1. Verified("state", call[p].target) /\ k = "comment" =>
              /\ writes'["state"].status = "verified"
              /\ writes'["state"].body = call[p].target
      BY <1>3, <1>5 DEF Verified, Wrote, Keys
    <3> QED
      BY <1>1, <1>2, <2>1, <3>1
      DEF InOrder, Asking, Went, Verified, Patches, Annotation, Keys
  <2>6. AtWork(p)'
    BY <1>1, <1>2, <1>3, <1>5, <2>1, <2>2 DEF AtWork, Mine, Went, Wrote, Body, provider
  <2> QED
    BY <2>1, <2>3, <2>4, <2>5, <2>6 DEF KeptBy, Went
<1> QED
  BY <1>4, <1>5

\* A proof found keeps the invariant.
LEMMA ProveKeeps ==
    ASSUME LifecycleInv, NEW p \in Processes, Prove(p)
    PROVE  KeptBy(p)
<1>1. /\ TypeOK /\ pc[p] \in {"prove", "scan"} /\ InOrder(p) /\ AtWork(p)
      /\ Shown(p) /\ Owns(p) /\ Proceed(p)
      /\ SetStatus(p, "verified", None) /\ UNCHANGED <<provider, posts>>
  BY DEF LifecycleInv, Prove
<1>2. PICK k \in Keys : k = call[p].key /\ call[p] \in Call
  BY <1>1, Fields
<1>3. Wrote(k, "verified", None)
  BY <1>1, <1>2, SetStatusWrites
<1>4. /\ writes[k].body = Body(call[p]) /\ writes[k].status # "free"
      /\ writes[k].body # None
  BY <1>1, <1>2 DEF AtWork, Mine, LifecycleInv, TrueReceipt
<1>5. k \in landed
  BY <1>1, <1>2 DEF AtWork, InOrder, Asking, Shown, Keys
<1>6. Grown
  BY <1>1, <1>3, <1>4 DEF Grown, Wrote, provider
<1>7. /\ InOrder(p)' /\ AtWork(p)' /\ Untouched(p)
      /\ pc'[p] \notin {"send", "answer"}
  BY <1>1, <1>2, <1>3, <1>4, <1>6, ProofCarriesOn DEF Wrote
<1>8. ReceiptsKept
  <2>1. ASSUME NEW j \in Keys \ {k}
        PROVE  SentOnce(j)' /\ TrueReceipt(j)'
    BY <1>1, <1>2, <1>3, <1>7, <2>1
    DEF LifecycleInv, SentOnce, TrueReceipt, Sending, Untouched, Wrote, provider
  <2>2. SentOnce(k)'
    BY <1>1, <1>2, <1>3, <1>7
    DEF LifecycleInv, SentOnce, Sending, Untouched, Wrote, provider
  <2>3. TrueReceipt(k)'
    BY <1>1, <1>2, <1>3, <1>4, <1>5
    DEF LifecycleInv, TrueReceipt, Settled, Wrote, provider
  <2> QED
    BY <2>1, <2>2, <2>3, EveryReceipt
<1> QED
  BY <1>6, <1>7, <1>8 DEF KeptBy

\* Every step of a process keeps the invariant.
LEMMA ProcessKeeps ==
    ASSUME LifecycleInv, NEW p \in Processes,
           Begin(p) \/ PreRead(p) \/ FinalRead(p) \/ Die(p) \/ Execute(p)
    PROVE  KeptBy(p)
<1>1. CASE Begin(p) \/ PreRead(p) \/ FinalRead(p) \/ Die(p)
  BY <1>1, ToolSteps, QuietStep DEF KeptBy
<1>2. CASE Execute(p)
  BY <1>2, ReplayKeeps, ClaimKeeps, SendKeeps, PartialKeeps, AnsweredKeeps,
     ProveKeeps DEF Execute
<1> QED
  BY <1>1, <1>2

\* So does every step of the provider, of the others and of time.
LEMMA WorldKeeps ==
    ASSUME LifecycleInv,
           \/ \E k \in Keys : Land(k) \/ Refuse(k) \/ Expire(k)
           \/ \E state \in States : Others(state)
    PROVE  Grown /\ ReceiptsKept /\ UNCHANGED <<pc, call>>
<1>1. TypeOK
  BY DEF LifecycleInv
<1>2. ASSUME NEW k \in Keys, Land(k) \/ Refuse(k)
      PROVE  Grown /\ ReceiptsKept /\ UNCHANGED <<pc, call>>
  <2>1. /\ UNCHANGED <<writes, pc, call, posts>> /\ k \in wire
        /\ wire' = wire \ {k} /\ landed \subseteq landed'
        /\ landed' \in {landed, landed \union {k}}
    BY <1>2 DEF Land, Refuse
  <2>2. ASSUME NEW j \in Keys \ {k}
        PROVE  SentOnce(j)' /\ TrueReceipt(j)'
    BY <2>1, <2>2 DEF LifecycleInv, SentOnce, TrueReceipt, Sending
  <2>3. SentOnce(k)' /\ TrueReceipt(k)'
    BY <2>1 DEF LifecycleInv, SentOnce, TrueReceipt, Sending
  <2> QED
    BY <2>1, <2>2, <2>3, EveryReceipt DEF Grown
<1>3. ASSUME NEW k \in Keys, Expire(k)
      PROVE  Grown /\ ReceiptsKept /\ UNCHANGED <<pc, call>>
  <2>1. Wrote(k, writes[k].status, None)
    BY <1>1, <1>3 DEF Expire, Wrote, TypeOK, WritesTyped, Write
  <2>2. UNCHANGED <<provider, pc, call, posts>>
    BY <1>3 DEF Expire
  <2>3. ASSUME NEW j \in Keys
        PROVE  writes'[j].status = writes[j].status
               /\ writes'[j].body = writes[j].body
               /\ writes'[j].owner \in {writes[j].owner, None}
    BY <2>1 DEF Wrote
  <2>4. ASSUME NEW j \in Keys
        PROVE  SentOnce(j)' /\ TrueReceipt(j)'
    BY <2>2, <2>3, <2>4 DEF LifecycleInv, SentOnce, TrueReceipt, Sending, provider
  <2> QED
    BY <2>2, <2>3, <2>4 DEF Grown, ReceiptsKept, provider
<1>4. ASSUME NEW state \in States, Others(state)
      PROVE  Grown /\ ReceiptsKept /\ UNCHANGED <<pc, call>>
  BY <1>4 DEF Others, Grown, ReceiptsKept, LifecycleInv, SentOnce, TrueReceipt,
              Sending
<1> QED
  BY <1>2, <1>3, <1>4

-----------------------------------------------------------------------------
(* Theorems.                                                               *)

\* The receipts only grow, and every step keeps the invariant.
LEMMA StepKeeps ==
    ASSUME LifecycleInv, [Next]_vars
    PROVE  Grown /\ LifecycleInv'
<1>1. TypeOK'
  BY TypesAreKept
<1>2. ASSUME NEW p \in Processes,
             Begin(p) \/ PreRead(p) \/ FinalRead(p) \/ Die(p) \/ Execute(p)
      PROVE  Grown /\ LifecycleInv'
  <2>1. KeptBy(p)
    BY <1>2, ProcessKeeps
  <2>2. ASSUME NEW q \in Processes
        PROVE  InOrder(q)' /\ AtWork(q)'
    <3>1. CASE q # p
      BY <2>1, <3>1, BystandersAreKept DEF KeptBy, Untouched
    <3>2. CASE q = p
      BY <2>1, <3>2 DEF KeptBy, InOrder, AtWork, Asking, Mine
    <3> QED
      BY <3>1, <3>2
  <2> QED
    BY <1>1, <2>1, <2>2 DEF LifecycleInv, KeptBy, ReceiptsKept
<1>3. CASE \/ \E k \in Keys : Land(k) \/ Refuse(k) \/ Expire(k)
           \/ \E state \in States : Others(state)
  BY <1>1, <1>3, WorldKeeps, BystandersAreKept DEF LifecycleInv, ReceiptsKept
<1>4. CASE UNCHANGED vars
  <2>1. Grown
    BY <1>4 DEF vars, provider, Grown
  <2>2. ReceiptsKept /\ UNCHANGED <<pc, call>>
    BY <1>4 DEF vars, provider, ReceiptsKept, LifecycleInv, SentOnce,
                TrueReceipt, Sending
  <2> QED
    BY <1>1, <2>1, <2>2, BystandersAreKept DEF LifecycleInv, ReceiptsKept
<1> QED
  BY <1>2, <1>3, <1>4 DEF Next

\* The ledger, the provider and the calls agree in every reachable state: a
\* call comes to its comment only over the proof of its patch, and each derived
\* key sends one write (server.py:400-612 over resilience.py:184-463).
THEOREM LifecycleInvariant == Spec => []LifecycleInv
<1>1. Init => LifecycleInv
  <2> SUFFICES ASSUME Init PROVE LifecycleInv
    OBVIOUS
  <2>1. TypeOK
    BY BoundsAssumption, NoneAssumption
    DEF Init, TypeOK, WritesTyped, Unclaimed, Write, Keys, Steps
  <2>2. \A p \in Processes : InOrder(p) /\ AtWork(p)
    BY DEF Init, InOrder, AtWork, Asking
  <2>3. \A k \in Keys : SentOnce(k) /\ TrueReceipt(k)
    BY DEF Init, SentOnce, TrueReceipt, Sending, Unclaimed, Settled
  <2> QED
    BY <2>1, <2>2, <2>3 DEF LifecycleInv
<1>2. LifecycleInv /\ [Next]_vars => LifecycleInv'
  BY StepKeeps
<1> QED
  BY <1>1, <1>2, PTL DEF Spec

-----------------------------------------------------------------------------
(* What comments and reports say.                                          *)

\* The comment's receipt is bound by the claim of a process that comes to it.
LEMMA CommentIsBound ==
    ASSUME LifecycleInv, [Next]_vars,
           writes'["comment"].body # writes["comment"].body
    PROVE  \E p \in Processes :
                /\ pc[p] = "ask" /\ call[p].key = "comment"
                /\ writes'["comment"].body = Body(call[p])
<1>1. TypeOK /\ "comment" \in Keys
  BY DEF LifecycleInv, Keys
<1>2. PICK p \in Processes :
        /\ pc[p] # "idle"
        /\ \/ ClaimToSend(p) \/ ClaimToProve(p) \/ ClaimToScan(p)
           \/ LeaveUnknown(p) \/ NotSent(p) \/ Answered(p) \/ Refused(p)
           \/ Unanswered(p) \/ Prove(p) \/ Unproved(p)
  <2>1. \A k \in Keys : ~Expire(k)
    BY <1>1 DEF Expire, TypeOK, WritesTyped, Write
  <2>2. ~ UNCHANGED writes
    OBVIOUS
  <2>3. \A k \in Keys : ~Land(k) /\ ~Refuse(k)
    BY <2>2 DEF Land, Refuse
  <2>4. \A state \in States : ~Others(state)
    BY <2>2 DEF Others
  <2>5. \A p \in Processes : ~Begin(p) /\ ~PreRead(p) /\ ~FinalRead(p) /\ ~Die(p)
    BY <2>2 DEF Begin, BeginOperator, BeginSimple, Accept, PreRead, FinalRead, Die
  <2>6. \A p \in Processes : ~Replay(p) /\ ~Send(p)
    BY <2>2 DEF Replay, Send
  <2>7. PICK p \in Processes : Execute(p)
    BY <2>1, <2>2, <2>3, <2>4, <2>5 DEF Next, vars
  <2>8. pc[p] # "idle"
    BY <2>7, <2>6
    DEF Execute, Claimable, ClaimToSend, ClaimToProve, ClaimToScan, LeaveUnknown,
        NotSent, Answered, Refused, Unanswered, Prove, Unproved
  <2> QED
    BY <2>6, <2>7, <2>8 DEF Execute
<1>3. CASE ClaimToSend(p) \/ ClaimToProve(p) \/ ClaimToScan(p)
  <2>1. pc[p] = "ask" /\ InOrder(p) /\ call[p].key \in Keys
    BY <1>1, <1>2, <1>3, Fields
    DEF ClaimToSend, ClaimToProve, ClaimToScan, Claimable, LifecycleInv
  <2>2. call[p].key = "state" => call[p].target # None
    BY <2>1 DEF InOrder, Asking, Patches
  <2>3. PICK status : Claimed(p, status)
             /\ \A j \in Keys : j # call[p].key => writes'[j] = writes[j]
    BY <1>1, <1>3, <2>2, ClaimStep DEF ClaimToSend, ClaimToProve, ClaimToScan
  <2> QED
    BY <1>1, <2>1, <2>3 DEF Claimed
<1>4. CASE LeaveUnknown(p) \/ Prove(p)
  <2>1. PICK status : Wrote(call[p].key, status, None)
    BY <1>1, <1>2, <1>4, SetStatusWrites DEF LeaveUnknown, Prove
  <2> QED
    BY <1>1, <1>2, <2>1, Fields DEF Wrote
<1>5. CASE NotSent(p) \/ Answered(p) \/ Refused(p) \/ Unanswered(p) \/ Unproved(p)
  <2>1. ASSUME NEW owner \in {p, None},
               NEW status \in {"free", "unsent", "sending", "unknown", "applied",
                               "rejected", "verified"},
               Save(p, status, owner)
        PROVE  writes'["comment"].body = writes["comment"].body
    BY <1>1, <1>2, <2>1, Fields, SaveWrites DEF Wrote
  <2>2. Mine(p).status \in {"free", "unsent", "sending", "unknown", "applied",
                            "rejected", "verified"}
    BY <1>1, <1>2, Fields DEF Write
  <2> QED
    BY <1>5, <2>1, <2>2 DEF NotSent, Answered, Refused, Unanswered, Unproved
<1> QED
  BY <1>2, <1>3, <1>4, <1>5

\* What was applied stays applied.
LEMMA AppliedStays ==
    ASSUME Grown, NEW k \in Keys, NEW body, body # None, Applied(k, body)
    PROVE  Applied(k, body)'
  BY DEF Applied, Grown

\* No comment is reserved that tells of a transition which was not applied
\* (server.py:539-568).
THEOREM CommentsTruthful == Spec => []CommentsTellTheTruth
<1>1. Init => CommentsTellTheTruth
  BY NoneAssumption, BoundsAssumption
  DEF Init, CommentsTellTheTruth, Unclaimed, Keys
<1>2. ASSUME LifecycleInv, CommentsTellTheTruth, [Next]_vars
      PROVE  CommentsTellTheTruth'
  <2> SUFFICES ASSUME NEW told \in Comment, writes'["comment"].body = told,
                      told.from # told.to
               PROVE  Applied("state", told.to)'
    BY DEF CommentsTellTheTruth, Applied
  <2>1. Grown /\ TypeOK
    BY <1>2, StepKeeps DEF LifecycleInv
  <2>2. Applied("state", told.to) /\ told.to # None
    <3>1. CASE writes["comment"].body = told
      <4>1. Applied("state", told.to)
        BY <1>2, <3>1 DEF CommentsTellTheTruth
      <4>2. writes["state"].body # None
        BY <1>2, <4>1
        DEF Applied, LifecycleInv, SentOnce, TrueReceipt, Keys
      <4> QED
        BY <4>1, <4>2 DEF Applied
    <3>2. CASE writes["comment"].body # told
      <4>1. PICK p \in Processes :
              pc[p] = "ask" /\ call[p].key = "comment" /\ told = Body(call[p])
        BY <1>2, <3>2, CommentIsBound
      <4>2. call[p] \in Call /\ InOrder(p)
        BY <1>2, <2>1, <4>1, Fields DEF LifecycleInv
      <4>3. /\ call[p].tool = "operator" /\ told.from = call[p].expected
            /\ told.to = call[p].target
        BY <4>1, <4>2 DEF Body, Call
      <4>4. Patches(call[p])
        BY <4>1, <4>2, <4>3 DEF InOrder, Patches, Annotation
      <4>5. Verified("state", told.to)
        BY <4>1, <4>2, <4>3, <4>4 DEF InOrder, Asking
      <4> QED
        BY <1>2, <4>3, <4>4, <4>5
        DEF Verified, Applied, LifecycleInv, TrueReceipt, Keys, Patches
    <3> QED
      BY <3>1, <3>2
  <2> QED
    BY <2>1, <2>2, AppliedStays DEF Keys
<1>3. Spec => []LifecycleInv
  BY LifecycleInvariant
<1> QED
  BY <1>1, <1>2, <1>3, PTL DEF Spec

\* What a report may claim after the step that returns it.
Truthful(c, applied, state, comment) ==
    /\ applied => "state" \in landed' /\ writes'["state"].body = c.target
    /\ state /\ Patches(c) => writes'["state"].status = "verified"
    /\ comment =>
        /\ "comment" \in landed'
        /\ writes'["comment"].body = Body([c EXCEPT !.key = "comment"])

\* A report that claims no more is true.
LEMMA TruthfulReport ==
    ASSUME NEW p \in Processes, NEW applied, NEW state, NEW comment,
           Said(p, applied, state, comment),
           Truthful(call[p], applied, state, comment)
    PROVE  ReportsAreTrue'
  BY DEF Said, Truthful, ReportsAreTrue, Applied

\* Whoever has come to the comment has applied and proved the patch.
LEMMA PatchIsProved ==
    ASSUME LifecycleInv, Grown, NEW p \in Processes, Asking(p, "comment"),
           Patches(call[p])
    PROVE  /\ "state" \in landed' /\ writes'["state"].body = call[p].target
           /\ writes'["state"].status = "verified"
  BY DEF LifecycleInv, InOrder, Verified, TrueReceipt, Grown, Keys, Patches

\* A call that stops half way reports the truth.
LEMMA PartialIsTrue ==
    ASSUME LifecycleInv, Grown, NEW p \in Processes, pc[p] \notin {"idle", "read"},
           NEW applied \in BOOLEAN, ReportPartial(p, applied),
           applied /\ call[p].key = "state" =>
               "state" \in landed' /\ writes'["state"].body = call[p].target
    PROVE  ReportsAreTrue'
<1> DEFINE patched == Patches(call[p])
           known == patched \/ call[p].tool = "operator"
<1>1. TypeOK
  BY DEF LifecycleInv
<1>2. CASE call[p].key = "state" /\ Said(p, applied, FALSE, FALSE)
  <2>1. Truthful(call[p], applied, FALSE, FALSE)
    BY <1>2 DEF Truthful
  <2> QED
    BY <1>2, <2>1, TruthfulReport
<1>3. CASE call[p].key = "comment" /\ Said(p, patched, known, FALSE)
  <2>1. Truthful(call[p], patched, known, FALSE)
    BY <1>3, PatchIsProved DEF Truthful, Asking
  <2> HIDE DEF patched, known
  <2> QED
    BY <1>3, <2>1, TruthfulReport
<1> QED
  BY <1>1, <1>2, <1>3, PartialEnds

\* A call that ends over a proof reports the truth.
LEMMA ProceedIsTrue ==
    ASSUME LifecycleInv, Grown, ReceiptsKept, NEW p \in Processes,
           pc[p] \notin {"idle", "read"}, Proceed(p),
           writes'[call[p].key].status = "verified",
           writes'[call[p].key].body = Body(call[p])
    PROVE  ReportsAreTrue'
<1> DEFINE patched == Patches(call[p])
<1>1. TypeOK /\ call[p] \in Call /\ call[p].key \in Keys
  BY Fields DEF LifecycleInv
<1>2. call[p].key \in landed'
  BY <1>1 DEF ReceiptsKept, TrueReceipt
<1>3. CASE said' = None
  BY <1>3 DEF ReportsAreTrue
<1>4. CASE call[p].key = "state" /\ Said(p, TRUE, TRUE, FALSE)
  <2>1. Truthful(call[p], TRUE, TRUE, FALSE)
    BY <1>2, <1>4 DEF Truthful, Body
  <2> QED
    BY <1>4, <2>1, TruthfulReport
<1>5. CASE call[p].key = "comment" /\ Said(p, patched, patched, TRUE)
  <2>1. Body([call[p] EXCEPT !.key = "comment"]) = Body(call[p])
    BY <1>1, <1>5 DEF Body, Call
  <2>2. Truthful(call[p], patched, patched, TRUE)
    BY <1>2, <1>5, <2>1, PatchIsProved DEF Truthful, Asking
  <2> HIDE DEF patched
  <2> QED
    BY <1>5, <2>2, TruthfulReport
<1> QED
  BY <1>1, <1>3, <1>4, <1>5, ProceedGoesOn

\* The last read reports the truth of the patch and of the comment.
LEMMA FinalIsTrue ==
    ASSUME LifecycleInv, Grown, NEW p \in Processes, FinalRead(p)
    PROVE  ReportsAreTrue'
<1> DEFINE there == item.state = call[p].target
           patched == ~Annotation(call[p])
<1>1. TypeOK /\ pc[p] = "final" /\ call[p] \in Call /\ InOrder(p)
  BY Fields DEF LifecycleInv, FinalRead
<1>2. /\ call[p].tool = "operator" /\ call[p].key = "comment"
      /\ Verified("comment", Body(call[p])) /\ Asking(p, "comment")
      /\ call[p].target # None
  BY <1>1 DEF InOrder, Asking
<1>3. "comment" \in landed' /\ writes'["comment"].body = Body(call[p])
  BY <1>2 DEF LifecycleInv, TrueReceipt, Verified, Grown, Keys
<1>4. Body([call[p] EXCEPT !.key = "comment"]) = Body(call[p])
  BY <1>1, <1>2 DEF Body, Call
<1>5. Truthful(call[p], patched, there, TRUE)
  BY <1>2, <1>3, <1>4, PatchIsProved DEF Truthful, Patches
<1>6. there \in BOOLEAN /\ patched \in BOOLEAN
  BY DEF Annotation
<1>7. Say(p, IF there THEN "verified" ELSE "final_state_readback_failed",
          patched, there, TRUE)
  BY DEF FinalRead
<1> HIDE DEF there, patched
<1>8. Said(p, patched, there, TRUE)
  BY <1>1, <1>6, <1>7, SayEnds
<1> QED
  BY <1>5, <1>8, TruthfulReport

\* No report claims what was not applied as its call asked for it
\* (server.py:441-454, 526-612).
THEOREM ReportsTruthful == Spec => []ReportsAreTrue
<1>1. Init => ReportsAreTrue
  BY DEF Init, ReportsAreTrue
<1>2. ASSUME LifecycleInv, ReportsAreTrue, [Next]_vars
      PROVE  ReportsAreTrue'
  <2>1. Grown /\ LifecycleInv' /\ TypeOK /\ ReceiptsKept
    BY <1>2, StepKeeps DEF LifecycleInv, ReceiptsKept
  <2>2. CASE said' = None
    BY <2>2 DEF ReportsAreTrue
  <2>3. CASE UNCHANGED vars
    BY <1>2, <2>3 DEF vars, provider, ReportsAreTrue, Applied
  <2>4. ASSUME NEW p \in Processes, PreRead(p)
        PROVE  ReportsAreTrue'
    <3>1. CASE Expected(call[p])
      BY <2>2, <2>4, <3>1 DEF PreRead
    <3>2. CASE ~Expected(call[p])
      <4>1. Said(p, FALSE, FALSE, FALSE)
        BY <2>1, <2>4, <3>2, SayEnds DEF PreRead
      <4>2. Truthful(call[p], FALSE, FALSE, FALSE)
        BY DEF Truthful
      <4> QED
        BY <4>1, <4>2, TruthfulReport
    <3> QED
      BY <3>1, <3>2
  <2>5. ASSUME NEW p \in Processes, Replay(p)
        PROVE  ReportsAreTrue'
    <3>1. pc[p] = "ask" /\ writes' = writes /\ UNCHANGED provider /\ Bound(p)
      BY <2>5 DEF Replay
    <3>2. PICK k \in Keys : k = call[p].key
      BY <2>1, <3>1, Fields
    <3>3. Mine(p).status \in {"verified", "applied"} =>
            Mine(p).body = Body(call[p]) /\ k \in landed
      BY <1>2, <3>1, <3>2 DEF Bound, LifecycleInv, TrueReceipt, Mine
    <3>4. CASE Mine(p).status = "verified"
      BY <1>2, <2>1, <2>5, <3>1, <3>2, <3>3, <3>4, ProceedIsTrue DEF Replay, Mine
    <3>5. CASE Mine(p).status # "verified"
      <4> DEFINE applied == Mine(p).status = "applied"
      <4>1. ReportPartial(p, applied) /\ applied \in BOOLEAN
        BY <2>5, <3>5 DEF Replay
      <4>2. applied /\ call[p].key = "state" =>
                "state" \in landed' /\ writes'["state"].body = call[p].target
        BY <3>1, <3>2, <3>3 DEF Mine, Body, provider
      <4> HIDE DEF applied
      <4> QED
        BY <1>2, <2>1, <3>1, <4>1, <4>2, PartialIsTrue
    <3> QED
      BY <3>4, <3>5
  <2>6. ASSUME NEW p \in Processes,
               \/ LeaveUnknown(p) \/ NotSent(p) \/ Refused(p) \/ Unanswered(p)
               \/ Answered(p) /\ said' # None
        PROVE  ReportsAreTrue'
    <3>1. ReportPartial(p, FALSE) /\ pc[p] \notin {"idle", "read"}
      BY <2>6 DEF LeaveUnknown, NotSent, Refused, Unanswered, Answered, Claimable
    <3> QED
      BY <1>2, <2>1, <3>1, PartialIsTrue
  <2>7. ASSUME NEW p \in Processes, Prove(p)
        PROVE  ReportsAreTrue'
    <3>1. /\ pc[p] \in {"prove", "scan"} /\ Proceed(p) /\ AtWork(p)
          /\ SetStatus(p, "verified", None)
      BY <1>2, <2>7 DEF Prove, LifecycleInv
    <3>2. Wrote(call[p].key, "verified", None) /\ Mine(p).body = Body(call[p])
      BY <2>1, <3>1, SetStatusWrites DEF AtWork
    <3> QED
      BY <1>2, <2>1, <3>1, <3>2, ProceedIsTrue DEF Wrote, Mine
  <2>8. ASSUME NEW p \in Processes, Unproved(p)
        PROVE  ReportsAreTrue'
    <3> DEFINE applied == pc[p] = "prove"
    <3>1. /\ pc[p] \in {"prove", "scan"} /\ ReportPartial(p, applied)
          /\ AtWork(p) /\ applied \in BOOLEAN /\ UNCHANGED provider
      BY <1>2, <2>8 DEF Unproved, LifecycleInv
    <3>2. applied /\ call[p].key = "state" =>
              "state" \in landed' /\ writes'["state"].body = call[p].target
      <4> SUFFICES ASSUME pc[p] = "prove", call[p].key = "state"
                   PROVE  "state" \in landed' /\ writes'["state"].body = call[p].target
        OBVIOUS
      <4>1. "state" \in landed /\ writes["state"].body = call[p].target
        BY <3>1 DEF AtWork, Mine, Body
      <4>2. writes["state"].body # None
        BY <1>2, <4>1 DEF LifecycleInv, SentOnce, TrueReceipt, Keys
      <4> QED
        BY <2>1, <4>1, <4>2 DEF Grown, Keys
    <3> HIDE DEF applied
    <3> QED
      BY <1>2, <2>1, <3>1, <3>2, PartialIsTrue
  <2>9. ASSUME NEW p \in Processes, FinalRead(p)
        PROVE  ReportsAreTrue'
    BY <1>2, <2>1, <2>9, FinalIsTrue
  <2> QED
    BY <1>2, <2>2, <2>3, <2>4, <2>5, <2>6, <2>7, <2>8, <2>9
    DEF Next, Execute, Begin, BeginOperator, BeginSimple, Accept, Die, ClaimToSend,
        ClaimToProve, ClaimToScan, Claim, Send, Land, Refuse, Expire, Others
<1>3. Spec => []LifecycleInv
  BY LifecycleInvariant
<1> QED
  BY <1>1, <1>2, <1>3, PTL DEF Spec

-----------------------------------------------------------------------------
(* What an owner's step says of the status it works on.                    *)

InStep(p) ==
    pc[p] # "idle" /\ Owns(p) =>
        /\ AtStatus(p, {"send", "answer"}, "sending")
        /\ AtStatus(p, {"prove"}, "applied")
        /\ AtStatus(p, {"scan"}, "unknown")

AtRest(p) == pc[p] \notin {"send", "answer", "prove", "scan"}

LEMMA RestIsInStep ==
    ASSUME NEW p \in Processes, AtRest(p)'
    PROVE  InStep(p)'
  BY DEF AtRest, InStep, AtStatus

\* A receipt changes hands only by a claim, or is given up.
LEMMA OthersInStep ==
    ASSUME LifecycleInv, StatusInv, NEW p \in Processes, Untouched(p),
           \A k \in Keys : writes'[k] = writes[k] \/ writes'[k].owner \in {p, None}
    PROVE  \A q \in Processes : q # p => InStep(q)'
<1> SUFFICES ASSUME NEW q \in Processes, q # p, pc'[q] # "idle", Owns(q)'
             PROVE  InStep(q)'
  BY DEF InStep
<1>1. pc'[q] = pc[q] /\ call'[q] = call[q] /\ TypeOK
  BY DEF Untouched, LifecycleInv
<1>2. call[q].key \in Keys
  BY <1>1, Fields
<1>3. writes'[call[q].key] = writes[call[q].key]
  BY <1>1, <1>2, NoneAssumption DEF Owns, Mine
<1>4. InStep(q) /\ Owns(q)
  BY <1>1, <1>3 DEF StatusInv, InStep, Owns, Mine
<1> QED
  BY <1>1, <1>3, <1>4 DEF InStep, AtStatus, Mine

LEMMA ProcessKeepsStatus ==
    ASSUME LifecycleInv, StatusInv, NEW p \in Processes,
           Begin(p) \/ PreRead(p) \/ FinalRead(p) \/ Die(p) \/ Execute(p)
    PROVE  StatusInv'
<1>1. TypeOK /\ InOrder(p) /\ InStep(p)
  BY DEF LifecycleInv, StatusInv, InStep
<1> SUFFICES /\ Untouched(p) /\ InStep(p)'
             /\ \A k \in Keys : writes'[k] = writes[k] \/ writes'[k].owner \in {p, None}
  BY OthersInStep DEF StatusInv, InStep
<1>2. CASE Begin(p) \/ PreRead(p) \/ FinalRead(p) \/ Die(p)
  <2>1. Untouched(p) /\ writes' = writes
    BY <1>2, ToolSteps
  <2>2. AtRest(p)'
    BY <1>1, <1>2
    DEF Begin, BeginOperator, BeginSimple, Accept, PreRead, FinalRead, Die, Say,
        Goto, AtRest, TypeOK
  <2> QED
    BY <2>1, <2>2, RestIsInStep
<1>3. CASE Replay(p)
  <2>1. pc[p] # "idle" /\ writes' = writes
    BY <1>3 DEF Replay
  <2>2. Untouched(p) /\ AtRest(p)'
    BY <1>1, <1>3, <2>1, ProceedGoesOn, PartialEnds
    DEF Replay, Turned, Ended, Went, AtRest
  <2> QED
    BY <2>1, <2>2, RestIsInStep
<1>4. CASE ClaimToSend(p) \/ ClaimToProve(p) \/ ClaimToScan(p)
  <2>1. call[p].key = "state" => call[p].target # None
    BY <1>1, <1>4
    DEF ClaimToSend, ClaimToProve, ClaimToScan, Claimable, InOrder, Asking, Patches
  <2>2. /\ \/ Claimed(p, "sending") /\ Went(p, "send")
           \/ Claimed(p, "applied") /\ Went(p, "prove")
           \/ Claimed(p, "unknown") /\ Went(p, "scan")
        /\ \A j \in Keys : j # call[p].key => writes'[j] = writes[j]
    BY <1>1, <1>4, <2>1, ClaimStep DEF ClaimToSend, ClaimToProve, ClaimToScan
  <2>3. writes'[call[p].key].owner = p
    BY <2>2 DEF Claimed
  <2>4. InStep(p)'
    BY <2>2 DEF Claimed, Went, InStep, AtStatus, Mine
  <2> QED
    BY <2>2, <2>3, <2>4 DEF Went
<1>5. CASE LeaveUnknown(p)
  <2>1. pc[p] # "idle" /\ ReportPartial(p, FALSE) /\ SetStatus(p, "unknown", None)
    BY <1>5 DEF LeaveUnknown, Claimable
  <2>2. Wrote(call[p].key, "unknown", None) /\ Ended(p)
    BY <1>1, <2>1, SetStatusWrites, PartialEnds
  <2> QED
    BY <2>2, RestIsInStep DEF Wrote, Ended, AtRest
<1>6. CASE Send(p)
  BY <1>1, <1>6 DEF Send, Goto, TypeOK, Untouched, InStep, AtStatus, Owns, Mine
<1>7. ASSUME NEW owner \in {p, None}, NEW status, Save(p, status, owner),
             pc[p] # "idle", status \in {"unsent", "sending", "unknown", "applied",
                                         "rejected", "free", "verified"}
      PROVE  \A k \in Keys : writes'[k] = writes[k] \/ writes'[k].owner \in {p, None}
  BY <1>1, <1>7, SaveWrites DEF Wrote
<1>8. CASE NotSent(p) \/ Refused(p) \/ Unanswered(p) \/ Unproved(p)
  <2>1. pc[p] # "idle" /\ \E applied \in BOOLEAN : ReportPartial(p, applied)
    BY <1>8 DEF NotSent, Refused, Unanswered, Unproved
  <2>2. Ended(p)
    BY <1>1, <2>1, PartialEnds
  <2>3. Mine(p).status \in {"unsent", "sending", "unknown", "applied",
                            "rejected", "free", "verified"}
    BY <1>1, <2>1, Fields DEF Write
  <2>4. \E status : Save(p, status, None)
                    /\ status \in {"unsent", "sending", "unknown", "applied",
                                   "rejected", "free", "verified"}
    BY <1>8, <2>3 DEF NotSent, Refused, Unanswered, Unproved
  <2>5. \A k \in Keys : writes'[k] = writes[k] \/ writes'[k].owner \in {p, None}
    BY <1>7, <2>1, <2>4
  <2> QED
    BY <2>2, <2>5, RestIsInStep DEF Ended, AtRest
<1>9. CASE Answered(p)
  <2>1. pc[p] = "answer" /\ Save(p, "applied", p)
    BY <1>9 DEF Answered
  <2>2. \A k \in Keys : writes'[k] = writes[k] \/ writes'[k].owner \in {p, None}
    BY <1>7, <2>1
  <2>3. CASE Owns(p)
    <3>1. Went(p, "prove")
      BY <1>1, <1>9, <2>3 DEF Answered, Goto, TypeOK, Went, Untouched
    <3>2. Wrote(call[p].key, "applied", p)
      BY <1>1, <2>1, <2>3, SaveWrites
    <3> QED
      BY <2>2, <3>1, <3>2 DEF Went, Wrote, InStep, AtStatus, Mine
  <2>4. CASE ~Owns(p)
    <3>1. Ended(p)
      BY <1>1, <1>9, <2>1, <2>4, PartialEnds DEF Answered
    <3> QED
      BY <2>2, <3>1, RestIsInStep DEF Ended, AtRest
  <2> QED
    BY <2>3, <2>4
<1>10. CASE Prove(p)
  <2>1. pc[p] # "idle" /\ Proceed(p) /\ SetStatus(p, "verified", None)
    BY <1>10 DEF Prove
  <2>2. Wrote(call[p].key, "verified", None)
    BY <1>1, <2>1, SetStatusWrites
  <2>3. Untouched(p) /\ AtRest(p)'
    BY <1>1, <2>1, ProceedGoesOn DEF Turned, Ended, Went, AtRest
  <2> QED
    BY <2>2, <2>3, RestIsInStep DEF Wrote
<1> QED
  BY <1>2, <1>3, <1>4, <1>5, <1>6, <1>8, <1>9, <1>10 DEF Execute

LEMMA StatusInvariant == Spec => []StatusInv
<1>1. Init => StatusInv
  BY DEF Init, StatusInv
<1>2. LifecycleInv /\ StatusInv /\ [Next]_vars => StatusInv'
  <2> SUFFICES ASSUME LifecycleInv, StatusInv, [Next]_vars PROVE StatusInv'
    OBVIOUS
  <2>1. ASSUME NEW p \in Processes,
               Begin(p) \/ PreRead(p) \/ FinalRead(p) \/ Die(p) \/ Execute(p)
        PROVE  StatusInv'
    BY <2>1, ProcessKeepsStatus
  <2>2. CASE UNCHANGED <<writes, pc, call>>
    BY <2>2 DEF StatusInv, AtStatus, Owns, Mine
  <2>3. ASSUME NEW k \in Keys, Expire(k)
        PROVE  StatusInv'
    <3>1. /\ \A j \in Keys : writes'[j] = writes[j] \/ writes'[j].owner = None
          /\ UNCHANGED <<pc, call>>
      BY <2>3 DEF Expire, LifecycleInv, TypeOK, WritesTyped, Write
    <3>2. \A p \in Processes : pc[p] # "idle" => call[p].key \in Keys
      BY Fields DEF LifecycleInv
    <3> QED
      BY <3>1, <3>2, NoneAssumption DEF StatusInv, AtStatus, Owns, Mine
  <2> QED
    BY <2>1, <2>2, <2>3 DEF Next, Land, Refuse, Others, vars
<1> QED
  BY <1>1, <1>2, LifecycleInvariant, PTL DEF Spec

-----------------------------------------------------------------------------
(* The promise of the executor.                                            *)

\* How far a write may come in a step.
FateMoves(k) ==
    /\ writes'[k].status = writes[k].status
    /\ \/ /\ FateOf(k) = "unused" /\ FateOf(k)' = "out"
          /\ writes[k].status \notin {"free", "unsent"}
       \/ FateOf(k) = "out" /\ FateOf(k)' \in {"landed", "refused"}

\* How its receipt may follow.
StatusMoves(k, old, new) ==
    \/ old \in {"free", "unsent"} /\ new = "sending"
    \/ old = "sending" /\ new = "unsent" /\ FateOf(k) = "unused"
    \/ old = "sending" /\ new = "unknown"
    \/ old = "sending" /\ new = "applied" /\ FateOf(k) = "landed"
    \/ old = "sending" /\ new = "rejected" /\ FateOf(k) = "refused"
    \/ old \in {"applied", "unknown"} /\ new = "verified" /\ FateOf(k) = "landed"

\* What may happen to one derived key in a step.
KeyStep(k) ==
    \/ FateMoves(k)
    \/ /\ FateOf(k)' = FateOf(k)
       /\ \/ writes'[k].status = writes[k].status
          \/ StatusMoves(k, writes[k].status, writes'[k].status)

\* Nothing is sent, applied or refused.
LEMMA StillStep ==
    ASSUME UNCHANGED <<provider, posts>>, NEW k \in Keys,
           \/ writes'[k].status = writes[k].status
           \/ StatusMoves(k, writes[k].status, writes'[k].status)
    PROVE  KeyStep(k)
  BY DEF KeyStep, FateOf, provider

\* A save of the receipt worked on leaves the others.
LEMMA SavedStep ==
    ASSUME TypeOK, NEW p \in Processes, pc[p] # "idle",
           UNCHANGED <<provider, posts>>,
           NEW owner \in {p, None}, NEW status, Save(p, status, owner),
           status \in {"free", "unsent", "sending", "unknown", "applied",
                       "rejected", "verified"},
           Owns(p) => \/ status = Mine(p).status
                      \/ StatusMoves(call[p].key, Mine(p).status, status),
           NEW k \in Keys
    PROVE  KeyStep(k)
<1>1. IF Owns(p) THEN Wrote(call[p].key, status, owner) ELSE writes' = writes
  BY SaveWrites
<1> QED
  BY <1>1, StillStep DEF Wrote, Mine

\* A step of the executor is one of these for every key.
LEMMA ExecuteSteps ==
    ASSUME LifecycleInv, StatusInv, NEW p \in Processes, Execute(p), NEW k \in Keys
    PROVE  KeyStep(k)
<1>1. TypeOK /\ pc[p] # "idle" /\ InOrder(p) /\ AtWork(p) /\ InStep(p)
  BY DEF LifecycleInv, StatusInv, InStep, Execute, Replay, ClaimToSend, ClaimToProve,
         ClaimToScan, LeaveUnknown, Send, NotSent, Answered, Refused, Unanswered,
         Prove, Unproved, Claimable
<1>2. call[p].key \in Keys /\ Mine(p) \in Write
  BY <1>1, Fields
<1>3. SentOnce(call[p].key) /\ TrueReceipt(call[p].key)
  BY <1>2 DEF LifecycleInv
<1>4. CASE Replay(p)
  BY <1>4, StillStep DEF Replay
<1>5. CASE ClaimToSend(p) \/ ClaimToProve(p) \/ ClaimToScan(p)
  <2>1. call[p].key = "state" => call[p].target # None
    BY <1>1, <1>5
    DEF ClaimToSend, ClaimToProve, ClaimToScan, Claimable, InOrder, Asking, Patches
  <2>2. PICK status \in {"sending", "applied", "unknown"} :
            /\ Claimed(p, status)
            /\ \A j \in Keys : j # call[p].key => writes'[j] = writes[j]
            /\ \/ status = Mine(p).status
               \/ StatusMoves(call[p].key, Mine(p).status, status)
    BY <1>1, <1>5, <2>1, ClaimStep
    DEF ClaimToSend, ClaimToProve, ClaimToScan, StatusMoves
  <2>3. UNCHANGED <<provider, posts>>
    BY <1>5 DEF ClaimToSend, ClaimToProve, ClaimToScan, Claim
  <2> QED
    BY <2>2, <2>3, StillStep DEF Claimed, Mine
<1>6. CASE LeaveUnknown(p)
  <2>1. Wrote(call[p].key, "unknown", None)
    BY <1>1, <1>6, SetStatusWrites DEF LeaveUnknown
  <2>2. \/ Mine(p).status = "unknown"
        \/ StatusMoves(call[p].key, Mine(p).status, "unknown")
    BY <1>6 DEF LeaveUnknown, StatusMoves
  <2> QED
    BY <1>6, <2>1, <2>2, StillStep DEF LeaveUnknown, Wrote, Mine
<1>7. CASE Send(p)
  <2>1. CASE k = call[p].key
    <3>1. /\ posts[k] = 0 /\ k \notin wire \union landed
          /\ writes[k].status \notin {"free", "unsent"}
      BY <1>3, <1>7, <2>1 DEF SentOnce, Sending, Send
    <3>2. posts'[k] = 1 /\ k \in wire' /\ UNCHANGED <<landed, writes>>
      BY <1>1, <1>7, <2>1, <3>1 DEF Send, TypeOK
    <3> QED
      BY <3>1, <3>2 DEF KeyStep, FateMoves, FateOf
  <2>2. CASE k # call[p].key
    <3>1. posts'[k] = posts[k] /\ (k \in wire' <=> k \in wire)
          /\ UNCHANGED <<landed, writes>>
      BY <1>1, <1>7, <2>2 DEF Send, TypeOK
    <3> QED
      BY <3>1 DEF KeyStep, FateOf
  <2> QED
    BY <2>1, <2>2
<1>8. CASE NotSent(p)
  <2>1. pc[p] = "send" /\ Save(p, "unsent", None) /\ UNCHANGED <<provider, posts>>
    BY <1>8 DEF NotSent
  <2>2. FateOf(call[p].key) = "unused"
    BY <1>3, <2>1 DEF SentOnce, Sending, FateOf
  <2>3. Owns(p) => StatusMoves(call[p].key, Mine(p).status, "unsent")
    BY <1>1, <2>1, <2>2 DEF InStep, AtStatus, StatusMoves
  <2> QED
    BY <1>1, <2>1, <2>3, SavedStep
<1>9. CASE Answered(p)
  <2>1. /\ pc[p] = "answer" /\ call[p].key \in landed
        /\ Save(p, "applied", p) /\ UNCHANGED <<provider, posts>>
    BY <1>9 DEF Answered
  <2>2. FateOf(call[p].key) = "landed"
    BY <1>3, <2>1 DEF SentOnce, Sending, FateOf
  <2>3. Owns(p) => StatusMoves(call[p].key, Mine(p).status, "applied")
    BY <1>1, <2>1, <2>2 DEF InStep, AtStatus, StatusMoves
  <2> QED
    BY <1>1, <2>1, <2>3, SavedStep
<1>10. CASE Unanswered(p)
  <2>1. pc[p] = "answer" /\ Save(p, "unknown", None) /\ UNCHANGED <<provider, posts>>
    BY <1>10 DEF Unanswered
  <2>2. Owns(p) => StatusMoves(call[p].key, Mine(p).status, "unknown")
    BY <1>1, <2>1 DEF InStep, AtStatus, StatusMoves
  <2> QED
    BY <1>1, <2>1, <2>2, SavedStep
<1>11. CASE Unproved(p)
  <2>1. UNCHANGED <<provider, posts>> /\ Save(p, Mine(p).status, None)
    BY <1>11 DEF Unproved
  <2> QED
    BY <1>1, <1>2, <2>1, SavedStep DEF Write
<1>12. CASE Refused(p)
  <2>1. /\ UNCHANGED <<provider, posts>> /\ pc[p] = "answer"
        /\ call[p].key \notin wire \union landed /\ Save(p, "rejected", None)
    BY <1>12 DEF Refused
  <2>2. FateOf(call[p].key) = "refused"
    BY <1>3, <2>1 DEF SentOnce, Sending, FateOf
  <2>3. Owns(p) => StatusMoves(call[p].key, Mine(p).status, "rejected")
    BY <1>1, <2>1, <2>2 DEF InStep, AtStatus, StatusMoves
  <2> QED
    BY <1>1, <2>1, <2>3, SavedStep
<1>13. CASE Prove(p)
  <2>1. /\ UNCHANGED <<provider, posts>> /\ Owns(p) /\ Shown(p)
        /\ pc[p] \in {"prove", "scan"}
    BY <1>13 DEF Prove
  <2>2. Wrote(call[p].key, "verified", None)
    BY <1>1, <1>13, SetStatusWrites DEF Prove
  <2>3. call[p].key \in landed /\ posts[call[p].key] = 1
    BY <1>1, <1>2, <1>3, <2>1 DEF AtWork, InOrder, Asking, Shown, Keys, SentOnce
  <2>4. StatusMoves(call[p].key, Mine(p).status, "verified")
    BY <1>1, <2>1, <2>3 DEF InStep, AtStatus, StatusMoves, FateOf
  <2> QED
    BY <2>1, <2>2, <2>4, StillStep DEF Wrote, Mine
<1> QED
  BY <1>4, <1>5, <1>6, <1>7, <1>8, <1>9, <1>10, <1>11, <1>12, <1>13 DEF Execute

\* So is every other step.
LEMMA KeySteps ==
    ASSUME LifecycleInv, StatusInv, [Next]_vars, NEW k \in Keys
    PROVE  KeyStep(k)
<1>1. TypeOK /\ SentOnce(k) /\ TrueReceipt(k)
  BY DEF LifecycleInv
<1>2. ASSUME NEW p \in Processes, Begin(p) \/ PreRead(p) \/ FinalRead(p) \/ Die(p)
      PROVE  KeyStep(k)
  BY <1>2, ToolSteps, StillStep
<1>3. ASSUME NEW j \in Keys, Land(j) \/ Refuse(j)
      PROVE  KeyStep(k)
  <2>1. CASE j = k
    <3>1. posts[k] = 1 /\ k \in wire /\ k \notin landed /\ k \notin wire'
          /\ UNCHANGED <<writes, posts>>
      BY <1>1, <1>3, <2>1 DEF Land, Refuse, SentOnce, TrueReceipt
    <3> QED
      BY <3>1 DEF KeyStep, FateMoves, FateOf
  <2>2. CASE j # k
    <3>1. (k \in wire' <=> k \in wire) /\ (k \in landed' <=> k \in landed)
          /\ UNCHANGED <<writes, posts>>
      BY <1>3, <2>2 DEF Land, Refuse
    <3> QED
      BY <3>1 DEF KeyStep, FateOf
  <2> QED
    BY <2>1, <2>2
<1>4. ASSUME NEW j \in Keys, Expire(j)
      PROVE  KeyStep(k)
  <2>1. writes'[k].status = writes[k].status /\ UNCHANGED <<provider, posts>>
    BY <1>1, <1>4 DEF Expire, TypeOK, WritesTyped, Write
  <2> QED
    BY <2>1, StillStep
<1>5. CASE UNCHANGED vars \/ \E state \in States : Others(state)
  BY <1>5 DEF vars, provider, Others, KeyStep, FateOf
<1> QED
  BY <1>2, <1>3, <1>4, <1>5, ExecuteSteps DEF Next

\* Each derived key is one operation of the executor with one grant: one write
\* at most, and a receipt that follows that write's fate (server.py:133-137,
\* 432-459, 554-592 over resilience.py:184-463).
THEOREM PromiseIsKept == Spec => KeepsThePromise
<1>1. Init => StateWrite!GInit /\ CommentWrite!GInit
  BY DEF Init, StateWrite!GInit, CommentWrite!GInit, FateOf, Unclaimed, Keys
<1>2. ASSUME LifecycleInv, StatusInv, [Next]_vars
      PROVE  [StateWrite!GNext]_(StateWrite!gvars)
  <2>1. KeyStep("state")
    BY <1>2, KeySteps DEF Keys
  <2> QED
    BY <2>1
    DEF KeyStep, FateMoves, StatusMoves, StateWrite!GNext, StateWrite!gvars,
        StateWrite!Send, StateWrite!Settle, StateWrite!Turn, StateWrite!Reserve,
        StateWrite!ReleaseUnsent, StateWrite!Doubt, StateWrite!Acknowledge,
        StateWrite!Reject, StateWrite!Verify, StateWrite!Resendable
<1>3. ASSUME LifecycleInv, StatusInv, [Next]_vars
      PROVE  [CommentWrite!GNext]_(CommentWrite!gvars)
  <2>1. KeyStep("comment")
    BY <1>3, KeySteps DEF Keys
  <2> QED
    BY <2>1
    DEF KeyStep, FateMoves, StatusMoves, CommentWrite!GNext, CommentWrite!gvars,
        CommentWrite!Send, CommentWrite!Settle, CommentWrite!Turn,
        CommentWrite!Reserve, CommentWrite!ReleaseUnsent, CommentWrite!Doubt,
        CommentWrite!Acknowledge, CommentWrite!Reject, CommentWrite!Verify,
        CommentWrite!Resendable
<1> QED
  BY <1>1, <1>2, <1>3, LifecycleInvariant, StatusInvariant, PTL
  DEF Spec, KeepsThePromise, StateWrite!GSpec, CommentWrite!GSpec
=============================================================================
