--------------------------- MODULE WorkItemRecord ---------------------------
(***************************************************************************)
(* How the record of a work item comes about: the tools of                 *)
(* src/src/plane_mcp_karval/server.py post its lifecycle comments and move *)
(* the item, others move it too, and in the end somebody fills in the rest *)
(* of the document and has it validated.  The document the contract judges *)
(* is made of the comments posted, the state the item is in and those      *)
(* papers.                                                                 *)
(*                                                                         *)
(* The tools' writes succeed here: what becomes of them when they do not   *)
(* is OperatorLifecycle's subject.                                         *)
(***************************************************************************)
EXTENDS WorkItemContract

CONSTANTS
    UsedStates,     \* states of the project
    Remarks,        \* comments agents come up with
    Filings,        \* papers they may file
    NoPapers,       \* not filed yet
    MaxComments     \* bound: comments of a record

ASSUME RecordAssumption ==
    /\ UsedStates \subseteq AllowedStates /\ Remarks \subseteq Comment
    /\ Filings \subseteq Papers /\ NoPapers \notin Papers
    /\ MaxComments \in Nat

VARIABLES
    item,           \* state of the work item at the provider
    comments,       \* lifecycle comments on it, oldest first
    papers,         \* the other sections of the document
    outcome         \* how the last call of a tool ended

vars == <<item, comments, papers, outcome>>

Outcomes == {"none", "posted", "refused", "raised after the move"}

TypeOK ==
    /\ item \in UsedStates
    /\ comments \in Seq(Comment)
    /\ papers \in Papers \union {NoPapers}
    /\ outcome \in Outcomes

Init ==
    /\ item \in UsedStates
    /\ comments = <<>>
    /\ papers = NoPapers
    /\ outcome = "none"

\* The document that is validated.
Doc == [state |-> item, comments |-> comments, papers |-> papers]

\* Bound: a record is continued only as long as later comments can make it pass.
Continues(c) ==
    /\ papers = NoPapers /\ Len(comments) < MaxComments
    /\ Renders(c) => CommentsPass(Append(comments, c))

Post(c) == comments' = Append(comments, c) /\ UNCHANGED papers

-----------------------------------------------------------------------------
(* The tools.                                                              *)

\* _V3_TRANSITIONS
Transitions(phase) ==
    CASE phase = "ADMIT" -> {<<"backlog", "ready">>}
      [] phase = "START" -> {<<"ready", "in_progress">>}
      [] phase = "REVIEW" -> {<<"in_progress", "review">>}
      [] phase = "FINISH" -> {<<"review", "done">>}
      [] phase = "CANCEL" ->
            {"backlog", "ready", "in_progress", "review"} \X {"cancelled"}
      [] phase \in {"PROGRESS", "BLOCKED"} -> {<<"in_progress", "in_progress">>}
      [] OTHER -> {}

\* _validate_v3_operator_comment
OperatorAccepts(c) ==
    /\ <<c.before, c.after>> \in Transitions(c.phase)
    /\ c.phase = "BLOCKED" => c.explained

\* plane_operator_lifecycle_transition: the state first, then the comment, which
\* is rendered only now.  The states of the item are compared by their ids: nothing
\* ties them to the ones the comment names.
OperatorTransition(c, target) ==
    /\ Continues(c)
    /\ OperatorAccepts(c)
    /\ c.phase \in {"PROGRESS", "BLOCKED"} <=> target = item
    /\ item' = target
    /\ IF Renders(c) THEN Post(c) /\ outcome' = "posted"
       ELSE /\ UNCHANGED <<comments, papers>>
            /\ outcome' = IF target = item THEN "refused"
                          ELSE "raised after the move"

\* plane_add_lifecycle_comment renders first and moves nothing.
AddLifecycleComment(c) ==
    /\ Continues(c)
    /\ IF Renders(c) THEN Post(c) /\ outcome' = "posted"
       ELSE UNCHANGED <<comments, papers>> /\ outcome' = "refused"
    /\ UNCHANGED item

\* A state alone, with plane_mutation_action or by other people.
MoveItem(state) ==
    /\ papers = NoPapers /\ state # item
    /\ item' = state
    /\ outcome' = "none"
    /\ UNCHANGED <<comments, papers>>

\* The rest of the document is filled in.
FilePapers(p) ==
    /\ papers = NoPapers
    /\ papers' = p
    /\ outcome' = "none"
    /\ UNCHANGED <<item, comments>>

Next ==
    \/ \E c \in Remarks :
        \/ AddLifecycleComment(c)
        \/ \E target \in UsedStates : OperatorTransition(c, target)
    \/ \E state \in UsedStates : MoveItem(state)
    \/ \E p \in Filings : FilePapers(p)

Spec == Init /\ [][Next]_vars

-----------------------------------------------------------------------------
(* Properties.                                                             *)

ValidDone(d) == d.state \in DoneStates /\ Valid(d)

\* The lifecycle the comments of a finished item tell: a start out of ready, then
\* work on units, each interruption followed by more work on its unit, then the
\* one review and at once the finish, each comment from the state the one before
\* it led to.
Story(told) ==
    /\ Len(told) > 3
    /\ told[1].phase = "START" /\ told[1].before = "ready"
    /\ \A i \in 2 .. Len(told) - 2 : told[i].phase \in {"PROGRESS", "BLOCKED"}
    /\ told[Len(told) - 1].phase = "REVIEW"
    /\ told[Len(told) - 1].before = "in_progress"
    /\ told[Len(told)].phase = "FINISH"
    /\ \A i \in 1 .. Len(told) - 1 : told[i].after = told[i + 1].before
    /\ \A i \in DOMAIN told : told[i].phase = "BLOCKED" =>
        \E j \in i + 1 .. Len(told) - 2 :
            told[j].phase = "PROGRESS" /\ told[j].unit = told[i].unit

\* A document passes as done only if its comments tell a lifecycle from start to
\* finish in which every unit was worked on, and the person who reviewed it is
\* not the one who did it.  validate_document() says so in many rules, none of
\* which says it alone (plane_work_item_contract.py:755-886).
DoneIsEarned ==
    papers # NoPapers /\ ValidDone(Doc) =>
        /\ Story(comments)
        /\ \A u \in Units : \E i \in DOMAIN comments :
            comments[i].phase = "PROGRESS" /\ comments[i].unit = u
        /\ papers.closing.review.reviewer # "handler"

NonNegative(durations) == \A n \in durations : n >= 0

\* What the timing metrics of a document that passes as done say is sound: no
\* cycle is negative or longer than one it is part of; the time to start is not
\* negative, or not positive if the item was registered after the fact; the time
\* to start and the implementation make up the issue cycle, up to the second that
\* is lost where each of them drops its fraction; and the comments are in the
\* order of their times (plane_work_item_contract.py:408-530).
MetricsAreSound ==
    papers # NoPapers /\ ValidDone(Doc) =>
        /\ NonNegative(IssueCycle(Doc)) /\ NonNegative(UnitDurations(Doc))
        /\ NonNegative(WaveDurations(Doc))
        /\ ImplementationCycle(Doc) # {} /\ ReviewCycle(Doc) # {}
        /\ \A whole \in ImplementationCycle(Doc), part \in ReviewCycle(Doc) :
            0 <= part /\ part <= whole
        /\ TimeToStart(Doc) # {}
        /\ \A start \in TimeToStart(Doc), whole \in IssueCycle(Doc),
                work \in ImplementationCycle(Doc) :
            IF papers.timing.mode = "retroactive"
            THEN start <= 0 /\ whole - (start + work) \in {-1, 0}
            ELSE start >= 0 /\ whole - (start + work) \in {0, 1}
        /\ \A i, j \in DOMAIN comments : i < j => comments[i].at <= comments[j].at

-----------------------------------------------------------------------------
(* How a record goes on to the end, if all goes well from here.            *)

\* The units one after the other, in any order.
Order ==
    CHOOSE s \in [1 .. Cardinality(Named) -> Named] :
        \A i, j \in DOMAIN s : s[i] = s[j] => i = j

LastAt == IF comments = <<>> THEN 1 ELSE comments[Len(comments)].at
LastState == IF comments = <<>> THEN "ready" ELSE comments[Len(comments)].after

Remark(phase, unit, before, after) ==
    [phase |-> phase, unit |-> unit, wave |-> NoWave, before |-> before,
     after |-> after, at |-> LastAt, filled |-> TRUE, explained |-> TRUE,
     context |-> "plain"]

Start ==
    IF comments # <<>> THEN <<>>
    ELSE <<Remark("START", Order[1], "ready", "in_progress")>>
Work ==
    [i \in DOMAIN Order |-> Remark("PROGRESS", Order[i],
        IF i = 1 /\ comments # <<>> THEN LastState ELSE "in_progress",
        "in_progress")]
Review == <<Remark("REVIEW", Order[1], "in_progress", "review")>>
Finish(before) == <<Remark("FINISH", Order[1], before, "done")>>

\* A time after all others.
Late(p) ==
    1 + p.timing.opened + p.timing.started + p.timing.reviewed
      + p.timing.closed
Begun(p) ==
    IF p.timing.started # 0 THEN p.timing.started
    ELSE IF p.timing.mode = "retroactive" THEN p.timing.opened - 1
    ELSE p.timing.opened

\* Every unit delivered, the review passed, what the item needs to be closed.
InGoodOrder(p) ==
    [units |-> [u \in Units |->
        [status |-> "delivered", started |-> 1, completed |-> 1]],
     declared |-> p.declared, waves |-> p.waves,
     timing |-> [p.timing EXCEPT !.started = Begun(p), !.reviewed = Late(p),
                                 !.closed = Late(p)],
     closing |->
        [described |-> TRUE, acceptance |-> "passed", readback |-> "matching",
         review |-> [passed |-> TRUE, reviewer |-> "other",
                     session |-> "other"],
         blockers |-> FALSE, residuals |-> "none", plan |-> TRUE,
         passed |-> TRUE]]

Finished ==
    [state |-> "done", papers |-> InGoodOrder(papers),
     comments |->
        IF item \in ReviewStates THEN comments \o Finish(LastState)
        ELSE comments \o Start \o Work \o Review \o Finish("review")]

\* The contract leaves no dead end: whatever record passes on the way, however
\* often units were interrupted and in whatever state the item is, it can still
\* be continued into one that passes as done.  The exception is a record that
\* went to review with a unit nobody had reported on: its PROGRESS would come
\* too late (plane_work_item_contract.py:820-843).
CanStillFinish ==
    /\ papers # NoPapers /\ Valid(Doc)
    /\ item \in ReviewStates =>
        item \notin DoneStates /\ Units \subseteq Progressed(Doc)
    => Valid(Finished)

\* The docstring of the operator's tool (server.py:494) has partial outcomes
\* returned: a call whose move was made does not end with an exception.
PartialsAreReturned == outcome # "raised after the move"
=============================================================================
