-------------------------- MODULE WorkItemContract --------------------------
(***************************************************************************)
(* The rules of src/src/plane_mcp_karval/plane_work_item_contract.py: what *)
(* validate_document() accepts as the record of a governed work item, what *)
(* _validate_comment() accepts as one lifecycle comment, and what          *)
(* calculate_timing_metrics() derives.  A list of errors is modelled by    *)
(* whether it is empty: one operator for each function, or for each part   *)
(* of validate_document, and Valid for their conjunction.                  *)
(*                                                                         *)
(* Texts, identifiers and evidence are reduced to whether their checks     *)
(* pass; a time is a number of ticks, 0 where the field is empty, and a    *)
(* second has PerSecond of them (microseconds, in the code).  State names  *)
(* are what _normalize_state() makes of them.                              *)
(***************************************************************************)
EXTENDS Integers, Sequences, FiniteSets

CONSTANTS
    Units,          \* execution units of the work item
    Named,          \* units a comment may name, of the work item or not
    Waves,          \* waves a document may declare
    NoWave,         \* a comment that belongs to none
    PerSecond       \* ticks in a second

ASSUME UnitsAssumption ==
    IsFiniteSet(Named) /\ Units \subseteq Named /\ Units # {}
ASSUME NoWaveAssumption == NoWave \notin Waves
ASSUME PerSecondAssumption == PerSecond \in Nat \ {0}

Phases == {"START", "PROGRESS", "BLOCKED", "REVIEW", "FINISH"}
DoneStates == {"done", "completed"}
ReviewStates == {"review", "review_qa", "qa"} \union DoneStates
ActiveStates == {"in_progress"} \union ReviewStates
GatedStates == {"ready"} \union ActiveStates
AllowedStates ==
    {"backlog", "draft", "blocked", "canceled", "cancelled"} \union GatedStates

\* PHASE_STATE_AFTER
StatesAfter(phase) ==
    CASE phase \in {"START", "PROGRESS"} -> {"in_progress"}
      [] phase = "BLOCKED" -> {"blocked"}
      [] phase = "REVIEW" -> ReviewStates \ DoneStates
      [] phase = "FINISH" -> DoneStates
      [] OTHER -> {}

-----------------------------------------------------------------------------
(* Documents.                                                              *)

\* filled: the texts, the evidence, the context and the ids of the comment
\* pass.  explained: it names a blocker, its impact and what would lift it.
\* context: special if the body is HTML and a value of agent_context has a
\* character that HTML escapes (in a Markdown body none is).
Comment ==
    [phase : Phases \union {"ADMIT", "CANCEL"}, unit : Named,
     wave : Waves \union {NoWave}, before : AllowedStates,
     after : AllowedStates, at : Nat \ {0}, filled : BOOLEAN,
     explained : BOOLEAN, context : {"plain", "special"}]

Unit ==
    [status : {"pending", "in_progress", "blocked", "delivered", "cancelled"},
     started : Nat, completed : Nat]

Wave ==
    [status : {"pending", "in_progress", "blocked", "completed", "cancelled"},
     members : SUBSET Units, started : Nat, completed : Nat]

\* There is always a time before an issue was opened.
Timing ==
    [mode : {"prospective", "retroactive"}, explained : BOOLEAN,
     opened : Nat \ {1}, started : Nat, reviewed : Nat, closed : Nat]

\* The sections that close a document.  described: every field of the work item
\* that has nothing to do with its lifecycle passes.  readback: what the receipt
\* of the provider is a receipt of.
Closing ==
    [described : BOOLEAN,
     acceptance : {"none", "open", "passed"},
     readback : {"none", "other_item", "not_done", "other_comment", "matching"},
     review : [passed : BOOLEAN, reviewer : {"handler", "other"},
               session : {"execution", "other"}],
     blockers : BOOLEAN,
     residuals : {"none", "open", "accepted"},
     plan : BOOLEAN, passed : BOOLEAN]

\* All of a document but its state and its comments.
Papers ==
    [units : [Units -> Unit], declared : SUBSET Waves, waves : [Waves -> Wave],
     timing : Timing, closing : Closing]

Document ==
    [state : AllowedStates, comments : Seq(Comment), papers : Papers]

Indices(d, phase) ==
    {i \in DOMAIN d.comments : d.comments[i].phase = phase}
Delivered(d) == {u \in Units : d.papers.units[u].status = "delivered"}
Progressed(d) == {d.comments[i].unit : i \in Indices(d, "PROGRESS")}

InOrder(first, second) == first # 0 /\ second # 0 => first <= second

-----------------------------------------------------------------------------
(* One comment.                                                            *)

\* Mutants (here and below, named ...Mutant) are the plausible bugs each property
\* is checked against; the specification does not use them.

\* _validate_comment, without the body.
CommentRules(c) ==
    /\ c.phase \in Phases
    /\ c.filled
    /\ c.phase = "START" => c.before = "ready"
    /\ c.after \in StatesAfter(c.phase)
    /\ c.phase = "BLOCKED" => c.explained

\* html.escape() of a value, so often.
Escaped(context, times) ==
    IF context = "plain" THEN <<context, 0>> ELSE <<context, times>>

\* The body render_comment() makes shows a value escaped once.  It is looked for
\* by _body_literal() and then _code_needle(), and for HTML both escape it.
BodyRules(c) == Escaped(c.context, 1) = Escaped(c.context, 2)

\* render_comment() raises for a comment that fails its rules; the sections of its
\* body always render.
Renders(c) == CommentRules(c)

\* The rules for a sequence of comments, which no later comment can repair.
CommentsPass(comments) ==
    /\ \A i \in DOMAIN comments :
        /\ CommentRules(comments[i]) /\ BodyRules(comments[i])
        /\ i = 1 <=> comments[i].phase = "START"
    /\ \A i \in DOMAIN comments : i + 1 \in DOMAIN comments =>
        /\ comments[i].after = comments[i + 1].before
        /\ comments[i].at <= comments[i + 1].at

-----------------------------------------------------------------------------
(* The parts of a document.                                                *)

UnitRules(d) ==
    \A u \in Units : LET unit == d.papers.units[u] IN
        /\ unit.status \in {"in_progress", "blocked", "delivered"} =>
            unit.started # 0
        /\ unit.status = "delivered" => unit.completed # 0
        /\ unit.status \in {"pending", "in_progress", "blocked"} =>
            unit.completed = 0
        /\ InOrder(unit.started, unit.completed)

\* _validate_waves
WaveRules(d) ==
    /\ \A w \in d.papers.declared : LET wave == d.papers.waves[w] IN
        /\ wave.members # {}
        /\ wave.status = "completed" =>
            wave.members \subseteq Delivered(d) /\ wave.completed # 0
        /\ wave.status \in {"in_progress", "blocked", "completed"} =>
            wave.started # 0
        /\ wave.status \in {"pending", "in_progress", "blocked"} =>
            wave.completed = 0
        /\ InOrder(wave.started, wave.completed)
    /\ \A i \in DOMAIN d.comments :
        d.comments[i].wave \in {NoWave} \union d.papers.declared

ReviewUntimedMutant(d) ==
    LET t == d.papers.timing IN
    /\ t.opened # 0
    /\ d.state \in ActiveStates => t.started # 0
    /\ d.state \in DoneStates => t.closed # 0
    /\ t.mode = "prospective" => InOrder(t.opened, t.started)
    /\ t.mode = "retroactive" =>
        /\ t.explained
        /\ t.started # 0 => t.started < t.opened
    /\ InOrder(t.started, t.reviewed)
    /\ InOrder(t.reviewed, t.closed)
    /\ InOrder(t.opened, t.closed)

\* _validate_timing
TimingRules(d) ==
    LET t == d.papers.timing IN
    /\ t.opened # 0
    /\ d.state \in ActiveStates => t.started # 0
    /\ d.state \in ReviewStates => t.reviewed # 0
    /\ d.state \in DoneStates => t.closed # 0
    /\ t.mode = "prospective" => InOrder(t.opened, t.started)
    /\ t.mode = "retroactive" =>
        /\ t.explained
        /\ t.started # 0 => t.started < t.opened
    /\ InOrder(t.started, t.reviewed)
    /\ InOrder(t.reviewed, t.closed)
    /\ InOrder(t.opened, t.closed)

StartRules(d) ==
    d.state \in ActiveStates => Indices(d, "START") # {}

\* A blocked item has one BLOCKED comment, of a unit that is blocked.
BlockedRules(d) ==
    d.state = "blocked" => \E i \in Indices(d, "BLOCKED") :
        /\ Indices(d, "BLOCKED") = {i}
        /\ d.comments[i].unit \in Units
        /\ d.papers.units[d.comments[i].unit].status = "blocked"

\* After a BLOCKED comment the unit goes on before the review.
Resumed(d, i, review) ==
    \E j \in Indices(d, "PROGRESS") :
        i < j /\ j < review /\ d.comments[j].unit = d.comments[i].unit

ReviewedTwiceMutant(d) ==
    /\ d.state \in ReviewStates =>
        /\ \E r \in Indices(d, "REVIEW") :
            /\ Indices(d, "REVIEW") = {r}
            /\ \A i \in Indices(d, "PROGRESS") : i < r
            /\ \A i \in Indices(d, "BLOCKED") : Resumed(d, i, r)
        /\ Delivered(d) \subseteq Progressed(d)

NeverResumedMutant(d) ==
    /\ d.state \notin ReviewStates => Indices(d, "REVIEW") = {}
    /\ d.state \in ReviewStates =>
        /\ \E r \in Indices(d, "REVIEW") :
            /\ Indices(d, "REVIEW") = {r}
            /\ \A i \in Indices(d, "PROGRESS") : i < r
        /\ Delivered(d) \subseteq Progressed(d)

\* One review, after all the work it is a review of.
ReviewRules(d) ==
    /\ d.state \notin ReviewStates => Indices(d, "REVIEW") = {}
    /\ d.state \in ReviewStates =>
        /\ \E r \in Indices(d, "REVIEW") :
            /\ Indices(d, "REVIEW") = {r}
            /\ \A i \in Indices(d, "PROGRESS") : i < r
            /\ \A i \in Indices(d, "BLOCKED") : Resumed(d, i, r)
        /\ Delivered(d) \subseteq Progressed(d)

\* _validate_provider_readback
ReadbackRules(d) == d.papers.closing.readback = "matching"

\* _validate_independent_review
IndependentReview(d) ==
    d.papers.closing.review =
        [passed |-> TRUE, reviewer |-> "other", session |-> "other"]

DoneRules(d) ==
    /\ d.state \notin DoneStates => Indices(d, "FINISH") = {}
    /\ d.state \in DoneStates =>
        /\ Indices(d, "FINISH") = {Len(d.comments)}
        /\ Delivered(d) = Units
        /\ ReadbackRules(d) /\ IndependentReview(d)
        /\ d.papers.closing.acceptance = "passed"
        /\ ~d.papers.closing.blockers
        /\ d.papers.closing.residuals # "open"
        /\ d.papers.closing.passed

\* Acceptance criteria and a plan for the review, from ready on.
GateRules(d) ==
    d.state \in GatedStates =>
        d.papers.closing.acceptance # "none" /\ d.papers.closing.plan

\* validate_document() returns no error.
Valid(d) ==
    /\ d.papers.closing.described
    /\ CommentsPass(d.comments)
    /\ UnitRules(d) /\ WaveRules(d) /\ TimingRules(d)
    /\ StartRules(d) /\ BlockedRules(d) /\ ReviewRules(d) /\ DoneRules(d)
    /\ GateRules(d)

-----------------------------------------------------------------------------
(* calculate_timing_metrics(): a duration where both times are known.      *)

\* int() of a number of seconds drops the fraction.
Seconds(ticks) ==
    IF ticks >= 0 THEN ticks \div PerSecond ELSE -((-ticks) \div PerSecond)

\* _elapsed_seconds
Elapsed(start, end) ==
    IF start = 0 \/ end = 0 THEN {} ELSE {Seconds(end - start)}

IssueCycle(d) == Elapsed(d.papers.timing.opened, d.papers.timing.closed)
ImplementationCycle(d) ==
    Elapsed(d.papers.timing.started, d.papers.timing.closed)
ReviewCycle(d) == Elapsed(d.papers.timing.reviewed, d.papers.timing.closed)
TimeToStart(d) == Elapsed(d.papers.timing.opened, d.papers.timing.started)
UnitDurations(d) ==
    UNION {Elapsed(d.papers.units[u].started, d.papers.units[u].completed) :
            u \in Units}
WaveDurations(d) ==
    UNION {Elapsed(d.papers.waves[w].started, d.papers.waves[w].completed) :
            w \in d.papers.declared}
=============================================================================
