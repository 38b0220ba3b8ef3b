--------------------------- MODULE MCWorkItemRecord ---------------------------
(* Small instances of WorkItemRecord: two units and the name of a third, one wave. *)
EXTENDS WorkItemRecord

CONSTANTS u1, u2, u3, w1, MaxTime

A(phase, unit, before, after, at) ==
    [phase |-> phase, unit |-> unit, wave |-> NoWave, before |-> before,
     after |-> after, at |-> at, filled |-> TRUE, explained |-> TRUE,
     context |-> "plain"]

\* What an agent may say: each phase, from the state it saw the item in, to the
\* state the contract or the operator's tool wants after it; and comments that
\* are not filled in, do not explain, or have values that HTML escapes.
Seen == {"ready", "in_progress", "blocked", "review"}
Reports == ({u1} \X (1 .. MaxTime)) \union {<<u2, MaxTime>>}
Fit ==
    {A("PROGRESS", by[1], before, "in_progress", by[2]) : by \in Reports,
        before \in Seen}
    \union {A("BLOCKED", by[1], before, after, by[2]) :
        by \in {<<u1, 1>>, <<u2, MaxTime>>},
        before \in Seen, after \in {"in_progress", "blocked"}}
    \union {A(move[1], u1, move[2], move[3], move[4]) :
        move \in {<<"START", "ready", "in_progress", 1>>,
                  <<"REVIEW", "in_progress", "review", MaxTime>>,
                  <<"FINISH", "review", "done", MaxTime>>,
                  <<"ADMIT", "backlog", "ready", 1>>,
                  <<"CANCEL", "in_progress", "cancelled", 1>>}}
Talk ==
    Fit \union
    {[A("PROGRESS", u1, "in_progress", "in_progress", 1) EXCEPT
        !.filled = FALSE],
     [A("BLOCKED", u1, "in_progress", "blocked", 1) EXCEPT !.explained = FALSE],
     [A("PROGRESS", u1, "in_progress", "in_progress", 1) EXCEPT
        !.context = "special"],
     [A("PROGRESS", u1, "in_progress", "in_progress", 1) EXCEPT !.wave = w1],
     A("PROGRESS", u3, "blocked", "in_progress", MaxTime),
     A("BLOCKED", u3, "in_progress", "blocked", MaxTime)}

\* Papers that are in order, and some that differ from them in one place.
Delivery(status, completed) ==
    [status |-> status, started |-> 1, completed |-> completed]
Good ==
    [units |-> [u \in Units |-> Delivery("delivered", 2)],
     declared |-> {w1},
     waves |-> [w \in {w1} |-> [status |-> "completed", members |-> Units,
                                started |-> 1, completed |-> 2]],
     timing |-> [mode |-> "prospective", explained |-> FALSE, opened |-> 2,
                 started |-> 5, reviewed |-> 5, closed |-> 8],
     closing |-> [described |-> TRUE, acceptance |-> "passed",
                  readback |-> "matching",
                  review |-> [passed |-> TRUE, reviewer |-> "other",
                              session |-> "other"],
                  blockers |-> FALSE, residuals |-> "accepted",
                  plan |-> TRUE, passed |-> TRUE]]
Paperwork ==
    {Good,
     [Good EXCEPT !.units = [u \in Units |->
        IF u = u1 THEN Delivery("blocked", 0) ELSE Delivery("delivered", 2)],
                  !.declared = {}],
     [Good EXCEPT !.units = [u \in Units |->
        IF u = u1 THEN Delivery("in_progress", 0) ELSE Delivery("delivered", 2)],
                  !.waves[w1].status = "in_progress", !.waves[w1].completed = 0],
     [Good EXCEPT !.units = [u \in Units |-> Delivery("pending", 0)],
                  !.declared = {}],
     [Good EXCEPT !.timing.mode = "retroactive", !.timing.explained = TRUE,
                  !.timing.opened = 6],
     [Good EXCEPT !.timing.mode = "retroactive", !.timing.explained = TRUE,
                  !.timing.opened = 6, !.timing.started = 3, !.timing.closed = 9],
     [Good EXCEPT !.timing.reviewed = 0, !.timing.closed = 2],
     [Good EXCEPT !.timing.started = 0, !.timing.reviewed = 0,
                  !.timing.closed = 0, !.closing.acceptance = "open"],
     [Good EXCEPT !.closing.review.reviewer = "handler"],
     [Good EXCEPT !.closing.readback = "other_comment"]}
=============================================================================
