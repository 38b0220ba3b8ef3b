-------------------------- MODULE MCReadbackPages --------------------------
(* Small instances of ReadbackPages: two targets and one other row. *)
EXTENDS ReadbackPages

CONSTANTS t1, t2, r1

Contract(mode, shape, paged, targets) ==
    [mode |-> mode, shape |-> shape, paged |-> paged, targets |-> targets]

\* One contract of each kind the registry has.
EachContract ==
    {Contract("presence", "collection", TRUE, {t1, t2}),
     Contract("presence", "collection", TRUE, {t1}),
     Contract("presence", "collection", FALSE, {t1}),
     Contract("presence", "map", FALSE, {t1, t2}),
     Contract("presence", "detail", FALSE, {t1}),
     Contract("absence", "collection", TRUE, {t1}),
     Contract("absence", "collection", FALSE, {t1}),
     Contract("absence", "map", FALSE, {t1}),
     Contract("absence", "detail", FALSE, {t1}),
     Contract("reconcile", "collection", TRUE, {t1})}
=============================================================================
