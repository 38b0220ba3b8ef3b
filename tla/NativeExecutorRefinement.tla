---------------------- MODULE NativeExecutorRefinement ----------------------
(***************************************************************************)
(* The executor implements GrantedWrites: a receipt's consumed             *)
(* authorizations are the grants, the requests on the wire are their       *)
(* writes, and its statuses fold onto the eight a caller acts upon.        *)
(***************************************************************************)
EXTENDS NativeExecutor

Of(g, requests) == \E r \in requests : r.grant = g

FateOf(g) ==
    CASE ~Of(g, sent)                -> "unused"
      [] Of(g, wire)                 -> "out"
      [] Of(g, landed)               -> "landed"
      [] Of(g, refused)              -> "refused"
      [] OTHER                       -> "lost"

StatusOf(status) ==
    CASE status = "none"                                     -> "free"
      [] status = "not_sent_retryable"                       -> "unsent"
      [] status \in {"reserved", "sending"}                  -> "sending"
      [] status \in {"legacy"} \union Uncertain              -> "unknown"
      [] status = "authorized_retry"                         -> "authorized"
      [] status \in Acknowledged                             -> "applied"
      [] status = "rejected_not_applied"                     -> "rejected"
      [] status = "verified"                                 -> "verified"

Abstract == INSTANCE GrantedWrites WITH
    granted <- {0} \union receipt.consumed,
    current <- receipt.activeAuth,
    fate    <- [g \in Grants |-> FateOf(g)],
    status  <- StatusOf(receipt.status)

\* Every behaviour of the executor is one GrantedWrites allows: grants are used
\* once and the receipt's status says nothing of the writes that is not so,
\* whatever crashes or goes stale (resilience.py:194-463).
ImplementsGrantedWrites == Abstract!GSpec
=============================================================================
