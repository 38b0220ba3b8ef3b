----------------------------- MODULE ApprovedCalls -----------------------------
(***************************************************************************)
(* What the operator broker promises, with its threads, its retention, its *)
(* snapshots and its restarts left out: a provider call needs an approval  *)
(* of the operator that is not older than the machine's last boot, neither *)
(* an approval nor a key serves two calls, and the work item a call writes *)
(* to is closed to others until the call is cleared, which it is not while *)
(* its write may still be applied.                                         *)
(***************************************************************************)
EXTENDS Naturals

CONSTANTS
    Ids,        \* requests an operator may approve
    Keys,       \* idempotency keys
    Targets     \* work items

VARIABLES
    now,        \* the machine's boot
    approved,   \* the approvals given, each under its boot
    called,     \* the provider calls made
    out,        \* those whose write may still be applied
    doubt       \* those that are not cleared

avars == <<now, approved, called, out, doubt>>

AInit ==
    /\ now = 1
    /\ approved = {} /\ called = {} /\ out = {} /\ doubt = {}

\* Calls are cleared, none of them under way.
Clearing == doubt' \subseteq doubt /\ out \subseteq doubt'

Approve(i) ==
    /\ approved' = approved \union {[id |-> i, boot |-> now]}
    /\ Clearing
    /\ UNCHANGED <<now, called, out>>

Clear ==
    /\ Clearing
    /\ UNCHANGED <<now, approved, called, out>>

CallProvider(i, k, t) ==
    /\ [id |-> i, boot |-> now] \in approved
    /\ \A c \in called : c.id # i /\ c.key # k
    /\ \A c \in doubt : c.target # t
    /\ LET call == [id |-> i, key |-> k, target |-> t, boot |-> now] IN
        /\ called' = called \union {call}
        /\ out' = out \union {call}
        /\ doubt' = doubt \union {call}
    /\ UNCHANGED <<now, approved>>

\* The provider is done with a call, or its effect was seen.
Return(c) ==
    /\ out' = out \ {c}
    /\ UNCHANGED <<now, approved, called, doubt>>

\* The approvals given before lapse.
Reboot ==
    /\ now' = now + 1
    /\ UNCHANGED <<approved, called, out, doubt>>

ANext ==
    \/ \E i \in Ids : Approve(i)
    \/ Clear
    \/ \E i \in Ids, k \in Keys, t \in Targets : CallProvider(i, k, t)
    \/ \E c \in out : Return(c)
    \/ Reboot

ASpec == AInit /\ [][ANext]_avars

-----------------------------------------------------------------------------
\* What follows for the operator: an approval and a key serve one call each, a
\* work item has at most one call that is not cleared, and what may still be
\* applied is among those.
Exclusive ==
    /\ out \subseteq doubt /\ doubt \subseteq called
    /\ \A c, d \in called : c.id = d.id \/ c.key = d.key => c = d
    /\ \A c, d \in doubt : c.target = d.target => c = d
    /\ \A c \in called : [id |-> c.id, boot |-> c.boot] \in approved
=============================================================================
