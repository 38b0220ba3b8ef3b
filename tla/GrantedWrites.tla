---------------------------- MODULE GrantedWrites ----------------------------
(***************************************************************************)
(* What the durable executor promises about one operation, with leases,    *)
(* fences, crashes and retries left out: writes are spent against grants,  *)
(* and the operation's status says no more than is true of them.           *)
(*                                                                         *)
(* The first reservation is a grant and so is every operator authorization *)
(* an execution consumes.  Each grant sends at most one write that may     *)
(* reach the provider, which applies, refuses or loses it at any later     *)
(* time.  A stale owner may send after everyone else has gone on: every    *)
(* status but the ones that offer a plain resend has to live with that.    *)
(***************************************************************************)
EXTENDS Naturals

CONSTANT Grants   \* the grants an operation can ever have; 0 is the first

VARIABLES
    granted,   \* the grants given so far
    current,   \* the last of them
    fate,      \* what became of each grant's write
    status     \* what the operation's receipt tells a caller

gvars == <<granted, current, fate, status>>

Resendable == {"free", "unsent"}

\* An operation starts unsent, or as a historical write already on its way.
GInit ==
    /\ granted = {0} /\ current = 0
    /\ \/ status = "free" /\ fate = [g \in Grants |-> "unused"]
       \/ /\ status = "unknown"
          /\ fate = [g \in Grants |-> IF g = 0 THEN "out" ELSE "unused"]

-----------------------------------------------------------------------------
(* The writes.                                                             *)

Send(g) ==
    /\ g \in granted /\ fate[g] = "unused"
    /\ g = current => status \notin Resendable
    /\ fate' = [fate EXCEPT ![g] = "out"]
    /\ UNCHANGED <<granted, current, status>>

Settle(g, outcome) ==
    /\ fate[g] = "out"
    /\ fate' = [fate EXCEPT ![g] = outcome]
    /\ UNCHANGED <<granted, current, status>>

-----------------------------------------------------------------------------
(* The status.                                                             *)

Turn(old, new) ==
    /\ status \in old
    /\ status' = new
    /\ UNCHANGED <<granted, current, fate>>

Reserve == Turn(Resendable, "sending")

\* Nothing of the present grant has left: the next call may simply send.
ReleaseUnsent == Turn({"sending"}, "unsent") /\ fate[current] = "unused"

Doubt == Turn({"sending"}, "unknown")

Acknowledge == Turn({"sending"}, "applied") /\ fate[current] = "landed"

Reject == Turn({"sending"}, "rejected") /\ fate[current] = "refused"

\* Any write of the operation proves its effect, an earlier grant's included.
Verify ==
    /\ Turn({"applied", "unknown"}, "verified")
    /\ \E g \in granted : fate[g] = "landed"

Authorize == Turn({"unknown"}, "authorized")

Grant(g) ==
    /\ status = "authorized"
    /\ g \notin granted
    /\ granted' = granted \union {g} /\ current' = g
    /\ status' = "sending"
    /\ UNCHANGED fate

-----------------------------------------------------------------------------
GNext ==
    \/ \E g \in Grants : Grant(g) \/ Send(g)
    \/ \E g \in Grants, outcome \in {"landed", "refused", "lost"} :
            Settle(g, outcome)
    \/ Reserve \/ ReleaseUnsent \/ Doubt \/ Acknowledge \/ Reject \/ Verify
    \/ Authorize

GSpec == GInit /\ [][GNext]_gvars

-----------------------------------------------------------------------------
\* What follows for whoever reads the status: a resend duplicates nothing, an
\* acknowledgment and a rejection are those of the last write, a verdict stands
\* on a write that was applied.
Honest ==
    /\ status \in Resendable => fate[current] = "unused"
    /\ status = "applied" => fate[current] = "landed"
    /\ status = "rejected" => fate[current] = "refused"
    /\ status = "verified" => \E g \in granted : fate[g] = "landed"
=============================================================================
