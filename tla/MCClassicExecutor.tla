-------------------------- MODULE MCClassicExecutor --------------------------
(* Small instances of ClassicExecutor: one mutation of each kind, and an issue
   update, which nothing reconciles. *)
EXTENDS ClassicExecutor, TLC

CONSTANTS bind, archive, update, edit

OneOfEach == bind :> "ack" @@ archive :> "listing" @@ update :> "detail"
    @@ edit :> "detail"
=============================================================================
