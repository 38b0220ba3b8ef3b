--------------------------- MODULE ReadbackPages ---------------------------
(***************************************************************************)
(* The page loops of src/src/plane_api/client.py that read a listing back  *)
(* after a write: _verify_retrieve_readback looks for the objects written, *)
(* _verify_absence_readback for none of the object deleted, and            *)
(* _prove_module_archive_not_applied reads the archived modules and then   *)
(* the active ones.  ClassicExecutor takes their results as choices; here  *)
(* is what the results are worth.                                          *)
(*                                                                         *)
(* A page is one request.  Its answer shows a window of the provider's     *)
(* listing as it is at that moment; others insert and remove rows between  *)
(* two pages.  A cursor is the number of rows that come before the page.   *)
(* An answer also has a quality, which stands for what its checks find.    *)
(***************************************************************************)
EXTENDS Naturals, Sequences, FiniteSets

CONSTANTS
    Rows,           \* objects the provider may list
    Requests,       \* the readbacks callers may run
    PageSize,       \* rows of a page
    MaxPages,       \* max_pages of the contract
    MaxRows,        \* max_rows of the contract
    MaxChanges      \* bound: changes others make while one readback runs

\* mode: whether the contract wants its targets present (which its detail contracts
\* and its target_presence say) or absent, or the archive is reconciled.  map: a
\* relation map, which comes whole.  paged: the contract names the flag that tells
\* whether another page follows.  Every contract that asks for absence, and the
\* reconciliation, has a single target; a batch of memberships has several.
Request ==
    [mode : {"presence", "absence", "reconcile"},
     shape : {"collection", "map", "detail"}, paged : BOOLEAN,
     targets : SUBSET Rows]

ASSUME RequestsAssumption ==
    /\ Requests \subseteq Request
    /\ \A r \in Requests :
        /\ r.targets # {}
        /\ r.mode # "presence" => \E t \in Rows : r.targets = {t}
        /\ r.mode = "reconcile" => r.shape = "collection" /\ r.paged
        /\ r.shape = "map" => ~r.paged
ASSUME BoundsAssumption ==
    /\ {PageSize, MaxPages, MaxRows} \subseteq Nat \ {0}
    /\ MaxChanges \in Nat

VARIABLES
    request,        \* the readback that runs
    listing,        \* what the provider lists: the target listing of the
                    \* contract, and the active modules of a reconciliation
    scan,           \* the listing that is being read
    offset,         \* the cursor of the next page
    seen,           \* seen_cursors
    pages, count,   \* pages and rows read
    found,          \* active_found
    verdict,        \* how the readback ended
    changes,        \* how often others changed a listing
    stayed,         \* history: rows the target listing had all the time
    met,            \* history: rows the listing has had while it was read
    shifted         \* history: an unread row has moved into a page already read

provider == <<listing, changes>>
history == <<stayed, met, shifted>>
loop == <<scan, offset, seen, pages, count, found, verdict>>
vars == <<request, provider, loop, history>>

Listings == {"target", "active"}
Verdicts ==
    {"reading", "verified", "absent", "not_applied", \* conclusions
     "missing", "present", "foreign", "stale",       \* a mismatch
     "invalid", "unreachable", "unresolved"}         \* no conclusion

Elements(s) == {s[i] : i \in DOMAIN s}
IsListing(s) ==
    s \in Seq(Rows) /\ \A i, j \in DOMAIN s : s[i] = s[j] => i = j

TypeOK ==
    /\ request \in Requests
    /\ listing \in [Listings -> Seq(Rows)]
    /\ scan \in Listings
    /\ scan = "active" => request.mode = "reconcile"
    /\ offset \in Nat
    /\ seen \in SUBSET Nat
    /\ pages \in Nat /\ count \in Nat
    /\ found \in BOOLEAN
    /\ verdict \in Verdicts
    /\ changes \in Nat
    /\ stayed \subseteq Rows /\ met \subseteq Rows
    /\ shifted \in BOOLEAN

Init ==
    /\ request \in Requests
    /\ listing \in [Listings -> {s \in UNION {[1 .. n -> Rows] :
            n \in 0 .. Cardinality(Rows)} : IsListing(s)}]
    /\ request.mode # "reconcile" => listing["active"] = <<>>
    /\ scan = "target"
    /\ offset = 0 /\ seen = {} /\ pages = 0 /\ count = 0
    /\ found = FALSE
    /\ verdict = "reading"
    /\ changes = 0
    /\ stayed = Elements(listing["target"])
    /\ met = Elements(listing["target"])
    /\ shifted = FALSE

-----------------------------------------------------------------------------
(* Answers.                                                                *)

\* unexpected: a status of the 200s the contract does not expect.  drift: a
\* row does not fit the documented schema.  foreign: a row names another
\* container.  noflag: the boolean next_page_results is missing.  nocursor: the
\* next cursor is.  stuck: the next cursor leads to this page again.  bare: the
\* whole listing, without an envelope.  stale: the fields written are missing or
\* differ.  lost: an HTTP error or no answer.
Qualities ==
    {"good", "unexpected", "malformed", "drift", "foreign", "noflag",
     "nocursor", "stuck", "bare", "stale", "lost", "not_found"}

Current == listing[scan]
Detail == request.shape = "detail"
RelationMap == request.shape = "map"

\* A detail endpoint is not found when its object is gone, a listing when the
\* container is, with everything in it.
NotFound ==
    IF Detail THEN request.targets \cap Elements(Current) = {}
    ELSE Current = <<>>

\* The answers the provider can give now.
Possible(q) ==
    /\ q = "not_found" => NotFound
    /\ Detail /\ q \notin {"not_found", "lost"} => ~NotFound
    /\ q \in {"noflag", "nocursor", "stuck", "bare"} => ~Detail /\ ~RelationMap
    /\ q = "stale" => Detail

Window(q) ==
    IF Detail THEN {i \in DOMAIN Current : Current[i] \in request.targets}
    ELSE IF q = "bare" \/ RelationMap THEN DOMAIN Current
    ELSE {i \in DOMAIN Current : offset < i /\ i <= offset + PageSize}
Shown(q) == {Current[i] : i \in Window(q)}

\* Mutants (here and below, named ...Mutant) are the plausible bugs each property
\* is checked against; the specification does not use them.
AnyTargetMutant(q) == request.targets \cap Shown(q) # {}

\* _readback_contains_targets: every one of the targets on this page, or any.
ContainsTargets(q) ==
    IF request.mode = "absence" THEN request.targets \cap Shown(q) # {}
    ELSE request.targets \subseteq Shown(q)

NoCursorIsLastMutant(q) ==
    request.paged /\ ~Detail /\ q \notin {"bare", "noflag", "nocursor"}
        /\ Len(Current) > offset + PageSize

\* _has_next_page: only a contract that names the flag reads it.
HasNextPage(q) ==
    /\ request.paged /\ ~Detail
    /\ q \notin {"bare", "noflag"}
    /\ Len(Current) > offset + PageSize

\* _next_cursor, where there is one.
NextCursor(q) == IF q = "stuck" THEN offset ELSE offset + PageSize

\* _validate_response_status: a 404 is an HTTP error where it is not allowed.
StatusRefuses(q) == q \in {"unexpected", "not_found"}
RequestFails(q) ==
    q = "lost" \/ (q = "not_found" /\ request.mode = "reconcile")

NoFlagIsLastMutant(q) ==
    q \in {"malformed", "drift"} \/ (request.paged /\ q = "bare")

\* _validate_response_shape: the documented schema of the listing, which has the
\* flag where the contract names it (and in a few listings where it does not,
\* which are stricter than this).
SchemaRefuses(q) ==
    \/ q \in {"malformed", "drift"}
    \/ request.paged /\ q \in {"noflag", "bare"}

\* _validate_absence_collection_envelope: rows may have drifted.
EnvelopeRefuses(q) == q \in {"malformed", "noflag"}

\* _validate_module_reconciliation_collection: rows with an id, in an envelope.
ModulesRefused(q) == q \in {"malformed", "bare"}

InvalidFor(q) ==
    CASE scan = "active" -> ModulesRefused(q)
      [] request.mode = "absence" /\ ~Detail -> EnvelopeRefuses(q)
      [] OTHER -> SchemaRefuses(q)

\* _validate_identity_bindings: the second scan of a reconciliation has none.
Foreign(q) == q = "foreign" /\ scan = "target"

\* The error the checks before the rows raise, in their order.
Refusal(q) ==
    CASE RequestFails(q) -> "unreachable"
      [] StatusRefuses(q) -> "unresolved"
      [] InvalidFor(q) -> "invalid"
      [] Foreign(q) -> "foreign"
      [] OTHER -> "none"

-----------------------------------------------------------------------------
(* Steps of the loop: one page each.                                       *)

Reads(q) == verdict = "reading" /\ pages < MaxPages /\ Possible(q)
Evident(q) == Refusal(q) = "none" /\ ~(request.mode = "absence" /\ Detail)
\* A relation map has no rows to count.
CountWith(q) == IF RelationMap THEN count ELSE count + Cardinality(Window(q))

\* A page whose rows are compared with the targets.
Inspects(q) == Reads(q) /\ Evident(q) /\ CountWith(q) <= MaxRows

\* The rows settle the readback; the active modules are read to the end.
Settles(q) == scan = "target" /\ ContainsTargets(q)
Finds(q) == found \/ (scan = "active" /\ ContainsTargets(q))

End(v) ==
    /\ verdict' = v
    /\ pages' = pages + 1
    /\ UNCHANGED
        <<request, provider, history, scan, offset, seen, count, found>>

\* A page too many is not looked at.
PageBudget ==
    /\ verdict = "reading"
    /\ pages >= MaxPages
    /\ End("unresolved")

\* A 404 is what an absence readback hopes for.
GoneAnswer ==
    /\ Reads("not_found")
    /\ request.mode = "absence"
    /\ End("absent")

RefusedAnswer(q) ==
    /\ Reads(q)
    /\ ~(q = "not_found" /\ request.mode = "absence")
    /\ Refusal(q) # "none"
    /\ End(Refusal(q))

\* The representation of a deleted object proves nothing, and neither do more
\* rows than the contract allows.
RowBudget(q) ==
    /\ Reads(q)
    /\ Refusal(q) = "none"
    /\ Evident(q) => CountWith(q) > MaxRows
    /\ End("unresolved")

\* _validate_detail_effects
EffectsDiffer(q) == Detail /\ q = "stale"

TargetsShown(q) ==
    /\ Inspects(q)
    /\ Settles(q)
    /\ End(IF request.mode # "presence" THEN "present"
           ELSE IF EffectsDiffer(q) THEN "stale" ELSE "verified")

StuckCursor(q) ==
    /\ Inspects(q) /\ ~Settles(q)
    /\ HasNextPage(q)
    /\ q = "nocursor" \/ NextCursor(q) \in seen
    /\ End("unresolved")

NextPage(q) ==
    /\ Inspects(q) /\ ~Settles(q)
    /\ HasNextPage(q)
    /\ q # "nocursor" /\ NextCursor(q) \notin seen
    /\ pages' = pages + 1
    /\ count' = CountWith(q)
    /\ found' = Finds(q)
    /\ offset' = NextCursor(q)
    /\ seen' = seen \union {NextCursor(q)}
    /\ UNCHANGED <<request, provider, history, scan, verdict>>

\* The archived modules are read: the active ones are next, from the start.
SecondScan(q) ==
    /\ Inspects(q) /\ ~Settles(q) /\ ~HasNextPage(q)
    /\ request.mode = "reconcile" /\ scan = "target"
    /\ scan' = "active"
    /\ offset' = 0 /\ seen' = {} /\ pages' = 0 /\ count' = 0
    /\ met' = Elements(listing["active"])
    /\ UNCHANGED <<request, provider, found, verdict, stayed, shifted>>

LastPage(q) ==
    /\ Inspects(q) /\ ~Settles(q) /\ ~HasNextPage(q)
    /\ request.mode = "reconcile" => scan = "active"
    /\ End(CASE request.mode = "absence" -> "absent"
             [] request.mode = "reconcile" /\ Finds(q) -> "not_applied"
             [] OTHER -> "missing")

-----------------------------------------------------------------------------
(* What others do to the listings meanwhile.                               *)

Changing == verdict = "reading" /\ changes < MaxChanges
    /\ changes' = changes + 1 /\ UNCHANGED <<request, loop>>

Without(s, k) ==
    [i \in 1 .. Len(s) - 1 |-> IF i < k THEN s[i] ELSE s[i + 1]]
With(s, k, row) ==
    [i \in 1 .. Len(s) + 1 |->
        IF i < k THEN s[i] ELSE IF i = k THEN row ELSE s[i - 1]]

Remove(l, k) ==
    /\ Changing
    /\ k \in DOMAIN listing[l]
    /\ listing' = [listing EXCEPT ![l] = Without(@, k)]
    /\ stayed' = IF l = "target" THEN stayed \ {listing[l][k]} ELSE stayed
    /\ shifted' = (shifted \/ (l = "target" /\ scan = "target" /\ k <= offset))
    /\ UNCHANGED met

Insert(l, k, row) ==
    /\ Changing
    /\ row \notin Elements(listing[l])
    /\ listing' = [listing EXCEPT ![l] = With(@, k, row)]
    /\ met' = IF l = scan THEN met \union {row} ELSE met
    /\ UNCHANGED <<stayed, shifted>>

ListingsUsed ==
    IF request.mode = "reconcile" THEN Listings ELSE {"target"}

Next ==
    \/ PageBudget \/ GoneAnswer
    \/ \E q \in Qualities :
        \/ RefusedAnswer(q) \/ RowBudget(q) \/ TargetsShown(q)
        \/ StuckCursor(q) \/ NextPage(q) \/ SecondScan(q) \/ LastPage(q)
    \/ \E l \in ListingsUsed : \E k \in 1 .. Len(listing[l]) : Remove(l, k)
    \/ \E l \in ListingsUsed : \E k \in 1 .. Len(listing[l]) + 1 :
        \E row \in Rows : Insert(l, k, row)

Spec == Init /\ [][Next]_vars

-----------------------------------------------------------------------------
(* Properties.                                                             *)

\* The contracts whose listing is read page by page, or whole, or not at all.
Exhaustive == request.paged \/ RelationMap \/ Detail

\* An absence that is certified (verified_absence, or the archive that was not
\* applied) is true: a target that was listed all the time the pages were read
\* would have been seen, whatever was inserted meanwhile, unless a row of a page
\* already read went away and moved it up.  And a module whose archive is
\* certified as not applied has been among the active ones.
AbsenceIsHonest ==
    /\ verdict = "absent" /\ Exhaustive /\ ~shifted =>
        request.targets \cap stayed = {}
    /\ verdict = "not_applied" =>
        /\ ~shifted => request.targets \cap stayed = {}
        /\ request.targets \subseteq met

\* A write is verified only when every object it wrote was listed at one moment
\* after it, and not when each was listed at some time.
PresenceIsReal ==
    [][(verdict' = "verified" /\ verdict # "verified") =>
        request.targets \subseteq Elements(listing["target"])]_vars

\* A readback says that the object is missing only when it has not been listed
\* all the time: pages that come and go do not hide it.
MissingIsMissing ==
    verdict = "missing" /\ request.mode = "presence" /\ request.paged
        /\ (\E t \in Rows : request.targets = {t}) /\ ~shifted =>
            request.targets \cap stayed = {}
=============================================================================
