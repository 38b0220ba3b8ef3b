------------------------ MODULE ReadbackPagesProofs ------------------------
(***************************************************************************)
(* Absence read page by page is honest, for every listing, page size and   *)
(* budget, however others insert and remove rows while the pages are read. *)
(*                                                                         *)
(* The argument is one sentence: as long as the loop reads, each target    *)
(* that has stayed in the listing lies beyond the cursor.  A page that     *)
(* does not show it moves the cursor by at most that page; an insertion    *)
(* moves it away from the cursor; only a removal before the cursor moves   *)
(* it towards it, and that is what "shifted" records.                      *)
(***************************************************************************)
EXTENDS ReadbackPages, FiniteSetTheorems, SequenceTheorems, TLAPS

-----------------------------------------------------------------------------
(* Listings.                                                               *)

\* Dropping a row keeps every other row, at its place or one before it.
LEMMA WithoutKeeps ==
    ASSUME NEW s \in Seq(Rows), NEW k \in 1 .. Len(s)
    PROVE  /\ Without(s, k) \in Seq(Rows)
           /\ Len(Without(s, k)) = Len(s) - 1
           /\ \A i \in 1 .. Len(s) : i < k =>
                i \in 1 .. Len(s) - 1 /\ Without(s, k)[i] = s[i]
           /\ \A i \in 1 .. Len(s) : i > k =>
                i - 1 \in 1 .. Len(s) - 1 /\ Without(s, k)[i - 1] = s[i]
           /\ Elements(Without(s, k)) \subseteq Elements(s)
  <1>1. Len(s) \in Nat /\ DOMAIN s = 1 .. Len(s)
    BY LenProperties
  <1>2. \A i \in 1 .. Len(s) - 1 :
            (IF i < k THEN s[i] ELSE s[i + 1]) \in Rows
    BY <1>1, ElementOfSeq
  <1>3. Without(s, k) \in [1 .. Len(s) - 1 -> Rows]
    BY <1>2, <1>1 DEF Without
  <1>4. Without(s, k) \in Seq(Rows)
    BY <1>3, <1>1, SeqDef
  <1>5. DOMAIN Without(s, k) = 1 .. Len(s) - 1
    BY <1>3
  <1>6. Len(Without(s, k)) = Len(s) - 1
    <2>1. Len(s) - 1 \in Nat
      BY <1>1
    <2>2. 1 .. Len(Without(s, k)) = 1 .. Len(s) - 1
            /\ Len(Without(s, k)) \in Nat
      BY <1>4, <1>5, LenProperties
    <2>. QED
      BY <2>1, <2>2
  <1>7. Elements(Without(s, k)) \subseteq Elements(s)
    BY <1>1, <1>5 DEF Elements, Without
  <1>. QED
    BY <1>1, <1>4, <1>6, <1>7 DEF Without

\* Adding a row keeps every row, at its place or one behind it.
LEMMA WithKeeps ==
    ASSUME NEW s \in Seq(Rows), NEW k \in 1 .. Len(s) + 1, NEW row \in Rows
    PROVE  /\ With(s, k, row) \in Seq(Rows)
           /\ Len(With(s, k, row)) = Len(s) + 1
           /\ \A i \in 1 .. Len(s) : i < k =>
                i \in 1 .. Len(s) + 1 /\ With(s, k, row)[i] = s[i]
           /\ \A i \in 1 .. Len(s) : i >= k =>
                i + 1 \in 1 .. Len(s) + 1 /\ With(s, k, row)[i + 1] = s[i]
           /\ Elements(With(s, k, row)) \subseteq Elements(s) \union {row}
           /\ Elements(s) \subseteq Elements(With(s, k, row))
  <1>1. Len(s) \in Nat /\ DOMAIN s = 1 .. Len(s)
    BY LenProperties
  <1>2. \A i \in 1 .. Len(s) + 1 :
            (IF i < k THEN s[i] ELSE IF i = k THEN row ELSE s[i - 1]) \in Rows
    BY <1>1, ElementOfSeq
  <1>3. With(s, k, row) \in [1 .. Len(s) + 1 -> Rows]
    BY <1>2, <1>1 DEF With
  <1>4. With(s, k, row) \in Seq(Rows)
    BY <1>3, <1>1, SeqDef
  <1>5. DOMAIN With(s, k, row) = 1 .. Len(s) + 1
    BY <1>3
  <1>6. Len(With(s, k, row)) = Len(s) + 1
    BY <1>4, <1>5, <1>1, LenProperties
  <1>7. Elements(With(s, k, row)) \subseteq Elements(s) \union {row}
    BY <1>1, <1>5 DEF Elements, With
  <1>8. \A i \in 1 .. Len(s) : i < k =>
                i \in 1 .. Len(s) + 1 /\ With(s, k, row)[i] = s[i]
    BY <1>1 DEF With
  <1>9. \A i \in 1 .. Len(s) : i >= k =>
                i + 1 \in 1 .. Len(s) + 1 /\ With(s, k, row)[i + 1] = s[i]
    BY <1>1 DEF With
  <1>10. Elements(s) \subseteq Elements(With(s, k, row))
    BY <1>1, <1>5, <1>8, <1>9 DEF Elements
  <1>. QED
    BY <1>4, <1>6, <1>7, <1>8, <1>9, <1>10

-----------------------------------------------------------------------------
(* Types.                                                                  *)

LEMMA WindowIsFinite ==
    ASSUME TypeOK, NEW q \in Qualities
    PROVE  CountWith(q) \in Nat
  <1>1. Current \in Seq(Rows)
    BY DEF TypeOK, Current
  <1>2. DOMAIN Current = 1 .. Len(Current) /\ Len(Current) \in Nat
    BY <1>1, LenProperties
  <1>3. Window(q) \subseteq 1 .. Len(Current)
    BY <1>2 DEF Window
  <1>4. IsFiniteSet(1 .. Len(Current))
    BY <1>2, FS_Interval
  <1>5. Cardinality(Window(q)) \in Nat
    BY <1>3, <1>4, FS_Subset, FS_CardinalityType
  <1>. QED
    BY <1>5 DEF CountWith, TypeOK

LEMMA RefusalType ==
    ASSUME NEW q \in Qualities
    PROVE  Refusal(q) \in {"unreachable", "unresolved", "invalid", "foreign",
                            "none"}
  BY DEF Refusal

LEMMA InitTypeOK == Init => TypeOK
  <1>. SUFFICES ASSUME Init PROVE TypeOK
    OBVIOUS
  <1>1. listing \in [Listings -> Seq(Rows)]
    BY DEF Init, IsListing
  <1>2. listing["target"] \in Seq(Rows)
    BY <1>1 DEF Listings
  <1>3. Elements(listing["target"]) \subseteq Rows
    BY <1>2, LenProperties, ElementOfSeq DEF Elements
  <1>. QED
    BY <1>1, <1>3 DEF Init, TypeOK, Verdicts, Listings

LEMMA StepTypeOK == TypeOK /\ [Next]_vars => TypeOK'
  <1>. SUFFICES ASSUME TypeOK, [Next]_vars PROVE TypeOK'
    OBVIOUS
  <1>. USE BoundsAssumption
  <1>1. \A v \in Verdicts : End(v) => TypeOK'
    BY DEF End, TypeOK, provider, history
  <1>2. CASE PageBudget
    BY <1>1, <1>2 DEF PageBudget, Verdicts
  <1>3. CASE GoneAnswer
    BY <1>1, <1>3 DEF GoneAnswer, Verdicts
  <1>4. ASSUME NEW q \in Qualities,
               RefusedAnswer(q) \/ RowBudget(q) \/ TargetsShown(q)
                \/ StuckCursor(q) \/ LastPage(q)
        PROVE  TypeOK'
    <2>1. CASE RefusedAnswer(q)
      BY <1>1, <2>1, RefusalType DEF RefusedAnswer, Verdicts
    <2>2. CASE RowBudget(q)
      BY <1>1, <2>2 DEF RowBudget, Verdicts
    <2>3. CASE TargetsShown(q)
      BY <1>1, <2>3 DEF TargetsShown, Verdicts
    <2>4. CASE StuckCursor(q)
      BY <1>1, <2>4 DEF StuckCursor, Verdicts
    <2>5. CASE LastPage(q)
      BY <1>1, <2>5 DEF LastPage, Verdicts
    <2>. QED
      BY <1>4, <2>1, <2>2, <2>3, <2>4, <2>5
  <1>5. ASSUME NEW q \in Qualities, NextPage(q)
        PROVE  TypeOK'
    <2>1. CountWith(q) \in Nat
      BY <1>5, WindowIsFinite
    <2>2. NextCursor(q) \in Nat
      BY DEF NextCursor, TypeOK
    <2>3. Finds(q) \in BOOLEAN
      BY DEF Finds, TypeOK, ContainsTargets
    <2>4. found' \in BOOLEAN
      BY <1>5, <2>3 DEF NextPage
    <2>5. /\ pages' = pages + 1 /\ count' = CountWith(q)
          /\ offset' = NextCursor(q) /\ seen' = seen \union {NextCursor(q)}
          /\ UNCHANGED <<request, listing, changes, stayed, met, shifted,
                         scan, verdict>>
      BY <1>5 DEF NextPage, provider, history
    <2>6. seen' \in SUBSET Nat
      BY <2>2, <2>5 DEF TypeOK
    <2>7. pages' \in Nat /\ count' \in Nat /\ offset' \in Nat
      BY <2>1, <2>2, <2>5 DEF TypeOK
    <2>8. shifted' \in BOOLEAN
      BY <2>5 DEF TypeOK
    <2>. QED
      BY <2>4, <2>5, <2>6, <2>7, <2>8 DEF TypeOK
  <1>6. ASSUME NEW q \in Qualities, SecondScan(q)
        PROVE  TypeOK'
    <2>1. listing["active"] \in Seq(Rows)
      BY DEF TypeOK, Listings
    <2>2. Elements(listing["active"]) \subseteq Rows
      BY <2>1, LenProperties, ElementOfSeq DEF Elements
    <2>. QED
      BY <1>6, <2>2 DEF SecondScan, TypeOK, Listings, provider
  <1>7. ASSUME NEW l \in ListingsUsed, NEW k \in 1 .. Len(listing[l]),
               Remove(l, k)
        PROVE  TypeOK'
    <2>1. l \in Listings /\ listing[l] \in Seq(Rows)
      BY DEF ListingsUsed, Listings, TypeOK
    <2>2. Without(listing[l], k) \in Seq(Rows)
      BY <2>1, WithoutKeeps
    <2>3. listing' \in [Listings -> Seq(Rows)]
      BY <1>7, <2>1, <2>2 DEF Remove, TypeOK
    <2>4. shifted' \in BOOLEAN
      BY <1>7 DEF Remove, TypeOK
    <2>. QED
      BY <1>7, <2>3, <2>4 DEF Remove, Changing, TypeOK, loop
  <1>8. ASSUME NEW l \in ListingsUsed, NEW k \in 1 .. Len(listing[l]) + 1,
               NEW row \in Rows, Insert(l, k, row)
        PROVE  TypeOK'
    <2>1. l \in Listings /\ listing[l] \in Seq(Rows)
      BY DEF ListingsUsed, Listings, TypeOK
    <2>2. With(listing[l], k, row) \in Seq(Rows)
      BY <2>1, WithKeeps
    <2>3. listing' \in [Listings -> Seq(Rows)]
      BY <1>8, <2>1, <2>2 DEF Insert, TypeOK
    <2>. QED
      BY <1>8, <2>3 DEF Insert, Changing, TypeOK, loop
  <1>9. CASE UNCHANGED vars
    BY <1>9 DEF vars, provider, loop, history, TypeOK
  <1>. QED
    BY <1>2, <1>3, <1>4, <1>5, <1>6, <1>7, <1>8, <1>9 DEF Next

\* The state of the page loop is well typed.
THEOREM TypesHold == Spec => []TypeOK
  <1>. QED
    BY InitTypeOK, StepTypeOK, PTL DEF Spec

-----------------------------------------------------------------------------
(* The inductive invariant.                                                *)

\* What the loop looks for decides on each single target.
Single == \E t \in Rows : request.targets = {t}

\* The targets that must be seen if they stay: one that an absence readback or
\* a reconciliation looks for, or the only one of a retrieve readback.
Watched ==
    IF Exhaustive /\ Single THEN request.targets \cap stayed ELSE {}

\* While the target listing is read, and no row has moved up into a page that
\* was already read, each watched target lies beyond the cursor.
Ahead ==
    verdict = "reading" /\ scan = "target" /\ ~shifted =>
        \A t \in Watched : \E i \in 1 .. Len(listing["target"]) :
            offset < i /\ listing["target"][i] = t

\* Once it is read, none is left.
Passed ==
    ~shifted /\ (scan = "active" \/ verdict \in {"absent", "missing"}) =>
        Watched = {}

\* The rows of the active listing have been seen there since its scan began,
\* and what the scan found is among them.
ActiveMet ==
    scan = "active" =>
        /\ Elements(listing["active"]) \subseteq met
        /\ found => request.targets \subseteq met
FoundLater ==
    /\ scan = "target" => ~found
    /\ verdict = "not_applied" => scan = "active" /\ request.targets \subseteq met
    /\ verdict = "absent" => request.mode = "absence"

PagesInv == TypeOK /\ Ahead /\ Passed /\ ActiveMet /\ FoundLater

\* The contract itself never changes, and what stays only gets less.
LEMMA WatchedShrinks ==
    ASSUME [Next]_vars
    PROVE  /\ request' = request /\ stayed' \subseteq stayed
           /\ Watched' \subseteq Watched
           /\ (Exhaustive' <=> Exhaustive) /\ (Detail' <=> Detail)
           /\ shifted => shifted'
  <1>1. request' = request
    BY DEF Next, vars, PageBudget, GoneAnswer, RefusedAnswer, RowBudget,
           TargetsShown, StuckCursor, NextPage, SecondScan, LastPage, End,
           Remove, Insert, Changing
  <1>2. stayed' \subseteq stayed /\ (shifted => shifted')
    <2>1. \/ UNCHANGED <<stayed, shifted>>
          \/ \E l \in ListingsUsed : \E k \in 1 .. Len(listing[l]) : Remove(l, k)
      BY DEF Next, vars, PageBudget, GoneAnswer, RefusedAnswer, RowBudget,
             TargetsShown, StuckCursor, NextPage, SecondScan, LastPage, End,
             Insert, history
    <2>2. ASSUME NEW l, NEW k, Remove(l, k)
          PROVE  stayed' \subseteq stayed
      BY <2>2 DEF Remove
    <2>3. ASSUME NEW l, NEW k, Remove(l, k), shifted
          PROVE  shifted'
      BY <2>3, Zenon DEF Remove
    <2>. QED
      BY <2>1, <2>2, <2>3
  <1>. QED
    BY <1>1, <1>2 DEF Watched, Single, Exhaustive, Detail, RelationMap

LEMMA InitPagesInv == Init => PagesInv
  <1>. SUFFICES ASSUME Init PROVE PagesInv
    OBVIOUS
  <1>1. TypeOK
    BY InitTypeOK
  <1>2. DOMAIN listing["target"] = 1 .. Len(listing["target"])
    BY <1>1, LenProperties DEF TypeOK, Listings
  <1>3. Watched \subseteq Elements(listing["target"])
    BY DEF Watched, Init
  <1>4. Ahead
    BY <1>2, <1>3 DEF Ahead, Init, Elements
  <1>. QED
    BY <1>1, <1>4 DEF PagesInv, Passed, ActiveMet, FoundLater, Init

\* A page that is inspected and does not settle the readback does not show a
\* watched target.
LEMMA NotShown ==
    ASSUME TypeOK, NEW q \in Qualities, Inspects(q), ~Settles(q),
           scan = "target", NEW t \in Watched,
           NEW i \in 1 .. Len(listing["target"]), listing["target"][i] = t
    PROVE  i \notin Window(q)
  <1>1. DOMAIN Current = 1 .. Len(Current) /\ Current = listing["target"]
    BY LenProperties DEF Current, TypeOK, Listings
  <1>2. i \in Window(q) => t \in Shown(q)
    BY <1>1 DEF Shown
  <1>3. t \in request.targets /\ Single
    BY DEF Watched
  <1>4. request.targets = {t}
    BY <1>3 DEF Single
  <1>. QED
    BY <1>2, <1>4 DEF Settles, ContainsTargets

LEMMA StepAhead ==
    ASSUME PagesInv, [Next]_vars
    PROVE  Ahead'
  <1>. SUFFICES ASSUME verdict' = "reading", scan' = "target", ~shifted',
                       NEW t \in Watched'
                PROVE  \E i \in 1 .. Len(listing'["target"]) :
                            offset' < i /\ listing'["target"][i] = t
    BY DEF Ahead
  <1>. USE DEF PagesInv
  <1>1. t \in Watched /\ ~shifted /\ request' = request /\ t \in stayed'
    BY WatchedShrinks DEF Watched
  <1>2. listing["target"] \in Seq(Rows) /\ offset \in Nat
    BY DEF TypeOK, Listings
  <1>3. CASE UNCHANGED <<listing, scan, offset, verdict>>
    BY <1>1, <1>3 DEF Ahead
  <1>4. ASSUME NEW q \in Qualities, NextPage(q)
        PROVE  \E i \in 1 .. Len(listing'["target"]) :
                    offset' < i /\ listing'["target"][i] = t
    <2>1. scan = "target" /\ verdict = "reading" /\ listing' = listing
      BY <1>4 DEF NextPage, provider
    <2>2. PICK i \in 1 .. Len(listing["target"]) :
                offset < i /\ listing["target"][i] = t
      BY <1>1, <2>1 DEF Ahead
    <2>3. i \notin Window(q)
      BY <1>4, <1>1, <2>1, <2>2, NotShown DEF NextPage
    <2>4. q # "bare" /\ ~Detail
      BY <1>4 DEF NextPage, HasNextPage
    <2>5. i > offset + PageSize
      BY <1>2, <2>1, <2>2, <2>3, <2>4, BoundsAssumption, LenProperties
      DEF Window, Current
    <2>6. offset' = offset + PageSize \/ offset' = offset
      BY <1>4 DEF NextPage, NextCursor
    <2>. QED
      BY <1>2, <2>1, <2>2, <2>5, <2>6, BoundsAssumption
  <1>5. ASSUME NEW l \in ListingsUsed, NEW k \in 1 .. Len(listing[l]),
               Remove(l, k)
        PROVE  \E i \in 1 .. Len(listing'["target"]) :
                    offset' < i /\ listing'["target"][i] = t
    <2>1. scan = "target" /\ verdict = "reading" /\ offset' = offset
      BY <1>5 DEF Remove, Changing, loop
    <2>2. PICK i \in 1 .. Len(listing["target"]) :
                offset < i /\ listing["target"][i] = t
      BY <1>1, <2>1 DEF Ahead
    <2>3. CASE l = "target"
      <3>1. listing'["target"] = Without(listing["target"], k)
        BY <1>5, <2>3 DEF Remove, TypeOK, Listings
      <3>4. Len(listing["target"]) \in Nat /\ k \in 1 .. Len(listing["target"])
        BY <1>2, <1>5, <2>3, LenProperties
      <3>8. t # listing["target"][k]
        BY <1>1, <1>5, <2>3 DEF Remove
      <3>9. ~(k <= offset)
        BY <1>1, <1>5, <2>1, <2>3, Zenon DEF Remove
      <3>2. t # listing["target"][k] /\ k > offset
        BY <1>2, <3>4, <3>8, <3>9
      <3>3. i # k
        BY <2>2, <3>2
      <3>5. /\ Len(Without(listing["target"], k)) = Len(listing["target"]) - 1
            /\ i < k => i \in 1 .. Len(listing["target"]) - 1
                        /\ Without(listing["target"], k)[i] = t
            /\ i > k => i - 1 \in 1 .. Len(listing["target"]) - 1
                        /\ Without(listing["target"], k)[i - 1] = t
        BY <1>2, <2>2, <3>4, WithoutKeeps
      <3>6. CASE i < k
        BY <2>1, <2>2, <3>1, <3>5, <3>6
      <3>7. CASE i > k
        BY <1>2, <2>1, <2>2, <3>1, <3>2, <3>4, <3>5, <3>7
      <3>. QED
        BY <2>2, <3>3, <3>4, <3>6, <3>7
    <2>4. CASE l # "target"
      <3>1. listing'["target"] = listing["target"]
        BY <1>5, <2>4 DEF Remove, TypeOK, Listings
      <3>. QED
        BY <2>1, <2>2, <3>1
    <2>. QED
      BY <2>3, <2>4
  <1>6. ASSUME NEW l \in ListingsUsed, NEW k \in 1 .. Len(listing[l]) + 1,
               NEW row \in Rows, Insert(l, k, row)
        PROVE  \E i \in 1 .. Len(listing'["target"]) :
                    offset' < i /\ listing'["target"][i] = t
    <2>1. scan = "target" /\ verdict = "reading" /\ offset' = offset
      BY <1>6 DEF Insert, Changing, loop
    <2>2. PICK i \in 1 .. Len(listing["target"]) :
                offset < i /\ listing["target"][i] = t
      BY <1>1, <2>1 DEF Ahead
    <2>3. CASE l = "target"
      <3>1. listing'["target"] = With(listing["target"], k, row)
        BY <1>6, <2>3 DEF Insert, TypeOK, Listings
      <3>2. Len(listing["target"]) \in Nat
            /\ k \in 1 .. Len(listing["target"]) + 1
        BY <1>2, <2>3, LenProperties
      <3>7. ASSUME NEW s \in Seq(Rows), NEW j \in 1 .. Len(s) + 1
            PROVE  /\ Len(With(s, j, row)) = Len(s) + 1
                   /\ \A m \in 1 .. Len(s) :
                        /\ m < j => m \in 1 .. Len(s) + 1
                                        /\ With(s, j, row)[m] = s[m]
                        /\ m >= j => m + 1 \in 1 .. Len(s) + 1
                                        /\ With(s, j, row)[m + 1] = s[m]
        BY <1>6, WithKeeps
      <3>6. Len(With(listing["target"], k, row)) = Len(listing["target"]) + 1
        BY <1>2, <3>2, <3>7
      <3>3. /\ i < k => i \in 1 .. Len(listing["target"]) + 1
                        /\ With(listing["target"], k, row)[i] = t
            /\ i >= k => i + 1 \in 1 .. Len(listing["target"]) + 1
                        /\ With(listing["target"], k, row)[i + 1] = t
        BY <1>2, <2>2, <3>2, <3>7
      <3>4. CASE i < k
        BY <2>1, <2>2, <3>1, <3>3, <3>4, <3>6
      <3>5. CASE i >= k
        BY <1>2, <2>1, <2>2, <3>1, <3>2, <3>3, <3>5, <3>6
      <3>. QED
        BY <2>2, <3>2, <3>4, <3>5
    <2>4. CASE l # "target"
      <3>1. listing'["target"] = listing["target"]
        BY <1>6, <2>4 DEF Insert, TypeOK, Listings
      <3>. QED
        BY <2>1, <2>2, <3>1
    <2>. QED
      BY <2>3, <2>4
  <1>7. verdict = "reading" \/ UNCHANGED vars
    BY DEF Next, PageBudget, GoneAnswer, RefusedAnswer, RowBudget,
           TargetsShown, StuckCursor, NextPage, SecondScan, LastPage,
           Inspects, Reads, Remove, Insert, Changing
  <1>8. ASSUME NEW v, End(v), v # "reading"
        PROVE  FALSE
    BY <1>8 DEF End
  <1>. QED
    BY <1>3, <1>4, <1>5, <1>6, <1>7, <1>8, RefusalType
    DEF Next, vars, loop, provider, PageBudget, GoneAnswer, RefusedAnswer,
        RowBudget, TargetsShown, StuckCursor, SecondScan, LastPage

\* The last page of a listing that has no next one shows every row beyond the
\* cursor, if the contract reads the flag or the whole listing came at once.
LEMMA LastPageShowsTheRest ==
    ASSUME PagesInv, NEW q \in Qualities, Inspects(q), ~Settles(q),
           ~HasNextPage(q), scan = "target", ~shifted
    PROVE  Watched = {}
  <1>. SUFFICES ASSUME NEW t \in Watched PROVE FALSE
    OBVIOUS
  <1>. USE DEF PagesInv
  <1>1. PICK i \in 1 .. Len(listing["target"]) :
            offset < i /\ listing["target"][i] = t
    BY DEF Ahead, Inspects, Reads
  <1>2. i \notin Window(q)
    BY <1>1, NotShown
  <1>3. DOMAIN Current = 1 .. Len(Current) /\ Current = listing["target"]
            /\ Len(Current) \in Nat /\ offset \in Nat
    BY LenProperties DEF Current, TypeOK, Listings
  <1>4. Exhaustive /\ t \in request.targets
    BY DEF Watched
  <1>5. CASE Detail
    BY <1>1, <1>2, <1>3, <1>4, <1>5 DEF Window
  <1>6. ~RelationMap
    BY <1>1, <1>2, <1>3, <1>5 DEF Window
  <1>7. CASE ~Detail
    <2>1. request.paged
      BY <1>4, <1>6, <1>7 DEF Exhaustive
    <2>2. q # "bare"
      BY <1>1, <1>2, <1>3, <1>7 DEF Window
    <2>3. q # "noflag"
      BY <2>1, <1>7
      DEF Inspects, Evident, Refusal, InvalidFor, EnvelopeRefuses, SchemaRefuses
    <2>4. ~(Len(Current) > offset + PageSize)
      BY <1>7, <2>1, <2>2, <2>3 DEF HasNextPage
    <2>. QED
      BY <1>1, <1>2, <1>3, <1>6, <1>7, <2>2, <2>4, BoundsAssumption DEF Window
  <1>. QED
    BY <1>5, <1>7

LEMMA GoneMeansNone ==
    ASSUME PagesInv, GoneAnswer, ~shifted
    PROVE  Watched = {}
  <1>. SUFFICES ASSUME NEW t \in Watched PROVE FALSE
    OBVIOUS
  <1>. USE DEF PagesInv
  <1>1. scan = "target" /\ verdict = "reading" /\ NotFound
    BY DEF GoneAnswer, Reads, Possible, TypeOK, Listings
  <1>2. PICK i \in 1 .. Len(listing["target"]) :
            offset < i /\ listing["target"][i] = t
    BY <1>1 DEF Ahead
  <1>3. DOMAIN Current = 1 .. Len(Current) /\ Current = listing["target"]
    BY <1>1, LenProperties DEF Current, TypeOK, Listings
  <1>4. t \in request.targets /\ t \in Elements(Current)
    BY <1>2, <1>3 DEF Watched, Elements
  <1>5. Current # <<>>
    BY <1>2, <1>3
  <1>. QED
    BY <1>1, <1>4, <1>5 DEF NotFound

LEMMA StepPassed ==
    ASSUME PagesInv, [Next]_vars
    PROVE  Passed'
  <1>. SUFFICES ASSUME ~shifted',
                       scan' = "active" \/ verdict' \in {"absent", "missing"}
                PROVE  Watched' = {}
    BY DEF Passed
  <1>. USE DEF PagesInv
  <1>1. Watched' \subseteq Watched /\ ~shifted
    BY WatchedShrinks
  <1>2. CASE scan = "active" \/ verdict \in {"absent", "missing"}
    BY <1>1, <1>2 DEF Passed
  <1>3. CASE scan # "active" /\ verdict \notin {"absent", "missing"}
    <2>1. scan = "target"
      BY <1>3 DEF TypeOK, Listings
    <2>2. CASE GoneAnswer
      BY <1>1, <2>2, GoneMeansNone
    <2>3. ASSUME NEW q \in Qualities, SecondScan(q) \/ LastPage(q)
          PROVE  Watched' = {}
      BY <1>1, <2>1, <2>3, LastPageShowsTheRest DEF SecondScan, LastPage
    <2>4. ASSUME NEW q \in Qualities,
                 RefusedAnswer(q) \/ RowBudget(q) \/ TargetsShown(q)
                    \/ StuckCursor(q) \/ NextPage(q)
          PROVE  FALSE
      <3>1. scan' = scan
        BY <2>4 DEF RefusedAnswer, RowBudget, TargetsShown, StuckCursor,
                    NextPage, End
      <3>2. verdict' \notin {"absent", "missing"}
        BY <2>4, <1>3, RefusalType DEF RefusedAnswer, RowBudget, TargetsShown,
                    StuckCursor, NextPage, End
      <3>. QED
        BY <3>1, <3>2, <2>1
    <2>5. CASE PageBudget
      BY <1>3, <2>1, <2>5 DEF PageBudget, End
    <2>6. CASE UNCHANGED <<scan, verdict>>
      BY <1>3, <2>6
    <2>. QED
      BY <2>2, <2>3, <2>4, <2>5, <2>6
      DEF Next, vars, loop, Remove, Insert, Changing
  <1>. QED
    BY <1>2, <1>3

LEMMA StepActive ==
    ASSUME PagesInv, [Next]_vars
    PROVE  ActiveMet' /\ FoundLater'
  <1>. USE DEF PagesInv
  <1>1. request' = request
    BY WatchedShrinks
  <1>2. ASSUME NEW v, End(v), v = "not_applied" => scan = "active"
                    /\ request.targets \subseteq met,
               v = "absent" => request.mode = "absence"
        PROVE  ActiveMet' /\ FoundLater'
    BY <1>1, <1>2 DEF End, provider, history, ActiveMet, FoundLater
  <1>3. CASE PageBudget \/ GoneAnswer
    BY <1>2, <1>3 DEF PageBudget, GoneAnswer
  <1>4. ASSUME NEW q \in Qualities, scan = "active", Finds(q)
        PROVE  request.targets \subseteq met
    <2>1. Shown(q) \subseteq Elements(listing["active"])
      BY <1>4 DEF Shown, Window, Elements, Current
    <2>2. ContainsTargets(q) => request.targets \subseteq Shown(q)
      BY <1>4 DEF ContainsTargets, TypeOK
    <2>. QED
      BY <1>4, <2>1, <2>2 DEF Finds, ActiveMet
  <1>5. ASSUME NEW q \in Qualities,
               RefusedAnswer(q) \/ RowBudget(q) \/ TargetsShown(q)
                \/ StuckCursor(q)
        PROVE  ActiveMet' /\ FoundLater'
    BY <1>2, <1>5, RefusalType
    DEF RefusedAnswer, RowBudget, TargetsShown, StuckCursor
  <1>6. ASSUME NEW q \in Qualities, LastPage(q)
        PROVE  ActiveMet' /\ FoundLater'
    BY <1>2, <1>4, <1>6 DEF LastPage
  <1>7. ASSUME NEW q \in Qualities, NextPage(q)
        PROVE  ActiveMet' /\ FoundLater'
    <2>1. UNCHANGED <<scan, verdict, met, listing>> /\ verdict = "reading"
      BY <1>7 DEF NextPage, provider, history, Inspects, Reads
    <2>2. found' => Finds(q)
      BY <1>7, Zenon DEF NextPage
    <2>3. scan = "target" => ~Finds(q)
      BY DEF Finds, FoundLater
    <2>. QED
      BY <1>1, <1>4, <2>1, <2>2, <2>3 DEF ActiveMet, FoundLater
  <1>8. ASSUME NEW q \in Qualities, SecondScan(q)
        PROVE  ActiveMet' /\ FoundLater'
    BY <1>1, <1>8 DEF SecondScan, provider, ActiveMet, FoundLater, Inspects,
                      Reads
  <1>9. ASSUME NEW l \in ListingsUsed, NEW k \in 1 .. Len(listing[l]),
               Remove(l, k)
        PROVE  ActiveMet' /\ FoundLater'
    <2>1. UNCHANGED <<scan, verdict, met, found>> /\ verdict = "reading"
      BY <1>9 DEF Remove, Changing, loop
    <2>2. listing["active"] \in Seq(Rows) /\ l \in Listings
      BY DEF TypeOK, Listings, ListingsUsed
    <2>3. Elements(listing'["active"]) \subseteq Elements(listing["active"])
      <3>1. CASE l = "active"
        BY <1>9, <2>2, <3>1, WithoutKeeps DEF Remove, TypeOK
      <3>2. CASE l # "active"
        BY <1>9, <2>2, <3>2 DEF Remove, TypeOK
      <3>. QED
        BY <3>1, <3>2
    <2>. QED
      BY <1>1, <2>1, <2>3 DEF ActiveMet, FoundLater
  <1>10. ASSUME NEW l \in ListingsUsed, NEW k \in 1 .. Len(listing[l]) + 1,
                NEW row \in Rows, Insert(l, k, row)
         PROVE  ActiveMet' /\ FoundLater'
    <2>1. UNCHANGED <<scan, verdict, found>> /\ verdict = "reading"
      BY <1>10 DEF Insert, Changing, loop
    <2>2. met' = IF l = scan THEN met \union {row} ELSE met
      BY <1>10 DEF Insert
    <2>3. listing["active"] \in Seq(Rows) /\ l \in Listings
      BY DEF TypeOK, Listings, ListingsUsed
    <2>4. Elements(listing'["active"])
            \subseteq IF l = "active" THEN Elements(listing["active"]) \union {row}
                      ELSE Elements(listing["active"])
      <3>1. CASE l = "active"
        <4>1. listing'["active"] = With(listing["active"], k, row)
          BY <1>10, <2>3, <3>1 DEF Insert, TypeOK
        <4>2. k \in 1 .. Len(listing["active"]) + 1
          BY <1>10, <3>1
        <4>3. ASSUME NEW s \in Seq(Rows), NEW j \in 1 .. Len(s) + 1
              PROVE  Elements(With(s, j, row)) \subseteq Elements(s) \union {row}
          BY <1>10, WithKeeps
        <4>. QED
          BY <2>3, <3>1, <4>1, <4>2, <4>3
      <3>2. CASE l # "active"
        BY <1>10, <2>3, <3>2 DEF Insert, TypeOK
      <3>. QED
        BY <3>1, <3>2
    <2>. QED
      BY <1>1, <2>1, <2>2, <2>4 DEF ActiveMet, FoundLater
  <1>11. CASE UNCHANGED vars
    BY <1>11 DEF vars, provider, loop, history, ActiveMet, FoundLater
  <1>. QED
    BY <1>3, <1>5, <1>6, <1>7, <1>8, <1>9, <1>10, <1>11 DEF Next

LEMMA StepPagesInv == PagesInv /\ [Next]_vars => PagesInv'
  <1>. QED
    BY StepTypeOK, StepAhead, StepPassed, StepActive DEF PagesInv

LEMMA PagesInvHolds == Spec => []PagesInv
  <1>. QED
    BY InitPagesInv, StepPagesInv, PTL DEF Spec

-----------------------------------------------------------------------------
(* Theorems.                                                               *)

LEMMA ConclusionsAreHonest == PagesInv => AbsenceIsHonest /\ MissingIsMissing
  <1>. SUFFICES ASSUME PagesInv PROVE AbsenceIsHonest /\ MissingIsMissing
    OBVIOUS
  <1>. USE DEF PagesInv
  <1>1. request.mode # "presence" => Single
    BY RequestsAssumption DEF TypeOK, Single
  <1>2. request.mode = "reconcile" => Exhaustive
    BY RequestsAssumption DEF TypeOK, Exhaustive
  <1>3. ASSUME verdict = "absent", Exhaustive, ~shifted
        PROVE  request.targets \cap stayed = {}
    BY <1>1, <1>3 DEF Passed, Watched, FoundLater
  <1>. QED
    BY <1>1, <1>2, <1>3
    DEF AbsenceIsHonest, MissingIsMissing, Passed, Watched, FoundLater,
        Exhaustive, Single, TypeOK

\* A certified absence is true: nothing that stayed in the listing is overlooked,
\* for every listing, page size, budget and number of changes.
THEOREM AbsenceHolds == Spec => []AbsenceIsHonest
  <1>. QED
    BY PagesInvHolds, ConclusionsAreHonest, PTL

\* An object is reported missing only when it was not listed all the time.
THEOREM MissingHolds == Spec => []MissingIsMissing
  <1>. QED
    BY PagesInvHolds, ConclusionsAreHonest, PTL

\* A write is verified only at a moment when all its objects are listed.
THEOREM PresenceHolds == Spec => PresenceIsReal
  <1>1. ASSUME TypeOK, [Next]_vars, verdict' = "verified", verdict # "verified"
        PROVE  request.targets \subseteq Elements(listing["target"])
    <2>1. PICK q \in Qualities : TargetsShown(q)
      BY <1>1, RefusalType
      DEF Next, vars, loop, PageBudget, GoneAnswer, RefusedAnswer, RowBudget,
          StuckCursor, NextPage, SecondScan, LastPage, End, Remove, Insert,
          Changing
    <2>2. scan = "target" /\ ContainsTargets(q) /\ request.mode = "presence"
      BY <2>1, <1>1 DEF TargetsShown, Settles, End
    <2>. QED
      BY <2>2 DEF ContainsTargets, Shown, Window, Current, Elements
  <1>. QED
    BY <1>1, TypesHold, PTL DEF Spec, PresenceIsReal
=============================================================================
