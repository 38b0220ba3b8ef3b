------------------------ MODULE WorkItemRecordProofs ------------------------
(***************************************************************************)
(* What a document that passes as done tells is a whole lifecycle, its     *)
(* metrics are sound, and what passes on the way can be finished, for any  *)
(* number of units, waves, comments and times.  These are facts about      *)
(* Valid; the state machine only says which documents there are.           *)
(***************************************************************************)
EXTENDS WorkItemRecord, WellFoundedInduction, SequenceTheorems,
        FiniteSetTheorems, TLAPS

\* The types of the record hold of every reachable state.
THEOREM TypesHold == Spec => []TypeOK
  <1>1. Init => TypeOK
    BY DEF Init, TypeOK, Outcomes
  <1>2. TypeOK /\ [Next]_vars => TypeOK'
    <2> SUFFICES ASSUME TypeOK, [Next]_vars PROVE TypeOK'
      OBVIOUS
    <2> USE DEF TypeOK
    <2>1. ASSUME NEW c \in Remarks, Post(c) PROVE comments' \in Seq(Comment)
      <3>1. c \in Comment
        BY RecordAssumption
      <3> QED
        BY <2>1, <3>1, AppendProperties DEF Post
    <2>2. ASSUME NEW c \in Remarks, NEW target \in UsedStates,
                 OperatorTransition(c, target)
          PROVE  TypeOK'
      BY <2>1, <2>2 DEF OperatorTransition, Post, Outcomes
    <2>3. ASSUME NEW c \in Remarks, AddLifecycleComment(c) PROVE TypeOK'
      BY <2>1, <2>3 DEF AddLifecycleComment, Post, Outcomes
    <2>4. ASSUME NEW state \in UsedStates, MoveItem(state) PROVE TypeOK'
      BY <2>4 DEF MoveItem, Outcomes
    <2>5. ASSUME NEW p \in Filings, FilePapers(p) PROVE TypeOK'
      BY <2>5, RecordAssumption DEF FilePapers, Outcomes
    <2>6. CASE UNCHANGED vars
      BY <2>6 DEF vars
    <2> QED
      BY <2>2, <2>3, <2>4, <2>5, <2>6 DEF Next
  <1> QED
    BY <1>1, <1>2, PTL DEF Spec

-----------------------------------------------------------------------------
(* The comments of a document that passes as done.                         *)

\* They have one review, the finish is the last of them, and the only start is
\* the first.
LEMMA DonePhases ==
    ASSUME NEW d, d.comments \in Seq(Comment), ValidDone(d)
    PROVE  \E r \in DOMAIN d.comments :
            /\ Indices(d, "REVIEW") = {r}
            /\ Indices(d, "FINISH") = {Len(d.comments)}
            /\ Indices(d, "START") = {1}
            /\ \A i \in Indices(d, "PROGRESS") : i < r
            /\ \A i \in Indices(d, "BLOCKED") : Resumed(d, i, r)
            /\ Len(d.comments) \in DOMAIN d.comments
            /\ 1 \in DOMAIN d.comments
  <1>1. d.state \in ReviewStates
    BY DEF ValidDone, ReviewStates, DoneStates
  <1>2. PICK r \in Indices(d, "REVIEW") :
            /\ Indices(d, "REVIEW") = {r}
            /\ \A i \in Indices(d, "PROGRESS") : i < r
            /\ \A i \in Indices(d, "BLOCKED") : Resumed(d, i, r)
    BY <1>1 DEF ValidDone, Valid, ReviewRules
  <1>3. Indices(d, "FINISH") = {Len(d.comments)}
    BY DEF ValidDone, Valid, DoneRules
  <1>4. r \in DOMAIN d.comments /\ Len(d.comments) \in DOMAIN d.comments
    BY <1>2, <1>3 DEF Indices
  <1>5. Len(d.comments) \in Nat /\ DOMAIN d.comments = 1 .. Len(d.comments)
    BY LenProperties
  <1>6. 1 \in DOMAIN d.comments
    BY <1>4, <1>5
  <1>7. Indices(d, "START") = {1}
    BY <1>6 DEF ValidDone, Valid, CommentsPass, Indices
  <1> QED
    BY <1>2, <1>3, <1>4, <1>6, <1>7

\* Nothing is told after the review but the finish.
LEMMA FinishFollowsReview ==
    ASSUME NEW d, d.comments \in Seq(Comment), ValidDone(d),
           NEW r \in DOMAIN d.comments,
           Indices(d, "REVIEW") = {r},
           Indices(d, "FINISH") = {Len(d.comments)},
           Indices(d, "START") = {1},
           \A i \in Indices(d, "PROGRESS") : i < r,
           \A i \in Indices(d, "BLOCKED") : Resumed(d, i, r)
    PROVE  /\ Len(d.comments) = r + 1
           /\ \A i \in 2 .. r - 1 :
                d.comments[i].phase \in {"PROGRESS", "BLOCKED"}
           /\ r > 1
  <1> DEFINE told == d.comments
  <1>1. Len(told) \in Nat /\ DOMAIN told = 1 .. Len(told) /\ r \in 1 .. Len(told)
    BY LenProperties
  <1>2. \A i \in DOMAIN told : told[i].phase \in Phases
    BY DEF ValidDone, Valid, CommentsPass, CommentRules
  <1>3. \A i \in DOMAIN told :
            /\ told[i].phase = "REVIEW" <=> i = r
            /\ told[i].phase = "FINISH" <=> i = Len(told)
            /\ told[i].phase = "START" <=> i = 1
    BY DEF Indices
  <1>4. \A i \in DOMAIN told : told[i].phase = "PROGRESS" => i < r
    BY DEF Indices
  <1>5. \A i \in DOMAIN told : told[i].phase = "BLOCKED" => i < r
    <2> SUFFICES ASSUME NEW i \in DOMAIN told, told[i].phase = "BLOCKED"
                 PROVE  i < r
      OBVIOUS
    <2>1. i \in Indices(d, "BLOCKED")
      BY DEF Indices
    <2>2. PICK j \in Indices(d, "PROGRESS") : i < j /\ j < r
      BY <2>1 DEF Resumed
    <2>3. j \in 1 .. Len(told) /\ i \in 1 .. Len(told)
      BY <1>1, <2>2 DEF Indices
    <2> QED
      BY <2>2, <2>3, <1>1
  <1>6. r # 1 /\ r # Len(told)
    <2>1. told[r].phase = "REVIEW"
      BY <1>3
    <2> QED
      BY <2>1, <1>3
  <1>7. ASSUME NEW i \in DOMAIN told, i > r PROVE i = Len(told)
    <2>1. i \in 1 .. Len(told)
      BY <1>1
    <2>2. told[i].phase \notin {"PROGRESS", "BLOCKED", "REVIEW", "START"}
      BY <1>1, <1>3, <1>4, <1>5, <1>7, <2>1
    <2> QED
      BY <1>2, <1>3, <2>2 DEF Phases
  <1>8. Len(told) = r + 1
    <2>1. r + 1 \in DOMAIN told
      BY <1>1, <1>6
    <2> QED
      BY <2>1, <1>7, <1>1
  <1>9. ASSUME NEW i \in 2 .. r - 1
        PROVE  told[i].phase \in {"PROGRESS", "BLOCKED"}
    <2>1. i \in DOMAIN told /\ i # 1 /\ i # r /\ i # Len(told)
      BY <1>1, <1>8
    <2> QED
      BY <2>1, <1>2, <1>3 DEF Phases
  <1> QED
    BY <1>1, <1>6, <1>8, <1>9

\* A document that passes as done has told its story, worked on every unit and
\* was reviewed by somebody else.
LEMMA DoneTellsStory ==
    ASSUME NEW d, d.comments \in Seq(Comment), ValidDone(d)
    PROVE  /\ Story(d.comments)
           /\ \A u \in Units : \E i \in DOMAIN d.comments :
                d.comments[i].phase = "PROGRESS" /\ d.comments[i].unit = u
           /\ d.papers.closing.review.reviewer # "handler"
  <1> DEFINE told == d.comments
  <1>1. PICK r \in DOMAIN told :
            /\ Indices(d, "REVIEW") = {r}
            /\ Indices(d, "FINISH") = {Len(told)}
            /\ Indices(d, "START") = {1}
            /\ \A i \in Indices(d, "PROGRESS") : i < r
            /\ \A i \in Indices(d, "BLOCKED") : Resumed(d, i, r)
            /\ Len(told) \in DOMAIN told
            /\ 1 \in DOMAIN told
    BY DonePhases
  <1>2. /\ Len(told) = r + 1
        /\ \A i \in 2 .. r - 1 : told[i].phase \in {"PROGRESS", "BLOCKED"}
        /\ r > 1
    BY <1>1, FinishFollowsReview
  <1>3. Len(told) \in Nat /\ DOMAIN told = 1 .. Len(told) /\ r \in Nat
    BY <1>1, LenProperties
  <1>4. \A i \in DOMAIN told : CommentRules(told[i])
    BY DEF ValidDone, Valid, CommentsPass
  <1>5. \A i \in 1 .. Len(told) - 1 : told[i].after = told[i + 1].before
    <2> SUFFICES ASSUME NEW i \in 1 .. Len(told) - 1
                 PROVE  told[i].after = told[i + 1].before
      OBVIOUS
    <2>1. i \in DOMAIN told /\ i + 1 \in DOMAIN told
      BY <1>3
    <2> QED
      BY <2>1 DEF ValidDone, Valid, CommentsPass
  <1>6. ASSUME NEW u \in Units
        PROVE  \E i \in DOMAIN told :
                told[i].phase = "PROGRESS" /\ told[i].unit = u
    <2>1. u \in Delivered(d)
      BY DEF ValidDone, Valid, DoneRules
    <2>2. d.state \in ReviewStates
      BY DEF ValidDone, ReviewStates
    <2>3. u \in Progressed(d)
      BY <2>1, <2>2 DEF ValidDone, Valid, ReviewRules
    <2> QED
      BY <2>3 DEF Progressed, Indices
  <1>7. r > 2
    <2>1. PICK u : u \in Units
      BY UnitsAssumption
    <2>2. PICK i \in DOMAIN told : told[i].phase = "PROGRESS"
      BY <1>6, <2>1
    <2>3. i \in Indices(d, "PROGRESS") /\ i \notin Indices(d, "START")
      BY <2>2 DEF Indices
    <2>4. i < r /\ i # 1 /\ i \in 1 .. Len(told)
      BY <1>1, <1>3, <2>3
    <2> QED
      BY <2>4, <1>3
  <1>8. told[1].phase = "START" /\ told[1].before = "ready"
    <2>1. told[1].phase = "START"
      BY <1>1 DEF Indices
    <2> QED
      BY <2>1, <1>4, <1>1 DEF CommentRules
  <1>9. told[Len(told) - 1].phase = "REVIEW" /\ told[Len(told)].phase = "FINISH"
    <2>1. told[r].phase = "REVIEW" /\ told[Len(told)].phase = "FINISH"
      BY <1>1 DEF Indices
    <2> QED
      BY <2>1, <1>2, <1>3
  <1>10. ASSUME NEW i \in DOMAIN told, told[i].phase = "BLOCKED"
         PROVE  \E j \in i + 1 .. Len(told) - 2 :
                    told[j].phase = "PROGRESS" /\ told[j].unit = told[i].unit
    <2>1. i \in Indices(d, "BLOCKED")
      BY <1>10 DEF Indices
    <2>2. PICK j \in Indices(d, "PROGRESS") :
            i < j /\ j < r /\ told[j].unit = told[i].unit
      BY <1>1, <2>1 DEF Resumed
    <2>3. j \in DOMAIN told /\ told[j].phase = "PROGRESS"
      BY <2>2 DEF Indices
    <2>4. j \in i + 1 .. Len(told) - 2
      BY <1>2, <1>3, <2>2, <2>3, <1>10
    <2> QED
      BY <2>2, <2>3, <2>4
  <1>11. told[Len(told) - 1].before = "in_progress"
    <2>1. r - 1 \in 2 .. r - 1 /\ r - 1 \in DOMAIN told /\ r - 1 \in 1 .. Len(told) - 1
      BY <1>2, <1>3, <1>7
    <2>2. told[r - 1].phase \in {"PROGRESS", "BLOCKED"}
      BY <1>2, <2>1
    <2>3. told[r - 1].phase # "BLOCKED"
      <3> SUFFICES ASSUME told[r - 1].phase = "BLOCKED" PROVE FALSE
        OBVIOUS
      <3>1. \E j \in (r - 1) + 1 .. Len(told) - 2 : TRUE
        BY <1>10, <2>1
      <3> QED
        BY <3>1, <1>2, <1>3
    <2>4. told[r - 1].after = "in_progress"
      BY <2>1, <2>2, <2>3, <1>4 DEF CommentRules, StatesAfter
    <2>5. told[r - 1].after = told[(r - 1) + 1].before
      BY <1>5, <2>1
    <2>6. (r - 1) + 1 = Len(told) - 1
      BY <1>2, <1>3
    <2> QED
      BY <2>4, <2>5, <2>6
  <1>12. \A i \in 2 .. Len(told) - 2 : told[i].phase \in {"PROGRESS", "BLOCKED"}
    <2>1. Len(told) - 2 = r - 1
      BY <1>2, <1>3
    <2> QED
      BY <2>1, <1>2
  <1>13. Len(told) > 3
    BY <1>2, <1>3, <1>7
  <1>14. Story(told)
    BY <1>5, <1>8, <1>9, <1>10, <1>11, <1>12, <1>13 DEF Story
  <1>15. d.papers.closing.review.reviewer = "other"
    BY DEF ValidDone, Valid, DoneRules, IndependentReview
  <1> QED
    BY <1>6, <1>14, <1>15

\* Whatever was posted, filed and moved: a document that passes as done has
\* earned it.
THEOREM DoneStandsForWork == Spec => []DoneIsEarned
  <1>1. TypeOK => DoneIsEarned
    <2> SUFFICES ASSUME TypeOK, papers # NoPapers, ValidDone(Doc)
                 PROVE  DoneIsEarned
      BY DEF DoneIsEarned
    <2>1. Doc.comments = comments /\ Doc.papers = papers
      BY DEF Doc
    <2>2. Doc.comments \in Seq(Comment)
      BY <2>1 DEF TypeOK
    <2> QED
      BY <2>1, <2>2, DoneTellsStory DEF DoneIsEarned
  <1> QED
    BY <1>1, TypesHold, PTL

-----------------------------------------------------------------------------
(* The metrics.                                                            *)

\* Every set of natural numbers has a least one.
LEMMA LeastNatural ==
    ASSUME NEW S \in SUBSET Nat, S # {}
    PROVE  \E n \in S : \A m \in S : n <= m
  <1> DEFINE Less == {pair \in Nat \X Nat : pair[1] < pair[2]}
  <1>1. IsWellFoundedOn(Less, Nat)
    BY NatLessThanWellFounded DEF OpToRel
  <1>2. PICK n \in S : \A m \in S : ~ (<<m, n>> \in Less)
    <2> HIDE DEF Less
    <2> QED
      BY <1>1, WFMin
  <1>3. ASSUME NEW m \in S PROVE n <= m
    <2>1. m \in Nat /\ n \in Nat
      OBVIOUS
    <2>2. ~(m < n)
      <3>1. m < n => <<m, n>> \in Less
        BY <2>1
      <3> QED
        BY <1>2, <3>1
    <2> QED
      BY <2>1, <2>2
  <1> QED
    BY <1>3

\* Comments each of which is no earlier than the one before it are in order.
LEMMA CommentsInOrder ==
    ASSUME NEW told \in Seq(Comment), CommentsPass(told)
    PROVE  \A i, j \in DOMAIN told : i < j => told[i].at <= told[j].at
  <1>1. Len(told) \in Nat /\ DOMAIN told = 1 .. Len(told)
    BY LenProperties
  <1>2. \A i \in DOMAIN told : told[i].at \in Nat
    <2>1. \A i \in 1 .. Len(told) : told[i] \in Comment
      BY ElementOfSeq
    <2> QED
      BY <2>1, <1>1 DEF Comment
  <1> SUFFICES ASSUME NEW i \in DOMAIN told,
                      \E j \in DOMAIN told : i < j /\ ~(told[i].at <= told[j].at)
               PROVE  FALSE
    OBVIOUS
  <1> DEFINE Late_ == {j \in DOMAIN told : i < j /\ ~(told[i].at <= told[j].at)}
  <1>3. Late_ # {} /\ Late_ \in SUBSET Nat
    BY <1>1
  <1>4. PICK j \in Late_ : \A m \in Late_ : j <= m
    BY <1>3, LeastNatural
  <1>5. j \in 1 .. Len(told) /\ i \in 1 .. Len(told) /\ i < j
    BY <1>1, <1>4
  <1>6. j - 1 \in DOMAIN told /\ i <= j - 1 /\ ~(j <= j - 1)
    BY <1>1, <1>5
  <1>7. told[i].at <= told[j - 1].at
    <2>1. CASE i = j - 1
      <3>1. told[i].at \in Nat
        BY <1>2
      <3> QED
        BY <2>1, <3>1
    <2>2. CASE i < j - 1
      BY <2>2, <1>4, <1>6
    <2> QED
      BY <2>1, <2>2, <1>5, <1>6
  <1>8. told[j - 1].at <= told[(j - 1) + 1].at
    <2>1. (j - 1) + 1 = j
      BY <1>5
    <2> QED
      BY <1>6, <2>1, <1>4 DEF CommentsPass
  <1>9. told[i].at <= told[j].at
    BY <1>2, <1>4, <1>5, <1>6, <1>7, <1>8
  <1> QED
    BY <1>4, <1>9

-----------------------------------------------------------------------------
(* Whole seconds, and the metrics made of them.                            *)

\* Multiplying by a natural number keeps an order.
LEMMA ProductsInOrder ==
    ASSUME NEW n \in Nat, NEW a \in Nat, NEW b \in Nat, a <= b
    PROVE  n * a <= n * b
  <1>1. PICK k \in Nat : b = a + k
    <2> WITNESS b - a \in Nat
    <2> QED
      BY SMT
  <1>2. n * k \in Nat /\ n * a \in Nat
    BY SMT
  <1>3. n * b = n * a + n * k
    BY <1>1, SMT
  <1> QED
    BY <1>2, <1>3, SMT

\* The whole seconds in a number of ticks.
LEMMA WholeSeconds ==
    ASSUME NEW a \in Nat
    PROVE  /\ a \div PerSecond \in Nat
           /\ PerSecond * (a \div PerSecond) <= a
           /\ a < PerSecond * ((a \div PerSecond) + 1)
  BY PerSecondAssumption, SMT

\* A longer time has no fewer of them.
LEMMA SecondsInOrder ==
    ASSUME NEW a \in Nat, NEW b \in Nat, a <= b
    PROVE  a \div PerSecond <= b \div PerSecond
  <1> DEFINE q == a \div PerSecond
             r == b \div PerSecond
  <1>1. /\ q \in Nat /\ r \in Nat
        /\ PerSecond * q <= a /\ b < PerSecond * (r + 1)
    BY WholeSeconds
  <1> HIDE DEF q, r
  <1>2. ASSUME r + 1 <= q PROVE FALSE
    <2>1. PerSecond * (r + 1) <= PerSecond * q
      BY <1>1, <1>2, PerSecondAssumption, ProductsInOrder
    <2>2. PerSecond * (r + 1) \in Nat /\ PerSecond * q \in Nat
      BY <1>1, PerSecondAssumption
    <2> QED
      BY <1>1, <2>1, <2>2
  <1>3. q <= r
    BY <1>1, <1>2
  <1> QED
    BY <1>3 DEF q, r

\* Of two times, what they lack of a second may make up one more.
LEMMA SecondsOfSum ==
    ASSUME NEW a \in Nat, NEW b \in Nat
    PROVE  (a + b) \div PerSecond - (a \div PerSecond + b \div PerSecond)
            \in {0, 1}
  <1> DEFINE q == a \div PerSecond
             r == b \div PerSecond
             s == (a + b) \div PerSecond
             T(n) == PerSecond * n
  <1>1. /\ q \in Nat /\ r \in Nat /\ s \in Nat
        /\ T(q) <= a /\ a < T(q + 1)
        /\ T(r) <= b /\ b < T(r + 1)
        /\ T(s) <= a + b /\ a + b < T(s + 1)
    BY WholeSeconds
  <1> HIDE DEF q, r, s
  <1>2. \A m, n \in Nat : T(m) \in Nat /\ T(m + n) = T(m) + T(n)
    BY PerSecondAssumption
  <1>3. \A m, n \in Nat : m <= n => T(m) <= T(n)
    BY PerSecondAssumption, ProductsInOrder
  <1> HIDE DEF T
  <1>4. ASSUME s + 1 <= q + r PROVE FALSE
    <2>1. T(s + 1) <= T(q + r)
      BY <1>1, <1>3, <1>4
    <2>2. /\ T(q + r) = T(q) + T(r)
          /\ T(q) \in Nat /\ T(r) \in Nat /\ T(s + 1) \in Nat
      BY <1>1, <1>2
    <2> QED
      BY <1>1, <2>1, <2>2
  <1>5. ASSUME q + r + 2 <= s PROVE FALSE
    <2>1. T((q + 1) + (r + 1)) <= T(s)
      BY <1>1, <1>3, <1>5
    <2>2. /\ T((q + 1) + (r + 1)) = T(q + 1) + T(r + 1)
          /\ T(q + 1) \in Nat /\ T(r + 1) \in Nat /\ T(s) \in Nat
      BY <1>1, <1>2
    <2> QED
      BY <1>1, <2>1, <2>2
  <1>6. s - (q + r) \in {0, 1}
    BY <1>1, <1>4, <1>5
  <1> QED
    BY <1>6 DEF q, r, s

\* What passes between two known times, in either direction.
LEMMA ElapsedFacts ==
    ASSUME NEW a \in Nat, NEW b \in Nat, a <= b
    PROVE  /\ b - a \in Nat
           /\ (b - a) \div PerSecond \in Nat
           /\ a # 0 /\ b # 0 =>
                /\ Elapsed(a, b) = {(b - a) \div PerSecond}
                /\ Elapsed(b, a) = {-((b - a) \div PerSecond)}
           /\ \A n \in Elapsed(a, b) : n \in Nat
  <1> DEFINE q == (b - a) \div PerSecond
  <1>1. b - a \in Nat /\ q \in Nat
    BY WholeSeconds
  <1>2. Seconds(b - a) = q
    BY <1>1 DEF Seconds
  <1>3. Seconds(a - b) = -q
    <2>1. CASE a = b
      <3>1. q = 0 /\ (a - b) \div PerSecond = 0
        BY <2>1, PerSecondAssumption, SMT
      <3> QED
        BY <2>1, <3>1 DEF Seconds
    <2>2. CASE a # b
      <3>1. -(a - b) = b - a /\ ~(a - b >= 0)
        BY <2>2
      <3> QED
        BY <3>1 DEF Seconds
    <2> QED
      BY <2>1, <2>2
  <1> QED
    BY <1>1, <1>2, <1>3 DEF Elapsed

\* What the rules on times say of the metrics of a document that passes as done.
LEMMA DoneMetrics ==
    ASSUME NEW d, d.papers \in Papers, ValidDone(d)
    PROVE  /\ NonNegative(IssueCycle(d)) /\ NonNegative(UnitDurations(d))
           /\ NonNegative(WaveDurations(d))
           /\ ImplementationCycle(d) # {} /\ ReviewCycle(d) # {}
           /\ \A whole \in ImplementationCycle(d), part \in ReviewCycle(d) :
                0 <= part /\ part <= whole
           /\ TimeToStart(d) # {}
           /\ \A start \in TimeToStart(d), whole \in IssueCycle(d),
                    work \in ImplementationCycle(d) :
                IF d.papers.timing.mode = "retroactive"
                THEN start <= 0 /\ whole - (start + work) \in {-1, 0}
                ELSE start >= 0 /\ whole - (start + work) \in {0, 1}
  <1> DEFINE t == d.papers.timing
             units == d.papers.units
             waves == d.papers.waves
             S(n) == n \div PerSecond
  <1>1. /\ t \in Timing /\ units \in [Units -> Unit] /\ waves \in [Waves -> Wave]
        /\ d.papers.declared \subseteq Waves
    BY DEF Papers
  <1>2. {t.opened, t.started, t.reviewed, t.closed} \subseteq Nat
    BY <1>1 DEF Timing
  <1>3. d.state \in DoneStates /\ TimingRules(d) /\ UnitRules(d) /\ WaveRules(d)
    BY DEF ValidDone, Valid
  <1>4. d.state \in ActiveStates /\ d.state \in ReviewStates
    BY <1>3 DEF ActiveStates, ReviewStates
  <1>5. /\ t.opened # 0 /\ t.started # 0 /\ t.reviewed # 0 /\ t.closed # 0
        /\ t.started <= t.reviewed /\ t.reviewed <= t.closed
        /\ t.opened <= t.closed
        /\ t.mode = "prospective" => t.opened <= t.started
        /\ t.mode = "retroactive" => t.started < t.opened
    BY <1>3, <1>4, <1>1 DEF TimingRules, InOrder
  <1>6. t.started <= t.closed
    BY <1>2, <1>5
  <1>7. NonNegative(IssueCycle(d))
    BY <1>2, <1>5, ElapsedFacts DEF NonNegative, IssueCycle
  <1>8. NonNegative(UnitDurations(d))
    <2> SUFFICES ASSUME NEW u \in Units,
                        NEW n \in Elapsed(units[u].started, units[u].completed)
                 PROVE  n >= 0
      BY DEF NonNegative, UnitDurations
    <2>1. units[u] \in Unit
      BY <1>1
    <2>2. units[u].started \in Nat /\ units[u].completed \in Nat
      BY <2>1 DEF Unit
    <2>3. units[u].started # 0 /\ units[u].completed # 0
      BY DEF Elapsed
    <2>4. units[u].started <= units[u].completed
      BY <1>3, <2>3 DEF UnitRules, InOrder
    <2> QED
      BY <2>2, <2>4, ElapsedFacts
  <1>9. NonNegative(WaveDurations(d))
    <2> SUFFICES ASSUME NEW w \in d.papers.declared,
                        NEW n \in Elapsed(waves[w].started, waves[w].completed)
                 PROVE  n >= 0
      BY DEF NonNegative, WaveDurations
    <2>1. waves[w] \in Wave
      BY <1>1
    <2>2. waves[w].started \in Nat /\ waves[w].completed \in Nat
      BY <2>1 DEF Wave
    <2>3. waves[w].started # 0 /\ waves[w].completed # 0
      BY DEF Elapsed
    <2>4. waves[w].started <= waves[w].completed
      BY <1>3, <2>3 DEF WaveRules, InOrder
    <2> QED
      BY <2>2, <2>4, ElapsedFacts
  <1>10. /\ ImplementationCycle(d) = {S(t.closed - t.started)}
         /\ ReviewCycle(d) = {S(t.closed - t.reviewed)}
         /\ IssueCycle(d) = {S(t.closed - t.opened)}
    BY <1>2, <1>5, <1>6, ElapsedFacts
    DEF ImplementationCycle, ReviewCycle, IssueCycle
  <1>11. \A whole \in ImplementationCycle(d), part \in ReviewCycle(d) :
            0 <= part /\ part <= whole
    <2>1. /\ t.closed - t.reviewed \in Nat /\ t.closed - t.started \in Nat
          /\ t.closed - t.reviewed <= t.closed - t.started
      BY <1>2, <1>5, <1>6
    <2>2. /\ S(t.closed - t.reviewed) \in Nat
          /\ S(t.closed - t.reviewed) <= S(t.closed - t.started)
      BY <2>1, WholeSeconds, SecondsInOrder
    <2> QED
      BY <1>10, <2>2
  <1>12. ASSUME t.opened <= t.started
         PROVE  /\ TimeToStart(d) = {S(t.started - t.opened)}
                /\ S(t.started - t.opened) >= 0
                /\ S(t.closed - t.opened)
                    - (S(t.started - t.opened) + S(t.closed - t.started))
                        \in {0, 1}
    <2>1. /\ t.started - t.opened \in Nat /\ t.closed - t.started \in Nat
          /\ (t.started - t.opened) + (t.closed - t.started)
                = t.closed - t.opened
      BY <1>2, <1>5, <1>6, <1>12
    <2>2. TimeToStart(d) = {S(t.started - t.opened)}
      BY <1>2, <1>5, <1>12, ElapsedFacts DEF TimeToStart
    <2>3. S(t.started - t.opened) \in Nat
      BY <2>1, WholeSeconds
    <2> QED
      BY <2>1, <2>2, <2>3, SecondsOfSum
  <1>13. ASSUME t.started < t.opened
         PROVE  /\ TimeToStart(d) = {-S(t.opened - t.started)}
                /\ -S(t.opened - t.started) <= 0
                /\ S(t.closed - t.opened)
                    - (-S(t.opened - t.started) + S(t.closed - t.started))
                        \in {-1, 0}
    <2>1. /\ t.opened - t.started \in Nat /\ t.closed - t.opened \in Nat
          /\ (t.opened - t.started) + (t.closed - t.opened)
                = t.closed - t.started
          /\ t.closed - t.started \in Nat
      BY <1>2, <1>5, <1>6, <1>13
    <2>2. TimeToStart(d) = {-S(t.opened - t.started)}
      <3>1. t.started \in Nat /\ t.opened \in Nat /\ t.started <= t.opened
        BY <1>2, <1>13
      <3>2. Elapsed(t.opened, t.started) = {-S(t.opened - t.started)}
        BY <1>5, <3>1, ElapsedFacts
      <3> QED
        BY <3>2 DEF TimeToStart
    <2>3. /\ S(t.opened - t.started) \in Nat /\ S(t.closed - t.opened) \in Nat
          /\ S(t.closed - t.started) \in Nat
      BY <2>1, WholeSeconds
    <2>4. S(t.closed - t.started)
            - (S(t.opened - t.started) + S(t.closed - t.opened)) \in {0, 1}
      BY <2>1, SecondsOfSum
    <2> QED
      BY <2>2, <2>3, <2>4, SMT
  <1>14. /\ TimeToStart(d) # {}
         /\ \A start \in TimeToStart(d), whole \in IssueCycle(d),
                work \in ImplementationCycle(d) :
              IF t.mode = "retroactive"
              THEN start <= 0 /\ whole - (start + work) \in {-1, 0}
              ELSE start >= 0 /\ whole - (start + work) \in {0, 1}
    <2> HIDE DEF S
    <2>1. CASE t.mode = "retroactive"
      BY <1>5, <1>10, <1>13, <2>1
    <2>2. CASE t.mode # "retroactive"
      <3>1. t.mode = "prospective"
        BY <1>1, <2>2 DEF Timing
      <3> QED
        BY <1>5, <1>10, <1>12, <2>2, <3>1
    <2> QED
      BY <2>1, <2>2
  <1>15. ImplementationCycle(d) # {} /\ ReviewCycle(d) # {}
    BY <1>10
  <1> QED
    BY <1>7, <1>8, <1>9, <1>11, <1>14, <1>15

\* The metrics of every document that passes as done are sound, for every time
\* its fields may hold.
THEOREM MetricsHold == Spec => []MetricsAreSound
  <1>1. TypeOK => MetricsAreSound
    <2> SUFFICES ASSUME TypeOK, papers # NoPapers, ValidDone(Doc)
                 PROVE  MetricsAreSound
      BY DEF MetricsAreSound
    <2>1. Doc.comments = comments /\ Doc.papers = papers
      BY DEF Doc
    <2>2. comments \in Seq(Comment) /\ papers \in Papers
      BY DEF TypeOK
    <2>3. CommentsPass(comments)
      BY <2>1 DEF ValidDone, Valid
    <2>4. \A i, j \in DOMAIN comments : i < j => comments[i].at <= comments[j].at
      BY <2>2, <2>3, CommentsInOrder
    <2> QED
      BY <2>1, <2>2, <2>4, DoneMetrics DEF MetricsAreSound
  <1> QED
    BY <1>1, TypesHold, PTL

-----------------------------------------------------------------------------
(* Every document that passes on the way can be finished.                  *)

UnitCount == Cardinality(Named)

\* The order of the units has every unit that has a name, once.
LEMMA OrderIsWhole ==
    /\ UnitCount \in Nat \ {0}
    /\ Order \in [1 .. UnitCount -> Named]
    /\ \A u \in Named : \E i \in 1 .. UnitCount : Order[i] = u
  <1> DEFINE Once(s) == \A i, j \in DOMAIN s : s[i] = s[j] => i = j
  <1>1. UnitCount \in Nat /\ ExistsBijection(1 .. UnitCount, Named)
    BY UnitsAssumption, FS_CardinalityType DEF UnitCount
  <1>2. UnitCount # 0
    BY UnitsAssumption, FS_EmptySet DEF UnitCount
  <1>3. PICK f : f \in Bijection(1 .. UnitCount, Named)
    BY <1>1 DEF ExistsBijection
  <1>4. f \in [1 .. UnitCount -> Named] /\ Once(f)
    BY <1>3 DEF Bijection, Injection, IsInjective
  <1>5. Order \in [1 .. UnitCount -> Named] /\ Once(Order)
    BY <1>4 DEF Order, UnitCount
  <1>6. Order \in Injection(1 .. UnitCount, Named)
    BY <1>5 DEF Injection, IsInjective
  <1>7. Cardinality(1 .. UnitCount) = UnitCount
    BY <1>1, FS_Interval
  <1>8. Order \in Surjection(1 .. UnitCount, Named)
    BY <1>6, <1>7, UnitsAssumption, FS_Injection DEF UnitCount
  <1>9. \A u \in Named : \E i \in 1 .. UnitCount : Order[i] = u
    BY <1>8 DEF Surjection
  <1> QED
    BY <1>1, <1>2, <1>5, <1>9

LEMMA LastFacts ==
    ASSUME comments \in Seq(Comment)
    PROVE  LastAt \in Nat \ {0} /\ LastState \in AllowedStates
  <1>1. comments # <<>> => comments[Len(comments)] \in Comment
    BY LenProperties, EmptySeq, ElementOfSeq
  <1> QED
    BY <1>1 DEF LastAt, LastState, Comment, AllowedStates, GatedStates

\* A remark of an orderly continuation passes where its state follows.
LEMMA RemarkFits ==
    ASSUME comments \in Seq(Comment), NEW phase \in Phases, NEW unit \in Named,
           NEW before \in AllowedStates, NEW after \in StatesAfter(phase),
           phase = "START" => before = "ready",
           NEW c, c = Remark(phase, unit, before, after)
    PROVE  /\ c \in Comment /\ CommentRules(c) /\ BodyRules(c)
           /\ c.phase = phase /\ c.unit = unit /\ c.wave = NoWave
           /\ c.before = before /\ c.after = after /\ c.at = LastAt
  <1>1. after \in AllowedStates
    BY DEF StatesAfter, Phases, AllowedStates, GatedStates, ActiveStates,
           ReviewStates, DoneStates
  <1>2. c = [phase |-> phase, unit |-> unit, wave |-> NoWave, before |-> before,
             after |-> after, at |-> LastAt, filled |-> TRUE,
             explained |-> TRUE, context |-> "plain"]
    BY DEF Remark
  <1>3. c \in Comment
    BY <1>1, <1>2, LastFacts DEF Comment
  <1>4. CommentRules(c)
    BY <1>2 DEF CommentRules
  <1>5. BodyRules(c)
    BY <1>2 DEF BodyRules, Escaped
  <1> QED
    BY <1>2, <1>3, <1>4, <1>5

\* Comments that pass are continued by comments that pass, are made at the time
\* of the last one, and follow on one another.
LEMMA ContinuationPasses ==
    ASSUME comments \in Seq(Comment), CommentsPass(comments),
           NEW rest \in Seq(Comment), rest # <<>>,
           \A i \in DOMAIN rest :
                /\ CommentRules(rest[i]) /\ BodyRules(rest[i])
                /\ rest[i].at = LastAt
                /\ rest[i].phase = "START" <=> comments = <<>> /\ i = 1,
           \A i \in DOMAIN rest : i + 1 \in DOMAIN rest =>
                rest[i].after = rest[i + 1].before,
           comments # <<>> => rest[1].before = LastState
    PROVE  CommentsPass(comments \o rest)
  <1> DEFINE n == Len(comments)
             all == comments \o rest
  <1>1. /\ n \in Nat /\ DOMAIN comments = 1 .. n
        /\ Len(rest) \in Nat /\ DOMAIN rest = 1 .. Len(rest)
        /\ comments = <<>> <=> n = 0
    BY LenProperties, EmptySeq
  <1>2. /\ all \in Seq(Comment) /\ DOMAIN all = 1 .. n + Len(rest)
        /\ \A i \in 1 .. n + Len(rest) :
            all[i] = IF i <= n THEN comments[i] ELSE rest[i - n]
    BY ConcatProperties, LenProperties
  <1>3. LastAt \in Nat
    BY LastFacts
  <1> HIDE DEF all
  <1>4. ASSUME NEW i \in DOMAIN all
        PROVE  /\ CommentRules(all[i]) /\ BodyRules(all[i])
               /\ i = 1 <=> all[i].phase = "START"
    <2>1. i \in 1 .. n + Len(rest)
      BY <1>2
    <2>2. CASE i <= n
      <3>1. i \in DOMAIN comments /\ all[i] = comments[i]
        BY <1>1, <1>2, <2>1, <2>2
      <3> QED
        BY <3>1 DEF CommentsPass
    <2>3. CASE ~(i <= n)
      <3>1. i - n \in DOMAIN rest /\ all[i] = rest[i - n]
        <4>1. i - n \in 1 .. Len(rest)
          BY <1>1, <2>1, <2>3
        <4>2. all[i] = rest[i - n]
          BY <1>2, <2>1, <2>3
        <4> QED
          BY <1>1, <4>1, <4>2
      <3>2. i = 1 <=> n = 0 /\ i - n = 1
        BY <1>1, <2>1, <2>3
      <3> QED
        BY <1>1, <3>1, <3>2
    <2> QED
      BY <2>2, <2>3
  <1>5. ASSUME NEW i \in DOMAIN all, i + 1 \in DOMAIN all
        PROVE  all[i].after = all[i + 1].before /\ all[i].at <= all[i + 1].at
    <2>1. i \in 1 .. n + Len(rest) /\ i + 1 \in 1 .. n + Len(rest)
      BY <1>2, <1>5
    <2>2. CASE i + 1 <= n
      <3>1. /\ i \in DOMAIN comments /\ i + 1 \in DOMAIN comments
            /\ all[i] = comments[i] /\ all[i + 1] = comments[i + 1]
        BY <1>1, <1>2, <2>1, <2>2
      <3> QED
        BY <3>1 DEF CommentsPass
    <2>3. CASE i = n
      <3>1. /\ all[i] = comments[n] /\ all[i + 1] = rest[1]
            /\ comments # <<>> /\ 1 \in DOMAIN rest
        BY <1>1, <1>2, <2>1, <2>3
      <3>2. comments[n].after = LastState /\ comments[n].at = LastAt
        BY <3>1 DEF LastState, LastAt
      <3>3. rest[1].before = LastState /\ rest[1].at = LastAt
        BY <3>1
      <3> QED
        BY <1>3, <3>1, <3>2, <3>3
    <2>4. CASE i > n
      <3>1. /\ i - n \in DOMAIN rest /\ (i - n) + 1 \in DOMAIN rest
            /\ all[i] = rest[i - n] /\ all[i + 1] = rest[(i - n) + 1]
        <4>1. (i + 1) - n = (i - n) + 1 /\ ~(i <= n) /\ ~(i + 1 <= n)
          BY <1>1, <2>1, <2>4
        <4> QED
          BY <1>1, <1>2, <2>1, <4>1
      <3> QED
        BY <1>3, <3>1
    <2> QED
      BY <1>1, <2>1, <2>2, <2>3, <2>4
  <1>6. CommentsPass(all)
    BY <1>4, <1>5 DEF CommentsPass
  <1> QED
    BY <1>6 DEF all

\* What the papers say once everything is in good order.
LEMMA GoodPapersPass ==
    ASSUME NEW d, NEW e, d.papers \in Papers, Valid(d),
           e.papers = InGoodOrder(d.papers), e.state = "done",
           \A i \in DOMAIN e.comments :
                e.comments[i].wave \in {NoWave} \union d.papers.declared
    PROVE  /\ e.papers.closing.described
           /\ UnitRules(e) /\ WaveRules(e) /\ TimingRules(e) /\ GateRules(e)
           /\ Delivered(e) = Units
           /\ Indices(e, "FINISH") = {Len(e.comments)} => DoneRules(e)
  <1> DEFINE p == d.papers
             t == p.timing
             s == e.papers.timing
  <1>1. /\ t \in Timing /\ p.waves \in [Waves -> Wave] /\ p.declared \subseteq Waves
    BY DEF Papers
  <1>2. /\ e.papers.units = [u \in Units |->
                [status |-> "delivered", started |-> 1, completed |-> 1]]
        /\ e.papers.declared = p.declared /\ e.papers.waves = p.waves
        /\ e.papers.timing = [t EXCEPT !.started = Begun(p),
                                       !.reviewed = Late(p), !.closed = Late(p)]
        /\ e.papers.closing =
            [described |-> TRUE, acceptance |-> "passed",
             readback |-> "matching",
             review |-> [passed |-> TRUE, reviewer |-> "other",
                         session |-> "other"],
             blockers |-> FALSE, residuals |-> "none", plan |-> TRUE,
             passed |-> TRUE]
    BY DEF InGoodOrder
  <1>3. Delivered(e) = Units
    BY <1>2 DEF Delivered
  <1>4. UnitRules(e)
    BY <1>2 DEF UnitRules, InOrder
  <1>5. WaveRules(e)
    <2>1. WaveRules(d)
      BY DEF Valid
    <2>2. ASSUME NEW w \in p.declared PROVE p.waves[w].members \subseteq Delivered(e)
      <3>1. p.waves[w] \in Wave
        BY <1>1
      <3> QED
        BY <1>3, <3>1 DEF Wave
    <2> QED
      BY <1>2, <2>1, <2>2 DEF WaveRules
  <1>6. TimingRules(e)
    <2>1. TimingRules(d)
      BY DEF Valid
    <2>2. /\ t.opened \in Nat /\ t.opened # 1 /\ t.started \in Nat
          /\ t.reviewed \in Nat /\ t.closed \in Nat
          /\ t.mode \in {"prospective", "retroactive"}
      BY <1>1 DEF Timing
    <2>3. /\ t.opened # 0
          /\ t.mode = "prospective" => InOrder(t.opened, t.started)
          /\ t.mode = "retroactive" =>
                t.explained /\ (t.started # 0 => t.started < t.opened)
      BY <2>1 DEF TimingRules
    <2>4. /\ s.opened = t.opened /\ s.mode = t.mode /\ s.explained = t.explained
          /\ s.started = Begun(p) /\ s.reviewed = Late(p) /\ s.closed = Late(p)
      BY <1>1, <1>2 DEF Timing
    <2>5. Late(p) \in Nat /\ Late(p) > t.opened /\ Late(p) > t.started
      BY <2>2 DEF Late
    <2>6. /\ Begun(p) \in Nat /\ Begun(p) # 0 /\ Begun(p) <= Late(p)
          /\ t.mode = "prospective" => t.opened <= Begun(p)
          /\ t.mode = "retroactive" => Begun(p) < t.opened
      <3>1. CASE t.started # 0
        BY <2>2, <2>3, <2>5, <3>1 DEF Begun, InOrder
      <3>2. CASE t.started = 0 /\ t.mode = "retroactive"
        BY <2>2, <2>3, <2>5, <3>2 DEF Begun
      <3>3. CASE t.started = 0 /\ t.mode = "prospective"
        BY <2>2, <2>3, <2>5, <3>3 DEF Begun
      <3> QED
        BY <2>2, <3>1, <3>2, <3>3
    <2>7. s.mode = "retroactive" => s.explained
      BY <2>3, <2>4
    <2> QED
      BY <2>2, <2>3, <2>4, <2>5, <2>6, <2>7 DEF TimingRules, InOrder
  <1>7. GateRules(e)
    BY <1>2 DEF GateRules
  <1>8. Indices(e, "FINISH") = {Len(e.comments)} => DoneRules(e)
    BY <1>2, <1>3 DEF DoneRules, ReadbackRules, IndependentReview, DoneStates
  <1> QED
    BY <1>2, <1>3, <1>4, <1>5, <1>6, <1>7, <1>8

\* The comments that continue a record which has not been reviewed yet.
Rest == Start \o Work \o Review \o Finish("review")
FirstBefore(i) ==
    IF i = 1 /\ comments # <<>> THEN LastState ELSE "in_progress"
StartRemark == Remark("START", Order[1], "ready", "in_progress")
WorkRemark(i) == Remark("PROGRESS", Order[i], FirstBefore(i), "in_progress")
ReviewRemark == Remark("REVIEW", Order[1], "in_progress", "review")
FinishRemark(before) == Remark("FINISH", Order[1], before, "done")

\* What is known of a comment that is one of the continuation.
Fits(c, phase, unit, before, after) ==
    /\ c \in Comment /\ CommentRules(c) /\ BodyRules(c)
    /\ c.phase = phase /\ c.unit = unit /\ c.wave = NoWave
    /\ c.before = before /\ c.after = after /\ c.at = LastAt

LEMMA RestRemarks ==
    ASSUME comments \in Seq(Comment)
    PROVE  /\ Fits(StartRemark, "START", Order[1], "ready", "in_progress")
           /\ \A i \in 1 .. UnitCount :
                Fits(WorkRemark(i), "PROGRESS", Order[i], FirstBefore(i),
                     "in_progress")
           /\ Fits(ReviewRemark, "REVIEW", Order[1], "in_progress", "review")
           /\ \A before \in AllowedStates :
                Fits(FinishRemark(before), "FINISH", Order[1], before, "done")
  <1>1. Order[1] \in Named /\ \A i \in 1 .. UnitCount : Order[i] \in Named
    BY OrderIsWhole
  <1>2. /\ "in_progress" \in StatesAfter("START")
        /\ "in_progress" \in StatesAfter("PROGRESS")
        /\ "review" \in StatesAfter("REVIEW")
        /\ "done" \in StatesAfter("FINISH")
    BY DEF StatesAfter, ReviewStates, DoneStates
  <1>3. {"ready", "in_progress"} \subseteq AllowedStates
    BY DEF AllowedStates, GatedStates, ActiveStates
  <1>4. {"START", "PROGRESS", "REVIEW", "FINISH"} \subseteq Phases
    BY DEF Phases
  <1>5. ASSUME NEW phase \in Phases, NEW unit \in Named,
               NEW before \in AllowedStates, NEW after \in StatesAfter(phase),
               phase = "START" => before = "ready"
        PROVE  Fits(Remark(phase, unit, before, after), phase, unit, before, after)
    <2>1. PICK c : c = Remark(phase, unit, before, after)
      OBVIOUS
    <2>2. Fits(c, phase, unit, before, after)
      BY <1>5, <2>1, RemarkFits DEF Fits
    <2> QED
      BY <2>1, <2>2
  <1>6. Fits(StartRemark, "START", Order[1], "ready", "in_progress")
    BY <1>1, <1>2, <1>3, <1>4, <1>5 DEF StartRemark
  <1>7. ASSUME NEW i \in 1 .. UnitCount
        PROVE  Fits(WorkRemark(i), "PROGRESS", Order[i], FirstBefore(i),
                    "in_progress")
    <2>1. FirstBefore(i) \in AllowedStates
      BY <1>3, LastFacts DEF FirstBefore
    <2> QED
      BY <1>1, <1>2, <1>4, <1>5, <2>1 DEF WorkRemark
  <1>8. Fits(ReviewRemark, "REVIEW", Order[1], "in_progress", "review")
    BY <1>1, <1>2, <1>3, <1>4, <1>5 DEF ReviewRemark
  <1>9. ASSUME NEW before \in AllowedStates
        PROVE  Fits(FinishRemark(before), "FINISH", Order[1], before, "done")
    BY <1>1, <1>2, <1>4, <1>5 DEF FinishRemark
  <1> QED
    BY <1>6, <1>7, <1>8, <1>9

\* A start if there is none, every unit, the review and the finish.
LEMMA RestShape ==
    ASSUME comments \in Seq(Comment)
    PROVE  LET k == IF comments = <<>> THEN 1 ELSE 0
               n == k + UnitCount IN
           /\ Rest \in Seq(Comment) /\ Len(Rest) = n + 2
           /\ DOMAIN Rest = 1 .. n + 2
           /\ k = 1 => Rest[1] = StartRemark
           /\ \A i \in 1 .. UnitCount : Rest[k + i] = WorkRemark(i)
           /\ Rest[n + 1] = ReviewRemark /\ Rest[n + 2] = FinishRemark("review")
           /\ comments \o Start \o Work \o Review \o Finish("review")
                = comments \o Rest
  <1> DEFINE k == IF comments = <<>> THEN 1 ELSE 0
             n == k + UnitCount
             begin == Start
             work == Work
             review == Review
             finish == Finish("review")
  <1>0. "review" \in AllowedStates
    BY DEF AllowedStates, GatedStates, ActiveStates, ReviewStates
  <1>1. /\ UnitCount \in Nat \ {0} /\ DOMAIN Order = 1 .. UnitCount
        /\ StartRemark \in Comment /\ ReviewRemark \in Comment
        /\ FinishRemark("review") \in Comment
        /\ \A i \in 1 .. UnitCount : WorkRemark(i) \in Comment
    BY <1>0, OrderIsWhole, RestRemarks DEF Fits
  <1>2. /\ begin \in Seq(Comment) /\ Len(begin) = k
        /\ k = 1 => begin[1] = StartRemark
    BY <1>1 DEF Start, StartRemark
  <1>3. /\ work \in Seq(Comment) /\ Len(work) = UnitCount
        /\ \A i \in 1 .. UnitCount : work[i] = WorkRemark(i)
    <2>1. work = [i \in 1 .. UnitCount |-> WorkRemark(i)]
      BY <1>1 DEF Work, WorkRemark, FirstBefore
    <2> HIDE DEF work
    <2> QED
      BY <1>1, <2>1
  <1>4. review \in Seq(Comment) /\ Len(review) = 1 /\ review[1] = ReviewRemark
    BY <1>1 DEF Review, ReviewRemark
  <1>5. /\ finish \in Seq(Comment) /\ Len(finish) = 1
        /\ finish[1] = FinishRemark("review")
    BY <1>1 DEF Finish, FinishRemark
  <1>6. Rest = ((begin \o work) \o review) \o finish
    BY DEF Rest
  <1>7. k \in {0, 1} /\ n \in Nat
    BY <1>1
  <1> HIDE DEF begin, work, review, finish, k
  <1>8. PICK a : a = begin \o work
    OBVIOUS
  <1>9. /\ a \in Seq(Comment) /\ Len(a) = n
        /\ \A i \in 1 .. n : a[i] = IF i <= k THEN begin[i] ELSE work[i - k]
    BY <1>2, <1>3, <1>8, ConcatProperties
  <1>10. PICK b : b = a \o review
    OBVIOUS
  <1>11. /\ b \in Seq(Comment) /\ Len(b) = n + 1
         /\ \A i \in 1 .. n + 1 : b[i] = IF i <= n THEN a[i] ELSE review[i - n]
    <2>1. /\ a \o review \in Seq(Comment)
          /\ Len(a \o review) = Len(a) + Len(review)
          /\ \A i \in 1 .. Len(a) + Len(review) : (a \o review)[i] =
                IF i <= Len(a) THEN a[i] ELSE review[i - Len(a)]
      BY <1>4, <1>9, ConcatProperties
    <2> QED
      BY <1>4, <1>9, <1>10, <2>1
  <1>12. Rest = b \o finish
    BY <1>6, <1>8, <1>10
  <1>13. /\ Rest \in Seq(Comment) /\ Len(Rest) = n + 2
         /\ \A i \in 1 .. n + 2 :
                Rest[i] = IF i <= n + 1 THEN b[i] ELSE finish[i - (n + 1)]
    <2>1. /\ b \o finish \in Seq(Comment)
          /\ Len(b \o finish) = Len(b) + Len(finish)
          /\ \A i \in 1 .. Len(b) + Len(finish) : (b \o finish)[i] =
                IF i <= Len(b) THEN b[i] ELSE finish[i - Len(b)]
      BY <1>5, <1>11, ConcatProperties
    <2>2. Len(b) + Len(finish) = n + 2 /\ Len(b) = n + 1
      BY <1>5, <1>7, <1>11
    <2> QED
      BY <1>12, <2>1, <2>2
  <1>14. DOMAIN Rest = 1 .. n + 2
    BY <1>13, LenProperties
  <1>15. k = 1 => Rest[1] = StartRemark
    BY <1>1, <1>2, <1>7, <1>9, <1>11, <1>13
  <1>16. ASSUME NEW i \in 1 .. UnitCount PROVE Rest[k + i] = WorkRemark(i)
    <2>1. /\ k + i \in 1 .. n /\ k + i \in 1 .. n + 1 /\ k + i \in 1 .. n + 2
          /\ ~(k + i <= k) /\ (k + i) - k = i /\ k + i <= n /\ k + i <= n + 1
      BY <1>1, <1>7
    <2> QED
      BY <1>3, <1>9, <1>11, <1>13, <2>1
  <1>17. Rest[n + 1] = ReviewRemark
    <2>1. /\ n + 1 \in 1 .. n + 1 /\ n + 1 \in 1 .. n + 2 /\ ~(n + 1 <= n)
          /\ (n + 1) - n = 1 /\ n + 1 <= n + 1
      BY <1>7
    <2> QED
      BY <1>4, <1>11, <1>13, <2>1
  <1>18. Rest[n + 2] = FinishRemark("review")
    <2>1. /\ n + 2 \in 1 .. n + 2 /\ ~(n + 2 <= n + 1)
          /\ (n + 2) - (n + 1) = 1
      BY <1>7
    <2> QED
      BY <1>5, <1>13, <2>1
  <1>19. (((comments \o begin) \o work) \o review) \o finish = comments \o Rest
    <2>1. (comments \o begin) \o work = comments \o a
      BY <1>2, <1>3, <1>8, ConcatAssociative
    <2>2. (comments \o a) \o review = comments \o b
      BY <1>4, <1>9, <1>10, ConcatAssociative
    <2>3. (comments \o b) \o finish = comments \o Rest
      BY <1>5, <1>11, <1>12, ConcatAssociative
    <2> QED
      BY <2>1, <2>2, <2>3
  <1> QED
    BY <1>13, <1>14, <1>15, <1>16, <1>17, <1>18, <1>19
       DEF k, begin, work, review, finish

\* Which comment of the continuation is of which phase.
LEMMA RestPhases ==
    ASSUME comments \in Seq(Comment)
    PROVE  /\ Rest # <<>> /\ Rest \in Seq(Comment)
           /\ \A i \in DOMAIN Rest :
                /\ CommentRules(Rest[i]) /\ BodyRules(Rest[i])
                /\ Rest[i].at = LastAt /\ Rest[i].wave = NoWave
                /\ Rest[i].phase = "START" <=> comments = <<>> /\ i = 1
                /\ Rest[i].phase = "PROGRESS" => i < Len(Rest) - 1
                /\ Rest[i].phase = "REVIEW" <=> i = Len(Rest) - 1
                /\ Rest[i].phase = "FINISH" <=> i = Len(Rest)
                /\ Rest[i].phase # "BLOCKED"
           /\ \A i \in DOMAIN Rest : i + 1 \in DOMAIN Rest =>
                Rest[i].after = Rest[i + 1].before
           /\ comments # <<>> => Rest[1].before = LastState
           /\ \A unit \in Named : \E i \in DOMAIN Rest :
                Rest[i].phase = "PROGRESS" /\ Rest[i].unit = unit
  <1> DEFINE k == IF comments = <<>> THEN 1 ELSE 0
             n == k + UnitCount
  <1>1. /\ Rest \in Seq(Comment) /\ Len(Rest) = n + 2
        /\ DOMAIN Rest = 1 .. n + 2
        /\ k = 1 => Rest[1] = StartRemark
        /\ \A i \in 1 .. UnitCount : Rest[k + i] = WorkRemark(i)
        /\ Rest[n + 1] = ReviewRemark /\ Rest[n + 2] = FinishRemark("review")
    BY RestShape
  <1>2. /\ UnitCount \in Nat \ {0} /\ k \in {0, 1} /\ n \in Nat
        /\ comments = <<>> <=> k = 1
    BY OrderIsWhole
  <1>3. "review" \in AllowedStates
    BY DEF AllowedStates, GatedStates, ActiveStates, ReviewStates
  <1>4. /\ k = 1 => Fits(Rest[1], "START", Order[1], "ready", "in_progress")
        /\ \A i \in 1 .. UnitCount : Fits(Rest[k + i], "PROGRESS", Order[i],
                FirstBefore(i), "in_progress")
        /\ Fits(Rest[n + 1], "REVIEW", Order[1], "in_progress", "review")
        /\ Fits(Rest[n + 2], "FINISH", Order[1], "review", "done")
    BY <1>1, <1>3, RestRemarks
  <1> HIDE DEF k
  <1>5. \A i \in k + 1 .. n :
            Fits(Rest[i], "PROGRESS", Order[i - k], FirstBefore(i - k),
                 "in_progress")
    <2> TAKE i \in k + 1 .. n
    <2>1. i - k \in 1 .. UnitCount /\ k + (i - k) = i
      BY <1>2
    <2> QED
      BY <1>4, <2>1
  <1>6. \A i \in DOMAIN Rest :
            \/ k = 1 /\ i = 1 /\ Rest[i].phase = "START"
            \/ i \in k + 1 .. n /\ Rest[i].phase = "PROGRESS"
            \/ i = n + 1 /\ Rest[i].phase = "REVIEW"
            \/ i = n + 2 /\ Rest[i].phase = "FINISH"
    <2> TAKE i \in DOMAIN Rest
    <2>1. (k = 1 /\ i = 1) \/ i \in k + 1 .. n \/ i = n + 1 \/ i = n + 2
      BY <1>1, <1>2
    <2> QED
      BY <1>4, <1>5, <2>1 DEF Fits
  <1>7. ASSUME NEW i \in DOMAIN Rest
        PROVE  /\ CommentRules(Rest[i]) /\ BodyRules(Rest[i])
               /\ Rest[i].at = LastAt /\ Rest[i].wave = NoWave
    <2>1. (k = 1 /\ i = 1) \/ i \in k + 1 .. n \/ i = n + 1 \/ i = n + 2
      BY <1>1, <1>2
    <2> QED
      BY <1>4, <1>5, <2>1 DEF Fits
  <1>8. ASSUME NEW i \in DOMAIN Rest
        PROVE  /\ Rest[i].phase = "START" <=> comments = <<>> /\ i = 1
               /\ Rest[i].phase = "PROGRESS" => i < Len(Rest) - 1
               /\ Rest[i].phase = "REVIEW" <=> i = Len(Rest) - 1
               /\ Rest[i].phase = "FINISH" <=> i = Len(Rest)
               /\ Rest[i].phase # "BLOCKED"
    <2>1. i \in 1 .. n + 2 /\ Len(Rest) - 1 = n + 1
      BY <1>1, <1>2
    <2> QED
      BY <1>1, <1>2, <1>6, <2>1
  <1>9. ASSUME NEW i \in DOMAIN Rest, i + 1 \in DOMAIN Rest
        PROVE  Rest[i].after = Rest[i + 1].before
    <2>1. i \in 1 .. n + 1
      BY <1>1, <1>2, <1>9
    <2>2. CASE k = 1 /\ i = 1
      <3>1. i + 1 \in k + 1 .. n /\ (i + 1) - k = 1
        BY <1>2, <2>2
      <3>2. Fits(Rest[i + 1], "PROGRESS", Order[1], FirstBefore(1), "in_progress")
        BY <1>5, <3>1
      <3>3. FirstBefore(1) = "in_progress"
        BY <1>2, <2>2 DEF FirstBefore
      <3> QED
        BY <1>4, <2>2, <3>2, <3>3 DEF Fits
    <2>3. CASE i \in k + 1 .. n /\ i < n
      <3>1. i + 1 \in k + 1 .. n /\ (i + 1) - k # 1
        BY <1>2, <2>3
      <3>2. Rest[i + 1].before = "in_progress"
        BY <1>5, <3>1 DEF Fits, FirstBefore
      <3> QED
        BY <1>5, <2>3, <3>2 DEF Fits
    <2>4. CASE i = n
      <3>1. i \in k + 1 .. n
        BY <1>2, <2>4
      <3> QED
        BY <1>4, <1>5, <2>4, <3>1 DEF Fits
    <2>5. CASE i = n + 1
      <3>1. i + 1 = n + 2
        BY <1>2, <2>5
      <3> QED
        BY <1>4, <2>5, <3>1 DEF Fits
    <2> QED
      BY <1>2, <2>1, <2>2, <2>3, <2>4, <2>5
  <1>10. comments # <<>> => Rest[1].before = LastState
    <2> HAVE comments # <<>>
    <2>1. k = 0 /\ 1 \in k + 1 .. n /\ 1 - k = 1
      BY <1>2
    <2> QED
      BY <1>5, <2>1 DEF Fits, FirstBefore
  <1>11. ASSUME NEW unit \in Named
         PROVE  \E i \in DOMAIN Rest :
                    Rest[i].phase = "PROGRESS" /\ Rest[i].unit = unit
    <2>1. PICK j \in 1 .. UnitCount : Order[j] = unit
      BY OrderIsWhole
    <2>2. k + j \in DOMAIN Rest
      BY <1>1, <1>2
    <2> QED
      BY <1>4, <2>1, <2>2 DEF Fits
  <1>12. Rest # <<>>
    BY <1>1, <1>2
  <1> QED
    BY <1>1, <1>7, <1>8, <1>9, <1>10, <1>11, <1>12

\* A record that has not been reviewed goes on to the end.
LEMMA UnreviewedFinishes ==
    ASSUME comments \in Seq(Comment), papers \in Papers, Valid(Doc),
           item \notin ReviewStates
    PROVE  Valid(Finished)
  <1> DEFINE all == comments \o Rest
             n == Len(comments)
             r == n + (Len(Rest) - 1)
  <1>1. Doc.comments = comments /\ Doc.papers = papers /\ Doc.state = item
    BY DEF Doc
  <1>2. CommentsPass(comments)
    BY <1>1 DEF Valid
  <1>3. /\ \A i \in DOMAIN comments : comments[i].phase \notin {"REVIEW", "FINISH"}
        /\ WaveRules(Doc)
    BY <1>1 DEF Valid, ReviewRules, DoneRules, Indices, ReviewStates
  <1>4. /\ Finished.comments = all /\ Finished.state = "done"
        /\ Finished.papers = InGoodOrder(papers)
    BY RestShape DEF Finished
  <1>5. CommentsPass(all)
    BY <1>2, RestPhases, ContinuationPasses
  <1>6. /\ n \in Nat /\ DOMAIN comments = 1 .. n
        /\ Len(Rest) \in Nat /\ Len(Rest) > 0 /\ DOMAIN Rest = 1 .. Len(Rest)
        /\ comments = <<>> <=> n = 0
    BY RestPhases, LenProperties, EmptySeq
  <1>7. /\ all \in Seq(Comment) /\ Len(all) = n + Len(Rest)
        /\ DOMAIN all = 1 .. n + Len(Rest)
        /\ \A i \in 1 .. n + Len(Rest) :
            all[i] = IF i <= n THEN comments[i] ELSE Rest[i - n]
    BY RestPhases, ConcatProperties, LenProperties
  <1> HIDE DEF all
  <1>8. \A i \in DOMAIN comments : i \in DOMAIN all /\ all[i] = comments[i]
    BY <1>6, <1>7
  <1>9. \A i \in DOMAIN Rest : n + i \in DOMAIN all /\ all[n + i] = Rest[i]
    <2> TAKE i \in DOMAIN Rest
    <2>1. n + i \in 1 .. n + Len(Rest) /\ ~(n + i <= n) /\ (n + i) - n = i
      BY <1>6
    <2> QED
      BY <1>7, <2>1
  <1>10. \A i \in DOMAIN all :
            \/ i \in DOMAIN comments /\ i <= n
            \/ i - n \in DOMAIN Rest /\ i > n /\ i = n + (i - n)
    BY <1>6, <1>7
  <1>11. \A i \in DOMAIN all : all[i].wave \in {NoWave} \union papers.declared
    <2> TAKE i \in DOMAIN all
    <2>1. CASE i \in DOMAIN comments
      BY <1>1, <1>3, <1>8, <2>1 DEF WaveRules
    <2>2. CASE i - n \in DOMAIN Rest /\ i = n + (i - n)
      BY <1>9, <2>2, RestPhases
    <2> QED
      BY <1>10, <2>1, <2>2
  <1>12. /\ Finished.papers.closing.described
         /\ UnitRules(Finished) /\ WaveRules(Finished) /\ TimingRules(Finished)
         /\ GateRules(Finished) /\ Delivered(Finished) = Units
         /\ Indices(Finished, "FINISH") = {Len(all)} => DoneRules(Finished)
    <2>1. PICK d : d = Doc
      OBVIOUS
    <2>2. PICK e : e = Finished
      OBVIOUS
    <2> QED
      BY <1>1, <1>4, <1>11, <2>1, <2>2, GoodPapersPass
  <1>13. /\ r \in DOMAIN all /\ Len(Rest) - 1 \in DOMAIN Rest
         /\ n + Len(Rest) \in DOMAIN all
    <2>1. Len(Rest) \in DOMAIN Rest
      BY <1>6
    <2>2. PICK u : u \in Named
      BY UnitsAssumption
    <2>3. PICK i \in DOMAIN Rest : Rest[i].phase = "PROGRESS"
      BY <2>2, RestPhases
    <2>4. i < Len(Rest) - 1 /\ i \in 1 .. Len(Rest)
      BY <1>6, <2>3, RestPhases
    <2> QED
      BY <1>6, <1>7, <2>4
  <1>14. Indices(Finished, "REVIEW") = {r}
    <2>1. all[r].phase = "REVIEW"
      BY <1>9, <1>13, RestPhases
    <2>2. ASSUME NEW i \in DOMAIN all, all[i].phase = "REVIEW" PROVE i = r
      <3>1. i \notin DOMAIN comments
        BY <1>3, <1>8, <2>2
      <3>2. i - n \in DOMAIN Rest /\ i = n + (i - n)
        BY <1>10, <2>2, <3>1
      <3>3. i - n = Len(Rest) - 1
        BY <1>9, <2>2, <3>2, RestPhases
      <3> QED
        BY <3>2, <3>3
    <2> QED
      BY <1>4, <1>13, <2>1, <2>2 DEF Indices
  <1>15. Indices(Finished, "FINISH") = {Len(all)}
    <2>1. all[n + Len(Rest)].phase = "FINISH"
      <3>1. Len(Rest) \in DOMAIN Rest
        BY <1>6
      <3> QED
        BY <1>9, <3>1, RestPhases
    <2>2. ASSUME NEW i \in DOMAIN all, all[i].phase = "FINISH"
          PROVE  i = n + Len(Rest)
      <3>1. i \notin DOMAIN comments
        BY <1>3, <1>8, <2>2
      <3>2. i - n \in DOMAIN Rest /\ i = n + (i - n)
        BY <1>10, <2>2, <3>1
      <3>3. i - n = Len(Rest)
        BY <1>9, <2>2, <3>2, RestPhases
      <3> QED
        BY <3>2, <3>3
    <2> QED
      BY <1>4, <1>7, <1>13, <2>1, <2>2 DEF Indices
  <1>16. \A i \in Indices(Finished, "PROGRESS") : i < r
    <2> SUFFICES ASSUME NEW i \in DOMAIN all, all[i].phase = "PROGRESS"
                 PROVE  i < r
      BY <1>4 DEF Indices
    <2>1. CASE i \in DOMAIN comments /\ i <= n
      <3>1. Len(Rest) - 1 \in 1 .. Len(Rest)
        BY <1>6, <1>13
      <3> QED
        BY <1>6, <2>1, <3>1
    <2>2. CASE i - n \in DOMAIN Rest /\ i = n + (i - n)
      <3>1. i - n < Len(Rest) - 1
        BY <1>9, <2>2, RestPhases
      <3>2. i - n \in 1 .. Len(Rest)
        BY <1>6, <2>2
      <3> QED
        BY <1>6, <1>7, <3>1, <3>2
    <2> QED
      BY <1>10, <2>1, <2>2
  <1>17. ASSUME NEW unit \in Named
         PROVE  \E i \in Indices(Finished, "PROGRESS") : i > n /\ all[i].unit = unit
    <2>1. PICK i \in DOMAIN Rest : Rest[i].phase = "PROGRESS" /\ Rest[i].unit = unit
      BY RestPhases
    <2>2. n + i \in DOMAIN all /\ all[n + i] = Rest[i] /\ n + i > n
      BY <1>6, <1>9
    <2> QED
      BY <1>4, <2>1, <2>2 DEF Indices
  <1>18. ASSUME NEW i \in Indices(Finished, "BLOCKED")
         PROVE  Resumed(Finished, i, r)
    <2>1. i \in DOMAIN all /\ all[i].phase = "BLOCKED"
      BY <1>4 DEF Indices
    <2>2. ~(i - n \in DOMAIN Rest /\ i = n + (i - n))
      BY <1>9, <2>1, RestPhases
    <2>3. i \in DOMAIN comments /\ i <= n
      BY <1>10, <2>1, <2>2
    <2>4. all[i].unit \in Named
      <3>1. all[i] \in Comment
        BY <1>7, <2>1, ElementOfSeq
      <3> QED
        BY <3>1 DEF Comment
    <2>5. PICK j \in Indices(Finished, "PROGRESS") : j > n /\ all[j].unit = all[i].unit
      BY <1>17, <2>4
    <2>6. i < j
      <3>1. j \in DOMAIN all
        BY <1>4 DEF Indices
      <3> QED
        BY <1>6, <1>7, <2>3, <2>5, <3>1
    <2> QED
      BY <1>4, <1>16, <2>5, <2>6 DEF Resumed
  <1>19. Units \subseteq Progressed(Finished)
    BY <1>4, <1>17, UnitsAssumption DEF Progressed
  <1>20. ReviewRules(Finished)
    BY <1>4, <1>12, <1>14, <1>16, <1>18, <1>19
       DEF ReviewRules, ReviewStates, DoneStates
  <1>21. StartRules(Finished)
    <2>1. 1 \in DOMAIN all
      BY <1>6, <1>7
    <2>2. all[1].phase = "START"
      BY <1>5, <2>1 DEF CommentsPass
    <2> QED
      BY <1>4, <2>1, <2>2 DEF StartRules, Indices
  <1>22. BlockedRules(Finished)
    BY <1>4 DEF BlockedRules
  <1> QED
    BY <1>4, <1>5, <1>12, <1>15, <1>20, <1>21, <1>22 DEF Valid

\* A record under review ends with its review.
LEMMA ReviewIsLast ==
    ASSUME comments \in Seq(Comment), Valid(Doc),
           item \in ReviewStates, item \notin DoneStates
    PROVE  /\ comments # <<>> /\ Len(comments) \in Nat \ {0}
           /\ DOMAIN comments = 1 .. Len(comments)
           /\ Indices(Doc, "REVIEW") = {Len(comments)}
           /\ Indices(Doc, "FINISH") = {}
           /\ \A i \in Indices(Doc, "PROGRESS") : i < Len(comments)
           /\ \A i \in Indices(Doc, "BLOCKED") : Resumed(Doc, i, Len(comments))
  <1>1. Doc.comments = comments /\ Doc.state = item
    BY DEF Doc
  <1>2. PICK r \in Indices(Doc, "REVIEW") :
            /\ Indices(Doc, "REVIEW") = {r}
            /\ \A i \in Indices(Doc, "PROGRESS") : i < r
            /\ \A i \in Indices(Doc, "BLOCKED") : Resumed(Doc, i, r)
    BY <1>1 DEF Valid, ReviewRules
  <1>3. Indices(Doc, "FINISH") = {}
    BY <1>1 DEF Valid, DoneRules
  <1>4. r \in DOMAIN comments /\ comments[r].phase = "REVIEW"
    BY <1>1, <1>2 DEF Indices
  <1>5. Len(comments) \in Nat /\ DOMAIN comments = 1 .. Len(comments)
    BY LenProperties
  <1>6. ASSUME r # Len(comments) PROVE FALSE
    <2> DEFINE i == Len(comments)
    <2>1. i \in DOMAIN comments /\ i > r /\ i # 1
      BY <1>4, <1>5, <1>6
    <2>2. comments[i].phase \in Phases /\ comments[i].phase # "START"
      BY <1>1, <2>1 DEF Valid, CommentsPass, CommentRules
    <2>3. comments[i].phase \notin {"REVIEW", "FINISH"}
      BY <1>1, <1>2, <1>3, <1>6, <2>1 DEF Indices
    <2>4. comments[i].phase # "PROGRESS"
      <3> SUFFICES ASSUME comments[i].phase = "PROGRESS" PROVE FALSE
        OBVIOUS
      <3>1. i < r
        BY <1>1, <1>2, <2>1 DEF Indices
      <3> QED
        BY <1>4, <1>5, <2>1, <3>1
    <2>5. comments[i].phase # "BLOCKED"
      <3> SUFFICES ASSUME comments[i].phase = "BLOCKED" PROVE FALSE
        OBVIOUS
      <3>1. i \in Indices(Doc, "BLOCKED")
        BY <1>1, <2>1 DEF Indices
      <3>2. PICK j \in Indices(Doc, "PROGRESS") : i < j /\ j < r
        BY <1>2, <3>1 DEF Resumed
      <3>3. j \in DOMAIN comments
        BY <1>1, <3>2 DEF Indices
      <3> QED
        BY <1>4, <1>5, <2>1, <3>2, <3>3
    <2> QED
      BY <2>2, <2>3, <2>4, <2>5 DEF Phases
  <1> QED
    BY <1>2, <1>3, <1>4, <1>5, <1>6

\* A record under review is finished by one comment.
LEMMA ReviewedFinishes ==
    ASSUME comments \in Seq(Comment), papers \in Papers, Valid(Doc),
           item \in ReviewStates, item \notin DoneStates,
           Units \subseteq Progressed(Doc)
    PROVE  Valid(Finished)
  <1> DEFINE last == FinishRemark(LastState)
             rest == <<last>>
             all == comments \o rest
             r == Len(comments)
  <1>1. Doc.comments = comments /\ Doc.papers = papers /\ Doc.state = item
    BY DEF Doc
  <1>2. /\ comments # <<>> /\ r \in Nat \ {0} /\ DOMAIN comments = 1 .. r
        /\ Indices(Doc, "REVIEW") = {r} /\ Indices(Doc, "FINISH") = {}
        /\ \A i \in Indices(Doc, "PROGRESS") : i < r
        /\ \A i \in Indices(Doc, "BLOCKED") : Resumed(Doc, i, r)
    BY ReviewIsLast
  <1>3. Fits(last, "FINISH", Order[1], LastState, "done")
    BY LastFacts, RestRemarks
  <1>4. CommentsPass(comments) /\ WaveRules(Doc)
    BY <1>1 DEF Valid
  <1>5. /\ Finished.comments = all /\ Finished.state = "done"
        /\ Finished.papers = InGoodOrder(papers)
    BY DEF Finished, Finish, FinishRemark
  <1> HIDE DEF last
  <1>6. /\ rest \in Seq(Comment) /\ Len(rest) = 1 /\ DOMAIN rest = {1}
        /\ rest[1] = last /\ rest # <<>>
    BY <1>3 DEF Fits
  <1> HIDE DEF rest
  <1>7. CommentsPass(all)
    <2>1. ASSUME NEW i \in DOMAIN rest
          PROVE  /\ CommentRules(rest[i]) /\ BodyRules(rest[i])
                 /\ rest[i].at = LastAt
                 /\ rest[i].phase = "START" <=> comments = <<>> /\ i = 1
      BY <1>2, <1>3, <1>6 DEF Fits
    <2>2. \A i \in DOMAIN rest : i + 1 \notin DOMAIN rest
      BY <1>6
    <2>3. rest[1].before = LastState
      BY <1>3, <1>6 DEF Fits
    <2> QED
      BY <1>4, <1>6, <2>1, <2>2, <2>3, ContinuationPasses
  <1>8. /\ all \in Seq(Comment) /\ Len(all) = r + 1 /\ DOMAIN all = 1 .. r + 1
        /\ \A i \in 1 .. r : all[i] = comments[i]
        /\ all[r + 1] = last
    <2>1. /\ all \in Seq(Comment) /\ Len(all) = r + 1
          /\ \A i \in 1 .. r + 1 :
                all[i] = IF i <= r THEN comments[i] ELSE rest[i - r]
      BY <1>6, ConcatProperties
    <2>2. /\ \A i \in 1 .. r : i \in 1 .. r + 1 /\ i <= r
          /\ r + 1 \in 1 .. r + 1 /\ ~(r + 1 <= r) /\ (r + 1) - r = 1
      BY <1>2
    <2>3. DOMAIN all = 1 .. r + 1
      BY <2>1, LenProperties
    <2> QED
      BY <1>6, <2>1, <2>2, <2>3
  <1> HIDE DEF all
  <1>9. \A i \in DOMAIN all :
            (i \in DOMAIN comments /\ all[i] = comments[i]) \/ i = r + 1
    BY <1>2, <1>8
  <1>10. \A i \in DOMAIN comments : i \in DOMAIN all /\ all[i] = comments[i]
    BY <1>2, <1>8
  <1>11. \A phase \in Phases \ {"FINISH"} :
            Indices(Finished, phase) = Indices(Doc, phase)
    <2> TAKE phase \in Phases \ {"FINISH"}
    <2>1. all[r + 1].phase # phase
      BY <1>3, <1>8 DEF Fits
    <2> QED
      BY <1>1, <1>5, <1>9, <1>10, <2>1 DEF Indices
  <1>12. Indices(Finished, "FINISH") = {Len(all)}
    <2>1. all[r + 1].phase = "FINISH" /\ r + 1 \in DOMAIN all
      BY <1>2, <1>3, <1>8 DEF Fits
    <2>2. \A i \in DOMAIN comments : comments[i].phase # "FINISH"
      BY <1>1, <1>2 DEF Indices
    <2> QED
      BY <1>5, <1>8, <1>9, <2>1, <2>2 DEF Indices
  <1>13. \A i \in DOMAIN all : all[i].wave \in {NoWave} \union papers.declared
    <2> TAKE i \in DOMAIN all
    <2>1. CASE i \in DOMAIN comments /\ all[i] = comments[i]
      BY <1>1, <1>4, <2>1 DEF WaveRules
    <2>2. CASE i = r + 1
      BY <1>3, <1>8, <2>2 DEF Fits
    <2> QED
      BY <1>9, <2>1, <2>2
  <1>14. /\ Finished.papers.closing.described
         /\ UnitRules(Finished) /\ WaveRules(Finished) /\ TimingRules(Finished)
         /\ GateRules(Finished) /\ Delivered(Finished) = Units
         /\ Indices(Finished, "FINISH") = {Len(all)} => DoneRules(Finished)
    <2>1. PICK d : d = Doc
      OBVIOUS
    <2>2. PICK e : e = Finished
      OBVIOUS
    <2> QED
      BY <1>1, <1>5, <1>13, <2>1, <2>2, GoodPapersPass
  <1>15. {"START", "PROGRESS", "BLOCKED", "REVIEW"} \subseteq Phases \ {"FINISH"}
    BY DEF Phases
  <1>16. Units \subseteq Progressed(Finished)
    <2>1. \A i \in Indices(Doc, "PROGRESS") : all[i] = comments[i]
      BY <1>1, <1>10 DEF Indices
    <2> QED
      BY <1>1, <1>5, <1>11, <1>15, <2>1 DEF Progressed
  <1>17. \A i \in Indices(Finished, "BLOCKED") : Resumed(Finished, i, r)
    <2> TAKE i \in Indices(Finished, "BLOCKED")
    <2>1. i \in Indices(Doc, "BLOCKED")
      BY <1>11, <1>15
    <2>2. PICK j \in Indices(Doc, "PROGRESS") :
            i < j /\ j < r /\ comments[j].unit = comments[i].unit
      BY <1>1, <1>2, <2>1 DEF Resumed
    <2>3. all[i] = comments[i] /\ all[j] = comments[j]
      BY <1>1, <1>10, <2>1, <2>2 DEF Indices
    <2>4. j \in Indices(Finished, "PROGRESS")
      BY <1>11, <1>15, <2>2
    <2> QED
      BY <1>5, <2>2, <2>3, <2>4 DEF Resumed
  <1>18. ReviewRules(Finished)
    BY <1>2, <1>5, <1>11, <1>14, <1>15, <1>16, <1>17
       DEF ReviewRules, ReviewStates, DoneStates
  <1>19. StartRules(Finished)
    <2>1. 1 \in DOMAIN all
      BY <1>2, <1>8
    <2>2. all[1].phase = "START"
      BY <1>7, <2>1 DEF CommentsPass
    <2> QED
      BY <1>5, <2>1, <2>2 DEF StartRules, Indices
  <1>20. BlockedRules(Finished)
    BY <1>5 DEF BlockedRules
  <1> QED
    BY <1>5, <1>7, <1>12, <1>14, <1>18, <1>19, <1>20 DEF Valid

\* The contract leaves no dead end, for any number of units, waves, comments and
\* times: what passes on the way can be finished.
THEOREM NoDeadEnd == Spec => []CanStillFinish
  <1>1. TypeOK => CanStillFinish
    <2> SUFFICES ASSUME TypeOK, papers # NoPapers, Valid(Doc),
                        item \in ReviewStates =>
                            /\ item \notin DoneStates
                            /\ Units \subseteq Progressed(Doc)
                 PROVE  Valid(Finished)
      BY DEF CanStillFinish
    <2>1. comments \in Seq(Comment) /\ papers \in Papers
      BY DEF TypeOK
    <2> QED
      BY <2>1, UnreviewedFinishes, ReviewedFinishes
  <1> QED
    BY <1>1, TypesHold, PTL
=============================================================================
