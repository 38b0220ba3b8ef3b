------------------------ MODULE OperatorBrokerProofs ------------------------
(***************************************************************************)
(* Theorems about OperatorBroker for every set of requests, keys and work  *)
(* items and every value of the limits.                                    *)
(***************************************************************************)
EXTENDS OperatorBroker, FiniteSetTheorems, FunctionTheorems, TLAPS

-----------------------------------------------------------------------------
(* What is in a collection, and what each operation makes of it.           *)

LEMMA Presence ==
    ASSUME NEW m \in Collections, NEW i \in Ids
    PROVE  /\ i \in Present(m) => m.req[i] \in Request
           /\ i \notin Present(m) => m.req[i] = Absent
           /\ m.req[i].state \in Pending \union Terminal <=> i \in Present(m)
           /\ \A S : i \in InState(m, S) <=> m.req[i].state \in S
<1>1. m.req[i] \in Request \union {Absent}
  BY DEF Collections
<1>2. i \in Present(m) <=> m.req[i].state \in Pending \union Terminal
  BY DEF Present, InState
<1>3. "ABSENT" \notin Pending \union Terminal
  BY DEF Pending, Terminal, Compactable, Doubtful
<1>4. m.req[i] \in Request => m.req[i].state \in Pending \union Terminal
  BY DEF Request
<1>5. m.req[i] = Absent => m.req[i].state = "ABSENT"
  BY DEF Absent
<1>6. \A S : i \in InState(m, S) <=> m.req[i].state \in S
  BY DEF InState
<1> QED BY <1>1, <1>2, <1>3, <1>4, <1>5, <1>6

\* Removing requests frees their keys and leaves the rest as it is.
Removed(m, n, gone) ==
    /\ \A i \in Ids : n.req[i] = IF i \in gone THEN Absent ELSE m.req[i]
    /\ \A k \in Keys : n.idem[k] = IF k \in KeysOf(m, gone) THEN NoId ELSE m.idem[k]
    /\ n.inflight = m.inflight /\ n.quar = m.quar

LEMMA WithoutRemoves ==
    ASSUME NEW m \in Collections, NEW gone \in SUBSET Ids
    PROVE  /\ Without(m, gone) \in Collections
           /\ Removed(m, Without(m, gone), gone)
           /\ Without(m, gone).tomb = m.tomb
BY DEF Without, Removed, Collections

LEMMA CompactedRemoves ==
    ASSUME NEW m \in Collections, NEW gone \in SUBSET Present(m)
    PROVE  /\ Compacted(m, gone) \in Collections
           /\ Removed(m, Compacted(m, gone), gone)
           /\ Compacted(m, gone).tomb = m.tomb \union KeysOf(m, gone)
<1>0. gone \in SUBSET Ids
  BY DEF Present, InState
<1>1. KeysOf(m, gone) \subseteq Keys
  BY Presence DEF KeysOf, Present, InState, Request
<1> DEFINE w == Without(m, gone)
<1>2. w \in Collections /\ Removed(m, w, gone) /\ w.tomb = m.tomb
  BY <1>0, WithoutRemoves
<1>3. Compacted(m, gone) = [w EXCEPT !.tomb = @ \union KeysOf(m, gone)]
  BY DEF Compacted
<1> HIDE DEF w
<1>4. Compacted(m, gone) \in Collections
  BY <1>1, <1>2, <1>3 DEF Collections
<1>5. /\ Compacted(m, gone).req = w.req /\ Compacted(m, gone).idem = w.idem
      /\ Compacted(m, gone).inflight = w.inflight
      /\ Compacted(m, gone).quar = w.quar
      /\ Compacted(m, gone).tomb = w.tomb \union KeysOf(m, gone)
  BY <1>2, <1>3 DEF Collections
<1> QED BY <1>2, <1>4, <1>5 DEF Removed

NewRequest(k, t, b) ==
    [state |-> "PREPARED", key |-> k, target |-> t, boot |-> b, why |-> "none"]

LEMMA AddedFields ==
    ASSUME NEW m \in Collections, NEW i \in Ids, NEW k \in Keys, NEW t \in Targets,
           boot \in Boots, NEW n, n = Added(m, i, k, t)
    PROVE  /\ n \in Collections
           /\ n.req = [m.req EXCEPT ![i] = NewRequest(k, t, boot)]
           /\ n.idem = [m.idem EXCEPT ![k] = i]
           /\ n.tomb = m.tomb /\ n.inflight = m.inflight /\ n.quar = m.quar
<1>1. NewRequest(k, t, boot) \in Request
  BY DEF NewRequest, Request, Pending
<1> QED BY <1>1 DEF Added, NewRequest, Collections

\* One request moves on and the rest of them stay.
Moved(m, n, i, r) ==
    /\ n.req = [m.req EXCEPT ![i] = r]
    /\ n.idem = m.idem /\ n.tomb = m.tomb

LEMMA ConfirmedFields ==
    ASSUME mem \in Collections, NEW i \in Present(mem)
    PROVE  /\ Confirmed(i) \in Collections
           /\ Moved(mem, Confirmed(i), i, [mem.req[i] EXCEPT !.state = "CONFIRMED"])
           /\ Confirmed(i).inflight = mem.inflight /\ Confirmed(i).quar = mem.quar
<1>1. i \in Ids /\ mem.req[i] \in Request
  BY Presence DEF Present, InState
<1>2. [mem.req[i] EXCEPT !.state = "CONFIRMED"] \in Request
  BY <1>1 DEF Request, Pending
<1> DEFINE r == [mem.req[i] EXCEPT !.state = "CONFIRMED"]
<1>3. Confirmed(i) = [mem EXCEPT !.req = [mem.req EXCEPT ![i] = r]]
  BY <1>1 DEF Confirmed, Collections
<1> HIDE DEF r
<1>4. r \in Request
  BY <1>2 DEF r
<1>5. [mem.req EXCEPT ![i] = r] \in [Ids -> Request \union {Absent}]
  BY <1>4 DEF Collections
<1>6. /\ Confirmed(i) \in Collections
      /\ Confirmed(i).req = [mem.req EXCEPT ![i] = r]
      /\ Confirmed(i).idem = mem.idem /\ Confirmed(i).tomb = mem.tomb
      /\ Confirmed(i).inflight = mem.inflight /\ Confirmed(i).quar = mem.quar
  BY <1>3, <1>5 DEF Collections
<1> QED BY <1>6 DEF Moved, r

Rebuilt(m, i, r, busy, doubt) ==
    [m EXCEPT !.req = [m.req EXCEPT ![i] = r], !.inflight = busy, !.quar = doubt]

LEMMA MovedFields ==
    ASSUME NEW m \in Collections, NEW i \in Ids, NEW r \in Request,
           NEW busy \in SUBSET Targets, NEW doubt \in SUBSET Targets, NEW n,
           n = Rebuilt(m, i, r, busy, doubt)
    PROVE  n \in Collections /\ Moved(m, n, i, r) /\ n.inflight = busy /\ n.quar = doubt
<1>1. PICK f : f = [m.req EXCEPT ![i] = r]
  OBVIOUS
<1>2. f \in [Ids -> Request \union {Absent}]
  BY <1>1 DEF Collections
<1>3. n = [m EXCEPT !.req = f, !.inflight = busy, !.quar = doubt]
  BY <1>1 DEF Rebuilt
<1>4. /\ n \in Collections /\ n.req = f /\ n.inflight = busy /\ n.quar = doubt
      /\ n.idem = m.idem /\ n.tomb = m.tomb
  BY <1>2, <1>3 DEF Collections
<1> QED BY <1>1, <1>4 DEF Moved

LEMMA StartedFields ==
    ASSUME mem \in Collections, NEW i \in Present(mem)
    PROVE  /\ Started(i) \in Collections
           /\ Moved(mem, Started(i), i, [mem.req[i] EXCEPT !.state = "ATTEMPT_STARTED"])
           /\ Started(i).inflight = mem.inflight \union {mem.req[i].target}
           /\ Started(i).quar = mem.quar
<1>1. i \in Ids /\ mem.req[i] \in Request
  BY Presence DEF Present, InState
<1>2. PICK r : r = [mem.req[i] EXCEPT !.state = "ATTEMPT_STARTED"]
  OBVIOUS
<1>3. PICK busy : busy = mem.inflight \union {mem.req[i].target}
  OBVIOUS
<1>4. r \in Request /\ busy \in SUBSET Targets /\ mem.quar \in SUBSET Targets
  BY <1>1, <1>2, <1>3 DEF Request, Pending, Collections
<1>5. Started(i) = Rebuilt(mem, i, r, busy, mem.quar)
  BY <1>1, <1>2, <1>3 DEF Started, Collections, Rebuilt
<1>6. /\ Started(i) \in Collections /\ Moved(mem, Started(i), i, r)
      /\ Started(i).inflight = busy /\ Started(i).quar = mem.quar
  BY <1>1, <1>4, <1>5, MovedFields
<1> QED BY <1>2, <1>3, <1>6

LEMMA SettledFields ==
    ASSUME mem \in Collections, NEW i \in Present(mem), task[i] \in Terminal
    PROVE  /\ Settled(i) \in Collections
           /\ Moved(mem, Settled(i), i,
                [mem.req[i] EXCEPT !.state = task[i],
                   !.why = IF task[i] = "EXPIRED" THEN "deadline" ELSE "none"])
           /\ Settled(i).inflight = mem.inflight \ {mem.req[i].target}
           /\ Settled(i).quar = IF task[i] \in Doubtful
                                THEN mem.quar \union {mem.req[i].target} ELSE mem.quar
<1>1. i \in Ids /\ mem.req[i] \in Request
  BY Presence DEF Present, InState
<1>2. PICK w : w = IF task[i] = "EXPIRED" THEN "deadline" ELSE "none"
  OBVIOUS
<1>3. PICK r : r = [mem.req[i] EXCEPT !.state = task[i], !.why = w]
  OBVIOUS
<1>4. PICK busy : busy = mem.inflight \ {mem.req[i].target}
  OBVIOUS
<1>5. PICK doubt : doubt = IF task[i] \in Doubtful
                           THEN mem.quar \union {mem.req[i].target} ELSE mem.quar
  OBVIOUS
<1>6. r \in Request
  BY <1>1, <1>2, <1>3 DEF Request
<1>7. busy \in SUBSET Targets /\ doubt \in SUBSET Targets
  BY <1>1, <1>4, <1>5 DEF Request, Collections
<1>8. Settled(i) = Rebuilt(mem, i, r, busy, doubt)
  <2>1. r = [mem.req[i] EXCEPT !.state = task[i],
                !.why = IF task[i] = "EXPIRED" THEN "deadline" ELSE "none"]
    BY <1>2, <1>3
  <2> HIDE <1>2, <1>3
  <2>2. mem.req \in [Ids -> Request \union {Absent}]
    BY DEF Collections
  <2>3. [mem.req EXCEPT ![i].state = task[i],
                        ![i].why = IF task[i] = "EXPIRED" THEN "deadline" ELSE "none"]
        = [mem.req EXCEPT ![i] = r]
    BY <1>1, <2>1, <2>2 DEF Request
  <2> QED BY <1>4, <1>5, <2>3 DEF Settled, Rebuilt, Collections
<1>9. /\ Settled(i) \in Collections /\ Moved(mem, Settled(i), i, r)
      /\ Settled(i).inflight = busy /\ Settled(i).quar = doubt
  BY <1>1, <1>6, <1>7, <1>8, MovedFields
<1> QED BY <1>2, <1>3, <1>4, <1>5, <1>9

-----------------------------------------------------------------------------
(* Each kind of change keeps a collection in order, and what it knows.     *)

LEMMA RemovalKeepsOrder ==
    ASSUME NEW m \in Collections, NEW n \in Collections, NEW gone \in SUBSET Present(m),
           NEW b \in Boots, NEW known, NEW oks, NEW made \in SUBSET Call, NEW out,
           Orderly(m, b, known, oks), Knows(m, made, out),
           Removed(m, n, gone),
           gone \intersect InState(m, {"ATTEMPT_STARTED"} \union Doubtful) = {},
           \/ /\ n.tomb = m.tomb
              /\ gone \subseteq InState(m, {"PREPARED", "CONFIRMED"})
           \/ /\ n.tomb = m.tomb \union KeysOf(m, gone)
              /\ IsFiniteSet(n.tomb) /\ Cardinality(n.tomb) <= MaxTombstones
    PROVE  Orderly(n, b, known, oks) /\ Knows(n, made, out)
<1>0. /\ \A i \in Present(m) : i \in Ids /\ m.req[i] \in Request
      /\ \A i \in Ids : i \notin Present(m) => m.req[i] = Absent
  BY Presence DEF Present, InState
<1>2. Present(n) = Present(m) \ gone
  <2>1. ASSUME NEW i \in Ids PROVE i \in Present(n) <=> i \in Present(m) /\ i \notin gone
    <3>1. CASE i \in gone
      BY <3>1, Presence DEF Removed, Absent, Pending, Terminal, Compactable, Doubtful
    <3>2. CASE i \notin gone
      BY <3>2 DEF Removed, Present, InState
    <3> QED BY <3>1, <3>2
  <2> QED BY <2>1 DEF Present, InState
<1>3. \A i \in Present(n) : n.req[i] = m.req[i]
  BY <1>2, <1>0 DEF Removed
<1>4. /\ IsFiniteSet(Present(m)) /\ Cardinality(Present(m)) <= MaxPending
      /\ IsFiniteSet(m.tomb) /\ Cardinality(m.tomb) <= MaxTombstones
  BY DEF Orderly, Consistent, Fits
<1>5. IsFiniteSet(Present(n)) /\ Cardinality(Present(n)) <= MaxPending
  BY <1>2, <1>4, FS_Subset, FS_CardinalityType, BrokerBounds
<1>6. IsFiniteSet(n.tomb) /\ Cardinality(n.tomb) <= MaxTombstones
  BY <1>4
<1>7. \A k \in Keys : n.idem[k] # NoId =>
        n.idem[k] \in Present(n) /\ n.req[n.idem[k]].key = k /\ k \notin n.tomb
  <2> SUFFICES ASSUME NEW k \in Keys, n.idem[k] # NoId
               PROVE  n.idem[k] \in Present(n) /\ n.req[n.idem[k]].key = k /\ k \notin n.tomb
    OBVIOUS
  <2>1. k \notin KeysOf(m, gone) /\ n.idem[k] = m.idem[k]
    BY DEF Removed
  <2>2. m.idem[k] \in Present(m) /\ m.req[m.idem[k]].key = k /\ k \notin m.tomb
    BY <2>1 DEF Orderly, Consistent
  <2>3. m.idem[k] \notin gone
    BY <2>1, <2>2 DEF KeysOf
  <2> QED BY <2>1, <2>2, <2>3, <1>2, <1>3
<1>8. \A i \in Present(n) :
        \/ n.idem[n.req[i].key] = i
        \/ n.idem[n.req[i].key] = NoId /\ BootHistory(n, i, b)
  <2> SUFFICES ASSUME NEW i \in Present(n)
               PROVE  \/ n.idem[n.req[i].key] = i
                      \/ n.idem[n.req[i].key] = NoId /\ BootHistory(n, i, b)
    OBVIOUS
  <2> DEFINE k == m.req[i].key
  <2>1. i \in Present(m) /\ n.req[i] = m.req[i] /\ k \in Keys /\ i \in Ids
    BY <1>0, <1>2, <1>3 DEF Request
  <2>2. n.idem[k] = IF k \in KeysOf(m, gone) THEN NoId ELSE m.idem[k]
    BY <2>1 DEF Removed
  <2>3. CASE m.idem[k] = i
    <3>1. ASSUME NEW j \in gone, m.req[j].key = k PROVE FALSE
      <4>1. m.idem[k] = j \/ m.idem[k] = NoId
        BY <3>1 DEF Orderly, Consistent
      <4> QED BY <4>1, <2>1, <2>3, <1>2, NoIdAssumption
    <3>2. k \notin KeysOf(m, gone)
      BY <3>1 DEF KeysOf
    <3> QED BY <3>2, <2>1, <2>2, <2>3
  <2>4. CASE m.idem[k] = NoId /\ BootHistory(m, i, b)
    <3>1. BootHistory(n, i, b)
      BY <2>1, <2>4 DEF BootHistory
    <3> QED BY <3>1, <2>1, <2>2, <2>4
  <2>5. m.idem[k] = i \/ (m.idem[k] = NoId /\ BootHistory(m, i, b))
    BY <2>1 DEF Orderly, Consistent
  <2> QED BY <2>3, <2>4, <2>5
<1>9. \A S : S \subseteq {"ATTEMPT_STARTED"} \union Doubtful =>
        InState(n, S) = InState(m, S) /\ TargetsOf(n, InState(n, S)) = TargetsOf(m, InState(m, S))
  <2> SUFFICES ASSUME NEW S, S \subseteq {"ATTEMPT_STARTED"} \union Doubtful
               PROVE  /\ InState(n, S) = InState(m, S)
                      /\ TargetsOf(n, InState(n, S)) = TargetsOf(m, InState(m, S))
    OBVIOUS
  <2>1. "ABSENT" \notin S /\ Absent.state = "ABSENT"
    BY DEF Doubtful, Absent
  <2>2. InState(n, S) = InState(m, S)
    <3>1. \A i \in gone : i \notin InState(m, S)
      BY DEF InState
    <3>2. ASSUME NEW i \in Ids PROVE n.req[i].state \in S <=> m.req[i].state \in S
      BY <2>1, <3>1 DEF InState, Removed
    <3> QED BY <3>2 DEF InState
  <2>3. \A i \in InState(n, S) : n.req[i] = m.req[i]
    BY <2>1 DEF InState, Removed
  <2> QED BY <2>2, <2>3 DEF TargetsOf
<1>10. n.inflight = m.inflight /\ n.quar = m.quar
  BY DEF Removed
<1>11. Consistent(n, b)
  <2>1. n.inflight = TargetsOf(n, InState(n, {"ATTEMPT_STARTED"}))
    BY <1>9, <1>10 DEF Orderly, Consistent
  <2>2. n.quar = TargetsOf(n, InState(n, Doubtful))
    BY <1>9, <1>10 DEF Orderly, Consistent
  <2>3. n.inflight \intersect n.quar = {}
    BY <1>10 DEF Orderly, Consistent
  <2> QED BY <2>1, <2>2, <2>3, <1>5, <1>6, <1>7, <1>8 DEF Consistent, Fits
<1>12. ASSUME NEW i \in Present(n), n.req[i].state = "EXPIRED", n.req[i].why = "boot"
       PROVE  n.idem[n.req[i].key] = NoId
  <2>1. m.idem[m.req[i].key] = NoId /\ m.req[i].key \in Keys
    BY <1>12, <1>0, <1>2, <1>3 DEF Orderly, Request
  <2> QED BY <2>1, <1>3 DEF Removed
<1>13. Orderly(n, b, known, oks)
  <2>1. Present(n) \subseteq known
    BY <1>2 DEF Orderly
  <2>2. \A i, j \in InState(n, {"ATTEMPT_STARTED"}) :
          n.req[i].target = n.req[j].target => i = j
    <3>1. InState(n, {"ATTEMPT_STARTED"}) = InState(m, {"ATTEMPT_STARTED"})
      BY <1>9
    <3>2. InState(n, {"ATTEMPT_STARTED"}) \subseteq Present(n)
      BY DEF InState, Present, Pending
    <3> QED BY <3>1, <3>2, <1>3 DEF Orderly
  <2>3. ASSUME NEW i \in Present(n)
        PROVE  /\ n.req[i].boot <= b
               /\ n.req[i].state \in Pending => n.req[i].boot = b
               /\ n.req[i].state = "CONFIRMED" => [id |-> i, boot |-> b] \in oks
               /\ n.req[i].state = "EXPIRED" => n.req[i].why # "none"
    BY <2>3, <1>2, <1>3 DEF Orderly
  <2> QED BY <2>1, <2>2, <2>3, <1>5, <1>6, <1>11, <1>12 DEF Orderly
<1>14. Knows(n, made, out)
  <2>1. ASSUME NEW c \in made
        PROVE  /\ c.id \in Present(n) =>
                    /\ n.req[c.id].state \in Sent
                    /\ n.req[c.id].key = c.key /\ n.req[c.id].target = c.target
               /\ c.id \in Present(n) \/ c.key \in n.tomb
    <3>1. CASE c.id \in gone
      <4>1. m.req[c.id].state \in Sent /\ m.req[c.id].key = c.key
        BY <3>1 DEF Knows
      <4>2. ~(gone \subseteq InState(m, {"PREPARED", "CONFIRMED"}))
        BY <4>1, <3>1 DEF InState, Sent, Terminal, Compactable, Doubtful
      <4>3. c.key \in KeysOf(m, gone)
        BY <4>1, <3>1 DEF KeysOf
      <4> QED BY <4>2, <4>3, <3>1, <1>2
    <3>2. CASE c.id \notin gone
      BY <3>2, <1>2, <1>3 DEF Knows
    <3> QED BY <3>1, <3>2
  <2>2. \A c \in out : c.id \in InState(n, {"ATTEMPT_STARTED"} \union Doubtful)
    BY <1>9 DEF Knows
  <2> QED BY <2>1, <2>2 DEF Knows
<1> QED BY <1>13, <1>14

LEMMA AdditionKeepsOrder ==
    ASSUME NEW m \in Collections, NEW n \in Collections, NEW i \in Ids, NEW k \in Keys,
           NEW t \in Targets, NEW b \in Boots,
           NEW known, NEW oks, NEW made \in SUBSET Call, NEW out,
           Orderly(m, b, known, oks), Knows(m, made, out),
           i \notin known, \A c \in made : c.id \in known, out \subseteq made,
           m.idem[k] = NoId, k \notin m.tomb, Fits(n),
           n.req = [m.req EXCEPT ![i] = NewRequest(k, t, b)],
           n.idem = [m.idem EXCEPT ![k] = i],
           n.tomb = m.tomb, n.inflight = m.inflight, n.quar = m.quar
    PROVE  Orderly(n, b, known \union {i}, oks) /\ Knows(n, made, out)
<1> DEFINE new == NewRequest(k, t, b)
<1>0. \A j \in Present(m) : j \in Ids /\ m.req[j] \in Request
  BY Presence DEF Present, InState
<1>1. /\ new.state = "PREPARED" /\ new.key = k /\ new.target = t /\ new.boot = b
  BY DEF NewRequest
<1> HIDE DEF new
<1>2. n.req[i] = new /\ \A j \in Ids : j # i => n.req[j] = m.req[j]
  BY DEF Collections, new
<1>3. i \notin Present(m) /\ Present(m) \subseteq known
  BY DEF Orderly
<1>4. Present(n) = Present(m) \union {i}
  BY <1>1, <1>2 DEF Present, InState, Pending
<1>5. n.idem[k] = i /\ \A l \in Keys : l # k => n.idem[l] = m.idem[l]
  BY DEF Collections
<1>6. \A S : "PREPARED" \notin S /\ "ABSENT" \notin S =>
        InState(n, S) = InState(m, S) /\ TargetsOf(n, InState(n, S)) = TargetsOf(m, InState(m, S))
  <2> SUFFICES ASSUME NEW S, "PREPARED" \notin S, "ABSENT" \notin S
               PROVE  /\ InState(n, S) = InState(m, S)
                      /\ TargetsOf(n, InState(n, S)) = TargetsOf(m, InState(m, S))
    OBVIOUS
  <2>1. i \notin InState(n, S)
    BY <1>1, <1>2 DEF InState
  <2>2. m.req[i].state = "ABSENT"
    BY <1>3, Presence DEF Absent
  <2>3. i \notin InState(m, S)
    BY <2>2 DEF InState
  <2>4. InState(n, S) = InState(m, S)
    BY <1>2, <2>1, <2>3 DEF InState
  <2>5. \A j \in InState(n, S) : n.req[j] = m.req[j]
    BY <1>2, <2>1 DEF InState
  <2> QED BY <2>4, <2>5 DEF TargetsOf
<1>7. /\ InState(n, {"ATTEMPT_STARTED"}) = InState(m, {"ATTEMPT_STARTED"})
      /\ InState(n, {"ATTEMPT_STARTED"} \union Doubtful)
           = InState(m, {"ATTEMPT_STARTED"} \union Doubtful)
      /\ n.inflight = TargetsOf(n, InState(n, {"ATTEMPT_STARTED"}))
      /\ n.quar = TargetsOf(n, InState(n, Doubtful))
  BY <1>6 DEF Orderly, Consistent, Doubtful
<1>8. \A l \in Keys : n.idem[l] # NoId =>
        n.idem[l] \in Present(n) /\ n.req[n.idem[l]].key = l /\ l \notin n.tomb
  <2> SUFFICES ASSUME NEW l \in Keys, n.idem[l] # NoId
               PROVE  n.idem[l] \in Present(n) /\ n.req[n.idem[l]].key = l /\ l \notin n.tomb
    OBVIOUS
  <2>1. CASE l = k
    BY <2>1, <1>1, <1>2, <1>4, <1>5
  <2>2. CASE l # k
    <3>1. m.idem[l] \in Present(m) /\ m.req[m.idem[l]].key = l /\ l \notin m.tomb
      BY <2>2, <1>5 DEF Orderly, Consistent
    <3> QED BY <3>1, <2>2, <1>0, <1>2, <1>3, <1>4, <1>5
  <2> QED BY <2>1, <2>2
<1>9. ASSUME NEW j \in Present(m)
      PROVE  /\ n.req[j] = m.req[j] /\ m.req[j].key \in Keys
             /\ n.idem[m.req[j].key] = m.idem[m.req[j].key]
  <2>1. m.idem[m.req[j].key] = j \/ m.req[j].key \in m.tomb
    BY DEF Orderly, Consistent, BootHistory
  <2>2. m.req[j].key # k
    BY <2>1, <1>0, NoIdAssumption
  <2> QED BY <2>2, <1>0, <1>2, <1>3, <1>5 DEF Request
<1>10. \A j \in Present(n) :
        \/ n.idem[n.req[j].key] = j
        \/ n.idem[n.req[j].key] = NoId /\ BootHistory(n, j, b)
  <2> SUFFICES ASSUME NEW j \in Present(n)
               PROVE  \/ n.idem[n.req[j].key] = j
                      \/ n.idem[n.req[j].key] = NoId /\ BootHistory(n, j, b)
    OBVIOUS
  <2>1. CASE j = i
    BY <2>1, <1>1, <1>2, <1>5
  <2>2. CASE j \in Present(m)
    BY <2>2, <1>9 DEF Orderly, Consistent, BootHistory
  <2> QED BY <2>1, <2>2, <1>4
<1>11. IsFiniteSet(Present(n)) /\ IsFiniteSet(n.tomb)
  BY <1>4, FS_AddElement DEF Orderly
<1>12. Consistent(n, b)
  BY <1>7, <1>8, <1>10 DEF Consistent, Orderly
<1>13. ASSUME NEW j \in Present(n)
       PROVE  /\ n.req[j].boot <= b
              /\ n.req[j].state \in Pending => n.req[j].boot = b
              /\ n.req[j].state = "CONFIRMED" => [id |-> j, boot |-> b] \in oks
              /\ n.req[j].state = "EXPIRED" => n.req[j].why # "none"
              /\ n.req[j].state = "EXPIRED" /\ n.req[j].why = "boot" =>
                    n.idem[n.req[j].key] = NoId
  <2>1. CASE j = i
    BY <2>1, <1>1, <1>2 DEF Boots
  <2>2. CASE j \in Present(m)
    BY <2>2, <1>9 DEF Orderly
  <2> QED BY <2>1, <2>2, <1>4
<1>14. \A j, l \in InState(n, {"ATTEMPT_STARTED"}) :
          n.req[j].target = n.req[l].target => j = l
  <2>1. \A j \in InState(n, {"ATTEMPT_STARTED"}) : n.req[j] = m.req[j]
    BY <1>1, <1>2 DEF InState
  <2> QED BY <2>1, <1>7 DEF Orderly
<1>15. Knows(n, made, out)
  <2>1. ASSUME NEW c \in made
        PROVE  /\ c.id \in Present(n) =>
                    /\ n.req[c.id].state \in Sent
                    /\ n.req[c.id].key = c.key /\ n.req[c.id].target = c.target
               /\ c.id \in Present(n) \/ c.key \in n.tomb
    <3>1. c.id # i
      OBVIOUS
    <3> QED BY <3>1, <1>4, <1>9 DEF Knows
  <2>2. \A c \in out : c.id \in InState(n, {"ATTEMPT_STARTED"} \union Doubtful)
    BY <1>7 DEF Knows
  <2> QED BY <2>1, <2>2 DEF Knows
<1> QED BY <1>3, <1>4, <1>11, <1>12, <1>13, <1>14, <1>15 DEF Orderly

\* A request that moves on keeps its key, target and boot, so what relates the
\* collections by key is as before.
LEMMA MoveKeepsLinks ==
    ASSUME NEW m \in Collections, NEW n \in Collections, NEW i \in Present(m),
           NEW r \in Request, NEW b \in Boots, Moved(m, n, i, r),
           Consistent(m, b), m.req[i].state # "EXPIRED",
           r.key = m.req[i].key, r.target = m.req[i].target,
           n.inflight = TargetsOf(n, InState(n, {"ATTEMPT_STARTED"})),
           n.quar = TargetsOf(n, InState(n, Doubtful)),
           n.inflight \intersect n.quar = {}
    PROVE  /\ Consistent(n, b) /\ Present(n) = Present(m)
           /\ n.req[i] = r /\ i \in Ids
           /\ \A j \in Ids : j # i => n.req[j] = m.req[j]
           /\ \A j \in Ids : n.req[j].key = m.req[j].key /\ n.req[j].target = m.req[j].target
           /\ m.idem[r.key] = i
<1>1. i \in Ids
  BY DEF Present, InState
<1>2. n.req[i] = r /\ \A j \in Ids : j # i => n.req[j] = m.req[j]
  BY <1>1 DEF Moved, Collections
<1>3. Present(n) = Present(m)
  BY <1>1, <1>2 DEF Present, InState, Request
<1>4. \A j \in Ids : n.req[j].key = m.req[j].key /\ n.req[j].target = m.req[j].target
  BY <1>1, <1>2
<1>5. n.idem = m.idem /\ n.tomb = m.tomb
  BY DEF Moved
<1>6. \A k \in Keys : n.idem[k] # NoId =>
        n.idem[k] \in Present(n) /\ n.req[n.idem[k]].key = k /\ k \notin n.tomb
  BY <1>3, <1>4, <1>5 DEF Consistent, Present, InState
<1>7. m.idem[r.key] = i
  BY DEF Consistent, BootHistory
<1>8. \A j \in Present(n) :
        \/ n.idem[n.req[j].key] = j
        \/ n.idem[n.req[j].key] = NoId /\ BootHistory(n, j, b)
  <2> SUFFICES ASSUME NEW j \in Present(n)
               PROVE  \/ n.idem[n.req[j].key] = j
                      \/ n.idem[n.req[j].key] = NoId /\ BootHistory(n, j, b)
    OBVIOUS
  <2>1. CASE j = i
    BY <2>1, <1>1, <1>4, <1>5, <1>7
  <2>2. CASE j # i
    <3>1. j \in Ids
      BY DEF Present, InState
    <3> QED BY <3>1, <2>2, <1>2, <1>3, <1>5 DEF Consistent, BootHistory
  <2> QED BY <2>1, <2>2
<1>9. Fits(n)
  BY <1>3, <1>5 DEF Consistent, Fits
<1> QED BY <1>1, <1>2, <1>3, <1>4, <1>6, <1>7, <1>8, <1>9 DEF Consistent

LEMMA MoveKeepsOrder ==
    ASSUME NEW m \in Collections, NEW n \in Collections, NEW i \in Present(m),
           NEW r \in Request, NEW b \in Boots, Moved(m, n, i, r),
           NEW known, NEW oks, NEW made \in SUBSET Call, NEW out,
           Orderly(m, b, known, oks), Knows(m, made, out),
           m.req[i].state \in Pending,
           r.key = m.req[i].key, r.target = m.req[i].target, r.boot = m.req[i].boot,
           n.inflight = TargetsOf(n, InState(n, {"ATTEMPT_STARTED"})),
           n.quar = TargetsOf(n, InState(n, Doubtful)),
           n.inflight \intersect n.quar = {},
           r.state = "CONFIRMED" => [id |-> i, boot |-> b] \in oks,
           r.state = "EXPIRED" => r.why = "deadline",
           r.state = "ATTEMPT_STARTED" => r.target \notin m.inflight,
           \A c \in made : c.id = i => r.state \in Sent,
           \A c \in out : c.id = i => r.state \in {"ATTEMPT_STARTED"} \union Doubtful
    PROVE  Orderly(n, b, known, oks) /\ Knows(n, made, out)
<1>1. m.req[i].state # "EXPIRED" /\ Consistent(m, b) /\ r.boot = b
  BY DEF Pending, Orderly
<1>2. /\ Consistent(n, b) /\ Present(n) = Present(m)
      /\ n.req[i] = r /\ i \in Ids
      /\ \A j \in Ids : j # i => n.req[j] = m.req[j]
      /\ \A j \in Ids : n.req[j].key = m.req[j].key /\ n.req[j].target = m.req[j].target
      /\ m.idem[r.key] = i
  BY <1>1, MoveKeepsLinks
<1>3. n.idem = m.idem /\ n.tomb = m.tomb
  BY DEF Moved
<1>4. ASSUME NEW j \in Present(n)
      PROVE  /\ n.req[j].boot <= b
             /\ n.req[j].state \in Pending => n.req[j].boot = b
             /\ n.req[j].state = "CONFIRMED" => [id |-> j, boot |-> b] \in oks
             /\ n.req[j].state = "EXPIRED" => n.req[j].why # "none"
             /\ n.req[j].state = "EXPIRED" /\ n.req[j].why = "boot" =>
                   n.idem[n.req[j].key] = NoId
  <2>1. CASE j = i
    <3>1. n.req[j] = r /\ b <= b
      BY <2>1, <1>2 DEF Boots
    <3> QED BY <2>1, <3>1, <1>1
  <2>2. CASE j # i
    <3>1. j \in Present(m) /\ j \in Ids
      BY <1>2 DEF Present, InState
    <3>2. n.req[j] = m.req[j]
      BY <2>2, <3>1, <1>2
    <3> QED BY <3>1, <3>2, <1>3 DEF Orderly
  <2> QED BY <2>1, <2>2
<1>5. ASSUME NEW j \in InState(n, {"ATTEMPT_STARTED"}), j # i
      PROVE  /\ j \in InState(m, {"ATTEMPT_STARTED"}) /\ n.req[j] = m.req[j]
             /\ r.state = "ATTEMPT_STARTED" => n.req[j].target # r.target
  <2>1. j \in InState(m, {"ATTEMPT_STARTED"}) /\ n.req[j] = m.req[j]
    BY <1>5, <1>2 DEF InState
  <2>2. m.req[j].target \in m.inflight
    BY <2>1, <1>1 DEF Consistent, TargetsOf
  <2> QED BY <2>1, <2>2
<1>6. \A j, l \in InState(n, {"ATTEMPT_STARTED"}) :
        n.req[j].target = n.req[l].target => j = l
  <2> SUFFICES ASSUME NEW j \in InState(n, {"ATTEMPT_STARTED"}),
                      NEW l \in InState(n, {"ATTEMPT_STARTED"}),
                      n.req[j].target = n.req[l].target, j # l
               PROVE  FALSE
    OBVIOUS
  <2>1. CASE j # i /\ l # i
    BY <2>1, <1>5 DEF Orderly
  <2>2. CASE j = i \/ l = i
    <3>1. r.state = "ATTEMPT_STARTED"
      BY <2>2, <1>2 DEF InState
    <3> QED BY <2>2, <3>1, <1>2, <1>5
  <2> QED BY <2>1, <2>2
<1>7. Orderly(n, b, known, oks)
  BY <1>2, <1>3, <1>4, <1>6 DEF Orderly
<1>8. ASSUME NEW c \in made
      PROVE  /\ c.id \in Present(n) =>
                  /\ n.req[c.id].state \in Sent
                  /\ n.req[c.id].key = c.key /\ n.req[c.id].target = c.target
             /\ c.id \in Present(n) \/ c.key \in n.tomb
  <2>1. c.id \in Ids
    BY DEF Call
  <2>2. c.id \in Present(m) => m.req[c.id].key = c.key /\ m.req[c.id].target = c.target
    BY DEF Knows
  <2>3. c.id # i /\ c.id \in Present(m) => n.req[c.id].state \in Sent
    BY <2>1, <1>2 DEF Knows
  <2>4. c.id = i => n.req[c.id].state \in Sent
    BY <1>2
  <2>5. c.id \in Present(m) \/ c.key \in m.tomb
    BY DEF Knows
  <2> QED BY <2>1, <2>2, <2>3, <2>4, <2>5, <1>2, <1>3
<1>9. ASSUME NEW c \in out PROVE c.id \in InState(n, {"ATTEMPT_STARTED"} \union Doubtful)
  <2>1. c.id \in InState(m, {"ATTEMPT_STARTED"} \union Doubtful)
    BY DEF Knows
  <2> QED BY <2>1, <1>2 DEF InState
<1>10. Knows(n, made, out)
  BY <1>8, <1>9 DEF Knows
<1> QED BY <1>7, <1>10

LEMMA ConfirmKeepsOrder ==
    ASSUME NEW m \in Collections, NEW n \in Collections, NEW i \in Present(m),
           NEW b \in Boots, NEW known, NEW oks, NEW made \in SUBSET Call, NEW out,
           Orderly(m, b, known, oks), Knows(m, made, out),
           m.req[i].state = "PREPARED",
           Moved(m, n, i, [m.req[i] EXCEPT !.state = "CONFIRMED"]),
           n.inflight = m.inflight, n.quar = m.quar,
           [id |-> i, boot |-> b] \in oks
    PROVE  Orderly(n, b, known, oks) /\ Knows(n, made, out)
<1>1. i \in Ids /\ m.req[i] \in Request
  BY Presence DEF Present, InState
<1>2. PICK r : r = [m.req[i] EXCEPT !.state = "CONFIRMED"]
  OBVIOUS
<1>3. /\ r \in Request /\ r.state = "CONFIRMED" /\ r.key = m.req[i].key
      /\ r.target = m.req[i].target /\ r.boot = m.req[i].boot
  BY <1>1, <1>2 DEF Request, Pending
<1>4. Moved(m, n, i, r)
  BY <1>2
<1>5. n.req[i] = r /\ \A j \in Ids : j # i => n.req[j] = m.req[j]
  BY <1>1, <1>4 DEF Moved, Collections
<1>6. \A S : S \subseteq {"ATTEMPT_STARTED"} \union Doubtful =>
        TargetsOf(n, InState(n, S)) = TargetsOf(m, InState(m, S))
  <2> SUFFICES ASSUME NEW S, S \subseteq {"ATTEMPT_STARTED"} \union Doubtful
               PROVE  TargetsOf(n, InState(n, S)) = TargetsOf(m, InState(m, S))
    OBVIOUS
  <2>1. i \notin InState(n, S) /\ i \notin InState(m, S)
    BY <1>3, <1>5 DEF InState, Doubtful
  <2>2. InState(n, S) = InState(m, S) /\ \A j \in InState(n, S) : n.req[j] = m.req[j]
    BY <2>1, <1>5 DEF InState
  <2> QED BY <2>2 DEF TargetsOf
<1>7. /\ n.inflight = TargetsOf(n, InState(n, {"ATTEMPT_STARTED"}))
      /\ n.quar = TargetsOf(n, InState(n, Doubtful))
      /\ n.inflight \intersect n.quar = {}
  BY <1>6 DEF Orderly, Consistent
<1>8. \A c \in made : c.id # i
  BY DEF Knows, Sent, Terminal, Compactable, Doubtful
<1>9. \A c \in out : c.id # i
  BY DEF Knows, InState, Doubtful
<1> QED BY <1>3, <1>4, <1>7, <1>8, <1>9, MoveKeepsOrder DEF Pending

LEMMA StartKeepsOrder ==
    ASSUME NEW m \in Collections, NEW n \in Collections, NEW i \in Present(m),
           NEW b \in Boots, NEW known, NEW oks, NEW made \in SUBSET Call, NEW out,
           Orderly(m, b, known, oks), Knows(m, made, out),
           m.req[i].state = "CONFIRMED",
           m.req[i].target \notin m.inflight \union m.quar,
           Moved(m, n, i, [m.req[i] EXCEPT !.state = "ATTEMPT_STARTED"]),
           n.inflight = m.inflight \union {m.req[i].target}, n.quar = m.quar
    PROVE  Orderly(n, b, known, oks) /\ Knows(n, made, out)
<1>1. i \in Ids /\ m.req[i] \in Request
  BY Presence DEF Present, InState
<1>2. PICK r : r = [m.req[i] EXCEPT !.state = "ATTEMPT_STARTED"]
  OBVIOUS
<1>3. /\ r \in Request /\ r.state = "ATTEMPT_STARTED" /\ r.key = m.req[i].key
      /\ r.target = m.req[i].target /\ r.boot = m.req[i].boot
  BY <1>1, <1>2 DEF Request, Pending
<1>4. Moved(m, n, i, r)
  BY <1>2
<1>5. n.req[i] = r /\ \A j \in Ids : j # i => n.req[j] = m.req[j]
  BY <1>1, <1>4 DEF Moved, Collections
<1>6. n.quar = TargetsOf(n, InState(n, Doubtful))
  <2>1. i \notin InState(n, Doubtful) /\ i \notin InState(m, Doubtful)
    BY <1>3, <1>5 DEF InState, Doubtful
  <2>2. InState(n, Doubtful) = InState(m, Doubtful)
    BY <2>1, <1>5 DEF InState
  <2>3. \A j \in InState(n, Doubtful) : n.req[j] = m.req[j]
    BY <2>1, <1>5 DEF InState
  <2> QED BY <2>2, <2>3 DEF TargetsOf, Orderly, Consistent
<1>7. n.inflight = TargetsOf(n, InState(n, {"ATTEMPT_STARTED"}))
  <2>1. i \notin InState(m, {"ATTEMPT_STARTED"})
    BY DEF InState
  <2>2. InState(n, {"ATTEMPT_STARTED"}) = InState(m, {"ATTEMPT_STARTED"}) \union {i}
    BY <2>1, <1>1, <1>3, <1>5 DEF InState
  <2>3. \A j \in InState(m, {"ATTEMPT_STARTED"}) : n.req[j] = m.req[j]
    BY <2>1, <1>5 DEF InState
  <2> QED BY <2>2, <2>3, <1>3, <1>5 DEF TargetsOf, Orderly, Consistent
<1>8. n.inflight \intersect n.quar = {}
  BY DEF Orderly, Consistent
<1>9. \A c \in made : c.id # i
  BY DEF Knows, Sent, Terminal, Compactable, Doubtful
<1>10. \A c \in out : c.id # i
  BY DEF Knows, InState, Doubtful
<1>11. /\ m.req[i].state \in Pending /\ r.target \notin m.inflight
       /\ r.state # "CONFIRMED" /\ r.state # "EXPIRED"
  BY <1>3 DEF Pending
<1>12. /\ \A c \in made : c.id = i => r.state \in Sent
       /\ \A c \in out : c.id = i => r.state \in {"ATTEMPT_STARTED"} \union Doubtful
  BY <1>9, <1>10
<1>13. /\ r.state = "CONFIRMED" => [id |-> i, boot |-> b] \in oks
       /\ r.state = "EXPIRED" => r.why = "deadline"
       /\ r.state = "ATTEMPT_STARTED" => r.target \notin m.inflight
  BY <1>11
<1>14. /\ r \in Request /\ r.key = m.req[i].key
       /\ r.target = m.req[i].target /\ r.boot = m.req[i].boot
       /\ m.req[i].state \in Pending
  BY <1>3, <1>11
<1> QED BY ONLY <1>4, <1>6, <1>7, <1>8, <1>12, <1>13, <1>14, MoveKeepsOrder,
           m \in Collections, n \in Collections, i \in Present(m), b \in Boots,
           made \in SUBSET Call, Orderly(m, b, known, oks), Knows(m, made, out)

LEMMA SettlementKeepsOrder ==
    ASSUME NEW m \in Collections, NEW n \in Collections, NEW i \in Present(m),
           NEW b \in Boots, NEW known, NEW oks, NEW made \in SUBSET Call, NEW out,
           Orderly(m, b, known, oks), Knows(m, made, out),
           m.req[i].state = "ATTEMPT_STARTED",
           NEW v \in Terminal,
           Moved(m, n, i, [m.req[i] EXCEPT !.state = v,
                             !.why = IF v = "EXPIRED" THEN "deadline" ELSE "none"]),
           n.inflight = m.inflight \ {m.req[i].target},
           n.quar = IF v \in Doubtful THEN m.quar \union {m.req[i].target} ELSE m.quar,
           v \in Compactable => \A c \in out : c.id # i
    PROVE  Orderly(n, b, known, oks) /\ Knows(n, made, out)
<1>1. i \in Ids /\ m.req[i] \in Request
  BY Presence DEF Present, InState
<1>2. PICK w : w = IF v = "EXPIRED" THEN "deadline" ELSE "none"
  OBVIOUS
<1>3. PICK r : r = [m.req[i] EXCEPT !.state = v, !.why = w]
  OBVIOUS
<1>4. /\ r \in Request /\ r.state = v /\ r.why = w /\ r.key = m.req[i].key
      /\ r.target = m.req[i].target /\ r.boot = m.req[i].boot
  BY <1>1, <1>2, <1>3 DEF Request
<1>5. Moved(m, n, i, r)
  BY <1>2, <1>3
<1>6. n.req[i] = r /\ \A j \in Ids : j # i => n.req[j] = m.req[j]
  BY <1>1, <1>5 DEF Moved, Collections
<1>7. v # "ATTEMPT_STARTED" /\ v # "CONFIRMED" /\ v \in Sent
  BY DEF Terminal, Compactable, Doubtful, Sent
<1>8. n.inflight = TargetsOf(n, InState(n, {"ATTEMPT_STARTED"}))
  <2>1. InState(n, {"ATTEMPT_STARTED"}) = InState(m, {"ATTEMPT_STARTED"}) \ {i}
    BY <1>4, <1>6, <1>7 DEF InState
  <2>2. \A j \in InState(n, {"ATTEMPT_STARTED"}) : n.req[j] = m.req[j]
    BY <2>1, <1>6 DEF InState
  <2>3. i \in InState(m, {"ATTEMPT_STARTED"})
    BY <1>1 DEF InState
  <2>4. \A j \in InState(m, {"ATTEMPT_STARTED"}) :
          m.req[j].target = m.req[i].target => j = i
    BY <2>3 DEF Orderly
  <2> QED BY <2>1, <2>2, <2>4 DEF TargetsOf, Orderly, Consistent
<1>9. n.quar = TargetsOf(n, InState(n, Doubtful))
  <2>1. i \notin InState(m, Doubtful)
    BY DEF InState, Doubtful
  <2>2. \A j \in InState(m, Doubtful) : n.req[j] = m.req[j]
    BY <2>1, <1>6 DEF InState
  <2>3. CASE v \in Doubtful
    <3>1. InState(n, Doubtful) = InState(m, Doubtful) \union {i}
      BY <2>3, <1>1, <1>4, <1>6 DEF InState
    <3> QED BY <3>1, <2>2, <2>3, <1>4, <1>6 DEF TargetsOf, Orderly, Consistent
  <2>4. CASE v \notin Doubtful
    <3>1. InState(n, Doubtful) = InState(m, Doubtful)
      BY <2>1, <2>4, <1>4, <1>6 DEF InState
    <3> QED BY <3>1, <2>2, <2>4 DEF TargetsOf, Orderly, Consistent
  <2> QED BY <2>3, <2>4
<1>10. n.inflight \intersect n.quar = {}
  BY DEF Orderly, Consistent
<1>11. \A c \in made : c.id = i => r.state \in Sent
  BY <1>4, <1>7
<1>12. \A c \in out : c.id = i => r.state \in {"ATTEMPT_STARTED"} \union Doubtful
  BY <1>4 DEF Terminal
<1>13. r.state = "EXPIRED" => r.why = "deadline"
  BY <1>2, <1>4
<1>14. /\ m.req[i].state \in Pending
       /\ r.state # "CONFIRMED" /\ r.state # "ATTEMPT_STARTED"
  BY <1>4, <1>7 DEF Pending
<1> QED BY <1>4, <1>5, <1>8, <1>9, <1>10, <1>11, <1>12, <1>13, <1>14, MoveKeepsOrder

-----------------------------------------------------------------------------
(* What a snapshot becomes under a boot.                                   *)

LEMMA RebootedRequest ==
    ASSUME NEW r \in Request
    PROVE  /\ Rebooted(r) \in Request
           /\ Rebooted(r).key = r.key /\ Rebooted(r).target = r.target
           /\ Rebooted(r).boot = r.boot
           /\ r.state \in {"PREPARED", "CONFIRMED"} =>
                Rebooted(r).state = "EXPIRED" /\ Rebooted(r).why = "boot"
           /\ r.state = "ATTEMPT_STARTED" => Rebooted(r).state = "UNKNOWN"
           /\ r.state \in Terminal => Rebooted(r) = r
BY DEF Rebooted, Request, Pending, Terminal, Compactable, Doubtful

LEMMA ConvertedFields ==
    ASSUME NEW m \in Collections, NEW s, s.state = m, NEW b, s.boot # b
    PROVE  /\ Converted(s, b) \in Collections
           /\ \A i \in Ids : Converted(s, b).req[i] = Rebooted(m.req[i])
           /\ \A k \in Keys : Converted(s, b).idem[k] =
                IF m.idem[k] \in InState(Converted(s, b), {"EXPIRED"})
                THEN NoId ELSE m.idem[k]
           /\ Converted(s, b).tomb = m.tomb \union
                KeysOf(Converted(s, b), InState(m, {"PREPARED", "CONFIRMED"}))
           /\ Converted(s, b).inflight = m.inflight \
                TargetsOf(Converted(s, b), InState(Converted(s, b), {"UNKNOWN"}))
           /\ Converted(s, b).quar = m.quar \union
                TargetsOf(Converted(s, b), InState(Converted(s, b), {"UNKNOWN"}))
<1>1. PICK f : f = [i \in Ids |-> Rebooted(m.req[i])]
  OBVIOUS
<1>2. PICK new : new = [m EXCEPT !.req = f]
  OBVIOUS
<1>3. PICK idem : idem = [k \in Keys |-> IF m.idem[k] \in InState(new, {"EXPIRED"})
                                         THEN NoId ELSE m.idem[k]]
  OBVIOUS
<1>4. PICK tomb : tomb = m.tomb \union KeysOf(new, InState(m, {"PREPARED", "CONFIRMED"}))
  OBVIOUS
<1>5. PICK doubt : doubt = TargetsOf(new, InState(new, {"UNKNOWN"}))
  OBVIOUS
<1>6. PICK n : n = Converted(s, b)
  OBVIOUS
<1>7. ASSUME NEW i \in Ids
      PROVE  /\ f[i] \in Request \union {Absent} /\ f[i] = Rebooted(m.req[i])
             /\ i \in InState(m, {"PREPARED", "CONFIRMED"}) \union Present(m) => f[i] \in Request
  <2>1. m.req[i] \in Request \union {Absent}
    BY DEF Collections
  <2>2. Rebooted(Absent) = Absent
    BY DEF Rebooted, Absent
  <2>3. i \in InState(m, {"PREPARED", "CONFIRMED"}) => i \in Present(m)
    BY DEF InState, Present, Pending
  <2>4. i \in Present(m) => m.req[i] \in Request
    BY Presence
  <2> QED BY <2>1, <2>2, <2>3, <2>4, <1>1, RebootedRequest
<1>8. f \in [Ids -> Request \union {Absent}]
  BY <1>1, <1>7
<1>9. /\ new.req = f /\ new.idem = m.idem /\ new.tomb = m.tomb
      /\ new.inflight = m.inflight /\ new.quar = m.quar /\ new \in Collections
  BY <1>2, <1>8 DEF Collections
<1>10. n = [new EXCEPT !.idem = idem, !.tomb = tomb,
                       !.inflight = m.inflight \ doubt, !.quar = m.quar \union doubt]
  <2>1. new = [s.state EXCEPT !.req = [i \in Ids |-> Rebooted(@[i])]]
    BY <1>1, <1>2
  <2> QED BY <1>3, <1>4, <1>5, <1>6, <1>9, <2>1 DEF Converted
<1>11. idem \in [Keys -> Ids \union {NoId}]
  BY <1>3 DEF Collections
<1>12. tomb \in SUBSET Keys
  <2>1. \A i \in InState(m, {"PREPARED", "CONFIRMED"}) : new.req[i].key \in Keys
    BY <1>7, <1>9 DEF InState, Request
  <2>2. m.tomb \in SUBSET Keys
    BY DEF Collections
  <2> QED BY <2>1, <2>2, <1>4 DEF KeysOf
<1>13. doubt \in SUBSET Targets
  <2>1. \A i \in InState(new, {"UNKNOWN"}) : new.req[i].target \in Targets
    <3> SUFFICES ASSUME NEW i \in InState(new, {"UNKNOWN"}) PROVE new.req[i].target \in Targets
      OBVIOUS
    <3>1. i \in Present(new)
      BY DEF Present, InState, Terminal, Doubtful
    <3> QED BY <3>1, <1>9, Presence DEF Request, InState
  <2> QED BY <2>1, <1>5 DEF TargetsOf
<1>14. m.inflight \ doubt \in SUBSET Targets /\ m.quar \union doubt \in SUBSET Targets
  BY <1>13 DEF Collections
<1>15. PICK busy, quar : busy = m.inflight \ doubt /\ quar = m.quar \union doubt
  OBVIOUS
<1>16. /\ n \in Collections /\ n.req = f /\ n.idem = idem /\ n.tomb = tomb
       /\ n.inflight = busy /\ n.quar = quar
  <2>1. n = [new EXCEPT !.idem = idem, !.tomb = tomb, !.inflight = busy, !.quar = quar]
    BY <1>10, <1>15
  <2>2. busy \in SUBSET Targets /\ quar \in SUBSET Targets
    BY <1>14, <1>15
  <2>3. new \in Collections /\ new.req = f
    BY <1>9
  <2> QED BY <2>1, <2>2, <2>3, <1>11, <1>12 DEF Collections
<1>17. /\ InState(n, {"EXPIRED"}) = InState(new, {"EXPIRED"})
       /\ TargetsOf(n, InState(n, {"UNKNOWN"})) = doubt
       /\ KeysOf(n, InState(m, {"PREPARED", "CONFIRMED"}))
            = KeysOf(new, InState(m, {"PREPARED", "CONFIRMED"}))
  BY <1>5, <1>9, <1>16 DEF InState, TargetsOf, KeysOf
<1>18. \A k \in Keys : n.idem[k] = IF m.idem[k] \in InState(n, {"EXPIRED"})
                                  THEN NoId ELSE m.idem[k]
  BY <1>3, <1>16, <1>17
<1>19. /\ n.tomb = m.tomb \union KeysOf(n, InState(m, {"PREPARED", "CONFIRMED"}))
       /\ n.inflight = m.inflight \ TargetsOf(n, InState(n, {"UNKNOWN"}))
       /\ n.quar = m.quar \union TargetsOf(n, InState(n, {"UNKNOWN"}))
  BY <1>4, <1>15, <1>16, <1>17
<1> QED BY <1>6, <1>7, <1>16, <1>18, <1>19

\* No more keys than requests.
LEMMA KeysAreCounted ==
    ASSUME NEW m, NEW ids, IsFiniteSet(ids)
    PROVE  /\ IsFiniteSet(KeysOf(m, ids))
           /\ Cardinality(KeysOf(m, ids)) <= Cardinality(ids)
<1>1. PICK f : f = [i \in ids |-> m.req[i].key]
  OBVIOUS
<1>2. PICK keys : keys = KeysOf(m, ids)
  OBVIOUS
<1>3. f \in [ids -> keys]
  BY <1>1, <1>2 DEF KeysOf
<1>4. \A k \in keys : \E i \in ids : f[i] = k
  BY <1>1, <1>2 DEF KeysOf
<1>5. f \in Surjection(ids, keys)
  BY <1>3, <1>4, Fun_IsSurj
<1> QED BY <1>2, <1>5, FS_Surjection

\* Under a later boot the requests are the same, none of them pending: an open
\* approval has expired and an attempt's outcome is unknown.
LEMMA ConvertedRequests ==
    ASSUME NEW m \in Collections, NEW s, s.state = m, NEW b, s.boot # b
    PROVE  /\ Present(Converted(s, b)) = Present(m)
           /\ \A i \in Present(m) :
                /\ i \in Ids /\ m.req[i] \in Request
                /\ Converted(s, b).req[i] = Rebooted(m.req[i])
                /\ Converted(s, b).req[i] \in Request
                /\ Converted(s, b).req[i].key = m.req[i].key
                /\ Converted(s, b).req[i].target = m.req[i].target
                /\ Converted(s, b).req[i].boot = m.req[i].boot
                /\ Converted(s, b).req[i].state \in Terminal
                /\ m.req[i].state \in {"PREPARED", "CONFIRMED"} =>
                     /\ Converted(s, b).req[i].state = "EXPIRED"
                     /\ Converted(s, b).req[i].why = "boot"
                /\ m.req[i].state = "ATTEMPT_STARTED" =>
                     Converted(s, b).req[i].state = "UNKNOWN"
                /\ m.req[i].state \in Terminal => Converted(s, b).req[i] = m.req[i]
<1>1. PICK n : n = Converted(s, b)
  OBVIOUS
<1>2. n \in Collections /\ \A i \in Ids : n.req[i] = Rebooted(m.req[i])
  BY <1>1, ConvertedFields
<1>3. ASSUME NEW i \in Present(m)
      PROVE  /\ i \in Ids /\ m.req[i] \in Request
             /\ n.req[i] = Rebooted(m.req[i]) /\ n.req[i] \in Request
             /\ n.req[i].key = m.req[i].key /\ n.req[i].target = m.req[i].target
             /\ n.req[i].boot = m.req[i].boot
             /\ m.req[i].state \in {"PREPARED", "CONFIRMED"} =>
                  n.req[i].state = "EXPIRED" /\ n.req[i].why = "boot"
             /\ m.req[i].state = "ATTEMPT_STARTED" => n.req[i].state = "UNKNOWN"
             /\ m.req[i].state \in Terminal => n.req[i] = m.req[i]
  <2>1. i \in Ids /\ m.req[i] \in Request
    BY Presence DEF Present, InState
  <2>2. n.req[i] = Rebooted(m.req[i])
    BY <2>1, <1>2
  <2> QED BY <2>1, <2>2, RebootedRequest
<1>4. ASSUME NEW i \in Present(m) PROVE n.req[i].state \in Terminal
  <2>1. m.req[i].state \in {"PREPARED", "CONFIRMED", "ATTEMPT_STARTED"} \union Terminal
    BY DEF Present, InState, Pending
  <2> QED BY <2>1, <1>3 DEF Terminal, Compactable, Doubtful
<1>5. ASSUME NEW i \in Ids, i \notin Present(m) PROVE i \notin Present(n)
  <2>1. m.req[i] = Absent
    BY <1>5, Presence
  <2>2. n.req[i] = Rebooted(Absent)
    BY <2>1, <1>2
  <2>3. Rebooted(Absent) = Absent
    BY DEF Rebooted, Absent
  <2> QED BY <2>2, <2>3 DEF Absent, Present, InState, Pending, Terminal, Compactable, Doubtful
<1>6. Present(n) = Present(m)
  BY <1>3, <1>4, <1>5 DEF Present, InState
<1> QED BY <1>1, <1>3, <1>4, <1>6

\* What a boot change makes of a request's idempotency mapping.
LEMMA ConvertedMapping ==
    ASSUME NEW m \in Collections, NEW s, s.state = m, NEW b, s.boot # b,
           NEW c, Consistent(m, c), NEW i \in Present(m)
    PROVE  /\ Converted(s, b).req[i].state = "EXPIRED" =>
                Converted(s, b).idem[m.req[i].key] = NoId
           /\ Converted(s, b).req[i].state # "EXPIRED" =>
                Converted(s, b).idem[m.req[i].key] = i
<1>1. PICK n : n = Converted(s, b)
  OBVIOUS
<1>2. /\ i \in Ids /\ m.req[i] \in Request
      /\ m.req[i].state \in Terminal => n.req[i] = m.req[i]
  BY <1>1, ConvertedRequests
<1>3. n.idem[m.req[i].key] = IF m.idem[m.req[i].key] \in InState(n, {"EXPIRED"})
                             THEN NoId ELSE m.idem[m.req[i].key]
  BY <1>1, <1>2, ConvertedFields DEF Request
<1>4. m.idem[m.req[i].key] = i \/ (m.idem[m.req[i].key] = NoId /\ m.req[i].state = "EXPIRED")
  BY DEF Consistent, BootHistory
<1>5. NoId \notin InState(n, {"EXPIRED"})
  BY NoIdAssumption DEF InState
<1>6. i \in InState(n, {"EXPIRED"}) <=> n.req[i].state = "EXPIRED"
  BY <1>2 DEF InState
<1>7. m.req[i].state = "EXPIRED" => n.req[i].state = "EXPIRED"
  BY <1>2 DEF Terminal, Compactable
<1> QED BY <1>1, <1>3, <1>4, <1>5, <1>6, <1>7

LEMMA RestartKeepsOrder ==
    ASSUME NEW s \in [boot : Boots, state : Collections], NEW b \in Boots, s.boot <= b,
           NEW known, NEW oks, NEW made \in SUBSET Call, NEW out,
           Orderly(s.state, s.boot, known, oks), Knows(s.state, made, out),
           Restorable(s, b)
    PROVE  /\ Converted(s, b) \in Collections
           /\ Orderly(Converted(s, b), b, known, oks)
           /\ Knows(Converted(s, b), made, out)
           /\ s.state.quar \subseteq Converted(s, b).quar
<1>1. CASE s.boot = b
  BY <1>1 DEF Converted
<1>2. CASE s.boot # b
  <2>1. PICK n : n = Converted(s, b)
    OBVIOUS
  <2>2. PICK m : m = s.state
    OBVIOUS
  <2>3. /\ m \in Collections /\ Orderly(m, s.boot, known, oks) /\ Knows(m, made, out)
        /\ s.boot \in Boots
    BY <2>2
  <2>4. /\ n \in Collections /\ m.tomb \subseteq n.tomb /\ m.quar \subseteq n.quar
        /\ n.tomb = m.tomb \union KeysOf(n, InState(m, {"PREPARED", "CONFIRMED"}))
    BY <1>2, <2>1, <2>2, <2>3, ConvertedFields
  <2>5. Consistent(n, b)
    BY <2>1 DEF Restorable
  <2>6. /\ Present(n) = Present(m)
        /\ \A i \in Present(m) :
             /\ i \in Ids /\ m.req[i] \in Request /\ n.req[i] \in Request
             /\ n.req[i].key = m.req[i].key /\ n.req[i].target = m.req[i].target
             /\ n.req[i].boot = m.req[i].boot /\ n.req[i].state \in Terminal
             /\ m.req[i].state \in {"PREPARED", "CONFIRMED"} =>
                  n.req[i].state = "EXPIRED" /\ n.req[i].why = "boot"
             /\ m.req[i].state = "ATTEMPT_STARTED" => n.req[i].state = "UNKNOWN"
             /\ m.req[i].state \in Terminal => n.req[i] = m.req[i]
    BY <1>2, <2>1, <2>2, <2>3, ConvertedRequests
  <2>7. \A i \in Present(m) : n.req[i].state = "EXPIRED" => n.idem[n.req[i].key] = NoId
    BY <1>2, <2>1, <2>2, <2>3, <2>6, ConvertedMapping DEF Orderly
  <2>8. IsFiniteSet(n.tomb)
    <3>1. InState(m, {"PREPARED", "CONFIRMED"}) \subseteq Present(m)
      BY DEF InState, Present, Pending
    <3>2. IsFiniteSet(InState(m, {"PREPARED", "CONFIRMED"}))
      BY <3>1, <2>3, FS_Subset DEF Orderly
    <3>3. IsFiniteSet(KeysOf(n, InState(m, {"PREPARED", "CONFIRMED"})))
      BY <3>2, KeysAreCounted
    <3>4. IsFiniteSet(m.tomb)
      BY <2>3 DEF Orderly
    <3> QED BY <3>3, <3>4, <2>4, FS_Union
  <2>9. ASSUME NEW i \in Present(n)
        PROVE  /\ n.req[i].boot <= b
               /\ n.req[i].state \in Pending => n.req[i].boot = b
               /\ n.req[i].state = "CONFIRMED" => [id |-> i, boot |-> b] \in oks
               /\ n.req[i].state = "EXPIRED" => n.req[i].why # "none"
               /\ n.req[i].state = "EXPIRED" /\ n.req[i].why = "boot" =>
                     n.idem[n.req[i].key] = NoId
    <3>1. n.req[i].boot <= s.boot /\ n.req[i].boot \in Nat /\ s.boot \in Nat /\ b \in Nat
      <4>1. i \in Present(m) /\ n.req[i].boot = m.req[i].boot /\ n.req[i] \in Request
        BY <2>6
      <4>2. m.req[i].boot <= s.boot
        BY <4>1, <2>3 DEF Orderly
      <4>3. n.req[i].boot \in Boots
        BY <4>1 DEF Request
      <4> QED BY <4>1, <4>2, <4>3, <2>3 DEF Boots
    <3>2. n.req[i].state \notin Pending /\ n.req[i].state # "CONFIRMED"
      BY <2>6 DEF Pending, Terminal, Compactable, Doubtful
    <3>3. n.req[i].state = "EXPIRED" => n.req[i].why # "none"
      <4>1. m.req[i].state \in {"PREPARED", "CONFIRMED", "ATTEMPT_STARTED"} \union Terminal
        BY <2>6 DEF Present, InState, Pending
      <4>2. m.req[i].state \in Terminal => n.req[i] = m.req[i]
        BY <2>6
      <4>3. m.req[i].state = "EXPIRED" => m.req[i].why # "none"
        BY <2>3, <2>6 DEF Orderly
      <4>4. m.req[i].state \in {"PREPARED", "CONFIRMED"} => n.req[i].why = "boot"
        BY <2>6
      <4>5. m.req[i].state = "ATTEMPT_STARTED" => n.req[i].state = "UNKNOWN"
        BY <2>6
      <4> QED BY <4>1, <4>2, <4>3, <4>4, <4>5
    <3> QED BY <3>1, <3>2, <3>3, <2>6, <2>7
  <2>10. InState(n, {"ATTEMPT_STARTED"}) = {}
    <3> SUFFICES ASSUME NEW i \in InState(n, {"ATTEMPT_STARTED"}) PROVE FALSE
      OBVIOUS
    <3>1. i \in Present(n) /\ n.req[i].state = "ATTEMPT_STARTED"
      BY DEF InState, Present, Pending
    <3> QED BY <3>1, <2>6 DEF Terminal, Compactable, Doubtful
  <2>11. Orderly(n, b, known, oks)
    BY <2>3, <2>5, <2>6, <2>8, <2>9, <2>10 DEF Orderly
  <2>12. ASSUME NEW c \in made
         PROVE  /\ c.id \in Present(n) =>
                     /\ n.req[c.id].state \in Sent
                     /\ n.req[c.id].key = c.key /\ n.req[c.id].target = c.target
                /\ c.id \in Present(n) \/ c.key \in n.tomb
    BY <2>3, <2>4, <2>6 DEF Knows, Sent
  <2>13. ASSUME NEW c \in out
         PROVE  c.id \in InState(n, {"ATTEMPT_STARTED"} \union Doubtful)
    <3>1. c.id \in InState(m, {"ATTEMPT_STARTED"} \union Doubtful)
      BY <2>3 DEF Knows
    <3>2. c.id \in Present(m)
      BY <3>1 DEF InState, Present, Pending, Terminal
    <3> QED BY <3>1, <3>2, <2>6 DEF InState, Terminal, Doubtful
  <2>14. Knows(n, made, out)
    BY <2>12, <2>13 DEF Knows
  <2> QED BY <2>1, <2>2, <2>4, <2>11, <2>14
<1> QED BY <1>1, <1>2

\* A collection in order is accepted under the boot that saved it.
LEMMA RestartsInBoot ==
    ASSUME NEW s \in [boot : Boots, state : Collections], NEW known, NEW oks,
           Orderly(s.state, s.boot, known, oks)
    PROVE  Restorable(s, s.boot)
<1>1. Consistent(Converted(s, s.boot), s.boot)
  BY DEF Orderly, Converted
<1>2. BootsAgree(s, s.boot)
  <2> SUFFICES ASSUME NEW i \in Present(s.state), s.state.req[i].boot # s.boot
               PROVE  i \in InState(s.state, Terminal)
    BY DEF BootsAgree
  <2>1. s.state.req[i].state \notin Pending
    BY DEF Orderly
  <2> QED BY <2>1 DEF Present, InState
<1> QED BY <1>1, <1>2 DEF Restorable

\* And under a later one, unless a deadline ran out in the middle of an
\* execution or the tombstones overflow.
LEMMA RestartsInLaterBoot ==
    ASSUME NEW s \in [boot : Boots, state : Collections], NEW known, NEW oks,
           Orderly(s.state, s.boot, known, oks), NEW b \in Nat, s.boot < b,
           ~Overflows(s),
           \A i \in InState(s.state, {"EXPIRED"}) : s.state.req[i].why # "deadline"
    PROVE  Restorable(s, b)
<1>1. PICK n : n = Converted(s, b)
  OBVIOUS
<1>2. PICK m : m = s.state
  OBVIOUS
<1>3. PICK open : open = InState(m, {"PREPARED", "CONFIRMED"})
  OBVIOUS
<1>4. /\ m \in Collections /\ Orderly(m, s.boot, known, oks) /\ Consistent(m, s.boot)
      /\ s.boot \in Nat /\ s.boot # b
  BY <1>2 DEF Boots, Orderly
<1>5. /\ n \in Collections
      /\ \A k \in Keys : n.idem[k] = IF m.idem[k] \in InState(n, {"EXPIRED"})
                                    THEN NoId ELSE m.idem[k]
      /\ n.tomb = m.tomb \union KeysOf(n, open)
      /\ n.inflight = m.inflight \ TargetsOf(n, InState(n, {"UNKNOWN"}))
      /\ n.quar = m.quar \union TargetsOf(n, InState(n, {"UNKNOWN"}))
  BY <1>1, <1>2, <1>3, <1>4, ConvertedFields
<1>6. /\ Present(n) = Present(m)
      /\ \A i \in Present(m) :
           /\ i \in Ids /\ m.req[i] \in Request /\ n.req[i] \in Request
           /\ n.req[i].key = m.req[i].key /\ n.req[i].target = m.req[i].target
           /\ n.req[i].boot = m.req[i].boot /\ n.req[i].state \in Terminal
           /\ m.req[i].state \in {"PREPARED", "CONFIRMED"} =>
                n.req[i].state = "EXPIRED" /\ n.req[i].why = "boot"
           /\ m.req[i].state = "ATTEMPT_STARTED" => n.req[i].state = "UNKNOWN"
           /\ m.req[i].state \in Terminal => n.req[i] = m.req[i]
  BY <1>1, <1>2, <1>4, ConvertedRequests
<1>7. \A i \in Present(m) :
        /\ n.req[i].state = "EXPIRED" => n.idem[m.req[i].key] = NoId
        /\ n.req[i].state # "EXPIRED" => n.idem[m.req[i].key] = i
  BY <1>1, <1>2, <1>4, ConvertedMapping
<1>8. \A i \in Present(m) : m.req[i].state \in {"PREPARED", "CONFIRMED", "ATTEMPT_STARTED"}
                                                   \union Terminal
  BY DEF Present, InState, Pending
<1>9. open \subseteq Present(m)
  BY <1>3 DEF InState, Present, Pending
<1>10. \A i \in Present(m) : m.req[i].boot \in Nat /\ m.req[i].boot < b
  <2> SUFFICES ASSUME NEW i \in Present(m) PROVE m.req[i].boot \in Nat /\ m.req[i].boot < b
    OBVIOUS
  <2>1. m.req[i].boot <= s.boot /\ m.req[i].boot \in Boots
    BY <1>4, <1>6 DEF Orderly, Request
  <2> QED BY <2>1, <1>4 DEF Boots
<1>11. BootsAgree(s, b)
  BY <1>2, <1>4, <1>10 DEF BootsAgree
<1>12. ASSUME NEW k \in Keys, n.idem[k] # NoId
       PROVE  n.idem[k] \in Present(n) /\ n.req[n.idem[k]].key = k /\ k \notin n.tomb
  <2>1. n.idem[k] = m.idem[k] /\ m.idem[k] \notin InState(n, {"EXPIRED"})
    BY <1>5, <1>12
  <2>2. m.idem[k] \in Present(m) /\ m.req[m.idem[k]].key = k /\ k \notin m.tomb
    BY <2>1, <1>4, <1>12 DEF Consistent
  <2>3. k \notin KeysOf(n, open)
    <3> SUFFICES ASSUME NEW j \in open, n.req[j].key = k PROVE FALSE
      BY DEF KeysOf
    <3>1. j \in Present(m) /\ n.req[j].state = "EXPIRED" /\ m.req[j].key = k
      BY <1>3, <1>6, <1>9 DEF InState
    <3>2. n.idem[k] = NoId
      BY <3>1, <1>7
    <3> QED BY <3>2, <1>12
  <2> QED BY <2>1, <2>2, <2>3, <1>5, <1>6
<1>13. ASSUME NEW i \in Present(n)
       PROVE  \/ n.idem[n.req[i].key] = i
              \/ n.idem[n.req[i].key] = NoId /\ BootHistory(n, i, b)
  <2>1. CASE n.req[i].state # "EXPIRED"
    BY <2>1, <1>6, <1>7
  <2>2. CASE n.req[i].state = "EXPIRED"
    <3>1. n.idem[n.req[i].key] = NoId /\ n.req[i].boot # b
      BY <2>2, <1>6, <1>7, <1>10
    <3>2. CASE m.req[i].state \in {"PREPARED", "CONFIRMED"}
      <4>1. n.req[i].why = "boot" /\ i \in open
        BY <3>2, <1>3, <1>6 DEF InState
      <4>2. n.req[i].key \in n.tomb
        BY <4>1, <1>5 DEF KeysOf
      <4> QED BY <2>2, <3>1, <4>1, <4>2 DEF BootHistory
    <3>3. CASE m.req[i].state \in Terminal
      <4>1. n.req[i] = m.req[i] /\ m.req[i].state = "EXPIRED" /\ i \in Present(m) /\ i \in Ids
        BY <2>2, <3>3, <1>6
      <4>2. m.req[i].why # "none" /\ m.req[i].why # "deadline"
        BY <4>1, <1>2, <1>4 DEF Orderly, InState
      <4>3. m.req[i].why = "boot"
        BY <4>1, <4>2, <1>6 DEF Request
      <4>4. m.idem[m.req[i].key] = NoId
        BY <4>1, <4>3, <1>4 DEF Orderly
      <4>5. m.req[i].key \in m.tomb
        BY <4>1, <4>4, <1>4, NoIdAssumption DEF Consistent, BootHistory
      <4> QED BY <2>2, <3>1, <4>1, <4>3, <4>5, <1>5 DEF BootHistory
    <3>4. m.req[i].state # "ATTEMPT_STARTED"
      BY <2>2, <1>6
    <3> QED BY <3>2, <3>3, <3>4, <1>6, <1>8
  <2> QED BY <2>1, <2>2
<1>14. \A i \in InState(m, {"ATTEMPT_STARTED"} \union Doubtful) : i \in Present(m)
  BY DEF InState, Present, Pending, Terminal
<1>15. InState(n, {"ATTEMPT_STARTED"}) = {}
  <2> SUFFICES ASSUME NEW i \in InState(n, {"ATTEMPT_STARTED"}) PROVE FALSE
    OBVIOUS
  <2>1. i \in Present(n) /\ n.req[i].state = "ATTEMPT_STARTED"
    BY DEF InState, Present, Pending
  <2> QED BY <2>1, <1>6 DEF Terminal, Compactable, Doubtful
<1>16. n.inflight = {}
  <2> SUFFICES ASSUME NEW t \in m.inflight PROVE t \in TargetsOf(n, InState(n, {"UNKNOWN"}))
    BY <1>5
  <2>1. PICK i \in InState(m, {"ATTEMPT_STARTED"}) : m.req[i].target = t
    BY <1>4 DEF Consistent, TargetsOf
  <2>2. i \in Present(m) /\ m.req[i].state = "ATTEMPT_STARTED"
    BY <1>14 DEF InState
  <2>3. i \in InState(n, {"UNKNOWN"}) /\ n.req[i].target = t
    BY <2>1, <2>2, <1>6 DEF InState
  <2> QED BY <2>3 DEF TargetsOf
<1>17. n.quar = TargetsOf(n, InState(n, Doubtful))
  <2>1. ASSUME NEW t \in n.quar PROVE t \in TargetsOf(n, InState(n, Doubtful))
    <3>1. CASE t \in m.quar
      <4>1. PICK i \in InState(m, Doubtful) : m.req[i].target = t
        BY <3>1, <1>4 DEF Consistent, TargetsOf
      <4>2. i \in Present(m) /\ m.req[i].state \in Doubtful
        BY <1>14 DEF InState
      <4>3. i \in InState(n, Doubtful) /\ n.req[i].target = t
        BY <4>1, <4>2, <1>6 DEF InState, Terminal
      <4> QED BY <4>3 DEF TargetsOf
    <3>2. CASE t \in TargetsOf(n, InState(n, {"UNKNOWN"}))
      BY <3>2 DEF TargetsOf, InState, Doubtful
    <3> QED BY <2>1, <3>1, <3>2, <1>5
  <2>2. ASSUME NEW i \in InState(n, Doubtful) PROVE n.req[i].target \in n.quar
    <3>1. i \in Present(m) /\ n.req[i].state \in Doubtful /\ i \in Ids
      BY <1>6 DEF InState, Present, Terminal
    <3>2. CASE m.req[i].state = "ATTEMPT_STARTED"
      <4>1. i \in InState(n, {"UNKNOWN"})
        BY <3>1, <3>2, <1>6 DEF InState
      <4> QED BY <4>1, <1>5 DEF TargetsOf
    <3>3. CASE m.req[i].state \in Terminal
      <4>1. i \in InState(m, Doubtful) /\ m.req[i].target = n.req[i].target
        BY <3>1, <3>3, <1>6 DEF InState
      <4> QED BY <4>1, <1>4, <1>5 DEF Consistent, TargetsOf
    <3>4. m.req[i].state \notin {"PREPARED", "CONFIRMED"}
      BY <3>1, <1>6 DEF Doubtful
    <3> QED BY <3>1, <3>2, <3>3, <3>4, <1>8
  <2> QED BY <2>1, <2>2 DEF TargetsOf
<1>18. Fits(n)
  <2>1. /\ IsFiniteSet(Present(m)) /\ IsFiniteSet(m.tomb) /\ Fits(m)
    BY <1>4 DEF Orderly, Consistent
  <2>2. IsFiniteSet(open)
    BY <2>1, <1>9, FS_Subset
  <2>3. /\ IsFiniteSet(KeysOf(n, open))
        /\ Cardinality(KeysOf(n, open)) <= Cardinality(open)
    BY <2>2, KeysAreCounted
  <2>4. Cardinality(n.tomb) =
          Cardinality(m.tomb) + Cardinality(KeysOf(n, open))
            - Cardinality(m.tomb \intersect KeysOf(n, open))
    BY <2>1, <2>3, <1>5, FS_Union
  <2>5. /\ Cardinality(m.tomb) \in Nat /\ Cardinality(KeysOf(n, open)) \in Nat
        /\ Cardinality(open) \in Nat
        /\ Cardinality(m.tomb \intersect KeysOf(n, open)) \in Nat
    BY <2>1, <2>2, <2>3, FS_CardinalityType, FS_Subset
  <2>6. Cardinality(m.tomb) + Cardinality(open) <= MaxTombstones
    BY <2>5, <1>2, <1>3, BrokerBounds DEF Overflows
  <2>7. Cardinality(n.tomb) <= MaxTombstones
    BY <2>3, <2>4, <2>5, <2>6, BrokerBounds
  <2> QED BY <2>1, <2>7, <1>6 DEF Fits
<1>19. TargetsOf(n, {}) = {}
  BY DEF TargetsOf
<1>20. Consistent(n, b)
  BY <1>12, <1>13, <1>15, <1>16, <1>17, <1>18, <1>19 DEF Consistent
<1> QED BY <1>1, <1>11, <1>20 DEF Restorable

-----------------------------------------------------------------------------
(* The invariant, and what keeps it.                                       *)

Typed ==
    /\ mem \in Collections
    /\ store \in [boot : Boots, state : Collections]
    /\ up \in BOOLEAN /\ boot \in Boots
    /\ attesting \subseteq Ids /\ task \in [Ids -> Task]
    /\ expired \subseteq used /\ used \subseteq Ids
    /\ approved \subseteq [id : Ids, boot : Boots]
    /\ calls \subseteq Call /\ flying \subseteq calls

LEMMA EmptyIsOrderly ==
    ASSUME NEW b, NEW known, NEW oks
    PROVE  /\ Empty \in Collections /\ Orderly(Empty, b, known, oks)
           /\ Knows(Empty, {}, {}) /\ Present(Empty) = {} /\ Empty.quar = {}
           /\ \A i \in Ids : Empty.req[i].state = "ABSENT"
<1>1. Empty \in Collections
  BY DEF Empty, Collections
<1>2. \A i \in Ids : Empty.req[i].state = "ABSENT"
  BY DEF Empty, Absent
<1>3. Present(Empty) = {}
  BY <1>2 DEF Present, InState, Pending, Terminal, Compactable, Doubtful
<1>4. InState(Empty, {"ATTEMPT_STARTED"}) = {} /\ InState(Empty, Doubtful) = {}
  BY <1>2 DEF InState, Doubtful
<1>5. \A k \in Keys : Empty.idem[k] = NoId
  BY DEF Empty
<1>6. Empty.tomb = {} /\ Empty.inflight = {} /\ Empty.quar = {}
  BY DEF Empty
<1>7. IsFiniteSet({}) /\ Cardinality({}) = 0
  BY FS_EmptySet
<1>8. TargetsOf(Empty, {}) = {}
  BY DEF TargetsOf
<1>9. Consistent(Empty, b)
  BY <1>3, <1>4, <1>5, <1>6, <1>7, <1>8, BrokerBounds DEF Consistent, Fits
<1>10. Orderly(Empty, b, known, oks)
  BY <1>3, <1>4, <1>6, <1>7, <1>9 DEF Orderly
<1>11. Knows(Empty, {}, {})
  BY DEF Knows
<1> QED BY <1>1, <1>2, <1>3, <1>6, <1>10, <1>11

LEMMA OrderGrows ==
    ASSUME NEW m, NEW b, NEW known, NEW oks, NEW known2, NEW oks2, NEW made,
           NEW out, NEW out2,
           Orderly(m, b, known, oks), Knows(m, made, out),
           known \subseteq known2, oks \subseteq oks2, out2 \subseteq out
    PROVE  Orderly(m, b, known2, oks2) /\ Knows(m, made, out2)
<1>1. Orderly(m, b, known2, oks2)
  BY DEF Orderly
<1>2. Knows(m, made, out2)
  BY DEF Knows
<1> QED BY <1>1, <1>2

\* A step that makes no call: memory and snapshot are as they were or become n.
LEMMA QuietStep ==
    ASSUME Typed, BrokerInv, up, up', boot' = boot, calls' = calls,
           flying' \subseteq flying, used \subseteq used', approved \subseteq approved',
           NEW n \in Collections, Orderly(n, boot, used', approved'),
           Knows(n, calls, flying'), mem.quar \subseteq n.quar,
           \/ mem' = mem /\ store' = store
           \/ mem' = n /\ store' \in {store, Snapshot(n)}
           \/ mem' = mem /\ n.quar = mem.quar /\ store' \in {store, Snapshot(n)},
           \A i \in Ids : task'[i] # "none" => AtWork(i)'
    PROVE  BrokerInv'
<1>1. /\ Orderly(mem, boot, used', approved') /\ Knows(mem, calls, flying')
      /\ Orderly(store.state, store.boot, used', approved')
      /\ Knows(store.state, calls, flying')
      /\ store.boot <= boot /\ store.state.quar \subseteq mem.quar
  BY OrderGrows DEF BrokerInv
<1>2. Orderly(mem', boot, used', approved') /\ Knows(mem', calls, flying')
  BY <1>1
<1>3. Snapshot(n).boot = boot /\ Snapshot(n).state = n
  BY DEF Snapshot
<1>4. /\ Orderly(store'.state, store'.boot, used', approved')
      /\ Knows(store'.state, calls, flying')
      /\ store'.boot <= boot
      /\ store'.state.quar \subseteq mem'.quar
  <2>1. CASE store' = store
    BY <2>1, <1>1
  <2>2. CASE store' = Snapshot(n)
    <3>1. store'.state = n /\ store'.boot = boot
      BY <2>2, <1>3
    <3>2. boot <= boot
      BY DEF Typed, Boots
    <3>3. CASE mem' = n \/ (n.quar = mem.quar /\ mem' = mem)
      BY <3>1, <3>2, <3>3, Zenon
    <3>4. CASE mem' = mem /\ store' = store
      BY <3>4, <1>1
    <3>5. \/ mem' = n \/ (n.quar = mem.quar /\ mem' = mem)
          \/ mem' = mem /\ store' = store
      OBVIOUS
    <3> QED BY <3>3, <3>4, <3>5
  <2> QED BY <2>1, <2>2
<1>5. \A c \in calls : c.id \in used'
  BY DEF BrokerInv
<1>6. OneCallPerKey' /\ NoOverlappingWrites' /\ ApprovedInThisBoot'
  BY DEF BrokerInv, OneCallPerKey, NoOverlappingWrites, ApprovedInThisBoot
<1> QED BY <1>2, <1>4, <1>5, <1>6 DEF BrokerInv

LEMMA StillAtWork ==
    ASSUME NEW i \in Ids, AtWork(i), up', boot' = boot, task'[i] = task[i],
           mem'.req[i] = mem.req[i], store'.state.req[i] = store.state.req[i],
           approved \subseteq approved', calls' = calls, flying' \subseteq flying
    PROVE  AtWork(i)'
BY DEF AtWork, CallOf

\* A thread at work finds its attempt in memory and in the snapshot.
LEMMA AttemptKnown ==
    ASSUME Typed, BrokerInv, NEW i \in Ids, task[i] # "none"
    PROVE  /\ up /\ i \in Present(mem) /\ i \in Present(store.state)
           /\ mem.req[i].state = "ATTEMPT_STARTED" /\ mem.req[i] = store.state.req[i]
           /\ Orderly(mem, boot, used, approved) /\ Knows(mem, calls, flying)
           /\ store.state.quar \subseteq mem.quar
BY DEF BrokerInv, AtWork, Present, InState, Pending

\* Cleaning up before a request is added keeps everything in order.
LEMMA CleanUp ==
    ASSUME Typed, BrokerInv, up, NEW gone \in SUBSET Ids, MayCompact(Pruned(mem), gone)
    PROVE  /\ Compacted(Pruned(mem), gone) \in Collections
           /\ Orderly(Compacted(Pruned(mem), gone), boot, used, approved)
           /\ Knows(Compacted(Pruned(mem), gone), calls, flying)
           /\ Compacted(Pruned(mem), gone).quar = mem.quar
           /\ \A i \in Ids : mem.req[i].state = "ATTEMPT_STARTED" =>
                Compacted(Pruned(mem), gone).req[i] = mem.req[i]
<1>1. PICK m : m = mem
  OBVIOUS
<1>2. PICK late : late = InState(m, {"PREPARED", "CONFIRMED"}) \intersect expired
  OBVIOUS
<1>3. PICK p : p = Pruned(m)
  OBVIOUS
<1>4. PICK n : n = Compacted(p, gone)
  OBVIOUS
<1>5. /\ m \in Collections /\ Orderly(m, boot, used, approved) /\ Knows(m, calls, flying)
      /\ boot \in Boots /\ calls \in SUBSET Call
  BY <1>1 DEF Typed, BrokerInv
<1>6. late \in SUBSET Present(m) /\ late \in SUBSET Ids
  BY <1>2 DEF InState, Present, Pending
<1>7. p \in Collections /\ Removed(m, p, late) /\ p.tomb = m.tomb
  BY <1>2, <1>3, <1>5, <1>6, WithoutRemoves DEF Pruned
<1>8. Orderly(p, boot, used, approved) /\ Knows(p, calls, flying)
  <2>1. late \intersect InState(m, {"ATTEMPT_STARTED"} \union Doubtful) = {}
    BY <1>2 DEF InState, Doubtful
  <2>2. late \subseteq InState(m, {"PREPARED", "CONFIRMED"})
    BY <1>2
  <2> QED BY <2>1, <2>2, <1>5, <1>6, <1>7, RemovalKeepsOrder
<1>9. /\ gone \subseteq InState(p, Compactable) /\ Cardinality(gone) = Surplus(p)
      /\ gone # {} => Cardinality(p.tomb) < MaxTombstones
  BY <1>1, <1>3 DEF MayCompact
<1>10. gone \in SUBSET Present(p)
  BY <1>9 DEF InState, Present, Terminal
<1>11. n \in Collections /\ Removed(p, n, gone) /\ n.tomb = p.tomb \union KeysOf(p, gone)
  BY <1>4, <1>7, <1>10, CompactedRemoves
<1>12. IsFiniteSet(n.tomb) /\ Cardinality(n.tomb) <= MaxTombstones
  <2>1. /\ IsFiniteSet(Present(p)) /\ Cardinality(Present(p)) <= MaxPending
        /\ IsFiniteSet(p.tomb) /\ Cardinality(p.tomb) <= MaxTombstones
    BY <1>8 DEF Orderly, Consistent, Fits
  <2>2. InState(p, Compactable) \subseteq Present(p)
    BY DEF InState, Present, Terminal
  <2>3. /\ IsFiniteSet(InState(p, Compactable))
        /\ Cardinality(InState(p, Compactable)) <= Cardinality(Present(p))
        /\ Cardinality(InState(p, Compactable)) \in Nat
        /\ Cardinality(Present(p)) \in Nat
        /\ IsFiniteSet(gone) /\ Cardinality(gone) \in Nat
    BY <2>1, <2>2, <1>10, FS_Subset, FS_CardinalityType
  <2>4. Cardinality(gone) <= 1
    BY <2>1, <2>3, <1>9, BrokerBounds DEF Surplus
  <2>5. /\ IsFiniteSet(KeysOf(p, gone))
        /\ Cardinality(KeysOf(p, gone)) <= Cardinality(gone)
    BY <2>3, KeysAreCounted
  <2>6. IsFiniteSet(n.tomb)
    BY <2>1, <2>5, <1>11, FS_Union
  <2>7. CASE gone = {}
    BY <2>1, <2>7, <1>11 DEF KeysOf
  <2>8. CASE gone # {}
    <3>1. Cardinality(n.tomb) =
            Cardinality(p.tomb) + Cardinality(KeysOf(p, gone))
              - Cardinality(p.tomb \intersect KeysOf(p, gone))
      BY <2>1, <2>5, <1>11, FS_Union
    <3>2. /\ Cardinality(p.tomb) \in Nat /\ Cardinality(KeysOf(p, gone)) \in Nat
          /\ Cardinality(p.tomb \intersect KeysOf(p, gone)) \in Nat
      BY <2>1, <2>5, FS_CardinalityType, FS_Subset
    <3>3. Cardinality(n.tomb) <= MaxTombstones
      BY <2>3, <2>4, <2>5, <2>8, <3>1, <3>2, <1>9, BrokerBounds
    <3> QED BY <2>6, <3>3
  <2> QED BY <2>6, <2>7, <2>8
<1>13. gone \intersect InState(p, {"ATTEMPT_STARTED"} \union Doubtful) = {}
  BY <1>9 DEF InState, Compactable, Doubtful
<1>14. Orderly(n, boot, used, approved) /\ Knows(n, calls, flying)
  BY <1>5, <1>7, <1>8, <1>10, <1>11, <1>12, <1>13, RemovalKeepsOrder
<1>15. n.quar = m.quar
  BY <1>7, <1>11 DEF Removed
<1>16. ASSUME NEW i \in Ids, m.req[i].state = "ATTEMPT_STARTED" PROVE n.req[i] = m.req[i]
  <2>1. i \notin late
    BY <1>2, <1>16 DEF InState
  <2>2. p.req[i] = m.req[i]
    BY <2>1, <1>7 DEF Removed
  <2>3. i \notin gone
    BY <2>2, <1>9, <1>16 DEF InState, Compactable
  <2> QED BY <2>2, <2>3, <1>11 DEF Removed
<1> QED BY <1>1, <1>3, <1>4, <1>11, <1>14, <1>15, <1>16

LEMMA TypedStep ==
    ASSUME Typed, NEW n \in Collections, mem' \in {mem, n},
           store' \in {store, Snapshot(n)}, UNCHANGED <<up, boot>>,
           attesting' \subseteq Ids, task' \in [Ids -> Task], expired' \subseteq used',
           used' \subseteq Ids, approved' \subseteq [id : Ids, boot : Boots],
           UNCHANGED <<calls, flying>>
    PROVE  Typed'
<1>1. Snapshot(n) \in [boot : Boots, state : Collections]
  BY DEF Typed, Snapshot
<1>2. store' \in [boot : Boots, state : Collections]
  BY <1>1 DEF Typed
<1> QED BY <1>2 DEF Typed

-----------------------------------------------------------------------------
(* The actions.                                                            *)

LEMMA PrepareStep ==
    ASSUME Typed, BrokerInv, NEW i \in Ids, NEW k \in Keys, NEW t \in Targets,
           Prepare(i, k, t)
    PROVE  Typed' /\ BrokerInv'
<1>1. PICK gone \in SUBSET Ids :
        LET clean == Compacted(Pruned(mem), gone)
            new == Added(clean, i, k, t)
        IN  /\ MayCompact(Pruned(mem), gone)
            /\ clean.idem[k] = NoId /\ k \notin clean.tomb
            /\ Fits(new)
            /\ \/ mem' = new /\ Save(new)
               \/ mem' = mem /\ FailedSave(new)
  BY DEF Prepare
<1>2. PICK clean : clean = Compacted(Pruned(mem), gone)
  OBVIOUS
<1>3. PICK n : n = Added(clean, i, k, t)
  OBVIOUS
<1>4. /\ up /\ i \notin used /\ used' = used \union {i}
      /\ UNCHANGED <<up, boot, attesting, task, expired, approved, calls, flying>>
  BY DEF Prepare, history
<1>5. /\ clean \in Collections /\ Orderly(clean, boot, used, approved)
      /\ Knows(clean, calls, flying) /\ clean.quar = mem.quar
      /\ \A j \in Ids : mem.req[j].state = "ATTEMPT_STARTED" => clean.req[j] = mem.req[j]
  BY <1>1, <1>2, <1>4, CleanUp
<1>6. /\ clean.idem[k] = NoId /\ k \notin clean.tomb /\ Fits(n)
      /\ \/ mem' = n /\ Save(n)
         \/ mem' = mem /\ FailedSave(n)
  BY <1>1, <1>2, <1>3
<1>7. /\ n \in Collections
      /\ n.req = [clean.req EXCEPT ![i] = NewRequest(k, t, boot)]
      /\ n.idem = [clean.idem EXCEPT ![k] = i]
      /\ n.tomb = clean.tomb /\ n.inflight = clean.inflight /\ n.quar = clean.quar
  <2>1. boot \in Boots /\ clean \in Collections
    BY <1>5 DEF Typed
  <2> QED BY ONLY <2>1, <1>3, AddedFields, i \in Ids, k \in Keys, t \in Targets
<1>8. Orderly(n, boot, used', approved) /\ Knows(n, calls, flying)
  <2>1. (\A c \in calls : c.id \in used) /\ flying \subseteq calls /\ calls \in SUBSET Call
    BY DEF Typed, BrokerInv
  <2>2. Orderly(n, boot, used \union {i}, approved) /\ Knows(n, calls, flying)
    BY <2>1, <1>4, <1>5, <1>6, <1>7, AdditionKeepsOrder DEF Typed
  <2> QED BY <2>2, <1>4
<1>9. \/ mem' = n /\ store' = Snapshot(n)
      \/ mem' = mem /\ store' \in {store, Snapshot(n)}
  BY <1>6 DEF Save, FailedSave
<1>10. ASSUME NEW j \in Ids, task'[j] # "none" PROVE AtWork(j)'
  <2>1. AtWork(j)
    BY <1>4, <1>10 DEF BrokerInv
  <2>2. mem.req[j].state = "ATTEMPT_STARTED" /\ store.state.req[j] = mem.req[j]
    BY <2>1 DEF AtWork
  <2>3. j \in used
    <3>1. j \in Present(mem)
      BY <2>2 DEF Present, InState, Pending
    <3> QED BY <3>1, <1>4 DEF BrokerInv, Orderly
  <2>4. n.req[j] = mem.req[j]
    <3>1. j # i /\ clean.req \in [Ids -> Request \union {Absent}]
      BY <2>3, <1>4, <1>5 DEF Collections
    <3> QED BY <3>1, <2>2, <1>5, <1>7
  <2>5. mem'.req[j] = mem.req[j]
    BY <2>4, <1>9
  <2>6. store'.state.req[j] = store.state.req[j]
    BY <2>2, <2>4, <1>9 DEF Snapshot
  <2> QED BY <2>1, <2>5, <2>6, <1>4, StillAtWork
<1>11. Typed'
  <2>1. expired' \subseteq used' /\ used' \subseteq Ids
    BY <1>4 DEF Typed
  <2> QED BY <2>1, <1>4, <1>7, <1>9, TypedStep DEF Typed
<1>12. BrokerInv'
  <2>1. n.quar = mem.quar /\ used \subseteq used'
    BY <1>4, <1>5, <1>7
  <2> QED BY <2>1, <1>4, <1>7, <1>8, <1>9, <1>10, QuietStep
<1> QED BY <1>11, <1>12

LEMMA PrepareAgainStep ==
    ASSUME Typed, BrokerInv, NEW k \in Keys, NEW t \in Targets, PrepareAgain(k, t)
    PROVE  Typed' /\ BrokerInv'
<1>1. PICK gone \in SUBSET Ids :
        /\ MayCompact(Pruned(mem), gone)
        /\ mem' = Compacted(Pruned(mem), gone)
  BY DEF PrepareAgain
<1>2. PICK n : n = Compacted(Pruned(mem), gone)
  OBVIOUS
<1>3. /\ up
      /\ UNCHANGED <<store, up, boot, attesting, task, expired, used, approved,
                     calls, flying>>
  BY DEF PrepareAgain, history
<1>4. /\ n \in Collections /\ Orderly(n, boot, used, approved)
      /\ Knows(n, calls, flying) /\ n.quar = mem.quar
      /\ \A j \in Ids : mem.req[j].state = "ATTEMPT_STARTED" => n.req[j] = mem.req[j]
  BY <1>1, <1>2, <1>3, CleanUp
<1>5. ASSUME NEW j \in Ids, task'[j] # "none" PROVE AtWork(j)'
  <2>1. AtWork(j)
    BY <1>3, <1>5 DEF BrokerInv
  <2>2. mem'.req[j] = mem.req[j]
    BY <2>1, <1>1, <1>2, <1>4 DEF AtWork
  <2> QED BY <2>1, <2>2, <1>3, StillAtWork
<1>6. Typed'
  BY <1>1, <1>2, <1>3, <1>4, TypedStep DEF Typed
<1>7. BrokerInv'
  BY <1>1, <1>2, <1>3, <1>4, <1>5, QuietStep
<1> QED BY <1>6, <1>7

\* Steps that touch neither the collections nor the history.
LEMMA OutsideStep ==
    ASSUME Typed, BrokerInv, NEW i \in Ids,
           BeginConfirm(i) \/ RejectConfirm(i) \/ DeadlinePasses(i)
    PROVE  Typed' /\ BrokerInv'
<1>1. /\ UNCHANGED <<mem, store, up, boot, task, used, approved, calls, flying>>
      /\ attesting' \subseteq Ids /\ expired' \subseteq used
  BY DEF Typed, BeginConfirm, RejectConfirm, DeadlinePasses, history
<1>2. Typed'
  BY <1>1 DEF Typed
<1>3. \A j \in Ids : AtWork(j) => AtWork(j)'
  BY <1>1 DEF AtWork, CallOf
<1>4. BrokerInv'
  BY <1>1, <1>3 DEF BrokerInv, OneCallPerKey, NoOverlappingWrites, ApprovedInThisBoot
<1> QED BY <1>2, <1>4

LEMMA MovedRequests ==
    ASSUME NEW m \in Collections, NEW n, NEW i \in Ids, NEW r, Moved(m, n, i, r)
    PROVE  n.req[i] = r /\ \A j \in Ids : j # i => n.req[j] = m.req[j]
BY DEF Moved, Collections

LEMMA FinishConfirmStep ==
    ASSUME Typed, BrokerInv, NEW i \in Ids, FinishConfirm(i)
    PROVE  Typed' /\ BrokerInv'
<1>1. /\ mem.req[i].state = "PREPARED" /\ mem' = Confirmed(i)
      /\ Save(mem') \/ FailedSave(mem')
      /\ approved' = approved \union {[id |-> i, boot |-> boot]}
      /\ attesting' = attesting \ {i}
      /\ UNCHANGED <<up, boot, task, expired, used, calls, flying>>
  BY DEF FinishConfirm
<1>2. up /\ i \in Present(mem)
  <2>1. i \in Present(mem)
    BY <1>1 DEF Present, InState, Pending
  <2> QED BY <2>1, EmptyIsOrderly DEF BrokerInv
<1>3. PICK n : n = Confirmed(i)
  OBVIOUS
<1>4. PICK m : m = mem
  OBVIOUS
<1>5. /\ n \in Collections /\ Moved(m, n, i, [m.req[i] EXCEPT !.state = "CONFIRMED"])
      /\ n.inflight = m.inflight /\ n.quar = m.quar
  BY <1>2, <1>3, <1>4, ConfirmedFields DEF Typed
<1>6. /\ m \in Collections /\ i \in Present(m) /\ m.req[i].state = "PREPARED"
      /\ Orderly(m, boot, used, approved') /\ Knows(m, calls, flying)
      /\ boot \in Boots /\ calls \in SUBSET Call
  BY <1>1, <1>2, <1>4, OrderGrows DEF BrokerInv, Typed
<1>7. Orderly(n, boot, used, approved') /\ Knows(n, calls, flying)
  <2>1. PICK oks : oks = approved'
    OBVIOUS
  <2>2. [id |-> i, boot |-> boot] \in oks /\ Orderly(m, boot, used, oks)
    BY <2>1, <1>1, <1>6
  <2>3. Orderly(n, boot, used, oks) /\ Knows(n, calls, flying)
    BY ONLY <2>2, <1>5, <1>6, ConfirmKeepsOrder
  <2> QED BY <2>1, <2>3
<1>8. mem' = n /\ store' \in {store, Snapshot(n)}
  BY <1>1, <1>3 DEF Save, FailedSave
<1>9. ASSUME NEW j \in Ids, task'[j] # "none" PROVE AtWork(j)'
  <2>1. AtWork(j)
    BY <1>1, <1>9 DEF BrokerInv
  <2>2. j # i /\ store.state.req[j] = mem.req[j]
    BY <2>1, <1>1 DEF AtWork
  <2>3. n.req[j] = mem.req[j]
    BY <2>2, <1>4, <1>5, <1>6, MovedRequests
  <2>4. mem'.req[j] = mem.req[j] /\ store'.state.req[j] = store.state.req[j]
    BY <2>2, <2>3, <1>8 DEF Snapshot
  <2>5. approved \subseteq approved' /\ flying' \subseteq flying
    BY <1>1
  <2> QED BY <2>1, <2>4, <2>5, <1>1, <1>2, StillAtWork
<1>10. Typed'
  <2>1. approved' \subseteq [id : Ids, boot : Boots] /\ attesting' \subseteq Ids
    BY <1>1 DEF Typed
  <2> QED BY <2>1, <1>1, <1>5, <1>8, TypedStep DEF Typed
<1>11. BrokerInv'
  <2>1. /\ mem.quar \subseteq n.quar /\ used \subseteq used' /\ approved \subseteq approved'
        /\ flying' \subseteq flying /\ up' /\ used' = used /\ flying' = flying
    BY <1>1, <1>2, <1>4, <1>5
  <2> QED BY <2>1, <1>1, <1>2, <1>5, <1>7, <1>8, <1>9, QuietStep
<1> QED BY <1>10, <1>11

LEMMA BeginExecuteStep ==
    ASSUME Typed, BrokerInv, NEW i \in Ids, BeginExecute(i)
    PROVE  Typed' /\ BrokerInv'
<1>1. /\ up /\ mem.req[i].state = "CONFIRMED" /\ mem' = Started(i)
      /\ mem.req[i].target \notin mem.inflight \union mem.quar
      /\ \/ Save(mem') /\ task' = [task EXCEPT ![i] = "check"]
         \/ FailedSave(mem') /\ UNCHANGED task
      /\ UNCHANGED <<up, boot, attesting, expired, used, approved, calls, flying>>
  BY DEF BeginExecute, TargetFree, history
<1>2. i \in Present(mem)
  BY <1>1 DEF Present, InState, Pending
<1>3. PICK n : n = Started(i)
  OBVIOUS
<1>4. PICK m : m = mem
  OBVIOUS
<1>5. /\ n \in Collections /\ Moved(m, n, i, [m.req[i] EXCEPT !.state = "ATTEMPT_STARTED"])
      /\ n.inflight = m.inflight \union {m.req[i].target} /\ n.quar = m.quar
  BY <1>2, <1>3, <1>4, StartedFields DEF Typed
<1>6. /\ m \in Collections /\ i \in Present(m) /\ m.req[i].state = "CONFIRMED"
      /\ m.req[i].target \notin m.inflight \union m.quar
      /\ Orderly(m, boot, used, approved) /\ Knows(m, calls, flying)
      /\ boot \in Boots /\ calls \in SUBSET Call
  BY <1>1, <1>2, <1>4 DEF BrokerInv, Typed
<1>7. Orderly(n, boot, used, approved) /\ Knows(n, calls, flying)
  BY <1>5, <1>6, StartKeepsOrder
<1>8. mem' = n /\ store' \in {store, Snapshot(n)}
  BY <1>1, <1>3 DEF Save, FailedSave
<1>9. n.req[i] = [m.req[i] EXCEPT !.state = "ATTEMPT_STARTED"]
      /\ \A j \in Ids : j # i => n.req[j] = m.req[j]
  BY <1>5, <1>6, MovedRequests
<1>10. task[i] = "none"
  BY <1>1 DEF BrokerInv, AtWork
<1>11. ASSUME NEW j \in Ids, task'[j] # "none" PROVE AtWork(j)'
  <2>1. CASE j = i
    <3>1. Save(mem') /\ task'[i] = "check"
      BY <2>1, <1>1, <1>10, <1>11 DEF Typed
    <3>2. store'.state.req[i] = mem'.req[i]
      BY <3>1 DEF Save, Snapshot
    <3>3. m.req[i] \in Request
      BY <1>6, Presence DEF Present, InState
    <3>4. mem'.req[i].state = "ATTEMPT_STARTED"
      BY <3>3, <1>8, <1>9 DEF Request
    <3>5. [id |-> i, boot |-> boot] \in approved
      BY <1>6 DEF Orderly
    <3>6. \A c \in calls : c.id # i
      BY <1>6 DEF Knows, Sent, Terminal, Compactable, Doubtful
    <3> QED BY <2>1, <3>1, <3>2, <3>4, <3>5, <3>6, <1>1 DEF AtWork
  <2>2. CASE j # i
    <3>1. task'[j] = task[j]
      BY <2>2, <1>1 DEF Typed
    <3>2. AtWork(j)
      BY <3>1, <1>11 DEF BrokerInv
    <3>3. n.req[j] = mem.req[j] /\ store.state.req[j] = mem.req[j]
      BY <2>2, <3>2, <1>4, <1>9 DEF AtWork
    <3>4. mem'.req[j] = mem.req[j] /\ store'.state.req[j] = store.state.req[j]
      BY <3>3, <1>8 DEF Snapshot
    <3>5. approved \subseteq approved' /\ flying' \subseteq flying
      BY <1>1
    <3> QED BY <3>1, <3>2, <3>4, <3>5, <1>1, StillAtWork
  <2> QED BY <2>1, <2>2
<1>12. Typed'
  <2>1. task' \in [Ids -> Task]
    BY <1>1 DEF Typed, Task
  <2> QED BY <2>1, <1>1, <1>5, <1>8, TypedStep DEF Typed
<1>13. BrokerInv'
  <2>1. /\ mem.quar \subseteq n.quar /\ used' = used /\ approved' = approved
        /\ flying' = flying /\ up' /\ calls' = calls /\ boot' = boot
    BY <1>1, <1>4, <1>5
  <2> QED BY <2>1, <1>1, <1>5, <1>7, <1>8, <1>11, QuietStep
<1> QED BY <1>12, <1>13

LEMMA CheckBindingStep ==
    ASSUME Typed, BrokerInv, NEW i \in Ids, CheckBinding(i)
    PROVE  Typed' /\ BrokerInv'
<1>1. PICK next \in {"call", "DRIFTED", "EXPIRED", "UNKNOWN", "none"} :
        /\ task[i] = "check" /\ task' = [task EXCEPT ![i] = next]
        /\ UNCHANGED <<mem, store, up, boot, attesting, expired, used, approved,
                       calls, flying>>
  BY DEF CheckBinding, history
<1>2. task'[i] = next /\ \A j \in Ids : j # i => task'[j] = task[j]
  BY <1>1 DEF Typed
<1>3. ASSUME NEW j \in Ids, task'[j] # "none" PROVE AtWork(j)'
  <2>1. CASE j = i
    <3>1. AtWork(i)
      BY <1>1 DEF BrokerInv
    <3>2. \A c \in calls : c.id # i
      BY <3>1, <1>1 DEF AtWork
    <3> QED BY <2>1, <3>1, <3>2, <1>1, <1>2 DEF AtWork
  <2>2. CASE j # i
    <3>1. AtWork(j)
      BY <2>2, <1>2, <1>3 DEF BrokerInv
    <3> QED BY <2>2, <3>1, <1>1, <1>2 DEF AtWork, CallOf
  <2> QED BY <2>1, <2>2
<1>4. Typed'
  BY <1>1 DEF Typed, Task, Terminal, Compactable, Doubtful
<1>5. BrokerInv'
  BY <1>1, <1>3 DEF BrokerInv, OneCallPerKey, NoOverlappingWrites, ApprovedInThisBoot
<1> QED BY <1>4, <1>5

LEMMA ConditionalExecuteStep ==
    ASSUME Typed, BrokerInv, NEW i \in Ids, ConditionalExecute(i)
    PROVE  Typed' /\ BrokerInv'
<1>1. PICK new : new = CallOf(i)
  OBVIOUS
<1>2. /\ task[i] = "call" /\ calls' = calls \union {new} /\ flying' = flying \union {new}
      /\ task' = [task EXCEPT ![i] = "reply"]
      /\ UNCHANGED <<mem, store, up, boot, attesting, expired, used, approved>>
  BY <1>1 DEF ConditionalExecute
<1>3. /\ up /\ i \in Present(mem) /\ i \in Present(store.state)
      /\ mem.req[i].state = "ATTEMPT_STARTED" /\ mem.req[i] = store.state.req[i]
      /\ Orderly(mem, boot, used, approved) /\ Knows(mem, calls, flying)
      /\ Consistent(mem, boot)
  BY <1>2, AttemptKnown DEF Orderly
<1>4. AtWork(i) /\ [id |-> i, boot |-> boot] \in approved /\ \A c \in calls : c.id # i
  BY <1>2 DEF BrokerInv, AtWork
<1>5. /\ new.id = i /\ new.key = mem.req[i].key /\ new.target = mem.req[i].target
      /\ new.boot = boot
  BY <1>1 DEF CallOf
<1>6. mem.req[i] \in Request
  BY <1>3, Presence DEF Typed
<1>7. new \in Call
  BY <1>1, <1>6 DEF CallOf, Call, Request, Typed
<1>8. ASSUME NEW c \in calls PROVE c.key # new.key
  <2>1. mem.idem[new.key] = i /\ new.key \in Keys
    BY <1>3, <1>5, <1>6 DEF Consistent, BootHistory, Request
  <2>2. new.key \notin mem.tomb
    BY <2>1, <1>3, NoIdAssumption DEF Consistent
  <2>3. CASE c.id \in Present(mem)
    <3>1. mem.req[c.id].key = c.key
      BY <2>3, <1>3 DEF Knows
    <3>2. mem.idem[c.key] = c.id \/ c.key \in mem.tomb
      BY <2>3, <3>1, <1>3 DEF Consistent, BootHistory
    <3> QED BY <3>2, <2>1, <2>2, <1>4
  <2>4. CASE c.key \in mem.tomb
    BY <2>2, <2>4
  <2> QED BY <2>3, <2>4, <1>3 DEF Knows
<1>9. ASSUME NEW c \in flying PROVE c.target # new.target
  <2>1. /\ c \in calls /\ c.id \in Ids
        /\ mem.req[c.id].state \in {"ATTEMPT_STARTED"} \union Doubtful
    BY <1>3 DEF Knows, InState, Typed
  <2>2. c.id \in Present(mem)
    BY <2>1 DEF Present, InState, Pending, Terminal
  <2>3. mem.req[c.id].target = c.target
    BY <2>1, <2>2, <1>3 DEF Knows
  <2>4. CASE mem.req[c.id].state = "ATTEMPT_STARTED"
    <3>1. /\ c.id \in InState(mem, {"ATTEMPT_STARTED"})
          /\ i \in InState(mem, {"ATTEMPT_STARTED"})
      BY <2>1, <2>4, <1>3 DEF InState
    <3> QED BY <3>1, <2>1, <2>3, <1>3, <1>4, <1>5 DEF Orderly
  <2>5. CASE mem.req[c.id].state \in Doubtful
    <3>1. c.target \in mem.quar
      <4>1. c.id \in InState(mem, Doubtful)
        BY <2>1, <2>5 DEF InState
      <4> QED BY <4>1, <2>3, <1>3 DEF Consistent, TargetsOf
    <3>2. new.target \in mem.inflight
      <4>1. i \in InState(mem, {"ATTEMPT_STARTED"})
        BY <1>3 DEF InState
      <4> QED BY <4>1, <1>3, <1>5 DEF Consistent, TargetsOf
    <3> QED BY <3>1, <3>2, <1>3 DEF Consistent
  <2> QED BY <2>1, <2>4, <2>5
<1>10. ASSUME NEW m, i \in Present(m), m.req[i] = mem.req[i], Knows(m, calls, flying)
       PROVE  Knows(m, calls', flying')
  <2>1. m.req[i].state \in Sent /\ i \in InState(m, {"ATTEMPT_STARTED"} \union Doubtful)
    BY <1>3, <1>10 DEF Sent, InState
  <2> QED BY <2>1, <1>2, <1>5, <1>10 DEF Knows
<1>11. Knows(mem, calls', flying') /\ Knows(store.state, calls', flying')
  BY <1>3, <1>10 DEF BrokerInv
<1>12. task'[i] = "reply" /\ \A j \in Ids : j # i => task'[j] = task[j]
  BY <1>2 DEF Typed
<1>13. ASSUME NEW j \in Ids, task'[j] # "none" PROVE AtWork(j)'
  <2>1. CASE j = i
    <3>1. \A c \in calls' : c.id = i => c = CallOf(i)
      BY <1>1, <1>2, <1>4
    <3>2. CallOf(i)' = CallOf(i)
      BY <1>2 DEF CallOf
    <3>3. \A c \in calls' : c.id = i => c = CallOf(i)'
      BY <3>1, <3>2
    <3> QED BY <2>1, <3>3, <1>2, <1>4, <1>12 DEF AtWork
  <2>2. CASE j # i
    <3>1. AtWork(j) /\ task'[j] = task[j]
      BY <2>2, <1>12, <1>13 DEF BrokerInv
    <3>2. \A c \in calls' : c.id = j => c \in calls
      BY <2>2, <1>2, <1>5
    <3>3. \A c \in flying' : c.id = j => c \in flying
      BY <2>2, <1>2, <1>5
    <3>4. CallOf(j)' = CallOf(j)
      BY <1>2 DEF CallOf
    <3>5. task[j] = "reply" => \A c \in calls' : c.id = j => c = CallOf(j)'
      BY <3>1, <3>2, <3>4 DEF AtWork
    <3> QED BY <3>1, <3>2, <3>3, <3>5, <1>2 DEF AtWork
  <2> QED BY <2>1, <2>2
<1>14. Typed'
  BY <1>2, <1>7 DEF Typed, Task
<1>15. OneCallPerKey' /\ NoOverlappingWrites' /\ ApprovedInThisBoot'
  <2>1. OneCallPerKey'
    BY <1>2, <1>8 DEF OneCallPerKey, BrokerInv
  <2>2. NoOverlappingWrites'
    BY <1>2, <1>9 DEF NoOverlappingWrites, BrokerInv
  <2>3. ApprovedInThisBoot'
    BY <1>2, <1>4, <1>5 DEF ApprovedInThisBoot, BrokerInv
  <2> QED BY <2>1, <2>2, <2>3
<1>16. \A c \in calls' : c.id \in used'
  BY <1>2, <1>3, <1>5 DEF BrokerInv, Orderly
<1>17. BrokerInv'
  BY <1>2, <1>3, <1>11, <1>13, <1>15, <1>16 DEF BrokerInv
<1> QED BY <1>14, <1>17

\* Fewer calls under way disturb nothing.
LEMMA FewerFlying ==
    ASSUME Typed, BrokerInv, flying' \subseteq flying, task' \in [Ids -> Task],
           UNCHANGED <<mem, store, up, boot, attesting, expired, used, approved, calls>>,
           \A i \in Ids : task'[i] # "none" => AtWork(i)'
    PROVE  Typed' /\ BrokerInv'
<1>1. Typed'
  BY DEF Typed
<1>2. /\ Orderly(store.state, store.boot, used, approved)
      /\ Knows(store.state, calls, flying')
  BY OrderGrows DEF BrokerInv
<1>3. up => Knows(mem, calls, flying')
  BY OrderGrows DEF BrokerInv
<1>4. BrokerInv'
  BY <1>2, <1>3 DEF BrokerInv, OneCallPerKey, NoOverlappingWrites, ApprovedInThisBoot
<1> QED BY <1>1, <1>4

LEMMA VerifyReadbackStep ==
    ASSUME Typed, BrokerInv, NEW i \in Ids, VerifyReadback(i)
    PROVE  Typed' /\ BrokerInv'
<1>1. PICK receipt \in {"COMPLETED", "APPLIED_UNVERIFIED", "UNKNOWN", "none"} :
        /\ task[i] = "reply" /\ task' = [task EXCEPT ![i] = receipt]
        /\ flying' = IF receipt = "COMPLETED" THEN flying \ {CallOf(i)} ELSE flying
        /\ UNCHANGED <<mem, store, up, boot, attesting, expired, used, approved, calls>>
  BY DEF VerifyReadback
<1>2. task'[i] = receipt /\ \A j \in Ids : j # i => task'[j] = task[j]
  BY <1>1 DEF Typed
<1>3. flying' \subseteq flying
  BY <1>1
<1>4. ASSUME NEW j \in Ids, task'[j] # "none" PROVE AtWork(j)'
  <2>1. CASE j = i
    <3>1. AtWork(i)
      BY <1>1 DEF BrokerInv
    <3>2. \A c \in calls : c.id = i => c = CallOf(i)
      BY <3>1, <1>1 DEF AtWork
    <3>3. receipt = "COMPLETED" => \A c \in flying' : c.id # i
      BY <3>2, <1>1 DEF Typed
    <3> QED BY <2>1, <3>1, <3>3, <1>1, <1>2 DEF AtWork
  <2>2. CASE j # i
    <3>1. AtWork(j)
      BY <2>2, <1>2, <1>4 DEF BrokerInv
    <3>2. approved \subseteq approved' /\ up'
      BY <3>1, <1>1 DEF AtWork
    <3> QED BY <2>2, <3>1, <3>2, <1>1, <1>2, <1>3, StillAtWork
  <2> QED BY <2>1, <2>2
<1>5. task' \in [Ids -> Task]
  BY <1>1 DEF Typed, Task, Terminal, Compactable, Doubtful
<1> QED BY <1>1, <1>3, <1>4, <1>5, FewerFlying

LEMMA ProviderSettlesStep ==
    ASSUME Typed, BrokerInv, NEW c \in flying, ProviderSettles(c)
    PROVE  Typed' /\ BrokerInv'
<1>1. /\ flying' \subseteq flying
      /\ UNCHANGED <<mem, store, up, boot, attesting, task, expired, used, approved, calls>>
  BY DEF ProviderSettles
<1>2. \A j \in Ids : task'[j] # "none" => AtWork(j)'
  BY <1>1 DEF BrokerInv, AtWork, CallOf
<1>3. task' \in [Ids -> Task]
  BY <1>1 DEF Typed
<1> QED BY <1>1, <1>2, <1>3, FewerFlying

LEMMA SettleStep ==
    ASSUME Typed, BrokerInv, NEW i \in Ids, Settle(i)
    PROVE  Typed' /\ BrokerInv'
<1>1. /\ task[i] \in Terminal /\ mem' = Settled(i)
      /\ Save(mem') \/ FailedSave(mem')
      /\ task' = [task EXCEPT ![i] = "none"]
      /\ UNCHANGED <<up, boot, attesting, expired, used, approved, calls, flying>>
  BY DEF Settle, history
<1>2. task[i] # "none" /\ task[i] # "reply"
  BY <1>1 DEF Terminal, Compactable, Doubtful
<1>3. /\ up /\ i \in Present(mem) /\ mem.req[i].state = "ATTEMPT_STARTED"
      /\ Orderly(mem, boot, used, approved) /\ Knows(mem, calls, flying)
  BY <1>2, AttemptKnown
<1>4. AtWork(i)
  BY <1>2 DEF BrokerInv
<1>5. PICK n : n = Settled(i)
  OBVIOUS
<1>6. PICK m : m = mem
  OBVIOUS
<1>7. PICK v : v = task[i]
  OBVIOUS
<1>8. /\ n \in Collections
      /\ Moved(m, n, i, [m.req[i] EXCEPT !.state = v,
                           !.why = IF v = "EXPIRED" THEN "deadline" ELSE "none"])
      /\ n.inflight = m.inflight \ {m.req[i].target}
      /\ n.quar = IF v \in Doubtful THEN m.quar \union {m.req[i].target} ELSE m.quar
  BY <1>1, <1>3, <1>5, <1>6, <1>7, SettledFields DEF Typed
<1>9. /\ m \in Collections /\ i \in Present(m) /\ m.req[i].state = "ATTEMPT_STARTED"
      /\ v \in Terminal /\ Orderly(m, boot, used, approved) /\ Knows(m, calls, flying)
      /\ boot \in Boots /\ calls \in SUBSET Call
  BY <1>1, <1>3, <1>6, <1>7 DEF Typed
<1>10. v \in Compactable => \A c \in flying : c.id # i
  <2>1. flying \subseteq calls
    BY DEF Typed
  <2>2. v = "COMPLETED" => \A c \in flying : c.id # i
    BY <1>4, <1>7 DEF AtWork
  <2>3. v \in {"DRIFTED", "EXPIRED"} => \A c \in calls : c.id # i
    BY <1>4, <1>7 DEF AtWork
  <2> QED BY <2>1, <2>2, <2>3 DEF Compactable
<1>11. Orderly(n, boot, used, approved) /\ Knows(n, calls, flying)
  BY ONLY <1>8, <1>9, <1>10, SettlementKeepsOrder
<1>12. mem' = n /\ store' \in {store, Snapshot(n)}
  BY <1>1, <1>5 DEF Save, FailedSave
<1>13. \A j \in Ids : j # i => n.req[j] = m.req[j]
  <2>1. i \in Ids
    OBVIOUS
  <2> QED BY <2>1, <1>8, <1>9, MovedRequests
<1>14. ASSUME NEW j \in Ids, task'[j] # "none" PROVE AtWork(j)'
  <2>1. j # i /\ task'[j] = task[j]
    BY <1>1, <1>14 DEF Typed
  <2>2. AtWork(j)
    BY <2>1, <1>14 DEF BrokerInv
  <2>3. n.req[j] = mem.req[j] /\ store.state.req[j] = mem.req[j]
    BY <2>1, <2>2, <1>6, <1>13 DEF AtWork
  <2>4. mem'.req[j] = mem.req[j] /\ store'.state.req[j] = store.state.req[j]
    BY <2>3, <1>12 DEF Snapshot
  <2>5. approved \subseteq approved' /\ flying' \subseteq flying
    BY <1>1
  <2> QED BY <2>1, <2>2, <2>4, <2>5, <1>1, <1>3, StillAtWork
<1>15. Typed'
  <2>1. task' \in [Ids -> Task]
    BY <1>1 DEF Typed, Task
  <2> QED BY <2>1, <1>1, <1>8, <1>12, TypedStep DEF Typed
<1>16. BrokerInv'
  <2>1. /\ mem.quar \subseteq n.quar /\ used' = used /\ approved' = approved
        /\ flying' = flying /\ up' /\ calls' = calls /\ boot' = boot
    BY <1>1, <1>3, <1>6, <1>8
  <2> QED BY <2>1, <1>3, <1>8, <1>11, <1>12, <1>14, QuietStep
<1> QED BY <1>15, <1>16

LEMMA StartStep ==
    ASSUME Typed, BrokerInv, Start
    PROVE  Typed' /\ BrokerInv'
<1>1. /\ ~up /\ up' /\ Restorable(store, boot) /\ mem' = Converted(store, boot)
      /\ UNCHANGED <<store, boot, attesting, task, expired, used, approved, calls, flying>>
  BY DEF Start, history
<1>2. /\ store \in [boot : Boots, state : Collections] /\ boot \in Boots
      /\ calls \in SUBSET Call /\ store.boot <= boot
      /\ Orderly(store.state, store.boot, used, approved)
      /\ Knows(store.state, calls, flying)
  BY DEF Typed, BrokerInv
<1>3. PICK s : s = store
  OBVIOUS
<1>4. PICK n : n = Converted(s, boot)
  OBVIOUS
<1>5. /\ n \in Collections /\ Orderly(n, boot, used, approved)
      /\ Knows(n, calls, flying) /\ s.state.quar \subseteq n.quar
  BY <1>1, <1>2, <1>3, <1>4, RestartKeepsOrder
<1>6. mem' = n
  BY <1>1, <1>3, <1>4
<1>7. \A i \in Ids : task[i] = "none"
  BY <1>1 DEF BrokerInv, AtWork
<1>8. Typed'
  <2>1. up' \in BOOLEAN
    BY DEF Start
  <2> QED BY <2>1, <1>1, <1>5, <1>6 DEF Typed
<1>9. BrokerInv'
  BY <1>1, <1>2, <1>3, <1>5, <1>6, <1>7
     DEF BrokerInv, OneCallPerKey, NoOverlappingWrites, ApprovedInThisBoot
<1> QED BY <1>8, <1>9

LEMMA CrashStep ==
    ASSUME Typed, BrokerInv, Crash
    PROVE  Typed' /\ BrokerInv'
<1>1. /\ up' = FALSE /\ mem' = Empty /\ attesting' = {}
      /\ task' = [i \in Ids |-> "none"]
      /\ boot' = boot \/ (boot < MaxBoot /\ boot' = boot + 1)
      /\ UNCHANGED <<store, expired, used, approved, calls, flying>>
  BY DEF Crash, history
<1>2. boot' \in Boots /\ boot <= boot'
  BY <1>1, BrokerBounds DEF Typed, Boots
<1>3. store.boot <= boot'
  BY <1>2, BrokerBounds DEF Typed, BrokerInv, Boots
<1>4. Typed'
  BY <1>1, <1>2, EmptyIsOrderly DEF Typed, Task
<1>5. BrokerInv'
  BY <1>1, <1>3 DEF BrokerInv, OneCallPerKey, NoOverlappingWrites, ApprovedInThisBoot
<1> QED BY <1>4, <1>5

-----------------------------------------------------------------------------
(* Quarantine.                                                             *)

QuarantineStep ==
    /\ store.state.quar \subseteq store'.state.quar
    /\ \A c \in calls' \ calls : c.target \notin store.state.quar

LEMMA SaveKeepsQuarantine ==
    ASSUME BrokerInv, up, NEW n, mem.quar \subseteq n.quar,
           store' \in {store, Snapshot(n)}, calls' = calls
    PROVE  QuarantineStep
<1>1. store.state.quar \subseteq n.quar
  BY DEF BrokerInv
<1> QED BY <1>1 DEF QuarantineStep, Snapshot

LEMMA QuarantineKept ==
    ASSUME Typed, BrokerInv, [Next]_vars
    PROVE  QuarantineStep
<1>1. ASSUME NEW i \in Ids, NEW k \in Keys, NEW t \in Targets, Prepare(i, k, t)
      PROVE  QuarantineStep
  <2>1. PICK gone \in SUBSET Ids :
          LET clean == Compacted(Pruned(mem), gone)
              new == Added(clean, i, k, t)
          IN  /\ MayCompact(Pruned(mem), gone)
              /\ \/ mem' = new /\ Save(new)
                 \/ mem' = mem /\ FailedSave(new)
    BY <1>1 DEF Prepare
  <2>2. PICK clean : clean = Compacted(Pruned(mem), gone)
    OBVIOUS
  <2>3. PICK n : n = Added(clean, i, k, t)
    OBVIOUS
  <2>4. up /\ calls' = calls
    BY <1>1 DEF Prepare, history
  <2>5. clean \in Collections /\ clean.quar = mem.quar
    BY <2>1, <2>2, <2>4, CleanUp
  <2>6. boot \in Boots
    BY DEF Typed
  <2>7. n.quar = clean.quar
    <3>1. /\ n \in Collections
          /\ n.req = [clean.req EXCEPT ![i] = NewRequest(k, t, boot)]
          /\ n.idem = [clean.idem EXCEPT ![k] = i]
          /\ n.tomb = clean.tomb /\ n.inflight = clean.inflight /\ n.quar = clean.quar
      BY ONLY <2>3, <2>5, <2>6, AddedFields, i \in Ids, k \in Keys, t \in Targets
    <3> QED BY <3>1
  <2>8. store' \in {store, Snapshot(n)}
    BY <2>1, <2>2, <2>3 DEF Save, FailedSave
  <2> QED BY <2>4, <2>5, <2>7, <2>8, SaveKeepsQuarantine
<1>2. ASSUME NEW i \in Ids, FinishConfirm(i) PROVE QuarantineStep
  <2>1. /\ mem.req[i].state = "PREPARED" /\ calls' = calls
        /\ store' \in {store, Snapshot(Confirmed(i))}
    BY <1>2 DEF FinishConfirm, Save, FailedSave
  <2>2. i \in Present(mem)
    BY <2>1 DEF Present, InState, Pending
  <2>3. up
    BY <2>2, EmptyIsOrderly DEF BrokerInv
  <2>4. Confirmed(i).quar = mem.quar
    BY <2>2, ConfirmedFields DEF Typed
  <2> QED BY <2>1, <2>3, <2>4, SaveKeepsQuarantine
<1>3. ASSUME NEW i \in Ids, BeginExecute(i) PROVE QuarantineStep
  <2>1. /\ up /\ mem.req[i].state = "CONFIRMED" /\ calls' = calls
        /\ store' \in {store, Snapshot(Started(i))}
    BY <1>3 DEF BeginExecute, Save, FailedSave, history
  <2>2. i \in Present(mem)
    BY <2>1 DEF Present, InState, Pending
  <2>3. Started(i).quar = mem.quar
    BY <2>2, StartedFields DEF Typed
  <2> QED BY <2>1, <2>3, SaveKeepsQuarantine
<1>4. ASSUME NEW i \in Ids, Settle(i) PROVE QuarantineStep
  <2>1. /\ task[i] \in Terminal /\ calls' = calls
        /\ store' \in {store, Snapshot(Settled(i))}
    BY <1>4 DEF Settle, Save, FailedSave, history
  <2>2. task[i] # "none"
    BY <2>1 DEF Terminal, Compactable, Doubtful
  <2>3. up /\ i \in Present(mem)
    BY <2>2, AttemptKnown
  <2>4. mem.quar \subseteq Settled(i).quar
    BY <2>1, <2>3, SettledFields DEF Typed
  <2> QED BY <2>1, <2>3, <2>4, SaveKeepsQuarantine
<1>5. ASSUME NEW i \in Ids, ConditionalExecute(i) PROVE QuarantineStep
  <2>1. task[i] = "call" /\ store' = store /\ calls' \ calls \subseteq {CallOf(i)}
    BY <1>5 DEF ConditionalExecute
  <2>2. /\ mem.req[i].state = "ATTEMPT_STARTED" /\ Consistent(mem, boot)
        /\ store.state.quar \subseteq mem.quar
    BY <2>1, AttemptKnown DEF Orderly
  <2>3. mem.req[i].target \in mem.inflight
    <3>1. i \in InState(mem, {"ATTEMPT_STARTED"})
      BY <2>2 DEF InState
    <3> QED BY <3>1, <2>2 DEF Consistent, TargetsOf
  <2>4. CallOf(i).target \notin store.state.quar
    BY <2>2, <2>3 DEF Consistent, CallOf
  <2> QED BY <2>1, <2>4 DEF QuarantineStep
<1>6. ASSUME UNCHANGED <<store, calls>> PROVE QuarantineStep
  BY <1>6 DEF QuarantineStep
<1>7. ASSUME NEW i \in Ids,
             \/ BeginConfirm(i) \/ RejectConfirm(i) \/ DeadlinePasses(i)
             \/ CheckBinding(i) \/ VerifyReadback(i)
      PROVE  UNCHANGED <<store, calls>>
  BY <1>7 DEF BeginConfirm, RejectConfirm, DeadlinePasses, CheckBinding, VerifyReadback,
              history
<1>8. ASSUME \/ \E k \in Keys, t \in Targets : PrepareAgain(k, t)
             \/ Start \/ Crash
             \/ \E c \in flying : ProviderSettles(c)
             \/ UNCHANGED vars
      PROVE  UNCHANGED <<store, calls>>
  BY <1>8 DEF PrepareAgain, Start, Crash, ProviderSettles, history, vars
<1> QED BY <1>1, <1>2, <1>3, <1>4, <1>5, <1>6, <1>7, <1>8 DEF Next, Execute

-----------------------------------------------------------------------------
(* Theorems.                                                               *)

LEMMA Initially ==
    ASSUME Init PROVE Typed /\ BrokerInv
<1>1. Typed
  <2>1. 1 \in Boots
    BY BrokerBounds DEF Boots
  <2> QED BY <2>1, EmptyIsOrderly DEF Init, Typed, Task
<1>2. Orderly(Empty, 1, {}, {}) /\ Knows(Empty, {}, {})
  BY EmptyIsOrderly
<1>3. BrokerInv
  BY <1>2 DEF Init, BrokerInv, OneCallPerKey, NoOverlappingWrites, ApprovedInThisBoot
<1> QED BY <1>1, <1>3

LEMMA Steps ==
    ASSUME Typed, BrokerInv, [Next]_vars
    PROVE  Typed' /\ BrokerInv'
<1>1. CASE \E i \in Ids, k \in Keys, t \in Targets : Prepare(i, k, t)
  BY <1>1, PrepareStep
<1>2. CASE \E k \in Keys, t \in Targets : PrepareAgain(k, t)
  BY <1>2, PrepareAgainStep
<1>3. CASE \E i \in Ids : BeginConfirm(i) \/ RejectConfirm(i) \/ DeadlinePasses(i)
  BY <1>3, OutsideStep
<1>4. CASE \E i \in Ids : FinishConfirm(i)
  BY <1>4, FinishConfirmStep
<1>5. CASE \E i \in Ids : BeginExecute(i)
  BY <1>5, BeginExecuteStep
<1>6. CASE \E i \in Ids : Execute(i)
  BY <1>6, CheckBindingStep, ConditionalExecuteStep, VerifyReadbackStep, SettleStep
     DEF Execute
<1>7. CASE Start
  BY <1>7, StartStep
<1>8. CASE Crash
  BY <1>8, CrashStep
<1>9. CASE \E c \in flying : ProviderSettles(c)
  BY <1>9, ProviderSettlesStep
<1>10. CASE UNCHANGED vars
  <2>1. Typed'
    BY <1>10 DEF vars, Typed
  <2>2. BrokerInv'
    BY <1>10 DEF vars, BrokerInv, AtWork, CallOf, OneCallPerKey, NoOverlappingWrites,
                 ApprovedInThisBoot
  <2> QED BY <2>1, <2>2
<1> QED BY <1>1, <1>2, <1>3, <1>4, <1>5, <1>6, <1>7, <1>8, <1>9, <1>10 DEF Next

\* The invariant holds throughout: memory and snapshot are in order, each knows
\* every call made, and a thread at work has its attempt in both.
THEOREM BrokerInvariant == Spec => [](Typed /\ BrokerInv)
<1>1. Init => Typed /\ BrokerInv
  BY Initially
<1>2. Typed /\ BrokerInv /\ [Next]_vars => (Typed /\ BrokerInv)'
  BY Steps
<1> QED BY <1>1, <1>2, PTL DEF Spec

\* The broker's state keeps its shape, and never more requests than MAX_PENDING.
THEOREM TypesHold == Spec => []TypeOK
<1>1. Typed /\ BrokerInv => TypeOK
  <2> SUFFICES ASSUME Typed, BrokerInv PROVE TypeOK
    OBVIOUS
  <2>1. CASE up
    BY <2>1 DEF Typed, BrokerInv, Orderly, Consistent, Fits, TypeOK
  <2>2. CASE ~up
    <3>1. Present(mem) = {} /\ Cardinality({}) = 0
      BY <2>2, EmptyIsOrderly, FS_EmptySet DEF BrokerInv
    <3> QED BY <3>1, BrokerBounds DEF Typed, TypeOK
  <2> QED BY <2>1, <2>2
<1> QED BY <1>1, BrokerInvariant, PTL

\* No idempotency key ever leads to two provider calls.
THEOREM KeysAreCalledOnce == Spec => []OneCallPerKey
<1>1. BrokerInv => OneCallPerKey
  BY DEF BrokerInv
<1> QED BY <1>1, BrokerInvariant, PTL

\* Two writes to one work item are never under way together.
THEOREM WritesNeverOverlap == Spec => []NoOverlappingWrites
<1>1. BrokerInv => NoOverlappingWrites
  BY DEF BrokerInv
<1> QED BY <1>1, BrokerInvariant, PTL

\* Every call was confirmed by the operator under the boot that made it.
THEOREM CallsAreApproved == Spec => []ApprovedInThisBoot
<1>1. BrokerInv => ApprovedInThisBoot
  BY DEF BrokerInv
<1> QED BY <1>1, BrokerInvariant, PTL

\* The snapshot on disk knows every call that was made.
THEOREM CallsAreOnDisk == Spec => []CallsAreDurable
<1>1. Typed /\ BrokerInv => CallsAreDurable
  <2> SUFFICES ASSUME Typed, BrokerInv, NEW c \in calls
               PROVE  \/ c.id \in InState(store.state, {"ATTEMPT_STARTED"} \union Terminal)
                      \/ c.key \in store.state.tomb
    BY DEF CallsAreDurable
  <2>1. c.id \in Ids
    BY DEF Typed, Call
  <2> QED BY <2>1 DEF BrokerInv, Knows, Sent, InState
<1> QED BY <1>1, BrokerInvariant, PTL

\* The snapshot on disk restarts under its own boot, and under the next one unless a
\* deadline ran out in the middle of an execution or the tombstones overflow.
THEOREM SnapshotsRestart == Spec => []SnapshotRestarts
<1>1. Typed /\ BrokerInv => SnapshotRestarts
  <2> SUFFICES ASSUME Typed, BrokerInv PROVE SnapshotRestarts
    OBVIOUS
  <2>1. /\ store \in [boot : Boots, state : Collections]
        /\ Orderly(store.state, store.boot, used, approved)
        /\ store.boot \in Nat /\ store.boot + 1 \in Nat /\ store.boot < store.boot + 1
    BY DEF Typed, BrokerInv, Boots
  <2>2. Restorable(store, store.boot)
    BY <2>1, RestartsInBoot
  <2>3. PICK b : b = store.boot + 1
    OBVIOUS
  <2>4. ASSUME ~Overflows(store),
               \A i \in InState(store.state, {"EXPIRED"}) : store.state.req[i].why # "deadline"
        PROVE  Restorable(store, b)
    BY <2>1, <2>3, <2>4, RestartsInLaterBoot
  <2> QED BY <2>2, <2>3, <2>4 DEF SnapshotRestarts
<1> QED BY <1>1, BrokerInvariant, PTL

\* A quarantined target stays in quarantine and is never written again.
THEOREM QuarantineLasts == Spec => QuarantineHolds
<1>1. Typed /\ BrokerInv /\ [Next]_vars => [QuarantineStep]_vars
  BY QuarantineKept
<1>2. Spec => [][QuarantineStep]_vars
  BY <1>1, BrokerInvariant, PTL DEF Spec
<1> QED BY <1>2 DEF QuarantineHolds, QuarantineStep

-----------------------------------------------------------------------------
(* Requests only move on.                                                  *)

Stage(state) ==
    CASE state = "PREPARED" -> 0 [] state = "CONFIRMED" -> 1
      [] state = "ATTEMPT_STARTED" -> 2 [] OTHER -> 3

MovesOn(r, s) ==
    \/ s = r
    \/ /\ Stage(r.state) < Stage(s.state)
       /\ s.key = r.key /\ s.target = r.target /\ s.boot = r.boot

\* Whatever both know of, n has at a later stage or as m has it.
KeepsUp(m, n) ==
    \A i \in Ids : m.req[i].state # "ABSENT" /\ n.req[i].state # "ABSENT" =>
        MovesOn(m.req[i], n.req[i])

MemoryIsAhead == up => KeepsUp(store.state, mem)

LEMMA StageNumbers == \A state : Stage(state) \in Nat /\ Stage(state) <= 3
BY DEF Stage

LEMMA MovesAdd ==
    ASSUME NEW r, NEW s, NEW t, MovesOn(r, s), MovesOn(s, t)
    PROVE  MovesOn(r, t)
BY StageNumbers DEF MovesOn

\* What cleaning up makes of a request.
LEMMA CleanedRequests ==
    ASSUME mem \in Collections, NEW gone \in SUBSET Ids, MayCompact(Pruned(mem), gone),
           NEW i \in Ids
    PROVE  \/ Compacted(Pruned(mem), gone).req[i] = mem.req[i]
           \/ /\ Compacted(Pruned(mem), gone).req[i] = Absent
              /\ mem.req[i].state \in {"PREPARED", "CONFIRMED"} \union Compactable
<1>1. PICK late : late = InState(mem, {"PREPARED", "CONFIRMED"}) \intersect expired
  OBVIOUS
<1>2. late \in SUBSET Ids
  BY <1>1 DEF InState
<1>3. Pruned(mem) \in Collections /\ Removed(mem, Pruned(mem), late)
  BY <1>1, <1>2, WithoutRemoves DEF Pruned
<1>4. gone \in SUBSET Present(Pruned(mem)) /\ gone \subseteq InState(Pruned(mem), Compactable)
  BY DEF MayCompact, InState, Present, Terminal
<1>5. PICK p : p = Pruned(mem)
  OBVIOUS
<1>6. Removed(p, Compacted(p, gone), gone)
  BY <1>3, <1>4, <1>5, CompactedRemoves
<1>7. /\ p.req[i] = IF i \in late THEN Absent ELSE mem.req[i]
      /\ Compacted(p, gone).req[i] = IF i \in gone THEN Absent ELSE p.req[i]
  BY <1>3, <1>5, <1>6 DEF Removed
<1>8. i \in late => mem.req[i].state \in {"PREPARED", "CONFIRMED"}
  BY <1>1 DEF InState
<1>9. i \in gone => p.req[i].state \in Compactable
  BY <1>4, <1>5 DEF InState
<1>10. Absent.state \notin Compactable
  BY DEF Absent, Compactable
<1> QED BY <1>5, <1>7, <1>8, <1>9, <1>10

\* A step that makes n of the memory, and may save it.
Rewrites(n) ==
    /\ up /\ up'
    /\ store' \in {store, Snapshot(n)}
    /\ mem' = n \/ (mem' = mem /\ KeepsUp(n, mem))
    /\ \A i \in Ids :
        \/ n.req[i].state = "ABSENT"
        \/ mem.req[i].state # "ABSENT" /\ MovesOn(mem.req[i], n.req[i])
        \/ i \notin used

LEMMA RewritesMoveOn ==
    ASSUME Typed, BrokerInv, MemoryIsAhead, NEW n, Rewrites(n)
    PROVE  KeepsUp(store.state, store'.state) /\ MemoryIsAhead'
<1>1. ASSUME NEW i \in Ids, i \notin used PROVE store.state.req[i].state = "ABSENT"
  <2>1. i \notin Present(store.state) /\ store.state \in Collections
    BY <1>1 DEF BrokerInv, Orderly, Typed
  <2> QED BY <2>1, Presence DEF Absent
<1>2. KeepsUp(store.state, n)
  <2> SUFFICES ASSUME NEW i \in Ids, store.state.req[i].state # "ABSENT",
                      n.req[i].state # "ABSENT"
               PROVE  MovesOn(store.state.req[i], n.req[i])
    BY DEF KeepsUp
  <2>1. mem.req[i].state # "ABSENT" /\ MovesOn(mem.req[i], n.req[i])
    BY <1>1 DEF Rewrites
  <2>2. MovesOn(store.state.req[i], mem.req[i])
    BY <2>1 DEF MemoryIsAhead, KeepsUp, Rewrites
  <2> QED BY <2>1, <2>2, MovesAdd
<1>3. KeepsUp(store.state, store.state) /\ KeepsUp(n, n)
  BY DEF KeepsUp, MovesOn
<1>4. store' = store \/ store'.state = n
  BY DEF Rewrites, Snapshot
<1>5. KeepsUp(store.state, store'.state)
  BY <1>2, <1>3, <1>4
<1>6. KeepsUp(store.state, mem)
  BY DEF Rewrites, MemoryIsAhead
<1>7. KeepsUp(store'.state, mem')
  BY <1>2, <1>3, <1>4, <1>6 DEF Rewrites
<1>8. MemoryIsAhead'
  BY <1>7 DEF MemoryIsAhead, KeepsUp, MovesOn
<1> QED BY <1>5, <1>8

LEMMA PrepareRewrites ==
    ASSUME Typed, BrokerInv, NEW i \in Ids, NEW k \in Keys, NEW t \in Targets,
           Prepare(i, k, t)
    PROVE  \E n : /\ Rewrites(n)
                  /\ \A j \in Ids : n.req[j].state = "ATTEMPT_STARTED" =>
                        mem.req[j].state = "ATTEMPT_STARTED"
<1>1. PICK gone \in SUBSET Ids :
        LET clean == Compacted(Pruned(mem), gone)
            new == Added(clean, i, k, t)
        IN  /\ MayCompact(Pruned(mem), gone)
            /\ \/ mem' = new /\ Save(new)
               \/ mem' = mem /\ FailedSave(new)
  BY DEF Prepare
<1>2. PICK clean : clean = Compacted(Pruned(mem), gone)
  OBVIOUS
<1>3. PICK n : n = Added(clean, i, k, t)
  OBVIOUS
<1>4. up /\ up' /\ i \notin used /\ boot \in Boots /\ mem \in Collections
  BY DEF Prepare, Typed
<1>5. \A j \in Ids : clean.req[j] \in {Absent, mem.req[j]}
  BY <1>1, <1>2, <1>4, CleanedRequests
<1>6. clean \in Collections
  BY <1>1, <1>2, <1>4, CleanUp
<1>7. n.req = [clean.req EXCEPT ![i] = NewRequest(k, t, boot)]
  <2>1. boot \in Boots /\ clean \in Collections
    BY <1>4, <1>6
  <2>2. /\ n \in Collections
        /\ n.req = [clean.req EXCEPT ![i] = NewRequest(k, t, boot)]
        /\ n.idem = [clean.idem EXCEPT ![k] = i]
        /\ n.tomb = clean.tomb /\ n.inflight = clean.inflight /\ n.quar = clean.quar
    BY ONLY <2>1, <1>3, AddedFields, i \in Ids, k \in Keys, t \in Targets
  <2> QED BY <2>2
<1>8. mem.req[i].state = "ABSENT"
  <2>1. i \notin Present(mem)
    BY <1>4 DEF BrokerInv, Orderly
  <2> QED BY <2>1, <1>4, Presence DEF Absent
<1>9. /\ n.req[i].state = "PREPARED"
      /\ \A j \in Ids : j # i => n.req[j] \in {Absent, mem.req[j]}
  BY <1>5, <1>6, <1>7 DEF NewRequest, Collections
<1>10. KeepsUp(n, mem)
  BY <1>8, <1>9 DEF KeepsUp, MovesOn, Absent
<1>11. Rewrites(n)
  <2>1. store' \in {store, Snapshot(n)} /\ mem' \in {n, mem}
    BY <1>1, <1>2, <1>3 DEF Save, FailedSave
  <2>2. ASSUME NEW j \in Ids
        PROVE  \/ n.req[j].state = "ABSENT"
               \/ mem.req[j].state # "ABSENT" /\ MovesOn(mem.req[j], n.req[j])
               \/ j \notin used
    BY <1>4, <1>9 DEF Absent, MovesOn
  <2> QED BY <1>4, <1>10, <2>1, <2>2 DEF Rewrites
<1>12. \A j \in Ids : n.req[j].state = "ATTEMPT_STARTED" =>
            mem.req[j].state = "ATTEMPT_STARTED"
  BY <1>9 DEF Absent
<1> QED BY <1>11, <1>12

LEMMA PrepareAgainRewrites ==
    ASSUME Typed, BrokerInv, NEW k \in Keys, NEW t \in Targets, PrepareAgain(k, t)
    PROVE  /\ \E n : Rewrites(n)
           /\ \A j \in Ids : mem'.req[j].state = "ATTEMPT_STARTED" =>
                mem.req[j].state = "ATTEMPT_STARTED"
<1>1. PICK gone \in SUBSET Ids :
        MayCompact(Pruned(mem), gone) /\ mem' = Compacted(Pruned(mem), gone)
  BY DEF PrepareAgain
<1>2. PICK n : n = Compacted(Pruned(mem), gone)
  OBVIOUS
<1>3. up /\ up' /\ store' = store /\ mem' = n /\ mem \in Collections
  BY <1>1, <1>2 DEF PrepareAgain, Typed
<1>4. \A j \in Ids : n.req[j] \in {Absent, mem.req[j]}
  BY <1>1, <1>2, <1>3, CleanedRequests
<1>5. ASSUME NEW j \in Ids
      PROVE  \/ n.req[j].state = "ABSENT"
             \/ mem.req[j].state # "ABSENT" /\ MovesOn(mem.req[j], n.req[j])
  BY <1>4 DEF Absent, MovesOn
<1>6. Rewrites(n)
  BY <1>3, <1>5 DEF Rewrites
<1> QED BY <1>3, <1>4, <1>6 DEF Absent

\* A request's own transitions: confirmed, started, settled.
LEMMA TransitionRewrites ==
    ASSUME Typed, BrokerInv, NEW i \in Ids,
           FinishConfirm(i) \/ BeginExecute(i) \/ Settle(i)
    PROVE  /\ \E n : Rewrites(n)
           /\ \A j \in Ids : j # i => mem'.req[j] = mem.req[j]
           /\ FinishConfirm(i) => mem'.req[i].state = "CONFIRMED"
           /\ Settle(i) => mem'.req[i].state \in Terminal
<1>1. PICK n : n = mem'
  OBVIOUS
<1>2. PICK old : old = mem.req[i]
  OBVIOUS
<1>3. /\ old \in Request /\ store' \in {store, Snapshot(n)}
      /\ up /\ up' /\ i \in Present(mem)
      /\ \E r : /\ Moved(mem, n, i, r)
                /\ Stage(old.state) < Stage(r.state)
                /\ r.key = old.key /\ r.target = old.target /\ r.boot = old.boot
                /\ r.state # "ABSENT"
                /\ FinishConfirm(i) => r.state = "CONFIRMED"
                /\ Settle(i) => r.state \in Terminal
  <2>1. CASE FinishConfirm(i)
    <3>1. /\ old.state = "PREPARED" /\ n = Confirmed(i)
          /\ store' \in {store, Snapshot(n)} /\ up' = up
      BY <1>1, <1>2, <2>1 DEF FinishConfirm, Save, FailedSave
    <3>2. i \in Present(mem) /\ up
      <4>1. i \in Present(mem)
        BY <1>2, <3>1 DEF Present, InState, Pending
      <4> QED BY <4>1, EmptyIsOrderly DEF BrokerInv
    <3>3. old \in Request
      BY <1>2, <3>2, Presence DEF Typed
    <3>4. Moved(mem, n, i, [old EXCEPT !.state = "CONFIRMED"])
      BY <1>2, <3>1, <3>2, ConfirmedFields DEF Typed
    <3>5. PICK r : r = [old EXCEPT !.state = "CONFIRMED"]
      OBVIOUS
    <3>6. /\ r.state = "CONFIRMED" /\ r.key = old.key /\ r.target = old.target
          /\ r.boot = old.boot
      BY <3>3, <3>5 DEF Request
    <3>7. Stage(old.state) < Stage(r.state)
      BY <3>1, <3>6 DEF Stage
    <3>8. ~Settle(i)
      BY <1>2, <3>1, AttemptKnown DEF Settle, Terminal, Compactable, Doubtful
    <3> QED BY <3>1, <3>2, <3>3, <3>4, <3>5, <3>6, <3>7, <3>8
  <2>2. CASE BeginExecute(i)
    <3>1. /\ old.state = "CONFIRMED" /\ n = Started(i) /\ up /\ up'
          /\ store' \in {store, Snapshot(n)}
      BY <1>1, <1>2, <2>2 DEF BeginExecute, Save, FailedSave
    <3>2. i \in Present(mem)
      BY <1>2, <3>1 DEF Present, InState, Pending
    <3>3. old \in Request
      BY <1>2, <3>2, Presence DEF Typed
    <3>4. Moved(mem, n, i, [old EXCEPT !.state = "ATTEMPT_STARTED"])
      BY <1>2, <3>1, <3>2, StartedFields DEF Typed
    <3>5. PICK r : r = [old EXCEPT !.state = "ATTEMPT_STARTED"]
      OBVIOUS
    <3>6. /\ r.state = "ATTEMPT_STARTED" /\ r.key = old.key /\ r.target = old.target
          /\ r.boot = old.boot
      BY <3>3, <3>5 DEF Request
    <3>7. Stage(old.state) < Stage(r.state)
      BY <3>1, <3>6 DEF Stage
    <3>8. ~Settle(i) /\ ~FinishConfirm(i)
      BY <1>2, <3>1, AttemptKnown
         DEF Settle, FinishConfirm, Terminal, Compactable, Doubtful
    <3> QED BY <3>1, <3>2, <3>3, <3>4, <3>5, <3>6, <3>7, <3>8
  <2>3. CASE Settle(i)
    <3>1. /\ task[i] \in Terminal /\ n = Settled(i) /\ up' = up
          /\ store' \in {store, Snapshot(n)}
      BY <1>1, <2>3 DEF Settle, Save, FailedSave
    <3>2. task[i] # "none" /\ task[i] \notin {"PREPARED", "CONFIRMED", "ATTEMPT_STARTED"}
      BY <3>1 DEF Terminal, Compactable, Doubtful
    <3>3. up /\ i \in Present(mem) /\ old.state = "ATTEMPT_STARTED"
      BY <1>2, <3>2, AttemptKnown
    <3>4. old \in Request
      BY <1>2, <3>3, Presence DEF Typed
    <3>5. PICK w : w = IF task[i] = "EXPIRED" THEN "deadline" ELSE "none"
      OBVIOUS
    <3>6. Moved(mem, n, i, [old EXCEPT !.state = task[i], !.why = w])
      BY <1>2, <3>1, <3>3, <3>5, SettledFields DEF Typed
    <3>7. PICK r : r = [old EXCEPT !.state = task[i], !.why = w]
      OBVIOUS
    <3>8. /\ r.state = task[i] /\ r.key = old.key /\ r.target = old.target
          /\ r.boot = old.boot
      BY <3>4, <3>7 DEF Request
    <3>9. Stage(old.state) < Stage(r.state) /\ r.state # "ABSENT"
      BY <3>1, <3>2, <3>3, <3>8 DEF Stage, Terminal, Compactable, Doubtful
    <3>10. ~FinishConfirm(i)
      BY <1>2, <3>3 DEF FinishConfirm
    <3> QED BY <3>1, <3>3, <3>4, <3>6, <3>7, <3>8, <3>9, <3>10
  <2> QED BY <2>1, <2>2, <2>3
<1>4. PICK r : /\ Moved(mem, n, i, r)
               /\ MovesOn(old, r) /\ r.state # "ABSENT"
               /\ FinishConfirm(i) => r.state = "CONFIRMED"
               /\ Settle(i) => r.state \in Terminal
  BY <1>3 DEF MovesOn
<1>5. n.req[i] = r /\ \A j \in Ids : j # i => n.req[j] = mem.req[j]
  BY <1>4, MovedRequests DEF Typed
<1>6. old.state # "ABSENT"
  BY <1>3 DEF Request, Pending, Terminal, Compactable, Doubtful
<1>7. Rewrites(n)
  <2>1. ASSUME NEW j \in Ids
        PROVE  \/ n.req[j].state = "ABSENT"
               \/ mem.req[j].state # "ABSENT" /\ MovesOn(mem.req[j], n.req[j])
    BY <1>2, <1>4, <1>5, <1>6 DEF MovesOn
  <2> QED BY <1>1, <1>3, <2>1 DEF Rewrites
<1> QED BY <1>1, <1>4, <1>5, <1>7

LEMMA StartMovesOn ==
    ASSUME Typed, BrokerInv, Start
    PROVE  KeepsUp(store.state, mem')
<1>1. mem' = Converted(store, boot)
  BY DEF Start
<1>2. PICK s : s = store
  OBVIOUS
<1>3. PICK n : n = Converted(s, boot)
  OBVIOUS
<1>4. s.state \in Collections
  BY <1>2 DEF Typed
<1>5. ASSUME NEW i \in Ids, s.state.req[i].state # "ABSENT"
      PROVE  MovesOn(s.state.req[i], n.req[i])
  <2>1. CASE s.boot = boot
    BY <2>1, <1>3 DEF Converted, MovesOn
  <2>2. CASE s.boot # boot
    <3>1. n.req[i] = Rebooted(s.state.req[i])
      BY <2>2, <1>3, <1>4, ConvertedFields
    <3>2. PICK r \in Request : r = s.state.req[i]
      BY <1>4, <1>5 DEF Collections, Absent
    <3>3. \/ Rebooted(r) = r
          \/ /\ r.state \in Pending /\ Rebooted(r).state \in {"EXPIRED", "UNKNOWN"}
             /\ Rebooted(r).key = r.key /\ Rebooted(r).target = r.target
             /\ Rebooted(r).boot = r.boot
      BY DEF Rebooted, Request, Pending
    <3>4. r.state \in Pending => Stage(r.state) < 3
      BY DEF Stage, Pending
    <3>5. Stage("EXPIRED") = 3 /\ Stage("UNKNOWN") = 3
      BY DEF Stage
    <3> QED BY <3>1, <3>2, <3>3, <3>4, <3>5 DEF MovesOn
  <2> QED BY <2>1, <2>2
<1> QED BY <1>1, <1>2, <1>3, <1>5 DEF KeepsUp

\* What a step does to memory and snapshot.
LEMMA StepsRewrite ==
    ASSUME Typed, BrokerInv, [Next]_vars
    PROVE  (\E n : Rewrites(n)) \/ UNCHANGED <<mem, store, up>> \/ Start \/ Crash
<1>1. CASE \E i \in Ids, k \in Keys, t \in Targets : Prepare(i, k, t)
  BY <1>1, PrepareRewrites
<1>2. CASE \E k \in Keys, t \in Targets : PrepareAgain(k, t)
  BY <1>2, PrepareAgainRewrites
<1>3. CASE \E i \in Ids : FinishConfirm(i) \/ BeginExecute(i) \/ Settle(i)
  BY <1>3, TransitionRewrites
<1>4. CASE \/ UNCHANGED vars \/ \E c \in flying : ProviderSettles(c)
           \/ \E i \in Ids : \/ BeginConfirm(i) \/ RejectConfirm(i) \/ DeadlinePasses(i)
                             \/ CheckBinding(i) \/ ConditionalExecute(i)
                             \/ VerifyReadback(i)
  BY <1>4 DEF vars, ProviderSettles, BeginConfirm, RejectConfirm, DeadlinePasses,
     CheckBinding, ConditionalExecute, VerifyReadback
<1> QED BY <1>1, <1>2, <1>3, <1>4 DEF Next, Execute

\* What the snapshot says of a request is never taken back: a confirmation is not
\* undone, an attempt not reopened, a settled request's receipt not replaced, and
\* its binding stays, through failed saves, restarts and boot changes.
StoredRequestsMoveOn == [][KeepsUp(store.state, store'.state)]_vars

\* For every number of requests, limits and faults.
THEOREM ReceiptsAreFinal == Spec => StoredRequestsMoveOn
<1>1. Init => MemoryIsAhead
  BY DEF Init, MemoryIsAhead, KeepsUp, MovesOn
<1>2. Typed /\ BrokerInv /\ MemoryIsAhead /\ [Next]_vars
        => MemoryIsAhead' /\ KeepsUp(store.state, store'.state)
  <2> SUFFICES ASSUME Typed, BrokerInv, MemoryIsAhead, [Next]_vars
               PROVE  MemoryIsAhead' /\ KeepsUp(store.state, store'.state)
    OBVIOUS
  <2>1. KeepsUp(store.state, store.state)
    BY DEF KeepsUp, MovesOn
  <2>2. CASE \E n : Rewrites(n)
    BY <2>2, RewritesMoveOn
  <2>3. CASE UNCHANGED <<mem, store, up>>
    BY <2>1, <2>3 DEF MemoryIsAhead, KeepsUp, MovesOn
  <2>4. CASE Start
    <3>1. store' = store
      BY <2>4 DEF Start
    <3>2. KeepsUp(store'.state, mem')
      BY <2>4, <3>1, StartMovesOn
    <3> QED BY <2>1, <3>1, <3>2 DEF MemoryIsAhead, KeepsUp, MovesOn
  <2>5. CASE Crash
    BY <2>1, <2>5 DEF Crash, MemoryIsAhead
  <2> QED BY <2>2, <2>3, <2>4, <2>5, StepsRewrite
<1>3. Typed /\ BrokerInv /\ MemoryIsAhead /\ [Next]_vars
        => MemoryIsAhead' /\ [KeepsUp(store.state, store'.state)]_vars
  BY <1>2
<1> QED BY <1>1, <1>3, BrokerInvariant, PTL DEF Spec, StoredRequestsMoveOn

-----------------------------------------------------------------------------
(* An open attempt has a thread that works on it.                          *)

\* An attempt that is open in memory is being executed.
NoOrphans == up => \A i \in Ids : mem.req[i].state = "ATTEMPT_STARTED" => task[i] # "none"

\* A process that is down comes back under a boot the snapshot does not know.
StoreIsOlder == ~up => store.boot < boot

LEMMA AttemptsKeepThreads ==
    ASSUME ~SaveFaults, ~BrokerErrors, ~SameBoot,
           Typed, BrokerInv, NoOrphans, StoreIsOlder, [Next]_vars
    PROVE  NoOrphans' /\ StoreIsOlder'
<1>1. CASE \E i \in Ids, k \in Keys, t \in Targets : Prepare(i, k, t)
  <2>1. PICK i \in Ids, k \in Keys, t \in Targets : Prepare(i, k, t)
    BY <1>1
  <2>2. PICK n : /\ Rewrites(n)
                 /\ \A j \in Ids : n.req[j].state = "ATTEMPT_STARTED" =>
                        mem.req[j].state = "ATTEMPT_STARTED"
    BY <2>1, PrepareRewrites
  <2>3. task' = task
    BY <2>1 DEF Prepare
  <2> QED BY <2>2, <2>3 DEF Rewrites, NoOrphans, StoreIsOlder
<1>2. CASE \E k \in Keys, t \in Targets : PrepareAgain(k, t)
  <2>1. PICK k \in Keys, t \in Targets : PrepareAgain(k, t)
    BY <1>2
  <2>2. task' = task /\ up /\ up'
    BY <2>1 DEF PrepareAgain
  <2>3. \A j \in Ids : mem'.req[j].state = "ATTEMPT_STARTED" =>
            mem.req[j].state = "ATTEMPT_STARTED"
    BY <2>1, PrepareAgainRewrites
  <2> QED BY <2>2, <2>3 DEF NoOrphans, StoreIsOlder
<1>3. ASSUME NEW i \in Ids, FinishConfirm(i) \/ BeginExecute(i) \/ Settle(i)
      PROVE  NoOrphans' /\ StoreIsOlder'
  <2>1. /\ up /\ up'
        /\ \A j \in Ids : j # i => mem'.req[j] = mem.req[j] /\ task'[j] = task[j]
    <3>1. up /\ up' /\ \A j \in Ids : j # i => mem'.req[j] = mem.req[j]
      BY <1>3, TransitionRewrites DEF Rewrites
    <3>2. \A j \in Ids : j # i => task'[j] = task[j]
      BY <1>3 DEF FinishConfirm, BeginExecute, Settle, Typed
    <3> QED BY <3>1, <3>2
  <2>2. mem'.req[i].state = "ATTEMPT_STARTED" => task'[i] # "none"
    <3>1. CASE FinishConfirm(i) \/ Settle(i)
      BY <3>1, TransitionRewrites DEF Terminal, Compactable, Doubtful
    <3>2. CASE BeginExecute(i)
      BY <3>2 DEF BeginExecute, FailedSave, Typed
    <3> QED BY <1>3, <3>1, <3>2
  <2> QED BY <2>1, <2>2 DEF NoOrphans, StoreIsOlder
<1>4. ASSUME NEW i \in Ids, CheckBinding(i) \/ ConditionalExecute(i) \/ VerifyReadback(i)
      PROVE  NoOrphans' /\ StoreIsOlder'
  <2>1. UNCHANGED <<mem, store, up, boot>>
    BY <1>4 DEF CheckBinding, ConditionalExecute, VerifyReadback
  <2>2. \A j \in Ids : task[j] # "none" => task'[j] # "none"
    BY <1>4 DEF CheckBinding, ConditionalExecute, VerifyReadback, Typed
  <2> QED BY <2>1, <2>2 DEF NoOrphans, StoreIsOlder
<1>5. CASE \/ UNCHANGED vars \/ \E c \in flying : ProviderSettles(c)
           \/ \E i \in Ids : BeginConfirm(i) \/ RejectConfirm(i) \/ DeadlinePasses(i)
  <2>1. UNCHANGED <<mem, store, up, boot, task>>
    BY <1>5 DEF vars, ProviderSettles, BeginConfirm, RejectConfirm, DeadlinePasses
  <2> QED BY <2>1 DEF NoOrphans, StoreIsOlder
<1>6. CASE Start
  <2>1. mem' = Converted(store, boot) /\ up' /\ store.boot # boot
    BY <1>6 DEF Start, StoreIsOlder, Typed, Boots
  <2>2. PICK s : s = store
    OBVIOUS
  <2>3. PICK n : n = Converted(s, boot)
    OBVIOUS
  <2>4. s.state \in Collections /\ s.boot # boot
    BY <2>1, <2>2 DEF Typed
  <2>5. ASSUME NEW i \in Ids PROVE n.req[i].state # "ATTEMPT_STARTED"
    <3>1. n.req[i] = Rebooted(s.state.req[i])
      BY <2>3, <2>4, ConvertedFields
    <3>2. s.state.req[i] = Absent \/ s.state.req[i] \in Request
      BY <2>4 DEF Collections
    <3>3. Rebooted(Absent) = Absent
      BY DEF Rebooted, Absent
    <3>4. ASSUME NEW r \in Request PROVE Rebooted(r).state # "ATTEMPT_STARTED"
      BY DEF Rebooted, Request
    <3> QED BY <3>1, <3>2, <3>3, <3>4 DEF Absent
  <2> QED BY <2>1, <2>2, <2>3, <2>5 DEF NoOrphans, StoreIsOlder
<1>7. CASE Crash
  <2>1. up' = FALSE /\ boot' = boot + 1 /\ store' = store
    BY <1>7 DEF Crash
  <2>2. store.boot <= boot /\ store.boot \in Nat /\ boot \in Nat
    BY DEF BrokerInv, Typed, Boots
  <2>3. store'.boot < boot'
    BY <2>1, <2>2
  <2> QED BY <2>1, <2>3 DEF NoOrphans, StoreIsOlder
<1> QED BY <1>1, <1>2, <1>3, <1>4, <1>5, <1>6, <1>7 DEF Next, Execute

\* An attempt loses its thread only by a save that raises, a clock that regresses or
\* a restart under the same boot identity: without these, whatever else dies, is
\* pruned or runs out, the thread that will settle an open attempt is there.
THEOREM AttemptsHaveThreads ==
    ASSUME ~SaveFaults, ~BrokerErrors, ~SameBoot
    PROVE  Spec => []NoOrphans
<1>1. Init => NoOrphans /\ StoreIsOlder
  BY EmptyIsOrderly DEF Init, NoOrphans, StoreIsOlder
<1>2. Typed /\ BrokerInv /\ NoOrphans /\ StoreIsOlder /\ [Next]_vars
        => NoOrphans' /\ StoreIsOlder'
  BY AttemptsKeepThreads
<1> QED BY <1>1, <1>2, BrokerInvariant, PTL DEF Spec

-----------------------------------------------------------------------------
(* The broker implements ApprovedCalls.                                    *)

Step == [Promise!ANext]_<<boot, approved, calls, flying, InDoubt>>

\* A step that makes no call and whose collections n doubt no call that memory does
\* not doubt only clears calls.
LEMMA OnlyClears ==
    ASSUME Typed, BrokerInv, DoubtsAreSaved, up, BrokerInv', Typed', NEW n,
           UNCHANGED <<calls, flying>>, store' \in {store, Snapshot(n)},
           \A c \in calls :
                n.req[c.id].state \in Uncleared => mem.req[c.id].state \in Uncleared,
           \/ mem' = n
           \/ /\ mem' = mem
              /\ \A c \in calls :
                    mem.req[c.id].state \in Uncleared => n.req[c.id].state \in Uncleared
    PROVE  DoubtsAreSaved' /\ InDoubt' \subseteq InDoubt /\ flying \subseteq InDoubt'
<1>1. \A c \in calls : /\ mem.req[c.id].state \in Uncleared =>
                            store.state.req[c.id].state \in Uncleared
                       /\ n.req[c.id].state \in Uncleared =>
                            store.state.req[c.id].state \in Uncleared
  BY DEF DoubtsAreSaved
<1>2. store' = store \/ store'.state = n
  BY DEF Snapshot
<1>3. DoubtsAreSaved'
  BY <1>1, <1>2 DEF DoubtsAreSaved
<1>4. InDoubt' \subseteq InDoubt
  BY <1>1, <1>2 DEF InDoubt
<1>5. flying' \subseteq InDoubt'
  BY DEF Typed, BrokerInv, Knows, InState, InDoubt, Uncleared
<1> QED BY <1>3, <1>4, <1>5

\* Cleaning up neither forgets a request in doubt nor makes one.
LEMMA CleanUpKeepsDoubts ==
    ASSUME mem \in Collections, NEW gone \in SUBSET Ids, MayCompact(Pruned(mem), gone),
           NEW i \in Ids
    PROVE  Compacted(Pruned(mem), gone).req[i].state \in Uncleared
                <=> mem.req[i].state \in Uncleared
BY CleanedRequests DEF Absent, Uncleared, Doubtful, Compactable

LEMMA PrepareClears ==
    ASSUME Typed, BrokerInv, DoubtsAreSaved, Typed', BrokerInv',
           NEW i \in Ids, NEW k \in Keys, NEW t \in Targets, Prepare(i, k, t)
    PROVE  DoubtsAreSaved' /\ Step
<1>1. PICK gone \in SUBSET Ids :
        LET clean == Compacted(Pruned(mem), gone)
            new == Added(clean, i, k, t)
        IN  /\ MayCompact(Pruned(mem), gone)
            /\ \/ mem' = new /\ Save(new)
               \/ mem' = mem /\ FailedSave(new)
  BY DEF Prepare
<1>2. PICK clean : clean = Compacted(Pruned(mem), gone)
  OBVIOUS
<1>3. PICK n : n = Added(clean, i, k, t)
  OBVIOUS
<1>4. /\ up /\ i \notin used
      /\ UNCHANGED <<boot, approved, calls, flying>>
  BY DEF Prepare, history
<1>5. clean \in Collections /\ boot \in Boots
  BY <1>1, <1>2, <1>4, CleanUp DEF Typed
<1>6. /\ n \in Collections
      /\ n.req = [clean.req EXCEPT ![i] = NewRequest(k, t, boot)]
      /\ n.idem = [clean.idem EXCEPT ![k] = i]
      /\ n.tomb = clean.tomb /\ n.inflight = clean.inflight /\ n.quar = clean.quar
  BY ONLY <1>3, <1>5, AddedFields, i \in Ids, k \in Keys, t \in Targets
<1>7. ASSUME NEW c \in calls
      PROVE  n.req[c.id].state \in Uncleared <=> mem.req[c.id].state \in Uncleared
  <2>1. c.id \in Ids /\ c.id # i
    BY <1>4 DEF Typed, BrokerInv, Call
  <2>2. n.req[c.id] = clean.req[c.id]
    BY <2>1, <1>5, <1>6 DEF Collections
  <2> QED BY <2>1, <2>2, <1>1, <1>2, CleanUpKeepsDoubts DEF Typed
<1>8. (mem' = n \/ mem' = mem) /\ store' \in {store, Snapshot(n)}
  BY <1>1, <1>2, <1>3 DEF Save, FailedSave
<1>9. DoubtsAreSaved' /\ InDoubt' \subseteq InDoubt /\ flying \subseteq InDoubt'
  BY <1>4, <1>7, <1>8, OnlyClears
<1>10. Promise!Clear
  BY <1>4, <1>9 DEF Promise!Clear, Promise!Clearing
<1> QED BY <1>9, <1>10 DEF Step, Promise!ANext

LEMMA PrepareAgainClears ==
    ASSUME Typed, BrokerInv, DoubtsAreSaved, Typed', BrokerInv',
           NEW k \in Keys, NEW t \in Targets, PrepareAgain(k, t)
    PROVE  DoubtsAreSaved' /\ Step
<1>1. PICK gone \in SUBSET Ids :
        MayCompact(Pruned(mem), gone) /\ mem' = Compacted(Pruned(mem), gone)
  BY DEF PrepareAgain
<1>2. up /\ UNCHANGED <<store, boot, approved, calls, flying>>
  BY DEF PrepareAgain, history
<1>3. PICK n : n = Compacted(Pruned(mem), gone)
  OBVIOUS
<1>4. \A c \in calls : n.req[c.id].state \in Uncleared => mem.req[c.id].state \in Uncleared
  BY <1>1, <1>3, CleanUpKeepsDoubts DEF Typed, Call
<1>5. DoubtsAreSaved'
  BY <1>1, <1>2, <1>3, <1>4, OnlyClears
<1>6. InDoubt' = InDoubt
  BY <1>2 DEF InDoubt
<1> QED BY <1>2, <1>5, <1>6 DEF Step

LEMMA FinishConfirmApproves ==
    ASSUME Typed, BrokerInv, DoubtsAreSaved, Typed', BrokerInv',
           NEW i \in Ids, FinishConfirm(i)
    PROVE  DoubtsAreSaved' /\ Step
<1>1. /\ mem.req[i].state = "PREPARED" /\ mem' = Confirmed(i)
      /\ Save(mem') \/ FailedSave(mem')
      /\ approved' = approved \union {[id |-> i, boot |-> boot]}
      /\ UNCHANGED <<boot, calls, flying>>
  BY DEF FinishConfirm
<1>2. up /\ i \in Present(mem)
  <2>1. i \in Present(mem)
    BY <1>1 DEF Present, InState, Pending
  <2> QED BY <2>1, EmptyIsOrderly DEF BrokerInv
<1>3. PICK n : n = Confirmed(i)
  OBVIOUS
<1>4. PICK r : r = [mem.req[i] EXCEPT !.state = "CONFIRMED"]
  OBVIOUS
<1>5. Moved(mem, n, i, r)
  BY <1>2, <1>3, <1>4, ConfirmedFields DEF Typed
<1>6. ASSUME NEW c \in calls PROVE n.req[c.id] = mem.req[c.id]
  <2>1. c.id # i
    BY <1>1, <1>2 DEF BrokerInv, Knows, Sent, Terminal, Compactable, Doubtful
  <2> QED BY <2>1, <1>5, MovedRequests DEF Typed, Call
<1>7. mem' = n /\ store' \in {store, Snapshot(n)}
  BY <1>1, <1>3 DEF Save, FailedSave
<1>8. DoubtsAreSaved' /\ InDoubt' \subseteq InDoubt /\ flying \subseteq InDoubt'
  BY <1>1, <1>2, <1>6, <1>7, OnlyClears
<1>9. Promise!Approve(i)
  BY <1>1, <1>8 DEF Promise!Approve, Promise!Clearing
<1> QED BY <1>8, <1>9 DEF Step, Promise!ANext

LEMMA BeginExecuteClears ==
    ASSUME Typed, BrokerInv, DoubtsAreSaved, Typed', BrokerInv',
           NEW i \in Ids, BeginExecute(i)
    PROVE  DoubtsAreSaved' /\ Step
<1>1. /\ up /\ mem.req[i].state = "CONFIRMED" /\ mem' = Started(i)
      /\ Save(mem') \/ FailedSave(mem')
      /\ UNCHANGED <<boot, approved, calls, flying>>
  BY DEF BeginExecute, history
<1>2. i \in Present(mem)
  BY <1>1 DEF Present, InState, Pending
<1>3. PICK n : n = Started(i)
  OBVIOUS
<1>4. PICK r : r = [mem.req[i] EXCEPT !.state = "ATTEMPT_STARTED"]
  OBVIOUS
<1>5. Moved(mem, n, i, r)
  BY <1>2, <1>3, <1>4, StartedFields DEF Typed
<1>6. ASSUME NEW c \in calls PROVE n.req[c.id] = mem.req[c.id]
  <2>1. c.id # i
    BY <1>1, <1>2 DEF BrokerInv, Knows, Sent, Terminal, Compactable, Doubtful
  <2> QED BY <2>1, <1>5, MovedRequests DEF Typed, Call
<1>7. mem' = n /\ store' \in {store, Snapshot(n)}
  BY <1>1, <1>3 DEF Save, FailedSave
<1>8. DoubtsAreSaved' /\ InDoubt' \subseteq InDoubt /\ flying \subseteq InDoubt'
  BY <1>1, <1>6, <1>7, OnlyClears
<1>9. Promise!Clear
  BY <1>1, <1>8 DEF Promise!Clear, Promise!Clearing
<1> QED BY <1>8, <1>9 DEF Step, Promise!ANext

LEMMA SettleClears ==
    ASSUME Typed, BrokerInv, DoubtsAreSaved, Typed', BrokerInv',
           NEW i \in Ids, Settle(i)
    PROVE  DoubtsAreSaved' /\ Step
<1>1. /\ task[i] \in Terminal /\ mem' = Settled(i)
      /\ Save(mem') \/ FailedSave(mem')
      /\ UNCHANGED <<boot, approved, calls, flying>>
  BY DEF Settle, history
<1>2. up /\ i \in Present(mem) /\ mem.req[i].state = "ATTEMPT_STARTED"
  BY <1>1, AttemptKnown DEF Terminal, Compactable, Doubtful
<1>3. PICK n : n = Settled(i)
  OBVIOUS
<1>4. PICK r : r = [mem.req[i] EXCEPT !.state = task[i],
                      !.why = IF task[i] = "EXPIRED" THEN "deadline" ELSE "none"]
  OBVIOUS
<1>5. Moved(mem, n, i, r)
  BY <1>1, <1>2, <1>3, <1>4, SettledFields DEF Typed
<1>6. ASSUME NEW c \in calls, n.req[c.id].state \in Uncleared
      PROVE  mem.req[c.id].state \in Uncleared
  <2>1. CASE c.id = i
    BY <2>1, <1>2 DEF Uncleared
  <2>2. CASE c.id # i
    <3>1. c.id \in Ids /\ mem \in Collections
      BY DEF Typed, Call
    <3>2. n.req[c.id] = mem.req[c.id]
      BY ONLY <3>1, <2>2, <1>5, MovedRequests, i \in Ids
    <3> QED BY <3>2, <1>6
  <2> QED BY <2>1, <2>2
<1>7. mem' = n /\ store' \in {store, Snapshot(n)}
  BY <1>1, <1>3 DEF Save, FailedSave
<1>8. DoubtsAreSaved' /\ InDoubt' \subseteq InDoubt /\ flying \subseteq InDoubt'
  BY <1>1, <1>2, <1>6, <1>7, OnlyClears
<1>9. Promise!Clear
  BY <1>1, <1>8 DEF Promise!Clear, Promise!Clearing
<1> QED BY <1>8, <1>9 DEF Step, Promise!ANext

LEMMA ConditionalExecuteCalls ==
    ASSUME Typed, BrokerInv, DoubtsAreSaved, Typed', BrokerInv',
           NEW i \in Ids, ConditionalExecute(i)
    PROVE  DoubtsAreSaved' /\ Step
<1>1. PICK new : new = CallOf(i)
  OBVIOUS
<1>2. PICK k, t : k = mem.req[i].key /\ t = mem.req[i].target
  OBVIOUS
<1>3. /\ task[i] = "call" /\ calls' = calls \union {new} /\ flying' = flying \union {new}
      /\ UNCHANGED <<mem, store, up, boot, approved>>
  BY <1>1 DEF ConditionalExecute
<1>4. /\ i \in Present(mem) /\ mem.req[i].state = "ATTEMPT_STARTED"
      /\ mem.req[i] = store.state.req[i]
  BY <1>3, AttemptKnown
<1>5. [id |-> i, boot |-> boot] \in approved /\ \A c \in calls : c.id # i
  BY <1>3 DEF BrokerInv, AtWork
<1>6. new = [id |-> i, key |-> k, target |-> t, boot |-> boot]
  BY <1>1, <1>2 DEF CallOf
<1>7. k \in Keys /\ t \in Targets
  BY <1>2, <1>4, Presence DEF Typed, Request
<1>8. \A c \in calls : c.key # k
  <2>1. \A c \in calls' : c.key = new.key => c = new
    BY <1>3 DEF BrokerInv, OneCallPerKey
  <2> QED BY <2>1, <1>3, <1>5, <1>6
<1>9. ASSUME NEW c \in InDoubt, c.target = t PROVE FALSE
  <2>1. PICK s : s = store.state
    OBVIOUS
  <2>2. /\ c \in calls /\ c.id \in Ids /\ s.req[c.id].state \in Uncleared
    BY <2>1 DEF InDoubt, Typed, Call
  <2>3. Orderly(s, store.boot, used, approved) /\ Knows(s, calls, flying)
    BY <2>1 DEF BrokerInv
  <2>4. c.id \in Present(s)
    BY <2>2 DEF Present, InState, Uncleared, Pending, Terminal
  <2>5. s.req[c.id].target = t
    BY <2>2, <2>3, <2>4, <1>9 DEF Knows
  <2>6. s.req[i].state = "ATTEMPT_STARTED" /\ s.req[i].target = t
    BY <2>1, <1>2, <1>4
  <2>7. i \in InState(s, {"ATTEMPT_STARTED"})
    BY <2>6 DEF InState
  <2>8. CASE s.req[c.id].state = "ATTEMPT_STARTED"
    <3>1. c.id \in InState(s, {"ATTEMPT_STARTED"})
      BY <2>2, <2>8 DEF InState
    <3> QED BY <3>1, <2>2, <2>3, <2>5, <2>6, <2>7, <1>5 DEF Orderly
  <2>9. CASE s.req[c.id].state \in Doubtful
    <3>1. c.id \in InState(s, Doubtful)
      BY <2>2, <2>9 DEF InState
    <3> QED BY <3>1, <2>3, <2>5, <2>6, <2>7 DEF Orderly, Consistent, TargetsOf
  <2> QED BY <2>2, <2>8, <2>9 DEF Uncleared
<1>10. InDoubt' = InDoubt \union {new}
  <2>1. store.state.req[new.id].state \in Uncleared
    BY <1>4, <1>6 DEF Uncleared
  <2> QED BY <2>1, <1>3 DEF InDoubt
<1>11. Promise!CallProvider(i, k, t)
  BY <1>3, <1>5, <1>6, <1>8, <1>9, <1>10 DEF Promise!CallProvider
<1>12. DoubtsAreSaved'
  BY <1>3, <1>4, <1>6 DEF DoubtsAreSaved
<1> QED BY <1>7, <1>11, <1>12 DEF Step, Promise!ANext

\* A call that is over.
LEMMA Returns ==
    ASSUME DoubtsAreSaved, NEW c, flying' = flying \/ flying' = flying \ {c},
           UNCHANGED <<mem, store, up, boot, approved, calls>>
    PROVE  DoubtsAreSaved' /\ Step
<1>1. DoubtsAreSaved'
  BY DEF DoubtsAreSaved
<1>2. InDoubt' = InDoubt
  BY DEF InDoubt
<1>3. CASE flying' = flying
  BY <1>1, <1>2, <1>3 DEF Step
<1>4. CASE flying' = flying \ {c} /\ c \in flying
  BY <1>1, <1>2, <1>4 DEF Step, Promise!ANext, Promise!Return
<1> QED BY <1>1, <1>3, <1>4

LEMMA StartKeepsDoubts ==
    ASSUME Typed, BrokerInv, Start
    PROVE  DoubtsAreSaved' /\ Step
<1>1. /\ mem' = Converted(store, boot)
      /\ UNCHANGED <<store, boot, approved, calls, flying>>
  BY DEF Start, history
<1>2. PICK s : s = store
  OBVIOUS
<1>3. PICK n : n = Converted(s, boot)
  OBVIOUS
<1>4. ASSUME NEW i \in Ids, n.req[i].state \in Uncleared
      PROVE  s.state.req[i].state \in Uncleared
  <2>1. CASE s.boot = boot
    BY <2>1, <1>3, <1>4 DEF Converted
  <2>2. CASE s.boot # boot
    <3>1. s.state \in Collections
      BY <1>2 DEF Typed
    <3>2. n.req[i] = Rebooted(s.state.req[i])
      BY <2>2, <3>1, <1>3, ConvertedFields
    <3>3. s.state.req[i] = Absent \/ s.state.req[i] \in Request
      BY <3>1 DEF Collections
    <3>4. Rebooted(Absent) = Absent /\ Absent.state \notin Uncleared
      BY DEF Rebooted, Absent, Uncleared, Doubtful
    <3>5. CASE s.state.req[i] \in Request
      <4>1. PICK r \in Request : r = s.state.req[i]
        BY <3>5
      <4>2. r.state \in Pending \union Terminal
        BY DEF Request
      <4>3. r.state \in {"PREPARED", "CONFIRMED"} => Rebooted(r).state \notin Uncleared
        BY <4>1, RebootedRequest DEF Uncleared, Doubtful
      <4>4. r.state \in Terminal => Rebooted(r) = r
        BY <4>1, RebootedRequest
      <4> QED BY <3>2, <4>1, <4>2, <4>3, <4>4, <1>4 DEF Pending, Uncleared
    <3> QED BY <3>2, <3>3, <3>4, <3>5, <1>4
  <2> QED BY <2>1, <2>2
<1>5. DoubtsAreSaved'
  BY <1>1, <1>2, <1>3, <1>4 DEF DoubtsAreSaved, Typed, Call
<1>6. InDoubt' = InDoubt
  BY <1>1 DEF InDoubt
<1> QED BY <1>1, <1>5, <1>6 DEF Step

LEMMA CrashReboots ==
    ASSUME Crash PROVE DoubtsAreSaved' /\ Step
<1>1. /\ up' = FALSE
      /\ boot' = boot \/ boot' = boot + 1
      /\ UNCHANGED <<store, approved, calls, flying>>
  BY DEF Crash, history
<1>2. DoubtsAreSaved'
  BY <1>1 DEF DoubtsAreSaved
<1>3. InDoubt' = InDoubt
  BY <1>1 DEF InDoubt
<1>4. CASE boot' = boot
  BY <1>1, <1>2, <1>3, <1>4 DEF Step
<1>5. CASE boot' = boot + 1
  BY <1>1, <1>2, <1>3, <1>5 DEF Step, Promise!ANext, Promise!Reboot
<1> QED BY <1>1, <1>4, <1>5

LEMMA StepsKeepPromise ==
    ASSUME Typed, BrokerInv, DoubtsAreSaved, [Next]_vars
    PROVE  DoubtsAreSaved' /\ Step
<1>1. Typed' /\ BrokerInv'
  BY Steps
<1>2. CASE \E i \in Ids, k \in Keys, t \in Targets : Prepare(i, k, t)
  BY <1>1, <1>2, PrepareClears
<1>3. CASE \E k \in Keys, t \in Targets : PrepareAgain(k, t)
  BY <1>1, <1>3, PrepareAgainClears
<1>4. CASE \E i \in Ids : FinishConfirm(i)
  BY <1>1, <1>4, FinishConfirmApproves
<1>5. CASE \E i \in Ids : BeginExecute(i)
  BY <1>1, <1>5, BeginExecuteClears
<1>6. CASE \E i \in Ids : ConditionalExecute(i)
  BY <1>1, <1>6, ConditionalExecuteCalls
<1>7. CASE \E i \in Ids : Settle(i)
  BY <1>1, <1>7, SettleClears
<1>8. CASE \E i \in Ids : VerifyReadback(i)
  <2>1. PICK i \in Ids : VerifyReadback(i)
    BY <1>8
  <2>2. /\ flying' = flying \/ flying' = flying \ {CallOf(i)}
        /\ UNCHANGED <<mem, store, up, boot, approved, calls>>
    BY <2>1 DEF VerifyReadback
  <2> QED BY <2>2, Returns
<1>9. CASE \E c \in flying : ProviderSettles(c)
  <2>1. PICK c \in flying : ProviderSettles(c)
    BY <1>9
  <2>2. /\ flying' = flying \ {c}
        /\ UNCHANGED <<mem, store, up, boot, approved, calls>>
    BY <2>1 DEF ProviderSettles
  <2> QED BY <2>2, Returns
<1>10. CASE Start
  BY <1>10, StartKeepsDoubts
<1>11. CASE Crash
  BY <1>11, CrashReboots
<1>12. CASE \/ UNCHANGED vars
            \/ \E i \in Ids : \/ BeginConfirm(i) \/ RejectConfirm(i)
                              \/ DeadlinePasses(i) \/ CheckBinding(i)
  <2>1. flying' = flying /\ UNCHANGED <<mem, store, up, boot, approved, calls>>
    BY <1>12 DEF BeginConfirm, RejectConfirm, DeadlinePasses, CheckBinding, history, vars
  <2> QED BY <2>1, Returns
<1> QED BY <1>2, <1>3, <1>4, <1>5, <1>6, <1>7, <1>8, <1>9, <1>10, <1>11, <1>12
        DEF Next, Execute

\* The broker implements ApprovedCalls: an approval is used once and under its boot,
\* and no call is made on a work item of whose last call the snapshot does not know
\* that it is over.
THEOREM PromiseIsKept == Spec => ImplementsApprovedCalls
<1>1. Init => DoubtsAreSaved
  BY DEF Init, DoubtsAreSaved
<1>2. Init => Promise!AInit
  BY DEF Init, Promise!AInit, InDoubt
<1>3. Typed /\ BrokerInv /\ DoubtsAreSaved /\ [Next]_vars => DoubtsAreSaved' /\ Step
  BY StepsKeepPromise
<1>4. Step => [Promise!ANext]_(Promise!avars)
  BY DEF Step, Promise!avars
<1> QED BY <1>1, <1>2, <1>3, <1>4, BrokerInvariant, PTL
        DEF Spec, ImplementsApprovedCalls, Promise!ASpec

Exclusive ==
    /\ flying \subseteq InDoubt /\ InDoubt \subseteq calls
    /\ \A c, d \in calls : c.id = d.id \/ c.key = d.key => c = d
    /\ \A c, d \in InDoubt : c.target = d.target => c = d
    /\ \A c \in calls : [id |-> c.id, boot |-> c.boot] \in approved

LEMMA ExclusiveFolds ==
    (Promise!Exclusive <=> Exclusive) /\ (Promise!Exclusive' <=> Exclusive')
BY DEF Promise!Exclusive, Exclusive, InDoubt

LEMMA PromiseIsExclusive == Promise!ASpec => []Promise!Exclusive
<1>1. Promise!AInit => Promise!Exclusive
  BY ExclusiveFolds DEF Promise!AInit, Exclusive, InDoubt
<1>2. Promise!Exclusive /\ [Promise!ANext]_(Promise!avars) => Promise!Exclusive'
  <2> SUFFICES ASSUME Exclusive, [Promise!ANext]_(Promise!avars) PROVE Exclusive'
    BY ExclusiveFolds
  <2> USE DEF Exclusive
  <2>1. ASSUME Promise!Clearing, UNCHANGED <<calls, flying>>, approved \subseteq approved'
        PROVE  Exclusive'
    <3>1. InDoubt' \subseteq InDoubt /\ flying \subseteq InDoubt'
      BY <2>1 DEF Promise!Clearing, InDoubt
    <3> QED BY <2>1, <3>1
  <2>2. CASE Promise!Clear \/ \E i \in Ids : Promise!Approve(i)
    BY <2>1, <2>2 DEF Promise!Clear, Promise!Approve
  <2>3. ASSUME NEW i \in Ids, NEW k \in Keys, NEW t \in Targets, Promise!CallProvider(i, k, t)
        PROVE  Exclusive'
    <3>1. PICK call : call = [id |-> i, key |-> k, target |-> t, boot |-> boot]
      OBVIOUS
    <3>2. /\ [id |-> i, boot |-> boot] \in approved /\ approved' = approved
          /\ \A c \in calls : c.id # i /\ c.key # k
          /\ \A c \in InDoubt : c.target # t
          /\ calls' = calls \union {call} /\ flying' = flying \union {call}
          /\ InDoubt' = InDoubt \union {call}
      BY <2>3, <3>1 DEF Promise!CallProvider, InDoubt
    <3>3. call.id = i /\ call.key = k /\ call.target = t /\ call.boot = boot
      BY <3>1
    <3> QED BY <3>2, <3>3
  <2>4. ASSUME UNCHANGED <<approved, calls>>, flying' \subseteq flying, InDoubt' = InDoubt
        PROVE  Exclusive'
    BY <2>4
  <2>5. CASE Promise!Reboot \/ UNCHANGED Promise!avars \/ \E c \in flying : Promise!Return(c)
    <3>1. UNCHANGED <<approved, calls>> /\ flying' \subseteq flying /\ InDoubt' = InDoubt
      BY <2>5 DEF Promise!Reboot, Promise!avars, Promise!Return, InDoubt
    <3> QED BY <2>4, <3>1
  <2> QED BY <2>2, <2>3, <2>5 DEF Promise!ANext
<1> QED BY <1>1, <1>2, PTL DEF Promise!ASpec

\* What the operator may rely on: an approval and a key serve one call each, and a
\* work item has at most one call of which the snapshot does not know that it is
\* over, every call that may still be applied among them.
THEOREM CallsAreExclusive == Spec => []Promise!Exclusive
BY PromiseIsKept, PromiseIsExclusive, PTL DEF ImplementsApprovedCalls
=============================================================================
