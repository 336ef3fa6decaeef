----------------------- MODULE ToolInvocation_proofs -----------------------
(***************************************************************************)
(* Theorems about ToolInvocation, for any number of tools, requests and     *)
(* widget sessions and any capacity from two on: one lemma per method of     *)
(* the store says that it maps sound stores to sound stores.                *)
(***************************************************************************)
EXTENDS ToolInvocation, SequenceTheorems, FiniteSetTheorems, TLAPS

-----------------------------------------------------------------------------
(* A sequence without repetitions loses one element and no other.           *)
LEMMA RemovedAt ==
  ASSUME NEW S, NEW q \in Seq(S), IsInjective(q), NEW i \in 1..Len(q)
  PROVE  /\ RemoveAt(q, i) \in Seq(S)
         /\ Len(RemoveAt(q, i)) = Len(q) - 1
         /\ ToSet(RemoveAt(q, i)) = ToSet(q) \ {q[i]}
         /\ IsInjective(RemoveAt(q, i))
<1> DEFINE front == SubSeq(q, 1, i - 1)
           back == SubSeq(q, i + 1, Len(q))
           rest == RemoveAt(q, i)
<1>1. /\ Len(q) \in Nat
      /\ DOMAIN q = 1..Len(q)
      /\ \A j \in 1..Len(q) : q[j] \in S
  BY LenProperties, ElementOfSeq
<1>2. /\ front \in Seq(S) /\ Len(front) = i - 1
      /\ \A j \in 1..(i - 1) : front[j] = q[j]
  BY SMT
<1>3. /\ back \in Seq(S) /\ Len(back) = Len(q) - i
      /\ \A j \in 1..(Len(q) - i) : back[j] = q[i + j]
  BY SMTT(30)
<1>4. rest = front \o back
  BY DEF RemoveAt
<1> HIDE DEF front, back, rest
<1>5. rest \in Seq(S) /\ Len(rest) = Len(q) - 1
  <2>1. rest \in Seq(S) /\ Len(rest) = Len(front) + Len(back)
    <3>1. front \in Seq(S) /\ back \in Seq(S)
      BY <1>2, <1>3
    <3>2. QED
      BY <1>4, <3>1, ConcatProperties
  <2>2. QED
    BY <1>1, <1>2, <1>3, <2>1
<1>6. \A j \in 1..(Len(q) - 1) : rest[j] = IF j < i THEN q[j] ELSE q[j + 1]
  <2>1. \A j \in 1..(Len(front) + Len(back)) :
          rest[j] = IF j <= Len(front) THEN front[j] ELSE back[j - Len(front)]
    <3>1. front \in Seq(S) /\ back \in Seq(S)
      BY <1>2, <1>3
    <3>2. QED
      BY <1>4, <3>1, SMT
  <2> SUFFICES ASSUME NEW j \in 1..(Len(q) - 1)
               PROVE  rest[j] = IF j < i THEN q[j] ELSE q[j + 1]
    OBVIOUS
  <2>2. CASE j < i
    <3>1. j \in 1..(Len(front) + Len(back)) /\ j <= Len(front) /\ j \in 1..(i - 1)
      BY <1>1, <1>2, <1>3, <2>2
    <3>2. QED
      BY <1>2, <2>1, <2>2, <3>1
  <2>3. CASE ~(j < i)
    <3>1. /\ j \in 1..(Len(front) + Len(back)) /\ ~(j <= Len(front))
          /\ j - Len(front) \in 1..(Len(q) - i)
          /\ i + (j - Len(front)) = j + 1
      BY <1>1, <1>2, <1>3, <2>3
    <3>2. QED
      BY <1>3, <2>1, <2>3, <3>1
  <2>4. QED
    BY <2>2, <2>3
<1>7. DOMAIN rest = 1..(Len(q) - 1)
  BY <1>5, LenProperties
<1>8. \A j, k \in DOMAIN q : q[j] = q[k] => j = k
  BY DEF IsInjective
<1> DEFINE from(j) == IF j < i THEN j ELSE j + 1
<1>9. \A j \in DOMAIN rest : /\ from(j) \in DOMAIN q \ {i}
                            /\ rest[j] = q[from(j)]
  BY <1>1, <1>6, <1>7
<1>10. IsInjective(rest)
  <2>1. \A j, k \in DOMAIN rest : from(j) = from(k) => j = k
    BY <1>7
  <2>2. QED
    BY <1>8, <1>9, <2>1 DEF IsInjective
<1>11. ToSet(rest) \subseteq ToSet(q) \ {q[i]}
  <2> HIDE DEF from
  <2>1. QED
    BY <1>1, <1>8, <1>9 DEF ToSet
<1>12. ASSUME NEW x \in ToSet(q) \ {q[i]}
       PROVE  x \in ToSet(rest)
  <2>1. PICK j \in 1..Len(q) : x = q[j]
    BY <1>1, <1>12 DEF ToSet
  <2>2. j # i
    BY <1>12, <2>1
  <2>3. \E k \in 1..(Len(q) - 1) : rest[k] = q[j]
    <3>1. CASE j < i
      BY <1>1, <1>6, <3>1, SMT
    <3>2. CASE j > i
      <4>1. j - 1 \in 1..(Len(q) - 1) /\ ~(j - 1 < i) /\ (j - 1) + 1 = j
        BY <1>1, <3>2, SMT
      <4>2. QED
        BY <1>6, <4>1
    <3>3. QED
      BY <2>2, <3>1, <3>2, SMT
  <2>4. QED
    BY <1>7, <2>1, <2>3 DEF ToSet
<1>13. QED
  BY <1>5, <1>10, <1>11, <1>12 DEF rest

(* And gains one that it did not have.                                      *)
LEMMA Appended ==
  ASSUME NEW S, NEW q \in Seq(S), IsInjective(q), NEW x \in S, x \notin ToSet(q)
  PROVE  /\ Append(q, x) \in Seq(S)
         /\ Len(Append(q, x)) = Len(q) + 1
         /\ ToSet(Append(q, x)) = ToSet(q) \cup {x}
         /\ IsInjective(Append(q, x))
         /\ \A i \in 1..Len(q) : Append(q, x)[i] = q[i]
<1> DEFINE longer == Append(q, x)
<1>1. /\ Len(q) \in Nat
      /\ DOMAIN q = 1..Len(q)
  BY LenProperties
<1>2. /\ longer \in Seq(S) /\ Len(longer) = Len(q) + 1
      /\ \A i \in 1..Len(q) : longer[i] = q[i]
      /\ longer[Len(q) + 1] = x
  BY AppendProperties
<1>3. DOMAIN longer = 1..(Len(q) + 1)
  BY <1>2, LenProperties
<1> HIDE DEF longer
<1>4. \A i \in 1..Len(q) : q[i] # x
  BY <1>1 DEF ToSet
<1>5. IsInjective(longer)
  BY <1>1, <1>2, <1>3, <1>4, SMT DEF IsInjective
<1>6. ToSet(longer) = ToSet(q) \cup {x}
  BY <1>1, <1>2, <1>3, SMT DEF ToSet
<1>7. QED
  BY <1>2, <1>5, <1>6 DEF longer

-----------------------------------------------------------------------------
(* What the parts of the store do.                                         *)

(* Writing one record keeps a store sound when the record fits its key, is    *)
(* armed if it was or no other is, and does not become the untrusted active *)
(* one.                                                                    *)
LEMMA PutKeeps ==
  ASSUME NEW s, Sound(s), NEW k \in DOMAIN s.records, NEW r \in Record, Fits(k, r),
         r.hydrates =>
           \/ s.records[k].hydrates
           \/ s.hydration # "free" /\ \A j \in DOMAIN s.records : ~s.records[j].hydrates,
         r.output = Tag("unbound") => r.hydrates /\ s.hydration = "consumed",
         k = s.active /\ ~r.trusted =>
           ~s.records[k].trusted /\ (r.status # "ready" => s.records[k].status # "ready"),
         NEW t, t = SetRecord(s, k, r)
  PROVE  /\ Sound(t)
         /\ t.active = s.active /\ t.hydration = s.hydration
         /\ DOMAIN t.records = DOMAIN s.records /\ t.records[k] = r
<1>1. WellFormed(s)
  BY DEF Sound
<1>2. /\ t = [records |-> t.records, order |-> t.order, active |-> t.active,
             hydration |-> t.hydration]
      /\ t.order = s.order /\ t.active = s.active /\ t.hydration = s.hydration
      /\ t.records = [s.records EXCEPT ![k] = r]
  BY <1>1 DEF SetRecord, WellFormed
<1>3. /\ DOMAIN t.records = DOMAIN s.records
      /\ t.records[k] = r
      /\ \A j \in DOMAIN s.records \ {k} : t.records[j] = s.records[j]
  BY <1>1, <1>2 DEF WellFormed
<1>4. t.records \in [DOMAIN t.records -> Record]
  BY <1>1, <1>2, <1>3 DEF WellFormed
<1>5. WellFormed(t)
  BY <1>1, <1>2, <1>3, <1>4 DEF WellFormed
<1>6. RecordsFit(t)
  BY <1>3 DEF RecordsFit, Sound
<1>7. FirstIsAlone(t)
  BY <1>2, <1>3 DEF FirstIsAlone, Sound, Active
<1>8. OneHydrates(t)
  BY <1>2, <1>3 DEF OneHydrates, Sound
<1>9. QED
  BY <1>2, <1>3, <1>5, <1>6, <1>7, <1>8 DEF Sound

(* t is s with the call a on the screen and a trusted record of id, perhaps *)
(* without some other record.                                              *)
Made(s, t, id, a) ==
  /\ WellFormed(t)
  /\ t.active = a /\ t.hydration = s.hydration
  /\ id \in DOMAIN t.records
  /\ t.records[id] = IF id \in DOMAIN s.records
                     THEN [s.records[id] EXCEPT !.trusted = TRUE] ELSE NewRecord(TRUE)
  /\ \A k \in DOMAIN t.records \ {id} :
       k \in DOMAIN s.records /\ t.records[k] = s.records[k]
  /\ DOMAIN s.records \subseteq DOMAIN t.records \/ Len(s.order) = MaxRecords

(* A record is found or made, and the one dropped for it is neither it nor    *)
(* the active one.                                                         *)
LEMMA Created ==
  ASSUME NEW s, WellFormed(s), NEW id \in Identity, NEW a \in {s.active, id},
         NEW t, t = GetOrCreate([s EXCEPT !.active = a], id)
  PROVE  Made(s, t, id, a)
<1>1. [s EXCEPT !.active = a] =
        [records |-> s.records, order |-> s.order, active |-> a, hydration |-> s.hydration]
  BY DEF WellFormed
<1>2. CASE id \in DOMAIN s.records
  <2> DEFINE r == [s.records[id] EXCEPT !.trusted = TRUE]
  <2>1. t = [records |-> [s.records EXCEPT ![id] = r], order |-> s.order,
             active |-> a, hydration |-> s.hydration]
    BY <1>1, <1>2 DEF GetOrCreate, SetRecord
  <2>2. s.records[id] \in Record
    BY <1>2 DEF WellFormed
  <2>3. r \in Record
    BY <2>2 DEF Record
  <2> HIDE DEF r
  <2>4. /\ DOMAIN t.records = DOMAIN s.records
        /\ t.records[id] = r
        /\ \A k \in DOMAIN t.records \ {id} : t.records[k] = s.records[k]
        /\ t.records \in [DOMAIN t.records -> Record]
    <3>1. s.records \in [DOMAIN s.records -> Record]
      BY DEF WellFormed
    <3>2. t.records = [s.records EXCEPT ![id] = r]
      BY <2>1
    <3>3. QED
      BY <1>2, <2>3, <3>1, <3>2
  <2>5. WellFormed(t)
    BY <1>2, <2>1, <2>4 DEF WellFormed
  <2>6. QED
    BY <1>2, <2>1, <2>4, <2>5 DEF r, Made
<1>3. CASE id \notin DOMAIN s.records
  <2> DEFINE records == With(s.records, id, NewRecord(TRUE))
             order == Append(s.order, id)
             v == [records |-> records, order |-> order, active |-> a,
                   hydration |-> s.hydration]
             before == [records |-> s.records, order |-> s.order, active |-> a,
                        hydration |-> s.hydration]
  <2>1. t = Prune(v)
    <3>1. GetOrCreate(before, id) = Prune(v)
      <4>1. [before EXCEPT !.records = With(@, id, NewRecord(TRUE)),
                           !.order = Append(@, id)] = v
        <5> SUFFICES ASSUME NEW w,
                            w = [before EXCEPT !.records = With(@, id, NewRecord(TRUE)),
                                               !.order = Append(@, id)]
                     PROVE  w = v
          OBVIOUS
        <5>1. QED
          OBVIOUS
      <4>2. id \notin DOMAIN before.records
        BY <1>3
      <4> HIDE DEF before, v
      <4>3. QED
        BY <4>1, <4>2, Zenon DEF GetOrCreate
    <3>2. QED
      BY <1>1, <3>1
  <2>2. NewRecord(TRUE) \in Record
    BY DEF NewRecord, Record, Statuses, Origins, Nothing
  <2>3. /\ DOMAIN records = DOMAIN s.records \cup {id}
        /\ records[id] = NewRecord(TRUE)
        /\ \A k \in DOMAIN s.records : records[k] = s.records[k]
        /\ records \in [DOMAIN records -> Record]
    BY <1>3, <2>2 DEF With, WellFormed
  <2>4. /\ order \in Seq(Identity) /\ Len(order) = Len(s.order) + 1
        /\ ToSet(order) = DOMAIN records /\ IsInjective(order)
        /\ \A i \in 1..Len(s.order) : order[i] = s.order[i]
    <3>1. s.order \in Seq(Identity) /\ IsInjective(s.order) /\ id \notin ToSet(s.order)
      BY <1>3 DEF WellFormed
    <3>2. DOMAIN records = ToSet(s.order) \cup {id}
      BY <2>3 DEF WellFormed
    <3> HIDE DEF records
    <3>3. QED
      BY <3>1, <3>2, Appended
  <2>5. Len(s.order) \in Nat /\ Len(s.order) <= MaxRecords /\ MaxRecords \in Nat
        /\ MaxRecords >= 2
    BY RoomForTwo, LenProperties DEF WellFormed
  <2>6. a \in DOMAIN records
    BY <2>3 DEF WellFormed
  <2> HIDE DEF records, order
  <2>7. CASE Len(order) <= MaxRecords
    <3>1. t = v
      BY <2>1, <2>7 DEF Prune
    <3>2. /\ t.records = records /\ t.order = order
          /\ t.active = a /\ t.hydration = s.hydration
          /\ t = [records |-> t.records, order |-> t.order, active |-> t.active,
                  hydration |-> t.hydration]
      BY <3>1
    <3>3. WellFormed(t)
      BY <2>3, <2>4, <2>6, <2>7, <3>2 DEF WellFormed
    <3>4. QED
      BY <1>3, <2>3, <3>2, <3>3 DEF Made
  <2>8. CASE ~(Len(order) <= MaxRecords)
    <3> DEFINE first == IF order[1] = a THEN 2 ELSE 1
               oldest == order[first]
    <3>1. t = [records |-> Without(records, oldest), order |-> RemoveAt(order, first),
               active |-> a, hydration |-> s.hydration]
      BY <2>1, <2>8 DEF Prune
    <3>2. /\ Len(order) = MaxRecords + 1
          /\ 1 \in 1..Len(s.order) /\ 2 \in 1..Len(s.order)
          /\ 1 \in 1..Len(order) /\ 2 \in 1..Len(order)
      BY <2>4, <2>5, <2>8, SMT
    <3>3. /\ first \in 1..Len(s.order) /\ first \in 1..Len(order)
      BY <3>2
    <3>4. oldest \in DOMAIN s.records /\ oldest # id
      <4>1. oldest = s.order[first] /\ first \in DOMAIN s.order
        BY <2>4, <3>3, LenProperties DEF WellFormed
      <4>2. QED
        BY <1>3, <4>1 DEF WellFormed, ToSet
    <3>5. oldest # a
      <4>1. 1 \in DOMAIN order /\ 2 \in DOMAIN order /\ 1 # 2
        BY <2>4, <3>2, LenProperties
      <4>2. QED
        BY <2>4, <4>1 DEF IsInjective
    <3> HIDE DEF first
    <3>6. /\ RemoveAt(order, first) \in Seq(Identity)
          /\ Len(RemoveAt(order, first)) = Len(order) - 1
          /\ ToSet(RemoveAt(order, first)) = ToSet(order) \ {oldest}
          /\ IsInjective(RemoveAt(order, first))
      BY <2>4, <3>3, RemovedAt
    <3> HIDE DEF oldest
    <3>7. Len(RemoveAt(order, first)) <= MaxRecords
      BY <2>5, <3>2, <3>6, SMT
    <3>8. /\ DOMAIN t.records = DOMAIN records \ {oldest}
          /\ \A k \in DOMAIN t.records : t.records[k] = records[k]
          /\ t.records \in [DOMAIN t.records -> Record]
      BY <2>3, <3>1 DEF Without
    <3>9. WellFormed(t)
      <4>1. /\ t = [records |-> t.records, order |-> t.order, active |-> t.active,
                    hydration |-> t.hydration]
            /\ t.order = RemoveAt(order, first)
            /\ t.active = a /\ t.hydration = s.hydration
        BY <3>1
      <4>2. DOMAIN t.records \subseteq Identity
        BY <2>3, <3>8 DEF WellFormed
      <4>3. ToSet(t.order) = DOMAIN t.records
        BY <2>4, <3>6, <3>8, <4>1
      <4>4. t.active \in DOMAIN t.records
        BY <2>6, <3>5, <3>8, <4>1
      <4>5. QED
        BY <3>6, <3>7, <3>8, <4>1, <4>2, <4>3, <4>4 DEF WellFormed
    <3>10. QED
      <4>1. t.active = a /\ t.hydration = s.hydration
        BY <3>1
      <4>2. id \in DOMAIN t.records /\ t.records[id] = NewRecord(TRUE)
        BY <2>3, <3>4, <3>8
      <4>3. \A k \in DOMAIN t.records \ {id} :
              k \in DOMAIN s.records /\ t.records[k] = s.records[k]
        BY <2>3, <3>8
      <4>4. Len(s.order) = MaxRecords
        BY <2>4, <2>5, <3>2
      <4>5. QED
        BY <1>3, <3>9, <4>1, <4>2, <4>3, <4>4 DEF Made
  <2>9. QED
    BY <2>7, <2>8
<1>4. QED
  BY <1>2, <1>3

(* What a record of a sound store satisfies.                                *)
LEMMA RecordOf ==
  ASSUME NEW s, Sound(s), NEW k \in DOMAIN s.records
  PROVE  /\ k \in Identity /\ s.active \in DOMAIN s.records /\ s.active \in Identity
         /\ s.records[k] \in Record /\ Fits(k, s.records[k])
         /\ s.records[k].output = Tag("unbound") =>
              s.records[k].hydrates /\ s.hydration = "consumed"
<1>1. s.records[k] \in Record
  BY DEF Sound, WellFormed
<1>2. Fits(k, s.records[k])
  BY DEF Sound, RecordsFit
<1>3. s.records[k].output = Tag("unbound") =>
        s.records[k].hydrates /\ s.hydration = "consumed"
  BY DEF Sound, OneHydrates
<1>4. QED
  BY <1>1, <1>2, <1>3 DEF Sound, WellFormed

(* getOrCreate and activate: sound again, unless an unfinished anonymous     *)
(* call would be left on the screen beside the new one.                     *)
LEMMA MadeKeeps ==
  ASSUME NEW s, Sound(s), NEW id \in Identity, NEW a \in {s.active, id},
         a = id \/ Active(s).status = "ready",
         NEW t, t = GetOrCreate([s EXCEPT !.active = a], id)
  PROVE  Sound(t) /\ Made(s, t, id, a)
<1>1. Made(s, t, id, a)
  <2>1. WellFormed(s)
    BY DEF Sound
  <2>2. QED
    BY <2>1, Created
<1>2. /\ WellFormed(t)
      /\ t.active = a /\ t.hydration = s.hydration
      /\ id \in DOMAIN t.records
      /\ t.records[id] = IF id \in DOMAIN s.records
                         THEN [s.records[id] EXCEPT !.trusted = TRUE] ELSE NewRecord(TRUE)
      /\ \A k \in DOMAIN t.records \ {id} :
           k \in DOMAIN s.records /\ t.records[k] = s.records[k]
  BY <1>1 DEF Made
<1>3. id \in DOMAIN s.records =>
        LET r == s.records[id] IN
        /\ r \in Record
        /\ [r EXCEPT !.trusted = TRUE].trusted
        /\ [r EXCEPT !.trusted = TRUE].status = r.status
        /\ [r EXCEPT !.trusted = TRUE].output = r.output
        /\ [r EXCEPT !.trusted = TRUE].hydrates = r.hydrates
        /\ [r EXCEPT !.trusted = TRUE].timer = r.timer
  BY RecordOf DEF Record
<1>4. /\ NewRecord(TRUE).trusted /\ ~NewRecord(TRUE).hydrates
      /\ NewRecord(TRUE).output = Nothing /\ NewRecord(TRUE).output # Tag("unbound")
      /\ Fits(id, NewRecord(TRUE))
  BY DEF NewRecord, Nothing, Tag, Fits, Bound, Pending
<1>5. /\ t.records[id].trusted
      /\ t.records[id].hydrates => id \in DOMAIN s.records /\ s.records[id].hydrates
      /\ t.records[id].output = Tag("unbound") =>
           id \in DOMAIN s.records /\ s.records[id].output = Tag("unbound")
                                   /\ t.records[id].hydrates
      /\ Fits(id, t.records[id])
  <2>1. CASE id \in DOMAIN s.records
    <3>1. Fits(id, s.records[id])
      BY <2>1, RecordOf
    <3>2. s.records[id].output = Tag("unbound") => s.records[id].hydrates
      BY <2>1, RecordOf
    <3>3. QED
      BY <1>2, <1>3, <2>1, <3>1, <3>2 DEF Fits
  <2>2. CASE id \notin DOMAIN s.records
    BY <1>2, <1>4, <2>2
  <2>3. QED
    BY <2>1, <2>2
<1>6. RecordsFit(t)
  BY <1>2, <1>5 DEF RecordsFit, Sound
<1>7. FirstIsAlone(t)
  BY <1>2, <1>5 DEF FirstIsAlone, Sound, Active, WellFormed
<1>8. OneHydrates(t)
  BY <1>2, <1>5 DEF OneHydrates, Sound
<1>9. QED
  BY <1>1, <1>2, <1>6, <1>7, <1>8 DEF Sound

(* getOrCreate beside an output.                                            *)
LEMMA StagedKeeps ==
  ASSUME NEW s, Sound(s), NEW id \in Identity, Active(s).status = "ready",
         NEW t, t = GetOrCreate(s, id)
  PROVE  /\ Sound(t) /\ id \in DOMAIN t.records
         /\ s.active # id => t.active = s.active /\ Active(t) = Active(s)
<1>1. [s EXCEPT !.active = s.active] = s
  BY DEF Sound, WellFormed
<1>2. t = GetOrCreate([s EXCEPT !.active = s.active], id) /\ s.active \in {s.active, id}
  BY <1>1
<1>3. Sound(t) /\ Made(s, t, id, s.active)
  BY <1>2, MadeKeeps
<1>4. QED
  BY <1>3 DEF Made, WellFormed, Active

(* activate.  While an anonymous call waits nothing else is known, so the     *)
(* call that takes its place is a new one.                                  *)
LEMMA ActivateKeeps ==
  ASSUME NEW s, Sound(s), NEW id \in Identity, NEW t, t = Activate(s, id)
  PROVE  /\ Sound(t)
         /\ t.active = id /\ t.hydration = s.hydration /\ Active(t).trusted
         /\ ~Active(s).trusted /\ Active(s).status # "ready" /\ id.tool # None =>
              Active(t).status \notin Terminal
         /\ \A k \in DOMAIN s.records \ {id} :
              \/ k \in DOMAIN t.records /\ t.records[k] = s.records[k]
              \/ k \notin DOMAIN t.records /\ Len(s.order) = MaxRecords
<1>1. id \in {s.active, id} /\ t = GetOrCreate([s EXCEPT !.active = id], id)
  BY DEF Activate
<1>2. Sound(t) /\ Made(s, t, id, id)
  BY <1>1, MadeKeeps
<1>3. /\ t.active = id /\ t.hydration = s.hydration
      /\ id \in DOMAIN s.records => Active(t) = [s.records[id] EXCEPT !.trusted = TRUE]
      /\ id \notin DOMAIN s.records => Active(t) = NewRecord(TRUE)
  BY <1>2 DEF Made, Active
<1>4. NewRecord(TRUE).trusted /\ NewRecord(TRUE).status \notin Terminal
  BY DEF NewRecord, Terminal
<1>5. id \in DOMAIN s.records => Active(t).trusted
  <2>1. ASSUME id \in DOMAIN s.records
        PROVE  s.records[id] \in Record
    BY <2>1, RecordOf
  <2>2. QED
    BY <1>3, <2>1 DEF Record
<1>6. ~Active(s).trusted /\ Active(s).status # "ready" /\ id.tool # None =>
        id \notin DOMAIN s.records
  <2>1. ~Active(s).trusted => s.active.tool = None
    <3>1. s.active \in DOMAIN s.records
      BY DEF Sound, WellFormed
    <3>2. QED
      BY <3>1 DEF Sound, RecordsFit, Fits, Active, Anonymous
  <2>2. QED
    BY <2>1 DEF Sound, FirstIsAlone
<1>7. \A k \in DOMAIN s.records \ {id} :
        \/ k \in DOMAIN t.records /\ t.records[k] = s.records[k]
        \/ k \notin DOMAIN t.records /\ Len(s.order) = MaxRecords
  BY <1>2 DEF Made
<1>8. QED
  BY <1>2, <1>3, <1>4, <1>5, <1>6, <1>7

(* Another record is shown.                                                 *)
LEMMA SwitchKeeps ==
  ASSUME NEW s, Sound(s), NEW k \in DOMAIN s.records, s.records[k].trusted,
         NEW t, t = [s EXCEPT !.active = k]
  PROVE  /\ Sound(t)
         /\ t.active = k /\ t.hydration = s.hydration /\ t.records = s.records
<1>1. t = [records |-> s.records, order |-> s.order, active |-> k,
           hydration |-> s.hydration]
  BY DEF Sound, WellFormed
<1>2. WellFormed(t)
  BY <1>1 DEF Sound, WellFormed
<1>3. RecordsFit(t) /\ FirstIsAlone(t) /\ OneHydrates(t)
  BY <1>1 DEF Sound, RecordsFit, FirstIsAlone, OneHydrates, Active
<1>4. QED
  BY <1>1, <1>2, <1>3 DEF Sound

(* The unbound snapshot is armed or spent.                                  *)
LEMMA SpendKeeps ==
  ASSUME NEW s, Sound(s), NEW h \in {"armed", "consumed"},
         h = "consumed" \/ s.hydration = "free",
         NEW t, t = [s EXCEPT !.hydration = h]
  PROVE  /\ Sound(t)
         /\ t.active = s.active /\ t.hydration = h /\ t.records = s.records
<1>1. t = [records |-> s.records, order |-> s.order, active |-> s.active,
           hydration |-> h]
  BY DEF Sound, WellFormed
<1>2. WellFormed(t)
  BY <1>1 DEF Sound, WellFormed
<1>3. RecordsFit(t) /\ FirstIsAlone(t) /\ OneHydrates(t)
  BY <1>1 DEF Sound, RecordsFit, FirstIsAlone, OneHydrates, Active
<1>4. QED
  BY <1>1, <1>2, <1>3 DEF Sound

(* rekeyActiveRecord: the trusted record on the screen gets a name that it   *)
(* fits, and what was there under that name is gone.                        *)
LEMMA RekeyKeeps ==
  ASSUME NEW s, Sound(s), Active(s).trusted, NEW id \in Identity, Fits(id, Active(s)),
         NEW t, t = Rekey(s, s.active, id)
  PROVE  /\ Sound(t)
         /\ t.active = id /\ t.hydration = s.hydration
         /\ id \in DOMAIN t.records /\ t.records[id] = Active(s)
         /\ \A j \in DOMAIN s.records \ {s.active, id} :
              j \in DOMAIN t.records /\ t.records[j] = s.records[j]
<1>1. WellFormed(s) /\ s.active \in DOMAIN s.records
  BY DEF Sound, WellFormed
<1>2. CASE s.active = id
  BY <1>1, <1>2 DEF Rekey, Active
<1>3. CASE s.active # id
  <2> DEFINE k == s.active
             r == s.records[k]
             records == With(Without(s.records, k), id, r)
             rest == RemoveAt(s.order, PositionOf(s.order, k))
             order == IF id \in ToSet(rest) THEN rest ELSE Append(rest, id)
             v == [records |-> records, order |-> order, active |-> id,
                   hydration |-> s.hydration]
  <2>1. t = v
    <3>1. s = [records |-> s.records, order |-> s.order, active |-> s.active,
               hydration |-> s.hydration]
      BY <1>1 DEF WellFormed
    <3>2. t = [s EXCEPT !.records = With(Without(@, k), id, s.records[k]),
                        !.order = LET left == RemoveAt(@, PositionOf(@, k))
                                  IN IF id \in ToSet(left) THEN left ELSE Append(left, id),
                        !.active = id]
      BY <1>3 DEF Rekey
    <3>3. QED
      BY <3>1, <3>2
  <2>2. r \in Record
    BY <1>1 DEF WellFormed
  <2>3. /\ DOMAIN records = (DOMAIN s.records \ {k}) \cup {id}
        /\ records[id] = r
        /\ \A j \in DOMAIN records \ {id} :
             j \in DOMAIN s.records \ {k} /\ records[j] = s.records[j]
        /\ \A j \in DOMAIN s.records \ {k, id} :
             j \in DOMAIN records /\ records[j] = s.records[j]
    BY DEF With, Without
  <2>4. records \in [DOMAIN records -> Record]
    <3>1. \A j \in DOMAIN s.records : s.records[j] \in Record
      BY <1>1 DEF WellFormed
    <3>2. records = [j \in DOMAIN records |-> records[j]]
      BY DEF With
    <3> HIDE DEF records
    <3>3. \A j \in DOMAIN records : records[j] \in Record
      BY <2>2, <2>3, <3>1
    <3>4. QED
      BY <3>2, <3>3
  <2>5. /\ s.order \in Seq(Identity) /\ IsInjective(s.order)
        /\ ToSet(s.order) = DOMAIN s.records
        /\ Len(s.order) <= MaxRecords /\ Len(s.order) \in Nat /\ MaxRecords \in Nat
    BY <1>1, RoomForTwo, LenProperties DEF WellFormed
  <2>6. /\ PositionOf(s.order, k) \in 1..Len(s.order)
        /\ s.order[PositionOf(s.order, k)] = k
    <3>1. DOMAIN s.order = 1..Len(s.order)
      BY <2>5, LenProperties
    <3>2. \E i \in DOMAIN s.order : s.order[i] = k
      BY <1>1, <2>5 DEF ToSet
    <3>3. QED
      BY <3>1, <3>2 DEF PositionOf
  <2>7. /\ rest \in Seq(Identity) /\ Len(rest) = Len(s.order) - 1
        /\ ToSet(rest) = DOMAIN s.records \ {k} /\ IsInjective(rest)
    <3> DEFINE i == PositionOf(s.order, k)
    <3>1. i \in 1..Len(s.order) /\ s.order[i] = k
      BY <2>6
    <3> HIDE DEF i
    <3>2. /\ RemoveAt(s.order, i) \in Seq(Identity)
          /\ Len(RemoveAt(s.order, i)) = Len(s.order) - 1
          /\ ToSet(RemoveAt(s.order, i)) = ToSet(s.order) \ {s.order[i]}
          /\ IsInjective(RemoveAt(s.order, i))
      BY <2>5, <3>1, RemovedAt
    <3>3. QED
      BY <2>5, <3>1, <3>2 DEF i
  <2> HIDE DEF rest, records
  <2>8. /\ order \in Seq(Identity) /\ Len(order) <= MaxRecords
        /\ ToSet(order) = DOMAIN records /\ IsInjective(order)
    <3>1. CASE id \in ToSet(rest)
      BY <2>3, <2>5, <2>7, <3>1
    <3>2. CASE id \notin ToSet(rest)
      <4>1. /\ Append(rest, id) \in Seq(Identity)
            /\ Len(Append(rest, id)) = Len(rest) + 1
            /\ ToSet(Append(rest, id)) = ToSet(rest) \cup {id}
            /\ IsInjective(Append(rest, id))
        BY <2>7, <3>2, Appended
      <4>2. order = Append(rest, id)
        BY <3>2
      <4>3. Len(order) = Len(s.order)
        BY <2>5, <2>7, <4>1, <4>2
      <4>4. QED
        BY <2>3, <2>5, <2>7, <4>1, <4>2, <4>3
    <3>3. QED
      BY <3>1, <3>2
  <2> HIDE DEF order
  <2>9. /\ t = [records |-> t.records, order |-> t.order, active |-> t.active,
                hydration |-> t.hydration]
        /\ t.records = records /\ t.order = order /\ t.active = id
        /\ t.hydration = s.hydration
    BY <2>1
  <2> HIDE DEF v
  <2>10. WellFormed(t)
    <3>1. DOMAIN records \subseteq Identity /\ id \in DOMAIN records
      BY <1>1, <2>3 DEF WellFormed
    <3>2. s.hydration \in {"free", "armed", "consumed"}
      BY <1>1 DEF WellFormed
    <3>3. QED
      BY <2>4, <2>8, <2>9, <3>1, <3>2 DEF WellFormed
  <2>11. r = Active(s)
    BY DEF Active
  <2> HIDE DEF r
  <2>12. RecordsFit(t)
    BY <2>3, <2>9, <2>11 DEF RecordsFit, Sound
  <2>13. FirstIsAlone(t)
    BY <2>3, <2>9, <2>11 DEF FirstIsAlone, Active
  <2>14. OneHydrates(t)
    <3>1. r = s.records[k]
      BY DEF r
    <3>2. QED
      BY <1>1, <2>3, <2>9, <3>1 DEF OneHydrates, Sound
  <2>15. QED
    BY <2>3, <2>9, <2>10, <2>11, <2>12, <2>13, <2>14 DEF Sound
<1>4. QED
  BY <1>2, <1>3

-----------------------------------------------------------------------------
(* Names: a merge knows all that its first part knows, and all that its       *)
(* second part knows when they are compatible.                              *)
LEMMA Merged ==
  ASSUME NEW k \in Identity, NEW id \in Identity
  PROVE  /\ Merge(k, id) \in Identity
         /\ Refines(k, Merge(k, id))
         /\ k.tool # None => Merge(k, id).tool # None
         /\ SameIdentity(k, id) => Refines(id, Merge(k, id))
<1>1. /\ DOMAIN k = {"tool", "request", "session"}
      /\ DOMAIN id = {"tool", "request", "session"}
  BY DEF Identity
<1>2. Merge(k, id) = [tool |-> OrElse(k.tool, id.tool),
                      request |-> OrElse(k.request, id.request),
                      session |-> OrElse(k.session, id.session)]
  BY <1>1 DEF Merge, Identity
<1>3. Merge(k, id) \in Identity
  BY <1>2 DEF Identity, OrElse
<1>4. Refines(k, Merge(k, id)) /\ (k.tool # None => Merge(k, id).tool # None)
  BY <1>1, <1>2 DEF Refines, OrElse
<1>5. SameIdentity(k, id) => Refines(id, Merge(k, id))
  BY <1>1, <1>2 DEF Refines, OrElse, SameIdentity, Agree
<1>6. QED
  BY <1>3, <1>4, <1>5

(* The record of a known call fits any name that knows more than its own.   *)
LEMMA FitsMore ==
  ASSUME NEW r \in Record, NEW k \in Identity, NEW id \in Identity,
         Fits(k, r), r.trusted, Refines(k, id)
  PROVE  Fits(id, r)
<1>1. ASSUME Bound(r.output)
      PROVE  Refines(r.output.id, id)
  <2>1. r.output.id \in Identity
    BY <1>1 DEF Record, Origins, Bound, BoundTo, Nothing, Tag, Bindings
  <2>2. Refines(r.output.id, k)
    BY <1>1 DEF Fits
  <2>3. /\ DOMAIN r.output.id = {"tool", "request", "session"}
        /\ DOMAIN k = {"tool", "request", "session"}
    BY <2>1 DEF Identity
  <2>4. QED
    BY <2>2, <2>3 DEF Refines
<1>2. QED
  BY <1>1 DEF Fits

(* What the _meta of a result can be.                                       *)
LEMMA MetaOf ==
  ASSUME NEW meta \in Metas
  PROVE  /\ meta.id \in Identity
         /\ Bound(meta) => /\ meta = BoundTo(meta.id) /\ meta.id \in Bindings
                           /\ meta.id.tool # None
         /\ Bound(meta) \/ Unbound(meta) \/ meta.kind = "invalid"
         /\ Origin(meta) \in Origins
         /\ ~Bound(meta) => Origin(meta) = Tag("unbound") /\ ~Bound(Origin(meta))
         /\ Bound(meta) => Origin(meta) # Tag("unbound") /\ Origin(meta).id = meta.id
<1>1. Anonymous \in Identity
  BY DEF Anonymous, Identity
<1>2. CASE meta \in {Tag(kind) : kind \in {"none", "plain", "invalid"}}
  <2>1. meta.id = Anonymous /\ meta.kind \in {"none", "plain", "invalid"}
    BY <1>2 DEF Tag
  <2>2. QED
    BY <1>1, <2>1 DEF Bound, Unbound, Origin, Origins, Tag
<1>3. CASE \E id \in Bindings : meta = BoundTo(id)
  BY <1>3 DEF BoundTo, Bindings, Bound, Unbound, Origin, Origins, Tag
<1>4. QED
  BY <1>2, <1>3 DEF Metas

-----------------------------------------------------------------------------
(* The handlers of the store.                                              *)

(* markMalformed.                                                          *)
LEMMA MarkMalformedKeeps ==
  ASSUME NEW s, Sound(s), NEW k \in DOMAIN s.records, s.records[k].status \notin Terminal,
         NEW t, t = MarkMalformed(s, k)
  PROVE  Sound(t)
<1> DEFINE r == s.records[k]
           q == [r EXCEPT !.status = "malformed", !.output = Nothing]
<1>1. CASE r.status = "timed_out"
  BY <1>1 DEF MarkMalformed
<1>2. CASE r.status # "timed_out"
  <2>1. r \in Record /\ Fits(k, r)
    BY RecordOf
  <2>2. /\ q \in Record /\ q.status = "malformed" /\ q.output = Nothing
        /\ q.hydrates = r.hydrates /\ q.timer = r.timer /\ q.trusted = r.trusted
    BY <2>1 DEF Record, Statuses, Origins
  <2>3. r.status \in Pending
    BY <1>2, <2>1 DEF Record, Statuses, Pending, Terminal
  <2>4. Fits(k, q)
    BY <2>1, <2>2, <2>3 DEF Fits, Pending, Nothing, Tag, Bound
  <2>5. q.output # Tag("unbound") /\ r.status # "ready"
    BY <2>2 DEF Nothing, Tag, Terminal
  <2>6. t = SetRecord(s, k, q)
    BY <1>2 DEF MarkMalformed
  <2> HIDE DEF q
  <2>7. QED
    BY <2>2, <2>4, <2>5, <2>6, PutKeeps
<1>3. QED
  BY <1>1, <1>2

(* An output at a record whose name it bears, or at the one it is spent on.  *)
LEMMA ReadyKeeps ==
  ASSUME NEW s, Sound(s), NEW k \in DOMAIN s.records, s.records[k].status \notin Terminal,
         NEW meta \in Metas, NEW unbound \in BOOLEAN,
         NEW session \in WidgetSessions \cup {None},
         Bound(meta) => Refines(meta.id, k),
         ~Bound(meta) => s.records[k].hydrates /\ s.hydration = "consumed" /\ unbound,
         NEW q, q = [Ready(s.records[k], meta) EXCEPT !.acceptedUnbound = unbound,
                                                     !.legacySession = session],
         NEW t, t = SetRecord(s, k, q)
  PROVE  Sound(t)
<1> DEFINE r == s.records[k]
<1>1. r \in Record /\ Fits(k, r)
  BY RecordOf
<1>2. /\ q \in Record /\ q.status = "ready" /\ q.output = Origin(meta) /\ q.timer = FALSE
      /\ q.hydrates = r.hydrates /\ q.trusted = r.trusted /\ q.acceptedUnbound = unbound
  <2>1. Origin(meta) \in Origins /\ (meta.kind # "none") \in BOOLEAN
    BY MetaOf
  <2>2. QED
    BY <1>1, <2>1 DEF Ready, Record, Statuses
<1>3. Fits(k, q)
  <2>1. Bound(meta) => k # Anonymous
    <3>1. Bound(meta) => meta.id.tool # None /\ "tool" \in DOMAIN meta.id
      BY MetaOf DEF Identity
    <3>2. QED
      BY <3>1 DEF Refines, Anonymous
  <2>2. ~r.trusted => k = Anonymous
    BY <1>1 DEF Fits
  <2>3. ~q.trusted => k = Anonymous /\ q.acceptedUnbound
    BY <1>2, <2>1, <2>2
  <2>4. Bound(q.output) => Refines(q.output.id, k)
    BY <1>2, MetaOf
  <2>5. QED
    BY <1>2, <2>3, <2>4 DEF Fits, Pending
<1>4. q.output = Tag("unbound") => q.hydrates /\ s.hydration = "consumed"
  BY <1>2, MetaOf
<1>5. QED
  BY <1>2, <1>3, <1>4, PutKeeps

(* Likewise for an output with a binding, which leaves the rest alone.        *)
LEMMA BoundReadyKeeps ==
  ASSUME NEW s, Sound(s), NEW k \in DOMAIN s.records, s.records[k].status \notin Terminal,
         NEW meta \in Metas, Bound(meta), Refines(meta.id, k),
         NEW t, t = SetRecord(s, k, Ready(s.records[k], meta))
  PROVE  Sound(t)
<1> DEFINE r == s.records[k]
           q == [Ready(r, meta) EXCEPT !.acceptedUnbound = r.acceptedUnbound,
                                       !.legacySession = r.legacySession]
<1>1. r \in Record
  BY RecordOf
<1>2. q = Ready(r, meta)
  BY <1>1 DEF Ready, Record
<1>3. r.acceptedUnbound \in BOOLEAN /\ r.legacySession \in WidgetSessions \cup {None}
  BY <1>1 DEF Record
<1>4. \E u \in BOOLEAN, w \in WidgetSessions \cup {None} :
        Ready(r, meta) = [Ready(r, meta) EXCEPT !.acceptedUnbound = u, !.legacySession = w]
  BY <1>2, <1>3
<1>5. PICK u \in BOOLEAN, w \in WidgetSessions \cup {None} :
        Ready(r, meta) = [Ready(r, meta) EXCEPT !.acceptedUnbound = u, !.legacySession = w]
  BY <1>4
<1>6. QED
  BY <1>5, ReadyKeeps

(* stageBoundResult: beside an unbound output that nobody has claimed.        *)
LEMMA StageBoundKeeps ==
  ASSUME NEW s, Sound(s), Active(s).status = "ready", NEW meta \in Metas, Bound(meta),
         NEW usable \in BOOLEAN, NEW t, t = StageBoundResult(s, meta, usable)
  PROVE  Sound(t)
<1> DEFINE u == GetOrCreate(s, meta.id)
<1>1. meta.id \in Identity
  BY MetaOf
<1>2. Sound(u) /\ meta.id \in DOMAIN u.records
  BY <1>1, StagedKeeps
<1> HIDE DEF u
<1>3. t = IF u.records[meta.id].status \in Terminal THEN u
          ELSE IF usable THEN SetRecord(u, meta.id, Ready(u.records[meta.id], meta))
          ELSE MarkMalformed(u, meta.id)
  BY DEF StageBoundResult, u
<1>4. Refines(meta.id, meta.id)
  BY DEF Refines
<1>5. CASE u.records[meta.id].status \in Terminal
  BY <1>2, <1>3, <1>5
<1>6. CASE u.records[meta.id].status \notin Terminal /\ usable
  BY <1>2, <1>3, <1>4, <1>6, BoundReadyKeeps
<1>7. CASE u.records[meta.id].status \notin Terminal /\ ~usable
  BY <1>2, <1>3, <1>7, MarkMalformedKeeps
<1>8. QED
  BY <1>5, <1>6, <1>7

(* enrichReadyMetadata.                                                    *)
LEMMA EnrichKeeps ==
  ASSUME NEW s, Sound(s), NEW meta \in Metas, NEW t, t = EnrichReady(s, meta)
  PROVE  Sound(t)
<1> DEFINE r == Active(s)
           rest == [Anonymous EXCEPT !.session = r.legacySession]
           id == Merge(Merge(s.active, meta.id), rest)
           may == /\ r.status = "ready" /\ ~r.metadata /\ r.trusted
                  /\ Bound(meta) /\ SameIdentity(s.active, meta.id)
           q == [r EXCEPT !.metadata = TRUE]
           u == Rekey(s, s.active, id)
<1>1. s.active \in DOMAIN s.records /\ s.active \in Identity
  BY DEF Sound, WellFormed
<1>2. r \in Record /\ Fits(s.active, r)
  BY <1>1, RecordOf DEF Active
<1>3. rest \in Identity
  BY <1>2 DEF Record, Anonymous, Identity
<1>4. meta.id \in Identity
  BY MetaOf
<1> HIDE DEF rest
<1>5. Merge(s.active, meta.id) \in Identity /\ Refines(s.active, Merge(s.active, meta.id))
  BY <1>1, <1>4, Merged
<1>6. id \in Identity /\ Refines(Merge(s.active, meta.id), id)
  BY <1>3, <1>5, Merged
<1>7. r.trusted => Fits(Merge(s.active, meta.id), r)
  BY <1>1, <1>2, <1>5, FitsMore
<1>8. r.trusted => Fits(id, r)
  BY <1>2, <1>5, <1>6, <1>7, FitsMore
<1> HIDE DEF id
<1>9. t = IF may THEN SetRecord(u, id, q) ELSE s
  BY DEF EnrichReady, id, rest
<1>10. CASE may
  <2>1. Sound(u) /\ u.active = id /\ id \in DOMAIN u.records /\ u.records[id] = r
    BY <1>6, <1>8, <1>10, RekeyKeeps
  <2>2. /\ q \in Record /\ q.hydrates = r.hydrates /\ q.output = r.output
        /\ q.timer = r.timer /\ q.status = r.status /\ q.trusted = r.trusted
    BY <1>2 DEF Record
  <2>3. Fits(id, q)
    BY <1>8, <1>10, <2>2 DEF Fits
  <2>4. q.output = Tag("unbound") => q.hydrates /\ u.hydration = "consumed"
    BY <2>1, <2>2, RecordOf
  <2>5. t = SetRecord(u, id, q) /\ q.trusted
    BY <1>9, <1>10, <2>2
  <2> HIDE DEF u, q, r
  <2>6. QED
    BY <2>1, <2>2, <2>3, <2>4, <2>5, PutKeeps
<1>11. CASE ~may
  BY <1>9, <1>11
<1>12. QED
  BY <1>10, <1>11

(* acceptInput, which leaves the unbound snapshot where it is.               *)
LEMMA AcceptInputKeeps ==
  ASSUME NEW s, Sound(s), NEW t, t = AcceptInput(s)
  PROVE  /\ Sound(t)
         /\ t.active = s.active /\ t.hydration = s.hydration
         /\ Active(t).hydrates = Active(s).hydrates
<1> DEFINE r == Active(s)
           q == [r EXCEPT !.input = TRUE]
           p == [r EXCEPT !.input = TRUE, !.status = "running"]
<1>1. /\ s.active \in DOMAIN s.records /\ r = s.records[s.active]
      /\ r \in Record /\ Fits(s.active, r)
      /\ r.output = Tag("unbound") => r.hydrates /\ s.hydration = "consumed"
  <2>1. s.active \in DOMAIN s.records
    BY DEF Sound, WellFormed
  <2>2. QED
    BY <2>1, RecordOf DEF Active
<1>2. CASE r.status \in Terminal
  BY <1>2 DEF AcceptInput
<1>3. CASE r.status \notin Terminal /\ r.status = "timed_out"
  <2>1. /\ q \in Record /\ q.status = r.status /\ q.output = r.output
        /\ q.hydrates = r.hydrates /\ q.timer = r.timer /\ q.trusted = r.trusted
    BY <1>1 DEF Record
  <2>2. Fits(s.active, q)
    BY <1>1, <2>1 DEF Fits
  <2>3. t = SetRecord(s, s.active, q)
    BY <1>3 DEF AcceptInput
  <2> HIDE DEF q, r
  <2>4. Sound(t) /\ t.active = s.active /\ t.hydration = s.hydration
        /\ t.records[s.active] = q
    BY <1>1, <2>1, <2>2, <2>3, PutKeeps
  <2>5. QED
    BY <2>1, <2>4 DEF Active, r
<1>4. CASE r.status \notin Terminal /\ r.status # "timed_out"
  <2>1. /\ p \in Record /\ p.status = "running" /\ p.output = r.output
        /\ p.hydrates = r.hydrates /\ p.timer = r.timer /\ p.trusted = r.trusted
    BY <1>1 DEF Record, Statuses
  <2>2. r.status \in Pending /\ r.status # "ready"
    BY <1>1, <1>4 DEF Record, Statuses, Pending, Terminal
  <2>3. Fits(s.active, p)
    BY <1>1, <2>1, <2>2 DEF Fits, Pending
  <2>4. t = SetRecord(s, s.active, p)
    BY <1>4 DEF AcceptInput
  <2> HIDE DEF p, r
  <2>5. Sound(t) /\ t.active = s.active /\ t.hydration = s.hydration
        /\ t.records[s.active] = p
    BY <1>1, <2>1, <2>2, <2>3, <2>4, PutKeeps
  <2>6. QED
    BY <2>1, <2>5 DEF Active, r
<1>5. QED
  BY <1>2, <1>3, <1>4

(* The end of acceptResult.                                                *)
LEMMA AttachKeeps ==
  ASSUME NEW s, Sound(s), Active(s).status \notin Terminal,
         NEW meta \in Metas, NEW usable \in BOOLEAN,
         NEW session \in WidgetSessions \cup {None},
         Bound(meta) => Refines(meta.id, s.active),
         ~Bound(meta) => Active(s).hydrates /\ s.hydration = "consumed",
         NEW t, t = Attach(s, meta, usable, session)
  PROVE  Sound(t)
<1>1. s.active \in DOMAIN s.records /\ Active(s) = s.records[s.active]
  BY DEF Sound, WellFormed, Active
<1>2. CASE ~usable
  BY <1>1, <1>2, MarkMalformedKeeps DEF Attach
<1>3. CASE usable /\ Bound(meta)
  <2>1. t = SetRecord(s, s.active, Ready(s.records[s.active], meta))
    BY <1>1, <1>3 DEF Attach
  <2>2. QED
    BY <1>1, <1>3, <2>1, BoundReadyKeeps
<1>4. CASE usable /\ ~Bound(meta)
  <2>1. t = SetRecord(s, s.active, [Ready(s.records[s.active], meta) EXCEPT
                                      !.acceptedUnbound = TRUE, !.legacySession = session])
    BY <1>1, <1>4 DEF Attach
  <2>2. \E u \in BOOLEAN :
          u /\ t = SetRecord(s, s.active, [Ready(s.records[s.active], meta) EXCEPT
                                             !.acceptedUnbound = u, !.legacySession = session])
    BY <2>1
  <2>3. PICK u \in BOOLEAN :
          u /\ t = SetRecord(s, s.active, [Ready(s.records[s.active], meta) EXCEPT
                                             !.acceptedUnbound = u, !.legacySession = session])
    BY <2>2
  <2>4. QED
    BY <1>1, <1>4, <2>3, ReadyKeeps
<1>5. QED
  BY <1>2, <1>3, <1>4

(* acceptResult, given that the snapshot was spent before it was permitted.   *)
LEMMA AcceptResultKeeps ==
  ASSUME NEW s, Sound(s), NEW source, NEW meta \in Metas, NEW usable \in BOOLEAN,
         NEW allow \in BOOLEAN, NEW session \in WidgetSessions \cup {None},
         allow => Active(s).hydrates /\ s.hydration = "consumed",
         NEW t, t = AcceptResult(s, source, meta, usable, allow, session)
  PROVE  Sound(t)
<1> DEFINE r == Active(s)
<1>1. /\ s.active \in DOMAIN s.records /\ s.active \in Identity /\ r = s.records[s.active]
      /\ r \in Record /\ Fits(s.active, r)
  <2>1. s.active \in DOMAIN s.records
    BY DEF Sound, WellFormed
  <2>2. QED
    BY <2>1, RecordOf DEF Active
<1>2. CASE r.status = "cancelled"
  BY <1>2 DEF AcceptResult, Terminal
<1>3. CASE r.status = "ready"
  <2>1. t = IF source = "mcp-apps" /\ Unclaimed(r) /\ Bound(meta)
            THEN StageBoundResult(s, meta, usable) ELSE EnrichReady(s, meta)
    BY <1>3 DEF AcceptResult, Terminal
  <2>2. QED
    BY <1>3, <2>1, StageBoundKeeps, EnrichKeeps
<1>4. CASE r.status \notin Terminal /\ Bound(meta)
  <2> DEFINE u == Activate(s, meta.id)
             id == Merge(s.active, meta.id)
             w == Rekey(s, s.active, id)
  <2>1. t = IF ~r.trusted THEN Attach(u, meta, usable, session)
            ELSE IF SameIdentity(s.active, meta.id) THEN Attach(w, meta, usable, session)
            ELSE s
    BY <1>4 DEF AcceptResult, Unbound, Bound, Terminal
  <2>2. meta.id \in Identity /\ meta.id.tool # None
    BY <1>4, MetaOf
  <2>3. CASE ~r.trusted
    <3>1. r.status # "ready"
      BY <1>4 DEF Terminal
    <3>2. Sound(u) /\ u.active = meta.id /\ Active(u).status \notin Terminal
      BY <2>2, <2>3, <3>1, ActivateKeeps
    <3>3. Refines(meta.id, meta.id)
      BY DEF Refines
    <3> HIDE DEF u
    <3>4. QED
      BY <1>4, <2>1, <2>3, <3>2, <3>3, AttachKeeps
  <2>4. CASE r.trusted /\ SameIdentity(s.active, meta.id)
    <3>1. id \in Identity /\ Refines(s.active, id) /\ Refines(meta.id, id)
      BY <1>1, <2>2, <2>4, Merged
    <3>2. Fits(id, r)
      BY <1>1, <2>4, <3>1, FitsMore
    <3> HIDE DEF id
    <3>3. Sound(w) /\ w.active = id /\ w.records[id] = r
      BY <2>4, <3>1, <3>2, RekeyKeeps
    <3>4. Active(w).status \notin Terminal
      BY <1>4, <3>3 DEF Active
    <3> HIDE DEF w
    <3>5. QED
      BY <1>4, <2>1, <2>4, <3>1, <3>3, <3>4, AttachKeeps
  <2>5. QED
    BY <2>1, <2>3, <2>4
<1>5. CASE r.status \notin Terminal /\ meta.kind = "invalid"
  <2>1. t = MarkMalformed(s, s.active)
    BY <1>5 DEF AcceptResult, Unbound, Bound, Terminal
  <2>2. QED
    BY <1>1, <1>5, <2>1, MarkMalformedKeeps
<1>6. CASE r.status \notin Terminal /\ Unbound(meta)
  <2>1. ~Bound(meta)
    BY <1>6 DEF Unbound, Bound
  <2>2. t = IF source = "chatgpt" /\ allow THEN Attach(s, meta, usable, session)
            ELSE IF source = "chatgpt" /\ r.trusted THEN s
            ELSE MarkMalformed(s, s.active)
    BY <1>6, <2>1 DEF AcceptResult, Unbound, Terminal
  <2>3. allow => Sound(Attach(s, meta, usable, session))
    BY <1>6, <2>1, AttachKeeps
  <2>4. Sound(MarkMalformed(s, s.active))
    BY <1>1, <1>6, MarkMalformedKeeps
  <2>5. QED
    BY <2>2, <2>3, <2>4
<1>7. QED
  BY <1>2, <1>3, <1>4, <1>5, <1>6, MetaOf DEF Terminal

(* acceptMetadata.                                                         *)
LEMMA AcceptMetadataKeeps ==
  ASSUME NEW s, Sound(s), NEW meta \in Metas, NEW t, t = AcceptMetadata(s, meta)
  PROVE  Sound(t)
<1>1. CASE Unclaimed(Active(s)) /\ Bound(meta)
  <2>1. t = GetOrCreate(s, meta.id) /\ Active(s).status = "ready"
    BY <1>1 DEF AcceptMetadata, Unclaimed
  <2>2. QED
    BY <2>1, MetaOf, StagedKeeps
<1>2. CASE ~(Unclaimed(Active(s)) /\ Bound(meta))
  BY <1>2, EnrichKeeps DEF AcceptMetadata
<1>3. QED
  BY <1>1, <1>2

(* The first step of acceptChatGptGlobals.                                  *)
LEMMA AdoptKeeps ==
  ASSUME NEW s, Sound(s), NEW meta \in Metas, NEW session \in WidgetSessions \cup {None},
         NEW t, t = AdoptBinding(s, meta, session)
  PROVE  Sound(t)
<1>1. Named(meta, session) \in Identity
  BY MetaOf DEF Named, Identity, OrElse
<1>2. Sound(Activate(s, Named(meta, session)))
  BY <1>1, ActivateKeeps
<1>3. QED
  BY <1>2 DEF AdoptBinding

(* The second: the snapshot is free, so no record is armed for it yet.        *)
LEMMA ArmKeeps ==
  ASSUME NEW s, Sound(s), NEW meta \in Metas, NEW session \in WidgetSessions \cup {None},
         NEW allow \in BOOLEAN, NEW t, t = ArmHydration(s, meta, session, allow)
  PROVE  Sound(t)
<1> DEFINE r == Active(s)
           u == [s EXCEPT !.hydration = "armed"]
           q == [r EXCEPT !.hydrates = TRUE, !.legacySession = session]
<1>1. CASE t = s
  BY <1>1
<1>2. CASE t # s
  <2>1. s.hydration = "free" /\ r.status = "waiting" /\ t = SetRecord(u, s.active, q)
    BY <1>2 DEF ArmHydration
  <2>2. /\ s.active \in DOMAIN s.records /\ r = s.records[s.active]
        /\ r \in Record /\ Fits(s.active, r)
        /\ r.output # Tag("unbound")
    <3>1. s.active \in DOMAIN s.records
      BY DEF Sound, WellFormed
    <3>2. QED
      BY <2>1, <3>1, RecordOf DEF Active
  <2>3. Sound(u) /\ u.active = s.active /\ u.hydration = "armed" /\ u.records = s.records
    BY <2>1, SpendKeeps
  <2>4. \A j \in DOMAIN s.records : ~s.records[j].hydrates
    BY <2>1 DEF Sound, OneHydrates
  <2>5. /\ q \in Record /\ q.status = r.status /\ q.output = r.output
        /\ q.timer = r.timer /\ q.trusted = r.trusted
    BY <2>2 DEF Record
  <2>6. Fits(s.active, q)
    BY <2>2, <2>5 DEF Fits
  <2> HIDE DEF q, r, u
  <2>7. QED
    BY <2>1, <2>2, <2>3, <2>4, <2>5, <2>6, PutKeeps
<1>3. QED
  BY <1>1, <1>2

(* acceptChatGptGlobals: an output is attached when the snapshot was armed     *)
(* for the record on the screen, and has been spent by then.                *)
LEMMA AcceptGlobalsKeeps ==
  ASSUME NEW s, Sound(s), NEW input \in BOOLEAN, NEW output \in BOOLEAN, NEW meta \in Metas,
         NEW given \in WidgetSessions \cup {None}, NEW allow \in BOOLEAN,
         NEW t, t = AcceptGlobals(s, input, output, meta, given, allow)
  PROVE  Sound(t)
<1> DEFINE session == GlobalSession(meta, given)
           adopted == AdoptBinding(s, meta, session)
           armed == ArmHydration(adopted, meta, session, allow)
           attach == MayAttachUnbound(armed, output, meta, session)
           fed == IF input /\ MayTakeInput(armed, output, meta, session, allow)
                  THEN AcceptInput(armed) ELSE armed
           spent == IF attach THEN [fed EXCEPT !.hydration = "consumed"] ELSE fed
<1>1. session \in WidgetSessions \cup {None}
  BY MetaOf DEF GlobalSession, OrElse, Identity
<1>2. t = IF output THEN AcceptResult(spent, "chatgpt", meta, TRUE, attach, session)
          ELSE IF meta.kind # "none" THEN AcceptMetadata(spent, meta)
          ELSE spent
  BY DEF AcceptGlobals
<1> HIDE DEF session
<1>3. Sound(adopted)
  BY <1>1, AdoptKeeps
<1> HIDE DEF adopted
<1>4. Sound(armed)
  BY <1>1, <1>3, ArmKeeps
<1> HIDE DEF armed
<1>5. /\ Sound(fed) /\ fed.active = armed.active
      /\ Active(fed).hydrates = Active(armed).hydrates
  BY <1>4, AcceptInputKeeps
<1>6. attach \in BOOLEAN /\ (attach => Active(armed).hydrates)
  BY DEF MayAttachUnbound, HydrationAvailable
<1> HIDE DEF fed, attach
<1>7. Sound(spent) /\ (attach => Active(spent).hydrates /\ spent.hydration = "consumed")
  <2>1. CASE attach
    <3>1. spent = [fed EXCEPT !.hydration = "consumed"]
      BY <2>1
    <3> HIDE DEF spent
    <3>2. Sound(spent) /\ spent.active = fed.active /\ spent.hydration = "consumed"
          /\ spent.records = fed.records
      BY <1>5, <3>1, SpendKeeps
    <3>3. QED
      BY <1>5, <1>6, <2>1, <3>2 DEF Active
  <2>2. CASE ~attach
    BY <1>5, <2>2
  <2>3. QED
    BY <2>1, <2>2
<1> HIDE DEF spent
<1>8. CASE output
  <2>1. t = AcceptResult(spent, "chatgpt", meta, TRUE, attach, session)
    BY <1>2, <1>8
  <2>2. \E usable \in BOOLEAN :
          t = AcceptResult(spent, "chatgpt", meta, usable, attach, session)
    BY <2>1
  <2>3. PICK usable \in BOOLEAN :
          t = AcceptResult(spent, "chatgpt", meta, usable, attach, session)
    BY <2>2
  <2>4. QED
    BY <1>1, <1>6, <1>7, <2>3, AcceptResultKeeps
<1>9. CASE ~output
  BY <1>2, <1>7, <1>9, AcceptMetadataKeeps
<1>10. QED
  BY <1>8, <1>9

(* activateHostContext: a call staged or seen before comes on the screen.     *)
LEMMA ReturnKeeps ==
  ASSUME NEW s, Sound(s), NEW k \in DOMAIN s.records, s.records[k].trusted,
         NEW id \in Identity,
         NEW t, t = Rekey([s EXCEPT !.active = k], k, Merge(k, id))
  PROVE  /\ Sound(t) /\ t.active = Merge(k, id)
         /\ \A j \in DOMAIN s.records \ {k, Merge(k, id)} :
              j \in DOMAIN t.records /\ t.records[j] = s.records[j]
<1> DEFINE u == [s EXCEPT !.active = k]
           to == Merge(k, id)
<1>1. Sound(u) /\ u.active = k /\ u.records = s.records
  BY SwitchKeeps
<1>2. k \in Identity /\ s.records[k] \in Record /\ Fits(k, s.records[k])
  BY RecordOf
<1>3. to \in Identity /\ Refines(k, to)
  BY <1>2, Merged
<1>4. t = Rekey(u, k, to)
  OBVIOUS
<1> HIDE DEF u, to
<1>5. Fits(to, s.records[k])
  BY <1>2, <1>3, FitsMore
<1>6. Active(u) = s.records[k]
  BY <1>1 DEF Active
<1>7. /\ Sound(t) /\ t.active = to
      /\ \A j \in DOMAIN u.records \ {u.active, to} :
           j \in DOMAIN t.records /\ t.records[j] = u.records[j]
  <2>1. Active(u).trusted /\ Fits(to, Active(u)) /\ t = Rekey(u, u.active, to)
    BY <1>1, <1>4, <1>5, <1>6
  <2>2. Sound(t) /\ t.active = to
    BY <1>1, <1>3, <2>1, RekeyKeeps
  <2>3. \A j \in DOMAIN u.records \ {u.active, to} :
          j \in DOMAIN t.records /\ t.records[j] = u.records[j]
    BY <1>1, <1>3, <2>1, RekeyKeeps
  <2>4. QED
    BY <2>2, <2>3
<1>8. QED
  BY <1>1, <1>7 DEF to

(* activateHostContext: an anonymous record is claimed.  It has no bound       *)
(* output yet, so every name fits it.                                      *)
LEMMA ClaimKeeps ==
  ASSUME NEW s, Sound(s), NEW id \in Contexts, Claimable(s, id),
         NEW t, t = Rekey(SetRecord(s, s.active, [Active(s) EXCEPT !.trusted = TRUE]),
                          s.active, ClaimedAs(Active(s), id))
  PROVE  Sound(t) /\ Shown(s, t)
<1> DEFINE r == Active(s)
           q == [r EXCEPT !.trusted = TRUE]
           u == SetRecord(s, s.active, q)
           to == ClaimedAs(r, id)
<1>1. /\ s.active \in DOMAIN s.records /\ s.active \in Identity /\ r = s.records[s.active]
      /\ r \in Record /\ Fits(s.active, r) /\ ~r.trusted
      /\ r.output = Tag("unbound") => r.hydrates /\ s.hydration = "consumed"
  <2>1. s.active \in DOMAIN s.records
    BY DEF Sound, WellFormed
  <2>2. QED
    BY <2>1, RecordOf DEF Active, Claimable
<1>2. s.active = Anonymous
  BY <1>1 DEF Fits
<1>3. /\ q \in Record /\ q.trusted /\ q.status = r.status /\ q.output = r.output
      /\ q.timer = r.timer /\ q.hydrates = r.hydrates
  BY <1>1 DEF Record
<1>4. Fits(s.active, q)
  BY <1>1, <1>3 DEF Fits
<1>5. Sound(u) /\ u.active = s.active /\ Active(u) = q
  <2> HIDE DEF q, r
  <2>1. Sound(u) /\ u.active = s.active /\ u.records[s.active] = q
    BY <1>1, <1>3, <1>4, PutKeeps
  <2>2. QED
    BY <2>1 DEF Active
<1>6. ~Bound(r.output)
  <2>1. SUFFICES ASSUME Bound(r.output)
                 PROVE  FALSE
    OBVIOUS
  <2>2. r.output.id \in Bindings
    BY <1>1, <2>1 DEF Record, Origins, Bound, BoundTo, Nothing, Tag
  <2>3. Refines(r.output.id, s.active)
    BY <1>1, <2>1 DEF Fits
  <2>4. "tool" \in DOMAIN r.output.id /\ r.output.id.tool # None
    BY <2>2 DEF Bindings, Identity
  <2>5. QED
    BY <1>2, <2>3, <2>4 DEF Refines, Anonymous
<1>7. Fits(to, q)
  BY <1>1, <1>3, <1>6 DEF Fits
<1>8. to \in Identity
  BY <1>1 DEF ClaimedAs, Contexts, Identity, OrElse, Record
<1>9. t = Rekey(u, s.active, to)
  OBVIOUS
<1> HIDE DEF u, to, q
<1>10. Sound(t) /\ t.active = to /\ t.records[to] = q
  BY <1>3, <1>5, <1>7, <1>8, <1>9, RekeyKeeps
<1>11. Refines(s.active, to)
  BY <1>2 DEF Refines, Anonymous
<1>12. QED
  BY <1>3, <1>10, <1>11 DEF Shown, SameOutcome, Active

(* activateHostContext.                                                    *)
LEMMA HostContextKeeps ==
  ASSUME NEW s, Sound(s), NEW id \in Contexts, NEW t, t = ActivateHostContext(s, id)
  PROVE  Sound(t)
<1> DEFINE r == Active(s)
           staged == Staged(s, id)
           k == CHOOSE j \in staged : TRUE
<1>1. s.active \in Identity /\ r \in Record /\ Fits(s.active, r)
  BY RecordOf DEF Sound, WellFormed, Active
<1>2. id \in Identity /\ id.tool # None
  BY DEF Contexts
<1>3. CASE r.trusted /\ t = Rekey(s, s.active, Merge(s.active, id))
  <2> DEFINE to == Merge(s.active, id)
  <2>1. to \in Identity /\ Refines(s.active, to)
    BY <1>1, <1>2, Merged
  <2> HIDE DEF to
  <2>2. Fits(to, r)
    BY <1>1, <1>3, <2>1, FitsMore
  <2>3. t = Rekey(s, s.active, to)
    BY <1>3 DEF to
  <2>4. QED
    BY <1>3, <2>1, <2>2, <2>3, RekeyKeeps
<1>4. CASE Cardinality(staged) = 1 /\ t = Rekey([s EXCEPT !.active = k], k, Merge(k, id))
  <2>1. staged # {} /\ \A j \in staged : j \in DOMAIN s.records /\ s.records[j].trusted
    BY <1>4, FS_EmptySet DEF Staged
  <2>2. k \in DOMAIN s.records /\ s.records[k].trusted
    BY <2>1
  <2> HIDE DEF k
  <2>3. QED
    BY <1>2, <1>4, <2>2, ReturnKeeps
<1>5. CASE /\ Claimable(s, id)
           /\ t = Rekey(SetRecord(s, s.active, [r EXCEPT !.trusted = TRUE]), s.active,
                        ClaimedAs(r, id))
  BY <1>5, ClaimKeeps
<1>6. CASE t = s \/ t = Activate(s, id)
  BY <1>2, <1>6, ActivateKeeps
<1>7. QED
  BY <1>3, <1>4, <1>5, <1>6 DEF ActivateHostContext

(* A record ends without an output, and its timer with it: cancel, and the    *)
(* timer itself.                                                           *)
LEMMA EndedKeeps ==
  ASSUME NEW s, Sound(s), NEW k \in DOMAIN s.records, s.records[k].status \notin Terminal,
         NEW status \in {"cancelled", "timed_out"},
         NEW q, q = [s.records[k] EXCEPT !.status = status, !.output = Nothing,
                                         !.timer = FALSE],
         NEW t, t = SetRecord(s, k, q)
  PROVE  Sound(t)
<1> DEFINE r == s.records[k]
<1>1. r \in Record
  BY RecordOf
<1>2. /\ q \in Record /\ q.status = status /\ q.output = Nothing /\ q.timer = FALSE
      /\ q.hydrates = r.hydrates /\ q.trusted = r.trusted
  BY <1>1 DEF Record, Statuses, Origins
<1>3. Fits(k, q)
  <2>1. Fits(k, r)
    BY RecordOf
  <2>2. QED
    BY <1>2, <2>1 DEF Fits, Pending, Nothing, Tag, Bound
<1>4. q.output # Tag("unbound") /\ r.status # "ready"
  BY <1>2 DEF Nothing, Tag, Terminal
<1>5. QED
  BY <1>2, <1>3, <1>4, PutKeeps

(* cancel.                                                                 *)
LEMMA CancelledKeeps ==
  ASSUME NEW s, Sound(s), NEW t, t = Cancelled(s)
  PROVE  Sound(t)
<1>1. s.active \in DOMAIN s.records /\ Active(s) = s.records[s.active]
  BY DEF Sound, WellFormed, Active
<1>2. CASE Active(s).status \in Terminal
  BY <1>2 DEF Cancelled
<1>3. CASE Active(s).status \notin Terminal
  <2> DEFINE q == [s.records[s.active] EXCEPT !.status = "cancelled", !.output = Nothing,
                                              !.timer = FALSE]
  <2>1. t = SetRecord(s, s.active, q)
    BY <1>1, <1>3 DEF Cancelled
  <2>2. QED
    BY <1>1, <1>3, <2>1, EndedKeeps
<1>4. QED
  BY <1>2, <1>3

(* Only the timer of a call that still waits can run out.                    *)
LEMMA TimeoutKeeps ==
  ASSUME IInv, NEW k \in Identity, Timeout(k)
  PROVE  IInv'
<1> DEFINE q == [store.records[k] EXCEPT !.status = "timed_out", !.output = Nothing,
                                         !.timer = FALSE]
<1>1. /\ Sound(store) /\ k \in DOMAIN store.records /\ store.records[k].timer
      /\ store' = SetRecord(store, k, [store.records[k] EXCEPT
                             !.timer = FALSE, !.status = "timed_out", !.output = Nothing])
  BY DEF IInv, Timeout
<1>2. store.records[k] \in Record /\ store.records[k].status \notin Terminal
  BY <1>1, RecordOf DEF Fits, Pending, Terminal
<1>3. store' = SetRecord(store, k, q)
  <2>1. [store.records[k] EXCEPT !.timer = FALSE, !.status = "timed_out",
                                 !.output = Nothing] = q
    BY <1>2 DEF Record
  <2>2. QED
    BY <1>1, <2>1
<1>4. Sound(store')
  BY <1>1, <1>2, <1>3, EndedKeeps
<1>5. QED
  BY <1>4 DEF IInv

-----------------------------------------------------------------------------
(* A finished call on the screen.                                          *)

(* Nothing happens.                                                        *)
LEMMA SameShows ==
  ASSUME NEW s
  PROVE  Shown(s, s) /\ OutcomeKept(s, s)
BY DEF Shown, OutcomeKept, Refines, SameOutcome

(* enrichReadyMetadata completes its name and its metadata.                  *)
LEMMA EnrichShows ==
  ASSUME NEW s, Sound(s), NEW meta \in Metas, NEW t, t = EnrichReady(s, meta)
  PROVE  Shown(s, t)
<1> DEFINE r == Active(s)
           rest == [Anonymous EXCEPT !.session = r.legacySession]
           mid == Merge(s.active, meta.id)
           id == Merge(mid, rest)
           may == /\ r.status = "ready" /\ ~r.metadata /\ r.trusted
                  /\ Bound(meta) /\ SameIdentity(s.active, meta.id)
           q == [r EXCEPT !.metadata = TRUE]
           u == Rekey(s, s.active, id)
<1>1. s.active \in DOMAIN s.records /\ s.active \in Identity
  BY DEF Sound, WellFormed
<1>2. r \in Record /\ Fits(s.active, r)
  BY <1>1, RecordOf DEF Active
<1>3. rest \in Identity
  BY <1>2 DEF Record, Anonymous, Identity
<1>4. meta.id \in Identity
  BY MetaOf
<1> HIDE DEF rest
<1>5. mid \in Identity /\ Refines(s.active, mid)
  BY <1>1, <1>4, Merged
<1> HIDE DEF mid
<1>6. id \in Identity /\ Refines(mid, id)
  BY <1>3, <1>5, Merged
<1> HIDE DEF id
<1>7. Refines(s.active, id)
  <2>1. /\ DOMAIN s.active = {"tool", "request", "session"}
        /\ DOMAIN mid = {"tool", "request", "session"}
    BY <1>1, <1>5 DEF Identity
  <2>2. QED
    BY <1>5, <1>6, <2>1 DEF Refines
<1>8. t = IF may THEN SetRecord(u, id, q) ELSE s
  BY DEF EnrichReady, id, mid, rest
<1>9. CASE may
  <2>1. Fits(id, r)
    BY <1>1, <1>2, <1>6, <1>7, <1>9, FitsMore
  <2>2. Sound(u) /\ u.active = id /\ id \in DOMAIN u.records
    BY <1>6, <1>9, <2>1, RekeyKeeps
  <2> HIDE DEF u
  <2>3. t.active = id /\ Active(t) = q
    BY <1>8, <1>9, <2>2 DEF SetRecord, Active, Sound, WellFormed
  <2>4. q.status = r.status /\ q.output = r.output
    BY <1>2 DEF Record
  <2>5. QED
    BY <1>7, <2>3, <2>4 DEF Shown, SameOutcome
<1>10. CASE ~may
  BY <1>8, <1>10, SameShows
<1>11. QED
  BY <1>9, <1>10

(* getOrCreate and stageBoundResult leave an unclaimed output on the screen.  *)
LEMMA StagedShows ==
  ASSUME NEW s, Sound(s), Active(s).status = "ready", ~Active(s).trusted,
         NEW meta \in Metas, Bound(meta), NEW usable \in BOOLEAN,
         NEW t, t \in {GetOrCreate(s, meta.id), StageBoundResult(s, meta, usable)}
  PROVE  Shown(s, t)
<1> DEFINE u == GetOrCreate(s, meta.id)
<1>1. meta.id \in Identity /\ meta.id.tool # None
  BY MetaOf
<1>2. s.active # meta.id
  <2>1. s.active = Anonymous
    BY RecordOf DEF Sound, WellFormed, RecordsFit, Fits, Active
  <2>2. QED
    BY <1>1, <2>1 DEF Anonymous
<1>3. /\ Sound(u) /\ meta.id \in DOMAIN u.records
      /\ u.active = s.active /\ Active(u) = Active(s)
  BY <1>1, <1>2, StagedKeeps
<1> HIDE DEF u
<1>4. \A q : LET v == SetRecord(u, meta.id, q) IN v.active = u.active /\ Active(v) = Active(u)
  BY <1>2, <1>3 DEF SetRecord, Active, Sound, WellFormed
<1>5. t.active = u.active /\ Active(t) = Active(u)
  BY <1>4 DEF StageBoundResult, MarkMalformed, u
<1>6. QED
  BY <1>3, <1>5 DEF Shown, Refines, SameOutcome

(* acceptResult.                                                           *)
LEMMA ResultShows ==
  ASSUME NEW s, Sound(s), Active(s).status \in Terminal,
         NEW source, NEW meta \in Metas, NEW usable \in BOOLEAN, NEW allow, NEW session,
         NEW t, t = AcceptResult(s, source, meta, usable, allow, session)
  PROVE  Shown(s, t)
<1>1. CASE Active(s).status = "cancelled"
  BY <1>1, SameShows DEF AcceptResult, Terminal
<1>2. CASE Active(s).status = "ready"
  <2>1. t = IF source = "mcp-apps" /\ Unclaimed(Active(s)) /\ Bound(meta)
            THEN StageBoundResult(s, meta, usable) ELSE EnrichReady(s, meta)
    BY <1>2 DEF AcceptResult, Terminal
  <2>2. CASE Unclaimed(Active(s)) /\ Bound(meta) /\ t = StageBoundResult(s, meta, usable)
    BY <1>2, <2>2, StagedShows DEF Unclaimed
  <2>3. CASE t = EnrichReady(s, meta)
    BY <2>3, EnrichShows
  <2>4. QED
    BY <2>1, <2>2, <2>3
<1>3. QED
  BY <1>1, <1>2 DEF Terminal

(* acceptMetadata.                                                         *)
LEMMA MetadataShows ==
  ASSUME NEW s, Sound(s), NEW meta \in Metas, NEW t, t = AcceptMetadata(s, meta)
  PROVE  Shown(s, t)
<1>1. CASE Unclaimed(Active(s)) /\ Bound(meta)
  <2>1. /\ t = GetOrCreate(s, meta.id)
        /\ Active(s).status = "ready" /\ ~Active(s).trusted
    BY <1>1 DEF AcceptMetadata, Unclaimed
  <2>2. \E usable \in BOOLEAN :
          t \in {GetOrCreate(s, meta.id), StageBoundResult(s, meta, usable)}
    BY <2>1
  <2>3. QED
    BY <1>1, <2>1, <2>2, StagedShows
<1>2. CASE ~(Unclaimed(Active(s)) /\ Bound(meta))
  BY <1>2, EnrichShows DEF AcceptMetadata
<1>3. QED
  BY <1>1, <1>2

(* acceptChatGptGlobals adopts, arms, takes and attaches nothing any more.    *)
LEMMA GlobalsShow ==
  ASSUME NEW s, Sound(s), Active(s).status \in Terminal,
         NEW input \in BOOLEAN, NEW output \in BOOLEAN, NEW meta \in Metas,
         NEW given \in WidgetSessions \cup {None}, NEW allow \in BOOLEAN,
         NEW t, t = AcceptGlobals(s, input, output, meta, given, allow)
  PROVE  Shown(s, t)
<1> DEFINE session == GlobalSession(meta, given)
<1>1. /\ AdoptBinding(s, meta, session) = s
      /\ ArmHydration(s, meta, session, allow) = s
      /\ AcceptInput(s) = s
      /\ ~MayAttachUnbound(s, output, meta, session)
  BY DEF AdoptBinding, ArmHydration, AcceptInput, MayAttachUnbound, Terminal
<1>2. \/ \E attach : t = AcceptResult(s, "chatgpt", meta, TRUE, attach, session)
      \/ t = AcceptMetadata(s, meta)
      \/ t = s
  BY <1>1 DEF AcceptGlobals
<1>3. CASE \E attach : t = AcceptResult(s, "chatgpt", meta, TRUE, attach, session)
  <2>1. PICK attach : t = AcceptResult(s, "chatgpt", meta, TRUE, attach, session)
    BY <1>3
  <2>2. \E usable \in BOOLEAN : t = AcceptResult(s, "chatgpt", meta, usable, attach, session)
    BY <2>1
  <2>3. QED
    BY <2>2, ResultShows
<1>4. QED
  BY <1>2, <1>3, MetadataShows, SameShows

(* Calls that differ in a part keep differing, whatever else becomes known.   *)
LEMMA Apart ==
  ASSUME NEW k \in Identity, NEW id \in Identity, ~Compatible(id, k),
         NEW j \in Identity, j = id \/ Compatible(j, id),
         NEW w \in Identity, Refines(k, w)
  PROVE  ~Compatible(w, Merge(j, id)) /\ ~Compatible(w, id) /\ Merge(j, id) # k
<1>1. /\ DOMAIN k = {"tool", "request", "session"} /\ DOMAIN id = DOMAIN k
      /\ DOMAIN j = DOMAIN k /\ DOMAIN w = DOMAIN k
  BY DEF Identity
<1>2. PICK part \in DOMAIN k : id[part] # None /\ k[part] # None /\ id[part] # k[part]
  BY <1>1 DEF Compatible, Agree
<1>3. w[part] = k[part]
  BY <1>1, <1>2 DEF Refines
<1>4. Merge(j, id)[part] = id[part]
  BY <1>1, <1>2 DEF Merge, Compatible, Agree, OrElse
<1>5. QED
  BY <1>1, <1>2, <1>3, <1>4 DEF Compatible, Agree

(* A context that is not that of the call on the screen.                     *)
LEMMA HostContextStays ==
  ASSUME NEW s, Sound(s), Active(s).status \in Terminal,
         NEW id \in Contexts, NEW t, t = ActivateHostContext(s, id)
  PROVE  OutcomeKept(s, t)
<1> DEFINE r == Active(s)
           staged == Staged(s, id)
           k == CHOOSE j \in staged : TRUE
           legacy == [Anonymous EXCEPT !.session = r.legacySession]
<1>1. /\ s.active \in DOMAIN s.records /\ s.active \in Identity /\ r = s.records[s.active]
      /\ r \in Record /\ Fits(s.active, r)
  BY RecordOf DEF Sound, WellFormed, Active
<1>2. id \in Identity /\ id.tool # None
  BY DEF Contexts
<1>3. legacy \in Identity /\ Owner(s) = Merge(s.active, legacy)
  BY <1>1 DEF Owner, Record, Anonymous, Identity
<1> HIDE DEF legacy
<1>4. Owner(s) \in Identity /\ Refines(s.active, Owner(s))
  BY <1>1, <1>3, Merged
<1>5. ~r.trusted => s.active = Anonymous
  BY <1>1 DEF Fits
<1>6. CASE r.trusted /\ t = Rekey(s, s.active, Merge(s.active, id))
  <2> DEFINE to == Merge(s.active, id)
  <2>1. to \in Identity /\ Refines(s.active, to)
    BY <1>1, <1>2, Merged
  <2> HIDE DEF to
  <2>2. Fits(to, r)
    BY <1>1, <1>6, <2>1, FitsMore
  <2>3. t = Rekey(s, s.active, to)
    BY <1>6 DEF to
  <2>4. t.active = to /\ t.records[to] = r
    BY <1>6, <2>1, <2>2, <2>3, RekeyKeeps
  <2>5. QED
    BY <2>1, <2>4 DEF OutcomeKept, Shown, SameOutcome, Active
<1>7. CASE /\ ~(r.trusted /\ Compatible(id, s.active)) /\ Cardinality(staged) = 1
           /\ t = Rekey([s EXCEPT !.active = k], k, Merge(k, id))
  <2>1. /\ staged # {}
        /\ \A j \in staged : /\ j \in DOMAIN s.records \ {s.active}
                             /\ s.records[j].trusted
                             /\ (j = id \/ Compatible(j, id))
    <3>1. staged # {}
      BY <1>7, FS_EmptySet
    <3>2. QED
      BY <3>1 DEF Staged
  <2>2. /\ k \in DOMAIN s.records \ {s.active} /\ s.records[k].trusted
        /\ (k = id \/ Compatible(k, id))
    BY <2>1
  <2>3. k \in Identity
    BY <2>2, RecordOf
  <2> HIDE DEF k
  <2> DEFINE to == Merge(k, id)
  <2>4. /\ t.active = to
        /\ \A j \in DOMAIN s.records \ {k, to} :
             j \in DOMAIN t.records /\ t.records[j] = s.records[j]
    BY <1>2, <1>7, <2>2, ReturnKeeps
  <2>5. to # s.active /\ Another(s, t)
    <3>1. CASE r.trusted
      <4>1. ~Compatible(Owner(s), to) /\ to # s.active
        BY <1>1, <1>2, <1>4, <1>7, <2>2, <2>3, <3>1, Apart
      <4>2. QED
        BY <2>4, <4>1 DEF Another
    <3>2. CASE ~r.trusted
      <4>1. to.tool # None
        BY <1>2, <2>3 DEF Merge, OrElse, Identity
      <4>2. Compatible(k, to)
        BY <1>2, <2>3 DEF Compatible, Agree, Merge, OrElse, Identity
      <4>3. to # s.active
        BY <1>5, <3>2, <4>1 DEF Anonymous
      <4>4. QED
        BY <2>2, <2>4, <3>2, <4>2, <4>3 DEF Another
    <3>3. QED
      BY <3>1, <3>2
  <2>6. s.active \in DOMAIN t.records /\ t.records[s.active] = r
    BY <1>1, <2>2, <2>4, <2>5
  <2>7. QED
    BY <2>5, <2>6 DEF OutcomeKept, Stored, SameOutcome
<1>8. CASE /\ Claimable(s, id)
           /\ t = Rekey(SetRecord(s, s.active, [r EXCEPT !.trusted = TRUE]), s.active,
                        ClaimedAs(r, id))
  BY <1>8, ClaimKeeps DEF OutcomeKept
<1>9. CASE /\ ~(r.trusted /\ Compatible(id, s.active)) /\ ~Claimable(s, id)
           /\ t = Activate(s, id)
  <2>1. ~Compatible(Owner(s), id)
    <3>1. CASE r.trusted
      BY <1>1, <1>2, <1>4, <1>9, <3>1, Apart
    <3>2. CASE ~r.trusted
      <4>1. ~Agree(r.legacySession, id.session)
        BY <1>1, <1>5, <1>9, <3>2 DEF Claimable, Fits, Terminal, Anonymous
      <4>2. Owner(s).session = r.legacySession /\ "session" \in DOMAIN Owner(s)
        BY <1>1, <1>3, <1>4, <1>5, <3>2
           DEF Merge, OrElse, Anonymous, Identity, legacy
      <4>3. QED
        BY <4>1, <4>2 DEF Compatible
    <3>3. QED
      BY <3>1, <3>2
  <2>2. id # s.active
    <3>1. CASE r.trusted
      BY <1>9, <3>1 DEF Compatible, Agree
    <3>2. CASE ~r.trusted
      BY <1>2, <1>5, <3>2 DEF Anonymous
    <3>3. QED
      BY <3>1, <3>2
  <2>3. /\ t.active = id
        /\ \/ s.active \in DOMAIN t.records /\ t.records[s.active] = r
           \/ s.active \notin DOMAIN t.records /\ Len(s.order) = MaxRecords
    BY <1>1, <1>2, <1>9, <2>2, ActivateKeeps
  <2>4. QED
    BY <2>1, <2>3 DEF OutcomeKept, Stored, Another, SameOutcome
<1>10. CASE t = s
  BY <1>10, SameShows
<1>11. QED
  BY <1>6, <1>7, <1>8, <1>9, <1>10 DEF ActivateHostContext

-----------------------------------------------------------------------------
(* The calls beside the one on the screen.                                   *)

(* The shown call may get a name that knows more, and its record may change;  *)
(* the other records, but the one of that name, are what they were.         *)
OnlyActive(s, t) ==
  /\ t.active = s.active
  /\ \A j \in DOMAIN s.records \ {s.active} :
       j \in DOMAIN t.records /\ t.records[j] = s.records[j]

Beside(s, t) ==
  /\ t.active # s.active => Active(s).trusted /\ Refines(s.active, t.active)
  /\ \A j \in DOMAIN s.records \ {s.active, t.active} :
       j \in DOMAIN t.records /\ t.records[j] = s.records[j]

LEMMA BesideKeeps ==
  ASSUME NEW s, NEW t, Beside(s, t)
  PROVE  OthersKept(s, t)
BY DEF Beside, OthersKept, OffScreen, Keeps, IsTheShown, SameOutcome

LEMMA OnlyActiveIsBeside ==
  ASSUME NEW s, NEW t, OnlyActive(s, t)
  PROVE  Beside(s, t)
BY DEF OnlyActive, Beside

LEMMA OnlyActiveFirst ==
  ASSUME NEW s, NEW u, NEW t, OnlyActive(s, u), Active(u).trusted => Active(s).trusted,
         Beside(u, t)
  PROVE  Beside(s, t)
BY DEF OnlyActive, Beside

LEMMA OnlyActiveLast ==
  ASSUME NEW s, NEW u, NEW t, Beside(s, u), OnlyActive(u, t)
  PROVE  Beside(s, t)
BY DEF OnlyActive, Beside

LEMMA SetActive ==
  ASSUME NEW s, Sound(s), NEW q
  PROVE  /\ OnlyActive(s, s)
         /\ OnlyActive(s, SetRecord(s, s.active, q))
         /\ Active(SetRecord(s, s.active, q)) = q
<1>1. s.active \in DOMAIN s.records
  BY DEF Sound, WellFormed
<1>2. /\ SetRecord(s, s.active, q).active = s.active
      /\ SetRecord(s, s.active, q).records = [s.records EXCEPT ![s.active] = q]
  BY DEF SetRecord, Sound, WellFormed
<1>3. QED
  BY <1>1, <1>2 DEF OnlyActive, Active

LEMMA SetRecordIs ==
  ASSUME NEW s, WellFormed(s), NEW k, NEW r, NEW t, t = SetRecord(s, k, r)
  PROVE  /\ t = [records |-> t.records, order |-> t.order, active |-> t.active,
                 hydration |-> t.hydration]
         /\ t.order = s.order /\ t.active = s.active
         /\ t.records = [s.records EXCEPT ![k] = r]
BY DEF SetRecord, WellFormed

(* An unfinished call that nobody named has no other beside it.              *)
LEMMA NobodyBeside ==
  ASSUME NEW s, Sound(s), ~Active(s).trusted, Active(s).status # "ready", NEW t
  PROVE  OthersKept(s, t)
BY DEF Sound, FirstIsAlone, OthersKept, OffScreen

(* rekeyActiveRecord.                                                      *)
LEMMA RekeyBeside ==
  ASSUME NEW s, Sound(s), Active(s).trusted, NEW id \in Identity,
         NEW t, t = Rekey(s, s.active, Merge(s.active, id))
  PROVE  Sound(t) /\ Beside(s, t)
<1> DEFINE to == Merge(s.active, id)
<1>1. /\ s.active \in DOMAIN s.records /\ s.active \in Identity
      /\ Active(s) \in Record /\ Fits(s.active, Active(s))
  BY RecordOf DEF Sound, WellFormed, Active
<1>2. to \in Identity /\ Refines(s.active, to)
  BY <1>1, Merged
<1>3. t = Rekey(s, s.active, to)
  OBVIOUS
<1> HIDE DEF to
<1>4. Fits(to, Active(s))
  BY <1>1, <1>2, FitsMore
<1>5. /\ Sound(t) /\ t.active = to
      /\ \A j \in DOMAIN s.records \ {s.active, to} :
           j \in DOMAIN t.records /\ t.records[j] = s.records[j]
  BY <1>2, <1>3, <1>4, RekeyKeeps
<1>6. QED
  BY <1>2, <1>5 DEF Beside

(* enrichReadyMetadata renames the shown call once more, by the session of    *)
(* its snapshot.                                                           *)
LEMMA EnrichBeside ==
  ASSUME NEW s, Sound(s), NEW meta \in Metas, NEW t, t = EnrichReady(s, meta)
  PROVE  Beside(s, t)
<1> DEFINE r == Active(s)
           rest == [Anonymous EXCEPT !.session = r.legacySession]
           more == Merge(meta.id, rest)
           id == Merge(Merge(s.active, meta.id), rest)
           u == Rekey(s, s.active, id)
           q == [r EXCEPT !.metadata = TRUE]
<1>1. s.active \in Identity /\ r \in Record
  BY RecordOf DEF Sound, WellFormed, Active
<1>2. rest \in Identity /\ meta.id \in Identity
  BY <1>1, MetaOf DEF Record, Anonymous, Identity
<1>3. id = Merge(s.active, more) /\ more \in Identity
  <2> HIDE DEF rest
  <2>1. DOMAIN s.active = {"tool", "request", "session"} /\ DOMAIN meta.id = DOMAIN s.active
    BY <1>1, <1>2 DEF Identity
  <2>2. \A a, b, c : OrElse(OrElse(a, b), c) = OrElse(a, OrElse(b, c))
    BY DEF OrElse
  <2>3. id = Merge(s.active, more)
    BY <2>1, <2>2 DEF Merge
  <2>4. QED
    BY <1>2, <2>3, Merged
<1>4. CASE t = s
  BY <1>4, SetActive, OnlyActiveIsBeside
<1>5. CASE r.trusted /\ t = SetRecord(u, id, q)
  <2>1. Sound(u) /\ Beside(s, u)
    BY <1>3, <1>5, RekeyBeside
  <2>2. u.active = id
    <3>1. CASE s.active = id
      BY <3>1 DEF Rekey
    <3>2. CASE s.active # id
      BY <3>2 DEF Rekey, Sound, WellFormed
    <3>3. QED
      BY <3>1, <3>2
  <2> HIDE DEF u, id, q
  <2>3. OnlyActive(u, t)
    BY <1>5, <2>1, <2>2, SetActive
  <2>4. QED
    BY <2>1, <2>3, OnlyActiveLast
<1>6. t = s \/ (r.trusted /\ t = SetRecord(u, id, q))
  BY DEF EnrichReady
<1>7. QED
  BY <1>4, <1>5, <1>6

(* stageBoundResult and getOrCreate: what is known of a call that has its      *)
(* outcome is not replaced; for a new call the oldest record may go.        *)
LEMMA StagedLeaves ==
  ASSUME NEW s, Sound(s), Active(s).status = "ready", ~Active(s).trusted,
         NEW meta \in Metas, Bound(meta), NEW usable \in BOOLEAN,
         NEW t, t \in {GetOrCreate(s, meta.id), StageBoundResult(s, meta, usable)}
  PROVE  OthersKept(s, t)
<1> DEFINE u == GetOrCreate(s, meta.id)
           r == u.records[meta.id]
<1>1. meta.id \in Identity /\ meta.id.tool # None
  BY MetaOf
<1>2. s.active # meta.id
  <2>1. s.active = Anonymous
    BY RecordOf DEF Sound, WellFormed, RecordsFit, Fits, Active
  <2>2. QED
    BY <1>1, <2>1 DEF Anonymous
<1>3. Made(s, u, meta.id, s.active)
  <2>1. [s EXCEPT !.active = s.active] = s
    BY DEF Sound, WellFormed
  <2>2. u = GetOrCreate([s EXCEPT !.active = s.active], meta.id)
        /\ s.active \in {s.active, meta.id}
    BY <2>1
  <2>3. WellFormed(s)
    BY DEF Sound
  <2>4. QED
    BY <1>1, <2>2, <2>3, Created
<1> HIDE DEF u
<1>4. /\ u.active = s.active
      /\ meta.id \in DOMAIN s.records => r = [s.records[meta.id] EXCEPT !.trusted = TRUE]
      /\ \A k \in DOMAIN u.records \ {meta.id} :
           k \in DOMAIN s.records /\ u.records[k] = s.records[k]
      /\ DOMAIN s.records \subseteq DOMAIN u.records \/ Len(s.order) = MaxRecords
      /\ meta.id \in DOMAIN u.records
  BY <1>3 DEF Made
<1>5. meta.id \in DOMAIN s.records =>
        r.status = s.records[meta.id].status /\ r.output = s.records[meta.id].output
  BY <1>4, RecordOf DEF Record
<1>6. /\ t.active = s.active /\ DOMAIN t.records = DOMAIN u.records
      /\ \A k \in DOMAIN u.records \ {meta.id} : t.records[k] = u.records[k]
      /\ r.status \in Terminal => t.records[meta.id] = r
  <2>1. WellFormed(u)
    BY <1>3 DEF Made
  <2>2. \A q : LET v == SetRecord(u, meta.id, q) IN
               /\ v.active = u.active /\ DOMAIN v.records = DOMAIN u.records
               /\ \A k \in DOMAIN u.records \ {meta.id} : v.records[k] = u.records[k]
    BY <2>1 DEF SetRecord, WellFormed
  <2>3. \/ t = u
        \/ r.status \notin Terminal /\ \E q : t = SetRecord(u, meta.id, q)
    BY DEF StageBoundResult, MarkMalformed, u
  <2>4. QED
    BY <1>4, <2>2, <2>3
<1> HIDE DEF r
<1>7. ASSUME NEW k \in OffScreen(s), s.records[k].status \in Terminal
      PROVE  Keeps(s, t, k) \/ IsPruned(s, t, k)
  <2>1. k \in DOMAIN s.records /\ k # s.active
    BY <1>7 DEF OffScreen
  <2>2. CASE k \notin DOMAIN u.records
    BY <1>4, <1>6, <2>1, <2>2 DEF IsPruned
  <2>3. CASE k \in DOMAIN u.records /\ k # meta.id
    BY <1>4, <1>6, <2>1, <2>3 DEF Keeps, OffScreen, SameOutcome
  <2>4. CASE k = meta.id
    BY <1>4, <1>5, <1>6, <1>7, <2>1, <2>4 DEF Keeps, OffScreen, SameOutcome
  <2>5. QED
    BY <2>2, <2>3, <2>4
<1>8. QED
  BY <1>7 DEF OthersKept

(* acceptResult to a call that is known.                                    *)
LEMMA ResultBeside ==
  ASSUME NEW s, Sound(s), Active(s).trusted, NEW source, NEW meta \in Metas,
         NEW usable \in BOOLEAN, NEW allow, NEW session,
         NEW t, t = AcceptResult(s, source, meta, usable, allow, session)
  PROVE  Beside(s, t)
<1> DEFINE r == Active(s)
           w == Rekey(s, s.active, Merge(s.active, meta.id))
<1>1. \A u : Sound(u) => OnlyActive(u, Attach(u, meta, usable, session))
  <2>1. \A u : \/ Attach(u, meta, usable, session) = u
               \/ \E q : Attach(u, meta, usable, session) = SetRecord(u, u.active, q)
    BY DEF Attach, MarkMalformed
  <2>2. QED
    BY <2>1, SetActive
<1>2. OnlyActive(s, MarkMalformed(s, s.active))
  <2>1. \/ MarkMalformed(s, s.active) = s
        \/ \E q : MarkMalformed(s, s.active) = SetRecord(s, s.active, q)
    BY DEF MarkMalformed
  <2>2. QED
    BY <2>1, SetActive
<1>3. \/ t = s \/ t = EnrichReady(s, meta) \/ t = Attach(w, meta, usable, session)
      \/ t = Attach(s, meta, usable, session) \/ t = MarkMalformed(s, s.active)
  <2>1. meta.kind = "invalid" \/ Bound(meta) \/ Unbound(meta)
    BY MetaOf
  <2>2. ~Unclaimed(r)
    BY DEF Unclaimed
  <2>3. CASE r.status = "cancelled"
    BY <2>3 DEF AcceptResult, Terminal
  <2>4. CASE r.status = "ready"
    BY <2>2, <2>4 DEF AcceptResult, Terminal
  <2>5. CASE r.status \notin Terminal /\ Bound(meta)
    <3>1. t = IF ~r.trusted THEN Attach(Activate(s, meta.id), meta, usable, session)
              ELSE IF SameIdentity(s.active, meta.id) THEN Attach(w, meta, usable, session)
              ELSE s
      BY <2>5 DEF AcceptResult, Terminal, Bound, Unbound
    <3>2. QED
      BY <3>1
  <2>6. CASE r.status \notin Terminal /\ meta.kind = "invalid"
    BY <2>6 DEF AcceptResult, Terminal, Bound, Unbound
  <2>7. CASE r.status \notin Terminal /\ Unbound(meta)
    <3>1. t = IF source = "chatgpt" /\ allow THEN Attach(s, meta, usable, session)
              ELSE IF source = "chatgpt" /\ r.trusted THEN s
              ELSE MarkMalformed(s, s.active)
      BY <2>7 DEF AcceptResult, Terminal, Bound, Unbound
    <3>2. QED
      BY <3>1
  <2>8. QED
    BY <2>1, <2>3, <2>4, <2>5, <2>6, <2>7 DEF Terminal
<1>4. CASE t = Attach(w, meta, usable, session)
  <2>1. Sound(w) /\ Beside(s, w)
    BY MetaOf, RekeyBeside
  <2> HIDE DEF w
  <2>2. OnlyActive(w, t)
    BY <1>1, <1>4, <2>1
  <2>3. QED
    BY <2>1, <2>2, OnlyActiveLast
<1>5. CASE t = EnrichReady(s, meta)
  BY <1>5, EnrichBeside
<1>6. CASE t = s \/ t = Attach(s, meta, usable, session) \/ t = MarkMalformed(s, s.active)
  BY <1>1, <1>2, <1>6, SetActive, OnlyActiveIsBeside
<1>7. QED
  BY <1>3, <1>4, <1>5, <1>6

(* acceptResult.                                                           *)
LEMMA ResultLeaves ==
  ASSUME NEW s, Sound(s), NEW source, NEW meta \in Metas, NEW usable \in BOOLEAN,
         NEW allow, NEW session,
         NEW t, t = AcceptResult(s, source, meta, usable, allow, session)
  PROVE  OthersKept(s, t)
<1>1. CASE Active(s).trusted
  BY <1>1, ResultBeside, BesideKeeps
<1>2. CASE ~Active(s).trusted /\ Active(s).status # "ready"
  BY <1>2, NobodyBeside
<1>3. CASE ~Active(s).trusted /\ Active(s).status = "ready"
  <2>1. t = IF source = "mcp-apps" /\ Unclaimed(Active(s)) /\ Bound(meta)
            THEN StageBoundResult(s, meta, usable) ELSE EnrichReady(s, meta)
    BY <1>3 DEF AcceptResult, Terminal
  <2>2. CASE Bound(meta) /\ t = StageBoundResult(s, meta, usable)
    BY <1>3, <2>2, StagedLeaves
  <2>3. CASE t = EnrichReady(s, meta)
    BY <2>3, EnrichBeside, BesideKeeps
  <2>4. QED
    BY <2>1, <2>2, <2>3
<1>4. QED
  BY <1>1, <1>2, <1>3

(* acceptMetadata.                                                         *)
LEMMA MetadataLeaves ==
  ASSUME NEW s, Sound(s), NEW meta \in Metas, NEW t, t = AcceptMetadata(s, meta)
  PROVE  OthersKept(s, t) /\ (Active(s).trusted => Beside(s, t))
<1>1. CASE Unclaimed(Active(s)) /\ Bound(meta)
  <2>1. /\ t = GetOrCreate(s, meta.id)
        /\ Active(s).status = "ready" /\ ~Active(s).trusted
    BY <1>1 DEF AcceptMetadata, Unclaimed
  <2>2. \E usable \in BOOLEAN :
          t \in {GetOrCreate(s, meta.id), StageBoundResult(s, meta, usable)}
    BY <2>1
  <2>3. QED
    BY <1>1, <2>1, <2>2, StagedLeaves
<1>2. CASE ~(Unclaimed(Active(s)) /\ Bound(meta))
  <2>1. t = EnrichReady(s, meta)
    BY <1>2 DEF AcceptMetadata
  <2>2. QED
    BY <2>1, EnrichBeside, BesideKeeps
<1>3. QED
  BY <1>1, <1>2

(* acceptInput, and the arming of the snapshot, change the shown record only. *)
LEMMA InputBeside ==
  ASSUME NEW s, Sound(s), NEW t, t = AcceptInput(s)
  PROVE  OnlyActive(s, t) /\ Active(t).trusted = Active(s).trusted
<1> DEFINE r == Active(s)
           q == [r EXCEPT !.input = TRUE]
           p == [r EXCEPT !.input = TRUE, !.status = "running"]
<1>1. r \in Record
  BY RecordOf DEF Sound, WellFormed, Active
<1>2. q.trusted = r.trusted /\ p.trusted = r.trusted
  BY <1>1 DEF Record
<1>3. t \in {s, SetRecord(s, s.active, q), SetRecord(s, s.active, p)}
  BY DEF AcceptInput
<1> HIDE DEF q, p
<1>4. QED
  BY <1>2, <1>3, SetActive

LEMMA ArmBeside ==
  ASSUME NEW s, Sound(s), NEW meta, NEW session, NEW allow,
         NEW t, t = ArmHydration(s, meta, session, allow)
  PROVE  OnlyActive(s, t) /\ Active(t).trusted = Active(s).trusted
<1> DEFINE r == Active(s)
           u == [s EXCEPT !.hydration = "armed"]
           q == [r EXCEPT !.hydrates = TRUE, !.legacySession = session]
<1>1. r \in Record
  BY RecordOf DEF Sound, WellFormed, Active
<1>2. q.trusted = r.trusted
  BY <1>1 DEF Record
<1>3. CASE t = s
  BY <1>3, SetActive
<1>4. CASE s.hydration = "free" /\ t = SetRecord(u, s.active, q)
  <2>1. Sound(u) /\ u.active = s.active /\ u.records = s.records
    BY <1>4, SpendKeeps
  <2> HIDE DEF u, q
  <2>2. OnlyActive(u, t) /\ Active(t) = q
    BY <1>4, <2>1, SetActive
  <2>3. QED
    BY <1>2, <2>1, <2>2 DEF OnlyActive
<1>5. QED
  BY <1>3, <1>4 DEF ArmHydration

(* acceptChatGptGlobals.                                                   *)
LEMMA GlobalsLeave ==
  ASSUME NEW s, Sound(s), NEW input \in BOOLEAN, NEW output \in BOOLEAN, NEW meta \in Metas,
         NEW given \in WidgetSessions \cup {None}, NEW allow \in BOOLEAN,
         NEW t, t = AcceptGlobals(s, input, output, meta, given, allow)
  PROVE  OthersKept(s, t)
<1> DEFINE session == GlobalSession(meta, given)
           armed == ArmHydration(s, meta, session, allow)
           attach == MayAttachUnbound(armed, output, meta, session)
           fed == IF input /\ MayTakeInput(armed, output, meta, session, allow)
                  THEN AcceptInput(armed) ELSE armed
           spent == IF attach THEN [fed EXCEPT !.hydration = "consumed"] ELSE fed
<1>1. CASE ~Active(s).trusted /\ Active(s).status # "ready"
  BY <1>1, NobodyBeside
<1>2. CASE ~Active(s).trusted /\ Active(s).status = "ready"
  <2>1. /\ AdoptBinding(s, meta, session) = s
        /\ armed = s
        /\ AcceptInput(s) = s
        /\ ~MayAttachUnbound(s, output, meta, session)
    BY <1>2 DEF AdoptBinding, ArmHydration, AcceptInput, MayAttachUnbound, Terminal
  <2>2. \/ \E attached, usable : /\ usable = TRUE
                                 /\ t = AcceptResult(s, "chatgpt", meta, usable, attached, session)
        \/ t = AcceptMetadata(s, meta)
        \/ t = s
    BY <2>1 DEF AcceptGlobals
  <2>3. CASE \E attached, usable :
               usable = TRUE /\ t = AcceptResult(s, "chatgpt", meta, usable, attached, session)
    BY <2>3, ResultLeaves
  <2>4. CASE t = s
    BY <2>4, SetActive, OnlyActiveIsBeside, BesideKeeps
  <2>5. QED
    BY <2>2, <2>3, <2>4, MetadataLeaves
<1>3. CASE Active(s).trusted
  <2>1. session \in WidgetSessions \cup {None}
    BY MetaOf DEF GlobalSession, OrElse, Identity
  <2>2. AdoptBinding(s, meta, session) = s
    BY <1>3 DEF AdoptBinding
  <2>3. t = IF output THEN AcceptResult(spent, "chatgpt", meta, TRUE, attach, session)
            ELSE IF meta.kind # "none" THEN AcceptMetadata(spent, meta)
            ELSE spent
    BY <2>2 DEF AcceptGlobals
  <2> HIDE DEF session
  <2>4. /\ Sound(armed) /\ OnlyActive(s, armed)
        /\ Active(armed).trusted = Active(s).trusted
    BY <2>1, ArmKeeps, ArmBeside
  <2> HIDE DEF armed
  <2>5. /\ Sound(fed) /\ OnlyActive(s, fed)
        /\ Active(fed).trusted = Active(s).trusted
    <3>1. CASE fed = armed
      BY <2>4, <3>1
    <3>2. CASE fed = AcceptInput(armed)
      <4>1. /\ Sound(fed) /\ OnlyActive(armed, fed)
            /\ Active(fed).trusted = Active(armed).trusted
        BY <2>4, <3>2, AcceptInputKeeps, InputBeside
      <4>2. QED
        BY <2>4, <4>1 DEF OnlyActive
    <3>3. QED
      BY <3>1, <3>2
  <2> HIDE DEF fed, attach
  <2>6. /\ Sound(spent) /\ OnlyActive(s, spent)
        /\ Active(spent).trusted = Active(s).trusted
    <3>1. CASE spent = fed
      BY <2>5, <3>1
    <3>2. CASE spent = [fed EXCEPT !.hydration = "consumed"]
      <4>1. "consumed" \in {"armed", "consumed"}
        OBVIOUS
      <4>2. Sound(spent) /\ spent.active = fed.active /\ spent.records = fed.records
        BY <2>5, <3>2, <4>1, SpendKeeps
      <4>3. QED
        BY <2>5, <4>2 DEF OnlyActive, Active
    <3>3. QED
      BY <3>1, <3>2
  <2> HIDE DEF spent
  <2>7. Beside(spent, t)
    <3>1. CASE t = AcceptResult(spent, "chatgpt", meta, TRUE, attach, session)
      <4>1. \E usable \in BOOLEAN : t = AcceptResult(spent, "chatgpt", meta, usable, attach, session)
        BY <3>1
      <4>2. QED
        BY <1>3, <2>6, <4>1, ResultBeside
    <3>2. CASE t = AcceptMetadata(spent, meta)
      BY <1>3, <2>6, <3>2, MetadataLeaves
    <3>3. CASE t = spent
      BY <2>6, <3>3, SetActive, OnlyActiveIsBeside
    <3>4. QED
      BY <2>3, <3>1, <3>2, <3>3
  <2>8. QED
    BY <2>6, <2>7, OnlyActiveFirst, BesideKeeps
<1>4. QED
  BY <1>1, <1>2, <1>3

(* A call known in all parts that the context names is staged for it.        *)
LEMMA StagedFor ==
  ASSUME NEW s, Sound(s), NEW id \in Identity, id.tool # None,
         NEW to \in OffScreen(s), Refines(id, to)
  PROVE  to \in Staged(s, id) \/ Staged(s, id) = {id}
<1>1. to \in DOMAIN s.records /\ to \in Identity /\ to # s.active /\ Fits(to, s.records[to])
  BY RecordOf DEF OffScreen
<1>2. DOMAIN id = {"tool", "request", "session"} /\ DOMAIN to = DOMAIN id
  BY <1>1 DEF Identity
<1>3. to.tool # None
  BY <1>2 DEF Refines
<1>4. s.records[to].trusted
  BY <1>1, <1>3 DEF Fits, Anonymous
<1>5. Compatible(to, id)
  BY <1>2 DEF Compatible, Agree, Refines
<1>6. QED
  BY <1>1, <1>4, <1>5 DEF Staged

(* activateHostContext.                                                    *)
LEMMA HostContextLeaves ==
  ASSUME NEW s, Sound(s), NEW id \in Contexts, NEW t, t = ActivateHostContext(s, id)
  PROVE  OthersKept(s, t)
<1> DEFINE r == Active(s)
           staged == Staged(s, id)
           first == CHOOSE j \in staged : TRUE
<1>1. /\ s.active \in DOMAIN s.records /\ s.active \in Identity
      /\ r \in Record /\ Fits(s.active, r)
  BY RecordOf DEF Sound, WellFormed, Active
<1>2. id \in Identity /\ id.tool # None
  BY DEF Contexts
<1>3. CASE r.trusted /\ t = Rekey(s, s.active, Merge(s.active, id))
  BY <1>2, <1>3, RekeyBeside, BesideKeeps
<1>4. CASE /\ Cardinality(staged) = 1
           /\ t = Rekey([s EXCEPT !.active = first], first, Merge(first, id))
  <2>1. staged # {}
    BY <1>4, FS_EmptySet
  <2>2. /\ first \in staged /\ first \in OffScreen(s) /\ s.records[first].trusted
        /\ (first = id \/ Compatible(first, id))
    BY <2>1 DEF Staged, OffScreen
  <2>3. PICK only : staged = {only}
    <3>1. IsFiniteSet(staged)
      <4>1. staged \subseteq DOMAIN s.records
        BY DEF Staged
      <4>2. DOMAIN s.records = ToSet(s.order) /\ s.order \in Seq(Identity)
        BY DEF Sound, WellFormed
      <4>3. IsFiniteSet(ToSet(s.order))
        <5>1. s.order \in Surjection(1..Len(s.order), ToSet(s.order))
          BY <4>2 DEF ToSet, Surjection
        <5>2. QED
          BY <4>2, <5>1, FS_NatSurjection DEF ExistsSurjection
      <4>4. QED
        BY <4>1, <4>2, <4>3, FS_Subset
    <3>2. QED
      BY <1>4, <3>1, FS_Singleton
  <2>4. staged = {first}
    BY <2>2, <2>3
  <2>5. first \in DOMAIN s.records /\ first \in Identity /\ first # s.active
    BY <2>2, RecordOf DEF OffScreen
  <2> HIDE DEF first, staged
  <2> DEFINE u == [s EXCEPT !.active = first]
             to == Merge(first, id)
  <2>6. /\ Sound(u) /\ u.active = first /\ u.records = s.records
    BY <2>2, <2>5, SwitchKeeps
  <2>7. to \in Identity /\ Refines(first, to) /\ to.tool # None /\ Refines(id, to)
    <3>1. to \in Identity /\ Refines(first, to)
      BY <1>2, <2>5, Merged
    <3>2. DOMAIN first = {"tool", "request", "session"} /\ DOMAIN id = DOMAIN first
      BY <1>2, <2>5 DEF Identity
    <3>3. Refines(id, to)
      BY <2>2, <3>2 DEF Refines, Merge, OrElse, Compatible, Agree
    <3>4. QED
      BY <1>2, <3>1, <3>2, <3>3 DEF Refines, Identity
  <2>8. t = Rekey(u, u.active, to) /\ Active(u) = s.records[first]
    BY <1>4, <2>6 DEF Active
  <2>9. Fits(first, s.records[first]) /\ s.records[first] \in Record
    BY <2>5, RecordOf
  <2> HIDE DEF u, to
  <2>10. Fits(to, s.records[first])
    BY <2>2, <2>5, <2>7, <2>9, FitsMore
  <2>11. /\ t.active = to /\ t.records[to] = s.records[first]
         /\ \A j \in DOMAIN s.records \ {first, to} :
              j \in DOMAIN t.records /\ t.records[j] = s.records[j]
    BY <2>2, <2>6, <2>7, <2>8, <2>10, RekeyKeeps
  <2>12. ASSUME NEW k \in OffScreen(s), s.records[k].status \in Terminal
         PROVE  Keeps(s, t, k) \/ Returns(s, t, k)
    <3>1. CASE k = first
      BY <2>7, <2>11, <3>1 DEF Returns, SameOutcome, Active
    <3>2. CASE k = to /\ k # first
      <4>1. to \in staged \/ staged = {id}
        BY <1>2, <2>7, <2>12, <3>2, StagedFor DEF staged
      <4>2. id = first
        BY <2>4, <3>2, <4>1
      <4>3. to = first
        <5>1. DOMAIN first = {"tool", "request", "session"} /\ DOMAIN to = DOMAIN first
          BY <2>5, <2>7 DEF Identity
        <5>2. \A part \in DOMAIN first : to[part] = first[part]
          BY <4>2, <5>1 DEF to, Merge, OrElse
        <5>3. QED
          BY <2>5, <2>7, <5>1, <5>2 DEF Identity
      <4>4. QED
        BY <3>2, <4>3
    <3>3. CASE k # first /\ k # to
      BY <2>11, <2>12, <3>3 DEF Keeps, OffScreen, SameOutcome
    <3>4. QED
      BY <3>1, <3>2, <3>3
  <2>13. QED
    BY <2>12 DEF OthersKept
<1>5. CASE /\ staged = {} /\ Claimable(s, id)
           /\ t = Rekey(SetRecord(s, s.active, [r EXCEPT !.trusted = TRUE]), s.active,
                        ClaimedAs(r, id))
  <2> DEFINE to == ClaimedAs(r, id)
             q == [r EXCEPT !.trusted = TRUE]
             u == SetRecord(s, s.active, q)
  <2>1. to \in Identity /\ Refines(id, to)
    BY <1>1, <1>2 DEF ClaimedAs, Identity, OrElse, Record, Refines
  <2>2. to \notin OffScreen(s)
    BY <1>2, <1>5, <2>1, StagedFor
  <2>3. WellFormed(s) /\ OnlyActive(s, u) /\ u.active = s.active
    BY SetActive DEF Sound, OnlyActive
  <2>4. t = Rekey(u, s.active, to)
    BY <1>5
  <2>5. /\ t.active = to
        /\ \A j \in DOMAIN s.records \ {s.active, to} :
             j \in DOMAIN t.records /\ t.records[j] = s.records[j]
    <3>1. u.records = [s.records EXCEPT ![s.active] = q] /\ u.order = s.order
          /\ u = [records |-> u.records, order |-> u.order, active |-> u.active,
                  hydration |-> u.hydration]
      <4> HIDE DEF q
      <4>1. \A v : v = SetRecord(s, s.active, q) =>
              /\ v = [records |-> v.records, order |-> v.order, active |-> v.active,
                      hydration |-> v.hydration]
              /\ v.order = s.order /\ v.records = [s.records EXCEPT ![s.active] = q]
        BY <2>3, SetRecordIs
      <4>2. QED
        BY <4>1
    <3> HIDE DEF u, to, q
    <3>2. CASE s.active = to
      BY <2>3, <2>4, <3>1, <3>2 DEF Rekey
    <3>3. CASE s.active # to
      <4>1. t.active = to /\ t.records = With(Without(u.records, s.active), to, u.records[s.active])
        BY <2>4, <3>1, <3>3 DEF Rekey
      <4>2. QED
        BY <3>1, <4>1 DEF With, Without
    <3>4. QED
      BY <3>2, <3>3
  <2>6. QED
    BY <2>2, <2>5 DEF OthersKept, OffScreen, Keeps, SameOutcome
<1>6. CASE t = Activate(s, id)
  <2>1. id \in {s.active, id} /\ t = GetOrCreate([s EXCEPT !.active = id], id) /\ WellFormed(s)
    BY <1>6 DEF Activate, Sound
  <2>2. Made(s, t, id, id)
    BY <1>2, <2>1, Created
  <2>3. ASSUME NEW k \in OffScreen(s), s.records[k].status \in Terminal
        PROVE  Keeps(s, t, k) \/ Returns(s, t, k) \/ IsPruned(s, t, k)
    <3>1. k \in DOMAIN s.records /\ s.records[k] \in Record
      BY <2>3, RecordOf DEF OffScreen
    <3>2. CASE k = id
      <4>1. t.active = id /\ Active(t) = [s.records[id] EXCEPT !.trusted = TRUE]
        BY <2>2, <3>1, <3>2 DEF Made, Active
      <4>2. SameOutcome(s.records[k], Active(t))
        BY <3>1, <3>2, <4>1 DEF SameOutcome, Record
      <4>3. QED
        BY <3>2, <4>1, <4>2 DEF Returns, Refines
    <3>3. CASE k # id /\ k \in DOMAIN t.records
      BY <2>2, <2>3, <3>3 DEF Made, Keeps, OffScreen, SameOutcome
    <3>4. CASE k \notin DOMAIN t.records
      BY <2>2, <3>1, <3>4 DEF Made, IsPruned
    <3>5. QED
      BY <3>2, <3>3, <3>4
  <2>4. QED
    BY <2>3 DEF OthersKept
<1>7. CASE t = s
  BY <1>7, SetActive, OnlyActiveIsBeside, BesideKeeps
<1>8. QED
  BY <1>3, <1>4, <1>5, <1>6, <1>7 DEF ActivateHostContext

-----------------------------------------------------------------------------
(* The empty store: one anonymous call, whose timer runs.                    *)
LEMMA InitInv ==
  ASSUME Init
  PROVE  IInv
<1>1. /\ store.records = [k \in {Anonymous} |-> NewRecord(FALSE)]
      /\ store.order = <<Anonymous>> /\ store.active = Anonymous /\ store.hydration = "free"
      /\ store = [records |-> store.records, order |-> store.order,
                  active |-> store.active, hydration |-> store.hydration]
  BY DEF Init
<1>2. NewRecord(FALSE) \in Record /\ Anonymous \in Identity
  BY DEF NewRecord, Record, Statuses, Origins, Nothing, Anonymous, Identity
<1>3. /\ DOMAIN store.records = {Anonymous}
      /\ store.records[Anonymous] = NewRecord(FALSE)
      /\ store.records \in [DOMAIN store.records -> Record]
  BY <1>1, <1>2
<1>4. /\ store.order \in Seq(Identity) /\ Len(store.order) = 1
      /\ DOMAIN store.order = {1} /\ store.order[1] = Anonymous
  BY <1>1, <1>2
<1>5. WellFormed(store)
  <2>1. ToSet(store.order) = {Anonymous}
    BY <1>4 DEF ToSet
  <2>2. IsInjective(store.order)
    BY <1>4 DEF IsInjective
  <2>3. Len(store.order) <= MaxRecords
    BY <1>4, RoomForTwo
  <2>4. QED
    BY <1>1, <1>2, <1>3, <1>4, <2>1, <2>2, <2>3 DEF WellFormed
<1>6. RecordsFit(store)
  BY <1>3 DEF RecordsFit, Fits, NewRecord, Nothing, Tag, Bound, Pending
<1>7. FirstIsAlone(store)
  BY <1>1, <1>3 DEF FirstIsAlone, Anonymous
<1>8. OneHydrates(store)
  BY <1>3 DEF OneHydrates, NewRecord, Nothing, Tag
<1>9. QED
  BY <1>5, <1>6, <1>7, <1>8 DEF IInv, Sound

(* Every event maps a sound store to a sound store.                         *)
LEMMA NextStep ==
  ASSUME IInv, [Next]_vars
  PROVE  IInv'
<1>1. Sound(store)
  BY DEF IInv
<1>2. ASSUME NEW id \in Contexts, HostContext(id)
      PROVE  Sound(store')
  BY <1>1, <1>2, HostContextKeeps DEF HostContext
<1>3. ASSUME ToolInput
      PROVE  Sound(store')
  BY <1>1, <1>3, AcceptInputKeeps DEF ToolInput
<1>4. ASSUME NEW meta \in Metas, NEW usable \in BOOLEAN, ToolResult(meta, usable)
      PROVE  Sound(store')
  <2>1. \E allow \in BOOLEAN, session \in WidgetSessions \cup {None} :
          ~allow /\ store' = AcceptResult(store, "mcp-apps", meta, usable, allow, session)
    BY <1>4 DEF ToolResult
  <2>2. PICK allow \in BOOLEAN, session \in WidgetSessions \cup {None} :
          ~allow /\ store' = AcceptResult(store, "mcp-apps", meta, usable, allow, session)
    BY <2>1
  <2>3. QED
    BY <1>1, <2>2, AcceptResultKeeps
<1>5. ASSUME ToolCancelled
      PROVE  Sound(store')
  BY <1>1, <1>5, CancelledKeeps DEF ToolCancelled
<1>6. ASSUME NEW input \in BOOLEAN, NEW output \in BOOLEAN, NEW allow \in BOOLEAN,
             NEW meta \in Metas, NEW session \in WidgetSessions \cup {None},
             Globals(input, output, meta, session, allow)
      PROVE  Sound(store')
  BY <1>1, <1>6, AcceptGlobalsKeeps DEF Globals
<1>7. CASE UNCHANGED vars
  BY <1>7 DEF vars, IInv
<1>8. CASE \E k \in Identity : Timeout(k)
  BY <1>8, TimeoutKeeps
<1>9. Sound(store') => IInv'
  BY DEF IInv
<1>10. QED
  BY <1>2, <1>3, <1>4, <1>5, <1>6, <1>7, <1>8, <1>9 DEF Next

(* Every store the widget reaches is sound, whatever the two channels and     *)
(* the timers do.                                                          *)
THEOREM Invariance == Spec => []IInv
<1> QED
  BY InitInv, NextStep, PTL DEF Spec

(* Types of the store; the order lists its records, the active one among      *)
(* them, and never more than there is room for (pruneRecords).              *)
THEOREM TypeCorrect == Spec => []TypeOK
<1>1. IInv => TypeOK
  BY DEF IInv, Sound, TypeOK
<1> QED
  BY <1>1, Invariance, PTL

(* An output is shown only by the call its binding names.                    *)
THEOREM BoundOutputs == Spec => []OutputsBelong
<1>1. IInv => OutputsBelong
  <2> SUFFICES ASSUME IInv, NEW k \in DOMAIN store.records, Bound(store.records[k].output)
               PROVE  LET origin == store.records[k].output
                      IN /\ k.tool = origin.id.tool /\ k.request = origin.id.request
                         /\ Agree(k.session, origin.id.session)
    BY DEF OutputsBelong
  <2>1. store.records[k].output.id \in Bindings
    BY RecordOf DEF IInv, Record, Origins, Bound, BoundTo, Nothing, Tag
  <2>2. Refines(store.records[k].output.id, k)
    BY RecordOf DEF IInv, Fits
  <2>3. QED
    BY <2>1, <2>2 DEF Refines, Bindings, Identity, Agree
<1> QED
  BY <1>1, Invariance, PTL

(* An output without a binding belongs to one call at most.                  *)
THEOREM UnboundOutput == Spec => []OneUnboundOutput
<1>1. IInv => OneUnboundOutput
  BY DEF IInv, Sound, OneHydrates, OneUnboundOutput
<1> QED
  BY <1>1, Invariance, PTL

(* A call without an outcome has a timer that will end the wait.             *)
THEOREM Deadlines == Spec => []WaitsHaveADeadline
<1>1. IInv => WaitsHaveADeadline
  BY DEF IInv, Sound, RecordsFit, Fits, WaitsHaveADeadline
<1> QED
  BY <1>1, Invariance, PTL

(* The call on the screen.                                                  *)
LEMMA ShownStays ==
  ASSUME IInv, Next
  PROVE  OutcomeKept(store, store')
<1>1. Sound(store)
  BY DEF IInv
<1> SUFFICES ASSUME Active(store).status \in Terminal
             PROVE  OutcomeKept(store, store')
  BY DEF OutcomeKept
<1>2. ASSUME NEW id \in Contexts, HostContext(id)
      PROVE  OutcomeKept(store, store')
  BY <1>1, <1>2, HostContextStays DEF HostContext
<1>3. CASE ToolInput \/ ToolCancelled
  <2>1. store' = store
    BY <1>3 DEF ToolInput, ToolCancelled, AcceptInput, Cancelled
  <2>2. QED
    BY <2>1, SameShows
<1>4. ASSUME NEW meta \in Metas, NEW usable \in BOOLEAN, ToolResult(meta, usable)
      PROVE  OutcomeKept(store, store')
  <2>1. \E allow : store' = AcceptResult(store, "mcp-apps", meta, usable, allow, None)
    BY <1>4 DEF ToolResult
  <2>2. Shown(store, store')
    BY <1>1, <2>1, ResultShows
  <2>3. QED
    BY <2>2 DEF OutcomeKept
<1>5. ASSUME NEW input \in BOOLEAN, NEW output \in BOOLEAN, NEW allow \in BOOLEAN,
             NEW meta \in Metas, NEW session \in WidgetSessions \cup {None},
             Globals(input, output, meta, session, allow)
      PROVE  OutcomeKept(store, store')
  <2>1. Shown(store, store')
    BY <1>1, <1>5, GlobalsShow DEF Globals
  <2>2. QED
    BY <2>1 DEF OutcomeKept
<1>6. ASSUME NEW k \in Identity, Timeout(k)
      PROVE  OutcomeKept(store, store')
  <2>1. k \in DOMAIN store.records /\ store.records[k].timer
    BY <1>6 DEF Timeout
  <2>2. store.records[k].status \in Pending
    BY <1>1, <2>1, RecordOf DEF Fits
  <2>3. k # store.active
    BY <2>2 DEF Active, Pending, Terminal
  <2>4. store'.active = store.active /\ Active(store') = Active(store)
    BY <1>1, <1>6, <2>3 DEF Timeout, SetRecord, Active, Sound, WellFormed
  <2>5. QED
    BY <2>4 DEF OutcomeKept, Shown, Refines, SameOutcome
<1>7. QED
  BY <1>2, <1>3, <1>4, <1>5, <1>6 DEF Next

(* The calls beside it.                                                     *)
LEMMA OthersStay ==
  ASSUME IInv, Next
  PROVE  OthersKept(store, store')
<1>1. Sound(store)
  BY DEF IInv
<1>2. ASSUME NEW id \in Contexts, HostContext(id)
      PROVE  OthersKept(store, store')
  BY <1>1, <1>2, HostContextLeaves DEF HostContext
<1>3. CASE ToolInput
  BY <1>1, <1>3, InputBeside, OnlyActiveIsBeside, BesideKeeps DEF ToolInput
<1>4. CASE ToolCancelled
  <2>1. store' = store \/ \E q : store' = SetRecord(store, store.active, q)
    BY <1>4 DEF ToolCancelled, Cancelled
  <2>2. QED
    BY <1>1, <2>1, SetActive, OnlyActiveIsBeside, BesideKeeps
<1>5. ASSUME NEW meta \in Metas, NEW usable \in BOOLEAN, ToolResult(meta, usable)
      PROVE  OthersKept(store, store')
  BY <1>1, <1>5, ResultLeaves DEF ToolResult
<1>6. ASSUME NEW input \in BOOLEAN, NEW output \in BOOLEAN, NEW allow \in BOOLEAN,
             NEW meta \in Metas, NEW session \in WidgetSessions \cup {None},
             Globals(input, output, meta, session, allow)
      PROVE  OthersKept(store, store')
  BY <1>1, <1>6, GlobalsLeave DEF Globals
<1>7. ASSUME NEW k \in Identity, Timeout(k)
      PROVE  OthersKept(store, store')
  <2>1. k \in DOMAIN store.records /\ store.records[k].timer
    BY <1>7 DEF Timeout
  <2>2. store.records[k].status \notin Terminal
    BY <1>1, <2>1, RecordOf DEF Fits, Pending, Terminal
  <2>3. /\ store'.active = store.active
        /\ \A j \in DOMAIN store.records \ {k} :
             j \in DOMAIN store'.records /\ store'.records[j] = store.records[j]
    BY <1>1, <1>7 DEF Timeout, SetRecord, Sound, WellFormed
  <2>4. QED
    BY <2>2, <2>3 DEF OthersKept, OffScreen, Keeps, SameOutcome
<1>8. QED
  BY <1>2, <1>3, <1>4, <1>5, <1>6, <1>7 DEF Next

(* A finished call keeps its outcome: on the screen under a name that only    *)
(* grows, until a context names another one; beside it until it is pruned,    *)
(* comes back, or the shown call takes its name.                            *)
THEOREM Outcomes == Spec => OutcomesStay
<1>1. IInv /\ [Next]_vars => [OutcomeKept(store, store') /\ OthersKept(store, store')]_vars
  BY ShownStays, OthersStay
<1> QED
  BY <1>1, Invariance, PTL DEF Spec, OutcomesStay

=============================================================================
