-------------------------- MODULE InputEvents_proofs --------------------------
(* What the chords promise, and that no key sticks until a poll posts more   *)
(* than the ring holds: for any bindings, chords, hold times, delays and     *)
(* length of the ring.                                                       *)
EXTENDS InputEvents, SequenceTheorems, FiniteSetTheorems, WellFoundedInduction, TLAPS

\* A set of natural numbers that is not empty has a least element: induction,
\* here and below, is the absence of a least exception.
LEMMA Least ==
  ASSUME NEW T \in SUBSET Nat, T # {}
  PROVE  \E n \in T : \A k \in T : n <= k
<1> DEFINE R == OpToRel(<, Nat)
<1>1. IsWellFoundedOn(R, Nat)
  BY NatLessThanWellFounded
<1>2. \A p \in Nat \X Nat : p \in R <=> p[1] < p[2]
  BY DEF OpToRel
<1> HIDE DEF R
<1>3. PICK n \in T : \A k \in T : ~(<<k, n>> \in R)
  BY <1>1, WFMin
<1>4. ASSUME NEW k \in T PROVE n <= k
  <2>1. <<k, n>> \in Nat \X Nat /\ <<k, n>>[1] = k /\ <<k, n>>[2] = n
    OBVIOUS
  <2>2. <<k, n>> \in R <=> k < n
    BY <1>2, <2>1
  <2> QED
    BY <1>3, <2>2
<1> QED
  BY <1>3, <1>4

-----------------------------------------------------------------------------
\* The events of one poll.

\* The sequences publish_action_changes goes through, up to binding N.
Selects(f, S, N) ==
  \A n \in 0 .. N :
    f[n] = IF n = 0 THEN <<>>
           ELSE IF Bindings[n] \in S THEN Append(f[n - 1], Bindings[n]) ELSE f[n - 1]

\* They exist.
LEMMA SelectsExist ==
  ASSUME NEW S
  PROVE  \E f \in [0 .. Len(Bindings) -> Seq(Actions)] : Selects(f, S, Len(Bindings))
<1> DEFINE L == Len(Bindings)
           Bad == {k \in 0 .. L : ~\E f \in [0 .. k -> Seq(Actions)] : Selects(f, S, k)}
<1>1. Bindings \in Seq(Actions) /\ L \in Nat
  BY BindingsAssumption
<1>2. 0 \notin Bad
  <2> DEFINE h == [n \in 0 .. 0 |-> <<>>]
  <2>1. h \in [0 .. 0 -> Seq(Actions)]
    OBVIOUS
  <2>2. Selects(h, S, 0)
    BY DEF Selects
  <2> HIDE DEF h
  <2> QED
    BY <2>1, <2>2
<1>3. ASSUME NEW k \in Bad, \A j \in Bad : k <= j PROVE FALSE
  <2>1. k \in 1 .. L /\ k - 1 \in 0 .. L /\ k - 1 \notin Bad
    <3>1. Bad \subseteq 0 .. L
      OBVIOUS
    <3> HIDE DEF Bad
    <3> QED
      BY <1>1, <1>2, <1>3, <3>1
  <2>2. PICK g \in [0 .. k - 1 -> Seq(Actions)] : Selects(g, S, k - 1)
    BY <2>1
  <2> DEFINE e == IF Bindings[k] \in S THEN Append(g[k - 1], Bindings[k]) ELSE g[k - 1]
             h == [n \in 0 .. k |-> IF n = k THEN e ELSE g[n]]
  <2>3. e \in Seq(Actions)
    <3>1. g[k - 1] \in Seq(Actions) /\ Bindings[k] \in Actions
      BY <1>1, <2>1
    <3> QED
      BY <3>1
  <2>4. h \in [0 .. k -> Seq(Actions)]
    BY <2>1, <2>3
  <2>5. ASSUME NEW n \in 0 .. k
        PROVE  h[n] = IF n = 0 THEN <<>>
                      ELSE IF Bindings[n] \in S THEN Append(h[n - 1], Bindings[n])
                      ELSE h[n - 1]
    <3>1. CASE n = k
      <4>1. h[n] = e /\ h[n - 1] = g[k - 1] /\ n # 0
        BY <2>1, <3>1
      <4> QED
        BY <3>1, <4>1
    <3>2. CASE n # k
      <4>1. n \in 0 .. k - 1 /\ (n # 0 => n - 1 \in 0 .. k - 1)
        BY <2>1, <3>2
      <4>2. h[n] = g[n] /\ (n # 0 => h[n - 1] = g[n - 1])
        BY <2>1, <3>2, <4>1
      <4> HIDE DEF h
      <4> QED
        BY <2>2, <4>1, <4>2 DEF Selects
    <3> QED
      BY <3>1, <3>2
  <2> HIDE DEF h
  <2>6. Selects(h, S, k)
    BY <2>5 DEF Selects
  <2> QED
    BY <1>3, <2>4, <2>6
<1>4. Bad \in SUBSET Nat
  BY <1>1
<1>5. L \in 0 .. L
  BY <1>1
<1>6. L \notin Bad
  <2> HIDE DEF Bad
  <2> QED
    BY <1>3, <1>4, Least
<1> QED
  BY <1>5, <1>6

\* InOrder is the last of them.
LEMMA InOrderIs ==
  ASSUME NEW S
  PROVE  \E f \in [0 .. Len(Bindings) -> Seq(Actions)] :
           Selects(f, S, Len(Bindings)) /\ InOrder(S) = f[Len(Bindings)]
<1> DEFINE L == Len(Bindings)
           First[n \in 0 .. L] ==
             IF n = 0 THEN <<>>
             ELSE IF Bindings[n] \in S THEN Append(First[n - 1], Bindings[n])
             ELSE First[n - 1]
<1>1. PICK g \in [0 .. L -> Seq(Actions)] : Selects(g, S, L)
  BY SelectsExist
<1>2. g = [n \in 0 .. L |-> IF n = 0 THEN <<>>
                            ELSE IF Bindings[n] \in S THEN Append(g[n - 1], Bindings[n])
                            ELSE g[n - 1]]
  BY <1>1 DEF Selects
<1>3. First = [n \in 0 .. L |-> IF n = 0 THEN <<>>
                                ELSE IF Bindings[n] \in S THEN Append(First[n - 1], Bindings[n])
                                ELSE First[n - 1]]
  BY <1>2
<1>4. InOrder(S) = First[L]
  BY DEF InOrder
<1> HIDE DEF First
<1>5. Selects(First, S, L)
  BY <1>3 DEF Selects
<1> DEFINE Bad == {n \in 0 .. L : First[n] \notin Seq(Actions)}
<1>6. Bindings \in Seq(Actions) /\ L \in Nat
  BY BindingsAssumption
<1>7. ASSUME NEW n \in Bad, \A k \in Bad : n <= k PROVE FALSE
  <2>1. n \in 0 .. L /\ First[n] \notin Seq(Actions)
    BY <1>7
  <2>2. First[n] = IF n = 0 THEN <<>>
                   ELSE IF Bindings[n] \in S THEN Append(First[n - 1], Bindings[n])
                   ELSE First[n - 1]
    BY <1>5, <2>1 DEF Selects
  <2>3. n # 0
    BY <2>1, <2>2, EmptySeq
  <2>4. n - 1 \in 0 .. L /\ n - 1 \notin Bad
    BY <1>6, <1>7, <2>1, <2>3
  <2>5. First[n - 1] \in Seq(Actions) /\ Bindings[n] \in Actions
    BY <1>6, <2>1, <2>3, <2>4
  <2>6. Append(First[n - 1], Bindings[n]) \in Seq(Actions)
    BY <2>5, AppendProperties
  <2> QED
    BY <2>1, <2>2, <2>3, <2>5, <2>6
<1>8. Bad \in SUBSET Nat
  BY <1>6
<1>9. Bad = {}
  BY <1>7, <1>8, Least
<1>10. First \in [0 .. L -> Seq(Actions)]
  BY <1>3, <1>9
<1> QED
  BY <1>4, <1>5, <1>10

\* What it selects.
LEMMA Selected ==
  ASSUME NEW S, NEW f \in [0 .. Len(Bindings) -> Seq(Actions)],
         Selects(f, S, Len(Bindings))
  PROVE  /\ \A j \in 1 .. Len(f[Len(Bindings)]) : f[Len(Bindings)][j] \in S
         /\ \A m \in 1 .. Len(Bindings) :
              Bindings[m] \in S =>
                \E j \in 1 .. Len(f[Len(Bindings)]) : f[Len(Bindings)][j] = Bindings[m]
<1> DEFINE L == Len(Bindings)
           Right(n) == /\ \A j \in 1 .. Len(f[n]) : f[n][j] \in S
                       /\ \A m \in 1 .. n : Bindings[m] \in S =>
                            \E j \in 1 .. Len(f[n]) : f[n][j] = Bindings[m]
           Bad == {n \in 0 .. L : ~Right(n)}
<1>1. Bindings \in Seq(Actions) /\ L \in Nat
  BY BindingsAssumption
<1>2. ASSUME NEW n \in 0 .. L, n = 0 PROVE Right(n)
  <2>1. f[n] = <<>>
    BY <1>2 DEF Selects
  <2> QED
    BY <1>2, <2>1
<1>3. ASSUME NEW n \in 1 .. L, Right(n - 1) PROVE Right(n)
  <2>1. n \in 0 .. L /\ n - 1 \in 0 .. L /\ Bindings[n] \in Actions
    BY <1>1
  <2> DEFINE q == f[n - 1]
             e == Bindings[n]
  <2>2. q \in Seq(Actions) /\ f[n] = IF e \in S THEN Append(q, e) ELSE q
    <3>1. f[n - 1] \in Seq(Actions)
      BY <2>1
    <3>2. f[n] = IF n = 0 THEN <<>>
                 ELSE IF Bindings[n] \in S THEN Append(f[n - 1], Bindings[n]) ELSE f[n - 1]
      BY <2>1 DEF Selects
    <3>3. n # 0
      BY <1>1
    <3> QED
      BY <3>1, <3>2, <3>3
  <2>3. /\ \A j \in 1 .. Len(q) : q[j] \in S
        /\ \A m \in 1 .. n - 1 : Bindings[m] \in S => \E j \in 1 .. Len(q) : q[j] = Bindings[m]
    BY <1>3
  <2>4. \A m \in 1 .. n : m = n \/ m \in 1 .. n - 1
    BY <1>1
  <2>5. CASE e \notin S
    BY <2>2, <2>3, <2>4, <2>5
  <2>6. CASE e \in S
    <3>1. /\ Len(f[n]) = Len(q) + 1 /\ f[n][Len(q) + 1] = e
          /\ \A j \in 1 .. Len(q) : f[n][j] = q[j]
      BY <2>1, <2>2, <2>6, AppendProperties
    <3>2. Len(q) \in Nat
      BY <2>2
    <3> HIDE DEF q
    <3>3. \A j \in 1 .. Len(f[n]) : f[n][j] \in S
      BY <2>3, <2>6, <3>1, <3>2
    <3>4. ASSUME NEW m \in 1 .. n, Bindings[m] \in S
          PROVE  \E j \in 1 .. Len(f[n]) : f[n][j] = Bindings[m]
      <4>1. CASE m = n
        <5>1. Len(q) + 1 \in 1 .. Len(f[n])
          BY <3>1, <3>2
        <5> QED
          BY <3>1, <4>1, <5>1
      <4>2. CASE m # n
        <5>1. PICK j \in 1 .. Len(q) : q[j] = Bindings[m]
          BY <2>3, <2>4, <3>4, <4>2
        <5>2. j \in 1 .. Len(f[n])
          BY <3>1, <3>2
        <5> QED
          BY <3>1, <5>1, <5>2
      <4> QED
        BY <4>1, <4>2
    <3> QED
      BY <3>3, <3>4
  <2> QED
    BY <2>5, <2>6
<1> HIDE DEF Right
<1>4. ASSUME NEW n \in Bad, \A k \in Bad : n <= k PROVE FALSE
  <2>1. n \in 1 .. L /\ n - 1 \in 0 .. L
    BY <1>1, <1>2, <1>4
  <2>2. n - 1 \notin Bad
    BY <1>4, <2>1
  <2> QED
    BY <1>3, <1>4, <2>1, <2>2
<1>5. Bad \in SUBSET Nat
  BY <1>1
<1>6. L \in 0 .. L
  BY <1>1
<1>7. L \notin Bad
  <2> HIDE DEF Bad
  <2> QED
    BY <1>4, <1>5, Least
<1> QED
  BY <1>6, <1>7 DEF Right

\* Two disjoint sets of actions make no more events than they have members.
LEMMA TwoSelected ==
  ASSUME NEW S \in SUBSET Actions, NEW T \in SUBSET Actions, S \cap T = {},
         NEW f \in [0 .. Len(Bindings) -> Seq(Actions)], Selects(f, S, Len(Bindings)),
         NEW g \in [0 .. Len(Bindings) -> Seq(Actions)], Selects(g, T, Len(Bindings))
  PROVE  Len(f[Len(Bindings)]) + Len(g[Len(Bindings)]) <= Cardinality(S \cup T)
<1> DEFINE L == Len(Bindings)
           D(n) == {Bindings[m] : m \in 1 .. n} \cap (S \cup T)
           Right(n) == IsFiniteSet(D(n)) /\ Len(f[n]) + Len(g[n]) <= Cardinality(D(n))
           Bad == {n \in 0 .. L : ~Right(n)}
<1>1. Bindings \in Seq(Actions) /\ L \in Nat
  BY BindingsAssumption
<1>2. ASSUME NEW n \in 0 .. L, n = 0 PROVE Right(n)
  <2>1. f[n] = <<>> /\ g[n] = <<>>
    BY <1>2 DEF Selects
  <2>2. D(n) = {}
    BY <1>2
  <2> HIDE DEF D
  <2> QED
    BY <2>1, <2>2, EmptySeq, FS_EmptySet
<1>3. ASSUME NEW n \in 1 .. L, Right(n - 1) PROVE Right(n)
  <2>1. n \in 0 .. L /\ n - 1 \in 0 .. L /\ n # 0 /\ Bindings[n] \in Actions
    BY <1>1
  <2>2. /\ f[n] = IF Bindings[n] \in S THEN Append(f[n - 1], Bindings[n]) ELSE f[n - 1]
        /\ g[n] = IF Bindings[n] \in T THEN Append(g[n - 1], Bindings[n]) ELSE g[n - 1]
    BY <2>1 DEF Selects
  <2>3. f[n - 1] \in Seq(Actions) /\ g[n - 1] \in Seq(Actions)
    BY <2>1
  <2>4. /\ Len(Append(f[n - 1], Bindings[n])) = Len(f[n - 1]) + 1
        /\ Len(Append(g[n - 1], Bindings[n])) = Len(g[n - 1]) + 1
        /\ Len(f[n - 1]) \in Nat /\ Len(g[n - 1]) \in Nat
    BY <2>1, <2>3, AppendProperties
  <2>5. Bindings[n] \notin D(n - 1)
    <3>1. ASSUME NEW m \in 1 .. n - 1 PROVE Bindings[m] # Bindings[n]
      <4>1. m \in 1 .. L /\ m # n /\ DOMAIN Bindings = 1 .. L
        BY <1>1
      <4> QED
        BY <4>1, BindingsAssumption DEF IsInjective
    <3> QED
      BY <3>1
  <2>6. D(n) = IF Bindings[n] \in S \cup T THEN D(n - 1) \cup {Bindings[n]} ELSE D(n - 1)
    <3>1. 1 .. n = (1 .. n - 1) \cup {n}
      BY <1>1
    <3>2. {Bindings[m] : m \in 1 .. n} = {Bindings[m] : m \in 1 .. n - 1} \cup {Bindings[n]}
      BY <3>1
    <3> QED
      BY <3>2
  <2> HIDE DEF D
  <2>7. IsFiniteSet(D(n - 1)) /\ Cardinality(D(n - 1)) \in Nat
    BY <1>3, FS_CardinalityType
  <2>8. /\ IsFiniteSet(D(n - 1) \cup {Bindings[n]})
        /\ Cardinality(D(n - 1) \cup {Bindings[n]}) = Cardinality(D(n - 1)) + 1
    BY <2>5, <2>7, FS_AddElement
  <2>9. Len(f[n - 1]) + Len(g[n - 1]) <= Cardinality(D(n - 1))
    BY <1>3
  <2>10. CASE Bindings[n] \notin S \cup T
    BY <2>2, <2>6, <2>7, <2>9, <2>10
  <2>11. CASE Bindings[n] \in S
    <3>1. f[n] = Append(f[n - 1], Bindings[n]) /\ g[n] = g[n - 1]
      BY <2>2, <2>11
    <3>2. D(n) = D(n - 1) \cup {Bindings[n]}
      BY <2>6, <2>11
    <3> QED
      BY <2>4, <2>7, <2>8, <2>9, <3>1, <3>2
  <2>12. CASE Bindings[n] \in T
    <3>1. f[n] = f[n - 1] /\ g[n] = Append(g[n - 1], Bindings[n])
      BY <2>2, <2>12
    <3>2. D(n) = D(n - 1) \cup {Bindings[n]}
      BY <2>6, <2>12
    <3> QED
      BY <2>4, <2>7, <2>8, <2>9, <3>1, <3>2
  <2> QED
    BY <2>10, <2>11, <2>12
<1>4. D(L) = S \cup T
  <2>1. Actions = {Bindings[m] : m \in 1 .. L}
    BY <1>1 DEF Actions, ToSet
  <2> QED
    BY <2>1
<1> HIDE DEF Right
<1>5. ASSUME NEW n \in Bad, \A k \in Bad : n <= k PROVE FALSE
  <2>1. n \in 1 .. L /\ n - 1 \in 0 .. L
    BY <1>1, <1>2, <1>5
  <2>2. n - 1 \notin Bad
    BY <1>5, <2>1
  <2> QED
    BY <1>3, <1>5, <2>1, <2>2
<1>6. Bad \in SUBSET Nat /\ L \in 0 .. L
  BY <1>1
<1>7. L \notin Bad
  <2> HIDE DEF Bad
  <2> QED
    BY <1>5, <1>6, Least
<1> HIDE DEF D
<1> QED
  BY <1>4, <1>6, <1>7 DEF Right

\* One pass over the bindings.
LEMMA OnePass ==
  ASSUME NEW S \in SUBSET Actions, NEW type \in {"keyup", "keydown"}
  PROVE  /\ Posted(S, type) \in Seq(EventType)
         /\ Len(Posted(S, type)) = Len(InOrder(S))
         /\ \A j \in 1 .. Len(Posted(S, type)) :
              Posted(S, type)[j].type = type /\ Posted(S, type)[j].key \in S
         /\ \A k \in S : \E j \in 1 .. Len(Posted(S, type)) :
              Posted(S, type)[j] = [key |-> k, type |-> type]
<1> DEFINE as == InOrder(S)
           p == Posted(S, type)
<1>1. /\ as \in Seq(Actions)
      /\ \A j \in 1 .. Len(as) : as[j] \in S
      /\ \A m \in 1 .. Len(Bindings) :
           Bindings[m] \in S => \E j \in 1 .. Len(as) : as[j] = Bindings[m]
  <2>1. PICK f \in [0 .. Len(Bindings) -> Seq(Actions)] :
          Selects(f, S, Len(Bindings)) /\ as = f[Len(Bindings)]
    BY InOrderIs
  <2>2. Len(Bindings) \in 0 .. Len(Bindings)
    BY BindingsAssumption
  <2> HIDE DEF as
  <2> QED
    BY <2>1, <2>2, Selected
<1> HIDE DEF as
<1>2. p = [i \in 1 .. Len(as) |-> [key |-> as[i], type |-> type]]
  BY DEF Posted, as
<1> HIDE DEF p
<1>3. Len(as) \in Nat /\ \A j \in 1 .. Len(as) : as[j] \in Actions
  BY <1>1, LenProperties, ElementOfSeq
<1>4. p \in Seq(EventType) /\ Len(p) = Len(as)
  <2> DEFINE n == Len(as)
  <2>1. \A i \in 1 .. n : [key |-> as[i], type |-> type] \in EventType
    BY <1>3 DEF EventType
  <2>2. p \in [1 .. n -> EventType] /\ n \in Nat
    BY <1>2, <1>3, <2>1
  <2> HIDE DEF n
  <2>3. p \in Seq(EventType)
    BY <2>2, SeqDef
  <2>4. DOMAIN p = 1 .. n /\ DOMAIN p = 1 .. Len(p) /\ Len(p) \in Nat
    BY <2>2, <2>3, LenProperties
  <2>5. Len(p) = n
    BY <2>2, <2>4
  <2> QED
    BY <2>3, <2>5 DEF n
<1>5. \A j \in 1 .. Len(p) : p[j].type = type /\ p[j].key \in S
  BY <1>1, <1>2, <1>4
<1>6. ASSUME NEW k \in S
      PROVE  \E j \in 1 .. Len(p) : p[j] = [key |-> k, type |-> type]
  <2>1. PICK m \in 1 .. Len(Bindings) : Bindings[m] = k
    BY BindingsAssumption DEF Actions, ToSet
  <2>2. PICK j \in 1 .. Len(as) : as[j] = k
    BY <1>1, <2>1
  <2> QED
    BY <1>2, <1>4, <2>2
<1> QED
  BY <1>4, <1>5, <1>6 DEF p, as

\* A poll posts each change, and no more events than there are changes.
LEMMA PollEvents ==
  ASSUME NEW S \in SUBSET Actions, NEW T \in SUBSET Actions, S \cap T = {}
  PROVE  LET evs == Posted(S, "keyup") \o Posted(T, "keydown") IN
         /\ evs \in Seq(EventType) /\ Len(evs) <= Cardinality(S \cup T)
         /\ \A j \in 1 .. Len(evs) : \/ evs[j].type = "keyup" /\ evs[j].key \in S
                                     \/ evs[j].type = "keydown" /\ evs[j].key \in T
         /\ \A k \in S : \E j \in 1 .. Len(evs) : evs[j] = [key |-> k, type |-> "keyup"]
<1> DEFINE up == Posted(S, "keyup")
           down == Posted(T, "keydown")
           evs == up \o down
<1>1. /\ up \in Seq(EventType) /\ Len(up) = Len(InOrder(S))
      /\ \A j \in 1 .. Len(up) : up[j].type = "keyup" /\ up[j].key \in S
      /\ \A k \in S : \E j \in 1 .. Len(up) : up[j] = [key |-> k, type |-> "keyup"]
  BY OnePass
<1>2. /\ down \in Seq(EventType) /\ Len(down) = Len(InOrder(T))
      /\ \A j \in 1 .. Len(down) : down[j].type = "keydown" /\ down[j].key \in T
  BY OnePass
<1>3. Len(InOrder(S)) + Len(InOrder(T)) <= Cardinality(S \cup T)
  <2>1. PICK f \in [0 .. Len(Bindings) -> Seq(Actions)] :
          Selects(f, S, Len(Bindings)) /\ InOrder(S) = f[Len(Bindings)]
    BY InOrderIs
  <2>2. PICK g \in [0 .. Len(Bindings) -> Seq(Actions)] :
          Selects(g, T, Len(Bindings)) /\ InOrder(T) = g[Len(Bindings)]
    BY InOrderIs
  <2> QED
    BY <2>1, <2>2, TwoSelected
<1> HIDE DEF up, down
<1>4. /\ evs \in Seq(EventType) /\ Len(evs) = Len(up) + Len(down)
      /\ \A j \in 1 .. Len(evs) :
           evs[j] = IF j <= Len(up) THEN up[j] ELSE down[j - Len(up)]
      /\ Len(up) \in Nat /\ Len(down) \in Nat
  <2>1. Len(up) \in Nat /\ Len(down) \in Nat
    BY <1>1, <1>2, LenProperties
  <2>2. evs \in Seq(EventType) /\ Len(evs) = Len(up) + Len(down)
    BY <1>1, <1>2, ConcatProperties
  <2>3. \A j \in 1 .. Len(up) + Len(down) :
          evs[j] = IF j <= Len(up) THEN up[j] ELSE down[j - Len(up)]
    BY <1>1, <1>2, ConcatProperties
  <2> QED
    BY <2>1, <2>2, <2>3
<1> HIDE DEF evs
<1>5. ASSUME NEW j \in 1 .. Len(evs)
      PROVE  \/ evs[j].type = "keyup" /\ evs[j].key \in S
             \/ evs[j].type = "keydown" /\ evs[j].key \in T
  <2>1. CASE j <= Len(up)
    BY <1>1, <1>4, <2>1
  <2>2. CASE ~(j <= Len(up))
    <3>1. j - Len(up) \in 1 .. Len(down) /\ evs[j] = down[j - Len(up)]
      BY <1>4, <2>2
    <3> QED
      BY <1>2, <3>1
  <2> QED
    BY <2>1, <2>2
<1>6. ASSUME NEW k \in S
      PROVE  \E j \in 1 .. Len(evs) : evs[j] = [key |-> k, type |-> "keyup"]
  <2>1. PICK j \in 1 .. Len(up) : up[j] = [key |-> k, type |-> "keyup"]
    BY <1>1
  <2>2. j \in 1 .. Len(evs) /\ evs[j] = up[j]
    BY <1>4
  <2> QED
    BY <2>1, <2>2
<1>7. Len(evs) <= Cardinality(S \cup T)
  BY <1>1, <1>2, <1>3, <1>4
<1> QED
  BY <1>4, <1>5, <1>6, <1>7 DEF evs, up, down

-----------------------------------------------------------------------------
\* The ring.

\* Counting on by less than the ring's size wraps once at most.
LEMMA Wrap ==
  ASSUME NEW i \in 0 .. MaxEvents - 1, NEW n \in 0 .. MaxEvents
  PROVE  Advance(i, n) = IF i + n < MaxEvents THEN i + n ELSE i + n - MaxEvents
BY NumbersAssumption DEF Advance

\* Where posted events end up: each slot keeps the last one it is given.
LEMMA LastGiven ==
  ASSUME NEW L \in Nat, NEW at \in SUBSET (1 .. L), at # {}
  PROVE  (CHOOSE j \in at : \A l \in at : l <= j) \in at
<1> DEFINE T == {n \in Nat : L - n \in at}
<1>1. PICK j \in at : TRUE
  OBVIOUS
<1>2. L - j \in Nat /\ L - (L - j) = j
  OBVIOUS
<1>3. T \in SUBSET Nat /\ T # {}
  BY <1>1, <1>2
<1>4. PICK n \in T : \A k \in T : n <= k
  BY <1>3, Least
<1>5. ASSUME NEW l \in at PROVE l <= L - n
  <2>1. L - l \in T
    BY L - l \in Nat, L - (L - l) = l
  <2>2. n <= L - l /\ n \in Nat /\ l \in Nat
    <3>1. n \in Nat /\ l \in Nat
      OBVIOUS
    <3> HIDE DEF T
    <3> QED
      BY <1>4, <2>1, <3>1
  <2> QED
    BY <2>2
<1> QED
  BY <1>4, <1>5

\* Posting keeps to the ring.
LEMMA PostsInRing ==
  ASSUME RingOK, NEW evs \in Seq(EventType), PostEvents(evs)
  PROVE  RingOK'
<1> DEFINE At(i) == {j \in 1 .. Len(evs) : Advance(eventhead, j - 1) = i}
           Last0(i) == CHOOSE j \in At(i) : \A l \in At(i) : l <= j
<1>1. /\ events' = [i \in 0 .. MaxEvents - 1 |->
                       IF At(i) = {} THEN events[i] ELSE evs[Last0(i)]]
      /\ eventhead' = Advance(eventhead, Len(evs)) /\ eventtail' = eventtail
  BY DEF PostEvents
<1>2. Len(evs) \in Nat
  BY LenProperties
<1>3. ASSUME NEW i \in 0 .. MaxEvents - 1, At(i) # {} PROVE evs[Last0(i)] \in EventType
  <2>1. Last0(i) \in 1 .. Len(evs)
    BY <1>2, <1>3, LastGiven
  <2> HIDE DEF Last0
  <2> QED
    BY <2>1, ElementOfSeq
<1> HIDE DEF At, Last0
<1>4. events' \in [0 .. MaxEvents - 1 -> {Free} \cup EventType]
  BY <1>1, <1>3 DEF RingOK
<1>5. eventhead' \in 0 .. MaxEvents - 1
  BY <1>1, <1>2, NumbersAssumption DEF Advance, RingOK
<1> QED
  BY <1>1, <1>4, <1>5 DEF RingOK

\* The slots with events in them.
Pending ==
  IF eventtail <= eventhead THEN eventtail .. eventhead - 1
  ELSE (eventtail .. MaxEvents - 1) \cup (0 .. eventhead - 1)

\* Events that fit the ring all wait in it.
LEMMA PostsAll ==
  ASSUME RingOK, Drained, NEW evs \in Seq(EventType), Len(evs) < MaxEvents,
         PostEvents(evs)
  PROVE  /\ \A i \in Pending' : \E j \in 1 .. Len(evs) : events'[i] = evs[j]
         /\ \A j \in 1 .. Len(evs) : \E i \in Pending' : events'[i] = evs[j]
<1> DEFINE h == eventhead
           L == Len(evs)
           At(i) == {j \in 1 .. L : Advance(h, j - 1) = i}
           Last0(i) == CHOOSE j \in At(i) : \A l \in At(i) : l <= j
<1>1. /\ events' = [i \in 0 .. MaxEvents - 1 |->
                       IF At(i) = {} THEN events[i] ELSE evs[Last0(i)]]
      /\ eventhead' = Advance(h, L) /\ eventtail' = h /\ eventtail = h
  BY DEF PostEvents, Drained
<1>2. L \in Nat /\ L < MaxEvents /\ MaxEvents \in Nat /\ h \in 0 .. MaxEvents - 1
  BY LenProperties, NumbersAssumption DEF RingOK
<1>3. ASSUME NEW j \in 1 .. L
      PROVE  Advance(h, j - 1) = IF h + j - 1 < MaxEvents THEN h + j - 1
                                 ELSE h + j - 1 - MaxEvents
  BY <1>2, Wrap
<1>4. Advance(h, L) = IF h + L < MaxEvents THEN h + L ELSE h + L - MaxEvents
  BY <1>2, Wrap
<1> HIDE DEF L, h
<1>5. ASSUME NEW j \in 1 .. L
      PROVE  /\ Advance(h, j - 1) \in 0 .. MaxEvents - 1 /\ Advance(h, j - 1) \in Pending'
             /\ At(Advance(h, j - 1)) = {j}
  <2>1. Advance(h, j - 1) \in 0 .. MaxEvents - 1
    BY <1>2, <1>3
  <2>2. Advance(h, j - 1) \in Pending'
    BY <1>1, <1>2, <1>3, <1>4 DEF Pending
  <2>3. ASSUME NEW l \in 1 .. L, Advance(h, l - 1) = Advance(h, j - 1) PROVE l = j
    BY <1>2, <1>3, <2>3
  <2> QED
    BY <2>1, <2>2, <2>3
<1>6. ASSUME NEW j \in 1 .. L PROVE events'[Advance(h, j - 1)] = evs[j]
  <2>1. Last0(Advance(h, j - 1)) = j
    BY <1>2, <1>5
  <2> HIDE DEF Last0, At
  <2> QED
    BY <1>1, <1>5, <2>1
<1>7. ASSUME NEW i \in Pending' PROVE \E j \in 1 .. L : i = Advance(h, j - 1)
  <2>1. CASE i >= h
    <3>1. i - h + 1 \in 1 .. L /\ h + (i - h + 1) - 1 = i /\ i < MaxEvents
      BY <1>1, <1>2, <1>4, <2>1 DEF Pending
    <3> DEFINE j == i - h + 1
    <3>2. j \in 1 .. L /\ h + j - 1 = i /\ h + j - 1 < MaxEvents
      BY <3>1
    <3> HIDE DEF j
    <3>3. Advance(h, j - 1) = i
      BY <1>3, <3>2
    <3> QED
      BY <3>2, <3>3
  <2>2. CASE i < h
    <3>1. i \in 0 .. MaxEvents - 1 /\ i + MaxEvents - h + 1 \in 1 .. L
      BY <1>1, <1>2, <1>4, <2>2 DEF Pending
    <3> DEFINE j == i + MaxEvents - h + 1
    <3>2. j \in 1 .. L /\ h + j - 1 - MaxEvents = i /\ ~(h + j - 1 < MaxEvents)
      BY <1>2, <3>1
    <3> HIDE DEF j
    <3>3. Advance(h, j - 1) = i
      BY <1>3, <3>2
    <3> QED
      BY <3>2, <3>3
  <2> QED
    BY <1>1, <1>2, <1>4, <2>1, <2>2 DEF Pending
<1> QED
  BY <1>5, <1>6, <1>7 DEF L

\* Taking one leaves the others.
LEMMA TakesOne ==
  ASSUME RingOK, TakeEvent
  PROVE  eventtail \in Pending /\ Pending' = Pending \ {eventtail} /\ events' = events
<1>1. /\ eventtail' = Advance(eventtail, 1) /\ eventhead' = eventhead /\ events' = events
      /\ eventhead # eventtail
  BY DEF TakeEvent, Drained
<1>2. /\ MaxEvents \in Nat /\ eventtail \in 0 .. MaxEvents - 1
      /\ eventhead \in 0 .. MaxEvents - 1
  BY NumbersAssumption DEF RingOK
<1>3. eventtail' = IF eventtail + 1 < MaxEvents THEN eventtail + 1 ELSE eventtail + 1 - MaxEvents
  BY <1>1, <1>2, Wrap
<1>4. eventtail \in Pending
  BY <1>1, <1>2 DEF Pending
<1>5. CASE eventtail + 1 < MaxEvents
  BY <1>1, <1>2, <1>3, <1>5 DEF Pending
<1>6. CASE eventtail + 1 = MaxEvents
  BY <1>1, <1>2, <1>3, <1>6 DEF Pending
<1> QED
  BY <1>1, <1>2, <1>4, <1>5, <1>6

-----------------------------------------------------------------------------
\* The chords.

\* How one chord goes on, held or not looked at.
LEMMA ChordGoesOn ==
  ASSUME NEW hold \in Nat \ {0}, NEW c \in ChordType(hold), NEW d \in Nat
  PROVE  /\ Aged(c, d, hold) \in ChordType(hold)
         /\ Aged(c, d, hold).active <=> c.active
         /\ Aged(c, d, hold).consumed <=> (c.active /\ c.consumed)
         /\ Held(c, d, hold).consumed <=> c.consumed
         /\ LET k == Consume(Held(c, d, hold), hold) IN
            /\ k \in ChordType(hold) /\ k.active
            /\ c.active /\ c.age + d < hold => k.age = c.age + d
            /\ c.active /\ ~(c.age + d < hold) => k.age = hold
            /\ k.consumed <=> c.consumed \/ k.age >= hold
<1>1. c.age \in 0 .. hold /\ c.active \in BOOLEAN /\ c.consumed \in BOOLEAN
  BY DEF ChordType
<1> DEFINE e == IF c.active THEN Elapsed(c, d, hold) ELSE 0
           H == Held(c, d, hold)
           k == Consume(H, hold)
<1>2. Elapsed(c, d, hold) \in 0 .. hold /\ e \in 0 .. hold
  BY <1>1 DEF Elapsed
<1>3. c.active => e = IF c.age + d < hold THEN c.age + d ELSE hold
  BY DEF Elapsed
<1>4. /\ Aged(c, d, hold) \in ChordType(hold)
      /\ Aged(c, d, hold).active <=> c.active
      /\ Aged(c, d, hold).consumed <=> (c.active /\ c.consumed)
  <2>1. CASE c.active
    BY <1>1, <1>2, <2>1 DEF Aged, ChordType
  <2>2. CASE ~c.active
    BY <1>1, <2>2 DEF Aged, Idle, ChordType
  <2> QED
    BY <2>1, <2>2
<1>5. H \in ChordType(hold) /\ H.active /\ H.age = e /\ (H.consumed <=> c.consumed)
  <2>1. H = [c EXCEPT !.active = TRUE, !.age = e]
    BY DEF Held
  <2> HIDE DEF H, e
  <2> QED
    BY <1>1, <1>2, <2>1 DEF ChordType
<1> HIDE DEF H, e
<1>6. /\ k \in ChordType(hold) /\ k.active /\ k.age = e
      /\ k.consumed <=> c.consumed \/ e >= hold
  <2> DEFINE z == H.consumed \/ HeldLongEnough(H, hold)
  <2>1. k = [H EXCEPT !.consumed = z] /\ z \in BOOLEAN
    BY <1>5 DEF Consume
  <2>2. z <=> c.consumed \/ e >= hold
    BY <1>5 DEF HeldLongEnough
  <2> HIDE DEF k, z
  <2> QED
    BY <1>5, <2>1, <2>2 DEF ChordType
<1> HIDE DEF k
<1> QED
  BY <1>3, <1>4, <1>5, <1>6 DEF k, H

ResetInv ==
  /\ reset.consumed => reset.active
  /\ resetSeen # None => /\ reset.active /\ reset.age >= resetSeen
                         /\ resetSeen = ResetHold => reset.consumed
  /\ ~guard => reset = Idle
  /\ resetDone => reset.consumed
  /\ guard => published \cap ResetChord = {}

PairingInv ==
  /\ pairing.consumed => pairing.active
  /\ ~guard /\ pairingSeen # None =>
       /\ pairing.active /\ pairing.age >= pairingSeen
       /\ pairingSeen = PairingHold => pairing.consumed
       /\ published \cap PairingChord = {}
  /\ pairingDone => pairing.consumed

\* The six ways through handle_gamepad_chords.
Ways(h, d) ==
  \/ PollReset(h, d) \/ PollGuarded(h, d) \/ PollPairing(h, d)
  \/ PollPartial(h, d) \/ PollReleasing(h, d) \/ PollPlain(h, d)

\* What a poll requests, and what it publishes.
LEMMA Requests ==
  ASSUME NEW h \in Holds, NEW d \in Delays, Ways(h, d)
  PROVE  \E req \in {None, "pairing", "forget"}, out \in SUBSET Actions :
           Watch(h, d, req) /\ Publish(out)
<1>1. h \subseteq Actions
  BY HoldsAssumption
<1>2. h \ ResetChord \in SUBSET Actions /\ h \ PairingChord \in SUBSET Actions
      /\ h \in SUBSET Actions
  BY <1>1
<1>3. CASE PollReset(h, d)
  BY <1>2, <1>3 DEF PollReset
<1>4. CASE PollGuarded(h, d)
  BY <1>2, <1>4 DEF PollGuarded
<1>5. CASE PollPairing(h, d)
  BY <1>2, <1>5 DEF PollPairing
<1>6. CASE PollPartial(h, d)
  BY <1>2, <1>6 DEF PollPartial
<1>7. CASE PollReleasing(h, d)
  BY <1>2, <1>7 DEF PollReleasing
<1>8. CASE PollPlain(h, d)
  BY <1>2, <1>8 DEF PollPlain
<1> QED
  BY <1>3, <1>4, <1>5, <1>6, <1>7, <1>8 DEF Ways

\* What is posted keeps to the ring.
LEMMA PublishInRing ==
  ASSUME ChordsOK, RingOK, NEW out \in SUBSET Actions, Publish(out)
  PROVE  RingOK' /\ published' = out
<1> DEFINE S == published \ out
           T == out \ published
           evs == Posted(S, "keyup") \o Posted(T, "keydown")
<1>1. S \in SUBSET Actions /\ T \in SUBSET Actions /\ S \cap T = {}
  BY DEF ChordsOK
<1>2. PostEvents(evs) /\ published' = out
  BY DEF Publish
<1> HIDE DEF S, T
<1>3. evs \in Seq(EventType)
  BY <1>1, PollEvents
<1> HIDE DEF evs
<1> QED
  BY <1>2, <1>3, PostsInRing

\* The properties' memory of the polls.
LEMMA WatchTyped ==
  ASSUME ChordsOK, NEW h, NEW d \in Delays, NEW req \in {None, "pairing", "forget"},
         Watch(h, d, req)
  PROVE  /\ request' = req
         /\ pairingSeen' \in (0 .. PairingHold) \cup {None}
         /\ resetSeen' \in (0 .. ResetHold) \cup {None}
         /\ pairingDone' \in BOOLEAN /\ resetDone' \in BOOLEAN
         /\ pairingSeen' # None => PairingChord \subseteq h
         /\ pairingSeen' # None =>
              pairingSeen' = IF pairingSeen = None THEN 0
                             ELSE IF pairingSeen + d < PairingHold THEN pairingSeen + d
                             ELSE PairingHold
         /\ resetSeen' # None => ResetChord \subseteq h
         /\ resetSeen' # None =>
              resetSeen' = IF resetSeen = None THEN 0
                           ELSE IF resetSeen + d < ResetHold THEN resetSeen + d
                           ELSE ResetHold
         /\ pairingDone' => req = "pairing" \/ (pairingDone /\ h \cap PairingChord # {})
         /\ resetDone' => req = "forget" \/ (resetDone /\ h \cap ResetChord # {})
<1>1. d \in Nat /\ PairingHold \in Nat /\ ResetHold \in Nat /\ None \notin Nat
  BY HoldsAssumption, NumbersAssumption, NoneAssumption
<1>2. /\ pairingSeen' = IF ~(PairingChord \subseteq h) THEN None
                        ELSE IF pairingSeen = None THEN 0
                        ELSE IF pairingSeen + d < PairingHold THEN pairingSeen + d
                        ELSE PairingHold
      /\ resetSeen' = IF ~(ResetChord \subseteq h) THEN None
                      ELSE IF resetSeen = None THEN 0
                      ELSE IF resetSeen + d < ResetHold THEN resetSeen + d
                      ELSE ResetHold
  BY DEF Watch, Elapsed
<1>3. /\ pairingDone' = (req = "pairing" \/ (pairingDone /\ h \cap PairingChord # {}))
      /\ resetDone' = (req = "forget" \/ (resetDone /\ h \cap ResetChord # {}))
      /\ request' = req
  BY DEF Watch
<1>4. /\ pairingSeen \in (0 .. PairingHold) \cup {None}
      /\ resetSeen \in (0 .. ResetHold) \cup {None}
  BY DEF ChordsOK
<1>5. pairingSeen' \in (0 .. PairingHold) \cup {None}
  BY <1>1, <1>2, <1>4
<1>6. resetSeen' \in (0 .. ResetHold) \cup {None}
  BY <1>1, <1>2, <1>4
<1>7. pairingDone' \in BOOLEAN /\ resetDone' \in BOOLEAN
  BY <1>3
<1>8. /\ pairingDone' => req = "pairing" \/ (pairingDone /\ h \cap PairingChord # {})
      /\ resetDone' => req = "forget" \/ (resetDone /\ h \cap ResetChord # {})
  BY <1>3
<1> QED
  BY <1>2, <1>3, <1>5, <1>6, <1>7, <1>8

\* A poll leaves both chords what a chord can be.
LEMMA PollTyped ==
  ASSUME TypeOK, NEW h \in Holds, NEW d \in Delays, Ways(h, d)
  PROVE  ChordsOK' /\ RingOK'
<1>1. d \in Nat /\ PairingHold \in Nat \ {0} /\ ResetHold \in Nat \ {0}
  BY HoldsAssumption, NumbersAssumption
<1>2. pairing \in ChordType(PairingHold) /\ reset \in ChordType(ResetHold) /\ guard \in BOOLEAN
  BY DEF TypeOK, ChordsOK
<1>3. /\ Aged(pairing, d, PairingHold) \in ChordType(PairingHold)
      /\ Consume(Held(pairing, d, PairingHold), PairingHold) \in ChordType(PairingHold)
      /\ Aged(reset, d, ResetHold) \in ChordType(ResetHold)
      /\ Consume(Held(reset, d, ResetHold), ResetHold) \in ChordType(ResetHold)
  BY <1>1, <1>2, ChordGoesOn
<1>4. Idle \in ChordType(PairingHold) /\ Idle \in ChordType(ResetHold)
  BY <1>1 DEF Idle, ChordType
<1>5. /\ pairing' \in {Aged(pairing, d, PairingHold), Idle,
                       Consume(Held(pairing, d, PairingHold), PairingHold)}
      /\ reset' \in {Aged(reset, d, ResetHold), Idle,
                     Consume(Held(reset, d, ResetHold), ResetHold)}
      /\ guard' \in BOOLEAN
  <2>1. CASE PollReset(h, d)
    BY <2>1 DEF PollReset
  <2>2. CASE PollGuarded(h, d)
    BY <2>2 DEF PollGuarded
  <2>3. CASE PollPairing(h, d)
    BY <1>2, <2>3 DEF PollPairing, Unguarded
  <2>4. CASE PollPartial(h, d)
    BY <2>4 DEF PollPartial, Unguarded
  <2>5. CASE PollReleasing(h, d)
    BY <1>2, <2>5 DEF PollReleasing, NoChord, Unguarded
  <2>6. CASE PollPlain(h, d)
    BY <1>2, <2>6 DEF PollPlain, NoChord, Unguarded
  <2> QED
    BY <2>1, <2>2, <2>3, <2>4, <2>5, <2>6 DEF Ways
<1>6. pairing' \in ChordType(PairingHold) /\ reset' \in ChordType(ResetHold) /\ guard' \in BOOLEAN
  BY <1>3, <1>4, <1>5
<1>7. PICK req \in {None, "pairing", "forget"}, out \in SUBSET Actions :
        Watch(h, d, req) /\ Publish(out)
  BY Requests
<1>8. /\ request' = req
      /\ pairingSeen' \in (0 .. PairingHold) \cup {None}
      /\ resetSeen' \in (0 .. ResetHold) \cup {None}
      /\ pairingDone' \in BOOLEAN /\ resetDone' \in BOOLEAN
  BY <1>7, WatchTyped DEF TypeOK
<1>9. RingOK' /\ published' = out
  BY <1>7, PublishInRing DEF TypeOK
<1> QED
  BY <1>6, <1>7, <1>8, <1>9 DEF ChordsOK

\* The reset chord.
LEMMA ResetKept ==
  ASSUME TypeOK, ResetInv, NEW h \in Holds, NEW d \in Delays, Ways(h, d)
  PROVE  ResetInv'
<1>1. d \in Nat /\ ResetHold \in Nat \ {0} /\ None \notin Nat
  BY HoldsAssumption, NumbersAssumption, NoneAssumption
<1>2. /\ reset \in ChordType(ResetHold) /\ guard \in BOOLEAN /\ reset.age \in Nat
      /\ resetSeen \in (0 .. ResetHold) \cup {None}
  BY <1>1 DEF TypeOK, ChordsOK, ChordType
<1> DEFINE A == Aged(reset, d, ResetHold)
           H == Held(reset, d, ResetHold)
           K == Consume(H, ResetHold)
<1>3. /\ A \in ChordType(ResetHold) /\ (A.active <=> reset.active)
      /\ A.consumed <=> (reset.active /\ reset.consumed)
      /\ K \in ChordType(ResetHold) /\ K.active /\ (H.consumed <=> reset.consumed)
      /\ reset.active /\ reset.age + d < ResetHold => K.age = reset.age + d
      /\ reset.active /\ ~(reset.age + d < ResetHold) => K.age = ResetHold
      /\ K.consumed <=> reset.consumed \/ K.age >= ResetHold
  BY <1>1, <1>2, ChordGoesOn
<1>4. K.age \in 0 .. ResetHold
  BY <1>3 DEF ChordType
<1>5. Idle.consumed = FALSE /\ Idle.active = FALSE
  BY DEF Idle
<1> HIDE DEF A, K, H
<1>6. CASE PollReset(h, d)
  <2> DEFINE req == IF reset'.consumed /\ ~H.consumed THEN "forget" ELSE None
  <2>1. /\ reset' = K /\ guard' = TRUE /\ Watch(h, d, req) /\ Publish(h \ ResetChord)
    BY <1>6 DEF PollReset, K, H
  <2>2. req \in {None, "pairing", "forget"} /\ (req = "forget" => K.consumed)
    BY <2>1, NoneAssumption
  <2> HIDE DEF req
  <2>3. /\ resetSeen' \in (0 .. ResetHold) \cup {None}
        /\ resetSeen' # None =>
             resetSeen' = IF resetSeen = None THEN 0
                          ELSE IF resetSeen + d < ResetHold THEN resetSeen + d
                          ELSE ResetHold
        /\ resetDone' => req = "forget" \/ (resetDone /\ h \cap ResetChord # {})
    BY <2>1, <2>2, WatchTyped DEF TypeOK
  <2>4. published' = h \ ResetChord
    BY <2>1 DEF Publish
  <2>5. reset'.active /\ (resetDone' => reset'.consumed)
    BY <1>3, <2>1, <2>2, <2>3 DEF ResetInv
  <2>6. resetSeen' # None => K.age >= resetSeen'
    <3>1. CASE resetSeen = None
      BY <1>4, <2>3, <3>1
    <3>2. CASE resetSeen # None
      BY <1>1, <1>2, <1>3, <1>4, <2>3, <3>2 DEF ResetInv
    <3> QED
      BY <3>1, <3>2
  <2>7. resetSeen' # None /\ resetSeen' = ResetHold => K.consumed
    BY <1>1, <1>3, <1>4, <2>6
  <2> QED
    BY <2>1, <2>4, <2>5, <2>6, <2>7 DEF ResetInv
<1>7. CASE PollGuarded(h, d)
  <2>1. /\ ~(ResetChord \subseteq h) /\ guard /\ guard' = (h \cap ResetChord # {})
        /\ reset' = IF h \cap ResetChord = {} THEN Idle ELSE A
        /\ Watch(h, d, None) /\ published' = h \ ResetChord
    BY <1>7 DEF PollGuarded, AllReleased, A, Publish
  <2>2. /\ resetSeen' # None => ResetChord \subseteq h
        /\ resetDone' => None = "forget" \/ (resetDone /\ h \cap ResetChord # {})
    BY <2>1, WatchTyped DEF TypeOK
  <2>3. resetSeen' = None /\ (resetDone' => resetDone /\ h \cap ResetChord # {})
    BY <2>1, <2>2, NoneAssumption
  <2>4. CASE h \cap ResetChord = {}
    BY <1>5, <2>1, <2>3, <2>4 DEF ResetInv
  <2>5. CASE h \cap ResetChord # {}
    BY <1>3, <2>1, <2>3, <2>5 DEF ResetInv
  <2> QED
    BY <2>4, <2>5
<1>8. ASSUME Unguarded(h), NEW req \in {None, "pairing"}, Watch(h, d, req),
             guard' => published' = h \ ResetChord
      PROVE  ResetInv'
  <2>1. ~(ResetChord \subseteq h) /\ ~guard /\ reset' = Idle
    BY <1>8 DEF Unguarded
  <2>2. /\ resetSeen' # None => ResetChord \subseteq h
        /\ resetDone' => req = "forget" \/ (resetDone /\ h \cap ResetChord # {})
    BY <1>8, WatchTyped DEF TypeOK
  <2>3. ~resetDone
    BY <1>5, <2>1 DEF ResetInv
  <2>4. resetSeen' = None /\ ~resetDone'
    BY <1>8, <2>1, <2>2, <2>3, NoneAssumption
  <2> QED
    BY <1>5, <1>8, <2>1, <2>4 DEF ResetInv
<1>9. CASE PollPairing(h, d)
  <2>1. PICK req \in {None, "pairing"} : Watch(h, d, req)
    BY <1>9 DEF PollPairing
  <2>2. Unguarded(h) /\ ~guard'
    BY <1>9 DEF PollPairing, Unguarded
  <2> QED
    BY <1>8, <2>1, <2>2
<1>10. CASE PollPartial(h, d)
  <2>1. Unguarded(h) /\ Watch(h, d, None) /\ published' = h \ ResetChord
    BY <1>10 DEF PollPartial, Publish
  <2> QED
    BY <1>8, <2>1
<1>11. CASE PollReleasing(h, d) \/ PollPlain(h, d)
  <2>1. Unguarded(h) /\ Watch(h, d, None) /\ ~guard'
    BY <1>11 DEF PollReleasing, PollPlain, NoChord, Unguarded
  <2> QED
    BY <1>8, <2>1
<1> QED
  BY <1>6, <1>7, <1>9, <1>10, <1>11 DEF Ways

\* The pairing chord.  Back belongs to both: where the guard comes down, Menu and
\* Back are not both held.
LEMMA PairingKept ==
  ASSUME TypeOK, PairingInv, NEW h \in Holds, NEW d \in Delays, Ways(h, d)
  PROVE  PairingInv'
<1>1. d \in Nat /\ PairingHold \in Nat \ {0} /\ None \notin Nat
  BY HoldsAssumption, NumbersAssumption, NoneAssumption
<1>2. /\ pairing \in ChordType(PairingHold) /\ guard \in BOOLEAN /\ pairing.age \in Nat
      /\ pairingSeen \in (0 .. PairingHold) \cup {None}
  BY <1>1 DEF TypeOK, ChordsOK, ChordType
<1> DEFINE A == Aged(pairing, d, PairingHold)
           H == Held(pairing, d, PairingHold)
           K == Consume(H, PairingHold)
<1>3. /\ A \in ChordType(PairingHold) /\ (A.active <=> pairing.active)
      /\ A.consumed <=> (pairing.active /\ pairing.consumed)
      /\ K \in ChordType(PairingHold) /\ K.active /\ (H.consumed <=> pairing.consumed)
      /\ pairing.active /\ pairing.age + d < PairingHold => K.age = pairing.age + d
      /\ pairing.active /\ ~(pairing.age + d < PairingHold) => K.age = PairingHold
      /\ K.consumed <=> pairing.consumed \/ K.age >= PairingHold
  BY <1>1, <1>2, ChordGoesOn
<1>4. K.age \in 0 .. PairingHold
  BY <1>3 DEF ChordType
<1>5. Idle.consumed = FALSE /\ Idle.active = FALSE
  BY DEF Idle
<1> HIDE DEF A, K, H
<1>6. ASSUME NEW req \in {None, "forget"}, Watch(h, d, req), pairing' = A,
             guard' \/ ~(PairingChord \subseteq h)
      PROVE  PairingInv'
  <2>1. /\ pairingSeen' # None => PairingChord \subseteq h
        /\ pairingDone' => req = "pairing" \/ (pairingDone /\ h \cap PairingChord # {})
    BY <1>6, WatchTyped DEF TypeOK
  <2>2. req # "pairing"
    BY <1>6, NoneAssumption
  <2>3. pairingDone' => pairing'.consumed
    BY <1>3, <1>6, <2>1, <2>2 DEF PairingInv
  <2>4. pairing'.consumed => pairing'.active
    BY <1>3, <1>6
  <2> QED
    BY <1>6, <2>1, <2>3, <2>4 DEF PairingInv
<1>7. CASE PollReset(h, d)
  <2>1. PICK req \in {None, "forget"} : Watch(h, d, req)
    BY <1>7 DEF PollReset
  <2>2. pairing' = A /\ guard'
    BY <1>7 DEF PollReset, A
  <2> QED
    BY <1>6, <2>1, <2>2
<1>8. CASE PollGuarded(h, d)
  <2>1. pairing' = A /\ Watch(h, d, None) /\ guard' = (h \cap ResetChord # {})
    BY <1>8 DEF PollGuarded, AllReleased, A
  <2>2. h \cap ResetChord = {} => ~(PairingChord \subseteq h)
    BY ChordsAssumption
  <2> QED
    BY <1>6, <2>1, <2>2
<1>9. CASE PollPairing(h, d)
  <2> DEFINE req == IF pairing'.consumed /\ ~H.consumed THEN "pairing" ELSE None
  <2>1. /\ pairing' = K /\ ~guard /\ ~guard' /\ PairingChord \subseteq h
        /\ Watch(h, d, req) /\ published' = h \ PairingChord
    BY <1>9 DEF PollPairing, Unguarded, K, H, Publish
  <2>2. req \in {None, "pairing", "forget"} /\ (req = "pairing" => K.consumed)
    BY <2>1, NoneAssumption
  <2> HIDE DEF req
  <2>3. /\ pairingSeen' \in (0 .. PairingHold) \cup {None}
        /\ pairingSeen' # None =>
             pairingSeen' = IF pairingSeen = None THEN 0
                            ELSE IF pairingSeen + d < PairingHold THEN pairingSeen + d
                            ELSE PairingHold
        /\ pairingDone' => req = "pairing" \/ (pairingDone /\ h \cap PairingChord # {})
    BY <2>1, <2>2, WatchTyped DEF TypeOK
  <2>4. pairing'.active /\ (pairingDone' => pairing'.consumed)
    BY <1>3, <2>1, <2>2, <2>3 DEF PairingInv
  <2>5. pairingSeen' # None => K.age >= pairingSeen'
    <3>1. CASE pairingSeen = None
      BY <1>4, <2>3, <3>1
    <3>2. CASE pairingSeen # None
      BY <1>1, <1>2, <1>3, <1>4, <2>1, <2>3, <3>2 DEF PairingInv
    <3> QED
      BY <3>1, <3>2
  <2>6. pairingSeen' # None /\ pairingSeen' = PairingHold => K.consumed
    BY <1>1, <1>3, <1>4, <2>5
  <2>7. published' \cap PairingChord = {}
    BY <2>1
  <2> QED
    BY <2>1, <2>4, <2>5, <2>6, <2>7 DEF PairingInv
<1>10. CASE PollPartial(h, d)
  BY <1>6, <1>10 DEF PollPartial, Unguarded, A
<1>11. CASE PollReleasing(h, d)
  <2>1. /\ ~(PairingChord \subseteq h) /\ Watch(h, d, None)
        /\ pairing' = IF h \cap PairingChord = {} THEN Idle ELSE A
    BY <1>11 DEF PollReleasing, NoChord, A
  <2>2. CASE h \cap PairingChord # {}
    BY <1>6, <2>1, <2>2
  <2>3. CASE h \cap PairingChord = {}
    <3>1. /\ pairingSeen' # None => PairingChord \subseteq h
          /\ pairingDone' => None = "pairing" \/ (pairingDone /\ h \cap PairingChord # {})
      BY <2>1, WatchTyped DEF TypeOK
    <3> QED
      BY <1>5, <2>1, <2>3, <3>1, NoneAssumption DEF PairingInv
  <2> QED
    BY <2>2, <2>3
<1>12. CASE PollPlain(h, d)
  <2>1. /\ ~(PairingChord \subseteq h) /\ Watch(h, d, None) /\ pairing' = Idle
        /\ ~pairing.consumed
    BY <1>12 DEF PollPlain, NoChord
  <2>2. /\ pairingSeen' # None => PairingChord \subseteq h
        /\ pairingDone' => None = "pairing" \/ (pairingDone /\ h \cap PairingChord # {})
    BY <2>1, WatchTyped DEF TypeOK
  <2> QED
    BY <1>5, <2>1, <2>2, NoneAssumption DEF PairingInv
<1> QED
  BY <1>7, <1>8, <1>9, <1>10, <1>11, <1>12 DEF Ways

\* No request is made again before the chord has been released.
LEMMA RequestsOnce ==
  ASSUME TypeOK, PairingInv, ResetInv, NEW h \in Holds, NEW d \in Delays, Ways(h, d)
  PROVE  /\ request' = "pairing" => ~pairingDone
         /\ request' = "forget" => ~resetDone
<1>1. d \in Nat /\ PairingHold \in Nat \ {0} /\ ResetHold \in Nat \ {0}
  BY HoldsAssumption, NumbersAssumption
<1>2. /\ pairing \in ChordType(PairingHold) /\ reset \in ChordType(ResetHold)
  BY DEF TypeOK, ChordsOK
<1>3. /\ Held(pairing, d, PairingHold).consumed <=> pairing.consumed
      /\ Held(reset, d, ResetHold).consumed <=> reset.consumed
  BY <1>1, <1>2, ChordGoesOn
<1>4. CASE PollReset(h, d)
  <2>1. request' = IF reset'.consumed /\ ~Held(reset, d, ResetHold).consumed
                   THEN "forget" ELSE None
    BY <1>4 DEF PollReset, Watch
  <2> QED
    BY <1>3, <2>1, NoneAssumption DEF ResetInv
<1>5. CASE PollPairing(h, d)
  <2>1. request' = IF pairing'.consumed /\ ~Held(pairing, d, PairingHold).consumed
                   THEN "pairing" ELSE None
    BY <1>5 DEF PollPairing, Watch
  <2> QED
    BY <1>3, <2>1, NoneAssumption DEF PairingInv
<1>6. CASE \/ PollGuarded(h, d) \/ PollPartial(h, d)
           \/ PollReleasing(h, d) \/ PollPlain(h, d)
  <2>1. request' = None
    BY <1>6 DEF PollGuarded, PollPartial, PollReleasing, PollPlain, Watch
  <2> QED
    BY <2>1, NoneAssumption
<1> QED
  BY <1>4, <1>5, <1>6 DEF Ways

-----------------------------------------------------------------------------
\* All steps.

Inv == TypeOK /\ PairingInv /\ ResetInv

\* The invariant holds at the start,
LEMMA InvInitial ==
  ASSUME Init
  PROVE  Inv
<1>1. Idle \in ChordType(PairingHold) /\ Idle \in ChordType(ResetHold) /\ ~Idle.consumed
  BY NumbersAssumption DEF Idle, ChordType
<1>2. ChordsOK
  BY <1>1 DEF Init, ChordsOK
<1>3. RingOK
  BY NumbersAssumption DEF Init, RingOK
<1>4. TypeOK
  BY <1>2, <1>3 DEF Init, TypeOK
<1> QED
  BY <1>1, <1>4 DEF Init, Inv, PairingInv, ResetInv

\* What the game does to the ring and its keys keeps them what they can be.
LEMMA TakeTyped ==
  ASSUME TypeOK, EatEvent \/ KeyDown \/ KeyUp
  PROVE  TypeOK'
<1>1. /\ eventtail' = Advance(eventtail, 1)
      /\ UNCHANGED <<events, eventhead, chords, published, playing>>
  BY DEF EatEvent, KeyDown, KeyUp, TakeEvent
<1>2. eventtail \in 0 .. MaxEvents - 1
  BY DEF TypeOK, RingOK
<1>3. eventtail' \in 0 .. MaxEvents - 1
  BY <1>1, <1>2, NumbersAssumption DEF Advance
<1>4. RingOK'
  BY <1>1, <1>3 DEF TypeOK, RingOK
<1>5. ChordsOK'
  BY <1>1 DEF TypeOK, ChordsOK, chords
<1>6. gamekeydown' \subseteq Actions
  <2>1. CASE EatEvent \/ KeyUp
    BY <2>1 DEF EatEvent, KeyUp, TypeOK
  <2>2. CASE KeyDown
    <3>1. /\ events[eventtail].type = "keydown"
          /\ gamekeydown' = gamekeydown \cup {events[eventtail].key}
      BY <2>2 DEF KeyDown
    <3>2. events[eventtail] \in {Free} \cup EventType /\ Free.type = None
      BY <1>2 DEF TypeOK, RingOK, Free
    <3>3. events[eventtail] \in EventType
      BY <3>1, <3>2, NoneAssumption
    <3>4. events[eventtail].key \in Actions
      BY <3>3 DEF EventType
    <3> QED
      BY <3>1, <3>4 DEF TypeOK
  <2> QED
    BY <2>1, <2>2
<1> QED
  BY <1>1, <1>4, <1>5, <1>6 DEF TypeOK

\* and every step keeps it.
LEMMA InvStep ==
  ASSUME Inv, [Next]_vars
  PROVE  Inv'
<1>1. TypeOK /\ PairingInv /\ ResetInv
  BY DEF Inv
<1>2. CASE Poll
  <2>1. PICK h \in Holds, d \in Delays : Ways(h, d)
    BY <1>2 DEF Poll, Ways
  <2>2. UNCHANGED <<gamekeydown, playing>>
    BY <1>2 DEF Poll
  <2>3. ChordsOK' /\ RingOK'
    BY <1>1, <2>1, PollTyped
  <2>4. TypeOK'
    BY <1>1, <2>2, <2>3 DEF TypeOK
  <2>5. PairingInv' /\ ResetInv'
    BY <1>1, <2>1, PairingKept, ResetKept
  <2> QED
    BY <2>4, <2>5 DEF Inv
<1>3. ASSUME UNCHANGED <<chords, published>> PROVE PairingInv' /\ ResetInv'
  BY <1>1, <1>3 DEF chords, PairingInv, ResetInv, Idle
<1>4. CASE EatEvent \/ KeyDown \/ KeyUp
  <2>1. UNCHANGED <<chords, published>>
    BY <1>4 DEF EatEvent, KeyDown, KeyUp, TakeEvent
  <2> QED
    BY <1>1, <1>3, <1>4, <2>1, TakeTyped DEF Inv
<1>5. CASE LoadLevel \/ LeaveGame \/ UNCHANGED vars
  <2>1. /\ UNCHANGED <<chords, published, ring>> /\ playing' \in BOOLEAN
        /\ gamekeydown' \subseteq Actions
    BY <1>1, <1>5 DEF LoadLevel, LeaveGame, vars, KeysCleared, TypeOK
  <2>2. TypeOK'
    BY <1>1, <2>1 DEF TypeOK, ChordsOK, RingOK, chords, ring
  <2> QED
    BY <1>3, <2>1, <2>2 DEF Inv
<1> QED
  BY <1>2, <1>4, <1>5 DEF Next

\* Type correctness, whatever the ring's size.
THEOREM TypeCorrect == Spec => []TypeOK
<1>1. Init => Inv
  BY InvInitial
<1>2. Inv /\ [Next]_vars => Inv'
  BY InvStep
<1>3. Inv => TypeOK
  BY DEF Inv
<1> QED
  BY <1>1, <1>2, <1>3, PTL DEF Spec

\* A chord held for its time makes its request, on the first poll that finds the
\* time over.
THEOREM HoldMakesRequestCorrect == Spec => []HoldMakesRequest
<1>1. Init => Inv
  BY InvInitial
<1>2. Inv /\ [Next]_vars => Inv'
  BY InvStep
<1>3. Inv => HoldMakesRequest
  <2>1. ResetHold # None /\ PairingHold # None
    BY NumbersAssumption, NoneAssumption
  <2> QED
    BY <2>1 DEF Inv, PairingInv, ResetInv, HoldMakesRequest
<1> QED
  BY <1>1, <1>2, <1>3, PTL DEF Spec

\* And it makes one, until its buttons are released.
THEOREM OneRequestPerHoldCorrect == Spec => OneRequestPerHold
<1>1. Init => Inv
  BY InvInitial
<1>2. Inv /\ [Next]_vars => Inv'
  BY InvStep
<1>3. ASSUME Inv, [Next]_vars
      PROVE  [Poll => /\ request' = "pairing" => ~pairingDone
                      /\ request' = "forget" => ~resetDone]_vars
  <2>1. CASE Poll
    <3>1. PICK h \in Holds, d \in Delays : Ways(h, d)
      BY <2>1 DEF Poll, Ways
    <3> QED
      BY <1>3, <3>1, RequestsOnce DEF Inv
  <2> QED
    BY <2>1
<1> QED
  BY <1>1, <1>2, <1>3, PTL DEF Spec, OneRequestPerHold

-----------------------------------------------------------------------------
\* The game's keys, as long as the ring holds all events of a poll.

\* The buttons whose change a poll posts, an event each.
Changed == (published \ published') \cup (published' \ published)

\* No poll has found as many changed at once as the ring has slots.
RingHoldsPolls == [][Cardinality(Changed) < MaxEvents]_vars

\* Pending events say what was published last, and every key the player's game
\* holds and the input layer has released has its release pending.
RingInv ==
  /\ \A i \in Pending :
       /\ events[i] \in EventType
       /\ events[i].type = "keydown" => events[i].key \in published
       /\ events[i].type = "keyup" => events[i].key \notin published
  /\ playing => \A k \in gamekeydown \ published :
                  \E i \in Pending : events[i] = [key |-> k, type |-> "keyup"]

\* A poll posts the release of every key it stops to publish.
LEMMA PollRing ==
  ASSUME Cardinality(Changed) < MaxEvents, TypeOK, RingInv, Drained,
         NEW h \in Holds, NEW d \in Delays, Ways(h, d), UNCHANGED <<gamekeydown, playing>>
  PROVE  RingInv'
<1>1. PICK out \in SUBSET Actions : Publish(out)
  BY Requests
<1> DEFINE S == published \ out
           T == out \ published
           evs == Posted(S, "keyup") \o Posted(T, "keydown")
<1>2. PostEvents(evs) /\ published' = out
  BY <1>1 DEF Publish
<1>3. /\ S \in SUBSET Actions /\ T \in SUBSET Actions /\ S \cap T = {}
      /\ Changed = S \cup T
  BY <1>2 DEF TypeOK, ChordsOK, Changed
<1>4. /\ S \cap out = {} /\ T \subseteq out
      /\ playing => gamekeydown \ out \subseteq S
  <2>1. Pending = {}
    BY NumbersAssumption DEF Drained, Pending, TypeOK, RingOK
  <2>2. playing => gamekeydown \subseteq published
    BY <2>1 DEF RingInv
  <2> QED
    BY <2>2
<1> HIDE DEF S, T
<1>5. /\ evs \in Seq(EventType) /\ Len(evs) <= Cardinality(S \cup T)
      /\ \A j \in 1 .. Len(evs) : \/ evs[j].type = "keyup" /\ evs[j].key \in S
                                  \/ evs[j].type = "keydown" /\ evs[j].key \in T
      /\ \A k \in S : \E j \in 1 .. Len(evs) : evs[j] = [key |-> k, type |-> "keyup"]
  BY <1>3, PollEvents
<1> HIDE DEF evs
<1>6. Len(evs) < MaxEvents
  <2>1. IsFiniteSet(Actions)
    <3>1. Actions = {Bindings[i] : i \in 1 .. Len(Bindings)} /\ Len(Bindings) \in Nat
      BY BindingsAssumption DEF Actions, ToSet
    <3>2. IsFiniteSet(1 .. Len(Bindings))
      BY <3>1, FS_Interval
    <3> DEFINE B == [i \in 1 .. Len(Bindings) |-> Bindings[i]]
    <3>3. B \in Surjection(1 .. Len(Bindings), Actions)
      BY <3>1 DEF Surjection
    <3> HIDE DEF B
    <3> QED
      BY <3>2, <3>3, FS_Surjection
  <2>2. Cardinality(S \cup T) \in Nat
    BY <1>3, <2>1, FS_Subset, FS_CardinalityType
  <2> QED
    BY <1>3, <1>5, <2>2, LenProperties, NumbersAssumption
<1>7. /\ \A i \in Pending' : \E j \in 1 .. Len(evs) : events'[i] = evs[j]
      /\ \A j \in 1 .. Len(evs) : \E i \in Pending' : events'[i] = evs[j]
  BY <1>2, <1>5, <1>6, PostsAll DEF TypeOK
<1>8. ASSUME NEW i \in Pending'
      PROVE  /\ events'[i] \in EventType
             /\ events'[i].type = "keydown" => events'[i].key \in published'
             /\ events'[i].type = "keyup" => events'[i].key \notin published'
  <2>1. PICK j \in 1 .. Len(evs) : events'[i] = evs[j]
    BY <1>7
  <2>2. evs[j] \in EventType
    BY <1>5, ElementOfSeq
  <2>3. \/ evs[j].type = "keyup" /\ evs[j].key \in S
        \/ evs[j].type = "keydown" /\ evs[j].key \in T
    BY <1>5
  <2> QED
    BY <1>2, <1>4, <2>1, <2>2, <2>3
<1>9. ASSUME playing', NEW k \in gamekeydown' \ published'
      PROVE  \E i \in Pending' : events'[i] = [key |-> k, type |-> "keyup"]
  <2>1. k \in S
    BY <1>2, <1>4, <1>9
  <2>2. PICK j \in 1 .. Len(evs) : evs[j] = [key |-> k, type |-> "keyup"]
    BY <1>5, <2>1
  <2> QED
    BY <1>7, <2>2
<1> QED
  BY <1>8, <1>9 DEF RingInv

\* The player's game takes every release.
LEMMA TakeRing ==
  ASSUME TypeOK, RingInv, EatEvent \/ KeyDown \/ KeyUp
  PROVE  RingInv'
<1> DEFINE e == events[eventtail]
<1>1. TakeEvent
  BY DEF EatEvent, KeyDown, KeyUp
<1>2. eventtail \in Pending /\ Pending' = Pending \ {eventtail} /\ events' = events
  BY <1>1, TakesOne DEF TypeOK
<1>3. published' = published /\ playing' = playing
  BY <1>1 DEF TakeEvent
<1>4. /\ e \in EventType
      /\ e.type = "keydown" => e.key \in published
  BY <1>2 DEF RingInv
<1>5. \A i \in Pending' :
        /\ events'[i] \in EventType
        /\ events'[i].type = "keydown" => events'[i].key \in published'
        /\ events'[i].type = "keyup" => events'[i].key \notin published'
  BY <1>2, <1>3 DEF RingInv
<1>6. ASSUME playing', NEW k \in gamekeydown' \ published'
      PROVE  \E i \in Pending' : events'[i] = [key |-> k, type |-> "keyup"]
  <2>1. /\ k \in gamekeydown
        /\ e.type = "keyup" => e.key # k
    <3>1. CASE EatEvent
      <4>1. e.type = "keydown" /\ gamekeydown' = gamekeydown
        BY <1>3, <1>6, <3>1 DEF EatEvent
      <4> QED
        BY <1>6, <4>1
    <3>2. CASE KeyDown
      <4>1. e.type = "keydown" /\ gamekeydown' = gamekeydown \cup {e.key}
        BY <3>2 DEF KeyDown
      <4> QED
        BY <1>3, <1>4, <1>6, <4>1
    <3>3. CASE KeyUp
      <4>1. gamekeydown' = gamekeydown \ {e.key}
        BY <3>3 DEF KeyUp
      <4> QED
        BY <1>6, <4>1
    <3> QED
      BY <3>1, <3>2, <3>3
  <2>2. PICK i \in Pending : events[i] = [key |-> k, type |-> "keyup"]
    BY <1>3, <1>6, <2>1 DEF RingInv
  <2>3. i # eventtail
    BY <2>1, <2>2
  <2> QED
    BY <1>2, <2>2, <2>3
<1> QED
  BY <1>5, <1>6 DEF RingInv

\* Every step keeps to that.
LEMMA RingStep ==
  ASSUME TypeOK, RingInv, [Next]_vars, [Cardinality(Changed) < MaxEvents]_vars
  PROVE  RingInv'
<1>1. CASE Poll /\ Cardinality(Changed) < MaxEvents
  <2>1. PICK h \in Holds, d \in Delays : Ways(h, d)
    BY <1>1 DEF Poll, Ways
  <2>2. Drained /\ UNCHANGED <<gamekeydown, playing>>
    BY <1>1 DEF Poll
  <2> QED
    BY <1>1, <2>1, <2>2, PollRing
<1>2. CASE EatEvent \/ KeyDown \/ KeyUp
  BY <1>2, TakeRing
<1>3. ASSUME UNCHANGED <<published, ring>>,
             playing' => gamekeydown' = {} \/ (playing /\ gamekeydown' = gamekeydown)
      PROVE  RingInv'
  BY <1>3 DEF RingInv, Pending, ring
<1>4. CASE LoadLevel
  BY <1>3, <1>4 DEF LoadLevel, KeysCleared
<1>5. CASE LeaveGame
  BY <1>3, <1>5 DEF LeaveGame
<1>6. CASE UNCHANGED vars
  BY <1>3, <1>6 DEF vars
<1> QED
  BY <1>1, <1>2, <1>4, <1>5, <1>6 DEF Next

\* With nothing pending, the player's game holds published keys only.
LEMMA DrainedHolds ==
  ASSUME RingInv, TypeOK
  PROVE  NoStuckKey
<1>1. Drained => Pending = {}
  BY NumbersAssumption DEF Drained, Pending, TypeOK, RingOK
<1> QED
  BY <1>1 DEF RingInv, NoStuckKey

\* The start.
LEMMA RingInitial ==
  ASSUME Init
  PROVE  RingInv
<1>1. Pending = {}
  BY DEF Init, Pending
<1> QED
  BY <1>1 DEF Init, RingInv

\* Until a poll posts more than the ring holds no key sticks, whatever is eaten in
\* between.
THEOREM NoStuckKeyCorrect == Spec /\ RingHoldsPolls => []NoStuckKey
<1>1. Init => Inv /\ RingInv
  BY InvInitial, RingInitial
<1>2. /\ Inv /\ RingInv
      /\ [Next]_vars /\ [Cardinality(Changed) < MaxEvents]_vars
      => Inv' /\ RingInv'
  BY InvStep, RingStep DEF Inv
<1>3. Inv /\ RingInv => NoStuckKey
  BY DrainedHolds DEF Inv
<1> QED
  BY <1>1, <1>2, <1>3, PTL DEF Spec, RingHoldsPolls

\* And the buttons of a chord in hand do not act on the game.
THEOREM ChordSilentCorrect == Spec /\ RingHoldsPolls => []ChordSilent
<1>1. Init => Inv /\ RingInv
  BY InvInitial, RingInitial
<1>2. /\ Inv /\ RingInv
      /\ [Next]_vars /\ [Cardinality(Changed) < MaxEvents]_vars
      => Inv' /\ RingInv'
  BY InvStep, RingStep DEF Inv
<1>3. Inv /\ RingInv => ChordSilent
  <2>1. ASSUME Inv, RingInv, playing, Drained PROVE gamekeydown \subseteq published
    BY <2>1, DrainedHolds DEF Inv, NoStuckKey
  <2> QED
    BY <2>1 DEF Inv, ResetInv, PairingInv, ChordSilent
<1> QED
  BY <1>1, <1>2, <1>3, PTL DEF Spec, RingHoldsPolls

=============================================================================
