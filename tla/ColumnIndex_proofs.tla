------------------------- MODULE ColumnIndex_proofs -------------------------
(* The arrays of the column index stay lists, and what they do is what a map *)
(* with least-recently-used replacement does: for every hash function, every *)
(* capacity and every set of columns and flats.                              *)
EXTENDS ColumnDecode_proofs, SequenceTheorems

USE DEF Slots, Links

Filled == 1 .. count

-----------------------------------------------------------------------------
(* The use list.  f is the order it keeps, the newest first.                 *)

KeepsOrder(f) ==
  /\ \A i, k \in Filled : f[i] = f[k] => i = k
  /\ \A s \in Filled : \E i \in Filled : f[i] = s
  /\ count > 0 => newest = f[1] /\ oldest = f[count]
  /\ \A i \in Filled : /\ older[f[i]] = IF i = count THEN 0 ELSE f[i + 1]
                       /\ newer[f[i]] = IF i = 1 THEN 0 ELSE f[i - 1]

\* There is one, and the slots not yet taken are as they were at first.
UseList ==
  /\ \E f \in [Filled -> Filled] : KeepsOrder(f)
  /\ count = 0 => newest = 0 /\ oldest = 0
  /\ \A s \in Slots : s > count => older[s] = 0 /\ newer[s] = 0

LinksType ==
  /\ count \in Links /\ oldest \in Links /\ newest \in Links
  /\ older \in [Slots -> Links] /\ newer \in [Slots -> Links]

\* What a use of slot s, j-th of the order f, makes of the order.
Moved(f, s, j) ==
  [i \in Filled |-> IF i = 1 THEN s ELSE IF i <= j THEN f[i - 1] ELSE f[i]]

\* A use of a slot that is taken moves it to the front.
LEMMA TouchMoves ==
  ASSUME LinksType, UseList, NEW f \in [Filled -> Filled], KeepsOrder(f),
         NEW j \in Filled, Touch(f[j]), count' = count
  PROVE  /\ LinksType' /\ UseList'
         /\ \E g \in [Filled' -> Filled'] : g = Moved(f, f[j], j) /\ KeepsOrder(g)'
<1> DEFINE s == f[j]
<1>1. count \in Nat /\ count <= Capacity /\ Capacity \in Nat /\ Filled' = Filled
      /\ Filled \subseteq Slots
  BY CapacityAssumption DEF LinksType, Filled
<1>2. /\ newest = f[1] /\ oldest = f[count] /\ 1 \in Filled /\ count \in Filled
      /\ s \in Filled
  BY <1>1 DEF KeepsOrder, Filled
<1>5. \A i, k \in Filled : f[i] = f[k] => i = k
  BY DEF KeepsOrder
<1>6. \A t \in Filled : \E i \in Filled : f[i] = t
  BY DEF KeepsOrder
<1>7. \A i \in Filled : older[f[i]] = IF i = count THEN 0 ELSE f[i + 1]
  BY DEF KeepsOrder
<1>8. \A i \in Filled : newer[f[i]] = IF i = 1 THEN 0 ELSE f[i - 1]
  BY DEF KeepsOrder
<1>9. \A i \in Filled : f[i] \in Filled
  OBVIOUS
<1>10. \A i : i \in Filled <=> i \in Nat /\ 1 <= i /\ i <= count
  BY <1>1 DEF Filled
<1>11. Moved(f, s, j) \in [Filled -> Filled]
  <2>1. ASSUME NEW i \in Filled, i # 1 PROVE i - 1 \in Filled
    BY <1>1, <1>10, <2>1
  <2> QED
    BY <1>2, <1>9, <2>1 DEF Moved
<1>12. PICK g \in [Filled -> Filled] : g = Moved(f, s, j)
  BY <1>11
<1>13. ASSUME KeepsOrder(g)',
              count # 0,
              \A x \in Slots : x > count => older'[x] = 0 /\ newer'[x] = 0
       PROVE  UseList'
  BY <1>1, <1>13 DEF UseList
<1>14. count # 0
  BY <1>2, <1>10
<1>3. CASE newest = s
  <2>1. j = 1
    BY <1>2, <1>3, <1>5
  <2>2. ASSUME NEW i \in Filled PROVE Moved(f, s, j)[i] = f[i]
    BY <1>1, <1>10, <2>1 DEF Moved
  <2>3. g = f
    BY <1>12, <2>2
  <2>4. UNCHANGED <<older, newer, oldest, newest, count>>
    BY <1>3 DEF Touch, recency
  <2>5. LinksType'
    BY <2>4 DEF LinksType
  <2>6. KeepsOrder(g)'
    BY <1>1, <2>3, <2>4 DEF KeepsOrder
  <2>7. UseList'
    BY <1>13, <1>14, <2>4, <2>6 DEF UseList
  <2> QED
    BY <1>1, <1>12, <2>5, <2>6, <2>7
<1>4. CASE newest # s
  <2> DEFINE o == older[s]
             n == newer[s]
  <2>1. /\ older' = [x \in Slots |-> IF x = s THEN newest
                                     ELSE IF x = n THEN o ELSE older[x]]
        /\ newer' = [x \in Slots |-> IF x = newest THEN s
                                     ELSE IF x = s THEN 0
                                     ELSE IF x = o THEN n ELSE newer[x]]
        /\ oldest' = IF newest = 0 THEN s ELSE IF o = 0 /\ oldest = s THEN n ELSE oldest
        /\ newest' = s
    BY <1>4 DEF Touch
  <2>2. j # 1 /\ j - 1 \in Filled /\ n = f[j - 1] /\ n \in Filled
    <3>1. j # 1
      BY <1>2, <1>4
    <3>2. j - 1 \in Filled
      BY <1>1, <3>1, <1>10
    <3>3. n = f[j - 1]
      BY <1>8, <3>1
    <3> QED
      BY <1>9, <3>1, <3>2, <3>3
  <2>3. o = IF j = count THEN 0 ELSE f[j + 1]
    BY <1>7
  <2>4. j # count => j + 1 \in Filled /\ o \in Filled
    BY <1>1, <2>3, <1>10
  <2>5. newest # 0
    BY <1>1, <1>2, <1>10
  <2> HIDE DEF o, n
  <2>6. o \in Links /\ n \in Links /\ s \in Links
    BY <1>1, <1>2, <2>2, <2>3, <2>4, <1>10
  <2>7. LinksType'
    <3>0. newest \in Links /\ \A x \in Slots : older[x] \in Links /\ newer[x] \in Links
      BY DEF LinksType
    <3>1. older' \in [Slots -> Links] /\ newer' \in [Slots -> Links]
      <4>0. 0 \in Links
        BY <1>1
      <4> HIDE DEF Links
      <4>1. older' \in [Slots -> Links]
        BY <2>1, <2>6, <3>0
      <4>2. newer' \in [Slots -> Links]
        BY <2>1, <2>6, <3>0, <4>0
      <4> QED
        BY <4>1, <4>2
    <3>2. oldest' \in Links /\ newest' \in Links /\ count' \in Links
      BY <2>1, <2>6 DEF LinksType
    <3> QED
      BY <3>1, <3>2 DEF LinksType
  <2>8. ASSUME NEW i \in Filled
        PROVE  /\ g[i] = IF i = 1 THEN s ELSE IF i <= j THEN f[i - 1] ELSE f[i]
               /\ i # 1 => i - 1 \in Filled
               /\ i # count => i + 1 \in Filled
               /\ g[i] \in Filled
    BY <1>1, <1>2, <1>9, <1>10, <1>12 DEF Moved
  <2>10. \A i, k \in Filled : f[i] = f[k] => i = k
    BY <1>5
  <2>11. s = f[j]
    OBVIOUS
  <2> HIDE DEF s
  <2>12. ASSUME NEW i \in Filled, NEW k \in Filled, g[i] = g[k] PROVE i = k
    <3> DEFINE From(x) == IF x = 1 THEN j ELSE IF x <= j THEN x - 1 ELSE x
    <3>1. ASSUME NEW x \in Filled PROVE From(x) \in Filled /\ g[x] = f[From(x)]
      BY <2>8, <2>11, <3>1
    <3>2. From(i) = From(k)
      <4>1. g[i] = f[From(i)] /\ g[k] = f[From(k)] /\ From(i) \in Filled /\ From(k) \in Filled
        BY <3>1
      <4> HIDE DEF From
      <4> QED
        BY <2>10, <2>12, <4>1
    <3> QED
      BY <1>1, <1>10, <3>2
  <2>13. ASSUME NEW t \in Filled PROVE \E i \in Filled : g[i] = t
    <3>1. PICK k \in Filled : f[k] = t
      BY <1>6
    <3>2. CASE k = j
      BY <1>2, <2>8, <2>11, <3>1, <3>2
    <3>3. CASE k < j
      <4>1. k + 1 \in Filled /\ k + 1 # 1 /\ k + 1 <= j /\ (k + 1) - 1 = k
        BY <1>1, <3>3, <1>10
      <4> QED
        BY <2>8, <3>1, <4>1
    <3>4. CASE k > j
      <4>1. k # 1 /\ ~(k <= j)
        BY <1>1, <3>4, <1>10
      <4> QED
        BY <2>8, <3>1, <4>1
    <3> QED
      BY <1>1, <3>2, <3>3, <3>4, <1>10
  <2>14. newest' = g[1] /\ oldest' = g[count]
    <3>1. newest' = g[1]
      BY <1>2, <2>1, <2>8
    <3>2. CASE j = count
      BY <1>1, <1>2, <2>1, <2>2, <2>3, <2>5, <2>8, <2>11, <3>2, <1>10
    <3>3. CASE j # count
      <4>1. o # 0 /\ count # 1 /\ ~(count <= j)
        BY <1>1, <2>2, <2>4, <3>3, <1>10
      <4> QED
        BY <1>2, <2>1, <2>5, <2>8, <4>1
    <3> QED
      BY <3>1, <3>2, <3>3
  <2>15. ASSUME NEW i \in Filled
         PROVE  older'[g[i]] = IF i = count THEN 0 ELSE g[i + 1]
    <3>1. g[i] \in Slots
      BY <1>1, <2>8
    <3>2. older'[g[i]] = IF g[i] = s THEN newest ELSE IF g[i] = n THEN o ELSE older[g[i]]
      BY <2>1, <3>1
    <3>3. CASE i = 1
      <4>1. g[i] = s /\ i # count /\ i + 1 <= j /\ i + 1 # 1 /\ (i + 1) - 1 = 1
        BY <1>1, <1>2, <2>2, <2>8, <3>3, <1>10
      <4> QED
        BY <1>2, <2>8, <3>2, <4>1
    <3>4. CASE i # 1 /\ i < j
      <4>1. g[i] = f[i - 1] /\ i - 1 \in Filled /\ i - 1 # j /\ i - 1 # j - 1
            /\ i # count /\ i + 1 <= j /\ i + 1 # 1 /\ (i + 1) - 1 = i /\ i - 1 # count
            /\ (i - 1) + 1 = i
        BY <1>1, <2>8, <3>4, <1>10
      <4>2. g[i] # s /\ g[i] # n
        BY <2>2, <2>10, <2>11, <4>1
      <4>3. older[f[i - 1]] = f[i]
        BY <1>7, <4>1
      <4> QED
        BY <2>8, <3>2, <4>1, <4>2, <4>3
    <3>5. CASE i # 1 /\ i = j
      <4>1. g[i] = n /\ n # s
        BY <1>1, <2>2, <2>8, <2>10, <2>11, <3>5, <1>10
      <4>2. i # count => g[i + 1] = f[i + 1]
        BY <1>1, <2>8, <3>5, <1>10
      <4> QED
        BY <2>3, <3>2, <3>5, <4>1, <4>2
    <3>6. CASE i # 1 /\ i > j
      <4>1. g[i] = f[i] /\ i # j /\ i # j - 1
        BY <1>1, <2>8, <3>6, <1>10
      <4>2. g[i] # s /\ g[i] # n
        BY <2>2, <2>10, <2>11, <4>1
      <4>3. i # count => g[i + 1] = f[i + 1]
        BY <1>1, <2>8, <3>6, <1>10
      <4>4. older[f[i]] = IF i = count THEN 0 ELSE f[i + 1]
        BY <1>7
      <4> QED
        BY <3>2, <4>1, <4>2, <4>3, <4>4
    <3> QED
      BY <1>1, <3>3, <3>4, <3>5, <3>6, <1>10
  <2>16. ASSUME NEW i \in Filled
         PROVE  newer'[g[i]] = IF i = 1 THEN 0 ELSE g[i - 1]
    <3>1. g[i] \in Slots
      BY <1>1, <2>8
    <3>2. newer'[g[i]] = IF g[i] = newest THEN s ELSE IF g[i] = s THEN 0
                         ELSE IF g[i] = o THEN n ELSE newer[g[i]]
      BY <2>1, <3>1
    <3>3. CASE i = 1
      BY <1>4, <2>8, <3>2, <3>3
    <3>4. CASE i = 2
      <4>1. i # 1 /\ i <= j /\ i - 1 = 1
        BY <1>1, <2>2, <3>4, <1>10
      <4> QED
        BY <1>2, <2>8, <3>2, <4>1
    <3>5. CASE i > 2 /\ i <= j
      <4>1. /\ g[i] = f[i - 1] /\ i - 1 \in Filled /\ i - 1 # 1 /\ i - 1 # j
            /\ i - 1 # j + 1 /\ i # 1 /\ i - 1 <= j /\ i - 2 \in Filled
            /\ (i - 1) - 1 = i - 2
        BY <1>1, <2>8, <3>5, <1>10
      <4>2. g[i] # newest /\ g[i] # s
        BY <1>2, <2>10, <2>11, <4>1
      <4>3. g[i] # o
        BY <1>1, <2>3, <2>4, <2>8, <2>10, <4>1, <1>10
      <4>4. newer[f[i - 1]] = f[i - 2]
        BY <1>8, <4>1
      <4>5. g[i - 1] = f[i - 2]
        BY <2>8, <4>1
      <4> QED
        BY <3>2, <4>1, <4>2, <4>3, <4>4, <4>5
    <3>6. CASE i = j + 1
      <4>1. /\ g[i] = f[i] /\ i # 1 /\ j # count /\ i - 1 = j /\ i # j
        BY <1>1, <2>8, <3>6, <1>10
      <4>2. g[i] = o /\ g[i] # newest /\ g[i] # s
        BY <1>2, <2>3, <2>10, <2>11, <3>6, <4>1
      <4>3. g[i - 1] = f[j - 1]
        BY <1>1, <2>2, <2>8, <4>1, <1>10
      <4> QED
        BY <2>2, <3>2, <4>1, <4>2, <4>3
    <3>7. CASE i > j + 1
      <4>1. /\ g[i] = f[i] /\ i # 1 /\ i # j + 1 /\ i # j /\ i - 1 \in Filled
            /\ ~(i - 1 <= j) /\ i - 1 # 1
        BY <1>1, <2>2, <2>8, <3>7, <1>10
      <4>2. g[i] # newest /\ g[i] # s
        BY <1>2, <2>10, <2>11, <4>1
      <4>3. g[i] # o
        BY <1>1, <2>3, <2>4, <2>8, <2>10, <4>1, <1>10
      <4>4. newer[f[i]] = f[i - 1]
        BY <1>8, <4>1
      <4>5. g[i - 1] = f[i - 1]
        BY <2>8, <4>1
      <4> QED
        BY <3>2, <4>1, <4>2, <4>3, <4>4, <4>5
    <3> QED
      BY <1>1, <2>2, <3>3, <3>4, <3>5, <3>6, <3>7, <1>10
  <2>17. KeepsOrder(g)'
    BY <1>1, <2>12, <2>13, <2>14, <2>15, <2>16 DEF KeepsOrder
  <2>18. ASSUME NEW x \in Slots, x > count PROVE older'[x] = 0 /\ newer'[x] = 0
    <3>1. x \notin Filled /\ older[x] = 0 /\ newer[x] = 0
      <4>1. x \in Nat
        BY <1>1
      <4> QED
        BY <1>1, <1>10, <2>18, <4>1 DEF UseList
    <3>2. x # s /\ x # n /\ x # newest /\ x # o
      BY <1>1, <1>2, <1>9, <2>2, <2>3, <2>4, <3>1
    <3> QED
      BY <2>1, <3>1, <3>2
  <2>19. UseList'
    BY <1>13, <1>14, <2>17, <2>18
  <2> QED
    BY <1>1, <1>12, <2>7, <2>17, <2>19 DEF s
<1> QED
  BY <1>3, <1>4

\* What a slot taken for the first time makes of the order.
Grown(f, s) == [i \in 1 .. count + 1 |-> IF i = 1 THEN s ELSE f[i - 1]]

\* It comes to the front, too.
LEMMA TouchGrows ==
  ASSUME LinksType, UseList, NEW f \in [Filled -> Filled], KeepsOrder(f),
         count < Capacity, Touch(count + 1), count' = count + 1
  PROVE  /\ LinksType' /\ UseList'
         /\ \E g \in [Filled' -> Filled'] : g = Grown(f, count + 1) /\ KeepsOrder(g)'
<1> DEFINE s == count + 1
           o == older[s]
           n == newer[s]
<1>1. /\ count \in Nat /\ s \in Nat /\ Capacity \in Nat /\ s <= Capacity /\ s \in Slots
      /\ 0 \in Links /\ s \in Links
  BY CapacityAssumption DEF LinksType
<1>2. \A i : /\ i \in Filled <=> i \in Nat /\ 1 <= i /\ i <= count
             /\ i \in Filled' <=> i \in Nat /\ 1 <= i /\ i <= s
  BY <1>1 DEF Filled
<1>3. o = 0 /\ n = 0
  BY <1>1 DEF UseList
<1>4. /\ count = 0 => newest = 0 /\ oldest = 0
      /\ count # 0 => /\ newest = f[1] /\ oldest = f[count] /\ 1 \in Filled /\ count \in Filled
                      /\ newest \in Filled /\ oldest \in Filled
  <2>1. count = 0 => newest = 0 /\ oldest = 0
    BY DEF UseList
  <2>2. count # 0 => newest = f[1] /\ oldest = f[count]
    BY <1>1 DEF KeepsOrder
  <2>3. count # 0 => 1 \in Filled /\ count \in Filled
    BY <1>1, <1>2
  <2>4. \A i \in Filled : f[i] \in Filled
    OBVIOUS
  <2> QED
    BY <2>1, <2>2, <2>3, <2>4
<1>5. newest # s /\ oldest # s /\ (newest = 0 <=> count = 0)
  BY <1>1, <1>2, <1>4
<1>6. /\ older' = [x \in Slots |-> IF x = s THEN newest
                                   ELSE IF x = n THEN o ELSE older[x]]
      /\ newer' = [x \in Slots |-> IF x = newest THEN s
                                   ELSE IF x = s THEN 0
                                   ELSE IF x = o THEN n ELSE newer[x]]
      /\ oldest' = IF newest = 0 THEN s ELSE IF o = 0 /\ oldest = s THEN n ELSE oldest
      /\ newest' = s
  BY <1>5 DEF Touch
<1> HIDE DEF o, n
<1>7. ASSUME NEW x \in Slots
      PROVE  /\ older'[x] = IF x = s THEN newest ELSE older[x]
             /\ newer'[x] = IF x = newest THEN s ELSE IF x = s THEN 0 ELSE newer[x]
  <2>1. x # 0
    OBVIOUS
  <2> QED
    BY <1>3, <1>6, <2>1
<1>8. oldest' = IF count = 0 THEN s ELSE oldest
  BY <1>3, <1>5, <1>6
<1>9. LinksType'
  <2>0. /\ newest \in Links /\ oldest \in Links
        /\ \A x \in Slots : older[x] \in Links /\ newer[x] \in Links
    BY DEF LinksType
  <2>1. count' \in Links
    BY <1>1
  <2> HIDE DEF Links, s
  <2>2. older' \in [Slots -> Links]
    BY <1>1, <1>6, <1>7, <2>0
  <2>3. newer' \in [Slots -> Links]
    BY <1>1, <1>6, <1>7, <2>0
  <2> QED
    BY <1>1, <1>6, <1>8, <2>0, <2>1, <2>2, <2>3 DEF LinksType
<1>10. Grown(f, s) \in [Filled' -> Filled']
  <2>1. Filled' = 1 .. s
    BY DEF Filled
  <2>2. ASSUME NEW i \in Filled' PROVE (IF i = 1 THEN s ELSE f[i - 1]) \in Filled'
    <3>1. i # 1 => i - 1 \in Filled
      BY <1>1, <1>2
    <3>2. s \in Filled' /\ \A x \in Filled : x \in Filled'
      BY <1>1, <1>2
    <3> QED
      BY <3>1, <3>2
  <2> QED
    BY <2>1, <2>2 DEF Grown
<1>11. PICK g \in [Filled' -> Filled'] : g = Grown(f, s)
  BY <1>10
<1>12. ASSUME NEW i \in Filled'
       PROVE  /\ g[i] = IF i = 1 THEN s ELSE f[i - 1]
              /\ i # 1 => i - 1 \in Filled
              /\ i # s => i + 1 \in Filled' /\ i + 1 # 1 /\ (i + 1) - 1 = i
  <2>1. i \in 1 .. count + 1
    BY DEF Filled
  <2>2. g[i] = IF i = 1 THEN s ELSE f[i - 1]
    BY <1>11, <2>1 DEF Grown
  <2>3. i \in Nat /\ 1 <= i /\ i <= s
    BY <1>2
  <2>4. i # 1 => i - 1 \in Filled
    BY <1>1, <1>2, <2>3
  <2>5. i # s => i + 1 \in Filled' /\ i + 1 # 1 /\ (i + 1) - 1 = i
    BY <1>1, <1>2, <2>3
  <2> QED
    BY <2>2, <2>4, <2>5
<1>13. \A i \in Filled : f[i] \in Filled /\ f[i] # s /\ f[i] \in Slots
  BY <1>1, <1>2
<1>14. /\ \A i, k \in Filled : f[i] = f[k] => i = k
       /\ \A t \in Filled : \E i \in Filled : f[i] = t
       /\ \A i \in Filled : older[f[i]] = IF i = count THEN 0 ELSE f[i + 1]
       /\ \A i \in Filled : newer[f[i]] = IF i = 1 THEN 0 ELSE f[i - 1]
  BY DEF KeepsOrder
<1> HIDE DEF s
<1>15. s = count + 1 /\ count' = s
  BY DEF s
<1>16. ASSUME NEW i \in Filled', NEW k \in Filled', g[i] = g[k] PROVE i = k
  <2>1. CASE i = 1 \/ k = 1
    BY <1>12, <1>13, <1>16, <2>1
  <2>2. CASE i # 1 /\ k # 1
    <3>1. i - 1 = k - 1
      BY <1>12, <1>14, <1>16, <2>2
    <3> QED
      BY <1>2, <3>1
  <2> QED
    BY <2>1, <2>2
<1>17. ASSUME NEW t \in Filled' PROVE \E i \in Filled' : g[i] = t
  <2>1. CASE t = s
    <3>1. 1 \in Filled' /\ g[1] = s
      BY <1>1, <1>2, <1>12, <1>15
    <3> QED
      BY <2>1, <3>1
  <2>2. CASE t # s
    <3>1. t \in Filled
      BY <1>1, <1>2, <1>15, <2>2
    <3>2. PICK k \in Filled : f[k] = t
      BY <1>14, <3>1
    <3>3. k + 1 \in Filled' /\ k + 1 # 1 /\ (k + 1) - 1 = k
      BY <1>1, <1>2, <1>15
    <3> QED
      BY <1>12, <3>2, <3>3
  <2> QED
    BY <2>1, <2>2
<1>18. newest' = g[1] /\ oldest' = g[count']
  <2>1. 1 \in Filled' /\ s \in Filled' /\ (count # 0 => s # 1 /\ s - 1 = count)
        /\ (count = 0 => s = 1)
    BY <1>1, <1>2, <1>15
  <2> QED
    BY <1>4, <1>6, <1>8, <1>12, <1>15, <2>1
<1>19. ASSUME NEW i \in Filled'
       PROVE  older'[g[i]] = IF i = count' THEN 0 ELSE g[i + 1]
  <2>1. CASE i = 1
    <3>1. older'[g[i]] = newest
      BY <1>1, <1>7, <1>12, <2>1
    <3>2. CASE count = 0
      BY <1>4, <1>15, <2>1, <3>1, <3>2
    <3>3. CASE count # 0
      <4>1. i # count' /\ g[i + 1] = f[1]
        BY <1>1, <1>12, <1>15, <2>1, <3>3
      <4> QED
        BY <1>4, <3>1, <3>3, <4>1
    <3> QED
      BY <3>2, <3>3
  <2>2. CASE i # 1
    <3>1. older'[g[i]] = older[f[i - 1]] /\ i - 1 \in Filled /\ g[i] = f[i - 1]
      BY <1>7, <1>12, <1>13, <2>2
    <3>2. older[f[i - 1]] = IF i - 1 = count THEN 0 ELSE f[(i - 1) + 1]
      BY <1>14, <3>1
    <3>3. (i - 1 = count <=> i = count') /\ (i - 1) + 1 = i
      BY <1>1, <1>2, <1>15
    <3> QED
      BY <1>12, <1>15, <3>1, <3>2, <3>3
  <2> QED
    BY <2>1, <2>2
<1>20. ASSUME NEW i \in Filled'
       PROVE  newer'[g[i]] = IF i = 1 THEN 0 ELSE g[i - 1]
  <2>1. CASE i = 1
    BY <1>1, <1>5, <1>7, <1>12, <2>1
  <2>2. CASE i = 2
    <3>1. i # 1 /\ i - 1 = 1 /\ g[i] = f[1] /\ 1 \in Filled /\ 1 \in Filled' /\ count # 0
      BY <1>1, <1>2, <1>12, <2>2
    <3> QED
      BY <1>4, <1>7, <1>12, <1>13, <3>1
  <2>3. CASE i # 1 /\ i # 2
    <3>1. /\ g[i] = f[i - 1] /\ i - 1 \in Filled /\ i - 1 # 1 /\ i - 1 \in Filled'
          /\ 1 \in Filled /\ count # 0
      BY <1>1, <1>2, <1>12, <1>15, <2>3
    <3>2. g[i] # newest /\ g[i] # s
      <4>1. f[i - 1] # f[1]
        BY <1>14, <3>1
      <4> QED
        BY <1>4, <1>13, <3>1, <4>1
    <3>3. newer'[g[i]] = newer[f[i - 1]] /\ newer[f[i - 1]] = f[(i - 1) - 1]
      BY <1>7, <1>13, <1>14, <3>1, <3>2
    <3>4. g[i - 1] = f[(i - 1) - 1]
      BY <1>12, <3>1
    <3> QED
      BY <2>3, <3>3, <3>4
  <2> QED
    BY <2>1, <2>2, <2>3
<1>21. KeepsOrder(g)'
  BY <1>16, <1>17, <1>18, <1>19, <1>20 DEF KeepsOrder
<1>22. ASSUME NEW x \in Slots, x > count' PROVE older'[x] = 0 /\ newer'[x] = 0
  <2>1. x \in Nat /\ x > count /\ x # s /\ x # newest
    BY <1>1, <1>2, <1>4, <1>15, <1>22
  <2> QED
    BY <1>7, <2>1 DEF UseList
<1>23. UseList'
  <2>1. count' # 0
    BY <1>1, <1>15
  <2> QED
    BY <1>21, <1>22, <2>1 DEF UseList
<1> QED
  BY <1>9, <1>11, <1>21, <1>23 DEF s

\* N hops along the links ol from nw on.
Walk(N, nw, ol) ==
  LET hop[i \in 1 .. N] == IF i = 1 THEN nw ELSE IF hop[i - 1] = 0 THEN 0 ELSE ol[hop[i - 1]]
  IN hop

\* There lies the list f.
Lies(N, nw, ol, f) ==
  /\ N \in Nat /\ f \in [1 .. N -> 1 .. N]
  /\ N > 0 => nw = f[1]
  /\ \A i \in 1 .. N : i # N => ol[f[i]] = f[i + 1]

\* The hops go where the list goes.
LEMMA WalkIs ==
  ASSUME NEW N, NEW nw, NEW ol, NEW f, Lies(N, nw, ol, f)
  PROVE  Walk(N, nw, ol) = f
<1>0. /\ N \in Nat /\ f \in [1 .. N -> 1 .. N]
      /\ N > 0 => nw = f[1]
      /\ \A i \in 1 .. N : i # N => ol[f[i]] = f[i + 1]
  BY DEF Lies
<1>1. \A i \in 1 .. N : i # 1 => i - 1 \in 1 .. N /\ i - 1 # N /\ (i - 1) + 1 = i
                                 /\ ~(i <= i - 1)
  BY <1>0
<1>2. \A i \in 1 .. N : f[i] # 0
  BY <1>0
<1> DEFINE hop[i \in 1 .. N] == IF i = 1 THEN nw
                                ELSE IF hop[i - 1] = 0 THEN 0 ELSE ol[hop[i - 1]]
<1>3. f = [i \in 1 .. N |-> IF i = 1 THEN nw ELSE IF f[i - 1] = 0 THEN 0 ELSE ol[f[i - 1]]]
  <2>1. ASSUME NEW i \in 1 .. N
        PROVE  f[i] = IF i = 1 THEN nw ELSE IF f[i - 1] = 0 THEN 0 ELSE ol[f[i - 1]]
    <3>1. CASE i = 1
      BY <1>0, <3>1
    <3>2. CASE i # 1
      BY <1>0, <1>1, <1>2, <3>2
    <3> QED
      BY <3>1, <3>2
  <2> QED
    BY <1>0, <2>1
<1>4. hop = [i \in 1 .. N |-> IF i = 1 THEN nw
                              ELSE IF hop[i - 1] = 0 THEN 0 ELSE ol[hop[i - 1]]]
  BY <1>3
<1>5. Walk(N, nw, ol) = hop
  BY DEF Walk
<1> HIDE DEF hop
<1> DEFINE Bad == {i \in 1 .. N : hop[i] # f[i]}
<1>6. Bad \in SUBSET Nat
  BY <1>0
<1>7. ASSUME NEW i \in Bad, \A k \in Bad : i <= k PROVE FALSE
  <2>1. CASE i = 1
    BY <1>3, <1>4, <2>1
  <2>2. CASE i # 1
    <3>1. i - 1 \in 1 .. N /\ ~(i <= i - 1)
      BY <1>1, <2>2
    <3>2. i - 1 \notin Bad
      <4> HIDE DEF Bad
      <4> QED
        BY <1>7, <3>1
    <3>3. hop[i - 1] = f[i - 1]
      BY <3>1, <3>2
    <3> QED
      BY <1>3, <1>4, <2>2, <3>1, <3>3
  <2> QED
    BY <2>1, <2>2
<1>8. Bad = {}
  <2> HIDE DEF Bad
  <2> QED
    BY <1>6, <1>7, LeastNatural
<1>9. \A i \in 1 .. N : hop[i] = f[i]
  BY <1>8
<1>10. hop = f
  BY <1>3, <1>4, <1>9
<1> QED
  BY <1>5, <1>10

\* So the keys by use are those of the slots in their order,
LEMMA KeysAre ==
  ASSUME LinksType, NEW f \in [Filled -> Filled], KeepsOrder(f)
  PROVE  Recency = f /\ KeysByUse = [i \in Filled |-> key[f[i]]]
<1>1. count \in Nat
  BY CapacityAssumption DEF LinksType
<1>2. \A i \in Filled : older[f[i]] = IF i = count THEN 0 ELSE f[i + 1]
  BY DEF KeepsOrder
<1>3. count > 0 => newest = f[1]
  BY DEF KeepsOrder
<1>4. Walk(count, newest, older) = f
  <2>1. f \in [1 .. count -> 1 .. count]
    BY DEF Filled
  <2>2. \A i \in 1 .. count : i # count => older[f[i]] = f[i + 1]
    BY <1>2 DEF Filled
  <2>3. Lies(count, newest, older, f)
    BY <1>1, <1>3, <2>1, <2>2 DEF Lies
  <2> QED
    BY <2>3, WalkIs
<1>5. Recency = Walk(count, newest, older)
  BY DEF Recency, Walk
<1>6. \A i \in Filled : f[i] # 0
  BY <1>1 DEF Filled
<1>7. KeysByUse = [i \in Filled |-> IF f[i] = 0 THEN None ELSE key[f[i]]]
  BY <1>4, <1>5 DEF KeysByUse, Filled
<1> QED
  BY <1>4, <1>5, <1>6, <1>7

\* after a step as before it.
LEMMA KeysAreNext ==
  ASSUME LinksType', NEW f \in [Filled' -> Filled'], KeepsOrder(f)'
  PROVE  KeysByUse' = [i \in Filled' |-> key'[f[i]]]
<1>1. count' \in Nat
  BY CapacityAssumption DEF LinksType
<1>2. \A i \in Filled' : older'[f[i]] = IF i = count' THEN 0 ELSE f[i + 1]
  BY DEF KeepsOrder
<1>3. count' > 0 => newest' = f[1]
  BY DEF KeepsOrder
<1>4. Walk(count', newest', older') = f
  <2>1. f \in [1 .. count' -> 1 .. count']
    BY DEF Filled
  <2>2. \A i \in 1 .. count' : i # count' => older'[f[i]] = f[i + 1]
    BY <1>2 DEF Filled
  <2>3. Lies(count', newest', older', f)
    BY <1>1, <1>3, <2>1, <2>2 DEF Lies
  <2> QED
    BY <2>3, WalkIs
<1>5. Recency' = Walk(count', newest', older')
  BY DEF Recency, Walk
<1>6. \A i \in Filled' : f[i] # 0
  BY <1>1 DEF Filled
<1>7. KeysByUse' = [i \in Filled' |-> IF f[i] = 0 THEN None ELSE key'[f[i]]]
  BY <1>4, <1>5 DEF KeysByUse, Filled
<1> QED
  BY <1>6, <1>7

-----------------------------------------------------------------------------
(* The chains.  With heads bk and links nx, g is the chain of bucket b: the  *)
(* slots F, one after the other.                                             *)

Listed(bk, nx, b, F, n, g) ==
  /\ \A i, k \in 1 .. n : g[i] = g[k] => i = k
  /\ \A s \in F : \E i \in 1 .. n : g[i] = s
  /\ bk[b] = IF n = 0 THEN 0 ELSE g[1]
  /\ \A i \in 1 .. n : nx[g[i]] = IF i = n THEN 0 ELSE g[i + 1]

ChainOf(bk, nx, b, F) ==
  \E n \in 0 .. Capacity : \E g \in [1 .. n -> F] : Listed(bk, nx, b, F, n, g)

\* No chain is longer than there are slots.
LEMMA FitsSlots ==
  ASSUME NEW n \in Nat, NEW g \in [1 .. n -> Slots],
         \A i, k \in 1 .. n : g[i] = g[k] => i = k
  PROVE  n <= Capacity
<1>1. Capacity \in Nat
  BY CapacityAssumption
<1>2. IsFiniteSet(Slots) /\ Cardinality(Slots) = Capacity
  BY <1>1, FS_Interval
<1>3. IsFiniteSet(1 .. n) /\ Cardinality(1 .. n) = n
  BY FS_Interval
<1>4. g \in Injection(1 .. n, Slots)
  BY DEF Injection, IsInjective
<1>5. Cardinality(1 .. n) <= Cardinality(Slots)
  BY <1>2, <1>3, <1>4, FS_Injection
<1> QED
  BY <1>2, <1>3, <1>5

\* A chain whose head and links are not changed stays.
LEMMA ChainStays ==
  ASSUME NEW bk, NEW nx, NEW b, NEW F, ChainOf(bk, nx, b, F),
         NEW bk2, NEW nx2, bk2[b] = bk[b], \A x \in F : nx2[x] = nx[x]
  PROVE  ChainOf(bk2, nx2, b, F)
<1>0. PICK n \in 0 .. Capacity : \E g \in [1 .. n -> F] : Listed(bk, nx, b, F, n, g)
  BY DEF ChainOf
<1>1. PICK g \in [1 .. n -> F] : Listed(bk, nx, b, F, n, g)
  BY <1>0
<1>2. \A i \in 1 .. n : nx2[g[i]] = nx[g[i]]
  OBVIOUS
<1>3. Listed(bk2, nx2, b, F, n, g)
  BY <1>1, <1>2 DEF Listed
<1> QED
  BY <1>3 DEF ChainOf

\* A new slot is put before it.
LEMMA ChainGrows ==
  ASSUME NEW bk, NEW nx, NEW b, NEW F \in SUBSET Slots, ChainOf(bk, nx, b, F),
         NEW s \in Slots \ F,
         NEW bk2, NEW nx2, bk2[b] = s, nx2[s] = bk[b], \A x \in F : nx2[x] = nx[x]
  PROVE  ChainOf(bk2, nx2, b, F \cup {s})
<1>0. PICK n \in 0 .. Capacity : \E g \in [1 .. n -> F] : Listed(bk, nx, b, F, n, g)
  BY DEF ChainOf
<1>1. PICK g \in [1 .. n -> F] : Listed(bk, nx, b, F, n, g)
  BY <1>0
<1>2. /\ \A i, k \in 1 .. n : g[i] = g[k] => i = k
      /\ \A t \in F : \E i \in 1 .. n : g[i] = t
      /\ bk[b] = IF n = 0 THEN 0 ELSE g[1]
      /\ \A i \in 1 .. n : nx[g[i]] = IF i = n THEN 0 ELSE g[i + 1]
  BY <1>1 DEF Listed
<1>3. n \in Nat /\ Capacity \in Nat
  BY CapacityAssumption
<1> DEFINE G == F \cup {s}
           N == n + 1
           h == [i \in 1 .. N |-> IF i = 1 THEN s ELSE g[i - 1]]
<1>4. ASSUME NEW i \in 1 .. N
      PROVE  /\ h[i] = IF i = 1 THEN s ELSE g[i - 1]
             /\ i # 1 => i - 1 \in 1 .. n /\ h[i] \in F /\ h[i] # s
             /\ h[i] \in G
             /\ i # N => i + 1 \in 1 .. N /\ i + 1 # 1 /\ (i + 1) - 1 = i
  <2>1. h[i] = IF i = 1 THEN s ELSE g[i - 1]
    OBVIOUS
  <2>2. i # 1 => i - 1 \in 1 .. n
    BY <1>3
  <2>3. \A k \in 1 .. n : g[k] \in F
    OBVIOUS
  <2>4. i # N => i + 1 \in 1 .. N /\ i + 1 # 1 /\ (i + 1) - 1 = i
    BY <1>3
  <2> QED
    BY <2>1, <2>2, <2>3, <2>4
<1>5. h \in [1 .. N -> G]
  BY <1>4
<1>6. 1 \in 1 .. N /\ N # 0 /\ N \in Nat
  BY <1>3
<1> HIDE DEF h
<1>7. ASSUME NEW i \in 1 .. N, NEW k \in 1 .. N, h[i] = h[k] PROVE i = k
  <2>1. CASE i = 1 \/ k = 1
    BY <1>4, <1>7, <2>1
  <2>2. CASE i # 1 /\ k # 1
    <3>1. i - 1 = k - 1
      BY <1>2, <1>4, <1>7, <2>2
    <3> QED
      BY <1>3, <3>1
  <2> QED
    BY <2>1, <2>2
<1>8. ASSUME NEW t \in G PROVE \E i \in 1 .. N : h[i] = t
  <2>1. CASE t = s
    BY <1>4, <1>6, <2>1
  <2>2. CASE t # s
    <3>1. PICK k \in 1 .. n : g[k] = t
      BY <1>2, <2>2
    <3>2. k + 1 \in 1 .. N /\ k + 1 # 1 /\ (k + 1) - 1 = k
      BY <1>3
    <3> QED
      BY <1>4, <3>1, <3>2
  <2> QED
    BY <2>1, <2>2
<1>9. N \in 0 .. Capacity
  <2>1. h \in [1 .. N -> Slots]
    BY <1>5
  <2>2. N <= Capacity
    BY <1>6, <1>7, <2>1, FitsSlots
  <2> QED
    BY <1>6, <2>2
<1>10. bk2[b] = IF N = 0 THEN 0 ELSE h[1]
  BY <1>4, <1>6
<1>11. ASSUME NEW i \in 1 .. N PROVE nx2[h[i]] = IF i = N THEN 0 ELSE h[i + 1]
  <2>1. CASE i = 1
    <3>1. h[1] = s /\ nx2[h[i]] = bk[b]
      BY <1>4, <1>6, <2>1
    <3>2. CASE n = 0
      BY <1>2, <2>1, <3>1, <3>2
    <3>3. CASE n # 0
      <4>1. i # N /\ h[i + 1] = g[1]
        BY <1>3, <1>4, <2>1, <3>3
      <4> QED
        BY <1>2, <3>1, <3>3, <4>1
    <3> QED
      BY <3>2, <3>3
  <2>2. CASE i # 1
    <3>1. nx2[h[i]] = nx[g[i - 1]] /\ i - 1 \in 1 .. n
      BY <1>4, <2>2
    <3>2. nx[g[i - 1]] = IF i - 1 = n THEN 0 ELSE g[(i - 1) + 1]
      BY <1>2, <3>1
    <3>3. (i - 1 = n <=> i = N) /\ (i - 1) + 1 = i
      BY <1>3
    <3> QED
      BY <1>4, <3>1, <3>2, <3>3
  <2> QED
    BY <2>1, <2>2
<1>12. Listed(bk2, nx2, b, G, N, h)
  <2> HIDE DEF N, G
  <2> QED
    BY <1>7, <1>8, <1>10, <1>11 DEF Listed
<1> HIDE DEF N
<1> QED
  BY <1>5, <1>9, <1>12 DEF ChainOf

\* A slot is cut out of it.
LEMMA ChainShrinks ==
  ASSUME NEW bk, NEW nx, NEW b, NEW F \in SUBSET Slots, ChainOf(bk, nx, b, F),
         NEW s \in F,
         NEW bk2, NEW nx2, bk2[b] = IF bk[b] = s THEN nx[s] ELSE bk[b],
         \A x \in F : nx2[x] = IF nx[x] = s THEN nx[s] ELSE nx[x]
  PROVE  ChainOf(bk2, nx2, b, F \ {s})
<1>0. PICK n \in 0 .. Capacity : \E g \in [1 .. n -> F] : Listed(bk, nx, b, F, n, g)
  BY DEF ChainOf
<1>1. PICK g \in [1 .. n -> F] : Listed(bk, nx, b, F, n, g)
  BY <1>0
<1>2. /\ \A i, k \in 1 .. n : g[i] = g[k] => i = k
      /\ \A t \in F : \E i \in 1 .. n : g[i] = t
      /\ bk[b] = IF n = 0 THEN 0 ELSE g[1]
      /\ \A i \in 1 .. n : nx[g[i]] = IF i = n THEN 0 ELSE g[i + 1]
  BY <1>1 DEF Listed
<1>3. PICK j \in 1 .. n : g[j] = s
  BY <1>2
<1>4. n \in Nat /\ Capacity \in Nat /\ j \in Nat /\ 1 <= j /\ j <= n /\ n <= Capacity
  BY CapacityAssumption
<1>5. \A k \in 1 .. n : g[k] \in F /\ g[k] # 0
  BY <1>4
<1>6. nx[s] = IF j = n THEN 0 ELSE g[j + 1]
  BY <1>2, <1>3
<1> DEFINE G == F \ {s}
           N == n - 1
           h == [i \in 1 .. N |-> IF i < j THEN g[i] ELSE g[i + 1]]
           At(i) == IF i < j THEN i ELSE i + 1
<1>7. ASSUME NEW i \in 1 .. N
      PROVE  /\ h[i] = g[At(i)] /\ At(i) \in 1 .. n /\ At(i) # j
             /\ h[i] \in F /\ h[i] # s
  <2>1. h[i] = g[At(i)]
    OBVIOUS
  <2>2. At(i) \in 1 .. n /\ At(i) # j
    BY <1>4
  <2> HIDE DEF At, h
  <2> QED
    BY <1>2, <1>3, <1>5, <2>1, <2>2
<1>8. h \in [1 .. N -> G]
  BY <1>7
<1> HIDE DEF h
<1>9. ASSUME NEW i \in 1 .. N, NEW k \in 1 .. N, h[i] = h[k] PROVE i = k
  <2>1. At(i) = At(k)
    <3> HIDE DEF At
    <3> QED
      BY <1>2, <1>7, <1>9
  <2> QED
    BY <1>4, <2>1
<1>10. ASSUME NEW t \in G PROVE \E i \in 1 .. N : h[i] = t
  <2>1. PICK k \in 1 .. n : g[k] = t
    BY <1>2
  <2>2. k # j
    BY <1>3, <2>1
  <2>3. CASE k < j
    <3>1. k \in 1 .. N /\ At(k) = k
      BY <1>4, <2>3
    <3> QED
      BY <1>7, <2>1, <3>1
  <2>4. CASE k > j
    <3>1. k - 1 \in 1 .. N /\ At(k - 1) = k
      BY <1>4, <2>4
    <3> QED
      BY <1>7, <2>1, <3>1
  <2> QED
    BY <1>4, <2>2, <2>3, <2>4
<1>11. N \in 0 .. Capacity
  BY <1>4
<1>12. bk2[b] = IF N = 0 THEN 0 ELSE h[1]
  <2>1. bk[b] = g[1] /\ 1 \in 1 .. n
    BY <1>2, <1>4
  <2>2. CASE j = 1
    <3>1. bk2[b] = nx[s]
      BY <1>3, <2>1, <2>2
    <3>2. CASE n = 1
      BY <1>6, <2>2, <3>1, <3>2
    <3>3. CASE n # 1
      <4>1. 1 \in 1 .. N /\ N # 0 /\ At(1) = 2 /\ j # n /\ j + 1 = 2
        BY <1>4, <2>2, <3>3
      <4>2. h[1] = g[2]
        BY <1>7, <4>1
      <4> QED
        BY <1>6, <3>1, <4>1, <4>2
    <3> QED
      BY <3>2, <3>3
  <2>3. CASE j # 1
    <3>1. g[1] # s
      BY <1>2, <1>3, <2>1, <2>3
    <3>2. 1 \in 1 .. N /\ N # 0 /\ At(1) = 1
      BY <1>4, <2>3
    <3>3. h[1] = g[1]
      BY <1>7, <3>2
    <3> QED
      BY <2>1, <3>1, <3>2, <3>3
  <2> QED
    BY <2>2, <2>3
<1>13. ASSUME NEW i \in 1 .. N PROVE nx2[h[i]] = IF i = N THEN 0 ELSE h[i + 1]
  <2> DEFINE a == At(i)
  <2>1. h[i] = g[a] /\ a \in 1 .. n /\ a # j /\ h[i] \in F
    BY <1>7
  <2>2. nx[g[a]] = IF a = n THEN 0 ELSE g[a + 1]
    BY <1>2, <2>1
  <2>3. nx2[h[i]] = IF nx[g[a]] = s THEN nx[s] ELSE nx[g[a]]
    BY <2>1
  <2>4. i # N => i + 1 \in 1 .. N /\ h[i + 1] = g[At(i + 1)]
    BY <1>4, <1>7
  <2>5. CASE a + 1 = j
    <3>1. i < j /\ a = i /\ a # n /\ a + 1 \in 1 .. n
      BY <1>4, <2>5
    <3>2. nx[g[a]] = s
      BY <1>3, <2>2, <2>5, <3>1
    <3>3. i = N <=> j = n
      BY <1>4, <2>5, <3>1
    <3>4. i # N => At(i + 1) = j + 1
      BY <1>4, <2>5, <3>1
    <3> HIDE DEF At, a
    <3> QED
      BY <1>6, <2>3, <2>4, <3>2, <3>3, <3>4
  <2>6. CASE a + 1 # j
    <3>1. i = N <=> a = n
      BY <1>4, <2>6
    <3>2. i # N => At(i + 1) = a + 1 /\ a + 1 \in 1 .. n
      BY <1>4, <2>6
    <3>3. nx[g[a]] # s
      <4>1. CASE a = n
        BY <1>3, <1>5, <2>2, <4>1
      <4>2. CASE a # n
        <5>1. g[a + 1] # g[j]
          <6> HIDE DEF At, a
          <6> QED
            BY <1>2, <2>6, <3>1, <3>2, <4>2
        <5> QED
          BY <1>3, <2>2, <4>2, <5>1
      <4> QED
        BY <4>1, <4>2
    <3> HIDE DEF At, a
    <3> QED
      BY <2>2, <2>3, <2>4, <3>1, <3>2, <3>3
  <2> QED
    BY <2>5, <2>6
<1>14. Listed(bk2, nx2, b, G, N, h)
  <2> HIDE DEF N, G
  <2> QED
    BY <1>9, <1>10, <1>12, <1>13 DEF Listed
<1> HIDE DEF N
<1> QED
  BY <1>8, <1>11, <1>14 DEF ChainOf

\* The walk along the links is the chain, and then nothing.
LEMMA ChainIs ==
  ASSUME NEW b, NEW F \in SUBSET Slots, NEW n \in 0 .. Capacity, NEW g \in [1 .. n -> F],
         Listed(bucket, hashNext, b, F, n, g)
  PROVE  Chain(b) = [i \in Slots |-> IF i <= n THEN g[i] ELSE 0]
<1>1. /\ bucket[b] = IF n = 0 THEN 0 ELSE g[1]
      /\ \A i \in 1 .. n : hashNext[g[i]] = IF i = n THEN 0 ELSE g[i + 1]
  BY DEF Listed
<1>2. Capacity \in Nat /\ n \in Nat /\ n <= Capacity
  BY CapacityAssumption
<1>3. \A i \in 1 .. n : g[i] # 0
  BY <1>2
<1> DEFINE f == [i \in Slots |-> IF i <= n THEN g[i] ELSE 0]
           hop[i \in Slots] == IF i = 1 THEN bucket[b]
                               ELSE IF hop[i - 1] = 0 THEN 0 ELSE hashNext[hop[i - 1]]
<1>4. f = [i \in Slots |-> IF i = 1 THEN bucket[b]
                           ELSE IF f[i - 1] = 0 THEN 0 ELSE hashNext[f[i - 1]]]
  <2>1. ASSUME NEW i \in Slots
        PROVE  f[i] = IF i = 1 THEN bucket[b]
                      ELSE IF f[i - 1] = 0 THEN 0 ELSE hashNext[f[i - 1]]
    <3>1. CASE i = 1
      <4>1. f[i] = IF 1 <= n THEN g[1] ELSE 0
        BY <3>1
      <4>2. 1 <= n <=> n # 0
        BY <1>2
      <4> QED
        BY <1>1, <3>1, <4>1, <4>2
    <3>2. CASE i # 1
      <4>1. i - 1 \in Slots /\ f[i - 1] = IF i - 1 <= n THEN g[i - 1] ELSE 0
        BY <1>2, <3>2
      <4>2. CASE i - 1 <= n
        <5>1. i - 1 \in 1 .. n /\ (i - 1 = n <=> ~(i <= n)) /\ (i - 1) + 1 = i
          BY <1>2, <3>2, <4>2
        <5>2. f[i - 1] = g[i - 1] /\ f[i - 1] # 0
          BY <1>3, <4>1, <4>2, <5>1
        <5>3. hashNext[g[i - 1]] = IF i <= n THEN g[i] ELSE 0
          BY <1>1, <5>1
        <5> QED
          BY <3>2, <5>2, <5>3
      <4>3. CASE ~(i - 1 <= n)
        <5>1. f[i - 1] = 0 /\ ~(i <= n)
          BY <1>2, <4>1, <4>3
        <5> QED
          BY <3>2, <5>1
      <4> QED
        BY <4>2, <4>3
    <3> QED
      BY <3>1, <3>2
  <2> QED
    BY <2>1
<1> HIDE DEF f
<1>5. hop = [i \in Slots |-> IF i = 1 THEN bucket[b]
                             ELSE IF hop[i - 1] = 0 THEN 0 ELSE hashNext[hop[i - 1]]]
  BY <1>4
<1>6. Chain(b) = hop
  BY DEF Chain
<1> HIDE DEF hop
<1> DEFINE Bad == {i \in Slots : hop[i] # f[i]}
<1>7. Bad \in SUBSET Nat
  BY <1>2
<1>8. ASSUME NEW i \in Bad, \A k \in Bad : i <= k PROVE FALSE
  <2>1. CASE i = 1
    BY <1>4, <1>5, <2>1
  <2>2. CASE i # 1
    <3>1. i - 1 \in Slots /\ ~(i <= i - 1)
      BY <1>2, <2>2
    <3>2. i - 1 \notin Bad
      <4> HIDE DEF Bad
      <4> QED
        BY <1>8, <3>1
    <3>3. hop[i - 1] = f[i - 1]
      BY <3>1, <3>2
    <3> QED
      BY <1>4, <1>5, <2>2, <3>1, <3>3
  <2> QED
    BY <2>1, <2>2
<1>9. Bad = {}
  <2> HIDE DEF Bad
  <2> QED
    BY <1>7, <1>8, LeastNatural
<1>10. \A i \in Slots : hop[i] = f[i]
  BY <1>9
<1>11. hop = f
  BY <1>4, <1>5, <1>10
<1> QED
  BY <1>6, <1>11 DEF f

-----------------------------------------------------------------------------
(* The index.                                                                *)

Members(b) == {s \in Filled : hash[key[s]] = b}

ChainsInv ==
  /\ hash \in Hashes /\ key \in [Slots -> Keys \cup {None}]
  /\ bucket \in [Buckets -> Links] /\ hashNext \in [Slots -> Links]
  /\ \A s \in Slots : s > count => key[s] = None
  /\ \A s \in Filled : key[s] \in Keys
  /\ \A s, t \in Filled : key[s] = key[t] => s = t
  /\ \A b \in Buckets : ChainOf(bucket, hashNext, b, Members(b))

\* The chains are what they should be.
LEMMA ChainsRight ==
  ASSUME LinksType, ChainsInv
  PROVE  /\ ChainsWellFormed
         /\ \A b \in Buckets : ChainSlots(b) = Members(b)
<1>1. Capacity \in Nat \ {0} /\ count \in Nat /\ Filled \subseteq Slots
  BY CapacityAssumption DEF LinksType, Filled
<1>2. ASSUME NEW b \in Buckets
      PROVE  /\ ChainSlots(b) = Members(b)
             /\ Chain(b)[Capacity] # 0 => hashNext[Chain(b)[Capacity]] = 0
             /\ \A i, j \in Slots : i < j /\ Chain(b)[j] # 0 => Chain(b)[i] # Chain(b)[j]
  <2> DEFINE F == Members(b)
  <2>1. F \in SUBSET Slots
    BY <1>1 DEF Members
  <2>2. ChainOf(bucket, hashNext, b, F)
    BY DEF ChainsInv
  <2> HIDE DEF F
  <2>3. PICK n \in 0 .. Capacity : \E g \in [1 .. n -> F] :
               Listed(bucket, hashNext, b, F, n, g)
    BY <2>2 DEF ChainOf
  <2>4. PICK g \in [1 .. n -> F] : Listed(bucket, hashNext, b, F, n, g)
    BY <2>3
  <2>5. /\ \A i, k \in 1 .. n : g[i] = g[k] => i = k
        /\ \A s \in F : \E i \in 1 .. n : g[i] = s
        /\ \A i \in 1 .. n : hashNext[g[i]] = IF i = n THEN 0 ELSE g[i + 1]
    BY <2>4 DEF Listed
  <2>6. Chain(b) = [i \in Slots |-> IF i <= n THEN g[i] ELSE 0]
    BY <2>1, <2>4, ChainIs
  <2>7. \A i \in Slots : /\ i \in 1 .. n <=> i <= n
                         /\ Chain(b)[i] = IF i <= n THEN g[i] ELSE 0
    BY <1>1, <2>6
  <2>8. \A i \in 1 .. n : i \in Slots /\ g[i] \in F /\ g[i] # 0
    BY <1>1, <2>1
  <2>9. ChainSlots(b) = F
    <3>1. ChainSlots(b) = {Chain(b)[i] : i \in Slots} \ {0}
      BY <2>6 DEF ChainSlots, ToSet
    <3>2. ASSUME NEW s \in F PROVE s \in {Chain(b)[i] : i \in Slots} /\ s # 0
      <4>1. PICK i \in 1 .. n : g[i] = s
        BY <2>5
      <4> QED
        BY <2>7, <2>8, <4>1
    <3>3. ASSUME NEW i \in Slots, Chain(b)[i] # 0 PROVE Chain(b)[i] \in F
      BY <2>7, <2>8, <3>3
    <3> QED
      BY <3>1, <3>2, <3>3
  <2>10. Chain(b)[Capacity] # 0 => hashNext[Chain(b)[Capacity]] = 0
    <3>1. Capacity \in Slots /\ (Capacity <= n => n = Capacity)
      BY <1>1
    <3> QED
      BY <2>5, <2>7, <3>1
  <2>11. ASSUME NEW i \in Slots, NEW j \in Slots, i < j, Chain(b)[j] # 0
         PROVE  Chain(b)[i] # Chain(b)[j]
    <3>1. j <= n /\ i <= n /\ i # j
      BY <1>1, <2>7, <2>11
    <3> QED
      BY <2>5, <2>7, <3>1
  <2> QED
    BY <2>9, <2>10, <2>11 DEF F
<1>3. \A s, t \in 1 .. count : key[s] = key[t] => s = t
  BY DEF ChainsInv, Filled
<1>4. \A b \in Buckets : Members(b) = {s \in 1 .. count : hash[key[s]] = b}
  BY DEF Members, Filled
<1> QED
  BY <1>2, <1>3, <1>4 DEF ChainsWellFormed

\* Find finds what is there.
LEMMA FoundSlotIs ==
  ASSUME LinksType, ChainsInv, NEW k \in Keys
  PROVE  /\ FoundSlot(k) # 0 => FoundSlot(k) \in Filled /\ key[FoundSlot(k)] = k
         /\ FoundSlot(k) = 0 => \A s \in Filled : key[s] # k
<1>1. Capacity \in Nat \ {0} /\ count \in Nat /\ Filled \subseteq Slots
  BY CapacityAssumption DEF LinksType, Filled
<1>2. ASSUME FoundSlot(k) # 0 PROVE FoundSlot(k) \in Filled /\ key[FoundSlot(k)] = k
  <2>1. FoundSlot(k) \in Slots /\ key[FoundSlot(k)] = k
    BY <1>2, FoundSlotHoldsKey
  <2>2. ~(FoundSlot(k) > count)
    BY <2>1, NoneAssumption DEF ChainsInv
  <2> QED
    BY <1>1, <2>1, <2>2 DEF Filled
<1>3. ASSUME NEW s \in Filled, key[s] = k PROVE FoundSlot(k) # 0
  <2> DEFINE b == hash[k]
             c == Chain(b)
             At(i) == c[i] \in Slots /\ key[c[i]] = k
             Hits == {i \in Slots : At(i)}
  <2>1. b \in Buckets
    BY HashesAssumption DEF ChainsInv
  <2>2. s \in ChainSlots(b)
    BY <1>3, <2>1, ChainsRight DEF Members
  <2>3. PICK i \in DOMAIN c : c[i] = s
    BY <2>2 DEF ChainSlots, ToSet
  <2>4. DOMAIN c = Slots
    <3> DEFINE F == Members(b)
    <3>0. ChainOf(bucket, hashNext, b, F)
      BY <2>1 DEF ChainsInv
    <3>3. F \in SUBSET Slots
      BY <1>1 DEF Members
    <3> HIDE DEF b, F, At, Hits, c
    <3>1. PICK n \in 0 .. Capacity : \E g \in [1 .. n -> F] :
                 Listed(bucket, hashNext, b, F, n, g)
      BY <3>0 DEF ChainOf
    <3>2. PICK g \in [1 .. n -> F] : Listed(bucket, hashNext, b, F, n, g)
      BY <3>1
    <3>4. Chain(b) = [x \in Slots |-> IF x <= n THEN g[x] ELSE 0]
      BY <3>2, <3>3, ChainIs
    <3> QED
      BY <3>4 DEF c
  <2>5. i \in Hits
    BY <1>1, <1>3, <2>3, <2>4
  <2>6. Hits \in SUBSET Nat
    BY <1>1
  <2>7. PICK m \in Hits : \A j \in Hits : m <= j
    <3> HIDE DEF Hits
    <3> QED
      BY <2>5, <2>6, LeastNatural
  <2>8. At(m) /\ \A j \in 1 .. m - 1 : ~At(j)
    BY <1>1, <2>7
  <2> DEFINE x == CHOOSE y \in Slots : At(y) /\ \A j \in 1 .. y - 1 : ~At(j)
  <2>9. x \in Slots /\ At(x)
    BY <2>7, <2>8
  <2>10. FoundSlot(k) = c[x]
    BY <2>5 DEF FoundSlot
  <2>11. c[x] \in Slots
    BY <2>9
  <2> HIDE DEF x, c
  <2> QED
    BY <1>1, <2>10, <2>11
<1> QED
  BY <1>2, <1>3

\* A key put into slot s, first of its chain, where s is in no chain any more.
LEMMA PutFirst ==
  ASSUME LinksType, LinksType', ChainsInv, NEW k \in Keys, \A t \in Filled : key[t] # k,
         NEW s \in Slots, NEW bk \in [Buckets -> Links], NEW nx \in [Slots -> Links],
         \A b \in Buckets : ChainOf(bk, nx, b, Members(b) \ {s}),
         Filled' = Filled \cup {s}, count <= count', Filled \subseteq Slots,
         hash' = hash, key' = [key EXCEPT ![s] = k],
         hashNext' = [nx EXCEPT ![s] = bk[hash[k]]], bucket' = [bk EXCEPT ![hash[k]] = s]
  PROVE  ChainsInv'
<1>1. Capacity \in Nat /\ count' \in Nat /\ s \in Links
  BY CapacityAssumption DEF LinksType
<1>2. hash \in [Keys -> Buckets] /\ hash[k] \in Buckets /\ key \in [Slots -> Keys \cup {None}]
  BY HashesAssumption DEF ChainsInv
<1>3. bucket' \in [Buckets -> Links] /\ hashNext' \in [Slots -> Links]
      /\ key' \in [Slots -> Keys \cup {None}] /\ hash' \in Hashes
  <2>1. bk[hash[k]] \in Links
    BY <1>2
  <2> HIDE DEF Links
  <2> QED
    BY <1>1, <1>2, <2>1 DEF ChainsInv
<1>4. \A t \in Slots : key'[t] = IF t = s THEN k ELSE key[t]
  BY <1>2
<1>5. ASSUME NEW t \in Slots, t > count' PROVE key'[t] = None
  <2>1. t # s
    <3>1. s \in Filled'
      OBVIOUS
    <3>2. s <= count'
      BY <1>1, <3>1 DEF Filled
    <3> QED
      BY <1>1, <1>5, <3>2
  <2>2. count \in Nat
    BY <1>1 DEF LinksType
  <2>3. t > count
    BY <1>1, <1>5, <2>2
  <2> QED
    BY <1>4, <2>1, <2>3 DEF ChainsInv
<1>6. \A t \in Filled' : key'[t] \in Keys
  BY <1>4 DEF ChainsInv
<1>7. ASSUME NEW t \in Filled', NEW u \in Filled', key'[t] = key'[u] PROVE t = u
  BY <1>4, <1>7 DEF ChainsInv
<1>8. ASSUME NEW b \in Buckets PROVE ChainOf(bucket', hashNext', b, Members(b)')
  <2> DEFINE F == Members(b) \ {s}
  <2>1. F \in SUBSET Slots /\ s \notin F /\ ChainOf(bk, nx, b, F)
    BY DEF Members
  <2>2. \A x \in F : hashNext'[x] = nx[x]
    BY <2>1
  <2>3. Members(b)' = {t \in Filled' : hash[key'[t]] = b}
    BY DEF Members
  <2>4. \A t \in Filled' : t # s => (t \in F <=> hash[key'[t]] = b)
    BY <1>4 DEF Members
  <2>5. key'[s] = k /\ s \in Filled'
    BY <1>4
  <2>6. F \subseteq Filled'
    BY DEF Members
  <2> HIDE DEF F
  <2>7. CASE b = hash[k]
    <3>1. Members(b)' = F \cup {s}
      BY <2>1, <2>3, <2>4, <2>5, <2>6, <2>7
    <3>2. bucket'[b] = s /\ hashNext'[s] = bk[b]
      BY <2>7
    <3>3. ChainOf(bucket', hashNext', b, F \cup {s})
      BY <2>1, <2>2, <3>2, ChainGrows
    <3> QED
      BY <3>1, <3>3
  <2>8. CASE b # hash[k]
    <3>1. Members(b)' = F
      BY <2>1, <2>3, <2>4, <2>5, <2>6, <2>8
    <3>2. bucket'[b] = bk[b]
      BY <2>8
    <3>3. ChainOf(bucket', hashNext', b, F)
      BY <2>1, <2>2, <3>2, ChainStays
    <3> QED
      BY <3>1, <3>3
  <2> QED
    BY <2>7, <2>8
<1> QED
  BY <1>3, <1>5, <1>6, <1>7, <1>8 DEF ChainsInv

\* A column put into a slot never used before.
LEMMA InsertFresh ==
  ASSUME LinksType, UseList, ChainsInv, NEW k \in Keys, \A t \in Filled : key[t] # k,
         InsertKey(k), hash' = hash, count < Capacity
  PROVE  /\ LinksType' /\ UseList' /\ ChainsInv' /\ count' = count + 1
         /\ KeysByUse' = [i \in Filled' |-> IF i = 1 THEN k ELSE KeysByUse[i - 1]]
<1> DEFINE s == count + 1
<1>1. /\ count \in Nat /\ Capacity \in Nat /\ s \in Slots /\ s \notin Filled
      /\ Filled \subseteq Slots
  BY CapacityAssumption DEF LinksType, Filled
<1>2. /\ count' = s /\ key' = [key EXCEPT ![s] = k]
      /\ hashNext' = [hashNext EXCEPT ![s] = bucket[hash[k]]]
      /\ bucket' = [bucket EXCEPT ![hash[k]] = s]
      /\ Touch(s)
  BY DEF InsertKey, InsertSlot, CountOn
<1>3. PICK f \in [Filled -> Filled] : KeepsOrder(f)
  BY DEF UseList
<1>4. /\ LinksType' /\ UseList'
      /\ \E g \in [Filled' -> Filled'] : g = Grown(f, s) /\ KeepsOrder(g)'
  BY <1>2, <1>3, TouchGrows
<1>5. PICK g \in [Filled' -> Filled'] : g = Grown(f, s) /\ KeepsOrder(g)'
  BY <1>4
<1>6. Filled' = Filled \cup {s} /\ Filled' = 1 .. s
  BY <1>1, <1>2 DEF Filled
<1>7. ChainsInv'
  <2>1. ASSUME NEW b \in Buckets PROVE ChainOf(bucket, hashNext, b, Members(b) \ {s})
    <3>1. Members(b) \ {s} = Members(b)
      BY <1>1 DEF Members
    <3> QED
      BY <3>1 DEF ChainsInv
  <2>2. bucket \in [Buckets -> Links] /\ hashNext \in [Slots -> Links]
    BY DEF ChainsInv
  <2>3. count <= count'
    BY <1>1, <1>2
  <2> HIDE DEF s
  <2> QED
    BY <1>1, <1>2, <1>4, <1>6, <2>1, <2>2, <2>3, PutFirst
<1>8. KeysByUse = [i \in Filled |-> key[f[i]]] /\ KeysByUse' = [i \in Filled' |-> key'[g[i]]]
  BY <1>3, <1>4, <1>5, KeysAre, KeysAreNext
<1>9. ASSUME NEW i \in Filled'
      PROVE  key'[g[i]] = IF i = 1 THEN k ELSE KeysByUse[i - 1]
  <2>1. g[i] = IF i = 1 THEN s ELSE f[i - 1]
    BY <1>5, <1>6 DEF Grown
  <2>2. \A t \in Slots : key'[t] = IF t = s THEN k ELSE key[t]
    BY <1>2 DEF ChainsInv
  <2>3. CASE i = 1
    BY <1>1, <2>1, <2>2, <2>3
  <2>4. CASE i # 1
    <3>1. i - 1 \in Filled
      BY <1>1, <1>6, <2>4 DEF Filled
    <3>2. f[i - 1] \in Slots /\ f[i - 1] # s
      BY <1>1, <3>1
    <3> QED
      BY <1>8, <2>1, <2>2, <2>4, <3>1, <3>2
  <2> QED
    BY <2>3, <2>4
<1>10. KeysByUse' = [i \in Filled' |-> IF i = 1 THEN k ELSE KeysByUse[i - 1]]
  BY <1>8, <1>9
<1> QED
  BY <1>2, <1>4, <1>7, <1>10

\* A column put into the slot used least recently, taken from its column.
LEMMA InsertFull ==
  ASSUME LinksType, UseList, ChainsInv, NEW k \in Keys, \A t \in Filled : key[t] # k,
         InsertKey(k), hash' = hash, ~(count < Capacity)
  PROVE  /\ LinksType' /\ UseList' /\ ChainsInv' /\ count' = count /\ count = Capacity
         /\ KeysByUse' = [i \in Filled' |-> IF i = 1 THEN k ELSE KeysByUse[i - 1]]
<1> DEFINE s == oldest
           b0 == hash[key[s]]
           bk == Unlink(s).bucket
           nx == Unlink(s).next
<1>1. /\ count \in Nat /\ Capacity \in Nat \ {0} /\ count = Capacity
      /\ Filled = Slots /\ count \in Filled
  BY CapacityAssumption DEF LinksType, Filled
<1>2. /\ count' = count /\ key' = [key EXCEPT ![s] = k]
      /\ hashNext' = [nx EXCEPT ![s] = bk[hash[k]]]
      /\ bucket' = [bk EXCEPT ![hash[k]] = s]
      /\ Touch(s)
  BY DEF InsertKey, InsertSlot, CountOn
<1>3. PICK f \in [Filled -> Filled] : KeepsOrder(f)
  BY DEF UseList
<1>4. s = f[count] /\ s \in Filled /\ s \in Slots
  BY <1>1, <1>3 DEF KeepsOrder
<1>5. /\ LinksType' /\ UseList'
      /\ \E g \in [Filled' -> Filled'] : g = Moved(f, s, count) /\ KeepsOrder(g)'
  BY <1>1, <1>2, <1>3, <1>4, TouchMoves
<1>6. PICK g \in [Filled' -> Filled'] : g = Moved(f, s, count) /\ KeepsOrder(g)'
  BY <1>5
<1>7. Filled' = Filled /\ Filled' = Filled \cup {s}
  BY <1>2, <1>4 DEF Filled
<1>8. b0 \in Buckets /\ key[s] \in Keys /\ hash \in [Keys -> Buckets]
  BY <1>4, HashesAssumption DEF ChainsInv
<1>9. /\ \A b \in Buckets : bk[b] = IF b = b0 /\ bucket[b] = s THEN hashNext[s] ELSE bucket[b]
      /\ \A x \in Slots : nx[x] = IF x \in ChainSlots(b0) /\ hashNext[x] = s
                                    THEN hashNext[s] ELSE hashNext[x]
      /\ bk \in [Buckets -> Links] /\ nx \in [Slots -> Links]
  <2>1. /\ bk = [bucket EXCEPT ![b0] = IF bucket[b0] = s THEN hashNext[s] ELSE bucket[b0]]
        /\ nx = [x \in Slots |-> IF x \in ChainSlots(b0) /\ hashNext[x] = s
                                   THEN hashNext[s] ELSE hashNext[x]]
    BY DEF Unlink
  <2>2. /\ bucket \in [Buckets -> Links] /\ hashNext \in [Slots -> Links]
        /\ hashNext[s] \in Links
    BY <1>4 DEF ChainsInv
  <2> HIDE DEF bk, nx, b0, Links
  <2> QED
    BY <1>8, <2>1, <2>2
<1>10. ASSUME NEW b \in Buckets PROVE ChainOf(bk, nx, b, Members(b) \ {s})
  <2> DEFINE F == Members(b)
  <2>1. F \in SUBSET Slots /\ ChainOf(bucket, hashNext, b, F)
    BY <1>1 DEF Members, ChainsInv
  <2>2. \A x \in F : x \in ChainSlots(b0) <=> b = b0
    <3>1. ChainSlots(b0) = Members(b0)
      BY <1>8, ChainsRight
    <3>2. \A x \in F : x \in Members(b0) <=> b = b0
      BY DEF Members
    <3> QED
      BY <3>1, <3>2
  <2>3. s \in F <=> b = b0
    BY <1>4 DEF Members
  <2> HIDE DEF F, bk, nx, b0, s
  <2>4. CASE b = b0
    <3>1. bk[b] = IF bucket[b] = s THEN hashNext[s] ELSE bucket[b]
      BY <1>9, <2>4
    <3>2. \A x \in F : nx[x] = IF hashNext[x] = s THEN hashNext[s] ELSE hashNext[x]
      BY <1>9, <2>1, <2>2, <2>4
    <3> QED
      BY <2>1, <2>3, <2>4, <3>1, <3>2, ChainShrinks DEF F
  <2>5. CASE b # b0
    <3>1. bk[b] = bucket[b] /\ F \ {s} = F
      BY <1>9, <2>3, <2>5
    <3>2. \A x \in F : nx[x] = hashNext[x]
      BY <1>9, <2>1, <2>2, <2>5
    <3>3. ChainOf(bk, nx, b, F)
      BY <2>1, <3>1, <3>2, ChainStays
    <3> QED
      BY <3>1, <3>3 DEF F
  <2> QED
    BY <2>4, <2>5
<1>11. ChainsInv'
  <2>1. count <= count' /\ Filled \subseteq Slots
    BY <1>1, <1>2
  <2> HIDE DEF s, bk, nx
  <2> QED
    BY <1>2, <1>4, <1>5, <1>7, <1>9, <1>10, <2>1, PutFirst
<1>12. KeysByUse = [i \in Filled |-> key[f[i]]] /\ KeysByUse' = [i \in Filled' |-> key'[g[i]]]
  BY <1>3, <1>5, <1>6, KeysAre, KeysAreNext
<1>13. ASSUME NEW i \in Filled'
       PROVE  key'[g[i]] = IF i = 1 THEN k ELSE KeysByUse[i - 1]
  <2>1. i \in Nat /\ 1 <= i /\ i <= count
    <3>1. i \in 1 .. count
      BY <1>2 DEF Filled
    <3> QED
      BY <1>1, <3>1
  <2>2. g[i] = IF i = 1 THEN s ELSE f[i - 1]
    BY <1>6, <1>7, <2>1 DEF Moved
  <2>3. \A t \in Slots : key'[t] = IF t = s THEN k ELSE key[t]
    BY <1>2 DEF ChainsInv
  <2>4. CASE i = 1
    BY <1>4, <2>2, <2>3, <2>4
  <2>5. CASE i # 1
    <3>1. i - 1 \in Filled /\ i - 1 # count
      BY <1>1, <2>1, <2>5 DEF Filled
    <3>2. f[i - 1] \in Slots /\ f[i - 1] # s
      <4>1. \A a, b \in Filled : f[a] = f[b] => a = b
        BY <1>3 DEF KeepsOrder
      <4> QED
        BY <1>1, <1>4, <3>1, <4>1
    <3> QED
      BY <1>12, <2>2, <2>3, <2>5, <3>1, <3>2
  <2> QED
    BY <2>4, <2>5
<1>14. KeysByUse' = [i \in Filled' |-> IF i = 1 THEN k ELSE KeysByUse[i - 1]]
  BY <1>12, <1>13
<1> QED
  BY <1>1, <1>2, <1>5, <1>11, <1>14

\* A column found: its slot comes to the front.
LEMMA HitKeeps ==
  ASSUME LinksType, UseList, ChainsInv, NEW k \in Keys, FindHit(k)
  PROVE  /\ LinksType' /\ UseList' /\ ChainsInv' /\ Filled' = Filled
         /\ \E j \in Filled :
              /\ KeysByUse[j] = k
              /\ KeysByUse' = [i \in Filled |-> IF i = 1 THEN k
                                                ELSE IF i <= j THEN KeysByUse[i - 1]
                                                ELSE KeysByUse[i]]
<1> DEFINE s == FoundSlot(k)
<1>1. s \in Filled /\ key[s] = k
  BY FoundSlotIs DEF FindHit
<1>2. Touch(s) /\ hash' = hash /\ key' = key /\ hashNext' = hashNext /\ bucket' = bucket
      /\ count' = count
  BY DEF FindHit, chains
<1> HIDE DEF s
<1>3. PICK f \in [Filled -> Filled] : KeepsOrder(f)
  BY DEF UseList
<1>4. PICK j \in Filled : f[j] = s
  BY <1>1, <1>3 DEF KeepsOrder
<1>5. /\ LinksType' /\ UseList'
      /\ \E g \in [Filled' -> Filled'] : g = Moved(f, s, j) /\ KeepsOrder(g)'
  BY <1>2, <1>3, <1>4, TouchMoves
<1>6. PICK g \in [Filled' -> Filled'] : g = Moved(f, s, j) /\ KeepsOrder(g)'
  BY <1>5
<1>7. Filled' = Filled
  BY <1>2 DEF Filled
<1>8. ChainsInv'
  <2>1. \A b : Members(b)' = Members(b)
    BY <1>2, <1>7 DEF Members
  <2> QED
    BY <1>2, <1>7, <2>1 DEF ChainsInv
<1>9. KeysByUse = [i \in Filled |-> key[f[i]]] /\ KeysByUse' = [i \in Filled |-> key[g[i]]]
  BY <1>2, <1>3, <1>5, <1>6, <1>7, KeysAre, KeysAreNext
<1>10. KeysByUse[j] = k
  BY <1>1, <1>4, <1>9
<1>11. ASSUME NEW i \in Filled
       PROVE  key[g[i]] = IF i = 1 THEN k ELSE IF i <= j THEN KeysByUse[i - 1]
                                               ELSE KeysByUse[i]
  <2>1. g[i] = IF i = 1 THEN s ELSE IF i <= j THEN f[i - 1] ELSE f[i]
    BY <1>6 DEF Moved
  <2>2. i # 1 => i - 1 \in Filled
    BY CapacityAssumption DEF Filled, LinksType
  <2> QED
    BY <1>1, <1>9, <2>1, <2>2
<1> QED
  BY <1>5, <1>7, <1>8, <1>9, <1>10, <1>11

\* A column not found is not among the keys.
LEMMA MissMeans ==
  ASSUME LinksType, UseList, ChainsInv, NEW k \in Keys, FoundSlot(k) = 0
  PROVE  \A i \in Filled : KeysByUse[i] # k
<1>1. PICK f \in [Filled -> Filled] : KeepsOrder(f)
  BY DEF UseList
<1>2. KeysByUse = [i \in Filled |-> key[f[i]]]
  BY <1>1, KeysAre
<1> QED
  BY <1>2, FoundSlotIs

-----------------------------------------------------------------------------
(* The invariant of the index: both lists are lists, and a column that is    *)
(* being decoded is not in it, or Insert would put it in twice.              *)

IndexInv ==
  /\ LinksType /\ UseList /\ ChainsInv
  /\ asked \in Keys \cup {None}
  /\ asked # None => \A s \in Filled : key[s] # asked

\* The empty index satisfies it.
LEMMA IndexInvInit == Init => IndexInv
<1> SUFFICES ASSUME Init PROVE IndexInv
  OBVIOUS
<1> USE DEF Init, IndexInit
<1>1. Capacity \in Nat \ {0} /\ 0 \in Links
  BY CapacityAssumption
<1>2. Filled = {} /\ \A s \in Slots : s > count
  BY <1>1 DEF Filled
<1>3. LinksType
  BY <1>1 DEF LinksType
<1>4. UseList
  <2>1. [i \in Filled |-> i] \in [Filled -> Filled]
    OBVIOUS
  <2>2. ASSUME NEW f \in [Filled -> Filled] PROVE KeepsOrder(f)
    BY <1>2 DEF KeepsOrder
  <2> QED
    BY <1>1, <2>1, <2>2 DEF UseList
<1>5. ChainsInv
  <2>1. ASSUME NEW b \in Buckets PROVE ChainOf(bucket, hashNext, b, Members(b))
    <3> DEFINE g == [i \in 1 .. 0 |-> i]
    <3>1. g \in [1 .. 0 -> Members(b)] /\ 0 \in 0 .. Capacity
      BY <1>1
    <3>2. Members(b) = {}
      BY <1>2 DEF Members
    <3>3. Listed(bucket, hashNext, b, Members(b), 0, g)
      BY <3>2 DEF Listed
    <3> QED
      BY <3>1, <3>3 DEF ChainOf
  <2>2. /\ bucket \in [Buckets -> Links] /\ hashNext \in [Slots -> Links]
        /\ key \in [Slots -> Keys \cup {None}] /\ hash \in Hashes
    BY <1>1
  <2> QED
    BY <1>2, <2>1, <2>2 DEF ChainsInv
<1> QED
  BY <1>2, <1>3, <1>4, <1>5 DEF IndexInv

\* A step that leaves the index alone.
LEMMA IndexKept ==
  ASSUME IndexInv, UNCHANGED index
  PROVE  /\ LinksType' /\ UseList' /\ ChainsInv' /\ Filled' = Filled
         /\ UNCHANGED KeysByUse
<1>1. UNCHANGED <<hash, key, hashNext, bucket, count, older, newer, oldest, newest>>
  BY DEF index, chains, recency
<1>2. Filled' = Filled
  BY <1>1 DEF Filled
<1>3. LinksType'
  BY <1>1 DEF IndexInv, LinksType
<1>4. PICK f \in [Filled -> Filled] : KeepsOrder(f)
  BY DEF IndexInv, UseList
<1>5. KeepsOrder(f)'
  BY <1>1, <1>2, <1>4 DEF KeepsOrder
<1>6. UseList'
  BY <1>1, <1>2, <1>5 DEF IndexInv, UseList
<1>7. ChainsInv'
  <2>1. \A b : Members(b)' = Members(b)
    BY <1>1, <1>2 DEF Members
  <2> QED
    BY <1>1, <1>2, <2>1 DEF IndexInv, ChainsInv
<1>8. UNCHANGED KeysByUse
  <2>1. KeysByUse = [i \in Filled |-> key[f[i]]]
    BY <1>4, KeysAre DEF IndexInv
  <2>2. KeysByUse' = [i \in Filled' |-> key'[f[i]]]
    BY <1>2, <1>3, <1>5, KeysAreNext
  <2> QED
    BY <1>1, <1>2, <2>1, <2>2
<1> QED
  BY <1>2, <1>3, <1>6, <1>7, <1>8

\* The number of keys by use.
LEMMA KeysByUseSeq ==
  ASSUME LinksType
  PROVE  /\ count \in Nat /\ DOMAIN KeysByUse = Filled /\ Len(KeysByUse) = count
         /\ Filled = 1 .. Len(KeysByUse)
<1>1. count \in Nat
  BY CapacityAssumption DEF LinksType
<1>2. DOMAIN KeysByUse = Filled
  BY DEF KeysByUse, Filled
<1>3. Len(KeysByUse) = count
  BY <1>1, <1>2 DEF Filled
<1> QED
  BY <1>1, <1>2, <1>3 DEF Filled

(* A step preserves the invariant, and is a step of the map or changes       *)
(* neither the map nor what is missing.                                      *)
LEMMA IndexInvNext ==
  ASSUME IndexInv, [Next]_vars
  PROVE  IndexInv' /\ [LRU!Next]_LRU!vars
<1>1. LinksType /\ UseList /\ ChainsInv /\ asked \in Keys \cup {None}
  BY DEF IndexInv
<1>2. /\ count \in Nat /\ Len(KeysByUse) = count /\ Filled = 1 .. Len(KeysByUse)
  BY <1>1, KeysByUseSeq
<1>3. ASSUME UNCHANGED index, asked' = asked \/ asked' = None
      PROVE  IndexInv' /\ UNCHANGED KeysByUse
  <2>1. LinksType' /\ UseList' /\ ChainsInv' /\ Filled' = Filled /\ UNCHANGED KeysByUse
    BY <1>3, IndexKept
  <2>2. key' = key
    BY <1>3 DEF index, chains
  <2>3. asked' # None => \A s \in Filled' : key'[s] # asked'
    BY <1>3, <2>1, <2>2 DEF IndexInv
  <2> QED
    BY <1>1, <1>3, <2>1, <2>3 DEF IndexInv
<1>4. ASSUME UNCHANGED <<index, asked>> PROVE IndexInv' /\ [LRU!Next]_LRU!vars
  BY <1>3, <1>4 DEF LRU!vars
<1>5. ASSUME UNCHANGED index, asked # None, asked' = None
      PROVE  IndexInv' /\ [LRU!Next]_LRU!vars
  <2>1. LRU!GiveUp
    BY <1>3, <1>5 DEF LRU!GiveUp
  <2> QED
    BY <1>3, <1>5, <2>1 DEF LRU!Next
<1>6. ASSUME NEW k \in Keys, LookUpHit(k) PROVE IndexInv' /\ [LRU!Next]_LRU!vars
  <2>1. asked = None /\ asked' = None /\ FindHit(k)
    BY <1>6 DEF LookUpHit
  <2>2. PICK j \in Filled :
          /\ KeysByUse[j] = k
          /\ KeysByUse' = [i \in Filled |-> IF i = 1 THEN k
                                            ELSE IF i <= j THEN KeysByUse[i - 1]
                                            ELSE KeysByUse[i]]
    BY <1>1, <2>1, HitKeeps
  <2>3. LRU!Hit(k)
    BY <1>2, <2>1, <2>2 DEF LRU!Hit
  <2>4. IndexInv'
    BY <1>1, <2>1, HitKeeps DEF IndexInv
  <2> QED
    BY <2>3, <2>4 DEF LRU!Next
<1>7. ASSUME NEW k \in Keys, LookUpMiss(k) PROVE IndexInv' /\ [LRU!Next]_LRU!vars
  <2>1. asked = None /\ asked' = k /\ FoundSlot(k) = 0 /\ UNCHANGED index
    BY <1>7 DEF LookUpMiss
  <2>2. LinksType' /\ UseList' /\ ChainsInv' /\ Filled' = Filled /\ UNCHANGED KeysByUse
    BY <2>1, IndexKept
  <2>3. LRU!Miss(k)
    <3>1. \A i \in Filled : KeysByUse[i] # k
      BY <1>1, <2>1, MissMeans
    <3> QED
      BY <1>2, <2>1, <2>2, <3>1 DEF LRU!Miss, LRU!Cached
  <2>4. IndexInv'
    <3>1. \A s \in Filled : key[s] # k
      BY <1>1, <2>1, FoundSlotIs
    <3>2. key' = key
      BY <2>1 DEF index, chains
    <3> QED
      BY <2>1, <2>2, <3>1, <3>2 DEF IndexInv
  <2> QED
    BY <2>3, <2>4 DEF LRU!Next
<1>8. ASSUME DecodeInsert PROVE IndexInv' /\ [LRU!Next]_LRU!vars
  <2>1. /\ asked # None /\ asked \in Keys /\ asked' = None /\ hash' = hash
        /\ InsertKey(asked)
    BY <1>1, <1>8 DEF DecodeInsert, Missed
  <2>2. \A t \in Filled : key[t] # asked
    BY <2>1 DEF IndexInv
  <2>3. Capacity \in Nat /\ count <= Capacity
    BY <1>1, CapacityAssumption DEF LinksType
  <2>4. /\ LinksType' /\ UseList' /\ ChainsInv'
        /\ count' = IF count < Capacity THEN count + 1 ELSE Capacity
        /\ KeysByUse' = [i \in Filled' |-> IF i = 1 THEN asked ELSE KeysByUse[i - 1]]
    <3>1. CASE count < Capacity
      BY <1>1, <2>1, <2>2, <3>1, InsertFresh
    <3>2. CASE ~(count < Capacity)
      BY <1>1, <2>1, <2>2, <3>2, InsertFull
    <3> QED
      BY <3>1, <3>2
  <2>5. Filled' = 1 .. (IF Len(KeysByUse) < Capacity THEN Len(KeysByUse) + 1 ELSE Capacity)
    BY <1>2, <2>4 DEF Filled
  <2>6. LRU!Insert
    BY <2>1, <2>4, <2>5 DEF LRU!Insert
  <2>7. IndexInv'
    BY <2>1, <2>4 DEF IndexInv
  <2> QED
    BY <2>6, <2>7 DEF LRU!Next
<1>9. CASE BeginFrame
  BY <1>4, <1>9 DEF BeginFrame
<1>10. CASE TallHit
  BY <1>5, <1>10 DEF TallHit
<1>11. CASE DecodeFails
  BY <1>5, <1>11 DEF DecodeFails, Missed
<1>12. CASE DecodeUncached
  BY <1>5, <1>12 DEF DecodeUncached, Missed
<1>13. CASE DecodeTall
  BY <1>5, <1>13 DEF DecodeTall, Missed
<1>14. ASSUME NEW p \in Flats, FlatHit(p) \/ FlatFails(p) \/ FlatLoad(p)
       PROVE  IndexInv' /\ [LRU!Next]_LRU!vars
  BY <1>4, <1>14 DEF FlatHit, FlatFails, FlatLoad
<1>15. CASE UNCHANGED vars
  BY <1>4, <1>15 DEF vars
<1> QED
  BY <1>6, <1>7, <1>8, <1>9, <1>10, <1>11, <1>12, <1>13, <1>14, <1>15 DEF Next

\* Every behaviour satisfies it.
LEMMA IndexInvCorrect == Spec => []IndexInv
<1>1. IndexInv /\ [Next]_vars => IndexInv'
  BY IndexInvNext
<1> QED
  BY <1>1, IndexInvInit, PTL DEF Spec

(* The use list of the decoded columns runs through every filled slot once,  *)
(* both ways, after any history of hits and evictions.                       *)
THEOREM RecencyCorrect == Spec => []RecencyWellFormed
<1>1. ASSUME IndexInv PROVE RecencyWellFormed
  <2>1. LinksType /\ UseList
    BY <1>1 DEF IndexInv
  <2>2. count \in Nat
    BY <2>1, KeysByUseSeq
  <2>3. PICK f \in [Filled -> Filled] : KeepsOrder(f)
    BY <2>1 DEF UseList
  <2>4. Recency = f
    BY <2>1, <2>3, KeysAre
  <2>5. /\ \A s \in Filled : \E i \in Filled : f[i] = s
        /\ count > 0 => newest = f[1] /\ oldest = f[count]
    BY <2>3 DEF KeepsOrder
  <2>6. /\ \A i \in Filled : older[f[i]] = IF i = count THEN 0 ELSE f[i + 1]
        /\ \A i \in Filled : newer[f[i]] = IF i = 1 THEN 0 ELSE f[i - 1]
    BY <2>3 DEF KeepsOrder
  <2>7. \A i : i \in Filled <=> i \in Nat /\ 1 <= i /\ i <= count
    BY <2>2 DEF Filled
  <2>8. ToSet(Recency) = Filled
    <3>1. ToSet(f) = {f[i] : i \in Filled}
      BY DEF ToSet
    <3> QED
      BY <2>4, <2>5, <3>1
  <2>9. ASSUME count > 0
        PROVE  Recency[count] = oldest /\ older[oldest] = 0 /\ newer[newest] = 0
    <3>1. 1 \in Filled /\ count \in Filled
      BY <2>2, <2>7, <2>9
    <3> QED
      BY <2>4, <2>5, <2>6, <2>9, <3>1
  <2>10. ASSUME NEW i \in 1 .. count - 1
         PROVE  newer[Recency[i + 1]] = Recency[i]
    <3>1. i + 1 \in Filled /\ i + 1 # 1 /\ (i + 1) - 1 = i
      BY <2>2, <2>7
    <3> QED
      BY <2>4, <2>6, <3>1
  <2> QED
    BY <2>8, <2>9, <2>10 DEF RecencyWellFormed, Filled
<1> QED
  BY <1>1, IndexInvCorrect, PTL

(* Every hash chain holds the filled slots of its bucket, each once, and     *)
(* ends: Find cannot loop, and Insert finds the link it has to cut.          *)
THEOREM ChainsCorrect == Spec => []ChainsWellFormed
<1>1. IndexInv => ChainsWellFormed
  BY ChainsRight DEF IndexInv
<1> QED
  BY <1>1, IndexInvCorrect, PTL

(* What decode_patch_column finds, misses, puts in and evicts is what a map  *)
(* with least-recently-used replacement finds, misses, puts in and evicts.   *)
THEOREM IndexImplementsLRU == Spec => ImplementsLRU
<1>1. Init => LRU!Init
  <2> SUFFICES ASSUME Init PROVE LRU!Init
    OBVIOUS
  <2>1. count = 0 /\ asked = None
    BY DEF Init, IndexInit
  <2>2. KeysByUse = <<>>
    BY <2>1 DEF KeysByUse
  <2> QED
    BY <2>1, <2>2 DEF LRU!Init
<1>2. IndexInv /\ [Next]_vars => [LRU!Next]_LRU!vars
  BY IndexInvNext
<1> QED
  BY <1>1, <1>2, IndexInvCorrect, PTL DEF Spec, ImplementsLRU, LRU!Spec

-----------------------------------------------------------------------------
(* Type correctness, from both invariants.                                   *)

RestType ==
  /\ clock \in 0 .. ClockMod - 1
  /\ tallAge \in [TSlots -> 0 .. ClockMod - 1]
  /\ result \in [asked : Content, shows : Content]

\* The types the invariants do not fix.
LEMMA RestTypeNext ==
  ASSUME Inv, Inv', RestType, [Next]_vars
  PROVE  RestType'
<1> USE DEF Content
<1>1. /\ CachesType /\ PixelsRight'
  BY DEF Inv
<1>2. ClockMod \in Nat /\ ClockMod >= 2
  BY ClockAssumption
<1>3. ASSUME Tick PROVE clock' \in 0 .. ClockMod - 1
  BY <1>2, <1>3 DEF Tick, RestType
<1>4. ASSUME NEW x \in Content, NEW c, Returns(x, c) PROVE result' \in [asked : Content, shows : Content]
  BY <1>1, <1>4 DEF Returns, PixelsRight
<1>5. ASSUME result' = NoResult PROVE result' \in [asked : Content, shows : Content]
  BY <1>5 DEF NoResult
<1>6. asked # None => asked \in Content
  BY <1>1 DEF CachesType
<1>7. ASSUME NEW t
      PROVE  [tallAge EXCEPT ![t] = clock] \in [TSlots -> 0 .. ClockMod - 1]
  BY DEF RestType
<1> HIDE DEF Content
<1>8. CASE BeginFrame
  BY <1>5, <1>8 DEF BeginFrame, RestType
<1>9. ASSUME NEW k \in Keys, LookUpHit(k) \/ LookUpMiss(k) PROVE RestType'
  <2>1. k \in Content
    BY DEF Content
  <2> QED
    BY <1>3, <1>4, <1>5, <1>9, <2>1 DEF LookUpHit, LookUpMiss, RestType, tallCache
<1>10. CASE TallHit
  BY <1>4, <1>6, <1>7, <1>10 DEF TallHit, RestType
<1>11. CASE DecodeFails
  BY <1>5, <1>11 DEF DecodeFails, RestType, tallCache
<1>12. CASE DecodeInsert
  BY <1>4, <1>6, <1>12 DEF DecodeInsert, Missed, RestType, tallCache
<1>13. CASE DecodeUncached
  BY <1>4, <1>6, <1>13 DEF DecodeUncached, Missed, RestType, tallCache
<1>14. CASE DecodeTall
  BY <1>4, <1>6, <1>7, <1>14 DEF DecodeTall, Missed, RestType
<1>15. ASSUME NEW p \in Flats, FlatHit(p) \/ FlatFails(p) \/ FlatLoad(p) PROVE RestType'
  <2>1. p \in Content
    BY DEF Content
  <2> QED
    BY <1>4, <1>5, <1>15, <2>1 DEF FlatHit, FlatFails, FlatLoad, RestType, tallCache
<1>16. CASE UNCHANGED vars
  BY <1>16 DEF vars, RestType, tallCache
<1> QED
  BY <1>8, <1>9, <1>10, <1>11, <1>12, <1>13, <1>14, <1>15, <1>16 DEF Next

(* Every variable of the decode caches keeps its type; above all no link of  *)
(* the index leaves the arrays it points into.                               *)
THEOREM DecodeTypeCorrect == Spec => []TypeOK
<1>1. Init => RestType
  BY ClockAssumption DEF Init, RestType, NoResult, Content
<1>2. Inv /\ Inv' /\ RestType /\ [Next]_vars => RestType'
  BY RestTypeNext
<1>3. Spec => []RestType
  BY <1>1, <1>2, InvCorrect, PTL DEF Spec
<1>4. ASSUME Inv, IndexInv, RestType PROVE TypeOK
  <2>1. IndexTypeOK
    BY <1>4 DEF IndexInv, LinksType, ChainsInv, IndexTypeOK
  <2> QED
    BY <1>4, <2>1 DEF Inv, CachesType, RestType, TypeOK
<1> QED
  BY <1>3, <1>4, InvCorrect, IndexInvCorrect, PTL

=============================================================================
