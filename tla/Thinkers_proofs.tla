-------------------------- MODULE Thinkers_proofs --------------------------
(* The list of a level's things, and the pools and the zone their memory is  *)
(* taken from, agree with each other for any types of things, of any size,   *)
(* in blocks of any number of slots, in a zone of any size.  The list is     *)
(* shown as a sequence f that the links string together, each type's chain   *)
(* as one of blocks; kind is the type of each block of slots.                *)
EXTENDS Thinkers, Zone_proofs

\* Min and Max.
LEMMA MinIs ==
  ASSUME NEW S \in SUBSET Slots, S # {}
  PROVE  Min(S) \in S /\ \A x \in S : Min(S) <= x
<1>1. S \in SUBSET Nat
  BY PoolAssumption DEF Slots
<1>2. \E n \in S : \A k \in S : n <= k
  BY <1>1, Least
<1> QED BY <1>2 DEF Min

LEMMA MaxIs ==
  ASSUME NEW S \in SUBSET Slots, S # {}
  PROVE  Max(S) \in S /\ \A x \in S : x <= Max(S)
<1> DEFINE T == {NumSlots - x : x \in S}
<1>1. NumSlots \in Nat /\ \A x \in S : x \in Nat /\ x < NumSlots
  BY PoolAssumption DEF Slots
<1>2. T \in SUBSET Nat /\ T # {}
  BY <1>1
<1>3. PICK n \in T : \A k \in T : n <= k
  <2> HIDE DEF T
  <2> QED BY <1>2, Least
<1>4. PICK x \in S : n = NumSlots - x
  BY <1>3
<1>5. ASSUME NEW y \in S PROVE y <= x
  <2>1. NumSlots - y \in T
    OBVIOUS
  <2>2. n <= NumSlots - y
    BY <1>3, <2>1
  <2> HIDE DEF T
  <2> QED BY <1>1, <1>4, <2>2
<1> QED BY <1>5 DEF Max

-----------------------------------------------------------------------------
\* The slots of a block: they lie one after the other in it.
LEMMA SlotBounds ==
  ASSUME NEW type \in Types, NEW b \in Int, NEW s \in Slots
  PROVE  /\ NumSlots * SlotSize[type] \in Nat \ {0} /\ s * SlotSize[type] \in Nat
         /\ Slot(b, s, type) \in Int /\ b <= Slot(b, s, type)
         /\ Slot(b, s, type) < b + NumSlots * SlotSize[type]
         /\ Slot(b, s, type) - s * SlotSize[type] = b
         /\ Slot(b, 0, type) = b
<1>1. SlotSize[type] \in Nat /\ SlotSize[type] > 0 /\ NumSlots \in Nat /\ NumSlots > 1
  BY PoolAssumption
<1>2. s \in Nat /\ s < NumSlots
  BY <1>1 DEF Slots
<1> DEFINE S == SlotSize[type]
<1> HIDE DEF S
<1>3. S \in Nat /\ S > 0
  BY <1>1 DEF S
<1>4. s * S \in Nat /\ NumSlots * S \in Nat /\ s * S + S <= NumSlots * S
  <2>1. NumSlots * S = s * S + (NumSlots - s) * S
    BY <1>1, <1>2, <1>3
  <2>2. (NumSlots - s) * S >= S
    BY <1>1, <1>2, <1>3
  <2> QED
    BY <1>1, <1>2, <1>3, <2>1, <2>2
<1>5. 0 * S = 0
  BY <1>3
<1> QED
  BY <1>3, <1>4, <1>5 DEF S, Slot

LEMMA SlotsDiffer ==
  ASSUME NEW type \in Types, NEW b \in Int, NEW s \in Slots, NEW u \in Slots,
         Slot(b, s, type) = Slot(b, u, type)
  PROVE  s = u
<1> DEFINE S == SlotSize[type]
<1> HIDE DEF S
<1>1. S \in Nat /\ S > 0 /\ s \in Nat /\ u \in Nat
  BY PoolAssumption DEF S, Slots
<1>2. s * S = u * S
  BY <1>1 DEF S, Slot
<1>3. (s - u) * S = 0
  BY <1>1, <1>2
<1> QED
  BY <1>1, <1>3

-----------------------------------------------------------------------------
\* What is allocated, by what for.
Payloads(lv, tg, t) == {b + Header : b \in {c \in lv : tg[c] = t}}
Held(t) == Payloads(live, tag, t)

LEMMA PayloadIs ==
  ASSUME NEW lv \in SUBSET Int, NEW tg, NEW t, NEW x \in Int
  PROVE  x \in Payloads(lv, tg, t) <=> x - Header \in lv /\ tg[x - Header] = t
<1>1. Header \in Int
  BY ZoneAssumption
<1>2. ASSUME x \in Payloads(lv, tg, t) PROVE x - Header \in lv /\ tg[x - Header] = t
  <2>1. PICK b \in lv : tg[b] = t /\ x = b + Header
    BY <1>2 DEF Payloads
  <2>2. x - Header = b
    BY <1>1, <2>1
  <2> QED BY <2>1, <2>2
<1>3. ASSUME x - Header \in lv, tg[x - Header] = t PROVE x \in Payloads(lv, tg, t)
  <2>1. x = (x - Header) + Header
    BY <1>1
  <2> QED BY <1>3, <2>1 DEF Payloads
<1> QED BY <1>2, <1>3

LEMMA PayloadsInt ==
  ASSUME NEW lv \in SUBSET Int, NEW tg, NEW t
  PROVE  Payloads(lv, tg, t) \in SUBSET Int
  BY ZoneAssumption DEF Payloads

\* Z_Free takes one block from those in use and leaves the others as they are.
LEMMA FreedOnly ==
  ASSUME ZoneInv, NEW block \in live, tag[block] # "free", Z_Free(block)
  PROVE  /\ ZoneInv' /\ live' \subseteq live
         /\ \A b : (b \in live' /\ tag'[b] # "free") <=> (b \in live /\ tag[b] # "free" /\ b # block)
         /\ \A b \in live' : tag'[b] # "free" => tag'[b] = tag[b] /\ size'[b] = size[b]
<1> DEFINE before == prev[block]
           after  == next[block]
           back   == tag[before] = "free"
           ahead  == tag[after] = "free"
           first  == IF back THEN before ELSE block
           gone   == (IF back THEN {block} ELSE {}) \cup (IF ahead THEN {after} ELSE {})
<1>1. /\ tag' = [tag EXCEPT ![block] = "free"] /\ live' = live \ gone
      /\ size' = [size EXCEPT ![first] = Joined(block, back, ahead)]
  BY Zenon DEF Z_Free, FreeAhead
<1>2. /\ before \in Ring /\ after \in Ring /\ before # block /\ after # block
  BY Neighbours
<1>3. \A b \in live : b \in Addresses
  BY RingAddresses DEF Ring
<1>4. tag \in [Addresses -> Tags] /\ size \in [Addresses -> 0 .. ZoneSize]
  BY RingAddresses
<1>5. ASSUME NEW b \in live PROVE tag'[b] = IF b = block THEN "free" ELSE tag[b]
  BY <1>1, <1>3, <1>4
<1>6. ASSUME NEW b \in live, b # first PROVE size'[b] = size[b]
  BY <1>1, <1>3, <1>4, <1>6
<1>7. tag[first] = "free" \/ first = block
  OBVIOUS
<1>8. ZoneInv'
  BY FreeKeepsRing
<1>9. \A b \in gone : b = block \/ tag[b] = "free"
  OBVIOUS
<1> HIDE DEF first, gone
<1> QED
  BY <1>1, <1>5, <1>6, <1>7, <1>8, <1>9

\* Z_Malloc adds one to them.
LEMMA TakenOnly ==
  ASSUME ZoneInv, NEW block \in live, NEW need \in Header + 1 .. ZoneSize,
         NEW t \in Tags \ {"free"}, FirstFit(block, need), Z_Take(block, need, t)
  PROVE  /\ ZoneInv' /\ live \subseteq live' /\ panicked' = panicked
         /\ tag[block] = "free" /\ tag'[block] = t /\ size'[block] >= need
         /\ \A b : (b \in live' /\ tag'[b] # "free") <=> ((b \in live /\ tag[b] # "free") \/ b = block)
         /\ \A b \in live : tag[b] # "free" => tag'[b] = tag[b] /\ size'[b] = size[b]
<1> DEFINE extent == size[block] - need
           rest   == block + need
           split  == extent > MinFragment
<1>1. tag[block] = "free" /\ size[block] >= need
  BY FirstFitFits
<1>2. need \in Int /\ need > Header /\ Header \in Nat /\ MinFragment \in Nat /\ Header <= MinFragment
  BY ZoneAssumption
<1>3. block \in 1 .. ZoneSize /\ size[block] \in Int /\ block + size[block] <= ZoneSize + 1
  BY Neighbours DEF ZoneInv, ZoneTiled
<1>4. \A b \in live : b \in Addresses /\ b \in Int
  BY RingAddresses DEF Ring
<1>5. tag \in [Addresses -> Tags] /\ size \in [Addresses -> 0 .. ZoneSize]
  BY RingAddresses
<1>6. ZoneInv'
  <2>1. ~split => ZoneInv'
    BY <1>1, <1>2, TakeWhole
  <2>2. split => ZoneInv'
    BY <1>1, <1>2, TakePart
  <2> QED BY <2>1, <2>2
<1>7. panicked' = panicked
  BY DEF Z_Take
<1>8. CASE ~split
  <2>1. tag' = [tag EXCEPT ![block] = t] /\ size' = size /\ live' = live
    BY <1>8 DEF Z_Take
  <2> HIDE DEF split
  <2> QED BY <1>1, <1>3, <1>4, <1>5, <1>6, <1>7, <2>1
<1>9. CASE split
  <2>1. /\ tag' = [tag EXCEPT ![rest] = "free", ![block] = t] /\ live' = live \cup {rest}
        /\ size' = [size EXCEPT ![rest] = extent, ![block] = need]
    BY <1>9 DEF Z_Take
  <2>2. rest \in Addresses /\ rest # block
    BY <1>2, <1>3, <1>9, ZoneAssumption DEF Addresses
  <2>3. ASSUME NEW b \in live PROVE b # rest
    <3>1. CASE b = block
      BY <2>2, <3>1
    <3>2. CASE b # block
      <4>1. b + size[b] <= block \/ block + size[block] <= b
        BY <3>2, Apart
      <4>2. size[b] \in Int /\ size[b] > Header
        BY Neighbours
      <4> QED BY <1>2, <1>3, <1>4, <1>9, <4>1, <4>2
    <3> QED BY <3>1, <3>2
  <2>4. ASSUME NEW b \in live, b # block PROVE tag'[b] = tag[b] /\ size'[b] = size[b]
    BY <1>4, <1>5, <2>1, <2>3, <2>4
  <2>5. tag'[rest] = "free" /\ tag'[block] = t /\ size'[block] = need
    BY <1>3, <1>4, <1>5, <2>1, <2>2
  <2> HIDE DEF rest, split, extent
  <2>6. \A b : (b \in live' /\ tag'[b] # "free") <=> ((b \in live /\ tag[b] # "free") \/ b = block)
    BY <1>1, <2>1, <2>4, <2>5
  <2>7. live \subseteq live' /\ size'[block] >= need
    BY <1>2, <2>1, <2>5
  <2>8. \A b \in live : tag[b] # "free" => tag'[b] = tag[b] /\ size'[b] = size[b]
    BY <1>1, <2>4
  <2> QED BY <1>1, <1>6, <1>7, <2>5, <2>6, <2>7, <2>8
<1> QED BY <1>8, <1>9

-----------------------------------------------------------------------------
\* Blocks do not overlap, and one of slots is long enough for those of its kind.
Layout(lv, sz, tg, kind) ==
  /\ lv \subseteq 1 .. ZoneSize
  /\ \A b \in lv : sz[b] \in Int /\ sz[b] > Header /\ b + sz[b] <= ZoneSize + 1
  /\ \A b, c \in lv : b < c => b + sz[b] <= c
  /\ \A b \in Payloads(lv, tg, "level") :
       kind[b] \in Types /\ NumSlots * SlotSize[kind[b]] + Header <= sz[b - Header]

\* So no two things, and no two slots, are at one address.
LEMMA Elsewhere ==
  ASSUME NEW lv, NEW sz, NEW tg, NEW kind, Layout(lv, sz, tg, kind)
  PROVE  /\ \A b \in Payloads(lv, tg, "level") :
              b \in 1 .. ZoneSize /\ \A s \in Slots : Slot(b, s, kind[b]) \in 1 .. ZoneSize
         /\ \A b \in Payloads(lv, tg, "levspec") : b \in 1 .. ZoneSize
         /\ \A b, c \in Payloads(lv, tg, "level") : \A s, u \in Slots :
              Slot(b, s, kind[b]) = Slot(c, u, kind[c]) => b = c /\ s = u
         /\ \A b \in Payloads(lv, tg, "level") : \A c \in Payloads(lv, tg, "levspec") :
              \A s \in Slots : Slot(b, s, kind[b]) # c
<1>1. ZoneSize \in Nat /\ Header \in Nat /\ Header > 0
  BY ZoneAssumption
<1>2. lv \in SUBSET Int
  BY <1>1 DEF Layout
<1>3. ASSUME NEW t, NEW b \in Payloads(lv, tg, t)
      PROVE  /\ b \in Int /\ b - Header \in lv /\ tg[b - Header] = t /\ b - Header >= 1
             /\ sz[b - Header] \in Int /\ b - Header + sz[b - Header] <= ZoneSize + 1
             /\ sz[b - Header] > Header /\ b \in 1 .. ZoneSize
  <2>1. b \in Int
    BY <1>2, <1>3, PayloadsInt
  <2>2. b - Header \in lv /\ tg[b - Header] = t
    BY <1>2, <1>3, <2>1, PayloadIs
  <2> QED BY <1>1, <2>1, <2>2 DEF Layout
<1>4. ASSUME NEW b \in Payloads(lv, tg, "level"), NEW s \in Slots
      PROVE  /\ Slot(b, s, kind[b]) \in Int /\ b <= Slot(b, s, kind[b])
             /\ Slot(b, s, kind[b]) < b - Header + sz[b - Header]
  <2>1. b \in Int /\ kind[b] \in Types /\ NumSlots * SlotSize[kind[b]] + Header <= sz[b - Header]
    BY <1>3 DEF Layout
  <2>2. /\ NumSlots * SlotSize[kind[b]] \in Nat /\ Slot(b, s, kind[b]) \in Int
        /\ b <= Slot(b, s, kind[b]) /\ Slot(b, s, kind[b]) < b + NumSlots * SlotSize[kind[b]]
    BY <2>1, SlotBounds
  <2> QED BY <1>1, <1>3, <2>1, <2>2
<1>5. ASSUME NEW t, NEW v, NEW b \in Payloads(lv, tg, t), NEW c \in Payloads(lv, tg, v), b # c
      PROVE  b - Header + sz[b - Header] <= c - Header \/ c - Header + sz[c - Header] <= b - Header
  <2>1. b - Header \in lv /\ c - Header \in lv /\ b - Header # c - Header
        /\ b - Header \in Int /\ c - Header \in Int
    BY <1>1, <1>3, <1>5
  <2> QED BY <2>1 DEF Layout
<1>6. ASSUME NEW b \in Payloads(lv, tg, "level"), NEW c \in Payloads(lv, tg, "level"),
             NEW s \in Slots, NEW u \in Slots, Slot(b, s, kind[b]) = Slot(c, u, kind[c])
      PROVE  b = c /\ s = u
  <2>1. b = c
    <3> SUFFICES ASSUME b # c PROVE FALSE
      OBVIOUS
    <3>1. b - Header + sz[b - Header] <= c - Header \/ c - Header + sz[c - Header] <= b - Header
      BY <1>5
    <3>2. b \in Int /\ c \in Int /\ sz[b - Header] \in Int /\ sz[c - Header] \in Int
      BY <1>3
    <3> QED BY <1>1, <1>4, <1>6, <3>1, <3>2
  <2> QED BY <1>3, <1>6, <2>1, SlotsDiffer DEF Layout
<1>7. ASSUME NEW b \in Payloads(lv, tg, "level"), NEW c \in Payloads(lv, tg, "levspec"),
             NEW s \in Slots, Slot(b, s, kind[b]) = c
      PROVE  FALSE
  <2>1. b # c
    BY <1>3
  <2>2. b - Header + sz[b - Header] <= c - Header \/ c - Header + sz[c - Header] <= b - Header
    BY <1>5, <2>1
  <2>3. /\ b \in Int /\ c \in Int /\ sz[b - Header] \in Int /\ sz[c - Header] \in Int
        /\ sz[c - Header] > Header
    BY <1>3
  <2> QED BY <1>1, <1>4, <1>7, <2>2, <2>3
<1>8. ASSUME NEW b \in Payloads(lv, tg, "level"), NEW s \in Slots
      PROVE  Slot(b, s, kind[b]) \in 1 .. ZoneSize
  BY <1>1, <1>3, <1>4
<1> QED BY <1>3, <1>6, <1>7, <1>8

-----------------------------------------------------------------------------
\* f is the linked list that begins at first and ends with end.
Strung(f, n, link, first, end) ==
  /\ \A i, j \in 1 .. n : f[i] = f[j] => i = j
  /\ first = IF n = 0 THEN end ELSE f[1]
  /\ \A i \in 1 .. n : link[f[i]] = IF i = n THEN end ELSE f[i + 1]

\* One more at the end.
Appended(f, n, S, link, first, end, t, link2, first2) ==
  /\ n \in Nat /\ f \in [1 .. n -> S] /\ Strung(f, n, link, first, end) /\ t \notin S
  /\ link2[t] = end /\ first2 = IF n = 0 THEN t ELSE first
  /\ \A x \in S : link2[x] = IF n > 0 /\ x = f[n] THEN t ELSE link[x]

LEMMA AppendKeeps ==
  ASSUME NEW f, NEW n, NEW S, NEW link, NEW first, NEW end, NEW t, NEW link2, NEW first2,
         Appended(f, n, S, link, first, end, t, link2, first2),
         NEW g, g = [i \in 1 .. n + 1 |-> IF i = n + 1 THEN t ELSE f[i]]
  PROVE  g \in [1 .. n + 1 -> S \cup {t}] /\ Strung(g, n + 1, link2, first2, end)
<1> USE DEF Appended
<1>1. g \in [1 .. n + 1 -> S \cup {t}]
  OBVIOUS
<1>2. \A i \in 1 .. n : g[i] = f[i] /\ f[i] \in S /\ i # n + 1
  OBVIOUS
<1>3. g[n + 1] = t
  OBVIOUS
<1>4. \A i \in 1 .. n + 1 : i # n + 1 => i \in 1 .. n
  OBVIOUS
<1>5. \A i, j \in 1 .. n + 1 : g[i] = g[j] => i = j
  BY <1>2, <1>3, <1>4 DEF Strung
<1>6. first2 = g[1]
  BY <1>2, <1>3 DEF Strung
<1>7. ASSUME NEW i \in 1 .. n + 1 PROVE link2[g[i]] = IF i = n + 1 THEN end ELSE g[i + 1]
  <2>1. CASE i = n + 1
    BY <1>3, <2>1
  <2>2. CASE i = n
    BY <1>2, <1>3, <2>2
  <2>3. CASE i \in 1 .. n /\ i # n
    <3>1. g[i] = f[i] /\ f[i] \in S /\ i + 1 \in 1 .. n /\ n \in 1 .. n
      BY <1>2, <2>3
    <3>2. f[i] # f[n]
      BY <2>3, <3>1 DEF Strung
    <3>3. link2[f[i]] = link[f[i]] /\ link[f[i]] = f[i + 1] /\ g[i + 1] = f[i + 1]
      BY <1>2, <2>3, <3>1, <3>2 DEF Strung
    <3> QED BY <2>3, <3>1, <3>3
  <2> QED BY <2>1, <2>2, <2>3
<1>8. n + 1 # 0
  OBVIOUS
<1>9. Strung(g, n + 1, link2, first2, end)
  BY <1>5, <1>6, <1>7, <1>8 DEF Strung
<1> QED BY <1>1, <1>9

\* One less: the k-th leaves, whatever becomes of its own link.
Removed(f, n, S, link, first, end, k, link2, first2) ==
  /\ n \in Nat /\ f \in [1 .. n -> S] /\ Strung(f, n, link, first, end) /\ k \in 1 .. n
  /\ first2 = IF k = 1 THEN link[f[1]] ELSE first
  /\ \A i \in 1 .. n : i # k =>
       link2[f[i]] = IF i = k - 1 THEN link[f[k]] ELSE link[f[i]]

LEMMA RemoveKeeps ==
  ASSUME NEW f, NEW n, NEW S, NEW link, NEW first, NEW end, NEW k, NEW link2, NEW first2,
         Removed(f, n, S, link, first, end, k, link2, first2),
         NEW g, g = [i \in 1 .. n - 1 |-> IF i < k THEN f[i] ELSE f[i + 1]]
  PROVE  g \in [1 .. n - 1 -> S \ {f[k]}] /\ Strung(g, n - 1, link2, first2, end)
<1> USE DEF Removed
<1> DEFINE at(i) == IF i < k THEN i ELSE i + 1
<1>1. \A i \in 1 .. n - 1 : g[i] = f[at(i)] /\ at(i) \in 1 .. n /\ at(i) # k
  OBVIOUS
<1>2. g \in [1 .. n - 1 -> S \ {f[k]}]
  <2>1. \A i \in 1 .. n - 1 : g[i] \in S \ {f[k]}
    BY <1>1 DEF Strung
  <2> QED BY <2>1
<1>3. ASSUME NEW i \in 1 .. n - 1, NEW j \in 1 .. n - 1, g[i] = g[j] PROVE i = j
  <2>1. at(i) = at(j)
    BY <1>1, <1>3 DEF Strung
  <2> QED BY <2>1
<1>4. ASSUME NEW i \in 1 .. n - 1
      PROVE  link2[g[i]] = IF i = n - 1 THEN end ELSE g[i + 1]
  <2>1. link[f[k]] = IF k = n THEN end ELSE f[k + 1]
    BY DEF Strung
  <2>2. CASE i = k - 1
    <3>1. at(i) = i /\ i \in 1 .. n /\ i # k
      BY <2>2
    <3>2. link2[g[i]] = link[f[k]]
      BY <1>1, <2>2, <3>1
    <3>3. i # n - 1 => g[i + 1] = f[k + 1]
      BY <2>2
    <3> QED BY <2>1, <2>2, <3>2, <3>3
  <2>3. CASE i # k - 1
    <3>1. at(i) \in 1 .. n /\ at(i) # k /\ at(i) # k - 1
      BY <2>3
    <3>2. link2[g[i]] = link[f[at(i)]]
      BY <1>1, <3>1
    <3>3. link[f[at(i)]] = IF at(i) = n THEN end ELSE f[at(i) + 1]
      BY <3>1 DEF Strung
    <3>4. at(i) = n <=> i = n - 1
      BY <2>3
    <3>5. i # n - 1 => g[i + 1] = f[at(i) + 1]
      BY <2>3
    <3> QED BY <3>2, <3>3, <3>4, <3>5
  <2> QED BY <2>2, <2>3
<1>5. first2 = IF n - 1 = 0 THEN end ELSE g[1]
  <2>1. CASE k = 1
    <3>1. link[f[1]] = IF n = 1 THEN end ELSE f[2]
      BY <2>1 DEF Strung
    <3>2. n # 1 => g[1] = f[2]
      BY <2>1
    <3> QED BY <2>1, <3>1, <3>2
  <2>2. CASE k # 1
    <3>1. first = f[1] /\ g[1] = f[1] /\ n - 1 # 0
      BY <2>2 DEF Strung
    <3> QED BY <2>2, <3>1
  <2> QED BY <2>1, <2>2
<1>6. Strung(g, n - 1, link2, first2, end)
  BY <1>3, <1>4, <1>5 DEF Strung
<1> QED BY <1>2, <1>6

\* One more at the front.
Pushed(f, n, S, link, first, end, t, link2) ==
  /\ n \in Nat /\ f \in [1 .. n -> S] /\ Strung(f, n, link, first, end) /\ t \notin S
  /\ link2[t] = first /\ \A x \in S : link2[x] = link[x]

LEMMA PushKeeps ==
  ASSUME NEW f, NEW n, NEW S, NEW link, NEW first, NEW end, NEW t, NEW link2,
         Pushed(f, n, S, link, first, end, t, link2),
         NEW g, g = [i \in 1 .. n + 1 |-> IF i = 1 THEN t ELSE f[i - 1]]
  PROVE  g \in [1 .. n + 1 -> S \cup {t}] /\ Strung(g, n + 1, link2, t, end)
<1> USE DEF Pushed
<1>1. \A i \in 1 .. n + 1 : i # 1 => i - 1 \in 1 .. n /\ g[i] = f[i - 1] /\ f[i - 1] \in S
  OBVIOUS
<1>2. g[1] = t /\ g \in [1 .. n + 1 -> S \cup {t}]
  OBVIOUS
<1>3. ASSUME NEW i \in 1 .. n + 1, NEW j \in 1 .. n + 1, g[i] = g[j] PROVE i = j
  <2>1. CASE i = 1 \/ j = 1
    BY <1>1, <1>2, <1>3, <2>1
  <2>2. CASE i # 1 /\ j # 1
    <3>1. i - 1 = j - 1
      BY <1>1, <1>3, <2>2 DEF Strung
    <3> QED BY <3>1
  <2> QED BY <2>1, <2>2
<1>4. ASSUME NEW i \in 1 .. n + 1 PROVE link2[g[i]] = IF i = n + 1 THEN end ELSE g[i + 1]
  <2>1. CASE i = 1
    <3>1. n # 0 => g[2] = f[1]
      OBVIOUS
    <3> QED BY <1>2, <2>1, <3>1 DEF Strung
  <2>2. CASE i # 1
    <3>1. i - 1 \in 1 .. n /\ link2[g[i]] = link[f[i - 1]]
      BY <1>1, <2>2
    <3>2. link[f[i - 1]] = IF i - 1 = n THEN end ELSE f[(i - 1) + 1]
      BY <3>1 DEF Strung
    <3>3. i # n + 1 => g[i + 1] = f[i]
      BY <2>2
    <3> QED BY <3>1, <3>2, <3>3
  <2> QED BY <2>1, <2>2
<1>5. Strung(g, n + 1, link2, t, end)
  <2>1. n + 1 # 0
    OBVIOUS
  <2> QED BY <1>2, <1>3, <1>4, <2>1 DEF Strung
<1> QED BY <1>2, <1>5

-----------------------------------------------------------------------------
\* Every thing is in memory that is held for it, and the other way round: kind
\* is the type of each block of slots.
Housed(kind) ==
  /\ kind \in [Held("level") -> Types]
  /\ \A b \in Held("level") :
       /\ NumSlots * SlotSize[kind[b]] + Header <= size[b - Header]
       /\ extra[b] # Slots
       /\ \A s \in Slots \ extra[b] :
            Slot(b, s, kind[b]) \in objects /\ poolInfo[Slot(b, s, kind[b])] = <<kind[b], s>>
  /\ \A b \in Held("levspec") : b \in objects /\ poolInfo[b] = Unpooled
  /\ \A t \in objects :
       /\ poolInfo[t] = Unpooled => t \in Held("levspec")
       /\ poolInfo[t] # Unpooled =>
            \E b \in Held("level") : \E s \in Slots \ extra[b] :
              t = Slot(b, s, kind[b]) /\ poolInfo[t] = <<kind[b], s>>

\* Each type's chain is a list of blocks of that type that have a free slot; it
\* need not have all of them.
Partials(kind, type) == {b \in Held("level") : kind[b] = type /\ extra[b] # {}}

Links(type) == [b \in 1 .. ZoneSize |-> spNext[LinkOf(b, type, extra)]]

Chained(kind, type) ==
  \E m \in Nat : \E g \in [1 .. m -> Partials(kind, type)] :
    Strung(g, m, Links(type), pool[type], Nil)

PoolingAs(kind) == Housed(kind) /\ \A type \in Types : Chained(kind, type)
Pooling == \E kind : PoolingAs(kind)

\* What each variable can hold.
ThinkType ==
  /\ spNext \in [1 .. ZoneSize \cup {Cap} -> 0 .. ZoneSize \cup {Cap}]
  /\ poolInfo \in [1 .. ZoneSize -> {Unpooled} \cup (Types \X Slots)]
  /\ extra \in [1 .. ZoneSize -> SUBSET Slots] /\ pool \in [Types -> 0 .. ZoneSize]
  /\ objects \subseteq 1 .. ZoneSize /\ removed \subseteq objects
  /\ tail \in 1 .. ZoneSize \cup {Cap} /\ cursor \in 0 .. ZoneSize \cup {Cap}

LEMMA Disjoint ==
  ASSUME ZoneInv
  PROVE  /\ live \subseteq 1 .. ZoneSize
         /\ \A b \in live : size[b] \in Int /\ size[b] > Header /\ b + size[b] <= ZoneSize + 1
         /\ \A b, c \in live : b < c => b + size[b] <= c
  BY Neighbours DEF ZoneInv, ZoneType, ZoneTiled

LEMMA DisjointAfter ==
  ASSUME ZoneInv'
  PROVE  /\ live' \subseteq 1 .. ZoneSize
         /\ \A b \in live' : size'[b] \in Int /\ size'[b] > Header /\ b + size'[b] <= ZoneSize + 1
         /\ \A b, c \in live' : b < c => b + size'[b] <= c
<1>1. live' \subseteq 1 .. ZoneSize /\ size' \in [Addresses -> 0 .. ZoneSize]
  BY DEF ZoneInv, ZoneType
<1>2. \A b \in live' : size'[b] \in Int
  BY <1>1, ZoneAssumption DEF Addresses
<1> QED BY <1>1, <1>2 DEF ZoneInv, ZoneTiled

LEMMA LayoutIs ==
  ASSUME ZoneInv, NEW kind, Housed(kind)
  PROVE  Layout(live, size, tag, kind)
<1>1. \A b \in Held("level") :
        kind[b] \in Types /\ NumSlots * SlotSize[kind[b]] + Header <= size[b - Header]
  BY DEF Housed
<1> QED BY <1>1, Disjoint DEF Layout, Held

\* Where things and slots are.
LEMMA Places ==
  ASSUME ZoneInv, NEW kind, Housed(kind)
  PROVE  /\ \A b \in Held("level") :
              /\ b \in 1 .. ZoneSize /\ b - Header \in live /\ tag[b - Header] = "level"
              /\ kind[b] \in Types
              /\ \A s \in Slots : Slot(b, s, kind[b]) \in 1 .. ZoneSize
         /\ \A b \in Held("levspec") :
              b \in 1 .. ZoneSize /\ b - Header \in live /\ tag[b - Header] = "levspec"
         /\ \A b, c \in Held("level") : \A s, u \in Slots :
              Slot(b, s, kind[b]) = Slot(c, u, kind[c]) => b = c /\ s = u
         /\ \A b \in Held("level") : \A c \in Held("levspec") :
              \A s \in Slots : Slot(b, s, kind[b]) # c
         /\ \A b \in Held("level") : \A s \in Slots :
              Slot(b, s, kind[b]) \in objects => s \notin extra[b]
<1>1. Layout(live, size, tag, kind)
  BY LayoutIs
<1>2. live \in SUBSET Int
  BY Disjoint, ZoneAssumption
<1>3. /\ \A b \in Held("level") :
           b \in 1 .. ZoneSize /\ \A s \in Slots : Slot(b, s, kind[b]) \in 1 .. ZoneSize
      /\ \A b \in Held("levspec") : b \in 1 .. ZoneSize
      /\ \A b, c \in Held("level") : \A s, u \in Slots :
           Slot(b, s, kind[b]) = Slot(c, u, kind[c]) => b = c /\ s = u
      /\ \A b \in Held("level") : \A c \in Held("levspec") :
           \A s \in Slots : Slot(b, s, kind[b]) # c
  <2>1. Held("level") = Payloads(live, tag, "level") /\ Held("levspec") = Payloads(live, tag, "levspec")
    BY DEF Held
  <2> QED BY <1>1, <2>1, Elsewhere
<1>4. ASSUME NEW v, NEW b \in Held(v), b \in 1 .. ZoneSize PROVE b - Header \in live /\ tag[b - Header] = v
  BY <1>2, <1>4, PayloadIs DEF Held
<1>5. ASSUME NEW b \in Held("level"), NEW s \in Slots, Slot(b, s, kind[b]) \in objects
      PROVE  s \notin extra[b]
  <2> DEFINE t == Slot(b, s, kind[b])
  <2>1. CASE poolInfo[t] = Unpooled
    <3>1. t \in Held("levspec")
      BY <1>5, <2>1 DEF Housed
    <3> QED BY <1>3, <3>1
  <2>2. CASE poolInfo[t] # Unpooled
    <3>1. PICK c \in Held("level") : \E u \in Slots \ extra[c] : t = Slot(c, u, kind[c])
      BY <1>5, <2>2 DEF Housed
    <3> QED BY <1>3, <3>1
  <2> QED BY <2>1, <2>2
<1>6. \A b \in Held("level") : kind[b] \in Types
  BY DEF Housed
<1> QED BY <1>3, <1>4, <1>5, <1>6

\* The slot that has a block's link is free, and no other block's.
LEMMA LinkPlaces ==
  ASSUME ZoneInv, extra \in [1 .. ZoneSize -> SUBSET Slots], NEW kind, Housed(kind)
  PROVE  /\ \A b \in Held("level") : extra[b] # {} =>
              /\ extra[b] \in SUBSET Slots
              /\ Max(extra[b]) \in extra[b] /\ \A s \in extra[b] : s <= Max(extra[b])
              /\ LinkOf(b, kind[b], extra) \in 1 .. ZoneSize
              /\ LinkOf(b, kind[b], extra) \notin objects
         /\ \A b, c \in Held("level") :
              extra[b] # {} /\ extra[c] # {} /\ LinkOf(b, kind[b], extra) = LinkOf(c, kind[c], extra)
                => b = c
<1>1. ASSUME NEW b \in Held("level"), extra[b] # {}
      PROVE  /\ extra[b] \in SUBSET Slots
             /\ Max(extra[b]) \in extra[b] /\ Max(extra[b]) \in Slots
             /\ \A s \in extra[b] : s <= Max(extra[b])
             /\ LinkOf(b, kind[b], extra) = Slot(b, Max(extra[b]), kind[b])
  <2>1. extra[b] \in SUBSET Slots
    BY Places
  <2>2. Max(extra[b]) \in extra[b] /\ \A s \in extra[b] : s <= Max(extra[b])
    BY <1>1, <2>1, MaxIs
  <2> QED BY <2>1, <2>2 DEF LinkOf
<1> QED BY <1>1, Places

\* A thing in a slot is in a block of its type.
LEMMA ThingPlace ==
  ASSUME ZoneInv, NEW kind, Housed(kind), NEW t \in objects, poolInfo[t] # Unpooled
  PROVE  LET block == t - poolInfo[t][2] * SlotSize[poolInfo[t][1]]
         IN /\ block \in Held("level") /\ kind[block] = poolInfo[t][1]
            /\ poolInfo[t][2] \in Slots \ extra[block]
            /\ t = Slot(block, poolInfo[t][2], kind[block])
<1>1. PICK b \in Held("level") : \E s \in Slots \ extra[b] :
        t = Slot(b, s, kind[b]) /\ poolInfo[t] = <<kind[b], s>>
  BY DEF Housed
<1>2. PICK s \in Slots \ extra[b] : t = Slot(b, s, kind[b]) /\ poolInfo[t] = <<kind[b], s>>
  BY <1>1
<1>3. poolInfo[t][1] = kind[b] /\ poolInfo[t][2] = s
  BY <1>2
<1>4. b \in 1 .. ZoneSize /\ kind[b] \in Types
  BY Places
<1>5. t - s * SlotSize[kind[b]] = b
  BY <1>2, <1>4, SlotBounds
<1> QED BY <1>2, <1>3, <1>5

-----------------------------------------------------------------------------
\* The list of things: every thing in use is in it once, it begins at the cap,
\* or where P_UnArchiveThinkers has come to, and what was removed before this
\* run of P_RunThinkers comes after the thing it has come to.
First == IF phase = "unarchiving" THEN cursor ELSE spNext[Cap]

RowIs(n, f) ==
  /\ Strung(f, n, spNext, First, Cap)
  /\ \A t \in objects : \E i \in 1 .. n : f[i] = t
  /\ phase = "running" =>
       \E k \in 0 .. n :
         /\ cursor = IF k = 0 THEN Cap ELSE f[k]
         /\ \A t \in overdue : \E j \in k + 1 .. n : f[j] = t

Row == \E n \in Nat : \E f \in [1 .. n -> objects] : RowIs(n, f)

TailIs == phase # "unarchiving" => tail \in objects \cup {Cap} /\ spNext[tail] = Cap

\* thinkertail is the last of the list.
LEMMA TailAt ==
  ASSUME ThinkType, TailIs, phase # "unarchiving", NEW n \in Nat,
         NEW f \in [1 .. n -> objects], RowIs(n, f)
  PROVE  /\ tail = IF n = 0 THEN Cap ELSE f[n]
         /\ spNext[Cap] = IF n = 0 THEN Cap ELSE f[1]
         /\ Cap \notin objects
<1>1. Cap \notin objects /\ (tail \in objects \cup {Cap}) /\ spNext[tail] = Cap
  BY ZoneAssumption DEF TailIs, ThinkType, Cap
<1>2. spNext[Cap] = IF n = 0 THEN Cap ELSE f[1]
  BY DEF RowIs, Strung, First
<1>3. CASE n = 0
  BY <1>1, <1>2, <1>3 DEF RowIs
<1>4. CASE n # 0
  <2>1. tail # Cap
    BY <1>1, <1>2, <1>4
  <2>2. PICK i \in 1 .. n : f[i] = tail
    BY <1>1, <2>1 DEF RowIs
  <2>3. i # n => f[i + 1] = Cap /\ f[i + 1] \in objects
    BY <1>1, <2>2 DEF RowIs, Strung
  <2> QED BY <1>1, <1>2, <1>4, <2>2, <2>3
<1> QED BY <1>1, <1>2, <1>3, <1>4

\* A thing that is added becomes the last, after whatever is overdue.
LEMMA RowGrows ==
  ASSUME ThinkType, Row, TailIs, overdue \subseteq objects, phase \in {"idle", "running"},
         NEW t \in 1 .. ZoneSize, t \notin objects,
         NEW sp \in [1 .. ZoneSize \cup {Cap} -> 0 .. ZoneSize \cup {Cap}],
         \A x \in objects \cup {Cap} : sp[x] = spNext[x],
         AddThinker(t, sp), UNCHANGED <<phase, cursor, overdue>>
  PROVE  /\ Row' /\ TailIs' /\ objects' = objects \cup {t} /\ tail' = t
         /\ spNext' \in [1 .. ZoneSize \cup {Cap} -> 0 .. ZoneSize \cup {Cap}]
         /\ \A x \in 1 .. ZoneSize \cup {Cap} : x # t /\ x # tail => spNext'[x] = sp[x]
<1>1. PICK n \in Nat : \E f \in [1 .. n -> objects] : RowIs(n, f)
  BY DEF Row
<1>2. PICK f \in [1 .. n -> objects] : RowIs(n, f)
  BY <1>1
<1>3. phase # "unarchiving" /\ objects \subseteq 1 .. ZoneSize
  BY DEF ThinkType
<1>4. /\ tail = IF n = 0 THEN Cap ELSE f[n]
      /\ spNext[Cap] = IF n = 0 THEN Cap ELSE f[1]
      /\ Cap \notin objects
  BY <1>2, <1>3, TailAt
<1>5. /\ spNext' = [sp EXCEPT ![t] = sp[tail], ![tail] = t] /\ tail' = t
      /\ objects' = objects \cup {t}
  BY DEF AddThinker
<1>6. /\ t # Cap /\ tail \in objects \cup {Cap} /\ t # tail /\ spNext[tail] = Cap
      /\ sp[tail] = Cap /\ tail \in 1 .. ZoneSize \cup {Cap}
  <2>1. t # Cap /\ ZoneSize \in Nat
    BY ZoneAssumption DEF Cap
  <2>2. tail \in objects \cup {Cap} /\ spNext[tail] = Cap
    BY <1>3 DEF TailIs
  <2> QED BY <1>3, <2>1, <2>2
<1>7. spNext'[t] = Cap /\ spNext'[tail] = t
  BY <1>5, <1>6
<1>8. ASSUME NEW x \in 1 .. ZoneSize \cup {Cap}, x # t, x # tail PROVE spNext'[x] = sp[x]
  BY <1>5, <1>8
<1>9. spNext' \in [1 .. ZoneSize \cup {Cap} -> 0 .. ZoneSize \cup {Cap}]
  <2>1. Cap \in 0 .. ZoneSize \cup {Cap} /\ t \in 0 .. ZoneSize \cup {Cap}
    BY ZoneAssumption
  <2> QED BY <1>5, <1>6, <2>1
<1> DEFINE g == [i \in 1 .. n + 1 |-> IF i = n + 1 THEN t ELSE f[i]]
<1>10. g \in [1 .. n + 1 -> objects'] /\ Strung(g, n + 1, spNext', spNext'[Cap], Cap)
  <2>1. Strung(f, n, spNext, spNext[Cap], Cap)
    BY <1>2, <1>3 DEF RowIs, First
  <2>2. \A x \in objects : spNext'[x] = IF n > 0 /\ x = f[n] THEN t ELSE spNext[x]
    <3>1. ASSUME NEW x \in objects
          PROVE  spNext'[x] = IF n > 0 /\ x = f[n] THEN t ELSE spNext[x]
      <4>1. x = tail <=> (n > 0 /\ x = f[n])
        BY <1>4
      <4> QED BY <1>3, <1>6, <1>7, <1>8, <4>1
    <3> QED BY <3>1
  <2>3. spNext'[Cap] = IF n = 0 THEN t ELSE spNext[Cap]
    <3>1. Cap = tail <=> n = 0
      BY <1>4
    <3> QED BY <1>6, <1>7, <1>8, <3>1
  <2>4. g \in [1 .. n + 1 -> objects \cup {t}] /\ Strung(g, n + 1, spNext', spNext'[Cap], Cap)
    <3>1. g = [i \in 1 .. n + 1 |-> IF i = n + 1 THEN t ELSE f[i]]
      OBVIOUS
    <3> HIDE DEF g
    <3>2. Appended(f, n, objects, spNext, spNext[Cap], Cap, t, spNext', spNext'[Cap])
      BY <1>7, <2>1, <2>2, <2>3 DEF Appended
    <3> QED BY <3>1, <3>2, AppendKeeps
  <2> QED BY <1>5, <2>4
<1>11. \A i \in 1 .. n : i \in 1 .. n + 1 /\ g[i] = f[i]
  OBVIOUS
<1>12. n + 1 \in 1 .. n + 1 /\ g[n + 1] = t
  OBVIOUS
<1> HIDE DEF g
<1>13. ASSUME NEW x \in objects' PROVE \E i \in 1 .. n + 1 : g[i] = x
  <2>1. CASE x = t
    BY <1>12, <2>1
  <2>2. CASE x \in objects
    BY <1>2, <1>11, <2>2 DEF RowIs
  <2> QED BY <1>5, <2>1, <2>2
<1>14. ASSUME phase' = "running"
       PROVE  \E k \in 0 .. n + 1 :
                /\ cursor' = IF k = 0 THEN Cap ELSE g[k]
                /\ \A x \in overdue' : \E j \in k + 1 .. n + 1 : g[j] = x
  <2>1. PICK k \in 0 .. n : /\ cursor = IF k = 0 THEN Cap ELSE f[k]
                            /\ \A x \in overdue : \E j \in k + 1 .. n : f[j] = x
    BY <1>2, <1>14 DEF RowIs
  <2>2. k \in 0 .. n + 1 /\ cursor' = IF k = 0 THEN Cap ELSE g[k]
    BY <1>11, <2>1
  <2>3. ASSUME NEW x \in overdue' PROVE \E j \in k + 1 .. n + 1 : g[j] = x
    <3>1. PICK j \in k + 1 .. n : f[j] = x
      BY <2>1
    <3>2. j \in k + 1 .. n + 1 /\ j \in 1 .. n
      OBVIOUS
    <3> QED BY <1>11, <3>1, <3>2
  <2> QED BY <2>2, <2>3
<1>15. RowIs(n + 1, g)'
  <2>1. First' = spNext'[Cap]
    BY <1>3 DEF First
  <2> QED BY <1>10, <1>13, <1>14, <2>1 DEF RowIs
<1>16. Row'
  BY <1>10, <1>15 DEF Row
<1>17. TailIs'
  BY <1>5, <1>7 DEF TailIs
<1> QED BY <1>5, <1>8, <1>9, <1>16, <1>17

\* Where P_RunThinkers has come to, and the thing after it.
LEMMA CursorAt ==
  ASSUME ThinkType, phase = "running", NEW n \in Nat, NEW f \in [1 .. n -> objects], RowIs(n, f)
  PROVE  \E k \in 0 .. n :
           /\ cursor = IF k = 0 THEN Cap ELSE f[k]
           /\ \A t \in overdue : \E j \in k + 1 .. n : f[j] = t
           /\ spNext[cursor] = IF k = n THEN Cap ELSE f[k + 1]
<1>1. PICK k \in 0 .. n : /\ cursor = IF k = 0 THEN Cap ELSE f[k]
                          /\ \A t \in overdue : \E j \in k + 1 .. n : f[j] = t
  BY DEF RowIs
<1>2. spNext[cursor] = IF k = n THEN Cap ELSE f[k + 1]
  <2>1. CASE k = 0
    BY <1>1, <2>1 DEF RowIs, Strung, First
  <2>2. CASE k # 0
    BY <1>1, <2>2 DEF RowIs, Strung
  <2> QED BY <2>1, <2>2
<1> QED BY <1>1, <1>2

\* The thing after it leaves the list, and what is behind it stays so.
LEMMA RowShrinks ==
  ASSUME ThinkType, Row, TailIs, phase = "running", spNext[cursor] \in objects,
         objects' = objects \ {spNext[cursor]}, overdue' = overdue \ {spNext[cursor]},
         UNCHANGED <<phase, cursor>>,
         tail' = IF spNext[spNext[cursor]] = Cap THEN cursor ELSE tail,
         \A x \in objects' \cup {Cap} :
           spNext'[x] = IF x = cursor THEN spNext[spNext[cursor]] ELSE spNext[x]
  PROVE  Row' /\ TailIs'
<1>1. PICK n \in Nat : \E f \in [1 .. n -> objects] : RowIs(n, f)
  BY DEF Row
<1>2. PICK f \in [1 .. n -> objects] : RowIs(n, f)
  BY <1>1
<1>3. PICK p \in 0 .. n :
        /\ cursor = IF p = 0 THEN Cap ELSE f[p]
        /\ \A t \in overdue : \E j \in p + 1 .. n : f[j] = t
        /\ spNext[cursor] = IF p = n THEN Cap ELSE f[p + 1]
  BY <1>2, CursorAt
<1>4. Cap \notin objects
  BY ZoneAssumption DEF ThinkType, Cap
<1> DEFINE k == p + 1
           current == f[k]
<1>5. p # n /\ k \in 1 .. n /\ spNext[cursor] = current /\ k - 1 = p
  BY <1>3, <1>4
<1>6. Strung(f, n, spNext, spNext[Cap], Cap)
  BY <1>2 DEF RowIs, First
<1>7. spNext[current] = IF k = n THEN Cap ELSE f[k + 1]
  BY <1>5, <1>6 DEF Strung
<1>8. /\ objects' = objects \ {current} /\ overdue' = overdue \ {current}
      /\ tail' = IF spNext[current] = Cap THEN cursor ELSE tail
      /\ \A x \in objects' \cup {Cap} :
           spNext'[x] = IF x = cursor THEN spNext[current] ELSE spNext[x]
  BY <1>5
<1> HIDE DEF k, current
<1>9. Removed(f, n, objects, spNext, spNext[Cap], Cap, k, spNext', spNext'[Cap])
  <2>1. spNext'[Cap] = IF k = 1 THEN spNext[f[1]] ELSE spNext[Cap]
    <3>1. cursor = Cap <=> k = 1
      BY <1>3, <1>4, <1>5 DEF k
    <3>2. k = 1 => current = f[1]
      BY DEF current
    <3> QED BY <1>8, <3>1, <3>2
  <2>2. ASSUME NEW i \in 1 .. n, i # k
        PROVE  spNext'[f[i]] = IF i = k - 1 THEN spNext[f[k]] ELSE spNext[f[i]]
    <3>1. f[i] \in objects'
      BY <1>5, <1>6, <1>8, <2>2 DEF Strung, current
    <3>2. f[i] = cursor <=> i = p
      <4>1. CASE p = 0
        BY <1>3, <1>4, <4>1
      <4>2. CASE p # 0
        BY <1>3, <1>6, <4>2 DEF Strung
      <4> QED BY <4>1, <4>2
    <3> QED BY <1>5, <1>8, <3>1, <3>2 DEF current
  <2> QED BY <1>5, <1>6, <2>1, <2>2 DEF Removed
<1> DEFINE g == [i \in 1 .. n - 1 |-> IF i < k THEN f[i] ELSE f[i + 1]]
<1>10. g \in [1 .. n - 1 -> objects \ {f[k]}] /\ Strung(g, n - 1, spNext', spNext'[Cap], Cap)
  <2>1. g = [i \in 1 .. n - 1 |-> IF i < k THEN f[i] ELSE f[i + 1]]
    OBVIOUS
  <2> HIDE DEF g
  <2> QED BY <1>9, <2>1, RemoveKeeps
<1>11. n - 1 \in Nat /\ g \in [1 .. n - 1 -> objects']
  BY <1>5, <1>8, <1>10 DEF current
<1>12. ASSUME NEW i \in 1 .. n, i # k
       PROVE  /\ i < k => i \in 1 .. n - 1 /\ g[i] = f[i]
              /\ i > k => i - 1 \in 1 .. n - 1 /\ g[i - 1] = f[i]
  BY <1>5, <1>12
<1> HIDE DEF g
<1>13. ASSUME NEW x \in objects' PROVE \E i \in 1 .. n - 1 : g[i] = x
  <2>1. PICK i \in 1 .. n : f[i] = x
    BY <1>2, <1>8 DEF RowIs
  <2>2. i # k
    BY <1>8, <2>1 DEF current
  <2>3. i < k \/ i > k
    BY <1>5, <2>2
  <2> QED BY <1>12, <2>1, <2>2, <2>3
<1>14. /\ p \in 0 .. n - 1 /\ cursor' = IF p = 0 THEN Cap ELSE g[p]
       /\ \A x \in overdue' : \E j \in p + 1 .. n - 1 : g[j] = x
  <2>1. p \in 0 .. n - 1 /\ p < k
    BY <1>5
  <2>2. p # 0 => g[p] = f[p]
    BY <1>5, <1>12, <2>1
  <2>3. ASSUME NEW x \in overdue' PROVE \E j \in p + 1 .. n - 1 : g[j] = x
    <3>1. PICK j \in p + 1 .. n : f[j] = x
      BY <1>3, <1>8
    <3>2. j # k
      BY <1>8, <3>1 DEF current
    <3>3. j > k /\ j \in 1 .. n
      BY <1>5, <3>2 DEF k
    <3>4. j - 1 \in p + 1 .. n - 1 /\ g[j - 1] = x
      BY <1>5, <1>12, <3>1, <3>2, <3>3
    <3> QED BY <3>4
  <2> QED BY <1>3, <2>1, <2>2, <2>3
<1>15. First' = spNext'[Cap]
  BY DEF First
<1>16. RowIs(n - 1, g)'
  BY <1>10, <1>13, <1>14, <1>15 DEF RowIs
<1>17. Row'
  BY <1>11, <1>16 DEF Row
<1>18. TailIs'
  <2>1. /\ tail = IF n = 0 THEN Cap ELSE f[n]
        /\ spNext[tail] = Cap
    BY <1>2, TailAt DEF TailIs
  <2>2. CASE k = n
    <3>1. spNext[current] = Cap /\ tail' = cursor
      BY <1>7, <1>8, <2>2
    <3>2. cursor \in objects' \cup {Cap}
      BY <1>3, <1>5, <1>6, <1>8 DEF Strung, current
    <3> QED BY <1>8, <3>1, <3>2 DEF TailIs
  <2>3. CASE k # n
    <3>1. k + 1 \in 1 .. n /\ n \in 1 .. n
      BY <1>5, <2>3
    <3>2. spNext[current] # Cap /\ tail' = tail /\ tail = f[n]
      BY <1>4, <1>7, <1>8, <2>1, <2>3, <3>1
    <3>3. tail \in objects'
      BY <1>5, <1>6, <1>8, <2>3, <3>1, <3>2 DEF Strung, current
    <3>4. tail # cursor
      BY <1>4, <1>5, <2>1 DEF current
    <3> QED BY <1>8, <2>1, <3>2, <3>3, <3>4 DEF TailIs
  <2> QED BY <2>2, <2>3
<1> QED BY <1>17, <1>18

\* The first leaves it: P_UnArchiveThinkers has come to the next.
LEMMA RowLosesFirst ==
  ASSUME ThinkType, Row, phase = "unarchiving", cursor # Cap,
         objects' = objects \ {cursor}, UNCHANGED phase, cursor' = spNext[cursor],
         \A x \in objects' : spNext'[x] = spNext[x]
  PROVE  cursor \in objects /\ Row' /\ TailIs'
<1>1. PICK n \in Nat : \E f \in [1 .. n -> objects] : RowIs(n, f)
  BY DEF Row
<1>2. PICK f \in [1 .. n -> objects] : RowIs(n, f)
  BY <1>1
<1>3. Strung(f, n, spNext, cursor, Cap)
  BY <1>2 DEF RowIs, First
<1>4. 1 \in 1 .. n /\ cursor = f[1]
  BY <1>3 DEF Strung
<1>5. Removed(f, n, objects, spNext, cursor, Cap, 1, spNext', cursor')
  <2>1. ASSUME NEW i \in 1 .. n, i # 1 PROVE f[i] \in objects' /\ i # 0
    BY <1>3, <1>4, <2>1 DEF Strung
  <2> QED BY <1>3, <1>4, <2>1 DEF Removed
<1> DEFINE g == [i \in 1 .. n - 1 |-> IF i < 1 THEN f[i] ELSE f[i + 1]]
<1>6. g \in [1 .. n - 1 -> objects \ {f[1]}] /\ Strung(g, n - 1, spNext', cursor', Cap)
  <2>1. g = [i \in 1 .. n - 1 |-> IF i < 1 THEN f[i] ELSE f[i + 1]]
    OBVIOUS
  <2> HIDE DEF g
  <2> QED BY <1>5, <2>1, RemoveKeeps
<1>7. ASSUME NEW i \in 1 .. n, i # 1 PROVE i - 1 \in 1 .. n - 1 /\ g[i - 1] = f[i]
  BY <1>7
<1> HIDE DEF g
<1>8. ASSUME NEW x \in objects' PROVE \E i \in 1 .. n - 1 : g[i] = x
  <2>1. PICK i \in 1 .. n : f[i] = x
    BY <1>2 DEF RowIs
  <2>2. i # 1
    BY <1>4, <2>1
  <2> QED BY <1>7, <2>1, <2>2
<1>9. RowIs(n - 1, g)'
  BY <1>6, <1>8 DEF RowIs, First
<1>10. n - 1 \in Nat /\ g \in [1 .. n - 1 -> objects']
  BY <1>4, <1>6
<1> QED BY <1>4, <1>9, <1>10 DEF Row, TailIs

-----------------------------------------------------------------------------
\* A way through the blocks of a chain, as far as the one to stop at.
Way(g, k, head, stop, type, sp, free) ==
  /\ k \in Nat /\ g \in [1 .. k -> 1 .. ZoneSize] /\ DOMAIN free = 1 .. ZoneSize
  /\ head = IF k = 0 THEN Nil ELSE g[1]
  /\ \A i \in 1 .. k - 1 :
       g[i] # stop /\ free[g[i]] # {} /\ sp[LinkOf(g[i], type, free)] = g[i + 1]
  /\ k # 0 => g[k] = stop \/ sp[LinkOf(g[k], type, free)] = Nil

\* Chain follows it, in as many steps as there may be blocks.
LEMMA ChainIs ==
  ASSUME NEW g, NEW k, NEW head, NEW stop, NEW type, NEW sp, NEW free,
         Way(g, k, head, stop, type, sp, free),
         Cardinality(live) \in Nat, k <= Cardinality(live)
  PROVE  Chain(head, stop, type, sp, free) = {g[i] : i \in 1 .. k}
<1> USE DEF Way
<1> DEFINE Partial(b) == b # stop /\ b \in DOMAIN free /\ free[b] # {}
           Onward(R) == R \cup ({sp[LinkOf(b, type, free)] : b \in {c \in R : Partial(c)}} \ {Nil})
           Reached[n \in Nat] == IF n = 0 THEN {head} \ {Nil} ELSE Onward(Reached[n - 1])
           Come(n) == {g[i] : i \in {j \in 1 .. k : j <= n + 1}}
<1>1. \A i \in 1 .. k : g[i] \in 1 .. ZoneSize /\ g[i] # Nil
  BY ZoneAssumption DEF Nil
<1>2. Come(0) = {head} \ {Nil}
  <2>1. CASE k = 0
    BY <2>1 DEF Nil
  <2>2. CASE k # 0
    <3>1. {j \in 1 .. k : j <= 0 + 1} = {1}
      BY <2>2
    <3> QED BY <1>1, <2>2, <3>1
  <2> QED BY <2>1, <2>2
<1>3. ASSUME NEW n \in Nat \ {0} PROVE Come(n) = Onward(Come(n - 1))
  <2>1. ASSUME NEW i \in 1 .. k, i <= n + 1 PROVE g[i] \in Onward(Come(n - 1))
    <3>1. CASE i <= n
      BY <2>1, <3>1
    <3>2. CASE i = n + 1
      <4>1. n \in 1 .. k - 1 /\ n \in {j \in 1 .. k : j <= (n - 1) + 1}
        BY <2>1, <3>2
      <4>2. g[n] \in Come(n - 1) /\ Partial(g[n]) /\ sp[LinkOf(g[n], type, free)] = g[i]
        BY <1>1, <3>2, <4>1
      <4> HIDE DEF Come, Partial
      <4>3. g[i] \in {sp[LinkOf(b, type, free)] : b \in {c \in Come(n - 1) : Partial(c)}}
        BY <4>2
      <4> QED BY <1>1, <2>1, <4>3
    <3>3. i <= n \/ i = n + 1
      BY <2>1
    <3> QED BY <3>1, <3>2, <3>3
  <2>2. ASSUME NEW b \in Come(n - 1), Partial(b), sp[LinkOf(b, type, free)] # Nil
        PROVE  sp[LinkOf(b, type, free)] \in Come(n)
    <3>1. PICK i \in {j \in 1 .. k : j <= (n - 1) + 1} : b = g[i]
      OBVIOUS
    <3>2. i # k
      BY <2>2, <3>1
    <3>3. i \in 1 .. k - 1 /\ i + 1 \in {j \in 1 .. k : j <= n + 1}
      BY <3>1, <3>2
    <3>4. sp[LinkOf(b, type, free)] = g[i + 1]
      BY <3>1, <3>3
    <3> QED BY <3>3, <3>4
  <2>3. Come(n - 1) \subseteq Come(n)
    <3>1. {j \in 1 .. k : j <= (n - 1) + 1} \subseteq {j \in 1 .. k : j <= n + 1}
      OBVIOUS
    <3> QED BY <3>1
  <2>4. Come(n) \subseteq Onward(Come(n - 1))
    BY <2>1
  <2> HIDE DEF Come, Partial
  <2> QED BY <2>2, <2>3, <2>4
<1> HIDE DEF Come, Onward
<1> DEFINE W == [n \in Nat |-> Come(n)]
<1>4. W = [n \in Nat |-> IF n = 0 THEN {head} \ {Nil} ELSE Onward(W[n - 1])]
  <2>1. ASSUME NEW n \in Nat PROVE Come(n) = IF n = 0 THEN {head} \ {Nil} ELSE Onward(W[n - 1])
    <3>1. n # 0 => n - 1 \in Nat
      OBVIOUS
    <3> QED BY <1>2, <1>3, <3>1
  <2> QED BY <2>1
<1>5. Reached = [n \in Nat |-> IF n = 0 THEN {head} \ {Nil} ELSE Onward(Reached[n - 1])]
  <2> HIDE DEF W
  <2> QED BY <1>4
<1> HIDE DEF Reached
<1> DEFINE Bad == {n \in Nat : Reached[n] # Come(n)}
<1>6. ASSUME NEW n \in Bad, \A j \in Bad : n <= j PROVE FALSE
  <2>1. n \in Nat /\ Reached[n] # Come(n)
    OBVIOUS
  <2>2. n # 0
    BY <1>2, <1>5, <2>1
  <2>3. n - 1 \in Nat /\ n - 1 \notin Bad
    BY <1>6, <2>1, <2>2
  <2>4. Reached[n - 1] = Come(n - 1)
    BY <2>3
  <2> QED BY <1>3, <1>5, <2>1, <2>2, <2>4
<1>7. Bad = {}
  <2>1. Bad \in SUBSET Nat
    OBVIOUS
  <2> HIDE DEF Bad
  <2> QED BY <1>6, <2>1, Least
<1>8. Reached[Cardinality(live)] = Come(Cardinality(live))
  BY <1>7
<1>9. Come(Cardinality(live)) = {g[i] : i \in 1 .. k}
  <2>1. {j \in 1 .. k : j <= Cardinality(live) + 1} = 1 .. k
    OBVIOUS
  <2> QED BY <2>1 DEF Come
<1>10. Chain(head, stop, type, sp, free) = Reached[Cardinality(live)]
  BY DEF Chain, Reached, Onward
<1> QED BY <1>8, <1>9, <1>10

-----------------------------------------------------------------------------
\* What a step of the zone does to what is held.
LEMMA HeldFreed ==
  ASSUME ZoneInv, NEW x \in 1 .. ZoneSize, x - Header \in live, tag[x - Header] # "free",
         Z_Free(x - Header)
  PROVE  /\ ZoneInv'
         /\ \A v \in {"level", "levspec"} :
              /\ Held(v)' = Held(v) \ {x}
              /\ \A y \in Held(v) \ {x} : size'[y - Header] = size[y - Header]
<1> DEFINE block == x - Header
<1>1. /\ ZoneInv' /\ live' \subseteq live
      /\ \A b : (b \in live' /\ tag'[b] # "free") <=> (b \in live /\ tag[b] # "free" /\ b # block)
      /\ \A b \in live' : tag'[b] # "free" => tag'[b] = tag[b] /\ size'[b] = size[b]
  BY FreedOnly
<1>2. live \in SUBSET Int /\ live' \in SUBSET Int
  BY <1>1, Disjoint, ZoneAssumption
<1>3. ASSUME NEW v \in {"level", "levspec"} 
      PROVE  /\ Held(v)' = Held(v) \ {x}
             /\ \A y \in Held(v) \ {x} : size'[y - Header] = size[y - Header]
  <2>1. v # "free" /\ Held(v) \in SUBSET Int /\ Held(v)' \in SUBSET Int
    BY <1>2, PayloadsInt DEF Held
  <2>2. ASSUME NEW y \in Int
        PROVE  /\ y \in Held(v) <=> y - Header \in live /\ tag[y - Header] = v
               /\ y \in Held(v)' <=> y - Header \in live' /\ tag'[y - Header] = v
               /\ y - Header = block <=> y = x
    <3>1. y \in Held(v) <=> y - Header \in live /\ tag[y - Header] = v
      BY <1>2, PayloadIs DEF Held
    <3>2. y \in Held(v)' <=> y - Header \in live' /\ tag'[y - Header] = v
      BY <1>2, PayloadIs DEF Held
    <3>3. y - Header = block <=> y = x
      BY ZoneAssumption
    <3> QED BY <3>1, <3>2, <3>3
  <2> HIDE DEF block
  <2>3. ASSUME NEW y \in Int PROVE y \in Held(v)' <=> y \in Held(v) /\ y # x
    BY <1>1, <2>1, <2>2
  <2>4. ASSUME NEW y \in Held(v) \ {x} PROVE size'[y - Header] = size[y - Header]
    BY <1>1, <2>1, <2>2, <2>3
  <2>5. Held(v)' = Held(v) \ {x}
    BY <2>1, <2>3
  <2> QED BY <2>4, <2>5
<1> QED BY <1>1, <1>3

LEMMA HeldTaken ==
  ASSUME ZoneInv, NEW x \in Results, NEW bytes \in Nat \ {0}, bytes + Header <= ZoneSize,
         NEW t \in Tags \ {"free"}, Allocate(x, bytes, t)
  PROVE  /\ ZoneInv' /\ panicked' = panicked /\ (panicked = 0 => ZoneNext)
         /\ x \in Int /\ size'[x - Header] >= bytes + Header
         /\ \A v \in {"level", "levspec"} :
              /\ x \notin Held(v) /\ Held(v)' = IF v = t THEN Held(v) \cup {x} ELSE Held(v)
              /\ \A y \in Held(v) : size'[y - Header] = size[y - Header]
<1>1. PICK block \in live : x = block + Header
  BY DEF Results
<1>2. live \in SUBSET Int /\ Header \in Nat \ {0} /\ ZoneSize \in Nat
  BY Disjoint, ZoneAssumption
<1>3. x \in Int /\ x - Header = block
  BY <1>1, <1>2
<1> DEFINE need == bytes + Header
<1>4. need \in Header + 1 .. ZoneSize
  BY <1>2
<1>5. FirstFit(block, need) /\ Z_Take(block, need, t)
  BY <1>3 DEF Allocate
<1> HIDE DEF need
<1>6. /\ ZoneInv' /\ live \subseteq live' /\ panicked' = panicked
      /\ tag[block] = "free" /\ tag'[block] = t /\ size'[block] >= need
      /\ \A b : (b \in live' /\ tag'[b] # "free") <=> ((b \in live /\ tag[b] # "free") \/ b = block)
      /\ \A b \in live : tag[b] # "free" => tag'[b] = tag[b] /\ size'[b] = size[b]
  BY <1>4, <1>5, TakenOnly
<1>7. panicked = 0 => ZoneNext
  BY <1>4, <1>5 DEF ZoneNext
<1>8. live' \in SUBSET Int
  <2>1. live' \subseteq 1 .. ZoneSize
    BY <1>6 DEF ZoneInv, ZoneType
  <2> QED BY <1>2, <2>1
<1>9. ASSUME NEW v \in {"level", "levspec"}
      PROVE  /\ x \notin Held(v) /\ Held(v)' = IF v = t THEN Held(v) \cup {x} ELSE Held(v)
             /\ \A y \in Held(v) : size'[y - Header] = size[y - Header]
  <2>1. v # "free" /\ Held(v) \in SUBSET Int /\ Held(v)' \in SUBSET Int
    BY <1>2, <1>8, PayloadsInt DEF Held
  <2>2. ASSUME NEW y \in Int
        PROVE  /\ y \in Held(v) <=> y - Header \in live /\ tag[y - Header] = v
               /\ y \in Held(v)' <=> y - Header \in live' /\ tag'[y - Header] = v
               /\ y - Header = block <=> y = x
    <3>1. y \in Held(v) <=> y - Header \in live /\ tag[y - Header] = v
      BY <1>2, PayloadIs DEF Held
    <3>2. y \in Held(v)' <=> y - Header \in live' /\ tag'[y - Header] = v
      BY <1>8, PayloadIs DEF Held
    <3>3. y - Header = block <=> y = x
      BY <1>2, <1>3
    <3> QED BY <3>1, <3>2, <3>3
  <2>3. ASSUME NEW y \in Held(v) PROVE y # x /\ size'[y - Header] = size[y - Header]
    BY <1>6, <2>1, <2>2
  <2>4. ASSUME NEW y \in Int PROVE y \in Held(v)' <=> y \in Held(v) \/ (v = t /\ y = x)
    BY <1>6, <2>1, <2>2
  <2>5. x \in Int
    BY <1>3
  <2>6. Held(v)' = IF v = t THEN Held(v) \cup {x} ELSE Held(v)
    BY <2>1, <2>4, <2>5
  <2> QED BY <2>3, <2>6
<1> QED BY <1>3, <1>6, <1>7, <1>9 DEF need

\* A chain whose blocks keep their links is kept.
LEMMA ChainKept ==
  ASSUME NEW kind, NEW kind2, NEW type, Chained(kind, type), pool'[type] = pool[type],
         \A b \in Partials(kind, type) :
           /\ b \in 1 .. ZoneSize /\ b \in Partials(kind2, type)'
           /\ spNext'[LinkOf(b, type, extra')] = spNext[LinkOf(b, type, extra)]
  PROVE  Chained(kind2, type)'
<1>1. PICK m \in Nat : \E g \in [1 .. m -> Partials(kind, type)] :
        Strung(g, m, Links(type), pool[type], Nil)
  BY DEF Chained
<1>2. PICK g \in [1 .. m -> Partials(kind, type)] :
        Strung(g, m, Links(type), pool[type], Nil)
  BY <1>1
<1>3. \A b \in Partials(kind, type) : Links(type)'[b] = Links(type)[b]
  BY DEF Links
<1>4. g \in [1 .. m -> Partials(kind2, type)']
  OBVIOUS
<1>5. Strung(g, m, Links(type)', pool'[type], Nil)
  BY <1>2, <1>3 DEF Strung
<1> QED BY <1>4, <1>5 DEF Chained

\* A chain is no longer than there are blocks.
LEMMA ChainLength ==
  ASSUME ZoneInv, NEW kind, Housed(kind), NEW type, NEW m \in Nat,
         NEW g \in [1 .. m -> Partials(kind, type)], \A i, j \in 1 .. m : g[i] = g[j] => i = j
  PROVE  Cardinality(live) \in Nat /\ m <= Cardinality(live)
<1> DEFINE h == [i \in 1 .. m |-> g[i] - Header]
<1>1. \A i \in 1 .. m : g[i] \in Int /\ g[i] - Header \in live
  BY Places, ZoneAssumption DEF Partials
<1>2. h \in Injection(1 .. m, live)
  BY <1>1, ZoneAssumption DEF Injection, IsInjective
<1>3. IsFiniteSet(live) /\ Cardinality(live) \in Nat
  BY RingSize
<1>4. IsFiniteSet(1 .. m) /\ Cardinality(1 .. m) = m
  BY FS_Interval
<1> HIDE DEF h
<1>5. Cardinality(1 .. m) <= Cardinality(live)
  BY <1>2, <1>3, FS_Injection
<1> QED BY <1>3, <1>4, <1>5

\* The greatest of a set that one is added to.
LEMMA MaxWith ==
  ASSUME NEW S \in SUBSET Slots, NEW x \in Slots
  PROVE  /\ S = {} => Max(S \cup {x}) = x
         /\ S # {} /\ Max(S \cup {x}) # x => Max(S \cup {x}) = Max(S)
<1>1. S \cup {x} \in SUBSET Slots /\ S \cup {x} # {} /\ S \cup {x} \subseteq Int
  BY PoolAssumption DEF Slots
<1>2. Max(S \cup {x}) \in S \cup {x} /\ \A y \in S \cup {x} : y <= Max(S \cup {x})
  BY <1>1, MaxIs
<1>3. S # {} => Max(S) \in S /\ \A y \in S : y <= Max(S)
  BY MaxIs
<1> QED BY <1>1, <1>2, <1>3

LEMMA PartialPlaces ==
  ASSUME ZoneInv, extra \in [1 .. ZoneSize -> SUBSET Slots], NEW kind, Housed(kind),
         NEW type, NEW b \in Partials(kind, type)
  PROVE  /\ b \in Held("level") /\ b \in 1 .. ZoneSize /\ kind[b] = type /\ extra[b] # {}
         /\ extra[b] \in SUBSET Slots
         /\ LinkOf(b, type, extra) \in 1 .. ZoneSize \ objects
         /\ Max(extra[b]) \in extra[b]
<1>1. b \in Held("level") /\ kind[b] = type /\ extra[b] # {}
  BY DEF Partials
<1> QED BY <1>1, LinkPlaces, Places

-----------------------------------------------------------------------------
\* Z_ThinkFree: the links may differ from the list's own at things in use.
Unlinked(sp) ==
  /\ sp \in [1 .. ZoneSize \cup {Cap} -> 0 .. ZoneSize \cup {Cap}]
  /\ \A x \in 1 .. ZoneSize \ objects : sp[x] = spNext[x]

\* What it leaves behind.
Freed(t, sp) ==
  /\ Pooling'
  /\ spNext' \in [1 .. ZoneSize \cup {Cap} -> 0 .. ZoneSize \cup {Cap}]
  /\ extra' \in [1 .. ZoneSize -> SUBSET Slots] /\ pool' \in [Types -> 0 .. ZoneSize]
  /\ \A x \in (objects \ {t}) \cup {Cap} : spNext'[x] = sp[x]

\* A thing of its own.
LEMMA UnpooledFreed ==
  ASSUME ZoneInv, ThinkType, NEW kind, PoolingAs(kind), NEW t \in objects, NEW sp, Unlinked(sp),
         Z_ThinkFreeUnpooled(t, sp), objects' = objects \ {t}, UNCHANGED poolInfo
  PROVE  Freed(t, sp) /\ t - Header \in live /\ tag[t - Header] # "free" /\ Z_Free(t - Header)
<1>1. /\ poolInfo[t] = Unpooled /\ Z_Free(t - Header) /\ spNext' = sp
      /\ extra' = extra /\ pool' = pool
  BY DEF Z_ThinkFreeUnpooled
<1>2. Housed(kind) /\ \A type \in Types : Chained(kind, type)
  BY DEF PoolingAs
<1>3. t \in Held("levspec") /\ t \in 1 .. ZoneSize /\ t - Header \in live
      /\ tag[t - Header] = "levspec"
  <2>1. t \in Held("levspec")
    BY <1>1, <1>2 DEF Housed
  <2> QED BY <1>2, <2>1, Places
<1>4. \A v \in {"level", "levspec"} :
        /\ Held(v)' = Held(v) \ {t}
        /\ \A y \in Held(v) \ {t} : size'[y - Header] = size[y - Header]
  BY <1>1, <1>3, HeldFreed
<1>5. \A b \in Held("level") : \A s \in Slots : Slot(b, s, kind[b]) # t
  BY <1>2, <1>3, Places
<1>6. Held("level")' = Held("level")
  <2>1. t \notin Held("level")
    <3>1. ASSUME t \in Held("level") PROVE FALSE
      <4>1. tag[t - Header] = "level"
        BY <1>2, <3>1, Places
      <4> QED BY <1>3, <4>1
    <3> QED BY <3>1
  <2> QED BY <1>4, <2>1
<1>7. Housed(kind)'
  <2>1. kind \in [Held("level")' -> Types]
    BY <1>2, <1>6 DEF Housed
  <2>2. ASSUME NEW b \in Held("level")
        PROVE  /\ NumSlots * SlotSize[kind[b]] + Header <= size'[b - Header] /\ extra'[b] # Slots
               /\ \A s \in Slots \ extra'[b] :
                    /\ Slot(b, s, kind[b]) \in objects'
                    /\ poolInfo'[Slot(b, s, kind[b])] = <<kind[b], s>>
    <3>1. size'[b - Header] = size[b - Header]
      BY <1>4, <1>6
    <3> QED BY <1>1, <1>2, <1>5, <3>1 DEF Housed
  <2>3. \A b \in Held("levspec")' : b \in objects' /\ poolInfo'[b] = Unpooled
    BY <1>2, <1>4 DEF Housed
  <2>4. ASSUME NEW u \in objects'
        PROVE  /\ poolInfo'[u] = Unpooled => u \in Held("levspec")'
               /\ poolInfo'[u] # Unpooled =>
                    \E b \in Held("level")' : \E s \in Slots \ extra'[b] :
                      u = Slot(b, s, kind[b]) /\ poolInfo'[u] = <<kind[b], s>>
    BY <1>1, <1>2, <1>4, <1>6 DEF Housed
  <2> QED BY <1>6, <2>1, <2>2, <2>3, <2>4 DEF Housed
<1>8. ASSUME NEW type \in Types PROVE Chained(kind, type)'
  <2>1. ASSUME NEW b \in Partials(kind, type)
        PROVE  /\ b \in 1 .. ZoneSize /\ b \in Partials(kind, type)'
               /\ spNext'[LinkOf(b, type, extra')] = spNext[LinkOf(b, type, extra)]
    <3>1. /\ b \in Held("level") /\ b \in 1 .. ZoneSize /\ kind[b] = type /\ extra[b] # {}
          /\ LinkOf(b, type, extra) \in 1 .. ZoneSize \ objects
      BY <1>2, PartialPlaces DEF ThinkType
    <3>2. b \in Partials(kind, type)'
      BY <1>1, <1>6, <3>1 DEF Partials
    <3>3. spNext'[LinkOf(b, type, extra)] = spNext[LinkOf(b, type, extra)]
      BY <1>1, <3>1 DEF Unlinked
    <3> QED BY <1>1, <3>1, <3>2, <3>3
  <2> QED BY <1>1, <1>2, <2>1, ChainKept
<1>9. Pooling'
  BY <1>7, <1>8 DEF Pooling, PoolingAs
<1> QED BY <1>1, <1>3, <1>9 DEF Freed, Unlinked, ThinkType

\* A slot of a block that has others in use.
LEMMA SlotFreed ==
  ASSUME ZoneInv, ThinkType, NEW kind, PoolingAs(kind), NEW t \in objects, NEW sp, Unlinked(sp),
         NEW block, NEW slot, NEW type, block \in Held("level"), kind[block] = type,
         slot \in Slots \ extra[block], t = Slot(block, slot, type),
         extra' = [extra EXCEPT ![block] = @ \cup {slot}], extra'[block] # Slots,
         pool' = IF extra[block] = {} THEN [pool EXCEPT ![type] = block] ELSE pool,
         spNext' = IF TakesLink(slot, extra'[block])
                   THEN [sp EXCEPT ![t] = IF extra[block] = {} THEN pool[type]
                                          ELSE sp[LinkOf(block, type, extra)]]
                   ELSE sp,
         objects' = objects \ {t}, UNCHANGED <<poolInfo, zoneVars>>
  PROVE  Freed(t, sp)
<1>1. Housed(kind) /\ \A y \in Types : Chained(kind, y)
  BY DEF PoolingAs
<1>2. /\ type \in Types /\ block \in 1 .. ZoneSize /\ extra[block] \in SUBSET Slots
      /\ t \in 1 .. ZoneSize /\ pool[type] \in 0 .. ZoneSize
  BY <1>1, Places DEF ThinkType
<1>3. /\ extra'[block] = extra[block] \cup {slot}
      /\ \A b \in 1 .. ZoneSize : b # block => extra'[b] = extra[b]
      /\ extra' \in [1 .. ZoneSize -> SUBSET Slots]
  BY <1>2 DEF ThinkType
<1>4. \A v : Held(v)' = Held(v)
  BY DEF Held, zoneVars
<1>5. \A b \in Held("level") : \A s \in Slots : Slot(b, s, kind[b]) = t => b = block /\ s = slot
  BY <1>1, Places
<1>6. Housed(kind)'
  <2>1. kind \in [Held("level")' -> Types]
    BY <1>1, <1>4 DEF Housed
  <2>2. ASSUME NEW b \in Held("level")
        PROVE  /\ NumSlots * SlotSize[kind[b]] + Header <= size'[b - Header] /\ extra'[b] # Slots
               /\ \A s \in Slots \ extra'[b] :
                    /\ Slot(b, s, kind[b]) \in objects'
                    /\ poolInfo'[Slot(b, s, kind[b])] = <<kind[b], s>>
    <3>1. b \in 1 .. ZoneSize /\ size' = size
      BY <1>1, Places DEF zoneVars
    <3>2. NumSlots * SlotSize[kind[b]] + Header <= size'[b - Header] /\ extra'[b] # Slots
      BY <1>1, <1>3, <3>1 DEF Housed
    <3>3. ASSUME NEW s \in Slots \ extra'[b]
          PROVE  /\ Slot(b, s, kind[b]) \in objects'
                 /\ poolInfo'[Slot(b, s, kind[b])] = <<kind[b], s>>
      <4>1. s \in Slots \ extra[b] /\ (b = block => s # slot)
        BY <1>3, <3>1
      <4> QED BY <1>1, <1>5, <4>1 DEF Housed
    <3> QED BY <3>2, <3>3
  <2>3. \A b \in Held("levspec")' : b \in objects' /\ poolInfo'[b] = Unpooled
    <3>1. \A b \in Held("levspec") : b # t
      BY <1>1, Places
    <3> QED BY <1>1, <1>4, <3>1 DEF Housed
  <2>4. ASSUME NEW u \in objects'
        PROVE  /\ poolInfo'[u] = Unpooled => u \in Held("levspec")'
               /\ poolInfo'[u] # Unpooled =>
                    \E b \in Held("level")' : \E s \in Slots \ extra'[b] :
                      u = Slot(b, s, kind[b]) /\ poolInfo'[u] = <<kind[b], s>>
    <3>1. CASE poolInfo[u] = Unpooled
      BY <1>1, <1>4, <3>1 DEF Housed
    <3>2. CASE poolInfo[u] # Unpooled
      <4>1. PICK b \in Held("level") : \E s \in Slots \ extra[b] :
              u = Slot(b, s, kind[b]) /\ poolInfo[u] = <<kind[b], s>>
        BY <1>1, <3>2 DEF Housed
      <4>2. PICK s \in Slots \ extra[b] : u = Slot(b, s, kind[b]) /\ poolInfo[u] = <<kind[b], s>>
        BY <4>1
      <4>3. b \in 1 .. ZoneSize
        BY <1>1, Places
      <4>4. s \notin extra'[b]
        BY <1>3, <4>2, <4>3
      <4> QED BY <1>4, <3>2, <4>2, <4>4
    <3> QED BY <3>1, <3>2
  <2> QED BY <1>4, <2>1, <2>2, <2>3, <2>4 DEF Housed
<1>7. /\ spNext' \in [1 .. ZoneSize \cup {Cap} -> 0 .. ZoneSize \cup {Cap}]
      /\ \A x \in 1 .. ZoneSize \cup {Cap} : x # t => spNext'[x] = sp[x]
  <2>1. extra[block] # {} => LinkOf(block, type, extra) \in 1 .. ZoneSize
    BY <1>1, LinkPlaces DEF ThinkType
  <2> QED BY <1>2, <2>1 DEF Unlinked
<1>8. \A x \in (objects \ {t}) \cup {Cap} : spNext'[x] = sp[x]
  <2>1. t # Cap /\ objects \subseteq 1 .. ZoneSize
    BY <1>2, ZoneAssumption DEF ThinkType, Cap
  <2> QED BY <1>7, <2>1
<1>9. ASSUME NEW y \in Types, NEW b \in Partials(kind, y), b # block
      PROVE  /\ b \in 1 .. ZoneSize /\ b \in Partials(kind, y)'
             /\ spNext'[LinkOf(b, y, extra')] = spNext[LinkOf(b, y, extra)]
  <2>1. /\ b \in Held("level") /\ b \in 1 .. ZoneSize /\ kind[b] = y /\ extra[b] # {}
        /\ LinkOf(b, y, extra) \in 1 .. ZoneSize \ objects
    BY <1>1, PartialPlaces DEF ThinkType
  <2>2. extra'[b] = extra[b] /\ b \in Partials(kind, y)'
    BY <1>3, <1>4, <1>9, <2>1 DEF Partials
  <2>3. LinkOf(b, y, extra') = LinkOf(b, y, extra)
    BY <2>2 DEF LinkOf
  <2>4. LinkOf(b, y, extra) # t
    BY <2>1
  <2>5. spNext'[LinkOf(b, y, extra)] = spNext[LinkOf(b, y, extra)]
    BY <1>7, <2>1, <2>4 DEF Unlinked
  <2> QED BY <2>1, <2>2, <2>3, <2>5
<1>10. ASSUME NEW y \in Types, y # type PROVE Chained(kind, y)'
  <2>1. \A b \in Partials(kind, y) : b # block
    BY <1>10 DEF Partials
  <2>2. pool'[y] = pool[y]
    BY <1>2, <1>10 DEF ThinkType
  <2> QED BY <1>1, <1>9, <2>1, <2>2, ChainKept
<1>11. block \in Partials(kind, type)'
  BY <1>3, <1>4 DEF Partials
<1>12. CASE extra[block] # {}
  <2>1. block \in Partials(kind, type)
    BY <1>12 DEF Partials
  <2>2. LinkOf(block, type, extra) \in 1 .. ZoneSize \ objects
    BY <1>1, <2>1, PartialPlaces DEF ThinkType
  <2>3. spNext'[LinkOf(block, type, extra')] = spNext[LinkOf(block, type, extra)]
    <3>1. CASE slot = Max(extra'[block])
      <4>1. LinkOf(block, type, extra') = t
        BY <3>1 DEF LinkOf
      <4>2. spNext'[t] = sp[LinkOf(block, type, extra)]
        BY <1>2, <1>12, <3>1 DEF TakesLink, Unlinked
      <4> QED BY <2>2, <4>1, <4>2 DEF Unlinked
    <3>2. CASE slot # Max(extra'[block])
      <4>1. Max(extra'[block]) = Max(extra[block])
        BY <1>2, <1>3, <1>12, <3>2, MaxWith
      <4>2. LinkOf(block, type, extra') = LinkOf(block, type, extra)
        BY <4>1 DEF LinkOf
      <4> QED BY <1>7, <2>2, <4>2 DEF Unlinked
    <3> QED BY <3>1, <3>2
  <2>4. Chained(kind, type)'
    BY <1>1, <1>2, <1>9, <1>11, <1>12, <2>3, ChainKept
  <2>5. Pooling'
    BY <1>6, <1>10, <2>4 DEF Pooling, PoolingAs
  <2>6. pool' \in [Types -> 0 .. ZoneSize]
    BY <1>12 DEF ThinkType
  <2> QED BY <1>8, <1>3, <1>7, <2>5, <2>6 DEF Freed
<1>13. CASE extra[block] = {}
  <2>1. PICK m \in Nat : \E g \in [1 .. m -> Partials(kind, type)] :
          Strung(g, m, Links(type), pool[type], Nil)
    BY <1>1, <1>2 DEF Chained
  <2>2. PICK g \in [1 .. m -> Partials(kind, type)] : Strung(g, m, Links(type), pool[type], Nil)
    BY <2>1
  <2>3. block \notin Partials(kind, type)
    BY <1>13 DEF Partials
  <2>4. slot = Max(extra'[block]) /\ LinkOf(block, type, extra') = t
    BY <1>3, <1>13, MaxWith DEF LinkOf
  <2>5. spNext'[t] = pool[type]
    BY <1>2, <1>13, <2>4 DEF TakesLink, Unlinked
  <2>6. Links(type)'[block] = pool[type]
    BY <1>2, <2>4, <2>5 DEF Links
  <2>7. \A b \in Partials(kind, type) : Links(type)'[b] = Links(type)[b]
    BY <1>2, <1>9, <2>3 DEF Links
  <2>8. Pushed(g, m, Partials(kind, type), Links(type), pool[type], Nil, block, Links(type)')
    BY <2>2, <2>3, <2>6, <2>7 DEF Pushed
  <2> DEFINE h == [i \in 1 .. m + 1 |-> IF i = 1 THEN block ELSE g[i - 1]]
  <2>9. h \in [1 .. m + 1 -> Partials(kind, type) \cup {block}]
        /\ Strung(h, m + 1, Links(type)', block, Nil)
    <3>1. h = [i \in 1 .. m + 1 |-> IF i = 1 THEN block ELSE g[i - 1]]
      OBVIOUS
    <3> HIDE DEF h
    <3> QED BY <2>8, <3>1, PushKeeps
  <2>10. Partials(kind, type) \cup {block} \subseteq Partials(kind, type)'
    BY <1>2, <1>9, <1>11, <2>3
  <2> HIDE DEF h
  <2>11. h \in [1 .. m + 1 -> Partials(kind, type)'] /\ m + 1 \in Nat
    BY <2>9, <2>10
  <2>12. pool'[type] = block /\ pool' \in [Types -> 0 .. ZoneSize]
    BY <1>2, <1>13 DEF ThinkType
  <2>13. Chained(kind, type)'
    BY <2>9, <2>11, <2>12 DEF Chained
  <2>14. Pooling'
    BY <1>6, <1>10, <2>13 DEF Pooling, PoolingAs
  <2> QED BY <1>8, <1>3, <1>7, <2>12, <2>14 DEF Freed
<1> QED BY <1>12, <1>13

\* The last slot in use: the block leaves the chain, if it is on it, and the zone.
LEMMA BlockFreed ==
  ASSUME ZoneInv, ThinkType, NEW kind, PoolingAs(kind), NEW t \in objects, NEW sp, Unlinked(sp),
         NEW block, NEW slot, NEW type, block \in Held("level"), kind[block] = type,
         slot \in Slots \ extra[block], t = Slot(block, slot, type),
         extra' = [extra EXCEPT ![block] = @ \cup {slot}], extra'[block] = Slots,
         extra[block] # {},
         Unchain(block, type, sp[LinkOf(block, type, extra)], pool, sp, extra'),
         Z_Free(block - Header), objects' = objects \ {t}, UNCHANGED poolInfo
  PROVE  Freed(t, sp) /\ block - Header \in live /\ tag[block - Header] # "free"
<1>1. Housed(kind) /\ \A y \in Types : Chained(kind, y)
  BY DEF PoolingAs
<1>2. /\ type \in Types /\ block \in 1 .. ZoneSize /\ extra[block] \in SUBSET Slots
      /\ t \in 1 .. ZoneSize /\ pool[type] \in 0 .. ZoneSize
      /\ block - Header \in live /\ tag[block - Header] = "level"
  BY <1>1, Places DEF ThinkType
<1>3. /\ extra'[block] = extra[block] \cup {slot}
      /\ \A b \in 1 .. ZoneSize : b # block => extra'[b] = extra[b]
      /\ extra' \in [1 .. ZoneSize -> SUBSET Slots]
  BY <1>2 DEF ThinkType
<1>4. \A v \in {"level", "levspec"} :
        /\ Held(v)' = Held(v) \ {block}
        /\ \A y \in Held(v) \ {block} : size'[y - Header] = size[y - Header]
  BY <1>2, HeldFreed
<1>5. Held("levspec")' = Held("levspec")
  <2>1. ASSUME block \in Held("levspec") PROVE FALSE
    <3>1. tag[block - Header] = "levspec"
      BY <1>1, <2>1, Places
    <3> QED BY <1>2, <3>1
  <2> QED BY <1>4, <2>1
<1>6. \A b \in Held("level") : \A s \in Slots : Slot(b, s, kind[b]) = t => b = block /\ s = slot
  BY <1>1, Places
<1>7. PICK kind2 : kind2 = [b \in Held("level") \ {block} |-> kind[b]]
  OBVIOUS
<1>8. \A b \in Held("level") \ {block} : kind2[b] = kind[b] /\ b \in Held("level")'
  BY <1>7, <1>4
<1>9. kind2 \in [Held("level")' -> Types]
  BY <1>7, <1>1, <1>4 DEF Housed
<1>10. Housed(kind2)'
  <2>1. ASSUME NEW b \in Held("level")'
        PROVE  /\ NumSlots * SlotSize[kind2[b]] + Header <= size'[b - Header] /\ extra'[b] # Slots
               /\ \A s \in Slots \ extra'[b] :
                    /\ Slot(b, s, kind2[b]) \in objects'
                    /\ poolInfo'[Slot(b, s, kind2[b])] = <<kind2[b], s>>
    <3>1. /\ b \in Held("level") \ {block} /\ b \in 1 .. ZoneSize /\ kind2[b] = kind[b]
          /\ size'[b - Header] = size[b - Header]
      BY <1>1, <1>4, <1>8, Places
    <3> QED BY <1>1, <1>3, <1>6, <3>1 DEF Housed
  <2>2. \A b \in Held("levspec")' : b \in objects' /\ poolInfo'[b] = Unpooled
    <3>1. \A b \in Held("levspec") : b # t
      BY <1>1, Places
    <3> QED BY <1>1, <1>5, <3>1 DEF Housed
  <2>3. ASSUME NEW u \in objects'
        PROVE  /\ poolInfo'[u] = Unpooled => u \in Held("levspec")'
               /\ poolInfo'[u] # Unpooled =>
                    \E b \in Held("level")' : \E s \in Slots \ extra'[b] :
                      u = Slot(b, s, kind2[b]) /\ poolInfo'[u] = <<kind2[b], s>>
    <3>1. CASE poolInfo[u] = Unpooled
      BY <1>1, <1>5, <3>1 DEF Housed
    <3>2. CASE poolInfo[u] # Unpooled
      <4>1. PICK b \in Held("level") : \E s \in Slots \ extra[b] :
              u = Slot(b, s, kind[b]) /\ poolInfo[u] = <<kind[b], s>>
        BY <1>1, <3>2 DEF Housed
      <4>2. PICK s \in Slots \ extra[b] : u = Slot(b, s, kind[b]) /\ poolInfo[u] = <<kind[b], s>>
        BY <4>1
      <4>3. b \in 1 .. ZoneSize
        BY <1>1, Places
      <4>4. b # block
        <5>1. b = block => s = slot
          BY <1>3
        <5> QED BY <4>2, <5>1
      <4>5. s \in Slots \ extra'[b] /\ b \in Held("level")' /\ kind2[b] = kind[b]
        BY <1>3, <1>8, <4>2, <4>3, <4>4
      <4> QED BY <3>2, <4>2, <4>5
    <3> QED BY <3>1, <3>2
  <2> QED BY <1>9, <2>1, <2>2, <2>3 DEF Housed
\* What the search for the block before it finds.
<1>11. PICK m \in Nat : \E g \in [1 .. m -> Partials(kind, type)] :
         Strung(g, m, Links(type), pool[type], Nil)
  BY <1>1, <1>2 DEF Chained
<1>12. PICK g \in [1 .. m -> Partials(kind, type)] : Strung(g, m, Links(type), pool[type], Nil)
  BY <1>11
<1>13. ASSUME NEW b \in Partials(kind, type)
       PROVE  /\ b \in Held("level") /\ b \in 1 .. ZoneSize /\ kind[b] = type /\ extra[b] # {}
              /\ Links(type)[b] = spNext[LinkOf(b, type, extra)]
              /\ Links(type)[b] = sp[LinkOf(b, type, extra)]
              /\ LinkOf(b, type, extra) \in 1 .. ZoneSize \ objects
              /\ b # block => LinkOf(b, type, extra') = LinkOf(b, type, extra) /\ extra'[b] = extra[b]
  <2>1. /\ b \in Held("level") /\ b \in 1 .. ZoneSize /\ kind[b] = type /\ extra[b] # {}
        /\ LinkOf(b, type, extra) \in 1 .. ZoneSize \ objects
    BY <1>1, PartialPlaces DEF ThinkType
  <2>2. Links(type)[b] = spNext[LinkOf(b, type, extra)]
    BY <2>1 DEF Links
  <2>3. b # block => LinkOf(b, type, extra') = LinkOf(b, type, extra) /\ extra'[b] = extra[b]
    BY <1>3, <2>1 DEF LinkOf
  <2> QED BY <2>1, <2>2, <2>3 DEF Unlinked
<1>14. ASSUME NEW b \in Partials(kind, type), b # block
       PROVE  sp[LinkOf(b, type, extra')] = Links(type)[b] /\ extra'[b] # {}
  <2>1. LinkOf(b, type, extra') = LinkOf(b, type, extra) /\ extra'[b] = extra[b] /\ extra[b] # {}
    BY <1>13, <1>14
  <2>2. Links(type)[b] = sp[LinkOf(b, type, extra)]
    BY <1>13
  <2> QED BY <2>1, <2>2
<1>15. block \in Partials(kind, type) /\ block # Nil
  BY <1>2, ZoneAssumption DEF Partials, Nil
<1> DEFINE successor == sp[LinkOf(block, type, extra)]
           before == {b \in Chain(pool[type], block, type, sp, extra') \ {block} :
                        sp[LinkOf(b, type, extra')] = block}
<1>16. successor = Links(type)[block] /\ successor \in 0 .. ZoneSize \cup {Cap}
  BY <1>13, <1>15 DEF Unlinked
<1>17. IF pool[type] = block
       THEN pool' = [pool EXCEPT ![type] = successor] /\ spNext' = sp
       ELSE /\ pool' = pool
            /\ spNext' = IF before = {} THEN sp
                         ELSE [sp EXCEPT ![LinkOf(CHOOSE b \in before : TRUE, type, extra')]
                                 = successor]
  BY DEF Unchain
<1>18. ASSUME NEW k \in Nat, NEW h \in [1 .. k -> Partials(kind, type)], k <= m,
              \A i \in 1 .. k : h[i] = g[i],
              \A i \in 1 .. k - 1 : h[i] # block, k # 0 => h[k] = block \/ k = m,
              k = 0 => m = 0
       PROVE  before = {b \in {h[i] : i \in 1 .. k} \ {block} : Links(type)[b] = block}
  <2>1. \A i \in 1 .. k - 1 : i \in 1 .. m /\ i + 1 \in 1 .. k /\ i # m
    BY <1>18
  <2>2. ASSUME NEW i \in 1 .. k - 1
        PROVE  /\ h[i] # block /\ extra'[h[i]] # {}
               /\ sp[LinkOf(h[i], type, extra')] = h[i + 1]
    <3>1. i \in 1 .. k /\ h[i] \in Partials(kind, type) /\ h[i] # block
      BY <1>18
    <3>2. Links(type)[h[i]] = h[i + 1]
      BY <1>12, <1>18, <2>1, <3>1 DEF Strung
    <3> QED BY <1>14, <3>1, <3>2
  <2>3. k # 0 /\ h[k] # block => sp[LinkOf(h[k], type, extra')] = Nil
    <3> SUFFICES ASSUME k # 0, h[k] # block PROVE sp[LinkOf(h[k], type, extra')] = Nil
      OBVIOUS
    <3>1. k = m /\ k \in 1 .. k /\ h[k] \in Partials(kind, type)
      BY <1>18
    <3>2. Links(type)[h[k]] = Nil
      BY <1>12, <1>18, <3>1 DEF Strung
    <3> QED BY <1>14, <3>1, <3>2
  <2>4. pool[type] = IF k = 0 THEN Nil ELSE h[1]
    BY <1>12, <1>18 DEF Strung
  <2>5. h \in [1 .. k -> 1 .. ZoneSize] /\ DOMAIN extra' = 1 .. ZoneSize
    BY <1>3, <1>13
  <2>6. Way(h, k, pool[type], block, type, sp, extra')
    BY <2>2, <2>3, <2>4, <2>5 DEF Way
  <2>7. Cardinality(live) \in Nat /\ k <= Cardinality(live)
    <3>1. Cardinality(live) \in Nat /\ m <= Cardinality(live)
      BY <1>1, <1>12, ChainLength DEF Strung
    <3> QED BY <1>18, <3>1
  <2>8. Chain(pool[type], block, type, sp, extra') = {h[i] : i \in 1 .. k}
    BY <2>6, <2>7, ChainIs
  <2>9. ASSUME NEW b \in {h[i] : i \in 1 .. k} \ {block}
        PROVE  sp[LinkOf(b, type, extra')] = Links(type)[b]
    <3>1. b \in Partials(kind, type) /\ b # block
      BY <1>18
    <3> QED BY <1>14, <3>1
  <2> QED BY <2>8, <2>9
<1> HIDE DEF before, successor
\* What becomes of the links.
<1> DEFINE Outcome ==
      /\ spNext' \in [1 .. ZoneSize \cup {Cap} -> 0 .. ZoneSize \cup {Cap}]
      /\ pool' \in [Types -> 0 .. ZoneSize]
      /\ \A y \in Types : y # type => pool'[y] = pool[y]
      /\ \A x \in 1 .. ZoneSize \cup {Cap} :
           (\A b \in Partials(kind, type) \ {block} : x # LinkOf(b, type, extra)) => spNext'[x] = sp[x]
      /\ Chained(kind2, type)'
<1>19. Partials(kind, type) \ {block} \subseteq Partials(kind2, type)'
  <2>1. ASSUME NEW b \in Partials(kind, type) \ {block} PROVE b \in Partials(kind2, type)'
    BY <1>8, <1>13, <2>1 DEF Partials
  <2> QED BY <2>1
<1>20. \A b \in Partials(kind, type) : Links(type)'[b] = spNext'[LinkOf(b, type, extra')]
  BY <1>13 DEF Links
<1>21. ASSUME NEW k \in 1 .. m, g[k] = block PROVE Outcome
  <2> DEFINE h == [i \in 1 .. k |-> g[i]]
  <2>1. /\ k \in Nat /\ k <= m /\ k # 0 /\ \A i \in 1 .. k : h[i] = g[i] /\ i \in 1 .. m
        /\ h \in [1 .. k -> Partials(kind, type)]
    OBVIOUS
  <2>2. \A i \in 1 .. m : i # k => g[i] # block
    BY <1>12, <1>21 DEF Strung
  <2>3. \A i \in 1 .. k - 1 : i \in 1 .. k /\ i # k
    OBVIOUS
  <2>4. k \in 1 .. k
    OBVIOUS
  <2> HIDE DEF h
  <2>5. before = {b \in {h[i] : i \in 1 .. k} \ {block} : Links(type)[b] = block}
    BY <1>18, <1>21, <2>1, <2>2, <2>3, <2>4
  <2>6. /\ successor \in 0 .. ZoneSize /\ successor = Links(type)[g[k]]
        /\ pool[type] = g[1]
    <3>1. Links(type)[g[k]] = IF k = m THEN Nil ELSE g[k + 1]
      BY <1>12 DEF Strung
    <3>2. k # m => g[k + 1] \in 1 .. ZoneSize
      BY <1>13
    <3>3. Nil \in 0 .. ZoneSize
      BY ZoneAssumption DEF Nil
    <3>4. pool[type] = g[1]
      BY <1>12, <2>1 DEF Strung
    <3> QED BY <1>16, <1>21, <3>1, <3>2, <3>3, <3>4
  <2> DEFINE NewLinks == \A i \in 1 .. m : i # k =>
                Links(type)'[g[i]] = IF i = k - 1 THEN Links(type)[g[k]] ELSE Links(type)[g[i]]
             NewTypes ==
                /\ spNext' \in [1 .. ZoneSize \cup {Cap} -> 0 .. ZoneSize \cup {Cap}]
                /\ pool' \in [Types -> 0 .. ZoneSize]
                /\ \A y \in Types : y # type => pool'[y] = pool[y]
                /\ \A x \in 1 .. ZoneSize \cup {Cap} :
                     (\A b \in Partials(kind, type) \ {block} : x # LinkOf(b, type, extra))
                       => spNext'[x] = sp[x]
                /\ pool'[type] = IF k = 1 THEN Links(type)[g[1]] ELSE pool[type]
  <2>7. ASSUME k = 1 PROVE NewLinks /\ NewTypes
    <3>1. pool[type] = block
      BY <1>21, <2>6, <2>7
    <3>2. pool' = [pool EXCEPT ![type] = successor] /\ spNext' = sp
      BY <1>17, <3>1
    <3>3. NewTypes
      BY <1>2, <2>6, <2>7, <3>2 DEF Unlinked, ThinkType
    <3>4. ASSUME NEW i \in 1 .. m, i # k PROVE Links(type)'[g[i]] = Links(type)[g[i]] /\ i # k - 1
      <4>1. g[i] \in Partials(kind, type) /\ g[i] # block /\ i # k - 1
        BY <2>2, <2>7, <3>4
      <4>2. Links(type)'[g[i]] = sp[LinkOf(g[i], type, extra')]
        BY <1>20, <3>2, <4>1
      <4> QED BY <1>14, <4>1, <4>2
    <3> QED BY <3>3, <3>4
  <2>8. ASSUME k # 1 PROVE NewLinks /\ NewTypes
    <3>1. k - 1 \in 1 .. m /\ k - 1 \in 1 .. k /\ k - 1 # k /\ k - 1 # m /\ 1 \in 1 .. m
      BY <2>8
    <3> DEFINE q == g[k - 1]
    <3>2. q \in Partials(kind, type) /\ q # block /\ Links(type)[q] = block /\ pool[type] # block
      BY <1>12, <1>21, <2>2, <2>6, <2>8, <3>1 DEF Strung
    <3>3. q \in before
      BY <2>1, <2>5, <3>1, <3>2
    <3>4. ASSUME NEW b \in before PROVE b = q
      <4>1. PICK i \in 1 .. k : b = h[i] /\ b # block /\ Links(type)[b] = block
        BY <2>5
      <4>2. i # k /\ i \in 1 .. m /\ b = g[i] /\ i # m
        BY <1>21, <2>1, <4>1
      <4>3. g[i + 1] = g[k] /\ i + 1 \in 1 .. m
        BY <1>12, <1>21, <4>1, <4>2 DEF Strung
      <4>4. i + 1 = k
        BY <1>12, <4>3 DEF Strung
      <4> QED BY <4>2, <4>4
    <3>5. (CHOOSE b \in before : TRUE) = q
      BY <3>3, <3>4
    <3>6. LinkOf(q, type, extra') = LinkOf(q, type, extra) /\ LinkOf(q, type, extra) \in 1 .. ZoneSize
      BY <1>13, <3>2
    <3>7. pool' = pool /\ spNext' = [sp EXCEPT ![LinkOf(q, type, extra)] = successor]
      BY <1>17, <3>2, <3>3, <3>5, <3>6
    <3> HIDE DEF q
    <3>8. NewTypes
      <4>1. spNext' \in [1 .. ZoneSize \cup {Cap} -> 0 .. ZoneSize \cup {Cap}]
        BY <1>16, <3>6, <3>7 DEF Unlinked
      <4>2. ASSUME NEW x \in 1 .. ZoneSize \cup {Cap}, x # LinkOf(q, type, extra)
            PROVE  spNext'[x] = sp[x]
        BY <3>6, <3>7, <4>2 DEF Unlinked
      <4> QED BY <2>8, <3>2, <3>7, <4>1, <4>2 DEF ThinkType
    <3>9. ASSUME NEW i \in 1 .. m, i # k
          PROVE  Links(type)'[g[i]] = IF i = k - 1 THEN Links(type)[g[k]] ELSE Links(type)[g[i]]
      <4> DEFINE b == g[i]
      <4>1. /\ b \in Partials(kind, type) /\ b # block
            /\ LinkOf(b, type, extra') = LinkOf(b, type, extra)
            /\ LinkOf(b, type, extra) \in 1 .. ZoneSize
            /\ Links(type)[b] = sp[LinkOf(b, type, extra)]
            /\ Links(type)'[b] = spNext'[LinkOf(b, type, extra')]
        BY <1>13, <1>20, <2>2, <3>9
      <4>2. CASE i = k - 1
        <5>1. b = q
          BY <4>2 DEF q
        <5>2. spNext'[LinkOf(q, type, extra)] = successor
          BY <3>6, <3>7 DEF Unlinked
        <5> QED BY <2>6, <4>1, <4>2, <5>1, <5>2
      <4>3. CASE i # k - 1
        <5>1. b # q
          BY <1>12, <3>1, <4>3 DEF q, Strung
        <5>2. LinkOf(b, type, extra) # LinkOf(q, type, extra)
          <6>1. /\ b \in Held("level") /\ kind[b] = type /\ extra[b] # {}
                /\ q \in Held("level") /\ kind[q] = type /\ extra[q] # {}
            BY <1>13, <3>2, <4>1
          <6> QED BY <1>1, <5>1, <6>1, LinkPlaces DEF ThinkType
        <5>3. spNext'[LinkOf(b, type, extra)] = sp[LinkOf(b, type, extra)]
          BY <3>7, <4>1, <5>2 DEF Unlinked
        <5> QED BY <4>1, <4>3, <5>3
      <4> QED BY <4>2, <4>3
    <3> QED BY <3>8, <3>9
  <2>9. NewLinks /\ NewTypes
    BY <2>7, <2>8
  <2>10. Removed(g, m, Partials(kind, type), Links(type), pool[type], Nil, k,
                 Links(type)', pool'[type])
    BY <1>12, <2>9 DEF Removed
  <2> HIDE DEF NewLinks
  <2> DEFINE f == [i \in 1 .. m - 1 |-> IF i < k THEN g[i] ELSE g[i + 1]]
  <2>11. /\ f \in [1 .. m - 1 -> Partials(kind, type) \ {g[k]}]
         /\ Strung(f, m - 1, Links(type)', pool'[type], Nil)
    <3>1. f = [i \in 1 .. m - 1 |-> IF i < k THEN g[i] ELSE g[i + 1]]
      OBVIOUS
    <3> HIDE DEF f
    <3> QED BY <2>10, <3>1, RemoveKeeps
  <2> HIDE DEF f
  <2>12. f \in [1 .. m - 1 -> Partials(kind2, type)'] /\ m - 1 \in Nat
    BY <1>19, <1>21, <2>11
  <2>13. Chained(kind2, type)'
    BY <2>11, <2>12 DEF Chained
  <2> QED BY <2>9, <2>13
<1>22. ASSUME \A k \in 1 .. m : g[k] # block PROVE Outcome
  <2>1. before = {b \in {g[i] : i \in 1 .. m} \ {block} : Links(type)[b] = block}
    <3>1. \A i \in 1 .. m - 1 : i \in 1 .. m
      OBVIOUS
    <3> QED BY <1>18, <1>22, <3>1
  <2>2. ASSUME NEW i \in 1 .. m PROVE Links(type)[g[i]] # block
    <3>1. Links(type)[g[i]] = IF i = m THEN Nil ELSE g[i + 1]
      BY <1>12 DEF Strung
    <3>2. i # m => i + 1 \in 1 .. m
      OBVIOUS
    <3> QED BY <1>15, <1>22, <3>1, <3>2
  <2>3. before = {}
    BY <2>1, <2>2
  <2>4. pool[type] # block
    <3>1. m # 0 => 1 \in 1 .. m
      OBVIOUS
    <3> QED BY <1>12, <1>15, <1>22, <3>1 DEF Strung
  <2>5. pool' = pool /\ spNext' = sp
    BY <1>17, <2>3, <2>4
  <2>6. \A i \in 1 .. m : Links(type)'[g[i]] = Links(type)[g[i]] /\ g[i] \in Partials(kind2, type)'
    BY <1>19, <1>22, <1>14, <1>20, <2>5
  <2>7. Strung(g, m, Links(type)', pool'[type], Nil)
    BY <1>12, <2>5, <2>6 DEF Strung
  <2>8. g \in [1 .. m -> Partials(kind2, type)']
    BY <2>6
  <2>9. Chained(kind2, type)'
    BY <2>7, <2>8 DEF Chained
  <2> QED BY <2>5, <2>9 DEF Unlinked, ThinkType
<1>23. Outcome
  BY <1>21, <1>22
<1> HIDE DEF Outcome
<1>24. ASSUME NEW y \in Types, y # type PROVE Chained(kind2, y)'
  <2>1. ASSUME NEW b \in Partials(kind, y)
        PROVE  /\ b \in 1 .. ZoneSize /\ b \in Partials(kind2, y)'
               /\ spNext'[LinkOf(b, y, extra')] = spNext[LinkOf(b, y, extra)]
    <3>1. /\ b \in Held("level") /\ b \in 1 .. ZoneSize /\ kind[b] = y /\ extra[b] # {}
          /\ LinkOf(b, y, extra) \in 1 .. ZoneSize \ objects /\ b # block
      BY <1>1, <1>24, PartialPlaces DEF ThinkType
    <3>2. extra'[b] = extra[b] /\ b \in Partials(kind2, y)'
      BY <1>3, <1>8, <3>1 DEF Partials
    <3>3. LinkOf(b, y, extra') = LinkOf(b, y, extra)
      BY <3>2 DEF LinkOf
    <3>4. ASSUME NEW c \in Partials(kind, type) \ {block}
          PROVE  LinkOf(b, y, extra) # LinkOf(c, type, extra)
      <4>1. c \in Held("level") /\ kind[c] = type /\ extra[c] # {}
        BY <1>13
      <4> QED BY <1>1, <1>24, <3>1, <4>1, LinkPlaces DEF ThinkType
    <3>5. spNext'[LinkOf(b, y, extra)] = sp[LinkOf(b, y, extra)]
      BY <1>23, <3>1, <3>4 DEF Outcome
    <3> QED BY <3>1, <3>2, <3>3, <3>5 DEF Unlinked
  <2> QED BY <1>1, <1>23, <1>24, <2>1, ChainKept DEF Outcome
<1>25. Pooling'
  BY <1>10, <1>23, <1>24 DEF Outcome, Pooling, PoolingAs
<1>26. \A x \in (objects \ {t}) \cup {Cap} : spNext'[x] = sp[x]
  <2>1. \A b \in Partials(kind, type) : LinkOf(b, type, extra) \notin objects /\ LinkOf(b, type, extra) # Cap
    BY <1>13, ZoneAssumption DEF Cap
  <2> QED BY <1>23, <2>1 DEF Outcome, ThinkType
<1> QED BY <1>2, <1>3, <1>23, <1>25, <1>26 DEF Freed, Outcome

\* Whatever is freed, the pools agree with the zone again.
LEMMA ThingFreed ==
  ASSUME ZoneInv, ThinkType, Pooling, panicked = 0, NEW t \in objects, NEW sp, Unlinked(sp),
         Z_ThinkFree(t, sp)
  PROVE  Freed(t, sp) /\ [ZoneNext]_zoneVars
<1>1. PICK kind : PoolingAs(kind)
  BY DEF Pooling
<1>2. objects' = objects \ {t} /\ UNCHANGED poolInfo
  BY DEF Z_ThinkFree
<1>3. CASE Z_ThinkFreeUnpooled(t, sp)
  <2>1. Freed(t, sp) /\ t - Header \in live /\ tag[t - Header] # "free" /\ Z_Free(t - Header)
    BY <1>1, <1>2, <1>3, UnpooledFreed
  <2> QED BY <2>1 DEF ZoneNext
<1>4. CASE Z_ThinkFreeSlot(t, sp)
  <2> DEFINE type  == poolInfo[t][1]
             slot  == poolInfo[t][2]
             block == t - slot * SlotSize[type]
             full  == extra[block] = {}
             free  == [extra EXCEPT ![block] = @ \cup {slot}]
             heads == IF full THEN [pool EXCEPT ![type] = block] ELSE pool
             successor == IF full THEN pool[type] ELSE sp[LinkOf(block, type, extra)]
  <2>1. /\ block \in Held("level") /\ kind[block] = type /\ slot \in Slots \ extra[block]
        /\ t = Slot(block, slot, type)
    BY <1>1, <1>4, ThingPlace DEF Z_ThinkFreeSlot, PoolingAs
  <2>2. extra' = free /\ (IF Empty(free[block])
                          THEN /\ Unchain(block, type, successor, heads, sp, free)
                               /\ Z_Free(block - Header)
                          ELSE /\ pool' = heads
                               /\ spNext' = IF TakesLink(slot, free[block])
                                            THEN [sp EXCEPT ![t] = successor] ELSE sp
                               /\ UNCHANGED zoneVars)
    BY <1>4, Zenon DEF Z_ThinkFreeSlot
  <2>3. free[block] = extra[block] \cup {slot}
    BY <1>1, <2>1, Places DEF ThinkType, PoolingAs
  <2> HIDE DEF type, slot, block, free
  <2>4. CASE free[block] = Slots
    <3>1. ~full
      <4>1. 0 \in Slots /\ 1 \in Slots
        BY PoolAssumption DEF Slots
      <4> QED BY <2>3, <2>4, <4>1
    <3>2. /\ Unchain(block, type, sp[LinkOf(block, type, extra)], pool, sp, extra')
          /\ Z_Free(block - Header)
      BY <2>2, <2>4, <3>1 DEF Empty
    <3>3. Freed(t, sp) /\ block - Header \in live /\ tag[block - Header] # "free"
      BY <1>1, <1>2, <2>1, <2>2, <2>4, <3>1, <3>2, BlockFreed DEF free
    <3> QED BY <3>2, <3>3 DEF ZoneNext
  <2>5. CASE free[block] # Slots
    <3>1. /\ pool' = IF extra[block] = {} THEN [pool EXCEPT ![type] = block] ELSE pool
          /\ spNext' = IF TakesLink(slot, extra'[block])
                       THEN [sp EXCEPT ![t] = IF extra[block] = {} THEN pool[type]
                                              ELSE sp[LinkOf(block, type, extra)]]
                       ELSE sp
          /\ UNCHANGED zoneVars
      BY <2>2, <2>5 DEF Empty
    <3>2. Freed(t, sp)
      BY <1>1, <1>2, <2>1, <2>2, <2>5, <3>1, SlotFreed DEF free
    <3> QED BY <3>1, <3>2
  <2> QED BY <2>4, <2>5
<1> QED BY <1>3, <1>4 DEF Z_ThinkFree

-----------------------------------------------------------------------------
\* Spawning: what is added is nowhere near what is there.

LEMMA HeldTypes ==
  ASSUME ZoneInv, ThinkType, TailIs, phase \in {"idle", "running"}
  PROVE  /\ tail \in objects \cup {Cap} /\ objects \subseteq 1 .. ZoneSize /\ Cap \notin 1 .. ZoneSize
         /\ extra \in [1 .. ZoneSize -> SUBSET Slots]
         /\ spNext \in [1 .. ZoneSize \cup {Cap} -> 0 .. ZoneSize \cup {Cap}]
  BY ZoneAssumption DEF ThinkType, TailIs, Cap

\* A thing in a block of its own.
LEMMA SpecialSpawned ==
  ASSUME ZoneInv, ThinkType, Pooling, Row, TailIs, overdue \subseteq removed, SpawnSpecial
  PROVE  Pooling' /\ Row' /\ TailIs' /\ ThinkType' /\ overdue' \subseteq removed' /\ ZoneNext
<1>1. PICK kind : PoolingAs(kind)
  BY DEF Pooling
<1>2. Housed(kind) /\ \A type \in Types : Chained(kind, type)
  BY <1>1 DEF PoolingAs
<1>3. PICK t \in Results :
        /\ Allocate(t, SpecialSize, "levspec") /\ poolInfo' = [poolInfo EXCEPT ![t] = Unpooled]
        /\ AddThinker(t, [spNext EXCEPT ![t] = Nil]) /\ removed' = removed \ {t}
  BY DEF SpawnSpecial, InfoCleared
<1>4. /\ UNCHANGED <<extra, pool, phase, cursor, overdue>>
      /\ panicked = 0 /\ phase \in {"idle", "running"}
  BY DEF SpawnSpecial, Room, Active
<1>5. /\ ZoneInv' /\ ZoneNext /\ t \in Int
      /\ Held("level")' = Held("level") /\ Held("levspec")' = Held("levspec") \cup {t}
      /\ t \notin Held("levspec")
      /\ \A y \in Held("level") : size'[y - Header] = size[y - Header]
  <2>1. SpecialSize \in Nat \ {0} /\ SpecialSize + Header <= ZoneSize /\ "levspec" \in Tags \ {"free"}
    BY PoolAssumption, RequestAssumption DEF Tags
  <2> QED BY <1>3, <1>4, <2>1, HeldTaken
<1>6. Layout(live', size', tag', kind)
  <2>1. /\ live' \subseteq 1 .. ZoneSize
        /\ \A b \in live' : size'[b] \in Int /\ size'[b] > Header /\ b + size'[b] <= ZoneSize + 1
        /\ \A b, c \in live' : b < c => b + size'[b] <= c
    BY <1>5, DisjointAfter
  <2>2. Payloads(live', tag', "level") = Held("level")
    BY <1>5 DEF Held
  <2>3. \A b \in Held("level") :
          kind[b] \in Types /\ NumSlots * SlotSize[kind[b]] + Header <= size'[b - Header]
    BY <1>2, <1>5 DEF Housed
  <2> QED BY <2>1, <2>2, <2>3 DEF Layout
<1>7. t \in 1 .. ZoneSize /\ \A b \in Held("level") : \A s \in Slots : Slot(b, s, kind[b]) # t
  <2>1. Payloads(live', tag', "level") = Held("level") /\ t \in Payloads(live', tag', "levspec")
    BY <1>5 DEF Held
  <2> QED BY <1>6, <2>1, Elsewhere
<1>8. t \notin objects
  BY <1>2, <1>5, <1>7 DEF Housed
<1>9. /\ tail \in objects \cup {Cap} /\ objects \subseteq 1 .. ZoneSize /\ Cap \notin 1 .. ZoneSize
      /\ extra \in [1 .. ZoneSize -> SUBSET Slots]
      /\ spNext \in [1 .. ZoneSize \cup {Cap} -> 0 .. ZoneSize \cup {Cap}]
  BY <1>4, HeldTypes
<1> DEFINE sp == [spNext EXCEPT ![t] = Nil]
<1>10. /\ sp \in [1 .. ZoneSize \cup {Cap} -> 0 .. ZoneSize \cup {Cap}]
       /\ \A x \in 1 .. ZoneSize \cup {Cap} : x # t => sp[x] = spNext[x]
  <2>1. Nil \in 0 .. ZoneSize \cup {Cap}
    BY ZoneAssumption DEF Nil
  <2> QED BY <1>9, <2>1
<1>11. overdue \subseteq objects
  BY DEF ThinkType
<1> HIDE DEF sp
<1>12. /\ Row' /\ TailIs' /\ objects' = objects \cup {t} /\ tail' = t
       /\ spNext' \in [1 .. ZoneSize \cup {Cap} -> 0 .. ZoneSize \cup {Cap}]
       /\ \A x \in 1 .. ZoneSize \cup {Cap} : x # t /\ x # tail => spNext'[x] = sp[x]
  <2>1. AddThinker(t, sp)
    BY <1>3 DEF sp
  <2>2. \A x \in objects \cup {Cap} : sp[x] = spNext[x]
    BY <1>7, <1>8, <1>9, <1>10
  <2> QED BY <1>4, <1>7, <1>8, <1>10, <1>11, <2>1, <2>2, RowGrows
<1>13. ThinkType'
  BY <1>3, <1>4, <1>7, <1>12 DEF ThinkType
<1>14. \A x \in 1 .. ZoneSize : poolInfo'[x] = IF x = t THEN Unpooled ELSE poolInfo[x]
  BY <1>3, <1>7 DEF ThinkType
<1>15. Housed(kind)'
  <2>1. kind \in [Held("level")' -> Types]
    BY <1>2, <1>5 DEF Housed
  <2>2. ASSUME NEW b \in Held("level")
        PROVE  /\ NumSlots * SlotSize[kind[b]] + Header <= size'[b - Header] /\ extra'[b] # Slots
               /\ \A s \in Slots \ extra'[b] :
                    /\ Slot(b, s, kind[b]) \in objects'
                    /\ poolInfo'[Slot(b, s, kind[b])] = <<kind[b], s>>
    <3>1. \A s \in Slots \ extra[b] :
            Slot(b, s, kind[b]) \in objects /\ poolInfo[Slot(b, s, kind[b])] = <<kind[b], s>>
      BY <1>2 DEF Housed
    <3>2. NumSlots * SlotSize[kind[b]] + Header <= size[b - Header] /\ extra[b] # Slots
      BY <1>2 DEF Housed
    <3> QED BY <1>4, <1>5, <1>7, <1>9, <1>12, <1>14, <3>1, <3>2
  <2>3. \A b \in Held("levspec")' : b \in objects' /\ poolInfo'[b] = Unpooled
    BY <1>2, <1>5, <1>7, <1>9, <1>12, <1>14 DEF Housed
  <2>4. ASSUME NEW u \in objects'
        PROVE  /\ poolInfo'[u] = Unpooled => u \in Held("levspec")'
               /\ poolInfo'[u] # Unpooled =>
                    \E b \in Held("level")' : \E s \in Slots \ extra'[b] :
                      u = Slot(b, s, kind[b]) /\ poolInfo'[u] = <<kind[b], s>>
    <3>1. CASE u = t
      BY <1>5, <1>7, <1>14, <3>1
    <3>2. CASE u # t
      <4>1. u \in objects /\ poolInfo'[u] = poolInfo[u]
        BY <1>9, <1>12, <1>14, <3>2
      <4> QED BY <1>2, <1>4, <1>5, <4>1 DEF Housed
    <3> QED BY <3>1, <3>2
  <2> QED BY <1>5, <2>1, <2>2, <2>3, <2>4 DEF Housed
<1>16. ASSUME NEW type \in Types PROVE Chained(kind, type)'
  <2>1. ASSUME NEW b \in Partials(kind, type)
        PROVE  /\ b \in 1 .. ZoneSize /\ b \in Partials(kind, type)'
               /\ spNext'[LinkOf(b, type, extra')] = spNext[LinkOf(b, type, extra)]
    <3>1. /\ b \in Held("level") /\ b \in 1 .. ZoneSize /\ kind[b] = type /\ extra[b] # {}
          /\ LinkOf(b, type, extra) \in 1 .. ZoneSize \ objects
          /\ Max(extra[b]) \in extra[b] /\ extra[b] \in SUBSET Slots
      BY <1>2, <1>9, PartialPlaces
    <3>2. b \in Partials(kind, type)'
      BY <1>4, <1>5, <3>1 DEF Partials
    <3>3. LinkOf(b, type, extra) # t
      BY <1>7, <3>1 DEF LinkOf
    <3>4. spNext'[LinkOf(b, type, extra)] = spNext[LinkOf(b, type, extra)]
      BY <1>9, <1>10, <1>12, <3>1, <3>3
    <3> QED BY <1>4, <3>1, <3>2, <3>4
  <2>2. pool'[type] = pool[type]
    BY <1>4
  <2> QED BY <1>2, <2>1, <2>2, ChainKept
<1>17. Pooling'
  BY <1>15, <1>16 DEF Pooling, PoolingAs
<1>18. overdue' \subseteq removed'
  BY <1>3, <1>4, <1>8 DEF ThinkType
<1> QED BY <1>5, <1>12, <1>13, <1>17, <1>18

\* A thing in the first slot of a new block, which becomes its type's chain.
LEMMA BlockSpawned ==
  ASSUME ZoneInv, ThinkType, Pooling, Row, TailIs, overdue \subseteq removed,
         NEW type \in Types, SpawnInNewBlock(type)
  PROVE  Pooling' /\ Row' /\ TailIs' /\ ThinkType' /\ overdue' \subseteq removed' /\ ZoneNext
<1>1. PICK kind : PoolingAs(kind)
  BY DEF Pooling
<1>2. Housed(kind) /\ \A y \in Types : Chained(kind, y)
  BY <1>1 DEF PoolingAs
<1> DEFINE Last(t) == Slot(t, NumSlots - 1, type)
           sp(t) == [spNext EXCEPT ![t] = Nil, ![Last(t)] = Nil]
<1>3. PICK t \in Results :
        /\ Allocate(t, NumSlots * SlotSize[type], "level")
        /\ pool' = [pool EXCEPT ![type] = t] /\ extra' = [extra EXCEPT ![t] = Slots \ {0}]
        /\ poolInfo' = [poolInfo EXCEPT ![t] = <<type, 0>>]
        /\ AddThinker(t, sp(t)) /\ removed' = removed \ {t}
  BY DEF SpawnInNewBlock
<1>4. /\ UNCHANGED <<phase, cursor, overdue>> /\ pool[type] = Nil
      /\ panicked = 0 /\ phase \in {"idle", "running"}
  BY DEF SpawnInNewBlock, Room, Active
<1>5. /\ ZoneInv' /\ ZoneNext /\ t \in Int
      /\ Held("level")' = Held("level") \cup {t} /\ Held("levspec")' = Held("levspec")
      /\ t \notin Held("level")
      /\ \A y \in Held("level") : size'[y - Header] = size[y - Header]
      /\ size'[t - Header] >= NumSlots * SlotSize[type] + Header
  <2>1. /\ NumSlots * SlotSize[type] \in Nat \ {0}
        /\ NumSlots * SlotSize[type] + Header <= ZoneSize /\ "level" \in Tags \ {"free"}
    <3>1. 0 \in Slots /\ 0 \in Int
      BY PoolAssumption DEF Slots
    <3>2. NumSlots * SlotSize[type] \in Nat \ {0}
      BY <3>1, SlotBounds
    <3> QED BY <3>2, RequestAssumption DEF Tags
  <2>2. \A v \in {"level", "levspec"} :
          /\ t \notin Held(v) /\ Held(v)' = IF v = "level" THEN Held(v) \cup {t} ELSE Held(v)
          /\ \A y \in Held(v) : size'[y - Header] = size[y - Header]
    BY <1>3, <2>1, HeldTaken
  <2>3. ZoneInv' /\ ZoneNext /\ t \in Int /\ size'[t - Header] >= NumSlots * SlotSize[type] + Header
    BY <1>3, <1>4, <2>1, HeldTaken
  <2> QED BY <2>2, <2>3
<1>6. PICK kind2 : kind2 = [b \in Held("level") \cup {t} |-> IF b = t THEN type ELSE kind[b]]
  OBVIOUS
<1>7. /\ kind2[t] = type /\ \A b \in Held("level") : kind2[b] = kind[b] /\ b # t
      /\ kind2 \in [Held("level")' -> Types]
  BY <1>2, <1>5, <1>6 DEF Housed
<1>8. NumSlots \in Nat /\ NumSlots > 1 /\ 0 \in Slots /\ NumSlots - 1 \in Slots
      /\ NumSlots - 1 # 0
  BY PoolAssumption DEF Slots
<1>9. Layout(live', size', tag', kind2)
  <2>1. /\ live' \subseteq 1 .. ZoneSize
        /\ \A b \in live' : size'[b] \in Int /\ size'[b] > Header /\ b + size'[b] <= ZoneSize + 1
        /\ \A b, c \in live' : b < c => b + size'[b] <= c
    BY <1>5, DisjointAfter
  <2>2. Payloads(live', tag', "level") = Held("level") \cup {t}
    BY <1>5 DEF Held
  <2>3. ASSUME NEW b \in Held("level") \cup {t}
        PROVE  kind2[b] \in Types /\ NumSlots * SlotSize[kind2[b]] + Header <= size'[b - Header]
    <3>1. CASE b = t
      <4>1. NumSlots * SlotSize[type] \in Nat /\ Header \in Nat /\ size'[t - Header] \in Int
        <5>1. t - Header \in live'
          <6>1. live' \in SUBSET Int
            BY <2>1, ZoneAssumption
          <6> QED BY <1>5, <2>2, <6>1, PayloadIs
        <5> QED BY <1>5, <1>8, <2>1, <5>1, SlotBounds, ZoneAssumption
      <4> QED BY <1>5, <1>7, <3>1, <4>1
    <3>2. CASE b \in Held("level")
      BY <1>2, <1>5, <1>7, <3>2 DEF Housed
    <3> QED BY <3>1, <3>2
  <2> QED BY <2>1, <2>2, <2>3 DEF Layout
<1>10. /\ \A b \in Held("level") \cup {t} :
            b \in 1 .. ZoneSize /\ \A s \in Slots : Slot(b, s, kind2[b]) \in 1 .. ZoneSize
       /\ \A b, c \in Held("level") \cup {t} : \A s, u \in Slots :
            Slot(b, s, kind2[b]) = Slot(c, u, kind2[c]) => b = c /\ s = u
       /\ \A b \in Held("level") \cup {t} : \A c \in Held("levspec") :
            \A s \in Slots : Slot(b, s, kind2[b]) # c
  <2>1. /\ Payloads(live', tag', "level") = Held("level") \cup {t}
        /\ Payloads(live', tag', "levspec") = Held("levspec")
    BY <1>5 DEF Held
  <2> QED BY <1>9, <2>1, Elsewhere
<1>11. Slot(t, 0, type) = t
  BY <1>5, <1>8, SlotBounds
\* No slot of the new block is at something in use.
<1>12. ASSUME NEW s \in Slots PROVE Slot(t, s, type) \notin objects
  <2> SUFFICES ASSUME Slot(t, s, type) \in objects PROVE FALSE
    OBVIOUS
  <2>1. CASE poolInfo[Slot(t, s, type)] = Unpooled
    BY <1>2, <1>7, <1>10, <2>1 DEF Housed
  <2>2. CASE poolInfo[Slot(t, s, type)] # Unpooled
    <3>1. PICK b \in Held("level") : \E u \in Slots \ extra[b] : Slot(t, s, type) = Slot(b, u, kind[b])
      BY <1>2, <2>2 DEF Housed
    <3> QED BY <1>7, <1>10, <3>1
  <2> QED BY <2>1, <2>2
<1>13. /\ t \in 1 .. ZoneSize /\ t \notin objects
       /\ Last(t) \in 1 .. ZoneSize /\ Last(t) \notin objects /\ Last(t) # t
  <2>1. Last(t) # t
    BY <1>7, <1>8, <1>10, <1>11
  <2> QED BY <1>7, <1>8, <1>10, <1>11, <1>12, <2>1
<1>14. /\ tail \in objects \cup {Cap} /\ objects \subseteq 1 .. ZoneSize /\ Cap \notin 1 .. ZoneSize
       /\ extra \in [1 .. ZoneSize -> SUBSET Slots]
       /\ spNext \in [1 .. ZoneSize \cup {Cap} -> 0 .. ZoneSize \cup {Cap}]
  BY <1>4, HeldTypes
<1>15. /\ sp(t) \in [1 .. ZoneSize \cup {Cap} -> 0 .. ZoneSize \cup {Cap}]
       /\ \A x \in 1 .. ZoneSize \cup {Cap} : x # t /\ x # Last(t) => sp(t)[x] = spNext[x]
       /\ sp(t)[Last(t)] = Nil
  <2>1. Nil \in 0 .. ZoneSize \cup {Cap}
    BY ZoneAssumption DEF Nil
  <2> QED BY <1>13, <1>14, <2>1
<1>16. overdue \subseteq objects
  BY DEF ThinkType
<1> HIDE DEF sp, Last
<1>17. /\ Row' /\ TailIs' /\ objects' = objects \cup {t} /\ tail' = t
       /\ spNext' \in [1 .. ZoneSize \cup {Cap} -> 0 .. ZoneSize \cup {Cap}]
       /\ \A x \in 1 .. ZoneSize \cup {Cap} : x # t /\ x # tail => spNext'[x] = sp(t)[x]
  <2>1. AddThinker(t, sp(t))
    BY <1>3
  <2>2. \A x \in objects \cup {Cap} : sp(t)[x] = spNext[x]
    BY <1>13, <1>14, <1>15
  <2> QED BY <1>4, <1>13, <1>15, <1>16, <2>1, <2>2, RowGrows
<1>18. ThinkType'
  <2>1. poolInfo' \in [1 .. ZoneSize -> {Unpooled} \cup (Types \X Slots)]
    <3>1. <<type, 0>> \in Types \X Slots
      BY <1>8
    <3> QED BY <1>3, <1>13, <3>1 DEF ThinkType
  <2>2. extra' \in [1 .. ZoneSize -> SUBSET Slots] /\ pool' \in [Types -> 0 .. ZoneSize]
    <3>1. t \in 0 .. ZoneSize
      BY <1>13
    <3> QED BY <1>3, <1>13, <3>1 DEF ThinkType
  <2> QED BY <1>3, <1>4, <1>13, <1>17, <2>1, <2>2 DEF ThinkType
<1>19. /\ \A x \in 1 .. ZoneSize : poolInfo'[x] = IF x = t THEN <<type, 0>> ELSE poolInfo[x]
       /\ \A b \in 1 .. ZoneSize : extra'[b] = IF b = t THEN Slots \ {0} ELSE extra[b]
  BY <1>3, <1>13 DEF ThinkType
<1>20. Housed(kind2)'
  <2>1. ASSUME NEW b \in Held("level")
        PROVE  /\ NumSlots * SlotSize[kind2[b]] + Header <= size'[b - Header] /\ extra'[b] # Slots
               /\ \A s \in Slots \ extra'[b] :
                    /\ Slot(b, s, kind2[b]) \in objects'
                    /\ poolInfo'[Slot(b, s, kind2[b])] = <<kind2[b], s>>
    <3>1. /\ NumSlots * SlotSize[kind[b]] + Header <= size[b - Header] /\ extra[b] # Slots
          /\ \A s \in Slots \ extra[b] :
               Slot(b, s, kind[b]) \in objects /\ poolInfo[Slot(b, s, kind[b])] = <<kind[b], s>>
      BY <1>2 DEF Housed
    <3>2. extra'[b] = extra[b] /\ kind2[b] = kind[b] /\ size'[b - Header] = size[b - Header]
      BY <1>5, <1>7, <1>10, <1>19
    <3> QED BY <1>13, <1>14, <1>17, <1>19, <3>1, <3>2
  <2>2. /\ NumSlots * SlotSize[kind2[t]] + Header <= size'[t - Header] /\ extra'[t] # Slots
        /\ \A s \in Slots \ extra'[t] :
             /\ Slot(t, s, kind2[t]) \in objects' /\ poolInfo'[Slot(t, s, kind2[t])] = <<kind2[t], s>>
    <3>1. NumSlots * SlotSize[kind2[t]] + Header <= size'[t - Header]
      <4>1. t \in Payloads(live', tag', "level")
        BY <1>5 DEF Held
      <4> QED BY <1>9, <4>1 DEF Layout
    <3>2. extra'[t] = Slots \ {0} /\ \A s \in Slots \ extra'[t] : s = 0
      BY <1>13, <1>19
    <3> QED BY <1>7, <1>8, <1>11, <1>13, <1>17, <1>19, <3>1, <3>2
  <2>3. \A b \in Held("levspec")' : b \in objects' /\ poolInfo'[b] = Unpooled
    <3>1. ASSUME NEW b \in Held("levspec") PROVE b \in objects' /\ poolInfo'[b] = Unpooled
      <4>1. b \in objects /\ poolInfo[b] = Unpooled /\ b # t /\ b \in 1 .. ZoneSize
        BY <1>2, <1>13, <1>14 DEF Housed
      <4> QED BY <1>17, <1>19, <4>1
    <3> QED BY <1>5, <3>1
  <2>4. ASSUME NEW u \in objects'
        PROVE  /\ poolInfo'[u] = Unpooled => u \in Held("levspec")'
               /\ poolInfo'[u] # Unpooled =>
                    \E b \in Held("level")' : \E s \in Slots \ extra'[b] :
                      u = Slot(b, s, kind2[b]) /\ poolInfo'[u] = <<kind2[b], s>>
    <3>1. CASE u = t
      <4>1. t \in Held("level")' /\ 0 \in Slots \ extra'[t] /\ poolInfo'[t] = <<type, 0>>
        BY <1>5, <1>8, <1>13, <1>19
      <4> QED BY <1>7, <1>11, <3>1, <4>1 DEF Unpooled
    <3>2. CASE u # t
      <4>1. u \in objects /\ poolInfo'[u] = poolInfo[u]
        BY <1>14, <1>17, <1>19, <3>2
      <4>2. CASE poolInfo[u] = Unpooled
        BY <1>2, <1>5, <4>1, <4>2 DEF Housed
      <4>3. CASE poolInfo[u] # Unpooled
        <5>1. PICK b \in Held("level") : \E s \in Slots \ extra[b] :
                u = Slot(b, s, kind[b]) /\ poolInfo[u] = <<kind[b], s>>
          BY <1>2, <4>1, <4>3 DEF Housed
        <5>2. b \in Held("level")' /\ extra'[b] = extra[b] /\ kind2[b] = kind[b]
          BY <1>5, <1>7, <1>10, <1>19
        <5> QED BY <4>1, <4>3, <5>1, <5>2
      <4> QED BY <4>2, <4>3
    <3> QED BY <3>1, <3>2
  <2>5. \A b \in Held("level")' : b \in Held("level") \/ b = t
    BY <1>5
  <2> QED BY <1>7, <2>1, <2>2, <2>3, <2>4, <2>5 DEF Housed
<1>21. ASSUME NEW y \in Types, y # type PROVE Chained(kind2, y)'
  <2>1. ASSUME NEW b \in Partials(kind, y)
        PROVE  /\ b \in 1 .. ZoneSize /\ b \in Partials(kind2, y)'
               /\ spNext'[LinkOf(b, y, extra')] = spNext[LinkOf(b, y, extra)]
    <3>1. /\ b \in Held("level") /\ b \in 1 .. ZoneSize /\ kind[b] = y /\ extra[b] # {}
          /\ LinkOf(b, y, extra) \in 1 .. ZoneSize \ objects
          /\ Max(extra[b]) \in Slots /\ kind2[b] = kind[b] /\ b # t
      BY <1>2, <1>7, <1>14, PartialPlaces
    <3>2. b \in Partials(kind2, y)' /\ extra'[b] = extra[b]
      BY <1>5, <1>19, <3>1 DEF Partials
    <3>3. LinkOf(b, y, extra) # t /\ LinkOf(b, y, extra) # Last(t)
      BY <1>7, <1>8, <1>10, <1>11, <3>1 DEF LinkOf, Last
    <3>4. spNext'[LinkOf(b, y, extra)] = spNext[LinkOf(b, y, extra)]
      BY <1>14, <1>15, <1>17, <3>1, <3>3
    <3>5. LinkOf(b, y, extra') = LinkOf(b, y, extra)
      BY <3>2 DEF LinkOf
    <3> QED BY <3>1, <3>2, <3>4, <3>5
  <2>2. pool'[y] = pool[y]
    BY <1>3, <1>21 DEF ThinkType
  <2> QED BY <1>2, <2>1, <2>2, ChainKept
<1>22. Chained(kind2, type)'
  <2>1. t \in Partials(kind2, type)'
    <3>1. NumSlots - 1 \in extra'[t]
      BY <1>8, <1>13, <1>19
    <3> QED BY <1>5, <1>7, <3>1 DEF Partials
  <2>2. LinkOf(t, type, extra') = Last(t)
    <3>1. extra'[t] = Slots \ {0}
      BY <1>13, <1>19
    <3>2. Slots \ {0} \in SUBSET Slots /\ NumSlots - 1 \in Slots \ {0}
          /\ \A s \in Slots : s \in Int /\ s <= NumSlots - 1
      BY <1>8 DEF Slots
    <3>3. Max(Slots \ {0}) = NumSlots - 1
      <4>1. Max(Slots \ {0}) \in Slots \ {0} /\ \A x \in Slots \ {0} : x <= Max(Slots \ {0})
        BY <3>2, MaxIs
      <4> QED BY <1>8, <3>2, <4>1
    <3> QED BY <3>1, <3>3 DEF LinkOf, Last
  <2>3. Links(type)'[t] = Nil
    <3>1. spNext'[Last(t)] = Nil
      BY <1>13, <1>14, <1>15, <1>17
    <3> QED BY <1>13, <2>2, <3>1 DEF Links
  <2> DEFINE g == [i \in 1 .. 1 |-> t]
  <2>4. g \in [1 .. 1 -> Partials(kind2, type)']
    BY <2>1
  <2>5. pool'[type] = t
    BY <1>3 DEF ThinkType
  <2>6. Strung(g, 1, Links(type)', pool'[type], Nil)
    <3>1. \A i \in 1 .. 1 : i = 1 /\ g[i] = t
      OBVIOUS
    <3>2. 1 \in 1 .. 1
      OBVIOUS
    <3> HIDE DEF g
    <3> QED BY <2>3, <2>5, <3>1, <3>2 DEF Strung
  <2> HIDE DEF g
  <2> QED BY <2>4, <2>6 DEF Chained
<1>23. Pooling'
  BY <1>20, <1>21, <1>22 DEF Pooling, PoolingAs
<1>24. overdue' \subseteq removed'
  BY <1>3, <1>4, <1>13 DEF ThinkType
<1> QED BY <1>5, <1>17, <1>18, <1>23, <1>24

\* The greatest of a set that loses its least.
LEMMA MaxWithout ==
  ASSUME NEW S \in SUBSET Slots, S # {}, S # {Min(S)}
  PROVE  /\ S \ {Min(S)} # {} /\ Max(S \ {Min(S)}) = Max(S) /\ Max(S) # Min(S)
<1>1. \A x \in S : x \in Int
  BY PoolAssumption DEF Slots
<1>2. Min(S) \in S /\ \A x \in S : Min(S) <= x
  BY MinIs
<1>3. Max(S) \in S /\ \A x \in S : x <= Max(S)
  BY MaxIs
<1>4. S \ {Min(S)} \in SUBSET Slots /\ S \ {Min(S)} # {}
  BY <1>2
<1>5. Max(S \ {Min(S)}) \in S \ {Min(S)} /\ \A x \in S \ {Min(S)} : x <= Max(S \ {Min(S)})
  BY <1>4, MaxIs
<1> QED BY <1>1, <1>2, <1>3, <1>4, <1>5

\* A thing in the lowest free slot of the chain's first block: the block stays
\* the first, or the chain is given up.
LEMMA SlotSpawned ==
  ASSUME ZoneInv, ThinkType, Pooling, Row, TailIs, overdue \subseteq removed,
         NEW type \in Types, SpawnInSlot(type)
  PROVE  /\ Pooling' /\ Row' /\ TailIs' /\ ThinkType' /\ overdue' \subseteq removed'
         /\ UNCHANGED zoneVars
<1>1. PICK kind : PoolingAs(kind)
  BY DEF Pooling
<1>2. Housed(kind) /\ \A y \in Types : Chained(kind, y)
  BY <1>1 DEF PoolingAs
<1> DEFINE block == pool[type]
           slot  == Min(extra[block])
           t     == Slot(block, slot, type)
           sp    == [spNext EXCEPT ![t] = Nil]
<1>3. /\ block # Nil /\ phase \in {"idle", "running"}
      /\ UNCHANGED <<zoneVars, phase, cursor, overdue>>
      /\ extra' = [extra EXCEPT ![block] = @ \ {slot}]
      /\ pool' = IF extra[block] = {slot} THEN [pool EXCEPT ![type] = sp[t]] ELSE pool
      /\ poolInfo' = [poolInfo EXCEPT ![t] = <<type, slot>>]
      /\ AddThinker(t, sp) /\ removed' = removed \ {t}
  BY DEF SpawnInSlot, Room, Active
<1>4. /\ tail \in objects \cup {Cap} /\ objects \subseteq 1 .. ZoneSize /\ Cap \notin 1 .. ZoneSize
      /\ extra \in [1 .. ZoneSize -> SUBSET Slots]
      /\ spNext \in [1 .. ZoneSize \cup {Cap} -> 0 .. ZoneSize \cup {Cap}]
  BY <1>3, HeldTypes
<1>5. PICK m \in Nat : \E g \in [1 .. m -> Partials(kind, type)] :
        Strung(g, m, Links(type), pool[type], Nil)
  BY <1>2 DEF Chained
<1>6. PICK g \in [1 .. m -> Partials(kind, type)] : Strung(g, m, Links(type), pool[type], Nil)
  BY <1>5
<1>7. block \in Partials(kind, type)
  <2>1. m # 0 /\ block = g[1]
    BY <1>3, <1>6 DEF Strung
  <2> QED BY <2>1
<1>8. /\ block \in Held("level") /\ block \in 1 .. ZoneSize /\ kind[block] = type
      /\ extra[block] # {} /\ extra[block] \in SUBSET Slots
      /\ slot \in extra[block] /\ slot \in Slots
  <2>1. /\ block \in Held("level") /\ block \in 1 .. ZoneSize /\ kind[block] = type
        /\ extra[block] # {} /\ extra[block] \in SUBSET Slots
    BY <1>2, <1>4, <1>7, PartialPlaces
  <2>2. slot \in extra[block]
    BY <2>1, MinIs
  <2> QED BY <2>1, <2>2
<1>9. /\ t \in 1 .. ZoneSize /\ t \notin objects
      /\ \A b \in Held("level") : \A s \in Slots : Slot(b, s, kind[b]) = t => b = block /\ s = slot
      /\ t \notin Held("levspec")
  BY <1>2, <1>8, Places
<1>10. /\ sp \in [1 .. ZoneSize \cup {Cap} -> 0 .. ZoneSize \cup {Cap}] /\ sp[t] = Nil
       /\ \A x \in 1 .. ZoneSize \cup {Cap} : x # t => sp[x] = spNext[x]
  <2>1. Nil \in 0 .. ZoneSize \cup {Cap}
    BY ZoneAssumption DEF Nil
  <2> QED BY <1>4, <1>9, <2>1
<1>11. overdue \subseteq objects
  BY DEF ThinkType
<1>12. t = Slot(block, slot, type)
  OBVIOUS
<1> HIDE DEF sp, t, slot, block
<1>13. /\ Row' /\ TailIs' /\ objects' = objects \cup {t} /\ tail' = t
       /\ spNext' \in [1 .. ZoneSize \cup {Cap} -> 0 .. ZoneSize \cup {Cap}]
       /\ \A x \in 1 .. ZoneSize \cup {Cap} : x # t /\ x # tail => spNext'[x] = sp[x]
  <2>1. \A x \in objects \cup {Cap} : sp[x] = spNext[x]
    BY <1>4, <1>9, <1>10
  <2> QED BY <1>3, <1>9, <1>10, <1>11, <2>1, RowGrows
<1>14. ThinkType'
  <2>1. poolInfo' \in [1 .. ZoneSize -> {Unpooled} \cup (Types \X Slots)]
    <3>1. <<type, slot>> \in Types \X Slots
      BY <1>8
    <3> QED BY <1>3, <1>9, <3>1 DEF ThinkType
  <2>2. extra' \in [1 .. ZoneSize -> SUBSET Slots]
    BY <1>3, <1>4, <1>8
  <2>3. pool' \in [Types -> 0 .. ZoneSize]
    <3>1. sp[t] \in 0 .. ZoneSize
      BY <1>10, ZoneAssumption DEF Nil
    <3> QED BY <1>3, <3>1 DEF ThinkType
  <2>4. removed' \subseteq objects' /\ objects' \subseteq 1 .. ZoneSize
    BY <1>3, <1>4, <1>9, <1>13 DEF ThinkType
  <2> QED BY <1>3, <1>9, <1>13, <2>1, <2>2, <2>3, <2>4 DEF ThinkType
<1>15. /\ \A x \in 1 .. ZoneSize : poolInfo'[x] = IF x = t THEN <<type, slot>> ELSE poolInfo[x]
       /\ \A b \in 1 .. ZoneSize : extra'[b] = IF b = block THEN extra[block] \ {slot} ELSE extra[b]
  BY <1>3, <1>4, <1>8, <1>9 DEF ThinkType
<1>16. \A v : Held(v)' = Held(v)
  BY <1>3 DEF Held, zoneVars
<1>17. Housed(kind)'
  <2>1. kind \in [Held("level")' -> Types]
    BY <1>2, <1>16 DEF Housed
  <2>2. ASSUME NEW b \in Held("level")
        PROVE  /\ NumSlots * SlotSize[kind[b]] + Header <= size'[b - Header] /\ extra'[b] # Slots
               /\ \A s \in Slots \ extra'[b] :
                    /\ Slot(b, s, kind[b]) \in objects'
                    /\ poolInfo'[Slot(b, s, kind[b])] = <<kind[b], s>>
    <3>1. /\ b \in 1 .. ZoneSize /\ size' = size
          /\ NumSlots * SlotSize[kind[b]] + Header <= size[b - Header] /\ extra[b] # Slots
          /\ \A s \in Slots \ extra[b] :
               Slot(b, s, kind[b]) \in objects /\ poolInfo[Slot(b, s, kind[b])] = <<kind[b], s>>
      BY <1>2, <1>3, Places DEF Housed, zoneVars
    <3>2. extra'[b] # Slots
      BY <1>8, <1>15, <3>1
    <3>3. ASSUME NEW s \in Slots \ extra'[b]
          PROVE  /\ Slot(b, s, kind[b]) \in objects'
                 /\ poolInfo'[Slot(b, s, kind[b])] = <<kind[b], s>>
      <4>1. CASE b = block /\ s = slot
        BY <1>8, <1>9, <1>12, <1>13, <1>15, <4>1
      <4>2. CASE ~(b = block /\ s = slot)
        <5>1. s \in Slots \ extra[b]
          BY <1>15, <3>1, <4>2
        <5>2. Slot(b, s, kind[b]) \in objects /\ Slot(b, s, kind[b]) # t
          BY <1>9, <3>1, <5>1
        <5> QED BY <1>4, <1>13, <1>15, <3>1, <5>1, <5>2
      <4> QED BY <4>1, <4>2
    <3> QED BY <3>1, <3>2, <3>3
  <2>3. ASSUME NEW b \in Held("levspec")' PROVE b \in objects' /\ poolInfo'[b] = Unpooled
    <3>1. b \in objects /\ poolInfo[b] = Unpooled /\ b # t /\ b \in 1 .. ZoneSize
      BY <1>2, <1>4, <1>9, <1>16 DEF Housed
    <3> QED BY <1>13, <1>15, <3>1
  <2>4. ASSUME NEW u \in objects'
        PROVE  /\ poolInfo'[u] = Unpooled => u \in Held("levspec")'
               /\ poolInfo'[u] # Unpooled =>
                    \E b \in Held("level")' : \E s \in Slots \ extra'[b] :
                      u = Slot(b, s, kind[b]) /\ poolInfo'[u] = <<kind[b], s>>
    <3>1. CASE u = t
      <4>1. slot \in Slots \ extra'[block] /\ poolInfo'[t] = <<type, slot>>
        BY <1>8, <1>9, <1>15
      <4> QED BY <1>8, <1>12, <1>16, <3>1, <4>1 DEF Unpooled
    <3>2. CASE u # t
      <4>1. u \in objects /\ poolInfo'[u] = poolInfo[u]
        BY <1>4, <1>13, <1>15, <3>2
      <4>2. CASE poolInfo[u] = Unpooled
        BY <1>2, <1>16, <4>1, <4>2 DEF Housed
      <4>3. CASE poolInfo[u] # Unpooled
        <5>1. PICK b \in Held("level") : \E s \in Slots \ extra[b] :
                u = Slot(b, s, kind[b]) /\ poolInfo[u] = <<kind[b], s>>
          BY <1>2, <4>1, <4>3 DEF Housed
        <5>2. b \in Held("level")' /\ extra'[b] \subseteq extra[b]
          <6>1. b \in 1 .. ZoneSize
            BY <1>2, Places
          <6> QED BY <1>15, <1>16, <6>1
        <5> QED BY <4>1, <4>3, <5>1, <5>2
      <4> QED BY <4>2, <4>3
    <3> QED BY <3>1, <3>2
  <2> QED BY <1>16, <2>1, <2>2, <2>3, <2>4 DEF Housed
<1>18. ASSUME NEW y \in Types, NEW b \in Partials(kind, y), b # block
       PROVE  /\ b \in 1 .. ZoneSize /\ b \in Partials(kind, y)'
              /\ spNext'[LinkOf(b, y, extra')] = spNext[LinkOf(b, y, extra)]
  <2>1. /\ b \in Held("level") /\ b \in 1 .. ZoneSize /\ kind[b] = y /\ extra[b] # {}
        /\ LinkOf(b, y, extra) \in 1 .. ZoneSize \ objects
        /\ Max(extra[b]) \in Slots
    BY <1>2, <1>4, PartialPlaces
  <2>2. extra'[b] = extra[b] /\ b \in Partials(kind, y)'
    BY <1>15, <1>16, <1>18, <2>1 DEF Partials
  <2>3. LinkOf(b, y, extra') = LinkOf(b, y, extra)
    BY <2>2 DEF LinkOf
  <2>4. LinkOf(b, y, extra) # t
    BY <1>9, <1>18, <2>1 DEF LinkOf
  <2>5. spNext'[LinkOf(b, y, extra)] = spNext[LinkOf(b, y, extra)]
    BY <1>4, <1>10, <1>13, <2>1, <2>4
  <2> QED BY <2>1, <2>2, <2>3, <2>5
<1>19. ASSUME NEW y \in Types, y # type PROVE Chained(kind, y)'
  <2>1. \A b \in Partials(kind, y) : b # block
    BY <1>8, <1>19 DEF Partials
  <2>2. pool'[y] = pool[y]
    BY <1>3, <1>19 DEF ThinkType
  <2> QED BY <1>2, <1>18, <2>1, <2>2, ChainKept
<1>20. Chained(kind, type)'
  <2>1. CASE extra[block] = {slot}
    <3>1. pool'[type] = Nil
      BY <1>3, <1>10, <2>1 DEF ThinkType
    <3> DEFINE h == [i \in 1 .. 0 |-> Nil]
    <3>2. h \in [1 .. 0 -> Partials(kind, type)'] /\ Strung(h, 0, Links(type)', pool'[type], Nil)
      BY <3>1 DEF Strung
    <3> HIDE DEF h
    <3> QED BY <3>2 DEF Chained
  <2>2. CASE extra[block] # {slot}
    <3>1. /\ extra[block] \ {slot} # {} /\ Max(extra[block] \ {slot}) = Max(extra[block])
          /\ Max(extra[block]) # slot
      BY <1>8, <2>2, MaxWithout DEF slot
    <3>2. extra'[block] = extra[block] \ {slot}
      BY <1>8, <1>15
    <3>3. block \in Partials(kind, type)'
      BY <1>8, <1>16, <3>1, <3>2 DEF Partials
    <3>4. LinkOf(block, type, extra') = LinkOf(block, type, extra)
      BY <3>1, <3>2 DEF LinkOf
    <3>5. LinkOf(block, type, extra) \in 1 .. ZoneSize \ objects /\ Max(extra[block]) \in Slots
      BY <1>2, <1>4, <1>7, <1>8, PartialPlaces
    <3>6. LinkOf(block, type, extra) # t
      BY <1>8, <1>9, <3>1, <3>5 DEF LinkOf
    <3>7. spNext'[LinkOf(block, type, extra)] = spNext[LinkOf(block, type, extra)]
      BY <1>4, <1>10, <1>13, <3>5, <3>6
    <3>8. pool'[type] = pool[type]
      BY <1>3, <2>2
    <3> QED BY <1>2, <1>8, <1>18, <3>3, <3>4, <3>7, <3>8, ChainKept
  <2> QED BY <2>1, <2>2
<1>21. Pooling'
  BY <1>17, <1>19, <1>20 DEF Pooling, PoolingAs
<1>22. overdue' \subseteq removed'
  BY <1>3, <1>9 DEF ThinkType
<1> QED BY <1>3, <1>13, <1>14, <1>21, <1>22

-----------------------------------------------------------------------------
\* While P_SetupLevel frees by tags it is at a block, or at the header of one
\* that its own freeing has merged into the block before, and whatever is left
\* to free is ahead of it.
Ahead == IF cursor \in Ring THEN cursor ELSE next[cursor]

Loading ==
  /\ cursor \in Addresses /\ Ahead \in Ring /\ (cursor \notin Ring => tag[cursor] = "free")
  /\ \A b \in live : tag[b] \in {"level", "levspec"} => Ahead # Head /\ Ahead <= b

\* The next block is no further than any other that is ahead.
LEMMA Onwards ==
  ASSUME ZoneInv, NEW c \in live, NEW b \in live, c <= b, b # c
  PROVE  next[c] # Head /\ next[c] <= b /\ next[c] = c + size[c]
<1>1. /\ c \in 1 .. ZoneSize /\ size[c] \in Int /\ size[c] > Header
      /\ next[c] = IF c + size[c] = ZoneSize + 1 THEN Head ELSE c + size[c]
  BY Neighbours
<1>2. b \in 1 .. ZoneSize /\ size[b] \in Int /\ size[b] > Header
  BY Neighbours
<1>3. b + size[b] <= c \/ c + size[c] <= b
  BY Apart
<1> QED BY <1>1, <1>2, <1>3, ZoneAssumption DEF Head

\* What becomes of the block after one that is freed.
LEMMA FreedAhead ==
  ASSUME ZoneInv, NEW block \in live, tag[block] # "free", Z_Free(block)
  PROVE  /\ next[block] \in Ring
         /\ tag[next[block]] # "free" => next[block] \in Ring'
         /\ tag[next[block]] = "free" =>
              /\ next[block] \in live /\ next[block] \notin Ring' /\ tag'[next[block]] = "free"
              /\ next'[next[block]] = next[next[block]] /\ next[next[block]] \in Ring'
              /\ next[next[block]] # next[block]
<1> DEFINE before == prev[block]
           after  == next[block]
           back   == tag[before] = "free"
           ahead  == tag[after] = "free"
           first  == IF back THEN before ELSE block
           last   == IF ahead THEN next[after] ELSE after
           gone   == (IF back THEN {block} ELSE {}) \cup (IF ahead THEN {after} ELSE {})
<1>1. /\ tag' = [tag EXCEPT ![block] = "free"] /\ live' = live \ gone
      /\ next' = [next EXCEPT ![first] = last]
  BY Zenon DEF Z_Free, FreeAhead
<1>2. /\ block \in 1 .. ZoneSize /\ size[block] \in Int /\ size[block] > Header
      /\ before \in Ring /\ after \in Ring /\ next[before] = block
      /\ after = IF block + size[block] = ZoneSize + 1 THEN Head ELSE block + size[block]
      /\ after # block /\ before # block /\ block # Head
  BY Neighbours, RingAddresses DEF Head
<1>3. \A b \in Ring : b \in Addresses
  BY RingAddresses
<1>4. next \in [Addresses -> Addresses] /\ tag \in [Addresses -> Tags] /\ tag[Head] # "free"
  BY RingAddresses, HeadNeighbours
<1>5. Head \notin live
  BY Neighbours DEF Head
<1>6. CASE ~ahead
  <2>1. after \in Ring'
    BY <1>1, <1>2, <1>6 DEF Ring
  <2> QED BY <1>2, <1>6, <2>1
<1>7. CASE ahead
  <2>1. after \in live /\ after = block + size[block]
    BY <1>2, <1>4, <1>7 DEF Ring
  <2>2. /\ after \in 1 .. ZoneSize /\ size[after] \in Int /\ size[after] > Header
        /\ next[after] \in Ring /\ next[after] # after
        /\ next[after] = IF after + size[after] = ZoneSize + 1 THEN Head ELSE after + size[after]
    <3> HIDE DEF after
    <3> QED BY <2>1, Neighbours
  <2>3. next[after] # block
    BY <1>2, <2>1, <2>2, ZoneAssumption
  <2>4. back => before \in live /\ before # after
    <3>1. back => before \in live
      BY <1>2, <1>4 DEF Ring
    <3>2. before \in live =>
            /\ before \in 1 .. ZoneSize /\ size[before] \in Int /\ size[before] > Header
            /\ next[before] = IF before + size[before] = ZoneSize + 1 THEN Head ELSE before + size[before]
      <4> HIDE DEF before
      <4> QED BY Neighbours
    <3> QED BY <1>2, <2>1, <3>1, <3>2, ZoneAssumption
  <2>5. first # after
    BY <1>2, <2>4
  <2>6. next'[after] = next[after] /\ tag'[after] = "free"
    BY <1>1, <1>2, <1>3, <1>4, <1>7, <2>5
  <2>7. after \notin Ring'
    BY <1>1, <1>5, <1>7, <2>1 DEF Ring
  <2>8. next[after] \in Ring'
    BY <1>1, <2>2, <2>3 DEF Ring
  <2> QED BY <1>2, <1>7, <2>1, <2>2, <2>6, <2>7, <2>8
<1> QED BY <1>6, <1>7

\* One step of it.
LEMMA LoadGoesOn ==
  ASSUME ZoneInv, ThinkType, Loading, panicked = 0, LoadFrees
  PROVE  Loading' /\ [ZoneNext]_zoneVars /\ cursor' \in 0 .. ZoneSize
<1>1. /\ cursor # Head /\ cursor' = next[cursor]
      /\ IF tag[cursor] \in {"level", "levspec"} THEN Z_Free(cursor) ELSE UNCHANGED zoneVars
  BY DEF LoadFrees
<1>2. Ring \subseteq Addresses /\ Addresses = 0 .. ZoneSize /\ next \in [Addresses -> Addresses]
      /\ \A b \in Ring : b \in Int
  BY RingAddresses
<1>3. cursor \in Addresses /\ cursor' \in Addresses
  BY <1>1, <1>2 DEF Loading
<1>4. CASE tag[cursor] \in {"level", "levspec"}
  <2>1. cursor \in live /\ tag[cursor] # "free" /\ Z_Free(cursor) /\ Ahead = cursor
    BY <1>1, <1>4 DEF Loading, Ring, Ahead
  <2>2. ZoneNext
    BY <2>1 DEF ZoneNext
  <2> DEFINE after == next[cursor]
  <2>3. /\ after \in Ring
        /\ tag[after] # "free" => after \in Ring'
        /\ tag[after] = "free" =>
             /\ after \in live /\ after \notin Ring' /\ tag'[after] = "free"
             /\ next'[after] = next[after] /\ next[after] \in Ring'
             /\ next[after] # after
    BY <2>1, FreedAhead
  <2>4. /\ \A b : (b \in live' /\ tag'[b] # "free") <=> (b \in live /\ tag[b] # "free" /\ b # cursor)
        /\ \A b \in live' : tag'[b] # "free" => tag'[b] = tag[b]
    BY <2>1, FreedOnly
  <2>5. ASSUME NEW b \in live', tag'[b] \in {"level", "levspec"}
        PROVE  /\ after # Head /\ after <= b
               /\ tag[after] = "free" => next[after] # Head /\ next[after] <= b
    <3>1. b \in live /\ tag[b] \in {"level", "levspec"} /\ b # cursor
      BY <2>4, <2>5
    <3>2. cursor <= b
      BY <2>1, <3>1 DEF Loading
    <3>3. after # Head /\ after <= b
      BY <2>1, <3>1, <3>2, Onwards
    <3>4. tag[after] = "free" => next[after] # Head /\ next[after] <= b
      <4> HIDE DEF after
      <4> QED BY <2>3, <3>1, <3>3, Onwards
    <3> QED BY <3>3, <3>4
  <2>6. cursor' = after
    BY <1>1
  <2> HIDE DEF after
  <2>7. CASE tag[after] = "free"
    <3>1. Ahead' = next[after]
      BY <2>3, <2>6, <2>7 DEF Ahead
    <3> QED BY <1>2, <1>3, <2>2, <2>3, <2>5, <2>6, <2>7, <3>1 DEF Loading
  <2>8. CASE tag[after] # "free"
    <3>1. Ahead' = after /\ after \in Ring'
      BY <2>3, <2>6, <2>8 DEF Ahead
    <3> QED BY <1>2, <1>3, <2>2, <2>5, <2>6, <3>1 DEF Loading
  <2> QED BY <2>7, <2>8
<1>5. CASE tag[cursor] \notin {"level", "levspec"}
  <2>1. UNCHANGED zoneVars
    BY <1>1, <1>5
  <2>2. live' = live /\ tag' = tag /\ next' = next /\ Ring' = Ring
    BY <2>1 DEF zoneVars, Ring
  <2>3. cursor' \in Ring
    BY <1>1, Neighbours DEF Loading, Ahead, Ring
  <2>4. Ahead' = cursor'
    BY <2>2, <2>3 DEF Ahead
  <2>5. ASSUME NEW b \in live, tag[b] \in {"level", "levspec"} PROVE cursor' # Head /\ cursor' <= b
    <3>1. CASE cursor \in live
      <4>1. cursor <= b /\ b # cursor
        BY <1>5, <2>5, <3>1 DEF Loading, Ahead, Ring
      <4> QED BY <1>1, <3>1, <4>1, Onwards
    <3>2. CASE cursor \notin live
      BY <1>1, <2>5, <3>2 DEF Loading, Ahead, Ring
    <3> QED BY <3>1, <3>2
  <2> QED BY <1>2, <1>3, <2>1, <2>2, <2>3, <2>4, <2>5 DEF Loading
<1> QED BY <1>4, <1>5

-----------------------------------------------------------------------------
\* What holds in every reachable state.  While P_SetupLevel frees by tags the
\* things are gone and the pools with them; only the zone is still whole.
ThinkersInv ==
  /\ ZoneInv /\ ThinkType
  /\ phase \in {"idle", "running", "freeing tags", "unarchiving"}
  /\ phase \in {"freeing tags", "unarchiving"} => panicked = 0
  /\ overdue \subseteq removed /\ (phase # "running" => overdue = {})
  /\ phase = "freeing tags" => Loading
  /\ phase # "freeing tags" => Pooling /\ Row /\ TailIs

\* The pools do not notice what happens elsewhere in the zone, ...
LEMMA PoolingStays ==
  ASSUME ThinkType, ZoneInv, Pooling, UNCHANGED <<spNext, poolInfo, extra, pool, objects>>,
         \A v \in {"level", "levspec"} : Held(v)' = Held(v),
         \A b \in Held("level") : size'[b - Header] = size[b - Header]
  PROVE  Pooling'
<1>1. PICK kind : PoolingAs(kind)
  BY DEF Pooling
<1>2. Housed(kind) /\ \A type \in Types : Chained(kind, type)
  BY <1>1 DEF PoolingAs
<1>3. Held("level")' = Held("level") /\ Held("levspec")' = Held("levspec")
  OBVIOUS
<1>4. Housed(kind)'
  BY <1>2, <1>3 DEF Housed
<1>5. ASSUME NEW type \in Types PROVE Chained(kind, type)'
  <2>1. ASSUME NEW b \in Partials(kind, type)
        PROVE  /\ b \in 1 .. ZoneSize /\ b \in Partials(kind, type)'
               /\ spNext'[LinkOf(b, type, extra')] = spNext[LinkOf(b, type, extra)]
    <3>1. b \in 1 .. ZoneSize
      BY <1>2, Places DEF Partials
    <3> QED BY <1>3, <3>1 DEF Partials
  <2> QED BY <1>2, <2>1, ChainKept
<1> QED BY <1>4, <1>5 DEF Pooling, PoolingAs

\* ... and the list not what P_RunThinkers does as long as it stays ahead of
\* what is overdue.
LEMMA RowStays ==
  ASSUME NEW n \in Nat, NEW f \in [1 .. n -> objects], RowIs(n, f),
         UNCHANGED <<spNext, objects>>, First' = First,
         phase' = "running" =>
           \E k \in 0 .. n :
             /\ cursor' = IF k = 0 THEN Cap ELSE f[k]
             /\ \A t \in overdue' : \E j \in k + 1 .. n : f[j] = t
  PROVE  Row'
<1>1. RowIs(n, f)'
  BY DEF RowIs, Strung
<1> QED BY <1>1 DEF Row

LEMMA RowAsItIs ==
  ASSUME Row, TailIs, UNCHANGED <<spNext, objects, tail, phase, cursor, overdue>>
  PROVE  Row' /\ TailIs'
<1>1. PICK n \in Nat : \E f \in [1 .. n -> objects] : RowIs(n, f)
  BY DEF Row
<1>2. PICK f \in [1 .. n -> objects] : RowIs(n, f)
  BY <1>1
<1>3. First' = First
  BY DEF First
<1>4. Row'
  BY <1>2, <1>3, RowStays DEF RowIs
<1> QED BY <1>4 DEF TailIs

\* An empty list, and no memory held for things.
LEMMA StartPooling ==
  ASSUME ThinkType, objects = {}, pool = [type \in Types |-> Nil],
         \A v \in {"level", "levspec"} : Held(v) = {}
  PROVE  Pooling
<1>1. PICK kind : kind = [b \in {} |-> Nil]
  OBVIOUS
<1>2. Held("level") = {} /\ Held("levspec") = {}
  OBVIOUS
<1>3. Housed(kind)
  BY <1>1, <1>2 DEF Housed
<1>4. ASSUME NEW type \in Types PROVE Chained(kind, type)
  <2>1. PICK g : g = [i \in 1 .. 0 |-> Nil]
    OBVIOUS
  <2>2. g \in [1 .. 0 -> Partials(kind, type)] /\ Strung(g, 0, Links(type), pool[type], Nil)
    BY <2>1 DEF Strung
  <2> QED BY <2>2 DEF Chained
<1> QED BY <1>3, <1>4 DEF Pooling, PoolingAs

LEMMA StartRow ==
  ASSUME ThinkType, objects = {}, spNext[Cap] = Cap, tail = Cap, phase = "idle"
  PROVE  Row /\ TailIs
<1>1. PICK f : f = [i \in 1 .. 0 |-> Nil]
  OBVIOUS
<1>2. 0 \in Nat /\ f \in [1 .. 0 -> objects] /\ RowIs(0, f)
  BY <1>1 DEF RowIs, Strung, First
<1> QED BY <1>2 DEF Row, TailIs

LEMMA Initial == Init => ThinkersInv
<1> SUFFICES ASSUME Init PROVE ThinkersInv
  OBVIOUS
<1>1. ZoneInv
  BY ZoneInitial DEF Init
<1>2. ThinkType
  BY ZoneAssumption, PoolAssumption DEF Init, ThinkType, Nil, Cap, Unpooled
<1>3. ASSUME NEW v \in {"level", "levspec"} PROVE Held(v) = {}
  BY ZoneAssumption DEF Init, ZoneInit, Held, Payloads, Addresses, Head
<1>4. Pooling
  BY <1>2, <1>3, StartPooling DEF Init
<1>5. Row /\ TailIs
  BY <1>2, StartRow DEF Init
<1> QED BY <1>1, <1>2, <1>4, <1>5 DEF Init, ThinkersInv

\* P_InitThinkers, when nothing is held any more.
LEMMA Restarted ==
  ASSUME ThinkType, InitThinkers, UNCHANGED <<poolInfo, extra>>,
         \A v \in {"level", "levspec"} : Held(v)' = {}
  PROVE  ThinkType' /\ Pooling' /\ Row' /\ TailIs'
<1>1. ThinkType'
  BY ZoneAssumption DEF InitThinkers, ThinkType, Nil, Cap
<1>2. PICK kind : kind = [b \in {} |-> Nil]
  OBVIOUS
<1>3. Held("level")' = {} /\ Held("levspec")' = {}
  OBVIOUS
<1>4. Housed(kind)'
  BY <1>2, <1>3 DEF Housed, InitThinkers
<1>5. PICK g : g = [i \in 1 .. 0 |-> Nil]
  OBVIOUS
<1>6. ASSUME NEW type \in Types PROVE Chained(kind, type)'
  <2>1. g \in [1 .. 0 -> Partials(kind, type)'] /\ Strung(g, 0, Links(type)', pool'[type], Nil)
    BY <1>5 DEF Strung, InitThinkers
  <2> QED BY <2>1 DEF Chained
<1>7. 0 \in Nat /\ g \in [1 .. 0 -> objects'] /\ RowIs(0, g)'
  BY <1>5 DEF RowIs, Strung, First, InitThinkers, ThinkType
<1> QED BY <1>1, <1>4, <1>6, <1>7 DEF Pooling, PoolingAs, Row, TailIs, InitThinkers, ThinkType

-----------------------------------------------------------------------------
\* P_RunThinkers frees the thing after the one it has come to.
LEMMA RunFrees ==
  ASSUME ThinkersInv, RunRemoves
  PROVE  ThinkersInv' /\ [ZoneNext]_zoneVars
<1> DEFINE t == spNext[cursor]
           sp == [spNext EXCEPT ![cursor] = spNext[t]]
<1>1. /\ ZoneInv /\ ThinkType /\ Pooling /\ Row /\ TailIs /\ panicked = 0 /\ phase = "running"
      /\ phase' = "running" /\ overdue \subseteq removed
  BY DEF ThinkersInv, RunRemoves, Running
<1>2. PICK n \in Nat : \E f \in [1 .. n -> objects] : RowIs(n, f)
  BY <1>1 DEF Row
<1>3. PICK f \in [1 .. n -> objects] : RowIs(n, f)
  BY <1>2
<1>4. cursor \in objects \cup {Cap}
  BY <1>1, <1>3, CursorAt
<1>5. t \in removed /\ t \in objects /\ t \in 1 .. ZoneSize
  BY <1>1 DEF RunRemoves, ThinkType
<1>6. spNext \in [1 .. ZoneSize \cup {Cap} -> 0 .. ZoneSize \cup {Cap}]
  BY <1>1 DEF ThinkType
<1>7. cursor \in 1 .. ZoneSize \cup {Cap} /\ Cap \notin 1 .. ZoneSize /\ objects \subseteq 1 .. ZoneSize
  BY <1>1, <1>4 DEF ThinkType, Cap
<1>8. sp[cursor] = spNext[t] /\ \A x \in 1 .. ZoneSize \cup {Cap} : x # cursor => sp[x] = spNext[x]
  BY <1>6, <1>7
<1>9. Unlinked(sp)
  <2>1. sp \in [1 .. ZoneSize \cup {Cap} -> 0 .. ZoneSize \cup {Cap}]
    BY <1>5, <1>6
  <2> HIDE DEF t, sp
  <2> QED BY <1>4, <1>7, <1>8, <2>1 DEF Unlinked
<1>10. /\ tail' = TailAfter(sp) /\ Z_ThinkFree(t, sp) /\ overdue' = overdue \ {t} /\ cursor' = cursor
  BY DEF RunRemoves, PrevAfter
<1> HIDE DEF sp
<1>11. Freed(t, sp) /\ [ZoneNext]_zoneVars
  <2> HIDE DEF t
  <2> QED BY <1>1, <1>5, <1>9, <1>10, ThingFreed
<1>12. objects' = objects \ {t} /\ removed' = removed \ {t} /\ poolInfo' = poolInfo
  BY <1>10 DEF Z_ThinkFree
<1>13. tail' = IF spNext[t] = Cap THEN cursor ELSE tail
  BY <1>8, <1>10 DEF TailAfter
<1>14. ASSUME NEW x \in objects' \cup {Cap}
       PROVE  spNext'[x] = IF x = cursor THEN spNext[t] ELSE spNext[x]
  BY <1>7, <1>8, <1>11, <1>12 DEF Freed
<1>15. Row' /\ TailIs'
  BY <1>1, <1>5, <1>10, <1>12, <1>13, <1>14, RowShrinks
<1>16. ThinkType'
  <2>1. tail' \in 1 .. ZoneSize \cup {Cap}
    BY <1>1, <1>7, <1>13 DEF ThinkType
  <2> QED BY <1>1, <1>10, <1>11, <1>12, <2>1 DEF ThinkType, Freed
<1>17. ZoneInv'
  BY <1>1, <1>11, ZoneInvKept
<1>18. overdue' \subseteq removed'
  BY <1>1, <1>10, <1>12
<1> QED BY <1>1, <1>11, <1>15, <1>16, <1>17, <1>18 DEF ThinkersInv, Freed

\* P_UnArchiveThinkers frees the thing it has come to.
LEMMA UnArchiveFreed ==
  ASSUME ThinkersInv, UnArchiveFrees
  PROVE  ThinkersInv' /\ [ZoneNext]_zoneVars
<1>1. /\ ZoneInv /\ ThinkType /\ Pooling /\ Row /\ TailIs /\ panicked = 0 /\ phase = "unarchiving"
      /\ overdue = {}
  BY DEF ThinkersInv, UnArchiveFrees
<1>2. /\ cursor # Cap /\ cursor' = spNext[cursor] /\ Z_ThinkFree(cursor, spNext)
      /\ tail' = tail /\ phase' = phase /\ overdue' = overdue
  BY DEF UnArchiveFrees
<1>3. cursor \in objects
  <2>1. PICK n \in Nat : \E f \in [1 .. n -> objects] : RowIs(n, f)
    BY <1>1 DEF Row
  <2>2. PICK f \in [1 .. n -> objects] : RowIs(n, f)
    BY <2>1
  <2> QED BY <1>1, <1>2, <2>2 DEF RowIs, Strung, First
<1>4. Unlinked(spNext)
  BY <1>1 DEF Unlinked, ThinkType
<1>5. Freed(cursor, spNext) /\ [ZoneNext]_zoneVars
  BY <1>1, <1>2, <1>3, <1>4, ThingFreed
<1>6. objects' = objects \ {cursor} /\ removed' = removed \ {cursor} /\ poolInfo' = poolInfo
  BY <1>2 DEF Z_ThinkFree
<1>7. Row' /\ TailIs'
  BY <1>1, <1>2, <1>5, <1>6, RowLosesFirst DEF Freed
<1>8. ThinkType'
  <2>1. cursor' \in 0 .. ZoneSize \cup {Cap}
    BY <1>1, <1>2, <1>3 DEF ThinkType
  <2> QED BY <1>1, <1>2, <1>5, <1>6, <2>1 DEF ThinkType, Freed
<1>9. ZoneInv'
  BY <1>1, <1>5, ZoneInvKept
<1>10. panicked' = 0
  BY <1>1, <1>2 DEF Z_ThinkFree, Z_ThinkFreeUnpooled, Z_ThinkFreeSlot, Z_Free, zoneVars
<1> QED BY <1>1, <1>2, <1>5, <1>7, <1>8, <1>9, <1>10 DEF ThinkersInv, Freed

\* Other blocks come and go between those of the things.
LEMMA StaticTaken ==
  ASSUME ThinkersInv, StaticMalloc
  PROVE  ThinkersInv' /\ [ZoneNext]_zoneVars
<1>1. /\ ZoneInv /\ ThinkType /\ Pooling /\ Row /\ TailIs /\ panicked = 0
      /\ phase \in {"idle", "running"}
  BY DEF ThinkersInv, StaticMalloc, Active
<1>2. UNCHANGED <<spNext, poolInfo, removed, extra, tail, pool, objects, phase, cursor, overdue>>
  BY DEF StaticMalloc, thinkerVars
<1>3. PICK x \in Results : Allocate(x, 1, "static")
  BY DEF StaticMalloc
<1>4. 1 \in Nat \ {0} /\ 1 + Header <= ZoneSize /\ "static" \in Tags \ {"free"}
  BY ZoneAssumption DEF Tags
<1>5. /\ ZoneInv' /\ panicked' = panicked /\ ZoneNext
      /\ \A v \in {"level", "levspec"} :
           /\ Held(v)' = Held(v)
           /\ \A y \in Held(v) : size'[y - Header] = size[y - Header]
  <2>1. /\ ZoneInv' /\ panicked' = panicked /\ (panicked = 0 => ZoneNext)
        /\ \A v \in {"level", "levspec"} :
             /\ Held(v)' = IF v = "static" THEN Held(v) \cup {x} ELSE Held(v)
             /\ \A y \in Held(v) : size'[y - Header] = size[y - Header]
    BY <1>1, <1>3, <1>4, HeldTaken
  <2> QED BY <1>1, <2>1
<1>6. Pooling'
  BY <1>1, <1>2, <1>5, PoolingStays
<1>7. Row' /\ TailIs'
  BY <1>1, <1>2, RowAsItIs
<1>8. ThinkType'
  BY <1>1, <1>2 DEF ThinkType
<1> QED BY <1>1, <1>2, <1>5, <1>6, <1>7, <1>8 DEF ThinkersInv

LEMMA StaticFreed ==
  ASSUME ThinkersInv, StaticFree
  PROVE  ThinkersInv' /\ [ZoneNext]_zoneVars
<1>1. /\ ZoneInv /\ ThinkType /\ Pooling /\ Row /\ TailIs /\ panicked = 0
      /\ phase \in {"idle", "running"}
  BY DEF ThinkersInv, StaticFree, Active
<1>2. UNCHANGED <<spNext, poolInfo, removed, extra, tail, pool, objects, phase, cursor, overdue>>
  BY DEF StaticFree, thinkerVars
<1>3. PICK b \in live : tag[b] = "static" /\ Z_Free(b)
  BY DEF StaticFree, Statics
<1>4. b \in 1 .. ZoneSize /\ b + Header \in 1 .. ZoneSize /\ b = (b + Header) - Header
  BY <1>1, Disjoint, ZoneAssumption
<1>5. ZoneNext
  BY <1>1, <1>3 DEF ZoneNext
<1>6. \A v \in {"level", "levspec"} : b + Header \notin Held(v)
  <2>1. live \subseteq Int
    BY <1>1, Disjoint
  <2> QED BY <1>3, <1>4, <2>1, PayloadIs DEF Held
<1>7. /\ ZoneInv'
      /\ \A v \in {"level", "levspec"} :
           /\ Held(v)' = Held(v)
           /\ \A y \in Held(v) : size'[y - Header] = size[y - Header]
  <2>1. PICK x \in 1 .. ZoneSize : x = b + Header
    BY <1>4
  <2>2. x - Header \in live /\ tag[x - Header] # "free" /\ Z_Free(x - Header)
    BY <1>3, <1>4, <2>1
  <2>3. /\ ZoneInv'
        /\ \A v \in {"level", "levspec"} :
             /\ Held(v)' = Held(v) \ {x}
             /\ \A y \in Held(v) \ {x} : size'[y - Header] = size[y - Header]
    BY <1>1, <2>2, HeldFreed
  <2> QED BY <1>6, <2>1, <2>3
<1>8. Pooling'
  BY <1>1, <1>2, <1>7, PoolingStays
<1>9. Row' /\ TailIs'
  BY <1>1, <1>2, RowAsItIs
<1>10. ThinkType'
  BY <1>1, <1>2 DEF ThinkType
<1> QED BY <1>1, <1>2, <1>5, <1>7, <1>8, <1>9, <1>10 DEF ThinkersInv

\* P_SetupLevel has come to the end of the zone: nothing is held.
LEMMA LoadEnded ==
  ASSUME ThinkersInv, LoadEnds
  PROVE  ThinkersInv' /\ [ZoneNext]_zoneVars
<1>1. ZoneInv /\ ThinkType /\ Loading /\ cursor = Head /\ panicked = 0
  BY DEF ThinkersInv, LoadEnds
<1>2. UNCHANGED zoneVars /\ InitThinkers /\ UNCHANGED <<poolInfo, extra>>
  BY DEF LoadEnds
<1>3. UNCHANGED <<next, prev, size, tag, rover, live, panicked>>
  BY <1>2 DEF zoneVars
<1>4. Ahead = Head
  BY <1>1 DEF Ahead, Ring
<1>5. ASSUME NEW v \in {"level", "levspec"} PROVE Held(v)' = {}
  BY <1>1, <1>3, <1>4 DEF Loading, Held, Payloads
<1>6. ThinkType' /\ Pooling' /\ Row' /\ TailIs'
  BY <1>1, <1>2, <1>5, Restarted
<1>7. ZoneInv'
  BY <1>1, <1>2, ZoneInvKept
<1> QED BY <1>1, <1>2, <1>3, <1>6, <1>7 DEF ThinkersInv, InitThinkers

\* P_UnArchiveThinkers has come back to the cap: every thing has been freed.
LEMMA UnArchiveEnded ==
  ASSUME ThinkersInv, UnArchiveEnds
  PROVE  ThinkersInv' /\ [ZoneNext]_zoneVars
<1>1. /\ ZoneInv /\ ThinkType /\ Pooling /\ Row /\ phase = "unarchiving" /\ cursor = Cap
      /\ panicked = 0
  BY DEF ThinkersInv, UnArchiveEnds
<1>2. UNCHANGED zoneVars /\ InitThinkers /\ UNCHANGED <<poolInfo, extra>>
  BY DEF UnArchiveEnds
<1>3. UNCHANGED <<next, prev, size, tag, rover, live, panicked>>
  BY <1>2 DEF zoneVars
<1>4. objects = {}
  <2>1. PICK n \in Nat : \E f \in [1 .. n -> objects] : RowIs(n, f)
    BY <1>1 DEF Row
  <2>2. PICK f \in [1 .. n -> objects] : RowIs(n, f)
    BY <2>1
  <2>3. Cap \notin objects
    BY <1>1 DEF ThinkType, Cap
  <2>4. n = 0
    BY <1>1, <2>2, <2>3 DEF RowIs, Strung, First
  <2> QED BY <2>2, <2>4 DEF RowIs
<1>5. PICK kind : Housed(kind)
  BY <1>1 DEF Pooling, PoolingAs
<1>6. Held("level") = {}
  <2>1. SUFFICES ASSUME NEW b \in Held("level") PROVE FALSE
    OBVIOUS
  <2>2. b \in 1 .. ZoneSize
    BY <1>1, <1>5, Places
  <2>3. extra[b] \in SUBSET Slots /\ extra[b] # Slots
    BY <1>1, <1>5, <2>2 DEF ThinkType, Housed
  <2>4. PICK s \in Slots \ extra[b] : TRUE
    BY <2>3
  <2> QED BY <1>4, <1>5, <2>4 DEF Housed
<1>7. Held("levspec") = {}
  BY <1>4, <1>5 DEF Housed
<1>8. ASSUME NEW v \in {"level", "levspec"} PROVE Held(v)' = {}
  BY <1>3, <1>6, <1>7 DEF Held, Payloads
<1>9. ThinkType' /\ Pooling' /\ Row' /\ TailIs'
  BY <1>1, <1>2, <1>8, Restarted
<1>10. ZoneInv'
  BY <1>1, <1>2, ZoneInvKept
<1> QED BY <1>1, <1>2, <1>3, <1>9, <1>10 DEF ThinkersInv, InitThinkers

-----------------------------------------------------------------------------
\* Steps that free and allocate nothing.
LEMMA NothingMoves ==
  ASSUME ThinkersInv, UNCHANGED zoneVars, phase # "freeing tags",
         UNCHANGED <<spNext, poolInfo, extra, pool, objects, tail>>
  PROVE  /\ ZoneInv /\ ThinkType /\ Pooling /\ Row /\ TailIs /\ panicked' = panicked
         /\ ZoneInv' /\ Pooling' /\ [ZoneNext]_zoneVars
<1>1. ZoneInv /\ ThinkType /\ Pooling /\ Row /\ TailIs
  BY DEF ThinkersInv
<1>2. UNCHANGED <<next, prev, size, tag, rover, live, panicked>>
  BY DEF zoneVars
<1>3. ASSUME NEW v \in {"level", "levspec"} PROVE Held(v)' = Held(v)
  BY <1>2 DEF Held, Payloads
<1>4. Pooling'
  BY <1>1, <1>2, <1>3, PoolingStays
<1> QED BY <1>1, <1>2, <1>4, ZoneInvKept

\* P_RemoveThinker only marks a thing.
LEMMA RemovalMarks ==
  ASSUME ThinkersInv, NEW t \in objects, RemoveThinker(t)
  PROVE  ThinkersInv' /\ [ZoneNext]_zoneVars
<1>1. /\ phase \in {"idle", "running"} /\ removed' = removed \cup {t}
      /\ UNCHANGED <<spNext, poolInfo, extra, tail, pool, objects, phase, cursor, overdue>>
      /\ UNCHANGED zoneVars
  BY DEF RemoveThinker, Active
<1>2. /\ ZoneInv /\ ThinkType /\ Pooling /\ Row /\ TailIs /\ panicked' = panicked
      /\ ZoneInv' /\ Pooling' /\ [ZoneNext]_zoneVars
  BY <1>1, NothingMoves
<1>3. Row' /\ TailIs'
  BY <1>1, <1>2, RowAsItIs
<1>4. ThinkType'
  BY <1>1, <1>2 DEF ThinkType
<1> QED BY <1>1, <1>2, <1>3, <1>4 DEF ThinkersInv

\* P_RunThinkers begins: whatever has been removed is ahead of it.
LEMMA RunBegun ==
  ASSUME ThinkersInv, RunBegins
  PROVE  ThinkersInv' /\ [ZoneNext]_zoneVars
<1>1. /\ phase = "idle" /\ phase' = "running" /\ cursor' = Cap /\ overdue' = removed
      /\ UNCHANGED <<spNext, poolInfo, removed, extra, tail, pool, objects>>
      /\ UNCHANGED zoneVars
  BY DEF RunBegins, thinkerVars
<1>2. /\ ZoneInv /\ ThinkType /\ Pooling /\ Row /\ TailIs /\ panicked' = panicked
      /\ ZoneInv' /\ Pooling' /\ [ZoneNext]_zoneVars
  BY <1>1, NothingMoves
<1>3. Row'
  <2>1. PICK n \in Nat : \E f \in [1 .. n -> objects] : RowIs(n, f)
    BY <1>2 DEF Row
  <2>2. PICK f \in [1 .. n -> objects] : RowIs(n, f)
    BY <2>1
  <2>3. First' = First
    BY <1>1 DEF First
  <2>4. \A t \in overdue' : \E j \in 0 + 1 .. n : f[j] = t
    BY <1>1, <1>2, <2>2 DEF RowIs, ThinkType
  <2> QED BY <1>1, <2>2, <2>3, <2>4, RowStays
<1>4. TailIs' /\ ThinkType'
  BY <1>1, <1>2 DEF TailIs, ThinkType
<1> QED BY <1>1, <1>2, <1>3, <1>4 DEF ThinkersInv

\* It passes a thing that is not removed, and so not overdue.
LEMMA RunWentOn ==
  ASSUME ThinkersInv, RunThinks
  PROVE  ThinkersInv' /\ [ZoneNext]_zoneVars
<1>1. /\ phase = "running" /\ phase' = phase /\ overdue' = overdue /\ cursor' = spNext[cursor]
      /\ spNext[cursor] # Cap /\ spNext[cursor] \notin removed
      /\ UNCHANGED <<spNext, poolInfo, removed, extra, tail, pool, objects>>
      /\ UNCHANGED zoneVars
  BY DEF RunThinks, Running, thinkerVars
<1>2. /\ ZoneInv /\ ThinkType /\ Pooling /\ Row /\ TailIs /\ panicked' = panicked
      /\ ZoneInv' /\ Pooling' /\ [ZoneNext]_zoneVars /\ overdue \subseteq removed
  BY <1>1, NothingMoves DEF ThinkersInv
<1>3. PICK n \in Nat : \E f \in [1 .. n -> objects] : RowIs(n, f)
  BY <1>2 DEF Row
<1>4. PICK f \in [1 .. n -> objects] : RowIs(n, f)
  BY <1>3
<1>5. PICK k \in 0 .. n :
        /\ cursor = IF k = 0 THEN Cap ELSE f[k]
        /\ \A t \in overdue : \E j \in k + 1 .. n : f[j] = t
        /\ spNext[cursor] = IF k = n THEN Cap ELSE f[k + 1]
  BY <1>1, <1>2, <1>4, CursorAt
<1>6. k + 1 \in 0 .. n /\ k + 1 # 0 /\ k + 1 \in 1 .. n /\ cursor' = f[k + 1]
  BY <1>1, <1>5
<1>7. ASSUME NEW t \in overdue' PROVE \E j \in (k + 1) + 1 .. n : f[j] = t
  <2>1. PICK j \in k + 1 .. n : f[j] = t
    BY <1>1, <1>5
  <2>2. f[k + 1] \notin overdue
    BY <1>1, <1>2, <1>6
  <2>3. j # k + 1
    BY <1>1, <2>1, <2>2
  <2> QED BY <2>1, <2>3
<1>8. Row'
  <2>1. First' = First
    BY <1>1 DEF First
  <2>2. \E i \in 0 .. n :
          /\ cursor' = IF i = 0 THEN Cap ELSE f[i]
          /\ \A t \in overdue' : \E j \in i + 1 .. n : f[j] = t
    BY <1>6, <1>7
  <2> QED BY <1>1, <1>4, <2>1, <2>2, RowStays
<1>9. cursor' \in objects
  BY <1>6
<1>10. TailIs' /\ ThinkType'
  BY <1>1, <1>2, <1>9 DEF TailIs, ThinkType
<1> QED BY <1>1, <1>2, <1>8, <1>10 DEF ThinkersInv

\* It is back at the cap: nothing is overdue.
LEMMA RunEnded ==
  ASSUME ThinkersInv, RunEnds
  PROVE  ThinkersInv' /\ [ZoneNext]_zoneVars /\ overdue = {}
<1>1. /\ phase = "running" /\ phase' = "idle" /\ overdue' = overdue /\ cursor' = Nil
      /\ spNext[cursor] = Cap
      /\ UNCHANGED <<spNext, poolInfo, removed, extra, tail, pool, objects>>
      /\ UNCHANGED zoneVars
  BY DEF RunEnds, Running, thinkerVars
<1>2. /\ ZoneInv /\ ThinkType /\ Pooling /\ Row /\ TailIs /\ panicked' = panicked
      /\ ZoneInv' /\ Pooling' /\ [ZoneNext]_zoneVars /\ overdue \subseteq removed
  BY <1>1, NothingMoves DEF ThinkersInv
<1>3. PICK n \in Nat : \E f \in [1 .. n -> objects] : RowIs(n, f)
  BY <1>2 DEF Row
<1>4. PICK f \in [1 .. n -> objects] : RowIs(n, f)
  BY <1>3
<1>5. PICK k \in 0 .. n :
        /\ cursor = IF k = 0 THEN Cap ELSE f[k]
        /\ \A t \in overdue : \E j \in k + 1 .. n : f[j] = t
        /\ spNext[cursor] = IF k = n THEN Cap ELSE f[k + 1]
  BY <1>1, <1>2, <1>4, CursorAt
<1>6. Cap \notin objects
  BY <1>2 DEF ThinkType, Cap
<1>7. k = n
  <2>1. k # n => k + 1 \in 1 .. n
    OBVIOUS
  <2> QED BY <1>1, <1>5, <1>6, <2>1
<1>8. overdue = {}
  BY <1>5, <1>7
<1>9. Row'
  <2>1. First' = First
    BY <1>1 DEF First
  <2> QED BY <1>1, <1>4, <2>1, RowStays
<1>10. TailIs' /\ ThinkType'
  BY <1>1, <1>2, ZoneAssumption DEF TailIs, ThinkType, Nil
<1> QED BY <1>1, <1>2, <1>8, <1>9, <1>10 DEF ThinkersInv

\* P_SetupLevel begins at the zone's first block.
LEMMA LoadBegun ==
  ASSUME ThinkersInv, LoadBegins
  PROVE  ThinkersInv' /\ [ZoneNext]_zoneVars
<1>1. /\ phase = "idle" /\ phase' = "freeing tags" /\ overdue' = overdue /\ cursor' = next[Head]
      /\ UNCHANGED <<spNext, poolInfo, removed, extra, tail, pool, objects>>
      /\ UNCHANGED zoneVars /\ panicked = 0
  BY DEF LoadBegins, thinkerVars
<1>2. /\ ZoneInv /\ ThinkType /\ panicked' = panicked /\ ZoneInv' /\ [ZoneNext]_zoneVars
      /\ overdue = {}
  BY <1>1, NothingMoves DEF ThinkersInv
<1>3. UNCHANGED <<next, prev, size, tag, rover, live, panicked>>
  BY <1>1 DEF zoneVars
<1>4. /\ cursor' = 1 /\ 1 \in live /\ live \subseteq 1 .. ZoneSize
      /\ 1 \in Addresses /\ 1 \in 0 .. ZoneSize
  <2>1. next[Head] = 1 /\ 1 \in live
    BY <1>2, HeadNeighbours
  <2>2. live \subseteq 1 .. ZoneSize
    BY <1>2, Disjoint
  <2>3. 1 \in 0 .. ZoneSize
    BY ZoneAssumption
  <2> QED BY <1>1, <2>1, <2>2, <2>3 DEF Addresses
<1>5. Ahead' = 1 /\ 1 \in Ring' /\ cursor' \in Ring'
  BY <1>3, <1>4 DEF Ahead, Ring
<1>6. Loading'
  BY <1>3, <1>4, <1>5 DEF Loading, Head
<1>7. ThinkType'
  BY <1>1, <1>2, <1>4 DEF ThinkType
<1> QED BY <1>1, <1>2, <1>6, <1>7 DEF ThinkersInv

\* P_UnArchiveThinkers begins at the first thing.
LEMMA UnArchiveBegun ==
  ASSUME ThinkersInv, UnArchiveBegins
  PROVE  ThinkersInv' /\ [ZoneNext]_zoneVars
<1>1. /\ phase = "idle" /\ phase' = "unarchiving" /\ overdue' = overdue /\ cursor' = spNext[Cap]
      /\ UNCHANGED <<spNext, poolInfo, removed, extra, tail, pool, objects>>
      /\ UNCHANGED zoneVars /\ panicked = 0
  BY DEF UnArchiveBegins, thinkerVars
<1>2. /\ ZoneInv /\ ThinkType /\ Pooling /\ Row /\ TailIs /\ panicked' = panicked
      /\ ZoneInv' /\ Pooling' /\ [ZoneNext]_zoneVars /\ overdue = {}
  BY <1>1, NothingMoves DEF ThinkersInv
<1>3. Row'
  <2>1. PICK n \in Nat : \E f \in [1 .. n -> objects] : RowIs(n, f)
    BY <1>2 DEF Row
  <2>2. PICK f \in [1 .. n -> objects] : RowIs(n, f)
    BY <2>1
  <2>3. First' = First
    BY <1>1 DEF First
  <2> QED BY <1>1, <2>2, <2>3, RowStays
<1>4. TailIs' /\ ThinkType'
  BY <1>1, <1>2 DEF TailIs, ThinkType
<1> QED BY <1>1, <1>2, <1>3, <1>4 DEF ThinkersInv

\* Every step keeps what holds, and is one the zone allows or none of its.
LEMMA NextKeeps ==
  ASSUME ThinkersInv, [Next]_vars
  PROVE  ThinkersInv' /\ [ZoneNext]_zoneVars
<1>1. CASE UNCHANGED vars
  <2>1. /\ UNCHANGED <<spNext, poolInfo, removed, extra, tail, pool, objects>>
        /\ UNCHANGED <<phase, cursor, overdue>> /\ UNCHANGED zoneVars
    BY <1>1 DEF vars, thinkerVars
  <2>2. CASE phase = "freeing tags"
    <3>1. UNCHANGED <<next, prev, size, tag, rover, live, panicked>>
      BY <2>1 DEF zoneVars
    <3>2. ZoneInv' /\ ThinkType' /\ Loading'
      BY <2>1, <2>2, <3>1, ZoneInvKept DEF ThinkersInv, ThinkType, Loading, Ahead, Ring
    <3> QED BY <2>1, <2>2, <3>1, <3>2 DEF ThinkersInv
  <2>3. CASE phase # "freeing tags"
    <3>1. /\ ZoneInv /\ ThinkType /\ Pooling /\ Row /\ TailIs /\ panicked' = panicked
          /\ ZoneInv' /\ Pooling' /\ [ZoneNext]_zoneVars
      BY <2>1, <2>3, NothingMoves
    <3>2. Row' /\ TailIs'
      BY <2>1, <3>1, RowAsItIs
    <3>3. ThinkType'
      BY <2>1, <3>1 DEF ThinkType
    <3> QED BY <2>1, <2>3, <3>1, <3>2, <3>3 DEF ThinkersInv
  <2> QED BY <2>2, <2>3
<1>2. ASSUME NEW type \in Types, SpawnInNewBlock(type)
      PROVE  ThinkersInv' /\ [ZoneNext]_zoneVars
  <2>1. /\ ZoneInv /\ ThinkType /\ Pooling /\ Row /\ TailIs /\ overdue \subseteq removed
        /\ phase \in {"idle", "running"}
    BY <1>2 DEF ThinkersInv, SpawnInNewBlock, Room, Active
  <2>2. Pooling' /\ Row' /\ TailIs' /\ ThinkType' /\ overdue' \subseteq removed' /\ ZoneNext
    BY <1>2, <2>1, BlockSpawned
  <2>3. ZoneInv'
    BY <2>1, <2>2, ZoneInvKept
  <2>4. UNCHANGED <<phase, cursor, overdue>>
    BY <1>2 DEF SpawnInNewBlock
  <2> QED BY <2>1, <2>2, <2>3, <2>4 DEF ThinkersInv
<1>3. ASSUME NEW type \in Types, SpawnInSlot(type)
      PROVE  ThinkersInv' /\ [ZoneNext]_zoneVars
  <2>1. /\ ZoneInv /\ ThinkType /\ Pooling /\ Row /\ TailIs /\ overdue \subseteq removed
        /\ phase \in {"idle", "running"}
    BY <1>3 DEF ThinkersInv, SpawnInSlot, Room, Active
  <2>2. /\ Pooling' /\ Row' /\ TailIs' /\ ThinkType' /\ overdue' \subseteq removed'
        /\ UNCHANGED zoneVars
    BY <1>3, <2>1, SlotSpawned
  <2>3. ZoneInv'
    BY <2>1, <2>2, ZoneInvKept
  <2>4. UNCHANGED <<phase, cursor, overdue>>
    BY <1>3 DEF SpawnInSlot
  <2> QED BY <2>1, <2>2, <2>3, <2>4 DEF ThinkersInv
<1>4. CASE SpawnSpecial
  <2>1. /\ ZoneInv /\ ThinkType /\ Pooling /\ Row /\ TailIs /\ overdue \subseteq removed
        /\ phase \in {"idle", "running"}
    BY <1>4 DEF ThinkersInv, SpawnSpecial, Room, Active
  <2>2. Pooling' /\ Row' /\ TailIs' /\ ThinkType' /\ overdue' \subseteq removed' /\ ZoneNext
    BY <1>4, <2>1, SpecialSpawned
  <2>3. ZoneInv'
    BY <2>1, <2>2, ZoneInvKept
  <2>4. UNCHANGED <<phase, cursor, overdue>>
    BY <1>4 DEF SpawnSpecial
  <2> QED BY <2>1, <2>2, <2>3, <2>4 DEF ThinkersInv
<1>5. CASE LoadFrees
  <2>1. /\ ZoneInv /\ ThinkType /\ Loading /\ panicked = 0 /\ phase = "freeing tags"
        /\ overdue = {}
    BY <1>5 DEF ThinkersInv, LoadFrees
  <2>2. Loading' /\ [ZoneNext]_zoneVars /\ cursor' \in 0 .. ZoneSize
    BY <1>5, <2>1, LoadGoesOn
  <2>3. ZoneInv'
    BY <2>1, <2>2, ZoneInvKept
  <2>4. /\ UNCHANGED <<spNext, poolInfo, removed, extra, tail, pool, objects>>
        /\ UNCHANGED <<phase, overdue>>
    BY <1>5 DEF LoadFrees, thinkerVars
  <2>5. ThinkType'
    BY <2>1, <2>2, <2>4 DEF ThinkType
  <2>6. panicked' = 0
    BY <1>5, <2>1 DEF LoadFrees, Z_Free, zoneVars
  <2> QED BY <2>1, <2>2, <2>3, <2>4, <2>5, <2>6 DEF ThinkersInv
<1>6. CASE OutOfMemory
  <2>1. PICK need : Z_Panic(need) /\ need \in Header + 1 .. 2 * ZoneSize
    <3>1. CASE Room /\ Z_Panic(SpecialSize + Header)
      BY <3>1, ZoneAssumption, PoolAssumption, RequestAssumption
    <3>2. ASSUME NEW type \in Types, Z_Panic(NumSlots * SlotSize[type] + Header)
          PROVE  \E need : Z_Panic(need) /\ need \in Header + 1 .. 2 * ZoneSize
      <4>1. /\ NumSlots * SlotSize[type] \in Nat \ {0}
            /\ NumSlots * SlotSize[type] + Header <= ZoneSize
        BY SlotBounds, RequestAssumption, ZoneAssumption, PoolAssumption
      <4>2. NumSlots * SlotSize[type] + Header \in Header + 1 .. 2 * ZoneSize
        BY <4>1, ZoneAssumption
      <4> QED BY <3>2, <4>2
    <3> QED BY <1>6, <3>1, <3>2 DEF OutOfMemory
  <2>2. /\ phase \in {"idle", "running"} /\ panicked = 0
        /\ UNCHANGED <<spNext, poolInfo, removed, extra, tail, pool, objects>>
        /\ UNCHANGED <<phase, cursor, overdue>>
    BY <1>6 DEF OutOfMemory, Room, Active, thinkerVars
  <2>3. ZoneNext
    BY <2>1, <2>2 DEF ZoneNext
  <2>4. ZoneInv /\ ThinkType /\ Pooling /\ Row /\ TailIs
    BY <2>2 DEF ThinkersInv
  <2>5. ZoneInv'
    BY <2>3, <2>4, ZoneInvKept
  <2>6. UNCHANGED <<next, prev, size, tag, rover, live>>
    BY <2>1 DEF Z_Panic
  <2>7. ASSUME NEW v \in {"level", "levspec"} PROVE Held(v)' = Held(v)
    BY <2>6 DEF Held, Payloads
  <2>8. Pooling'
    BY <2>2, <2>4, <2>6, <2>7, PoolingStays
  <2>9. Row' /\ TailIs'
    BY <2>2, <2>4, RowAsItIs
  <2>10. ThinkType'
    BY <2>2, <2>4 DEF ThinkType
  <2> QED BY <2>2, <2>3, <2>4, <2>5, <2>8, <2>9, <2>10 DEF ThinkersInv
<1>7. CASE \E t \in objects : RemoveThinker(t)
  BY <1>7, RemovalMarks
<1>8. CASE RunBegins \/ RunThinks \/ RunRemoves \/ RunEnds
  BY <1>8, RunBegun, RunWentOn, RunFrees, RunEnded
<1>9. CASE LoadBegins \/ LoadEnds
  BY <1>9, LoadBegun, LoadEnded
<1>10. CASE UnArchiveBegins \/ UnArchiveFrees \/ UnArchiveEnds
  BY <1>10, UnArchiveBegun, UnArchiveFreed, UnArchiveEnded
<1>11. CASE StaticMalloc \/ StaticFree
  BY <1>11, StaticTaken, StaticFreed
<1> QED BY <1>1, <1>2, <1>3, <1>4, <1>5, <1>6, <1>7, <1>8, <1>9, <1>10, <1>11 DEF Next

LEMMA Invariant == Spec => []ThinkersInv
<1>1. ThinkersInv /\ [Next]_vars => ThinkersInv'
  BY NextKeeps
<1> QED BY Initial, <1>1, PTL DEF Spec

-----------------------------------------------------------------------------
\* Following the links from the cap goes through the list.
LEMMA LinkedIs ==
  ASSUME ThinkType, TailIs, phase \in {"idle", "running"}, NEW n \in Nat,
         NEW f \in [1 .. n -> objects], RowIs(n, f)
  PROVE  Cardinality(objects) = n /\ Linked[0] = Cap /\ \A i \in 1 .. n : Linked[i] = f[i]
<1>1. Strung(f, n, spNext, spNext[Cap], Cap) /\ \A t \in objects : \E i \in 1 .. n : f[i] = t
  BY DEF RowIs, First
<1>2. Cardinality(objects) = n
  <2>1. f \in Bijection(1 .. n, objects)
    BY <1>1 DEF Strung, Bijection, Injection, Surjection, IsInjective
  <2>2. IsFiniteSet(1 .. n) /\ Cardinality(1 .. n) = n
    BY FS_Interval
  <2>3. ExistsBijection(1 .. n, objects)
    BY <2>1 DEF ExistsBijection
  <2>4. Cardinality(objects) = Cardinality(1 .. n)
    BY <2>2, <2>3, FS_Bijection
  <2> QED BY <2>2, <2>4
<1> DEFINE W == [i \in 0 .. n |-> IF i = 0 THEN Cap ELSE f[i]]
<1>3. W = [i \in 0 .. n |-> IF i = 0 THEN Cap ELSE spNext[W[i - 1]]]
  <2>1. ASSUME NEW i \in 1 .. n PROVE f[i] = spNext[W[i - 1]]
    <3>1. CASE i = 1
      BY <1>1, <3>1 DEF Strung
    <3>2. CASE i # 1
      <4>1. i - 1 \in 1 .. n /\ i - 1 # n /\ (i - 1) + 1 = i
        BY <3>2
      <4>2. spNext[f[i - 1]] = f[i]
        BY <1>1, <4>1 DEF Strung
      <4> QED BY <4>1, <4>2
    <3> QED BY <3>1, <3>2
  <2> QED BY <2>1
<1> HIDE DEF W
<1>4. Linked = [i \in 0 .. n |-> IF i = 0 THEN Cap ELSE spNext[Linked[i - 1]]]
  BY <1>2, <1>3 DEF Linked
<1> DEFINE Bad == {i \in 1 .. n : Linked[i] # f[i]}
<1>5. ASSUME NEW i \in Bad, \A j \in Bad : i <= j PROVE FALSE
  <2>1. i \in 1 .. n /\ Linked[i] # f[i] /\ i \in 0 .. n
    OBVIOUS
  <2>2. Linked[i] = spNext[Linked[i - 1]] /\ Linked[0] = Cap
    BY <1>4, <2>1
  <2>3. CASE i = 1
    BY <1>1, <2>1, <2>2, <2>3 DEF Strung
  <2>4. CASE i # 1
    <3>1. i - 1 \in 1 .. n /\ i - 1 # n /\ (i - 1) + 1 = i /\ i - 1 \notin Bad
      BY <1>5, <2>1, <2>4
    <3>2. Linked[i - 1] = f[i - 1]
      BY <3>1
    <3>3. spNext[f[i - 1]] = f[i]
      BY <1>1, <3>1 DEF Strung
    <3> QED BY <2>1, <2>2, <3>2, <3>3
  <2> QED BY <2>3, <2>4
<1>6. Bad = {}
  <2>1. Bad \in SUBSET Nat
    OBVIOUS
  <2> HIDE DEF Bad
  <2> QED BY <1>5, <2>1, Least
<1>7. Linked[0] = Cap
  BY <1>4
<1> QED BY <1>2, <1>6, <1>7

LEMMA ListIs == ThinkersInv => ListIntact
<1> SUFFICES ASSUME ThinkersInv, phase \in {"idle", "running"}
             PROVE  LET n == Cardinality(objects)
                    IN /\ {Linked[i] : i \in 1 .. n} = objects
                       /\ Linked[n] = tail /\ spNext[tail] = Cap
                       /\ phase = "running" => cursor \in objects \cup {Cap}
  BY DEF ListIntact, Settled
<1>1. ThinkType /\ Row /\ TailIs
  BY DEF ThinkersInv
<1>2. PICK n \in Nat : \E f \in [1 .. n -> objects] : RowIs(n, f)
  BY <1>1 DEF Row
<1>3. PICK f \in [1 .. n -> objects] : RowIs(n, f)
  BY <1>2
<1>4. Cardinality(objects) = n /\ Linked[0] = Cap /\ \A i \in 1 .. n : Linked[i] = f[i]
  BY <1>1, <1>3, LinkedIs
<1>5. {Linked[i] : i \in 1 .. n} = objects
  <2>1. \A t \in objects : \E i \in 1 .. n : f[i] = t
    BY <1>3 DEF RowIs
  <2> QED BY <1>4, <2>1
<1>6. Linked[n] = tail
  BY <1>1, <1>3, <1>4, TailAt
<1>7. phase = "running" => cursor \in objects \cup {Cap}
  BY <1>1, <1>3, CursorAt
<1> QED BY <1>1, <1>4, <1>5, <1>6, <1>7 DEF TailIs

-----------------------------------------------------------------------------
\* The blocks of a type's things are those that are held for it.
LEMMA BlocksAre ==
  ASSUME ZoneInv, ThinkType, NEW kind, Housed(kind), NEW type \in Types
  PROVE  /\ \A t \in Pooled(type) :
              /\ BlockOf(t) \in Held("level") /\ kind[BlockOf(t)] = type
              /\ poolInfo[t][2] \in Slots \ extra[BlockOf(t)]
         /\ \A b \in Held("level") : kind[b] = type =>
              /\ \A s \in Slots \ extra[b] :
                   \E t \in Pooled(type) : BlockOf(t) = b /\ poolInfo[t][2] = s
              /\ b \in Blocks(type)
<1>1. ASSUME NEW t \in Pooled(type)
      PROVE  /\ BlockOf(t) \in Held("level") /\ kind[BlockOf(t)] = type
             /\ poolInfo[t][2] \in Slots \ extra[BlockOf(t)]
  <2>1. t \in objects /\ poolInfo[t] # Unpooled /\ poolInfo[t][1] = type
    BY DEF Pooled
  <2> QED BY <2>1, ThingPlace DEF BlockOf
<1>2. ASSUME NEW b \in Held("level"), kind[b] = type, NEW s \in Slots \ extra[b]
      PROVE  \E t \in Pooled(type) : BlockOf(t) = b /\ poolInfo[t][2] = s
  <2>1. PICK t : t = Slot(b, s, type)
    OBVIOUS
  <2>2. t \in objects /\ poolInfo[t] = <<type, s>>
    BY <1>2, <2>1 DEF Housed
  <2>3. b \in Int
    BY Places
  <2>4. t - s * SlotSize[type] = b
    BY <2>1, <2>3, SlotBounds
  <2>5. BlockOf(t) = b /\ poolInfo[t][2] = s /\ poolInfo[t][1] = type
    BY <2>2, <2>4 DEF BlockOf
  <2> QED BY <2>2, <2>5 DEF Pooled, Unpooled
<1>3. ASSUME NEW b \in Held("level"), kind[b] = type PROVE b \in Blocks(type)
  <2>1. b \in 1 .. ZoneSize
    BY Places
  <2>2. extra[b] \in SUBSET Slots /\ extra[b] # Slots
    BY <2>1 DEF ThinkType, Housed
  <2>3. PICK s \in Slots \ extra[b] : TRUE
    BY <2>2
  <2>4. PICK t \in Pooled(type) : BlockOf(t) = b
    BY <1>2, <1>3, <2>3
  <2> QED BY <2>4 DEF Blocks
<1> QED BY <1>1, <1>2, <1>3

LEMMA MemoryIs == ThinkersInv => MemoryAgrees
<1> SUFFICES ASSUME ThinkersInv, phase \in {"idle", "running"}
             PROVE  /\ Held("levspec") = {t \in objects : poolInfo[t] = Unpooled}
                    /\ Held("level") = UNION {Blocks(y) : y \in Types}
                    /\ \A type \in Types : \A b \in Blocks(type) :
                         Slots \ extra[b] = {poolInfo[t][2] :
                                               t \in {u \in Pooled(type) : BlockOf(u) = b}}
  BY DEF MemoryAgrees, Settled, Held, Payloads
<1>1. ZoneInv /\ ThinkType /\ Pooling
  BY DEF ThinkersInv
<1>2. PICK kind : Housed(kind)
  BY <1>1 DEF Pooling, PoolingAs
<1>3. Held("levspec") = {t \in objects : poolInfo[t] = Unpooled}
  BY <1>2 DEF Housed
<1>4. ASSUME NEW b \in Held("level") PROVE b \in UNION {Blocks(y) : y \in Types}
  <2>1. kind[b] \in Types
    BY <1>1, <1>2, Places
  <2>2. b \in Blocks(kind[b])
    BY <1>1, <1>2, <2>1, BlocksAre
  <2> QED BY <2>1, <2>2
<1>5. ASSUME NEW type \in Types, NEW b \in Blocks(type)
      PROVE  /\ b \in Held("level") /\ kind[b] = type
             /\ Slots \ extra[b] = {poolInfo[t][2] : t \in {u \in Pooled(type) : BlockOf(u) = b}}
  <2>1. PICK t \in Pooled(type) : BlockOf(t) = b
    BY DEF Blocks
  <2>2. b \in Held("level") /\ kind[b] = type
    BY <1>1, <1>2, <2>1, BlocksAre
  <2>3. ASSUME NEW u \in Pooled(type), BlockOf(u) = b PROVE poolInfo[u][2] \in Slots \ extra[b]
    BY <1>1, <1>2, <2>3, BlocksAre
  <2>4. ASSUME NEW s \in Slots \ extra[b]
        PROVE  \E u \in Pooled(type) : BlockOf(u) = b /\ poolInfo[u][2] = s
    BY <1>1, <1>2, <2>2, BlocksAre
  <2> QED BY <2>2, <2>3, <2>4
<1> QED BY <1>3, <1>4, <1>5

LEMMA ChainsAre == ThinkersInv => ChainSound
<1> SUFFICES ASSUME ThinkersInv, phase \in {"idle", "running"}, NEW type \in Types
             PROVE  LET chain == Chain(pool[type], Nil, type, spNext, extra)
                    IN /\ chain \subseteq {b \in Blocks(type) : extra[b] # {}}
                       /\ chain # {} => \E b \in chain : spNext[LinkOf(b, type, extra)] = Nil
  BY DEF ChainSound, Settled
<1>1. ZoneInv /\ ThinkType /\ Pooling
  BY DEF ThinkersInv
<1>2. PICK kind : PoolingAs(kind)
  BY <1>1 DEF Pooling
<1>3. Housed(kind) /\ Chained(kind, type)
  BY <1>2 DEF PoolingAs
<1>4. PICK m \in Nat : \E g \in [1 .. m -> Partials(kind, type)] :
        Strung(g, m, Links(type), pool[type], Nil)
  BY <1>3 DEF Chained
<1>5. PICK g \in [1 .. m -> Partials(kind, type)] : Strung(g, m, Links(type), pool[type], Nil)
  BY <1>4
<1>6. Cardinality(live) \in Nat /\ m <= Cardinality(live)
  BY <1>1, <1>3, <1>5, ChainLength DEF Strung
<1>7. extra \in [1 .. ZoneSize -> SUBSET Slots]
  BY <1>1 DEF ThinkType
<1>8. ASSUME NEW i \in 1 .. m
      PROVE  /\ g[i] \in Held("level") /\ kind[g[i]] = type /\ extra[g[i]] # {}
             /\ g[i] \in 1 .. ZoneSize /\ g[i] # Nil
             /\ spNext[LinkOf(g[i], type, extra)] = IF i = m THEN Nil ELSE g[i + 1]
  <2>1. /\ g[i] \in Held("level") /\ g[i] \in 1 .. ZoneSize /\ kind[g[i]] = type
        /\ extra[g[i]] # {}
    BY <1>1, <1>3, <1>7, PartialPlaces
  <2>2. Links(type)[g[i]] = IF i = m THEN Nil ELSE g[i + 1]
    BY <1>5 DEF Strung
  <2>3. Links(type)[g[i]] = spNext[LinkOf(g[i], type, extra)]
    BY <2>1 DEF Links
  <2> QED BY <2>1, <2>2, <2>3 DEF Nil
<1>9. Way(g, m, pool[type], Nil, type, spNext, extra)
  <2>1. g \in [1 .. m -> 1 .. ZoneSize]
    BY <1>8
  <2>2. pool[type] = IF m = 0 THEN Nil ELSE g[1]
    BY <1>5 DEF Strung
  <2>3. m # 0 => spNext[LinkOf(g[m], type, extra)] = Nil
    BY <1>8
  <2>4. \A i \in 1 .. m - 1 :
          g[i] # Nil /\ extra[g[i]] # {} /\ spNext[LinkOf(g[i], type, extra)] = g[i + 1]
    <3>1. ASSUME NEW i \in 1 .. m - 1 PROVE i \in 1 .. m /\ i # m
      OBVIOUS
    <3> QED BY <1>8, <3>1
  <2> QED BY <1>7, <2>1, <2>2, <2>3, <2>4 DEF Way
<1>10. Chain(pool[type], Nil, type, spNext, extra) = {g[i] : i \in 1 .. m}
  BY <1>6, <1>9, ChainIs
<1>11. ASSUME NEW i \in 1 .. m PROVE g[i] \in Blocks(type) /\ extra[g[i]] # {}
  BY <1>1, <1>3, <1>8, BlocksAre
<1>12. m # 0 => m \in 1 .. m /\ spNext[LinkOf(g[m], type, extra)] = Nil
  BY <1>8
<1> QED BY <1>10, <1>11, <1>12

-----------------------------------------------------------------------------
\* Whatever the level's things and the game do, the variables stay within what
\* the source can store in them.
THEOREM TypeCorrect == Spec => []TypeOK
<1>1. ThinkersInv => TypeOK
  <2> SUFFICES ASSUME ThinkersInv PROVE TypeOK
    OBVIOUS
  <2>1. ZoneInv /\ ThinkType
    BY DEF ThinkersInv
  <2>2. live \subseteq Addresses \ {Head} /\ rover \in Addresses
    <3>1. live \subseteq 1 .. ZoneSize /\ rover \in Ring
      BY <2>1 DEF ZoneInv, ZoneType, ZoneTiled, Ring
    <3>2. Ring \subseteq Addresses
      BY <2>1, RingAddresses
    <3> QED BY <3>1, <3>2 DEF Addresses, Head
  <2> QED BY <2>1, <2>2 DEF TypeOK, ThinkType, ZoneInv, ZoneType
<1> QED BY Invariant, <1>1, PTL

\* The pools, P_SetupLevel and P_UnArchiveThinkers free only blocks that are
\* allocated, and each of them once: whatever they do to the zone is something
\* Z_Malloc and Z_Free are meant for.
THEOREM UsesZoneCorrect == Spec => UsesZone
<1>1. Init => ZoneInit
  BY DEF Init
<1>2. ThinkersInv /\ [Next]_vars => [ZoneNext]_zoneVars
  BY NextKeeps
<1> QED BY Invariant, <1>1, <1>2, PTL DEF Spec, UsesZone, ZoneSpec

\* So the ring of blocks stays whole under them, and the game stops for want of
\* memory only when no block is large enough.
THEOREM ThinkersZoneTiled == Spec => []ZoneTiled
  BY UsesZoneCorrect, ZoneTiledCorrect, PTL DEF UsesZone

THEOREM ThinkersNoFalsePanic == Spec => []NoFalsePanic
  BY UsesZoneCorrect, NoFalsePanicCorrect, PTL DEF UsesZone

\* The list P_RunThinkers goes through has every thing in use once, and
\* thinkertail is its last, however many there are and whatever is spawned and
\* removed while it is run.
THEOREM ListIntactCorrect == Spec => []ListIntact
  BY Invariant, ListIs, PTL

\* What is in use is allocated, and the other way round; the bit set of a block
\* of slots says which are taken.
THEOREM MemoryAgreesCorrect == Spec => []MemoryAgrees
  BY Invariant, MemoryIs, PTL

\* The chain kept in the free slots leads only to blocks of its type that have
\* a free slot, and ends.
THEOREM ChainSoundCorrect == Spec => []ChainSound
  BY Invariant, ChainsAre, PTL

\* What was removed before P_RunThinkers began has been freed when it ends.
THEOREM LazyRemovalDoneCorrect == Spec => []LazyRemovalDone
<1>1. ThinkersInv => LazyRemovalDone
  BY DEF ThinkersInv, LazyRemovalDone
<1> QED BY Invariant, <1>1, PTL

=============================================================================
