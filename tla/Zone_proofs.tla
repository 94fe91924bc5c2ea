---------------------------- MODULE Zone_proofs ----------------------------
(* The ring of memory blocks stays whole, for a zone of any size, headers    *)
(* and fragments of any length, and any sequence of allocations and frees.   *)
EXTENDS Zone, WellFoundedInduction, FiniteSetTheorems, TLAPS

Ring == live \cup {Head}

ZoneType ==
  /\ next \in [Addresses -> Addresses] /\ prev \in [Addresses -> Addresses]
  /\ size \in [Addresses -> 0 .. ZoneSize] /\ tag \in [Addresses -> Tags]
  /\ live \subseteq 1 .. ZoneSize /\ tag[Head] # "free"

\* Backwards the ring is the same ring: Z_Free reaches the block before by prev.
Backwards == \A b \in Ring : prev[b] \in Ring /\ next[prev[b]] = b

ZoneInv == ZoneType /\ ZoneTiled /\ Backwards

\* Z_Init's one block is a ring with the head.
LEMMA ZoneInitial == ZoneInit => ZoneInv
  BY ZoneAssumption
  DEF ZoneInit, ZoneInv, ZoneType, ZoneTiled, Backwards, Ring, After, Head, Addresses, Tags

\* What is true of a block of the ring and the block it links to.
LEMMA Neighbours ==
  ASSUME ZoneInv, NEW b \in live
  PROVE  /\ b \in 1 .. ZoneSize /\ size[b] \in Int /\ size[b] > Header
         /\ next[b] \in Ring /\ prev[b] \in Ring /\ prev[next[b]] = b /\ next[prev[b]] = b
         /\ next[b] = IF b + size[b] = ZoneSize + 1 THEN Head ELSE b + size[b]
         /\ next[b] # b /\ prev[b] # b
         /\ tag[b] = "free" => tag[next[b]] # "free" /\ tag[prev[b]] # "free"
<1>1. b \in Ring /\ b # Head /\ b \in Addresses
  BY ZoneAssumption DEF ZoneInv, ZoneType, Ring, Head, Addresses
<1>2. /\ next[b] \in Ring /\ prev[b] \in Ring
      /\ prev[next[b]] = b /\ next[prev[b]] = b /\ next[b] = After(b)
  BY <1>1 DEF ZoneInv, ZoneTiled, Backwards, Ring
<1>3. b \in 1 .. ZoneSize /\ size[b] \in Int /\ size[b] > Header
  BY <1>1, ZoneAssumption DEF ZoneInv, ZoneType, ZoneTiled
<1>4. next[b] = IF b + size[b] = ZoneSize + 1 THEN Head ELSE b + size[b]
  BY <1>1, <1>2 DEF After
<1>5. next[b] # b
  BY <1>1, <1>3, <1>4, ZoneAssumption DEF Head
<1>6. prev[b] # b
  BY <1>2, <1>5
<1>7. tag[b] = "free" => tag[next[b]] # "free" /\ tag[prev[b]] # "free"
  BY <1>1, <1>2 DEF ZoneInv, ZoneTiled, Ring
<1> QED
  BY <1>2, <1>3, <1>4, <1>5, <1>6, <1>7

\* What is true of the head: it links to the first block.
LEMMA HeadNeighbours ==
  ASSUME ZoneInv
  PROVE  /\ next[Head] = 1 /\ 1 \in live /\ prev[1] = Head
         /\ prev[Head] \in live /\ next[prev[Head]] = Head
         /\ tag[Head] # "free"
<1>1. next[Head] = 1 /\ next[Head] \in Ring /\ prev[next[Head]] = Head
  BY ZoneAssumption DEF ZoneInv, ZoneTiled, After, Ring, Head
<1>2. prev[Head] \in Ring /\ next[prev[Head]] = Head
  BY DEF ZoneInv, Backwards, Ring
<1>3. prev[Head] # Head
  BY <1>1, <1>2 DEF Head
<1> QED
  BY <1>1, <1>2, <1>3 DEF ZoneInv, ZoneType, Ring, Head

\* Two blocks do not overlap.
LEMMA Apart ==
  ASSUME ZoneInv, NEW b \in live, NEW c \in live, b # c
  PROVE  b + size[b] <= c \/ c + size[c] <= b
  BY ZoneAssumption DEF ZoneInv, ZoneType, ZoneTiled

\* The ring is made of addresses, from 0 to the zone's size.
LEMMA RingAddresses ==
  ASSUME ZoneInv
  PROVE  /\ Ring \subseteq Addresses /\ Addresses = 0 .. ZoneSize /\ Head \in Addresses
         /\ \A b \in Ring : b \in Int /\ b >= 0 /\ b <= ZoneSize
         /\ next \in [Addresses -> Addresses] /\ prev \in [Addresses -> Addresses]
         /\ size \in [Addresses -> 0 .. ZoneSize] /\ tag \in [Addresses -> Tags]
<1>1. live \subseteq 1 .. ZoneSize /\ ZoneSize \in Nat
  BY ZoneAssumption DEF ZoneInv, ZoneType
<1>2. ASSUME NEW b \in Ring PROVE b \in 0 .. ZoneSize /\ b \in Int /\ b >= 0 /\ b <= ZoneSize
  <2>1. CASE b \in live
    BY <1>1, <2>1
  <2>2. CASE b = Head
    BY <1>1, <2>2 DEF Head
  <2> QED
    BY <2>1, <2>2 DEF Ring
<1>3. Addresses = 0 .. ZoneSize /\ Head \in Addresses
  BY <1>1 DEF Addresses, Head
<1>4. Ring \subseteq Addresses
  BY <1>2, <1>3
<1> QED
  BY <1>2, <1>3, <1>4 DEF ZoneInv, ZoneType

\* The block first swallows the blocks that follow it, up to last, which is in
\* use, and is free from then on.
Merges(first, last, gone, total) ==
  /\ first \in live /\ last \in Ring /\ gone \subseteq live /\ total \in 0 .. ZoneSize
  /\ first \notin gone /\ last \notin gone /\ last # first
  /\ total > Header /\ first + total <= ZoneSize + 1
  /\ last = IF first + total = ZoneSize + 1 THEN Head ELSE first + total
  /\ \A b \in live \ gone : first < b => first + total <= b
  /\ \A b \in Ring \ gone : b # first => next[b] \notin gone \cup {last}
  /\ \A b \in Ring \ gone : b # last => prev[b] \notin gone \cup {first}
  /\ tag[prev[first]] # "free" /\ tag[last] # "free"
  /\ next' = [next EXCEPT ![first] = last] /\ size' = [size EXCEPT ![first] = total]
  /\ prev' \in [Addresses -> Addresses]
  /\ \A b \in Ring \ gone : prev'[b] = IF b = last THEN first ELSE prev[b]
  /\ tag' \in [Addresses -> Tags]
  /\ \A b \in Ring \ gone : tag'[b] = IF b = first THEN "free" ELSE tag[b]
  /\ live' = live \ gone /\ rover' = IF rover \in gone THEN first ELSE rover

\* Such a block leaves the ring whole.
LEMMA MergeKeepsRing ==
  ASSUME ZoneInv, NEW first, NEW last, NEW gone, NEW total,
         Merges(first, last, gone, total)
  PROVE  ZoneInv'
<1> USE DEF Merges
<1>1. Ring' = Ring \ gone /\ first \in Ring' /\ last \in Ring' /\ Head \in Ring' /\ first # Head
  BY RingAddresses DEF Ring, ZoneInv, ZoneType, Head
<1>2. first \in Addresses /\ last \in Addresses
  BY RingAddresses DEF Ring
<1>3. ASSUME NEW b \in Ring'
      PROVE  /\ b \in Ring /\ next[b] \in Ring /\ prev[next[b]] = b /\ next[b] = After(b)
             /\ prev[b] \in Ring /\ next[prev[b]] = b
             /\ tag[b] = "free" => tag[next[b]] # "free"
             /\ b \in Addresses /\ b \in Int
             /\ size'[b] = IF b = first THEN total ELSE size[b]
             /\ next'[b] = IF b = first THEN last ELSE next[b]
  <2>1. b \in Ring
    BY <1>1
  <2>2. /\ next[b] \in Ring /\ prev[next[b]] = b /\ next[b] = After(b)
        /\ prev[b] \in Ring /\ next[prev[b]] = b
        /\ tag[b] = "free" => tag[next[b]] # "free"
    BY <2>1 DEF ZoneInv, ZoneTiled, Backwards, Ring
  <2>3. b \in Addresses /\ b \in Int
    BY <2>1, RingAddresses
  <2> QED
    BY <1>2, <2>1, <2>2, <2>3, RingAddresses
<1>4. ZoneType'
  <2>1. live' \subseteq 1 .. ZoneSize
    BY DEF ZoneInv, ZoneType
  <2>2. size' \in [Addresses -> 0 .. ZoneSize] /\ next' \in [Addresses -> Addresses]
    BY <1>2, RingAddresses
  <2>3. tag'[Head] # "free"
    BY <1>1 DEF ZoneInv, ZoneType
  <2> QED
    BY <2>1, <2>2, <2>3 DEF ZoneType
<1>5. ASSUME NEW b \in Ring' PROVE prev'[b] \in Ring' /\ next'[prev'[b]] = b
  <2>1. CASE b = last
    BY <1>1, <1>2, <2>1, RingAddresses
  <2>2. CASE b # last
    <3>1. prev'[b] = prev[b] /\ prev[b] \in Ring /\ next[prev[b]] = b
      BY <1>1, <1>3, <2>2
    <3>2. prev[b] \notin gone /\ prev[b] # first
      BY <1>1, <2>2
    <3> QED
      BY <1>1, <1>3, <3>1, <3>2
  <2> QED
    BY <2>1, <2>2
<1>6. ASSUME NEW b \in Ring'
      PROVE  /\ next'[b] \in Ring' /\ next'[b] = After(b)' /\ prev'[next'[b]] = b
             /\ tag'[b] = "free" => tag'[next'[b]] # "free"
  <2>1. CASE b = first
    <3>1. next'[b] = last /\ size'[b] = total
      BY <1>3, <2>1
    <3>2. After(b)' = last
      BY <1>1, <2>1, <3>1 DEF After
    <3> QED
      BY <1>1, <2>1, <3>1, <3>2
  <2>2. CASE b # first
    <3>1. next'[b] = next[b] /\ size'[b] = size[b] /\ tag'[b] = tag[b] /\ next[b] = After(b)
      BY <1>1, <1>3, <2>2
    <3>2. next[b] \in Ring' /\ next[b] # last
      BY <1>1, <1>3, <2>2
    <3>3. After(b)' = next[b]
      BY <3>1 DEF After
    <3>4. prev'[next[b]] = b
      BY <1>1, <1>3, <3>2
    <3>5. tag'[b] = "free" => tag'[next[b]] # "free"
      BY <1>1, <1>3, <3>1, <3>2
    <3> QED
      BY <3>1, <3>2, <3>3, <3>4, <3>5
  <2> QED
    BY <2>1, <2>2
<1>7. ASSUME NEW b \in live' PROVE size'[b] > Header /\ b + size'[b] <= ZoneSize + 1
  BY <1>1, <1>3 DEF ZoneInv, ZoneTiled, Ring
<1>8. ASSUME NEW b \in live', NEW c \in live', b < c PROVE b + size'[b] <= c
  <2>1. b \in Ring' /\ b \in live /\ c \in live \ gone
    BY DEF Ring
  <2> QED
    BY <1>3, <1>8, <2>1 DEF ZoneInv, ZoneTiled
<1>9. rover' \in Ring'
  BY <1>1 DEF ZoneInv, ZoneTiled, Ring
<1>10. ZoneTiled' /\ Backwards'
  BY <1>5, <1>6, <1>7, <1>8, <1>9 DEF ZoneTiled, Backwards, Ring
<1> QED
  BY <1>4, <1>10 DEF ZoneInv

\* Z_Free leaves the ring whole, whichever of its neighbours are free.
LEMMA FreeKeepsRing ==
  ASSUME ZoneInv, NEW block \in live, tag[block] # "free", Z_Free(block)
  PROVE  ZoneInv'
<1> DEFINE before == prev[block]
           after  == next[block]
           back   == tag[before] = "free"
           ahead  == tag[after] = "free"
           first  == IF back THEN before ELSE block
           last   == IF ahead THEN next[after] ELSE after
           gone   == (IF back THEN {block} ELSE {}) \cup (IF ahead THEN {after} ELSE {})
           total  == Joined(block, back, ahead)
<1>1. /\ block \in 1 .. ZoneSize /\ size[block] \in Int /\ size[block] > Header
      /\ before \in Ring /\ after \in Ring /\ prev[after] = block /\ next[before] = block
      /\ after = IF block + size[block] = ZoneSize + 1 THEN Head ELSE block + size[block]
      /\ after # block /\ before # block /\ block # Head
  BY Neighbours, RingAddresses DEF Head
<1>2. ASSUME back
      PROVE  /\ before \in live /\ before \in 1 .. ZoneSize /\ size[before] \in Int
             /\ size[before] > Header /\ block = before + size[before]
             /\ tag[prev[before]] # "free"
  <2>1. before \in live
    BY <1>1, <1>2, HeadNeighbours DEF Ring
  <2>2. /\ before \in 1 .. ZoneSize /\ size[before] \in Int /\ size[before] > Header
        /\ next[before] = IF before + size[before] = ZoneSize + 1 THEN Head
                                                                  ELSE before + size[before]
        /\ tag[before] = "free" => tag[prev[before]] # "free"
    <3> HIDE DEF before
    <3> QED
      BY <2>1, Neighbours
  <2> QED
    BY <1>1, <1>2, <2>1, <2>2
<1>3. ASSUME ahead
      PROVE  /\ after \in live /\ after \in 1 .. ZoneSize /\ size[after] \in Int
             /\ size[after] > Header /\ after = block + size[block]
             /\ next[after] \in Ring /\ prev[next[after]] = after /\ tag[next[after]] # "free"
             /\ next[after] = IF after + size[after] = ZoneSize + 1 THEN Head
                                                                    ELSE after + size[after]
             /\ next[after] # after
  <2>1. after \in live
    BY <1>1, <1>3, HeadNeighbours DEF Ring
  <2>2. /\ after \in 1 .. ZoneSize /\ size[after] \in Int /\ size[after] > Header
        /\ next[after] \in Ring /\ prev[next[after]] = after
        /\ tag[after] = "free" => tag[next[after]] # "free"
        /\ next[after] = IF after + size[after] = ZoneSize + 1 THEN Head
                                                               ELSE after + size[after]
        /\ next[after] # after
    <3> HIDE DEF after
    <3> QED
      BY <2>1, Neighbours
  <2> QED
    BY <1>1, <1>3, <2>1, <2>2 DEF Head
<1>4. total = (IF back THEN size[before] ELSE 0) + size[block]
                + (IF ahead THEN size[after] ELSE 0)
  BY <1>1, <1>2, <1>3 DEF Joined
<1>5. /\ tag' = [tag EXCEPT ![block] = "free"] /\ size' = [size EXCEPT ![first] = total]
      /\ next' = [next EXCEPT ![first] = last]
      /\ prev' = [prev EXCEPT ![after] = first, ![last] = first]
      /\ rover' = (IF rover \in gone THEN first ELSE rover) /\ live' = live \ gone
  BY Zenon DEF Z_Free, RoverAfter, FreeAhead
<1>6. first \in live /\ last \in Ring /\ gone \in SUBSET live
  BY <1>1, <1>2, <1>3
<1>7. /\ first \notin gone /\ last \notin gone /\ last # first
      /\ last = IF first + total = ZoneSize + 1 THEN Head ELSE first + total
  BY <1>1, <1>2, <1>3, <1>4, ZoneAssumption DEF Head
<1>8. total > Header /\ first + total <= ZoneSize + 1 /\ total \in 0 .. ZoneSize
  BY <1>1, <1>2, <1>3, <1>4, ZoneAssumption DEF ZoneInv, ZoneTiled
<1>9. ASSUME NEW b \in live \ gone, first < b PROVE first + total <= b
  <2>1. b \in Int
    BY RingAddresses DEF Ring
  <2> QED
    BY <1>1, <1>2, <1>3, <1>4, <1>9, <2>1, ZoneAssumption DEF ZoneInv, ZoneTiled
<1>10. ASSUME NEW b \in Ring \ gone
       PROVE  /\ b # first => next[b] \notin gone \cup {last}
              /\ b # last => prev[b] \notin gone \cup {first}
  <2>1. b \in Ring /\ prev[next[b]] = b /\ next[prev[b]] = b
    BY DEF ZoneInv, ZoneTiled, Backwards, Ring
  <2> QED
    BY <1>1, <1>2, <1>3, <2>1
<1>11. tag[prev[first]] # "free" /\ tag[last] # "free"
  BY <1>1, <1>2, <1>3
<1>12. /\ first \in Addresses /\ last \in Addresses /\ after \in Addresses
       /\ block \in Addresses
  BY <1>1, <1>6, RingAddresses DEF Ring
<1>13. prev' \in [Addresses -> Addresses] /\ tag' \in [Addresses -> Tags]
  BY <1>5, <1>12, RingAddresses DEF Tags
<1>14. ASSUME NEW b \in Ring \ gone
       PROVE  /\ prev'[b] = IF b = last THEN first ELSE prev[b]
              /\ tag'[b] = IF b = first THEN "free" ELSE tag[b]
  BY <1>1, <1>5, <1>12, RingAddresses
<1> QED
  <2>1. Merges(first, last, gone, total)
    BY <1>5, <1>6, <1>7, <1>8, <1>9, <1>10, <1>11, <1>13, <1>14 DEF Merges
  <2> HIDE DEF first, last, gone, total
  <2> QED
    BY <2>1, MergeKeepsRing

\* What Z_Malloc takes is free and large enough, ...
LEMMA FirstFitFits ==
  ASSUME NEW block, NEW need, FirstFit(block, need)
  PROVE  tag[block] = "free" /\ size[block] >= need
  BY DEF FirstFit, Found, Fits

\* ... and taking it whole only marks it, ...
LEMMA TakeWhole ==
  ASSUME ZoneInv, NEW block \in live, tag[block] = "free", NEW need \in Int,
         NEW t \in Tags \ {"free"}, Z_Take(block, need, t),
         ~(size[block] - need > MinFragment)
  PROVE  ZoneInv'
<1>1. /\ next' = next /\ prev' = prev /\ size' = size /\ live' = live
      /\ tag' = [tag EXCEPT ![block] = t] /\ rover' = next[block]
  BY DEF Z_Take
<1>2. Ring' = Ring /\ rover' \in Ring'
  BY <1>1, Neighbours DEF Ring
<1>3. ZoneType'
  BY <1>1, RingAddresses DEF ZoneType, ZoneInv
<1>4. Backwards'
  BY <1>1, <1>2 DEF ZoneInv, Backwards
<1>5. ASSUME NEW b \in Ring, tag'[b] = "free" PROVE tag'[next[b]] # "free"
  <2>1. tag[b] = "free" /\ next[b] \in Ring /\ next[b] \in Addresses
    BY <1>1, <1>5, RingAddresses DEF ZoneInv, ZoneTiled, Ring
  <2>2. tag[next[b]] # "free"
    BY <2>1 DEF ZoneInv, ZoneTiled, Ring
  <2> QED
    BY <1>1, <2>1, <2>2, RingAddresses
<1>6. ZoneTiled'
  BY <1>1, <1>2, <1>5 DEF ZoneInv, ZoneTiled, Ring, After
<1> QED
  BY <1>3, <1>4, <1>6 DEF ZoneInv

\* ... while taking a part of it leaves a free block after it.
LEMMA TakePart ==
  ASSUME ZoneInv, NEW block \in live, tag[block] = "free",
         NEW need \in Header + 1 .. ZoneSize, size[block] >= need,
         NEW t \in Tags \ {"free"}, Z_Take(block, need, t),
         size[block] - need > MinFragment
  PROVE  ZoneInv'
<1> DEFINE extra == size[block] - need
           rest  == block + need
<1>1. /\ next' = [next EXCEPT ![rest] = next[block], ![block] = rest]
      /\ prev' = [prev EXCEPT ![rest] = block, ![next[block]] = rest]
      /\ size' = [size EXCEPT ![rest] = extra, ![block] = need]
      /\ tag' = [tag EXCEPT ![rest] = "free", ![block] = t]
      /\ live' = live \cup {rest} /\ rover' = next'[block]
  BY DEF Z_Take
<1>2. /\ block \in 1 .. ZoneSize /\ size[block] \in Int /\ size[block] > Header
      /\ next[block] \in Ring /\ prev[block] \in Ring
      /\ prev[next[block]] = block /\ next[prev[block]] = block
      /\ next[block] = IF block + size[block] = ZoneSize + 1 THEN Head ELSE block + size[block]
      /\ next[block] # block /\ prev[block] # block
      /\ tag[next[block]] # "free" /\ tag[prev[block]] # "free"
  BY Neighbours
<1>3. block + size[block] <= ZoneSize + 1
  BY DEF ZoneInv, ZoneTiled
<1>4. /\ need \in Int /\ need > Header /\ extra \in 0 .. ZoneSize /\ extra > Header
      /\ need \in 0 .. ZoneSize
      /\ rest \in 1 .. ZoneSize /\ block < rest /\ rest < block + size[block]
      /\ rest + extra = block + size[block]
  BY <1>2, <1>3, ZoneAssumption
<1>5. rest \notin Ring
  <2>1. rest \notin live
    BY <1>2, <1>4 DEF ZoneInv, ZoneTiled
  <2> QED
    BY <1>4, <2>1 DEF Ring, Head
<1>6. /\ Ring' = Ring \cup {rest} /\ rest \in Addresses /\ block \in Addresses
      /\ next[block] \in Addresses /\ block \in Ring /\ block # Head
  BY <1>1, <1>2, <1>4, RingAddresses DEF Ring, Head
<1>7. ZoneType'
  <2>1. live' \subseteq 1 .. ZoneSize
    BY <1>1, <1>4 DEF ZoneInv, ZoneType
  <2>2. next' \in [Addresses -> Addresses] /\ prev' \in [Addresses -> Addresses]
    BY <1>1, <1>6, RingAddresses
  <2>3. size' \in [Addresses -> 0 .. ZoneSize]
    BY <1>1, <1>4, <1>6, RingAddresses
  <2>4. tag' \in [Addresses -> Tags] /\ tag'[Head] # "free"
    BY <1>1, <1>4, <1>6, RingAddresses DEF Tags, ZoneInv, ZoneType, Head
  <2> QED
    BY <2>1, <2>2, <2>3, <2>4 DEF ZoneType
<1>8. ASSUME NEW b \in Ring
      PROVE  /\ next[b] \in Ring /\ prev[next[b]] = b /\ next[b] = After(b)
             /\ prev[b] \in Ring /\ next[prev[b]] = b
             /\ tag[b] = "free" => tag[next[b]] # "free"
             /\ b \in Addresses /\ b # rest
             /\ size'[b] = IF b = block THEN need ELSE size[b]
             /\ next'[b] = IF b = block THEN rest ELSE next[b]
             /\ prev'[b] = IF b = next[block] THEN rest ELSE prev[b]
             /\ tag'[b] = IF b = block THEN t ELSE tag[b]
  <2>1. /\ next[b] \in Ring /\ prev[next[b]] = b /\ next[b] = After(b)
        /\ prev[b] \in Ring /\ next[prev[b]] = b
        /\ tag[b] = "free" => tag[next[b]] # "free"
    BY DEF ZoneInv, ZoneTiled, Backwards, Ring
  <2>2. b \in Addresses /\ b # rest
    BY <1>5, RingAddresses
  <2> QED
    BY <1>1, <1>6, <2>1, <2>2, RingAddresses
<1>9. /\ size'[rest] = extra /\ next'[rest] = next[block] /\ prev'[rest] = block
      /\ tag'[rest] = "free"
  BY <1>1, <1>2, <1>4, <1>5, <1>6, RingAddresses
<1>10. ASSUME NEW b \in Ring' PROVE prev'[b] \in Ring' /\ next'[prev'[b]] = b
  <2>1. CASE b = rest
    BY <1>6, <1>8, <1>9, <2>1
  <2>2. CASE b \in Ring /\ b = next[block]
    BY <1>6, <1>8, <1>9, <2>2
  <2>3. CASE b \in Ring /\ b # next[block]
    <3>1. prev'[b] = prev[b] /\ prev[b] \in Ring /\ next[prev[b]] = b
      BY <1>8, <2>3
    <3>2. prev[b] # block
      BY <2>3, <3>1
    <3> QED
      BY <1>6, <1>8, <3>1, <3>2
  <2> QED
    BY <1>6, <2>1, <2>2, <2>3
<1>11. ASSUME NEW b \in Ring'
       PROVE  /\ next'[b] \in Ring' /\ next'[b] = After(b)' /\ prev'[next'[b]] = b
              /\ tag'[b] = "free" => tag'[next'[b]] # "free"
  <2>1. CASE b = rest
    <3>1. After(b)' = next[block]
      BY <1>2, <1>4, <1>9, <2>1 DEF After, Head
    <3> QED
      BY <1>2, <1>6, <1>8, <1>9, <2>1, <3>1
  <2>2. CASE b = block
    <3>1. After(b)' = rest
      BY <1>2, <1>4, <1>6, <1>8, <2>2, ZoneAssumption DEF After
    <3> QED
      BY <1>2, <1>6, <1>8, <1>9, <2>2, <3>1
  <2>3. CASE b # rest /\ b # block
    <3>1. b \in Ring /\ next'[b] = next[b] /\ size'[b] = size[b] /\ tag'[b] = tag[b]
      BY <1>6, <1>8, <2>3
    <3>2. After(b)' = next[b]
      BY <1>8, <3>1 DEF After
    <3>3. next[b] # next[block]
      BY <1>2, <1>8, <2>3, <3>1
    <3>4. prev'[next[b]] = b /\ next[b] \in Ring
      BY <1>8, <3>1, <3>3
    <3>5. tag'[next[b]] = "free" => tag[next[b]] = "free"
      BY <1>8, <3>4
    <3>6. tag[b] = "free" => tag[next[b]] # "free"
      BY <1>8, <3>1
    <3> QED
      BY <1>6, <3>1, <3>2, <3>4, <3>5, <3>6
  <2> QED
    BY <2>1, <2>2, <2>3
<1>12. ASSUME NEW b \in live' PROVE size'[b] > Header /\ b + size'[b] <= ZoneSize + 1
  <2>1. CASE b = rest
    BY <1>3, <1>4, <1>9, <2>1
  <2>2. CASE b \in live
    <3>1. b \in Ring /\ size'[b] = IF b = block THEN need ELSE size[b]
      BY <1>8, <2>2 DEF Ring
    <3>2. size[b] > Header /\ b + size[b] <= ZoneSize + 1
      BY <2>2 DEF ZoneInv, ZoneTiled
    <3>3. block + need <= ZoneSize + 1
      BY <1>2, <1>4, ZoneAssumption
    <3> QED
      BY <1>4, <3>1, <3>2, <3>3
  <2> QED
    BY <1>1, <2>1, <2>2
<1>13. ASSUME NEW b \in live', NEW c \in live', b < c PROVE b + size'[b] <= c
  <2>1. /\ b # rest => b \in live /\ b \in Ring
        /\ c # rest => c \in live
        /\ b \in Int /\ c \in Int
    BY <1>1, <1>4, RingAddresses DEF Ring
  <2>2. CASE b = rest
    BY <1>2, <1>4, <1>9, <1>13, <2>1, <2>2 DEF ZoneInv, ZoneTiled
  <2>3. CASE b = block
    BY <1>2, <1>4, <1>6, <1>8, <1>13, <2>1, <2>3 DEF ZoneInv, ZoneTiled
  <2>4. CASE b # rest /\ b # block
    <3>1. b \in live /\ b \in Ring /\ size'[b] = size[b] /\ size[b] \in Int
      BY <1>8, <2>1, <2>4, Neighbours
    <3>2. b + size[b] <= block \/ block + size[block] <= b
      BY <2>4, <3>1, Apart
    <3>3. CASE c = rest
      BY <1>2, <1>4, <1>13, <2>1, <3>1, <3>2, <3>3
    <3>4. CASE c # rest
      BY <1>13, <2>1, <3>1, <3>4 DEF ZoneInv, ZoneTiled
    <3> QED
      BY <3>3, <3>4
  <2> QED
    BY <2>2, <2>3, <2>4
<1>14. rover' \in Ring'
  <2>1. next'[block] = rest
    BY <1>6, <1>8
  <2> QED
    BY <1>1, <1>6, <2>1
<1>15. ZoneTiled' /\ Backwards'
  BY <1>10, <1>11, <1>12, <1>13, <1>14 DEF ZoneTiled, Backwards, Ring
<1> QED
  BY <1>7, <1>15 DEF ZoneInv

\* Whatever is allocated and freed leaves the ring whole.
LEMMA ZoneInvKept ==
  ASSUME ZoneInv, [ZoneNext]_zoneVars
  PROVE  ZoneInv'
<1>1. ASSUME NEW block \in live, tag[block] # "free", Z_Free(block) PROVE ZoneInv'
  BY <1>1, FreeKeepsRing
<1>2. ASSUME NEW block \in live, NEW need \in Header + 1 .. ZoneSize,
             NEW t \in Tags \ {"free"}, FirstFit(block, need), Z_Take(block, need, t)
      PROVE  ZoneInv'
  <2>1. need \in Int /\ tag[block] = "free" /\ size[block] >= need
    BY <1>2, FirstFitFits, ZoneAssumption
  <2> QED
    BY <1>2, <2>1, TakeWhole, TakePart
<1>3. ASSUME NEW need, Z_Panic(need) PROVE ZoneInv'
  BY <1>3 DEF Z_Panic, ZoneInv, ZoneType, ZoneTiled, Backwards, Ring, After
<1>4. CASE UNCHANGED zoneVars
  BY <1>4 DEF zoneVars, ZoneInv, ZoneType, ZoneTiled, Backwards, Ring, After
<1> QED
  BY <1>1, <1>2, <1>3, <1>4 DEF ZoneNext

\* The ring of blocks is whole in every state, whatever is allocated and freed.
THEOREM ZoneTiledCorrect == ZoneSpec => []ZoneTiled
<1>1. ZoneInv /\ [ZoneNext]_zoneVars => ZoneInv'
  BY ZoneInvKept
<1>2. ZoneInv => ZoneTiled
  BY DEF ZoneInv
<1> QED
  BY <1>1, <1>2, ZoneInitial, PTL DEF ZoneSpec

-----------------------------------------------------------------------------
\* Z_Malloc's search.

\* A set of natural numbers that is not empty has a least element: induction,
\* here and below, is the absence of a least exception.
LEMMA Least ==
  ASSUME NEW T \in SUBSET Nat, T # {}
  PROVE  \E n \in T : \A k \in T : n <= k
<1> DEFINE R == OpToRel(<, Nat)
<1>1. IsWellFoundedOn(R, Nat)
  BY NatLessThanWellFounded
<1>2. \A p \in Nat \X Nat : p \in R <=> p[1] < p[2]
  BY DEF OpToRel
<1> HIDE DEF R
<1>3. PICK n \in T : \A k \in T : ~(<<k, n>> \in R)
  BY <1>1, WFMin
<1>4. ASSUME NEW k \in T PROVE n <= k
  <2>1. <<k, n>> \in Nat \X Nat /\ <<k, n>>[1] = k /\ <<k, n>>[2] = n
    OBVIOUS
  <2>2. <<k, n>> \in R <=> k < n
    BY <1>2, <2>1
  <2> QED
    BY <1>3, <2>2
<1> QED
  BY <1>3, <1>4

\* The values of f, f of f and so on, from x.
Repeats(g, f, x, N) == \A n \in 0 .. N : g[n] = IF n = 0 THEN x ELSE f[g[n - 1]]

\* A function can be applied any number of times in a row.
LEMMA Iterates ==
  ASSUME NEW X, NEW f \in [X -> X], NEW x \in X, NEW N \in Nat
  PROVE  \E g \in [0 .. N -> X] : Repeats(g, f, x, N)
<1> DEFINE Is(g, k) == \A n \in 0 .. k : g[n] = IF n = 0 THEN x ELSE f[g[n - 1]]
           Bad == {k \in Nat : ~\E g \in [0 .. k -> X] : Is(g, k)}
<1>1. 0 \notin Bad
  <2> DEFINE h == [n \in 0 .. 0 |-> x]
  <2>1. h \in [0 .. 0 -> X] /\ Is(h, 0)
    OBVIOUS
  <2> HIDE DEF h, Is
  <2> QED
    BY <2>1
<1>2. ASSUME NEW k \in Bad, \A j \in Bad : k <= j PROVE FALSE
  <2>1. k \in Nat \ {0} /\ k - 1 \in Nat /\ k - 1 \notin Bad
    <3>1. Bad \subseteq Nat
      OBVIOUS
    <3> HIDE DEF Bad
    <3> QED
      BY <1>1, <1>2, <3>1
  <2>2. PICK g \in [0 .. k - 1 -> X] : Is(g, k - 1)
    BY <2>1
  <2> DEFINE h == [n \in 0 .. k |-> IF n = k THEN f[g[k - 1]] ELSE g[n]]
  <2>3. h \in [0 .. k -> X]
    BY <2>1
  <2>4. ASSUME NEW n \in 0 .. k PROVE h[n] = IF n = 0 THEN x ELSE f[h[n - 1]]
    <3>1. CASE n = k
      BY <2>1, <3>1
    <3>2. CASE n # k
      <4>1. n \in 0 .. k - 1 /\ (n # 0 => n - 1 \in 0 .. k - 1)
        BY <2>1, <3>2
      <4> QED
        BY <2>1, <2>2, <3>2, <4>1
    <3> QED
      BY <3>1, <3>2
  <2>5. Is(h, k)
    BY <2>4
  <2> HIDE DEF h, Is
  <2> QED
    BY <1>2, <2>3, <2>5
<1> HIDE DEF Is
<1>3. Bad = {}
  BY <1>2, Least
<1>4. PICK g \in [0 .. N -> X] : Is(g, N)
  BY <1>3
<1> QED
  BY <1>4 DEF Is, Repeats

\* Who follows the links from block to block comes everywhere.
LEMMA LinksReachAll ==
  ASSUME ZoneInv, NEW V \in SUBSET Ring, V # {}, \A v \in V : next[v] \in V
  PROVE  V = Ring
<1>1. \A b \in Ring : b \in Int /\ b >= 0 /\ b <= ZoneSize
  BY RingAddresses
<1>2. Head \in V
  <2> SUFFICES ASSUME Head \notin V PROVE FALSE
    OBVIOUS
  <2> DEFINE T == {ZoneSize - v : v \in V}
  <2>1. T \in SUBSET Nat /\ T # {}
    BY <1>1, ZoneAssumption
  <2>2. PICK d \in T : \A e \in T : d <= e
    BY <2>1, Least
  <2>3. PICK v \in V : d = ZoneSize - v
    BY <2>2
  <2>4. \A w \in V : w <= v
    <3>1. ASSUME NEW w \in V PROVE w <= v
      <4>1. ZoneSize - w \in T
        OBVIOUS
      <4> HIDE DEF T
      <4> QED
        BY <1>1, <2>2, <2>3, <4>1, ZoneAssumption
    <3> QED
      BY <3>1
  <2>5. v \in live /\ next[v] \in V /\ next[v] # Head
    BY DEF Ring
  <2>6. next[v] = v + size[v] /\ size[v] \in Int /\ size[v] > 0
    BY <2>5, Neighbours, ZoneAssumption
  <2> QED
    BY <1>1, <2>4, <2>5, <2>6
<1>3. ASSUME NEW b \in Ring \ V PROVE FALSE
  <2>1. Ring \ V \in SUBSET Nat /\ Ring \ V # {}
    BY <1>1, <1>3
  <2>2. PICK w \in Ring \ V : \A c \in Ring \ V : w <= c
    BY <2>1, Least
  <2>3. w # Head /\ prev[w] \in Ring /\ next[prev[w]] = w
    BY <1>2, <2>2 DEF ZoneInv, Backwards
  <2>4. prev[w] \notin V
    BY <2>2, <2>3
  <2>5. prev[w] \in live
    BY <1>2, <2>3, <2>4 DEF Ring
  <2>6. w = prev[w] + size[prev[w]] /\ size[prev[w]] \in Int /\ size[prev[w]] > 0
    BY <2>3, <2>5, Neighbours, ZoneAssumption
  <2> QED
    BY <1>1, <2>2, <2>3, <2>4, <2>6
<1> QED
  BY <1>3

\* The zone has finitely many blocks, and the head is one more.
LEMMA RingSize ==
  ASSUME ZoneInv
  PROVE  /\ IsFiniteSet(live) /\ Cardinality(live) \in Nat
         /\ IsFiniteSet(Ring) /\ Cardinality(Ring) = Cardinality(live) + 1
<1>1. IsFiniteSet(live)
  <2>1. ZoneSize \in Int /\ 1 \in Int /\ live \in SUBSET (1 .. ZoneSize)
    BY ZoneAssumption DEF ZoneInv, ZoneType
  <2>2. IsFiniteSet(1 .. ZoneSize)
    BY <2>1, FS_Interval
  <2> QED
    BY <2>1, <2>2, FS_Subset
<1>2. Head \notin live
  BY ZoneAssumption DEF ZoneInv, ZoneType, Head
<1> QED
  BY <1>1, <1>2, FS_AddElement, FS_CardinalityType DEF Ring

\* The search begins at a block of the ring.
LEMMA BaseIs == ZoneInv => Base \in Ring
  BY DEF ZoneInv, ZoneTiled, Backwards, Base, Ring

\* Nth follows the links.
LEMMA NthIs ==
  ASSUME ZoneInv
  PROVE  /\ Nth \in [0 .. Cardinality(live) -> Ring] /\ Nth[0] = Base
         /\ \A i \in 1 .. Cardinality(live) : Nth[i] = next[Nth[i - 1]]
<1> DEFINE N == Cardinality(live)
           f == [b \in Ring |-> next[b]]
<1>1. N \in Nat /\ Base \in Ring /\ f \in [Ring -> Ring]
  BY RingSize, BaseIs DEF ZoneInv, ZoneTiled, Ring
<1>2. PICK g \in [0 .. N -> Ring] : Repeats(g, f, Base, N)
  <2> HIDE DEF f, N
  <2> QED
    BY <1>1, Iterates
<1>3. ASSUME NEW i \in 0 .. N PROVE g[i] = IF i = 0 THEN Base ELSE next[g[i - 1]]
  <2>1. i # 0 => i - 1 \in 0 .. N
    BY <1>1
  <2> QED
    BY <1>2, <2>1 DEF Repeats
<1>4. g = [i \in 0 .. N |-> IF i = 0 THEN Base ELSE next[g[i - 1]]]
  BY <1>3
<1>5. Nth = [i \in 0 .. N |-> IF i = 0 THEN Base ELSE next[Nth[i - 1]]]
  BY <1>4 DEF Nth
<1> HIDE DEF f, N
<1> DEFINE Bad == {i \in 0 .. N : Nth[i] \notin Ring}
<1>6. ASSUME NEW i \in Bad, \A k \in Bad : i <= k PROVE FALSE
  <2>1. i \in 0 .. N /\ Nth[i] \notin Ring /\ i # 0
    BY <1>1, <1>5, <1>6
  <2>2. i - 1 \in 0 .. N /\ i - 1 \notin Bad
    BY <1>1, <1>6, <2>1
  <2>3. Nth[i - 1] \in Ring
    BY <2>2
  <2>4. Nth[i] = next[Nth[i - 1]]
    BY <1>5, <2>1
  <2> QED
    BY <2>1, <2>3, <2>4 DEF ZoneInv, ZoneTiled, Ring
<1>7. Bad \in SUBSET Nat
  BY <1>1
<1>8. Bad = {}
  BY <1>6, <1>7, Least
<1>9. ASSUME NEW i \in 1 .. N PROVE Nth[i] = next[Nth[i - 1]]
  BY <1>1, <1>5
<1>10. Nth[0] = Base
  BY <1>1, <1>5
<1> QED
  BY <1>5, <1>8, <1>9, <1>10 DEF N

\* In as many steps as there are blocks the search comes to every one of them.
LEMMA SearchIsWhole ==
  ASSUME ZoneInv, NEW b \in Ring
  PROVE  \E i \in 0 .. Cardinality(live) : Nth[i] = b
<1> DEFINE N == Cardinality(live)
<1>1. N \in Nat /\ IsFiniteSet(Ring) /\ Cardinality(Ring) = N + 1
  BY RingSize
<1>2. Nth \in [0 .. N -> Ring] /\ \A i \in 1 .. N : Nth[i] = next[Nth[i - 1]]
  BY NthIs
<1> HIDE DEF N
<1>3. ASSUME NEW i \in 0 .. N, NEW j \in 0 .. N, i < j, Nth[i] = Nth[j] PROVE FALSE
  <2> DEFINE V == {Nth[k] : k \in 0 .. j - 1}
             h == [k \in 0 .. j - 1 |-> Nth[k]]
  <2>1. V \in SUBSET Ring /\ V # {} /\ 0 .. j - 1 \subseteq 0 .. N
    BY <1>1, <1>2, <1>3
  <2>2. ASSUME NEW k \in 0 .. j - 1 PROVE next[Nth[k]] \in V
    <3>1. k + 1 \in 1 .. N /\ next[Nth[k]] = Nth[k + 1]
      BY <1>1, <1>2
    <3>2. k + 1 \in 0 .. j - 1 \/ k + 1 = j
      BY <1>1
    <3> QED
      BY <1>1, <1>3, <3>1, <3>2
  <2>3. V = Ring
    <3>1. \A v \in V : next[v] \in V
      BY <2>2
    <3> HIDE DEF V
    <3> QED
      BY <2>1, <3>1, LinksReachAll
  <2>4. h \in Surjection(0 .. j - 1, V)
    BY DEF Surjection
  <2>5. IsFiniteSet(0 .. j - 1) /\ Cardinality(0 .. j - 1) = j
    <3>1. 0 \in Int /\ j - 1 \in Int /\ ~(0 > j - 1) /\ j - 1 - 0 + 1 = j
      BY <1>1, <1>3
    <3> QED
      BY <3>1, FS_Interval
  <2>6. Cardinality(V) <= j
    <3> HIDE DEF V, h
    <3> QED
      BY <2>4, <2>5, FS_Surjection
  <2> HIDE DEF V
  <2> QED
    BY <1>1, <2>3, <2>6
<1>4. Nth \in Injection(0 .. N, Ring)
  <2>1. ASSUME NEW i \in 0 .. N, NEW j \in 0 .. N, Nth[i] = Nth[j] PROVE i = j
    <3>1. i < j \/ j < i \/ i = j
      BY <1>1
    <3> QED
      BY <1>3, <2>1, <3>1
  <2> QED
    BY <1>2, <2>1 DEF Injection, IsInjective
<1>5. Cardinality(0 .. N) = N + 1
  BY <1>1, FS_Interval
<1>6. Nth \in Surjection(0 .. N, Ring)
  BY <1>1, <1>4, <1>5, FS_Injection
<1>7. PICK i \in 0 .. N : Nth[i] = b
  BY <1>6 DEF Surjection
<1> QED
  BY <1>7 DEF N

\* No free block follows a free one, so it looks at every free block.
LEMMA LooksAtFree ==
  ASSUME ZoneInv, NEW i \in 0 .. Cardinality(live), tag[Nth[i]] = "free"
  PROVE  LooksAt(i)
<1>1. CASE i = 0
  BY <1>1 DEF LooksAt
<1>2. CASE i # 0
  <2>1. Cardinality(live) \in Nat
    BY RingSize
  <2>2. i \in 1 .. Cardinality(live) /\ i - 1 \in 0 .. Cardinality(live)
    BY <1>2, <2>1
  <2>3. Nth[i - 1] \in Ring /\ Nth[i] = next[Nth[i - 1]]
    BY <2>2, NthIs
  <2>4. tag[Nth[i - 1]] # "free"
    BY <2>3 DEF ZoneInv, ZoneTiled, Ring
  <2> QED
    BY <2>4 DEF LooksAt
<1> QED
  BY <1>1, <1>2

\* The search gives up only when no block is large enough.
THEOREM NoFalsePanicCorrect == ZoneSpec => []NoFalsePanic
<1>1. ZoneInit => ZoneInv /\ NoFalsePanic
  BY ZoneInitial DEF ZoneInit, NoFalsePanic
<1>2. ZoneInv /\ NoFalsePanic /\ [ZoneNext]_zoneVars => ZoneInv' /\ NoFalsePanic'
  <2> SUFFICES ASSUME ZoneInv, NoFalsePanic, [ZoneNext]_zoneVars PROVE NoFalsePanic'
    BY ZoneInvKept
  <2>1. ASSUME NEW need, Z_Panic(need) PROVE NoFalsePanic'
    <3>1. ASSUME NEW b \in live PROVE ~Fits(b, need)
      <4>1. PICK i \in 0 .. Cardinality(live) : Nth[i] = b
        BY SearchIsWhole DEF Ring
      <4>2. i \in 0 .. (Cardinality(live) + 1) - 1
        BY RingSize
      <4>3. ~Found(i, need)
        BY <2>1, <4>2 DEF Z_Panic, PassedOver
      <4>4. tag[b] = "free" => LooksAt(i)
        BY <4>1, LooksAtFree
      <4> QED
        BY <4>1, <4>3, <4>4 DEF Found, Fits
    <3> QED
      BY <2>1, <3>1 DEF Z_Panic, NoFalsePanic, Fits
  <2>2. CASE UNCHANGED panicked /\ panicked = 0
    BY <2>2 DEF NoFalsePanic
  <2>3. CASE UNCHANGED zoneVars
    BY <2>3 DEF NoFalsePanic, zoneVars, Fits
  <2> QED
    BY <2>1, <2>2, <2>3 DEF ZoneNext, Z_Free, Z_Take
<1> QED
  BY <1>1, <1>2, PTL DEF ZoneSpec

============================================================================
