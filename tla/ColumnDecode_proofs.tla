------------------------ MODULE ColumnDecode_proofs ------------------------
(* Proofs about ColumnDecode: the pointer a decode returns shows what was    *)
(* asked for, for every hash function, capacity, set of columns and flats.   *)
EXTENDS ColumnDecode, TLAPS, FiniteSetTheorems, WellFoundedInduction

USE DEF Slots, TSlots, Content

(* Every non-empty set of naturals has a least element: the intervals 0 .. m *)
(* are finite sets, which inclusion orders well.                             *)
LEMMA LeastNatural ==
  ASSUME NEW S \in SUBSET Nat, S # {}
  PROVE  \E m \in S : \A n \in S : m <= n
<1>. DEFINE T == {0 .. m : m \in S}
<1>1. T \subseteq FiniteSubsetsOf(Nat) /\ T # {}
  <2>1. \A m \in Nat : IsFiniteSet(0 .. m)
    BY FS_Interval
  <2>2. \A m \in Nat : 0 .. m \in SUBSET Nat
    OBVIOUS
  <2>3. \A m \in Nat : 0 .. m \in FiniteSubsetsOf(Nat)
    BY <2>1, <2>2 DEF FiniteSubsetsOf
  <2>. QED BY <2>3
<1>2. PICK x \in T : \A y \in T : ~ (<<y, x>> \in StrictSubsetOrdering(Nat))
  BY <1>1, FS_StrictSubsetOrderingWellFounded, WFMin
<1>3. PICK m \in S : x = 0 .. m
  BY DEF T
<1>4. ASSUME NEW n \in S, n < m PROVE FALSE
  <2>1. 0 .. n \in T
    OBVIOUS
  <2>2. 0 .. n \subseteq 0 .. m /\ m \in 0 .. m /\ m \notin 0 .. n
    BY <1>4
  <2>3. <<0 .. n, 0 .. m>> \in StrictSubsetOrdering(Nat)
    BY <2>2 DEF StrictSubsetOrdering
  <2>. QED BY <1>2, <1>3, <2>1, <2>3
<1>. QED BY <1>4

(* What DoomColumnCache_Find returns: no slot, or one that holds the key.    *)
LEMMA FoundSlotHoldsKey ==
  ASSUME NEW k
  PROVE  FoundSlot(k) # 0 => FoundSlot(k) \in Slots /\ key[FoundSlot(k)] = k
<1>. DEFINE c == Chain(hash[k])
            At(i) == c[i] \in Slots /\ key[c[i]] = k
            Hits == {i \in Slots : At(i)}
<1>1. CASE Hits = {}
  BY <1>1 DEF FoundSlot
<1>2. CASE Hits # {}
  <2>0. Hits \in SUBSET Nat
    BY CapacityAssumption
  <2>1. PICK i \in Hits : \A j \in Hits : i <= j
    <3>. HIDE DEF Hits
    <3>. QED BY <1>2, <2>0, LeastNatural
  <2>2. At(i) /\ \A j \in 1 .. i - 1 : ~At(j)
    BY <2>1, CapacityAssumption
  <2>. DEFINE m == CHOOSE x \in Slots : At(x) /\ \A j \in 1 .. x - 1 : ~At(j)
  <2>3. m \in Slots /\ At(m)
    BY <2>1, <2>2
  <2>4. FoundSlot(k) = c[m]
    BY <1>2 DEF FoundSlot
  <2>. QED BY <2>3, <2>4
<1>. QED BY <1>1, <1>2

-----------------------------------------------------------------------------
(* The invariant.  Beside the coherence of the caches it says which columns  *)
(* can be where: the index holds none that is too high for it and the tall   *)
(* cache no other, so no column is in both.                                  *)

CachesType ==
  /\ key \in [Slots -> Keys \cup {None}]
  /\ pixels \in [Slots -> Keys \cup {None}]
  /\ asked \in Keys \cup {None}
  /\ tallValid \in [TSlots -> BOOLEAN]
  /\ tallKey \in [TSlots -> Keys \cup {None}]
  /\ area \in [TSlots -> Content]
  /\ flat \in Flats \cup {None}

ByHeight ==
  /\ \A s \in Slots : key[s] \notin Tall
  /\ \A t \in TSlots : tallValid[t] => tallKey[t] \in Tall

TallDistinct ==
  \A t, u \in TSlots :
    tallValid[t] /\ tallValid[u] /\ tallKey[t] = tallKey[u] => t = u

Inv == CachesType /\ CachesCoherent /\ PixelsRight /\ ByHeight /\ TallDistinct

\* The empty caches satisfy it.
LEMMA InvInit == Init => Inv
<1>. SUFFICES ASSUME Init PROVE Inv
  OBVIOUS
<1>. USE DEF Init, IndexInit, NoResult
<1>1. CachesType
  BY DEF CachesType
<1>2. CachesCoherent /\ PixelsRight /\ TallDistinct
  BY DEF CachesCoherent, PixelsRight, TallDistinct
<1>3. ByHeight
  BY NoneAssumption, HeightsAssumption DEF ByHeight
<1>. QED BY <1>1, <1>2, <1>3 DEF Inv

\* A step that leaves the caches alone and returns nothing, or the right pixels.
LEMMA InvUnchangedCaches ==
  ASSUME Inv, UNCHANGED <<key, pixels, tallValid, tallKey, area, flat>>,
         asked' \in Keys \cup {None}, result'.shows = result'.asked
  PROVE  Inv'
BY DEF Inv, CachesType, CachesCoherent, PixelsRight, ByHeight, TallDistinct

\* Forgetting the tall columns keeps the rest coherent.
LEMMA InvTallReset ==
  ASSUME Inv, UNCHANGED <<key, pixels, asked, tallKey, area, flat>>,
         tallValid' = [t \in TSlots |-> FALSE], result'.shows = result'.asked
  PROVE  Inv'
BY DEF Inv, CachesType, CachesCoherent, PixelsRight, ByHeight, TallDistinct

\* A decode into the index: the slot the index names gets the column's pixels.
LEMMA InvDecodeInsert == Inv /\ DecodeInsert => Inv'
<1>. SUFFICES ASSUME Inv, DecodeInsert PROVE Inv'
  OBVIOUS
<1>. DEFINE s == InsertSlot
<1>1. /\ asked \in Keys /\ asked \notin Tall
      /\ key' = [key EXCEPT ![s] = asked]
      /\ pixels' = [pixels EXCEPT ![s] = asked]
      /\ asked' = None
      /\ result' = [asked |-> asked, shows |-> asked]
      /\ UNCHANGED <<tallValid, tallKey, area, flat>>
  BY DEF DecodeInsert, Missed, InsertKey, Returns, tallCache, Inv, CachesType
<1>2. CachesType'
  BY <1>1 DEF Inv, CachesType
<1>3. CachesCoherent'
  BY <1>1 DEF Inv, CachesType, CachesCoherent
<1>4. PixelsRight' /\ TallDistinct'
  BY <1>1 DEF Inv, PixelsRight, TallDistinct
<1>5. ByHeight'
  BY <1>1 DEF Inv, CachesType, ByHeight
<1>. QED BY <1>2, <1>3, <1>4, <1>5 DEF Inv

\* A decode into the work area: the flat there is forgotten.
LEMMA InvDecodeTall == Inv /\ DecodeTall => Inv'
<1>. SUFFICES ASSUME Inv, DecodeTall PROVE Inv'
  OBVIOUS
<1>. DEFINE t == TallVictim
<1>1. /\ asked \in Keys /\ asked \in Tall
      /\ \A u \in TSlots : tallValid[u] => tallKey[u] # asked
      /\ area' = [area EXCEPT ![t] = asked]
      /\ tallKey' = [tallKey EXCEPT ![t] = asked]
      /\ tallValid' = [tallValid EXCEPT ![t] = TRUE]
      /\ flat' = None /\ asked' = None
      /\ result' = [asked |-> asked, shows |-> asked]
      /\ UNCHANGED <<key, pixels>>
  BY DEF DecodeTall, Missed, TallHits, FlatForgotten, Returns, index, chains, Inv,
         CachesType
<1>2. CachesType'
  BY <1>1 DEF Inv, CachesType
<1>3. CachesCoherent'
  BY <1>1 DEF Inv, CachesType, CachesCoherent
<1>4. PixelsRight'
  BY <1>1 DEF PixelsRight
<1>5. ByHeight'
  BY <1>1 DEF Inv, CachesType, ByHeight
<1>6. TallDistinct'
  BY <1>1 DEF Inv, CachesType, TallDistinct
<1>. QED BY <1>2, <1>3, <1>4, <1>5, <1>6 DEF Inv

\* A flat loaded over the whole work area: every tall column there is given up.
LEMMA InvFlatLoad ==
  ASSUME NEW p \in Flats, Inv, FlatLoad(p)
  PROVE  Inv'
<1>1. /\ tallValid' = [t \in TSlots |-> FALSE]
      /\ area' = [t \in TSlots |-> p]
      /\ flat' = p
      /\ result' = [asked |-> p, shows |-> p]
      /\ UNCHANGED <<key, pixels, asked, tallKey>>
  BY DEF FlatLoad, TallReset, Returns, index, chains
<1>2. CachesType'
  BY <1>1 DEF Inv, CachesType
<1>3. CachesCoherent' /\ PixelsRight'
  BY <1>1 DEF Inv, CachesCoherent, PixelsRight
<1>4. ByHeight' /\ TallDistinct'
  BY <1>1 DEF Inv, ByHeight, TallDistinct
<1>. QED BY <1>2, <1>3, <1>4 DEF Inv

\* Every step preserves the invariant.
LEMMA InvNext == Inv /\ [Next]_vars => Inv'
<1>. SUFFICES ASSUME Inv, [Next]_vars PROVE Inv'
  OBVIOUS
<1>. USE DEF index, chains, recency, tallCache
<1>1. CASE BeginFrame
  BY <1>1, InvTallReset DEF BeginFrame, NoResult
<1>2. ASSUME NEW k \in Keys, LookUpHit(k) PROVE Inv'
  <2>1. pixels[FoundSlot(k)] = k
    BY <1>2, FoundSlotHoldsKey DEF LookUpHit, FindHit, Inv, CachesCoherent
  <2>2. UNCHANGED <<key, pixels, tallValid, tallKey, area, flat, asked>>
    BY <1>2 DEF LookUpHit, FindHit
  <2>3. result' = [asked |-> k, shows |-> k]
    BY <1>2, <2>1 DEF LookUpHit, Returns
  <2>. QED BY <2>2, <2>3, InvUnchangedCaches DEF Inv, CachesType
<1>3. ASSUME NEW k \in Keys, LookUpMiss(k) PROVE Inv'
  BY <1>3, InvUnchangedCaches DEF LookUpMiss, NoResult
<1>4. CASE TallHit
  <2>1. PICK t \in TallHits : result' = [asked |-> asked, shows |-> area[t]]
    BY <1>4 DEF TallHit, Returns
  <2>2. area[t] = asked
    BY <2>1 DEF TallHits, Inv, CachesCoherent
  <2>3. UNCHANGED <<key, pixels, tallValid, tallKey, area, flat>> /\ asked' = None
    BY <1>4 DEF TallHit
  <2>. QED BY <2>1, <2>2, <2>3, InvUnchangedCaches
<1>5. CASE DecodeFails
  BY <1>5, InvUnchangedCaches DEF DecodeFails, NoResult
<1>6. CASE DecodeInsert
  BY <1>6, InvDecodeInsert
<1>7. CASE DecodeUncached
  BY <1>7, InvUnchangedCaches DEF DecodeUncached, Returns
<1>8. CASE DecodeTall
  BY <1>8, InvDecodeTall
<1>9. ASSUME NEW p \in Flats, FlatHit(p) PROVE Inv'
  <2>1. AreaShows(p) = p
    BY <1>9 DEF FlatHit, AreaShows, Inv, CachesCoherent, CachesType
  <2>2. UNCHANGED <<key, pixels, tallValid, tallKey, area, flat, asked>>
    BY <1>9 DEF FlatHit
  <2>3. result' = [asked |-> p, shows |-> p]
    BY <1>9, <2>1 DEF FlatHit, Returns
  <2>. QED BY <2>2, <2>3, InvUnchangedCaches DEF Inv, CachesType
<1>10. ASSUME NEW p \in Flats, FlatFails(p) PROVE Inv'
  BY <1>10, InvTallReset DEF FlatFails, TallReset, NoResult
<1>11. ASSUME NEW p \in Flats, FlatLoad(p) PROVE Inv'
  BY <1>11, InvFlatLoad
<1>12. CASE UNCHANGED vars
  BY <1>12 DEF vars, Inv, CachesType, CachesCoherent, PixelsRight,
               ByHeight, TallDistinct
<1>. QED BY <1>1, <1>2, <1>3, <1>4, <1>5, <1>6, <1>7, <1>8, <1>9, <1>10, <1>11,
            <1>12 DEF Next

\* Every behaviour satisfies it.
LEMMA InvCorrect == Spec => []Inv
BY InvInit, InvNext, PTL DEF Spec

(* Whatever was decoded, evicted and overwritten before, a returned pointer  *)
(* shows the pixels of the column or flat asked for.                         *)
THEOREM PixelsRightCorrect == Spec => []PixelsRight
<1>1. Inv => PixelsRight
  BY DEF Inv
<1>. QED BY <1>1, InvCorrect, PTL

(* The two owners of the work area never both believe it is theirs.          *)
THEOREM CachesCoherentCorrect == Spec => []CachesCoherent
<1>1. Inv => CachesCoherent
  BY DEF Inv
<1>. QED BY <1>1, InvCorrect, PTL

(* No column is cached twice, in whichever caches.                           *)
THEOREM OneCopyCorrect == Spec => []OneCopy
<1>1. ASSUME Inv PROVE OneCopy
  <2>1. ASSUME NEW t \in TSlots, tallValid[t], FoundSlot(tallKey[t]) # 0
        PROVE FALSE
    BY <1>1, <2>1, FoundSlotHoldsKey DEF Inv, ByHeight
  <2>. QED BY <1>1, <2>1 DEF OneCopy, Inv, TallDistinct
<1>. QED BY <1>1, InvCorrect, PTL

=============================================================================
