---------------------------- MODULE ColumnDecode ----------------------------
(* Decoded columns and flats of one renderer core, decode_patch_column and   *)
(* load_flat_pixels of src/jaszczurhal/doom_backend_stub.c, in the build the *)
(* repository selects (one core decodes).  Columns of usual height stay in   *)
(* the slots of the column index; taller ones go to a second cache that      *)
(* lives in s_work_area, where flats are decoded too.                        *)
EXTENDS ColumnCache

CONSTANTS
  Flats,        \* flat numbers
  TallSlots,    \* HAL_PATCH_TALL_CACHE_SLOTS
  ClockMod,     \* the use clock has ClockMod values (2^32)
  Tall,         \* columns higher than a slot of the index
  Huge,         \* those of them higher than a slot of the tall cache, too
  Undecodable   \* columns and flats whose decoder does not fit

ASSUME TallSlotsAssumption == TallSlots \in Nat \ {0}
ASSUME ClockAssumption == ClockMod \in Nat \ {0, 1}
ASSUME HeightsAssumption == Huge \subseteq Tall /\ Tall \subseteq Keys
ASSUME FlatsAssumption == Flats \cap Keys = {} /\ None \notin Flats

VARIABLES
  asked,      \* the column being decoded, None between calls
  pixels,     \* s_patch_column_cache: the column whose pixels each slot holds
  clock,      \* s_patch_column_cache_clock
  tallValid, tallKey, tallAge,   \* s_patch_tall_cache_*
  flat,       \* s_flat_cache_picnum, None for -1
  area,       \* s_work_area, by slot of the tall cache: the column or flat there
  result      \* what the last call was asked for, and what its pointer shows

tallCache == <<tallValid, tallKey, tallAge>>
vars == <<index, asked, pixels, clock, tallCache, flat, area, result>>

TSlots == 1 .. TallSlots
Content == Keys \cup Flats \cup {None}

\* A call returned a pointer to pixels of c, asked for those of k.
Returns(k, c) == result' = [asked |-> k, shows |-> c]

\* A call failed, or the caller went on: there is no pointer.
NoResult == [asked |-> None, shows |-> None]

Init ==
  /\ IndexInit /\ asked = None
  /\ pixels = [s \in Slots |-> None]
  /\ clock = 0
  /\ tallValid = [t \in TSlots |-> FALSE]
  /\ tallKey = [t \in TSlots |-> None]
  /\ tallAge = [t \in TSlots |-> 0]
  /\ flat = None /\ area = [t \in TSlots |-> None]
  /\ result = NoResult

\* pd_begin_frame forgets the tall columns of the frame before.
BeginFrame ==
  /\ asked = None
  /\ tallValid' = [t \in TSlots |-> FALSE]
  /\ result' = NoResult
  /\ UNCHANGED <<index, asked, pixels, clock, tallKey, tallAge, flat, area>>

-----------------------------------------------------------------------------
(* decode_patch_column: look in the index, then in the tall cache, then      *)
(* decode.  asked is the column between its first step and its last.         *)

Tick == clock' = IF clock + 1 = ClockMod THEN 1 ELSE clock + 1

LookUpHit(k) ==
  /\ asked = None
  /\ Tick
  /\ FindHit(k)
  /\ Returns(k, pixels[FoundSlot(k)])
  /\ UNCHANGED <<asked, pixels, tallCache, flat, area>>

LookUpMiss(k) ==
  /\ asked = None
  /\ FoundSlot(k) = 0
  /\ Tick
  /\ asked' = k
  /\ result' = NoResult
  /\ UNCHANGED <<index, pixels, tallCache, flat, area>>

TallHitsButLast == {t \in 1 .. TallSlots - 1 : tallValid[t] /\ tallKey[t] = asked}

TallHits == {t \in TSlots : tallValid[t] /\ tallKey[t] = asked}

TallHit ==
  /\ asked # None
  /\ \E t \in TallHits :
       /\ \A u \in TallHits : t <= u
       /\ tallAge' = [tallAge EXCEPT ![t] = clock]
       /\ Returns(asked, area[t])
  /\ asked' = None
  /\ UNCHANGED <<index, pixels, clock, tallValid, tallKey, flat, area>>

\* Neither cache has it: it is decoded to s_patch_column_uncached, whose content
\* no later call reads.
Missed == asked # None /\ TallHits = {}

DecodeFails ==
  /\ Missed /\ asked \in Undecodable
  /\ asked' = None
  /\ result' = NoResult
  /\ UNCHANGED <<index, pixels, clock, tallCache, flat, area>>

\* A column of usual height takes a slot of the index.
DecodeInsert ==
  /\ Missed /\ asked \notin Undecodable \cup Tall
  /\ InsertKey(asked)
  /\ pixels' = [pixels EXCEPT ![InsertSlot] = asked]
  /\ Returns(asked, asked)
  /\ asked' = None
  /\ UNCHANGED <<hash, clock, tallCache, flat, area>>

\* Too high for either cache: the pointer is to s_patch_column_uncached.
DecodeUncached ==
  /\ Missed /\ asked \in Huge \ Undecodable
  /\ Returns(asked, asked)
  /\ asked' = None
  /\ UNCHANGED <<index, pixels, clock, tallCache, flat, area>>

\* patch_tall_cache_insert: a free slot, or the one used least recently.  Ages
\* that are all the largest number leave slot 0 (here 1).
FirstOf(S) == CHOOSE t \in S : \A u \in S : t <= u

TallVictim ==
  LET free == {t \in TSlots : ~tallValid[t]}
      aged == {t \in TSlots : tallAge[t] < ClockMod - 1}
      old  == {t \in aged : \A u \in aged : tallAge[t] <= tallAge[u]}
  IN IF free # {} THEN FirstOf(free)
     ELSE IF old # {} THEN FirstOf(old) ELSE 1

FlatKept == flat

FlatForgotten == None     \* s_flat_cache_picnum = -1

DecodeTall ==
  /\ Missed /\ asked \in Tall \ (Huge \cup Undecodable)
  /\ LET t == TallVictim IN
       /\ area' = [area EXCEPT ![t] = asked]
       /\ tallKey' = [tallKey EXCEPT ![t] = asked]
       /\ tallAge' = [tallAge EXCEPT ![t] = clock]
       /\ tallValid' = [tallValid EXCEPT ![t] = TRUE]
  /\ flat' = FlatForgotten
  /\ Returns(asked, asked)
  /\ asked' = None
  /\ UNCHANGED <<index, pixels, clock>>

-----------------------------------------------------------------------------
(* load_flat_pixels.  Columns and flats are asked for in any order.          *)

AreaShows(p) == IF \A t \in TSlots : area[t] = p THEN p ELSE None

FlatHit(p) ==
  /\ asked = None
  /\ flat = p
  /\ Returns(p, AreaShows(p))
  /\ UNCHANGED <<index, asked, pixels, clock, tallCache, flat, area>>

TallKept == tallValid

TallReset == [t \in TSlots |-> FALSE]

\* The tall columns are given up before it is known that the flat decodes.
FlatFails(p) ==
  /\ asked = None
  /\ flat # p /\ p \in Undecodable
  /\ tallValid' = TallReset
  /\ result' = NoResult
  /\ UNCHANGED <<index, asked, pixels, clock, tallKey, tallAge, flat, area>>

FlatLoad(p) ==
  /\ asked = None
  /\ flat # p /\ p \notin Undecodable
  /\ tallValid' = TallReset
  /\ area' = [t \in TSlots |-> p]
  /\ flat' = p
  /\ Returns(p, p)
  /\ UNCHANGED <<index, asked, pixels, clock, tallKey, tallAge>>

Next ==
  \/ BeginFrame
  \/ \E k \in Keys : LookUpHit(k) \/ LookUpMiss(k)
  \/ TallHit \/ DecodeFails \/ DecodeInsert \/ DecodeUncached \/ DecodeTall
  \/ \E p \in Flats : FlatHit(p) \/ FlatFails(p) \/ FlatLoad(p)

Spec == Init /\ [][Next]_vars

-----------------------------------------------------------------------------
\* Properties.

TypeOK ==
  /\ IndexTypeOK /\ asked \in Keys \cup {None}
  /\ pixels \in [Slots -> Keys \cup {None}]
  /\ clock \in 0 .. ClockMod - 1
  /\ tallValid \in [TSlots -> BOOLEAN]
  /\ tallKey \in [TSlots -> Keys \cup {None}]
  /\ tallAge \in [TSlots -> 0 .. ClockMod - 1]
  /\ flat \in Flats \cup {None} /\ area \in [TSlots -> Content]
  /\ result \in [asked : Content, shows : Content]

(* A pointer returned by decode_patch_column or load_flat_pixels shows the   *)
(* column or flat asked for, however the two caches, the evictions and the   *)
(* decoding of flats into the same memory followed on each other.            *)
PixelsRight == result.shows = result.asked

(* Who the work area belongs to: a valid tall entry finds its own column     *)
(* there, a remembered flat fills all of it, and so never both; and the slots *)
(* of the index hold the pixels of the columns the index names.              *)
CachesCoherent ==
  /\ \A t \in TSlots : tallValid[t] => area[t] = tallKey[t]
  /\ flat # None => \A t \in TSlots : area[t] = flat /\ ~tallValid[t]
  /\ \A s \in Slots : pixels[s] = key[s]

(* No column is in the tall cache twice, nor in both caches: a hit leaves no *)
(* stale copy to be found once the first is evicted.                         *)
OneCopy ==
  /\ \A t, u \in TSlots :
       tallValid[t] /\ tallValid[u] /\ tallKey[t] = tallKey[u] => t = u
  /\ \A t \in TSlots : tallValid[t] => FoundSlot(tallKey[t]) = 0

(* The index with its linked arrays implements the abstract cache: what is   *)
(* found, missed, put in and given up for a new column is what an LRU map    *)
(* finds, misses, puts in and gives up.                                      *)
LRU == INSTANCE LRUMap WITH order <- KeysByUse, missing <- asked

ImplementsLRU == LRU!Spec

=============================================================================
