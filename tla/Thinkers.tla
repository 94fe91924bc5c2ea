----------------------------- MODULE Thinkers -----------------------------
(* The moving things of a level (src/doom/p_tick.c): the list P_RunThinkers  *)
(* goes through, and the pools their memory is taken from.  A block of the   *)
(* zone holds NumSlots things of one type; a byte of its header says which   *)
(* are free; the blocks that have a free slot are chained through the same   *)
(* field that, in a slot that is taken, links the list.                      *)
EXTENDS Zone, FiniteSetsExt

CONSTANTS
  Types,         \* of things that are pooled
  SlotSize,      \* the size of each
  NumSlots,      \* slots of a block
  SpecialSize,   \* of a thing that is not pooled: a door, a light
  MaxThinkers,   \* bound: things at once
  MaxStatic      \* bound: other blocks at once, of one unit each

ASSUME PoolAssumption ==
  /\ SlotSize \in [Types -> Nat \ {0}] /\ NumSlots \in Nat \ {0, 1}
  /\ SpecialSize \in Nat \ {0} /\ MaxThinkers \in Nat /\ MaxStatic \in Nat

\* No request is larger than the zone.
ASSUME RequestAssumption ==
  /\ \A type \in Types : NumSlots * SlotSize[type] + Header <= ZoneSize
  /\ SpecialSize + Header <= ZoneSize

VARIABLES
  spNext,        \* sp_next of a thing, or of a free slot
  poolInfo,      \* pool_info
  removed,       \* the things whose function is ThinkF_REMOVED
  extra,         \* the free slots of each block: Z_ObjectExtra
  tail,          \* thinkertail
  pool,          \* thinker_pool
  phase,         \* what the game is doing
  cursor,        \* prevthinker, or the block or thing a loop has come to
  \* What happened:
  objects,       \* the things in use
  overdue        \* those that were removed before this run of P_RunThinkers

thinkerVars == <<spNext, poolInfo, removed, extra, tail, pool, objects>>
vars == <<zoneVars, thinkerVars, phase, cursor, overdue>>

Nil == 0
Cap == -1      \* &thinkercap
Unpooled == <<>>
Slots == 0 .. NumSlots - 1

Init ==
  /\ ZoneInit
  /\ spNext = [t \in 1 .. ZoneSize \cup {Cap} |-> IF t = Cap THEN Cap ELSE Nil]
  /\ poolInfo = [t \in 1 .. ZoneSize |-> Unpooled]
  /\ extra = [b \in 1 .. ZoneSize |-> {}]
  /\ removed = {} /\ tail = Cap /\ pool = [type \in Types |-> Nil]
  /\ phase = "idle" /\ cursor = Nil /\ objects = {} /\ overdue = {}

Slot(block, slot, type) == block + slot * SlotSize[type]

\* Z_Malloc
Allocate(result, bytes, t) ==
  /\ FirstFit(result - Header, bytes + Header)
  /\ Z_Take(result - Header, bytes + Header, t)

Results == {b + Header : b \in live}

\* P_AddThinker, of a thing whose own link sp holds.
AddThinker(t, sp) ==
  /\ spNext' = [sp EXCEPT ![t] = sp[tail], ![tail] = t]
  /\ tail' = t
  /\ objects' = objects \cup {t}

Active == panicked = 0 /\ phase \in {"idle", "running"}
Room == Active /\ Cardinality(objects) < MaxThinkers

-----------------------------------------------------------------------------
\* Z_ThinkMallocImpl and P_AddThinker: a thing in a new block, ...
SpawnInNewBlock(type) ==
  /\ Room /\ pool[type] = Nil
  /\ \E block \in Results :
       /\ Allocate(block, NumSlots * SlotSize[type], "level")
       /\ pool' = [pool EXCEPT ![type] = block]
       /\ extra' = [extra EXCEPT ![block] = Slots \ {0}]
       /\ poolInfo' = [poolInfo EXCEPT ![block] = <<type, 0>>]
       /\ AddThinker(block, [spNext EXCEPT ![block] = Nil,
                                           ![Slot(block, NumSlots - 1, type)] = Nil])
       /\ removed' = removed \ {block}
  /\ UNCHANGED <<phase, cursor, overdue>>

\* ... or in the lowest free slot of the first block that has one.  The slot is
\* cleared, the link to the next block with it, before that link is read.
SpawnInSlot(type) ==
  /\ Room /\ pool[type] # Nil
  /\ LET block   == pool[type]
         slot    == Min(extra[block])
         t       == Slot(block, slot, type)
         cleared == [spNext EXCEPT ![t] = Nil]
     IN /\ extra' = [extra EXCEPT ![block] = @ \ {slot}]
        /\ pool' = IF extra[block] = {slot} THEN [pool EXCEPT ![type] = cleared[t]] ELSE pool
        /\ poolInfo' = [poolInfo EXCEPT ![t] = <<type, slot>>]
        /\ AddThinker(t, cleared)
        /\ removed' = removed \ {t}
  /\ UNCHANGED <<zoneVars, phase, cursor, overdue>>

\* Z_Malloc clears what would be the pool_info of a thing.  The mutation leaves
\* there what was.
InfoLeft(t) == poolInfo

InfoCleared(t) == [poolInfo EXCEPT ![t] = Unpooled]

\* EV_DoDoor and its like.
SpawnSpecial ==
  /\ Room
  /\ \E t \in Results :
       /\ Allocate(t, SpecialSize, "levspec")
       /\ poolInfo' = InfoCleared(t)
       /\ AddThinker(t, [spNext EXCEPT ![t] = Nil])
       /\ removed' = removed \ {t}
  /\ UNCHANGED <<extra, pool, phase, cursor, overdue>>

\* P_RemoveThinker
RemoveThinker(t) ==
  /\ Active /\ t \in objects \ removed
  /\ removed' = removed \cup {t}
  /\ UNCHANGED <<zoneVars, spNext, poolInfo, extra, tail, pool, objects, phase, cursor,
                 overdue>>

-----------------------------------------------------------------------------
\* The chain of a type's blocks that have a free slot, as far as a block to stop
\* at: each one's link is in the highest of them, and a full one has none.
LinkOf(block, type, free) == Slot(block, Max(free[block]), type)

Chain(head, stop, type, sp, free) ==
  LET Partial(b) == b # stop /\ b \in DOMAIN free /\ free[b] # {}
      Reached[n \in Nat] ==
        IF n = 0 THEN {head} \ {Nil}
        ELSE Reached[n - 1] \cup
               ({sp[LinkOf(b, type, free)] : b \in {c \in Reached[n - 1] : Partial(c)}} \ {Nil})
  IN Reached[Cardinality(live)]

\* Z_ThinkFree, with the links as the list's own unlinking has left them.
Z_ThinkFreeUnpooled(t, sp) ==
  /\ poolInfo[t] = Unpooled
  /\ Z_Free(t - Header)
  /\ spNext' = sp /\ UNCHANGED <<extra, pool>>

\* The last slot in use: the block leaves the chain, if it is on it.  The search
\* for the one before it goes no further than the block.
Unchain(block, type, successor, heads, sp, free) ==
  LET before == {b \in Chain(heads[type], block, type, sp, free) \ {block} :
                   sp[LinkOf(b, type, free)] = block}
  IN IF heads[type] = block
     THEN pool' = [heads EXCEPT ![type] = successor] /\ spNext' = sp
     ELSE /\ pool' = heads
          /\ spNext' = IF before = {} THEN sp
                       ELSE [sp EXCEPT ![LinkOf(CHOOSE b \in before : TRUE, type, free)]
                               = successor]

\* The mutations: a block counts as empty whatever its first slot holds; a free
\* slot never takes over the link.
EmptyButFirst(free) == free \cup {0} = Slots

Empty(free) == free = Slots

LinkStays(slot, free) == FALSE

TakesLink(slot, free) == slot = Max(free)

\* A block that was full becomes the first of the chain, and the highest free
\* slot takes over its link.
Z_ThinkFreeSlot(t, sp) ==
  /\ poolInfo[t] # Unpooled
  /\ LET type  == poolInfo[t][1]
         slot  == poolInfo[t][2]
         block == t - slot * SlotSize[type]
         full  == extra[block] = {}
         free  == [extra EXCEPT ![block] = @ \cup {slot}]
         heads == IF full THEN [pool EXCEPT ![type] = block] ELSE pool
         successor == IF full THEN pool[type] ELSE sp[LinkOf(block, type, extra)]
     IN /\ extra' = free
        /\ IF Empty(free[block])
           THEN /\ Unchain(block, type, successor, heads, sp, free)
                /\ Z_Free(block - Header)
           ELSE /\ pool' = heads
                /\ spNext' = IF TakesLink(slot, free[block])
                             THEN [sp EXCEPT ![t] = successor] ELSE sp
                /\ UNCHANGED zoneVars

Z_ThinkFree(t, sp) ==
  /\ Z_ThinkFreeUnpooled(t, sp) \/ Z_ThinkFreeSlot(t, sp)
  /\ objects' = objects \ {t} /\ removed' = removed \ {t}
  /\ UNCHANGED poolInfo

-----------------------------------------------------------------------------
\* P_RunThinkers, one thing at a time; what a thing does comes between its own
\* step and the next.
RunBegins ==
  /\ panicked = 0 /\ phase = "idle"
  /\ phase' = "running" /\ cursor' = Cap /\ overdue' = removed
  /\ UNCHANGED <<zoneVars, thinkerVars>>

Running == panicked = 0 /\ phase = "running"

RunThinks ==
  /\ Running /\ spNext[cursor] # Cap /\ spNext[cursor] \notin removed
  /\ cursor' = spNext[cursor]
  /\ UNCHANGED <<zoneVars, thinkerVars, phase, overdue>>

\* What the loop leaves behind a thing it frees.  The mutations: the last one's
\* predecessor does not become the tail, or the next is passed over.
TailStays(unlinked) == tail

TailAfter(unlinked) == IF unlinked[cursor] = Cap THEN cursor ELSE tail

PrevSkips(unlinked) == IF unlinked[cursor] = Cap THEN cursor ELSE unlinked[cursor]

PrevAfter(unlinked) == cursor

RunRemoves ==
  /\ Running /\ spNext[cursor] \in removed
  /\ LET current  == spNext[cursor]
         unlinked == [spNext EXCEPT ![cursor] = spNext[current]]
     IN /\ tail' = TailAfter(unlinked)
        /\ Z_ThinkFree(current, unlinked)
        /\ overdue' = overdue \ {current}
        /\ cursor' = PrevAfter(unlinked)
  /\ UNCHANGED phase

RunEnds ==
  /\ Running /\ spNext[cursor] = Cap
  /\ phase' = "idle" /\ cursor' = Nil
  /\ UNCHANGED <<zoneVars, thinkerVars, overdue>>

-----------------------------------------------------------------------------
\* P_InitThinkers
InitThinkers ==
  /\ spNext' = [spNext EXCEPT ![Cap] = Cap]
  /\ tail' = Cap
  /\ pool' = [type \in Types |-> Nil]
  /\ phase' = "idle" /\ cursor' = Nil
  /\ objects' = {} /\ removed' = {} /\ overdue' = {}

\* P_SetupLevel: Z_FreeTags, one header at a time, the next of which it reads
\* before it frees the block.
LoadBegins ==
  /\ panicked = 0 /\ phase = "idle"
  /\ phase' = "freeing tags" /\ cursor' = next[Head]
  /\ UNCHANGED <<zoneVars, thinkerVars, overdue>>

LoadFrees ==
  /\ phase = "freeing tags" /\ cursor # Head
  /\ cursor' = next[cursor]
  /\ IF tag[cursor] \in {"level", "levspec"} THEN Z_Free(cursor) ELSE UNCHANGED zoneVars
  /\ UNCHANGED <<thinkerVars, phase, overdue>>

LoadEnds ==
  /\ phase = "freeing tags" /\ cursor = Head
  /\ InitThinkers
  /\ UNCHANGED <<zoneVars, poolInfo, extra>>

\* P_UnArchiveThinkers: every thing is freed, the next of which it reads before.
UnArchiveBegins ==
  /\ panicked = 0 /\ phase = "idle"
  /\ phase' = "unarchiving" /\ cursor' = spNext[Cap]
  /\ UNCHANGED <<zoneVars, thinkerVars, overdue>>

UnArchiveFrees ==
  /\ phase = "unarchiving" /\ cursor # Cap
  /\ cursor' = spNext[cursor]
  /\ Z_ThinkFree(cursor, spNext)
  /\ UNCHANGED <<tail, phase, overdue>>

UnArchiveEnds ==
  /\ phase = "unarchiving" /\ cursor = Cap
  /\ InitThinkers
  /\ UNCHANGED <<zoneVars, poolInfo, extra>>

-----------------------------------------------------------------------------
\* What else lives in the zone and may go at any time, like a demo's buffer.
Statics == {b \in live : tag[b] = "static"}

StaticMalloc ==
  /\ Active /\ Cardinality(Statics) < MaxStatic
  /\ \E result \in Results : Allocate(result, 1, "static")
  /\ UNCHANGED <<thinkerVars, phase, cursor, overdue>>

StaticFree ==
  /\ Active
  /\ \E b \in Statics : Z_Free(b)
  /\ UNCHANGED <<thinkerVars, phase, cursor, overdue>>

\* Any of these may find no room.
OutOfMemory ==
  /\ \/ Room /\ \E type \in Types : pool[type] = Nil
                                     /\ Z_Panic(NumSlots * SlotSize[type] + Header)
     \/ Room /\ Z_Panic(SpecialSize + Header)
  /\ UNCHANGED <<thinkerVars, phase, cursor, overdue>>

Next ==
  \/ \E type \in Types : SpawnInNewBlock(type) \/ SpawnInSlot(type)
  \/ SpawnSpecial
  \/ \E t \in objects : RemoveThinker(t)
  \/ RunBegins \/ RunThinks \/ RunRemoves \/ RunEnds
  \/ LoadBegins \/ LoadFrees \/ LoadEnds
  \/ UnArchiveBegins \/ UnArchiveFrees \/ UnArchiveEnds
  \/ StaticMalloc \/ StaticFree \/ OutOfMemory

Spec == Init /\ [][Next]_vars

-----------------------------------------------------------------------------

\* The variables stay within what the source can store in them.
TypeOK ==
  /\ next \in [Addresses -> Addresses] /\ prev \in [Addresses -> Addresses]
  /\ size \in [Addresses -> 0 .. ZoneSize] /\ tag \in [Addresses -> Tags]
  /\ live \subseteq Addresses \ {Head} /\ rover \in Addresses
  /\ spNext \in [1 .. ZoneSize \cup {Cap} -> 0 .. ZoneSize \cup {Cap}]
  /\ poolInfo \in [1 .. ZoneSize -> {Unpooled} \cup (Types \X Slots)]
  /\ extra \in [1 .. ZoneSize -> SUBSET Slots]
  /\ pool \in [Types -> 0 .. ZoneSize]
  /\ objects \subseteq 1 .. ZoneSize /\ removed \subseteq objects
  /\ tail \in 1 .. ZoneSize \cup {Cap} /\ cursor \in 0 .. ZoneSize \cup {Cap}

Settled == phase \in {"idle", "running"}

Linked[n \in 0 .. Cardinality(objects)] ==
  IF n = 0 THEN Cap ELSE spNext[Linked[n - 1]]

\* From the cap, following the links meets every thing in use once, then the cap
\* again, and thinkertail is the last of them ("assert(thinker_next(thinkertail)
\* == &thinkercap)", src/src/doom/p_tick.c:71): the list survives things that
\* come and go while it is being run, and a chain kept in the same field.
ListIntact ==
  LET n == Cardinality(objects)
  IN Settled => /\ {Linked[i] : i \in 1 .. n} = objects
                /\ Linked[n] = tail /\ spNext[tail] = Cap
                /\ phase = "running" => cursor \in objects \cup {Cap}

Pooled(type) == {t \in objects : poolInfo[t] # Unpooled /\ poolInfo[t][1] = type}
BlockOf(t) == t - poolInfo[t][2] * SlotSize[poolInfo[t][1]]
Blocks(type) == {BlockOf(t) : t \in Pooled(type)}

\* What is in use is allocated, and the other way round: a thing of its own has
\* its own block, a block of slots lives as long as one of them is taken, and its
\* bit set says which.
MemoryAgrees ==
  Settled =>
    /\ {b + Header : b \in {c \in live : tag[c] = "levspec"}}
         = {t \in objects : poolInfo[t] = Unpooled}
    /\ {b + Header : b \in {c \in live : tag[c] = "level"}} = UNION {Blocks(y) : y \in Types}
    /\ \A type \in Types : \A b \in Blocks(type) :
         Slots \ extra[b] = {poolInfo[t][2] : t \in {u \in Pooled(type) : BlockOf(u) = b}}

\* A chain leads only to blocks of its type that are allocated and have a free
\* slot, and ends.
ChainSound ==
  Settled =>
    \A type \in Types :
      LET chain == Chain(pool[type], Nil, type, spNext, extra)
      IN /\ chain \subseteq {b \in Blocks(type) : extra[b] # {}}
         /\ chain # {} => \E b \in chain : spNext[LinkOf(b, type, extra)] = Nil

\* A thing removed before P_RunThinkers begins is gone when it ends, though its
\* neighbours are removed, and others spawned, while it runs
\* (src/src/doom/p_tick.c:78: "it will not actually be freed until its thinking
\* turn comes up").
LazyRemovalDone == phase = "idle" => overdue \cap objects = {}

\* The pools free and use only what the zone has given them.
UsesZone == ZoneSpec

\* "We keep a linked list of partially full blocks which starts in the
\* thinker_pool array" (src/src/doom/p_tick.c:213): every block with a free slot
\* is on it.
AllPartialLinked ==
  Settled =>
    \A type \in Types :
      {b \in Blocks(type) : extra[b] # {}} \subseteq Chain(pool[type], Nil, type, spNext, extra)

=============================================================================
