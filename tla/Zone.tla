------------------------------- MODULE Zone -------------------------------
(* The zone allocator of src/z_zone.c in the firmware's build: a ring of     *)
(* memory blocks, the head of the list among them, that Z_Malloc searches    *)
(* from a rover and Z_Free merges.  Nothing is purgable in this build.  A    *)
(* header stays in memory when its block has been merged away; live says     *)
(* which headers are blocks.                                                 *)
EXTENDS Integers, FiniteSets

CONSTANTS
  ZoneSize,      \* the zone's size after its head, in units
  Header,        \* sizeof(memblock_t)
  MinFragment    \* MINFRAGMENT

ASSUME ZoneAssumption ==
  /\ ZoneSize \in Nat /\ Header \in Nat \ {0} /\ MinFragment \in Nat
  /\ Header <= MinFragment /\ Header < ZoneSize

VARIABLES
  next, prev, size, tag,   \* the headers
  rover,
  live,                    \* the blocks
  panicked                 \* 0, or what could not be allocated

zoneVars == <<next, prev, size, tag, rover, live, panicked>>

Head == 0                  \* &mainzone->blocklist
Addresses == 0 .. ZoneSize
Tags == {"free", "static", "level", "levspec"}

\* Z_Init
ZoneInit ==
  /\ live = {1} /\ rover = 1 /\ panicked = 0
  /\ next = [a \in Addresses |-> IF a = Head THEN 1 ELSE Head]
  /\ prev = [a \in Addresses |-> IF a = Head THEN 1 ELSE Head]
  /\ size = [a \in Addresses |-> IF a = 1 THEN ZoneSize ELSE 0]
  /\ tag  = [a \in Addresses |-> IF a = 1 THEN "free" ELSE "static"]

-----------------------------------------------------------------------------
\* The rover is never left at a header that has been merged away.  The mutation
\* leaves it there.
RoverLeft(gone, first) == rover

RoverAfter(gone, first) == IF rover \in gone THEN first ELSE rover

\* The size of a block joined by its neighbours.  The mutation counts the one
\* before twice.
JoinedTwice(block, back, ahead) ==
  size[block] + (IF back THEN 2 * size[prev[block]] ELSE 0)
              + (IF ahead THEN size[next[block]] ELSE 0)

Joined(block, back, ahead) ==
  size[block] + (IF back THEN size[prev[block]] ELSE 0)
              + (IF ahead THEN size[next[block]] ELSE 0)

\* The block is joined by the one after it when that is free.  The mutation leaves
\* the two apart.
AheadUnseen(block) == FALSE

FreeAhead(block) == tag[next[block]] = "free"

\* Z_Free: the block is marked, joins a free block before it, and is joined by
\* a free block after it.
Z_Free(block) ==
  LET before == prev[block]
      after  == next[block]
      back   == tag[before] = "free"
      ahead  == FreeAhead(block)
      first  == IF back THEN before ELSE block
      last   == IF ahead THEN next[after] ELSE after
      gone   == (IF back THEN {block} ELSE {}) \cup (IF ahead THEN {after} ELSE {})
  IN /\ tag' = [tag EXCEPT ![block] = "free"]
     /\ size' = [size EXCEPT ![first] = Joined(block, back, ahead)]
     /\ next' = [next EXCEPT ![first] = last]
     /\ prev' = [prev EXCEPT ![after] = first, ![last] = first]
     /\ rover' = RoverAfter(gone, first)
     /\ live' = live \ gone
     /\ UNCHANGED panicked

\* Z_Malloc starts at the rover, or at a free block behind it, and goes from one
\* block to the next until it is back before the first.
Base == IF tag[prev[rover]] = "free" THEN prev[rover] ELSE rover

Nth[i \in 0 .. Cardinality(live)] ==
  IF i = 0 THEN Base ELSE next[Nth[i - 1]]

\* base moves only past a block in use, so a free block that follows a free one is
\* never looked at, unless the search begins there.
LooksAt(n) == n > 0 => tag[Nth[n - 1]] # "free"

Fits(block, need) == tag[block] = "free" /\ size[block] >= need

Found(n, need) == LooksAt(n) /\ Fits(Nth[n], need)

PassedOver(n, need) == \A i \in 0 .. n - 1 : ~Found(i, need)

\* It takes the first it looks at that is large enough ...
FirstFit(block, need) ==
  \E n \in 0 .. Cardinality(live) :
    Nth[n] = block /\ Found(n, need) /\ PassedOver(n, need)

\* ... and leaves what is over as a free block, unless it is a mere fragment.
Z_Take(block, need, t) ==
  LET extra == size[block] - need
      rest  == block + need
      split == extra > MinFragment
  IN /\ next' = IF split THEN [next EXCEPT ![rest] = next[block], ![block] = rest] ELSE next
     /\ prev' = IF split THEN [prev EXCEPT ![rest] = block, ![next[block]] = rest] ELSE prev
     /\ size' = IF split THEN [size EXCEPT ![rest] = extra, ![block] = need] ELSE size
     /\ tag'  = IF split THEN [tag EXCEPT ![rest] = "free", ![block] = t]
                ELSE [tag EXCEPT ![block] = t]
     /\ live' = IF split THEN live \cup {rest} ELSE live
     /\ rover' = next'[block]
     /\ UNCHANGED panicked

\* It is back where it began, and the last block of the round did not fit either:
\* "out of memory".
Z_Panic(need) ==
  /\ PassedOver(Cardinality(live) + 1, need)
  /\ panicked' = need
  /\ UNCHANGED <<next, prev, size, tag, rover, live>>

-----------------------------------------------------------------------------
\* What the allocator's clients may do with it, until I_Error stops them.
ZoneNext ==
  /\ panicked = 0
  /\ \/ \E block \in live : tag[block] # "free" /\ Z_Free(block)
     \/ \E block \in live, need \in Header + 1 .. ZoneSize, t \in Tags \ {"free"} :
          FirstFit(block, need) /\ Z_Take(block, need, t)
     \/ \E need \in Header + 1 .. 2 * ZoneSize : Z_Panic(need)

ZoneSpec == ZoneInit /\ [][ZoneNext]_zoneVars

After(block) ==
  LET end == IF block = Head THEN 1 ELSE block + size[block]
  IN IF end = ZoneSize + 1 THEN Head ELSE end

\* "There is never any space between memblocks, and there will never be two
\* contiguous free memblocks" (src/src/z_zone.c:46): every block touches the
\* next, which links back to it, the head closes the ring, no block starts
\* inside another, and the rover is one of them.
ZoneTiled ==
  /\ rover \in live \cup {Head}
  /\ \A b \in live \cup {Head} :
       /\ next[b] \in live \cup {Head}
       /\ next[b] = After(b) /\ prev[next[b]] = b
       /\ tag[b] = "free" => tag[next[b]] # "free"
  /\ \A b \in live : size[b] > Header /\ b + size[b] <= ZoneSize + 1
  /\ \A b, c \in live : b < c => b + size[b] <= c

\* The search gives up only when no free block is large enough (Z_Malloc, "scanned
\* all the way around the list").  It steps over a free block that follows a free
\* one, so this rests on Z_Free never having left two side by side.
NoFalsePanic == panicked > 0 => \A b \in live : ~Fits(b, panicked)

=============================================================================
