---------------------------- MODULE ColumnCache ----------------------------
(* The index of decoded columns, src/jaszczurhal/doom_column_cache.h: hash   *)
(* chains to find a column, a doubly linked list to evict the one used least *)
(* recently, both threaded through arrays by one-based slot numbers.         *)
EXTENDS Naturals, Sequences, FiniteSets, SequencesExt

CONSTANTS
  Keys,       \* columns: a lump number and a column number
  Buckets,    \* hash buckets
  Hashes,     \* the hash functions considered
  Capacity,   \* slots of the instance
  None        \* "no key"

ASSUME CapacityAssumption == Capacity \in Nat \ {0}
ASSUME HashesAssumption == Hashes \subseteq [Keys -> Buckets]
ASSUME NoneAssumption == None \notin Keys

VARIABLES
  hash,       \* DoomColumnCache_Hash
  key,        \* lump[] and column[]
  hashNext,   \* hash_next[]: 0 ends a chain
  bucket, older, newer, count, oldest, newest

chains  == <<key, hashNext, bucket, count>>
recency == <<older, newer, oldest, newest>>
index   == <<hash, chains, recency>>

Slots == 1 .. Capacity
Links == 0 .. Capacity

\* A zero-initialised instance.
IndexInit ==
  /\ hash \in Hashes
  /\ key = [s \in Slots |-> None]
  /\ hashNext = [s \in Slots |-> 0]
  /\ older = [s \in Slots |-> 0] /\ newer = [s \in Slots |-> 0]
  /\ bucket = [b \in Buckets |-> 0]
  /\ count = 0 /\ oldest = 0 /\ newest = 0

-----------------------------------------------------------------------------
\* DoomColumnCache_Touch: slot s becomes the most recently used.

TouchKeepsOldest(s) ==
  /\ older' = [older EXCEPT ![s] = newest]
  /\ newer' = [x \in Slots |-> IF x = newest THEN s
                               ELSE IF x = s THEN 0 ELSE newer[x]]
  /\ UNCHANGED oldest
  /\ newest' = s

Touch(s) ==
  IF newest = s THEN UNCHANGED recency
  ELSE LET o == older[s]
           n == newer[s]
       IN
       /\ older' = [x \in Slots |-> IF x = s THEN newest
                                    ELSE IF x = n THEN o ELSE older[x]]
       /\ newer' = [x \in Slots |-> IF x = newest THEN s
                                    ELSE IF x = s THEN 0
                                    ELSE IF x = o THEN n ELSE newer[x]]
       /\ oldest' = IF newest = 0 THEN s
                    ELSE IF o = 0 /\ oldest = s THEN n ELSE oldest
       /\ newest' = s

\* The slots of chain b, hop by hop; 0 from its end on.
Chain(b) ==
  LET hop[i \in Slots] == IF i = 1 THEN bucket[b]
                          ELSE IF hop[i - 1] = 0 THEN 0 ELSE hashNext[hop[i - 1]]
  IN hop

ChainSlots(b) == ToSet(Chain(b)) \ {0}

\* The slot DoomColumnCache_Find stops at: the first of its chain with the key.
FoundSlot(k) ==
  LET c == Chain(hash[k])
      At(i) == c[i] \in Slots /\ key[c[i]] = k
  IN IF \E i \in Slots : At(i)
       THEN c[CHOOSE i \in Slots : At(i) /\ \A j \in 1 .. i - 1 : ~At(j)]
       ELSE 0

\* DoomColumnCache_Insert: the slot it takes, a fresh one or the oldest.
InsertSlotNewest == IF count < Capacity THEN count + 1 ELSE newest

InsertSlot == IF count < Capacity THEN count + 1 ELSE oldest

\* The chains without the evicted slot s.
UnlinkBucketOnly(s) ==
  [bucket |-> [bucket EXCEPT ![hash[key[s]]] = IF @ = s THEN hashNext[s] ELSE @],
   next   |-> hashNext]

Unlink(s) ==
  LET b == hash[key[s]] IN
  [bucket |-> [bucket EXCEPT ![b] = IF @ = s THEN hashNext[s] ELSE @],
   next   |-> [x \in Slots |-> IF x \in ChainSlots(b) /\ hashNext[x] = s
                                 THEN hashNext[s] ELSE hashNext[x]]]

CountOnUnbounded == count + 1

CountOn == IF count < Capacity THEN count + 1 ELSE count

InsertKey(k) ==
  LET s == InsertSlot
      c == IF count < Capacity THEN [bucket |-> bucket, next |-> hashNext]
                               ELSE Unlink(s)
  IN
  /\ count' = CountOn
  /\ key' = [key EXCEPT ![s] = k]
  /\ hashNext' = [c.next EXCEPT ![s] = c.bucket[hash[k]]]
  /\ bucket' = [c.bucket EXCEPT ![hash[k]] = s]
  /\ Touch(s)

\* DoomColumnCache_Find on a hit: the slot becomes the most recently used.
FindHit(k) == FoundSlot(k) # 0 /\ Touch(FoundSlot(k)) /\ UNCHANGED <<hash, chains>>

-----------------------------------------------------------------------------
\* Properties.

IndexTypeOK ==
  /\ hash \in Hashes
  /\ key \in [Slots -> Keys \cup {None}]
  /\ hashNext \in [Slots -> Links]
  /\ older \in [Slots -> Links] /\ newer \in [Slots -> Links]
  /\ bucket \in [Buckets -> Links]
  /\ count \in Links /\ oldest \in Links /\ newest \in Links

(* Whatever the hash function and the history of evictions, each chain holds *)
(* the filled slots whose key hashes to it, each once, and ends: Find cannot *)
(* loop, and the walk of Insert to the link it cuts always meets it.         *)
ChainsWellFormed ==
  /\ \A b \in Buckets :
       /\ ChainSlots(b) = {s \in 1 .. count : hash[key[s]] = b}
       /\ Chain(b)[Capacity] # 0 => hashNext[Chain(b)[Capacity]] = 0
       /\ \A i, j \in Slots : i < j /\ Chain(b)[j] # 0 => Chain(b)[i] # Chain(b)[j]
  /\ \A s, t \in 1 .. count : key[s] = key[t] => s = t

\* The filled slots from the newest to the oldest, along the older links.
Recency ==
  LET hop[i \in 1 .. count] == IF i = 1 THEN newest
                               ELSE IF hop[i - 1] = 0 THEN 0 ELSE older[hop[i - 1]]
  IN hop

(* The use list runs through every filled slot once, both ways: no slot is   *)
(* lost to eviction for good and none is recycled out of turn.               *)
RecencyWellFormed ==
  /\ ToSet(Recency) = 1 .. count
  /\ count > 0 => Recency[count] = oldest /\ older[oldest] = 0 /\ newer[newest] = 0
  /\ \A i \in 1 .. count - 1 : newer[Recency[i + 1]] = Recency[i]

\* The cached keys, last used first.
KeysByUse == [i \in 1 .. count |->
                IF Recency[i] = 0 THEN None ELSE key[Recency[i]]]

=============================================================================
