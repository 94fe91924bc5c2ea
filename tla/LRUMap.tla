------------------------------- MODULE LRUMap -------------------------------
(* What a bounded cache with least-recently-used replacement promises: a key *)
(* is missed exactly when it is not cached, and the key given up for a new   *)
(* one is the one whose last use is longest ago.                             *)
EXTENDS Naturals, Sequences

CONSTANTS
  Keys,      \* what is looked up
  Capacity,  \* entries the cache holds
  None

VARIABLES
  order,     \* the cached keys, last used first
  missing    \* the key just missed, which may be inserted; or None

vars == <<order, missing>>

Init == order = <<>> /\ missing = None

Cached(k) == \E i \in 1 .. Len(order) : order[i] = k

\* The keys used later than k move back by one.
Hit(k) ==
  /\ missing = None
  /\ \E j \in 1 .. Len(order) :
       /\ order[j] = k
       /\ order' = [i \in 1 .. Len(order) |->
                      IF i = 1 THEN k ELSE IF i <= j THEN order[i - 1] ELSE order[i]]
  /\ UNCHANGED missing

Miss(k) ==
  /\ missing = None /\ ~Cached(k)
  /\ missing' = k
  /\ UNCHANGED order

\* All move back, the last one out of a cache that is full.
Insert ==
  /\ missing # None
  /\ order' = [i \in 1 .. (IF Len(order) < Capacity THEN Len(order) + 1 ELSE Capacity) |->
                 IF i = 1 THEN missing ELSE order[i - 1]]
  /\ missing' = None

\* The value missed was found elsewhere, or could not be made.
GiveUp ==
  /\ missing # None
  /\ missing' = None
  /\ UNCHANGED order

Next == Insert \/ GiveUp \/ \E k \in Keys : Hit(k) \/ Miss(k)

Spec == Init /\ [][Next]_vars

=============================================================================
