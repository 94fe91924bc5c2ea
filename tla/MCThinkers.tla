---------------------------- MODULE MCThinkers ----------------------------
(* A small instance of Thinkers for TLC.                                     *)
EXTENDS Thinkers

MCTypes == {"mobj"}
MCSlotSize == [type \in MCTypes |-> 1]

\* What memory holds outside of blocks, and in blocks of another kind, is never
\* read: states that differ in nothing else are one.
MCView ==
  <<[b \in live \cup {Head, IF phase = "freeing tags" THEN cursor ELSE Head} |->
       <<next[b], prev[b], size[b], tag[b]>>], rover, panicked,
    [t \in objects \cup {Cap} |-> spNext[t]], [t \in objects |-> poolInfo[t]],
    [type \in MCTypes |-> [b \in Blocks(type) |->
       <<extra[b], IF extra[b] = {} THEN Nil ELSE spNext[LinkOf(b, type, extra)]>>]],
    removed, tail, pool, phase, cursor, objects, overdue>>

=============================================================================
