--------------------------- MODULE MCColumnDecode ---------------------------
(* Columns of every height and two flats over two tall slots.               *)
EXTENDS ColumnDecode

\* Naturals fit the index; t and u the tall cache; h neither; x does not decode.
MCShort == {"a", "b", "c", "d"}

MCTall == {"t", "u", "h"}

MCHuge == {"h"}

MCKeys == MCShort \cup MCTall \cup {"x"}

\* f decodes; y does not.
MCFlats == {"f", "y"}

MCUndecodable == {"x", "y"}

MCBuckets == {0, 1}

\* Columns that never enter the index hash anywhere.
MCHashes == {h \in [MCKeys -> MCBuckets] : \A k \in MCKeys \ MCShort : h[k] = 0}

\* Entries that are not valid are not told apart, nor are returned pointers that
\* show what was asked for: no action reads either.
MCView ==
  <<index, asked, pixels, clock, flat, result.asked = result.shows,
    [t \in TSlots |-> IF tallValid[t] THEN <<tallKey[t], tallAge[t], area[t]>>
                     ELSE IF flat # None THEN <<area[t]>> ELSE <<>>]>>

=============================================================================
