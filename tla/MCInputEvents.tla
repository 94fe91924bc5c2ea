--------------------------- MODULE MCInputEvents ---------------------------
(* The buttons of both chords and the fire button, or all twelve actions.    *)
EXTENDS InputEvents

MCBindings == <<"fire", "menu", "back", "strafeleft", "straferight">>

MCPairingChord == {"menu", "back"}

MCResetChord == {"strafeleft", "straferight", "back"}

MCHolds == SUBSET {"fire", "menu", "back", "strafeleft", "straferight"}

MCDelays == 1 .. 2

\* s_bindings, and a player who presses two buttons, then seven more, and lets
\* go of all at once.
MCAllBindings ==
  <<"up", "down", "left", "right", "fire", "use", "menu", "accept", "back",
    "strafe", "strafeleft", "straferight">>

MCNineHolds ==
  {{}, {"up", "fire"},
   {"up", "down", "left", "right", "fire", "use", "menu", "strafe", "strafeleft"}}

MCNoDelays == {0}

\* Of the ring, only the events still in it matter.
MCView ==
  <<chords, published, gamekeydown, playing,
    [i \in 0 .. ((MaxEvents + eventhead - eventtail) % MaxEvents) - 1 |->
       events[(eventtail + i) % MaxEvents]]>>

=============================================================================
