------------------------------ MODULE MCSound ------------------------------
(* A small instance of Sound for TLC.                                        *)
EXTENDS Sound, TLC

CONSTANTS shot, groan, hush, noise, imp, man

MCSounds == {shot, groan, hush, noise}
MCPriority == (shot :> 1) @@ (groan :> 2) @@ (noise :> 2) @@ (hush :> 2)
MCBlocks == (shot :> 1) @@ (groan :> 2) @@ (noise :> 0) @@ (hush :> 0)
MCLastSamples == (shot :> 2) @@ (groan :> 1) @@ (noise :> 1) @@ (hush :> 1)
MCUnplayable == {noise}
MCOrigins == {imp, man}
MCSteps == {0, 2}

=============================================================================
