-------------------------- MODULE MCVideoPipeline --------------------------
(* VideoPipeline on the configurations the repository builds, for TLC.      *)
EXTENDS VideoPipeline

\* RP2350 with the ILI9341 panel: two framebuffers, overlays on core1.
FinalizingBuild ==
  [asyncHud |-> TRUE, doubleBuffer |-> TRUE, syncFlush |-> FALSE]

MCFinalizing == {FinalizingBuild}

\* Every combination of the three options.
MCAllBuilds == Build

MCOthers == Build \ MCFinalizing

SceneView == <<build, displayReady, pc0, tics, frame, view, oldLevel, menu, action,
   preWipe, hudPal, renderBuf, dest0, pal0, flushPending, flushBusy,
   flushBuffer, hudPending, hudBusy, hudFinalize, override, dest, stPal,
   stStopped, nextPal, activePal, palTable, [b \in Buffers |-> buf[b].scene],
   Shown, pc1, buffer1, finalize1, dest1>>

=============================================================================
