------------------------ MODULE VideoPipeline_proofs ------------------------
(* Proofs about VideoPipeline, for every set of builds, number of strips and *)
(* frame numbers, set of palettes and bound on tics.                         *)
EXTENDS VideoPipeline, TLAPS

Inv == TypeOK /\ Handover

\* A frame number stays one when the frame loop counts on.
LEMMA NextFrameType == \A n \in Frames : (n + 1) % FrameMod \in Frames
BY BoundsAssumption DEF Frames

\* The initial states satisfy the invariant.
LEMMA InitInv == Init => Inv
<1> SUFFICES ASSUME Init PROVE Inv
  OBVIOUS
<1>1. TypeOK
  BY BoundsAssumption, PalettesAssumption, BuildsAssumption
  DEF Init, TypeOK, Pc0, Pc1, Frames, Views, Buffers, Cores, Content
<1>2. Handover
  BY NoneAssumption
  DEF Init, Handover, FlagsInv, Core1Inv, Core0Inv, FinalizePcs, OverlayPcs,
      DrawnPcs, HoldsBufferPcs
<1> QED BY <1>1, <1>2 DEF Inv

\* Core0 keeps the types.
LEMMA Core0Type == Inv /\ Core0 => TypeOK'
<1> SUFFICES ASSUME Inv, Core0 PROVE TypeOK'
  OBVIOUS
<1> USE DEF Inv, TypeOK, Pc0, Views, Buffers, config, game, flush, hud, screen,
            pal, local0, local1, Goto0
<1>1. CASE TicPlay
  BY <1>1, BoundsAssumption DEF TicPlay, TicCommon
<1>2. CASE TicDefer
  BY <1>2, BoundsAssumption DEF TicDefer, TicCommon
<1>3. CASE TicRunAction
  <2>1. PICK v \in {"level", "page"} : EnterView(v)
    BY <1>3 DEF TicRunAction
  <2>2. view' \in Views /\ stPal' \in Palettes \cup {None} /\ stStopped' \in BOOLEAN
    BY <2>1 DEF EnterView
  <2>3. nextPal' \in Palettes \cup {None}
    BY <2>1, PalettesAssumption DEF EnterView, SetPaletteNum
  <2> QED BY <1>3, <2>2, <2>3, BoundsAssumption DEF TicRunAction, TicCommon
<1>4. CASE TicAdvanceDemo
  <2>1. PICK v \in {"level", "page"} : EnterView(v)
    BY <1>4 DEF TicAdvanceDemo
  <2>2. view' \in Views /\ stPal' \in Palettes \cup {None} /\ stStopped' \in BOOLEAN
    BY <2>1 DEF EnterView
  <2>3. nextPal' \in Palettes \cup {None}
    BY <2>1, PalettesAssumption DEF EnterView, SetPaletteNum
  <2>4. action' \in BOOLEAN
    BY <1>4 DEF TicAdvanceDemo
  <2> QED BY <1>4, <2>2, <2>3, <2>4, BoundsAssumption DEF TicAdvanceDemo, TicCommon
<1>5. CASE TicsDone
  BY <1>5 DEF TicsDone
<1>6. CASE BeginRenderSame
  BY <1>6 DEF BeginRenderSame, RenderBusy, BufferTaken, Flushing, Finalizing
<1>7. CASE BeginRenderSwap
  BY <1>7 DEF BeginRenderSwap, RenderBusy, BufferTaken, Flushing, Finalizing
<1>8. CASE SelectRenderBuffer
  BY <1>8 DEF SelectRenderBuffer, OtherBuffer
<1>9. CASE RestoreBufferRead0
  BY <1>9 DEF RestoreBufferRead0, RestoreTarget
<1>10. CASE RestoreBufferWrite0
  BY <1>10 DEF RestoreBufferWrite0, Handover, Core0Inv
<1>11. CASE RenderStart
  <2>1. buf' \in [Buffers -> Content]
    BY <1>11 DEF RenderStart, Content
  <2>2. nextPal' \in Palettes \cup {None}
    BY <1>11, PalettesAssumption DEF RenderStart, SetPaletteNum
  <2> QED BY <1>11, <2>1, <2>2 DEF RenderStart, LevelView
<1>12. CASE RenderEnd
  <2>1. buf' \in [Buffers -> Content]
    BY <1>12 DEF RenderEnd, Content
  <2> QED BY <1>12, <2>1 DEF RenderEnd
<1>13. CASE EndFrame
  BY <1>13 DEF EndFrame, CanFinalizeGameplayAsync
<1>14. CASE StartAsyncFrameFinalize
  <2>1. frame' \in Frames /\ tics' \in 0 .. MaxTics
    BY <1>14, NextFrameType, BoundsAssumption DEF StartAsyncFrameFinalize, NextFrame
  <2>2. CASE HudFree
    BY <1>14, <2>1, <2>2 DEF StartAsyncFrameFinalize
  <2>3. CASE ~HudFree
    BY <1>14, <2>3 DEF StartAsyncFrameFinalize
  <2> QED BY <2>2, <2>3
<1>15. CASE StartAsyncHud
  <2>1. CASE build.asyncHud /\ HudFree
    BY <1>15, <2>1 DEF StartAsyncHud
  <2>2. CASE ~(build.asyncHud /\ HudFree)
    BY <1>15, <2>2 DEF StartAsyncHud
  <2> QED BY <2>1, <2>2
<1>16. CASE WaitForAsyncHud
  BY <1>16 DEF WaitForAsyncHud
<1>17. CASE OverlayBegin0
  BY <1>17 DEF OverlayBegin0, BeginPatchList
<1>18. CASE OverlayDraw0
  BY <1>18 DEF OverlayDraw0, DrawFrameOverlay, QueuePatches, StDrawer, SetPaletteNum, MarkFrameRendered
<1>19. CASE OverlayFlush0
  BY <1>19 DEF OverlayFlush0, FlushPatchList, Content
<1>20. CASE FinishUpdate
  <2>1. frame' \in Frames /\ tics' \in 0 .. MaxTics
    BY <1>20, NextFrameType, BoundsAssumption DEF FinishUpdate, NextFrame
  <2> QED BY <1>20, <2>1 DEF FinishUpdate
<1>21. CASE SubmitFlush
  <2>1. frame' \in Frames /\ tics' \in 0 .. MaxTics
    BY <1>21, NextFrameType, BoundsAssumption DEF SubmitFlush, NextFrame
  <2> QED BY <1>21, <2>1 DEF SubmitFlush
<1>22. CASE SyncFlushStrip
  <2>1. shot' \in [Cores -> Seq(Strip)]
    <3>1. [scene |-> buf[renderBuf].scene, overlay |-> buf[renderBuf].overlay,
           pal |-> palTable] \in Strip
      BY DEF Content, Strip
    <3> QED BY <1>22, <3>1 DEF SyncFlushStrip, SendStrip, Cores
  <2> QED BY <1>22, <2>1 DEF SyncFlushStrip
<1>23. CASE SyncFlushDone
  <2>1. frame' \in Frames /\ tics' \in 0 .. MaxTics
    BY <1>23, NextFrameType, BoundsAssumption DEF SyncFlushDone, NextFrame
  <2>2. shot' \in [Cores -> Seq(Strip)]
    BY <1>23 DEF SyncFlushDone, EndTransfer, Cores
  <2> QED BY <1>23, <2>1, <2>2 DEF SyncFlushDone
<1>24. CASE \/ WaitForAsyncFlush("finWait", "finPal")
            \/ WaitForAsyncFlush("finishWaitPal", "finishPal")
            \/ WaitForAsyncFlush("finishWait", "submit")
  BY <1>24 DEF WaitForAsyncFlush
<1>25. CASE \/ UpdatePaletteStart("finPal", "finPalBuild", "finStart")
            \/ UpdatePaletteStart("finishPal", "finishPalBuild", "finishWait")
  BY <1>25 DEF UpdatePaletteStart, PaletteUpdatePending
<1>26. CASE \/ UpdatePaletteEnd("finPalBuild", "finStart")
            \/ UpdatePaletteEnd("finishPalBuild", "finishWait")
  BY <1>26 DEF UpdatePaletteEnd
<1> QED
  BY <1>1, <1>2, <1>3, <1>4, <1>5, <1>6, <1>7, <1>8, <1>9, <1>10, <1>11,
     <1>12, <1>13, <1>14, <1>15, <1>16, <1>17, <1>18, <1>19, <1>20, <1>21,
     <1>22, <1>23, <1>24, <1>25, <1>26 DEF Core0, Tic

\* Core1 keeps the types.
LEMMA Core1Type == Inv /\ Core1 => TypeOK'
<1> SUFFICES ASSUME Inv, Core1 PROVE TypeOK'
  OBVIOUS
<1> USE DEF Inv, TypeOK, Pc1, Buffers, config, game, flush, hud, screen, pal,
            local0, local1, Goto1
<1>1. CASE PollFlush
  <2>1. flushPending' \in BOOLEAN
    BY <1>1 DEF PollFlush
  <2>2. buffer1' \in Buffers \cup {None}
    BY <1>1 DEF PollFlush
  <2>3. pc1' \in Pc1
    BY <1>1 DEF PollFlush, AfterFlush
  <2> QED BY <1>1, <2>1, <2>2, <2>3 DEF PollFlush
<1>2. ASSUME NEW b \in Buffers, SendStrip(1, b)
      PROVE  shot' \in [Cores -> Seq(Strip)]
  <2>1. [scene |-> buf[b].scene, overlay |-> buf[b].overlay, pal |-> palTable]
          \in Strip
    BY DEF Content, Strip
  <2> QED BY <1>2, <2>1 DEF SendStrip, Cores
<1>3. ASSUME EndTransfer(1) PROVE shot' \in [Cores -> Seq(Strip)]
  BY <1>3 DEF EndTransfer, Cores
<1>4. CASE FlushStrip1
  <2>1. buffer1 \in Buffers
    BY <1>4 DEF FlushStrip1, Handover, Core1Inv
  <2>2. shot' \in [Cores -> Seq(Strip)]
    BY <1>2, <1>4, <2>1 DEF FlushStrip1
  <2> QED BY <1>4, <2>2 DEF FlushStrip1
<1>5. CASE FlushDone
  <2>1. shot' \in [Cores -> Seq(Strip)]
    BY <1>3, <1>5 DEF FlushDone
  <2> QED BY <1>5, <2>1 DEF FlushDone, AfterFlush, BusyAfterFlush
<1>6. CASE PollHud
  <2>1. CASE hudPending
    <3>1. hudPending' \in BOOLEAN /\ hudBusy' \in BOOLEAN
      BY <1>6, <2>1 DEF PollHud
    <3>2. pc1' \in Pc1 /\ finalize1' \in Buffers \cup {None}
      BY <1>6, <2>1 DEF PollHud
    <3> QED BY <1>6, <3>1, <3>2 DEF PollHud
  <2>2. CASE ~hudPending
    BY <1>6, <2>2 DEF PollHud
  <2> QED BY <2>1, <2>2
<1>7. CASE \/ SetRestoreBufferOverride("override", finalize1, "restoreRead")
           \/ SetRestoreBufferOverride("overrideNull", None, "restoreReadNull")
  BY <1>7 DEF SetRestoreBufferOverride
<1>8. CASE \/ RestoreBufferRead1("restoreRead", "restoreWrite")
           \/ RestoreBufferRead1("restoreReadNull", "restoreWriteNull")
  BY <1>8 DEF RestoreBufferRead1, RestoreTarget
<1>9. CASE \/ RestoreBufferWrite1("restoreWrite", "overlayBegin")
           \/ RestoreBufferWrite1("restoreWriteNull", "publish")
  BY <1>9 DEF RestoreBufferWrite1, Handover, Core1Inv
<1>10. CASE OverlayBegin1
  BY <1>10 DEF OverlayBegin1, BeginPatchList
<1>11. CASE OverlayDraw1
  <2>1. preWipe' \in {"idle", "needed", "rendered"}
    BY <1>11 DEF OverlayDraw1, DrawFrameOverlay, MarkFrameRendered
  <2>2. stPal' \in Palettes \cup {None} /\ nextPal' \in Palettes \cup {None}
    BY <1>11 DEF OverlayDraw1, DrawFrameOverlay, StDrawer, SetPaletteNum
  <2>3. patchList' \subseteq Frames
    <3>1. CASE finalize1 = None
      BY <1>11, <3>1 DEF OverlayDraw1, DrawFrameOverlay, QueuePatches
    <3>2. CASE finalize1 # None
      <4>1. finalize1 = hudFinalize
        BY <1>11 DEF OverlayDraw1, Handover, Core1Inv, OverlayPcs
      <4>2. buf[finalize1].scene \in Frames
        BY <3>2, <4>1 DEF Handover, Core0Inv, Content
      <4> QED BY <1>11, <3>2, <4>2 DEF OverlayDraw1, QueuePatches
    <3> QED BY <3>1, <3>2
  <2> QED BY <1>11, <2>1, <2>2, <2>3 DEF OverlayDraw1
<1>12. CASE OverlayFlush1
  <2>1. buf' \in [Buffers -> Content]
    BY <1>12 DEF OverlayFlush1, FlushPatchList, Content
  <2> QED BY <1>12, <2>1 DEF OverlayFlush1
<1>13. CASE HudDone
  <2>1. hudBusy' \in BOOLEAN
    BY <1>13 DEF HudDone
  <2> QED BY <1>13, <2>1 DEF HudDone
<1>14. CASE FinalizePublish
  BY <1>14 DEF FinalizePublish
<1>15. CASE FinalizeStrip
  <2>1. finalize1 \in Buffers
    BY <1>15 DEF FinalizeStrip, Handover, Core1Inv, FinalizePcs
  <2>2. shot' \in [Cores -> Seq(Strip)]
    BY <1>2, <1>15, <2>1 DEF FinalizeStrip
  <2> QED BY <1>15, <2>2 DEF FinalizeStrip
<1>16. CASE FinalizeDone
  <2>1. shot' \in [Cores -> Seq(Strip)]
    BY <1>3, <1>16 DEF FinalizeDone
  <2>2. hudBusy' \in BOOLEAN /\ flushBusy' \in BOOLEAN
    BY <1>16 DEF FinalizeDone
  <2> QED BY <1>16, <2>1, <2>2 DEF FinalizeDone
<1> QED
  BY <1>1, <1>4, <1>5, <1>6, <1>7, <1>8, <1>9, <1>10, <1>11, <1>12, <1>13,
     <1>14, <1>15, <1>16 DEF Core1

\* Core0 keeps the hand-over bookkeeping.
LEMMA Core0Handover == Inv /\ Core0 => Handover'
<1> SUFFICES ASSUME Inv, Core0 PROVE Handover'
  OBVIOUS
<1> USE NoneAssumption
    DEF Inv, Handover, FlagsInv, Core1Inv, Core0Inv, DrawnPcs, HoldsBufferPcs,
        FlushIdle, config, game, flush, hud, screen, pal, local0, local1, Goto0,
        OtherBuffer
<1>1. CASE Tic
  BY <1>1 DEF Tic, TicPlay, TicDefer, TicRunAction, TicAdvanceDemo, TicCommon
<1>2. CASE TicsDone
  BY <1>2 DEF TicsDone
<1>3. CASE BeginRenderSame
  <2>1. renderBuf # None
    BY DEF TypeOK, Buffers
  <2>2. renderBuf \notin {flushBuffer, hudFinalize}
    <3>1. CASE FlushIdle
      BY <2>1, <3>1
    <3>2. CASE ~BufferTaken(renderBuf)
      BY <2>1, <3>2 DEF BufferTaken, Flushing, Finalizing
    <3> QED BY <1>3, <3>1, <3>2 DEF BeginRenderSame, RenderBusy
  <2> QED BY <1>3, <2>2 DEF BeginRenderSame
<1>4. CASE BeginRenderSwap
  BY <1>4 DEF BeginRenderSwap, RenderBusy, BufferTaken, Flushing, Finalizing
<1>5. CASE SelectRenderBuffer
  BY <1>5 DEF SelectRenderBuffer
<1>6. CASE RestoreBufferRead0
  BY <1>6 DEF RestoreBufferRead0, RestoreTarget, TypeOK, Buffers
<1>7. CASE RestoreBufferWrite0
  BY <1>7 DEF RestoreBufferWrite0
<1>8. CASE RenderStart
  BY <1>8 DEF RenderStart, TypeOK, Content
<1>9. CASE RenderEnd
  BY <1>9 DEF RenderEnd, TypeOK, Content, Frames
<1>10. CASE EndFrame
  BY <1>10 DEF EndFrame, CanFinalizeGameplayAsync
<1>11. CASE StartAsyncFrameFinalize
  BY <1>11 DEF StartAsyncFrameFinalize, HudFree, TypeOK
<1>12. CASE StartAsyncHud
  BY <1>12 DEF StartAsyncHud, HudFree
<1>13. CASE WaitForAsyncHud
  BY <1>13 DEF WaitForAsyncHud
<1>14. CASE OverlayBegin0 \/ OverlayDraw0
  BY <1>14 DEF OverlayBegin0, OverlayDraw0
<1>15. CASE OverlayFlush0
  BY <1>15 DEF OverlayFlush0, FlushPatchList, TypeOK, Content
<1>16. CASE FinishUpdate
  BY <1>16 DEF FinishUpdate
<1>17. CASE SubmitFlush
  BY <1>17 DEF SubmitFlush
<1>18. CASE SyncFlushStrip \/ SyncFlushDone
  BY <1>18 DEF SyncFlushStrip, SyncFlushDone
<1>19. CASE \/ WaitForAsyncFlush("finWait", "finPal")
            \/ WaitForAsyncFlush("finishWaitPal", "finishPal")
            \/ WaitForAsyncFlush("finishWait", "submit")
  BY <1>19 DEF WaitForAsyncFlush
<1>20. CASE \/ UpdatePaletteStart("finPal", "finPalBuild", "finStart")
            \/ UpdatePaletteStart("finishPal", "finishPalBuild", "finishWait")
  BY <1>20 DEF UpdatePaletteStart
<1>21. CASE \/ UpdatePaletteEnd("finPalBuild", "finStart")
            \/ UpdatePaletteEnd("finishPalBuild", "finishWait")
  BY <1>21 DEF UpdatePaletteEnd
<1> QED
  BY <1>1, <1>2, <1>3, <1>4, <1>5, <1>6, <1>7, <1>8, <1>9, <1>10, <1>11,
     <1>12, <1>13, <1>14, <1>15, <1>16, <1>17, <1>18, <1>19, <1>20, <1>21
  DEF Core0

\* Core1 keeps the hand-over bookkeeping.
LEMMA Core1Handover == Inv /\ Core1 => Handover'
<1> SUFFICES ASSUME Inv, Core1 PROVE Handover'
  OBVIOUS
<1> USE NoneAssumption
    DEF Inv, Handover, FlagsInv, Core1Inv, Core0Inv, DrawnPcs, HoldsBufferPcs,
        FinalizePcs, OverlayPcs, FlushIdle, config, game, flush, hud, screen,
        pal, local0, local1, Goto1, OtherBuffer
<1>1. CASE PollFlush
  BY <1>1 DEF PollFlush, AfterFlush
<1>2. CASE FlushStrip1
  BY <1>2 DEF FlushStrip1
<1>3. CASE FlushDone
  <2>1. flushBuffer' = None /\ flushBusy' = BusyAfterFlush /\ hudFinalize' = hudFinalize
    BY <1>3 DEF FlushDone
  <2>2. FlagsInv'
    BY <1>3, <2>1 DEF FlushDone, AfterFlush, BusyAfterFlush
  <2>3. renderBuf # None /\ OtherBuffer # None
    BY DEF TypeOK, Buffers
  <2>4. Core1Inv'
    BY <1>3 DEF FlushDone, AfterFlush
  <2>5. Core0Inv'
    BY <1>3, <2>3 DEF FlushDone, AfterFlush
  <2> QED BY <2>2, <2>4, <2>5
<1>4. CASE PollHud
  BY <1>4 DEF PollHud
<1>5. CASE \/ SetRestoreBufferOverride("override", finalize1, "restoreRead")
           \/ SetRestoreBufferOverride("overrideNull", None, "restoreReadNull")
  BY <1>5 DEF SetRestoreBufferOverride
<1>6. CASE \/ RestoreBufferRead1("restoreRead", "restoreWrite")
           \/ RestoreBufferRead1("restoreReadNull", "restoreWriteNull")
  BY <1>6 DEF RestoreBufferRead1, RestoreTarget, TypeOK, Buffers
<1>7. CASE \/ RestoreBufferWrite1("restoreWrite", "overlayBegin")
           \/ RestoreBufferWrite1("restoreWriteNull", "publish")
  BY <1>7 DEF RestoreBufferWrite1
<1>8. CASE OverlayBegin1 \/ OverlayDraw1
  BY <1>8 DEF OverlayBegin1, OverlayDraw1
<1>9. CASE OverlayFlush1
  BY <1>9 DEF OverlayFlush1, FlushPatchList, TypeOK, Content
<1>10. CASE HudDone
  BY <1>10 DEF HudDone
<1>11. CASE FinalizePublish
  BY <1>11 DEF FinalizePublish
<1>12. CASE FinalizeStrip
  BY <1>12 DEF FinalizeStrip
<1>13. CASE FinalizeDone
  <2>1. ~flushBusy' /\ ~hudBusy' /\ hudFinalize' = None /\ flushBuffer' = None
    BY <1>13 DEF FinalizeDone
  <2>2. FlagsInv'
    BY <1>13, <2>1 DEF FinalizeDone
  <2>3. renderBuf # None /\ OtherBuffer # None
    BY DEF TypeOK, Buffers
  <2>4. Core1Inv'
    BY <1>13 DEF FinalizeDone
  <2>5. Core0Inv'
    BY <1>13, <2>3 DEF FinalizeDone
  <2> QED BY <2>2, <2>4, <2>5
<1> QED
  BY <1>1, <1>2, <1>3, <1>4, <1>5, <1>6, <1>7, <1>8, <1>9, <1>10, <1>11,
     <1>12, <1>13 DEF Core1

\* A step that changes nothing keeps the invariant.
LEMMA StutterInv == Inv /\ UNCHANGED vars => Inv'
BY DEF Inv, TypeOK, Handover, FlagsInv, Core1Inv, Core0Inv, FlushIdle,
       OtherBuffer, vars

\* The invariant holds in every reachable state.
LEMMA InvCorrect == Spec => []Inv
<1>1. Inv /\ [Next]_vars => Inv'
  BY Core0Type, Core1Type, Core0Handover, Core1Handover, StutterInv
  DEF Next, Inv
<1> QED BY InitInv, <1>1, PTL DEF Spec

(* Every variable keeps its type; in particular the two cores never leave    *)
(* dest_screen or a buffer they flush without a value.                       *)
THEOREM TypeCorrect == Spec => []TypeOK
<1>1. Inv => TypeOK
  BY DEF Inv
<1> QED BY InvCorrect, <1>1, PTL

(* The flags and pointers of the hand-over fit the places the two cores are  *)
(* in, in every build.                                                       *)
THEOREM HandoverCorrect == Spec => []Handover
<1>1. Inv => Handover
  BY DEF Inv
<1> QED BY InvCorrect, <1>1, PTL

(* Core0 never draws a scene into a buffer core1 is flushing or has yet to   *)
(* finish (DoomVideo_BeginRenderFrame's choice of buffer).                   *)
THEOREM RenderBufferPrivateCorrect == Spec => []RenderBufferPrivate
<1>1. Inv => RenderBufferPrivate
  BY NoneAssumption
  DEF Inv, TypeOK, Handover, Core1Inv, Core0Inv, FlagsInv, HoldsBufferPcs,
      RenderBufferPrivate, Core1Buffers, Buffers
<1> QED BY InvCorrect, <1>1, PTL

-----------------------------------------------------------------------------
(* Why nothing of a level is in core1's hands when the level is torn down.   *)
(* An overlay-only request exists only while core0 waits for it; and once    *)
(* the frame of the pre-wipe state is drawn, core0 hands over nothing to     *)
(* finalize until a tic has run.  From the overlay to the submission it may  *)
(* still be waiting for what it handed over before.                          *)

WaitsForCore1Pcs ==
  {"hudWait", "overlayBegin", "overlayDraw", "overlayFlush", "finish",
   "finishWaitPal", "finishPal", "finishPalBuild", "finishWait"}

QuietInv ==
  /\ (hudPending \/ hudBusy) /\ hudFinalize = None => pc0 = "hudWait"
  /\ pc0 = "hudWait" => hudFinalize = None
  /\ pc0 \in {"finWait", "finPal", "finPalBuild", "finStart"} => preWipe = "idle"
  /\ displayReady /\ preWipe = "rendered" /\ pc0 \notin WaitsForCore1Pcs => HudFree

\* Core0 keeps it.
LEMMA Core0Quiet == Inv /\ QuietInv /\ Core0 => QuietInv'
<1> SUFFICES ASSUME Inv, QuietInv, Core0 PROVE QuietInv'
  OBVIOUS
<1> USE DEF QuietInv, WaitsForCore1Pcs, HudFree, config, game, flush, hud, screen,
            pal, local0, local1, Goto0
<1>1. CASE Tic
  BY <1>1 DEF Tic, TicPlay, TicDefer, TicRunAction, TicAdvanceDemo, TicCommon
<1>2. CASE TicsDone \/ BeginRenderSame \/ BeginRenderSwap \/ SelectRenderBuffer
  BY <1>2 DEF TicsDone, BeginRenderSame, BeginRenderSwap, SelectRenderBuffer
<1>3. CASE RestoreBufferRead0 \/ RestoreBufferWrite0 \/ RenderStart \/ RenderEnd
  BY <1>3 DEF RestoreBufferRead0, RestoreBufferWrite0, RenderStart, RenderEnd
<1>4. CASE EndFrame
  BY <1>4 DEF EndFrame, CanFinalizeGameplayAsync, PreWipeIsPending
<1>5. CASE StartAsyncFrameFinalize
  <2>1. renderBuf # None
    BY NoneAssumption DEF Inv, TypeOK, Buffers
  <2> QED BY <1>5, <2>1 DEF StartAsyncFrameFinalize
<1>6. CASE StartAsyncHud
  BY <1>6 DEF StartAsyncHud
<1>7. CASE WaitForAsyncHud
  BY <1>7 DEF WaitForAsyncHud
<1>8. CASE OverlayBegin0 \/ OverlayDraw0 \/ OverlayFlush0
  BY <1>8 DEF OverlayBegin0, OverlayDraw0, OverlayFlush0
<1>9. CASE FinishUpdate
  BY <1>9 DEF FinishUpdate
<1>10. CASE SubmitFlush \/ SyncFlushStrip \/ SyncFlushDone
  BY <1>10 DEF SubmitFlush, SyncFlushStrip, SyncFlushDone
<1>11. CASE \/ WaitForAsyncFlush("finWait", "finPal")
            \/ WaitForAsyncFlush("finishWaitPal", "finishPal")
  BY <1>11 DEF WaitForAsyncFlush
<1>12. CASE WaitForAsyncFlush("finishWait", "submit")
  <2>1. hudFinalize = None
    BY <1>12 DEF WaitForAsyncFlush, FlushIdle, Inv, Handover, FlagsInv
  <2> QED BY <1>12, <2>1 DEF WaitForAsyncFlush
<1>13. CASE \/ UpdatePaletteStart("finPal", "finPalBuild", "finStart")
            \/ UpdatePaletteStart("finishPal", "finishPalBuild", "finishWait")
  BY <1>13 DEF UpdatePaletteStart
<1>14. CASE \/ UpdatePaletteEnd("finPalBuild", "finStart")
            \/ UpdatePaletteEnd("finishPalBuild", "finishWait")
  BY <1>14 DEF UpdatePaletteEnd
<1> QED
  BY <1>1, <1>2, <1>3, <1>4, <1>5, <1>6, <1>7, <1>8, <1>9, <1>10, <1>11, <1>12,
     <1>13, <1>14 DEF Core0

\* Core1 keeps it.
LEMMA Core1Quiet == Inv /\ QuietInv /\ Core1 => QuietInv'
<1> SUFFICES ASSUME Inv, QuietInv, Core1 PROVE QuietInv'
  OBVIOUS
<1> USE DEF QuietInv, WaitsForCore1Pcs, HudFree, config, game, flush, hud, screen,
            pal, local0, local1, Goto1
<1>0. /\ hudBusy <=> pc1 \in FinalizePcs \cup OverlayPcs \cup {"hudDone"}
      /\ ~(hudPending /\ hudBusy)
      /\ pc1 \in FinalizePcs \cup OverlayPcs => finalize1 = hudFinalize
  BY DEF Inv, Handover, FlagsInv, Core1Inv
<1>1. CASE PollFlush \/ FlushStrip1 \/ FlushDone
  BY <1>1 DEF PollFlush, FlushStrip1, FlushDone
<1>2. CASE PollHud
  BY <1>2 DEF PollHud
<1>3. CASE \/ SetRestoreBufferOverride("override", finalize1, "restoreRead")
           \/ SetRestoreBufferOverride("overrideNull", None, "restoreReadNull")
           \/ RestoreBufferRead1("restoreRead", "restoreWrite")
           \/ RestoreBufferRead1("restoreReadNull", "restoreWriteNull")
           \/ RestoreBufferWrite1("restoreWrite", "overlayBegin")
           \/ RestoreBufferWrite1("restoreWriteNull", "publish")
  BY <1>3 DEF SetRestoreBufferOverride, RestoreBufferRead1, RestoreBufferWrite1
<1>4. CASE OverlayBegin1 \/ OverlayFlush1
  BY <1>4 DEF OverlayBegin1, OverlayFlush1
<1>5. CASE OverlayDraw1
  <2>1. hudBusy /\ (finalize1 = None => pc0 = "hudWait")
    BY <1>0, <1>5 DEF OverlayDraw1, OverlayPcs
  <2>2. preWipe' = preWipe \/ finalize1 = None
    BY <1>5 DEF OverlayDraw1
  <2> QED BY <1>5, <2>1, <2>2 DEF OverlayDraw1
<1>6. CASE HudDone
  BY <1>6 DEF HudDone
<1>7. CASE FinalizePublish \/ FinalizeStrip
  BY <1>7 DEF FinalizePublish, FinalizeStrip
<1>8. CASE FinalizeDone
  <2>1. ~hudPending /\ hudBusy
    BY <1>0, <1>8 DEF FinalizeDone, FinalizePcs
  <2> QED BY <1>8, <2>1 DEF FinalizeDone
<1> QED
  BY <1>1, <1>2, <1>3, <1>4, <1>5, <1>6, <1>7, <1>8 DEF Core1

(* When G_Ticker carries out a deferred level change, core1 has no overlay   *)
(* in hand or waiting, in every build: nothing on core1 reads the level that *)
(* is being torn down.                                                       *)
THEOREM LevelChangeQuiescentCorrect == Spec => []LevelChangeQuiescent
<1>1. Init => QuietInv
  BY DEF Init, QuietInv, HudFree
<1>2. Inv /\ QuietInv /\ [Next]_vars => QuietInv'
  <2>1. ASSUME QuietInv, UNCHANGED vars PROVE QuietInv'
    BY <2>1 DEF QuietInv, HudFree, vars
  <2> QED BY <2>1, Core0Quiet, Core1Quiet DEF Next
<1>3. Spec => []QuietInv
  BY <1>1, <1>2, InvCorrect, PTL DEF Spec
<1>4. Inv /\ QuietInv => LevelChangeQuiescent
  <2> SUFFICES ASSUME Inv, QuietInv, displayReady, pc0 = "tic", preWipe = "rendered"
               PROVE  HudFree /\ pc1 \in {"poll", "pollHud", "flush"}
    BY DEF LevelChangeQuiescent
  <2>1. HudFree
    BY DEF QuietInv, WaitsForCore1Pcs
  <2>2. pc1 \in Pc1 /\ pc1 \notin FinalizePcs \cup OverlayPcs \cup {"hudDone"}
    BY <2>1 DEF HudFree, Inv, TypeOK, Handover, FlagsInv
  <2> QED BY <2>1, <2>2 DEF Pc1, FinalizePcs, OverlayPcs
<1> QED BY <1>3, <1>4, InvCorrect, PTL

-----------------------------------------------------------------------------
(* Whole frames, in the builds that do not finalize frames on core1.  Then   *)
(* core1 draws an overlay only while core0 waits for it, dest_screen is the  *)
(* buffer being drawn, and the palette table is rebuilt only when nothing is *)
(* being sent.                                                               *)

NoFinalize == \A b \in Builds : ~(b.asyncHud /\ b.doubleBuffer /\ ~b.syncFlush)

\* dest_screen follows I_VideoBuffer.
ScreenInv ==
  /\ override = None
  /\ pc0 \notin {"restoreRead", "restoreWrite"} => dest = renderBuf
  /\ pc0 = "restoreWrite" => dest0 = renderBuf

\* Which overlay is where, and that a buffer being flushed has its own.
OverlayInv ==
  /\ pc0 \in DrawnPcs => buf[renderBuf].scene = frame
  /\ pc0 \in {"end", "hudStart", "overlayBegin", "overlayDraw", "overlayFlush"} =>
       buf[renderBuf].overlay = {}
  /\ pc0 = "overlayDraw" => patchList = {}
  /\ pc0 = "overlayFlush" => patchList = {frame}
  /\ pc0 = "hudWait" =>
       /\ buf[renderBuf].overlay = IF hudPending \/ pc1 \in OverlayPcs THEN {} ELSE {frame}
       /\ pc1 = "overlayDraw" => patchList = {}
       /\ pc1 = "overlayFlush" => patchList = {frame}
  /\ pc0 \in {"finish", "finishWaitPal", "finishPal", "finishPalBuild", "finishWait",
              "submit"} => buf[renderBuf].overlay = {frame}
  /\ flushBuffer # None => buf[flushBuffer].overlay = {buf[flushBuffer].scene}

\* The table is half built only when nothing is being flushed.
PaletteInv ==
  /\ palTable = None => nextPal # None
  /\ ~FlushIdle => palTable # None
  /\ pc0 \in {"finishWait", "submit"} => palTable # None
  /\ pc0 = "finishPal" /\ nextPal # None => FlushIdle
  /\ pc0 = "finishPalBuild" => FlushIdle
  /\ build.syncFlush => FlushIdle
  /\ ~build.doubleBuffer /\ pc0 \notin {"tic", "begin"} => FlushIdle

\* The strips sent are those of the buffer in hand, as it still is.
StripOf(b) == [scene |-> buf[b].scene, overlay |-> buf[b].overlay, pal |-> palTable]

ShotInv ==
  /\ \A i \in 1 .. Len(shot[1]) : shot[1][i] = StripOf(buffer1)
  /\ pc1 # "flush" => shot[1] = <<>>
  /\ \A i \in 1 .. Len(shot[0]) : shot[0][i] = StripOf(renderBuf)
  /\ ~(pc0 = "submit" /\ build.syncFlush) => shot[0] = <<>>

FramesInv == Inv /\ QuietInv /\ ScreenInv /\ OverlayInv /\ PaletteInv /\ ShotInv

\* What these builds cannot do.
LEMMA NothingFinalized ==
  ASSUME NoFinalize, Inv, QuietInv
  PROVE  /\ hudFinalize = None /\ finalize1 = None /\ pc1 \notin FinalizePcs
         /\ pc0 \notin {"finWait", "finPal", "finPalBuild", "finStart"}
         /\ ~CanFinalizeGameplayAsync
         /\ hudPending \/ pc1 \in OverlayPcs \cup {"hudDone"} => pc0 = "hudWait"
         /\ ~(hudPending /\ pc1 \in OverlayPcs \cup {"hudDone"})
         /\ ~hudBusy => pc1 \notin OverlayPcs \cup {"hudDone"}
         /\ renderBuf \in Buffers /\ renderBuf # None
<1>1. ~(build.asyncHud /\ build.doubleBuffer /\ ~build.syncFlush)
  BY DEF NoFinalize, Inv, TypeOK
<1>2. hudFinalize = None
  BY <1>1 DEF Inv, Handover, FlagsInv
<1>3. pc1 \notin FinalizePcs /\ finalize1 = None
  BY <1>2 DEF Inv, Handover, Core1Inv
<1>4. pc0 \notin {"finWait", "finPal", "finPalBuild", "finStart"}
  BY <1>1 DEF Inv, Handover, Core0Inv
<1>5. ~CanFinalizeGameplayAsync
  BY <1>1 DEF CanFinalizeGameplayAsync
<1>6. /\ hudBusy <=> pc1 \in FinalizePcs \cup OverlayPcs \cup {"hudDone"}
      /\ ~(hudPending /\ hudBusy)
  BY DEF Inv, Handover, FlagsInv
<1>7. hudPending \/ hudBusy => pc0 = "hudWait"
  BY <1>2 DEF QuietInv
<1>8. renderBuf \in Buffers /\ renderBuf # None
  BY NoneAssumption DEF Inv, TypeOK, Buffers
<1> QED BY <1>2, <1>3, <1>4, <1>5, <1>6, <1>7, <1>8

\* What a buffer in flight is: not the one core0 holds, and full.
LEMMA InFlight ==
  ASSUME Inv
  PROVE  /\ pc1 = "flush" => flushBuffer = buffer1 /\ flushBuffer # None /\ ~FlushIdle
         /\ flushBuffer # None => buf[flushBuffer].scene # None /\ flushBuffer \in Buffers
         /\ pc0 \in HoldsBufferPcs => renderBuf # flushBuffer
         /\ pc0 = "submit" => FlushIdle
BY DEF Inv, TypeOK, Handover, FlagsInv, Core1Inv, Core0Inv, FlushIdle

\* Core0 and the screen.
LEMMA Core0Screen ==
  ASSUME NoFinalize, FramesInv, Core0
  PROVE  ScreenInv'
<1> USE DEF ScreenInv, config, game, flush, hud, screen, pal, local0, local1, Goto0
<1>0. ScreenInv /\ Inv /\ QuietInv
  BY DEF FramesInv
<1>1. pc0 \notin {"finWait", "finPal", "finPalBuild", "finStart"}
  BY <1>0, NothingFinalized
<1>2. CASE Tic
  BY <1>0, <1>2 DEF Tic, TicPlay, TicDefer, TicRunAction, TicAdvanceDemo, TicCommon
<1>3. CASE TicsDone \/ BeginRenderSame \/ BeginRenderSwap \/ SelectRenderBuffer
  BY <1>0, <1>3 DEF TicsDone, BeginRenderSame, BeginRenderSwap, SelectRenderBuffer
<1>4. CASE RestoreBufferRead0 \/ RestoreBufferWrite0
  BY <1>0, <1>4 DEF RestoreBufferRead0, RestoreBufferWrite0, RestoreTarget
<1>5. CASE RenderStart \/ RenderEnd \/ EndFrame
  BY <1>0, <1>5 DEF RenderStart, RenderEnd, EndFrame
<1>6. CASE StartAsyncFrameFinalize
  BY <1>1, <1>6 DEF StartAsyncFrameFinalize
<1>7. CASE StartAsyncHud \/ WaitForAsyncHud
  BY <1>0, <1>7 DEF StartAsyncHud, WaitForAsyncHud
<1>8. CASE OverlayBegin0 \/ OverlayDraw0 \/ OverlayFlush0
  BY <1>0, <1>8 DEF OverlayBegin0, OverlayDraw0, OverlayFlush0
<1>9. CASE FinishUpdate
  BY <1>0, <1>9 DEF FinishUpdate
<1>10. CASE SubmitFlush \/ SyncFlushStrip \/ SyncFlushDone
  BY <1>0, <1>10 DEF SubmitFlush, SyncFlushStrip, SyncFlushDone
<1>11. CASE \/ WaitForAsyncFlush("finWait", "finPal")
            \/ WaitForAsyncFlush("finishWaitPal", "finishPal")
            \/ WaitForAsyncFlush("finishWait", "submit")
  BY <1>0, <1>11 DEF WaitForAsyncFlush
<1>12. CASE \/ UpdatePaletteStart("finPal", "finPalBuild", "finStart")
            \/ UpdatePaletteStart("finishPal", "finishPalBuild", "finishWait")
  BY <1>0, <1>12 DEF UpdatePaletteStart
<1>13. CASE \/ UpdatePaletteEnd("finPalBuild", "finStart")
            \/ UpdatePaletteEnd("finishPalBuild", "finishWait")
  BY <1>0, <1>13 DEF UpdatePaletteEnd
<1> QED
  BY <1>2, <1>3, <1>4, <1>5, <1>6, <1>7, <1>8, <1>9, <1>10, <1>11, <1>12, <1>13
  DEF Core0

\* Core0 and the overlays.
LEMMA Core0Overlay ==
  ASSUME NoFinalize, FramesInv, Core0
  PROVE  OverlayInv'
<1> USE DEF OverlayInv, DrawnPcs, config, game, flush, hud, screen, pal, local0,
            local1, Goto0
<1>0. OverlayInv /\ ScreenInv /\ Inv /\ QuietInv
  BY DEF FramesInv
<1>1. /\ pc0 \notin {"finWait", "finPal", "finPalBuild", "finStart"}
      /\ ~CanFinalizeGameplayAsync /\ hudFinalize = None
      /\ hudPending \/ pc1 \in OverlayPcs \cup {"hudDone"} => pc0 = "hudWait"
      /\ ~hudBusy => pc1 \notin OverlayPcs
      /\ renderBuf \in Buffers
  BY <1>0, NothingFinalized
<1>2. /\ pc0 \in HoldsBufferPcs => renderBuf # flushBuffer
      /\ flushBuffer # None => flushBuffer \in Buffers
      /\ pc0 = "submit" => FlushIdle
  BY <1>0, InFlight
<1>3. /\ buf \in [Buffers -> Content] /\ frame \in Frames
  BY <1>0 DEF Inv, TypeOK
<1>4. CASE Tic
  BY <1>0, <1>4 DEF Tic, TicPlay, TicDefer, TicRunAction, TicAdvanceDemo, TicCommon
<1>5. CASE TicsDone \/ BeginRenderSame \/ BeginRenderSwap \/ SelectRenderBuffer
  BY <1>0, <1>5 DEF TicsDone, BeginRenderSame, BeginRenderSwap, SelectRenderBuffer
<1>6. CASE RestoreBufferRead0 \/ RestoreBufferWrite0
  BY <1>0, <1>6 DEF RestoreBufferRead0, RestoreBufferWrite0
<1>7. CASE RenderStart
  <2>1. flushBuffer # None => buf'[flushBuffer] = buf[flushBuffer]
    BY <1>1, <1>2, <1>3, <1>7 DEF RenderStart, HoldsBufferPcs
  <2> QED BY <1>0, <1>7, <2>1 DEF RenderStart
<1>8. CASE RenderEnd
  <2>1. flushBuffer # None => buf'[flushBuffer] = buf[flushBuffer]
    BY <1>1, <1>2, <1>3, <1>8 DEF RenderEnd, HoldsBufferPcs
  <2>2. buf'[renderBuf] = [scene |-> frame, overlay |-> {}]
    BY <1>1, <1>3, <1>8 DEF RenderEnd
  <2> QED BY <1>0, <1>8, <2>1, <2>2 DEF RenderEnd
<1>9. CASE EndFrame
  BY <1>0, <1>1, <1>9 DEF EndFrame
<1>10. CASE StartAsyncFrameFinalize
  BY <1>1, <1>10 DEF StartAsyncFrameFinalize
<1>11. CASE StartAsyncHud
  BY <1>0, <1>1, <1>11 DEF StartAsyncHud, HudFree, OverlayPcs
<1>12. CASE WaitForAsyncHud
  BY <1>0, <1>1, <1>12 DEF WaitForAsyncHud
<1>13. CASE OverlayBegin0
  BY <1>0, <1>1, <1>13 DEF OverlayBegin0, BeginPatchList
<1>14. CASE OverlayDraw0
  BY <1>0, <1>1, <1>14 DEF OverlayDraw0, DrawFrameOverlay, QueuePatches
<1>15. CASE OverlayFlush0
  <2>1. pc0 = "overlayFlush" /\ dest = renderBuf
    BY <1>0, <1>15 DEF OverlayFlush0, ScreenInv
  <2>2. flushBuffer # None => buf'[flushBuffer] = buf[flushBuffer]
    BY <1>1, <1>2, <1>3, <1>15, <2>1 DEF OverlayFlush0, FlushPatchList, HoldsBufferPcs
  <2>3. /\ buf'[renderBuf].scene = frame
        /\ buf'[renderBuf].overlay = {frame}
    BY <1>0, <1>1, <1>3, <1>15, <2>1 DEF OverlayFlush0, FlushPatchList, Content
  <2> QED BY <1>0, <1>15, <2>2, <2>3 DEF OverlayFlush0
<1>16. CASE FinishUpdate
  BY <1>0, <1>16 DEF FinishUpdate
<1>17. CASE SubmitFlush
  BY <1>0, <1>1, <1>17 DEF SubmitFlush
<1>18. CASE SyncFlushStrip \/ SyncFlushDone
  BY <1>0, <1>18 DEF SyncFlushStrip, SyncFlushDone
<1>19. CASE \/ WaitForAsyncFlush("finWait", "finPal")
            \/ WaitForAsyncFlush("finishWaitPal", "finishPal")
            \/ WaitForAsyncFlush("finishWait", "submit")
  BY <1>0, <1>1, <1>19 DEF WaitForAsyncFlush
<1>20. CASE \/ UpdatePaletteStart("finPal", "finPalBuild", "finStart")
            \/ UpdatePaletteStart("finishPal", "finishPalBuild", "finishWait")
  BY <1>0, <1>1, <1>20 DEF UpdatePaletteStart
<1>21. CASE \/ UpdatePaletteEnd("finPalBuild", "finStart")
            \/ UpdatePaletteEnd("finishPalBuild", "finishWait")
  BY <1>0, <1>1, <1>21 DEF UpdatePaletteEnd
<1> QED
  BY <1>4, <1>5, <1>6, <1>7, <1>8, <1>9, <1>10, <1>11, <1>12, <1>13, <1>14, <1>15,
     <1>16, <1>17, <1>18, <1>19, <1>20, <1>21 DEF Core0

\* Core1, the screen and the overlays.
LEMMA Core1Overlay ==
  ASSUME NoFinalize, FramesInv, Core1
  PROVE  ScreenInv' /\ OverlayInv'
<1> USE DEF ScreenInv, OverlayInv, DrawnPcs, config, game, flush, hud, screen, pal,
            local0, local1, Goto1
<1>0. OverlayInv /\ ScreenInv /\ Inv /\ QuietInv
  BY DEF FramesInv
<1>1. /\ hudFinalize = None /\ finalize1 = None /\ pc1 \notin FinalizePcs
      /\ hudPending \/ pc1 \in OverlayPcs \cup {"hudDone"} => pc0 = "hudWait"
      /\ ~(hudPending /\ pc1 \in OverlayPcs \cup {"hudDone"})
      /\ renderBuf \in Buffers
  BY <1>0, NothingFinalized
<1>2. /\ pc0 \in HoldsBufferPcs => renderBuf # flushBuffer
      /\ flushBuffer # None => flushBuffer \in Buffers
  BY <1>0, InFlight
<1>3. buf \in [Buffers -> Content]
  BY <1>0 DEF Inv, TypeOK
<1>4. CASE PollFlush
  BY <1>0, <1>4 DEF PollFlush, AfterFlush, OverlayPcs
<1>5. CASE FlushStrip1
  BY <1>0, <1>5 DEF FlushStrip1
<1>6. CASE FlushDone
  BY <1>0, <1>6 DEF FlushDone, AfterFlush, OverlayPcs
<1>7. CASE PollHud
  <2>1. CASE hudPending
    BY <1>0, <1>1, <1>7, <2>1 DEF PollHud, OverlayPcs
  <2>2. CASE ~hudPending
    BY <1>0, <1>7, <2>2 DEF PollHud, OverlayPcs
  <2> QED BY <2>1, <2>2
<1>8. CASE \/ SetRestoreBufferOverride("override", finalize1, "restoreRead")
           \/ SetRestoreBufferOverride("overrideNull", None, "restoreReadNull")
           \/ RestoreBufferRead1("restoreRead", "restoreWrite")
           \/ RestoreBufferRead1("restoreReadNull", "restoreWriteNull")
           \/ RestoreBufferWrite1("restoreWrite", "overlayBegin")
           \/ RestoreBufferWrite1("restoreWriteNull", "publish")
           \/ FinalizePublish \/ FinalizeStrip \/ FinalizeDone
  BY <1>1, <1>8 DEF SetRestoreBufferOverride, RestoreBufferRead1, RestoreBufferWrite1,
     FinalizePublish, FinalizeStrip, FinalizeDone, FinalizePcs
<1>9. CASE OverlayBegin1
  BY <1>0, <1>1, <1>9 DEF OverlayBegin1, BeginPatchList, OverlayPcs
<1>10. CASE OverlayDraw1
  <2>1. pc0 = "hudWait" /\ pc1 = "overlayDraw" /\ patchList' = patchList \cup {frame}
    BY <1>1, <1>10 DEF OverlayDraw1, DrawFrameOverlay, QueuePatches, OverlayPcs
  <2> QED BY <1>0, <1>1, <1>10, <2>1 DEF OverlayDraw1, OverlayPcs
<1>11. CASE OverlayFlush1
  <2>1. pc1 = "overlayFlush" /\ pc0 = "hudWait" /\ dest = renderBuf /\ ~hudPending
        /\ pc1' = "hudDone"
    BY <1>0, <1>1, <1>11 DEF OverlayFlush1, OverlayPcs
  <2>2. flushBuffer # None => buf'[flushBuffer] = buf[flushBuffer]
    BY <1>1, <1>2, <1>3, <1>11, <2>1 DEF OverlayFlush1, FlushPatchList, HoldsBufferPcs
  <2>3. /\ buf'[renderBuf].scene = buf[renderBuf].scene
        /\ buf'[renderBuf].overlay = {frame}
    BY <1>0, <1>1, <1>3, <1>11, <2>1 DEF OverlayFlush1, FlushPatchList, Content, OverlayPcs
  <2> QED BY <1>0, <1>11, <2>1, <2>2, <2>3 DEF OverlayFlush1, OverlayPcs
<1>12. CASE HudDone
  BY <1>0, <1>1, <1>12 DEF HudDone, OverlayPcs
<1> QED
  BY <1>4, <1>5, <1>6, <1>7, <1>8, <1>9, <1>10, <1>11, <1>12 DEF Core1

\* A palette request is never taken back, only carried out.
LEMMA RequestStays ==
  ASSUME Inv, NEW n \in Palettes, SetPaletteNum(n)
  PROVE  nextPal' = None => nextPal = None
BY NoneAssumption, PalettesAssumption DEF SetPaletteNum

\* Core0 and the palette table.
LEMMA Core0Palette ==
  ASSUME NoFinalize, FramesInv, Core0
  PROVE  PaletteInv'
<1> USE DEF PaletteInv, PaletteUpdatePending, FlushIdle, config, game, flush, hud,
            screen, pal, local0, local1, Goto0
<1>0. PaletteInv /\ Inv /\ QuietInv
  BY DEF FramesInv
<1>1. /\ pc0 \notin {"finWait", "finPal", "finPalBuild", "finStart"}
      /\ ~CanFinalizeGameplayAsync
  BY <1>0, NothingFinalized
<1>2. 0 \in Palettes /\ hudPal \in Palettes /\ pal0 \in Palettes /\ pal0 # None
  BY <1>0, PalettesAssumption, NoneAssumption DEF Inv, TypeOK
<1>3. CASE Tic
  <2>1. nextPal' = None => nextPal = None
    <3>1. ASSUME NEW v, EnterView(v) PROVE nextPal' = None => nextPal = None
      BY <1>0, <1>2, <3>1, RequestStays DEF EnterView
    <3> QED BY <1>3, <3>1 DEF Tic, TicPlay, TicDefer, TicRunAction, TicAdvanceDemo
  <2>2. UNCHANGED <<build, pc0, flushPending, flushBusy, palTable>> /\ pc0 = "tic"
    BY <1>3 DEF Tic, TicPlay, TicDefer, TicRunAction, TicAdvanceDemo, TicCommon
  <2> QED BY <1>0, <2>1, <2>2
<1>4. CASE TicsDone \/ SelectRenderBuffer \/ RestoreBufferRead0 \/ RestoreBufferWrite0
  BY <1>0, <1>4 DEF TicsDone, SelectRenderBuffer, RestoreBufferRead0, RestoreBufferWrite0
<1>5. CASE BeginRenderSame \/ BeginRenderSwap
  BY <1>0, <1>5 DEF BeginRenderSame, BeginRenderSwap
<1>6. CASE RenderStart
  <2>1. nextPal' = None => nextPal = None
    BY <1>0, <1>2, <1>6, RequestStays DEF RenderStart
  <2> QED BY <1>0, <1>6, <2>1 DEF RenderStart
<1>7. CASE RenderEnd
  BY <1>0, <1>7 DEF RenderEnd
<1>8. CASE EndFrame
  BY <1>0, <1>1, <1>8 DEF EndFrame
<1>9. CASE StartAsyncFrameFinalize
  BY <1>1, <1>9 DEF StartAsyncFrameFinalize
<1>10. CASE StartAsyncHud \/ WaitForAsyncHud
  BY <1>0, <1>10 DEF StartAsyncHud, WaitForAsyncHud
<1>11. CASE OverlayBegin0 \/ OverlayFlush0
  BY <1>0, <1>11 DEF OverlayBegin0, OverlayFlush0
<1>12. CASE OverlayDraw0
  <2>1. nextPal' = None => nextPal = None
    BY <1>0, <1>2, <1>12, RequestStays DEF OverlayDraw0, DrawFrameOverlay, StDrawer
  <2> QED BY <1>0, <1>12, <2>1 DEF OverlayDraw0
<1>13. CASE FinishUpdate
  BY <1>0, <1>13 DEF FinishUpdate
<1>14. CASE SubmitFlush \/ SyncFlushStrip \/ SyncFlushDone
  BY <1>0, <1>14 DEF SubmitFlush, SyncFlushStrip, SyncFlushDone
<1>15. CASE \/ WaitForAsyncFlush("finWait", "finPal")
            \/ WaitForAsyncFlush("finishWaitPal", "finishPal")
            \/ WaitForAsyncFlush("finishWait", "submit")
  BY <1>0, <1>1, <1>15 DEF WaitForAsyncFlush
<1>16. CASE \/ UpdatePaletteStart("finPal", "finPalBuild", "finStart")
            \/ UpdatePaletteStart("finishPal", "finishPalBuild", "finishWait")
  BY <1>0, <1>1, <1>16 DEF UpdatePaletteStart
<1>17. CASE \/ UpdatePaletteEnd("finPalBuild", "finStart")
            \/ UpdatePaletteEnd("finishPalBuild", "finishWait")
  BY <1>0, <1>1, <1>2, <1>17 DEF UpdatePaletteEnd
<1> QED
  BY <1>3, <1>4, <1>5, <1>6, <1>7, <1>8, <1>9, <1>10, <1>11, <1>12, <1>13, <1>14,
     <1>15, <1>16, <1>17 DEF Core0

\* Core1 and the palette table.
LEMMA Core1Palette ==
  ASSUME NoFinalize, FramesInv, Core1
  PROVE  PaletteInv'
<1> USE DEF PaletteInv, FlushIdle, config, game, flush, hud, screen, pal, local0,
            local1, Goto1
<1>0. PaletteInv /\ Inv /\ QuietInv
  BY DEF FramesInv
<1>1. /\ hudFinalize = None /\ finalize1 = None /\ pc1 \notin FinalizePcs
      /\ pc1 \in OverlayPcs \cup {"hudDone"} => pc0 = "hudWait"
  BY <1>0, NothingFinalized
<1>2. hudPal \in Palettes
  BY <1>0 DEF Inv, TypeOK
<1>3. CASE PollFlush \/ FlushStrip1 \/ FlushDone
  <2>1. CASE PollFlush \/ FlushStrip1
    BY <1>0, <2>1 DEF PollFlush, FlushStrip1
  <2>2. CASE FlushDone
    <3>1. ~flushBusy' /\ UNCHANGED <<flushPending, palTable, nextPal, pc0, build>>
      BY <1>1, <2>2 DEF FlushDone, BusyAfterFlush
    <3> QED BY <1>0, <3>1
  <2> QED BY <1>3, <2>1, <2>2
<1>4. CASE PollHud
  BY <1>0, <1>4 DEF PollHud
<1>5. CASE \/ SetRestoreBufferOverride("override", finalize1, "restoreRead")
           \/ SetRestoreBufferOverride("overrideNull", None, "restoreReadNull")
           \/ RestoreBufferRead1("restoreRead", "restoreWrite")
           \/ RestoreBufferRead1("restoreReadNull", "restoreWriteNull")
           \/ RestoreBufferWrite1("restoreWrite", "overlayBegin")
           \/ RestoreBufferWrite1("restoreWriteNull", "publish")
           \/ FinalizePublish \/ FinalizeStrip \/ FinalizeDone
  BY <1>1, <1>5 DEF SetRestoreBufferOverride, RestoreBufferRead1, RestoreBufferWrite1,
     FinalizePublish, FinalizeStrip, FinalizeDone, FinalizePcs
<1>6. CASE OverlayBegin1 \/ OverlayFlush1
  BY <1>0, <1>6 DEF OverlayBegin1, OverlayFlush1
<1>7. CASE OverlayDraw1
  <2>1. nextPal' = None => nextPal = None
    BY <1>0, <1>1, <1>2, <1>7, RequestStays DEF OverlayDraw1, DrawFrameOverlay, StDrawer
  <2>2. pc0 = "hudWait"
    BY <1>1, <1>7 DEF OverlayDraw1, OverlayPcs
  <2> QED BY <1>0, <1>7, <2>1, <2>2 DEF OverlayDraw1
<1>8. CASE HudDone
  BY <1>0, <1>8 DEF HudDone
<1> QED
  BY <1>3, <1>4, <1>5, <1>6, <1>7, <1>8 DEF Core1

\* A step that leaves the transfers alone, and what they show.
LEMMA ShotKept ==
  ASSUME ShotInv, UNCHANGED <<shot, palTable, build, buffer1>>,
         pc1' = pc1 \/ pc1 # "flush",
         pc1 = "flush" => buf'[buffer1] = buf[buffer1],
         pc0 = "submit" => buf'[renderBuf] = buf[renderBuf] /\ renderBuf' = renderBuf,
         pc0' = pc0 \/ pc0 # "submit"
  PROVE  ShotInv'
<1>1. \A i \in 1 .. Len(shot'[1]) : shot'[1][i] = StripOf(buffer1)'
  <2>1. CASE pc1 = "flush"
    BY <2>1 DEF ShotInv, StripOf
  <2>2. CASE pc1 # "flush"
    BY <2>2 DEF ShotInv
  <2> QED BY <2>1, <2>2
<1>2. pc1' # "flush" => shot'[1] = <<>>
  BY DEF ShotInv
<1>3. \A i \in 1 .. Len(shot'[0]) : shot'[0][i] = StripOf(renderBuf)'
  <2>1. CASE pc0 = "submit"
    BY <2>1 DEF ShotInv, StripOf
  <2>2. CASE pc0 # "submit"
    BY <2>2 DEF ShotInv
  <2> QED BY <2>1, <2>2
<1>4. ~(pc0' = "submit" /\ build'.syncFlush) => shot'[0] = <<>>
  BY DEF ShotInv
<1> QED BY <1>1, <1>2, <1>3, <1>4 DEF ShotInv

\* Core0 and the transfers.
LEMMA Core0Shot ==
  ASSUME NoFinalize, FramesInv, Core0
  PROVE  ShotInv'
<1> USE DEF config, game, flush, hud, screen, pal, local0, local1, Goto0
<1>0. ShotInv /\ ScreenInv /\ PaletteInv /\ Inv /\ QuietInv
  BY DEF FramesInv
<1>1. /\ pc0 \notin {"finWait", "finPal", "finPalBuild", "finStart"}
      /\ renderBuf \in Buffers
  BY <1>0, NothingFinalized
<1>2. /\ pc1 = "flush" => flushBuffer = buffer1 /\ flushBuffer # None /\ ~FlushIdle
      /\ flushBuffer # None => flushBuffer \in Buffers
      /\ pc0 \in HoldsBufferPcs => renderBuf # flushBuffer
  BY <1>0, InFlight
<1>3. buf \in [Buffers -> Content] /\ shot \in [Cores -> Seq(Strip)]
  BY <1>0 DEF Inv, TypeOK
<1>4. CASE Tic
  <2>1. UNCHANGED <<shot, palTable, build, buffer1, pc1, buf, pc0, renderBuf>>
    BY <1>4 DEF Tic, TicPlay, TicDefer, TicRunAction, TicAdvanceDemo, TicCommon
  <2> QED BY <1>0, <2>1, ShotKept
<1>5. CASE TicsDone \/ BeginRenderSame \/ BeginRenderSwap \/ SelectRenderBuffer
  BY <1>0, <1>5, ShotKept DEF TicsDone, BeginRenderSame, BeginRenderSwap, SelectRenderBuffer
<1>6. CASE RestoreBufferRead0 \/ RestoreBufferWrite0
  BY <1>0, <1>6, ShotKept DEF RestoreBufferRead0, RestoreBufferWrite0
<1>7. CASE RenderStart
  <2>1. pc1 = "flush" => buf'[buffer1] = buf[buffer1]
    BY <1>1, <1>2, <1>3, <1>7 DEF RenderStart, HoldsBufferPcs
  <2> QED BY <1>0, <1>7, <2>1, ShotKept DEF RenderStart
<1>8. CASE RenderEnd
  <2>1. pc1 = "flush" => buf'[buffer1] = buf[buffer1]
    BY <1>1, <1>2, <1>3, <1>8 DEF RenderEnd, HoldsBufferPcs
  <2> QED BY <1>0, <1>8, <2>1, ShotKept DEF RenderEnd
<1>9. CASE EndFrame \/ StartAsyncFrameFinalize \/ StartAsyncHud \/ WaitForAsyncHud
  BY <1>0, <1>1, <1>9, ShotKept DEF EndFrame, StartAsyncFrameFinalize, StartAsyncHud, WaitForAsyncHud
<1>10. CASE OverlayBegin0 \/ OverlayDraw0
  BY <1>0, <1>10, ShotKept DEF OverlayBegin0, OverlayDraw0
<1>11. CASE OverlayFlush0
  <2>1. pc0 = "overlayFlush" /\ dest = renderBuf
    BY <1>0, <1>11 DEF OverlayFlush0, ScreenInv
  <2>2. pc1 = "flush" => buf'[buffer1] = buf[buffer1]
    BY <1>1, <1>2, <1>3, <1>11, <2>1 DEF OverlayFlush0, FlushPatchList, HoldsBufferPcs,
       DrawnPcs
  <2> QED BY <1>0, <1>11, <2>1, <2>2, ShotKept DEF OverlayFlush0
<1>12. CASE FinishUpdate
  BY <1>0, <1>12, ShotKept DEF FinishUpdate
<1>13. CASE SubmitFlush
  <2>1. pc0 = "submit" /\ ~build.syncFlush /\ shot[0] = <<>>
    BY <1>0, <1>13 DEF SubmitFlush, ShotInv
  <2>2. UNCHANGED <<shot, palTable, build, buffer1, pc1, buf, renderBuf>>
    BY <1>13 DEF SubmitFlush
  <2> QED BY <1>0, <2>1, <2>2 DEF ShotInv, StripOf
<1>14. CASE SyncFlushStrip
  <2>1. /\ pc0 = "submit" /\ build.syncFlush
        /\ shot' = [shot EXCEPT ![0] = Append(@, StripOf(renderBuf))]
        /\ UNCHANGED <<palTable, build, buffer1, pc1, buf, renderBuf, pc0>>
    BY <1>14 DEF SyncFlushStrip, SendStrip, StripOf
  <2>2. shot'[1] = shot[1] /\ shot'[0] = Append(shot[0], StripOf(renderBuf))
    BY <1>3, <2>1 DEF Cores
  <2>3. shot[0] \in Seq(Strip)
    BY <1>3 DEF Cores
  <2>4. StripOf(renderBuf)' = StripOf(renderBuf) /\ StripOf(buffer1)' = StripOf(buffer1)
    BY <2>1 DEF StripOf
  <2>5. \A i \in 1 .. Len(shot'[0]) : shot'[0][i] = StripOf(renderBuf)
    <3> DEFINE x == StripOf(renderBuf)
    <3>1. \A i \in 1 .. Len(shot[0]) : shot[0][i] = x
      BY <1>0 DEF ShotInv
    <3>2. /\ Len(shot'[0]) = Len(shot[0]) + 1
          /\ \A i \in 1 .. Len(shot[0]) + 1 :
               shot'[0][i] = IF i = Len(shot[0]) + 1 THEN x ELSE shot[0][i]
      <4> HIDE DEF x
      <4> QED BY <2>2, <2>3 DEF x
    <3> HIDE DEF x
    <3>3. \A i \in 1 .. Len(shot[0]) + 1 : i # Len(shot[0]) + 1 => i \in 1 .. Len(shot[0])
      BY <2>3
    <3> QED BY <3>1, <3>2, <3>3 DEF x
  <2> QED BY <1>0, <2>1, <2>2, <2>4, <2>5 DEF ShotInv
<1>15. CASE SyncFlushDone
  <2>1. /\ shot' = [shot EXCEPT ![0] = <<>>]
        /\ UNCHANGED <<palTable, build, buffer1, pc1, buf, renderBuf>>
    BY <1>15 DEF SyncFlushDone, EndTransfer
  <2>2. shot'[1] = shot[1] /\ shot'[0] = <<>>
    BY <1>3, <2>1 DEF Cores
  <2> QED BY <1>0, <2>1, <2>2 DEF ShotInv, StripOf
<1>16. CASE \/ WaitForAsyncFlush("finWait", "finPal")
            \/ WaitForAsyncFlush("finishWaitPal", "finishPal")
            \/ WaitForAsyncFlush("finishWait", "submit")
  BY <1>0, <1>16, ShotKept DEF WaitForAsyncFlush
<1>17. CASE \/ UpdatePaletteStart("finPal", "finPalBuild", "finStart")
            \/ UpdatePaletteStart("finishPal", "finishPalBuild", "finishWait")
  <2>1. pc0 = "finishPal" /\ pc0' # "submit"
    BY <1>1, <1>17 DEF UpdatePaletteStart
  <2>2. CASE PaletteUpdatePending
    <3>1. FlushIdle
      BY <1>0, <2>1, <2>2 DEF PaletteInv, PaletteUpdatePending
    <3>2. pc1 # "flush" /\ shot[1] = <<>> /\ shot[0] = <<>>
      BY <1>0, <1>2, <2>1, <3>1 DEF ShotInv
    <3>3. UNCHANGED <<shot, pc1>>
      BY <1>17 DEF UpdatePaletteStart
    <3> QED BY <2>1, <3>2, <3>3 DEF ShotInv
  <2>3. CASE ~PaletteUpdatePending
    BY <1>0, <1>17, <2>1, <2>3, ShotKept DEF UpdatePaletteStart
  <2> QED BY <2>2, <2>3
<1>18. CASE \/ UpdatePaletteEnd("finPalBuild", "finStart")
            \/ UpdatePaletteEnd("finishPalBuild", "finishWait")
  <2>1. pc0 = "finishPalBuild" /\ pc0' # "submit" /\ UNCHANGED <<shot, pc1>>
    BY <1>1, <1>18 DEF UpdatePaletteEnd
  <2>2. pc1 # "flush" /\ shot[1] = <<>> /\ shot[0] = <<>>
    BY <1>0, <1>2, <2>1 DEF ShotInv, PaletteInv
  <2> QED BY <2>1, <2>2 DEF ShotInv
<1> QED
  BY <1>4, <1>5, <1>6, <1>7, <1>8, <1>9, <1>10, <1>11, <1>12, <1>13, <1>14, <1>15,
     <1>16, <1>17, <1>18 DEF Core0

\* Core1 and the transfers.
LEMMA Core1Shot ==
  ASSUME NoFinalize, FramesInv, Core1
  PROVE  ShotInv'
<1> USE DEF config, game, flush, hud, screen, pal, local0, local1, Goto1
<1>0. ShotInv /\ Inv /\ QuietInv
  BY DEF FramesInv
<1>1. /\ pc1 \notin FinalizePcs
      /\ pc1 \in OverlayPcs \cup {"hudDone"} => pc0 = "hudWait"
  BY <1>0, NothingFinalized
<1>2. shot \in [Cores -> Seq(Strip)]
  BY <1>0 DEF Inv, TypeOK
<1>3. CASE PollFlush
  <2>1. pc1 # "flush" /\ shot[1] = <<>> /\ UNCHANGED <<shot, palTable, build, buf, renderBuf, pc0>>
    BY <1>0, <1>3 DEF PollFlush, ShotInv
  <2> QED BY <1>0, <2>1 DEF ShotInv, StripOf
<1>4. CASE FlushStrip1
  <2>1. /\ pc1 = "flush"
        /\ shot' = [shot EXCEPT ![1] = Append(@, StripOf(buffer1))]
        /\ UNCHANGED <<palTable, build, buffer1, pc1, buf, renderBuf, pc0>>
    BY <1>4 DEF FlushStrip1, SendStrip, StripOf
  <2>2. shot'[0] = shot[0] /\ shot'[1] = Append(shot[1], StripOf(buffer1))
    BY <1>2, <2>1 DEF Cores
  <2>3. shot[1] \in Seq(Strip)
    BY <1>2 DEF Cores
  <2>4. StripOf(renderBuf)' = StripOf(renderBuf) /\ StripOf(buffer1)' = StripOf(buffer1)
    BY <2>1 DEF StripOf
  <2>5. \A i \in 1 .. Len(shot'[1]) : shot'[1][i] = StripOf(buffer1)
    <3> DEFINE x == StripOf(buffer1)
    <3>1. \A i \in 1 .. Len(shot[1]) : shot[1][i] = x
      BY <1>0 DEF ShotInv
    <3>2. /\ Len(shot'[1]) = Len(shot[1]) + 1
          /\ \A i \in 1 .. Len(shot[1]) + 1 :
               shot'[1][i] = IF i = Len(shot[1]) + 1 THEN x ELSE shot[1][i]
      <4> HIDE DEF x
      <4> QED BY <2>2, <2>3 DEF x
    <3> HIDE DEF x
    <3>3. \A i \in 1 .. Len(shot[1]) + 1 : i # Len(shot[1]) + 1 => i \in 1 .. Len(shot[1])
      BY <2>3
    <3> QED BY <3>1, <3>2, <3>3 DEF x
  <2> QED BY <1>0, <2>1, <2>2, <2>4, <2>5 DEF ShotInv
<1>5. CASE FlushDone
  <2>1. /\ shot' = [shot EXCEPT ![1] = <<>>]
        /\ UNCHANGED <<palTable, build, buf, renderBuf, pc0>>
    BY <1>5 DEF FlushDone, EndTransfer
  <2>2. shot'[0] = shot[0] /\ shot'[1] = <<>>
    BY <1>2, <2>1 DEF Cores
  <2> QED BY <1>0, <2>1, <2>2 DEF ShotInv, StripOf
<1>6. CASE PollHud
  BY <1>0, <1>6, ShotKept DEF PollHud
<1>7. CASE \/ SetRestoreBufferOverride("override", finalize1, "restoreRead")
           \/ SetRestoreBufferOverride("overrideNull", None, "restoreReadNull")
           \/ RestoreBufferRead1("restoreRead", "restoreWrite")
           \/ RestoreBufferRead1("restoreReadNull", "restoreWriteNull")
           \/ RestoreBufferWrite1("restoreWrite", "overlayBegin")
           \/ RestoreBufferWrite1("restoreWriteNull", "publish")
           \/ FinalizePublish \/ FinalizeStrip \/ FinalizeDone
  BY <1>1, <1>7 DEF SetRestoreBufferOverride, RestoreBufferRead1, RestoreBufferWrite1,
     FinalizePublish, FinalizeStrip, FinalizeDone, FinalizePcs
<1>8. CASE OverlayBegin1
  BY <1>0, <1>8, ShotKept DEF OverlayBegin1
<1>9. CASE OverlayDraw1
  BY <1>0, <1>9, ShotKept DEF OverlayDraw1
<1>10. CASE OverlayFlush1
  <2>1. pc1 = "overlayFlush" /\ pc0 = "hudWait"
    BY <1>1, <1>10 DEF OverlayFlush1, OverlayPcs
  <2> QED BY <1>0, <1>10, <2>1, ShotKept DEF OverlayFlush1
<1>11. CASE HudDone
  BY <1>0, <1>11, ShotKept DEF HudDone
<1> QED
  BY <1>3, <1>4, <1>5, <1>6, <1>7, <1>8, <1>9, <1>10, <1>11 DEF Core1

\* Both cores keep all of it.
LEMMA FramesInvInit == Init => FramesInv
<1> SUFFICES ASSUME Init PROVE FramesInv
  OBVIOUS
<1>1. Inv /\ QuietInv
  BY InitInv DEF Init, QuietInv, HudFree
<1>2. ScreenInv /\ PaletteInv /\ OverlayInv
  BY NoneAssumption
  DEF Init, ScreenInv, PaletteInv, FlushIdle, OverlayInv, DrawnPcs
<1>3. ShotInv
  BY DEF Init, ShotInv, Cores
<1> QED BY <1>1, <1>2, <1>3 DEF FramesInv

LEMMA FramesInvStep == ASSUME NoFinalize PROVE FramesInv /\ [Next]_vars => FramesInv'
<1> SUFFICES ASSUME FramesInv, [Next]_vars PROVE FramesInv'
  OBVIOUS
<1>0. Inv /\ QuietInv
  BY DEF FramesInv
<1>1. CASE Core0
  BY <1>0, <1>1, Core0Type, Core0Handover, Core0Quiet, Core0Screen, Core0Overlay,
     Core0Palette, Core0Shot DEF FramesInv, Inv
<1>2. CASE Core1
  BY <1>0, <1>2, Core1Type, Core1Handover, Core1Quiet, Core1Overlay, Core1Palette,
     Core1Shot DEF FramesInv, Inv
<1>3. CASE UNCHANGED vars
  <2>1. Inv'
    BY <1>0, <1>3, StutterInv
  <2>2. QuietInv' /\ ScreenInv' /\ PaletteInv'
    BY <1>3 DEF FramesInv, QuietInv, HudFree, ScreenInv, PaletteInv, FlushIdle, vars
  <2>3. OverlayInv'
    BY <1>3 DEF FramesInv, OverlayInv, vars
  <2>4. ShotInv'
    BY <1>3 DEF FramesInv, ShotInv, StripOf, vars
  <2> QED BY <2>1, <2>2, <2>3, <2>4 DEF FramesInv
<1> QED BY <1>1, <1>2, <1>3 DEF Next

(* In the builds that do not finalize frames on core1, every strip sent is   *)
(* of one frame, with that frame's overlay and one complete palette.         *)
THEOREM WholeFramesCorrect ==
  ASSUME NoFinalize
  PROVE  Spec => []WholeFrames
<1>1. FramesInv => WholeFrames
  <2> SUFFICES ASSUME FramesInv, NEW c \in Cores, NEW i \in 1 .. Len(shot[c])
               PROVE  LET s == shot[c][i] IN
                        /\ s.scene # None /\ s.overlay = {s.scene}
                        /\ s.pal # None /\ s.pal = shot[c][1].pal
    BY DEF WholeFrames
  <2>0. Inv /\ ShotInv /\ OverlayInv /\ PaletteInv /\ shot \in [Cores -> Seq(Strip)]
    BY DEF FramesInv, Inv, TypeOK
  <2>1. Len(shot[c]) \in Nat /\ 1 \in 1 .. Len(shot[c]) /\ shot[c] # <<>>
    BY <2>0
  <2>2. CASE c = 1
    <3>1. shot[1][i] = StripOf(buffer1) /\ shot[1][1] = StripOf(buffer1) /\ pc1 = "flush"
      BY <2>0, <2>1, <2>2 DEF ShotInv
    <3>2. /\ buf[buffer1].scene # None /\ buf[buffer1].overlay = {buf[buffer1].scene}
          /\ palTable # None
      BY <2>0, <3>1, InFlight DEF OverlayInv, PaletteInv
    <3> QED BY <2>2, <3>1, <3>2 DEF StripOf
  <2>3. CASE c = 0
    <3>1. shot[0][i] = StripOf(renderBuf) /\ shot[0][1] = StripOf(renderBuf) /\ pc0 = "submit"
      BY <2>0, <2>1, <2>3 DEF ShotInv
    <3>2. /\ buf[renderBuf].scene # None /\ buf[renderBuf].overlay = {buf[renderBuf].scene}
          /\ palTable # None
      <4>1. buf[renderBuf].scene # None
        BY <2>0, <3>1 DEF Inv, Handover, Core0Inv, DrawnPcs
      <4> QED BY <2>0, <3>1, <4>1 DEF OverlayInv, PaletteInv, DrawnPcs
    <3> QED BY <2>3, <3>1, <3>2 DEF StripOf
  <2> QED BY <2>2, <2>3 DEF Cores
<1> QED BY <1>1, FramesInvInit, FramesInvStep, PTL DEF Spec
-----------------------------------------------------------------------------
(* Delivery, in every build: core1 is given at most two frames, and takes up *)
(* the one it is to flush before the one it is to finish.                    *)

\* FrameDelivery without its fairness.
DeliverySafe == Delivery!Init /\ [][Delivery!Next]_<<Handed, Shown>>

\* Core1 is prompt wherever it finalizes frames.
Prompt == PromptPoll \/ NoFinalize

\* The buffer core1 is to flush or is flushing, and the one core0 flushes
\* itself; hudFinalize is the one core1 is to finish.
Flushed == IF flushPending \/ pc1 = "flush" THEN flushBuffer ELSE None
FlushedHere == IF pc0 = "submit" /\ build.syncFlush THEN renderBuf ELSE None

\* A frame to be flushed waits for the first half of core1's poll; the second
\* half finds nothing to finish before the first has been passed again.
HandInv ==
  flushPending =>
    /\ flushBuffer # None /\ pc1 \in {"poll", "pollHud"}
    /\ pc1 = "pollHud" => pc0 \notin DrawnPcs /\ ~hudPending

\* Which builds are without which wait.
BusyInv ==
  /\ pc1 = "pollHud" => build.asyncHud
  /\ build.syncFlush => FlushIdle
  /\ ~build.doubleBuffer /\ pc0 \notin {"tic", "begin"} => FlushIdle

\* A core that is not sending has sent nothing.
SendInv ==
  /\ pc1 \notin {"flush", "finFlush"} => shot[1] = <<>>
  /\ ~(pc0 = "submit" /\ build.syncFlush) => shot[0] = <<>>

DeliverInv == Inv /\ QuietInv /\ HandInv /\ BusyInv /\ SendInv

HandedInv == Handed = SceneOf(Flushed) \o SceneOf(hudFinalize) \o SceneOf(FlushedHere)

LEMMA HandedIs == DeliverInv => HandedInv
  BY DEF DeliverInv, Inv, Handover, Core1Inv, HandInv, HandedInv, Handed, Flushed, FlushedHere

\* While core0 flushes itself nothing else is handed over, and what core1 is
\* finishing is.
LEMMA OneSends ==
  ASSUME DeliverInv
  PROVE  /\ pc0 = "submit" => /\ FlushIdle /\ Flushed = None /\ hudFinalize = None
                              /\ ~flushPending /\ pc1 \in {"poll", "pollHud"} /\ ~hudPending
         /\ pc1 = "flush" => /\ Flushed = buffer1 /\ buffer1 \in Buffers /\ buffer1 # None
                             /\ ~flushPending /\ pc0 # "submit"
         /\ pc1 = "finFlush" => /\ finalize1 = hudFinalize /\ finalize1 \in Buffers
                                /\ finalize1 # None /\ ~flushPending /\ Flushed = None
                                /\ pc0 # "submit"
         /\ renderBuf \in Buffers /\ renderBuf # None
         /\ buf \in [Buffers -> Content] /\ shot \in [Cores -> Seq(Strip)]
<1> USE DEF DeliverInv, Inv, TypeOK, Handover, Flushed
<1>1. pc0 = "submit" => /\ FlushIdle /\ ~flushPending /\ hudFinalize = None /\ pc1 # "flush"
  BY DEF FlagsInv, Core1Inv, FlushIdle
<1>2. pc0 = "submit" => ~hudPending /\ ~hudBusy
  BY <1>1 DEF QuietInv
<1>3. pc0 = "submit" => pc1 \in {"poll", "pollHud"}
  BY <1>1, <1>2 DEF FlagsInv, Pc1, FinalizePcs, OverlayPcs
<1>4. pc1 = "flush" => flushBuffer = buffer1 /\ buffer1 # None /\ ~flushPending
  BY DEF Core1Inv, HandInv
<1>5. pc1 = "finFlush" => finalize1 = hudFinalize /\ finalize1 # None /\ ~flushPending
  BY DEF Core1Inv, HandInv, FinalizePcs
<1>6. renderBuf # None
  BY NoneAssumption DEF Buffers
<1> QED BY <1>1, <1>2, <1>3, <1>4, <1>5, <1>6

\* What is shown is what one core has sent: the other is not sending.
LEMMA ShownBy ==
  ASSUME NEW c \in Cores, NEW h \in [Cores -> Seq(Strip)], h[1 - c] = <<>>
  PROVE  [i \in 1 .. Len(h[0] \o h[1]) |-> (h[0] \o h[1])[i].scene]
           = [i \in 1 .. Len(h[c]) |-> h[c][i].scene]
<1>1. h[0] \in Seq(Strip) /\ h[1] \in Seq(Strip)
  BY DEF Cores
<1>2. h[0] \o h[1] = h[c]
  BY <1>1 DEF Cores
<1> QED BY <1>2

\* One more strip, one more frame number.
LEMMA ShownOneMore ==
  ASSUME NEW s \in Seq(Strip), NEW x \in Strip
  PROVE  [i \in 1 .. Len(Append(s, x)) |-> Append(s, x)[i].scene]
           = Append([i \in 1 .. Len(s) |-> s[i].scene], x.scene)
<1> DEFINE f == [i \in 1 .. Len(s) |-> s[i].scene]
           g == [i \in 1 .. Len(Append(s, x)) |-> Append(s, x)[i].scene]
           S == Frames \cup {None}
<1>1. Len(s) \in Nat /\ Len(Append(s, x)) = Len(s) + 1
  OBVIOUS
<1>2. f \in Seq(S) /\ Len(f) = Len(s)
  <2>1. ASSUME NEW i \in 1 .. Len(s) PROVE s[i].scene \in S
    <3>1. s[i] \in Strip
      OBVIOUS
    <3> QED BY <3>1 DEF Strip
  <2> QED BY <1>1, <2>1
<1>3. Append(f, x.scene) \in Seq(S) /\ Len(Append(f, x.scene)) = Len(s) + 1
  BY <1>2 DEF Strip
<1>4. g \in Seq(S) /\ Len(g) = Len(s) + 1
  <2>1. Append(s, x) \in Seq(Strip)
    OBVIOUS
  <2>2. ASSUME NEW i \in 1 .. Len(Append(s, x)) PROVE Append(s, x)[i].scene \in S
    <3>1. Append(s, x)[i] \in Strip
      BY <2>1
    <3> QED BY <3>1 DEF Strip
  <2> QED BY <1>1, <2>2
<1>5. ASSUME NEW i \in 1 .. Len(s) + 1 PROVE g[i] = Append(f, x.scene)[i]
  <2>1. CASE i = Len(s) + 1
    BY <1>1, <1>2, <2>1
  <2>2. CASE i # Len(s) + 1
    <3>1. i \in 1 .. Len(s)
      BY <1>1, <2>2
    <3>2. g[i] = s[i].scene
      BY <1>1, <3>1
    <3>3. Append(f, x.scene)[i] = f[i]
      BY <1>2, <3>1
    <3> QED BY <3>1, <3>2, <3>3
  <2> QED BY <2>1, <2>2
<1> HIDE DEF f, g
<1>6. g = Append(f, x.scene)
  BY <1>1, <1>3, <1>4, <1>5
<1> QED BY <1>6 DEF f, g

\* A strip more on one core is a strip more shown.
LEMMA OneStripMore ==
  ASSUME DeliverInv, NEW c \in Cores, NEW b \in Buffers,
         (c = 0 /\ pc1 \notin {"flush", "finFlush"}) \/ (c = 1 /\ pc0 # "submit"),
         shot' = [shot EXCEPT ![c] = Append(@, StripOf(b))], Len(shot[c]) < Strips
  PROVE  Len(Shown) < Strips /\ Shown' = Append(Shown, buf[b].scene)
<1>1. shot \in [Cores -> Seq(Strip)] /\ shot[1 - c] = <<>>
  BY OneSends DEF Cores, DeliverInv, SendInv
<1>2. StripOf(b) \in Strip /\ StripOf(b).scene = buf[b].scene
  BY DEF DeliverInv, Inv, TypeOK, StripOf, Strip, Content
<1>3. /\ shot' \in [Cores -> Seq(Strip)] /\ shot'[1 - c] = <<>>
      /\ shot'[c] = Append(shot[c], StripOf(b)) /\ shot[c] \in Seq(Strip)
  BY <1>1, <1>2 DEF Cores
<1>4. Shown = [i \in 1 .. Len(shot[c]) |-> shot[c][i].scene]
  BY <1>1, ShownBy DEF Shown
<1>5. Shown' = [i \in 1 .. Len(shot'[c]) |-> shot'[c][i].scene]
  BY <1>3, ShownBy DEF Shown
<1>6. Len(Shown) = Len(shot[c])
  BY <1>3, <1>4
<1> QED BY <1>2, <1>3, <1>4, <1>5, <1>6, ShownOneMore

\* After a transfer nothing is shown.
LEMMA TransferEnded ==
  ASSUME DeliverInv, NEW c \in Cores,
         (c = 0 /\ pc1 \notin {"flush", "finFlush"}) \/ (c = 1 /\ pc0 # "submit"),
         shot' = [shot EXCEPT ![c] = <<>>]
  PROVE  Shown' = <<>>
<1>1. shot \in [Cores -> Seq(Strip)] /\ shot[1 - c] = <<>>
  BY OneSends DEF Cores, DeliverInv, SendInv
<1>2. shot'[0] = <<>> /\ shot'[1] = <<>>
  BY <1>1 DEF Cores
<1> DEFINE all == shot[0] \o shot[1]
<1>3. all' = <<>>
  BY <1>2
<1>4. Shown' = [i \in 1 .. Len(all') |-> all'[i].scene]
  BY DEF Shown
<1> HIDE DEF all
<1> QED BY <1>3, <1>4

\* The frames in hand stay the same ones while nothing is sent.
LEMMA HandKept ==
  ASSUME HandedInv, HandedInv', UNCHANGED shot,
         Flushed' = Flushed, hudFinalize' = hudFinalize, FlushedHere' = FlushedHere,
         \A b \in {Flushed, hudFinalize, FlushedHere} \ {None} : buf'[b].scene = buf[b].scene
  PROVE  UNCHANGED <<Handed, Shown>>
<1>1. \A b \in {Flushed, hudFinalize, FlushedHere} : SceneOf(b)' = SceneOf(b)
  BY DEF SceneOf
<1> QED BY <1>1 DEF HandedInv, Shown

\* A queue of at most one frame.
LEMMA Alone ==
  ASSUME NEW x
  PROVE  /\ <<>> \o <<>> \o <<>> = <<>> /\ <<x>> \o <<>> \o <<>> = <<x>>
         /\ <<>> \o <<x>> \o <<>> = <<x>> /\ <<>> \o <<>> \o <<x>> = <<x>>
         /\ Append(<<>>, x) = <<x>>
OBVIOUS

\* A queue of two frames at most, the first of which goes.
LEMMA AtMostTwo ==
  ASSUME NEW x, NEW y, NEW q \in {<<>>, <<y>>}
  PROVE  /\ <<x>> \o q \o <<>> # <<>> /\ Head(<<x>> \o q \o <<>>) = x
         /\ Tail(<<x>> \o q \o <<>>) = <<>> \o q \o <<>>
<1>1. CASE q = <<>>
  <2>1. <<x>> \o q \o <<>> = <<x>> /\ <<>> \o q \o <<>> = <<>>
    BY <1>1, Alone
  <2>2. Tail(<<x>>) = <<>> /\ Head(<<x>>) = x /\ <<x>> # <<>>
    OBVIOUS
  <2> QED BY <2>1, <2>2
<1>2. CASE q = <<y>>
  <2> DEFINE S == {x, y}
  <2>1. <<x>> \in Seq(S) /\ <<y>> \in Seq(S) /\ Len(<<x>>) = 1 /\ Len(<<y>>) = 1
        /\ <<x>>[1] = x /\ <<y>>[1] = y
    OBVIOUS
  <2>2. PICK s : s = <<x>> \o <<y>>
    OBVIOUS
  <2>3. s \in Seq(S) /\ Len(s) = 2 /\ s[1] = x /\ s[2] = y
    BY <2>1, <2>2
  <2>4. s \o <<>> = s
    BY <2>3
  <2>5. s # <<>> /\ Head(s) = x
    BY <2>3
  <2>6. Tail(s) = <<y>>
    <3>1. Tail(s) \in Seq(S) /\ Len(Tail(s)) = 1 /\ Tail(s)[1] = s[2]
      BY <2>3, <2>5
    <3>2. PICK t, u : t = Tail(s) /\ u = <<y>>
      OBVIOUS
    <3>3. t \in Seq(S) /\ u \in Seq(S) /\ Len(t) = 1 /\ Len(u) = 1 /\ t[1] = u[1]
      BY <2>1, <2>3, <3>1, <3>2
    <3>4. t = u
      BY <3>3
    <3> QED BY <3>2, <3>4
  <2>7. <<>> \o q \o <<>> = <<y>>
    BY <1>2, Alone
  <2> QED BY <1>2, <2>2, <2>4, <2>5, <2>6, <2>7
<1> QED BY <1>1, <1>2

\* Core0's steps: it hands a frame over at "submit", whose strips it sends
\* itself in the builds without core1's help, or at "finStart".
LEMMA Core0Delivers ==
  ASSUME DeliverInv, HandedInv, HandedInv', Core0
  PROVE  [Delivery!Next]_<<Handed, Shown>>
<1> USE DEF Flushed, FlushedHere, config, game, flush, hud, screen, pal, local0, local1, Goto0
<1>1. /\ pc0 = "submit" => /\ FlushIdle /\ Flushed = None /\ hudFinalize = None
                           /\ ~flushPending /\ pc1 \in {"poll", "pollHud"}
      /\ pc1 = "flush" => pc0 # "submit"
      /\ renderBuf \in Buffers /\ renderBuf # None
      /\ buf \in [Buffers -> Content] /\ shot \in [Cores -> Seq(Strip)]
  BY OneSends
<1>2. /\ pc0 \in HoldsBufferPcs => renderBuf \notin {flushBuffer, hudFinalize}
      /\ pc0 \in DrawnPcs => buf[renderBuf].scene # None
  BY DEF DeliverInv, Inv, Handover, Core0Inv
<1>3. flushBuffer \in Buffers \cup {None} /\ hudFinalize \in Buffers \cup {None} /\ dest \in Buffers
  BY DEF DeliverInv, Inv, TypeOK
<1>4. \A b \in {Flushed, hudFinalize, FlushedHere} \ {None} : b \in Buffers
  BY <1>1, <1>3
<1>5. CASE Tic
  <2>1. UNCHANGED <<shot, build, flushPending, flushBuffer, hudFinalize, pc1, buf, pc0, renderBuf>>
    BY <1>5 DEF Tic, TicPlay, TicDefer, TicRunAction, TicAdvanceDemo, TicCommon
  <2> QED BY <2>1, HandKept
<1>6. CASE TicsDone \/ BeginRenderSame \/ BeginRenderSwap \/ SelectRenderBuffer
  BY <1>6, HandKept DEF TicsDone, BeginRenderSame, BeginRenderSwap, SelectRenderBuffer
<1>7. CASE RestoreBufferRead0 \/ RestoreBufferWrite0
  BY <1>7, HandKept DEF RestoreBufferRead0, RestoreBufferWrite0
<1>8. CASE RenderStart \/ RenderEnd
  <2>1. /\ pc0 \in {"render", "drawing"} /\ pc0' \in {"drawing", "end"}
        /\ UNCHANGED <<shot, build, flushPending, flushBuffer, hudFinalize, pc1, renderBuf>>
        /\ \A b \in Buffers : b # renderBuf => buf'[b].scene = buf[b].scene
    BY <1>1, <1>8 DEF RenderStart, RenderEnd, Content
  <2>2. renderBuf \notin {flushBuffer, hudFinalize}
    BY <1>2, <2>1 DEF HoldsBufferPcs
  <2>3. \A b \in {Flushed, hudFinalize, FlushedHere} \ {None} : b # renderBuf
    BY <1>1, <2>1, <2>2
  <2> QED BY <1>4, <2>1, <2>3, HandKept
<1>9. CASE EndFrame \/ StartAsyncHud \/ WaitForAsyncHud \/ (StartAsyncFrameFinalize /\ ~HudFree)
  BY <1>9, HandKept DEF EndFrame, StartAsyncFrameFinalize, StartAsyncHud, WaitForAsyncHud
<1>10. CASE OverlayBegin0 \/ OverlayDraw0
  BY <1>10, HandKept DEF OverlayBegin0, OverlayDraw0
<1>11. CASE OverlayFlush0
  <2>1. \A b \in Buffers : buf'[b].scene = buf[b].scene
    BY <1>1, <1>3, <1>11 DEF OverlayFlush0, FlushPatchList, Content
  <2> QED BY <1>4, <1>11, <2>1, HandKept DEF OverlayFlush0
<1>12. CASE FinishUpdate
  BY <1>12, HandKept DEF FinishUpdate
<1>13. CASE \/ WaitForAsyncFlush("finWait", "finPal")
            \/ WaitForAsyncFlush("finishWaitPal", "finishPal")
  BY <1>13, HandKept DEF WaitForAsyncFlush
<1>14. CASE \/ UpdatePaletteStart("finPal", "finPalBuild", "finStart")
            \/ UpdatePaletteStart("finishPal", "finishPalBuild", "finishWait")
  BY <1>14, HandKept DEF UpdatePaletteStart
<1>15. CASE \/ UpdatePaletteEnd("finPalBuild", "finStart")
            \/ UpdatePaletteEnd("finishPalBuild", "finishWait")
  BY <1>15, HandKept DEF UpdatePaletteEnd
<1>16. CASE SubmitFlush \/ (WaitForAsyncFlush("finishWait", "submit") /\ build.syncFlush)
  <2>1. FlushIdle /\ hudFinalize = None /\ pc1 # "flush"
    BY <1>1, <1>16
    DEF WaitForAsyncFlush, SubmitFlush, FlushIdle, DeliverInv, Inv, Handover, FlagsInv, Core1Inv
  <2>2. /\ Flushed = None /\ FlushedHere = None /\ hudFinalize = None /\ hudFinalize' = None
        /\ \/ Flushed' = renderBuf /\ FlushedHere' = None
           \/ Flushed' = None /\ FlushedHere' = renderBuf
        /\ UNCHANGED <<shot, buf>> /\ pc0 \in {"submit", "finishWait"}
    BY <1>1, <1>16, <2>1 DEF SubmitFlush, WaitForAsyncFlush, FlushIdle
  <2>3. buf[renderBuf].scene \in Frames
    BY <1>1, <1>2, <2>2 DEF Content, DrawnPcs
  <2>4. Handed = <<>> /\ Handed' = Append(<<>>, buf[renderBuf].scene)
    <3>1. /\ SceneOf(Flushed) = <<>> /\ SceneOf(hudFinalize) = <<>> /\ SceneOf(FlushedHere) = <<>>
          /\ SceneOf(hudFinalize)' = <<>>
          /\ \/ SceneOf(Flushed)' = <<buf[renderBuf].scene>> /\ SceneOf(FlushedHere)' = <<>>
             \/ SceneOf(Flushed)' = <<>> /\ SceneOf(FlushedHere)' = <<buf[renderBuf].scene>>
      BY <1>1, <2>2 DEF SceneOf
    <3> QED BY <3>1, Alone DEF HandedInv
  <2>5. UNCHANGED Shown
    BY <2>2 DEF Shown
  <2>6. Delivery!Submit(buf[renderBuf].scene)
    BY <2>4, <2>5 DEF Delivery!Submit
  <2> QED BY <2>3, <2>6 DEF Delivery!Next
<1>17. CASE StartAsyncFrameFinalize /\ HudFree
  <2>1. /\ hudFinalize = None /\ hudFinalize' = renderBuf /\ FlushedHere = None
        /\ FlushedHere' = None /\ Flushed' = Flushed /\ UNCHANGED <<shot, buf>>
        /\ pc0 = "finStart"
    BY <1>17 DEF StartAsyncFrameFinalize, HudFree
  <2>2. buf[renderBuf].scene \in Frames
    BY <1>1, <1>2, <2>1 DEF Content, DrawnPcs
  <2>3. Handed = SceneOf(Flushed) /\ Handed' = Append(Handed, buf[renderBuf].scene)
        /\ Len(Handed) < 2
    BY <1>1, <2>1 DEF HandedInv, SceneOf
  <2>4. UNCHANGED Shown
    BY <2>1 DEF Shown
  <2>5. Delivery!Submit(buf[renderBuf].scene)
    BY <2>3, <2>4 DEF Delivery!Submit
  <2> QED BY <2>2, <2>5 DEF Delivery!Next
<1>18. CASE WaitForAsyncFlush("finishWait", "submit") /\ ~build.syncFlush
  BY <1>18, HandKept DEF WaitForAsyncFlush
<1>19. CASE SyncFlushStrip
  <2>1. /\ pc0 = "submit" /\ build.syncFlush /\ Len(shot[0]) < Strips
        /\ UNCHANGED <<build, flushPending, flushBuffer, hudFinalize, pc1, buf, pc0, renderBuf>>
        /\ shot' = [shot EXCEPT ![0] = Append(@, StripOf(renderBuf))]
    BY <1>19 DEF SyncFlushStrip, SendStrip, StripOf
  <2>2. Handed = <<buf[renderBuf].scene>> /\ Handed' = Handed
    <3>1. /\ SceneOf(Flushed) = <<>> /\ SceneOf(hudFinalize) = <<>>
          /\ SceneOf(FlushedHere) = <<buf[renderBuf].scene>>
          /\ SceneOf(Flushed)' = <<>> /\ SceneOf(hudFinalize)' = <<>>
          /\ SceneOf(FlushedHere)' = SceneOf(FlushedHere)
      BY <1>1, <2>1 DEF SceneOf
    <3> QED BY <3>1, Alone DEF HandedInv
  <2>3. Len(Shown) < Strips /\ Shown' = Append(Shown, buf[renderBuf].scene)
    <3>1. 0 \in Cores /\ ((0 = 0 /\ pc1 \notin {"flush", "finFlush"}) \/ (0 = 1 /\ pc0 # "submit"))
      BY <1>1, <2>1 DEF Cores
    <3> QED BY <1>1, <2>1, <3>1, OneStripMore, Zenon
  <2>4. Delivery!Send
    BY <2>2, <2>3 DEF Delivery!Send
  <2> QED BY <2>4 DEF Delivery!Next
<1>20. CASE SyncFlushDone
  <2>1. /\ pc0 = "submit" /\ build.syncFlush /\ pc0' = "tic"
        /\ UNCHANGED <<build, flushPending, flushBuffer, hudFinalize, pc1, buf, renderBuf>>
        /\ shot' = [shot EXCEPT ![0] = <<>>]
    BY <1>20 DEF SyncFlushDone, EndTransfer
  <2>2. Handed = <<buf[renderBuf].scene>> /\ Handed' = <<>>
    <3>1. /\ SceneOf(Flushed) = <<>> /\ SceneOf(hudFinalize) = <<>>
          /\ SceneOf(FlushedHere) = <<buf[renderBuf].scene>>
          /\ SceneOf(Flushed)' = <<>> /\ SceneOf(hudFinalize)' = <<>>
          /\ SceneOf(FlushedHere)' = <<>>
      BY <1>1, <2>1 DEF SceneOf
    <3> QED BY <3>1, Alone DEF HandedInv
  <2>3. Shown' = <<>>
    BY <1>1, <2>1, TransferEnded DEF Cores
  <2>4. Delivery!Release
    BY <2>2, <2>3 DEF Delivery!Release
  <2> QED BY <2>4 DEF Delivery!Next
<1> QED
  BY <1>5, <1>6, <1>7, <1>8, <1>9, <1>10, <1>11, <1>12, <1>13, <1>14, <1>15, <1>16,
     <1>17, <1>18, <1>19, <1>20 DEF Core0

\* Core1's steps: it sends and releases the frame it took up, or the one it
\* has finished, which is then the only one.
LEMMA Core1Delivers ==
  ASSUME DeliverInv, HandedInv, HandedInv', Core1
  PROVE  [Delivery!Next]_<<Handed, Shown>>
<1> USE DEF Flushed, FlushedHere, config, game, flush, hud, screen, pal, local0, local1, Goto1
<1>1. /\ pc1 = "flush" => /\ Flushed = buffer1 /\ buffer1 \in Buffers /\ buffer1 # None
                          /\ ~flushPending /\ pc0 # "submit"
      /\ pc1 = "finFlush" => /\ finalize1 = hudFinalize /\ finalize1 \in Buffers
                             /\ finalize1 # None /\ ~flushPending /\ Flushed = None
                             /\ pc0 # "submit"
      /\ renderBuf \in Buffers /\ renderBuf # None
      /\ buf \in [Buffers -> Content] /\ shot \in [Cores -> Seq(Strip)]
  BY OneSends
<1>2. /\ flushPending => flushBuffer # None /\ pc1 \in {"poll", "pollHud"}
      /\ pc1 = "flush" => flushBuffer = buffer1
  BY DEF DeliverInv, HandInv, Inv, Handover, Core1Inv
<1>3. flushBuffer \in Buffers \cup {None} /\ hudFinalize \in Buffers \cup {None} /\ dest \in Buffers
  BY DEF DeliverInv, Inv, TypeOK
<1>4. \A b \in {Flushed, hudFinalize, FlushedHere} \ {None} : b \in Buffers
  BY <1>1, <1>3
<1>5. CASE PollFlush
  <2>1. Flushed' = Flushed
    <3>1. CASE flushPending
      BY <1>2, <1>5, <3>1 DEF PollFlush
    <3>2. CASE ~flushPending
      BY <1>5, <3>2 DEF PollFlush, AfterFlush
    <3> QED BY <3>1, <3>2
  <2> QED BY <1>5, <2>1, HandKept DEF PollFlush
<1>6. CASE PollHud \/ HudDone
  BY <1>2, <1>6, HandKept DEF PollHud, HudDone
<1>7. CASE \/ SetRestoreBufferOverride("override", finalize1, "restoreRead")
           \/ SetRestoreBufferOverride("overrideNull", None, "restoreReadNull")
           \/ RestoreBufferRead1("restoreRead", "restoreWrite")
           \/ RestoreBufferRead1("restoreReadNull", "restoreWriteNull")
           \/ RestoreBufferWrite1("restoreWrite", "overlayBegin")
           \/ RestoreBufferWrite1("restoreWriteNull", "publish")
  BY <1>7, HandKept DEF SetRestoreBufferOverride, RestoreBufferRead1, RestoreBufferWrite1
<1>8. CASE OverlayBegin1 \/ OverlayDraw1
  BY <1>8, HandKept DEF OverlayBegin1, OverlayDraw1
<1>9. CASE OverlayFlush1
  <2>1. \A b \in Buffers : buf'[b].scene = buf[b].scene
    BY <1>1, <1>3, <1>9 DEF OverlayFlush1, FlushPatchList, Content
  <2> QED BY <1>4, <1>9, <2>1, HandKept DEF OverlayFlush1
<1>10. CASE FinalizePublish
  BY <1>2, <1>10, HandKept DEF FinalizePublish
<1>11. CASE FlushStrip1
  <2>1. /\ pc1 = "flush" /\ Len(shot[1]) < Strips
        /\ UNCHANGED <<build, flushPending, flushBuffer, hudFinalize, pc1, buf, pc0, renderBuf>>
        /\ shot' = [shot EXCEPT ![1] = Append(@, StripOf(buffer1))]
    BY <1>11 DEF FlushStrip1, SendStrip, StripOf
  <2>2. Handed # <<>> /\ Head(Handed) = buf[buffer1].scene /\ Handed' = Handed
    <3>1. /\ SceneOf(Flushed) = <<buf[buffer1].scene>> /\ SceneOf(FlushedHere) = <<>>
          /\ SceneOf(Flushed)' = SceneOf(Flushed) /\ SceneOf(FlushedHere)' = <<>>
          /\ SceneOf(hudFinalize)' = SceneOf(hudFinalize)
          /\ SceneOf(hudFinalize) \in {<<>>, <<buf[hudFinalize].scene>>}
      BY <1>1, <2>1 DEF SceneOf
    <3> QED BY <3>1, AtMostTwo DEF HandedInv
  <2>3. Len(Shown) < Strips /\ Shown' = Append(Shown, buf[buffer1].scene)
    <3>1. 1 \in Cores /\ ((1 = 0 /\ pc1 \notin {"flush", "finFlush"}) \/ (1 = 1 /\ pc0 # "submit"))
      BY <1>1, <2>1 DEF Cores
    <3> QED BY <1>1, <2>1, <3>1, OneStripMore, Zenon
  <2>4. Delivery!Send
    BY <2>2, <2>3 DEF Delivery!Send
  <2> QED BY <2>4 DEF Delivery!Next
<1>12. CASE FlushDone
  <2>1. /\ pc1 = "flush" /\ pc1' \in {"poll", "pollHud"} /\ ~flushPending
        /\ UNCHANGED <<build, flushPending, hudFinalize, buf, pc0, renderBuf>>
        /\ shot' = [shot EXCEPT ![1] = <<>>]
    BY <1>1, <1>12 DEF FlushDone, EndTransfer, AfterFlush
  <2>2. Handed # <<>> /\ Handed' = Tail(Handed)
    <3>1. /\ SceneOf(Flushed) = <<buf[buffer1].scene>> /\ SceneOf(FlushedHere) = <<>>
          /\ SceneOf(Flushed)' = <<>> /\ SceneOf(FlushedHere)' = <<>>
          /\ SceneOf(hudFinalize)' = SceneOf(hudFinalize)
          /\ SceneOf(hudFinalize) \in {<<>>, <<buf[hudFinalize].scene>>}
      BY <1>1, <2>1 DEF SceneOf
    <3> QED BY <3>1, AtMostTwo, Alone DEF HandedInv
  <2>3. Shown' = <<>>
    BY <1>1, <2>1, TransferEnded DEF Cores
  <2>4. Delivery!Release
    BY <2>2, <2>3 DEF Delivery!Release
  <2> QED BY <2>4 DEF Delivery!Next
<1>13. CASE FinalizeStrip
  <2>1. /\ pc1 = "finFlush" /\ Len(shot[1]) < Strips
        /\ UNCHANGED <<build, flushPending, flushBuffer, hudFinalize, pc1, buf, pc0, renderBuf>>
        /\ shot' = [shot EXCEPT ![1] = Append(@, StripOf(finalize1))]
    BY <1>13 DEF FinalizeStrip, SendStrip, StripOf
  <2>2. Handed = <<buf[finalize1].scene>> /\ Handed' = Handed
    <3>1. /\ SceneOf(Flushed) = <<>> /\ SceneOf(FlushedHere) = <<>>
          /\ SceneOf(hudFinalize) = <<buf[finalize1].scene>>
          /\ SceneOf(Flushed)' = <<>> /\ SceneOf(FlushedHere)' = <<>>
          /\ SceneOf(hudFinalize)' = SceneOf(hudFinalize)
      BY <1>1, <2>1 DEF SceneOf
    <3> QED BY <3>1, Alone DEF HandedInv
  <2>3. Len(Shown) < Strips /\ Shown' = Append(Shown, buf[finalize1].scene)
    <3>1. 1 \in Cores /\ ((1 = 0 /\ pc1 \notin {"flush", "finFlush"}) \/ (1 = 1 /\ pc0 # "submit"))
      BY <1>1, <2>1 DEF Cores
    <3> QED BY <1>1, <2>1, <3>1, OneStripMore, Zenon
  <2>4. Delivery!Send
    BY <2>2, <2>3 DEF Delivery!Send
  <2> QED BY <2>4 DEF Delivery!Next
<1>14. CASE FinalizeDone
  <2>1. /\ pc1 = "finFlush" /\ pc1' = "poll" /\ hudFinalize' = None /\ ~flushPending
        /\ UNCHANGED <<build, flushPending, buf, pc0, renderBuf>>
        /\ shot' = [shot EXCEPT ![1] = <<>>]
    BY <1>1, <1>14 DEF FinalizeDone, EndTransfer
  <2>2. Handed = <<buf[finalize1].scene>> /\ Handed' = <<>>
    <3>1. /\ SceneOf(Flushed) = <<>> /\ SceneOf(FlushedHere) = <<>>
          /\ SceneOf(hudFinalize) = <<buf[finalize1].scene>>
          /\ SceneOf(Flushed)' = <<>> /\ SceneOf(FlushedHere)' = <<>>
          /\ SceneOf(hudFinalize)' = <<>>
      BY <1>1, <2>1 DEF SceneOf
    <3> QED BY <3>1, Alone DEF HandedInv
  <2>3. Shown' = <<>>
    BY <1>1, <2>1, TransferEnded DEF Cores
  <2>4. Delivery!Release
    BY <2>2, <2>3 DEF Delivery!Release
  <2> QED BY <2>4 DEF Delivery!Next
<1> QED
  BY <1>5, <1>6, <1>7, <1>8, <1>9, <1>10, <1>11, <1>12, <1>13, <1>14 DEF Core1

\* A core that is not sending keeps having sent nothing.
LEMMA SendStays ==
  ASSUME DeliverInv, Next
  PROVE  SendInv'
<1> USE DEF DeliverInv, SendInv, config, game, flush, hud, screen, pal, local0, local1, Goto0, Goto1
<1>1. shot \in [Cores -> Seq(Strip)] /\ 0 \in Cores /\ 1 \in Cores
  BY DEF Inv, TypeOK, Cores
<1>2. CASE Core0
  <2>1. CASE SyncFlushStrip \/ SyncFlushDone
    BY <1>1, <2>1 DEF SyncFlushStrip, SyncFlushDone, SendStrip, EndTransfer
  <2>2. CASE ~(SyncFlushStrip \/ SyncFlushDone)
    <3>1. UNCHANGED <<shot, build, pc1>>
      BY <1>2, <2>2
      DEF Core0, Tic, TicPlay, TicDefer, TicRunAction, TicAdvanceDemo, TicCommon, TicsDone,
          BeginRenderSame, BeginRenderSwap, SelectRenderBuffer, RestoreBufferRead0,
          RestoreBufferWrite0, RenderStart, RenderEnd, EndFrame, WaitForAsyncFlush,
          UpdatePaletteStart, UpdatePaletteEnd, StartAsyncFrameFinalize, StartAsyncHud,
          WaitForAsyncHud, OverlayBegin0, OverlayDraw0, OverlayFlush0, FinishUpdate, SubmitFlush
    <3>2. pc0 = "submit" /\ build.syncFlush => pc0' = "submit"
      BY <1>2, <2>2
      DEF Core0, Tic, TicPlay, TicDefer, TicRunAction, TicAdvanceDemo, TicCommon, TicsDone,
          BeginRenderSame, BeginRenderSwap, SelectRenderBuffer, RestoreBufferRead0,
          RestoreBufferWrite0, RenderStart, RenderEnd, EndFrame, WaitForAsyncFlush,
          UpdatePaletteStart, UpdatePaletteEnd, StartAsyncFrameFinalize, StartAsyncHud,
          WaitForAsyncHud, OverlayBegin0, OverlayDraw0, OverlayFlush0, FinishUpdate, SubmitFlush
    <3> QED BY <3>1, <3>2
  <2> QED BY <2>1, <2>2
<1>3. CASE Core1
  <2>1. CASE FlushStrip1 \/ FlushDone \/ FinalizeStrip \/ FinalizeDone
    BY <1>1, <2>1 DEF FlushStrip1, FlushDone, FinalizeStrip, FinalizeDone, SendStrip, EndTransfer
  <2>2. CASE ~(FlushStrip1 \/ FlushDone \/ FinalizeStrip \/ FinalizeDone)
    <3>1. UNCHANGED <<shot, build, pc0>> /\ pc1 \notin {"flush", "finFlush"}
      BY <1>3, <2>2
      DEF Core1, PollFlush, PollHud, SetRestoreBufferOverride, RestoreBufferRead1,
          RestoreBufferWrite1, OverlayBegin1, OverlayDraw1, OverlayFlush1, HudDone, FinalizePublish
    <3> QED BY <3>1
  <2> QED BY <2>1, <2>2
<1> QED BY <1>2, <1>3 DEF Next

\* The waits a build is without stay without a purpose.
LEMMA BusyStays ==
  ASSUME DeliverInv, Next
  PROVE  BusyInv'
<1> USE DEF DeliverInv, BusyInv, FlushIdle, config, game, flush, hud, screen, pal,
            local0, local1, Goto0, Goto1
<1>1. pc0 = "finStart" => build.asyncHud /\ build.doubleBuffer /\ ~build.syncFlush
  BY DEF Inv, Handover, Core0Inv
<1>2. UNCHANGED build
  BY DEF Next, Core0, Core1, Tic, TicPlay, TicDefer, TicRunAction, TicAdvanceDemo, TicCommon,
         TicsDone, BeginRenderSame, BeginRenderSwap, SelectRenderBuffer, RestoreBufferRead0,
         RestoreBufferWrite0, RenderStart, RenderEnd, EndFrame, WaitForAsyncFlush,
         UpdatePaletteStart, UpdatePaletteEnd, StartAsyncFrameFinalize, StartAsyncHud,
         WaitForAsyncHud, OverlayBegin0, OverlayDraw0, OverlayFlush0, FinishUpdate,
         SubmitFlush, SyncFlushStrip, SyncFlushDone, PollFlush, FlushStrip1, FlushDone,
         PollHud, SetRestoreBufferOverride, RestoreBufferRead1, RestoreBufferWrite1,
         OverlayBegin1, OverlayDraw1, OverlayFlush1, HudDone, FinalizePublish,
         FinalizeStrip, FinalizeDone
<1>3. CASE Core0
  <2>1. CASE SubmitFlush
    BY <1>2, <2>1 DEF SubmitFlush
  <2>2. CASE StartAsyncFrameFinalize
    BY <1>1, <1>2, <2>2 DEF StartAsyncFrameFinalize
  <2>3. CASE BeginRenderSame \/ BeginRenderSwap
    BY <1>2, <2>3 DEF BeginRenderSame, BeginRenderSwap
  <2>4. CASE ~(SubmitFlush \/ StartAsyncFrameFinalize \/ BeginRenderSame \/ BeginRenderSwap)
    <3>1. UNCHANGED <<pc1, flushBusy, flushPending>>
      BY <1>3, <2>4
      DEF Core0, Tic, TicPlay, TicDefer, TicRunAction, TicAdvanceDemo, TicCommon, TicsDone,
          SelectRenderBuffer, RestoreBufferRead0, RestoreBufferWrite0, RenderStart, RenderEnd,
          EndFrame, WaitForAsyncFlush, UpdatePaletteStart, UpdatePaletteEnd, StartAsyncHud,
          WaitForAsyncHud, OverlayBegin0, OverlayDraw0, OverlayFlush0, FinishUpdate,
          SyncFlushStrip, SyncFlushDone
    <3>2. pc0 \in {"tic", "begin"} => pc0' \in {"tic", "begin"}
      BY <1>3, <2>4
      DEF Core0, Tic, TicPlay, TicDefer, TicRunAction, TicAdvanceDemo, TicCommon, TicsDone,
          SelectRenderBuffer, RestoreBufferRead0, RestoreBufferWrite0, RenderStart, RenderEnd,
          EndFrame, WaitForAsyncFlush, UpdatePaletteStart, UpdatePaletteEnd, StartAsyncHud,
          WaitForAsyncHud, OverlayBegin0, OverlayDraw0, OverlayFlush0, FinishUpdate,
          SyncFlushStrip, SyncFlushDone
    <3> QED BY <1>2, <3>1, <3>2
  <2> QED BY <2>1, <2>2, <2>3, <2>4
<1>4. CASE Core1
  <2>1. pc0' = pc0 /\ (FlushIdle => FlushIdle')
    <3>1. flushBusy' \in {flushBusy, FALSE}
      <4>1. CASE FlushDone
        <5>1. BusyAfterFlush \in BOOLEAN /\ (BusyAfterFlush => flushBusy) /\ flushBusy \in BOOLEAN
          BY DEF BusyAfterFlush, Inv, TypeOK
        <5> QED BY <4>1, <5>1 DEF FlushDone
      <4>2. CASE ~FlushDone
        BY <1>4, <4>2
        DEF Core1, PollFlush, FlushStrip1, PollHud, SetRestoreBufferOverride,
            RestoreBufferRead1, RestoreBufferWrite1, OverlayBegin1, OverlayDraw1,
            OverlayFlush1, HudDone, FinalizePublish, FinalizeStrip, FinalizeDone
      <4> QED BY <4>1, <4>2
    <3>2. pc0' = pc0 /\ flushPending' \in {flushPending, FALSE}
      BY <1>4
      DEF Core1, PollFlush, FlushStrip1, FlushDone, PollHud, SetRestoreBufferOverride,
          RestoreBufferRead1, RestoreBufferWrite1, OverlayBegin1, OverlayDraw1,
          OverlayFlush1, HudDone, FinalizePublish, FinalizeStrip, FinalizeDone
    <3>3. ~flushBusy => ~flushBusy'
      BY <3>1
    <3>4. ~flushPending => ~flushPending'
      BY <3>2
    <3> QED BY <3>2, <3>3, <3>4
  <2>2. pc1' = "pollHud" => build.asyncHud
    BY <1>1, <1>4
    DEF Core1, PollFlush, FlushStrip1, FlushDone, AfterFlush, PollHud,
        SetRestoreBufferOverride, RestoreBufferRead1, RestoreBufferWrite1, OverlayBegin1,
        OverlayDraw1, OverlayFlush1, HudDone, FinalizePublish, FinalizeStrip, FinalizeDone
  <2> QED BY <1>2, <2>1, <2>2
<1> QED BY <1>3, <1>4 DEF Next

\* A frame to be flushed is taken up before the next one is drawn to the end,
\* so nothing is queued behind it that core1 would finish first.
LEMMA HandStays ==
  ASSUME Prompt, DeliverInv, Next
  PROVE  HandInv'
<1> USE DEF HandInv, config, game, flush, hud, screen, pal, local0, local1, Goto0, Goto1
<1>1. HandInv /\ BusyInv
  BY DEF DeliverInv
<1>2. CASE Core0
  <2>1. CASE SubmitFlush
    <3>1. pc1 \in {"poll", "pollHud"} /\ ~hudPending /\ renderBuf # None
      BY <2>1, OneSends DEF SubmitFlush
    <3> QED BY <2>1, <3>1 DEF SubmitFlush, DrawnPcs
  <2>2. CASE RenderEnd
    <3>1. flushPending => pc1 # "pollHud"
      <4>1. CASE ~build.doubleBuffer \/ build.syncFlush
        BY <1>1, <2>2, <4>1 DEF BusyInv, RenderEnd, FlushIdle
      <4>2. CASE build.doubleBuffer /\ ~build.syncFlush /\ PromptPoll
        BY <2>2, <4>2 DEF RenderEnd
      <4>3. CASE build.doubleBuffer /\ ~build.syncFlush /\ NoFinalize
        BY <1>1, <4>3 DEF NoFinalize, BusyInv, DeliverInv, Inv, TypeOK
      <4>4. build.doubleBuffer \in BOOLEAN /\ build.syncFlush \in BOOLEAN
        BY BuildsAssumption DEF DeliverInv, Inv, TypeOK, Build
      <4> QED BY <4>1, <4>2, <4>3, <4>4 DEF Prompt
    <3> QED BY <1>1, <2>2, <3>1 DEF RenderEnd
  <2>3. CASE StartAsyncFrameFinalize \/ StartAsyncHud
    BY <1>1, <2>3 DEF StartAsyncFrameFinalize, StartAsyncHud, DrawnPcs
  <2>4. CASE ~(SubmitFlush \/ RenderEnd \/ StartAsyncFrameFinalize \/ StartAsyncHud)
    <3>1. UNCHANGED <<pc1, flushPending, flushBuffer, hudPending>>
      BY <1>2, <2>4
      DEF Core0, Tic, TicPlay, TicDefer, TicRunAction, TicAdvanceDemo, TicCommon, TicsDone,
          BeginRenderSame, BeginRenderSwap, SelectRenderBuffer, RestoreBufferRead0,
          RestoreBufferWrite0, RenderStart, EndFrame, WaitForAsyncFlush, UpdatePaletteStart,
          UpdatePaletteEnd, WaitForAsyncHud, OverlayBegin0, OverlayDraw0, OverlayFlush0,
          FinishUpdate, SyncFlushStrip, SyncFlushDone
    <3>2. pc0' \in DrawnPcs => pc0 \in DrawnPcs
      BY <1>2, <2>4
      DEF Core0, Tic, TicPlay, TicDefer, TicRunAction, TicAdvanceDemo, TicCommon, TicsDone,
          BeginRenderSame, BeginRenderSwap, SelectRenderBuffer, RestoreBufferRead0,
          RestoreBufferWrite0, RenderStart, EndFrame, WaitForAsyncFlush, UpdatePaletteStart,
          UpdatePaletteEnd, WaitForAsyncHud, OverlayBegin0, OverlayDraw0, OverlayFlush0,
          FinishUpdate, SyncFlushStrip, SyncFlushDone, DrawnPcs
    <3> QED BY <1>1, <3>1, <3>2
  <2> QED BY <2>1, <2>2, <2>3, <2>4
<1>3. CASE Core1
  <2>1. CASE PollFlush
    BY <2>1 DEF PollFlush
  <2>2. CASE PollHud
    BY <1>1, <2>2 DEF PollHud
  <2>3. CASE ~(PollFlush \/ PollHud)
    <3>1. pc1 \notin {"poll", "pollHud"} /\ flushPending' = flushPending
      BY <1>3, <2>3
      DEF Core1, FlushStrip1, FlushDone, SetRestoreBufferOverride, RestoreBufferRead1,
          RestoreBufferWrite1, OverlayBegin1, OverlayDraw1, OverlayFlush1, HudDone,
          FinalizePublish, FinalizeStrip, FinalizeDone
    <3> QED BY <1>1, <3>1
  <2> QED BY <2>1, <2>2, <2>3
<1> QED BY <1>2, <1>3 DEF Next

(* The pipeline implements FrameDelivery: frames handed to the display reach *)
(* the panel one at a time, in the order they were handed over, each strip   *)
(* showing the frame at the head, at most two outstanding.  In the build     *)
(* that finishes frames on core1, this is so when core1 is not held up       *)
(* between the halves of its poll for as long as a scene takes to draw.      *)
THEOREM FramesDelivered ==
  ASSUME Prompt
  PROVE  Spec => DeliverySafe
<1>1. Init => DeliverInv /\ Delivery!Init
  <2> SUFFICES ASSUME Init PROVE DeliverInv /\ Delivery!Init
    OBVIOUS
  <2>1. Inv
    BY InitInv
  <2>2. shot[0] = <<>> /\ shot[1] = <<>>
    BY DEF Init, Cores
  <2>3. QuietInv /\ HandInv /\ BusyInv /\ SendInv
    BY <2>2 DEF Init, QuietInv, HudFree, HandInv, BusyInv, SendInv, FlushIdle
  <2>4. Handed = <<>> /\ Shown = <<>>
    <3>1. Handed = <<>> \o <<>> \o <<>>
      BY DEF Init, Handed, SceneOf
    <3> QED BY <2>2, <3>1 DEF Shown
  <2> QED BY <2>1, <2>3, <2>4 DEF DeliverInv, Delivery!Init
<1>2. DeliverInv => HandedInv
  BY HandedIs
<1>3. DeliverInv /\ [Next]_vars => DeliverInv'
  <2> SUFFICES ASSUME DeliverInv, [Next]_vars PROVE DeliverInv'
    OBVIOUS
  <2>1. CASE Core0 \/ Core1
    <3>1. Inv' /\ QuietInv'
      BY <2>1, Core0Type, Core1Type, Core0Handover, Core1Handover, Core0Quiet, Core1Quiet
      DEF DeliverInv, Inv
    <3>2. HandInv' /\ BusyInv' /\ SendInv'
      BY <2>1, HandStays, BusyStays, SendStays DEF Next
    <3> QED BY <3>1, <3>2 DEF DeliverInv
  <2>2. CASE UNCHANGED vars
    <3>1. Inv'
      BY <2>2, StutterInv DEF DeliverInv
    <3>2. QuietInv' /\ HandInv' /\ BusyInv' /\ SendInv'
      BY <2>2 DEF DeliverInv, vars, QuietInv, HudFree, HandInv, BusyInv, SendInv, FlushIdle
    <3> QED BY <3>1, <3>2 DEF DeliverInv
  <2> QED BY <2>1, <2>2 DEF Next
<1>4. DeliverInv /\ HandedInv /\ [Next]_vars /\ HandedInv' => [Delivery!Next]_<<Handed, Shown>>
  <2> SUFFICES ASSUME DeliverInv, HandedInv, [Next]_vars, HandedInv'
               PROVE  [Delivery!Next]_<<Handed, Shown>>
    OBVIOUS
  <2>1. CASE Core0
    BY <2>1, Core0Delivers
  <2>2. CASE Core1
    BY <2>2, Core1Delivers
  <2>3. CASE UNCHANGED vars
    BY <2>3 DEF vars, Handed, Shown, SceneOf
  <2> QED BY <2>1, <2>2, <2>3 DEF Next
<1> QED BY <1>1, <1>2, <1>3, <1>4, PTL DEF Spec, DeliverySafe
=============================================================================
