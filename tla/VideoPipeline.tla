--------------------------- MODULE VideoPipeline ---------------------------
(* The two-core display pipeline of DoomConsole: core0 runs game tics and   *)
(* draws frames, core1 draws overlays and streams finished frames to the    *)
(* TFT panel.  The code is src/jaszczurhal/doom_video_hal.c, the loop that  *)
(* calls it is src/doom/d_main.c, and the pre-wipe handshake of             *)
(* src/doom/doom_pre_wipe.c and src/doom/g_game.c decides when a level      *)
(* change may run.                                                          *)
(*                                                                          *)
(* One step of the model is one critical section, one plain access to a     *)
(* variable both cores use, or a stretch of work on data the other core may *)
(* read meanwhile (drawing a scene, building the palette table), which      *)
(* begins and ends in two steps.                                            *)
EXTENDS Naturals, Sequences

CONSTANTS
  Builds,     \* compile-time configurations the run covers
  None,       \* NULL, and "no value"
  Strips,     \* panel transfers per frame (SCREENHEIGHT / DOOM_FLUSH_LINES)
  FrameMod,   \* frame numbers are counted modulo FrameMod
  Palettes,   \* PLAYPAL palette numbers
  MaxTics,    \* bound: game tics one TryRunTics runs
  PromptPoll  \* timing: in the build that finalizes frames core1 is never held
              \* up between the two halves of its poll for as long as core0
              \* takes to draw a scene

Build == [asyncHud : BOOLEAN, doubleBuffer : BOOLEAN, syncFlush : BOOLEAN]

ASSUME BuildsAssumption == Builds \subseteq Build
ASSUME BoundsAssumption ==
  Strips \in Nat \ {0} /\ FrameMod \in Nat \ {0} /\ MaxTics \in Nat \ {0}
ASSUME PalettesAssumption == Palettes \subseteq Nat /\ 0 \in Palettes
ASSUME NoneAssumption == None \notin Nat
ASSUME PromptPollAssumption == PromptPoll \in BOOLEAN

VARIABLES
  build,         \* DOOM_RENDER_ASYNC_HUD, _DOUBLE_BUFFER, _SYNC_FLUSH
  displayReady,  \* s_display_ready
  \* core0: the game loop
  pc0,           \* where core0 is
  tics,          \* tics run by the current TryRunTics
  frame,         \* number of the frame core0 is working on
  view,          \* gamestate and automapactive: what the frame shows
  oldLevel,      \* oldgamestate = GS_LEVEL, in D_Display
  menu,          \* menuactive
  action,        \* gameaction is one of the deferrable level changes
  preWipe,       \* s_state of doom_pre_wipe.c
  hudPal,        \* the palette the player's state calls for
  renderBuf,     \* the buffer I_VideoBuffer points to
  dest0,         \* core0's V_RestoreBuffer: the value it is about to store
  pal0,          \* core0: the palette number it is building
  \* shared with core1
  flushPending, flushBusy, flushBuffer,   \* s_flush_*
  hudPending, hudBusy, hudFinalize,       \* s_hud_*
  override,      \* restore_screen_override
  dest,          \* dest_screen
  patchList,     \* frames whose patches are in s_hal_patch_list
  stPal,         \* st_palette: what ST_Drawer asked for last
  stStopped,     \* st_stopped: no level has started the status bar yet
  nextPal,       \* s_next_palette_num
  activePal,     \* s_active_palette_num
  palTable,      \* the palette in s_palette_rgb565_be, None while half built
  buf,           \* contents of the framebuffers
  shot,          \* strips already sent, per core, of the transfer it is in
  \* core1
  pc1, buffer1, finalize1, dest1

vars == <<build, displayReady, pc0, tics, frame, view, oldLevel, menu, action,
          preWipe, hudPal, renderBuf, dest0, pal0, flushPending, flushBusy,
          flushBuffer, hudPending, hudBusy, hudFinalize, override, dest,
          patchList, stPal, stStopped, nextPal, activePal, palTable, buf, shot,
          pc1, buffer1, finalize1, dest1>>

\* Groups of variables that most actions leave alone.
config == <<build, displayReady>>
game   == <<tics, frame, view, oldLevel, menu, action, preWipe, hudPal>>
flush  == <<flushPending, flushBusy, flushBuffer>>
hud    == <<hudPending, hudBusy, hudFinalize>>
screen == <<override, dest>>
pal    == <<stPal, stStopped, nextPal, activePal, palTable, pal0>>
local0 == <<renderBuf, dest0>>
local1 == <<buffer1, finalize1, dest1>>

Buffers == {0, 1}
Frames  == 0 .. FrameMod - 1
Views   == {"level", "map", "page"}
Cores   == {0, 1}

(* What a framebuffer holds: the frame whose scene core0 finished there     *)
(* last (None while core0 is drawing into it), and the frames whose overlay *)
(* patches (status bar, messages, menu, full-screen pages) were drawn over  *)
(* that scene.                                                              *)
Content == [scene : Frames \cup {None}, overlay : SUBSET Frames]
\* What one strip showed when it was converted and sent.
Strip == [scene : Frames \cup {None}, overlay : SUBSET Frames,
          pal : Palettes \cup {None}]

-----------------------------------------------------------------------------
\* Conditions the code tests.

FlushIdleIgnoresBusy == ~flushPending

FlushIdle == ~flushBusy /\ ~flushPending

HudFree == ~hudPending /\ ~hudBusy /\ hudFinalize = None

LevelView == view \in {"level", "map"}     \* gamestate == GS_LEVEL

PaletteUpdatePending == nextPal # None

PreWipeNotConsulted == FALSE

PreWipeIsPending == preWipe # "idle"

CanFinalizeGameplayAsync ==
  /\ build.asyncHud /\ build.doubleBuffer /\ ~build.syncFlush
  /\ view = "level" /\ ~menu
  /\ ~PreWipeIsPending

\* I_SetPaletteNum: a request for what is already active is dropped.
SetPaletteNum(n) ==
  nextPal' = IF nextPal = None /\ n = activePal THEN nextPal ELSE n

\* V_RestoreBuffer, the value it stores in dest_screen.
RestoreTarget == IF override # None THEN override ELSE renderBuf

NextFrame == frame' = (frame + 1) % FrameMod /\ tics' = 0

Goto0(l) == pc0' = l
Goto1(l) == pc1' = l

Init ==
  /\ build \in Builds
  /\ displayReady \in BOOLEAN
  /\ pc0 = "tic" /\ tics = 0 /\ frame = 0
  /\ view = "page" /\ oldLevel = FALSE /\ menu = FALSE
  /\ action = FALSE /\ preWipe = "idle"
  /\ hudPal = 0
  /\ renderBuf = 0 /\ dest0 = None /\ pal0 = 0
  /\ flushPending = FALSE /\ flushBusy = FALSE /\ flushBuffer = None
  /\ hudPending = FALSE /\ hudBusy = FALSE /\ hudFinalize = None
  /\ override = None /\ dest = 0 /\ patchList = {}
  /\ stPal = None /\ stStopped = TRUE /\ nextPal = 0 /\ activePal = 0 /\ palTable = None
  /\ buf = [b \in Buffers |-> [scene |-> None, overlay |-> {}]]
  /\ shot = [c \in Cores |-> <<>>]
  /\ pc1 = "poll" /\ buffer1 = None /\ finalize1 = None /\ dest1 = None

-----------------------------------------------------------------------------
(* core0, TryRunTics: at least one tic of the game, which may open or close *)
(* the menu, change what the status bar will ask for, and request, defer,   *)
(* drop or carry out a level change.                                        *)

TicCommon ==
  /\ pc0 = "tic" /\ tics < MaxTics
  /\ tics' = tics + 1
  /\ menu' \in BOOLEAN
  /\ hudPal' \in Palettes
  /\ UNCHANGED <<config, pc0, frame, oldLevel, local0, pal0, flush, hud, screen,
                 patchList, activePal, palTable, buf, shot, pc1, local1>>

\* The tic ends on the page or level v.  A level just loaded has run ST_Start:
\* it asks for palette 0 (ST_Stop, if the bar was ever started) and forgets
\* what the bar asked for before.
EnterView(v) ==
  /\ view' = v
  /\ IF v = "level"
       THEN /\ stPal' = None /\ stStopped' = FALSE
            /\ IF stStopped THEN UNCHANGED nextPal ELSE SetPaletteNum(0)
       ELSE UNCHANGED <<stPal, stStopped, nextPal>>

\* No level change is pending; the tic itself may request one.
TicPlay ==
  /\ TicCommon
  /\ ~action
  /\ action' \in BOOLEAN
  /\ view' \in (IF LevelView THEN {"level", "map"} ELSE {"page"})
  /\ UNCHANGED <<preWipe, stPal, stStopped, nextPal>>

\* G_Ticker with a level change pending: put off until the overlay-only frame
\* has been drawn (DoomPreWipe_ShouldDeferAction returns true).
TicDefer ==
  /\ TicCommon
  /\ action /\ preWipe # "rendered"
  /\ preWipe' = "needed"
  /\ UNCHANGED <<action, view, stPal, stStopped, nextPal>>

\* The level change runs (DoomPreWipe_ShouldDeferAction returns false) and
\* loads a level, or ends one with an intermission or finale page.
TicRunAction ==
  /\ TicCommon
  /\ action /\ preWipe = "rendered"
  /\ preWipe' = "idle"
  /\ action' \in BOOLEAN
  /\ \E v \in {"level", "page"} : EnterView(v)

\* A demo ended or a page timed out: D_DoAdvanceDemo, called before G_Ticker,
\* forgets a pending level change and shows a page or starts a demo, neither
\* of them deferred.  (Which levels are demos is not kept.)
TicAdvanceDemo ==
  /\ TicCommon
  /\ action' = FALSE
  /\ \E v \in {"level", "page"} : EnterView(v)
  /\ UNCHANGED preWipe

Tic == TicPlay \/ TicDefer \/ TicRunAction \/ TicAdvanceDemo

\* TryRunTics returns and D_Display starts.
TicsDone ==
  /\ pc0 = "tic" /\ tics > 0
  /\ Goto0("begin")
  /\ UNCHANGED <<config, game, local0, pal, flush, hud, screen, patchList, buf,
                 shot, pc1, local1>>

-----------------------------------------------------------------------------
\* core0, DoomVideo_BeginRenderFrame: wait for a buffer core1 does not use.

Flushing == flushBuffer

FinalizingUnseen == None

Finalizing == IF build.asyncHud /\ (hudPending \/ hudBusy) THEN hudFinalize
                                                           ELSE None

RenderBusy == ~FlushIdle \/ (build.asyncHud /\ (hudPending \/ hudBusy))

OtherBufferCountsUp == renderBuf + 1

OtherBuffer == 1 - renderBuf       \* s_render_buffer_index ^ 1

BufferTaken(b) == b \in {Flushing, Finalizing}

BeginRenderSame ==
  /\ pc0 = "begin"
  /\ IF build.doubleBuffer THEN ~RenderBusy \/ ~BufferTaken(renderBuf)
                           ELSE FlushIdle
  /\ Goto0("render")
  /\ UNCHANGED <<config, game, local0, pal, flush, hud, screen, patchList, buf,
                 shot, pc1, local1>>

BeginRenderSwap ==
  /\ pc0 = "begin"
  /\ build.doubleBuffer /\ RenderBusy
  /\ BufferTaken(renderBuf) /\ ~BufferTaken(OtherBuffer)
  /\ Goto0("select")
  /\ UNCHANGED <<config, game, local0, pal, flush, hud, screen, patchList, buf,
                 shot, pc1, local1>>

\* select_render_buffer moves I_VideoBuffer, then calls V_RestoreBuffer.
SelectRenderBuffer ==
  /\ pc0 = "select"
  /\ renderBuf' = OtherBuffer
  /\ Goto0("restoreRead")
  /\ UNCHANGED <<config, game, dest0, pal, flush, hud, screen, patchList, buf,
                 shot, pc1, local1>>

RestoreBufferRead0 ==
  /\ pc0 = "restoreRead"
  /\ dest0' = RestoreTarget
  /\ Goto0("restoreWrite")
  /\ UNCHANGED <<config, game, renderBuf, pal, flush, hud, screen, patchList,
                 buf, shot, pc1, local1>>

RestoreBufferWrite0 ==
  /\ pc0 = "restoreWrite"
  /\ dest' = dest0
  /\ dest0' = None
  /\ Goto0("render")
  /\ UNCHANGED <<config, game, renderBuf, pal, flush, hud, override, patchList,
                 buf, shot, pc1, local1>>

\* D_Display draws the scene.  Leaving the game for a page, it asks for palette 0.
RenderStart ==
  /\ pc0 = "render"
  /\ buf' = [buf EXCEPT ![renderBuf].scene = None]
  /\ IF view = "page" /\ oldLevel THEN SetPaletteNum(0) ELSE UNCHANGED nextPal
  /\ oldLevel' = LevelView
  /\ Goto0("drawing")
  /\ UNCHANGED <<config, tics, frame, view, menu, action, preWipe, hudPal,
                 local0, stPal, stStopped, activePal, palTable, pal0, flush,
                 hud, screen, patchList, shot, pc1, local1>>

RenderEnd ==
  /\ pc0 = "drawing"
  /\ PromptPoll /\ build.doubleBuffer /\ ~build.syncFlush => pc1 # "pollHud"
  /\ buf' = [buf EXCEPT ![renderBuf] = [scene |-> frame, overlay |-> {}]]
  /\ Goto0("end")
  /\ UNCHANGED <<config, game, local0, pal, flush, hud, screen, patchList, shot,
                 pc1, local1>>

-----------------------------------------------------------------------------
\* core0, pd_end_frame: hand the frame to core1 whole, or draw its overlay
\* first and then hand it over in I_FinishUpdate.

EndFrame ==
  /\ pc0 = "end"
  /\ Goto0(IF ~CanFinalizeGameplayAsync THEN "hudStart"
           ELSE IF PaletteUpdatePending THEN "finWait" ELSE "finStart")
  /\ UNCHANGED <<config, game, local0, pal, flush, hud, screen, patchList, buf,
                 shot, pc1, local1>>

\* DoomVideo_WaitForAsyncFlush, called at l, returns and core0 goes on at m.
WaitForAsyncFlush(l, m) ==
  /\ pc0 = l
  /\ FlushIdle
  /\ Goto0(m)
  /\ UNCHANGED <<config, game, local0, pal, flush, hud, screen, patchList, buf,
                 shot, pc1, local1>>

\* update_palette_if_needed, called at l: build the table (at b), go on at m.
UpdatePaletteStart(l, b, m) ==
  /\ pc0 = l
  /\ IF PaletteUpdatePending
       THEN pal0' = nextPal /\ palTable' = None /\ Goto0(b)
       ELSE Goto0(m) /\ UNCHANGED <<pal0, palTable>>
  /\ UNCHANGED <<config, game, local0, stPal, stStopped, nextPal, activePal,
                 flush, hud, screen, patchList, buf, shot, pc1, local1>>

UpdatePaletteEnd(b, m) ==
  /\ pc0 = b
  /\ palTable' = pal0 /\ activePal' = pal0 /\ nextPal' = None
  /\ Goto0(m)
  /\ UNCHANGED <<config, game, local0, stPal, stStopped, pal0, flush, hud,
                 screen, patchList, buf, shot, pc1, local1>>

StartAsyncFrameFinalize ==
  /\ pc0 = "finStart"
  /\ IF HudFree
       THEN /\ hudFinalize' = renderBuf /\ hudPending' = TRUE /\ flushBusy' = TRUE
            /\ NextFrame
            /\ Goto0("tic")
       ELSE /\ Goto0("hudStart")
            /\ UNCHANGED <<hudFinalize, hudPending, flushBusy, frame, tics>>
  /\ UNCHANGED <<config, view, oldLevel, menu, action, preWipe, hudPal, local0,
                 pal, flushPending, flushBuffer, hudBusy, screen, patchList,
                 buf, shot, pc1, local1>>

StartAsyncHud ==
  /\ pc0 = "hudStart"
  /\ IF build.asyncHud /\ HudFree
       THEN hudPending' = TRUE /\ Goto0("hudWait")
       ELSE hudPending' = hudPending /\ Goto0("overlayBegin")
  /\ UNCHANGED <<config, game, local0, pal, flush, hudBusy, hudFinalize, screen,
                 patchList, buf, shot, pc1, local1>>

WaitForAsyncHud ==
  /\ pc0 = "hudWait"
  /\ ~hudPending /\ ~hudBusy
  /\ Goto0("finish")
  /\ UNCHANGED <<config, game, local0, pal, flush, hud, screen, patchList, buf,
                 shot, pc1, local1>>

-----------------------------------------------------------------------------
(* The overlay: the drawers queue patches in s_hal_patch_list, which is then *)
(* drawn to dest_screen.  Both cores run it, on the same list.               *)

BeginPatchList == patchList' = {}

QueuePatches(n) == patchList' = patchList \cup {n}

FlushPatchList ==
  buf' = [buf EXCEPT ![dest].overlay = @ \cup patchList]

\* ST_Drawer asks for the palette of the player's state when it changed.
StDrawer ==
  IF hudPal # stPal THEN stPal' = hudPal /\ SetPaletteNum(hudPal)
                    ELSE UNCHANGED <<stPal, nextPal>>

MarkFrameRendered ==
  preWipe' = IF preWipe = "needed" THEN "rendered" ELSE preWipe

\* The drawers of DoomVideo_DrawFrameOverlay, and the pre-wipe mark after them.
DrawFrameOverlay ==
  /\ QueuePatches(frame)
  /\ IF LevelView THEN StDrawer ELSE UNCHANGED <<stPal, nextPal>>
  /\ MarkFrameRendered

OverlayBegin0 ==
  /\ pc0 = "overlayBegin"
  /\ BeginPatchList
  /\ Goto0("overlayDraw")
  /\ UNCHANGED <<config, game, local0, pal, flush, hud, screen, buf, shot, pc1,
                 local1>>

OverlayDraw0 ==
  /\ pc0 = "overlayDraw"
  /\ DrawFrameOverlay
  /\ Goto0("overlayFlush")
  /\ UNCHANGED <<config, tics, frame, view, oldLevel, menu, action, hudPal,
                 local0, stStopped, activePal, palTable, pal0, flush, hud,
                 screen, buf, shot, pc1, local1>>

OverlayFlush0 ==
  /\ pc0 = "overlayFlush"
  /\ FlushPatchList
  /\ Goto0("finish")
  /\ UNCHANGED <<config, game, local0, pal, flush, hud, screen, patchList, shot,
                 pc1, local1>>

-----------------------------------------------------------------------------
\* core0, I_FinishUpdate.

FinishUpdate ==
  /\ pc0 = "finish"
  /\ IF ~displayReady
       THEN NextFrame /\ Goto0("tic")
       ELSE /\ UNCHANGED <<frame, tics>>
            /\ Goto0(IF ~build.syncFlush /\ build.doubleBuffer
                        /\ PaletteUpdatePending
                     THEN "finishWaitPal" ELSE "finishPal")
  /\ UNCHANGED <<config, view, oldLevel, menu, action, preWipe, hudPal, local0,
                 pal, flush, hud, screen, patchList, buf, shot, pc1, local1>>

SubmitFlush ==
  /\ pc0 = "submit" /\ ~build.syncFlush
  /\ flushBuffer' = renderBuf /\ flushBusy' = TRUE /\ flushPending' = TRUE
  /\ NextFrame
  /\ Goto0("tic")
  /\ UNCHANGED <<config, view, oldLevel, menu, action, preWipe, hudPal, local0,
                 pal, hud, screen, patchList, buf, shot, pc1, local1>>

(* finish_update_buffer, on core0 with DOOM_VIDEO_SYNC_FLUSH and on core1     *)
(* otherwise: convert and send the strips of buffer b one after the other.    *)
(* A display that is not ready takes none; a failed transfer ends the frame.  *)
SendStrip(c, b) ==
  /\ displayReady /\ Len(shot[c]) < Strips
  /\ shot' = [shot EXCEPT ![c] = Append(@, [scene |-> buf[b].scene,
                                            overlay |-> buf[b].overlay,
                                            pal |-> palTable])]

\* hal_display_end_write, after the last strip or the one that failed.
EndTransfer(c) == shot' = [shot EXCEPT ![c] = <<>>]

SyncFlushStrip ==
  /\ pc0 = "submit" /\ build.syncFlush
  /\ SendStrip(0, renderBuf)
  /\ UNCHANGED <<config, pc0, game, local0, pal, flush, hud, screen, patchList,
                 buf, pc1, local1>>

SyncFlushDone ==
  /\ pc0 = "submit" /\ build.syncFlush
  /\ EndTransfer(0)
  /\ NextFrame
  /\ Goto0("tic")
  /\ UNCHANGED <<config, view, oldLevel, menu, action, preWipe, hudPal, local0,
                 pal, flush, hud, screen, patchList, buf, pc1, local1>>

Core0 ==
  \/ Tic \/ TicsDone
  \/ BeginRenderSame \/ BeginRenderSwap \/ SelectRenderBuffer
  \/ RestoreBufferRead0 \/ RestoreBufferWrite0
  \/ RenderStart \/ RenderEnd
  \/ EndFrame
  \/ WaitForAsyncFlush("finWait", "finPal")
  \/ UpdatePaletteStart("finPal", "finPalBuild", "finStart")
  \/ UpdatePaletteEnd("finPalBuild", "finStart")
  \/ StartAsyncFrameFinalize
  \/ StartAsyncHud \/ WaitForAsyncHud
  \/ OverlayBegin0 \/ OverlayDraw0 \/ OverlayFlush0
  \/ FinishUpdate
  \/ WaitForAsyncFlush("finishWaitPal", "finishPal")
  \/ UpdatePaletteStart("finishPal", "finishPalBuild", "finishWait")
  \/ UpdatePaletteEnd("finishPalBuild", "finishWait")
  \/ WaitForAsyncFlush("finishWait", "submit")
  \/ SubmitFlush \/ SyncFlushStrip \/ SyncFlushDone

-----------------------------------------------------------------------------
\* core1, DoomVideo_Core1Poll, called in an endless loop by app_task1.

AfterFlush == IF build.asyncHud THEN "pollHud" ELSE "poll"

PollFlush ==
  /\ pc1 = "poll"
  /\ flushPending' = FALSE
  /\ buffer1' = IF flushPending THEN flushBuffer ELSE None
  /\ Goto1(IF buffer1' # None THEN "flush" ELSE AfterFlush)
  /\ UNCHANGED <<config, pc0, game, local0, pal, flushBusy, flushBuffer, hud,
                 screen, patchList, buf, shot, finalize1, dest1>>

FlushStrip1 ==
  /\ pc1 = "flush"
  /\ SendStrip(1, buffer1)
  /\ UNCHANGED <<config, pc0, game, local0, pal, flush, hud, screen, patchList,
                 buf, pc1, local1>>

\* The frame is out; s_flush_busy stays set if core0 queued a frame to finalize.
BusyAfterFlushKept == flushBusy

BusyAfterFlushDropped == FALSE

BusyAfterFlush == build.asyncHud /\ hudFinalize # None /\ flushBusy

FlushDone ==
  /\ pc1 = "flush"
  /\ EndTransfer(1)
  /\ flushBuffer' = None
  /\ flushBusy' = BusyAfterFlush
  /\ buffer1' = None
  /\ Goto1(AfterFlush)
  /\ UNCHANGED <<config, pc0, game, local0, pal, flushPending, hud, screen,
                 patchList, buf, finalize1, dest1>>

PollHud ==
  /\ pc1 = "pollHud"
  /\ IF hudPending
       THEN /\ finalize1' = hudFinalize
            /\ hudPending' = FALSE /\ hudBusy' = TRUE
            /\ Goto1(IF hudFinalize = None THEN "overlayBegin" ELSE "override")
       ELSE Goto1("poll") /\ UNCHANGED <<finalize1, hudPending, hudBusy>>
  /\ UNCHANGED <<config, pc0, game, local0, pal, flush, hudFinalize, screen,
                 patchList, buf, shot, buffer1, dest1>>

\* DoomVideo_DrawGameplayOverlayTo points dest_screen at the frame, and back.
SetRestoreBufferOverride(l, b, m) ==
  /\ pc1 = l
  /\ override' = b
  /\ Goto1(m)
  /\ UNCHANGED <<config, pc0, game, local0, pal, flush, hud, dest, patchList,
                 buf, shot, local1>>

RestoreBufferRead1(l, m) ==
  /\ pc1 = l
  /\ dest1' = RestoreTarget
  /\ Goto1(m)
  /\ UNCHANGED <<config, pc0, game, local0, pal, flush, hud, screen, patchList,
                 buf, shot, buffer1, finalize1>>

RestoreBufferWrite1(l, m) ==
  /\ pc1 = l
  /\ dest' = dest1 /\ dest1' = None
  /\ Goto1(m)
  /\ UNCHANGED <<config, pc0, game, local0, pal, flush, hud, override,
                 patchList, buf, shot, buffer1, finalize1>>

OverlayBegin1 ==
  /\ pc1 = "overlayBegin"
  /\ BeginPatchList
  /\ Goto1("overlayDraw")
  /\ UNCHANGED <<config, pc0, game, local0, pal, flush, hud, screen, buf, shot,
                 local1>>

OverlayDraw1 ==
  /\ pc1 = "overlayDraw"
  /\ IF finalize1 = None
       THEN DrawFrameOverlay
       ELSE /\ QueuePatches(buf[finalize1].scene)
            /\ StDrawer
            /\ UNCHANGED preWipe
  /\ Goto1("overlayFlush")
  /\ UNCHANGED <<config, pc0, tics, frame, view, oldLevel, menu, action, hudPal,
                 local0, stStopped, activePal, palTable, pal0, flush, hud,
                 screen, buf, shot, local1>>

OverlayFlush1 ==
  /\ pc1 = "overlayFlush"
  /\ FlushPatchList
  /\ Goto1(IF finalize1 = None THEN "hudDone" ELSE "overrideNull")
  /\ UNCHANGED <<config, pc0, game, local0, pal, flush, hud, screen, patchList,
                 shot, local1>>

HudDone ==
  /\ pc1 = "hudDone"
  /\ hudBusy' = FALSE
  /\ Goto1("poll")
  /\ UNCHANGED <<config, pc0, game, local0, pal, flush, hudPending, hudFinalize,
                 screen, patchList, buf, shot, local1>>

\* The overlay is in; the finalized frame becomes the one being flushed.
FinalizePublish ==
  /\ pc1 = "publish"
  /\ flushBuffer' = finalize1
  /\ Goto1("finFlush")
  /\ UNCHANGED <<config, pc0, game, local0, pal, flushPending, flushBusy, hud,
                 screen, patchList, buf, shot, local1>>

FinalizeStrip ==
  /\ pc1 = "finFlush"
  /\ SendStrip(1, finalize1)
  /\ UNCHANGED <<config, pc0, game, local0, pal, flush, hud, screen, patchList,
                 buf, pc1, local1>>

FinalizeDone ==
  /\ pc1 = "finFlush"
  /\ EndTransfer(1)
  /\ flushBuffer' = None /\ hudFinalize' = None
  /\ hudBusy' = FALSE /\ flushBusy' = FALSE
  /\ finalize1' = None
  /\ Goto1("poll")
  /\ UNCHANGED <<config, pc0, game, local0, pal, flushPending, hudPending,
                 screen, patchList, buf, buffer1, dest1>>

Core1 ==
  \/ PollFlush \/ FlushStrip1 \/ FlushDone \/ PollHud
  \/ SetRestoreBufferOverride("override", finalize1, "restoreRead")
  \/ RestoreBufferRead1("restoreRead", "restoreWrite")
  \/ RestoreBufferWrite1("restoreWrite", "overlayBegin")
  \/ OverlayBegin1 \/ OverlayDraw1 \/ OverlayFlush1
  \/ SetRestoreBufferOverride("overrideNull", None, "restoreReadNull")
  \/ RestoreBufferRead1("restoreReadNull", "restoreWriteNull")
  \/ RestoreBufferWrite1("restoreWriteNull", "publish")
  \/ HudDone \/ FinalizePublish \/ FinalizeStrip \/ FinalizeDone

Next == Core0 \/ Core1

\* Both cores keep running: core0's frame loop and core1's poll loop are
\* endless, and a wait is a loop that re-reads the flags.
Fairness == WF_vars(Core0) /\ WF_vars(Core1)

Spec == Init /\ [][Next]_vars /\ Fairness

-----------------------------------------------------------------------------
\* Properties.

Pc0 == {"tic", "begin", "select", "restoreRead", "restoreWrite", "render",
        "drawing", "end", "finWait", "finPal", "finPalBuild", "finStart",
        "hudStart", "hudWait", "overlayBegin", "overlayDraw", "overlayFlush",
        "finish", "finishWaitPal", "finishPal", "finishPalBuild", "finishWait",
        "submit"}

Pc1 == {"poll", "flush", "pollHud", "override", "restoreRead", "restoreWrite",
        "overlayBegin", "overlayDraw", "overlayFlush", "overrideNull",
        "restoreReadNull", "restoreWriteNull", "hudDone", "publish", "finFlush"}

TypeOK ==
  /\ build \in Builds /\ displayReady \in BOOLEAN
  /\ pc0 \in Pc0 /\ tics \in 0 .. MaxTics /\ frame \in Frames
  /\ view \in Views /\ oldLevel \in BOOLEAN /\ menu \in BOOLEAN
  /\ action \in BOOLEAN /\ preWipe \in {"idle", "needed", "rendered"}
  /\ hudPal \in Palettes
  /\ renderBuf \in Buffers /\ dest0 \in Buffers \cup {None}
  /\ pal0 \in Palettes
  /\ flushPending \in BOOLEAN /\ flushBusy \in BOOLEAN
  /\ flushBuffer \in Buffers \cup {None}
  /\ hudPending \in BOOLEAN /\ hudBusy \in BOOLEAN
  /\ hudFinalize \in Buffers \cup {None}
  /\ override \in Buffers \cup {None} /\ dest \in Buffers
  /\ patchList \subseteq Frames
  /\ stPal \in Palettes \cup {None} /\ stStopped \in BOOLEAN
  /\ nextPal \in Palettes \cup {None} /\ activePal \in Palettes
  /\ palTable \in Palettes \cup {None}
  /\ buf \in [Buffers -> Content]
  /\ shot \in [Cores -> Seq(Strip)]
  /\ pc1 \in Pc1
  /\ buffer1 \in Buffers \cup {None} /\ finalize1 \in Buffers \cup {None}
  /\ dest1 \in Buffers \cup {None}

\* The buffers core1 is flushing or has been given to finish and flush.
Core1Buffers ==
  {b \in Buffers : \/ flushPending /\ b = flushBuffer
                   \/ pc1 = "flush" /\ b = buffer1
                   \/ b = hudFinalize}

(* Core0 never draws a scene into a buffer that core1 is still flushing or   *)
(* has yet to finish: BeginRenderFrame's choice of buffer stays good until   *)
(* the frame is handed over, whatever core1 does meanwhile.                  *)
RenderBufferPrivate == pc0 = "drawing" => renderBuf \notin Core1Buffers

(* The bookkeeping of the hand-over, which the two properties above and below *)
(* rest on: which flags go with which place in core1's poll, and that core0   *)
(* holds a buffer neither pointer names from BeginRenderFrame to hand-over.   *)
FinalizePcs == {"override", "restoreRead", "restoreWrite", "overrideNull",
                "restoreReadNull", "restoreWriteNull", "publish", "finFlush"}

OverlayPcs == {"overlayBegin", "overlayDraw", "overlayFlush"}

DrawnPcs == {"end", "finWait", "finPal", "finPalBuild", "finStart", "hudStart",
             "hudWait", "overlayBegin", "overlayDraw", "overlayFlush", "finish",
             "finishWaitPal", "finishPal", "finishPalBuild", "finishWait",
             "submit"}

HoldsBufferPcs == DrawnPcs \cup {"restoreRead", "restoreWrite", "render", "drawing"}

FlagsInv ==
  /\ flushBuffer # None => flushBusy
  /\ hudFinalize # None =>
       /\ flushBusy /\ (hudPending \/ hudBusy)
       /\ build.asyncHud /\ build.doubleBuffer /\ ~build.syncFlush
  /\ hudBusy <=> pc1 \in FinalizePcs \cup OverlayPcs \cup {"hudDone"}
  /\ ~(hudPending /\ hudBusy)
  /\ pc0 = "submit" => FlushIdle

Core1Inv ==
  /\ IF pc1 = "flush" THEN buffer1 # None /\ flushBuffer = buffer1
                      ELSE buffer1 = None
  /\ pc1 \in FinalizePcs => finalize1 # None
  /\ pc1 \notin FinalizePcs \cup OverlayPcs => finalize1 = None
  /\ pc1 \in FinalizePcs \cup OverlayPcs => finalize1 = hudFinalize
  /\ pc1 = "hudDone" => hudFinalize = None
  /\ pc1 \in {"restoreWrite", "restoreWriteNull"} => dest1 # None

Core0Inv ==
  /\ pc0 \in HoldsBufferPcs => renderBuf \notin {flushBuffer, hudFinalize}
  /\ pc0 = "select" => OtherBuffer \notin {flushBuffer, hudFinalize}
  /\ pc0 \in DrawnPcs => buf[renderBuf].scene # None
  /\ pc0 \in {"finWait", "finPal", "finPalBuild", "finStart"} =>
       build.asyncHud /\ build.doubleBuffer /\ ~build.syncFlush
  /\ pc0 = "restoreWrite" => dest0 # None
  /\ \A b \in {flushBuffer, hudFinalize} \ {None} : buf[b].scene # None

Handover == FlagsInv /\ Core1Inv /\ Core0Inv

(* Every strip sent carries its own frame's scene, that frame's overlay and  *)
(* nothing else, and all strips of a frame were converted with one complete  *)
(* palette.  Holds in every build that does not finalize frames on core1.    *)
WholeFrames ==
  \A c \in Cores : \A i \in 1 .. Len(shot[c]) :
    LET s == shot[c][i] IN
      /\ s.scene # None /\ s.overlay = {s.scene}
      /\ s.pal # None /\ s.pal = shot[c][1].pal

(* When G_Ticker carries out a deferred level change, core1 has no overlay   *)
(* in hand or waiting: nothing on core1 reads the level being torn down.     *)
(* (With no display I_FinishUpdate returns before the wait this relies on.)  *)
LevelChangeQuiescent ==
  displayReady /\ pc0 = "tic" /\ action /\ preWipe = "rendered" =>
    HudFree /\ pc1 \in {"poll", "pollHud", "flush"}

(* A frame that is started is handed over: core0 comes out of every wait for *)
(* core1 that the frame loop contains.                                       *)
FrameCompletes == pc0 = "begin" ~> pc0 = "tic"

(* A level change put off gets the overlay-only frame it waits for.          *)
PreWipeFrameDrawn == preWipe = "needed" ~> preWipe # "needed"

\* Frames handed to the display and not yet released, oldest first.
SceneOf(b) == IF b = None THEN <<>> ELSE <<buf[b].scene>>

Handed ==
  SceneOf(IF flushPending THEN flushBuffer
          ELSE IF pc1 = "flush" THEN buffer1 ELSE None)
  \o SceneOf(hudFinalize)
  \o SceneOf(IF pc0 = "submit" /\ build.syncFlush THEN renderBuf ELSE None)

Shown == [i \in 1 .. Len(shot[0] \o shot[1]) |-> (shot[0] \o shot[1])[i].scene]

(* The pipeline implements FrameDelivery: frames reach the panel whole, in   *)
(* the order they were handed over, each once, at most two outstanding, and  *)
(* every frame handed over is dealt with.                                    *)
Delivery == INSTANCE FrameDelivery
              WITH Frame <- Frames, Capacity <- 2, queue <- Handed, sent <- Shown

DeliverySpec == Delivery!Spec

(* doom_main_config.h keeps the second framebuffer "so core0 can render       *)
(* frame N+1 while core1 streams frame N": core1 never streams a frame while  *)
(* one handed over before it still waits.                                     *)
StreamsInOrder == pc1 = "finFlush" => ~flushPending

=============
