# DoomConsole in TLA+

Specifications of the parts of DoomConsole (the JaszczurHAL port of Doom to the
RP2350) whose correctness depends on order, sharing or history: modules, TLC
configurations and TLAPS proofs. Paths in this file are relative to the
repository; `hal/` stands for `src/jaszczurhal/`.

    tlc -workers 2 -config MCVideoPipeline.cfg MCVideoPipeline
    tlapm VideoPipeline_proofs.tla

and in the same way for every `MC*.cfg` with the module whose name it begins
with (`MCVideo*.cfg` with `MCVideoPipeline`, `MCInput*.cfg` with
`MCInputEvents`, `MCThinkers*.cfg` with `MCThinkers`) and every `*_proofs.tla`.
`PROJECT.json` lists the runs, the seeded mutants that show each property can
fail, the source lines of every definition, the hazards and the findings.

## 1. The system

Two Cortex-M33 cores run one program. Core0 runs the game: `D_RunFrame`
(src/doom/d_main.c) runs tics, draws a frame, ends it. Core1 runs
`DoomVideo_Core1Poll` in a loop (hal/doom_app.cpp, `app_task1`): it draws
overlays and streams frames to the TFT. Interrupts mix sound. Bluetooth events
arrive from the radio stack and are queued for core0.

| Component | State it keeps | Operations | Talks to |
|---|---|---|---|
| Display pipeline, hal/doom_video_hal.c | two framebuffers, flush and overlay requests and their busy flags, the RGB565 palette, pending and active palette number | begin and end a frame, finalize on core1, flush, overlay, set palette | both cores through flags under one critical section and several plain variables |
| Pre-wipe handshake, src/doom/doom_pre_wipe.c | one state: idle, needed, rendered | defer a level change, mark an overlay-only frame | `G_Ticker` on core0; the overlay on either core |
| Drawing target and patch list, src/v_video.c | `dest_screen`, the restore override, the HAL patch list | begin, queue, flush, restore | both cores, no lock |
| Game loop, d_main.c, g_game.c, d_net.c | gamestate, gameaction, menu, tic counters | tic, level change, demo advance | everything |
| Input, hal/doom_input_hal.c, src/d_event.c | published actions, two chord timers with latches and a guard, an eight-slot event ring, `gamekeydown` | poll, post, drain | gamepad requests; menu and game |
| Gamepad, hal/doom_gamepad_input.c | link phase, pairing window, retry timers, forget latch, snapshot queue | service, pair, forget, stack callbacks | input; Bluetooth stack |
| Column renderer and caches, hal/doom_backend_stub.c, hal/doom_column_cache.h | column index (hash chains and a use list), slot pixels, tall-column cache and flat in one work area | begin frame, decode column, load flat | the renderer; with the dual-core option also core1 |
| Sound, hal/doom_sound_hal.c | mixer channels: pointers into a lump, decoded samples, offset, speed | start, stop, mix in the DMA interrupt | game core and interrupt |
| Sound channels, src/doom/s_sound.c | which sound of which thing plays on which channel | start, steal, stop, update | the mixer; things that are removed |
| Zone, src/z_zone.c | a ring of blocks and a rover | allocate, free, free by tag | everything that has memory |
| Thinkers, src/doom/p_tick.c, p_mobj.c, p_saveg.c, p_setup.c | the list of moving things, pools of slots for them | add, remove lazily, run, load a level or a savegame | the zone |
| Cores and boot, hal/doom_app.cpp | boot phase, started flags | start-up gates, the two task loops | all |
| Tic scheduler, src/d_loop.c | maketic, gametic, tic data | build, run | game loop |
| Simulation, renderer, WAD and codecs, menus | large data | straight-line or numeric code | the game |

What is hard in it: core0 draws the next frame while core1 finishes the last
one; flags are snapshots by the time they are acted on; `dest_screen`, the
override, the palette and the patch list have no lock; a level change must wait
for a frame that only one of two paths marks; caches share memory and recycle
slots; a ring has no full check; chord timers survive partial releases; a radio
link drops with a button down; an interrupt mixes a sound that is being set up;
things are freed, and their memory reused, in the middle of the loop over them.

What makes each right: no core draws into, or reads, what the other has in
hand; frames arrive whole and in order; nothing waits for ever; a returned
pixel pointer shows what was asked for; no key stays down after its button is
released; a held chord makes one request; a pad that is gone holds nothing and is
called again; a mixer reads inside its sound and plays for a thing that exists;
list, pools and zone agree about every byte.

## 2. Modules

| Module | Models | Runs |
|---|---|---|
| `VideoPipeline` | display pipeline, pre-wipe, patch list, what tics do to them | `handover`, `whole_frames`, `frame_delivery`, one disagreement |
| `FrameDelivery` | abstract: a queue of frames streamed strip by strip | refined by `VideoPipeline` |
| `ColumnCache` | hal/doom_column_cache.h: chains and use list | through `ColumnDecode` |
| `ColumnDecode` | `decode_patch_column`, `load_flat_pixels`, the work area | `column_decode` |
| `LRUMap` | abstract: least-recently-used map | refined by `ColumnDecode` |
| `InputEvents` | input HAL, event ring, key table | `input_events`, two disagreements |
| `GamepadInput` | hal/doom_gamepad_input.c: link, pairing, reconnection, reset, snapshots | `gamepad` |
| `Sound` | the mixer's and the game's channels | `sound` |
| `Zone` | src/z_zone.c, and what its clients may do | through `Thinkers` |
| `Thinkers` | the list of things and their pools, in the zone | `thinkers`, one disagreement |
| `*_proofs` | theorems (section 5) | |
| `MC*` | constants and views for TLC | |

`Thinkers` is composed with `Zone` by EXTENDS and shown to use it as `ZoneSpec`
allows (`UsesZone`); `ColumnDecode` is composed with `ColumnCache`; `Sound`
holds both sides of the sound interface. `InputEvents` takes the pad's actions
as any set of buttons, which covers what `GamepadInput` returns, and makes the
two requests that `GamepadInput` receives as `RequestPairing` and
`RequestForget`.

### 2.1 VideoPipeline

Each core has a program counter (`pc0`, `pc1`) named for the place in the code;
a step is one critical section, one plain access to a variable that both cores
use, or one end of a stretch of work on data the other core may read. So the
two stores of `select_render_buffer` are separate steps, `V_RestoreBuffer` is a
read and a write, drawing a scene and building the palette begin and end, and a
strip is sent in a step of its own.

Variables carry the short names of the code's: `flushPending` is
`s_flush_pending`, `hudFinalize` is `s_hud_finalize_buffer`, `override` is
`restore_screen_override`, and so on (the declarations say which). `build`
holds `DOOM_RENDER_ASYNC_HUD`, `DOOM_VIDEO_DOUBLE_BUFFER` and
`DOOM_VIDEO_SYNC_FLUSH`, so that one run covers all builds. A framebuffer holds
the number of the frame whose scene was finished there and the set of frames
whose overlays were drawn over it; a strip sent is a copy of that with the
palette it was converted with.

Core0 goes through `tic` (`Tic*`: `G_Ticker`, `D_DoAdvanceDemo`), `begin`
(`BeginRenderSame`, `BeginRenderSwap`), `render`, `end` (`EndFrame`), and
either the finalizing path (`StartAsyncFrameFinalize`) or the overlay
(`StartAsyncHud` and wait, or the overlay on core0) and `I_FinishUpdate`. Core1
goes through the two halves of `DoomVideo_Core1Poll`.

Abstractions. Page kinds (title, intermission, finale) are one view. A tic may
do anything to the menu and to the palette the player calls for, and
`TicAdvanceDemo` may come at any tic: more than the program does. A transfer
may fail after any strip. `s_palette_ready` is the initial request for palette
0. The display is ready or not for the whole behaviour. Gamma is constant. Not
modelled: the pause patch, statistics, panel set-up and shutdown, and the reuse
of the two strip buffers within a transfer.

### 2.2 ColumnCache, ColumnDecode

`ColumnCache` keeps the C layout: one-based links in `hashNext`, `older`,
`newer`, heads in `bucket`, `oldest`, `newest`, `count`. Each operator computes
the effect of its C function; where the C code stores one after the other,
later stores win. `Chain(b)` walks a chain hop by hop for at most `Capacity`
hops, as a recursive function, so that a looping chain would still have a value
and be seen. The hash is any function from keys to buckets: nothing may depend
on which.

`ColumnDecode` has one action per outcome of the two functions. A call of
`decode_patch_column` is one step (index hit) or two (miss, then tall hit, a
failed decode, or an insert); `asked` is the column in between. What is cached
is the identity of a column or flat, so `result` compares what a pointer shows
with what was asked for. `area` is `s_work_area`: a tall column overwrites its
slot of it, a flat all of it.

It is the build the repository selects: `DOOM_DUAL_CORE_COLUMNS` is 0
(hal_project_config.h), so one core and one index; `NO_USE_LOAD` and
`NO_USE_SAVE` (CMakeLists.txt), so nobody else takes the work area. Columns and
flats are asked for in any order, which includes every order of a frame. A
decoder fails cleanly or decodes the right pixels; failures in the middle of a
decode, which only damaged WAD data produces, are not modelled.

### 2.3 InputEvents

`Poll` is `I_GetEventTimeout` with the buttons and the pad together holding any
set; `handle_gamepad_chords` is one action per way through it (`PollReset`,
`PollGuarded`, `PollPairing`, `PollPartial`, `PollReleasing`, `PollPlain`). A
chord's start time is kept as its age, cut off at the hold time, after which
the code cannot tell ages apart; the age runs on through polls that do not look
at the chord, as the stored start time does. Events go into the ring slot by
slot as `D_PostEvent` puts them, full or not, and come out one at a time to be
eaten (`EatEvent`: the menu, the automap; a demo or title page may also ignore
a release) or to set or clear the game's key. `LoadLevel` clears the keys,
`LeaveGame` does not. Polling and draining alternate because
`BuildNewTic` (src/d_loop.c) calls them one after the other.

`pairingSeen`, `resetSeen`, `pairingDone`, `resetDone` and `request` are
history: they steer nothing.

Demos and title pages are one state, `playing = FALSE`, in which any event may
be taken or ignored: that covers the pending level change during which
`G_Responder` lets events through. `storedemo` is never set for the game data
the console ships with, so the early return of `D_ProcessEvents` is left out.

### 2.4 GamepadInput

The profile behind hal_gamepad_* is a library: `link`, `known` (it holds a bond)
and `queue` (its snapshots) are its state, and `Settle`, `LinkUp`, `LinkDown`
and `PadReports` let it change between any two of the service's calls, every one
of which may fail. What is assumed of it, from how doom_gamepad_input.c uses it:
when the link goes down only the snapshot that says so is kept; a full queue
loses its oldest or its newest snapshot and marks the place where one is missing
(HAL_EOVERFLOW); a connection comes only of a bond or an authorized pairing.

`DoomGamepadInput_Service` is `ServiceFails`, `ServiceForgets` (a factory reset
is wanted) or `ServiceProfile`, which is `service_profile_state` in its three
branches, followed while connected by `drain_snapshots`, one call of
hal_gamepad_snapshot_next at a time (`DrainNext`, `DrainEnds`), because the link
may drop and the pad report between them. `RequestPairing` and `RequestForget`
come between two services, as the chords of the same thread do. Time is `Tick`;
`retryAge` is the time since the retry timer was set. It is the build with
BT_AUTOMATIC_PAIRING that the repository selects, after a successful open.
`rested`, `attempt`, `sinceAttempt`, `askedSince` and `resetting` are history.

### 2.5 Sound

The interrupt that ends an audio block (`dma_buffer_done`, `mix_sfx`) runs on the
core of the game: it is one step, `Interrupt`, that may come between any two
accesses of the game to what it shares with it. `StartSound` is `S_StartSound`
with `S_StopSound` and `S_GetChannel` up to the mixer; then
`init_channel_for_sfx` and `decompress_buffer` go through `InitChannel`,
`StoreSize`, `LoadData`, `StoreData` in the order of the source's stores. From
`StoreSize` on the interrupt plays the channel, before `data` has moved past the
block just decoded: the first block may be decoded twice and the one after it
passed over, or `data` may pass its end, which the negative size of the next
block brings back. It is the build without assertions. With them the one at
doom_sound_hal.c:226 stops the program in two cases that are modelled here as going
on: when the size the game reads back was zeroed by the interrupt, and in
`Decompress` past the end of the data, where nothing is decoded. Either takes a
sound that ends within a single interrupt.

`shown` says which block of which lump the decoded samples are. Things are
created and removed (`SpawnMobj`, `RemoveMobj`, `SetupLevel`) so that `OriginsLive`
has something to say; callers never start a sound on a thing already removed.
Not modelled: volumes, pitch, distance other than "not audible any more", music,
opening, fade (nothing in the firmware calls it), suspension for flash writes.

### 2.6 Zone, Thinkers

`Zone` is z_zone.c in the firmware's build (DOOM_TINY): no user pointers, no zone
id, no purgable tags. Memory is counted in units; a block's address stands for
its header, `live` says which headers are blocks, and a header that was merged
away keeps its contents, as memory does: `LoadFrees` reads the next block before
it frees one, and may go on from a header that is none any more. `Z_Malloc` is
`FirstFit` (the rover's walk, `Nth`) with `Z_Take`; it gives up in `Z_Panic`. The
walk of the source moves `base` only past a block in use, so that it never looks at
a free block that follows a free one (`LooksAt`): that the search is complete
depends on what `Z_Free` merged long before.

`Thinkers` has the list in `spNext`, `tail` and the head `Cap`, and the pools of
p_tick.c: `extra` is the byte that says which slots of a block are free, `pool`
the first block of the chain of those with a free one, whose links are kept in
`spNext` of the highest free slot. `Z_ThinkFree` updates them after the list has
unlinked the thing. To take an empty block off its chain it searches for the one
before, no further than the block itself (`Chain` with its `stop`), and changes no
link if the block is not on the chain. `P_RunThinkers` is a step for each thing, so that things are
added and removed in between; a level load and `P_UnArchiveThinkers` are step by
step too, though nothing comes between theirs. `objects` and `overdue` are
history. What is left out is what a thing does when it thinks.

The firmware is built without loading savegames and without recording demos
(CMakeLists.txt: `NO_USE_LOAD`, `NO_DEMO_RECORDING`). `UnArchive*` and the demo's
buffer (`StaticMalloc`, `StaticFree`) are modelled from the source all the same: they
only add behaviour, and a build that has them is covered too.

## 3. Runs

All bounds are constants of the configurations.

| Run | Result | What it shows |
|---|---|---|
| `handover` | pass | all eight builds: types; core0 never draws into a buffer core1 has (`RenderBufferPrivate`); the bookkeeping this rests on (`Handover`); core1 has no overlay in hand when a deferred level change runs (`LevelChangeQuiescent`); each frame and each pre-wipe wait ends (`FrameCompletes`, `PreWipeFrameDrawn`) |
| `whole_frames` | pass | the seven builds that do not finalize on core1: a transfer shows one frame, its overlay and one palette (`WholeFrames`) |
| `frame_delivery` | pass | every build implements `FrameDelivery`; the finalizing one if core1 is prompt |
| `order_when_core1_stalls` | violation | without that assumption a frame overtakes another, which is dropped |
| `column_decode` | pass | pointers show what was asked for (`PixelsRight`); the two owners of the work area agree (`CachesCoherent`); no column is cached twice (`OneCopy`); chains and use list are well formed; the index is an LRU map (`ImplementsLRU`) |
| `input_events` | pass | no key sticks (`NoStuckKey`); chords keep their buttons to themselves (`ChordSilent`), make their request on time (`HoldMakesRequest`) and once per hold (`OneRequestPerHold`) |
| `input_ring` | violation | twelve bindings, eight slots: releases are lost and keys stick |
| `input_reset` | violation | the factory reset fires for buttons that were not held |
| `gamepad` | pass | no action outlives the button or the link (`NoStuckAction`) or counts before the pad was at rest (`NeutralFirst`); attempts to reconnect keep their distance (`RetryPaced`), do not follow a failed reset (`ResetHolds`), and come again and again while a bonded pad is away (`ReconnectComes`) |
| `sound` | pass | the mixer reads inside its lump (`ReadsInLump`), plays only what the game has a channel for (`NoOrphan`), for a thing that exists (`OriginsLive`), one at a time (`OneChannelPerOrigin`), and every sound ends (`SoundsEnd`) |
| `thinkers` | pass | the zone is tiled and merged (`ZoneTiled`) and gives up only when it must (`NoFalsePanic`); list, pools and zone agree (`ListIntact`, `MemoryAgrees`, `ChainSound`, `UsesZone`); what was removed is gone by the end of a run (`LazyRemovalDone`) |
| `thinker_chain` | violation | blocks with free slots drop off the chain of their pool |

Bounds, and why they are enough.

- `Strips` 1 where no property looks at strips, 2 where one compares strips of
  a frame: the loop treats all strips alike, and two are the least that can
  differ. `FrameMod` 1 where frames need no identity, else 3 or 4: at most two
  frames are handed over and one is being drawn, so three numbers tell them
  apart, and four also tell the next from the last. `Palettes` one or two.
  `MaxTics` 1: a second tic in one `TryRunTics` meets the same core1 and adds
  only game changes that the next round allows too.
- `PromptPoll` is the timing assumption of `frame_delivery`, and concerns only
  the build that finalizes on core1: while core0 draws one whole scene core1
  gets from the flush half of its poll to the finalize half, a few
  instructions. `order_when_core1_stalls` shows what it is for, and the safety
  properties of `handover` do without it.
- `MCVideoDelivery.cfg` uses a VIEW without overlay contents: no guard reads
  them, and the property does not mention them.
- `column_decode`: four columns over three slots and two buckets, with all 16
  hash functions, so that chains of length three, evictions from head, middle
  and end, and both orders of use occur; two tall columns over two tall slots,
  one column too high for both caches, one that does not decode, a flat that
  does and one that does not; a use clock that wraps at 3. Its VIEW forgets
  invalid entries, which no action reads, and keeps of a result whether it is
  right.
- `input_events`: both chords and one plain button, in every combination, one
  or two units of time between polls, hold times of two and three units: two
  and three polls or one long delay. Five buttons cannot overflow eight slots;
  `input_ring` has the firmware's twelve bindings and the sets of buttons of a
  player who holds two, then nine, then none. The VIEW keeps of the ring the
  events still in it.
- `gamepad`: a pad at rest, one button with the stick, a stick against the
  directional pad; two snapshots queued, so that a third overflows at either
  end; ten and five seconds as two units and one.
- `sound`: two channels and four sounds, of one, two and no blocks and of a
  lump that is none, the last block of each shorter than the others; two
  things; two priorities, so that a channel is stolen or refused; a speed that
  rounds to zero and one of two samples. An interrupt mixes two samples, so
  that it may end a block or not.
- `thinkers`: a zone of nine units with headers and fragments of one: two
  blocks of three slots, or one and some single blocks, and no more, so that it
  fragments, merges on both sides, and runs out. Four things, which fill a block
  and begin another. One type of pooled thing; types do not share blocks. The
  VIEW leaves out what memory holds outside of blocks. CHECK_DEADLOCK is off: out
  of memory is I_Error, which stops the console.

Fairness. `VideoPipeline`: weak fairness of each core. Core0's frame loop and
core1's poll loop are endless (hal/doom_app.cpp, `app_task0`, `app_task1`) on
cores of their own, and each wait re-reads the flags it waits for, so a core
that can take a step does. No fairness is assumed of tics, transfers or the
player. `FrameCompletes` and `PreWipeFrameDrawn` rest on it, and
`FrameDelivery`'s promise that each frame is released. `GamepadInput`: time
passes, the draining loop goes on, and the service, which every poll calls,
gets through to the profile's state again and again (strong fairness of
`ServiceProfile` without overflow): the library does not fail every call. Weak
would not do, since every failed call leaves and re-enters its guard; nothing
is assumed of what the calls after it answer, and `ReconnectComes` counts
attempts, not successes. `Sound`: weak fairness of the interrupt, as audio
blocks end at their rate whatever the game does.

## 4. What disagrees with the documents

Each is a run that expects a violation; `PROJECT.json` quotes the documents.

1. `order_when_core1_stalls`: `DoomVideo_Core1Poll` looks for flush requests
   and finalize requests in two critical sections. If core0 submits frame N and
   queues N+1 in between, N+1 is shown and N is dropped. It takes core1 to be
   held up there for as long as a scene takes to draw.
2. `input_ring`: `D_PostEvent` does not look for a full ring. Nine releases in
   one poll, which the input test expects to be posted, leave one to be popped.
3. `input_reset`: hardware_layout.md says to keep all three buttons pressed for
   five seconds; pressing them twice, five seconds apart, is enough if one of
   them stays down.
4. `thinker_chain`: `Z_ThinkMallocImpl` clears the slot it hands out (p_tick.c:276)
   before it reads from it the link to the next block (p_tick.c:285). When the
   first block of a chain fills up the others are lost to their pool until their
   last slot is freed, and new blocks are taken instead. Nothing is corrupted
   (`MemoryAgrees`, `ChainSound`): memory is wasted.

Two more follow from `VideoPipeline` without a run of their own.
doom_main_config.h and port_issues.md tell of a barrier before the next tic; on
the finalizing path core0 goes from `finStart` to `tic` while core1 draws the
overlay, which reads the player and the messages of the game that tics now
change. And the override meant for the finalized frame and core0's own
`dest_screen` are plain variables: the two cores' stores can cross, and an
overlay then goes to the other buffer.

## 5. Proofs

All theorems hold for every value of the constants that satisfies the named
assumptions of the modules, which concern only the kind of the constants, and
the conditions named below. Each is `Spec => []Inv` or an action property;
invariants are seldom inductive alone, and what had to be added is the content
of the proof.

`VideoPipeline_proofs`. `TypeCorrect`, `HandoverCorrect`,
`RenderBufferPrivateCorrect`: `RenderBufferPrivate` alone is not inductive, as
core0 chooses its buffer from flags read earlier; it stays private only because
core1 never takes up a buffer that no pointer names. The invariant is `TypeOK /\
Handover`: which flags are set at which place of core1's poll, that core1's local
pointers are the shared ones, and that core0's buffer is in neither pointer from
its choice to its hand-over. `LevelChangeQuiescentCorrect` adds `QuietInv`:
overlay work without a frame to finalize is there only while core0 waits for it,
and core0 does not enter the finalizing path while a pre-wipe state is set.
`WholeFramesCorrect` is proved under `NoFinalize` (no build finalizes on core1: in
the one that does, it is false). `FramesInv` follows a frame on its way:
`ScreenInv` (what both cores' target is), `OverlayInv` (when the overlay of a
buffer is that of its scene), `PaletteInv` (when the table is whole and cannot
change), `ShotInv` (what has been sent). `FramesDelivered` is the refinement of
`FrameDelivery` without its fairness, in every build; it assumes `Prompt`: core1
prompt (`PromptPoll`), or no build that finalizes. Two frames may be in hand, one
to be flushed and one to be finished, and the one to be flushed came first.
`HandInv` says that core1 takes them up in that order: while a frame waits to be
flushed core1 is in its poll, and in the second half of it nothing waits to be
finished, nor can core0 be near handing that over. `BusyInv` says which builds
need no such wait, `SendInv` that only one core is sending. Every step then adds
a frame at the tail, sends a strip of the head, releases the head or leaves both
queues alone.

`ColumnDecode_proofs`, `ColumnIndex_proofs`. For every hash function, capacity,
number of tall slots and set of columns and flats: `PixelsRightCorrect`,
`CachesCoherentCorrect`, `OneCopyCorrect`, `RecencyCorrect`, `ChainsCorrect`,
`DecodeTypeCorrect` and the refinement `IndexImplementsLRU`. `ByHeight` (which
columns can be where) makes `OneCopy` inductive. That the slot `Find` returns
holds the key asked for needs no well-formedness. The index itself does: its
invariant names the order of use and of each chain by a function from positions
to slots (`UseList`, `ChainOf`), and shows what a touch, an insertion and an
eviction from head, middle or end make of it; the recursive walks of the
properties then equal that function.

`InputEvents_proofs`. `TypeCorrect`, `HoldMakesRequestCorrect` and
`OneRequestPerHoldCorrect` for any bindings, chords, hold times and delays, from
`PairingInv` and `ResetInv`, which relate a chord's timer to how long its buttons
have really been seen. `NoStuckKeyCorrect` and `ChordSilentCorrect` hold of every behaviour with
`RingHoldsPolls`: no poll has found as many buttons changed as the ring has slots.
That is a condition on the player, and covers the firmware's twelve bindings and
eight slots for as long as no eight of them change within one poll; `input_ring`
shows that it is needed. `RingInv` says what the events still in the ring will
make of the keys, and `TwoSelected` that the two passes over the bindings make no
more events than there are changes.

`GamepadInput_proofs`. `TypeCorrect`; `NoStuckActionCorrect` and
`NeutralFirstCorrect` from `QueueInv` (where in the queue rest was reported, and
what may have been lost after it); `RetryPacedCorrect` from `RetryInv` (the timer
against the time since the last attempt); `ResetHoldsCorrect` from `ResetInv`.

`Sound_proofs`. `TypeCorrect`, `ReadsInLumpCorrect`, `NoOrphanCorrect` from what
a channel keeps through any number of samples (`Whole`) and at each step of a
call (`CallOK`); `OriginsLiveCorrect` and `OneChannelCorrect` from `GameInv`: each
needs the other.

`Zone_proofs`. `ZoneTiledCorrect` for `ZoneSpec`: the ring backwards is the ring
forwards (`Backwards`). `NoFalsePanicCorrect`: links lead everywhere
(`LinksReachAll`), so that as many steps as there are blocks come to all of them (a
pigeonhole argument on the blocks); and a free block is looked at when the walk
comes to it, because `ZoneTiled` says that the one before it is in use
(`LooksAtFree`).

`Thinkers_proofs`, for any types of things, sizes of slots, slots of a block and
size of the zone, as long as no single request is larger than the zone
(`RequestAssumption`: with a larger one the game stops at the first thing).
`TypeCorrect`, `ListIntactCorrect`, `MemoryAgreesCorrect`, `ChainSoundCorrect`,
`LazyRemovalDoneCorrect`, and the refinement `UsesZoneCorrect`, from which the
theorems about the zone hold for its real client too (`ThinkersZoneTiled`,
`ThinkersNoFalsePanic`). None of the properties is inductive: which slots a free
touches follows from the block a thing is in, that from its `pool_info`, and
where the links of the chain are from which slots are free. `ThinkersInv` names
what the code keeps only implicitly: the type `kind` of each block of slots and
that blocks are long enough for theirs, so that slots and things lie nowhere on
each other (`Housed`, `Elsewhere`); each chain as a sequence of blocks that have a
free slot (`Chained`; it need not have all of them, see `thinker_chain`); the list
as a sequence of all things, with what is overdue behind the place
`P_RunThinkers` has come to (`Row`). Links of the list are in slots that are taken,
links of the chains in slots that are free, which is why neither disturbs the
other. While `P_SetupLevel` frees by tags none of this holds, and `Loading` takes
its place: whatever is left to free is ahead of it, though the header it stands
at may have been merged away.

Induction over numbers is done as the absence of a least exception (`Least`,
`LeastNatural`), from the well-foundedness of the natural numbers.

Model-checked only: all liveness (`FrameCompletes`, `PreWipeFrameDrawn`,
`ReconnectComes`, `SoundsEnd`, and the fairness of `DeliverySpec`: each frame
handed over is released), which is beyond the prover.

## 6. Not modelled

- Start-up and shutdown (hal/doom_app.cpp, panel, audio device, Bluetooth
  profile): each runs once, in order, with an error stop at each gate.
- The tic scheduler (src/d_loop.c): without a network and with one player a tic
  is built and then run in one thread. `VideoPipeline` and `InputEvents` take its
  order.
- The game simulation, the renderer's arithmetic, menus, automap, status bar
  widgets: large data and straight-line code without protocol, out of a model
  checker's reach as a whole.
- WAD access, the image, sound and music decoders: codecs over data. A decoder of
  `ColumnDecode` yields its column or fails before it has begun; one that fails
  half way, which takes a damaged WAD, is not modelled.
- `DOOM_DUAL_CORE_COLUMNS` and the plane queue: off in the configuration the
  repository selects.
- Within one transfer, the alternation of the two strip buffers: one thread, a
  wait before every start. The pause patch: drawing layout. Gamma, statistics.
- Storage, flash writes, fatal errors, memory set-up: straight-line code.
- Build-time tools (src/whd_gen, scripts), tests, and `_unused` games: not part
  of the firmware.
