------------------------------- MODULE Sound -------------------------------
(* Sound effects: the game's channels (src/doom/s_sound.c), and the mixer's  *)
(* (src/jaszczurhal/doom_sound_hal.c), which an interrupt at the end of each *)
(* audio block reads and advances while the game may be starting a sound.    *)
(* The interrupt runs on the core of the game: it comes between two of its   *)
(* accesses to memory and is over before the next.                           *)
EXTENDS Integers, FiniteSetsExt

CONSTANTS
  NumChannels,   \* NUM_SOUND_CHANNELS and snd_channels
  Sounds,
  Priority,      \* of each sound
  Blocks,        \* the number of its blocks
  BlockSamples,  \* ADPCM_SAMPLES_PER_BLOCK_SIZE
  LastSamples,   \* those of its last block
  Unplayable,    \* sounds whose lump is not one
  Steps,         \* how fast a sound may be played, in samples; 0 is less than one
  SampleCount,   \* samples mixed by one interrupt
  Origins,       \* what can make a sound: things of the level
  None           \* no sound, no origin

ASSUME SoundAssumption ==
  /\ NumChannels \in Nat \ {0} /\ BlockSamples \in Nat \ {0} /\ SampleCount \in Nat
  /\ Priority \in [Sounds -> Nat] /\ Blocks \in [Sounds -> Nat]
  /\ LastSamples \in [Sounds -> 1 .. BlockSamples] /\ Unplayable \subseteq Sounds
  /\ Steps \subseteq Nat /\ None \notin Sounds \cup Origins

VARIABLES
  sfx, origin, handle,   \* of each channel of the game
  mixer,                 \* the mixer's channels
  call,                  \* how far the game is in I_Pico_StartSound
  alive                  \* the things that exist

vars == <<sfx, origin, handle, mixer, call, alive>>

Channels == 0 .. NumChannels - 1

\* A channel of the mixer: the lump its pointers are into, data and data_end in
\* blocks, decompressed_size, offset and step in samples, and which block of
\* which lump the decompressed samples are.
Silent == [lump |-> None, data |-> 0, dataEnd |-> 0, size |-> 0, offset |-> 0,
           step |-> 1, shown |-> <<None, 0>>]

Idle == [step |-> "none", ch |-> 0, sound |-> None, loaded |-> 0]

Init ==
  /\ sfx = [c \in Channels |-> None] /\ origin = [c \in Channels |-> None]
  /\ handle = [c \in Channels |-> -1]
  /\ mixer = [c \in Channels |-> Silent]
  /\ call = Idle /\ alive = {}

-----------------------------------------------------------------------------
\* The interrupt.

SamplesOf(lump, block) ==
  IF block = Blocks[lump] - 1 THEN LastSamples[lump] ELSE BlockSamples

\* decompress_buffer, in a build without assertions (the one at line 226 stops any
\* other whenever a size of 0 is read back, as it is past the end).  Past the end
\* the size of a block is negative: nothing is decoded, and data comes back to the
\* end.  The mutation reads on.
DecompressAny(m) ==
  IF m.data = m.dataEnd THEN [m EXCEPT !.size = 0]
  ELSE [m EXCEPT !.size = BlockSamples, !.shown = <<m.lump, m.data>>, !.data = @ + 1]

Decompress(m) ==
  IF m.data = m.dataEnd THEN [m EXCEPT !.size = 0]
  ELSE IF m.data > m.dataEnd THEN [m EXCEPT !.size = 0, !.data = m.dataEnd]
  ELSE [m EXCEPT !.size = SamplesOf(m.lump, m.data),
                 !.shown = <<m.lump, m.data>>, !.data = @ + 1]

\* One sample is mixed; a block that ends is followed by the next, or by silence.
Advance(m) ==
  LET d == Decompress([m EXCEPT !.offset = @ + m.step - m.size])
  IN IF d.offset >= d.size THEN [d EXCEPT !.size = 0] ELSE d

Sample(m) ==
  IF m.size = 0 THEN m
  ELSE IF m.offset + m.step < m.size THEN [m EXCEPT !.offset = @ + m.step]
  ELSE Advance(m)

Mixed(m) ==
  LET After[n \in 0 .. SampleCount] == IF n = 0 THEN m ELSE Sample(After[n - 1])
  IN After[SampleCount]

\* dma_buffer_done: mix_sfx.
Interrupt ==
  /\ mixer' = [c \in Channels |-> Mixed(mixer[c])]
  /\ UNCHANGED <<sfx, origin, handle, call, alive>>

-----------------------------------------------------------------------------
\* The game, when it is not in I_Pico_StartSound.

Playing(c) == handle[c] \in Channels /\ mixer[handle[c]].size # 0

\* S_StopChannel, of each of these channels: what still plays is stopped.  The
\* mutation lets it play.
PlaysOn(stopped) == mixer

Quiet(stopped) ==
  [c \in Channels |->
     IF \E s \in stopped : handle[s] = c /\ Playing(s) THEN [mixer[c] EXCEPT !.size = 0]
     ELSE mixer[c]]

Cleared(f, stopped) == [c \in Channels |-> IF c \in stopped THEN None ELSE f[c]]

StopChannels(stopped) ==
  /\ sfx' = Cleared(sfx, stopped) /\ origin' = Cleared(origin, stopped)
  /\ mixer' = Quiet(stopped)

LowestOf(S) == IF S = {} THEN {} ELSE {Min(S)}

\* S_StopSound stops the first channel of this origin.
StoppedBy(o) == LowestOf({c \in Channels : sfx[c] # None /\ origin[c] = o})

\* S_GetChannel, when these have been stopped: a free channel, one of the same
\* origin, or else one that is of no more importance.
Candidates(o, s, stopped) ==
  LET open == {c \in Channels : sfx[c] = None \/ c \in stopped
                                  \/ (o # None /\ origin[c] = o)}
  IN IF open # {} THEN open
     ELSE {c \in Channels : Priority[sfx[c]] >= Priority[s]}

\* S_StartSound of a sound that can be heard, up to I_Pico_StartSound, which
\* stops the channel first.  The mutation does not stop what the origin plays.
OldSoundPlaysOn(o) == {}

OldSound(o) == StoppedBy(o)

StartSound(o, s) ==
  /\ call = Idle
  /\ LET stopped == OldSound(o)
         taken   == LowestOf(Candidates(o, s, stopped))
     IN \E ch \in taken :
          /\ sfx' = [Cleared(sfx, stopped) EXCEPT ![ch] = s]
          /\ origin' = [Cleared(origin, stopped) EXCEPT ![ch] = o]
          /\ mixer' = [Quiet(stopped \cup {ch}) EXCEPT ![ch].size = 0]
          /\ call' = [Idle EXCEPT !.step = "init", !.ch = ch, !.sound = s]
  /\ UNCHANGED <<handle, alive>>

\* init_channel_for_sfx: the lump is none, ...
InitFails ==
  /\ call.step = "init" /\ call.sound \in Unplayable
  /\ mixer' = [mixer EXCEPT ![call.ch].size = 0]
  /\ handle' = [handle EXCEPT ![call.ch] = -1]
  /\ call' = Idle
  /\ UNCHANGED <<sfx, origin, alive>>

\* A speed that rounds to nothing is the least there is.  The mutation leaves it.
StepRaw(speed) == speed

StepOf(speed) == IF speed = 0 THEN 1 ELSE speed

\* ... or its pointers and speed are set, and its first block is decoded, ...
InitChannel(speed) ==
  /\ call.step = "init" /\ call.sound \notin Unplayable
  /\ mixer' = [mixer EXCEPT ![call.ch] =
                 [@ EXCEPT !.lump = call.sound, !.data = 0,
                           !.dataEnd = Blocks[call.sound], !.offset = 0, !.step = StepOf(speed),
                           !.shown = <<call.sound, 0>>]]
  /\ IF Blocks[call.sound] = 0
     THEN call' = Idle /\ handle' = [handle EXCEPT ![call.ch] = call.ch]
     ELSE call' = [call EXCEPT !.step = "decoded"] /\ UNCHANGED handle
  /\ UNCHANGED <<sfx, origin, alive>>

\* ... its size is stored, from where on the interrupt plays it, ...
StoreSize ==
  /\ call.step = "decoded"
  /\ mixer' = [mixer EXCEPT ![call.ch].size = SamplesOf(call.sound, 0)]
  /\ call' = [call EXCEPT !.step = "sized"]
  /\ UNCHANGED <<sfx, origin, handle, alive>>

\* ... and only then does data move past the block, in two accesses.
LoadData ==
  /\ call.step = "sized"
  /\ call' = [call EXCEPT !.step = "loaded", !.loaded = mixer[call.ch].data]
  /\ UNCHANGED <<sfx, origin, handle, mixer, alive>>

StoreData ==
  /\ call.step = "loaded"
  /\ mixer' = [mixer EXCEPT ![call.ch].data = call.loaded + 1]
  /\ handle' = [handle EXCEPT ![call.ch] = call.ch]
  /\ call' = Idle
  /\ UNCHANGED <<sfx, origin, alive>>

\* S_UpdateSounds: channels that have fallen silent are freed, and those of an
\* origin that cannot be heard any more.
UpdateSounds(inaudible) ==
  /\ call = Idle
  /\ StopChannels({c \in Channels : /\ sfx[c] # None
                                    /\ ~Playing(c) \/ origin[c] \in inaudible})
  /\ UNCHANGED <<handle, call, alive>>

\* P_SpawnMobj and P_RemoveMobj: the memory of a thing is another's later.
SpawnMobj(o) ==
  /\ call = Idle /\ alive' = alive \cup {o}
  /\ UNCHANGED <<sfx, origin, handle, mixer, call>>

RemoveMobj(o) ==
  /\ call = Idle /\ alive' = alive \ {o}
  /\ StopChannels(StoppedBy(o))
  /\ UNCHANGED <<handle, call>>

\* P_SetupLevel: S_Start, and the level's memory is freed.  The mutation stops
\* only what is heard.
Heard == {c \in Channels : sfx[c] # None /\ Playing(c)}

InUse == {c \in Channels : sfx[c] # None}

SetupLevel ==
  /\ call = Idle /\ alive' = {}
  /\ StopChannels(InUse)
  /\ UNCHANGED <<handle, call>>

Next ==
  \/ Interrupt
  \/ \E o \in alive \cup {None}, s \in Sounds : StartSound(o, s)
  \/ InitFails \/ \E speed \in Steps : InitChannel(speed)
  \/ StoreSize \/ LoadData \/ StoreData
  \/ \E inaudible \in SUBSET alive : UpdateSounds(inaudible)
  \/ \E o \in Origins : SpawnMobj(o) \/ RemoveMobj(o)
  \/ SetupLevel

\* The audio blocks end at their rate whatever the game does.
Spec == Init /\ [][Next]_vars /\ WF_vars(Interrupt)

-----------------------------------------------------------------------------

ChannelType ==
  [lump : Sounds \cup {None}, data : Nat, dataEnd : Nat, size : 0 .. BlockSamples,
   offset : Nat, step : Nat \ {0}, shown : (Sounds \cup {None}) \X Nat]

CallType ==
  [step : {"none", "init", "decoded", "sized", "loaded"}, ch : Channels,
   sound : Sounds \cup {None}, loaded : Nat]

GameOK ==
  /\ sfx \in [Channels -> Sounds \cup {None}]
  /\ origin \in [Channels -> Origins \cup {None}]
  /\ alive \subseteq Origins

\* The variables stay within what the source can store in them.
TypeOK ==
  /\ GameOK
  /\ handle \in [Channels -> Channels \cup {-1}]
  /\ mixer \in [Channels -> ChannelType] /\ call \in CallType

\* What a channel plays has been decoded from inside its lump, and its offset is
\* inside what has been decoded ("assert(channel->offset < offset_end)",
\* src/src/jaszczurhal/doom_sound_hal.c:403), though the interrupt and the game
\* may both have moved data past the same block (decompress_buffer).
ReadsInLump ==
  \A c \in Channels :
    LET m == mixer[c] IN
    m.size > 0 => /\ m.shown[1] = m.lump /\ m.shown[2] < Blocks[m.lump]
                  /\ m.size <= SamplesOf(m.lump, m.shown[2])
                  /\ m.offset < m.size

\* The mixer plays only what the game knows of and can stop: the sound its
\* channel is for.
NoOrphan ==
  \A c \in Channels : mixer[c].size > 0 =>
    sfx[c] = mixer[c].lump /\ (handle[c] = c \/ (call # Idle /\ call.ch = c))

\* No channel keeps the origin of a sound that is gone, whose position
\* S_UpdateSounds would read (src/src/doom/p_setup.c:1043: "Make sure all sounds
\* are stopped before Z_FreeTags"; P_RemoveMobj).
OriginsLive == \A c \in Channels : sfx[c] # None => origin[c] \in alive \cup {None}

\* A thing makes one sound at a time: S_StopSound, which stops the first it
\* finds, leaves none (S_GetChannel may take a free channel before it comes to
\* the thing's own).
OneChannelPerOrigin ==
  \A c, d \in Channels : sfx[c] # None /\ sfx[d] # None /\ origin[c] = origin[d]
                         /\ origin[c] # None => c = d

\* No sound plays on for ever: data, which is compared for equality with its end,
\* does not miss it.
SoundsEnd == \A c \in Channels : []<>(mixer[c].size = 0)

=============================================================================
