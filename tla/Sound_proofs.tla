---------------------------- MODULE Sound_proofs ----------------------------
(* What the interrupt plays comes from inside a lump and has a channel of    *)
(* the game behind it; no channel outlives its origin.  Spec => []Inv for    *)
(* any number of channels, sounds, blocks and samples.                       *)
EXTENDS Sound, WellFoundedInduction, TLAPS

\* A set of natural numbers that is not empty has a least element: induction,
\* here and below, is the absence of a least exception.
LEMMA Least ==
  ASSUME NEW T \in SUBSET Nat, T # {}
  PROVE  \E n \in T : \A k \in T : n <= k
<1> DEFINE R == OpToRel(<, Nat)
<1>1. IsWellFoundedOn(R, Nat)
  BY NatLessThanWellFounded
<1>2. \A p \in Nat \X Nat : p \in R <=> p[1] < p[2]
  BY DEF OpToRel
<1> HIDE DEF R
<1>3. PICK n \in T : \A k \in T : ~(<<k, n>> \in R)
  BY <1>1, WFMin
<1>4. ASSUME NEW k \in T PROVE n <= k
  <2>1. <<k, n>> \in Nat \X Nat /\ <<k, n>>[1] = k /\ <<k, n>>[2] = n
    OBVIOUS
  <2>2. <<k, n>> \in R <=> k < n
    BY <1>2, <2>1
  <2> QED
    BY <1>3, <2>2
<1> QED
  BY <1>3, <1>4

\* The loops over the channels find one of them.
LEMMA LowestIsIn ==
  ASSUME NEW S \in SUBSET Channels
  PROVE  LowestOf(S) \subseteq S
<1>1. S \in SUBSET Nat
  BY SoundAssumption DEF Channels
<1>2. CASE S # {}
  <2>1. \E n \in S : \A k \in S : n <= k
    BY <1>1, <1>2, Least
  <2>2. Min(S) \in S
    BY <2>1 DEF Min
  <2> QED
    BY <1>2, <2>2 DEF LowestOf
<1> QED
  BY <1>2 DEF LowestOf

\* The values of f, f of f and so on, from x.
Repeats(g, f, x, N) == \A n \in 0 .. N : g[n] = IF n = 0 THEN x ELSE f[g[n - 1]]

\* A function can be applied any number of times in a row.
LEMMA Iterates ==
  ASSUME NEW X, NEW f \in [X -> X], NEW x \in X, NEW N \in Nat
  PROVE  \E g \in [0 .. N -> X] : Repeats(g, f, x, N)
<1> DEFINE Is(g, k) == \A n \in 0 .. k : g[n] = IF n = 0 THEN x ELSE f[g[n - 1]]
           Bad == {k \in Nat : ~\E g \in [0 .. k -> X] : Is(g, k)}
<1>1. 0 \notin Bad
  <2> DEFINE h == [n \in 0 .. 0 |-> x]
  <2>1. h \in [0 .. 0 -> X] /\ Is(h, 0)
    OBVIOUS
  <2> HIDE DEF h, Is
  <2> QED
    BY <2>1
<1>2. ASSUME NEW k \in Bad, \A j \in Bad : k <= j PROVE FALSE
  <2>1. k \in Nat \ {0} /\ k - 1 \in Nat /\ k - 1 \notin Bad
    <3>1. Bad \subseteq Nat
      OBVIOUS
    <3> HIDE DEF Bad
    <3> QED
      BY <1>1, <1>2, <3>1
  <2>2. PICK g \in [0 .. k - 1 -> X] : Is(g, k - 1)
    BY <2>1
  <2> DEFINE h == [n \in 0 .. k |-> IF n = k THEN f[g[k - 1]] ELSE g[n]]
  <2>3. h \in [0 .. k -> X]
    BY <2>1
  <2>4. ASSUME NEW n \in 0 .. k PROVE h[n] = IF n = 0 THEN x ELSE f[h[n - 1]]
    <3>1. CASE n = k
      BY <2>1, <3>1
    <3>2. CASE n # k
      <4>1. n \in 0 .. k - 1 /\ (n # 0 => n - 1 \in 0 .. k - 1)
        BY <2>1, <3>2
      <4> QED
        BY <2>1, <2>2, <3>2, <4>1
    <3> QED
      BY <3>1, <3>2
  <2>5. Is(h, k)
    BY <2>4
  <2> HIDE DEF h, Is
  <2> QED
    BY <1>2, <2>3, <2>5
<1> HIDE DEF Is
<1>3. Bad = {}
  BY <1>2, Least
<1>4. PICK g \in [0 .. N -> X] : Is(g, N)
  BY <1>3
<1> QED
  BY <1>4 DEF Is, Repeats

-----------------------------------------------------------------------------
\* The mixer's channels.

\* What one channel keeps: its end is its lump's, and what it plays is inside.
Whole(m) ==
  /\ m.dataEnd = IF m.lump = None THEN 0 ELSE Blocks[m.lump]
  /\ m.size > 0 => /\ m.lump # None
                   /\ m.shown[1] = m.lump /\ m.shown[2] < Blocks[m.lump]
                   /\ m.size <= SamplesOf(m.lump, m.shown[2])
                   /\ m.offset < m.size

\* A block has some samples, and no more than there is room for.
LEMMA BlockHasSamples ==
  ASSUME NEW lump \in Sounds, NEW block \in Nat
  PROVE  SamplesOf(lump, block) \in 1 .. BlockSamples
BY SoundAssumption DEF SamplesOf

\* Decoding changes these three fields.
LEMMA Decoded ==
  ASSUME NEW a \in ChannelType, NEW z \in 0 .. BlockSamples,
         NEW p \in (Sounds \cup {None}) \X Nat, NEW k \in Nat
  PROVE  LET d == [a EXCEPT !.size = z, !.shown = p, !.data = k]
         IN /\ d \in ChannelType /\ d.lump = a.lump /\ d.dataEnd = a.dataEnd
            /\ d.size = z /\ d.shown = p
<1> DEFINE b == [a EXCEPT !.size = z]
           c == [b EXCEPT !.shown = p]
           d == [c EXCEPT !.data = k]
<1>1. /\ b \in ChannelType /\ b.lump = a.lump /\ b.dataEnd = a.dataEnd
      /\ b.size = z
  BY DEF ChannelType
<1> HIDE DEF b
<1>2. /\ c \in ChannelType /\ c.lump = a.lump /\ c.dataEnd = a.dataEnd
      /\ c.size = z /\ c.shown = p
  BY <1>1 DEF ChannelType
<1> HIDE DEF c
<1>3. /\ d \in ChannelType /\ d.lump = a.lump /\ d.dataEnd = a.dataEnd
      /\ d.size = z /\ d.shown = p
  BY <1>2 DEF ChannelType
<1>4. d = [a EXCEPT !.size = z, !.shown = p, !.data = k]
  BY <1>1 DEF b, c
<1> QED
  BY <1>3, <1>4

\* The channels a channel can turn into within one interrupt.
Later(m) == {n \in ChannelType : /\ Whole(n) /\ n.lump = m.lump
                                 /\ m.size = 0 => n = m}

\* One sample leads from such a channel to such a channel.
LEMMA SampleKeeps ==
  ASSUME NEW m \in ChannelType, NEW n \in Later(m)
  PROVE  Sample(n) \in Later(m)
<1> USE DEF ChannelType
<1>1. n \in ChannelType /\ Whole(n) /\ n.lump = m.lump /\ (m.size = 0 => n = m)
  BY DEF Later
<1>2. CASE n.size = 0
  BY <1>2 DEF Sample
<1>3. CASE n.size # 0 /\ n.offset + n.step < n.size
  <2>1. Sample(n) = [n EXCEPT !.offset = n.offset + n.step]
    BY <1>3 DEF Sample
  <2>2. Sample(n) \in ChannelType /\ Whole(Sample(n))
    BY <1>1, <1>3, <2>1 DEF Whole
  <2> QED
    BY <1>1, <1>3, <2>1, <2>2 DEF Later
<1>4. CASE n.size # 0 /\ ~(n.offset + n.step < n.size)
  <2> DEFINE a == [n EXCEPT !.offset = n.offset + n.step - n.size]
             d == Decompress(a)
  <2>1. Sample(n) = IF d.offset >= d.size THEN [d EXCEPT !.size = 0] ELSE d
    BY <1>4 DEF Sample, Advance
  <2>2. a \in ChannelType /\ a.lump = n.lump /\ a.dataEnd = n.dataEnd
    BY <1>1, <1>4
  <2>3. n.lump # None /\ n.lump \in Sounds /\ n.dataEnd = Blocks[n.lump]
    BY <1>1, <1>4 DEF Whole
  <2>4. /\ d \in ChannelType /\ d.lump = n.lump /\ d.dataEnd = n.dataEnd
        /\ d.size > 0 => /\ d.shown[1] = n.lump /\ d.shown[2] < Blocks[n.lump]
                         /\ d.size = SamplesOf(n.lump, d.shown[2])
    <3> HIDE DEF a
    <3>1. CASE a.data = a.dataEnd
      BY <2>2, <3>1, SoundAssumption DEF Decompress
    <3>2. CASE a.data > a.dataEnd
      <4>1. d = [a EXCEPT !.size = 0, !.data = a.dataEnd]
        BY <2>2, <3>2 DEF Decompress
      <4>2. 0 \in 0 .. BlockSamples
        BY SoundAssumption
      <4>3. d = [a EXCEPT !.size = 0, !.shown = a.shown, !.data = a.dataEnd]
        BY <2>2, <4>1
      <4>4. a.shown \in (Sounds \cup {None}) \X Nat /\ a.dataEnd \in Nat
        BY <2>2
      <4> DEFINE p == a.shown
                 k == a.dataEnd
      <4>5. d = [a EXCEPT !.size = 0, !.shown = p, !.data = k]
        BY <4>3
      <4> HIDE DEF p, k, d
      <4>6. d \in ChannelType /\ d.lump = a.lump /\ d.dataEnd = a.dataEnd /\ d.size = 0
        BY <2>2, <4>2, <4>4, <4>5, Decoded DEF p, k
      <4> QED
        BY <2>2, <4>6
    <3>3. CASE a.data < a.dataEnd
      <4>1. d = [a EXCEPT !.size = SamplesOf(a.lump, a.data),
                          !.shown = <<a.lump, a.data>>, !.data = a.data + 1]
        BY <2>2, <3>3 DEF Decompress
      <4>2. SamplesOf(a.lump, a.data) \in 1 .. BlockSamples
        BY <2>2, <2>3, BlockHasSamples
      <4> DEFINE p == <<a.lump, a.data>>
                 z == SamplesOf(a.lump, a.data)
      <4>3. /\ p \in (Sounds \cup {None}) \X Nat /\ p[1] = n.lump
            /\ p[2] < Blocks[n.lump] /\ z = SamplesOf(n.lump, p[2])
        BY <2>2, <2>3, <3>3
      <4>4. z \in 0 .. BlockSamples
        BY <4>2
      <4>5. d = [a EXCEPT !.size = z, !.shown = p, !.data = a.data + 1]
        BY <4>1
      <4>6. a.data + 1 \in Nat
        BY <2>2
      <4> HIDE DEF p, z, d
      <4> QED
        BY <2>2, <4>3, <4>4, <4>5, <4>6, Decoded
    <3> QED
      BY <2>2, <3>1, <3>2, <3>3
  <2> HIDE DEF d
  <2>5. CASE d.offset >= d.size
    BY <1>1, <1>4, <2>1, <2>3, <2>4, <2>5, SoundAssumption DEF Later, Whole
  <2>6. CASE ~(d.offset >= d.size)
    BY <1>1, <1>4, <2>1, <2>3, <2>4, <2>6, SoundAssumption DEF Later, Whole
  <2> QED
    BY <2>5, <2>6
<1> QED
  BY <1>2, <1>3, <1>4

\* A whole interrupt does too.
LEMMA MixedKeeps ==
  ASSUME NEW m \in ChannelType, Whole(m)
  PROVE  Mixed(m) \in Later(m)
<1> DEFINE N == SampleCount
           After[n \in 0 .. SampleCount] == IF n = 0 THEN m ELSE Sample(After[n - 1])
<1>1. m \in Later(m) /\ N \in Nat
  BY SoundAssumption DEF Later
<1> DEFINE X == Later(m)
           f == [k \in X |-> Sample(k)]
<1>2. PICK g \in [0 .. N -> X] : Repeats(g, f, m, N)
  <2>1. f \in [X -> X] /\ m \in X
    BY <1>1, SampleKeeps
  <2> HIDE DEF f, X, N, After
  <2> QED
    BY <1>1, <2>1, Iterates
<1>3. g = [n \in 0 .. N |-> IF n = 0 THEN m ELSE Sample(g[n - 1])]
  <2>1. ASSUME NEW n \in 0 .. N, n # 0 PROVE g[n] = Sample(g[n - 1])
    <3>1. n - 1 \in 0 .. N
      BY <1>1, <2>1
    <3>2. g[n] = f[g[n - 1]] /\ g[n - 1] \in X
      BY <1>2, <2>1, <3>1 DEF Repeats
    <3> QED
      BY <3>2
  <2>2. \A n \in 0 .. N : n = 0 => g[n] = m
    BY <1>2 DEF Repeats
  <2> QED
    BY <2>1, <2>2
<1>4. After = [n \in 0 .. N |-> IF n = 0 THEN m ELSE Sample(After[n - 1])]
  BY <1>3
<1>5. Mixed(m) = After[N]
  BY DEF Mixed
<1> HIDE DEF After
<1> DEFINE Bad == {n \in 0 .. N : After[n] \notin Later(m)}
<1>6. ASSUME NEW n \in Bad, \A k \in Bad : n <= k PROVE FALSE
  <2>1. n \in 0 .. N /\ After[n] \notin Later(m)
    BY <1>6
  <2>2. n # 0
    BY <1>1, <1>4, <2>1
  <2>3. n - 1 \in 0 .. N /\ n - 1 \notin Bad /\ After[n] = Sample(After[n - 1])
    BY <1>1, <1>4, <1>6, <2>1, <2>2
  <2> QED
    BY <2>1, <2>3, SampleKeeps
<1>7. Bad \in SUBSET Nat
  BY <1>1
<1>8. Bad = {}
  BY <1>6, <1>7, Least
<1>9. N \in 0 .. N
  BY <1>1
<1> QED
  BY <1>5, <1>8, <1>9

-----------------------------------------------------------------------------
\* The game's channels.

GameInv == GameOK /\ OriginsLive /\ OneChannelPerOrigin

\* As a thing has one channel at most, the first that is stopped is its only one.
LEMMA StopsAll ==
  ASSUME OneChannelPerOrigin, NEW o \in Origins
  PROVE  StoppedBy(o) = {c \in Channels : sfx[c] # None /\ origin[c] = o}
<1> DEFINE S == {c \in Channels : sfx[c] # None /\ origin[c] = o}
<1>1. S \in SUBSET Channels /\ \A c, d \in S : c = d
  BY SoundAssumption DEF OneChannelPerOrigin
<1>2. LowestOf(S) \subseteq S
  BY <1>1, LowestIsIn
<1>3. S # {} => LowestOf(S) # {}
  BY DEF LowestOf
<1> HIDE DEF S
<1>4. LowestOf(S) = S
  BY <1>1, <1>2, <1>3
<1> QED
  BY <1>4 DEF StoppedBy, S

\* Stopping channels takes sounds and origins away, nothing else.
LEMMA ClearedKeeps ==
  ASSUME GameInv, NEW stopped, NEW living \in SUBSET Origins,
         sfx' = Cleared(sfx, stopped), origin' = Cleared(origin, stopped),
         alive' = living,
         \A c \in Channels \ stopped : sfx[c] # None => origin[c] \in living \cup {None}
  PROVE  GameInv'
<1>1. /\ sfx' = [c \in Channels |-> IF c \in stopped THEN None ELSE sfx[c]]
      /\ origin' = [c \in Channels |-> IF c \in stopped THEN None ELSE origin[c]]
  BY DEF Cleared
<1>2. GameOK'
  BY <1>1 DEF GameInv, GameOK
<1>3. OriginsLive'
  BY <1>1 DEF OriginsLive
<1>4. OneChannelPerOrigin'
  BY <1>1 DEF GameInv, OneChannelPerOrigin
<1> QED
  BY <1>2, <1>3, <1>4 DEF GameInv

\* A sound takes the channel of its origin's last one, or another.
LEMMA StartKeepsGame ==
  ASSUME GameInv, NEW o \in alive \cup {None}, NEW s \in Sounds, StartSound(o, s)
  PROVE  GameInv'
<1> DEFINE stopped == OldSound(o)
<1>1. PICK ch \in LowestOf(Candidates(o, s, stopped)) :
        /\ sfx' = [Cleared(sfx, stopped) EXCEPT ![ch] = s]
        /\ origin' = [Cleared(origin, stopped) EXCEPT ![ch] = o]
  BY DEF StartSound
<1>2. alive' = alive /\ alive \subseteq Origins
  BY DEF StartSound, GameInv, GameOK
<1>3. /\ sfx' = [c \in Channels |-> IF c = ch THEN s
                                   ELSE IF c \in stopped THEN None ELSE sfx[c]]
      /\ origin' = [c \in Channels |-> IF c = ch THEN o
                                      ELSE IF c \in stopped THEN None ELSE origin[c]]
  BY <1>1 DEF Cleared
<1>4. o # None => stopped = {c \in Channels : sfx[c] # None /\ origin[c] = o}
  BY <1>2, StopsAll DEF GameInv, OldSound
<1> HIDE DEF stopped
<1>5. GameOK'
  BY <1>2, <1>3 DEF GameInv, GameOK
<1>6. OriginsLive'
  BY <1>2, <1>3 DEF GameInv, OriginsLive
<1>7. OneChannelPerOrigin'
  BY <1>3, <1>4 DEF GameInv, OneChannelPerOrigin
<1> QED
  BY <1>5, <1>6, <1>7 DEF GameInv

\* The game's own steps keep its half of the invariant.
LEMMA GameStep ==
  ASSUME GameInv, [Next]_vars
  PROVE  GameInv'
<1> USE DEF GameInv
<1>1. CASE UNCHANGED <<sfx, origin, alive>>
  BY <1>1 DEF GameOK, OriginsLive, OneChannelPerOrigin
<1>2. ASSUME NEW o \in alive \cup {None}, NEW s \in Sounds, StartSound(o, s)
      PROVE  GameInv'
  BY <1>2, StartKeepsGame
<1>3. ASSUME NEW inaudible \in SUBSET alive, UpdateSounds(inaudible) PROVE GameInv'
  <2>1. PICK stopped : sfx' = Cleared(sfx, stopped) /\ origin' = Cleared(origin, stopped)
    BY <1>3 DEF UpdateSounds, StopChannels
  <2>2. alive' = alive /\ alive \in SUBSET Origins
    BY <1>3 DEF UpdateSounds, GameOK
  <2>3. \A c \in Channels : sfx[c] # None => origin[c] \in alive \cup {None}
    BY DEF OriginsLive
  <2> QED
    BY <2>1, <2>2, <2>3, ClearedKeeps
<1>4. ASSUME NEW o \in Origins, SpawnMobj(o) PROVE GameInv'
  BY <1>4 DEF SpawnMobj, GameOK, OriginsLive, OneChannelPerOrigin
<1>5. ASSUME NEW o \in Origins, RemoveMobj(o) PROVE GameInv'
  <2> DEFINE stopped == StoppedBy(o)
  <2>1. /\ sfx' = Cleared(sfx, stopped) /\ origin' = Cleared(origin, stopped)
        /\ alive' = alive \ {o} /\ alive \ {o} \in SUBSET Origins
    BY <1>5 DEF RemoveMobj, StopChannels, GameOK
  <2>2. stopped = {c \in Channels : sfx[c] # None /\ origin[c] = o}
    BY StopsAll
  <2> HIDE DEF stopped
  <2>3. \A c \in Channels \ stopped :
          sfx[c] # None => origin[c] \in (alive \ {o}) \cup {None}
    BY <2>2 DEF OriginsLive
  <2> QED
    BY <2>1, <2>3, ClearedKeeps
<1>6. ASSUME SetupLevel PROVE GameInv'
  <2>1. /\ sfx' = Cleared(sfx, InUse) /\ origin' = Cleared(origin, InUse)
        /\ alive' = {} /\ {} \in SUBSET Origins
    BY <1>6 DEF SetupLevel, StopChannels
  <2>2. \A c \in Channels \ InUse : ~(sfx[c] # None)
    BY DEF InUse
  <2> QED
    BY <2>1, <2>2, ClearedKeeps
<1>7. CASE \/ Interrupt \/ InitFails \/ (\E speed \in Steps : InitChannel(speed))
           \/ StoreSize \/ LoadData \/ StoreData \/ UNCHANGED vars
  BY <1>1, <1>7 DEF Interrupt, InitFails, InitChannel, StoreSize, LoadData, StoreData,
                    vars
<1> QED
  BY <1>2, <1>3, <1>4, <1>5, <1>6, <1>7 DEF Next

\* No channel keeps the origin of a sound whose thing is gone.
THEOREM OriginsLiveCorrect == Spec => []OriginsLive
<1>1. Init => GameInv
  BY DEF Init, GameInv, GameOK, OriginsLive, OneChannelPerOrigin
<1>2. GameInv /\ [Next]_vars => GameInv'
  BY GameStep
<1>3. GameInv => OriginsLive
  BY DEF GameInv
<1> QED
  BY <1>1, <1>2, <1>3, PTL DEF Spec

\* A thing has one channel at most: what S_StopSound needs, which stops the
\* first it finds.
THEOREM OneChannelCorrect == Spec => []OneChannelPerOrigin
<1>1. Init => GameInv
  BY DEF Init, GameInv, GameOK, OriginsLive, OneChannelPerOrigin
<1>2. GameInv /\ [Next]_vars => GameInv'
  BY GameStep
<1>3. GameInv => OneChannelPerOrigin
  BY DEF GameInv
<1> QED
  BY <1>1, <1>2, <1>3, PTL DEF Spec

-----------------------------------------------------------------------------
\* Both together.

CallOK ==
  /\ call.step # "none" => call.sound \in Sounds /\ sfx[call.ch] = call.sound
  /\ call.step \in {"init", "decoded"} => mixer[call.ch].size = 0
  /\ call.step = "decoded" =>
       LET m == mixer[call.ch] IN
       /\ m.lump = call.sound /\ m.shown = <<call.sound, 0>> /\ m.offset = 0
       /\ Blocks[call.sound] # 0

Inv ==
  /\ TypeOK /\ CallOK /\ NoOrphan
  /\ \A c \in Channels : Whole(mixer[c])

\* A channel set silent is as it was otherwise.
LEMMA Silenced ==
  ASSUME NEW m \in ChannelType, Whole(m)
  PROVE  LET n == [m EXCEPT !.size = 0]
         IN n \in ChannelType /\ Whole(n) /\ n.size = 0 /\ n.lump = m.lump
<1> DEFINE n == [m EXCEPT !.size = 0]
<1>1. /\ n \in ChannelType /\ n.size = 0 /\ n.lump = m.lump /\ n.dataEnd = m.dataEnd
  BY SoundAssumption DEF ChannelType
<1> HIDE DEF n
<1>2. Whole(n)
  BY <1>1 DEF Whole
<1> QED
  BY <1>1, <1>2 DEF n

\* Stopping silences the channels it names, and changes no other.
LEMMA QuietKeeps ==
  ASSUME Inv, NEW stopped
  PROVE  /\ Quiet(stopped) \in [Channels -> ChannelType]
         /\ \A c \in Channels :
              LET n == Quiet(stopped)[c]
              IN Whole(n) /\ (n.size > 0 => n = mixer[c])
         /\ call = Idle => \A c \in Channels \cap stopped : Quiet(stopped)[c].size = 0
<1> DEFINE Q == Quiet(stopped)
<1>1. /\ Q = [c \in Channels |-> Q[c]]
      /\ \A c \in Channels : Q[c] \in {mixer[c], [mixer[c] EXCEPT !.size = 0]}
  BY DEF Quiet
<1>2. ASSUME NEW c \in Channels, c \in stopped, call = Idle PROVE Q[c].size = 0
  <2>1. mixer[c] \in ChannelType /\ Whole(mixer[c])
    BY DEF Inv, TypeOK
  <2>2. CASE mixer[c].size = 0
    BY <1>1, <2>1, <2>2, Silenced
  <2>3. CASE mixer[c].size # 0
    <3>1. mixer[c].size > 0
      BY <2>1, <2>3 DEF ChannelType
    <3>2. handle[c] = c
      BY <1>2, <3>1 DEF Inv, NoOrphan
    <3>3. Playing(c)
      BY <2>3, <3>2 DEF Playing
    <3>4. Q[c] = [mixer[c] EXCEPT !.size = 0]
      BY <1>2, <3>2, <3>3 DEF Quiet
    <3> QED
      BY <2>1, <3>4, Silenced
  <2> QED
    BY <2>2, <2>3
<1> HIDE DEF Q
<1>3. ASSUME NEW c \in Channels
      PROVE  Q[c] \in ChannelType /\ Whole(Q[c]) /\ (Q[c].size > 0 => Q[c] = mixer[c])
  <2>1. mixer[c] \in ChannelType /\ Whole(mixer[c])
    BY DEF Inv, TypeOK
  <2>2. CASE Q[c] = mixer[c]
    BY <2>1, <2>2
  <2>3. CASE Q[c] = [mixer[c] EXCEPT !.size = 0]
    BY <2>1, <2>3, Silenced
  <2> QED
    BY <1>1, <2>2, <2>3
<1>4. Q \in [Channels -> ChannelType]
  BY <1>1, <1>3
<1> QED
  BY <1>2, <1>3, <1>4 DEF Q

\* The interrupt leaves whole channels whole.
LEMMA InterruptKeeps ==
  ASSUME Inv, Interrupt
  PROVE  Inv'
<1>1. /\ mixer' = [c \in Channels |-> Mixed(mixer[c])]
      /\ UNCHANGED <<sfx, origin, handle, call, alive>>
  BY DEF Interrupt
<1>2. ASSUME NEW c \in Channels
      PROVE  /\ mixer'[c] \in ChannelType /\ Whole(mixer'[c])
             /\ mixer'[c].lump = mixer[c].lump
             /\ mixer[c].size = 0 => mixer'[c] = mixer[c]
             /\ mixer'[c].size > 0 => mixer[c].size > 0
  <2>1. mixer[c] \in ChannelType /\ Whole(mixer[c]) /\ mixer'[c] = Mixed(mixer[c])
    BY <1>1 DEF Inv, TypeOK
  <2>2. mixer'[c] \in Later(mixer[c])
    BY <2>1, MixedKeeps
  <2>3. mixer[c].size \in Nat
    BY <2>1, SoundAssumption DEF ChannelType
  <2> QED
    BY <2>2, <2>3 DEF Later
<1>3. TypeOK'
  BY <1>1, <1>2 DEF Inv, TypeOK, GameOK
<1>4. call.ch \in Channels
  BY DEF Inv, TypeOK, CallType
<1>5. CallOK'
  BY <1>1, <1>2, <1>4 DEF Inv, CallOK
<1>6. NoOrphan'
  BY <1>1, <1>2 DEF Inv, NoOrphan
<1>7. (\A c \in Channels : Whole(mixer[c]))'
  BY <1>2
<1> QED
  BY <1>3, <1>5, <1>6, <1>7 DEF Inv

\* Stopping channels between two sounds.
LEMMA StopKeeps ==
  ASSUME Inv, GameOK', NEW stopped \in SUBSET Channels, StopChannels(stopped),
         call = Idle, UNCHANGED <<handle, call>>
  PROVE  Inv'
<1>1. /\ sfx' = Cleared(sfx, stopped) /\ mixer' = Quiet(stopped)
      /\ UNCHANGED <<handle, call>>
  BY DEF StopChannels
<1>2. /\ mixer' \in [Channels -> ChannelType]
      /\ \A c \in Channels : /\ Whole(mixer'[c])
                             /\ mixer'[c].size > 0 => mixer'[c] = mixer[c]
                             /\ c \in stopped => mixer'[c].size = 0
  BY <1>1, QuietKeeps
<1>3. TypeOK'
  BY <1>1, <1>2 DEF Inv, TypeOK
<1>4. CallOK'
  BY <1>1 DEF CallOK, Idle
<1>5. NoOrphan'
  <2>1. ASSUME NEW c \in Channels, mixer'[c].size > 0
        PROVE  sfx'[c] = mixer'[c].lump /\ (handle'[c] = c \/ (call' # Idle /\ call'.ch = c))
    <3>1. c \notin stopped /\ mixer'[c] = mixer[c]
      BY <1>2, <2>1, SoundAssumption DEF ChannelType
    <3>2. sfx'[c] = sfx[c]
      BY <1>1, <3>1 DEF Cleared
    <3> QED
      BY <1>1, <2>1, <3>1, <3>2 DEF Inv, NoOrphan
  <2> QED
    BY <2>1 DEF NoOrphan, Idle
<1> QED
  BY <1>2, <1>3, <1>4, <1>5 DEF Inv

\* A sound that is started finds its channel silent.
LEMMA StartKeeps ==
  ASSUME Inv, GameOK', NEW o \in alive \cup {None}, NEW s \in Sounds, StartSound(o, s)
  PROVE  Inv'
<1> DEFINE stopped == OldSound(o)
<1>1. PICK ch \in LowestOf(Candidates(o, s, stopped)) :
        /\ sfx' = [Cleared(sfx, stopped) EXCEPT ![ch] = s]
        /\ mixer' = [Quiet(stopped \cup {ch}) EXCEPT ![ch].size = 0]
        /\ call' = [Idle EXCEPT !.step = "init", !.ch = ch, !.sound = s]
  BY DEF StartSound
<1>2. call = Idle /\ UNCHANGED handle
  BY DEF StartSound
<1>3. ch \in Channels
  <2>1. Candidates(o, s, stopped) \subseteq Channels
    BY DEF Candidates
  <2> QED
    BY <1>1, <2>1, LowestIsIn
<1> DEFINE Q == Quiet(stopped \cup {ch})
<1>4. /\ Q \in [Channels -> ChannelType]
      /\ \A c \in Channels : /\ Whole(Q[c])
                             /\ Q[c].size > 0 => Q[c] = mixer[c]
                             /\ c \in stopped \cup {ch} => Q[c].size = 0
  BY <1>2, QuietKeeps
<1>5. /\ [Q[ch] EXCEPT !.size = 0] \in ChannelType
      /\ Whole([Q[ch] EXCEPT !.size = 0]) /\ [Q[ch] EXCEPT !.size = 0].size = 0
  BY <1>3, <1>4, Silenced
<1> HIDE DEF Q, stopped
<1>6. /\ mixer' \in [Channels -> ChannelType]
      /\ \A c \in Channels : /\ Whole(mixer'[c])
                             /\ mixer'[c].size > 0 => mixer'[c] = mixer[c]
                             /\ c \in stopped \cup {ch} => mixer'[c].size = 0
  <2>1. mixer' = [Q EXCEPT ![ch] = [Q[ch] EXCEPT !.size = 0]]
    BY <1>1, <1>3, <1>4 DEF Q
  <2>2. mixer' \in [Channels -> ChannelType]
    BY <1>3, <1>4, <1>5, <2>1
  <2>3. ASSUME NEW c \in Channels
        PROVE  mixer'[c] = IF c = ch THEN [Q[ch] EXCEPT !.size = 0] ELSE Q[c]
    BY <1>3, <1>4, <2>1
  <2>4. ASSUME NEW c \in Channels
        PROVE  /\ Whole(mixer'[c])
               /\ mixer'[c].size > 0 => mixer'[c] = mixer[c]
               /\ c \in stopped \cup {ch} => mixer'[c].size = 0
    <3>1. CASE c = ch
      <4>1. mixer'[c] = [Q[ch] EXCEPT !.size = 0]
        BY <2>3, <3>1
      <4>2. Whole(mixer'[c]) /\ mixer'[c].size = 0
        BY <1>5, <4>1
      <4>3. ~(0 > 0)
        OBVIOUS
      <4> QED
        BY <4>2, <4>3
    <3>2. CASE c # ch
      <4>1. mixer'[c] = Q[c]
        BY <2>3, <3>2
      <4> QED
        BY <1>4, <4>1
    <3> QED
      BY <3>1, <3>2
  <2> QED
    BY <2>2, <2>4
<1>7. /\ call' \in CallType /\ call'.step = "init" /\ call'.ch = ch /\ call'.sound = s
  BY <1>1, <1>3 DEF Idle, CallType
<1>8. TypeOK'
  BY <1>2, <1>6, <1>7 DEF Inv, TypeOK
<1>9. /\ sfx'[ch] = s
      /\ \A c \in Channels : c # ch /\ c \notin stopped => sfx'[c] = sfx[c]
  BY <1>1, <1>3 DEF Cleared
<1>10. CallOK'
  BY <1>3, <1>6, <1>7, <1>9 DEF CallOK
<1>11. NoOrphan'
  <2>1. ASSUME NEW c \in Channels, mixer'[c].size > 0
        PROVE  sfx'[c] = mixer'[c].lump /\ handle'[c] = c
    <3>1. c \notin stopped \cup {ch} /\ mixer'[c] = mixer[c]
      BY <1>6, <2>1, SoundAssumption DEF ChannelType
    <3>2. sfx'[c] = sfx[c]
      BY <1>9, <3>1
    <3> QED
      BY <1>2, <2>1, <3>1, <3>2 DEF Inv, NoOrphan
  <2> QED
    BY <2>1 DEF NoOrphan, Idle
<1> QED
  BY <1>6, <1>8, <1>10, <1>11 DEF Inv

\* The steps of I_Pico_StartSound change the channel it fills in.
LEMMA FillKeeps ==
  ASSUME Inv, GameOK', NEW m \in ChannelType, Whole(m),
         mixer' = [mixer EXCEPT ![call.ch] = m],
         call.step # "none", call' \in CallType,
         m.size > 0 => m.lump = call.sound,
         \/ call'.step # "none" /\ call'.ch = call.ch /\ handle' = handle
         \/ call' = Idle /\ m.size = 0 /\ handle' = [handle EXCEPT ![call.ch] = -1]
         \/ call' = Idle /\ handle' = [handle EXCEPT ![call.ch] = call.ch],
         sfx' = sfx
  PROVE  TypeOK' /\ NoOrphan' /\ (\A c \in Channels : Whole(mixer'[c]))
<1>1. call.ch \in Channels /\ sfx[call.ch] = call.sound
  BY DEF Inv, TypeOK, CallType, CallOK
<1>2. /\ mixer' \in [Channels -> ChannelType] /\ handle' \in [Channels -> Channels \cup {-1}]
      /\ \A c \in Channels : mixer'[c] = IF c = call.ch THEN m ELSE mixer[c]
      /\ \A c \in Channels : c # call.ch => handle'[c] = handle[c]
  BY <1>1 DEF Inv, TypeOK
<1>3. TypeOK'
  BY <1>2 DEF TypeOK
<1>4. ASSUME NEW c \in Channels, mixer'[c].size > 0
      PROVE  sfx'[c] = mixer'[c].lump /\ (handle'[c] = c \/ (call' # Idle /\ call'.ch = c))
  <2>1. CASE c = call.ch
    <3>1. mixer'[c] = m /\ sfx'[c] = m.lump /\ m.size # 0
      BY <1>1, <1>2, <1>4, <2>1, SoundAssumption DEF ChannelType
    <3>2. CASE call'.step # "none" /\ call'.ch = call.ch /\ handle' = handle
      BY <2>1, <3>1, <3>2 DEF Idle
    <3>3. CASE call' = Idle /\ handle' = [handle EXCEPT ![call.ch] = call.ch]
      BY <1>1, <2>1, <3>1, <3>3 DEF Inv, TypeOK
    <3> QED
      BY <3>1, <3>2, <3>3
  <2>2. CASE c # call.ch
    BY <1>2, <1>4, <2>2 DEF Inv, NoOrphan
  <2> QED
    BY <2>1, <2>2
<1>5. NoOrphan'
  BY <1>4 DEF NoOrphan, Idle
<1>6. \A c \in Channels : Whole(mixer'[c])
  BY <1>2 DEF Inv
<1> QED
  BY <1>3, <1>5, <1>6

\* The lump is none: the channel stays silent.
LEMMA FailKeeps ==
  ASSUME Inv, GameOK', InitFails
  PROVE  Inv'
<1> DEFINE m == [mixer[call.ch] EXCEPT !.size = 0]
<1>1. /\ call.step = "init" /\ mixer' = [mixer EXCEPT ![call.ch].size = 0]
      /\ handle' = [handle EXCEPT ![call.ch] = -1] /\ call' = Idle /\ sfx' = sfx
  BY DEF InitFails
<1>2. call.ch \in Channels /\ mixer[call.ch] \in ChannelType /\ Whole(mixer[call.ch])
  BY DEF Inv, TypeOK, CallType
<1>3. m \in ChannelType /\ Whole(m) /\ m.size = 0
  BY <1>2, Silenced
<1>4. mixer' = [mixer EXCEPT ![call.ch] = m]
  BY <1>1, <1>2 DEF Inv, TypeOK
<1>5. call' \in CallType
  BY <1>1, SoundAssumption DEF Idle, CallType, Channels
<1> HIDE DEF m
<1>6. ~(m.size > 0)
  BY <1>3
<1>7. TypeOK' /\ NoOrphan' /\ (\A c \in Channels : Whole(mixer'[c]))
  BY <1>1, <1>3, <1>4, <1>5, <1>6, FillKeeps
<1>8. CallOK'
  BY <1>1 DEF CallOK, Idle
<1> QED
  BY <1>7, <1>8 DEF Inv

\* The channel turns to its new lump while it is silent.
LEMMA InitKeeps ==
  ASSUME Inv, GameOK', NEW speed \in Steps, InitChannel(speed)
  PROVE  Inv'
<1> DEFINE b == mixer[call.ch]
           s == call.sound
           m == [b EXCEPT !.lump = s, !.data = 0, !.dataEnd = Blocks[s],
                          !.offset = 0, !.step = StepOf(speed), !.shown = <<s, 0>>]
<1>1. /\ call.step = "init" /\ sfx' = sfx
      /\ mixer' = [mixer EXCEPT ![call.ch] = m]
      /\ IF Blocks[s] = 0
         THEN call' = Idle /\ handle' = [handle EXCEPT ![call.ch] = call.ch]
         ELSE call' = [call EXCEPT !.step = "decoded"] /\ handle' = handle
  BY DEF InitChannel
<1>2. /\ call.ch \in Channels /\ b \in ChannelType /\ b.size = 0
      /\ s \in Sounds /\ call \in CallType /\ sfx[call.ch] = s
  BY <1>1 DEF Inv, TypeOK, CallType, CallOK
<1>3. Blocks[s] \in Nat /\ StepOf(speed) \in Nat \ {0} /\ s # None
  BY <1>2, SoundAssumption DEF StepOf
<1>4. <<s, 0>> \in (Sounds \cup {None}) \X Nat
  BY <1>2
<1>5. /\ m.lump = s /\ m.dataEnd = Blocks[s] /\ m.offset = 0 /\ m.shown = <<s, 0>>
      /\ m.size = 0
  BY <1>2 DEF ChannelType
<1>6. m \in ChannelType
  <2> DEFINE c1 == [b EXCEPT !.lump = s]
             c2 == [c1 EXCEPT !.data = 0]
             c3 == [c2 EXCEPT !.dataEnd = Blocks[s]]
             c4 == [c3 EXCEPT !.offset = 0]
             c5 == [c4 EXCEPT !.step = StepOf(speed)]
             c6 == [c5 EXCEPT !.shown = <<s, 0>>]
  <2>1. m = c6
    BY <1>2 DEF ChannelType
  <2> HIDE DEF b, m
  <2>2. c1 \in ChannelType
    BY <1>2 DEF ChannelType
  <2> HIDE DEF c1
  <2>3. c2 \in ChannelType
    BY <2>2 DEF ChannelType
  <2> HIDE DEF c2
  <2>4. c3 \in ChannelType
    BY <1>3, <2>3 DEF ChannelType
  <2> HIDE DEF c3
  <2>5. c4 \in ChannelType
    BY <2>4 DEF ChannelType
  <2> HIDE DEF c4
  <2>6. c5 \in ChannelType
    BY <1>3, <2>5 DEF ChannelType
  <2> HIDE DEF c5
  <2>7. c6 \in ChannelType
    BY <1>4, <2>6 DEF ChannelType
  <2> QED
    BY <2>1, <2>7
<1> HIDE DEF m, b, s
<1>7. Whole(m) /\ ~(m.size > 0)
  BY <1>3, <1>5 DEF Whole
<1>8. CASE Blocks[s] = 0
  <2>1. call' = Idle /\ handle' = [handle EXCEPT ![call.ch] = call.ch]
    BY <1>1, <1>8
  <2>2. call' \in CallType
    BY <2>1, SoundAssumption DEF Idle, CallType, Channels
  <2>3. TypeOK' /\ NoOrphan' /\ (\A c \in Channels : Whole(mixer'[c]))
    BY <1>1, <1>6, <1>7, <2>1, <2>2, FillKeeps
  <2>4. CallOK'
    BY <2>1 DEF CallOK, Idle
  <2> QED
    BY <2>3, <2>4 DEF Inv
<1>9. CASE Blocks[s] # 0
  <2>1. call' = [call EXCEPT !.step = "decoded"] /\ handle' = handle
    BY <1>1, <1>9
  <2>2. /\ call' \in CallType /\ call'.step = "decoded" /\ call'.ch = call.ch
        /\ call'.sound = s
    BY <1>2, <2>1 DEF CallType, s
  <2>3. TypeOK' /\ NoOrphan' /\ (\A c \in Channels : Whole(mixer'[c]))
    BY <1>1, <1>6, <1>7, <2>1, <2>2, FillKeeps
  <2>4. mixer'[call.ch] = m
    BY <1>1, <1>2 DEF Inv, TypeOK
  <2>5. CallOK'
    BY <1>1, <1>2, <1>5, <1>9, <2>2, <2>4 DEF CallOK
  <2> QED
    BY <2>3, <2>5 DEF Inv
<1> QED
  BY <1>8, <1>9

\* The size of the decoded block is stored, and data goes on.
LEMMA StoreKeeps ==
  ASSUME Inv, GameOK', StoreSize \/ LoadData \/ StoreData
  PROVE  Inv'
<1> DEFINE b == mixer[call.ch]
<1>1. /\ call.ch \in Channels /\ b \in ChannelType /\ Whole(b) /\ call \in CallType
      /\ call.step # "none" /\ call.sound \in Sounds /\ sfx[call.ch] = call.sound
  BY DEF Inv, TypeOK, CallType, CallOK, StoreSize, LoadData, StoreData
<1>2. CASE StoreSize
  <2> DEFINE m == [b EXCEPT !.size = SamplesOf(call.sound, 0)]
  <2>1. /\ call.step = "decoded" /\ call' = [call EXCEPT !.step = "sized"]
        /\ mixer' = [mixer EXCEPT ![call.ch] = m] /\ sfx' = sfx /\ handle' = handle
    BY <1>1, <1>2 DEF StoreSize, Inv, TypeOK
  <2>2. /\ b.lump = call.sound /\ b.shown = <<call.sound, 0>> /\ b.offset = 0
        /\ Blocks[call.sound] # 0
    BY <2>1 DEF Inv, CallOK
  <2>3. SamplesOf(call.sound, 0) \in 1 .. BlockSamples
    BY <1>1, BlockHasSamples
  <2>4. /\ m \in ChannelType /\ m.lump = call.sound /\ m.dataEnd = b.dataEnd
        /\ m.shown = <<call.sound, 0>> /\ m.offset = 0 /\ m.size = SamplesOf(call.sound, 0)
    BY <1>1, <2>2, <2>3 DEF ChannelType
  <2> HIDE DEF m
  <2>5. Blocks[call.sound] > 0
    BY <1>1, <2>2, SoundAssumption
  <2>6. Whole(m)
    BY <1>1, <2>2, <2>3, <2>4, <2>5, SoundAssumption DEF Whole
  <2>7. /\ call' \in CallType /\ call'.step = "sized" /\ call'.ch = call.ch
        /\ call'.sound = call.sound
    BY <1>1, <2>1 DEF CallType
  <2>8. TypeOK' /\ NoOrphan' /\ (\A c \in Channels : Whole(mixer'[c]))
    BY <2>1, <2>4, <2>6, <2>7, FillKeeps
  <2>9. CallOK'
    BY <1>1, <2>1, <2>7 DEF CallOK
  <2> QED
    BY <2>8, <2>9 DEF Inv
<1>3. CASE LoadData
  <2>1. /\ call.step = "sized" /\ call' = [call EXCEPT !.step = "loaded", !.loaded = b.data]
        /\ UNCHANGED <<sfx, origin, handle, mixer, alive>>
    BY <1>3 DEF LoadData
  <2>2. b.data \in Nat
    BY <1>1 DEF ChannelType
  <2>3. /\ call' \in CallType /\ call'.step = "loaded" /\ call'.ch = call.ch
        /\ call'.sound = call.sound
    BY <1>1, <2>1, <2>2 DEF CallType
  <2>4. TypeOK'
    BY <2>1, <2>3 DEF Inv, TypeOK
  <2>5. CallOK'
    BY <1>1, <2>1, <2>3 DEF CallOK
  <2>6. NoOrphan'
    BY <2>1, <2>3 DEF Inv, NoOrphan, Idle
  <2> QED
    BY <2>1, <2>4, <2>5, <2>6 DEF Inv
<1>4. CASE StoreData
  <2> DEFINE m == [b EXCEPT !.data = call.loaded + 1]
  <2>1. /\ call.step = "loaded" /\ call' = Idle
        /\ handle' = [handle EXCEPT ![call.ch] = call.ch]
        /\ mixer' = [mixer EXCEPT ![call.ch] = m] /\ sfx' = sfx
    BY <1>1, <1>4 DEF StoreData, Inv, TypeOK
  <2>2. call.loaded + 1 \in Nat
    BY <1>1 DEF CallType
  <2>3. /\ m \in ChannelType /\ m.lump = b.lump /\ m.dataEnd = b.dataEnd
        /\ m.shown = b.shown /\ m.offset = b.offset /\ m.size = b.size
    BY <1>1, <2>2 DEF ChannelType
  <2> HIDE DEF m
  <2>4. Whole(m)
    BY <1>1, <2>3 DEF Whole
  <2>5. m.size > 0 => m.lump = call.sound
    BY <1>1, <2>3 DEF Inv, NoOrphan
  <2>6. call' \in CallType
    BY <2>1, SoundAssumption DEF Idle, CallType, Channels
  <2>7. TypeOK' /\ NoOrphan' /\ (\A c \in Channels : Whole(mixer'[c]))
    BY <1>1, <2>1, <2>3, <2>4, <2>5, <2>6, FillKeeps
  <2>8. CallOK'
    BY <2>1 DEF CallOK, Idle
  <2> QED
    BY <2>7, <2>8 DEF Inv
<1> QED
  BY <1>2, <1>3, <1>4

\* Every step keeps the invariant.
LEMMA InvStep ==
  ASSUME GameInv, Inv, [Next]_vars
  PROVE  GameInv' /\ Inv'
<1>a. GameInv'
  BY GameStep
<1> SUFFICES Inv'
  BY <1>a
<1>1. GameOK'
  BY <1>a DEF GameInv, GameOK
<1>2. CASE Interrupt
  BY <1>2, InterruptKeeps
<1>3. ASSUME NEW o \in alive \cup {None}, NEW s \in Sounds, StartSound(o, s) PROVE Inv'
  BY <1>1, <1>3, StartKeeps
<1>4. CASE InitFails
  BY <1>1, <1>4, FailKeeps
<1>5. ASSUME NEW speed \in Steps, InitChannel(speed) PROVE Inv'
  BY <1>1, <1>5, InitKeeps
<1>6. CASE StoreSize \/ LoadData \/ StoreData
  BY <1>1, <1>6, StoreKeeps
<1>7. ASSUME NEW inaudible \in SUBSET alive, UpdateSounds(inaudible) PROVE Inv'
  <2> DEFINE S == {c \in Channels : /\ sfx[c] # None
                                    /\ ~Playing(c) \/ origin[c] \in inaudible}
  <2>1. S \in SUBSET Channels /\ StopChannels(S) /\ call = Idle /\ UNCHANGED <<handle, call>>
    BY <1>7 DEF UpdateSounds
  <2> HIDE DEF S
  <2> QED
    BY <1>1, <2>1, StopKeeps
<1>8. ASSUME NEW o \in Origins, SpawnMobj(o) PROVE Inv'
  BY <1>1, <1>8 DEF SpawnMobj, Inv, TypeOK, CallOK, NoOrphan, Idle
<1>9. ASSUME NEW o \in Origins, RemoveMobj(o) PROVE Inv'
  <2>1. StopChannels(StoppedBy(o)) /\ call = Idle /\ UNCHANGED <<handle, call>>
    BY <1>9 DEF RemoveMobj
  <2>2. StoppedBy(o) \in SUBSET Channels
    BY StopsAll DEF GameInv
  <2> QED
    BY <1>1, <2>1, <2>2, StopKeeps
<1>10. CASE SetupLevel
  <2>1. StopChannels(InUse) /\ call = Idle /\ UNCHANGED <<handle, call>>
    BY <1>10 DEF SetupLevel
  <2>2. InUse \in SUBSET Channels
    BY DEF InUse
  <2> QED
    BY <1>1, <2>1, <2>2, StopKeeps
<1>11. CASE UNCHANGED vars
  BY <1>1, <1>11 DEF vars, Inv, TypeOK, CallOK, NoOrphan, Idle
<1> QED
  BY <1>2, <1>3, <1>4, <1>5, <1>6, <1>7, <1>8, <1>9, <1>10, <1>11 DEF Next

\* The program begins in silence.
LEMMA InvInitial ==
  ASSUME Init
  PROVE  GameInv /\ Inv
<1>1. GameInv
  BY DEF Init, GameInv, GameOK, OriginsLive, OneChannelPerOrigin
<1>2. Silent \in ChannelType /\ Whole(Silent) /\ Silent.size = 0
  <2>1. <<None, 0>> \in (Sounds \cup {None}) \X Nat
    OBVIOUS
  <2> QED
    BY <2>1, SoundAssumption DEF Silent, ChannelType, Whole
<1>3. Idle \in CallType
  BY SoundAssumption DEF Idle, CallType, Channels
<1>4. TypeOK
  BY <1>1, <1>2, <1>3 DEF Init, TypeOK, GameInv
<1>5. CallOK /\ NoOrphan
  BY <1>2 DEF Init, CallOK, NoOrphan, Idle
<1> QED
  BY <1>1, <1>2, <1>4, <1>5 DEF Init, Inv

\* Type correctness.
THEOREM TypeCorrect == Spec => []TypeOK
<1>1. Init => GameInv /\ Inv
  BY InvInitial
<1>2. GameInv /\ Inv /\ [Next]_vars => GameInv' /\ Inv'
  BY InvStep
<1>3. Inv => TypeOK
  BY DEF Inv
<1> QED
  BY <1>1, <1>2, <1>3, PTL DEF Spec

\* Whatever the interrupt and the game have done to data between them, what is
\* mixed was decoded from inside the lump the channel plays.
THEOREM ReadsInLumpCorrect == Spec => []ReadsInLump
<1>1. Init => GameInv /\ Inv
  BY InvInitial
<1>2. GameInv /\ Inv /\ [Next]_vars => GameInv' /\ Inv'
  BY InvStep
<1>3. Inv => ReadsInLump
  BY DEF Inv, Whole, ReadsInLump
<1> QED
  BY <1>1, <1>2, <1>3, PTL DEF Spec

\* Nothing plays that the game has no channel for.
THEOREM NoOrphanCorrect == Spec => []NoOrphan
<1>1. Init => GameInv /\ Inv
  BY InvInitial
<1>2. GameInv /\ Inv /\ [Next]_vars => GameInv' /\ Inv'
  BY InvStep
<1>3. Inv => NoOrphan
  BY DEF Inv
<1> QED
  BY <1>1, <1>2, <1>3, PTL DEF Spec

=============================================================================
