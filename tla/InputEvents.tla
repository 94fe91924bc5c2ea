---------------------------- MODULE InputEvents ----------------------------
(* Buttons to game keys: src/jaszczurhal/doom_input_hal.c polls the buttons  *)
(* and the gamepad, keeps the two gamepad chords back, and posts the changes *)
(* to the event ring of src/d_event.c, which the game drains before its tic. *)
EXTENDS Naturals, Sequences, FiniteSets, SequencesExt

CONSTANTS
  Bindings,      \* s_bindings: the actions, each with its own key, in order
  PairingChord,  \* Menu and Back
  ResetChord,    \* strafe left, strafe right and Back
  PairingHold,   \* DOOM_GAMEPAD_PAIRING_HOLD_MS, in units of time
  ResetHold,     \* DOOM_GAMEPAD_FACTORY_RESET_HOLD_MS
  MaxEvents,     \* MAXEVENTS
  None,          \* no key, no request, a chord not seen
  Holds,         \* bound: what the player may hold, on buttons and pad together
  Delays         \* bound: the time from a poll to the next

Actions == ToSet(Bindings)

ASSUME BindingsAssumption == Bindings \in Seq(Actions) /\ IsInjective(Bindings)
ASSUME ChordsAssumption ==
  /\ PairingChord \subseteq Actions /\ ResetChord \subseteq Actions
  /\ PairingChord \cap ResetChord # {}
ASSUME NoneAssumption ==
  None \notin {"pairing", "forget", "keyup", "keydown"} \cup Nat
ASSUME HoldsAssumption == Holds \subseteq SUBSET Actions /\ Delays \subseteq Nat
ASSUME NumbersAssumption ==
  /\ MaxEvents \in Nat \ {0}
  /\ PairingHold \in Nat \ {0} /\ ResetHold \in Nat \ {0}

VARIABLES
  pairing, reset,  \* the chords' s_.._active and s_.._consumed, and the time
                   \* since s_.._started_ms
  guard,           \* s_factory_reset_chord_guard_active
  published,       \* s_published_actions
  events, eventhead, eventtail,
  gamekeydown,     \* the actions whose keys the game holds down
  playing,         \* the player plays: neither a demo nor a title page is on
  request,         \* what the last poll asked the gamepad for
  pairingSeen, resetSeen,  \* how long every poll has seen the chord; None
  pairingDone, resetDone   \* a request was made and no poll saw the chord
                           \* released since

chords == <<pairing, reset, guard, request, pairingSeen, resetSeen,
            pairingDone, resetDone>>
ring == <<events, eventhead, eventtail>>
vars == <<chords, published, ring, gamekeydown, playing>>

Idle == [active |-> FALSE, consumed |-> FALSE, age |-> 0]
Free == [key |-> None, type |-> None]

Init ==
  /\ pairing = Idle /\ reset = Idle /\ guard = FALSE
  /\ published = {}
  /\ events = [i \in 0 .. MaxEvents - 1 |-> Free]
  /\ eventhead = 0 /\ eventtail = 0
  /\ gamekeydown = {} /\ playing = FALSE
  /\ request = None
  /\ pairingSeen = None /\ resetSeen = None
  /\ pairingDone = FALSE /\ resetDone = FALSE

-----------------------------------------------------------------------------
\* The event ring.

Drained == eventhead = eventtail

Unwrapped(i, n) == i + n

Advance(i, n) == (i + n) % MaxEvents

\* D_PostEvent for one event after another: the ring is never found full.
PostEvents(evs) ==
  /\ events' = [i \in 0 .. MaxEvents - 1 |->
       LET at == {j \in 1 .. Len(evs) : Advance(eventhead, j - 1) = i}
       IN IF at = {} THEN events[i]
          ELSE evs[CHOOSE j \in at : \A l \in at : l <= j]]
  /\ eventhead' = Advance(eventhead, Len(evs))
  /\ UNCHANGED eventtail

\* publish_action_changes goes through the bindings twice: releases first, then
\* presses.
InOrder(S) ==
  LET First[n \in 0 .. Len(Bindings)] ==
        IF n = 0 THEN <<>>
        ELSE IF Bindings[n] \in S THEN Append(First[n - 1], Bindings[n])
        ELSE First[n - 1]
  IN First[Len(Bindings)]

Posted(S, type) ==
  LET as == InOrder(S)
  IN [i \in 1 .. Len(as) |-> [key |-> as[i], type |-> type]]

PublishPresses(out) ==
  /\ PostEvents(Posted(out \ published, "keydown"))
  /\ published' = out

Publish(out) ==
  /\ PostEvents(Posted(published \ out, "keyup") \o Posted(out \ published, "keydown"))
  /\ published' = out

-----------------------------------------------------------------------------
(* handle_gamepad_chords, for the held actions h after a delay d: one action *)
(* for each way through it.                                                  *)

Elapsed(chord, d, hold) == IF chord.age + d < hold THEN chord.age + d ELSE hold

\* The chord is down: how it goes on, and whether it makes its request now.
HeldLonger(chord, hold) == chord.age > hold

HeldLongEnough(chord, hold) == chord.age >= hold

Held(chord, d, hold) ==
  [chord EXCEPT !.active = TRUE,
                !.age = IF chord.active THEN Elapsed(chord, d, hold) ELSE 0]

Consume(chord, hold) ==
  [chord EXCEPT !.consumed = @ \/ HeldLongEnough(chord, hold)]

\* The chord is not looked at: time passes on it while it is active.
Aged(chord, d, hold) ==
  IF chord.active THEN [chord EXCEPT !.age = Elapsed(chord, d, hold)] ELSE Idle

\* What the properties remember of the polls.
Watch(h, d, req) ==
  /\ request' = req
  /\ pairingSeen' = IF ~(PairingChord \subseteq h) THEN None
                    ELSE IF pairingSeen = None THEN 0
                    ELSE Elapsed([age |-> pairingSeen], d, PairingHold)
  /\ resetSeen' = IF ~(ResetChord \subseteq h) THEN None
                  ELSE IF resetSeen = None THEN 0
                  ELSE Elapsed([age |-> resetSeen], d, ResetHold)
  /\ pairingDone' = (req = "pairing" \/ (pairingDone /\ h \cap PairingChord # {}))
  /\ resetDone' = (req = "forget" \/ (resetDone /\ h \cap ResetChord # {}))

\* All three: the reset chord, from its first poll on.
PollReset(h, d) ==
  /\ ResetChord \subseteq h
  /\ LET c == Held(reset, d, ResetHold) IN
       /\ reset' = Consume(c, ResetHold)
       /\ Watch(h, d, IF reset'.consumed /\ ~c.consumed THEN "forget" ELSE None)
  /\ guard' = TRUE
  /\ pairing' = Aged(pairing, d, PairingHold)
  /\ Publish(h \ ResetChord)

\* The guard stays up until all three are released.
OneReleased(h) == ~(ResetChord \subseteq h)

AllReleased(h) == h \cap ResetChord = {}

PollGuarded(h, d) ==
  /\ ~(ResetChord \subseteq h) /\ guard
  /\ guard' = ~AllReleased(h)
  /\ reset' = IF AllReleased(h) THEN Idle ELSE Aged(reset, d, ResetHold)
  /\ pairing' = Aged(pairing, d, PairingHold)
  /\ Watch(h, d, None)
  /\ Publish(h \ ResetChord)

Unguarded(h) ==
  /\ ~(ResetChord \subseteq h) /\ ~guard
  /\ reset' = Idle

PollPairing(h, d) ==
  /\ Unguarded(h) /\ PairingChord \subseteq h
  /\ LET c == Held(pairing, d, PairingHold) IN
       /\ pairing' = Consume(c, PairingHold)
       /\ Watch(h, d, IF pairing'.consumed /\ ~c.consumed THEN "pairing" ELSE None)
  /\ UNCHANGED guard
  /\ Publish(h \ PairingChord)

\* Two of the three: the guard goes up before the third is pressed.
PollPartial(h, d) ==
  /\ Unguarded(h) /\ ~(PairingChord \subseteq h)
  /\ Cardinality(h \cap ResetChord) >= 2
  /\ guard' = TRUE
  /\ pairing' = Aged(pairing, d, PairingHold)
  /\ Watch(h, d, None)
  /\ Publish(h \ ResetChord)

NoChord(h) ==
  /\ Unguarded(h) /\ ~(PairingChord \subseteq h)
  /\ Cardinality(h \cap ResetChord) < 2

\* A pairing chord that made its request is being released.
PollReleasing(h, d) ==
  /\ NoChord(h) /\ pairing.consumed
  /\ pairing' = IF h \cap PairingChord = {} THEN Idle ELSE Aged(pairing, d, PairingHold)
  /\ UNCHANGED guard
  /\ Watch(h, d, None)
  /\ Publish(h \ PairingChord)

PollPlain(h, d) ==
  /\ NoChord(h) /\ ~pairing.consumed
  /\ pairing' = Idle
  /\ UNCHANGED guard
  /\ Watch(h, d, None)
  /\ Publish(h)

\* I_GetEvent, once before each tic and with the ring drained.
Poll ==
  /\ Drained
  /\ \E h \in Holds, d \in Delays :
       \/ PollReset(h, d) \/ PollGuarded(h, d) \/ PollPairing(h, d)
       \/ PollPartial(h, d) \/ PollReleasing(h, d) \/ PollPlain(h, d)
  /\ UNCHANGED <<gamekeydown, playing>>

-----------------------------------------------------------------------------
\* D_ProcessEvents, an event at a time.

TakeEvent ==
  /\ ~Drained
  /\ eventtail' = Advance(eventtail, 1)
  /\ UNCHANGED <<events, eventhead, chords, published, playing>>

\* The menu, the automap or, with a demo or title page on, the demo ate it.
EatEvent ==
  /\ TakeEvent
  /\ playing => events[eventtail].type = "keydown"
  /\ UNCHANGED gamekeydown

KeyDown ==
  /\ TakeEvent
  /\ events[eventtail].type = "keydown"
  /\ gamekeydown' = gamekeydown \cup {events[eventtail].key}

KeyUp ==
  /\ TakeEvent
  /\ events[eventtail].type = "keyup"
  /\ gamekeydown' = gamekeydown \ {events[eventtail].key}

\* G_DoLoadLevel, for the player or for a demo, in the tic.
KeysKept == gamekeydown

KeysCleared == {}

LoadLevel ==
  /\ Drained
  /\ gamekeydown' = KeysCleared
  /\ playing' \in BOOLEAN
  /\ UNCHANGED <<chords, published, ring>>

\* D_StartTitle: the game is left for the title pages, with its keys as they are.
LeaveGame ==
  /\ Drained /\ playing
  /\ playing' = FALSE
  /\ UNCHANGED <<chords, published, ring, gamekeydown>>

Next == Poll \/ EatEvent \/ KeyDown \/ KeyUp \/ LoadLevel \/ LeaveGame

Spec == Init /\ [][Next]_vars

-----------------------------------------------------------------------------
\* Properties.

ChordType(hold) == [active : BOOLEAN, consumed : BOOLEAN, age : 0 .. hold]

ChordsOK ==
  /\ pairing \in ChordType(PairingHold) /\ reset \in ChordType(ResetHold)
  /\ guard \in BOOLEAN /\ published \subseteq Actions
  /\ request \in {None, "pairing", "forget"}
  /\ pairingSeen \in (0 .. PairingHold) \cup {None}
  /\ resetSeen \in (0 .. ResetHold) \cup {None}
  /\ pairingDone \in BOOLEAN /\ resetDone \in BOOLEAN

EventType == [key : Actions, type : {"keyup", "keydown"}]

RingOK ==
  /\ events \in [0 .. MaxEvents - 1 -> {Free} \cup EventType]
  /\ eventhead \in 0 .. MaxEvents - 1 /\ eventtail \in 0 .. MaxEvents - 1

\* The variables stay within what the source can store in them.
TypeOK ==
  /\ ChordsOK /\ RingOK
  /\ gamekeydown \subseteq Actions /\ playing \in BOOLEAN

(* Once the events of a poll are drained, the player's game holds no key     *)
(* down whose button the input layer has reported released: whatever the     *)
(* menus ate, the chords kept back and the demos ignored in between.         *)
NoStuckKey == playing /\ Drained => gamekeydown \subseteq published

(* The buttons of a chord in hand do not act on the game: not those of the   *)
(* reset chord from the second one pressed to the last one released, and not *)
(* Menu and Back while both are down.                                        *)
ChordSilent ==
  playing /\ Drained =>
    /\ guard => gamekeydown \cap ResetChord = {}
    /\ pairing.active /\ pairingSeen # None /\ ~guard => gamekeydown \cap PairingChord = {}

(* A chord makes one request, however its buttons come and go, until all of  *)
(* them have been released: the controller is not forgotten or paired twice. *)
OneRequestPerHold ==
  [][Poll => /\ request' = "pairing" => ~pairingDone
             /\ request' = "forget" => ~resetDone]_vars

(* A chord held for its time makes its request, on the first poll that finds *)
(* the time over.                                                            *)
HoldMakesRequest ==
  /\ resetSeen = ResetHold => reset.consumed
  /\ pairingSeen = PairingHold /\ ~guard => pairing.consumed

(* The factory reset is requested only when every poll of the hold time has  *)
(* seen the three buttons pressed.                                           *)
ResetWasHeld == request = "forget" => resetSeen = ResetHold

=============================================================================
