--------------------------- MODULE GamepadInput ---------------------------
(* The Bluetooth pad of src/jaszczurhal/doom_gamepad_input.c, in the build   *)
(* that pairs automatically: DoomGamepadInput_Service, called once a poll,   *)
(* turns the profile's snapshots into held actions and drives pairing,       *)
(* reconnection and the factory reset.  The profile itself is a library: it  *)
(* changes state between any two calls of the service and may fail any call. *)
EXTENDS Integers, Sequences, FiniteSets, SequencesExt

CONSTANTS
  Buttons,        \* the pad's buttons: the actions they are mapped to
  Pads,           \* bound: what the pad can be seen to hold
  MaxQueue,       \* bound: snapshots the profile keeps for the service
  GraceDelay,     \* GAMEPAD_PEER_RECONNECT_GRACE_MS, in units of time
  RetryDelay      \* GAMEPAD_RECONNECT_RETRY_MS

Directions == {"up", "down", "left", "right"}

ASSUME PadsAssumption ==
  Pads \subseteq [dpad: SUBSET Directions, x: {-1, 0, 1}, y: {-1, 0, 1},
                  buttons: SUBSET Buttons]
ASSUME NumbersAssumption ==
  /\ MaxQueue \in Nat \ {0}
  /\ RetryDelay \in Nat \ {0} /\ GraceDelay \in Nat /\ RetryDelay <= GraceDelay

VARIABLES
  link, known,      \* the profile: its state, and whether it holds a bond
  queue,            \* the snapshots the service has not read
  pad,              \* what the player holds
  actions,          \* s_actions, what the service returns
  neutralSeen,      \* s_neutral_seen
  sameGeneration,   \* s_generation is valid, and this connection's
  draining,         \* the service is in drain_snapshots
  previous,         \* s_previous_state
  automatic,        \* s_automatic_pairing_pending
  requested, approved, authorized,
                    \* s_pairing_requested, s_pairing_locally_approved,
                    \* s_authorization_sent
  started,          \* s_reconnect_started
  retryPending, retryAge, retryDelay,
                    \* s_reconnect_retry_pending, the time since
                    \* .._started_ms, s_reconnect_retry_delay_ms
  forgetting, blocked,  \* s_forget_requested, s_reconnect_blocked
  \* What happened:
  rested,           \* on this connection the pad has reported nothing held,
                    \* and no report has been lost since
  attempt,          \* changes with each call of hal_gamepad_reconnect
  sinceAttempt,     \* the time since the last one, up to RetryDelay
  askedSince,       \* a pairing has been requested since the last one
  resetting         \* a factory reset was asked for, and neither succeeded
                    \* nor was followed by a request for pairing

profile == <<link, known, queue, pad, rested>>
inputs == <<actions, neutralSeen, sameGeneration>>
pairing == <<automatic, requested, approved, authorized>>
retry == <<started, retryPending, retryAge, retryDelay>>
attempts == <<attempt, sinceAttempt, askedSince>>
reset == <<forgetting, blocked, resetting>>
vars == <<profile, inputs, draining, previous, pairing, retry, attempts, reset>>

LinkStates == {"ready", "busy", "connected"}

\* map_snapshot: the stick counts on an axis the directional pad leaves alone.
Steered(d, low, high, axis) ==
  IF d \cap {low, high} # {} THEN d
  ELSE CASE axis = -1 -> d \cup {low} [] axis = 1 -> d \cup {high} [] OTHER -> d

MapSnapshot(p) ==
  Steered(Steered(p.dpad, "left", "right", p.x), "up", "down", p.y) \cup p.buttons

Neutral(p) == MapSnapshot(p) = {}

Report(p) == [type |-> "report", pad |-> p]
Gone == [type |-> "gone"]   \* a snapshot that is not connected
Lost == [type |-> "lost"]   \* HAL_EOVERFLOW
Entries == [type: {"report"}, pad: Pads] \cup {Gone, Lost}

\* The profile has just been opened.
Init ==
  /\ link = "busy" /\ known \in BOOLEAN /\ queue = <<>> /\ pad \in Pads
  /\ actions = {} /\ neutralSeen = FALSE /\ sameGeneration = FALSE
  /\ draining = FALSE /\ previous = "busy" /\ automatic = TRUE
  /\ requested = FALSE /\ approved = FALSE /\ authorized = FALSE
  /\ started = FALSE /\ retryPending = FALSE /\ retryAge = 0 /\ retryDelay = 0
  /\ forgetting = FALSE /\ blocked = FALSE
  /\ rested = FALSE /\ attempt = FALSE /\ sinceAttempt = RetryDelay
  /\ askedSince = FALSE /\ resetting = FALSE

-----------------------------------------------------------------------------
\* The profile and the player.

\* It settles, or it turns to a connection that it or the peer has begun.
Settle ==
  /\ link # "connected"
  /\ link' \in {"ready", "busy"} \ {link}
  /\ UNCHANGED <<known, queue, pad, rested, inputs, draining, previous, pairing,
                 retry, attempts, reset>>

\* The bonded pad connects, or one whose pairing was authorized.
LinkUp ==
  /\ link # "connected" /\ (known \/ authorized)
  /\ link' = "connected" /\ known' = TRUE
  /\ sameGeneration' = FALSE /\ rested' = FALSE
  /\ UNCHANGED <<queue, pad, actions, neutralSeen, draining, previous, pairing,
                 retry, attempts, reset>>

LinkDown ==
  /\ link = "connected"
  /\ link' = "ready" /\ queue' = <<Gone>> /\ rested' = FALSE
  /\ UNCHANGED <<known, pad, inputs, draining, previous, pairing, retry, attempts,
                 reset>>

Snapshots(q) == {i \in DOMAIN q : q[i] # Lost}
Full(q) == Cardinality(Snapshots(q)) >= MaxQueue

\* The oldest snapshot is lost, and the queue begins with what says so.
WithoutOldest(q) == IF Head(q) = Lost THEN Tail(Tail(q)) ELSE Tail(q)

LostFirst(q) == IF q # <<>> /\ Head(q) = Lost THEN q ELSE <<Lost>> \o q

\* A report of nothing held, with none lost after it.
RestIn(q) ==
  \E i \in DOMAIN q : /\ q[i].type = "report" /\ Neutral(q[i].pad)
                      /\ \A j \in DOMAIN q : j > i => q[j] # Lost

\* The pad reports what it holds.  A full queue loses its oldest snapshot or
\* the new one, and says so where it is missing.
PadReports(p) ==
  /\ link = "connected" /\ pad' = p
  /\ \/ /\ ~Full(queue)
        /\ queue' = Append(queue, Report(p))
        /\ rested' = (rested \/ Neutral(p))
     \/ /\ Full(queue)
        /\ queue' = Append(LostFirst(WithoutOldest(queue)), Report(p))
        /\ rested' = RestIn(queue')
     \/ /\ Full(queue)
        /\ queue' = IF Last(queue) = Lost THEN queue ELSE Append(queue, Lost)
        /\ rested' = FALSE
  /\ UNCHANGED <<link, known, inputs, draining, previous, pairing, retry, attempts,
                 reset>>

\* Time passes: one unit more, as far as any delay counts it.
Tick ==
  /\ \/ retryPending /\ retryAge < GraceDelay
     \/ sinceAttempt < RetryDelay
  /\ retryAge' = IF retryPending /\ retryAge < GraceDelay THEN retryAge + 1 ELSE retryAge
  /\ sinceAttempt' = IF sinceAttempt < RetryDelay THEN sinceAttempt + 1 ELSE sinceAttempt
  /\ UNCHANGED <<profile, inputs, draining, previous, pairing, started, retryPending,
                 retryDelay, attempt, askedSince, reset>>

-----------------------------------------------------------------------------
\* What the button chords ask for, between two calls of the service.

\* DoomGamepadInput_RequestPairing: queue_pairing_request.
RequestPairing ==
  /\ ~draining
  /\ requested' = TRUE /\ approved' = FALSE /\ authorized' = FALSE
  /\ blocked' = FALSE /\ retryPending' = FALSE
  /\ askedSince' = TRUE /\ resetting' = FALSE
  /\ UNCHANGED <<profile, inputs, draining, previous, automatic, started, retryAge,
                 retryDelay, attempt, sinceAttempt, forgetting>>

\* DoomGamepadInput_RequestForget.  Two buttons of its chord are the pad's alone:
\* the service has just returned them.
RequestForget ==
  /\ ~draining /\ actions # {}
  /\ forgetting' = TRUE /\ blocked' = TRUE
  /\ requested' = FALSE /\ approved' = FALSE /\ authorized' = FALSE
  /\ retryPending' = FALSE /\ resetting' = TRUE
  /\ UNCHANGED <<profile, inputs, draining, previous, automatic, started, retryAge,
                 retryDelay, attempts>>

-----------------------------------------------------------------------------
\* DoomGamepadInput_Service.

Release == actions' = {} /\ neutralSeen' = FALSE

\* hal_gamepad_poll or hal_gamepad_get_info fails.
ServiceFails ==
  /\ ~draining /\ Release
  /\ UNCHANGED <<profile, sameGeneration, draining, previous, pairing, retry,
                 attempts, reset>>

\* The block on reconnection outlives a reset that did not succeed.  The mutation
\* lifts it on any end of the reset.
BlockedWhileBusy(status) == blocked /\ status = "busy"

StaysBlocked(status) == blocked /\ status # "ok"

\* A factory reset is wanted: hal_gamepad_forget erases the bond, is busy, or
\* fails.  Erasing it ends the connection.
ServiceForgets(status) ==
  /\ ~draining /\ forgetting /\ Release
  /\ sameGeneration' = FALSE /\ started' = FALSE /\ retryPending' = FALSE
  /\ forgetting' = (status = "busy")
  /\ blocked' = StaysBlocked(status)
  /\ resetting' = (resetting /\ status # "ok")
  /\ known' = (known /\ status # "ok")
  /\ IF status = "ok" /\ link = "connected"
     THEN link' = "ready" /\ queue' = <<Gone>> /\ rested' = FALSE
     ELSE UNCHANGED <<link, queue, rested>>
  /\ UNCHANGED <<pad, draining, previous, pairing, retryAge, retryDelay, attempts>>

\* A known peer that asks to pair again while the console reconnects.
Repairs(pending) == known /\ pending /\ started /\ ~approved

\* service_profile_state while a connection is under way.
ServiceBusy(pending, authorizeOK) ==
  LET sent == authorized /\ ~Repairs(pending)
  IN /\ link = "busy" /\ Release
     /\ approved' = (approved \/ Repairs(pending))
     /\ authorized' = (pending /\ (sent \/ (approved' /\ authorizeOK)))
     /\ UNCHANGED <<sameGeneration, draining, automatic, requested, retry, attempts,
                    blocked>>

\* ... while connected: nothing is left to do but read the snapshots.
ServiceConnected(pending) ==
  /\ link = "connected" /\ draining' = TRUE
  /\ started' = FALSE /\ retryPending' = FALSE
  /\ requested' = FALSE /\ approved' = FALSE
  /\ authorized' = (pending /\ authorized /\ ~Repairs(pending))
  /\ UNCHANGED <<sameGeneration, automatic, retryAge, retryDelay, attempts, blocked>>

\* ... while ready, what concerns pairing: the window of an empty bond, or of a
\* request, is opened; a pairing that waits is authorized once.
AsksFirst == automatic /\ ~known

ReadyPairing(pending, window, openOK, authorizeOK) ==
  LET wanted == requested \/ AsksFirst
      opened == wanted /\ openOK
      again  == known /\ pending /\ started /\ ~(approved /\ ~AsksFirst)
      agreed == (approved /\ ~AsksFirst) \/ again \/ opened
      sent   == authorized /\ ~AsksFirst /\ ~again /\ ~opened
  IN /\ automatic' = FALSE
     /\ requested' = (wanted /\ ~openOK)
     /\ authorized' = (pending /\ (sent \/ (agreed /\ authorizeOK)))
     /\ approved' = (agreed /\ (opened \/ window \/ pending \/ known))
     /\ blocked' = (blocked /\ ~AsksFirst)

\* ... and what concerns reconnection: a peer just gone gets GraceDelay to come
\* back by itself, an attempt that ended waits RetryDelay.
EntersReady == previous # "ready" /\ known /\ ~started /\ ~retryPending

\* The timer schedule_reconnect has set, or sets now.  The mutations: an attempt
\* that ended sets none, every call starts it again, its delay grows.
WaitsUnlessEnded == EntersReady \/ (retryPending /\ ~AsksFirst)

Waits == started \/ EntersReady \/ (retryPending /\ ~AsksFirst)

AgeRestarted == 0

Age == IF started \/ EntersReady THEN 0 ELSE retryAge

DelayGrows ==
  IF started THEN retryDelay + RetryDelay
  ELSE IF EntersReady THEN GraceDelay ELSE retryDelay

Delay == IF started THEN RetryDelay ELSE IF EntersReady THEN GraceDelay ELSE retryDelay

ReadyReconnects(reconnectOK) ==
  LET tries == /\ known /\ ~requested' /\ ~blocked'
               /\ Waits => Age >= Delay
  IN /\ started' = (tries /\ reconnectOK)
     /\ retryPending' = IF tries THEN ~reconnectOK ELSE Waits
     /\ retryAge' = IF tries THEN 0 ELSE Age
     /\ retryDelay' = IF tries /\ ~reconnectOK THEN RetryDelay ELSE Delay
     /\ attempt' = IF tries THEN ~attempt ELSE attempt
     /\ sinceAttempt' = IF tries THEN 0 ELSE sinceAttempt
     /\ askedSince' = ((askedSince \/ AsksFirst) /\ ~tries)

ServiceReady(pending, window, openOK, authorizeOK, reconnectOK) ==
  /\ link = "ready" /\ Release
  /\ ReadyPairing(pending, window, openOK, authorizeOK)
  /\ ReadyReconnects(reconnectOK)
  /\ UNCHANGED <<sameGeneration, draining>>

\* The service reads the profile's state.  That the poll lost events releases
\* everything; pending and window are what the profile says of its pairing.
ServiceProfile(overflow, pending) ==
  /\ ~draining /\ ~forgetting
  /\ previous' = link
  /\ \/ \E authorizeOK \in BOOLEAN : ServiceBusy(pending, authorizeOK)
     \/ ServiceConnected(pending) /\ IF overflow THEN Release
                                      ELSE UNCHANGED <<actions, neutralSeen>>
     \/ \E window, openOK, authorizeOK, reconnectOK \in BOOLEAN :
          ServiceReady(pending, window, openOK, authorizeOK, reconnectOK)
  /\ UNCHANGED <<profile, forgetting, resetting>>

\* The mutation: a connection counts at once.
AcceptAtOnce(p) ==
  /\ sameGeneration' = TRUE
  /\ neutralSeen' = TRUE
  /\ actions' = MapSnapshot(p)

\* accept_snapshot for one that is connected: nothing is held before a
\* connection has shown the pad at rest.
Accept(p) ==
  LET rest == neutralSeen /\ sameGeneration
  IN /\ sameGeneration' = TRUE
     /\ neutralSeen' = (rest \/ Neutral(p))
     /\ actions' = IF rest THEN MapSnapshot(p) ELSE {}

\* A loss or a disconnection releases everything.  The mutation passes it over.
MissedUnseen == UNCHANGED inputs

Missed == Release /\ UNCHANGED sameGeneration

\* drain_snapshots, one hal_gamepad_snapshot_next.
DrainNext ==
  /\ draining /\ link = "connected" /\ queue # <<>>
  /\ queue' = Tail(queue)
  /\ IF Head(queue).type = "report"
     THEN Accept(Head(queue).pad)
     ELSE Missed
  /\ UNCHANGED <<link, known, pad, rested, draining, previous, pairing, retry,
                 attempts, reset>>

\* It is empty, or it fails: as it does when the link has just gone down.
DrainEnds ==
  /\ draining /\ draining' = FALSE
  /\ \/ link = "connected" /\ queue = <<>> /\ UNCHANGED <<actions, neutralSeen>>
     \/ Release
  /\ UNCHANGED <<profile, sameGeneration, previous, pairing, retry, attempts, reset>>

-----------------------------------------------------------------------------

Next ==
  \/ Settle \/ LinkUp \/ LinkDown \/ Tick
  \/ \E p \in Pads : PadReports(p)
  \/ RequestPairing \/ RequestForget
  \/ ServiceFails
  \/ \E status \in {"ok", "busy", "error"} : ServiceForgets(status)
  \/ \E overflow, pending \in BOOLEAN : ServiceProfile(overflow, pending)
  \/ DrainNext \/ DrainEnds

\* Time passes, the service is called every poll, and the profile does not
\* fail every one of its calls.
Fairness ==
  /\ WF_vars(Tick)
  /\ WF_vars(DrainNext) /\ WF_vars(DrainEnds)
  /\ SF_vars(\E pending \in BOOLEAN : ServiceProfile(FALSE, pending))

Spec == Init /\ [][Next]_vars /\ Fairness

-----------------------------------------------------------------------------

ProfileOK ==
  /\ link \in LinkStates /\ known \in BOOLEAN /\ queue \in Seq(Entries)
  /\ pad \in Pads /\ rested \in BOOLEAN
InputsOK ==
  /\ actions \subseteq Directions \cup Buttons
  /\ neutralSeen \in BOOLEAN /\ sameGeneration \in BOOLEAN
PairingOK ==
  /\ automatic \in BOOLEAN /\ requested \in BOOLEAN /\ approved \in BOOLEAN
  /\ authorized \in BOOLEAN
RetryOK ==
  /\ started \in BOOLEAN /\ retryPending \in BOOLEAN
  /\ retryAge \in 0 .. GraceDelay /\ retryDelay \in {0, GraceDelay, RetryDelay}
AttemptsOK ==
  /\ attempt \in BOOLEAN /\ sinceAttempt \in 0 .. RetryDelay /\ askedSince \in BOOLEAN
ResetOK == forgetting \in BOOLEAN /\ blocked \in BOOLEAN /\ resetting \in BOOLEAN

\* The variables stay within what the source can store in them.
TypeOK ==
  /\ ProfileOK /\ InputsOK /\ PairingOK /\ RetryOK /\ AttemptsOK /\ ResetOK
  /\ draining \in BOOLEAN /\ previous \in LinkStates

Read == link = "connected" /\ queue = <<>>

\* No action stays held that the player has let go of: once the service has
\* read every snapshot of a connection, lost ones and an earlier connection's
\* end included, what it returns is what the pad holds, or nothing.
NoStuckAction == Read => actions \in {{}, MapSnapshot(pad)}

\* After a connection, and after any loss, an action counts only once the pad
\* has been seen at rest (src/hardware_layout.md: "accepts input only after
\* receiving a neutral snapshot for each new connection generation").
NeutralFirst == Read /\ actions # {} => rested

\* Attempts to reconnect leave RetryDelay between them, whatever the link, the
\* reset and the timer do; only a request for pairing starts afresh.
RetryPaced ==
  [][attempt' # attempt => sinceAttempt >= RetryDelay \/ askedSince]_vars

\* Between a factory reset and its success there is no reconnection, until a
\* pairing is asked for (src/hardware_layout.md: "If persistent erase fails,
\* automatic reconnect remains blocked until the operator retries factory reset
\* or explicitly starts a new pairing operation").
ResetHolds == [][attempt' # attempt => ~resetting]_vars

Away == link = "ready" /\ known /\ ~resetting /\ ~requested

\* A bonded pad that stays away is called again and again.
ReconnectComes == <>[]Away => []<><<attempt' # attempt>>_vars

=============================================================================
