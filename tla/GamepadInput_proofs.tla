------------------------ MODULE GamepadInput_proofs ------------------------
(* The gamepad service, for any buttons, queue length and delays: reconnects *)
(* keep their distance and their ban, and no held action is invented.        *)
EXTENDS GamepadInput, FiniteSetTheorems, SequenceTheorems, TLAPS

-----------------------------------------------------------------------------
\* A factory reset.  It is asked for on the pad, which is bonded then, and it
\* blocks reconnection until it succeeds and the bond is gone.

ResetInv ==
  /\ link = "connected" \/ actions # {} => known
  /\ resetting => blocked /\ known

\* Every step keeps it and, while a reset is in hand, reconnects nobody.
LEMMA ResetStep ==
  ASSUME ResetInv, [Next]_vars
  PROVE  ResetInv' /\ (attempt' # attempt => ~resetting)
<1> USE DEF ResetInv
<1>1. CASE \/ Settle \/ LinkUp \/ LinkDown \/ Tick \/ \E p \in Pads : PadReports(p)
           \/ RequestPairing \/ RequestForget \/ ServiceFails \/ UNCHANGED vars
  BY <1>1 DEF Settle, LinkUp, LinkDown, Tick, PadReports, RequestPairing, RequestForget,
    ServiceFails, Release, vars, profile, inputs, pairing, retry, attempts, reset
<1>2. CASE \E status \in {"ok", "busy", "error"} : ServiceForgets(status)
  BY <1>2 DEF ServiceForgets, StaysBlocked, Release, profile, inputs, pairing, retry,
    attempts, reset
<1>3. CASE \E overflow, pending \in BOOLEAN : ServiceProfile(overflow, pending)
  <2> PICK overflow \in BOOLEAN, pending \in BOOLEAN : ServiceProfile(overflow, pending)
    BY <1>3
  <2>0. UNCHANGED <<profile, forgetting, resetting>>
    BY DEF ServiceProfile
  <2>1. CASE \E authorizeOK \in BOOLEAN : ServiceBusy(pending, authorizeOK)
    BY <2>0, <2>1 DEF ServiceBusy, Release, profile, attempts
  <2>2. CASE ServiceConnected(pending) /\ IF overflow THEN Release
                                          ELSE UNCHANGED <<actions, neutralSeen>>
    BY <2>0, <2>2 DEF ServiceConnected, Release, profile, attempts
  <2>3. CASE \E window, openOK, authorizeOK, reconnectOK \in BOOLEAN :
               ServiceReady(pending, window, openOK, authorizeOK, reconnectOK)
    <3>1. PICK window \in BOOLEAN, openOK \in BOOLEAN, authorizeOK \in BOOLEAN,
               reconnectOK \in BOOLEAN :
            ServiceReady(pending, window, openOK, authorizeOK, reconnectOK)
      BY <2>3
    <3>2. blocked' = (blocked /\ ~AsksFirst) /\ actions' = {} /\ link = "ready"
      BY <3>1 DEF ServiceReady, ReadyPairing, Release
    <3>3. attempt' # attempt => known /\ ~blocked'
      BY <3>1 DEF ServiceReady, ReadyReconnects
    <3> QED
      BY <2>0, <3>2, <3>3 DEF profile, AsksFirst
  <2> QED
    BY <2>1, <2>2, <2>3 DEF ServiceProfile
<1>4. CASE DrainNext \/ DrainEnds
  BY <1>4 DEF DrainNext, DrainEnds, Accept, Missed, Release, profile, inputs, pairing,
    retry, attempts, reset
<1> QED
  BY <1>1, <1>2, <1>3, <1>4 DEF Next

\* Between a factory reset and its success no reconnection is attempted, unless a
\* pairing is asked for.
THEOREM ResetHoldsCorrect == Spec => ResetHolds
<1>1. Init => ResetInv
  BY DEF Init, ResetInv
<1>2. ResetInv /\ [Next]_vars => ResetInv' /\ (attempt' # attempt => ~resetting)
  BY ResetStep
<1>3. ResetInv /\ [Next]_vars => [attempt' # attempt => ~resetting]_vars
  BY <1>2
<1> QED
  BY <1>1, <1>2, <1>3, PTL DEF Spec, ResetHolds

-----------------------------------------------------------------------------
\* Types.

\* What the profile's queue holds stays a sequence of its entries.
LEMMA QueueType ==
  ASSUME NEW q \in Seq(Entries), NEW p \in Pads
  PROVE  /\ Append(q, Report(p)) \in Seq(Entries) /\ Append(q, Lost) \in Seq(Entries)
         /\ <<Gone>> \in Seq(Entries)
         /\ q # <<>> => Tail(q) \in Seq(Entries) /\ Head(q) \in Entries
         /\ LostFirst(q) \in Seq(Entries)
         /\ Full(q) => q # <<>> /\ WithoutOldest(q) \in Seq(Entries)
<1>1. Report(p) \in Entries /\ Lost \in Entries /\ Gone \in Entries
  BY DEF Entries, Report
<1>2. /\ Append(q, Report(p)) \in Seq(Entries) /\ Append(q, Lost) \in Seq(Entries)
      /\ <<Gone>> \in Seq(Entries) /\ <<Lost>> \in Seq(Entries)
      /\ q # <<>> => Tail(q) \in Seq(Entries) /\ Head(q) \in Entries
  BY <1>1
<1>3. LostFirst(q) \in Seq(Entries)
  BY <1>1, <1>2 DEF LostFirst
<1>4. ASSUME Full(q) PROVE \E i \in DOMAIN q : q[i] # Lost
  <2>1. Snapshots(q) # {}
    <3>1. SUFFICES ASSUME Snapshots(q) = {} PROVE FALSE
      OBVIOUS
    <3>2. Cardinality(Snapshots(q)) = 0
      BY <3>1, FS_EmptySet
    <3> QED
      BY <1>4, <3>2, NumbersAssumption DEF Full
  <2> QED
    BY <2>1 DEF Snapshots
<1>5. ASSUME Full(q) PROVE q # <<>> /\ WithoutOldest(q) \in Seq(Entries)
  <2>1. PICK i \in 1 .. Len(q) : q[i] # Lost
    BY <1>4, <1>5
  <2>2. q # <<>> /\ (Head(q) = Lost => Len(q) > 1)
    BY <2>1
  <2>3. Head(q) = Lost => Tail(q) # <<>> /\ Tail(q) \in Seq(Entries)
    <3>1. Len(Tail(q)) = Len(q) - 1 /\ Tail(q) \in Seq(Entries)
      BY <2>2, HeadTailProperties
    <3>2. Head(q) = Lost => Len(Tail(q)) > 0
      BY <2>2, <3>1
    <3>3. Tail(q) = <<>> <=> Len(Tail(q)) = 0
      BY <3>1, EmptySeq
    <3> QED
      BY <3>1, <3>2, <3>3
  <2>4. Head(q) = Lost => Tail(Tail(q)) \in Seq(Entries)
    BY <2>3, HeadTailProperties
  <2> QED
    BY <1>2, <2>2, <2>4 DEF WithoutOldest
<1> QED
  BY <1>2, <1>3, <1>5

\* What a snapshot is mapped to are actions.
LEMMA MapType ==
  ASSUME NEW p \in Pads
  PROVE  MapSnapshot(p) \subseteq Directions \cup Buttons
  BY PadsAssumption DEF MapSnapshot, Steered, Directions

\* The variables that the service's reconnection timer consists of.
LEMMA TimerType ==
  ASSUME TypeOK, NEW reconnectOK \in BOOLEAN, ReadyReconnects(reconnectOK),
         requested' \in BOOLEAN, blocked' \in BOOLEAN
  PROVE  RetryOK' /\ AttemptsOK'
<1> DEFINE tries == known /\ ~requested' /\ ~blocked' /\ (Waits => Age >= Delay)
<1>1. /\ started' = (tries /\ reconnectOK)
      /\ retryPending' = IF tries THEN ~reconnectOK ELSE Waits
      /\ attempt' = IF tries THEN ~attempt ELSE attempt
      /\ askedSince' = ((askedSince \/ AsksFirst) /\ ~tries)
  BY DEF ReadyReconnects
<1>2. /\ retryAge' \in {0, Age} /\ retryDelay' \in {RetryDelay, Delay}
      /\ sinceAttempt' \in {0, sinceAttempt}
  BY DEF ReadyReconnects
<1>3. Age \in {0, retryAge} /\ Delay \in {RetryDelay, GraceDelay, retryDelay}
  BY DEF Age, Delay
<1>4. Waits \in BOOLEAN /\ AsksFirst \in BOOLEAN
  BY DEF Waits, AsksFirst, EntersReady, TypeOK, RetryOK, PairingOK, ProfileOK
<1>5. attempt \in BOOLEAN /\ askedSince \in BOOLEAN /\ retryAge \in 0 .. GraceDelay
      /\ retryDelay \in {0, GraceDelay, RetryDelay} /\ sinceAttempt \in 0 .. RetryDelay
  BY DEF TypeOK, RetryOK, AttemptsOK
<1>6. 0 \in 0 .. GraceDelay /\ 0 \in 0 .. RetryDelay
  BY NumbersAssumption
<1> HIDE DEF tries
<1>7. started' \in BOOLEAN /\ retryPending' \in BOOLEAN /\ attempt' \in BOOLEAN
      /\ askedSince' \in BOOLEAN
  <2>1. CASE tries
    BY <1>1, <1>4, <1>5, <2>1
  <2>2. CASE ~tries
    BY <1>1, <1>4, <1>5, <2>2
  <2> QED
    BY <2>1, <2>2
<1> QED
  BY <1>2, <1>3, <1>5, <1>6, <1>7 DEF RetryOK, AttemptsOK

\* What does not change keeps its type.
LEMMA TypeStays ==
  ASSUME TypeOK
  PROVE  /\ UNCHANGED profile => ProfileOK'
         /\ UNCHANGED inputs => InputsOK'
         /\ UNCHANGED pairing => PairingOK'
         /\ UNCHANGED retry => RetryOK'
         /\ UNCHANGED attempts => AttemptsOK'
         /\ UNCHANGED reset => ResetOK'
         /\ UNCHANGED draining => draining' \in BOOLEAN
         /\ UNCHANGED previous => previous' \in LinkStates
<1> USE DEF TypeOK
<1>1. UNCHANGED profile => ProfileOK'
  BY DEF profile, ProfileOK
<1>2. UNCHANGED inputs => InputsOK'
  BY DEF inputs, InputsOK
<1>3. UNCHANGED pairing => PairingOK'
  BY DEF pairing, PairingOK
<1>4. UNCHANGED retry => RetryOK'
  BY DEF retry, RetryOK
<1>5. UNCHANGED attempts => AttemptsOK'
  BY DEF attempts, AttemptsOK
<1>6. UNCHANGED reset => ResetOK'
  BY DEF reset, ResetOK
<1> QED
  BY <1>1, <1>2, <1>3, <1>4, <1>5, <1>6

\* Every step keeps the types.
LEMMA TypeStep ==
  ASSUME TypeOK, [Next]_vars
  PROVE  TypeOK'
<1>0. ProfileOK /\ InputsOK /\ PairingOK /\ RetryOK /\ AttemptsOK /\ ResetOK
  BY DEF TypeOK
<1>1. CASE UNCHANGED vars
  BY <1>1, TypeStays DEF vars, TypeOK
<1>2. CASE Settle \/ LinkUp \/ LinkDown
  <2>1. queue' \in Seq(Entries)
    BY <1>0, <1>2, <1>0, QueueType DEF Settle, LinkUp, LinkDown, ProfileOK, Entries
  <2>2. ProfileOK'
    BY <1>0, <1>2, <2>1 DEF Settle, LinkUp, LinkDown, ProfileOK, LinkStates
  <2>3. InputsOK'
    BY <1>0, <1>2 DEF Settle, LinkUp, LinkDown, InputsOK, inputs
  <2> QED
    BY <1>2, <2>2, <2>3, TypeStays DEF Settle, LinkUp, LinkDown, TypeOK
<1>3. CASE Tick
  <2>1. retryAge' \in 0 .. GraceDelay /\ sinceAttempt' \in 0 .. RetryDelay
    BY <1>0, <1>3, NumbersAssumption DEF Tick, RetryOK, AttemptsOK
  <2>2. RetryOK' /\ AttemptsOK'
    BY <1>0, <1>3, <2>1 DEF Tick, RetryOK, AttemptsOK
  <2> QED
    BY <1>3, <2>2, TypeStays DEF Tick, TypeOK
<1>4. ASSUME NEW p \in Pads, PadReports(p) PROVE TypeOK'
  <2>1. queue' \in Seq(Entries)
    BY <1>0, <1>4, QueueType DEF PadReports, ProfileOK
  <2>2. rested' \in BOOLEAN
    BY <1>4 DEF PadReports, RestIn, TypeOK
  <2>3. ProfileOK'
    BY <1>0, <1>4, <2>1, <2>2 DEF PadReports, ProfileOK
  <2> QED
    BY <1>4, <2>3, TypeStays DEF PadReports, TypeOK
<1>5. CASE RequestPairing
  <2>1. PairingOK' /\ RetryOK' /\ AttemptsOK' /\ ResetOK'
    BY <1>0, <1>5 DEF RequestPairing, PairingOK, RetryOK, AttemptsOK, ResetOK
  <2> QED
    BY <1>5, <2>1, TypeStays DEF RequestPairing, TypeOK
<1>6. CASE RequestForget
  <2>1. PairingOK' /\ RetryOK' /\ ResetOK'
    BY <1>0, <1>6 DEF RequestForget, PairingOK, RetryOK, ResetOK
  <2> QED
    BY <1>6, <2>1, TypeStays DEF RequestForget, TypeOK
<1>7. CASE ServiceFails
  <2>1. InputsOK'
    BY <1>0, <1>7 DEF ServiceFails, Release, InputsOK
  <2> QED
    BY <1>7, <2>1, TypeStays DEF ServiceFails, TypeOK
<1>8. ASSUME NEW status \in {"ok", "busy", "error"}, ServiceForgets(status) PROVE TypeOK'
  <2>1. queue' \in Seq(Entries)
    BY <1>0, <1>8, QueueType DEF ServiceForgets, ProfileOK
  <2>2. ProfileOK'
    BY <1>0, <1>8, <2>1 DEF ServiceForgets, ProfileOK, LinkStates
  <2>3. InputsOK' /\ RetryOK' /\ ResetOK'
    BY <1>0, <1>8 DEF ServiceForgets, StaysBlocked, Release, InputsOK, RetryOK, ResetOK
  <2> QED
    BY <1>8, <2>2, <2>3, TypeStays DEF ServiceForgets, TypeOK
<1>9. ASSUME NEW overflow \in BOOLEAN, NEW pending \in BOOLEAN,
             ServiceProfile(overflow, pending)
      PROVE  TypeOK'
  <2>0. /\ previous' \in LinkStates /\ ProfileOK' /\ forgetting' \in BOOLEAN
        /\ resetting' \in BOOLEAN
    <3>1. previous' = link /\ UNCHANGED <<profile, forgetting, resetting>>
      BY <1>9 DEF ServiceProfile
    <3> QED
      BY <1>0, <3>1, TypeStays DEF ProfileOK, ResetOK, profile
  <2>1. CASE \E authorizeOK \in BOOLEAN : ServiceBusy(pending, authorizeOK)
    <3>1. InputsOK' /\ ResetOK'
      BY <1>0, <2>0, <2>1 DEF ServiceBusy, Release, InputsOK, ResetOK
    <3>2. PairingOK'
      BY <1>0, <2>1 DEF ServiceBusy, Repairs, PairingOK
    <3> QED
      BY <2>0, <2>1, <3>1, <3>2, TypeStays DEF ServiceBusy, TypeOK
  <2>2. CASE ServiceConnected(pending) /\ IF overflow THEN Release
                                          ELSE UNCHANGED <<actions, neutralSeen>>
    <3>1. InputsOK' /\ ResetOK'
      BY <1>0, <2>0, <2>2 DEF ServiceConnected, Release, InputsOK, ResetOK
    <3>2. PairingOK' /\ RetryOK'
      BY <1>0, <2>2 DEF ServiceConnected, Repairs, PairingOK, RetryOK
    <3> QED
      BY <2>0, <2>2, <3>1, <3>2, TypeStays DEF ServiceConnected, TypeOK
  <2>3. ASSUME NEW window \in BOOLEAN, NEW openOK \in BOOLEAN, NEW authorizeOK \in BOOLEAN,
               NEW reconnectOK \in BOOLEAN,
               ServiceReady(pending, window, openOK, authorizeOK, reconnectOK)
        PROVE  TypeOK'
    <3>1. PairingOK' /\ blocked' \in BOOLEAN
      BY <2>3 DEF ServiceReady, ReadyPairing, PairingOK
    <3>2. RetryOK' /\ AttemptsOK'
      BY <2>3, <3>1, TimerType DEF ServiceReady, PairingOK
    <3>3. InputsOK' /\ UNCHANGED draining
      BY <1>0, <2>3 DEF ServiceReady, Release, InputsOK
    <3> QED
      BY <2>0, <3>1, <3>2, <3>3, TypeStays DEF TypeOK, ResetOK
  <2> QED
    BY <1>9, <2>1, <2>2, <2>3 DEF ServiceProfile
<1>10. CASE DrainNext
  <2>1. queue' \in Seq(Entries) /\ Head(queue) \in Entries
    BY <1>0, <1>10, HeadTailProperties DEF DrainNext, ProfileOK
  <2>2. ASSUME Head(queue).type = "report" PROVE Head(queue).pad \in Pads
    BY <2>1, <2>2 DEF Entries, Gone, Lost
  <2>3. InputsOK'
    BY <1>0, <1>10, <2>2, MapType DEF DrainNext, Accept, Missed, Release, Neutral, InputsOK
  <2>4. ProfileOK'
    BY <1>0, <1>10, <2>1 DEF DrainNext, ProfileOK
  <2> QED
    BY <1>10, <2>3, <2>4, TypeStays DEF DrainNext, TypeOK
<1>11. CASE DrainEnds
  <2>1. InputsOK'
    BY <1>0, <1>11 DEF DrainEnds, Release, InputsOK
  <2> QED
    BY <1>11, <2>1, TypeStays DEF DrainEnds, TypeOK
<1> QED
  BY <1>1, <1>2, <1>3, <1>4, <1>5, <1>6, <1>7, <1>8, <1>9, <1>10, <1>11 DEF Next

\* The variables stay within what the source can store in them.
THEOREM TypeCorrect == Spec => []TypeOK
<1>1. Init => TypeOK
  <2> SUFFICES ASSUME Init PROVE TypeOK
    OBVIOUS
  <2>1. queue \in Seq(Entries)
    BY DEF Init
  <2>2. ProfileOK
    BY <2>1 DEF Init, ProfileOK, LinkStates
  <2>3. InputsOK
    BY DEF Init, InputsOK
  <2>4. PairingOK
    BY DEF Init, PairingOK
  <2>5. 0 \in 0 .. GraceDelay /\ RetryDelay \in 0 .. RetryDelay
    BY NumbersAssumption
  <2>6. RetryOK
    BY <2>5 DEF Init, RetryOK
  <2>7. AttemptsOK
    BY <2>5 DEF Init, AttemptsOK
  <2>8. ResetOK
    BY DEF Init, ResetOK
  <2> QED
    BY <2>2, <2>3, <2>4, <2>6, <2>7, <2>8 DEF Init, TypeOK, LinkStates
<1>2. TypeOK /\ [Next]_vars => TypeOK'
  BY TypeStep
<1> QED
  BY <1>1, <1>2, PTL DEF Spec

-----------------------------------------------------------------------------
\* The distance of reconnections.

\* Another attempt may be made: a pairing has been asked for, or time enough has
\* passed.
Afresh == askedSince \/ sinceAttempt >= RetryDelay

\* When it may not, the timer that is running has not run longer than that; a
\* ready state that was seen has left a timer, an attempt or a block; and without
\* a bond, or before a reset, nothing is under way that could bring a connection.
RetryInv ==
  /\ link = "connected" => known
  /\ retryPending /\ ~Afresh => retryAge <= sinceAttempt /\ retryDelay >= RetryDelay
  /\ previous = "ready" /\ known /\ ~started /\ ~retryPending /\ ~blocked => Afresh
  /\ ~known /\ ~Afresh => ~requested /\ ~approved /\ ~authorized
  /\ forgetting /\ ~Afresh => ~requested /\ ~approved /\ ~authorized /\ blocked

\* What the timer reads, as numbers.
LEMMA RetryNumbers ==
  ASSUME TypeOK
  PROVE  /\ retryAge \in Int /\ retryAge >= 0 /\ sinceAttempt \in Int /\ sinceAttempt >= 0
         /\ sinceAttempt <= RetryDelay
         /\ RetryDelay \in Int /\ RetryDelay > 0 /\ GraceDelay \in Int
         /\ GraceDelay >= RetryDelay /\ retryDelay \in Int
  BY NumbersAssumption DEF TypeOK, RetryOK, AttemptsOK

\* The service that finds the profile ready attempts to reconnect only afresh.
LEMMA ReadyPaced ==
  ASSUME TypeOK, RetryInv, NEW pending \in BOOLEAN, NEW window \in BOOLEAN,
         NEW openOK \in BOOLEAN, NEW authorizeOK \in BOOLEAN, NEW reconnectOK \in BOOLEAN,
         ServiceReady(pending, window, openOK, authorizeOK, reconnectOK),
         ~forgetting, previous' = link, UNCHANGED <<profile, forgetting, resetting>>
  PROVE  RetryInv' /\ (attempt' # attempt => Afresh)
<1> DEFINE tries == known /\ ~requested' /\ ~blocked' /\ (Waits => Age >= Delay)
<1>1. /\ link = "ready" /\ link' = "ready" /\ previous' = "ready" /\ known' = known
      /\ ~forgetting'
  BY DEF ServiceReady, profile
<1>2. /\ started' = (tries /\ reconnectOK)
      /\ retryPending' = IF tries THEN ~reconnectOK ELSE Waits
      /\ retryAge' = IF tries THEN 0 ELSE Age
      /\ retryDelay' = IF tries /\ ~reconnectOK THEN RetryDelay ELSE Delay
      /\ attempt' = IF tries THEN ~attempt ELSE attempt
      /\ sinceAttempt' = IF tries THEN 0 ELSE sinceAttempt
      /\ askedSince' = ((askedSince \/ AsksFirst) /\ ~tries)
  BY DEF ServiceReady, ReadyReconnects
<1>3. /\ blocked' = (blocked /\ ~AsksFirst)
      /\ ~known /\ ~AsksFirst /\ ~requested /\ ~approved /\ ~authorized =>
           ~requested' /\ ~approved' /\ ~authorized'
  BY DEF ServiceReady, ReadyPairing
<1>4. AsksFirst => ~known
  BY DEF AsksFirst
<1>5. /\ Waits <=> (started \/ EntersReady \/ (retryPending /\ ~AsksFirst))
      /\ Age = (IF started \/ EntersReady THEN 0 ELSE retryAge)
      /\ Delay = (IF started THEN RetryDelay ELSE IF EntersReady THEN GraceDelay
                                                            ELSE retryDelay)
      /\ EntersReady <=> (previous # "ready" /\ known /\ ~started /\ ~retryPending)
  BY DEF Waits, Age, Delay, EntersReady
<1>6. tries => Afresh
  <2> SUFFICES ASSUME tries, ~Afresh PROVE FALSE
    OBVIOUS
  <2>1. ~started /\ ~EntersReady
    BY <1>5, RetryNumbers
  <2>2. ~retryPending
    BY <1>4, <1>5, <2>1, RetryNumbers DEF RetryInv, Afresh
  <2>3. previous = "ready" /\ ~blocked
    BY <1>3, <1>4, <1>5, <2>1, <2>2
  <2> QED
    BY <2>1, <2>2, <2>3 DEF RetryInv
<1> HIDE DEF tries
<1>7. CASE tries
  <2>1. ~Afresh' => retryAge' <= sinceAttempt' /\ (retryPending' => retryDelay' >= RetryDelay)
    BY <1>2, <1>7, RetryNumbers DEF Afresh
  <2>2. started' \/ retryPending'
    BY <1>2, <1>7
  <2>3. known
    BY <1>7 DEF tries
  <2> QED
    BY <1>1, <1>6, <1>7, <2>1, <2>2, <2>3 DEF RetryInv
<1>8. CASE ~tries
  <2>1. attempt' = attempt /\ ~started' /\ retryPending' = Waits /\ sinceAttempt' = sinceAttempt
    BY <1>2, <1>8
  <2>2. Afresh' = (Afresh \/ AsksFirst)
    BY <1>2, <1>8 DEF Afresh
  <2>3. retryPending' /\ ~Afresh' => retryAge' <= sinceAttempt' /\ retryDelay' >= RetryDelay
    <3>1. retryAge' = Age /\ retryDelay' = Delay
      BY <1>2, <1>8
    <3>2. CASE started \/ EntersReady
      BY <1>5, <2>1, <3>1, <3>2, RetryNumbers
    <3>3. CASE ~started /\ ~EntersReady
      BY <1>5, <2>1, <2>2, <3>1, <3>3, RetryNumbers DEF RetryInv
    <3> QED
      BY <3>2, <3>3
  <2>4. known /\ ~Waits /\ ~blocked' => Afresh'
    BY <1>3, <1>4, <1>5, <2>2 DEF RetryInv
  <2>5. ~known /\ ~Afresh' => ~requested' /\ ~approved' /\ ~authorized'
    BY <1>3, <2>2 DEF RetryInv
  <2> QED
    BY <1>1, <2>1, <2>3, <2>4, <2>5 DEF RetryInv
<1> QED
  BY <1>7, <1>8

\* Every step keeps the invariant and the distance.
LEMMA RetryStep ==
  ASSUME TypeOK, RetryInv, [Next]_vars
  PROVE  RetryInv' /\ (attempt' # attempt => Afresh)
<1>1. CASE \/ Settle \/ LinkUp \/ LinkDown \/ \E p \in Pads : PadReports(p)
           \/ ServiceFails \/ UNCHANGED vars
  BY <1>1 DEF Settle, LinkUp, LinkDown, PadReports, ServiceFails, vars, profile, pairing,
    retry, attempts, reset, RetryInv, Afresh
<1>2. CASE Tick
  <2>1. /\ retryAge' = IF retryPending /\ retryAge < GraceDelay THEN retryAge + 1 ELSE retryAge
        /\ sinceAttempt' = IF sinceAttempt < RetryDelay THEN sinceAttempt + 1
                                                        ELSE sinceAttempt
        /\ retryPending' = retryPending /\ retryDelay' = retryDelay
        /\ askedSince' = askedSince
    BY <1>2 DEF Tick, retry
  <2>2. Afresh => Afresh'
    BY <2>1, RetryNumbers DEF Afresh
  <2>3. retryPending' /\ ~Afresh' => retryAge' <= sinceAttempt' /\ retryDelay' >= RetryDelay
    BY <2>1, <2>2, RetryNumbers DEF RetryInv, Afresh
  <2> QED
    BY <1>2, <2>2, <2>3 DEF Tick, profile, pairing, reset, RetryInv
<1>3. CASE RequestPairing \/ RequestForget
  BY <1>3 DEF RequestPairing, RequestForget, profile, attempts, RetryInv, Afresh
<1>4. CASE \E status \in {"ok", "busy", "error"} : ServiceForgets(status)
  <2>1. PICK status \in {"ok", "busy", "error"} : ServiceForgets(status)
    BY <1>4
  <2>2. /\ forgetting /\ UNCHANGED <<requested, approved, authorized, previous>>
        /\ UNCHANGED <<sinceAttempt, askedSince, attempt>>
        /\ ~retryPending' /\ (known' => known) /\ (link' = "connected" => link = "connected")
    BY <2>1 DEF ServiceForgets, pairing, attempts
  <2>3. Afresh' <=> Afresh
    BY <2>2 DEF Afresh
  <2>4. CASE status = "ok"
    <3>1. ~known' /\ link' # "connected" /\ ~forgetting'
      BY <2>1, <2>4 DEF ServiceForgets
    <3> QED
      BY <2>2, <2>3, <3>1 DEF RetryInv
  <2>5. CASE status # "ok"
    <3>1. (known' <=> known) /\ (blocked => blocked') /\ link' = link
      BY <2>1, <2>5 DEF ServiceForgets, StaysBlocked
    <3> QED
      BY <2>2, <2>3, <3>1 DEF RetryInv
  <2> QED
    BY <2>4, <2>5
<1>5. CASE \E overflow, pending \in BOOLEAN : ServiceProfile(overflow, pending)
  <2> PICK overflow \in BOOLEAN, pending \in BOOLEAN : ServiceProfile(overflow, pending)
    BY <1>5
  <2>0. ~forgetting /\ previous' = link /\ UNCHANGED <<profile, forgetting, resetting>>
    BY DEF ServiceProfile
  <2>1. CASE \E authorizeOK \in BOOLEAN : ServiceBusy(pending, authorizeOK)
    <3>1. /\ UNCHANGED <<sinceAttempt, askedSince, attempt, started, retryPending, retryAge,
                          retryDelay, blocked, requested, known, link, forgetting>>
          /\ previous' = "busy"
      BY <2>0, <2>1 DEF ServiceBusy, profile, retry, attempts
    <3>2. ~known /\ ~approved /\ ~authorized => ~approved' /\ ~authorized'
      BY <2>1 DEF ServiceBusy, Repairs
    <3>3. Afresh' <=> Afresh
      BY <3>1 DEF Afresh
    <3> QED
      BY <2>0, <3>1, <3>2, <3>3 DEF RetryInv
  <2>2. CASE ServiceConnected(pending)
    BY <2>0, <2>2 DEF ServiceConnected, profile, attempts, RetryInv, Afresh
  <2>3. CASE \E window, openOK, authorizeOK, reconnectOK \in BOOLEAN :
               ServiceReady(pending, window, openOK, authorizeOK, reconnectOK)
    BY <2>0, <2>3, ReadyPaced
  <2> QED
    BY <2>1, <2>2, <2>3 DEF ServiceProfile
<1>6. CASE DrainNext \/ DrainEnds
  BY <1>6 DEF DrainNext, DrainEnds, profile, pairing, retry, attempts, reset, RetryInv, Afresh
<1> QED
  BY <1>1, <1>2, <1>3, <1>4, <1>5, <1>6 DEF Next

\* Attempts to reconnect leave RetryDelay between them, unless a pairing is
\* asked for.
THEOREM RetryPacedCorrect == Spec => RetryPaced
<1>1. Init => RetryInv
  BY DEF Init, RetryInv, Afresh
<1>2. TypeOK /\ RetryInv /\ [Next]_vars =>
        RetryInv' /\ [attempt' # attempt => sinceAttempt >= RetryDelay \/ askedSince]_vars
  BY RetryStep DEF Afresh
<1> QED
  BY <1>1, <1>2, TypeCorrect, PTL DEF Spec, RetryPaced

-----------------------------------------------------------------------------
\* What is held.

\* Of a queue: something is missing in it, and the pad is at rest somewhere with
\* nothing missing after that.
Missing(q) == \E i \in 1 .. Len(q) : q[i].type # "report"

RestLast(q) ==
  \E i \in 1 .. Len(q) :
    /\ q[i].type = "report" /\ Neutral(q[i].pad)
    /\ \A j \in 1 .. Len(q) : j > i => q[j].type = "report"

\* What is at the end of a queue that is added to, ...
LEMMA Added ==
  ASSUME NEW q \in Seq(Entries), NEW e \in Entries
  PROVE  /\ Missing(Append(q, e)) <=> Missing(q) \/ e.type # "report"
         /\ RestLast(Append(q, e)) => e.type = "report" /\ (Neutral(e.pad) \/ RestLast(q))
         /\ Last(Append(q, e)) = e /\ Append(q, e) # <<>>
<1> DEFINE r == Append(q, e)
<1>1. /\ r \in Seq(Entries) /\ Len(r) = Len(q) + 1 /\ Len(q) \in Nat /\ r[Len(q) + 1] = e
      /\ \A i \in 1 .. Len(q) : r[i] = q[i]
  BY AppendProperties, LenProperties
<1> HIDE DEF r
<1>2. Missing(r) <=> Missing(q) \/ e.type # "report"
  BY <1>1 DEF Missing
<1>3. ASSUME RestLast(r) PROVE e.type = "report" /\ (Neutral(e.pad) \/ RestLast(q))
  <2>1. PICK i \in 1 .. Len(r) :
          /\ r[i].type = "report" /\ Neutral(r[i].pad)
          /\ \A j \in 1 .. Len(r) : j > i => r[j].type = "report"
    BY <1>3 DEF RestLast
  <2>2. CASE i = Len(q) + 1
    BY <1>1, <2>1, <2>2
  <2>3. CASE i # Len(q) + 1
    <3>1. i \in 1 .. Len(q) /\ Len(q) + 1 \in 1 .. Len(r) /\ Len(q) + 1 > i
      BY <1>1, <2>3
    <3>2. e.type = "report"
      BY <1>1, <2>1, <3>1
    <3>3. RestLast(q)
      BY <1>1, <2>1, <3>1 DEF RestLast
    <3> QED
      BY <3>2, <3>3
  <2> QED
    BY <2>2, <2>3
<1>4. Last(r) = e /\ r # <<>>
  BY <1>1, EmptySeq DEF Last
<1> QED
  BY <1>2, <1>3, <1>4 DEF r

\* ... and at the end of one whose first is taken.
LEMMA Taken ==
  ASSUME NEW q \in Seq(Entries), q # <<>>
  PROVE  /\ Missing(q) <=> Missing(Tail(q)) \/ Head(q).type # "report"
         /\ RestLast(Tail(q)) => RestLast(q)
         /\ Head(q).type = "report" /\ Neutral(Head(q).pad) /\ ~Missing(Tail(q)) => RestLast(q)
         /\ IF Tail(q) = <<>> THEN Last(q) = Head(q) ELSE Last(Tail(q)) = Last(q)
<1> DEFINE t == Tail(q)
<1>1. /\ t \in Seq(Entries) /\ Len(t) = Len(q) - 1 /\ Len(q) \in Nat \ {0} /\ Head(q) = q[1]
      /\ \A i \in 1 .. Len(t) : t[i] = q[i + 1]
  BY HeadTailProperties, LenProperties, EmptySeq
<1>2. t = <<>> <=> Len(t) = 0
  BY <1>1, EmptySeq
<1>3. \A i \in 2 .. Len(q) : i - 1 \in 1 .. Len(t) /\ t[i - 1] = q[i]
  BY <1>1
<1> HIDE DEF t
<1>4. Missing(q) <=> Missing(t) \/ Head(q).type # "report"
  <2>1. ASSUME Missing(q), Head(q).type = "report" PROVE Missing(t)
    <3>1. PICK i \in 1 .. Len(q) : q[i].type # "report"
      BY <2>1 DEF Missing
    <3>2. i \in 2 .. Len(q)
      BY <1>1, <2>1, <3>1
    <3> QED
      BY <1>3, <3>1, <3>2 DEF Missing
  <2>2. ASSUME Missing(t) PROVE Missing(q)
    <3>1. PICK i \in 1 .. Len(t) : t[i].type # "report"
      BY <2>2 DEF Missing
    <3>2. i + 1 \in 1 .. Len(q) /\ q[i + 1].type # "report"
      BY <1>1, <3>1
    <3> QED
      BY <3>2 DEF Missing
  <2>3. ASSUME Head(q).type # "report" PROVE Missing(q)
    BY <1>1, <2>3 DEF Missing
  <2> QED
    BY <2>1, <2>2, <2>3
<1>5. ASSUME RestLast(t) PROVE RestLast(q)
  <2>1. PICK i \in 1 .. Len(t) :
          /\ t[i].type = "report" /\ Neutral(t[i].pad)
          /\ \A j \in 1 .. Len(t) : j > i => t[j].type = "report"
    BY <1>5 DEF RestLast
  <2>2. i + 1 \in 1 .. Len(q) /\ q[i + 1].type = "report" /\ Neutral(q[i + 1].pad)
    BY <1>1, <2>1
  <2>3. ASSUME NEW j \in 1 .. Len(q), j > i + 1 PROVE q[j].type = "report"
    <3>1. j \in 2 .. Len(q) /\ j - 1 > i
      BY <1>1, <2>3
    <3> QED
      BY <1>3, <2>1, <3>1
  <2> QED
    BY <2>2, <2>3 DEF RestLast
<1>6. ASSUME Head(q).type = "report", Neutral(Head(q).pad), ~Missing(t) PROVE RestLast(q)
  <2>1. ASSUME NEW j \in 1 .. Len(q), j > 1 PROVE q[j].type = "report"
    <3>1. j \in 2 .. Len(q)
      BY <1>1, <2>1
    <3> QED
      BY <1>3, <1>6, <3>1 DEF Missing
  <2> QED
    BY <1>1, <1>6, <2>1 DEF RestLast
<1>7. IF t = <<>> THEN Last(q) = Head(q) ELSE Last(t) = Last(q)
  <2>1. CASE Len(t) = 0
    <3>1. Len(q) = 1
      BY <1>1, <2>1
    <3>2. Last(q) = Head(q)
      BY <1>1, <3>1 DEF Last
    <3> QED
      BY <1>2, <2>1, <3>2
  <2>2. CASE Len(t) # 0
    <3>1. Len(t) \in 1 .. Len(t) /\ Len(t) + 1 = Len(q)
      BY <1>1, <2>2
    <3> QED
      BY <1>1, <1>2, <2>2, <3>1 DEF Last
  <2> QED
    BY <2>1, <2>2
<1> QED
  BY <1>4, <1>5, <1>6, <1>7 DEF t

QueueInv ==
  /\ link # "connected" => queue = <<>> \/ queue = <<Gone>>
  /\ actions # {} => neutralSeen
  /\ actions # {} /\ (link # "connected" \/ ~sameGeneration) => Missing(queue)
  /\ link = "connected" =>
       /\ neutralSeen /\ sameGeneration /\ ~Missing(queue) => rested
       /\ RestLast(queue) => rested
       /\ queue # <<>> => Last(queue) = Report(pad) \/ Last(queue).type # "report"
       /\ queue = <<>> => actions = {} \/ actions = MapSnapshot(pad)

\* The two queues a connection can begin with.
LEMMA FirstQueues ==
  /\ ~Missing(<<>>) /\ ~RestLast(<<>>)
  /\ Missing(<<Gone>>) /\ ~RestLast(<<Gone>>)
  /\ <<Gone>> # <<>> /\ Last(<<Gone>>).type # "report"
  BY DEF Missing, RestLast, Gone, Last

\* A report leaves the queue's end saying what the pad holds, or that something
\* is missing.
LEMMA ReportKeeps ==
  ASSUME TypeOK, QueueInv, NEW p \in Pads, PadReports(p)
  PROVE  QueueInv'
<1>1. /\ link = "connected" /\ link' = link /\ pad' = p
      /\ UNCHANGED <<actions, neutralSeen, sameGeneration>>
  BY DEF PadReports, inputs
<1>2. /\ queue \in Seq(Entries) /\ Report(p) \in Entries /\ Lost \in Entries
      /\ Report(p).type = "report" /\ Report(p).pad = p /\ Lost.type # "report"
  BY DEF TypeOK, ProfileOK, Entries, Report, Lost
<1>3. CASE ~Full(queue)
  <2>1. queue' = Append(queue, Report(p)) /\ rested' = (rested \/ Neutral(p))
    BY <1>3 DEF PadReports
  <2> QED
    BY <1>1, <1>2, <2>1, Added DEF QueueInv
<1>4. CASE /\ Full(queue) /\ rested' = RestIn(queue')
           /\ queue' = Append(LostFirst(WithoutOldest(queue)), Report(p))
  <2> DEFINE q == LostFirst(WithoutOldest(queue))
  <2>1. rested' = RestIn(queue')
    BY <1>4
  <2>2. q \in Seq(Entries) /\ q # <<>> /\ Head(q) = Lost
    <3>1. WithoutOldest(queue) \in Seq(Entries)
      BY <1>2, <1>4, QueueType
    <3>2. q \in Seq(Entries)
      BY <3>1, QueueType
    <3> QED
      BY <1>2, <3>1, <3>2 DEF LostFirst
  <2> HIDE DEF q
  <2>3. Missing(q)
    BY <1>2, <2>2, Taken
  <2>4. queue' \in Seq(Entries)
    BY <1>2, <1>4, <2>2, AppendProperties DEF q
  <2>5. ASSUME RestLast(queue') PROVE RestIn(queue')
    <3>1. DOMAIN queue' = 1 .. Len(queue')
      BY <2>4
    <3> QED
      BY <1>2, <2>5, <3>1 DEF RestLast, RestIn
  <2>6. Missing(queue') /\ Last(queue') = Report(p) /\ queue' # <<>>
    BY <1>2, <1>4, <2>2, <2>3, Added DEF q
  <2> QED
    BY <1>1, <2>1, <2>5, <2>6 DEF QueueInv
<1>5. CASE /\ Full(queue)
           /\ queue' = IF Last(queue) = Lost THEN queue ELSE Append(queue, Lost)
  <2>1. queue # <<>>
    BY <1>2, <1>5, QueueType
  <2>2. Last(queue') = Lost /\ queue' \in Seq(Entries) /\ queue' # <<>>
    BY <1>2, <1>5, <2>1, Added, QueueType
  <2>3. Len(queue') \in 1 .. Len(queue') /\ queue'[Len(queue')].type # "report"
    BY <1>2, <2>2, EmptySeq DEF Last
  <2>4. Missing(queue')
    BY <2>3 DEF Missing
  <2>5. ~RestLast(queue')
    BY <2>2, <2>3, LenProperties DEF RestLast
  <2> QED
    BY <1>1, <1>2, <2>2, <2>4, <2>5 DEF QueueInv
<1> QED
  BY <1>3, <1>4, <1>5 DEF PadReports

\* Reading one entry moves what it says into what is held.
LEMMA DrainKeeps ==
  ASSUME TypeOK, QueueInv, DrainNext
  PROVE  QueueInv'
<1> DEFINE e == Head(queue)
<1>1. /\ link = "connected" /\ link' = link /\ queue # <<>> /\ queue' = Tail(queue)
      /\ UNCHANGED <<pad, rested>>
  BY DEF DrainNext
<1>2. queue \in Seq(Entries) /\ e \in Entries
  BY <1>1, HeadTailProperties DEF TypeOK, ProfileOK
<1> HIDE DEF e
<1>3. /\ Missing(queue) <=> Missing(queue') \/ e.type # "report"
      /\ RestLast(queue') => RestLast(queue)
      /\ e.type = "report" /\ Neutral(e.pad) /\ ~Missing(queue') => RestLast(queue)
      /\ queue' = <<>> => Last(queue) = e
      /\ queue' # <<>> => Last(queue') = Last(queue)
  BY <1>1, <1>2, Taken DEF e
<1>4. CASE e.type = "report"
  <2>1. /\ sameGeneration' = TRUE
        /\ neutralSeen' = ((neutralSeen /\ sameGeneration) \/ Neutral(e.pad))
        /\ actions' = IF neutralSeen /\ sameGeneration THEN MapSnapshot(e.pad) ELSE {}
    BY <1>4 DEF DrainNext, Accept, e
  <2>2. Last(queue) = e => e.pad = pad
    BY <1>1, <1>4 DEF QueueInv, Report
  <2> QED
    BY <1>1, <1>3, <1>4, <2>1, <2>2 DEF QueueInv
<1>5. CASE e.type # "report"
  <2>1. actions' = {} /\ neutralSeen' = FALSE
    BY <1>5 DEF DrainNext, Missed, Release, e
  <2> QED
    BY <1>1, <1>3, <2>1 DEF QueueInv
<1> QED
  BY <1>4, <1>5

\* Every step keeps the invariant.
LEMMA QueueStep ==
  ASSUME TypeOK, QueueInv, [Next]_vars
  PROVE  QueueInv'
<1>1. CASE Settle \/ Tick \/ RequestPairing \/ RequestForget \/ UNCHANGED vars
  BY <1>1 DEF Settle, Tick, RequestPairing, RequestForget, vars, profile, inputs, QueueInv
<1>2. CASE LinkUp
  <2>1. /\ link # "connected" /\ link' = "connected" /\ rested' = FALSE
        /\ sameGeneration' = FALSE /\ UNCHANGED <<queue, pad, actions, neutralSeen>>
    BY <1>2 DEF LinkUp
  <2> QED
    BY <2>1, FirstQueues DEF QueueInv
<1>3. CASE LinkDown
  BY <1>3, FirstQueues DEF LinkDown, inputs, QueueInv
<1>4. CASE \E p \in Pads : PadReports(p)
  BY <1>4, ReportKeeps
<1>5. CASE ServiceFails
  BY <1>5 DEF ServiceFails, Release, profile, QueueInv
<1>6. CASE \E status \in {"ok", "busy", "error"} : ServiceForgets(status)
  <2>1. actions' = {} /\ neutralSeen' = FALSE /\ pad' = pad
        /\ \/ link' = "ready" /\ queue' = <<Gone>>
           \/ UNCHANGED <<link, queue, rested>>
    BY <1>6 DEF ServiceForgets, Release
  <2> QED
    BY <2>1 DEF QueueInv
<1>7. CASE \E overflow, pending \in BOOLEAN : ServiceProfile(overflow, pending)
  <2>1. PICK overflow \in BOOLEAN, pending \in BOOLEAN : ServiceProfile(overflow, pending)
    BY <1>7
  <2>2. UNCHANGED profile
    BY <2>1 DEF ServiceProfile
  <2>3. \/ Release /\ UNCHANGED sameGeneration
        \/ UNCHANGED <<actions, neutralSeen, sameGeneration>>
    BY <2>1 DEF ServiceProfile, ServiceBusy, ServiceConnected, ServiceReady
  <2> QED
    BY <2>2, <2>3 DEF profile, Release, QueueInv
<1>8. CASE DrainNext
  BY <1>8, DrainKeeps
<1>9. CASE DrainEnds
  BY <1>9 DEF DrainEnds, Release, profile, QueueInv
<1> QED
  BY <1>1, <1>2, <1>3, <1>4, <1>5, <1>6, <1>7, <1>8, <1>9 DEF Next

\* The invariant in every state.
LEMMA QueueCorrect == Spec => []QueueInv
<1>1. Init => QueueInv
  BY FirstQueues DEF Init, QueueInv
<1>2. TypeOK /\ QueueInv /\ [Next]_vars => QueueInv'
  BY QueueStep
<1> QED
  BY <1>1, <1>2, TypeCorrect, PTL DEF Spec

\* Once the service has read everything of a connection, what it returns is what
\* the pad holds, or nothing.
THEOREM NoStuckActionCorrect == Spec => []NoStuckAction
<1>1. QueueInv => NoStuckAction
  BY DEF QueueInv, NoStuckAction, Read
<1> QED
  BY <1>1, QueueCorrect, PTL

\* After a connection, and after any loss, an action counts only once the pad has
\* been seen at rest.
THEOREM NeutralFirstCorrect == Spec => []NeutralFirst
<1>1. QueueInv => NeutralFirst
  BY FirstQueues DEF QueueInv, NeutralFirst, Read
<1> QED
  BY <1>1, QueueCorrect, PTL

=============================================================================
