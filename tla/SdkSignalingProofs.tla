------------------------ MODULE SdkSignalingProofs ------------------------
(* Proofs about SdkSignaling, whatever calls and losses overlap: the types,  *)
(* one reconnection at a time, a socket for every connect() that waits, and  *)
(* nothing misled or left hanging but by the calls that the properties name; *)
(* 'reconnected' is emitted only when the server has everything back.        *)
EXTENDS SdkSignaling, TLAPS

LEMMA SocketsAre == 0 \notin Sockets /\ 0..MaxSockets = Sockets \cup {0}
BY ConstantsOK DEF Sockets

-----------------------------------------------------------------------------
(* Types, with the socket numbers opaque.                                     *)

Suspensions == [at : {"idle", "connect", "media", "hashRoom", "listing", "hashSeed"},
                job : SUBSET Wishes, socket : Sockets \cup {0}]

Flags == /\ connected \in BOOLEAN /\ room \in BOOLEAN /\ roomJoined \in BOOLEAN
         /\ publishing \in BOOLEAN /\ isReconnecting \in BOOLEAN
         /\ reconnectTimer \in BOOLEAN /\ intentional \in BOOLEAN
         /\ lateListener \in BOOLEAN /\ hashed \in BOOLEAN /\ listing \in BOOLEAN
         /\ closing \in BOOLEAN /\ stopping \in BOOLEAN

Typed ==
  /\ socket \in [Sockets -> {"none", "connecting", "open", "closing"}]
  /\ signaling \in Sockets \cup {0} /\ restoring \in Sockets \cup {0}
  /\ known \in [Sockets -> SUBSET {"room", "seed"}]
  /\ owed \subseteq Sockets
  /\ reconnectAttempts \in 0..MaxAttempts
  /\ intent \subseteq Wishes
  /\ call \in [Threads -> Suspensions]
  /\ Flags

LEMMA TypedIsTypeOK == Typed => TypeOK
BY SocketsAre DEF Typed, TypeOK, Flags, Suspensions

LEMMA IdleIs == Idle \in Suspensions /\ Idle.at = "idle" /\ Idle.job = {} /\ Idle.socket = 0
BY DEF Idle, Suspensions

-----------------------------------------------------------------------------
(* The continuations of the call chains.                                      *)

\* A call that awaits no socket and no listing: at rest or computing a hash.
Resting(c) == /\ c \in Suspensions /\ c.at \in {"idle", "media", "hashRoom", "hashSeed"}
              /\ c.socket = 0 /\ "room" \notin c.job
              /\ c.at = "idle" => c = Idle

LEMMA EndsAre ==
  /\ Done.at = "done" /\ Failed.at = "failed"
  /\ AtRest(Done) = Idle /\ AtRest(Failed) = Idle /\ AtRest(Idle) = Idle /\ Resting(Idle)
BY IdleIs DEF Done, Failed, Idle, AtRest, Resting

LEMMA SuspendedIs ==
  ASSUME NEW at \in {"media", "hashRoom", "hashSeed"}, NEW job \in SUBSET Wishes, "room" \notin job
  PROVE  LET c == Suspended(at, job)
         IN c.at = at /\ c.job = job /\ AtRest(c) = c /\ Resting(c)
BY DEF Suspended, AtRest, Resting, Suspensions

LEMMA EnterIs ==
  ASSUME NEW job \in SUBSET Wishes, "room" \notin job, NEW up, NEW joined
  PROVE  LET c == Enter(job, up, joined)
         IN /\ c.at \in {"failed", "hashRoom", "hashSeed"} /\ Resting(AtRest(c))
            /\ c.at # "failed" => AtRest(c) = c
            /\ c.at = "failed" => c = Failed
<1>1. CASE "inRoom" \in job /\ ~joined /\ up
  <2>1. Enter(job, up, joined) = Suspended("hashRoom", job)
    BY <1>1 DEF Enter
  <2> QED BY <2>1, SuspendedIs
<1>2. CASE "inRoom" \in job /\ ~joined /\ ~up
  <2>1. Enter(job, up, joined) = Failed
    BY <1>2 DEF Enter
  <2> QED BY <2>1, EndsAre
<1>3. CASE ~("inRoom" \in job /\ ~joined)
  <2>1. Enter(job, up, joined) = Suspended("hashSeed", job)
    BY <1>3 DEF Enter
  <2> QED BY <2>1, SuspendedIs
<1> QED BY <1>1, <1>2, <1>3

LEMMA PublishingIs ==
  ASSUME NEW job \in SUBSET Wishes, "room" \notin job, NEW up, NEW joined
  PROVE  LET c == Publishing(job, up, joined)
         IN /\ c.at \in {"failed", "media", "hashRoom", "hashSeed"} /\ Resting(AtRest(c))
            /\ c.at # "failed" => AtRest(c) = c
            /\ c.at = "failed" => c = Failed
<1>1. CASE ~up \/ ("publish" \in job /\ publishing)
  BY <1>1, EndsAre DEF Publishing
<1>2. CASE ~(~up \/ ("publish" \in job /\ publishing)) /\ "publish" \in job
  <2>1. Publishing(job, up, joined) = Suspended("media", job)
    BY <1>2 DEF Publishing
  <2> QED BY <2>1, SuspendedIs
<1>3. CASE ~(~up \/ ("publish" \in job /\ publishing)) /\ "publish" \notin job
  <2>1. Publishing(job, up, joined) = Enter(job, up, joined)
    BY <1>3 DEF Publishing
  <2> QED BY <2>1, EnterIs
<1> QED BY <1>1, <1>2, <1>3

LEMMA RestorePublishingIs ==
  ASSUME intent \subseteq Wishes, NEW up, NEW joined
  PROVE  LET c == RestorePublishing(up, joined)
         IN /\ c.at \in {"done", "failed", "media", "hashRoom", "hashSeed"} /\ Resting(AtRest(c))
            /\ c.at \notin {"done", "failed"} => AtRest(c) = c
            /\ c.at \in {"done", "failed"} => AtRest(c) = Idle
            /\ c.at = "done" => intent \cap Kinds = {}
<1>1. CASE intent \cap Kinds = {}
  BY <1>1, EndsAre DEF RestorePublishing
<1>2. CASE intent \cap Kinds # {}
  <2>1. RestorePublishing(up, joined) = Publishing(intent \ {"room"}, up, joined)
    BY <1>2 DEF RestorePublishing
  <2>2. intent \ {"room"} \in SUBSET Wishes /\ "room" \notin intent \ {"room"}
    OBVIOUS
  <2> DEFINE c == Publishing(intent \ {"room"}, up, joined)
  <2>3. /\ c.at \in {"failed", "media", "hashRoom", "hashSeed"} /\ Resting(AtRest(c))
        /\ c.at # "failed" => AtRest(c) = c
        /\ c.at = "failed" => c = Failed
    BY <2>2, PublishingIs
  <2> HIDE DEF c
  <2> QED BY <2>1, <2>3, EndsAre DEF c
<1> QED BY <1>1, <1>2

\* _restoreConnectionIntent on an open socket.
LEMMA RestoreIs ==
  ASSUME intent \subseteq Wishes, roomJoined \in BOOLEAN
  PROVE  LET c == Restore(TRUE)
         IN /\ Resting(AtRest(c)) /\ c.at \in {"done", "failed", "media", "hashRoom", "hashSeed"}
            /\ c.at \notin {"done", "failed"} => AtRest(c) = c
            /\ c.at \in {"done", "failed"} => AtRest(c) = Idle
            /\ c.at # "hashRoom" => ("room" \in intent => roomJoined)
            /\ c.at = "done" => intent \cap Kinds = {}
<1>1. CASE "room" \in intent /\ ~roomJoined
  <2>1. Restore(TRUE) = Suspended("hashRoom", {})
    BY <1>1 DEF Restore
  <2>2. {} \in SUBSET Wishes /\ "room" \notin {}
    OBVIOUS
  <2> DEFINE c == Suspended("hashRoom", {})
  <2>3. c.at = "hashRoom" /\ AtRest(c) = c /\ Resting(c)
    BY <2>2, SuspendedIs
  <2> HIDE DEF c
  <2> QED BY <2>1, <2>3 DEF c
<1>2. CASE ~("room" \in intent /\ ~roomJoined)
  <2>1. Restore(TRUE) = RestorePublishing(TRUE, roomJoined)
    BY <1>2 DEF Restore
  <2> QED BY <1>2, <2>1, RestorePublishingIs
<1> QED BY <1>1, <1>2

\* What the call of t goes on with when the room is joined.
LEMMA JoinedIs ==
  ASSUME intent \subseteq Wishes, NEW t \in Threads, call[t] \in Suspensions, "room" \notin call[t].job
  PROVE  LET c == Joined(t)
         IN /\ call[t].at # "listing" => c = call[t]
            /\ call[t].at = "listing" =>
                 /\ c.at \in {"idle", "done", "failed", "media", "hashRoom", "hashSeed"} /\ Resting(AtRest(c))
                 /\ c.at \notin {"done", "failed"} => AtRest(c) = c
                 /\ c.at \in {"done", "failed"} => AtRest(c) = Idle
                 /\ t # "rec" => c.at \in {"idle", "hashSeed"}
                 /\ c.at = "done" => intent \cap Kinds = {}
<1>1. CASE call[t].at # "listing"
  BY <1>1 DEF Joined
<1>2. CASE call[t].at = "listing" /\ call[t].job # {}
  <2>1. Joined(t) = Suspended("hashSeed", call[t].job)
    BY <1>2 DEF Joined
  <2>2. call[t].job \in SUBSET Wishes
    BY DEF Suspensions
  <2> QED BY <1>2, <2>1, <2>2, SuspendedIs
<1>3. CASE call[t].at = "listing" /\ call[t].job = {} /\ t = "rec"
  <2>1. Joined(t) = RestorePublishing(connected, TRUE)
    BY <1>3 DEF Joined
  <2> QED BY <1>3, <2>1, RestorePublishingIs
<1>4. CASE call[t].at = "listing" /\ call[t].job = {} /\ t # "rec"
  <2>1. Joined(t) = Idle
    BY <1>4 DEF Joined
  <2> QED BY <1>4, <2>1, EndsAre, IdleIs
<1> QED BY <1>1, <1>2, <1>3, <1>4

\* The timer's flags after its call has reached c.
LEMMA RetryIs ==
  ASSUME Retry, reconnectAttempts \in 0..MaxAttempts
  PROVE  /\ isReconnecting' \in BOOLEAN /\ reconnectTimer' \in BOOLEAN
         /\ reconnectAttempts' \in 0..MaxAttempts
         /\ ~isReconnecting' => reconnectAttempts' # 0
<1>1. CASE reconnectAttempts < MaxAttempts
  <2>1. isReconnecting' = TRUE /\ reconnectTimer' = TRUE /\ reconnectAttempts' = reconnectAttempts + 1
    BY <1>1 DEF Retry
  <2>2. reconnectAttempts + 1 \in 0..MaxAttempts
    BY <1>1, ConstantsOK
  <2> QED BY <2>1, <2>2
<1>2. CASE ~(reconnectAttempts < MaxAttempts)
  <2> DEFINE again == reconnectAttempts < MaxAttempts
  <2>0. /\ isReconnecting' = again /\ reconnectTimer' = again
        /\ reconnectAttempts' = IF again THEN reconnectAttempts + 1 ELSE reconnectAttempts
    BY Zenon DEF Retry
  <2>3. again = FALSE
    BY <1>2
  <2>1. isReconnecting' = FALSE /\ reconnectTimer' = FALSE /\ reconnectAttempts' = reconnectAttempts
    BY <2>0, <2>3, Zenon
  <2>2. reconnectAttempts # 0
    BY <1>2, ConstantsOK
  <2> QED BY <2>1, <2>2
<1> QED BY <1>1, <1>2

LEMMA AttemptIs ==
  ASSUME Attempt, reconnectAttempts \in 0..MaxAttempts, reconnectAttempts < MaxAttempts, Flags
  PROVE  /\ isReconnecting' \in BOOLEAN /\ reconnectTimer' \in BOOLEAN
         /\ reconnectAttempts' \in 0..MaxAttempts
         /\ isReconnecting => isReconnecting'
<1>1. CASE isReconnecting
  BY <1>1 DEF Attempt, Flags, recovery
<1>2. CASE ~isReconnecting
  <2>1. isReconnecting' = TRUE /\ reconnectTimer' = TRUE /\ reconnectAttempts' = reconnectAttempts + 1
    BY <1>2 DEF Attempt
  <2>2. reconnectAttempts + 1 \in 0..MaxAttempts
    BY ConstantsOK
  <2> QED BY <2>1, <2>2
<1> QED BY <1>1, <1>2

LEMMA ResumedIs ==
  ASSUME NEW c, Resumed(c), reconnectAttempts \in 0..MaxAttempts, Flags
  PROVE  /\ isReconnecting' \in BOOLEAN /\ reconnectTimer' \in BOOLEAN
         /\ reconnectAttempts' \in 0..MaxAttempts
         /\ isReconnecting /\ ~isReconnecting' /\ reconnectAttempts' = 0 => c.at = "done"
<1>1. CASE c.at = "done"
  <2>1. isReconnecting' = FALSE /\ reconnectTimer' = FALSE /\ reconnectAttempts' = 0
    BY <1>1 DEF Resumed
  <2>2. 0 \in 0..MaxAttempts
    BY ConstantsOK
  <2> QED BY <1>1, <2>1, <2>2
<1>2. CASE c.at = "failed"
  <2>1. Retry
    BY <1>2 DEF Resumed
  <2> QED BY <2>1, RetryIs
<1>3. CASE c.at \notin {"done", "failed"}
  BY <1>3 DEF Resumed, Flags
<1> QED BY <1>1, <1>2, <1>3

-----------------------------------------------------------------------------
LEMMA WishedIs ==
  ASSUME NEW c, intent \subseteq Wishes
  PROVE  Wished(c) \subseteq Wishes /\ (c.at # "hashRoom" => Wished(c) = intent)
BY DEF Wished, Wishes

-----------------------------------------------------------------------------
(* The calls and the recovery.                                                *)

\* The timer and its call take turns, both belong to a reconnection that is under
\* way, and each reconnection has counted an attempt.
Paced ==
  /\ reconnectTimer => isReconnecting /\ call["rec"] = Idle
  /\ call["rec"] # Idle => isReconnecting
  /\ isReconnecting => reconnectAttempts > 0

Loose == Typed /\ CallsAwait /\ Awaiting /\ Apart /\ Paced

\* A call that awaits no socket.
Freed(c) == c.at # "connect" /\ c.socket = 0 /\ "room" \notin c.job

LEMMA RestingIsFreed == \A c : Resting(c) => Freed(c) /\ c \in Suspensions
BY DEF Resting, Freed

\* A step after which every call still awaits what it did, or awaits no socket.
LEMMA LooseMoves ==
  ASSUME Loose, Typed', Paced',
         \A t \in Threads : \/ Freed(call'[t])
                            \/ /\ call'[t] = call[t]
                               /\ call[t].at = "connect" =>
                                    socket'[call[t].socket] \in {"connecting", "closing"},
         \A g \in Sockets : socket'[g] = "connecting" =>
           /\ socket[g] = "connecting"
           /\ \A t \in Threads : call[t].socket = g => call'[t] = call[t]
  PROVE  Loose'
<1>1. CallsAwait'
  BY DEF Loose, CallsAwait, Freed
<1>2. Awaiting'
  BY DEF Loose, Awaiting
<1>3. Apart'
  <2>1. \A t \in Threads : call'[t].socket = 0 \/ call'[t].socket = call[t].socket
    BY DEF Freed
  <2> QED BY <2>1 DEF Loose, Apart, Threads
<1> QED BY <1>1, <1>2, <1>3 DEF Loose

\* ... or a step that leaves them and the sockets alone.
LEMMA LooseStays ==
  ASSUME Loose, Typed', UNCHANGED <<socket, call, isReconnecting, reconnectAttempts>>,
         reconnectTimer' => reconnectTimer
  PROVE  Loose'
BY DEF Loose, CallsAwait, Awaiting, Apart, Paced

LEMMA RetryPaces ==
  ASSUME Retry, Typed
  PROVE  /\ isReconnecting' <=> reconnectTimer'
         /\ isReconnecting' => reconnectAttempts' > 0
<1>1. reconnectAttempts \in Nat
  BY ConstantsOK DEF Typed
<1>2. CASE reconnectAttempts < MaxAttempts
  <2>1. isReconnecting' = TRUE /\ reconnectTimer' = TRUE /\ reconnectAttempts' = reconnectAttempts + 1
    BY <1>2 DEF Retry
  <2> QED BY <1>1, <2>1
<1>3. CASE ~(reconnectAttempts < MaxAttempts)
  <2> DEFINE again == reconnectAttempts < MaxAttempts
  <2>1. isReconnecting' = again /\ reconnectTimer' = again
    BY Zenon DEF Retry
  <2>2. again = FALSE
    BY <1>3
  <2> QED BY <2>1, <2>2, Zenon
<1> QED BY <1>2, <1>3

LEMMA AttemptPaces ==
  ASSUME Attempt, Typed, Paced
  PROVE  /\ reconnectTimer' => isReconnecting' /\ (call["rec"] = Idle)
         /\ isReconnecting => UNCHANGED recovery
         /\ ~isReconnecting => isReconnecting' /\ reconnectTimer'
         /\ isReconnecting' => reconnectAttempts' > 0
<1>1. reconnectAttempts \in Nat
  BY ConstantsOK DEF Typed
<1>2. CASE isReconnecting
  BY <1>2 DEF Attempt, Paced, recovery
<1>3. CASE ~isReconnecting
  <2>1. isReconnecting' = TRUE /\ reconnectTimer' = TRUE /\ reconnectAttempts' = reconnectAttempts + 1
    BY <1>3 DEF Attempt
  <2>2. reconnectAttempts + 1 > 0
    BY <1>1
  <2> QED BY <1>3, <2>1, <2>2 DEF Paced
<1> QED BY <1>2, <1>3

\* The timer's call has reached c: it rests, or the reconnection is over or set again.
LEMMA ResumedPaces ==
  ASSUME Typed, isReconnecting, reconnectAttempts > 0, NEW c, Resumed(c),
         c.at \notin {"done", "failed"} => AtRest(c) # Idle,
         c.at \in {"done", "failed"} => AtRest(c) = Idle,
         call'["rec"] = AtRest(c)
  PROVE  Paced' /\ ~Wedged'
<1>1. CASE c.at = "done"
  <2>1. isReconnecting' = FALSE /\ reconnectTimer' = FALSE
    BY <1>1 DEF Resumed
  <2> QED BY <1>1, <2>1 DEF Paced, Wedged
<1>2. CASE c.at = "failed"
  <2>1. Retry
    BY <1>2 DEF Resumed
  <2> QED BY <1>2, <2>1, RetryPaces DEF Paced, Wedged
<1>3. CASE c.at \notin {"done", "failed"}
  <2>1. reconnectTimer' = FALSE /\ UNCHANGED <<isReconnecting, reconnectAttempts>>
    BY <1>3 DEF Resumed
  <2> QED BY <1>3, <2>1 DEF Paced, Wedged
<1> QED BY <1>1, <1>2, <1>3

LEMMA InitLoose == Init => Loose
<1> SUFFICES ASSUME Init PROVE Loose
  OBVIOUS
<1>1. \A t \in Threads : call[t] = Idle
  BY DEF Init
<1>2. Typed
  <2>1. 0 \in 0..MaxAttempts
    BY ConstantsOK
  <2> QED BY <2>1, IdleIs DEF Init, Typed, Flags
<1>3. \A g \in Sockets : socket[g] = "none"
  BY DEF Init
<1> QED BY <1>1, <1>2, <1>3, IdleIs DEF Init, Loose, CallsAwait, Awaiting, Apart, Paced, Threads

\* Steps that leave the sockets, the calls and the recovery alone.
LEMMA LooseLeaves ==
  ASSUME Loose, Typed', UNCHANGED <<socket, call, recovery>>
  PROVE  Loose' /\ (Wedged' => Wedged)
<1>1. UNCHANGED <<isReconnecting, reconnectAttempts, reconnectTimer>>
  BY DEF recovery
<1>2. Loose'
  BY <1>1, LooseStays
<1>3. Wedged' => Wedged
  BY <1>1 DEF Wedged
<1> QED BY <1>2, <1>3

LEMMA LooseQuietSteps ==
  ASSUME Loose, StopPublishing \/ StopFlushed \/ LeaveRoom \/ UNCHANGED vars
  PROVE  Loose' /\ (Wedged' => Wedged)
<1>0. Typed
  BY DEF Loose
<1>1. UNCHANGED <<sockets, call, recovery, owed, connected, intentional, joining, closing>>
  BY DEF StopPublishing, StopFlushed, LeaveRoom, vars, server, state, leaving
<1>2. intent' \subseteq intent
  BY DEF StopPublishing, StopFlushed, LeaveRoom, vars
<1>3. known' = known \/ (IsOpen /\ known' = [known EXCEPT ![signaling] = known[signaling] \ {"room"}])
  BY DEF StopPublishing, StopFlushed, LeaveRoom, vars, server
<1>4. known' \in [Sockets -> SUBSET {"room", "seed"}]
  BY <1>0, <1>3 DEF Typed, IsOpen
<1>5. room' \in BOOLEAN /\ roomJoined' \in BOOLEAN /\ publishing' \in BOOLEAN /\ stopping' \in BOOLEAN
  BY <1>0 DEF StopPublishing, StopFlushed, LeaveRoom, vars, server, state, leaving, Typed, Flags
<1>6. Flags'
  BY <1>0, <1>1, <1>5 DEF Typed, Flags, recovery, joining
<1>7. Typed'
  BY <1>0, <1>1, <1>2, <1>4, <1>6 DEF Typed, sockets, recovery
<1> QED BY <1>1, <1>7, LooseLeaves DEF sockets

LEMMA LooseInUse ==
  ASSUME Loose, NEW g \in Sockets, InUse(g)
  PROVE  Loose' /\ (Wedged' => Wedged)
<1>0. Typed
  BY DEF Loose
<1>1. /\ known' = [known EXCEPT ![g] = known[g] \ {"seed"}] /\ publishing' = FALSE
      /\ intent' = intent \cap {"room"}
      /\ UNCHANGED <<sockets, owed, connected, room, roomJoined, recovery, intentional, call, joining, leaving>>
  BY DEF InUse
<1>2. known' \in [Sockets -> SUBSET {"room", "seed"}]
  BY <1>0, <1>1 DEF Typed
<1>3. Flags'
  BY <1>0, <1>1 DEF Typed, Flags, recovery, joining, leaving
<1>4. Typed'
  BY <1>0, <1>1, <1>2, <1>3 DEF Typed, sockets, recovery
<1> QED BY <1>1, <1>4, LooseLeaves DEF sockets

\* disconnect() may take the timer away and leave the flag: nothing else wedges.
LEMMA LooseDisconnect ==
  ASSUME Loose, Disconnect
  PROVE  Loose'
<1>1. /\ intentional' = TRUE /\ intent' = {} /\ reconnectTimer' = FALSE /\ closing' = TRUE
      /\ UNCHANGED <<sockets, server, state, isReconnecting, reconnectAttempts, call, joining, stopping>>
  BY DEF Disconnect
<1>2. Typed'
  BY <1>1 DEF Loose, Typed, Flags, sockets, server, state, joining
<1> QED BY <1>1, <1>2, LooseStays DEF sockets

LEMMA LooseTeardown ==
  ASSUME Loose, Teardown
  PROVE  Loose' /\ (Wedged' => Wedged)
<1>0. Typed
  BY DEF Loose
<1>1. /\ signaling' = 0 /\ restoring' = 0 /\ closing' = FALSE /\ owed' = owed \ {signaling}
      /\ connected' = FALSE /\ room' = FALSE /\ roomJoined' = FALSE /\ publishing' = FALSE
      /\ UNCHANGED <<known, recovery, intentional, intent, call, joining, stopping>>
      /\ socket' = IF signaling # 0 /\ socket[signaling] \in {"connecting", "open"}
                   THEN [socket EXCEPT ![signaling] = "closing"] ELSE socket
  BY DEF Teardown
<1>2. /\ socket' \in [Sockets -> {"none", "connecting", "open", "closing"}]
      /\ \A g \in Sockets : socket'[g] = socket[g] \/ socket'[g] = "closing"
  BY <1>0, <1>1 DEF Typed
<1>3. Typed'
  BY <1>0, <1>1, <1>2 DEF Typed, Flags, recovery, joining
<1>4. Paced' /\ (Wedged' => Wedged)
  BY <1>1 DEF Loose, Paced, Wedged, recovery
<1>5. ASSUME NEW t \in Threads
      PROVE  /\ call'[t] = call[t]
             /\ call[t].at = "connect" => socket'[call[t].socket] \in {"connecting", "closing"}
  <2>1. call[t].at = "connect" =>
          call[t].socket \in Sockets /\ socket[call[t].socket] \in {"connecting", "closing"}
    BY <1>0 DEF Loose, CallsAwait, Typed, Suspensions
  <2> QED BY <1>1, <1>2, <2>1
<1>6. \A g \in Sockets : socket'[g] = "connecting" =>
        socket[g] = "connecting" /\ \A t \in Threads : call'[t] = call[t]
  BY <1>2, <1>5
<1> QED BY <1>3, <1>4, <1>5, <1>6, LooseMoves

\* The call of t, which awaited no socket, goes on without one.
LEMMA LooseGoesOn ==
  ASSUME Loose, NEW t \in Threads, call[t].at # "connect", NEW c, Freed(c),
         call' = [call EXCEPT ![t] = c], UNCHANGED socket, Typed', Paced'
  PROVE  Loose'
<1>1. \A s \in Threads : call'[s] = IF s = t THEN c ELSE call[s]
  BY DEF Loose, Typed
<1>2. \A s \in Threads : Freed(call'[s]) \/
        (call'[s] = call[s] /\ (call[s].at = "connect" => socket'[call[s].socket] \in {"connecting", "closing"}))
  BY <1>1 DEF Loose, CallsAwait
<1>3. \A g \in Sockets : socket'[g] = "connecting" =>
        /\ socket[g] = "connecting"
        /\ \A s \in Threads : call[s].socket = g => call'[s] = call[s]
  BY <1>1, SocketsAre DEF Loose, CallsAwait
<1> QED BY <1>2, <1>3, LooseMoves

LEMMA LooseAppStarts ==
  ASSUME Loose, NEW c, Resting(c), call["app"] = Idle, call' = [call EXCEPT !["app"] = c],
         intent' \subseteq Wishes,
         UNCHANGED <<sockets, server, state, recovery, intentional, joining, leaving>>
  PROVE  Loose' /\ (Wedged' => Wedged)
<1>0. Typed
  BY DEF Loose
<1>1. call'["rec"] = call["rec"] /\ call' \in [Threads -> Suspensions]
  BY <1>0, RestingIsFreed DEF Typed, Threads
<1>2. Flags'
  BY <1>0 DEF Typed, Flags, state, recovery, joining, leaving
<1>3. Typed'
  BY <1>0, <1>1, <1>2 DEF Typed, sockets, server, recovery
<1>4. Paced' /\ (Wedged' => Wedged)
  BY <1>1 DEF Loose, Paced, Wedged, recovery
<1>5. Freed(c) /\ UNCHANGED socket
  BY RestingIsFreed DEF sockets
<1> QED BY <1>3, <1>4, <1>5, IdleIs, LooseGoesOn DEF Threads

LEMMA LooseJoinRoom ==
  ASSUME Loose, JoinRoom
  PROVE  Loose' /\ (Wedged' => Wedged)
<1> DEFINE c == Suspended("hashRoom", {})
<1>1. {} \in SUBSET Wishes /\ "room" \notin {}
  OBVIOUS
<1>2. Resting(c)
  BY <1>1, SuspendedIs
<1>3. /\ call["app"] = Idle /\ intent' = intent \cup {"room"}
      /\ call' = [call EXCEPT !["app"] = c]
      /\ UNCHANGED <<sockets, server, state, recovery, intentional, joining, leaving>>
  BY DEF JoinRoom
<1> HIDE DEF c
<1>4. intent' \subseteq Wishes
  BY <1>3 DEF Loose, Typed, Wishes
<1> QED BY <1>2, <1>3, <1>4, LooseAppStarts

LEMMA LoosePublish ==
  ASSUME Loose, NEW job \in Jobs, Publish(job)
  PROVE  Loose' /\ (Wedged' => Wedged)
<1> DEFINE c == Publishing(job, TRUE, roomJoined)
<1>1. job \in SUBSET Wishes /\ "room" \notin job
  BY DEF Jobs, Kinds, Wishes
<1>2. /\ Resting(AtRest(c))
      /\ c.at # "failed" => AtRest(c) = c
      /\ c.at = "failed" => c = Failed
  BY <1>1, PublishingIs
<1>3. /\ call["app"] = Idle /\ c # Failed
      /\ call' = [call EXCEPT !["app"] = c] /\ intent' = Wished(call'["app"])
      /\ UNCHANGED <<sockets, server, state, recovery, intentional, joining, leaving>>
  BY DEF Publish
<1> HIDE DEF c
<1>4. intent' \subseteq Wishes
  BY <1>3, WishedIs DEF Loose, Typed
<1> QED BY <1>2, <1>3, <1>4, LooseAppStarts

\* new WebSocket(), beside whatever sockets there are.
LEMMA LooseOpens ==
  ASSUME Loose, NEW t \in Threads, NEW g \in Sockets, Open(t, g), call[t] = Idle,
         UNCHANGED <<server, state, intent, joining, leaving>>,
         isReconnecting' \in BOOLEAN, reconnectTimer' \in BOOLEAN, reconnectAttempts' \in 0..MaxAttempts,
         Paced'
  PROVE  Loose'
<1>0. Typed
  BY DEF Loose
<1> DEFINE c == [at |-> "connect", job |-> {}, socket |-> g]
<1>1. /\ socket' = [socket EXCEPT ![g] = "connecting"] /\ signaling' = g /\ restoring' = 0 /\ socket[g] = "none"
      /\ call' = [call EXCEPT ![t] = c] /\ intentional' = FALSE
  BY DEF Open
<1>2. c \in Suspensions /\ c.at = "connect" /\ c.job = {} /\ c.socket = g
  BY DEF Suspensions
<1> HIDE DEF c
<1>3. \A h \in Sockets : socket'[h] = IF h = g THEN "connecting" ELSE socket[h]
  BY <1>0, <1>1 DEF Typed
<1>4. \A s \in Threads : call'[s] = IF s = t THEN c ELSE call[s]
  BY <1>0, <1>1 DEF Typed
<1>5. Typed'
  BY <1>0, <1>1, <1>2 DEF Typed, Flags, server, state, joining, leaving
<1>6. ASSUME NEW s \in Threads
      PROVE  call[s].socket # g /\ (call[s].at = "connect" => call[s].socket \in Sockets)
  BY <1>0, <1>1, SocketsAre DEF Loose, CallsAwait, Typed, Suspensions
<1>7. CallsAwait'
  <2> SUFFICES ASSUME NEW s \in Threads
               PROVE  /\ call'[s].at = "connect" <=> call'[s].socket # 0
                      /\ call'[s].at = "connect" => socket'[call'[s].socket] \in {"connecting", "closing"}
                      /\ "room" \notin call'[s].job
    BY DEF CallsAwait
  <2>1. CASE s = t
    BY <1>2, <1>3, <1>4, <2>1, SocketsAre
  <2>2. CASE s # t
    BY <1>3, <1>4, <1>6, <2>2 DEF Loose, CallsAwait
  <2> QED BY <2>1, <2>2
<1>8. Awaiting'
  <2> SUFFICES ASSUME NEW h \in Sockets, socket'[h] = "connecting"
               PROVE  \E s \in Threads : call'[s].at = "connect" /\ call'[s].socket = h
    BY DEF Awaiting
  <2>1. CASE h = g
    BY <1>2, <1>4, <2>1
  <2>2. CASE h # g
    <3>1. PICK s \in Threads : call[s].at = "connect" /\ call[s].socket = h
      BY <1>3, <2>2 DEF Loose, Awaiting
    <3>2. s # t
      BY <3>1, IdleIs
    <3> QED BY <1>4, <3>1, <3>2
  <2> QED BY <2>1, <2>2
<1>9. Apart'
  BY <1>2, <1>4, <1>6 DEF Apart, Threads
<1> QED BY <1>5, <1>7, <1>8, <1>9 DEF Loose

LEMMA LooseConnect ==
  ASSUME Loose, Connect
  PROVE  Loose' /\ (Wedged' => Wedged)
<1>0. Typed
  BY DEF Loose
<1>1. PICK g \in Sockets : Open("app", g)
  BY DEF Connect
<1>2. /\ call["app"] = Idle
      /\ UNCHANGED <<server, state, recovery, intent, joining, leaving>>
  BY DEF Connect
<1>3. UNCHANGED <<isReconnecting, reconnectAttempts, reconnectTimer>>
  BY <1>2 DEF recovery
<1>4. isReconnecting' \in BOOLEAN /\ reconnectTimer' \in BOOLEAN /\ reconnectAttempts' \in 0..MaxAttempts
  BY <1>0, <1>3 DEF Typed, Flags
<1>5. call'["rec"] = call["rec"]
  BY <1>0, <1>1 DEF Open, Typed, Threads
<1>6. Paced' /\ (Wedged' => Wedged)
  BY <1>3, <1>5 DEF Loose, Paced, Wedged
<1> QED BY <1>1, <1>2, <1>4, <1>6, LooseOpens DEF Threads

LEMMA ToldIsTyped ==
  ASSUME Typed, NEW what \in SUBSET {"room", "seed"}
  PROVE  Told(what) \in [Sockets -> SUBSET {"room", "seed"}]
<1>1. Told(what) = known \/ (IsOpen /\ Told(what) = [known EXCEPT ![signaling] = known[signaling] \cup what])
  BY DEF Told
<1>2. IsOpen => signaling \in Sockets
  BY DEF Typed, IsOpen
<1>3. IsOpen => known[signaling] \cup what \in SUBSET {"room", "seed"}
  BY <1>2 DEF Typed
<1> QED BY <1>1, <1>2, <1>3 DEF Typed

LEMMA LooseHashRoom ==
  ASSUME Loose, NEW t \in Threads, HashRoom(t)
  PROVE  Loose' /\ (Wedged' => Wedged)
<1>0. Typed
  BY DEF Loose
<1> DEFINE c == [call[t] EXCEPT !.at = "listing"]
<1>1. /\ call[t].at = "hashRoom" /\ known' = Told({"room"})
      /\ owed' = IF IsOpen THEN owed \cup {signaling} ELSE owed
      /\ call' = [call EXCEPT ![t] = c]
      /\ UNCHANGED <<sockets, state, recovery, intentional, intent, joining, leaving>>
  BY DEF HashRoom
<1>2. call[t] \in Suspensions /\ "room" \notin call[t].job /\ call[t].socket = 0
  BY <1>0, <1>1 DEF Typed, Loose, CallsAwait
<1>3. c \in Suspensions /\ c.at = "listing" /\ c.socket = 0 /\ "room" \notin c.job
  BY <1>2 DEF Suspensions
<1> HIDE DEF c
<1>4. Typed'
  <2>1. owed' \subseteq Sockets
    BY <1>0, <1>1 DEF Typed, IsOpen
  <2>2. call' \in [Threads -> Suspensions]
    BY <1>0, <1>1, <1>3 DEF Typed
  <2>3. Flags'
    BY <1>0, <1>1 DEF Typed, Flags, state, recovery, joining, leaving
  <2>4. known' \in [Sockets -> SUBSET {"room", "seed"}]
    BY <1>0, <1>1, ToldIsTyped
  <2> QED BY <1>0, <1>1, <2>1, <2>2, <2>3, <2>4 DEF Typed, sockets, recovery
<1>5. t = "rec" \/ call'["rec"] = call["rec"]
  BY <1>0, <1>1 DEF Typed, Threads
<1>6. t = "rec" => call["rec"] # Idle /\ call'["rec"] # Idle
  BY <1>0, <1>1, <1>3, IdleIs DEF Typed
<1>7. Paced' /\ (Wedged' => Wedged)
  BY <1>1, <1>5, <1>6 DEF Loose, Paced, Wedged, recovery
<1>8. Freed(c)
  BY <1>3 DEF Freed
<1> QED BY <1>1, <1>4, <1>7, <1>8, LooseGoesOn DEF sockets

LEMMA LooseMediaReady ==
  ASSUME Loose, NEW t \in Threads, MediaReady(t)
  PROVE  Loose' /\ (Wedged' => Wedged)
<1>0. Typed
  BY DEF Loose
<1> DEFINE c == Enter(call[t].job, connected, roomJoined)
<1>1. /\ call[t].at = "media" /\ call' = [call EXCEPT ![t] = AtRest(c)] /\ intent' = Wished(c)
      /\ UNCHANGED <<sockets, server, state, intentional, joining, leaving>>
      /\ IF t = "rec" THEN Resumed(c) ELSE UNCHANGED recovery
  BY DEF MediaReady
<1>2. call[t].job \in SUBSET Wishes /\ "room" \notin call[t].job
  BY <1>0 DEF Typed, Suspensions, Loose, CallsAwait
<1>3. /\ c.at \in {"failed", "hashRoom", "hashSeed"} /\ Resting(AtRest(c))
      /\ c.at # "failed" => AtRest(c) = c
      /\ c.at = "failed" => c = Failed
  BY <1>2, EnterIs
<1>4. intent' \subseteq Wishes
  BY <1>0, <1>1, WishedIs DEF Typed
<1> HIDE DEF c
<1>5. AtRest(c) \in Suspensions /\ Freed(AtRest(c))
  BY <1>3, RestingIsFreed
<1>6. \A s \in Threads : call'[s] = IF s = t THEN AtRest(c) ELSE call[s]
  BY <1>0, <1>1 DEF Typed
<1>7. isReconnecting' \in BOOLEAN /\ reconnectTimer' \in BOOLEAN /\ reconnectAttempts' \in 0..MaxAttempts
  BY <1>0, <1>1, ResumedIs DEF Typed, Flags, recovery
<1>8. Typed'
  <2>1. call' \in [Threads -> Suspensions]
    BY <1>0, <1>1, <1>5 DEF Typed
  <2>2. Flags'
    BY <1>0, <1>1, <1>7 DEF Typed, Flags, state, joining, leaving
  <2> QED BY <1>0, <1>1, <1>4, <1>7, <2>1, <2>2 DEF Typed, sockets, server
<1>9. Paced' /\ (Wedged' => Wedged)
  <2>1. CASE t = "rec"
    <3>1. isReconnecting /\ reconnectAttempts > 0
      BY <1>1, <2>1, IdleIs DEF Loose, Paced
    <3>2. Resumed(c) /\ call'["rec"] = AtRest(c)
      BY <1>1, <1>6, <2>1
    <3>3. c.at \notin {"done", "failed"} => AtRest(c) # Idle
      BY <1>3, IdleIs
    <3>4. c.at \in {"done", "failed"} => AtRest(c) = Idle
      BY <1>3, EndsAre
    <3> QED BY <1>0, <3>1, <3>2, <3>3, <3>4, ResumedPaces
  <2>2. CASE t # "rec"
    BY <1>1, <1>6, <2>2 DEF Loose, Paced, Wedged, recovery, Threads
  <2> QED BY <2>1, <2>2
<1> QED BY <1>1, <1>5, <1>8, <1>9, LooseGoesOn DEF sockets

LEMMA LooseHashSeed ==
  ASSUME Loose, NEW t \in Threads, HashSeed(t)
  PROVE  Loose' /\ (Wedged' => Wedged)
<1>0. Typed
  BY DEF Loose
<1>1. /\ call[t].at = "hashSeed" /\ publishing' = TRUE /\ known' = Told({"seed"})
      /\ intent' = (intent \cap {"room"}) \cup call[t].job
      /\ call' = [call EXCEPT ![t] = Idle]
      /\ UNCHANGED <<sockets, owed, connected, room, roomJoined, intentional, joining, leaving>>
      /\ IF t = "rec" THEN Resumed(Done) ELSE UNCHANGED recovery
  BY DEF HashSeed
<1>2. call[t] \in Suspensions
  BY <1>0 DEF Typed
<1>3. \A s \in Threads : call'[s] = IF s = t THEN Idle ELSE call[s]
  BY <1>0, <1>1 DEF Typed
<1>4. isReconnecting' \in BOOLEAN /\ reconnectTimer' \in BOOLEAN /\ reconnectAttempts' \in 0..MaxAttempts
  BY <1>0, <1>1, ResumedIs DEF Typed, Flags, recovery
<1>5. Typed'
  <2>1. intent' \subseteq Wishes
    BY <1>0, <1>1, <1>2 DEF Typed, Suspensions
  <2>2. call' \in [Threads -> Suspensions]
    BY <1>0, <1>1, IdleIs DEF Typed
  <2>3. Flags'
    BY <1>0, <1>1, <1>4 DEF Typed, Flags, joining, leaving
  <2>4. known' \in [Sockets -> SUBSET {"room", "seed"}]
    BY <1>0, <1>1, ToldIsTyped
  <2> QED BY <1>0, <1>1, <1>4, <2>1, <2>2, <2>3, <2>4 DEF Typed, sockets
<1>6. Paced' /\ (Wedged' => Wedged)
  <2>1. CASE t = "rec"
    <3>1. call["rec"] # Idle
      BY <1>1, <2>1, IdleIs
    <3>2. isReconnecting /\ reconnectAttempts > 0
      BY <3>1 DEF Loose, Paced
    <3>3. Resumed(Done) /\ call'["rec"] = AtRest(Done)
      BY <1>1, <1>3, <2>1, EndsAre
    <3>4. Done.at = "done" /\ AtRest(Done) = Idle
      BY EndsAre
    <3> QED BY <1>0, <3>2, <3>3, <3>4, ResumedPaces
  <2>2. CASE t # "rec"
    BY <1>1, <1>3, <2>2 DEF Loose, Paced, Wedged, recovery, Threads
  <2> QED BY <2>1, <2>2
<1>7. Freed(Idle)
  BY EndsAre, RestingIsFreed
<1> QED BY <1>1, <1>5, <1>6, <1>7, LooseGoesOn DEF sockets

LEMMA LooseJoinTimeout ==
  ASSUME Loose, NEW t \in Threads, JoinTimeout(t)
  PROVE  Loose' /\ (Wedged' => Wedged)
<1>0. Typed
  BY DEF Loose
<1>1. /\ call[t].at = "listing" /\ lateListener' = TRUE /\ call' = [call EXCEPT ![t] = Idle]
      /\ UNCHANGED <<sockets, server, state, intentional, intent, hashed, listing, leaving>>
      /\ IF t = "rec" THEN Retry ELSE UNCHANGED recovery
  BY DEF JoinTimeout
<1>2. \A s \in Threads : call'[s] = IF s = t THEN Idle ELSE call[s]
  BY <1>0, <1>1 DEF Typed
<1>3. isReconnecting' \in BOOLEAN /\ reconnectTimer' \in BOOLEAN /\ reconnectAttempts' \in 0..MaxAttempts
  BY <1>0, <1>1, RetryIs DEF Typed, Flags, recovery
<1>4. Typed'
  <2>1. call' \in [Threads -> Suspensions]
    BY <1>0, <1>1, IdleIs DEF Typed
  <2>2. Flags'
    BY <1>0, <1>1, <1>3 DEF Typed, Flags, state, leaving
  <2> QED BY <1>0, <1>1, <1>3, <2>1, <2>2 DEF Typed, sockets, server
<1>5. Paced' /\ (Wedged' => Wedged)
  <2>1. CASE t = "rec"
    BY <1>0, <1>1, <1>2, <2>1, RetryPaces DEF Paced, Wedged
  <2>2. CASE t # "rec"
    BY <1>1, <1>2, <2>2 DEF Loose, Paced, Wedged, recovery, Threads
  <2> QED BY <2>1, <2>2
<1>6. Freed(Idle)
  BY EndsAre, RestingIsFreed
<1> QED BY <1>1, <1>4, <1>5, <1>6, LooseGoesOn DEF sockets

LEMMA LooseRoomJoined ==
  ASSUME Loose, RoomJoined, UNCHANGED <<sockets, known, intentional, intent, leaving>>,
         owed' \subseteq owed, hashed' \in BOOLEAN, listing' \in BOOLEAN
  PROVE  Loose' /\ (Wedged' => Wedged)
<1>0. Typed
  BY DEF Loose
<1> DEFINE a == Joined("app")
           r == Joined("rec")
<1>1. /\ room' = (room \/ \E t \in Threads : call[t].at = "listing" \/ lateListener)
      /\ roomJoined' = (roomJoined \/ \E t \in Threads : call[t].at = "listing" \/ lateListener)
      /\ lateListener' = FALSE /\ call' = [app |-> a, rec |-> AtRest(r)]
      /\ IF call["rec"] # r THEN Resumed(r) ELSE UNCHANGED recovery
      /\ UNCHANGED <<connected, publishing>>
  BY DEF RoomJoined, Threads
<1>2. /\ intent \subseteq Wishes /\ call["app"] \in Suspensions /\ call["rec"] \in Suspensions
      /\ "room" \notin call["app"].job /\ "room" \notin call["rec"].job
  BY <1>0 DEF Typed, Loose, CallsAwait, Threads
<1>3. /\ call["app"].at # "listing" => a = call["app"]
      /\ call["app"].at = "listing" => Resting(AtRest(a)) /\ AtRest(a) = a
  BY <1>2, JoinedIs DEF Threads
<1>4. /\ call["rec"].at # "listing" => r = call["rec"]
      /\ call["rec"].at = "listing" => /\ Resting(AtRest(r)) /\ r.at \in {"idle", "done", "failed", "media", "hashRoom", "hashSeed"}
                                       /\ r.at \notin {"done", "failed"} => AtRest(r) = r
                                       /\ r.at \in {"done", "failed"} => AtRest(r) = Idle
  BY <1>2, JoinedIs DEF Threads
<1>5. call["rec"].at = "listing" => r.at \in {"done", "failed", "media", "hashRoom", "hashSeed"}
  <2> SUFFICES ASSUME call["rec"].at = "listing" PROVE r.at \in {"done", "failed", "media", "hashRoom", "hashSeed"}
    OBVIOUS
  <2>1. CASE call["rec"].job # {}
    <3>1. r = Suspended("hashSeed", call["rec"].job)
      BY <2>1 DEF Joined
    <3> QED BY <3>1 DEF Suspended
  <2>2. CASE call["rec"].job = {}
    <3>1. r = RestorePublishing(connected, TRUE)
      BY <2>2 DEF Joined
    <3> QED BY <1>2, <3>1, RestorePublishingIs
  <2> QED BY <2>1, <2>2
<1> HIDE DEF a, r
<1>6. AtRest(call["rec"]) = call["rec"]
  BY <1>2 DEF AtRest, Suspensions
<1>7. /\ a \in Suspensions /\ AtRest(r) \in Suspensions
      /\ a = call["app"] \/ Freed(a)
      /\ AtRest(r) = call["rec"] \/ Freed(AtRest(r))
  BY <1>2, <1>3, <1>4, <1>6, RestingIsFreed
<1>8. call'["app"] = a /\ call'["rec"] = AtRest(r) /\ call' \in [Threads -> Suspensions]
  BY <1>1, <1>7 DEF Threads
<1>9. isReconnecting' \in BOOLEAN /\ reconnectTimer' \in BOOLEAN /\ reconnectAttempts' \in 0..MaxAttempts
  BY <1>0, <1>1, ResumedIs DEF Typed, Flags, recovery
<1>10. Typed'
  <2>1. room' \in BOOLEAN /\ roomJoined' \in BOOLEAN /\ lateListener' \in BOOLEAN
    BY <1>1, Zenon
  <2>2. Flags'
    BY <1>0, <1>1, <1>9, <2>1 DEF Typed, Flags, leaving
  <2> QED BY <1>0, <1>8, <1>9, <2>2 DEF Typed, sockets
<1>11. Paced' /\ (Wedged' => Wedged)
  <2>1. CASE call["rec"] # r
    <3>1. call["rec"].at = "listing"
      BY <1>4, <2>1
    <3>2. isReconnecting /\ reconnectAttempts > 0
      BY <3>1, IdleIs DEF Loose, Paced
    <3>3. r.at \notin {"done", "failed"} => AtRest(r) # Idle
      BY <1>4, <1>5, <3>1, IdleIs
    <3> QED BY <1>0, <1>1, <1>4, <1>8, <2>1, <3>1, <3>2, <3>3, ResumedPaces
  <2>2. CASE call["rec"] = r
    BY <1>1, <1>6, <1>8, <2>2 DEF Loose, Paced, Wedged, recovery
  <2> QED BY <2>1, <2>2
<1>12. ASSUME NEW s \in Threads
       PROVE  \/ Freed(call'[s])
              \/ /\ call'[s] = call[s]
                 /\ call[s].at = "connect" => socket'[call[s].socket] \in {"connecting", "closing"}
  BY <1>7, <1>8 DEF Loose, CallsAwait, Threads, sockets
<1>13. ASSUME NEW s \in Threads, call[s].socket # 0 PROVE call'[s] = call[s]
  <2>1. call[s].at # "listing"
    BY <1>13 DEF Loose, CallsAwait
  <2> QED BY <1>3, <1>4, <1>6, <1>8, <2>1 DEF Threads
<1>14. \A g \in Sockets : socket'[g] = "connecting" =>
         /\ socket[g] = "connecting"
         /\ \A s \in Threads : call[s].socket = g => call'[s] = call[s]
  BY <1>13, SocketsAre DEF sockets
<1> QED BY <1>10, <1>11, <1>12, <1>14, LooseMoves

LEMMA LooseListing ==
  ASSUME Loose, (\E g \in Sockets : Listing(g)) \/ ListingHashed
  PROVE  Loose' /\ (Wedged' => Wedged)
<1>0. Typed
  BY DEF Loose
<1>1. CASE ListingHashed
  <2>1. /\ hashed' = TRUE /\ listing' = FALSE /\ RoomJoined
        /\ UNCHANGED <<sockets, server, intentional, intent, leaving>>
    BY <1>1 DEF ListingHashed
  <2>2. owed' \subseteq owed /\ hashed' \in BOOLEAN /\ listing' \in BOOLEAN /\ UNCHANGED known
    BY <2>1 DEF server
  <2> QED BY <2>1, <2>2, LooseRoomJoined
<1>2. ASSUME NEW g \in Sockets, Listing(g) PROVE Loose' /\ (Wedged' => Wedged)
  <2>1. owed' = owed \ {g} /\ UNCHANGED <<sockets, known, intentional, intent, leaving>>
    BY <1>2 DEF Listing
  <2>2. CASE hashed
    <3>1. RoomJoined /\ UNCHANGED <<hashed, listing>>
      BY <1>2, <2>2 DEF Listing
    <3>2. owed' \subseteq owed /\ hashed' \in BOOLEAN /\ listing' \in BOOLEAN
      BY <1>0, <2>1, <3>1 DEF Typed, Flags
    <3> QED BY <2>1, <3>1, <3>2, LooseRoomJoined
  <2>3. CASE ~hashed
    <3>1. listing' = TRUE /\ UNCHANGED <<state, recovery, call, lateListener, hashed>>
      BY <1>2, <2>3 DEF Listing
    <3>2. Flags'
      BY <1>0, <2>1, <3>1 DEF Typed, Flags, state, recovery, leaving
    <3>3. Typed'
      BY <1>0, <2>1, <3>1, <3>2 DEF Typed, sockets, recovery
    <3> QED BY <2>1, <3>1, <3>3, LooseLeaves DEF sockets
  <2> QED BY <2>2, <2>3
<1> QED BY <1>1, <1>2

LEMMA LooseOpened ==
  ASSUME Loose, NEW g \in Sockets, Opened(g)
  PROVE  Loose' /\ (Wedged' => Wedged)
<1>0. Typed
  BY DEF Loose
<1>1. /\ socket[g] = "connecting" /\ socket' = [socket EXCEPT ![g] = "open"] /\ connected' = TRUE
      /\ restoring' \in Sockets \cup {0}
      /\ UNCHANGED <<signaling, server, room, roomJoined, publishing, intentional, joining, leaving>>
  BY <1>0 DEF Opened, Typed
<1>2. reconnectAttempts \in 0..MaxAttempts /\ Flags /\ intent \subseteq Wishes /\ roomJoined \in BOOLEAN
  BY <1>0 DEF Typed, Flags
<1>3. \A h \in Sockets : socket'[h] = IF h = g THEN "open" ELSE socket[h]
  BY <1>0, <1>1 DEF Typed
<1>4. ASSUME NEW t \in Threads
      PROVE  /\ call[t].at = "connect" => call[t].socket \in Sockets
             /\ call[t].socket # 0 <=> call[t].at = "connect"
  BY <1>0 DEF Typed, Loose, CallsAwait, Suspensions
<1>5. ASSUME \A t \in Threads : Freed(call'[t]) \/ (call'[t] = call[t] /\ call[t].socket # g),
             \A t \in Threads : call[t].socket # g => call'[t] = call[t],
             Typed', Paced'
      PROVE  Loose'
  <2>1. ASSUME NEW t \in Threads
        PROVE  \/ Freed(call'[t])
               \/ /\ call'[t] = call[t]
                  /\ call[t].at = "connect" => socket'[call[t].socket] \in {"connecting", "closing"}
    <3>1. call[t].at = "connect" => socket[call[t].socket] \in {"connecting", "closing"}
      BY DEF Loose, CallsAwait
    <3> QED BY <1>3, <1>4, <1>5, <3>1
  <2>2. \A h \in Sockets : socket'[h] = "connecting" =>
          /\ socket[h] = "connecting"
          /\ \A t \in Threads : call[t].socket = h => call'[t] = call[t]
    BY <1>3, <1>5
  <2> QED BY <1>5, <2>1, <2>2, LooseMoves
<1>6. CASE call["rec"].at = "connect" /\ call["rec"].socket = g
  <2> DEFINE c == Restore(TRUE)
  <2>1. call' = [call EXCEPT !["rec"] = AtRest(c)] /\ Resumed(c) /\ intent' = Wished(c)
    BY <1>6 DEF Opened
  <2>2. /\ Resting(AtRest(c))
        /\ c.at \in {"done", "failed", "media", "hashRoom", "hashSeed"}
        /\ c.at \notin {"done", "failed"} => AtRest(c) = c
        /\ c.at \in {"done", "failed"} => AtRest(c) = Idle
    BY <1>2, RestoreIs
  <2>3. intent' \subseteq Wishes
    BY <1>2, <2>1, WishedIs
  <2> HIDE DEF c
  <2>4. c.at \notin {"done", "failed"} => AtRest(c) # Idle
    BY <2>2, IdleIs
  <2>5. isReconnecting' \in BOOLEAN /\ reconnectTimer' \in BOOLEAN /\ reconnectAttempts' \in 0..MaxAttempts
    BY <1>2, <2>1, ResumedIs
  <2>6. Freed(AtRest(c)) /\ AtRest(c) \in Suspensions
    BY <2>2, RestingIsFreed
  <2>7. \A t \in Threads : call'[t] = IF t = "rec" THEN AtRest(c) ELSE call[t]
    BY <1>0, <2>1 DEF Typed
  <2>8. Typed'
    BY <1>0, <1>1, <2>1, <2>3, <2>5, <2>6 DEF Typed, Flags, server, joining, leaving
  <2>9. isReconnecting /\ reconnectAttempts > 0
    BY <1>6, IdleIs DEF Loose, Paced
  <2>10. Paced' /\ ~Wedged'
    BY <1>0, <2>1, <2>2, <2>4, <2>7, <2>9, ResumedPaces DEF Threads
  <2>11. call["app"].socket # g /\ g # 0
    BY <1>6, SocketsAre DEF Loose, Apart
  <2>12. \A t \in Threads : Freed(call'[t]) \/ (call'[t] = call[t] /\ call[t].socket # g)
    BY <2>6, <2>7, <2>11 DEF Threads
  <2>13. \A t \in Threads : call[t].socket # g => call'[t] = call[t]
    BY <1>6, <2>7
  <2> QED BY <1>5, <2>8, <2>10, <2>12, <2>13
<1>7. CASE ~(call["rec"].at = "connect" /\ call["rec"].socket = g)
  <2>1. /\ call' = IF call["app"].socket = g THEN [call EXCEPT !["app"] = Idle] ELSE call
        /\ reconnectAttempts' = IF isReconnecting THEN reconnectAttempts ELSE 0
        /\ UNCHANGED <<isReconnecting, reconnectTimer, intent>>
    BY <1>7 DEF Opened
  <2>2. /\ call' \in [Threads -> Suspensions]
        /\ \A t \in Threads : call'[t] = IF t = "app" /\ call["app"].socket = g THEN Idle ELSE call[t]
    BY <1>0, <2>1, IdleIs DEF Typed
  <2>3. reconnectAttempts' \in 0..MaxAttempts
    BY <1>2, <2>1, ConstantsOK
  <2>4. Typed'
    BY <1>0, <1>1, <2>1, <2>2, <2>3 DEF Typed, Flags, server, joining, leaving
  <2>5. Paced' /\ (Wedged' => Wedged)
    BY <2>1, <2>2 DEF Loose, Paced, Wedged, Threads
  <2>6. call["rec"].socket # g
    BY <1>4, <1>7, SocketsAre DEF Threads
  <2>7. Freed(Idle)
    BY EndsAre, RestingIsFreed
  <2>8. \A t \in Threads : Freed(call'[t]) \/ (call'[t] = call[t] /\ call[t].socket # g)
    BY <2>2, <2>6, <2>7 DEF Threads
  <2>9. \A t \in Threads : call[t].socket # g => call'[t] = call[t]
    BY <2>2
  <2> QED BY <1>5, <2>4, <2>5, <2>8, <2>9
<1> QED BY <1>6, <1>7

LEMMA LooseOnClose ==
  ASSUME Loose, NEW g \in Sockets, OnClose(g)
  PROVE  Loose' /\ (Wedged' => Wedged)
<1>0. Typed
  BY DEF Loose
<1>1. /\ socket' = [socket EXCEPT ![g] = "none"]
      /\ known' = [known EXCEPT ![g] = {}] /\ owed' = owed \ {g}
      /\ connected' = FALSE /\ roomJoined' = FALSE /\ publishing' = FALSE
      /\ call' = [t \in Threads |-> IF call[t].at = "connect" /\ call[t].socket = g
                                    THEN Idle ELSE call[t]]
      /\ restoring' \in Sockets \cup {0}
      /\ UNCHANGED <<signaling, room, intentional, intent, joining, leaving>>
  BY <1>0 DEF OnClose, Typed
<1>2. \/ call["rec"].at = "connect" /\ call["rec"].socket = g /\ Retry
      \/ /\ ~(call["rec"].at = "connect" /\ call["rec"].socket = g)
         /\ (Attempt /\ reconnectAttempts < MaxAttempts) \/ UNCHANGED recovery
  BY DEF OnClose
<1>3. reconnectAttempts \in 0..MaxAttempts /\ Flags
  BY <1>0 DEF Typed
<1>4. isReconnecting' \in BOOLEAN /\ reconnectTimer' \in BOOLEAN /\ reconnectAttempts' \in 0..MaxAttempts
  <2>1. CASE Retry
    BY <1>3, <2>1, RetryIs
  <2>2. CASE Attempt /\ reconnectAttempts < MaxAttempts
    BY <1>3, <2>2, AttemptIs
  <2>3. CASE UNCHANGED recovery
    BY <1>3, <2>3 DEF recovery, Flags
  <2> QED BY <1>2, <2>1, <2>2, <2>3
<1>5. Typed'
  <2>1. call' \in [Threads -> Suspensions]
    BY <1>0, <1>1, IdleIs DEF Typed
  <2>2. socket' \in [Sockets -> {"none", "connecting", "open", "closing"}]
    BY <1>0, <1>1 DEF Typed
  <2>3. known' \in [Sockets -> SUBSET {"room", "seed"}]
    BY <1>0, <1>1 DEF Typed
  <2>4. Flags'
    BY <1>0, <1>1, <1>4 DEF Typed, Flags, joining, leaving
  <2> QED BY <1>0, <1>1, <1>4, <2>1, <2>2, <2>3, <2>4 DEF Typed
<1>6. Paced' /\ (Wedged' => Wedged)
  <2>1. CASE call["rec"].at = "connect" /\ call["rec"].socket = g /\ Retry
    <3>1. call'["rec"] = Idle
      BY <1>1, <2>1 DEF Threads
    <3> QED BY <1>0, <2>1, <3>1, RetryPaces DEF Paced, Wedged
  <2>2. CASE ~(call["rec"].at = "connect" /\ call["rec"].socket = g)
    <3>1. call'["rec"] = call["rec"]
      BY <1>1, <2>2 DEF Threads
    <3>2. CASE Attempt
      BY <1>0, <3>1, <3>2, AttemptPaces DEF Loose, Paced, Wedged, recovery
    <3>3. CASE UNCHANGED recovery
      BY <3>1, <3>3 DEF Loose, Paced, Wedged, recovery
    <3> QED BY <1>2, <2>2, <3>2, <3>3
  <2> QED BY <1>2, <2>1, <2>2
<1>7. Freed(Idle)
  BY EndsAre, RestingIsFreed
<1>8. \A h \in Sockets : socket'[h] = IF h = g THEN "none" ELSE socket[h]
  BY <1>0, <1>1 DEF Typed
<1>9. ASSUME NEW t \in Threads
      PROVE  \/ Freed(call'[t])
             \/ /\ call'[t] = call[t]
                /\ call[t].at = "connect" => socket'[call[t].socket] \in {"connecting", "closing"}
  <2>1. CASE call[t].at = "connect" /\ call[t].socket = g
    <3>1. call'[t] = Idle
      BY <1>1, <2>1
    <3> QED BY <1>7, <3>1
  <2>2. CASE ~(call[t].at = "connect" /\ call[t].socket = g)
    <3>1. call'[t] = call[t]
      BY <1>1, <2>2
    <3>2. call[t].at = "connect" =>
            call[t].socket \in Sockets /\ socket[call[t].socket] \in {"connecting", "closing"}
      BY <1>0 DEF Typed, Loose, CallsAwait, Suspensions
    <3> QED BY <1>8, <2>2, <3>1, <3>2
  <2> QED BY <2>1, <2>2
<1>10. \A h \in Sockets : socket'[h] = "connecting" =>
         /\ socket[h] = "connecting"
         /\ \A t \in Threads : call[t].socket = h => call'[t] = call[t]
  BY <1>1, <1>8
<1> QED BY <1>5, <1>6, <1>9, <1>10, LooseMoves

LEMMA LooseReconnectTimer ==
  ASSUME Loose, ReconnectTimer
  PROVE  Loose' /\ ~Wedged'
<1>0. Typed
  BY DEF Loose
<1>1. /\ reconnectTimer /\ call["rec"] = Idle
      /\ UNCHANGED <<server, state, joining, leaving>>
  BY DEF ReconnectTimer
<1>2. reconnectAttempts \in 0..MaxAttempts /\ Flags /\ intent \subseteq Wishes /\ roomJoined \in BOOLEAN
  BY <1>0 DEF Typed, Flags
<1>3. isReconnecting /\ reconnectAttempts > 0
  BY <1>1 DEF Loose, Paced
<1>4. CASE connected
  <2> DEFINE c == Restore(TRUE)
  <2>1. /\ call' = [call EXCEPT !["rec"] = AtRest(c)] /\ Resumed(c) /\ intent' = Wished(c)
        /\ restoring' \in Sockets \cup {0}
        /\ UNCHANGED <<socket, signaling, intentional>>
    BY <1>0, <1>4 DEF ReconnectTimer, Typed
  <2>2. /\ Resting(AtRest(c))
        /\ c.at \in {"done", "failed", "media", "hashRoom", "hashSeed"}
        /\ c.at \notin {"done", "failed"} => AtRest(c) = c
        /\ c.at \in {"done", "failed"} => AtRest(c) = Idle
    BY <1>2, RestoreIs
  <2>3. intent' \subseteq Wishes
    BY <1>2, <2>1, WishedIs
  <2> HIDE DEF c
  <2>4. c.at \notin {"done", "failed"} => AtRest(c) # Idle
    BY <2>2, IdleIs
  <2>5. isReconnecting' \in BOOLEAN /\ reconnectTimer' \in BOOLEAN /\ reconnectAttempts' \in 0..MaxAttempts
    BY <1>2, <2>1, ResumedIs
  <2>6. Freed(AtRest(c)) /\ AtRest(c) \in Suspensions
    BY <2>2, RestingIsFreed
  <2>7. call'["rec"] = AtRest(c)
    BY <1>0, <2>1 DEF Typed, Threads
  <2>8. Typed'
    BY <1>0, <1>1, <2>1, <2>3, <2>5, <2>6 DEF Typed, Flags, sockets, server, state, joining, leaving
  <2>9. Paced' /\ ~Wedged'
    BY <1>0, <1>3, <2>1, <2>2, <2>4, <2>7, ResumedPaces
  <2> QED BY <1>1, <2>1, <2>6, <2>8, <2>9, IdleIs, LooseGoesOn DEF Threads, sockets
<1>5. CASE ~connected
  <2>1. PICK g \in Sockets : Open("rec", g)
    BY <1>5 DEF ReconnectTimer
  <2>2. Resumed(call'["rec"]) /\ UNCHANGED intent
    BY <1>5 DEF ReconnectTimer
  <2>3. call'["rec"].at = "connect"
    BY <1>0, <2>1 DEF Open, Typed, Threads
  <2>4. isReconnecting' \in BOOLEAN /\ reconnectTimer' \in BOOLEAN /\ reconnectAttempts' \in 0..MaxAttempts
    BY <1>2, <2>2, ResumedIs
  <2>5. call'["rec"] = AtRest(call'["rec"]) /\ AtRest(call'["rec"]) # Idle
    BY <2>3, IdleIs DEF AtRest
  <2>6. Paced' /\ ~Wedged'
    BY <1>0, <1>3, <2>2, <2>3, <2>5, ResumedPaces
  <2> QED BY <1>1, <2>1, <2>2, <2>4, <2>6, LooseOpens DEF Threads
<1> QED BY <1>4, <1>5

-----------------------------------------------------------------------------
THEOREM NextKeepsLoose ==
  ASSUME Loose, [Next]_vars
  PROVE  Loose' /\ (Wedged' => Wedged \/ Disconnect)
<1>1. CASE Connect \/ JoinRoom
  BY <1>1, LooseConnect, LooseJoinRoom
<1>2. CASE Disconnect
  BY <1>2, LooseDisconnect
<1>3. CASE StopPublishing \/ StopFlushed \/ LeaveRoom \/ UNCHANGED vars
  BY <1>3, LooseQuietSteps
<1>4. ASSUME NEW job \in Jobs, Publish(job) PROVE Loose' /\ (Wedged' => Wedged)
  BY <1>4, LoosePublish
<1>5. ASSUME NEW g \in Sockets, Lost(g) \/ Closed(g) PROVE Loose' /\ (Wedged' => Wedged)
  BY <1>5, LooseOnClose DEF Lost, Closed
<1>6. ASSUME NEW g \in Sockets, InUse(g) \/ Opened(g) PROVE Loose' /\ (Wedged' => Wedged)
  BY <1>6, LooseInUse, LooseOpened
<1>7. CASE ReconnectTimer
  BY <1>7, LooseReconnectTimer
<1>8. CASE Teardown
  BY <1>8, LooseTeardown
<1>9. CASE ListingHashed \/ \E g \in Sockets : Listing(g)
  BY <1>9, LooseListing
<1>10. ASSUME NEW t \in Threads, HashRoom(t) \/ JoinTimeout(t) \/ MediaReady(t) \/ HashSeed(t)
       PROVE  Loose' /\ (Wedged' => Wedged)
  BY <1>10, LooseHashRoom, LooseJoinTimeout, LooseMediaReady, LooseHashSeed
<1> QED
  BY <1>1, <1>2, <1>3, <1>4, <1>5, <1>6, <1>7, <1>8, <1>9, <1>10 DEF Next, App, Faults, System

THEOREM LooseHolds == Spec => []Loose
<1>1. Init => Loose
  BY InitLoose
<1>2. Loose /\ [Next]_vars => Loose'
  BY NextKeepsLoose
<1> QED BY <1>1, <1>2, PTL DEF Spec

\* The variables of the signaling client keep their types, whatever calls overlap:
\* the attempts stay within their maximum, and a suspended call awaits what it
\* can be given.
THEOREM TypesAreOK == Spec => []TypeOK
<1>1. Loose => TypeOK
  BY TypedIsTypeOK DEF Loose
<1> QED BY <1>1, LooseHolds, PTL

\* One reconnection at a time, whatever calls overlap: the timer and its call take
\* turns, neither outlives the reconnection, and none goes uncounted.
THEOREM OneReconnection == Spec => []Paced
<1>1. Loose => Paced
  BY DEF Loose
<1> QED BY <1>1, LooseHolds, PTL

\* Every connect() is going to be answered, whatever calls overlap: it awaits a
\* socket that has yet to open or to say that it is closed, its own and no
\* other's, and no socket opens for nobody.
THEOREM EveryConnectIsAnswered == Spec => []ConnectsAreAnswered
<1>1. Loose => ConnectsAreAnswered
  BY DEF Loose, ConnectsAreAnswered
<1> QED BY <1>1, LooseHolds, PTL

-----------------------------------------------------------------------------
(* What misleads or strands the client.                                       *)

LEMMA HeldStays ==
  ASSUME signaling' = signaling, publishing' => publishing,
         IsOpen => socket'[signaling] = "open",
         IsOpen /\ "seed" \in known[signaling] => "seed" \in known'[signaling]
  PROVE  Misled' => Misled
BY DEF Misled, Holds, IsOpen

LEMMA ToldKeeps ==
  ASSUME Typed, IsOpen, NEW what \in SUBSET {"room", "seed"}
  PROVE  Told(what)[signaling] = known[signaling] \cup what
<1>1. signaling \in Sockets /\ Told(what) = [known EXCEPT ![signaling] = known[signaling] \cup what]
  BY DEF Typed, IsOpen, Told
<1> QED BY <1>1 DEF Typed

\* Steps that say less, or nothing, of publishing.
LEMMA QuietMisleads ==
  ASSUME Loose, [Next]_vars, UNCHANGED sockets, publishing' => publishing
  PROVE  Misled' => Misled
<1> USE DEF sockets
<1>0. Typed
  BY DEF Loose
<1>1. IsOpen => signaling \in Sockets
  BY <1>0 DEF Typed, IsOpen
<1>2. CASE publishing' /\ IsOpen
  <2>1. CASE UNCHANGED known
    BY <2>1, HeldStays DEF IsOpen
  <2>2. ASSUME NEW t \in Threads, HashRoom(t) PROVE Misled' => Misled
    <3>1. known' = Told({"room"})
      BY <2>2 DEF HashRoom
    <3>2. known'[signaling] = known[signaling] \cup {"room"}
      BY <1>0, <1>2, <3>1, ToldKeeps
    <3> QED BY <3>2, HeldStays DEF IsOpen
  <2>3. ASSUME NEW t \in Threads, HashSeed(t) PROVE Misled' => Misled
    <3>1. known' = Told({"seed"})
      BY <2>3 DEF HashSeed
    <3>2. known'[signaling] = known[signaling] \cup {"seed"}
      BY <1>0, <1>2, <3>1, ToldKeeps
    <3> QED BY <3>2, HeldStays DEF IsOpen
  <2>4. CASE LeaveRoom
    <3>1. known' = [known EXCEPT ![signaling] = known[signaling] \ {"room"}]
      BY <1>2, <2>4 DEF LeaveRoom
    <3>2. known'[signaling] = known[signaling] \ {"room"}
      BY <1>0, <1>1, <1>2, <3>1 DEF Typed
    <3> QED BY <3>2, HeldStays DEF IsOpen
  <2>5. ASSUME NEW g \in Sockets, InUse(g) PROVE Misled' => Misled
    BY <1>2, <2>5 DEF InUse
  <2>6. ASSUME NEW g \in Sockets, OnClose(g) PROVE Misled' => Misled
    BY <1>2, <2>6 DEF OnClose
  <2>7. CASE Teardown
    BY <1>2, <2>7 DEF Teardown
  <2>8. \/ UNCHANGED known \/ (\E t \in Threads : HashRoom(t) \/ HashSeed(t)) \/ LeaveRoom \/ Teardown
        \/ \E g \in Sockets : InUse(g) \/ OnClose(g)
    BY DEF Next, App, Faults, System, vars, server, Connect, Disconnect, JoinRoom, StopPublishing, Publish,
           ReconnectTimer, ListingHashed, StopFlushed, JoinTimeout, MediaReady, Opened, Listing, Lost, Closed
  <2> QED BY <2>1, <2>2, <2>3, <2>4, <2>5, <2>6, <2>7, <2>8
<1>3. CASE publishing' /\ ~IsOpen
  BY <1>3 DEF Misled, Holds
<1>4. CASE ~publishing'
  BY <1>4 DEF Misled
<1> QED BY <1>2, <1>3, <1>4

\* new WebSocket() beside the one in use.
LEMMA OpenMisleads ==
  ASSUME Loose, NEW t \in Threads, NEW g \in Sockets, Open(t, g), UNCHANGED publishing, ~Misled, Misled'
  PROVE  IsOpen /\ signaling' \notin {0, signaling}
<1>1. publishing /\ Holds("seed")
  BY DEF Misled
<1>2. signaling' = g /\ socket[g] = "none"
  BY DEF Open
<1> QED BY <1>1, <1>2, SocketsAre DEF Holds, IsOpen

LEMMA OnlyTheseMislead ==
  ASSUME Loose, [Next]_vars, ~Misled, Misled'
  PROVE  \/ ~IsOpen /\ \E t \in Threads : HashSeed(t)
         \/ IsOpen /\ signaling' \notin {0, signaling}
<1>0. Typed
  BY DEF Loose
<1>1. ASSUME NEW t \in Threads, HashSeed(t) PROVE ~IsOpen
  <2>1. SUFFICES ASSUME IsOpen PROVE FALSE
    OBVIOUS
  <2>2. known' = Told({"seed"}) /\ UNCHANGED sockets
    BY <1>1 DEF HashSeed
  <2>3. "seed" \in known'[signaling]
    BY <1>0, <2>1, <2>2, ToldKeeps
  <2> QED BY <2>1, <2>2, <2>3 DEF Misled, Holds, IsOpen, sockets
<1>2. CASE Connect
  <2>1. (\E g \in Sockets : Open("app", g)) /\ UNCHANGED publishing
    BY <1>2 DEF Connect, state
  <2> QED BY <2>1, OpenMisleads DEF Threads
<1>3. CASE ReconnectTimer
  <2>1. UNCHANGED <<known, publishing>>
    BY <1>3 DEF ReconnectTimer, server, state
  <2>2. CASE connected
    <3>1. UNCHANGED <<socket, signaling>>
      BY <1>3, <2>2 DEF ReconnectTimer
    <3> QED BY <2>1, <3>1, HeldStays DEF IsOpen
  <2>3. CASE ~connected
    <3>1. \E g \in Sockets : Open("rec", g)
      BY <1>3, <2>3 DEF ReconnectTimer
    <3> QED BY <2>1, <3>1, OpenMisleads DEF Threads
  <2> QED BY <2>2, <2>3
<1>4. ASSUME NEW g \in Sockets, Opened(g) PROVE FALSE
  <2>1. /\ socket' = [socket EXCEPT ![g] = "open"]
        /\ UNCHANGED <<signaling, known, publishing>>
    BY <1>4 DEF Opened, server
  <2>2. IsOpen => socket'[signaling] = "open"
    BY <1>0, <2>1 DEF Typed, IsOpen
  <2> QED BY <2>1, <2>2, HeldStays
<1>5. ASSUME NEW g \in Sockets, OnClose(g) PROVE FALSE
  BY <1>5 DEF OnClose, Misled
<1>6. CASE Teardown
  BY <1>6 DEF Teardown, Misled
<1>7. CASE UNCHANGED sockets /\ (publishing' => publishing)
  BY <1>7, QuietMisleads
<1>8. \/ Connect \/ ReconnectTimer \/ Teardown \/ (UNCHANGED sockets /\ (publishing' => publishing))
      \/ (\E t \in Threads : HashSeed(t)) \/ \E g \in Sockets : Opened(g) \/ OnClose(g)
  <2>1. CASE JoinRoom \/ (\E job \in Jobs : Publish(job)) \/ Disconnect \/ StopPublishing \/ StopFlushed
    BY <2>1 DEF JoinRoom, Publish, Disconnect, StopPublishing, StopFlushed, state
  <2>2. CASE LeaveRoom \/ (\E g \in Sockets : InUse(g)) \/ UNCHANGED vars
    BY <2>2 DEF LeaveRoom, InUse, vars, state
  <2>3. CASE \E t \in Threads : HashRoom(t) \/ JoinTimeout(t) \/ MediaReady(t)
    BY <2>3 DEF HashRoom, JoinTimeout, MediaReady, state
  <2>4. CASE ListingHashed \/ \E g \in Sockets : Listing(g)
    BY <2>4 DEF Listing, ListingHashed, RoomJoined, state
  <2>5. CASE \E g \in Sockets : Lost(g) \/ Closed(g)
    BY <2>5 DEF Lost, Closed
  <2> QED BY <2>1, <2>2, <2>3, <2>4, <2>5 DEF Next, App, Faults, System
<1> QED BY <1>1, <1>2, <1>3, <1>4, <1>5, <1>6, <1>7, <1>8

\* Whatever calls and losses overlap, nothing but disconnect() leaves a reconnection
\* flagged that nobody ends, and nothing but a publish() or announce() that ends
\* without a socket, or a connect() beside one, has the client show itself
\* publishing what the server does not hold.
THEOREM NothingElseStrands == Spec => StrandedOnlyBy
<1>1. Loose /\ [Next]_vars =>
        [/\ ~Wedged /\ Wedged' => Disconnect
         /\ ~Misled /\ Misled' => \/ ~IsOpen /\ \E t \in Threads : HashSeed(t)
                                  \/ IsOpen /\ signaling' \notin {0, signaling}]_vars
  BY NextKeepsLoose, OnlyTheseMislead
<1> QED BY <1>1, LooseHolds, PTL DEF Spec, StrandedOnlyBy

-----------------------------------------------------------------------------
(* What 'reconnected' says.                                                   *)

\* A restoration is on an open socket, this.signaling; and the room that is wanted is
\* held there, or about to be asked for.
Asking == \E t \in Threads : call[t].at = "hashRoom"
Restoring ==
  restoring # 0 =>
    /\ restoring = signaling /\ IsOpen
    /\ "room" \in intent => "room" \in known[signaling] \/ Asking

LEMMA RestoringStays ==
  ASSUME Restoring, UNCHANGED sockets,
         "room" \in intent' => "room" \in intent \/ Asking',
         Asking => Asking',
         IsOpen /\ "room" \in known[signaling] /\ "room" \in intent' => "room" \in known'[signaling]
  PROVE  Restoring'
BY DEF Restoring, IsOpen, sockets

LEMMA QuietRestores ==
  ASSUME Loose, Restoring, UNCHANGED sockets, UNCHANGED call, intent' \subseteq intent,
         "room" \in intent' => known' = known \/ \E g \in Sockets : known' = [known EXCEPT ![g] = known[g] \ {"seed"}]
  PROVE  Restoring'
<1>1. Asking => Asking'
  BY DEF Asking
<1>2. IsOpen => signaling \in Sockets
  BY DEF Loose, Typed, IsOpen
<1>3. IsOpen /\ "room" \in known[signaling] /\ "room" \in intent' => "room" \in known'[signaling]
  BY <1>2 DEF Loose, Typed
<1> QED BY <1>1, <1>3, RestoringStays

\* A call goes on: what it wants is told or still to be asked for.
LEMMA CallRestores ==
  ASSUME Loose, Restoring, NEW t \in Threads, call[t].at # "hashRoom", NEW c,
         call' = [call EXCEPT ![t] = c], UNCHANGED sockets,
         "room" \in intent' => "room" \in intent \/ c.at = "hashRoom",
         \/ known' = known
         \/ known' = Told({"seed"})
  PROVE  Restoring'
<1>0. Typed
  BY DEF Loose
<1>1. \A s \in Threads : call'[s] = IF s = t THEN c ELSE call[s]
  BY <1>0 DEF Typed
<1>2. Asking => Asking'
  BY <1>1 DEF Asking
<1>3. c.at = "hashRoom" => Asking'
  BY <1>1 DEF Asking
<1>4. IsOpen /\ "room" \in known[signaling] => "room" \in known'[signaling]
  BY <1>0, ToldKeeps
<1> QED BY <1>2, <1>3, <1>4, RestoringStays

LEMMA RestoreRestores ==
  ASSUME Loose, NEW g \in Sockets, signaling' = g, socket'[g] = "open", UNCHANGED known,
         call'["rec"] = AtRest(Restore(TRUE)), intent' = Wished(Restore(TRUE)),
         restoring' = (IF Unmistaken(g) THEN g ELSE 0)
  PROVE  Restoring'
<1> DEFINE c == Restore(TRUE)
<1>1. intent \subseteq Wishes /\ roomJoined \in BOOLEAN
  BY DEF Loose, Typed, Flags
<1>2. /\ c.at # "hashRoom" => ("room" \in intent => roomJoined)
      /\ c.at \notin {"done", "failed"} => AtRest(c) = c
  BY <1>1, RestoreIs
<1>3. c.at # "hashRoom" => intent' = intent
  BY <1>1, WishedIs
<1> HIDE DEF c
<1>4. CASE c.at = "hashRoom"
  <2>1. call'["rec"].at = "hashRoom"
    BY <1>2, <1>4 DEF c
  <2>2. Asking'
    BY <2>1 DEF Asking, Threads
  <2> QED BY <2>2, SocketsAre DEF Restoring, IsOpen
<1>5. CASE c.at # "hashRoom"
  BY <1>2, <1>3, <1>5, SocketsAre DEF Restoring, IsOpen, Unmistaken
<1> QED BY <1>4, <1>5

LEMMA OpenedRestores ==
  ASSUME Loose, Restoring, NEW g \in Sockets, Opened(g)
  PROVE  Restoring'
<1>0. Typed
  BY DEF Loose
<1>1. /\ socket[g] = "connecting" /\ socket' = [socket EXCEPT ![g] = "open"]
      /\ UNCHANGED <<signaling, known>>
  BY DEF Opened, server
<1>2. socket'[g] = "open"
  BY <1>0, <1>1 DEF Typed
<1>3. CASE call["rec"].at = "connect" /\ call["rec"].socket = g
  <2>1. /\ call' = [call EXCEPT !["rec"] = AtRest(Restore(TRUE))] /\ intent' = Wished(Restore(TRUE))
        /\ restoring' = IF signaling = g /\ Unmistaken(g) THEN g ELSE 0
    BY <1>3 DEF Opened
  <2>2. call'["rec"] = AtRest(Restore(TRUE))
    BY <1>0, <2>1 DEF Typed, Threads
  <2>3. CASE signaling = g
    <3>1. restoring' = IF Unmistaken(g) THEN g ELSE 0
      BY <2>1, <2>3
    <3> QED BY <1>1, <1>2, <2>1, <2>2, <2>3, <3>1, RestoreRestores
  <2>4. CASE signaling # g
    BY <2>1, <2>4 DEF Restoring
  <2> QED BY <2>3, <2>4
<1>4. CASE ~(call["rec"].at = "connect" /\ call["rec"].socket = g)
  <2>1. /\ call' = IF call["app"].socket = g THEN [call EXCEPT !["app"] = Idle] ELSE call
        /\ UNCHANGED <<intent, restoring>>
    BY <1>4 DEF Opened
  <2>2. call["app"].socket = g => call["app"].at # "hashRoom"
    BY SocketsAre DEF Loose, CallsAwait, Threads
  <2>3. \A t \in Threads : call[t].at = "hashRoom" => call'[t] = call[t]
    BY <1>0, <2>1, <2>2 DEF Typed, Threads
  <2>4. Asking => Asking'
    BY <2>3 DEF Asking
  <2>5. IsOpen => socket'[signaling] = "open"
    BY <1>0, <1>1 DEF Typed, IsOpen
  <2> QED BY <1>1, <2>1, <2>4, <2>5 DEF Restoring, IsOpen
<1> QED BY <1>3, <1>4

LEMMA OnCloseRestores ==
  ASSUME Loose, Restoring, NEW g \in Sockets, OnClose(g)
  PROVE  Restoring'
<1>0. Typed
  BY DEF Loose
<1>1. /\ socket' = [socket EXCEPT ![g] = "none"] /\ known' = [known EXCEPT ![g] = {}]
      /\ restoring' = IF restoring = g THEN 0 ELSE restoring
      /\ call' = [t \in Threads |-> IF call[t].at = "connect" /\ call[t].socket = g
                                    THEN Idle ELSE call[t]]
      /\ UNCHANGED <<signaling, intent>>
  BY DEF OnClose
<1>2. SUFFICES ASSUME restoring' # 0 PROVE Restoring'
  BY DEF Restoring
<1>3. restoring' = restoring /\ restoring # g /\ restoring # 0
  BY <1>1, <1>2
<1>4. signaling = restoring /\ IsOpen /\ signaling \in Sockets
  BY <1>0, <1>3 DEF Restoring, Typed, IsOpen
<1>5. socket'[signaling] = socket[signaling] /\ known'[signaling] = known[signaling]
  BY <1>0, <1>1, <1>3, <1>4 DEF Typed
<1>6. \A t \in Threads : call[t].at = "hashRoom" => call'[t] = call[t]
  BY <1>1
<1>7. Asking => Asking'
  BY <1>6 DEF Asking
<1> QED BY <1>1, <1>3, <1>4, <1>5, <1>7 DEF Restoring, IsOpen

LEMMA TimerRestores ==
  ASSUME Loose, Restoring, ReconnectTimer
  PROVE  Restoring'
<1>0. Typed
  BY DEF Loose
<1>1. CASE connected
  <2>1. /\ call' = [call EXCEPT !["rec"] = AtRest(Restore(TRUE))] /\ intent' = Wished(Restore(TRUE))
        /\ restoring' = IF IsOpen /\ Unmistaken(signaling) THEN signaling ELSE 0
        /\ UNCHANGED <<socket, signaling, known>>
    BY <1>1 DEF ReconnectTimer, server
  <2>2. call'["rec"] = AtRest(Restore(TRUE))
    BY <1>0, <2>1 DEF Typed, Threads
  <2>3. CASE IsOpen
    <3>1. signaling \in Sockets /\ socket'[signaling] = "open"
      BY <1>0, <2>1, <2>3 DEF Typed, IsOpen
    <3>2. restoring' = IF Unmistaken(signaling) THEN signaling ELSE 0
      BY <2>1, <2>3
    <3> QED BY <2>1, <2>2, <3>1, <3>2, RestoreRestores
  <2>4. CASE ~IsOpen
    BY <2>1, <2>4 DEF Restoring
  <2> QED BY <2>3, <2>4
<1>2. CASE ~connected
  <2>1. \E g \in Sockets : Open("rec", g)
    BY <1>2 DEF ReconnectTimer
  <2> QED BY <2>1 DEF Open, Restoring
<1> QED BY <1>1, <1>2

\* '_roomJoined' moves nobody that is about to ask for the room.
LEMMA JoinedRestores ==
  ASSUME Loose, Restoring, RoomJoined, UNCHANGED <<sockets, known, intent>>
  PROVE  Restoring'
<1>1. call' = [app |-> Joined("app"), rec |-> AtRest(Joined("rec"))]
  BY DEF RoomJoined
<1>2. call'["app"] = Joined("app") /\ call'["rec"] = AtRest(Joined("rec"))
  BY <1>1
<1>3. \A t \in Threads : call[t].at = "hashRoom" => call'[t].at = "hashRoom"
  BY <1>2 DEF Joined, AtRest, Threads
<1>4. Asking => Asking'
  BY <1>3 DEF Asking
<1> QED BY <1>4, RestoringStays

LEMMA NextKeepsRestoring ==
  ASSUME Loose, Restoring, [Next]_vars
  PROVE  Restoring'
<1>0. Typed
  BY DEF Loose
<1>1. CASE Connect
  BY <1>1 DEF Connect, Open, Restoring
<1>2. CASE Teardown
  BY <1>2 DEF Teardown, Restoring
<1>3. CASE ReconnectTimer
  BY <1>3, TimerRestores
<1>4. ASSUME NEW g \in Sockets, Opened(g) \/ Lost(g) \/ Closed(g) PROVE Restoring'
  BY <1>4, OpenedRestores, OnCloseRestores DEF Lost, Closed
<1>5. CASE ListingHashed \/ \E g \in Sockets : Listing(g)
  <2>1. /\ UNCHANGED <<sockets, known, intent>>
        /\ RoomJoined \/ UNCHANGED call
    BY <1>5 DEF ListingHashed, Listing, server
  <2>2. CASE RoomJoined
    BY <2>1, <2>2, JoinedRestores
  <2>3. CASE UNCHANGED call
    BY <2>1, <2>3, QuietRestores
  <2> QED BY <2>1, <2>2, <2>3
<1>6. CASE Disconnect \/ StopPublishing \/ StopFlushed \/ UNCHANGED vars
  <2>1. UNCHANGED <<sockets, call, known>> /\ intent' \subseteq intent
    BY <1>6 DEF Disconnect, StopPublishing, StopFlushed, vars, server
  <2> QED BY <2>1, QuietRestores
<1>7. CASE LeaveRoom
  <2>1. UNCHANGED <<sockets, call>> /\ intent' = intent \ {"room"}
    BY <1>7 DEF LeaveRoom
  <2> QED BY <2>1, QuietRestores
<1>8. ASSUME NEW g \in Sockets, InUse(g) PROVE Restoring'
  <2>1. /\ UNCHANGED <<sockets, call>> /\ intent' = intent \cap {"room"}
        /\ known' = [known EXCEPT ![g] = known[g] \ {"seed"}]
    BY <1>8 DEF InUse
  <2> QED BY <2>1, QuietRestores
<1>9. CASE JoinRoom
  <2>1. /\ UNCHANGED <<sockets, known>> /\ call["app"] = Idle
        /\ call' = [call EXCEPT !["app"] = Suspended("hashRoom", {})]
    BY <1>9 DEF JoinRoom, server
  <2>2. Suspended("hashRoom", {}).at = "hashRoom"
    BY DEF Suspended
  <2> QED BY <2>1, <2>2, IdleIs, CallRestores DEF Threads
<1>10. ASSUME NEW job \in Jobs, Publish(job) PROVE Restoring'
  <2> DEFINE c == Publishing(job, TRUE, roomJoined)
  <2>1. /\ UNCHANGED <<sockets, known>> /\ call["app"] = Idle
        /\ call' = [call EXCEPT !["app"] = c] /\ intent' = Wished(call'["app"])
    BY <1>10 DEF Publish, server
  <2> HIDE DEF c
  <2>2. call'["app"] = c
    BY <1>0, <2>1 DEF Typed, Threads
  <2>3. intent' = Wished(c)
    BY <2>1, <2>2
  <2>4. "room" \in intent' => "room" \in intent \/ c.at = "hashRoom"
    BY <2>3 DEF Wished
  <2> QED BY <2>1, <2>4, IdleIs, CallRestores DEF Threads
<1>11. ASSUME NEW t \in Threads, MediaReady(t) PROVE Restoring'
  <2> DEFINE c == Enter(call[t].job, connected, roomJoined)
  <2>1. /\ UNCHANGED <<sockets, known>> /\ call[t].at = "media"
        /\ call' = [call EXCEPT ![t] = AtRest(c)] /\ intent' = Wished(c)
    BY <1>11 DEF MediaReady, server
  <2> HIDE DEF c
  <2>2. "room" \in intent' => "room" \in intent \/ AtRest(c).at = "hashRoom"
    BY <2>1 DEF Wished, AtRest
  <2> QED BY <2>1, <2>2, CallRestores
<1>12. ASSUME NEW t \in Threads, HashSeed(t) PROVE Restoring'
  <2>1. /\ UNCHANGED sockets /\ call[t].at = "hashSeed" /\ known' = Told({"seed"})
        /\ call' = [call EXCEPT ![t] = Idle] /\ intent' = (intent \cap {"room"}) \cup call[t].job
    BY <1>12 DEF HashSeed
  <2>2. "room" \notin call[t].job
    BY DEF Loose, CallsAwait
  <2> QED BY <2>1, <2>2, CallRestores
<1>13. ASSUME NEW t \in Threads, JoinTimeout(t) PROVE Restoring'
  <2>1. /\ UNCHANGED <<sockets, known, intent>> /\ call[t].at = "listing"
        /\ call' = [call EXCEPT ![t] = Idle]
    BY <1>13 DEF JoinTimeout, server
  <2> QED BY <2>1, CallRestores
<1>14. ASSUME NEW t \in Threads, HashRoom(t) PROVE Restoring'
  <2>1. UNCHANGED <<sockets, intent>> /\ known' = Told({"room"})
    BY <1>14 DEF HashRoom
  <2>2. IsOpen => "room" \in known'[signaling]
    BY <1>0, <2>1, ToldKeeps
  <2> QED BY <2>1, <2>2 DEF Restoring, IsOpen, sockets
<1> QED
  BY <1>1, <1>2, <1>3, <1>4, <1>5, <1>6, <1>7, <1>8, <1>9, <1>10, <1>11, <1>12, <1>13, <1>14
  DEF Next, App, Faults, System

\* 'reconnected' is emitted.
Restored == isReconnecting /\ ~isReconnecting' /\ reconnectAttempts' = 0

\* A call chain that ended has done it all: no kind of publishing is wanted.
LEMMA RestoreEnds ==
  ASSUME Loose, Resumed(Restore(TRUE)), intent' = Wished(Restore(TRUE)), Restored
  PROVE  intent' \cap Kinds = {}
<1>1. reconnectAttempts \in 0..MaxAttempts /\ Flags /\ intent \subseteq Wishes /\ roomJoined \in BOOLEAN
  BY DEF Loose, Typed, Flags
<1>2. Restore(TRUE).at = "done"
  BY <1>1, ResumedIs DEF Restored
<1>3. intent \cap Kinds = {}
  BY <1>1, <1>2, RestoreIs
<1>4. intent' = intent
  BY <1>1, <1>2, WishedIs
<1> QED BY <1>3, <1>4

LEMMA StepRestores ==
  ASSUME Loose, Loose', Restoring', [Next]_vars, Restored, restoring' # 0, call["app"] = Idle
  PROVE  /\ IsOpen'
         /\ ("room" \in intent' => Holds("room")')
         /\ (intent' \cap Kinds # {} => Holds("seed")')
<1>0. Typed /\ reconnectAttempts \in 0..MaxAttempts /\ Flags /\ intent \subseteq Wishes
  BY DEF Loose, Typed
<1>1. IsOpen'
  BY DEF Restoring
<1>2. ~UNCHANGED recovery
  BY DEF Restored, recovery
<1>3. ~Retry
  BY <1>0, RetryIs DEF Restored
<1>4. ~Attempt
  <2>1. ~(isReconnecting' = TRUE)
    BY DEF Restored
  <2> QED BY <1>2, <2>1 DEF Attempt
<1>5. call'["rec"] = Idle
  BY DEF Loose, Paced, Restored
<1>6. \/ ReconnectTimer
      \/ \E g \in Sockets : Opened(g) \/ Listing(g)
      \/ \E t \in Threads : MediaReady(t) \/ HashSeed(t)
      \/ ListingHashed
  <2>1. ~Connect /\ ~JoinRoom /\ ~LeaveRoom /\ ~StopFlushed /\ ~Teardown /\ ~UNCHANGED vars
    BY <1>2 DEF Connect, JoinRoom, LeaveRoom, StopFlushed, Teardown, vars
  <2>2. ~Disconnect /\ ~StopPublishing
    BY <1>2 DEF Disconnect, StopPublishing, Restored
  <2>3. \A job \in Jobs : ~Publish(job)
    BY <1>2 DEF Publish
  <2>4. \A g \in Sockets : ~Lost(g) /\ ~Closed(g) /\ ~InUse(g)
    BY <1>2, <1>3, <1>4 DEF Lost, Closed, OnClose, InUse
  <2>5. \A t \in Threads : ~HashRoom(t) /\ ~JoinTimeout(t)
    BY <1>2, <1>3 DEF HashRoom, JoinTimeout
  <2> QED BY <2>1, <2>2, <2>3, <2>4, <2>5 DEF Next, App, Faults, System
<1>7. call'["app"] = Idle /\ (intent' \cap Kinds # {} => Holds("seed")')
  <2>1. CASE ReconnectTimer
    <3>1. CASE connected
      <4>1. /\ call' = [call EXCEPT !["rec"] = AtRest(Restore(TRUE))]
            /\ Resumed(Restore(TRUE)) /\ intent' = Wished(Restore(TRUE))
        BY <2>1, <3>1 DEF ReconnectTimer
      <4>2. call'["app"] = call["app"]
        BY <1>0, <4>1 DEF Typed, Threads
      <4> QED BY <4>1, <4>2, RestoreEnds
    <3>2. CASE ~connected
      <4>1. \E g \in Sockets : Open("rec", g)
        BY <2>1, <3>2 DEF ReconnectTimer
      <4> QED BY <4>1 DEF Open
    <3> QED BY <3>1, <3>2
  <2>2. ASSUME NEW g \in Sockets, Opened(g)
        PROVE  call'["app"] = Idle /\ (intent' \cap Kinds # {} => Holds("seed")')
    <3>1. CASE call["rec"].at = "connect" /\ call["rec"].socket = g
      <4>1. /\ call' = [call EXCEPT !["rec"] = AtRest(Restore(TRUE))]
            /\ Resumed(Restore(TRUE)) /\ intent' = Wished(Restore(TRUE))
        BY <2>2, <3>1 DEF Opened
      <4>2. call'["app"] = call["app"]
        BY <1>0, <4>1 DEF Typed, Threads
      <4> QED BY <4>1, <4>2, RestoreEnds
    <3>2. CASE ~(call["rec"].at = "connect" /\ call["rec"].socket = g)
      BY <2>2, <3>2 DEF Opened, Restored
    <3> QED BY <3>1, <3>2
  <2>3. ASSUME NEW t \in Threads, MediaReady(t) PROVE FALSE
    <3> DEFINE c == Enter(call[t].job, connected, roomJoined)
    <3>1. call[t].job \in SUBSET Wishes /\ "room" \notin call[t].job
      BY <1>0 DEF Typed, Suspensions, Loose, CallsAwait
    <3>2. c.at # "done"
      BY <3>1, EnterIs
    <3>3. Resumed(c) \/ UNCHANGED recovery
      BY <2>3 DEF MediaReady
    <3> HIDE DEF c
    <3> QED BY <1>0, <1>2, <3>2, <3>3, ResumedIs DEF Restored
  <2>4. ASSUME NEW t \in Threads, HashSeed(t)
        PROVE  call'["app"] = Idle /\ (intent' \cap Kinds # {} => Holds("seed")')
    <3>1. /\ call[t].at = "hashSeed" /\ known' = Told({"seed"}) /\ UNCHANGED sockets
          /\ call' = [call EXCEPT ![t] = Idle]
      BY <2>4 DEF HashSeed
    <3>2. call'["app"] = Idle
      BY <1>0, <3>1 DEF Typed, Threads
    <3>3. IsOpen
      BY <1>1, <3>1 DEF IsOpen, sockets
    <3>4. "seed" \in known'[signaling]
      BY <1>0, <3>1, <3>3, ToldKeeps
    <3> QED BY <1>1, <3>1, <3>2, <3>4 DEF Holds, sockets
  <2>5. CASE ListingHashed \/ \E g \in Sockets : Listing(g)
    <3>1. RoomJoined /\ UNCHANGED intent
      BY <1>2, <2>5 DEF ListingHashed, Listing
    <3>2. call' = [app |-> Joined("app"), rec |-> AtRest(Joined("rec"))]
      BY <3>1 DEF RoomJoined
    <3>3. call'["app"] = Joined("app")
      BY <3>2
    <3>4. Joined("app") = Idle
      BY IdleIs DEF Joined
    <3>5. call["rec"] # Joined("rec") /\ Resumed(Joined("rec"))
      BY <1>2, <3>1 DEF RoomJoined
    <3>6. Joined("rec").at = "done"
      BY <1>0, <3>5, ResumedIs DEF Restored
    <3>7. call["rec"] \in Suspensions /\ "room" \notin call["rec"].job
      BY <1>0 DEF Typed, Threads, Loose, CallsAwait
    <3>8. intent \cap Kinds = {}
      BY <1>0, <3>5, <3>6, <3>7, JoinedIs DEF Threads
    <3> QED BY <3>1, <3>3, <3>4, <3>8
  <2> QED BY <1>6, <2>1, <2>2, <2>3, <2>4, <2>5
<1>8. ~Asking'
  BY <1>5, <1>7, IdleIs DEF Asking, Threads
<1>9. "room" \in intent' => Holds("room")'
  BY <1>1, <1>8 DEF Restoring, Holds
<1> QED BY <1>1, <1>7, <1>9

\* 'reconnected' is emitted on a socket that was not lost or replaced since its
\* restoration began only when the server holds the room and the stream that are
\* wanted, whatever calls overlap.
THEOREM ReconnectionIsComplete == Spec => ReconnectedIsRestored
<1>1. Init => Restoring
  BY DEF Init, Restoring
<1>2. Loose /\ Loose' /\ Restoring /\ [Next]_vars =>
        /\ Restoring'
        /\ [(isReconnecting /\ ~isReconnecting' /\ reconnectAttempts' = 0
             /\ restoring' # 0 /\ call["app"] = Idle) =>
              /\ IsOpen'
              /\ ("room" \in intent' => Holds("room")')
              /\ (intent' \cap Kinds # {} => Holds("seed")')]_vars
  <2> SUFFICES ASSUME Loose, Loose', Restoring, [Next]_vars
               PROVE  /\ Restoring'
                      /\ (isReconnecting /\ ~isReconnecting' /\ reconnectAttempts' = 0
                          /\ restoring' # 0 /\ call["app"] = Idle) =>
                            /\ IsOpen'
                            /\ ("room" \in intent' => Holds("room")')
                            /\ (intent' \cap Kinds # {} => Holds("seed")')
    OBVIOUS
  <2>1. Restoring'
    BY NextKeepsRestoring
  <2> QED BY <2>1, StepRestores DEF Restored
<1> QED BY <1>1, <1>2, LooseHolds, PTL DEF Spec, ReconnectedIsRestored
=============================================================================
