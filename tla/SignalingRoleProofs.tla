------------------------ MODULE SignalingRoleProofs ------------------------
(***************************************************************************)
(* Theorems about SignalingRole, with and without a room, for any peers    *)
(* and any number of lost connections.                                     *)
(***************************************************************************)
EXTENDS SignalingRole, TLAPS

\* TypeOK in two parts: the flags and the rest.
FlagTypes ==
  /\ room \in BOOLEAN /\ heard \in BOOLEAN /\ roomJoined \in BOOLEAN
  /\ roleAnnounced \in BOOLEAN /\ cool \in BOOLEAN /\ refused \in BOOLEAN /\ rejected \in BOOLEAN
  /\ publishing \in BOOLEAN
DataTypes ==
  /\ mode \in {"publish", "play"} /\ room \in Rooms
  /\ link \in {"down", "up", "lost"} /\ server \in {"new", "joining", "joined"}
  /\ ix \in {"idle", "opened", "posting", "announcing", "refreshing", "alerting", "closing"}
  /\ peer \in [Slots -> PeerStates] /\ drops \in 0..Drops
  /\ status \in {"other", "connected", "publishing", "rejected"}

LEMMA TypesAreTypeOK == TypeOK <=> FlagTypes /\ DataTypes
  BY RoomAssumption DEF TypeOK, FlagTypes, DataTypes

\* What the flags say of this connection, except while the callback that clears
\* them is still to come: the server has the room joined and knows the publisher.
FlagsAreTrue ==
  link = "up" /\ ix # "opened" =>
    /\ roomJoined => server = "joined"
    /\ mode = "publish" /\ roleAnnounced => heard

\* Where the worker's callback is says what it has done so far.
WorkerKnows ==
  /\ ix = "posting" => ~roomJoined /\ ~roleAnnounced
  /\ ix = "closing" => link = "down"
  /\ ix = "refreshing" => mode = "play"
  /\ ix = "alerting" => rejected

IInv == FlagTypes /\ DataTypes /\ FlagsAreTrue /\ WorkerKnows /\ AudioKeepsRejection

LEMMA InitInv == Init => IInv
<1> SUFFICES ASSUME Init PROVE IInv
  OBVIOUS
<1>1. FlagTypes
  BY RoomAssumption DEF Init, FlagTypes
<1>2. DataTypes
  BY BoundAssumption DEF Init, DataTypes, PeerStates
<1> QED
  BY <1>1, <1>2 DEF Init, IInv, FlagsAreTrue, WorkerKnows, AudioKeepsRejection

\* The connection opens, is lost and closes: a new one starts with the callback that
\* clears the flags.
LEMMA NetworkKeeps ==
  ASSUME IInv, Network
  PROVE  IInv'
<1> USE DEF net, flags, cooldown, publish
<1>1. CASE Open
  <2>1. FlagTypes'
    BY <1>1 DEF IInv, FlagTypes, Open
  <2>2. DataTypes'
    BY <1>1 DEF IInv, DataTypes, Open
  <2>3. FlagsAreTrue'
    BY <1>1 DEF IInv, FlagTypes, DataTypes, FlagsAreTrue, WorkerKnows, Open
  <2>4. WorkerKnows' /\ AudioKeepsRejection'
    BY <1>1 DEF IInv, FlagTypes, WorkerKnows, AudioKeepsRejection, Open
  <2> QED
    BY <2>1, <2>2, <2>3, <2>4 DEF IInv
<1>2. CASE Drop
  <2>1. FlagTypes'
    BY <1>2 DEF IInv, FlagTypes, Drop
  <2>2. DataTypes'
    BY <1>2, BoundAssumption DEF IInv, DataTypes, Drop
  <2>3. FlagsAreTrue'
    BY <1>2 DEF IInv, FlagTypes, DataTypes, FlagsAreTrue, WorkerKnows, Drop
  <2>4. WorkerKnows' /\ AudioKeepsRejection'
    BY <1>2 DEF IInv, FlagTypes, WorkerKnows, AudioKeepsRejection, Drop
  <2> QED
    BY <2>1, <2>2, <2>3, <2>4 DEF IInv
<1>3. CASE Close
  <2>1. FlagTypes'
    BY <1>3 DEF IInv, FlagTypes, Close
  <2>2. DataTypes'
    BY <1>3 DEF IInv, DataTypes, Close
  <2>3. FlagsAreTrue'
    BY <1>3 DEF IInv, FlagTypes, DataTypes, FlagsAreTrue, WorkerKnows, Close
  <2>4. WorkerKnows' /\ AudioKeepsRejection'
    BY <1>3 DEF IInv, FlagTypes, WorkerKnows, AudioKeepsRejection, Close
  <2> QED
    BY <2>1, <2>2, <2>3, <2>4 DEF IInv
<1> QED
  BY <1>1, <1>2, <1>3 DEF Network

\* The callbacks of the WebSocket worker: the role is announced only where the server
\* serves it.
LEMMA WorkerKeeps ==
  ASSUME IInv, Worker
  PROVE  IInv'
<1> USE DEF net, flags, cooldown, publish
<1>1. CASE Opened
  <2>1. FlagTypes'
    BY <1>1 DEF IInv, FlagTypes, Opened
  <2>2. DataTypes'
    BY <1>1 DEF IInv, DataTypes, Opened
  <2>3. FlagsAreTrue'
    BY <1>1 DEF IInv, FlagTypes, DataTypes, FlagsAreTrue, WorkerKnows, Opened
  <2>4. WorkerKnows' /\ AudioKeepsRejection'
    BY <1>1 DEF IInv, FlagTypes, WorkerKnows, AudioKeepsRejection, Opened
  <2> QED
    BY <2>1, <2>2, <2>3, <2>4 DEF IInv
<1>2. CASE PostInitialRequests
  <2>1. FlagTypes'
    BY <1>2 DEF IInv, FlagTypes, PostInitialRequests, SendJoin
  <2>2. DataTypes'
    BY <1>2 DEF IInv, DataTypes, PostInitialRequests, SendJoin
  <2>3. FlagsAreTrue'
    BY <1>2 DEF IInv, FlagTypes, DataTypes, FlagsAreTrue, WorkerKnows, PostInitialRequests, SendJoin
  <2>4. WorkerKnows' /\ AudioKeepsRejection'
    BY <1>2 DEF IInv, FlagTypes, WorkerKnows, AudioKeepsRejection, PostInitialRequests, SendJoin
  <2> QED
    BY <2>1, <2>2, <2>3, <2>4 DEF IInv
<1>3. CASE AnnounceRole
  <2>1. FlagTypes'
    BY <1>3 DEF IInv, FlagTypes, AnnounceRole, SendRole
  <2>2. DataTypes'
    BY <1>3 DEF IInv, DataTypes, AnnounceRole, SendRole
  <2>3. FlagsAreTrue'
    BY <1>3 DEF IInv, FlagTypes, DataTypes, FlagsAreTrue, WorkerKnows, AnnounceRole, SendRole
  <2>4. WorkerKnows' /\ AudioKeepsRejection'
    BY <1>3 DEF IInv, FlagTypes, WorkerKnows, AudioKeepsRejection, AnnounceRole, SendRole
  <2> QED
    BY <2>1, <2>2, <2>3, <2>4 DEF IInv
<1>4. CASE Closed
  <2>1. FlagTypes'
    BY <1>4 DEF IInv, FlagTypes, Closed
  <2>2. DataTypes'
    BY <1>4 DEF IInv, DataTypes, Closed
  <2>3. FlagsAreTrue'
    BY <1>4 DEF IInv, FlagTypes, DataTypes, FlagsAreTrue, WorkerKnows, Closed
  <2>4. WorkerKnows' /\ AudioKeepsRejection'
    BY <1>4 DEF IInv, FlagTypes, WorkerKnows, AudioKeepsRejection, Closed
  <2> QED
    BY <2>1, <2>2, <2>3, <2>4 DEF IInv
<1>5. CASE AlertStatus
  <2>1. FlagTypes'
    BY <1>5 DEF IInv, FlagTypes, AlertStatus
  <2>2. DataTypes'
    BY <1>5 DEF IInv, DataTypes, AlertStatus
  <2>3. FlagsAreTrue'
    BY <1>5 DEF IInv, FlagTypes, DataTypes, FlagsAreTrue, WorkerKnows, AlertStatus
  <2>4. WorkerKnows' /\ AudioKeepsRejection'
    BY <1>5 DEF IInv, FlagTypes, WorkerKnows, AudioKeepsRejection, AlertStatus
  <2> QED
    BY <2>1, <2>2, <2>3, <2>4 DEF IInv
<1>6. CASE RefreshOnId
  <2>1. FlagTypes'
    BY <1>6 DEF IInv, FlagTypes, RefreshOnId, RequestPlayRefresh, SendRole
  <2>2. DataTypes'
    BY <1>6 DEF IInv, DataTypes, RefreshOnId, RequestPlayRefresh, SendRole
  <2>3. FlagsAreTrue'
    BY <1>6 DEF IInv, FlagTypes, DataTypes, FlagsAreTrue, WorkerKnows, RefreshOnId, RequestPlayRefresh, SendRole
  <2>4. WorkerKnows' /\ AudioKeepsRejection'
    BY <1>6 DEF IInv, FlagTypes, WorkerKnows, AudioKeepsRejection, RefreshOnId, RequestPlayRefresh, SendRole
  <2> QED
    BY <2>1, <2>2, <2>3, <2>4 DEF IInv
<1> QED
  BY <1>1, <1>2, <1>3, <1>4, <1>5, <1>6 DEF Worker

\* Messages of the server find the worker idle.
LEMMA ServerMessagesKeeps ==
  ASSUME IInv, ServerMessages
  PROVE  IInv'
<1> USE DEF net, flags, cooldown, publish
<1>1. CASE HandleListing
  <2>1. FlagTypes'
    BY <1>1 DEF IInv, FlagTypes, HandleListing
  <2>2. DataTypes'
    BY <1>1 DEF IInv, DataTypes, HandleListing
  <2>3. FlagsAreTrue'
    BY <1>1 DEF IInv, FlagTypes, DataTypes, FlagsAreTrue, WorkerKnows, HandleListing
  <2>4. WorkerKnows' /\ AudioKeepsRejection'
    BY <1>1 DEF IInv, FlagTypes, WorkerKnows, AudioKeepsRejection, HandleListing
  <2> QED
    BY <2>1, <2>2, <2>3, <2>4 DEF IInv
<1>2. CASE HandleId
  <2>1. FlagTypes'
    BY <1>2 DEF IInv, FlagTypes, HandleId
  <2>2. DataTypes'
    BY <1>2 DEF IInv, DataTypes, HandleId
  <2>3. FlagsAreTrue'
    BY <1>2 DEF IInv, FlagTypes, DataTypes, FlagsAreTrue, WorkerKnows, HandleId
  <2>4. WorkerKnows' /\ AudioKeepsRejection'
    BY <1>2 DEF IInv, FlagTypes, WorkerKnows, AudioKeepsRejection, HandleId
  <2> QED
    BY <2>1, <2>2, <2>3, <2>4 DEF IInv
<1>3. CASE HandleAlert
  <2>1. FlagTypes'
    BY <1>3 DEF IInv, FlagTypes, HandleAlert
  <2>2. DataTypes'
    BY <1>3 DEF IInv, DataTypes, HandleAlert
  <2>3. FlagsAreTrue'
    BY <1>3 DEF IInv, FlagTypes, DataTypes, FlagsAreTrue, WorkerKnows, HandleAlert
  <2>4. WorkerKnows' /\ AudioKeepsRejection'
    BY <1>3 DEF IInv, FlagTypes, WorkerKnows, AudioKeepsRejection, HandleAlert
  <2> QED
    BY <2>1, <2>2, <2>3, <2>4 DEF IInv
<1> QED
  BY <1>1, <1>2, <1>3 DEF ServerMessages

\* The audio worker and the clock.
LEMMA OthersKeep ==
  ASSUME IInv, CooldownEnds \/ PushOutgoingAudio
  PROVE  IInv'
<1> USE DEF net, flags, cooldown, publish
<1>1. CASE CooldownEnds
  <2>1. FlagTypes'
    BY <1>1 DEF IInv, FlagTypes, CooldownEnds
  <2>2. DataTypes'
    BY <1>1 DEF IInv, DataTypes, CooldownEnds
  <2>3. FlagsAreTrue'
    BY <1>1 DEF IInv, FlagTypes, DataTypes, FlagsAreTrue, WorkerKnows, CooldownEnds
  <2>4. WorkerKnows' /\ AudioKeepsRejection'
    BY <1>1 DEF IInv, FlagTypes, WorkerKnows, AudioKeepsRejection, CooldownEnds
  <2> QED
    BY <2>1, <2>2, <2>3, <2>4 DEF IInv
<1>2. CASE PushOutgoingAudio
  <2>1. FlagTypes'
    BY <1>2 DEF IInv, FlagTypes, PushOutgoingAudio
  <2>2. DataTypes'
    BY <1>2 DEF IInv, DataTypes, PushOutgoingAudio
  <2>3. FlagsAreTrue'
    BY <1>2 DEF IInv, FlagTypes, DataTypes, FlagsAreTrue, WorkerKnows, PushOutgoingAudio
  <2>4. WorkerKnows' /\ AudioKeepsRejection'
    BY <1>2 DEF IInv, FlagTypes, WorkerKnows, AudioKeepsRejection, PushOutgoingAudio
  <2> QED
    BY <2>1, <2>2, <2>3, <2>4 DEF IInv
<1> QED
  BY <1>1, <1>2

\* What becomes of a peer, and the refresh that the end of one asks for.
LEMMA PeersKeep ==
  ASSUME IInv, NEW s \in Slots,
         PeerArrives(s) \/ PeerConnects(s) \/ PeerFails(s) \/ RtcCallback(s)
  PROVE  IInv'
<1> USE DEF net, flags, cooldown, publish
<1>1. CASE PeerArrives(s)
  <2>1. FlagTypes'
    BY <1>1 DEF IInv, FlagTypes, PeerArrives
  <2>2. DataTypes'
    BY <1>1 DEF IInv, DataTypes, PeerArrives, PeerStates
  <2>3. FlagsAreTrue'
    BY <1>1 DEF IInv, FlagTypes, DataTypes, FlagsAreTrue, WorkerKnows, PeerArrives
  <2>4. WorkerKnows' /\ AudioKeepsRejection'
    BY <1>1 DEF IInv, FlagTypes, WorkerKnows, AudioKeepsRejection, PeerArrives
  <2> QED
    BY <2>1, <2>2, <2>3, <2>4 DEF IInv
<1>2. CASE PeerConnects(s)
  <2>1. FlagTypes'
    BY <1>2 DEF IInv, FlagTypes, PeerConnects
  <2>2. DataTypes'
    BY <1>2 DEF IInv, DataTypes, PeerConnects, PeerStates, InTable
  <2>3. FlagsAreTrue'
    BY <1>2 DEF IInv, FlagTypes, DataTypes, FlagsAreTrue, WorkerKnows, PeerConnects
  <2>4. WorkerKnows' /\ AudioKeepsRejection'
    BY <1>2 DEF IInv, FlagTypes, WorkerKnows, AudioKeepsRejection, PeerConnects
  <2> QED
    BY <2>1, <2>2, <2>3, <2>4 DEF IInv
<1>3. CASE PeerFails(s)
  <2>1. FlagTypes'
    BY <1>3 DEF IInv, FlagTypes, PeerFails
  <2>2. DataTypes'
    BY <1>3 DEF IInv, DataTypes, PeerFails, PeerStates
  <2>3. FlagsAreTrue'
    BY <1>3 DEF IInv, FlagTypes, DataTypes, FlagsAreTrue, WorkerKnows, PeerFails
  <2>4. WorkerKnows' /\ AudioKeepsRejection'
    BY <1>3 DEF IInv, FlagTypes, WorkerKnows, AudioKeepsRejection, PeerFails
  <2> QED
    BY <2>1, <2>2, <2>3, <2>4 DEF IInv
<1>4. CASE PeerRemoved(s)
  <2>1. FlagTypes'
    BY <1>4 DEF IInv, FlagTypes, PeerRemoved
  <2>2. DataTypes'
    BY <1>4 DEF IInv, DataTypes, PeerRemoved, PeerStates
  <2>3. FlagsAreTrue'
    BY <1>4 DEF IInv, FlagTypes, DataTypes, FlagsAreTrue, WorkerKnows, PeerRemoved
  <2>4. WorkerKnows' /\ AudioKeepsRejection'
    BY <1>4 DEF IInv, FlagTypes, WorkerKnows, AudioKeepsRejection, PeerRemoved
  <2> QED
    BY <2>1, <2>2, <2>3, <2>4 DEF IInv
<1>5. CASE PeerEnded(s)
  <2>1. FlagTypes'
    BY <1>5 DEF IInv, FlagTypes, PeerEnded
  <2>2. DataTypes'
    BY <1>5 DEF IInv, DataTypes, PeerEnded, PeerStates
  <2>3. FlagsAreTrue'
    BY <1>5 DEF IInv, FlagTypes, DataTypes, FlagsAreTrue, WorkerKnows, PeerEnded
  <2>4. WorkerKnows' /\ AudioKeepsRejection'
    BY <1>5 DEF IInv, FlagTypes, WorkerKnows, AudioKeepsRejection, PeerEnded
  <2> QED
    BY <2>1, <2>2, <2>3, <2>4 DEF IInv
<1>6. CASE RefreshOnEnd(s)
  <2>1. FlagTypes'
    BY <1>6 DEF IInv, FlagTypes, RefreshOnEnd, RequestPlayRefresh, SendRole
  <2>2. DataTypes'
    BY <1>6 DEF IInv, DataTypes, RefreshOnEnd, RequestPlayRefresh, SendRole, PeerStates
  <2>3. FlagsAreTrue'
    BY <1>6 DEF IInv, FlagTypes, DataTypes, FlagsAreTrue, WorkerKnows, RefreshOnEnd, RequestPlayRefresh, SendRole
  <2>4. WorkerKnows' /\ AudioKeepsRejection'
    BY <1>6 DEF IInv, FlagTypes, WorkerKnows, AudioKeepsRejection, RefreshOnEnd, RequestPlayRefresh, SendRole
  <2> QED
    BY <2>1, <2>2, <2>3, <2>4 DEF IInv
<1> QED
  BY <1>1, <1>2, <1>3, <1>4, <1>5, <1>6 DEF RtcCallback

\* IInv holds in every reachable state.
THEOREM InvHolds == Spec => []IInv
<1>1. IInv /\ [Next]_vars => IInv'
  <2> SUFFICES ASSUME IInv, [Next]_vars PROVE IInv'
    OBVIOUS
  <2>1. CASE Next
    BY <2>1, NetworkKeeps, WorkerKeeps, ServerMessagesKeeps, OthersKeep, PeersKeep DEF Next
  <2>2. CASE UNCHANGED vars
    BY <2>2 DEF vars, net, flags, cooldown, publish, IInv, FlagTypes, DataTypes, FlagsAreTrue,
         WorkerKnows, AudioKeepsRejection
  <2> QED
    BY <2>1, <2>2
<1> QED
  BY InitInv, <1>1, PTL DEF Spec

\* Every variable of the signaling role keeps its type.
THEOREM TypesHold == Spec => []TypeOK
<1>1. IInv => TypeOK
  BY TypesAreTypeOK DEF IInv
<1> QED
  BY <1>1, InvHolds, PTL

\* A publisher that takes itself for announced is known on the connection it has now,
\* in whatever order connections were lost, opened and joined.
THEOREM AnnouncedIsKnown == Spec => []AnnouncedIsHeard
<1>1. IInv => AnnouncedIsHeard
  BY DEF IInv, FlagsAreTrue, AnnouncedIsHeard
<1> QED
  BY <1>1, InvHolds, PTL

\* The audio worker never reports "Publishing audio" over a rejection that stands,
\* in whatever order alerts, announcements, peers and lost connections come.  What a
\* viewer's connecting reports is not its doing.
THEOREM AudioWorkerKeepsRejection == Spec => []AudioKeepsRejection
<1>1. IInv => AudioKeepsRejection
  BY DEF IInv
<1> QED
  BY <1>1, InvHolds, PTL

-----------------------------------------------------------------------------
(* What SeedRestored and PlayRecovers rest on: on a connection that lasts a    *)
(* role that the server does not hold is always about to be announced.        *)

\* What the role is sent to reaches a server that serves it.
Reply == room => roomJoined /\ server = "joined"

\* Until the role is announced the handshake of this connection is under way.
HandshakeDue ==
  link = "up" /\ ix # "opened" /\ ~roleAnnounced =>
    \/ ix = "posting"
    \/ room /\ server = "joining" /\ ix = "idle"
    \/ ix = "announcing" /\ Reply

RoomFirst == roleAnnounced => (room => roomJoined)

\* What the server holds it holds for this connection, and of a publisher that has
\* announced itself on it.
HeardOf ==
  /\ heard => link = "up"
  /\ heard /\ mode = "publish" => roleAnnounced /\ ix # "opened"
  /\ ix = "refreshing" => roleAnnounced

Live == {s \in Slots : peer[s] \in {"new", "connected"}}

\* A viewer that is announced, holds no peer and waits for none has lost one whose end
\* is still to ask for another, or the cooldown turned that request down.
PlayDue ==
  mode = "play" /\ link = "up" /\ ix # "opened" /\ ~heard /\ ~refused /\ roleAnnounced /\ Live = {} =>
    \E s \in Slots : peer[s] \in {"failing", "recovering", "refresh"}

Going == HandshakeDue /\ RoomFirst /\ HeardOf /\ PlayDue

\* The connection: one that opens starts from the callback that clears the flags.
LEMMA NetworkGoesOn ==
  ASSUME IInv, Going, Network
  PROVE  Going'
<1> USE DEF net, flags, cooldown, publish
<1>1. CASE Open
  <2>1. HandshakeDue'
    BY <1>1 DEF IInv, FlagTypes, DataTypes, Going, WorkerKnows, FlagsAreTrue, HandshakeDue, RoomFirst, HeardOf, Reply, Open
  <2>2. RoomFirst'
    BY <1>1 DEF IInv, FlagTypes, DataTypes, Going, HandshakeDue, RoomFirst, HeardOf, WorkerKnows, Open
  <2>3. HeardOf'
    BY <1>1 DEF IInv, FlagTypes, DataTypes, Going, HeardOf, WorkerKnows, FlagsAreTrue, RoomFirst, Open
  <2>4. PlayDue'
    BY <1>1 DEF IInv, FlagTypes, DataTypes, Going, PlayDue, HandshakeDue, RoomFirst, HeardOf, FlagsAreTrue, WorkerKnows, Live, Healthy, PeerStates, Reply, Open
  <2> QED
    BY <2>1, <2>2, <2>3, <2>4 DEF Going
<1>2. CASE Drop
  <2>1. HandshakeDue'
    BY <1>2 DEF IInv, FlagTypes, DataTypes, Going, WorkerKnows, FlagsAreTrue, HandshakeDue, RoomFirst, HeardOf, Reply, Drop
  <2>2. RoomFirst'
    BY <1>2 DEF IInv, FlagTypes, DataTypes, Going, HandshakeDue, RoomFirst, HeardOf, WorkerKnows, Drop
  <2>3. HeardOf'
    BY <1>2 DEF IInv, FlagTypes, DataTypes, Going, HeardOf, WorkerKnows, FlagsAreTrue, RoomFirst, Drop
  <2>4. PlayDue'
    BY <1>2 DEF IInv, FlagTypes, DataTypes, Going, PlayDue, HandshakeDue, RoomFirst, HeardOf, FlagsAreTrue, WorkerKnows, Live, Healthy, PeerStates, Reply, Drop
  <2> QED
    BY <2>1, <2>2, <2>3, <2>4 DEF Going
<1>3. CASE Close
  <2>1. HandshakeDue'
    BY <1>3 DEF IInv, FlagTypes, DataTypes, Going, WorkerKnows, FlagsAreTrue, HandshakeDue, RoomFirst, HeardOf, Reply, Close
  <2>2. RoomFirst'
    BY <1>3 DEF IInv, FlagTypes, DataTypes, Going, HandshakeDue, RoomFirst, HeardOf, WorkerKnows, Close
  <2>3. HeardOf'
    BY <1>3 DEF IInv, FlagTypes, DataTypes, Going, HeardOf, WorkerKnows, FlagsAreTrue, RoomFirst, Close
  <2>4. PlayDue'
    BY <1>3 DEF IInv, FlagTypes, DataTypes, Going, PlayDue, HandshakeDue, RoomFirst, HeardOf, FlagsAreTrue, WorkerKnows, Live, Healthy, PeerStates, Reply, Close
  <2> QED
    BY <2>1, <2>2, <2>3, <2>4 DEF Going
<1> QED
  BY <1>1, <1>2, <1>3 DEF Network

\* The callbacks of the WebSocket worker: each hands on to the next, or to the server.
LEMMA WorkerGoesOn ==
  ASSUME IInv, Going, Worker
  PROVE  Going'
<1> USE DEF net, flags, cooldown, publish
<1>1. CASE Opened
  <2>1. HandshakeDue'
    BY <1>1 DEF IInv, FlagTypes, DataTypes, Going, WorkerKnows, FlagsAreTrue, HandshakeDue, RoomFirst, HeardOf, Reply, Opened
  <2>2. RoomFirst'
    BY <1>1 DEF IInv, FlagTypes, DataTypes, Going, HandshakeDue, RoomFirst, HeardOf, WorkerKnows, Opened
  <2>3. HeardOf'
    BY <1>1 DEF IInv, FlagTypes, DataTypes, Going, HeardOf, WorkerKnows, FlagsAreTrue, RoomFirst, Opened
  <2>4. PlayDue'
    BY <1>1 DEF IInv, FlagTypes, DataTypes, Going, PlayDue, HandshakeDue, RoomFirst, HeardOf, FlagsAreTrue, WorkerKnows, Live, Healthy, PeerStates, Reply, Opened
  <2> QED
    BY <2>1, <2>2, <2>3, <2>4 DEF Going
<1>2. CASE PostInitialRequests
  <2>1. HandshakeDue'
    BY <1>2 DEF IInv, FlagTypes, DataTypes, Going, WorkerKnows, FlagsAreTrue, HandshakeDue, RoomFirst, HeardOf, Reply, PostInitialRequests, SendJoin
  <2>2. RoomFirst'
    BY <1>2 DEF IInv, FlagTypes, DataTypes, Going, HandshakeDue, RoomFirst, HeardOf, WorkerKnows, PostInitialRequests, SendJoin
  <2>3. HeardOf'
    BY <1>2 DEF IInv, FlagTypes, DataTypes, Going, HeardOf, WorkerKnows, FlagsAreTrue, RoomFirst, PostInitialRequests, SendJoin
  <2>4. PlayDue'
    BY <1>2 DEF IInv, FlagTypes, DataTypes, Going, PlayDue, HandshakeDue, RoomFirst, HeardOf, FlagsAreTrue, WorkerKnows, Live, Healthy, PeerStates, Reply, PostInitialRequests, SendJoin
  <2> QED
    BY <2>1, <2>2, <2>3, <2>4 DEF Going
<1>3. CASE AnnounceRole
  <2>1. HandshakeDue'
    BY <1>3 DEF IInv, FlagTypes, DataTypes, Going, WorkerKnows, FlagsAreTrue, HandshakeDue, RoomFirst, HeardOf, Reply, AnnounceRole, SendRole
  <2>2. RoomFirst'
    BY <1>3 DEF IInv, FlagTypes, DataTypes, Going, HandshakeDue, RoomFirst, HeardOf, WorkerKnows, AnnounceRole, SendRole
  <2>3. HeardOf'
    BY <1>3 DEF IInv, FlagTypes, DataTypes, Going, HeardOf, WorkerKnows, FlagsAreTrue, RoomFirst, AnnounceRole, SendRole
  <2>4. PlayDue'
    BY <1>3 DEF IInv, FlagTypes, DataTypes, Going, PlayDue, HandshakeDue, RoomFirst, HeardOf, FlagsAreTrue, WorkerKnows, Live, Healthy, PeerStates, Reply, AnnounceRole, SendRole
  <2> QED
    BY <2>1, <2>2, <2>3, <2>4 DEF Going
<1>4. CASE Closed
  <2>1. HandshakeDue'
    BY <1>4 DEF IInv, FlagTypes, DataTypes, Going, WorkerKnows, FlagsAreTrue, HandshakeDue, RoomFirst, HeardOf, Reply, Closed
  <2>2. RoomFirst'
    BY <1>4 DEF IInv, FlagTypes, DataTypes, Going, HandshakeDue, RoomFirst, HeardOf, WorkerKnows, Closed
  <2>3. HeardOf'
    BY <1>4 DEF IInv, FlagTypes, DataTypes, Going, HeardOf, WorkerKnows, FlagsAreTrue, RoomFirst, Closed
  <2>4. PlayDue'
    BY <1>4 DEF IInv, FlagTypes, DataTypes, Going, PlayDue, HandshakeDue, RoomFirst, HeardOf, FlagsAreTrue, WorkerKnows, Live, Healthy, PeerStates, Reply, Closed
  <2> QED
    BY <2>1, <2>2, <2>3, <2>4 DEF Going
<1>5. CASE AlertStatus
  <2>1. HandshakeDue'
    BY <1>5 DEF IInv, FlagTypes, DataTypes, Going, WorkerKnows, FlagsAreTrue, HandshakeDue, RoomFirst, HeardOf, Reply, AlertStatus
  <2>2. RoomFirst'
    BY <1>5 DEF IInv, FlagTypes, DataTypes, Going, HandshakeDue, RoomFirst, HeardOf, WorkerKnows, AlertStatus
  <2>3. HeardOf'
    BY <1>5 DEF IInv, FlagTypes, DataTypes, Going, HeardOf, WorkerKnows, FlagsAreTrue, RoomFirst, AlertStatus
  <2>4. PlayDue'
    BY <1>5 DEF IInv, FlagTypes, DataTypes, Going, PlayDue, HandshakeDue, RoomFirst, HeardOf, FlagsAreTrue, WorkerKnows, Live, Healthy, PeerStates, Reply, AlertStatus
  <2> QED
    BY <2>1, <2>2, <2>3, <2>4 DEF Going
<1>6. CASE RefreshOnId
  <2>1. HandshakeDue'
    BY <1>6 DEF IInv, FlagTypes, DataTypes, Going, WorkerKnows, FlagsAreTrue, HandshakeDue, RoomFirst, HeardOf, Reply, RefreshOnId, RequestPlayRefresh, SendRole
  <2>2. RoomFirst'
    BY <1>6 DEF IInv, FlagTypes, DataTypes, Going, HandshakeDue, RoomFirst, HeardOf, WorkerKnows, RefreshOnId, RequestPlayRefresh, SendRole
  <2>3. HeardOf'
    BY <1>6 DEF IInv, FlagTypes, DataTypes, Going, HeardOf, WorkerKnows, FlagsAreTrue, RoomFirst, RefreshOnId, RequestPlayRefresh, SendRole
  <2>4. PlayDue'
    BY <1>6 DEF IInv, FlagTypes, DataTypes, Going, PlayDue, HandshakeDue, RoomFirst, HeardOf, FlagsAreTrue, WorkerKnows, Live, Healthy, PeerStates, Reply, RefreshOnId, RequestPlayRefresh, SendRole
  <2> QED
    BY <2>1, <2>2, <2>3, <2>4 DEF Going
<1> QED
  BY <1>1, <1>2, <1>3, <1>4, <1>5, <1>6 DEF Worker

\* What the server says: only the listing is of the handshake.
LEMMA ServerMessagesGoOn ==
  ASSUME IInv, Going, ServerMessages
  PROVE  Going'
<1> USE DEF net, flags, cooldown, publish
<1>1. CASE HandleListing
  <2>1. HandshakeDue'
    BY <1>1 DEF IInv, FlagTypes, DataTypes, Going, WorkerKnows, FlagsAreTrue, HandshakeDue, RoomFirst, HeardOf, Reply, HandleListing
  <2>2. RoomFirst'
    BY <1>1 DEF IInv, FlagTypes, DataTypes, Going, HandshakeDue, RoomFirst, HeardOf, WorkerKnows, HandleListing
  <2>3. HeardOf'
    BY <1>1 DEF IInv, FlagTypes, DataTypes, Going, HeardOf, WorkerKnows, FlagsAreTrue, RoomFirst, HandleListing
  <2>4. PlayDue'
    BY <1>1 DEF IInv, FlagTypes, DataTypes, Going, PlayDue, HandshakeDue, RoomFirst, HeardOf, FlagsAreTrue, WorkerKnows, Live, Healthy, PeerStates, Reply, HandleListing
  <2> QED
    BY <2>1, <2>2, <2>3, <2>4 DEF Going
<1>2. CASE HandleId
  <2>1. HandshakeDue'
    BY <1>2 DEF IInv, FlagTypes, DataTypes, Going, WorkerKnows, FlagsAreTrue, HandshakeDue, RoomFirst, HeardOf, Reply, HandleId
  <2>2. RoomFirst'
    BY <1>2 DEF IInv, FlagTypes, DataTypes, Going, HandshakeDue, RoomFirst, HeardOf, WorkerKnows, HandleId
  <2>3. HeardOf'
    BY <1>2 DEF IInv, FlagTypes, DataTypes, Going, HeardOf, WorkerKnows, FlagsAreTrue, RoomFirst, HandleId
  <2>4. PlayDue'
    BY <1>2 DEF IInv, FlagTypes, DataTypes, Going, PlayDue, HandshakeDue, RoomFirst, HeardOf, FlagsAreTrue, WorkerKnows, Live, Healthy, PeerStates, Reply, HandleId
  <2> QED
    BY <2>1, <2>2, <2>3, <2>4 DEF Going
<1>3. CASE HandleAlert
  <2>1. HandshakeDue'
    BY <1>3 DEF IInv, FlagTypes, DataTypes, Going, WorkerKnows, FlagsAreTrue, HandshakeDue, RoomFirst, HeardOf, Reply, HandleAlert
  <2>2. RoomFirst'
    BY <1>3 DEF IInv, FlagTypes, DataTypes, Going, HandshakeDue, RoomFirst, HeardOf, WorkerKnows, HandleAlert
  <2>3. HeardOf'
    BY <1>3 DEF IInv, FlagTypes, DataTypes, Going, HeardOf, WorkerKnows, FlagsAreTrue, RoomFirst, HandleAlert
  <2>4. PlayDue'
    BY <1>3 DEF IInv, FlagTypes, DataTypes, Going, PlayDue, HandshakeDue, RoomFirst, HeardOf, FlagsAreTrue, WorkerKnows, Live, Healthy, PeerStates, Reply, HandleAlert
  <2> QED
    BY <2>1, <2>2, <2>3, <2>4 DEF Going
<1> QED
  BY <1>1, <1>2, <1>3 DEF ServerMessages

\* The audio worker and the clock.
LEMMA OthersGoOn ==
  ASSUME IInv, Going, CooldownEnds \/ PushOutgoingAudio
  PROVE  Going'
<1> USE DEF net, flags, cooldown, publish
<1>1. CASE CooldownEnds
  <2>1. HandshakeDue'
    BY <1>1 DEF IInv, FlagTypes, DataTypes, Going, WorkerKnows, FlagsAreTrue, HandshakeDue, RoomFirst, HeardOf, Reply, CooldownEnds
  <2>2. RoomFirst'
    BY <1>1 DEF IInv, FlagTypes, DataTypes, Going, HandshakeDue, RoomFirst, HeardOf, WorkerKnows, CooldownEnds
  <2>3. HeardOf'
    BY <1>1 DEF IInv, FlagTypes, DataTypes, Going, HeardOf, WorkerKnows, FlagsAreTrue, RoomFirst, CooldownEnds
  <2>4. PlayDue'
    BY <1>1 DEF IInv, FlagTypes, DataTypes, Going, PlayDue, HandshakeDue, RoomFirst, HeardOf, FlagsAreTrue, WorkerKnows, Live, Healthy, PeerStates, Reply, CooldownEnds
  <2> QED
    BY <2>1, <2>2, <2>3, <2>4 DEF Going
<1>2. CASE PushOutgoingAudio
  <2>1. HandshakeDue'
    BY <1>2 DEF IInv, FlagTypes, DataTypes, Going, WorkerKnows, FlagsAreTrue, HandshakeDue, RoomFirst, HeardOf, Reply, PushOutgoingAudio
  <2>2. RoomFirst'
    BY <1>2 DEF IInv, FlagTypes, DataTypes, Going, HandshakeDue, RoomFirst, HeardOf, WorkerKnows, PushOutgoingAudio
  <2>3. HeardOf'
    BY <1>2 DEF IInv, FlagTypes, DataTypes, Going, HeardOf, WorkerKnows, FlagsAreTrue, RoomFirst, PushOutgoingAudio
  <2>4. PlayDue'
    BY <1>2 DEF IInv, FlagTypes, DataTypes, Going, PlayDue, HandshakeDue, RoomFirst, HeardOf, FlagsAreTrue, WorkerKnows, Live, Healthy, PeerStates, Reply, PushOutgoingAudio
  <2> QED
    BY <2>1, <2>2, <2>3, <2>4 DEF Going
<1> QED
  BY <1>1, <1>2

\* Peers: one that fails asks for the next, or is turned down.
LEMMA PeersGoOn ==
  ASSUME IInv, Going, NEW s \in Slots,
         PeerArrives(s) \/ PeerConnects(s) \/ PeerFails(s) \/ RtcCallback(s)
  PROVE  Going'
<1> USE DEF net, flags, cooldown, publish
<1>1. CASE PeerArrives(s)
  <2>1. HandshakeDue'
    BY <1>1 DEF IInv, FlagTypes, DataTypes, Going, WorkerKnows, FlagsAreTrue, HandshakeDue, RoomFirst, HeardOf, Reply, PeerArrives
  <2>2. RoomFirst'
    BY <1>1 DEF IInv, FlagTypes, DataTypes, Going, HandshakeDue, RoomFirst, HeardOf, WorkerKnows, PeerArrives
  <2>3. HeardOf'
    BY <1>1 DEF IInv, FlagTypes, DataTypes, Going, HeardOf, WorkerKnows, FlagsAreTrue, RoomFirst, PeerArrives
  <2>4. PlayDue'
    BY <1>1 DEF IInv, FlagTypes, DataTypes, Going, PlayDue, HandshakeDue, RoomFirst, HeardOf, FlagsAreTrue, WorkerKnows, Live, Healthy, PeerStates, Reply, PeerArrives
  <2> QED
    BY <2>1, <2>2, <2>3, <2>4 DEF Going
<1>2. CASE PeerConnects(s)
  <2>1. HandshakeDue'
    BY <1>2 DEF IInv, FlagTypes, DataTypes, Going, WorkerKnows, FlagsAreTrue, HandshakeDue, RoomFirst, HeardOf, Reply, PeerConnects, InTable
  <2>2. RoomFirst'
    BY <1>2 DEF IInv, FlagTypes, DataTypes, Going, HandshakeDue, RoomFirst, HeardOf, WorkerKnows, PeerConnects, InTable
  <2>3. HeardOf'
    BY <1>2 DEF IInv, FlagTypes, DataTypes, Going, HeardOf, WorkerKnows, FlagsAreTrue, RoomFirst, PeerConnects, InTable
  <2>4. PlayDue'
    BY <1>2 DEF IInv, FlagTypes, DataTypes, Going, PlayDue, HandshakeDue, RoomFirst, HeardOf, FlagsAreTrue, WorkerKnows, Live, Healthy, PeerStates, Reply, PeerConnects, InTable
  <2> QED
    BY <2>1, <2>2, <2>3, <2>4 DEF Going
<1>3. CASE PeerFails(s)
  <2>1. HandshakeDue'
    BY <1>3 DEF IInv, FlagTypes, DataTypes, Going, WorkerKnows, FlagsAreTrue, HandshakeDue, RoomFirst, HeardOf, Reply, PeerFails
  <2>2. RoomFirst'
    BY <1>3 DEF IInv, FlagTypes, DataTypes, Going, HandshakeDue, RoomFirst, HeardOf, WorkerKnows, PeerFails
  <2>3. HeardOf'
    BY <1>3 DEF IInv, FlagTypes, DataTypes, Going, HeardOf, WorkerKnows, FlagsAreTrue, RoomFirst, PeerFails
  <2>4. PlayDue'
    BY <1>3 DEF IInv, FlagTypes, DataTypes, Going, PlayDue, HandshakeDue, RoomFirst, HeardOf, FlagsAreTrue, WorkerKnows, Live, Healthy, PeerStates, Reply, PeerFails
  <2> QED
    BY <2>1, <2>2, <2>3, <2>4 DEF Going
<1>4. CASE PeerRemoved(s)
  <2>1. HandshakeDue'
    BY <1>4 DEF IInv, FlagTypes, DataTypes, Going, WorkerKnows, FlagsAreTrue, HandshakeDue, RoomFirst, HeardOf, Reply, PeerRemoved, Connected
  <2>2. RoomFirst'
    BY <1>4 DEF IInv, FlagTypes, DataTypes, Going, HandshakeDue, RoomFirst, HeardOf, WorkerKnows, PeerRemoved, Connected
  <2>3. HeardOf'
    BY <1>4 DEF IInv, FlagTypes, DataTypes, Going, HeardOf, WorkerKnows, FlagsAreTrue, RoomFirst, PeerRemoved, Connected
  <2>4. PlayDue'
    BY <1>4 DEF IInv, FlagTypes, DataTypes, Going, PlayDue, HandshakeDue, RoomFirst, HeardOf, FlagsAreTrue, WorkerKnows, Live, Healthy, PeerStates, Reply, PeerRemoved, Connected
  <2> QED
    BY <2>1, <2>2, <2>3, <2>4 DEF Going
<1>5. CASE PeerEnded(s)
  <2>1. HandshakeDue'
    BY <1>5 DEF IInv, FlagTypes, DataTypes, Going, WorkerKnows, FlagsAreTrue, HandshakeDue, RoomFirst, HeardOf, Reply, PeerEnded
  <2>2. RoomFirst'
    BY <1>5 DEF IInv, FlagTypes, DataTypes, Going, HandshakeDue, RoomFirst, HeardOf, WorkerKnows, PeerEnded
  <2>3. HeardOf'
    BY <1>5 DEF IInv, FlagTypes, DataTypes, Going, HeardOf, WorkerKnows, FlagsAreTrue, RoomFirst, PeerEnded
  <2>4. PlayDue'
    BY <1>5 DEF IInv, FlagTypes, DataTypes, Going, PlayDue, HandshakeDue, RoomFirst, HeardOf, FlagsAreTrue, WorkerKnows, Live, Healthy, PeerStates, Reply, PeerEnded
  <2> QED
    BY <2>1, <2>2, <2>3, <2>4 DEF Going
<1>6. CASE RefreshOnEnd(s)
  <2>1. HandshakeDue'
    BY <1>6 DEF IInv, FlagTypes, DataTypes, Going, WorkerKnows, FlagsAreTrue, HandshakeDue, RoomFirst, HeardOf, Reply, RefreshOnEnd, RequestPlayRefresh, SendRole
  <2>2. RoomFirst'
    BY <1>6 DEF IInv, FlagTypes, DataTypes, Going, HandshakeDue, RoomFirst, HeardOf, WorkerKnows, RefreshOnEnd, RequestPlayRefresh, SendRole
  <2>3. HeardOf'
    BY <1>6 DEF IInv, FlagTypes, DataTypes, Going, HeardOf, WorkerKnows, FlagsAreTrue, RoomFirst, RefreshOnEnd, RequestPlayRefresh, SendRole
  <2>4. PlayDue'
    BY <1>6 DEF IInv, FlagTypes, DataTypes, Going, PlayDue, HandshakeDue, RoomFirst, HeardOf, FlagsAreTrue, WorkerKnows, Live, Healthy, PeerStates, Reply, RefreshOnEnd, RequestPlayRefresh, SendRole
  <2> QED
    BY <2>1, <2>2, <2>3, <2>4 DEF Going
<1> QED
  BY <1>1, <1>2, <1>3, <1>4, <1>5, <1>6 DEF RtcCallback
LEMMA GoingHolds == Spec => []Going
<1>1. Init => Going
  BY DEF Init, Going, HandshakeDue, RoomFirst, HeardOf, PlayDue
<1>2. IInv /\ Going /\ [Next]_vars => Going'
  <2> SUFFICES ASSUME IInv, Going, [Next]_vars PROVE Going'
    OBVIOUS
  <2>1. CASE Next
    BY <2>1, NetworkGoesOn, WorkerGoesOn, ServerMessagesGoOn, OthersGoOn, PeersGoOn DEF Next
  <2>2. CASE UNCHANGED vars
    BY <2>2 DEF vars, net, flags, cooldown, publish, Going, HandshakeDue, RoomFirst, HeardOf, PlayDue, Reply, Live
  <2> QED
    BY <2>1, <2>2
<1> QED
  BY InvHolds, <1>1, <1>2, PTL DEF Spec

\* On a connection that is up, a publisher the server does not know, and a viewer
\* without a peer or a pending request whose last request was not turned down, have
\* the handshake before them or the end of a peer that asks again.
RoleIsDue ==
  link = "up" /\ ~heard /\ (mode = "play" => InTable = {} /\ ~refused) =>
    \/ ix \in {"opened", "posting"}
    \/ room /\ server = "joining" /\ ix = "idle"
    \/ ix = "announcing" /\ ~roleAnnounced /\ Reply
    \/ mode = "play" /\ Reply /\ \E s \in Slots : peer[s] \in {"recovering", "refresh"}

\* A publisher's role is never forgotten, and a viewer's only where the cooldown turned
\* its request down, in whatever order connections are lost, peers fail and the
\* cooldown runs out: SeedRestored and PlayRecovers need no more than that the
\* threads run on and the server answers a join.
THEOREM RoleIsNotForgotten == Spec => []RoleIsDue
<1>1. IInv /\ Going => RoleIsDue
  <2> SUFFICES ASSUME IInv, Going, link = "up", ~heard, mode = "play" => InTable = {} /\ ~refused,
                      ix \notin {"opened", "posting"}
               PROVE  \/ room /\ server = "joining" /\ ix = "idle"
                      \/ ix = "announcing" /\ ~roleAnnounced /\ Reply
                      \/ /\ mode = "play" /\ Reply
                         /\ \E s \in Slots : peer[s] \in {"recovering", "refresh"}
    BY DEF RoleIsDue
  <2>1. CASE ~roleAnnounced
    BY <2>1 DEF Going, HandshakeDue
  <2>2. CASE roleAnnounced
    <3>1. mode = "play"
      BY <2>2 DEF IInv, DataTypes, FlagsAreTrue
    <3>2. Reply
      BY <2>2 DEF IInv, FlagsAreTrue, Going, RoomFirst, Reply
    <3>3. Live = {} /\ \A s \in Slots : peer[s] # "failing"
      BY <3>1 DEF Live, InTable
    <3>4. \E s \in Slots : peer[s] \in {"failing", "recovering", "refresh"}
      BY <2>2, <3>1, <3>3 DEF Going, PlayDue
    <3> QED
      BY <3>1, <3>2, <3>3, <3>4
  <2> QED
    BY <2>1, <2>2
<1> QED
  BY InvHolds, GoingHolds, <1>1, PTL

\* How many steps the worker and the server still owe before a publisher is announced.
Left == CASE ix = "opened" -> 3
          [] ix = "posting" -> 2
          [] server = "joining" /\ ix = "idle" -> 1
          [] OTHER -> 0

SeedGoesOn ==
  [][mode = "publish" /\ link = "up" /\ link' = "up" /\ ~heard /\ ~heard'
     => Left' <= Left /\ (Worker \/ HandleListing => Left' < Left)]_vars

\* On a connection that lasts, every callback of the worker and every listing brings
\* the publisher nearer to being known and nothing sets it back: the fourth
\* of them makes it known.
THEOREM SeedGetsThere == Spec => SeedGoesOn
<1>1. IInv /\ Going /\ [Next]_vars =>
        [mode = "publish" /\ link = "up" /\ link' = "up" /\ ~heard /\ ~heard'
         => Left' <= Left /\ (Worker \/ HandleListing => Left' < Left)]_vars
  <2> SUFFICES ASSUME IInv, Going, Next,
                      mode = "publish", link = "up", link' = "up", ~heard, ~heard'
               PROVE  Left' <= Left /\ (Worker \/ HandleListing => Left' < Left)
    OBVIOUS
  <2> USE DEF net, flags, cooldown, publish, IInv, FlagTypes, DataTypes, FlagsAreTrue, WorkerKnows,
          Going, HandshakeDue, RoomFirst, HeardOf, Reply
  <2>1. CASE Opened
    BY <2>1 DEF Opened, Left
  <2>2. CASE PostInitialRequests
    BY <2>2 DEF PostInitialRequests, SendJoin, Left
  <2>3. CASE HandleListing
    BY <2>3 DEF HandleListing, Left
  <2>4. ~AnnounceRole /\ ~Closed /\ ~AlertStatus /\ ~RefreshOnId
    BY DEF AnnounceRole, SendRole, Closed, AlertStatus, RefreshOnId
  <2>5. CASE ~Worker /\ ~HandleListing
    <3>1. UNCHANGED <<ix, server>>
      BY <2>5 DEF Next, Network, Open, Drop, Close, ServerMessages, HandleId, HandleAlert, CooldownEnds,
             PushOutgoingAudio, PeerArrives, PeerConnects, PeerFails, RtcCallback, PeerRemoved,
             PeerEnded, RefreshOnEnd
    <3>2. Left' = Left /\ Left \in Nat
      BY <3>1 DEF Left
    <3> QED
      BY <2>5, <3>2
  <2> QED
    BY <2>1, <2>2, <2>3, <2>4, <2>5 DEF Worker
<1> QED
  BY InvHolds, GoingHolds, <1>1, PTL DEF Spec, SeedGoesOn
=============================================================================
