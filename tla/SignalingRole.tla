---------------------------- MODULE SignalingRole ----------------------------
(***************************************************************************)
(* How WebRTCSession makes its role known: room join, publish and play     *)
(* requests, their repetition after a reconnect, recovery of a lost Play   *)
(* peer with its cooldown, and a publish request the server rejects.       *)
(*                                                                         *)
(* The WebSocket worker runs one callback at a time, in sections of mutex_ *)
(* between which RTC callbacks, the audio worker and the network take      *)
(* their turn.                                                             *)
(***************************************************************************)
EXTENDS Naturals

CONSTANTS
  Rooms,     \* may config_.roomName be set, may it be empty?
  Slots,     \* bound: peers at a time
  Drops      \* bound: how often the network may drop the connection

ASSUME RoomAssumption == Rooms \subseteq BOOLEAN
ASSUME BoundAssumption == Drops \in Nat

VARIABLES
  mode,          \* config_.mode
  room,          \* config_.roomName is not empty
  link,          \* the connection: "down", "up", or "lost" until the close is noticed
  server,        \* the server on this connection: "new", "joining" or "joined" the room
  heard,         \* the server holds our seed, or a play request not yet answered
  ix,            \* the next section of the WebSocket worker's callback
  roomJoined,    \* roomJoined_
  roleAnnounced, \* roleAnnounced_
  cool,          \* the last refresh is younger than kPlayRefreshCooldown
  refused,       \* history: the cooldown turned a refresh down, and on this connection
                 \* neither a request nor a peer has come since
  peer,          \* each peer, from its offer to the end of its last callback
  rejected,      \* publishRejected_
  publishing,    \* publishingAudio_
  status,        \* the last status emitted
  drops          \* connections dropped so far

net == <<mode, room, link, server, heard, drops>>
flags == <<roomJoined, roleAnnounced>>
publish == <<rejected, publishing, status>>
cooldown == <<cool, refused>>
vars == <<net, ix, flags, cooldown, peer, publish>>

PeerStates ==
  {"none", "new", "connected",
   "failing",      \* the connection failed, its callback has not entered mutex_
   "ending",       \* the peer is removed, media flags are still to be cleared
   "recovering",   \* the same, and a refresh is to follow
   "refresh"}      \* requestPlayRefresh is to be called

InTable == {s \in Slots : peer[s] \in {"new", "connected", "failing"}}
Healthy == {s \in Slots : peer[s] = "connected"}     \* isConnectedLocked
Connected == link # "down"                            \* connected_ of the client

TypeOK ==
  /\ mode \in {"publish", "play"} /\ room \in Rooms
  /\ link \in {"down", "up", "lost"} /\ server \in {"new", "joining", "joined"}
  /\ heard \in BOOLEAN /\ roomJoined \in BOOLEAN /\ roleAnnounced \in BOOLEAN
  /\ ix \in {"idle", "opened", "posting", "announcing", "refreshing", "alerting", "closing"}
  /\ cool \in BOOLEAN /\ refused \in BOOLEAN
  /\ peer \in [Slots -> PeerStates] /\ drops \in 0..Drops
  /\ rejected \in BOOLEAN /\ publishing \in BOOLEAN
  /\ status \in {"other", "connected", "publishing", "rejected"}

Init ==
  /\ mode \in {"publish", "play"} /\ room \in Rooms
  /\ link = "down" /\ server = "new" /\ heard = FALSE /\ drops = 0 /\ ix = "idle"
  /\ roomJoined = FALSE /\ roleAnnounced = FALSE
  /\ cool = FALSE /\ refused = FALSE
  /\ peer = [s \in Slots |-> "none"]
  /\ rejected = FALSE /\ publishing = FALSE /\ status = "other"
-----------------------------------------------------------------------------
(* Messages: what is sent on a lost connection reaches nobody, and the     *)
(* server serves the role of a member of the room only.                    *)

SendRole == heard' = (heard \/ (link = "up" /\ (room => server = "joined")))

SendJoin == server' = IF link = "up" THEN "joining" ELSE server

\* Open: connected_ is set, then the callback is called.
Open ==
  /\ link = "down" /\ ix = "idle"
  /\ link' = "up" /\ server' = "new" /\ heard' = FALSE /\ ix' = "opened" /\ refused' = FALSE
  /\ UNCHANGED <<mode, room, drops, flags, cool, peer, publish>>

Drop ==
  /\ link = "up" /\ drops < Drops
  /\ link' = "lost" /\ drops' = drops + 1 /\ server' = "new" /\ heard' = FALSE
  /\ UNCHANGED <<mode, room, ix, flags, cooldown, peer, publish>>

Close ==
  /\ link = "lost" /\ ix = "idle"
  /\ link' = "down" /\ ix' = "closing"
  /\ UNCHANGED <<mode, room, server, heard, drops, flags, cooldown, peer, publish>>
-----------------------------------------------------------------------------
(* Callbacks of the WebSocket worker *)

\* Mutant: a new connection keeps the flags of the last one.
OpenedStale ==
  /\ ix = "opened" /\ ix' = "posting"
  /\ UNCHANGED <<net, flags, cooldown, peer, publish>>

\* The connected callback: nothing is known of this connection yet.
Opened ==
  /\ ix = "opened" /\ ix' = "posting"
  /\ roomJoined' = FALSE /\ roleAnnounced' = FALSE
  /\ status' = "other"
  /\ UNCHANGED <<net, cooldown, peer, rejected, publishing>>

PostInitialRequests ==
  /\ ix = "posting"
  /\ \/ room /\ SendJoin /\ ix' = "idle"
     \/ ~room /\ ix' = "announcing" /\ UNCHANGED server
  /\ UNCHANGED <<mode, room, link, heard, drops, flags, cooldown, peer, publish>>

\* The server answers the join with a listing.
HandleListing ==
  /\ link = "up" /\ server = "joining" /\ ix = "idle"
  /\ server' = "joined" /\ roomJoined' = TRUE /\ ix' = "announcing"
  /\ UNCHANGED <<mode, room, link, heard, drops, roleAnnounced, cooldown, peer, publish>>

AnnounceRole ==
  /\ ix = "announcing" /\ ix' = "idle"
  /\ \/ (roleAnnounced \/ (room /\ ~roomJoined)) /\ UNCHANGED <<heard, roleAnnounced, refused, rejected>>
     \/ /\ ~roleAnnounced /\ (room => roomJoined)
        /\ roleAnnounced' = TRUE
        /\ IF mode = "publish" THEN SendRole /\ rejected' = FALSE /\ UNCHANGED refused
           ELSE /\ IF Healthy = {} THEN SendRole /\ refused' = FALSE ELSE UNCHANGED <<heard, refused>>
                /\ UNCHANGED rejected
  /\ UNCHANGED <<mode, room, link, server, drops, roomJoined, cool, peer, publishing, status>>

\* The closed callback: peers outlive the connection, and so do the flags.
Closed ==
  /\ ix = "closing" /\ ix' = "idle"
  /\ IF InTable = {} THEN roomJoined' = FALSE /\ roleAnnounced' = FALSE /\ publishing' = FALSE
     ELSE UNCHANGED <<flags, publishing>>
  /\ status' = "other"
  /\ UNCHANGED <<net, cooldown, peer, rejected>>

\* The server assigns an id, which repeats the request of a Play role without peers.
HandleId ==
  /\ link = "up" /\ ix = "idle"
  /\ mode = "play" /\ roleAnnounced /\ InTable = {}
  /\ ix' = "refreshing"
  /\ UNCHANGED <<net, flags, cooldown, peer, publish>>

\* The server rejects the stream id of a publisher, first the flag ...
HandleAlert ==
  /\ link = "up" /\ ix = "idle" /\ mode = "publish" /\ heard
  /\ rejected' = TRUE /\ publishing' = FALSE /\ ix' = "alerting"
  /\ UNCHANGED <<net, flags, cooldown, peer, status>>

\* Mutant: the rejection is reported like any other alert.
AlertStatusGeneric ==
  /\ ix = "alerting" /\ ix' = "idle" /\ status' = "alert"
  /\ UNCHANGED <<net, flags, cooldown, peer, rejected, publishing>>

\* ... then, outside mutex_, the status.
AlertStatus ==
  /\ ix = "alerting" /\ ix' = "idle" /\ status' = "rejected"
  /\ UNCHANGED <<net, flags, cooldown, peer, rejected, publishing>>
-----------------------------------------------------------------------------
\* requestPlayRefresh: within the cooldown of the last one it is dropped, not deferred.
RequestPlayRefresh ==
  IF mode = "play" /\ (room => roomJoined)
  THEN /\ IF cool THEN UNCHANGED heard ELSE SendRole
       /\ cool' = TRUE /\ refused' = cool
  ELSE UNCHANGED <<cooldown, heard>>

RefreshOnId ==
  /\ ix = "refreshing" /\ ix' = "idle"
  /\ RequestPlayRefresh
  /\ UNCHANGED <<mode, room, link, server, drops, flags, peer, publish>>

RefreshOnEnd(s) ==
  /\ peer[s] = "refresh" /\ peer' = [peer EXCEPT ![s] = "none"]
  /\ RequestPlayRefresh
  /\ UNCHANGED <<mode, room, link, server, drops, ix, flags, publish>>

CooldownEnds ==
  /\ cool /\ cool' = FALSE
  /\ UNCHANGED <<net, ix, flags, refused, peer, publish>>
-----------------------------------------------------------------------------
(* Peers *)

\* A publisher answers our play request with an offer; a viewer asks for ours.
PeerArrives(s) ==
  /\ link = "up" /\ heard /\ ix = "idle" /\ peer[s] = "none"
  /\ heard' = (mode = "publish") /\ refused' = FALSE
  /\ peer' = [peer EXCEPT ![s] = "new"]
  /\ UNCHANGED <<mode, room, link, server, drops, ix, flags, cool, publish>>

\* Play keeps the peer that connected last; a superseded one asks for nothing.  In
\* Publish the status is one of success whether the stream was rejected or not.
PeerConnects(s) ==
  /\ peer[s] = "new"
  /\ peer' = [o \in Slots |-> CASE o = s -> "connected"
                                [] o # s /\ mode = "play" /\ o \in InTable -> "none"
                                [] OTHER -> peer[o]]
  /\ status' = IF mode = "publish" THEN "connected" ELSE "other"
  /\ UNCHANGED <<net, ix, flags, cooldown, rejected, publishing>>

PeerFails(s) ==
  /\ peer[s] \in {"new", "connected"}
  /\ peer' = [peer EXCEPT ![s] = "failing"]
  /\ UNCHANGED <<net, ix, flags, cooldown, publish>>

\* Mutant: only a peer that leaves others behind is asked for again.
PeerRemovedSilent(s) ==
  /\ peer[s] = "failing"
  /\ peer' = [peer EXCEPT ![s] =
       IF mode = "play" /\ Connected /\ InTable # {s} THEN "recovering" ELSE "ending"]
  /\ UNCHANGED <<net, ix, flags, cooldown, publish>>

\* onStateChange, failed or closed: the section that removes the peer ...
PeerRemoved(s) ==
  /\ peer[s] = "failing"
  /\ peer' = [peer EXCEPT ![s] = IF mode = "play" /\ Connected THEN "recovering" ELSE "ending"]
  /\ UNCHANGED <<net, ix, flags, cooldown, publish>>

\* ... and what follows outside mutex_.
PeerEnded(s) ==
  /\ peer[s] \in {"ending", "recovering"}
  /\ peer' = [peer EXCEPT ![s] = IF @ = "recovering" THEN "refresh" ELSE "none"]
  /\ publishing' = FALSE /\ status' = "other"
  /\ UNCHANGED <<net, ix, flags, cooldown, rejected>>

\* Mutant: a rejected publisher reports that it publishes.
PushOutgoingAudioRejected ==
  /\ mode = "publish" /\ InTable # {} /\ ~publishing
  /\ publishing' = TRUE /\ status' = "publishing"
  /\ UNCHANGED <<net, ix, flags, cooldown, peer, rejected>>

\* pushOutgoingAudio, as far as it reports.
PushOutgoingAudio ==
  /\ mode = "publish" /\ InTable # {} /\ ~rejected /\ ~publishing
  /\ publishing' = TRUE /\ status' = "publishing"
  /\ UNCHANGED <<net, ix, flags, cooldown, peer, rejected>>
-----------------------------------------------------------------------------
Network == Open \/ Drop \/ Close
Worker == \/ Opened \/ PostInitialRequests \/ AnnounceRole \/ Closed
          \/ AlertStatus \/ RefreshOnId
ServerMessages == HandleListing \/ HandleId \/ HandleAlert
RtcCallback(s) == PeerRemoved(s) \/ PeerEnded(s) \/ RefreshOnEnd(s)
Next ==
  \/ Network \/ Worker \/ ServerMessages \/ CooldownEnds \/ PushOutgoingAudio
  \/ \E s \in Slots : PeerArrives(s) \/ PeerConnects(s) \/ PeerFails(s) \/ RtcCallback(s)

Spec == Init /\ [][Next]_vars

\* Threads run on, IX notices a close and retries, the server answers a join
\* (messages arrive in order, so others cannot hold the answer back for good).
Fairness ==
  /\ WF_vars(Worker) /\ WF_vars(Open) /\ SF_vars(Close) /\ SF_vars(HandleListing)
  /\ \A s \in Slots : WF_vars(RtcCallback(s))
FairSpec == Spec /\ Fairness
-----------------------------------------------------------------------------
\* "Reconnect restores room/publishing intent" (THREADING.md): a publisher
\* whose connection lasts is known to the server on that connection.
SeedRestored == (mode = "publish" /\ link = "up") ~> (heard \/ link # "up")

\* roleAnnounced_ is never carried over to a connection the server has not
\* heard the publisher on, once the worker's callback is over.
AnnouncedIsHeard ==
  mode = "publish" /\ roleAnnounced /\ link = "up" /\ ix = "idle" => heard

\* "Failed/closed Play peers request recovery" (THREADING.md): without a peer and
\* with a lasting connection a request is made that the server serves, unless
\* the cooldown turns the request down.  Then nothing repeats it: a peer that fails
\* within kPlayRefreshCooldown of the last refresh leaves the viewer waiting.
PlayRecovers ==
  (mode = "play" /\ link = "up" /\ InTable = {})
    ~> (heard \/ InTable # {} \/ link # "up" \/ refused)

\* "Preparing outgoing frames alone must not overwrite it with a success status"
\* (pushOutgoingAudio): once a rejection is reported, "Publishing audio" is not what
\* stands.  Of the audio worker only: a viewer that connects does overwrite it.
AudioKeepsRejection == rejected /\ ix # "alerting" => status # "publishing"
=============================================================================
