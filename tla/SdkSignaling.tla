--------------------------- MODULE SdkSignaling ---------------------------
(* The signaling side of the JavaScript SDK: the WebSocket and its           *)
(* generations, connect and disconnect, automatic reconnection, and the room *)
(* and publishing intents replayed after it (src/js_sdk/vdoninja-sdk.js).    *)
(*                                                                           *)
(* JavaScript runs one task at a time: an action is everything between two   *)
(* awaits. Two call chains may be suspended, the application's ("app") and   *)
(* the reconnection timer's ("rec"). Views are in SdkViews.                  *)
EXTENDS Integers, FiniteSets

CONSTANTS MaxAttempts,   \* this._maxReconnectAttempts
          MaxSockets,    \* bound: WebSockets not yet closed at one time
          MaxCalls,      \* bound: calls of the application
          MaxFaults      \* bound: refused, dropped and rejected requests

ASSUME ConstantsOK == /\ MaxAttempts \in Nat \ {0} /\ MaxSockets \in Nat \ {0}
                      /\ MaxCalls \in Nat /\ MaxFaults \in Nat

Sockets == 1..MaxSockets
Threads == {"app", "rec"}
Kinds   == {"publish", "announce"}
\* What _connectionIntent remembers; "inRoom" is the publishing options' room.
Wishes  == {"room", "inRoom"} \cup Kinds

VARIABLES
  socket,        \* readyState of every WebSocket; a closed one leaves its number
  signaling,     \* this.signaling: a socket, 0 for null
  restoring,     \* history: the socket the timer's call began to restore the client
                 \* on, 0 once that socket is lost, torn down or replaced
  known,         \* what the server holds for the client, per socket
  owed,          \* sockets that the server owes a listing
  connected, room, roomJoined, publishing,            \* this.state
  isReconnecting, reconnectAttempts, reconnectTimer,
  intentional,   \* this._intentionalDisconnect
  intent,        \* this._connectionIntent
  call,          \* where the two call chains are suspended
  lateListener,  \* a _roomJoined listener whose joinRoom has timed out
  hashed,        \* this._passwordHash is known
  listing,       \* _handleListing waits for the hash
  closing,       \* disconnect() waits for its byes
  stopping,      \* stopPublishing() waits for its byes
  calls, faults

sockets  == <<socket, signaling, restoring>>
server   == <<known, owed>>
state    == <<connected, room, roomJoined, publishing>>
recovery == <<isReconnecting, reconnectAttempts, reconnectTimer>>
joining  == <<lateListener, hashed, listing>>
leaving  == <<closing, stopping>>
counters == <<calls, faults>>
vars == <<sockets, server, state, recovery, intentional, intent, call,
          joining, leaving, counters>>

Idle == [at |-> "idle", job |-> {}, socket |-> 0]

Init ==
  /\ socket = [g \in Sockets |-> "none"] /\ signaling = 0 /\ restoring = 0
  /\ known = [g \in Sockets |-> {}] /\ owed = {}
  /\ connected = FALSE /\ room = FALSE /\ roomJoined = FALSE /\ publishing = FALSE
  /\ isReconnecting = FALSE /\ reconnectAttempts = 0 /\ reconnectTimer = FALSE
  /\ intentional = FALSE /\ intent = {}
  /\ call = [t \in Threads |-> Idle]
  /\ lateListener = FALSE /\ hashed = FALSE /\ listing = FALSE /\ closing = FALSE /\ stopping = FALSE
  /\ calls = 0 /\ faults = 0

-----------------------------------------------------------------------------
Called   == calls < MaxCalls /\ calls' = calls + 1 /\ UNCHANGED faults
Faulty   == faults < MaxFaults /\ faults' = faults + 1 /\ UNCHANGED calls
Uncounted == UNCHANGED counters

IsOpen == signaling # 0 /\ socket[signaling] = "open"

\* _sendMessageWS: a message for a socket that is not open is dropped.
Told(what) == IF IsOpen THEN [known EXCEPT ![signaling] = @ \cup what] ELSE known

-----------------------------------------------------------------------------
(* The continuations of the call chains.                                      *)

Done   == [Idle EXCEPT !.at = "done"]
Failed == [Idle EXCEPT !.at = "failed"]
Suspended(at, job) == [at |-> at, job |-> job, socket |-> 0]

\* publish() and announce() from where the room counts to their next await.
Enter(job, up, joined) ==
  IF "inRoom" \in job /\ ~joined
  THEN IF up THEN Suspended("hashRoom", job) ELSE Failed
  ELSE Suspended("hashSeed", job)

\* publish() and announce() up to their first await; only publish() refuses when
\* the connection publishes already, and awaits the settings of its media.
Publishing(job, up, joined) ==
  IF ~up \/ ("publish" \in job /\ publishing) THEN Failed
  ELSE IF "publish" \in job THEN Suspended("media", job)
  ELSE Enter(job, up, joined)

\* Mutant: the publishing intent is not replayed.
RestoreRoomOnly(up, joined) == Done

\* _restoreConnectionIntent from the end of its joinRoom on.
RestorePublishing(up, joined) ==
  IF intent \cap Kinds = {} THEN Done
  ELSE Publishing(intent \ {"room"}, up, joined)

\* _restoreConnectionIntent from its start on.
Restore(up) ==
  IF "room" \in intent /\ ~roomJoined
  THEN IF up THEN Suspended("hashRoom", {}) ELSE Failed
  ELSE RestorePublishing(up, roomJoined)

\* joinRoom() resolves: the call of t goes on where it awaited it.
Joined(t) ==
  IF call[t].at # "listing" THEN call[t]
  ELSE IF call[t].job # {} THEN Suspended("hashSeed", call[t].job)
  ELSE IF t = "rec" THEN RestorePublishing(connected, TRUE) ELSE Idle

\* _attemptReconnect.
Attempt ==
  IF isReconnecting THEN UNCHANGED recovery
  ELSE /\ isReconnecting' = TRUE /\ reconnectTimer' = TRUE
       /\ reconnectAttempts' = reconnectAttempts + 1

\* Mutants: the number of attempts is not looked at; a failed attempt is the last.
RetryForever ==
  isReconnecting' = TRUE /\ reconnectTimer' = TRUE /\ reconnectAttempts' = reconnectAttempts + 1
RetryNever ==
  isReconnecting' = FALSE /\ reconnectTimer' = FALSE /\ UNCHANGED reconnectAttempts

\* The catch of the reconnection timer; it does not look at intentional.
Retry ==
  LET again == reconnectAttempts < MaxAttempts
  IN /\ isReconnecting' = again /\ reconnectTimer' = again
     /\ reconnectAttempts' = IF again THEN reconnectAttempts + 1 ELSE reconnectAttempts

\* The reconnection timer's call reaches c.
Resumed(c) ==
  CASE c.at = "done"   -> isReconnecting' = FALSE /\ reconnectTimer' = FALSE /\ reconnectAttempts' = 0
    [] c.at = "failed" -> Retry
    [] OTHER           -> reconnectTimer' = FALSE /\ UNCHANGED <<isReconnecting, reconnectAttempts>>

\* joinRoom() notes its room before its first await.
Wished(c) == IF c.at = "hashRoom" THEN intent \cup {"room"} ELSE intent

AtRest(c) == IF c.at \in {"done", "failed"} THEN Idle ELSE c

\* If the client takes itself for joined to the room it wants, the server holds it on g.
Unmistaken(g) == "room" \in intent /\ roomJoined => "room" \in known[g]

-----------------------------------------------------------------------------
(* Connecting and losing the socket.                                          *)

\* new WebSocket() by t.
Open(t, g) ==
  /\ socket[g] = "none" /\ \A h \in Sockets : h < g => socket[h] # "none"
  /\ socket' = [socket EXCEPT ![g] = "connecting"] /\ signaling' = g /\ restoring' = 0
  /\ call' = [call EXCEPT ![t] = [at |-> "connect", job |-> {}, socket |-> g]]
  /\ intentional' = FALSE

Connect ==
  /\ Called /\ call["app"] = Idle /\ ~connected
  /\ \E g \in Sockets : Open("app", g)
  /\ UNCHANGED <<server, state, recovery, intent, joining, leaving>>

\* signaling.onopen, and the await of connect() that it resolves.
Opened(g) ==
  /\ socket[g] = "connecting"
  /\ socket' = [socket EXCEPT ![g] = "open"]
  /\ connected' = TRUE
  /\ IF call["rec"].at = "connect" /\ call["rec"].socket = g
     THEN LET c == Restore(TRUE)
          IN /\ call' = [call EXCEPT !["rec"] = AtRest(c)] /\ Resumed(c)
             /\ intent' = Wished(c)
             /\ restoring' = IF signaling = g /\ Unmistaken(g) THEN g ELSE 0
     ELSE /\ call' = IF call["app"].socket = g THEN [call EXCEPT !["app"] = Idle] ELSE call
          /\ reconnectAttempts' = IF isReconnecting THEN reconnectAttempts ELSE 0
          /\ UNCHANGED <<isReconnecting, reconnectTimer, intent, restoring>>
  /\ UNCHANGED <<signaling, server, room, roomJoined, publishing, intentional,
                 joining, leaving>>
  /\ Uncounted

\* Mutant: what was said on the lost socket still counts.
OnCloseKeepsPublishing(g) ==
  /\ socket' = [socket EXCEPT ![g] = "none"]
  /\ restoring' = IF restoring = g THEN 0 ELSE restoring
  /\ known' = [known EXCEPT ![g] = {}] /\ owed' = owed \ {g}
  /\ connected' = FALSE /\ roomJoined' = FALSE /\ UNCHANGED publishing
  /\ call' = [t \in Threads |-> IF call[t].at = "connect" /\ call[t].socket = g
                                THEN Idle ELSE call[t]]
  /\ IF call["rec"].at = "connect" /\ call["rec"].socket = g THEN Retry
     ELSE IF ~intentional /\ reconnectAttempts < MaxAttempts THEN Attempt
     ELSE UNCHANGED recovery
  /\ UNCHANGED <<signaling, room, intentional, intent, joining, leaving>>

\* signaling.onclose, of whatever generation, after the onerror that rejects
\* connect() when the socket never opened.
OnClose(g) ==
  /\ socket' = [socket EXCEPT ![g] = "none"]
  /\ restoring' = IF restoring = g THEN 0 ELSE restoring
  /\ known' = [known EXCEPT ![g] = {}] /\ owed' = owed \ {g}
  /\ connected' = FALSE /\ roomJoined' = FALSE /\ publishing' = FALSE
  /\ call' = [t \in Threads |-> IF call[t].at = "connect" /\ call[t].socket = g
                                THEN Idle ELSE call[t]]
  /\ IF call["rec"].at = "connect" /\ call["rec"].socket = g THEN Retry
     ELSE IF ~intentional /\ reconnectAttempts < MaxAttempts THEN Attempt
     ELSE UNCHANGED recovery
  /\ UNCHANGED <<signaling, room, intentional, intent, joining, leaving>>

\* Mutant: disconnect() takes its handlers off the socket it closes.
ClosedUnheard(g) ==
  /\ socket[g] = "closing" /\ socket' = [socket EXCEPT ![g] = "none"]
  /\ UNCHANGED <<signaling, restoring, server, state, recovery, intentional, intent,
                 call, joining, leaving, counters>>

Lost(g) == Faulty /\ socket[g] \in {"connecting", "open"} /\ OnClose(g)
Closed(g) == socket[g] = "closing" /\ OnClose(g) /\ Uncounted

\* The timer of _attemptReconnect, a second or more: disconnect() cancels it, so
\* one that fires was set after any disconnect() whose byes (100 ms) have ended.
ReconnectTimer ==
  /\ reconnectTimer /\ call["rec"] = Idle /\ ~closing
  /\ IF connected
     THEN LET c == Restore(TRUE)
          IN /\ call' = [call EXCEPT !["rec"] = AtRest(c)]
             /\ Resumed(c) /\ intent' = Wished(c)
             /\ restoring' = IF IsOpen /\ Unmistaken(signaling) THEN signaling ELSE 0
             /\ UNCHANGED <<socket, signaling, intentional>>
     ELSE /\ \E g \in Sockets : Open("rec", g)
          /\ Resumed(call'["rec"]) /\ UNCHANGED intent
  /\ UNCHANGED <<server, state, joining, leaving>> /\ Uncounted

\* disconnect(): what it does at once, and after its byes.
Disconnect ==
  /\ Called
  /\ intentional' = TRUE /\ intent' = {} /\ reconnectTimer' = FALSE /\ closing' = TRUE
  /\ UNCHANGED <<sockets, server, state, isReconnecting, reconnectAttempts, call,
                 joining, stopping>>

Teardown ==
  /\ closing
  /\ closing' = FALSE /\ signaling' = 0 /\ restoring' = 0
  /\ socket' = IF signaling # 0 /\ socket[signaling] \in {"connecting", "open"}
               THEN [socket EXCEPT ![signaling] = "closing"] ELSE socket
  /\ owed' = owed \ {signaling}
  /\ connected' = FALSE /\ room' = FALSE /\ roomJoined' = FALSE /\ publishing' = FALSE
  /\ UNCHANGED <<known, recovery, intentional, intent, call, joining, stopping>>
  /\ Uncounted

-----------------------------------------------------------------------------
(* Rooms.                                                                     *)

JoinRoom ==
  /\ Called /\ call["app"] = Idle /\ connected /\ ~roomJoined
  /\ intent' = intent \cup {"room"}
  /\ call' = [call EXCEPT !["app"] = Suspended("hashRoom", {})]
  /\ UNCHANGED <<sockets, server, state, recovery, intentional, joining, leaving>>

\* joinRoom() after its hash.
HashRoom(t) ==
  /\ call[t].at = "hashRoom"
  /\ known' = Told({"room"}) /\ owed' = IF IsOpen THEN owed \cup {signaling} ELSE owed
  /\ call' = [call EXCEPT ![t].at = "listing"]
  /\ UNCHANGED <<sockets, state, recovery, intentional, intent, joining, leaving>>
  /\ Uncounted

\* '_roomJoined' reaches every listener.
RoomJoined ==
  LET heard == \E t \in Threads : call[t].at = "listing"
      rec   == Joined("rec")
  IN /\ room' = (room \/ heard \/ lateListener)
     /\ roomJoined' = (roomJoined \/ heard \/ lateListener)
     /\ lateListener' = FALSE
     /\ call' = [app |-> Joined("app"), rec |-> AtRest(rec)]
     /\ IF call["rec"] # rec THEN Resumed(rec) ELSE UNCHANGED recovery
     /\ UNCHANGED <<connected, publishing>>

\* _handleListing: the first one waits for the hash of the password.
Listing(g) ==
  /\ g \in owed /\ socket[g] = "open" /\ ~listing
  /\ owed' = owed \ {g}
  /\ IF hashed THEN RoomJoined /\ UNCHANGED <<hashed, listing>>
     ELSE listing' = TRUE /\ UNCHANGED <<state, recovery, call, lateListener, hashed>>
  /\ UNCHANGED <<sockets, known, intentional, intent, leaving>> /\ Uncounted

ListingHashed ==
  /\ listing /\ hashed' = TRUE /\ listing' = FALSE
  /\ RoomJoined
  /\ UNCHANGED <<sockets, server, intentional, intent, leaving>> /\ Uncounted

\* The ten seconds of joinRoom(); a listing on its way is late by a fault.
JoinTimeout(t) ==
  /\ call[t].at = "listing" /\ ~listing
  /\ IF signaling \in owed THEN Faulty ELSE Uncounted
  /\ lateListener' = TRUE
  /\ call' = [call EXCEPT ![t] = Idle]
  /\ IF t = "rec" THEN Retry ELSE UNCHANGED recovery
  /\ UNCHANGED <<sockets, server, state, intentional, intent, hashed, listing, leaving>>

LeaveRoom ==
  /\ Called /\ room
  /\ room' = FALSE /\ roomJoined' = FALSE /\ intent' = intent \ {"room"}
  /\ known' = IF IsOpen THEN [known EXCEPT ![signaling] = @ \ {"room"}] ELSE known
  /\ UNCHANGED <<sockets, owed, connected, publishing, recovery, intentional,
                 call, joining, leaving>>

-----------------------------------------------------------------------------
(* Publishing.                                                                *)

Publish(job) ==
  /\ Called /\ call["app"] = Idle /\ connected
  /\ Publishing(job, TRUE, roomJoined) # Failed
  /\ call' = [call EXCEPT !["app"] = Publishing(job, TRUE, roomJoined)]
  /\ intent' = Wished(call'["app"])
  /\ UNCHANGED <<sockets, server, state, recovery, intentional, joining, leaving>>

\* publish() once its media settings are applied: the room counts now.
MediaReady(t) ==
  LET c == Enter(call[t].job, connected, roomJoined)
  IN /\ call[t].at = "media"
     /\ call' = [call EXCEPT ![t] = AtRest(c)]
     /\ intent' = Wished(c)
     /\ IF t = "rec" THEN Resumed(c) ELSE UNCHANGED recovery
     /\ UNCHANGED <<sockets, server, state, intentional, joining, leaving>>
     /\ Uncounted

\* publish() and announce() after the hash of the stream.
HashSeed(t) ==
  /\ call[t].at = "hashSeed"
  /\ publishing' = TRUE
  /\ known' = Told({"seed"})
  /\ intent' = (intent \cap {"room"}) \cup call[t].job
  /\ call' = [call EXCEPT ![t] = Idle]
  /\ IF t = "rec" THEN Resumed(Done) ELSE UNCHANGED recovery
  /\ UNCHANGED <<sockets, owed, connected, room, roomJoined, intentional, joining, leaving>>
  /\ Uncounted

StopPublishing ==
  /\ Called
  /\ publishing \/ intent \cap Kinds # {}
  /\ intent' = intent \cap {"room"} /\ stopping' = TRUE
  /\ UNCHANGED <<sockets, server, state, recovery, intentional, call, joining, closing>>

StopFlushed ==
  /\ stopping
  /\ stopping' = FALSE /\ publishing' = FALSE
  /\ UNCHANGED <<sockets, server, connected, room, roomJoined, recovery,
                 intentional, intent, call, joining, closing>>
  /\ Uncounted

\* _handleAlert: the server refuses a seed whose stream is in use.
InUse(g) ==
  /\ Faulty /\ socket[g] = "open" /\ "seed" \in known[g]
  /\ known' = [known EXCEPT ![g] = @ \ {"seed"}]
  /\ publishing' = FALSE /\ intent' = intent \cap {"room"}
  /\ UNCHANGED <<sockets, owed, connected, room, roomJoined, recovery,
                 intentional, call, joining, leaving>>

-----------------------------------------------------------------------------
Jobs == {{k} : k \in Kinds} \cup {{k, "inRoom"} : k \in Kinds}

App == \/ Connect \/ Disconnect \/ JoinRoom \/ LeaveRoom \/ StopPublishing
       \/ \E job \in Jobs : Publish(job)
Faults == \E g \in Sockets : Lost(g) \/ InUse(g)
System ==
  \/ ReconnectTimer \/ Teardown \/ ListingHashed \/ StopFlushed
  \/ \E t \in Threads : HashRoom(t) \/ JoinTimeout(t) \/ MediaReady(t) \/ HashSeed(t)
  \/ \E g \in Sockets : Opened(g) \/ Closed(g) \/ Listing(g)

Next == App \/ Faults \/ System
Spec == Init /\ [][Next]_vars
\* The browser runs every timer, promise and event in the end; the server
\* answers. The application and the network owe nothing.
FairSpec == Spec /\ WF_vars(System)

-----------------------------------------------------------------------------
TypeOK ==
  /\ socket \in [Sockets -> {"none", "connecting", "open", "closing"}]
  /\ signaling \in 0..MaxSockets /\ restoring \in 0..MaxSockets
  /\ known \in [Sockets -> SUBSET {"room", "seed"}] /\ owed \subseteq Sockets
  /\ reconnectAttempts \in 0..MaxAttempts
  /\ intent \subseteq Wishes
  /\ call \in [Threads -> [at : {"idle", "connect", "media", "hashRoom", "listing", "hashSeed"},
                           job : SUBSET Wishes, socket : 0..MaxSockets]]
  /\ \A b \in {connected, room, roomJoined, publishing, isReconnecting, reconnectTimer,
               intentional, lateListener, hashed, listing, closing, stopping} : b \in BOOLEAN

Holds(wish) == IsOpen /\ wish \in known[signaling]

\* Every connect() is going to be answered, whatever overlaps: it awaits a socket that
\* has yet to open or to say that it is closed, its own and not the other's, and
\* no socket opens that nobody awaits.
CallsAwait ==
  \A t \in Threads :
    /\ call[t].at = "connect" <=> call[t].socket # 0
    /\ call[t].at = "connect" => socket[call[t].socket] \in {"connecting", "closing"}
    /\ "room" \notin call[t].job
Awaiting ==
  \A g \in Sockets : socket[g] = "connecting" =>
                       \E t \in Threads : call[t].at = "connect" /\ call[t].socket = g
Apart == call["app"].socket # 0 => call["app"].socket # call["rec"].socket
ConnectsAreAnswered == CallsAwait /\ Awaiting /\ Apart

\* 'reconnected' (line 995) is emitted on a socket that was not lost or replaced since
\* its restoration began only when the server has back, on it, all that the
\* application asks for, whatever was called or timed out on the way.  Two cases are not
\* counted: a restoration that starts with a room taken for joined that the
\* server does not hold, and a call of the application that is itself on its way.
ReconnectedIsRestored ==
  [][(isReconnecting /\ ~isReconnecting' /\ reconnectAttempts' = 0
      /\ restoring' # 0 /\ call["app"] = Idle) =>
       /\ IsOpen'
       /\ ("room" \in intent' => Holds("room")')
       /\ (intent' \cap Kinds # {} => Holds("seed")')]_vars

\* The reconnection has given up: every attempt was spent and nothing is set.
GaveUp == ~isReconnecting /\ reconnectAttempts = MaxAttempts
\* A reconnection is flagged that neither a timer nor a call is going to end: no
\* later loss will start another.
Wedged == isReconnecting /\ ~reconnectTimer /\ call["rec"] = Idle
\* The client shows itself publishing what the server does not hold.
Misled == publishing /\ ~Holds("seed")

\* "These describe the current socket generation" (onclose).  They do until a call
\* outlives its socket: only disconnect() wedges the client, and only a publish() or
\* announce() that ends without a socket, or a connect() beside one, misleads it.
StrandedOnlyBy ==
  [][/\ ~Wedged /\ Wedged' => Disconnect
     /\ ~Misled /\ Misled' => \/ ~IsOpen /\ \E t \in Threads : HashSeed(t)
                              \/ IsOpen /\ signaling' \notin {0, signaling}]_vars

\* A reconnection announces again what the application publishes, however often the
\* socket is lost on the way, unless its attempts run out or the client is
\* stranded in one of these two ways.
PublishingReturns ==
  (isReconnecting /\ intent \cap Kinds # {}) ~>
    (Holds("seed") \/ intent \cap Kinds = {} \/ intentional \/ GaveUp \/ Wedged \/ Misled)
=============================================================================
