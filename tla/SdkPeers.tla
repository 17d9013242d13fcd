------------------------------ MODULE SdkPeers ------------------------------
(* The peer connections that the JavaScript SDK keeps with one remote UUID:  *)
(* the handlers that negotiate them, each suspended where it awaits, the     *)
(* table they are kept in, and their recovery: the grace period, the ICE     *)
(* restart, the escalation to relay and giving up (src/js_sdk/               *)
(* vdoninja-sdk.js). The remote sends whatever a peer may send.              *)
EXTENDS Integers, FiniteSets

CONSTANTS MaxConns,     \* bound: connections not closed at one time
          MaxSessions,  \* bound: sessions of offers
          MaxJobs,      \* bound: handlers that await at one time
          MaxAsks,      \* bound: offers, requests, byes, calls of the application
          MaxFaults     \* bound: connections that degrade or fail

ASSUME BoundsOK == /\ MaxConns \in Nat \ {0} /\ MaxSessions \in Nat \ {0}
                   /\ MaxJobs \in Nat /\ MaxAsks \in Nat /\ MaxFaults \in Nat

Conns    == 1..MaxConns
Sessions == 1..MaxSessions
JobIds   == 1..MaxJobs
Types    == {"viewer", "publisher"}
\* "stray" is a recovery timer whose handle was overwritten.
Timers   == {"connect", "disconnect", "recovery", "stray", "relayRestore"}

VARIABLES
  conn,          \* the connection objects; a closed one is finalized as well
  current,       \* this.connections.get(uuid): the slot of each type, 0 if none
  turn,          \* _turnList: not fetched yet, empty, or with servers
  hashed,        \* _passwordHash is known
  jobs,          \* handlers of signaling messages, where they await
  issued,        \* _generateSession(): the last session of a publisher connection
  publishing,    \* state.publishing
  life,          \* "off": torn down by disconnect(), which awaits its byes first
  leaving,       \* the byes of stopViewing() and stopPublishing()
  asks, faults

table    == <<conn, current>>
session  == <<hashed, publishing, life, leaving>>
counters == <<asks, faults>>
vars == <<table, turn, jobs, issued, session, counters>>

NoConn == [type |-> "viewer", session |-> 0, pc |-> "none", dc |-> FALSE,
           offered |-> FALSE, remote |-> 0, fresh |-> FALSE, ice |-> 0,
           recovering |-> FALSE, restarts |-> 0, stage |-> 0, timers |-> {},
           relay |-> "off"]
\* Nothing of a closed connection is looked at again, its timers included. One that
\* is not in the table is still open, in whatever state, and the end of its restart
\* still acts.
Closed == [NoConn EXCEPT !.pc = "closed"]
Lost(k) == [NoConn EXCEPT !.type = k.type, !.pc = "lost", !.restarts = k.restarts]
NoJob  == [kind |-> "none", at |-> "idle", session |-> 0, conn |-> 0]

Init ==
  /\ conn = [c \in Conns |-> NoConn] /\ current = [t \in Types |-> 0]
  /\ turn \in {"unknown", "none", "some"} /\ hashed \in BOOLEAN
  /\ jobs = [j \in JobIds |-> NoJob] /\ issued = 0
  /\ publishing = TRUE /\ life = "on" /\ leaving = {}
  /\ asks = 0 /\ faults = 0

-----------------------------------------------------------------------------
IsOpen(c)  == conn[c].pc \notin {"none", "closed"}
\* _isCurrentConnection
Current(c) == current[conn[c].type] = c
Negotiating(c) == \E j \in JobIds : jobs[j].conn = c

\* Handlers that the hash or the answer of the TURN service wakes go on before
\* anything else.
Woken(j) == jobs[j].at = "hashed" \/ (turn # "unknown" /\ jobs[j].at = "turn")
Macro    == \A j \in JobIds : ~Woken(j)

Asked     == Macro /\ asks < MaxAsks /\ asks' = asks + 1 /\ UNCHANGED faults
Faulty    == Macro /\ faults < MaxFaults /\ faults' = faults + 1 /\ UNCHANGED asks
Heard     == Macro /\ life # "off" /\ UNCHANGED counters
Uncounted == Macro /\ UNCHANGED counters

\* _clearConnectionRecoveryTimers
Cleared(k) == [k EXCEPT !.timers = @ \cap {"stray"}]

-----------------------------------------------------------------------------
(* Recovery.                                                                  *)

\* _handleConnectionFailed removes whatever the table has of that type.
Fail(c) ==
  LET in == current[conn[c].type]
  IN /\ conn' = [d \in Conns |-> IF d = c THEN Closed ELSE IF d = in THEN Lost(conn[d]) ELSE conn[d]]
     /\ current' = [current EXCEPT ![conn[c].type] = 0]

\* _requestConnectionICERestart by _recoverConnection: the viewer asks over its
\* data channel, the publisher prepares an offer and awaits.
Restart(c, k) ==
  IF k.type = "publisher"
  THEN /\ conn' = [conn EXCEPT ![c] = [k EXCEPT !.restarts = @ + 1]] /\ UNCHANGED current
  ELSE IF k.dc
  THEN /\ conn' = [conn EXCEPT ![c] = [k EXCEPT !.timers = @ \cup {"recovery"}]]
       /\ UNCHANGED current
  ELSE Fail(c)

\* Mutants: a connection that nobody restarts is left to itself; the relay is
\* tried again and again.
RecoverQuietly(c, k) ==
  LET r == [k EXCEPT !.recovering = TRUE, !.timers = @ \ {"recovery"}]
  IN IF k.recovering \/ k.stage > 0
     THEN conn' = [conn EXCEPT ![c] = k] /\ UNCHANGED current
     ELSE Restart(c, [r EXCEPT !.stage = 1])
RecoverForever(c, k) ==
  LET r == [k EXCEPT !.recovering = TRUE, !.timers = @ \ {"recovery"}]
  IN IF k.recovering
     THEN conn' = [conn EXCEPT ![c] = k] /\ UNCHANGED current
     ELSE Restart(c, [r EXCEPT !.stage = @ + 1])

\* _recoverConnection of c, whose record is k by now: restart, relay unless
\* setConfiguration() throws, give up.
Recover(c, k) ==
  LET r == [k EXCEPT !.recovering = TRUE, !.timers = @ \ {"recovery"}]
  IN IF k.recovering
     THEN conn' = [conn EXCEPT ![c] = k] /\ UNCHANGED current
     ELSE CASE life # "on" -> Fail(c)
            [] life = "on" /\ k.stage = 0 -> Restart(c, [r EXCEPT !.stage = 1])
            [] life = "on" /\ k.stage = 1 /\ turn = "some" ->
                 Restart(c, [r EXCEPT !.stage = 2, !.relay = "on"]) \/ Fail(c)
            [] OTHER -> Fail(c)

\* The publisher's restart offer is out: _recoverConnection arms its timer, which
\* does nothing for a connection outside the table.
RestartDone(c) ==
  /\ conn[c].restarts > 0
  /\ LET k == [conn[c] EXCEPT !.restarts = @ - 1]
         armed == IF "recovery" \in k.timers THEN {"stray"} ELSE {"recovery"}
     IN conn' = [conn EXCEPT ![c] =
          IF Current(c) THEN [k EXCEPT !.offered = TRUE, !.timers = @ \cup armed] ELSE k]
  /\ UNCHANGED <<current, turn, jobs, issued, session>> /\ Uncounted

\* The offer cannot be made or sent: the connection is given up, whatever its
\* state is by then and whether the table has it or not.
RestartFails(c) ==
  /\ conn[c].restarts > 0
  /\ Fail(c)
  /\ UNCHANGED <<turn, jobs, issued, session>> /\ Uncounted

\* Mutant: what recovery has done so far is not forgotten.
HealthyKeepsStage(k) ==
  IF k.relay = "off" THEN [Cleared(k) EXCEPT !.recovering = FALSE]
  ELSE [Cleared(k) EXCEPT !.recovering = FALSE, !.relay = "on", !.timers = @ \cup {"relayRestore"}]

\* _handlePeerConnectionState: connected.
Healthy(k) ==
  IF k.relay = "off" THEN [Cleared(k) EXCEPT !.recovering = FALSE, !.stage = 0]
  ELSE [Cleared(k) EXCEPT !.recovering = FALSE, !.stage = 0,
                          !.relay = "on", !.timers = @ \cup {"relayRestore"}]

Up(c) ==
  /\ Current(c) /\ conn[c].pc \in {"new", "down", "failed"}
  /\ conn[c].fresh /\ conn[c].ice # 0 /\ ~Negotiating(c)
  /\ LET k == [conn[c] EXCEPT !.pc = "up"]
     IN conn' = [conn EXCEPT ![c] = Healthy(k)]
  /\ UNCHANGED <<current, turn, jobs, issued, session>> /\ Uncounted

DataChannelOpens(c) ==
  /\ conn[c].pc = "up" /\ ~conn[c].dc
  /\ conn' = [conn EXCEPT ![c].dc = TRUE]
  /\ UNCHANGED <<current, turn, jobs, issued, session>> /\ Uncounted

\* disconnected: a grace period, of one timer.
Down(c) ==
  /\ Faulty /\ Current(c) /\ conn[c].pc = "up"
  /\ conn' = [conn EXCEPT ![c].pc = "down", ![c].timers = @ \cup {"disconnect"}]
  /\ UNCHANGED <<current, turn, jobs, issued, session>>

\* failed: only another description of the remote helps now.
Fails(c) ==
  /\ Faulty /\ Current(c) /\ conn[c].pc \in {"new", "down"} /\ conn[c].fresh
  /\ LET k == [conn[c] EXCEPT !.pc = "failed", !.fresh = FALSE, !.timers = @ \ {"disconnect"}]
     IN Recover(c, k)
  /\ UNCHANGED <<turn, jobs, issued, session>>

\* Twenty seconds after the creation, five after a disconnection: a restart that
\* was being prepared by then is out.
Timer(c, t) ==
  /\ t \in conn[c].timers /\ (t = "disconnect" => conn[c].restarts = 0)
  /\ LET k == [conn[c] EXCEPT !.timers = @ \ {t}]
     IN IF k.pc = "up" THEN conn' = [conn EXCEPT ![c] = k] /\ UNCHANGED current
        ELSE Recover(c, k)
  /\ UNCHANGED <<turn, jobs, issued, session>> /\ Uncounted

\* Mutant: the state of the connection is not looked at when the timer fires.
RecoveryTimerBlind(c) ==
  /\ conn[c].timers \cap {"recovery", "stray"} # {}
  /\ Recover(c, [conn[c] EXCEPT !.recovering = FALSE, !.timers = @ \ {"recovery", "stray"}])
  /\ UNCHANGED <<turn, jobs, issued, session>> /\ Uncounted

\* Twelve seconds after a restart. One timer fires; the other, if there are two,
\* loses its handle.
RecoveryTimer(c) ==
  /\ conn[c].timers \cap {"recovery", "stray"} # {}
  /\ LET left == IF {"recovery", "stray"} \subseteq conn[c].timers THEN {"stray"} ELSE {}
         k == [conn[c] EXCEPT !.recovering = FALSE,
                              !.timers = (@ \ {"recovery", "stray"}) \cup left]
     IN IF k.pc = "up"
        THEN conn' = [conn EXCEPT ![c] = Healthy(k)] /\ UNCHANGED current
        ELSE Recover(c, k)
  /\ UNCHANGED <<turn, jobs, issued, session>> /\ Uncounted

\* Forty-five seconds after it was up over the relay. When setConfiguration() throws,
\* the connection keeps the relay and has no timer left.
RelayRestore(c) ==
  /\ "relayRestore" \in conn[c].timers
  /\ \E relay \in {"off", "stuck"} :
       conn' = [conn EXCEPT ![c].timers = @ \ {"relayRestore"}, ![c].relay = relay]
  /\ UNCHANGED <<current, turn, jobs, issued, session>> /\ Uncounted

-----------------------------------------------------------------------------
(* Negotiation.                                                               *)

\* Slots are taken in order.
Unused(c) == conn[c].pc \in {"none", "closed"} /\ ~Negotiating(c)
OfThisClient == {"play", "request"}

\* Bounds: a slot for every handler on its way, and a session for every offer.
Fits(kind) ==
  LET making == {j \in JobIds : jobs[j].kind # "none" /\ jobs[j].conn = 0}
  IN /\ Cardinality(making) < Cardinality({c \in Conns : Unused(c)})
     /\ kind \in OfThisClient =>
          issued + Cardinality({j \in making : jobs[j].kind \in OfThisClient}) < MaxSessions

\* A handler of kind starts, and awaits at.
Starts(kind, s, at) ==
  /\ Asked /\ life # "off" /\ Fits(kind)
  /\ \E j \in JobIds :
       /\ jobs[j] = NoJob /\ \A i \in JobIds : i < j => jobs[i] # NoJob
       /\ jobs' = [jobs EXCEPT ![j] = [kind |-> kind, at |-> at, session |-> s, conn |-> 0]]
  /\ UNCHANGED <<table, turn, issued, session>>

\* Offers and play requests wait for the hash of the password first.
Incoming(kind, s) == Starts(kind, s, "hash")

\* _handleOfferSDPRequest and _handleJoinRoom do not; the connection that
\* joinroom makes has no session of its own.
Requested(kind) == publishing /\ Starts(kind, 0, "turn")

\* One hash wakes those that wait for it together; once it is known, none waits for
\* another.
HashReady(ready) ==
  /\ ready # {} /\ \A j \in ready : jobs[j].at = "hash"
  /\ hashed => \E j \in JobIds : ready = {j}
  /\ hashed' = TRUE
  /\ jobs' = [j \in JobIds |-> IF j \in ready THEN [jobs[j] EXCEPT !.at = "hashed"] ELSE jobs[j]]
  /\ UNCHANGED <<table, turn, issued, publishing, life, leaving>> /\ Uncounted

TurnFetched ==
  /\ turn = "unknown" /\ \E j \in JobIds : jobs[j].at = "turn"
  /\ turn' = "some"
  /\ UNCHANGED <<table, jobs, issued, session>> /\ Uncounted

\* _createConnection after the TURN list, which is waited for even when it is known:
\* the others that the same hash wakes look at the table before. An offer is applied
\* at once.
Created(j) ==
  LET job  == jobs[j]
      type == IF job.kind = "offer" THEN "viewer" ELSE "publisher"
      made == [NoConn EXCEPT !.type = type, !.pc = "new", !.timers = {"connect"}]
  IN /\ turn # "unknown" /\ job.at = "turn" /\ \A i \in JobIds : jobs[i].at # "hashed"
     /\ \E c \in Conns :
          /\ Unused(c) /\ \A d \in 1..(c - 1) : ~Unused(d)
          /\ conn' = [d \in Conns |->
               CASE d # c /\ d = current[type] -> Lost(conn[d])
                 [] d # c /\ d # current[type] -> conn[d]
                 [] d = c /\ type = "viewer" ->
                      [made EXCEPT !.session = job.session, !.remote = job.session, !.fresh = TRUE]
                 [] OTHER -> [made EXCEPT !.session = IF job.kind = "join" THEN 0 ELSE issued + 1]]
          /\ current' = [current EXCEPT ![type] = c]
          /\ jobs' = [jobs EXCEPT ![j] = [job EXCEPT !.at = "describe", !.conn = c]]
     /\ IF job.kind \in OfThisClient
        THEN issued < MaxSessions /\ issued' = issued + 1 ELSE UNCHANGED issued
     /\ UNCHANGED <<turn, session, counters>>

CloseAll(types) ==
  /\ conn' = [c \in Conns |-> IF \E t \in types : current[t] = c THEN Closed ELSE conn[c]]
  /\ current' = [t \in Types |-> IF t \in types THEN 0 ELSE current[t]]

\* The offer's session is the one of the viewer connection c: it renegotiates.
Reused(j, c) == c # 0 /\ conn[c].session = jobs[j].session
Renegotiates(j, c) ==
  /\ conn' = [conn EXCEPT ![c].remote = jobs[j].session, ![c].fresh = TRUE]
  /\ jobs' = [jobs EXCEPT ![j].at = "describe", ![j].conn = c]
  /\ UNCHANGED current

\* Mutant: the connection of another session is forgotten, not closed.
OfferHashedLeaks(j) ==
  /\ jobs[j].kind = "offer" /\ jobs[j].at = "hashed"
  /\ \/ Reused(j, current["viewer"]) /\ Renegotiates(j, current["viewer"])
     \/ /\ ~Reused(j, current["viewer"])
        /\ current' = [current EXCEPT !["viewer"] = 0] /\ UNCHANGED conn
        /\ jobs' = [jobs EXCEPT ![j].at = "turn"]
  /\ UNCHANGED <<turn, issued, session, counters>>

\* _handleOfferSDP up to its next await: the same session renegotiates, another one
\* closes and replaces.
OfferHashed(j) ==
  /\ jobs[j].kind = "offer" /\ jobs[j].at = "hashed"
  /\ \/ Reused(j, current["viewer"]) /\ Renegotiates(j, current["viewer"])
     \/ /\ ~Reused(j, current["viewer"]) /\ CloseAll({"viewer"})
        /\ jobs' = [jobs EXCEPT ![j].at = "turn"]
  /\ UNCHANGED <<turn, issued, session, counters>>

\* _handlePlayRequest
PlayHashed(j) ==
  /\ jobs[j].kind = "play" /\ jobs[j].at = "hashed"
  /\ jobs' = [jobs EXCEPT ![j] = IF publishing THEN [@ EXCEPT !.at = "turn"] ELSE NoJob]
  /\ UNCHANGED <<table, turn, issued, session, counters>>

\* The answer or the offer is made and sent, unless its connection was closed.
Described(j) ==
  /\ jobs[j].at = "describe"
  /\ jobs' = [jobs EXCEPT ![j] = NoJob]
  /\ LET c == jobs[j].conn
     IN conn' = IF IsOpen(c) /\ jobs[j].kind # "offer"
                THEN [conn EXCEPT ![c].offered = TRUE] ELSE conn
  /\ UNCHANGED <<current, turn, issued, session>> /\ Uncounted

Matches(c, s) == conn[c].session \in {0, s}

\* _handleAnswerSDP: an answer to an offer that was sent to the remote. The offer
\* of joinroom is addressed to this client itself, so none is ever for that.
Answer(s) ==
  /\ Heard /\ s <= issued
  /\ \E c \in Conns : /\ c = current["publisher"] /\ conn[c].offered /\ Matches(c, s)
                      /\ conn' = [conn EXCEPT ![c].offered = FALSE, ![c].remote = s,
                                              ![c].fresh = TRUE]
  /\ UNCHANGED <<current, turn, jobs, issued, session>>

\* _handleRemoteICECandidates: lost without a remote description to go with.
Candidates(t, s) ==
  /\ Heard
  /\ \E c \in Conns : /\ c = current[t] /\ Matches(c, s) /\ conn[c].remote # 0
                      /\ conn[c].ice = 0 /\ conn' = [conn EXCEPT ![c].ice = s]
  /\ UNCHANGED <<current, turn, jobs, issued, session>>

\* iceRestartRequest of a viewer, over its data channel.
RestartRequest(c) ==
  /\ Asked /\ conn[c].type = "publisher" /\ conn[c].dc /\ conn[c].pc \in {"up", "down"}
  /\ conn' = [conn EXCEPT ![c].offered = TRUE]
  /\ UNCHANGED <<current, turn, jobs, issued, session>>

-----------------------------------------------------------------------------
(* Leaving.                                                                   *)

\* _handleBye, _handleHangup
ByeOrHangup ==
  /\ Asked /\ life # "off" /\ \E t \in Types : current[t] # 0
  /\ CloseAll(Types)
  /\ UNCHANGED <<turn, jobs, issued, session>>

Stop(t) ==
  /\ Asked /\ t \notin leaving
  /\ t = "publisher" => publishing
  /\ leaving' = leaving \cup {t}
  /\ UNCHANGED <<table, turn, jobs, issued, hashed, publishing, life>>

StopFlushed(t) ==
  /\ t \in leaving /\ leaving' = leaving \ {t}
  /\ CloseAll({t}) /\ publishing' = (publishing /\ t # "publisher")
  /\ UNCHANGED <<turn, jobs, issued, hashed, life>> /\ Uncounted

Disconnect ==
  /\ Asked /\ life = "on" /\ life' = "leaving"
  /\ UNCHANGED <<table, turn, jobs, issued, hashed, publishing, leaving>>

Teardown ==
  /\ life = "leaving" /\ life' = "off"
  /\ CloseAll(Types) /\ publishing' = FALSE
  /\ UNCHANGED <<turn, jobs, issued, hashed, leaving>> /\ Uncounted

-----------------------------------------------------------------------------
\* What the remote, the network and the application do...
Others ==
  \/ \E s \in Sessions : Incoming("offer", s) \/ Answer(s)
  \/ Incoming("play", 0) \/ Requested("request") \/ Requested("join")
  \/ \E t \in Types, s \in Sessions : Candidates(t, s)
  \/ \E c \in Conns : Up(c) \/ Down(c) \/ Fails(c) \/ DataChannelOpens(c) \/ RestartRequest(c)
  \/ ByeOrHangup \/ Disconnect \/ \E t \in Types : Stop(t)

\* ... and what the SDK does by itself.
System ==
  \/ TurnFetched \/ \E ready \in SUBSET JobIds : HashReady(ready)
  \/ \E j \in JobIds : OfferHashed(j) \/ PlayHashed(j) \/ Created(j) \/ Described(j)
  \/ \E c \in Conns : \/ RestartDone(c) \/ RestartFails(c) \/ RecoveryTimer(c) \/ RelayRestore(c)
                      \/ \E t \in {"connect", "disconnect"} : Timer(c, t)
  \/ Teardown \/ \E t \in Types : StopFlushed(t)

Next == Others \/ System
Spec == Init /\ [][Next]_vars

\* Timers fire, awaits end, the TURN service answers or is given up after two
\* seconds. Remote, network and application owe nothing.
FairSpec == Spec /\ WF_vars(System)

-----------------------------------------------------------------------------
TypeOK ==
  /\ conn \in [Conns -> [type : Types, session : 0..MaxSessions,
                         pc : {"none", "new", "up", "down", "failed", "lost", "closed"},
                         dc : BOOLEAN, offered : BOOLEAN, remote : 0..MaxSessions,
                         fresh : BOOLEAN, ice : 0..MaxSessions, recovering : BOOLEAN,
                         restarts : 0..(MaxFaults + 1), stage : 0..2, timers : SUBSET Timers,
                         relay : {"off", "on", "stuck"}]]
  /\ current \in [Types -> 0..MaxConns]
  /\ turn \in {"unknown", "none", "some"}
  /\ jobs \in [JobIds -> [kind : {"none", "offer", "play", "request", "join"},
                          at : {"idle", "hash", "hashed", "turn", "describe"},
                          session : 0..MaxSessions, conn : 0..MaxConns]]
  /\ issued \in 0..MaxSessions
  /\ hashed \in BOOLEAN /\ publishing \in BOOLEAN
  /\ life \in {"on", "leaving", "off"} /\ leaving \subseteq Types
  /\ asks \in 0..MaxAsks /\ faults \in 0..MaxFaults

\* A viewer connection that leaves the table is closed: outside, nothing would ever
\* close it.  Only handlers that one hash or one TURN list wakes together get in
\* each other's way: the second puts its connection over that of the first, which
\* has not answered its offer yet.
ReplacedIsClosed ==
  [][\A c \in Conns : c = current["viewer"] /\ c # current'["viewer"] =>
       \/ conn'[c].pc = "closed"
       \/ conn[c].pc = "new" /\ Negotiating(c) /\ \E j \in JobIds : Created(j)]_vars

\* A connection in the table that is up starts its next recovery from scratch,
\* and the relay it was forced to is given up again: the timer is set, unless it
\* fired and failed.
HealedIsReset ==
  \A c \in Conns : conn[c].pc = "up" /\ Current(c) =>
    /\ ~conn[c].recovering /\ conn[c].stage = 0
    /\ conn[c].timers \cap {"connect", "disconnect"} = {}
    /\ conn[c].relay = "on" => "relayRestore" \in conn[c].timers

\* No timer of recovery takes down a connection that is up by then: the network, the
\* remote or the application do, by a fault, a bye, another session or leaving,
\* and a restart whose offer failed, the only exit that does not look at the state.
HealthyNotKilled ==
  [][\A c \in Conns : conn[c].pc = "up" /\ conn'[c].pc # "up" =>
       \/ <<counters, jobs, leaving, life>>' # <<counters, jobs, leaving, life>>
       \/ \E d \in Conns : conn[d].type = conn[c].type /\ RestartFails(d)]_vars

\* A connection in the table that is not up is up again or out of the table in
\* the end: recovery is bounded.
RecoveryEnds ==
  \A c \in Conns : (IsOpen(c) /\ Current(c)) ~> (conn[c].pc = "up" \/ ~Current(c))
=============================================================================
