---------------------------- MODULE PeerSessions ----------------------------
(***************************************************************************)
(* The peer table of WebRTCSession: peerSessions_, sessionByUuid_, the ICE *)
(* candidates that arrive before their peer, negotiation with its unlocked *)
(* windows, RTC and datachannel callbacks, the retirement worker, stop and *)
(* restart.                                                                *)
(*                                                                         *)
(* Every critical section of mutex_ is one action.  What happens between   *)
(* two sections of one handler (setRemoteDescription, the dispatch of a    *)
(* datachannel message) is a step of its own, so that every other thread   *)
(* may run in the gap.                                                     *)
(***************************************************************************)
EXTENDS Integers, FiniteSets

CONSTANTS
  Mode,           \* config_.mode: "publish" or "play"
  Uuids,          \* signaling identities of remote parties
  SessionIds,     \* session ids remote parties choose themselves
  Streams,        \* stream ids remote parties announce
  OwnStream,      \* hashedStreamId_, a new peer's stream until an offer names one
  Blank,          \* a field the message does not carry
  DcThreads,      \* RTC threads that deliver datachannel messages
  IxKinds,        \* bound: kinds of message the signaling server sends
  DcKinds,        \* bound: kinds of message that arrive over datachannels
  MaxPeers,       \* kMaxPeerSessions
  MaxPendingIce,  \* candidates kept per peer before its remote description
  MaxGlobalIce,   \* candidates kept for peers that do not exist yet
  MaxConns,       \* bound: RTC connections created in a behaviour
  MaxCands,       \* bound: remote candidates received in a behaviour
  MaxStarts       \* bound: calls of start()

ASSUME ModeAssumption == Mode \in {"publish", "play"}
ASSUME BoundAssumption ==
  /\ MaxPeers \in Nat \ {0} /\ MaxConns \in Nat /\ MaxCands \in Nat /\ MaxStarts \in Nat
  /\ MaxPendingIce \in Nat /\ MaxGlobalIce \in Nat \ {0}
  /\ MaxGlobalIce <= MaxPendingIce        \* 100 and 256 in the code
ASSUME KindAssumption ==
  /\ DcKinds \subseteq {"offer", "candidate"}
  /\ IxKinds \subseteq {"offer", "candidate", "lost"}
                 \cup (IF Mode = "publish" THEN {"request", "answer"} ELSE {})
ASSUME IdAssumption ==
  /\ OwnStream \in Streams
  /\ Blank \notin Streams \cup SessionIds \cup Uuids \cup Nat
  /\ "ix" \notin DcThreads

VARIABLES
  peers,     \* peerSessions_
  byUuid,    \* sessionByUuid_
  globalIce, \* pendingGlobalIce_: a queue, as a set of numbered candidates
  retired,   \* retiredPeers_: a retired peer's connection and datachannel
  cleaning,  \* the retired peer the cleanup worker holds
  pending,   \* pendingPeerCleanup_
  worker,    \* peerCleanupThread_: "running" or "exited"
  conn,      \* the RTC connection objects and their callback state
  created,   \* connections created so far
  received,  \* candidates received so far
  hnd,       \* the message handler in progress on each dispatching thread
  life,      \* start() and stop(), by the last step done
  starts     \* calls of start() so far

table == <<peers, byUuid, globalIce>>
cleanup == <<retired, cleaning, pending, worker>>
vars == <<table, cleanup, conn, created, received, hnd, life, starts>>

Conns == 1..MaxConns
Sessions == SessionIds \cup Conns          \* a generated session id is fresh
Keys == Uuids \X Sessions
NoKey == <<Blank, Blank>>

\* Threads that run handleSignalingMessage: the WebSocket worker and, for the
\* channels a Play peer listens on, libdatachannel's threads.
Threads == {"ix"} \cup DcThreads

ConnStates == {"none", "new", "connected", "disconnected", "failed", "closed"}
Events == {"connected", "disconnected", "failed", "closed"}
Cand == [n : 1..MaxCands, uuid : Uuids, sess : Sessions \cup {Blank}]
Kinds == {"none", "request", "offer", "answer", "candidate", "lost"}
Msg == [kind : Kinds, uuid : Uuids \cup {Blank},
        sess : Sessions \cup {Blank}, stream : Streams \cup {Blank}, n : 0..MaxCands]
Peer == [conn : Conns, dc : Conns \cup {0}, stream : Streams, ready : BOOLEAN,
         described : BOOLEAN, ice : SUBSET Cand]
Connection == [st : ConnStates, key : Keys \cup {NoKey}, remote : BOOLEAN,
               applied : SUBSET Cand, attached : BOOLEAN, listens : BOOLEAN,
               cb : Events \cup {"none"}]
Retiree == [conn : Conns, dc : Conns \cup {0}]

Bare(kind) == [kind |-> kind, uuid |-> Blank, sess |-> Blank, stream |-> Blank, n |-> 0]
NoMsg == Bare("none")
Idle == [pc |-> "idle", msg |-> NoMsg, key |-> NoKey, conn |-> 0, src |-> 0]
Dispatching(m, c) == [pc |-> "dispatch", msg |-> m, key |-> NoKey, conn |-> 0, src |-> c]
NoPeer == [conn |-> 0, dc |-> 0]
NoConn == [st |-> "none", key |-> NoKey, remote |-> FALSE, applied |-> {},
           attached |-> FALSE, listens |-> FALSE, cb |-> "none"]

ShuttingDown == life \in {"stopping", "joined", "draining"}
Live(k) == k \in DOMAIN peers
-----------------------------------------------------------------------------
(* Table operations: the caller holds mutex_. *)

\* What outlives the removal of a peer from the maps.
Remains(p) == [conn |-> p.conn, dc |-> p.dc]

\* closePeerSession for every key of ks: into the queue of the worker ...
Retire(ks) ==
  /\ retired' = retired \cup {Remains(peers[k]) : k \in ks}
  /\ pending' = pending + Cardinality(ks)
  /\ UNCHANGED <<cleaning, worker>>

\* Mutant: the uuid goes on pointing to the peer.
CloseHalf(ks) ==
  /\ peers' = [k \in DOMAIN peers \ ks |-> peers[k]]
  /\ UNCHANGED byUuid
  /\ Retire(ks)

\* ... and out of both maps.
Close(ks) ==
  /\ peers' = [k \in DOMAIN peers \ ks |-> peers[k]]
  /\ byUuid' = [u \in DOMAIN byUuid \ {k[1] : k \in ks} |-> byUuid[u]]
  /\ Retire(ks)

\* The peer that ensurePeerSession closes because its uuid has a new session.
Replaced(key) == {k \in DOMAIN peers : key[1] \in DOMAIN byUuid
                                       /\ byUuid[key[1]] = k /\ k # key}

\* Mutant: off by one.
CleanupBusyLate == pending > MaxPeers

CleanupBusy == pending >= MaxPeers
Full(key) == Cardinality(DOMAIN peers \ Replaced(key)) >= MaxPeers

\* Mutant: a candidate without a session id is not recognised.
MatchingExact(key) == {i \in globalIce : i.uuid = key[1] /\ i.sess = key[2]}

\* Queued candidates that belong to a peer created under key.
Matching(key) == {i \in globalIce : i.uuid = key[1] /\ i.sess \in {Blank, key[2]}}

NewPeer(key, stream, dc) ==
  [conn |-> created + 1, dc |-> dc, stream |-> stream, ready |-> FALSE,
   described |-> FALSE, ice |-> Matching(key)]

NewConn(key) == [st |-> "new", key |-> key, remote |-> FALSE, applied |-> {},
                 attached |-> TRUE, listens |-> FALSE, cb |-> "none"]

Create(key, stream, dc) ==
  /\ ~Live(key) /\ ~CleanupBusy /\ ~Full(key)
  /\ created < MaxConns
  /\ peers' = [k \in (DOMAIN peers \ Replaced(key)) \cup {key} |->
                 IF k = key THEN NewPeer(key, stream, dc) ELSE peers[k]]
  /\ byUuid' = [u \in DOMAIN byUuid \cup {key[1]} |->
                 IF u = key[1] THEN key ELSE byUuid[u]]
  /\ globalIce' = globalIce \ Matching(key)
  /\ Retire(Replaced(key))
  /\ created' = created + 1
  /\ conn' = [conn EXCEPT ![created + 1] = NewConn(key)]

\* A refusal for lack of room comes after the replaced peer was closed.
Refuse(key) ==
  /\ ~Live(key)
  /\ IF CleanupBusy THEN UNCHANGED <<peers, byUuid, cleanup>>
     ELSE Full(key) /\ Close(Replaced(key))
  /\ UNCHANGED <<globalIce, conn, created>>

Named(field, default) == IF field = Blank THEN default ELSE field

\* makePeerKey of a message; a generated session id is one never used before.
KeyOf(m) == <<m.uuid, Named(m.sess, created + 1)>>
-----------------------------------------------------------------------------
TableOK ==
  /\ DOMAIN peers \subseteq Keys /\ peers \in [DOMAIN peers -> Peer]
  /\ DOMAIN byUuid \subseteq Uuids /\ byUuid \in [DOMAIN byUuid -> Keys]
  /\ globalIce \subseteq Cand
CleanupOK ==
  /\ retired \subseteq Retiree /\ cleaning \in Retiree \cup {NoPeer}
  /\ worker \in {"running", "exited"}
ConnOK == conn \in [Conns -> Connection]
HandlersOK ==
  /\ hnd \in [Threads -> [pc : {"idle", "dispatch", "apply", "finish"}, msg : Msg,
                          key : Keys \cup {NoKey}, conn : Conns \cup {0},
                          src : Conns \cup {0}]]
  /\ \A t \in Threads : hnd[t].pc = "dispatch" =>
       /\ hnd[t].msg.kind # "lost" => hnd[t].msg.uuid \in Uuids
       /\ hnd[t].msg.kind = "candidate" => hnd[t].msg.n \in 1..MaxCands
CountersOK ==
  /\ created \in 0..MaxConns /\ received \in 0..MaxCands /\ starts \in Nat
  /\ life \in {"running", "stopping", "joined", "draining", "stopped"}

TypeOK == TableOK /\ CleanupOK /\ pending \in Nat /\ ConnOK /\ HandlersOK /\ CountersOK

Init ==
  /\ peers = <<>> /\ byUuid = <<>> /\ globalIce = {}
  /\ retired = {} /\ cleaning = NoPeer /\ pending = 0 /\ worker = "running"
  /\ conn = [c \in Conns |-> NoConn]
  /\ created = 0 /\ received = 0
  /\ hnd = [t \in Threads |-> Idle]
  /\ life = "running" /\ starts = 1
-----------------------------------------------------------------------------
(* Messages: a thread that saw shuttingDown_ clear goes on to the handler. *)

\* Bound: a message is delivered only if its handler can create n connections.
Room(n) == created + n + Cardinality({t \in Threads : hnd[t].pc = "dispatch"}) <= MaxConns

\* Bound: candidates are numbered as they arrive.
Arrives(m) == received' = IF m.kind = "candidate" THEN m.n ELSE received

\* The WebSocket worker passes the check of its callback.
Receive(m) ==
  /\ life = "running" /\ hnd["ix"].pc = "idle"
  /\ m.kind \in {"request", "offer"} => Room(1)
  /\ hnd' = [hnd EXCEPT !["ix"] = Dispatching(m, 0)]
  /\ Arrives(m)
  /\ UNCHANGED <<table, cleanup, conn, created, life, starts>>

\* The handler goes on to apply a remote description, without mutex_.
Applying(t, kind, key, c) ==
  hnd' = [hnd EXCEPT ![t] = [pc |-> "apply", msg |-> Bare(kind), key |-> key, conn |-> c,
                             src |-> hnd[t].src]]
Return(t) == hnd' = [hnd EXCEPT ![t] = Idle]

\* handleOfferRequest: a viewer asks for an offer and gets a fresh session.
HandleOfferRequest(t, m) ==
  /\ Create(KeyOf(m), OwnStream, 0) \/ Refuse(KeyOf(m))
  /\ Return(t)
  /\ UNCHANGED received

\* handleRemoteDescription, an offer: the section before it is applied.
HandleOffer(t, m) ==
  LET key == KeyOf(m) IN
  /\ \/ /\ Live(key)
        /\ peers' = [peers EXCEPT ![key].stream = Named(m.stream, @), ![key].ready = FALSE]
        /\ Applying(t, "offer", key, peers[key].conn)
        /\ UNCHANGED <<byUuid, globalIce, cleanup, conn, created>>
     \/ /\ Create(key, Named(m.stream, OwnStream), 0)
        /\ Applying(t, "offer", key, created + 1)
     \/ Refuse(key) /\ Return(t)
  /\ UNCHANGED received

\* The peer of a message: the one it names, else the one of its uuid.
Located(m) ==
  IF Live(<<m.uuid, m.sess>>) THEN {<<m.uuid, m.sess>>}
  ELSE {k \in DOMAIN peers : m.uuid \in DOMAIN byUuid /\ byUuid[m.uuid] = k}

\* Mutant: the description empties the queue of its peer.
HandleAnswerForgets(t, m) ==
  /\ \/ \E k \in Located(m) :
          /\ peers' = [peers EXCEPT ![k].ice = {}]
          /\ Applying(t, "answer", k, peers[k].conn)
     \/ Located(m) = {} /\ Return(t) /\ UNCHANGED peers
  /\ UNCHANGED <<byUuid, globalIce, cleanup, conn, created, received>>

\* handleRemoteDescription, an answer: the section before it is applied.
HandleAnswer(t, m) ==
  /\ \/ \E k \in Located(m) :
          /\ peers' = [peers EXCEPT ![k].stream = Named(m.stream, @)]
          /\ Applying(t, "answer", k, peers[k].conn)
     \/ Located(m) = {} /\ Return(t) /\ UNCHANGED peers
  /\ UNCHANGED <<byUuid, globalIce, cleanup, conn, created, received>>

\* The library applies the description, or throws and the handler gives up.  For an
\* offer it may throw after that, when the answer is to be made.
ApplyRemote(t) ==
  /\ hnd[t].pc = "apply"
  /\ \/ /\ conn[hnd[t].conn].st # "closed"
        /\ conn' = [conn EXCEPT ![hnd[t].conn].remote = TRUE]
        /\ \/ hnd' = [hnd EXCEPT ![t].pc = "finish"]
           \/ hnd[t].msg.kind = "offer" /\ Return(t)
     \/ Return(t) /\ UNCHANGED conn
  /\ UNCHANGED <<table, cleanup, created, received, life, starts>>

\* The section after it: remoteDescriptionSet, flushPendingIceLocked and, for
\* an answer, negotiationReady.  addRemoteCandidate throws on a connection
\* without a remote description, which leaves the rest undone.
Delivered(p) == IF conn[p.conn].remote THEN p.ice ELSE {}

FinishDescription(t) ==
  LET key == hnd[t].key
      p == peers[key]
      rest == p.ice \ Delivered(p)
  IN /\ hnd[t].pc = "finish"
     /\ IF Live(key)
        THEN /\ peers' = [peers EXCEPT ![key].described = TRUE, ![key].ice = rest,
                            ![key].ready = @ \/ (rest = {} /\ hnd[t].msg.kind = "answer")]
             /\ conn' = [conn EXCEPT ![p.conn].applied = @ \cup Delivered(p)]
        ELSE UNCHANGED <<peers, conn>>
     /\ Return(t)
     /\ UNCHANGED <<byUuid, globalIce, cleanup, created, received, life, starts>>

\* handleRemoteCandidate when no peer matches: the queue drops its oldest.
Oldest == {i \in globalIce : \A j \in globalIce : i.n <= j.n}
QueueGlobally(i) ==
  globalIce' = {i} \cup (IF Cardinality(globalIce) >= MaxGlobalIce
                         THEN globalIce \ Oldest ELSE globalIce)

\* queueOrApplyCandidate: kept until the description, then applied.
QueueOrApply(k, i) ==
  LET p == peers[k] IN
  \/ /\ ~p.described
     /\ peers' = [peers EXCEPT ![k].ice =
                    IF Cardinality(@) < MaxPendingIce THEN @ \cup {i} ELSE @]
     /\ UNCHANGED conn
  \/ /\ p.described
     /\ conn' = [conn EXCEPT ![p.conn].applied = IF conn[p.conn].remote THEN @ \cup {i} ELSE @]
     /\ UNCHANGED peers

HandleCandidate(t, m) ==
  LET i == [n |-> m.n, uuid |-> m.uuid, sess |-> m.sess] IN
  /\ \/ Located(m) = {} /\ QueueGlobally(i) /\ UNCHANGED <<peers, conn>>
     \/ \E k \in Located(m) : QueueOrApply(k, i) /\ UNCHANGED globalIce
  /\ Return(t)
  /\ UNCHANGED <<byUuid, cleanup, created, received>>

\* The signaling connection closed: peers outlive it, but when there are none
\* resetAllPeerConnections empties the candidate queue.
HandleSignalingLost(t) ==
  /\ globalIce' = IF DOMAIN peers = {} THEN {} ELSE globalIce
  /\ Return(t)
  /\ UNCHANGED <<peers, byUuid, cleanup, conn, created, received>>

Dispatch(t) ==
  LET m == hnd[t].msg IN
  /\ hnd[t].pc = "dispatch"
  /\ \/ m.kind = "request" /\ HandleOfferRequest(t, m)
     \/ m.kind = "offer" /\ HandleOffer(t, m)
     \/ m.kind = "answer" /\ HandleAnswer(t, m)
     \/ m.kind = "candidate" /\ HandleCandidate(t, m)
     \/ m.kind = "lost" /\ HandleSignalingLost(t)
  /\ UNCHANGED <<life, starts>>
-----------------------------------------------------------------------------
(* Datachannels, which only a Play peer listens on. *)

\* onDataChannel: callbacks are installed even when the peer is gone.
DcOpen(c) ==
  /\ Mode = "play" /\ ~ShuttingDown
  /\ conn[c].attached /\ conn[c].st = "connected" /\ ~conn[c].listens
  /\ conn' = [conn EXCEPT ![c].listens = TRUE]
  /\ peers' = [k \in DOMAIN peers |->
                 IF k = conn[c].key THEN [peers[k] EXCEPT !.dc = c] ELSE peers[k]]
  /\ UNCHANGED <<byUuid, globalIce, cleanup, created, received, hnd, life, starts>>

\* onMessage: fields the message lacks come from the source peer, and the
\* target peer is created if need be and bound to this channel.
DcMessage(t, c, m) ==
  LET source == conn[c].key
      full == [kind |-> m.kind, uuid |-> Named(m.uuid, source[1]),
               sess |-> Named(m.sess, source[2]),
               stream |-> Named(m.stream, peers[source].stream), n |-> m.n]
      target == KeyOf(full)
  IN /\ ~ShuttingDown /\ hnd[t].pc = "idle" /\ \A o \in DcThreads : hnd[o].src # c
     /\ conn[c].listens /\ conn[c].st = "connected" /\ Live(source)
     /\ Room((IF Live(target) THEN 0 ELSE 1) + (IF m.kind = "offer" THEN 1 ELSE 0))
     /\ \/ /\ Live(target)
           /\ peers' = [peers EXCEPT ![target].dc = c]
           /\ UNCHANGED <<byUuid, globalIce, cleanup, conn, created>>
        \/ Create(target, OwnStream, c)
        \/ Refuse(target)
     /\ hnd' = [hnd EXCEPT ![t] = Dispatching(full, c)]
     /\ Arrives(m)
     /\ UNCHANGED <<life, starts>>
-----------------------------------------------------------------------------
(* RTC state changes.  A callback that saw shuttingDown_ clear is in       *)
(* progress (cb) until its critical section is done.                       *)

Follows(from) ==
  CASE from = "new" -> {"connected", "failed", "closed"}
    [] from = "connected" -> {"disconnected", "failed", "closed"}
    [] from = "disconnected" -> {"connected", "failed", "closed"}
    [] from = "failed" -> {"closed"}
    [] OTHER -> {}

StateChange(c, e) ==
  /\ conn[c].remote /\ e \in Follows(conn[c].st) /\ conn[c].cb = "none"
  /\ conn' = [conn EXCEPT ![c].st = e,
                          ![c].cb = IF conn[c].attached /\ ~ShuttingDown THEN e ELSE "none"]
  /\ UNCHANGED <<table, cleanup, created, received, hnd, life, starts>>

\* Mutant: the earlier generation stays.
SupersededNone(k) == {}

\* Play keeps one generation of a stream: the one that connected last.
Superseded(k) ==
  IF Mode = "play" THEN {o \in DOMAIN peers \ {k} : peers[o].stream = peers[k].stream} ELSE {}

\* The section of onStateChange.  It finds its peer by key, not by connection.
Connected(k) ==
  /\ peers' = [o \in DOMAIN peers \ Superseded(k) |->
                 IF o = k THEN [peers[k] EXCEPT !.ready = TRUE] ELSE peers[o]]
  /\ byUuid' = [u \in DOMAIN byUuid \ {o[1] : o \in Superseded(k)} |-> byUuid[u]]
  /\ Retire(Superseded(k))

Disconnected(k) ==
  /\ peers' = [peers EXCEPT ![k].ready = FALSE]
  /\ UNCHANGED <<byUuid, cleanup>>

\* Mutant: the worker resets callbacks while it holds mutex_, so a callback in
\* progress cannot enter its section until the reset, which waits for it, is over.
CallbackLockedOut(c) ==
  LET k == conn[c].key IN
  /\ conn[c].cb # "none" /\ cleaning = NoPeer
  /\ conn' = [conn EXCEPT ![c].cb = "none"]
  /\ ~Live(k) /\ UNCHANGED <<peers, byUuid, cleanup>>
  /\ UNCHANGED <<globalIce, created, received, hnd, life, starts>>

Callback(c) ==
  LET k == conn[c].key IN
  /\ conn[c].cb # "none"
  /\ conn' = [conn EXCEPT ![c].cb = "none"]
  /\ \/ ~Live(k) /\ UNCHANGED <<peers, byUuid, cleanup>>
     \/ Live(k) /\ conn[c].cb = "connected" /\ Connected(k)
     \/ Live(k) /\ conn[c].cb = "disconnected" /\ Disconnected(k)
     \/ Live(k) /\ conn[c].cb \in {"failed", "closed"} /\ Close({k})
  /\ UNCHANGED <<globalIce, created, received, hnd, life, starts>>
-----------------------------------------------------------------------------
(* peerCleanupMain, which holds no lock while it waits for callbacks.      *)

\* Mutant: the counter is lowered when the worker takes a peer, and again at the end.
TakeRetiredCounted ==
  /\ worker = "running" /\ cleaning = NoPeer
  /\ \E r \in retired : cleaning' = r /\ retired' = retired \ {r}
  /\ pending' = pending - 1
  /\ UNCHANGED <<table, worker, conn, created, received, hnd, life, starts>>

TakeRetired ==
  /\ worker = "running" /\ cleaning = NoPeer
  /\ \E r \in retired : cleaning' = r /\ retired' = retired \ {r}
  /\ UNCHANGED <<table, pending, worker, conn, created, received, hnd, life, starts>>

\* connection->resetCallbacks() returns once no callback is in progress.
DetachConnection ==
  /\ cleaning # NoPeer /\ conn[cleaning.conn].attached /\ conn[cleaning.conn].cb = "none"
  /\ conn' = [conn EXCEPT ![cleaning.conn].attached = FALSE, ![cleaning.conn].st = "closed"]
  /\ UNCHANGED <<table, cleanup, created, received, hnd, life, starts>>

\* Mutant: the connection is let go of without waiting for its callbacks.
ReleaseUndetached ==
  /\ cleaning # NoPeer
  /\ \A t \in DcThreads : cleaning.dc = 0 \/ hnd[t].src # cleaning.dc
  /\ conn' = [c \in Conns |-> IF c = cleaning.dc THEN [conn[c] EXCEPT !.listens = FALSE]
                                                 ELSE conn[c]]
  /\ cleaning' = NoPeer /\ pending' = pending - 1
  /\ UNCHANGED <<table, retired, worker, created, received, hnd, life, starts>>

\* dataChannel->resetCallbacks() waits for the message being handled.
ReleasePeer ==
  /\ cleaning # NoPeer /\ ~conn[cleaning.conn].attached
  /\ \A t \in DcThreads : cleaning.dc = 0 \/ hnd[t].src # cleaning.dc
  /\ conn' = [c \in Conns |-> IF c = cleaning.dc THEN [conn[c] EXCEPT !.listens = FALSE]
                                                 ELSE conn[c]]
  /\ cleaning' = NoPeer /\ pending' = pending - 1
  /\ UNCHANGED <<table, retired, worker, created, received, hnd, life, starts>>

\* Mutant: the worker leaves as soon as it is told to, whatever is queued.
WorkerExitEarly ==
  /\ worker = "running" /\ cleaning = NoPeer /\ life = "draining"
  /\ worker' = "exited"
  /\ UNCHANGED <<table, retired, cleaning, pending, conn, created, received, hnd, life, starts>>

WorkerExit ==
  /\ worker = "running" /\ cleaning = NoPeer /\ retired = {} /\ life = "draining"
  /\ worker' = "exited"
  /\ UNCHANGED <<table, retired, cleaning, pending, conn, created, received, hnd, life, starts>>
-----------------------------------------------------------------------------
(* stop() and start(), called by one thread at a time.                     *)

StopMark ==
  /\ life = "running" /\ life' = "stopping"
  /\ UNCHANGED <<table, cleanup, conn, created, received, hnd, starts>>

\* Mutant: the socket is dropped without joining its worker.
JoinSignalingUnjoined ==
  /\ life = "stopping" /\ life' = "joined"
  /\ UNCHANGED <<table, cleanup, conn, created, received, hnd, starts>>

JoinSignaling ==
  /\ life = "stopping" /\ hnd["ix"].pc = "idle" /\ life' = "joined"
  /\ UNCHANGED <<table, cleanup, conn, created, received, hnd, starts>>

ResetAll ==
  /\ life = "joined" /\ life' = "draining"
  /\ peers' = <<>> /\ byUuid' = <<>> /\ globalIce' = {}
  /\ Retire(DOMAIN peers)
  /\ UNCHANGED <<conn, created, received, hnd, starts>>

StopDone ==
  /\ life = "draining" /\ worker = "exited" /\ life' = "stopped"
  /\ UNCHANGED <<table, cleanup, conn, created, received, hnd, starts>>

\* start() drops what the tables still hold; a connection dies with its peer.
Start ==
  /\ life = "stopped" /\ starts < MaxStarts
  /\ life' = "running" /\ starts' = starts + 1 /\ worker' = "running"
  /\ peers' = <<>> /\ byUuid' = <<>> /\ globalIce' = {}
  /\ conn' = [c \in Conns |-> IF \E k \in DOMAIN peers : peers[k].conn = c
                              THEN [conn[c] EXCEPT !.attached = FALSE, !.st = "closed"]
                              ELSE conn[c]]
  /\ UNCHANGED <<retired, cleaning, pending, created, received, hnd>>
-----------------------------------------------------------------------------
\* Session ids a message may carry: chosen by a remote party, or by an offer of ours.
Known == SessionIds \cup {Blank} \cup 1..created

NextCand == {received + 1} \cap 1..MaxCands    \* the number of the next candidate

Offers == [kind : {"offer"}, uuid : Uuids, sess : SessionIds \cup {Blank},
           stream : Streams \cup {Blank}, n : {0}]
Answers == [kind : {"answer"}, uuid : Uuids, sess : Known, stream : {Blank}, n : {0}]
Candidates == [kind : {"candidate"}, uuid : Uuids, sess : Known, stream : {Blank}, n : NextCand]
Requests == [kind : {"request"}, uuid : Uuids, sess : {Blank}, stream : {Blank}, n : {0}]
Lost == Bare("lost")

Messages == {m \in Offers \cup Candidates \cup Requests \cup Answers \cup {Lost} :
               m.kind \in IxKinds}

\* A publisher sends a Play peer offers and candidates over its channel.
DcMessages ==
  {m \in [kind : DcKinds, uuid : Uuids \cup {Blank}, sess : SessionIds \cup {Blank},
          stream : Streams \cup {Blank}, n : {0} \cup NextCand] :
     (m.kind = "candidate") = (m.n # 0)}

Handlers == \E t \in Threads : Dispatch(t) \/ ApplyRemote(t) \/ FinishDescription(t)
Channels == \/ \E c \in Conns : DcOpen(c)
            \/ \E t \in DcThreads, c \in Conns, m \in DcMessages : DcMessage(t, c, m)
Callbacks == \/ \E c \in Conns, e \in Events : StateChange(c, e)
             \/ \E c \in Conns : Callback(c)
CleanupWorker == TakeRetired \/ DetachConnection \/ ReleasePeer \/ WorkerExit
Stop == StopMark \/ JoinSignaling \/ ResetAll \/ StopDone

Next == \/ \E m \in Messages : Receive(m)
        \/ Handlers \/ Channels \/ Callbacks
        \/ CleanupWorker \/ Stop \/ Start

Spec == Init /\ [][Next]_vars

\* Threads that hold no lock another waits for run on; a thread that waits to
\* reset callbacks gets the callback's lock once callbacks keep ending.
Fairness == /\ \A t \in Threads : WF_vars(Dispatch(t) \/ ApplyRemote(t) \/ FinishDescription(t))
            /\ \A c \in Conns : WF_vars(Callback(c))
            /\ WF_vars(TakeRetired) /\ SF_vars(DetachConnection) /\ SF_vars(ReleasePeer)
            /\ WF_vars(WorkerExit)
            /\ WF_vars(JoinSignaling) /\ WF_vars(ResetAll) /\ WF_vars(StopDone)
FairSpec == Spec /\ Fairness
-----------------------------------------------------------------------------
Held == {peers[k].conn : k \in DOMAIN peers} \cup {r.conn : r \in retired \cup {cleaning}}

\* sessionByUuid_ and peerSessions_ describe the same peers: a remote party has
\* at most one, and the map by uuid finds it (ensurePeerSession, closePeerSession).
TableConsistent ==
  /\ \A k \in DOMAIN peers : k[1] \in DOMAIN byUuid /\ byUuid[k[1]] = k
  /\ \A u \in DOMAIN byUuid : Live(byUuid[u]) /\ byUuid[u][1] = u

\* pendingPeerCleanup_, read without the queue's lock, counts exactly the
\* peers whose callbacks are not yet all detached.
CleanupCounted == pending = Cardinality(retired) + (IF cleaning = NoPeer THEN 0 ELSE 1)

\* A connection whose callbacks can still run belongs to exactly one live peer
\* or to the cleanup worker: none is forgotten, none is released twice.
ConnectionsOwned ==
  /\ \A c \in Conns : conn[c].attached => c \in Held
  /\ \A k \in DOMAIN peers : peers[k].conn \notin {r.conn : r \in retired \cup {cleaning}}
  /\ \A k, o \in DOMAIN peers : peers[k].conn = peers[o].conn => k = o
  /\ \A r \in retired, s \in retired \cup {cleaning} : r.conn = s.conn => r = s /\ r # cleaning

\* "bounding retained resources while active peers continue" (THREADING.md):
\* whatever still has callbacks is owned and counted, and live and retired peers
\* together never exceed twice the cap.
ResourcesBounded ==
  /\ ConnectionsOwned /\ CleanupCounted
  /\ Cardinality(DOMAIN peers) <= MaxPeers
  /\ Cardinality(DOMAIN peers) + pending <= 2 * MaxPeers

\* A candidate waits only for what it needs: in the global queue while its peer
\* does not exist, at the peer while the description is not set. One that arrives
\* in an unlocked window of a handler is flushed with the rest.
NoneStranded ==
  /\ \A i \in globalIce, k \in DOMAIN peers : i.uuid = k[1] => i.sess \notin {Blank, k[2]}
  /\ \A k \in DOMAIN peers : peers[k].described => peers[k].ice = {}

\* remoteDescriptionSet says what the connection itself knows, although the
\* description is applied and recorded in different sections.
RemoteDescriptionTrue ==
  \A k \in DOMAIN peers : peers[k].described => conn[peers[k].conn].remote

\* A candidate accepted for a peer stays queued or reaches the connection.
CandidatesKept ==
  [][\A k \in DOMAIN peers \cap DOMAIN peers' :
       peers[k].conn = peers'[k].conn =>
         peers[k].ice \cup conn[peers[k].conn].applied
           \subseteq peers'[k].ice \cup conn'[peers[k].conn].applied]_vars

\* "Reset waits for in-flight callbacks, which can now acquire mutex_, observe
\* the removed peer and return": a callback of a connection that is no live
\* peer's changes no peer.
StaleCallbackInert ==
  [][\A c \in Conns :
       /\ conn[c].cb # "none" /\ conn'[c].cb = "none"
       /\ \A k \in DOMAIN peers : peers[k].conn # c
       => UNCHANGED <<peers, byUuid>>]_vars

\* "Shutdown drains and joins cleanup before permitting another session": when
\* stop() returns no peer, no callback and no handler of the session is left.
StopLeavesNothing ==
  life = "stopped" =>
    /\ peers = <<>> /\ retired = {} /\ pending = 0
    /\ \A c \in Conns : ~conn[c].attached
    /\ \A t \in Threads : hnd[t].pc = "idle"

\* "never sum two generations of the same stream into the DAW": two peers whose
\* connection was taken into use do not carry the same stream.
OneGenerationPerStream ==
  \A k, o \in DOMAIN peers :
    peers[k].ready /\ peers[o].ready /\ peers[k].stream = peers[o].stream => k = o

\* What the cleanup worker has before it is released in the end, whatever callbacks
\* are in progress: the worker gets through its queue, and does not end before.
RetiredIsReleased ==
  (worker = "running" /\ (retired # {} \/ cleaning # NoPeer)) ~>
    (retired = {} /\ cleaning = NoPeer)

\* stop() returns: nobody it waits for waits for it.
StopTerminates == (life = "stopping") ~> (life = "stopped")
-----------------------------------------------------------------------------
LiveConns == {peers[k].conn : k \in DOMAIN peers}
QueuedConns == {r.conn : r \in retired}
HeldConns == {cleaning.conn} \ {0}
AttachedConns == {c \in Conns : conn[c].attached}

Lifecycle == INSTANCE ConnectionLifecycle
  WITH Cap <- MaxPeers, born <- 1..created, live <- LiveConns, queue <- QueuedConns,
       held <- HeldConns, attached <- AttachedConns

\* Every connection goes through closePeerSession, the queue and the worker in this
\* order, once, whatever handlers, callbacks and stop() do; the worker lets go of it
\* only after resetCallbacks(), and nothing attaches its callbacks again.
EachReleasedOnce == Lifecycle!Spec
=============================================================================
