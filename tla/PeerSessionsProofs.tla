------------------------- MODULE PeerSessionsProofs -------------------------
(***************************************************************************)
(* Proofs about PeerSessions, for every number of remote parties, every    *)
(* cap and every bound.                                                    *)
(***************************************************************************)
EXTENDS PeerSessions, FiniteSetTheorems, TLAPS

USE ModeAssumption, BoundAssumption, KindAssumption, IdAssumption

\* TypeOK but for the counter, which is natural only because it counts.
TypeInv == /\ TableOK /\ CleanupOK /\ pending \in Int /\ ConnOK /\ HandlersOK /\ CountersOK
           /\ IsFiniteSet(DOMAIN peers)

\* Retiring peers of the table keeps the types of the worker's state.
LEMMA RetireTypes ==
  ASSUME TypeInv, NEW ks \in SUBSET (DOMAIN peers), Retire(ks)
  PROVE  CleanupOK' /\ pending' \in Int
<1>1. ASSUME NEW k \in ks
      PROVE  Remains(peers[k]) \in Retiree
  <2>1. peers[k] \in Peer
    BY DEF TypeInv, TableOK
  <2> QED  BY <2>1 DEF Peer, Retiree, Remains
<1>2. retired' \subseteq Retiree
  BY <1>1 DEF Retire, TypeInv, CleanupOK
<1>3. Cardinality(ks) \in Nat
  BY FS_CardinalityType, FS_Subset DEF TypeInv
<1> QED  BY <1>2, <1>3 DEF Retire, TypeInv, CleanupOK

\* Removing peers from the two maps keeps their types.
LEMMA RemoveTypes ==
  ASSUME TypeInv, NEW ks \in SUBSET (DOMAIN peers), globalIce' \subseteq Cand,
         peers' = [k \in DOMAIN peers \ ks |-> peers[k]],
         byUuid' = [u \in DOMAIN byUuid \ {k[1] : k \in ks} |-> byUuid[u]]
  PROVE  TableOK' /\ IsFiniteSet(DOMAIN peers')
<1>1. DOMAIN peers' = DOMAIN peers \ ks /\ DOMAIN byUuid' \subseteq DOMAIN byUuid
  OBVIOUS
<1>2. IsFiniteSet(DOMAIN peers')
  BY <1>1, FS_Subset DEF TypeInv
<1>3. \A k \in DOMAIN peers' : peers'[k] \in Peer
  BY <1>1 DEF TypeInv, TableOK
<1>4. \A u \in DOMAIN byUuid' : byUuid'[u] \in Keys
  BY <1>1 DEF TypeInv, TableOK
<1>5. peers' \in [DOMAIN peers' -> Peer] /\ byUuid' \in [DOMAIN byUuid' -> Keys]
  BY <1>3, <1>4
<1> QED  BY <1>1, <1>2, <1>5 DEF TypeInv, TableOK

LEMMA CloseTypes ==
  ASSUME TypeInv, NEW ks \in SUBSET (DOMAIN peers), globalIce' \subseteq Cand, Close(ks)
  PROVE  TableOK' /\ IsFiniteSet(DOMAIN peers') /\ CleanupOK' /\ pending' \in Int
BY RetireTypes, RemoveTypes DEF Close

\* Creating a peer keeps the types.
LEMMA CreateTypes ==
  ASSUME TypeInv, NEW key, key[1] \in Uuids, key \in Uuids \X (SessionIds \cup {Blank} \cup Nat),
         created < MaxConns => key \in Keys,
         NEW stream \in Streams, NEW dc \in Conns \cup {0}, Create(key, stream, dc)
  PROVE  /\ TableOK' /\ IsFiniteSet(DOMAIN peers') /\ CleanupOK' /\ pending' \in Int
         /\ ConnOK' /\ created' \in 0..MaxConns /\ created + 1 \in Conns /\ key \in Keys
<1>1. created + 1 \in Conns /\ created' \in 0..MaxConns /\ key \in Keys
  BY DEF Create, TypeInv, CountersOK, Conns
<1>2. Replaced(key) \in SUBSET (DOMAIN peers)
  BY DEF Replaced
<1>3. CleanupOK' /\ pending' \in Int
  BY <1>2, RetireTypes DEF Create
<1>4. Matching(key) \in SUBSET Cand
  BY DEF Matching, TypeInv, TableOK
<1>5. NewPeer(key, stream, dc) \in Peer
  BY <1>1, <1>4 DEF NewPeer, Peer
<1>6. DOMAIN peers' = (DOMAIN peers \ Replaced(key)) \cup {key}
  BY DEF Create
<1>7. IsFiniteSet(DOMAIN peers')
  <2>1. IsFiniteSet(DOMAIN peers \ Replaced(key))
    BY FS_Subset DEF TypeInv
  <2> QED  BY <1>6, <2>1, FS_AddElement
<1>8. \A k \in DOMAIN peers' : peers'[k] \in Peer
  BY <1>5, <1>6 DEF Create, TypeInv, TableOK
<1>9. DOMAIN byUuid' \subseteq Uuids /\ \A u \in DOMAIN byUuid' : byUuid'[u] \in Keys
  BY <1>1 DEF Create, TypeInv, TableOK
<1>10. TableOK'
  <2>1. peers' \in [DOMAIN peers' -> Peer]
    BY <1>8 DEF Create
  <2>2. byUuid' \in [DOMAIN byUuid' -> Keys]
    BY <1>9 DEF Create
  <2>3. globalIce' \subseteq Cand
    BY DEF Create, TypeInv, TableOK
  <2> QED  BY <1>1, <1>6, <1>9, <2>1, <2>2, <2>3 DEF TypeInv, TableOK
<1>11. ConnOK'
  <2>1. NewConn(key) \in Connection
    BY <1>1 DEF NewConn, ConnStates, Connection
  <2> QED  BY <2>1 DEF Create, TypeInv, ConnOK
<1> QED  BY <1>1, <1>3, <1>7, <1>10, <1>11

LEMMA RefuseTypes ==
  ASSUME TypeInv, NEW key, Refuse(key)
  PROVE  /\ TableOK' /\ IsFiniteSet(DOMAIN peers') /\ CleanupOK' /\ pending' \in Int
         /\ ConnOK' /\ created' = created
<1>1. ConnOK' /\ created' = created /\ globalIce' \subseteq Cand
  BY DEF Refuse, TypeInv, ConnOK, TableOK
<1>2. CASE CleanupBusy
  BY <1>1, <1>2 DEF Refuse, TypeInv, TableOK, CleanupOK, cleanup
<1>3. CASE ~CleanupBusy
  <2>1. Close(Replaced(key)) /\ Replaced(key) \in SUBSET (DOMAIN peers)
    BY <1>3 DEF Refuse, Replaced
  <2> QED  BY <1>1, <2>1, CloseTypes
<1> QED  BY <1>2, <1>3

LEMMA InitTypes == Init => TypeInv
<1> SUFFICES ASSUME Init PROVE TypeInv
  OBVIOUS
<1>1. peers = <<>> /\ DOMAIN peers = {} /\ byUuid = <<>> /\ DOMAIN byUuid = {}
  BY DEF Init
<1>2. TableOK
  BY <1>1 DEF Init, TableOK
<1>3. CleanupOK /\ pending \in Int
  BY DEF Init, CleanupOK
<1>4. ConnOK
  BY DEF Init, ConnOK, NoConn, ConnStates, Connection
<1>5. HandlersOK
  <2>1. Idle \in [pc : {"idle", "dispatch", "apply", "finish"}, msg : Msg,
                  key : Keys \cup {NoKey}, conn : Conns \cup {0}, src : Conns \cup {0}]
    BY DEF Idle, NoMsg, Bare, Msg, Kinds
  <2>2. Idle.pc = "idle"
    BY DEF Idle
  <2> QED  BY <2>1, <2>2 DEF Init, HandlersOK
<1>6. CountersOK
  BY DEF Init, CountersOK
<1> QED  BY <1>1, <1>2, <1>3, <1>4, <1>5, <1>6, FS_EmptySet DEF TypeInv

Handler == [pc : {"idle", "dispatch", "apply", "finish"}, msg : Msg,
            key : Keys \cup {NoKey}, conn : Conns \cup {0}, src : Conns \cup {0}]

\* The forms in which a handler's record changes.
LEMMA HandlerTypes ==
  ASSUME HandlersOK, NEW t \in Threads
  PROVE  /\ Return(t) => HandlersOK'
         /\ \A kind \in Kinds, key \in Keys, c \in Conns : Applying(t, kind, key, c) => HandlersOK'
         /\ \A m \in Msg, c \in Conns \cup {0} :
              /\ hnd' = [hnd EXCEPT ![t] = Dispatching(m, c)]
              /\ m.kind # "lost" => m.uuid \in Uuids
              /\ m.kind = "candidate" => m.n \in 1..MaxCands
              => HandlersOK'
<1>0. hnd \in [Threads -> Handler]
  BY DEF HandlersOK, Handler
<1>1. ASSUME NEW r \in Handler, hnd' = [hnd EXCEPT ![t] = r],
             r.pc = "dispatch" => /\ r.msg.kind # "lost" => r.msg.uuid \in Uuids
                                  /\ r.msg.kind = "candidate" => r.msg.n \in 1..MaxCands
      PROVE  HandlersOK'
  <2>1. hnd' \in [Threads -> Handler]
    BY <1>0, <1>1
  <2>2. \A u \in Threads : hnd'[u] = IF u = t THEN r ELSE hnd[u]
    BY <1>0, <1>1
  <2> QED  BY <1>1, <2>1, <2>2 DEF HandlersOK, Handler
<1>2. Idle \in Handler /\ Idle.pc = "idle"
  BY DEF Idle, NoMsg, Bare, Msg, Kinds, Handler
<1>3. Return(t) => HandlersOK'
  BY <1>1, <1>2 DEF Return
<1>4. ASSUME NEW kind \in Kinds, NEW key \in Keys, NEW c \in Conns, Applying(t, kind, key, c)
      PROVE  HandlersOK'
  <2> DEFINE r == [pc |-> "apply", msg |-> Bare(kind), key |-> key, conn |-> c, src |-> hnd[t].src]
  <2>1. hnd[t].src \in Conns \cup {0}
    BY <1>0 DEF Handler
  <2>2. Bare(kind) \in Msg
    BY DEF Bare, Msg
  <2>3. r \in Handler /\ r.pc = "apply"
    BY <2>1, <2>2 DEF Handler
  <2>4. hnd' = [hnd EXCEPT ![t] = r]
    BY <1>4 DEF Applying
  <2> QED  BY <1>1, <2>3, <2>4
<1>5. ASSUME NEW m \in Msg, NEW c \in Conns \cup {0}, hnd' = [hnd EXCEPT ![t] = Dispatching(m, c)],
             m.kind # "lost" => m.uuid \in Uuids,
             m.kind = "candidate" => m.n \in 1..MaxCands
      PROVE  HandlersOK'
  <2>1. Dispatching(m, c) \in Handler /\ Dispatching(m, c).msg = m
    BY DEF Dispatching, Handler
  <2> QED  BY <1>1, <1>5, <2>1
<1> QED  BY <1>3, <1>4, <1>5

\* The forms in which a connection changes.
LEMMA ConnectionTypes ==
  ASSUME NEW r \in Connection
  PROVE  /\ \A b \in BOOLEAN : [r EXCEPT !.remote = b] \in Connection
         /\ \A b \in BOOLEAN : [r EXCEPT !.listens = b] \in Connection
         /\ \A a \in SUBSET Cand : [r EXCEPT !.applied = a] \in Connection
         /\ \A e \in Events \cup {"none"} : [r EXCEPT !.cb = e] \in Connection
         /\ \A s \in ConnStates, e \in Events \cup {"none"} :
              [r EXCEPT !.st = s, !.cb = e] \in Connection
         /\ [r EXCEPT !.attached = FALSE, !.st = "closed"] \in Connection
         /\ r.applied \subseteq Cand
<1> USE DEF Connection, ConnStates
<1>1. \A b \in BOOLEAN : [r EXCEPT !.remote = b] \in Connection
  OBVIOUS
<1>2. \A b \in BOOLEAN : [r EXCEPT !.listens = b] \in Connection
  OBVIOUS
<1>3. \A a \in SUBSET Cand : [r EXCEPT !.applied = a] \in Connection
  OBVIOUS
<1>4. \A e \in Events \cup {"none"} : [r EXCEPT !.cb = e] \in Connection
  OBVIOUS
<1>5. \A s \in ConnStates, e \in Events \cup {"none"} :
        [r EXCEPT !.st = s, !.cb = e] \in Connection
  OBVIOUS
<1>6. [r EXCEPT !.attached = FALSE, !.st = "closed"] \in Connection
  OBVIOUS
<1>7. r.applied \subseteq Cand
  OBVIOUS
<1> QED  BY <1>1, <1>2, <1>3, <1>4, <1>5, <1>6, <1>7

\* The forms in which a peer changes.
LEMMA PeerTypes ==
  ASSUME NEW p \in Peer
  PROVE  /\ [p EXCEPT !.ready = TRUE] \in Peer /\ [p EXCEPT !.ready = FALSE] \in Peer
         /\ \A c \in Conns : [p EXCEPT !.dc = c] \in Peer
         /\ \A i \in SUBSET Cand, b \in BOOLEAN :
              [p EXCEPT !.described = TRUE, !.ice = i, !.ready = b] \in Peer
<1> USE DEF Peer
<1>1. [p EXCEPT !.ready = TRUE] \in Peer /\ [p EXCEPT !.ready = FALSE] \in Peer
  OBVIOUS
<1>2. \A c \in Conns : [p EXCEPT !.dc = c] \in Peer
  OBVIOUS
<1>3. \A i \in SUBSET Cand, b \in BOOLEAN :
        [p EXCEPT !.described = TRUE, !.ice = i, !.ready = b] \in Peer
  OBVIOUS
<1> QED  BY <1>1, <1>2, <1>3

LEMMA ConnPointwise ==
  ASSUME conn' = [c \in Conns |-> conn'[c]], \A c \in Conns : conn'[c] \in Connection
  PROVE  ConnOK'
BY DEF ConnOK

LEMMA KeyOfTypes ==
  ASSUME TypeInv, NEW m \in Msg, m.uuid \in Uuids
  PROVE  /\ KeyOf(m)[1] \in Uuids /\ KeyOf(m) \in Uuids \X (SessionIds \cup {Blank} \cup Nat)
         /\ created < MaxConns => KeyOf(m) \in Keys
<1>1. m.sess \in SessionIds \cup Conns \cup {Blank}
  BY DEF Msg, Sessions
<1>2. Named(m.sess, created + 1) \in SessionIds \cup Nat
  BY <1>1 DEF Named, TypeInv, CountersOK, Conns
<1>3. created < MaxConns => Named(m.sess, created + 1) \in Sessions
  BY <1>1 DEF Named, TypeInv, CountersOK, Conns, Sessions
<1> QED  BY <1>2, <1>3 DEF KeyOf, Keys

\* A change of one peer's fields keeps the type of the table.
LEMMA UpdateTypes ==
  ASSUME TypeInv, DOMAIN peers' = DOMAIN peers, \A k \in DOMAIN peers : peers'[k] \in Peer,
         peers' = [k \in DOMAIN peers |-> peers'[k]],
         byUuid' = byUuid, globalIce' \subseteq Cand
  PROVE  TableOK' /\ IsFiniteSet(DOMAIN peers')
<1>1. peers' \in [DOMAIN peers' -> Peer]
  OBVIOUS
<1>2. byUuid' \in [DOMAIN byUuid' -> Keys] /\ DOMAIN byUuid' \subseteq Uuids
  BY DEF TypeInv, TableOK
<1>3. DOMAIN peers' \subseteq Keys
  BY DEF TypeInv, TableOK
<1> QED  BY <1>1, <1>2, <1>3 DEF TypeInv, TableOK

LEMMA DispatchTypes ==
  ASSUME TypeInv, NEW t \in Threads, Dispatch(t)
  PROVE  TypeInv'
<1> DEFINE m == hnd[t].msg
<1>0. /\ m \in Msg /\ life' = life /\ starts' = starts
      /\ m.kind # "lost" => m.uuid \in Uuids
      /\ m.kind = "candidate" => m.n \in 1..MaxCands
  BY DEF Dispatch, TypeInv, HandlersOK
<1>1. CASE m.kind = "request" /\ HandleOfferRequest(t, m)
  <2>1. Return(t) /\ received' = received /\ m.uuid \in Uuids
    BY <1>0, <1>1 DEF HandleOfferRequest
  <2>2. CASE Create(KeyOf(m), OwnStream, 0)
    <3>1. 0 \in Conns \cup {0}
      OBVIOUS
    <3> QED  BY <1>0, <2>1, <2>2, <3>1, KeyOfTypes, CreateTypes, HandlerTypes DEF TypeInv, CountersOK
  <2>3. CASE Refuse(KeyOf(m))
    BY <1>0, <2>1, <2>3, RefuseTypes, HandlerTypes DEF TypeInv, CountersOK
  <2> QED  BY <1>1, <2>2, <2>3 DEF HandleOfferRequest
<1>2. CASE m.kind = "offer" /\ HandleOffer(t, m)
  <2> DEFINE key == KeyOf(m)
  <2>1. received' = received /\ m.uuid \in Uuids /\ m.stream \in Streams \cup {Blank} /\ "offer" \in Kinds
    BY <1>0, <1>2 DEF HandleOffer, Msg, Kinds
  <2>2. CASE /\ Live(key)
             /\ peers' = [peers EXCEPT ![key].stream = Named(m.stream, @), ![key].ready = FALSE]
             /\ Applying(t, "offer", key, peers[key].conn)
             /\ UNCHANGED <<byUuid, globalIce, cleanup, conn, created>>
    <3>1. key \in Keys /\ peers[key] \in Peer
      BY <2>2 DEF Live, TypeInv, TableOK
    <3>2. peers[key].conn \in Conns /\ Named(m.stream, peers[key].stream) \in Streams
      BY <2>1, <3>1 DEF Peer, Named
    <3>3. \A k \in DOMAIN peers : peers'[k] \in Peer
      BY <2>2, <3>1, <3>2 DEF TypeInv, TableOK, Live, Peer
    <3>4. TableOK' /\ IsFiniteSet(DOMAIN peers')
      BY <2>2, <3>3, UpdateTypes DEF TypeInv, TableOK
    <3>5. HandlersOK'
      BY <2>1, <2>2, <3>1, <3>2, HandlerTypes DEF TypeInv
    <3> QED  BY <1>0, <2>1, <2>2, <3>4, <3>5 DEF TypeInv, CleanupOK, ConnOK, CountersOK, cleanup
  <2>3. CASE Create(key, Named(m.stream, OwnStream), 0) /\ Applying(t, "offer", key, created + 1)
    <3>1. 0 \in Conns \cup {0} /\ Named(m.stream, OwnStream) \in Streams
      BY <2>1 DEF Named
    <3> QED  BY <1>0, <2>1, <2>3, <3>1, KeyOfTypes, CreateTypes, HandlerTypes DEF TypeInv, CountersOK
  <2>4. CASE Refuse(key) /\ Return(t)
    BY <1>0, <2>1, <2>4, RefuseTypes, HandlerTypes DEF TypeInv, CountersOK
  <2> QED  BY <1>2, <2>2, <2>3, <2>4 DEF HandleOffer
<1>3. CASE m.kind = "answer" /\ HandleAnswer(t, m)
  <2>1. /\ UNCHANGED <<byUuid, globalIce, cleanup, conn, created, received>>
        /\ m.stream \in Streams \cup {Blank} /\ "answer" \in Kinds
    BY <1>0, <1>3 DEF HandleAnswer, Msg, Kinds
  <2>2. ASSUME NEW k \in Located(m), peers' = [peers EXCEPT ![k].stream = Named(m.stream, @)],
               Applying(t, "answer", k, peers[k].conn)
        PROVE  TypeInv'
    <3>1. k \in Keys /\ k \in DOMAIN peers /\ peers[k] \in Peer
      BY <2>2 DEF Located, Live, TypeInv, TableOK
    <3>2. peers[k].conn \in Conns /\ Named(m.stream, peers[k].stream) \in Streams
      BY <2>1, <3>1 DEF Peer, Named
    <3>3. \A o \in DOMAIN peers : peers'[o] \in Peer
      BY <2>2, <3>1, <3>2 DEF TypeInv, TableOK, Peer
    <3>4. TableOK' /\ IsFiniteSet(DOMAIN peers')
      BY <2>1, <2>2, <3>3, UpdateTypes DEF TypeInv, TableOK
    <3>5. HandlersOK'
      BY <2>1, <2>2, <3>1, <3>2, HandlerTypes DEF TypeInv
    <3> QED  BY <1>0, <2>1, <3>4, <3>5 DEF TypeInv, CleanupOK, ConnOK, CountersOK, cleanup
  <2>3. CASE Return(t) /\ UNCHANGED peers
    BY <1>0, <2>1, <2>3, HandlerTypes DEF TypeInv, TableOK, CleanupOK, ConnOK, CountersOK, cleanup
  <2> QED  BY <1>3, <2>2, <2>3 DEF HandleAnswer
<1>4. CASE m.kind = "candidate" /\ HandleCandidate(t, m)
  <2> DEFINE i == [n |-> m.n, uuid |-> m.uuid, sess |-> m.sess]
  <2>1. i \in Cand /\ Return(t) /\ UNCHANGED <<byUuid, cleanup, created, received>>
    BY <1>0, <1>4 DEF HandleCandidate, Cand, Msg
  <2>2. CASE Located(m) = {} /\ QueueGlobally(i) /\ UNCHANGED <<peers, conn>>
    <3>1. globalIce' \subseteq Cand
      BY <2>1, <2>2 DEF QueueGlobally, TypeInv, TableOK
    <3> QED  BY <1>0, <2>1, <2>2, <3>1, HandlerTypes
             DEF TypeInv, TableOK, CleanupOK, ConnOK, CountersOK, cleanup
  <2>3. ASSUME NEW k \in Located(m), QueueOrApply(k, i), globalIce' = globalIce
        PROVE  TypeInv'
    <3>1. k \in DOMAIN peers /\ peers[k] \in Peer /\ peers[k].conn \in Conns
      BY <2>3 DEF Located, Live, TypeInv, TableOK, Peer
    <3>2. \A o \in DOMAIN peers : peers'[o] \in Peer
      BY <2>1, <2>3, <3>1 DEF QueueOrApply, TypeInv, TableOK, Peer
    <3>3. TableOK' /\ IsFiniteSet(DOMAIN peers')
      BY <2>1, <2>3, <3>2, UpdateTypes DEF QueueOrApply, TypeInv, TableOK
    <3>4. ConnOK'
      <4>1. conn \in [Conns -> Connection]
        BY DEF TypeInv, ConnOK
      <4>2. \A c \in Conns : \/ conn'[c] = conn[c]
                             \/ conn'[c] = [conn[c] EXCEPT !.applied = conn[c].applied \cup {i}]
                             \/ conn'[c] = [conn[c] EXCEPT !.applied = conn[c].applied]
        BY <2>3, <4>1 DEF QueueOrApply
      <4>3. conn' = [c \in Conns |-> conn'[c]]
        BY <2>3, <4>1 DEF QueueOrApply
      <4>4. ASSUME NEW c \in Conns
            PROVE  /\ [conn[c] EXCEPT !.applied = conn[c].applied \cup {i}] \in Connection
                   /\ [conn[c] EXCEPT !.applied = conn[c].applied] \in Connection
        <5>1. conn[c] \in Connection /\ conn[c].applied \subseteq Cand
          BY <4>1, ConnectionTypes
        <5>2. conn[c].applied \cup {i} \in SUBSET Cand
          BY <2>1, <5>1
        <5> QED  BY <5>1, <5>2, ConnectionTypes
      <4> QED  BY <4>1, <4>2, <4>3, <4>4, ConnPointwise
    <3> QED  BY <1>0, <2>1, <3>3, <3>4, HandlerTypes DEF TypeInv, CleanupOK, CountersOK, cleanup
  <2> QED  BY <1>4, <2>2, <2>3 DEF HandleCandidate
<1>5. CASE m.kind = "lost" /\ HandleSignalingLost(t)
  <2>1. globalIce' \subseteq Cand
    BY <1>5 DEF HandleSignalingLost, TypeInv, TableOK
  <2> QED  BY <1>0, <1>5, <2>1, HandlerTypes
           DEF HandleSignalingLost, TypeInv, TableOK, CleanupOK, ConnOK, CountersOK, cleanup
<1> QED  BY <1>1, <1>2, <1>3, <1>4, <1>5 DEF Dispatch

LEMMA MessageTypes ==
  ASSUME TypeInv, NEW m \in Messages
  PROVE  /\ m \in Msg /\ (m.kind # "lost" => m.uuid \in Uuids)
         /\ m.kind = "candidate" => m.n \in 1..MaxCands
<1>1. 1..created \subseteq Conns /\ NextCand \subseteq 1..MaxCands
  BY DEF TypeInv, CountersOK, Conns, NextCand
<1>2. Known \subseteq Sessions \cup {Blank}
  BY <1>1 DEF Known, Sessions
<1>3. ASSUME m \in Offers \cup Candidates \cup Requests \cup Answers
      PROVE  /\ m \in Msg /\ m.uuid \in Uuids
             /\ m.kind = "candidate" => m.n \in 1..MaxCands
  <2>1. CASE m \in Offers
    BY <2>1 DEF Offers, Msg, Kinds, Sessions
  <2>2. CASE m \in Candidates
    <3>1. /\ m.kind = "candidate" /\ m.uuid \in Uuids /\ m.sess \in Sessions \cup {Blank}
          /\ m.stream = Blank /\ m.n \in 1..MaxCands
      BY <1>1, <1>2, <2>2 DEF Candidates
    <3>2. m = [kind |-> m.kind, uuid |-> m.uuid, sess |-> m.sess, stream |-> m.stream, n |-> m.n]
      BY <2>2 DEF Candidates
    <3>3. m.n \in 0..MaxCands
      BY <3>1
    <3> QED  BY <3>1, <3>2, <3>3 DEF Msg, Kinds
  <2>3. CASE m \in Requests
    BY <2>3 DEF Requests, Msg, Kinds
  <2>4. CASE m \in Answers
    BY <1>2, <2>4 DEF Answers, Msg, Kinds
  <2> QED  BY <1>3, <2>1, <2>2, <2>3, <2>4
<1>4. ASSUME m = Lost
      PROVE  m \in Msg /\ m.kind = "lost"
  BY <1>4 DEF Lost, Bare, Msg, Kinds
<1> QED  BY <1>3, <1>4 DEF Messages

LEMMA ReceiveTypes ==
  ASSUME TypeInv, NEW m \in Messages, Receive(m)
  PROVE  TypeInv'
<1>1. "ix" \in Threads /\ 0 \in Conns \cup {0}
  BY DEF Threads
<1>2. HandlersOK'
  BY <1>1, MessageTypes, HandlerTypes DEF Receive, TypeInv
<1>3. received' \in 0..MaxCands
  BY MessageTypes DEF Receive, Arrives, TypeInv, CountersOK
<1> QED  BY <1>2, <1>3 DEF Receive, TypeInv, TableOK, CleanupOK, ConnOK, CountersOK, table, cleanup

LEMMA HandlerStepTypes ==
  ASSUME TypeInv, NEW t \in Threads, ApplyRemote(t) \/ FinishDescription(t)
  PROVE  TypeInv'
<1>1. CASE ApplyRemote(t)
  <2>1. ConnOK'
    <3>1. conn \in [Conns -> Connection]
      BY DEF TypeInv, ConnOK
    <3>2. \A c \in Conns : conn'[c] \in {conn[c], [conn[c] EXCEPT !.remote = TRUE]}
      BY <1>1, <3>1 DEF ApplyRemote
    <3>3. conn' = [c \in Conns |-> conn'[c]]
      BY <1>1, <3>1 DEF ApplyRemote
    <3>4. \A c \in Conns : [conn[c] EXCEPT !.remote = TRUE] \in Connection
      BY <3>1, ConnectionTypes
    <3> QED  BY <3>1, <3>2, <3>3, <3>4, ConnPointwise
  <2>2. HandlersOK'
    <3>1. CASE Return(t)
      BY <3>1, HandlerTypes DEF TypeInv
    <3>2. CASE hnd' = [hnd EXCEPT ![t].pc = "finish"]
      BY <3>2 DEF TypeInv, HandlersOK
    <3> QED  BY <1>1, <3>1, <3>2 DEF ApplyRemote
  <2> QED  BY <1>1, <2>1, <2>2 DEF ApplyRemote, TypeInv, TableOK, CleanupOK, CountersOK, table, cleanup
<1>2. CASE FinishDescription(t)
  <2> DEFINE key == hnd[t].key
  <2>1. HandlersOK' /\ UNCHANGED <<byUuid, globalIce, cleanup, created, received, life, starts>>
    BY <1>2, HandlerTypes DEF FinishDescription, TypeInv
  <2>2. CASE ~Live(key)
    BY <1>2, <2>1, <2>2 DEF FinishDescription, TypeInv, TableOK, CleanupOK, ConnOK, CountersOK, cleanup
  <2>3. CASE Live(key)
    <3>1. peers[key] \in Peer /\ peers[key].ice \subseteq Cand
      BY <2>3 DEF Live, TypeInv, TableOK, Peer
    <3>2. Delivered(peers[key]) \subseteq Cand
      BY <3>1 DEF Delivered
    <3> DEFINE p == peers[key]
               rest == p.ice \ Delivered(p)
    <3>6. p.ready \in BOOLEAN
      BY <3>1 DEF Peer
    <3>7. PICK b \in BOOLEAN :
            /\ peers' = [peers EXCEPT ![key].described = TRUE, ![key].ice = rest, ![key].ready = b]
            /\ conn' = [conn EXCEPT ![p.conn].applied = @ \cup Delivered(p)]
      BY <1>2, <2>3, <3>6 DEF FinishDescription
    <3>8. peers'[key] = [p EXCEPT !.described = TRUE, !.ice = rest, !.ready = b]
      BY <2>3, <3>7 DEF Live
    <3>10. rest \in SUBSET Cand
      BY <3>1
    <3>9. peers'[key] \in Peer
      <4>1. [p EXCEPT !.described = TRUE, !.ice = rest, !.ready = b] \in Peer
        BY <3>1, <3>7, <3>10, PeerTypes
      <4> QED  BY <3>8, <4>1
    <3>3. \A k \in DOMAIN peers : peers'[k] \in Peer
      BY <3>7, <3>9 DEF TypeInv, TableOK
    <3>4. TableOK' /\ IsFiniteSet(DOMAIN peers')
      BY <1>2, <2>1, <2>3, <3>3, UpdateTypes DEF FinishDescription, TypeInv, TableOK
    <3>5. ConnOK'
      <4>1. conn \in [Conns -> Connection]
        BY DEF TypeInv, ConnOK
      <4>2. \A c \in Conns : conn'[c] \in {conn[c], [conn[c] EXCEPT !.applied = conn[c].applied \cup Delivered(p)]}
        BY <3>7, <4>1
      <4>3. conn' = [c \in Conns |-> conn'[c]]
        BY <3>7, <4>1
      <4>4. ASSUME NEW c \in Conns
            PROVE  [conn[c] EXCEPT !.applied = conn[c].applied \cup Delivered(p)] \in Connection
        <5>1. conn[c] \in Connection /\ conn[c].applied \subseteq Cand
          BY <4>1, ConnectionTypes
        <5>2. conn[c].applied \cup Delivered(p) \in SUBSET Cand
          BY <3>2, <5>1
        <5> QED  BY <5>1, <5>2, ConnectionTypes
      <4> QED  BY <4>1, <4>2, <4>3, <4>4, ConnPointwise
    <3> QED  BY <2>1, <3>4, <3>5 DEF TypeInv, CleanupOK, CountersOK, cleanup
  <2> QED  BY <2>2, <2>3
<1> QED  BY <1>1, <1>2

LEMMA DcMessageTypes ==
  ASSUME TypeInv, NEW t \in DcThreads, NEW c \in Conns, NEW m \in DcMessages, DcMessage(t, c, m)
  PROVE  TypeInv'
<1> DEFINE source == conn[c].key
           full == [kind |-> m.kind, uuid |-> Named(m.uuid, source[1]),
                    sess |-> Named(m.sess, source[2]),
                    stream |-> Named(m.stream, peers[source].stream), n |-> m.n]
           target == KeyOf(full)
<1>1. source \in Keys /\ peers[source] \in Peer /\ source[1] \in Uuids /\ source[2] \in Sessions
  BY DEF DcMessage, Live, TypeInv, TableOK, Keys
<1>2. m.kind \in DcKinds /\ m.uuid \in Uuids \cup {Blank} /\ m.sess \in SessionIds \cup {Blank}
      /\ m.stream \in Streams \cup {Blank} /\ m.n \in {0} \cup NextCand
      /\ (m.kind = "candidate") = (m.n # 0)
  BY DEF DcMessages
<1>3. NextCand \subseteq 1..MaxCands
  BY DEF NextCand
<1>4. full \in Msg /\ full.uuid \in Uuids /\ (full.kind = "candidate" => full.n \in 1..MaxCands)
  <2>1. full.uuid \in Uuids
    BY <1>1, <1>2 DEF Named
  <2>2. full.sess \in Sessions
    BY <1>1, <1>2 DEF Named, Sessions
  <2>3. full.stream \in Streams
    BY <1>1, <1>2 DEF Named, Peer
  <2>7. m.n = 0 \/ m.n \in 1..MaxCands
    BY <1>2, <1>3
  <2>6. m.n \in 0..MaxCands /\ (m.n # 0 => m.n \in 1..MaxCands)
    BY <2>7
  <2>4. full.kind \in {"offer", "candidate"} /\ full.n \in 0..MaxCands
        /\ (full.kind = "candidate" => full.n \in 1..MaxCands)
    BY <1>2, <2>6
  <2>5. full.kind \in Kinds
    BY <2>4 DEF Kinds
  <2> QED  BY <2>1, <2>2, <2>3, <2>4, <2>5 DEF Msg
<1>5. HandlersOK'
  <2>1. t \in Threads /\ c \in Conns \cup {0}
    BY DEF Threads
  <2>2. hnd' = [hnd EXCEPT ![t] = Dispatching(full, c)]
    BY DEF DcMessage
  <2> QED  BY <1>4, <2>1, <2>2, HandlerTypes DEF TypeInv
<1>6. received' \in 0..MaxCands /\ life' = life /\ starts' = starts
  BY <1>2, <1>3 DEF DcMessage, Arrives, TypeInv, CountersOK
<1>7. CASE /\ Live(target)
           /\ peers' = [peers EXCEPT ![target].dc = c]
           /\ UNCHANGED <<byUuid, globalIce, cleanup, conn, created>>
  <2>1. \A k \in DOMAIN peers : peers'[k] \in Peer
    BY <1>7 DEF Live, TypeInv, TableOK, Peer
  <2>2. TableOK' /\ IsFiniteSet(DOMAIN peers')
    BY <1>7, <2>1, UpdateTypes DEF TypeInv, TableOK
  <2> QED  BY <1>5, <1>6, <1>7, <2>2 DEF TypeInv, CleanupOK, ConnOK, CountersOK, cleanup
<1>8. CASE Create(target, OwnStream, c)
  BY <1>4, <1>5, <1>6, <1>8, KeyOfTypes, CreateTypes DEF TypeInv, CountersOK
<1>9. CASE Refuse(target)
  BY <1>5, <1>6, <1>9, RefuseTypes DEF TypeInv, CountersOK
<1> QED  BY <1>7, <1>8, <1>9 DEF DcMessage

LEMMA DcOpenTypes ==
  ASSUME TypeInv, NEW c \in Conns, DcOpen(c)
  PROVE  TypeInv'
<1>1. \A k \in DOMAIN peers : peers'[k] \in Peer
  BY DEF DcOpen, TypeInv, TableOK, Peer
<1>2. TableOK' /\ IsFiniteSet(DOMAIN peers')
  BY <1>1, UpdateTypes DEF DcOpen, TypeInv, TableOK
<1>3. ConnOK'
  <2>1. conn \in [Conns -> Connection]
    BY DEF TypeInv, ConnOK
  <2>2. \A d \in Conns : conn'[d] \in {conn[d], [conn[d] EXCEPT !.listens = TRUE]}
    BY <2>1 DEF DcOpen
  <2>3. conn' = [d \in Conns |-> conn'[d]]
    BY <2>1 DEF DcOpen
  <2>4. \A d \in Conns : [conn[d] EXCEPT !.listens = TRUE] \in Connection
    BY <2>1, ConnectionTypes
  <2> QED  BY <2>1, <2>2, <2>3, <2>4, ConnPointwise
<1> QED  BY <1>2, <1>3 DEF DcOpen, TypeInv, CleanupOK, HandlersOK, CountersOK, cleanup

LEMMA StateChangeTypes ==
  ASSUME TypeInv, NEW c \in Conns, NEW e \in Events, StateChange(c, e)
  PROVE  TypeInv'
<1>1. e \in ConnStates
  BY DEF Events, ConnStates
<1>2. ConnOK'
  <2>1. conn \in [Conns -> Connection]
    BY DEF TypeInv, ConnOK
  <2>2. PICK b \in Events \cup {"none"} : conn' = [conn EXCEPT ![c].st = e, ![c].cb = b]
    BY DEF StateChange
  <2>3. \A d \in Conns : conn'[d] \in {conn[d], [conn[d] EXCEPT !.st = e, !.cb = b]}
    BY <2>1, <2>2
  <2>4. conn' = [d \in Conns |-> conn'[d]]
    BY <2>1, <2>2
  <2>5. \A d \in Conns : [conn[d] EXCEPT !.st = e, !.cb = b] \in Connection
    BY <1>1, <2>1, ConnectionTypes
  <2> QED  BY <2>1, <2>3, <2>4, <2>5, ConnPointwise
<1> QED  BY <1>2 DEF StateChange, TypeInv, TableOK, CleanupOK, HandlersOK, CountersOK, table, cleanup

LEMMA CallbackTypes ==
  ASSUME TypeInv, NEW c \in Conns, Callback(c)
  PROVE  TypeInv'
<1> DEFINE k == conn[c].key
<1>1. ConnOK' /\ UNCHANGED <<globalIce, created, received, hnd, life, starts>>
  <2>1. conn \in [Conns -> Connection]
    BY DEF TypeInv, ConnOK
  <2>2. \A d \in Conns : conn'[d] \in {conn[d], [conn[d] EXCEPT !.cb = "none"]}
    BY <2>1 DEF Callback
  <2>3. conn' = [d \in Conns |-> conn'[d]]
    BY <2>1 DEF Callback
  <2>4. \A d \in Conns : [conn[d] EXCEPT !.cb = "none"] \in Connection
    BY <2>1, ConnectionTypes
  <2> QED  BY <2>1, <2>2, <2>3, <2>4, ConnPointwise DEF Callback
<1>2. globalIce' \subseteq Cand
  BY <1>1 DEF TypeInv, TableOK
<1>3. CASE ~Live(k) /\ UNCHANGED <<peers, byUuid, cleanup>>
  BY <1>1, <1>3 DEF TypeInv, TableOK, CleanupOK, HandlersOK, CountersOK, cleanup
<1>4. CASE Live(k) /\ Connected(k)
  <2> DEFINE gone == Superseded(k)
             rest == [peers EXCEPT ![k].ready = TRUE]
  <2>1. gone \in SUBSET (DOMAIN peers) /\ k \notin gone
    BY DEF Superseded
  <2>2. CleanupOK' /\ pending' \in Int
    BY <1>4, <2>1, RetireTypes DEF Connected
  <2>3. DOMAIN peers' = DOMAIN peers \ gone /\ DOMAIN byUuid' \subseteq DOMAIN byUuid
    BY <1>4 DEF Connected
  <2>4. \A o \in DOMAIN peers' : peers'[o] \in Peer
    BY <1>4, <2>3, PeerTypes DEF Connected, TypeInv, TableOK
  <2>5. peers' \in [DOMAIN peers' -> Peer]
    BY <1>4, <2>4 DEF Connected
  <2>6. byUuid' \in [DOMAIN byUuid' -> Keys]
    BY <1>4, <2>3 DEF Connected, TypeInv, TableOK
  <2>7. IsFiniteSet(DOMAIN peers')
    BY <2>3, FS_Subset DEF TypeInv
  <2> QED  BY <1>1, <1>2, <2>2, <2>3, <2>5, <2>6, <2>7 DEF TypeInv, TableOK, HandlersOK, CountersOK
<1>5. CASE Live(k) /\ Disconnected(k)
  <2>1. \A o \in DOMAIN peers : peers'[o] \in Peer
    BY <1>5, PeerTypes DEF Disconnected, Live, TypeInv, TableOK
  <2>2. TableOK' /\ IsFiniteSet(DOMAIN peers')
    BY <1>2, <1>5, <2>1, UpdateTypes DEF Disconnected
  <2> QED  BY <1>1, <1>5, <2>2 DEF Disconnected, TypeInv, CleanupOK, HandlersOK, CountersOK, cleanup
<1>6. CASE Live(k) /\ Close({k})
  <2>1. {k} \in SUBSET (DOMAIN peers)
    BY <1>6 DEF Live
  <2> QED  BY <1>1, <1>2, <1>6, <2>1, CloseTypes DEF TypeInv, HandlersOK, CountersOK
<1> QED  BY <1>3, <1>4, <1>5, <1>6 DEF Callback

LEMMA WorkerTypes ==
  ASSUME TypeInv, CleanupWorker
  PROVE  TypeInv'
<1>1. CASE TakeRetired
  BY <1>1 DEF TakeRetired, TypeInv, TableOK, CleanupOK, ConnOK, HandlersOK, CountersOK, table
<1>2. CASE DetachConnection
  <2>1. ConnOK'
    <3>1. conn \in [Conns -> Connection]
      BY DEF TypeInv, ConnOK
    <3>2. \A d \in Conns : conn'[d] \in {conn[d], [conn[d] EXCEPT !.attached = FALSE, !.st = "closed"]}
      BY <1>2, <3>1 DEF DetachConnection
    <3>3. conn' = [d \in Conns |-> conn'[d]]
      BY <1>2, <3>1 DEF DetachConnection
    <3>4. \A d \in Conns : [conn[d] EXCEPT !.attached = FALSE, !.st = "closed"] \in Connection
      BY <3>1, ConnectionTypes
    <3> QED  BY <3>1, <3>2, <3>3, <3>4, ConnPointwise
  <2> QED  BY <1>2, <2>1
           DEF DetachConnection, TypeInv, TableOK, CleanupOK, HandlersOK, CountersOK, table, cleanup
<1>3. CASE ReleasePeer
  <2>1. ConnOK'
    <3>1. \A d \in Conns : conn'[d] \in {conn[d], [conn[d] EXCEPT !.listens = FALSE]}
      BY <1>3 DEF ReleasePeer
    <3>2. conn' = [d \in Conns |-> conn'[d]]
      BY <1>3 DEF ReleasePeer
    <3>3. \A d \in Conns : conn[d] \in Connection /\ [conn[d] EXCEPT !.listens = FALSE] \in Connection
      BY ConnectionTypes DEF TypeInv, ConnOK
    <3> QED  BY <3>1, <3>2, <3>3, ConnPointwise
  <2> QED  BY <1>3, <2>1 DEF ReleasePeer, TypeInv, TableOK, CleanupOK, HandlersOK, CountersOK, table
<1>4. CASE WorkerExit
  BY <1>4 DEF WorkerExit, TypeInv, TableOK, CleanupOK, ConnOK, HandlersOK, CountersOK, table
<1> QED  BY <1>1, <1>2, <1>3, <1>4 DEF CleanupWorker

LEMMA EmptyTable ==
  ASSUME peers' = <<>>, byUuid' = <<>>, globalIce' = {}
  PROVE  TableOK' /\ DOMAIN peers' = {} /\ IsFiniteSet(DOMAIN peers')
<1>1. DOMAIN peers' = {} /\ DOMAIN byUuid' = {}
  OBVIOUS
<1> QED  BY <1>1, FS_EmptySet DEF TableOK

LEMMA LifecycleTypes ==
  ASSUME TypeInv, Stop \/ Start
  PROVE  TypeInv'
<1>1. CASE StopMark \/ JoinSignaling \/ StopDone
  BY <1>1 DEF StopMark, JoinSignaling, StopDone, TypeInv, TableOK, CleanupOK, ConnOK, HandlersOK,
              CountersOK, table, cleanup
<1>2. CASE ResetAll
  <2>1. CleanupOK' /\ pending' \in Int
    BY <1>2, RetireTypes DEF ResetAll
  <2> QED  BY <1>2, <2>1, EmptyTable DEF ResetAll, TypeInv, ConnOK, HandlersOK, CountersOK
<1>3. CASE Start
  <2>1. \A d \in Conns : conn'[d] \in {conn[d], [conn[d] EXCEPT !.attached = FALSE, !.st = "closed"]}
    BY <1>3 DEF Start
  <2>2. conn' = [d \in Conns |-> conn'[d]]
    BY <1>3 DEF Start
  <2>4. \A d \in Conns : /\ conn[d] \in Connection
                          /\ [conn[d] EXCEPT !.attached = FALSE, !.st = "closed"] \in Connection
    BY ConnectionTypes DEF TypeInv, ConnOK
  <2>3. ConnOK'
    BY <2>1, <2>2, <2>4, ConnPointwise
  <2>5. TableOK' /\ IsFiniteSet(DOMAIN peers')
    BY <1>3, EmptyTable DEF Start
  <2>6. CleanupOK' /\ pending' \in Int /\ HandlersOK'
    BY <1>3 DEF Start, TypeInv, CleanupOK, HandlersOK
  <2>7. CountersOK'
    <3>1. created' = created /\ received' = received /\ life' = "running" /\ starts' = starts + 1
      BY <1>3 DEF Start
    <3>2. starts + 1 \in Nat
      BY DEF TypeInv, CountersOK
    <3> QED  BY <3>1, <3>2 DEF TypeInv, CountersOK
  <2> QED  BY <2>3, <2>5, <2>6, <2>7 DEF TypeInv
<1> QED  BY <1>1, <1>2, <1>3 DEF Stop

LEMMA StepTypes == TypeInv /\ [Next]_vars => TypeInv'
<1> SUFFICES ASSUME TypeInv, [Next]_vars PROVE TypeInv'
  OBVIOUS
<1>1. CASE UNCHANGED vars
  BY <1>1 DEF vars, TypeInv, TableOK, CleanupOK, ConnOK, HandlersOK, CountersOK, table, cleanup
<1>2. CASE Next
  BY <1>2, ReceiveTypes, DispatchTypes, HandlerStepTypes, DcOpenTypes, DcMessageTypes,
     StateChangeTypes, CallbackTypes, WorkerTypes, LifecycleTypes
     DEF Next, Handlers, Channels, Callbacks
<1> QED  BY <1>1, <1>2

\* The variables keep their types, for every number of parties and every cap.
THEOREM TypesHold == Spec => []TypeInv
<1> QED  BY InitTypes, StepTypes, PTL DEF Spec
-----------------------------------------------------------------------------
(* The two maps describe the same peers. *)

\* Removing peers from both maps keeps them consistent.
LEMMA RemoveConsistent ==
  ASSUME TableConsistent, NEW ks \in SUBSET (DOMAIN peers),
         DOMAIN peers' = DOMAIN peers \ ks,
         byUuid' = [u \in DOMAIN byUuid \ {k[1] : k \in ks} |-> byUuid[u]]
  PROVE  TableConsistent'
<1>1. ASSUME NEW k \in DOMAIN peers'
      PROVE  k[1] \in DOMAIN byUuid' /\ byUuid'[k[1]] = k
  <2>1. k \in DOMAIN peers /\ k \notin ks /\ k[1] \in DOMAIN byUuid /\ byUuid[k[1]] = k
    BY DEF TableConsistent
  <2>2. k[1] \notin {o[1] : o \in ks}
    BY <2>1 DEF TableConsistent
  <2> QED  BY <2>1, <2>2
<1>2. ASSUME NEW u \in DOMAIN byUuid'
      PROVE  byUuid'[u] \in DOMAIN peers' /\ byUuid'[u][1] = u
  <2>1. u \in DOMAIN byUuid /\ byUuid'[u] = byUuid[u] /\ u \notin {o[1] : o \in ks}
    OBVIOUS
  <2>2. byUuid[u] \in DOMAIN peers /\ byUuid[u][1] = u
    BY <2>1 DEF TableConsistent, Live
  <2>3. byUuid[u] \notin ks
    BY <2>1, <2>2
  <2> QED  BY <2>1, <2>2, <2>3
<1> QED  BY <1>1, <1>2 DEF TableConsistent, Live

\* A new peer enters both maps, in place of the one its uuid had.
LEMMA CreateConsistent ==
  ASSUME TableConsistent, NEW key, NEW stream, NEW dc, Create(key, stream, dc)
  PROVE  TableConsistent'
<1>1. DOMAIN peers' = (DOMAIN peers \ Replaced(key)) \cup {key}
  BY DEF Create
<1>2. DOMAIN byUuid' = DOMAIN byUuid \cup {key[1]}
  BY DEF Create
<1>3. \A u \in DOMAIN byUuid' : byUuid'[u] = IF u = key[1] THEN key ELSE byUuid[u]
  BY <1>2 DEF Create
<1>4. ASSUME NEW k \in DOMAIN peers'
      PROVE  k[1] \in DOMAIN byUuid' /\ byUuid'[k[1]] = k
  <2>1. CASE k = key
    BY <1>2, <1>3, <2>1
  <2>2. CASE k # key
    <3>1. k \in DOMAIN peers /\ k \notin Replaced(key)
      BY <1>1, <2>2
    <3>2. k[1] \in DOMAIN byUuid /\ byUuid[k[1]] = k
      BY <3>1 DEF TableConsistent
    <3>3. k[1] # key[1]
      BY <2>2, <3>1, <3>2 DEF Replaced
    <3> QED  BY <1>2, <1>3, <3>2, <3>3
  <2> QED  BY <2>1, <2>2
<1>5. ASSUME NEW u \in DOMAIN byUuid'
      PROVE  byUuid'[u] \in DOMAIN peers' /\ byUuid'[u][1] = u
  <2>1. CASE u = key[1]
    BY <1>1, <1>3, <2>1
  <2>2. CASE u # key[1]
    <3>1. u \in DOMAIN byUuid /\ byUuid'[u] = byUuid[u]
      BY <1>2, <1>3, <2>2
    <3>2. byUuid[u] \in DOMAIN peers /\ byUuid[u][1] = u
      BY <3>1 DEF TableConsistent, Live
    <3>3. byUuid[u] \notin Replaced(key)
      BY <2>2, <3>2 DEF Replaced, TableConsistent
    <3> QED  BY <1>1, <3>1, <3>2, <3>3
  <2> QED  BY <2>1, <2>2
<1> QED  BY <1>4, <1>5 DEF TableConsistent, Live

LEMMA SameKeysConsistent ==
  ASSUME TableConsistent, DOMAIN peers' = DOMAIN peers, byUuid' = byUuid
  PROVE  TableConsistent'
BY DEF TableConsistent, Live

LEMMA CloseConsistent ==
  ASSUME TableConsistent, NEW ks \in SUBSET (DOMAIN peers), Close(ks)
  PROVE  TableConsistent'
<1>1. DOMAIN peers' = DOMAIN peers \ ks
  BY DEF Close
<1> QED  BY <1>1, RemoveConsistent DEF Close

LEMMA RefuseConsistent ==
  ASSUME TableConsistent, NEW key, Refuse(key)
  PROVE  TableConsistent'
<1>1. Replaced(key) \in SUBSET (DOMAIN peers)
  BY DEF Replaced
<1> QED  BY <1>1, CloseConsistent, SameKeysConsistent DEF Refuse

LEMMA StepConsistent == TableConsistent /\ [Next]_vars => TableConsistent'
<1> SUFFICES ASSUME TableConsistent, [Next]_vars PROVE TableConsistent'
  OBVIOUS
<1>1. CASE UNCHANGED vars
  BY <1>1, SameKeysConsistent DEF vars, table
<1>2. ASSUME NEW m \in Messages, Receive(m) PROVE TableConsistent'
  BY <1>2, SameKeysConsistent DEF Receive, table
<1>3. ASSUME NEW t \in Threads, Dispatch(t) PROVE TableConsistent'
  <2> DEFINE m == hnd[t].msg
  <2>1. CASE HandleOfferRequest(t, m)
    BY <2>1, CreateConsistent, RefuseConsistent DEF HandleOfferRequest
  <2>2. CASE HandleOffer(t, m)
    <3> DEFINE key == KeyOf(m)
    <3>1. CASE Live(key) /\ peers' = [peers EXCEPT ![key].stream = Named(m.stream, @), ![key].ready = FALSE]
                 /\ byUuid' = byUuid
      BY <3>1, SameKeysConsistent
    <3> QED  BY <2>2, <3>1, CreateConsistent, RefuseConsistent DEF HandleOffer
  <2>3. CASE HandleAnswer(t, m)
    BY <2>3, SameKeysConsistent DEF HandleAnswer
  <2>4. CASE HandleCandidate(t, m)
    BY <2>4, SameKeysConsistent DEF HandleCandidate, QueueOrApply
  <2>5. CASE HandleSignalingLost(t)
    BY <2>5, SameKeysConsistent DEF HandleSignalingLost
  <2> QED  BY <1>3, <2>1, <2>2, <2>3, <2>4, <2>5 DEF Dispatch
<1>4. ASSUME NEW t \in Threads, ApplyRemote(t) \/ FinishDescription(t) PROVE TableConsistent'
  BY <1>4, SameKeysConsistent DEF ApplyRemote, FinishDescription, table
<1>5. ASSUME NEW c \in Conns, DcOpen(c) PROVE TableConsistent'
  BY <1>5, SameKeysConsistent DEF DcOpen
<1>6. ASSUME NEW t \in DcThreads, NEW c \in Conns, NEW m \in DcMessages, DcMessage(t, c, m)
      PROVE  TableConsistent'
  <2>1. PICK key : \/ DOMAIN peers' = DOMAIN peers /\ byUuid' = byUuid
                   \/ Create(key, OwnStream, c)
                   \/ Refuse(key)
    BY <1>6 DEF DcMessage
  <2> QED  BY <2>1, SameKeysConsistent, CreateConsistent, RefuseConsistent
<1>7. ASSUME NEW c \in Conns, NEW e \in Events, StateChange(c, e) PROVE TableConsistent'
  BY <1>7, SameKeysConsistent DEF StateChange, table
<1>8. ASSUME NEW c \in Conns, Callback(c) PROVE TableConsistent'
  <2> DEFINE k == conn[c].key
  <2>1. CASE DOMAIN peers' = DOMAIN peers /\ byUuid' = byUuid
    BY <2>1, SameKeysConsistent
  <2>2. CASE Live(k) /\ Connected(k)
    <3>1. Superseded(k) \in SUBSET (DOMAIN peers) /\ DOMAIN peers' = DOMAIN peers \ Superseded(k)
      BY <2>2 DEF Superseded, Connected
    <3> QED  BY <2>2, <3>1, RemoveConsistent DEF Connected
  <2>3. CASE Live(k) /\ Close({k})
    BY <2>3, CloseConsistent DEF Live
  <2> QED  BY <1>8, <2>1, <2>2, <2>3 DEF Callback, Disconnected
<1>9. CASE CleanupWorker
  BY <1>9, SameKeysConsistent
     DEF CleanupWorker, TakeRetired, DetachConnection, ReleasePeer, WorkerExit, table
<1>10. CASE Stop \/ Start
  <2>1. CASE StopMark \/ JoinSignaling \/ StopDone
    BY <2>1, SameKeysConsistent DEF StopMark, JoinSignaling, StopDone, table
  <2>2. CASE ResetAll \/ Start
    <3>1. DOMAIN peers' = {} /\ DOMAIN byUuid' = {}
      BY <2>2, EmptyTable DEF ResetAll, Start
    <3> QED  BY <3>1 DEF TableConsistent
  <2> QED  BY <1>10, <2>1, <2>2 DEF Stop
<1> QED  BY <1>1, <1>2, <1>3, <1>4, <1>5, <1>6, <1>7, <1>8, <1>9, <1>10
         DEF Next, Handlers, Channels, Callbacks

\* The map by uuid and the table of peers agree in every reachable state,
\* whatever creates, replaces or closes a peer (ensurePeerSession, closePeerSession).
THEOREM TableIsConsistent == Spec => []TableConsistent
<1>1. Init => TableConsistent
  <2> SUFFICES ASSUME Init PROVE TableConsistent
    OBVIOUS
  <2>1. DOMAIN peers = {} /\ DOMAIN byUuid = {}
    BY DEF Init
  <2> QED  BY <2>1 DEF TableConsistent
<1> QED  BY <1>1, StepConsistent, PTL DEF Spec
=============================================================================
