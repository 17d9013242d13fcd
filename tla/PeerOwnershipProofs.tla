------------------------ MODULE PeerOwnershipProofs ------------------------
(***************************************************************************)
(* Who owns a connection, and what the table of peers promises in each of  *)
(* its modes: theorems about PeerSessions, for every number of remote      *)
(* parties, every cap and every bound.                                     *)
(***************************************************************************)
EXTENDS PeerSessionsProofs

\* The counter counts, and live and retired peers together are bounded.
Counted == IsFiniteSet(retired) /\ CleanupCounted
Bounded == /\ Cardinality(DOMAIN peers) <= MaxPeers
           /\ Cardinality(DOMAIN peers) + pending <= 2 * MaxPeers

\* Whatever is owned was created: the next connection is nobody's.
Fresh == /\ \A k \in DOMAIN peers : peers[k].conn <= created
         /\ \A r \in retired \cup {cleaning} : r.conn <= created

IInv == TypeInv /\ ConnectionsOwned /\ Counted /\ Bounded /\ Fresh

\* What owns a connection owns one that may exist; the absence of a peer owns none.
LEMMA OwnerFacts ==
  ASSUME TypeInv
  PROVE  /\ \A k \in DOMAIN peers : peers[k].conn \in Conns
         /\ \A r \in retired : r.conn \in Conns /\ r # NoPeer
         /\ cleaning # NoPeer => cleaning.conn \in Conns
         /\ NoPeer.conn = 0 /\ 0 \notin Conns /\ \A c \in Conns : c \in Nat
         /\ created \in Nat
<1>1. 0 \notin Conns /\ (\A c \in Conns : c \in Nat) /\ created \in Nat
  BY DEF Conns, TypeInv, CountersOK
<1>2. NoPeer.conn = 0
  BY DEF NoPeer
<1>3. \A k \in DOMAIN peers : peers[k].conn \in Conns
  BY DEF TypeInv, TableOK, Peer
<1>4. \A r \in Retiree : r.conn \in Conns
  BY DEF Retiree
<1>5. \A r \in retired : r.conn \in Conns /\ r # NoPeer
  BY <1>1, <1>2, <1>4 DEF TypeInv, CleanupOK
<1>6. cleaning # NoPeer => cleaning.conn \in Conns
  BY <1>4 DEF TypeInv, CleanupOK
<1> QED  BY <1>1, <1>2, <1>3, <1>5, <1>6

\* A step that moves no connection from one owner to another, and attaches none.
LEMMA SameOwners ==
  ASSUME IInv, TypeInv', DOMAIN peers' = DOMAIN peers,
         \A k \in DOMAIN peers : peers'[k].conn = peers[k].conn,
         UNCHANGED <<retired, cleaning, pending, created>>,
         \A c \in Conns : conn'[c].attached => conn[c].attached
  PROVE  IInv'
<1>1. Counted' /\ Bounded'
  BY DEF IInv, Counted, CleanupCounted, Bounded
<1>2. Fresh'
  BY DEF IInv, Fresh
<1>3. ConnectionsOwned'
  <2>1. Held' = Held
    BY DEF Held
  <2>2. \A c \in Conns : conn'[c].attached => c \in Held'
    BY <2>1 DEF IInv, ConnectionsOwned
  <2>3. \A k \in DOMAIN peers' : peers'[k].conn \notin {r.conn : r \in retired' \cup {cleaning'}}
    BY DEF IInv, ConnectionsOwned
  <2>4. \A k, o \in DOMAIN peers' : peers'[k].conn = peers'[o].conn => k = o
    BY DEF IInv, ConnectionsOwned
  <2>5. \A r \in retired', s \in retired' \cup {cleaning'} : r.conn = s.conn => r = s /\ r # cleaning'
    BY DEF IInv, ConnectionsOwned
  <2> QED  BY <2>2, <2>3, <2>4, <2>5 DEF ConnectionsOwned
<1> QED  BY <1>1, <1>2, <1>3 DEF IInv

\* Each peer that is retired adds one to the queue: no two leave the same remains, and
\* none leaves what is there.
LEMMA RetireCounts ==
  ASSUME IInv, NEW ks \in SUBSET (DOMAIN peers)
  PROVE  LET rs == {Remains(peers[k]) : k \in ks}
         IN /\ IsFiniteSet(ks) /\ Cardinality(ks) \in Nat
            /\ IsFiniteSet(retired \cup rs)
            /\ Cardinality(retired \cup rs) = Cardinality(retired) + Cardinality(ks)
            /\ Cardinality(DOMAIN peers \ ks) = Cardinality(DOMAIN peers) - Cardinality(ks)
            /\ Cardinality(DOMAIN peers) \in Nat
<1> DEFINE rs == {Remains(peers[k]) : k \in ks}
           f  == [k \in ks |-> Remains(peers[k])]
<1>1. IsFiniteSet(DOMAIN peers) /\ IsFiniteSet(retired)
  BY DEF IInv, TypeInv, Counted
<1>2. IsFiniteSet(ks) /\ Cardinality(ks) \in Nat /\ Cardinality(DOMAIN peers) \in Nat
  BY <1>1, FS_Subset, FS_CardinalityType
<1>3. \A k \in ks : Remains(peers[k]).conn = peers[k].conn
  BY DEF Remains
<1>4. f \in Surjection(ks, rs)
  BY DEF Surjection
<1>5. f \in Injection(ks, rs)
  <2>1. \A k, o \in ks : f[k] = f[o] => k = o
    BY <1>3 DEF IInv, ConnectionsOwned
  <2> QED  BY <2>1 DEF Injection, IsInjective
<1>6. IsFiniteSet(rs) /\ Cardinality(rs) = Cardinality(ks)
  BY <1>2, <1>4, <1>5, FS_Surjection
<1>7. retired \cap rs = {}
  BY <1>3 DEF IInv, ConnectionsOwned
<1>8. Cardinality({}) = 0 /\ Cardinality(retired) \in Nat
  BY <1>1, FS_EmptySet, FS_CardinalityType
<1>9. /\ IsFiniteSet(retired \cup rs)
      /\ Cardinality(retired \cup rs) = Cardinality(retired) + Cardinality(ks)
  <2>1. /\ IsFiniteSet(retired \cup rs)
        /\ Cardinality(retired \cup rs)
             = Cardinality(retired) + Cardinality(rs) - Cardinality(retired \cap rs)
    BY <1>1, <1>6, FS_Union
  <2>2. Cardinality(retired \cap rs) = 0
    BY <1>7, <1>8, Zenon
  <2> DEFINE a == Cardinality(retired \cup rs)
             b == Cardinality(retired)
             d == Cardinality(rs)
             e == Cardinality(retired \cap rs)
  <2>3. a = b + d - e /\ e = 0 /\ b \in Nat /\ d \in Nat
    BY <1>2, <1>6, <1>8, <2>1, <2>2, Zenon
  <2>4. a = b + d
    <3> HIDE DEF a, b, d, e
    <3> QED  BY <2>3
  <2> QED  BY <1>6, <2>1, <2>4, Zenon
<1>10. Cardinality(DOMAIN peers \ ks) = Cardinality(DOMAIN peers) - Cardinality(ks)
  <2>1. DOMAIN peers \cap ks = ks
    OBVIOUS
  <2> QED  BY <1>1, <2>1, FS_Difference
<1> QED  BY <1>2, <1>9, <1>10

\* Retiring peers hands their connections to the worker.
LEMMA RetireOwns ==
  ASSUME IInv, NEW ks \in SUBSET (DOMAIN peers), Retire(ks)
  PROVE  /\ \A r \in retired' : r \in retired \/ \E k \in ks : r.conn = peers[k].conn
         /\ \A k \in ks : \E r \in retired' : r.conn = peers[k].conn
         /\ \A r \in retired, k \in DOMAIN peers : r.conn # peers[k].conn
         /\ \A k \in DOMAIN peers : cleaning.conn # peers[k].conn
         /\ cleaning' = cleaning /\ retired \subseteq retired'
         /\ \A r \in retired', s \in retired' \cup {cleaning'} :
              r.conn = s.conn => r = s /\ r # cleaning'
<1>1. retired' = retired \cup {Remains(peers[k]) : k \in ks} /\ cleaning' = cleaning
  BY DEF Retire
<1>2. \A k \in ks : Remains(peers[k]).conn = peers[k].conn
  BY DEF Remains
<1>3. /\ \A r \in retired, k \in DOMAIN peers : r.conn # peers[k].conn
      /\ \A k \in DOMAIN peers : cleaning.conn # peers[k].conn
  BY DEF IInv, ConnectionsOwned
<1>4. ASSUME NEW r \in retired', NEW s \in retired' \cup {cleaning'}, r.conn = s.conn
      PROVE  r = s /\ r # cleaning'
  <2>1. CASE r \in retired
    <3>1. s \in retired \cup {cleaning}
      BY <1>1, <1>2, <1>3, <1>4, <2>1
    <3> QED  BY <1>1, <1>4, <2>1, <3>1 DEF IInv, ConnectionsOwned
  <2>2. CASE r \notin retired
    <3>1. PICK k \in ks : r = Remains(peers[k]) /\ r.conn = peers[k].conn
      BY <1>1, <1>2, <2>2
    <3>2. r # cleaning'
      BY <1>1, <1>3, <3>1
    <3>3. s \notin retired /\ s # cleaning
      BY <1>3, <1>4, <3>1
    <3>4. PICK o \in ks : s = Remains(peers[o]) /\ s.conn = peers[o].conn
      BY <1>1, <1>2, <3>3
    <3>5. k = o
      BY <1>4, <3>1, <3>4 DEF IInv, ConnectionsOwned
    <3> QED  BY <3>1, <3>2, <3>4, <3>5
  <2> QED  BY <2>1, <2>2
<1> QED  BY <1>1, <1>2, <1>3, <1>4

\* A step that retires peers of the table, whatever else it does to the others.
LEMMA RetireKeeps ==
  ASSUME IInv, TypeInv', NEW ks \in SUBSET (DOMAIN peers), Retire(ks),
         DOMAIN peers' = DOMAIN peers \ ks,
         \A k \in DOMAIN peers' : peers'[k].conn = peers[k].conn,
         created' = created, \A c \in Conns : conn'[c].attached => conn[c].attached
  PROVE  IInv'
<1>1. /\ \A r \in retired' : r \in retired \/ \E k \in ks : r.conn = peers[k].conn
      /\ \A k \in ks : \E r \in retired' : r.conn = peers[k].conn
      /\ \A r \in retired, k \in DOMAIN peers : r.conn # peers[k].conn
      /\ \A k \in DOMAIN peers : cleaning.conn # peers[k].conn
      /\ cleaning' = cleaning /\ retired \subseteq retired'
  BY RetireOwns
<1>2. ConnectionsOwned'
  <2>1. ASSUME NEW c \in Conns, conn'[c].attached
        PROVE  c \in Held'
    <3>1. c \in Held
      BY <2>1 DEF IInv, ConnectionsOwned
    <3>2. CASE \E r \in retired \cup {cleaning} : r.conn = c
      BY <1>1, <3>2 DEF Held
    <3>3. CASE \E k \in DOMAIN peers : peers[k].conn = c
      BY <1>1, <3>3 DEF Held
    <3> QED  BY <3>1, <3>2, <3>3 DEF Held
  <2>2. \A k \in DOMAIN peers' : peers'[k].conn \notin {r.conn : r \in retired' \cup {cleaning'}}
    BY <1>1 DEF IInv, ConnectionsOwned
  <2>3. \A k, o \in DOMAIN peers' : peers'[k].conn = peers'[o].conn => k = o
    BY DEF IInv, ConnectionsOwned
  <2>4. \A r \in retired', s \in retired' \cup {cleaning'} : r.conn = s.conn => r = s /\ r # cleaning'
    BY RetireOwns
  <2> QED  BY <2>1, <2>2, <2>3, <2>4 DEF ConnectionsOwned
<1>3. Fresh'
  BY <1>1 DEF IInv, Fresh
<1>4. Counted' /\ Bounded'
  <2>1. /\ retired' = retired \cup {Remains(peers[k]) : k \in ks} /\ cleaning' = cleaning
        /\ pending' = pending + Cardinality(ks)
    BY DEF Retire
  <2>2. /\ Cardinality(ks) \in Nat /\ IsFiniteSet(retired')
        /\ Cardinality(retired') = Cardinality(retired) + Cardinality(ks)
        /\ Cardinality(DOMAIN peers') = Cardinality(DOMAIN peers) - Cardinality(ks)
        /\ Cardinality(DOMAIN peers) \in Nat
    BY <2>1, RetireCounts
  <2>3. Cardinality(retired) \in Nat /\ pending \in Int /\ MaxPeers \in Nat
    BY FS_CardinalityType, BoundAssumption DEF IInv, Counted, TypeInv
  <2>4. Counted'
    BY <2>1, <2>2, <2>3 DEF IInv, Counted, CleanupCounted
  <2>5. Bounded'
    BY <2>1, <2>2, <2>3 DEF IInv, Bounded
  <2> QED  BY <2>4, <2>5
<1> QED  BY <1>2, <1>3, <1>4 DEF IInv

\* ensurePeerSession: the peer that is replaced goes to the worker, the new one owns a
\* new connection, and there was room for it.
LEMMA CreateKeeps ==
  ASSUME IInv, TypeInv', NEW key, NEW stream, NEW dc, Create(key, stream, dc)
  PROVE  IInv'
<1> DEFINE ks  == Replaced(key)
           new == created + 1
<1>1. ks \in SUBSET (DOMAIN peers) /\ key \notin DOMAIN peers /\ Retire(ks)
  BY DEF Create, Replaced, Live
<1>2. DOMAIN peers' = (DOMAIN peers \ ks) \cup {key}
  BY DEF Create
<1>3. /\ peers'[key].conn = new
      /\ \A k \in DOMAIN peers \ ks : peers'[k].conn = peers[k].conn
  <2>1. \A k \in DOMAIN peers' : peers'[k] = IF k = key THEN NewPeer(key, stream, dc) ELSE peers[k]
    BY DEF Create
  <2>2. NewPeer(key, stream, dc).conn = new
    BY DEF NewPeer
  <2> QED  BY <1>1, <1>2, <2>1, <2>2
<1>4. created' = new /\ \A c \in Conns : c # new => conn'[c] = conn[c]
  BY DEF Create, IInv, TypeInv, ConnOK
<1>5. /\ \A r \in retired' : r \in retired \/ \E k \in ks : r.conn = peers[k].conn
      /\ \A k \in ks : \E r \in retired' : r.conn = peers[k].conn
      /\ \A r \in retired, k \in DOMAIN peers : r.conn # peers[k].conn
      /\ \A k \in DOMAIN peers : cleaning.conn # peers[k].conn
      /\ cleaning' = cleaning /\ retired \subseteq retired'
  BY <1>1, RetireOwns
<1>6. created \in Nat /\ \A k \in DOMAIN peers : peers[k].conn \in Nat
  BY OwnerFacts DEF IInv
<1>7. /\ \A k \in DOMAIN peers : peers[k].conn # new
      /\ \A r \in retired \cup {cleaning} : r.conn # new
  <2>1. \A r \in retired \cup {cleaning} : r.conn \in Nat
    BY OwnerFacts DEF IInv, TypeInv, CleanupOK
  <2> QED  BY <1>6, <2>1 DEF IInv, Fresh
<1> HIDE DEF new, ks
<1>8. ConnectionsOwned'
  <2>1. ASSUME NEW c \in Conns, conn'[c].attached
        PROVE  c \in Held'
    <3>1. CASE c = new
      BY <1>2, <1>3, <3>1 DEF Held
    <3>2. CASE c # new
      <4>1. c \in Held
        BY <1>4, <2>1, <3>2 DEF IInv, ConnectionsOwned
      <4>2. CASE \E r \in retired \cup {cleaning} : r.conn = c
        BY <1>5, <4>2 DEF Held
      <4>3. CASE \E k \in ks : peers[k].conn = c
        BY <1>5, <4>3 DEF Held
      <4>4. CASE \E k \in DOMAIN peers \ ks : peers[k].conn = c
        BY <1>2, <1>3, <4>4 DEF Held
      <4> QED  BY <4>1, <4>2, <4>3, <4>4 DEF Held
    <3> QED  BY <3>1, <3>2
  <2>2. ASSUME NEW k \in DOMAIN peers', NEW r \in retired' \cup {cleaning'}
        PROVE  peers'[k].conn # r.conn
    <3>1. r \in retired \cup {cleaning} \/ \E o \in ks : r.conn = peers[o].conn
      BY <1>5
    <3>2. CASE k = key
      BY <1>1, <1>3, <1>7, <3>1, <3>2
    <3>3. CASE k # key
      <4>1. k \in DOMAIN peers /\ k \notin ks /\ peers'[k].conn = peers[k].conn
        BY <1>2, <1>3, <3>3
      <4> QED  BY <1>1, <1>5, <3>1, <4>1 DEF IInv, ConnectionsOwned
    <3> QED  BY <3>2, <3>3
  <2>3. \A k, o \in DOMAIN peers' : peers'[k].conn = peers'[o].conn => k = o
    BY <1>2, <1>3, <1>7 DEF IInv, ConnectionsOwned
  <2>4. \A r \in retired', s \in retired' \cup {cleaning'} : r.conn = s.conn => r = s /\ r # cleaning'
    BY <1>1, RetireOwns
  <2> QED  BY <2>1, <2>2, <2>3, <2>4 DEF ConnectionsOwned
<1>9. Fresh'
  <2>1. created \in Nat /\ created' = created + 1
    BY <1>4, <1>6 DEF new
  <2>2. ASSUME NEW k \in DOMAIN peers'
        PROVE  peers'[k].conn <= created'
    BY <1>2, <1>3, <1>4, <1>6, <2>1 DEF IInv, Fresh
  <2>3. \A r \in retired \cup {cleaning} : r.conn \in Nat /\ r.conn <= created
    BY OwnerFacts DEF IInv, Fresh, TypeInv, CleanupOK
  <2>4. ASSUME NEW r \in retired' \cup {cleaning'}
        PROVE  r.conn <= created'
    <3>1. CASE r \in retired \cup {cleaning}
      BY <2>1, <2>3, <3>1
    <3>2. CASE \E k \in ks : r.conn = peers[k].conn
      BY <1>1, <1>6, <2>1, <3>2 DEF IInv, Fresh
    <3> QED  BY <1>5, <3>1, <3>2
  <2> QED  BY <2>2, <2>4 DEF Fresh
<1>10. Counted' /\ Bounded'
  <2> DEFINE rest == DOMAIN peers \ ks
  <2>1. /\ retired' = retired \cup {Remains(peers[k]) : k \in ks} /\ cleaning' = cleaning
        /\ pending' = pending + Cardinality(ks)
    BY <1>1 DEF Retire
  <2>2. /\ Cardinality(ks) \in Nat /\ IsFiniteSet(retired')
        /\ Cardinality(retired') = Cardinality(retired) + Cardinality(ks)
        /\ Cardinality(rest) = Cardinality(DOMAIN peers) - Cardinality(ks)
        /\ Cardinality(DOMAIN peers) \in Nat
    BY <1>1, <2>1, RetireCounts
  <2>3. Cardinality(retired) \in Nat /\ pending \in Int /\ MaxPeers \in Nat
    BY FS_CardinalityType, BoundAssumption DEF IInv, Counted, TypeInv
  <2>4. Counted'
    BY <2>1, <2>2, <2>3 DEF IInv, Counted, CleanupCounted
  <2>5. IsFiniteSet(rest) /\ key \notin rest
    BY <1>1, FS_Subset DEF IInv, TypeInv
  <2>6. Cardinality(DOMAIN peers') = Cardinality(rest) + 1
    BY <1>2, <2>5, FS_AddElement
  <2>7. pending < MaxPeers /\ Cardinality(rest) < MaxPeers
    <3>1. ~(pending >= MaxPeers) /\ ~(Cardinality(rest) >= MaxPeers)
      BY DEF Create, CleanupBusy, Full, ks
    <3> QED  BY <2>2, <2>3, <3>1
  <2> HIDE DEF rest
  <2>8. Bounded'
    BY <2>1, <2>2, <2>3, <2>6, <2>7 DEF IInv, Bounded
  <2> QED  BY <2>4, <2>8
<1> QED  BY <1>8, <1>9, <1>10 DEF IInv

\* Closing peers, and refusing one.
LEMMA CloseKeeps ==
  ASSUME IInv, TypeInv', NEW ks \in SUBSET (DOMAIN peers), Close(ks),
         created' = created, \A c \in Conns : conn'[c].attached => conn[c].attached
  PROVE  IInv'
<1>1. /\ DOMAIN peers' = DOMAIN peers \ ks /\ Retire(ks)
      /\ \A k \in DOMAIN peers' : peers'[k].conn = peers[k].conn
  BY DEF Close
<1> QED  BY <1>1, RetireKeeps

LEMMA RefuseKeeps ==
  ASSUME IInv, TypeInv', NEW key, Refuse(key)
  PROVE  IInv'
<1>1. conn' = conn /\ created' = created /\ Replaced(key) \in SUBSET (DOMAIN peers)
  BY DEF Refuse, Replaced
<1>2. CASE CleanupBusy
  BY <1>1, <1>2, SameOwners DEF Refuse, cleanup
<1>3. CASE ~CleanupBusy
  BY <1>1, <1>3, CloseKeeps DEF Refuse
<1> QED  BY <1>2, <1>3

\* The worker takes a peer from its queue, which stays counted.
LEMMA TakeKeeps ==
  ASSUME IInv, TypeInv', TakeRetired
  PROVE  IInv'
<1>1. PICK r \in retired : cleaning' = r /\ retired' = retired \ {r}
  BY DEF TakeRetired
<1>2. cleaning = NoPeer /\ peers' = peers /\ conn' = conn /\ created' = created /\ pending' = pending
  BY DEF TakeRetired, table
<1>3. NoPeer.conn = 0 /\ 0 \notin Conns /\ r # NoPeer
  BY OwnerFacts DEF IInv
<1>4. retired' \cup {cleaning'} = retired
  BY <1>1
<1>5. ConnectionsOwned'
  <2>1. \A c \in Conns : conn'[c].attached => c \in Held'
    BY <1>2, <1>3, <1>4 DEF IInv, ConnectionsOwned, Held
  <2>2. \A k \in DOMAIN peers' : peers'[k].conn \notin {x.conn : x \in retired' \cup {cleaning'}}
    BY <1>2, <1>4 DEF IInv, ConnectionsOwned
  <2>3. \A k, o \in DOMAIN peers' : peers'[k].conn = peers'[o].conn => k = o
    BY <1>2 DEF IInv, ConnectionsOwned
  <2>4. \A x \in retired', s \in retired' \cup {cleaning'} : x.conn = s.conn => x = s /\ x # cleaning'
    BY <1>1, <1>4 DEF IInv, ConnectionsOwned
  <2> QED  BY <2>1, <2>2, <2>3, <2>4 DEF ConnectionsOwned
<1>6. Fresh'
  BY <1>2, <1>4 DEF IInv, Fresh
<1>7. Counted'
  <2>1. IsFiniteSet(retired') /\ Cardinality(retired') = Cardinality(retired) - 1
    BY <1>1, FS_RemoveElement DEF IInv, Counted
  <2>2. Cardinality(retired) \in Nat /\ cleaning' # NoPeer
    BY <1>1, <1>3, FS_CardinalityType DEF IInv, Counted
  <2> QED  BY <1>2, <2>1, <2>2 DEF IInv, Counted, CleanupCounted
<1>8. Bounded'
  BY <1>2 DEF IInv, Bounded
<1> QED  BY <1>5, <1>6, <1>7, <1>8 DEF IInv

\* The worker lets go of a peer whose callbacks are detached.
LEMMA ReleaseKeeps ==
  ASSUME IInv, TypeInv', ReleasePeer
  PROVE  IInv'
<1>1. /\ cleaning # NoPeer /\ ~conn[cleaning.conn].attached
      /\ cleaning' = NoPeer /\ pending' = pending - 1
      /\ peers' = peers /\ created' = created /\ retired' = retired
  BY DEF ReleasePeer, table
<1>2. \A c \in Conns : conn'[c].attached => conn[c].attached
  BY DEF ReleasePeer, IInv, TypeInv, ConnOK, Connection
<1>3. /\ NoPeer.conn = 0 /\ 0 \notin Conns /\ created \in Nat
      /\ \A k \in DOMAIN peers : peers[k].conn \in Conns
      /\ \A r \in retired : r.conn \in Conns /\ r # NoPeer
  BY OwnerFacts DEF IInv
<1>4. ConnectionsOwned'
  <2>1. \A c \in Conns : conn'[c].attached => c \in Held'
    BY <1>1, <1>2 DEF IInv, ConnectionsOwned, Held
  <2>2. \A k \in DOMAIN peers' : peers'[k].conn \notin {x.conn : x \in retired' \cup {cleaning'}}
    BY <1>1, <1>3 DEF IInv, ConnectionsOwned
  <2>3. \A k, o \in DOMAIN peers' : peers'[k].conn = peers'[o].conn => k = o
    BY <1>1 DEF IInv, ConnectionsOwned
  <2>4. \A x \in retired', s \in retired' \cup {cleaning'} : x.conn = s.conn => x = s /\ x # cleaning'
    BY <1>1, <1>3 DEF IInv, ConnectionsOwned
  <2> QED  BY <2>1, <2>2, <2>3, <2>4 DEF ConnectionsOwned
<1>5. Fresh'
  BY <1>1, <1>3 DEF IInv, Fresh
<1>6. Counted'
  <2>1. Cardinality(retired) \in Nat
    BY FS_CardinalityType DEF IInv, Counted
  <2> QED  BY <1>1, <2>1 DEF IInv, Counted, CleanupCounted
<1>7. Bounded'
  <2>1. Cardinality(DOMAIN peers) \in Nat /\ pending \in Int /\ MaxPeers \in Nat
    BY FS_CardinalityType, BoundAssumption DEF IInv, TypeInv
  <2> QED  BY <1>1, <2>1 DEF IInv, Bounded
<1> QED  BY <1>4, <1>5, <1>6, <1>7 DEF IInv

\* start() empties the table; the connections of the peers that were left die with them.
LEMMA StartKeeps ==
  ASSUME IInv, TypeInv', Start
  PROVE  IInv'
<1>1. DOMAIN peers' = {} /\ UNCHANGED <<retired, cleaning, pending, created>>
  BY EmptyTable DEF Start
<1>2. \A c \in Conns : conn'[c].attached =>
        conn[c].attached /\ \A k \in DOMAIN peers : peers[k].conn # c
  <2>1. ASSUME NEW c \in Conns, conn'[c].attached
        PROVE  conn[c].attached /\ \A k \in DOMAIN peers : peers[k].conn # c
    <3>1. conn[c] \in Connection
      BY DEF IInv, TypeInv, ConnOK
    <3>2. CASE \E k \in DOMAIN peers : peers[k].conn = c
      <4>1. conn'[c] = [conn[c] EXCEPT !.attached = FALSE, !.st = "closed"]
        BY <3>2 DEF Start
      <4>2. ASSUME NEW b \in BOOLEAN
            PROVE  [conn[c] EXCEPT !.attached = b, !.st = "closed"].attached = b
        BY <3>1 DEF Connection
      <4>3. conn'[c].attached = FALSE
        BY <4>1, <4>2, Zenon
      <4> QED  BY <2>1, <4>3, Zenon
    <3>3. CASE ~\E k \in DOMAIN peers : peers[k].conn = c
      BY <2>1, <3>3 DEF Start
    <3> QED  BY <3>2, <3>3
  <2> QED  BY <2>1
<1>3. ConnectionsOwned'
  <2>1. \A c \in Conns : conn'[c].attached => c \in Held'
    BY <1>1, <1>2 DEF IInv, ConnectionsOwned, Held
  <2>2. \A x \in retired', s \in retired' \cup {cleaning'} : x.conn = s.conn => x = s /\ x # cleaning'
    BY <1>1 DEF IInv, ConnectionsOwned
  <2> QED  BY <1>1, <2>1, <2>2 DEF ConnectionsOwned
<1>4. Fresh' /\ Counted'
  BY <1>1 DEF IInv, Fresh, Counted, CleanupCounted
<1>5. Bounded'
  <2>1. Cardinality(DOMAIN peers) \in Nat /\ pending \in Int /\ MaxPeers \in Nat
    BY FS_CardinalityType, BoundAssumption DEF IInv, TypeInv
  <2>2. Cardinality(DOMAIN peers') = 0
    BY <1>1, FS_EmptySet, Zenon
  <2> QED  BY <1>1, <2>1, <2>2 DEF IInv, Bounded
<1> QED  BY <1>3, <1>4, <1>5 DEF IInv

\* Candidates move between queues and connections without moving a connection.
LEMMA CandidatesMove ==
  ASSUME TypeInv, NEW k \in DOMAIN peers, NEW i, QueueOrApply(k, i)
  PROVE  /\ DOMAIN peers' = DOMAIN peers
         /\ \A o \in DOMAIN peers : peers'[o].conn = peers[o].conn
         /\ \A c \in Conns : conn'[c].attached => conn[c].attached
<1> DEFINE p == peers[k]
<1>1. CASE /\ conn' = conn
           /\ \E a : peers' = [peers EXCEPT ![k].ice = a]
  BY <1>1 DEF TypeInv, TableOK, Peer
<1>2. CASE /\ peers' = peers
           /\ \E a : conn' = [conn EXCEPT ![p.conn].applied = a]
  BY <1>2 DEF TypeInv, ConnOK, Connection
<1>3. CASE ~p.described /\ peers' = [peers EXCEPT ![k].ice =
                    IF Cardinality(@) < MaxPendingIce THEN @ \cup {i} ELSE @] /\ conn' = conn
  BY <1>1, <1>3, Zenon
<1>4. CASE p.described /\ conn' = [conn EXCEPT ![p.conn].applied =
                    IF conn[p.conn].remote THEN @ \cup {i} ELSE @] /\ peers' = peers
  BY <1>2, <1>4, Zenon
<1> QED  BY <1>3, <1>4 DEF QueueOrApply

\* The sections of a message handler.
LEMMA DispatchKeeps ==
  ASSUME IInv, TypeInv', NEW t \in Threads, Dispatch(t)
  PROVE  IInv'
<1> DEFINE m == hnd[t].msg
<1>1. CASE HandleOfferRequest(t, m)
  BY <1>1, CreateKeeps, RefuseKeeps DEF HandleOfferRequest
<1>2. CASE HandleOffer(t, m)
  <2> DEFINE key == KeyOf(m)
  <2>1. CASE /\ Live(key)
             /\ peers' = [peers EXCEPT ![key].stream = Named(m.stream, @), ![key].ready = FALSE]
             /\ UNCHANGED <<byUuid, globalIce, cleanup, conn, created>>
    <3>1. DOMAIN peers' = DOMAIN peers /\ \A k \in DOMAIN peers : peers'[k].conn = peers[k].conn
      BY <2>1 DEF IInv, TypeInv, TableOK, Peer
    <3> QED  BY <2>1, <3>1, SameOwners DEF cleanup
  <2> QED  BY <1>2, <2>1, CreateKeeps, RefuseKeeps DEF HandleOffer
<1>3. CASE HandleAnswer(t, m)
  <2>1. DOMAIN peers' = DOMAIN peers /\ \A k \in DOMAIN peers : peers'[k].conn = peers[k].conn
    BY <1>3 DEF HandleAnswer, IInv, TypeInv, TableOK, Peer
  <2> QED  BY <1>3, <2>1, SameOwners DEF HandleAnswer, cleanup
<1>4. CASE HandleCandidate(t, m)
  <2>1. CASE UNCHANGED <<peers, conn>>
    BY <1>4, <2>1, SameOwners DEF HandleCandidate, cleanup
  <2>2. ASSUME NEW k \in Located(m), NEW i, QueueOrApply(k, i)
        PROVE  IInv'
    <3>1. k \in DOMAIN peers
      BY DEF Located, Live
    <3>2. /\ DOMAIN peers' = DOMAIN peers
          /\ \A o \in DOMAIN peers : peers'[o].conn = peers[o].conn
          /\ \A c \in Conns : conn'[c].attached => conn[c].attached
      BY <2>2, <3>1, CandidatesMove DEF IInv
    <3> QED  BY <1>4, <3>2, SameOwners DEF HandleCandidate, cleanup
  <2> QED  BY <1>4, <2>1, <2>2 DEF HandleCandidate
<1>5. CASE HandleSignalingLost(t)
  BY <1>5, SameOwners DEF HandleSignalingLost, cleanup
<1> QED  BY <1>1, <1>2, <1>3, <1>4, <1>5 DEF Dispatch

LEMMA HandlerStepKeeps ==
  ASSUME IInv, TypeInv', NEW t \in Threads, ApplyRemote(t) \/ FinishDescription(t)
  PROVE  IInv'
<1>1. CASE ApplyRemote(t)
  <2>1. \A c \in Conns : conn'[c].attached => conn[c].attached
    BY <1>1 DEF ApplyRemote, IInv, TypeInv, ConnOK, Connection
  <2> QED  BY <1>1, <2>1, SameOwners DEF ApplyRemote, table, cleanup
<1>2. CASE FinishDescription(t)
  <2> DEFINE key == hnd[t].key
  <2>1. CASE UNCHANGED <<peers, conn>>
    BY <1>2, <2>1, SameOwners DEF FinishDescription, cleanup
  <2>2. ASSUME NEW b \in BOOLEAN, NEW a, NEW r, NEW s,
               peers' = [peers EXCEPT ![key].described = b, ![key].ice = a, ![key].ready = r],
               conn' = [conn EXCEPT ![peers[key].conn].applied = s]
        PROVE  IInv'
    <3>1. DOMAIN peers' = DOMAIN peers /\ \A k \in DOMAIN peers : peers'[k].conn = peers[k].conn
      BY <2>2 DEF IInv, TypeInv, TableOK, Peer
    <3>2. \A c \in Conns : conn'[c].attached => conn[c].attached
      BY <2>2 DEF IInv, TypeInv, ConnOK, Connection
    <3> QED  BY <1>2, <3>1, <3>2, SameOwners DEF FinishDescription, cleanup
  <2>3. CASE Live(key)
    <3> DEFINE p == peers[key]
               rest == p.ice \ Delivered(p)
    <3>1. /\ peers' = [peers EXCEPT ![key].described = TRUE, ![key].ice = rest,
                            ![key].ready = @ \/ (rest = {} /\ hnd[t].msg.kind = "answer")]
          /\ conn' = [conn EXCEPT ![p.conn].applied = @ \cup Delivered(p)]
      BY <1>2, <2>3 DEF FinishDescription
    <3> HIDE DEF rest
    <3> QED  BY <2>2, <3>1, Zenon
  <2>4. CASE ~Live(key)
    BY <1>2, <2>1, <2>4 DEF FinishDescription
  <2> QED  BY <2>3, <2>4
<1> QED  BY <1>1, <1>2

\* The channels of a Play peer.
LEMMA ChannelsKeep ==
  ASSUME IInv, TypeInv', Channels
  PROVE  IInv'
<1>1. ASSUME NEW c \in Conns, DcOpen(c)
      PROVE  IInv'
  <2>1. DOMAIN peers' = DOMAIN peers /\ \A k \in DOMAIN peers : peers'[k].conn = peers[k].conn
    BY <1>1 DEF DcOpen, IInv, TypeInv, TableOK, Peer
  <2>2. \A d \in Conns : conn'[d].attached => conn[d].attached
    BY <1>1 DEF DcOpen, IInv, TypeInv, ConnOK, Connection
  <2> QED  BY <1>1, <2>1, <2>2, SameOwners DEF DcOpen, cleanup
<1>2. ASSUME NEW t \in DcThreads, NEW c \in Conns, NEW m \in DcMessages, DcMessage(t, c, m)
      PROVE  IInv'
  <2>1. PICK key : \/ /\ Live(key) /\ peers' = [peers EXCEPT ![key].dc = c]
                      /\ UNCHANGED <<byUuid, globalIce, cleanup, conn, created>>
                   \/ Create(key, OwnStream, c)
                   \/ Refuse(key)
    BY <1>2 DEF DcMessage
  <2>2. CASE /\ Live(key) /\ peers' = [peers EXCEPT ![key].dc = c]
             /\ UNCHANGED <<byUuid, globalIce, cleanup, conn, created>>
    <3>1. DOMAIN peers' = DOMAIN peers /\ \A k \in DOMAIN peers : peers'[k].conn = peers[k].conn
      BY <2>2 DEF IInv, TypeInv, TableOK, Peer
    <3> QED  BY <2>2, <3>1, SameOwners DEF cleanup
  <2> QED  BY <2>1, <2>2, CreateKeeps, RefuseKeeps
<1> QED  BY <1>1, <1>2 DEF Channels

\* Connection callbacks: a peer that connects may retire the others of its stream.
LEMMA CallbacksKeep ==
  ASSUME IInv, TypeInv', Callbacks
  PROVE  IInv'
<1>1. ASSUME NEW c \in Conns, NEW e \in Events, StateChange(c, e)
      PROVE  IInv'
  <2>1. \A d \in Conns : conn'[d].attached => conn[d].attached
    BY <1>1 DEF StateChange, IInv, TypeInv, ConnOK, Connection
  <2> QED  BY <1>1, <2>1, SameOwners DEF StateChange, table, cleanup
<1>2. ASSUME NEW c \in Conns, Callback(c)
      PROVE  IInv'
  <2> DEFINE k == conn[c].key
  <2>1. created' = created /\ \A d \in Conns : conn'[d].attached => conn[d].attached
    BY <1>2 DEF Callback, IInv, TypeInv, ConnOK, Connection
  <2>2. CASE UNCHANGED <<peers, byUuid, cleanup>>
    BY <2>1, <2>2, SameOwners DEF cleanup
  <2>3. CASE Live(k) /\ Connected(k)
    <3>1. /\ Superseded(k) \in SUBSET (DOMAIN peers) /\ Retire(Superseded(k))
          /\ DOMAIN peers' = DOMAIN peers \ Superseded(k)
      BY <2>3 DEF Superseded, Connected
    <3>2. \A o \in DOMAIN peers' : peers'[o].conn = peers[o].conn
      BY <2>3, <3>1 DEF Connected, IInv, TypeInv, TableOK, Peer
    <3> QED  BY <2>1, <3>1, <3>2, RetireKeeps
  <2>4. CASE Live(k) /\ Disconnected(k)
    <3>1. DOMAIN peers' = DOMAIN peers /\ \A o \in DOMAIN peers : peers'[o].conn = peers[o].conn
      BY <2>4 DEF Disconnected, IInv, TypeInv, TableOK, Peer
    <3> QED  BY <2>1, <2>4, <3>1, SameOwners DEF Disconnected, cleanup
  <2>5. CASE Live(k) /\ Close({k})
    BY <2>1, <2>5, CloseKeeps DEF Live
  <2> QED  BY <1>2, <2>2, <2>3, <2>4, <2>5 DEF Callback
<1> QED  BY <1>1, <1>2 DEF Callbacks

LEMMA WorkerKeeps ==
  ASSUME IInv, TypeInv', CleanupWorker
  PROVE  IInv'
<1>1. CASE DetachConnection
  <2>1. \A c \in Conns : conn'[c].attached => conn[c].attached
    BY <1>1 DEF DetachConnection, IInv, TypeInv, ConnOK
  <2> QED  BY <1>1, <2>1, SameOwners DEF DetachConnection, table, cleanup
<1>2. CASE WorkerExit
  BY <1>2, SameOwners DEF WorkerExit, table
<1> QED  BY <1>1, <1>2, TakeKeeps, ReleaseKeeps DEF CleanupWorker

LEMMA LifecycleKeeps ==
  ASSUME IInv, TypeInv', Stop \/ Start
  PROVE  IInv'
<1>1. CASE StopMark \/ JoinSignaling \/ StopDone
  BY <1>1, SameOwners DEF StopMark, JoinSignaling, StopDone, table, cleanup
<1>2. CASE ResetAll
  <2>1. DOMAIN peers' = {}
    BY <1>2, EmptyTable DEF ResetAll
  <2>2. DOMAIN peers' = DOMAIN peers \ DOMAIN peers
    BY <2>1
  <2> QED  BY <1>2, <2>1, <2>2, RetireKeeps DEF ResetAll
<1> QED  BY <1>1, <1>2, StartKeeps DEF Stop

LEMMA StepOwned == IInv /\ [Next]_vars => IInv'
<1> SUFFICES ASSUME IInv, [Next]_vars PROVE IInv'
  OBVIOUS
<1>1. TypeInv'
  BY StepTypes DEF IInv
<1>2. CASE UNCHANGED vars
  BY <1>1, <1>2, SameOwners DEF vars, table, cleanup
<1>3. ASSUME NEW m \in Messages, Receive(m)
      PROVE  IInv'
  BY <1>1, <1>3, SameOwners DEF Receive, table, cleanup
<1> QED  BY <1>1, <1>2, <1>3, DispatchKeeps, HandlerStepKeeps, ChannelsKeep, CallbacksKeep,
            WorkerKeeps, LifecycleKeeps DEF Next, Handlers

LEMMA InitOwned == Init => IInv
<1> SUFFICES ASSUME Init PROVE IInv
  OBVIOUS
<1>1. TypeInv
  BY InitTypes
<1>2. /\ DOMAIN peers = {} /\ retired = {} /\ cleaning = NoPeer /\ pending = 0 /\ created = 0
      /\ NoPeer.conn = 0
  BY DEF Init, NoPeer
<1>3. ConnectionsOwned
  <2>1. \A c \in Conns : ~conn[c].attached
    <3>1. \A c \in Conns : conn[c] = NoConn
      BY DEF Init
    <3>2. ~NoConn.attached
      BY Zenon DEF NoConn
    <3> QED  BY <3>1, <3>2, Zenon
  <2> QED  BY <1>2, <2>1 DEF ConnectionsOwned
<1>4. Fresh
  BY <1>2 DEF Fresh
<1>5. Cardinality({}) = 0 /\ IsFiniteSet({})
  BY FS_EmptySet
<1>6. Counted
  BY <1>2, <1>5 DEF Counted, CleanupCounted
<1>7. Bounded
  <2>1. Cardinality(DOMAIN peers) = 0
    BY <1>2, <1>5, Zenon
  <2> QED  BY <1>2, <2>1, BoundAssumption DEF Bounded
<1> QED  BY <1>1, <1>3, <1>4, <1>6, <1>7 DEF IInv

LEMMA Owned == Spec => []IInv
BY InitOwned, StepOwned, PTL DEF Spec

\* Whatever still has callbacks belongs to one peer of the table or to the cleanup
\* worker, pendingPeerCleanup_ counts what the worker has, and neither the table nor
\* both together outgrow their cap: the checks of ensurePeerSession, made before a
\* replaced peer goes into the queue, are enough.
THEOREM ResourcesAreBounded == Spec => []ResourcesBounded
<1>1. IInv => ResourcesBounded
  BY DEF IInv, Counted, Bounded, ResourcesBounded
<1> QED  BY <1>1, Owned, PTL

\* The variables keep their types and pendingPeerCleanup_, an atomic that sections of
\* two locks change, never falls below zero.
THEOREM TypesAreOK == Spec => []TypeOK
<1>1. IInv => TypeOK
  <2> SUFFICES ASSUME IInv PROVE TypeOK
    OBVIOUS
  <2>1. Cardinality(retired) \in Nat
    BY FS_CardinalityType DEF IInv, Counted
  <2>2. pending \in Nat
    BY <2>1 DEF IInv, Counted, CleanupCounted
  <2> QED  BY <2>2 DEF IInv, TypeInv, TypeOK
<1> QED  BY <1>1, Owned, PTL

\* What CandidatesKept says of a step.
KeptBy(k) ==
  peers[k].conn = peers'[k].conn =>
    peers[k].ice \cup conn[peers[k].conn].applied
      \subseteq peers'[k].ice \cup conn'[peers[k].conn].applied
Kept == \A k \in DOMAIN peers \cap DOMAIN peers' : KeptBy(k)

\* A step that neither queues nor delivers candidates of a peer that stays.
LEMMA SameCandidates ==
  ASSUME IInv, \A k \in DOMAIN peers \cap DOMAIN peers' : peers'[k].ice = peers[k].ice,
         \A c \in Conns : c # created + 1 => conn[c].applied \subseteq conn'[c].applied
  PROVE  Kept
<1>1. \A k \in DOMAIN peers : peers[k].conn \in Conns /\ peers[k].conn # created + 1
  BY OwnerFacts DEF IInv, Fresh
<1> QED  BY <1>1 DEF Kept, KeptBy

\* The new peer has a connection of its own, and the others keep what they have.
LEMMA CreateCandidates ==
  ASSUME IInv, NEW key, NEW stream, NEW dc, Create(key, stream, dc)
  PROVE  Kept
<1>1. \A k \in DOMAIN peers \cap DOMAIN peers' : peers'[k] = peers[k]
  BY DEF Create, Live
<1>2. \A c \in Conns : c # created + 1 => conn'[c] = conn[c]
  BY DEF Create, IInv, TypeInv, ConnOK
<1> QED  BY <1>1, <1>2, SameCandidates

LEMMA RefuseCandidates ==
  ASSUME IInv, NEW key, Refuse(key)
  PROVE  Kept
<1>1. conn' = conn /\ \A k \in DOMAIN peers \cap DOMAIN peers' : peers'[k] = peers[k]
  BY DEF Refuse, Close
<1> QED  BY <1>1, SameCandidates

\* A candidate is queued at the peer or handed to its connection; what was there stays.
LEMMA QueueCandidates ==
  ASSUME IInv, NEW k \in DOMAIN peers, NEW i, QueueOrApply(k, i)
  PROVE  Kept
<1> DEFINE c == peers[k].conn
<1>1. c \in Conns
  BY OwnerFacts DEF IInv
<1>2. ASSUME NEW a, peers[k].ice \subseteq a, peers' = [peers EXCEPT ![k].ice = a], conn' = conn
      PROVE  Kept
  BY <1>2 DEF Kept, KeptBy, IInv, TypeInv, TableOK, Peer
<1>3. ASSUME NEW a, conn[c].applied \subseteq a, conn' = [conn EXCEPT ![c].applied = a],
             peers' = peers
      PROVE  Kept
  <2>1. \A d \in Conns : conn[d].applied \subseteq conn'[d].applied
    BY <1>1, <1>3 DEF IInv, TypeInv, ConnOK, Connection
  <2> QED  BY <1>3, <2>1, SameCandidates
<1>4. CASE /\ conn' = conn
           /\ peers' = [peers EXCEPT ![k].ice =
                    IF Cardinality(@) < MaxPendingIce THEN @ \cup {i} ELSE @]
  <2> DEFINE a == IF Cardinality(peers[k].ice) < MaxPendingIce THEN peers[k].ice \cup {i}
                                                              ELSE peers[k].ice
  <2>1. peers[k].ice \subseteq a
    OBVIOUS
  <2> QED  BY <1>2, <1>4, <2>1, Zenon
<1>5. CASE /\ peers' = peers
           /\ conn' = [conn EXCEPT ![c].applied = IF conn[c].remote THEN @ \cup {i} ELSE @]
  <2> DEFINE a == IF conn[c].remote THEN conn[c].applied \cup {i} ELSE conn[c].applied
  <2>1. conn[c].applied \subseteq a
    OBVIOUS
  <2> QED  BY <1>3, <1>5, <2>1, Zenon
<1> QED  BY <1>4, <1>5 DEF QueueOrApply

\* flushPendingIceLocked: what leaves the queue of the peer has reached the connection.
LEMMA FinishCandidates ==
  ASSUME IInv, NEW t \in Threads, FinishDescription(t)
  PROVE  Kept
<1> DEFINE key == hnd[t].key
           p == peers[key]
           rest == p.ice \ Delivered(p)
<1>1. CASE UNCHANGED <<peers, conn>>
  BY <1>1, SameCandidates
<1>2. CASE Live(key)
  <2>1. p.conn \in Conns /\ key \in DOMAIN peers
    BY <1>2, OwnerFacts DEF IInv, Live
  <2>2. ASSUME NEW b \in BOOLEAN, NEW a, NEW r,
               peers' = [peers EXCEPT ![key].described = b, ![key].ice = a, ![key].ready = r]
        PROVE  /\ peers'[key].ice = a
               /\ \A k \in DOMAIN peers : k # key => peers'[k] = peers[k]
    BY <2>1, <2>2 DEF IInv, TypeInv, TableOK, Peer
  <2>3. /\ peers' = [peers EXCEPT ![key].described = TRUE, ![key].ice = rest,
                            ![key].ready = @ \/ (rest = {} /\ hnd[t].msg.kind = "answer")]
        /\ conn' = [conn EXCEPT ![p.conn].applied = @ \cup Delivered(p)]
    BY <1>2 DEF FinishDescription
  <2> HIDE DEF rest
  <2>4. peers'[key].ice = rest /\ \A k \in DOMAIN peers : k # key => peers'[k] = peers[k]
    BY <2>2, <2>3, Zenon
  <2>5. \A c \in Conns : conn[c].applied \subseteq conn'[c].applied
    BY <2>3 DEF IInv, TypeInv, ConnOK, Connection
  <2>6. Delivered(p) \subseteq conn'[p.conn].applied
    BY <2>1, <2>3 DEF IInv, TypeInv, ConnOK, Connection
  <2>7. \A k \in DOMAIN peers : peers[k].conn \in Conns
    BY OwnerFacts DEF IInv
  <2>8. p.ice \subseteq rest \cup Delivered(p)
    BY DEF rest
  <2>9. ASSUME NEW k \in DOMAIN peers
        PROVE  KeptBy(k)
    <3>1. CASE k = key
      BY <2>1, <2>4, <2>5, <2>6, <2>8, <3>1 DEF KeptBy
    <3>2. CASE k # key
      BY <2>4, <2>5, <2>7, <3>2 DEF KeptBy
    <3> QED  BY <3>1, <3>2
  <2> QED  BY <2>9 DEF Kept
<1> QED  BY <1>1, <1>2 DEF FinishDescription

LEMMA DispatchCandidates ==
  ASSUME IInv, NEW t \in Threads, Dispatch(t)
  PROVE  Kept
<1> DEFINE m == hnd[t].msg
           key == KeyOf(m)
<1>1. ASSUME NEW k, NEW b \in BOOLEAN, NEW s, conn' = conn,
             \/ peers' = [peers EXCEPT ![k].stream = s]
             \/ peers' = [peers EXCEPT ![k].stream = s, ![k].ready = b]
      PROVE  Kept
  <2>1. \A o \in DOMAIN peers : peers'[o].ice = peers[o].ice
    BY <1>1 DEF IInv, TypeInv, TableOK, Peer
  <2> QED  BY <1>1, <2>1, SameCandidates
<1>2. CASE UNCHANGED <<peers, conn>>
  BY <1>2, SameCandidates
<1>3. CASE HandleOfferRequest(t, m)
  BY <1>3, CreateCandidates, RefuseCandidates DEF HandleOfferRequest
<1>4. CASE HandleOffer(t, m)
  <2>1. CASE /\ peers' = [peers EXCEPT ![key].stream = Named(m.stream, @), ![key].ready = FALSE]
             /\ conn' = conn
    BY <1>1, <2>1, Zenon
  <2> QED  BY <1>4, <2>1, CreateCandidates, RefuseCandidates DEF HandleOffer
<1>5. CASE HandleAnswer(t, m)
  <2>1. ASSUME NEW k, peers' = [peers EXCEPT ![k].stream = Named(m.stream, @)], conn' = conn
        PROVE  Kept
    BY <1>1, <2>1, Zenon
  <2> QED  BY <1>2, <1>5, <2>1 DEF HandleAnswer
<1>6. CASE HandleCandidate(t, m)
  <2>1. ASSUME NEW k \in Located(m), NEW i, QueueOrApply(k, i)
        PROVE  Kept
    BY <2>1, QueueCandidates DEF Located, Live
  <2> QED  BY <1>2, <1>6, <2>1 DEF HandleCandidate
<1>7. CASE HandleSignalingLost(t)
  BY <1>2, <1>7 DEF HandleSignalingLost
<1> QED  BY <1>3, <1>4, <1>5, <1>6, <1>7 DEF Dispatch

\* The steps of the other threads handle no candidates.
LEMMA OtherCandidates ==
  ASSUME IInv, Channels \/ Callbacks \/ CleanupWorker \/ Stop \/ Start
  PROVE  Kept
<1>1. ASSUME NEW t \in DcThreads, NEW c \in Conns, NEW m \in DcMessages, DcMessage(t, c, m)
      PROVE  Kept
  <2>1. PICK key : \/ Live(key) /\ peers' = [peers EXCEPT ![key].dc = c] /\ conn' = conn
                   \/ Create(key, OwnStream, c)
                   \/ Refuse(key)
    BY <1>1 DEF DcMessage
  <2>2. CASE Live(key) /\ peers' = [peers EXCEPT ![key].dc = c] /\ conn' = conn
    <3>1. \A o \in DOMAIN peers : peers'[o].ice = peers[o].ice
      BY <2>2 DEF IInv, TypeInv, TableOK, Peer
    <3> QED  BY <2>2, <3>1, SameCandidates
  <2> QED  BY <2>1, <2>2, CreateCandidates, RefuseCandidates
<1>2. ASSUME NEW c \in Conns, DcOpen(c)
      PROVE  Kept
  <2>1. \A o \in DOMAIN peers : peers'[o].ice = peers[o].ice
    BY <1>2 DEF DcOpen, IInv, TypeInv, TableOK, Peer
  <2>2. \A d \in Conns : conn'[d].applied = conn[d].applied
    BY <1>2 DEF DcOpen, IInv, TypeInv, ConnOK, Connection
  <2> QED  BY <2>1, <2>2, SameCandidates
<1>3. ASSUME NEW c \in Conns, NEW e \in Events, StateChange(c, e)
      PROVE  Kept
  <2>1. \A d \in Conns : conn'[d].applied = conn[d].applied
    BY <1>3 DEF StateChange, IInv, TypeInv, ConnOK, Connection
  <2> QED  BY <1>3, <2>1, SameCandidates DEF StateChange, table
<1>4. ASSUME NEW c \in Conns, Callback(c)
      PROVE  Kept
  <2> DEFINE k == conn[c].key
  <2>1. \A d \in Conns : conn'[d].applied = conn[d].applied
    BY <1>4 DEF Callback, IInv, TypeInv, ConnOK, Connection
  <2>2. \A o \in DOMAIN peers \cap DOMAIN peers' : peers'[o].ice = peers[o].ice
    <3>1. CASE Connected(k)
      BY <3>1 DEF Connected, IInv, TypeInv, TableOK, Peer
    <3>2. CASE Disconnected(k)
      BY <3>2 DEF Disconnected, IInv, TypeInv, TableOK, Peer
    <3>3. CASE Close({k})
      BY <3>3 DEF Close
    <3> QED  BY <1>4, <3>1, <3>2, <3>3 DEF Callback
  <2> QED  BY <2>1, <2>2, SameCandidates
<1>5. CASE CleanupWorker
  <2>1. peers' = peers
    BY <1>5 DEF CleanupWorker, TakeRetired, DetachConnection, ReleasePeer, WorkerExit, table
  <2>2. \A d \in Conns : conn'[d].applied = conn[d].applied
    BY <1>5 DEF CleanupWorker, TakeRetired, DetachConnection, ReleasePeer, WorkerExit, IInv,
                TypeInv, ConnOK, Connection
  <2> QED  BY <2>1, <2>2, SameCandidates
<1>6. CASE Stop \/ Start
  <2>1. CASE ResetAll \/ Start
    <3>1. DOMAIN peers' = {}
      BY <2>1, EmptyTable DEF ResetAll, Start
    <3> QED  BY <3>1 DEF Kept
  <2>2. CASE StopMark \/ JoinSignaling \/ StopDone
    BY <2>2, SameCandidates DEF StopMark, JoinSignaling, StopDone, table
  <2> QED  BY <1>6, <2>1, <2>2 DEF Stop
<1> QED  BY <1>1, <1>2, <1>3, <1>4, <1>5, <1>6 DEF Channels, Callbacks

LEMMA StepKept == IInv /\ [Next]_vars => [Kept]_vars
<1> SUFFICES ASSUME IInv, Next PROVE Kept
  OBVIOUS
<1>1. ASSUME NEW m \in Messages, Receive(m)
      PROVE  Kept
  BY <1>1, SameCandidates DEF Receive, table
<1>2. ASSUME NEW t \in Threads, ApplyRemote(t)
      PROVE  Kept
  <2>1. \A d \in Conns : conn'[d].applied = conn[d].applied
    BY <1>2 DEF ApplyRemote, IInv, TypeInv, ConnOK, Connection
  <2> QED  BY <1>2, <2>1, SameCandidates DEF ApplyRemote, table
<1> QED  BY <1>1, <1>2, DispatchCandidates, FinishCandidates, OtherCandidates DEF Next, Handlers

\* A candidate accepted for a peer is never lost while the peer has its connection: it
\* waits in the queue until flushPendingIceLocked hands it over, in whatever gap of the
\* negotiation it came, in either mode.
THEOREM NoCandidateIsLost == Spec => CandidatesKept
<1>1. IInv /\ [Next]_vars => [Kept]_vars
  BY StepKept
<1> QED  BY <1>1, Owned, PTL DEF Spec, CandidatesKept, Kept, KeptBy

-----------------------------------------------------------------------------
(* What the table promises in each of its modes. Nobody sends a publisher    *)
(* messages over a datachannel, so its handlers all run on the thread of the *)
(* WebSocket, which stop() joins. A Play session hears datachannels, but     *)
(* gets no answers: it makes no offers.                                      *)

\* No datachannel delivers anything.
NoChannels == /\ \A c \in Conns : ~conn[c].listens
              /\ \A t \in DcThreads : hnd[t].pc = "idle"

\* How far stop() has come: no handler, then no peer, then no retired peer.
Quiet == life \in {"joined", "draining", "stopped"} => \A t \in Threads : hnd[t].pc = "idle"
Emptied == life \in {"draining", "stopped"} => peers = <<>>
Drained == /\ worker = "exited" =>
                life \in {"draining", "stopped"} /\ retired = {} /\ cleaning = NoPeer
           /\ life = "stopped" => worker = "exited"
Shut == NoChannels /\ Quiet /\ Emptied /\ Drained

\* A handler between two sections works on the connection of the peer it will look up.
Negotiating ==
  LET h == hnd["ix"] IN
  /\ h.pc \in {"apply", "finish"} =>
       h.conn \in Conns /\ (h.key \in DOMAIN peers => peers[h.key].conn = h.conn)
  /\ h.pc = "finish" => conn[h.conn].remote

Settled == \A k \in DOMAIN peers :
             peers[k].described => peers[k].ice = {} /\ conn[peers[k].conn].remote
Waiting == \A i \in globalIce, k \in DOMAIN peers : i.uuid = k[1] => i.sess \notin {Blank, k[2]}

PInv == IInv /\ TableConsistent /\ Shut /\ Negotiating /\ Settled /\ Waiting

\* Handlers run on the one thread, and only while stop() still waits for it.
LEMMA OnlyIx ==
  ASSUME PInv, NEW t \in Threads, hnd[t].pc # "idle"
  PROVE  t = "ix" /\ life \in {"running", "stopping"} /\ worker = "running"
<1>1. t = "ix"
  BY DEF PInv, Shut, NoChannels, Threads
<1>2. life \in {"running", "stopping"}
  BY DEF PInv, Shut, Quiet, IInv, TypeInv, CountersOK
<1>3. worker = "running"
  BY <1>2 DEF PInv, Shut, Drained, IInv, TypeInv, CleanupOK
<1> QED  BY <1>1, <1>2, <1>3

LEMMA NoDatachannels ==
  ASSUME Mode = "publish", PInv
  PROVE  ~Channels
<1>1. ASSUME NEW c \in Conns
      PROVE  ~DcOpen(c)
  BY DEF DcOpen
<1>2. ASSUME NEW t \in DcThreads, NEW c \in Conns, NEW m \in DcMessages
      PROVE  ~DcMessage(t, c, m)
  BY DEF DcMessage, PInv, Shut, NoChannels
<1> QED  BY <1>1, <1>2 DEF Channels

\* A step of a handler, as far as stopping is concerned.
LEMMA HandlerShut ==
  ASSUME PInv, life \in {"running", "stopping"}, life' = life, worker = "running", worker' = worker,
         \A t \in DcThreads : hnd'[t] = hnd[t],
         \A c \in Conns : conn'[c].listens => conn[c].listens
  PROVE  Shut'
BY DEF PInv, Shut, NoChannels, Quiet, Emptied, Drained

\* A step that ends no handler's gap: peers and candidates only go.
LEMMA LessNegotiated ==
  ASSUME PInv, hnd'["ix"] = hnd["ix"] \/ hnd'["ix"].pc \in {"idle", "dispatch"},
         \A k \in DOMAIN peers' :
           /\ k \in DOMAIN peers /\ peers'[k].conn = peers[k].conn
           /\ peers'[k].described = peers[k].described /\ peers'[k].ice = peers[k].ice,
         \A c \in Conns : conn[c].remote => conn'[c].remote,
         globalIce' \subseteq globalIce
  PROVE  Negotiating' /\ Settled' /\ Waiting'
<1>1. \A k \in DOMAIN peers : peers[k].conn \in Conns
  BY OwnerFacts DEF PInv, IInv
<1>2. Negotiating'
  BY DEF PInv, Negotiating
<1>3. Settled'
  BY <1>1 DEF PInv, Settled
<1>4. Waiting'
  BY DEF PInv, Waiting
<1> QED  BY <1>2, <1>3, <1>4

\* A peer that is created has no description yet, takes its candidates out of the
\* global queue, and a connection nobody worked on.
LEMMA CreateNegotiated ==
  ASSUME PInv, NEW key, NEW stream, NEW dc, Create(key, stream, dc),
         \/ hnd'["ix"].pc \in {"idle", "dispatch"}
         \/ /\ hnd'["ix"].pc = "apply" /\ hnd'["ix"].conn = created + 1 /\ created + 1 \in Conns
            /\ hnd'["ix"].key = key
  PROVE  Negotiating' /\ Settled' /\ Waiting'
<1>1. /\ DOMAIN peers' = (DOMAIN peers \ Replaced(key)) \cup {key}
      /\ \A k \in DOMAIN peers' : peers'[k] = IF k = key THEN NewPeer(key, stream, dc) ELSE peers[k]
      /\ globalIce' = globalIce \ Matching(key)
  BY DEF Create
<1>2. NewPeer(key, stream, dc).conn = created + 1
  BY DEF NewPeer
<1>3. ~NewPeer(key, stream, dc).described
  BY Zenon DEF NewPeer
<1>4. Negotiating'
  BY <1>1, <1>2 DEF Negotiating
<1>5. Settled'
  <2>1. ASSUME NEW k \in DOMAIN peers', peers'[k].described
        PROVE  peers'[k].ice = {} /\ conn'[peers'[k].conn].remote
    <3>1. k # key
      BY <1>1, <1>3, <2>1
    <3>2. k \in DOMAIN peers /\ peers'[k] = peers[k]
      BY <1>1, <3>1
    <3>3. peers[k].conn \in Conns /\ peers[k].conn \in Nat /\ peers[k].conn <= created /\ created \in Nat
      BY <3>2, OwnerFacts DEF PInv, IInv, Fresh
    <3>4. conn'[peers[k].conn] = conn[peers[k].conn]
      BY <3>3 DEF Create, PInv, IInv, TypeInv, ConnOK
    <3> QED  BY <2>1, <3>2, <3>4 DEF PInv, Settled
  <2> QED  BY <2>1 DEF Settled
<1>6. Waiting'
  BY <1>1 DEF PInv, Waiting, Matching, TypeInv
<1> QED  BY <1>4, <1>5, <1>6

LEMMA RefuseNegotiated ==
  ASSUME PInv, NEW key, Refuse(key), hnd'["ix"].pc \in {"idle", "dispatch"}
  PROVE  Negotiating' /\ Settled' /\ Waiting'
<1>1. conn' = conn /\ globalIce' = globalIce
  BY DEF Refuse
<1>2. \A k \in DOMAIN peers' : k \in DOMAIN peers /\ peers'[k] = peers[k]
  BY DEF Refuse, Close
<1> QED  BY <1>1, <1>2, LessNegotiated

\* What a handler leaves alone on the other threads.
LEMMA ReturnFacts ==
  ASSUME PInv, Return("ix")
  PROVE  hnd'["ix"].pc = "idle" /\ \A t \in DcThreads : hnd'[t] = hnd[t]
BY IdAssumption DEF Return, Idle, PInv, IInv, TypeInv, HandlersOK, Threads

LEMMA ApplyingFacts ==
  ASSUME PInv, NEW kind, NEW key, NEW c, Applying("ix", kind, key, c)
  PROVE  /\ hnd'["ix"].pc = "apply" /\ hnd'["ix"].key = key /\ hnd'["ix"].conn = c
         /\ \A t \in DcThreads : hnd'[t] = hnd[t]
BY IdAssumption DEF Applying, PInv, IInv, TypeInv, HandlersOK, Threads

\* A section that goes on to apply a description to the connection of a peer.
LEMMA BeginNegotiated ==
  ASSUME PInv, NEW k \in DOMAIN peers, NEW kind, Applying("ix", kind, k, peers[k].conn),
         DOMAIN peers' = DOMAIN peers,
         \A o \in DOMAIN peers : /\ peers'[o].conn = peers[o].conn /\ peers'[o].ice = peers[o].ice
                                 /\ peers'[o].described = peers[o].described,
         conn' = conn, globalIce' = globalIce
  PROVE  Negotiating' /\ Settled' /\ Waiting'
<1>1. peers[k].conn \in Conns
  BY OwnerFacts DEF PInv, IInv
<1>2. Negotiating'
  BY <1>1, ApplyingFacts DEF Negotiating
<1>3. Settled' /\ Waiting'
  BY DEF PInv, Settled, Waiting
<1> QED  BY <1>2, <1>3

\* The queue of a peer is only for before its description.
LEMMA CandidateNegotiated ==
  ASSUME PInv, NEW k \in DOMAIN peers, NEW i, QueueOrApply(k, i), globalIce' = globalIce,
         hnd'["ix"].pc = "idle"
  PROVE  Negotiating' /\ Settled' /\ Waiting'
<1>1. Negotiating'
  BY DEF Negotiating
<1>2. /\ DOMAIN peers' = DOMAIN peers
      /\ \A o \in DOMAIN peers : peers'[o].conn = peers[o].conn
  BY CandidatesMove DEF PInv, IInv
<1>3. \A o \in DOMAIN peers : /\ peers'[o].described => peers[o].described
                              /\ peers'[o].described => peers'[o].ice = peers[o].ice
  <2>1. ASSUME NEW a, ~peers[k].described, peers' = [peers EXCEPT ![k].ice = a]
        PROVE  \A o \in DOMAIN peers : /\ peers'[o].described => peers[o].described
                                       /\ peers'[o].described => peers'[o].ice = peers[o].ice
    BY <2>1 DEF PInv, IInv, TypeInv, TableOK, Peer
  <2>2. CASE ~peers[k].described /\ peers' = [peers EXCEPT ![k].ice =
                    IF Cardinality(@) < MaxPendingIce THEN @ \cup {i} ELSE @]
    BY <2>1, <2>2, Zenon
  <2>3. CASE peers' = peers
    BY <2>3
  <2> QED  BY <2>2, <2>3 DEF QueueOrApply
<1>4. \A c \in Conns : conn[c].remote => conn'[c].remote
  <2>1. ASSUME NEW a, conn' = [conn EXCEPT ![peers[k].conn].applied = a]
        PROVE  \A c \in Conns : conn[c].remote => conn'[c].remote
    BY <2>1 DEF PInv, IInv, TypeInv, ConnOK, Connection
  <2>2. CASE conn' = [conn EXCEPT ![peers[k].conn].applied =
                        IF conn[peers[k].conn].remote THEN @ \cup {i} ELSE @]
    BY <2>1, <2>2, Zenon
  <2>3. CASE conn' = conn
    BY <2>3
  <2> QED  BY <2>2, <2>3 DEF QueueOrApply
<1>5. \A o \in DOMAIN peers : peers[o].conn \in Conns
  BY OwnerFacts DEF PInv, IInv
<1>6. Settled' /\ Waiting'
  BY <1>2, <1>3, <1>4, <1>5 DEF PInv, Settled, Waiting
<1> QED  BY <1>1, <1>6

LEMMA DispatchPublish ==
  ASSUME PInv, NEW t \in Threads, Dispatch(t)
  PROVE  Shut' /\ Negotiating' /\ Settled' /\ Waiting'
<1> DEFINE m == hnd[t].msg
<1>1. t = "ix" /\ life \in {"running", "stopping"} /\ worker = "running" /\ life' = life
  BY OnlyIx DEF Dispatch
<1>2. \A key, stream, dc : Create(key, stream, dc) =>
        worker' = worker /\ \A c \in Conns : conn'[c].listens => conn[c].listens
  <2>1. ASSUME NEW key, NEW stream, NEW dc, Create(key, stream, dc)
        PROVE  \A c \in Conns : conn'[c].listens => conn[c].listens
    <3>1. ~NewConn(key).listens
      BY Zenon DEF NewConn
    <3>2. ASSUME NEW c \in Conns, NEW n, conn' = [conn EXCEPT ![n] = NewConn(key)]
          PROVE  conn'[c] = NewConn(key) \/ conn'[c] = conn[c]
      BY <3>2 DEF PInv, IInv, TypeInv, ConnOK
    <3>3. conn' = [conn EXCEPT ![created + 1] = NewConn(key)]
      BY <2>1 DEF Create
    <3> SUFFICES ASSUME NEW c \in Conns, conn'[c].listens
                 PROVE  conn[c].listens
      OBVIOUS
    <3>4. conn'[c] = NewConn(key) \/ conn'[c] = conn[c]
      BY <3>2, <3>3, Zenon
    <3>5. conn'[c] # NewConn(key)
      BY <3>1, Zenon
    <3>6. conn'[c] = conn[c]
      BY <3>4, <3>5, Zenon
    <3> QED  BY <3>6
  <2>2. ASSUME NEW key, NEW stream, NEW dc, Create(key, stream, dc)
        PROVE  worker' = worker
    BY <2>2 DEF Create, Retire
  <2> QED  BY <2>1, <2>2, Zenon
<1>3. \A key : Refuse(key) => worker' = worker /\ conn' = conn
  BY DEF Refuse, Close, Retire, cleanup
<1>4. CASE HandleOfferRequest(t, m)
  <2>1. hnd'["ix"].pc = "idle" /\ \A d \in DcThreads : hnd'[d] = hnd[d]
    BY <1>1, <1>4, ReturnFacts DEF HandleOfferRequest
  <2> QED  BY <1>1, <1>2, <1>3, <1>4, <2>1, HandlerShut, CreateNegotiated, RefuseNegotiated
           DEF HandleOfferRequest
<1>5. CASE HandleOffer(t, m)
  <2> DEFINE key == KeyOf(m)
  <2>1. CASE /\ Live(key)
             /\ peers' = [peers EXCEPT ![key].stream = Named(m.stream, @), ![key].ready = FALSE]
             /\ Applying(t, "offer", key, peers[key].conn)
             /\ UNCHANGED <<byUuid, globalIce, cleanup, conn, created>>
    <3>1. \A b \in BOOLEAN : \A s : peers' = [peers EXCEPT ![key].stream = s, ![key].ready = b] =>
            /\ DOMAIN peers' = DOMAIN peers
            /\ \A o \in DOMAIN peers : /\ peers'[o].conn = peers[o].conn
                                       /\ peers'[o].ice = peers[o].ice
                                       /\ peers'[o].described = peers[o].described
      BY DEF PInv, IInv, TypeInv, TableOK, Peer
    <3>2. /\ DOMAIN peers' = DOMAIN peers
          /\ \A o \in DOMAIN peers : /\ peers'[o].conn = peers[o].conn
                                     /\ peers'[o].ice = peers[o].ice
                                     /\ peers'[o].described = peers[o].described
      BY <2>1, <3>1, Zenon
    <3>3. \A d \in DcThreads : hnd'[d] = hnd[d]
      BY <1>1, <2>1, ApplyingFacts
    <3>4. worker' = worker /\ conn' = conn /\ globalIce' = globalIce /\ key \in DOMAIN peers
      BY <2>1 DEF cleanup, Live
    <3>5. Shut'
      BY <1>1, <3>3, <3>4, HandlerShut
    <3> QED  BY <1>1, <2>1, <3>2, <3>4, <3>5, BeginNegotiated
  <2>2. CASE Create(key, Named(m.stream, OwnStream), 0) /\ Applying(t, "offer", key, created + 1)
    <3>1. /\ hnd'["ix"].pc = "apply" /\ hnd'["ix"].key = key /\ hnd'["ix"].conn = created + 1
          /\ \A d \in DcThreads : hnd'[d] = hnd[d]
      BY <1>1, <2>2, ApplyingFacts
    <3>2. created + 1 \in Conns
      BY <2>2, BoundAssumption DEF Create, Conns, PInv, IInv, TypeInv, CountersOK
    <3> QED  BY <1>1, <1>2, <2>2, <3>1, <3>2, HandlerShut, CreateNegotiated
  <2>3. CASE Refuse(key) /\ Return(t)
    <3>1. hnd'["ix"].pc = "idle" /\ \A d \in DcThreads : hnd'[d] = hnd[d]
      BY <1>1, <2>3, ReturnFacts
    <3> QED  BY <1>1, <1>3, <2>3, <3>1, HandlerShut, RefuseNegotiated
  <2> QED  BY <1>5, <2>1, <2>2, <2>3 DEF HandleOffer
<1>6. CASE HandleAnswer(t, m)
  <2>1. UNCHANGED <<byUuid, globalIce, cleanup, conn, created, received>> /\ worker' = worker
    BY <1>6 DEF HandleAnswer, cleanup
  <2>2. ASSUME NEW k \in Located(m), peers' = [peers EXCEPT ![k].stream = Named(m.stream, @)],
               Applying(t, "answer", k, peers[k].conn)
        PROVE  Shut' /\ Negotiating' /\ Settled' /\ Waiting'
    <3>1. k \in DOMAIN peers
      BY DEF Located, Live
    <3>2. \A s : peers' = [peers EXCEPT ![k].stream = s] =>
            /\ DOMAIN peers' = DOMAIN peers
            /\ \A o \in DOMAIN peers : /\ peers'[o].conn = peers[o].conn
                                       /\ peers'[o].ice = peers[o].ice
                                       /\ peers'[o].described = peers[o].described
      BY DEF PInv, IInv, TypeInv, TableOK, Peer
    <3>3. /\ DOMAIN peers' = DOMAIN peers
          /\ \A o \in DOMAIN peers : /\ peers'[o].conn = peers[o].conn
                                     /\ peers'[o].ice = peers[o].ice
                                     /\ peers'[o].described = peers[o].described
      BY <2>2, <3>2, Zenon
    <3>4. Shut'
      BY <1>1, <2>1, <2>2, ApplyingFacts, HandlerShut
    <3> QED  BY <1>1, <2>1, <2>2, <3>1, <3>3, <3>4, BeginNegotiated
  <2>3. CASE Return(t) /\ UNCHANGED peers
    <3>1. hnd'["ix"].pc = "idle" /\ \A d \in DcThreads : hnd'[d] = hnd[d]
      BY <1>1, <2>3, ReturnFacts
    <3> QED  BY <1>1, <2>1, <2>3, <3>1, HandlerShut, LessNegotiated
  <2> QED  BY <1>6, <2>2, <2>3 DEF HandleAnswer
<1>7. CASE HandleCandidate(t, m) /\ m.kind = "candidate"
  <2> DEFINE i == [n |-> m.n, uuid |-> m.uuid, sess |-> m.sess]
  <2>1. /\ hnd'["ix"].pc = "idle" /\ worker' = worker
        /\ \A d \in DcThreads : hnd'[d] = hnd[d]
    BY <1>1, <1>7, ReturnFacts DEF HandleCandidate, cleanup
  <2>2. CASE Located(m) = {} /\ QueueGlobally(i) /\ UNCHANGED <<peers, conn>>
    <3>1. Shut'
      BY <1>1, <2>1, <2>2, HandlerShut
    <3>2. Negotiating' /\ Settled'
      BY <2>1, <2>2 DEF Negotiating, PInv, Settled
    <3>3. \A k \in DOMAIN peers : k[1] # m.uuid
      BY <2>2 DEF Located, PInv, TableConsistent
    <3>4. globalIce' \subseteq globalIce \cup {i} /\ i.uuid = m.uuid
      BY <2>2 DEF QueueGlobally
    <3>5. Waiting'
      BY <2>2, <3>3, <3>4 DEF PInv, Waiting
    <3> QED  BY <3>1, <3>2, <3>5
  <2>3. ASSUME NEW k \in Located(m), QueueOrApply(k, i), globalIce' = globalIce
        PROVE  Shut' /\ Negotiating' /\ Settled' /\ Waiting'
    <3>1. k \in DOMAIN peers
      BY DEF Located, Live
    <3>2. \A c \in Conns : conn'[c].listens => conn[c].listens
      <4>1. ASSUME NEW a, conn' = [conn EXCEPT ![peers[k].conn].applied = a]
            PROVE  \A c \in Conns : conn'[c].listens => conn[c].listens
        BY <4>1 DEF PInv, IInv, TypeInv, ConnOK, Connection
      <4>2. CASE conn' = [conn EXCEPT ![peers[k].conn].applied =
                            IF conn[peers[k].conn].remote THEN @ \cup {i} ELSE @]
        BY <4>1, <4>2, Zenon
      <4>3. CASE conn' = conn
        BY <4>3
      <4> QED  BY <2>3, <4>2, <4>3 DEF QueueOrApply
    <3>3. Shut'
      BY <1>1, <2>1, <3>2, HandlerShut
    <3> QED  BY <2>1, <2>3, <3>1, <3>3, CandidateNegotiated
  <2> QED  BY <1>7, <2>2, <2>3 DEF HandleCandidate
<1>8. CASE HandleSignalingLost(t)
  <2>1. hnd'["ix"].pc = "idle" /\ \A d \in DcThreads : hnd'[d] = hnd[d]
    BY <1>1, <1>8, ReturnFacts DEF HandleSignalingLost
  <2>2. peers' = peers /\ conn' = conn /\ worker' = worker /\ globalIce' \subseteq globalIce
    BY <1>8 DEF HandleSignalingLost, cleanup
  <2> QED  BY <1>1, <2>1, <2>2, HandlerShut, LessNegotiated
<1> QED  BY <1>4, <1>5, <1>6, <1>7, <1>8 DEF Dispatch

LEMMA ReceivePublish ==
  ASSUME PInv, NEW m, Receive(m)
  PROVE  Shut' /\ Negotiating' /\ Settled' /\ Waiting'
<1>1. /\ life = "running" /\ life' = life /\ worker' = worker /\ conn' = conn
      /\ peers' = peers /\ globalIce' = globalIce
      /\ hnd' = [hnd EXCEPT !["ix"] = Dispatching(m, 0)]
  BY DEF Receive, table, cleanup
<1>2. hnd'["ix"].pc = "dispatch" /\ \A t \in DcThreads : hnd'[t] = hnd[t]
  BY <1>1, IdAssumption DEF Dispatching, PInv, IInv, TypeInv, HandlersOK, Threads
<1>3. worker = "running"
  BY <1>1 DEF PInv, Shut, Drained, IInv, TypeInv, CleanupOK
<1>4. Shut'
  BY <1>1, <1>2, <1>3, HandlerShut
<1> QED  BY <1>1, <1>2, <1>4, LessNegotiated

\* The library has applied the description: the connection knows it.
LEMMA ApplyPublish ==
  ASSUME PInv, NEW t \in Threads, ApplyRemote(t)
  PROVE  Shut' /\ Negotiating' /\ Settled' /\ Waiting'
<1> DEFINE c == hnd["ix"].conn
<1>1. /\ t = "ix" /\ life \in {"running", "stopping"} /\ worker = "running" /\ worker' = worker
      /\ life' = life /\ peers' = peers /\ globalIce' = globalIce
  BY OnlyIx DEF ApplyRemote, table, cleanup
<1>2. CASE Return(t) /\ UNCHANGED conn
  <2>1. hnd'["ix"].pc = "idle" /\ \A d \in DcThreads : hnd'[d] = hnd[d]
    BY <1>1, <1>2, ReturnFacts
  <2>2. Shut'
    BY <1>1, <1>2, <2>1, HandlerShut
  <2> QED  BY <1>1, <1>2, <2>1, <2>2, LessNegotiated
<1>3. CASE /\ conn' = [conn EXCEPT ![hnd[t].conn].remote = TRUE] /\ hnd[t].pc = "apply"
           /\ (hnd' = [hnd EXCEPT ![t].pc = "finish"] \/ Return(t))
  <2>1. c \in Conns /\ \A d \in DcThreads : hnd'[d] = hnd[d]
    BY <1>1, <1>3, IdAssumption, ReturnFacts DEF PInv, Negotiating, IInv, TypeInv, HandlersOK, Threads
  <2>2. ASSUME NEW b \in BOOLEAN, conn' = [conn EXCEPT ![c].remote = b]
        PROVE  /\ conn'[c].remote = b /\ \A d \in Conns : d # c => conn'[d] = conn[d]
               /\ conn'[c].listens = conn[c].listens
    BY <2>1, <2>2 DEF PInv, IInv, TypeInv, ConnOK, Connection
  <2>3. conn' = [conn EXCEPT ![c].remote = TRUE]
    BY <1>1, <1>3
  <2>4. /\ conn'[c].remote = TRUE /\ \A d \in Conns : d # c => conn'[d] = conn[d]
        /\ conn'[c].listens = conn[c].listens
    BY <2>2, <2>3, Zenon
  <2>5. \A d \in Conns : conn'[d].listens => conn[d].listens
    BY <2>4
  <2>6. \A d \in Conns : conn[d].remote => conn'[d].remote
    BY <2>4
  <2>7. Shut'
    BY <1>1, <2>1, <2>5, HandlerShut
  <2>8. Negotiating'
    <3>1. CASE hnd' = [hnd EXCEPT ![t].pc = "finish"]
      <4>1. hnd'["ix"].conn = c /\ hnd'["ix"].key = hnd["ix"].key
        BY <1>1, <3>1, IdAssumption DEF PInv, IInv, TypeInv, HandlersOK, Threads
      <4> QED  BY <1>1, <1>3, <2>1, <2>4, <4>1 DEF PInv, Negotiating
    <3>2. CASE Return(t)
      <4>1. hnd'["ix"].pc = "idle"
        BY <1>1, <3>2, ReturnFacts
      <4> QED  BY <4>1 DEF Negotiating
    <3> QED  BY <1>3, <3>1, <3>2
  <2>9. \A k \in DOMAIN peers : peers[k].conn \in Conns
    BY OwnerFacts DEF PInv, IInv
  <2>10. Settled' /\ Waiting'
    BY <1>1, <2>6, <2>9 DEF PInv, Settled, Waiting
  <2> QED  BY <2>7, <2>8, <2>10
<1> QED  BY <1>2, <1>3 DEF ApplyRemote

\* The peer that is still there is the one whose description was applied, so its queue
\* is delivered to the last candidate.
LEMMA FinishPublish ==
  ASSUME PInv, NEW t \in Threads, FinishDescription(t)
  PROVE  Shut' /\ Negotiating' /\ Settled' /\ Waiting'
<1> DEFINE key == hnd[t].key
<1>1. /\ t = "ix" /\ life \in {"running", "stopping"} /\ worker = "running" /\ worker' = worker
      /\ life' = life /\ globalIce' = globalIce /\ hnd["ix"].pc = "finish"
  BY OnlyIx DEF FinishDescription, cleanup
<1>2. hnd'["ix"].pc = "idle" /\ \A d \in DcThreads : hnd'[d] = hnd[d]
  BY <1>1, ReturnFacts DEF FinishDescription
<1>3. CASE UNCHANGED <<peers, conn>>
  <2>1. Shut'
    BY <1>1, <1>2, <1>3, HandlerShut
  <2> QED  BY <1>1, <1>2, <1>3, <2>1, LessNegotiated
<1>4. CASE Live(key)
  <2> DEFINE p == peers[key]
             rest == p.ice \ Delivered(p)
  <2>1. p.conn = hnd["ix"].conn /\ p.conn \in Conns /\ conn[p.conn].remote /\ key \in DOMAIN peers
    BY <1>1, <1>4 DEF Live, PInv, Negotiating
  <2>2. rest = {}
    BY <2>1 DEF Delivered
  <2>3. ASSUME NEW b \in BOOLEAN, NEW a, NEW r,
               peers' = [peers EXCEPT ![key].described = b, ![key].ice = a, ![key].ready = r]
        PROVE  /\ DOMAIN peers' = DOMAIN peers /\ peers'[key].ice = a
               /\ \A k \in DOMAIN peers : peers'[k].conn = peers[k].conn
               /\ \A k \in DOMAIN peers : k # key => peers'[k] = peers[k]
    BY <2>1, <2>3 DEF PInv, IInv, TypeInv, TableOK, Peer
  <2>4. /\ peers' = [peers EXCEPT ![key].described = TRUE, ![key].ice = rest,
                            ![key].ready = @ \/ (rest = {} /\ hnd[t].msg.kind = "answer")]
        /\ conn' = [conn EXCEPT ![p.conn].applied = @ \cup Delivered(p)]
    BY <1>4 DEF FinishDescription
  <2> HIDE DEF rest
  <2>5. /\ DOMAIN peers' = DOMAIN peers /\ peers'[key].ice = rest
        /\ \A k \in DOMAIN peers : peers'[k].conn = peers[k].conn
        /\ \A k \in DOMAIN peers : k # key => peers'[k] = peers[k]
    BY <2>3, <2>4, Zenon
  <2>6. ASSUME NEW c \in Conns
        PROVE  conn'[c].listens = conn[c].listens /\ conn'[c].remote = conn[c].remote
    BY <2>4 DEF PInv, IInv, TypeInv, ConnOK, Connection
  <2>7. Shut'
    BY <1>1, <1>2, <2>6, HandlerShut
  <2>8. Negotiating'
    BY <1>2 DEF Negotiating
  <2>9. \A k \in DOMAIN peers : peers[k].conn \in Conns
    BY OwnerFacts DEF PInv, IInv
  <2>10. Settled'
    <3>1. ASSUME NEW k \in DOMAIN peers', peers'[k].described
          PROVE  peers'[k].ice = {} /\ conn'[peers'[k].conn].remote
      BY <2>1, <2>2, <2>5, <2>6, <2>9, <3>1 DEF PInv, Settled
    <3> QED  BY <3>1 DEF Settled
  <2>11. Waiting'
    BY <1>1, <2>5 DEF PInv, Waiting
  <2> QED  BY <2>7, <2>8, <2>10, <2>11
<1> QED  BY <1>3, <1>4 DEF FinishDescription

\* Callbacks only take peers away, and when stop() has emptied the table they find none.
LEMMA CallbacksPublish ==
  ASSUME PInv, Callbacks
  PROVE  Shut' /\ Negotiating' /\ Settled' /\ Waiting'
<1>1. ASSUME NEW c \in Conns, NEW e \in Events, StateChange(c, e)
      PROVE  Shut' /\ Negotiating' /\ Settled' /\ Waiting'
  <2>1. UNCHANGED <<peers, byUuid, globalIce, retired, cleaning, worker, hnd, life>>
    BY <1>1 DEF StateChange, table, cleanup
  <2>2. \A d \in Conns : /\ conn'[d].listens => conn[d].listens
                         /\ conn[d].remote => conn'[d].remote
    BY <1>1 DEF StateChange, PInv, IInv, TypeInv, ConnOK, Connection
  <2>3. Shut'
    BY <2>1, <2>2 DEF PInv, Shut, NoChannels, Quiet, Emptied, Drained
  <2> QED  BY <2>1, <2>2, <2>3, LessNegotiated
<1>2. ASSUME NEW c \in Conns, Callback(c)
      PROVE  Shut' /\ Negotiating' /\ Settled' /\ Waiting'
  <2> DEFINE k == conn[c].key
  <2>1. UNCHANGED <<globalIce, hnd, life>>
    BY <1>2 DEF Callback
  <2>2. \A d \in Conns : /\ conn'[d].listens => conn[d].listens
                         /\ conn[d].remote => conn'[d].remote
    BY <1>2 DEF Callback, PInv, IInv, TypeInv, ConnOK, Connection
  <2>3. CASE ~Live(k)
    <3>1. UNCHANGED <<peers, retired, cleaning, worker>>
      BY <1>2, <2>3 DEF Callback, cleanup
    <3>2. Shut'
      BY <2>1, <2>2, <3>1 DEF PInv, Shut, NoChannels, Quiet, Emptied, Drained
    <3> QED  BY <2>1, <2>2, <3>1, <3>2, LessNegotiated
  <2>4. CASE Live(k)
    <3>1. life \notin {"draining", "stopped"}
      <4>1. peers # <<>>
        BY <2>4 DEF Live
      <4> QED  BY <4>1 DEF PInv, Shut, Emptied
    <3>2. worker = "running"
      BY <3>1 DEF PInv, Shut, Drained, IInv, TypeInv, CleanupOK
    <3>3. worker' = worker
      BY <1>2 DEF Callback, Connected, Disconnected, Close, Retire, cleanup
    <3>4. Shut'
      BY <2>1, <2>2, <3>1, <3>2, <3>3 DEF PInv, Shut, NoChannels, Quiet, Emptied, Drained
    <3>5. \A o \in DOMAIN peers' :
            /\ o \in DOMAIN peers /\ peers'[o].conn = peers[o].conn
            /\ peers'[o].described = peers[o].described /\ peers'[o].ice = peers[o].ice
      <4>1. CASE Connected(k)
        BY <4>1 DEF Connected, PInv, IInv, TypeInv, TableOK, Peer
      <4>2. CASE Disconnected(k)
        BY <4>2 DEF Disconnected, PInv, IInv, TypeInv, TableOK, Peer
      <4>3. CASE Close({k})
        BY <4>3 DEF Close
      <4> QED  BY <1>2, <2>4, <4>1, <4>2, <4>3 DEF Callback
    <3> QED  BY <2>1, <2>2, <3>4, <3>5, LessNegotiated
  <2> QED  BY <2>3, <2>4
<1> QED  BY <1>1, <1>2 DEF Callbacks

LEMMA WorkerPublish ==
  ASSUME PInv, CleanupWorker
  PROVE  Shut' /\ Negotiating' /\ Settled' /\ Waiting'
<1>1. UNCHANGED <<peers, globalIce, hnd, life>>
  BY DEF CleanupWorker, TakeRetired, DetachConnection, ReleasePeer, WorkerExit, table
<1>2. \A d \in Conns : /\ conn'[d].listens => conn[d].listens
                       /\ conn[d].remote => conn'[d].remote
  <2>1. CASE DetachConnection
    <3>1. ASSUME NEW n, NEW b \in BOOLEAN, NEW s,
                 conn' = [conn EXCEPT ![n].attached = b, ![n].st = s], NEW d \in Conns
          PROVE  conn'[d].listens = conn[d].listens /\ conn'[d].remote = conn[d].remote
      BY <3>1 DEF PInv, IInv, TypeInv, ConnOK, Connection
    <3>2. \A d \in Conns : conn'[d].listens = conn[d].listens /\ conn'[d].remote = conn[d].remote
      BY <2>1, <3>1, Zenon DEF DetachConnection
    <3> QED  BY <3>2
  <2>2. CASE ReleasePeer
    <3>1. ASSUME NEW r \in Connection, NEW b \in BOOLEAN
          PROVE  [r EXCEPT !.listens = b].listens = b /\ [r EXCEPT !.listens = b].remote = r.remote
      BY DEF Connection
    <3>2. ASSUME NEW d \in Conns
          PROVE  conn'[d] = conn[d] \/ conn'[d] = [conn[d] EXCEPT !.listens = FALSE]
      BY <2>2 DEF ReleasePeer
    <3>3. ASSUME NEW d \in Conns
          PROVE  (conn'[d].listens => conn[d].listens) /\ (conn[d].remote => conn'[d].remote)
      <4>1. CASE conn'[d] = [conn[d] EXCEPT !.listens = FALSE]
        <5>1. conn[d] \in Connection
          BY DEF PInv, IInv, TypeInv, ConnOK
        <5>2. conn'[d].listens = FALSE /\ conn'[d].remote = conn[d].remote
          BY <3>1, <4>1, <5>1, Zenon
        <5> QED  BY <5>2, Zenon
      <4> QED  BY <3>2, <4>1
    <3> QED  BY <3>3
  <2>3. CASE TakeRetired \/ WorkerExit
    BY <2>3 DEF TakeRetired, WorkerExit
  <2> QED  BY <2>1, <2>2, <2>3 DEF CleanupWorker
<1>3. Drained'
  BY DEF PInv, Shut, Drained, CleanupWorker, TakeRetired, DetachConnection, ReleasePeer,
         WorkerExit, table, cleanup
<1>4. NoChannels' /\ Quiet' /\ Emptied'
  BY <1>1, <1>2 DEF PInv, Shut, NoChannels, Quiet, Emptied
<1> QED  BY <1>1, <1>2, <1>3, <1>4, LessNegotiated DEF Shut

LEMMA LifecyclePublish ==
  ASSUME PInv, Stop \/ Start
  PROVE  Shut' /\ Negotiating' /\ Settled' /\ Waiting'
<1>1. hnd' = hnd
  BY DEF Stop, Start, StopMark, JoinSignaling, ResetAll, StopDone
<1>2. \A d \in Conns : /\ conn'[d].listens => conn[d].listens
                       /\ conn[d].remote => conn'[d].remote
  <2>1. CASE Start
    <3>1. ASSUME NEW r \in Connection, NEW b \in BOOLEAN, NEW s
          PROVE  /\ [r EXCEPT !.attached = b, !.st = s].listens = r.listens
                 /\ [r EXCEPT !.attached = b, !.st = s].remote = r.remote
      BY DEF Connection
    <3>2. ASSUME NEW d \in Conns
          PROVE  \/ conn'[d] = conn[d]
                 \/ conn'[d] = [conn[d] EXCEPT !.attached = FALSE, !.st = "closed"]
      BY <2>1 DEF Start
    <3>3. ASSUME NEW d \in Conns
          PROVE  (conn'[d].listens => conn[d].listens) /\ (conn[d].remote => conn'[d].remote)
      <4>1. CASE conn'[d] = [conn[d] EXCEPT !.attached = FALSE, !.st = "closed"]
        <5>1. conn[d] \in Connection
          BY DEF PInv, IInv, TypeInv, ConnOK
        <5>2. ASSUME NEW b \in BOOLEAN, conn'[d] = [conn[d] EXCEPT !.attached = b, !.st = "closed"]
              PROVE  conn'[d].listens = conn[d].listens /\ conn'[d].remote = conn[d].remote
          BY <3>1, <5>1, <5>2
        <5>3. conn'[d].listens = conn[d].listens /\ conn'[d].remote = conn[d].remote
          BY <4>1, <5>2, Zenon
        <5> QED  BY <5>3
      <4> QED  BY <3>2, <4>1
    <3> QED  BY <3>3
  <2>2. CASE Stop
    BY <2>2 DEF Stop, StopMark, JoinSignaling, ResetAll, StopDone
  <2> QED  BY <2>1, <2>2
<1>3. NoChannels'
  BY <1>1, <1>2 DEF PInv, Shut, NoChannels
<1>4. Quiet'
  BY <1>1 DEF PInv, Shut, NoChannels, Quiet, Threads, Stop, Start, StopMark, JoinSignaling,
              ResetAll, StopDone
<1>5. Emptied'
  BY DEF PInv, Shut, Emptied, Stop, Start, StopMark, JoinSignaling, ResetAll, StopDone, table
<1>6. Drained'
  BY DEF PInv, Shut, Drained, Stop, Start, StopMark, JoinSignaling, ResetAll, StopDone, Retire,
         cleanup
<1>7. CASE peers' = peers /\ globalIce' = globalIce
  BY <1>1, <1>2, <1>3, <1>4, <1>5, <1>6, <1>7, LessNegotiated DEF Shut
<1>8. CASE DOMAIN peers' = {} /\ globalIce' = {}
  BY <1>1, <1>2, <1>3, <1>4, <1>5, <1>6, <1>8, LessNegotiated DEF Shut
<1>9. CASE ResetAll \/ Start
  BY <1>8, <1>9, EmptyTable DEF ResetAll, Start
<1> QED  BY <1>7, <1>9 DEF Stop, StopMark, JoinSignaling, StopDone, table

LEMMA StepPublish ==
  ASSUME Mode = "publish"
  PROVE  PInv /\ [Next]_vars => PInv'
<1> SUFFICES ASSUME PInv, [Next]_vars PROVE PInv'
  OBVIOUS
<1>1. IInv' /\ TableConsistent'
  BY StepOwned, StepConsistent DEF PInv
<1>2. CASE UNCHANGED vars
  <2>1. UNCHANGED <<peers, globalIce, retired, cleaning, worker, conn, hnd, life>>
    BY <1>2 DEF vars, table, cleanup
  <2>2. Shut'
    BY <2>1 DEF PInv, Shut, NoChannels, Quiet, Emptied, Drained
  <2> QED  BY <1>1, <2>1, <2>2, LessNegotiated DEF PInv
<1>3. CASE Next
  <2>1. Shut' /\ Negotiating' /\ Settled' /\ Waiting'
    BY <1>3, NoDatachannels, ReceivePublish, DispatchPublish, ApplyPublish, FinishPublish,
       CallbacksPublish, WorkerPublish, LifecyclePublish DEF Next, Handlers
  <2> QED  BY <1>1, <2>1 DEF PInv
<1> QED  BY <1>2, <1>3

LEMMA InitPublish == Init => PInv
<1> SUFFICES ASSUME Init PROVE PInv
  OBVIOUS
<1>1. IInv
  BY InitOwned
<1>2. DOMAIN peers = {} /\ DOMAIN byUuid = {} /\ globalIce = {} /\ life = "running"
      /\ worker = "running" /\ \A t \in Threads : hnd[t] = Idle
  BY DEF Init
<1>3. Idle.pc = "idle"
  BY DEF Idle
<1>4. \A c \in Conns : ~conn[c].listens
  <2>1. \A c \in Conns : conn[c] = NoConn
    BY DEF Init
  <2>2. ~NoConn.listens
    BY Zenon DEF NoConn
  <2> QED  BY <2>1, <2>2, Zenon
<1>5. Shut
  BY <1>2, <1>3, <1>4 DEF Shut, NoChannels, Quiet, Emptied, Drained, Threads
<1>6. Negotiating /\ Settled /\ Waiting /\ TableConsistent
  <2>1. "ix" \in Threads
    BY DEF Threads
  <2> QED  BY <1>2, <1>3, <2>1 DEF Negotiating, Settled, Waiting, TableConsistent
<1> QED  BY <1>1, <1>5, <1>6 DEF PInv

LEMMA Published ==
  ASSUME Mode = "publish"
  PROVE  Spec => []PInv
BY InitPublish, StepPublish, PTL DEF Spec

\* remoteDescriptionSet of a publisher's peer is true of its connection: the section
\* that sets it finds, by key, the peer whose description was applied in the gap before.
THEOREM DescriptionsAreTrue ==
  ASSUME Mode = "publish"
  PROVE  Spec => []RemoteDescriptionTrue
<1>1. PInv => RemoteDescriptionTrue
  BY DEF PInv, Settled, RemoteDescriptionTrue
<1> QED  BY <1>1, Published, PTL

\* No candidate of a viewer waits for something that has happened: for its peer in the
\* global queue, or for the description at its peer.
THEOREM NoCandidateIsStranded ==
  ASSUME Mode = "publish"
  PROVE  Spec => []NoneStranded
<1>1. PInv => NoneStranded
  BY DEF PInv, Settled, Waiting, NoneStranded
<1> QED  BY <1>1, Published, PTL

\* When stop() of a publisher returns nothing is left: no peer, nothing to clean up, no
\* connection with callbacks, no handler.
THEOREM StopIsComplete ==
  ASSUME Mode = "publish"
  PROVE  Spec => []StopLeavesNothing
<1>1. PInv => StopLeavesNothing
  <2> SUFFICES ASSUME PInv, life = "stopped" PROVE StopLeavesNothing
    BY DEF StopLeavesNothing
  <2>1. peers = <<>> /\ \A t \in Threads : hnd[t].pc = "idle"
    BY DEF PInv, Shut, Emptied, Quiet
  <2>2. retired = {} /\ cleaning = NoPeer
    BY DEF PInv, Shut, Drained
  <2>3. pending = 0
    <3>1. Cardinality({}) = 0
      BY FS_EmptySet
    <3>2. pending = Cardinality({}) + 0
      BY <2>2 DEF PInv, IInv, Counted, CleanupCounted
    <3> QED  BY <3>1, <3>2
  <2>4. \A c \in Conns : ~conn[c].attached
    <3>1. DOMAIN peers = {}
      BY <2>1
    <3>2. NoPeer.conn = 0 /\ 0 \notin Conns
      BY OwnerFacts DEF PInv, IInv
    <3>3. \A c \in Conns : c \notin Held
      BY <2>2, <3>1, <3>2 DEF Held
    <3> QED  BY <3>3 DEF PInv, IInv, ConnectionsOwned
  <2> QED  BY <2>1, <2>2, <2>3, <2>4 DEF StopLeavesNothing
<1> QED  BY <1>1, Published, PTL

-----------------------------------------------------------------------------
(* A Play session. *)

\* No handler has an answer to apply, so only a connected peer becomes ready.
NoAnswers == \A t \in Threads : hnd[t].msg.kind # "answer"

GInv == IInv /\ NoAnswers /\ OneGenerationPerStream

\* A step after which no more peers are ready, with the streams they had.
LEMMA LessReady ==
  ASSUME OneGenerationPerStream,
         \A k \in DOMAIN peers' : peers'[k].ready =>
           k \in DOMAIN peers /\ peers[k].ready /\ peers'[k].stream = peers[k].stream
  PROVE  OneGenerationPerStream'
BY DEF OneGenerationPerStream

LEMMA CreateReady ==
  ASSUME OneGenerationPerStream, NEW key, NEW stream, NEW dc, Create(key, stream, dc)
  PROVE  OneGenerationPerStream'
<1>1. /\ DOMAIN peers' = (DOMAIN peers \ Replaced(key)) \cup {key}
      /\ \A k \in DOMAIN peers' : peers'[k] = IF k = key THEN NewPeer(key, stream, dc) ELSE peers[k]
  BY DEF Create
<1>2. ~NewPeer(key, stream, dc).ready
  BY Zenon DEF NewPeer
<1>3. ASSUME NEW k \in DOMAIN peers', peers'[k].ready
      PROVE  k \in DOMAIN peers /\ peers'[k] = peers[k]
  <2>1. k # key
    BY <1>1, <1>2, <1>3
  <2> QED  BY <1>1, <2>1
<1> QED  BY <1>3, LessReady

LEMMA RefuseReady ==
  ASSUME OneGenerationPerStream, NEW key, Refuse(key)
  PROVE  OneGenerationPerStream'
<1>1. \A k \in DOMAIN peers' : k \in DOMAIN peers /\ peers'[k] = peers[k]
  BY DEF Refuse, Close
<1> QED  BY <1>1, LessReady

\* handleRemoteDescription of an offer: the stream may change, but the peer has to
\* connect again before it is used.
LEMMA OfferReady ==
  ASSUME GInv, NEW key \in DOMAIN peers, NEW s,
         peers' = [peers EXCEPT ![key].stream = s, ![key].ready = FALSE]
  PROVE  OneGenerationPerStream'
<1>1. ASSUME NEW b \in BOOLEAN, peers' = [peers EXCEPT ![key].stream = s, ![key].ready = b]
      PROVE  /\ DOMAIN peers' = DOMAIN peers /\ peers'[key].ready = b
             /\ \A k \in DOMAIN peers : k # key => peers'[k] = peers[k]
  BY <1>1 DEF GInv, IInv, TypeInv, TableOK, Peer
<1>2. /\ DOMAIN peers' = DOMAIN peers /\ peers'[key].ready = FALSE
      /\ \A k \in DOMAIN peers : k # key => peers'[k] = peers[k]
  BY <1>1, Zenon
<1>3. ~peers'[key].ready
  BY <1>2, Zenon
<1> QED  BY <1>2, <1>3, LessReady DEF GInv

\* flushPendingIceLocked makes a peer ready only after an answer.
LEMMA FinishReady ==
  ASSUME GInv, NEW t \in Threads, FinishDescription(t)
  PROVE  OneGenerationPerStream'
<1> DEFINE key == hnd[t].key
           p == peers[key]
           rest == p.ice \ Delivered(p)
           ready == p.ready \/ (rest = {} /\ hnd[t].msg.kind = "answer")
<1>1. CASE peers' = peers
  BY <1>1, LessReady DEF GInv
<1>2. CASE Live(key)
  <2>1. key \in DOMAIN peers
    BY <1>2 DEF Live
  <2>2. ASSUME NEW b \in BOOLEAN, NEW a, NEW r,
               peers' = [peers EXCEPT ![key].described = b, ![key].ice = a, ![key].ready = r]
        PROVE  /\ DOMAIN peers' = DOMAIN peers
               /\ peers'[key].ready = r /\ peers'[key].stream = peers[key].stream
               /\ \A k \in DOMAIN peers : k # key => peers'[k] = peers[k]
    BY <2>1, <2>2 DEF GInv, IInv, TypeInv, TableOK, Peer
  <2>3. peers' = [peers EXCEPT ![key].described = TRUE, ![key].ice = rest, ![key].ready = ready]
    BY <1>2 DEF FinishDescription
  <2> HIDE DEF rest
  <2>4. /\ DOMAIN peers' = DOMAIN peers
        /\ peers'[key].ready = ready /\ peers'[key].stream = peers[key].stream
        /\ \A k \in DOMAIN peers : k # key => peers'[k] = peers[k]
    BY <2>2, <2>3, Zenon
  <2>5. ready => p.ready
    BY DEF GInv, NoAnswers
  <2>6. peers'[key].ready => p.ready
    BY <2>4, <2>5, Zenon
  <2> HIDE DEF ready
  <2> QED  BY <2>4, <2>6, LessReady DEF GInv
<1> QED  BY <1>1, <1>2 DEF FinishDescription

\* The peer that connects is the only one left of its stream.
LEMMA ConnectedReady ==
  ASSUME Mode = "play", GInv, NEW k \in DOMAIN peers, Connected(k)
  PROVE  OneGenerationPerStream'
<1>1. DOMAIN peers' = DOMAIN peers \ Superseded(k)
  BY DEF Connected
<1>2. \A o \in DOMAIN peers' : peers'[o].stream = peers[o].stream
  BY DEF Connected, GInv, IInv, TypeInv, TableOK, Peer
<1>3. \A o \in DOMAIN peers' : o # k => peers'[o] = peers[o] /\ peers[o].stream # peers[k].stream
  BY DEF Connected, Superseded
<1> QED  BY <1>1, <1>2, <1>3 DEF GInv, OneGenerationPerStream

\* Messages of a Play session, and what its handlers become.
LEMMA NoAnswerComes ==
  ASSUME Mode = "play", NoAnswers, HandlersOK, [Next]_vars
  PROVE  NoAnswers'
<1>1. hnd \in [Threads -> Handler]
  BY DEF HandlersOK, Handler
<1>2. ASSUME NEW t \in Threads, NEW h, h.msg.kind # "answer", hnd' = [hnd EXCEPT ![t] = h]
      PROVE  NoAnswers'
  BY <1>1, <1>2 DEF NoAnswers
<1>3. ASSUME NEW t \in Threads, Return(t)
      PROVE  NoAnswers'
  <2>1. Idle.msg.kind # "answer"
    BY DEF Idle, NoMsg, Bare
  <2> QED  BY <1>2, <1>3, <2>1 DEF Return
<1>4. CASE hnd' = hnd
  BY <1>4 DEF NoAnswers
<1>5. ASSUME NEW m \in Messages, Receive(m)
      PROVE  NoAnswers'
  <2>1. m.kind # "answer"
    BY KindAssumption DEF Messages
  <2>2. Dispatching(m, 0).msg = m /\ "ix" \in Threads
    BY DEF Dispatching, Threads
  <2> QED  BY <1>2, <1>5, <2>1, <2>2 DEF Receive
<1>6. ASSUME NEW t \in Threads, Dispatch(t)
      PROVE  NoAnswers'
  <2> DEFINE m == hnd[t].msg
  <2>1. m.kind # "answer"
    BY DEF NoAnswers
  <2>2. ASSUME NEW key, NEW c, Applying(t, "offer", key, c)
        PROVE  NoAnswers'
    <3> DEFINE h == [pc |-> "apply", msg |-> Bare("offer"), key |-> key, conn |-> c, src |-> hnd[t].src]
    <3>1. h.msg.kind # "answer"
      BY DEF Bare
    <3>2. hnd' = [hnd EXCEPT ![t] = h]
      BY <2>2 DEF Applying
    <3> QED  BY <1>2, <3>1, <3>2
  <2>3. CASE HandleOffer(t, m)
    BY <1>3, <2>2, <2>3 DEF HandleOffer
  <2> QED  BY <1>3, <1>6, <2>1, <2>3
           DEF Dispatch, HandleOfferRequest, HandleCandidate, HandleSignalingLost
<1>7. ASSUME NEW t \in Threads, ApplyRemote(t) \/ FinishDescription(t)
      PROVE  NoAnswers'
  <2>1. CASE hnd' = [hnd EXCEPT ![t].pc = "finish"]
    BY <1>1, <2>1 DEF NoAnswers, Handler
  <2> QED  BY <1>3, <1>7, <2>1 DEF ApplyRemote, FinishDescription
<1>8. ASSUME NEW t \in DcThreads, NEW c \in Conns, NEW m \in DcMessages, DcMessage(t, c, m)
      PROVE  NoAnswers'
  <2>1. PICK full : full.kind = m.kind /\ hnd' = [hnd EXCEPT ![t] = Dispatching(full, c)]
    BY <1>8 DEF DcMessage
  <2>2. m.kind # "answer"
    BY KindAssumption DEF DcMessages
  <2>3. Dispatching(full, c).msg = full /\ t \in Threads
    BY DEF Dispatching, Threads
  <2> QED  BY <1>2, <2>1, <2>2, <2>3
<1>9. ASSUME NEW c \in Conns, DcOpen(c) \/ Callback(c) \/ \E e \in Events : StateChange(c, e)
      PROVE  hnd' = hnd
  BY <1>9 DEF DcOpen, Callback, StateChange
<1>10. CASE CleanupWorker \/ Stop \/ Start \/ UNCHANGED vars
  <2>1. hnd' = hnd
    BY <1>10 DEF CleanupWorker, TakeRetired, DetachConnection, ReleasePeer, WorkerExit, Stop,
                 StopMark, JoinSignaling, ResetAll, StopDone, Start, vars
  <2> QED  BY <1>4, <2>1
<1> QED  BY <1>4, <1>5, <1>6, <1>7, <1>8, <1>9, <1>10 DEF Next, Handlers, Channels, Callbacks

LEMMA StepPlay ==
  ASSUME Mode = "play"
  PROVE  GInv /\ [Next]_vars => GInv'
<1> SUFFICES ASSUME GInv, [Next]_vars PROVE GInv'
  OBVIOUS
<1>1. IInv' /\ NoAnswers'
  BY StepOwned, NoAnswerComes DEF GInv, IInv, TypeInv
<1>2. CASE peers' = peers
  BY <1>1, <1>2, LessReady DEF GInv
<1>3. ASSUME NEW t \in Threads, Dispatch(t)
      PROVE  OneGenerationPerStream'
  <2> DEFINE m == hnd[t].msg
             key == KeyOf(m)
  <2>1. CASE HandleOfferRequest(t, m)
    BY <2>1, CreateReady, RefuseReady DEF HandleOfferRequest, GInv
  <2>2. CASE HandleOffer(t, m)
    <3>1. CASE Live(key) /\ peers' = [peers EXCEPT ![key].stream = Named(m.stream, @), ![key].ready = FALSE]
      <4>1. key \in DOMAIN peers
        BY <3>1 DEF Live
      <4> QED  BY <3>1, <4>1, OfferReady, Zenon
    <3> QED  BY <2>2, <3>1, CreateReady, RefuseReady DEF HandleOffer, GInv
  <2>3. CASE HandleCandidate(t, m)
    <3>1. CASE peers' = peers
      BY <3>1, LessReady DEF GInv
    <3>2. ASSUME NEW k \in Located(m), NEW i, QueueOrApply(k, i)
          PROVE  OneGenerationPerStream'
      <4>1. ASSUME NEW a, peers' = [peers EXCEPT ![k].ice = a]
            PROVE  OneGenerationPerStream'
        <5>1. /\ DOMAIN peers' = DOMAIN peers
              /\ \A o \in DOMAIN peers : /\ peers'[o].ready = peers[o].ready
                                         /\ peers'[o].stream = peers[o].stream
          BY <4>1 DEF GInv, IInv, TypeInv, TableOK, Peer
        <5> QED  BY <5>1, LessReady DEF GInv
      <4>2. CASE peers' = [peers EXCEPT ![k].ice =
                    IF Cardinality(@) < MaxPendingIce THEN @ \cup {i} ELSE @]
        BY <4>1, <4>2, Zenon
      <4> QED  BY <3>1, <3>2, <4>2 DEF QueueOrApply
    <3> QED  BY <2>3, <3>1, <3>2 DEF HandleCandidate
  <2>4. CASE HandleSignalingLost(t)
    BY <2>4, LessReady DEF HandleSignalingLost, GInv
  <2>5. m.kind # "answer"
    BY DEF GInv, NoAnswers
  <2> QED  BY <1>3, <2>1, <2>2, <2>3, <2>4, <2>5 DEF Dispatch
<1>4. ASSUME NEW t \in DcThreads, NEW c \in Conns, NEW m \in DcMessages, DcMessage(t, c, m)
      PROVE  OneGenerationPerStream'
  <2>1. PICK key : \/ Live(key) /\ peers' = [peers EXCEPT ![key].dc = c]
                   \/ Create(key, OwnStream, c)
                   \/ Refuse(key)
    BY <1>4 DEF DcMessage
  <2>2. CASE Live(key) /\ peers' = [peers EXCEPT ![key].dc = c]
    <3>1. /\ DOMAIN peers' = DOMAIN peers
          /\ \A o \in DOMAIN peers : peers'[o].ready = peers[o].ready /\ peers'[o].stream = peers[o].stream
      BY <2>2 DEF GInv, IInv, TypeInv, TableOK, Peer
    <3> QED  BY <3>1, LessReady DEF GInv
  <2> QED  BY <2>1, <2>2, CreateReady, RefuseReady DEF GInv
<1>5. ASSUME NEW c \in Conns, DcOpen(c)
      PROVE  OneGenerationPerStream'
  <2>1. /\ DOMAIN peers' = DOMAIN peers
        /\ \A o \in DOMAIN peers : peers'[o].ready = peers[o].ready /\ peers'[o].stream = peers[o].stream
    BY <1>5 DEF DcOpen, GInv, IInv, TypeInv, TableOK, Peer
  <2> QED  BY <2>1, LessReady DEF GInv
<1>6. ASSUME NEW c \in Conns, Callback(c)
      PROVE  OneGenerationPerStream'
  <2> DEFINE k == conn[c].key
  <2>1. CASE peers' = peers
    BY <2>1, LessReady DEF GInv
  <2>2. CASE Live(k) /\ Connected(k)
    BY <2>2, ConnectedReady DEF Live
  <2>3. CASE Disconnected(k)
    <3>1. ASSUME NEW b \in BOOLEAN, peers' = [peers EXCEPT ![k].ready = b]
          PROVE  /\ DOMAIN peers' = DOMAIN peers
                 /\ \A o \in DOMAIN peers : o # k => peers'[o] = peers[o]
                 /\ k \in DOMAIN peers => peers'[k].ready = b
      BY <3>1 DEF GInv, IInv, TypeInv, TableOK, Peer
    <3>2. /\ DOMAIN peers' = DOMAIN peers
          /\ \A o \in DOMAIN peers : o # k => peers'[o] = peers[o]
          /\ k \in DOMAIN peers => peers'[k].ready = FALSE
      BY <2>3, <3>1, Zenon DEF Disconnected
    <3>3. k \in DOMAIN peers => ~peers'[k].ready
      BY <3>2, Zenon
    <3> QED  BY <3>2, <3>3, LessReady DEF GInv
  <2>4. CASE Close({k})
    <3>1. \A o \in DOMAIN peers' : o \in DOMAIN peers /\ peers'[o] = peers[o]
      BY <2>4 DEF Close
    <3> QED  BY <3>1, LessReady DEF GInv
  <2> QED  BY <1>6, <2>1, <2>2, <2>3, <2>4 DEF Callback
<1>7. CASE ResetAll \/ Start
  <2>1. DOMAIN peers' = {}
    BY <1>7, EmptyTable DEF ResetAll, Start
  <2> QED  BY <1>1, <2>1 DEF GInv, OneGenerationPerStream
<1>8. ASSUME NEW t \in Threads, FinishDescription(t)
      PROVE  OneGenerationPerStream'
  BY <1>8, FinishReady
<1>9. ASSUME \/ UNCHANGED vars \/ CleanupWorker \/ StopMark \/ JoinSignaling \/ StopDone
             \/ \E m \in Messages : Receive(m)
             \/ \E t \in Threads : ApplyRemote(t)
             \/ \E c \in Conns, e \in Events : StateChange(c, e)
      PROVE  peers' = peers
  BY <1>9 DEF vars, CleanupWorker, TakeRetired, DetachConnection, ReleasePeer, WorkerExit, StopMark,
              JoinSignaling, StopDone, Receive, ApplyRemote, StateChange, table
<1> QED  BY <1>1, <1>2, <1>3, <1>4, <1>5, <1>6, <1>7, <1>8, <1>9
         DEF GInv, Next, Handlers, Channels, Callbacks, Stop

\* "never sum two generations of the same stream into the DAW": of the peers a Play
\* session has taken into use, one at most carries a stream, whoever creates and
\* renames peers while they connect.
THEOREM OneGeneration ==
  ASSUME Mode = "play"
  PROVE  Spec => []OneGenerationPerStream
<1>1. Init => GInv
  <2> SUFFICES ASSUME Init PROVE GInv
    OBVIOUS
  <2>1. DOMAIN peers = {} /\ \A t \in Threads : hnd[t] = Idle
    BY DEF Init
  <2>2. Idle.msg.kind # "answer"
    BY DEF Idle, NoMsg, Bare
  <2> QED  BY <2>1, <2>2, InitOwned DEF GInv, NoAnswers, OneGenerationPerStream
<1>2. GInv => OneGenerationPerStream
  BY DEF GInv
<1> QED  BY <1>1, <1>2, StepPlay, PTL DEF Spec
-----------------------------------------------------------------------------
(* The work of the cleanup worker comes to an end: what RetiredIsReleased  *)
(* and StopTerminates rest on.                                             *)

\* Three steps for each retired peer, what is left of those for the one in hand, and
\* the one that ends the worker.
InHand == IF cleaning = NoPeer THEN 0 ELSE IF conn[cleaning.conn].attached THEN 2 ELSE 1
Leaving == IF worker = "running" THEN 1 ELSE 0
Work == 3 * Cardinality(retired) + InHand + Leaving

WorkGoesOn == [][CleanupWorker => Work' < Work]_vars
WorkIsBounded == Work <= 6 * MaxPeers + 1
DrainShrinks == [][life = "draining" /\ life' = "draining" => Work' <= Work]_vars

LEMMA WorkTypes ==
  ASSUME IInv
  PROVE  Cardinality(retired) \in Nat /\ InHand \in 0..2 /\ Leaving \in 0..1
BY FS_CardinalityType DEF IInv, Counted, InHand, Leaving

LEMMA WorkerWorks ==
  ASSUME IInv, IInv', CleanupWorker
  PROVE  Work' < Work
<1> DEFINE n == Cardinality(retired)
           h == InHand
           l == Leaving
<1>1. /\ n \in Nat /\ h \in 0..2 /\ l \in 0..1
      /\ n' \in Nat /\ h' \in 0..2 /\ l' \in 0..1
  <2>1. n \in Nat /\ h \in 0..2 /\ l \in 0..1
    BY WorkTypes
  <2>2. n' \in Nat
    BY FS_CardinalityType DEF IInv, Counted
  <2>3. h' \in 0..2 /\ l' \in 0..1
    BY DEF InHand, Leaving
  <2> QED  BY <2>1, <2>2, <2>3
<1>2. \/ n' = n - 1 /\ h = 0 /\ l' = l
      \/ n' = n /\ h' < h /\ l' = l
      \/ n' = n /\ h' = h /\ l' < l
  <2>1. CASE TakeRetired
    <3>1. PICK r \in retired : retired' = retired \ {r}
      BY <2>1 DEF TakeRetired
    <3>2. n' = n - 1
      BY <3>1, FS_RemoveElement DEF IInv, Counted
    <3> QED  BY <2>1, <3>2 DEF TakeRetired, InHand, Leaving
  <2>2. CASE DetachConnection
    <3>1. UNCHANGED <<retired, cleaning, worker>> /\ cleaning # NoPeer /\ conn[cleaning.conn].attached
      BY <2>2 DEF DetachConnection, cleanup
    <3>2. cleaning.conn \in Conns
      BY <3>1, OwnerFacts DEF IInv
    <3>3. ASSUME NEW b \in BOOLEAN
          PROVE  [conn EXCEPT ![cleaning.conn].attached = b,
                              ![cleaning.conn].st = "closed"][cleaning.conn].attached = b
      BY <3>2 DEF IInv, TypeInv, ConnOK, Connection
    <3>4. conn'[cleaning.conn].attached = FALSE
      BY <2>2, <3>3, Zenon DEF DetachConnection
    <3> QED  BY <3>1, <3>4 DEF InHand, Leaving
  <2>3. CASE ReleasePeer
    BY <2>3 DEF ReleasePeer, InHand, Leaving
  <2>4. CASE WorkerExit
    BY <2>4 DEF WorkerExit, InHand, Leaving
  <2> QED  BY <2>1, <2>2, <2>3, <2>4 DEF CleanupWorker
<1>3. \A n1, n2 \in Nat, h1, h2 \in 0..2, l1, l2 \in 0..1 :
        \/ n2 = n1 - 1 /\ h1 = 0 /\ l2 = l1
        \/ n2 = n1 /\ h2 < h1 /\ l2 = l1
        \/ n2 = n1 /\ h2 = h1 /\ l2 < l1
        => 3 * n2 + h2 + l2 < 3 * n1 + h1 + l1
  OBVIOUS
<1>4. 3 * n' + h' + l' < 3 * n + h + l
  <2> HIDE DEF n, h, l
  <2> QED  BY <1>1, <1>2, <1>3
<1> QED  BY <1>4 DEF Work

\* A step that leaves the worker what it has.
LEMMA SameWork ==
  ASSUME IInv, UNCHANGED <<retired, cleaning, worker>>,
         \A c \in Conns : conn'[c].attached = conn[c].attached
  PROVE  Work' = Work
<1>1. InHand' = InHand
  <2>1. CASE cleaning = NoPeer
    BY <2>1 DEF InHand
  <2>2. CASE cleaning # NoPeer
    <3>1. cleaning.conn \in Conns
      BY <2>2, OwnerFacts DEF IInv
    <3> QED  BY <2>2, <3>1 DEF InHand
  <2> QED  BY <2>1, <2>2
<1> QED  BY <1>1 DEF Work, Leaving

\* Every step of peerCleanupMain brings it nearer to its end, in either mode: nothing is
\* taken from the queue twice, and no reset of callbacks has to be repeated.
THEOREM CleanupGoesOn == Spec => WorkGoesOn
<1>1. IInv /\ IInv' /\ [Next]_vars => [CleanupWorker => Work' < Work]_vars
  BY WorkerWorks
<1> QED  BY <1>1, Owned, PTL DEF Spec, WorkGoesOn

\* What the worker has to do is bounded by the cap, whatever was retired meanwhile.
THEOREM CleanupIsBounded == Spec => []WorkIsBounded
<1>1. IInv => WorkIsBounded
  <2> SUFFICES ASSUME IInv PROVE WorkIsBounded
    OBVIOUS
  <2> DEFINE n == Cardinality(retired)
             d == Cardinality(DOMAIN peers)
             w == IF cleaning = NoPeer THEN 0 ELSE 1
  <2>1. n \in Nat /\ InHand \in 0..2 /\ Leaving \in 0..1 /\ MaxPeers \in Nat
    BY WorkTypes, BoundAssumption
  <2>2. d \in Nat
    BY FS_CardinalityType DEF IInv, TypeInv
  <2>3. pending = n + w /\ d + pending <= 2 * MaxPeers
    BY DEF IInv, Counted, CleanupCounted, Bounded
  <2>4. w \in 0..1 /\ InHand <= 2 * w
    BY DEF InHand
  <2> HIDE DEF n, d, w
  <2>5. 3 * n + InHand + Leaving <= 6 * MaxPeers + 1
    BY <2>1, <2>2, <2>3, <2>4
  <2> QED  BY <2>5 DEF Work, WorkIsBounded, n
<1> QED  BY <1>1, Owned, PTL

\* While stop() of a publisher waits for the worker, nothing adds to its work: with
\* CleanupGoesOn and CleanupIsBounded, stop() returns after so many of its steps.
THEOREM DrainingEnds ==
  ASSUME Mode = "publish"
  PROVE  Spec => DrainShrinks
<1>1. PInv /\ PInv' /\ [Next]_vars =>
        [life = "draining" /\ life' = "draining" => Work' <= Work]_vars
  <2> SUFFICES ASSUME PInv, PInv', Next, life = "draining", life' = "draining"
               PROVE  Work' <= Work
    OBVIOUS
  <2>1. /\ IInv /\ peers = <<>> /\ DOMAIN peers = {}
        /\ \A t \in Threads : hnd[t].pc = "idle"
    BY EmptyTable DEF PInv, Shut, Quiet, Emptied
  <2>2. Work \in Int /\ Work' \in Int
    <3>1. Cardinality(retired) \in Nat /\ Cardinality(retired') \in Nat
      BY FS_CardinalityType DEF PInv, IInv, Counted
    <3>2. InHand \in Int /\ Leaving \in Int /\ InHand' \in Int /\ Leaving' \in Int
      BY DEF InHand, Leaving
    <3> QED  BY <3>1, <3>2 DEF Work
  <2>3. ASSUME UNCHANGED <<retired, cleaning, worker>>,
               \A c \in Conns : conn'[c].attached = conn[c].attached
        PROVE  Work' <= Work
    BY <2>1, <2>2, <2>3, SameWork
  <2>4. CASE CleanupWorker
    BY <2>2, <2>4, WorkerWorks DEF PInv
  <2>5. ASSUME NEW c \in Conns, NEW e \in Events, StateChange(c, e)
        PROVE  Work' <= Work
    <3>1. \A d \in Conns : conn'[d].attached = conn[d].attached
      BY <2>1, <2>5 DEF StateChange, IInv, TypeInv, ConnOK, Connection
    <3> QED  BY <2>3, <2>5, <3>1 DEF StateChange, cleanup
  <2>6. ASSUME NEW c \in Conns, Callback(c)
        PROVE  Work' <= Work
    <3>1. \A d \in Conns : conn'[d].attached = conn[d].attached
      BY <2>1, <2>6 DEF Callback, IInv, TypeInv, ConnOK, Connection
    <3>2. ~Live(conn[c].key)
      BY <2>1 DEF Live
    <3> QED  BY <2>3, <2>6, <3>1, <3>2 DEF Callback, cleanup
  <2>7. ~Handlers
    BY <2>1 DEF Handlers, Dispatch, ApplyRemote, FinishDescription
  <2>8. ~Channels
    BY NoDatachannels
  <2>9. ~(Stop \/ Start) /\ \A m \in Messages : ~Receive(m)
    BY DEF Stop, Start, StopMark, JoinSignaling, ResetAll, StopDone, Receive
  <2> QED  BY <2>4, <2>5, <2>6, <2>7, <2>8, <2>9 DEF Next, Callbacks
<1> QED  BY <1>1, Published, PTL DEF Spec, DrainShrinks
-----------------------------------------------------------------------------
(* Each connection is released once: PeerSessions implements               *)
(* ConnectionLifecycle, in either mode.                                    *)

LifecycleStep == [Lifecycle!Next]_(Lifecycle!vars)

LEMMA SameCount == \A S : Lifecycle!Cardinality(S) = Cardinality(S)
BY DEF Cardinality, Lifecycle!Cardinality

\* A step that moves no connection and detaches none is not seen.
LEMMA SameLifecycle ==
  ASSUME DOMAIN peers' = DOMAIN peers,
         \A k \in DOMAIN peers : peers'[k].conn = peers[k].conn,
         UNCHANGED <<retired, cleaning, created>>,
         \A c \in Conns : conn'[c].attached = conn[c].attached
  PROVE  LifecycleStep
<1>1. LiveConns' = LiveConns
  BY DEF LiveConns
<1>2. AttachedConns' = AttachedConns
  BY DEF AttachedConns
<1>3. QueuedConns' = QueuedConns /\ HeldConns' = HeldConns
  BY DEF QueuedConns, HeldConns
<1>4. (1..created)' = 1..created
  OBVIOUS
<1> QED  BY <1>1, <1>2, <1>3, <1>4, Zenon DEF LifecycleStep, Lifecycle!vars

\* The peers that are closed together leave their connections to the queue.
LEMMA RetireLifecycle ==
  ASSUME IInv, NEW ks \in SUBSET (DOMAIN peers), Retire(ks),
         DOMAIN peers' = DOMAIN peers \ ks,
         \A k \in DOMAIN peers' : peers'[k].conn = peers[k].conn,
         created' = created, \A c \in Conns : conn'[c].attached = conn[c].attached
  PROVE  LifecycleStep
<1> DEFINE cs == {peers[k].conn : k \in ks}
<1>1. cs \in SUBSET LiveConns
  BY DEF LiveConns
<1>2. LiveConns' = LiveConns \ cs
  <2>1. \A k, o \in DOMAIN peers : peers[k].conn = peers[o].conn => k = o
    BY DEF IInv, ConnectionsOwned
  <2> QED  BY <2>1 DEF LiveConns
<1>3. QueuedConns' = QueuedConns \cup cs
  <2>1. retired' = retired \cup {Remains(peers[k]) : k \in ks}
    BY DEF Retire
  <2>2. \A k \in ks : Remains(peers[k]).conn = peers[k].conn
    BY DEF Remains
  <2> QED  BY <2>1, <2>2 DEF QueuedConns
<1>4. HeldConns' = HeldConns
  BY DEF Retire, HeldConns
<1>5. AttachedConns' = AttachedConns
  BY DEF AttachedConns
<1>6. (1..created)' = 1..created
  OBVIOUS
<1>7. Lifecycle!Retire(cs)
  BY <1>2, <1>3, <1>4, <1>5, <1>6, Zenon DEF Lifecycle!Retire
<1> QED  BY <1>1, <1>7, Zenon DEF LifecycleStep, Lifecycle!Next

\* The caps that ensurePeerSession checks are those of connections.
LEMMA ConnectionsCounted ==
  ASSUME IInv, NEW ks \in SUBSET (DOMAIN peers)
  PROVE  /\ Cardinality(QueuedConns \cup HeldConns) <= pending
         /\ Cardinality(QueuedConns \cup HeldConns) \in Nat
         /\ Cardinality({peers[k].conn : k \in DOMAIN peers \ ks})
              <= Cardinality(DOMAIN peers \ ks)
         /\ Cardinality({peers[k].conn : k \in DOMAIN peers \ ks}) \in Nat
<1> DEFINE W == IF cleaning = NoPeer THEN retired ELSE retired \cup {cleaning}
           T == QueuedConns \cup HeldConns
           f == [r \in W |-> r.conn]
           D == DOMAIN peers \ ks
           E == {peers[k].conn : k \in D}
           g == [k \in D |-> peers[k].conn]
<1>1. /\ \A r \in retired : r.conn # 0 /\ r # NoPeer
      /\ cleaning # NoPeer => cleaning.conn # 0
      /\ NoPeer.conn = 0
  BY OwnerFacts DEF IInv
<1>2. f \in Surjection(W, T)
  <2>1. T = {r.conn : r \in W}
    BY <1>1 DEF QueuedConns, HeldConns
  <2> HIDE DEF T, W
  <2> QED  BY <2>1 DEF Surjection
<1>3. IsFiniteSet(W) /\ Cardinality(W) = pending
  <2>1. IsFiniteSet(retired) /\ Cardinality(retired) \in Nat
    BY FS_CardinalityType DEF IInv, Counted
  <2>2. CASE cleaning = NoPeer
    BY <2>1, <2>2 DEF IInv, Counted, CleanupCounted
  <2>3. CASE cleaning # NoPeer
    <3>1. cleaning \notin retired
      BY DEF IInv, ConnectionsOwned
    <3>2. IsFiniteSet(retired \cup {cleaning})
          /\ Cardinality(retired \cup {cleaning}) = Cardinality(retired) + 1
      BY <2>1, <3>1, FS_AddElement
    <3> QED  BY <2>3, <3>2 DEF IInv, Counted, CleanupCounted
  <2> QED  BY <2>2, <2>3
<1>4. IsFiniteSet(T) /\ Cardinality(T) <= Cardinality(W)
  <2> HIDE DEF f, T, W
  <2> QED  BY <1>2, <1>3, FS_Surjection
<1>5. g \in Surjection(D, E)
  <2> HIDE DEF D
  <2> QED  BY DEF Surjection
<1>6. IsFiniteSet(D)
  BY FS_Subset DEF IInv, TypeInv
<1>7. IsFiniteSet(E) /\ Cardinality(E) <= Cardinality(D)
  <2> HIDE DEF g, D, E
  <2> QED  BY <1>5, <1>6, FS_Surjection
<1>8. Cardinality(T) \in Nat /\ Cardinality(E) \in Nat
  BY <1>4, <1>7, FS_CardinalityType
<1> QED  BY <1>3, <1>4, <1>7, <1>8

\* ensurePeerSession: a connection never used before, within both caps.
LEMMA CreateLifecycle ==
  ASSUME IInv, NEW key, NEW stream, NEW dc, Create(key, stream, dc)
  PROVE  LifecycleStep
<1> DEFINE ks  == Replaced(key)
           new == created + 1
           cs  == {peers[k].conn : k \in ks}
<1>1. ks \in SUBSET (DOMAIN peers) /\ key \notin DOMAIN peers /\ Retire(ks)
  BY DEF Create, Replaced, Live
<1>2. DOMAIN peers' = (DOMAIN peers \ ks) \cup {key}
  BY DEF Create
<1>3. /\ peers'[key].conn = new
      /\ \A k \in DOMAIN peers \ ks : peers'[k].conn = peers[k].conn
  <2>1. \A k \in DOMAIN peers' : peers'[k] = IF k = key THEN NewPeer(key, stream, dc) ELSE peers[k]
    BY DEF Create
  <2>2. NewPeer(key, stream, dc).conn = new
    BY DEF NewPeer
  <2> QED  BY <1>1, <1>2, <2>1, <2>2
<1>4. new \in Conns /\ created \in Nat /\ created' = new
  <2>1. created \in Nat /\ MaxConns \in Nat
    BY OwnerFacts, BoundAssumption DEF IInv
  <2>2. created < MaxConns /\ created' = created + 1
    BY DEF Create
  <2> QED  BY <2>1, <2>2 DEF Conns
<1>5. cs \in SUBSET LiveConns /\ LiveConns \ cs = {peers[k].conn : k \in DOMAIN peers \ ks}
  <2>1. \A k, o \in DOMAIN peers : peers[k].conn = peers[o].conn => k = o
    BY DEF IInv, ConnectionsOwned
  <2> QED  BY <1>1, <2>1 DEF LiveConns
<1>6. LiveConns' = (LiveConns \ cs) \cup {new}
  <2> HIDE DEF new, cs, ks
  <2>1. LiveConns' = {peers'[k].conn : k \in (DOMAIN peers \ ks) \cup {key}}
    BY <1>2 DEF LiveConns
  <2>2. LiveConns' = {peers[k].conn : k \in DOMAIN peers \ ks} \cup {new}
    BY <1>3, <2>1
  <2> QED  BY <1>5, <2>2
<1>7. QueuedConns' = QueuedConns \cup cs
  <2>1. retired' = retired \cup {Remains(peers[k]) : k \in ks}
    BY <1>1 DEF Retire
  <2>2. \A k \in ks : Remains(peers[k]).conn = peers[k].conn
    BY DEF Remains
  <2> QED  BY <2>1, <2>2 DEF QueuedConns
<1>8. HeldConns' = HeldConns
  BY <1>1 DEF Retire, HeldConns
<1>9. AttachedConns' = AttachedConns \cup {new}
  <2>1. conn' = [conn EXCEPT ![new] = NewConn(key)]
    BY DEF Create
  <2>2. NewConn(key).attached
    BY Zenon DEF NewConn
  <2>3. conn'[new].attached /\ \A c \in Conns : c # new => conn'[c] = conn[c]
    BY <1>4, <2>1, <2>2 DEF IInv, TypeInv, ConnOK
  <2> QED  BY <1>4, <2>3 DEF AttachedConns
<1>10. new \notin 1..created /\ (1..created)' = (1..created) \cup {new}
  BY <1>4
<1>11. Cardinality(QueuedConns \cup HeldConns) < MaxPeers
  <2>1. ~(pending >= MaxPeers)
    BY DEF Create, CleanupBusy
  <2>2. pending \in Int /\ MaxPeers \in Nat
    BY BoundAssumption DEF IInv, TypeInv
  <2> DEFINE n == Cardinality(QueuedConns \cup HeldConns)
  <2>3. n <= pending /\ n \in Nat
    BY <1>1, ConnectionsCounted
  <2> HIDE DEF n
  <2>4. n < MaxPeers
    BY <2>1, <2>2, <2>3
  <2> QED  BY <2>4 DEF n
<1>12. Cardinality(LiveConns \ cs) < MaxPeers
  <2>1. ~(Cardinality(DOMAIN peers \ ks) >= MaxPeers) /\ MaxPeers \in Nat
    BY BoundAssumption DEF Create, Full
  <2>2. Cardinality(DOMAIN peers \ ks) \in Nat
    BY FS_Subset, FS_CardinalityType DEF IInv, TypeInv
  <2>3. /\ Cardinality(LiveConns \ cs) <= Cardinality(DOMAIN peers \ ks)
        /\ Cardinality(LiveConns \ cs) \in Nat
    BY <1>1, <1>5, ConnectionsCounted
  <2> QED  BY <2>1, <2>2, <2>3
<1> HIDE DEF new, cs, ks
<1>13. Lifecycle!Admit(new, cs)
  BY <1>6, <1>7, <1>8, <1>9, <1>10, <1>11, <1>12, SameCount, Zenon DEF Lifecycle!Admit
<1> QED  BY <1>4, <1>5, <1>13, Zenon DEF LifecycleStep, Lifecycle!Next

LEMMA RefuseLifecycle ==
  ASSUME IInv, NEW key, Refuse(key)
  PROVE  LifecycleStep
<1> DEFINE ks == Replaced(key)
<1>1. conn' = conn /\ created' = created /\ ks \in SUBSET (DOMAIN peers)
  BY DEF Refuse, Replaced
<1>2. CASE CleanupBusy
  BY <1>1, <1>2, SameLifecycle DEF Refuse, cleanup
<1>3. CASE ~CleanupBusy
  <2>1. Close(ks)
    BY <1>3 DEF Refuse
  <2> HIDE DEF ks
  <2>2. /\ Retire(ks) /\ DOMAIN peers' = DOMAIN peers \ ks
        /\ \A k \in DOMAIN peers' : peers'[k].conn = peers[k].conn
    BY <2>1 DEF Close
  <2> QED  BY <1>1, <2>2, RetireLifecycle
<1> QED  BY <1>2, <1>3

LEMMA CandidatesAttach ==
  ASSUME TypeInv, NEW k \in DOMAIN peers, NEW i, QueueOrApply(k, i)
  PROVE  \A c \in Conns : conn'[c].attached = conn[c].attached
<1> DEFINE p == peers[k]
<1>1. CASE conn' = conn
  BY <1>1
<1>2. ASSUME NEW a, conn' = [conn EXCEPT ![p.conn].applied = a]
      PROVE  \A c \in Conns : conn'[c].attached = conn[c].attached
  BY <1>2 DEF TypeInv, ConnOK, Connection
<1>3. CASE conn' = [conn EXCEPT ![p.conn].applied =
                      IF conn[p.conn].remote THEN @ \cup {i} ELSE @]
  BY <1>2, <1>3, Zenon
<1> QED  BY <1>1, <1>3 DEF QueueOrApply

LEMMA DispatchLifecycle ==
  ASSUME IInv, NEW t \in Threads, Dispatch(t)
  PROVE  LifecycleStep
<1> DEFINE m == hnd[t].msg
<1>1. CASE HandleOfferRequest(t, m)
  BY <1>1, CreateLifecycle, RefuseLifecycle DEF HandleOfferRequest
<1>2. CASE HandleOffer(t, m)
  <2> DEFINE key == KeyOf(m)
  <2>1. CASE /\ Live(key)
             /\ peers' = [peers EXCEPT ![key].stream = Named(m.stream, @), ![key].ready = FALSE]
             /\ UNCHANGED <<byUuid, globalIce, cleanup, conn, created>>
    <3>1. DOMAIN peers' = DOMAIN peers /\ \A k \in DOMAIN peers : peers'[k].conn = peers[k].conn
      BY <2>1 DEF IInv, TypeInv, TableOK, Peer
    <3> QED  BY <2>1, <3>1, SameLifecycle DEF cleanup
  <2> QED  BY <1>2, <2>1, CreateLifecycle, RefuseLifecycle DEF HandleOffer
<1>3. CASE HandleAnswer(t, m)
  <2>1. DOMAIN peers' = DOMAIN peers /\ \A k \in DOMAIN peers : peers'[k].conn = peers[k].conn
    BY <1>3 DEF HandleAnswer, IInv, TypeInv, TableOK, Peer
  <2> QED  BY <1>3, <2>1, SameLifecycle DEF HandleAnswer, cleanup
<1>4. CASE HandleCandidate(t, m)
  <2>1. CASE UNCHANGED <<peers, conn>>
    BY <1>4, <2>1, SameLifecycle DEF HandleCandidate, cleanup
  <2>2. ASSUME NEW k \in Located(m), NEW i, QueueOrApply(k, i)
        PROVE  LifecycleStep
    <3>1. k \in DOMAIN peers
      BY DEF Located, Live
    <3>2. /\ DOMAIN peers' = DOMAIN peers
          /\ \A o \in DOMAIN peers : peers'[o].conn = peers[o].conn
          /\ \A c \in Conns : conn'[c].attached = conn[c].attached
      BY <2>2, <3>1, CandidatesMove, CandidatesAttach DEF IInv
    <3> QED  BY <1>4, <3>2, SameLifecycle DEF HandleCandidate, cleanup
  <2> QED  BY <1>4, <2>1, <2>2 DEF HandleCandidate
<1>5. CASE HandleSignalingLost(t)
  BY <1>5, SameLifecycle DEF HandleSignalingLost, cleanup
<1> QED  BY <1>1, <1>2, <1>3, <1>4, <1>5 DEF Dispatch

LEMMA HandlerStepLifecycle ==
  ASSUME IInv, NEW t \in Threads, ApplyRemote(t) \/ FinishDescription(t)
  PROVE  LifecycleStep
<1>1. CASE ApplyRemote(t)
  <2>1. \A c \in Conns : conn'[c].attached = conn[c].attached
    BY <1>1 DEF ApplyRemote, IInv, TypeInv, ConnOK, Connection
  <2> QED  BY <1>1, <2>1, SameLifecycle DEF ApplyRemote, table, cleanup
<1>2. CASE FinishDescription(t)
  <2> DEFINE key == hnd[t].key
  <2>1. CASE UNCHANGED <<peers, conn>>
    BY <1>2, <2>1, SameLifecycle DEF FinishDescription, cleanup
  <2>2. ASSUME NEW b \in BOOLEAN, NEW a, NEW r, NEW s,
               peers' = [peers EXCEPT ![key].described = b, ![key].ice = a, ![key].ready = r],
               conn' = [conn EXCEPT ![peers[key].conn].applied = s]
        PROVE  LifecycleStep
    <3>1. DOMAIN peers' = DOMAIN peers /\ \A k \in DOMAIN peers : peers'[k].conn = peers[k].conn
      BY <2>2 DEF IInv, TypeInv, TableOK, Peer
    <3>2. \A c \in Conns : conn'[c].attached = conn[c].attached
      BY <2>2 DEF IInv, TypeInv, ConnOK, Connection
    <3> QED  BY <1>2, <3>1, <3>2, SameLifecycle DEF FinishDescription, cleanup
  <2>3. CASE Live(key)
    <3> DEFINE p == peers[key]
               rest == p.ice \ Delivered(p)
    <3>1. /\ peers' = [peers EXCEPT ![key].described = TRUE, ![key].ice = rest,
                            ![key].ready = @ \/ (rest = {} /\ hnd[t].msg.kind = "answer")]
          /\ conn' = [conn EXCEPT ![p.conn].applied = @ \cup Delivered(p)]
      BY <1>2, <2>3 DEF FinishDescription
    <3> HIDE DEF rest
    <3> QED  BY <2>2, <3>1, Zenon
  <2>4. CASE ~Live(key)
    BY <1>2, <2>1, <2>4 DEF FinishDescription
  <2> QED  BY <2>3, <2>4
<1> QED  BY <1>1, <1>2

LEMMA ChannelsLifecycle ==
  ASSUME IInv, Channels
  PROVE  LifecycleStep
<1>1. ASSUME NEW c \in Conns, DcOpen(c)
      PROVE  LifecycleStep
  <2>1. DOMAIN peers' = DOMAIN peers /\ \A k \in DOMAIN peers : peers'[k].conn = peers[k].conn
    BY <1>1 DEF DcOpen, IInv, TypeInv, TableOK, Peer
  <2>2. \A d \in Conns : conn'[d].attached = conn[d].attached
    BY <1>1 DEF DcOpen, IInv, TypeInv, ConnOK, Connection
  <2> QED  BY <1>1, <2>1, <2>2, SameLifecycle DEF DcOpen, cleanup
<1>2. ASSUME NEW t \in DcThreads, NEW c \in Conns, NEW m \in DcMessages, DcMessage(t, c, m)
      PROVE  LifecycleStep
  <2>1. PICK key : \/ /\ Live(key) /\ peers' = [peers EXCEPT ![key].dc = c]
                      /\ UNCHANGED <<byUuid, globalIce, cleanup, conn, created>>
                   \/ Create(key, OwnStream, c)
                   \/ Refuse(key)
    BY <1>2 DEF DcMessage
  <2>2. CASE /\ Live(key) /\ peers' = [peers EXCEPT ![key].dc = c]
             /\ UNCHANGED <<byUuid, globalIce, cleanup, conn, created>>
    <3>1. DOMAIN peers' = DOMAIN peers /\ \A k \in DOMAIN peers : peers'[k].conn = peers[k].conn
      BY <2>2 DEF IInv, TypeInv, TableOK, Peer
    <3> QED  BY <2>2, <3>1, SameLifecycle DEF cleanup
  <2> QED  BY <2>1, <2>2, CreateLifecycle, RefuseLifecycle
<1> QED  BY <1>1, <1>2 DEF Channels

LEMMA CallbacksLifecycle ==
  ASSUME IInv, Callbacks
  PROVE  LifecycleStep
<1>1. ASSUME NEW c \in Conns, NEW e \in Events, StateChange(c, e)
      PROVE  LifecycleStep
  <2>1. \A d \in Conns : conn'[d].attached = conn[d].attached
    BY <1>1 DEF StateChange, IInv, TypeInv, ConnOK, Connection
  <2> QED  BY <1>1, <2>1, SameLifecycle DEF StateChange, table, cleanup
<1>2. ASSUME NEW c \in Conns, Callback(c)
      PROVE  LifecycleStep
  <2> DEFINE k == conn[c].key
  <2>1. created' = created /\ \A d \in Conns : conn'[d].attached = conn[d].attached
    BY <1>2 DEF Callback, IInv, TypeInv, ConnOK, Connection
  <2>2. CASE UNCHANGED <<peers, byUuid, cleanup>>
    BY <2>1, <2>2, SameLifecycle DEF cleanup
  <2>3. CASE Live(k) /\ Connected(k)
    <3>1. /\ Superseded(k) \in SUBSET (DOMAIN peers) /\ Retire(Superseded(k))
          /\ DOMAIN peers' = DOMAIN peers \ Superseded(k)
      BY <2>3 DEF Superseded, Connected
    <3>2. \A o \in DOMAIN peers' : peers'[o].conn = peers[o].conn
      BY <2>3, <3>1 DEF Connected, IInv, TypeInv, TableOK, Peer
    <3> QED  BY <2>1, <3>1, <3>2, RetireLifecycle
  <2>4. CASE Live(k) /\ Disconnected(k)
    <3>1. DOMAIN peers' = DOMAIN peers /\ \A o \in DOMAIN peers : peers'[o].conn = peers[o].conn
      BY <2>4 DEF Disconnected, IInv, TypeInv, TableOK, Peer
    <3> QED  BY <2>1, <2>4, <3>1, SameLifecycle DEF Disconnected, cleanup
  <2>5. CASE Live(k) /\ Close({k})
    <3> DEFINE ks == {k}
    <3>1. ks \in SUBSET (DOMAIN peers) /\ Close(ks)
      BY <2>5 DEF Live
    <3> HIDE DEF ks
    <3>2. /\ Retire(ks) /\ DOMAIN peers' = DOMAIN peers \ ks
          /\ \A o \in DOMAIN peers' : peers'[o].conn = peers[o].conn
      BY <3>1 DEF Close
    <3> QED  BY <2>1, <3>1, <3>2, RetireLifecycle
  <2> QED  BY <1>2, <2>2, <2>3, <2>4, <2>5 DEF Callback
<1> QED  BY <1>1, <1>2 DEF Callbacks

\* The three steps of the worker are those of the abstract one.
LEMMA TakeLifecycle ==
  ASSUME IInv, TakeRetired
  PROVE  LifecycleStep
<1>1. PICK r \in retired : cleaning' = r /\ retired' = retired \ {r}
  BY DEF TakeRetired
<1>2. cleaning = NoPeer /\ peers' = peers /\ conn' = conn /\ created' = created
  BY DEF TakeRetired, table
<1>3. NoPeer.conn = 0 /\ r.conn # 0
  BY OwnerFacts DEF IInv
<1>4. \A s \in retired : s.conn = r.conn => s = r
  BY DEF IInv, ConnectionsOwned
<1>5. QueuedConns' = QueuedConns \ {r.conn} /\ r.conn \in QueuedConns
  BY <1>1, <1>4 DEF QueuedConns
<1>6. HeldConns = {} /\ HeldConns' = {r.conn}
  BY <1>1, <1>2, <1>3 DEF HeldConns
<1>7. LiveConns' = LiveConns /\ AttachedConns' = AttachedConns /\ (1..created)' = 1..created
  BY <1>2 DEF LiveConns, AttachedConns
<1>8. Lifecycle!Take(r.conn)
  BY <1>5, <1>6, <1>7, Zenon DEF Lifecycle!Take
<1> QED  BY <1>5, <1>8, Zenon DEF LifecycleStep, Lifecycle!Next

LEMMA DetachLifecycle ==
  ASSUME IInv, DetachConnection
  PROVE  LifecycleStep
<1> DEFINE c == cleaning.conn
<1>1. /\ cleaning # NoPeer /\ peers' = peers /\ created' = created
      /\ retired' = retired /\ cleaning' = cleaning
      /\ conn' = [conn EXCEPT ![c].attached = FALSE, ![c].st = "closed"]
  BY DEF DetachConnection, table, cleanup
<1>2. c \in Conns /\ c # 0
  BY <1>1, OwnerFacts DEF IInv
<1>3. AttachedConns' = AttachedConns \ {c}
  <2>1. ASSUME NEW b \in BOOLEAN
        PROVE  LET new == [conn EXCEPT ![c].attached = b, ![c].st = "closed"]
               IN  /\ new[c].attached = b
                   /\ \A d \in Conns : d # c => new[d] = conn[d]
    BY <1>2 DEF IInv, TypeInv, ConnOK, Connection
  <2>2. conn'[c].attached = FALSE /\ \A d \in Conns : d # c => conn'[d] = conn[d]
    BY <1>1, <2>1, Zenon
  <2> HIDE DEF c
  <2> QED  BY <1>2, <2>2 DEF AttachedConns
<1>4. c \in HeldConns
  BY <1>2 DEF HeldConns
<1>5. /\ LiveConns' = LiveConns /\ QueuedConns' = QueuedConns /\ HeldConns' = HeldConns
      /\ (1..created)' = 1..created
  BY <1>1 DEF LiveConns, QueuedConns, HeldConns
<1> HIDE DEF c
<1>6. Lifecycle!Detach(c)
  BY <1>3, <1>5, Zenon DEF Lifecycle!Detach
<1> QED  BY <1>4, <1>6, Zenon DEF LifecycleStep, Lifecycle!Next

LEMMA ReleaseLifecycle ==
  ASSUME IInv, ReleasePeer
  PROVE  LifecycleStep
<1>1. /\ cleaning # NoPeer /\ ~conn[cleaning.conn].attached
      /\ cleaning' = NoPeer /\ peers' = peers /\ created' = created /\ retired' = retired
  BY DEF ReleasePeer, table
<1>2. HeldConns \cap AttachedConns = {}
  BY <1>1 DEF HeldConns, AttachedConns
<1>3. HeldConns' = {}
  BY <1>1, OwnerFacts DEF IInv, HeldConns
<1>4. \A c \in Conns : conn'[c].attached = conn[c].attached
  BY DEF ReleasePeer, IInv, TypeInv, ConnOK, Connection
<1>5. /\ LiveConns' = LiveConns /\ QueuedConns' = QueuedConns /\ AttachedConns' = AttachedConns
      /\ (1..created)' = 1..created
  BY <1>1, <1>4 DEF LiveConns, QueuedConns, AttachedConns
<1>6. Lifecycle!LetGo
  BY <1>2, <1>3, <1>5, Zenon DEF Lifecycle!LetGo
<1> QED  BY <1>6, Zenon DEF LifecycleStep, Lifecycle!Next

LEMMA StartLifecycle ==
  ASSUME IInv, Start
  PROVE  LifecycleStep
<1>1. DOMAIN peers' = {} /\ UNCHANGED <<retired, cleaning, created>>
  BY EmptyTable DEF Start
<1>2. AttachedConns' = AttachedConns \ LiveConns
  <2>1. ASSUME NEW c \in Conns
        PROVE  conn'[c].attached = (conn[c].attached /\ c \notin LiveConns)
    <3>1. conn[c] \in Connection
      BY DEF IInv, TypeInv, ConnOK
    <3>2. CASE c \in LiveConns
      <4>1. conn'[c] = [conn[c] EXCEPT !.attached = FALSE, !.st = "closed"]
        BY <3>2 DEF Start, LiveConns
      <4>2. ASSUME NEW b \in BOOLEAN
            PROVE  [conn[c] EXCEPT !.attached = b, !.st = "closed"].attached = b
        BY <3>1 DEF Connection
      <4>3. conn'[c].attached = FALSE
        BY <4>1, <4>2, Zenon
      <4> QED  BY <3>2, <4>3, Zenon
    <3>3. CASE c \notin LiveConns
      <4>1. conn'[c] = conn[c]
        BY <3>3 DEF Start, LiveConns
      <4>2. conn[c].attached \in BOOLEAN
        BY <3>1 DEF Connection
      <4> QED  BY <3>3, <4>1, <4>2
    <3> QED  BY <3>2, <3>3
  <2> QED  BY <2>1 DEF AttachedConns
<1>3. LiveConns' = {}
  BY <1>1 DEF LiveConns
<1>4. QueuedConns' = QueuedConns /\ HeldConns' = HeldConns /\ (1..created)' = 1..created
  BY <1>1 DEF QueuedConns, HeldConns
<1>5. Lifecycle!Abandon
  BY <1>2, <1>3, <1>4, Zenon DEF Lifecycle!Abandon
<1> QED  BY <1>5, Zenon DEF LifecycleStep, Lifecycle!Next

LEMMA StepLifecycle == IInv /\ [Next]_vars => LifecycleStep
<1> SUFFICES ASSUME IInv, [Next]_vars PROVE LifecycleStep
  OBVIOUS
<1>1. CASE UNCHANGED vars
  BY <1>1, SameLifecycle DEF vars, table, cleanup
<1>2. ASSUME NEW m \in Messages, Receive(m)
      PROVE  LifecycleStep
  BY <1>2, SameLifecycle DEF Receive, table, cleanup
<1>3. CASE CleanupWorker
  <2>1. CASE WorkerExit
    BY <2>1, SameLifecycle DEF WorkerExit, table
  <2> QED  BY <1>3, <2>1, TakeLifecycle, DetachLifecycle, ReleaseLifecycle DEF CleanupWorker
<1>4. CASE StopMark \/ JoinSignaling \/ StopDone
  BY <1>4, SameLifecycle DEF StopMark, JoinSignaling, StopDone, table, cleanup
<1>5. CASE ResetAll
  <2>1. DOMAIN peers' = {}
    BY <1>5, EmptyTable DEF ResetAll
  <2>2. DOMAIN peers' = DOMAIN peers \ DOMAIN peers
    BY <2>1
  <2> QED  BY <1>5, <2>1, <2>2, RetireLifecycle DEF ResetAll
<1> QED  BY <1>1, <1>2, <1>3, <1>4, <1>5, DispatchLifecycle, HandlerStepLifecycle,
            ChannelsLifecycle, CallbacksLifecycle, StartLifecycle DEF Next, Handlers, Stop

LEMMA InitLifecycle == Init => Lifecycle!Init
<1> SUFFICES ASSUME Init PROVE Lifecycle!Init
  OBVIOUS
<1>1. /\ DOMAIN peers = {} /\ retired = {} /\ cleaning = NoPeer /\ created = 0
      /\ NoPeer.conn = 0
  BY DEF Init, NoPeer
<1>2. LiveConns = {} /\ QueuedConns = {} /\ HeldConns = {}
  BY <1>1 DEF LiveConns, QueuedConns, HeldConns
<1>3. AttachedConns = {}
  <2>1. \A c \in Conns : conn[c] = NoConn
    BY DEF Init
  <2>2. ~NoConn.attached
    BY Zenon DEF NoConn
  <2> QED  BY <2>1, <2>2, Zenon DEF AttachedConns
<1>4. 1..created = {}
  BY <1>1
<1> QED  BY <1>2, <1>3, <1>4, Zenon DEF Lifecycle!Init

\* closePeerSession, peerCleanupMain, stop() and start() take each RTC connection once
\* through the table, the queue and the worker; it is let go of only when its callbacks
\* are detached, and no handler or late callback attaches them, or brings it back: the
\* peer table implements ConnectionLifecycle, in either mode and for any cap.
THEOREM ConnectionsAreReleasedOnce == Spec => EachReleasedOnce
<1>1. IInv /\ [Next]_vars => IInv' /\ [Lifecycle!Next]_(Lifecycle!vars)
  BY StepOwned, StepLifecycle DEF LifecycleStep
<1> QED
  BY InitOwned, InitLifecycle, <1>1, PTL DEF Spec, EachReleasedOnce, Lifecycle!Spec
=============================================================================
