--------------------------- MODULE SdkPeersProofs ---------------------------
(***************************************************************************)
(* Theorems about SdkPeers, for any number of connections, sessions,       *)
(* handlers, messages and faults: a viewer connection that leaves the      *)
(* table is closed unless another that the same wait let through takes its *)
(* place, a connection that is up starts from scratch, recovery takes down *)
(* none that is up but by a restart that failed, a connection has at most  *)
(* one restart being prepared more than there were faults, and recovery    *)
(* neither stops halfway nor goes on for ever.                             *)
(***************************************************************************)
EXTENDS SdkPeers, TLAPS

States   == {"none", "new", "up", "down", "failed", "lost", "closed"}
Relays   == {"off", "on", "stuck"}
ConnType == [type : Types, session : 0..MaxSessions, pc : States,
             dc : BOOLEAN, offered : BOOLEAN, remote : 0..MaxSessions,
             fresh : BOOLEAN, ice : 0..MaxSessions, recovering : BOOLEAN,
             restarts : Nat, stage : 0..2, timers : SUBSET Timers, relay : Relays]
JobType  == [kind : {"none", "offer", "play", "request", "join"},
             at : {"idle", "hash", "hashed", "turn", "describe"},
             session : 0..MaxSessions, conn : Conns \cup {0}]

\* Open, and in the table.
Opened(k) == k.pc \notin {"none", "lost", "closed"}

\* A connection that is up has nothing left of its recovery.
Reset(k) ==
  k.pc = "up" => /\ ~k.recovering /\ k.stage = 0
                 /\ "connect" \notin k.timers /\ "disconnect" \notin k.timers
                 /\ k.relay = "on" => "relayRestore" \in k.timers

\* The place of c, whose record is k, in a table whose slots are cur.
Placed(c, k, cur) ==
  /\ Opened(k) => cur[k.type] = c
  /\ k.timers # {} => Opened(k)
  /\ k.restarts > 0 => k.type = "publisher"

\* A table: what its slots hold is open and of their type, only connections in it
\* have timers, and only publishers have restarts to prepare.
Sound(cs, cur) ==
  /\ cs \in [Conns -> ConnType] /\ cur \in [Types -> Conns \cup {0}]
  /\ \A t \in Types : cur[t] # 0 => Opened(cs[cur[t]]) /\ cs[cur[t]].type = t
  /\ \A c \in Conns : Placed(c, cs[c], cur) /\ Reset(cs[c])

LEMMA ZeroIsNone == 0 \notin Conns
  BY DEF Conns

\* A record that nothing is left to run for.
Bare(k) == k \in ConnType /\ ~Opened(k) /\ k.timers = {} /\ k.restarts = 0 /\ Reset(k)

\* Two records that occur everywhere.
LEMMA Blanks == Bare(Closed) /\ Bare(NoConn) /\ Closed.pc = "closed"
<1>1. NoConn \in ConnType
  <2>1. 0 \in 0..MaxSessions
    BY BoundsOK
  <2>2. "none" \in States /\ "viewer" \in Types /\ {} \in SUBSET Timers /\ "off" \in Relays
    BY DEF States, Types, Relays
  <2> QED
    BY <2>1, <2>2 DEF NoConn, ConnType
<1>2. Closed \in ConnType
  BY <1>1 DEF Closed, ConnType, States
<1>3. NoConn.pc = "none" /\ NoConn.timers = {} /\ NoConn.restarts = 0
  BY DEF NoConn
<1>4. Closed.pc = "closed" /\ Closed.timers = {} /\ Closed.restarts = 0
  BY DEF NoConn, Closed
<1> QED
  BY <1>1, <1>2, <1>3, <1>4 DEF Opened, Reset, Bare

\* The connection that is overwritten is open, unheard, and its restart goes on.
LEMMA LostFacts ==
  ASSUME NEW k \in ConnType
  PROVE  /\ Lost(k) \in ConnType /\ ~Opened(Lost(k)) /\ Reset(Lost(k))
         /\ Lost(k).timers = {} /\ Lost(k).type = k.type /\ Lost(k).restarts = k.restarts
         /\ Lost(k).pc = "lost"
<1>1. k.type \in Types /\ k.restarts \in Nat
  BY DEF ConnType
<1>2. Lost(k) \in ConnType
  BY <1>1, Blanks DEF Lost, ConnType, States, Bare
<1>3. /\ Lost(k).type = k.type /\ Lost(k).restarts = k.restarts /\ Lost(k).pc = "lost"
      /\ Lost(k).timers = {}
  BY DEF Lost, NoConn
<1> QED
  BY <1>2, <1>3 DEF Opened, Reset

\* A record that takes the place of k: of the same type, with a restart only for a
\* publisher, in the table if k was.
Replaces(n, k) ==
  /\ n \in ConnType /\ n.type = k.type /\ (Opened(n) <=> Opened(k))
  /\ n.restarts > 0 => k.restarts > 0 \/ k.type = "publisher"

\* A step that changes the record of one connection alone.
LEMMA SoundUpdate ==
  ASSUME NEW cs, NEW cur, Sound(cs, cur), NEW c \in Conns, NEW k, Replaces(k, cs[c]),
         k.timers # {} => Opened(k), Reset(k)
  PROVE  Sound([cs EXCEPT ![c] = k], cur)
<1> DEFINE ds == [cs EXCEPT ![c] = k]
<1>1. ds \in [Conns -> ConnType] /\ ds[c] = k /\ \A d \in Conns : d # c => ds[d] = cs[d]
  BY DEF Sound, Replaces
<1>2. \A t \in Types : cur[t] # 0 => Opened(ds[cur[t]]) /\ ds[cur[t]].type = t
  BY <1>1 DEF Sound, Replaces
<1>3. Placed(c, k, cur)
  BY DEF Sound, Placed, Replaces
<1>4. \A d \in Conns : Placed(d, ds[d], cur) /\ Reset(ds[d])
  BY <1>1, <1>3 DEF Sound
<1> QED
  BY <1>1, <1>2, <1>4 DEF Sound

\* Closing connections of the table empties their slots.
LEMMA SoundClose ==
  ASSUME NEW cs, NEW cur, Sound(cs, cur), NEW types \in SUBSET Types
  PROVE  Sound([c \in Conns |-> IF \E t \in types : cur[t] = c THEN Closed ELSE cs[c]],
               [t \in Types |-> IF t \in types THEN 0 ELSE cur[t]])
<1> DEFINE ds == [c \in Conns |-> IF \E t \in types : cur[t] = c THEN Closed ELSE cs[c]]
           dur == [t \in Types |-> IF t \in types THEN 0 ELSE cur[t]]
<1>1. ds \in [Conns -> ConnType] /\ dur \in [Types -> Conns \cup {0}]
  BY Blanks DEF Sound, Bare
<1>2. ASSUME NEW t \in Types, dur[t] # 0
      PROVE  Opened(ds[dur[t]]) /\ ds[dur[t]].type = t
  <2>1. t \notin types /\ dur[t] = cur[t] /\ cur[t] \in Conns /\ cs[cur[t]].type = t
    BY <1>2 DEF Sound
  <2>2. ~ \E u \in types : cur[u] = cur[t]
    BY <2>1, <1>2 DEF Sound
  <2> QED
    BY <2>1, <2>2, <1>2 DEF Sound
<1>3. ASSUME NEW c \in Conns
      PROVE  Placed(c, ds[c], dur) /\ Reset(ds[c])
  <2>1. CASE \E t \in types : cur[t] = c
    BY <2>1, Blanks DEF Placed, Bare
  <2>2. CASE ~ \E t \in types : cur[t] = c
    <3>1. ds[c] = cs[c] /\ Placed(c, cs[c], cur) /\ Reset(cs[c]) /\ cs[c].type \in Types
      BY <2>2 DEF Sound, ConnType
    <3>2. \A t \in Types : cur[t] = c => dur[t] = c
      BY <2>2
    <3> QED
      BY <3>1, <3>2 DEF Placed
  <2> QED
    BY <2>1, <2>2
<1> QED
  BY <1>1, <1>2, <1>3 DEF Sound

\* Creating a connection takes the slot of its type, from nobody or from one that
\* is then out of the table.
LEMMA SoundCreate ==
  ASSUME NEW cs, NEW cur, Sound(cs, cur), NEW c \in Conns, ~Opened(cs[c]),
         NEW made \in ConnType, made.pc = "new", made.restarts = 0
  PROVE  Sound([d \in Conns |-> IF d = c THEN made
                                ELSE IF d = cur[made.type] THEN Lost(cs[d]) ELSE cs[d]],
               [cur EXCEPT ![made.type] = c])
<1> DEFINE t0 == made.type
           ds == [d \in Conns |-> IF d = c THEN made
                                  ELSE IF d = cur[t0] THEN Lost(cs[d]) ELSE cs[d]]
           dur == [cur EXCEPT ![t0] = c]
<1>1. t0 \in Types /\ Opened(made) /\ Reset(made)
  BY DEF ConnType, Opened, Reset
<1>2. cs \in [Conns -> ConnType] /\ cur \in [Types -> Conns \cup {0}]
  BY DEF Sound
<1>3. ds \in [Conns -> ConnType] /\ dur \in [Types -> Conns \cup {0}]
  BY <1>1, <1>2, LostFacts
<1>4. dur[t0] = c /\ \A t \in Types : t # t0 => dur[t] = cur[t]
  BY <1>1, <1>2
<1>5. ASSUME NEW t \in Types, dur[t] # 0
      PROVE  Opened(ds[dur[t]]) /\ ds[dur[t]].type = t
  <2>1. CASE t = t0
    BY <2>1, <1>1, <1>4
  <2>2. CASE t # t0
    <3>1. dur[t] = cur[t] /\ cur[t] \in Conns /\ Opened(cs[cur[t]]) /\ cs[cur[t]].type = t
      BY <2>2, <1>2, <1>4, <1>5 DEF Sound
    <3>2. cur[t] # c /\ cur[t] # cur[t0]
      BY <3>1, <2>2, <1>1, ZeroIsNone DEF Sound
    <3> QED
      BY <3>1, <3>2
  <2> QED
    BY <2>1, <2>2
<1>6. ASSUME NEW d \in Conns
      PROVE  Placed(d, ds[d], dur) /\ Reset(ds[d])
  <2>1. CASE d = c
    BY <2>1, <1>1, <1>4 DEF Placed
  <2>2. CASE d # c /\ d = cur[t0]
    <3>1. ds[d] = Lost(cs[d]) /\ cs[d] \in ConnType /\ Placed(d, cs[d], cur)
      BY <2>2, <1>1, <1>2, ZeroIsNone DEF Sound
    <3> QED
      BY <3>1, LostFacts DEF Placed
  <2>3. CASE d # c /\ d # cur[t0]
    <3>1. /\ ds[d] = cs[d] /\ Placed(d, cs[d], cur) /\ Reset(cs[d])
          /\ cs[d].type \in Types
      BY <2>3, <1>2 DEF Sound, ConnType
    <3>2. \A t \in Types : cur[t] = d => dur[t] = d
      BY <2>3, <1>4
    <3> QED
      BY <3>1, <3>2 DEF Placed
  <2> QED
    BY <2>1, <2>2, <2>3
<1> QED
  BY <1>3, <1>5, <1>6 DEF Sound

-----------------------------------------------------------------------------
\* Handlers: the connection of one is known when it describes it.
JobOK(job) ==
  /\ job.kind = "none" => job.at = "idle"
  /\ job.at = "describe" => job.conn \in Conns
  /\ job.at # "describe" => job.conn = 0

JobsOK ==
  /\ jobs \in [JobIds -> JobType]
  /\ \A j \in JobIds : JobOK(jobs[j])

CountsOK ==
  /\ issued \in 0..MaxSessions /\ asks \in Nat /\ faults \in Nat
  /\ turn \in {"unknown", "none", "some"}

\* The viewer connection is one that its handler has yet to answer for.
Unanswered(c) == conn[c].pc = "new" /\ Negotiating(c)

\* While the list is not known no viewer connection is made, and none but one that
\* is unanswered while the handler of another offer waits for the list.
Together ==
  /\ turn = "unknown" => current["viewer"] = 0
  /\ (\E j \in JobIds : jobs[j].at = "turn" /\ jobs[j].kind = "offer") =>
       \A c \in Conns : c = current["viewer"] => Unanswered(c)

IInv == Sound(conn, current) /\ JobsOK /\ CountsOK /\ Together

LEMMA NoJobOK == NoJob \in JobType /\ JobOK(NoJob) /\ NoJob.at = "idle"
  BY BoundsOK DEF JobType, NoJob, JobOK

LEMMA InitInv == Init => IInv
<1> SUFFICES ASSUME Init PROVE IInv
  OBVIOUS
<1>1. Sound(conn, current)
  BY Blanks DEF Init, Sound, Placed, Bare
<1>2. JobsOK
  BY NoJobOK DEF Init, JobsOK
<1>3. CountsOK
  BY BoundsOK DEF Init, CountsOK
<1>4. Together
  <2>1. current["viewer"] = 0
    BY DEF Init, Types
  <2> QED
    BY <2>1, ZeroIsNone DEF Together
<1> QED
  BY <1>1, <1>2, <1>3, <1>4 DEF IInv

\* A changed record of the same connection, and the changes that are made.
Same(n, k) == n \in ConnType /\ n.type = k.type /\ n.pc = k.pc /\ n.restarts = k.restarts

LEMMA Fields ==
  ASSUME NEW k \in ConnType, NEW b \in BOOLEAN, NEW s \in 0..2, NEW ts \in SUBSET Timers,
         NEW y \in Relays
  PROVE  /\ Same([k EXCEPT !.timers = ts], k)
         /\ Same([k EXCEPT !.stage = s], k)
         /\ Same([k EXCEPT !.stage = s, !.relay = y], k)
         /\ Same([k EXCEPT !.timers = ts, !.relay = y], k)
         /\ Same([k EXCEPT !.recovering = b, !.timers = ts], k)
         /\ Same([k EXCEPT !.recovering = b, !.stage = s, !.relay = y, !.timers = ts], k)
<1>1. Same([k EXCEPT !.timers = ts], k)
  BY DEF Same, ConnType
<1>2. Same([k EXCEPT !.stage = s], k)
  BY DEF Same, ConnType
<1>3. Same([k EXCEPT !.stage = s, !.relay = y], k)
  BY DEF Same, ConnType
<1>4. Same([k EXCEPT !.timers = ts, !.relay = y], k)
  BY DEF Same, ConnType
<1>5. Same([k EXCEPT !.recovering = b, !.timers = ts], k)
  BY DEF Same, ConnType
<1>6. Same([k EXCEPT !.recovering = b, !.stage = s, !.relay = y, !.timers = ts], k)
  BY DEF Same, ConnType
<1> QED
  BY <1>1, <1>2, <1>3, <1>4, <1>5, <1>6

LEMMA SameReplaces == \A n, k : Same(n, k) => Replaces(n, k)
  BY DEF Same, Replaces, Opened

\* A connection that is up is reset whatever it went through.
LEMMA HealthyIs ==
  ASSUME NEW k \in ConnType
  PROVE  LET ts == (k.timers \cap {"stray"}) \cup (IF k.relay = "off" THEN {} ELSE {"relayRestore"})
             y  == IF k.relay = "off" THEN "off" ELSE "on"
         IN Healthy(k) = [k EXCEPT !.recovering = FALSE, !.stage = 0, !.relay = y, !.timers = ts]
<1>1. CASE k.relay = "off"
  BY <1>1 DEF Healthy, Cleared, ConnType
<1>2. CASE k.relay # "off"
  BY <1>2 DEF Healthy, Cleared, ConnType
<1> QED
  BY <1>1, <1>2

LEMMA HealthyFacts ==
  ASSUME NEW k \in ConnType
  PROVE  Same(Healthy(k), k) /\ Reset(Healthy(k))
<1> DEFINE ts == (k.timers \cap {"stray"}) \cup (IF k.relay = "off" THEN {} ELSE {"relayRestore"})
           y  == IF k.relay = "off" THEN "off" ELSE "on"
<1>1. /\ ts \in SUBSET Timers /\ "connect" \notin ts /\ "disconnect" \notin ts
      /\ y \in Relays /\ (y = "on" => "relayRestore" \in ts)
  BY DEF Timers, Relays
<1>2. Healthy(k) = [k EXCEPT !.recovering = FALSE, !.stage = 0, !.relay = y, !.timers = ts]
  BY HealthyIs
<1> HIDE DEF ts, y
<1>3. FALSE \in BOOLEAN /\ 0 \in 0..2
  OBVIOUS
<1>4. Same(Healthy(k), k)
  <2>1. Same([k EXCEPT !.recovering = FALSE, !.stage = 0, !.relay = y, !.timers = ts], k)
    BY <1>1, <1>3, Fields, Zenon
  <2> QED
    BY <2>1, <1>2, Zenon
<1>5. ~Healthy(k).recovering
  BY <1>2 DEF ConnType
<1>6. Healthy(k).stage = 0 /\ Healthy(k).timers = ts
  BY <1>2 DEF ConnType
<1>7. Healthy(k).relay = y
  BY <1>2 DEF ConnType
<1>8. Healthy(k).relay = "on" => "relayRestore" \in Healthy(k).timers
  BY <1>1, <1>6, <1>7, Zenon
<1>9. "connect" \notin Healthy(k).timers /\ "disconnect" \notin Healthy(k).timers
  BY <1>1, <1>6, Zenon
<1> QED
  BY <1>4, <1>5, <1>6, <1>8, <1>9, Zenon DEF Reset

-----------------------------------------------------------------------------
\* What a step does to the slot of the viewer.
Exchanged ==
  \A c \in Conns : c = current["viewer"] /\ c # current'["viewer"] =>
    \/ conn'[c].pc = "closed"
    \/ conn[c].pc = "new" /\ Negotiating(c) /\ \E j \in JobIds : Created(j)

\* What a step that creates no connection leaves: a sound table, and the slot of the
\* viewer as it was, or empty with its connection closed; and one that spares those
\* that are up.
Kept ==
  /\ Sound(conn', current')
  /\ \/ current'["viewer"] = current["viewer"]
     \/ current'["viewer"] = 0 /\ \A c \in Conns : c = current["viewer"] => conn'[c].pc = "closed"
Spared == \A c \in Conns : conn[c].pc = "up" => conn'[c].pc = "up"

Goes == IInv' /\ Exchanged

LEMMA KeptExchanged == Kept => Exchanged
  BY ZeroIsNone DEF Kept, Exchanged

\* Handlers that wait for the list when it is known go on before anything else.
LEMMA KeptJobs ==
  ASSUME IInv, Kept, JobsOK', CountsOK', Macro, UNCHANGED turn,
         \A j \in JobIds : jobs'[j].at = "turn" /\ jobs'[j].kind = "offer" => jobs[j].at = "turn"
  PROVE  Goes
<1>1. turn = "unknown" => current["viewer"] = 0 /\ current'["viewer"] = 0
  BY DEF IInv, Together, Kept
<1>2. turn # "unknown" => ~ \E j \in JobIds : jobs'[j].at = "turn" /\ jobs'[j].kind = "offer"
  BY DEF Macro, Woken
<1>3. Together'
  BY <1>1, <1>2, ZeroIsNone DEF Together
<1> QED
  BY <1>3, KeptExchanged DEF IInv, Kept, Goes

LEMMA KeptInv ==
  ASSUME IInv, Kept, CountsOK', Macro, UNCHANGED <<turn, jobs>>
  PROVE  Goes
<1>1. JobsOK'
  BY DEF IInv, JobsOK
<1> QED
  BY <1>1, KeptJobs

LEMMA SameTable == IInv /\ UNCHANGED <<conn, current>> => Kept /\ Spared
  BY DEF IInv, Sound, Kept, Spared

\* Giving up closes the connection, and takes another one of its type out of the table.
LEMMA FailIs ==
  ASSUME Sound(conn, current), NEW c \in Conns, Fail(c)
  PROVE  /\ conn'[c] = Closed
         /\ \A d \in Conns : d # c /\ d = current[conn[c].type] => conn'[d] = Lost(conn[d])
         /\ \A d \in Conns : d # c /\ d # current[conn[c].type] => conn'[d] = conn[d]
         /\ current' = [current EXCEPT ![conn[c].type] = 0]
         /\ conn[c].type \in Types /\ conn' \in [Conns -> ConnType]
         /\ current' \in [Types -> Conns \cup {0}]
<1>1. /\ conn \in [Conns -> ConnType] /\ conn[c].type \in Types
      /\ current \in [Types -> Conns \cup {0}]
  BY DEF Sound, ConnType
<1>2. \A d \in Conns : Closed \in ConnType /\ Lost(conn[d]) \in ConnType
  BY <1>1, Blanks, LostFacts DEF Bare
<1> QED
  BY <1>1, <1>2 DEF Fail

LEMMA FailSound ==
  ASSUME Sound(conn, current), NEW c \in Conns, Fail(c)
  PROVE  Sound(conn', current')
<1> DEFINE t0 == conn[c].type
<1>1. \A t \in Types : t # t0 => current'[t] = current[t]
  BY FailIs DEF Sound
<1>2. current'[t0] = 0 /\ t0 \in Types
  BY FailIs DEF Sound
<1>3. ASSUME NEW t \in Types, current'[t] # 0
      PROVE  Opened(conn'[current'[t]]) /\ conn'[current'[t]].type = t
  <2>1. t # t0 /\ current'[t] = current[t] /\ current[t] \in Conns
    BY <1>1, <1>2, <1>3 DEF Sound
  <2>2. Opened(conn[current[t]]) /\ conn[current[t]].type = t
    BY <2>1, <1>3 DEF Sound
  <2>3. current[t] # c /\ current[t] # current[t0]
    BY <1>2, <2>1, <2>2, ZeroIsNone DEF Sound
  <2> QED
    BY <2>1, <2>2, <2>3, FailIs
<1>4. ASSUME NEW d \in Conns
      PROVE  Placed(d, conn'[d], current') /\ Reset(conn'[d])
  <2>1. CASE d = c
    BY <2>1, FailIs, Blanks DEF Placed, Bare
  <2>2. CASE d # c /\ d = current[t0]
    <3>1. conn'[d] = Lost(conn[d]) /\ conn[d] \in ConnType /\ Placed(d, conn[d], current)
      BY <2>2, FailIs DEF Sound
    <3> QED
      BY <3>1, LostFacts DEF Placed
  <2>3. CASE d # c /\ d # current[t0]
    <3>1. conn'[d] = conn[d] /\ Placed(d, conn[d], current) /\ Reset(conn[d]) /\ conn[d].type \in Types
      BY <2>3, FailIs DEF Sound, ConnType
    <3>2. Opened(conn[d]) => conn[d].type # t0
      BY <2>3, <3>1 DEF Placed
    <3> QED
      BY <1>1, <3>1, <3>2 DEF Placed
  <2> QED
    BY <2>1, <2>2, <2>3
<1> QED
  BY <1>3, <1>4, FailIs DEF Sound

LEMMA FailKeeps ==
  ASSUME Sound(conn, current), NEW c \in Conns, Fail(c),
         current[conn[c].type] = c \/ conn[c].type = "publisher"
  PROVE  Kept /\ (current[conn[c].type] = c /\ conn[c].pc # "up" => Spared)
<1> DEFINE t0 == conn[c].type
<1>1. Sound(conn', current')
  BY FailSound
<1>2. t0 \in Types /\ current'[t0] = 0 /\ (t0 # "viewer" => current'["viewer"] = current["viewer"])
  BY FailIs DEF Sound, Types
<1>3. conn'[c].pc = "closed"
  BY FailIs, Blanks
<1>4. t0 = "viewer" \/ current'["viewer"] = current["viewer"]
  BY <1>2
<1>5. Kept
  BY <1>1, <1>2, <1>3, <1>4 DEF Kept, Types
<1>6. ASSUME current[t0] = c, conn[c].pc # "up" PROVE Spared
  BY <1>6, FailIs DEF Spared
<1> QED
  BY <1>5, <1>6

\* A step that changes the record of one connection of the state alone.
LEMMA UpdateKeeps ==
  ASSUME Sound(conn, current), NEW c \in Conns, NEW k, Replaces(k, conn[c]),
         k.timers # {} => Opened(k), Reset(k),
         conn' = [conn EXCEPT ![c] = k], UNCHANGED current
  PROVE  Kept /\ ((conn[c].pc = "up" => k.pc = "up") => Spared)
<1>1. Sound(conn', current')
  BY SoundUpdate
<1>2. conn'[c] = k /\ \A d \in Conns : d # c => conn'[d] = conn[d]
  BY DEF Sound
<1> QED
  BY <1>1, <1>2 DEF Kept, Spared

\* Every way out of _requestConnectionICERestart.
LEMMA RestartKeeps ==
  ASSUME Sound(conn, current), NEW c \in Conns, NEW k, Replaces(k, conn[c]),
         Opened(k), conn[c].pc # "up", k.pc # "up", Restart(c, k)
  PROVE  Kept /\ Spared
<1>0. k \in ConnType /\ current[conn[c].type] = c /\ k.type = conn[c].type
  BY DEF Sound, Placed, Replaces
<1>1. CASE k.type = "publisher"
  <2> DEFINE n == [k EXCEPT !.restarts = @ + 1]
  <2>1. n \in ConnType /\ n.type = k.type /\ n.pc = k.pc
    BY <1>0 DEF ConnType
  <2>2. conn' = [conn EXCEPT ![c] = n] /\ UNCHANGED current
    BY <1>1 DEF Restart
  <2> HIDE DEF n
  <2>3. Replaces(n, conn[c]) /\ Opened(n) /\ n.pc # "up"
    BY <1>0, <1>1, <2>1 DEF Replaces, Opened
  <2> QED
    BY <2>2, <2>3, UpdateKeeps DEF Reset
<1>2. CASE k.type # "publisher" /\ k.dc
  <2> DEFINE n == [k EXCEPT !.timers = @ \cup {"recovery"}]
  <2>1. Same(n, k)
    BY <1>0 DEF ConnType, Timers, Same
  <2>2. conn' = [conn EXCEPT ![c] = n] /\ UNCHANGED current
    BY <1>2 DEF Restart
  <2> HIDE DEF n
  <2>3. Replaces(n, conn[c]) /\ Opened(n) /\ n.pc # "up"
    BY <2>1 DEF Same, Replaces, Opened
  <2> QED
    BY <2>2, <2>3, UpdateKeeps DEF Reset
<1>3. CASE k.type # "publisher" /\ ~k.dc
  BY <1>0, <1>3, FailKeeps DEF Restart
<1> QED
  BY <1>1, <1>2, <1>3

\* The records that _recoverConnection asks a restart for.
Escalating(k, s, y) == [k EXCEPT !.recovering = TRUE, !.timers = @ \ {"recovery"},
                                 !.stage = s, !.relay = y]

LEMMA RecoverIs ==
  ASSUME NEW c \in Conns, NEW k \in ConnType, Recover(c, k)
  PROVE  \/ k.recovering /\ conn' = [conn EXCEPT ![c] = k] /\ UNCHANGED current
         \/ ~k.recovering /\ Fail(c)
         \/ /\ ~k.recovering
            /\ \E s \in {1, 2}, y \in Relays :
                 /\ s = k.stage + 1
                 /\ Restart(c, Escalating(k, s, y))
<1> DEFINE r == [k EXCEPT !.recovering = TRUE, !.timers = @ \ {"recovery"}]
           r1 == [r EXCEPT !.stage = 1]
           r2 == [r EXCEPT !.stage = 2, !.relay = "on"]
<1>1. CASE k.recovering
  BY <1>1 DEF Recover
<1>2. CASE ~k.recovering
  <2>1. \/ Fail(c)
        \/ k.stage = 0 /\ Restart(c, r1)
        \/ k.stage = 1 /\ Restart(c, r2)
    BY <1>2 DEF Recover
  <2>2. r1 = Escalating(k, 1, k.relay) /\ k.relay \in Relays
    BY DEF ConnType, Escalating
  <2>3. r2 = Escalating(k, 2, "on") /\ "on" \in Relays
    BY DEF ConnType, Relays, Escalating
  <2> HIDE DEF r1, r2
  <2>4. k.stage = 0 => 1 = k.stage + 1
    OBVIOUS
  <2>5. k.stage = 1 => 2 = k.stage + 1
    OBVIOUS
  <2>6. Fail(c) \/ \E s \in {1, 2}, y \in Relays : s = k.stage + 1 /\ Restart(c, Escalating(k, s, y))
    BY <2>1, <2>2, <2>3, <2>4, <2>5, Zenon
  <2> QED
    BY <1>2, <2>6, Zenon
<1> QED
  BY <1>1, <1>2

AskedFor(q, k, s) == /\ Same(q, k) /\ q.recovering = TRUE /\ q.stage = s /\ q.dc = k.dc
                     /\ q.timers = k.timers \ {"recovery"}

LEMMA AskedIs ==
  ASSUME NEW k \in ConnType, NEW s \in {1, 2}, NEW y \in Relays
  PROVE  AskedFor(Escalating(k, s, y), k, s)
<1>1. ASSUME NEW b \in BOOLEAN
      PROVE  LET q == [k EXCEPT !.recovering = b, !.timers = @ \ {"recovery"}, !.stage = s, !.relay = y]
             IN /\ Same(q, k) /\ q.recovering = b /\ q.stage = s
                /\ q.timers = k.timers \ {"recovery"} /\ q.dc = k.dc
  <2> DEFINE ts == k.timers \ {"recovery"}
             q == [k EXCEPT !.recovering = b, !.timers = ts, !.stage = s, !.relay = y]
  <2>1. s \in 0..2 /\ ts \in SUBSET Timers
    BY DEF ConnType
  <2> HIDE DEF ts
  <2>2. Same(q, k)
    BY <2>1 DEF Same, ConnType
  <2>3. q.recovering = b /\ q.stage = s /\ q.timers = ts /\ q.dc = k.dc
    BY <2>1 DEF ConnType
  <2> HIDE DEF q
  <2>4. q = [k EXCEPT !.recovering = b, !.timers = @ \ {"recovery"}, !.stage = s, !.relay = y]
    BY DEF q, ts
  <2> QED
    BY <2>2, <2>3, <2>4, Zenon DEF ts
<1>2. TRUE \in BOOLEAN
  OBVIOUS
<1> QED
  BY <1>1, <1>2, Zenon DEF Escalating, AskedFor

\* Every way out of _recoverConnection.
LEMMA RecoverKeeps ==
  ASSUME Sound(conn, current), NEW c \in Conns, NEW k, Replaces(k, conn[c]),
         Opened(k), conn[c].pc # "up", k.pc # "up", Recover(c, k)
  PROVE  Kept /\ Spared
<1>1. k \in ConnType /\ current[conn[c].type] = c
  BY DEF Sound, Placed, Replaces
<1>2. CASE k.recovering /\ conn' = [conn EXCEPT ![c] = k] /\ UNCHANGED current
  BY <1>2, UpdateKeeps DEF Reset
<1>3. CASE Fail(c)
  BY <1>1, <1>3, FailKeeps
<1>4. ASSUME NEW s \in {1, 2}, NEW y \in Relays,
             Restart(c, Escalating(k, s, y))
      PROVE  Kept /\ Spared
  <2> DEFINE q == Escalating(k, s, y)
  <2>1. Same(q, k) /\ Restart(c, q)
    BY <1>1, <1>4, AskedIs DEF AskedFor
  <2> HIDE DEF q
  <2>2. Replaces(q, conn[c]) /\ Opened(q) /\ q.pc # "up"
    BY <2>1 DEF Same, Replaces, Opened
  <2> QED
    BY <2>1, <2>2, RestartKeeps
<1> QED
  BY <1>1, <1>2, <1>3, <1>4, RecoverIs

-----------------------------------------------------------------------------
\* The actions that change the record of one connection.

\* What is in a sound table: the connections that have timers among it.
LEMMA OfTable ==
  ASSUME Sound(conn, current), NEW c \in Conns
  PROVE  /\ conn[c] \in ConnType
         /\ Current(c) <=> Opened(conn[c])
         /\ Opened(conn[c]) => current[conn[c].type] = c
         /\ conn[c].timers # {} => Opened(conn[c])
         /\ conn[c].restarts > 0 => conn[c].type = "publisher"
         /\ Reset(conn[c])
<1>1. conn[c] \in ConnType /\ Placed(c, conn[c], current) /\ Reset(conn[c])
  BY DEF Sound
<1>2. Current(c) => Opened(conn[c])
  BY <1>1, ZeroIsNone DEF Current, Sound, ConnType
<1> QED
  BY <1>1, <1>2 DEF Placed, Current

LEMMA RestartDoneKeeps ==
  ASSUME IInv, NEW c \in Conns, RestartDone(c)
  PROVE  Goes /\ Spared
<1> DEFINE k == conn[c]
           ts == k.timers \cup (IF "recovery" \in k.timers THEN {"stray"} ELSE {"recovery"})
           n1 == [k EXCEPT !.restarts = @ - 1, !.offered = TRUE, !.timers = ts]
           n2 == [k EXCEPT !.restarts = @ - 1]
<1>1. /\ k \in ConnType /\ Reset(k) /\ k.restarts > 0 /\ k.type = "publisher"
      /\ (Current(c) <=> Opened(k)) /\ (k.timers # {} => Opened(k))
  BY OfTable DEF IInv, RestartDone
<1>2. /\ Current(c) => conn' = [conn EXCEPT ![c] = n1]
      /\ ~Current(c) => conn' = [conn EXCEPT ![c] = n2]
      /\ UNCHANGED current
  BY <1>1 DEF RestartDone, ConnType
<1>3. Macro /\ UNCHANGED <<turn, jobs>> /\ CountsOK'
  BY DEF RestartDone, Uncounted, counters, IInv, CountsOK
<1>4. k.restarts - 1 \in Nat /\ TRUE \in BOOLEAN /\ ts \in SUBSET Timers
  BY <1>1 DEF ConnType, Timers
<1> HIDE DEF k, ts
<1>5. ASSUME NEW i \in Nat, NEW b \in BOOLEAN
      PROVE  LET n == [k EXCEPT !.restarts = i, !.offered = b, !.timers = ts]
             IN Replaces(n, k) /\ (Opened(k) => Opened(n)) /\ Reset(n) /\ n.pc = k.pc
  <2> DEFINE n == [k EXCEPT !.restarts = i, !.offered = b, !.timers = ts]
  <2>1. n \in ConnType /\ n.type = k.type /\ n.pc = k.pc
    BY <1>1, <1>4 DEF ConnType
  <2>2. n.recovering = k.recovering /\ n.stage = k.stage /\ n.timers = ts /\ n.relay = k.relay
    BY <1>1, <1>4 DEF ConnType
  <2>3. /\ "connect" \in ts <=> "connect" \in k.timers
        /\ "disconnect" \in ts <=> "disconnect" \in k.timers
        /\ "relayRestore" \in ts <=> "relayRestore" \in k.timers
    BY DEF ts
  <2> HIDE DEF n
  <2>4. Reset(n)
    BY <1>1, <2>1, <2>2, <2>3 DEF Reset
  <2>5. Replaces(n, k) /\ (Opened(k) => Opened(n))
    BY <1>1, <2>1 DEF Replaces, Opened
  <2> QED
    BY <2>1, <2>4, <2>5 DEF n
<1>6. ASSUME NEW i \in Nat
      PROVE  LET n == [k EXCEPT !.restarts = i]
             IN Replaces(n, k) /\ n.timers = k.timers /\ Reset(n) /\ n.pc = k.pc
  BY <1>1 DEF Replaces, Opened, Reset, ConnType
<1>7. Replaces(n1, k) /\ (Opened(k) => Opened(n1)) /\ Reset(n1) /\ n1.pc = k.pc
  BY <1>4, <1>5, Zenon
<1>8. Replaces(n2, k) /\ n2.timers = k.timers /\ Reset(n2) /\ n2.pc = k.pc
  BY <1>4, <1>6, Zenon
<1> HIDE DEF n1, n2
<1>9. Kept /\ Spared
  <2>1. CASE Current(c)
    BY <1>1, <1>2, <1>7, <2>1, UpdateKeeps DEF IInv, k
  <2>2. CASE ~Current(c)
    BY <1>1, <1>2, <1>8, <2>2, UpdateKeeps DEF IInv, k, Opened
  <2> QED
    BY <2>1, <2>2
<1> QED
  BY <1>3, <1>9, KeptInv

\* A restart that fails takes down connections of its type alone.
LEMMA RestartFailsKeeps ==
  ASSUME IInv, NEW c \in Conns, RestartFails(c)
  PROVE  Goes /\ \A d \in Conns : conn[d].pc = "up" /\ conn'[d].pc # "up" => conn[d].type = conn[c].type
<1>1. Sound(conn, current) /\ Fail(c) /\ conn[c].type = "publisher"
  BY OfTable DEF IInv, RestartFails
<1>2. Macro /\ UNCHANGED <<turn, jobs>> /\ CountsOK'
  BY DEF RestartFails, Uncounted, counters, IInv, CountsOK
<1>3. Goes
  BY <1>1, <1>2, FailKeeps, KeptInv
<1>4. ASSUME NEW d \in Conns, conn[d].pc = "up", conn'[d].pc # "up"
      PROVE  conn[d].type = conn[c].type
  <2>1. d = c \/ d = current[conn[c].type]
    BY <1>1, <1>4, FailIs
  <2>2. CASE d = c
    BY <2>2
  <2>3. CASE d = current[conn[c].type]
    BY <1>1, <2>3, FailIs, ZeroIsNone DEF Sound
  <2> QED
    BY <2>1, <2>2, <2>3
<1> QED
  BY <1>3, <1>4

LEMMA UpKeeps ==
  ASSUME IInv, NEW c \in Conns, Up(c)
  PROVE  Goes /\ Spared
<1> DEFINE k == [conn[c] EXCEPT !.pc = "up"]
           n == Healthy(k)
<1>1. conn[c] \in ConnType /\ Opened(conn[c])
  BY OfTable DEF IInv, Up
<1>2. conn' = [conn EXCEPT ![c] = n] /\ UNCHANGED current
  BY DEF Up
<1>3. Macro /\ UNCHANGED <<turn, jobs>> /\ CountsOK'
  BY DEF Up, Uncounted, counters, IInv, CountsOK
<1>4. /\ k \in ConnType /\ k.type = conn[c].type /\ k.restarts = conn[c].restarts
      /\ k.pc = "up"
  BY <1>1 DEF ConnType, States
<1> HIDE DEF k
<1>5. Same(n, k) /\ Reset(n)
  BY <1>4, HealthyFacts
<1> HIDE DEF n
<1>6. Replaces(n, conn[c]) /\ Opened(n) /\ n.pc = "up"
  BY <1>1, <1>4, <1>5 DEF Same, Replaces, Opened
<1>7. Kept /\ Spared
  BY <1>2, <1>5, <1>6, UpdateKeeps DEF IInv
<1> QED
  BY <1>3, <1>7, KeptInv

LEMMA DownKeeps ==
  ASSUME IInv, NEW c \in Conns, Down(c)
  PROVE  Goes /\ faults' # faults
<1> DEFINE k == conn[c]
           n == [k EXCEPT !.pc = "down", !.timers = @ \cup {"disconnect"}]
<1>1. k \in ConnType /\ Opened(k)
  BY OfTable DEF IInv, Down
<1>2. conn' = [conn EXCEPT ![c] = n] /\ UNCHANGED current
  BY <1>1 DEF Down
<1>3. Macro /\ UNCHANGED <<turn, jobs>> /\ CountsOK' /\ faults' # faults
  BY DEF Down, Faulty, IInv, CountsOK
<1>4. /\ n \in ConnType /\ n.type = k.type /\ n.restarts = k.restarts /\ n.pc = "down"
  BY <1>1 DEF ConnType, Timers, States
<1> HIDE DEF n
<1>5. Replaces(n, k) /\ Opened(n) /\ Reset(n)
  BY <1>1, <1>4 DEF Replaces, Opened, Reset
<1>6. Kept
  BY <1>2, <1>5, UpdateKeeps DEF IInv
<1> QED
  BY <1>3, <1>6, KeptInv

LEMMA FailsKeeps ==
  ASSUME IInv, NEW c \in Conns, Fails(c)
  PROVE  Goes /\ Spared
<1> DEFINE k == [conn[c] EXCEPT !.pc = "failed", !.fresh = FALSE, !.timers = @ \ {"disconnect"}]
<1>1. conn[c] \in ConnType /\ Opened(conn[c]) /\ conn[c].pc # "up"
  BY OfTable DEF IInv, Fails
<1>2. Recover(c, k)
  BY DEF Fails
<1>3. Macro /\ UNCHANGED <<turn, jobs>> /\ CountsOK'
  BY DEF Fails, Faulty, IInv, CountsOK
<1>4. /\ k \in ConnType /\ k.type = conn[c].type /\ k.restarts = conn[c].restarts
      /\ k.pc = "failed"
  BY <1>1 DEF ConnType, States
<1> HIDE DEF k
<1>5. Replaces(k, conn[c]) /\ Opened(k) /\ k.pc # "up"
  BY <1>1, <1>4 DEF Replaces, Opened
<1>6. Kept /\ Spared
  BY <1>1, <1>2, <1>5, RecoverKeeps DEF IInv
<1> QED
  BY <1>3, <1>6, KeptInv

LEMMA TimerKeeps ==
  ASSUME IInv, NEW c \in Conns, NEW t \in {"connect", "disconnect"}, Timer(c, t)
  PROVE  Goes /\ Spared
<1> DEFINE k == [conn[c] EXCEPT !.timers = @ \ {t}]
<1>1. conn[c] \in ConnType /\ Opened(conn[c]) /\ Reset(conn[c])
  BY OfTable DEF IInv, Timer
<1>2. Macro /\ UNCHANGED <<turn, jobs>> /\ CountsOK'
  BY DEF Timer, Uncounted, counters, IInv, CountsOK
<1>3. Same(k, conn[c])
  BY <1>1 DEF Same, ConnType
<1>4. CASE k.pc = "up"
  <2>1. conn[c].pc = "up" /\ t \in conn[c].timers
    BY <1>3, <1>4 DEF Same, Timer
  <2> QED
    BY <1>1, <2>1 DEF Reset
<1>5. CASE k.pc # "up"
  <2>1. Recover(c, k)
    BY <1>5 DEF Timer
  <2> HIDE DEF k
  <2>2. Replaces(k, conn[c]) /\ Opened(k) /\ conn[c].pc # "up"
    BY <1>1, <1>3, <1>5 DEF Same, Replaces, Opened
  <2>3. Kept /\ Spared
    BY <1>5, <2>1, <2>2, RecoverKeeps DEF IInv
  <2> QED
    BY <1>2, <2>3, KeptInv
<1> QED
  BY <1>4, <1>5

LEMMA RecoveryTimerKeeps ==
  ASSUME IInv, NEW c \in Conns, RecoveryTimer(c)
  PROVE  Goes /\ Spared
<1> DEFINE left == IF {"recovery", "stray"} \subseteq conn[c].timers THEN {"stray"} ELSE {}
           k == [conn[c] EXCEPT !.recovering = FALSE,
                                !.timers = (@ \ {"recovery", "stray"}) \cup left]
<1>1. conn[c] \in ConnType /\ Opened(conn[c])
  BY OfTable DEF IInv, RecoveryTimer
<1>2. Macro /\ UNCHANGED <<turn, jobs>> /\ CountsOK'
  BY DEF RecoveryTimer, Uncounted, counters, IInv, CountsOK
<1>3. Same(k, conn[c])
  <2>1. /\ FALSE \in BOOLEAN /\ 0 \in 0..2 /\ "off" \in Relays
        /\ (conn[c].timers \ {"recovery", "stray"}) \cup left \in SUBSET Timers
    BY <1>1 DEF ConnType, Timers, Relays
  <2> HIDE DEF left
  <2> QED
    BY <1>1, <2>1, Fields
<1>4. IF k.pc = "up" THEN conn' = [conn EXCEPT ![c] = Healthy(k)] /\ UNCHANGED current
                     ELSE Recover(c, k)
  BY DEF RecoveryTimer
<1> HIDE DEF k
<1>5. CASE k.pc = "up"
  <2>1. Same(Healthy(k), k) /\ Reset(Healthy(k))
    BY <1>3, HealthyFacts DEF Same
  <2>2. Replaces(Healthy(k), conn[c]) /\ Opened(Healthy(k)) /\ Healthy(k).pc = "up"
    BY <1>3, <1>5, <2>1 DEF Same, Replaces, Opened
  <2>3. Kept /\ Spared
    BY <1>4, <1>5, <2>1, <2>2, UpdateKeeps DEF IInv
  <2> QED
    BY <1>2, <2>3, KeptInv
<1>6. CASE k.pc # "up"
  <2>1. Replaces(k, conn[c]) /\ Opened(k) /\ conn[c].pc # "up"
    BY <1>1, <1>3, <1>6 DEF Same, Replaces, Opened
  <2>2. Kept /\ Spared
    BY <1>4, <1>6, <2>1, RecoverKeeps DEF IInv
  <2> QED
    BY <1>2, <2>2, KeptInv
<1> QED
  BY <1>5, <1>6

LEMMA RelayRestoreKeeps ==
  ASSUME IInv, NEW c \in Conns, RelayRestore(c)
  PROVE  Goes /\ Spared
<1> DEFINE k == conn[c]
           n(y) == [k EXCEPT !.timers = @ \ {"relayRestore"}, !.relay = y]
<1>1. k \in ConnType /\ Opened(k) /\ Reset(k)
  BY OfTable DEF IInv, RelayRestore
<1>2. PICK y \in {"off", "stuck"} : conn' = [conn EXCEPT ![c] = n(y)]
  BY DEF RelayRestore, IInv, Sound
<1>3. Macro /\ UNCHANGED <<current, turn, jobs>> /\ CountsOK'
  BY DEF RelayRestore, Uncounted, counters, IInv, CountsOK
<1>4. Same(n(y), k)
  BY <1>1 DEF Same, ConnType, Relays
<1>5. Reset(n(y))
  BY <1>1 DEF Reset, ConnType
<1> HIDE DEF n
<1>6. Replaces(n(y), k) /\ Opened(n(y)) /\ n(y).pc = k.pc
  BY <1>1, <1>4 DEF Same, Replaces, Opened
<1>7. Kept /\ Spared
  BY <1>2, <1>3, <1>5, <1>6, UpdateKeeps DEF IInv
<1> QED
  BY <1>3, <1>7, KeptInv

\* A step that touches neither timers nor recovery nor state of a connection.
Untouched(n, k) ==
  /\ Same(n, k) /\ n.timers = k.timers /\ n.recovering = k.recovering
  /\ n.stage = k.stage /\ n.relay = k.relay

LEMMA MarkKeeps ==
  ASSUME Sound(conn, current), NEW c \in Conns, NEW n,
         Untouched(n, conn[c]), conn' = [conn EXCEPT ![c] = n], UNCHANGED current
  PROVE  Kept /\ Spared
<1>1. Reset(conn[c]) /\ (conn[c].timers # {} => Opened(conn[c]))
  BY OfTable
<1>2. Reset(n) /\ (n.timers # {} => Opened(n)) /\ n.pc = conn[c].pc
  BY <1>1 DEF Untouched, Same, Reset, Opened
<1>3. Replaces(n, conn[c])
  BY SameReplaces DEF Untouched
<1> QED
  BY <1>2, <1>3, UpdateKeeps

LEMMA DataChannelKeeps ==
  ASSUME IInv, NEW c \in Conns, DataChannelOpens(c)
  PROVE  Goes /\ Spared
<1> DEFINE k == conn[c]
           n == [k EXCEPT !.dc = TRUE]
<1>1. k \in ConnType
  BY OfTable DEF IInv
<1>2. conn' = [conn EXCEPT ![c] = n] /\ UNCHANGED current
  BY <1>1 DEF DataChannelOpens
<1>3. Macro /\ UNCHANGED <<turn, jobs>> /\ CountsOK'
  BY DEF DataChannelOpens, Uncounted, counters, IInv, CountsOK
<1>4. Untouched(n, k)
  <2> HIDE DEF k
  <2>1. ASSUME NEW b \in BOOLEAN
        PROVE  Untouched([k EXCEPT !.dc = b], k)
    BY <1>1 DEF Untouched, Same, ConnType
  <2> QED
    BY <2>1, Zenon
<1> HIDE DEF n
<1>5. Kept /\ Spared
  BY <1>2, <1>4, MarkKeeps DEF IInv
<1> QED
  BY <1>3, <1>5, KeptInv

LEMMA AnswerKeeps ==
  ASSUME IInv, NEW s \in Sessions, Answer(s)
  PROVE  Goes /\ Spared
<1>1. PICK c \in Conns :
         /\ c = current["publisher"]
         /\ conn' = [conn EXCEPT ![c].offered = FALSE, ![c].remote = s, ![c].fresh = TRUE]
  BY DEF Answer
<1> DEFINE k == conn[c]
           n == [k EXCEPT !.offered = FALSE, !.remote = s, !.fresh = TRUE]
<1>2. k \in ConnType /\ conn \in [Conns -> ConnType]
  BY OfTable DEF IInv, Sound
<1>3. conn' = [conn EXCEPT ![c] = n]
  BY <1>1, <1>2
<1>4. Macro /\ UNCHANGED <<current, turn, jobs>> /\ CountsOK'
  BY DEF Answer, Heard, counters, IInv, CountsOK
<1>5. Untouched(n, k)
  <2>1. s \in 0..MaxSessions /\ TRUE \in BOOLEAN /\ FALSE \in BOOLEAN
    BY BoundsOK DEF Sessions
  <2> HIDE DEF k
  <2>2. ASSUME NEW a \in BOOLEAN, NEW b \in BOOLEAN
        PROVE  Untouched([k EXCEPT !.offered = a, !.remote = s, !.fresh = b], k)
    BY <1>2, <2>1 DEF Untouched, Same, ConnType
  <2> QED
    BY <2>1, <2>2, Zenon
<1> HIDE DEF n
<1>6. Kept /\ Spared
  BY <1>3, <1>4, <1>5, MarkKeeps DEF IInv
<1> QED
  BY <1>4, <1>6, KeptInv

LEMMA CandidatesKeeps ==
  ASSUME IInv, NEW t \in Types, NEW s \in Sessions, Candidates(t, s)
  PROVE  Goes /\ Spared
<1>1. PICK c \in Conns : c = current[t] /\ conn' = [conn EXCEPT ![c].ice = s]
  BY DEF Candidates
<1> DEFINE k == conn[c]
           n == [k EXCEPT !.ice = s]
<1>2. k \in ConnType /\ conn \in [Conns -> ConnType]
  BY OfTable DEF IInv, Sound
<1>3. conn' = [conn EXCEPT ![c] = n]
  BY <1>1, <1>2
<1>4. Macro /\ UNCHANGED <<current, turn, jobs>> /\ CountsOK'
  BY DEF Candidates, Heard, counters, IInv, CountsOK
<1>5. Untouched(n, k)
  <2>1. s \in 0..MaxSessions
    BY BoundsOK DEF Sessions
  <2> HIDE DEF k
  <2> QED
    BY <1>2, <2>1 DEF Untouched, Same, ConnType
<1> HIDE DEF n
<1>6. Kept /\ Spared
  BY <1>3, <1>4, <1>5, MarkKeeps DEF IInv
<1> QED
  BY <1>4, <1>6, KeptInv

\* An offer goes out on c: made by a handler, or asked for by the viewer.
LEMMA OfferedKeeps ==
  ASSUME Sound(conn, current), NEW c \in Conns,
         conn' = [conn EXCEPT ![c].offered = TRUE], UNCHANGED current
  PROVE  Kept /\ Spared
<1> DEFINE k == conn[c]
           n == [k EXCEPT !.offered = TRUE]
<1>1. k \in ConnType /\ conn \in [Conns -> ConnType]
  BY DEF Sound
<1>2. conn' = [conn EXCEPT ![c] = n]
  BY <1>1
<1>3. Untouched(n, k)
  <2> HIDE DEF k
  <2>1. ASSUME NEW b \in BOOLEAN
        PROVE  Untouched([k EXCEPT !.offered = b], k)
    BY <1>1 DEF Untouched, Same, ConnType
  <2> QED
    BY <2>1, Zenon
<1> HIDE DEF n
<1> QED
  BY <1>2, <1>3, MarkKeeps

LEMMA RestartRequestKeeps ==
  ASSUME IInv, NEW c \in Conns, RestartRequest(c)
  PROVE  Goes /\ Spared
<1>1. conn' = [conn EXCEPT ![c].offered = TRUE]
  BY DEF RestartRequest
<1>2. Macro /\ UNCHANGED <<current, turn, jobs>> /\ CountsOK'
  BY DEF RestartRequest, Asked, IInv, CountsOK
<1>3. Kept /\ Spared
  BY <1>1, <1>2, OfferedKeeps DEF IInv
<1> QED
  BY <1>2, <1>3, KeptInv

-----------------------------------------------------------------------------
\* The actions that close connections of the table.

LEMMA CloseKept ==
  ASSUME Sound(conn, current), NEW types \in SUBSET Types, CloseAll(types)
  PROVE  Kept /\ ("viewer" \in types => current'["viewer"] = 0)
<1>1. Sound(conn', current')
  BY SoundClose DEF CloseAll
<1>2. CASE "viewer" \in types
  <2>1. current'["viewer"] = 0
    BY <1>2 DEF CloseAll
  <2>2. \A c \in Conns : c = current["viewer"] => conn'[c].pc = "closed"
    BY <1>2, Blanks DEF CloseAll
  <2> QED
    BY <1>1, <2>1, <2>2 DEF Kept
<1>3. CASE "viewer" \notin types
  BY <1>1, <1>3 DEF Kept, CloseAll, Types
<1> QED
  BY <1>2, <1>3

LEMMA CloseKeeps ==
  ASSUME IInv, NEW types \in SUBSET Types, CloseAll(types), Macro,
         UNCHANGED <<turn, jobs>>, CountsOK'
  PROVE  Goes
  BY CloseKept, KeptInv DEF IInv

LEMMA ByeKeeps == IInv /\ ByeOrHangup => Goes /\ asks' # asks
<1> SUFFICES ASSUME IInv, ByeOrHangup PROVE Goes /\ asks' # asks
  OBVIOUS
<1>1. Macro /\ CountsOK' /\ asks' # asks /\ UNCHANGED <<turn, jobs>> /\ CloseAll(Types)
  BY DEF ByeOrHangup, Asked, IInv, CountsOK
<1> QED
  BY <1>1, CloseKeeps

LEMMA StopFlushedKeeps ==
  ASSUME IInv, NEW t \in Types, StopFlushed(t)
  PROVE  Goes /\ leaving' # leaving
<1>1. Macro /\ CountsOK' /\ leaving' # leaving /\ UNCHANGED <<turn, jobs>> /\ CloseAll({t})
  BY DEF StopFlushed, Uncounted, counters, IInv, CountsOK
<1>2. {t} \in SUBSET Types
  OBVIOUS
<1> QED
  BY <1>1, <1>2, CloseKeeps

LEMMA TeardownKeeps == IInv /\ Teardown => Goes /\ life' # life
<1> SUFFICES ASSUME IInv, Teardown PROVE Goes /\ life' # life
  OBVIOUS
<1>1. Macro /\ CountsOK' /\ life' # life /\ UNCHANGED <<turn, jobs>> /\ CloseAll(Types)
  BY DEF Teardown, Uncounted, counters, IInv, CountsOK
<1> QED
  BY <1>1, CloseKeeps

LEMMA LeavingKeeps ==
  ASSUME IInv, Disconnect \/ \E t \in Types : Stop(t)
  PROVE  Goes /\ Spared
<1>1. Macro /\ UNCHANGED <<conn, current, turn, jobs>> /\ CountsOK'
  BY DEF Disconnect, Stop, Asked, table, IInv, CountsOK
<1> QED
  BY <1>1, SameTable, KeptInv

-----------------------------------------------------------------------------
\* The actions of handlers.

\* A handler goes on: what is left of it is a job.
LEMMA JobSet ==
  ASSUME JobsOK, NEW j \in JobIds, NEW job \in JobType, JobOK(job),
         jobs' = [jobs EXCEPT ![j] = job]
  PROVE  /\ JobsOK' /\ jobs'[j] = job
         /\ \A i \in JobIds : i # j => jobs'[i] = jobs[i]
  BY DEF JobsOK

LEMMA StartsKeeps ==
  ASSUME IInv, NEW kind \in {"offer", "play", "request", "join"}, NEW s \in 0..MaxSessions,
         NEW at \in {"hash", "turn"}, kind = "offer" => at = "hash", Starts(kind, s, at)
  PROVE  Goes /\ Spared
<1> DEFINE job == [kind |-> kind, at |-> at, session |-> s, conn |-> 0]
<1>1. PICK j \in JobIds : jobs' = [jobs EXCEPT ![j] = job]
  BY DEF Starts
<1>2. Macro /\ UNCHANGED <<conn, current, turn>> /\ CountsOK'
  BY DEF Starts, Asked, table, IInv, CountsOK
<1>3. job \in JobType /\ JobOK(job) /\ job.kind = kind /\ job.at = at
  BY DEF JobType, JobOK
<1> HIDE DEF job
<1>4. JobsOK' /\ \A i \in JobIds : jobs'[i].at = "turn" /\ jobs'[i].kind = "offer" => jobs[i].at = "turn"
  BY <1>1, <1>3, JobSet DEF IInv
<1> QED
  BY <1>2, <1>4, SameTable, KeptJobs

LEMMA HashReadyKeeps ==
  ASSUME IInv, NEW ready \in SUBSET JobIds, HashReady(ready)
  PROVE  Goes /\ Spared
<1>1. Macro /\ UNCHANGED <<conn, current, turn>> /\ CountsOK'
  BY DEF HashReady, Uncounted, counters, table, IInv, CountsOK
<1>2. /\ jobs' = [j \in JobIds |-> IF j \in ready THEN [jobs[j] EXCEPT !.at = "hashed"] ELSE jobs[j]]
      /\ \A j \in ready : jobs[j].at = "hash"
  BY DEF HashReady
<1>3. ASSUME NEW j \in JobIds
      PROVE  /\ jobs'[j] \in JobType /\ JobOK(jobs'[j])
             /\ jobs'[j].at = "turn" => jobs[j].at = "turn"
  <2> DEFINE job == jobs[j]
             next == [job EXCEPT !.at = "hashed"]
  <2>1. job \in JobType /\ JobOK(job) /\ jobs'[j] = IF j \in ready THEN next ELSE job
    BY <1>2 DEF IInv, JobsOK
  <2>2. ASSUME job.at = "hash" PROVE next \in JobType /\ JobOK(next) /\ next.at = "hashed"
    BY <2>1, <2>2 DEF JobType, JobOK
  <2> HIDE DEF next
  <2> QED
    BY <1>2, <2>1, <2>2
<1>4. JobsOK'
  BY <1>2, <1>3 DEF JobsOK
<1> QED
  BY <1>1, <1>3, <1>4, SameTable, KeptJobs

LEMMA PlayHashedKeeps ==
  ASSUME IInv, NEW j \in JobIds, PlayHashed(j)
  PROVE  Goes /\ jobs' # jobs
<1> DEFINE old == jobs[j]
           job == IF publishing THEN [old EXCEPT !.at = "turn"] ELSE NoJob
<1>1. old \in JobType /\ JobOK(old) /\ old.kind = "play" /\ old.at = "hashed"
  BY DEF PlayHashed, IInv, JobsOK
<1>2. UNCHANGED <<conn, current, turn, issued, asks, faults>> /\ jobs' = [jobs EXCEPT ![j] = job]
  BY DEF PlayHashed, table, counters, IInv, JobsOK
<1>3. job \in JobType /\ JobOK(job) /\ job.kind \in {"play", "none"} /\ job.at # "hashed"
  BY <1>1, NoJobOK DEF JobType, JobOK, NoJob
<1> HIDE DEF job
<1>4. /\ JobsOK' /\ jobs'[j].kind # "offer" /\ jobs' # jobs
      /\ \A i \in JobIds : i # j => jobs'[i] = jobs[i]
  BY <1>1, <1>2, <1>3, JobSet DEF IInv
<1>5. CountsOK'
  BY <1>2 DEF IInv, CountsOK
<1>6. \A c \in Conns : Unanswered(c) => Unanswered(c)'
  BY <1>1, <1>2, <1>4, ZeroIsNone DEF Unanswered, Negotiating, JobOK
<1>7. Together'
  BY <1>2, <1>4, <1>6 DEF IInv, Together
<1> QED
  BY <1>2, <1>4, <1>5, <1>7, SameTable, KeptExchanged DEF IInv, Kept, Goes

\* An offer of the session that the viewer connection is of.
LEMMA RenegotiatesKeeps ==
  ASSUME IInv, NEW j \in JobIds, jobs[j].at = "hashed", Reused(j, current["viewer"]),
         Renegotiates(j, current["viewer"]), UNCHANGED <<turn, issued, counters>>
  PROVE  Goes /\ jobs' # jobs
<1> DEFINE v == current["viewer"]
           k == conn[v]
           old == jobs[j]
           n == [k EXCEPT !.remote = old.session, !.fresh = TRUE]
           next == [old EXCEPT !.at = "describe", !.conn = v]
<1>1. /\ v \in Conns /\ k \in ConnType /\ conn \in [Conns -> ConnType]
      /\ old \in JobType /\ JobOK(old) /\ old.kind # "none" /\ old.at = "hashed"
  BY DEF Reused, IInv, Sound, Types, JobsOK, JobOK
<1>2. /\ conn' = [conn EXCEPT ![v] = n] /\ jobs' = [jobs EXCEPT ![j] = next]
      /\ UNCHANGED <<current, turn, issued, asks, faults>>
  BY <1>1 DEF Renegotiates, counters, IInv, JobsOK
<1>3. Untouched(n, k)
  <2>1. old.session \in 0..MaxSessions /\ TRUE \in BOOLEAN
    BY <1>1 DEF JobType
  <2> HIDE DEF k, old
  <2>2. ASSUME NEW b \in BOOLEAN
        PROVE  Untouched([k EXCEPT !.remote = old.session, !.fresh = b], k)
    BY <1>1, <2>1 DEF Untouched, Same, ConnType
  <2> QED
    BY <2>1, <2>2, Zenon
<1>4. next \in JobType /\ JobOK(next) /\ next.at = "describe" /\ next.conn = v
  BY <1>1 DEF JobType, JobOK
<1> HIDE DEF n, next
<1>5. Kept
  BY <1>1, <1>2, <1>3, MarkKeeps DEF IInv
<1>6. /\ JobsOK' /\ jobs'[j] = next /\ jobs' # jobs
      /\ \A i \in JobIds : i # j => jobs'[i] = jobs[i]
  BY <1>1, <1>2, <1>4, JobSet DEF IInv
<1>7. CountsOK'
  BY <1>2 DEF IInv, CountsOK
<1>8. turn # "unknown"
  BY <1>1, ZeroIsNone DEF IInv, Together
<1>9. Unanswered(v) => Unanswered(v)'
  BY <1>1, <1>2, <1>3, <1>4, <1>6 DEF Unanswered, Negotiating, Untouched, Same
<1>10. Together'
  BY <1>2, <1>4, <1>6, <1>8, <1>9 DEF IInv, Together
<1> QED
  BY <1>5, <1>6, <1>7, <1>10, KeptExchanged DEF IInv, Kept, Goes

\* An offer of another session empties the slot, and waits for the list.
LEMMA OfferHashedKeeps ==
  ASSUME IInv, NEW j \in JobIds, OfferHashed(j)
  PROVE  Goes /\ jobs' # jobs
<1>1. jobs[j].at = "hashed" /\ UNCHANGED <<turn, issued, counters>>
  BY DEF OfferHashed
<1>2. CASE Reused(j, current["viewer"]) /\ Renegotiates(j, current["viewer"])
  BY <1>1, <1>2, RenegotiatesKeeps
<1>3. CASE CloseAll({"viewer"}) /\ jobs' = [jobs EXCEPT ![j].at = "turn"]
  <2> DEFINE old == jobs[j]
             next == [old EXCEPT !.at = "turn"]
  <2>1. old \in JobType /\ JobOK(old) /\ old.at = "hashed"
    BY <1>1 DEF IInv, JobsOK
  <2>2. jobs' = [jobs EXCEPT ![j] = next]
    BY <1>3 DEF IInv, JobsOK
  <2>3. next \in JobType /\ JobOK(next) /\ next.at = "turn"
    BY <2>1 DEF JobType, JobOK
  <2> HIDE DEF next
  <2>4. JobsOK' /\ jobs' # jobs
    BY <2>1, <2>2, <2>3, JobSet DEF IInv
  <2>5. Kept /\ current'["viewer"] = 0
    BY <1>3, CloseKept DEF IInv, Types
  <2>6. CountsOK'
    BY <1>1 DEF IInv, CountsOK, counters
  <2>7. Together'
    BY <2>5, ZeroIsNone DEF Together
  <2> QED
    BY <2>4, <2>5, <2>6, <2>7, KeptExchanged DEF IInv, Kept, Goes
<1> QED
  BY <1>2, <1>3 DEF OfferHashed

\* The records of a connection that is made for an offer of the remote, with its
\* description, and of one that is made to send an offer.
Blank(type)   == [NoConn EXCEPT !.type = type, !.pc = "new", !.timers = {"connect"}]
Seen(type, s) == [Blank(type) EXCEPT !.session = s, !.remote = s, !.fresh = TRUE]
Sent(type, s) == [Blank(type) EXCEPT !.session = s]

\* Nothing behind it, and twenty seconds.
New(n) == /\ n.pc = "new" /\ n.timers = {"connect"} /\ n.restarts = 0 /\ n.stage = 0
          /\ ~n.recovering
Made(n, type) == n \in ConnType /\ n.type = type /\ New(n)

LEMMA MadeFacts ==
  ASSUME NEW type \in Types, NEW s \in 0..MaxSessions
  PROVE  Made(Seen(type, s), type) /\ Made(Sent(type, s), type)
<1>1. Made(Blank(type), type)
  <2>1. Blank(type) \in ConnType
    BY Blanks DEF Blank, Bare, ConnType, States, Timers
  <2>2. New(Blank(type)) /\ Blank(type).type = type
    BY DEF Blank, NoConn, New
  <2> QED
    BY <2>1, <2>2 DEF Made
<1>2. Made(Sent(type, s), type)
  BY <1>1 DEF Sent, Made, New, ConnType
<1>3. Made(Seen(type, s), type)
  <2>1. ASSUME NEW b \in BOOLEAN
        PROVE  Made([Blank(type) EXCEPT !.session = s, !.remote = s, !.fresh = b], type)
    BY <1>1 DEF Made, New, ConnType
  <2> QED
    BY <2>1, Zenon DEF Seen
<1> QED
  BY <1>2, <1>3

\* The table that the creation of a connection for handler j leaves.
CreatedType(j) == IF jobs[j].kind = "offer" THEN "viewer" ELSE "publisher"
Puts(j, c, new) ==
  /\ Made(new, CreatedType(j))
  /\ conn' = [d \in Conns |-> IF d = c THEN new
                              ELSE IF d = current[CreatedType(j)] THEN Lost(conn[d]) ELSE conn[d]]
  /\ current' = [current EXCEPT ![CreatedType(j)] = c]
  /\ jobs' = [jobs EXCEPT ![j] = [jobs[j] EXCEPT !.at = "describe", !.conn = c]]

LEMMA CreatedPuts ==
  ASSUME IInv, NEW j \in JobIds, Created(j)
  PROVE  /\ \E c \in Conns, new \in ConnType : Unused(c) /\ Puts(j, c, new)
         /\ turn # "unknown" /\ jobs[j] \in JobType /\ JobOK(jobs[j]) /\ jobs[j].at = "turn"
         /\ UNCHANGED <<turn, asks, faults>> /\ issued' \in 0..MaxSessions
<1> DEFINE job  == jobs[j]
           type == CreatedType(j)
           seen == Seen(type, job.session)
           sent == Sent(type, IF job.kind = "join" THEN 0 ELSE issued + 1)
           new == IF type = "viewer" THEN seen ELSE sent
<1>1. PICK c \in Conns :
        /\ Unused(c)
        /\ conn' = [d \in Conns |->
              CASE d # c /\ d = current[type] -> Lost(conn[d])
                [] d # c /\ d # current[type] -> conn[d]
                [] d = c /\ type = "viewer" -> seen
                [] OTHER -> sent]
        /\ current' = [current EXCEPT ![type] = c]
        /\ jobs' = [jobs EXCEPT ![j] = [job EXCEPT !.at = "describe", !.conn = c]]
  BY DEF Created, CreatedType, Seen, Sent, Blank
<1>2. /\ turn # "unknown" /\ job.at = "turn" /\ UNCHANGED <<turn, asks, faults>>
      /\ IF job.kind \in {"play", "request"}
         THEN issued < MaxSessions /\ issued' = issued + 1 ELSE UNCHANGED issued
  BY DEF Created, counters, OfThisClient
<1>3. /\ job \in JobType /\ JobOK(job) /\ job.kind # "none" /\ job.session \in 0..MaxSessions
      /\ type \in Types /\ (type = "viewer" <=> job.kind = "offer")
  BY <1>2 DEF IInv, JobsOK, JobOK, JobType, CreatedType, Types
<1>4. issued \in 0..MaxSessions /\ issued' \in 0..MaxSessions
  BY <1>2, BoundsOK DEF IInv, CountsOK
<1>5. type # "viewer" => (IF job.kind = "join" THEN 0 ELSE issued + 1) \in 0..MaxSessions
  BY <1>2, <1>3, <1>4, BoundsOK DEF JobType
<1>6. Made(new, type)
  <2> HIDE DEF type
  <2>1. CASE type = "viewer"
    BY <2>1, <1>3, MadeFacts
  <2>2. CASE type # "viewer"
    BY <2>2, <1>3, <1>5, MadeFacts
  <2> QED
    BY <2>1, <2>2
<1>7. conn' = [d \in Conns |-> IF d = c THEN new
                               ELSE IF d = current[type] THEN Lost(conn[d]) ELSE conn[d]]
  <2> HIDE DEF type, seen, sent
  <2> QED
    BY <1>1
<1> HIDE DEF new
<1>8. Puts(j, c, new) /\ new \in ConnType
  BY <1>1, <1>6, <1>7 DEF Puts, Made
<1> QED
  BY <1>1, <1>2, <1>3, <1>4, <1>8

\* A connection is made: the one that it takes the slot of from the viewer was made
\* since that slot was emptied, and is unanswered.
LEMMA CreatedKeeps ==
  ASSUME IInv, NEW j \in JobIds, Created(j)
  PROVE  Goes /\ jobs' # jobs
<1> DEFINE type == CreatedType(j)
           old == jobs[j]
<1>1. /\ turn # "unknown" /\ old \in JobType /\ JobOK(old) /\ old.at = "turn" /\ old.conn = 0
      /\ UNCHANGED <<turn, asks, faults>> /\ issued' \in 0..MaxSessions
  BY CreatedPuts DEF JobOK
<1>2. PICK c \in Conns, new \in ConnType : Unused(c) /\ Puts(j, c, new)
  BY CreatedPuts
<1>3. /\ type \in Types /\ (type = "viewer" => old.kind = "offer") /\ ~Opened(conn[c])
      /\ new \in ConnType /\ new.type = type /\ new.pc = "new" /\ new.restarts = 0
      /\ Sound(conn, current)
  BY <1>1, <1>2 DEF CreatedType, Types, Unused, Opened, Puts, Made, New, IInv
<1>4. /\ conn' = [d \in Conns |-> IF d = c THEN new
                                  ELSE IF d = current[type] THEN Lost(conn[d]) ELSE conn[d]]
      /\ current' = [current EXCEPT ![type] = c]
  BY <1>2 DEF Puts
<1> HIDE DEF type
<1>5. Sound(conn', current')
  <2>1. Sound([d \in Conns |-> IF d = c THEN new
                               ELSE IF d = current[new.type] THEN Lost(conn[d]) ELSE conn[d]],
              [current EXCEPT ![new.type] = c])
    BY <1>3, SoundCreate
  <2> QED
    BY <1>3, <1>4, <2>1
<1>6. /\ JobsOK' /\ jobs'[j].at = "describe" /\ jobs'[j].conn = c
      /\ \A i \in JobIds : i # j => jobs'[i] = jobs[i]
  <2> DEFINE next == [old EXCEPT !.at = "describe", !.conn = c]
  <2>1. next \in JobType /\ JobOK(next) /\ next.at = "describe" /\ next.conn = c
    BY <1>1 DEF JobType, JobOK
  <2>2. jobs' = [jobs EXCEPT ![j] = next]
    BY <1>2 DEF Puts
  <2> HIDE DEF next
  <2> QED
    BY <2>1, <2>2, JobSet DEF IInv
<1>7. CountsOK'
  BY <1>1 DEF IInv, CountsOK
<1>8. /\ type = "viewer" => current'["viewer"] = c
      /\ type # "viewer" => current'["viewer"] = current["viewer"]
  BY <1>3, <1>4 DEF Sound, Types
<1>9. Exchanged
  <2>1. ASSUME NEW d \in Conns, d = current["viewer"], d # current'["viewer"]
        PROVE  conn[d].pc = "new" /\ Negotiating(d)
    BY <1>1, <1>3, <1>8, <2>1 DEF IInv, Together, Unanswered
  <2> QED
    BY <2>1 DEF Exchanged
<1>10. ASSUME NEW d \in Conns, d = current'["viewer"],
              \E i \in JobIds : jobs'[i].at = "turn" /\ jobs'[i].kind = "offer"
       PROVE  Unanswered(d)'
  <2>1. CASE type = "viewer"
    <3>1. d = c /\ conn'[d].pc = "new" /\ jobs'[j].conn = d
      BY <1>3, <1>4, <1>6, <1>8, <1>10, <2>1
    <3> QED
      BY <3>1 DEF Unanswered, Negotiating
  <2>2. CASE type # "viewer"
    <3>1. d = current["viewer"] /\ Opened(conn[d]) /\ conn[d].type = "viewer"
      BY <1>3, <1>8, <1>10, <2>2, ZeroIsNone DEF Sound, Types
    <3>2. d # c /\ d # current[type]
      BY <1>3, <2>2, <3>1, ZeroIsNone DEF Sound
    <3>3. conn'[d] = conn[d]
      BY <1>4, <3>2
    <3>4. PICK i \in JobIds : jobs'[i].at = "turn" /\ jobs'[i].kind = "offer"
      BY <1>10
    <3>5. jobs[i].at = "turn" /\ jobs[i].kind = "offer"
      BY <1>6, <3>4
    <3>6. Unanswered(d)
      BY <3>1, <3>5 DEF IInv, Together
    <3>7. Negotiating(d)'
      BY <1>1, <1>6, <3>6, ZeroIsNone DEF Unanswered, Negotiating
    <3> QED
      BY <3>3, <3>6, <3>7 DEF Unanswered
  <2> QED
    BY <2>1, <2>2
<1>11. Together'
  BY <1>1, <1>10 DEF Together
<1> QED
  BY <1>1, <1>5, <1>6, <1>7, <1>9, <1>11 DEF IInv, Goes

LEMMA DescribedKeeps ==
  ASSUME IInv, NEW j \in JobIds, Described(j)
  PROVE  Goes /\ jobs' # jobs
<1> DEFINE c == jobs[j].conn
<1>1. c \in Conns /\ jobs[j].at = "describe"
  BY DEF Described, IInv, JobsOK, JobOK
<1>2. jobs' = [jobs EXCEPT ![j] = NoJob] /\ UNCHANGED <<current, turn>> /\ CountsOK' /\ Macro
  BY DEF Described, Uncounted, counters, IInv, CountsOK
<1>3. JobsOK' /\ jobs'[j].at = "idle" /\ \A i \in JobIds : jobs'[i].at = "turn" => jobs[i].at = "turn"
  BY <1>2, JobSet, NoJobOK DEF IInv
<1>4. Kept
  <2>1. CASE IsOpen(c) /\ jobs[j].kind # "offer"
    <3>1. conn' = [conn EXCEPT ![c].offered = TRUE]
      BY <2>1 DEF Described
    <3> HIDE DEF c
    <3> QED
      BY <1>1, <1>2, <3>1, OfferedKeeps DEF IInv
  <2>2. CASE ~(IsOpen(c) /\ jobs[j].kind # "offer")
    <3>1. conn' = conn
      BY <2>2 DEF Described
    <3> QED
      BY <1>2, <3>1, SameTable
  <2> QED
    BY <2>1, <2>2
<1> QED
  BY <1>1, <1>2, <1>3, <1>4, KeptJobs

LEMMA TurnFetchedKeeps == IInv /\ TurnFetched => Goes /\ Spared
<1> SUFFICES ASSUME IInv, TurnFetched PROVE Goes /\ Spared
  OBVIOUS
<1>1. /\ turn = "unknown" /\ turn' = "some"
      /\ UNCHANGED <<conn, current, jobs, issued, asks, faults>>
  BY DEF TurnFetched, Uncounted, table, counters
<1>2. CountsOK' /\ JobsOK'
  BY <1>1 DEF IInv, CountsOK, JobsOK
<1>3. Together'
  BY <1>1, ZeroIsNone DEF IInv, Together
<1>4. Kept /\ Spared
  BY <1>1, SameTable
<1> QED
  BY <1>2, <1>3, <1>4, KeptExchanged DEF IInv, Kept, Goes

-----------------------------------------------------------------------------
\* What a step does to a connection that is up: it spares it, or it is a step of
\* the remote, the network, the application or a handler, or a restart that failed.
Accounted ==
  \A c \in Conns : conn[c].pc = "up" /\ conn'[c].pc # "up" =>
    \/ <<counters, jobs, leaving, life>>' # <<counters, jobs, leaving, life>>
    \/ \E d \in Conns : conn[d].type = conn[c].type /\ RestartFails(d)

LEMMA NextInv == IInv /\ [Next]_vars => IInv' /\ ((Exchanged /\ Accounted) \/ UNCHANGED vars)
<1> SUFFICES ASSUME IInv, [Next]_vars
             PROVE  IInv' /\ ((Exchanged /\ Accounted) \/ UNCHANGED vars)
  OBVIOUS
<1>0. /\ asks' # asks => Accounted
      /\ faults' # faults => Accounted
      /\ jobs' # jobs => Accounted
      /\ leaving' # leaving => Accounted
      /\ life' # life => Accounted
      /\ Spared => Accounted
  BY DEF Accounted, Spared, counters
<1>1. CASE UNCHANGED vars
  <2>1. UNCHANGED <<conn, current, turn, jobs, issued, asks, faults>>
    BY <1>1 DEF vars, table, counters
  <2>2. IInv'
    BY <2>1 DEF IInv, Sound, JobsOK, CountsOK, Together, Unanswered, Negotiating
  <2> QED
    BY <1>1, <2>2
<1>2. ASSUME NEW s \in Sessions, Incoming("offer", s)
      PROVE  Goes /\ Accounted
  <2>1. s \in 0..MaxSessions
    BY BoundsOK DEF Sessions
  <2> QED
    BY <1>0, <1>2, <2>1, StartsKeeps DEF Incoming
<1>3. ASSUME NEW s \in Sessions, Answer(s)
      PROVE  Goes /\ Accounted
  BY <1>0, <1>3, AnswerKeeps
<1>4. Incoming("play", 0) => Goes /\ Accounted
  BY <1>0, BoundsOK, StartsKeeps DEF Incoming
<1>5. Requested("request") \/ Requested("join") => Goes /\ Accounted
  BY <1>0, BoundsOK, StartsKeeps DEF Requested
<1>6. ASSUME NEW t \in Types, NEW s \in Sessions, Candidates(t, s)
      PROVE  Goes /\ Accounted
  BY <1>0, <1>6, CandidatesKeeps
<1>7. ASSUME NEW c \in Conns, Up(c)
      PROVE  Goes /\ Accounted
  BY <1>0, <1>7, UpKeeps
<1>8. ASSUME NEW c \in Conns, Down(c)
      PROVE  Goes /\ Accounted
  BY <1>0, <1>8, DownKeeps
<1>9. ASSUME NEW c \in Conns, Fails(c)
      PROVE  Goes /\ Accounted
  BY <1>0, <1>9, FailsKeeps
<1>10. ASSUME NEW c \in Conns, DataChannelOpens(c)
       PROVE  Goes /\ Accounted
  BY <1>0, <1>10, DataChannelKeeps
<1>11. ASSUME NEW c \in Conns, RestartRequest(c)
       PROVE  Goes /\ Accounted
  BY <1>0, <1>11, RestartRequestKeeps
<1>12. ByeOrHangup => Goes /\ Accounted
  BY <1>0, ByeKeeps
<1>13. (Disconnect \/ \E t \in Types : Stop(t)) => Goes /\ Accounted
  BY <1>0, LeavingKeeps
<1>14. TurnFetched => Goes /\ Accounted
  BY <1>0, TurnFetchedKeeps
<1>15. ASSUME NEW ready \in SUBSET JobIds, HashReady(ready)
       PROVE  Goes /\ Accounted
  BY <1>0, <1>15, HashReadyKeeps
<1>16. ASSUME NEW j \in JobIds, OfferHashed(j) \/ PlayHashed(j)
       PROVE  Goes /\ Accounted
  BY <1>0, <1>16, OfferHashedKeeps, PlayHashedKeeps
<1>17. ASSUME NEW j \in JobIds, Created(j) \/ Described(j)
       PROVE  Goes /\ Accounted
  BY <1>0, <1>17, CreatedKeeps, DescribedKeeps
<1>18. ASSUME NEW c \in Conns, RestartDone(c)
       PROVE  Goes /\ Accounted
  BY <1>0, <1>18, RestartDoneKeeps
<1>19. ASSUME NEW c \in Conns, RestartFails(c)
       PROVE  Goes /\ Accounted
  BY <1>19, RestartFailsKeeps DEF Accounted
<1>20. ASSUME NEW c \in Conns, RecoveryTimer(c)
       PROVE  Goes /\ Accounted
  BY <1>0, <1>20, RecoveryTimerKeeps
<1>21. ASSUME NEW c \in Conns, RelayRestore(c)
       PROVE  Goes /\ Accounted
  BY <1>0, <1>21, RelayRestoreKeeps
<1>22. ASSUME NEW c \in Conns, NEW t \in {"connect", "disconnect"}, Timer(c, t)
       PROVE  Goes /\ Accounted
  BY <1>0, <1>22, TimerKeeps
<1>23. Teardown => Goes /\ Accounted
  BY <1>0, TeardownKeeps
<1>24. ASSUME NEW t \in Types, StopFlushed(t)
       PROVE  Goes /\ Accounted
  BY <1>0, <1>24, StopFlushedKeeps
<1>25. Others => IInv' /\ Exchanged /\ Accounted
  <2>1. CASE \E c \in Conns : Up(c) \/ Down(c) \/ Fails(c) \/ DataChannelOpens(c) \/ RestartRequest(c)
    BY <2>1, <1>7, <1>8, <1>9, <1>10, <1>11 DEF Goes
  <2>2. CASE \/ \E s \in Sessions : Incoming("offer", s) \/ Answer(s)
             \/ Incoming("play", 0) \/ Requested("request") \/ Requested("join")
             \/ \E t \in Types, s \in Sessions : Candidates(t, s)
    BY <2>2, <1>2, <1>3, <1>4, <1>5, <1>6 DEF Goes
  <2>3. CASE ByeOrHangup \/ Disconnect \/ \E t \in Types : Stop(t)
    BY <2>3, <1>12, <1>13 DEF Goes
  <2> QED
    BY <2>1, <2>2, <2>3 DEF Others
<1>26. System => IInv' /\ Exchanged /\ Accounted
  BY <1>14, <1>15, <1>16, <1>17, <1>18, <1>19, <1>20, <1>21, <1>22, <1>23, <1>24
  DEF System, Goes
<1> QED
  BY <1>1, <1>25, <1>26 DEF Next

\* The inductive invariant of the specification.
THEOREM InvHolds == Spec => []IInv
<1>1. IInv /\ [Next]_vars => IInv'
  BY NextInv
<1> QED
  BY InitInv, <1>1, PTL DEF Spec

\* A viewer connection that leaves the table is closed: _handleOfferSDP closes the one
\* of another session before its own is created. The exception is that of handlers
\* woken together: a connection that none has answered its offer for yet may be
\* overwritten by the connection of another handler.
THEOREM NoViewerLeft == Spec => ReplacedIsClosed
<1>1. IInv /\ [Next]_vars =>
        [\A c \in Conns : c = current["viewer"] /\ c # current'["viewer"] =>
           \/ conn'[c].pc = "closed"
           \/ conn[c].pc = "new" /\ Negotiating(c) /\ \E j \in JobIds : Created(j)]_vars
  BY NextInv DEF Exchanged
<1> QED
  BY InvHolds, <1>1, PTL DEF Spec, ReplacedIsClosed

\* A connection in the table that is up has no recovery under way or behind it, and
\* the relay it may have been forced to is given up in time, or could not be.
THEOREM RecoveredIsReset == Spec => []HealedIsReset
<1>1. IInv => HealedIsReset
  BY DEF IInv, Sound, Reset, HealedIsReset
<1> QED
  BY InvHolds, <1>1, PTL

\* Nothing that the SDK does by itself takes down a connection that is up by then,
\* but the restart of a connection of that type whose offer failed.
THEOREM RecoverySparesHealthy == Spec => HealthyNotKilled
<1>1. IInv /\ [Next]_vars =>
        [\A c \in Conns : conn[c].pc = "up" /\ conn'[c].pc # "up" =>
           \/ <<counters, jobs, leaving, life>>' # <<counters, jobs, leaving, life>>
           \/ \E d \in Conns : conn[d].type = conn[c].type /\ RestartFails(d)]_vars
  BY NextInv DEF Accounted
<1> QED
  BY InvHolds, <1>1, PTL DEF Spec, HealthyNotKilled
-----------------------------------------------------------------------------
(* How many restarts are being prepared. A connection asks for one when it has *)
(* none of its own making under way, and a fault is what lets it ask again.    *)

Bit(p) == IF p THEN 1 ELSE 0

\* It may ask for a restart.
Asking(k) == ~k.recovering /\ k.pc \notin {"up", "lost"}

\* The restarts of k that have not been judged yet, and the one it may ask for.
Effort(k) == k.restarts + Bit("recovery" \in k.timers) + Bit("stray" \in k.timers)
             + Bit(Asking(k))

Modest == \A c \in Conns : Effort(conn[c]) <= faults + 1

LEMMA BitIs == \A p \in BOOLEAN : Bit(p) \in {0, 1} /\ (p <=> Bit(p) = 1)
BY DEF Bit

\* A connection without a restart.
Unrestarted(k) == k.restarts = 0 /\ "recovery" \notin k.timers /\ "stray" \notin k.timers

LEMMA ClosedIsUnrestarted == Unrestarted(Closed)
BY Blanks DEF Unrestarted, Bare

LEMMA EffortIs ==
  ASSUME NEW k \in ConnType
  PROVE  /\ Effort(k) \in Nat /\ k.restarts <= Effort(k)
         /\ Unrestarted(k) => Effort(k) <= 1
<1>1. /\ Bit("recovery" \in k.timers) \in {0, 1} /\ Bit("stray" \in k.timers) \in {0, 1}
      /\ Bit(Asking(k)) \in {0, 1}
  BY DEF Bit
<1>2. k.restarts \in Nat
  BY DEF ConnType
<1>3. Unrestarted(k) => k.restarts = 0 /\ Bit("recovery" \in k.timers) = 0 /\ Bit("stray" \in k.timers) = 0
  BY DEF Unrestarted, Bit
<1> QED
  BY <1>1, <1>2, <1>3 DEF Effort

\* A record that has no more restarts and timers, and does not ask more.
LEMMA EffortFrom ==
  ASSUME NEW k \in ConnType, NEW n \in ConnType, n.restarts = k.restarts,
         "recovery" \in n.timers => "recovery" \in k.timers,
         "stray" \in n.timers => "stray" \in k.timers,
         Asking(n) => Asking(k)
  PROVE  Effort(n) <= Effort(k)
<1> DEFINE a == Bit("recovery" \in k.timers)
           b == Bit("stray" \in k.timers)
           d == Bit(Asking(k))
           e == Bit("recovery" \in n.timers)
           f == Bit("stray" \in n.timers)
           g == Bit(Asking(n))
<1>1. a \in {0, 1} /\ b \in {0, 1} /\ d \in {0, 1} /\ e \in {0, 1} /\ f \in {0, 1} /\ g \in {0, 1}
  BY DEF Bit
<1>2. e <= a
  BY DEF Bit
<1>3. f <= b
  BY DEF Bit
<1>4. g <= d
  BY DEF Bit
<1>5. k.restarts \in Nat
  BY DEF ConnType
<1>6. Effort(k) = k.restarts + a + b + d /\ Effort(n) = k.restarts + e + f + g
  BY DEF Effort
<1> HIDE DEF a, b, d, e, f, g
<1> QED
  BY <1>1, <1>2, <1>3, <1>4, <1>5, <1>6

\* One step asks for no more than was allowed, plus one for a fault.
LEMMA ModestKept ==
  ASSUME IInv, IInv', Modest, NEW i \in {0, 1}, faults' = faults + i,
         \A c \in Conns : Unrestarted(conn'[c]) \/ Effort(conn'[c]) <= Effort(conn[c]) + i
  PROVE  Modest'
<1> SUFFICES ASSUME NEW c \in Conns PROVE Effort(conn'[c]) <= faults' + 1
  BY DEF Modest
<1>1. conn[c] \in ConnType /\ conn'[c] \in ConnType /\ faults \in Nat
  BY DEF IInv, Sound, CountsOK
<1>2. Effort(conn[c]) \in Nat /\ Effort(conn'[c]) \in Nat /\ (Unrestarted(conn'[c]) => Effort(conn'[c]) <= 1)
  BY <1>1, EffortIs
<1>3. Effort(conn[c]) <= faults + 1
  BY DEF Modest
<1> QED
  BY <1>1, <1>2, <1>3

\* A step that changes one connection.
LEMMA OneModest ==
  ASSUME IInv, IInv', Modest, NEW i \in {0, 1}, faults' = faults + i, NEW c \in Conns,
         NEW n, conn' = [conn EXCEPT ![c] = n], Unrestarted(n) \/ Effort(n) <= Effort(conn[c]) + i
  PROVE  Modest'
<1>1. /\ conn'[c] = n /\ \A d \in Conns : d # c => conn'[d] = conn[d]
      /\ \A d \in Conns : Effort(conn[d]) \in Nat
  BY EffortIs DEF IInv, Sound
<1> QED
  BY <1>1, ModestKept

\* A connection that is overwritten asks for nothing more.
LEMMA LostIsModest ==
  ASSUME NEW k \in ConnType
  PROVE  Effort(Lost(k)) <= Effort(k) /\ Effort(Lost(k)) \in Nat
<1>1. /\ Lost(k) \in ConnType /\ Lost(k).restarts = k.restarts /\ Lost(k).timers = {}
      /\ Lost(k).pc = "lost"
  BY LostFacts
<1> QED
  BY <1>1, EffortFrom, EffortIs DEF Asking

\* A step that leaves every connection as it is, closes it or takes it out of the table.
Leaves == \A c \in Conns : conn'[c] \in {conn[c], Closed, Lost(conn[c])}

LEMMA LeavingIsModest ==
  ASSUME IInv, IInv', Modest, NEW i \in {0, 1}, faults' = faults + i, Leaves
  PROVE  Modest'
<1>1. ASSUME NEW c \in Conns
      PROVE  Unrestarted(conn'[c]) \/ Effort(conn'[c]) <= Effort(conn[c]) + i
  <2>1. Effort(conn[c]) \in Nat /\ Effort(Lost(conn[c])) \in Nat
        /\ Effort(Lost(conn[c])) <= Effort(conn[c])
    BY EffortIs, LostIsModest DEF IInv, Sound
  <2>2. conn'[c] \in {conn[c], Closed, Lost(conn[c])}
    BY DEF Leaves
  <2> QED
    BY <2>1, <2>2, ClosedIsUnrestarted
<1> QED
  BY <1>1, ModestKept

LEMMA FailLeaves ==
  ASSUME IInv, NEW c \in Conns, Fail(c)
  PROVE  Leaves
  BY FailIs DEF IInv, Leaves

\* A record that a restart is to be made for, with what it does to the timers.
Asks(q, k) == /\ q \in ConnType /\ q.recovering = TRUE /\ q.restarts = k.restarts
              /\ "recovery" \notin q.timers /\ ("stray" \in q.timers => "stray" \in k.timers)

LEMMA EffortAsked ==
  ASSUME NEW k \in ConnType, NEW n \in ConnType, Asking(k), n.recovering = TRUE,
         "stray" \in n.timers => "stray" \in k.timers,
         \/ n.restarts = k.restarts + 1 /\ "recovery" \notin n.timers
         \/ n.restarts = k.restarts
  PROVE  Effort(n) <= Effort(k)
<1> DEFINE a == Bit("recovery" \in k.timers)
           b == Bit("stray" \in k.timers)
           e == Bit("recovery" \in n.timers)
           f == Bit("stray" \in n.timers)
<1>1. a \in {0, 1} /\ b \in {0, 1} /\ e \in {0, 1} /\ f \in {0, 1}
  BY DEF Bit
<1>2. f <= b
  BY DEF Bit
<1>3. Bit(Asking(k)) = 1 /\ Bit(Asking(n)) = 0
  BY DEF Bit, Asking
<1>4. (n.restarts = k.restarts + 1 /\ e = 0) \/ n.restarts = k.restarts
  BY DEF Bit
<1>5. k.restarts \in Nat
  BY DEF ConnType
<1>6. Effort(k) = k.restarts + a + b + 1 /\ Effort(n) = n.restarts + e + f + 0
  BY <1>3 DEF Effort
<1> HIDE DEF a, b, e, f
<1> QED
  BY <1>1, <1>2, <1>4, <1>5, <1>6

LEMMA RestartModest ==
  ASSUME IInv, IInv', Modest, NEW i \in {0, 1}, faults' = faults + i, NEW c \in Conns,
         NEW k \in ConnType, Asking(k), Effort(k) <= Effort(conn[c]) + i,
         NEW q, Asks(q, k), Restart(c, q)
  PROVE  Modest'
<1>0. Effort(conn[c]) \in Nat /\ Effort(k) \in Nat
  BY EffortIs DEF IInv, Sound
<1>1. CASE q.type = "publisher"
  <2> DEFINE n == [q EXCEPT !.restarts = @ + 1]
  <2>1. conn' = [conn EXCEPT ![c] = n]
    BY <1>1 DEF Restart
  <2>2. n \in ConnType /\ n.recovering = TRUE /\ n.restarts = k.restarts + 1 /\ n.timers = q.timers
    BY DEF Asks, ConnType
  <2> HIDE DEF n
  <2>3. Effort(n) \in Nat /\ Effort(n) <= Effort(k)
    BY <2>2, EffortAsked, EffortIs DEF Asks
  <2>4. Effort(n) <= Effort(conn[c]) + i
    BY <1>0, <2>3
  <2> QED
    BY <2>1, <2>4, OneModest
<1>2. CASE q.type # "publisher" /\ q.dc
  <2> DEFINE n == [q EXCEPT !.timers = @ \cup {"recovery"}]
  <2>1. conn' = [conn EXCEPT ![c] = n]
    BY <1>2 DEF Restart
  <2>2. n \in ConnType /\ n.recovering = TRUE /\ n.restarts = k.restarts
        /\ n.timers = q.timers \cup {"recovery"}
    BY DEF Asks, ConnType, Timers
  <2> HIDE DEF n
  <2>3. Effort(n) \in Nat /\ Effort(n) <= Effort(k)
    BY <2>2, EffortAsked, EffortIs DEF Asks
  <2>4. Effort(n) <= Effort(conn[c]) + i
    BY <1>0, <2>3
  <2> QED
    BY <2>1, <2>4, OneModest
<1>3. CASE q.type # "publisher" /\ ~q.dc
  BY <1>3, FailLeaves, LeavingIsModest DEF Restart
<1> QED
  BY <1>1, <1>2, <1>3

LEMMA RecoverModest ==
  ASSUME IInv, IInv', Modest, NEW i \in {0, 1}, faults' = faults + i, NEW c \in Conns,
         NEW k \in ConnType, k.pc \notin {"up", "lost"}, Effort(k) <= Effort(conn[c]) + i,
         Recover(c, k)
  PROVE  Modest'
<1>1. CASE k.recovering /\ conn' = [conn EXCEPT ![c] = k]
  BY <1>1, OneModest
<1>2. CASE Fail(c)
  BY <1>2, FailLeaves, LeavingIsModest
<1>3. ASSUME ~k.recovering, NEW s \in {1, 2}, NEW y \in Relays,
             Restart(c, Escalating(k, s, y))
      PROVE  Modest'
  <2> DEFINE q == Escalating(k, s, y)
  <2>0. AskedFor(q, k, s)
    BY AskedIs, Zenon
  <2>1. Same(q, k) /\ q.recovering = TRUE /\ q.timers = k.timers \ {"recovery"}
    BY <2>0 DEF AskedFor
  <2>2. Restart(c, q)
    BY <1>3
  <2> HIDE DEF q
  <2>3. Asks(q, k)
    BY <2>1 DEF Asks, Same
  <2>4. Asking(k)
    BY <1>3 DEF Asking
  <2> QED
    BY <2>2, <2>3, <2>4, RestartModest
<1> QED
  BY <1>1, <1>2, <1>3, RecoverIs

LEMMA RestartFailsModest ==
  ASSUME IInv, IInv', Modest, NEW c \in Conns, RestartFails(c)
  PROVE  Modest'
<1>1. Fail(c) /\ faults' = faults + 0
  BY DEF RestartFails, IInv, CountsOK, Uncounted, counters
<1> QED
  BY <1>1, FailLeaves, LeavingIsModest

LEMMA FailsModest ==
  ASSUME IInv, IInv', Modest, NEW c \in Conns, Fails(c)
  PROVE  Modest'
<1> DEFINE k == [conn[c] EXCEPT !.pc = "failed", !.fresh = FALSE, !.timers = @ \ {"disconnect"}]
<1>1. /\ conn[c] \in ConnType /\ conn[c].pc \notin {"up", "lost"}
      /\ Recover(c, k) /\ faults' = faults + 1
  BY DEF IInv, Sound, Fails, Faulty
<1>2. /\ k \in ConnType /\ k.pc = "failed" /\ k.restarts = conn[c].restarts
      /\ k.recovering = conn[c].recovering /\ k.timers = conn[c].timers \ {"disconnect"}
  <2>1. ASSUME NEW b \in BOOLEAN
        PROVE  LET q == [conn[c] EXCEPT !.pc = "failed", !.fresh = b, !.timers = @ \ {"disconnect"}]
               IN /\ q \in ConnType /\ q.pc = "failed" /\ q.restarts = conn[c].restarts
                  /\ q.recovering = conn[c].recovering /\ q.timers = conn[c].timers \ {"disconnect"}
    BY <1>1 DEF ConnType, States
  <2>2. FALSE \in BOOLEAN
    OBVIOUS
  <2> QED
    BY <2>1, <2>2, Zenon
<1> HIDE DEF k
<1>3. Effort(k) <= Effort(conn[c]) /\ Effort(k) \in Nat /\ Effort(conn[c]) \in Nat
  BY <1>1, <1>2, EffortFrom, EffortIs DEF Asking
<1>4. Effort(k) <= Effort(conn[c]) + 1
  BY <1>3
<1> QED
  BY <1>1, <1>2, <1>4, RecoverModest

LEMMA DownModest ==
  ASSUME IInv, IInv', Modest, NEW c \in Conns, Down(c)
  PROVE  Modest'
<1> DEFINE k == conn[c]
           n == [k EXCEPT !.pc = "down", !.timers = @ \cup {"disconnect"}]
<1>1. k \in ConnType /\ k.pc = "up" /\ Reset(k) /\ faults' = faults + 1
  BY DEF IInv, Sound, Down, Faulty
<1>2. conn' = [conn EXCEPT ![c] = n]
  BY <1>1 DEF Down, IInv, Sound
<1>3. /\ n \in ConnType /\ n.pc = "down" /\ n.restarts = k.restarts
      /\ n.timers = k.timers \cup {"disconnect"}
  BY <1>1 DEF ConnType, Timers, States
<1> HIDE DEF n
<1>4. Effort(n) <= Effort(k) + 1
  <2> DEFINE a == Bit("recovery" \in k.timers)
             b == Bit("stray" \in k.timers)
             d == Bit(Asking(k))
             g == Bit(Asking(n))
  <2>1. a \in {0, 1} /\ b \in {0, 1} /\ d \in {0, 1} /\ g \in {0, 1} /\ k.restarts \in Nat
    BY <1>1 DEF Bit, ConnType
  <2>2. Bit("recovery" \in n.timers) = a /\ Bit("stray" \in n.timers) = b
    BY <1>3 DEF Bit
  <2>3. Effort(k) = k.restarts + a + b + d /\ Effort(n) = k.restarts + a + b + g
    BY <1>3, <2>2 DEF Effort
  <2> HIDE DEF a, b, d, g
  <2> QED
    BY <2>1, <2>3
<1> QED
  BY <1>1, <1>2, <1>4, OneModest

\* A connection that is up needs nothing.
LEMMA HealthyModest ==
  ASSUME NEW k \in ConnType, k.pc = "up"
  PROVE  Effort(Healthy(k)) <= Effort(k)
<1> DEFINE ts == (k.timers \cap {"stray"}) \cup (IF k.relay = "off" THEN {} ELSE {"relayRestore"})
           y  == IF k.relay = "off" THEN "off" ELSE "on"
<1>1. "recovery" \notin ts /\ ("stray" \in ts => "stray" \in k.timers)
  OBVIOUS
<1>2. Healthy(k) = [k EXCEPT !.recovering = FALSE, !.stage = 0, !.relay = y, !.timers = ts]
  BY HealthyIs
<1> HIDE DEF ts, y
<1>3. Healthy(k) \in ConnType /\ Healthy(k).pc = "up" /\ Healthy(k).restarts = k.restarts
  BY HealthyFacts DEF Same
<1>4. Healthy(k).timers = ts
  BY <1>2 DEF ConnType
<1> QED
  BY <1>1, <1>3, <1>4, EffortFrom DEF Asking

LEMMA TimerModest ==
  ASSUME IInv, IInv', Modest, NEW c \in Conns, NEW t \in {"connect", "disconnect"}, Timer(c, t)
  PROVE  Modest'
<1> DEFINE k == [conn[c] EXCEPT !.timers = @ \ {t}]
<1>1. conn[c] \in ConnType /\ Reset(conn[c]) /\ t \in conn[c].timers /\ faults' = faults + 0
  BY DEF IInv, Sound, CountsOK, Timer, Uncounted, counters
<1>2. /\ k \in ConnType /\ k.pc = conn[c].pc /\ k.restarts = conn[c].restarts
      /\ k.recovering = conn[c].recovering /\ k.timers = conn[c].timers \ {t}
  BY <1>1 DEF ConnType
<1>3. k.pc \notin {"up", "lost"}
  BY <1>1, <1>2, OfTable DEF Reset, Opened, IInv
<1>4. Recover(c, k)
  BY <1>3 DEF Timer
<1> HIDE DEF k
<1>5. Effort(k) <= Effort(conn[c]) /\ Effort(k) \in Nat /\ Effort(conn[c]) \in Nat
  BY <1>1, <1>2, EffortFrom, EffortIs DEF Asking
<1>6. Effort(k) <= Effort(conn[c]) + 0
  BY <1>5
<1> QED
  BY <1>1, <1>2, <1>3, <1>4, <1>6, RecoverModest

\* A timer that has fired is a restart less: the next one takes its place.
LEMMA RecoveryTimerModest ==
  ASSUME IInv, IInv', Modest, NEW c \in Conns, RecoveryTimer(c)
  PROVE  Modest'
<1> DEFINE old  == conn[c]
           left == IF {"recovery", "stray"} \subseteq old.timers THEN {"stray"} ELSE {}
           ts   == (old.timers \ {"recovery", "stray"}) \cup left
           k    == [old EXCEPT !.recovering = FALSE, !.timers = ts]
<1>1. /\ old \in ConnType /\ Opened(old) /\ old.timers \cap {"recovery", "stray"} # {}
      /\ faults' = faults + 0
  BY OfTable DEF IInv, CountsOK, RecoveryTimer, Uncounted, counters
<1>2. IF k.pc = "up" THEN conn' = [conn EXCEPT ![c] = Healthy(k)] ELSE Recover(c, k)
  BY DEF RecoveryTimer
<1>3. ts \in SUBSET Timers /\ "recovery" \notin ts
      /\ ("stray" \in ts <=> {"recovery", "stray"} \subseteq old.timers)
  BY <1>1 DEF ConnType, Timers
<1> HIDE DEF ts, old
<1>4. k \in ConnType /\ k.pc = old.pc /\ k.restarts = old.restarts /\ k.recovering = FALSE /\ k.timers = ts
  <2>1. ASSUME NEW b \in BOOLEAN
        PROVE  LET q == [old EXCEPT !.recovering = b, !.timers = ts]
               IN q \in ConnType /\ q.pc = old.pc /\ q.restarts = old.restarts /\ q.recovering = b /\ q.timers = ts
    BY <1>1, <1>3 DEF ConnType
  <2>2. FALSE \in BOOLEAN
    OBVIOUS
  <2> QED
    BY <2>1, <2>2, Zenon
<1> HIDE DEF k
<1>5. Effort(k) <= Effort(old)
  <2> DEFINE a == Bit("recovery" \in old.timers)
             b == Bit("stray" \in old.timers)
             d == Bit(Asking(old))
             f == Bit("stray" \in ts)
             g == Bit(Asking(k))
  <2>1. a \in {0, 1} /\ b \in {0, 1} /\ d \in {0, 1} /\ g \in {0, 1} /\ old.restarts \in Nat
    BY <1>1 DEF Bit, ConnType
  <2>2. a + b = 1 + f
    <3>1. CASE {"recovery", "stray"} \subseteq old.timers
      <4>1. a = 1 /\ b = 1 /\ f = 1
        BY <1>3, <3>1 DEF Bit
      <4> QED
        BY <4>1
    <3>2. CASE "recovery" \in old.timers /\ "stray" \notin old.timers
      <4>1. a = 1 /\ b = 0 /\ f = 0
        BY <1>3, <3>2 DEF Bit
      <4> QED
        BY <4>1
    <3>3. CASE "recovery" \notin old.timers
      <4>1. "stray" \in old.timers
        BY <1>1, <3>3
      <4>2. a = 0 /\ b = 1 /\ f = 0
        BY <1>3, <3>3, <4>1 DEF Bit
      <4> QED
        BY <4>2
    <3> QED
      BY <3>1, <3>2, <3>3
  <2>3. Bit("recovery" \in ts) = 0
    BY <1>3 DEF Bit
  <2>4. Effort(old) = old.restarts + a + b + d /\ Effort(k) = old.restarts + 0 + f + g
    BY <1>4, <2>3 DEF Effort
  <2>5. f \in {0, 1}
    BY DEF Bit
  <2> HIDE DEF a, b, d, f, g
  <2> QED
    BY <2>1, <2>2, <2>4, <2>5
<1>6. CASE k.pc # "up"
  <2>1. Effort(k) \in Nat /\ Effort(old) \in Nat
    BY <1>1, <1>4, EffortIs
  <2>2. Effort(k) <= Effort(conn[c]) + 0
    BY <1>5, <2>1 DEF old
  <2>3. k.pc \notin {"up", "lost"}
    BY <1>1, <1>4, <1>6 DEF Opened
  <2> QED
    BY <1>1, <1>2, <1>4, <1>6, <2>2, <2>3, RecoverModest
<1>7. CASE k.pc = "up"
  <2>1. Effort(Healthy(k)) <= Effort(k)
    BY <1>4, <1>7, HealthyModest
  <2>2. Effort(k) \in Nat /\ Effort(old) \in Nat /\ Effort(Healthy(k)) \in Nat
    BY <1>1, <1>4, HealthyFacts, EffortIs DEF Same
  <2>3. Effort(Healthy(k)) <= Effort(conn[c]) + 0
    BY <1>5, <2>1, <2>2 DEF old
  <2> QED
    BY <1>1, <1>2, <1>7, <2>3, OneModest
<1> QED
  BY <1>6, <1>7

LEMMA UpModest ==
  ASSUME IInv, IInv', Modest, NEW c \in Conns, Up(c)
  PROVE  Modest'
<1> DEFINE k == [conn[c] EXCEPT !.pc = "up"]
<1>1. conn[c] \in ConnType /\ conn' = [conn EXCEPT ![c] = Healthy(k)] /\ faults' = faults + 0
  BY DEF IInv, Sound, CountsOK, Up, Uncounted, counters
<1>2. k \in ConnType /\ k.pc = "up" /\ k.restarts = conn[c].restarts /\ k.timers = conn[c].timers
  BY <1>1 DEF ConnType, States
<1> HIDE DEF k
<1>3. Effort(k) <= Effort(conn[c]) /\ Effort(Healthy(k)) <= Effort(k)
  BY <1>1, <1>2, EffortFrom, HealthyModest DEF Asking
<1>4. Effort(k) \in Nat /\ Effort(conn[c]) \in Nat /\ Effort(Healthy(k)) \in Nat
  BY <1>1, <1>2, HealthyFacts, EffortIs DEF Same
<1>5. Effort(Healthy(k)) <= Effort(conn[c]) + 0
  BY <1>3, <1>4
<1> QED
  BY <1>1, <1>5, OneModest

\* A restart that is out is judged by a timer instead.
LEMMA JudgedModest ==
  ASSUME IInv, IInv', Modest, NEW c \in Conns, RestartDone(c), Current(c)
  PROVE  Modest'
<1> DEFINE k  == conn[c]
           ts == k.timers \cup (IF "recovery" \in k.timers THEN {"stray"} ELSE {"recovery"})
           n  == [k EXCEPT !.restarts = @ - 1, !.offered = TRUE, !.timers = ts]
<1>1. /\ k \in ConnType /\ k.restarts \in Nat /\ k.restarts > 0 /\ faults' = faults + 0
      /\ conn' = [conn EXCEPT ![c] = n]
  BY DEF IInv, Sound, ConnType, CountsOK, RestartDone, Uncounted, counters
<1>2. /\ ts \in SUBSET Timers /\ "recovery" \in ts
      /\ "stray" \in ts <=> "stray" \in k.timers \/ "recovery" \in k.timers
  BY <1>1 DEF ConnType, Timers
<1>3. /\ n \in ConnType /\ n.restarts = k.restarts - 1 /\ n.timers = ts
      /\ n.pc = k.pc /\ n.recovering = k.recovering
  <2> HIDE DEF k, ts
  <2>1. ASSUME NEW b \in BOOLEAN, NEW i \in Nat
        PROVE  LET q == [k EXCEPT !.restarts = i, !.offered = b, !.timers = ts]
               IN /\ q \in ConnType /\ q.restarts = i /\ q.timers = ts
                  /\ q.pc = k.pc /\ q.recovering = k.recovering
    BY <1>1, <1>2 DEF ConnType
  <2>2. TRUE \in BOOLEAN /\ k.restarts - 1 \in Nat
    BY <1>1
  <2> QED
    BY <2>1, <2>2, Zenon
<1> HIDE DEF ts, n
<1>4. Effort(n) <= Effort(k)
  <2> DEFINE a == Bit("recovery" \in k.timers)
             b == Bit("stray" \in k.timers)
             f == Bit("stray" \in ts)
             d == Bit(Asking(k))
  <2>1. a \in {0, 1} /\ b \in {0, 1} /\ d \in {0, 1} /\ f \in {0, 1}
    BY DEF Bit
  <2>2. f <= a + b
    <3>1. CASE "stray" \in k.timers
      <4>1. b = 1
        BY <3>1 DEF Bit
      <4> QED
        BY <2>1, <4>1
    <3>2. CASE "stray" \notin k.timers
      <4>1. f = a
        BY <1>2, <3>2 DEF Bit
      <4> QED
        BY <2>1, <4>1
    <3> QED
      BY <3>1, <3>2
  <2>3. Bit("recovery" \in ts) = 1
    BY <1>2 DEF Bit
  <2>4. Effort(k) = k.restarts + a + b + d /\ Effort(n) = k.restarts - 1 + 1 + f + d
    BY <1>3, <2>3 DEF Effort, Asking
  <2> HIDE DEF a, b, d, f, k
  <2> QED
    BY <1>1, <2>1, <2>2, <2>4
<1>5. Effort(n) \in Nat /\ Effort(k) \in Nat
  BY <1>1, <1>3, EffortIs
<1>6. Effort(n) <= Effort(k) + 0
  BY <1>4, <1>5
<1> QED
  BY <1>1, <1>6, OneModest

LEMMA RestartDoneModest ==
  ASSUME IInv, IInv', Modest, NEW c \in Conns, RestartDone(c)
  PROVE  Modest'
<1> DEFINE k == conn[c]
           n == [k EXCEPT !.restarts = @ - 1]
<1>1. CASE Current(c)
  BY <1>1, JudgedModest
<1>2. CASE ~Current(c)
  <2>1. /\ k \in ConnType /\ k.restarts \in Nat /\ k.restarts > 0 /\ faults' = faults + 0
        /\ conn' = [conn EXCEPT ![c] = n]
    BY <1>2 DEF IInv, Sound, ConnType, CountsOK, RestartDone, Uncounted, counters
  <2>2. /\ n \in ConnType /\ n.restarts = k.restarts - 1 /\ n.timers = k.timers
        /\ n.pc = k.pc /\ n.recovering = k.recovering
    BY <2>1 DEF ConnType
  <2> HIDE DEF n
  <2>3. Effort(n) <= Effort(k)
    <3> DEFINE a == Bit("recovery" \in k.timers)
               b == Bit("stray" \in k.timers)
               d == Bit(Asking(k))
    <3>1. a \in {0, 1} /\ b \in {0, 1} /\ d \in {0, 1}
      BY DEF Bit
    <3>2. Effort(k) = k.restarts + a + b + d /\ Effort(n) = k.restarts - 1 + a + b + d
      BY <2>2 DEF Effort, Asking
    <3> HIDE DEF a, b, d, k
    <3> QED
      BY <2>1, <3>1, <3>2
  <2>4. Effort(n) \in Nat /\ Effort(k) \in Nat
    BY <2>1, <2>2, EffortIs
  <2>5. Effort(n) <= Effort(k) + 0
    BY <2>3, <2>4
  <2> QED
    BY <2>1, <2>5, OneModest
<1> QED
  BY <1>1, <1>2

LEMMA RelayRestoreModest ==
  ASSUME IInv, IInv', Modest, NEW c \in Conns, RelayRestore(c)
  PROVE  Modest'
<1> DEFINE k == conn[c]
           n(y) == [k EXCEPT !.timers = @ \ {"relayRestore"}, !.relay = y]
<1>1. k \in ConnType /\ faults' = faults + 0
  BY DEF IInv, Sound, CountsOK, RelayRestore, Uncounted, counters
<1>2. PICK y \in {"off", "stuck"} : conn' = [conn EXCEPT ![c] = n(y)]
  BY DEF RelayRestore, IInv, Sound
<1>3. /\ n(y) \in ConnType /\ n(y).restarts = k.restarts /\ n(y).timers = k.timers \ {"relayRestore"}
      /\ n(y).pc = k.pc /\ n(y).recovering = k.recovering
  <2> HIDE DEF k
  <2> QED
    BY <1>1 DEF ConnType, Relays
<1> HIDE DEF n
<1>4. Effort(n(y)) <= Effort(k) /\ Effort(n(y)) \in Nat /\ Effort(k) \in Nat
  BY <1>1, <1>3, EffortFrom, EffortIs DEF Asking
<1>5. Effort(n(y)) <= Effort(k) + 0
  BY <1>4
<1> QED
  BY <1>1, <1>2, <1>5, OneModest

\* What changes neither restarts nor timers.
LEMMA Marks ==
  ASSUME NEW k \in ConnType, NEW s \in 0..MaxSessions, NEW a \in BOOLEAN, NEW b \in BOOLEAN
  PROVE  /\ Untouched([k EXCEPT !.offered = a, !.remote = s, !.fresh = b], k)
         /\ Untouched([k EXCEPT !.remote = s, !.fresh = b], k)
         /\ Untouched([k EXCEPT !.ice = s], k)
         /\ Untouched([k EXCEPT !.offered = a], k)
         /\ Untouched([k EXCEPT !.dc = a], k)
<1>1. Untouched([k EXCEPT !.offered = a, !.remote = s, !.fresh = b], k)
  BY DEF Untouched, Same, ConnType
<1>2. Untouched([k EXCEPT !.remote = s, !.fresh = b], k)
  BY DEF Untouched, Same, ConnType
<1>3. Untouched([k EXCEPT !.ice = s], k)
  BY DEF Untouched, Same, ConnType
<1>4. Untouched([k EXCEPT !.offered = a], k)
  BY DEF Untouched, Same, ConnType
<1>5. Untouched([k EXCEPT !.dc = a], k)
  BY DEF Untouched, Same, ConnType
<1> QED
  BY <1>1, <1>2, <1>3, <1>4, <1>5

LEMMA MarkModest ==
  ASSUME IInv, IInv', Modest, UNCHANGED faults, NEW c \in Conns,
         NEW n, Untouched(n, conn[c]), conn' = [conn EXCEPT ![c] = n]
  PROVE  Modest'
<1>1. conn[c] \in ConnType /\ n \in ConnType /\ faults' = faults + 0
  BY DEF IInv, Sound, CountsOK, Untouched, Same
<1>2. Effort(n) <= Effort(conn[c])
  BY <1>1, EffortFrom DEF Untouched, Same, Asking
<1>3. Effort(n) \in Nat /\ Effort(conn[c]) \in Nat
  BY <1>1, EffortIs
<1>4. Effort(n) <= Effort(conn[c]) + 0
  BY <1>2, <1>3
<1> QED
  BY <1>1, <1>4, OneModest

LEMMA MarkSteps ==
  ASSUME IInv, IInv', Modest, NEW c \in Conns,
         \/ DataChannelOpens(c) \/ RestartRequest(c)
         \/ \E t \in Types, s \in Sessions : Candidates(t, s)
         \/ \E s \in Sessions : Answer(s)
  PROVE  Modest'
<1>1. /\ conn \in [Conns -> ConnType] /\ UNCHANGED faults
      /\ TRUE \in BOOLEAN /\ FALSE \in BOOLEAN /\ Sessions \subseteq 0..MaxSessions /\ 0 \in 0..MaxSessions
  <2>1. UNCHANGED faults
    BY DEF DataChannelOpens, RestartRequest, Candidates, Answer, Heard, Asked, Uncounted, counters
  <2>2. Sessions \subseteq 0..MaxSessions /\ 0 \in 0..MaxSessions
    BY BoundsOK DEF Sessions
  <2> QED
    BY <2>1, <2>2 DEF IInv, Sound
<1>2. CASE DataChannelOpens(c)
  <2>1. conn' = [conn EXCEPT ![c] = [conn[c] EXCEPT !.dc = TRUE]]
    BY <1>1, <1>2 DEF DataChannelOpens
  <2>2. Untouched([conn[c] EXCEPT !.dc = TRUE], conn[c])
    BY <1>1, Marks, Zenon
  <2> QED
    BY <1>1, <2>1, <2>2, MarkModest
<1>3. CASE RestartRequest(c)
  <2>1. conn' = [conn EXCEPT ![c] = [conn[c] EXCEPT !.offered = TRUE]]
    BY <1>1, <1>3 DEF RestartRequest
  <2>2. Untouched([conn[c] EXCEPT !.offered = TRUE], conn[c])
    BY <1>1, Marks, Zenon
  <2> QED
    BY <1>1, <2>1, <2>2, MarkModest
<1>4. ASSUME NEW t \in Types, NEW s \in Sessions, Candidates(t, s)
      PROVE  Modest'
  <2>1. PICK d \in Conns : conn' = [conn EXCEPT ![d].ice = s]
    BY <1>4 DEF Candidates
  <2>2. conn' = [conn EXCEPT ![d] = [conn[d] EXCEPT !.ice = s]]
    BY <1>1, <2>1
  <2>3. Untouched([conn[d] EXCEPT !.ice = s], conn[d])
    BY <1>1, Marks
  <2> QED
    BY <1>1, <2>2, <2>3, MarkModest
<1>5. ASSUME NEW s \in Sessions, Answer(s)
      PROVE  Modest'
  <2>1. PICK d \in Conns :
          conn' = [conn EXCEPT ![d].offered = FALSE, ![d].remote = s, ![d].fresh = TRUE]
    BY <1>5 DEF Answer
  <2>2. conn' = [conn EXCEPT ![d] = [conn[d] EXCEPT !.offered = FALSE, !.remote = s, !.fresh = TRUE]]
    BY <1>1, <2>1
  <2>3. conn[d] \in ConnType /\ s \in 0..MaxSessions
    BY <1>1
  <2>4. Untouched([conn[d] EXCEPT !.offered = FALSE, !.remote = s, !.fresh = TRUE], conn[d])
    BY <1>1, <2>3, Marks, Zenon
  <2> QED
    BY <1>1, <2>2, <2>4, MarkModest
<1> QED
  BY <1>2, <1>3, <1>4, <1>5

LEMMA CreatedModest ==
  ASSUME IInv, IInv', Modest, NEW j \in JobIds, Created(j)
  PROVE  Modest'
<1>1. PICK c \in Conns, new \in ConnType : Unused(c) /\ Puts(j, c, new)
  BY CreatedPuts
<1>2. faults' = faults + 0
  BY CreatedPuts DEF IInv, CountsOK
<1>3. Unrestarted(new)
  BY <1>1 DEF Puts, Made, New, Unrestarted
<1>4. ASSUME NEW d \in Conns
      PROVE  Unrestarted(conn'[d]) \/ Effort(conn'[d]) <= Effort(conn[d]) + 0
  <2>1. conn'[d] \in {new, conn[d], Lost(conn[d])}
    BY <1>1 DEF Puts
  <2>2. Effort(conn[d]) \in Nat /\ Effort(Lost(conn[d])) \in Nat
        /\ Effort(Lost(conn[d])) <= Effort(conn[d])
    BY EffortIs, LostIsModest DEF IInv, Sound
  <2> QED
    BY <1>3, <2>1, <2>2
<1> QED
  BY <1>2, <1>4, ModestKept

LEMMA OfferHashedModest ==
  ASSUME IInv, IInv', Modest, NEW j \in JobIds, OfferHashed(j)
  PROVE  Modest'
<1> DEFINE old == jobs[j]
           v   == current["viewer"]
<1>1. old \in JobType /\ UNCHANGED faults /\ faults' = faults + 0
  BY DEF OfferHashed, counters, IInv, JobsOK, CountsOK
<1>2. CASE Reused(j, v) /\ Renegotiates(j, v)
  <2>1. /\ v \in Conns /\ conn[v] \in ConnType
        /\ conn' = [conn EXCEPT ![v] = [conn[v] EXCEPT !.remote = old.session, !.fresh = TRUE]]
    BY <1>2 DEF IInv, Sound, Types, Reused, Renegotiates
  <2>2. old.session \in 0..MaxSessions /\ TRUE \in BOOLEAN
    BY <1>1 DEF JobType
  <2> HIDE DEF v, old
  <2>3. Untouched([conn[v] EXCEPT !.remote = old.session, !.fresh = TRUE], conn[v])
    BY <2>1, <2>2, Marks, Zenon
  <2> QED
    BY <1>1, <2>1, <2>3, MarkModest
<1>3. CASE CloseAll({"viewer"})
  <2>1. Leaves
    BY <1>3 DEF CloseAll, Leaves
  <2> QED
    BY <1>1, <2>1, LeavingIsModest
<1> QED
  BY <1>2, <1>3 DEF OfferHashed

LEMMA DescribedModest ==
  ASSUME IInv, IInv', Modest, NEW j \in JobIds, Described(j)
  PROVE  Modest'
<1> DEFINE c == jobs[j].conn
<1>1. c \in Conns /\ conn \in [Conns -> ConnType] /\ UNCHANGED faults /\ faults' = faults + 0
  BY DEF Described, Uncounted, counters, IInv, Sound, JobsOK, JobOK, CountsOK
<1>2. CASE IsOpen(c) /\ jobs[j].kind # "offer"
  <2>1. conn' = [conn EXCEPT ![c].offered = TRUE]
    BY <1>2 DEF Described
  <2> HIDE DEF c
  <2>2. conn' = [conn EXCEPT ![c] = [conn[c] EXCEPT !.offered = TRUE]] /\ conn[c] \in ConnType
    BY <1>1, <2>1
  <2>3. TRUE \in BOOLEAN /\ 0 \in 0..MaxSessions
    BY BoundsOK
  <2>4. Untouched([conn[c] EXCEPT !.offered = TRUE], conn[c])
    BY <2>2, <2>3, Marks, Zenon
  <2> QED
    BY <1>1, <2>2, <2>4, MarkModest
<1>3. CASE ~(IsOpen(c) /\ jobs[j].kind # "offer")
  <2>1. conn' = conn
    BY <1>3 DEF Described
  <2> QED
    BY <1>1, <2>1, LeavingIsModest DEF Leaves
<1> QED
  BY <1>2, <1>3

\* What changes no connection, or closes some.
Closers == \/ UNCHANGED vars \/ ByeOrHangup \/ Disconnect \/ TurnFetched \/ Teardown
           \/ \E t \in Types : Stop(t) \/ StopFlushed(t)
           \/ \E kind \in {"offer", "play"} : \E s \in Sessions \cup {0} : Incoming(kind, s)
           \/ \E kind \in {"request", "join"} : Requested(kind)
           \/ \E ready \in SUBSET JobIds : HashReady(ready)
           \/ \E j \in JobIds : PlayHashed(j)

LEMMA ClosersModest ==
  ASSUME IInv, IInv', Modest, Closers
  PROVE  Modest'
<1>1. faults' = faults + 0
  <2>1. faults' = faults
    BY DEF Closers, vars, ByeOrHangup, Disconnect, TurnFetched, Teardown, Stop, StopFlushed, Incoming,
           Requested, Starts, HashReady, PlayHashed, Asked, Uncounted, counters
  <2>2. faults \in Nat
    BY DEF IInv, CountsOK
  <2> QED
    BY <2>1, <2>2
<1>2. Leaves
  BY DEF Closers, vars, ByeOrHangup, Disconnect, TurnFetched, Teardown, Stop, StopFlushed, Incoming,
         Requested, Starts, HashReady, PlayHashed, CloseAll, table, Leaves
<1> QED
  BY <1>1, <1>2, LeavingIsModest

LEMMA NextModest == IInv /\ IInv' /\ Modest /\ [Next]_vars => Modest'
<1> SUFFICES ASSUME IInv, IInv', Modest, [Next]_vars PROVE Modest'
  OBVIOUS
<1>1. CASE Closers
  BY <1>1, ClosersModest
<1>2. ASSUME NEW j \in JobIds, OfferHashed(j) \/ Created(j) \/ Described(j) PROVE Modest'
  BY <1>2, OfferHashedModest, CreatedModest, DescribedModest
<1>3. 1 \in Conns
  BY BoundsOK DEF Conns
<1>4. ASSUME NEW s \in Sessions, Answer(s) PROVE Modest'
  BY <1>3, <1>4, MarkSteps
<1>5. ASSUME NEW t \in Types, NEW s \in Sessions, Candidates(t, s) PROVE Modest'
  BY <1>3, <1>5, MarkSteps
<1>6. ASSUME NEW c \in Conns, DataChannelOpens(c) \/ RestartRequest(c) PROVE Modest'
  BY <1>6, MarkSteps
<1>7. ASSUME NEW c \in Conns, Up(c) \/ Down(c) \/ Fails(c) PROVE Modest'
  BY <1>7, UpModest, DownModest, FailsModest
<1>8. ASSUME NEW c \in Conns, \/ RestartDone(c) \/ RestartFails(c) \/ RecoveryTimer(c)
                             \/ RelayRestore(c)
      PROVE Modest'
  BY <1>8, RestartDoneModest, RestartFailsModest, RecoveryTimerModest, RelayRestoreModest
<1>9. ASSUME NEW c \in Conns, NEW t \in {"connect", "disconnect"}, Timer(c, t) PROVE Modest'
  BY <1>9, TimerModest
<1>10. ASSUME Others PROVE Modest'
  BY <1>10, <1>1, <1>4, <1>5, <1>6, <1>7 DEF Others, Closers
<1>11. ASSUME System PROVE Modest'
  BY <1>11, <1>1, <1>2, <1>8, <1>9 DEF System, Closers
<1> QED
  BY <1>1, <1>10, <1>11 DEF Next, Closers

\* What the application and the network may still do, and the life of the session.
Limits == /\ asks \in 0..MaxAsks /\ faults \in 0..MaxFaults
          /\ hashed \in BOOLEAN /\ publishing \in BOOLEAN /\ life \in {"on", "leaving", "off"} /\ leaving \subseteq Types

LEMMA NextLimits == Limits /\ [Next]_vars => Limits'
<1> SUFFICES ASSUME Limits, [Next]_vars PROVE Limits'
  OBVIOUS
<1>1. asks' \in 0..MaxAsks /\ faults' \in 0..MaxFaults
  <2>1. \/ UNCHANGED <<asks, faults>>
        \/ asks < MaxAsks /\ asks' = asks + 1 /\ UNCHANGED faults
        \/ faults < MaxFaults /\ faults' = faults + 1 /\ UNCHANGED asks
    BY DEF Next, Others, System, vars, counters, Asked, Faulty, Heard, Uncounted, Incoming, Answer, Requested,
           Candidates, Up, Down, Fails, DataChannelOpens, RestartRequest, ByeOrHangup, Disconnect, Stop,
           TurnFetched, OfferHashed, PlayHashed, Created, Described, RestartDone, RecoveryTimer, RelayRestore,
           Timer, Teardown, StopFlushed, Starts, HashReady, RestartFails
  <2> QED
    BY <2>1, BoundsOK DEF Limits
<1>2. \/ UNCHANGED session
      \/ \E ready \in SUBSET JobIds : HashReady(ready)
      \/ Disconnect \/ Teardown \/ \E t \in Types : Stop(t) \/ StopFlushed(t)
  BY DEF Next, Others, System, vars, session, Incoming, Answer, Requested,
         Candidates, Up, Down, Fails, DataChannelOpens, RestartRequest, ByeOrHangup,
         TurnFetched, OfferHashed, PlayHashed, Created, Described, RestartDone, RecoveryTimer, RelayRestore,
         Timer, Starts, RestartFails
<1>3. hashed' \in BOOLEAN /\ publishing' \in BOOLEAN /\ life' \in {"on", "leaving", "off"} /\ leaving' \subseteq Types
  BY <1>2 DEF Limits, session, Disconnect, Teardown, Stop, StopFlushed, HashReady
<1> QED
  BY <1>1, <1>3 DEF Limits

\* Every variable of SdkPeers keeps its type; whatever fails when, a connection never
\* has more restarts being prepared than there were faults, and one.
THEOREM TypesAreOK == Spec => []TypeOK
<1>1. Init => Modest /\ Limits
  <2> SUFFICES ASSUME Init PROVE Modest /\ Limits
    OBVIOUS
  <2>1. \A c \in Conns : conn[c] = NoConn
    BY DEF Init
  <2>2. Unrestarted(NoConn) /\ NoConn \in ConnType
    BY Blanks DEF Bare, Unrestarted
  <2>3. Effort(NoConn) \in Nat /\ Effort(NoConn) <= 1
    BY <2>2, EffortIs
  <2>4. Modest
    BY <2>1, <2>3 DEF Modest, Init
  <2>5. Limits
    BY BoundsOK DEF Init, Limits
  <2> QED
    BY <2>4, <2>5
<1>2. IInv /\ Modest /\ Limits => TypeOK
  <2> SUFFICES ASSUME IInv, Modest, Limits PROVE TypeOK
    OBVIOUS
  <2>1. ASSUME NEW c \in Conns
        PROVE  conn[c].restarts \in 0..(MaxFaults + 1)
    <3>1. conn[c] \in ConnType /\ conn[c].restarts \in Nat
      BY DEF IInv, Sound, ConnType
    <3>2. Effort(conn[c]) \in Nat /\ conn[c].restarts <= Effort(conn[c]) /\ Effort(conn[c]) <= faults + 1
      BY <3>1, EffortIs DEF Modest
    <3> QED
      BY <3>1, <3>2, BoundsOK DEF Limits
  <2>2. ASSUME NEW c \in Conns
        PROVE  conn[c] \in [type : Types, session : 0..MaxSessions, pc : States,
                            dc : BOOLEAN, offered : BOOLEAN, remote : 0..MaxSessions,
                            fresh : BOOLEAN, ice : 0..MaxSessions, recovering : BOOLEAN,
                            restarts : 0..(MaxFaults + 1), stage : 0..2, timers : SUBSET Timers,
                            relay : Relays]
    <3>1. conn[c] \in ConnType
      BY DEF IInv, Sound
    <3> QED
      BY <2>1, <3>1 DEF ConnType
  <2>3. Conns \cup {0} \subseteq 0..MaxConns
    BY BoundsOK DEF Conns
  <2>4. conn \in [Conns -> [type : Types, session : 0..MaxSessions,
                            pc : {"none", "new", "up", "down", "failed", "lost", "closed"},
                            dc : BOOLEAN, offered : BOOLEAN, remote : 0..MaxSessions,
                            fresh : BOOLEAN, ice : 0..MaxSessions, recovering : BOOLEAN,
                            restarts : 0..(MaxFaults + 1), stage : 0..2, timers : SUBSET Timers,
                            relay : {"off", "on", "stuck"}]]
    BY <2>2 DEF IInv, Sound, States, Relays
  <2>5. current \in [Types -> 0..MaxConns]
    BY <2>3 DEF IInv, Sound
  <2>6. jobs \in [JobIds -> [kind : {"none", "offer", "play", "request", "join"},
                             at : {"idle", "hash", "hashed", "turn", "describe"},
                             session : 0..MaxSessions, conn : 0..MaxConns]]
    BY <2>3 DEF IInv, JobsOK, JobType
  <2> QED
    BY <2>4, <2>5, <2>6 DEF TypeOK, IInv, CountsOK, Limits
<1>3. IInv /\ IInv' /\ Modest /\ Limits /\ [Next]_vars => Modest' /\ Limits'
  BY NextModest, NextLimits
<1> QED
  BY InvHolds, <1>1, <1>2, <1>3, PTL DEF Spec

-----------------------------------------------------------------------------
(* Recovery goes on, and comes to an end: what RecoveryEnds rests on. As long  *)
(* as a connection of the table is not up something is due for it, and what is *)
(* due takes more from the measure Drive than it puts back.                    *)

\* A timer or a restart is due for a connection that is not up, and while one is
\* being recovered, its own.
Due(k) ==
  /\ k.pc \in {"new", "down", "failed"} =>
       k.restarts > 0 \/ k.timers \cap {"connect", "disconnect", "recovery", "stray"} # {}
  /\ k.recovering => k.restarts > 0 \/ k.timers \cap {"recovery", "stray"} # {}

RecoveryIsDue == \A c \in Conns : IsOpen(c) /\ Current(c) => Due(conn[c])

\* The timers set for k; and what its recovery may still do, an escalation being
\* worth more than the restart and the timer that it asks for.
Pending(k) == Bit("connect" \in k.timers) + Bit("disconnect" \in k.timers) + Bit("recovery" \in k.timers)
              + Bit("stray" \in k.timers) + Bit("relayRestore" \in k.timers)
Drive(k) == 3 * (2 - k.stage) + 2 * k.restarts + Pending(k)

LEMMA PendingIs == \A k : Pending(k) \in Nat
<1> SUFFICES ASSUME NEW k PROVE Pending(k) \in Nat
  OBVIOUS
<1> DEFINE a == Bit("connect" \in k.timers)
           b == Bit("disconnect" \in k.timers)
           d == Bit("recovery" \in k.timers)
           e == Bit("stray" \in k.timers)
           f == Bit("relayRestore" \in k.timers)
<1>1. a \in {0, 1} /\ b \in {0, 1} /\ d \in {0, 1} /\ e \in {0, 1} /\ f \in {0, 1}
  BY DEF Bit
<1>2. Pending(k) = a + b + d + e + f
  BY DEF Pending
<1> HIDE DEF a, b, d, e, f
<1> QED
  BY <1>1, <1>2

\* A timer less, and one more.
LEMMA PendingMoves ==
  ASSUME NEW k, NEW n
  PROVE  /\ n.timers \subseteq k.timers => Pending(n) <= Pending(k)
         /\ \A t \in Timers : t \in k.timers /\ n.timers \subseteq k.timers \ {t} => Pending(n) + 1 <= Pending(k)
         /\ \A t \in Timers : n.timers \subseteq k.timers \cup {t} => Pending(n) <= Pending(k) + 1
<1> DEFINE a == Bit("connect" \in k.timers)
           b == Bit("disconnect" \in k.timers)
           d == Bit("recovery" \in k.timers)
           e == Bit("stray" \in k.timers)
           f == Bit("relayRestore" \in k.timers)
           p == Bit("connect" \in n.timers)
           q == Bit("disconnect" \in n.timers)
           r == Bit("recovery" \in n.timers)
           s == Bit("stray" \in n.timers)
           u == Bit("relayRestore" \in n.timers)
<1>1. /\ a \in {0, 1} /\ b \in {0, 1} /\ d \in {0, 1} /\ e \in {0, 1} /\ f \in {0, 1}
      /\ p \in {0, 1} /\ q \in {0, 1} /\ r \in {0, 1} /\ s \in {0, 1} /\ u \in {0, 1}
  BY DEF Bit
<1>2. Pending(k) = a + b + d + e + f /\ Pending(n) = p + q + r + s + u
  BY DEF Pending
<1>3. ASSUME n.timers \subseteq k.timers
      PROVE  Pending(n) <= Pending(k)
  <2>1. p <= a /\ q <= b /\ r <= d /\ s <= e /\ u <= f
    BY <1>3 DEF Bit
  <2> HIDE DEF a, b, d, e, f, p, q, r, s, u
  <2> QED
    BY <1>1, <1>2, <2>1
<1>4. ASSUME NEW t \in Timers, t \in k.timers, n.timers \subseteq k.timers \ {t}
      PROVE  Pending(n) + 1 <= Pending(k)
  <2>1. p <= a /\ q <= b /\ r <= d /\ s <= e /\ u <= f
    BY <1>4 DEF Bit
  <2>2. \/ a = 1 /\ p = 0
        \/ b = 1 /\ q = 0
        \/ d = 1 /\ r = 0
        \/ e = 1 /\ s = 0
        \/ f = 1 /\ u = 0
    <3>1. t \notin n.timers
      BY <1>4
    <3>2. t \in {"connect", "disconnect", "recovery", "stray", "relayRestore"}
      BY DEF Timers
    <3> QED
      BY <1>4, <3>1, <3>2 DEF Bit
  <2> HIDE DEF a, b, d, e, f, p, q, r, s, u
  <2> QED
    BY <1>1, <1>2, <2>1, <2>2
<1>5. ASSUME NEW t \in Timers, n.timers \subseteq k.timers \cup {t}
      PROVE  Pending(n) <= Pending(k) + 1
  <2>1. /\ t # "connect" => p <= a
        /\ t # "disconnect" => q <= b
        /\ t # "recovery" => r <= d
        /\ t # "stray" => s <= e
        /\ t # "relayRestore" => u <= f
    BY <1>5 DEF Bit
  <2>2. \/ q <= b /\ r <= d /\ s <= e /\ u <= f
        \/ p <= a /\ r <= d /\ s <= e /\ u <= f
        \/ p <= a /\ q <= b /\ s <= e /\ u <= f
        \/ p <= a /\ q <= b /\ r <= d /\ u <= f
        \/ p <= a /\ q <= b /\ r <= d /\ s <= e
    BY <2>1
  <2> HIDE DEF a, b, d, e, f, p, q, r, s, u
  <2> QED
    BY <1>1, <1>2, <2>2
<1> QED
  BY <1>3, <1>4, <1>5

LEMMA DriveIs ==
  ASSUME NEW k \in ConnType
  PROVE  Drive(k) \in Nat
<1>1. k.stage \in 0..2 /\ k.restarts \in Nat /\ Pending(k) \in Nat
  BY PendingIs DEF ConnType
<1> QED
  BY <1>1 DEF Drive

\* A timer less of the same recovery.
LEMMA DriveLess ==
  ASSUME NEW k \in ConnType, NEW n, n.stage = k.stage, n.restarts = k.restarts,
         Pending(n) + 1 <= Pending(k)
  PROVE  Drive(n) < Drive(k)
<1>1. k.stage \in 0..2 /\ k.restarts \in Nat /\ Pending(k) \in Nat /\ Pending(n) \in Nat
  BY PendingIs DEF ConnType
<1>2. /\ Drive(k) = 3 * (2 - k.stage) + 2 * k.restarts + Pending(k)
      /\ Drive(n) = 3 * (2 - k.stage) + 2 * k.restarts + Pending(n)
  BY DEF Drive
<1> QED
  BY <1>1, <1>2

\* What a step makes of the connection of slot c: it does not touch its recovery; it
\* closes it or takes it out of the table; it is made; or
\* something is due for it afterwards, and less than before unless the network
\* changed its state.
Step(c, k, n) ==
  \/ Untouched(n, k) /\ (current'[k.type] = c => current[k.type] = c)
  \/ ~Opened(n)
  \/ New(n) /\ ~Opened(k)
  \/ Due(n) /\ (n.pc = "up" \/ k.pc = "up" \/ faults' # faults \/ Drive(n) < Drive(k))
Stepped == \A c \in Conns : Step(c, conn[c], conn'[c])
Vacated == \A t \in Types : current'[t] \in {current[t], 0}

LEMMA LeftAlone ==
  ASSUME IInv, Vacated
  PROVE  \A c \in Conns : Step(c, conn[c], conn[c])
<1> SUFFICES ASSUME NEW c \in Conns PROVE Step(c, conn[c], conn[c])
  OBVIOUS
<1>1. conn[c] \in ConnType /\ conn[c].type \in Types
  BY DEF IInv, Sound, ConnType
<1>2. Untouched(conn[c], conn[c])
  BY <1>1 DEF Untouched, Same
<1>3. current'[conn[c].type] = c => current[conn[c].type] = c
  BY <1>1, ZeroIsNone DEF Vacated
<1> QED
  BY <1>2, <1>3 DEF Step

\* A step that changes one connection, or only closes some.
LEMMA OneStepped ==
  ASSUME IInv, NEW c \in Conns, NEW n, conn' = [conn EXCEPT ![c] = n], Vacated, Step(c, conn[c], n)
  PROVE  Stepped
<1>1. conn'[c] = n /\ \A d \in Conns : d # c => conn'[d] = conn[d]
  BY DEF IInv, Sound
<1>2. \A d \in Conns : Step(d, conn[d], conn[d])
  BY LeftAlone
<1>3. ASSUME NEW d \in Conns
      PROVE  Step(d, conn[d], conn'[d])
  BY <1>1, <1>2
<1> QED
  BY <1>3 DEF Stepped

LEMMA LeavingIsStep ==
  ASSUME IInv, Vacated, Leaves
  PROVE  Stepped
<1>1. \A d \in Conns : /\ Step(d, conn[d], conn[d]) /\ Step(d, conn[d], Closed)
                      /\ Step(d, conn[d], Lost(conn[d]))
  BY LeftAlone, Blanks, LostFacts DEF Step, IInv, Sound, Bare
<1> QED
  BY <1>1 DEF Stepped, Leaves

LEMMA FailSteps ==
  ASSUME IInv, NEW c \in Conns, Fail(c)
  PROVE  Vacated /\ Stepped
<1>1. Vacated
  BY FailIs DEF Vacated, IInv, Sound
<1> QED
  BY <1>1, FailLeaves, LeavingIsStep

\* Every way out of _requestConnectionICERestart: q is the record of c one stage on.
Escalated(q, k) ==
  /\ q \in ConnType /\ q.stage = k.stage + 1 /\ q.restarts = k.restarts
  /\ q.timers = k.timers \ {"recovery"}

LEMMA RestartSteps ==
  ASSUME IInv, NEW c \in Conns, NEW k \in ConnType, NEW q, Escalated(q, k),
         faults' # faults \/ Drive(k) <= Drive(conn[c]), Restart(c, q)
  PROVE  Stepped
<1>1. Vacated
  BY FailSteps DEF Restart, Vacated
<1>2. /\ Drive(k) \in Nat /\ Drive(conn[c]) \in Nat /\ Pending(k) \in Nat
      /\ k.stage \in 0..2 /\ q.stage \in 0..2 /\ k.restarts \in Nat
      /\ q.stage = k.stage + 1 /\ q.restarts = k.restarts
      /\ Drive(k) = 3 * (2 - k.stage) + 2 * k.restarts + Pending(k)
  BY DriveIs, PendingIs DEF IInv, Sound, Escalated, ConnType, Drive
<1>3. CASE q.type = "publisher"
  <2> DEFINE n == [q EXCEPT !.restarts = @ + 1]
  <2>1. conn' = [conn EXCEPT ![c] = n]
    BY <1>3 DEF Restart
  <2>2. n.restarts = k.restarts + 1 /\ n.timers = q.timers /\ n.stage = q.stage
    BY <1>2 DEF Escalated, ConnType
  <2> HIDE DEF n
  <2>3. Pending(n) <= Pending(k) /\ Pending(n) \in Nat
    BY <2>2, PendingMoves, PendingIs DEF Escalated
  <2>4. Drive(n) = 3 * (2 - (k.stage + 1)) + 2 * (k.restarts + 1) + Pending(n)
    BY <1>2, <2>2 DEF Drive
  <2>5. Drive(n) < Drive(k)
    BY <1>2, <2>3, <2>4
  <2>6. n.restarts > 0
    BY <1>2, <2>2
  <2>7. Drive(n) \in Int
    BY <1>2, <2>3, <2>4
  <2>8. faults' # faults \/ Drive(n) < Drive(conn[c])
    BY <1>2, <2>5, <2>7
  <2> QED
    BY <1>1, <2>1, <2>6, <2>8, OneStepped DEF Step, Due
<1>4. CASE q.type # "publisher" /\ q.dc
  <2> DEFINE n == [q EXCEPT !.timers = @ \cup {"recovery"}]
  <2>1. conn' = [conn EXCEPT ![c] = n]
    BY <1>4 DEF Restart
  <2>2. /\ n.restarts = k.restarts /\ n.timers = q.timers \cup {"recovery"} /\ n.stage = q.stage
    BY <1>2 DEF Escalated, ConnType
  <2> HIDE DEF n
  <2>3. Pending(n) <= Pending(k) + 1 /\ Pending(n) \in Nat
    <3>1. n.timers \subseteq k.timers \cup {"recovery"} /\ "recovery" \in Timers
      BY <2>2 DEF Escalated, Timers
    <3> QED
      BY <3>1, PendingMoves, PendingIs
  <2>4. Drive(n) = 3 * (2 - (k.stage + 1)) + 2 * k.restarts + Pending(n)
    BY <1>2, <2>2 DEF Drive
  <2>5. Drive(n) < Drive(k) /\ Drive(n) \in Int
    BY <1>2, <2>3, <2>4
  <2>6. "recovery" \in n.timers
    BY <2>2
  <2>7. faults' # faults \/ Drive(n) < Drive(conn[c])
    BY <1>2, <2>5
  <2> QED
    BY <1>1, <2>1, <2>6, <2>7, OneStepped DEF Step, Due
<1>5. CASE q.type # "publisher" /\ ~q.dc
  BY <1>5, FailSteps DEF Restart
<1> QED
  BY <1>3, <1>4, <1>5

\* Every way out of _recoverConnection.
LEMMA RecoverSteps ==
  ASSUME IInv, NEW c \in Conns, NEW k \in ConnType,
         faults' # faults \/ Drive(k) < Drive(conn[c]),
         k.recovering => Due(k), Recover(c, k)
  PROVE  Stepped
<1>1. CASE k.recovering /\ conn' = [conn EXCEPT ![c] = k] /\ UNCHANGED current
  <2>1. Vacated
    BY <1>1 DEF Vacated
  <2> QED
    BY <1>1, <2>1, OneStepped DEF Step
<1>2. CASE Fail(c)
  BY <1>2, FailSteps
<1>3. ASSUME NEW s \in {1, 2}, NEW y \in Relays, s = k.stage + 1,
             Restart(c, Escalating(k, s, y))
      PROVE  Stepped
  <2> DEFINE q == Escalating(k, s, y)
  <2>0. AskedFor(q, k, s)
    BY AskedIs, Zenon
  <2>1. Same(q, k) /\ q.stage = s /\ q.timers = k.timers \ {"recovery"}
    BY <2>0 DEF AskedFor
  <2>2. Restart(c, q)
    BY <1>3
  <2> HIDE DEF q
  <2>3. Escalated(q, k)
    BY <1>3, <2>1 DEF Escalated, Same
  <2>4. faults' # faults \/ Drive(k) <= Drive(conn[c])
    BY DriveIs DEF IInv, Sound
  <2> QED
    BY <2>2, <2>3, <2>4, RestartSteps
<1> QED
  BY <1>1, <1>2, <1>3, RecoverIs

LEMMA RestartFailsSteps ==
  ASSUME IInv, NEW c \in Conns, RestartFails(c)
  PROVE  Stepped
  BY FailSteps DEF RestartFails

\* A timer of _recoverConnection is not up: the record that it looks at has one less.
LEMMA TimerSteps ==
  ASSUME IInv, RecoveryIsDue, NEW c \in Conns, NEW t \in {"connect", "disconnect"}, Timer(c, t)
  PROVE  Stepped
<1> DEFINE k == [conn[c] EXCEPT !.timers = @ \ {t}]
<1>1. conn[c] \in ConnType /\ Reset(conn[c]) /\ t \in conn[c].timers
  BY DEF IInv, Sound, Timer
<1>2. /\ k \in ConnType /\ k.pc = conn[c].pc /\ k.restarts = conn[c].restarts
      /\ k.recovering = conn[c].recovering /\ k.timers = conn[c].timers \ {t}
      /\ k.stage = conn[c].stage
  BY <1>1 DEF ConnType
<1>3. k.pc # "up"
  BY <1>1, <1>2 DEF Reset
<1>4. Recover(c, k)
  BY <1>3 DEF Timer
<1>5. Due(conn[c])
  BY <1>1, OfTable DEF IInv, RecoveryIsDue, IsOpen, Opened, Current
<1> HIDE DEF k
<1>6. k.recovering => Due(k)
  BY <1>2, <1>5 DEF Due
<1>7. Drive(k) < Drive(conn[c])
  <2>1. Pending(k) + 1 <= Pending(conn[c])
    BY <1>1, <1>2, PendingMoves DEF Timers
  <2> QED
    BY <1>1, <1>2, <2>1, DriveLess
<1> QED
  BY <1>2, <1>4, <1>6, <1>7, RecoverSteps

\* failed: a fault starts what it takes.
LEMMA FailsSteps ==
  ASSUME IInv, RecoveryIsDue, NEW c \in Conns, Fails(c)
  PROVE  Stepped
<1> DEFINE k == [conn[c] EXCEPT !.pc = "failed", !.fresh = FALSE, !.timers = @ \ {"disconnect"}]
<1>1. conn[c] \in ConnType /\ Current(c) /\ Opened(conn[c]) /\ Recover(c, k) /\ faults' # faults
  BY OfTable DEF IInv, Sound, CountsOK, Fails, Faulty
<1>2. /\ k \in ConnType /\ k.restarts = conn[c].restarts
      /\ k.recovering = conn[c].recovering /\ k.timers = conn[c].timers \ {"disconnect"}
  <2>1. ASSUME NEW b \in BOOLEAN
        PROVE  LET q == [conn[c] EXCEPT !.pc = "failed", !.fresh = b, !.timers = @ \ {"disconnect"}]
               IN /\ q \in ConnType /\ q.restarts = conn[c].restarts
                  /\ q.recovering = conn[c].recovering /\ q.timers = conn[c].timers \ {"disconnect"}
    BY <1>1 DEF ConnType, States
  <2>2. FALSE \in BOOLEAN
    OBVIOUS
  <2> QED
    BY <2>1, <2>2, Zenon
<1> HIDE DEF k
<1>3. Due(conn[c])
  BY <1>1 DEF RecoveryIsDue, IsOpen, Opened
<1>4. k.recovering => Due(k)
  BY <1>2, <1>3 DEF Due
<1> QED
  BY <1>1, <1>2, <1>4, RecoverSteps

\* A connection that is up by then is healthy, and needs nothing.
LEMMA HealthySteps ==
  ASSUME IInv, NEW c \in Conns, NEW k \in ConnType, k.pc = "up", Vacated,
         conn' = [conn EXCEPT ![c] = Healthy(k)]
  PROVE  Stepped
<1> HIDE DEF Healthy
<1>1. Healthy(k).pc = "up" /\ ~Healthy(k).recovering
  BY HealthyFacts DEF Same, Reset
<1> QED
  BY <1>1, OneStepped DEF Step, Due

LEMMA UpSteps ==
  ASSUME IInv, NEW c \in Conns, Up(c)
  PROVE  Stepped
<1>1. [conn[c] EXCEPT !.pc = "up"] \in ConnType /\ [conn[c] EXCEPT !.pc = "up"].pc = "up"
  BY DEF IInv, Sound, ConnType, States
<1>2. conn' = [conn EXCEPT ![c] = Healthy([conn[c] EXCEPT !.pc = "up"])] /\ Vacated
  BY DEF Up, Vacated
<1> QED
  BY <1>1, <1>2, HealthySteps

\* The timer of a restart, which ends it: the next one is another step's.
LEMMA RecoveryTimerSteps ==
  ASSUME IInv, NEW c \in Conns, RecoveryTimer(c)
  PROVE  Stepped
<1> DEFINE old  == conn[c]
           left == IF {"recovery", "stray"} \subseteq old.timers THEN {"stray"} ELSE {}
           ts   == (old.timers \ {"recovery", "stray"}) \cup left
           k    == [old EXCEPT !.recovering = FALSE, !.timers = ts]
<1>1. old \in ConnType /\ old.timers \cap {"recovery", "stray"} # {}
  BY DEF IInv, Sound, RecoveryTimer
<1>2. /\ k.pc = "up" => conn' = [conn EXCEPT ![c] = Healthy(k)] /\ Vacated
      /\ k.pc # "up" => Recover(c, k)
  BY DEF RecoveryTimer, Vacated
<1>3. /\ ts \in SUBSET Timers
      /\ \E t \in Timers : t \in old.timers /\ ts \subseteq old.timers \ {t}
  <2>1. ts \in SUBSET Timers
    BY <1>1 DEF ConnType, Timers
  <2>2. CASE "recovery" \in old.timers
    <3>1. ts \subseteq old.timers \ {"recovery"}
      BY <2>2
    <3>2. "recovery" \in Timers
      BY DEF Timers
    <3> HIDE DEF ts, old
    <3> QED
      BY <2>1, <2>2, <3>1, <3>2
  <2>3. CASE "recovery" \notin old.timers
    <3>1. "stray" \in old.timers
      BY <2>3, <1>1
    <3>2. ts \subseteq old.timers \ {"stray"}
      BY <2>3
    <3>3. "stray" \in Timers
      BY DEF Timers
    <3> HIDE DEF ts, old
    <3> QED
      BY <2>1, <3>1, <3>2, <3>3
  <2> QED
    BY <2>1, <2>2, <2>3
<1> HIDE DEF ts, old
<1>4. k \in ConnType /\ k.restarts = old.restarts /\ ~k.recovering /\ k.timers = ts /\ k.stage = old.stage
  <2>1. ASSUME NEW b \in BOOLEAN
        PROVE  LET q == [old EXCEPT !.recovering = b, !.timers = ts]
               IN /\ q \in ConnType /\ q.restarts = old.restarts /\ q.recovering = b
                  /\ q.timers = ts /\ q.stage = old.stage
    BY <1>1, <1>3 DEF ConnType
  <2>2. FALSE \in BOOLEAN
    OBVIOUS
  <2> QED
    BY <2>1, <2>2, Zenon
<1> HIDE DEF k
<1>5. Drive(k) < Drive(conn[c])
  <2>1. Pending(k) + 1 <= Pending(old)
    BY <1>3, <1>4, PendingMoves
  <2>2. Drive(k) < Drive(old)
    BY <1>1, <1>4, <2>1, DriveLess
  <2> QED
    BY <2>2 DEF old
<1> QED
  BY <1>2, <1>4, <1>5, RecoverSteps, HealthySteps

\* A restart that is out is a timer instead.
LEMMA JudgedSteps ==
  ASSUME IInv, NEW c \in Conns, RestartDone(c), Current(c)
  PROVE  Stepped
<1> DEFINE k  == conn[c]
           x  == IF "recovery" \in k.timers THEN "stray" ELSE "recovery"
           ts == k.timers \cup (IF "recovery" \in k.timers THEN {"stray"} ELSE {"recovery"})
           n  == [k EXCEPT !.restarts = @ - 1, !.offered = TRUE, !.timers = ts]
<1>1. /\ k \in ConnType /\ k.restarts \in Nat /\ k.restarts > 0
      /\ conn' = [conn EXCEPT ![c] = n] /\ Vacated
  BY DEF IInv, Sound, ConnType, RestartDone, Vacated
<1>2. /\ ts \in SUBSET Timers /\ ts = k.timers \cup {x} /\ x \in Timers /\ "recovery" \in ts
  BY <1>1 DEF ConnType, Timers
<1>3. n.restarts = k.restarts - 1 /\ n.timers = ts /\ n.stage = k.stage
  <2> HIDE DEF k, ts
  <2>1. ASSUME NEW b \in BOOLEAN, NEW i \in Nat
        PROVE  LET q == [k EXCEPT !.restarts = i, !.offered = b, !.timers = ts]
               IN q.restarts = i /\ q.timers = ts /\ q.stage = k.stage
    BY <1>1, <1>2 DEF ConnType
  <2>2. TRUE \in BOOLEAN /\ k.restarts - 1 \in Nat
    BY <1>1
  <2> QED
    BY <2>1, <2>2, Zenon
<1> HIDE DEF ts, n, x
<1>4. Pending(n) <= Pending(k) + 1 /\ Pending(n) \in Nat /\ Pending(k) \in Nat
  BY <1>2, <1>3, PendingMoves, PendingIs
<1>5. Drive(n) < Drive(k)
  <2>1. k.stage \in 0..2
    BY <1>1 DEF ConnType
  <2>2. /\ Drive(k) = 3 * (2 - k.stage) + 2 * k.restarts + Pending(k)
        /\ Drive(n) = 3 * (2 - k.stage) + 2 * (k.restarts - 1) + Pending(n)
    BY <1>3 DEF Drive
  <2> HIDE DEF k
  <2> QED
    BY <1>1, <1>4, <2>1, <2>2
<1>6. Due(n)
  BY <1>2, <1>3 DEF Due
<1> QED
  BY <1>1, <1>5, <1>6, OneStepped DEF Step

LEMMA RestartDoneSteps ==
  ASSUME IInv, NEW c \in Conns, RestartDone(c)
  PROVE  Stepped
<1> DEFINE n == [conn[c] EXCEPT !.restarts = @ - 1]
<1>1. CASE Current(c)
  BY <1>1, JudgedSteps
<1>2. CASE ~Current(c)
  <2>1. conn[c] \in ConnType /\ ~Opened(conn[c])
    BY <1>2, OfTable DEF IInv
  <2>2. conn' = [conn EXCEPT ![c] = n] /\ Vacated
    BY <1>2 DEF RestartDone, IInv, Sound, Vacated
  <2>3. ~Opened(n)
    BY <2>1 DEF Opened, ConnType
  <2> HIDE DEF n
  <2> QED
    BY <2>2, <2>3, OneStepped DEF Step
<1> QED
  BY <1>1, <1>2

\* disconnected: the grace period is due.
LEMMA DownSteps ==
  ASSUME IInv, NEW c \in Conns, Down(c)
  PROVE  Stepped
<1> DEFINE k == conn[c]
           n == [k EXCEPT !.pc = "down", !.timers = @ \cup {"disconnect"}]
<1>1. k \in ConnType /\ k.pc = "up" /\ ~k.recovering
  BY DEF IInv, Sound, Down, Reset
<1>2. conn' = [conn EXCEPT ![c] = n] /\ Vacated
  BY <1>1 DEF Down, IInv, Sound, Vacated
<1>3. "disconnect" \in n.timers /\ n.recovering = k.recovering
  BY <1>1 DEF ConnType
<1> HIDE DEF n
<1>4. Due(n)
  BY <1>1, <1>3 DEF Due
<1> QED
  BY <1>1, <1>2, <1>4, OneStepped DEF Step

LEMMA RelayRestoreSteps ==
  ASSUME IInv, RecoveryIsDue, NEW c \in Conns, RelayRestore(c)
  PROVE  Stepped
<1> DEFINE k == conn[c]
           n(y) == [k EXCEPT !.timers = @ \ {"relayRestore"}, !.relay = y]
<1>1. k \in ConnType /\ "relayRestore" \in k.timers /\ Vacated
  BY DEF IInv, Sound, RelayRestore, Vacated
<1>2. PICK y \in {"off", "stuck"} : conn' = [conn EXCEPT ![c] = n(y)]
  BY DEF RelayRestore, IInv, Sound
<1>3. /\ n(y).restarts = k.restarts /\ n(y).timers = k.timers \ {"relayRestore"}
      /\ n(y).pc = k.pc /\ n(y).recovering = k.recovering /\ n(y).stage = k.stage
  <2> HIDE DEF k
  <2> QED
    BY <1>1 DEF ConnType
<1>4. Due(k)
  BY <1>1, OfTable DEF IInv, RecoveryIsDue, IsOpen, Opened, Current
<1> HIDE DEF n
<1>5. Due(n(y))
  BY <1>3, <1>4 DEF Due
<1>6. Drive(n(y)) < Drive(k)
  <2>1. Pending(n(y)) + 1 <= Pending(k)
    BY <1>1, <1>3, PendingMoves DEF Timers
  <2> QED
    BY <1>1, <1>3, <2>1, DriveLess
<1> QED
  BY <1>1, <1>2, <1>5, <1>6, OneStepped DEF Step

\* A step that only marks a connection.
LEMMA MarkIsStep ==
  ASSUME IInv, NEW c \in Conns, NEW n, Untouched(n, conn[c]), conn' = [conn EXCEPT ![c] = n],
         UNCHANGED current
  PROVE  Stepped
<1>1. Vacated
  BY DEF Vacated
<1> QED
  BY <1>1, OneStepped DEF Step

LEMMA MarksAreSteps ==
  ASSUME IInv, NEW c \in Conns,
         \/ DataChannelOpens(c) \/ RestartRequest(c)
         \/ \E t \in Types, s \in Sessions : Candidates(t, s)
         \/ \E s \in Sessions : Answer(s)
  PROVE  Stepped
<1>1. /\ conn \in [Conns -> ConnType] /\ UNCHANGED current
      /\ TRUE \in BOOLEAN /\ FALSE \in BOOLEAN /\ Sessions \subseteq 0..MaxSessions /\ 0 \in 0..MaxSessions
  <2>1. UNCHANGED current
    BY DEF DataChannelOpens, RestartRequest, Candidates, Answer
  <2>2. Sessions \subseteq 0..MaxSessions /\ 0 \in 0..MaxSessions
    BY BoundsOK DEF Sessions
  <2> QED
    BY <2>1, <2>2 DEF IInv, Sound
<1>2. CASE DataChannelOpens(c)
  <2>1. conn' = [conn EXCEPT ![c] = [conn[c] EXCEPT !.dc = TRUE]]
    BY <1>1, <1>2 DEF DataChannelOpens
  <2>2. Untouched([conn[c] EXCEPT !.dc = TRUE], conn[c])
    BY <1>1, Marks, Zenon
  <2> QED
    BY <1>1, <2>1, <2>2, MarkIsStep
<1>3. CASE RestartRequest(c)
  <2>1. conn' = [conn EXCEPT ![c] = [conn[c] EXCEPT !.offered = TRUE]]
    BY <1>1, <1>3 DEF RestartRequest
  <2>2. Untouched([conn[c] EXCEPT !.offered = TRUE], conn[c])
    BY <1>1, Marks, Zenon
  <2> QED
    BY <1>1, <2>1, <2>2, MarkIsStep
<1>4. ASSUME NEW t \in Types, NEW s \in Sessions, Candidates(t, s)
      PROVE  Stepped
  <2>1. PICK d \in Conns : conn' = [conn EXCEPT ![d].ice = s]
    BY <1>4 DEF Candidates
  <2>2. conn' = [conn EXCEPT ![d] = [conn[d] EXCEPT !.ice = s]]
    BY <1>1, <2>1
  <2>3. Untouched([conn[d] EXCEPT !.ice = s], conn[d])
    BY <1>1, Marks
  <2> QED
    BY <1>1, <2>2, <2>3, MarkIsStep
<1>5. ASSUME NEW s \in Sessions, Answer(s)
      PROVE  Stepped
  <2>1. PICK d \in Conns :
          conn' = [conn EXCEPT ![d].offered = FALSE, ![d].remote = s, ![d].fresh = TRUE]
    BY <1>5 DEF Answer
  <2>2. conn' = [conn EXCEPT ![d] = [conn[d] EXCEPT !.offered = FALSE, !.remote = s, !.fresh = TRUE]]
    BY <1>1, <2>1
  <2>3. conn[d] \in ConnType /\ s \in 0..MaxSessions
    BY <1>1
  <2>4. Untouched([conn[d] EXCEPT !.offered = FALSE, !.remote = s, !.fresh = TRUE], conn[d])
    BY <1>1, <2>3, Marks, Zenon
  <2> QED
    BY <1>1, <2>2, <2>4, MarkIsStep
<1> QED
  BY <1>2, <1>3, <1>4, <1>5

LEMMA DescribedSteps ==
  ASSUME IInv, NEW j \in JobIds, Described(j)
  PROVE  Stepped
<1> DEFINE c == jobs[j].conn
<1>1. c \in Conns /\ conn \in [Conns -> ConnType] /\ UNCHANGED current /\ Vacated
  BY DEF Described, IInv, Sound, JobsOK, JobOK, Vacated
<1>2. CASE IsOpen(c) /\ jobs[j].kind # "offer"
  <2>1. conn' = [conn EXCEPT ![c].offered = TRUE]
    BY <1>2 DEF Described
  <2> HIDE DEF c
  <2>2. conn' = [conn EXCEPT ![c] = [conn[c] EXCEPT !.offered = TRUE]] /\ conn[c] \in ConnType
    BY <1>1, <2>1
  <2>3. TRUE \in BOOLEAN /\ 0 \in 0..MaxSessions
    BY BoundsOK
  <2>4. Untouched([conn[c] EXCEPT !.offered = TRUE], conn[c])
    BY <2>2, <2>3, Marks, Zenon
  <2> QED
    BY <1>1, <2>2, <2>4, MarkIsStep
<1>3. CASE ~(IsOpen(c) /\ jobs[j].kind # "offer")
  <2>1. conn' = conn
    BY <1>3 DEF Described
  <2> QED
    BY <1>1, <2>1, LeavingIsStep DEF Leaves
<1> QED
  BY <1>2, <1>3

LEMMA ClosersStep ==
  ASSUME IInv, Closers
  PROVE  Stepped
<1>1. Vacated
  BY DEF Closers, vars, ByeOrHangup, Disconnect, TurnFetched, Teardown, Stop, StopFlushed, Incoming,
         Requested, Starts, HashReady, PlayHashed, CloseAll, table, Vacated
<1>2. Leaves
  BY DEF Closers, vars, ByeOrHangup, Disconnect, TurnFetched, Teardown, Stop, StopFlushed, Incoming,
         Requested, Starts, HashReady, PlayHashed, CloseAll, table, Leaves
<1> QED
  BY <1>1, <1>2, LeavingIsStep

LEMMA OfferHashedSteps ==
  ASSUME IInv, NEW j \in JobIds, OfferHashed(j)
  PROVE  Stepped
<1> DEFINE old == jobs[j]
           v   == current["viewer"]
<1>1. CASE Reused(j, v) /\ Renegotiates(j, v)
  <2>1. /\ v \in Conns /\ conn[v] \in ConnType /\ UNCHANGED current
        /\ conn' = [conn EXCEPT ![v] = [conn[v] EXCEPT !.remote = old.session, !.fresh = TRUE]]
    BY <1>1 DEF IInv, Sound, Types, Reused, Renegotiates
  <2>2. old.session \in 0..MaxSessions /\ TRUE \in BOOLEAN
    BY DEF IInv, JobsOK, JobType
  <2> HIDE DEF v, old
  <2>3. Untouched([conn[v] EXCEPT !.remote = old.session, !.fresh = TRUE], conn[v])
    BY <2>1, <2>2, Marks, Zenon
  <2> QED
    BY <2>1, <2>3, MarkIsStep
<1>2. CASE CloseAll({"viewer"})
  <2>1. Leaves /\ Vacated
    BY <1>2 DEF CloseAll, Leaves, Vacated
  <2> QED
    BY <2>1, LeavingIsStep
<1> QED
  BY <1>1, <1>2 DEF OfferHashed

\* A connection is made, and another one of its type is not in the table any more.
LEMMA CreatedSteps ==
  ASSUME IInv, NEW j \in JobIds, Created(j)
  PROVE  Stepped
<1> DEFINE type == CreatedType(j)
<1>1. PICK c \in Conns, new \in ConnType : Unused(c) /\ Puts(j, c, new)
  BY CreatedPuts
<1>2. New(new) /\ ~Opened(conn[c]) /\ type \in Types
  BY <1>1 DEF Puts, Made, Unused, Opened, CreatedType, Types
<1> HIDE DEF type
<1>3. /\ conn' = [d \in Conns |-> IF d = c THEN new
                                  ELSE IF d = current[type] THEN Lost(conn[d]) ELSE conn[d]]
      /\ current' = [current EXCEPT ![type] = c]
  BY <1>1 DEF Puts, type
<1>4. ASSUME NEW d \in Conns
      PROVE  Step(d, conn[d], conn'[d])
  <2>1. conn[d] \in ConnType /\ conn[d].type \in Types /\ current \in [Types -> Conns \cup {0}]
    BY DEF IInv, Sound, ConnType
  <2>2. CASE d = c
    BY <1>2, <1>3, <2>2 DEF Step
  <2>3. CASE d # c /\ d = current[type]
    <3>1. conn'[d] = Lost(conn[d])
      BY <1>3, <2>3
    <3> QED
      BY <2>1, <3>1, LostFacts DEF Step
  <2>4. CASE d # c /\ d # current[type]
    <3>1. conn'[d] = conn[d] /\ Untouched(conn[d], conn[d])
      BY <1>3, <2>1, <2>4 DEF Untouched, Same
    <3>2. current'[conn[d].type] = d => current[conn[d].type] = d
      BY <1>2, <1>3, <2>1, <2>4
    <3> QED
      BY <3>1, <3>2 DEF Step
  <2> QED
    BY <2>2, <2>3, <2>4
<1> QED
  BY <1>4 DEF Stepped

LEMMA NextSteps == IInv /\ RecoveryIsDue /\ [Next]_vars => Stepped
<1> SUFFICES ASSUME IInv, RecoveryIsDue, [Next]_vars PROVE Stepped
  OBVIOUS
<1>1. CASE Closers
  BY <1>1, ClosersStep
<1>2. ASSUME NEW j \in JobIds, OfferHashed(j) \/ Created(j) \/ Described(j) PROVE Stepped
  BY <1>2, OfferHashedSteps, CreatedSteps, DescribedSteps
<1>3. 1 \in Conns
  BY BoundsOK DEF Conns
<1>4. ASSUME NEW s \in Sessions, Answer(s) PROVE Stepped
  BY <1>3, <1>4, MarksAreSteps
<1>5. ASSUME NEW t \in Types, NEW s \in Sessions, Candidates(t, s) PROVE Stepped
  BY <1>3, <1>5, MarksAreSteps
<1>6. ASSUME NEW c \in Conns, DataChannelOpens(c) \/ RestartRequest(c) PROVE Stepped
  BY <1>6, MarksAreSteps
<1>7. ASSUME NEW c \in Conns, Up(c) \/ Down(c) \/ Fails(c) PROVE Stepped
  BY <1>7, UpSteps, DownSteps, FailsSteps
<1>8. ASSUME NEW c \in Conns, \/ RestartDone(c) \/ RestartFails(c) \/ RecoveryTimer(c)
                             \/ RelayRestore(c)
      PROVE Stepped
  BY <1>8, RestartDoneSteps, RestartFailsSteps, RecoveryTimerSteps, RelayRestoreSteps
<1>9. ASSUME NEW c \in Conns, NEW t \in {"connect", "disconnect"}, Timer(c, t) PROVE Stepped
  BY <1>9, TimerSteps
<1>10. ASSUME Others PROVE Stepped
  BY <1>10, <1>1, <1>4, <1>5, <1>6, <1>7 DEF Others, Closers
<1>11. ASSUME System PROVE Stepped
  BY <1>11, <1>1, <1>2, <1>8, <1>9 DEF System, Closers
<1> QED
  BY <1>1, <1>10, <1>11 DEF Next, Closers

LEMMA SteppedIsDue ==
  ASSUME IInv, IInv', RecoveryIsDue, Stepped
  PROVE  RecoveryIsDue'
<1> SUFFICES ASSUME NEW c \in Conns, IsOpen(c)', Current(c)' PROVE Due(conn'[c])
  BY DEF RecoveryIsDue
<1> DEFINE k == conn[c]
           n == conn'[c]
<1>1. Opened(n) /\ current'[n.type] = c
  <2>1. n \in ConnType /\ n.type \in Types
    BY DEF IInv, Sound, ConnType
  <2>2. current'[n.type] = c
    BY DEF Current
  <2> QED
    BY <2>1, <2>2, ZeroIsNone DEF IInv, Sound
<1>2. Step(c, k, n)
  BY DEF Stepped
<1>3. CASE Untouched(n, k) /\ (current'[k.type] = c => current[k.type] = c)
  <2>1. Opened(k) /\ current[k.type] = c
    BY <1>1, <1>3 DEF Untouched, Same, Opened
  <2>2. Due(k)
    BY <2>1 DEF RecoveryIsDue, IsOpen, Opened, Current
  <2> QED
    BY <1>3, <2>2 DEF Due, Untouched, Same
<1>4. CASE New(n)
  BY <1>4 DEF New, Due
<1> QED
  BY <1>1, <1>2, <1>3, <1>4 DEF Step

\* A connection of the table that is not up is never left to itself: a timer is set for
\* it or a restart of it is being prepared, whatever _recoverConnection,
\* the timers, the handlers and the network did, and in which order. RecoveryEnds
\* rests on it.
THEOREM NothingIsLeftToItself == Spec => []RecoveryIsDue
<1>1. Init => RecoveryIsDue
  BY DEF Init, RecoveryIsDue, IsOpen, NoConn
<1>2. IInv /\ IInv' /\ RecoveryIsDue /\ [Next]_vars => RecoveryIsDue'
  BY NextSteps, SteppedIsDue
<1> QED
  BY InvHolds, <1>1, <1>2, PTL DEF Spec

\* As long as a connection is in the table and not up, every step but a
\* fault of the network leaves its timers, its restarts and its stage alone or
\* takes something from what its recovery may still do.
RecoveryShrinks ==
  [][\A c \in Conns :
       /\ IsOpen(c) /\ Current(c) /\ Current(c)'
       /\ conn[c].pc # "up" /\ conn'[c].pc # "up" /\ faults' = faults
       => \/ Drive(conn'[c]) < Drive(conn[c])
          \/ /\ conn'[c].timers = conn[c].timers /\ conn'[c].restarts = conn[c].restarts
             /\ conn'[c].stage = conn[c].stage /\ conn'[c].recovering = conn[c].recovering]_vars

\* Recovery is bounded: restart, relay and giving up each take from the measure
\* Drive more than the restart and the timer that they ask for, so that between
\* two faults a connection that stays down has only so many steps of recovery.
THEOREM RecoveryIsBounded == Spec => RecoveryShrinks
<1>1. IInv /\ IInv' /\ RecoveryIsDue /\ [Next]_vars =>
        [\A c \in Conns :
           /\ IsOpen(c) /\ Current(c) /\ Current(c)'
           /\ conn[c].pc # "up" /\ conn'[c].pc # "up" /\ faults' = faults
           => \/ Drive(conn'[c]) < Drive(conn[c])
              \/ /\ conn'[c].timers = conn[c].timers /\ conn'[c].restarts = conn[c].restarts
                 /\ conn'[c].stage = conn[c].stage /\ conn'[c].recovering = conn[c].recovering]_vars
  <2> SUFFICES ASSUME IInv, IInv', Stepped, NEW c \in Conns,
                      Current(c), Current(c)',
                      conn[c].pc # "up", conn'[c].pc # "up", faults' = faults
               PROVE  \/ Drive(conn'[c]) < Drive(conn[c])
                      \/ /\ conn'[c].timers = conn[c].timers /\ conn'[c].restarts = conn[c].restarts
                         /\ conn'[c].stage = conn[c].stage /\ conn'[c].recovering = conn[c].recovering
    BY NextSteps
  <2>1. Opened(conn'[c]) /\ current'[conn'[c].type] = c
    <3>1. conn'[c] \in ConnType /\ conn'[c].type \in Types
      BY DEF IInv, Sound, ConnType
    <3>2. current'[conn'[c].type] = c
      BY DEF Current
    <3> QED
      BY <3>1, <3>2, ZeroIsNone DEF IInv, Sound
  <2>2. Step(c, conn[c], conn'[c]) /\ Opened(conn[c])
    BY OfTable DEF Stepped, IInv
  <2>3. \/ Untouched(conn'[c], conn[c])
        \/ Due(conn'[c]) /\ Drive(conn'[c]) < Drive(conn[c])
    BY <2>1, <2>2 DEF Step
  <2>4. Untouched(conn'[c], conn[c]) =>
          /\ conn'[c].timers = conn[c].timers /\ conn'[c].restarts = conn[c].restarts
          /\ conn'[c].stage = conn[c].stage /\ conn'[c].recovering = conn[c].recovering
    BY DEF Untouched, Same
  <2> QED
    BY <2>3, <2>4, Zenon
<1> QED
  BY InvHolds, NothingIsLeftToItself, <1>1, PTL DEF Spec, RecoveryShrinks
=============================================================================
