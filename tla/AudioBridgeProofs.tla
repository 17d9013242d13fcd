-------------------------- MODULE AudioBridgeProofs --------------------------
(***************************************************************************)
(* Theorems about AudioBridge for every capacity, chunk, reserve and block *)
(* size.  The argument: cursors keep their order (CursorInv); so what is   *)
(* being written and what is queued are fewer than Capacity apart, no two  *)
(* of their positions share a slot (SlotsDiffer), and a slot holds its     *)
(* frame from the time it is filled until it is taken (DataInv).           *)
(***************************************************************************)
EXTENDS AudioBridge, TLAPS

\* Positions less than Capacity apart have different slots.
LEMMA SlotsDiffer ==
  ASSUME NEW p \in Nat, NEW q \in Nat, p < q, q < p + Capacity
  PROVE  Slot(p) # Slot(q)
<1> DEFINE a == p \div Capacity
           b == q \div Capacity
<1>1. p = (Capacity * a) + (p % Capacity) /\ q = (Capacity * b) + (q % Capacity)
  BY SizeAssumption
<1>2. a \in Nat /\ b \in Nat
  BY SizeAssumption
<1> SUFFICES ASSUME p % Capacity = q % Capacity PROVE FALSE
  BY DEF Slot
<1> HIDE DEF a, b
<1>3. q - p = (Capacity * b) - (Capacity * a)
  BY <1>1, <1>2, SizeAssumption
<1>4. Capacity * (b - a) = (Capacity * b) - (Capacity * a)
  BY <1>2, SizeAssumption
<1>5. CASE b - a <= 0
  BY <1>2, <1>3, <1>4, <1>5, SizeAssumption
<1>6. CASE b - a >= 1
  BY <1>2, <1>3, <1>4, <1>6, SizeAssumption
<1> QED
  BY <1>2, <1>5, <1>6

LEMMA SlotInRange == ASSUME NEW p \in Nat PROVE Slot(p) \in Slots
  BY SizeAssumption DEF Slot, Slots

LEMMA ReserveIsNat == ASSUME NEW f \in Nat PROVE Reserve(f) \in 0..Capacity
  BY SizeAssumption DEF Reserve, Least, Most

\* What a thread copies out of the storage is a block of frames.
LEMMA CopiedIsBlock ==
  ASSUME NEW samples \in [Slots -> Nat], NEW from \in Nat, NEW n \in Nat
  PROVE  Copied(samples, from, n) \in Seq(Nat)
<1>1. ASSUME NEW i \in 1..n PROVE samples[Slot(from + i - 1)] \in Nat
  <2>1. from + i - 1 \in Nat
    OBVIOUS
  <2>2. Slot(from + i - 1) \in Slots
    BY <2>1, SlotInRange
  <2> QED
    BY <2>2
<1> QED
  BY <1>1 DEF Copied

\* Filling a region keeps the storage an array of frames ...
LEMMA FilledIsStorage ==
  ASSUME NEW samples \in [Slots -> Nat], NEW from \in Nat, NEW n \in Nat
  PROVE  Filled(samples, from, n) \in [Slots -> Nat]
<1>1. ASSUME NEW s \in Slots
      PROVE  (IF \E p \in from..(from + n - 1) : s = Slot(p)
              THEN (CHOOSE p \in from..(from + n - 1) : s = Slot(p)) + 1
              ELSE samples[s]) \in Nat
  <2>1. CASE \E p \in from..(from + n - 1) : s = Slot(p)
    <3> DEFINE o == CHOOSE p \in from..(from + n - 1) : s = Slot(p)
    <3>1. o \in from..(from + n - 1)
      BY <2>1
    <3> HIDE DEF o
    <3>2. o + 1 \in Nat
      BY <3>1
    <3> QED
      BY <2>1, <3>2 DEF o
  <2>2. CASE ~\E p \in from..(from + n - 1) : s = Slot(p)
    BY <2>2
  <2> QED
    BY <2>1, <2>2
<1> QED
  BY <1>1, Zenon DEF Filled

\* ... puts each frame of the region into its slot ...
LEMMA FilledRegion ==
  ASSUME NEW samples, NEW from \in Nat, NEW n \in 0..Capacity, NEW p \in from..(from + n - 1)
  PROVE  Filled(samples, from, n)[Slot(p)] = p + 1
<1> DEFINE q == CHOOSE o \in from..(from + n - 1) : Slot(p) = Slot(o)
<1>1. q \in from..(from + n - 1) /\ Slot(p) = Slot(q)
  OBVIOUS
<1> HIDE DEF q
<1>2. ~(p < q) /\ ~(q < p)
  BY <1>1, SlotsDiffer, SizeAssumption
<1>3. q = p
  BY <1>1, <1>2
<1>4. Filled(samples, from, n)[Slot(p)] = q + 1
  BY SlotInRange DEF Filled, q
<1> QED
  BY <1>3, <1>4

\* ... and leaves the slot of every position before it that is still queued.
LEMMA FilledElsewhere ==
  ASSUME NEW samples, NEW from \in Nat, NEW n \in Nat, NEW p \in Nat,
         p < from, from + n <= p + Capacity
  PROVE  Filled(samples, from, n)[Slot(p)] = samples[Slot(p)]
<1>1. ASSUME NEW q \in from..(from + n - 1) PROVE Slot(p) # Slot(q)
  BY SlotsDiffer, SizeAssumption
<1> QED
  BY <1>1, SlotInRange DEF Filled
-----------------------------------------------------------------------------
(* Types.  They need to know that no count of frames is negative, so they  *)
(* are proved together with the order of the cursors.                      *)

\* The transmit queue: the host counts what it publishes from the room so far,
\* the worker what it takes or throws away from the frames written so far.
TxInv ==
  /\ txRead <= txWritten /\ txWritten <= txRead + Capacity
  /\ host.pc \in {"fill", "offer"} => txWritten + host.count <= txRead + Capacity
  /\ worker.pc \in {"copy", "took"} => txRead + worker.count <= txWritten
  /\ worker.pc = "resetTx" => txRead <= worker.count /\ worker.count <= txWritten

\* The receive queue: the host counts what it plays or skips from the frames
\* written so far, the worker what it supplies from the room so far.
RxInv ==
  /\ rxRead <= rxWritten /\ rxWritten <= rxRead + Capacity
  /\ host.pc = "skipped" => rxRead <= host.count /\ host.count <= rxWritten
  /\ host.pc \in {"copy", "took"} => rxRead + host.count <= rxWritten
  /\ worker.pc \in {"write", "store"} => rxWritten + worker.count <= rxRead + Capacity

CursorInv == TypeOK /\ TxInv /\ RxInv

USE SizeAssumption, BlockAssumption, BoundAssumption

LEMMA RoomGrows == \A w, r, s \in Nat : r <= s /\ w <= r + Capacity => w <= s + Capacity
  OBVIOUS

LEMMA InitCursors == Init => CursorInv
<1> SUFFICES ASSUME Init PROVE CursorInv
  OBVIOUS
<1>1. Idle \in Progress(HostSteps) /\ Idle \in Progress(WorkerSteps) /\ Idle.pc = "idle"
  BY DEF Idle, At, Progress, HostSteps, WorkerSteps
<1>2. TxInv /\ RxInv
  BY <1>1 DEF Init, TxInv, RxInv
<1>3. /\ txSamples \in [Slots -> Nat] /\ rxSamples \in [Slots -> Nat]
      /\ taken \in Seq(Nat) /\ played \in Seq(Nat)
      /\ calls \in 0..MaxCalls /\ resets \in 0..MaxResets
  BY DEF Init
<1>4. TypeOK
  BY <1>1, <1>3 DEF Init, TypeOK
<1> QED
  BY <1>2, <1>4 DEF CursorInv

LEMMA HostCursors == CursorInv /\ Host => CursorInv'
<1> SUFFICES ASSUME CursorInv, Host PROVE CursorInv'
  OBVIOUS
<1> USE DEF CursorInv, HostAt, tx, rx
<1>0. /\ host \in Progress(HostSteps)
      /\ host.frames \in Nat /\ host.count \in Nat /\ host.block \in Seq(Nat) /\ <<>> \in Seq(Nat)
      /\ worker.count \in Nat
      /\ txWritten \in Nat /\ txRead \in Nat /\ rxWritten \in Nat /\ rxRead \in Nat
  BY DEF TypeOK, Progress
<1>1. ASSUME NEW f \in Blocks, HostOffer(f) PROVE CursorInv'
  <2> DEFINE n == Least(f, Capacity - (txWritten - txRead))
  <2>1. f \in Nat /\ n \in Nat /\ txWritten + n <= txRead + Capacity
    BY DEF TypeOK, TxInv, Least
  <2>2. host' = At("fill", f, n)
    BY <1>1 DEF HostOffer
  <2> HIDE DEF n
  <2>3. host' \in Progress(HostSteps) /\ host'.pc = "fill" /\ host'.count = n
    BY <1>0, <2>1, <2>2 DEF At, Progress, HostSteps
  <2>4. TypeOK'
    BY <1>1, <2>3 DEF HostOffer, TypeOK
  <2>5. TxInv' /\ RxInv'
    BY <1>1, <2>1, <2>3 DEF HostOffer, TxInv, RxInv
  <2> QED
    BY <2>4, <2>5
<1>2. ASSUME NEW f \in Blocks, HostExchange(f) PROVE CursorInv'
  <2>1. host' \in Progress(HostSteps) /\ host'.pc \in {"skip", "look"}
    BY <1>0, <1>2 DEF HostExchange, At, Progress, HostSteps
  <2>2. TypeOK'
    <3>1. calls' \in 0..MaxCalls
      BY <1>2 DEF HostExchange, TypeOK
    <3>2. discardRx' \in BOOLEAN
      BY <1>2, Zenon DEF HostExchange
    <3> QED
      BY <1>2, <2>1, <3>1, <3>2, Zenon DEF HostExchange, TypeOK
  <2>3. TxInv' /\ RxInv'
    BY <1>2, <2>1 DEF HostExchange, TxInv, RxInv
  <2> QED
    BY <2>2, <2>3
<1>3. CASE HostFill
  <2>1. host' \in Progress(HostSteps) /\ host'.pc = "offer" /\ host'.count = host.count
    BY <1>0, <1>3 DEF HostFill, Progress, HostSteps, Idle, At
  <2>2. txSamples' \in [Slots -> Nat]
    BY <1>0, <1>3, FilledIsStorage DEF HostFill, TypeOK
  <2>3. TypeOK'
    BY <1>0, <1>3, <2>1, <2>2 DEF HostFill, TypeOK
  <2>4. TxInv' /\ RxInv'
    BY <1>0, <1>3, <2>1, <2>2 DEF HostFill, TypeOK, TxInv, RxInv, Least, Most
  <2> QED
    BY <2>3, <2>4
<1>4. CASE HostPublish
  <2>1. host' \in Progress(HostSteps) /\ host'.pc = "idle" /\ txWritten + host.count \in Nat
    BY <1>0, <1>4 DEF HostPublish, Progress, HostSteps, Idle, At
  <2>2. TypeOK'
    BY <1>0, <1>4, <2>1 DEF HostPublish, TypeOK
  <2>3. txWritten + host.count <= txRead + Capacity
    BY <1>0, <1>4 DEF HostPublish, TxInv, RxInv
  <2>4. TxInv' /\ RxInv'
    BY <1>0, <1>4, <2>1, <2>3 DEF HostPublish, TxInv, RxInv
  <2> QED
    BY <2>2, <2>4
<1>5. CASE HostSkip
  <2>1. host' \in Progress(HostSteps) /\ host'.pc = "skipped" /\ host'.count = rxWritten
    BY <1>0, <1>5 DEF HostSkip, TypeOK, Progress, HostSteps, Idle, At
  <2>2. TypeOK'
    BY <1>0, <1>5, <2>1 DEF HostSkip, TypeOK
  <2>3. TxInv' /\ RxInv'
    BY <1>0, <1>5, <2>1 DEF HostSkip, TypeOK, TxInv, RxInv, Least, Most
  <2> QED
    BY <2>2, <2>3
<1>6. CASE HostSkipped
  <2>1. host' \in Progress(HostSteps) /\ host'.pc = "look"
    BY <1>0, <1>6 DEF HostSkipped, Progress, HostSteps, Idle, At
  <2>2. TypeOK'
    BY <1>0, <1>6, <2>1 DEF HostSkipped, TypeOK
  <2>3. rxRead <= host.count /\ host.count <= rxWritten
    BY <1>0, <1>6 DEF HostSkipped, TxInv, RxInv
  <2>4. TxInv' /\ RxInv'
    <3>1. TxInv'
      BY <1>0, <1>6, <2>1, <2>3 DEF HostSkipped, TxInv, RxInv
    <3>2. RxInv'
      <4>1. /\ rxRead' \in Nat /\ rxRead <= rxRead' /\ rxRead' <= rxWritten
            /\ rxWritten' = rxWritten /\ worker' = worker /\ rxWritten' \in Nat
            /\ worker.count \in Nat /\ worker'.count \in Nat
        BY <1>0, <1>6, <2>3 DEF HostSkipped
      <4>2. rxRead' <= rxWritten' /\ rxWritten' <= rxRead' + Capacity
        BY <1>0, <4>1, RoomGrows DEF RxInv
      <4>3. worker'.pc \in {"write", "store"} => rxWritten' + worker'.count <= rxRead' + Capacity
        BY <1>0, <4>1 DEF RxInv
      <4> QED
        BY <2>1, <4>2, <4>3 DEF RxInv
    <3> QED
      BY <3>1, <3>2
  <2> QED
    BY <2>2, <2>4
<1>7. CASE HostLook
  <2> DEFINE n == Least(host.frames, rxWritten - rxRead)
  <2>1. n \in Nat /\ rxRead + n <= rxWritten
    BY <1>0 DEF TypeOK, RxInv, Least
  <2>2. host' = [host EXCEPT !.pc = "copy", !.count = n]
    BY <1>7 DEF HostLook
  <2> HIDE DEF n
  <2>3. host' \in Progress(HostSteps) /\ host'.pc = "copy" /\ host'.count = n
    BY <1>0, <2>1, <2>2 DEF Progress, HostSteps
  <2>4. TypeOK'
    BY <1>7, <2>3 DEF HostLook, TypeOK
  <2>5. TxInv' /\ RxInv'
    BY <1>7, <2>1, <2>3 DEF HostLook, TxInv, RxInv
  <2> QED
    BY <2>4, <2>5
<1>8. CASE HostCopy
  <2> DEFINE b == Copied(rxSamples, rxRead, host.count)
  <2>1. b \in Seq(Nat)
    BY <1>0, CopiedIsBlock DEF TypeOK
  <2>2. host' = [host EXCEPT !.pc = "took", !.block = b]
    BY <1>8 DEF HostCopy
  <2> HIDE DEF b
  <2>3. host' \in Progress(HostSteps) /\ host'.pc = "took" /\ host'.count = host.count
    BY <1>0, <2>1, <2>2 DEF Progress, HostSteps
  <2>4. TypeOK'
    BY <1>8, <2>3 DEF HostCopy, TypeOK
  <2>5. TxInv' /\ RxInv'
    BY <1>8, <2>3 DEF HostCopy, TxInv, RxInv
  <2> QED
    BY <2>4, <2>5
<1>9. CASE HostTook
  <2>1. host' \in Progress(HostSteps) /\ host'.pc = "ask" /\ rxRead + host.count \in Nat
    BY <1>0, <1>9 DEF HostTook, TypeOK, Progress, HostSteps, Idle, At
  <2>2. TypeOK'
    BY <1>0, <1>9, <2>1 DEF HostTook, TypeOK
  <2>3. rxRead + host.count <= rxWritten
    BY <1>0, <1>9 DEF HostTook, TxInv, RxInv
  <2>4. TxInv' /\ RxInv'
    <3>1. TxInv'
      BY <1>0, <1>9, <2>1, <2>3 DEF HostTook, TxInv, RxInv
    <3>2. RxInv'
      <4>1. /\ rxRead' \in Nat /\ rxRead <= rxRead' /\ rxRead' <= rxWritten
            /\ rxWritten' = rxWritten /\ worker' = worker /\ rxWritten' \in Nat
            /\ worker.count \in Nat /\ worker'.count \in Nat
        BY <1>0, <1>9, <2>3 DEF HostTook
      <4>2. rxRead' <= rxWritten' /\ rxWritten' <= rxRead' + Capacity
        BY <1>0, <4>1, RoomGrows DEF RxInv
      <4>3. worker'.pc \in {"write", "store"} => rxWritten' + worker'.count <= rxRead' + Capacity
        BY <1>0, <4>1 DEF RxInv
      <4> QED
        BY <2>1, <4>2, <4>3 DEF RxInv
    <3> QED
      BY <3>1, <3>2
  <2> QED
    BY <2>2, <2>4
<1>10. CASE HostAsk
  <2>1. host' \in Progress(HostSteps) /\ host'.pc = "idle"
    BY <1>0, <1>10 DEF HostAsk, Progress, HostSteps, Idle, At
  <2>a. Reserve(host.frames) \in 0..Capacity
    BY <1>0, ReserveIsNat
  <2> Reserve(host.frames) \in Nat /\ rxRead + Reserve(host.frames) \in Nat
    BY <1>0, <2>a
  <2>2. TypeOK'
    BY <1>0, <1>10, <2>1 DEF HostAsk, TypeOK
  <2>3. TxInv' /\ RxInv'
    BY <1>0, <1>10, <2>1 DEF HostAsk, TypeOK, TxInv, RxInv, Least, Most
  <2> QED
    BY <2>2, <2>3
<1> QED
  BY <1>1, <1>2, <1>3, <1>4, <1>5, <1>6, <1>7, <1>8, <1>9, <1>10 DEF Host

LEMMA WorkerCursors == CursorInv /\ Worker => CursorInv'
<1> SUFFICES ASSUME CursorInv, Worker PROVE CursorInv'
  OBVIOUS
<1> USE DEF CursorInv, WorkerAt, tx, rx
<1>0. /\ worker \in Progress(WorkerSteps)
      /\ worker.frames \in Nat /\ worker.count \in Nat /\ worker.block \in Seq(Nat)
      /\ <<>> \in Seq(Nat) /\ host.count \in Nat
      /\ txWritten \in Nat /\ txRead \in Nat /\ rxWritten \in Nat /\ rxRead \in Nat
  BY DEF TypeOK, Progress
<1>1. CASE WorkerLook
  <2> DEFINE n == Least(Chunk, txWritten - txRead)
  <2>1. n \in Nat /\ txRead + n <= txWritten
    BY <1>0 DEF TypeOK, TxInv, RxInv, Least, Most
  <2>2. worker' = At("copy", 0, n)
    BY <1>1 DEF WorkerLook
  <2> HIDE DEF n
  <2>3. worker' \in Progress(WorkerSteps) /\ worker'.pc = "copy" /\ worker'.count = n
    BY <1>0, <2>1, <2>2 DEF Progress, WorkerSteps, At, Idle
  <2>4. TypeOK'
    BY <1>1, <2>3 DEF WorkerLook, TypeOK
  <2>5. TxInv' /\ RxInv'
    BY <1>1, <2>1, <2>3 DEF WorkerLook, TxInv, RxInv
  <2> QED
    BY <2>4, <2>5
<1>2. CASE WorkerCopy
  <2> DEFINE b == Copied(txSamples, txRead, worker.count)
  <2>1. b \in Seq(Nat)
    BY <1>0, CopiedIsBlock DEF TypeOK
  <2>2. worker' = [worker EXCEPT !.pc = "took", !.block = b]
    BY <1>2 DEF WorkerCopy
  <2> HIDE DEF b
  <2>3. worker' \in Progress(WorkerSteps) /\ worker'.pc = "took" /\ worker'.count = worker.count
    BY <1>0, <2>1, <2>2 DEF Progress, WorkerSteps
  <2>4. TypeOK'
    BY <1>2, <2>3 DEF WorkerCopy, TypeOK
  <2>5. TxInv' /\ RxInv'
    BY <1>2, <2>3 DEF WorkerCopy, TxInv, RxInv
  <2> QED
    BY <2>4, <2>5
<1>3. CASE WorkerTook
  <2>1. worker' \in Progress(WorkerSteps) /\ worker'.pc = "encode" /\ txRead + worker.count \in Nat
    BY <1>0, <1>3 DEF WorkerTook, TypeOK, Progress, WorkerSteps, Idle, At
  <2>2. TypeOK'
    BY <1>0, <1>3, <2>1 DEF WorkerTook, TypeOK
  <2>3. txRead + worker.count <= txWritten
    BY <1>0, <1>3 DEF WorkerTook, TxInv, RxInv
  <2>4. TxInv' /\ RxInv'
    <3>1. TxInv'
      BY <1>0, <1>3, <2>1, <2>3 DEF WorkerTook, TxInv, RxInv
    <3>2. RxInv'
      BY <1>0, <1>3, <2>1, <2>3 DEF WorkerTook, TxInv, RxInv
    <3> QED
      BY <3>1, <3>2
  <2> QED
    BY <2>2, <2>4
<1>4. CASE WorkerDemand
  <2>1. worker' \in Progress(WorkerSteps) /\ worker'.pc = "space"
    BY <1>0, <1>4 DEF WorkerDemand, TypeOK, Progress, WorkerSteps, Idle, At
  <2>2. TypeOK'
    BY <1>0, <1>4, <2>1 DEF WorkerDemand, TypeOK
  <2>3. TxInv' /\ RxInv'
    BY <1>0, <1>4, <2>1 DEF WorkerDemand, TypeOK, TxInv, RxInv, Least, Most
  <2> QED
    BY <2>2, <2>3
<1>5. CASE WorkerSpace
  <2> DEFINE n == Least(Least(Chunk, Most(0, worker.frames - rxWritten)),
                      Capacity - (rxWritten - rxRead))
  <2>1. n \in Nat
    <3>1. Most(0, worker.frames - rxWritten) \in Nat
      BY <1>0 DEF Most
    <3>2. Least(Chunk, Most(0, worker.frames - rxWritten)) \in Nat
      BY <3>1 DEF Least
    <3>3. Capacity - (rxWritten - rxRead) \in Nat
      BY <1>0 DEF RxInv
    <3> QED
      BY <3>2, <3>3 DEF Least
  <2>2. worker' = IF n = 0 THEN Idle ELSE At("decode", 0, n)
    BY <1>5 DEF WorkerSpace
  <2> HIDE DEF n
  <2>3. worker' \in Progress(WorkerSteps) /\ worker'.pc \in {"idle", "decode"}
    BY <1>0, <2>1, <2>2 DEF Progress, WorkerSteps, At, Idle
  <2>4. TypeOK'
    BY <1>5, <2>3 DEF WorkerSpace, TypeOK
  <2>5. TxInv' /\ RxInv'
    BY <1>5, <2>1, <2>3 DEF WorkerSpace, TxInv, RxInv
  <2> QED
    BY <2>4, <2>5
<1>6. CASE WorkerSupply
  <2> DEFINE n == Least(worker.count, Capacity - (rxWritten - rxRead))
  <2>1. n \in Nat /\ rxWritten + n <= rxRead + Capacity
    BY <1>0 DEF TypeOK, TxInv, RxInv, Least, Most
  <2>2. worker' = [worker EXCEPT !.pc = "write", !.count = n]
    BY <1>6 DEF WorkerSupply
  <2> HIDE DEF n
  <2>3. worker' \in Progress(WorkerSteps) /\ worker'.pc = "write" /\ worker'.count = n
    BY <1>0, <2>1, <2>2 DEF Progress, WorkerSteps
  <2>4. TypeOK'
    BY <1>6, <2>3 DEF WorkerSupply, TypeOK
  <2>5. TxInv' /\ RxInv'
    BY <1>6, <2>1, <2>3 DEF WorkerSupply, TxInv, RxInv
  <2> QED
    BY <2>4, <2>5
<1>7. CASE WorkerWrite
  <2>1. worker' \in Progress(WorkerSteps) /\ worker'.pc = "store" /\ worker'.count = worker.count
    BY <1>0, <1>7 DEF WorkerWrite, Progress, WorkerSteps, Idle, At
  <2>2. rxSamples' \in [Slots -> Nat]
    BY <1>0, <1>7, FilledIsStorage DEF WorkerWrite, TypeOK
  <2>3. TypeOK'
    BY <1>0, <1>7, <2>1, <2>2 DEF WorkerWrite, TypeOK
  <2>4. TxInv' /\ RxInv'
    BY <1>0, <1>7, <2>1, <2>2 DEF WorkerWrite, TypeOK, TxInv, RxInv, Least, Most
  <2> QED
    BY <2>3, <2>4
<1>8. CASE WorkerStore
  <2>1. worker' \in Progress(WorkerSteps) /\ worker'.pc = "idle" /\ rxWritten + worker.count \in Nat
    BY <1>0, <1>8 DEF WorkerStore, TypeOK, Progress, WorkerSteps, Idle, At
  <2>2. TypeOK'
    BY <1>0, <1>8, <2>1 DEF WorkerStore, TypeOK
  <2>3. rxWritten + worker.count <= rxRead + Capacity
    BY <1>0, <1>8 DEF WorkerStore, TxInv, RxInv
  <2>4. TxInv' /\ RxInv'
    BY <1>0, <1>8, <2>1, <2>3 DEF WorkerStore, TxInv, RxInv
  <2> QED
    BY <2>2, <2>4
<1>9. CASE Reset
  <2>1. worker' \in Progress(WorkerSteps) /\ worker'.pc = "resetTx" /\ worker'.count = txWritten
    BY <1>0, <1>9 DEF Reset, TypeOK, Progress, WorkerSteps, Idle, At
  <2>2. TypeOK'
    BY <1>0, <1>9, <2>1 DEF Reset, TypeOK
  <2>3. TxInv' /\ RxInv'
    BY <1>0, <1>9, <2>1 DEF Reset, TypeOK, TxInv, RxInv, Least, Most
  <2> QED
    BY <2>2, <2>3
<1>10. CASE ResetTx
  <2>1. worker' \in Progress(WorkerSteps) /\ worker'.pc = "resetDemand"
    BY <1>0, <1>10 DEF ResetTx, Progress, WorkerSteps, Idle, At
  <2>2. TypeOK'
    BY <1>0, <1>10, <2>1 DEF ResetTx, TypeOK
  <2>3. txRead <= worker.count /\ worker.count <= txWritten
    BY <1>0, <1>10 DEF ResetTx, TxInv, RxInv
  <2>4. TxInv' /\ RxInv'
    BY <1>0, <1>10, <2>1, <2>3 DEF ResetTx, TxInv, RxInv
  <2> QED
    BY <2>2, <2>4
<1>11. CASE ResetDemand
  <2>1. worker' \in Progress(WorkerSteps) /\ worker'.pc = "resetFlag"
    BY <1>0, <1>11 DEF ResetDemand, Progress, WorkerSteps, Idle, At
  <2>2. TypeOK'
    BY <1>0, <1>11, <2>1 DEF ResetDemand, TypeOK
  <2>3. TxInv' /\ RxInv'
    BY <1>0, <1>11, <2>1 DEF ResetDemand, TypeOK, TxInv, RxInv, Least, Most
  <2> QED
    BY <2>2, <2>3
<1>12. CASE ResetFlag
  <2>1. worker' \in Progress(WorkerSteps) /\ worker'.pc = "idle"
    BY <1>0, <1>12 DEF ResetFlag, Progress, WorkerSteps, Idle, At
  <2>2. TypeOK'
    BY <1>0, <1>12, <2>1 DEF ResetFlag, TypeOK
  <2>3. TxInv' /\ RxInv'
    BY <1>0, <1>12, <2>1 DEF ResetFlag, TypeOK, TxInv, RxInv, Least, Most
  <2> QED
    BY <2>2, <2>3
<1> QED
  BY <1>1, <1>2, <1>3, <1>4, <1>5, <1>6, <1>7, <1>8, <1>9, <1>10, <1>11, <1>12 DEF Worker

LEMMA StepCursors == CursorInv /\ [Next]_vars => CursorInv'
<1>1. CursorInv /\ UNCHANGED vars => CursorInv'
  BY DEF vars, tx, rx, CursorInv, TypeOK, TxInv, RxInv
<1> QED
  BY <1>1, HostCursors, WorkerCursors DEF Next

\* In every reachable state the variables have their types, for every capacity
\* and block size; in particular no count of frames is ever negative.
THEOREM TypesHold == Spec => []TypeOK
<1> CursorInv => TypeOK
  BY DEF CursorInv
<1> QED
  BY InitCursors, StepCursors, PTL DEF Spec

\* No difference of two cursors underflows or exceeds the storage, whatever
\* the two threads and a reset do between two accesses.
THEOREM CursorsStayOrdered == Spec => []CursorsOrdered
<1>1. CursorInv => CursorsOrdered
  BY DEF CursorInv, TypeOK, TxInv, RxInv, CursorsOrdered
<1> QED
  BY <1>1, InitCursors, StepCursors, PTL DEF Spec

\* Regions of a queue less than its capacity long have no slot in common.
LEMMA RegionsDiffer ==
  ASSUME NEW r \in Nat, NEW n \in Nat, NEW w \in Nat, NEW m \in Nat,
         r + n <= w, w + m <= r + Capacity
  PROVE  Region(w, m) \cap Region(r, n) = {}
<1> SUFFICES ASSUME NEW p \in r..(r + n - 1), NEW q \in w..(w + m - 1), Slot(q) = Slot(p)
             PROVE  FALSE
  BY DEF Region
<1> p \in Nat /\ q \in Nat /\ p < q /\ q < p + Capacity
  OBVIOUS
<1> QED
  BY SlotsDiffer

\* No slot is written while the other thread reads it: the code comment "Never
\* rewrite live producer cursors or sample storage", for every capacity.
THEOREM AccessIsExclusive == Spec => []Exclusive
<1>1. ASSUME CursorInv PROVE Exclusive
  <2>1. /\ host.count \in Nat /\ worker.count \in Nat
        /\ txWritten \in Nat /\ txRead \in Nat /\ rxWritten \in Nat /\ rxRead \in Nat
    BY <1>1 DEF CursorInv, TypeOK, Progress
  <2>2. ASSUME host.pc \in {"fill", "offer"}, worker.pc \in {"copy", "took"}
        PROVE  Region(txWritten, host.count) \cap Region(txRead, worker.count) = {}
    <3>1. txRead + worker.count <= txWritten /\ txWritten + host.count <= txRead + Capacity
      BY <1>1, <2>2 DEF CursorInv, TxInv
    <3> QED
      BY <2>1, <3>1, RegionsDiffer
  <2>3. ASSUME worker.pc \in {"write", "store"}, host.pc \in {"copy", "took"}
        PROVE  Region(rxWritten, worker.count) \cap Region(rxRead, host.count) = {}
    <3>1. rxRead + host.count <= rxWritten /\ rxWritten + worker.count <= rxRead + Capacity
      BY <1>1, <2>3 DEF CursorInv, RxInv
    <3> QED
      BY <2>1, <3>1, RegionsDiffer
  <2> QED
    BY <2>2, <2>3 DEF Exclusive
<1> QED
  BY <1>1, InitCursors, StepCursors, PTL DEF Spec
-----------------------------------------------------------------------------
(* Reset *)

\* What a reset marked is written, and is skipped before anything is played.
OldInv ==
  /\ CursorInv
  /\ mark <= rxWritten
  /\ ~discardRx /\ host.pc = "skipped" => mark <= host.count
  /\ ~discardRx /\ host.pc \notin {"skip", "skipped"} => mark <= rxRead

LEMMA Transitive == \A a, b, c \in Nat : a <= b /\ b <= c => a <= c
  OBVIOUS

LEMMA OldStep ==
  ASSUME OldInv, [Next]_vars
  PROVE  OldInv'
<1> DEFINE Same == discardRx' = discardRx /\ host'.pc = host.pc /\ host'.count = host.count
<1>0. /\ mark \in Nat /\ rxRead \in Nat /\ rxWritten \in Nat
      /\ host.count \in Nat /\ worker.count \in Nat
  BY DEF OldInv, CursorInv, TypeOK, Progress
<1>1. CursorInv'
  BY StepCursors DEF OldInv
<1>2. /\ mark' \in Nat /\ rxRead' \in Nat /\ rxWritten' \in Nat /\ host'.count \in Nat
  BY <1>1 DEF CursorInv, TypeOK, Progress
<1> USE DEF HostAt, WorkerAt, tx, rx
<1>3. CASE UNCHANGED vars
  BY <1>1, <1>3 DEF vars, OldInv
<1>4. ASSUME NEW f \in Blocks, HostOffer(f) PROVE OldInv'
  <2>1. host.pc = "idle" /\ host'.pc = "fill" /\ UNCHANGED <<mark, rxWritten, rxRead, discardRx>>
    BY <1>4 DEF HostOffer, At
  <2> QED
    BY <1>1, <2>1 DEF OldInv
<1>5. ASSUME NEW f \in Blocks, HostExchange(f) PROVE OldInv'
  <2>1. host.pc = "idle" /\ UNCHANGED <<mark, rxWritten, rxRead>>
    BY <1>5 DEF HostExchange
  <2>2. CASE discardRx
    <3>1. host'.pc = "skip"
      BY <1>5, <2>2 DEF HostExchange, At
    <3> QED
      BY <1>1, <2>1, <3>1 DEF OldInv
  <2>3. CASE ~discardRx
    <3>1. host'.pc = "look"
      BY <1>5, <2>3 DEF HostExchange, At
    <3> QED
      BY <1>1, <2>1, <2>3, <3>1 DEF OldInv
  <2> QED
    BY <2>2, <2>3
<1>6. CASE HostSkip
  <2>1. host'.pc = "skipped" /\ host'.count = rxWritten /\ UNCHANGED <<mark, rxWritten, rxRead>>
    BY <1>6 DEF HostSkip, OldInv, CursorInv, TypeOK, Progress
  <2> QED
    BY <1>1, <2>1 DEF OldInv
<1>7. CASE HostSkipped
  <2>1. /\ host.pc = "skipped" /\ host'.pc = "look" /\ rxRead' = host.count
        /\ UNCHANGED <<mark, rxWritten, discardRx>>
    BY <1>7 DEF HostSkipped, OldInv, CursorInv, TypeOK, Progress
  <2> QED
    BY <1>1, <2>1 DEF OldInv
<1>8. CASE HostTook
  <2>1. /\ host.pc = "took" /\ host'.pc = "ask" /\ rxRead' = rxRead + host.count
        /\ UNCHANGED <<mark, rxWritten, discardRx>>
    BY <1>8 DEF HostTook, At
  <2>2. rxRead <= rxRead'
    BY <1>0, <2>1
  <2>3. ~discardRx => mark <= rxRead'
    BY <1>0, <1>2, <2>1, <2>2, Transitive DEF OldInv
  <2> QED
    BY <1>1, <2>1, <2>3 DEF OldInv
<1>9. CASE HostFill \/ HostPublish \/ HostLook \/ HostCopy \/ HostAsk
  <2>1. host'.pc \notin {"skip", "skipped"}
    <3>1. CASE HostPublish \/ HostAsk
      BY <3>1 DEF HostPublish, HostAsk, Idle, At
    <3>2. CASE HostFill
      BY <3>2 DEF HostFill, OldInv, CursorInv, TypeOK, Progress
    <3>3. CASE HostLook
      BY <3>3 DEF HostLook, OldInv, CursorInv, TypeOK, Progress
    <3>4. CASE HostCopy
      BY <3>4 DEF HostCopy, OldInv, CursorInv, TypeOK, Progress
    <3> QED
      BY <1>9, <3>1, <3>2, <3>3, <3>4
  <2>2. host.pc \notin {"skip", "skipped"} /\ UNCHANGED <<mark, rxWritten, rxRead, discardRx>>
    BY <1>9 DEF HostFill, HostPublish, HostLook, HostCopy, HostAsk
  <2> QED
    BY <1>1, <2>1, <2>2 DEF OldInv
<1>10. CASE WorkerStore
  <2>1. /\ rxWritten' = rxWritten + worker.count /\ host' = host
        /\ UNCHANGED <<mark, rxRead, discardRx>>
    BY <1>10 DEF WorkerStore
  <2>2. rxWritten <= rxWritten'
    BY <1>0, <2>1
  <2>3. mark <= rxWritten'
    BY <1>0, <1>2, <2>2, Transitive DEF OldInv
  <2> QED
    BY <1>1, <2>1, <2>3 DEF OldInv
<1>11. CASE ResetFlag
  <2>1. discardRx' /\ mark' = rxWritten /\ rxWritten' = rxWritten
    BY <1>11 DEF ResetFlag
  <2> QED
    BY <1>1, <1>2, <2>1 DEF OldInv
<1>12. CASE \/ WorkerLook \/ WorkerCopy \/ WorkerTook \/ WorkerDemand \/ WorkerSpace
            \/ WorkerSupply \/ WorkerWrite \/ Reset \/ ResetTx \/ ResetDemand
  <2>1. UNCHANGED <<mark, rxWritten, rxRead, discardRx, host>>
    BY <1>12 DEF WorkerLook, WorkerCopy, WorkerTook, WorkerDemand, WorkerSpace, WorkerSupply,
                 WorkerWrite, Reset, ResetTx, ResetDemand
  <2> QED
    BY <1>1, <2>1 DEF OldInv
<1> QED
  BY <1>3, <1>4, <1>5, <1>6, <1>7, <1>8, <1>9, <1>10, <1>11, <1>12 DEF Next, Host, Worker

\* Frames supplied before a reset are not played by a transfer that starts
\* after it, wherever the host was when the reset ran.
THEOREM OldAudioIsSkipped == Spec => []OldAudioSkipped
<1>1. Init => OldInv
  BY InitCursors DEF Init, OldInv, Idle, At
<1>2. OldInv => OldAudioSkipped
  BY DEF OldInv, OldAudioSkipped
<1> QED
  BY <1>1, <1>2, OldStep, PTL DEF Spec
-----------------------------------------------------------------------------
(* The reserve *)

\* r is enough for every call of the host.
Enough(r) == \A f \in Blocks : Reserve(f) <= r

\* The frames the worker has supplied, is supplying or has been asked for are
\* at most r ahead of what the host has read.
Within(r) ==
  /\ rxWritten <= rxRead + r
  /\ wanted <= rxRead + r
  /\ worker.pc = "space" => worker.frames <= rxRead + r
  /\ worker.pc \in {"decode", "write", "store"} => rxWritten + worker.count <= rxRead + r

\* The host asks for what it was called with.
AsksForBlock ==
  host.pc \in {"skip", "skipped", "look", "copy", "took", "ask"} => host.frames \in Blocks

ReserveInv == AsksForBlock /\ \A r \in 0..Capacity : Enough(r) => Within(r)

LEMMA AskStep ==
  ASSUME CursorInv, AsksForBlock, [Next]_vars
  PROVE  AsksForBlock'
<1> USE DEF HostAt, AsksForBlock
<1>0. host.pc \in HostSteps /\ host = [pc |-> host.pc, frames |-> host.frames,
                                        count |-> host.count, block |-> host.block]
  BY DEF CursorInv, TypeOK, Progress
<1>1. ASSUME host' = host PROVE AsksForBlock'
  BY <1>1
<1>2. ASSUME NEW f \in Blocks, HostOffer(f) PROVE AsksForBlock'
  BY <1>2 DEF HostOffer, At
<1>3. ASSUME NEW f \in Blocks, HostExchange(f) PROVE AsksForBlock'
  BY <1>3 DEF HostExchange, At
<1>4. CASE HostFill \/ HostPublish \/ HostAsk
  <2>1. host'.pc \in {"offer", "idle"}
    BY <1>0, <1>4 DEF HostFill, HostPublish, HostAsk, Idle, At
  <2> QED
    BY <2>1
<1>5. CASE HostSkip \/ HostSkipped \/ HostLook \/ HostCopy \/ HostTook
  <2>1. host'.frames = host.frames /\ host.pc \in {"skip", "skipped", "look", "copy", "took"}
    <3>1. CASE HostSkip
      BY <1>0, <3>1 DEF HostSkip
    <3>2. CASE HostSkipped
      BY <1>0, <3>2 DEF HostSkipped
    <3>3. CASE HostLook
      BY <1>0, <3>3 DEF HostLook
    <3>4. CASE HostCopy
      BY <1>0, <3>4 DEF HostCopy
    <3>5. CASE HostTook
      BY <1>0, <3>5 DEF HostTook, At
    <3> QED
      BY <1>5, <3>1, <3>2, <3>3, <3>4, <3>5
  <2> QED
    BY <2>1
<1>6. Worker \/ UNCHANGED vars => host' = host
  BY DEF Worker, WorkerLook, WorkerCopy, WorkerTook, WorkerDemand, WorkerSpace, WorkerSupply,
         WorkerWrite, WorkerStore, Reset, ResetTx, ResetDemand, ResetFlag, vars
<1> QED
  BY <1>1, <1>2, <1>3, <1>4, <1>5, <1>6 DEF Next, Host

LEMMA Ahead == \A w, a, b, r \in Nat : a <= b /\ w <= a + r => w <= b + r
  OBVIOUS

LEMMA WithinStep ==
  ASSUME CursorInv, AsksForBlock, NEW r \in 0..Capacity, Enough(r), Within(r), [Next]_vars
  PROVE  Within(r)'
<1>0. /\ r \in Nat
      /\ wanted \in Nat /\ rxRead \in Nat /\ rxWritten \in Nat
      /\ host.count \in Nat /\ host.frames \in Nat /\ worker.count \in Nat /\ worker.frames \in Nat
      /\ worker.pc \in WorkerSteps /\ rxWritten + worker.count \in Nat
  BY DEF CursorInv, TypeOK, Progress
<1>1. /\ rxRead' \in Nat /\ rxWritten' \in Nat /\ wanted' \in Nat
      /\ worker'.count \in Nat /\ worker'.frames \in Nat
  <2> CursorInv'
    BY StepCursors
  <2> QED
    BY DEF CursorInv, TypeOK, Progress
<1> USE DEF HostAt, WorkerAt, tx, rx
<1>2. ASSUME UNCHANGED <<rxWritten, rxRead, wanted, worker>> PROVE Within(r)'
  BY <1>2 DEF Within
<1>3. ASSUME rxRead <= rxRead', UNCHANGED <<rxWritten, wanted, worker>> PROVE Within(r)'
  BY <1>0, <1>1, <1>3, Ahead DEF Within
<1>4. ASSUME NEW f \in Blocks, HostOffer(f) \/ HostExchange(f) PROVE Within(r)'
  BY <1>2, <1>4 DEF HostOffer, HostExchange
<1>5. CASE HostFill \/ HostPublish \/ HostSkip \/ HostLook \/ HostCopy
  BY <1>2, <1>5 DEF HostFill, HostPublish, HostSkip, HostLook, HostCopy
<1>6. CASE HostSkipped
  <2>1. rxRead <= host.count /\ rxRead' = host.count /\ UNCHANGED <<rxWritten, wanted, worker>>
    BY <1>6 DEF HostSkipped, CursorInv, RxInv
  <2> QED
    BY <1>3, <2>1
<1>7. CASE HostTook
  <2>1. rxRead' = rxRead + host.count /\ UNCHANGED <<rxWritten, wanted, worker>>
    BY <1>7 DEF HostTook
  <2>2. rxRead <= rxRead'
    BY <1>0, <2>1
  <2> QED
    BY <1>3, <2>1, <2>2
<1>8. CASE HostAsk
  <2>1. wanted' = rxRead + Reserve(host.frames) /\ UNCHANGED <<rxWritten, rxRead, worker>>
    BY <1>8 DEF HostAsk
  <2>2. Reserve(host.frames) <= r
    BY <1>8 DEF HostAsk, AsksForBlock, Enough
  <2>3. Reserve(host.frames) \in 0..Capacity
    BY <1>0, ReserveIsNat
  <2>4. wanted' <= rxRead + r
    BY <1>0, <2>1, <2>2, <2>3
  <2> QED
    BY <1>0, <2>1, <2>4 DEF Within
<1>9. CASE \/ WorkerLook \/ WorkerCopy \/ WorkerTook \/ Reset \/ ResetTx \/ ResetFlag
  <2>1. worker'.pc \notin {"space", "decode", "write", "store"}
    <3>1. CASE WorkerCopy
      BY <3>1 DEF WorkerCopy, CursorInv, TypeOK, Progress
    <3>2. CASE WorkerLook \/ WorkerTook \/ Reset \/ ResetTx \/ ResetFlag
      BY <3>2 DEF WorkerLook, WorkerTook, Reset, ResetTx, ResetFlag, Idle, At
    <3> QED
      BY <1>9, <3>1, <3>2
  <2>2. UNCHANGED <<rxWritten, rxRead, wanted>>
    BY <1>9 DEF WorkerLook, WorkerCopy, WorkerTook, Reset, ResetTx, ResetFlag
  <2> QED
    BY <2>1, <2>2 DEF Within
<1>10. CASE WorkerDemand
  <2>1. worker'.pc = "space" /\ worker'.frames = wanted
    BY <1>10 DEF WorkerDemand, CursorInv, TypeOK, Progress
  <2>2. UNCHANGED <<rxWritten, rxRead, wanted>>
    BY <1>10 DEF WorkerDemand
  <2> QED
    BY <2>1, <2>2 DEF Within
<1>11. CASE WorkerSpace
  <2> DEFINE missing == Most(0, worker.frames - rxWritten)
             n == Least(Least(Chunk, missing), Capacity - (rxWritten - rxRead))
  <2>1. missing \in Nat /\ (missing > 0 => rxWritten + missing = worker.frames)
    BY <1>0 DEF Most
  <2>2. rxWritten - rxRead \in 0..Capacity
    BY <1>0 DEF CursorInv, RxInv
  <2>3. worker.frames <= rxRead + r
    BY <1>11 DEF WorkerSpace, Within
  <2> HIDE DEF missing
  <2>4. n \in Nat /\ n <= missing
    BY <2>1, <2>2 DEF Least
  <2>5. worker' = IF n = 0 THEN Idle ELSE At("decode", 0, n)
    BY <1>11 DEF WorkerSpace, missing
  <2>6. UNCHANGED <<rxWritten, rxRead, wanted>>
    BY <1>11 DEF WorkerSpace
  <2> HIDE DEF n
  <2>7. n > 0 => rxWritten + n <= rxRead + r
    BY <1>0, <2>1, <2>3, <2>4
  <2>8. CASE n = 0
    <3>1. worker'.pc = "idle"
      BY <2>5, <2>8 DEF Idle, At
    <3> QED
      BY <2>6, <3>1 DEF Within
  <2>9. CASE n # 0
    <3>1. worker'.pc = "decode" /\ worker'.count = n
      BY <2>5, <2>9 DEF At
    <3> QED
      BY <2>4, <2>6, <2>7, <2>9, <3>1 DEF Within
  <2> QED
    BY <2>8, <2>9
<1>12. CASE WorkerSupply
  <2> DEFINE n == Least(worker.count, Capacity - (rxWritten - rxRead))
  <2>1. n \in Nat /\ n <= worker.count
    BY <1>0 DEF CursorInv, RxInv, Least
  <2>2. worker' = [worker EXCEPT !.pc = "write", !.count = n] /\ worker.pc = "decode"
    BY <1>12 DEF WorkerSupply
  <2>3. UNCHANGED <<rxWritten, rxRead, wanted>>
    BY <1>12 DEF WorkerSupply
  <2> HIDE DEF n
  <2>4. rxWritten + n <= rxRead + r
    BY <1>0, <2>1, <2>2 DEF Within
  <2>5. worker'.pc = "write" /\ worker'.count = n
    BY <2>2 DEF CursorInv, TypeOK, Progress
  <2> QED
    BY <2>3, <2>4, <2>5 DEF Within
<1>13. CASE WorkerWrite
  <2>1. worker'.pc = "store" /\ worker'.count = worker.count /\ worker.pc = "write"
    BY <1>13 DEF WorkerWrite, CursorInv, TypeOK, Progress
  <2>2. UNCHANGED <<rxWritten, rxRead, wanted>>
    BY <1>13 DEF WorkerWrite
  <2> QED
    BY <2>1, <2>2 DEF Within
<1>14. CASE WorkerStore
  <2>1. worker'.pc = "idle"
    BY <1>14 DEF WorkerStore, Idle, At
  <2>2. /\ rxWritten' = rxWritten + worker.count /\ worker.pc = "store"
        /\ UNCHANGED <<rxRead, wanted>>
    BY <1>14 DEF WorkerStore
  <2> QED
    BY <2>1, <2>2 DEF Within
<1>15. CASE ResetDemand
  <2>1. worker'.pc = "resetFlag"
    BY <1>15 DEF ResetDemand, At
  <2>2. wanted' = rxWritten /\ UNCHANGED <<rxRead, rxWritten>>
    BY <1>15 DEF ResetDemand
  <2> QED
    BY <2>1, <2>2 DEF Within
<1>16. CASE UNCHANGED vars
  BY <1>2, <1>16 DEF vars
<1> QED
  BY <1>4, <1>5, <1>6, <1>7, <1>8, <1>9, <1>10, <1>11, <1>12, <1>13, <1>14, <1>15, <1>16
     DEF Next, Host, Worker

\* The worker is never further ahead of the host than the reserve of the
\* largest block, for every block size, reserve and capacity.
THEOREM ReserveHolds == Spec => []ReserveBounded
<1>1. Init => CursorInv /\ ReserveInv
  <2> SUFFICES ASSUME Init PROVE ReserveInv
    BY InitCursors
  <2>1. /\ host.pc = "idle" /\ worker.pc = "idle" /\ rxWritten = 0 /\ rxRead = 0 /\ wanted = 0
    BY DEF Init, Idle, At
  <2> QED
    BY <2>1 DEF ReserveInv, AsksForBlock, Within
<1>2. ASSUME CursorInv, ReserveInv, [Next]_vars PROVE (CursorInv /\ ReserveInv)'
  <2>1. \A r \in 0..Capacity : Enough(r) => Within(r)'
    BY <1>2, WithinStep DEF ReserveInv
  <2>2. AsksForBlock'
    BY <1>2, AskStep DEF ReserveInv
  <2>3. \A r \in 0..Capacity : Enough(r)' => Enough(r)
    BY DEF Enough
  <2> QED
    BY <1>2, <2>1, <2>2, <2>3, StepCursors DEF ReserveInv
<1>3. ASSUME CursorInv, ReserveInv PROVE ReserveBounded
  <2> SUFFICES ASSUME NEW r \in 0..Capacity, \A f \in Blocks : Reserve(f) <= r
               PROVE  rxWritten - rxRead <= r
    BY DEF ReserveBounded
  <2>1. rxWritten <= rxRead + r
    BY <1>3 DEF ReserveInv, Enough, Within
  <2> QED
    BY <1>3, <2>1 DEF CursorInv, TypeOK
<1> QED
  BY <1>1, <1>2, <1>3, PTL DEF Spec
-----------------------------------------------------------------------------
(* Blocks of consecutive frames *)

\* The n frames after frame r.
Run(r, n) == [i \in 1..n |-> r + i]

\* The slots of positions from "from" up to "to" hold their frames.
Holds(samples, from, to) == \A p \in from..(to - 1) : samples[Slot(p)] = p + 1

LEMMA RunIsSeq == ASSUME NEW r \in Nat, NEW n \in Nat PROVE Run(r, n) \in Seq(Nat) /\ Len(Run(r, n)) = n
  BY DEF Run

LEMMA RunGrows ==
  ASSUME NEW r \in Nat, NEW w \in Nat, NEW m \in Nat, r <= w
  PROVE  Run(r, (w + m) - r) = Run(r, w - r) \o Run(w, m)
<1> DEFINE n == w - r
<1>1. n \in Nat /\ w = r + n /\ (w + m) - r = n + m
  OBVIOUS
<1> HIDE DEF n
<1>2. Run(r, n + m) = Run(r, n) \o Run(r + n, m)
  BY <1>1 DEF Run
<1> QED
  BY <1>1, <1>2 DEF n

LEMMA RunSplits ==
  ASSUME NEW r \in Nat, NEW n \in Nat, NEW k \in 0..n
  PROVE  /\ SubSeq(Run(r, n), 1, k) = Run(r, k)
         /\ SubSeq(Run(r, n), k + 1, n) = Run(r + k, n - k)
<1>1. SubSeq(Run(r, n), 1, k) = Run(r, k)
  BY DEF Run
<1>2. SubSeq(Run(r, n), k + 1, n) = Run(r + k, n - k)
  BY DEF Run
<1> QED
  BY <1>1, <1>2

\* What a thread copies is the block its positions promise.
LEMMA CopyIsRun ==
  ASSUME NEW samples, NEW r \in Nat, NEW w \in Nat, NEW n \in Nat, r + n <= w, Holds(samples, r, w)
  PROVE  Copied(samples, r, n) = Run(r, n)
<1>1. ASSUME NEW i \in 1..n PROVE samples[Slot(r + i - 1)] = r + i
  <2>1. r + i - 1 \in r..(w - 1) /\ (r + i - 1) + 1 = r + i
    OBVIOUS
  <2> QED
    BY <2>1 DEF Holds
<1> QED
  BY <1>1, Zenon DEF Copied, Run

\* Filling the region after w extends what the storage holds.
LEMMA FillHolds ==
  ASSUME NEW samples, NEW r \in Nat, NEW w \in Nat, NEW n \in Nat, r <= w, w + n <= r + Capacity,
         Holds(samples, r, w)
  PROVE  Holds(Filled(samples, w, n), r, w) /\ Holds(Filled(samples, w, n), r, w + n)
<1>1. ASSUME NEW p \in r..(w - 1) PROVE Filled(samples, w, n)[Slot(p)] = p + 1
  <2>1. p \in Nat /\ p < w /\ w + n <= p + Capacity
    OBVIOUS
  <2>2. Filled(samples, w, n)[Slot(p)] = samples[Slot(p)]
    BY <2>1, FilledElsewhere
  <2> QED
    BY <2>2 DEF Holds
<1>2. ASSUME NEW p \in w..(w + n - 1) PROVE Filled(samples, w, n)[Slot(p)] = p + 1
  <2>1. n \in 0..Capacity
    OBVIOUS
  <2> QED
    BY <2>1, FilledRegion
<1>3. \A p \in r..(w + n - 1) : p \in r..(w - 1) \/ p \in w..(w + n - 1)
  OBVIOUS
<1> QED
  BY <1>1, <1>2, <1>3 DEF Holds

LEMMA HoldsLess ==
  ASSUME NEW samples, NEW r \in Nat, NEW s \in Nat, NEW w \in Nat, r <= s, Holds(samples, r, w)
  PROVE  Holds(samples, s, w)
<1>1. \A p \in s..(w - 1) : p \in r..(w - 1)
  OBVIOUS
<1> QED
  BY <1>1 DEF Holds
-----------------------------------------------------------------------------
(* The transmit queue *)

\* The queued frames, and those filled but not published, are in their slots;
\* the worker has copied the oldest ones.
TxData ==
  /\ Holds(txSamples, txRead, txWritten)
  /\ host.pc = "offer" => Holds(txSamples, txRead, txWritten + host.count)
  /\ worker.pc = "took" => worker.block = Run(txRead, worker.count)

TxFrame == UNCHANGED <<txWritten, txRead, txSamples>>

LEMMA TxDataStep ==
  ASSUME CursorInv, TxData, [Next]_vars
  PROVE  TxData'
<1>0. /\ txRead \in Nat /\ txWritten \in Nat /\ host.count \in Nat /\ worker.count \in Nat
      /\ txRead <= txWritten /\ txWritten + host.count \in Nat
  BY DEF CursorInv, TypeOK, TxInv, Progress
<1> USE DEF HostAt, WorkerAt, tx, rx
<1>1. ASSUME TxFrame, host' = host \/ host'.pc # "offer", worker' = worker \/ worker'.pc # "took"
      PROVE  TxData'
  BY <1>1 DEF TxFrame, TxData
<1>2. CASE UNCHANGED vars
  BY <1>1, <1>2 DEF vars, TxFrame
<1>3. ASSUME NEW f \in Blocks, HostOffer(f) PROVE TxData'
  <2>1. host'.pc = "fill" /\ TxFrame /\ worker' = worker
    BY <1>3 DEF HostOffer, At, TxFrame
  <2> QED
    BY <1>1, <2>1
<1>4. ASSUME NEW f \in Blocks, HostExchange(f) PROVE TxData'
  <2>1. host'.pc # "offer" /\ TxFrame /\ worker' = worker
    BY <1>4 DEF HostExchange, At, TxFrame
  <2> QED
    BY <1>1, <2>1
<1>5. CASE HostFill
  <2>1. /\ txSamples' = Filled(txSamples, txWritten, host.count) /\ worker' = worker
        /\ txWritten' = txWritten /\ txRead' = txRead
        /\ host'.count = host.count /\ host.pc = "fill"
    BY <1>5 DEF HostFill, CursorInv, TypeOK, Progress
  <2>2. txWritten + host.count <= txRead + Capacity
    BY <2>1 DEF CursorInv, TxInv
  <2>3. Holds(txSamples', txRead, txWritten) /\ Holds(txSamples', txRead, txWritten + host.count)
    BY <1>0, <2>1, <2>2, FillHolds DEF TxData
  <2> QED
    BY <2>1, <2>3 DEF TxData
<1>6. CASE HostPublish
  <2>1. /\ txWritten' = txWritten + host.count /\ host.pc = "offer" /\ host'.pc = "idle"
        /\ UNCHANGED <<txRead, txSamples, worker>>
    BY <1>6 DEF HostPublish, Idle, At
  <2> QED
    BY <2>1 DEF TxData
<1>7. CASE HostSkip \/ HostSkipped \/ HostLook \/ HostCopy \/ HostTook \/ HostAsk
  <2>1. host'.pc # "offer"
    <3>1. CASE HostSkip \/ HostSkipped
      BY <3>1 DEF HostSkip, HostSkipped, CursorInv, TypeOK, Progress
    <3>2. CASE HostLook
      BY <3>2 DEF HostLook, CursorInv, TypeOK, Progress
    <3>3. CASE HostCopy
      BY <3>3 DEF HostCopy, CursorInv, TypeOK, Progress
    <3>4. CASE HostTook \/ HostAsk
      BY <3>4 DEF HostTook, HostAsk, Idle, At
    <3> QED
      BY <1>7, <3>1, <3>2, <3>3, <3>4
  <2>2. TxFrame /\ worker' = worker
    BY <1>7 DEF HostSkip, HostSkipped, HostLook, HostCopy, HostTook, HostAsk, TxFrame
  <2> QED
    BY <1>1, <2>1, <2>2
<1>8. CASE WorkerCopy
  <2>1. /\ worker'.block = Copied(txSamples, txRead, worker.count)
        /\ worker'.count = worker.count /\ worker.pc = "copy"
        /\ host' = host /\ TxFrame
    BY <1>8 DEF WorkerCopy, TxFrame, CursorInv, TypeOK, Progress
  <2>2. Copied(txSamples, txRead, worker.count) = Run(txRead, worker.count)
    BY <1>0, <2>1, CopyIsRun DEF CursorInv, TxInv, TxData
  <2> QED
    BY <2>1, <2>2 DEF TxData, TxFrame
<1>9. ASSUME txRead' \in Nat, txRead <= txRead', UNCHANGED <<txWritten, txSamples, host>>,
             worker'.pc # "took"
      PROVE  TxData'
  <2>1. Holds(txSamples, txRead', txWritten)
    BY <1>0, <1>9, HoldsLess DEF TxData
  <2>2. host.pc = "offer" => Holds(txSamples, txRead', txWritten + host.count)
    BY <1>0, <1>9, HoldsLess DEF TxData
  <2> QED
    BY <1>9, <2>1, <2>2 DEF TxData
<1>10. CASE WorkerTook
  <2>1. txRead' = txRead + worker.count /\ UNCHANGED <<txWritten, txSamples, host>>
    BY <1>10 DEF WorkerTook
  <2>2. worker'.pc = "encode"
    BY <1>10 DEF WorkerTook, At
  <2>3. txRead' \in Nat /\ txRead <= txRead'
    BY <1>0, <2>1
  <2> QED
    BY <1>9, <2>1, <2>2, <2>3
<1>11. CASE ResetTx
  <2>1. /\ txRead' = worker.count /\ UNCHANGED <<txWritten, txSamples, host>>
        /\ txRead <= worker.count
    BY <1>11 DEF ResetTx, CursorInv, TxInv
  <2>2. worker'.pc = "resetDemand"
    BY <1>11 DEF ResetTx, At
  <2> QED
    BY <1>0, <1>9, <2>1, <2>2
<1>12. CASE \/ WorkerLook \/ WorkerDemand \/ WorkerSpace \/ WorkerSupply \/ WorkerWrite
            \/ WorkerStore \/ Reset \/ ResetDemand \/ ResetFlag
  <2>1. TxFrame /\ host' = host
    BY <1>12 DEF WorkerLook, WorkerDemand, WorkerSpace, WorkerSupply, WorkerWrite, WorkerStore,
                 Reset, ResetDemand, ResetFlag, TxFrame
  <2>2. worker'.pc # "took"
    <3>1. CASE WorkerSpace
      BY <3>1 DEF WorkerSpace, Idle, At
    <3>2. CASE WorkerSupply \/ WorkerWrite \/ WorkerDemand
      BY <3>2 DEF WorkerSupply, WorkerWrite, WorkerDemand, CursorInv, TypeOK, Progress
    <3>3. CASE WorkerLook \/ WorkerStore \/ Reset \/ ResetDemand \/ ResetFlag
      BY <3>3 DEF WorkerLook, WorkerStore, Reset, ResetDemand, ResetFlag, Idle, At
    <3> QED
      BY <1>12, <3>1, <3>2, <3>3
  <2> QED
    BY <1>1, <2>1, <2>2
<1> QED
  BY <1>2, <1>3, <1>4, <1>5, <1>6, <1>7, <1>8, <1>10, <1>11, <1>12 DEF Next, Host, Worker

txQueue == Copied(txSamples, txRead, txWritten - txRead)

LEMMA QueueIsRun ==
  ASSUME NEW samples, NEW r \in Nat, NEW w \in Nat, r <= w, Holds(samples, r, w)
  PROVE  Copied(samples, r, w - r) = Run(r, w - r)
  BY CopyIsRun

LEMMA TxInit == Init => TxData /\ TxFifo!Init
<1> SUFFICES ASSUME Init PROVE TxData /\ TxFifo!Init
  OBVIOUS
<1>1. TxData
  BY DEF Init, TxData, Holds, Idle, At
<1>2. Copied(txSamples, txRead, txWritten - txRead) = <<>>
  BY DEF Init, Copied
<1> QED
  BY <1>1, <1>2 DEF Init, TxFifo!Init

\* Every step of the bridge is a step of the transmit queue or leaves it alone.
LEMMA TxStep ==
  ASSUME CursorInv, TxData, [Next]_vars
  PROVE  [TxFifo!Next]_(TxFifo!vars)
<1>0. /\ txRead \in Nat /\ txWritten \in Nat /\ host.count \in Nat /\ worker.count \in Nat
      /\ txRead <= txWritten /\ txWritten <= txRead + Capacity
      /\ txWritten - txRead \in Nat
  BY DEF CursorInv, TypeOK, TxInv, Progress
<1>1. /\ CursorInv' /\ TxData'
      /\ txRead' \in Nat /\ txWritten' \in Nat /\ txRead' <= txWritten'
  <2>1. CursorInv' /\ TxData'
    BY StepCursors, TxDataStep
  <2> QED
    BY <2>1 DEF CursorInv, TypeOK, TxInv
<1>2. Run(txRead, (txWritten + host.count) - txRead)
      = Run(txRead, txWritten - txRead) \o Run(txWritten, host.count)
  <2>1. txRead \in Nat
    BY <1>0
  <2>2. txWritten \in Nat
    BY <1>0
  <2>3. host.count \in Nat
    BY <1>0
  <2>4. txRead <= txWritten
    BY <1>0
  <2> QED
    BY <2>1, <2>2, <2>3, <2>4, RunGrows
<1>3. txQueue = Run(txRead, txWritten - txRead)
  BY <1>0, QueueIsRun DEF TxData, txQueue
<1>4. txQueue' = Run(txRead', txWritten' - txRead')
  BY <1>1, QueueIsRun DEF TxData, txQueue
<1>5. Len(txQueue) = txWritten - txRead
  BY <1>0, <1>3, RunIsSeq
<1>6. ASSUME UNCHANGED <<txWritten, txRead, taken>> PROVE UNCHANGED TxFifo!vars
  <2>1. txQueue' = txQueue
    BY <1>3, <1>4, <1>6
  <2> QED
    BY <1>6, <2>1 DEF TxFifo!vars, txQueue
<1> USE DEF HostAt, WorkerAt, tx, rx
<1>7. CASE HostPublish
  <2> DEFINE n == host.count
  <2>1. /\ txWritten' = txWritten + n /\ txRead' = txRead /\ taken' = taken
        /\ txWritten + n <= txRead + Capacity
    BY <1>7 DEF HostPublish, CursorInv, TxInv
  <2>2. n \in 0..(Capacity - Len(txQueue))
    BY <1>0, <1>5, <2>1
  <2>4. txQueue' = txQueue \o Run(txWritten, n)
    <3> QED
      BY <1>3, <1>4, <1>2, <2>1, Zenon
  <2> HIDE DEF n
  <2>5. TxFifo!Put
    BY <2>1, <2>2, <2>4 DEF TxFifo!Put, txQueue, Run
  <2> QED
    BY <2>5 DEF TxFifo!Next
<1>8. ASSUME NEW n \in 0..(txWritten - txRead), txRead' = txRead + n, txWritten' = txWritten
      PROVE  /\ TxFifo!Remove(n) /\ n \in 0..Len(txQueue)
             /\ Run(txRead, n) = SubSeq(txQueue, 1, n)
  <2>1. txWritten' - txRead' = (txWritten - txRead) - n
    BY <1>0, <1>8
  <2>2. /\ SubSeq(txQueue, 1, n) = Run(txRead, n)
        /\ SubSeq(txQueue, n + 1, Len(txQueue)) = txQueue'
    <3>1. /\ SubSeq(Run(txRead, txWritten - txRead), 1, n) = Run(txRead, n)
          /\ SubSeq(Run(txRead, txWritten - txRead), n + 1, txWritten - txRead)
             = Run(txRead + n, (txWritten - txRead) - n)
      BY <1>0, RunSplits
    <3> QED
      BY <1>3, <1>4, <1>5, <1>8, <2>1, <3>1, Zenon
  <2> QED
    BY <1>5, <1>8, <2>2 DEF TxFifo!Remove, txQueue
<1>9. CASE WorkerTook
  <2> DEFINE n == worker.count
  <2>1. /\ txRead' = txRead + n /\ txWritten' = txWritten /\ taken' = Run(txRead, n)
        /\ txRead + n <= txWritten
    BY <1>9 DEF WorkerTook, CursorInv, TxInv, TxData
  <2>2. n \in 0..(txWritten - txRead)
    BY <1>0, <2>1
  <2> HIDE DEF n
  <2>3. TxFifo!Take
    BY <1>8, <2>1, <2>2 DEF TxFifo!Take, txQueue
  <2> QED
    BY <2>3 DEF TxFifo!Next
<1>10. CASE ResetTx
  <2> DEFINE n == worker.count - txRead
  <2>1. /\ txRead' = worker.count /\ txWritten' = txWritten /\ taken' = taken
        /\ txRead <= worker.count /\ worker.count <= txWritten
    BY <1>10 DEF ResetTx, CursorInv, TxInv
  <2>2. n \in 0..(txWritten - txRead) /\ txRead' = txRead + n
    BY <1>0, <2>1
  <2> HIDE DEF n
  <2>3. TxFifo!Drop
    BY <1>8, <2>1, <2>2 DEF TxFifo!Drop, txQueue
  <2> QED
    BY <2>3 DEF TxFifo!Next
<1>11. ASSUME ~HostPublish, ~WorkerTook, ~ResetTx PROVE UNCHANGED <<txWritten, txRead, taken>>
  BY <1>11 DEF Next, Host, Worker, HostOffer, HostFill, HostExchange, HostSkip, HostSkipped,
       HostLook, HostCopy, HostTook, HostAsk, WorkerLook, WorkerCopy, WorkerDemand, WorkerSpace,
       WorkerSupply, WorkerWrite, WorkerStore, Reset, ResetDemand, ResetFlag, vars
<1> QED
  BY <1>6, <1>7, <1>9, <1>10, <1>11

\* What the host publishes reaches the worker in order, each frame at most
\* once, and only the oldest frames are lost: the transmit side of
\* RealtimeAudioBridge implements LossyFifo for every capacity.
THEOREM TxImplementsFifo == Spec => TxIsFifo
<1>1. Init => CursorInv /\ TxData /\ TxFifo!Init
  BY InitCursors, TxInit
<1>2. CursorInv /\ TxData /\ [Next]_vars => CursorInv' /\ TxData' /\ [TxFifo!Next]_(TxFifo!vars)
  BY StepCursors, TxDataStep, TxStep
<1> QED
  BY <1>1, <1>2, PTL DEF Spec, TxIsFifo, TxFifo!Spec
-----------------------------------------------------------------------------
(* The receive queue *)

\* The queued frames, and those the worker filled but did not yet publish, are
\* in their slots; the host has copied the oldest ones.
RxData ==
  /\ Holds(rxSamples, rxRead, rxWritten)
  /\ worker.pc = "store" => Holds(rxSamples, rxRead, rxWritten + worker.count)
  /\ host.pc = "took" => host.block = Run(rxRead, host.count)

RxFrame == UNCHANGED <<rxWritten, rxRead, rxSamples>>

LEMMA RxDataStep ==
  ASSUME CursorInv, RxData, [Next]_vars
  PROVE  RxData'
<1>0. /\ rxRead \in Nat /\ rxWritten \in Nat /\ host.count \in Nat /\ worker.count \in Nat
      /\ rxRead <= rxWritten /\ rxWritten + worker.count \in Nat
  BY DEF CursorInv, TypeOK, RxInv, Progress
<1> USE DEF HostAt, WorkerAt, tx, rx
<1>1. ASSUME RxFrame, host' = host \/ host'.pc # "took", worker' = worker \/ worker'.pc # "store"
      PROVE  RxData'
  BY <1>1 DEF RxFrame, RxData
<1>2. CASE UNCHANGED vars
  BY <1>1, <1>2 DEF vars, RxFrame
<1>3. ASSUME NEW f \in Blocks, HostOffer(f) \/ HostExchange(f) PROVE RxData'
  <2>1. host'.pc # "took" /\ RxFrame /\ worker' = worker
    BY <1>3 DEF HostOffer, HostExchange, At, RxFrame
  <2> QED
    BY <1>1, <2>1
<1>4. CASE WorkerWrite
  <2>1. /\ rxSamples' = Filled(rxSamples, rxWritten, worker.count) /\ host' = host
        /\ rxWritten' = rxWritten /\ rxRead' = rxRead
        /\ worker'.count = worker.count /\ worker.pc = "write"
    BY <1>4 DEF WorkerWrite, CursorInv, TypeOK, Progress
  <2>2. rxWritten + worker.count <= rxRead + Capacity
    BY <2>1 DEF CursorInv, RxInv
  <2>3. Holds(rxSamples', rxRead, rxWritten) /\ Holds(rxSamples', rxRead, rxWritten + worker.count)
    BY <1>0, <2>1, <2>2, FillHolds DEF RxData
  <2> QED
    BY <2>1, <2>3 DEF RxData
<1>5. CASE WorkerStore
  <2>1. /\ rxWritten' = rxWritten + worker.count /\ worker.pc = "store" /\ worker'.pc = "idle"
        /\ UNCHANGED <<rxRead, rxSamples, host>>
    BY <1>5 DEF WorkerStore, Idle, At
  <2> QED
    BY <2>1 DEF RxData
<1>6. CASE HostCopy
  <2>1. /\ host'.block = Copied(rxSamples, rxRead, host.count)
        /\ host'.count = host.count /\ host.pc = "copy"
        /\ worker' = worker /\ RxFrame
    BY <1>6 DEF HostCopy, RxFrame, CursorInv, TypeOK, Progress
  <2>2. Copied(rxSamples, rxRead, host.count) = Run(rxRead, host.count)
    BY <1>0, <2>1, CopyIsRun DEF CursorInv, RxInv, RxData
  <2> QED
    BY <2>1, <2>2 DEF RxData, RxFrame
<1>7. ASSUME rxRead' \in Nat, rxRead <= rxRead', UNCHANGED <<rxWritten, rxSamples, worker>>,
             host'.pc # "took"
      PROVE  RxData'
  <2>1. Holds(rxSamples, rxRead', rxWritten)
    BY <1>0, <1>7, HoldsLess DEF RxData
  <2>2. worker.pc = "store" => Holds(rxSamples, rxRead', rxWritten + worker.count)
    BY <1>0, <1>7, HoldsLess DEF RxData
  <2> QED
    BY <1>7, <2>1, <2>2 DEF RxData
<1>8. CASE HostTook
  <2>1. rxRead' = rxRead + host.count /\ UNCHANGED <<rxWritten, rxSamples, worker>>
    BY <1>8 DEF HostTook
  <2>2. host'.pc = "ask"
    BY <1>8 DEF HostTook, At
  <2>3. rxRead' \in Nat /\ rxRead <= rxRead'
    BY <1>0, <2>1
  <2> QED
    BY <1>7, <2>1, <2>2, <2>3
<1>9. CASE HostSkipped
  <2>1. /\ rxRead' = host.count /\ UNCHANGED <<rxWritten, rxSamples, worker>>
        /\ rxRead <= host.count
    BY <1>9 DEF HostSkipped, CursorInv, RxInv
  <2>2. host'.pc = "look"
    BY <1>9 DEF HostSkipped, CursorInv, TypeOK, Progress
  <2> QED
    BY <1>0, <1>7, <2>1, <2>2
<1>10. CASE HostFill \/ HostPublish \/ HostSkip \/ HostLook \/ HostAsk
  <2>1. host'.pc # "took"
    <3>1. CASE HostPublish \/ HostAsk
      BY <3>1 DEF HostPublish, HostAsk, Idle, At
    <3>2. CASE HostFill \/ HostSkip
      BY <3>2 DEF HostFill, HostSkip, CursorInv, TypeOK, Progress
    <3>3. CASE HostLook
      BY <3>3 DEF HostLook, CursorInv, TypeOK, Progress
    <3> QED
      BY <1>10, <3>1, <3>2, <3>3
  <2>2. RxFrame /\ worker' = worker
    BY <1>10 DEF HostFill, HostPublish, HostSkip, HostLook, HostAsk, RxFrame
  <2> QED
    BY <1>1, <2>1, <2>2
<1>11. CASE \/ WorkerLook \/ WorkerCopy \/ WorkerTook \/ WorkerDemand \/ WorkerSpace
            \/ WorkerSupply \/ Reset \/ ResetTx \/ ResetDemand \/ ResetFlag
  <2>1. RxFrame /\ host' = host
    BY <1>11 DEF WorkerLook, WorkerCopy, WorkerTook, WorkerDemand, WorkerSpace, WorkerSupply,
                 Reset, ResetTx, ResetDemand, ResetFlag, RxFrame
  <2>2. worker'.pc # "store"
    <3>1. CASE WorkerSpace
      BY <3>1 DEF WorkerSpace, Idle, At
    <3>2. CASE WorkerSupply \/ WorkerCopy \/ WorkerDemand
      BY <3>2 DEF WorkerSupply, WorkerCopy, WorkerDemand, CursorInv, TypeOK, Progress
    <3>3. CASE WorkerLook \/ WorkerTook \/ Reset \/ ResetTx \/ ResetDemand \/ ResetFlag
      BY <3>3 DEF WorkerLook, WorkerTook, Reset, ResetTx, ResetDemand, ResetFlag, Idle, At
    <3> QED
      BY <1>11, <3>1, <3>2, <3>3
  <2> QED
    BY <1>1, <2>1, <2>2
<1> QED
  BY <1>2, <1>3, <1>4, <1>5, <1>6, <1>8, <1>9, <1>10, <1>11 DEF Next, Host, Worker

rxQueue == Copied(rxSamples, rxRead, rxWritten - rxRead)

LEMMA RxInit == Init => RxData /\ RxFifo!Init
<1> SUFFICES ASSUME Init PROVE RxData /\ RxFifo!Init
  OBVIOUS
<1>1. RxData
  BY DEF Init, RxData, Holds, Idle, At
<1>2. Copied(rxSamples, rxRead, rxWritten - rxRead) = <<>>
  BY DEF Init, Copied
<1> QED
  BY <1>1, <1>2 DEF Init, RxFifo!Init

\* Every step of the bridge is a step of the receive queue or leaves it alone.
LEMMA RxStep ==
  ASSUME CursorInv, RxData, [Next]_vars
  PROVE  [RxFifo!Next]_(RxFifo!vars)
<1>0. /\ rxRead \in Nat /\ rxWritten \in Nat /\ host.count \in Nat /\ worker.count \in Nat
      /\ rxRead <= rxWritten /\ rxWritten <= rxRead + Capacity
      /\ rxWritten - rxRead \in Nat
  BY DEF CursorInv, TypeOK, RxInv, Progress
<1>1. /\ CursorInv' /\ RxData'
      /\ rxRead' \in Nat /\ rxWritten' \in Nat /\ rxRead' <= rxWritten'
  <2>1. CursorInv' /\ RxData'
    BY StepCursors, RxDataStep
  <2> QED
    BY <2>1 DEF CursorInv, TypeOK, RxInv
<1>2. Run(rxRead, (rxWritten + worker.count) - rxRead)
      = Run(rxRead, rxWritten - rxRead) \o Run(rxWritten, worker.count)
  <2>1. rxRead \in Nat
    BY <1>0
  <2>2. rxWritten \in Nat
    BY <1>0
  <2>3. worker.count \in Nat
    BY <1>0
  <2>4. rxRead <= rxWritten
    BY <1>0
  <2> QED
    BY <2>1, <2>2, <2>3, <2>4, RunGrows
<1>3. rxQueue = Run(rxRead, rxWritten - rxRead)
  BY <1>0, QueueIsRun DEF RxData, rxQueue
<1>4. rxQueue' = Run(rxRead', rxWritten' - rxRead')
  BY <1>1, QueueIsRun DEF RxData, rxQueue
<1>5. Len(rxQueue) = rxWritten - rxRead
  BY <1>0, <1>3, RunIsSeq
<1>6. ASSUME UNCHANGED <<rxWritten, rxRead, played>> PROVE UNCHANGED RxFifo!vars
  <2>1. rxQueue' = rxQueue
    BY <1>3, <1>4, <1>6
  <2> QED
    BY <1>6, <2>1 DEF RxFifo!vars, rxQueue
<1> USE DEF HostAt, WorkerAt, tx, rx
<1>7. CASE WorkerStore
  <2> DEFINE n == worker.count
  <2>1. /\ rxWritten' = rxWritten + n /\ rxRead' = rxRead /\ played' = played
        /\ rxWritten + n <= rxRead + Capacity
    BY <1>7 DEF WorkerStore, CursorInv, RxInv
  <2>2. n \in 0..(Capacity - Len(rxQueue))
    BY <1>0, <1>5, <2>1
  <2>3. rxQueue' = rxQueue \o Run(rxWritten, n)
    BY <1>2, <1>3, <1>4, <2>1, Zenon
  <2> HIDE DEF n
  <2>4. RxFifo!Put
    BY <2>1, <2>2, <2>3 DEF RxFifo!Put, rxQueue, Run
  <2> QED
    BY <2>4 DEF RxFifo!Next
<1>8. ASSUME NEW n \in 0..(rxWritten - rxRead), rxRead' = rxRead + n, rxWritten' = rxWritten
      PROVE  /\ RxFifo!Remove(n) /\ n \in 0..Len(rxQueue)
             /\ Run(rxRead, n) = SubSeq(rxQueue, 1, n)
  <2>1. rxWritten' - rxRead' = (rxWritten - rxRead) - n
    BY <1>0, <1>8
  <2>2. /\ SubSeq(rxQueue, 1, n) = Run(rxRead, n)
        /\ SubSeq(rxQueue, n + 1, Len(rxQueue)) = rxQueue'
    <3>1. /\ SubSeq(Run(rxRead, rxWritten - rxRead), 1, n) = Run(rxRead, n)
          /\ SubSeq(Run(rxRead, rxWritten - rxRead), n + 1, rxWritten - rxRead)
             = Run(rxRead + n, (rxWritten - rxRead) - n)
      BY <1>0, RunSplits
    <3> QED
      BY <1>3, <1>4, <1>5, <1>8, <2>1, <3>1, Zenon
  <2> QED
    BY <1>5, <1>8, <2>2 DEF RxFifo!Remove, rxQueue
<1>9. CASE HostTook
  <2> DEFINE n == host.count
  <2>1. /\ rxRead' = rxRead + n /\ rxWritten' = rxWritten /\ played' = Run(rxRead, n)
        /\ rxRead + n <= rxWritten
    BY <1>9 DEF HostTook, CursorInv, RxInv, RxData
  <2>2. n \in 0..(rxWritten - rxRead)
    BY <1>0, <2>1
  <2> HIDE DEF n
  <2>3. RxFifo!Take
    BY <1>8, <2>1, <2>2 DEF RxFifo!Take, rxQueue
  <2> QED
    BY <2>3 DEF RxFifo!Next
<1>10. CASE HostSkipped
  <2> DEFINE n == host.count - rxRead
  <2>1. /\ rxRead' = host.count /\ rxWritten' = rxWritten /\ played' = played
        /\ rxRead <= host.count /\ host.count <= rxWritten
    BY <1>10 DEF HostSkipped, CursorInv, RxInv
  <2>2. n \in 0..(rxWritten - rxRead) /\ rxRead' = rxRead + n
    BY <1>0, <2>1
  <2> HIDE DEF n
  <2>3. RxFifo!Drop
    BY <1>8, <2>1, <2>2 DEF RxFifo!Drop, rxQueue
  <2> QED
    BY <2>3 DEF RxFifo!Next
<1>11. ASSUME ~WorkerStore, ~HostTook, ~HostSkipped PROVE UNCHANGED <<rxWritten, rxRead, played>>
  BY <1>11 DEF Next, Host, Worker, HostOffer, HostFill, HostPublish, HostExchange, HostSkip,
       HostLook, HostCopy, HostAsk, WorkerLook, WorkerCopy, WorkerTook, WorkerDemand, WorkerSpace,
       WorkerSupply, WorkerWrite, Reset, ResetTx, ResetDemand, ResetFlag, vars
<1> QED
  BY <1>6, <1>7, <1>9, <1>10, <1>11

\* What the worker supplies reaches the host's output in order, each frame at
\* most once, and a reset or a skip loses only the oldest frames: the receive
\* side of RealtimeAudioBridge implements LossyFifo for every capacity.
THEOREM RxImplementsFifo == Spec => RxIsFifo
<1>1. Init => CursorInv /\ RxData /\ RxFifo!Init
  BY InitCursors, RxInit
<1>2. CursorInv /\ RxData /\ [Next]_vars => CursorInv' /\ RxData' /\ [RxFifo!Next]_(RxFifo!vars)
  BY StepCursors, RxDataStep, RxStep
<1> QED
  BY <1>1, <1>2, PTL DEF Spec, RxIsFifo, RxFifo!Spec
=============================================================================
