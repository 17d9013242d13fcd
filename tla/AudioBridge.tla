----------------------------- MODULE AudioBridge -----------------------------
(***************************************************************************)
(* RealtimeAudioBridge: two single-producer single-consumer queues between *)
(* the host's audio callback and the audio worker, which share no lock.    *)
(* The host writes tx and reads rx; the worker reads tx, writes rx and     *)
(* resets both.  Each access to an atomic is an action; the copying of     *)
(* samples between two of them is one too, and the invariant Exclusive     *)
(* says that nobody sees it half done.                                     *)
(*                                                                         *)
(* A frame is the number of its place in the stream of accepted frames.    *)
(* Sequential consistency is assumed; every cursor is written with release *)
(* and read with acquire, except by the thread that writes it.             *)
(***************************************************************************)
EXTENDS Integers, Sequences

CONSTANTS
  Capacity,    \* capacity
  Chunk,       \* chunk
  MinReserve,  \* minimumReserve_
  Blocks,      \* frames per call of the host
  MaxCalls,    \* bound: calls of transfer
  MaxResets    \* bound: calls of reset

ASSUME SizeAssumption == Capacity \in Nat \ {0} /\ Chunk \in Nat \ {0} /\ MinReserve \in Nat
ASSUME BlockAssumption == Blocks \subseteq Nat
ASSUME BoundAssumption == MaxCalls \in Nat /\ MaxResets \in Nat

VARIABLES
  publish,    \* the direction the host uses; changing it resets both queues
  txWritten, txRead, txSamples,
  rxWritten, rxRead, rxSamples,
  wanted,     \* wanted_
  discardRx,  \* discardRx_
  host,       \* transfer in progress: next step, frames asked for and counted, frames copied
  worker,     \* takeInput, takeDemand, supplyOutput or reset in progress
  taken,      \* the block takeInput returned last
  played,     \* the frames transfer put out last
  mark,       \* rxWritten at the end of the last reset
  calls, resets

tx == <<txWritten, txRead, txSamples>>
rx == <<rxWritten, rxRead, rxSamples>>
vars == <<publish, tx, rx, wanted, discardRx, host, worker, taken, played, mark, calls, resets>>

Least(a, b) == IF a < b THEN a ELSE b
Most(a, b) == IF a < b THEN b ELSE a
Slots == 0..(Capacity - 1)
Slot(p) == p % Capacity
Region(from, n) == {Slot(p) : p \in from..(from + n - 1)}

\* The frames of a queue from position "from" on; position p holds frame p + 1.
Copied(samples, from, n) == [i \in 1..n |-> samples[Slot(from + i - 1)]]
Filled(samples, from, n) ==
  [s \in Slots |-> IF \E p \in from..(from + n - 1) : s = Slot(p)
                               THEN (CHOOSE p \in from..(from + n - 1) : s = Slot(p)) + 1
                               ELSE samples[s]]

Reserve(frames) == Least(Capacity, Most(MinReserve, 4 * Least(frames, Capacity \div 4)))

At(pc, frames, count) == [pc |-> pc, frames |-> frames, count |-> count, block |-> <<>>]
Idle == At("idle", 0, 0)
HostSteps == {"idle", "fill", "offer", "skip", "skipped", "look", "copy", "took", "ask"}
WorkerSteps == {"idle", "copy", "took", "encode", "demand", "space", "decode", "write", "store",
                "resetTx", "resetDemand", "resetFlag"}
Progress(steps) == [pc : steps, frames : Nat, count : Nat, block : Seq(Nat)]

TypeOK ==
  /\ publish \in BOOLEAN /\ discardRx \in BOOLEAN
  /\ txWritten \in Nat /\ txRead \in Nat /\ rxWritten \in Nat /\ rxRead \in Nat
  /\ wanted \in Nat /\ mark \in Nat
  /\ txSamples \in [Slots -> Nat] /\ rxSamples \in [Slots -> Nat]
  /\ host \in Progress(HostSteps) /\ worker \in Progress(WorkerSteps)
  /\ taken \in Seq(Nat) /\ played \in Seq(Nat)
  /\ calls \in 0..MaxCalls /\ resets \in 0..MaxResets

Init ==
  /\ publish \in BOOLEAN /\ discardRx = FALSE
  /\ txWritten = 0 /\ txRead = 0 /\ txSamples = [s \in Slots |-> 0]
  /\ rxWritten = 0 /\ rxRead = 0 /\ rxSamples = [s \in Slots |-> 0]
  /\ wanted = 0 /\ mark = 0 /\ host = Idle /\ worker = Idle
  /\ taken = <<>> /\ played = <<>> /\ calls = 0 /\ resets = 0

HostAt(pc) == host.pc = pc
WorkerAt(pc) == worker.pc = pc
-----------------------------------------------------------------------------
(* transfer, publishing *)

\* Mutant: one frame too many.
HostOfferBeyond(f) ==
  /\ publish /\ HostAt("idle") /\ calls < MaxCalls /\ calls' = calls + 1
  /\ host' = At("fill", f, Least(f, Capacity + 1 - (txWritten - txRead)))
  /\ UNCHANGED <<publish, tx, rx, wanted, discardRx, worker, taken, played, mark, resets>>

HostOffer(f) ==
  /\ publish /\ HostAt("idle") /\ calls < MaxCalls /\ calls' = calls + 1
  /\ host' = At("fill", f, Least(f, Capacity - (txWritten - txRead)))
  /\ UNCHANGED <<publish, tx, rx, wanted, discardRx, worker, taken, played, mark, resets>>

HostFill ==
  /\ HostAt("fill") /\ host' = [host EXCEPT !.pc = "offer"]
  /\ txSamples' = Filled(txSamples, txWritten, host.count)
  /\ UNCHANGED <<publish, txWritten, txRead, rx, wanted, discardRx, worker, taken, played, mark,
                 calls, resets>>

\* Mutant: the frames asked for are published, not those that fitted.
HostPublishAll ==
  /\ HostAt("offer") /\ host' = Idle
  /\ txWritten' = txWritten + host.frames
  /\ UNCHANGED <<publish, txRead, txSamples, rx, wanted, discardRx, worker, taken, played, mark,
                 calls, resets>>

HostPublish ==
  /\ HostAt("offer") /\ host' = Idle
  /\ txWritten' = txWritten + host.count
  /\ UNCHANGED <<publish, txRead, txSamples, rx, wanted, discardRx, worker, taken, played, mark,
                 calls, resets>>
-----------------------------------------------------------------------------
(* transfer, playing *)

\* discardRx_.exchange
HostExchange(f) ==
  /\ ~publish /\ HostAt("idle") /\ calls < MaxCalls /\ calls' = calls + 1
  /\ host' = At(IF discardRx THEN "skip" ELSE "look", f, 0)
  /\ discardRx' = FALSE
  /\ UNCHANGED <<publish, tx, rx, wanted, worker, taken, played, mark, resets>>

\* What is queued is skipped: the write cursor is loaded, then stored.
HostSkip ==
  /\ HostAt("skip") /\ host' = [host EXCEPT !.pc = "skipped", !.count = rxWritten]
  /\ UNCHANGED <<publish, tx, rx, wanted, discardRx, worker, taken, played, mark, calls, resets>>

\* Mutant: the last frame is kept.
HostSkippedShort ==
  /\ HostAt("skipped") /\ host' = [host EXCEPT !.pc = "look", !.count = 0]
  /\ rxRead' = Most(rxRead, host.count - 1)
  /\ UNCHANGED <<publish, tx, rxWritten, rxSamples, wanted, discardRx, worker, taken, played, mark,
                 calls, resets>>

HostSkipped ==
  /\ HostAt("skipped") /\ host' = [host EXCEPT !.pc = "look", !.count = 0]
  /\ rxRead' = host.count
  /\ UNCHANGED <<publish, tx, rxWritten, rxSamples, wanted, discardRx, worker, taken, played, mark,
                 calls, resets>>

HostLook ==
  /\ HostAt("look")
  /\ host' = [host EXCEPT !.pc = "copy", !.count = Least(host.frames, rxWritten - rxRead)]
  /\ UNCHANGED <<publish, tx, rx, wanted, discardRx, worker, taken, played, mark, calls, resets>>

HostCopy ==
  /\ HostAt("copy")
  /\ host' = [host EXCEPT !.pc = "took", !.block = Copied(rxSamples, rxRead, host.count)]
  /\ UNCHANGED <<publish, tx, rx, wanted, discardRx, worker, taken, played, mark, calls, resets>>

HostTook ==
  /\ HostAt("took") /\ host' = At("ask", host.frames, 0)
  /\ rxRead' = rxRead + host.count /\ played' = host.block
  /\ UNCHANGED <<publish, tx, rxWritten, rxSamples, wanted, discardRx, worker, taken, mark,
                 calls, resets>>

\* Mutant: demand runs ahead of what is written, not of what is read.
HostAskAhead ==
  /\ HostAt("ask") /\ host' = Idle
  /\ wanted' = rxWritten + Reserve(host.frames)
  /\ UNCHANGED <<publish, tx, rx, discardRx, worker, taken, played, mark, calls, resets>>

HostAsk ==
  /\ HostAt("ask") /\ host' = Idle
  /\ wanted' = rxRead + Reserve(host.frames)
  /\ UNCHANGED <<publish, tx, rx, discardRx, worker, taken, played, mark, calls, resets>>
-----------------------------------------------------------------------------
(* The worker, which holds audioWorkMutex_ from takeInput to supplyOutput. *)

\* takeInput
WorkerLook ==
  /\ WorkerAt("idle")
  /\ worker' = At("copy", 0, Least(Chunk, txWritten - txRead))
  /\ UNCHANGED <<publish, tx, rx, wanted, discardRx, host, taken, played, mark, calls, resets>>

WorkerCopy ==
  /\ WorkerAt("copy")
  /\ worker' = [worker EXCEPT !.pc = "took", !.block = Copied(txSamples, txRead, worker.count)]
  /\ UNCHANGED <<publish, tx, rx, wanted, discardRx, host, taken, played, mark, calls, resets>>

WorkerTook ==
  /\ WorkerAt("took") /\ worker' = At("encode", 0, 0)
  /\ txRead' = txRead + worker.count /\ taken' = worker.block
  /\ UNCHANGED <<publish, txWritten, txSamples, rx, wanted, discardRx, host, played, mark,
                 calls, resets>>

\* takeDemand, after the frames were encoded
WorkerDemand ==
  /\ WorkerAt("encode") /\ worker' = [worker EXCEPT !.pc = "space", !.frames = wanted]
  /\ UNCHANGED <<publish, tx, rx, wanted, discardRx, host, taken, played, mark, calls, resets>>

\* Mutant: what is missing is computed without the test for demand.
WorkerSpaceUnchecked ==
  /\ WorkerAt("space")
  /\ LET missing == worker.frames - rxWritten
         n == Least(Least(Chunk, missing), Capacity - (rxWritten - rxRead))
     IN worker' = IF n = 0 THEN Idle ELSE At("decode", 0, n)
  /\ UNCHANGED <<publish, tx, rx, wanted, discardRx, host, taken, played, mark, calls, resets>>

WorkerSpace ==
  /\ WorkerAt("space")
  /\ LET missing == Most(0, worker.frames - rxWritten)
         n == Least(Least(Chunk, missing), Capacity - (rxWritten - rxRead))
     IN worker' = IF n = 0 THEN Idle ELSE At("decode", 0, n)
  /\ UNCHANGED <<publish, tx, rx, wanted, discardRx, host, taken, played, mark, calls, resets>>

\* supplyOutput, after the frames were decoded
WorkerSupply ==
  /\ WorkerAt("decode")
  /\ worker' = [worker EXCEPT !.pc = "write",
                              !.count = Least(@, Capacity - (rxWritten - rxRead))]
  /\ UNCHANGED <<publish, tx, rx, wanted, discardRx, host, taken, played, mark, calls, resets>>

WorkerWrite ==
  /\ WorkerAt("write") /\ worker' = [worker EXCEPT !.pc = "store"]
  /\ rxSamples' = Filled(rxSamples, rxWritten, worker.count)
  /\ UNCHANGED <<publish, tx, rxWritten, rxRead, wanted, discardRx, host, taken, played, mark,
                 calls, resets>>

WorkerStore ==
  /\ WorkerAt("store") /\ worker' = Idle
  /\ rxWritten' = rxWritten + worker.count
  /\ UNCHANGED <<publish, tx, rxRead, rxSamples, wanted, discardRx, host, taken, played, mark,
                 calls, resets>>
-----------------------------------------------------------------------------
(* reset, between two rounds of the worker (stopSession) or instead of the *)
(* rest of one (an exception of the encoder, the decoder or a track).      *)

Reset ==
  /\ worker.pc \in {"idle", "encode", "decode"} /\ resets < MaxResets /\ resets' = resets + 1
  /\ worker' = At("resetTx", 0, txWritten)
  /\ UNCHANGED <<publish, tx, rx, wanted, discardRx, host, taken, played, mark, calls>>

ResetTx ==
  /\ WorkerAt("resetTx") /\ worker' = At("resetDemand", 0, 0)
  /\ txRead' = worker.count
  /\ UNCHANGED <<publish, txWritten, txSamples, rx, wanted, discardRx, host, taken, played, mark,
                 calls, resets>>

\* Mutant: the worker moves the cursor the host owns.
ResetDemandAndCursor ==
  /\ WorkerAt("resetDemand") /\ worker' = At("resetFlag", 0, 0)
  /\ wanted' = rxWritten /\ rxRead' = rxWritten
  /\ UNCHANGED <<publish, tx, rxWritten, rxSamples, discardRx, host, taken, played, mark,
                 calls, resets>>

ResetDemand ==
  /\ WorkerAt("resetDemand") /\ worker' = At("resetFlag", 0, 0)
  /\ wanted' = rxWritten
  /\ UNCHANGED <<publish, tx, rx, discardRx, host, taken, played, mark, calls, resets>>

ResetFlag ==
  /\ WorkerAt("resetFlag") /\ worker' = Idle
  /\ discardRx' = TRUE /\ mark' = rxWritten
  /\ UNCHANGED <<publish, tx, rx, wanted, host, taken, played, calls, resets>>
-----------------------------------------------------------------------------
Host ==
  \/ \E f \in Blocks : HostOffer(f) \/ HostExchange(f)
  \/ HostFill \/ HostPublish
  \/ HostSkip \/ HostSkipped \/ HostLook \/ HostCopy \/ HostTook \/ HostAsk
Worker ==
  \/ WorkerLook \/ WorkerCopy \/ WorkerTook
  \/ WorkerDemand \/ WorkerSpace \/ WorkerSupply \/ WorkerWrite \/ WorkerStore
  \/ Reset \/ ResetTx \/ ResetDemand \/ ResetFlag
Next == Host \/ Worker
Spec == Init /\ [][Next]_vars
-----------------------------------------------------------------------------
\* The unsigned difference of two cursors is the length of the queue: it never
\* underflows and never exceeds the storage, whoever computes it.
CursorsOrdered ==
  /\ txWritten - txRead \in 0..Capacity
  /\ rxWritten - rxRead \in 0..Capacity

\* "Never rewrite live producer cursors or sample storage": no slot is written
\* while the other thread reads it.
Exclusive ==
  /\ host.pc \in {"fill", "offer"} /\ worker.pc \in {"copy", "took"} =>
       Region(txWritten, host.count) \cap Region(txRead, worker.count) = {}
  /\ worker.pc \in {"write", "store"} /\ host.pc \in {"copy", "took"} =>
       Region(rxWritten, worker.count) \cap Region(rxRead, host.count) = {}

\* "Receive demand follows frames actually requested by the host" (THREADING.md):
\* the worker is never further ahead of the host than the reserve.
ReserveBounded ==
  \A r \in 0..Capacity : (\A f \in Blocks : Reserve(f) <= r) => rxWritten - rxRead <= r

\* Frames supplied before a reset are never played by a transfer that starts
\* after it: unless the flag still stands, or is being acted on, they are skipped.
OldAudioSkipped == ~discardRx /\ host.pc \notin {"skip", "skipped"} => mark <= rxRead

\* Each direction is a lossy queue of frames in order, although no step of one
\* thread excludes any step of the other.
TxFifo ==
  INSTANCE LossyFifo WITH queue <- Copied(txSamples, txRead, txWritten - txRead),
                          last <- txWritten, out <- taken
RxFifo ==
  INSTANCE LossyFifo WITH queue <- Copied(rxSamples, rxRead, rxWritten - rxRead),
                          last <- rxWritten, out <- played
TxIsFifo == TxFifo!Spec
RxIsFifo == RxFifo!Spec
=============================================================================
