------------------------- MODULE ConnectionLifecycle -------------------------
(***************************************************************************)
(* What WebRTCSession promises about each RTC connection it creates: it is *)
(* in use, then queued for the cleanup worker, then held by it, and let go *)
(* of only when its callbacks are detached, which they stay.  At most Cap  *)
(* connections are in use, and none is created while Cap others await      *)
(* cleanup.                                                                *)
(***************************************************************************)
EXTENDS FiniteSets, Integers

CONSTANTS Conns, Cap

VARIABLES
  born,     \* connections created so far
  live,     \* those of the peers in use
  queue,    \* those that await cleanup
  held,     \* the one the cleanup worker has
  attached  \* those whose callbacks can run

vars == <<born, live, queue, held, attached>>

Init == born = {} /\ live = {} /\ queue = {} /\ held = {} /\ attached = {}

\* A connection is created; those it replaces are queued in the same step.
Admit(c, replaced) ==
  /\ c \notin born
  /\ Cardinality(queue \cup held) < Cap
  /\ Cardinality(live \ replaced) < Cap
  /\ born' = born \cup {c}
  /\ live' = (live \ replaced) \cup {c}
  /\ queue' = queue \cup replaced
  /\ attached' = attached \cup {c}
  /\ UNCHANGED held

Retire(cs) ==
  /\ live' = live \ cs
  /\ queue' = queue \cup cs
  /\ UNCHANGED <<born, held, attached>>

Take(c) ==
  /\ held = {}
  /\ held' = {c} /\ queue' = queue \ {c}
  /\ UNCHANGED <<born, live, attached>>

Detach(c) ==
  /\ attached' = attached \ {c}
  /\ UNCHANGED <<born, live, queue, held>>

LetGo ==
  /\ held \cap attached = {}
  /\ held' = {}
  /\ UNCHANGED <<born, live, queue, attached>>

\* What is in use is destroyed at once, by a new start.
Abandon ==
  /\ live' = {}
  /\ attached' = attached \ live
  /\ UNCHANGED <<born, queue, held>>

Next == \/ \E c \in Conns, replaced \in SUBSET live : Admit(c, replaced)
        \/ \E cs \in SUBSET live : Retire(cs)
        \/ \E c \in queue : Take(c)
        \/ \E c \in held : Detach(c)
        \/ LetGo \/ Abandon

Spec == Init /\ [][Next]_vars
=============================================================================
