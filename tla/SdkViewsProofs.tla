--------------------------- MODULE SdkViewsProofs ---------------------------
(* Proofs that a wanted stream is never forgotten and that the records of     *)
(* failed connections are due, for every number of calls and of faults.       *)
EXTENDS SdkViews, TLAPS

\* view() takes back a stopViewing(), and stopViewing() the wish.
WantedNotStopped == intent => ~stopped

\* A retry in flight that still holds its record works for a wanted stream.
RetryIsDue ==
  (\E v \in views : v.for = "failed") => record /\ intent /\ ~stopped

\* While the byes of stopViewing() are on their way the connection is about to
\* go: what was asked for meanwhile relies on something else.
FlushLeavesWork ==
  (flushing /\ intent /\ connected /\ ~quit /\ ~ended) =>
    views # {} \/ retryTimer \/ replay \/ addedTimer

\* disconnect() drops the wish; only a view() that it overtook notes it again.
QuitIsNoted == (quit /\ intent) => (ended \/ \E v \in views : v.at = "hash")

IInv ==
  /\ TypeOK /\ NotForgotten /\ RecordIsDue
  /\ WantedNotStopped /\ RetryIsDue /\ FlushLeavesWork /\ QuitIsNoted

\* Replacing the record of a failed connection leaves every call of view() where
\* it is; none of them holds the record any more.
LEMMA OrphanedFacts ==
  ASSUME views \subseteq Calls
  PROVE  /\ Orphaned \subseteq Calls
         /\ views # {} => Orphaned # {}
         /\ \A v \in Orphaned : v.for # "failed"
         /\ (\E v \in views : v.at = "hash") => \E v \in Orphaned : v.at = "hash"
<1> DEFINE New(v) == IF v.for = "failed" THEN [v EXCEPT !.for = "orphan"] ELSE v
<1>1. \A v \in views : New(v) \in Calls /\ New(v).for # "failed" /\ New(v).at = v.at
  BY DEF Calls, Owners
<1>2. Orphaned = {New(v) : v \in views}
  BY DEF Orphaned
<1>3. \A v \in views : New(v) \in Orphaned
  BY <1>2
<1> HIDE DEF New
<1> QED BY <1>1, <1>2, <1>3

LEMMA InitInv == Init => IInv
<1> SUFFICES ASSUME Init PROVE IInv
  OBVIOUS
<1>1. FlagsOK
  BY DEF Init, FlagsOK
<1>2. ViewsOK
  BY DEF Init, ViewsOK
<1>3. CountersOK
  BY BoundsOK DEF Init, CountersOK
<1>4. NotForgotten /\ RecordIsDue /\ WantedNotStopped
  BY DEF Init, NotForgotten, RecordIsDue, WantedNotStopped
<1>5. RetryIsDue /\ FlushLeavesWork /\ QuitIsNoted
  BY DEF Init, RetryIsDue, FlushLeavesWork, QuitIsNoted
<1> QED BY <1>1, <1>2, <1>3, <1>4, <1>5 DEF IInv, TypeOK

LEMMA ViewKeeps ==
  ASSUME IInv, View
  PROVE  IInv'
<1> USE DEF IInv, TypeOK
<1>1. FlagsOK'
  <2>1. ended' \in BOOLEAN
    BY DEF FlagsOK, View, socket, wishes, timers, leaving
  <2>2. UNCHANGED <<connected, quit, replay, intent, stopped, pending, retryTimer,
                   addedTimer, record, recordTimer, strayTimer, asked, flushing, closing>>
    BY DEF FlagsOK, View, socket, wishes, timers, leaving
  <2> QED BY <2>1, <2>2 DEF FlagsOK
<1>2. ViewsOK'
  BY DEF ViewsOK, View, Starting, socket, wishes, timers, leaving, Calls, Owners
<1>3. CountersOK'
  BY BoundsOK DEF CountersOK, View, Called
<1>4. NotForgotten'
  BY DEF NotForgotten, View, Starting, socket, wishes, timers, leaving
<1>5. RecordIsDue'
  BY DEF RecordIsDue, View, Starting, socket, wishes, timers, leaving
<1>6. WantedNotStopped'
  BY DEF WantedNotStopped, View, Starting, socket, wishes, timers, leaving
<1>7. RetryIsDue'
  BY DEF RetryIsDue, View, Starting, socket, wishes, timers, leaving
<1>8. FlushLeavesWork'
  BY DEF FlushLeavesWork, View, Starting, socket, wishes, timers, leaving
<1>9. QuitIsNoted'
  <2>1. Starting("plain") \in views' /\ Starting("plain").at = "hash"
    BY DEF View, Starting
  <2> QED BY <2>1 DEF QuitIsNoted
<1> QED BY <1>1, <1>2, <1>3, <1>4, <1>5, <1>6, <1>7, <1>8, <1>9

LEMMA ViewHashedKeeps ==
  ASSUME IInv, NEW v \in views, ViewHashed(v)
  PROVE  IInv'
<1> USE DEF IInv, TypeOK
<1>1. FlagsOK'
  <2>1. /\ intent' \in BOOLEAN
        /\ stopped' \in BOOLEAN
        /\ pending' \in BOOLEAN
        /\ asked' \in BOOLEAN
        /\ retryTimer' \in BOOLEAN
        /\ recordTimer' \in BOOLEAN
        /\ strayTimer' \in BOOLEAN
        /\ ended' \in BOOLEAN
    BY DEF FlagsOK, ViewHashed, BackOff, socket, timers, leaving
  <2>2. UNCHANGED <<connected, quit, replay, addedTimer, record, flushing, closing>>
    BY DEF FlagsOK, ViewHashed, BackOff, socket, timers, leaving
  <2> QED BY <2>1, <2>2 DEF FlagsOK
<1>2. ViewsOK'
  BY DEF ViewsOK, ViewHashed, BackOff, socket, timers, leaving, Calls, Owners
<1>3. CountersOK'
  BY BoundsOK DEF CountersOK, ViewHashed, Uncounted, counters
<1>4. NotForgotten'
  BY DEF NotForgotten, ViewHashed, BackOff, socket, timers, leaving
<1>5. RecordIsDue'
  BY DEF RecordIsDue, FlagsOK, ViewsOK, WantedNotStopped, RetryIsDue, ViewHashed,
     BackOff, socket, timers, leaving, Calls, Owners
<1>6. WantedNotStopped'
  BY DEF WantedNotStopped, ViewHashed, BackOff, socket, timers, leaving
<1>7. RetryIsDue'
  BY DEF RetryIsDue, FlagsOK, ViewsOK, RecordIsDue, WantedNotStopped, ViewHashed,
     BackOff, socket, timers, leaving, Calls, Owners
<1>8. FlushLeavesWork'
  BY DEF FlushLeavesWork, ViewHashed, BackOff, socket, timers, leaving
<1>9. QuitIsNoted'
  BY DEF QuitIsNoted, ViewHashed, BackOff, socket, timers, leaving
<1> QED BY <1>1, <1>2, <1>3, <1>4, <1>5, <1>6, <1>7, <1>8, <1>9

LEMMA ViewFoundKeeps ==
  ASSUME IInv, NEW v \in views, ViewFound(v)
  PROVE  IInv'
<1> USE DEF IInv, TypeOK
<1>1. FlagsOK'
  <2>1. pending' \in BOOLEAN
    BY DEF FlagsOK, ViewFound, socket, timers, leaving
  <2>2. UNCHANGED <<connected, quit, replay, intent, stopped, retryTimer, addedTimer,
                   record, recordTimer, strayTimer, asked, flushing, closing, ended>>
    BY DEF FlagsOK, ViewFound, socket, timers, leaving
  <2> QED BY <2>1, <2>2 DEF FlagsOK
<1>2. ViewsOK'
  BY DEF ViewsOK, ViewFound, socket, timers, leaving, Calls, Owners
<1>3. CountersOK'
  BY BoundsOK DEF CountersOK, ViewFound, Uncounted, counters
<1>4. NotForgotten'
  BY DEF NotForgotten, ViewFound, socket, timers, leaving
<1>5. RecordIsDue'
  BY DEF RecordIsDue, ViewFound, socket, timers, leaving
<1>6. WantedNotStopped'
  BY DEF WantedNotStopped, ViewFound, socket, timers, leaving
<1>7. RetryIsDue'
  BY DEF RetryIsDue, ViewFound, socket, timers, leaving
<1>8. FlushLeavesWork'
  BY DEF FlushLeavesWork, ViewFound, socket, timers, leaving
<1>9. QuitIsNoted'
  BY DEF QuitIsNoted, ViewFound, socket, timers, leaving
<1> QED BY <1>1, <1>2, <1>3, <1>4, <1>5, <1>6, <1>7, <1>8, <1>9

LEMMA ViewTimeoutKeeps ==
  ASSUME IInv, NEW v \in views, ViewTimeout(v)
  PROVE  IInv'
<1> USE DEF IInv, TypeOK
<1>1. FlagsOK'
  <2>1. retryTimer' \in BOOLEAN /\ recordTimer' \in BOOLEAN /\ strayTimer' \in BOOLEAN
    BY DEF FlagsOK, ViewTimeout, BackOff, socket, wishes, leaving
  <2>2. UNCHANGED <<connected, quit, replay, intent, stopped, pending, addedTimer, record,
                   asked, flushing, closing, ended>>
    BY DEF FlagsOK, ViewTimeout, BackOff, socket, wishes, leaving
  <2> QED BY <2>1, <2>2 DEF FlagsOK
<1>2. ViewsOK'
  BY DEF ViewsOK, ViewTimeout, BackOff, socket, wishes, leaving, Calls, Owners
<1>3. CountersOK'
  BY BoundsOK DEF CountersOK, ViewTimeout, Uncounted, counters
<1>4. NotForgotten'
  BY DEF NotForgotten, ViewTimeout, BackOff, socket, wishes, leaving
<1>5. RecordIsDue'
  BY DEF RecordIsDue, FlagsOK, ViewsOK, WantedNotStopped, RetryIsDue, ViewTimeout,
     BackOff, socket, wishes, leaving, Calls, Owners
<1>6. WantedNotStopped'
  BY DEF WantedNotStopped, ViewTimeout, BackOff, socket, wishes, leaving
<1>7. RetryIsDue'
  BY DEF RetryIsDue, ViewTimeout, BackOff, socket, wishes, leaving
<1>8. FlushLeavesWork'
  BY DEF FlushLeavesWork, ViewTimeout, BackOff, socket, wishes, leaving
<1>9. QuitIsNoted'
  BY DEF QuitIsNoted, ViewTimeout, BackOff, socket, wishes, leaving
<1> QED BY <1>1, <1>2, <1>3, <1>4, <1>5, <1>6, <1>7, <1>8, <1>9

LEMMA RetryTimerKeeps ==
  ASSUME IInv, RetryTimer
  PROVE  IInv'
<1> USE DEF IInv, TypeOK
<1>1. FlagsOK'
  <2>1. retryTimer' \in BOOLEAN
    BY DEF FlagsOK, RetryTimer, socket, wishes, leaving
  <2>2. UNCHANGED <<connected, quit, replay, intent, stopped, pending, addedTimer, record,
                   recordTimer, strayTimer, asked, flushing, closing, ended>>
    BY DEF FlagsOK, RetryTimer, socket, wishes, leaving
  <2> QED BY <2>1, <2>2 DEF FlagsOK
<1>2. ViewsOK'
  BY DEF ViewsOK, RetryTimer, Starting, socket, wishes, leaving, Calls, Owners
<1>3. CountersOK'
  BY BoundsOK DEF CountersOK, RetryTimer, Uncounted, counters
<1>4. NotForgotten'
  BY DEF NotForgotten, RetryTimer, Starting, socket, wishes, leaving
<1>5. RecordIsDue'
  BY DEF RecordIsDue, RetryTimer, Starting, socket, wishes, leaving
<1>6. WantedNotStopped'
  BY DEF WantedNotStopped, RetryTimer, Starting, socket, wishes, leaving
<1>7. RetryIsDue'
  BY DEF RetryIsDue, RetryTimer, Starting, socket, wishes, leaving
<1>8. FlushLeavesWork'
  BY DEF FlushLeavesWork, RetryTimer, Starting, socket, wishes, leaving
<1>9. QuitIsNoted'
  BY DEF QuitIsNoted, RetryTimer, Starting, socket, wishes, leaving
<1> QED BY <1>1, <1>2, <1>3, <1>4, <1>5, <1>6, <1>7, <1>8, <1>9

LEMMA AddedKeeps ==
  ASSUME IInv, Added
  PROVE  IInv'
<1> USE DEF IInv, TypeOK
<1>1. FlagsOK'
  <2>1. pending' \in BOOLEAN /\ addedTimer' \in BOOLEAN
    BY DEF FlagsOK, Added, socket, leaving
  <2>2. UNCHANGED <<connected, quit, replay, intent, stopped, retryTimer, record,
                   recordTimer, strayTimer, asked, flushing, closing, ended>>
    BY DEF FlagsOK, Added, socket, leaving
  <2> QED BY <2>1, <2>2 DEF FlagsOK
<1>2. ViewsOK'
  BY DEF ViewsOK, Added, socket, leaving, Calls, Owners
<1>3. CountersOK'
  BY BoundsOK DEF CountersOK, Added, Faulty
<1>4. NotForgotten'
  BY DEF NotForgotten, Added, socket, leaving
<1>5. RecordIsDue'
  BY DEF RecordIsDue, Added, socket, leaving
<1>6. WantedNotStopped'
  BY DEF WantedNotStopped, Added, socket, leaving
<1>7. RetryIsDue'
  BY DEF RetryIsDue, Added, socket, leaving
<1>8. FlushLeavesWork'
  BY DEF FlushLeavesWork, Added, socket, leaving
<1>9. QuitIsNoted'
  BY DEF QuitIsNoted, Added, socket, leaving
<1> QED BY <1>1, <1>2, <1>3, <1>4, <1>5, <1>6, <1>7, <1>8, <1>9

LEMMA AddedTimerKeeps ==
  ASSUME IInv, AddedTimer
  PROVE  IInv'
<1> USE DEF IInv, TypeOK
<1>1. FlagsOK'
  <2>1. addedTimer' \in BOOLEAN
    BY DEF FlagsOK, AddedTimer, socket, wishes, leaving
  <2>2. UNCHANGED <<connected, quit, replay, intent, stopped, pending, retryTimer, record,
                   recordTimer, strayTimer, asked, flushing, closing, ended>>
    BY DEF FlagsOK, AddedTimer, socket, wishes, leaving
  <2> QED BY <2>1, <2>2 DEF FlagsOK
<1>2. ViewsOK'
  BY DEF ViewsOK, AddedTimer, Starting, socket, wishes, leaving, Calls, Owners
<1>3. CountersOK'
  BY BoundsOK DEF CountersOK, AddedTimer, Uncounted, counters
<1>4. NotForgotten'
  BY DEF NotForgotten, AddedTimer, Starting, socket, wishes, leaving
<1>5. RecordIsDue'
  BY DEF RecordIsDue, AddedTimer, Starting, socket, wishes, leaving
<1>6. WantedNotStopped'
  BY DEF WantedNotStopped, AddedTimer, Starting, socket, wishes, leaving
<1>7. RetryIsDue'
  BY DEF RetryIsDue, AddedTimer, Starting, socket, wishes, leaving
<1>8. FlushLeavesWork'
  BY DEF FlushLeavesWork, AddedTimer, Starting, socket, wishes, leaving
<1>9. QuitIsNoted'
  BY DEF QuitIsNoted, AddedTimer, Starting, socket, wishes, leaving
<1> QED BY <1>1, <1>2, <1>3, <1>4, <1>5, <1>6, <1>7, <1>8, <1>9

LEMMA LinkFailsKeeps ==
  ASSUME IInv, LinkFails
  PROVE  IInv'
<1> USE DEF IInv, TypeOK
<1>0. views \subseteq Calls
  BY DEF ViewsOK
<1>1. FlagsOK'
  <2>1. record' \in BOOLEAN /\ recordTimer' \in BOOLEAN
    BY DEF FlagsOK, LinkFails, socket, wishes, leaving
  <2>2. UNCHANGED <<connected, quit, replay, intent, stopped, pending, retryTimer,
                   addedTimer, strayTimer, asked, flushing, closing, ended>>
    BY DEF FlagsOK, LinkFails, socket, wishes, leaving
  <2> QED BY <2>1, <2>2 DEF FlagsOK
<1>2. ViewsOK'
  BY <1>0, OrphanedFacts DEF ViewsOK, LinkFails, socket, wishes, leaving, Calls,
     Owners
<1>3. CountersOK'
  BY BoundsOK DEF CountersOK, LinkFails, Faulty
<1>4. NotForgotten'
  BY <1>0, OrphanedFacts DEF NotForgotten, LinkFails, socket, wishes, leaving
<1>5. RecordIsDue'
  BY DEF RecordIsDue, FlagsOK, ViewsOK, WantedNotStopped, RetryIsDue, LinkFails,
     socket, wishes, leaving, Calls, Owners
<1>6. WantedNotStopped'
  BY DEF WantedNotStopped, LinkFails, socket, wishes, leaving
<1>7. RetryIsDue'
  BY <1>0, OrphanedFacts DEF RetryIsDue, LinkFails, socket, wishes, leaving
<1>8. FlushLeavesWork'
  BY <1>0, OrphanedFacts DEF FlushLeavesWork, LinkFails, socket, wishes, leaving
<1>9. QuitIsNoted'
  BY <1>0, OrphanedFacts DEF QuitIsNoted, LinkFails, socket, wishes, leaving
<1> QED BY <1>1, <1>2, <1>3, <1>4, <1>5, <1>6, <1>7, <1>8, <1>9

LEMMA ByeKeeps ==
  ASSUME IInv, Bye
  PROVE  IInv'
<1> USE DEF IInv, TypeOK
<1>0. views \subseteq Calls
  BY DEF ViewsOK
<1>1. FlagsOK'
  <2>1. record' \in BOOLEAN /\ recordTimer' \in BOOLEAN /\ strayTimer' \in BOOLEAN
    BY DEF FlagsOK, Bye, socket, wishes, leaving
  <2>2. UNCHANGED <<connected, quit, replay, intent, stopped, pending, retryTimer,
                   addedTimer, asked, flushing, closing, ended>>
    BY DEF FlagsOK, Bye, socket, wishes, leaving
  <2> QED BY <2>1, <2>2 DEF FlagsOK
<1>2. ViewsOK'
  BY <1>0, OrphanedFacts DEF ViewsOK, Bye, socket, wishes, leaving, Calls, Owners
<1>3. CountersOK'
  BY BoundsOK DEF CountersOK, Bye, Faulty
<1>4. NotForgotten'
  BY <1>0, OrphanedFacts DEF NotForgotten, Bye, socket, wishes, leaving
<1>5. RecordIsDue'
  BY DEF RecordIsDue, Bye, socket, wishes, leaving
<1>6. WantedNotStopped'
  BY DEF WantedNotStopped, Bye, socket, wishes, leaving
<1>7. RetryIsDue'
  BY <1>0, OrphanedFacts DEF RetryIsDue, Bye, socket, wishes, leaving
<1>8. FlushLeavesWork'
  BY <1>0, OrphanedFacts DEF FlushLeavesWork, Bye, socket, wishes, leaving
<1>9. QuitIsNoted'
  BY <1>0, OrphanedFacts DEF QuitIsNoted, Bye, socket, wishes, leaving
<1> QED BY <1>1, <1>2, <1>3, <1>4, <1>5, <1>6, <1>7, <1>8, <1>9

LEMMA HangupKeeps ==
  ASSUME IInv, Hangup
  PROVE  IInv'
<1> USE DEF IInv, TypeOK
<1>1. FlagsOK'
  <2>1. ended' \in BOOLEAN
    BY DEF FlagsOK, Hangup, socket, wishes, timers, leaving
  <2>2. UNCHANGED <<connected, quit, replay, intent, stopped, pending, retryTimer,
                   addedTimer, record, recordTimer, strayTimer, asked, flushing, closing>>
    BY DEF FlagsOK, Hangup, socket, wishes, timers, leaving
  <2> QED BY <2>1, <2>2 DEF FlagsOK
<1>2. ViewsOK'
  BY DEF ViewsOK, Hangup, socket, wishes, timers, leaving, Calls, Owners
<1>3. CountersOK'
  BY BoundsOK DEF CountersOK, Hangup, Faulty
<1>4. NotForgotten'
  BY DEF NotForgotten, Hangup, socket, wishes, timers, leaving
<1>5. RecordIsDue'
  BY DEF RecordIsDue, Hangup, socket, wishes, timers, leaving
<1>6. WantedNotStopped'
  BY DEF WantedNotStopped, Hangup, socket, wishes, timers, leaving
<1>7. RetryIsDue'
  BY DEF RetryIsDue, Hangup, socket, wishes, timers, leaving
<1>8. FlushLeavesWork'
  BY DEF FlushLeavesWork, Hangup, socket, wishes, timers, leaving
<1>9. QuitIsNoted'
  BY DEF QuitIsNoted, Hangup, socket, wishes, timers, leaving
<1> QED BY <1>1, <1>2, <1>3, <1>4, <1>5, <1>6, <1>7, <1>8, <1>9

LEMMA RecordTimerKeeps ==
  ASSUME IInv, RecordTimer
  PROVE  IInv'
<1> USE DEF IInv, TypeOK
<1>0. views \subseteq Calls
  BY DEF ViewsOK
<1>1. FlagsOK'
  <2>1. record' \in BOOLEAN /\ recordTimer' \in BOOLEAN /\ strayTimer' \in BOOLEAN
    BY DEF FlagsOK, RecordTimer, Retry, socket, wishes, leaving
  <2>2. UNCHANGED <<connected, quit, replay, intent, stopped, pending, retryTimer,
                   addedTimer, asked, flushing, closing, ended>>
    BY DEF FlagsOK, RecordTimer, Retry, socket, wishes, leaving
  <2> QED BY <2>1, <2>2 DEF FlagsOK
<1>2. ViewsOK'
  BY <1>0, OrphanedFacts DEF ViewsOK, RecordTimer, Retry, socket, wishes, leaving,
     Starting, Calls, Owners
<1>3. CountersOK'
  BY BoundsOK DEF CountersOK, RecordTimer, Uncounted, counters
<1>4. NotForgotten'
  BY <1>0, OrphanedFacts DEF NotForgotten, FlagsOK, ViewsOK, RecordIsDue,
     WantedNotStopped, RetryIsDue, RecordTimer, Retry, socket, wishes, leaving,
     Starting, Calls, Owners
<1>5. RecordIsDue'
  BY DEF RecordIsDue, RecordTimer, Retry, socket, wishes, leaving, Starting
<1>6. WantedNotStopped'
  BY DEF WantedNotStopped, RecordTimer, Retry, socket, wishes, leaving, Starting
<1>7. RetryIsDue'
  BY <1>0, OrphanedFacts DEF RetryIsDue, FlagsOK, ViewsOK, RecordIsDue,
     WantedNotStopped, RecordTimer, Retry, socket, wishes, leaving, Starting, Calls,
     Owners
<1>8. FlushLeavesWork'
  BY <1>0, OrphanedFacts DEF FlushLeavesWork, RecordTimer, Retry, socket, wishes,
     leaving, Starting
<1>9. QuitIsNoted'
  BY <1>0, OrphanedFacts DEF QuitIsNoted, RecordTimer, Retry, socket, wishes,
     leaving, Starting
<1> QED BY <1>1, <1>2, <1>3, <1>4, <1>5, <1>6, <1>7, <1>8, <1>9

LEMMA StrayTimerKeeps ==
  ASSUME IInv, StrayTimer
  PROVE  IInv'
<1> USE DEF IInv, TypeOK
<1>0. views \subseteq Calls
  BY DEF ViewsOK
<1>1. FlagsOK'
  <2>1. record' \in BOOLEAN /\ recordTimer' \in BOOLEAN /\ strayTimer' \in BOOLEAN
    BY DEF FlagsOK, StrayTimer, Retry, socket, wishes, leaving
  <2>2. UNCHANGED <<connected, quit, replay, intent, stopped, pending, retryTimer,
                   addedTimer, asked, flushing, closing, ended>>
    BY DEF FlagsOK, StrayTimer, Retry, socket, wishes, leaving
  <2> QED BY <2>1, <2>2 DEF FlagsOK
<1>2. ViewsOK'
  BY <1>0, OrphanedFacts DEF ViewsOK, StrayTimer, Retry, socket, wishes, leaving,
     Starting, Calls, Owners
<1>3. CountersOK'
  BY BoundsOK DEF CountersOK, StrayTimer, Uncounted, counters
<1>4. NotForgotten'
  BY <1>0, OrphanedFacts DEF NotForgotten, FlagsOK, ViewsOK, RecordIsDue,
     WantedNotStopped, RetryIsDue, StrayTimer, Retry, socket, wishes, leaving,
     Starting, Calls, Owners
<1>5. RecordIsDue'
  BY DEF RecordIsDue, StrayTimer, Retry, socket, wishes, leaving, Starting
<1>6. WantedNotStopped'
  BY DEF WantedNotStopped, StrayTimer, Retry, socket, wishes, leaving, Starting
<1>7. RetryIsDue'
  BY <1>0, OrphanedFacts DEF RetryIsDue, StrayTimer, Retry, socket, wishes, leaving,
     Starting
<1>8. FlushLeavesWork'
  BY <1>0, OrphanedFacts DEF FlushLeavesWork, StrayTimer, Retry, socket, wishes,
     leaving, Starting
<1>9. QuitIsNoted'
  BY <1>0, OrphanedFacts DEF QuitIsNoted, StrayTimer, Retry, socket, wishes,
     leaving, Starting
<1> QED BY <1>1, <1>2, <1>3, <1>4, <1>5, <1>6, <1>7, <1>8, <1>9

LEMMA OfferKeeps ==
  ASSUME IInv, Offer
  PROVE  IInv'
<1> USE DEF IInv, TypeOK
<1>1. FlagsOK'
  <2>1. asked' \in BOOLEAN
    BY DEF FlagsOK, Offer, socket, wishes, timers, leaving
  <2>2. UNCHANGED <<connected, quit, replay, intent, stopped, pending, retryTimer,
                   addedTimer, record, recordTimer, strayTimer, flushing, closing, ended>>
    BY DEF FlagsOK, Offer, socket, wishes, timers, leaving
  <2> QED BY <2>1, <2>2 DEF FlagsOK
<1>2. ViewsOK'
  BY DEF ViewsOK, Offer, socket, wishes, timers, leaving, Calls, Owners
<1>3. CountersOK'
  BY BoundsOK DEF CountersOK, Offer, Uncounted, counters
<1>4. NotForgotten'
  BY DEF NotForgotten, Offer, socket, wishes, timers, leaving
<1>5. RecordIsDue'
  BY DEF RecordIsDue, Offer, socket, wishes, timers, leaving
<1>6. WantedNotStopped'
  BY DEF WantedNotStopped, Offer, socket, wishes, timers, leaving
<1>7. RetryIsDue'
  BY DEF RetryIsDue, Offer, socket, wishes, timers, leaving
<1>8. FlushLeavesWork'
  BY DEF FlushLeavesWork, Offer, socket, wishes, timers, leaving
<1>9. QuitIsNoted'
  BY DEF QuitIsNoted, Offer, socket, wishes, timers, leaving
<1> QED BY <1>1, <1>2, <1>3, <1>4, <1>5, <1>6, <1>7, <1>8, <1>9

LEMMA UnansweredKeeps ==
  ASSUME IInv, Unanswered
  PROVE  IInv'
<1> USE DEF IInv, TypeOK
<1>1. FlagsOK'
  <2>1. asked' \in BOOLEAN
    BY DEF FlagsOK, Unanswered, socket, wishes, timers, leaving
  <2>2. UNCHANGED <<connected, quit, replay, intent, stopped, pending, retryTimer,
                   addedTimer, record, recordTimer, strayTimer, flushing, closing, ended>>
    BY DEF FlagsOK, Unanswered, socket, wishes, timers, leaving
  <2> QED BY <2>1, <2>2 DEF FlagsOK
<1>2. ViewsOK'
  BY DEF ViewsOK, Unanswered, socket, wishes, timers, leaving, Calls, Owners
<1>3. CountersOK'
  BY BoundsOK DEF CountersOK, Unanswered, Faulty
<1>4. NotForgotten'
  BY DEF NotForgotten, Unanswered, socket, wishes, timers, leaving
<1>5. RecordIsDue'
  BY DEF RecordIsDue, Unanswered, socket, wishes, timers, leaving
<1>6. WantedNotStopped'
  BY DEF WantedNotStopped, Unanswered, socket, wishes, timers, leaving
<1>7. RetryIsDue'
  BY DEF RetryIsDue, Unanswered, socket, wishes, timers, leaving
<1>8. FlushLeavesWork'
  BY DEF FlushLeavesWork, Unanswered, socket, wishes, timers, leaving
<1>9. QuitIsNoted'
  BY DEF QuitIsNoted, Unanswered, socket, wishes, timers, leaving
<1> QED BY <1>1, <1>2, <1>3, <1>4, <1>5, <1>6, <1>7, <1>8, <1>9

LEMMA LinkUpKeeps ==
  ASSUME IInv, LinkUp
  PROVE  IInv'
<1> USE DEF IInv, TypeOK
<1>0. views \subseteq Calls
  BY DEF ViewsOK
<1>1. FlagsOK'
  <2>1. record' \in BOOLEAN /\ recordTimer' \in BOOLEAN
    BY DEF FlagsOK, LinkUp, socket, wishes, leaving
  <2>2. UNCHANGED <<connected, quit, replay, intent, stopped, pending, retryTimer,
                   addedTimer, strayTimer, asked, flushing, closing, ended>>
    BY DEF FlagsOK, LinkUp, socket, wishes, leaving
  <2> QED BY <2>1, <2>2 DEF FlagsOK
<1>2. ViewsOK'
  BY <1>0, OrphanedFacts DEF ViewsOK, LinkUp, socket, wishes, leaving, Calls, Owners
<1>3. CountersOK'
  BY BoundsOK DEF CountersOK, LinkUp, Uncounted, counters
<1>4. NotForgotten'
  BY <1>0, OrphanedFacts DEF NotForgotten, LinkUp, socket, wishes, leaving
<1>5. RecordIsDue'
  BY DEF RecordIsDue, LinkUp, socket, wishes, leaving
<1>6. WantedNotStopped'
  BY DEF WantedNotStopped, LinkUp, socket, wishes, leaving
<1>7. RetryIsDue'
  BY <1>0, OrphanedFacts DEF RetryIsDue, LinkUp, socket, wishes, leaving
<1>8. FlushLeavesWork'
  BY <1>0, OrphanedFacts DEF FlushLeavesWork, LinkUp, socket, wishes, leaving
<1>9. QuitIsNoted'
  BY <1>0, OrphanedFacts DEF QuitIsNoted, LinkUp, socket, wishes, leaving
<1> QED BY <1>1, <1>2, <1>3, <1>4, <1>5, <1>6, <1>7, <1>8, <1>9

LEMMA StopViewingKeeps ==
  ASSUME IInv, StopViewing
  PROVE  IInv'
<1> USE DEF IInv, TypeOK
<1>0. views \subseteq Calls
  BY DEF ViewsOK
<1>1. FlagsOK'
  <2>1. /\ intent' \in BOOLEAN
        /\ stopped' \in BOOLEAN
        /\ pending' \in BOOLEAN
        /\ retryTimer' \in BOOLEAN
        /\ record' \in BOOLEAN
        /\ recordTimer' \in BOOLEAN
        /\ flushing' \in BOOLEAN
    BY DEF FlagsOK, StopViewing, socket
  <2>2. UNCHANGED <<connected, quit, replay, addedTimer, strayTimer, asked, closing,
                   ended>>
    BY DEF FlagsOK, StopViewing, socket
  <2> QED BY <2>1, <2>2 DEF FlagsOK
<1>2. ViewsOK'
  BY <1>0, OrphanedFacts DEF ViewsOK, StopViewing, socket, Calls, Owners
<1>3. CountersOK'
  BY BoundsOK DEF CountersOK, StopViewing, Called
<1>4. NotForgotten'
  BY <1>0, OrphanedFacts DEF NotForgotten, StopViewing, socket
<1>5. RecordIsDue'
  BY DEF RecordIsDue, StopViewing, socket
<1>6. WantedNotStopped'
  BY DEF WantedNotStopped, StopViewing, socket
<1>7. RetryIsDue'
  BY <1>0, OrphanedFacts DEF RetryIsDue, StopViewing, socket
<1>8. FlushLeavesWork'
  BY <1>0, OrphanedFacts DEF FlushLeavesWork, StopViewing, socket
<1>9. QuitIsNoted'
  BY <1>0, OrphanedFacts DEF QuitIsNoted, StopViewing, socket
<1> QED BY <1>1, <1>2, <1>3, <1>4, <1>5, <1>6, <1>7, <1>8, <1>9

LEMMA StopFlushedKeeps ==
  ASSUME IInv, StopFlushed
  PROVE  IInv'
<1> USE DEF IInv, TypeOK
<1>1. FlagsOK'
  <2>1. flushing' \in BOOLEAN
    BY DEF FlagsOK, StopFlushed, socket, wishes, timers
  <2>2. UNCHANGED <<connected, quit, replay, intent, stopped, pending, retryTimer,
                   addedTimer, record, recordTimer, strayTimer, asked, closing, ended>>
    BY DEF FlagsOK, StopFlushed, socket, wishes, timers
  <2> QED BY <2>1, <2>2 DEF FlagsOK
<1>2. ViewsOK'
  BY DEF ViewsOK, StopFlushed, socket, wishes, timers, Calls, Owners
<1>3. CountersOK'
  BY BoundsOK DEF CountersOK, StopFlushed, Uncounted, counters
<1>4. NotForgotten'
  BY DEF NotForgotten, FlagsOK, ViewsOK, CountersOK, RecordIsDue, WantedNotStopped,
     RetryIsDue, FlushLeavesWork, QuitIsNoted, StopFlushed, socket, wishes, timers,
     Calls, Owners
<1>5. RecordIsDue'
  BY DEF RecordIsDue, StopFlushed, socket, wishes, timers
<1>6. WantedNotStopped'
  BY DEF WantedNotStopped, StopFlushed, socket, wishes, timers
<1>7. RetryIsDue'
  BY DEF RetryIsDue, StopFlushed, socket, wishes, timers
<1>8. FlushLeavesWork'
  BY DEF FlushLeavesWork, StopFlushed, socket, wishes, timers
<1>9. QuitIsNoted'
  BY DEF QuitIsNoted, StopFlushed, socket, wishes, timers
<1> QED BY <1>1, <1>2, <1>3, <1>4, <1>5, <1>6, <1>7, <1>8, <1>9

LEMMA DisconnectKeeps ==
  ASSUME IInv, Disconnect
  PROVE  IInv'
<1> USE DEF IInv, TypeOK
<1>0. views \subseteq Calls
  BY DEF ViewsOK
<1>1. FlagsOK'
  <2>1. /\ quit' \in BOOLEAN
        /\ intent' \in BOOLEAN
        /\ stopped' \in BOOLEAN
        /\ record' \in BOOLEAN
        /\ recordTimer' \in BOOLEAN
        /\ closing' \in BOOLEAN
    BY DEF FlagsOK, Disconnect
  <2>2. UNCHANGED <<connected, replay, pending, retryTimer, addedTimer, strayTimer, asked,
                   flushing, ended>>
    BY DEF FlagsOK, Disconnect
  <2> QED BY <2>1, <2>2 DEF FlagsOK
<1>2. ViewsOK'
  BY <1>0, OrphanedFacts DEF ViewsOK, Disconnect, Calls, Owners
<1>3. CountersOK'
  BY BoundsOK DEF CountersOK, Disconnect, Called
<1>4. NotForgotten'
  BY <1>0, OrphanedFacts DEF NotForgotten, Disconnect
<1>5. RecordIsDue'
  BY DEF RecordIsDue, Disconnect
<1>6. WantedNotStopped'
  BY DEF WantedNotStopped, Disconnect
<1>7. RetryIsDue'
  BY <1>0, OrphanedFacts DEF RetryIsDue, Disconnect
<1>8. FlushLeavesWork'
  BY <1>0, OrphanedFacts DEF FlushLeavesWork, Disconnect
<1>9. QuitIsNoted'
  BY <1>0, OrphanedFacts DEF QuitIsNoted, Disconnect
<1> QED BY <1>1, <1>2, <1>3, <1>4, <1>5, <1>6, <1>7, <1>8, <1>9

LEMMA TeardownKeeps ==
  ASSUME IInv, Teardown
  PROVE  IInv'
<1> USE DEF IInv, TypeOK
<1>1. FlagsOK'
  <2>1. /\ closing' \in BOOLEAN
        /\ retryTimer' \in BOOLEAN
        /\ connected' \in BOOLEAN
        /\ asked' \in BOOLEAN
    BY DEF FlagsOK, Teardown, wishes
  <2>2. UNCHANGED <<quit, replay, intent, stopped, pending, addedTimer, record,
                   recordTimer, strayTimer, flushing, ended>>
    BY DEF FlagsOK, Teardown, wishes
  <2> QED BY <2>1, <2>2 DEF FlagsOK
<1>2. ViewsOK'
  BY DEF ViewsOK, Teardown, wishes, Calls, Owners
<1>3. CountersOK'
  BY BoundsOK DEF CountersOK, Teardown, Uncounted, counters
<1>4. NotForgotten'
  BY DEF NotForgotten, Teardown, wishes
<1>5. RecordIsDue'
  BY DEF RecordIsDue, Teardown, wishes
<1>6. WantedNotStopped'
  BY DEF WantedNotStopped, Teardown, wishes
<1>7. RetryIsDue'
  BY DEF RetryIsDue, Teardown, wishes
<1>8. FlushLeavesWork'
  BY DEF FlushLeavesWork, Teardown, wishes
<1>9. QuitIsNoted'
  BY DEF QuitIsNoted, Teardown, wishes
<1> QED BY <1>1, <1>2, <1>3, <1>4, <1>5, <1>6, <1>7, <1>8, <1>9

LEMMA ConnectKeeps ==
  ASSUME IInv, Connect
  PROVE  IInv'
<1> USE DEF IInv, TypeOK
<1>1. FlagsOK'
  <2>1. connected' \in BOOLEAN /\ quit' \in BOOLEAN
    BY DEF FlagsOK, Connect, wishes, timers, leaving
  <2>2. UNCHANGED <<replay, intent, stopped, pending, retryTimer, addedTimer, record,
                   recordTimer, strayTimer, asked, flushing, closing, ended>>
    BY DEF FlagsOK, Connect, wishes, timers, leaving
  <2> QED BY <2>1, <2>2 DEF FlagsOK
<1>2. ViewsOK'
  BY DEF ViewsOK, Connect, wishes, timers, leaving, Calls, Owners
<1>3. CountersOK'
  BY BoundsOK DEF CountersOK, Connect, Called
<1>4. NotForgotten'
  BY DEF NotForgotten, FlagsOK, ViewsOK, CountersOK, RecordIsDue, WantedNotStopped,
     RetryIsDue, FlushLeavesWork, QuitIsNoted, Connect, wishes, timers, leaving,
     Calls, Owners
<1>5. RecordIsDue'
  BY DEF RecordIsDue, Connect, wishes, timers, leaving
<1>6. WantedNotStopped'
  BY DEF WantedNotStopped, Connect, wishes, timers, leaving
<1>7. RetryIsDue'
  BY DEF RetryIsDue, Connect, wishes, timers, leaving
<1>8. FlushLeavesWork'
  BY DEF FlushLeavesWork, FlagsOK, ViewsOK, CountersOK, NotForgotten, RecordIsDue,
     WantedNotStopped, RetryIsDue, QuitIsNoted, Connect, wishes, timers, leaving,
     Calls, Owners
<1>9. QuitIsNoted'
  BY DEF QuitIsNoted, Connect, wishes, timers, leaving
<1> QED BY <1>1, <1>2, <1>3, <1>4, <1>5, <1>6, <1>7, <1>8, <1>9

LEMMA LostKeeps ==
  ASSUME IInv, Lost
  PROVE  IInv'
<1> USE DEF IInv, TypeOK
<1>1. FlagsOK'
  <2>1. connected' \in BOOLEAN /\ asked' \in BOOLEAN
    BY DEF FlagsOK, Lost, wishes, timers, leaving
  <2>2. UNCHANGED <<quit, replay, intent, stopped, pending, retryTimer, addedTimer,
                   record, recordTimer, strayTimer, flushing, closing, ended>>
    BY DEF FlagsOK, Lost, wishes, timers, leaving
  <2> QED BY <2>1, <2>2 DEF FlagsOK
<1>2. ViewsOK'
  BY DEF ViewsOK, Lost, wishes, timers, leaving, Calls, Owners
<1>3. CountersOK'
  BY BoundsOK DEF CountersOK, Lost, Faulty
<1>4. NotForgotten'
  BY DEF NotForgotten, Lost, wishes, timers, leaving
<1>5. RecordIsDue'
  BY DEF RecordIsDue, Lost, wishes, timers, leaving
<1>6. WantedNotStopped'
  BY DEF WantedNotStopped, Lost, wishes, timers, leaving
<1>7. RetryIsDue'
  BY DEF RetryIsDue, Lost, wishes, timers, leaving
<1>8. FlushLeavesWork'
  BY DEF FlushLeavesWork, Lost, wishes, timers, leaving
<1>9. QuitIsNoted'
  BY DEF QuitIsNoted, Lost, wishes, timers, leaving
<1> QED BY <1>1, <1>2, <1>3, <1>4, <1>5, <1>6, <1>7, <1>8, <1>9

LEMMA ReconnectedKeeps ==
  ASSUME IInv, Reconnected
  PROVE  IInv'
<1> USE DEF IInv, TypeOK
<1>1. FlagsOK'
  <2>1. connected' \in BOOLEAN /\ replay' \in BOOLEAN
    BY DEF FlagsOK, Reconnected, wishes, timers, leaving
  <2>2. UNCHANGED <<quit, intent, stopped, pending, retryTimer, addedTimer, record,
                   recordTimer, strayTimer, asked, flushing, closing, ended>>
    BY DEF FlagsOK, Reconnected, wishes, timers, leaving
  <2> QED BY <2>1, <2>2 DEF FlagsOK
<1>2. ViewsOK'
  BY DEF ViewsOK, Reconnected, wishes, timers, leaving, Calls, Owners
<1>3. CountersOK'
  BY BoundsOK DEF CountersOK, Reconnected, Uncounted, counters
<1>4. NotForgotten'
  BY DEF NotForgotten, Reconnected, wishes, timers, leaving
<1>5. RecordIsDue'
  BY DEF RecordIsDue, Reconnected, wishes, timers, leaving
<1>6. WantedNotStopped'
  BY DEF WantedNotStopped, Reconnected, wishes, timers, leaving
<1>7. RetryIsDue'
  BY DEF RetryIsDue, Reconnected, wishes, timers, leaving
<1>8. FlushLeavesWork'
  BY DEF FlushLeavesWork, Reconnected, wishes, timers, leaving
<1>9. QuitIsNoted'
  BY DEF QuitIsNoted, Reconnected, wishes, timers, leaving
<1> QED BY <1>1, <1>2, <1>3, <1>4, <1>5, <1>6, <1>7, <1>8, <1>9

LEMMA ReplayKeeps ==
  ASSUME IInv, Replay
  PROVE  IInv'
<1> USE DEF IInv, TypeOK
<1>1. FlagsOK'
  <2>1. replay' \in BOOLEAN /\ retryTimer' \in BOOLEAN
    BY DEF FlagsOK, Replay, wishes, leaving
  <2>2. UNCHANGED <<connected, quit, intent, stopped, pending, addedTimer, record,
                   recordTimer, strayTimer, asked, flushing, closing, ended>>
    BY DEF FlagsOK, Replay, wishes, leaving
  <2> QED BY <2>1, <2>2 DEF FlagsOK
<1>2. ViewsOK'
  BY DEF ViewsOK, Replay, Starting, wishes, leaving, Calls, Owners
<1>3. CountersOK'
  BY BoundsOK DEF CountersOK, Replay, Uncounted, counters
<1>4. NotForgotten'
  BY DEF NotForgotten, FlagsOK, ViewsOK, RecordIsDue, WantedNotStopped, RetryIsDue,
     Replay, Starting, wishes, leaving, Calls, Owners
<1>5. RecordIsDue'
  BY DEF RecordIsDue, Replay, Starting, wishes, leaving
<1>6. WantedNotStopped'
  BY DEF WantedNotStopped, Replay, Starting, wishes, leaving
<1>7. RetryIsDue'
  BY DEF RetryIsDue, Replay, Starting, wishes, leaving
<1>8. FlushLeavesWork'
  BY DEF FlushLeavesWork, FlagsOK, ViewsOK, RecordIsDue, WantedNotStopped,
     RetryIsDue, Replay, Starting, wishes, leaving, Calls, Owners
<1>9. QuitIsNoted'
  BY DEF QuitIsNoted, Replay, Starting, wishes, leaving
<1> QED BY <1>1, <1>2, <1>3, <1>4, <1>5, <1>6, <1>7, <1>8, <1>9

LEMMA StutterKeeps ==
  ASSUME IInv, UNCHANGED vars
  PROVE  IInv'
<1> USE DEF vars, socket, wishes, timers, leaving, counters, IInv, TypeOK
<1>1. FlagsOK'
  BY DEF FlagsOK
<1>2. ViewsOK'
  BY DEF ViewsOK
<1>3. CountersOK'
  BY DEF CountersOK
<1>4. NotForgotten'
  BY DEF NotForgotten
<1>5. RecordIsDue'
  BY DEF RecordIsDue
<1>6. WantedNotStopped'
  BY DEF WantedNotStopped
<1>7. RetryIsDue'
  BY DEF RetryIsDue
<1>8. FlushLeavesWork'
  BY DEF FlushLeavesWork
<1>9. QuitIsNoted'
  BY DEF QuitIsNoted
<1> QED BY <1>1, <1>2, <1>3, <1>4, <1>5, <1>6, <1>7, <1>8, <1>9

LEMMA StepKeeps ==
  ASSUME IInv, [Next]_vars
  PROVE  IInv'
<1>1. CASE View
  BY <1>1, ViewKeeps
<1>2. ASSUME NEW v \in views, ViewHashed(v) PROVE IInv'
  BY <1>2, ViewHashedKeeps
<1>3. ASSUME NEW v \in views, ViewFound(v) PROVE IInv'
  BY <1>3, ViewFoundKeeps
<1>4. ASSUME NEW v \in views, ViewTimeout(v) PROVE IInv'
  BY <1>4, ViewTimeoutKeeps
<1>5. CASE RetryTimer
  BY <1>5, RetryTimerKeeps
<1>6. CASE Added
  BY <1>6, AddedKeeps
<1>7. CASE AddedTimer
  BY <1>7, AddedTimerKeeps
<1>8. CASE LinkFails
  BY <1>8, LinkFailsKeeps
<1>9. CASE Bye
  BY <1>9, ByeKeeps
<1>10. CASE Hangup
  BY <1>10, HangupKeeps
<1>11. CASE RecordTimer
  BY <1>11, RecordTimerKeeps
<1>12. CASE StrayTimer
  BY <1>12, StrayTimerKeeps
<1>13. CASE Offer
  BY <1>13, OfferKeeps
<1>14. CASE Unanswered
  BY <1>14, UnansweredKeeps
<1>15. CASE LinkUp
  BY <1>15, LinkUpKeeps
<1>16. CASE StopViewing
  BY <1>16, StopViewingKeeps
<1>17. CASE StopFlushed
  BY <1>17, StopFlushedKeeps
<1>18. CASE Disconnect
  BY <1>18, DisconnectKeeps
<1>19. CASE Teardown
  BY <1>19, TeardownKeeps
<1>20. CASE Connect
  BY <1>20, ConnectKeeps
<1>21. CASE Lost
  BY <1>21, LostKeeps
<1>22. CASE Reconnected
  BY <1>22, ReconnectedKeeps
<1>23. CASE Replay
  BY <1>23, ReplayKeeps
<1>24. CASE UNCHANGED vars
  BY <1>24, StutterKeeps
<1> QED BY <1>1, <1>2, <1>3, <1>4, <1>5, <1>6, <1>7, <1>8, <1>9, <1>10, <1>11,
     <1>12, <1>13, <1>14, <1>15, <1>16, <1>17, <1>18, <1>19, <1>20, <1>21, <1>22,
     <1>23, <1>24 DEF Next

\* The inductive invariant holds in every reachable state.
THEOREM InvHolds == Spec => []IInv
<1>1. Init => IInv
  BY InitInv
<1>2. IInv /\ [Next]_vars => IInv'
  BY StepKeeps
<1> QED BY <1>1, <1>2, PTL DEF Spec

\* The flags, calls and records of a view keep their types, whatever the bounds.
THEOREM TypesHold == Spec => []TypeOK
<1>1. IInv => TypeOK
  BY DEF IInv
<1> QED BY <1>1, InvHolds, PTL

\* A wanted stream is never forgotten: view(), its retries, the failed-connection
\* records and the replay always leave something that will ask for it again.
THEOREM NothingForgotten == Spec => []NotForgotten
<1>1. IInv => NotForgotten
  BY DEF IInv
<1> QED BY <1>1, InvHolds, PTL

\* The record of a failed connection is gone when the stream is up again, and its
\* timer runs only for a stream that the application still wants.
THEOREM RecordsAreDue == Spec => []RecordIsDue
<1>1. IInv => RecordIsDue
  BY DEF IInv
<1> QED BY <1>1, InvHolds, PTL
=============================================================================
