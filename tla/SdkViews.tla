----------------------------- MODULE SdkViews -----------------------------
(* How the JavaScript SDK keeps viewing one stream: view() and its polling,  *)
(* the 15 minute retry, the record of a failed viewer connection and its     *)
(* back-off, the replay after a reconnection, stopViewing() and disconnect() *)
(* (src/js_sdk/vdoninja-sdk.js). The socket is up or down here (its life is  *)
(* SdkSignaling's) and the viewer connection new, up or gone.                *)
EXTENDS Integers, FiniteSets

CONSTANTS MaxCalls,    \* bound: calls of the application
          MaxFaults    \* bound: losses, byes, hang-ups, late announcements

ASSUME BoundsOK == MaxCalls \in Nat /\ MaxFaults \in Nat

VARIABLES
  connected, quit,      \* state.connected, _intentionalDisconnect
  replay,               \* the reconnection is about to replay the views
  intent, stopped, pending,   \* the stream in _connectionIntent.views,
                              \* _stoppedViews, _pendingViews
  retryTimer,           \* the stream's timer in _viewRetryTimers
  addedTimer,           \* the 100 ms of _handleVideoAddedToRoom
  record, recordTimer,  \* the stream in _failedViewerConnections, its timer
  strayTimer,           \* a retry timer that no record refers to
  views,                \* the suspended calls of view()
  asked,                \* a play request has no answer yet
  link,                 \* the viewer connection of the stream
  flushing, closing,    \* the byes of stopViewing(), disconnect()
  ended,                \* history: the publisher hung up, or a view() noted its
                        \* intent after disconnect() had dropped them all
  calls, faults

timers   == <<retryTimer, addedTimer, record, recordTimer, strayTimer>>
wishes   == <<intent, stopped, pending>>
socket   == <<connected, quit, replay>>
leaving  == <<flushing, closing>>
counters == <<calls, faults>>
vars == <<socket, wishes, timers, views, asked, link, leaving, ended, counters>>

\* Who awaits a view(): nobody that minds its failure, the replay, or the retry
\* of a failed connection, whose record may have been replaced meanwhile.
Owners == {"plain", "replay", "failed", "orphan"}
Calls  == [for : Owners, at : {"hash", "wait"}]

Init ==
  /\ connected = TRUE /\ quit = FALSE /\ replay = FALSE
  /\ intent = FALSE /\ stopped = FALSE /\ pending = FALSE
  /\ retryTimer = FALSE /\ addedTimer = FALSE
  /\ record = FALSE /\ recordTimer = FALSE /\ strayTimer = FALSE
  /\ views = {} /\ asked = FALSE /\ link = "none"
  /\ flushing = FALSE /\ closing = FALSE /\ ended = FALSE
  /\ calls = 0 /\ faults = 0

Called    == calls < MaxCalls /\ calls' = calls + 1 /\ UNCHANGED faults
Faulty    == faults < MaxFaults /\ faults' = faults + 1 /\ UNCHANGED calls
Uncounted == UNCHANGED counters

Starting(owner) == [for |-> owner, at |-> "hash"]
\* The record is replaced or deleted: a retry in flight keeps the old one.
Orphaned == {IF v.for = "failed" THEN [v EXCEPT !.for = "orphan"] ELSE v : v \in views}

\* The catch of _retryFailedViewerConnection arms the timer of the record it
\* holds; a timer already there is overwritten, not cleared.
BackOff(owner) ==
  /\ recordTimer' = (recordTimer \/ owner = "failed")
  /\ strayTimer' = (strayTimer \/ owner = "orphan" \/ (owner = "failed" /\ recordTimer))

-----------------------------------------------------------------------------
(* view()                                                                     *)

View ==
  /\ Called /\ connected
  /\ views' = views \cup {Starting("plain")} /\ ended' = FALSE
  /\ UNCHANGED <<socket, wishes, timers, asked, link, leaving>>

\* After the hash of the stream: the intent, and the play request if the socket
\* is open; else view() throws.
ViewHashed(v) ==
  /\ v.at = "hash"
  /\ intent' = TRUE /\ stopped' = FALSE /\ pending' = connected
  /\ IF connected
     THEN /\ asked' = TRUE /\ views' = (views \ {v}) \cup {[v EXCEPT !.at = "wait"]}
          /\ UNCHANGED timers
     ELSE /\ views' = views \ {v} /\ UNCHANGED <<asked, addedTimer, record>>
          /\ retryTimer' = (retryTimer \/ v.for = "replay")
          /\ BackOff(v.for)
  /\ ended' = (ended \/ quit)
  /\ UNCHANGED <<socket, link, leaving>> /\ Uncounted

\* The poll, every 100 ms: its first look is later than the byes of a
\* stopViewing() before it.
ViewFound(v) ==
  /\ v.at = "wait" /\ link # "none" /\ ~flushing
  /\ views' = views \ {v} /\ pending' = FALSE
  /\ UNCHANGED <<socket, intent, stopped, timers, asked, link, leaving, ended>> /\ Uncounted

\* Fifteen seconds without a connection: _setupViewRetry, and view() resolves
\* to null, which the retry of a failed connection takes for a failure.
ViewTimeout(v) ==
  /\ v.at = "wait" /\ link = "none"
  /\ views' = views \ {v} /\ retryTimer' = TRUE
  /\ BackOff(v.for)
  /\ UNCHANGED <<socket, wishes, addedTimer, record, asked, link, leaving, ended>> /\ Uncounted

\* The timer of _setupViewRetry.
RetryTimer ==
  /\ retryTimer /\ retryTimer' = FALSE
  /\ views' = IF connected /\ ~quit THEN views \cup {Starting("plain")} ELSE views
  /\ UNCHANGED <<socket, wishes, addedTimer, record, recordTimer, strayTimer, asked,
                 link, leaving, ended>>
  /\ Uncounted

\* _handleVideoAddedToRoom for a stream with a pending view, and its 100 ms.
Added ==
  /\ Faulty /\ connected /\ pending
  /\ pending' = FALSE /\ addedTimer' = TRUE
  /\ UNCHANGED <<socket, intent, stopped, retryTimer, record, recordTimer, strayTimer,
                 views, asked, link, leaving, ended>>

AddedTimer ==
  /\ addedTimer /\ addedTimer' = FALSE
  /\ views' = IF connected THEN views \cup {Starting("plain")} ELSE views
  /\ UNCHANGED <<socket, wishes, retryTimer, record, recordTimer, strayTimer, asked,
                 link, leaving, ended>>
  /\ Uncounted

-----------------------------------------------------------------------------
(* Failed viewer connections.                                                 *)

\* Mutant: the failure leaves no timer.
LinkFailsQuietly ==
  /\ Faulty /\ link # "none" /\ link' = "none"
  /\ IF intent /\ ~quit
     THEN record' = TRUE /\ recordTimer' = FALSE /\ views' = Orphaned
     ELSE UNCHANGED <<record, recordTimer, views>>
  /\ UNCHANGED <<socket, wishes, retryTimer, addedTimer, strayTimer, asked, leaving, ended>>

\* Mutant: the connection is closed, not removed.
LinkFailsStays ==
  /\ Faulty /\ link # "none" /\ link' = "closed"
  /\ record' = TRUE /\ recordTimer' = TRUE /\ views' = Orphaned
  /\ UNCHANGED <<socket, wishes, retryTimer, addedTimer, strayTimer, asked, leaving, ended>>

\* _handleConnectionFailed.
LinkFails ==
  /\ Faulty /\ link # "none" /\ link' = "none"
  /\ IF intent /\ ~quit
     THEN record' = TRUE /\ recordTimer' = TRUE /\ views' = Orphaned
     ELSE UNCHANGED <<record, recordTimer, views>>
  /\ UNCHANGED <<socket, wishes, retryTimer, addedTimer, strayTimer, asked, leaving, ended>>

\* _handleBye: a new record, and a timer that it does not hold.
Bye ==
  /\ Faulty /\ link # "none" /\ link' = "none"
  /\ IF quit THEN UNCHANGED <<record, recordTimer, strayTimer, views>>
     ELSE record' = TRUE /\ recordTimer' = FALSE /\ strayTimer' = TRUE /\ views' = Orphaned
  /\ UNCHANGED <<socket, wishes, retryTimer, addedTimer, asked, leaving, ended>>

\* _handleHangup: the publisher is gone for good, nothing is retried.
Hangup ==
  /\ Faulty /\ link # "none" /\ link' = "none" /\ ended' = TRUE
  /\ UNCHANGED <<socket, wishes, timers, views, asked, leaving>>

\* _retryFailedViewerConnection; armed and stray are the timers still set.
Retry(armed, stray) ==
  IF quit \/ ~intent \/ stopped
  THEN /\ record' = FALSE /\ recordTimer' = FALSE /\ strayTimer' = (stray \/ armed)
       /\ views' = Orphaned
  ELSE /\ UNCHANGED record
       /\ IF connected
          THEN /\ views' = views \cup {Starting("failed")}
               /\ recordTimer' = armed /\ strayTimer' = stray
          ELSE /\ recordTimer' = TRUE /\ strayTimer' = (stray \/ armed)
               /\ UNCHANGED views

RecordTimer ==
  /\ recordTimer
  /\ Retry(FALSE, strayTimer)
  /\ UNCHANGED <<socket, wishes, retryTimer, addedTimer, asked, link, leaving, ended>>
  /\ Uncounted

StrayTimer ==
  /\ strayTimer
  /\ IF record THEN Retry(recordTimer, FALSE)
     ELSE strayTimer' = FALSE /\ UNCHANGED <<record, recordTimer, views>>
  /\ UNCHANGED <<socket, wishes, retryTimer, addedTimer, asked, link, leaving, ended>>
  /\ Uncounted

-----------------------------------------------------------------------------
(* The publisher's offers and the connection they make.                       *)

\* _handleOfferSDP: a new session replaces the connection that is there.
Offer ==
  /\ asked /\ connected
  /\ asked' = FALSE /\ link' = "new"
  /\ UNCHANGED <<socket, wishes, timers, views, leaving, ended>> /\ Uncounted

\* Nobody publishes the stream now.
Unanswered ==
  /\ Faulty /\ asked /\ asked' = FALSE
  /\ UNCHANGED <<socket, wishes, timers, views, link, leaving, ended>>

\* Mutant: the failed record outlives the failure.
LinkUpKeepsRecord ==
  /\ link = "new" /\ link' = "up"
  /\ UNCHANGED <<socket, wishes, timers, views, asked, leaving, ended>> /\ Uncounted

\* _handlePeerConnectionState: connected.
LinkUp ==
  /\ link = "new" /\ link' = "up"
  /\ record' = FALSE /\ recordTimer' = FALSE /\ views' = Orphaned
  /\ UNCHANGED <<socket, wishes, retryTimer, addedTimer, strayTimer, asked, leaving, ended>>
  /\ Uncounted

-----------------------------------------------------------------------------
(* Leaving, and losing the socket.                                            *)

StopViewing ==
  /\ Called
  /\ intent' = FALSE /\ stopped' = TRUE /\ pending' = FALSE
  /\ retryTimer' = FALSE /\ record' = FALSE /\ recordTimer' = FALSE
  /\ views' = Orphaned /\ flushing' = TRUE
  /\ UNCHANGED <<socket, addedTimer, strayTimer, asked, link, closing, ended>>

StopFlushed ==
  /\ flushing /\ flushing' = FALSE /\ link' = "none"
  /\ UNCHANGED <<socket, wishes, timers, views, asked, closing, ended>> /\ Uncounted

Disconnect ==
  /\ Called /\ quit' = TRUE
  /\ intent' = FALSE /\ stopped' = FALSE
  /\ record' = FALSE /\ recordTimer' = FALSE /\ views' = Orphaned
  /\ closing' = TRUE
  /\ UNCHANGED <<connected, replay, pending, retryTimer, addedTimer, strayTimer, asked,
                 link, flushing, ended>>

Teardown ==
  /\ closing /\ closing' = FALSE
  /\ link' = "none" /\ retryTimer' = FALSE /\ connected' = FALSE /\ asked' = FALSE
  /\ UNCHANGED <<quit, replay, wishes, addedTimer, record, recordTimer, strayTimer,
                 views, flushing, ended>>
  /\ Uncounted

\* connect() of the application after a disconnect().
Connect ==
  /\ Called /\ ~connected /\ quit
  /\ connected' = TRUE /\ quit' = FALSE
  /\ UNCHANGED <<replay, wishes, timers, views, asked, link, leaving, ended>>

Lost ==
  /\ Faulty /\ connected /\ connected' = FALSE /\ asked' = FALSE
  /\ UNCHANGED <<quit, replay, wishes, timers, views, link, leaving, ended>>

\* The reconnection succeeds, and after the room and the seed replays the view.
Reconnected ==
  /\ ~connected /\ ~quit
  /\ connected' = TRUE /\ replay' = TRUE
  /\ UNCHANGED <<quit, wishes, timers, views, asked, link, leaving, ended>> /\ Uncounted

\* Mutant: the views are not replayed.
ReplayNothing ==
  /\ replay /\ replay' = FALSE
  /\ UNCHANGED <<connected, quit, wishes, timers, views, asked, link, leaving, ended>>
  /\ Uncounted

Replay ==
  /\ replay /\ replay' = FALSE
  /\ LET wanted == intent /\ ~stopped
     IN /\ views' = IF wanted /\ connected THEN views \cup {Starting("replay")} ELSE views
        /\ retryTimer' = (retryTimer \/ (wanted /\ ~connected))
  /\ UNCHANGED <<connected, quit, wishes, addedTimer, record, recordTimer, strayTimer,
                 asked, link, leaving, ended>>
  /\ Uncounted

-----------------------------------------------------------------------------
Next ==
  \/ View \/ StopViewing \/ Disconnect \/ Connect
  \/ Lost \/ LinkFails \/ Bye \/ Hangup \/ Unanswered \/ Added
  \/ \E v \in views : ViewHashed(v) \/ ViewFound(v) \/ ViewTimeout(v)
  \/ RetryTimer \/ AddedTimer \/ RecordTimer \/ StrayTimer
  \/ Offer \/ LinkUp \/ StopFlushed \/ Teardown \/ Reconnected \/ Replay

Spec == Init /\ [][Next]_vars

\* Every timer fires, every await ends, the reconnection succeeds (SdkSignaling)
\* and a publisher that got the request answers it. The application, losses and
\* the publisher's own decisions are not fair.
Fairness ==
  /\ \A v \in Calls : /\ WF_vars(v \in views /\ ViewHashed(v))
                      /\ WF_vars(v \in views /\ ViewFound(v))
                      /\ WF_vars(v \in views /\ ViewTimeout(v))
  /\ WF_vars(RetryTimer) /\ WF_vars(AddedTimer) /\ WF_vars(RecordTimer)
  /\ WF_vars(StrayTimer) /\ WF_vars(Offer) /\ WF_vars(LinkUp)
  /\ WF_vars(StopFlushed) /\ WF_vars(Teardown)
  /\ WF_vars(Reconnected) /\ WF_vars(Replay)
FairSpec == Spec /\ Fairness

-----------------------------------------------------------------------------
FlagsOK ==
  /\ connected \in BOOLEAN /\ quit \in BOOLEAN /\ replay \in BOOLEAN
  /\ intent \in BOOLEAN /\ stopped \in BOOLEAN /\ pending \in BOOLEAN
  /\ retryTimer \in BOOLEAN /\ addedTimer \in BOOLEAN
  /\ record \in BOOLEAN /\ recordTimer \in BOOLEAN /\ strayTimer \in BOOLEAN
  /\ asked \in BOOLEAN /\ flushing \in BOOLEAN /\ closing \in BOOLEAN /\ ended \in BOOLEAN
ViewsOK == views \subseteq Calls /\ link \in {"none", "new", "up"}
CountersOK == calls \in 0..MaxCalls /\ faults \in 0..MaxFaults
TypeOK == FlagsOK /\ ViewsOK /\ CountersOK

\* A stream that is wanted while the socket is up is never forgotten: it has a
\* connection, or a call, a timer or the replay that will ask for it again.
NotForgotten ==
  (intent /\ connected /\ ~quit /\ ~ended) =>
    \/ link # "none" \/ views # {} \/ replay
    \/ retryTimer \/ addedTimer \/ (record /\ (recordTimer \/ strayTimer))

\* What has recovered is not retried, nor what is no longer wanted: the record of
\* a failed connection is gone once the stream is up, and its own timer runs only
\* for a stream with a record that the application wants.
RecordIsDue ==
  /\ record => link # "up"
  /\ recordTimer => record /\ intent /\ ~stopped

\* A wanted stream is seen again, whatever was lost on the way.
ViewReturns ==
  (intent /\ ~quit) ~> (link = "up" \/ ~intent \/ quit \/ ended)

\* The retry timer starts no view of a stream that was stopped.
RetryRespectsStop ==
  [][retryTimer /\ ~retryTimer' /\ views' # views => ~stopped]_vars
=============================================================================
