----------------------------- MODULE ConfigApply -----------------------------
(***************************************************************************)
(* How WebRTCProcessor turns configuration into a session: the host's      *)
(* control thread, the audio callback with its numeric mailbox, and the    *)
(* configuration worker that stops and starts sessions.                    *)
(*                                                                         *)
(* A section of configMutex_ is one action; each access to an atomic       *)
(* outside of one is a step of its own.  A configuration is a mode, a text *)
(* (stream id, room and password together) and an audio format.            *)
(***************************************************************************)
EXTENDS Naturals

CONSTANTS
  Texts,      \* settings a user or a project may choose
  Clean(_),   \* what WebRTCSession::start makes of a text
  Formats,    \* sample rate and block size of the host
  Changes,    \* bound: calls of the host that change something
  StartsFail  \* may session_.start throw?

ASSUME TextAssumption == \A t \in Texts : Clean(t) \in Texts /\ Clean(Clean(t)) = Clean(t)
ASSUME BoundAssumption == Changes \in Nat /\ StartsFail \in BOOLEAN

VARIABLES
  config,     \* config_: mode and text
  format,     \* processSetup_
  mailbox,    \* pendingMode_
  modeAtomic, \* modeAtomic_
  dirty,      \* configDirty_
  pending,    \* configPending_
  hostActive, \* hostActive_
  ready,      \* processingReady_
  sessionActive, \* sessionActive_
  running,    \* the configuration WebRTCSession runs, or none
  active,     \* activeConfig_ and the active audio format
  audio,      \* next step of process()
  control,    \* next step of the host's control thread
  worker,     \* next step of configThreadMain
  job,        \* the worker's configCopy
  wanted,     \* the mode asked for last
  failed,     \* the worker's last start threw
  changes     \* changes so far

shared == <<config, format, mailbox, modeAtomic, dirty, pending, hostActive, ready>>
session == <<sessionActive, running, active, failed>>
vars == <<shared, session, audio, control, worker, job, wanted, changes>>

Modes == {"publish", "play"}
Settings == [mode : Modes, text : Texts]
Jobs == [mode : Modes, text : Texts, format : Formats]
None == "none"
NoJob == [mode |-> None, text |-> None, format |-> 0]

TypeOK ==
  /\ config \in Settings /\ wanted \in Modes /\ format \in Formats
  /\ mailbox \in Modes \cup {None} /\ modeAtomic \in Modes
  /\ {dirty, pending, hostActive, ready, sessionActive, failed} \subseteq BOOLEAN
  /\ {running, active, job} \subseteq Jobs \cup {NoJob}
  /\ audio \in {"idle", "mailed", "poll"}
  /\ control \in {"idle", "request", "exit", "join", "stop", "terminated"}
  /\ worker \in {"wait", "halt", "apply", "halting", "start", "sanitize",
                 "activate", "started", "exited"}
  /\ changes \in 0..Changes

Init ==
  /\ config \in Settings /\ config.mode = "play" /\ wanted = config.mode
  /\ format \in Formats
  /\ mailbox = None /\ modeAtomic = config.mode /\ dirty = TRUE /\ pending = FALSE
  /\ hostActive = FALSE /\ ready = FALSE
  /\ sessionActive = FALSE /\ running = NoJob /\ active = NoJob
  /\ audio = "idle" /\ control = "idle" /\ worker = "wait" /\ job = NoJob /\ failed = FALSE
  /\ changes = 0

Change == changes < Changes /\ changes' = changes + 1
-----------------------------------------------------------------------------
(* process() *)

ProcessReady ==
  /\ ready' = TRUE /\ pending' = (pending \/ ~ready)

\* applyParameterChange: the mode goes into the mailbox, then the flag is set.
ProcessAutomation(m) ==
  /\ audio = "idle" /\ control \in {"idle", "request"} /\ hostActive /\ Change
  /\ ProcessReady /\ mailbox' = m
  /\ wanted' = m
  /\ audio' = "mailed"
  /\ UNCHANGED <<config, format, modeAtomic, dirty, hostActive, session, control, worker, job>>

ProcessFlag ==
  /\ audio = "mailed" /\ audio' = "poll" /\ dirty' = TRUE
  /\ UNCHANGED <<config, format, mailbox, modeAtomic, pending, hostActive, ready, session,
                 control, worker, job, wanted, changes>>

ProcessBlock ==
  /\ audio = "idle" /\ control \in {"idle", "request"} /\ hostActive
  /\ ProcessReady /\ audio' = "poll"
  /\ UNCHANGED <<config, format, mailbox, modeAtomic, dirty, hostActive, session,
                 control, worker, job, wanted, changes>>

\* configDirty_.exchange
ProcessPoll ==
  /\ audio = "poll" /\ audio' = "idle"
  /\ dirty' = FALSE /\ pending' = (pending \/ dirty)
  /\ UNCHANGED <<config, format, mailbox, modeAtomic, hostActive, ready, session,
                 control, worker, job, wanted, changes>>
-----------------------------------------------------------------------------
(* The host's control thread *)

\* notify ("ConfigUpdate") and setState: the whole configuration at once.
Replace(c) ==
  /\ control = "idle" /\ Change
  /\ config' = c /\ wanted' = c.mode /\ mailbox' = None /\ modeAtomic' = c.mode
  /\ dirty' \in {dirty, TRUE} /\ control' = "request"
  /\ UNCHANGED <<format, pending, hostActive, ready, session, audio, worker, job>>

\* setupProcessing, between activations.
SetupProcessing(f) ==
  /\ control = "idle" /\ Change /\ f # format /\ ~hostActive
  /\ format' = f /\ control' = "request"
  /\ UNCHANGED <<config, mailbox, modeAtomic, dirty, pending, hostActive, ready, session,
                 audio, worker, job, wanted>>

\* setActive: the host stops calling process() before it deactivates.
SetActive(b) ==
  /\ control = "idle" /\ Change /\ b # hostActive /\ audio = "idle"
  /\ hostActive' = b /\ dirty' = (dirty \/ b) /\ control' = "request"
  /\ UNCHANGED <<config, format, mailbox, modeAtomic, pending, ready, session, audio, worker,
                 job, wanted>>

\* requestConfigApply
RequestConfigApply ==
  /\ control = "request" /\ control' = "idle" /\ pending' = TRUE
  /\ UNCHANGED <<config, format, mailbox, modeAtomic, dirty, hostActive, ready, session,
                 audio, worker, job, wanted, changes>>

\* terminate: setActive(false), ...
Terminate ==
  /\ control = "idle" /\ audio = "idle" /\ control' = "exit"
  /\ hostActive' = FALSE /\ pending' = TRUE
  /\ UNCHANGED <<config, format, mailbox, modeAtomic, dirty, ready, session, audio, worker,
                 job, wanted, changes>>

\* ... the worker is told to leave, ...
TellWorker ==
  /\ control = "exit" /\ control' = "join"
  /\ UNCHANGED <<shared, session, audio, worker, job, wanted, changes>>

\* Mutant: the session is stopped without waiting for the worker.
JoinWorkerUnjoined ==
  /\ control = "join" /\ control' = "stop"
  /\ UNCHANGED <<shared, session, audio, worker, job, wanted, changes>>

\* ... it is joined, ...
JoinWorker ==
  /\ control = "join" /\ worker = "exited" /\ control' = "stop"
  /\ UNCHANGED <<shared, session, audio, worker, job, wanted, changes>>

\* ... and the session is stopped.
TerminateSession ==
  /\ control = "stop" /\ control' = "terminated"
  /\ sessionActive' = FALSE /\ running' = NoJob
  /\ UNCHANGED <<shared, active, failed, audio, worker, job, wanted, changes>>
-----------------------------------------------------------------------------
(* configThreadMain *)

WorkerExit ==
  /\ worker = "wait" /\ control = "join" /\ worker' = "exited"
  /\ UNCHANGED <<shared, session, audio, control, job, wanted, changes>>

\* Mutant: the mailbox is taken whether or not it holds a mode.
TakeMailboxUnchecked(go) ==
  /\ mailbox' = None
  /\ config' = [config EXCEPT !.mode = mailbox]
  /\ modeAtomic' = config'.mode

\* Mutant: the mailbox is emptied even when nothing is to be applied.
TakeMailboxLost(go) ==
  /\ mailbox' = None
  /\ config' = IF mailbox = None \/ ~go THEN config ELSE [config EXCEPT !.mode = mailbox]
  /\ modeAtomic' = config'.mode

\* The mailbox is taken and its mode becomes the configuration's.
TakeMailbox(go) ==
  /\ mailbox' = None
  /\ config' = IF mailbox = None THEN config ELSE [config EXCEPT !.mode = mailbox]
  /\ modeAtomic' = config'.mode

\* The section of configMutex_ that takes a copy of everything.
Snapshot ==
  /\ worker = "wait" /\ control # "join" /\ pending
  /\ pending' = FALSE
  /\ TakeMailbox(hostActive /\ ready)
  /\ job' = [mode |-> config'.mode, text |-> config.text, format |-> format]
  /\ worker' = IF hostActive /\ ready THEN "apply" ELSE "halt"
  /\ UNCHANGED <<format, dirty, hostActive, ready, session, audio, control, wanted, changes>>

\* Mutant: the format of the audio is not compared.
UnchangedSettings ==
  /\ active # NoJob
  /\ job.mode = active.mode /\ job.text = active.text

\* Nothing significant changed.
Unchanged == job = active

Apply ==
  /\ worker = "apply"
  /\ worker' = IF sessionActive /\ Unchanged THEN "wait" ELSE "halting"
  /\ UNCHANGED <<shared, session, audio, control, job, wanted, changes>>

\* stopSession, in two steps: the flag, then the session under audioWorkMutex_.
StopFlag ==
  /\ worker \in {"halt", "halting"} /\ sessionActive
  /\ sessionActive' = FALSE
  /\ UNCHANGED <<shared, running, active, failed, audio, control, worker, job, wanted, changes>>

StopSession ==
  /\ worker \in {"halt", "halting"} /\ ~sessionActive
  /\ running' = NoJob
  /\ IF worker = "halt" THEN worker' = "wait" /\ UNCHANGED active
     ELSE worker' = "start" /\ active' = job
  /\ UNCHANGED <<shared, sessionActive, failed, audio, control, job, wanted, changes>>

\* Mutant: a start that throws goes on to mark the session active.
StartSessionUnchecked ==
  /\ worker = "start"
  /\ \/ /\ running' = [job EXCEPT !.text = Clean(@)]
        /\ worker' = IF Clean(job.text) = job.text THEN "activate" ELSE "sanitize"
     \/ StartsFail /\ worker' = "activate" /\ UNCHANGED running
  /\ UNCHANGED failed
  /\ UNCHANGED <<shared, sessionActive, active, audio, control, job, wanted, changes>>

\* session_.start, which runs a cleaned text; or it throws, and the worker reports it.
StartSession ==
  /\ worker = "start"
  /\ \/ /\ running' = [job EXCEPT !.text = Clean(@)] /\ failed' = FALSE
        /\ worker' = IF Clean(job.text) = job.text THEN "activate" ELSE "sanitize"
     \/ StartsFail /\ failed' = TRUE /\ worker' = "wait" /\ UNCHANGED running
  /\ UNCHANGED <<shared, sessionActive, active, audio, control, job, wanted, changes>>

\* handleSanitizedConfig, called back by start().
HandleSanitizedConfig ==
  /\ worker = "sanitize" /\ worker' = "activate"
  /\ config' = [config EXCEPT !.text = running.text]
  /\ UNCHANGED <<format, mailbox, modeAtomic, dirty, pending, hostActive, ready, session,
                 audio, control, job, wanted, changes>>

Activate ==
  /\ worker = "activate" /\ worker' = "started" /\ sessionActive' = TRUE
  /\ UNCHANGED <<shared, running, active, failed, audio, control, job, wanted, changes>>

\* The end of startSession: configDirty_.store(false).
ClearDirty ==
  /\ worker = "started" /\ worker' = "wait" /\ dirty' = FALSE
  /\ UNCHANGED <<config, format, mailbox, modeAtomic, pending, hostActive, ready, session,
                 audio, control, job, wanted, changes>>
-----------------------------------------------------------------------------
Audio == (\E m \in Modes : ProcessAutomation(m)) \/ ProcessFlag \/ ProcessBlock \/ ProcessPoll
Control ==
  \/ \E c \in Settings : Replace(c)
  \/ \E f \in Formats : SetupProcessing(f)
  \/ \E b \in BOOLEAN : SetActive(b)
  \/ RequestConfigApply \/ Terminate \/ TellWorker \/ JoinWorker \/ TerminateSession
Worker ==
  \/ WorkerExit \/ Snapshot \/ Apply \/ StopFlag \/ StopSession
  \/ StartSession \/ HandleSanitizedConfig \/ Activate \/ ClearDirty
Next == Audio \/ Control \/ Worker
Spec == Init /\ [][Next]_vars

\* Threads run on and an active host goes on calling process().
Fairness ==
  /\ WF_vars(Worker)
  /\ WF_vars(RequestConfigApply \/ TellWorker \/ JoinWorker \/ TerminateSession)
  /\ WF_vars(ProcessBlock) /\ WF_vars(ProcessFlag \/ ProcessPoll)
FairSpec == Spec /\ Fairness
-----------------------------------------------------------------------------
\* What getState saves is the mode asked for last, by automation or by a
\* configuration, wherever the worker is ("State now also retains the exact
\* normalized value", MACOS_VALIDATION_2026_10_14.md).
SavedMode == (IF mailbox = None THEN config.mode ELSE mailbox) = wanted

\* A session is only used (sessionActive_) while it runs, in the format and with
\* the settings activeConfig_ records, which later changes are compared with.
ActiveIsRunning ==
  sessionActive => running # NoJob /\ running = [active EXCEPT !.text = Clean(@)]

\* terminate() returns with the session stopped for good (THREADING.md, Shutdown).
TerminatedIsStopped == control = "terminated" => running = NoJob /\ ~sessionActive

\* "Applied changes reconnect the plugin's current session"
\* (ADVANCED_SETTINGS.md): once changes end, the session runs the configuration
\* if the host is active and processing, unless its start threw, and none runs
\* otherwise: never one of an earlier configuration.
Settled ==
  IF hostActive /\ ready
  THEN \/ /\ sessionActive
          /\ running = [mode |-> config.mode, text |-> Clean(config.text), format |-> format]
       \/ failed /\ ~sessionActive /\ running = NoJob
  ELSE ~sessionActive /\ running = NoJob
SettlesDown == <>[]Settled

\* "The configuration worker polls this atomic mailbox": automation is applied.
AutomationApplied == (mailbox # None) ~> (mailbox = None \/ control = "terminated")
=============================================================================
