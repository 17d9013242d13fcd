------------------------- MODULE ConfigApplyProofs -------------------------
(***************************************************************************)
(* Theorems about ConfigApply, for every set of texts and of formats, any  *)
(* way to clean a text and any number of changes: the mode the host saves, *)
(* the session that is in use and the end of terminate().                  *)
(***************************************************************************)
EXTENDS ConfigApply, TLAPS

\* TypeOK, one conjunct per variable: the flags and the rest.
Flags ==
  /\ dirty \in BOOLEAN /\ pending \in BOOLEAN /\ hostActive \in BOOLEAN
  /\ ready \in BOOLEAN /\ sessionActive \in BOOLEAN /\ failed \in BOOLEAN
Types ==
  /\ config \in Settings /\ wanted \in Modes /\ format \in Formats
  /\ mailbox \in Modes \cup {None} /\ modeAtomic \in Modes
  /\ running \in Jobs \cup {NoJob} /\ active \in Jobs \cup {NoJob}
  /\ job \in Jobs \cup {NoJob}
  /\ audio \in {"idle", "mailed", "poll"}
  /\ control \in {"idle", "request", "exit", "join", "stop", "terminated"}
  /\ worker \in {"wait", "halt", "apply", "halting", "start", "sanitize",
                 "activate", "started", "exited"}
  /\ changes \in 0..Changes

LEMMA TypesAreTypeOK == TypeOK <=> Flags /\ Types
  BY DEF TypeOK, Types, Flags

\* The worker applies a configuration it has taken; nothing is in use while it
\* starts a session, and what it started is what activeConfig_ records.
WorkerKnows ==
  /\ worker \in {"apply", "halting", "start", "sanitize", "activate"} => job \in Jobs
  /\ worker \in {"start", "sanitize", "activate"} => ~sessionActive /\ active = job
  /\ worker \in {"sanitize", "activate"} => running = [job EXCEPT !.text = Clean(@)]

\* Once terminate() has joined the worker, the worker is gone.
JoinedIsExited == control \in {"stop", "terminated"} => worker = "exited"

IInv == /\ Flags /\ Types /\ SavedMode /\ ActiveIsRunning /\ TerminatedIsStopped
        /\ WorkerKnows /\ JoinedIsExited

\* The modes are not the empty mailbox, a job is not the absence of one.
LEMMA NoneIsNoMode == None \notin Modes /\ NoJob \notin Jobs
  BY DEF None, Modes, NoJob, Jobs

\* A job whose text start() has cleaned is a job.
LEMMA CleanedIsJob ==
  ASSUME NEW j \in Jobs
  PROVE  [j EXCEPT !.text = Clean(@)] \in Jobs
  BY TextAssumption DEF Jobs

LEMMA InitInv == Init => IInv
<1> SUFFICES ASSUME Init PROVE IInv
  OBVIOUS
<1>1. Flags
  BY DEF Init, Flags
<1>2. Types
  BY BoundAssumption DEF Init, Types, Settings
<1> QED
  BY <1>1, <1>2 DEF Init, IInv, SavedMode, ActiveIsRunning, TerminatedIsStopped,
       WorkerKnows, JoinedIsExited

\* The audio callback changes the mailbox, its flags and the mode that is wanted.
LEMMA AudioKeeps ==
  ASSUME IInv, Audio
  PROVE  IInv'
<1> USE DEF shared, session
<1>1. CASE \E m \in Modes : ProcessAutomation(m)
  <2>1. PICK m \in Modes : ProcessAutomation(m)
    BY <1>1
  <2>2. Flags' /\ Types'
    <3>1. Flags'
      BY <2>1 DEF IInv, Flags, ProcessAutomation, ProcessReady
    <3>2. Types'
      BY <2>1, BoundAssumption DEF IInv, Types, ProcessAutomation, Change
    <3> QED
      BY <3>1, <3>2
  <2>3. SavedMode'
    BY <2>1, NoneIsNoMode DEF IInv, SavedMode, ProcessAutomation
  <2> QED
    BY <2>1, <2>2, <2>3 DEF IInv, ActiveIsRunning, TerminatedIsStopped, WorkerKnows,
         JoinedIsExited, ProcessAutomation
<1>2. CASE ProcessFlag
  <2>1. Flags'
    BY <1>2 DEF IInv, Flags, ProcessFlag
  <2>2. Types'
    BY <1>2 DEF IInv, Types, ProcessFlag
  <2> QED
    BY <1>2, <2>1, <2>2 DEF IInv, SavedMode, ActiveIsRunning, TerminatedIsStopped,
         WorkerKnows, JoinedIsExited, ProcessFlag
<1>3. CASE ProcessBlock
  <2>1. Flags'
    BY <1>3 DEF IInv, Flags, ProcessBlock, ProcessReady
  <2>2. Types'
    BY <1>3 DEF IInv, Types, ProcessBlock, ProcessReady
  <2> QED
    BY <1>3, <2>1, <2>2 DEF IInv, SavedMode, ActiveIsRunning, TerminatedIsStopped,
         WorkerKnows, JoinedIsExited, ProcessBlock, ProcessReady
<1>4. CASE ProcessPoll
  <2>1. Flags'
    BY <1>4 DEF IInv, Flags, ProcessPoll
  <2>2. Types'
    BY <1>4 DEF IInv, Types, ProcessPoll
  <2> QED
    BY <1>4, <2>1, <2>2 DEF IInv, SavedMode, ActiveIsRunning, TerminatedIsStopped,
         WorkerKnows, JoinedIsExited, ProcessPoll
<1> QED
  BY <1>1, <1>2, <1>3, <1>4 DEF Audio

\* The control thread replaces configurations, and ends by joining the worker
\* before it stops the session.
LEMMA ControlKeeps ==
  ASSUME IInv, Control
  PROVE  IInv'
<1> USE DEF shared, session
<1>1. CASE \E c \in Settings : Replace(c)
  <2>1. PICK c \in Settings : Replace(c)
    BY <1>1
  <2>2. Flags' /\ Types'
    <3>1. Flags'
      BY <2>1 DEF IInv, Flags, Replace
    <3>2. Types'
      BY <2>1, BoundAssumption DEF IInv, Types, Replace, Change, Settings
    <3> QED
      BY <3>1, <3>2
  <2> QED
    BY <2>1, <2>2 DEF IInv, SavedMode, ActiveIsRunning, TerminatedIsStopped, WorkerKnows,
         JoinedIsExited, Replace
<1>2. CASE \E f \in Formats : SetupProcessing(f)
  <2>1. Flags'
    BY <1>2 DEF IInv, Flags, SetupProcessing, Change
  <2>2. Types'
    BY <1>2, BoundAssumption DEF IInv, Types, SetupProcessing, Change
  <2> QED
    BY <1>2, <2>1, <2>2 DEF IInv, SavedMode, ActiveIsRunning, TerminatedIsStopped,
         WorkerKnows, JoinedIsExited, SetupProcessing, Change
<1>3. CASE \E b \in BOOLEAN : SetActive(b)
  <2>1. Flags'
    BY <1>3 DEF IInv, Flags, SetActive, Change
  <2>2. Types'
    BY <1>3, BoundAssumption DEF IInv, Types, SetActive, Change
  <2> QED
    BY <1>3, <2>1, <2>2 DEF IInv, SavedMode, ActiveIsRunning, TerminatedIsStopped,
         WorkerKnows, JoinedIsExited, SetActive, Change
<1>4. CASE RequestConfigApply
  <2>1. Flags'
    BY <1>4 DEF IInv, Flags, RequestConfigApply
  <2>2. Types'
    BY <1>4 DEF IInv, Types, RequestConfigApply
  <2> QED
    BY <1>4, <2>1, <2>2 DEF IInv, SavedMode, ActiveIsRunning, TerminatedIsStopped,
         WorkerKnows, JoinedIsExited, RequestConfigApply
<1>5. CASE Terminate
  <2>1. Flags'
    BY <1>5 DEF IInv, Flags, Terminate
  <2>2. Types'
    BY <1>5 DEF IInv, Types, Terminate
  <2> QED
    BY <1>5, <2>1, <2>2 DEF IInv, SavedMode, ActiveIsRunning, TerminatedIsStopped,
         WorkerKnows, JoinedIsExited, Terminate
<1>6. CASE TellWorker
  <2>1. Flags'
    BY <1>6 DEF IInv, Flags, TellWorker
  <2>2. Types'
    BY <1>6 DEF IInv, Types, TellWorker
  <2> QED
    BY <1>6, <2>1, <2>2 DEF IInv, SavedMode, ActiveIsRunning, TerminatedIsStopped,
         WorkerKnows, JoinedIsExited, TellWorker
<1>7. CASE JoinWorker
  <2>1. Flags'
    BY <1>7 DEF IInv, Flags, JoinWorker
  <2>2. Types'
    BY <1>7 DEF IInv, Types, JoinWorker
  <2> QED
    BY <1>7, <2>1, <2>2 DEF IInv, SavedMode, ActiveIsRunning, TerminatedIsStopped,
         WorkerKnows, JoinedIsExited, JoinWorker
<1>8. CASE TerminateSession
  <2>1. Flags'
    BY <1>8 DEF IInv, Flags, TerminateSession
  <2>2. Types'
    BY <1>8 DEF IInv, Types, TerminateSession
  <2> QED
    BY <1>8, <2>1, <2>2 DEF IInv, SavedMode, ActiveIsRunning, TerminatedIsStopped,
         WorkerKnows, JoinedIsExited, TerminateSession
<1> QED
  BY <1>1, <1>2, <1>3, <1>4, <1>5, <1>6, <1>7, <1>8 DEF Control

\* The worker's copy has the mode of the mailbox and is a whole configuration.
LEMMA SnapshotKeeps ==
  ASSUME IInv, Snapshot
  PROVE  IInv'
<1> USE DEF shared, session
<1>1. config' \in Settings /\ modeAtomic' \in Modes /\ config'.text = config.text
  BY DEF IInv, Types, Snapshot, TakeMailbox, Settings
<1>2. job' \in Jobs
  BY <1>1 DEF IInv, Types, Snapshot, Settings, Jobs
<1>3. Flags' /\ Types'
  <2>1. Flags'
    BY DEF IInv, Flags, Snapshot
  <2>2. Types'
    BY <1>1, <1>2 DEF IInv, Types, Snapshot, TakeMailbox
  <2> QED
    BY <2>1, <2>2
<1>4. SavedMode'
  BY DEF IInv, Types, SavedMode, Snapshot, TakeMailbox, Settings
<1>5. WorkerKnows' /\ ActiveIsRunning' /\ TerminatedIsStopped' /\ JoinedIsExited'
  BY <1>2 DEF IInv, WorkerKnows, ActiveIsRunning, TerminatedIsStopped, JoinedIsExited, Snapshot
<1> QED
  BY <1>3, <1>4, <1>5 DEF IInv

\* A start runs the cleaned text of the job, or leaves nothing in use.
LEMMA StartSessionKeeps ==
  ASSUME IInv, StartSession
  PROVE  IInv'
<1> USE DEF shared, session
<1>1. job \in Jobs /\ ~sessionActive /\ active = job /\ worker = "start"
  BY DEF IInv, WorkerKnows, StartSession
<1>2. [job EXCEPT !.text = Clean(@)] \in Jobs
  BY <1>1, CleanedIsJob
<1>3. \/ running' = [job EXCEPT !.text = Clean(@)] /\ worker' \in {"activate", "sanitize"}
      \/ running' = running /\ worker' = "wait"
  BY DEF StartSession
<1>4. Flags' /\ Types'
  <2>1. Flags'
    BY DEF IInv, Flags, StartSession
  <2>2. Types'
    BY <1>2, <1>3 DEF IInv, Types, StartSession
  <2> QED
    BY <2>1, <2>2
<1>5. WorkerKnows'
  BY <1>1, <1>3 DEF WorkerKnows, StartSession
<1> QED
  BY <1>1, <1>3, <1>4, <1>5 DEF IInv, SavedMode, ActiveIsRunning, TerminatedIsStopped,
       JoinedIsExited, StartSession

LEMMA WorkerKeeps ==
  ASSUME IInv, Worker
  PROVE  IInv'
<1> USE DEF shared, session
<1>1. CASE WorkerExit
  <2>1. Flags'
    BY <1>1 DEF IInv, Flags, WorkerExit
  <2>2. Types'
    BY <1>1 DEF IInv, Types, WorkerExit
  <2> QED
    BY <1>1, <2>1, <2>2 DEF IInv, SavedMode, ActiveIsRunning, TerminatedIsStopped,
         WorkerKnows, JoinedIsExited, WorkerExit
<1>2. CASE Snapshot
  BY <1>2, SnapshotKeeps
<1>3. CASE Apply
  <2>1. Flags'
    BY <1>3 DEF IInv, Flags, Apply
  <2>2. Types'
    BY <1>3 DEF IInv, Types, Apply
  <2> QED
    BY <1>3, <2>1, <2>2 DEF IInv, SavedMode, ActiveIsRunning, TerminatedIsStopped,
         WorkerKnows, JoinedIsExited, Apply
<1>4. CASE StopFlag
  <2>1. Flags'
    BY <1>4 DEF IInv, Flags, StopFlag
  <2>2. Types'
    BY <1>4 DEF IInv, Types, StopFlag
  <2> QED
    BY <1>4, <2>1, <2>2 DEF IInv, SavedMode, ActiveIsRunning, TerminatedIsStopped,
         WorkerKnows, JoinedIsExited, StopFlag
<1>5. CASE StopSession
  <2>1. Flags'
    BY <1>5 DEF IInv, Flags, StopSession
  <2>2. Types'
    BY <1>5 DEF IInv, Types, StopSession
  <2> QED
    BY <1>5, <2>1, <2>2 DEF IInv, SavedMode, ActiveIsRunning, TerminatedIsStopped,
         WorkerKnows, JoinedIsExited, StopSession
<1>6. CASE StartSession
  BY <1>6, StartSessionKeeps
<1>7. CASE HandleSanitizedConfig
  <2>1. running \in Jobs
    BY <1>7, CleanedIsJob DEF IInv, WorkerKnows, HandleSanitizedConfig
  <2>2. config' \in Settings /\ config'.mode = config.mode
    BY <1>7, <2>1 DEF IInv, Types, HandleSanitizedConfig, Settings, Jobs
  <2>3. Flags'
    BY <1>7 DEF IInv, Flags, HandleSanitizedConfig
  <2> QED
    BY <1>7, <2>2, <2>3 DEF IInv, Types, SavedMode, ActiveIsRunning, TerminatedIsStopped,
         WorkerKnows, JoinedIsExited, HandleSanitizedConfig
<1>8. CASE Activate
  <2>1. /\ active = job /\ running = [job EXCEPT !.text = Clean(@)] /\ running \in Jobs
    BY <1>8, CleanedIsJob DEF IInv, WorkerKnows, Activate
  <2>2. ActiveIsRunning'
    BY <1>8, <2>1, NoneIsNoMode DEF ActiveIsRunning, Activate
  <2>3. Flags'
    BY <1>8 DEF IInv, Flags, Activate
  <2> QED
    BY <1>8, <2>2, <2>3 DEF IInv, Types, SavedMode, TerminatedIsStopped, WorkerKnows,
         JoinedIsExited, Activate
<1>9. CASE ClearDirty
  <2>1. Flags'
    BY <1>9 DEF IInv, Flags, ClearDirty
  <2>2. Types'
    BY <1>9 DEF IInv, Types, ClearDirty
  <2> QED
    BY <1>9, <2>1, <2>2 DEF IInv, SavedMode, ActiveIsRunning, TerminatedIsStopped,
         WorkerKnows, JoinedIsExited, ClearDirty
<1> QED
  BY <1>1, <1>2, <1>3, <1>4, <1>5, <1>6, <1>7, <1>8, <1>9 DEF Worker

\* IInv holds in every reachable state.
THEOREM InvHolds == Spec => []IInv
<1>1. IInv /\ [Next]_vars => IInv'
  <2> SUFFICES ASSUME IInv, [Next]_vars PROVE IInv'
    OBVIOUS
  <2>1. CASE Next
    BY <2>1, AudioKeeps, ControlKeeps, WorkerKeeps DEF Next
  <2>2. CASE UNCHANGED vars
    BY <2>2 DEF vars, shared, session, IInv, Flags, Types, SavedMode, ActiveIsRunning,
         TerminatedIsStopped, WorkerKnows, JoinedIsExited
  <2> QED
    BY <2>1, <2>2
<1> QED
  BY InitInv, <1>1, PTL DEF Spec

\* Every variable of the processor's configuration keeps its type.
THEOREM TypesHold == Spec => []TypeOK
<1>1. IInv => TypeOK
  BY TypesAreTypeOK DEF IInv
<1> QED
  BY <1>1, InvHolds, PTL

\* getState saves the mode asked for last, wherever the worker is with the mailbox.
THEOREM LastModeIsSaved == Spec => []SavedMode
<1>1. IInv => SavedMode
  BY DEF IInv
<1> QED
  BY <1>1, InvHolds, PTL

\* The session in use runs what activeConfig_ records, so that a change skipped for
\* being equal to it is in force.
THEOREM RecordedIsRunning == Spec => []ActiveIsRunning
<1>1. IInv => ActiveIsRunning
  BY DEF IInv
<1> QED
  BY <1>1, InvHolds, PTL

\* After terminate() no session runs, whatever the worker was doing when it began.
THEOREM StoppedForGood == Spec => []TerminatedIsStopped
<1>1. IInv => TerminatedIsStopped
  BY DEF IInv
<1> QED
  BY <1>1, InvHolds, PTL
-----------------------------------------------------------------------------
(* At rest the session is the one that was configured: what SettlesDown    *)
(* rests on.                                                               *)

\* A change is announced once a flag says so or the control thread is about to.
Announced == pending \/ control # "idle"

\* What the worker would make a job of.
Configured == [mode |-> config.mode, text |-> config.text, format |-> format]
Using == hostActive /\ ready

\* What the worker is at, in case nothing was announced since it took its copy.
Following ==
  /\ worker = "wait" => Settled
  /\ worker = "halt" => ~Using
  /\ worker \in {"apply", "halting", "start", "sanitize"} => Using /\ job = Configured
  /\ worker \in {"activate", "started"} =>
       /\ Using
       /\ running = [mode |-> config.mode, text |-> Clean(config.text), format |-> format]
  /\ worker = "started" => sessionActive

\* stopSession is complete when the start begins.
Halted == worker = "start" => running = NoJob

Follows == Halted /\ (~Announced => Following)

\* What start() makes of a job.
LEMMA CleanedConfigured ==
  ASSUME IInv
  PROVE  /\ Configured \in Jobs
         /\ [Configured EXCEPT !.text = Clean(@)]
              = [mode |-> config.mode, text |-> Clean(config.text), format |-> format]
<1>1. Configured \in Jobs
  BY DEF IInv, Types, Configured, Settings, Jobs
<1>2. [Configured EXCEPT !.text = Clean(@)]
        = [mode |-> config.mode, text |-> Clean(config.text), format |-> format]
  BY DEF Configured
<1> QED
  BY <1>1, <1>2

LEMMA InitFollows == Init => Follows
BY DEF Init, Follows, Halted, Announced, Following, Settled

\* A change of the host is announced by the step that makes it, or by the next one
\* of the same thread; a block of audio only ever announces.
LEMMA HostFollows ==
  ASSUME IInv, Follows, Audio \/ Control
  PROVE  Follows'
<1> USE DEF shared, session
<1>1. Halted'
  BY DEF Follows, Halted, Audio, Control, ProcessAutomation, ProcessFlag, ProcessBlock, ProcessPoll,
         Replace, SetupProcessing, SetActive, RequestConfigApply, Terminate, TellWorker,
         JoinWorker, TerminateSession
<1>2. CASE Control
  <2>1. Announced'
    BY <1>2 DEF Control, Announced, Replace, SetupProcessing, SetActive, RequestConfigApply,
                Terminate, TellWorker, JoinWorker, TerminateSession
  <2> QED
    BY <1>1, <2>1 DEF Follows
<1>3. CASE Audio
  <2>1. /\ config' = config /\ format' = format /\ hostActive' = hostActive
        /\ sessionActive' = sessionActive /\ running' = running /\ failed' = failed
        /\ control' = control /\ worker' = worker /\ job' = job
    BY <1>3 DEF Audio, ProcessAutomation, ProcessFlag, ProcessBlock, ProcessPoll
  <2>2. ASSUME ~Announced'
        PROVE  ~Announced /\ ready' = ready
    <3>1. ready \in BOOLEAN /\ pending \in BOOLEAN
      BY DEF IInv, Flags
    <3>2. CASE ProcessReady
      BY <2>1, <2>2, <3>1, <3>2 DEF ProcessReady, Announced
    <3>3. CASE ready' = ready /\ (pending => pending')
      BY <2>1, <2>2, <3>3 DEF Announced
    <3>4. ProcessFlag \/ ProcessPoll => ready' = ready /\ (pending => pending')
      <4>1. ProcessFlag => ready' = ready /\ pending' = pending
        BY DEF ProcessFlag
      <4>2. ProcessPoll => ready' = ready
        BY DEF ProcessPoll
      <4>3. ProcessPoll => (pending => pending')
        BY <3>1 DEF ProcessPoll
      <4> QED
        BY <4>1, <4>2, <4>3, Zenon
    <3>5. ProcessBlock \/ (\E m \in Modes : ProcessAutomation(m)) => ProcessReady
      BY Zenon DEF ProcessBlock, ProcessAutomation
    <3> QED
      BY <1>3, <3>2, <3>3, <3>4, <3>5, Zenon DEF Audio
  <2>3. ASSUME ~Announced'
        PROVE  Following'
    BY <2>1, <2>2, <2>3 DEF Follows, Following, Settled, Using, Configured
  <2> QED
    BY <1>1, <2>3 DEF Follows
<1> QED
  BY <1>2, <1>3

\* The worker takes its copy in the section in which it takes the announcement, and
\* goes from there to a session that runs the copy, to none, or to one that does so.
LEMMA WorkerFollows ==
  ASSUME IInv, Follows, Worker
  PROVE  Follows'
<1> USE DEF shared, session
<1>0. Configured \in Jobs
  BY CleanedConfigured
<1>1. CASE WorkerExit
  BY <1>1 DEF WorkerExit, Follows, Halted, Announced
<1>2. CASE Snapshot
  <2>1. job' = Configured' /\ worker' = IF Using' THEN "apply" ELSE "halt"
    BY <1>2 DEF Snapshot, TakeMailbox, Configured, Using, IInv, Types, Settings
  <2> QED
    BY <2>1 DEF Follows, Halted, Following
<1>3. CASE Apply
  <2>1. Halted' /\ Announced' = Announced
    BY <1>3 DEF Apply, Halted, Announced
  <2>2. ASSUME ~Announced, sessionActive, Unchanged
        PROVE  Settled
    <3>1. Using /\ active = Configured
      BY <1>3, <2>2 DEF Apply, Follows, Following, Unchanged
    <3>2. running = [Configured EXCEPT !.text = Clean(@)]
      BY <2>2, <3>1 DEF IInv, ActiveIsRunning
    <3> QED
      BY <2>2, <3>1, <3>2, CleanedConfigured DEF Settled, Using
  <2>3. Settled' = Settled /\ Using' = Using /\ Configured' = Configured
    BY <1>3 DEF Apply, Settled, Using, Configured
  <2> QED
    BY <1>3, <2>1, <2>2, <2>3 DEF Apply, Follows, Following
<1>4. CASE StopFlag
  BY <1>4 DEF StopFlag, Follows, Halted, Announced, Following, Using, Configured
<1>5. CASE StopSession
  BY <1>5 DEF StopSession, Follows, Halted, Announced, Following, Using, Configured, Settled
<1>6. CASE StartSession
  <2>1. job \in Jobs /\ ~sessionActive
    BY <1>6 DEF StartSession, IInv, WorkerKnows
  <2>2. CASE running' = [job EXCEPT !.text = Clean(@)] /\ worker' \in {"activate", "sanitize"}
    <3>1. ASSUME ~Announced
          PROVE  /\ Using /\ job = Configured
                 /\ running' = [mode |-> config.mode, text |-> Clean(config.text), format |-> format]
      BY <1>6, <2>2, <3>1, CleanedConfigured DEF StartSession, Follows, Following
    <3> QED
      BY <1>6, <2>2, <3>1 DEF StartSession, Follows, Halted, Announced, Following, Using, Configured
  <2>3. CASE failed' = TRUE /\ worker' = "wait" /\ running' = running
    BY <1>6, <2>1, <2>3 DEF StartSession, Follows, Halted, Announced, Following, Using, Settled
  <2> QED
    BY <1>6, <2>2, <2>3 DEF StartSession
<1>7. CASE HandleSanitizedConfig
  <2>1. running = [job EXCEPT !.text = Clean(@)] /\ worker = "sanitize"
    BY <1>7 DEF HandleSanitizedConfig, IInv, WorkerKnows
  <2>2. ASSUME ~Announced
        PROVE  /\ Using
               /\ running = [mode |-> config.mode, text |-> Clean(config.text), format |-> format]
    BY <2>1, <2>2, CleanedConfigured DEF Follows, Following
  <2>3. ASSUME ~Announced
        PROVE  config' = [config EXCEPT !.text = Clean(config.text)]
    BY <1>7, <2>2, <2>3 DEF HandleSanitizedConfig
  <2>4. config \in Settings /\ Clean(Clean(config.text)) = Clean(config.text)
    BY TextAssumption DEF IInv, Types, Settings
  <2>5. ASSUME ~Announced
        PROVE  config'.mode = config.mode /\ Clean(config'.text) = Clean(config.text)
    BY <2>3, <2>4, <2>5 DEF Settings
  <2> QED
    BY <1>7, <2>2, <2>5 DEF HandleSanitizedConfig, Follows, Halted, Announced, Following, Using
<1>8. CASE Activate
  BY <1>8 DEF Activate, Follows, Halted, Announced, Following, Using
<1>9. CASE ClearDirty
  BY <1>9 DEF ClearDirty, Follows, Halted, Announced, Following, Using, Settled
<1> QED
  BY <1>1, <1>2, <1>3, <1>4, <1>5, <1>6, <1>7, <1>8, <1>9 DEF Worker

\* No change is lost and none is applied by halves: once the worker waits and nothing
\* is announced, the session runs exactly what is configured, cleaned, in the format
\* of the host; or its last start threw; or the host is not processing and none runs.
\* SettlesDown needs no more than that the threads come to rest.
RestIsSettled == worker = "wait" /\ ~pending /\ control = "idle" => Settled
THEOREM NoChangeIsLost == Spec => []RestIsSettled
<1>1. IInv /\ Follows /\ [Next]_vars => Follows'
  <2> SUFFICES ASSUME IInv, Follows, [Next]_vars PROVE Follows'
    OBVIOUS
  <2>1. CASE UNCHANGED vars
    BY <2>1 DEF vars, shared, session, Follows, Halted, Announced, Following, Using, Configured,
                Settled
  <2> QED
    BY <2>1, HostFollows, WorkerFollows DEF Next
<1>2. Follows => RestIsSettled
  BY DEF Follows, Announced, Following, RestIsSettled
<1> QED
  BY InitFollows, InvHolds, <1>1, <1>2, PTL DEF Spec
=============================================================================
