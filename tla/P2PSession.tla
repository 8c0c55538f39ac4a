----------------------------- MODULE P2PSession -----------------------------
(***************************************************************************)
(* Life of one remote play: a player view asks LibCoreWrap to play a       *)
(* device, P2PManager connects to it through the TUTK library on a worker  *)
(* block of the global concurrent queue, runs the receive loop on that     *)
(* block, and reports back to the view through recordFileQueue and the     *)
(* main queue.  Closing the view raises the closeConnection flag from      *)
(* streamQueue, and the receive loop is meant to see it.                   *)
(*                                                                         *)
(* Play number p is the p-th player view; block p is the worker block that *)
(* startRealPlay of that view dispatches.  A block runs concurrently with  *)
(* the other blocks, with streamQueue, with recordFileQueue and with the   *)
(* main thread; each of those three is serial.                             *)
(***************************************************************************)
EXTENDS Integers, Sequences, FiniteSets

CONSTANTS
    Devices,    (* the device ids a user can pick in the device list          *)
    NoDevice,   (* nil: the value of deviceID when P2PManager has no device   *)
    MaxPlays,   (* bound: how many player views are opened                    *)
    MaxQueue,   (* bound: blocks waiting in streamQueue when close is pressed *)
    Handles,    (* the session ids and channel ids the library hands out      *)
    Faults,     (* what may go wrong outside the app, a subset of AllFaults   *)
    Timing      (* timing assumptions in force, a subset of AllTiming         *)

AllFaults == {"init", "connect", "uid", "av", "ioctl", "remote"}

\* "main": blocks queued on the main thread when a view opens have run before
\*         the network answers the connection of that view.
\* "settled": by the time the user opens the next player, streamQueue has run
\*         what was queued on it and the blocks of earlier plays have returned.
AllTiming == {"main", "settled"}

ASSUME ConstantsAssumption ==
    /\ NoDevice \notin Devices
    /\ MaxPlays \in Nat
    /\ MaxQueue \in Nat
    /\ Handles \subseteq Nat
    /\ Faults \subseteq AllFaults
    /\ Timing \subseteq AllTiming

VARIABLES
    (* P2PManager's instance variables *)
    SID, avIndex, deviceID, closeConnection,
    (* LibCoreWrap *)
    currentDeviceId, streamQueue, recordFileQueue, streamObersvers,
    (* the player views and the main thread *)
    opened, top, isStopPlaying, playingFailed, alert, mainQueue,
    (* the worker blocks: program counter and captured values *)
    pc, dev, sid, arg,
    (* the TUTK library *)
    iotcUp, avUp, session, channel,
    (* history: the views whose close button has called stopRealPlay *)
    closePressed

manager == <<SID, avIndex, deviceID, closeConnection>>
wrap    == <<currentDeviceId, streamQueue, recordFileQueue, streamObersvers>>
view    == <<opened, top, isStopPlaying, playingFailed, alert, mainQueue>>
block   == <<pc, dev, sid, arg>>
library == <<iotcUp, avUp, session, channel>>
vars    == <<manager, wrap, view, block, library, closePressed>>

Plays   == 1 .. MaxPlays
Nobody  == 0           \* the owner of a free handle, and top without a player
Unset   == -2          \* SID and avIndex before the first connection (-999999)
Failed  == -1          \* any error code the library returns for a handle

\* What a block does next.
Blocks  == {"idle", "init", "connect", "avstart", "ioctl", "loop", "stopping",
            "deinit", "report", "forget", "fdeinit", "freport", "done"}

\* A block that holds, or is about to use, the library.
Live    == {"connect", "avstart", "ioctl", "loop", "stopping", "deinit", "fdeinit"}

StreamOps   == [kind : {"start", "connect", "stop"}, play : 0 .. MaxPlays]
Notices     == {"started", "stopped", "failed"}
MainBlocks  == [kind : {"register", "stopped", "failed", "unregister"},
                views : SUBSET Plays]

-----------------------------------------------------------------------------
(* The TUTK library, as its headers describe it to its callers.            *)

\* avSendIOCtrl and avRecvFrameData2 work on a channel whose session is open.
Usable(c) ==
    /\ avUp
    /\ c \in Handles
    /\ channel[c] # Nobody
    /\ \E h \in Handles : session[h] = channel[c]

SessionClose(h)  == session' = [g \in Handles |-> IF g = h THEN Nobody ELSE session[g]]
AvClientStop(c)  == channel' = [g \in Handles |-> IF g = c THEN Nobody ELSE channel[g]]

\* IOTC_DeInitialize closes every session; avDeInitialize stops every channel.
IotcDeInitialize == iotcUp' = FALSE /\ session' = [h \in Handles |-> Nobody]
AvDeInitialize   == avUp' = FALSE /\ channel' = [h \in Handles |-> Nobody]

-----------------------------------------------------------------------------
Init ==
    /\ SID = Unset /\ avIndex = Unset /\ deviceID = NoDevice
    /\ closeConnection = FALSE
    /\ currentDeviceId = NoDevice
    /\ streamQueue = <<>> /\ recordFileQueue = <<>>
    /\ streamObersvers = {}
    /\ opened = 0 /\ top = Nobody /\ alert = {} /\ mainQueue = <<>>
    /\ isStopPlaying = [p \in Plays |-> TRUE]
    /\ playingFailed = [p \in Plays |-> FALSE]
    /\ pc = [p \in Plays |-> "idle"]
    /\ dev = [p \in Plays |-> NoDevice]
    /\ sid = [p \in Plays |-> Unset]
    /\ arg = [p \in Plays |-> Unset]
    /\ iotcUp = FALSE /\ avUp = FALSE
    /\ session = [h \in Handles |-> Nobody]
    /\ channel = [h \in Handles |-> Nobody]
    /\ closePressed = {}

-----------------------------------------------------------------------------
(* The main thread: the user, and the blocks of the main queue.            *)

\* The device list pushes a PlayViewController; its viewDidLoad registers it
\* as stream observer (a block on the main queue) and calls startRealPlay.
OpenPlayer(d) ==
    /\ top = Nobody
    /\ opened < MaxPlays
    /\ "settled" \in Timing =>
          streamQueue = <<>> /\ \A p \in Plays : pc[p] # "forget"
    /\ opened' = opened + 1
    /\ top' = opened + 1
    /\ mainQueue' = Append(mainQueue, [kind |-> "register", views |-> {opened + 1}])
    /\ currentDeviceId' = d
    /\ streamQueue' = Append(streamQueue, [kind |-> "start", play |-> opened + 1])
    /\ UNCHANGED <<manager, recordFileQueue, streamObersvers, isStopPlaying,
                   playingFailed, alert, block, library, closePressed>>

\* closeButton_TouchUpInside after the failure alert was read: leave the view.
CloseFailed ==
    /\ top # Nobody /\ top \notin alert
    /\ playingFailed[top]
    /\ top' = Nobody
    /\ UNCHANGED <<manager, wrap, opened, isStopPlaying, playingFailed, alert,
                   mainQueue, block, library, closePressed>>

\* Mutant of PressClose: the view goes away without waiting for the notice.
PressCloseAndLeave ==
    /\ top # Nobody /\ top \notin alert
    /\ ~playingFailed[top]
    /\ Len(streamQueue) < MaxQueue
    /\ streamQueue' = Append(streamQueue, [kind |-> "stop", play |-> top])
    /\ closePressed' = closePressed \cup {top}
    /\ top' = Nobody
    /\ UNCHANGED <<manager, currentDeviceId, recordFileQueue, streamObersvers,
                   opened, isStopPlaying, playingFailed, alert, mainQueue,
                   block, library>>

\* closeButton_TouchUpInside otherwise: stopRealPlay.  Its dispatch_group_wait
\* of 3.0 nanoseconds waits for nothing, so the call returns at once.
PressClose ==
    /\ top # Nobody /\ top \notin alert
    /\ ~playingFailed[top]
    /\ Len(streamQueue) < MaxQueue
    /\ streamQueue' = Append(streamQueue, [kind |-> "stop", play |-> top])
    /\ closePressed' = closePressed \cup {top}
    /\ UNCHANGED <<manager, currentDeviceId, recordFileQueue, streamObersvers,
                   view, block, library>>

\* The user reads the alert; only then is playingFailed set.
DismissAlert(p) ==
    /\ p \in alert
    /\ alert' = alert \ {p}
    /\ playingFailed' = [playingFailed EXCEPT ![p] = TRUE]
    /\ UNCHANGED <<manager, wrap, opened, top, isStopPlaying, mainQueue, block,
                   library, closePressed>>

MainHead(kind) == mainQueue # <<>> /\ Head(mainQueue).kind = kind

MainRegister ==
    /\ MainHead("register")
    /\ streamObersvers' = streamObersvers \cup Head(mainQueue).views
    /\ mainQueue' = Tail(mainQueue)
    /\ UNCHANGED <<manager, currentDeviceId, streamQueue, recordFileQueue, opened,
                   top, isStopPlaying, playingFailed, alert, block, library,
                   closePressed>>

MainUnregister ==
    /\ MainHead("unregister")
    /\ streamObersvers' = streamObersvers \ Head(mainQueue).views
    /\ mainQueue' = Tail(mainQueue)
    /\ UNCHANGED <<manager, currentDeviceId, streamQueue, recordFileQueue, opened,
                   top, isStopPlaying, playingFailed, alert, block, library,
                   closePressed>>

\* didStopPlayWithDeviceID, its main-queue half: unregister (queued again on
\* the main queue) and pop the view if it is the one on screen.
MainStopped ==
    /\ MainHead("stopped")
    /\ top' = IF top \in Head(mainQueue).views THEN Nobody ELSE top
    /\ mainQueue' = Append(Tail(mainQueue),
                           [kind |-> "unregister", views |-> Head(mainQueue).views])
    /\ UNCHANGED <<manager, wrap, opened, isStopPlaying, playingFailed, alert,
                   block, library, closePressed>>

\* didFailedPlayWithDeviceID, its main-queue half: show the alert.
MainFailed ==
    /\ MainHead("failed")
    /\ alert' = alert \cup Head(mainQueue).views
    /\ mainQueue' = Tail(mainQueue)
    /\ UNCHANGED <<manager, wrap, opened, top, isStopPlaying, playingFailed,
                   block, library, closePressed>>

-----------------------------------------------------------------------------
(* recordFileQueue: a notice is delivered to every registered view.        *)

RecordHead(notice) == recordFileQueue # <<>> /\ Head(recordFileQueue) = notice

RecordStarted ==
    /\ RecordHead("started")
    /\ recordFileQueue' = Tail(recordFileQueue)
    /\ isStopPlaying' = [p \in Plays |-> isStopPlaying[p] /\ p \notin streamObersvers]
    /\ UNCHANGED <<manager, currentDeviceId, streamQueue, streamObersvers, opened,
                   top, playingFailed, alert, mainQueue, block, library,
                   closePressed>>

\* "stopped" and "failed": the view notes it and queues its main-thread half.
RecordEnded(notice) ==
    /\ notice \in {"stopped", "failed"}
    /\ RecordHead(notice)
    /\ recordFileQueue' = Tail(recordFileQueue)
    /\ isStopPlaying' = [p \in Plays |-> isStopPlaying[p] \/ p \in streamObersvers]
    /\ mainQueue' = IF streamObersvers = {} THEN mainQueue
                    ELSE Append(mainQueue, [kind |-> notice, views |-> streamObersvers])
    /\ UNCHANGED <<manager, currentDeviceId, streamQueue, streamObersvers, opened,
                   top, playingFailed, alert, block, library, closePressed>>

-----------------------------------------------------------------------------
(* streamQueue.                                                            *)

StreamHead(kind) == streamQueue # <<>> /\ Head(streamQueue).kind = kind

\* The block of startRealPlay calls connectWithDevice, which queues a second
\* block behind whatever is already in streamQueue.
StreamStart ==
    /\ StreamHead("start")
    /\ streamQueue' = Append(Tail(streamQueue),
                             [kind |-> "connect", play |-> Head(streamQueue).play])
    /\ UNCHANGED <<manager, currentDeviceId, recordFileQueue, streamObersvers,
                   view, block, library, closePressed>>

\* That block hands checkConnectTypeWithDeviceID to the concurrent queue.
StreamConnect ==
    /\ StreamHead("connect")
    /\ LET p == Head(streamQueue).play
       IN  /\ pc'  = [pc  EXCEPT ![p] = "init"]
           /\ dev' = [dev EXCEPT ![p] = currentDeviceId]
    /\ streamQueue' = Tail(streamQueue)
    /\ UNCHANGED <<manager, currentDeviceId, recordFileQueue, streamObersvers,
                   view, sid, arg, library, closePressed>>

\* Mutant of StreamStop: the test of the flag is inverted, so it is never set.
StreamStopInverted ==
    /\ StreamHead("stop")
    /\ streamQueue' = Tail(streamQueue)
    /\ UNCHANGED <<manager, currentDeviceId, recordFileQueue, streamObersvers,
                   view, block, library, closePressed>>

\* P2PManager's closeConnection: ignored until a session, a channel and a
\* device have been seen.
StreamStop ==
    /\ StreamHead("stop")
    /\ closeConnection' = \/ closeConnection
                          \/ SID # Unset /\ avIndex # Unset /\ deviceID # NoDevice
    /\ streamQueue' = Tail(streamQueue)
    /\ UNCHANGED <<SID, avIndex, deviceID, currentDeviceId, recordFileQueue,
                   streamObersvers, view, block, library, closePressed>>

-----------------------------------------------------------------------------
(* Block p on the concurrent queue.                                        *)

At(p, where)   == pc[p] = where
Goto(p, where) == pc' = [pc EXCEPT ![p] = where]

\* LibCoreWrap forwards a report only if it names the current device.
Report(notice) ==
    recordFileQueue' = IF deviceID = currentDeviceId
                       THEN Append(recordFileQueue, notice)
                       ELSE recordFileQueue

\* checkConnectTypeWithDeviceID up to avInitialize.
Initialize(p) ==
    /\ At(p, "init")
    /\ deviceID' = dev[p]
    /\ ~iotcUp
    /\ iotcUp' = TRUE /\ avUp' = TRUE
    /\ Goto(p, "connect")
    /\ UNCHANGED <<SID, avIndex, closeConnection, wrap, view, dev, sid, arg,
                   session, channel, closePressed>>

\* IOTC_Initialize fails (it also does when the module is up already): the
\* module is shut down and the block returns without telling anybody.
InitializeFails(p) ==
    /\ At(p, "init")
    /\ iotcUp \/ "init" \in Faults
    /\ deviceID' = dev[p]
    /\ IotcDeInitialize
    /\ Goto(p, "done")
    /\ UNCHANGED <<SID, avIndex, closeConnection, wrap, view, dev, sid, arg,
                   avUp, channel, closePressed>>

NetworkMayAnswer ==
    "main" \in Timing =>
        \A i \in 1 .. Len(mainQueue) : mainQueue[i].kind # "register"

\* Mutant of Connect: the session id is kept in a local variable only.
ConnectKeepsSidLocal(p) ==
    /\ At(p, "connect")
    /\ NetworkMayAnswer
    /\ iotcUp
    /\ \E h \in Handles :
          /\ session[h] = Nobody
          /\ session' = [session EXCEPT ![h] = p]
          /\ sid' = [sid EXCEPT ![p] = h]
    /\ \/ dev[p] = currentDeviceId /\ Goto(p, "avstart")
       \/ (dev[p] # currentDeviceId \/ "uid" \in Faults) /\ Goto(p, "done")
    /\ UNCHANGED <<manager, wrap, view, dev, arg, iotcUp, avUp, channel,
                   closePressed>>

\* IOTC_Connect_ByUID and IOTC_Session_Check succeed; LibCoreWrap goes on with
\* startWithSID if the library's UID is the device it is asked to play.
Connect(p) ==
    /\ At(p, "connect")
    /\ NetworkMayAnswer
    /\ iotcUp
    /\ \E h \in Handles :
          /\ session[h] = Nobody
          /\ session' = [session EXCEPT ![h] = p]
          /\ SID' = h
          /\ sid' = [sid EXCEPT ![p] = h]
    /\ \/ dev[p] = currentDeviceId /\ Goto(p, "avstart")
       \/ (dev[p] # currentDeviceId \/ "uid" \in Faults) /\ Goto(p, "done")
    /\ UNCHANGED <<avIndex, deviceID, closeConnection, wrap, view, dev, arg,
                   iotcUp, avUp, channel, closePressed>>

\* Mutant of ConnectFails: the error code goes on to the caller as a session id.
ConnectFailsPassesError(p) ==
    /\ At(p, "connect")
    /\ NetworkMayAnswer
    /\ \/ "connect" \in Faults
       \/ ~iotcUp
       \/ \A h \in Handles : session[h] # Nobody
    /\ SID' = Failed
    /\ sid' = [sid EXCEPT ![p] = Failed]
    /\ Goto(p, "fdeinit")
    /\ UNCHANGED <<avIndex, deviceID, closeConnection, wrap, view, dev, arg,
                   library, closePressed>>

\* Either call fails; the session, if there was one, is closed again.
ConnectFails(p) ==
    /\ At(p, "connect")
    /\ NetworkMayAnswer
    /\ \/ "connect" \in Faults
       \/ ~iotcUp
       \/ \A h \in Handles : session[h] # Nobody
    /\ SID' = Failed
    /\ Goto(p, "fdeinit")
    /\ UNCHANGED <<avIndex, deviceID, closeConnection, wrap, view, dev, sid, arg,
                   library, closePressed>>

\* startWithSID: avClientStart on the session of the instance variable.
AvClientStart(p) ==
    /\ At(p, "avstart")
    /\ avUp
    /\ SID \in Handles /\ session[SID] # Nobody
    /\ \E c \in Handles :
          /\ channel[c] = Nobody
          /\ channel' = [channel EXCEPT ![c] = session[SID]]
          /\ avIndex' = c
    /\ Goto(p, "ioctl")
    /\ UNCHANGED <<SID, deviceID, closeConnection, wrap, view, dev, sid, arg,
                   iotcUp, avUp, session, closePressed>>

AvClientStartFails(p) ==
    /\ At(p, "avstart")
    /\ \/ "av" \in Faults
       \/ ~avUp
       \/ SID \notin Handles
       \/ SID \in Handles /\ session[SID] = Nobody
       \/ \A c \in Handles : channel[c] # Nobody
    /\ avIndex' = Failed
    /\ SessionClose(sid[p])
    /\ Goto(p, "fdeinit")
    /\ UNCHANGED <<SID, deviceID, closeConnection, wrap, view, dev, sid, arg,
                   iotcUp, avUp, channel, closePressed>>

\* start_ipcam_stream: the controls that start video and audio succeed, and
\* getMediaInfo reports the start.  (The fourth control may fail: the code
\* then returns -1, which its caller takes for success.)
StartStream(p) ==
    /\ At(p, "ioctl")
    /\ Usable(avIndex)
    /\ arg' = [arg EXCEPT ![p] = avIndex]
    /\ Report("started")
    /\ Goto(p, "loop")
    /\ UNCHANGED <<manager, currentDeviceId, streamQueue, streamObersvers, view,
                   dev, sid, library, closePressed>>

\* Mutant of StartStreamFails: reports without closing anything.
StartStreamFailsLeavesUp(p) ==
    /\ At(p, "ioctl")
    /\ ~Usable(avIndex) \/ "ioctl" \in Faults
    /\ Goto(p, "freport")
    /\ UNCHANGED <<manager, wrap, view, dev, sid, arg, library, closePressed>>

\* One of the first three controls fails.
StartStreamFails(p) ==
    /\ At(p, "ioctl")
    /\ ~Usable(avIndex) \/ "ioctl" \in Faults
    /\ AvClientStop(avIndex)
    /\ SessionClose(SID)
    /\ Goto(p, "fdeinit")
    /\ UNCHANGED <<manager, wrap, view, dev, sid, arg, iotcUp, avUp, closePressed>>

\* getMediaInfo's loop condition.  A frame, a lost frame or one that is not
\* ready changes nothing here.
LoopSeesClose(p) ==
    /\ At(p, "loop")
    /\ closeConnection
    /\ Goto(p, "stopping")
    /\ UNCHANGED <<manager, wrap, view, dev, sid, arg, library, closePressed>>

\* Mutant of LoopLosesPeer: returns where the code breaks out of the loop.
LoopLosesPeerReturns(p) ==
    /\ At(p, "loop")
    /\ "remote" \in Faults
    /\ Usable(avIndex)
    /\ Goto(p, "done")
    /\ UNCHANGED <<manager, wrap, view, dev, sid, arg, library, closePressed>>

\* The remote side closed the session or timed out: the loop breaks.  Any
\* other error code leaves it running.
LoopLosesPeer(p) ==
    /\ At(p, "loop")
    /\ "remote" \in Faults
    /\ Usable(avIndex)
    /\ Goto(p, "stopping")
    /\ UNCHANGED <<manager, wrap, view, dev, sid, arg, library, closePressed>>

\* Mutant of StopStream: reports the end before the library is shut down.
StopStreamReportsFirst(p) ==
    /\ At(p, "stopping")
    /\ AvClientStop(arg[p])
    /\ SessionClose(SID)
    /\ Goto(p, "report")
    /\ UNCHANGED <<manager, wrap, view, dev, sid, arg, iotcUp, avUp, closePressed>>

\* After the loop: stop the block's own channel, and the session of the
\* instance variable.
StopStream(p) ==
    /\ At(p, "stopping")
    /\ AvClientStop(arg[p])
    /\ SessionClose(SID)
    /\ Goto(p, "deinit")
    /\ UNCHANGED <<manager, wrap, view, dev, sid, arg, iotcUp, avUp, closePressed>>

\* avDeInitialize and IOTC_DeInitialize, on every path that gives up.
DeInitialize(p) ==
    /\ \/ At(p, "deinit")  /\ Goto(p, "report")
       \/ At(p, "fdeinit") /\ Goto(p, "freport")
    /\ AvDeInitialize
    /\ IotcDeInitialize
    /\ UNCHANGED <<manager, wrap, view, dev, sid, arg, closePressed>>

\* Mutant of ReportStop: deviceID is forgotten first, so the report names nobody
\* and LibCoreWrap drops it.
ReportStopTooLate(p) ==
    /\ At(p, "report")
    /\ closeConnection' = FALSE
    /\ deviceID' = NoDevice
    /\ Goto(p, "forget")
    /\ UNCHANGED <<SID, avIndex, wrap, view, dev, sid, arg, library, closePressed>>

ReportStop(p) ==
    /\ At(p, "report")
    /\ closeConnection' = FALSE
    /\ Report("stopped")
    /\ Goto(p, "forget")
    /\ UNCHANGED <<SID, avIndex, deviceID, currentDeviceId, streamQueue,
                   streamObersvers, view, dev, sid, arg, library, closePressed>>

Forget(p) ==
    /\ At(p, "forget")
    /\ deviceID' = NoDevice
    /\ Goto(p, "done")
    /\ UNCHANGED <<SID, avIndex, closeConnection, wrap, view, dev, sid, arg,
                   library, closePressed>>

\* Mutant of ReportFailure: start_ipcam_stream returns 1 also after a failure,
\* and the block goes on to the receive loop.
ReportFailureAndReceive(p) ==
    /\ At(p, "freport")
    /\ closeConnection' = FALSE
    /\ Report("failed")
    /\ Goto(p, "loop")
    /\ UNCHANGED <<SID, avIndex, deviceID, currentDeviceId, streamQueue,
                   streamObersvers, view, dev, sid, arg, library, closePressed>>

ReportFailure(p) ==
    /\ At(p, "freport")
    /\ closeConnection' = FALSE
    /\ Report("failed")
    /\ Goto(p, "done")
    /\ UNCHANGED <<SID, avIndex, deviceID, currentDeviceId, streamQueue,
                   streamObersvers, view, dev, sid, arg, library, closePressed>>

-----------------------------------------------------------------------------
User ==
    \/ \E d \in Devices : OpenPlayer(d)
    \/ CloseFailed \/ PressClose
    \/ \E p \in Plays : DismissAlert(p)

MainThread == MainRegister \/ MainUnregister \/ MainStopped \/ MainFailed

RecordFileQueue == RecordStarted \/ \E n \in {"stopped", "failed"} : RecordEnded(n)

StreamQueue == StreamStart \/ StreamConnect \/ StreamStop

Block(p) ==
    \/ Initialize(p) \/ InitializeFails(p)
    \/ Connect(p) \/ ConnectFails(p)
    \/ AvClientStart(p) \/ AvClientStartFails(p)
    \/ StartStream(p) \/ StartStreamFails(p)
    \/ LoopSeesClose(p) \/ LoopLosesPeer(p)
    \/ StopStream(p) \/ DeInitialize(p)
    \/ ReportStop(p) \/ Forget(p) \/ ReportFailure(p)

Next ==
    \/ User \/ MainThread \/ RecordFileQueue \/ StreamQueue
    \/ \E p \in Plays : Block(p)

Spec == Init /\ [][Next]_vars

\* The dispatch queues run what is queued on them and every block of the
\* concurrent queue gets a thread.  Nothing is assumed of the user, nor that
\* a device ever drops a healthy session.
BlockProgress(p) == (At(p, "loop") => closeConnection) /\ Block(p)

Fairness ==
    /\ WF_vars(MainThread) /\ WF_vars(RecordFileQueue) /\ WF_vars(StreamQueue)
    /\ \A p \in Plays : WF_vars(BlockProgress(p))

FairSpec == Spec /\ Fairness

-----------------------------------------------------------------------------
(* Properties.                                                             *)

\* The type invariant.
TypeOK ==
    /\ SID \in Handles \cup {Unset, Failed}
    /\ avIndex \in Handles \cup {Unset, Failed}
    /\ deviceID \in Devices \cup {NoDevice}
    /\ closeConnection \in BOOLEAN
    /\ currentDeviceId \in Devices \cup {NoDevice}
    /\ streamQueue \in Seq(StreamOps)
    /\ recordFileQueue \in Seq(Notices)
    /\ streamObersvers \in SUBSET Plays
    /\ opened \in 0 .. MaxPlays
    /\ top \in 0 .. opened
    /\ isStopPlaying \in [Plays -> BOOLEAN]
    /\ playingFailed \in [Plays -> BOOLEAN]
    /\ alert \in SUBSET Plays
    /\ mainQueue \in Seq(MainBlocks)
    /\ pc \in [Plays -> Blocks]
    /\ dev \in [Plays -> Devices \cup {NoDevice}]
    /\ sid \in [Plays -> Handles \cup {Unset}]
    /\ arg \in [Plays -> Handles \cup {Unset, Failed}]
    /\ iotcUp \in BOOLEAN /\ avUp \in BOOLEAN
    /\ session \in [Handles -> 0 .. MaxPlays]
    /\ channel \in [Handles -> 0 .. MaxPlays]
    /\ closePressed \in SUBSET Plays

\* P2PManager keeps one SID, one avIndex and one close flag for all blocks, on
\* a concurrent queue: that only works if no two blocks use the library at the
\* same time.  Nothing in P2PManager enforces it; the player view does, by
\* staying on screen until the block is done with the library.
OnePlayAtATime ==
    \A p, q \in Plays : pc[p] \in Live /\ pc[q] \in Live => p = q

\* A user who is back at the device list, or has read the failure alert, left
\* nothing behind: the library is down and no session or channel is open.
NothingLeftBehind ==
    (top = Nobody \/ playingFailed[top]) =>
        /\ ~iotcUp /\ ~avUp
        /\ \A h \in Handles : session[h] = Nobody /\ channel[h] = Nobody

\* A block calls the library only between the library's initialization and its
\* shutdown ("shall be called before any IOTC module related function is
\* invoked", IOTCAPIs.h), whoever shuts it down.
CallsOnLiveLibrary ==
    \A p \in Plays : pc[p] \in Live => iotcUp /\ avUp

\* What a block reaches through the shared SID and avIndex is its own: the
\* session and the channel it opened, and the channel it receives from is the
\* one it will stop.
TearsDownItsOwn ==
    \A p \in Plays :
        /\ pc[p] \in {"avstart", "ioctl", "loop", "stopping"} =>
              SID \in Handles /\ session[SID] = p
        /\ pc[p] \in {"ioctl", "loop", "stopping"} =>
              avIndex \in Handles /\ channel[avIndex] = p
        /\ pc[p] \in {"loop", "stopping"} => arg[p] = avIndex

\* A view that believes the stream is running is right, or the notice that
\* the stream has ended is on its way to it.
ViewKnowsStreamEnded ==
    top # Nobody /\ ~isStopPlaying[top] =>
        \/ \E p \in Plays : pc[p] \in {"loop", "stopping", "deinit", "report"}
        \/ \E i \in 1 .. Len(recordFileQueue) :
              recordFileQueue[i] \in {"stopped", "failed"}

\* A block that has given up or ended reaches its view, which closes or tells
\* the user.
EndReachesView ==
    \A p \in Plays :
        pc[p] \in {"report", "freport"} ~>
            (top # p \/ p \in alert \/ playingFailed[p])

\* Nobody can press close forever: a user who keeps pressing gets out of the
\* view, whatever the network does.
CloseEventuallyWorks == <>[][~PressClose]_vars

\* stopRealPlay is documented to "stop real-time streaming and release
\* connection" (LibCoreWrap.h): once it has been called for a view, the block
\* of that view comes to an end.
StopReleasesConnection ==
    \A p \in Plays : p \in closePressed ~> pc[p] = "done"

\* stopRealPlay stops the play it is called for: a receive loop that ends
\* because of the close flag belongs to a view whose close button was pressed.
StopEndsOnlyItsOwnPlay ==
    [][\A p \in Plays : LoopSeesClose(p) => p \in closePressed]_vars

-----------------------------------------------------------------------------
(* The inductive invariant behind the safety properties.  The play that    *)
(* matters is the last one opened; the earlier ones are over.              *)

StartOp(i) == streamQueue[i].kind \in {"start", "connect"}
EndNotice(i) == recordFileQueue[i] \in {"stopped", "failed"}
EndBlock(i, p) == mainQueue[i].kind \in {"stopped", "failed"} /\ p \in mainQueue[i].views

Down ==
    /\ ~iotcUp /\ ~avUp
    /\ \A h \in Handles : session[h] = Nobody /\ channel[h] = Nobody

\* The view of play p has the news that p has ended, or has acted on it.
Told(p) ==
    \/ \E i \in 1 .. Len(mainQueue) : EndBlock(i, p)
    \/ p \in alert
    \/ playingFailed[p]
    \/ top # p

Over(p) == pc[p] \in {"forget", "done"}

\* Only the last play can be under way, and views unknown yet are untouched.
LastPlayOnly ==
    /\ \A p \in Plays : p < opened => Over(p)
    /\ \A p \in Plays : p > opened => pc[p] = "idle" /\ ~playingFailed[p]
    /\ top \in {Nobody, opened}
    /\ streamObersvers \subseteq 1 .. opened
    /\ alert \subseteq 1 .. opened
    /\ \A i \in 1 .. Len(mainQueue) : mainQueue[i].views \subseteq 1 .. opened

\* At most one block of streamQueue will start a worker block, for a view that
\* is still waiting for it.
OneStartPending ==
    \A i \in 1 .. Len(streamQueue) : StartOp(i) =>
        /\ streamQueue[i].play = opened
        /\ opened # 0 /\ pc[opened] = "idle"
        /\ \A j \in 1 .. Len(streamQueue) : StartOp(j) => i = j

\* At most one notice of an end is under way to the views, and while it is on
\* recordFileQueue the view knows nothing of it.
OneEndNotice ==
    \A i \in 1 .. Len(recordFileQueue) : EndNotice(i) =>
        /\ opened # 0 /\ Over(opened) /\ Down /\ ~Told(opened)
        /\ \A j \in 1 .. Len(recordFileQueue) : EndNotice(j) => i = j

\* A view that was told is told the truth: its block has left the library.
ToldIsOver == opened # 0 /\ Told(opened) => Over(opened) /\ Down

\* No end is lost between the queues: when the block of a play is over, the
\* notice is still on its way to the view, or the view has it.  It could be
\* dropped for naming a device LibCoreWrap no longer asks for, or be delivered
\* before the view is registered (LibCoreWrap.m 550-559).
EndIsNotLost ==
    \A p \in Plays : Over(p) =>
        Told(p) \/ \E i \in 1 .. Len(recordFileQueue) : EndNotice(i)

LibraryFollowsBlock ==
    /\ opened = 0 => Down
    /\ \A p \in Plays : pc[p] \in Live => iotcUp /\ avUp
    /\ opened # 0 /\ pc[opened] \in {"idle", "init", "report", "freport"} => Down

IInv ==
    /\ TypeOK
    /\ LastPlayOnly
    /\ OneStartPending
    /\ OneEndNotice
    /\ ToldIsOver
    /\ LibraryFollowsBlock

=============================================================================
