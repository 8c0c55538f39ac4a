-------------------------- MODULE P2PStreamChange --------------------------
(* P2PSession with the quality menu.  Choosing a quality queues a block on *)
(* streamQueue, which hands start_ipcam_stream to the concurrent queue:    *)
(* the change runs beside the receive loop, on the same instance           *)
(* variables, and when a control fails it takes the library down as the    *)
(* block of the play would, without the loop being asked.                  *)
EXTENDS P2PSession

CONSTANT MaxChanges     \* bound: how often a quality is chosen

ASSUME ChangesAssumption == MaxChanges \in Nat

VARIABLES
    chosen,     (* how often a quality has been chosen                       *)
    cpc,        (* what each change does next                                *)
    cindex      (* the avIndex a change read when its block began            *)

change     == <<chosen, cpc, cindex>>
changeVars == <<vars, change>>

Changes      == 1 .. MaxChanges
ChangeStates == {"idle", "begin", "set", "ioctl", "deinit", "report", "done"}

ChangeInit ==
    /\ Init
    /\ chosen = 0
    /\ cpc = [c \in Changes |-> "idle"]
    /\ cindex = [c \in Changes |-> Unset]

\* The player view passes the quality on whatever the state of its play.
ChooseQuality ==
    /\ top # Nobody /\ top \notin alert
    /\ chosen < MaxChanges
    /\ chosen' = chosen + 1
    /\ streamQueue' = Append(streamQueue, [kind |-> "change", play |-> top])
    /\ UNCHANGED <<manager, currentDeviceId, recordFileQueue, streamObersvers,
                   view, block, library, closePressed, cpc, cindex>>

\* startIpcamStream hands a block to the concurrent queue.
StreamChange ==
    /\ StreamHead("change")
    /\ streamQueue' = Tail(streamQueue)
    /\ LET c == CHOOSE i \in Changes :
                    cpc[i] = "idle" /\ \A j \in Changes : cpc[j] = "idle" => i <= j
       IN  cpc' = [cpc EXCEPT ![c] = "begin"]
    /\ UNCHANGED <<manager, currentDeviceId, recordFileQueue, streamObersvers,
                   view, block, library, closePressed, chosen, cindex>>

CAt(c, where)   == cpc[c] = where
CGoto(c, where) == cpc' = [cpc EXCEPT ![c] = where]

\* The block reads avIndex ...
ChangeBegins(c) ==
    /\ CAt(c, "begin")
    /\ cindex' = [cindex EXCEPT ![c] = avIndex]
    /\ CGoto(c, "set")
    /\ UNCHANGED <<vars, chosen>>

\* Mutant of ChangeSetsIndex: the block uses the parameter of startIpcamStream,
\* which is the number of the camera's channel and no handle of the library.
ChangeSetsChannelNumber(c) ==
    /\ CAt(c, "set")
    /\ avIndex' = 99
    /\ CGoto(c, "ioctl")
    /\ UNCHANGED <<SID, deviceID, closeConnection, wrap, view, block, library,
                   closePressed, chosen, cindex>>

\* ... and start_ipcam_stream writes it back.
ChangeSetsIndex(c) ==
    /\ CAt(c, "set")
    /\ avIndex' = cindex[c]
    /\ CGoto(c, "ioctl")
    /\ UNCHANGED <<SID, deviceID, closeConnection, wrap, view, block, library,
                   closePressed, chosen, cindex>>

ChangeSucceeds(c) ==
    /\ CAt(c, "ioctl")
    /\ Usable(avIndex)
    /\ CGoto(c, "done")
    /\ UNCHANGED <<vars, chosen, cindex>>

\* A control fails, as it does when the channel is gone.
ChangeFails(c) ==
    /\ CAt(c, "ioctl")
    /\ ~Usable(avIndex) \/ "ioctl" \in Faults
    /\ AvClientStop(avIndex)
    /\ SessionClose(SID)
    /\ CGoto(c, "deinit")
    /\ UNCHANGED <<manager, wrap, view, block, iotcUp, avUp, closePressed,
                   chosen, cindex>>

ChangeDeInitializes(c) ==
    /\ CAt(c, "deinit")
    /\ AvDeInitialize
    /\ IotcDeInitialize
    /\ CGoto(c, "report")
    /\ UNCHANGED <<manager, wrap, view, block, closePressed, chosen, cindex>>

\* Mutant of ChangeReportsFailure: the change gives up without a word.
ChangeReportsNobody(c) ==
    /\ CAt(c, "report")
    /\ closeConnection' = FALSE
    /\ CGoto(c, "done")
    /\ UNCHANGED <<SID, avIndex, deviceID, wrap, view, block, library,
                   closePressed, chosen, cindex>>

ChangeReportsFailure(c) ==
    /\ CAt(c, "report")
    /\ closeConnection' = FALSE
    /\ Report("failed")
    /\ CGoto(c, "done")
    /\ UNCHANGED <<SID, avIndex, deviceID, currentDeviceId, streamQueue,
                   streamObersvers, view, block, library, closePressed,
                   chosen, cindex>>

Change(c) ==
    \/ ChangeBegins(c) \/ ChangeSetsIndex(c)
    \/ ChangeSucceeds(c) \/ ChangeFails(c)
    \/ ChangeDeInitializes(c) \/ ChangeReportsFailure(c)

\* A step of the play session itself leaves the changes alone.
PlayStep == Next /\ UNCHANGED change

ChangeNext ==
    \/ PlayStep
    \/ ChooseQuality \/ StreamChange
    \/ \E c \in Changes : Change(c)

ChangeSpec == ChangeInit /\ [][ChangeNext]_changeVars

\* The fairness of P2PSession, with the changes on their queues.
ChangeFairSpec ==
    /\ ChangeSpec
    /\ WF_changeVars(MainThread /\ UNCHANGED change)
    /\ WF_changeVars(RecordFileQueue /\ UNCHANGED change)
    /\ WF_changeVars((StreamQueue /\ UNCHANGED change) \/ StreamChange)
    /\ \A p \in Plays : WF_changeVars(BlockProgress(p) /\ UNCHANGED change)
    /\ \A c \in Changes : WF_changeVars(Change(c))

-----------------------------------------------------------------------------
(* Properties.                                                             *)

\* The type invariant of what the changes add.
ChangeTypeOK ==
    /\ streamQueue \in Seq([kind : {"start", "connect", "stop", "change"},
                            play : 0 .. MaxPlays])
    /\ avIndex \in Handles \cup {Unset, Failed}
    /\ chosen \in 0 .. MaxChanges
    /\ cpc \in [Changes -> ChangeStates]
    /\ cindex \in [Changes -> Handles \cup {Unset, Failed}]

\* A change that takes the library down from under the receive loop at least
\* says so: the view on screen is told, or is gone.
FailedChangeReachesView ==
    \A c \in Changes, p \in Plays :
        cpc[c] = "deinit" /\ top = p /\ p \in streamObersvers /\ pc[p] = "loop"
            ~> (top # p \/ p \in alert \/ playingFailed[p])

\* With the changes too, a user who keeps pressing close gets out of the view.
CloseEventuallyWorksWithChanges == <>[][~PressClose]_changeVars
=============================================================================
