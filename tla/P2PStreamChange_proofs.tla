---------------------- MODULE P2PStreamChange_proofs -----------------------
(* Proofs about P2PStreamChange, for every value of its constants.          *)
EXTENDS P2PStreamChange, P2PSession_proofs

\* What the queued blocks name: the views that were opened.
ChangeTypes ==
    ChangeTypeOK /\ opened \in 0 .. MaxPlays /\ top \in 0 .. opened

ChangeOps == [kind : {"start", "connect", "stop", "change"}, play : 0 .. MaxPlays]

LEMMA ChangeInitType ==
    ASSUME ChangeInit
    PROVE  ChangeTypes
<1>1. /\ avIndex = Unset /\ streamQueue = <<>> /\ opened = 0 /\ top = 0 /\ chosen = 0
      /\ cpc = [c \in Changes |-> "idle"] /\ cindex = [c \in Changes |-> Unset]
  BY DEF ChangeInit, Init, Nobody
<1>2. opened \in 0 .. MaxPlays /\ top \in 0 .. opened /\ chosen \in 0 .. MaxChanges
  BY <1>1, ConstantsAssumption, ChangesAssumption
<1>3. streamQueue \in Seq(ChangeOps)
  BY <1>1
<1>4. cpc \in [Changes -> ChangeStates] /\ cindex \in [Changes -> Handles \cup {Unset, Failed}]
  BY <1>1 DEF ChangeStates
<1>. QED
  BY <1>1, <1>2, <1>3, <1>4 DEF ChangeTypes, ChangeTypeOK, ChangeOps

\* What a step leaves in streamQueue.
LEMMA StreamQueueKept ==
    ASSUME streamQueue \in Seq(ChangeOps),
           \/ streamQueue' = streamQueue
           \/ \E e \in ChangeOps : streamQueue' = Append(streamQueue, e)
           \/ streamQueue # <<>> /\ streamQueue' = Tail(streamQueue)
           \/ /\ streamQueue # <<>>
              /\ \E e \in ChangeOps : streamQueue' = Append(Tail(streamQueue), e)
    PROVE  streamQueue' \in Seq(ChangeOps)
<1>1. ASSUME NEW e \in ChangeOps, streamQueue' = Append(streamQueue, e)
      PROVE  streamQueue' \in Seq(ChangeOps)
  BY <1>1, AppendFacts
<1>2. streamQueue # <<>> => Tail(streamQueue) \in Seq(ChangeOps)
  BY TailFacts
<1>3. ASSUME NEW e \in ChangeOps, streamQueue # <<>>,
             streamQueue' = Append(Tail(streamQueue), e)
      PROVE  streamQueue' \in Seq(ChangeOps)
  BY <1>2, <1>3, AppendFacts
<1>. QED
  BY <1>1, <1>2, <1>3

\* A step of the play session: the user, the queues and the worker blocks.
LEMMA PlayStepType ==
    ASSUME ChangeTypes, PlayStep
    PROVE  ChangeTypes'
<1>0. /\ streamQueue \in Seq(ChangeOps) /\ avIndex \in Handles \cup {Unset, Failed}
      /\ opened \in 0 .. MaxPlays /\ top \in 0 .. opened /\ MaxPlays \in Nat
  BY ConstantsAssumption, ChangesAssumption DEF ChangeTypes, ChangeTypeOK, ChangeOps
<1>1. UNCHANGED <<chosen, cpc, cindex>> /\ Next
  BY DEF PlayStep, change
<1>. SUFFICES /\ streamQueue' \in Seq(ChangeOps) /\ avIndex' \in Handles \cup {Unset, Failed}
              /\ opened' \in 0 .. MaxPlays /\ top' \in 0 .. opened'
  BY <1>1 DEF ChangeTypes, ChangeTypeOK, ChangeOps
<1>2. ASSUME NEW d \in Devices, OpenPlayer(d)
      PROVE  /\ streamQueue' \in Seq(ChangeOps) /\ avIndex' \in Handles \cup {Unset, Failed}
             /\ opened' \in 0 .. MaxPlays /\ top' \in 0 .. opened'
  <2>1. opened' = opened + 1 /\ top' = opened + 1 /\ opened < MaxPlays /\ avIndex' = avIndex
    BY <1>2 DEF OpenPlayer, manager
  <2>2. opened + 1 \in 0 .. MaxPlays /\ opened + 1 \in 0 .. opened + 1
    BY <1>0, <2>1
  <2>3. [kind |-> "start", play |-> opened + 1] \in ChangeOps
    BY <2>2 DEF ChangeOps
  <2>4. streamQueue' \in Seq(ChangeOps)
    BY <1>0, <1>2, <2>3, StreamQueueKept DEF OpenPlayer
  <2>. QED
    BY <1>0, <2>1, <2>2, <2>4
<1>3. CASE CloseFailed \/ PressClose \/ \E p \in Plays : DismissAlert(p)
  <2>1. opened' = opened /\ (top' = top \/ top' = Nobody) /\ avIndex' = avIndex
    BY <1>3 DEF CloseFailed, PressClose, DismissAlert, manager, view
  <2>2. top \in 0 .. MaxPlays
    BY <1>0
  <2>3. [kind |-> "stop", play |-> top] \in ChangeOps
    BY <2>2 DEF ChangeOps
  <2>4. streamQueue' \in Seq(ChangeOps)
    BY <1>0, <1>3, <2>3, StreamQueueKept DEF CloseFailed, PressClose, DismissAlert, wrap
  <2>. QED
    BY <1>0, <2>1, <2>4 DEF Nobody
<1>4. CASE MainThread \/ RecordFileQueue
  <2>1. /\ opened' = opened /\ (top' = top \/ top' = Nobody) /\ avIndex' = avIndex
        /\ streamQueue' = streamQueue
    BY <1>4 DEF MainThread, MainRegister, MainUnregister, MainStopped, MainFailed,
       RecordFileQueue, RecordStarted, RecordEnded, manager, wrap
  <2>. QED
    BY <1>0, <2>1 DEF Nobody
<1>5. CASE StreamQueue
  <2>1. /\ opened' = opened /\ top' = top /\ avIndex' = avIndex /\ streamQueue # <<>>
    BY <1>5 DEF StreamQueue, StreamStart, StreamConnect, StreamStop, StreamHead, manager, view
  <2>2. Head(streamQueue) \in ChangeOps
    BY <1>0, <2>1, TailFacts
  <2>3. [kind |-> "connect", play |-> Head(streamQueue).play] \in ChangeOps
    BY <2>2 DEF ChangeOps
  <2>4. streamQueue' \in Seq(ChangeOps)
    BY <1>0, <1>5, <2>1, <2>3, StreamQueueKept
    DEF StreamQueue, StreamStart, StreamConnect, StreamStop
  <2>. QED
    BY <1>0, <2>1, <2>4
<1>6. ASSUME NEW p \in Plays, Block(p)
      PROVE  /\ streamQueue' \in Seq(ChangeOps) /\ avIndex' \in Handles \cup {Unset, Failed}
             /\ opened' \in 0 .. MaxPlays /\ top' \in 0 .. opened'
  <2>1. opened' = opened /\ top' = top /\ streamQueue' = streamQueue
    BY <1>6 DEF Block, Initialize, InitializeFails, Connect, ConnectFails,
       AvClientStart, AvClientStartFails, StartStream, StartStreamFails,
       LoopSeesClose, LoopLosesPeer, StopStream, DeInitialize, ReportStop, Forget,
       ReportFailure, wrap, view
  <2>2. avIndex' \in Handles \cup {Unset, Failed}
    BY <1>0, <1>6 DEF Block, Initialize, InitializeFails, Connect, ConnectFails,
       AvClientStart, AvClientStartFails, StartStream, StartStreamFails,
       LoopSeesClose, LoopLosesPeer, StopStream, DeInitialize, ReportStop, Forget,
       ReportFailure, manager
  <2>. QED
    BY <1>0, <2>1, <2>2
<1>. QED
  BY <1>1, <1>2, <1>3, <1>4, <1>5, <1>6 DEF Next, User

\* A step of the quality menu, of streamQueue's block for it or of a change.
LEMMA ChangeStepType ==
    ASSUME ChangeTypes,
           ChooseQuality \/ StreamChange \/ \E c \in Changes : Change(c)
    PROVE  ChangeTypes'
<1>0. /\ streamQueue \in Seq(ChangeOps) /\ avIndex \in Handles \cup {Unset, Failed}
      /\ opened \in 0 .. MaxPlays /\ top \in 0 .. opened /\ MaxPlays \in Nat
      /\ chosen \in 0 .. MaxChanges /\ cpc \in [Changes -> ChangeStates]
      /\ cindex \in [Changes -> Handles \cup {Unset, Failed}]
  BY ConstantsAssumption, ChangesAssumption DEF ChangeTypes, ChangeTypeOK, ChangeOps
<1>. SUFFICES /\ streamQueue' \in Seq(ChangeOps) /\ avIndex' \in Handles \cup {Unset, Failed}
              /\ opened' = opened /\ top' = top
              /\ chosen' \in 0 .. MaxChanges /\ cpc' \in [Changes -> ChangeStates]
              /\ cindex' \in [Changes -> Handles \cup {Unset, Failed}]
  BY <1>0 DEF ChangeTypes, ChangeTypeOK, ChangeOps
<1>1. CASE ChooseQuality
  <2>1. top \in 0 .. MaxPlays
    BY <1>0
  <2>2. [kind |-> "change", play |-> top] \in ChangeOps
    BY <2>1 DEF ChangeOps
  <2>3. streamQueue' \in Seq(ChangeOps)
    BY <1>0, <1>1, <2>2, StreamQueueKept DEF ChooseQuality
  <2>4. chosen' \in 0 .. MaxChanges
    BY <1>0, <1>1, ChangesAssumption DEF ChooseQuality
  <2>. QED
    BY <1>0, <1>1, <2>3, <2>4 DEF ChooseQuality, manager, view
<1>2. CASE StreamChange
  <2>1. streamQueue' \in Seq(ChangeOps)
    BY <1>0, <1>2, StreamQueueKept DEF StreamChange, StreamHead
  <2>2. PICK c : cpc' = [cpc EXCEPT ![c] = "begin"]
    BY <1>2 DEF StreamChange
  <2>3. cpc' \in [Changes -> ChangeStates]
    BY <1>0, <2>2 DEF ChangeStates
  <2>. QED
    BY <1>0, <1>2, <2>1, <2>3 DEF StreamChange, manager, view
<1>3. ASSUME NEW c \in Changes, Change(c)
      PROVE  /\ streamQueue' \in Seq(ChangeOps) /\ avIndex' \in Handles \cup {Unset, Failed}
             /\ opened' = opened /\ top' = top
             /\ chosen' \in 0 .. MaxChanges /\ cpc' \in [Changes -> ChangeStates]
             /\ cindex' \in [Changes -> Handles \cup {Unset, Failed}]
  <2>1. streamQueue' = streamQueue /\ opened' = opened /\ top' = top /\ chosen' = chosen
    BY <1>3 DEF Change, ChangeBegins, ChangeSetsIndex, ChangeSucceeds, ChangeFails,
       ChangeDeInitializes, ChangeReportsFailure, vars, wrap, view
  <2>2. cpc' \in [Changes -> ChangeStates]
    BY <1>0, <1>3 DEF Change, ChangeBegins, ChangeSetsIndex, ChangeSucceeds, ChangeFails,
       ChangeDeInitializes, ChangeReportsFailure, CGoto, ChangeStates
  <2>3. avIndex' = avIndex \/ avIndex' = cindex[c]
    BY <1>3 DEF Change, ChangeBegins, ChangeSetsIndex, ChangeSucceeds, ChangeFails,
       ChangeDeInitializes, ChangeReportsFailure, vars, manager
  <2>4. cindex' = cindex \/ cindex' = [cindex EXCEPT ![c] = avIndex]
    BY <1>3 DEF Change, ChangeBegins, ChangeSetsIndex, ChangeSucceeds, ChangeFails,
       ChangeDeInitializes, ChangeReportsFailure
  <2>. QED
    BY <1>0, <2>1, <2>2, <2>3, <2>4
<1>. QED
  BY <1>1, <1>2, <1>3

\* Whatever runs beside the receive loop, the avIndex that the loop, the controls
\* and the changes share is never anything but a handle of the library, or no
\* handle: a change hands on only what it has read from there.
THEOREM ChangeTypeCorrect == ChangeSpec => []ChangeTypeOK
<1>1. ChangeInit => ChangeTypes
  BY ChangeInitType
<1>2. ChangeTypes /\ [ChangeNext]_changeVars => ChangeTypes'
  <2>1. ASSUME ChangeTypes, UNCHANGED changeVars PROVE ChangeTypes'
    BY <2>1 DEF ChangeTypes, ChangeTypeOK, changeVars, change, vars, manager, wrap, view
  <2>. QED
    BY <2>1, PlayStepType, ChangeStepType DEF ChangeNext
<1>3. ChangeTypes => ChangeTypeOK
  BY DEF ChangeTypes
<1>. QED
  BY <1>1, <1>2, <1>3, PTL DEF ChangeSpec
=============================================================================
