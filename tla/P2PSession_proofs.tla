------------------------- MODULE P2PSession_proofs --------------------------
(* Proofs about P2PSession, for every value of its constants: its           *)
(* invariants, and that it implements PlayContract.                         *)
EXTENDS P2PImplementsContract, TLAPS

-----------------------------------------------------------------------------
(* What Append and Tail do to the elements of a dispatch queue.            *)

LEMMA AppendFacts ==
    ASSUME NEW S, NEW q \in Seq(S), NEW e \in S
    PROVE  /\ Append(q, e) \in Seq(S)
           /\ Len(q) \in Nat
           /\ Len(Append(q, e)) = Len(q) + 1
           /\ \A i \in 1 .. Len(q) : Append(q, e)[i] = q[i]
           /\ Append(q, e)[Len(q) + 1] = e
OBVIOUS

LEMMA TailFacts ==
    ASSUME NEW S, NEW q \in Seq(S), q # <<>>
    PROVE  /\ Tail(q) \in Seq(S)
           /\ Len(q) \in Nat \ {0}
           /\ Len(Tail(q)) = Len(q) - 1
           /\ \A i \in 1 .. Len(q) - 1 : Tail(q)[i] = q[i + 1]
           /\ Head(q) = q[1]
           /\ Head(q) \in S
OBVIOUS

-----------------------------------------------------------------------------
(* Types.                                                                  *)

LEMMA InitType == Init => TypeOK
<1>. SUFFICES ASSUME Init PROVE TypeOK
  OBVIOUS
<1>1. /\ SID = Unset /\ avIndex = Unset /\ deviceID = NoDevice
      /\ closeConnection = FALSE /\ currentDeviceId = NoDevice
      /\ streamObersvers = {} /\ alert = {} /\ closePressed = {}
      /\ streamQueue = <<>> /\ recordFileQueue = <<>> /\ mainQueue = <<>>
      /\ opened = 0 /\ top = 0
  BY DEF Init, Nobody
<1>2. /\ streamQueue \in Seq(StreamOps)
      /\ recordFileQueue \in Seq(Notices)
      /\ mainQueue \in Seq(MainBlocks)
  BY <1>1
<1>3. opened \in 0 .. MaxPlays /\ top \in 0 .. opened /\ Nobody \in 0 .. MaxPlays
  BY <1>1, ConstantsAssumption DEF Nobody
<1>4. /\ isStopPlaying \in [Plays -> BOOLEAN]
      /\ playingFailed \in [Plays -> BOOLEAN]
      /\ pc \in [Plays -> Blocks]
      /\ dev \in [Plays -> Devices \cup {NoDevice}]
      /\ sid \in [Plays -> Handles \cup {Unset}]
      /\ arg \in [Plays -> Handles \cup {Unset, Failed}]
  BY DEF Init, Blocks
<1>5. /\ iotcUp \in BOOLEAN /\ avUp \in BOOLEAN
      /\ session \in [Handles -> 0 .. MaxPlays]
      /\ channel \in [Handles -> 0 .. MaxPlays]
  BY <1>3 DEF Init
<1>. QED
  BY <1>1, <1>2, <1>3, <1>4, <1>5 DEF TypeOK

LEMMA UserType ==
    ASSUME TypeOK, User
    PROVE  TypeOK'
<1>1. ASSUME NEW d \in Devices, OpenPlayer(d)
      PROVE  TypeOK'
  <2>1. [kind |-> "register", views |-> {opened + 1}] \in MainBlocks
    BY <1>1, ConstantsAssumption DEF OpenPlayer, TypeOK, MainBlocks, Plays
  <2>2. [kind |-> "start", play |-> opened + 1] \in StreamOps
    BY <1>1, ConstantsAssumption DEF OpenPlayer, TypeOK, StreamOps
  <2>3. mainQueue' \in Seq(MainBlocks) /\ streamQueue' \in Seq(StreamOps)
    BY <1>1, <2>1, <2>2, AppendFacts DEF OpenPlayer, TypeOK
  <2>4. opened' \in 0 .. MaxPlays /\ top' \in 0 .. opened'
    BY <1>1, ConstantsAssumption DEF OpenPlayer, TypeOK
  <2>. QED
    BY <1>1, <2>3, <2>4, ConstantsAssumption
    DEF OpenPlayer, TypeOK, manager, block, library
<1>2. CASE CloseFailed
  BY <1>2 DEF CloseFailed, TypeOK, manager, wrap, block, library, Nobody
<1>3. CASE PressClose
  <2>1. [kind |-> "stop", play |-> top] \in StreamOps
    BY <1>3, ConstantsAssumption DEF PressClose, TypeOK, StreamOps
  <2>2. top \in Plays
    BY <1>3, ConstantsAssumption DEF PressClose, TypeOK, Plays, Nobody
  <2>. QED
    BY <1>3, <2>1, <2>2, AppendFacts
    DEF PressClose, TypeOK, manager, view, block, library
<1>4. ASSUME NEW p \in Plays, DismissAlert(p)
      PROVE  TypeOK'
  BY <1>4 DEF DismissAlert, TypeOK, manager, wrap, block, library
<1>. QED
  BY <1>1, <1>2, <1>3, <1>4 DEF User

LEMMA MainThreadType ==
    ASSUME TypeOK, MainThread
    PROVE  TypeOK'
<1>0. mainQueue # <<>> /\ mainQueue \in Seq(MainBlocks)
  BY DEF MainThread, MainRegister, MainUnregister, MainStopped, MainFailed, MainHead, TypeOK
<1>1. Tail(mainQueue) \in Seq(MainBlocks) /\ Head(mainQueue).views \in SUBSET Plays
  <2>1. Head(mainQueue) \in MainBlocks
    BY <1>0, TailFacts
  <2>. QED
    BY <1>0, <2>1, TailFacts DEF MainBlocks
<1>2. CASE MainRegister
  BY <1>1, <1>2 DEF MainRegister, TypeOK, manager, block, library
<1>3. CASE MainUnregister
  BY <1>1, <1>3 DEF MainUnregister, TypeOK, manager, block, library
<1>4. CASE MainStopped
  <2>1. [kind |-> "unregister", views |-> Head(mainQueue).views] \in MainBlocks
    BY <1>1 DEF MainBlocks
  <2>. QED
    BY <1>1, <1>4, <2>1, AppendFacts
    DEF MainStopped, TypeOK, manager, wrap, block, library, Nobody
<1>5. CASE MainFailed
  BY <1>1, <1>5 DEF MainFailed, TypeOK, manager, wrap, block, library
<1>. QED
  BY <1>2, <1>3, <1>4, <1>5 DEF MainThread

LEMMA RecordFileQueueType ==
    ASSUME TypeOK, RecordFileQueue
    PROVE  TypeOK'
<1>1. CASE RecordStarted
  <2>1. Tail(recordFileQueue) \in Seq(Notices)
    BY <1>1, TailFacts DEF RecordStarted, RecordHead, TypeOK
  <2>. QED
    BY <1>1, <2>1 DEF RecordStarted, TypeOK, manager, block, library
<1>2. ASSUME NEW n \in {"stopped", "failed"}, RecordEnded(n)
      PROVE  TypeOK'
  <2>1. Tail(recordFileQueue) \in Seq(Notices)
    BY <1>2, TailFacts DEF RecordEnded, RecordHead, TypeOK
  <2>2. [kind |-> n, views |-> streamObersvers] \in MainBlocks
    BY DEF MainBlocks, TypeOK
  <2>3. mainQueue' \in Seq(MainBlocks)
    BY <1>2, <2>2, AppendFacts DEF RecordEnded, TypeOK
  <2>. QED
    BY <1>2, <2>1, <2>3 DEF RecordEnded, TypeOK, manager, block, library
<1>. QED
  BY <1>1, <1>2 DEF RecordFileQueue

LEMMA StreamQueueType ==
    ASSUME TypeOK, StreamQueue
    PROVE  TypeOK'
<1>0. streamQueue # <<>> /\ streamQueue \in Seq(StreamOps)
  BY DEF StreamQueue, StreamStart, StreamConnect, StreamStop, StreamHead, TypeOK
<1>1. Tail(streamQueue) \in Seq(StreamOps) /\ Head(streamQueue).play \in 0 .. MaxPlays
  <2>1. Head(streamQueue) \in StreamOps
    BY <1>0, TailFacts
  <2>. QED
    BY <1>0, <2>1, TailFacts DEF StreamOps
<1>2. CASE StreamStart
  <2>1. [kind |-> "connect", play |-> Head(streamQueue).play] \in StreamOps
    BY <1>1 DEF StreamOps
  <2>. QED
    BY <1>1, <1>2, <2>1, AppendFacts DEF StreamStart, TypeOK, manager, view, block, library
<1>3. CASE StreamConnect
  BY <1>1, <1>3 DEF StreamConnect, TypeOK, manager, view, library, Blocks
<1>4. CASE StreamStop
  BY <1>1, <1>4 DEF StreamStop, TypeOK, view, block, library
<1>. QED
  BY <1>2, <1>3, <1>4 DEF StreamQueue

LEMMA BlockType ==
    ASSUME TypeOK, NEW p \in Plays, Block(p)
    PROVE  TypeOK'
<1>. USE DEF TypeOK, At, Goto, Blocks, wrap, view, library, manager, block
<1>0. p \in 0 .. MaxPlays /\ Nobody \in 0 .. MaxPlays /\ Handles \subseteq Nat
  BY ConstantsAssumption DEF Plays, Nobody
<1>r. ASSUME NEW n \in Notices, Report(n)
      PROVE  recordFileQueue' \in Seq(Notices)
  BY <1>r, AppendFacts DEF Report
<1>1. CASE Initialize(p)
  BY <1>1 DEF Initialize
<1>2. CASE InitializeFails(p)
  BY <1>0, <1>2 DEF InitializeFails, IotcDeInitialize
<1>3. CASE Connect(p)
  <2>1. /\ SID' \in Handles
        /\ sid' \in [Plays -> Handles \cup {Unset}]
        /\ session' \in [Handles -> 0 .. MaxPlays]
    BY <1>0, <1>3 DEF Connect
  <2>2. pc' \in [Plays -> Blocks]
    BY <1>3 DEF Connect
  <2>. QED
    BY <1>3, <2>1, <2>2 DEF Connect
<1>4. CASE ConnectFails(p)
  BY <1>4 DEF ConnectFails
<1>5. CASE AvClientStart(p)
  BY <1>5 DEF AvClientStart
<1>6. CASE AvClientStartFails(p)
  BY <1>0, <1>6 DEF AvClientStartFails, SessionClose
<1>7. CASE StartStream(p)
  BY <1>7, <1>r DEF StartStream, Notices
<1>8. CASE StartStreamFails(p)
  BY <1>0, <1>8 DEF StartStreamFails, SessionClose, AvClientStop
<1>9. CASE LoopSeesClose(p)
  BY <1>9 DEF LoopSeesClose
<1>10. CASE LoopLosesPeer(p)
  BY <1>10 DEF LoopLosesPeer
<1>11. CASE StopStream(p)
  BY <1>0, <1>11 DEF StopStream, SessionClose, AvClientStop
<1>12. CASE DeInitialize(p)
  BY <1>0, <1>12 DEF DeInitialize, IotcDeInitialize, AvDeInitialize
<1>13. CASE ReportStop(p)
  BY <1>13, <1>r DEF ReportStop, Notices
<1>14. CASE Forget(p)
  BY <1>14 DEF Forget
<1>15. CASE ReportFailure(p)
  BY <1>15, <1>r DEF ReportFailure, Notices
<1>. QED
  BY <1>1, <1>2, <1>3, <1>4, <1>5, <1>6, <1>7, <1>8, <1>9, <1>10, <1>11,
     <1>12, <1>13, <1>14, <1>15 DEF Block

LEMMA StutterType == ASSUME TypeOK, UNCHANGED vars PROVE TypeOK'
BY DEF TypeOK, vars, manager, wrap, view, block, library

LEMMA TypeStep == TypeOK /\ [Next]_vars => TypeOK'
BY UserType, MainThreadType, RecordFileQueueType, StreamQueueType, BlockType,
   StutterType DEF Next

\* Every variable of the play session keeps its type, whatever the network and
\* the user do.
THEOREM TypeCorrect == Spec => []TypeOK
BY InitType, TypeStep, PTL DEF Spec

-----------------------------------------------------------------------------
(* The inductive invariant.  One lemma per actor; in each, one step per    *)
(* action of that actor.                                                   *)

LEMMA InitInv == Init => IInv
<1>. SUFFICES ASSUME Init PROVE IInv
  OBVIOUS
<1>1. TypeOK
  BY InitType
<1>2. /\ opened = 0 /\ top = 0 /\ streamObersvers = {} /\ alert = {}
      /\ Len(streamQueue) = 0 /\ Len(recordFileQueue) = 0 /\ Len(mainQueue) = 0
  BY DEF Init, Nobody
<1>3. \A p \in Plays : pc[p] = "idle" /\ ~playingFailed[p]
  BY DEF Init
<1>4. Down
  BY DEF Init, Down
<1>5. LastPlayOnly
  BY <1>2, <1>3 DEF LastPlayOnly, Plays, Nobody
<1>6. OneStartPending /\ OneEndNotice /\ ToldIsOver
  BY <1>2 DEF OneStartPending, OneEndNotice, ToldIsOver
<1>7. LibraryFollowsBlock
  BY <1>2, <1>3, <1>4 DEF LibraryFollowsBlock, Live
<1>. QED
  BY <1>1, <1>4, <1>5, <1>6, <1>7 DEF IInv

LEMMA Indices ==
    ASSUME TypeOK
    PROVE  /\ Len(streamQueue) \in Nat /\ Len(recordFileQueue) \in Nat
           /\ Len(mainQueue) \in Nat
           /\ opened \in Nat
           /\ opened # 0 => opened \in Plays
           /\ Plays \subseteq Nat \ {0}
BY ConstantsAssumption DEF TypeOK, Plays

LEMMA UserInv ==
    ASSUME IInv, User
    PROVE  IInv'
<1>0. TypeOK /\ TypeOK'
  BY UserType DEF IInv
<1>i. /\ Len(streamQueue) \in Nat /\ Len(recordFileQueue) \in Nat
      /\ Len(mainQueue) \in Nat /\ opened \in Nat
      /\ opened # 0 => opened \in Plays
      /\ Plays \subseteq Nat \ {0}
  BY <1>0, Indices
<1>1. ASSUME NEW d \in Devices, OpenPlayer(d)
      PROVE  IInv'
  <2>1. /\ opened' = opened + 1 /\ top' = opened + 1 /\ top = Nobody
        /\ opened + 1 \in Plays
        /\ pc' = pc /\ recordFileQueue' = recordFileQueue
        /\ streamObersvers' = streamObersvers
        /\ alert' = alert /\ playingFailed' = playingFailed
        /\ iotcUp' = iotcUp /\ avUp' = avUp /\ session' = session /\ channel' = channel
    BY <1>1, <1>0, ConstantsAssumption DEF OpenPlayer, block, library, TypeOK, Plays
  <2>2. /\ Len(mainQueue') = Len(mainQueue) + 1
        /\ \A i \in 1 .. Len(mainQueue) : mainQueue'[i] = mainQueue[i]
        /\ mainQueue'[Len(mainQueue) + 1] = [kind |-> "register", views |-> {opened + 1}]
    <3>1. [kind |-> "register", views |-> {opened + 1}] \in MainBlocks
      BY <2>1 DEF MainBlocks
    <3>. QED
      BY <1>1, <1>0, <3>1, AppendFacts DEF OpenPlayer, TypeOK
  <2>3. /\ Len(streamQueue') = Len(streamQueue) + 1
        /\ \A i \in 1 .. Len(streamQueue) : streamQueue'[i] = streamQueue[i]
        /\ streamQueue'[Len(streamQueue) + 1] = [kind |-> "start", play |-> opened + 1]
    <3>1. [kind |-> "start", play |-> opened + 1] \in StreamOps
      BY <1>1, <1>0, ConstantsAssumption DEF OpenPlayer, StreamOps, TypeOK
    <3>. QED
      BY <1>1, <1>0, <3>1, AppendFacts DEF OpenPlayer, TypeOK
  <2>4. Down /\ (opened # 0 => Over(opened) /\ Told(opened))
    BY <2>1, <1>i DEF IInv, ToldIsOver, Told, LibraryFollowsBlock, Nobody
  <2>5. \A q \in Plays : (q <= opened => Over(q)) /\ (q > opened => pc[q] = "idle")
    BY <2>4, <1>i DEF IInv, LastPlayOnly
  <2>6. LastPlayOnly'
    <3>1. \A q \in Plays : (q < opened' => Over(q)') /\ (q > opened' => pc'[q] = "idle" /\ ~playingFailed'[q])
      BY <2>1, <2>5, <1>i DEF IInv, LastPlayOnly, Over
    <3>2. \A i \in 1 .. Len(mainQueue') : mainQueue'[i].views \subseteq 1 .. opened'
      BY <2>1, <2>2, <1>i DEF IInv, LastPlayOnly
    <3>3. streamObersvers' \subseteq 1 .. opened' /\ alert' \subseteq 1 .. opened'
      BY <2>1, <1>i DEF IInv, LastPlayOnly
    <3>. QED
      BY <2>1, <3>1, <3>2, <3>3 DEF LastPlayOnly
  <2>7. OneStartPending'
    <3>1. \A i \in 1 .. Len(streamQueue) : ~StartOp(i)
      BY <2>4 DEF IInv, OneStartPending, Over
    <3>2. \A i \in 1 .. Len(streamQueue') : StartOp(i)' => i = Len(streamQueue) + 1
      BY <2>3, <3>1, <1>i DEF StartOp
    <3>3. opened' # 0 /\ pc'[opened'] = "idle"
      BY <2>1, <2>5, <1>i
    <3>. QED
      BY <2>1, <2>3, <3>2, <3>3, <1>i DEF OneStartPending
  <2>8. \A i \in 1 .. Len(recordFileQueue') : ~EndNotice(i)'
    BY <2>1, <2>4 DEF IInv, OneEndNotice, EndNotice
  <2>9. ~Told(opened)'
    <3>1. \A i \in 1 .. Len(mainQueue) : opened + 1 \notin mainQueue[i].views
      BY <1>i DEF IInv, LastPlayOnly
    <3>2. \A i \in 1 .. Len(mainQueue') : ~EndBlock(i, opened)'
      BY <2>1, <2>2, <3>1, <1>i DEF EndBlock
    <3>3. opened + 1 \notin alert /\ ~playingFailed[opened + 1]
      BY <2>1, <1>i DEF IInv, LastPlayOnly
    <3>. QED
      BY <2>1, <3>2, <3>3 DEF Told, EndBlock
  <2>10. LibraryFollowsBlock'
    BY <2>1, <2>4, <2>5, <1>i DEF LibraryFollowsBlock, Down, Live, Over
  <2>. QED
    BY <1>0, <2>6, <2>7, <2>8, <2>9, <2>10 DEF IInv, OneEndNotice, ToldIsOver
<1>2. CASE CloseFailed
  <2>1. /\ opened' = opened /\ pc' = pc /\ streamQueue' = streamQueue
        /\ recordFileQueue' = recordFileQueue /\ mainQueue' = mainQueue
        /\ streamObersvers' = streamObersvers /\ top' = Nobody
        /\ alert' = alert /\ playingFailed' = playingFailed
        /\ iotcUp' = iotcUp /\ avUp' = avUp /\ session' = session /\ channel' = channel
    BY <1>2 DEF CloseFailed, wrap, block, library
  <2>2. opened # 0 /\ Told(opened)
    BY <1>2, <1>i DEF CloseFailed, IInv, LastPlayOnly, Told, Nobody
  <2>3. \A i \in 1 .. Len(recordFileQueue) : ~EndNotice(i)
    BY <2>2 DEF IInv, OneEndNotice
  <2>4. Over(opened) /\ Down
    BY <2>2 DEF IInv, ToldIsOver
  <2>5. OneEndNotice' /\ ToldIsOver'
    BY <2>1, <2>3, <2>4 DEF OneEndNotice, ToldIsOver, EndNotice, Over, Down
  <2>6. LastPlayOnly' /\ OneStartPending' /\ LibraryFollowsBlock'
    BY <2>1 DEF IInv, LastPlayOnly, Over, OneStartPending, StartOp, LibraryFollowsBlock, Down
  <2>. QED
    BY <1>0, <2>5, <2>6 DEF IInv
<1>3. CASE PressClose
  <2>1. /\ opened' = opened /\ pc' = pc /\ top' = top
        /\ recordFileQueue' = recordFileQueue /\ mainQueue' = mainQueue
        /\ streamObersvers' = streamObersvers
        /\ alert' = alert /\ playingFailed' = playingFailed
        /\ iotcUp' = iotcUp /\ avUp' = avUp /\ session' = session /\ channel' = channel
    BY <1>3 DEF PressClose, view, block, library
  <2>2. /\ Len(streamQueue') = Len(streamQueue) + 1
        /\ \A i \in 1 .. Len(streamQueue) : streamQueue'[i] = streamQueue[i]
        /\ streamQueue'[Len(streamQueue) + 1] = [kind |-> "stop", play |-> top]
    <3>1. [kind |-> "stop", play |-> top] \in StreamOps
      BY <1>0, ConstantsAssumption DEF StreamOps, TypeOK
    <3>. QED
      BY <1>3, <1>0, <3>1, AppendFacts DEF PressClose, TypeOK
  <2>3. \A i \in 1 .. Len(streamQueue') :
           StartOp(i)' => i \in 1 .. Len(streamQueue) /\ StartOp(i)
    BY <2>2, <1>i DEF StartOp
  <2>4. OneStartPending'
    BY <2>1, <2>2, <2>3 DEF IInv, OneStartPending
  <2>5. LastPlayOnly' /\ OneEndNotice' /\ ToldIsOver' /\ LibraryFollowsBlock'
    BY <2>1 DEF IInv, LastPlayOnly, Over, OneEndNotice, EndNotice, ToldIsOver,
                Told, EndBlock, LibraryFollowsBlock, Down
  <2>. QED
    BY <1>0, <2>4, <2>5 DEF IInv
<1>4. ASSUME NEW p \in Plays, DismissAlert(p)
      PROVE  IInv'
  <2>1. /\ opened' = opened /\ pc' = pc /\ streamQueue' = streamQueue /\ top' = top
        /\ recordFileQueue' = recordFileQueue /\ mainQueue' = mainQueue
        /\ streamObersvers' = streamObersvers
        /\ alert' = alert \ {p} /\ playingFailed' = [playingFailed EXCEPT ![p] = TRUE]
        /\ iotcUp' = iotcUp /\ avUp' = avUp /\ session' = session /\ channel' = channel
        /\ p \in alert /\ p \in 1 .. opened
    BY <1>4 DEF DismissAlert, wrap, block, library, IInv, LastPlayOnly
  <2>2. Told(opened)' => Told(opened)
    BY <2>1, <1>0, <1>i DEF Told, EndBlock, TypeOK
  <2>3. LastPlayOnly'
    <3>1. opened \in Nat /\ Plays \subseteq Nat /\ p \in Nat /\ p <= opened
      BY <2>1, <1>0, <1>i DEF IInv, LastPlayOnly
    <3>2. \A m \in Plays : m > opened => ~playingFailed'[m]
      BY <2>1, <3>1, <1>i DEF IInv, LastPlayOnly, TypeOK
    <3>3. alert' \subseteq 1 .. opened
      BY <2>1 DEF IInv, LastPlayOnly
    <3>. QED
      BY <2>1, <3>2, <3>3 DEF IInv, LastPlayOnly, Over
  <2>4. OneStartPending' /\ LibraryFollowsBlock'
    BY <2>1 DEF IInv, OneStartPending, StartOp, LibraryFollowsBlock, Down
  <2>5. OneEndNotice' /\ ToldIsOver'
    BY <2>1, <2>2 DEF IInv, OneEndNotice, EndNotice, ToldIsOver, Over, Down
  <2>. QED
    BY <1>0, <2>3, <2>4, <2>5 DEF IInv
<1>. QED
  BY <1>1, <1>2, <1>3, <1>4 DEF User

LEMMA MainThreadInv ==
    ASSUME IInv, MainThread
    PROVE  IInv'
<1>0. TypeOK /\ TypeOK'
  BY MainThreadType DEF IInv
<1>i. /\ Len(streamQueue) \in Nat /\ Len(recordFileQueue) \in Nat
      /\ Len(mainQueue) \in Nat /\ opened \in Nat
      /\ opened # 0 => opened \in Plays
      /\ Plays \subseteq Nat \ {0}
  BY <1>0, Indices
<1>1. /\ opened' = opened /\ pc' = pc /\ streamQueue' = streamQueue
      /\ recordFileQueue' = recordFileQueue
      /\ playingFailed' = playingFailed
      /\ iotcUp' = iotcUp /\ avUp' = avUp /\ session' = session /\ channel' = channel
  BY DEF MainThread, MainRegister, MainUnregister, MainStopped, MainFailed,
         manager, wrap, block, library
<1>2. /\ mainQueue # <<>>
      /\ Len(mainQueue) \in Nat \ {0}
      /\ Tail(mainQueue) \in Seq(MainBlocks)
      /\ Len(Tail(mainQueue)) = Len(mainQueue) - 1
      /\ \A i \in 1 .. Len(mainQueue) - 1 : Tail(mainQueue)[i] = mainQueue[i + 1]
      /\ Head(mainQueue) = mainQueue[1]
  <2>1. mainQueue # <<>>
    BY DEF MainThread, MainRegister, MainUnregister, MainStopped, MainFailed, MainHead
  <2>. QED
    BY <2>1, <1>0, TailFacts DEF TypeOK
<1>3. /\ \A i \in 1 .. Len(mainQueue) : mainQueue[i].views \subseteq 1 .. opened
      /\ streamObersvers \subseteq 1 .. opened /\ alert \subseteq 1 .. opened
      /\ top \in {Nobody, opened}
  BY DEF IInv, LastPlayOnly
<1>4. \* what the head of the queue may change
      /\ \A i \in 1 .. Len(mainQueue') :
            /\ mainQueue'[i].views \subseteq 1 .. opened
            /\ EndBlock(i, opened)' =>
                  \E j \in 1 .. Len(mainQueue) : EndBlock(j, opened)
      /\ streamObersvers' \subseteq 1 .. opened /\ alert' \subseteq 1 .. opened
      /\ top' \in {Nobody, opened}
      /\ opened \in alert' \/ top' # opened => Told(opened)
  <2>1. /\ \A i \in 1 .. Len(Tail(mainQueue)) : Tail(mainQueue)[i].views \subseteq 1 .. opened
        /\ Head(mainQueue).views \subseteq 1 .. opened
    BY <1>2, <1>3
  <2>2. ASSUME mainQueue' = Tail(mainQueue)
        PROVE  \A i \in 1 .. Len(mainQueue') :
                  /\ mainQueue'[i].views \subseteq 1 .. opened
                  /\ EndBlock(i, opened)' =>
                        \E j \in 1 .. Len(mainQueue) : EndBlock(j, opened)
    BY <2>1, <2>2, <1>1, <1>2 DEF EndBlock
  <2>3. CASE MainRegister
    BY <2>1, <2>2, <2>3, <1>3 DEF MainRegister, Told
  <2>4. CASE MainUnregister
    BY <2>1, <2>2, <2>4, <1>3 DEF MainUnregister, Told
  <2>5. CASE MainStopped
    <3>1. /\ mainQueue' = Append(Tail(mainQueue),
                                 [kind |-> "unregister", views |-> Head(mainQueue).views])
          /\ streamObersvers' = streamObersvers /\ alert' = alert
          /\ top' = IF top \in Head(mainQueue).views THEN Nobody ELSE top
          /\ Head(mainQueue).kind = "stopped"
      BY <2>5 DEF MainStopped, MainHead, wrap
    <3>2. [kind |-> "unregister", views |-> Head(mainQueue).views] \in MainBlocks
      <4>1. Head(mainQueue) \in MainBlocks
        BY <1>0, <1>2, TailFacts DEF TypeOK
      <4>. QED
        BY <4>1 DEF MainBlocks
    <3>3. /\ Len(mainQueue') = Len(mainQueue)
          /\ \A i \in 1 .. Len(mainQueue) - 1 : mainQueue'[i] = mainQueue[i + 1]
          /\ mainQueue'[Len(mainQueue)]
                = [kind |-> "unregister", views |-> Head(mainQueue).views]
      BY <1>2, <3>1, <3>2, AppendFacts
    <3>4. \A i \in 1 .. Len(mainQueue') :
             /\ mainQueue'[i].views \subseteq 1 .. opened
             /\ EndBlock(i, opened)' =>
                   \E j \in 1 .. Len(mainQueue) : EndBlock(j, opened)
      BY <1>1, <1>2, <1>3, <2>1, <3>3 DEF EndBlock
    <3>5. top' # opened => Told(opened)
      <4>1. CASE top' = top
        BY <4>1 DEF Told
      <4>2. CASE top' # top
        BY <4>2, <3>1, <1>2, <1>3 DEF Told, EndBlock, Nobody
      <4>. QED
        BY <4>1, <4>2
    <3>. QED
      BY <1>3, <3>1, <3>4, <3>5 DEF Told
  <2>6. CASE MainFailed
    <3>1. /\ mainQueue' = Tail(mainQueue) /\ alert' = alert \cup Head(mainQueue).views
          /\ top' = top /\ streamObersvers' = streamObersvers
          /\ Head(mainQueue).kind = "failed"
      BY <2>6 DEF MainFailed, MainHead, wrap
    <3>2. opened \in alert' => Told(opened)
      <4>1. CASE opened \in alert
        BY <4>1 DEF Told
      <4>2. CASE opened \in Head(mainQueue).views
        BY <1>2, <3>1, <4>2 DEF Told, EndBlock
      <4>. QED
        BY <3>1, <4>1, <4>2
    <3>3. top' # opened => Told(opened)
      BY <3>1 DEF Told
    <3>4. alert' \subseteq 1 .. opened
      BY <1>3, <2>1, <3>1
    <3>. QED
      BY <1>3, <2>2, <3>1, <3>2, <3>3, <3>4
  <2>. QED
    BY <2>3, <2>4, <2>5, <2>6 DEF MainThread
<1>5. Told(opened)' => Told(opened)
  BY <1>1, <1>4 DEF Told
<1>6. LastPlayOnly'
  BY <1>1, <1>4 DEF IInv, LastPlayOnly, Over
<1>7. OneStartPending' /\ LibraryFollowsBlock'
  BY <1>1 DEF IInv, OneStartPending, StartOp, LibraryFollowsBlock, Down
<1>8. OneEndNotice' /\ ToldIsOver'
  BY <1>1, <1>5 DEF IInv, OneEndNotice, EndNotice, ToldIsOver, Over, Down
<1>. QED
  BY <1>0, <1>6, <1>7, <1>8 DEF IInv

LEMMA RecordFileQueueInv ==
    ASSUME IInv, RecordFileQueue
    PROVE  IInv'
<1>0. TypeOK /\ TypeOK'
  BY RecordFileQueueType DEF IInv
<1>i. /\ Len(streamQueue) \in Nat /\ Len(recordFileQueue) \in Nat
      /\ Len(mainQueue) \in Nat /\ opened \in Nat
      /\ opened # 0 => opened \in Plays
      /\ Plays \subseteq Nat \ {0}
  BY <1>0, Indices
<1>1. /\ opened' = opened /\ pc' = pc /\ streamQueue' = streamQueue /\ top' = top
      /\ streamObersvers' = streamObersvers /\ alert' = alert
      /\ playingFailed' = playingFailed
      /\ iotcUp' = iotcUp /\ avUp' = avUp /\ session' = session /\ channel' = channel
      /\ recordFileQueue # <<>> /\ recordFileQueue' = Tail(recordFileQueue)
  BY DEF RecordFileQueue, RecordStarted, RecordEnded, RecordHead, manager, block, library
<1>2. /\ Len(recordFileQueue) \in Nat \ {0}
      /\ Len(recordFileQueue') = Len(recordFileQueue) - 1
      /\ \A i \in 1 .. Len(recordFileQueue) - 1 :
            recordFileQueue'[i] = recordFileQueue[i + 1]
      /\ Head(recordFileQueue) = recordFileQueue[1]
  BY <1>0, <1>1, TailFacts DEF TypeOK
<1>3. OneStartPending' /\ LibraryFollowsBlock'
  BY <1>1 DEF IInv, OneStartPending, StartOp, LibraryFollowsBlock, Down
<1>4. CASE RecordStarted
  <2>1. mainQueue' = mainQueue
    BY <1>4 DEF RecordStarted
  <2>2. \A i \in 1 .. Len(recordFileQueue') :
           EndNotice(i)' => i + 1 \in 1 .. Len(recordFileQueue) /\ EndNotice(i + 1)
    BY <1>2 DEF EndNotice
  <2>3. OneEndNotice'
    <3>1. ASSUME NEW i \in 1 .. Len(recordFileQueue'), EndNotice(i)'
          PROVE  /\ opened # 0 /\ Over(opened) /\ Down /\ ~Told(opened)
                 /\ \A j \in 1 .. Len(recordFileQueue') : EndNotice(j)' => i = j
      <4>1. i + 1 \in 1 .. Len(recordFileQueue) /\ EndNotice(i + 1)
        BY <2>2, <3>1
      <4>2. \A j \in 1 .. Len(recordFileQueue') : EndNotice(j)' => i + 1 = j + 1
        BY <2>2, <4>1 DEF IInv, OneEndNotice
      <4>3. \A j \in 1 .. Len(recordFileQueue') : EndNotice(j)' => i = j
        BY <4>2, <1>2
      <4>. QED
        BY <4>1, <4>3 DEF IInv, OneEndNotice
    <3>. QED
      BY <3>1, <1>1, <2>1 DEF OneEndNotice, Over, Down, Told, EndBlock
  <2>4. LastPlayOnly' /\ ToldIsOver'
    BY <1>1, <2>1 DEF IInv, LastPlayOnly, Over, ToldIsOver, Told, EndBlock, Down
  <2>. QED
    BY <1>0, <1>3, <2>3, <2>4 DEF IInv
<1>5. ASSUME NEW n \in {"stopped", "failed"}, RecordEnded(n)
      PROVE  IInv'
  <2>1. EndNotice(1) /\ 1 \in 1 .. Len(recordFileQueue)
    BY <1>2, <1>5 DEF RecordEnded, RecordHead, EndNotice
  <2>2. /\ opened # 0 /\ Over(opened) /\ Down
        /\ \A j \in 1 .. Len(recordFileQueue) : EndNotice(j) => 1 = j
    BY <2>1 DEF IInv, OneEndNotice
  <2>3. OneEndNotice'
    <3>1. \A i \in 1 .. Len(recordFileQueue') : ~EndNotice(i)'
      BY <1>2, <2>2 DEF EndNotice
    <3>. QED
      BY <3>1 DEF OneEndNotice
  <2>4. ToldIsOver'
    BY <1>1, <2>2 DEF ToldIsOver, Over, Down
  <2>5. \A i \in 1 .. Len(mainQueue') : mainQueue'[i].views \subseteq 1 .. opened
    <3>1. [kind |-> n, views |-> streamObersvers] \in MainBlocks
      BY <1>0 DEF MainBlocks, TypeOK
    <3>2. CASE mainQueue' = mainQueue
      BY <3>2 DEF IInv, LastPlayOnly
    <3>3. CASE mainQueue' = Append(mainQueue, [kind |-> n, views |-> streamObersvers])
      <4>1. /\ Len(mainQueue') = Len(mainQueue) + 1
            /\ \A i \in 1 .. Len(mainQueue) : mainQueue'[i] = mainQueue[i]
            /\ mainQueue'[Len(mainQueue) + 1] = [kind |-> n, views |-> streamObersvers]
        BY <1>0, <3>1, <3>3, AppendFacts DEF TypeOK
      <4>2. mainQueue'[Len(mainQueue) + 1].views = streamObersvers
        BY <4>1
      <4>3. /\ \A i \in 1 .. Len(mainQueue) : mainQueue[i].views \subseteq 1 .. opened
            /\ streamObersvers \subseteq 1 .. opened
        BY DEF IInv, LastPlayOnly
      <4>4. SUFFICES ASSUME NEW i \in 1 .. Len(mainQueue')
                     PROVE  mainQueue'[i].views \subseteq 1 .. opened
        OBVIOUS
      <4>5. CASE i = Len(mainQueue) + 1
        BY <4>2, <4>3, <4>5
      <4>6. CASE i \in 1 .. Len(mainQueue)
        BY <4>1, <4>3, <4>6
      <4>. QED
        BY <1>i, <4>1, <4>5, <4>6
    <3>. QED
      BY <1>5, <3>2, <3>3 DEF RecordEnded
  <2>6. LastPlayOnly'
    BY <1>1, <2>5 DEF IInv, LastPlayOnly, Over
  <2>. QED
    BY <1>0, <1>3, <2>3, <2>4, <2>6 DEF IInv
<1>. QED
  BY <1>4, <1>5 DEF RecordFileQueue

LEMMA StreamQueueInv ==
    ASSUME IInv, StreamQueue
    PROVE  IInv'
<1>0. TypeOK /\ TypeOK'
  BY StreamQueueType DEF IInv
<1>i. /\ Len(streamQueue) \in Nat /\ Len(recordFileQueue) \in Nat
      /\ Len(mainQueue) \in Nat /\ opened \in Nat
      /\ opened # 0 => opened \in Plays
      /\ Plays \subseteq Nat \ {0}
  BY <1>0, Indices
<1>1. /\ opened' = opened /\ top' = top
      /\ recordFileQueue' = recordFileQueue /\ mainQueue' = mainQueue
      /\ streamObersvers' = streamObersvers /\ alert' = alert
      /\ playingFailed' = playingFailed
      /\ iotcUp' = iotcUp /\ avUp' = avUp /\ session' = session /\ channel' = channel
      /\ streamQueue # <<>>
  BY DEF StreamQueue, StreamStart, StreamConnect, StreamStop, StreamHead, view, library
<1>2. /\ Len(streamQueue) \in Nat \ {0}
      /\ Tail(streamQueue) \in Seq(StreamOps)
      /\ Len(Tail(streamQueue)) = Len(streamQueue) - 1
      /\ \A i \in 1 .. Len(streamQueue) - 1 : Tail(streamQueue)[i] = streamQueue[i + 1]
      /\ Head(streamQueue) = streamQueue[1]
      /\ Head(streamQueue) \in StreamOps
  BY <1>0, <1>1, TailFacts DEF TypeOK
<1>3. CASE StreamStart
  <2>1. /\ pc' = pc /\ Head(streamQueue).kind = "start"
        /\ streamQueue' = Append(Tail(streamQueue),
                             [kind |-> "connect", play |-> Head(streamQueue).play])
    BY <1>3 DEF StreamStart, StreamHead, block
  <2>2. /\ Len(streamQueue') = Len(streamQueue)
        /\ \A i \in 1 .. Len(streamQueue) - 1 : streamQueue'[i] = streamQueue[i + 1]
        /\ streamQueue'[Len(streamQueue)]
              = [kind |-> "connect", play |-> Head(streamQueue).play]
    <3>1. [kind |-> "connect", play |-> Head(streamQueue).play] \in StreamOps
      BY <1>2 DEF StreamOps
    <3>. QED
      BY <1>2, <2>1, <3>1, AppendFacts
  <2>3. StartOp(1) /\ 1 \in 1 .. Len(streamQueue)
    BY <1>2, <2>1 DEF StartOp
  <2>4. /\ streamQueue[1].play = opened /\ opened # 0 /\ pc[opened] = "idle"
        /\ \A j \in 1 .. Len(streamQueue) : StartOp(j) => 1 = j
    BY <2>3 DEF IInv, OneStartPending
  <2>5. \A i \in 1 .. Len(streamQueue') : StartOp(i)' => i = Len(streamQueue)
    <3>1. SUFFICES ASSUME NEW i \in 1 .. Len(streamQueue'), i # Len(streamQueue)
                   PROVE  ~StartOp(i)'
      OBVIOUS
    <3>a. i \in 1 .. Len(streamQueue) - 1
      <4>1. PICK n \in Nat : n = Len(streamQueue)
        BY <1>i
      <4>2. i \in 1 .. n /\ i # n
        BY <2>2, <3>1, <4>1
      <4>3. i \in 1 .. n - 1
        BY <4>2
      <4>. QED
        BY <4>1, <4>3
    <3>2. streamQueue'[i] = streamQueue[i + 1] /\ i + 1 \in 1 .. Len(streamQueue)
      BY <1>i, <2>2, <3>a
    <3>3. ~StartOp(i + 1)
      BY <1>2, <2>4, <3>2
    <3>. QED
      BY <3>2, <3>3 DEF StartOp
  <2>6. OneStartPending'
    <3>1. streamQueue'[Len(streamQueue)].play = opened
      BY <1>2, <2>2, <2>4
    <3>. QED
      BY <1>1, <2>1, <2>4, <2>5, <3>1 DEF OneStartPending
  <2>7. LastPlayOnly' /\ OneEndNotice' /\ ToldIsOver' /\ LibraryFollowsBlock'
    BY <1>1, <2>1 DEF IInv, LastPlayOnly, Over, OneEndNotice, EndNotice, ToldIsOver,
                      Told, EndBlock, LibraryFollowsBlock, Down
  <2>. QED
    BY <1>0, <2>6, <2>7 DEF IInv
<1>4. CASE StreamConnect
  <2>1. /\ Head(streamQueue).kind = "connect"
        /\ pc' = [pc EXCEPT ![Head(streamQueue).play] = "init"]
        /\ streamQueue' = Tail(streamQueue)
    BY <1>4 DEF StreamConnect, StreamHead
  <2>2. StartOp(1) /\ 1 \in 1 .. Len(streamQueue)
    BY <1>2, <2>1 DEF StartOp
  <2>3. /\ Head(streamQueue).play = opened /\ opened # 0 /\ pc[opened] = "idle"
        /\ \A j \in 1 .. Len(streamQueue) : StartOp(j) => 1 = j
    BY <1>2, <2>2 DEF IInv, OneStartPending
  <2>4. /\ Down /\ ~Over(opened)
        /\ ~Told(opened)
        /\ \A i \in 1 .. Len(recordFileQueue) : ~EndNotice(i)
    BY <2>3 DEF IInv, LibraryFollowsBlock, Over, ToldIsOver, OneEndNotice
  <2>5. /\ pc'[opened] = "init"
        /\ \A q \in Plays : q # opened => pc'[q] = pc[q]
    BY <1>0, <1>i, <2>1, <2>3 DEF TypeOK
  <2>6. OneStartPending'
    <3>1. \A i \in 1 .. Len(streamQueue') : ~StartOp(i)'
      BY <1>2, <2>1, <2>3 DEF StartOp
    <3>. QED
      BY <3>1 DEF OneStartPending
  <2>7. LastPlayOnly'
    BY <1>1, <1>i, <2>3, <2>5 DEF IInv, LastPlayOnly, Over
  <2>8. OneEndNotice' /\ ToldIsOver'
    BY <1>1, <2>4 DEF OneEndNotice, EndNotice, ToldIsOver, Told, EndBlock
  <2>9. LibraryFollowsBlock'
    BY <1>1, <2>3, <2>4, <2>5 DEF IInv, LibraryFollowsBlock, Live, Down
  <2>. QED
    BY <1>0, <2>6, <2>7, <2>8, <2>9 DEF IInv
<1>5. CASE StreamStop
  <2>1. pc' = pc /\ streamQueue' = Tail(streamQueue)
    BY <1>5 DEF StreamStop, block
  <2>2. \A i \in 1 .. Len(streamQueue') :
           /\ streamQueue'[i] = streamQueue[i + 1]
           /\ StartOp(i)' => i + 1 \in 1 .. Len(streamQueue) /\ StartOp(i + 1)
    BY <1>2, <2>1 DEF StartOp
  <2>3. OneStartPending'
    <3>1. ASSUME NEW i \in 1 .. Len(streamQueue'), StartOp(i)'
          PROVE  /\ streamQueue'[i].play = opened
                 /\ opened # 0 /\ pc[opened] = "idle"
                 /\ \A j \in 1 .. Len(streamQueue') : StartOp(j)' => i = j
      <4>1. i + 1 \in 1 .. Len(streamQueue) /\ StartOp(i + 1)
        BY <2>2, <3>1
      <4>2. \A j \in 1 .. Len(streamQueue') : StartOp(j)' => i + 1 = j + 1
        BY <2>2, <4>1 DEF IInv, OneStartPending
      <4>3. \A j \in 1 .. Len(streamQueue') : StartOp(j)' => i = j
        BY <4>2, <1>2
      <4>. QED
        BY <2>2, <4>1, <4>3 DEF IInv, OneStartPending
    <3>. QED
      BY <1>1, <2>1, <3>1 DEF OneStartPending
  <2>4. LastPlayOnly' /\ OneEndNotice' /\ ToldIsOver' /\ LibraryFollowsBlock'
    BY <1>1, <2>1 DEF IInv, LastPlayOnly, Over, OneEndNotice, EndNotice, ToldIsOver,
                      Told, EndBlock, LibraryFollowsBlock, Down
  <2>. QED
    BY <1>0, <2>3, <2>4 DEF IInv
<1>. QED
  BY <1>3, <1>4, <1>5 DEF StreamQueue

LEMMA BlockInv ==
    ASSUME IInv, NEW p \in Plays, Block(p)
    PROVE  IInv'
<1>0. TypeOK /\ TypeOK'
  BY BlockType DEF IInv
<1>i. /\ Len(streamQueue) \in Nat /\ Len(recordFileQueue) \in Nat
      /\ Len(mainQueue) \in Nat /\ opened \in Nat
      /\ opened # 0 => opened \in Plays
      /\ Plays \subseteq Nat \ {0}
  BY <1>0, Indices
<1>1. /\ opened' = opened /\ top' = top /\ mainQueue' = mainQueue
      /\ alert' = alert /\ playingFailed' = playingFailed
      /\ streamQueue' = streamQueue /\ streamObersvers' = streamObersvers
      /\ pc[p] \notin {"idle", "done"}
      /\ \A q \in Plays : q # p => pc'[q] = pc[q]
  BY <1>0 DEF Block, Initialize, InitializeFails, Connect, ConnectFails,
     AvClientStart, AvClientStartFails, StartStream, StartStreamFails,
     LoopSeesClose, LoopLosesPeer, StopStream, DeInitialize, ReportStop, Forget,
     ReportFailure, At, Goto, TypeOK, wrap, view
<1>2. CASE Forget(p)
  <2>1. /\ Over(p) /\ pc'[p] = "done" /\ recordFileQueue' = recordFileQueue
        /\ iotcUp' = iotcUp /\ avUp' = avUp /\ session' = session /\ channel' = channel
    BY <1>0, <1>2 DEF Forget, At, Goto, Over, TypeOK, wrap, library
  <2>2. \A q \in Plays : /\ Over(q) => Over(q)'
                         /\ pc'[q] = "idle" <=> pc[q] = "idle"
                         /\ pc'[q] \in Live \cup {"init", "report", "freport"}
                               => pc'[q] = pc[q]
    BY <1>1, <2>1 DEF Over, Live
  <2>3. LastPlayOnly'
    BY <1>1, <2>2 DEF IInv, LastPlayOnly
  <2>4. OneStartPending'
    BY <1>1, <1>i, <2>2 DEF IInv, OneStartPending, StartOp
  <2>5. OneEndNotice' /\ ToldIsOver'
    BY <1>1, <1>i, <2>1, <2>2 DEF IInv, OneEndNotice, EndNotice, ToldIsOver,
                                  Told, EndBlock, Down
  <2>6. LibraryFollowsBlock'
    BY <1>1, <1>i, <2>1, <2>2 DEF IInv, LibraryFollowsBlock, Down
  <2>. QED
    BY <1>0, <2>3, <2>4, <2>5, <2>6 DEF IInv
<1>3. CASE pc[p] # "forget"
  <2>1. p = opened /\ opened # 0 /\ ~Over(opened)
    BY <1>1, <1>3, <1>i DEF IInv, LastPlayOnly, Over
  <2>2. /\ \A i \in 1 .. Len(streamQueue) : ~StartOp(i)
        /\ \A i \in 1 .. Len(recordFileQueue) : ~EndNotice(i)
        /\ ~Told(opened)
    BY <1>1, <2>1 DEF IInv, OneStartPending, OneEndNotice, ToldIsOver
  <2>3. OneStartPending'
    BY <1>1, <2>2 DEF OneStartPending, StartOp
  <2>4. LastPlayOnly'
    BY <1>1, <1>i, <2>1 DEF IInv, LastPlayOnly, Over
  <2>5. ~Told(opened)'
    BY <1>1, <2>2 DEF Told, EndBlock
  <2>6. ToldIsOver'
    BY <2>5 DEF ToldIsOver
  <2>7. ASSUME ~(ReportStop(p) \/ ReportFailure(p))
        PROVE  OneEndNotice'
    <3>1. \/ recordFileQueue' = recordFileQueue
          \/ recordFileQueue' = Append(recordFileQueue, "started")
      BY <1>2, <2>7 DEF Block, Initialize, InitializeFails, Connect, ConnectFails,
         AvClientStart, AvClientStartFails, StartStream, StartStreamFails,
         LoopSeesClose, LoopLosesPeer, StopStream, DeInitialize, Forget, Report, wrap
    <3>2. CASE recordFileQueue' = recordFileQueue
      BY <2>2, <3>2 DEF OneEndNotice, EndNotice
    <3>3. CASE recordFileQueue' = Append(recordFileQueue, "started")
      <4>1. /\ Len(recordFileQueue') = Len(recordFileQueue) + 1
            /\ \A i \in 1 .. Len(recordFileQueue) : recordFileQueue'[i] = recordFileQueue[i]
            /\ recordFileQueue'[Len(recordFileQueue) + 1] = "started"
        BY <1>0, <3>3, AppendFacts DEF TypeOK, Notices
      <4>2. \A i \in 1 .. Len(recordFileQueue') : ~EndNotice(i)'
        BY <1>i, <2>2, <4>1 DEF EndNotice
      <4>. QED
        BY <4>2 DEF OneEndNotice
    <3>. QED
      BY <3>1, <3>2, <3>3
  <2>8. ASSUME ReportStop(p) \/ ReportFailure(p)
        PROVE  OneEndNotice' /\ LibraryFollowsBlock'
    <3>1. /\ pc[p] \in {"report", "freport"} /\ pc'[p] \in {"forget", "done"}
          /\ iotcUp' = iotcUp /\ avUp' = avUp /\ session' = session /\ channel' = channel
          /\ \/ recordFileQueue' = recordFileQueue
             \/ \E n \in Notices : recordFileQueue' = Append(recordFileQueue, n)
      BY <1>0, <2>8 DEF ReportStop, ReportFailure, Report, At, Goto, library, TypeOK, Notices
    <3>2. Down /\ Down'
      BY <2>1, <3>1 DEF IInv, LibraryFollowsBlock, Down
    <3>3. Over(opened)'
      BY <1>1, <2>1, <3>1 DEF Over
    <3>4. \A i, j \in 1 .. Len(recordFileQueue') : EndNotice(i)' /\ EndNotice(j)' => i = j
      <4>1. CASE recordFileQueue' = recordFileQueue
        BY <2>2, <4>1 DEF EndNotice
      <4>2. ASSUME NEW n \in Notices, recordFileQueue' = Append(recordFileQueue, n)
            PROVE  \A i \in 1 .. Len(recordFileQueue') :
                      EndNotice(i)' => i = Len(recordFileQueue) + 1
        BY <1>0, <1>i, <2>2, <4>2, AppendFacts DEF EndNotice, TypeOK
      <4>. QED
        BY <3>1, <4>1, <4>2
    <3>5. OneEndNotice'
      BY <1>1, <2>1, <2>5, <3>2, <3>3, <3>4 DEF OneEndNotice
    <3>6. \A q \in Plays : pc'[q] \notin Live
      BY <1>1, <1>i, <2>1, <3>1 DEF IInv, LastPlayOnly, Over, Live
    <3>. QED
      BY <3>2, <3>5, <3>6 DEF LibraryFollowsBlock
  <2>9. ASSUME ~(ReportStop(p) \/ ReportFailure(p))
        PROVE  LibraryFollowsBlock'
    <3>1. \A q \in Plays : q # opened => pc'[q] \notin Live
      BY <1>1, <1>i, <2>1 DEF IInv, LastPlayOnly, Over, Live
    <3>2. pc[p] \in Live => iotcUp /\ avUp
      BY DEF IInv, LibraryFollowsBlock
    <3>3. pc'[p] \in Live => iotcUp' /\ avUp'
      BY <1>0, <1>2, <2>9, <3>2 DEF Block, Initialize, InitializeFails, Connect,
         ConnectFails, AvClientStart, AvClientStartFails, StartStream,
         StartStreamFails, LoopSeesClose, LoopLosesPeer, StopStream, DeInitialize,
         Forget, At, Goto, library, TypeOK, Live
    <3>4. pc'[p] \in {"idle", "init", "report", "freport"} => Down'
      <4>1. CASE DeInitialize(p)
        BY <4>1 DEF DeInitialize, AvDeInitialize, IotcDeInitialize, Down
      <4>2. CASE ~DeInitialize(p)
        <5>1. pc'[p] \notin {"idle", "init", "report", "freport"}
          BY <1>0, <2>9, <4>2 DEF Block, Initialize, InitializeFails, Connect,
             ConnectFails, AvClientStart, AvClientStartFails, StartStream,
             StartStreamFails, LoopSeesClose, LoopLosesPeer, StopStream, Forget,
             Goto, TypeOK
        <5>. QED
          BY <5>1
      <4>. QED
        BY <4>1, <4>2
    <3>. QED
      BY <1>1, <2>1, <3>1, <3>3, <3>4 DEF LibraryFollowsBlock
  <2>. QED
    BY <1>0, <2>3, <2>4, <2>6, <2>7, <2>8, <2>9 DEF IInv
<1>. QED
  BY <1>2, <1>3 DEF Block, Initialize, InitializeFails, Connect, ConnectFails,
     AvClientStart, AvClientStartFails, StartStream, StartStreamFails,
     LoopSeesClose, LoopLosesPeer, StopStream, DeInitialize, ReportStop,
     ReportFailure, At

LEMMA StutterInv == ASSUME IInv, UNCHANGED vars PROVE IInv'
<1>1. TypeOK'
  BY StutterType DEF IInv
<1>. QED
  BY <1>1 DEF IInv, LastPlayOnly, OneStartPending, OneEndNotice, ToldIsOver,
     LibraryFollowsBlock, StartOp, EndNotice, EndBlock, Told, Over, Down,
     vars, manager, wrap, view, block, library

LEMMA InvStep == IInv /\ [Next]_vars => IInv'
BY UserInv, MainThreadInv, RecordFileQueueInv, StreamQueueInv, BlockInv, StutterInv
DEF Next

\* The inductive invariant: only the last play can be under way, one start and
\* one notice of an end are pending at most, and a view that was told its play
\* has ended was told the truth.
THEOREM InvariantHolds == Spec => []IInv
BY InitInv, InvStep, PTL DEF Spec

-----------------------------------------------------------------------------
(* What follows from it.                                                   *)

\* Although P2PManager puts its blocks on a concurrent queue and keeps their
\* state in shared instance variables, no two of them use the library at the
\* same time: the player view serializes them.
THEOREM OnePlay == Spec => []OnePlayAtATime
<1>1. IInv => OnePlayAtATime
  <2>. SUFFICES ASSUME IInv, NEW p \in Plays, NEW q \in Plays,
                       pc[p] \in Live, pc[q] \in Live
                PROVE  p = q
    BY DEF OnePlayAtATime
  <2>1. \A r \in Plays : pc[r] \in Live => r = opened
    BY Indices DEF IInv, LastPlayOnly, Over, Live
  <2>. QED
    BY <2>1
<1>. QED
  BY InvariantHolds, <1>1, PTL

\* A user back at the device list, or who has read the failure alert, left no
\* session, no channel and no initialized library behind: the two events the
\* view waits for only come after the block has torn everything down.
THEOREM NothingLeft == Spec => []NothingLeftBehind
<1>1. IInv => NothingLeftBehind
  <2>. SUFFICES ASSUME IInv, top = Nobody \/ playingFailed[top]
                PROVE  Down
    BY DEF NothingLeftBehind, Down
  <2>1. top \in {Nobody, opened}
    BY DEF IInv, LastPlayOnly
  <2>2. CASE opened = 0
    BY <2>2 DEF IInv, LibraryFollowsBlock
  <2>3. CASE opened # 0
    BY <2>1, <2>3 DEF IInv, ToldIsOver, Told, Nobody
  <2>. QED
    BY <2>2, <2>3
<1>. QED
  BY InvariantHolds, <1>1, PTL

\* A block calls the library only between its initialization and its shutdown,
\* although any block may shut it down.
THEOREM LiveLibrary == Spec => []CallsOnLiveLibrary
<1>1. IInv => CallsOnLiveLibrary
  BY DEF IInv, LibraryFollowsBlock, CallsOnLiveLibrary
<1>. QED
  BY InvariantHolds, <1>1, PTL

-----------------------------------------------------------------------------
(* Ownership of what the shared instance variables denote.                 *)

\* A step that leaves the library, the two ids and the blocks alone, but for
\* blocks that begin or end.
LEMMA OwnershipStays ==
    ASSUME TearsDownItsOwn,
           SID' = SID, avIndex' = avIndex, session' = session, channel' = channel,
           arg' = arg,
           \A q \in Plays : pc'[q] = pc[q] \/ pc'[q] \in {"init", "done"}
    PROVE  TearsDownItsOwn'
BY DEF TearsDownItsOwn

LEMMA BlockOwnership ==
    ASSUME IInv, TearsDownItsOwn, NEW p \in Plays, Block(p)
    PROVE  TearsDownItsOwn'
<1>i. /\ opened \in Nat /\ Plays \subseteq Nat \ {0} /\ TypeOK
  BY Indices DEF IInv
<1>1. /\ \A q \in Plays : q # p => pc'[q] = pc[q]
      /\ pc[p] \notin {"idle", "done"}
  BY <1>i DEF Block, Initialize, InitializeFails, Connect, ConnectFails,
     AvClientStart, AvClientStartFails, StartStream, StartStreamFails,
     LoopSeesClose, LoopLosesPeer, StopStream, DeInitialize, ReportStop, Forget,
     ReportFailure, At, Goto, TypeOK
<1>2. CASE Forget(p)
  <2>1. /\ SID' = SID /\ avIndex' = avIndex /\ session' = session
        /\ channel' = channel /\ arg' = arg /\ pc'[p] = "done"
    BY <1>2, <1>i DEF Forget, Goto, library, TypeOK
  <2>. QED
    BY <1>1, <2>1, OwnershipStays
<1>3. CASE pc[p] # "forget"
  <2>1. p = opened
    BY <1>1, <1>3, <1>i DEF IInv, LastPlayOnly, Over
  <2>2. \A q \in Plays : q # p => pc'[q] \in {"idle", "forget", "done"}
    BY <1>1, <1>i, <2>1 DEF IInv, LastPlayOnly, Over
  <2>3. SUFFICES
          /\ pc'[p] \in {"avstart", "ioctl", "loop", "stopping"} =>
                SID' \in Handles /\ session'[SID'] = p
          /\ pc'[p] \in {"ioctl", "loop", "stopping"} =>
                avIndex' \in Handles /\ channel'[avIndex'] = p
          /\ pc'[p] \in {"loop", "stopping"} => arg'[p] = avIndex'
    BY <2>2 DEF TearsDownItsOwn
  <2>4. CASE \/ Initialize(p) \/ InitializeFails(p) \/ ConnectFails(p)
             \/ AvClientStartFails(p) \/ StartStreamFails(p) \/ StopStream(p)
             \/ DeInitialize(p) \/ ReportStop(p) \/ ReportFailure(p)
    <3>1. pc'[p] \in {"connect", "done", "fdeinit", "deinit", "report", "freport", "forget"}
      BY <2>4, <1>i DEF Initialize, InitializeFails, ConnectFails,
         AvClientStartFails, StartStreamFails, StopStream, DeInitialize,
         ReportStop, ReportFailure, Goto, TypeOK
    <3>. QED
      BY <3>1
  <2>5. CASE Connect(p)
    <3>1. pc'[p] \in {"avstart", "done"}
      BY <2>5, <1>i DEF Connect, Goto, TypeOK
    <3>2. SID' \in Handles /\ session'[SID'] = p
      BY <2>5, <1>i DEF Connect, TypeOK
    <3>. QED
      BY <3>1, <3>2
  <2>6. CASE AvClientStart(p)
    <3>1. pc[p] = "avstart" /\ pc'[p] = "ioctl" /\ SID' = SID /\ session' = session
      BY <2>6, <1>i DEF AvClientStart, At, Goto, TypeOK
    <3>2. SID \in Handles /\ session[SID] = p
      BY <3>1 DEF TearsDownItsOwn
    <3>3. avIndex' \in Handles /\ channel'[avIndex'] = p
      BY <2>6, <3>2, <1>i DEF AvClientStart, TypeOK
    <3>. QED
      BY <3>1, <3>2, <3>3
  <2>7. CASE StartStream(p)
    <3>1. /\ pc[p] = "ioctl" /\ pc'[p] = "loop" /\ SID' = SID /\ avIndex' = avIndex
          /\ session' = session /\ channel' = channel /\ arg'[p] = avIndex
      BY <2>7, <1>i DEF StartStream, At, Goto, TypeOK, manager, library
    <3>. QED
      BY <3>1 DEF TearsDownItsOwn
  <2>8. CASE LoopSeesClose(p) \/ LoopLosesPeer(p)
    <3>1. /\ pc[p] = "loop" /\ pc'[p] = "stopping" /\ SID' = SID /\ avIndex' = avIndex
          /\ session' = session /\ channel' = channel /\ arg' = arg
      BY <2>8, <1>i DEF LoopSeesClose, LoopLosesPeer, At, Goto, TypeOK, manager, library
    <3>. QED
      BY <3>1 DEF TearsDownItsOwn
  <2>. QED
    BY <1>3, <2>4, <2>5, <2>6, <2>7, <2>8 DEF Block, Forget, At
<1>. QED
  BY <1>2, <1>3 DEF Block, Initialize, InitializeFails, Connect, ConnectFails,
     AvClientStart, AvClientStartFails, StartStream, StartStreamFails,
     LoopSeesClose, LoopLosesPeer, StopStream, DeInitialize, ReportStop,
     ReportFailure, At

LEMMA OwnershipStep ==
    IInv /\ TearsDownItsOwn /\ [Next]_vars => TearsDownItsOwn'
<1>. SUFFICES ASSUME IInv, TearsDownItsOwn, [Next]_vars
              PROVE  TearsDownItsOwn'
  OBVIOUS
<1>0. TypeOK
  BY DEF IInv
<1>1. CASE User \/ MainThread \/ RecordFileQueue \/ StreamStart \/ StreamStop \/ UNCHANGED vars
  <2>1. /\ SID' = SID /\ avIndex' = avIndex /\ session' = session
        /\ channel' = channel /\ arg' = arg /\ pc' = pc
    BY <1>1 DEF User, OpenPlayer, CloseFailed, PressClose, DismissAlert, MainThread,
       MainRegister, MainUnregister, MainStopped, MainFailed, RecordFileQueue,
       RecordStarted, RecordEnded, StreamStart, StreamStop, vars, manager, block, library
  <2>. QED
    BY <2>1, OwnershipStays
<1>2. CASE StreamConnect
  <2>1. /\ SID' = SID /\ avIndex' = avIndex /\ session' = session
        /\ channel' = channel /\ arg' = arg
        /\ \A q \in Plays : pc'[q] = pc[q] \/ pc'[q] = "init"
    BY <1>0, <1>2 DEF StreamConnect, manager, library, TypeOK
  <2>. QED
    BY <2>1, OwnershipStays
<1>3. ASSUME NEW p \in Plays, Block(p)
      PROVE  TearsDownItsOwn'
  BY <1>3, BlockOwnership
<1>. QED
  BY <1>1, <1>2, <1>3 DEF Next, StreamQueue

\* A block never reaches another play's session or channel through the SID and
\* the avIndex all blocks share, and stops the channel it has received from.
THEOREM Ownership == Spec => []TearsDownItsOwn
<1>1. Init => TearsDownItsOwn
  BY DEF Init, TearsDownItsOwn
<1>. QED
  BY InvariantHolds, <1>1, OwnershipStep, PTL DEF Spec
-----------------------------------------------------------------------------
(* What a view knows of its stream, if the main queue and streamQueue are   *)
(* quick enough.                                                            *)

Receiving == \E p \in Plays : pc[p] \in {"loop", "stopping", "deinit", "report"}
EndUnderWay == \E i \in 1 .. Len(recordFileQueue) : EndNotice(i)

\* What a block does after the network has answered its connection.
Answered == {"avstart", "ioctl", "loop", "stopping", "deinit", "report", "forget",
             "fdeinit", "freport"}

EarlierDone == \A p \in Plays : p < opened => pc[p] = "done"

\* The reports of the last play name the device LibCoreWrap asks for.
NamesCurrent ==
    opened # 0 =>
        /\ pc[opened] = "init" => dev[opened] = currentDeviceId
        /\ pc[opened] \in Answered \cup {"connect"} =>
              pc[opened] = "forget" \/ deviceID = currentDeviceId

\* The view on screen is registered before anything can be told to it, and no
\* block of an earlier view unregisters it.
Registered ==
    top # Nobody =>
        /\ \/ top \in streamObersvers
           \/ \E i \in 1 .. Len(mainQueue) :
                 mainQueue[i].kind = "register" /\ top \in mainQueue[i].views
        /\ pc[top] \in Answered \/ EndUnderWay => top \in streamObersvers
        /\ \A i \in 1 .. Len(mainQueue) :
              mainQueue[i].kind = "unregister" => top \notin mainQueue[i].views

\* A notice of a start is followed by that of the end, unless it is yet to come.
StartsEnd ==
    \A i \in 1 .. Len(recordFileQueue) : recordFileQueue[i] = "started" =>
        \/ Receiving
        \/ \E j \in 1 .. Len(recordFileQueue) : i < j /\ EndNotice(j)

UnopenedSilent == \A p \in Plays : p > opened => isStopPlaying[p]

TimedInv ==
    /\ IInv /\ EarlierDone /\ NamesCurrent /\ Registered /\ StartsEnd
    /\ UnopenedSilent /\ ViewKnowsStreamEnded

\* Their common part: what nobody but a block or the main thread touches.
LEMMA TimedStays ==
    ASSUME IInv', EarlierDone, NamesCurrent, Registered, StartsEnd, UnopenedSilent,
           ViewKnowsStreamEnded,
           opened' = opened, top' = top, mainQueue' = mainQueue, pc' = pc, dev' = dev,
           deviceID' = deviceID, currentDeviceId' = currentDeviceId,
           recordFileQueue' = recordFileQueue, streamObersvers' = streamObersvers,
           isStopPlaying' = isStopPlaying
    PROVE  TimedInv'
BY DEF TimedInv, EarlierDone, NamesCurrent, Registered, StartsEnd, UnopenedSilent,
       ViewKnowsStreamEnded, Receiving, EndUnderWay, EndNotice

LEMMA UserTimed ==
    ASSUME TimedInv, IInv', User, AllTiming \subseteq Timing
    PROVE  TimedInv'
<1>i. /\ Len(recordFileQueue) \in Nat /\ Len(mainQueue) \in Nat /\ opened \in Nat
      /\ opened # 0 => opened \in Plays
      /\ Plays \subseteq Nat \ {0}
      /\ IInv /\ TypeOK
  BY Indices DEF TimedInv, IInv
<1>0. /\ EarlierDone /\ NamesCurrent /\ Registered /\ StartsEnd /\ UnopenedSilent
      /\ ViewKnowsStreamEnded
  BY DEF TimedInv
<1>1. ASSUME NEW d \in Devices, OpenPlayer(d)
      PROVE  TimedInv'
  <2>1. /\ opened' = opened + 1 /\ top' = opened + 1 /\ top = 0
        /\ opened + 1 \in Plays /\ pc' = pc /\ dev' = dev
        /\ recordFileQueue' = recordFileQueue /\ isStopPlaying' = isStopPlaying
    BY <1>1, <1>i, ConstantsAssumption
    DEF OpenPlayer, block, TypeOK, Plays, Nobody
  <2>2. /\ Len(mainQueue') = Len(mainQueue) + 1
        /\ \A i \in 1 .. Len(mainQueue) : mainQueue'[i] = mainQueue[i]
        /\ mainQueue'[Len(mainQueue) + 1] = [kind |-> "register", views |-> {opened + 1}]
    <3>1. [kind |-> "register", views |-> {opened + 1}] \in MainBlocks
      BY <2>1 DEF MainBlocks
    <3>. QED
      BY <1>1, <1>i, <3>1, AppendFacts DEF OpenPlayer, TypeOK
  <2>3. opened # 0 => Told(opened)
    BY <2>1 DEF Told
  <2>4. \A i \in 1 .. Len(recordFileQueue) : ~EndNotice(i)
    BY <1>i, <2>3 DEF IInv, OneEndNotice
  <2>5. opened # 0 => pc[opened] = "done"
    <3>1. opened # 0 => pc[opened] # "forget"
      BY <1>1, <1>i DEF OpenPlayer, AllTiming
    <3>. QED
      BY <1>i, <2>3, <3>1 DEF IInv, ToldIsOver, Over
  <2>6. ASSUME NEW p \in Plays, p < opened + 1 PROVE p < opened \/ p = opened
    <3>1. PICK k \in Nat, o \in Nat : k = p /\ o = opened
      BY <1>i
    <3>2. k < o \/ k = o
      BY <2>6, <3>1
    <3>. QED
      BY <3>1, <3>2
  <2>7. EarlierDone'
    <3>1. ASSUME NEW p \in Plays, p < opened' PROVE pc'[p] = "done"
      <4>1. p < opened \/ p = opened
        BY <2>1, <2>6, <3>1
      <4>2. opened # 0
        BY <1>i, <4>1
      <4>. QED
        BY <1>0, <2>1, <2>5, <4>1, <4>2 DEF EarlierDone
    <3>. QED
      BY <3>1 DEF EarlierDone
  <2>8. pc[opened + 1] = "idle"
    BY <1>i, <2>1 DEF IInv, LastPlayOnly
  <2>9. \A p \in Plays : pc[p] \in {"done", "idle"}
    <3>1. \A p \in Plays : p < opened \/ p = opened \/ p > opened
      BY <1>i
    <3>. QED
      BY <1>0, <1>i, <2>5, <3>1 DEF EarlierDone, IInv, LastPlayOnly
  <2>10. \A i \in 1 .. Len(recordFileQueue) : recordFileQueue[i] # "started"
    BY <1>0, <2>4, <2>9 DEF StartsEnd, Receiving
  <2>11. NamesCurrent' /\ StartsEnd'
    BY <2>1, <2>8, <2>10 DEF NamesCurrent, StartsEnd, Answered
  <2>12. UnopenedSilent' /\ isStopPlaying[opened + 1]
    <3>1. \A p \in Plays : p > opened + 1 => p > opened
      BY <1>i
    <3>2. opened + 1 > opened
      BY <1>i
    <3>. QED
      BY <1>0, <2>1, <3>1, <3>2 DEF UnopenedSilent
  <2>13. Registered'
    <3>1. Len(mainQueue) + 1 \in 1 .. Len(mainQueue')
      BY <1>i, <2>2
    <3>2. /\ mainQueue'[Len(mainQueue) + 1].kind = "register"
          /\ opened + 1 \in mainQueue'[Len(mainQueue) + 1].views
      BY <2>2
    <3>3. ~EndUnderWay' /\ pc'[opened + 1] \notin Answered
      BY <2>1, <2>4, <2>8 DEF EndUnderWay, EndNotice, Answered
    <3>4. ASSUME NEW i \in 1 .. Len(mainQueue'), mainQueue'[i].kind = "unregister"
          PROVE  opened + 1 \notin mainQueue'[i].views
      <4>1. i \in 1 .. Len(mainQueue)
        BY <1>i, <2>2, <3>2, <3>4
      <4>2. mainQueue'[i].views \subseteq 1 .. opened
        BY <1>i, <2>2, <4>1 DEF IInv, LastPlayOnly
      <4>3. opened + 1 \notin 1 .. opened
        BY <1>i
      <4>. QED
        BY <4>2, <4>3
    <3>. QED
      BY <2>1, <3>1, <3>2, <3>3, <3>4 DEF Registered
  <2>14. ViewKnowsStreamEnded'
    BY <2>1, <2>12 DEF ViewKnowsStreamEnded
  <2>. QED
    BY <2>7, <2>11, <2>12, <2>13, <2>14 DEF TimedInv
<1>2. CASE CloseFailed
  <2>1. /\ opened' = opened /\ pc' = pc /\ dev' = dev /\ deviceID' = deviceID
        /\ currentDeviceId' = currentDeviceId /\ recordFileQueue' = recordFileQueue
        /\ isStopPlaying' = isStopPlaying /\ top' = Nobody
    BY <1>2 DEF CloseFailed, manager, wrap, block
  <2>2. EarlierDone' /\ NamesCurrent' /\ StartsEnd' /\ UnopenedSilent'
    BY <1>0, <2>1 DEF EarlierDone, NamesCurrent, StartsEnd, UnopenedSilent, Receiving, EndNotice
  <2>3. Registered' /\ ViewKnowsStreamEnded'
    BY <2>1 DEF Registered, ViewKnowsStreamEnded, Nobody
  <2>. QED
    BY <2>2, <2>3 DEF TimedInv
<1>3. CASE PressClose \/ \E p \in Plays : DismissAlert(p)
  <2>1. /\ opened' = opened /\ top' = top /\ mainQueue' = mainQueue /\ pc' = pc
        /\ dev' = dev /\ deviceID' = deviceID /\ currentDeviceId' = currentDeviceId
        /\ recordFileQueue' = recordFileQueue /\ streamObersvers' = streamObersvers
        /\ isStopPlaying' = isStopPlaying
    BY <1>3 DEF PressClose, DismissAlert, manager, wrap, view, block
  <2>. QED
    BY <1>0, <2>1, TimedStays
<1>. QED
  BY <1>1, <1>2, <1>3 DEF User

\* A block leaves the front of the main queue, and e may come to its end.
LEMMA RegisteredStays ==
    ASSUME IInv, Registered, top' = top, pc' = pc, recordFileQueue' = recordFileQueue,
           mainQueue # <<>>,
           NEW rest, rest = Tail(mainQueue),
           \/ mainQueue' = rest
           \/ \E e \in MainBlocks : /\ mainQueue' = Append(rest, e)
                                    /\ top # Nobody /\ e.kind = "unregister" => top \notin e.views,
           top # Nobody /\ top \in streamObersvers => top \in streamObersvers',
           top # Nobody /\ Head(mainQueue).kind = "register" /\ top \in Head(mainQueue).views
               => top \in streamObersvers'
    PROVE  Registered'
<1>1. /\ mainQueue \in Seq(MainBlocks) /\ rest \in Seq(MainBlocks)
      /\ Len(mainQueue) \in Nat \ {0} /\ Len(rest) = Len(mainQueue) - 1
      /\ \A i \in 1 .. Len(mainQueue) - 1 : rest[i] = mainQueue[i + 1]
      /\ Head(mainQueue) = mainQueue[1]
  BY TailFacts DEF IInv, TypeOK
<1>2. PICK n \in Nat \ {0} : n = Len(mainQueue)
  BY <1>1
<1>3. PICK m \in Nat : m = Len(mainQueue')
  <2>3. Len(rest) \in Nat
    BY <1>1
  <2>1. CASE mainQueue' = rest
    BY <2>1, <2>3
  <2>2. ASSUME NEW e \in MainBlocks, mainQueue' = Append(rest, e)
        PROVE  Len(mainQueue') \in Nat
    <3>1. Append(rest, e) \in Seq(MainBlocks)
      BY <1>1, AppendFacts
    <3>. QED
      BY <2>2, <3>1
  <2>. QED
    BY <2>1, <2>2
<1>4. /\ n - 1 <= m
      /\ \A i \in 1 .. n - 1 : mainQueue'[i] = mainQueue[i + 1]
      /\ \A i \in 1 .. m : i \in 1 .. n - 1
                           \/ (top # Nobody /\ mainQueue'[i].kind = "unregister"
                                 => top \notin mainQueue'[i].views)
  <2>1. CASE mainQueue' = rest
    BY <1>1, <1>2, <1>3, <2>1
  <2>2. ASSUME NEW e \in MainBlocks, mainQueue' = Append(rest, e),
               top # Nobody /\ e.kind = "unregister" => top \notin e.views
        PROVE  <1>4!1 /\ <1>4!2 /\ <1>4!3
    <3>1. /\ m = n /\ mainQueue'[n] = e
          /\ \A i \in 1 .. n - 1 : mainQueue'[i] = rest[i]
      <4>1. /\ Len(Append(rest, e)) = Len(rest) + 1
            /\ \A i \in 1 .. Len(rest) : Append(rest, e)[i] = rest[i]
            /\ Append(rest, e)[Len(rest) + 1] = e
        BY <1>1, AppendFacts
      <4>2. Len(rest) = n - 1 /\ Len(rest) + 1 = n
        BY <1>1, <1>2
      <4>. QED
        BY <1>3, <2>2, <4>1, <4>2
    <3>2. n - 1 <= m
      BY <3>1
    <3>3. \A i \in 1 .. n - 1 : mainQueue'[i] = mainQueue[i + 1]
      BY <1>1, <1>2, <3>1
    <3>4. \A i \in 1 .. m : i \in 1 .. n - 1 \/ i = n
      BY <3>1
    <3>. QED
      BY <2>2, <3>1, <3>2, <3>3, <3>4
  <2>. QED
    BY <2>1, <2>2
<1>. SUFFICES ASSUME top # Nobody
              PROVE  /\ \/ top \in streamObersvers'
                        \/ \E i \in 1 .. m :
                              mainQueue'[i].kind = "register" /\ top \in mainQueue'[i].views
                     /\ pc[top] \in Answered \/ EndUnderWay => top \in streamObersvers'
                     /\ \A i \in 1 .. m :
                           mainQueue'[i].kind = "unregister" => top \notin mainQueue'[i].views
  BY <1>3 DEF Registered, EndUnderWay, EndNotice
<1>5. \/ top \in streamObersvers'
      \/ \E i \in 1 .. m :
            mainQueue'[i].kind = "register" /\ top \in mainQueue'[i].views
  <2>1. CASE top \in streamObersvers
    BY <2>1
  <2>2. ASSUME NEW i \in 1 .. n, mainQueue[i].kind = "register", top \in mainQueue[i].views
        PROVE  <1>5
    <3>1. CASE i = 1
      BY <1>1, <2>2, <3>1
    <3>2. CASE i # 1
      <4>1. i - 1 \in 1 .. n - 1 /\ i - 1 \in 1 .. m /\ (i - 1) + 1 = i
        BY <1>4, <3>2
      <4>. QED
        BY <1>4, <2>2, <4>1
    <3>. QED
      BY <3>1, <3>2
  <2>. QED
    BY <1>2, <2>1, <2>2 DEF Registered
<1>6. pc[top] \in Answered \/ EndUnderWay => top \in streamObersvers'
  BY DEF Registered
<1>7. ASSUME NEW i \in 1 .. m, mainQueue'[i].kind = "unregister"
      PROVE  top \notin mainQueue'[i].views
  <2>1. CASE i \in 1 .. n - 1
    <3>1. i + 1 \in 1 .. Len(mainQueue)
      BY <1>2, <2>1
    <3>. QED
      BY <1>4, <1>7, <2>1, <3>1 DEF Registered
  <2>. QED
    BY <1>4, <1>7, <2>1
<1>. QED
  BY <1>5, <1>6, <1>7

LEMMA MainThreadTimed ==
    ASSUME TimedInv, IInv', MainThread
    PROVE  TimedInv'
<1>i. IInv /\ TypeOK
  BY DEF TimedInv, IInv
<1>0. /\ EarlierDone /\ NamesCurrent /\ Registered /\ StartsEnd /\ UnopenedSilent
      /\ ViewKnowsStreamEnded
  BY DEF TimedInv
<1>1. /\ opened' = opened /\ pc' = pc /\ dev' = dev /\ deviceID' = deviceID
      /\ currentDeviceId' = currentDeviceId /\ recordFileQueue' = recordFileQueue
      /\ isStopPlaying' = isStopPlaying /\ (top' = top \/ top' = Nobody)
      /\ mainQueue # <<>>
  BY DEF MainThread, MainRegister, MainUnregister, MainStopped, MainFailed, MainHead,
         manager, wrap, block
<1>2. EarlierDone' /\ NamesCurrent' /\ StartsEnd' /\ UnopenedSilent'
  BY <1>0, <1>1 DEF EarlierDone, NamesCurrent, StartsEnd, UnopenedSilent, Receiving, EndNotice
<1>3. ViewKnowsStreamEnded'
  BY <1>0, <1>1 DEF ViewKnowsStreamEnded
<1>4. Registered'
  <2>1. CASE MainRegister
    <3>1. /\ top' = top /\ mainQueue' = Tail(mainQueue)
          /\ streamObersvers' = streamObersvers \cup Head(mainQueue).views
      BY <2>1 DEF MainRegister
    <3>. QED
      BY <1>0, <1>1, <1>i, <3>1, RegisteredStays
  <2>2. CASE MainUnregister
    <3>1. /\ top' = top /\ mainQueue' = Tail(mainQueue)
          /\ streamObersvers' = streamObersvers \ Head(mainQueue).views
          /\ Head(mainQueue).kind = "unregister"
      BY <2>2 DEF MainUnregister, MainHead
    <3>2. Head(mainQueue) = mainQueue[1] /\ 1 \in 1 .. Len(mainQueue)
      BY <1>1, <1>i, TailFacts DEF TypeOK
    <3>3. top # Nobody => top \notin Head(mainQueue).views
      BY <1>0, <3>1, <3>2 DEF Registered
    <3>. QED
      BY <1>0, <1>1, <1>i, <3>1, <3>3, RegisteredStays
  <2>3. CASE MainStopped /\ top' # Nobody
    <3>. DEFINE e == [kind |-> "unregister", views |-> Head(mainQueue).views]
    <3>1. /\ top' = top /\ top \notin Head(mainQueue).views
          /\ mainQueue' = Append(Tail(mainQueue), e)
          /\ streamObersvers' = streamObersvers /\ Head(mainQueue).kind = "stopped"
      BY <2>3 DEF MainStopped, MainHead, wrap
    <3>2. e \in MainBlocks
      <4>1. Head(mainQueue) \in MainBlocks
        BY <1>1, <1>i, TailFacts DEF TypeOK
      <4>. QED
        BY <4>1 DEF MainBlocks
    <3>3. e.kind = "unregister" => top \notin e.views
      BY <3>1
    <3>. HIDE DEF e
    <3>. QED
      BY <1>0, <1>1, <1>i, <3>1, <3>2, <3>3, RegisteredStays
  <2>4. CASE MainFailed
    <3>1. /\ top' = top /\ mainQueue' = Tail(mainQueue)
          /\ streamObersvers' = streamObersvers /\ Head(mainQueue).kind = "failed"
      BY <2>4 DEF MainFailed, MainHead, wrap
    <3>. QED
      BY <1>0, <1>1, <1>i, <3>1, RegisteredStays
  <2>5. CASE top' = Nobody
    BY <2>5 DEF Registered
  <2>. QED
    BY <2>1, <2>2, <2>3, <2>4, <2>5 DEF MainThread
<1>. QED
  BY <1>2, <1>3, <1>4 DEF TimedInv

LEMMA RecordFileQueueTimed ==
    ASSUME TimedInv, IInv', RecordFileQueue
    PROVE  TimedInv'
<1>i. IInv /\ TypeOK
  BY DEF TimedInv, IInv
<1>0. /\ EarlierDone /\ NamesCurrent /\ Registered /\ StartsEnd /\ UnopenedSilent
      /\ ViewKnowsStreamEnded
  BY DEF TimedInv
<1>1. /\ opened' = opened /\ pc' = pc /\ dev' = dev /\ deviceID' = deviceID /\ top' = top
      /\ currentDeviceId' = currentDeviceId /\ streamObersvers' = streamObersvers
      /\ recordFileQueue' = Tail(recordFileQueue) /\ recordFileQueue # <<>>
  BY DEF RecordFileQueue, RecordStarted, RecordEnded, RecordHead, manager, block
<1>2. PICK n \in Nat : /\ Len(recordFileQueue) = n + 1 /\ Len(recordFileQueue') = n
                       /\ \A i \in 1 .. n : recordFileQueue'[i] = recordFileQueue[i + 1]
                       /\ Head(recordFileQueue) = recordFileQueue[1]
  <2>1. PICK n \in Nat \ {0} : n = Len(recordFileQueue)
    BY <1>1, <1>i, TailFacts DEF TypeOK
  <2>2. /\ Len(recordFileQueue') = n - 1 /\ Head(recordFileQueue) = recordFileQueue[1]
        /\ \A i \in 1 .. n - 1 : recordFileQueue'[i] = recordFileQueue[i + 1]
    BY <1>1, <1>i, <2>1, TailFacts DEF TypeOK
  <2>3. n - 1 \in Nat /\ (n - 1) + 1 = n
    BY <2>1
  <2>. QED
    BY <2>1, <2>2, <2>3
<1>3. \A i \in 1 .. n : i + 1 \in 1 .. n + 1 /\ (EndNotice(i)' <=> EndNotice(i + 1))
  BY <1>2 DEF EndNotice
<1>4. EndUnderWay' => EndUnderWay
  BY <1>2, <1>3 DEF EndUnderWay
<1>5. EarlierDone' /\ NamesCurrent'
  BY <1>0, <1>1 DEF EarlierDone, NamesCurrent
<1>6. StartsEnd'
  <2>. SUFFICES ASSUME NEW i \in 1 .. n, recordFileQueue'[i] = "started", ~Receiving
                PROVE  \E j \in 1 .. n : i < j /\ EndNotice(j)'
    BY <1>1, <1>2 DEF StartsEnd, Receiving
  <2>1. PICK j \in 1 .. n + 1 : i + 1 < j /\ EndNotice(j)
    BY <1>0, <1>2, <1>3 DEF StartsEnd
  <2>2. j - 1 \in 1 .. n /\ i < j - 1 /\ (j - 1) + 1 = j
    BY <2>1
  <2>. QED
    BY <1>3, <2>1, <2>2
<1>7. Registered'
  <2>1. \/ mainQueue' = mainQueue
        \/ \E e \in MainBlocks : mainQueue' = Append(mainQueue, e) /\ e.kind # "unregister"
    <3>1. CASE RecordStarted
      BY <3>1 DEF RecordStarted
    <3>2. ASSUME NEW k \in {"stopped", "failed"}, RecordEnded(k)
          PROVE  <2>1
      <4>1. [kind |-> k, views |-> streamObersvers] \in MainBlocks
        BY <1>i DEF MainBlocks, TypeOK
      <4>2. [kind |-> k, views |-> streamObersvers].kind # "unregister"
        OBVIOUS
      <4>. QED
        BY <3>2, <4>1, <4>2 DEF RecordEnded
    <3>. QED
      BY <3>1, <3>2 DEF RecordFileQueue
  <2>2. PICK m \in Nat : m = Len(mainQueue)
    BY <1>i DEF TypeOK
  <2>3. CASE mainQueue' = mainQueue
    BY <1>0, <1>1, <1>4, <2>3 DEF Registered
  <2>4. ASSUME NEW e \in MainBlocks, mainQueue' = Append(mainQueue, e), e.kind # "unregister"
        PROVE  Registered'
    <3>1. /\ Len(mainQueue') = m + 1 /\ mainQueue'[m + 1] = e
          /\ \A i \in 1 .. m : mainQueue'[i] = mainQueue[i]
      BY <1>i, <2>2, <2>4, AppendFacts DEF TypeOK
    <3>2. \A i \in 1 .. m : i \in 1 .. m + 1
      BY <2>2
    <3>3. \A i \in 1 .. m + 1 : i \in 1 .. m \/ i = m + 1
      BY <2>2
    <3>4. top # Nobody =>
             /\ \/ top \in streamObersvers
                \/ \E i \in 1 .. m :
                      mainQueue[i].kind = "register" /\ top \in mainQueue[i].views
             /\ pc[top] \in Answered \/ EndUnderWay => top \in streamObersvers
             /\ \A i \in 1 .. m :
                   mainQueue[i].kind = "unregister" => top \notin mainQueue[i].views
      BY <1>0, <2>2 DEF Registered
    <3>. QED
      BY <1>1, <1>4, <2>4, <3>1, <3>2, <3>3, <3>4 DEF Registered
  <2>. QED
    BY <2>1, <2>3, <2>4
<1>8. UnopenedSilent' /\ ViewKnowsStreamEnded'
  <2>0. 1 \in 1 .. n + 1
    BY <1>2
  <2>1. CASE RecordStarted
    <3>1. /\ isStopPlaying' = [p \in Plays |-> isStopPlaying[p] /\ p \notin streamObersvers]
          /\ recordFileQueue[1] = "started"
      BY <1>2, <2>1 DEF RecordStarted, RecordHead
    <3>2. UnopenedSilent'
      <4>1. \A p \in Plays : p > opened => p \notin 1 .. opened
        BY <1>i, Indices
      <4>. QED
        BY <1>0, <1>1, <1>i, <3>1, <4>1 DEF UnopenedSilent, IInv, LastPlayOnly
    <3>3. Receiving \/ \E j \in 1 .. n + 1 : 1 < j /\ EndNotice(j)
      BY <1>0, <1>2, <2>0, <3>1 DEF StartsEnd
    <3>4. ASSUME NEW j \in 1 .. n + 1, 1 < j, EndNotice(j)
          PROVE  EndUnderWay'
      <4>1. j - 1 \in 1 .. n /\ (j - 1) + 1 = j
        BY <3>4
      <4>. QED
        BY <1>2, <1>3, <3>4, <4>1 DEF EndUnderWay
    <3>5. Receiving' \/ EndUnderWay'
      BY <1>1, <3>3, <3>4 DEF Receiving
    <3>. QED
      BY <3>2, <3>5 DEF ViewKnowsStreamEnded, Receiving, EndUnderWay, EndNotice
  <2>2. ASSUME NEW k \in {"stopped", "failed"}, RecordEnded(k)
        PROVE  UnopenedSilent' /\ ViewKnowsStreamEnded'
    <3>1. /\ isStopPlaying' = [p \in Plays |-> isStopPlaying[p] \/ p \in streamObersvers]
          /\ recordFileQueue[1] = k
      BY <1>2, <2>2 DEF RecordEnded, RecordHead
    <3>2. EndUnderWay
      BY <1>2, <2>0, <3>1 DEF EndUnderWay, EndNotice
    <3>3. top # Nobody => isStopPlaying'[top]
      <4>1. top # Nobody => top \in Plays /\ top \in streamObersvers
        BY <1>0, <1>i, <3>2, Indices DEF Registered, IInv, LastPlayOnly, Nobody
      <4>. QED
        BY <3>1, <4>1
    <3>4. UnopenedSilent'
      BY <1>0, <1>1, <3>1 DEF UnopenedSilent
    <3>. QED
      BY <1>1, <3>3, <3>4 DEF ViewKnowsStreamEnded
  <2>. QED
    BY <2>1, <2>2 DEF RecordFileQueue
<1>. QED
  BY <1>5, <1>6, <1>7, <1>8 DEF TimedInv

LEMMA StreamQueueTimed ==
    ASSUME TimedInv, IInv', StreamQueue
    PROVE  TimedInv'
<1>i. IInv /\ TypeOK
  BY DEF TimedInv, IInv
<1>0. /\ EarlierDone /\ NamesCurrent /\ Registered /\ StartsEnd /\ UnopenedSilent
      /\ ViewKnowsStreamEnded
  BY DEF TimedInv
<1>1. CASE StreamStart \/ StreamStop
  <2>1. /\ opened' = opened /\ top' = top /\ mainQueue' = mainQueue /\ pc' = pc
        /\ dev' = dev /\ deviceID' = deviceID /\ currentDeviceId' = currentDeviceId
        /\ recordFileQueue' = recordFileQueue /\ streamObersvers' = streamObersvers
        /\ isStopPlaying' = isStopPlaying
    BY <1>1 DEF StreamStart, StreamStop, manager, view, block
  <2>. QED
    BY <1>0, <2>1, TimedStays
<1>2. CASE StreamConnect
  <2>1. Head(streamQueue) = streamQueue[1] /\ 1 \in 1 .. Len(streamQueue)
    BY <1>2, <1>i, TailFacts DEF StreamConnect, StreamHead, TypeOK
  <2>2. StartOp(1)
    BY <1>2, <2>1 DEF StreamConnect, StreamHead, StartOp
  <2>3. Head(streamQueue).play = opened /\ opened # 0 /\ pc[opened] = "idle"
    BY <1>i, <2>1, <2>2 DEF IInv, OneStartPending
  <2>4. opened \in Plays /\ opened \in Nat /\ Plays \subseteq Nat
    BY <1>i, <2>3, Indices
  <2>5. /\ opened' = opened /\ top' = top /\ mainQueue' = mainQueue
        /\ currentDeviceId' = currentDeviceId /\ recordFileQueue' = recordFileQueue
        /\ streamObersvers' = streamObersvers /\ isStopPlaying' = isStopPlaying
        /\ pc' = [pc EXCEPT ![opened] = "init"]
        /\ dev' = [dev EXCEPT ![opened] = currentDeviceId]
    BY <1>2, <2>3 DEF StreamConnect, view
  <2>6. /\ pc'[opened] = "init" /\ dev'[opened] = currentDeviceId
        /\ \A p \in Plays : p # opened => pc'[p] = pc[p]
    BY <1>i, <2>4, <2>5 DEF TypeOK
  <2>7. Receiving' <=> Receiving
    BY <2>3, <2>4, <2>6 DEF Receiving
  <2>8. EarlierDone' /\ UnopenedSilent'
    <3>1. \A p \in Plays : p < opened => p # opened
      BY <2>4
    <3>. QED
      BY <1>0, <2>5, <2>6, <3>1 DEF EarlierDone, UnopenedSilent
  <2>9. NamesCurrent'
    BY <2>5, <2>6 DEF NamesCurrent, Answered
  <2>10. StartsEnd' /\ ViewKnowsStreamEnded'
    BY <1>0, <2>5, <2>7 DEF StartsEnd, ViewKnowsStreamEnded, Receiving, EndNotice
  <2>11. Registered'
    <3>1. top # Nobody => pc'[top] \notin Answered
      BY <1>i, <2>6 DEF IInv, LastPlayOnly, Answered
    <3>. QED
      BY <1>0, <2>5, <3>1 DEF Registered, EndUnderWay, EndNotice
  <2>. QED
    BY <2>8, <2>9, <2>10, <2>11 DEF TimedInv
<1>. QED
  BY <1>1, <1>2 DEF StreamQueue

\* What a step of block p leaves to be shown: that what it reports gets through,
\* and that a view is registered when it is told.
LEMMA BlockTimed ==
    ASSUME TimedInv, IInv', NEW p \in Plays, Block(p), AllTiming \subseteq Timing
    PROVE  TimedInv'
<1>i. /\ IInv /\ TypeOK /\ opened \in Nat /\ Plays \subseteq Nat \ {0}
      /\ opened # 0 => opened \in Plays
  BY Indices DEF TimedInv, IInv
<1>0. /\ EarlierDone /\ NamesCurrent /\ Registered /\ StartsEnd /\ UnopenedSilent
      /\ ViewKnowsStreamEnded
  BY DEF TimedInv
<1>1. /\ opened' = opened /\ top' = top /\ mainQueue' = mainQueue
      /\ currentDeviceId' = currentDeviceId /\ streamObersvers' = streamObersvers
      /\ isStopPlaying' = isStopPlaying /\ dev' = dev
  BY DEF Block, Initialize, InitializeFails, Connect, ConnectFails,
     AvClientStart, AvClientStartFails, StartStream, StartStreamFails,
     LoopSeesClose, LoopLosesPeer, StopStream, DeInitialize, ReportStop, Forget,
     ReportFailure, wrap, view, Report
<1>2. /\ \A q \in Plays : q # p => pc'[q] = pc[q]
      /\ pc[p] \in Answered \cup {"init", "connect"}
      /\ pc'[p] \in Answered \cup {"connect", "done"}
  <2>1. \A q \in Plays : q # p => pc'[q] = pc[q]
    BY <1>i DEF Block, Initialize, InitializeFails, Connect, ConnectFails,
       AvClientStart, AvClientStartFails, StartStream, StartStreamFails,
       LoopSeesClose, LoopLosesPeer, StopStream, DeInitialize, ReportStop, Forget,
       ReportFailure, Goto, TypeOK
  <2>2. pc[p] \in Answered \cup {"init", "connect"}
    BY DEF Block, Initialize, InitializeFails, Connect, ConnectFails,
       AvClientStart, AvClientStartFails, StartStream, StartStreamFails,
       LoopSeesClose, LoopLosesPeer, StopStream, DeInitialize, ReportStop, Forget,
       ReportFailure, At, Answered
  <2>3. pc'[p] \in Answered \cup {"connect", "done"}
    BY <1>i DEF Block, Initialize, InitializeFails, Connect, ConnectFails,
       AvClientStart, AvClientStartFails, StartStream, StartStreamFails,
       LoopSeesClose, LoopLosesPeer, StopStream, DeInitialize, ReportStop, Forget,
       ReportFailure, Goto, TypeOK, Answered
  <2>. QED
    BY <2>1, <2>2, <2>3
<1>3. p = opened /\ opened # 0
  <2>1. p < opened \/ p = opened \/ p > opened
    <3>1. PICK k \in Nat, o \in Nat : k = p /\ o = opened
      BY <1>i
    <3>2. k < o \/ k = o \/ k > o
      BY <3>1
    <3>. QED
      BY <3>1, <3>2
  <2>2. pc[p] # "done" /\ pc[p] # "idle"
    BY <1>2 DEF Answered
  <2>. QED
    BY <1>0, <1>i, <2>1, <2>2 DEF EarlierDone, IInv, LastPlayOnly
<1>4. EarlierDone' /\ UnopenedSilent'
  <2>1. \A q \in Plays : q < opened => q # p
    BY <1>i, <1>3
  <2>. QED
    BY <1>0, <1>1, <1>2, <2>1 DEF EarlierDone, UnopenedSilent
<1>5. top = opened \/ pc[p] = "forget"
  <2>1. CASE pc[p] = "forget"
    BY <2>1
  <2>2. CASE pc[p] # "forget"
    <3>1. ~Over(opened)
      BY <1>2, <1>3, <2>2 DEF Over, Answered
    <3>2. ~Told(opened)
      BY <1>3, <1>i, <3>1 DEF IInv, ToldIsOver
    <3>. QED
      BY <3>2 DEF Told
  <2>. QED
    BY <2>1, <2>2
<1>6. NamesCurrent'
  <2>1. CASE Initialize(p)
    <3>1. pc[p] = "init" /\ pc'[p] = "connect" /\ deviceID' = dev[p]
      BY <1>i, <2>1 DEF Initialize, At, Goto, TypeOK
    <3>2. dev[p] = currentDeviceId
      BY <1>0, <1>3, <3>1 DEF NamesCurrent
    <3>. QED
      BY <1>1, <1>3, <3>1, <3>2 DEF NamesCurrent
  <2>2. CASE InitializeFails(p) \/ Forget(p)
    <3>1. pc'[p] = "done"
      BY <1>i, <2>2 DEF InitializeFails, Forget, Goto, TypeOK
    <3>. QED
      BY <1>1, <1>3, <3>1 DEF NamesCurrent, Answered
  <2>3. CASE ~(Initialize(p) \/ InitializeFails(p) \/ Forget(p))
    <3>1. deviceID' = deviceID /\ pc[p] # "init" /\ pc[p] # "forget"
      BY <2>3 DEF Block, Connect, ConnectFails,
         AvClientStart, AvClientStartFails, StartStream, StartStreamFails,
         LoopSeesClose, LoopLosesPeer, StopStream, DeInitialize, ReportStop,
         ReportFailure, At, manager
    <3>2. deviceID = currentDeviceId
      BY <1>0, <1>2, <1>3, <3>1 DEF NamesCurrent
    <3>. QED
      BY <1>1, <1>2, <1>3, <3>1, <3>2 DEF NamesCurrent, Answered
  <2>. QED
    BY <2>1, <2>2, <2>3
<1>7. CASE Initialize(p) \/ InitializeFails(p) \/ Connect(p) \/ ConnectFails(p)
           \/ AvClientStart(p) \/ AvClientStartFails(p) \/ StartStreamFails(p) \/ Forget(p)
  <2>1. /\ recordFileQueue' = recordFileQueue
        /\ pc[p] \notin {"loop", "stopping", "deinit", "report"}
    BY <1>7 DEF Initialize, InitializeFails, Connect, ConnectFails, AvClientStart,
       AvClientStartFails, StartStreamFails, Forget, At, wrap
  <2>2. Receiving => Receiving'
    BY <1>2, <2>1 DEF Receiving
  <2>3. StartsEnd' /\ ViewKnowsStreamEnded'
    BY <1>0, <1>1, <2>1, <2>2 DEF StartsEnd, ViewKnowsStreamEnded, Receiving, EndNotice
  <2>4. top # Nobody /\ pc'[p] \in Answered => top \in streamObersvers
    <3>1. CASE Connect(p) \/ ConnectFails(p)
      <4>1. \A i \in 1 .. Len(mainQueue) : mainQueue[i].kind # "register"
        BY <3>1 DEF Connect, ConnectFails, NetworkMayAnswer, AllTiming
      <4>. QED
        BY <1>0, <4>1 DEF Registered
    <3>2. CASE Initialize(p) \/ InitializeFails(p) \/ Forget(p)
      <4>1. pc'[p] \in {"connect", "done"}
        BY <1>i, <3>2 DEF Initialize, InitializeFails, Forget, Goto, TypeOK
      <4>. QED
        BY <4>1 DEF Answered
    <3>3. CASE AvClientStart(p) \/ AvClientStartFails(p) \/ StartStreamFails(p)
      <4>1. pc[p] \in {"avstart", "ioctl"}
        BY <3>3 DEF AvClientStart, AvClientStartFails, StartStreamFails, At
      <4>2. top = opened
        BY <1>5, <4>1
      <4>. QED
        BY <1>0, <1>3, <4>1, <4>2 DEF Registered, Answered
    <3>. QED
      BY <1>7, <3>1, <3>2, <3>3
  <2>5. top # Nobody => top = p
    BY <1>3, <1>i DEF IInv, LastPlayOnly
  <2>6. Registered'
    BY <1>0, <1>1, <2>1, <2>4, <2>5 DEF Registered, EndUnderWay, EndNotice
  <2>. QED
    BY <1>4, <1>6, <2>3, <2>6 DEF TimedInv
<1>8. CASE StartStream(p) \/ LoopSeesClose(p) \/ LoopLosesPeer(p) \/ StopStream(p)
           \/ DeInitialize(p) \/ ReportStop(p) \/ ReportFailure(p)
  <2>1. pc[p] \in Answered /\ pc[p] # "forget"
    BY <1>8 DEF StartStream, LoopSeesClose, LoopLosesPeer, StopStream, DeInitialize,
       ReportStop, ReportFailure, At, Answered
  <2>2. top = p /\ top # Nobody /\ top \in streamObersvers
    BY <1>0, <1>3, <1>5, <2>1 DEF Registered, Nobody
  <2>3. Registered'
    BY <1>0, <1>1, <2>2 DEF Registered
  <2>4. CASE StartStream(p) \/ LoopSeesClose(p) \/ LoopLosesPeer(p) \/ StopStream(p)
             \/ (DeInitialize(p) /\ pc[p] = "deinit")
    <3>1. pc'[p] \in {"loop", "stopping", "deinit", "report"}
      BY <1>i, <2>4 DEF StartStream, LoopSeesClose, LoopLosesPeer, StopStream,
         DeInitialize, At, Goto, TypeOK
    <3>2. Receiving'
      BY <3>1 DEF Receiving
    <3>3. StartsEnd' /\ ViewKnowsStreamEnded'
      BY <3>2 DEF StartsEnd, ViewKnowsStreamEnded, Receiving
    <3>. QED
      BY <1>4, <1>6, <2>3, <3>3 DEF TimedInv
  <2>5. CASE DeInitialize(p) /\ pc[p] # "deinit"
    <3>1. /\ recordFileQueue' = recordFileQueue
          /\ pc[p] \notin {"loop", "stopping", "deinit", "report"}
      BY <2>5 DEF DeInitialize, At, wrap
    <3>2. Receiving => Receiving'
      BY <1>2, <3>1 DEF Receiving
    <3>3. StartsEnd' /\ ViewKnowsStreamEnded'
      BY <1>0, <1>1, <3>1, <3>2 DEF StartsEnd, ViewKnowsStreamEnded, Receiving, EndNotice
    <3>. QED
      BY <1>4, <1>6, <2>3, <3>3 DEF TimedInv
  <2>6. ASSUME NEW k \in {"stopped", "failed"}, Report(k), pc[p] \in {"report", "freport"}
        PROVE  TimedInv'
    <3>1. deviceID = currentDeviceId
      BY <1>0, <1>3, <2>6 DEF NamesCurrent, Answered
    <3>2. recordFileQueue' = Append(recordFileQueue, k)
      BY <2>6, <3>1 DEF Report
    <3>3. PICK n \in Nat : /\ n = Len(recordFileQueue) /\ Len(recordFileQueue') = n + 1
                           /\ \A i \in 1 .. n : recordFileQueue'[i] = recordFileQueue[i]
                           /\ recordFileQueue'[n + 1] = k
      <4>1. k \in Notices /\ recordFileQueue \in Seq(Notices)
        BY <1>i DEF TypeOK, Notices
      <4>. QED
        BY <3>2, <4>1, AppendFacts
    <3>4. n + 1 \in 1 .. n + 1 /\ EndNotice(n + 1)'
      BY <3>3 DEF EndNotice
    <3>5. ASSUME NEW i \in 1 .. n + 1, recordFileQueue'[i] = "started"
          PROVE  i < n + 1
      <4>1. i # n + 1
        BY <3>3, <3>5
      <4>. QED
        BY <4>1
    <3>6. StartsEnd'
      BY <3>3, <3>4, <3>5 DEF StartsEnd
    <3>7. ViewKnowsStreamEnded'
      BY <3>3, <3>4 DEF ViewKnowsStreamEnded, EndNotice
    <3>. QED
      BY <1>4, <1>6, <2>3, <3>6, <3>7 DEF TimedInv
  <2>. QED
    BY <1>8, <2>4, <2>5, <2>6 DEF ReportStop, ReportFailure, At
<1>. QED
  BY <1>7, <1>8 DEF Block

LEMMA TimedStep ==
    ASSUME AllTiming \subseteq Timing
    PROVE  TimedInv /\ [Next]_vars => TimedInv'
<1>. SUFFICES ASSUME TimedInv, [Next]_vars PROVE TimedInv'
  OBVIOUS
<1>1. IInv'
  BY InvStep DEF TimedInv
<1>2. CASE UNCHANGED vars
  BY <1>1, <1>2, TimedStays DEF TimedInv, vars, manager, wrap, view, block
<1>. QED
  BY <1>1, <1>2, UserTimed, MainThreadTimed, RecordFileQueueTimed, StreamQueueTimed,
     BlockTimed DEF Next

LEMMA TimedInit == Init => TimedInv
<1>. SUFFICES ASSUME Init PROVE TimedInv
  OBVIOUS
<1>1. /\ opened = 0 /\ top = Nobody /\ recordFileQueue = <<>>
      /\ pc = [p \in Plays |-> "idle"] /\ isStopPlaying = [p \in Plays |-> TRUE]
  BY DEF Init
<1>2. \A p \in Plays : p \in Nat /\ ~(p < 0)
  BY ConstantsAssumption DEF Plays
<1>3. \A i \in 1 .. Len(recordFileQueue) : FALSE
  BY <1>1
<1>4. EarlierDone
  BY <1>1, <1>2 DEF EarlierDone
<1>5. NamesCurrent /\ Registered /\ UnopenedSilent /\ ViewKnowsStreamEnded
  BY <1>1 DEF NamesCurrent, Registered, UnopenedSilent, ViewKnowsStreamEnded
<1>6. StartsEnd
  BY <1>3 DEF StartsEnd
<1>. QED
  BY <1>4, <1>5, <1>6, InitInv DEF TimedInv

\* A view that believes its stream is running is right, or is about to be told,
\* as long as the main queue is emptied before the network answers and a player is
\* opened only when the earlier plays have returned: no report is dropped for
\* naming another device, and none comes before the view is registered.
THEOREM ViewKnows ==
    ASSUME AllTiming \subseteq Timing
    PROVE  Spec => []ViewKnowsStreamEnded
<1>1. Init => TimedInv
  BY TimedInit
<1>2. TimedInv /\ [Next]_vars => TimedInv'
  BY TimedStep
<1>3. TimedInv => ViewKnowsStreamEnded
  BY DEF TimedInv
<1>. QED
  BY <1>1, <1>2, <1>3, PTL DEF Spec

-----------------------------------------------------------------------------
(* No end is lost, if moreover no block gives up without a report.          *)

\* The session that answers is that of the device LibCoreWrap asks for.
ConnectsCurrent ==
    opened # 0 /\ pc[opened] = "connect" => dev[opened] = currentDeviceId

LastEndKnown == opened # 0 /\ Over(opened) => EndUnderWay \/ Told(opened)

\* Of the views only that of the last play is on screen.
LEMMA LastEndSuffices ==
    ASSUME TimedInv, LastEndKnown
    PROVE  EndIsNotLost
<1>. SUFFICES ASSUME NEW p \in Plays, Over(p)
              PROVE  Told(p) \/ EndUnderWay
  BY DEF EndIsNotLost, EndUnderWay
<1>1. 0 \notin Plays
  BY DEF Plays
<1>2. CASE p = opened
  BY <1>1, <1>2 DEF LastEndKnown
<1>3. CASE p # opened
  <2>1. top # p
    BY <1>1, <1>3 DEF TimedInv, IInv, LastPlayOnly, Nobody
  <2>. QED
    BY <2>1 DEF Told
<1>. QED
  BY <1>2, <1>3

\* A view that knows of an end, or will, is not made to forget by a step of the
\* main thread.
LEMMA MainThreadTells ==
    ASSUME IInv, MainThread, opened # 0, Told(opened)
    PROVE  Told(opened)'
<1>1. /\ opened' = opened /\ playingFailed' = playingFailed /\ mainQueue # <<>>
      /\ mainQueue \in Seq(MainBlocks) /\ top \in {Nobody, opened}
  BY DEF MainThread, MainRegister, MainUnregister, MainStopped, MainFailed, MainHead,
         manager, wrap, block, IInv, TypeOK, LastPlayOnly
<1>2. PICK n \in Nat \ {0} : n = Len(mainQueue)
  BY <1>1, TailFacts
<1>3. /\ Tail(mainQueue) \in Seq(MainBlocks) /\ Head(mainQueue) \in MainBlocks
      /\ Len(Tail(mainQueue)) = n - 1 /\ Head(mainQueue) = mainQueue[1]
      /\ \A i \in 1 .. n - 1 : Tail(mainQueue)[i] = mainQueue[i + 1]
  BY <1>1, <1>2, TailFacts
<1>4. top # opened => Told(opened)'
  <2>1. top' = top \/ top' = Nobody
    BY DEF MainThread, MainRegister, MainUnregister, MainStopped, MainFailed
  <2>. QED
    BY <1>1, <2>1 DEF Told, Nobody
<1>5. opened \in alert \/ playingFailed[opened] => Told(opened)'
  <2>1. alert \subseteq alert'
    BY DEF MainThread, MainRegister, MainUnregister, MainStopped, MainFailed, wrap
  <2>. QED
    BY <1>1, <2>1 DEF Told
<1>6. ASSUME NEW i \in 1 .. n, EndBlock(i, opened), top = opened
      PROVE  Told(opened)'
  <2>1. CASE i = 1
    <3>1. CASE MainStopped
      BY <1>1, <1>3, <1>6, <2>1, <3>1 DEF MainStopped, EndBlock, Told, Nobody
    <3>2. CASE MainFailed
      BY <1>1, <1>3, <1>6, <2>1, <3>2 DEF MainFailed, EndBlock, Told
    <3>3. CASE MainRegister \/ MainUnregister
      BY <1>3, <1>6, <2>1, <3>3 DEF MainRegister, MainUnregister, MainHead, EndBlock
    <3>. QED
      BY <3>1, <3>2, <3>3 DEF MainThread
  <2>2. CASE i # 1
    <3>1. i - 1 \in 1 .. n - 1 /\ (i - 1) + 1 = i
      BY <2>2
    <3>2. \/ mainQueue' = Tail(mainQueue)
          \/ \E e \in MainBlocks : mainQueue' = Append(Tail(mainQueue), e)
      <4>1. [kind |-> "unregister", views |-> Head(mainQueue).views] \in MainBlocks
        BY <1>3 DEF MainBlocks
      <4>. QED
        BY <4>1 DEF MainThread, MainRegister, MainUnregister, MainStopped, MainFailed
    <3>3. i - 1 \in 1 .. Len(mainQueue') /\ mainQueue'[i - 1] = mainQueue[i]
      <4>1. CASE mainQueue' = Tail(mainQueue)
        BY <1>3, <3>1, <4>1
      <4>2. ASSUME NEW e \in MainBlocks, mainQueue' = Append(Tail(mainQueue), e)
            PROVE  <3>3
        <5>1. /\ Len(mainQueue') = (n - 1) + 1
              /\ \A j \in 1 .. n - 1 : mainQueue'[j] = Tail(mainQueue)[j]
          BY <1>3, <4>2, AppendFacts
        <5>2. i - 1 \in 1 .. (n - 1) + 1
          BY <3>1
        <5>. QED
          BY <1>3, <3>1, <5>1, <5>2
      <4>. QED
        BY <3>2, <4>1, <4>2
    <3>. QED
      BY <1>1, <1>6, <3>3 DEF EndBlock, Told
  <2>. QED
    BY <2>1, <2>2
<1>. QED
  BY <1>2, <1>4, <1>5, <1>6 DEF Told

\* The view on screen is registered when the notice is delivered, so the notice
\* goes on to the main queue.
LEMMA RecordFileQueueTells ==
    ASSUME TimedInv, RecordFileQueue, opened # 0, EndUnderWay \/ Told(opened)
    PROVE  EndUnderWay' \/ Told(opened)'
<1>1. /\ opened' = opened /\ top' = top /\ alert' = alert /\ playingFailed' = playingFailed
      /\ recordFileQueue' = Tail(recordFileQueue) /\ recordFileQueue # <<>>
      /\ recordFileQueue \in Seq(Notices)
      /\ mainQueue \in Seq(MainBlocks) /\ streamObersvers \subseteq Plays
  BY DEF RecordFileQueue, RecordStarted, RecordEnded, RecordHead, manager, block,
         TimedInv, IInv, TypeOK
<1>2. PICK n \in Nat \ {0} : n = Len(recordFileQueue)
  BY <1>1, TailFacts
<1>3. /\ Len(recordFileQueue') = n - 1 /\ Head(recordFileQueue) = recordFileQueue[1]
      /\ \A i \in 1 .. n - 1 : recordFileQueue'[i] = recordFileQueue[i + 1]
  BY <1>1, <1>2, TailFacts
<1>4. PICK m \in Nat : m = Len(mainQueue)
  BY <1>1
<1>5. \/ mainQueue' = mainQueue
      \/ \E e \in MainBlocks : mainQueue' = Append(mainQueue, e)
  <2>1. \A k \in {"stopped", "failed"} : [kind |-> k, views |-> streamObersvers] \in MainBlocks
    BY <1>1 DEF MainBlocks
  <2>. QED
    BY <2>1 DEF RecordFileQueue, RecordStarted, RecordEnded
<1>6. Told(opened) => Told(opened)'
  <2>1. \A i \in 1 .. m : i \in 1 .. Len(mainQueue') /\ mainQueue'[i] = mainQueue[i]
    <3>1. CASE mainQueue' = mainQueue
      BY <1>4, <3>1
    <3>2. ASSUME NEW e \in MainBlocks, mainQueue' = Append(mainQueue, e)
          PROVE  <2>1
      <4>1. Len(mainQueue') = m + 1 /\ \A i \in 1 .. m : mainQueue'[i] = mainQueue[i]
        BY <1>1, <1>4, <3>2, AppendFacts
      <4>2. \A i \in 1 .. m : i \in 1 .. m + 1
        BY <1>4
      <4>. QED
        BY <4>1, <4>2
    <3>. QED
      BY <1>5, <3>1, <3>2
  <2>. QED
    BY <1>1, <1>4, <2>1 DEF Told, EndBlock
<1>7. ASSUME NEW i \in 1 .. n, EndNotice(i), i # 1
      PROVE  EndUnderWay'
  <2>1. i - 1 \in 1 .. n - 1 /\ (i - 1) + 1 = i
    BY <1>7
  <2>2. recordFileQueue'[i - 1] = recordFileQueue[i] /\ i - 1 \in 1 .. Len(recordFileQueue')
    BY <1>3, <2>1
  <2>. QED
    BY <1>7, <2>2 DEF EndUnderWay, EndNotice
<1>8. ASSUME EndNotice(1), top = opened
      PROVE  Told(opened)'
  <2>1. PICK k \in {"stopped", "failed"} : RecordEnded(k)
    BY <1>3, <1>8 DEF EndNotice, RecordFileQueue, RecordStarted, RecordHead
  <2>2. 1 \in 1 .. Len(recordFileQueue)
    BY <1>2
  <2>3. opened \in streamObersvers
    BY <1>8, <2>2 DEF TimedInv, Registered, EndUnderWay, Nobody
  <2>. DEFINE e == [kind |-> k, views |-> streamObersvers]
  <2>4. e \in MainBlocks /\ mainQueue' = Append(mainQueue, e)
    BY <1>1, <2>1, <2>3 DEF RecordEnded, MainBlocks
  <2>5. e.kind \in {"stopped", "failed"} /\ opened \in e.views
    BY <2>3
  <2>. HIDE DEF e
  <2>6. Len(mainQueue') = m + 1 /\ mainQueue'[m + 1] = e
    BY <1>1, <1>4, <2>4, AppendFacts
  <2>7. m + 1 \in 1 .. m + 1
    BY <1>4
  <2>. QED
    BY <1>1, <2>5, <2>6, <2>7 DEF Told, EndBlock
<1>. QED
  BY <1>1, <1>2, <1>6, <1>7, <1>8 DEF EndUnderWay, Told

EndInv == TimedInv /\ ConnectsCurrent /\ LastEndKnown

\* What a step of the block of the last play leaves to be known: it ends only with
\* a report that names the current device.
LEMMA BlockTells ==
    ASSUME EndInv, NEW p \in Plays, Block(p), Faults \cap {"init", "uid"} = {}
    PROVE  ConnectsCurrent' /\ LastEndKnown'
<1>i. IInv /\ TypeOK /\ EarlierDone /\ NamesCurrent
  BY DEF EndInv, TimedInv, IInv
<1>1. /\ opened' = opened /\ top' = top /\ alert' = alert /\ playingFailed' = playingFailed
      /\ mainQueue' = mainQueue /\ currentDeviceId' = currentDeviceId /\ dev' = dev
  BY DEF Block, Initialize, InitializeFails, Connect, ConnectFails,
     AvClientStart, AvClientStartFails, StartStream, StartStreamFails,
     LoopSeesClose, LoopLosesPeer, StopStream, DeInitialize, ReportStop, Forget,
     ReportFailure, wrap, view, Report
<1>2. Told(opened)' <=> Told(opened)
  BY <1>1 DEF Told, EndBlock
<1>3. \A q \in Plays : q # p => pc'[q] = pc[q]
  BY <1>i DEF Block, Initialize, InitializeFails, Connect, ConnectFails,
     AvClientStart, AvClientStartFails, StartStream, StartStreamFails,
     LoopSeesClose, LoopLosesPeer, StopStream, DeInitialize, ReportStop, Forget,
     ReportFailure, Goto, TypeOK
<1>4. pc[p] \notin {"idle", "done"}
  BY DEF Block, Initialize, InitializeFails, Connect, ConnectFails,
     AvClientStart, AvClientStartFails, StartStream, StartStreamFails,
     LoopSeesClose, LoopLosesPeer, StopStream, DeInitialize, ReportStop, Forget,
     ReportFailure, At
<1>5. p = opened /\ opened # 0
  <2>1. PICK k \in Nat, o \in Nat : k = p /\ o = opened
    BY <1>i, Indices
  <2>2. k < o \/ k = o \/ k > o
    BY <2>1
  <2>3. opened # 0 => opened \in Plays
    BY <1>i, Indices
  <2>4. 0 \notin Plays
    BY DEF Plays
  <2>. QED
    BY <1>4, <1>i, <2>1, <2>2, <2>4 DEF EarlierDone, IInv, LastPlayOnly
<1>6. EndUnderWay => EndUnderWay'
  <2>0. recordFileQueue \in Seq(Notices)
    BY <1>i DEF TypeOK
  <2>1. \/ recordFileQueue' = recordFileQueue
        \/ \E k \in Notices : recordFileQueue' = Append(recordFileQueue, k)
    BY DEF Block, Initialize, InitializeFails, Connect, ConnectFails,
       AvClientStart, AvClientStartFails, StartStream, StartStreamFails,
       LoopSeesClose, LoopLosesPeer, StopStream, DeInitialize, ReportStop, Forget,
       ReportFailure, wrap, Report, Notices
  <2>2. CASE recordFileQueue' = recordFileQueue
    BY <2>2 DEF EndUnderWay, EndNotice
  <2>3. ASSUME NEW k \in Notices, recordFileQueue' = Append(recordFileQueue, k)
        PROVE  EndUnderWay => EndUnderWay'
    <3>1. PICK n \in Nat : n = Len(recordFileQueue)
      BY <2>0
    <3>2. Len(recordFileQueue') = n + 1 /\ \A i \in 1 .. n : recordFileQueue'[i] = recordFileQueue[i]
      BY <2>0, <2>3, <3>1, AppendFacts
    <3>3. \A i \in 1 .. n : i \in 1 .. n + 1
      BY <3>1
    <3>. QED
      BY <3>1, <3>2, <3>3 DEF EndUnderWay, EndNotice
  <2>. QED
    BY <2>1, <2>2, <2>3
<1>7. ConnectsCurrent'
  <2>1. CASE Initialize(p)
    <3>1. pc[p] = "init"
      BY <2>1 DEF Initialize, At
    <3>. QED
      BY <1>1, <1>5, <1>i, <3>1 DEF NamesCurrent, ConnectsCurrent
  <2>2. CASE ~Initialize(p)
    <3>1. pc'[p] # "connect"
      BY <1>i, <2>2 DEF Block, InitializeFails, Connect, ConnectFails,
         AvClientStart, AvClientStartFails, StartStream, StartStreamFails,
         LoopSeesClose, LoopLosesPeer, StopStream, DeInitialize, ReportStop, Forget,
         ReportFailure, Goto, TypeOK
    <3>. QED
      BY <1>1, <1>5, <3>1 DEF ConnectsCurrent
  <2>. QED
    BY <2>1, <2>2
<1>8. LastEndKnown'
  <2>1. CASE InitializeFails(p)
    <3>1. pc[p] = "init" /\ iotcUp
      BY <2>1 DEF InitializeFails, At
    <3>. QED
      BY <1>5, <1>i, <3>1 DEF IInv, LibraryFollowsBlock, Down
  <2>2. CASE Connect(p)
    <3>1. pc[p] = "connect" /\ dev[p] = currentDeviceId
      BY <1>5, <2>2 DEF Connect, At, EndInv, ConnectsCurrent
    <3>2. pc'[p] = "avstart"
      BY <1>i, <2>2, <3>1 DEF Connect, Goto, TypeOK
    <3>. QED
      BY <1>1, <1>5, <3>2 DEF LastEndKnown, Over
  <2>3. CASE ReportStop(p) \/ ReportFailure(p)
    <3>1. pc[p] \in {"report", "freport"}
      BY <2>3 DEF ReportStop, ReportFailure, At
    <3>2. deviceID = currentDeviceId
      BY <1>5, <1>i, <3>1 DEF NamesCurrent, Answered
    <3>3. PICK k \in {"stopped", "failed"} : recordFileQueue' = Append(recordFileQueue, k)
      BY <2>3, <3>2 DEF ReportStop, ReportFailure, Report
    <3>4. recordFileQueue \in Seq(Notices) /\ k \in Notices
      BY <1>i DEF TypeOK, Notices
    <3>5. PICK n \in Nat : n = Len(recordFileQueue)
      BY <3>4
    <3>6. Len(recordFileQueue') = n + 1 /\ recordFileQueue'[n + 1] = k
      BY <3>3, <3>4, <3>5, AppendFacts
    <3>7. n + 1 \in 1 .. n + 1
      BY <3>5
    <3>8. EndUnderWay'
      BY <3>6, <3>7 DEF EndUnderWay, EndNotice
    <3>. QED
      BY <3>8 DEF LastEndKnown
  <2>4. CASE Forget(p)
    <3>1. Over(opened)
      BY <1>5, <2>4 DEF Forget, At, Over
    <3>. QED
      BY <1>1, <1>2, <1>5, <1>6, <3>1 DEF EndInv, LastEndKnown
  <2>5. CASE \/ Initialize(p) \/ ConnectFails(p) \/ AvClientStart(p)
             \/ AvClientStartFails(p) \/ StartStream(p) \/ StartStreamFails(p)
             \/ LoopSeesClose(p) \/ LoopLosesPeer(p) \/ StopStream(p) \/ DeInitialize(p)
    <3>1. pc'[p] \notin {"forget", "done"}
      BY <1>i, <2>5 DEF Initialize, ConnectFails, AvClientStart, AvClientStartFails,
         StartStream, StartStreamFails, LoopSeesClose, LoopLosesPeer, StopStream,
         DeInitialize, Goto, TypeOK
    <3>. QED
      BY <1>1, <1>5, <3>1 DEF LastEndKnown, Over
  <2>. QED
    BY <2>1, <2>2, <2>3, <2>4, <2>5 DEF Block
<1>. QED
  BY <1>7, <1>8

LEMMA EndStep ==
    ASSUME AllTiming \subseteq Timing, Faults \cap {"init", "uid"} = {},
           EndInv, [Next]_vars
    PROVE  EndInv'
<1>i. IInv /\ TypeOK /\ opened \in Nat /\ (opened # 0 => opened \in Plays)
  BY Indices DEF EndInv, TimedInv, IInv
<1>0. TimedInv'
  BY TimedStep DEF EndInv
<1>. SUFFICES ConnectsCurrent' /\ LastEndKnown'
  BY <1>0 DEF EndInv
<1>1. ASSUME NEW d \in Devices, OpenPlayer(d)
      PROVE  ConnectsCurrent' /\ LastEndKnown'
  <2>1. opened' = opened + 1 /\ pc' = pc /\ opened + 1 \in Plays
    BY <1>1, <1>i, ConstantsAssumption DEF OpenPlayer, block, TypeOK, Plays
  <2>2. opened + 1 > opened
    BY <1>i
  <2>3. pc[opened + 1] = "idle"
    BY <1>i, <2>1, <2>2 DEF IInv, LastPlayOnly
  <2>. QED
    BY <2>1, <2>3 DEF ConnectsCurrent, LastEndKnown, Over
<1>2. CASE CloseFailed
  <2>1. opened' = opened /\ top' = Nobody /\ pc' = pc /\ dev' = dev
        /\ currentDeviceId' = currentDeviceId
    BY <1>2 DEF CloseFailed, wrap, block
  <2>. QED
    BY <2>1 DEF EndInv, ConnectsCurrent, LastEndKnown, Told, Nobody
<1>3. CASE PressClose \/ (\E p \in Plays : DismissAlert(p)) \/ UNCHANGED vars
  <2>1. /\ opened' = opened /\ top' = top /\ mainQueue' = mainQueue /\ pc' = pc /\ dev' = dev
        /\ currentDeviceId' = currentDeviceId /\ recordFileQueue' = recordFileQueue
    BY <1>3 DEF PressClose, DismissAlert, wrap, view, block, vars
  <2>2. opened # 0 /\ (opened \in alert \/ playingFailed[opened])
            => opened \in alert' \/ playingFailed'[opened]
    <3>1. CASE PressClose \/ UNCHANGED vars
      BY <3>1 DEF PressClose, view, vars
    <3>2. ASSUME NEW p \in Plays, DismissAlert(p) PROVE <2>2
      BY <1>i, <3>2 DEF DismissAlert, TypeOK
    <3>. QED
      BY <1>3, <3>1, <3>2
  <2>3. opened # 0 /\ Told(opened) => Told(opened)'
    BY <2>1, <2>2 DEF Told, EndBlock
  <2>. QED
    BY <2>1, <2>3 DEF EndInv, ConnectsCurrent, LastEndKnown, EndUnderWay, EndNotice, Over
<1>4. CASE MainThread
  <2>1. /\ opened' = opened /\ pc' = pc /\ dev' = dev
        /\ currentDeviceId' = currentDeviceId /\ recordFileQueue' = recordFileQueue
    BY <1>4 DEF MainThread, MainRegister, MainUnregister, MainStopped, MainFailed, wrap, block
  <2>. QED
    BY <1>4, <1>i, <2>1, MainThreadTells
    DEF EndInv, ConnectsCurrent, LastEndKnown, EndUnderWay, EndNotice, Over
<1>5. CASE RecordFileQueue
  <2>1. opened' = opened /\ pc' = pc /\ dev' = dev /\ currentDeviceId' = currentDeviceId
    BY <1>5 DEF RecordFileQueue, RecordStarted, RecordEnded, block
  <2>. QED
    BY <1>5, <2>1, RecordFileQueueTells DEF EndInv, ConnectsCurrent, LastEndKnown, Over
<1>6. CASE StreamStart \/ StreamStop
  <2>1. /\ opened' = opened /\ top' = top /\ mainQueue' = mainQueue /\ pc' = pc /\ dev' = dev
        /\ currentDeviceId' = currentDeviceId /\ recordFileQueue' = recordFileQueue
        /\ alert' = alert /\ playingFailed' = playingFailed
    BY <1>6 DEF StreamStart, StreamStop, view, block
  <2>. QED
    BY <2>1 DEF EndInv, ConnectsCurrent, LastEndKnown, EndUnderWay, EndNotice, Over, Told,
                EndBlock
<1>7. CASE StreamConnect
  <2>1. Head(streamQueue) = streamQueue[1] /\ 1 \in 1 .. Len(streamQueue)
    BY <1>7, <1>i, TailFacts DEF StreamConnect, StreamHead, TypeOK
  <2>2. StartOp(1)
    BY <1>7, <2>1 DEF StreamConnect, StreamHead, StartOp
  <2>3. Head(streamQueue).play = opened /\ opened # 0
    BY <1>i, <2>1, <2>2 DEF IInv, OneStartPending
  <2>4. opened' = opened /\ pc'[opened] = "init"
    BY <1>7, <1>i, <2>3 DEF StreamConnect, view, TypeOK
  <2>. QED
    BY <2>4 DEF ConnectsCurrent, LastEndKnown, Over
<1>. QED
  BY <1>1, <1>2, <1>3, <1>4, <1>5, <1>6, <1>7, BlockTells DEF Next, User, StreamQueue

\* Under the same timing, and if no block gives up without a report (the library
\* initializes and connects to the device it was asked for), the end of a play is
\* known to its view or on its way there: what is left of EndReachesView is only
\* that the queues run.
THEOREM EndNotLost ==
    ASSUME AllTiming \subseteq Timing, Faults \cap {"init", "uid"} = {}
    PROVE  Spec => []EndIsNotLost
<1>1. Init => EndInv
  <2>1. Init => opened = 0
    BY DEF Init
  <2>. QED
    BY <2>1, TimedInit DEF EndInv, ConnectsCurrent, LastEndKnown
<1>2. EndInv /\ [Next]_vars => EndInv'
  BY EndStep
<1>3. EndInv => EndIsNotLost
  BY LastEndSuffices DEF EndInv
<1>. QED
  BY <1>1, <1>2, <1>3, PTL DEF Spec

-----------------------------------------------------------------------------
(* P2PSession implements PlayContract.                                      *)

\* The told views, the phases and the shown view are what a step may change.
Unmoved == phaseOf' = phaseOf /\ toldOf' = toldOf /\ top' = top

LEMMA InitRefines == Init => Contract!ContractInit
<1>. SUFFICES ASSUME Init PROVE Contract!ContractInit
  OBVIOUS
<1>1. opened = 0 /\ top = 0
  BY DEF Init, Nobody
<1>2. phaseOf = [p \in Plays |-> "none"]
  BY <1>1, ConstantsAssumption DEF phaseOf, PhaseAt, Plays
<1>3. toldOf = {}
  BY <1>1 DEF toldOf
<1>. QED
  BY <1>1, <1>2, <1>3 DEF Contract!ContractInit, Contract!ContractPlays, Plays

LEMMA PhaseFunction ==
    /\ phaseOf \in [Plays -> {"none", "asked", "using", "over", "lost"}]
    /\ phaseOf' \in [Plays -> {"none", "asked", "using", "over", "lost"}]
BY DEF phaseOf, PhaseAt

\* A step that moves no block and leaves the library alone changes no phase.
LEMMA PhasesStay ==
    ASSUME opened' = opened, pc' = pc, iotcUp' = iotcUp, avUp' = avUp,
           session' = session, channel' = channel
    PROVE  phaseOf' = phaseOf
BY DEF phaseOf, PhaseAt, Down

LEMMA ToldStay ==
    ASSUME opened' = opened,
           \A p \in 1 .. opened : Told(p)' <=> Told(p)
    PROVE  toldOf' = toldOf
BY DEF toldOf

\* A step that touches neither the view nor its queue tells nobody anything.
LEMMA ToldUntouched ==
    ASSUME opened' = opened, top' = top, mainQueue' = mainQueue,
           alert' = alert, playingFailed' = playingFailed
    PROVE  toldOf' = toldOf
BY DEF toldOf, Told, EndBlock

LEMMA UserRefines ==
    ASSUME IInv, IInv', User
    PROVE  Contract!ContractNext \/ Unmoved
<1>i. /\ Len(mainQueue) \in Nat /\ opened \in Nat
      /\ opened # 0 => opened \in Plays
      /\ Plays \subseteq Nat \ {0}
      /\ TypeOK
  BY Indices DEF IInv
<1>1. ASSUME NEW d \in Devices, OpenPlayer(d)
      PROVE  Contract!ContractNext
  <2>1. /\ opened' = opened + 1 /\ top' = opened + 1 /\ top = 0
        /\ opened + 1 \in Plays /\ pc' = pc
        /\ alert' = alert /\ playingFailed' = playingFailed
        /\ iotcUp' = iotcUp /\ avUp' = avUp /\ session' = session /\ channel' = channel
    BY <1>1, <1>i, ConstantsAssumption
    DEF OpenPlayer, block, library, TypeOK, Plays, Nobody
  <2>2. opened # 0 => Over(opened) /\ Down
    BY <2>1 DEF IInv, ToldIsOver, Told
  <2>3. pc[opened + 1] = "idle"
    BY <2>1, <1>i DEF IInv, LastPlayOnly
  <2>4. \A q \in Plays : phaseOf[q] = IF q > opened THEN "none" ELSE "over"
    BY <2>2, <1>i DEF phaseOf, PhaseAt, Over, Live
  <2>5. \A q \in Plays : phaseOf'[q] = IF q > opened + 1 THEN "none"
                                       ELSE IF q = opened + 1 THEN "asked" ELSE "over"
    BY <2>1, <2>3, <1>i DEF phaseOf, PhaseAt
  <2>6. phaseOf' = [phaseOf EXCEPT ![opened + 1] = "asked"]
    BY <2>1, <2>4, <2>5, <1>i, PhaseFunction
  <2>7. toldOf' = toldOf
    <3>1. toldOf = 1 .. opened
      BY <2>1, <1>i DEF toldOf, Told
    <3>2. \A q \in 1 .. opened : Told(q)'
      BY <2>1, <1>i DEF Told
    <3>3. ~Told(opened)'
      <4>1. pc'[opened'] \notin {"forget", "done"} /\ opened' # 0
        BY <2>1, <2>3, <1>i
      <4>. QED
        BY <4>1 DEF IInv, ToldIsOver, Over
    <3>4. toldOf' = {q \in 1 .. opened + 1 : Told(q)'}
      BY <2>1 DEF toldOf
    <3>5. \A q \in 1 .. opened + 1 : q = opened' => ~Told(q)'
      BY <3>3
    <3>. QED
      BY <3>1, <3>2, <3>4, <3>5, <2>1, <1>i
  <2>8. Contract!Ask(opened + 1)
    BY <2>1, <2>4, <2>6, <2>7, <1>i
    DEF Contract!Ask, Contract!Enter, Contract!ContractPlays, Plays
  <2>. QED
    BY <2>1, <2>8 DEF Contract!ContractNext, Contract!ContractPlays, Plays
<1>2. CASE CloseFailed
  <2>1. /\ opened' = opened /\ pc' = pc /\ mainQueue' = mainQueue
        /\ top' = 0 /\ top # 0 /\ playingFailed[top]
        /\ iotcUp' = iotcUp /\ avUp' = avUp /\ session' = session /\ channel' = channel
    BY <1>2 DEF CloseFailed, block, library, Nobody
  <2>2. top = opened /\ top \in 1 .. opened
    BY <2>1, <1>i DEF IInv, LastPlayOnly, Nobody
  <2>3. phaseOf' = phaseOf
    BY <2>1, PhasesStay
  <2>4. \A q \in 1 .. opened : Told(q)' /\ Told(q)
    BY <2>1, <2>2, <1>i DEF Told
  <2>5. toldOf' = toldOf
    BY <2>1, <2>4, ToldStay
  <2>6. Contract!Leave
    BY <2>1, <2>2, <2>3, <2>4, <2>5 DEF Contract!Leave, toldOf
  <2>. QED
    BY <2>6 DEF Contract!ContractNext
<1>3. CASE PressClose
  <2>1. /\ opened' = opened /\ pc' = pc /\ mainQueue' = mainQueue /\ top' = top
        /\ alert' = alert /\ playingFailed' = playingFailed
        /\ iotcUp' = iotcUp /\ avUp' = avUp /\ session' = session /\ channel' = channel
    BY <1>3 DEF PressClose, view, block, library
  <2>. QED
    BY <2>1, PhasesStay, ToldUntouched DEF Unmoved
<1>4. ASSUME NEW p \in Plays, DismissAlert(p)
      PROVE  Unmoved
  <2>1. /\ opened' = opened /\ pc' = pc /\ mainQueue' = mainQueue /\ top' = top
        /\ p \in alert /\ alert' = alert \ {p}
        /\ playingFailed' = [playingFailed EXCEPT ![p] = TRUE]
        /\ iotcUp' = iotcUp /\ avUp' = avUp /\ session' = session /\ channel' = channel
    BY <1>4 DEF DismissAlert, block, library
  <2>2. 1 .. opened \subseteq Plays
    BY <1>i, ConstantsAssumption DEF TypeOK, Plays
  <2>3. \A q \in 1 .. opened : Told(q)' <=> Told(q)
    BY <2>1, <2>2, <1>i DEF Told, EndBlock, TypeOK
  <2>. QED
    BY <2>1, <2>3, PhasesStay, ToldStay DEF Unmoved
<1>. QED
  BY <1>1, <1>2, <1>3, <1>4 DEF User

LEMMA MainThreadRefines ==
    ASSUME IInv, IInv', MainThread
    PROVE  Contract!ContractNext \/ Unmoved
<1>i. /\ Len(mainQueue) \in Nat /\ opened \in Nat
      /\ opened # 0 => opened \in Plays
      /\ Plays \subseteq Nat \ {0}
      /\ TypeOK
      /\ top \in {0, opened}
  BY Indices DEF IInv, LastPlayOnly, Nobody
<1>1. /\ opened' = opened /\ pc' = pc /\ playingFailed' = playingFailed
      /\ iotcUp' = iotcUp /\ avUp' = avUp /\ session' = session /\ channel' = channel
  BY DEF MainThread, MainRegister, MainUnregister, MainStopped, MainFailed,
         manager, wrap, block, library
<1>2. phaseOf' = phaseOf
  BY <1>1, PhasesStay
<1>3. /\ Len(mainQueue) \in Nat \ {0}
      /\ Tail(mainQueue) \in Seq(MainBlocks)
      /\ Len(Tail(mainQueue)) = Len(mainQueue) - 1
      /\ \A i \in 1 .. Len(mainQueue) - 1 : Tail(mainQueue)[i] = mainQueue[i + 1]
      /\ Head(mainQueue) = mainQueue[1] /\ Head(mainQueue) \in MainBlocks
  <2>1. mainQueue # <<>>
    BY DEF MainThread, MainRegister, MainUnregister, MainStopped, MainFailed, MainHead
  <2>. QED
    BY <2>1, <1>i, TailFacts DEF TypeOK
<1>4. \* what is told is told by the head or by what follows it
      ASSUME NEW q \in 1 .. opened
      PROVE  (\E i \in 1 .. Len(mainQueue) : EndBlock(i, q))
                <=> \/ Head(mainQueue).kind \in {"stopped", "failed"}
                       /\ q \in Head(mainQueue).views
                    \/ \E i \in 1 .. Len(Tail(mainQueue)) :
                          /\ Tail(mainQueue)[i].kind \in {"stopped", "failed"}
                          /\ q \in Tail(mainQueue)[i].views
  <2>1. ASSUME NEW i \in 1 .. Len(mainQueue), EndBlock(i, q)
        PROVE  \/ Head(mainQueue).kind \in {"stopped", "failed"}
                  /\ q \in Head(mainQueue).views
               \/ \E j \in 1 .. Len(Tail(mainQueue)) :
                     /\ Tail(mainQueue)[j].kind \in {"stopped", "failed"}
                     /\ q \in Tail(mainQueue)[j].views
    <3>1. CASE i = 1
      BY <1>3, <2>1, <3>1 DEF EndBlock
    <3>2. CASE i # 1
      <4>1. i - 1 \in 1 .. Len(Tail(mainQueue)) /\ Tail(mainQueue)[i - 1] = mainQueue[i]
        BY <1>3, <3>2
      <4>. QED
        BY <2>1, <4>1 DEF EndBlock
    <3>. QED
      BY <3>1, <3>2
  <2>2. ASSUME Head(mainQueue).kind \in {"stopped", "failed"},
               q \in Head(mainQueue).views
        PROVE  \E i \in 1 .. Len(mainQueue) : EndBlock(i, q)
    BY <1>3, <2>2 DEF EndBlock
  <2>3. ASSUME NEW j \in 1 .. Len(Tail(mainQueue)),
               Tail(mainQueue)[j].kind \in {"stopped", "failed"},
               q \in Tail(mainQueue)[j].views
        PROVE  \E i \in 1 .. Len(mainQueue) : EndBlock(i, q)
    <3>1. j + 1 \in 1 .. Len(mainQueue) /\ Tail(mainQueue)[j] = mainQueue[j + 1]
      BY <1>3
    <3>. QED
      BY <2>3, <3>1 DEF EndBlock
  <2>. QED
    BY <2>1, <2>2, <2>3
<1>5. CASE MainRegister \/ MainUnregister
  <2>1. /\ mainQueue' = Tail(mainQueue) /\ top' = top /\ alert' = alert
        /\ Head(mainQueue).kind \notin {"stopped", "failed"}
    BY <1>5 DEF MainRegister, MainUnregister, MainHead
  <2>2. \A q \in 1 .. opened : Told(q)' <=> Told(q)
    BY <1>1, <1>4, <2>1 DEF Told, EndBlock
  <2>. QED
    BY <1>1, <1>2, <2>1, <2>2, ToldStay DEF Unmoved
<1>6. CASE MainFailed
  <2>1. /\ mainQueue' = Tail(mainQueue) /\ top' = top
        /\ alert' = alert \cup Head(mainQueue).views
        /\ Head(mainQueue).kind = "failed"
    BY <1>6 DEF MainFailed, MainHead
  <2>2. \A q \in 1 .. opened : Told(q)' <=> Told(q)
    BY <1>1, <1>4, <2>1 DEF Told, EndBlock
  <2>. QED
    BY <1>1, <1>2, <2>1, <2>2, ToldStay DEF Unmoved
<1>7. CASE MainStopped
  <2>1. /\ alert' = alert /\ Head(mainQueue).kind = "stopped"
        /\ top' = IF top \in Head(mainQueue).views THEN 0 ELSE top
        /\ mainQueue' = Append(Tail(mainQueue),
                               [kind |-> "unregister", views |-> Head(mainQueue).views])
    BY <1>7 DEF MainStopped, MainHead, Nobody
  <2>2. /\ Len(mainQueue') = Len(Tail(mainQueue)) + 1
        /\ \A i \in 1 .. Len(Tail(mainQueue)) : mainQueue'[i] = Tail(mainQueue)[i]
        /\ mainQueue'[Len(Tail(mainQueue)) + 1].kind = "unregister"
        /\ Len(Tail(mainQueue)) \in Nat
    <3>1. [kind |-> "unregister", views |-> Head(mainQueue).views] \in MainBlocks
      BY <1>3 DEF MainBlocks
    <3>. QED
      BY <1>3, <2>1, <3>1, AppendFacts
  <2>3. ASSUME NEW q \in 1 .. opened
        PROVE  (\E i \in 1 .. Len(mainQueue') : EndBlock(i, q)')
                  <=> \E i \in 1 .. Len(Tail(mainQueue)) :
                         /\ Tail(mainQueue)[i].kind \in {"stopped", "failed"}
                         /\ q \in Tail(mainQueue)[i].views
    <3>1. ASSUME NEW i \in 1 .. Len(mainQueue'), EndBlock(i, q)'
          PROVE  /\ i \in 1 .. Len(Tail(mainQueue))
                 /\ Tail(mainQueue)[i].kind \in {"stopped", "failed"}
                 /\ q \in Tail(mainQueue)[i].views
      <4>1. i # Len(Tail(mainQueue)) + 1
        BY <2>2, <3>1 DEF EndBlock
      <4>2. i \in 1 .. Len(Tail(mainQueue))
        BY <2>2, <4>1
      <4>. QED
        BY <2>2, <3>1, <4>2 DEF EndBlock
    <3>2. ASSUME NEW i \in 1 .. Len(Tail(mainQueue)),
                 Tail(mainQueue)[i].kind \in {"stopped", "failed"},
                 q \in Tail(mainQueue)[i].views
          PROVE  i \in 1 .. Len(mainQueue') /\ EndBlock(i, q)'
      BY <2>2, <3>2 DEF EndBlock
    <3>. QED
      BY <3>1, <3>2
  <2>4. \A q \in 1 .. opened : Told(q)' <=> Told(q)
    <3>1. SUFFICES ASSUME NEW q \in 1 .. opened
                   PROVE  Told(q)' <=> Told(q)
      OBVIOUS
    <3>2. CASE q \in Head(mainQueue).views
      <4>1. Told(q)
        BY <1>4, <2>1, <3>2 DEF Told
      <4>2. top' # q
        BY <2>1, <3>2, <1>i
      <4>. QED
        BY <4>1, <4>2 DEF Told
    <3>3. CASE q \notin Head(mainQueue).views
      <4>1. top' = q <=> top = q
        BY <2>1, <3>3, <1>i
      <4>2. (\E i \in 1 .. Len(mainQueue') : EndBlock(i, q)')
               <=> \E i \in 1 .. Len(mainQueue) : EndBlock(i, q)
        BY <1>4, <2>3, <3>3
      <4>. QED
        BY <1>1, <2>1, <4>1, <4>2 DEF Told
    <3>. QED
      BY <3>2, <3>3
  <2>5. toldOf' = toldOf
    BY <1>1, <2>4, ToldStay
  <2>6. CASE top = 0 \/ top \notin Head(mainQueue).views
    BY <1>2, <2>1, <2>5, <2>6 DEF Unmoved
  <2>7. CASE top # 0 /\ top \in Head(mainQueue).views
    <3>1. top \in 1 .. opened
      BY <1>i, <2>7
    <3>2. Told(top)
      BY <1>4, <2>1, <2>7, <3>1 DEF Told
    <3>3. Contract!Leave
      BY <1>2, <2>1, <2>5, <2>7, <3>1, <3>2 DEF Contract!Leave, toldOf
    <3>. QED
      BY <3>3 DEF Contract!ContractNext
  <2>. QED
    BY <2>6, <2>7
<1>. QED
  BY <1>5, <1>6, <1>7 DEF MainThread

LEMMA RecordFileQueueRefines ==
    ASSUME IInv, IInv', RecordFileQueue
    PROVE  Contract!ContractNext \/ Unmoved
<1>i. /\ Len(mainQueue) \in Nat /\ Len(recordFileQueue) \in Nat /\ opened \in Nat
      /\ opened # 0 => opened \in Plays
      /\ Plays \subseteq Nat \ {0}
      /\ TypeOK
      /\ streamObersvers \subseteq 1 .. opened
  BY Indices DEF IInv, LastPlayOnly
<1>1. /\ opened' = opened /\ pc' = pc /\ top' = top
      /\ alert' = alert /\ playingFailed' = playingFailed
      /\ iotcUp' = iotcUp /\ avUp' = avUp /\ session' = session /\ channel' = channel
  BY DEF RecordFileQueue, RecordStarted, RecordEnded, manager, block, library
<1>2. phaseOf' = phaseOf
  BY <1>1, PhasesStay
<1>3. CASE mainQueue' = mainQueue
  BY <1>1, <1>2, <1>3, ToldUntouched DEF Unmoved
<1>4. ASSUME NEW n \in {"stopped", "failed"}, RecordEnded(n),
             mainQueue' = Append(mainQueue, [kind |-> n, views |-> streamObersvers])
      PROVE  Contract!ContractNext
  <2>1. /\ Len(mainQueue') = Len(mainQueue) + 1
        /\ \A i \in 1 .. Len(mainQueue) : mainQueue'[i] = mainQueue[i]
        /\ mainQueue'[Len(mainQueue) + 1].kind \in {"stopped", "failed"}
        /\ mainQueue'[Len(mainQueue) + 1].views = streamObersvers
    <3>1. [kind |-> n, views |-> streamObersvers] \in MainBlocks
      BY <1>i DEF MainBlocks, TypeOK
    <3>2. /\ Len(mainQueue') = Len(mainQueue) + 1
          /\ \A i \in 1 .. Len(mainQueue) : mainQueue'[i] = mainQueue[i]
          /\ mainQueue'[Len(mainQueue) + 1] = [kind |-> n, views |-> streamObersvers]
      BY <1>4, <1>i, <3>1, AppendFacts DEF TypeOK
    <3>. QED
      BY <3>2
  <2>2. ASSUME NEW q \in 1 .. opened
        PROVE  Told(q)' <=> Told(q) \/ q \in streamObersvers
    <3>1. (\E i \in 1 .. Len(mainQueue') : EndBlock(i, q)')
             <=> (\E i \in 1 .. Len(mainQueue) : EndBlock(i, q)) \/ q \in streamObersvers
      BY <1>i, <2>1 DEF EndBlock
    <3>. QED
      BY <1>1, <3>1 DEF Told
  <2>3. toldOf' = toldOf \cup streamObersvers
    BY <1>1, <1>i, <2>2 DEF toldOf
  <2>4. opened # 0 /\ Over(opened) /\ Down
    <3>1. recordFileQueue # <<>> /\ EndNotice(1)
      BY <1>4, <1>i, TailFacts DEF RecordEnded, RecordHead, EndNotice, TypeOK
    <3>2. 1 \in 1 .. Len(recordFileQueue)
      BY <3>1, <1>i, TailFacts DEF TypeOK
    <3>. QED
      BY <3>1, <3>2 DEF IInv, OneEndNotice
  <2>5. 1 .. opened \subseteq Plays
    BY <1>i, ConstantsAssumption DEF TypeOK, Plays
  <2>6. \A q \in streamObersvers : phaseOf[q] = "over"
    BY <1>i, <2>4, <2>5 DEF phaseOf, PhaseAt, Over, Live
  <2>7. Contract!Tell(streamObersvers)
    BY <1>1, <1>2, <2>3, <2>6 DEF Contract!Tell
  <2>. QED
    BY <1>i, <2>5, <2>7 DEF Contract!ContractNext, Contract!ContractPlays, Plays
<1>. QED
  BY <1>3, <1>4 DEF RecordFileQueue, RecordStarted, RecordEnded

LEMMA StreamQueueRefines ==
    ASSUME IInv, IInv', StreamQueue
    PROVE  Unmoved
<1>i. /\ opened \in Nat /\ Plays \subseteq Nat \ {0} /\ TypeOK
  BY Indices DEF IInv
<1>1. /\ opened' = opened /\ top' = top /\ mainQueue' = mainQueue
      /\ alert' = alert /\ playingFailed' = playingFailed
      /\ iotcUp' = iotcUp /\ avUp' = avUp /\ session' = session /\ channel' = channel
  BY DEF StreamQueue, StreamStart, StreamConnect, StreamStop, view, library
<1>2. toldOf' = toldOf
  BY <1>1, ToldUntouched
<1>3. CASE StreamStart \/ StreamStop
  <2>1. pc' = pc
    BY <1>3 DEF StreamStart, StreamStop, block
  <2>. QED
    BY <1>1, <1>2, <2>1, PhasesStay DEF Unmoved
<1>4. CASE StreamConnect
  <2>1. /\ streamQueue # <<>> /\ Head(streamQueue).kind = "connect"
        /\ pc' = [pc EXCEPT ![Head(streamQueue).play] = "init"]
    BY <1>4 DEF StreamConnect, StreamHead
  <2>2. 1 \in 1 .. Len(streamQueue) /\ Head(streamQueue) = streamQueue[1]
    BY <2>1, <1>i, TailFacts DEF TypeOK
  <2>3. StartOp(1)
    BY <2>1, <2>2 DEF StartOp
  <2>4. Head(streamQueue).play = opened /\ pc[opened] = "idle"
    BY <2>2, <2>3 DEF IInv, OneStartPending
  <2>5. \A q \in Plays : PhaseAt(q)' = PhaseAt(q)
    BY <1>1, <1>i, <2>1, <2>4 DEF PhaseAt, Down, TypeOK
  <2>6. phaseOf' = phaseOf
    BY <2>5 DEF phaseOf
  <2>. QED
    BY <1>1, <1>2, <2>6 DEF Unmoved
<1>. QED
  BY <1>3, <1>4 DEF StreamQueue

LEMMA BlockRefines ==
    ASSUME IInv, IInv', NEW p \in Plays, Block(p)
    PROVE  Contract!ContractNext \/ Unmoved
<1>i. /\ opened \in Nat /\ Plays \subseteq Nat \ {0} /\ TypeOK
  BY Indices DEF IInv
<1>1. /\ opened' = opened /\ top' = top /\ mainQueue' = mainQueue
      /\ alert' = alert /\ playingFailed' = playingFailed
      /\ pc[p] \notin {"idle", "done"}
      /\ \A q \in Plays : q # p => pc'[q] = pc[q]
  BY <1>i DEF Block, Initialize, InitializeFails, Connect, ConnectFails,
     AvClientStart, AvClientStartFails, StartStream, StartStreamFails,
     LoopSeesClose, LoopLosesPeer, StopStream, DeInitialize, ReportStop, Forget,
     ReportFailure, At, Goto, TypeOK, wrap, view
<1>2. toldOf' = toldOf
  BY <1>1, ToldUntouched
<1>3. CASE Forget(p)
  <2>1. /\ pc[p] = "forget" /\ pc'[p] = "done"
        /\ iotcUp' = iotcUp /\ avUp' = avUp /\ session' = session /\ channel' = channel
    BY <1>i, <1>3 DEF Forget, At, Goto, TypeOK, library
  <2>2. \A q \in Plays : PhaseAt(q)' = PhaseAt(q)
    BY <1>1, <1>i, <2>1 DEF PhaseAt, Down, Live
  <2>3. phaseOf' = phaseOf
    BY <2>2 DEF phaseOf
  <2>. QED
    BY <1>1, <1>2, <2>3 DEF Unmoved
<1>4. CASE pc[p] # "forget"
  <2>1. p = opened
    BY <1>1, <1>4, <1>i DEF IInv, LastPlayOnly, Over
  <2>2. \A q \in Plays : q # p => phaseOf'[q] = phaseOf[q] /\ phaseOf[q] # "using"
    BY <1>1, <1>i, <2>1 DEF phaseOf, PhaseAt
  <2>3. \* from here on only the phase of p matters
        ASSUME NEW a, phaseOf'[p] = a
        PROVE  phaseOf' = [phaseOf EXCEPT ![p] = a]
    BY <2>2, <2>3, PhaseFunction
  <2>4. ASSUME phaseOf'[p] = phaseOf[p]
        PROVE  Unmoved
    BY <1>1, <1>2, <2>2, <2>4, PhaseFunction DEF Unmoved
  <2>5. /\ pc[p] \in {"idle", "init"} => phaseOf[p] = "asked"
        /\ pc[p] \in Live => phaseOf[p] = "using"
        /\ pc[p] \in {"report", "freport"} => phaseOf[p] = "over"
        /\ pc'[p] \in Live => phaseOf'[p] = "using"
        /\ pc'[p] \in {"report", "freport", "forget", "done"} =>
              phaseOf'[p] = IF Down' THEN "over" ELSE "lost"
    BY <1>1, <2>1, <1>i DEF phaseOf, PhaseAt, Live, IInv, LibraryFollowsBlock
  <2>6. p \in Contract!ContractPlays
    BY DEF Contract!ContractPlays, Plays
  <2>7. CASE Initialize(p)
    <3>1. pc[p] = "init" /\ pc'[p] = "connect"
      BY <2>7, <1>i DEF Initialize, At, Goto, TypeOK
    <3>2. phaseOf[p] = "asked" /\ phaseOf'[p] = "using"
      BY <2>5, <3>1 DEF Live
    <3>3. Contract!Acquire(p)
      BY <1>1, <1>2, <2>2, <2>3, <3>2
      DEF Contract!Acquire, Contract!Enter, Contract!ContractPlays, Plays
    <3>. QED
      BY <2>6, <3>3 DEF Contract!ContractNext
  <2>8. CASE InitializeFails(p)
    <3>1. pc[p] = "init" /\ pc'[p] = "done"
      BY <2>8, <1>i DEF InitializeFails, At, Goto, TypeOK
    <3>2. Down
      BY <2>1, <3>1, <1>i DEF IInv, LibraryFollowsBlock
    <3>3. Down'
      BY <2>8, <3>2 DEF InitializeFails, IotcDeInitialize, Down
    <3>4. phaseOf[p] = "asked" /\ phaseOf'[p] = "over"
      BY <2>5, <3>1, <3>3
    <3>5. Contract!Refuse(p)
      BY <1>1, <1>2, <2>3, <3>4 DEF Contract!Refuse, Contract!Enter
    <3>. QED
      BY <2>6, <3>5 DEF Contract!ContractNext
  <2>9. CASE Connect(p)
    <3>1. pc[p] = "connect" /\ pc'[p] \in {"avstart", "done"} /\ iotcUp'
      BY <2>9, <1>i DEF Connect, At, Goto, TypeOK
    <3>2. CASE pc'[p] = "avstart"
      BY <2>4, <2>5, <3>1, <3>2 DEF Live
    <3>3. CASE pc'[p] = "done"
      <4>1. phaseOf[p] = "using" /\ phaseOf'[p] = "lost"
        BY <2>5, <3>1, <3>3 DEF Live, Down
      <4>2. Contract!Lose(p)
        BY <1>1, <1>2, <2>3, <4>1 DEF Contract!Lose, Contract!Enter
      <4>. QED
        BY <2>6, <4>2 DEF Contract!ContractNext
    <3>. QED
      BY <3>1, <3>2, <3>3
  <2>10. CASE \/ ConnectFails(p) \/ AvClientStart(p) \/ AvClientStartFails(p)
              \/ StartStream(p) \/ StartStreamFails(p) \/ LoopSeesClose(p)
              \/ LoopLosesPeer(p) \/ StopStream(p)
    <3>1. pc[p] \in Live /\ pc'[p] \in Live
      BY <2>10, <1>i DEF ConnectFails, AvClientStart, AvClientStartFails,
         StartStream, StartStreamFails, LoopSeesClose, LoopLosesPeer, StopStream,
         At, Goto, TypeOK, Live
    <3>. QED
      BY <2>4, <2>5, <3>1
  <2>11. CASE DeInitialize(p)
    <3>1. /\ pc[p] \in {"deinit", "fdeinit"} /\ pc'[p] \in {"report", "freport"}
          /\ Down'
      BY <2>11, <1>i DEF DeInitialize, At, Goto, TypeOK, AvDeInitialize,
                         IotcDeInitialize, Down
    <3>2. phaseOf[p] = "using" /\ phaseOf'[p] = "over"
      BY <2>5, <3>1 DEF Live
    <3>3. Contract!GiveBack(p)
      BY <1>1, <1>2, <2>3, <3>2 DEF Contract!GiveBack, Contract!Enter
    <3>. QED
      BY <2>6, <3>3 DEF Contract!ContractNext
  <2>12. CASE ReportStop(p) \/ ReportFailure(p)
    <3>1. /\ pc[p] \in {"report", "freport"} /\ pc'[p] \in {"forget", "done"}
          /\ iotcUp' = iotcUp /\ avUp' = avUp /\ session' = session /\ channel' = channel
      BY <2>12, <1>i DEF ReportStop, ReportFailure, At, Goto, TypeOK, library
    <3>2. Down /\ Down'
      BY <2>1, <3>1, <1>i DEF IInv, LibraryFollowsBlock, Down
    <3>. QED
      BY <2>4, <2>5, <3>1, <3>2
  <2>. QED
    BY <1>4, <2>7, <2>8, <2>9, <2>10, <2>11, <2>12 DEF Block, Forget, At
<1>. QED
  BY <1>3, <1>4 DEF Block, Initialize, InitializeFails, Connect, ConnectFails,
     AvClientStart, AvClientStartFails, StartStream, StartStreamFails,
     LoopSeesClose, LoopLosesPeer, StopStream, DeInitialize, ReportStop,
     ReportFailure, At

LEMMA StutterRefines == ASSUME UNCHANGED vars PROVE Unmoved
BY DEF Unmoved, phaseOf, PhaseAt, toldOf, Told, EndBlock, Down,
       vars, manager, wrap, view, block, library

LEMMA StepRefines ==
    IInv /\ IInv' /\ [Next]_vars => [Contract!ContractNext]_(Contract!contractVars)
<1>1. Unmoved => UNCHANGED Contract!contractVars
  BY DEF Unmoved, Contract!contractVars
<1>2. IInv /\ IInv' /\ Next => Contract!ContractNext \/ Unmoved
  BY UserRefines, MainThreadRefines, RecordFileQueueRefines, StreamQueueRefines,
     BlockRefines DEF Next
<1>. QED
  BY <1>1, <1>2, StutterRefines

\* The session implements the contract: whatever the network, the library and
\* the user do, one play has the library at a time, and a view is told of an
\* end, and left, only after the library was given back.
THEOREM ContractHolds == Spec => ContractKept
<1>1. Spec => []IInv
  BY InvariantHolds
<1>. QED
  BY <1>1, InitRefines, StepRefines, PTL DEF Spec, ContractKept, Contract!ContractSpec

=============================================================================
