------------------------------ MODULE UdtStream ------------------------------
(***************************************************************************)
(* One open UDT stream (Stream.cpp, UdtStream.cpp): the application's      *)
(* thread that asks for another stream type, logs in and closes; the       *)
(* receive thread; and the worker thread, which sends the keep-alive and   *)
(* watches three clocks: the last data, a pending change, a pending login. *)
(*                                                                         *)
(* A clock that is zero in the code is off here; that a clock has run out  *)
(* is a choice of the action that tests it.  The device and the two        *)
(* directions of the connection are external: UDT delivers in order or     *)
(* breaks.                                                                 *)
(***************************************************************************)
EXTENDS Integers, Sequences, SequencesExt

CONSTANTS
    Frames,   \* number of frames the device sends
    Slices,   \* number of slices a frame is cut into
    MaxAsks   \* bound on the changes and the logins the application asks for

ASSUME StreamAssumption ==
    Frames \in Nat \ {0} /\ Slices \in Nat \ {0} /\ MaxAsks \in Nat

VARIABLES
    clock,    \* m_stream_change_time, m_stream_login_time: set or not
    frame,    \* m_Framebuf up to m_FrameLen
    app,      \* the application's thread
    asks,     \* changes and logins asked for so far
    receiver, \* the thread in OnRecv
    worker,   \* the thread in DoWork
    socket,   \* the UDT socket; m_bStop
    device,   \* external: alive, the last slice it sent
    up, down, \* external: messages on the way to the device and to the client
    told      \* reports: loss of the stream, timeouts of a change and of a login

\* For the invariants only: the slices taken so far; how often a change's clock
\* was turned off in the middle of a frame; the frames handed to the decoder
\* without their first slices; whether one ever held slices of two frames.
VARIABLES seen, cuts, tails, mixed

history == <<seen, cuts, tails, mixed>>
vars == <<clock, frame, app, asks, receiver, worker, socket, device, up, down,
          told, history>>

Init ==
    /\ clock = [change |-> FALSE, login |-> FALSE]
    /\ frame = <<>>
    /\ app = "idle" /\ asks = 0
    /\ receiver = "run" /\ worker = "run"
    /\ socket = [state |-> "up", stop |-> FALSE]
    /\ device = [alive |-> TRUE, sent |-> 0]
    /\ up = <<>> /\ down = <<>>
    /\ seen = 0 /\ cuts = 0 /\ tails = 0 /\ mixed = FALSE
    /\ told = [lost |-> FALSE, change |-> FALSE, login |-> FALSE]

\* The k-th slice the device sends.
Slice(k) == [kind |-> "data", frame |-> ((k - 1) \div Slices) + 1,
             slice |-> ((k - 1) % Slices) + 1]
Ack(kind) == [kind |-> kind]
Kinds == {"change", "login"}

\* The last k slices of one frame.
FrameEnd(f, k) == \E n \in 1 .. Frames :
                     f = [i \in 1 .. k |-> Slice(n * Slices - k + i)]

\* A clock goes off.
TurnOff(kind) ==
    /\ clock' = [clock EXCEPT ![kind] = FALSE]
    /\ cuts' = cuts + IF kind = "change" /\ clock[kind] /\ seen % Slices # 0
                      THEN 1 ELSE 0

-----------------------------------------------------------------------------
(* The application's thread.                                                *)

\* ReqStream and LoginUPNP: a request of the kind that is already pending is
\* not sent again.
Request(kind) ==
    /\ app = "idle" /\ asks < MaxAsks
    /\ asks' = asks + 1
    /\ IF clock[kind]
       THEN UNCHANGED <<clock, app>>
       ELSE clock' = [clock EXCEPT ![kind] = TRUE] /\ app' = kind
    /\ UNCHANGED <<frame, receiver, worker, socket, device, up, down, told, history>>

\* SendBuf; a send that fails leaves the clock running.
SendRequest ==
    /\ app \in Kinds
    /\ up' = IF socket.state = "up" THEN Append(up, app) ELSE up
    /\ app' = "idle"
    /\ UNCHANGED <<clock, frame, asks, receiver, worker, socket, device, down, told, history>>

\* CloseStream: the worker is joined, the socket closed, the receiver joined.
CloseStream ==
    /\ app = "idle"
    /\ socket' = [socket EXCEPT !.stop = TRUE]
    /\ app' = "joinWorker"
    /\ UNCHANGED <<clock, frame, asks, receiver, worker, device, up, down, told, history>>

\* Mutant of CloseSocket: the receiver is joined with the socket still open.
CloseSocketLater ==
    /\ app = "joinWorker" /\ worker = "done"
    /\ app' = "joinReceiver"
    /\ UNCHANGED <<clock, frame, asks, receiver, worker, socket, device, up, down, told, history>>

CloseSocket ==
    /\ app = "joinWorker" /\ worker = "done"
    /\ socket' = [socket EXCEPT !.state = "closed"]
    /\ app' = "joinReceiver"
    /\ UNCHANGED <<clock, frame, asks, receiver, worker, device, up, down, told, history>>

CloseEnds ==
    /\ app = "joinReceiver" /\ receiver = "done"
    /\ app' = "closed"
    /\ UNCHANGED <<clock, frame, asks, receiver, worker, socket, device, up, down,
                   told, history>>

-----------------------------------------------------------------------------
(* The receive thread: OnRecv and ParseStreamUnit, one unit at a time.      *)

\* OnFrameData.
Deliver(f) ==
    /\ tails' = tails + IF FrameEnd(f, Slices) THEN 0 ELSE 1
    /\ mixed' = (mixed \/ \A k \in 1 .. Slices : ~FrameEnd(f, k))

\* Mutant of TakeSlice: the slices collected before the change are kept.
TakeSliceKeepsFrame(m) ==
    IF clock.change THEN UNCHANGED <<frame, tails, mixed>>
    ELSE IF m.slice = Slices
         THEN Deliver(Append(frame, m)) /\ frame' = <<>>
         ELSE frame' = Append(frame, m) /\ UNCHANGED <<tails, mixed>>

\* Mutant of TakeSlice: the last slice does not start the buffer afresh.
TakeSliceKeepsDelivered(m) ==
    IF clock.change THEN frame' = <<>> /\ UNCHANGED <<tails, mixed>>
    ELSE /\ IF m.slice = Slices THEN Deliver(Append(frame, m))
                                ELSE UNCHANGED <<tails, mixed>>
         /\ frame' = Append(frame, m)

\* Data is thrown away while a change is pending; the last slice of a frame
\* delivers what has been collected.
TakeSlice(m) ==
    IF clock.change THEN frame' = <<>> /\ UNCHANGED <<tails, mixed>>
    ELSE IF m.slice = Slices
         THEN Deliver(Append(frame, m)) /\ frame' = <<>>
         ELSE frame' = Append(frame, m) /\ UNCHANGED <<tails, mixed>>

ReceiveData ==
    /\ receiver = "run" /\ socket.state # "closed"
    /\ down # <<>> /\ Head(down).kind = "data"
    /\ TakeSlice(Head(down))
    /\ down' = Tail(down)
    /\ seen' = seen + 1
    /\ UNCHANGED <<clock, app, asks, receiver, worker, socket, device, up, told, cuts>>

\* PC_IPC_MEDIA_TYPE_ACK and PC_IPC_UPNP_LOGIN_ACK, whatever the answer; one that
\* comes after its timeout finds the clock off and is ignored.
ReceiveAck ==
    /\ receiver = "run" /\ socket.state # "closed"
    /\ down # <<>> /\ Head(down).kind \in Kinds
    /\ TurnOff(Head(down).kind)
    /\ down' = Tail(down)
    /\ UNCHANGED <<frame, app, asks, receiver, worker, socket, device, up, told,
                   seen, tails, mixed>>

\* Mutant of ReceiveFails: the end of the connection is not reported.
ReceiveFailsSilently ==
    /\ receiver = "run"
    /\ socket.state = "closed" \/ (socket.state = "broken" /\ down = <<>>)
    /\ receiver' = "done"
    /\ UNCHANGED <<clock, frame, app, asks, worker, socket, device, up, down, told, history>>

ReceiveFails ==
    /\ receiver = "run"
    /\ socket.state = "closed" \/ (socket.state = "broken" /\ down = <<>>)
    /\ receiver' = "done"
    /\ told' = [told EXCEPT !.lost = @ \/ ~socket.stop]
    /\ UNCHANGED <<clock, frame, app, asks, worker, socket, device, up, down, history>>

-----------------------------------------------------------------------------
(* The worker thread: DoWork.  Each of its timeouts also ends it, and with  *)
(* it the keep-alive and the other clocks.                                  *)

DataTimeout ==
    /\ worker = "run"
    /\ worker' = "done"
    /\ told' = [told EXCEPT !.lost = TRUE]
    /\ UNCHANGED <<clock, frame, app, asks, receiver, socket, device, up, down, history>>

\* Mutant of RequestTimeout: the clock is not reset.
RequestTimeoutKeepsClock(kind) ==
    /\ worker = "run" /\ clock[kind]
    /\ worker' = "done"
    /\ told' = [told EXCEPT ![kind] = TRUE]
    /\ UNCHANGED <<clock, frame, app, asks, receiver, socket, device, up, down, history>>

\* CheckChangeStreamTimeout and CheckLoginTimeout.
RequestTimeout(kind) ==
    /\ worker = "run" /\ clock[kind]
    /\ worker' = "done"
    /\ TurnOff(kind)
    /\ told' = [told EXCEPT ![kind] = TRUE]
    /\ UNCHANGED <<frame, app, asks, receiver, socket, device, up, down, seen, tails,
                   mixed>>

\* A keep-alive that cannot be sent, or the stop, ends the worker unreported.
WorkerEnds ==
    /\ worker = "run"
    /\ socket.stop \/ socket.state = "broken"
    /\ worker' = "done"
    /\ UNCHANGED <<clock, frame, app, asks, receiver, socket, device, up, down,
                   told, history>>

-----------------------------------------------------------------------------
(* External: the device and the connection.                                 *)

DeviceSends ==
    /\ device.alive /\ socket.state = "up"
    /\ device.sent < Frames * Slices
    /\ device' = [device EXCEPT !.sent = @ + 1]
    /\ down' = Append(down, Slice(device.sent + 1))
    /\ UNCHANGED <<clock, frame, app, asks, receiver, worker, socket, up, told, history>>

\* An answer, success or refusal, may come between any two slices; a request may
\* stay unanswered.
DeviceAnswers ==
    /\ device.alive /\ socket.state = "up"
    /\ up # <<>>
    /\ up' = Tail(up)
    /\ down' \in {down, Append(down, Ack(Head(up)))}
    /\ UNCHANGED <<clock, frame, app, asks, receiver, worker, socket, device, told, history>>

\* The device goes silent, with its connection open or broken.
DeviceStops ==
    /\ device.alive
    /\ device' = [device EXCEPT !.alive = FALSE]
    /\ socket' \in {socket, [socket EXCEPT !.state = IF @ = "up" THEN "broken" ELSE @]}
    /\ UNCHANGED <<clock, frame, app, asks, receiver, worker, up, down, told, history>>

-----------------------------------------------------------------------------
Receiver == ReceiveData \/ ReceiveAck \/ ReceiveFails
Timeouts == DataTimeout \/ \E kind \in Kinds : RequestTimeout(kind)

Next == \/ \E kind \in Kinds : Request(kind)
        \/ SendRequest \/ CloseStream \/ CloseSocket \/ CloseEnds
        \/ Receiver \/ Timeouts \/ WorkerEnds
        \/ DeviceSends \/ DeviceAnswers \/ DeviceStops

Spec == Init /\ [][Next]_vars

\* The threads run; a clock nobody turns off runs out; a device that is gone
\* sends nothing, so the data clock runs out too.
Fairness ==
    /\ WF_vars(SendRequest) /\ WF_vars(CloseSocket) /\ WF_vars(CloseEnds)
    /\ WF_vars(Receiver)
    /\ WF_vars(socket.stop /\ WorkerEnds)
    /\ \A kind \in Kinds : WF_vars(RequestTimeout(kind))
    /\ WF_vars(~device.alive /\ DataTimeout)

FairSpec == Spec /\ Fairness

-----------------------------------------------------------------------------
(* Properties                                                               *)

\* Every variable has its type, and m_Framebuf never holds a whole frame.
StreamTypeOK ==
    /\ clock \in [Kinds -> BOOLEAN]
    /\ Len(frame) < Slices /\ \A i \in DOMAIN frame : frame[i].kind = "data"
    /\ app \in {"idle", "joinWorker", "joinReceiver", "closed"} \cup Kinds
    /\ asks \in 0 .. MaxAsks
    /\ receiver \in {"run", "done"} /\ worker \in {"run", "done"}
    /\ socket \in [state : {"up", "broken", "closed"}, stop : BOOLEAN]
    /\ device \in [alive : BOOLEAN, sent : 0 .. Frames * Slices]
    /\ \A i \in DOMAIN up : up[i] \in Kinds
    /\ \A i \in DOMAIN down : down[i].kind \in Kinds \cup {"data"}
    /\ {seen, cuts, tails} \subseteq Nat /\ mixed \in BOOLEAN
    /\ told \in [Kinds \cup {"lost"} -> BOOLEAN]

\* The decoder is never handed slices of two frames in one, and at most one frame
\* without its first slices for each time an answer to a change, or its timeout,
\* turned the clock off in the middle of a frame, whatever was thrown away before.
TornOnlyByChange == ~mixed /\ tails <= cuts

\* A device that falls silent is reported to the application, unless an earlier
\* timeout of a change or a login, itself reported, has ended the worker thread.
SilenceIsReported ==
    ~device.alive ~> \/ told.lost \/ told.change \/ told.login
                     \/ socket.stop

\* A change asked for while the worker thread watches the clocks is answered or
\* reported as timed out, or the loss of the stream or a login's timeout is
\* reported: data is not silently thrown away for ever.
WatchedChangeEnds ==
    clock.change /\ worker = "run" ~> ~clock.change \/ socket.stop \/ told.lost \/ told.login

\* Closing a stream returns, whatever its threads are doing.
CloseReturns == app = "joinWorker" ~> app = "closed"

=============================================================================
