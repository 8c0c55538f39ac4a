# Verification of AiertApp

AiertApp is an iOS client for network cameras. It keeps a list of devices,
finds devices in the local network, and plays the video and audio of one device
at a time through the TUTK peer-to-peer library. The repository also holds an
older peer-to-peer client of its own, `p2pudtclient`, which finds the device
through a SIP server and streams over UDT or TCP. This directory holds TLA+
modules of the concurrent logic of both, the TLC configurations that check
them, and TLAPS proofs. It is written from the code under `src/`; file and line
of every definition are in `PROJECT.json` under `map`.

`P2PManager.m`, `LibCoreWrap.m` and `PlayViewController.m` below are
`src/Library/TUTK_TOTC/P2PManager.m`,
`src/AiertApp/UtilityManagers/VideoClass/LibCoreWrap.m` and
`src/AiertApp/ViewControllers/VideoPlayerViewControllers/PlayViewController.m`
(a second `PlayViewController.m` under `MainViewControllesr/` is not part of the
Xcode target). `P2PClient.cpp`, `Stream.cpp`, `UdtStream.cpp`, `TcpStream.cpp`
and `zsip.cpp` are in `src/Library/p2pudtclient/` (their comments are in GBK).

## 1. Inventory

### How the parts interact

    device list --segue--> player view --calls--> LibCoreWrap --streamQueue--> P2PManager
                               ^                       |                           |
                               |                  recordFileQueue <--- delegate ---+
                               +------ main queue -----+                 global concurrent queue
                                                                               TUTK library

The main thread, `streamQueue`, `recordFileQueue`, `decodeQueue` and `talkQueue`
are serial. The queue that P2PManager plays on is the *global concurrent queue*
(`P2PManager.m:108`; the serial queue is commented out beside it), so two worker
blocks can run at once, and both use the same instance variables.

    application --calls--> CP2PClient --requests--> zsip --SIP--> server
                             |  ^  ^                  |
                 client's own|  |  +---- callbacks ---+  (worker thread)
                 thread: time|  |
                 outs, closes v |  reports, m_lock_req
                            Stream: receive thread, worker thread --UDT/TCP--> device

    screens --requests--> manager (moduleQueue) --blocks--> storage's queue --saves--> file
       ^                        |                                 |
       +----- announcements ----+  (main queue)   device list <---+ (main context)

CP2PClient keeps its requests in a map under one lock and each request under
another; four kinds of thread meet there. The device store has no locks: three
serial queues hand work on, and an announcement overtakes what it announces.

| component | state it keeps | operations | what is hard | what makes it correct |
|---|---|---|---|---|
| remote play session (P2PManager, LibCoreWrap, player view) | `SID`, `avIndex`, `deviceID`, `closeConnection`; `currentDeviceId`, registered views, queues; `isStopPlaying`, `playingFailed`; one worker block per play | start, connect, start channel, start stream, receive, close, report start, stop and failure, register, unregister, leave | shared variables on a concurrent queue; a close that races connection and failure; failure after each step of the set-up; reports through three queues | one play uses the library at a time; every end gives the library back before the view hears of it; every end reaches the view; close works |
| quality change | the `avIndex` its block read | choose, queue, send controls, tear down | runs beside the receive loop on the same variables | the loop is not left on a dead library; a failure is reported |
| camera settings, mirror, PTZ (P2PManager) | `brightness`, `contrast`, `saturation`, mirror tag; three queues | set one, set defaults, mirror, turn, stop | asynchronous setter and synchronous getter on a concurrent queue, then a serial control queue; messages lost or half acknowledged | an earlier choice arrives with the next; mirror presses alternate; the last turn asked for remains |
| request client (CP2PClient) | `m_reqid`, `m_rp`, `m_pUserData`; per request its status, stream, lock | play, transit play, UPnP play, playback, query, stop, time out, erase, delete | a callback, a timeout and a stop race for one request; locks held across joins | one verdict per request; what is over stays over; every running stream can be found |
| stream (Stream, UdtStream, TcpStream) | clocks, frame buffer, two threads, socket | open, change the stream, log in, watch, close | reports from two threads; a change while frames are under way; a close from a third thread | no frame put together from two; silence is reported; close returns |
| stream parser | receive buffer, frame buffer | receive, find a unit, assemble a frame | pieces cut anywhere; buffers at their limit | units in order, each once; frames whole |
| SIP stack (CP2PClient, zsip) | `m_bInit`, `m_bTerminated`, `m_bThreadStatus`; endpoint, keep-alive timers | initialize, release, keep alive | a thread outliving its endpoint; a chain each link of which must set the next | threads only on a live endpoint; the keep-alive goes on; release returns |
| decode pipeline (LibCoreWrap, VideoFrameExtractor) | the decoder, `buffer` | decode a frame, replace the decoder | frames queued between the two halves of a replacement; lengths taken from headers | a frame is decoded from its own bytes |
| LAN connection (ZSPConnection) | three sockets, header being read, connection state in AppData | log in, start and stop display, change channel and stream, sound, microphone | timeouts and disconnects both report; framing by tags | each end is reported once; a header is followed by its body |
| talk and sound | `enableMicrophone`, `enableSound`, recorder, AudioStreamer | switch on and off, send | state tested after being overwritten | what was switched on is switched off |
| recording | `_fp`, `fileIndexItem`, recording flag | start, write, end | file shared by main thread and recordFileQueue | a file is closed once, after it was opened |
| camera state flags (AppData) | `cameraState`, `connectionState` | add, remove, reset | cleared by every press of close | flags describe the play that is running |
| device store (Core Data manager, storage) and its screens | rows, file, main context; registered screens; three queues | add, edit, delete, announce, register, remove | two queues between request and row; announcements ahead of the change; a kill | the file is what was asked for so far; a screen closes for its own request only |
| LAN device search | found devices, busy display, timers | search, find, add | answers at any time; 20 s timers that are never cancelled | every display ends; a known device is not overwritten |
| multicast delegate | delegates with queues | add, remove, invoke | third-party | delivers in order per queue |
| audio player and recorder | AudioQueue state | start, stop, data | adapted third-party | - |
| old P2P connection, web client, screens | - | - | dead code, stateless, or presentation only | - |

`PROJECT.json` lists every component with its status, and under `hazards` the
places where this code can go wrong in a way a test would hardly reach, with the
properties that watch each or the reason why none does.

### Plan

Done: the play session; `PlayContract` with the refinement checked and proved;
the quality change beside a play; the request client, the streams, their parser
and the SIP stack; the camera controls; the device store with the search screen;
the proofs of section 4.

Next, in this order:

1. The P2P sessions of zsip (offer, answer, ICE).
2. Recording, talk and `ZSPConnection`, should the app call them again.

## 2. What is modelled

### P2PSession

Play *p* is the *p*-th player view; block *p* is the worker block its
`startRealPlay` dispatches. `pc[p]` says what that block does next:

| `pc` | code |
|---|---|
| `init`, `connect` | `checkConnectTypeWithDeviceID` (`P2PManager.m:770-845`) |
| `avstart` | `startWithSID` (695-738), called by LibCoreWrap's `didConnectDeviceID` on the same block |
| `ioctl` | `start_ipcam_stream` (607-693) |
| `loop` | the receive loop of `getMediaInfoWithVideoIndex` (449-540) |
| `stopping`, `deinit`, `report`, `forget` | after the loop (543-556) |
| `fdeinit`, `freport` | the failure paths, which all end in the same three steps |

Steps are split where another thread can see the difference: each library call
that changes the library, each write of a shared variable that another step
reads, each hand-over between queues. One action is one such step with all it
changes.

- *User*: `OpenPlayer`, `PressClose`, `CloseFailed` (the two branches of
  `closeButton_TouchUpInside`), `DismissAlert`.
- *Main queue*: `MainRegister`, `MainUnregister`, `MainStopped`, `MainFailed`.
  A stopped view that is on screen is popped; one that is not only unregisters.
- *recordFileQueue*: `RecordStarted`, `RecordEnded`: a notice goes to the views
  registered when it is delivered.
- *streamQueue*: `StreamStart` queues `StreamConnect` behind what is waiting
  already, as `connectWithDevice` does; `StreamStop` is P2PManager's
  `closeConnection` with its three early returns.
- *Block p*: one action per row of the table and per outcome.

`stopRealPlay` waits for its group with a timeout of `3.0f`, which
`dispatch_group_wait` takes as an absolute time in nanoseconds long past, so
nothing is waited for and `PressClose` returns at once.

The library is external. `session[h]` and `channel[h]` name the play that owns
a handle, `Nobody` when it is free; de-initializing frees all. Initializing
twice fails, as `IOTCAPIs.h` says. What may go wrong outside the app is a set,
`Faults`: `init`, `connect`, `uid` (the UID reported is not the one asked for, so
LibCoreWrap ignores the connection), `av`, `ioctl`, `remote`.

Assumed or abstracted:

- `dispatch_queue_set_specific` works on the global queue, so P2PManager's
  setters called from its own blocks run in place, and so do its methods that
  test the queue. (Were it not so, `start_ipcam_stream` would return at once.)
- The close button is the only way out of a player view that this app offers.
- Frames, lost frames and frames that are not ready change no state here.
- The fourth control of `start_ipcam_stream` may fail: it returns -1, which the
  caller takes for success, so it is no separate outcome.
- 64-bit or 32-bit reads and writes of the shared integers are whole.

### PlayContract and P2PImplementsContract

What a player view may rely on: a play is asked for, acquires the library or is
refused, gives it back (or loses it, when the connected device is not the one
asked for), and only then is a view told, and only a told view is left for the
device list. `P2PImplementsContract` maps P2PSession onto it: the phase is read
off `opened`, `pc` and the library, and a view is told when the news is on the
main queue or has arrived.

### P2PStreamChange

EXTENDS P2PSession with the quality menu. Each change is a second kind of worker
block: it reads `avIndex` (`ChangeBegins`), writes it back (`ChangeSetsIndex`),
sends the controls, and on a failure closes channel and session, shuts the
library down and reports, while the block of the play may be in its loop.

### P2PClient

Request *n* is the one made when `m_reqid` was *n*. `client` holds the members
of `CP2PClient`, `req[n]` those of `CUserData`, `link[n]` the stream's two
threads and its login. The program counters `app`, `check` and `sip` say where the
application's call, the client's own thread and the SIP thread stand; steps are
split at every lock, join and unlocked read. `Ask`, `AddRequest`, `Send` are one
call of `RealPlay` and its like; `StopFindsRequest` to `StopEnds` are
`StopRealPlay`, which holds both locks while it joins the stream's threads;
`CheckBegins` to `ClearRequest` are one round of `DoWork`; `Callback` to
`Registering` are `upnp_cb`, `p2p_cb` and `transit_cb`. `LoginAnswered` and
`LoginSettled` are the two halves of the login's answer: the report, and the
status set under the lock. `told` counts what the application hears of a request:
`good` and `bad` are verdicts, `lost` is the loss of data. `NotifyStreamTimeout`
(`Stream.cpp:44-70`) reports late data of a UPnP stream as a failure to connect, a
verdict, and of the other streams as lost data: its first branch, which would report a
failure to connect there too, is never taken, since `CheckRecvDataTimeout` has just set
`m_last_recv_data_time` to 0 (752) and `m_stream_create_time` is not 0 once the
stream is open (`UdtStream.cpp:128`). `Delete` takes the map away and leaves the
requests and their streams, as the destructor does.

The exceptions that `OneVerdict` and `LiveStreamInMap` name are in the code. A UPnP
play hears a second verdict when its data are late. A playback's answer
(`Stream.cpp:633-651`), a transit login's (481-524) and the transit server's stop
(619-629) are reported without the request's lock, so that of these plays one verdict is
promised only until their stream is opened. A login that was refused or could not
be sent leaves its stream behind when the request is erased, and a deleted client
leaves all of its streams.

### UdtStream

One open stream. Clocks are on or off, and that one has run out is a choice of
the step that tests it, which leaves every order of timeouts and answers open.
Every timeout ends the worker thread, as in `DoWork` (`Stream.cpp:798-839`), and
with it the other clocks. The connection delivers in order or breaks (UDT is
reliable); the device may stop at any time, with or without the connection, and
answers a change, with success or refusal, between any two slices or not at all.
Four history variables are for the invariants only: `seen` counts the slices taken,
`cuts` the changes whose clock was turned off in the middle of a frame, `tails` the
frames handed on without their first slices, and `mixed` says whether a frame ever held
slices of two.

### StreamParser

`OnRecv` and `ParseStreamUnit` on numbered bytes: the receive buffer is an
interval, and a header can be found where one begins and at least the magic
number lies in the buffer. A stream is given by its units, each with the byte where
it begins; the bytes between them are noise. A unit also says what of its frame the
device has sent before it (`open`), which bounds the frame buffer. One action per way
through the parser's loop, with the flags `bFind` and `bComplete` that decide whether
it goes round; `frame` is what the slices in `m_Framebuf` are and `frameLen` is
`m_FrameLen`. Sizes are scaled down in the run (9 bytes for the receive buffer, 10
for a frame, 3 for a header).

### SipKeepAlive

`InitZSip` and `ReleaseZSip` step by step with each failure, the worker thread,
and the keep-alive: requests and timers under way are counted, each answer or
timer is one step. The SIP server is external: any answer, or the stack's own 408.

### CameraControls

A touch puts a block on `streamQueue`; turns and mirrors go straight on to the
control queue, settings first to the global queue and back (`StoreSetting`, then
one `ReadSetting` per value, in any order, then `SendSettings`). `SendMessage` is
one `avSendIOCtrl`: acknowledged, arrived without being acknowledged, or lost.
`OpenAnother` changes the camera and nothing else, since P2PManager's tag and
settings outlive a play. Both mirror buttons are `PressMirror`. `LiftOutside` is a
finger that slides off a turn button, for which the view has no handler.

### DeviceStore

`module`, `storage` and `main` are the three queues. A request is handed on and
announced by two steps of moduleQueue (`HandOn`, `Announce`), and changes its row
in a step of the storage's queue (`RunStorage`), which may save before the queue is
empty and does when it is. `Leave` waits for moduleQueue as the synchronous
`removeDelegate` does. `draft` is the device object an edit screen hands over,
which the manager reads when moduleQueue comes to the request, so that what was
typed meanwhile is read too. `Find` looks the device up in the file, as the fetch
does. `Kill` leaves only the file; `File` is what it holds at the start.
`StoreFollowsRequests` compares the file with `seen.wishes`, the devices and users
that the requests so far add up to, one by one since the queues were last empty.

## 3. What is checked

| run | question | result |
|---|---|---|
| `p2p_safety` | with every fault and no timing assumption: is the library ever used by two blocks, left up, used while down; does a block reach only its own session and channel; does P2PSession implement PlayContract | holds, 394 793 states |
| `p2p_live` | does the end of a play reach its view; can close be pressed for ever; does a view know that its stream has ended; is an end ever lost between the queues | holds, 62 341 states |
| `p2p_lost_stop` | does a stop, once requested, end the play | **violated** |
| `p2p_stale_close` | does a stop end only the play it was requested for | **violated** |
| `p2p_change` | with a quality change: does a failed change reach the view, can close be pressed for ever | holds, 22 185 states |
| `client` | do the threads of the request client agree on one verdict; is the end told; is what is over left alone; can every running stream be found | holds, 1 038 076 states |
| `client_join` | does stopping a transit play return | **violated** |
| `udt_stream` | is a frame ever put together from two, or handed on without its first slices but for a change cut in its middle; is silence reported, does a watched change end, does close return | holds, 68 827 states |
| `parser` | for seven streams cut in every way: units in order, frames whole, everything handled | holds, 570 states |
| `sip` | do threads stay off a dead endpoint; does the keep-alive go on; does release return | holds, 5 098 states |
| `controls` | do mirror presses alternate; does a choice arrive with the next; does the last turn asked for arrive | holds, 744 247 states |
| `device` | does the file follow the requests; does a search keep what is known; do screens close for their own requests; do the displays end | holds, 447 948 states |

### The three violations

- *A stop that is dropped.* `closeConnection` (`P2PManager.m:759-768`) returns
  early until a session, a channel and a device are known. A user who presses
  close on the first play while it is connecting is ignored, the play starts,
  and the camera streams on until close is pressed again. `LibCoreWrap.h:55`
  promises to "stop real-time streaming and release connection". The run has no
  faults at all: one press, and no second one.
- *A stop that hits the next play.* The failure paths reset the flag but leave
  `deviceID`, so a stop executed after them sets the flag again. The next play
  connects and its loop ends before the first frame. The user never pressed
  close on it. This happens with both timing assumptions in force.
- *A stop that never returns.* `StopRealPlay` (`P2PClient.cpp:704`) deletes the
  stream, which joins its receive thread, while it holds the request's lock. When
  the answer to the login of a transit play comes in at that moment, the receive
  thread waits for the same lock (`Stream.cpp:493`): neither goes on, and the
  client's own thread waits for the map's lock behind them.

### Seen in the models, not stated as properties

Steps the models contain because the code does, which no property denies:

- a failed quality change shuts the library down under the receive loop, whose
  test for a dead session uses a code of the other module
  (`P2PManager.m:479`, 629), so the loop goes on until close is pressed;
- a UPnP play that gets no answer is marked timed out without a report
  (`P2PClient.cpp:1017-1026`);
- a UPnP play whose data are late is reported as a failure to connect after it was
  reported as connected (`Stream.cpp:63`);
- callbacks reach a deleted client's events object, and its streams run on with
  nobody left to close them (`P2PClient.cpp:28`);
- an answer to a change in the middle of a frame, a refusal as well, turns the clock
  off: the rest of that frame is handed to the decoder as a frame
  (`Stream.cpp:406-428`, 539);
- a failed `InitZSip` releases nothing, since `ReleaseZSip` returns while
  `m_bInit` is not set (`P2PClient.cpp:161`);
- a login that times out ends the thread that watches a pending change
  (`Stream.cpp:817`);
- noise behind a whole unit sends the parser round for ever (`Stream.cpp:449`);
- both mirror buttons send the mirror command (`P2PManager.m:865`), and a setting's
  own message may carry its old value (`P2PManager.m:973`);
- a request to edit a device is filled in late, from the object its screen still
  holds: with two saves in a row the first already writes the user of the second
  (`AiertDeviceCoreDataManager.m:246-257`), and with a deletion in between it is
  the deletion that is overtaken; `StoreFollowsRequests` allows exactly this;
- adding a known device again overwrites its user and password
  (`AiertDeviceCoreDataStorage.m:91`); the search screen avoids it only for what
  the file held when the device answered.

### Bounds

Two plays are enough for every interference between plays: the only state a
play leaves to later ones is the flag, `SID`, `avIndex`, `deviceID`, the
library and queued notices, all of which the second play meets; a run of
`p2p_safety` with three plays and one device finds nothing more. Two devices
let `currentDeviceId` differ from the device of a running block. Two handles
let a session id and a channel id differ and be reused. `MaxQueue = 2` bounds
when close may be pressed again, so that two stops can be waiting, one of them
for a play that is over by then. The change run has one play, one device and
one change, which is all its questions are about: with two plays, a failed
change lets the user open the next play while the loop of the first still holds
its thread, whose initialization then fails without a report (see the hazards).

`client` gives `m_reqid` two values, each a request or a stop, with all six
types: a request meets its successor or its stop, and each can be the one a
callback, a timeout or a stream thread is still busy with. Reports are counted
up to two, which tells one verdict from more. `udt_stream` has two frames of
two slices and two requests, so that each kind of clock can run out before or
after the other and in the middle of a frame. `parser` scales the buffers so that
each limit is met: a unit as large as the receive buffer, a frame longer than
the frame buffer. `sip` has three initializations, the third after a failure or
a release of the second. `controls` has three touches (a choice, one that
follows it, and one to interfere), two settings, two turn buttons and a second
camera. `device` starts with one device in the file and has two users, since
what can go wrong is the order of requests for one device: rows are looked up by
id and do not meet. The user does four things in all, which is an edit screen with
three requests (a save, a deletion and another save, all still queued), or three
requests and a kill, or a search between two additions. With five, or with two
devices and three, nothing more is found (7 529 434 and 111 378 states, safety only).

Deadlock checking is off because the systems may stop: a user who opens no more
players, a client without requests, a stream that is closed, a parser at the end
of its bytes and empty queues leave nothing to do.

### Timing

`Timing` names two assumptions of P2PSession, used only by the runs about liveness
and by the violations of the play session (which are the stronger for them):

- `main`: the blocks already queued on the main thread when a view opens have run
  before the network answers that view's connection. Without it a notice could
  be delivered before the view is registered, at `LibCoreWrap.m:550-559`; a
  connection through a master server takes far longer than the rest of one turn
  of the run loop, but nothing in the code enforces it.
- `settled`: by the time a user has gone back and picked the next device,
  streamQueue is empty and the blocks of earlier plays have returned.

`p2p_safety` and the proofs assume neither, but for the theorems `ViewKnows` and
`EndNotLost`, whose statements name both.

### Fairness

Weak fairness of the main thread, of `recordFileQueue`, of `streamQueue` and of
each worker block: GCD runs what is queued, a serial queue in order, and gives
each block of the concurrent queue a thread. In its loop a block is fair only
once the flag is set (`BlockProgress`): a device need never drop a healthy
session. Nothing is assumed of the user. The library calls return, with
success or failure; `avClientStart` has a timeout of 20 s (`P2PManager.m:704`).

`p2p_live` leaves out the faults `init` and `uid`: after either, nobody is told, and
the view can be left only by a report that will not come. The safety runs
include both.

`device` assumes the same of its queues, and that an `NSTimer` fires. Of the user and the
devices that answer a search nothing is assumed, nor that the app is not killed.
`controls` asks only what holds in each state and needs no fairness.

In `udt_stream` the threads run, a clock that stays on runs out (`DoWork` looks at it
in every round), and a closed socket ends its receive; the device owes no answer. In
`sip` the threads run, and a timer or an answer that stays due is taken (strong
fairness, because each round of event handling may find another one first); the
stack itself answers a request nobody answers (408). In `client_join` each mutex is
obtained by a thread that waits while it is released again and again (strong
fairness), and joins return once the thread is done: the violation is a cycle of
waits no scheduler can break. `parser` needs only that its one thread runs and bytes
that were sent arrive.

## 4. What is proved

TLAPS checks these theorems for every value of the constants that satisfies the
assumption of the module, whatever the bound of the run.

| module | theorem | statement |
|---|---|---|
| `P2PSession_proofs` | `TypeCorrect`, `InvariantHolds` | `Spec => []TypeOK`, `Spec => []IInv` |
| | `OnePlay` | `Spec => []OnePlayAtATime` |
| | `LiveLibrary` | `Spec => []CallsOnLiveLibrary` |
| | `NothingLeft` | `Spec => []NothingLeftBehind` |
| | `Ownership` | `Spec => []TearsDownItsOwn` |
| | `ContractHolds` | `Spec => ContractKept`, the refinement |
| | `ViewKnows` | `Spec => []ViewKnowsStreamEnded`, if both timing assumptions are in force |
| | `EndNotLost` | `Spec => []EndIsNotLost`, if they are and the faults `init` and `uid` are out |
| `P2PStreamChange_proofs` | `ChangeTypeCorrect` | `ChangeSpec => []ChangeTypeOK` |
| `P2PClient_proofs` | `TypeCorrect`, `InvariantHolds` | `Spec => []ClientTypeOK`, `Spec => [](ClientTypeOK /\ IInv)` |
| | `OneVerdictPerRequest` | `Spec => []OneVerdict` |
| | `LiveStreamsFound` | `Spec => []LiveStreamInMap` |
| | `EndOfNewestTold` | `Spec => []EndIsTold` |
| | `OverStaysOver` | `Spec => OverIsOver`, an action property |
| `UdtStream_proofs` | `TypeCorrect`, `InvariantHolds` | `Spec => []StreamTypeOK`, `Spec => []Core` |
| | `TornOnlyAfterChange` | `Spec => []TornOnlyByChange` |
| `SipKeepAlive_proofs` | `TypeCorrect`, `InvariantHolds` | `Spec => []SipTypeOK`, `Spec => []IInv` |
| | `WorkersHaveEndpoint` | `Spec => []WorkersOnLiveEndpoint` |
| | `BeatGoesOn` | `Spec => []BeatUnderWay` |
| | `ReleaseFindsThread` | `Spec => []ReleaseMeetsThread` |
| `CameraControls_proofs` | `TypeCorrect`, `InvariantHolds` | `Spec => []ControlsTypeOK`, `Spec => []IInv` |
| | `PressesMirror` | `Spec => []NextPressMirrors` |
| | `ChoicesArrive` | `Spec => []PacedChoiceArrives` |
| | `TurnArrives` | `Spec => []LastTurnArrived` |
| `DeviceStore_proofs` | `TypeCorrect`, `InvariantHolds` | `Spec => []DeviceTypeOK`, `Spec => []IInv` |
| | `FollowsRequests` | `Spec => []StoreFollowsRequests` |
| | `KeepsKnown` | `Spec => []SearchKeepsKnown` |
| | `ClosesOwn` | `Spec => []ClosesForItsOwn` |
| | `DisplaysGoOut` | `Spec => []DisplayEndUnderWay` |
| `StreamParser_proofs` | `TypeCorrect`, `InvariantHolds` | `Spec => []ParserTypeOK`, `Spec => []IInv` |
| | `InOrder` | `Spec => []UnitsInOrder` |
| | `Whole` | `Spec => []FramesWhole` |
| | `HoldsNothingBack` | `Spec => []NothingHeldBack` |

The assumptions are the named ASSUMEs of the modules: any number of plays,
devices and handles, any faults and timing (`ConstantsAssumption`); any number of
quality changes (`ChangesAssumption`); any subset of
the six request types and any number of requests, with a `None` that is no id,
type or thread (`ClientAssumption`); any number of frames, slices and requests
(`StreamAssumption`); any finite set of threads and number of initializations
(`SipAssumption`); any finite set of settings, any values, turns, cameras and
touches (`ControlsAssumption`; finite because a block that reads all settings
must come to an end); any devices, users and number of touches, and any file that
holds no device twice (`DeviceAssumption`); any streams of units and noise, with any
sizes of units, header and buffers, a header being longer than its magic number
(`ParserAssumption`: it also ties the place of a unit and the bytes of the open frame
to those of the unit before, since a sum over a sequence would need an induction).

Each theorem about a state follows from an inductive invariant, proved step by
step with one step per action, then one per part of the invariant. TLC checked each
of them as an invariant first, on instances of the size of the runs. `TimedInv`,
`Displays` and their like build on the invariant of their component.

*P2PSession.* None of the safety properties is inductive: nothing in
P2PManager keeps two blocks apart. What does is a chain through the view:
a new play starts only from the device list; the list is reached only by a view
that was told; a view is told only by a notice; a notice is sent only by a block
that has left the library. `IInv` states that chain link by link:

- `LastPlayOnly`: every play before the last one opened is over, and none after it
  has begun;
- `OneStartPending`: streamQueue holds at most one block that will start a worker
  block, for the last play, which has none yet;
- `OneEndNotice`: at most one notice of an end is on recordFileQueue; while it is,
  the library is down and the view does not know yet;
- `ToldIsOver`: if the view of the last play was told, by a main-queue block, the
  alert, the flag or by being gone, its block is over and the library is down;
- `LibraryFollowsBlock`: the library is up while a block is live, and down before
  it starts and after it has given up.

Ownership of handles is a second invariant proved on top of `IInv`. The refinement
proof shows for each action which contract step it is, or that it is a stutter,
from `IInv` before and after the step.

That a view is told what happened to it is more than that it is told nothing false,
and without `Timing` it is not so. `TimedInv` adds what the two assumptions give: blocks of
earlier plays are done (`EarlierDone`), so that what is reported names the device
LibCoreWrap asks for (`NamesCurrent`); the view is registered before anything can be
told (`Registered`), so that no delivery misses it; and a notice of a start on
recordFileQueue has that of the end behind it, or the block is still receiving
(`StartsEnd`), so that the end is what the view hears last. `EndIsNotLost` is the half
of the liveness property `EndReachesView` that one state can show: once a block is over,
its view knows or the notice is queued. What remains for TLC is that queues run. The faults
`init` and `uid` are excluded there because after either nobody is told at all.

*P2PStreamChange.* A change writes back the `avIndex` it has read; its types carry over
since both come from the library.

*P2PClient.* Four kinds of thread race for a request, and the code counts on
`m_lock_req`. The proof makes that explicit: `Locks` says which program counter
holds which mutex, so that a thread between lock and unlock meets nobody else;
`AnsweredOnce` and `CallbackSteps` say that a request still waiting for its answer
has no verdict and no stream, how far the SIP thread is with the one it answers, and
what the threads of a stream may have reported before the callback reports success;
`Unused` and `AppCall`, that an id not yet given out, or given to a stop,
belongs to nothing; `StreamThreads`, that threads run only in an open stream, that a
stream that was open had them, and a login that came was reported; `Erased` and
`Ended`, what is gone when a request leaves the map. `OneVerdict`, `LiveStreamInMap` and `EndIsTold` are parts of `IInv`,
since each needs the others: a second verdict would come from a thread that finds
a status its lock should have kept.

*UdtStream.* That no frame is put together from two depends on the order of the data on
the way. `Core` states it with a witness: `Ordered(at)` numbers the slices sent before
each message under way, with answers anywhere between them, and begins with the slices
taken so far. `Collected` says that the buffer holds the last k slices taken, all of the
current frame. It lacks some of them only because a pending change throws them away, or
because a change ended in the middle of this frame: such a cut has been counted and the
frame that pays for it is not delivered yet (`tails < cuts`). The last slice of the frame
settles it. The lemmas about quotient and remainder it needs are proved in the module.

*SipKeepAlive.* `ChainBounded` counts each keep-alive back to a call of `InitZSip`,
which types `chain`; `InitSteps` says how far initialization and release have come;
`OneWorker`, that unless an initialization lost its thread there is at most one,
which lives with the endpoint and whose end `m_bThreadStatus` shows. `Served` adds who
keeps the stack going: from the creation of the worker until the release a thread is
there, while the release waits one that will still see `m_bTerminated`, and a chain that
was started has a request or a timer under way unless somebody could know that it broke
off. An initialization that failed half way and left its thread is not excluded.

*CameraControls.* `NextPressMirrors` is inductive with the types. A setting's way is
longer: `OneChoiceAtATime` says that as long as every touch of a setting found the
queues quiet, blocks and writes under way carry the last choice, and what is stored,
read, sent and shown is at most one choice old. `ChoicesArrive` follows: with the
queues quiet the camera shows each value that the choice before already had. Turns
cross two queues behind other messages: by `TurnsInOrder` the last turn asked for is the
last on streamQueue, or if none is there the last on the control queue, or if none is
there either what the camera does, unless its message failed.

*DeviceStore.* A request changes its row two queues later, and the user who asks
sees neither queue. `Followed` says what the queues make of it: the rows follow the
first n requests; the storage's queue holds the next ones (`Handed`); moduleQueue
holds the rest, and a witness `at` counts how many requests are behind each of its
blocks (`Counted`), up to the last. A request on its way was `Asked`: it turns one
wish into the next, and the user an edit will carry was typed with it or with a
later request, which is why the file may be ahead of itself in a user name and in
nothing else. A step of either queue moves the border between the parts, a new
request lengthens the last, and the lemmas about `AddDevice`, `DeleteDevice` and
`EditDevice` say that each keeps a device in one row. `Closing` says where the
announcements that close edit screens can be while the screen has asked for nothing:
not among the news for it, not on moduleQueue once it listens, and before that only
ahead of its registration. `Known` says of each device a search knows that the file
has it, that it is shown as added and that no request for it is on its way; `Shown`,
that the last rows that wait to be taken over are those of the file; `Leaving`, that
a screen's removal is the last block of moduleQueue while the main thread waits.
`Displays`, on top of these, counts on the order of moduleQueue: a search screen is
registered or will be ahead of any addition it asks for, so that the announcement which
ends "adding" cannot miss it, and each busy display has a timer or an answer of its own
visit left.

*StreamParser.* The buffer's contents say little on their own. `Behind(n)` gives the
witness: the buffer begins behind the n-th unit, in noise or at the next header, so that
the first header the search can find is that of unit n + 1 (`NextFound`), also when
only the last bytes of a buffer without a header were kept. `Collected(n)` says what the
n units add up to when frames fit: each was acted on, the frame buffer holds the slices
since the last frame end and `m_FrameLen` their bytes, which is why unit n + 1 has room.
`Delivered(k)` keeps each frame handed over. `HoldsNothingBack` is about the flags that end
the loop: whatever lies whole in the buffer has a header the search finds
(`WholeIsFound`), and the parser leaves its loop only after a search that found no whole
unit.

Only model-checked are the liveness properties, since fairness and ENABLED are out of
the prover's reach. Of most of them the part that one state can show is an invariant of
its own, and proved: `EndIsNotLost` of `EndReachesView`, `BeatUnderWay` of `KeepsBeating`,
`ReleaseMeetsThread` of `ReleaseReturns`, `NothingHeldBack` of `EverythingHandled`,
`DisplayEndUnderWay` of `DisplaysEnd`. What is left to TLC there is that what is under way
comes. The last four were checked by TLC on the instances of the runs before they were
proved; the runs list the liveness properties.

## 5. What is not modelled

- *Decode pipeline, talk, recording, camera flags*: of the decoder, what is left
  besides ffmpeg is one serial queue; talk goes through the LAN connection; the
  deliveries that feed the recorder are commented out in `LibCoreWrap.m`; the flags
  gate the decoding.
- *LAN connection* (`ZSPConnection.m`): no caller in this commit
  (`LibCoreWrap.m:142` is commented out).
- *zsip's sessions* (offer, answer, ICE) and NAT detection: built on pjsip; only what
  CP2PClient asks of them and what comes back is modelled. `UpdateZSipDNS` and
  the sound, talk, PTZ and playback commands of a stream are sends without state.
- *The ping protocol's packets* (`PingLocalNetWorkProtocal.m`): a search is a ping that
  may bring answers.
- *The form a user without a password is asked to fill in*
  (`InputDeviceInfoTableViewController.m`), settings, alarms, pictures and storage
  screens: no protocol of their own.
- *Multicast delegate, audio player and recorder*: third-party or adapted from it.
  `P2PConnection.mm` is not called; the web client keeps no state.
- *Vendored libraries* (GCDAsyncSocket, AFNetworking, SDWebImage, ffmpeg, pjsip,
  udt, ZBar, JSONKit and the controls) are not this program's logic; the TUTK library
  and CoreDataStorage are binaries, of which only the calls the app makes are
  modelled.
