------------------------------ MODULE P2PClient ------------------------------
(***************************************************************************)
(* The request life cycle of CP2PClient (p2pudtclient): the calls of the   *)
(* application, the client's own thread that times requests out            *)
(* (CheckRequest, ClearRequest), the SIP thread that runs the callbacks of *)
(* zsip, and the two threads of every stream a callback opens.             *)
(*                                                                         *)
(* A request is identified by the value m_reqid had when it was made; the  *)
(* newest value is the only one whose callback is still wanted.            *)
(***************************************************************************)
EXTENDS Integers, FiniteSets, FiniteSetsExt

CONSTANTS
    Types,   \* the kinds of request the application makes (proto_req)
    MaxId,   \* bound on m_reqid
    None     \* no owner, no request

AllTypes == {"p2p", "transit", "upnp", "playback", "upnpPlayback", "query"}

ASSUME ClientAssumption ==
    /\ Types \subseteq AllTypes
    /\ MaxId \in Nat \ {0}
    /\ None \notin Int \cup AllTypes \cup {"app", "check", "sip"}

Ids == 1 .. MaxId
Statuses == {"new", "requesting", "registering", "connected", "complete",
             "timeout", "canceled", "invalid"}

VARIABLES
    client,   \* m_reqid, m_pUserData, m_rp, m_rp_erase, m_lock_rp's owner, deleted
    req,      \* per request: type, status, m_Stream, m_lock_req's owner
    link,     \* per stream: login exchange, m_bStop, receive thread, worker thread
    app,      \* where the application's call stands
    check,    \* the client's thread: where it stands, requests still to look at
    sip,      \* the SIP thread: where the callback stands, its request
    pending,  \* requests zsip has accepted and not answered
    told      \* per request: reports made, each kind counted up to its Cap

vars == <<client, req, link, app, check, sip, pending, told>>

-----------------------------------------------------------------------------
Init ==
    /\ client = [reqid |-> 0, user |-> None, map |-> {}, erase |-> {},
                 lock |-> None, deleted |-> FALSE]
    /\ req = [n \in Ids |-> [type |-> None, status |-> "new",
                             stream |-> "none", lock |-> None]]
    /\ link = [n \in Ids |-> [login |-> "no", stop |-> FALSE,
                              rcv |-> "none", beat |-> "none"]]
    /\ app = "idle"
    /\ check = [pc |-> "sleep", todo |-> {}]
    /\ sip = [pc |-> "wait", n |-> None]
    /\ pending = {}
    /\ told = [n \in Ids |-> [good |-> 0, bad |-> 0, lost |-> 0]]

\* The types AddRequest makes m_pUserData.
Playing == {"p2p", "transit", "playback", "upnp"}

\* The types CheckRequest reports when their time is up.
TimeoutReported == {"p2p", "transit", "playback", "query"}

\* A stream whose threads were started and that was not deleted.
Live(n) == req[n].stream = "open"

\* CloseStream has joined both threads of the stream.
Joined(n) == Live(n) => link[n].rcv = "done" /\ link[n].beat = "done"

SetStatus(n, s) == req' = [req EXCEPT ![n].status = s]
\* Two verdicts and one loss are enough to tell the properties apart.
Cap(kind) == IF kind = "lost" THEN 1 ELSE 2
Tell(n, kind) == told' = [told EXCEPT ![n][kind] = Min({@ + 1, Cap(kind)})]
TellIf(cond, n, kind) == IF cond THEN Tell(n, kind) ELSE UNCHANGED told

-----------------------------------------------------------------------------
(* The application: RealPlay, PlayBack, IsUPNPSupport, StopRealPlay and the *)
(* destructor.  One thread makes these calls, one at a time.               *)

Ask(t) ==
    /\ app = "idle" /\ ~client.deleted
    /\ client.reqid < MaxId
    /\ LET n == client.reqid + 1 IN
         /\ client' = [client EXCEPT !.reqid = n]
         /\ req' = [req EXCEPT ![n] = [@ EXCEPT !.type = t, !.status = "requesting"]]
    /\ app' = "add"
    /\ UNCHANGED <<link, check, sip, pending, told>>

AddRequest ==
    /\ app = "add"
    /\ client.lock = None
    /\ LET n == client.reqid IN
         client' = [client EXCEPT !.map = @ \cup {n},
                                  !.user = IF req[n].type \in Playing THEN n ELSE @]
    /\ app' = "send"
    /\ UNCHANGED <<req, link, check, sip, pending, told>>

\* zsip_req or zsip_p2p_req accepts the request or fails; a transit playback is
\* never sent.  The request stays in the map either way.
Send ==
    /\ app = "send"
    /\ pending' \in {pending, pending \cup {client.reqid}}
    /\ app' = "idle"
    /\ UNCHANGED <<client, req, link, check, sip, told>>

StopRealPlay ==
    /\ app = "idle" /\ ~client.deleted
    /\ client.reqid < MaxId
    /\ client' = [client EXCEPT !.reqid = @ + 1]
    /\ app' = "stop"
    /\ UNCHANGED <<req, link, check, sip, pending, told>>

\* Without a request of its own in the map the stop does nothing.
StopFindsRequest ==
    /\ app = "stop"
    /\ client.lock = None
    /\ IF client.user # None /\ client.user \in client.map
       THEN /\ client' = [client EXCEPT !.lock = "app"]
            /\ app' = "stopLock"
       ELSE /\ UNCHANGED client
            /\ app' = "idle"
    /\ UNCHANGED <<req, link, check, sip, pending, told>>

StopLocksRequest ==
    /\ app = "stopLock"
    /\ req[client.user].lock = None
    /\ req' = [req EXCEPT ![client.user].lock = "app"]
    /\ link' = [link EXCEPT ![client.user].stop = Live(client.user)]
    /\ app' = "stopJoin"
    /\ UNCHANGED <<client, check, sip, pending, told>>

\* Mutant of StopEnds: the stream is deleted and its pointer kept.
StopEndsKeepsPointer ==
    /\ app = "stopJoin"
    /\ Joined(client.user)
    /\ req' = [req EXCEPT ![client.user] =
                  [@ EXCEPT !.stream = "deleted", !.status = "canceled", !.lock = None]]
    /\ client' = [client EXCEPT !.user = None, !.lock = None]
    /\ app' = "idle"
    /\ UNCHANGED <<link, check, sip, pending, told>>

StopEnds ==
    /\ app = "stopJoin"
    /\ Joined(client.user)
    /\ req' = [req EXCEPT ![client.user] =
                  [@ EXCEPT !.stream = "none", !.status = "canceled", !.lock = None]]
    /\ client' = [client EXCEPT !.user = None, !.lock = None]
    /\ app' = "idle"
    /\ UNCHANGED <<link, check, sip, pending, told>>

\* ~CP2PClient joins the client's own thread; the map goes with the object, the
\* requests and the streams they hold are left behind.
Delete ==
    /\ app = "idle" /\ ~client.deleted
    /\ check.pc = "sleep"
    /\ client' = [client EXCEPT !.deleted = TRUE, !.map = {}, !.erase = {}, !.user = None]
    /\ UNCHANGED <<req, link, app, check, sip, pending, told>>

-----------------------------------------------------------------------------
(* The SIP thread: upnp_cb, p2p_cb and transit_cb.                          *)

\* The newest request is looked up, and an older one marked, without a lock.
Callback(n) ==
    /\ sip.pc = "wait"
    /\ n \in pending
    /\ pending' = pending \ {n}
    /\ IF n # client.reqid
       THEN SetStatus(n, "invalid") /\ UNCHANGED sip
       ELSE sip' = [pc |-> "lock", n |-> n] /\ UNCHANGED req
    /\ UNCHANGED <<client, link, app, check, told>>

\* Mutant of CallbackLocks: the status is not looked at again under the lock.
CallbackLocksUnchecked ==
    /\ sip.pc = "lock"
    /\ req[sip.n].lock = None
    /\ req' = [req EXCEPT ![sip.n].lock = "sip"]
    /\ sip' = [sip EXCEPT !.pc = "answer"]
    /\ UNCHANGED <<client, link, app, check, pending, told>>

CallbackLocks ==
    /\ sip.pc = "lock"
    /\ req[sip.n].lock = None
    /\ IF req[sip.n].status # "requesting"
       THEN /\ SetStatus(sip.n, "complete")
            /\ sip' = [pc |-> "wait", n |-> None]
       ELSE /\ req' = [req EXCEPT ![sip.n].lock = "sip"]
            /\ sip' = [sip EXCEPT !.pc = "answer"]
    /\ UNCHANGED <<client, link, app, check, pending, told>>

\* The callback leaves: status set, lock released.
Return(s) ==
    /\ req' = [req EXCEPT ![sip.n] = [@ EXCEPT !.status = s, !.lock = None]]
    /\ sip' = [pc |-> "wait", n |-> None]

\* An error code, an unreadable answer, a device without UPnP.
CallbackRefused ==
    /\ sip.pc = "answer"
    /\ Tell(sip.n, "bad")
    /\ Return("complete")
    /\ UNCHANGED <<client, link, app, check, pending>>

CallbackQueried ==
    /\ sip.pc = "answer"
    /\ req[sip.n].type = "query"
    /\ Tell(sip.n, "good")
    /\ Return("complete")
    /\ UNCHANGED <<client, link, app, check, pending>>

CallbackNewStream ==
    /\ sip.pc = "answer"
    /\ req[sip.n].type # "query"
    /\ req' = [req EXCEPT ![sip.n].stream = "made"]
    /\ sip' = [sip EXCEPT !.pc = "open"]
    /\ UNCHANGED <<client, link, app, check, pending, told>>

\* Mutant of OpenStreamFails: the failure is not reported.
OpenStreamFailsSilently ==
    /\ sip.pc = "open"
    /\ Return("complete")
    /\ UNCHANGED <<client, link, app, check, pending, told>>

OpenStreamFails ==
    /\ sip.pc = "open"
    /\ Tell(sip.n, "bad")
    /\ Return("complete")
    /\ UNCHANGED <<client, link, app, check, pending>>

OpenStream ==
    /\ sip.pc = "open"
    /\ req' = [req EXCEPT ![sip.n].stream = "open"]
    /\ link' = [link EXCEPT ![sip.n] = [@ EXCEPT !.rcv = "run", !.beat = "run"]]
    /\ sip' = [sip EXCEPT !.pc = "opened"]
    /\ UNCHANGED <<client, app, check, pending, told>>

\* p2p_cb reports success; upnp_cb what ReqStream returned; a playback only a
\* request that could not be sent.
Connected ==
    /\ sip.pc = "opened"
    /\ req[sip.n].type # "transit"
    /\ \/ req[sip.n].type \in {"p2p", "upnp"} /\ Tell(sip.n, "good")
       \/ req[sip.n].type # "p2p" /\ Tell(sip.n, "bad")
       \/ req[sip.n].type \in {"playback", "upnpPlayback"} /\ UNCHANGED told
    /\ Return("connected")
    /\ UNCHANGED <<client, link, app, check, pending>>

\* ReqLogin's message is out before transit_cb sets the status.
LoginSent ==
    /\ sip.pc = "opened"
    /\ req[sip.n].type = "transit"
    /\ link' = [link EXCEPT ![sip.n].login = "sent"]
    /\ sip' = [sip EXCEPT !.pc = "login"]
    /\ UNCHANGED <<client, req, app, check, pending, told>>

LoginNotSent ==
    /\ sip.pc = "opened"
    /\ req[sip.n].type = "transit"
    /\ link' = [link EXCEPT ![sip.n].login = "refused"]
    /\ Tell(sip.n, "bad")
    /\ Return("complete")
    /\ UNCHANGED <<client, app, check, pending>>

Registering ==
    /\ sip.pc = "login"
    /\ Return("registering")
    /\ UNCHANGED <<client, link, app, check, pending, told>>

-----------------------------------------------------------------------------
(* The client's own thread: DoWork's CheckRequest and ClearRequest.         *)

CheckBegins ==
    /\ check.pc = "sleep" /\ ~client.deleted
    /\ client.lock = None
    /\ client' = [client EXCEPT !.lock = "check"]
    /\ check' = [pc |-> "scan", todo |-> client.map]
    /\ UNCHANGED <<req, link, app, sip, pending, told>>

Looked == Min(check.todo)

CheckLocks ==
    /\ check.pc = "scan" /\ check.todo # {}
    /\ req[Looked].lock = None
    /\ req' = [req EXCEPT ![Looked].lock = "check"]
    /\ check' = [check EXCEPT !.pc = "look"]
    /\ UNCHANGED <<client, link, app, sip, pending, told>>

\* One turn of the loop ends: status set, and the request listed for erasing
\* when its processing is complete.
LeaveRequest(s, stream) ==
    LET n == Looked IN
    /\ req' = [req EXCEPT ![n] = [@ EXCEPT !.status = s, !.stream = stream, !.lock = None]]
    /\ client' = [client EXCEPT !.erase = IF s = "complete" THEN @ \cup {n} ELSE @]
    /\ check' = [pc |-> "scan", todo |-> check.todo \ {n}]

\* Nothing has expired.
CheckPasses ==
    /\ check.pc = "look"
    /\ req[Looked].status # "canceled"
    /\ LeaveRequest(req[Looked].status, req[Looked].stream)
    /\ UNCHANGED <<link, app, sip, pending, told>>

RequestExpires ==
    /\ check.pc = "look"
    /\ req[Looked].status = "requesting"
    /\ IF Looked # client.reqid
       THEN LeaveRequest("canceled", req[Looked].stream) /\ UNCHANGED told
       ELSE /\ LeaveRequest("timeout", req[Looked].stream)
            /\ TellIf(req[Looked].type \in TimeoutReported, Looked, "bad")
    /\ UNCHANGED <<link, app, sip, pending>>

\* Mutant of RegisterExpires: processing is called complete at once.
RegisterExpiresComplete ==
    /\ check.pc = "look"
    /\ req[Looked].status = "registering"
    /\ LeaveRequest("complete", req[Looked].stream)
    /\ Tell(Looked, "bad")
    /\ UNCHANGED <<link, app, sip, pending>>

RegisterExpires ==
    /\ check.pc = "look"
    /\ req[Looked].status = "registering"
    /\ LeaveRequest("canceled", req[Looked].stream)
    /\ Tell(Looked, "bad")
    /\ UNCHANGED <<link, app, sip, pending>>

CheckCanceled ==
    /\ check.pc = "look"
    /\ req[Looked].status = "canceled"
    /\ link' = [link EXCEPT ![Looked].stop = Live(Looked)]
    /\ check' = [check EXCEPT !.pc = "join"]
    /\ UNCHANGED <<client, req, app, sip, pending, told>>

\* Mutant of CheckCloses: the threads of the stream are not joined.
CheckClosesUnjoined ==
    /\ check.pc = "join"
    /\ LeaveRequest("complete", "none")
    /\ UNCHANGED <<link, app, sip, pending, told>>

CheckCloses ==
    /\ check.pc = "join"
    /\ Joined(Looked)
    /\ LeaveRequest("complete", "none")
    /\ UNCHANGED <<link, app, sip, pending, told>>

CheckEnds ==
    /\ check.pc = "scan" /\ check.todo = {}
    /\ client' = [client EXCEPT !.lock = None]
    /\ check' = [check EXCEPT !.pc = "clear"]
    /\ UNCHANGED <<req, link, app, sip, pending, told>>

ClearRequest ==
    /\ check.pc = "clear"
    /\ client.lock = None
    /\ client' = [client EXCEPT !.map = @ \ client.erase, !.erase = {}]
    /\ check' = [check EXCEPT !.pc = "sleep"]
    /\ UNCHANGED <<req, link, app, sip, pending, told>>

-----------------------------------------------------------------------------
(* The threads of one stream, as far as the request sees them.              *)

\* ParseCmd, PC_TRANS_LOGIN_ACK: the application is told before the lock is taken.
LoginAnswered(n, ok) ==
    /\ link[n].rcv = "run" /\ link[n].login = "sent"
    /\ link' = [link EXCEPT ![n] = [@ EXCEPT !.rcv = "ack",
                                             !.login = IF ok THEN "ok" ELSE "refused"]]
    /\ Tell(n, IF ok THEN "good" ELSE "bad")
    /\ UNCHANGED <<client, req, app, check, sip, pending>>

LoginSettled(n) ==
    /\ link[n].rcv = "ack"
    /\ req[n].lock = None
    /\ IF req[n].status = "registering"
       THEN SetStatus(n, IF link[n].login = "ok" THEN "connected" ELSE "complete")
       ELSE UNCHANGED req
    /\ link' = [link EXCEPT ![n].rcv = "run"]
    /\ UNCHANGED <<client, app, check, sip, pending, told>>

\* A TCP stream's data clock is set once its login is settled, and it reports lost
\* data only then.
Watched(n) == req[n].type = "transit" => link[n].login = "ok" /\ link[n].rcv # "ack"

\* OnRecv: the peer closed, or CloseStream closed the socket after it joined the
\* worker thread; m_bStop silences the report.
ReceiveFails(n) ==
    /\ link[n].rcv = "run"
    /\ link' = [link EXCEPT ![n].rcv = "done"]
    /\ TellIf(Watched(n) /\ ~link[n].stop, n, "lost")
    /\ UNCHANGED <<client, req, app, check, sip, pending>>

\* ParseCmd, IPC_TRANS_STOP_SYN: reported as a failure to connect.
TransitServerStops(n) ==
    /\ link[n].rcv = "run"
    /\ req[n].type = "transit"
    /\ Tell(n, "bad")
    /\ UNCHANGED <<client, req, link, app, check, sip, pending>>

\* ParseCmd, PC_IPC_PLAYBACK_ACK: reported whenever and however often it comes.
PlaybackAnswered(n, ok) ==
    /\ link[n].rcv = "run"
    /\ req[n].type \in {"playback", "upnpPlayback"}
    /\ Tell(n, IF ok THEN "good" ELSE "bad")
    /\ UNCHANGED <<client, req, link, app, check, sip, pending>>

\* DoWork: the data or a login is late.  A UPnP stream without data is reported as
\* a failure to connect, at its first data or later.  The others are reported as
\* lost in either case: CheckRecvDataTimeout has reset m_last_recv_data_time when
\* NotifyStreamTimeout compares it with m_stream_create_time, which is not 0.
WorkerTimesOut(n) ==
    /\ link[n].beat = "run" /\ Watched(n)
    /\ link' = [link EXCEPT ![n].beat = "done"]
    /\ \/ Tell(n, "lost")
       \/ req[n].type \in {"upnp", "upnpPlayback"} /\ Tell(n, "bad")
    /\ UNCHANGED <<client, req, app, check, sip, pending>>

\* A keep-alive cannot be sent, or the stop is seen.
WorkerEnds(n) ==
    /\ link[n].beat = "run"
    /\ link' = [link EXCEPT ![n].beat = "done"]
    /\ UNCHANGED <<client, req, app, check, sip, pending, told>>

\* CloseStream closes the socket once the worker has been joined.
SocketClosed(n) == link[n].stop /\ link[n].beat = "done"

-----------------------------------------------------------------------------
App == \/ \E t \in Types : Ask(t)
       \/ AddRequest \/ Send
       \/ StopRealPlay \/ StopFindsRequest \/ StopLocksRequest \/ StopEnds
       \/ Delete

SipReturns == \/ CallbackRefused \/ CallbackQueried \/ CallbackNewStream
              \/ OpenStreamFails \/ OpenStream
              \/ Connected \/ LoginSent \/ LoginNotSent \/ Registering

Sip == (\E n \in Ids : Callback(n)) \/ CallbackLocks \/ SipReturns

Checks == \/ CheckBegins \/ CheckLocks \/ CheckPasses \/ RequestExpires
          \/ RegisterExpires \/ CheckCanceled \/ CheckCloses \/ CheckEnds
          \/ ClearRequest

Streams == \E n \in Ids :
    \/ \E ok \in BOOLEAN : LoginAnswered(n, ok) \/ PlaybackAnswered(n, ok)
    \/ LoginSettled(n) \/ ReceiveFails(n) \/ TransitServerStops(n)
    \/ WorkerTimesOut(n) \/ WorkerEnds(n)

Next == App \/ Sip \/ Checks \/ Streams

Spec == Init /\ [][Next]_vars

\* Every thread runs, a mutex that keeps being released is eventually obtained,
\* OpenStream returns, a closed socket ends its receive, and time passes: a
\* request that is looked at again and again expires.  The application and the
\* network owe nothing.
Fairness ==
    /\ WF_vars(Send)
    /\ SF_vars(AddRequest) /\ SF_vars(StopFindsRequest) /\ SF_vars(StopLocksRequest)
    /\ WF_vars(StopEnds)
    /\ SF_vars(CallbackLocks) /\ WF_vars(SipReturns)
    /\ SF_vars(CheckBegins) /\ SF_vars(CheckLocks) /\ SF_vars(ClearRequest)
    /\ WF_vars(CheckPasses \/ CheckCanceled \/ CheckCloses \/ CheckEnds)
    /\ SF_vars(RequestExpires) /\ SF_vars(RegisterExpires)
    /\ \A n \in Ids : /\ SF_vars(LoginSettled(n))
                      /\ WF_vars(SocketClosed(n) /\ ReceiveFails(n))
                      /\ WF_vars(link[n].stop /\ WorkerEnds(n))

FairSpec == Spec /\ Fairness

-----------------------------------------------------------------------------
(* Properties                                                               *)

\* Every variable has its type: no stream pointer outlives its stream.
ClientTypeOK ==
    /\ client \in [reqid : 0 .. MaxId, user : Ids \cup {None}, map : SUBSET Ids,
                   erase : SUBSET Ids, lock : {None, "app", "check"},
                   deleted : BOOLEAN]
    /\ req \in [Ids -> [type : AllTypes \cup {None}, status : Statuses,
                        stream : {"none", "made", "open"},
                        lock : {None, "app", "check", "sip"}]]
    /\ link \in [Ids -> [login : {"no", "sent", "ok", "refused"}, stop : BOOLEAN,
                         rcv : {"none", "run", "ack", "done"},
                         beat : {"none", "run", "done"}]]
    /\ app \in {"idle", "add", "send", "stop", "stopLock", "stopJoin"}
    /\ check \in [pc : {"sleep", "scan", "look", "join", "clear"}, todo : SUBSET Ids]
    /\ sip \in [pc : {"wait", "lock", "answer", "open", "opened", "login"},
                n : Ids \cup {None}]
    /\ pending \subseteq Ids
    /\ told \in [Ids -> [good : 0 .. 2, bad : 0 .. 2, lost : 0 .. 1]]

Verdicts(n) == told[n].good + told[n].bad

\* The application hears one verdict per request, success or failure, whatever
\* the order in which the callback, the timeout and a stop take m_lock_req.  That
\* is the whole of it for a P2P play and a query.  A UPnP play whose data fail to
\* come hears one more, a failure to connect, from its worker thread.  Of a
\* playback and a transit play it is true until their stream is opened: then the
\* device answers the playback as often as it likes, and the login's answer and
\* the transit server's stop are reported without m_lock_req, so they can follow
\* the report that the registration timed out.
OneVerdict ==
    \A n \in Ids :
        /\ req[n].type \in {"p2p", "query"} => Verdicts(n) <= 1
        /\ req[n].type = "upnp" => Verdicts(n) <= IF link[n].beat = "done" THEN 2 ELSE 1
        /\ link[n].rcv = "none" => Verdicts(n) <= 1

\* A request that was stopped, timed out, superseded or refused and holds no
\* running stream.
Over(n) ==
    /\ req[n].status \in {"canceled", "timeout", "invalid", "complete"}
    /\ ~Live(n)

\* What is over stays over: no late callback, timeout or stream thread makes
\* another report for it or gives it a stream.
OverIsOver == [][\A n \in Ids : Over(n) => Over(n)' /\ told'[n] = told[n]]_vars

\* A running stream can still be found by the threads that close streams: its
\* request is in m_rp.  Two kinds of stream are left behind and run on: one whose
\* login was refused or could not be sent, when its request is erased, and all of
\* a client that is deleted.
LiveStreamInMap ==
    \A n \in Ids : Live(n) =>
        n \in client.map \/ link[n].login = "refused" \/ client.deleted

\* The end of the newest request, whichever thread brought it about, was told to
\* the application: an answer, a refusal, a login that failed or took too long.
EndIsTold ==
    \A n \in Ids :
        /\ n = client.reqid /\ req[n].type \in {"p2p", "transit", "query"}
        /\ req[n].status \in {"connected", "complete", "canceled", "timeout"}
        => Verdicts(n) > 0

\* StopRealPlay returns.
StopReturns == app = "stop" ~> app = "idle"

=============================================================================
