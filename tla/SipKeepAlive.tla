----------------------------- MODULE SipKeepAlive -----------------------------
(***************************************************************************)
(* The static part of CP2PClient: bringing the SIP stack up and down       *)
(* (InitZSip, ReleaseZSip), its worker thread, and the keep-alive the      *)
(* worker thread carries on: each answer sets a timer, each timer sends    *)
(* the next request.                                                       *)
(*                                                                         *)
(* One application thread calls; the SIP server is external and may give   *)
(* any answer or none, which the stack turns into an answer of its own     *)
(* (408).                                                                  *)
(***************************************************************************)
EXTENDS Integers, FiniteSets

CONSTANTS
    Workers,  \* worker threads that may be created
    MaxInits  \* bound on the calls of InitZSip

ASSUME SipAssumption == IsFiniteSet(Workers) /\ MaxInits \in Nat

VARIABLES
    app,      \* the application's thread
    sip,      \* m_bInit, m_bTerminated, m_bThreadStatus
    endpoint, \* the endpoint exists (zsip_init_flag)
    worker,   \* per thread: where it is
    chain,    \* keep-alive requests and timers under way
    beat,     \* flips with every keep-alive that is sent
    told,     \* the server no longer knows the client; the application was told
    dropped,  \* a keep-alive could not be sent or its timer not set
    leaked,   \* an initialization failed with its thread started
    inits     \* calls of InitZSip so far

vars == <<app, sip, endpoint, worker, chain, beat, told, dropped, leaked, inits>>

Init ==
    /\ app = "idle"
    /\ sip = [init |-> FALSE, terminated |-> FALSE, status |-> FALSE]
    /\ endpoint = FALSE
    /\ worker = [w \in Workers |-> "none"]
    /\ chain = [requests |-> 0, timers |-> 0]
    /\ beat = FALSE /\ told = FALSE /\ dropped = FALSE /\ leaked = FALSE
    /\ inits = 0

Busy == {w \in Workers : worker[w] \in {"check", "events"}}

-----------------------------------------------------------------------------
(* Sending a keep-alive: KeepAlive, here on top of a chain c.               *)

Sent(c) ==
    /\ chain' = [c EXCEPT !.requests = @ + 1]
    /\ beat' = ~beat
    /\ UNCHANGED dropped

\* A request that cannot be sent is not tried again; in the timer's callback
\* nobody looks at the result.
NotSent(c) == chain' = c /\ dropped' = TRUE /\ UNCHANGED beat

-----------------------------------------------------------------------------
(* InitZSip                                                                 *)

\* The stack is up already: only another keep-alive is started.
InitAgain ==
    /\ app = "idle" /\ inits < MaxInits /\ sip.init
    /\ inits' = inits + 1
    /\ Sent(chain) \/ NotSent(chain)
    /\ UNCHANGED <<app, sip, endpoint, worker, told, leaked>>

\* zsip_init and the memory pool; an endpoint that is there is taken over.
InitEndpoint ==
    /\ app = "idle" /\ inits < MaxInits /\ ~sip.init
    /\ inits' = inits + 1
    /\ \/ /\ endpoint' = TRUE /\ app' = "thread"
          /\ sip' = [sip EXCEPT !.terminated = FALSE]
       \/ endpoint' \in {endpoint, TRUE} /\ app' = "fail" /\ UNCHANGED sip
    /\ UNCHANGED <<worker, chain, beat, told, dropped, leaked>>

CreateWorker ==
    /\ app = "thread"
    /\ \/ \E w \in Workers :
            worker[w] = "none" /\ worker' = [worker EXCEPT ![w] = "check"] /\ app' = "created"
       \/ app' = "fail" /\ UNCHANGED worker
    /\ UNCHANGED <<sip, endpoint, chain, beat, told, dropped, leaked, inits>>

SetStatus ==
    /\ app = "created"
    /\ sip' = [sip EXCEPT !.status = TRUE]
    /\ app' = "startKa"
    /\ UNCHANGED <<endpoint, worker, chain, beat, told, dropped, leaked, inits>>

\* zsip_start_ka, and the first keep-alive.
StartKeepAlive ==
    /\ app = "startKa"
    /\ \/ /\ sip' = [sip EXCEPT !.init = TRUE]
          /\ Sent(chain) \/ NotSent(chain)
          /\ app' = "idle"
       \/ app' = "fail" /\ UNCHANGED <<sip, chain, beat, dropped>>
    /\ UNCHANGED <<endpoint, worker, told, leaked, inits>>

\* Mutant of InitFails: a failed initialization counts as one.
InitFailsDone ==
    /\ app = "fail"
    /\ sip' = [sip EXCEPT !.init = TRUE]
    /\ leaked' = (leaked \/ Busy # {})
    /\ app' = "idle"
    /\ UNCHANGED <<endpoint, worker, chain, beat, told, dropped, inits>>

\* ReleaseZSip is called, and returns at once because m_bInit is not set.
InitFails ==
    /\ app = "fail"
    /\ leaked' = (leaked \/ Busy # {})
    /\ app' = "idle"
    /\ UNCHANGED <<sip, endpoint, worker, chain, beat, told, dropped, inits>>

-----------------------------------------------------------------------------
(* ReleaseZSip                                                              *)

Release ==
    /\ app = "idle" /\ sip.init /\ ~sip.terminated
    /\ sip' = [sip EXCEPT !.terminated = TRUE]
    /\ app' = "release"
    /\ UNCHANGED <<endpoint, worker, chain, beat, told, dropped, leaked, inits>>

\* Mutant of ReleaseEnds: the thread is not waited for.
ReleaseEndsAtOnce ==
    /\ app = "release"
    /\ endpoint' = FALSE
    /\ chain' = [requests |-> 0, timers |-> 0]
    /\ sip' = [sip EXCEPT !.init = FALSE]
    /\ told' = FALSE /\ dropped' = FALSE
    /\ app' = "idle"
    /\ UNCHANGED <<worker, beat, leaked, inits>>

\* The thread is waited for; with the endpoint go its timers and requests.
ReleaseEnds ==
    /\ app = "release" /\ ~sip.status
    /\ endpoint' = FALSE
    /\ chain' = [requests |-> 0, timers |-> 0]
    /\ sip' = [sip EXCEPT !.init = FALSE]
    /\ told' = FALSE /\ dropped' = FALSE
    /\ app' = "idle"
    /\ UNCHANGED <<worker, beat, leaked, inits>>

-----------------------------------------------------------------------------
(* The worker thread.                                                       *)

\* Mutant of WorkerChecks: the end is not recorded in m_bThreadStatus.
WorkerChecksSilently(w) ==
    /\ worker[w] = "check"
    /\ worker' = [worker EXCEPT ![w] = IF sip.terminated THEN "done" ELSE "events"]
    /\ UNCHANGED <<app, sip, endpoint, chain, beat, told, dropped, leaked, inits>>

WorkerChecks(w) ==
    /\ worker[w] = "check"
    /\ IF sip.terminated
       THEN /\ worker' = [worker EXCEPT ![w] = "done"]
            /\ sip' = [sip EXCEPT !.status = FALSE]
       ELSE worker' = [worker EXCEPT ![w] = "events"] /\ UNCHANGED sip
    /\ UNCHANGED <<app, endpoint, chain, beat, told, dropped, leaked, inits>>

NoEvent(w) ==
    /\ worker[w] = "events"
    /\ worker' = [worker EXCEPT ![w] = "check"]
    /\ UNCHANGED <<app, sip, endpoint, chain, beat, told, dropped, leaked, inits>>

\* keep_alive_timer_cb
TimerFires(w) ==
    /\ worker[w] = "events" /\ endpoint /\ chain.timers > 0
    /\ LET c == [chain EXCEPT !.timers = @ - 1] IN Sent(c) \/ NotSent(c)
    /\ worker' = [worker EXCEPT ![w] = "check"]
    /\ UNCHANGED <<app, sip, endpoint, told, leaked, inits>>

\* Mutant of Answered: an answer that cannot be used sets no timer.
AnsweredOnlyIfGood(w) ==
    /\ worker[w] = "events" /\ endpoint /\ chain.requests > 0
    /\ LET c == [chain EXCEPT !.requests = @ - 1] IN
       \/ chain' = [c EXCEPT !.timers = @ + 1] /\ UNCHANGED <<told, dropped>>
       \/ chain' = c /\ UNCHANGED <<told, dropped>>
       \/ chain' = c /\ told' = TRUE /\ UNCHANGED dropped
    /\ worker' = [worker EXCEPT ![w] = "check"]
    /\ UNCHANGED <<app, sip, endpoint, beat, leaked, inits>>

\* keep_alive_cb: every answer, good or bad, sets the timer of the next
\* keep-alive, but for the one that says the client is not registered.
Answered(w) ==
    /\ worker[w] = "events" /\ endpoint /\ chain.requests > 0
    /\ LET c == [chain EXCEPT !.requests = @ - 1] IN
       \/ chain' = [c EXCEPT !.timers = @ + 1] /\ UNCHANGED <<told, dropped>>
       \/ chain' = c /\ dropped' = TRUE /\ UNCHANGED told
       \/ chain' = c /\ told' = TRUE /\ UNCHANGED dropped
    /\ worker' = [worker EXCEPT ![w] = "check"]
    /\ UNCHANGED <<app, sip, endpoint, beat, leaked, inits>>

-----------------------------------------------------------------------------
App == \/ InitAgain \/ InitEndpoint \/ CreateWorker \/ SetStatus \/ StartKeepAlive
       \/ InitFails \/ Release \/ ReleaseEnds
Worker(w) == WorkerChecks(w) \/ NoEvent(w) \/ TimerFires(w) \/ Answered(w)

Next == App \/ \E w \in Workers : Worker(w)

Spec == Init /\ [][Next]_vars

\* The threads run; timers expire and answers (the stack's own 408 at the
\* latest) come in while a thread handles events again and again.
Fairness ==
    /\ WF_vars(CreateWorker) /\ WF_vars(SetStatus) /\ WF_vars(StartKeepAlive)
    /\ WF_vars(InitFails) /\ WF_vars(ReleaseEnds)
    /\ \A w \in Workers :
        WF_vars(Worker(w)) /\ SF_vars(TimerFires(w)) /\ SF_vars(Answered(w))

FairSpec == Spec /\ Fairness

-----------------------------------------------------------------------------
(* Properties                                                               *)

\* Every variable has its type; a stack that is up has its endpoint and thread.
SipTypeOK ==
    /\ app \in {"idle", "thread", "created", "startKa", "fail", "release"}
    /\ sip \in [init : BOOLEAN, terminated : BOOLEAN, status : BOOLEAN]
    /\ endpoint \in BOOLEAN /\ (sip.init => endpoint /\ (sip.status \/ sip.terminated))
    /\ worker \in [Workers -> {"none", "check", "events", "done"}]
    /\ chain \in [requests : 0 .. MaxInits, timers : 0 .. MaxInits]
    /\ {beat, told, dropped, leaked} \subseteq BOOLEAN
    /\ inits \in 0 .. MaxInits

\* No thread handles events of an endpoint that is gone, through any number of
\* initializations and releases, unless an initialization failed after it had
\* started its thread: that thread is never waited for.
WorkersOnLiveEndpoint ==
    leaked \/ \A w \in Workers : worker[w] = "events" => endpoint

\* While the stack is up keep-alives keep being sent, whatever the server
\* answers, unless the application was told that the client is not registered
\* or a call of the stack failed: each answer sets the timer of the next
\* (P2PClient.cpp 209-258).
KeepsBeating ==
    \A b \in BOOLEAN :
        sip.init /\ beat = b ~> beat # b \/ told \/ dropped \/ sip.terminated

\* The half of KeepsBeating that one state can show: while the stack is up a
\* thread serves it, and a request or a timer is under way that will lead to the
\* next keep-alive, unless the application was told or a call of the stack
\* failed. One callback that neither sets a timer nor tells ends the chain.
BeatUnderWay ==
    sip.init /\ ~sip.terminated =>
        Busy # {} /\ (told \/ dropped \/ chain.requests + chain.timers > 0)

\* As long as the release waits, a thread is there that will see m_bTerminated
\* and clear m_bThreadStatus: it never waits for a thread that has ended
\* (P2PClient.cpp, ReleaseZSip and OnWork).
ReleaseMeetsThread == app = "release" /\ sip.status => Busy # {}

\* Taking the stack down comes to an end.
ReleaseReturns == app = "release" ~> app = "idle"

=============================================================================
