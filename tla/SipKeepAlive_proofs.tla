-------------------------- MODULE SipKeepAlive_proofs --------------------------
(* Proofs about SipKeepAlive, for any set of worker threads and any number *)
(* of initializations.                                                     *)
EXTENDS SipKeepAlive, TLAPS

-----------------------------------------------------------------------------
(* The inductive invariant.                                                *)

\* The calls of InitZSip that have not yet sent their keep-alive.
Starting == app \in {"thread", "created", "startKa"}

\* Every keep-alive and timer under way goes back to a call of InitZSip.
ChainBounded ==
    chain.requests + chain.timers + (IF Starting THEN 1 ELSE 0) <= inits

\* How far InitZSip and ReleaseZSip have come.
InitSteps ==
    /\ Starting => endpoint /\ ~sip.terminated /\ ~sip.init
    /\ app = "startKa" => sip.status
    /\ app = "release" => sip.terminated
    /\ sip.init => endpoint /\ (sip.status \/ sip.terminated)

\* As long as no initialization lost its thread there is at most one, it lives
\* with the endpoint, and m_bThreadStatus tells the release when it has ended.
OneWorker ==
    \/ leaked
    \/ /\ \A v, w \in Busy : v = w
       /\ Busy # {} => endpoint
       /\ app = "thread" \/ (app = "idle" /\ ~sip.init) => Busy = {}
       /\ app = "release" /\ ~sip.status => Busy = {}
       /\ app # "release" /\ sip.terminated => Busy = {}

IInv == SipTypeOK /\ ChainBounded /\ InitSteps /\ OneWorker

-----------------------------------------------------------------------------

LEMMA InitInv == Init => IInv
<1>. SUFFICES ASSUME Init PROVE IInv
  OBVIOUS
<1>1. {beat, told, dropped, leaked} \subseteq BOOLEAN
  BY Zenon DEF Init
<1>2. SipTypeOK
  <2>1. sip \in [init : BOOLEAN, terminated : BOOLEAN, status : BOOLEAN] /\ ~sip.init
        /\ endpoint \in BOOLEAN
    BY DEF Init
  <2>2. chain \in [requests : 0 .. MaxInits, timers : 0 .. MaxInits]
    BY SipAssumption DEF Init
  <2>. QED
    BY <1>1, <2>1, <2>2, SipAssumption DEF Init, SipTypeOK
<1>. QED
  BY <1>2, SipAssumption
  DEF Init, IInv, ChainBounded, InitSteps, OneWorker, Starting, Busy

\* What the two outcomes of sending a keep-alive have in common.
LEMMA SendFacts ==
    ASSUME NEW r \in Nat, NEW t \in Nat, {beat, dropped} \subseteq BOOLEAN,
           NEW c, c = [requests |-> r, timers |-> t], Sent(c) \/ NotSent(c)
    PROVE  /\ {beat', dropped'} \subseteq BOOLEAN
           /\ \E k \in {r, r + 1} : chain' = [requests |-> k, timers |-> t]
<1>1. CASE Sent(c)
  BY <1>1 DEF Sent
<1>2. CASE NotSent(c)
  BY <1>2 DEF NotSent
<1>. QED
  BY <1>1, <1>2

LEMMA NextInv ==
    ASSUME IInv, [Next]_vars
    PROVE  IInv'
<1>0. /\ sip \in [init : BOOLEAN, terminated : BOOLEAN, status : BOOLEAN]
      /\ chain \in [requests : 0 .. MaxInits, timers : 0 .. MaxInits]
      /\ chain = [requests |-> chain.requests, timers |-> chain.timers]
      /\ chain.requests \in Nat /\ chain.timers \in Nat /\ inits \in Nat
      /\ {beat, told, dropped, leaked} \subseteq BOOLEAN
  BY SipAssumption DEF IInv, SipTypeOK
<1>1. CASE InitAgain
  <2>1. PICK k \in {chain.requests, chain.requests + 1} :
            chain' = [requests |-> k, timers |-> chain.timers]
    BY <1>0, <1>1, SendFacts DEF InitAgain
  <2>2. ChainBounded'
    BY <1>0, <1>1, <2>1 DEF InitAgain, IInv, ChainBounded, Starting
  <2>3. SipTypeOK'
    <3>1. {beat', dropped'} \subseteq BOOLEAN
      BY <1>0, <1>1, SendFacts DEF InitAgain
    <3>2. chain' \in [requests : 0 .. MaxInits, timers : 0 .. MaxInits]
      BY <1>0, <1>1, <2>1, SipAssumption DEF InitAgain, IInv, ChainBounded, Starting, SipTypeOK
    <3>. QED
      BY <1>1, <3>1, <3>2, SipAssumption DEF InitAgain, IInv, SipTypeOK
  <2>. QED
    BY <1>1, <2>2, <2>3 DEF InitAgain, IInv, InitSteps, OneWorker, Starting, Busy
<1>2. CASE InitEndpoint
  <2>1. ChainBounded'
    BY <1>0, <1>2 DEF InitEndpoint, IInv, ChainBounded, Starting
  <2>2. SipTypeOK'
    <3>1. sip' \in [init : BOOLEAN, terminated : BOOLEAN, status : BOOLEAN] /\ ~sip'.init
      BY <1>0, <1>2 DEF InitEndpoint
    <3>2. inits' \in 0 .. MaxInits
      BY <1>0, <1>2, SipAssumption DEF InitEndpoint
    <3>5. endpoint' \in BOOLEAN
      BY <1>2, Zenon DEF InitEndpoint, IInv, SipTypeOK
    <3>3. {beat', told', dropped', leaked'} \subseteq BOOLEAN
      BY <1>0, <1>2, Zenon DEF InitEndpoint
    <3>4. app' \in {"thread", "fail"} /\ worker' = worker /\ chain' = chain
      BY <1>2 DEF InitEndpoint
    <3>. QED
      BY <3>1, <3>2, <3>3, <3>4, <3>5 DEF IInv, SipTypeOK
  <2>. QED
    BY <1>0, <1>2, <2>1, <2>2 DEF InitEndpoint, IInv, InitSteps, OneWorker, Starting, Busy
<1>3. CASE CreateWorker
  <2>1. SipTypeOK'
    BY <1>3 DEF CreateWorker, IInv, SipTypeOK
  <2>2. ChainBounded' /\ InitSteps'
    BY <1>0, <1>3 DEF CreateWorker, IInv, ChainBounded, InitSteps, Starting
  <2>3. OneWorker'
    <3>1. CASE app' = "fail" /\ worker' = worker
      BY <1>3, <3>1 DEF CreateWorker, IInv, OneWorker, InitSteps, Starting, Busy
    <3>2. ASSUME NEW w \in Workers, worker' = [worker EXCEPT ![w] = "check"],
                 app' = "created", Busy = {}
          PROVE  OneWorker'
      <4>1. Busy' = {w}
        BY <3>2 DEF Busy, IInv, SipTypeOK
      <4>. QED
        BY <1>3, <3>2, <4>1 DEF CreateWorker, IInv, OneWorker, InitSteps, Starting
    <3>3. leaked => OneWorker'
      BY <1>3 DEF CreateWorker, OneWorker
    <3>. QED
      BY <1>3, <3>1, <3>2, <3>3 DEF CreateWorker, IInv, OneWorker
  <2>. QED
    BY <2>1, <2>2, <2>3 DEF IInv
<1>4. CASE SetStatus
  <2>1. SipTypeOK'
    BY <1>4 DEF SetStatus, IInv, SipTypeOK
  <2>. QED
    BY <1>0, <1>4, <2>1
    DEF SetStatus, IInv, ChainBounded, InitSteps, OneWorker, Starting, Busy
<1>5. CASE StartKeepAlive
  <2>1. CASE app' = "fail"
    BY <1>0, <1>5, <2>1
    DEF StartKeepAlive, IInv, SipTypeOK, ChainBounded, InitSteps, OneWorker, Starting, Busy
  <2>2. CASE app' # "fail"
    <3>1. /\ sip' = [sip EXCEPT !.init = TRUE] /\ app' = "idle"
          /\ Sent(chain) \/ NotSent(chain)
          /\ UNCHANGED <<endpoint, worker, told, leaked, inits>>
      BY <1>5, <2>2 DEF StartKeepAlive
    <3>2. PICK k \in {chain.requests, chain.requests + 1} :
              chain' = [requests |-> k, timers |-> chain.timers]
      BY <1>0, <3>1, SendFacts
    <3>3. {beat', dropped'} \subseteq BOOLEAN
      BY <1>0, <3>1, SendFacts
    <3>4. ChainBounded'
      BY <1>0, <1>5, <3>1, <3>2 DEF StartKeepAlive, IInv, ChainBounded, Starting
    <3>5. chain' \in [requests : 0 .. MaxInits, timers : 0 .. MaxInits]
      BY <1>0, <1>5, <3>1, <3>2, SipAssumption
      DEF StartKeepAlive, IInv, ChainBounded, Starting, SipTypeOK
    <3>6. InitSteps'
      BY <1>0, <1>5, <3>1 DEF StartKeepAlive, IInv, InitSteps, Starting
    <3>7. SipTypeOK'
      BY <1>0, <3>1, <3>3, <3>5, <3>6 DEF IInv, SipTypeOK, InitSteps
    <3>8. OneWorker'
      BY <1>0, <1>5, <3>1 DEF StartKeepAlive, IInv, InitSteps, OneWorker, Starting, Busy
    <3>. QED
      BY <3>4, <3>6, <3>7, <3>8 DEF IInv
  <2>. QED
    BY <2>1, <2>2
<1>6. CASE InitFails
  BY <1>0, <1>6
  DEF InitFails, IInv, SipTypeOK, ChainBounded, InitSteps, OneWorker, Starting, Busy
<1>7. CASE Release
  <2>1. SipTypeOK'
    BY <1>7 DEF Release, IInv, SipTypeOK
  <2>. QED
    BY <1>0, <1>7, <2>1
    DEF Release, IInv, ChainBounded, InitSteps, OneWorker, Starting, Busy
<1>8. CASE ReleaseEnds
  <2>0. {beat', told', dropped', leaked'} \subseteq BOOLEAN
    BY <1>0, <1>8, Zenon DEF ReleaseEnds
  <2>1. SipTypeOK'
    <3>1. chain' \in [requests : 0 .. MaxInits, timers : 0 .. MaxInits]
      BY <1>8, SipAssumption DEF ReleaseEnds
    <3>2. sip' \in [init : BOOLEAN, terminated : BOOLEAN, status : BOOLEAN] /\ ~sip'.init
      BY <1>0, <1>8 DEF ReleaseEnds
    <3>. QED
      BY <1>8, <2>0, <3>1, <3>2 DEF ReleaseEnds, IInv, SipTypeOK
  <2>. QED
    BY <1>0, <1>8, <2>1
    DEF ReleaseEnds, IInv, ChainBounded, InitSteps, OneWorker, Starting, Busy
<1>9. ASSUME NEW w \in Workers, WorkerChecks(w)
      PROVE  IInv'
  <2>0. /\ w \in Busy
        /\ \A v \in Workers : v # w => worker'[v] = worker[v]
        /\ worker' \in [Workers -> {"none", "check", "events", "done"}]
    BY <1>9 DEF WorkerChecks, Busy, IInv, SipTypeOK
  <2>1. CASE ~sip.terminated
    <3>1. worker'[w] = "events" /\ sip' = sip /\ Busy' = Busy
      BY <1>9, <2>0, <2>1 DEF WorkerChecks, Busy, IInv, SipTypeOK
    <3>2. SipTypeOK'
      BY <1>9, <2>0, <3>1 DEF WorkerChecks, IInv, SipTypeOK
    <3>. QED
      BY <1>0, <1>9, <3>1, <3>2
      DEF WorkerChecks, IInv, ChainBounded, InitSteps, OneWorker, Starting
  <2>2. CASE sip.terminated
    <3>1. worker'[w] = "done" /\ sip' = [sip EXCEPT !.status = FALSE]
          /\ Busy' = Busy \ {w}
      BY <1>9, <2>0, <2>2 DEF WorkerChecks, Busy, IInv, SipTypeOK
    <3>2. SipTypeOK'
      BY <1>0, <1>9, <2>0, <2>2, <3>1 DEF WorkerChecks, IInv, SipTypeOK
    <3>3. ChainBounded' /\ InitSteps'
      BY <1>0, <1>9, <2>2, <3>1 DEF WorkerChecks, IInv, ChainBounded, InitSteps, Starting
    <3>4. OneWorker'
      BY <1>0, <1>9, <2>0, <2>2, <3>1 DEF WorkerChecks, IInv, OneWorker
    <3>. QED
      BY <3>2, <3>3, <3>4 DEF IInv
  <2>. QED
    BY <2>1, <2>2
<1>10. ASSUME NEW w \in Workers, worker[w] = "events",
              worker' = [worker EXCEPT ![w] = "check"],
              UNCHANGED <<app, sip, endpoint, leaked, inits>>,
              {beat', told', dropped'} \subseteq BOOLEAN,
              NEW r \in Nat, NEW t \in Nat, chain' = [requests |-> r, timers |-> t],
              r + t <= chain.requests + chain.timers
       PROVE  IInv'
  <2>1. Busy' = Busy
    BY <1>10 DEF Busy, IInv, SipTypeOK
  <2>2. ChainBounded' /\ InitSteps' /\ OneWorker'
    BY <1>0, <1>10, <2>1 DEF IInv, ChainBounded, InitSteps, OneWorker, Starting
  <2>3. chain' \in [requests : 0 .. MaxInits, timers : 0 .. MaxInits]
    BY <1>0, <1>10, SipAssumption DEF IInv, ChainBounded, SipTypeOK
  <2>4. SipTypeOK'
    BY <1>10, <2>3 DEF IInv, SipTypeOK
  <2>. QED
    BY <2>2, <2>4 DEF IInv
<1>11. ASSUME NEW w \in Workers, NoEvent(w)
       PROVE  IInv'
  <2>1. /\ worker[w] = "events" /\ worker' = [worker EXCEPT ![w] = "check"]
        /\ UNCHANGED <<app, sip, endpoint, leaked, inits, chain>>
    BY <1>11 DEF NoEvent
  <2>2. {beat', told', dropped'} \subseteq BOOLEAN
    BY <1>0, <1>11, Zenon DEF NoEvent
  <2>3. /\ chain' = [requests |-> chain.requests, timers |-> chain.timers]
        /\ chain.requests + chain.timers <= chain.requests + chain.timers
    BY <1>0, <2>1
  <2>. QED
    BY <1>0, <1>10, <2>1, <2>2, <2>3
<1>12. ASSUME NEW w \in Workers, TimerFires(w)
       PROVE  IInv'
  <2>. DEFINE c == [chain EXCEPT !.timers = @ - 1]
  <2>1. chain.timers - 1 \in Nat /\ c = [requests |-> chain.requests, timers |-> chain.timers - 1]
    BY <1>0, <1>12 DEF TimerFires
  <2>2. Sent(c) \/ NotSent(c)
    BY <1>12 DEF TimerFires
  <2>. HIDE DEF c
  <2>3. PICK k \in {chain.requests, chain.requests + 1} :
            chain' = [requests |-> k, timers |-> chain.timers - 1]
    BY <1>0, <2>1, <2>2, SendFacts
  <2>4. {beat', dropped'} \subseteq BOOLEAN
    BY <1>0, <2>1, <2>2, SendFacts
  <2>5. k \in Nat /\ k + (chain.timers - 1) <= chain.requests + chain.timers
    BY <1>0, <2>3
  <2>. QED
    BY <1>0, <1>10, <1>12, <2>1, <2>3, <2>4, <2>5 DEF TimerFires
<1>13. ASSUME NEW w \in Workers, Answered(w)
       PROVE  IInv'
  <2>0. {beat', told', dropped'} \subseteq BOOLEAN
    <3>1. beat' = beat /\ told' \in {told, TRUE} /\ dropped' \in {dropped, TRUE}
      BY <1>13 DEF Answered
    <3>. QED
      BY <1>0, <3>1, Zenon
  <2>1. chain.requests - 1 \in Nat
    BY <1>0, <1>13 DEF Answered
  <2>2. PICK k \in {chain.timers, chain.timers + 1} :
            chain' = [requests |-> chain.requests - 1, timers |-> k]
    BY <1>0, <1>13 DEF Answered
  <2>3. k \in Nat /\ (chain.requests - 1) + k <= chain.requests + chain.timers
    BY <1>0, <2>2
  <2>. QED
    BY <1>10, <1>13, <2>0, <2>1, <2>2, <2>3 DEF Answered
<1>14. CASE UNCHANGED vars
  BY <1>14 DEF vars, IInv, SipTypeOK, ChainBounded, InitSteps, OneWorker, Starting, Busy
<1>. QED
  BY <1>1, <1>2, <1>3, <1>4, <1>5, <1>6, <1>7, <1>8, <1>9, <1>11, <1>12, <1>13, <1>14
  DEF Next, App, Worker

-----------------------------------------------------------------------------

\* Through any number of initializations, releases and failures the stack's
\* state is consistent with itself: what InitZSip and ReleaseZSip have done, how
\* many keep-alives are under way, and which thread serves the endpoint
\* (P2PClient.cpp, InitZSip, ReleaseZSip, OnWork).
THEOREM InvariantHolds == Spec => []IInv
<1>. QED
  BY InitInv, NextInv, PTL DEF Spec

\* A stack that is up has its endpoint and its thread, and no more keep-alives
\* under way than InitZSip was called.
THEOREM TypeCorrect == Spec => []SipTypeOK
<1>1. IInv => SipTypeOK
  BY DEF IInv
<1>. QED
  BY <1>1, InvariantHolds, PTL

\* No worker thread handles the events of an endpoint that ReleaseZSip has
\* destroyed, unless a failed initialization left a thread behind.
THEOREM WorkersHaveEndpoint == Spec => []WorkersOnLiveEndpoint
<1>1. IInv => WorkersOnLiveEndpoint
  BY DEF IInv, OneWorker, Busy, WorkersOnLiveEndpoint
<1>. QED
  BY <1>1, InvariantHolds, PTL

-----------------------------------------------------------------------------
(* Who serves the stack, and what leads to the next keep-alive.            *)

\* From CreateWorker on, until the release is called, a thread is there, and
\* while the release waits one that will see m_bTerminated; a keep-alive chain
\* that was started breaks off only where somebody could know.
Served ==
    /\ app \in {"created", "startKa"} \/ (sip.init /\ ~sip.terminated) => Busy # {}
    /\ app = "release" /\ sip.status => Busy # {}
    /\ sip.init => told \/ dropped \/ chain.requests + chain.timers > 0

LEMMA InitServed == Init => Served
  BY DEF Init, Served

\* A step that sends or does not send a keep-alive leaves the chain going or
\* broken off where it is known.
LEMMA SendGoesOn ==
    ASSUME NEW r \in Nat, NEW t \in Nat, dropped \in BOOLEAN,
           Sent([requests |-> r, timers |-> t]) \/ NotSent([requests |-> r, timers |-> t])
    PROVE  dropped' \/ chain'.requests + chain'.timers > 0
<1>1. CASE Sent([requests |-> r, timers |-> t])
  <2>1. chain' = [requests |-> r + 1, timers |-> t]
    BY <1>1 DEF Sent
  <2>. QED
    BY <2>1
<1>2. CASE NotSent([requests |-> r, timers |-> t])
  BY <1>2 DEF NotSent
<1>. QED
  BY <1>1, <1>2

LEMMA ServedStep ==
    ASSUME IInv, Served, [Next]_vars
    PROVE  Served'
<1>0. /\ sip \in [init : BOOLEAN, terminated : BOOLEAN, status : BOOLEAN]
      /\ chain = [requests |-> chain.requests, timers |-> chain.timers]
      /\ chain.requests \in Nat /\ chain.timers \in Nat
      /\ told \in BOOLEAN /\ dropped \in BOOLEAN
  BY SipAssumption DEF IInv, SipTypeOK
<1>1. CASE InitAgain
  <2>1. dropped' \/ chain'.requests + chain'.timers > 0
    BY <1>0, <1>1, SendGoesOn DEF InitAgain
  <2>. QED
    BY <1>1, <2>1 DEF InitAgain, Served, Busy
<1>2. CASE InitEndpoint
  BY <1>0, <1>2 DEF InitEndpoint, Served
<1>3. CASE CreateWorker
  <2>1. app' = "created" => Busy' # {}
    <3>1. ASSUME app' = "created" PROVE Busy' # {}
      <4>1. PICK w \in Workers : worker' = [worker EXCEPT ![w] = "check"]
        BY <1>3, <3>1 DEF CreateWorker
      <4>2. w \in Busy'
        BY <4>1 DEF Busy, IInv, SipTypeOK
      <4>. QED
        BY <4>2
    <3>. QED
      BY <3>1
  <2>. QED
    BY <1>3, <2>1 DEF CreateWorker, Served, IInv, InitSteps, Starting
<1>4. CASE SetStatus
  BY <1>0, <1>4 DEF SetStatus, Served, IInv, InitSteps, Starting, Busy
<1>5. CASE StartKeepAlive
  <2>1. CASE app' = "fail"
    BY <1>5, <2>1 DEF StartKeepAlive, Served, IInv, InitSteps, Starting, Busy
  <2>2. CASE app' # "fail"
    <3>1. sip' = [sip EXCEPT !.init = TRUE] /\ app' = "idle" /\ worker' = worker
          /\ (Sent(chain) \/ NotSent(chain))
      BY <1>5, <2>2 DEF StartKeepAlive
    <3>2. dropped' \/ chain'.requests + chain'.timers > 0
      BY <1>0, <3>1, SendGoesOn
    <3>3. Busy' # {}
      BY <1>5, <3>1 DEF StartKeepAlive, Served, Busy
    <3>. QED
      BY <3>1, <3>2, <3>3 DEF Served
  <2>. QED
    BY <2>1, <2>2
<1>6. CASE InitFails
  BY <1>6 DEF InitFails, Served, Busy
<1>7. CASE Release
  BY <1>0, <1>7 DEF Release, Served, Busy
<1>8. CASE ReleaseEnds
  BY <1>0, <1>8 DEF ReleaseEnds, Served
<1>9. ASSUME NEW w \in Workers, WorkerChecks(w)
      PROVE  Served'
  <2>1. CASE ~sip.terminated
    <3>1. w \in Busy'
      BY <1>9, <2>1 DEF WorkerChecks, Busy, IInv, SipTypeOK
    <3>. QED
      BY <1>9, <2>1, <3>1 DEF WorkerChecks, Served
  <2>2. CASE sip.terminated
    <3>1. ~sip'.status /\ sip'.terminated /\ sip'.init = sip.init /\ app' = app
      BY <1>0, <1>9, <2>2 DEF WorkerChecks
    <3>2. app \notin {"created", "startKa"}
      BY <2>2 DEF IInv, InitSteps, Starting
    <3>. QED
      BY <1>9, <3>1, <3>2 DEF WorkerChecks, Served
  <2>. QED
    BY <2>1, <2>2
<1>10. ASSUME NEW w \in Workers, worker' = [worker EXCEPT ![w] = "check"],
              UNCHANGED <<app, sip>>,
              sip.init => told' \/ dropped' \/ chain'.requests + chain'.timers > 0
       PROVE  Served'
  <2>1. w \in Busy'
    BY <1>10 DEF Busy, IInv, SipTypeOK
  <2>. QED
    BY <1>10, <2>1 DEF Served
<1>11. ASSUME NEW w \in Workers, NoEvent(w)
       PROVE  Served'
  BY <1>10, <1>11 DEF NoEvent, Served
<1>12. ASSUME NEW w \in Workers, TimerFires(w)
       PROVE  Served'
  <2>1. chain.timers - 1 \in Nat
        /\ [chain EXCEPT !.timers = @ - 1]
             = [requests |-> chain.requests, timers |-> chain.timers - 1]
    BY <1>0, <1>12 DEF TimerFires
  <2>2. dropped' \/ chain'.requests + chain'.timers > 0
    BY <1>0, <1>12, <2>1, SendGoesOn DEF TimerFires
  <2>. QED
    BY <1>10, <1>12, <2>2 DEF TimerFires
<1>13. ASSUME NEW w \in Workers, Answered(w)
       PROVE  Served'
  <2>1. told' \/ dropped' \/ chain'.requests + chain'.timers > 0
    <3>1. CASE told' \/ dropped'
      BY <3>1
    <3>2. CASE ~told' /\ ~dropped'
      <4>1. chain' = [requests |-> chain.requests - 1, timers |-> chain.timers + 1]
        BY <1>0, <1>13, <3>2 DEF Answered
      <4>. QED
        BY <1>0, <1>13, <4>1 DEF Answered
    <3>. QED
      BY <3>1, <3>2
  <2>. QED
    BY <1>10, <1>13, <2>1 DEF Answered
<1>14. CASE UNCHANGED vars
  BY <1>14 DEF vars, Served, Busy
<1>. QED
  BY <1>1, <1>2, <1>3, <1>4, <1>5, <1>6, <1>7, <1>8, <1>9, <1>11, <1>12, <1>13, <1>14
  DEF Next, App, Worker

LEMMA ServedHolds == Spec => []Served
<1>. QED
  BY InitServed, ServedStep, InvariantHolds, PTL DEF Spec

\* A stack that is up is served, and a request or timer of its keep-alive is
\* under way, unless the chain broke off where it is known (P2PClient.cpp,
\* keep_alive_cb, keep_alive_timer_cb, OnWork).
THEOREM BeatGoesOn == Spec => []BeatUnderWay
<1>1. Served => BeatUnderWay
  BY DEF Served, BeatUnderWay
<1>. QED
  BY <1>1, ServedHolds, PTL

\* ReleaseZSip never waits for a thread that has ended (its loop reads
\* m_bThreadStatus), also when a thread an earlier initialization lost is there.
THEOREM ReleaseFindsThread == Spec => []ReleaseMeetsThread
<1>1. Served => ReleaseMeetsThread
  BY DEF Served, ReleaseMeetsThread
<1>. QED
  BY <1>1, ServedHolds, PTL

=============================================================================
