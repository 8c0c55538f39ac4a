-------------------------- MODULE P2PClient_proofs --------------------------
(* Proofs about P2PClient, for every set of request types and any number   *)
(* of requests.                                                            *)
EXTENDS P2PClient, WellFoundedInduction, TLAPS

-----------------------------------------------------------------------------
(* The inductive invariant.                                                *)

\* No answer to n was acted on yet: it has no stream, and no thread of one.
Untouched(n) ==
    /\ req[n].stream = "none" /\ link[n].login = "no"
    /\ link[n].rcv = "none" /\ link[n].beat = "none"

\* The SIP thread holds the lock of n and works on its answer.
Answering(n) == sip.n = n /\ sip.pc \in {"answer", "open", "opened", "login"}

\* A mutex is held exactly while its owner's program counter says so.
Locks ==
    /\ client.lock = "app" <=> app \in {"stopLock", "stopJoin"}
    /\ client.lock = "check" <=> check.pc \in {"scan", "look", "join"}
    /\ \A n \in Ids :
        /\ req[n].lock = "app" <=> app = "stopJoin" /\ client.user = n
        /\ req[n].lock = "check" <=> check.pc \in {"look", "join"} /\ Looked = n
        /\ req[n].lock = "sip" <=> Answering(n)
    /\ app \in {"stopLock", "stopJoin"} => client.user \in Ids
    /\ check.pc \in {"look", "join"} => check.todo # {}
    /\ check.todo \subseteq client.map
    /\ check.pc \in {"sleep", "clear"} => check.todo = {}
    /\ sip.pc # "wait" => sip.n \in Ids

\* A value m_reqid has not had, or had for a stop, belongs to no request.
Unused ==
    \A n \in Ids :
        /\ n > client.reqid => req[n].type = None
        /\ req[n].type = None <=> req[n].status = "new"
        /\ req[n].type = None =>
              /\ Untouched(n) /\ Verdicts(n) = 0
              /\ n \notin client.map \cup client.erase \cup pending
              /\ sip.n # n /\ client.user # n

\* The application's call works on the newest value of m_reqid.
AppCall ==
    /\ app # "idle" => client.reqid \in Ids
    /\ app \in {"add", "send"} =>
          /\ req[client.reqid].type # None
          /\ client.reqid \notin pending /\ sip.n # client.reqid
          /\ Untouched(client.reqid)
          /\ req[client.reqid].status \notin {"registering", "connected"}
    /\ app = "add" =>
          /\ req[client.reqid].status = "requesting"
          /\ client.reqid \notin client.map
    /\ app \in {"stop", "stopLock", "stopJoin"} => req[client.reqid].type = None

\* An answer is acted on once: while it is awaited nothing was made for it, and
\* before its stream is open nothing was reported.
AnsweredOnce ==
    \A n \in Ids :
        /\ n \in pending => sip.n # n
        /\ n \in pending \/ (sip.n = n /\ sip.pc = "lock") =>
              Untouched(n) /\ req[n].status \notin {"registering", "connected"}
        /\ req[n].status = "requesting" =>
              /\ Answering(n) \/ Untouched(n)
              /\ (sip.n = n /\ sip.pc \in {"opened", "login"}) \/ Verdicts(n) = 0
        /\ sip.n = n /\ sip.pc = "opened" =>
              /\ req[n].type \in {"p2p", "query"} => Verdicts(n) = 0
              /\ req[n].type = "upnp" =>
                    Verdicts(n) <= IF link[n].beat = "done" THEN 1 ELSE 0

\* What the callback has done so far.
CallbackSteps ==
    /\ sip.pc = "wait" <=> sip.n = None
    /\ \A n \in Ids :
        /\ Answering(n) => req[n].status = "requesting"
        /\ sip.n = n /\ sip.pc = "answer" => Untouched(n)
        /\ sip.n = n /\ sip.pc = "open" =>
              /\ req[n].stream = "made" /\ link[n].login = "no"
              /\ link[n].rcv = "none" /\ link[n].beat = "none"
        /\ sip.n = n /\ sip.pc = "opened" => Live(n) /\ link[n].login = "no"
        /\ sip.n = n /\ sip.pc = "login" => Live(n) /\ link[n].login # "no"

\* The threads of a stream run only while it is open, and its login is reported.
StreamThreads ==
    \A n \in Ids :
        /\ link[n].rcv \in {"run", "ack"} \/ link[n].beat = "run" => Live(n)
        /\ Live(n) \/ link[n].login # "no" => link[n].rcv # "none"
        /\ link[n].login # "no" => req[n].type = "transit"
        /\ link[n].login \in {"ok", "refused"} => Verdicts(n) > 0
        /\ link[n].rcv = "ack" => link[n].login \in {"ok", "refused"}
        /\ req[n].status = "registering" => link[n].login # "no"

\* A request leaves the map only when nothing is left to do for it.
Erased ==
    \A n \in Ids :
        /\ req[n].status \in {"requesting", "registering"} =>
              n \in client.map \/ (app = "add" /\ n = client.reqid) \/ client.deleted
        /\ n \in client.erase => req[n].status \in {"complete", "invalid", "canceled"}
        /\ Live(n) /\ (n \in client.erase \/ req[n].status = "complete") =>
              link[n].login = "refused"

\* Only an older request is marked invalid, and a check joins what was canceled.
Ended ==
    /\ \A n \in Ids : req[n].status = "invalid" => n # client.reqid
    /\ check.pc = "join" => req[Looked].status \in {"canceled", "invalid"}

IInv == /\ Locks /\ Unused /\ AppCall /\ AnsweredOnce /\ CallbackSteps
        /\ StreamThreads /\ Erased /\ Ended
        /\ OneVerdict /\ LiveStreamInMap /\ EndIsTold

-----------------------------------------------------------------------------
(* What the model's helpers return.                                        *)

Reports == [good : 0 .. 2, bad : 0 .. 2, lost : 0 .. 1]

\* Every set of natural numbers that is not empty has a least element.
LEMMA LeastElement ==
    ASSUME NEW S, S \subseteq Nat, S # {}
    PROVE  Min(S) \in S
<1>1. PICK x \in S : \A y \in S : ~(<<y, x>> \in OpToRel(<, Nat))
  <2>. DEFINE R == OpToRel(<, Nat)
  <2>1. IsWellFoundedOn(R, Nat)
    BY NatLessThanWellFounded
  <2>. HIDE DEF R
  <2>2. \E x \in S : \A y \in S : ~(<<y, x>> \in R)
    BY <2>1, WFMin
  <2>. QED
    BY <2>2 DEF R
<1>2. \A y \in S : x <= y
  <2>. SUFFICES ASSUME NEW y \in S, y < x PROVE FALSE
    OBVIOUS
  <2>1. <<y, x>> \in OpToRel(<, Nat)
    BY DEF OpToRel
  <2>. QED
    BY <1>1, <2>1
<1>. QED
  BY <1>2 DEF Min

LEMMA MinOfTwo ==
    ASSUME NEW a \in Int, NEW b \in Int
    PROVE  Min({a, b}) = IF a <= b THEN a ELSE b
BY DEF Min

\* The check looks at a request that is in the map.
LEMMA LookedFacts ==
    ASSUME ClientTypeOK, check.todo # {}
    PROVE  Looked \in check.todo /\ Looked \in Ids
<1>1. check.todo \subseteq Ids
  BY DEF ClientTypeOK
<1>2. check.todo \subseteq Nat
  BY <1>1, ClientAssumption DEF Ids
<1>. QED
  BY <1>1, <1>2, LeastElement DEF Looked

\* A report changes the count of one request.
LEMMA TellFacts ==
    ASSUME ClientTypeOK, NEW n \in Ids, NEW kind \in {"good", "bad", "lost"},
           Tell(n, kind)
    PROVE  /\ told' \in [Ids -> Reports]
           /\ \A m \in Ids : m # n => told'[m] = told[m]
           /\ kind = "lost" =>
                 told'[n].good = told[n].good /\ told'[n].bad = told[n].bad
           /\ kind # "lost" =>
                 /\ told'[n].good + told'[n].bad > 0
                 /\ told'[n].good + told'[n].bad <= told[n].good + told[n].bad + 1
                 /\ told[n].good + told[n].bad = 0 => told'[n].good + told'[n].bad = 1
<1>1. told \in [Ids -> Reports] /\ told[n] \in Reports
  BY DEF ClientTypeOK, Reports
<1>2. told' = [told EXCEPT ![n][kind] = Min({told[n][kind] + 1, Cap(kind)})]
  BY DEF Tell
<1>3. told[n][kind] \in 0 .. Cap(kind) /\ Cap(kind) \in 1 .. 2
  BY <1>1 DEF Reports, Cap
<1>4. PICK k \in 1 .. Cap(kind) :
          /\ k = Min({told[n][kind] + 1, Cap(kind)})
          /\ told[n][kind] = 0 => k = 1
          /\ k <= told[n][kind] + 1
  <2>1. told[n][kind] + 1 \in Int /\ Cap(kind) \in Int
    BY <1>3
  <2>. QED
    BY <1>3, <2>1, MinOfTwo
<1>5. told' = [told EXCEPT ![n] = [told[n] EXCEPT ![kind] = k]]
  BY <1>1, <1>2, <1>4
<1>6. told'[n] = [told[n] EXCEPT ![kind] = k]
  BY <1>1, <1>5
<1>7. [told[n] EXCEPT ![kind] = k] \in Reports
  <2>1. CASE kind = "good"
    BY <1>1, <1>4, <2>1 DEF Reports, Cap
  <2>2. CASE kind = "bad"
    BY <1>1, <1>4, <2>2 DEF Reports, Cap
  <2>3. CASE kind = "lost"
    BY <1>1, <1>4, <2>3 DEF Reports, Cap
  <2>. QED
    BY <2>1, <2>2, <2>3
<1>8. told' \in [Ids -> Reports] /\ \A m \in Ids : m # n => told'[m] = told[m]
  BY <1>1, <1>5, <1>7
<1>9. CASE kind = "lost"
  BY <1>1, <1>6, <1>8, <1>9 DEF Reports
<1>10. CASE kind = "good"
  BY <1>1, <1>4, <1>6, <1>8, <1>10 DEF Reports, Cap
<1>11. CASE kind = "bad"
  BY <1>1, <1>4, <1>6, <1>8, <1>11 DEF Reports, Cap
<1>. QED
  BY <1>8, <1>9, <1>10, <1>11

\* The reports made of one request are numbers.
LEMMA VerdictsTyped ==
    ASSUME ClientTypeOK, NEW n \in Ids
    PROVE  told[n].good + told[n].bad \in Nat
<1>1. told[n] \in Reports
  BY DEF ClientTypeOK, Reports
<1>. QED
  BY <1>1 DEF Reports

\* OneVerdict of one request, and what keeps it: no verdict is added, and the
\* threads of its stream do not go back.
OneVerdictOf(n) ==
    /\ req[n].type \in {"p2p", "query"} => Verdicts(n) <= 1
    /\ req[n].type = "upnp" => Verdicts(n) <= IF link[n].beat = "done" THEN 2 ELSE 1
    /\ link[n].rcv = "none" => Verdicts(n) <= 1

LEMMA VerdictsKept ==
    ASSUME ClientTypeOK, OneVerdict, NEW n \in Ids,
           told'[n].good = told[n].good, told'[n].bad = told[n].bad,
           req'[n].type = req[n].type,
           link'[n].rcv = "none" => link[n].rcv = "none",
           link[n].beat = "done" => link'[n].beat = "done"
    PROVE  OneVerdictOf(n)'
<1>1. OneVerdictOf(n)
  BY DEF OneVerdict, OneVerdictOf
<1>2. PICK v \in Nat : v = told[n].good + told[n].bad
  BY VerdictsTyped
<1>3. Verdicts(n) = v /\ Verdicts(n)' = v
  BY <1>2 DEF Verdicts
<1>. QED
  BY <1>1, <1>3 DEF OneVerdictOf

-----------------------------------------------------------------------------
(* Types.                                                                  *)

ClientRec == [reqid : 0 .. MaxId, user : Ids \cup {None}, map : SUBSET Ids,
              erase : SUBSET Ids, lock : {None, "app", "check"}, deleted : BOOLEAN]
ReqRec == [type : AllTypes \cup {None}, status : Statuses,
           stream : {"none", "made", "open"}, lock : {None, "app", "check", "sip"}]
LinkRec == [login : {"no", "sent", "ok", "refused"}, stop : BOOLEAN,
            rcv : {"none", "run", "ack", "done"}, beat : {"none", "run", "done"}]

LEMMA Records ==
    ASSUME ClientTypeOK
    PROVE  /\ client \in ClientRec /\ req \in [Ids -> ReqRec] /\ link \in [Ids -> LinkRec]
           /\ \A n \in Ids : req[n] \in ReqRec /\ link[n] \in LinkRec
BY DEF ClientTypeOK, ClientRec, ReqRec, LinkRec

\* A request's record is typed when its fields are.
LEMMA ReqTyped ==
    ASSUME ClientTypeOK, NEW n \in Ids, NEW s \in Statuses,
           NEW r \in {"none", "made", "open"},
           req'[n] = [type |-> req[n].type, status |-> s, stream |-> r, lock |-> None],
           \E v : req' = [req EXCEPT ![n] = v]
    PROVE  req' \in [Ids -> ReqRec]
<1>1. req'[n] \in ReqRec
  BY Records DEF ReqRec
<1>. QED
  BY <1>1, Records

\* A stream that is told to stop, or was told already.
LEMMA StopTyped ==
    ASSUME ClientTypeOK, NEW n \in Ids, NEW b \in BOOLEAN,
           link' = [link EXCEPT ![n].stop = b]
    PROVE  link' \in [Ids -> LinkRec]
BY Records DEF LinkRec

LEMMA InitType == Init => ClientTypeOK
BY ClientAssumption DEF Init, ClientTypeOK, Ids, Statuses

LEMMA AppType ==
    ASSUME ClientTypeOK, Locks, AppCall, App
    PROVE  ClientTypeOK'
<1>0. /\ client \in ClientRec /\ req \in [Ids -> ReqRec] /\ link \in [Ids -> LinkRec]
      /\ \A n \in Ids : req[n] \in ReqRec /\ link[n] \in LinkRec
  BY Records
<1>1. ASSUME NEW t \in Types, Ask(t)
      PROVE  ClientTypeOK'
  <2>. DEFINE n == client.reqid + 1
  <2>1. n \in Ids /\ n \in 0 .. MaxId
    BY <1>0, <1>1, ClientAssumption DEF Ask, ClientRec, Ids
  <2>2. client' \in ClientRec
    BY <1>0, <1>1, <2>1 DEF Ask, ClientRec
  <2>3. req'[n] = [type |-> t, status |-> "requesting", stream |-> req[n].stream,
                   lock |-> req[n].lock]
    BY <1>0, <1>1, <2>1 DEF Ask, ReqRec
  <2>4. req'[n] \in ReqRec
    BY <1>0, <2>1, <2>3, ClientAssumption DEF ReqRec, Statuses
  <2>5. req' \in [Ids -> ReqRec]
    BY <1>0, <1>1, <2>1, <2>4 DEF Ask
  <2>. QED
    BY <1>1, <2>2, <2>5 DEF Ask, ClientTypeOK, ClientRec, ReqRec
<1>2. CASE AddRequest
  <2>1. client.reqid \in Ids
    BY <1>2 DEF AddRequest, AppCall
  <2>2. client' = [reqid |-> client.reqid,
                   user |-> IF req[client.reqid].type \in Playing
                            THEN client.reqid ELSE client.user,
                   map |-> client.map \cup {client.reqid}, erase |-> client.erase,
                   lock |-> client.lock, deleted |-> client.deleted]
    BY <1>0, <1>2 DEF AddRequest, ClientRec
  <2>3. client' \in ClientRec
    BY <1>0, <2>1, <2>2 DEF ClientRec
  <2>. QED
    BY <1>2, <2>3 DEF AddRequest, ClientTypeOK, ClientRec
<1>3. CASE Send
  BY <1>3 DEF Send, AppCall, ClientTypeOK
<1>4. CASE StopRealPlay
  <2>1. client' \in ClientRec
    BY <1>0, <1>4, ClientAssumption DEF StopRealPlay, ClientRec
  <2>. QED
    BY <1>4, <2>1 DEF StopRealPlay, ClientTypeOK, ClientRec
<1>5. CASE StopFindsRequest
  <2>1. client' \in ClientRec
    BY <1>0, <1>5 DEF StopFindsRequest, ClientRec
  <2>. QED
    BY <1>5, <2>1 DEF StopFindsRequest, ClientTypeOK, ClientRec
<1>6. CASE StopLocksRequest
  <2>1. client.user \in Ids
    BY <1>6 DEF StopLocksRequest, Locks
  <2>2. req' \in [Ids -> ReqRec]
    BY <1>0, <1>6, <2>1 DEF StopLocksRequest, ReqRec
  <2>3. link' \in [Ids -> LinkRec]
    <3>1. PICK b \in BOOLEAN : b = Live(client.user)
      BY DEF Live
    <3>. QED
      BY <1>6, <2>1, <3>1, StopTyped DEF StopLocksRequest
  <2>. QED
    BY <1>6, <2>2, <2>3 DEF StopLocksRequest, ClientTypeOK, ReqRec, LinkRec
<1>7. CASE StopEnds
  <2>1. client.user \in Ids
    BY <1>7 DEF StopEnds, Locks
  <2>2. req'[client.user] = [type |-> req[client.user].type, status |-> "canceled",
                             stream |-> "none", lock |-> None]
    BY <1>0, <1>7, <2>1 DEF StopEnds, ReqRec
  <2>3. req'[client.user] \in ReqRec
    BY <1>0, <2>1, <2>2 DEF ReqRec, Statuses
  <2>4. req' \in [Ids -> ReqRec]
    BY <1>0, <1>7, <2>1, <2>3 DEF StopEnds
  <2>5. client' = [reqid |-> client.reqid, user |-> None, map |-> client.map,
                   erase |-> client.erase, lock |-> None, deleted |-> client.deleted]
    BY <1>0, <1>7 DEF StopEnds, ClientRec
  <2>6. client' \in ClientRec
    BY <1>0, <2>5 DEF ClientRec
  <2>. QED
    BY <1>7, <2>4, <2>6 DEF StopEnds, ClientTypeOK, ClientRec, ReqRec
<1>8. CASE Delete
  <2>1. client' \in ClientRec
    BY <1>0, <1>8 DEF Delete, ClientRec
  <2>. QED
    BY <1>8, <2>1 DEF Delete, ClientTypeOK, ClientRec
<1>. QED
  BY <1>1, <1>2, <1>3, <1>4, <1>5, <1>6, <1>7, <1>8 DEF App

LEMMA ReturnType ==
    ASSUME ClientTypeOK, sip.n \in Ids, NEW s \in Statuses, Return(s)
    PROVE  /\ req' \in [Ids -> ReqRec]
           /\ sip' = [pc |-> "wait", n |-> None]
<1>1. req'[sip.n] = [type |-> req[sip.n].type, status |-> s,
                     stream |-> req[sip.n].stream, lock |-> None]
  BY Records DEF Return, ReqRec
<1>. QED
  BY <1>1, ReqTyped, Records DEF Return, ReqRec

LEMMA SipType ==
    ASSUME ClientTypeOK, Locks, Sip
    PROVE  ClientTypeOK'
<1>0. /\ req \in [Ids -> ReqRec] /\ link \in [Ids -> LinkRec]
      /\ \A n \in Ids : req[n] \in ReqRec /\ link[n] \in LinkRec
  BY Records
<1>1. ASSUME NEW n \in Ids, Callback(n)
      PROVE  ClientTypeOK'
  <2>1. req' \in [Ids -> ReqRec]
    BY <1>0, <1>1 DEF Callback, SetStatus, ReqRec, Statuses
  <2>. QED
    BY <1>1, <2>1 DEF Callback, ClientTypeOK, ReqRec
<1>2. CASE CallbackLocks
  <2>1. sip.n \in Ids
    BY <1>2 DEF CallbackLocks, Locks
  <2>2. req' \in [Ids -> ReqRec]
    BY <1>0, <1>2, <2>1 DEF CallbackLocks, SetStatus, ReqRec, Statuses
  <2>. QED
    BY <1>2, <2>1, <2>2 DEF CallbackLocks, ClientTypeOK, ReqRec
<1>3. ASSUME SipReturns
      PROVE  ClientTypeOK'
  <2>1. sip.n \in Ids
    BY <1>3 DEF SipReturns, CallbackRefused, CallbackQueried, CallbackNewStream,
       OpenStreamFails, OpenStream, Connected, LoginSent, LoginNotSent, Registering, Locks
  <2>2. {"complete", "connected", "registering"} \subseteq Statuses
    BY DEF Statuses
  <2>3. CASE CallbackRefused
    BY <2>1, <2>2, <2>3, ReturnType, TellFacts
    DEF CallbackRefused, ClientTypeOK, ReqRec, Reports
  <2>4. CASE CallbackQueried
    BY <2>1, <2>2, <2>4, ReturnType, TellFacts
    DEF CallbackQueried, ClientTypeOK, ReqRec, Reports
  <2>5. CASE CallbackNewStream
    <3>1. req' \in [Ids -> ReqRec]
      BY <1>0, <2>1, <2>5 DEF CallbackNewStream, ReqRec
    <3>. QED
      BY <2>5, <3>1 DEF CallbackNewStream, ClientTypeOK, ReqRec
  <2>6. CASE OpenStreamFails
    BY <2>1, <2>2, <2>6, ReturnType, TellFacts
    DEF OpenStreamFails, ClientTypeOK, ReqRec, Reports
  <2>7. CASE OpenStream
    <3>1. req' \in [Ids -> ReqRec]
      BY <1>0, <2>1, <2>7 DEF OpenStream, ReqRec
    <3>2. link'[sip.n] = [login |-> link[sip.n].login, stop |-> link[sip.n].stop,
                          rcv |-> "run", beat |-> "run"]
      BY <1>0, <2>1, <2>7 DEF OpenStream, LinkRec
    <3>3. link'[sip.n] \in LinkRec
      BY <1>0, <2>1, <3>2 DEF LinkRec
    <3>4. link' \in [Ids -> LinkRec]
      BY <1>0, <2>1, <2>7, <3>3 DEF OpenStream
    <3>. QED
      BY <2>7, <3>1, <3>4 DEF OpenStream, ClientTypeOK, ReqRec, LinkRec
  <2>8. CASE Connected
    BY <2>1, <2>2, <2>8, ReturnType, TellFacts
    DEF Connected, ClientTypeOK, ReqRec, Reports
  <2>9. CASE LoginSent
    <3>1. link' \in [Ids -> LinkRec]
      BY <1>0, <2>1, <2>9 DEF LoginSent, LinkRec
    <3>. QED
      BY <2>9, <3>1 DEF LoginSent, ClientTypeOK, LinkRec
  <2>10. CASE LoginNotSent
    <3>1. link' \in [Ids -> LinkRec]
      BY <1>0, <2>1, <2>10 DEF LoginNotSent, LinkRec
    <3>. QED
      BY <2>1, <2>2, <2>10, <3>1, ReturnType, TellFacts
      DEF LoginNotSent, ClientTypeOK, ReqRec, LinkRec, Reports
  <2>11. CASE Registering
    BY <2>1, <2>2, <2>11, ReturnType DEF Registering, ClientTypeOK, ReqRec
  <2>. QED
    BY <1>3, <2>3, <2>4, <2>5, <2>6, <2>7, <2>8, <2>9, <2>10, <2>11 DEF SipReturns
<1>. QED
  BY <1>1, <1>2, <1>3 DEF Sip

\* One turn of the check's loop ends.
LEMMA LeaveType ==
    ASSUME ClientTypeOK, check.todo # {}, NEW s \in Statuses,
           NEW r \in {"none", "made", "open"}, LeaveRequest(s, r)
    PROVE  /\ req' \in [Ids -> ReqRec] /\ client' \in ClientRec
           /\ check' = [pc |-> "scan", todo |-> check.todo \ {Looked}]
           /\ check'.todo \subseteq Ids
<1>0. Looked \in Ids
  BY LookedFacts
<1>1. req'[Looked] = [type |-> req[Looked].type, status |-> s, stream |-> r, lock |-> None]
  BY <1>0, Records DEF LeaveRequest, ReqRec
<1>2. req' \in [Ids -> ReqRec]
  BY <1>0, <1>1, ReqTyped, Records DEF LeaveRequest
<1>3. client' \in ClientRec
  BY <1>0, Records DEF LeaveRequest, ClientRec
<1>. QED
  BY <1>2, <1>3 DEF LeaveRequest, ClientTypeOK

LEMMA ChecksType ==
    ASSUME ClientTypeOK, Locks, Checks
    PROVE  ClientTypeOK'
<1>0. /\ client \in ClientRec /\ req \in [Ids -> ReqRec] /\ link \in [Ids -> LinkRec]
      /\ \A n \in Ids : req[n] \in ReqRec /\ link[n] \in LinkRec
      /\ check \in [pc : {"sleep", "scan", "look", "join", "clear"}, todo : SUBSET Ids]
  BY Records DEF ClientTypeOK
<1>. DEFINE Looks == check.pc \in {"look", "join"} \/ (check.pc = "scan" /\ check.todo # {})
<1>a. Looks => check.todo # {} /\ Looked \in Ids
  BY LookedFacts DEF Locks
<1>1. CASE CheckBegins
  <2>1. client' \in ClientRec
    BY <1>0, <1>1 DEF CheckBegins, ClientRec
  <2>. QED
    BY <1>0, <1>1, <2>1 DEF CheckBegins, ClientTypeOK, ClientRec
<1>2. CASE CheckLocks
  <2>1. Looked \in Ids
    BY <1>2, <1>a DEF CheckLocks
  <2>2. req' \in [Ids -> ReqRec]
    BY <1>0, <1>2, <2>1 DEF CheckLocks, ReqRec
  <2>. QED
    BY <1>0, <1>2, <2>2 DEF CheckLocks, ClientTypeOK, ReqRec
<1>3. CASE CheckPasses
  <2>1. check.todo # {} /\ req[Looked].status \in Statuses
        /\ req[Looked].stream \in {"none", "made", "open"}
    BY <1>0, <1>3, <1>a DEF CheckPasses, ReqRec
  <2>. QED
    BY <1>3, <2>1, LeaveType DEF CheckPasses, ClientTypeOK, ClientRec, ReqRec
<1>4. CASE RequestExpires
  <2>1. check.todo # {} /\ req[Looked].stream \in {"none", "made", "open"} /\ Looked \in Ids
    BY <1>0, <1>4, <1>a DEF RequestExpires, ReqRec
  <2>2. {"canceled", "timeout"} \subseteq Statuses
    BY DEF Statuses
  <2>3. /\ req' \in [Ids -> ReqRec] /\ client' \in ClientRec
        /\ check' = [pc |-> "scan", todo |-> check.todo \ {Looked}]
        /\ check'.todo \subseteq Ids
    BY <1>4, <2>1, <2>2, LeaveType DEF RequestExpires
  <2>4. told' \in [Ids -> Reports]
    BY <1>4, <2>1, TellFacts DEF RequestExpires, TellIf, ClientTypeOK, Reports
  <2>. QED
    BY <1>4, <2>3, <2>4 DEF RequestExpires, ClientTypeOK, ClientRec, ReqRec, Reports
<1>5. CASE RegisterExpires
  <2>1. check.todo # {} /\ req[Looked].stream \in {"none", "made", "open"} /\ Looked \in Ids
    BY <1>0, <1>5, <1>a DEF RegisterExpires, ReqRec
  <2>2. "canceled" \in Statuses
    BY DEF Statuses
  <2>. QED
    BY <1>5, <2>1, <2>2, LeaveType, TellFacts
    DEF RegisterExpires, ClientTypeOK, ClientRec, ReqRec, Reports
<1>6. CASE CheckCanceled
  <2>1. Looked \in Ids
    BY <1>6, <1>a DEF CheckCanceled
  <2>2. link' \in [Ids -> LinkRec]
    <3>1. PICK b \in BOOLEAN : b = Live(Looked)
      BY DEF Live
    <3>. QED
      BY <1>6, <2>1, <3>1, StopTyped DEF CheckCanceled
  <2>. QED
    BY <1>0, <1>6, <2>2 DEF CheckCanceled, ClientTypeOK, LinkRec
<1>7. CASE CheckCloses
  <2>1. check.todo # {} /\ "complete" \in Statuses
    BY <1>7, <1>a DEF CheckCloses, Statuses
  <2>. QED
    BY <1>7, <2>1, LeaveType DEF CheckCloses, ClientTypeOK, ClientRec, ReqRec
<1>8. CASE CheckEnds
  <2>1. client' \in ClientRec
    BY <1>0, <1>8 DEF CheckEnds, ClientRec
  <2>. QED
    BY <1>0, <1>8, <2>1 DEF CheckEnds, ClientTypeOK, ClientRec
<1>9. CASE ClearRequest
  <2>1. client' = [reqid |-> client.reqid, user |-> client.user,
                   map |-> client.map \ client.erase, erase |-> {},
                   lock |-> client.lock, deleted |-> client.deleted]
    BY <1>0, <1>9 DEF ClearRequest, ClientRec
  <2>2. client' \in ClientRec
    BY <1>0, <2>1 DEF ClientRec
  <2>. QED
    BY <1>0, <1>9, <2>2 DEF ClearRequest, ClientTypeOK, ClientRec
<1>. QED
  BY <1>1, <1>2, <1>3, <1>4, <1>5, <1>6, <1>7, <1>8, <1>9 DEF Checks

LEMMA StreamsType ==
    ASSUME ClientTypeOK, Streams
    PROVE  ClientTypeOK'
<1>0. /\ req \in [Ids -> ReqRec] /\ link \in [Ids -> LinkRec]
      /\ \A n \in Ids : req[n] \in ReqRec /\ link[n] \in LinkRec
  BY Records
<1>1. ASSUME NEW n \in Ids, NEW ok \in BOOLEAN, LoginAnswered(n, ok)
      PROVE  ClientTypeOK'
  <2>1. link'[n] = [login |-> IF ok THEN "ok" ELSE "refused", stop |-> link[n].stop,
                    rcv |-> "ack", beat |-> link[n].beat]
    BY <1>0, <1>1 DEF LoginAnswered, LinkRec
  <2>2. link' \in [Ids -> LinkRec]
    BY <1>0, <1>1, <2>1 DEF LoginAnswered, LinkRec
  <2>3. told' \in [Ids -> Reports]
    BY <1>1, TellFacts DEF LoginAnswered
  <2>. QED
    BY <1>1, <2>2, <2>3 DEF LoginAnswered, ClientTypeOK, LinkRec, Reports
<1>2. ASSUME NEW n \in Ids, LoginSettled(n)
      PROVE  ClientTypeOK'
  <2>1. req' \in [Ids -> ReqRec]
    <3>1. PICK s : /\ s = IF link[n].login = "ok" THEN "connected" ELSE "complete"
                   /\ s \in Statuses
      BY DEF Statuses
    <3>2. req[n].status = "registering" => req' = [req EXCEPT ![n].status = s]
      BY <1>2, <3>1 DEF LoginSettled, SetStatus
    <3>3. CASE req[n].status = "registering"
      <4>1. req'[n] = [type |-> req[n].type, status |-> s, stream |-> req[n].stream,
                       lock |-> req[n].lock]
        BY <1>0, <3>2, <3>3 DEF ReqRec
      <4>. QED
        BY <1>0, <3>1, <3>2, <3>3, <4>1 DEF ReqRec
    <3>4. CASE req[n].status # "registering"
      BY <1>0, <1>2, <3>4 DEF LoginSettled
    <3>. QED
      BY <3>3, <3>4
  <2>2. link' \in [Ids -> LinkRec]
    BY <1>0, <1>2 DEF LoginSettled, LinkRec
  <2>. QED
    BY <1>2, <2>1, <2>2 DEF LoginSettled, ClientTypeOK, ReqRec, LinkRec
<1>3. ASSUME NEW n \in Ids, ReceiveFails(n)
      PROVE  ClientTypeOK'
  <2>1. link' \in [Ids -> LinkRec]
    BY <1>0, <1>3 DEF ReceiveFails, LinkRec
  <2>2. told' \in [Ids -> Reports]
    BY <1>3, TellFacts DEF ReceiveFails, TellIf, ClientTypeOK, Reports
  <2>. QED
    BY <1>3, <2>1, <2>2 DEF ReceiveFails, ClientTypeOK, LinkRec, Reports
<1>4. ASSUME NEW n \in Ids, TransitServerStops(n)
      PROVE  ClientTypeOK'
  BY <1>4, TellFacts DEF TransitServerStops, ClientTypeOK, Reports
<1>5. ASSUME NEW n \in Ids, WorkerTimesOut(n)
      PROVE  ClientTypeOK'
  <2>1. link' \in [Ids -> LinkRec]
    BY <1>0, <1>5 DEF WorkerTimesOut, LinkRec
  <2>. QED
    BY <1>5, <2>1, TellFacts DEF WorkerTimesOut, ClientTypeOK, LinkRec, Reports
<1>6. ASSUME NEW n \in Ids, WorkerEnds(n)
      PROVE  ClientTypeOK'
  <2>1. link' \in [Ids -> LinkRec]
    BY <1>0, <1>6 DEF WorkerEnds, LinkRec
  <2>. QED
    BY <1>6, <2>1 DEF WorkerEnds, ClientTypeOK, LinkRec
<1>7. ASSUME NEW n \in Ids, NEW ok \in BOOLEAN, PlaybackAnswered(n, ok)
      PROVE  ClientTypeOK'
  BY <1>7, TellFacts DEF PlaybackAnswered, ClientTypeOK, Reports
<1>. QED
  BY <1>1, <1>2, <1>3, <1>4, <1>5, <1>6, <1>7 DEF Streams
-----------------------------------------------------------------------------
(* The invariant is preserved.                                             *)


LEMMA AppInv ==
    ASSUME ClientTypeOK, IInv, App
    PROVE  IInv'
<1>1. ASSUME NEW t \in Types, Ask(t)
      PROVE  IInv'
  <2>1. Locks'
    BY <1>1
    DEF Ask, IInv, Locks, Answering, Looked, ClientTypeOK
  <2>2. Unused'
    BY <1>1, ClientAssumption
    DEF Ask, IInv, Unused, Untouched, Verdicts, ClientTypeOK, Ids
  <2>3. AppCall'
    BY <1>1, ClientAssumption
    DEF Ask, IInv, AppCall, Untouched, Unused, ClientTypeOK, Ids
  <2>4. AnsweredOnce'
    BY <1>1, ClientAssumption
    DEF Ask, IInv, AnsweredOnce, Untouched, Answering, Verdicts, Unused,
        ClientTypeOK
  <2>5. CallbackSteps'
    BY <1>1
    DEF Ask, IInv, CallbackSteps, Answering, Untouched, Live, ClientTypeOK
  <2>6. StreamThreads'
    BY <1>1, ClientAssumption
    DEF Ask, IInv, StreamThreads, Live, Verdicts, Untouched, Unused,
        ClientTypeOK
  <2>7. Erased'
    BY <1>1, ClientAssumption
    DEF Ask, IInv, Erased, Live, Unused, ClientTypeOK
  <2>8. Ended'
    BY <1>1, ClientAssumption, LookedFacts
    DEF Ask, IInv, Ended, Looked, Unused, ClientTypeOK
  <2>9. OneVerdict'
    BY <1>1, ClientAssumption
    DEF Ask, IInv, OneVerdict, Verdicts, Unused, ClientTypeOK
  <2>10. LiveStreamInMap'
    BY <1>1
    DEF Ask, IInv, LiveStreamInMap, Live, ClientTypeOK
  <2>11. EndIsTold'
    BY <1>1
    DEF Ask, IInv, EndIsTold, Verdicts, ClientTypeOK
  <2>. QED
    BY <2>1, <2>2, <2>3, <2>4, <2>5, <2>6, <2>7, <2>8, <2>9, <2>10, <2>11 DEF IInv
<1>2. CASE AddRequest
  <2>1. Locks'
    BY <1>2
    DEF AddRequest, IInv, Locks, Answering, Looked, ClientTypeOK
  <2>2. Unused'
    BY <1>2, ClientAssumption
    DEF AddRequest, IInv, Unused, Untouched, Verdicts, AppCall
  <2>3. AppCall'
    BY <1>2
    DEF AddRequest, IInv, AppCall, Untouched, ClientTypeOK
  <2>4. AnsweredOnce'
    BY <1>2
    DEF AddRequest, IInv, AnsweredOnce, Untouched, Answering, Verdicts,
        ClientTypeOK
  <2>5. CallbackSteps'
    BY <1>2
    DEF AddRequest, IInv, CallbackSteps, Answering, Untouched, Live,
        ClientTypeOK
  <2>6. StreamThreads'
    BY <1>2
    DEF AddRequest, IInv, StreamThreads, Live, Verdicts, ClientTypeOK
  <2>7. Erased'
    BY <1>2
    DEF AddRequest, IInv, Erased, Live, ClientTypeOK
  <2>8. Ended'
    BY <1>2
    DEF AddRequest, IInv, Ended, Looked, ClientTypeOK
  <2>9. OneVerdict'
    BY <1>2
    DEF AddRequest, IInv, OneVerdict, Verdicts, ClientTypeOK
  <2>10. LiveStreamInMap'
    BY <1>2
    DEF AddRequest, IInv, LiveStreamInMap, Live, ClientTypeOK
  <2>11. EndIsTold'
    BY <1>2
    DEF AddRequest, IInv, EndIsTold, Verdicts, ClientTypeOK
  <2>. QED
    BY <2>1, <2>2, <2>3, <2>4, <2>5, <2>6, <2>7, <2>8, <2>9, <2>10, <2>11 DEF IInv
<1>3. CASE Send
  <2>1. Locks'
    BY <1>3
    DEF Send, IInv, Locks, Answering, Looked, ClientTypeOK
  <2>2. Unused'
    BY <1>3, ClientAssumption
    DEF Send, IInv, Unused, Untouched, Verdicts, AppCall
  <2>3. AppCall'
    BY <1>3
    DEF Send, IInv, AppCall, Untouched, ClientTypeOK
  <2>4. AnsweredOnce'
    BY <1>3, ClientAssumption
    DEF Send, IInv, AnsweredOnce, Untouched, Answering, Verdicts, AppCall
  <2>5. CallbackSteps'
    BY <1>3
    DEF Send, IInv, CallbackSteps, Answering, Untouched, Live, ClientTypeOK
  <2>6. StreamThreads'
    BY <1>3
    DEF Send, IInv, StreamThreads, Live, Verdicts, ClientTypeOK
  <2>7. Erased'
    BY <1>3
    DEF Send, IInv, Erased, Live, ClientTypeOK
  <2>8. Ended'
    BY <1>3
    DEF Send, IInv, Ended, Looked, ClientTypeOK
  <2>9. OneVerdict'
    BY <1>3
    DEF Send, IInv, OneVerdict, Verdicts, ClientTypeOK
  <2>10. LiveStreamInMap'
    BY <1>3
    DEF Send, IInv, LiveStreamInMap, Live, ClientTypeOK
  <2>11. EndIsTold'
    BY <1>3
    DEF Send, IInv, EndIsTold, Verdicts, ClientTypeOK
  <2>. QED
    BY <2>1, <2>2, <2>3, <2>4, <2>5, <2>6, <2>7, <2>8, <2>9, <2>10, <2>11 DEF IInv
<1>4. CASE StopRealPlay
  <2>1. Locks'
    BY <1>4
    DEF StopRealPlay, IInv, Locks, Answering, Looked, ClientTypeOK
  <2>2. Unused'
    BY <1>4, ClientAssumption
    DEF StopRealPlay, IInv, Unused, Untouched, Verdicts, ClientTypeOK, Ids
  <2>3. AppCall'
    BY <1>4, ClientAssumption
    DEF StopRealPlay, IInv, AppCall, Unused, ClientTypeOK, Ids
  <2>4. AnsweredOnce'
    BY <1>4
    DEF StopRealPlay, IInv, AnsweredOnce, Untouched, Answering, Verdicts,
        ClientTypeOK
  <2>5. CallbackSteps'
    BY <1>4
    DEF StopRealPlay, IInv, CallbackSteps, Answering, Untouched, Live,
        ClientTypeOK
  <2>6. StreamThreads'
    BY <1>4
    DEF StopRealPlay, IInv, StreamThreads, Live, Verdicts, ClientTypeOK
  <2>7. Erased'
    BY <1>4
    DEF StopRealPlay, IInv, Erased, Live, ClientTypeOK
  <2>8. Ended'
    BY <1>4, ClientAssumption, LookedFacts
    DEF StopRealPlay, IInv, Ended, Looked, Unused, ClientTypeOK
  <2>9. OneVerdict'
    BY <1>4
    DEF StopRealPlay, IInv, OneVerdict, Verdicts, ClientTypeOK
  <2>10. LiveStreamInMap'
    BY <1>4
    DEF StopRealPlay, IInv, LiveStreamInMap, Live, ClientTypeOK
  <2>11. EndIsTold'
    BY <1>4, ClientAssumption
    DEF StopRealPlay, IInv, EndIsTold, Unused, ClientTypeOK
  <2>. QED
    BY <2>1, <2>2, <2>3, <2>4, <2>5, <2>6, <2>7, <2>8, <2>9, <2>10, <2>11 DEF IInv
<1>5. CASE StopFindsRequest
  <2>0. /\ client'.reqid = client.reqid /\ client'.user = client.user
        /\ client'.map = client.map /\ client'.erase = client.erase
        /\ client'.lock \in {"app", None} /\ (client'.lock = "app" <=> app' = "stopLock")
        /\ app' \in {"stopLock", "idle"} /\ (app' = "stopLock" => client.user \in Ids)
    BY <1>5, ClientAssumption DEF StopFindsRequest, ClientTypeOK
  <2>1. Locks'
    BY <1>5, <2>0, ClientAssumption
    DEF StopFindsRequest, IInv, Locks, Answering, Looked, ClientTypeOK, Ids
  <2>2. Unused'
    BY <1>5, <2>0
    DEF StopFindsRequest, IInv, Unused, Untouched, Verdicts, ClientTypeOK
  <2>3. AppCall'
    BY <1>5, <2>0
    DEF StopFindsRequest, IInv, AppCall, Untouched, ClientTypeOK
  <2>4. AnsweredOnce'
    BY <1>5, <2>0
    DEF StopFindsRequest, IInv, AnsweredOnce, Untouched, Answering, Verdicts,
        ClientTypeOK
  <2>5. CallbackSteps'
    BY <1>5, <2>0
    DEF StopFindsRequest, IInv, CallbackSteps, Answering, Untouched, Live,
        ClientTypeOK
  <2>6. StreamThreads'
    BY <1>5, <2>0
    DEF StopFindsRequest, IInv, StreamThreads, Live, Verdicts, ClientTypeOK
  <2>7. Erased'
    BY <1>5, <2>0
    DEF StopFindsRequest, IInv, Erased, Live, ClientTypeOK
  <2>8. Ended'
    BY <1>5, <2>0
    DEF StopFindsRequest, IInv, Ended, Looked, ClientTypeOK
  <2>9. OneVerdict'
    BY <1>5, <2>0
    DEF StopFindsRequest, IInv, OneVerdict, Verdicts, ClientTypeOK
  <2>10. LiveStreamInMap'
    BY <1>5, <2>0
    DEF StopFindsRequest, IInv, LiveStreamInMap, Live, ClientTypeOK
  <2>11. EndIsTold'
    BY <1>5, <2>0
    DEF StopFindsRequest, IInv, EndIsTold, Verdicts, ClientTypeOK
  <2>. QED
    BY <2>1, <2>2, <2>3, <2>4, <2>5, <2>6, <2>7, <2>8, <2>9, <2>10, <2>11 DEF IInv
<1>6. CASE StopLocksRequest
  <2>1. Locks'
    BY <1>6, ClientAssumption
    DEF StopLocksRequest, IInv, Locks, Answering, Looked, ClientTypeOK, Ids
  <2>2. Unused'
    BY <1>6
    DEF StopLocksRequest, IInv, Unused, Untouched, Verdicts, ClientTypeOK
  <2>3. AppCall'
    BY <1>6
    DEF StopLocksRequest, IInv, AppCall, Untouched, ClientTypeOK
  <2>4. AnsweredOnce'
    BY <1>6
    DEF StopLocksRequest, IInv, AnsweredOnce, Untouched, Answering, Verdicts,
        ClientTypeOK
  <2>5. CallbackSteps'
    BY <1>6
    DEF StopLocksRequest, IInv, CallbackSteps, Answering, Untouched, Live,
        ClientTypeOK
  <2>6. StreamThreads'
    BY <1>6
    DEF StopLocksRequest, IInv, StreamThreads, Live, Verdicts, ClientTypeOK
  <2>7. Erased'
    BY <1>6
    DEF StopLocksRequest, IInv, Erased, Live, ClientTypeOK
  <2>8. Ended'
    BY <1>6
    DEF StopLocksRequest, IInv, Ended, Looked, ClientTypeOK
  <2>9. OneVerdict'
    BY <1>6
    DEF StopLocksRequest, IInv, OneVerdict, Verdicts, ClientTypeOK
  <2>10. LiveStreamInMap'
    BY <1>6
    DEF StopLocksRequest, IInv, LiveStreamInMap, Live, ClientTypeOK
  <2>11. EndIsTold'
    BY <1>6
    DEF StopLocksRequest, IInv, EndIsTold, Verdicts, ClientTypeOK
  <2>. QED
    BY <2>1, <2>2, <2>3, <2>4, <2>5, <2>6, <2>7, <2>8, <2>9, <2>10, <2>11 DEF IInv
<1>7. CASE StopEnds
  <2>1. Locks'
    BY <1>7, ClientAssumption
    DEF StopEnds, Joined, IInv, Locks, Answering, Looked, ClientTypeOK, Ids
  <2>2. Unused'
    BY <1>7, ClientAssumption
    DEF StopEnds, Joined, IInv, Unused, Untouched, Verdicts, ClientTypeOK, Ids
  <2>3. AppCall'
    BY <1>7
    DEF StopEnds, Joined, IInv, AppCall, Untouched, ClientTypeOK
  <2>4. AnsweredOnce'
    BY <1>7
    DEF StopEnds, Joined, IInv, AnsweredOnce, Untouched, Answering, Verdicts,
        ClientTypeOK
  <2>5. CallbackSteps'
    BY <1>7, ClientAssumption
    DEF StopEnds, Joined, IInv, CallbackSteps, Answering, Untouched, Live, Locks
  <2>6. StreamThreads'
    BY <1>7
    DEF StopEnds, Joined, IInv, StreamThreads, Live, Verdicts, ClientTypeOK
  <2>7. Erased'
    BY <1>7
    DEF StopEnds, Joined, IInv, Erased, Live, ClientTypeOK
  <2>8. Ended'
    BY <1>7
    DEF StopEnds, Joined, IInv, Ended, Looked, ClientTypeOK
  <2>9. OneVerdict'
    BY <1>7
    DEF StopEnds, Joined, IInv, OneVerdict, Verdicts, ClientTypeOK
  <2>10. LiveStreamInMap'
    BY <1>7
    DEF StopEnds, Joined, IInv, LiveStreamInMap, Live, ClientTypeOK
  <2>11. EndIsTold'
    BY <1>7, ClientAssumption
    DEF StopEnds, Joined, IInv, EndIsTold, Unused, AppCall
  <2>. QED
    BY <2>1, <2>2, <2>3, <2>4, <2>5, <2>6, <2>7, <2>8, <2>9, <2>10, <2>11 DEF IInv
<1>8. CASE Delete
  <2>1. Locks'
    BY <1>8
    DEF Delete, IInv, Locks, Answering, Looked, ClientTypeOK
  <2>2. Unused'
    BY <1>8, ClientAssumption
    DEF Delete, IInv, Unused, Untouched, Verdicts, ClientTypeOK, Ids
  <2>3. AppCall'
    BY <1>8
    DEF Delete, IInv, AppCall, Untouched, ClientTypeOK
  <2>4. AnsweredOnce'
    BY <1>8
    DEF Delete, IInv, AnsweredOnce, Untouched, Answering, Verdicts, ClientTypeOK
  <2>5. CallbackSteps'
    BY <1>8
    DEF Delete, IInv, CallbackSteps, Answering, Untouched, Live, ClientTypeOK
  <2>6. StreamThreads'
    BY <1>8
    DEF Delete, IInv, StreamThreads, Live, Verdicts, ClientTypeOK
  <2>7. Erased'
    BY <1>8
    DEF Delete, IInv, Erased, Live, ClientTypeOK
  <2>8. Ended'
    BY <1>8
    DEF Delete, IInv, Ended, Looked, ClientTypeOK
  <2>9. OneVerdict'
    BY <1>8
    DEF Delete, IInv, OneVerdict, Verdicts, ClientTypeOK
  <2>10. LiveStreamInMap'
    BY <1>8
    DEF Delete, IInv, LiveStreamInMap, Live, ClientTypeOK
  <2>11. EndIsTold'
    BY <1>8
    DEF Delete, IInv, EndIsTold, Verdicts, ClientTypeOK
  <2>. QED
    BY <2>1, <2>2, <2>3, <2>4, <2>5, <2>6, <2>7, <2>8, <2>9, <2>10, <2>11 DEF IInv
<1>. QED
  BY <1>1, <1>2, <1>3, <1>4, <1>5, <1>6, <1>7, <1>8 DEF App

LEMMA SipReturnsInv ==
    ASSUME ClientTypeOK, IInv, SipReturns
    PROVE  IInv'
<1>1. CASE CallbackRefused
  <2>0. sip.n \in Ids /\ Answering(sip.n) /\ req[sip.n].status = "requesting"
    BY <1>1 DEF CallbackRefused, IInv, Locks, Answering, CallbackSteps
  <2>a. sip.pc \in {"answer", "open"} => Verdicts(sip.n) = 0
    BY <2>0 DEF IInv, AnsweredOnce
  <2>c. /\ \A m \in Ids : m # sip.n => told'[m] = told[m]
        /\ told'[sip.n].good + told'[sip.n].bad = 1
    BY <1>1, <2>0, <2>a, TellFacts DEF CallbackRefused, Verdicts
  <2>1. Locks'
    BY <1>1, <2>0, <2>c, ClientAssumption
    DEF CallbackRefused, Return, IInv, Locks, Answering, Looked, ClientTypeOK,
        Ids
  <2>2. Unused'
    BY <1>1, <2>0, <2>c, ClientAssumption
    DEF CallbackRefused, Return, IInv, Unused, Untouched, Verdicts,
        ClientTypeOK, Ids
  <2>3. AppCall'
    BY <1>1, <2>0, <2>c, ClientAssumption
    DEF CallbackRefused, Return, IInv, AppCall, Untouched, ClientTypeOK, Ids
  <2>4. AnsweredOnce'
    BY <1>1, <2>0, <2>c, ClientAssumption
    DEF CallbackRefused, Return, IInv, AnsweredOnce, Untouched, Answering,
        Verdicts, ClientTypeOK, Ids
  <2>5. CallbackSteps'
    BY <1>1, <2>0, <2>c
    DEF CallbackRefused, Return, IInv, CallbackSteps, Answering, Untouched,
        Live, ClientTypeOK
  <2>6. StreamThreads'
    BY <1>1, <2>0, <2>c
    DEF CallbackRefused, Return, IInv, StreamThreads, Live, Verdicts,
        ClientTypeOK
  <2>7. Erased'
    BY <1>1, <2>0, <2>c, ClientAssumption
    DEF CallbackRefused, Return, IInv, Erased, Live, Untouched, CallbackSteps
  <2>8. Ended'
    BY <1>1, <2>0, <2>c
    DEF CallbackRefused, Return, IInv, Ended, Looked, ClientTypeOK
  <2>9. OneVerdict'
    BY <1>1, <2>0, <2>c
    DEF CallbackRefused, Return, IInv, OneVerdict, Verdicts, ClientTypeOK
  <2>10. LiveStreamInMap'
    BY <1>1, <2>0, <2>c
    DEF CallbackRefused, Return, IInv, LiveStreamInMap, Live, ClientTypeOK
  <2>11. EndIsTold'
    BY <1>1, <2>0, <2>c
    DEF CallbackRefused, Return, IInv, EndIsTold, Verdicts, ClientTypeOK
  <2>. QED
    BY <2>1, <2>2, <2>3, <2>4, <2>5, <2>6, <2>7, <2>8, <2>9, <2>10, <2>11 DEF IInv
<1>2. CASE CallbackQueried
  <2>0. sip.n \in Ids /\ Answering(sip.n) /\ req[sip.n].status = "requesting"
    BY <1>2 DEF CallbackQueried, IInv, Locks, Answering, CallbackSteps
  <2>a. sip.pc \in {"answer", "open"} => Verdicts(sip.n) = 0
    BY <2>0 DEF IInv, AnsweredOnce
  <2>c. /\ \A m \in Ids : m # sip.n => told'[m] = told[m]
        /\ told'[sip.n].good + told'[sip.n].bad = 1
    BY <1>2, <2>0, <2>a, TellFacts DEF CallbackQueried, Verdicts
  <2>1. Locks'
    BY <1>2, <2>0, <2>c, ClientAssumption
    DEF CallbackQueried, Return, IInv, Locks, Answering, Looked, ClientTypeOK,
        Ids
  <2>2. Unused'
    BY <1>2, <2>0, <2>c, ClientAssumption
    DEF CallbackQueried, Return, IInv, Unused, Untouched, Verdicts,
        ClientTypeOK, Ids
  <2>3. AppCall'
    BY <1>2, <2>0, <2>c, ClientAssumption
    DEF CallbackQueried, Return, IInv, AppCall, Untouched, ClientTypeOK, Ids
  <2>4. AnsweredOnce'
    BY <1>2, <2>0, <2>c, ClientAssumption
    DEF CallbackQueried, Return, IInv, AnsweredOnce, Untouched, Answering,
        Verdicts, ClientTypeOK, Ids
  <2>5. CallbackSteps'
    BY <1>2, <2>0, <2>c
    DEF CallbackQueried, Return, IInv, CallbackSteps, Answering, Untouched,
        Live, ClientTypeOK
  <2>6. StreamThreads'
    BY <1>2, <2>0, <2>c
    DEF CallbackQueried, Return, IInv, StreamThreads, Live, Verdicts,
        ClientTypeOK
  <2>7. Erased'
    BY <1>2, <2>0, <2>c, ClientAssumption
    DEF CallbackQueried, Return, IInv, Erased, Live, Untouched, CallbackSteps
  <2>8. Ended'
    BY <1>2, <2>0, <2>c
    DEF CallbackQueried, Return, IInv, Ended, Looked, ClientTypeOK
  <2>9. OneVerdict'
    BY <1>2, <2>0, <2>c
    DEF CallbackQueried, Return, IInv, OneVerdict, Verdicts, ClientTypeOK
  <2>10. LiveStreamInMap'
    BY <1>2, <2>0, <2>c
    DEF CallbackQueried, Return, IInv, LiveStreamInMap, Live, ClientTypeOK
  <2>11. EndIsTold'
    BY <1>2, <2>0, <2>c
    DEF CallbackQueried, Return, IInv, EndIsTold, Verdicts, ClientTypeOK
  <2>. QED
    BY <2>1, <2>2, <2>3, <2>4, <2>5, <2>6, <2>7, <2>8, <2>9, <2>10, <2>11 DEF IInv
<1>3. CASE CallbackNewStream
  <2>0. sip.n \in Ids /\ Answering(sip.n) /\ req[sip.n].status = "requesting"
    BY <1>3 DEF CallbackNewStream, IInv, Locks, Answering, CallbackSteps
  <2>1. Locks'
    BY <1>3, <2>0
    DEF CallbackNewStream, IInv, Locks, Answering, Looked, ClientTypeOK
  <2>2. Unused'
    BY <1>3, <2>0
    DEF CallbackNewStream, IInv, Unused, Untouched, Verdicts, ClientTypeOK
  <2>3. AppCall'
    BY <1>3, <2>0
    DEF CallbackNewStream, IInv, AppCall, Untouched, ClientTypeOK
  <2>4. AnsweredOnce'
    BY <1>3, <2>0
    DEF CallbackNewStream, IInv, AnsweredOnce, Untouched, Answering, Verdicts,
        ClientTypeOK
  <2>5. CallbackSteps'
    BY <1>3, <2>0
    DEF CallbackNewStream, IInv, CallbackSteps, Answering, Untouched, Live,
        ClientTypeOK
  <2>6. StreamThreads'
    BY <1>3, <2>0, ClientAssumption
    DEF CallbackNewStream, IInv, StreamThreads, Live, Verdicts, CallbackSteps,
        Untouched
  <2>7. Erased'
    BY <1>3, <2>0
    DEF CallbackNewStream, IInv, Erased, Live, ClientTypeOK
  <2>8. Ended'
    BY <1>3, <2>0
    DEF CallbackNewStream, IInv, Ended, Looked, ClientTypeOK
  <2>9. OneVerdict'
    BY <1>3, <2>0
    DEF CallbackNewStream, IInv, OneVerdict, Verdicts, ClientTypeOK
  <2>10. LiveStreamInMap'
    BY <1>3, <2>0
    DEF CallbackNewStream, IInv, LiveStreamInMap, Live, ClientTypeOK
  <2>11. EndIsTold'
    BY <1>3, <2>0
    DEF CallbackNewStream, IInv, EndIsTold, Verdicts, ClientTypeOK
  <2>. QED
    BY <2>1, <2>2, <2>3, <2>4, <2>5, <2>6, <2>7, <2>8, <2>9, <2>10, <2>11 DEF IInv
<1>4. CASE OpenStreamFails
  <2>0. sip.n \in Ids /\ Answering(sip.n) /\ req[sip.n].status = "requesting"
    BY <1>4 DEF OpenStreamFails, IInv, Locks, Answering, CallbackSteps
  <2>a. sip.pc \in {"answer", "open"} => Verdicts(sip.n) = 0
    BY <2>0 DEF IInv, AnsweredOnce
  <2>c. /\ \A m \in Ids : m # sip.n => told'[m] = told[m]
        /\ told'[sip.n].good + told'[sip.n].bad = 1
    BY <1>4, <2>0, <2>a, TellFacts DEF OpenStreamFails, Verdicts
  <2>1. Locks'
    BY <1>4, <2>0, <2>c, ClientAssumption
    DEF OpenStreamFails, Return, IInv, Locks, Answering, Looked, ClientTypeOK,
        Ids
  <2>2. Unused'
    BY <1>4, <2>0, <2>c, ClientAssumption
    DEF OpenStreamFails, Return, IInv, Unused, Untouched, Verdicts,
        ClientTypeOK, Ids
  <2>3. AppCall'
    BY <1>4, <2>0, <2>c, ClientAssumption
    DEF OpenStreamFails, Return, IInv, AppCall, Untouched, ClientTypeOK, Ids
  <2>4. AnsweredOnce'
    BY <1>4, <2>0, <2>c, ClientAssumption
    DEF OpenStreamFails, Return, IInv, AnsweredOnce, Untouched, Answering,
        Verdicts, ClientTypeOK, Ids
  <2>5. CallbackSteps'
    BY <1>4, <2>0, <2>c
    DEF OpenStreamFails, Return, IInv, CallbackSteps, Answering, Untouched,
        Live, ClientTypeOK
  <2>6. StreamThreads'
    BY <1>4, <2>0, <2>c
    DEF OpenStreamFails, Return, IInv, StreamThreads, Live, Verdicts,
        ClientTypeOK
  <2>7. Erased'
    BY <1>4, <2>0, <2>c, ClientAssumption
    DEF OpenStreamFails, Return, IInv, Erased, Live, CallbackSteps
  <2>8. Ended'
    BY <1>4, <2>0, <2>c
    DEF OpenStreamFails, Return, IInv, Ended, Looked, ClientTypeOK
  <2>9. OneVerdict'
    BY <1>4, <2>0, <2>c
    DEF OpenStreamFails, Return, IInv, OneVerdict, Verdicts, ClientTypeOK
  <2>10. LiveStreamInMap'
    BY <1>4, <2>0, <2>c
    DEF OpenStreamFails, Return, IInv, LiveStreamInMap, Live, ClientTypeOK
  <2>11. EndIsTold'
    BY <1>4, <2>0, <2>c
    DEF OpenStreamFails, Return, IInv, EndIsTold, Verdicts, ClientTypeOK
  <2>. QED
    BY <2>1, <2>2, <2>3, <2>4, <2>5, <2>6, <2>7, <2>8, <2>9, <2>10, <2>11 DEF IInv
<1>5. CASE OpenStream
  <2>0. sip.n \in Ids /\ Answering(sip.n) /\ req[sip.n].status = "requesting"
    BY <1>5 DEF OpenStream, IInv, Locks, Answering, CallbackSteps
  <2>1. Locks'
    BY <1>5, <2>0
    DEF OpenStream, IInv, Locks, Answering, Looked, ClientTypeOK
  <2>2. Unused'
    BY <1>5, <2>0
    DEF OpenStream, IInv, Unused, Untouched, Verdicts, ClientTypeOK
  <2>3. AppCall'
    BY <1>5, <2>0
    DEF OpenStream, IInv, AppCall, Untouched, ClientTypeOK
  <2>4. AnsweredOnce'
    BY <1>5, <2>0
    DEF OpenStream, IInv, AnsweredOnce, Untouched, Answering, Verdicts,
        ClientTypeOK
  <2>5. CallbackSteps'
    BY <1>5, <2>0
    DEF OpenStream, IInv, CallbackSteps, Answering, Untouched, Live,
        ClientTypeOK
  <2>6. StreamThreads'
    BY <1>5, <2>0
    DEF OpenStream, IInv, StreamThreads, Live, Verdicts, ClientTypeOK
  <2>7. Erased'
    BY <1>5, <2>0
    DEF OpenStream, IInv, Erased, Live, ClientTypeOK
  <2>8. Ended'
    BY <1>5, <2>0
    DEF OpenStream, IInv, Ended, Looked, ClientTypeOK
  <2>9. OneVerdict'
    <3>1. \A m \in Ids : OneVerdictOf(m)'
      <4>1. \A m \in Ids : /\ told'[m] = told[m] /\ req'[m].type = req[m].type
                           /\ link'[m].rcv = "none" => link[m].rcv = "none"
        BY <1>5, <2>0 DEF OpenStream, ClientTypeOK
      <4>2. \A m \in Ids : link[m].beat = "done" => link'[m].beat = "done"
        BY <1>5, <2>0 DEF OpenStream, IInv, CallbackSteps, ClientTypeOK
      <4>. QED
        BY <4>1, <4>2, VerdictsKept DEF IInv
    <3>. QED
      BY <3>1 DEF OneVerdict, OneVerdictOf
  <2>10. LiveStreamInMap'
    BY <1>5, <2>0, ClientAssumption
    DEF OpenStream, IInv, LiveStreamInMap, Live, AppCall, Erased
  <2>11. EndIsTold'
    BY <1>5, <2>0
    DEF OpenStream, IInv, EndIsTold, Verdicts, ClientTypeOK
  <2>. QED
    BY <2>1, <2>2, <2>3, <2>4, <2>5, <2>6, <2>7, <2>8, <2>9, <2>10, <2>11 DEF IInv
<1>6. CASE Connected
  <2>0. sip.n \in Ids /\ Answering(sip.n) /\ req[sip.n].status = "requesting"
    BY <1>6 DEF Connected, IInv, Locks, Answering, CallbackSteps
  <2>c. /\ \A m \in Ids : m # sip.n => told'[m] = told[m]
        /\ req[sip.n].type # "transit" /\ link[sip.n].rcv # "none"
    <3>1. \A m \in Ids : m # sip.n => told'[m] = told[m]
      BY <1>6, <2>0, TellFacts DEF Connected
    <3>2. req[sip.n].type # "transit" /\ link[sip.n].rcv # "none"
      BY <1>6, <2>0 DEF Connected, IInv, CallbackSteps, StreamThreads
    <3>. QED
      BY <3>1, <3>2
  <2>d. ASSUME req[sip.n].type \in {"p2p", "query", "upnp"}
        PROVE  \E w \in {1, 2} :
                  /\ w = told'[sip.n].good + told'[sip.n].bad
                  /\ w = 2 => req[sip.n].type = "upnp" /\ link[sip.n].beat = "done"
    <3>1. PICK kind \in {"good", "bad"} : Tell(sip.n, kind)
      BY <1>6, <2>d DEF Connected
    <3>2. PICK v \in Nat : v = told[sip.n].good + told[sip.n].bad
      BY <2>0, VerdictsTyped
    <3>3. /\ req[sip.n].type \in {"p2p", "query"} => v = 0
          /\ req[sip.n].type = "upnp" => v <= IF link[sip.n].beat = "done" THEN 1 ELSE 0
      BY <1>6, <2>0, <3>2 DEF Connected, IInv, AnsweredOnce, Verdicts
    <3>4. told' \in [Ids -> Reports]
      BY <2>0, <3>1, TellFacts
    <3>5. PICK w \in Nat : w = told'[sip.n].good + told'[sip.n].bad
      BY <2>0, <3>4 DEF Reports
    <3>6. w > 0 /\ w <= v + 1
      BY <2>0, <3>1, <3>2, <3>5, TellFacts
    <3>. QED
      BY <2>d, <3>3, <3>5, <3>6
  <2>1. Locks'
    BY <1>6, <2>0, <2>c, ClientAssumption
    DEF Connected, Return, IInv, Locks, Answering, Looked, ClientTypeOK, Ids
  <2>2. Unused'
    BY <1>6, <2>0, <2>c, ClientAssumption
    DEF Connected, Return, IInv, Unused, Untouched, Verdicts, ClientTypeOK, Ids
  <2>3. AppCall'
    BY <1>6, <2>0, <2>c, ClientAssumption
    DEF Connected, Return, IInv, AppCall, Untouched, ClientTypeOK, Ids
  <2>4. AnsweredOnce'
    BY <1>6, <2>0, <2>c, ClientAssumption
    DEF Connected, Return, IInv, AnsweredOnce, Untouched, Answering, Verdicts,
        ClientTypeOK, Ids
  <2>5. CallbackSteps'
    BY <1>6, <2>0, <2>c
    DEF Connected, Return, IInv, CallbackSteps, Answering, Untouched, Live,
        ClientTypeOK
  <2>6. StreamThreads'
    BY <1>6, <2>0, <2>c
    DEF Connected, Return, IInv, StreamThreads, Live, Verdicts, ClientTypeOK
  <2>7. Erased'
    BY <1>6, <2>0, <2>c
    DEF Connected, Return, IInv, Erased, Live, ClientTypeOK
  <2>8. Ended'
    BY <1>6, <2>0, <2>c
    DEF Connected, Return, IInv, Ended, Looked, ClientTypeOK
  <2>9. OneVerdict'
    <3>1. \A m \in Ids : req'[m].type = req[m].type
      BY <1>6, <2>0 DEF Connected, Return, ClientTypeOK
    <3>2. ASSUME NEW m \in Ids, m # sip.n PROVE OneVerdictOf(m)'
      <4>1. told'[m] = told[m] /\ link' = link
        BY <1>6, <2>c, <3>2 DEF Connected
      <4>. QED
        BY <3>1, <4>1, VerdictsKept DEF IInv
    <3>3. ASSUME NEW m \in Ids, m = sip.n PROVE OneVerdictOf(m)'
      <4>1. req'[m].type = req[m].type /\ link' = link
        BY <1>6, <3>1 DEF Connected
      <4>2. CASE req[m].type \in {"p2p", "query", "upnp"}
        <5>1. PICK w \in {1, 2} :
                  /\ w = told'[m].good + told'[m].bad
                  /\ w = 2 => req[m].type = "upnp" /\ link[m].beat = "done"
          BY <2>d, <3>3, <4>2
        <5>. QED
          BY <2>c, <3>3, <4>1, <5>1 DEF OneVerdictOf, Verdicts
      <4>. QED
        BY <2>c, <3>3, <4>1, <4>2 DEF OneVerdictOf
    <3>4. \A m \in Ids : OneVerdictOf(m)'
      BY <3>2, <3>3
    <3>. QED
      BY <3>4 DEF OneVerdict, OneVerdictOf
  <2>10. LiveStreamInMap'
    BY <1>6, <2>0, <2>c
    DEF Connected, Return, IInv, LiveStreamInMap, Live, ClientTypeOK
  <2>11. EndIsTold'
    <3>1. /\ \A m \in Ids : req'[m].type = req[m].type
          /\ \A m \in Ids : m # sip.n => req'[m].status = req[m].status
          /\ client' = client
      BY <1>6, <2>0 DEF Connected, Return, ClientTypeOK
    <3>2. req[sip.n].type \in {"p2p", "query"} => told'[sip.n].good + told'[sip.n].bad > 0
      BY <2>d
    <3>3. SUFFICES ASSUME NEW m \in Ids, m = client.reqid,
                          req[m].type \in {"p2p", "transit", "query"},
                          req'[m].status \in {"connected", "complete", "canceled", "timeout"}
                   PROVE  told'[m].good + told'[m].bad > 0
      BY <3>1 DEF EndIsTold, Verdicts
    <3>4. CASE m = sip.n
      BY <2>c, <3>2, <3>3, <3>4
    <3>5. CASE m # sip.n
      BY <2>c, <3>1, <3>3, <3>5 DEF IInv, EndIsTold, Verdicts
    <3>. QED
      BY <3>4, <3>5
  <2>. QED
    BY <2>1, <2>2, <2>3, <2>4, <2>5, <2>6, <2>7, <2>8, <2>9, <2>10, <2>11 DEF IInv
<1>7. CASE LoginSent
  <2>0. sip.n \in Ids /\ Answering(sip.n) /\ req[sip.n].status = "requesting"
    BY <1>7 DEF LoginSent, IInv, Locks, Answering, CallbackSteps
  <2>1. Locks'
    BY <1>7, <2>0
    DEF LoginSent, IInv, Locks, Answering, Looked, ClientTypeOK
  <2>2. Unused'
    BY <1>7, <2>0
    DEF LoginSent, IInv, Unused, Untouched, Verdicts, ClientTypeOK
  <2>3. AppCall'
    BY <1>7, <2>0
    DEF LoginSent, IInv, AppCall, Untouched, ClientTypeOK
  <2>4. AnsweredOnce'
    BY <1>7, <2>0
    DEF LoginSent, IInv, AnsweredOnce, Untouched, Answering, Verdicts,
        ClientTypeOK
  <2>5. CallbackSteps'
    BY <1>7, <2>0
    DEF LoginSent, IInv, CallbackSteps, Answering, Untouched, Live, ClientTypeOK
  <2>6. StreamThreads'
    BY <1>7, <2>0, ClientAssumption
    DEF LoginSent, IInv, StreamThreads, Live, Verdicts, CallbackSteps
  <2>7. Erased'
    BY <1>7, <2>0
    DEF LoginSent, IInv, Erased, Live, ClientTypeOK
  <2>8. Ended'
    BY <1>7, <2>0
    DEF LoginSent, IInv, Ended, Looked, ClientTypeOK
  <2>9. OneVerdict'
    BY <1>7, <2>0
    DEF LoginSent, IInv, OneVerdict, Verdicts, ClientTypeOK
  <2>10. LiveStreamInMap'
    BY <1>7, <2>0, ClientAssumption
    DEF LoginSent, IInv, LiveStreamInMap, Live, CallbackSteps
  <2>11. EndIsTold'
    BY <1>7, <2>0
    DEF LoginSent, IInv, EndIsTold, Verdicts, ClientTypeOK
  <2>. QED
    BY <2>1, <2>2, <2>3, <2>4, <2>5, <2>6, <2>7, <2>8, <2>9, <2>10, <2>11 DEF IInv
<1>8. CASE LoginNotSent
  <2>0. sip.n \in Ids /\ Answering(sip.n) /\ req[sip.n].status = "requesting"
    BY <1>8 DEF LoginNotSent, IInv, Locks, Answering, CallbackSteps
  <2>c. /\ \A m \in Ids : m # sip.n => told'[m] = told[m]
        /\ told'[sip.n].good + told'[sip.n].bad > 0 /\ req[sip.n].type = "transit"
        /\ link[sip.n].rcv # "none" /\ link'[sip.n].rcv # "none"
    <3>1. /\ \A m \in Ids : m # sip.n => told'[m] = told[m]
          /\ told'[sip.n].good + told'[sip.n].bad > 0 /\ req[sip.n].type = "transit"
      BY <1>8, <2>0, TellFacts DEF LoginNotSent
    <3>2. link[sip.n].rcv # "none" /\ link'[sip.n].rcv = link[sip.n].rcv
      BY <1>8, <2>0
      DEF LoginNotSent, IInv, CallbackSteps, StreamThreads, ClientTypeOK
    <3>. QED
      BY <3>1, <3>2
  <2>1. Locks'
    BY <1>8, <2>0, <2>c, ClientAssumption
    DEF LoginNotSent, Return, IInv, Locks, Answering, Looked, ClientTypeOK, Ids
  <2>2. Unused'
    BY <1>8, <2>0, <2>c, ClientAssumption
    DEF LoginNotSent, Return, IInv, Unused, Untouched, Verdicts, ClientTypeOK,
        Ids
  <2>3. AppCall'
    BY <1>8, <2>0, <2>c, ClientAssumption
    DEF LoginNotSent, Return, IInv, AppCall, Untouched, ClientTypeOK, Ids
  <2>4. AnsweredOnce'
    BY <1>8, <2>0, <2>c, ClientAssumption
    DEF LoginNotSent, Return, IInv, AnsweredOnce, Untouched, Answering,
        Verdicts, ClientTypeOK, Ids
  <2>5. CallbackSteps'
    BY <1>8, <2>0, <2>c
    DEF LoginNotSent, Return, IInv, CallbackSteps, Answering, Untouched, Live,
        ClientTypeOK
  <2>6. StreamThreads'
    BY <1>8, <2>0, <2>c
    DEF LoginNotSent, Return, IInv, StreamThreads, Live, Verdicts, ClientTypeOK
  <2>7. Erased'
    BY <1>8, <2>0, <2>c
    DEF LoginNotSent, Return, IInv, Erased, Live, ClientTypeOK
  <2>8. Ended'
    BY <1>8, <2>0, <2>c
    DEF LoginNotSent, Return, IInv, Ended, Looked, ClientTypeOK
  <2>9. OneVerdict'
    BY <1>8, <2>0, <2>c
    DEF LoginNotSent, Return, IInv, OneVerdict, Verdicts, ClientTypeOK
  <2>10. LiveStreamInMap'
    BY <1>8, <2>0, <2>c
    DEF LoginNotSent, Return, IInv, LiveStreamInMap, Live, ClientTypeOK
  <2>11. EndIsTold'
    BY <1>8, <2>0, <2>c
    DEF LoginNotSent, Return, IInv, EndIsTold, Verdicts, ClientTypeOK
  <2>. QED
    BY <2>1, <2>2, <2>3, <2>4, <2>5, <2>6, <2>7, <2>8, <2>9, <2>10, <2>11 DEF IInv
<1>9. CASE Registering
  <2>0. sip.n \in Ids /\ Answering(sip.n) /\ req[sip.n].status = "requesting"
    BY <1>9 DEF Registering, IInv, Locks, Answering, CallbackSteps
  <2>1. Locks'
    BY <1>9, <2>0, ClientAssumption
    DEF Registering, Return, IInv, Locks, Answering, Looked, ClientTypeOK, Ids
  <2>2. Unused'
    BY <1>9, <2>0, ClientAssumption
    DEF Registering, Return, IInv, Unused, Untouched, Verdicts, ClientTypeOK,
        Ids
  <2>3. AppCall'
    BY <1>9, <2>0, ClientAssumption
    DEF Registering, Return, IInv, AppCall, Untouched, ClientTypeOK, Ids
  <2>4. AnsweredOnce'
    BY <1>9, <2>0, ClientAssumption
    DEF Registering, Return, IInv, AnsweredOnce, Untouched, Answering, Verdicts,
        ClientTypeOK, Ids
  <2>5. CallbackSteps'
    BY <1>9, <2>0
    DEF Registering, Return, IInv, CallbackSteps, Answering, Untouched, Live,
        ClientTypeOK
  <2>6. StreamThreads'
    BY <1>9, <2>0, ClientAssumption
    DEF Registering, Return, IInv, StreamThreads, Live, Verdicts, CallbackSteps
  <2>7. Erased'
    BY <1>9, <2>0
    DEF Registering, Return, IInv, Erased, Live, ClientTypeOK
  <2>8. Ended'
    BY <1>9, <2>0
    DEF Registering, Return, IInv, Ended, Looked, ClientTypeOK
  <2>9. OneVerdict'
    BY <1>9, <2>0
    DEF Registering, Return, IInv, OneVerdict, Verdicts, ClientTypeOK
  <2>10. LiveStreamInMap'
    BY <1>9, <2>0
    DEF Registering, Return, IInv, LiveStreamInMap, Live, ClientTypeOK
  <2>11. EndIsTold'
    BY <1>9, <2>0
    DEF Registering, Return, IInv, EndIsTold, Verdicts, ClientTypeOK
  <2>. QED
    BY <2>1, <2>2, <2>3, <2>4, <2>5, <2>6, <2>7, <2>8, <2>9, <2>10, <2>11 DEF IInv
<1>. QED
  BY <1>1, <1>2, <1>3, <1>4, <1>5, <1>6, <1>7, <1>8, <1>9 DEF SipReturns

LEMMA SipInv ==
    ASSUME ClientTypeOK, IInv, Sip
    PROVE  IInv'
<1>1. ASSUME NEW n \in Ids, Callback(n), n # client.reqid
      PROVE  IInv'
  <2>0. \A m \in Ids : req'[m].lock = req[m].lock
    BY <1>1 DEF Callback, SetStatus, ClientTypeOK
  <2>1. Locks'
    BY <1>1, <2>0
    DEF Callback, Locks, IInv, Answering, Looked
  <2>2. Unused'
    BY <1>1
    DEF Callback, SetStatus, IInv, Unused, Untouched, Verdicts, ClientTypeOK
  <2>3. AppCall'
    BY <1>1
    DEF Callback, SetStatus, IInv, AppCall, Untouched, ClientTypeOK
  <2>4. AnsweredOnce'
    BY <1>1
    DEF Callback, SetStatus, IInv, AnsweredOnce, Untouched, Answering, Verdicts,
        ClientTypeOK
  <2>5. CallbackSteps'
    BY <1>1
    DEF Callback, SetStatus, IInv, CallbackSteps, Answering, Untouched, Live,
        ClientTypeOK
  <2>6. StreamThreads'
    BY <1>1
    DEF Callback, SetStatus, IInv, StreamThreads, Live, Verdicts, ClientTypeOK
  <2>7. Erased'
    BY <1>1
    DEF Callback, SetStatus, IInv, Erased, Live, ClientTypeOK
  <2>8. Ended'
    BY <1>1, ClientAssumption, LookedFacts
    DEF Callback, SetStatus, IInv, Ended, Looked, Locks, ClientTypeOK
  <2>9. OneVerdict'
    <3>1. \A m \in Ids : /\ told'[m] = told[m] /\ link'[m] = link[m]
                         /\ req'[m].type = req[m].type
      BY <1>1 DEF Callback, SetStatus, ClientTypeOK
    <3>2. \A m \in Ids : OneVerdictOf(m)'
      BY <3>1, VerdictsKept DEF IInv
    <3>. QED
      BY <3>2 DEF OneVerdict, OneVerdictOf
  <2>10. LiveStreamInMap'
    <3>1. \A m \in Ids : req'[m].stream = req[m].stream
      BY <1>1 DEF Callback, SetStatus, ClientTypeOK
    <3>2. client' = client /\ link' = link
      BY <1>1 DEF Callback
    <3>. QED
      BY <3>1, <3>2 DEF IInv, LiveStreamInMap, Live
  <2>11. EndIsTold'
    BY <1>1
    DEF Callback, SetStatus, IInv, EndIsTold, Verdicts, ClientTypeOK
  <2>. QED
    BY <2>1, <2>2, <2>3, <2>4, <2>5, <2>6, <2>7, <2>8, <2>9, <2>10, <2>11 DEF IInv
<1>2. ASSUME NEW n \in Ids, Callback(n), n = client.reqid
      PROVE  IInv'
  <2>1. Locks'
    BY <1>2
    DEF Callback, IInv, Locks, Answering, Looked, ClientTypeOK
  <2>2. Unused'
    BY <1>2
    DEF Callback, IInv, Unused, Untouched, Verdicts, ClientTypeOK
  <2>3. AppCall'
    BY <1>2
    DEF Callback, IInv, AppCall, Untouched, ClientTypeOK
  <2>4. AnsweredOnce'
    BY <1>2
    DEF Callback, IInv, AnsweredOnce, Untouched, Answering, Verdicts,
        ClientTypeOK
  <2>5. CallbackSteps'
    BY <1>2, ClientAssumption
    DEF Callback, IInv, CallbackSteps, Answering, Untouched, Live, ClientTypeOK,
        Ids
  <2>6. StreamThreads'
    BY <1>2
    DEF Callback, IInv, StreamThreads, Live, Verdicts, ClientTypeOK
  <2>7. Erased'
    BY <1>2
    DEF Callback, IInv, Erased, Live, ClientTypeOK
  <2>8. Ended'
    BY <1>2
    DEF Callback, IInv, Ended, Looked, ClientTypeOK
  <2>9. OneVerdict'
    BY <1>2
    DEF Callback, IInv, OneVerdict, Verdicts, ClientTypeOK
  <2>10. LiveStreamInMap'
    BY <1>2
    DEF Callback, IInv, LiveStreamInMap, Live, ClientTypeOK
  <2>11. EndIsTold'
    BY <1>2
    DEF Callback, IInv, EndIsTold, Verdicts, ClientTypeOK
  <2>. QED
    BY <2>1, <2>2, <2>3, <2>4, <2>5, <2>6, <2>7, <2>8, <2>9, <2>10, <2>11 DEF IInv
<1>3. ASSUME CallbackLocks, req[sip.n].status # "requesting"
      PROVE  IInv'
  <2>0. sip.n \in Ids
    BY <1>3 DEF CallbackLocks, IInv, Locks
  <2>a. \A m \in Ids : req'[m].lock = req[m].lock
    BY <1>3, <2>0 DEF CallbackLocks, SetStatus, ClientTypeOK
  <2>b. /\ \A m \in Ids : req'[m].type = req[m].type /\ (m # sip.n => req'[m].status = req[m].status)
        /\ req'[sip.n].status = "complete" /\ told' = told /\ client' = client
    BY <1>3, <2>0 DEF CallbackLocks, SetStatus, ClientTypeOK
  <2>c. sip.n = client.reqid /\ req[sip.n].type # None => req[sip.n].status \in {"canceled", "timeout", "complete"}
    BY <1>3, <2>0 DEF CallbackLocks, IInv, Ended, AnsweredOnce, Unused, ClientTypeOK, Statuses
  <2>1. Locks'
    BY <1>3, <2>0, <2>a
    DEF CallbackLocks, Locks, IInv, Answering, Looked
  <2>2. Unused'
    BY <1>3, <2>0, ClientAssumption
    DEF CallbackLocks, SetStatus, IInv, Unused, Untouched, Verdicts, Locks,
        Answering, ClientTypeOK, Ids
  <2>3. AppCall'
    BY <1>3, <2>0, ClientAssumption
    DEF CallbackLocks, SetStatus, IInv, AppCall, Untouched, ClientTypeOK, Ids
  <2>4. AnsweredOnce'
    BY <1>3, <2>0, ClientAssumption
    DEF CallbackLocks, SetStatus, IInv, AnsweredOnce, Untouched, Answering,
        Verdicts, ClientTypeOK, Ids
  <2>5. CallbackSteps'
    BY <1>3, <2>0
    DEF CallbackLocks, SetStatus, IInv, CallbackSteps, Answering, Untouched,
        Live, ClientTypeOK
  <2>6. StreamThreads'
    BY <1>3, <2>0
    DEF CallbackLocks, SetStatus, IInv, StreamThreads, Live, Verdicts,
        ClientTypeOK
  <2>7. Erased'
    BY <1>3, <2>0, ClientAssumption
    DEF CallbackLocks, SetStatus, IInv, Erased, Live, AnsweredOnce, Untouched,
        ClientTypeOK
  <2>8. Ended'
    BY <1>3, <2>0, ClientAssumption, LookedFacts
    DEF CallbackLocks, SetStatus, IInv, Ended, Looked, Locks, Unused, Untouched,
        ClientTypeOK, Ids
  <2>9. OneVerdict'
    <3>1. \A m \in Ids : /\ told'[m] = told[m] /\ link'[m] = link[m]
                         /\ req'[m].type = req[m].type
      BY <1>3, <2>0 DEF CallbackLocks, SetStatus, ClientTypeOK
    <3>2. \A m \in Ids : OneVerdictOf(m)'
      BY <3>1, VerdictsKept DEF IInv
    <3>. QED
      BY <3>2 DEF OneVerdict, OneVerdictOf
  <2>10. LiveStreamInMap'
    <3>1. /\ \A m \in Ids : req'[m].stream = req[m].stream
          /\ client' = client /\ link' = link
      BY <1>3, <2>0 DEF CallbackLocks, SetStatus, ClientTypeOK
    <3>. QED
      BY <3>1 DEF IInv, LiveStreamInMap, Live
  <2>11. EndIsTold'
    BY <2>0, <2>b, <2>c, ClientAssumption
    DEF IInv, EndIsTold, AllTypes, Verdicts
  <2>. QED
    BY <2>1, <2>2, <2>3, <2>4, <2>5, <2>6, <2>7, <2>8, <2>9, <2>10, <2>11 DEF IInv
<1>4. ASSUME CallbackLocks, req[sip.n].status = "requesting"
      PROVE  IInv'
  <2>0. sip.n \in Ids
    BY <1>4 DEF CallbackLocks, IInv, Locks
  <2>1. Locks'
    BY <1>4, <2>0, ClientAssumption
    DEF CallbackLocks, IInv, Locks, Answering, Looked, ClientTypeOK, Ids
  <2>2. Unused'
    BY <1>4, <2>0
    DEF CallbackLocks, IInv, Unused, Untouched, Verdicts, ClientTypeOK
  <2>3. AppCall'
    BY <1>4, <2>0, ClientAssumption
    DEF CallbackLocks, IInv, AppCall, Untouched, ClientTypeOK, Ids
  <2>4. AnsweredOnce'
    BY <1>4, <2>0
    DEF CallbackLocks, IInv, AnsweredOnce, Untouched, Answering, Verdicts,
        ClientTypeOK
  <2>5. CallbackSteps'
    BY <1>4, <2>0, ClientAssumption
    DEF CallbackLocks, IInv, CallbackSteps, Answering, Untouched, AnsweredOnce,
        ClientTypeOK
  <2>6. StreamThreads'
    <3>1. /\ \A m \in Ids : /\ req'[m].stream = req[m].stream
                            /\ req'[m].type = req[m].type
                            /\ req'[m].status = req[m].status
          /\ link' = link /\ told' = told
      BY <1>4, <2>0, Records DEF CallbackLocks, ReqRec
    <3>. QED
      BY <3>1 DEF IInv, StreamThreads, Live, Verdicts
  <2>7. Erased'
    <3>1. /\ \A n \in Ids : /\ req'[n].status = req[n].status
                           /\ req'[n].stream = req[n].stream
          /\ client' = client /\ app' = app /\ link' = link
      <4>1. /\ req' = [req EXCEPT ![sip.n].lock = "sip"]
            /\ client' = client /\ app' = app /\ link' = link
        BY <1>4 DEF CallbackLocks
      <4>2. req \in [Ids -> ReqRec] /\ \A n \in Ids : req[n] \in ReqRec
        BY Records DEF IInv
      <4>. QED
        BY <4>1, <4>2, <2>0 DEF ReqRec
    <3>2. ASSUME NEW n \in Ids
          PROVE  /\ req'[n].status \in {"requesting", "registering"} =>
                        n \in client.map \/ (app = "add" /\ n = client.reqid) \/ client.deleted
                 /\ n \in client.erase =>
                        req'[n].status \in {"complete", "invalid", "canceled"}
                 /\ req'[n].stream = "open"
                       /\ (n \in client.erase \/ req'[n].status = "complete") =>
                        link[n].login = "refused"
      BY <3>1 DEF IInv, Erased, Live
    <3>. QED
      BY <3>1, <3>2 DEF Erased, Live
  <2>8. Ended'
    BY <1>4, <2>0, ClientAssumption, LookedFacts
    DEF CallbackLocks, IInv, Ended, Looked, Locks, AppCall, ClientTypeOK, Ids
  <2>9. OneVerdict'
    <3>1. \A m \in Ids : /\ told'[m] = told[m] /\ link'[m] = link[m]
                         /\ req'[m].type = req[m].type
      BY <1>4, <2>0 DEF CallbackLocks, ClientTypeOK
    <3>2. \A m \in Ids : OneVerdictOf(m)'
      BY <3>1, VerdictsKept DEF IInv
    <3>. QED
      BY <3>2 DEF OneVerdict, OneVerdictOf
  <2>10. LiveStreamInMap'
    <3>1. \A m \in Ids : req'[m] = [req[m] EXCEPT !.lock = req'[m].lock]
      BY <1>4, <2>0, Records DEF CallbackLocks, ReqRec
    <3>2. /\ \A m \in Ids : req'[m].stream = req[m].stream
          /\ client' = client /\ link' = link
      BY <1>4, <3>1, Records DEF CallbackLocks, ReqRec
    <3>. QED
      BY <3>2 DEF IInv, LiveStreamInMap, Live
  <2>11. EndIsTold'
    BY <1>4, <2>0
    DEF CallbackLocks, IInv, EndIsTold, Verdicts, ClientTypeOK
  <2>. QED
    BY <2>1, <2>2, <2>3, <2>4, <2>5, <2>6, <2>7, <2>8, <2>9, <2>10, <2>11 DEF IInv
<1>5. CASE SipReturns
  BY <1>5, SipReturnsInv
<1>. QED
  BY <1>1, <1>2, <1>3, <1>4, <1>5 DEF Sip

LEMMA ChecksInv ==
    ASSUME ClientTypeOK, IInv, Checks
    PROVE  IInv'
<1>1. CASE CheckBegins
  <2>1. Locks'
    BY <1>1, ClientAssumption
    DEF CheckBegins, IInv, Locks, Answering, Looked, ClientTypeOK, Ids
  <2>2. Unused'
    BY <1>1
    DEF CheckBegins, IInv, Unused, Untouched, Verdicts, ClientTypeOK
  <2>3. AppCall'
    BY <1>1
    DEF CheckBegins, IInv, AppCall, Untouched, ClientTypeOK
  <2>4. AnsweredOnce'
    BY <1>1
    DEF CheckBegins, IInv, AnsweredOnce, Untouched, Answering, Verdicts,
        ClientTypeOK
  <2>5. CallbackSteps'
    BY <1>1
    DEF CheckBegins, IInv, CallbackSteps, Answering, Untouched, Live,
        ClientTypeOK
  <2>6. StreamThreads'
    BY <1>1
    DEF CheckBegins, IInv, StreamThreads, Live, Verdicts, ClientTypeOK
  <2>7. Erased'
    BY <1>1
    DEF CheckBegins, IInv, Erased, Live, ClientTypeOK
  <2>8. Ended'
    BY <1>1
    DEF CheckBegins, IInv, Ended, Looked, ClientTypeOK
  <2>9. OneVerdict'
    BY <1>1
    DEF CheckBegins, IInv, OneVerdict, Verdicts, ClientTypeOK
  <2>10. LiveStreamInMap'
    BY <1>1
    DEF CheckBegins, IInv, LiveStreamInMap, Live, ClientTypeOK
  <2>11. EndIsTold'
    BY <1>1
    DEF CheckBegins, IInv, EndIsTold, Verdicts, ClientTypeOK
  <2>. QED
    BY <2>1, <2>2, <2>3, <2>4, <2>5, <2>6, <2>7, <2>8, <2>9, <2>10, <2>11 DEF IInv
<1>2. CASE CheckLocks
  <2>0. Looked \in Ids /\ Looked \in client.map /\ check.todo # {}
    BY <1>2, LookedFacts DEF CheckLocks, IInv, Locks
  <2>1. Locks'
    BY <1>2, <2>0, ClientAssumption
    DEF CheckLocks, IInv, Locks, Answering, Looked, ClientTypeOK, Ids
  <2>2. Unused'
    BY <1>2, <2>0
    DEF CheckLocks, IInv, Unused, Untouched, Verdicts, ClientTypeOK
  <2>3. AppCall'
    BY <1>2, <2>0
    DEF CheckLocks, IInv, AppCall, Untouched, ClientTypeOK
  <2>4. AnsweredOnce'
    BY <1>2, <2>0
    DEF CheckLocks, IInv, AnsweredOnce, Untouched, Answering, Verdicts,
        ClientTypeOK
  <2>5. CallbackSteps'
    BY <1>2, <2>0
    DEF CheckLocks, IInv, CallbackSteps, Answering, Untouched, Live,
        ClientTypeOK
  <2>6. StreamThreads'
    BY <1>2, <2>0
    DEF CheckLocks, IInv, StreamThreads, Live, Verdicts, ClientTypeOK
  <2>7. Erased'
    BY <1>2, <2>0
    DEF CheckLocks, IInv, Erased, Live, ClientTypeOK
  <2>8. Ended'
    BY <1>2, <2>0
    DEF CheckLocks, IInv, Ended, Looked, ClientTypeOK
  <2>9. OneVerdict'
    BY <1>2, <2>0
    DEF CheckLocks, IInv, OneVerdict, Verdicts, ClientTypeOK
  <2>10. LiveStreamInMap'
    BY <1>2, <2>0
    DEF CheckLocks, IInv, LiveStreamInMap, Live, ClientTypeOK
  <2>11. EndIsTold'
    BY <1>2, <2>0
    DEF CheckLocks, IInv, EndIsTold, Verdicts, ClientTypeOK
  <2>. QED
    BY <2>1, <2>2, <2>3, <2>4, <2>5, <2>6, <2>7, <2>8, <2>9, <2>10, <2>11 DEF IInv
<1>3. CASE CheckPasses
  <2>0. Looked \in Ids /\ Looked \in client.map /\ check.todo # {}
    BY <1>3, LookedFacts DEF CheckPasses, IInv, Locks
  <2>1. Locks'
    BY <1>3, <2>0, ClientAssumption
    DEF CheckPasses, LeaveRequest, IInv, Locks, Answering, Looked, ClientTypeOK,
        Ids
  <2>2. Unused'
    BY <1>3, <2>0
    DEF CheckPasses, LeaveRequest, IInv, Unused, Untouched, Verdicts,
        ClientTypeOK
  <2>3. AppCall'
    BY <1>3, <2>0
    DEF CheckPasses, LeaveRequest, IInv, AppCall, Untouched, ClientTypeOK
  <2>4. AnsweredOnce'
    BY <1>3, <2>0
    DEF CheckPasses, LeaveRequest, IInv, AnsweredOnce, Untouched, Answering,
        Verdicts, ClientTypeOK
  <2>5. CallbackSteps'
    BY <1>3, <2>0
    DEF CheckPasses, LeaveRequest, IInv, CallbackSteps, Answering, Untouched,
        Live, ClientTypeOK
  <2>6. StreamThreads'
    BY <1>3, <2>0
    DEF CheckPasses, LeaveRequest, IInv, StreamThreads, Live, Verdicts,
        ClientTypeOK
  <2>7. Erased'
    BY <1>3, <2>0
    DEF CheckPasses, LeaveRequest, IInv, Erased, Live, ClientTypeOK
  <2>8. Ended'
    BY <1>3, <2>0
    DEF CheckPasses, LeaveRequest, IInv, Ended, Looked, ClientTypeOK
  <2>9. OneVerdict'
    BY <1>3, <2>0
    DEF CheckPasses, LeaveRequest, IInv, OneVerdict, Verdicts, ClientTypeOK
  <2>10. LiveStreamInMap'
    BY <1>3, <2>0
    DEF CheckPasses, LeaveRequest, IInv, LiveStreamInMap, Live, ClientTypeOK
  <2>11. EndIsTold'
    BY <1>3, <2>0
    DEF CheckPasses, LeaveRequest, IInv, EndIsTold, Verdicts, ClientTypeOK
  <2>. QED
    BY <2>1, <2>2, <2>3, <2>4, <2>5, <2>6, <2>7, <2>8, <2>9, <2>10, <2>11 DEF IInv
<1>4. ASSUME RequestExpires, Looked # client.reqid
      PROVE  IInv'
  <2>0. Looked \in Ids /\ Looked \in client.map /\ check.todo # {}
    BY <1>4, LookedFacts DEF RequestExpires, IInv, Locks
  <2>a. Untouched(Looked) /\ Verdicts(Looked) = 0 /\ req[Looked].status = "requesting"
        /\ check.pc = "look"
    BY <1>4, <2>0 DEF RequestExpires, IInv, Locks, AnsweredOnce, Answering
  <2>b. /\ LeaveRequest("canceled", req[Looked].stream)
        /\ told' = told /\ Looked # client.reqid
        /\ UNCHANGED <<link, app, sip, pending>>
    BY <1>4 DEF RequestExpires
  <2>1. Locks'
    BY <2>0, <2>a, <2>b, ClientAssumption
    DEF LeaveRequest, IInv, Locks, Answering, Looked, ClientTypeOK, Ids
  <2>2. Unused'
    BY <2>0, <2>a, <2>b
    DEF LeaveRequest, IInv, Unused, Untouched, Verdicts, ClientTypeOK
  <2>3. AppCall'
    BY <2>0, <2>a, <2>b
    DEF LeaveRequest, IInv, AppCall, Untouched, ClientTypeOK
  <2>4. AnsweredOnce'
    BY <2>0, <2>a, <2>b
    DEF LeaveRequest, IInv, AnsweredOnce, Untouched, Answering, Verdicts,
        ClientTypeOK
  <2>5. CallbackSteps'
    BY <2>0, <2>a, <2>b, ClientAssumption
    DEF LeaveRequest, IInv, CallbackSteps, Answering, Untouched, Live, Locks
  <2>6. StreamThreads'
    BY <2>0, <2>a, <2>b
    DEF LeaveRequest, IInv, StreamThreads, Live, Verdicts, ClientTypeOK
  <2>7. Erased'
    BY <2>0, <2>a, <2>b
    DEF LeaveRequest, IInv, Erased, Live, ClientTypeOK
  <2>8. Ended'
    BY <2>0, <2>a, <2>b
    DEF LeaveRequest, IInv, Ended, Looked, ClientTypeOK
  <2>9. OneVerdict'
    BY <2>0, <2>a, <2>b
    DEF LeaveRequest, IInv, OneVerdict, Verdicts, ClientTypeOK
  <2>10. LiveStreamInMap'
    BY <2>0, <2>a, <2>b
    DEF LeaveRequest, IInv, LiveStreamInMap, Live, ClientTypeOK
  <2>11. EndIsTold'
    BY <2>0, <2>a, <2>b
    DEF LeaveRequest, IInv, EndIsTold, Verdicts, ClientTypeOK
  <2>. QED
    BY <2>1, <2>2, <2>3, <2>4, <2>5, <2>6, <2>7, <2>8, <2>9, <2>10, <2>11 DEF IInv
<1>5. ASSUME RequestExpires, Looked = client.reqid, req[Looked].type \in TimeoutReported
      PROVE  IInv'
  <2>0. Looked \in Ids /\ Looked \in client.map /\ check.todo # {}
    BY <1>5, LookedFacts DEF RequestExpires, IInv, Locks
  <2>a. Untouched(Looked) /\ Verdicts(Looked) = 0 /\ req[Looked].status = "requesting"
        /\ check.pc = "look"
    BY <1>5, <2>0 DEF RequestExpires, IInv, Locks, AnsweredOnce, Answering
  <2>b. /\ LeaveRequest("timeout", req[Looked].stream)
        /\ Tell(Looked, "bad")
        /\ UNCHANGED <<link, app, sip, pending>>
    BY <1>5 DEF RequestExpires, TellIf
  <2>c. /\ \A m \in Ids : m # Looked => told'[m] = told[m]
        /\ told'[Looked].good + told'[Looked].bad = 1
    BY <2>0, <2>a, <2>b, TellFacts DEF Verdicts
  <2>1. Locks'
    BY <2>0, <2>a, <2>b, <2>c, ClientAssumption
    DEF LeaveRequest, IInv, Locks, Answering, Looked, ClientTypeOK, Ids
  <2>2. Unused'
    BY <2>0, <2>a, <2>b, <2>c
    DEF LeaveRequest, IInv, Unused, Untouched, Verdicts, ClientTypeOK
  <2>3. AppCall'
    BY <2>0, <2>a, <2>b, <2>c
    DEF LeaveRequest, IInv, AppCall, Untouched, ClientTypeOK
  <2>4. AnsweredOnce'
    <3>1. ~Answering(Looked)
      BY <2>0, <2>a DEF IInv, CallbackSteps, Locks
    <3>. QED
      BY <2>0, <2>a, <2>b, <2>c, <3>1
      DEF LeaveRequest, IInv, AnsweredOnce, Untouched, Answering, Verdicts,
          ClientTypeOK
  <2>5. CallbackSteps'
    BY <2>0, <2>a, <2>b, <2>c, ClientAssumption
    DEF LeaveRequest, IInv, CallbackSteps, Answering, Untouched, Live, Locks
  <2>6. StreamThreads'
    BY <2>0, <2>a, <2>b, <2>c
    DEF LeaveRequest, IInv, StreamThreads, Live, Verdicts, ClientTypeOK
  <2>7. Erased'
    BY <2>0, <2>a, <2>b, <2>c
    DEF LeaveRequest, IInv, Erased, Live, ClientTypeOK
  <2>8. Ended'
    BY <2>0, <2>a, <2>b, <2>c
    DEF LeaveRequest, IInv, Ended, Looked, ClientTypeOK
  <2>9. OneVerdict'
    BY <2>0, <2>a, <2>b, <2>c
    DEF LeaveRequest, IInv, OneVerdict, Verdicts, ClientTypeOK
  <2>10. LiveStreamInMap'
    BY <2>0, <2>a, <2>b, <2>c
    DEF LeaveRequest, IInv, LiveStreamInMap, Live, ClientTypeOK
  <2>11. EndIsTold'
    BY <2>0, <2>a, <2>b, <2>c
    DEF LeaveRequest, IInv, EndIsTold, Verdicts, ClientTypeOK
  <2>. QED
    BY <2>1, <2>2, <2>3, <2>4, <2>5, <2>6, <2>7, <2>8, <2>9, <2>10, <2>11 DEF IInv
<1>6. ASSUME RequestExpires, Looked = client.reqid, req[Looked].type \notin TimeoutReported
      PROVE  IInv'
  <2>0. Looked \in Ids /\ Looked \in client.map /\ check.todo # {}
    BY <1>6, LookedFacts DEF RequestExpires, IInv, Locks
  <2>a. Untouched(Looked) /\ Verdicts(Looked) = 0 /\ req[Looked].status = "requesting"
        /\ check.pc = "look"
    BY <1>6, <2>0 DEF RequestExpires, IInv, Locks, AnsweredOnce, Answering
  <2>b. /\ LeaveRequest("timeout", req[Looked].stream)
        /\ told' = told /\ req[Looked].type \notin {"p2p", "transit", "query"}
        /\ UNCHANGED <<link, app, sip, pending>>
    BY <1>6 DEF RequestExpires, TellIf, TimeoutReported
  <2>1. Locks'
    BY <2>0, <2>a, <2>b, ClientAssumption
    DEF LeaveRequest, IInv, Locks, Answering, Looked, ClientTypeOK, Ids
  <2>2. Unused'
    BY <2>0, <2>a, <2>b
    DEF LeaveRequest, IInv, Unused, Untouched, Verdicts, ClientTypeOK
  <2>3. AppCall'
    BY <2>0, <2>a, <2>b
    DEF LeaveRequest, IInv, AppCall, Untouched, ClientTypeOK
  <2>4. AnsweredOnce'
    BY <2>0, <2>a, <2>b
    DEF LeaveRequest, IInv, AnsweredOnce, Untouched, Answering, Verdicts,
        ClientTypeOK
  <2>5. CallbackSteps'
    BY <2>0, <2>a, <2>b, ClientAssumption
    DEF LeaveRequest, IInv, CallbackSteps, Answering, Untouched, Live, Locks
  <2>6. StreamThreads'
    BY <2>0, <2>a, <2>b
    DEF LeaveRequest, IInv, StreamThreads, Live, Verdicts, ClientTypeOK
  <2>7. Erased'
    BY <2>0, <2>a, <2>b
    DEF LeaveRequest, IInv, Erased, Live, ClientTypeOK
  <2>8. Ended'
    BY <2>0, <2>a, <2>b
    DEF LeaveRequest, IInv, Ended, Looked, ClientTypeOK
  <2>9. OneVerdict'
    BY <2>0, <2>a, <2>b
    DEF LeaveRequest, IInv, OneVerdict, Verdicts, ClientTypeOK
  <2>10. LiveStreamInMap'
    BY <2>0, <2>a, <2>b
    DEF LeaveRequest, IInv, LiveStreamInMap, Live, ClientTypeOK
  <2>11. EndIsTold'
    BY <2>0, <2>a, <2>b
    DEF LeaveRequest, IInv, EndIsTold, Verdicts, ClientTypeOK
  <2>. QED
    BY <2>1, <2>2, <2>3, <2>4, <2>5, <2>6, <2>7, <2>8, <2>9, <2>10, <2>11 DEF IInv
<1>7. CASE RegisterExpires
  <2>0. Looked \in Ids /\ Looked \in client.map /\ check.todo # {}
    BY <1>7, LookedFacts DEF RegisterExpires, IInv, Locks
  <2>a. req[Looked].type = "transit" /\ link[Looked].rcv # "none"
    BY <1>7, <2>0 DEF RegisterExpires, IInv, StreamThreads
  <2>c. /\ \A m \in Ids : m # Looked => told'[m] = told[m]
        /\ told'[Looked].good + told'[Looked].bad > 0
    BY <1>7, <2>0, TellFacts DEF RegisterExpires
  <2>1. Locks'
    BY <1>7, <2>0, <2>a, <2>c, ClientAssumption
    DEF RegisterExpires, LeaveRequest, IInv, Locks, Answering, Looked,
        ClientTypeOK, Ids
  <2>2. Unused'
    BY <1>7, <2>0, <2>a, <2>c
    DEF RegisterExpires, LeaveRequest, IInv, Unused, Untouched, Verdicts,
        ClientTypeOK
  <2>3. AppCall'
    BY <1>7, <2>0, <2>a, <2>c
    DEF RegisterExpires, LeaveRequest, IInv, AppCall, Untouched, ClientTypeOK
  <2>4. AnsweredOnce'
    BY <1>7, <2>0, <2>a, <2>c
    DEF RegisterExpires, LeaveRequest, IInv, AnsweredOnce, Untouched, Answering,
        Verdicts, ClientTypeOK
  <2>5. CallbackSteps'
    BY <1>7, <2>0, <2>a, <2>c
    DEF RegisterExpires, LeaveRequest, IInv, CallbackSteps, Answering,
        Untouched, Live, ClientTypeOK
  <2>6. StreamThreads'
    BY <1>7, <2>0, <2>a, <2>c
    DEF RegisterExpires, LeaveRequest, IInv, StreamThreads, Live, Verdicts,
        ClientTypeOK
  <2>7. Erased'
    BY <1>7, <2>0, <2>a, <2>c
    DEF RegisterExpires, LeaveRequest, IInv, Erased, Live, ClientTypeOK
  <2>8. Ended'
    BY <1>7, <2>0, <2>a, <2>c
    DEF RegisterExpires, LeaveRequest, IInv, Ended, Looked, ClientTypeOK
  <2>9. OneVerdict'
    BY <1>7, <2>0, <2>a, <2>c
    DEF RegisterExpires, LeaveRequest, IInv, OneVerdict, Verdicts, ClientTypeOK
  <2>10. LiveStreamInMap'
    BY <1>7, <2>0, <2>a, <2>c
    DEF RegisterExpires, LeaveRequest, IInv, LiveStreamInMap, Live, ClientTypeOK
  <2>11. EndIsTold'
    BY <1>7, <2>0, <2>a, <2>c
    DEF RegisterExpires, LeaveRequest, IInv, EndIsTold, Verdicts, ClientTypeOK
  <2>. QED
    BY <2>1, <2>2, <2>3, <2>4, <2>5, <2>6, <2>7, <2>8, <2>9, <2>10, <2>11 DEF IInv
<1>8. CASE CheckCanceled
  <2>0. Looked \in Ids /\ Looked \in client.map /\ check.todo # {}
    BY <1>8, LookedFacts DEF CheckCanceled, IInv, Locks
  <2>1. Locks'
    BY <1>8, <2>0
    DEF CheckCanceled, IInv, Locks, Answering, Looked, ClientTypeOK
  <2>2. Unused'
    BY <1>8, <2>0
    DEF CheckCanceled, IInv, Unused, Untouched, Verdicts, ClientTypeOK
  <2>3. AppCall'
    BY <1>8, <2>0
    DEF CheckCanceled, IInv, AppCall, Untouched, ClientTypeOK
  <2>4. AnsweredOnce'
    BY <1>8, <2>0
    DEF CheckCanceled, IInv, AnsweredOnce, Untouched, Answering, Verdicts,
        ClientTypeOK
  <2>5. CallbackSteps'
    BY <1>8, <2>0
    DEF CheckCanceled, IInv, CallbackSteps, Answering, Untouched, Live,
        ClientTypeOK
  <2>6. StreamThreads'
    BY <1>8, <2>0
    DEF CheckCanceled, IInv, StreamThreads, Live, Verdicts, ClientTypeOK
  <2>7. Erased'
    BY <1>8, <2>0
    DEF CheckCanceled, IInv, Erased, Live, ClientTypeOK
  <2>8. Ended'
    BY <1>8, <2>0
    DEF CheckCanceled, IInv, Ended, Looked, ClientTypeOK
  <2>9. OneVerdict'
    BY <1>8, <2>0
    DEF CheckCanceled, IInv, OneVerdict, Verdicts, ClientTypeOK
  <2>10. LiveStreamInMap'
    BY <1>8, <2>0
    DEF CheckCanceled, IInv, LiveStreamInMap, Live, ClientTypeOK
  <2>11. EndIsTold'
    BY <1>8, <2>0
    DEF CheckCanceled, IInv, EndIsTold, Verdicts, ClientTypeOK
  <2>. QED
    BY <2>1, <2>2, <2>3, <2>4, <2>5, <2>6, <2>7, <2>8, <2>9, <2>10, <2>11 DEF IInv
<1>9. CASE CheckCloses
  <2>0. Looked \in Ids /\ Looked \in client.map /\ check.todo # {}
    BY <1>9, LookedFacts DEF CheckCloses, IInv, Locks
  <2>1. Locks'
    BY <1>9, <2>0, ClientAssumption
    DEF CheckCloses, Joined, LeaveRequest, IInv, Locks, Answering, Looked,
        ClientTypeOK, Ids
  <2>2. Unused'
    BY <1>9, <2>0
    DEF CheckCloses, Joined, LeaveRequest, IInv, Unused, Untouched, Verdicts,
        ClientTypeOK
  <2>3. AppCall'
    BY <1>9, <2>0
    DEF CheckCloses, Joined, LeaveRequest, IInv, AppCall, Untouched,
        ClientTypeOK
  <2>4. AnsweredOnce'
    BY <1>9, <2>0
    DEF CheckCloses, Joined, LeaveRequest, IInv, AnsweredOnce, Untouched,
        Answering, Verdicts, ClientTypeOK
  <2>5. CallbackSteps'
    BY <1>9, <2>0, ClientAssumption
    DEF CheckCloses, Joined, LeaveRequest, IInv, CallbackSteps, Answering,
        Untouched, Live, Locks
  <2>6. StreamThreads'
    BY <1>9, <2>0
    DEF CheckCloses, Joined, LeaveRequest, IInv, StreamThreads, Live, Verdicts,
        ClientTypeOK
  <2>7. Erased'
    BY <1>9, <2>0
    DEF CheckCloses, Joined, LeaveRequest, IInv, Erased, Live, ClientTypeOK
  <2>8. Ended'
    BY <1>9, <2>0
    DEF CheckCloses, Joined, LeaveRequest, IInv, Ended, Looked, ClientTypeOK
  <2>9. OneVerdict'
    BY <1>9, <2>0
    DEF CheckCloses, Joined, LeaveRequest, IInv, OneVerdict, Verdicts, ClientTypeOK
  <2>10. LiveStreamInMap'
    BY <1>9, <2>0
    DEF CheckCloses, Joined, LeaveRequest, IInv, LiveStreamInMap, Live,
        ClientTypeOK
  <2>11. EndIsTold'
    BY <1>9, <2>0, ClientAssumption
    DEF CheckCloses, Joined, LeaveRequest, IInv, EndIsTold, Ended, Verdicts
  <2>. QED
    BY <2>1, <2>2, <2>3, <2>4, <2>5, <2>6, <2>7, <2>8, <2>9, <2>10, <2>11 DEF IInv
<1>10. CASE CheckEnds
  <2>1. Locks'
    BY <1>10, ClientAssumption
    DEF CheckEnds, IInv, Locks, Answering, Looked, ClientTypeOK, Ids
  <2>2. Unused'
    BY <1>10
    DEF CheckEnds, IInv, Unused, Untouched, Verdicts, ClientTypeOK
  <2>3. AppCall'
    BY <1>10
    DEF CheckEnds, IInv, AppCall, Untouched, ClientTypeOK
  <2>4. AnsweredOnce'
    BY <1>10
    DEF CheckEnds, IInv, AnsweredOnce, Untouched, Answering, Verdicts,
        ClientTypeOK
  <2>5. CallbackSteps'
    BY <1>10
    DEF CheckEnds, IInv, CallbackSteps, Answering, Untouched, Live, ClientTypeOK
  <2>6. StreamThreads'
    BY <1>10
    DEF CheckEnds, IInv, StreamThreads, Live, Verdicts, ClientTypeOK
  <2>7. Erased'
    BY <1>10
    DEF CheckEnds, IInv, Erased, Live, ClientTypeOK
  <2>8. Ended'
    BY <1>10
    DEF CheckEnds, IInv, Ended, Looked, ClientTypeOK
  <2>9. OneVerdict'
    BY <1>10
    DEF CheckEnds, IInv, OneVerdict, Verdicts, ClientTypeOK
  <2>10. LiveStreamInMap'
    BY <1>10
    DEF CheckEnds, IInv, LiveStreamInMap, Live, ClientTypeOK
  <2>11. EndIsTold'
    BY <1>10
    DEF CheckEnds, IInv, EndIsTold, Verdicts, ClientTypeOK
  <2>. QED
    BY <2>1, <2>2, <2>3, <2>4, <2>5, <2>6, <2>7, <2>8, <2>9, <2>10, <2>11 DEF IInv
<1>11. CASE ClearRequest
  <2>1. Locks'
    BY <1>11
    DEF ClearRequest, IInv, Locks, Answering, Looked, ClientTypeOK
  <2>2. Unused'
    BY <1>11
    DEF ClearRequest, IInv, Unused, Untouched, Verdicts, ClientTypeOK
  <2>3. AppCall'
    BY <1>11
    DEF ClearRequest, IInv, AppCall, Untouched, ClientTypeOK
  <2>4. AnsweredOnce'
    BY <1>11
    DEF ClearRequest, IInv, AnsweredOnce, Untouched, Answering, Verdicts,
        ClientTypeOK
  <2>5. CallbackSteps'
    BY <1>11
    DEF ClearRequest, IInv, CallbackSteps, Answering, Untouched, Live,
        ClientTypeOK
  <2>6. StreamThreads'
    BY <1>11
    DEF ClearRequest, IInv, StreamThreads, Live, Verdicts, ClientTypeOK
  <2>7. Erased'
    BY <1>11
    DEF ClearRequest, IInv, Erased, Live, ClientTypeOK
  <2>8. Ended'
    BY <1>11
    DEF ClearRequest, IInv, Ended, Looked, ClientTypeOK
  <2>9. OneVerdict'
    BY <1>11
    DEF ClearRequest, IInv, OneVerdict, Verdicts, ClientTypeOK
  <2>10. LiveStreamInMap'
    BY <1>11, ClientAssumption
    DEF ClearRequest, IInv, LiveStreamInMap, Live, Erased
  <2>11. EndIsTold'
    BY <1>11
    DEF ClearRequest, IInv, EndIsTold, Verdicts, ClientTypeOK
  <2>. QED
    BY <2>1, <2>2, <2>3, <2>4, <2>5, <2>6, <2>7, <2>8, <2>9, <2>10, <2>11 DEF IInv
<1>. QED
  BY <1>1, <1>2, <1>3, <1>4, <1>5, <1>6, <1>7, <1>8, <1>9, <1>10, <1>11 DEF Checks

LEMMA StreamsInv ==
    ASSUME ClientTypeOK, IInv, Streams
    PROVE  IInv'
<1>1. ASSUME NEW n \in Ids, NEW ok \in BOOLEAN, LoginAnswered(n, ok)
      PROVE  IInv'
  <2>a. Live(n) /\ req[n].type = "transit"
    BY <1>1 DEF LoginAnswered, IInv, StreamThreads
  <2>c. /\ \A m \in Ids : m # n => told'[m] = told[m]
        /\ told'[n].good + told'[n].bad > 0
    BY <1>1, TellFacts DEF LoginAnswered
  <2>1. Locks'
    BY <1>1, <2>a, <2>c
    DEF LoginAnswered, IInv, Locks, Answering, Looked, ClientTypeOK
  <2>2. Unused'
    BY <1>1, <2>a, <2>c
    DEF LoginAnswered, IInv, Unused, Untouched, Verdicts, ClientTypeOK
  <2>3. AppCall'
    BY <1>1, <2>a, <2>c
    DEF LoginAnswered, IInv, AppCall, Untouched, ClientTypeOK
  <2>4. AnsweredOnce'
    BY <1>1, <2>a, <2>c, ClientAssumption
    DEF LoginAnswered, IInv, AnsweredOnce, Untouched, Answering, Verdicts,
        CallbackSteps
  <2>5. CallbackSteps'
    BY <1>1, <2>a, <2>c
    DEF LoginAnswered, IInv, CallbackSteps, Answering, Untouched, Live,
        ClientTypeOK
  <2>6. StreamThreads'
    BY <1>1, <2>a, <2>c
    DEF LoginAnswered, IInv, StreamThreads, Live, Verdicts, ClientTypeOK
  <2>7. Erased'
    BY <1>1, <2>a, <2>c
    DEF LoginAnswered, IInv, Erased, Live, ClientTypeOK
  <2>8. Ended'
    BY <1>1, <2>a, <2>c
    DEF LoginAnswered, IInv, Ended, Looked, ClientTypeOK
  <2>9. OneVerdict'
    BY <1>1, <2>a, <2>c
    DEF LoginAnswered, IInv, OneVerdict, Verdicts, ClientTypeOK
  <2>10. LiveStreamInMap'
    BY <1>1, <2>a, <2>c
    DEF LoginAnswered, IInv, LiveStreamInMap, Live, ClientTypeOK
  <2>11. EndIsTold'
    BY <1>1, <2>a, <2>c
    DEF LoginAnswered, IInv, EndIsTold, Verdicts, ClientTypeOK
  <2>. QED
    BY <2>1, <2>2, <2>3, <2>4, <2>5, <2>6, <2>7, <2>8, <2>9, <2>10, <2>11 DEF IInv
<1>2. ASSUME NEW n \in Ids, LoginSettled(n), req[n].status = "registering", link[n].login = "ok"
      PROVE  IInv'
  <2>a. /\ link[n].rcv = "ack" /\ req[n].lock = None
        /\ SetStatus(n, "connected") /\ link[n].login = "ok"
        /\ link' = [link EXCEPT ![n].rcv = "run"]
        /\ UNCHANGED <<client, app, check, sip, pending, told>>
    BY <1>2 DEF LoginSettled, IInv, StreamThreads
  <2>1. Locks'
    BY <2>a
    DEF SetStatus, IInv, Locks, Answering, Looked, ClientTypeOK
  <2>2. Unused'
    BY <2>a
    DEF SetStatus, IInv, Unused, Untouched, Verdicts, ClientTypeOK
  <2>3. AppCall'
    BY <2>a
    DEF SetStatus, IInv, AppCall, Untouched, ClientTypeOK
  <2>4. AnsweredOnce'
    BY <2>a
    DEF SetStatus, IInv, AnsweredOnce, Untouched, Answering, Verdicts,
        ClientTypeOK
  <2>5. CallbackSteps'
    BY <2>a, ClientAssumption
    DEF SetStatus, IInv, CallbackSteps, Answering, Untouched, Live, Locks
  <2>6. StreamThreads'
    BY <2>a
    DEF SetStatus, IInv, StreamThreads, Live, Verdicts, ClientTypeOK
  <2>7. Erased'
    BY <2>a, ClientAssumption
    DEF SetStatus, IInv, Erased, Live, StreamThreads
  <2>8. Ended'
    BY <2>a, ClientAssumption, LookedFacts
    DEF SetStatus, IInv, Ended, Looked, Locks
  <2>9. OneVerdict'
    BY <2>a
    DEF SetStatus, IInv, OneVerdict, Verdicts, ClientTypeOK
  <2>10. LiveStreamInMap'
    BY <2>a
    DEF SetStatus, IInv, LiveStreamInMap, Live, ClientTypeOK
  <2>11. EndIsTold'
    BY <2>a, ClientAssumption
    DEF SetStatus, IInv, EndIsTold, Verdicts, StreamThreads
  <2>. QED
    BY <2>1, <2>2, <2>3, <2>4, <2>5, <2>6, <2>7, <2>8, <2>9, <2>10, <2>11 DEF IInv
<1>3. ASSUME NEW n \in Ids, LoginSettled(n), req[n].status = "registering", link[n].login # "ok"
      PROVE  IInv'
  <2>a. /\ link[n].rcv = "ack" /\ req[n].lock = None
        /\ SetStatus(n, "complete") /\ link[n].login = "refused"
        /\ link' = [link EXCEPT ![n].rcv = "run"]
        /\ UNCHANGED <<client, app, check, sip, pending, told>>
    BY <1>3 DEF LoginSettled, IInv, StreamThreads
  <2>1. Locks'
    BY <2>a
    DEF SetStatus, IInv, Locks, Answering, Looked, ClientTypeOK
  <2>2. Unused'
    BY <2>a
    DEF SetStatus, IInv, Unused, Untouched, Verdicts, ClientTypeOK
  <2>3. AppCall'
    BY <2>a
    DEF SetStatus, IInv, AppCall, Untouched, ClientTypeOK
  <2>4. AnsweredOnce'
    BY <2>a
    DEF SetStatus, IInv, AnsweredOnce, Untouched, Answering, Verdicts,
        ClientTypeOK
  <2>5. CallbackSteps'
    BY <2>a, ClientAssumption
    DEF SetStatus, IInv, CallbackSteps, Answering, Untouched, Live, Locks
  <2>6. StreamThreads'
    BY <2>a
    DEF SetStatus, IInv, StreamThreads, Live, Verdicts, ClientTypeOK
  <2>7. Erased'
    BY <2>a
    DEF SetStatus, IInv, Erased, Live, ClientTypeOK
  <2>8. Ended'
    BY <2>a, ClientAssumption, LookedFacts
    DEF SetStatus, IInv, Ended, Looked, Locks
  <2>9. OneVerdict'
    BY <2>a
    DEF SetStatus, IInv, OneVerdict, Verdicts, ClientTypeOK
  <2>10. LiveStreamInMap'
    BY <2>a
    DEF SetStatus, IInv, LiveStreamInMap, Live, ClientTypeOK
  <2>11. EndIsTold'
    BY <2>a, ClientAssumption
    DEF SetStatus, IInv, EndIsTold, Verdicts, StreamThreads
  <2>. QED
    BY <2>1, <2>2, <2>3, <2>4, <2>5, <2>6, <2>7, <2>8, <2>9, <2>10, <2>11 DEF IInv
<1>4. ASSUME NEW n \in Ids, LoginSettled(n), req[n].status # "registering"
      PROVE  IInv'
  <2>a. /\ link[n].rcv = "ack" /\ req[n].lock = None
        /\ req' = req
        /\ link' = [link EXCEPT ![n].rcv = "run"]
        /\ UNCHANGED <<client, app, check, sip, pending, told>>
    BY <1>4 DEF LoginSettled, IInv, StreamThreads
  <2>1. Locks'
    BY <2>a
    DEF IInv, Locks, Answering, Looked, ClientTypeOK
  <2>2. Unused'
    BY <2>a
    DEF IInv, Unused, Untouched, Verdicts, ClientTypeOK
  <2>3. AppCall'
    BY <2>a
    DEF IInv, AppCall, Untouched, ClientTypeOK
  <2>4. AnsweredOnce'
    BY <2>a
    DEF IInv, AnsweredOnce, Untouched, Answering, Verdicts, ClientTypeOK
  <2>5. CallbackSteps'
    BY <2>a
    DEF IInv, CallbackSteps, Answering, Untouched, Live, ClientTypeOK
  <2>6. StreamThreads'
    BY <2>a
    DEF IInv, StreamThreads, Live, Verdicts, ClientTypeOK
  <2>7. Erased'
    BY <2>a
    DEF IInv, Erased, Live, ClientTypeOK
  <2>8. Ended'
    BY <2>a
    DEF IInv, Ended, Looked, ClientTypeOK
  <2>9. OneVerdict'
    BY <2>a
    DEF IInv, OneVerdict, Verdicts, ClientTypeOK
  <2>10. LiveStreamInMap'
    BY <2>a
    DEF IInv, LiveStreamInMap, Live, ClientTypeOK
  <2>11. EndIsTold'
    BY <2>a
    DEF IInv, EndIsTold, Verdicts, ClientTypeOK
  <2>. QED
    BY <2>1, <2>2, <2>3, <2>4, <2>5, <2>6, <2>7, <2>8, <2>9, <2>10, <2>11 DEF IInv
<1>5. ASSUME NEW n \in Ids, ReceiveFails(n)
      PROVE  IInv'
  <2>c. \A m \in Ids : told'[m].good = told[m].good /\ told'[m].bad = told[m].bad
    BY <1>5, TellFacts DEF ReceiveFails, TellIf
  <2>1. Locks'
    BY <1>5, <2>c
    DEF ReceiveFails, IInv, Locks, Answering, Looked, ClientTypeOK
  <2>2. Unused'
    BY <1>5, <2>c
    DEF ReceiveFails, IInv, Unused, Untouched, Verdicts, ClientTypeOK
  <2>3. AppCall'
    BY <1>5, <2>c
    DEF ReceiveFails, IInv, AppCall, Untouched, ClientTypeOK
  <2>4. AnsweredOnce'
    BY <1>5, <2>c
    DEF ReceiveFails, IInv, AnsweredOnce, Untouched, Answering, Verdicts,
        ClientTypeOK
  <2>5. CallbackSteps'
    BY <1>5, <2>c
    DEF ReceiveFails, IInv, CallbackSteps, Answering, Untouched, Live,
        ClientTypeOK
  <2>6. StreamThreads'
    BY <1>5, <2>c
    DEF ReceiveFails, IInv, StreamThreads, Live, Verdicts, ClientTypeOK
  <2>7. Erased'
    BY <1>5, <2>c
    DEF ReceiveFails, IInv, Erased, Live, ClientTypeOK
  <2>8. Ended'
    BY <1>5, <2>c
    DEF ReceiveFails, IInv, Ended, Looked, ClientTypeOK
  <2>9. OneVerdict'
    BY <1>5, <2>c
    DEF ReceiveFails, IInv, OneVerdict, Verdicts, ClientTypeOK
  <2>10. LiveStreamInMap'
    BY <1>5, <2>c
    DEF ReceiveFails, IInv, LiveStreamInMap, Live, ClientTypeOK
  <2>11. EndIsTold'
    BY <1>5, <2>c
    DEF ReceiveFails, IInv, EndIsTold, Verdicts, ClientTypeOK
  <2>. QED
    BY <2>1, <2>2, <2>3, <2>4, <2>5, <2>6, <2>7, <2>8, <2>9, <2>10, <2>11 DEF IInv
<1>6. ASSUME NEW n \in Ids, TransitServerStops(n)
      PROVE  IInv'
  <2>c. /\ \A m \in Ids : m # n => told'[m] = told[m]
        /\ told'[n].good + told'[n].bad > 0 /\ Live(n)
        /\ req[n].type = "transit" /\ link[n].rcv # "none"
    <3>1. /\ \A m \in Ids : m # n => told'[m] = told[m]
          /\ told'[n].good + told'[n].bad > 0
      BY <1>6, TellFacts DEF TransitServerStops
    <3>. QED
      BY <1>6, <3>1 DEF TransitServerStops, IInv, StreamThreads
  <2>1. Locks'
    BY <1>6, <2>c
    DEF TransitServerStops, IInv, Locks, Answering, Looked, ClientTypeOK
  <2>2. Unused'
    <3>1. req[n].type # None
      BY <2>c, ClientAssumption DEF AllTypes
    <3>. QED
      BY <1>6, <2>c, <3>1 DEF TransitServerStops, IInv, Unused, Untouched, Verdicts
  <2>3. AppCall'
    BY <1>6, <2>c
    DEF TransitServerStops, IInv, AppCall, Untouched, ClientTypeOK
  <2>4. AnsweredOnce'
    <3>1. ~Untouched(n) /\ ~(sip.n = n /\ sip.pc \in {"lock", "answer", "open"})
      BY <2>c DEF IInv, AnsweredOnce, CallbackSteps, Untouched
    <3>. QED
      BY <1>6, <2>c, <3>1
      DEF TransitServerStops, IInv, AnsweredOnce, Untouched, Answering, Verdicts
  <2>5. CallbackSteps'
    BY <1>6, <2>c
    DEF TransitServerStops, IInv, CallbackSteps, Answering, Untouched, Live,
        ClientTypeOK
  <2>6. StreamThreads'
    <3>1. req' = req /\ link' = link
      BY <1>6 DEF TransitServerStops
    <3>2. \A m \in Ids : Verdicts(m) > 0 => Verdicts(m)' > 0
      BY <2>c DEF Verdicts
    <3>. QED
      BY <3>1, <3>2 DEF IInv, StreamThreads, Live
  <2>7. Erased'
    BY <1>6, <2>c
    DEF TransitServerStops, IInv, Erased, Live, ClientTypeOK
  <2>8. Ended'
    BY <1>6, <2>c
    DEF TransitServerStops, IInv, Ended, Looked, ClientTypeOK
  <2>9. OneVerdict'
    BY <1>6, <2>c
    DEF TransitServerStops, IInv, OneVerdict, Verdicts, ClientTypeOK
  <2>10. LiveStreamInMap'
    BY <1>6, <2>c
    DEF TransitServerStops, IInv, LiveStreamInMap, Live, ClientTypeOK
  <2>11. EndIsTold'
    BY <1>6, <2>c
    DEF TransitServerStops, IInv, EndIsTold, Verdicts, ClientTypeOK
  <2>. QED
    BY <2>1, <2>2, <2>3, <2>4, <2>5, <2>6, <2>7, <2>8, <2>9, <2>10, <2>11 DEF IInv
<1>7. ASSUME NEW n \in Ids, WorkerTimesOut(n), Tell(n, "lost")
      PROVE  IInv'
  <2>c. \A m \in Ids : told'[m].good = told[m].good /\ told'[m].bad = told[m].bad
    BY <1>7, TellFacts DEF WorkerTimesOut
  <2>1. Locks'
    BY <1>7, <2>c
    DEF WorkerTimesOut, IInv, Locks, Answering, Looked, ClientTypeOK
  <2>2. Unused'
    BY <1>7, <2>c
    DEF WorkerTimesOut, IInv, Unused, Untouched, Verdicts, ClientTypeOK
  <2>3. AppCall'
    BY <1>7, <2>c
    DEF WorkerTimesOut, IInv, AppCall, Untouched, ClientTypeOK
  <2>4. AnsweredOnce'
    <3>1. \A m \in Ids : Verdicts(m)' = Verdicts(m) /\ Verdicts(m) \in Nat
      BY <2>c, VerdictsTyped DEF Verdicts
    <3>2. /\ \A m \in Ids : /\ Untouched(m) => Untouched(m)'
                            /\ link[m].beat = "done" => link'[m].beat = "done"
          /\ UNCHANGED <<req, sip, pending>>
      BY <1>7 DEF WorkerTimesOut, Untouched, ClientTypeOK
    <3>. QED
      BY <3>1, <3>2 DEF IInv, AnsweredOnce, Answering
  <2>5. CallbackSteps'
    BY <1>7, <2>c
    DEF WorkerTimesOut, IInv, CallbackSteps, Answering, Untouched, Live,
        ClientTypeOK
  <2>6. StreamThreads'
    BY <1>7, <2>c
    DEF WorkerTimesOut, IInv, StreamThreads, Live, Verdicts, ClientTypeOK
  <2>7. Erased'
    BY <1>7, <2>c
    DEF WorkerTimesOut, IInv, Erased, Live, ClientTypeOK
  <2>8. Ended'
    BY <1>7, <2>c
    DEF WorkerTimesOut, IInv, Ended, Looked, ClientTypeOK
  <2>9. OneVerdict'
    <3>1. \A m \in Ids : /\ link'[m].rcv = "none" => link[m].rcv = "none"
                         /\ link[m].beat = "done" => link'[m].beat = "done"
                         /\ req'[m] = req[m]
      BY <1>7 DEF WorkerTimesOut, ClientTypeOK
    <3>2. \A m \in Ids : OneVerdictOf(m)'
      BY <2>c, <3>1, VerdictsKept DEF IInv
    <3>. QED
      BY <3>2 DEF OneVerdict, OneVerdictOf
  <2>10. LiveStreamInMap'
    BY <1>7, <2>c
    DEF WorkerTimesOut, IInv, LiveStreamInMap, Live, ClientTypeOK
  <2>11. EndIsTold'
    BY <1>7, <2>c
    DEF WorkerTimesOut, IInv, EndIsTold, Verdicts, ClientTypeOK
  <2>. QED
    BY <2>1, <2>2, <2>3, <2>4, <2>5, <2>6, <2>7, <2>8, <2>9, <2>10, <2>11 DEF IInv
<1>8. ASSUME NEW n \in Ids, WorkerEnds(n)
      PROVE  IInv'
  <2>1. Locks'
    BY <1>8
    DEF WorkerEnds, IInv, Locks, Answering, Looked, ClientTypeOK
  <2>2. Unused'
    BY <1>8
    DEF WorkerEnds, IInv, Unused, Untouched, Verdicts, ClientTypeOK
  <2>3. AppCall'
    BY <1>8
    DEF WorkerEnds, IInv, AppCall, Untouched, ClientTypeOK
  <2>4. AnsweredOnce'
    <3>1. \A m \in Ids : Verdicts(m)' = Verdicts(m) /\ Verdicts(m) \in Nat
      BY <1>8, VerdictsTyped DEF WorkerEnds, Verdicts
    <3>2. /\ \A m \in Ids : /\ Untouched(m) => Untouched(m)'
                            /\ link[m].beat = "done" => link'[m].beat = "done"
          /\ UNCHANGED <<req, sip, pending>>
      BY <1>8 DEF WorkerEnds, Untouched, ClientTypeOK
    <3>. QED
      BY <3>1, <3>2 DEF IInv, AnsweredOnce, Answering
  <2>5. CallbackSteps'
    BY <1>8
    DEF WorkerEnds, IInv, CallbackSteps, Answering, Untouched, Live,
        ClientTypeOK
  <2>6. StreamThreads'
    BY <1>8
    DEF WorkerEnds, IInv, StreamThreads, Live, Verdicts, ClientTypeOK
  <2>7. Erased'
    BY <1>8
    DEF WorkerEnds, IInv, Erased, Live, ClientTypeOK
  <2>8. Ended'
    BY <1>8
    DEF WorkerEnds, IInv, Ended, Looked, ClientTypeOK
  <2>9. OneVerdict'
    <3>1. \A m \in Ids : /\ link'[m].rcv = "none" => link[m].rcv = "none"
                         /\ link[m].beat = "done" => link'[m].beat = "done"
                         /\ req'[m] = req[m] /\ told'[m] = told[m]
      BY <1>8 DEF WorkerEnds, ClientTypeOK
    <3>2. \A m \in Ids : OneVerdictOf(m)'
      BY <3>1, VerdictsKept DEF IInv
    <3>. QED
      BY <3>2 DEF OneVerdict, OneVerdictOf
  <2>10. LiveStreamInMap'
    BY <1>8
    DEF WorkerEnds, IInv, LiveStreamInMap, Live, ClientTypeOK
  <2>11. EndIsTold'
    BY <1>8
    DEF WorkerEnds, IInv, EndIsTold, Verdicts, ClientTypeOK
  <2>. QED
    BY <2>1, <2>2, <2>3, <2>4, <2>5, <2>6, <2>7, <2>8, <2>9, <2>10, <2>11 DEF IInv
<1>9. ASSUME NEW n \in Ids, NEW ok \in BOOLEAN, PlaybackAnswered(n, ok)
      PROVE  IInv'
  <2>c. /\ \A m \in Ids : m # n => told'[m] = told[m]
        /\ told'[n].good + told'[n].bad > 0 /\ Live(n)
        /\ req[n].type \in {"playback", "upnpPlayback"} /\ link[n].rcv # "none"
    <3>1. /\ \A m \in Ids : m # n => told'[m] = told[m]
          /\ told'[n].good + told'[n].bad > 0
      BY <1>9, TellFacts DEF PlaybackAnswered
    <3>. QED
      BY <1>9, <3>1 DEF PlaybackAnswered, IInv, StreamThreads
  <2>1. Locks'
    BY <1>9, <2>c
    DEF PlaybackAnswered, IInv, Locks, Answering, Looked, ClientTypeOK
  <2>2. Unused'
    BY <1>9, <2>c
    DEF PlaybackAnswered, IInv, Unused, Untouched, Verdicts, ClientTypeOK
  <2>3. AppCall'
    BY <1>9, <2>c
    DEF PlaybackAnswered, IInv, AppCall, Untouched, ClientTypeOK
  <2>4. AnsweredOnce'
    BY <1>9, <2>c
    DEF PlaybackAnswered, IInv, AnsweredOnce, Untouched, Answering, Verdicts,
        CallbackSteps, Live, ClientTypeOK
  <2>5. CallbackSteps'
    BY <1>9, <2>c
    DEF PlaybackAnswered, IInv, CallbackSteps, Answering, Untouched, Live,
        ClientTypeOK
  <2>6. StreamThreads'
    BY <1>9, <2>c
    DEF PlaybackAnswered, IInv, StreamThreads, Live, Verdicts, ClientTypeOK
  <2>7. Erased'
    BY <1>9, <2>c
    DEF PlaybackAnswered, IInv, Erased, Live, ClientTypeOK
  <2>8. Ended'
    BY <1>9, <2>c
    DEF PlaybackAnswered, IInv, Ended, Looked, ClientTypeOK
  <2>9. OneVerdict'
    BY <1>9, <2>c
    DEF PlaybackAnswered, IInv, OneVerdict, Verdicts, ClientTypeOK
  <2>10. LiveStreamInMap'
    BY <1>9, <2>c
    DEF PlaybackAnswered, IInv, LiveStreamInMap, Live, ClientTypeOK
  <2>11. EndIsTold'
    BY <1>9, <2>c
    DEF PlaybackAnswered, IInv, EndIsTold, Verdicts, ClientTypeOK
  <2>. QED
    BY <2>1, <2>2, <2>3, <2>4, <2>5, <2>6, <2>7, <2>8, <2>9, <2>10, <2>11 DEF IInv
<1>10. ASSUME NEW n \in Ids, WorkerTimesOut(n), Tell(n, "bad"),
             req[n].type \in {"upnp", "upnpPlayback"}
      PROVE  IInv'
  <2>c. /\ \A m \in Ids : m # n => told'[m] = told[m]
        /\ told'[n].good + told'[n].bad > 0
        /\ told'[n].good + told'[n].bad <= told[n].good + told[n].bad + 1
        /\ Live(n) /\ link[n].rcv # "none" /\ link[n].beat = "run"
        /\ link'[n].rcv # "none" /\ link'[n].beat = "done"
    <3>1. /\ \A m \in Ids : m # n => told'[m] = told[m]
          /\ told'[n].good + told'[n].bad > 0
          /\ told'[n].good + told'[n].bad <= told[n].good + told[n].bad + 1
      BY <1>10, TellFacts
    <3>2. Live(n) /\ link[n].rcv # "none" /\ link[n].beat = "run"
      BY <1>10 DEF WorkerTimesOut, IInv, StreamThreads
    <3>3. link'[n].rcv = link[n].rcv /\ link'[n].beat = "done"
      BY <1>10 DEF WorkerTimesOut, ClientTypeOK
    <3>. QED
      BY <3>1, <3>2, <3>3
  <2>1. Locks'
    BY <1>10, <2>c
    DEF WorkerTimesOut, IInv, Locks, Answering, Looked, ClientTypeOK
  <2>2. Unused'
    BY <1>10, <2>c
    DEF WorkerTimesOut, IInv, Unused, Untouched, Verdicts, ClientTypeOK
  <2>3. AppCall'
    BY <1>10, <2>c
    DEF WorkerTimesOut, IInv, AppCall, Untouched, ClientTypeOK
  <2>4. AnsweredOnce'
    <3>1. ~Untouched(n) /\ ~(sip.n = n /\ sip.pc \in {"lock", "answer", "open"})
      BY <2>c DEF IInv, AnsweredOnce, CallbackSteps, Untouched
    <3>2. UNCHANGED <<req, sip, pending>> /\ link'[n].beat = "done"
      BY <1>10, <2>c DEF WorkerTimesOut
    <3>3. \A m \in Ids : m # n => link'[m] = link[m] /\ told'[m] = told[m]
      BY <1>10, <2>c DEF WorkerTimesOut, ClientTypeOK
    <3>4. PICK v \in Nat, w \in Nat :
              v = told[n].good + told[n].bad /\ w = told'[n].good + told'[n].bad
      <4>1. told' \in [Ids -> Reports] /\ told[n].good + told[n].bad \in Nat
        BY <1>10, TellFacts, VerdictsTyped
      <4>2. told'[n].good + told'[n].bad \in Nat
        BY <4>1 DEF Reports
      <4>. QED
        BY <4>1, <4>2
    <3>5. sip.n = n /\ sip.pc = "opened" /\ req[n].type = "upnp" => w <= 1
      <4>1. sip.n = n /\ sip.pc = "opened" /\ req[n].type = "upnp" => v <= 0
        BY <2>c, <3>4 DEF IInv, AnsweredOnce, Verdicts
      <4>. QED
        BY <2>c, <3>4, <4>1
    <3>6. ASSUME NEW m \in Ids, m # n
          PROVE  (Untouched(m) <=> Untouched(m)') /\ Verdicts(m)' = Verdicts(m)
                 /\ link'[m].beat = link[m].beat
      BY <3>2, <3>3, <3>6 DEF Untouched, Verdicts
    <3>. QED
      BY <1>10, <3>1, <3>2, <3>4, <3>5, <3>6
      DEF IInv, AnsweredOnce, Answering, Verdicts
  <2>5. CallbackSteps'
    BY <1>10, <2>c
    DEF WorkerTimesOut, IInv, CallbackSteps, Answering, Untouched, Live,
        ClientTypeOK
  <2>6. StreamThreads'
    BY <1>10, <2>c
    DEF WorkerTimesOut, IInv, StreamThreads, Live, Verdicts, ClientTypeOK
  <2>7. Erased'
    BY <1>10, <2>c
    DEF WorkerTimesOut, IInv, Erased, Live, ClientTypeOK
  <2>8. Ended'
    BY <1>10, <2>c
    DEF WorkerTimesOut, IInv, Ended, Looked, ClientTypeOK
  <2>9. OneVerdict'
    <3>1. \A m \in Ids : /\ req'[m] = req[m]
                         /\ m # n => link'[m] = link[m] /\ told'[m] = told[m]
      BY <1>10, <2>c DEF WorkerTimesOut, ClientTypeOK
    <3>2. ASSUME NEW m \in Ids, m # n PROVE OneVerdictOf(m)'
      BY <3>1, <3>2, VerdictsKept DEF IInv
    <3>3. OneVerdictOf(n)'
      <4>1. PICK v \in Nat : v = told[n].good + told[n].bad
        BY VerdictsTyped
      <4>2. told' \in [Ids -> Reports]
        BY <1>10, TellFacts
      <4>3. PICK w \in Nat : w = told'[n].good + told'[n].bad
        BY <4>2 DEF Reports
      <4>4. req[n].type = "upnp" => v <= 1
        BY <2>c, <4>1 DEF IInv, OneVerdict, Verdicts
      <4>5. w <= v + 1
        BY <2>c, <4>1, <4>3
      <4>6. req'[n].type = req[n].type /\ req[n].type \notin {"p2p", "query"}
        BY <1>10, <3>1
      <4>. QED
        BY <2>c, <4>3, <4>4, <4>5, <4>6 DEF OneVerdictOf, Verdicts
    <3>4. \A m \in Ids : OneVerdictOf(m)'
      BY <3>2, <3>3
    <3>. QED
      BY <3>4 DEF OneVerdict, OneVerdictOf
  <2>10. LiveStreamInMap'
    BY <1>10, <2>c
    DEF WorkerTimesOut, IInv, LiveStreamInMap, Live, ClientTypeOK
  <2>11. EndIsTold'
    BY <1>10, <2>c
    DEF WorkerTimesOut, IInv, EndIsTold, Verdicts, ClientTypeOK
  <2>. QED
    BY <2>1, <2>2, <2>3, <2>4, <2>5, <2>6, <2>7, <2>8, <2>9, <2>10, <2>11 DEF IInv
<1>11. ASSUME NEW n \in Ids, WorkerTimesOut(n)
       PROVE  IInv'
  BY <1>7, <1>10, <1>11 DEF WorkerTimesOut
<1>. QED
  BY <1>1, <1>2, <1>3, <1>4, <1>5, <1>6, <1>8, <1>9, <1>11 DEF Streams
-----------------------------------------------------------------------------
(* What is over stays over.                                                *)

\* No thread is still at work on a request that is over.
LEMMA OverIsLeft ==
    ASSUME ClientTypeOK, IInv, NEW m \in Ids, Over(m)
    PROVE  /\ req[m].status \notin {"new", "requesting", "registering", "connected"}
           /\ req[m].stream # "open" /\ ~Answering(m)
           /\ link[m].rcv \notin {"run", "ack"} /\ link[m].beat # "run"
BY DEF Over, IInv, CallbackSteps, StreamThreads, Live

\* A report for another request leaves this one's alone.
LEMMA ToldOther ==
    ASSUME ClientTypeOK, NEW n \in Ids, NEW m \in Ids, m # n,
           NEW kind \in {"good", "bad", "lost"}, Tell(n, kind)
    PROVE  told'[m] = told[m]
BY TellFacts

LEMMA OverStep ==
    ASSUME ClientTypeOK, IInv, [Next]_vars, NEW m \in Ids, Over(m)
    PROVE  Over(m)' /\ told'[m] = told[m]
<1>0. /\ req[m].status \in {"canceled", "timeout", "invalid", "complete"}
      /\ req[m].stream # "open" /\ ~Answering(m)
      /\ link[m].rcv \notin {"run", "ack"} /\ link[m].beat # "run"
  BY OverIsLeft DEF Over
<1>1. ASSUME NEW t \in Types, Ask(t)
      PROVE  Over(m)' /\ told'[m] = told[m]
  BY <1>1, <1>0, ClientAssumption DEF Ask, ClientTypeOK, IInv, Unused, Over, Live, Ids
<1>2. CASE AddRequest
  BY <1>2, <1>0 DEF AddRequest, Over, Live
<1>3. CASE Send
  BY <1>3, <1>0 DEF Send, Over, Live
<1>4. CASE StopRealPlay
  BY <1>4, <1>0 DEF StopRealPlay, Over, Live
<1>5. CASE StopFindsRequest
  BY <1>5, <1>0 DEF StopFindsRequest, Over, Live
<1>6. CASE Delete
  BY <1>6, <1>0 DEF Delete, Over, Live
<1>7. CASE StopLocksRequest
  BY <1>7, <1>0 DEF StopLocksRequest, IInv, Locks, ClientTypeOK, Over, Live
<1>8. CASE StopEnds
  BY <1>8, <1>0 DEF StopEnds, IInv, Locks, ClientTypeOK, Over, Live
<1>9. ASSUME NEW n \in Ids, Callback(n)
      PROVE  Over(m)' /\ told'[m] = told[m]
  <2>1. told' = told /\ link' = link
    BY <1>9 DEF Callback
  <2>2. req'[m].stream = req[m].stream /\ req'[m].status \in {"invalid", req[m].status}
    <3>1. CASE n = client.reqid
      BY <1>9, <3>1 DEF Callback
    <3>2. CASE n # client.reqid
      <4>1. req' = [req EXCEPT ![n].status = "invalid"]
        BY <1>9, <3>2 DEF Callback, SetStatus
      <4>2. req'[m] = IF m = n THEN [req[n] EXCEPT !.status = "invalid"] ELSE req[m]
        BY <4>1, Records
      <4>. QED
        BY <4>2, Records DEF ReqRec
    <3>. QED
      BY <3>1, <3>2
  <2>3. req'[m].stream # "open"
    BY <1>0, <2>2
  <2>. QED
    BY <1>0, <2>1, <2>2, <2>3 DEF Over, Live
<1>10. CASE CallbackLocks
  BY <1>10, <1>0 DEF CallbackLocks, SetStatus, IInv, Locks, ClientTypeOK, Over, Live
<1>11. CASE CallbackRefused
  <2>1. sip.n \in Ids /\ m # sip.n
    BY <1>11, <1>0 DEF CallbackRefused, IInv, Locks, Answering
  <2>2. told'[m] = told[m]
    BY <1>11, <2>1, ToldOther DEF CallbackRefused
  <2>. QED
    BY <1>11, <1>0, <2>1, <2>2 DEF CallbackRefused, Return, ClientTypeOK, Over, Live
<1>12. CASE CallbackQueried
  <2>1. sip.n \in Ids /\ m # sip.n
    BY <1>12, <1>0 DEF CallbackQueried, IInv, Locks, Answering
  <2>2. told'[m] = told[m]
    BY <1>12, <2>1, ToldOther DEF CallbackQueried
  <2>. QED
    BY <1>12, <1>0, <2>1, <2>2 DEF CallbackQueried, Return, ClientTypeOK, Over, Live
<1>13. CASE CallbackNewStream
  <2>1. sip.n \in Ids /\ m # sip.n
    BY <1>13, <1>0 DEF CallbackNewStream, IInv, Locks, Answering
  <2>. QED
    BY <1>13, <1>0, <2>1 DEF CallbackNewStream, ClientTypeOK, Over, Live
<1>14. CASE OpenStreamFails
  <2>1. sip.n \in Ids /\ m # sip.n
    BY <1>14, <1>0 DEF OpenStreamFails, IInv, Locks, Answering
  <2>2. told'[m] = told[m]
    BY <1>14, <2>1, ToldOther DEF OpenStreamFails
  <2>. QED
    BY <1>14, <1>0, <2>1, <2>2 DEF OpenStreamFails, Return, ClientTypeOK, Over, Live
<1>15. CASE OpenStream
  <2>1. sip.n \in Ids /\ m # sip.n
    BY <1>15, <1>0 DEF OpenStream, IInv, Locks, Answering
  <2>. QED
    BY <1>15, <1>0, <2>1 DEF OpenStream, ClientTypeOK, Over, Live
<1>16. CASE Connected
  <2>1. sip.n \in Ids /\ m # sip.n
    BY <1>16, <1>0 DEF Connected, IInv, Locks, Answering
  <2>2. told'[m] = told[m]
    BY <1>16, <2>1, ToldOther DEF Connected
  <2>. QED
    BY <1>16, <1>0, <2>1, <2>2 DEF Connected, Return, ClientTypeOK, Over, Live
<1>17. CASE LoginSent
  <2>1. sip.n \in Ids /\ m # sip.n
    BY <1>17, <1>0 DEF LoginSent, IInv, Locks, Answering
  <2>. QED
    BY <1>17, <1>0, <2>1 DEF LoginSent, ClientTypeOK, Over, Live
<1>18. CASE LoginNotSent
  <2>1. sip.n \in Ids /\ m # sip.n
    BY <1>18, <1>0 DEF LoginNotSent, IInv, Locks, Answering
  <2>2. told'[m] = told[m]
    BY <1>18, <2>1, ToldOther DEF LoginNotSent
  <2>. QED
    BY <1>18, <1>0, <2>1, <2>2 DEF LoginNotSent, Return, ClientTypeOK, Over, Live
<1>19. CASE Registering
  <2>1. sip.n \in Ids /\ m # sip.n
    BY <1>19, <1>0 DEF Registering, IInv, Locks, Answering
  <2>. QED
    BY <1>19, <1>0, <2>1 DEF Registering, Return, ClientTypeOK, Over, Live
<1>20. CASE CheckBegins
  BY <1>20, <1>0 DEF CheckBegins, Over, Live
<1>21. CASE CheckEnds
  BY <1>21, <1>0 DEF CheckEnds, Over, Live
<1>22. CASE ClearRequest
  BY <1>22, <1>0 DEF ClearRequest, Over, Live
<1>23. CASE CheckCanceled
  BY <1>23, <1>0 DEF CheckCanceled, Over, Live
<1>24. CASE CheckLocks
  <2>1. Looked \in Ids
    BY <1>24, LookedFacts DEF CheckLocks, IInv, Locks
  <2>. QED
    BY <1>24, <1>0, <2>1 DEF CheckLocks, ClientTypeOK, Over, Live
<1>25. CASE CheckPasses
  <2>1. Looked \in Ids
    BY <1>25, LookedFacts DEF CheckPasses, IInv, Locks
  <2>. QED
    BY <1>25, <1>0, <2>1 DEF CheckPasses, LeaveRequest, ClientTypeOK, Over, Live
<1>26. CASE CheckCloses
  <2>1. Looked \in Ids
    BY <1>26, LookedFacts DEF CheckCloses, IInv, Locks
  <2>. QED
    BY <1>26, <1>0, <2>1 DEF CheckCloses, LeaveRequest, ClientTypeOK, Over, Live
<1>27. CASE RequestExpires
  <2>1. Looked \in Ids /\ m # Looked
    BY <1>27, <1>0, LookedFacts DEF RequestExpires, IInv, Locks
  <2>2. told'[m] = told[m]
    BY <1>27, <2>1, ToldOther DEF RequestExpires, TellIf
  <2>3. req'[m] = req[m]
    BY <1>27, <2>1 DEF RequestExpires, LeaveRequest, ClientTypeOK
  <2>. QED
    BY <1>0, <2>2, <2>3 DEF Over, Live
<1>28. CASE RegisterExpires
  <2>1. Looked \in Ids /\ m # Looked
    BY <1>28, <1>0, LookedFacts DEF RegisterExpires, IInv, Locks
  <2>2. told'[m] = told[m]
    BY <1>28, <2>1, ToldOther DEF RegisterExpires
  <2>3. req'[m] = req[m]
    BY <1>28, <2>1 DEF RegisterExpires, LeaveRequest, ClientTypeOK
  <2>. QED
    BY <1>0, <2>2, <2>3 DEF Over, Live
<1>29. ASSUME NEW n \in Ids, NEW ok \in BOOLEAN, LoginAnswered(n, ok)
      PROVE  Over(m)' /\ told'[m] = told[m]
  <2>1. m # n
    BY <1>29, <1>0 DEF LoginAnswered, IInv, StreamThreads, Live
  <2>2. told'[m] = told[m]
    BY <1>29, <2>1, ToldOther DEF LoginAnswered
  <2>. QED
    BY <1>29, <1>0, <2>1, <2>2 DEF LoginAnswered, Over, Live
<1>30. ASSUME NEW n \in Ids, LoginSettled(n)
      PROVE  Over(m)' /\ told'[m] = told[m]
  <2>1. m # n
    BY <1>30, <1>0 DEF LoginSettled
  <2>. QED
    BY <1>30, <1>0, <2>1 DEF LoginSettled, SetStatus, ClientTypeOK, Over, Live
<1>31. ASSUME NEW n \in Ids, ReceiveFails(n)
      PROVE  Over(m)' /\ told'[m] = told[m]
  <2>1. m # n
    BY <1>31, <1>0 DEF ReceiveFails, IInv, StreamThreads, Live
  <2>2. told'[m] = told[m]
    BY <1>31, <2>1, ToldOther DEF ReceiveFails, TellIf
  <2>. QED
    BY <1>31, <1>0, <2>1, <2>2 DEF ReceiveFails, Over, Live
<1>32. ASSUME NEW n \in Ids, TransitServerStops(n)
      PROVE  Over(m)' /\ told'[m] = told[m]
  <2>1. m # n
    BY <1>32, <1>0 DEF TransitServerStops, IInv, StreamThreads, Live
  <2>2. told'[m] = told[m]
    BY <1>32, <2>1, ToldOther DEF TransitServerStops
  <2>. QED
    BY <1>32, <1>0, <2>1, <2>2 DEF TransitServerStops, Over, Live
<1>33. ASSUME NEW n \in Ids, WorkerTimesOut(n)
      PROVE  Over(m)' /\ told'[m] = told[m]
  <2>1. m # n
    BY <1>33, <1>0 DEF WorkerTimesOut, IInv, StreamThreads, Live
  <2>2. told'[m] = told[m]
    BY <1>33, <2>1, ToldOther DEF WorkerTimesOut
  <2>. QED
    BY <1>33, <1>0, <2>1, <2>2 DEF WorkerTimesOut, Over, Live
<1>34. ASSUME NEW n \in Ids, WorkerEnds(n)
      PROVE  Over(m)' /\ told'[m] = told[m]
  BY <1>34, <1>0 DEF WorkerEnds, Over, Live
<1>36. ASSUME NEW n \in Ids, NEW ok \in BOOLEAN, PlaybackAnswered(n, ok)
      PROVE  Over(m)' /\ told'[m] = told[m]
  <2>1. m # n
    BY <1>36, <1>0 DEF PlaybackAnswered, IInv, StreamThreads, Live
  <2>2. told'[m] = told[m]
    BY <1>36, <2>1, ToldOther DEF PlaybackAnswered
  <2>. QED
    BY <1>36, <1>0, <2>1, <2>2 DEF PlaybackAnswered, Over, Live
<1>35. CASE UNCHANGED vars
  BY <1>35, <1>0 DEF vars, Over, Live
<1>. QED
  BY <1>1, <1>2, <1>3, <1>4, <1>5, <1>6, <1>7, <1>8, <1>9, <1>10, <1>11,
     <1>12, <1>13, <1>14, <1>15, <1>16, <1>17, <1>18, <1>19, <1>20, <1>21,
     <1>22, <1>23, <1>24, <1>25, <1>26, <1>27, <1>28, <1>29, <1>30, <1>31,
     <1>32, <1>33, <1>34, <1>35, <1>36
  DEF Next, App, Sip, SipReturns, Checks, Streams

-----------------------------------------------------------------------------
(* The theorems.                                                           *)

LEMMA InitInv == Init => IInv
<1>. SUFFICES ASSUME Init PROVE IInv
  OBVIOUS
<1>1. Locks
  BY ClientAssumption DEF Init, Locks, Answering, Ids
<1>2. Unused /\ AppCall /\ AnsweredOnce /\ CallbackSteps
  BY ClientAssumption
  DEF Init, Unused, AppCall, AnsweredOnce, CallbackSteps, Untouched, Verdicts,
      Answering, Ids
<1>3. StreamThreads /\ Erased /\ Ended
  BY DEF Init, StreamThreads, Erased, Ended, Live, Ids
<1>4. OneVerdict /\ LiveStreamInMap /\ EndIsTold
  BY DEF Init, OneVerdict, LiveStreamInMap, EndIsTold, Verdicts, Live, Ids
<1>. QED
  BY <1>1, <1>2, <1>3, <1>4 DEF IInv

LEMMA NextInv ==
    ASSUME ClientTypeOK, IInv, [Next]_vars
    PROVE  ClientTypeOK' /\ IInv'
<1>1. CASE App
  BY <1>1, AppType, AppInv DEF IInv
<1>2. CASE Sip
  BY <1>2, SipType, SipInv DEF IInv
<1>3. CASE Checks
  BY <1>3, ChecksType, ChecksInv DEF IInv
<1>4. CASE Streams
  BY <1>4, StreamsType, StreamsInv
<1>5. CASE UNCHANGED vars
  <2>1. ClientTypeOK'
    BY <1>5 DEF vars, ClientTypeOK
  <2>2. Locks'
    BY <1>5 DEF vars, IInv, Locks, Answering, Looked
  <2>3. Unused' /\ AppCall' /\ AnsweredOnce' /\ CallbackSteps'
    BY <1>5 DEF vars, IInv, Unused, AppCall, AnsweredOnce, CallbackSteps,
       Untouched, Verdicts, Answering, Live
  <2>4. StreamThreads' /\ Erased' /\ Ended'
    BY <1>5 DEF vars, IInv, StreamThreads, Erased, Ended, Live, Verdicts, Looked
  <2>5. OneVerdict' /\ LiveStreamInMap' /\ EndIsTold'
    BY <1>5 DEF vars, IInv, OneVerdict, LiveStreamInMap, EndIsTold, Verdicts, Live
  <2>. QED
    BY <2>1, <2>2, <2>3, <2>4, <2>5 DEF IInv
<1>. QED
  BY <1>1, <1>2, <1>3, <1>4, <1>5 DEF Next

\* Whatever the interleaving of the application, the SIP thread, the client's
\* own thread and the threads of the streams, the locks, the answer a request
\* still waits for, the threads of its stream, its place in m_rp and what was
\* reported of it fit together (P2PClient.cpp, Stream.cpp).
THEOREM InvariantHolds == Spec => [](ClientTypeOK /\ IInv)
<1>. QED
  BY InitType, InitInv, NextInv, PTL DEF Spec

\* Every variable has its type in every reachable state.
THEOREM TypeCorrect == Spec => []ClientTypeOK
<1>. QED
  BY InvariantHolds, PTL

\* The application is given one verdict per request, whichever of the callback,
\* the timeout and a stop takes m_lock_req first (upnp_cb, p2p_cb, CheckRequest).
\* A UPnP play hears a second one when its worker finds the data late
\* (NotifyStreamTimeout); of playbacks and transit plays this is said until
\* their stream is opened, for ParseCmd reports their later answers unlocked.
THEOREM OneVerdictPerRequest == Spec => []OneVerdict
<1>1. IInv => OneVerdict
  BY DEF IInv
<1>. QED
  BY <1>1, InvariantHolds, PTL

\* A stream that runs is still in m_rp, where the threads that close streams
\* look for it, unless its login was refused or not sent (ClearRequest,
\* CheckRequest) or the client itself is deleted (~CP2PClient).
THEOREM LiveStreamsFound == Spec => []LiveStreamInMap
<1>1. IInv => LiveStreamInMap
  BY DEF IInv
<1>. QED
  BY <1>1, InvariantHolds, PTL

\* When the newest request has ended, the application has been told.
THEOREM EndOfNewestTold == Spec => []EndIsTold
<1>1. IInv => EndIsTold
  BY DEF IInv
<1>. QED
  BY <1>1, InvariantHolds, PTL

\* A request that was stopped, timed out, superseded or refused is never
\* revived, and nothing more is reported for it.
THEOREM OverStaysOver == Spec => OverIsOver
<1>1. ClientTypeOK /\ IInv /\ [Next]_vars
        => [\A n \in Ids : Over(n) => Over(n)' /\ told'[n] = told[n]]_vars
  BY OverStep
<1>. QED
  BY <1>1, InvariantHolds, PTL DEF Spec, OverIsOver

=============================================================================
