---------------------------- MODULE UdtStream_proofs ----------------------------
(* Proofs about UdtStream, for any number of frames, of slices in a frame, *)
(* and of requests.                                                        *)
EXTENDS UdtStream, TLAPS

-----------------------------------------------------------------------------
(* The inductive invariant.                                                *)

Total == Frames * Slices
Data == {Slice(k) : k \in 1 .. Total}
Messages == Data \cup {Ack(kind) : kind \in Kinds}

\* What is on the way, and what was collected, are sequences.
Buffers == frame \in Seq(Data) /\ up \in Seq(Kinds) /\ down \in Seq(Messages)

\* The connection keeps the order: at[i] slices were sent before or as the i-th
\* message on its way to the client, seen before the first of them.
Ordered(at) ==
    /\ at \in [0 .. Len(down) -> 0 .. device.sent]
    /\ at[0] = seen
    /\ at[Len(down)] = device.sent
    /\ \A i \in 1 .. Len(down) :
        \/ at[i] = at[i - 1] + 1 /\ down[i] = Slice(at[i])
        \/ at[i] = at[i - 1] /\ \E kind \in Kinds : down[i] = Ack(kind)

Position == \E at : Ordered(at)

\* The last k of the first r slices.
LastOf(r, k) == [i \in 1 .. k |-> Slice(r - k + i)]

\* The buffer holds the last k slices that have come, all of the current frame.
\* When it lacks the first ones, a pending change has thrown them away; once its
\* clock is off the frame is torn, and this cut has not been paid for yet.
Collected ==
    /\ tails <= cuts
    /\ \E k \in 0 .. seen % Slices :
         /\ frame = LastOf(seen, k)
         /\ clock.change \/ k = seen % Slices \/ tails < cuts

-----------------------------------------------------------------------------
(* Counting slices and frames.                                             *)

LEMMA TotalType == Total \in Nat
BY StreamAssumption DEF Total

LEMMA ModFacts ==
    ASSUME NEW r \in Nat
    PROVE  /\ r % Slices \in 0 .. Slices - 1
           /\ r \div Slices \in Nat
           /\ r = (r \div Slices) * Slices + (r % Slices)
BY StreamAssumption

\* A number has one quotient and one remainder.
LEMMA ModUnique ==
    ASSUME NEW r \in Nat, NEW q \in Nat, NEW k \in 0 .. Slices - 1, r = q * Slices + k
    PROVE  r % Slices = k
<1>. DEFINE p == r \div Slices
            m == r % Slices
<1>1. p \in Nat /\ m \in 0 .. Slices - 1 /\ p * Slices + m = q * Slices + k
  BY ModFacts
<1>2. Slices \in Nat \ {0}
  BY StreamAssumption
<1>. HIDE DEF p, m
<1>3. ~(p < q)
  <2>1. ASSUME p < q PROVE FALSE
    <3>1. (p + 1) * Slices <= q * Slices
      BY <1>1, <1>2, <2>1
    <3>2. (p + 1) * Slices = p * Slices + Slices
      BY <1>1, <1>2
    <3>. QED
      BY <1>1, <1>2, <3>1, <3>2
  <2>. QED
    BY <2>1
<1>4. ~(q < p)
  <2>1. ASSUME q < p PROVE FALSE
    <3>1. (q + 1) * Slices <= p * Slices
      BY <1>1, <1>2, <2>1
    <3>2. (q + 1) * Slices = q * Slices + Slices
      BY <1>1, <1>2
    <3>. QED
      BY <1>1, <1>2, <3>1, <3>2
  <2>. QED
    BY <2>1
<1>5. p = q
  BY <1>1, <1>3, <1>4
<1>6. m = k
  BY <1>1, <1>2, <1>5
<1>. QED
  BY <1>6 DEF m

\* The slice after the r-th goes on with the frame or begins the next.
LEMMA ModNext ==
    ASSUME NEW r \in Nat
    PROVE  (r + 1) % Slices = IF (r % Slices) + 1 = Slices THEN 0 ELSE (r % Slices) + 1
<1>. DEFINE p == r \div Slices
            m == r % Slices
<1>1. p \in Nat /\ m \in 0 .. Slices - 1 /\ r = p * Slices + m
  BY ModFacts
<1>2. Slices \in Nat \ {0}
  BY StreamAssumption
<1>. HIDE DEF p, m
<1>3. CASE m + 1 = Slices
  <2>1. r + 1 = (p + 1) * Slices + 0
    BY <1>1, <1>2, <1>3
  <2>2. (r + 1) % Slices = 0
    BY <1>1, <1>2, <2>1, ModUnique
  <2>. QED
    BY <1>3, <2>2 DEF m
<1>4. CASE m + 1 # Slices
  <2>1. r + 1 = p * Slices + (m + 1) /\ m + 1 \in 0 .. Slices - 1
    BY <1>1, <1>2, <1>4
  <2>2. (r + 1) % Slices = m + 1
    BY <1>1, <2>1, ModUnique
  <2>. QED
    BY <1>4, <2>2 DEF m
<1>. QED
  BY <1>3, <1>4

\* One more slice.
LEMMA NextLast ==
    ASSUME NEW r \in Nat, NEW k \in Nat
    PROVE  Append(LastOf(r, k), Slice(r + 1)) = LastOf(r + 1, k + 1)
<1>1. r + 1 - (k + 1) = r - k /\ r - k + (k + 1) = r + 1
  OBVIOUS
<1>2. LastOf(r + 1, k + 1) = [i \in 1 .. k + 1 |-> Slice(r - k + i)]
  BY <1>1 DEF LastOf
<1>3. LastOf(r, k) = [i \in 1 .. k |-> Slice(r - k + i)]
  BY DEF LastOf
<1>. QED
  BY <1>1, <1>2, <1>3

\* With its last slice the buffer holds the end of a frame.
LEMMA LastSlice ==
    ASSUME NEW r \in Nat, r + 1 <= Total, (r % Slices) + 1 = Slices,
           NEW k \in 0 .. r % Slices
    PROVE  FrameEnd(Append(LastOf(r, k), Slice(r + 1)), k + 1)
<1>. DEFINE p == r \div Slices
            m == r % Slices
<1>1. p \in Nat /\ m \in 0 .. Slices - 1 /\ r = p * Slices + m
  BY ModFacts
<1>2. Slices \in Nat \ {0} /\ Frames \in Nat \ {0} /\ m + 1 = Slices /\ k \in 0 .. m
  BY StreamAssumption
<1>. HIDE DEF p, m
<1>3. (p + 1) * Slices = p * Slices + Slices /\ p * Slices \in Int
  BY <1>1, <1>2
<1>4. (p + 1) * Slices = r + 1
  BY <1>1, <1>2, <1>3
<1>5. p + 1 \in 1 .. Frames
  <2>1. ASSUME Frames <= p PROVE FALSE
    <3>1. Frames * Slices <= p * Slices
      BY <1>1, <1>2, <2>1
    <3>. QED
      BY <1>1, <1>2, <1>3, <3>1 DEF Total
  <2>. QED
    BY <1>1, <1>2, <2>1
<1>6. Append(LastOf(r, k), Slice(r + 1)) = LastOf(r + 1, k + 1)
  <2>1. k \in Nat
    BY <1>1, <1>2
  <2>. QED
    BY <2>1, NextLast
<1>7. LastOf(r + 1, k + 1) = [i \in 1 .. k + 1 |-> Slice((p + 1) * Slices - (k + 1) + i)]
  BY <1>4 DEF LastOf
<1>. QED
  BY <1>5, <1>6, <1>7 DEF FrameEnd

-----------------------------------------------------------------------------
(* What the connection carries.                                            *)

LEMMA MessageKinds ==
    /\ \A k : /\ Slice(k).kind = "data" /\ Ack(k).kind = k
              /\ Slice(k).slice = ((k - 1) % Slices) + 1
    /\ "data" \notin Kinds /\ "lost" \notin Kinds
BY DEF Slice, Ack, Kinds

\* The slice that arrives next follows what the buffer was built from.
LEMMA NextSlice ==
    ASSUME NEW at, Ordered(at), Buffers, down # <<>>, Head(down).kind = "data",
           device.sent \in Nat, device.sent <= Total
    PROVE  /\ seen \in Nat /\ seen + 1 <= Total
           /\ at[1] = seen + 1 /\ Head(down) = Slice(seen + 1)
           /\ Head(down).slice = (seen % Slices) + 1
<1>1. Len(down) \in Nat \ {0} /\ Head(down) = down[1] /\ 1 \in 1 .. Len(down)
  BY DEF Buffers
<1>2. at \in [0 .. Len(down) -> 0 .. device.sent] /\ at[0] = seen
  BY DEF Ordered
<1>3. at[1] = seen + 1 /\ down[1] = Slice(at[1])
  <2>1. \/ at[1] = at[0] + 1 /\ down[1] = Slice(at[1])
        \/ \E kind \in Kinds : down[1] = Ack(kind)
    BY <1>1 DEF Ordered
  <2>. QED
    BY <1>1, <1>2, <2>1, MessageKinds
<1>4. seen \in Nat /\ at[1] \in Nat
  BY <1>1, <1>2
<1>5. at[1] <= Total
  BY <1>1, <1>2, TotalType
<1>6. (seen + 1) - 1 = seen
  BY <1>4
<1>. QED
  BY <1>1, <1>3, <1>4, <1>5, <1>6, MessageKinds

\* A message is put on its way.
LEMMA PositionSent ==
    ASSUME Position, Buffers, NEW m, down' = Append(down, m),
           seen' = seen, device.sent \in Nat,
           \/ m = Slice(device.sent + 1) /\ device'.sent = device.sent + 1
           \/ (\E kind \in Kinds : m = Ack(kind)) /\ device'.sent = device.sent
    PROVE  Position'
<1>1. PICK at : Ordered(at)
  BY DEF Position
<1>2. PICK k \in Nat : k = Len(down) /\ down \in Seq(Messages)
  BY DEF Buffers
<1>3. Len(down') = k + 1 /\ down'[k + 1] = m /\ \A i \in 1 .. k : down'[i] = down[i]
  BY <1>2
<1>4. at \in [0 .. k -> 0 .. device.sent] /\ at[k] = device.sent
  BY <1>1, <1>2 DEF Ordered
<1>5. PICK new \in [0 .. k + 1 -> 0 .. device'.sent] :
          /\ new[0] = at[0] /\ new[k] = at[k] /\ new[k + 1] = device'.sent
          /\ \A i \in 1 .. k : new[i] = at[i] /\ new[i - 1] = at[i - 1]
  <2>. DEFINE new == [i \in 0 .. k + 1 |-> IF i <= k THEN at[i] ELSE device'.sent]
  <2>1. new \in [0 .. k + 1 -> 0 .. device'.sent]
    BY <1>2, <1>4
  <2>2. /\ new[0] = at[0] /\ new[k] = at[k] /\ new[k + 1] = device'.sent
        /\ \A i \in 1 .. k : new[i] = at[i] /\ new[i - 1] = at[i - 1]
    BY <1>2
  <2>. QED
    BY <2>1, <2>2
<1>6. ASSUME NEW i \in 1 .. k + 1
      PROVE  \/ new[i] = new[i - 1] + 1 /\ down'[i] = Slice(new[i])
             \/ new[i] = new[i - 1] /\ \E kind \in Kinds : down'[i] = Ack(kind)
  <2>1. CASE i \in 1 .. k
    <3>1. \/ at[i] = at[i - 1] + 1 /\ down[i] = Slice(at[i])
          \/ at[i] = at[i - 1] /\ \E kind \in Kinds : down[i] = Ack(kind)
      BY <1>1, <1>2, <2>1 DEF Ordered
    <3>. QED
      BY <1>3, <1>5, <2>1, <3>1
  <2>2. CASE i = k + 1
    BY <1>2, <1>3, <1>4, <1>5, <2>2
  <2>. QED
    BY <1>2, <2>1, <2>2
<1>7. new[0] = seen'
  BY <1>1, <1>5 DEF Ordered
<1>8. Ordered(new)'
  BY <1>3, <1>5, <1>6, <1>7 DEF Ordered
<1>. QED
  BY <1>8 DEF Position

\* The client takes the first message.
LEMMA PositionTaken ==
    ASSUME NEW at, Ordered(at), Buffers, down # <<>>, down' = Tail(down),
           device' = device, seen' = at[1]
    PROVE  Position'
<1>1. PICK k \in Nat \ {0} : k = Len(down) /\ down \in Seq(Messages)
  BY DEF Buffers
<1>2. Len(down') = k - 1 /\ \A i \in 1 .. k - 1 : down'[i] = down[i + 1]
  BY <1>1
<1>3. at \in [0 .. k -> 0 .. device.sent] /\ at[k] = device.sent
  BY <1>1 DEF Ordered
<1>4. PICK new \in [0 .. k - 1 -> 0 .. device.sent] :
          /\ new[0] = at[1] /\ new[k - 1] = at[k]
          /\ \A i \in 1 .. k - 1 : new[i] = at[i + 1] /\ new[i - 1] = at[i]
  <2>. DEFINE new == [i \in 0 .. k - 1 |-> at[i + 1]]
  <2>1. new \in [0 .. k - 1 -> 0 .. device.sent]
    BY <1>1, <1>3
  <2>2. /\ new[0] = at[1] /\ new[k - 1] = at[k]
        /\ \A i \in 1 .. k - 1 : new[i] = at[i + 1] /\ new[i - 1] = at[i]
    BY <1>1
  <2>. QED
    BY <2>1, <2>2
<1>5. ASSUME NEW i \in 1 .. k - 1
      PROVE  \/ new[i] = new[i - 1] + 1 /\ down'[i] = Slice(new[i])
             \/ new[i] = new[i - 1] /\ \E kind \in Kinds : down'[i] = Ack(kind)
  <2>1. i + 1 \in 1 .. k /\ (i + 1) - 1 = i
    BY <1>1
  <2>2. \/ at[i + 1] = at[i] + 1 /\ down[i + 1] = Slice(at[i + 1])
        \/ at[i + 1] = at[i] /\ \E kind \in Kinds : down[i + 1] = Ack(kind)
    BY <1>1, <2>1 DEF Ordered
  <2>. QED
    BY <1>2, <1>4, <2>2
<1>6. Ordered(new)'
  BY <1>2, <1>3, <1>4, <1>5 DEF Ordered
<1>. QED
  BY <1>6 DEF Position

-----------------------------------------------------------------------------
(* The invariant is preserved.                                             *)

\* What StreamTypeOK says beside the contents of the three buffers.
Scalars ==
    /\ clock \in [Kinds -> BOOLEAN]
    /\ app \in {"idle", "joinWorker", "joinReceiver", "closed"} \cup Kinds
    /\ asks \in 0 .. MaxAsks
    /\ receiver \in {"run", "done"} /\ worker \in {"run", "done"}
    /\ socket \in [state : {"up", "broken", "closed"}, stop : BOOLEAN]
    /\ device \in [alive : BOOLEAN, sent : 0 .. Frames * Slices]
    /\ seen \in Nat /\ cuts \in Nat /\ tails \in Nat /\ mixed \in BOOLEAN
    /\ told \in [Kinds \cup {"lost"} -> BOOLEAN]

Core == Scalars /\ Buffers /\ Position /\ Collected /\ mixed = FALSE

\* The core of the invariant gives the types of the buffers.
LEMMA CoreGivesTypes == Core => StreamTypeOK
<1>. SUFFICES ASSUME Core PROVE StreamTypeOK
  OBVIOUS
<1>3. Len(frame) < Slices
  <2>1. PICK m \in 0 .. Slices - 1 : m = seen % Slices
    BY ModFacts DEF Core, Scalars
  <2>2. PICK k \in 0 .. m : frame = LastOf(seen, k)
    BY <2>1 DEF Core, Collected
  <2>3. k \in Nat /\ Len(LastOf(seen, k)) = k
    BY <2>1 DEF LastOf
  <2>. QED
    BY <2>1, <2>2, <2>3, StreamAssumption
<1>4. \A i \in DOMAIN frame : frame[i].kind = "data"
  BY MessageKinds DEF Core, Buffers, Data
<1>5. \A i \in DOMAIN down : down[i].kind \in Kinds \cup {"data"}
  BY MessageKinds DEF Core, Buffers, Messages, Data
<1>6. \A i \in DOMAIN up : up[i] \in Kinds
  BY DEF Core, Buffers
<1>. QED
  BY <1>3, <1>4, <1>5, <1>6 DEF Core, Scalars, StreamTypeOK

LEMMA InitCore == Init => Core
<1>. SUFFICES ASSUME Init PROVE Core
  OBVIOUS
<1>1. Scalars
  <2>1. told \in [Kinds \cup {"lost"} -> BOOLEAN]
    <3>1. /\ DOMAIN told = Kinds \cup {"lost"}
          /\ \A k \in Kinds \cup {"lost"} : told[k] = FALSE
      BY DEF Init, Kinds
    <3>2. told = [k \in DOMAIN told |-> told[k]]
      BY DEF Init
    <3>. QED
      BY <3>1, <3>2
  <2>3. clock \in [Kinds -> BOOLEAN]
    <3>1. DOMAIN clock = Kinds /\ \A k \in Kinds : clock[k] = FALSE
      BY DEF Init, Kinds
    <3>2. clock = [k \in DOMAIN clock |-> clock[k]]
      BY DEF Init
    <3>. QED
      BY <3>1, <3>2
  <2>2. 0 \in 0 .. Frames * Slices
    BY TotalType DEF Total
  <2>. QED
    <3>1. socket \in [state : {"up", "broken", "closed"}, stop : BOOLEAN]
      BY DEF Init
    <3>2. device \in [alive : BOOLEAN, sent : 0 .. Frames * Slices]
      BY <2>2 DEF Init
    <3>3. asks \in 0 .. MaxAsks
      BY StreamAssumption DEF Init
    <3>4. seen \in Nat /\ cuts \in Nat /\ tails \in Nat /\ mixed \in BOOLEAN
      BY DEF Init
    <3>. QED
      BY <2>1, <2>3, <3>1, <3>2, <3>3, <3>4 DEF Init, Scalars
<1>2. Buffers
  BY DEF Init, Buffers
<1>3. Position
  <2>. DEFINE at == [i \in 0 .. 0 |-> 0]
  <2>1. Ordered(at)
    BY DEF Init, Ordered
  <2>. QED
    BY <2>1 DEF Position
<1>4. Collected
  <2>1. 0 % Slices = 0
    BY StreamAssumption
  <2>2. LastOf(0, 0) = <<>>
    BY DEF LastOf
  <2>. QED
    BY <2>1, <2>2 DEF Init, Collected
<1>. QED
  BY <1>1, <1>2, <1>3, <1>4 DEF Core, Init

\* An action that leaves the buffers and the clock of a change alone, or sets it.
LEMMA BuffersKept ==
    ASSUME Core, Scalars', UNCHANGED <<frame, up, down, history>>,
           device'.sent = device.sent, clock.change => clock'.change
    PROVE  Core'
<1>1. Position'
  BY DEF Core, Position, Ordered, history
<1>2. Collected'
  BY DEF Core, Collected, LastOf, history
<1>. QED
  BY <1>1, <1>2 DEF Core, Buffers, history

\* A clock goes off: in the middle of a frame, that is a cut for what was lost.
LEMMA CollectedCut ==
    ASSUME Core, NEW kind \in Kinds, TurnOff(kind), UNCHANGED <<frame, seen, tails>>
    PROVE  Collected' /\ cuts' \in Nat /\ clock' \in [Kinds -> BOOLEAN]
<1>1. PICK m \in 0 .. Slices - 1 : m = seen % Slices
  BY ModFacts DEF Core, Scalars
<1>2. PICK k \in 0 .. m : /\ frame = LastOf(seen, k)
                          /\ clock.change \/ k = m \/ tails < cuts
  BY <1>1 DEF Core, Collected
<1>3. /\ cuts \in Nat /\ tails \in Nat /\ tails <= cuts
      /\ clock \in [Kinds -> BOOLEAN] /\ "change" \in Kinds
  BY DEF Core, Scalars, Collected, Kinds
<1>4. /\ clock' = [clock EXCEPT ![kind] = FALSE]
      /\ cuts' = cuts + IF kind = "change" /\ clock[kind] /\ m # 0 THEN 1 ELSE 0
  BY <1>1 DEF TurnOff
<1>5. clock' \in [Kinds -> BOOLEAN]
  BY <1>3, <1>4
<1>6. cuts' \in Nat /\ tails <= cuts'
  BY <1>3, <1>4
<1>7. clock'.change \/ k = m \/ tails < cuts'
  <2>1. CASE kind = "change" /\ clock.change
    <3>1. CASE m = 0
      BY <1>1, <1>2, <3>1
    <3>2. CASE m # 0
      <4>1. cuts' = cuts + 1
        BY <1>4, <2>1, <3>2
      <4>. QED
        BY <1>3, <4>1
    <3>. QED
      BY <3>1, <3>2
  <2>2. CASE ~(kind = "change" /\ clock.change)
    <3>1. clock'.change = clock.change
      BY <1>3, <1>4, <2>2
    <3>2. cuts' = cuts
      BY <1>3, <1>4, <2>2
    <3>. QED
      BY <1>2, <3>1, <3>2
  <2>. QED
    BY <2>1, <2>2
<1>8. /\ frame' = LastOf(seen', k) /\ k \in 0 .. seen' % Slices
      /\ k = m <=> k = seen' % Slices
  BY <1>1, <1>2 DEF LastOf
<1>9. clock'.change \/ k = seen' % Slices \/ tails' < cuts'
  BY <1>7, <1>8
<1>10. tails' <= cuts'
  BY <1>6
<1>11. Collected'
  BY <1>8, <1>9, <1>10 DEF Collected, LastOf
<1>. QED
  BY <1>5, <1>6, <1>11

\* The buffer takes a slice, or throws it and what it holds away.
LEMMA ReceiveDataCore ==
    ASSUME Core, ReceiveData
    PROVE  Core'
<1>1. PICK at : Ordered(at)
  BY DEF Core, Position
<1>2. /\ down # <<>> /\ Head(down).kind = "data" /\ TakeSlice(Head(down))
      /\ down' = Tail(down) /\ seen' = seen + 1
      /\ UNCHANGED <<clock, device, up, cuts>>
  BY DEF ReceiveData
<1>3. device.sent \in Nat /\ device.sent <= Total
  BY TotalType DEF Core, Scalars, Total
<1>4. PICK r \in Nat : /\ r = seen /\ at[1] = r + 1 /\ r + 1 <= Total
                       /\ Head(down) = Slice(r + 1)
                       /\ Head(down).slice = (r % Slices) + 1
  BY <1>1, <1>2, <1>3, NextSlice DEF Core
<1>5. PICK m \in 0 .. Slices - 1 : m = r % Slices
  BY ModFacts
<1>6. (r + 1) % Slices = IF m + 1 = Slices THEN 0 ELSE m + 1
  BY <1>5, ModNext
<1>7. PICK k \in 0 .. m : /\ frame = LastOf(r, k)
                          /\ clock.change \/ k = m \/ tails < cuts
  BY <1>4, <1>5 DEF Core, Collected
<1>8. /\ cuts \in Nat /\ tails \in Nat /\ tails <= cuts /\ mixed = FALSE
      /\ frame \in Seq(Data)
  BY DEF Core, Scalars, Buffers, Collected
<1>9. Slice(r + 1) \in Data
  BY <1>4, TotalType DEF Data
<1>10. LastOf(r + 1, 0) = <<>>
  BY DEF LastOf
<1>11. /\ frame' \in Seq(Data) /\ mixed' = FALSE /\ tails' \in Nat /\ tails' <= cuts
       /\ \E j \in 0 .. (r + 1) % Slices :
            /\ frame' = LastOf(r + 1, j)
            /\ clock.change \/ j = (r + 1) % Slices \/ tails' < cuts
  <2>1. CASE clock.change
    <3>1. frame' = <<>> /\ tails' = tails /\ mixed' = mixed
      BY <1>2, <2>1 DEF TakeSlice
    <3>2. 0 \in 0 .. (r + 1) % Slices
      BY <1>5, <1>6
    <3>. QED
      BY <1>8, <1>10, <2>1, <3>1, <3>2
  <2>2. CASE ~clock.change /\ m + 1 = Slices
    <3>1. frame' = <<>> /\ Deliver(Append(frame, Slice(r + 1)))
      BY <1>2, <1>4, <1>5, <2>2 DEF TakeSlice
    <3>2. (r + 1) % Slices = 0
      BY <1>6, <2>2
    <3>3. FrameEnd(Append(frame, Slice(r + 1)), k + 1)
      BY <1>4, <1>5, <1>7, <2>2, LastSlice
    <3>4. k + 1 \in 1 .. Slices
      BY <1>5, <1>7, <2>2
    <3>5. mixed' = FALSE
      BY <1>8, <3>1, <3>3, <3>4 DEF Deliver
    <3>6. tails' \in Nat /\ tails' <= cuts
      <4>1. CASE k = m
        <5>1. tails' = tails
          BY <1>8, <2>2, <3>1, <3>3, <4>1 DEF Deliver
        <5>. QED
          BY <1>8, <5>1
      <4>2. CASE k # m
        <5>1. tails < cuts /\ tails' \in {tails, tails + 1}
          BY <1>7, <1>8, <2>2, <3>1, <4>2 DEF Deliver
        <5>. QED
          BY <1>8, <5>1
      <4>. QED
        BY <4>1, <4>2
    <3>. QED
      BY <1>10, <3>1, <3>2, <3>5, <3>6
  <2>3. CASE ~clock.change /\ m + 1 # Slices
    <3>1. frame' = Append(frame, Slice(r + 1)) /\ tails' = tails /\ mixed' = mixed
      BY <1>2, <1>4, <1>5, <2>3 DEF TakeSlice
    <3>2. (r + 1) % Slices = m + 1
      BY <1>6, <2>3
    <3>3. frame' = LastOf(r + 1, k + 1)
      <4>1. k \in Nat
        BY <1>5, <1>7
      <4>. QED
        BY <1>7, <3>1, <4>1, NextLast
    <3>4. k + 1 \in 0 .. (r + 1) % Slices
      BY <1>5, <1>7, <3>2
    <3>5. k + 1 = (r + 1) % Slices \/ tails' < cuts
      BY <1>5, <1>7, <2>3, <3>1, <3>2
    <3>6. frame' \in Seq(Data)
      BY <1>8, <1>9, <3>1
    <3>. QED
      BY <1>8, <3>1, <3>3, <3>4, <3>5, <3>6
  <2>. QED
    BY <1>5, <2>1, <2>2, <2>3
<1>12. Collected'
  <2>1. PICK j \in 0 .. (r + 1) % Slices :
            /\ frame' = LastOf(r + 1, j)
            /\ clock.change \/ j = (r + 1) % Slices \/ tails' < cuts
    BY <1>11
  <2>2. seen' = r + 1 /\ clock' = clock /\ cuts' = cuts
    BY <1>2, <1>4
  <2>3. LastOf(r + 1, j) = LastOf(seen, j)'
    BY <2>2 DEF LastOf
  <2>. QED
    BY <1>11, <2>1, <2>2, <2>3 DEF Collected
<1>13. Position'
  BY <1>1, <1>2, <1>4, PositionTaken DEF Core
<1>14. Buffers'
  BY <1>2, <1>11 DEF Core, Buffers
<1>15. Scalars'
  <2>1. seen' \in Nat /\ cuts' \in Nat /\ tails' \in Nat /\ mixed' \in BOOLEAN
    <3>1. seen' \in Nat
      BY <1>2, <1>4
    <3>2. cuts' \in Nat
      BY <1>2, <1>8
    <3>. QED
      BY <1>11, <3>1, <3>2
  <2>. QED
    BY <1>2, <2>1 DEF ReceiveData, Core, Scalars
<1>. QED
  BY <1>11, <1>12, <1>13, <1>14, <1>15 DEF Core

\* An answer turns a clock off.
LEMMA ReceiveAckCore ==
    ASSUME Core, ReceiveAck
    PROVE  Core'
<1>1. PICK at : Ordered(at)
  BY DEF Core, Position
<1>2. PICK kind \in Kinds :
          /\ down # <<>> /\ Head(down).kind = kind /\ down' = Tail(down)
          /\ TurnOff(kind)
          /\ UNCHANGED <<frame, up, device, told, seen, tails, mixed>>
  BY DEF ReceiveAck
<1>3. Collected' /\ cuts' \in Nat /\ clock' \in [Kinds -> BOOLEAN]
  BY <1>2, CollectedCut
<1>4. Scalars'
  BY <1>2, <1>3 DEF ReceiveAck, Core, Scalars
<1>5. down \in Seq(Messages) /\ Head(down) = down[1] /\ 1 \in 1 .. Len(down)
  BY <1>2 DEF Core, Buffers
<1>6. at[1] = seen
  <2>1. at[0] = seen /\ (at[1] = at[0] \/ down[1] = Slice(at[1]))
    BY <1>1, <1>5 DEF Ordered
  <2>2. down[1].kind = kind /\ kind # "data"
    BY <1>2, <1>5, MessageKinds
  <2>. QED
    BY <2>1, <2>2, MessageKinds
<1>7. Position'
  BY <1>1, <1>2, <1>6, PositionTaken DEF Core
<1>8. Buffers'
  BY <1>2, <1>5 DEF Core, Buffers
<1>. QED
  BY <1>2, <1>3, <1>4, <1>7, <1>8 DEF Core

\* So does a timeout.
LEMMA RequestTimeoutCore ==
    ASSUME Core, NEW kind \in Kinds, RequestTimeout(kind)
    PROVE  Core'
<1>1. /\ TurnOff(kind)
      /\ UNCHANGED <<frame, up, down, device, seen, tails, mixed>>
  BY DEF RequestTimeout
<1>2. Collected' /\ cuts' \in Nat /\ clock' \in [Kinds -> BOOLEAN]
  BY <1>1, CollectedCut
<1>3. Scalars'
  BY <1>1, <1>2 DEF RequestTimeout, Core, Scalars
<1>4. Position'
  BY <1>1 DEF Core, Position, Ordered
<1>5. Buffers'
  BY <1>1 DEF Core, Buffers
<1>. QED
  BY <1>1, <1>2, <1>3, <1>4, <1>5 DEF Core

LEMMA DeviceSendsCore ==
    ASSUME Core, DeviceSends
    PROVE  Core'
<1>1. PICK k \in Nat : k = device.sent /\ k + 1 \in 1 .. Total
  BY TotalType DEF DeviceSends, Core, Scalars, Total
<1>2. device' = [alive |-> device.alive, sent |-> k + 1]
  BY <1>1 DEF DeviceSends, Core, Scalars
<1>3. device' \in [alive : BOOLEAN, sent : 0 .. Frames * Slices]
  BY <1>1, <1>2, TotalType DEF Core, Scalars, Total
<1>4. Scalars'
  BY <1>3 DEF DeviceSends, Core, Scalars, history
<1>5. down' = Append(down, Slice(k + 1)) /\ UNCHANGED <<frame, clock, up, history>>
  BY <1>1 DEF DeviceSends
<1>6. Slice(k + 1) \in Messages
  BY <1>1 DEF Messages, Data
<1>7. Buffers'
  BY <1>5, <1>6 DEF Core, Buffers
<1>8. Position'
  BY <1>1, <1>2, <1>5, PositionSent DEF Core, history
<1>9. Collected'
  BY <1>5 DEF Core, Collected, LastOf, history
<1>. QED
  BY <1>4, <1>5, <1>7, <1>8, <1>9 DEF Core, history

LEMMA DeviceAnswersCore ==
    ASSUME Core, DeviceAnswers
    PROVE  Core'
<1>1. PICK kind \in Kinds : /\ kind = Head(up)
                            /\ up' = Tail(up) /\ up' \in Seq(Kinds)
                            /\ down' \in {down, Append(down, Ack(kind))}
  BY DEF DeviceAnswers, Core, Buffers
<1>2. UNCHANGED <<clock, frame, app, asks, receiver, worker, socket, device, told, history>>
  BY DEF DeviceAnswers
<1>3. Buffers'
  <2>1. Ack(kind) \in Messages
    BY DEF Messages
  <2>2. down' \in Seq(Messages)
    <3>1. down \in Seq(Messages)
      BY DEF Core, Buffers
    <3>2. CASE down' = down
      BY <3>1, <3>2
    <3>3. CASE down' = Append(down, Ack(kind))
      BY <2>1, <3>1, <3>3
    <3>. QED
      BY <1>1, <3>2, <3>3
  <2>. QED
    BY <1>1, <1>2, <2>2 DEF Core, Buffers
<1>4. Position'
  <2>1. CASE down' = down
    BY <1>2, <2>1 DEF Core, Position, Ordered, history
  <2>2. CASE down' = Append(down, Ack(kind))
    <3>1. device.sent \in Nat
      BY DEF Core, Scalars
    <3>. QED
      BY <1>1, <1>2, <2>2, <3>1, PositionSent DEF Core, history
  <2>. QED
    BY <1>1, <2>1, <2>2
<1>5. Collected'
  BY <1>2 DEF Core, Collected, LastOf, history
<1>. QED
  BY <1>2, <1>3, <1>4, <1>5 DEF Core, Scalars, history

LEMMA NextCore ==
    ASSUME Core, [Next]_vars
    PROVE  Core'
<1>1. ASSUME NEW kind \in Kinds, Request(kind)
      PROVE  Core'
  <2>1. Scalars'
    <3>1. asks' \in 0 .. MaxAsks
      BY <1>1, StreamAssumption DEF Request, Core, Scalars
    <3>2. clock' \in [Kinds -> BOOLEAN] /\ app' \in {"idle"} \cup Kinds
      BY <1>1 DEF Request, Core, Scalars
    <3>. QED
      BY <1>1, <3>1, <3>2 DEF Request, Core, Scalars, history
  <2>2. clock.change => clock'.change
    BY <1>1 DEF Request, Core, Scalars, Kinds
  <2>. QED
    BY <1>1, <2>1, <2>2, BuffersKept DEF Request
<1>2. CASE SendRequest
  <2>1. Scalars'
    BY <1>2 DEF SendRequest, Core, Scalars, history
  <2>2. Buffers'
    BY <1>2 DEF SendRequest, Core, Buffers
  <2>3. Position' /\ Collected'
    BY <1>2 DEF SendRequest, Core, Position, Ordered, Collected, LastOf, history
  <2>. QED
    BY <1>2, <2>1, <2>2, <2>3 DEF SendRequest, Core, history
<1>3. CASE CloseStream
  <2>1. Scalars'
    BY <1>3 DEF CloseStream, Core, Scalars, history
  <2>. QED
    BY <1>3, <2>1, BuffersKept DEF CloseStream
<1>4. CASE CloseSocket
  <2>1. Scalars'
    BY <1>4 DEF CloseSocket, Core, Scalars, history
  <2>. QED
    BY <1>4, <2>1, BuffersKept DEF CloseSocket
<1>5. CASE CloseEnds
  <2>1. Scalars'
    BY <1>5 DEF CloseEnds, Core, Scalars, history
  <2>. QED
    BY <1>5, <2>1, BuffersKept DEF CloseEnds
<1>6. CASE ReceiveData
  BY <1>6, ReceiveDataCore
<1>7. CASE ReceiveAck
  BY <1>7, ReceiveAckCore
<1>8. CASE ReceiveFails
  <2>1. Scalars'
    BY <1>8 DEF ReceiveFails, Core, Scalars, history
  <2>. QED
    BY <1>8, <2>1, BuffersKept DEF ReceiveFails
<1>9. CASE DataTimeout
  <2>1. Scalars'
    BY <1>9 DEF DataTimeout, Core, Scalars, history
  <2>. QED
    BY <1>9, <2>1, BuffersKept DEF DataTimeout
<1>10. ASSUME NEW kind \in Kinds, RequestTimeout(kind)
       PROVE  Core'
  BY <1>10, RequestTimeoutCore
<1>11. CASE WorkerEnds
  <2>1. Scalars'
    BY <1>11 DEF WorkerEnds, Core, Scalars, history
  <2>. QED
    BY <1>11, <2>1, BuffersKept DEF WorkerEnds
<1>12. CASE DeviceSends
  BY <1>12, DeviceSendsCore
<1>13. CASE DeviceAnswers
  BY <1>13, DeviceAnswersCore
<1>14. CASE DeviceStops
  <2>1. Scalars' /\ device'.sent = device.sent
    BY <1>14 DEF DeviceStops, Core, Scalars, history
  <2>. QED
    BY <1>14, <2>1, BuffersKept DEF DeviceStops
<1>15. CASE UNCHANGED vars
  <2>1. Scalars'
    BY <1>15 DEF vars, Core, Scalars, history
  <2>. QED
    BY <1>15, <2>1, BuffersKept DEF vars
<1>. QED
  BY <1>1, <1>2, <1>3, <1>4, <1>5, <1>6, <1>7, <1>8, <1>9, <1>10, <1>11, <1>12,
     <1>13, <1>14, <1>15
  DEF Next, Receiver, Timeouts

-----------------------------------------------------------------------------

\* Whatever the interleaving of the three threads, the device and the
\* connection, m_Framebuf holds the last slices that have come of the current
\* frame, and the ones it lacks were thrown away by a change that is pending or
\* was cut (UdtStream.cpp, OnRecv; Stream.cpp, ParseStreamUnit).
THEOREM InvariantHolds == Spec => []Core
<1>. QED
  BY InitCore, NextCore, PTL DEF Spec

\* Every variable has its type, and m_Framebuf never holds a whole frame.
THEOREM TypeCorrect == Spec => []StreamTypeOK
<1>. QED
  BY InvariantHolds, CoreGivesTypes, PTL

\* No frame is handed on with slices of two, and none without its first slices
\* but for a change whose clock went off in its middle.
THEOREM TornOnlyAfterChange == Spec => []TornOnlyByChange
<1>1. Core => TornOnlyByChange
  BY DEF Core, Collected, TornOnlyByChange
<1>. QED
  BY <1>1, InvariantHolds, PTL

=============================================================================
