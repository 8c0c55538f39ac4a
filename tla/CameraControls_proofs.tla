------------------------ MODULE CameraControls_proofs ------------------------
(* Proofs about CameraControls, for any settings, values and turns, and any *)
(* number of touches and cameras.                                           *)
EXTENDS CameraControls, FiniteSetTheorems, SequenceTheorems, TLAPS

-----------------------------------------------------------------------------
(* The inductive invariant.                                                *)

Messages == [kind : {"turn"}, turn : Turns \union {Stop}]
              \union [kind : {"mirror"}]
              \union [kind : {"set"}, set : [Settings -> Values]]

Setters == [of : Settings, value : Values]

SeenTypeOK ==
    seen \in [turn : Turns \union {Stop}, turnLost : BOOLEAN, mirrored : BOOLEAN,
              choice : [Settings -> Values], before : [Settings -> Values],
              paced : BOOLEAN, setLost : BOOLEAN]

\* What has been read is what the block at the head has read.
Reading ==
    /\ \E D \in SUBSET Settings : got \in [D -> Values]
    /\ got # NotReading => stream # <<>> /\ Head(stream).kind = "read"

\* A setting as it was chosen last, or just before.
Recent(s) == {seen.before[s], seen.choice[s]}

\* A block or message that will set the camera is under way.
Underway ==
    \/ \E b \in Range(stream) : b.kind \in {"set", "read"}
    \/ \E m \in Range(control) : m.kind = "set"

\* The setter of a setting has still to run.
ToStore(s) ==
    \/ \E b \in Range(stream) : b.kind = "set" /\ s \in DOMAIN b.choice
    \/ \E w \in Range(writes) : w.of = s

\* Only the last choice is in the queues ...
BlocksCurrent ==
    \A b \in Range(stream) :
        b.kind = "set" => \A s \in DOMAIN b.choice : b.choice[s] = seen.choice[s]
WritesCurrent == \A w \in Range(writes) : w.value = seen.choice[w.of]

\* ... and what is stored, read, sent and shown is at most one choice old.
StoredRecent ==
    \A s \in Settings : /\ stored[s] \in Recent(s)
                        /\ stored[s] # seen.choice[s] => ToStore(s)
ReadRecent == \A s \in DOMAIN got : got[s] \in Recent(s)
SentRecent ==
    \A m \in Range(control) : m.kind = "set" => \A s \in Settings : m.set[s] \in Recent(s)
ShownRecent ==
    ~seen.setLost /\ ~Underway => \A s \in Settings : camera.set[s] \in Recent(s)

\* As long as every touch of a setting found all quiet, there is one choice at
\* a time in the queues.
OneChoiceAtATime ==
    seen.paced => /\ BlocksCurrent /\ WritesCurrent /\ StoredRecent
                  /\ ReadRecent /\ SentRecent /\ ShownRecent

IInv == ControlsTypeOK /\ SeenTypeOK /\ Reading /\ NextPressMirrors /\ OneChoiceAtATime

-----------------------------------------------------------------------------
(* What the operations on queues do to what is in them.                    *)

\* A block goes to the end of a queue.
LEMMA AppendRange ==
    ASSUME NEW S, NEW q \in Seq(S), NEW e \in S
    PROVE  /\ Append(q, e) \in Seq(S) /\ Append(q, e) # <<>>
           /\ Range(Append(q, e)) = Range(q) \union {e}
           /\ q # <<>> => Head(Append(q, e)) = Head(q)
<1>1. /\ Append(q, e) \in Seq(S) /\ Append(q, e) # <<>>
      /\ Len(Append(q, e)) = Len(q) + 1 /\ Len(q) \in Nat
      /\ \A i \in 1 .. Len(q) : Append(q, e)[i] = q[i]
      /\ Append(q, e)[Len(q) + 1] = e
  BY AppendProperties, LenProperties
<1>2. DOMAIN q = 1 .. Len(q) /\ DOMAIN Append(q, e) = 1 .. Len(q) + 1
  BY <1>1, LenProperties
<1>3. Range(Append(q, e)) = Range(q) \union {e}
  <2>1. ASSUME NEW x \in Range(Append(q, e)) PROVE x \in Range(q) \union {e}
    BY <1>1, <1>2 DEF Range
  <2>2. ASSUME NEW x \in Range(q) PROVE x \in Range(Append(q, e))
    <3>1. PICK i \in 1 .. Len(q) : x = q[i]
      BY <1>2 DEF Range
    <3>2. i \in 1 .. Len(q) + 1 /\ x = Append(q, e)[i]
      BY <1>1, <3>1
    <3>. QED
      BY <1>2, <3>2 DEF Range
  <2>3. e \in Range(Append(q, e))
    <3>1. Len(q) + 1 \in 1 .. Len(q) + 1
      BY <1>1
    <3>. QED
      BY <1>1, <1>2, <3>1 DEF Range
  <2>. QED
    BY <2>1, <2>2, <2>3
<1>4. q # <<>> => Head(Append(q, e)) = Head(q)
  BY HeadTailAppend
<1>. QED
  BY <1>1, <1>3, <1>4

\* The block at the head of a queue is done.
LEMMA TailRange ==
    ASSUME NEW S, NEW q \in Seq(S), q # <<>>
    PROVE  /\ Head(q) \in S /\ Tail(q) \in Seq(S)
           /\ Range(q) = {Head(q)} \union Range(Tail(q))
<1>1. /\ Head(q) \in S /\ Tail(q) \in Seq(S) /\ Len(Tail(q)) = Len(q) - 1
      /\ \A i \in 1 .. Len(Tail(q)) : Tail(q)[i] = q[i + 1]
      /\ Len(q) \in Nat \ {0} /\ Head(q) = q[1]
  BY HeadTailProperties, EmptySeq, LenProperties
<1>2. DOMAIN q = 1 .. Len(q) /\ DOMAIN Tail(q) = 1 .. Len(q) - 1
  BY <1>1, LenProperties
<1>3. ASSUME NEW x \in Range(q) PROVE x \in {Head(q)} \union Range(Tail(q))
  <2>1. PICK i \in 1 .. Len(q) : x = q[i]
    BY <1>2 DEF Range
  <2>2. CASE i = 1
    BY <1>1, <2>1, <2>2
  <2>3. CASE i # 1
    <3>1. i - 1 \in 1 .. Len(q) - 1 /\ x = Tail(q)[i - 1]
      BY <1>1, <2>1, <2>3
    <3>. QED
      BY <1>2, <3>1 DEF Range
  <2>. QED
    BY <2>2, <2>3
<1>4. Head(q) \in Range(q)
  BY <1>1, <1>2 DEF Range
<1>5. ASSUME NEW x \in Range(Tail(q)) PROVE x \in Range(q)
  <2>1. PICK i \in 1 .. Len(q) - 1 : x = Tail(q)[i]
    BY <1>2 DEF Range
  <2>2. i + 1 \in 1 .. Len(q) /\ x = q[i + 1]
    BY <1>1, <2>1
  <2>. QED
    BY <1>2, <2>2 DEF Range
<1>. QED
  BY <1>1, <1>3, <1>4, <1>5

\* Two queues one behind the other.
LEMMA ConcatRange ==
    ASSUME NEW S, NEW q \in Seq(S), NEW r \in Seq(S)
    PROVE  /\ q \o r \in Seq(S)
           /\ Range(q \o r) = Range(q) \union Range(r)
<1>1. /\ q \o r \in Seq(S) /\ Len(q) \in Nat /\ Len(r) \in Nat
      /\ DOMAIN q = 1 .. Len(q) /\ DOMAIN r = 1 .. Len(r)
      /\ DOMAIN (q \o r) = 1 .. Len(q) + Len(r)
      /\ \A i \in 1 .. Len(q) + Len(r) :
            (q \o r)[i] = IF i <= Len(q) THEN q[i] ELSE r[i - Len(q)]
  BY ConcatProperties, LenProperties
<1>2. ASSUME NEW x \in Range(q \o r) PROVE x \in Range(q) \union Range(r)
  <2>1. PICK i \in 1 .. Len(q) + Len(r) : x = (q \o r)[i]
    BY <1>1 DEF Range
  <2>2. CASE i <= Len(q)
    BY <1>1, <2>1, <2>2 DEF Range
  <2>3. CASE ~(i <= Len(q))
    <3>1. i - Len(q) \in 1 .. Len(r) /\ x = r[i - Len(q)]
      BY <1>1, <2>1, <2>3
    <3>. QED
      BY <1>1, <3>1 DEF Range
  <2>. QED
    BY <2>2, <2>3
<1>3. ASSUME NEW x \in Range(q) PROVE x \in Range(q \o r)
  <2>1. PICK i \in 1 .. Len(q) : x = q[i]
    BY <1>1 DEF Range
  <2>2. i \in 1 .. Len(q) + Len(r) /\ x = (q \o r)[i]
    BY <1>1, <2>1
  <2>. QED
    BY <1>1, <2>2 DEF Range
<1>4. ASSUME NEW x \in Range(r) PROVE x \in Range(q \o r)
  <2>1. PICK i \in 1 .. Len(r) : x = r[i]
    BY <1>1 DEF Range
  <2>2. Len(q) + i \in 1 .. Len(q) + Len(r) /\ x = (q \o r)[Len(q) + i]
    BY <1>1, <2>1
  <2>. QED
    BY <1>1, <2>2 DEF Range
<1>. QED
  BY <1>1, <1>2, <1>3, <1>4

\* A block comes before a queue.
LEMMA PrependRange ==
    ASSUME NEW S, NEW q \in Seq(S), NEW e \in S
    PROVE  /\ <<e>> \o q \in Seq(S) /\ <<e>> \o q # <<>>
           /\ Head(<<e>> \o q) = e
           /\ Range(<<e>> \o q) = {e} \union Range(q)
<1>1. <<e>> \in Seq(S) /\ Len(<<e>>) = 1 /\ <<e>>[1] = e /\ Len(q) \in Nat
  BY LenProperties
<1>2. Range(<<e>>) = {e}
  BY DEF Range
<1>3. (<<e>> \o q)[1] = e /\ Len(<<e>> \o q) = 1 + Len(q)
  BY <1>1, ConcatProperties
<1>4. <<e>> \o q # <<>>
  BY <1>1, <1>3, EmptySeq
<1>5. <<e>> \o q \in Seq(S) /\ Range(<<e>> \o q) = {e} \union Range(q)
  <2>1. PICK p : p = <<e>>
    OBVIOUS
  <2>2. p \in Seq(S) /\ Range(p) = {e}
    BY <1>1, <1>2, <2>1
  <2>3. p \o q \in Seq(S) /\ Range(p \o q) = {e} \union Range(q)
    BY <2>2, ConcatRange
  <2>. QED
    BY <2>1, <2>3
<1>6. Head(<<e>> \o q) = e
  BY <1>3, <1>4, <1>5
<1>. QED
  BY <1>4, <1>5, <1>6

\* One block of a queue is done, wherever it is.
LEMMA RemoveRange ==
    ASSUME NEW S, NEW q \in Seq(S), NEW i \in DOMAIN q
    PROVE  /\ q[i] \in S /\ RemoveAt(q, i) \in Seq(S)
           /\ Range(q) = {q[i]} \union Range(RemoveAt(q, i))
<1>1. Len(q) \in Nat /\ DOMAIN q = 1 .. Len(q) /\ i \in 1 .. Len(q)
      /\ \A j \in 1 .. Len(q) : q[j] \in S
  BY LenProperties, ElementOfSeq
<1>. DEFINE front == SubSeq(q, 1, i - 1)
            back  == SubSeq(q, i + 1, Len(q))
<1>2. /\ front \in Seq(S) /\ Len(front) = i - 1
      /\ \A j \in 1 .. i - 1 : front[j] = q[j]
  <2>1. \A j \in 1 .. i - 1 : q[j] \in S
    BY <1>1
  <2>2. \A j \in 1 .. (i - 1) - 1 + 1 : front[j] = q[1 + j - 1]
    BY <1>1, <2>1, SubSeqProperties
  <2>3. front \in Seq(S)
    BY <1>1, <2>1, SubSeqProperties
  <2>4. Len(front) = IF 1 <= i - 1 THEN (i - 1) - 1 + 1 ELSE 0
    BY <1>1, <2>1, SubSeqProperties
  <2>. QED
    BY <1>1, <2>2, <2>3, <2>4
<1>3. /\ back \in Seq(S) /\ Len(back) = Len(q) - i
      /\ \A j \in 1 .. Len(q) - i : back[j] = q[i + j]
  <2>1. \A j \in i + 1 .. Len(q) : q[j] \in S
    BY <1>1
  <2>2. \A j \in 1 .. Len(q) - (i + 1) + 1 : back[j] = q[(i + 1) + j - 1]
    BY <1>1, <2>1, SubSeqProperties
  <2>3. back \in Seq(S)
    BY <1>1, <2>1, SubSeqProperties
  <2>4. Len(back) = IF i + 1 <= Len(q) THEN Len(q) - (i + 1) + 1 ELSE 0
    BY <1>1, <2>1, SubSeqProperties
  <2>5. Len(back) = Len(q) - i
    BY <1>1, <2>4
  <2>6. ASSUME NEW j \in 1 .. Len(q) - i PROVE back[j] = q[i + j]
    <3>1. j \in 1 .. Len(q) - (i + 1) + 1 /\ (i + 1) + j - 1 = i + j
      BY <1>1
    <3>. QED
      BY <2>2, <3>1
  <2>. QED
    BY <2>3, <2>5, <2>6
<1>4. DOMAIN front = 1 .. i - 1 /\ DOMAIN back = 1 .. Len(q) - i
  BY <1>2, <1>3, LenProperties
<1>5. /\ RemoveAt(q, i) \in Seq(S)
      /\ Range(RemoveAt(q, i)) = Range(front) \union Range(back)
  <2>1. RemoveAt(q, i) = front \o back
    BY DEF RemoveAt
  <2>. HIDE DEF front, back
  <2>. QED
    BY <1>2, <1>3, <2>1, ConcatRange
<1>6. ASSUME NEW x \in Range(q) PROVE x = q[i] \/ x \in Range(front) \/ x \in Range(back)
  <2>1. PICK j \in 1 .. Len(q) : x = q[j]
    BY <1>1 DEF Range
  <2>2. CASE j < i
    <3>1. j \in 1 .. i - 1 /\ x = front[j]
      BY <1>1, <1>2, <2>1, <2>2
    <3>. QED
      BY <1>4, <3>1 DEF Range
  <2>3. CASE j > i
    <3>1. j - i \in 1 .. Len(q) - i /\ i + (j - i) = j
      BY <1>1, <2>1, <2>3
    <3>2. x = back[j - i]
      BY <1>3, <2>1, <3>1
    <3>. QED
      BY <1>4, <3>1, <3>2 DEF Range
  <2>. QED
    BY <1>1, <2>1, <2>2, <2>3
<1>7. ASSUME NEW x \in Range(front) PROVE x \in Range(q)
  <2>1. PICK j \in 1 .. i - 1 : x = front[j]
    BY <1>4 DEF Range
  <2>2. j \in 1 .. Len(q) /\ x = q[j]
    BY <1>1, <1>2, <2>1
  <2>. QED
    BY <1>1, <2>2 DEF Range
<1>8. ASSUME NEW x \in Range(back) PROVE x \in Range(q)
  <2>1. PICK j \in 1 .. Len(q) - i : x = back[j]
    BY <1>4 DEF Range
  <2>2. i + j \in 1 .. Len(q) /\ x = q[i + j]
    BY <1>1, <1>3, <2>1
  <2>. QED
    BY <1>1, <2>2 DEF Range
<1>9. q[i] \in Range(q) /\ q[i] \in S
  BY <1>1 DEF Range
<1>. QED
  BY <1>5, <1>6, <1>7, <1>8, <1>9

\* A finite set as a sequence.
LEMMA SetToSeqRange ==
    ASSUME NEW S, NEW W \in SUBSET S, IsFiniteSet(W)
    PROVE  SetToSeq(W) \in Seq(S) /\ Range(SetToSeq(W)) = W
<1>1. PICK N \in Nat : N = Cardinality(W) /\ ExistsBijection(1 .. N, W)
  BY FS_CardinalityType
<1>2. \E h \in [1 .. N -> W] : IsInjective(h)
  BY <1>1 DEF ExistsBijection, Bijection, Injection
<1>3. PICK f : f = SetToSeq(W) /\ f \in [1 .. N -> W] /\ IsInjective(f)
  BY <1>1, <1>2 DEF SetToSeq
<1>4. f \in Surjection(1 .. N, W)
  <2>1. f \in Injection(1 .. N, W)
    BY <1>3 DEF Injection
  <2>2. IsFiniteSet(1 .. N) /\ Cardinality(1 .. N) = N
    BY <1>1, FS_Interval
  <2>. QED
    BY <1>1, <2>1, <2>2, FS_Injection
<1>5. Range(f) = W
  BY <1>3, <1>4 DEF Surjection, Range
<1>6. f \in Seq(S)
  <2>1. f \in [1 .. N -> S]
    BY <1>3
  <2>. QED
    BY <1>1, <2>1, SeqDef
<1>. QED
  BY <1>3, <1>5, <1>6

\* The writes a choice is split into: one for every setting it names.
LEMMA AsWritesRange ==
    ASSUME ControlsAssumption,
           NEW D \in SUBSET Settings, NEW choice \in [D -> Values]
    PROVE  /\ AsWrites(choice) \in Seq(Setters)
           /\ \A w \in Range(AsWrites(choice)) : w.of \in D /\ w.value = choice[w.of]
           /\ \A s \in D : \E w \in Range(AsWrites(choice)) : w.of = s
<1>. DEFINE W == {[of |-> s, value |-> choice[s]] : s \in D}
            g == [s \in D |-> [of |-> s, value |-> choice[s]]]
<1>1. IsFiniteSet(D)
  BY FS_Subset DEF ControlsAssumption
<1>2. g \in Surjection(D, W)
  BY DEF Surjection
<1>3. IsFiniteSet(W)
  BY <1>1, <1>2, FS_Surjection
<1>4. W \in SUBSET Setters
  BY DEF Setters
<1>5. AsWrites(choice) = SetToSeq(W)
  BY DEF AsWrites
<1>6. /\ \A w \in W : w.of \in D /\ w.value = choice[w.of]
      /\ \A s \in D : \E w \in W : w.of = s
  <2>1. ASSUME NEW w \in W PROVE w.of \in D /\ w.value = choice[w.of]
    OBVIOUS
  <2>2. ASSUME NEW s \in D PROVE \E w \in W : w.of = s
    <3>1. [of |-> s, value |-> choice[s]] \in W
      OBVIOUS
    <3>. QED
      BY <3>1
  <2>. QED
    BY <2>1, <2>2
<1>. HIDE DEF W
<1>7. /\ AsWrites(choice) \in Seq(Setters)
      /\ Range(AsWrites(choice)) = W
  BY <1>3, <1>4, <1>5, SetToSeqRange
<1>. QED
  BY <1>6, <1>7

-----------------------------------------------------------------------------
(* Every action preserves the invariant.                                   *)

\* The types that the steps below are about.
LEMMA TypeFacts ==
    ASSUME IInv
    PROVE  /\ stream \in Seq(Ops) /\ writes \in Seq(Setters)
           /\ control \in Seq(Messages)
           /\ stored \in [Settings -> Values] /\ tag \in {0, 1}
           /\ camera \in [turn : Turns \union {Stop}, mirror : {0, 1},
                          set : [Settings -> Values \union {Unknown}]]
           /\ touches \in Nat /\ fingers \subseteq Turns
           /\ SeenTypeOK
           /\ DOMAIN got \in SUBSET Settings /\ got \in [DOMAIN got -> Values]
           /\ DOMAIN got \subseteq Settings /\ Range(got) \subseteq Values
<1>1. PICK D \in SUBSET Settings : got \in [D -> Values]
  BY DEF IInv, Reading
<1>. QED
  BY <1>1 DEF IInv, ControlsTypeOK, Messages, Setters

\* Touch: what is asked of streamQueue comes last.
LEMMA TouchFacts ==
    ASSUME IInv, NEW op \in Ops, Touch(op)
    PROVE  /\ stream' \in Seq(Ops) /\ Range(stream') = Range(stream) \union {op}
           /\ stream # <<>> => Head(stream') = Head(stream)
           /\ stream' # <<>> /\ touches' \in 0 .. MaxTouches
           /\ UNCHANGED <<got, writes, control, stored, tag, camera, cameras>>
<1>1. stream \in Seq(Ops) /\ touches \in Nat /\ touches < MaxTouches
      /\ touches' = touches + 1 /\ stream' = Append(stream, op)
  BY TypeFacts DEF Touch
<1>2. touches' \in 0 .. MaxTouches
  BY <1>1, ControlsAssumption
<1>. QED
  BY <1>1, <1>2, AppendRange DEF Touch

\* A turn button is pressed.
LEMMA PressTurnInv ==
    ASSUME IInv, NEW t \in Turns, PressTurn(t)
    PROVE  IInv'
<1>1. PICK op \in Ops : op = [kind |-> "turn", turn |-> t] /\ Touch(op)
  BY DEF PressTurn, Ops
<1>2. /\ stream' \in Seq(Ops) /\ Range(stream') = Range(stream) \union {op}
      /\ stream # <<>> => Head(stream') = Head(stream)
      /\ stream' # <<>> /\ touches' \in 0 .. MaxTouches
      /\ UNCHANGED <<got, writes, control, stored, tag, camera, cameras>>
  BY <1>1, TouchFacts
<1>3. ControlsTypeOK'
  BY <1>2 DEF PressTurn, IInv, ControlsTypeOK
<1>4. SeenTypeOK'
  BY TypeFacts DEF PressTurn, SeenTypeOK
<1>5. Reading'
  BY <1>2 DEF IInv, Reading
<1>6. NextPressMirrors'
  BY <1>2 DEF PressTurn, IInv, NextPressMirrors
<1>7. OneChoiceAtATime'
  <2>1. SUFFICES ASSUME seen'.paced
                 PROVE  (/\ BlocksCurrent /\ WritesCurrent /\ StoredRecent
                         /\ ReadRecent /\ SentRecent /\ ShownRecent)'
    BY DEF OneChoiceAtATime
  <2>2. /\ seen.paced /\ BlocksCurrent /\ WritesCurrent /\ StoredRecent
        /\ ReadRecent /\ SentRecent /\ ShownRecent
    BY <2>1 DEF PressTurn, IInv, OneChoiceAtATime
  <2>3. BlocksCurrent'
    BY <1>1, <1>2, <2>2 DEF PressTurn, BlocksCurrent
  <2>4. WritesCurrent'
    BY <1>2, <2>2 DEF PressTurn, WritesCurrent
  <2>5. StoredRecent'
    BY <1>2, <2>2 DEF PressTurn, StoredRecent, Recent, ToStore
  <2>6. ReadRecent'
    BY <1>2, <2>2 DEF PressTurn, ReadRecent, Recent
  <2>7. SentRecent'
    BY <1>2, <2>2 DEF PressTurn, SentRecent, Recent
  <2>8. ShownRecent'
    BY <1>2, <2>2 DEF PressTurn, ShownRecent, Recent, Underway
  <2>. QED
    BY <2>3, <2>4, <2>5, <2>6, <2>7, <2>8
<1>. QED
  BY <1>3, <1>4, <1>5, <1>6, <1>7 DEF IInv

\* A turn button is let go.
LEMMA LiftInsideInv ==
    ASSUME IInv, NEW t \in Turns, LiftInside(t)
    PROVE  IInv'
<1>1. PICK op \in Ops : op = [kind |-> "turn", turn |-> Stop] /\ Touch(op)
  BY DEF LiftInside, Ops
<1>2. /\ stream' \in Seq(Ops) /\ Range(stream') = Range(stream) \union {op}
      /\ stream # <<>> => Head(stream') = Head(stream)
      /\ stream' # <<>> /\ touches' \in 0 .. MaxTouches
      /\ UNCHANGED <<got, writes, control, stored, tag, camera, cameras>>
  BY <1>1, TouchFacts
<1>3. ControlsTypeOK'
  BY <1>2 DEF LiftInside, IInv, ControlsTypeOK
<1>4. SeenTypeOK'
  BY TypeFacts DEF LiftInside, SeenTypeOK
<1>5. Reading'
  BY <1>2 DEF IInv, Reading
<1>6. NextPressMirrors'
  BY <1>2 DEF LiftInside, IInv, NextPressMirrors
<1>7. OneChoiceAtATime'
  <2>1. SUFFICES ASSUME seen'.paced
                 PROVE  (/\ BlocksCurrent /\ WritesCurrent /\ StoredRecent
                         /\ ReadRecent /\ SentRecent /\ ShownRecent)'
    BY DEF OneChoiceAtATime
  <2>2. /\ seen.paced /\ BlocksCurrent /\ WritesCurrent /\ StoredRecent
        /\ ReadRecent /\ SentRecent /\ ShownRecent
    BY <2>1 DEF LiftInside, IInv, OneChoiceAtATime
  <2>3. BlocksCurrent'
    BY <1>1, <1>2, <2>2 DEF LiftInside, BlocksCurrent
  <2>4. WritesCurrent'
    BY <1>2, <2>2 DEF LiftInside, WritesCurrent
  <2>5. StoredRecent'
    BY <1>2, <2>2 DEF LiftInside, StoredRecent, Recent, ToStore
  <2>6. ReadRecent'
    BY <1>2, <2>2 DEF LiftInside, ReadRecent, Recent
  <2>7. SentRecent'
    BY <1>2, <2>2 DEF LiftInside, SentRecent, Recent
  <2>8. ShownRecent'
    BY <1>2, <2>2 DEF LiftInside, ShownRecent, Recent, Underway
  <2>. QED
    BY <2>3, <2>4, <2>5, <2>6, <2>7, <2>8
<1>. QED
  BY <1>3, <1>4, <1>5, <1>6, <1>7 DEF IInv

\* The mirror button is pressed.
LEMMA PressMirrorInv ==
    ASSUME IInv, PressMirror
    PROVE  IInv'
<1>1. PICK op \in Ops : op = [kind |-> "mirror"] /\ Touch(op)
  BY DEF PressMirror, Ops
<1>2. /\ stream' \in Seq(Ops) /\ Range(stream') = Range(stream) \union {op}
      /\ stream # <<>> => Head(stream') = Head(stream)
      /\ stream' # <<>> /\ touches' \in 0 .. MaxTouches
      /\ UNCHANGED <<got, writes, control, stored, tag, camera, cameras>>
  BY <1>1, TouchFacts
<1>3. ControlsTypeOK'
  BY <1>2 DEF PressMirror, IInv, ControlsTypeOK
<1>4. SeenTypeOK'
  BY TypeFacts DEF PressMirror, SeenTypeOK
<1>5. Reading'
  BY <1>2 DEF IInv, Reading
<1>6. NextPressMirrors'
  BY <1>2 DEF PressMirror, IInv, NextPressMirrors
<1>7. OneChoiceAtATime'
  <2>1. SUFFICES ASSUME seen'.paced
                 PROVE  (/\ BlocksCurrent /\ WritesCurrent /\ StoredRecent
                         /\ ReadRecent /\ SentRecent /\ ShownRecent)'
    BY DEF OneChoiceAtATime
  <2>2. /\ seen.paced /\ BlocksCurrent /\ WritesCurrent /\ StoredRecent
        /\ ReadRecent /\ SentRecent /\ ShownRecent
    BY <2>1 DEF PressMirror, IInv, OneChoiceAtATime
  <2>3. BlocksCurrent'
    BY <1>1, <1>2, <2>2 DEF PressMirror, BlocksCurrent
  <2>4. WritesCurrent'
    BY <1>2, <2>2 DEF PressMirror, WritesCurrent
  <2>5. StoredRecent'
    BY <1>2, <2>2 DEF PressMirror, StoredRecent, Recent, ToStore
  <2>6. ReadRecent'
    BY <1>2, <2>2 DEF PressMirror, ReadRecent, Recent
  <2>7. SentRecent'
    BY <1>2, <2>2 DEF PressMirror, SentRecent, Recent
  <2>8. ShownRecent'
    BY <1>2, <2>2 DEF PressMirror, ShownRecent, Recent, Underway
  <2>. QED
    BY <2>3, <2>4, <2>5, <2>6, <2>7, <2>8
<1>. QED
  BY <1>3, <1>4, <1>5, <1>6, <1>7 DEF IInv

\* A finger slides off a turn button.
LEMMA LiftOutsideInv ==
    ASSUME IInv, NEW t \in Turns, LiftOutside(t)
    PROVE  IInv'
<1>1. ControlsTypeOK'
  BY DEF LiftOutside, IInv, ControlsTypeOK
<1>2. SeenTypeOK'
  BY TypeFacts DEF LiftOutside, SeenTypeOK
<1>3. Reading'
  BY TypeFacts DEF LiftOutside, IInv, Reading
<1>4. NextPressMirrors'
  BY TypeFacts DEF LiftOutside, IInv, NextPressMirrors
<1>5. OneChoiceAtATime'
  <2>1. SUFFICES ASSUME seen'.paced
                 PROVE  (/\ BlocksCurrent /\ WritesCurrent /\ StoredRecent
                         /\ ReadRecent /\ SentRecent /\ ShownRecent)'
    BY DEF OneChoiceAtATime
  <2>2. /\ seen.paced /\ BlocksCurrent /\ WritesCurrent /\ StoredRecent
        /\ ReadRecent /\ SentRecent /\ ShownRecent
    BY <2>1 DEF LiftOutside, IInv, OneChoiceAtATime
  <2>3. BlocksCurrent'
    BY <2>2 DEF LiftOutside, BlocksCurrent
  <2>4. WritesCurrent'
    BY <2>2 DEF LiftOutside, WritesCurrent
  <2>5. StoredRecent'
    BY <2>2 DEF LiftOutside, StoredRecent, Recent, ToStore
  <2>6. ReadRecent'
    BY <2>2 DEF LiftOutside, ReadRecent, Recent
  <2>7. SentRecent'
    BY <2>2 DEF LiftOutside, SentRecent, Recent
  <2>8. ShownRecent'
    BY <2>2 DEF LiftOutside, ShownRecent, Recent, Underway
  <2>. QED
    BY <2>3, <2>4, <2>5, <2>6, <2>7, <2>8
<1>. QED
  BY <1>1, <1>2, <1>3, <1>4, <1>5 DEF IInv

\* Another camera is opened.
LEMMA OpenAnotherInv ==
    ASSUME IInv, OpenAnother
    PROVE  IInv'
<1>1. ControlsTypeOK'
  BY DEF OpenAnother, FreshCamera, IInv, ControlsTypeOK
<1>2. SeenTypeOK'
  BY TypeFacts DEF OpenAnother, FreshCamera, SeenTypeOK
<1>3. Reading'
  BY DEF OpenAnother, IInv, Reading
<1>4. NextPressMirrors'
  BY DEF OpenAnother, NextPressMirrors
<1>5. OneChoiceAtATime'
  <2>1. SUFFICES ASSUME seen'.paced
                 PROVE  (/\ BlocksCurrent /\ WritesCurrent /\ StoredRecent
                         /\ ReadRecent /\ SentRecent /\ ShownRecent)'
    BY DEF OneChoiceAtATime
  <2>2. /\ seen.paced /\ BlocksCurrent /\ WritesCurrent /\ StoredRecent
        /\ ReadRecent /\ SentRecent /\ ShownRecent
    BY <2>1 DEF OpenAnother, IInv, OneChoiceAtATime
  <2>3. BlocksCurrent'
    BY <2>2 DEF OpenAnother, BlocksCurrent
  <2>4. WritesCurrent'
    BY <2>2 DEF OpenAnother, WritesCurrent
  <2>5. StoredRecent'
    BY <2>2 DEF OpenAnother, StoredRecent, Recent, ToStore
  <2>6. ReadRecent'
    BY <2>2 DEF OpenAnother, ReadRecent, Recent
  <2>7. SentRecent'
    BY <2>2 DEF OpenAnother, SentRecent, Recent
  <2>8. ShownRecent'
    BY DEF OpenAnother, ShownRecent
  <2>. QED
    BY <2>3, <2>4, <2>5, <2>6, <2>7, <2>8
<1>. QED
  BY <1>1, <1>2, <1>3, <1>4, <1>5 DEF IInv

\* streamQueue hands a turn or a mirror on.
LEMMA ForwardInv ==
    ASSUME IInv, Forward
    PROVE  IInv'
<1>1. /\ stream # <<>> /\ Head(stream) \in Ops /\ Head(stream).kind \in {"turn", "mirror"}
      /\ Tail(stream) \in Seq(Ops) /\ Range(stream) = {Head(stream)} \union Range(Tail(stream))
  BY TypeFacts, TailRange DEF Forward
<1>2. Head(stream) \in Messages
  BY <1>1 DEF Ops, Messages
<1>3. /\ control' \in Seq(Messages)
      /\ Range(control') = Range(control) \union {Head(stream)}
  BY <1>2, TypeFacts, AppendRange DEF Forward
<1>4. ControlsTypeOK'
  BY <1>3 DEF Forward, BlockEnds, IInv, ControlsTypeOK, Messages
<1>5. SeenTypeOK'
  BY TypeFacts DEF Forward, SeenTypeOK
<1>6. Reading'
  BY DEF Forward, IInv, Reading
<1>7. NextPressMirrors'
  BY DEF Forward, IInv, NextPressMirrors
<1>8. OneChoiceAtATime'
  <2>1. SUFFICES ASSUME seen'.paced
                 PROVE  (/\ BlocksCurrent /\ WritesCurrent /\ StoredRecent
                         /\ ReadRecent /\ SentRecent /\ ShownRecent)'
    BY DEF OneChoiceAtATime
  <2>2. /\ seen.paced /\ BlocksCurrent /\ WritesCurrent /\ StoredRecent
        /\ ReadRecent /\ SentRecent /\ ShownRecent
    BY <2>1 DEF Forward, IInv, OneChoiceAtATime
  <2>3. BlocksCurrent'
    BY <1>1, <2>2 DEF Forward, BlockEnds, BlocksCurrent
  <2>4. WritesCurrent'
    BY <2>2 DEF Forward, WritesCurrent
  <2>5. StoredRecent'
    BY <1>1, <2>2 DEF Forward, BlockEnds, StoredRecent, Recent, ToStore
  <2>6. ReadRecent'
    BY <2>2 DEF Forward, ReadRecent, Recent
  <2>7. SentRecent'
    BY <1>3, <2>2 DEF Forward, SentRecent, Recent
  <2>8. ShownRecent'
    BY <1>1, <1>3, <2>2 DEF Forward, BlockEnds, ShownRecent, Recent, Underway
  <2>. QED
    BY <2>3, <2>4, <2>5, <2>6, <2>7, <2>8
<1>. QED
  BY <1>4, <1>5, <1>6, <1>7, <1>8 DEF IInv

\* The setters of a choice are queued.
LEMMA StoreSettingInv ==
    ASSUME IInv, StoreSetting
    PROVE  IInv'
<1>1. /\ stream # <<>> /\ Head(stream) \in Ops /\ Head(stream).kind = "set"
      /\ Tail(stream) \in Seq(Ops) /\ Range(stream) = {Head(stream)} \union Range(Tail(stream))
  BY TypeFacts, TailRange DEF StoreSetting
<1>2. PICK D \in SUBSET Settings : Head(stream).choice \in [D -> Values]
  BY <1>1 DEF Ops
<1>3. /\ AsWrites(Head(stream).choice) \in Seq(Setters)
      /\ \A w \in Range(AsWrites(Head(stream).choice)) :
            w.of \in D /\ w.value = Head(stream).choice[w.of]
      /\ \A s \in D : \E w \in Range(AsWrites(Head(stream).choice)) : w.of = s
  BY <1>2, AsWritesRange, ControlsAssumption
<1>4. /\ writes' \in Seq(Setters)
      /\ Range(writes') = Range(writes) \union Range(AsWrites(Head(stream).choice))
  BY <1>3, TypeFacts, ConcatRange DEF StoreSetting
<1>5. /\ stream' \in Seq(Ops) /\ Range(stream') = {[kind |-> "read"]} \union Range(Tail(stream))
      /\ Head(stream') = [kind |-> "read"] /\ stream' # <<>>
  <2>1. [kind |-> "read"] \in Ops
    BY DEF Ops
  <2>2. PICK e \in Ops : e = [kind |-> "read"]
    BY <2>1
  <2>3. PICK p : p = <<e>> \o Tail(stream)
    OBVIOUS
  <2>4. /\ p \in Seq(Ops) /\ p # <<>> /\ Head(p) = e
        /\ Range(p) = {e} \union Range(Tail(stream))
    <3>1. PICK q \in Seq(Ops) : q = Tail(stream)
      BY <1>1
    <3>2. /\ <<e>> \o q \in Seq(Ops) /\ <<e>> \o q # <<>> /\ Head(<<e>> \o q) = e
          /\ Range(<<e>> \o q) = {e} \union Range(q)
      BY PrependRange
    <3>. QED
      BY <2>3, <3>1, <3>2
  <2>5. stream' = p
    BY <2>2, <2>3 DEF StoreSetting
  <2>. QED
    BY <2>2, <2>4, <2>5
<1>6. DOMAIN Head(stream).choice = D
  BY <1>2
<1>7. UNCHANGED <<fingers, touches, got, control, stored, tag, camera, cameras, seen>>
  BY DEF StoreSetting
<1>8. ControlsTypeOK'
  BY <1>4, <1>5, <1>7 DEF IInv, ControlsTypeOK, Setters
<1>9. SeenTypeOK'
  BY <1>7, TypeFacts DEF SeenTypeOK
<1>10. Reading'
  BY <1>5, <1>7, TypeFacts DEF Reading
<1>11. NextPressMirrors'
  BY <1>7 DEF IInv, NextPressMirrors
<1>12. OneChoiceAtATime'
  <2>1. SUFFICES ASSUME seen'.paced
                 PROVE  (/\ BlocksCurrent /\ WritesCurrent /\ StoredRecent
                         /\ ReadRecent /\ SentRecent /\ ShownRecent)'
    BY DEF OneChoiceAtATime
  <2>2. /\ seen.paced /\ BlocksCurrent /\ WritesCurrent /\ StoredRecent
        /\ ReadRecent /\ SentRecent /\ ShownRecent
    BY <1>7, <2>1 DEF IInv, OneChoiceAtATime
  <2>3. BlocksCurrent'
    BY <1>1, <1>5, <1>7, <2>2 DEF BlocksCurrent
  <2>4. WritesCurrent'
    BY <1>1, <1>3, <1>4, <1>6, <1>7, <2>2 DEF WritesCurrent, BlocksCurrent
  <2>5. StoredRecent'
    BY <1>1, <1>3, <1>4, <1>5, <1>6, <1>7, <2>2 DEF StoredRecent, Recent,
       ToStore
  <2>6. ReadRecent'
    BY <1>7, <2>2 DEF ReadRecent, Recent
  <2>7. SentRecent'
    BY <1>7, <2>2 DEF SentRecent, Recent
  <2>8. ShownRecent'
    <3>1. PICK b \in Range(stream') : b.kind = "read"
      <4>1. [kind |-> "read"] \in Range(stream')
        BY <1>5
      <4>. QED
        BY <4>1
    <3>2. Underway'
      BY <3>1 DEF Underway
    <3>. QED
      BY <3>2 DEF ShownRecent
  <2>. QED
    BY <2>3, <2>4, <2>5, <2>6, <2>7, <2>8
<1>. QED
  BY <1>8, <1>9, <1>10, <1>11, <1>12 DEF IInv

\* A getter reads what is stored.
LEMMA ReadSettingInv ==
    ASSUME IInv, NEW x \in Settings, ReadSetting(x)
    PROVE  IInv'
<1>1. /\ DOMAIN got' = DOMAIN got \union {x} /\ got'[x] = stored[x]
      /\ \A s \in DOMAIN got : got'[s] = got[s]
      /\ got' \in [DOMAIN got \union {x} -> Values]
  BY TypeFacts DEF ReadSetting, Over
<1>2. Range(got') \subseteq Values /\ DOMAIN got' \in SUBSET Settings
  BY <1>1, TypeFacts DEF Range
<1>3. ControlsTypeOK'
  BY <1>2 DEF ReadSetting, IInv, ControlsTypeOK
<1>4. SeenTypeOK'
  BY TypeFacts DEF ReadSetting, SeenTypeOK
<1>5. Reading'
  BY <1>1, TypeFacts DEF ReadSetting, Reading
<1>6. NextPressMirrors'
  BY DEF ReadSetting, IInv, NextPressMirrors
<1>7. OneChoiceAtATime'
  <2>1. SUFFICES ASSUME seen'.paced
                 PROVE  (/\ BlocksCurrent /\ WritesCurrent /\ StoredRecent
                         /\ ReadRecent /\ SentRecent /\ ShownRecent)'
    BY DEF OneChoiceAtATime
  <2>2. /\ seen.paced /\ BlocksCurrent /\ WritesCurrent /\ StoredRecent
        /\ ReadRecent /\ SentRecent /\ ShownRecent
    BY <2>1 DEF ReadSetting, IInv, OneChoiceAtATime
  <2>3. BlocksCurrent'
    BY <2>2 DEF ReadSetting, BlocksCurrent
  <2>4. WritesCurrent'
    BY <2>2 DEF ReadSetting, WritesCurrent
  <2>5. StoredRecent'
    BY <2>2 DEF ReadSetting, StoredRecent, Recent, ToStore
  <2>6. ReadRecent'
    BY <1>1, <2>2 DEF ReadSetting, ReadRecent, Recent, StoredRecent
  <2>7. SentRecent'
    BY <2>2 DEF ReadSetting, SentRecent, Recent
  <2>8. ShownRecent'
    BY <2>2 DEF ReadSetting, ShownRecent, Recent, Underway
  <2>. QED
    BY <2>3, <2>4, <2>5, <2>6, <2>7, <2>8
<1>. QED
  BY <1>3, <1>4, <1>5, <1>6, <1>7 DEF IInv

\* The message with the settings is put on the control queue.
LEMMA SendSettingsInv ==
    ASSUME IInv, SendSettings
    PROVE  IInv'
<1>1. /\ stream # <<>> /\ Head(stream) \in Ops /\ Head(stream).kind = "read"
      /\ Tail(stream) \in Seq(Ops) /\ Range(stream) = {Head(stream)} \union Range(Tail(stream))
  BY TypeFacts, TailRange DEF SendSettings
<1>2. PICK m \in Messages : m = [kind |-> "set", set |-> got]
  BY TypeFacts DEF SendSettings, Messages
<1>3. control' \in Seq(Messages) /\ Range(control') = Range(control) \union {m}
  BY <1>2, TypeFacts, AppendRange DEF SendSettings
<1>4. got' = NotReading /\ got' \in [{} -> Values] /\ DOMAIN got' = {}
      /\ Range(got') = {}
  BY DEF SendSettings, NotReading, Range
<1>5. ControlsTypeOK'
  BY <1>4, TypeFacts DEF SendSettings, BlockEnds, IInv, ControlsTypeOK
<1>6. SeenTypeOK'
  BY TypeFacts DEF SendSettings, SeenTypeOK
<1>7. Reading'
  BY <1>4 DEF Reading
<1>8. NextPressMirrors'
  BY DEF SendSettings, IInv, NextPressMirrors
<1>9. OneChoiceAtATime'
  <2>1. SUFFICES ASSUME seen'.paced
                 PROVE  (/\ BlocksCurrent /\ WritesCurrent /\ StoredRecent
                         /\ ReadRecent /\ SentRecent /\ ShownRecent)'
    BY DEF OneChoiceAtATime
  <2>2. /\ seen.paced /\ BlocksCurrent /\ WritesCurrent /\ StoredRecent
        /\ ReadRecent /\ SentRecent /\ ShownRecent
    BY <2>1 DEF SendSettings, IInv, OneChoiceAtATime
  <2>3. BlocksCurrent'
    BY <1>1, <2>2 DEF SendSettings, BlockEnds, BlocksCurrent
  <2>4. WritesCurrent'
    BY <2>2 DEF SendSettings, WritesCurrent
  <2>5. StoredRecent'
    BY <1>1, <2>2 DEF SendSettings, BlockEnds, StoredRecent, Recent, ToStore
  <2>6. ReadRecent'
    BY <1>4 DEF ReadRecent
  <2>7. SentRecent'
    BY <1>2, <1>3, <2>2 DEF SendSettings, SentRecent, SeenTypeOK, Recent,
       ReadRecent
  <2>8. ShownRecent'
    BY <1>2, <1>3 DEF ShownRecent, Underway
  <2>. QED
    BY <2>3, <2>4, <2>5, <2>6, <2>7, <2>8
<1>. QED
  BY <1>5, <1>6, <1>7, <1>8, <1>9 DEF IInv

\* A setter's block runs.
LEMMA RunWriteInv ==
    ASSUME IInv, NEW i \in DOMAIN writes, RunWrite(i)
    PROVE  IInv'
<1>1. /\ writes[i] \in Setters
      /\ writes' \in Seq(Setters)
      /\ Range(writes) = {writes[i]} \union Range(writes')
  <2>1. writes \in Seq(Setters)
    BY TypeFacts
  <2>. QED
    BY <2>1, RemoveRange DEF RunWrite
<1>2. PICK w \in Setters : w = writes[i]
  BY <1>1
<1>3. /\ stored' = [stored EXCEPT ![w.of] = w.value]
      /\ w.of \in Settings /\ w.value \in Values
  BY <1>2 DEF RunWrite, Setters
<1>4. ControlsTypeOK'
  BY <1>1 DEF RunWrite, IInv, ControlsTypeOK, Setters
<1>5. SeenTypeOK'
  BY TypeFacts DEF RunWrite, SeenTypeOK
<1>6. Reading'
  BY DEF RunWrite, IInv, Reading
<1>7. NextPressMirrors'
  BY DEF RunWrite, IInv, NextPressMirrors
<1>8. OneChoiceAtATime'
  <2>1. SUFFICES ASSUME seen'.paced
                 PROVE  (/\ BlocksCurrent /\ WritesCurrent /\ StoredRecent
                         /\ ReadRecent /\ SentRecent /\ ShownRecent)'
    BY DEF OneChoiceAtATime
  <2>2. /\ seen.paced /\ BlocksCurrent /\ WritesCurrent /\ StoredRecent
        /\ ReadRecent /\ SentRecent /\ ShownRecent
    BY <2>1 DEF RunWrite, IInv, OneChoiceAtATime
  <2>3. BlocksCurrent'
    BY <2>2 DEF RunWrite, BlocksCurrent
  <2>4. WritesCurrent'
    BY <1>1, <2>2 DEF RunWrite, WritesCurrent
  <2>5. StoredRecent'
    <3>1. SUFFICES ASSUME NEW s \in Settings
                   PROVE  /\ stored'[s] \in Recent(s)'
                          /\ stored'[s] # seen'.choice[s] => ToStore(s)'
      BY DEF StoredRecent
    <3>2. seen' = seen /\ stream' = stream
      BY DEF RunWrite
    <3>3. CASE s = w.of
      <4>1. stored'[s] = seen.choice[s]
        BY <1>1, <1>2, <1>3, <2>2, <3>3, TypeFacts DEF WritesCurrent
      <4>. QED
        BY <3>2, <4>1 DEF Recent
    <3>4. CASE s # w.of
      <4>1. stored'[s] = stored[s]
        BY <1>3, <3>4, TypeFacts
      <4>2. ToStore(s) => ToStore(s)'
        BY <1>1, <1>2, <3>2, <3>4 DEF ToStore
      <4>. QED
        BY <2>2, <3>2, <4>1, <4>2 DEF StoredRecent, Recent
    <3>. QED
      BY <3>3, <3>4
  <2>6. ReadRecent'
    BY <2>2 DEF RunWrite, ReadRecent, Recent
  <2>7. SentRecent'
    BY <2>2 DEF RunWrite, SentRecent, Recent
  <2>8. ShownRecent'
    BY <2>2 DEF RunWrite, ShownRecent, Recent, Underway
  <2>. QED
    BY <2>3, <2>4, <2>5, <2>6, <2>7, <2>8
<1>. QED
  BY <1>4, <1>5, <1>6, <1>7, <1>8 DEF IInv

\* A slider is moved, or the defaults are chosen.
LEMMA ChooseInv ==
    ASSUME IInv, NEW D \in SUBSET Settings, NEW choice \in [D -> Values], Choose(choice)
    PROVE  IInv'
<1>1. PICK op \in Ops : op = [kind |-> "set", choice |-> choice] /\ Touch(op)
  BY DEF Choose, Ops
<1>2. /\ stream' \in Seq(Ops) /\ Range(stream') = Range(stream) \union {op}
      /\ stream # <<>> => Head(stream') = Head(stream)
      /\ stream' # <<>> /\ touches' \in 0 .. MaxTouches
      /\ UNCHANGED <<got, writes, control, stored, tag, camera, cameras>>
  BY <1>1, TouchFacts
<1>3. /\ seen'.before = seen.choice /\ seen'.setLost = seen.setLost
      /\ seen'.mirrored = seen.mirrored
      /\ seen'.choice = Over(choice, seen.choice) /\ seen'.paced = (seen.paced /\ Quiet)
  BY TypeFacts DEF Choose, SeenTypeOK
<1>4. /\ seen'.choice \in [Settings -> Values]
      /\ \A s \in D : seen'.choice[s] = choice[s]
      /\ \A s \in Settings \ D : seen'.choice[s] = seen.choice[s]
  BY <1>3, TypeFacts DEF SeenTypeOK, Over
<1>5. Quiet => /\ Range(stream) = {} /\ Range(writes) = {} /\ Range(control) = {}
               /\ DOMAIN got = {}
  BY DEF Quiet, Range, IInv, Reading, NotReading
<1>6. ControlsTypeOK'
  BY <1>2 DEF Choose, IInv, ControlsTypeOK
<1>7. SeenTypeOK'
  BY <1>4, TypeFacts DEF Choose, SeenTypeOK
<1>8. Reading'
  BY <1>2 DEF IInv, Reading
<1>9. NextPressMirrors'
  BY <1>2 DEF Choose, IInv, NextPressMirrors
<1>10. OneChoiceAtATime'
  <2>1. SUFFICES ASSUME seen'.paced
                 PROVE  (/\ BlocksCurrent /\ WritesCurrent /\ StoredRecent
                         /\ ReadRecent /\ SentRecent /\ ShownRecent)'
    BY DEF OneChoiceAtATime
  <2>2. /\ seen.paced /\ BlocksCurrent /\ WritesCurrent /\ StoredRecent
        /\ ReadRecent /\ SentRecent /\ ShownRecent
    BY <2>1 DEF Choose, SeenTypeOK, IInv, OneChoiceAtATime
  <2>3. BlocksCurrent'
    <3>1. Range(stream') = {op}
      BY <1>2, <1>3, <1>5, <2>1
    <3>2. op.choice = choice /\ DOMAIN choice = D
      BY <1>1
    <3>. QED
      BY <1>4, <3>1, <3>2 DEF BlocksCurrent
  <2>4. WritesCurrent'
    BY <1>2, <1>3, <1>5, <2>1 DEF WritesCurrent
  <2>5. StoredRecent'
    <3>1. SUFFICES ASSUME NEW s \in Settings
                   PROVE  /\ stored'[s] \in Recent(s)'
                          /\ stored'[s] # seen'.choice[s] => ToStore(s)'
      BY DEF StoredRecent
    <3>2. stored'[s] = seen.choice[s]
      BY <1>2, <1>3, <1>5, <2>1, <2>2 DEF StoredRecent, ToStore
    <3>3. stored'[s] \in Recent(s)'
      BY <1>3, <3>2 DEF Recent
    <3>4. CASE s \in D
      <4>1. op \in Range(stream') /\ op.kind = "set" /\ s \in DOMAIN op.choice
        BY <1>1, <1>2, <3>4
      <4>. QED
        BY <3>3, <4>1 DEF ToStore
    <3>5. CASE s \notin D
      BY <1>4, <3>2, <3>3, <3>5
    <3>. QED
      BY <3>4, <3>5
  <2>6. ReadRecent'
    BY <1>2, <1>3, <1>5, <2>1 DEF ReadRecent
  <2>7. SentRecent'
    BY <1>2, <1>3, <1>5, <2>1 DEF SentRecent
  <2>8. ShownRecent'
    BY <1>1, <1>2 DEF ShownRecent, Underway
  <2>. QED
    BY <2>3, <2>4, <2>5, <2>6, <2>7, <2>8
<1>. QED
  BY <1>6, <1>7, <1>8, <1>9, <1>10 DEF IInv

\* A message is sent to the camera.
LEMMA SendMessageInv ==
    ASSUME IInv, SendMessage
    PROVE  IInv'
<1>1. PICK i \in DOMAIN control, acked \in BOOLEAN, arrived \in BOOLEAN :
        /\ Sendable(i) /\ (acked => arrived)
        /\ camera' = IF arrived THEN Obeyed(control[i]) ELSE camera
        /\ tag' = TagAfter(control[i], acked)
        /\ seen' = Noted(control[i], acked, arrived)
        /\ control' = RemoveAt(control, i)
        /\ UNCHANGED <<fingers, touches, stream, got, writes, stored, cameras>>
  BY DEF SendMessage
<1>2. PICK m \in Messages : /\ m = control[i] /\ control' \in Seq(Messages)
                           /\ Range(control) = {m} \union Range(control')
  BY <1>1, TypeFacts, RemoveRange
<1>3. m.kind \in {"turn", "mirror", "set"}
  BY DEF Messages
<1>4. ControlsTypeOK'
  BY <1>1, <1>2 DEF Obeyed, TagAfter, IInv, ControlsTypeOK, Messages
<1>5. SeenTypeOK'
  BY <1>1, <1>2, <1>3, TypeFacts DEF Noted, SeenTypeOK
<1>6. Reading'
  BY <1>1 DEF IInv, Reading
<1>7. NextPressMirrors'
  BY <1>1, <1>2, <1>3, TypeFacts DEF Obeyed, TagAfter, Noted, IInv,
     NextPressMirrors
<1>8. OneChoiceAtATime'
  <2>1. SUFFICES ASSUME seen'.paced
                 PROVE  (/\ BlocksCurrent /\ WritesCurrent /\ StoredRecent
                         /\ ReadRecent /\ SentRecent /\ ShownRecent)'
    BY DEF OneChoiceAtATime
  <2>2. /\ seen.paced /\ BlocksCurrent /\ WritesCurrent /\ StoredRecent
        /\ ReadRecent /\ SentRecent /\ ShownRecent
    BY <1>1, <1>2, <1>3, <2>1 DEF Noted, IInv, OneChoiceAtATime
  <2>3. BlocksCurrent'
    BY <1>1, <1>2, <1>3, <2>2 DEF Noted, BlocksCurrent
  <2>4. WritesCurrent'
    BY <1>1, <1>2, <1>3, <2>2 DEF Noted, WritesCurrent
  <2>5. StoredRecent'
    BY <1>1, <1>2, <1>3, <2>2 DEF Noted, StoredRecent, Recent, ToStore
  <2>6. ReadRecent'
    BY <1>1, <1>2, <1>3, <2>2 DEF Noted, ReadRecent, Recent
  <2>7. SentRecent'
    BY <1>1, <1>2, <1>3, <2>2 DEF Noted, SentRecent, Recent
  <2>8. ShownRecent'
    BY <1>1, <1>2, <1>3, TypeFacts, <2>2 DEF Obeyed, Noted, ShownRecent,
       SeenTypeOK, Recent, Underway, SentRecent
  <2>. QED
    BY <2>3, <2>4, <2>5, <2>6, <2>7, <2>8
<1>. QED
  BY <1>4, <1>5, <1>6, <1>7, <1>8 DEF IInv

-----------------------------------------------------------------------------
(* The theorems.                                                           *)

LEMMA InitInv == Init => IInv
<1>. SUFFICES ASSUME Init PROVE IInv
  OBVIOUS
<1>1. /\ stored \in [Settings -> Values] /\ Default \in Values
      /\ NotReading \in [{} -> Values] /\ DOMAIN NotReading = {} /\ Range(NotReading) = {}
      /\ Range(stream) = {} /\ Range(writes) = {} /\ Range(control) = {}
  BY ControlsAssumption DEF Init, NotReading, Range
<1>2. camera \in [turn : Turns \union {Stop}, mirror : {0, 1},
                  set : [Settings -> Values \union {Unknown}]]
  BY DEF Init, FreshCamera
<1>3. SeenTypeOK
  BY <1>1 DEF Init, SeenTypeOK
<1>4. ControlsTypeOK
  BY <1>1, <1>2, ControlsAssumption DEF Init, ControlsTypeOK
<1>5. Reading
  BY <1>1 DEF Init, Reading
<1>6. NextPressMirrors /\ OneChoiceAtATime
  BY <1>1 DEF Init, NextPressMirrors, OneChoiceAtATime, BlocksCurrent,
     WritesCurrent, StoredRecent, ReadRecent, SentRecent, ShownRecent, Recent
<1>. QED
  BY <1>3, <1>4, <1>5, <1>6 DEF IInv

LEMMA NextInv ==
    ASSUME IInv, [Next]_vars
    PROVE  IInv'
<1>1. CASE User
  <2>1. ASSUME NEW s \in Settings, NEW v \in Values, Choose([x \in {s} |-> v])
        PROVE  IInv'
    <3>1. {s} \in SUBSET Settings /\ [x \in {s} |-> v] \in [{s} -> Values]
      OBVIOUS
    <3>. QED
      BY <2>1, <3>1, ChooseInv
  <2>2. CASE PressDefaults
    <3>1. [s \in Settings |-> Default] \in [Settings -> Values]
      BY ControlsAssumption
    <3>. QED
      BY <2>2, <3>1, ChooseInv DEF PressDefaults
  <2>. QED
    BY <1>1, <2>1, <2>2, PressTurnInv, LiftInsideInv, LiftOutsideInv,
       PressMirrorInv, OpenAnotherInv DEF User, MoveSlider
<1>2. CASE StreamQueue
  BY <1>2, ForwardInv, StoreSettingInv, ReadSettingInv, SendSettingsInv DEF
     StreamQueue
<1>3. CASE GlobalQueue
  BY <1>3, RunWriteInv DEF GlobalQueue
<1>4. CASE SendMessage
  BY <1>4, SendMessageInv
<1>5. CASE UNCHANGED vars
  BY <1>5 DEF vars, IInv, ControlsTypeOK, SeenTypeOK, Reading,
     NextPressMirrors, OneChoiceAtATime, BlocksCurrent, WritesCurrent,
     StoredRecent, ReadRecent, SentRecent, ShownRecent, Recent, ToStore,
     Underway
<1>. QED
  BY <1>1, <1>2, <1>3, <1>4, <1>5 DEF Next

\* The invariant holds in every state of the program.
THEOREM InvariantHolds == Spec => []IInv
<1>. QED
  BY InitInv, NextInv, PTL DEF Spec

\* Every variable has its type; what is sent to a camera as settings names all
\* of them (P2PManager.m 1004-1030).
THEOREM TypeCorrect == Spec => []ControlsTypeOK
<1>1. IInv => ControlsTypeOK
  BY DEF IInv
<1>. QED
  BY <1>1, InvariantHolds, PTL

\* However many messages are lost, the tag of P2PManager asks for the opposite
\* of what this camera shows once it has acknowledged a press of mirror
\* (P2PManager.m 876-890).
THEOREM PressesMirror == Spec => []NextPressMirrors
<1>1. IInv => NextPressMirrors
  BY DEF IInv
<1>. QED
  BY <1>1, InvariantHolds, PTL

\* A choice made in peace reaches the camera with the next, though the message
\* is filled with what is read before the setters may have run
\* (P2PManager.m 971-995).
THEOREM ChoicesArrive == Spec => []PacedChoiceArrives
<1>1. ASSUME IInv, Quiet, seen.paced, ~seen.setLost, NEW s \in Settings,
             seen.before[s] = seen.choice[s]
      PROVE  camera.set[s] = seen.choice[s]
  <2>1. Range(stream) = {} /\ Range(control) = {}
    BY <1>1 DEF Quiet, Range
  <2>2. ShownRecent
    BY <1>1 DEF IInv, OneChoiceAtATime
  <2>. QED
    BY <1>1, <2>1, <2>2 DEF ShownRecent, Underway, Recent
<1>2. IInv => PacedChoiceArrives
  BY <1>1 DEF PacedChoiceArrives
<1>. QED
  BY <1>2, InvariantHolds, PTL

-----------------------------------------------------------------------------
(* Turns: none overtakes another on its way through the two queues.        *)

\* No turn is in a queue; the last turn in a queue, if there is one, is t.
NoTurn(q) == \A i \in DOMAIN q : q[i].kind # "turn"
LastTurnIs(q, t) ==
    \A i \in DOMAIN q :
        /\ q[i].kind = "turn"
        /\ \A j \in DOMAIN q : j > i => q[j].kind # "turn"
        => q[i].turn = t

\* The last turn asked for is the last on streamQueue, else the last on the
\* control queue, else what the camera does, unless its message failed.
TurnsInOrder ==
    /\ LastTurnIs(stream, seen.turn)
    /\ NoTurn(stream) => LastTurnIs(control, seen.turn)
    /\ NoTurn(stream) /\ NoTurn(control) => seen.turnLost \/ camera.turn = seen.turn

\* What comes to the end of a queue is its last turn if it is one.
LEMMA AppendTurns ==
    ASSUME NEW S, NEW q \in Seq(S), NEW e \in S, NEW t
    PROVE  /\ e.kind = "turn" => /\ ~NoTurn(Append(q, e))
                                 /\ e.turn = t => LastTurnIs(Append(q, e), t)
           /\ e.kind # "turn" => /\ NoTurn(Append(q, e)) <=> NoTurn(q)
                                 /\ LastTurnIs(q, t) => LastTurnIs(Append(q, e), t)
<1>1. PICK n \in Nat : n = Len(q) /\ DOMAIN q = 1 .. n
  BY LenProperties
<1>2. PICK r \in Seq(S) : r = Append(q, e)
  BY AppendProperties
<1>3. Len(r) = n + 1 /\ (\A i \in 1 .. n : r[i] = q[i]) /\ r[n + 1] = e
  BY <1>1, <1>2, AppendProperties
<1>4. DOMAIN r = 1 .. n + 1
  BY <1>3, LenProperties
<1>5. n + 1 \in 1 .. n + 1 /\ \A i \in 1 .. n + 1 : i \in 1 .. n \/ i = n + 1
  BY <1>1
<1>6. ASSUME e.kind = "turn" PROVE ~NoTurn(r)
  BY <1>3, <1>4, <1>5, <1>6 DEF NoTurn
<1>7. ASSUME e.kind = "turn", e.turn = t PROVE LastTurnIs(r, t)
  <2>1. ASSUME NEW i \in 1 .. n + 1, \A j \in 1 .. n + 1 : j > i => r[j].kind # "turn"
        PROVE  i = n + 1
    BY <1>1, <1>3, <1>7, <2>1
  <2>. QED
    BY <1>3, <1>4, <1>7, <2>1 DEF LastTurnIs
<1>8. ASSUME e.kind # "turn" PROVE NoTurn(r) <=> NoTurn(q)
  <2>1. \A i \in 1 .. n : i \in 1 .. n + 1
    BY <1>1
  <2>. QED
    BY <1>1, <1>3, <1>4, <1>5, <1>8, <2>1 DEF NoTurn
<1>9. ASSUME e.kind # "turn", LastTurnIs(q, t) PROVE LastTurnIs(r, t)
  <2>1. ASSUME NEW i \in 1 .. n + 1, r[i].kind = "turn",
               \A j \in 1 .. n + 1 : j > i => r[j].kind # "turn"
        PROVE  r[i].turn = t
    <3>1. i \in 1 .. n /\ q[i] = r[i]
      BY <1>3, <1>5, <1>9, <2>1
    <3>2. \A j \in 1 .. n : j \in 1 .. n + 1 /\ q[j] = r[j]
      BY <1>1, <1>3
    <3>3. \A j \in 1 .. n : j > i => q[j].kind # "turn"
      BY <2>1, <3>2
    <3>. QED
      BY <1>1, <1>9, <2>1, <3>1, <3>3 DEF LastTurnIs
  <2>. QED
    BY <1>4, <2>1 DEF LastTurnIs
<1>. QED
  BY <1>2, <1>6, <1>7, <1>8, <1>9

\* When the head of a queue is done the last turn stays; a turn that leaves no
\* other behind was the last.
LEMMA TailTurns ==
    ASSUME NEW S, NEW q \in Seq(S), q # <<>>, NEW t
    PROVE  /\ LastTurnIs(q, t) => LastTurnIs(Tail(q), t)
           /\ LastTurnIs(q, t) /\ Head(q).kind = "turn" /\ NoTurn(Tail(q))
                => Head(q).turn = t
           /\ NoTurn(q) <=> Head(q).kind # "turn" /\ NoTurn(Tail(q))
           /\ Head(q).kind # "turn" /\ LastTurnIs(Tail(q), t) => LastTurnIs(q, t)
<1>1. PICK n \in Nat : n = Len(q) /\ DOMAIN q = 1 .. n /\ n # 0
  BY LenProperties, EmptySeq
<1>2. PICK r \in Seq(S) : r = Tail(q)
  BY HeadTailProperties
<1>3. Len(r) = n - 1 /\ \A i \in 1 .. n - 1 : r[i] = q[i + 1]
  BY <1>1, <1>2, HeadTailProperties
<1>4. DOMAIN r = 1 .. n - 1
  BY <1>3, LenProperties
<1>5. PICK h : h = Head(q) /\ h = q[1]
  OBVIOUS
<1>6. /\ 1 \in 1 .. n
      /\ \A i \in 1 .. n - 1 : i + 1 \in 1 .. n /\ i + 1 > 1
      /\ \A i \in 1 .. n : i # 1 => i - 1 \in 1 .. n - 1 /\ (i - 1) + 1 = i
  BY <1>1
<1>7. \A i \in 1 .. n : i # 1 => q[i] = r[i - 1]
  <2>1. ASSUME NEW i \in 1 .. n, i # 1 PROVE q[i] = r[i - 1]
    <3>1. PICK k \in 1 .. n - 1 : k = i - 1 /\ k + 1 = i
      BY <1>6, <2>1
    <3>. QED
      BY <1>3, <3>1
  <2>. QED
    BY <2>1
<1>8. ASSUME LastTurnIs(q, t) PROVE LastTurnIs(r, t)
  <2>1. ASSUME NEW i \in 1 .. n - 1, r[i].kind = "turn",
               \A j \in 1 .. n - 1 : j > i => r[j].kind # "turn"
        PROVE  r[i].turn = t
    <3>1. i + 1 \in 1 .. n /\ q[i + 1] = r[i]
      BY <1>3, <1>6
    <3>2. ASSUME NEW j \in 1 .. n, j > i + 1 PROVE q[j].kind # "turn"
      <4>1. PICK k \in 1 .. n - 1 : k = j - 1 /\ k > i /\ j # 1
        BY <1>1, <3>2
      <4>. QED
        BY <1>7, <2>1, <4>1
    <3>. QED
      BY <1>1, <1>8, <2>1, <3>1, <3>2 DEF LastTurnIs
  <2>. QED
    BY <1>4, <2>1 DEF LastTurnIs
<1>9. ASSUME LastTurnIs(q, t), h.kind = "turn", NoTurn(r) PROVE h.turn = t
  <2>1. ASSUME NEW j \in 1 .. n, j > 1 PROVE q[j].kind # "turn"
    <3>1. PICK k \in 1 .. n - 1 : k = j - 1 /\ j # 1
      BY <1>1, <2>1
    <3>. QED
      BY <1>4, <1>7, <1>9, <3>1 DEF NoTurn
  <2>. QED
    BY <1>1, <1>5, <1>6, <1>9, <2>1 DEF LastTurnIs
<1>10. NoTurn(q) <=> h.kind # "turn" /\ NoTurn(r)
  <2>1. ASSUME NoTurn(q) PROVE h.kind # "turn" /\ NoTurn(r)
    BY <1>1, <1>3, <1>4, <1>5, <1>6, <2>1 DEF NoTurn
  <2>2. ASSUME h.kind # "turn", NoTurn(r) PROVE NoTurn(q)
    <3>1. ASSUME NEW i \in 1 .. n PROVE q[i].kind # "turn"
      <4>1. CASE i = 1
        BY <1>5, <2>2, <4>1
      <4>2. CASE i # 1
        <5>1. PICK k \in 1 .. n - 1 : k = i - 1 /\ q[i] = r[k]
          BY <1>6, <1>7, <4>2
        <5>. QED
          BY <1>4, <2>2, <5>1 DEF NoTurn
      <4>. QED
        BY <4>1, <4>2
    <3>. QED
      BY <1>1, <3>1 DEF NoTurn
  <2>. QED
    BY <2>1, <2>2
<1>11. ASSUME h.kind # "turn", LastTurnIs(r, t) PROVE LastTurnIs(q, t)
  <2>1. ASSUME NEW i \in 1 .. n, q[i].kind = "turn",
               \A j \in 1 .. n : j > i => q[j].kind # "turn"
        PROVE  q[i].turn = t
    <3>1. PICK k \in 1 .. n - 1 : k = i - 1 /\ k + 1 = i /\ q[i] = r[k]
      BY <1>5, <1>6, <1>7, <1>11, <2>1
    <3>2. ASSUME NEW j \in 1 .. n - 1, j > k PROVE r[j].kind # "turn"
      <4>1. j + 1 \in 1 .. n /\ j + 1 > i /\ r[j] = q[j + 1]
        BY <1>1, <1>3, <3>1, <3>2
      <4>. QED
        BY <2>1, <4>1
    <3>. QED
      BY <1>4, <1>11, <2>1, <3>1, <3>2 DEF LastTurnIs
  <2>. QED
    BY <1>1, <2>1 DEF LastTurnIs
<1>. QED
  BY <1>2, <1>5, <1>8, <1>9, <1>10, <1>11

\* A block that is no turn comes before a queue.
LEMMA PrependTurns ==
    ASSUME NEW S, NEW q \in Seq(S), NEW e \in S, e.kind # "turn", NEW t
    PROVE  /\ NoTurn(<<e>> \o q) <=> NoTurn(q)
           /\ LastTurnIs(q, t) => LastTurnIs(<<e>> \o q, t)
<1>1. PICK r \in Seq(S) : r = <<e>> \o q /\ r # <<>> /\ Head(r) = e
  BY PrependRange
<1>2. Tail(r) = q
  BY <1>1
<1>. QED
  BY <1>1, <1>2, TailTurns

\* The first message of the control queue is taken out.
LEMMA FirstRemoved ==
    ASSUME NEW S, NEW q \in Seq(S), q # <<>>
    PROVE  RemoveAt(q, 1) = Tail(q) /\ q[1] = Head(q)
<1>1. PICK r \in Seq(S) : r = Tail(q) /\ r = SubSeq(q, 2, Len(q))
  BY HeadTailProperties, TailIsSubSeq
<1>2. SubSeq(q, 1, 1 - 1) = <<>>
  BY SubSeqEmpty
<1>3. SubSeq(q, 1 + 1, Len(q)) = r
  BY <1>1
<1>4. RemoveAt(q, 1) = <<>> \o r
  BY <1>2, <1>3, Zenon DEF RemoveAt
<1>5. <<>> \o r = r
  BY ConcatEmptySeq
<1>6. q[1] = Head(q)
  OBVIOUS
<1>. QED
  BY <1>1, <1>4, <1>5, <1>6, Zenon

LEMMA InitTurns == Init => TurnsInOrder
<1>1. ASSUME Init PROVE TurnsInOrder
  <2>1. DOMAIN stream = {} /\ DOMAIN control = {} /\ camera.turn = Stop /\ seen.turn = Stop
    BY <1>1 DEF Init, FreshCamera
  <2>. QED
    BY <2>1 DEF TurnsInOrder, LastTurnIs, NoTurn
<1>. QED
  BY <1>1

\* A touch that asks for a turn, and one that does not.
LEMMA TouchTurns ==
    ASSUME IInv, TurnsInOrder, NEW op \in Ops, Touch(op),
           IF op.kind = "turn" THEN seen'.turn = op.turn
           ELSE seen'.turn = seen.turn /\ seen'.turnLost = seen.turnLost
    PROVE  TurnsInOrder'
<1>1. stream \in Seq(Ops) /\ stream' = Append(stream, op)
      /\ control' = control /\ camera' = camera
  BY TypeFacts DEF Touch
<1>2. CASE op.kind = "turn"
  <2>1. ~NoTurn(stream') /\ LastTurnIs(stream', seen'.turn)
    BY <1>1, <1>2, AppendTurns
  <2>. QED
    BY <2>1 DEF TurnsInOrder
<1>3. CASE op.kind # "turn"
  <2>1. (NoTurn(stream') <=> NoTurn(stream)) /\ LastTurnIs(stream', seen.turn)
    BY <1>1, <1>3, AppendTurns DEF TurnsInOrder
  <2>. QED
    BY <1>1, <1>3, <2>1 DEF TurnsInOrder
<1>. QED
  BY <1>2, <1>3

\* Forward hands a turn from the front of streamQueue to the end of the control
\* queue, behind the turns asked for before it.
LEMMA ForwardTurns ==
    ASSUME IInv, TurnsInOrder, Forward
    PROVE  TurnsInOrder'
<1>1. PICK m \in Messages : /\ m = Head(stream) /\ control' = Append(control, m)
  <2>1. Head(stream) \in Ops /\ Head(stream).kind \in {"turn", "mirror"}
    BY TypeFacts, TailRange DEF Forward
  <2>2. Head(stream) \in Messages
    BY <2>1 DEF Ops, Messages
  <2>. QED
    BY <2>2 DEF Forward
<1>2. /\ stream \in Seq(Ops) /\ stream # <<>> /\ stream' = Tail(stream)
      /\ control \in Seq(Messages) /\ seen' = seen /\ camera' = camera
  BY TypeFacts DEF Forward, BlockEnds
<1>3. LastTurnIs(stream', seen'.turn)
  BY <1>2, TailTurns DEF TurnsInOrder
<1>4. CASE m.kind = "turn"
  <2>1. ~NoTurn(control')
    BY <1>1, <1>2, <1>4, AppendTurns
  <2>2. NoTurn(stream') => m.turn = seen.turn
    BY <1>1, <1>2, <1>4, TailTurns DEF TurnsInOrder
  <2>3. m.turn = seen.turn => LastTurnIs(control', seen.turn)
    BY <1>1, <1>2, <1>4, AppendTurns
  <2>. QED
    BY <1>2, <1>3, <2>1, <2>2, <2>3 DEF TurnsInOrder
<1>5. CASE m.kind # "turn"
  <2>1. NoTurn(stream') <=> NoTurn(stream)
    BY <1>1, <1>2, <1>5, TailTurns
  <2>2. NoTurn(control') <=> NoTurn(control)
    BY <1>1, <1>2, <1>5, AppendTurns
  <2>3. LastTurnIs(control, seen.turn) => LastTurnIs(control', seen.turn)
    BY <1>1, <1>2, <1>5, AppendTurns
  <2>. QED
    BY <1>2, <1>3, <2>1, <2>2, <2>3 DEF TurnsInOrder
<1>. QED
  BY <1>4, <1>5

\* StoreSetting replaces the block at the front by one that is no turn either.
LEMMA StoreTurns ==
    ASSUME IInv, TurnsInOrder, StoreSetting
    PROVE  TurnsInOrder'
<1>1. PICK e \in Ops : e = [kind |-> "read"]
  BY DEF Ops
<1>2. PICK q \in Seq(Ops) : q = Tail(stream)
  BY TypeFacts, TailRange DEF StoreSetting
<1>3. /\ stream \in Seq(Ops) /\ stream # <<>> /\ Head(stream).kind # "turn"
      /\ stream' = <<e>> \o q /\ e.kind # "turn"
      /\ UNCHANGED <<control, seen, camera>>
  BY <1>1, <1>2, TypeFacts DEF StoreSetting
<1>4. /\ NoTurn(stream) <=> NoTurn(q)
      /\ LastTurnIs(q, seen.turn)
  BY <1>2, <1>3, TailTurns DEF TurnsInOrder
<1>5. /\ NoTurn(stream') <=> NoTurn(q)
      /\ LastTurnIs(stream', seen.turn)
  BY <1>3, <1>4, PrependTurns
<1>. QED
  BY <1>3, <1>4, <1>5 DEF TurnsInOrder

\* SendSettings hands on a message that is no turn.
LEMMA SettingsTurns ==
    ASSUME IInv, TurnsInOrder, SendSettings
    PROVE  TurnsInOrder'
<1>1. PICK m \in Messages : m.kind # "turn" /\ control' = Append(control, m)
  <2>1. got \in [Settings -> Values]
    BY TypeFacts DEF SendSettings
  <2>2. [kind |-> "set", set |-> got] \in Messages
    BY <2>1 DEF Messages
  <2>. QED
    BY <2>2 DEF SendSettings
<1>2. /\ stream \in Seq(Ops) /\ stream # <<>> /\ stream' = Tail(stream)
      /\ Head(stream).kind # "turn"
      /\ control \in Seq(Messages) /\ seen' = seen /\ camera' = camera
  BY TypeFacts DEF SendSettings, BlockEnds
<1>3. /\ LastTurnIs(stream', seen.turn)
      /\ NoTurn(stream') <=> NoTurn(stream)
  BY <1>2, TailTurns DEF TurnsInOrder
<1>4. /\ NoTurn(control') <=> NoTurn(control)
      /\ LastTurnIs(control, seen.turn) => LastTurnIs(control', seen.turn)
  BY <1>1, <1>2, AppendTurns
<1>. QED
  BY <1>2, <1>3, <1>4 DEF TurnsInOrder

\* The message at the front of the control queue is sent, and not lost unless
\* it is noted.
LEMMA SendTurns ==
    ASSUME IInv, TurnsInOrder, SendMessage
    PROVE  TurnsInOrder'
<1>1. PICK i \in DOMAIN control, acked \in BOOLEAN, arrived \in BOOLEAN :
        /\ Sendable(i) /\ (acked => arrived)
        /\ camera' = IF arrived THEN Obeyed(control[i]) ELSE camera
        /\ seen' = Noted(control[i], acked, arrived)
        /\ control' = RemoveAt(control, i)
        /\ UNCHANGED stream
  BY DEF SendMessage
<1>2. control \in Seq(Messages) /\ control # <<>> /\ i = 1
  BY <1>1, TypeFacts DEF Sendable
<1>3. PICK m \in Messages : m = Head(control) /\ m = control[i] /\ control' = Tail(control)
  <2>1. RemoveAt(control, 1) = Tail(control) /\ control[1] = Head(control)
    BY <1>2, FirstRemoved
  <2>2. Head(control) \in Messages
    BY <1>2, TailRange
  <2>. QED
    BY <1>1, <1>2, <2>1, <2>2
<1>4. /\ LastTurnIs(control, seen.turn) => LastTurnIs(control', seen.turn)
      /\ LastTurnIs(control, seen.turn) /\ m.kind = "turn" /\ NoTurn(control')
           => m.turn = seen.turn
      /\ NoTurn(control) <=> m.kind # "turn" /\ NoTurn(control')
  BY <1>2, <1>3, TailTurns
<1>5. m.kind \in {"turn", "mirror", "set"} /\ SeenTypeOK
      /\ camera \in [turn : Turns \union {Stop}, mirror : {0, 1},
                     set : [Settings -> Values \union {Unknown}]]
  BY TypeFacts DEF Messages
<1>6. seen'.turn = seen.turn
  BY <1>1, <1>3, <1>5 DEF Noted, SeenTypeOK
<1>7. CASE m.kind = "turn"
  <2>1. ~seen'.turnLost => camera'.turn = m.turn
    BY <1>1, <1>3, <1>5, <1>7 DEF Noted, Obeyed, SeenTypeOK
  <2>. QED
    BY <1>1, <1>4, <1>6, <1>7, <2>1 DEF TurnsInOrder
<1>8. CASE m.kind # "turn"
  <2>1. seen'.turnLost = seen.turnLost
    BY <1>1, <1>3, <1>5, <1>8 DEF Noted, SeenTypeOK
  <2>2. camera'.turn = camera.turn
    BY <1>1, <1>3, <1>5, <1>8 DEF Obeyed
  <2>. QED
    BY <1>1, <1>4, <1>6, <1>8, <2>1, <2>2 DEF TurnsInOrder
<1>. QED
  BY <1>7, <1>8

LEMMA TurnsStep ==
    ASSUME IInv, TurnsInOrder, [Next]_vars
    PROVE  TurnsInOrder'
<1>0. SeenTypeOK
  BY TypeFacts
<1>1. ASSUME NEW t \in Turns, PressTurn(t) PROVE TurnsInOrder'
  <2>1. PICK op \in Ops : op = [kind |-> "turn", turn |-> t] /\ Touch(op)
    BY <1>1 DEF PressTurn, Ops
  <2>2. op.kind = "turn" /\ seen'.turn = op.turn
    BY <1>0, <1>1, <2>1 DEF PressTurn, SeenTypeOK
  <2>. QED
    BY <2>1, <2>2, TouchTurns
<1>2. ASSUME NEW t \in Turns, LiftInside(t) PROVE TurnsInOrder'
  <2>1. PICK op \in Ops : op = [kind |-> "turn", turn |-> Stop] /\ Touch(op)
    BY <1>2 DEF LiftInside, Ops
  <2>2. op.kind = "turn" /\ seen'.turn = op.turn
    BY <1>0, <1>2, <2>1 DEF LiftInside, SeenTypeOK
  <2>. QED
    BY <2>1, <2>2, TouchTurns
<1>3. ASSUME NEW t \in Turns, LiftOutside(t) PROVE TurnsInOrder'
  BY <1>3 DEF LiftOutside, TurnsInOrder
<1>4. CASE PressMirror
  <2>1. PICK op \in Ops : op = [kind |-> "mirror"] /\ Touch(op)
    BY <1>4 DEF PressMirror, Ops
  <2>. QED
    BY <1>4, <2>1, TouchTurns DEF PressMirror
<1>5. ASSUME NEW D \in SUBSET Settings, NEW choice \in [D -> Values], Choose(choice)
      PROVE  TurnsInOrder'
  <2>1. PICK op \in Ops : op = [kind |-> "set", choice |-> choice] /\ Touch(op)
    BY <1>5 DEF Choose, Ops
  <2>2. seen'.turn = seen.turn /\ seen'.turnLost = seen.turnLost
    BY <1>0, <1>5 DEF Choose, SeenTypeOK
  <2>. QED
    BY <2>1, <2>2, TouchTurns
<1>6. CASE MoveSlider
  <2>1. PICK s \in Settings, v \in Values : Choose([x \in {s} |-> v])
    BY <1>6 DEF MoveSlider
  <2>2. {s} \in SUBSET Settings /\ [x \in {s} |-> v] \in [{s} -> Values]
    OBVIOUS
  <2>. QED
    BY <1>5, <2>1, <2>2
<1>7. CASE PressDefaults
  <2>1. [s \in Settings |-> Default] \in [Settings -> Values]
    BY ControlsAssumption
  <2>. QED
    BY <1>5, <1>7, <2>1 DEF PressDefaults
<1>8. CASE OpenAnother
  <2>1. seen'.turnLost /\ seen'.turn = seen.turn
    BY <1>0, <1>8 DEF OpenAnother, SeenTypeOK
  <2>. QED
    BY <1>8, <2>1 DEF OpenAnother, TurnsInOrder
<1>9. ASSUME NEW s \in Settings, ReadSetting(s) PROVE TurnsInOrder'
  BY <1>9 DEF ReadSetting, TurnsInOrder
<1>10. CASE GlobalQueue
  BY <1>10 DEF GlobalQueue, RunWrite, TurnsInOrder
<1>11. CASE UNCHANGED vars
  BY <1>11 DEF vars, TurnsInOrder
<1>. QED
  BY <1>1, <1>2, <1>3, <1>4, <1>6, <1>7, <1>8, <1>9, <1>10, <1>11,
     ForwardTurns, StoreTurns, SettingsTurns, SendTurns
  DEF Next, User, StreamQueue

\* Once nothing is under way the camera turns, or stands, as the user asked
\* last, unless that message failed or the camera is another: the turns pass
\* streamQueue and the control queue in the order they were asked for
\* (P2PManager.m 918-970).
THEOREM TurnArrives == Spec => []LastTurnArrived
<1>1. TurnsInOrder => LastTurnArrived
  <2>1. Quiet => NoTurn(stream) /\ NoTurn(control)
    BY DEF Quiet, NoTurn
  <2>. QED
    BY <2>1 DEF TurnsInOrder, LastTurnArrived
<1>2. Spec => []TurnsInOrder
  BY InitTurns, TurnsStep, InvariantHolds, PTL DEF Spec
<1>. QED
  BY <1>1, <1>2, PTL
=============================================================================
