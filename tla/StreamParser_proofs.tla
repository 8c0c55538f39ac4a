------------------------- MODULE StreamParser_proofs -------------------------
(* Proofs about StreamParser, for any streams of units and noise, whatever  *)
(* the sizes of the units, the header and the two buffers, and however the  *)
(* network cuts the bytes.                                                  *)
EXTENDS StreamParser, SequenceTheorems, TLAPS

-----------------------------------------------------------------------------
(* The inductive invariant.                                                *)

Frames == [slices : Seq(DOMAIN units), spoilt : BOOLEAN]

Types ==
    /\ stream \in Streams
    /\ pc \in {"recv", "parse", "failed"}
    /\ found \in BOOLEAN /\ complete \in BOOLEAN /\ spoilt \in BOOLEAN
    /\ frame \in Seq(DOMAIN units) /\ handled \in Seq(DOMAIN units)
    /\ frameLen \in Nat /\ delivered \in Seq(Frames)

Buffer ==
    /\ start \in 1 .. stream.size + 1 /\ got \in 0 .. stream.size
    /\ start <= got + 1 /\ got - start + 1 <= RecvSize

\* The buffer begins behind the n-th unit, or in the noise that follows it, and
\* never in a unit.
Behind(n) ==
    /\ n \in 0 .. Len(units)
    /\ \A i \in 1 .. n : units[i].at + Size(units[i]) <= start
    /\ \A i \in n + 1 .. Len(units) : start <= units[i].at

\* What the n units add up to: each was acted on, the frame buffer holds what is
\* open behind them, and the frames before it were handed over whole.
Collected(n) ==
    /\ Len(handled) = n /\ \A k \in 1 .. n : handled[k] = k
    /\ ~spoilt /\ frameLen = IF n = 0 THEN 0 ELSE OpenAfter(units[n])
    /\ FrameEnd(Len(delivered)) \in 0 .. n
    /\ SlicesOf(frame, FrameEnd(Len(delivered)), n)
    /\ \A j \in 1 .. Len(frame) : ~Ends(frame[j])

Delivered(k) ==
    /\ Ends(FrameEnd(k)) /\ SlicesOf(delivered[k].slices, FrameEnd(k - 1), FrameEnd(k))
    /\ ~delivered[k].spoilt

IInv ==
    /\ Types /\ Buffer
    /\ \E n \in 0 .. Len(units) : Behind(n) /\ (FramesFit => Collected(n))
    /\ FramesFit => \A k \in 1 .. Len(delivered) : Delivered(k)

-----------------------------------------------------------------------------
(* The stream.                                                             *)

\* The units of a stream, where they lie and what is open before each.
LEMMA StreamFacts ==
    ASSUME stream \in Streams
    PROVE  /\ stream.size \in Nat /\ units \in Seq(Unit)
           /\ Len(units) \in Nat /\ DOMAIN units = 1 .. Len(units)
           /\ \A i \in 1 .. Len(units) :
                /\ units[i] \in Unit /\ units[i].at \in Nat \ {0} /\ units[i].len \in Nat
                /\ units[i].open \in Nat /\ Size(units[i]) \in Nat
                /\ Size(units[i]) >= HEAD_SIZE
                /\ units[i].at + Size(units[i]) <= stream.size + 1
                /\ units[i].open = IF i = 1 THEN 0 ELSE OpenAfter(units[i - 1])
           /\ \A i, j \in 1 .. Len(units) :
                i < j => units[i].at + Size(units[i]) <= units[j].at
<1>1. stream \in [units : Seq(Unit), size : Nat] /\ InARow(stream)
  BY ParserAssumption
<1>2. stream.size \in Nat /\ units \in Seq(Unit)
  BY <1>1 DEF units
<1>3. Len(units) \in Nat /\ DOMAIN units = 1 .. Len(units)
  BY <1>2, LenProperties
<1>4. \A i \in 1 .. Len(units) : units[i] \in Unit
  BY <1>2, ElementOfSeq
<1>5. ASSUME NEW i \in 1 .. Len(units)
      PROVE  /\ units[i].at \in Nat \ {0} /\ units[i].len \in Nat /\ units[i].open \in Nat
             /\ Size(units[i]) \in Nat /\ Size(units[i]) >= HEAD_SIZE
  <2>1. units[i].at \in Nat \ {0} /\ units[i].len \in Nat /\ units[i].open \in Nat
    BY <1>4 DEF Unit
  <2>. QED
    BY <2>1, ParserAssumption DEF Size
<1>6. /\ \A i, j \in 1 .. Len(units) :
            i < j => units[i].at + Size(units[i]) <= units[j].at
      /\ \A i \in 1 .. Len(units) :
            /\ units[i].at + Size(units[i]) <= stream.size + 1
            /\ units[i].open = IF i = 1 THEN 0 ELSE OpenAfter(units[i - 1])
  BY <1>1, <1>3 DEF InARow, units
<1>. QED
  BY <1>2, <1>3, <1>4, <1>5, <1>6

\* What is open behind a unit is a number of bytes.
LEMMA OpenType ==
    ASSUME NEW u \in Unit
    PROVE  OpenAfter(u) \in Nat
BY DEF OpenAfter, Unit

\* The search finds the next unit, if it finds any.
LEMMA NextFound ==
    ASSUME Types, Buffer, NEW n \in 0 .. Len(units), Behind(n), Headers # {}
    PROVE  /\ First = n + 1 /\ First \in 1 .. Len(units)
           /\ start <= units[First].at /\ units[First].at <= got - Flag
<1>1. /\ stream \in Streams /\ Len(units) \in Nat /\ n \in Nat /\ n <= Len(units)
      /\ DOMAIN units = 1 .. Len(units) /\ stream.size \in Nat
      /\ start \in Nat /\ got \in Nat
  BY StreamFacts DEF Types, Buffer
<1>2. Flag \in Nat \ {0} /\ HEAD_SIZE \in Nat \ {0}
  BY ParserAssumption
<1>3. \A i \in 1 .. Len(units) : units[i].at \in Nat \ {0} /\ Size(units[i]) \in Nat
                                 /\ Size(units[i]) >= HEAD_SIZE
  BY <1>1, StreamFacts
<1>4. ASSUME NEW i \in Headers PROVE i \in n + 1 .. Len(units) /\ n + 1 <= i
  <2>1. i \in 1 .. Len(units) /\ start <= units[i].at
    BY <1>1, <1>2, <1>3 DEF Headers
  <2>2. CASE i \in 1 .. n
    <3>1. units[i].at + Size(units[i]) <= start
      BY <2>2 DEF Behind
    <3>2. units[i].at \in Nat /\ Size(units[i]) \in Nat /\ Size(units[i]) > 0
      BY <1>2, <1>3, <2>1
    <3>. QED
      BY <1>1, <2>1, <3>1, <3>2
  <2>. QED
    BY <1>1, <2>1, <2>2
<1>5. PICK h : h \in Headers
  OBVIOUS
<1>6. n + 1 \in 1 .. Len(units) /\ start <= units[n + 1].at
  <2>1. n + 1 \in n + 1 .. Len(units) /\ n + 1 \in 1 .. Len(units)
    BY <1>1, <1>4, <1>5
  <2>. QED
    BY <2>1 DEF Behind
<1>7. units[n + 1].at <= units[h].at /\ units[h].at <= got - Flag
      /\ h \in 1 .. Len(units)
  <2>1. h \in 1 .. Len(units) /\ units[h].at <= got - Flag /\ n + 1 <= h
    BY <1>1, <1>2, <1>3, <1>4, <1>5 DEF Headers
  <2>2. CASE h = n + 1
    BY <1>3, <2>1, <2>2
  <2>3. CASE n + 1 < h
    <3>1. units[n + 1].at + Size(units[n + 1]) <= units[h].at
      BY <1>1, <1>6, <2>1, <2>3, StreamFacts
    <3>2. units[n + 1].at \in Nat /\ Size(units[n + 1]) \in Nat /\ units[h].at \in Nat
      BY <1>3, <1>6, <2>1
    <3>. QED
      BY <2>1, <3>1, <3>2
  <2>. QED
    BY <1>1, <2>1, <2>2, <2>3
<1>8. n + 1 \in Headers /\ units[n + 1].at <= got - Flag
  <2>1. units[n + 1].at \in Nat /\ units[h].at \in Nat
    BY <1>3, <1>6, <1>7
  <2>2. units[n + 1].at <= got - Flag
    BY <1>1, <1>2, <1>7, <2>1
  <2>3. units[n + 1].at \in start .. (got - Flag)
    BY <1>1, <1>2, <1>6, <2>1, <2>2
  <2>. QED
    BY <1>1, <1>6, <2>2, <2>3 DEF Headers
<1>9. First = n + 1
  <2>1. \E i \in Headers : \A j \in Headers : i <= j
    BY <1>4, <1>8
  <2>2. First \in Headers /\ \A j \in Headers : First <= j
    BY <2>1 DEF First
  <2>3. First <= n + 1 /\ n + 1 <= First /\ First \in 1 .. Len(units)
    BY <1>1, <1>4, <1>8, <2>2
  <2>. QED
    BY <1>1, <2>3
<1>. QED
  BY <1>6, <1>8, <1>9

-----------------------------------------------------------------------------
(* Sequences.                                                              *)

\* A sequence and one element more.
LEMMA AppendSeq ==
    ASSUME NEW S, NEW q \in Seq(S), NEW e \in S, NEW o, o = Append(q, e)
    PROVE  /\ o \in Seq(S) /\ Len(q) \in Nat /\ Len(o) = Len(q) + 1
           /\ DOMAIN q = 1 .. Len(q) /\ DOMAIN o = 1 .. Len(q) + 1
           /\ o[Len(q) + 1] = e /\ \A i \in 1 .. Len(q) : o[i] = q[i] /\ q[i] \in S
<1>1. Len(q) \in Nat /\ DOMAIN q = 1 .. Len(q) /\ \A i \in 1 .. Len(q) : q[i] \in S
  BY LenProperties, ElementOfSeq
<1>2. /\ o \in Seq(S) /\ Len(o) = Len(q) + 1
      /\ \A i \in 1 .. Len(q) : o[i] = q[i]
      /\ o[Len(q) + 1] = e
  BY AppendProperties
<1>3. DOMAIN o = 1 .. Len(q) + 1
  BY <1>2, LenProperties
<1>. QED
  BY <1>1, <1>2, <1>3

\* The slices up to the next unit, when it is a slice and follows those of f.
LEMMA SlicesGrow ==
    ASSUME NEW f \in Seq(DOMAIN units), NEW b \in Nat, NEW n \in Nat, b <= n,
           n + 1 \in 1 .. Len(units), DOMAIN units = 1 .. Len(units), Len(units) \in Nat,
           SlicesOf(f, b, n), \A j \in 1 .. Len(f) : ~Ends(f[j]),
           units[n + 1].kind = "slice",
           NEW g, g = Append(f, n + 1)
    PROVE  SlicesOf(g, b, n + 1)
<1>1. /\ Len(f) \in Nat /\ Len(g) = Len(f) + 1
      /\ DOMAIN f = 1 .. Len(f) /\ DOMAIN g = 1 .. Len(f) + 1
      /\ g[Len(f) + 1] = n + 1 /\ \A i \in 1 .. Len(f) : g[i] = f[i] /\ f[i] \in 1 .. Len(units)
  BY AppendSeq
<1>2. \A i : i \in Range(f) <=> \E j \in 1 .. Len(f) : i = f[j]
  BY <1>1 DEF Range
<1>3. \A i : i \in Range(g) <=> \E j \in 1 .. Len(f) + 1 : i = g[j]
  BY <1>1 DEF Range
<1>4. \A i : i \in Range(f) <=> /\ i \in 1 .. Len(units) /\ units[i].kind = "slice"
                                /\ b < i /\ i <= n
  BY DEF SlicesOf
<1>5. ASSUME NEW i
      PROVE  i \in Range(g) <=> /\ i \in 1 .. Len(units) /\ units[i].kind = "slice"
                                /\ b < i /\ i <= n + 1
  <2>1. i \in Range(g) <=> i \in Range(f) \/ i = n + 1
    BY <1>1, <1>2, <1>3
  <2>. QED
    BY <1>4, <2>1
<1>6. ASSUME NEW j \in 1 .. Len(f) + 1, NEW k \in 1 .. Len(f) + 1, j < k
      PROVE  g[j] < g[k] /\ ~Ends(g[j])
  <2>1. j \in 1 .. Len(f) /\ g[j] = f[j]
    BY <1>1, <1>6
  <2>2. ~Ends(g[j])
    BY <2>1
  <2>3. CASE k \in 1 .. Len(f)
    BY <1>1, <1>6, <2>1, <2>3 DEF SlicesOf
  <2>4. CASE k = Len(f) + 1
    <3>1. f[j] \in Range(f)
      BY <1>2, <2>1
    <3>2. f[j] \in 1 .. Len(units) /\ f[j] <= n
      BY <1>4, <3>1
    <3>. QED
      BY <1>1, <2>1, <2>2, <2>4, <3>2
  <2>. QED
    BY <1>1, <2>2, <2>3, <2>4
<1>. QED
  BY <1>1, <1>5, <1>6 DEF SlicesOf

\* No slices lie between a unit and itself.
LEMMA NoSlices ==
    ASSUME NEW n \in Nat, DOMAIN units = 1 .. Len(units), Len(units) \in Nat
    PROVE  SlicesOf(<<>>, n, n)
<1>1. DOMAIN <<>> = {} /\ Range(<<>>) = {}
  BY DEF Range
<1>. QED
  BY <1>1 DEF SlicesOf

-----------------------------------------------------------------------------
(* The steps.                                                              *)

LEMMA InitInv == Init => IInv
<1>. SUFFICES ASSUME Init PROVE IInv
  OBVIOUS
<1>1. /\ stream \in Streams /\ start = 1 /\ got = 0 /\ pc = "parse"
      /\ found = FALSE /\ complete = FALSE /\ spoilt = FALSE /\ frameLen = 0
      /\ frame = <<>> /\ handled = <<>> /\ delivered = <<>>
  BY DEF Init
<1>2. /\ stream.size \in Nat /\ Len(units) \in Nat /\ DOMAIN units = 1 .. Len(units)
      /\ \A i \in 1 .. Len(units) : units[i].at \in Nat \ {0}
  BY <1>1, StreamFacts
<1>3. /\ frame \in Seq(DOMAIN units) /\ handled \in Seq(DOMAIN units)
      /\ delivered \in Seq(Frames)
      /\ Len(frame) = 0 /\ Len(handled) = 0 /\ Len(delivered) = 0
  BY <1>1, EmptySeq
<1>4. Types
  BY <1>1, <1>3 DEF Types
<1>5. Buffer
  BY <1>1, <1>2, ParserAssumption DEF Buffer
<1>6. 0 \in 0 .. Len(units) /\ Behind(0)
  BY <1>1, <1>2 DEF Behind
<1>7. Collected(0)
  <2>1. FrameEnd(Len(delivered)) = 0
    BY <1>3 DEF FrameEnd
  <2>2. SlicesOf(frame, 0, 0)
    BY <1>1, <1>2, NoSlices
  <2>. QED
    BY <1>1, <1>3, <2>1, <2>2 DEF Collected
<1>. QED
  BY <1>3, <1>4, <1>5, <1>6, <1>7 DEF IInv

\* The way of the n-th unit and of what is left of the noise through the buffer.
LEMMA BehindStep ==
    ASSUME Types, Buffer, NEW n \in 0 .. Len(units), Behind(n), Next
    PROVE  /\ Buffer'
           /\ ~WholeUnit => Behind(n)'
           /\ WholeUnit => n + 1 \in 1 .. Len(units) /\ Behind(n + 1)'
<1>. PICK N \in Nat : N = Len(units)
  BY StreamFacts DEF Types
<1>. PICK Z \in Nat : Z = stream.size
  BY StreamFacts DEF Types
<1>1. /\ stream \in Streams /\ n \in Nat /\ n <= N /\ stream' = stream /\ units' = units
      /\ start \in Nat \ {0} /\ start <= Z + 1 /\ got \in Nat /\ got <= Z
      /\ start <= got + 1 /\ got - start + 1 <= RecvSize
  BY DEF Types, Buffer, units, Next, Receive, ReceiveFails, TooShort, NoHeader, Incomplete, WholeUnit
<1>2. /\ Flag \in Nat \ {0} /\ HEAD_SIZE \in Nat \ {0} /\ Flag < HEAD_SIZE
      /\ RecvSize \in Nat \ {0}
  BY ParserAssumption
<1>3. /\ \A i \in 1 .. N : /\ units[i].at \in Nat \ {0} /\ Size(units[i]) \in Nat
                           /\ Size(units[i]) > 0
                           /\ units[i].at + Size(units[i]) <= Z + 1
      /\ \A i, j \in 1 .. N : i < j => units[i].at + Size(units[i]) <= units[j].at
  <2>1. /\ \A i \in 1 .. N : /\ units[i].at \in Nat \ {0} /\ Size(units[i]) \in Nat
                             /\ Size(units[i]) >= HEAD_SIZE
                             /\ units[i].at + Size(units[i]) <= Z + 1
        /\ \A i, j \in 1 .. N : i < j => units[i].at + Size(units[i]) <= units[j].at
    BY <1>1, StreamFacts
  <2>. QED
    BY <1>2, <2>1
<1>4. /\ \A i \in 1 .. n : units[i].at + Size(units[i]) <= start
      /\ \A i \in n + 1 .. N : start <= units[i].at
  BY DEF Behind
<1>5. ASSUME NEW s \in Nat \ {0}, NEW g \in Nat, start' = s, got' = g,
             s <= g + 1, g <= Z, g - s + 1 <= RecvSize
      PROVE  Buffer'
  <2>1. stream'.size = Z
    BY <1>1
  <2>2. s \in 1 .. Z + 1 /\ g \in 0 .. Z
    BY <1>5
  <2>. QED
    BY <1>5, <2>1, <2>2 DEF Buffer
<1>6. ASSUME NEW m \in 0 .. N,
             \A i \in 1 .. m : units[i].at + Size(units[i]) <= start',
             \A i \in m + 1 .. N : start' <= units[i].at
      PROVE  Behind(m)'
  BY <1>1, <1>6 DEF Behind, Size
<1>7. CASE UNCHANGED start /\ ~WholeUnit
  <2>1. Behind(n)'
    BY <1>1, <1>4, <1>6, <1>7
  <2>2. Buffer'
    <3>1. CASE UNCHANGED got
      BY <1>1, <1>5, <1>7, <3>1
    <3>2. CASE Receive
      <4>1. PICK g \in Nat, s \in Nat \ {0}, o \in Nat, m \in Nat :
                g = got' /\ s = start /\ o = got /\ m = RecvSize
        <5>1. got' \in (got + 1) .. Z
          BY <3>2 DEF Receive
        <5>2. got' \in Nat
          BY <1>1, <5>1
        <5>. QED
          BY <1>1, <1>2, <5>2
      <4>2. g \in (o + 1) .. Z /\ g - s < m /\ s <= o + 1 /\ start' = s
        BY <1>1, <1>7, <3>2, <4>1 DEF Receive
      <4>3. s <= g + 1 /\ g <= Z /\ g - s + 1 <= m
        BY <4>2
      <4>. QED
        BY <1>5, <4>1, <4>2, <4>3
    <3>. QED
      BY <1>7, <3>1, <3>2 DEF Next, ReceiveFails, TooShort, NoHeader, Incomplete
  <2>. QED
    BY <1>7, <2>1, <2>2
<1>8. CASE NoHeader /\ KeepsTail
  <2>1. /\ start' = got - Flag + 1 /\ got' = got /\ got - start + 1 >= HEAD_SIZE
        /\ Headers = {} /\ ~WholeUnit
    BY <1>8 DEF NoHeader, KeepsTail, WholeUnit
  <2>2. start' \in Nat \ {0} /\ start <= start' /\ start' <= got
    BY <1>1, <1>2, <2>1
  <2>3. ASSUME NEW i \in n + 1 .. N PROVE start' <= units[i].at
    <3>1. i \in 1 .. N /\ start <= units[i].at /\ units[i].at \in Nat
      BY <1>1, <1>3, <1>4
    <3>2. i \in DOMAIN units
      BY <1>1, <3>1, StreamFacts
    <3>3. units[i].at \notin start .. (got - Flag)
      BY <2>1, <3>2 DEF Headers
    <3>. QED
      BY <1>1, <1>2, <2>1, <3>1, <3>3
  <2>4. ASSUME NEW i \in 1 .. n PROVE units[i].at + Size(units[i]) <= start'
    <3>1. i \in 1 .. N /\ units[i].at \in Nat /\ Size(units[i]) \in Nat
      BY <1>1, <1>3
    <3>. QED
      BY <1>1, <1>4, <2>2, <3>1
  <2>5. Behind(n)'
    BY <1>1, <1>6, <2>3, <2>4
  <2>. QED
    BY <1>1, <1>2, <1>5, <2>1, <2>2, <2>5
<1>9. CASE Incomplete \/ WholeUnit
  <2>1. Headers # {} /\ got' = got
    BY <1>9 DEF Incomplete, WholeUnit
  <2>2. First = n + 1 /\ n + 1 \in 1 .. N /\ n + 1 \in n + 1 .. N
        /\ start <= units[n + 1].at /\ units[n + 1].at <= got - Flag
    BY <1>1, <2>1, NextFound
  <2>3. PICK a \in Nat \ {0}, s \in Nat \ {0} : a = units[n + 1].at /\ s = Size(units[n + 1])
    <3>1. units[n + 1].at \in Nat \ {0} /\ Size(units[n + 1]) \in Nat /\ Size(units[n + 1]) > 0
      BY <1>3, <2>2
    <3>2. Size(units[n + 1]) \in Nat \ {0}
      BY <3>1
    <3>. QED
      BY <3>1, <3>2
  <2>4. a \in Nat /\ a # 0 /\ s \in Nat /\ s # 0
    BY <2>3
  <2>5. /\ \A i \in 1 .. n : units[i].at + Size(units[i]) <= a
        /\ \A i \in n + 2 .. N : a + s <= units[i].at
    <3>1. \A i \in 1 .. n : i \in 1 .. N /\ i < n + 1
      BY <1>1
    <3>2. \A i \in n + 2 .. N : i \in 1 .. N /\ n + 1 < i
      BY <1>1
    <3>. QED
      BY <1>3, <2>2, <2>3, <3>1, <3>2
  <2>6. CASE Incomplete
    <3>1. start' = a /\ ~WholeUnit
      BY <2>2, <2>6, <2>3 DEF Incomplete, WholeUnit
    <3>2. ASSUME NEW i \in n + 1 .. N PROVE a <= units[i].at
      <4>1. CASE i = n + 1
        BY <2>3, <2>4, <4>1
      <4>2. CASE i \in n + 2 .. N
        <5>1. i \in 1 .. N
          BY <1>1, <4>2
        <5>2. PICK u \in Nat : u = units[i].at
          BY <1>3, <5>1
        <5>3. a + s <= u
          BY <2>5, <4>2, <5>2
        <5>4. a <= u
          BY <2>4, <5>3
        <5>. QED
          BY <5>2, <5>4
      <4>. QED
        BY <1>1, <4>1, <4>2
    <3>3. Behind(n)'
      BY <1>1, <1>6, <2>5, <3>1, <3>2
    <3>4. Buffer'
      <4>1. PICK g \in Nat, b \in Nat \ {0}, m \in Nat, f \in Nat :
                g = got /\ b = start /\ m = RecvSize /\ f = Flag
        BY <1>1, <1>2
      <4>2. b <= a /\ a <= g - f /\ g <= Z /\ g - b + 1 <= m
        BY <1>1, <2>2, <2>3, <4>1
      <4>3. a <= g + 1 /\ g <= Z /\ g - a + 1 <= m
        BY <2>4, <4>2
      <4>4. start' = a /\ got' = g
        BY <2>1, <3>1, <4>1
      <4>. QED
        BY <1>5, <4>1, <4>3, <4>4
    <3>. QED
      BY <2>6, <3>1, <3>3, <3>4
  <2>7. CASE WholeUnit
    <3>1. start' = a + s /\ a + s - 1 <= got
      BY <2>2, <2>7, <2>3 DEF WholeUnit, EndsInBuffer
    <3>2. ASSUME NEW i \in 1 .. n + 1 PROVE units[i].at + Size(units[i]) <= a + s
      <4>1. CASE i = n + 1
        BY <2>3, <2>4, <4>1
      <4>2. CASE i \in 1 .. n
        <5>1. i \in 1 .. N
          BY <1>1, <4>2
        <5>2. PICK u \in Nat, z \in Nat : u = units[i].at /\ z = Size(units[i])
          BY <1>3, <5>1
        <5>3. u + z <= a
          BY <2>5, <4>2, <5>2
        <5>4. u + z <= a + s
          BY <2>4, <5>3
        <5>. QED
          BY <5>2, <5>4
      <4>. QED
        BY <1>1, <4>1, <4>2
    <3>3. n + 1 \in 0 .. N /\ (n + 1) + 1 = n + 2
      BY <1>1, <2>2
    <3>4. Behind(n + 1)'
      BY <1>6, <2>5, <3>1, <3>2, <3>3
    <3>5. PICK g \in Nat, b \in Nat \ {0}, m \in Nat : g = got /\ b = start /\ m = RecvSize
      BY <1>1, <1>2
    <3>6. a + s \in Nat \ {0} /\ a + s <= g + 1 /\ g <= Z
      <4>1. a + s - 1 <= g /\ g <= Z
        BY <1>1, <3>1, <3>5
      <4>. QED
        BY <2>4, <4>1
    <3>7. g - (a + s) + 1 <= m
      <4>1. b <= a /\ g - b + 1 <= m
        BY <1>1, <2>2, <2>3, <3>5
      <4>. QED
        BY <2>4, <3>5, <4>1
    <3>8. Buffer'
      <4>1. PICK e \in Nat \ {0} : e = a + s
        BY <3>6
      <4>2. e <= g + 1 /\ g <= Z /\ g - e + 1 <= m
        BY <3>6, <3>7, <4>1
      <4>3. start' = e /\ got' = g
        BY <2>1, <3>1, <3>5, <4>1
      <4>. QED
        BY <1>5, <3>5, <4>2, <4>3
    <3>. QED
      BY <2>2, <2>7, <3>4, <3>8
  <2>. QED
    BY <1>9, <2>6, <2>7
<1>. QED
  BY <1>7, <1>8, <1>9 DEF Next, Receive, ReceiveFails, TooShort, NoHeader

\* What no step but WholeUnit touches.
LEMMA Untouched ==
    ASSUME [Next]_vars
    PROVE  /\ stream' = stream /\ units' = units
           /\ ~WholeUnit => UNCHANGED <<framebuf, history>>
BY DEF Next, Receive, ReceiveFails, TooShort, NoHeader, Incomplete, WholeUnit, vars, units

\* A unit of the stream that is acted on, or written over the frame.
LEMMA TakeUnitType ==
    ASSUME Types, NEW i \in DOMAIN units, TakeUnit(i), stream' = stream
    PROVE  /\ spoilt' \in BOOLEAN /\ frameLen' \in Nat
           /\ frame' \in Seq(DOMAIN units) /\ handled' \in Seq(DOMAIN units)
           /\ delivered' \in Seq(Frames)
<1>1. /\ spoilt \in BOOLEAN /\ frameLen \in Nat /\ frame \in Seq(DOMAIN units)
      /\ handled \in Seq(DOMAIN units) /\ delivered \in Seq(Frames)
      /\ units[i].len \in Nat
  BY StreamFacts DEF Types
<1>2. CASE OverwriteFrame
  BY <1>1, <1>2 DEF OverwriteFrame, history
<1>3. CASE ActOn(i)
  <2>1. PICK g : g = Append(frame, i)
    OBVIOUS
  <2>2. g \in Seq(DOMAIN units)
    BY <1>1, <2>1, AppendSeq
  <2>3. handled' \in Seq(DOMAIN units)
    BY <1>1, <1>3, AppendSeq DEF ActOn
  <2>4. CASE UNCHANGED <<framebuf, delivered>>
    BY <1>1, <2>3, <2>4 DEF framebuf
  <2>5. CASE DeliverFrame(i)
    <3>1. PICK f : f = [slices |-> g, spoilt |-> spoilt]
      OBVIOUS
    <3>2. f \in Frames /\ delivered' = Append(delivered, f)
      BY <1>1, <2>1, <2>2, <2>5, <3>1 DEF Frames, DeliverFrame
    <3>3. delivered' \in Seq(Frames)
      BY <1>1, <3>2, AppendSeq
    <3>4. frame' \in Seq(DOMAIN units)
      BY <2>5, EmptySeq DEF DeliverFrame
    <3>. QED
      BY <2>3, <2>5, <3>3, <3>4 DEF DeliverFrame
  <2>6. CASE KeepSlice(i)
    BY <1>1, <2>1, <2>2, <2>3, <2>6 DEF KeepSlice
  <2>7. units[i].kind \in {"slice", "command"}
    BY StreamFacts DEF Types, Unit
  <2>. QED
    BY <1>3, <2>4, <2>5, <2>6, <2>7 DEF ActOn
<1>. QED
  BY <1>2, <1>3 DEF TakeUnit

LEMMA TypesStep ==
    ASSUME IInv, [Next]_vars
    PROVE  Types'
<1>1. Types /\ Buffer /\ DOMAIN units = 1 .. Len(units)
  BY StreamFacts DEF IInv, Types
<1>2. PICK n \in 0 .. Len(units) : Behind(n)
  BY DEF IInv
<1>3. stream' = stream /\ units' = units
  BY Untouched
<1>4. PICK F : F = Frames
  OBVIOUS
<1>5. Frames' = F
  BY <1>3, <1>4 DEF Frames
<1>6. stream' \in Streams /\ pc' \in {"recv", "parse", "failed"}
      /\ found' \in BOOLEAN /\ complete' \in BOOLEAN
  BY <1>1, <1>3 DEF Types, Next, Receive, ReceiveFails, TooShort, NoHeader, Incomplete,
                    WholeUnit, vars
<1>7. /\ spoilt' \in BOOLEAN /\ frameLen' \in Nat
      /\ frame' \in Seq(DOMAIN units) /\ handled' \in Seq(DOMAIN units)
      /\ delivered' \in Seq(F)
  <2>1. CASE WholeUnit
    <3>1. First \in DOMAIN units /\ TakeUnit(First)
      BY <1>1, <1>2, <2>1, NextFound DEF WholeUnit
    <3>. QED
      BY <1>1, <1>3, <1>4, <3>1, TakeUnitType
  <2>2. CASE ~WholeUnit
    BY <1>1, <1>4, <2>2, Untouched DEF Types, framebuf, history
  <2>. QED
    BY <2>1, <2>2
<1>. QED
  BY <1>3, <1>5, <1>6, <1>7 DEF Types

\* What the other units add up to, when the next one is acted on.
LEMMA CollectedNext ==
    ASSUME Types, FramesFit, NEW n \in Nat, n + 1 \in 1 .. Len(units), Collected(n),
           \A k \in 1 .. Len(delivered) : Delivered(k),
           TakeUnit(n + 1), stream' = stream
    PROVE  Collected(n + 1)' /\ \A k \in 1 .. Len(delivered') : Delivered(k)'
<1>. PICK u \in Unit : u = units[n + 1]
  BY StreamFacts DEF Types
<1>1. /\ DOMAIN units = 1 .. Len(units) /\ Len(units) \in Nat /\ units' = units
      /\ frame \in Seq(DOMAIN units) /\ handled \in Seq(DOMAIN units)
      /\ delivered \in Seq(Frames) /\ frameLen \in Nat
      /\ n + 1 \in DOMAIN units
  BY StreamFacts DEF Types, units
<1>2. /\ u.kind \in {"slice", "command"} /\ u.last \in BOOLEAN
      /\ u.len \in Nat /\ u.open \in Nat /\ Size(u) = HEAD_SIZE + u.len
  BY DEF Unit, Size
<1>3. frameLen = u.open
  <2>1. u.open = IF n + 1 = 1 THEN 0 ELSE OpenAfter(units[(n + 1) - 1])
    BY StreamFacts DEF Types
  <2>2. (n + 1) - 1 = n /\ (n + 1 = 1 <=> n = 0)
    OBVIOUS
  <2>. QED
    BY <2>1, <2>2 DEF Collected
<1>4. ActOn(n + 1)
  <2>1. ~(Size(u) + u.open > MAX_FRAME_SIZE)
    BY <1>1 DEF FramesFit
  <2>2. u.len + HEAD_SIZE + frameLen = Size(u) + u.open
    BY <1>2, <1>3, ParserAssumption
  <2>3. ~Overflows(u)
    BY <2>1, <2>2 DEF Overflows
  <2>. QED
    BY <2>3 DEF TakeUnit
<1>5. Len(handled') = n + 1 /\ \A k \in 1 .. n + 1 : handled'[k] = k
  <2>1. Len(handled) = n /\ \A k \in 1 .. n : handled[k] = k
    BY DEF Collected
  <2>2. /\ Len(handled') = n + 1 /\ handled'[n + 1] = n + 1
        /\ \A k \in 1 .. n : handled'[k] = handled[k]
    BY <1>1, <1>4, <2>1, AppendSeq DEF ActOn
  <2>. QED
    BY <2>1, <2>2
<1>6. \A f, b, e : SlicesOf(f, b, e)' <=> SlicesOf(f, b, e)
  BY <1>1 DEF SlicesOf, Ends
<1>7. \A i : Ends(i)' <=> Ends(i)
  BY <1>1 DEF Ends
<1>. PICK d \in Nat : d = Len(delivered)
  BY <1>1, LenProperties
<1>. PICK b \in Nat : b = FrameEnd(d)
  BY DEF Collected
<1>8. /\ b <= n /\ SlicesOf(frame, b, n) /\ ~spoilt
      /\ \A j \in 1 .. Len(frame) : ~Ends(frame[j])
  BY DEF Collected
<1>9. \A k \in 1 .. d : Delivered(k)
  OBVIOUS
<1>10. CASE ~(u.kind = "slice" /\ u.last)
  <2>0. UNCHANGED delivered
    BY <1>2, <1>4, <1>10 DEF ActOn, KeepSlice
  <2>1. \A k : FrameEnd(k)' = FrameEnd(k)
    BY <2>0 DEF FrameEnd
  <2>2. \A k \in 1 .. Len(delivered') : Delivered(k)'
    BY <1>6, <1>7, <1>9, <2>0, <2>1 DEF Delivered
  <2>3. ASSUME frameLen' = OpenAfter(u), ~spoilt', SlicesOf(frame', b, n + 1),
               \A j \in 1 .. Len(frame') : ~Ends(frame'[j])
        PROVE  Collected(n + 1)'
    <3>1. FrameEnd(Len(delivered))' = b /\ b \in 0 .. n + 1
      BY <1>8, <2>0, <2>1
    <3>2. SlicesOf(frame, FrameEnd(Len(delivered)), n + 1)'
      BY <1>1, <2>3, <3>1 DEF SlicesOf, Ends
    <3>3. \A j \in 1 .. Len(frame') : ~Ends(frame[j])'
      BY <1>1, <2>3 DEF Ends
    <3>4. frameLen' = IF n + 1 = 0 THEN 0 ELSE OpenAfter(units'[n + 1])
      BY <1>1, <2>3
    <3>. QED
      BY <1>5, <2>3, <3>1, <3>2, <3>3, <3>4 DEF Collected
  <2>4. CASE u.kind = "command"
    <3>1. UNCHANGED framebuf
      BY <1>4, <2>4 DEF ActOn
    <3>2. SlicesOf(frame, b, n + 1)
      BY <1>1, <1>8, <2>4 DEF SlicesOf
    <3>3. OpenAfter(u) = u.open
      BY <2>4 DEF OpenAfter
    <3>. QED
      BY <1>3, <1>8, <2>2, <2>3, <3>1, <3>2, <3>3 DEF framebuf
  <2>5. CASE u.kind = "slice" /\ ~u.last
    <3>1. frame' = Append(frame, n + 1) /\ frameLen' = frameLen + u.len /\ spoilt' = spoilt
      BY <1>4, <2>5 DEF ActOn, KeepSlice
    <3>2. SlicesOf(frame', b, n + 1)
      BY <1>1, <1>8, <2>5, <3>1, SlicesGrow
    <3>3. OpenAfter(u) = u.open + u.len
      BY <2>5 DEF OpenAfter
    <3>4. /\ Len(frame) \in Nat /\ Len(frame') = Len(frame) + 1
          /\ frame'[Len(frame) + 1] = n + 1
          /\ \A j \in 1 .. Len(frame) : frame'[j] = frame[j]
      BY <1>1, <3>1, AppendSeq
    <3>5. ~Ends(n + 1)
      BY <2>5 DEF Ends
    <3>6. \A j \in 1 .. Len(frame') : ~Ends(frame'[j])
      BY <1>8, <3>4, <3>5
    <3>. QED
      BY <1>3, <1>8, <2>2, <2>3, <3>1, <3>2, <3>3, <3>6
  <2>. QED
    BY <1>2, <1>10, <2>4, <2>5
<1>11. CASE u.kind = "slice" /\ u.last
  <2>. PICK g : g = Append(frame, n + 1)
    OBVIOUS
  <2>. PICK f : f = [slices |-> g, spoilt |-> spoilt]
    OBVIOUS
  <2>1. /\ delivered' = Append(delivered, f)
        /\ frame' = <<>> /\ frameLen' = 0 /\ spoilt' = FALSE
    BY <1>4, <1>11 DEF ActOn, DeliverFrame
  <2>2. /\ g \in Seq(DOMAIN units) /\ Len(g) = Len(frame) + 1 /\ Len(frame) \in Nat
        /\ g[Len(frame) + 1] = n + 1
    BY <1>1, AppendSeq
  <2>3. Last(g) = n + 1
    BY <2>2 DEF Last
  <2>4. f \in Frames /\ f.slices = g /\ f.spoilt = FALSE
    BY <1>8, <2>2 DEF Types, Frames
  <2>5. /\ Len(delivered') = d + 1 /\ delivered'[d + 1] = f
        /\ \A k \in 1 .. d : delivered'[k] = delivered[k]
    BY <1>1, <2>1, <2>4, AppendSeq
  <2>6. FrameEnd(d + 1)' = n + 1
    BY <2>3, <2>4, <2>5 DEF FrameEnd
  <2>7. \A k \in 0 .. d : FrameEnd(k)' = FrameEnd(k)
    BY <2>5 DEF FrameEnd
  <2>8. Ends(n + 1)
    BY <1>11 DEF Ends
  <2>9. SlicesOf(g, b, n + 1)
    BY <1>1, <1>8, <1>11, SlicesGrow
  <2>10. Delivered(d + 1)'
    <3>1. FrameEnd((d + 1) - 1)' = b
      BY <2>7
    <3>2. Ends(FrameEnd(d + 1))'
      BY <1>1, <2>6, <2>8 DEF Ends
    <3>3. SlicesOf(delivered[d + 1].slices, FrameEnd((d + 1) - 1), FrameEnd(d + 1))'
      <4>1. SlicesOf(g, b, n + 1)'
        BY <1>1, <2>9 DEF SlicesOf, Ends
      <4>2. delivered'[d + 1].slices = g
        BY <2>4, <2>5
      <4>. QED
        BY <2>6, <3>1, <4>1, <4>2 DEF SlicesOf
    <3>. QED
      BY <2>4, <2>5, <3>2, <3>3 DEF Delivered
  <2>11. ASSUME NEW k \in 1 .. d PROVE Delivered(k)'
    <3>1. k \in 0 .. d /\ k - 1 \in 0 .. d
      OBVIOUS
    <3>2. FrameEnd(k)' = FrameEnd(k) /\ FrameEnd(k - 1)' = FrameEnd(k - 1)
      BY <2>7, <3>1
    <3>3. Ends(FrameEnd(k))' <=> Ends(FrameEnd(k))
      BY <1>1, <3>2 DEF Ends
    <3>4. SlicesOf(delivered[k].slices, FrameEnd(k - 1), FrameEnd(k))'
             <=> SlicesOf(delivered[k].slices, FrameEnd(k - 1), FrameEnd(k))
      BY <1>1, <2>5, <3>2 DEF SlicesOf, Ends
    <3>. QED
      BY <1>9, <2>5, <3>3, <3>4 DEF Delivered
  <2>12. Collected(n + 1)'
    <3>1. FrameEnd(Len(delivered))' = n + 1
      BY <2>5, <2>6
    <3>2. SlicesOf(<<>>, n + 1, n + 1)
      BY <1>1, NoSlices
    <3>3. SlicesOf(frame, FrameEnd(Len(delivered)), n + 1)'
      BY <1>1, <2>1, <3>1, <3>2 DEF SlicesOf, Ends
    <3>4. Len(frame') = 0
      BY <2>1
    <3>5. frameLen' = IF n + 1 = 0 THEN 0 ELSE OpenAfter(units'[n + 1])
      BY <1>1, <1>11, <2>1 DEF OpenAfter
    <3>. QED
      BY <1>5, <2>1, <3>1, <3>3, <3>4, <3>5 DEF Collected
  <2>. QED
    BY <2>5, <2>10, <2>11, <2>12
<1>. QED
  BY <1>10, <1>11

LEMMA NextInv == IInv /\ [Next]_vars => IInv'
<1>. SUFFICES ASSUME IInv, [Next]_vars PROVE IInv'
  OBVIOUS
<1>1. Types /\ Buffer /\ Types' /\ DOMAIN units = 1 .. Len(units) /\ Len(units) \in Nat
      /\ delivered \in Seq(Frames) /\ stream' = stream /\ units' = units
  BY TypesStep, StreamFacts, Untouched DEF IInv, Types
<1>2. PICK n \in 0 .. Len(units) : Behind(n) /\ (FramesFit => Collected(n))
  BY DEF IInv
<1>3. FramesFit => \A k \in 1 .. Len(delivered) : Delivered(k)
  BY DEF IInv
<1>4. FramesFit' <=> FramesFit
  BY <1>1 DEF FramesFit
<1>5. CASE ~WholeUnit
  <2>1. Buffer' /\ Behind(n)' /\ UNCHANGED <<framebuf, history>>
    <3>1. CASE UNCHANGED vars
      BY <1>1, <1>2, <3>1 DEF vars, framebuf, history, Buffer, Behind, units
    <3>2. CASE Next
      BY <1>1, <1>2, <1>5, <3>2, BehindStep, Untouched
    <3>. QED
      BY <3>1, <3>2
  <2>2. FramesFit => Collected(n)'
    BY <1>1, <1>2, <2>1 DEF framebuf, history, Collected, SlicesOf, Ends, FrameEnd
  <2>3. FramesFit => \A k \in 1 .. Len(delivered') : Delivered(k)'
    BY <1>1, <1>3, <2>1 DEF history, Delivered, SlicesOf, Ends, FrameEnd
  <2>. QED
    BY <1>1, <1>2, <1>4, <2>1, <2>2, <2>3 DEF IInv
<1>6. CASE WholeUnit
  <2>1. Buffer' /\ n + 1 \in 1 .. Len(units) /\ Behind(n + 1)' /\ n + 1 \in 0 .. Len(units)
    BY <1>1, <1>2, <1>6, BehindStep DEF Next
  <2>2. TakeUnit(n + 1)
    BY <1>1, <1>2, <1>6, NextFound DEF WholeUnit
  <2>3. FramesFit => Collected(n + 1)' /\ \A k \in 1 .. Len(delivered') : Delivered(k)'
    BY <1>1, <1>2, <1>3, <2>1, <2>2, CollectedNext
  <2>. QED
    BY <1>1, <1>4, <2>1, <2>3 DEF IInv
<1>. QED
  BY <1>5, <1>6

-----------------------------------------------------------------------------
(* The theorems.                                                           *)

\* The inductive invariant holds at all times.
THEOREM InvariantHolds == Spec => []IInv
BY InitInv, NextInv, PTL DEF Spec

LEMMA InvType == IInv => ParserTypeOK
<1>. SUFFICES ASSUME IInv PROVE ParserTypeOK
  OBVIOUS
<1>1. Types /\ Buffer /\ stream.size \in Nat /\ RecvSize \in Nat
  BY StreamFacts, ParserAssumption DEF IInv, Types
<1>. QED
  BY <1>1 DEF Types, Buffer, ParserTypeOK

\* Every variable has its type, and the bytes in the receive buffer never are
\* more than it holds (UdtStream.cpp 233-248).
THEOREM TypeCorrect == Spec => []ParserTypeOK
BY InvariantHolds, InvType, PTL

LEMMA InvOrder == IInv => UnitsInOrder
<1>. SUFFICES ASSUME IInv, FramesFit PROVE \A k \in DOMAIN handled : handled[k] = k
  BY DEF UnitsInOrder
<1>1. handled \in Seq(DOMAIN units)
  BY DEF IInv, Types
<1>2. DOMAIN handled = 1 .. Len(handled)
  BY <1>1, LenProperties
<1>. QED
  BY <1>2 DEF IInv, Collected

\* However the network cuts the bytes, the units are acted on in the order they
\* were sent, none is skipped and none is taken twice, as long as the frame
\* buffer has room (Stream.cpp 374-468).
THEOREM InOrder == Spec => []UnitsInOrder
BY InvariantHolds, InvOrder, PTL

LEMMA InvWhole == IInv => FramesWhole
<1>. SUFFICES ASSUME IInv, FramesFit
              PROVE  \A k \in DOMAIN delivered : Delivered(k)
  BY DEF FramesWhole, Delivered
<1>1. delivered \in Seq(Frames)
  BY DEF IInv, Types
<1>2. DOMAIN delivered = 1 .. Len(delivered)
  BY <1>1, LenProperties
<1>. QED
  BY <1>2 DEF IInv

\* The frames handed to the decoder are those the device sent, one after the
\* other and each with all its slices and no others (Stream.cpp 394-439).
THEOREM Whole == Spec => []FramesWhole
BY InvariantHolds, InvWhole, PTL

\* A unit that has arrived whole, with its header in the buffer: the search can
\* find it, and the buffer is long enough to be searched.
LEMMA WholeIsFound ==
    ASSUME Types, Buffer, NEW n \in 0 .. Len(units), Behind(n),
           NEW i \in 1 .. Len(units), EndsInBuffer(i), ~(i <= n)
    PROVE  i \in Headers /\ got - start + 1 >= HEAD_SIZE
<1>1. /\ start \in Nat /\ got \in Nat /\ n \in Nat /\ Len(units) \in Nat
      /\ DOMAIN units = 1 .. Len(units)
  BY StreamFacts DEF Types, Buffer
<1>2. PICK a \in Nat, z \in Nat : a = units[i].at /\ z = Size(units[i]) /\ z >= HEAD_SIZE
  BY StreamFacts DEF Types
<1>3. start <= a
  <2>1. i \in n + 1 .. Len(units)
    BY <1>1
  <2>. QED
    BY <1>2, <2>1 DEF Behind
<1>4. a + z - 1 <= got
  BY <1>2 DEF EndsInBuffer
<1>5. a \in start .. (got - Flag) /\ got - start + 1 >= HEAD_SIZE
  <2>1. PICK s \in Nat, g \in Nat, h \in Nat, f \in Nat :
            s = start /\ g = got /\ h = HEAD_SIZE /\ f = Flag
    BY <1>1, ParserAssumption
  <2>2. f < h /\ s <= a /\ a + z - 1 <= g /\ z >= h
    BY <1>2, <1>3, <1>4, <2>1, ParserAssumption
  <2>3. a <= g - f /\ g - s + 1 >= h
    BY <2>2
  <2>. QED
    BY <2>1, <2>2, <2>3
<1>. QED
  BY <1>1, <1>2, <1>5 DEF Headers

LEMMA HeldBackStep ==
    ASSUME IInv, NothingHeldBack, [Next]_vars
    PROVE  NothingHeldBack'
<1>1. CASE Receive \/ WholeUnit
  <2>1. pc' = "parse"
    BY <1>1 DEF Receive, WholeUnit
  <2>. QED
    BY <2>1 DEF NothingHeldBack
<1>2. CASE ReceiveFails \/ UNCHANGED vars
  <2>1. /\ UNCHANGED <<stream, got, handled>>
        /\ pc' # "parse" => pc # "parse"
    BY <1>2 DEF ReceiveFails, vars, history
  <2>. QED
    BY <2>1 DEF NothingHeldBack, FramesFit, EndsInBuffer, units
<1>3. ASSUME TooShort \/ NoHeader \/ Incomplete, FramesFit,
             NEW i \in DOMAIN units, EndsInBuffer(i)
      PROVE  i <= Len(handled)
  <2>1. PICK n \in 0 .. Len(units) : Behind(n) /\ Collected(n)
    BY <1>3 DEF IInv
  <2>2. Types /\ Buffer /\ Len(handled) = n
    BY <2>1 DEF IInv, Collected
  <2>3. /\ i \in 1 .. Len(units) /\ n \in Nat /\ Len(units) \in Nat
        /\ start \in Nat /\ got \in Nat
    BY <1>3, <2>1, <2>2, StreamFacts DEF Types, Buffer
  <2>4. SUFFICES ASSUME ~(i <= n) PROVE FALSE
    BY <2>2
  <2>5. i \in Headers /\ got - start + 1 >= HEAD_SIZE
    BY <1>3, <2>1, <2>2, <2>3, <2>4, WholeIsFound
  <2>6. CASE TooShort
    <3>1. HEAD_SIZE \in Nat /\ got - start + 1 < HEAD_SIZE
      BY <2>6, ParserAssumption DEF TooShort
    <3>. QED
      BY <2>3, <2>5, <3>1
  <2>7. CASE NoHeader
    BY <2>5, <2>7 DEF NoHeader
  <2>8. CASE Incomplete
    <3>1. First = n + 1 /\ First \in 1 .. Len(units)
      BY <2>1, <2>2, <2>5, NextFound
    <3>2. ~EndsInBuffer(n + 1) /\ n + 1 \in 1 .. Len(units)
      BY <2>8, <3>1 DEF Incomplete
    <3>3. n + 1 < i
      BY <1>3, <2>3, <2>4, <3>2
    <3>4. PICK a \in Nat, z \in Nat, b \in Nat, y \in Nat :
              /\ a = units[n + 1].at /\ z = Size(units[n + 1])
              /\ b = units[i].at /\ y = Size(units[i])
      BY <2>2, <2>3, <3>2, StreamFacts DEF Types
    <3>5. a + z <= b
      BY <2>2, <2>3, <3>2, <3>3, <3>4, StreamFacts DEF Types
    <3>6. ~(a + z - 1 <= got) /\ b + y - 1 <= got
      BY <1>3, <3>2, <3>4 DEF EndsInBuffer
    <3>7. y > 0
      <4>1. PICK h \in Nat : h = HEAD_SIZE /\ h > 0
        BY ParserAssumption
      <4>2. y >= h
        BY <2>2, <2>3, <3>4, <4>1, StreamFacts DEF Types
      <4>. QED
        BY <4>1, <4>2
    <3>8. PICK g \in Nat : g = got
      BY <2>3
    <3>9. ~(a + z - 1 <= g) /\ b + y - 1 <= g
      BY <3>6, <3>8
    <3>. QED
      BY <3>5, <3>7, <3>9
  <2>. QED
    BY <1>3, <2>6, <2>7, <2>8
<1>4. CASE TooShort \/ NoHeader \/ Incomplete
  <2>1. UNCHANGED <<stream, got, handled>>
    BY <1>4 DEF TooShort, NoHeader, Incomplete, history
  <2>2. FramesFit => \A i \in DOMAIN units : EndsInBuffer(i) => i <= Len(handled)
    BY <1>3, <1>4
  <2>. QED
    BY <2>1, <2>2 DEF NothingHeldBack, FramesFit, EndsInBuffer, units
<1>. QED
  BY <1>1, <1>2, <1>4 DEF Next

\* However the bytes are cut, a unit that has arrived whole is acted on before
\* the parser asks the network for more (Stream.cpp 374-468).
THEOREM HoldsNothingBack == Spec => []NothingHeldBack
<1>1. Init => NothingHeldBack
  BY DEF Init, NothingHeldBack
<1>. QED
  BY <1>1, HeldBackStep, InvariantHolds, PTL DEF Spec
=============================================================================
