----------------------------- MODULE StreamParser -----------------------------
(***************************************************************************)
(* The receive thread of a stream (OnRecv) and the parser it feeds         *)
(* (Stream::ParseStreamUnit): bytes arrive in pieces of any size, and the  *)
(* parser finds the units in them by a magic number, puts the slices of a  *)
(* frame together in m_Framebuf and hands over frames and commands.        *)
(*                                                                         *)
(* The bytes of a connection are numbered from 1, so the receive buffer,   *)
(* which always holds consecutive bytes, is the interval start .. got.     *)
(* What each byte says is given by the units the device sent.              *)
(***************************************************************************)
EXTENDS Integers, Sequences, SequencesExt

CONSTANTS
    Streams,   \* what a device may send
    Flag,      \* bytes of the magic number
    HEAD_SIZE, \* bytes of a header, which starts with the magic number
    RecvSize,  \* bytes of the receive buffer (max_size)
    MAX_FRAME_SIZE

\* A unit has a kind, a body of len bytes, and says whether it is the last slice
\* of its frame; at is the first byte of its header, and open what the slices
\* sent since the last frame ended come to.
Unit == [kind : {"slice", "command"}, len : Nat, last : BOOLEAN,
         at : Nat \ {0}, open : Nat]
Size(u) == HEAD_SIZE + u.len

\* What is open behind a unit.
OpenAfter(u) == CASE u.kind = "command"           -> u.open
                  [] u.kind = "slice" /\ u.last   -> 0
                  [] u.kind = "slice" /\ ~u.last  -> u.open + u.len

\* Units follow one another; bytes between them are noise without a magic number.
InARow(s) ==
    /\ \A i, j \in DOMAIN s.units : i < j => s.units[i].at + Size(s.units[i]) <= s.units[j].at
    /\ \A i \in DOMAIN s.units :
          /\ s.units[i].at + Size(s.units[i]) <= s.size + 1
          /\ s.units[i].open = IF i = 1 THEN 0 ELSE OpenAfter(s.units[i - 1])

ASSUME ParserAssumption ==
    /\ Flag \in Nat \ {0} /\ HEAD_SIZE \in Nat /\ Flag < HEAD_SIZE
    /\ RecvSize \in Nat \ {0} /\ MAX_FRAME_SIZE \in Nat
    /\ \A s \in Streams : s \in [units : Seq(Unit), size : Nat] /\ InARow(s)

VARIABLES
    stream,      \* what the device sends on this connection
    start, got,  \* the receive buffer: bytes start .. got
    pc,          \* "recv", "parse" or "failed"
    found,       \* bFind
    complete,    \* bComplete
    frame,       \* the slices in m_Framebuf
    frameLen,    \* m_FrameLen
    spoilt,      \* the start of m_Framebuf was overwritten
    handled,     \* the units acted on, in order
    delivered    \* the frames handed to OnFrameData, each a sequence of slices

framebuf == <<frame, frameLen, spoilt>>
history == <<handled, delivered>>
vars == <<stream, start, got, pc, found, complete, framebuf, history>>

Init ==
    /\ stream \in Streams
    /\ start = 1 /\ got = 0
    /\ pc = "parse" /\ found = FALSE /\ complete = FALSE
    /\ frame = <<>> /\ frameLen = 0 /\ spoilt = FALSE
    /\ handled = <<>> /\ delivered = <<>>

-----------------------------------------------------------------------------
units == stream.units

\* The headers the search loop can find: its last position is Flag bytes short
\* of the end.
Headers == {i \in DOMAIN units : units[i].at \in start .. (got - Flag)}

-----------------------------------------------------------------------------
(* OnRecv                                                                   *)

\* Mutant of Receive: the whole size of the buffer is asked for.
ReceivePastEnd ==
    /\ pc = "recv"
    /\ got' \in (got + 1) .. stream.size
    /\ got' - got <= RecvSize
    /\ pc' = "parse" /\ found' = FALSE /\ complete' = FALSE
    /\ UNCHANGED <<stream, start, framebuf, history>>

\* Any number of the bytes under way that fit into the buffer.
Receive ==
    /\ pc = "recv"
    /\ got' \in (got + 1) .. stream.size
    /\ got' - start < RecvSize
    /\ pc' = "parse" /\ found' = FALSE /\ complete' = FALSE
    /\ UNCHANGED <<stream, start, framebuf, history>>

\* A full buffer asks for no bytes, gets none and takes it for a failure.
ReceiveFails ==
    /\ pc = "recv" /\ got - start + 1 = RecvSize
    /\ pc' = "failed"
    /\ UNCHANGED <<stream, start, got, found, complete, framebuf, history>>

-----------------------------------------------------------------------------
(* ParseStreamUnit: one action per way through its loop.                    *)

TooShort ==
    /\ pc = "parse" /\ got - start + 1 < HEAD_SIZE
    /\ pc' = "recv"
    /\ UNCHANGED <<stream, start, got, found, complete, framebuf, history>>

\* Mutant of KeepsTail: the end of the buffer goes with the rest.
KeepsNoTail == start' = got + 1
\* The bytes that may be the beginning of a magic number are kept.
KeepsTail == start' = got - Flag + 1

\* No header.  The flags of an earlier unit of the same call are not reset, so
\* after a whole unit the loop goes round with the same buffer.
NoHeader ==
    /\ pc = "parse" /\ got - start + 1 >= HEAD_SIZE
    /\ Headers = {}
    /\ IF found /\ complete THEN UNCHANGED <<start, pc>>
                            ELSE KeepsTail /\ pc' = "recv"
    /\ UNCHANGED <<stream, got, found, complete, framebuf, history>>

First == CHOOSE i \in Headers : \A j \in Headers : i <= j
EndsInBuffer(i) == units[i].at + Size(units[i]) - 1 <= got

Incomplete ==
    /\ pc = "parse" /\ got - start + 1 >= HEAD_SIZE
    /\ Headers # {} /\ ~EndsInBuffer(First)
    /\ found' = TRUE /\ complete' = FALSE
    /\ start' = units[First].at
    /\ pc' = "recv"
    /\ UNCHANGED <<stream, got, framebuf, history>>

Overflows(u) == u.len + HEAD_SIZE + frameLen > MAX_FRAME_SIZE

\* The end of a frame: it is handed over, and the next one starts afresh.
DeliverFrame(i) ==
    /\ delivered' = Append(delivered, [slices |-> Append(frame, i), spoilt |-> spoilt])
    /\ frame' = <<>> /\ frameLen' = 0 /\ spoilt' = FALSE

\* A slice is put behind the others.
KeepSlice(i) ==
    /\ frame' = Append(frame, i) /\ frameLen' = frameLen + units[i].len
    /\ UNCHANGED <<spoilt, delivered>>

\* Mutant of ActOn: a slice after a command starts the frame afresh.
ActOnResets(i) ==
    /\ handled' = Append(handled, i)
    /\ CASE units[i].kind = "command" ->
                frame' = <<>> /\ frameLen' = 0 /\ UNCHANGED <<spoilt, delivered>>
         [] units[i].kind = "slice" /\ units[i].last -> DeliverFrame(i)
         [] units[i].kind = "slice" /\ ~units[i].last -> KeepSlice(i)

ActOn(i) ==
    /\ handled' = Append(handled, i)
    /\ CASE units[i].kind = "command" -> UNCHANGED <<framebuf, delivered>>
         [] units[i].kind = "slice" /\ units[i].last -> DeliverFrame(i)
         [] units[i].kind = "slice" /\ ~units[i].last -> KeepSlice(i)

\* A unit that does not fit into the frame buffer is written over its start,
\* whatever it is, and goes no further; m_FrameLen stays.
OverwriteFrame ==
    /\ spoilt' = (frame # <<>>)
    /\ UNCHANGED <<frame, frameLen, history>>

TakeUnit(i) == IF Overflows(units[i]) THEN OverwriteFrame ELSE ActOn(i)

\* Mutant of WholeUnit: the loop is left after one unit.
WholeUnitOnce ==
    /\ pc = "parse" /\ got - start + 1 >= HEAD_SIZE
    /\ Headers # {} /\ EndsInBuffer(First)
    /\ TakeUnit(First)
    /\ found' = TRUE /\ complete' = TRUE
    /\ start' = units[First].at + Size(units[First])
    /\ pc' = "recv"
    /\ UNCHANGED <<stream, got>>

WholeUnit ==
    /\ pc = "parse" /\ got - start + 1 >= HEAD_SIZE
    /\ Headers # {} /\ EndsInBuffer(First)
    /\ TakeUnit(First)
    /\ found' = TRUE /\ complete' = TRUE
    /\ start' = units[First].at + Size(units[First])
    /\ UNCHANGED <<stream, got, pc>>

-----------------------------------------------------------------------------
Next == Receive \/ ReceiveFails \/ TooShort \/ NoHeader \/ Incomplete \/ WholeUnit

Spec == Init /\ [][Next]_vars

\* The receive thread runs, and bytes under way arrive.
FairSpec == Spec /\ WF_vars(Next)

-----------------------------------------------------------------------------
(* Properties                                                               *)

Ends(i) == units[i].kind = "slice" /\ units[i].last

\* The slices of f are those sent behind unit b up to unit e, in the order in
\* which they were sent, and none but the last ends a frame.
SlicesOf(f, b, e) ==
    /\ Range(f) = {i \in DOMAIN units : units[i].kind = "slice" /\ b < i /\ i <= e}
    /\ \A j, k \in DOMAIN f : j < k => f[j] < f[k] /\ ~Ends(f[j])

\* The unit that ended the k-th frame handed over.
FrameEnd(k) == IF k = 0 THEN 0 ELSE Last(delivered[k].slices)

\* Wherever a unit comes in its frame, the frame buffer has room for the part of
\* the frame before it, a header and its body.
FramesFit == \A i \in DOMAIN units : ~(Size(units[i]) + units[i].open > MAX_FRAME_SIZE)
UnitsFit == \A i \in DOMAIN units : Size(units[i]) <= RecvSize
NoNoiseAfterUnits ==
    \A i \in DOMAIN units :
        units[i].at + Size(units[i]) =
            IF i = Len(units) THEN stream.size + 1 ELSE units[i + 1].at

\* Every variable has its type; the receive buffer is never overrun.
ParserTypeOK ==
    /\ stream \in Streams
    /\ start \in 1 .. stream.size + 1 /\ got \in 0 .. stream.size
    /\ got - start + 1 \in 0 .. RecvSize
    /\ pc \in {"recv", "parse", "failed"}
    /\ {found, complete, spoilt} \subseteq BOOLEAN
    /\ {frame, handled} \subseteq Seq(DOMAIN units)
    /\ frameLen \in Nat

\* However the network cuts the bytes, the units are acted on in the order they
\* were sent, none is skipped and none is taken twice, as long as the frame
\* buffer has room (Stream.cpp 374-468).
UnitsInOrder == FramesFit => \A k \in DOMAIN handled : handled[k] = k

\* The frames handed to the decoder are the frames the device sent, each of them
\* and one after the other: no slice of another frame gets in, none is missing,
\* and no command disturbs one (Stream.cpp 394-439).
FramesWhole ==
    FramesFit =>
        \A k \in DOMAIN delivered :
            /\ Ends(FrameEnd(k)) /\ SlicesOf(delivered[k].slices, FrameEnd(k - 1), FrameEnd(k))
            /\ ~delivered[k].spoilt

\* No unit waits in the receive buffer for bytes that come behind it: when the
\* parser goes back to the network, whichever way through its loop it took and
\* wherever the bytes were cut, every unit that has arrived whole was acted on
\* (Stream.cpp 374-468).
NothingHeldBack ==
    FramesFit /\ pc # "parse" =>
        \A i \in DOMAIN units : EndsInBuffer(i) => i <= Len(handled)

\* Everything the device sent is acted on in the end, noise in front of the
\* first unit notwithstanding.
EverythingHandled ==
    FramesFit /\ UnitsFit /\ NoNoiseAfterUnits ~> Len(handled) = Len(units)

=============================================================================
