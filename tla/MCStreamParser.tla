---------------------------- MODULE MCStreamParser ----------------------------
EXTENDS StreamParser

Noise(n)   == [kind |-> "noise", len |-> n, last |-> FALSE]
Command(n) == [kind |-> "command", len |-> n, last |-> FALSE]
Part(n)    == [kind |-> "slice", len |-> n, last |-> FALSE]
End(n)     == [kind |-> "slice", len |-> n, last |-> TRUE]

\* Units and noise as a stream, one behind the other.
Placed(sent) ==
    FoldLeft(LAMBDA s, u :
        LET size == s.size + (IF u.kind = "noise" THEN 0 ELSE HEAD_SIZE) + u.len
            open == IF s.units = <<>> THEN 0 ELSE OpenAfter(Last(s.units))
        IN  IF u.kind = "noise" THEN [s EXCEPT !.size = size]
            ELSE [size |-> size,
                  units |-> Append(s.units, [kind |-> u.kind, len |-> u.len, last |-> u.last,
                                             at |-> s.size + 1, open |-> open])],
        [units |-> <<>>, size |-> 0], sent)

\* Streams that fit, with commands between slices and noise in front; one with a
\* unit as large as the receive buffer; two with a frame that is too long.
MCStreams == { Placed(s) : s \in
    { <<Part(2), Command(1), End(1), Command(0), End(2)>>,
      <<Noise(4), Part(1), Part(1), End(1), Command(1)>>,
      <<Noise(1), Command(1), Noise(2)>>,
      <<End(1), End(7), End(1)>>,
      <<End(6), Command(1), Part(2), Part(2), Command(1), End(2)>>,
      <<Part(3), Part(3), Part(3), End(1), End(2)>>,
      <<Part(4), Part(2), Command(3), End(1), Command(0)>> } }
=============================================================================
