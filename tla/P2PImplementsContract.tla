----------------------- MODULE P2PImplementsContract -----------------------
(* P2PSession implements PlayContract: the refinement mapping.             *)
EXTENDS P2PSession

\* The phase a play is in, read off its block and the library.
PhaseAt(p) ==
    IF p > opened THEN "none"
    ELSE IF p < opened THEN "over"
    ELSE IF pc[p] \in {"idle", "init"} THEN "asked"
    ELSE IF pc[p] \in Live THEN "using"
    ELSE IF Down THEN "over" ELSE "lost"

phaseOf == [p \in Plays |-> PhaseAt(p)]

toldOf == {p \in 1 .. opened : Told(p)}

Contract == INSTANCE PlayContract
            WITH phase <- phaseOf, told <- toldOf, shown <- top

\* LibCoreWrap and P2PManager keep what a player view relies on: one play has
\* the library at a time, and the news of an end, and with it the way back to
\* the device list, comes only after the library was given back.
ContractKept == Contract!ContractSpec
=============================================================================
