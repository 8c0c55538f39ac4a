---------------------------- MODULE PlayContract ----------------------------
(* What LibCoreWrap promises a player view about a play, whatever happens  *)
(* below it: one play has the library at a time, a view is told that its   *)
(* play has ended only when the library has been given back, and the user  *)
(* gets back to the device list only after that.                           *)
EXTENDS Naturals

CONSTANT MaxPlays

VARIABLES
    phase,  (* of each play                                                 *)
    told,   (* the views that have the news that their play has ended       *)
    shown   (* the play whose view is on screen, 0 for the device list      *)

contractVars == <<phase, told, shown>>

ContractPlays == 1 .. MaxPlays

\* "none": no view yet; "asked": startRealPlay called; "using": the library is
\* this play's; "over": given back; "lost": ended without giving it back.
Phases == {"none", "asked", "using", "over", "lost"}

ContractInit ==
    /\ phase = [p \in ContractPlays |-> "none"]
    /\ told = {}
    /\ shown = 0

Enter(p, from, to) ==
    /\ phase[p] = from
    /\ phase' = [phase EXCEPT ![p] = to]

Ask(p) ==
    /\ shown = 0
    /\ \A q \in ContractPlays : phase[q] \in {"none", "over"}
    /\ Enter(p, "none", "asked")
    /\ shown' = p
    /\ UNCHANGED told

Acquire(p) ==
    /\ \A q \in ContractPlays : phase[q] # "using"
    /\ Enter(p, "asked", "using")
    /\ UNCHANGED <<told, shown>>

Refuse(p)   == Enter(p, "asked", "over") /\ UNCHANGED <<told, shown>>
GiveBack(p) == Enter(p, "using", "over") /\ UNCHANGED <<told, shown>>
Lose(p)     == Enter(p, "using", "lost") /\ UNCHANGED <<told, shown>>

Tell(views) ==
    /\ \A p \in views : phase[p] = "over"
    /\ told' = told \cup views
    /\ UNCHANGED <<phase, shown>>

Leave ==
    /\ shown \in told
    /\ shown' = 0
    /\ UNCHANGED <<phase, told>>

ContractNext ==
    \/ \E p \in ContractPlays :
          Ask(p) \/ Acquire(p) \/ Refuse(p) \/ GiveBack(p) \/ Lose(p)
    \/ \E views \in SUBSET ContractPlays : Tell(views)
    \/ Leave

ContractSpec == ContractInit /\ [][ContractNext]_contractVars
=============================================================================
