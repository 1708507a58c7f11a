---------------------------- MODULE MCInspection ----------------------------
(***************************************************************************)
(* The two halves of what happens to a request, on the instances of        *)
(* MCPolicy and MCVerdicts: which policy it gets, and what the engines and *)
(* body checks of a policy decide.  A behaviour is one of them: focus says *)
(* which, the variables of the other stay as they started.                 *)
(***************************************************************************)
EXTENDS MCPolicy, MCVerdicts

VARIABLE focus

ivars == <<focus, pvars, evvars>>

NoJob == [op |-> "none"]

InspectionInit ==
    \/ /\ focus = "policy" /\ PInit
       /\ job = NoJob /\ at = "done" /\ asked = <<>> /\ results = <<>> /\ total = 0 /\ crossed = FALSE
    \/ /\ focus = "verdicts" /\ EVInit
       /\ phase = "rejected" /\ files = <<>> /\ merged = Nil /\ resolver = Nil /\ served = Nil

InspectionNext ==
    \/ focus = "policy" /\ PNext /\ UNCHANGED <<focus, evvars>>
    \/ focus = "verdicts" /\ EVNext /\ UNCHANGED <<focus, pvars>>

InspectionSpec == InspectionInit /\ [][InspectionNext]_ivars
=============================================================================
