------------------------------- MODULE MCCore -------------------------------
(* The calls of the core, or the texts of a core whose calls are over.      *)
EXTENDS MCTexts, MeetingCore

VARIABLE side       \* what this behaviour is about: "calls" or "texts"

CallsOver ==
    /\ at = [c \in Threads |-> "over"] /\ got = [c \in Threads |-> "parsed"]
    /\ tries = [c \in Threads |-> 0] /\ held = [t \in Tasks |-> 0]
    /\ stage = "finalize" /\ gathered = Cardinality(Tasks) /\ content = TRUE
    /\ ticks = WindowCount /\ shown = [stage |-> "finalize", done |-> WindowCount]
    /\ lost = [k \in Kinds |-> 0] /\ cancelled = FALSE /\ outcome = "result"

CoreInit ==
    /\ TextInit
    /\ \/ side = "calls" /\ Init /\ meeting = CHOOSE m \in Meetings : TRUE
       \/ side = "texts" /\ CallsOver

CoreNext ==
    \/ side = "calls" /\ Next /\ UNCHANGED <<textVars, side>>
    \/ side = "texts" /\ TextNext /\ UNCHANGED <<vars, side>>

(* The fairness of FairSpec: no call is left to be fair to when they are   *)
(* over.                                                                   *)
CoreSpec ==
    /\ CoreInit /\ [][CoreNext]_<<vars, textVars, side>>
    /\ WF_vars(CoreStep)
    /\ \A t \in Tasks : WF_vars(WorkerStep(t))
    /\ \A c \in Threads : WF_vars(CallEnds(c))
=============================================================================
