------------------------------ MODULE DayRecord ------------------------------
(***************************************************************************)
(* What an employee's attendance day promises, whoever reports the events  *)
(* and in whatever order they arrive: it remembers the first arrival and   *)
(* the last departure.  An arrival can only make the check-in earlier, a   *)
(* departure can only make the check-out later, and nothing else touches   *)
(* either.                                                                 *)
(***************************************************************************)
EXTENDS Integers

CONSTANTS
    None,   \* nothing recorded
    Keys,   \* the employee-days
    Times   \* the instants of events

VARIABLES
    firstIn,  \* firstIn[k]: the earliest arrival recorded
    lastOut   \* lastOut[k]: the latest departure recorded

Init ==
    /\ firstIn = [k \in Keys |-> None]
    /\ lastOut = [k \in Keys |-> None]

Earlier(t, current) == current = None \/ t < current
Later(t, current) == current = None \/ t > current

\* An arrival that is the earliest so far.
Arrive(k, t) ==
    /\ Earlier(t, firstIn[k])
    /\ firstIn' = [firstIn EXCEPT ![k] = t]
    /\ UNCHANGED lastOut

\* A departure that is the latest so far.
Depart(k, t) ==
    /\ Later(t, lastOut[k])
    /\ lastOut' = [lastOut EXCEPT ![k] = t]
    /\ UNCHANGED firstIn

Next == \E k \in Keys, t \in Times : Arrive(k, t) \/ Depart(k, t)

Spec == Init /\ [][Next]_<<firstIn, lastOut>>

=============================================================================
