------------------------------ MODULE StateSupply ------------------------------
(***************************************************************************)
(* What a magic state factory promises the runtime, whichever row of the   *)
(* preset makes its states: each request is served once, with one state,   *)
(* in the order in which the requests came; a state that nobody waits for   *)
(* goes to the stock, and a request never waits beside a stock.            *)
(***************************************************************************)
EXTENDS Naturals, Sequences, SequencesExt

CONSTANTS
    Requests,       \* the operations that may ask for a state
    AtOnce          \* the states that can be ready in one step, at most

VARIABLES
    waiting,        \* the requests that wait, oldest first
    stock,          \* the states ready to be handed over
    served          \* the requests served, in the order they were served

supplyVars == <<waiting, stock, served>>

Init ==
    /\ waiting = <<>>
    /\ stock \in Nat
    /\ served = <<>>

\* The states in hand go to the oldest requests of the queue.
HandOver(queue, states) ==
    LET given == IF states <= Len(queue) THEN states ELSE Len(queue) IN
    /\ served' = served \o SubSeq(queue, 1, given)
    /\ waiting' = SubSeq(queue, given + 1, Len(queue))
    /\ stock' = states - given

Ask(o) ==
    /\ ~ Contains(waiting, o) /\ ~ Contains(served, o)
    /\ HandOver(Append(waiting, o), stock)

Arrive(states) == HandOver(waiting, stock + states)

Next ==
    \/ \E o \in Requests : Ask(o)
    \/ \E states \in 1 .. AtOnce : Arrive(states)

Spec == Init /\ [][Next]_supplyVars
=============================================================================
