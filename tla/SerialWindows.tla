--------------------------- MODULE SerialWindows ---------------------------
(***************************************************************************)
(* What a run's windows promise, whatever the order their boundaries,      *)
(* guesses and strong answers arrive in: each window gets one answer, that *)
(* answer was decoded on the answers of the windows it depends on, and it  *)
(* never changes.                                                          *)
(***************************************************************************)
EXTENDS Naturals

CONSTANTS Layouts, Boundaries

VARIABLES
    layout,     \* the run's windows and what each reads
    answer      \* each window's one answer, once it has it

Windows == layout.windows
Deps == layout.deps
PinOf == layout.pin

Nothing == [none |-> TRUE]

Init ==
    /\ layout \in Layouts
    /\ answer = [w \in Windows |-> Nothing]

\* A window is answered on the answers of everything it reads: of all its
\* dependencies, or, when the strong tier answers, of the one it is pinned on.
Answer(w, readers) ==
    /\ answer[w] = Nothing
    /\ \A d \in Deps[w] : answer[d] # Nothing
    /\ \E b \in Boundaries :
        answer' = [answer EXCEPT ![w] =
            [reads |-> [d \in readers |-> answer[d].boundary], boundary |-> b]]

Next ==
    /\ UNCHANGED layout
    /\ \E w \in Windows : Answer(w, Deps[w]) \/ Answer(w, PinOf[w])

Spec == Init /\ [][Next]_<<layout, answer>>
=============================================================================
