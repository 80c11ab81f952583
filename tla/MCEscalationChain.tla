------------------------- MODULE MCEscalationChain -------------------------
(***************************************************************************)
(* The chains TLC walks: every chain of two or three pools, each edge      *)
(* starting its target with the source job, at a deadline's rescue or at   *)
(* the verdict, with one or two forced-class solves on each pool whose     *)
(* edge reads them; and one chain whose entry edge decodes both at once    *)
(* above a pool that escalates further.                                    *)
(***************************************************************************)
EXTENDS EscalationChain

Chain(depth, speculates, rescues, entry, middle) ==
    [depth |-> depth, speculates |-> speculates, rescues |-> rescues,
     solves |-> [p \in Pools |->
        CASE p = 0 -> entry
          [] p = 1 /\ depth = 2 -> middle
          [] OTHER -> 1]]

AllChains ==
    UNION {{Chain(d, sp, re, entry, middle) :
                entry \in {1, 2}, middle \in {1, 2}, re \in SUBSET ((1..d) \ sp)} :
           <<d, sp>> \in {x \in {1, 2} \X SUBSET {1, 2} : x[2] \subseteq 1..x[1]}}

SpeculatingEntry == {Chain(2, {1}, {}, 1, 1)}
=============================================================================
