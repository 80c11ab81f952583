-------------------------- MODULE MCStreamWindows --------------------------
(* Small runs of StreamWindows. *)
EXTENDS StreamWindows

Body(streams, rounds, pairs, closes) ==
    [streams |-> streams, rounds |-> rounds, couplings |-> pairs,
     closes |-> closes, after |-> {}]
OneStream == [streams |-> {1}, commit |-> 1 :> 2, limit |-> 1 :> 0,
              idle |-> 1 :> 0, buffer |-> 1, regions |-> FALSE,
              flush |-> TRUE, folds |-> FALSE, policy |-> "final",
              scheme |-> "live", before |-> 1 :> {}, ends |-> {}]

\* an open stream of two segments and idle cycles, its guesses checked
Checked == [OneStream EXCEPT !.idle = 1 :> 1, !.policy = "checked"]
            @@ [bodies |-> <<Body({1}, 3, {}, FALSE), Body({1}, 2, {}, FALSE)>>]
\* protected segments, whose boundaries close; results are held
Held == [OneStream EXCEPT !.policy = "held"]
            @@ [bodies |-> <<Body({1}, 3, {}, TRUE), Body({1}, 4, {}, TRUE),
                             Body({1}, 1, {}, TRUE)>>]
\* windows that read no buffer
NoBuffer == [OneStream EXCEPT !.buffer = 0, !.idle = 1 :> 1]
            @@ [bodies |-> <<Body({1}, 3, {}, FALSE), Body({1}, 2, {}, TRUE)>>]
\* streams of known length, planned whole
Flushed == [OneStream EXCEPT !.limit = 1 :> 12, !.idle = 1 :> 1,
                             !.policy = "held"]
            @@ [bodies |-> <<Body({1}, 3, {}, FALSE), Body({1}, 1, {}, FALSE),
                             Body({1}, 7, {}, FALSE)>>]
Lookahead == [OneStream EXCEPT !.limit = 1 :> 8, !.idle = 1 :> 1, !.flush = FALSE,
                               !.policy = "checked"]
            @@ [bodies |-> <<Body({1}, 3, {}, FALSE), Body({1}, 4, {}, FALSE)>>]
\* patches: a segment of each, one that couples them, one each
Patches == [streams |-> {1, 2}, commit |-> 1 :> 1 @@ 2 :> 1,
            limit |-> 1 :> 0 @@ 2 :> 0, idle |-> 1 :> 0 @@ 2 :> 0,
            buffer |-> 0, regions |-> TRUE, flush |-> FALSE, folds |-> TRUE,
            policy |-> "final", scheme |-> "live",
            before |-> 1 :> {} @@ 2 :> {}, ends |-> {},
            bodies |-> <<Body({1, 2}, 1, {}, FALSE),
                         Body({1, 2}, 2, {<<1, 2>>}, FALSE),
                         Body({1, 2}, 1, {}, FALSE)>>]
\* three patches, of which the middle one reads and is read; regions of two rounds
Merged == [Patches EXCEPT !.streams = {1, 2, 3},
                !.commit = [s \in {1, 2, 3} |-> 2],
                !.limit = [s \in {1, 2, 3} |-> 0],
                !.idle = [s \in {1, 2, 3} |-> 0],
                !.before = [s \in {1, 2, 3} |-> {}],
                !.bodies = <<Body({1, 2, 3}, 3, {<<1, 2>>, <<2, 3>>}, FALSE),
                             Body({1, 2}, 1, {}, FALSE)>>]

\* planned runs: the lengths of the operations, in the order they start
Operation(s, rounds, after) == [Body({s}, rounds, {}, FALSE) EXCEPT !.after = after]
Run(scheme, limit, before) ==
    [streams |-> DOMAIN limit, commit |-> [s \in DOMAIN limit |-> 2],
     limit |-> limit, idle |-> [s \in DOMAIN limit |-> 0], buffer |-> 1,
     regions |-> FALSE, flush |-> FALSE, folds |-> FALSE, policy |-> "held",
     scheme |-> scheme, before |-> before, ends |-> {},
     bodies |-> [i \in 1 .. Len(limit) |-> Operation(i, limit[i], {})]]
\* each row over two operations of which the second reads the first
Rows == {[Run(scheme, <<7, 3>>, <<{}, {1}>>) EXCEPT !.policy = "final"] :
            scheme \in {"sandwich", "naive"}}
        \cup {[Run("parallel", <<9, 2>>, <<{}, {1}>>) EXCEPT
                    !.commit = <<1, 1>>, !.policy = "checked"]}
\* an operation that looks ahead into the two after it, which are short;
\* one that another waits for, whose tail is closed, or memory rounds end
Ahead == [Run("sliding", <<3, 1, 1>>, <<{}, {1}, {1}>>) EXCEPT !.buffer = 2]
Blocking == [Run("sliding", <<3, 2>>, <<{}, {1}>>) EXCEPT
                !.bodies[2].after = {1}, !.ends = {1}]
Waiting == [Blocking EXCEPT !.ends = {}, !.idle = <<2, 0>>, !.policy = "checked"]
MCSettings ==
    {Checked, Held, NoBuffer, Flushed, Lookahead, Patches, Merged,
     Ahead, Blocking, Waiting} \cup Rows

\* guesses are checked, and the window after a closed boundary is laid late
LateWindows == {[Held EXCEPT !.policy = "checked"]}
=============================================================================
