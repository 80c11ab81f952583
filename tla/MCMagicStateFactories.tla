----------------------- MODULE MCMagicStateFactories -----------------------
(* Factories small enough for TLC.                                         *)
EXTENDS MagicStateFactories

Card(kind, units) ==
    [kind |-> kind, units |-> units, inputs |-> 2, outputs |-> 1,
     corrections |-> 0, buffer |-> 0, initial |-> 0, failures |-> 1,
     requests |-> {"t1", "t2", "t3"}, emits |-> {"t1", "t2", "t3"}]

Stage == [Card("stage", <<2>>) EXCEPT !.corrections = 2]
StockedStage == [Card("stage", <<2>>) EXCEPT !.buffer = 1, !.initial = 2]
Chain == [Card("chain", <<3, 1, 1>>) EXCEPT !.requests = {"t1", "t2"},
                                            !.emits = {"t1", "t2"}]
CorrectedChain ==
    [Card("chain", <<2, 2>>) EXCEPT !.inputs = 3, !.outputs = 2,
                                    !.corrections = 1]
BufferedChain == [Card("chain", <<2, 1>>) EXCEPT !.buffer = 2]

SmallFactories == {Stage, StockedStage, Chain, CorrectedChain, BufferedChain}
=============================================================================
