---------------------------- MODULE MCDecoderPool ---------------------------
(***************************************************************************)
(* Pools for TLC.                                                           *)
(***************************************************************************)
EXTENDS DecoderPool, TLC

CONSTANTS classZero, classOne, outside, s1, s2, s3, s4, u1, u2

MixedKind == outside :> "external" @@ classZero :> "window" @@ classOne :> "window"
             @@ s1 :> "strong" @@ s2 :> "strong"
MixedInput == outside :> outside @@ classZero :> classZero
              @@ classOne :> classZero @@ s1 :> s1 @@ s2 :> s2
MixedBits == outside :> 0 @@ classZero :> 2 @@ s1 :> 1 @@ s2 :> 1

Pool(requests) == [
    requests |-> requests, units |-> {u1, u2},
    kind |-> [r \in requests |-> MixedKind[r]],
    inputOf |-> [r \in requests |-> MixedInput[r]],
    bits |-> [i \in {MixedInput[r] : r \in requests} |-> MixedBits[i]],
    capacityBits |-> 2, slotCount |-> 1, owes |-> {classZero, classOne},
    blocksUnit |-> FALSE, asksAtOnce |-> FALSE,
    mergesStrong |-> FALSE, decodesEach |-> FALSE]

(* Two forced-class companions share the rounds of one window, which fill   *)
(* a unit's memory; two strong inputs fit together.                         *)
Mixed == Pool({classZero, classOne, s1, s2})

(* An outside job beside them, on units that block on their result and have *)
(* memory for every input.                                                  *)
Blocking == [Pool({classZero, classOne, s1, outside}) EXCEPT
    !.slotCount = 2, !.capacityBits = 3, !.blocksUnit = TRUE, !.asksAtOnce = TRUE]

(* A pool that merges the strong requests of as many windows, one bit each. *)
Strong(requests, units, capacityBits) == [
    requests |-> requests, units |-> units,
    kind |-> [r \in requests |-> "strong"], inputOf |-> [r \in requests |-> r],
    bits |-> [r \in requests |-> 1],
    capacityBits |-> capacityBits, slotCount |-> 1, owes |-> {},
    blocksUnit |-> FALSE, asksAtOnce |-> TRUE,
    mergesStrong |-> TRUE, decodesEach |-> TRUE]

(* The inputs are asked for after the loop, so a second batch may form while*)
(* the first waits for its input.                                           *)
Batches == [Strong({s1, s2, s3, s4}, {u1}, 100) EXCEPT !.asksAtOnce = FALSE]

PoolSettings == {Mixed, Blocking, Batches}
ASSUME HypothesesAssumption ==
    \A c \in PoolSettings : EachInputFits(c) /\ (RoomIsAsked(c) \/ AllInputsFit(c))

(* One unit with memory for two bits: a wide request runs while two narrow  *)
(* ones wait, so the next decode is a batch of them.                        *)
BatchRoom == [Strong({s1, s2, s3, s4}, {u1}, 2) EXCEPT !.bits[s1] = 2]

RoomSettings == {BatchRoom}
=============================================================================
