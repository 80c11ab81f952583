----------------------- MODULE ReliableChannelProofs ------------------------
(***************************************************************************)
(* Go-back-N as ReliableChannel models it is safe for every message list,   *)
(* window, acknowledgement interval, receive buffer and retry count.        *)
(*                                                                         *)
(* unacked_psn <= expected_psn is not inductive: it needs that every answer *)
(* on its way back covers only taken frames (AnswersCoverTaken), which      *)
(* needs that expected_psn never falls.  That a message is delivered once   *)
(* needs the log to be exactly the messages below expected_psn (LogIsTaken).*)
(***************************************************************************)
EXTENDS ReliableChannel, TLAPS

AnswersCoverTaken ==
    \A i \in DOMAIN reverse : AcknowledgedUpTo(reverse[i]) <= expected_psn

FramesNumbered ==
    \A i \in DOMAIN forward : forward[i].psn < packet_count

CountersOrdered ==
    expected_psn <= packet_count /\ next_psn <= packet_count

LogIsTaken ==
    \A m \in LastPsns :
        m < expected_psn <=> \E i \in DOMAIN delivered : delivered[i] = m

IInv ==
    /\ TypeOK
    /\ AnswersCoverTaken
    /\ FramesNumbered
    /\ CountersOrdered
    /\ LogIsTaken
    /\ AcknowledgedIsTaken
    /\ ReachablePacketsKept
    /\ CreditsCoverFrames
    /\ NeverStranded
    /\ WindowRespected

(* Facts about sequences: what a tail and an append hold. *)
LEMMA TailFacts ==
    ASSUME NEW S, NEW q \in Seq(S), q # <<>>
    PROVE  /\ Head(q) \in S
           /\ Head(q) = q[1]
           /\ 1 \in DOMAIN q
           /\ Tail(q) \in Seq(S)
           /\ Len(Tail(q)) = Len(q) - 1
           /\ \A i \in DOMAIN Tail(q) : i + 1 \in DOMAIN q /\ Tail(q)[i] = q[i + 1]
  OBVIOUS

\* What appending one element to a sequence keeps and adds.
LEMMA AppendFacts ==
    ASSUME NEW S, NEW q \in Seq(S), NEW e \in S
    PROVE  /\ Append(q, e) \in Seq(S)
           /\ Len(Append(q, e)) = Len(q) + 1
           /\ \A i \in DOMAIN Append(q, e) :
                 Append(q, e)[i] = e \/ (i \in DOMAIN q /\ Append(q, e)[i] = q[i])
           /\ \A i \in DOMAIN q : i \in DOMAIN Append(q, e) /\ Append(q, e)[i] = q[i]
           /\ Len(q) + 1 \in DOMAIN Append(q, e)
           /\ Append(q, e)[Len(q) + 1] = e
  OBVIOUS

(* What one try at sending may do to the wire and the counters. *)
LEMMA SendNextFacts ==
    ASSUME IInv, ~failed,
           NEW next \in 0 .. PacketTotal, NEW unacked \in 0 .. PacketTotal,
           NEW count \in 0 .. PacketTotal, NEW mark \in BOOLEAN,
           next <= count, packet_count <= count,
           next - unacked <= WindowPackets,
           SendNext(next, unacked, count, mark)
    PROVE  /\ next_psn' \in 0 .. PacketTotal
           /\ next <= next_psn' /\ next_psn' <= count
           /\ next_psn' - unacked <= WindowPackets
           /\ since_ack_request' \in Nat
           /\ serializing' \in BOOLEAN
           /\ wake' \in BOOLEAN
           /\ credits_out' \in 0 .. ReceiveBufferFrames
           /\ forward' \in Seq(Frame)
           /\ \A i \in DOMAIN forward' : forward'[i].psn < count
           /\ Len(forward') <= credits_out'
           /\ Len(forward') <= ReceiveBufferFrames
           /\ HasPacketToSend(next_psn', unacked, count) => wake'
           /\ ~TransmitsFrom(next, unacked, count) => next_psn' = next
           /\ TransmitsFrom(next, unacked, count) => next_psn' = next + 1
  <1>1. CASE TransmitsFrom(next, unacked, count)
    <2> DEFINE asks == next \in LastPsns \/ since_ack_request + 1 >= AckEvery
    <2>1. Transmit(next)
      BY <1>1 DEF SendNext, TransmitsFrom
    <2>2. next \in Psn /\ next < count /\ next - unacked < WindowPackets
      BY <1>1, PacketsAssumption DEF TransmitsFrom, HasPacketToSend, Psn
    <2>3. [psn |-> next, requests_ack |-> asks] \in Frame
      BY <2>2 DEF Frame
    <2>4. forward' = Append(forward, [psn |-> next, requests_ack |-> asks])
      BY <2>1 DEF Transmit
    <2>5. forward \in Seq(Frame) /\ Len(forward) <= credits_out
          /\ credits_out < ReceiveBufferFrames
      BY <1>1 DEF IInv, TypeOK, CreditsCoverFrames, TransmitsFrom, WireTakesFrame
    <2>6. \A i \in DOMAIN forward' : forward'[i].psn < count
      <3> TAKE i \in DOMAIN forward'
      <3>1. CASE forward'[i] = [psn |-> next, requests_ack |-> asks]
        BY <3>1, <2>2
      <3>2. CASE i \in DOMAIN forward /\ forward'[i] = forward[i]
        <4>1. forward[i].psn < packet_count
          BY <3>2 DEF IInv, FramesNumbered
        <4>2. forward[i] \in Frame
          BY <2>5, <3>2
        <4> QED BY <4>1, <4>2, <3>2, PacketsAssumption DEF Frame, Psn, IInv, TypeOK
      <3> QED BY <3>1, <3>2, <2>3, <2>4, <2>5, AppendFacts
    <2>7. forward' \in Seq(Frame) /\ Len(forward') = Len(forward) + 1
      BY <2>3, <2>4, <2>5, AppendFacts
    <2>8. /\ next_psn' = next + 1 /\ serializing' = TRUE
          /\ credits_out' = credits_out + 1 /\ since_ack_request' \in Nat
      BY <2>1 DEF Transmit, IInv, TypeOK
    <2>9. wake' = TRUE
      <3>1. HasPacketToSend(next, unacked, count)
        BY <1>1 DEF TransmitsFrom
      <3>2. (mark \/ HasPacketToSend(next, unacked, count)) = TRUE
        BY <3>1
      <3>3. wake' = (mark \/ HasPacketToSend(next, unacked, count))
        BY DEF SendNext
      <3> QED BY <3>2, <3>3
    <2> QED
      BY <1>1, <2>2, <2>5, <2>6, <2>7, <2>8, <2>9, PacketsAssumption, SettingsAssumption
      DEF IInv, TypeOK, CreditsCoverFrames
  <1>2. CASE ~TransmitsFrom(next, unacked, count)
    <2>1. /\ next_psn' = next
          /\ UNCHANGED <<forward, serializing, credits_out, since_ack_request>>
          /\ wake' = (mark \/ HasPacketToSend(next, unacked, count))
      BY <1>2 DEF SendNext, TransmitsFrom
    <2>2. \A i \in DOMAIN forward : forward[i].psn < count
      <3> TAKE i \in DOMAIN forward
      <3>1. forward[i].psn < packet_count /\ forward[i] \in Frame
        BY DEF IInv, FramesNumbered, TypeOK
      <3> QED BY <3>1, PacketsAssumption DEF Frame, Psn, IInv, TypeOK
    <2>3. wake' \in BOOLEAN
      <3>1. CASE mark \/ HasPacketToSend(next, unacked, count)
        <4>1. (mark \/ HasPacketToSend(next, unacked, count)) = TRUE
          BY <3>1
        <4> QED BY <2>1, <4>1
      <3>2. CASE ~(mark \/ HasPacketToSend(next, unacked, count))
        <4>1. (mark \/ HasPacketToSend(next, unacked, count)) = FALSE
          BY <3>2
        <4> QED BY <2>1, <4>1
      <3> QED BY <3>1, <3>2
    <2>4. HasPacketToSend(next_psn', unacked, count) => wake'
      BY <2>1
    <2> QED
      BY <1>2, <2>1, <2>2, <2>3, <2>4 DEF IInv, TypeOK, CreditsCoverFrames
  <1> QED BY <1>1, <1>2

-----------------------------------------------------------------------------
LEMMA InitEstablishesIInv == Init => IInv
  <1> SUFFICES ASSUME Init PROVE IInv
    OBVIOUS
  <1>1. TypeOK
    <2>1. <<>> \in Seq(Frame) /\ <<>> \in Seq(Answer) /\ <<>> \in Seq(LastPsns)
      OBVIOUS
    <2>2. 0 \in 0 .. PacketTotal /\ 0 \in 0 .. ReceiveBufferFrames /\ 0 \in Nat
      BY PacketsAssumption, SettingsAssumption
    <2> QED BY <2>1, <2>2, SettingsAssumption DEF Init, TypeOK
  <1>2. LogIsTaken
    BY PacketsAssumption DEF Init, LogIsTaken
  <1>3. AnswersCoverTaken /\ FramesNumbered
    BY DEF Init, AnswersCoverTaken, FramesNumbered
  <1>4. CountersOrdered /\ AcknowledgedIsTaken /\ ReachablePacketsKept
        /\ CreditsCoverFrames /\ WindowRespected
    BY SettingsAssumption
    DEF Init, CountersOrdered, AcknowledgedIsTaken, ReachablePacketsKept,
        CreditsCoverFrames, WindowRespected
  <1>5. NeverStranded
    BY DEF Init, NeverStranded, HasPacketToSend
  <1> QED BY <1>1, <1>2, <1>3, <1>4, <1>5 DEF IInv

(* Handlers that only use the sending side leave the responder's part of    *)
(* the invariant as it was.                                                 *)
LEMMA ResponderPartKept ==
    ASSUME IInv, UNCHANGED <<responder, reverse>>
    PROVE  AnswersCoverTaken' /\ LogIsTaken'
           /\ expected_psn' \in 0 .. PacketTotal /\ is_nak_sent' \in BOOLEAN
           /\ reverse' \in Seq(Answer) /\ delivered' \in Seq(LastPsns)
  BY DEF IInv, TypeOK, AnswersCoverTaken, LogIsTaken, responder

\* The caller hands over a message that ends at packet last, and the
\* packets the window allows leave.
LEMMA TakeWirePreserves ==
    ASSUME IInv, NEW last \in LastPsns, TakeWire(last)
    PROVE  IInv'
  <1>1. /\ ~failed /\ last >= packet_count /\ packet_count' = last + 1
        /\ SendNext(next_psn, unacked_psn, last + 1, wake)
        /\ timer' = (next_psn' > unacked_psn)
        /\ UNCHANGED <<first_kept_psn, unacked_psn, is_retry_started, retries_left,
                       responder, reverse, failed>>
    BY DEF TakeWire
  <1>2. last + 1 \in 0 .. PacketTotal /\ packet_count <= last + 1
        /\ next_psn <= last + 1 /\ expected_psn <= last + 1
    BY <1>1, PacketsAssumption DEF IInv, TypeOK, CountersOrdered
  <1>3. /\ next_psn \in 0 .. PacketTotal /\ unacked_psn \in 0 .. PacketTotal
        /\ wake \in BOOLEAN /\ next_psn - unacked_psn <= WindowPackets
    BY DEF IInv, TypeOK, WindowRespected
  <1>4. /\ next_psn' \in 0 .. PacketTotal
        /\ next_psn <= next_psn' /\ next_psn' <= last + 1
        /\ next_psn' - unacked_psn <= WindowPackets
        /\ since_ack_request' \in Nat /\ serializing' \in BOOLEAN
        /\ wake' \in BOOLEAN /\ credits_out' \in 0 .. ReceiveBufferFrames
        /\ forward' \in Seq(Frame)
        /\ \A i \in DOMAIN forward' : forward'[i].psn < last + 1
        /\ Len(forward') <= credits_out' /\ Len(forward') <= ReceiveBufferFrames
        /\ HasPacketToSend(next_psn', unacked_psn, last + 1) => wake'
    BY <1>1, <1>2, <1>3, SendNextFacts
  <1>5. AnswersCoverTaken' /\ LogIsTaken'
        /\ expected_psn' \in 0 .. PacketTotal /\ is_nak_sent' \in BOOLEAN
        /\ reverse' \in Seq(Answer) /\ delivered' \in Seq(LastPsns)
    BY <1>1, ResponderPartKept
  <1>6. TypeOK'
    BY <1>1, <1>2, <1>4, <1>5 DEF IInv, TypeOK
  <1>7. FramesNumbered' /\ CountersOrdered'
    BY <1>1, <1>2, <1>4 DEF FramesNumbered, CountersOrdered, responder
  <1>8. AcknowledgedIsTaken' /\ ReachablePacketsKept' /\ WindowRespected'
    BY <1>1, <1>3, <1>4
    DEF IInv, TypeOK, AcknowledgedIsTaken, ReachablePacketsKept, WindowRespected, responder
  <1>9. CreditsCoverFrames' /\ NeverStranded'
    BY <1>1, <1>4 DEF CreditsCoverFrames, NeverStranded
  <1> QED BY <1>5, <1>6, <1>7, <1>8, <1>9 DEF IInv

\* A scheduled wake sends what the window allows.
LEMMA WakePreserves ==
    ASSUME IInv, Wake
    PROVE  IInv'
  <1>1. /\ ~failed
        /\ SendNext(next_psn, unacked_psn, packet_count, FALSE)
        /\ timer' = (timer \/ TransmitsFrom(next_psn, unacked_psn, packet_count))
        /\ UNCHANGED <<packet_count, first_kept_psn, unacked_psn, is_retry_started,
                       retries_left, responder, reverse, failed>>
    BY DEF Wake
  <1>2. /\ next_psn \in 0 .. PacketTotal /\ unacked_psn \in 0 .. PacketTotal
        /\ packet_count \in 0 .. PacketTotal /\ next_psn <= packet_count
        /\ packet_count <= packet_count
        /\ FALSE \in BOOLEAN /\ next_psn - unacked_psn <= WindowPackets
    BY DEF IInv, TypeOK, WindowRespected, CountersOrdered
  <1>3. /\ next_psn' \in 0 .. PacketTotal
        /\ next_psn <= next_psn' /\ next_psn' <= packet_count
        /\ next_psn' - unacked_psn <= WindowPackets
        /\ since_ack_request' \in Nat /\ serializing' \in BOOLEAN
        /\ wake' \in BOOLEAN /\ credits_out' \in 0 .. ReceiveBufferFrames
        /\ forward' \in Seq(Frame)
        /\ \A i \in DOMAIN forward' : forward'[i].psn < packet_count
        /\ Len(forward') <= credits_out' /\ Len(forward') <= ReceiveBufferFrames
        /\ HasPacketToSend(next_psn', unacked_psn, packet_count) => wake'
        /\ ~TransmitsFrom(next_psn, unacked_psn, packet_count) => next_psn' = next_psn
    BY <1>1, <1>2, SendNextFacts
  <1>4. AnswersCoverTaken' /\ LogIsTaken'
        /\ expected_psn' \in 0 .. PacketTotal /\ is_nak_sent' \in BOOLEAN
        /\ reverse' \in Seq(Answer) /\ delivered' \in Seq(LastPsns)
    BY <1>1, ResponderPartKept
  <1>5. timer' \in BOOLEAN
    <2>1. (timer \/ TransmitsFrom(next_psn, unacked_psn, packet_count)) \in BOOLEAN
      OBVIOUS
    <2> QED BY <1>1, <2>1
  <1>6. TypeOK'
    BY <1>1, <1>3, <1>4, <1>5 DEF IInv, TypeOK
  <1>7. FramesNumbered' /\ CountersOrdered'
    BY <1>1, <1>3 DEF IInv, FramesNumbered, CountersOrdered, responder
  <1>8. AcknowledgedIsTaken' /\ ReachablePacketsKept' /\ WindowRespected'
    BY <1>1, <1>2, <1>3
    DEF IInv, TypeOK, AcknowledgedIsTaken, ReachablePacketsKept, WindowRespected, responder
  <1>9. next_psn' > unacked_psn => timer'
    BY <1>1, <1>3 DEF IInv, NeverStranded
  <1>10. CreditsCoverFrames' /\ NeverStranded'
    BY <1>1, <1>3, <1>9 DEF CreditsCoverFrames, NeverStranded
  <1> QED BY <1>4, <1>6, <1>7, <1>8, <1>10 DEF IInv

(* An answer that lands takes nothing from the answers behind it.            *)
LEMMA AnswersBehindKept ==
    ASSUME IInv, reverse # <<>>, reverse' = Tail(reverse),
           UNCHANGED <<expected_psn, is_nak_sent, delivered>>
    PROVE  /\ AnswersCoverTaken' /\ LogIsTaken'
           /\ expected_psn' \in 0 .. PacketTotal /\ is_nak_sent' \in BOOLEAN
           /\ reverse' \in Seq(Answer) /\ delivered' \in Seq(LastPsns)
           /\ Head(reverse) \in Answer
           /\ AcknowledgedUpTo(Head(reverse)) <= expected_psn
  <1>1. reverse \in Seq(Answer)
    BY DEF IInv, TypeOK
  <1>2. /\ Head(reverse) \in Answer /\ Head(reverse) = reverse[1]
        /\ 1 \in DOMAIN reverse /\ Tail(reverse) \in Seq(Answer)
        /\ \A i \in DOMAIN Tail(reverse) :
              i + 1 \in DOMAIN reverse /\ Tail(reverse)[i] = reverse[i + 1]
    BY <1>1, TailFacts
  <1>3. \A i \in DOMAIN reverse : AcknowledgedUpTo(reverse[i]) <= expected_psn
    BY DEF IInv, AnswersCoverTaken
  <1>4. AcknowledgedUpTo(Head(reverse)) <= expected_psn
    BY <1>2, <1>3
  <1>5. \A i \in DOMAIN reverse' : AcknowledgedUpTo(reverse'[i]) <= expected_psn'
    BY <1>2, <1>3
  <1>6. AnswersCoverTaken'
    BY <1>5 DEF AnswersCoverTaken, AcknowledgedUpTo
  <1>7. LogIsTaken'
    BY DEF IInv, LogIsTaken
  <1> QED BY <1>2, <1>4, <1>6, <1>7 DEF IInv, TypeOK

(* A stop of the run leaves everything but the answers as it was.            *)
LEMMA GiveUpPreserves ==
    ASSUME IInv, GiveUp, AnswersCoverTaken', reverse' \in Seq(Answer)
    PROVE  IInv'
  <1>1. UNCHANGED <<requester, timer, wake, wire, responder>> /\ failed' = TRUE
    BY DEF GiveUp
  <1>2. TypeOK'
    BY <1>1 DEF IInv, TypeOK, requester, wire, responder
  <1>3. FramesNumbered' /\ CountersOrdered' /\ LogIsTaken' /\ AcknowledgedIsTaken'
        /\ ReachablePacketsKept' /\ CreditsCoverFrames' /\ WindowRespected'
    BY <1>1
    DEF IInv, FramesNumbered, CountersOrdered, LogIsTaken, AcknowledgedIsTaken,
        ReachablePacketsKept, CreditsCoverFrames, WindowRespected,
        requester, wire, responder
  <1>4. NeverStranded'
    BY <1>1 DEF NeverStranded
  <1> QED BY <1>2, <1>3, <1>4 DEF IInv

\* A spent retry stays within the configured retry count.
LEMMA SpendStaysInRange ==
    ASSUME NEW retries \in 0 .. UnspentRetryCount, retries # 0
    PROVE  Spend(retries) \in 0 .. UnspentRetryCount
  BY SettingsAssumption DEF Spend

\* The requester reads one answer: an ACK retires packets the responder
\* took, a NAK starts over.
LEMMA TakeAnswerPreserves ==
    ASSUME IInv, ~failed, reverse # <<>>, reverse' = Tail(reverse),
           TakeAnswer(Head(reverse))
    PROVE  IInv'
  <1> DEFINE answer  == Head(reverse)
             upTo    == AcknowledgedUpTo(answer)
             unacked == IF upTo > unacked_psn THEN upTo ELSE unacked_psn
             refills == ~answer.is_nak /\ answer.psn >= unacked_psn
             started == is_retry_started /\ ~refills
             retries == IF refills THEN RetryCount ELSE retries_left
             retry   == answer.is_nak /\ MayRetry(next_psn, unacked, started, FALSE)
             next    == IF retry THEN unacked ELSE next_psn
  <1>1. CASE retry /\ retries = 0
    <2>1. GiveUp
      BY <1>1 DEF TakeAnswer
    <2>2. UNCHANGED <<expected_psn, is_nak_sent, delivered>>
      BY <2>1 DEF GiveUp, responder
    <2> QED BY <2>1, <2>2, AnswersBehindKept, GiveUpPreserves
  <1>2. CASE ~(retry /\ retries = 0)
    <2>1. /\ unacked_psn' = unacked
          /\ is_retry_started' = (started \/ retry)
          /\ retries_left' = IF retry THEN Spend(retries) ELSE retries
          /\ SendNext(next, unacked, packet_count, wake)
          /\ timer' = IF TransmitsFrom(next, unacked, packet_count)
                      THEN TRUE
                      ELSE IF retry THEN timer ELSE next > unacked
          /\ first_kept_psn' = FirstNeeded(next_psn', unacked)
          /\ UNCHANGED <<packet_count, responder, failed>>
          /\ next_psn > unacked_psn
      BY <1>2 DEF TakeAnswer
    <2>2. UNCHANGED <<expected_psn, is_nak_sent, delivered>>
      BY <2>1 DEF responder
    <2>3. /\ AnswersCoverTaken' /\ LogIsTaken'
          /\ expected_psn' \in 0 .. PacketTotal /\ is_nak_sent' \in BOOLEAN
          /\ reverse' \in Seq(Answer) /\ delivered' \in Seq(LastPsns)
          /\ answer \in Answer /\ upTo <= expected_psn
      BY <2>2, AnswersBehindKept
    <2>4. upTo \in Nat
      BY <2>3, PacketsAssumption DEF Answer, AcknowledgedUpTo
    <2>5. /\ unacked \in 0 .. PacketTotal /\ unacked >= unacked_psn
          /\ unacked <= expected_psn
      BY <2>3, <2>4, PacketsAssumption DEF IInv, TypeOK, AcknowledgedIsTaken
    <2>6. /\ next \in 0 .. PacketTotal /\ next <= packet_count
          /\ next - unacked <= WindowPackets
      <3> HIDE DEF unacked, upTo
      <3>1. /\ next_psn \in 0 .. PacketTotal /\ next_psn <= packet_count
            /\ unacked_psn \in 0 .. PacketTotal /\ packet_count \in 0 .. PacketTotal
            /\ next_psn - unacked_psn <= WindowPackets
            /\ expected_psn \in 0 .. PacketTotal /\ expected_psn <= packet_count
        BY DEF IInv, TypeOK, CountersOrdered, WindowRespected
      <3> HIDE DEF retry
      <3>2. next = unacked \/ next = next_psn
        OBVIOUS
      <3> HIDE DEF next
      <3> QED BY <3>1, <3>2, <2>5, PacketsAssumption, SettingsAssumption
    <2>7. /\ packet_count \in 0 .. PacketTotal /\ wake \in BOOLEAN
          /\ packet_count <= packet_count
      BY DEF IInv, TypeOK
    <2>8. SendNext(next, unacked, packet_count, wake)
      BY <2>1
    <2> HIDE DEF unacked, next, upTo
    <2>9. /\ next_psn' \in 0 .. PacketTotal
          /\ next <= next_psn' /\ next_psn' <= packet_count
          /\ next_psn' - unacked <= WindowPackets
          /\ since_ack_request' \in Nat /\ serializing' \in BOOLEAN
          /\ wake' \in BOOLEAN /\ credits_out' \in 0 .. ReceiveBufferFrames
          /\ forward' \in Seq(Frame)
          /\ \A i \in DOMAIN forward' : forward'[i].psn < packet_count
          /\ Len(forward') <= credits_out' /\ Len(forward') <= ReceiveBufferFrames
          /\ HasPacketToSend(next_psn', unacked, packet_count) => wake'
          /\ ~TransmitsFrom(next, unacked, packet_count) => next_psn' = next
      BY <2>5, <2>6, <2>7, <2>8, SendNextFacts
    <2>10. retries_left' \in 0 .. UnspentRetryCount
      <3> HIDE DEF retry, refills
      <3>1. retries \in 0 .. UnspentRetryCount
        BY SettingsAssumption DEF IInv, TypeOK
      <3> HIDE DEF retries
      <3>2. CASE retry
        BY <3>1, <3>2, <2>1, <1>2, SpendStaysInRange
      <3>3. CASE ~retry
        BY <3>1, <3>3, <2>1
      <3> QED BY <3>2, <3>3
    <2>11. is_retry_started' \in BOOLEAN
      <3>1. CASE started \/ retry
        <4>1. (started \/ retry) = TRUE
          BY <3>1
        <4> QED BY <2>1, <4>1
      <3>2. CASE ~(started \/ retry)
        <4>1. (started \/ retry) = FALSE
          BY <3>2
        <4> QED BY <2>1, <4>1
      <3> QED BY <3>1, <3>2
    <2>12. timer' \in BOOLEAN /\ (next_psn' > unacked => timer')
      <3>1. CASE TransmitsFrom(next, unacked, packet_count)
        BY <2>1, <3>1
      <3>2. CASE ~TransmitsFrom(next, unacked, packet_count) /\ retry
        <4>1. timer' = timer /\ next_psn' = next
          BY <2>1, <2>9, <3>2
        <4>2. next = unacked
          BY <3>2 DEF next
        <4> QED BY <4>1, <4>2, <2>5 DEF IInv, TypeOK
      <3>3. CASE ~TransmitsFrom(next, unacked, packet_count) /\ ~retry
        <4>1. timer' = (next > unacked) /\ next_psn' = next
          BY <2>1, <2>9, <3>3
        <4>2. (next > unacked) \in BOOLEAN
          OBVIOUS
        <4> QED BY <4>1, <4>2
      <3> HIDE DEF retry
      <3> QED BY <3>1, <3>2, <3>3
    <2>13. /\ first_kept_psn' \in 0 .. PacketTotal
           /\ first_kept_psn' <= next_psn' /\ first_kept_psn' <= unacked
      BY <2>1, <2>5, <2>9, PacketsAssumption DEF FirstNeeded
    <2>14. TypeOK'
      BY <2>1, <2>3, <2>5, <2>7, <2>9, <2>10, <2>11, <2>12, <2>13 DEF IInv, TypeOK
    <2>15. FramesNumbered' /\ CountersOrdered'
      BY <2>1, <2>2, <2>9 DEF IInv, FramesNumbered, CountersOrdered
    <2>16. AcknowledgedIsTaken' /\ ReachablePacketsKept' /\ WindowRespected'
      BY <2>1, <2>2, <2>5, <2>9, <2>13
      DEF AcknowledgedIsTaken, ReachablePacketsKept, WindowRespected
    <2>17. CreditsCoverFrames' /\ NeverStranded'
      BY <2>1, <2>9, <2>12 DEF CreditsCoverFrames, NeverStranded
    <2> QED BY <2>3, <2>14, <2>15, <2>16, <2>17 DEF IInv
  <1> QED BY <1>1, <1>2

\* The answer at the head of the return wire reaches the requester.
LEMMA AcknowledgedPreserves ==
    ASSUME IInv, Acknowledged
    PROVE  IInv'
  <1>1. ~failed /\ reverse # <<>> /\ reverse' = Tail(reverse)
    BY DEF Acknowledged
  <1>2. CASE DropAnswer
    <2>1. /\ next_psn <= unacked_psn /\ timer' = FALSE
          /\ UNCHANGED <<requester, wake, wire, responder, failed>>
      BY <1>2 DEF DropAnswer
    <2>2. /\ AnswersCoverTaken' /\ LogIsTaken'
          /\ reverse' \in Seq(Answer)
      BY <1>1, <2>1, AnswersBehindKept DEF responder
    <2>3. TypeOK'
      BY <2>1, <2>2 DEF IInv, TypeOK, requester, wire, responder
    <2>4. NeverStranded'
      BY <2>1 DEF IInv, TypeOK, NeverStranded, requester
    <2>5. FramesNumbered' /\ CountersOrdered' /\ AcknowledgedIsTaken'
          /\ ReachablePacketsKept' /\ CreditsCoverFrames' /\ WindowRespected'
      BY <2>1
      DEF IInv, FramesNumbered, CountersOrdered, AcknowledgedIsTaken,
          ReachablePacketsKept, CreditsCoverFrames, WindowRespected,
          requester, wire, responder
    <2> QED BY <2>2, <2>3, <2>4, <2>5 DEF IInv
  <1>3. CASE TakeAnswer(Head(reverse))
    BY <1>1, <1>3, TakeAnswerPreserves
  <1> QED BY <1>2, <1>3 DEF Acknowledged

\* The oldest unacknowledged packet times out: the requester retries or
\* gives up.
LEMMA TimerExpiredPreserves ==
    ASSUME IInv, TimerExpired
    PROVE  IInv'
  <1> DEFINE retry == MayRetry(next_psn, unacked_psn, is_retry_started, TRUE)
             next  == IF retry THEN unacked_psn ELSE next_psn
  <1>1. ~failed /\ UNCHANGED reverse
    BY DEF TimerExpired
  <1>2. CASE retry /\ retries_left = 0
    <2>1. GiveUp
      BY <1>2 DEF TimerExpired
    <2>2. AnswersCoverTaken' /\ reverse' \in Seq(Answer)
      BY <1>1, <2>1, ResponderPartKept DEF GiveUp
    <2> QED BY <2>1, <2>2, GiveUpPreserves
  <1>3. CASE ~(retry /\ retries_left = 0)
    <2>1. /\ is_retry_started' = (is_retry_started \/ retry)
          /\ retries_left' = IF retry THEN Spend(retries_left) ELSE retries_left
          /\ SendNext(next, unacked_psn, packet_count, wake)
          /\ timer' = TransmitsFrom(next, unacked_psn, packet_count)
          /\ UNCHANGED <<packet_count, first_kept_psn, unacked_psn, responder, failed>>
      BY <1>3 DEF TimerExpired
    <2>2. /\ next_psn \in 0 .. PacketTotal /\ unacked_psn \in 0 .. PacketTotal
          /\ packet_count \in 0 .. PacketTotal /\ packet_count <= packet_count
          /\ wake \in BOOLEAN /\ next_psn <= packet_count
          /\ next_psn - unacked_psn <= WindowPackets
          /\ unacked_psn <= packet_count
          /\ first_kept_psn \in 0 .. PacketTotal
          /\ first_kept_psn <= next_psn /\ first_kept_psn <= unacked_psn
      BY DEF IInv, TypeOK, CountersOrdered, WindowRespected, AcknowledgedIsTaken,
             ReachablePacketsKept
    <2>3. retry <=> next_psn > unacked_psn
      BY DEF MayRetry
    <2>4. next = unacked_psn \/ (next = next_psn /\ next_psn <= unacked_psn)
      <3>1. CASE retry
        BY <3>1
      <3>2. CASE ~retry
        <4>1. ~(next_psn > unacked_psn)
          BY <3>2, <2>3
        <4>2. next_psn <= unacked_psn
          BY <4>1, <2>2
        <4> QED BY <3>2, <4>2
      <3> QED BY <3>1, <3>2
    <2> HIDE DEF next, retry
    <2>5. /\ next \in 0 .. PacketTotal /\ next <= packet_count
          /\ next - unacked_psn <= WindowPackets /\ next <= unacked_psn
          /\ first_kept_psn <= next
      BY <2>2, <2>4, SettingsAssumption
    <2>6. /\ next_psn' \in 0 .. PacketTotal
          /\ next <= next_psn' /\ next_psn' <= packet_count
          /\ next_psn' - unacked_psn <= WindowPackets
          /\ since_ack_request' \in Nat /\ serializing' \in BOOLEAN
          /\ wake' \in BOOLEAN /\ credits_out' \in 0 .. ReceiveBufferFrames
          /\ forward' \in Seq(Frame)
          /\ \A i \in DOMAIN forward' : forward'[i].psn < packet_count
          /\ Len(forward') <= credits_out' /\ Len(forward') <= ReceiveBufferFrames
          /\ HasPacketToSend(next_psn', unacked_psn, packet_count) => wake'
          /\ ~TransmitsFrom(next, unacked_psn, packet_count) => next_psn' = next
      BY <2>1, <2>2, <2>5, SendNextFacts, <1>1
    <2>7. /\ AnswersCoverTaken' /\ LogIsTaken'
          /\ expected_psn' \in 0 .. PacketTotal /\ is_nak_sent' \in BOOLEAN
          /\ reverse' \in Seq(Answer) /\ delivered' \in Seq(LastPsns)
      BY <1>1, <2>1, ResponderPartKept
    <2>8. retries_left' \in 0 .. UnspentRetryCount
      <3>1. retries_left \in 0 .. UnspentRetryCount
        BY DEF IInv, TypeOK
      <3> QED BY <3>1, <2>1, <1>3, SpendStaysInRange
    <2>9. is_retry_started' \in BOOLEAN
      <3>1. CASE is_retry_started \/ retry
        <4>1. (is_retry_started \/ retry) = TRUE
          BY <3>1
        <4> QED BY <2>1, <4>1
      <3>2. CASE ~(is_retry_started \/ retry)
        <4>1. (is_retry_started \/ retry) = FALSE
          BY <3>2
        <4> QED BY <2>1, <4>1
      <3> QED BY <3>1, <3>2
    <2>10. timer' \in BOOLEAN
      <3>1. TransmitsFrom(next, unacked_psn, packet_count) \in BOOLEAN
        BY DEF TransmitsFrom, HasPacketToSend
      <3> QED BY <2>1, <3>1
    <2>11. next_psn' > unacked_psn => timer'
      BY <2>1, <2>2, <2>5, <2>6
    <2>12. TypeOK'
      BY <2>1, <2>2, <2>6, <2>7, <2>8, <2>9, <2>10 DEF IInv, TypeOK
    <2>13. FramesNumbered' /\ CountersOrdered'
      BY <2>1, <2>6 DEF IInv, FramesNumbered, CountersOrdered, responder
    <2>14. AcknowledgedIsTaken' /\ ReachablePacketsKept' /\ WindowRespected'
      BY <2>1, <2>2, <2>5, <2>6
      DEF IInv, AcknowledgedIsTaken, ReachablePacketsKept, WindowRespected, responder
    <2>15. CreditsCoverFrames' /\ NeverStranded'
      BY <2>1, <2>6, <2>11 DEF CreditsCoverFrames, NeverStranded
    <2> QED BY <2>7, <2>12, <2>13, <2>14, <2>15 DEF IInv
  <1> QED BY <1>2, <1>3

\* The frame being serialised has left the sender.
LEMMA WireFreesPreserves ==
    ASSUME IInv, WireFrees
    PROVE  IInv'
  <1>1. TypeOK'
    BY DEF IInv, TypeOK, WireFrees, requester, responder
  <1>2. AnswersCoverTaken' /\ LogIsTaken'
    BY ResponderPartKept DEF WireFrees
  <1> QED
    BY <1>1, <1>2
    DEF IInv, WireFrees, FramesNumbered, CountersOrdered, AcknowledgedIsTaken,
        ReachablePacketsKept, CreditsCoverFrames, NeverStranded, HasPacketToSend,
        WindowRespected, requester, responder

\* A credit for one landing-buffer frame comes back.
LEMMA CreditReturnsPreserves ==
    ASSUME IInv, CreditReturns
    PROVE  IInv'
  <1>1. /\ credits_out > Len(forward) /\ credits_out' = credits_out - 1
        /\ forward \in Seq(Frame)
        /\ UNCHANGED <<requester, timer, wake, serializing, forward, responder,
                       reverse, failed>>
    BY DEF CreditReturns, IInv, TypeOK
  <1>2. Len(forward) \in Nat /\ credits_out \in 0 .. ReceiveBufferFrames
    BY <1>1 DEF IInv, TypeOK
  <1>3. credits_out' \in 0 .. ReceiveBufferFrames /\ Len(forward) <= credits_out'
    BY <1>1, <1>2, SettingsAssumption
  <1>4. TypeOK'
    BY <1>1, <1>3 DEF IInv, TypeOK, requester, responder
  <1>5. AnswersCoverTaken' /\ LogIsTaken'
    BY <1>1, ResponderPartKept
  <1>6. CreditsCoverFrames'
    BY <1>1, <1>3 DEF IInv, CreditsCoverFrames
  <1> QED
    BY <1>1, <1>4, <1>5, <1>6
    DEF IInv, FramesNumbered, CountersOrdered, AcknowledgedIsTaken,
        ReachablePacketsKept, NeverStranded, HasPacketToSend, WindowRespected,
        requester, responder

-----------------------------------------------------------------------------
(* Sending an answer, or losing it, keeps every answer within a bound. *)
LEMMA AnswerFacts ==
    ASSUME reverse \in Seq(Answer), NEW bound \in 0 .. PacketTotal,
           \A i \in DOMAIN reverse : AcknowledgedUpTo(reverse[i]) <= bound,
           NEW is_nak \in BOOLEAN, NEW psn \in 0 .. PacketTotal,
           AcknowledgedUpTo([is_nak |-> is_nak, psn |-> psn]) <= bound,
           AnswerWith(is_nak, psn) \/ UNCHANGED reverse
    PROVE  /\ reverse' \in Seq(Answer)
           /\ \A i \in DOMAIN reverse' : AcknowledgedUpTo(reverse'[i]) <= bound
  <1> DEFINE new == [is_nak |-> is_nak, psn |-> psn]
  <1>1. CASE UNCHANGED reverse
    BY <1>1
  <1>2. CASE reverse' = Append(reverse, new)
    <2>1. new \in Answer
      BY DEF Answer
    <2> HIDE DEF new
    <2>2. /\ Append(reverse, new) \in Seq(Answer)
          /\ \A i \in DOMAIN Append(reverse, new) :
                Append(reverse, new)[i] = new
                \/ (i \in DOMAIN reverse /\ Append(reverse, new)[i] = reverse[i])
      BY <2>1, AppendFacts
    <2>3. AcknowledgedUpTo(new) <= bound
      BY DEF new
    <2> QED BY <1>2, <2>2, <2>3
  <1> QED BY <1>1, <1>2 DEF AnswerWith

(* What a landing does to the responder, whichever frame it is. *)
LEMMA LandedFrameFacts ==
    ASSUME IInv, NEW frame \in Frame, frame.psn < packet_count,
           LandLost \/ LandExpected(frame) \/ LandAhead(frame) \/ LandDuplicate(frame)
    PROVE  /\ expected_psn' \in 0 .. PacketTotal
           /\ expected_psn <= expected_psn' /\ expected_psn' <= packet_count
           /\ is_nak_sent' \in BOOLEAN
           /\ delivered' \in Seq(LastPsns)
           /\ reverse' \in Seq(Answer)
           /\ AnswersCoverTaken' /\ LogIsTaken'
  <1>1. /\ expected_psn \in 0 .. PacketTotal /\ packet_count \in 0 .. PacketTotal
        /\ reverse \in Seq(Answer) /\ delivered \in Seq(LastPsns)
        /\ is_nak_sent \in BOOLEAN /\ expected_psn <= packet_count
        /\ \A i \in DOMAIN reverse : AcknowledgedUpTo(reverse[i]) <= expected_psn
    BY DEF IInv, TypeOK, CountersOrdered, AnswersCoverTaken
  <1>2. frame.psn \in 0 .. PacketTotal /\ frame.psn \in Nat
    BY PacketsAssumption DEF Frame, Psn
  <1>3. CASE LandLost
    BY <1>1, <1>3, ResponderPartKept DEF LandLost, responder
  <1>4. CASE LandExpected(frame)
    <2>1. /\ frame.psn = expected_psn /\ expected_psn' = expected_psn + 1
          /\ is_nak_sent' = FALSE
          /\ AnswerWith(FALSE, frame.psn) \/ UNCHANGED reverse
          /\ delivered' = IF frame.psn \in LastPsns
                          THEN Append(delivered, frame.psn) ELSE delivered
      BY <1>4 DEF LandExpected
    <2>2. expected_psn' \in 0 .. PacketTotal /\ expected_psn' <= packet_count
      BY <1>1, <2>1, PacketsAssumption
    <2>3. AcknowledgedUpTo([is_nak |-> FALSE, psn |-> frame.psn]) <= expected_psn'
      BY <1>1, <2>1 DEF AcknowledgedUpTo
    <2>4. \A i \in DOMAIN reverse : AcknowledgedUpTo(reverse[i]) <= expected_psn'
      <3> TAKE i \in DOMAIN reverse
      <3>1. AcknowledgedUpTo(reverse[i]) <= expected_psn /\ reverse[i] \in Answer
        BY <1>1
      <3>2. AcknowledgedUpTo(reverse[i]) \in Nat
        BY <3>1, PacketsAssumption DEF Answer, AcknowledgedUpTo
      <3> QED BY <1>1, <2>1, <3>1, <3>2
    <2>5. FALSE \in BOOLEAN
      OBVIOUS
    <2> DEFINE bound == expected_psn'
    <2>6. bound \in 0 .. PacketTotal
      BY <2>2
    <2>7. /\ \A i \in DOMAIN reverse : AcknowledgedUpTo(reverse[i]) <= bound
          /\ AcknowledgedUpTo([is_nak |-> FALSE, psn |-> frame.psn]) <= bound
      BY <2>3, <2>4
    <2> HIDE DEF bound
    <2>8. /\ reverse' \in Seq(Answer)
          /\ \A i \in DOMAIN reverse' : AcknowledgedUpTo(reverse'[i]) <= bound
      BY <1>1, <1>2, <2>1, <2>5, <2>6, <2>7, AnswerFacts
    <2>9. AnswersCoverTaken'
      BY <2>8 DEF bound, AnswersCoverTaken, AcknowledgedUpTo
    <2>10. delivered' \in Seq(LastPsns) /\ LogIsTaken'
      <3>1. \A m \in LastPsns :
               m < expected_psn <=> \E i \in DOMAIN delivered : delivered[i] = m
        BY DEF IInv, LogIsTaken
      <3>2. \A m \in LastPsns : m \in Nat
        BY PacketsAssumption
      <3>3. CASE frame.psn \in LastPsns
        <4>1. /\ delivered' = Append(delivered, frame.psn)
              /\ delivered' \in Seq(LastPsns)
              /\ \A i \in DOMAIN delivered' :
                    delivered'[i] = frame.psn
                    \/ (i \in DOMAIN delivered /\ delivered'[i] = delivered[i])
              /\ \A i \in DOMAIN delivered :
                    i \in DOMAIN delivered' /\ delivered'[i] = delivered[i]
              /\ Len(delivered) + 1 \in DOMAIN delivered'
              /\ delivered'[Len(delivered) + 1] = frame.psn
          BY <1>1, <2>1, <3>3, AppendFacts
        <4>2. \A m \in LastPsns : m < expected_psn' <=> m < expected_psn \/ m = frame.psn
          BY <1>1, <2>1, <3>2
        <4>3. \A m \in LastPsns :
                 (\E i \in DOMAIN delivered' : delivered'[i] = m)
                 <=> (\E i \in DOMAIN delivered : delivered[i] = m) \/ m = frame.psn
          BY <4>1
        <4> QED BY <3>1, <4>1, <4>2, <4>3 DEF LogIsTaken
      <3>4. CASE frame.psn \notin LastPsns
        <4>1. delivered' = delivered
          BY <2>1, <3>4
        <4>2. \A m \in LastPsns : m < expected_psn' <=> m < expected_psn
          BY <1>1, <2>1, <3>2, <3>4
        <4> QED BY <1>1, <3>1, <4>1, <4>2 DEF LogIsTaken
      <3> QED BY <3>3, <3>4
    <2>11. expected_psn <= expected_psn'
      BY <1>1, <2>1
    <2>12. is_nak_sent' \in BOOLEAN
      BY <2>1
    <2> QED BY <2>2, <2>8, <2>9, <2>10, <2>11, <2>12
  <1>5. CASE LandAhead(frame)
    <2>1. /\ UNCHANGED <<expected_psn, delivered>> /\ is_nak_sent' = TRUE
          /\ AnswerWith(TRUE, expected_psn) \/ UNCHANGED reverse
      BY <1>5 DEF LandAhead
    <2>2. AcknowledgedUpTo([is_nak |-> TRUE, psn |-> expected_psn]) <= expected_psn
      BY <1>1 DEF AcknowledgedUpTo
    <2>3. TRUE \in BOOLEAN
      OBVIOUS
    <2>4. /\ reverse' \in Seq(Answer)
          /\ \A i \in DOMAIN reverse' : AcknowledgedUpTo(reverse'[i]) <= expected_psn
      BY <1>1, <2>1, <2>2, <2>3, AnswerFacts
    <2>5. AnswersCoverTaken'
      BY <2>1, <2>4 DEF AnswersCoverTaken, AcknowledgedUpTo
    <2>6. LogIsTaken'
      BY <2>1 DEF IInv, LogIsTaken
    <2>7. expected_psn <= expected_psn' /\ is_nak_sent' \in BOOLEAN
      BY <1>1, <2>1
    <2> QED BY <1>1, <2>1, <2>4, <2>5, <2>6, <2>7
  <1>6. CASE LandDuplicate(frame)
    <2>1. /\ UNCHANGED <<expected_psn, delivered, is_nak_sent>>
          /\ frame.psn < expected_psn
          /\ AnswerWith(FALSE, expected_psn - 1)
      BY <1>6 DEF LandDuplicate, responder
    <2>2. expected_psn - 1 \in 0 .. PacketTotal
      BY <1>1, <1>2, <2>1, PacketsAssumption
    <2>3. AcknowledgedUpTo([is_nak |-> FALSE, psn |-> expected_psn - 1]) <= expected_psn
      BY <1>1 DEF AcknowledgedUpTo
    <2>4. FALSE \in BOOLEAN
      OBVIOUS
    <2>5. /\ reverse' \in Seq(Answer)
          /\ \A i \in DOMAIN reverse' : AcknowledgedUpTo(reverse'[i]) <= expected_psn
      BY <1>1, <2>1, <2>2, <2>3, <2>4, AnswerFacts
    <2>6. AnswersCoverTaken'
      BY <2>1, <2>5 DEF AnswersCoverTaken, AcknowledgedUpTo
    <2>7. LogIsTaken'
      BY <2>1 DEF IInv, LogIsTaken
    <2> QED BY <1>1, <2>1, <2>5, <2>6, <2>7
  <1> QED BY <1>3, <1>4, <1>5, <1>6

\* A frame is lost, or lands: the responder takes it, or answers one that
\* is early or repeated.
LEMMA LandPreserves ==
    ASSUME IInv, Land
    PROVE  IInv'
  <1> DEFINE frame == Head(forward)
  <1>1. /\ forward # <<>> /\ forward' = Tail(forward) /\ ~failed
        /\ LandLost \/ LandExpected(frame) \/ LandAhead(frame) \/ LandDuplicate(frame)
        /\ UNCHANGED <<requester, timer, wake, serializing, credits_out, failed>>
    BY DEF Land
  <1>2. forward \in Seq(Frame)
        /\ \A i \in DOMAIN forward : forward[i].psn < packet_count
    BY DEF IInv, TypeOK, FramesNumbered
  <1>3. /\ frame \in Frame /\ frame = forward[1] /\ 1 \in DOMAIN forward
        /\ Tail(forward) \in Seq(Frame) /\ Len(Tail(forward)) = Len(forward) - 1
        /\ \A i \in DOMAIN Tail(forward) :
              i + 1 \in DOMAIN forward /\ Tail(forward)[i] = forward[i + 1]
    BY <1>1, <1>2, TailFacts
  <1>4. frame.psn < packet_count
    BY <1>2, <1>3
  <1> HIDE DEF frame
  <1>5. /\ expected_psn' \in 0 .. PacketTotal
        /\ expected_psn <= expected_psn' /\ expected_psn' <= packet_count
        /\ is_nak_sent' \in BOOLEAN /\ delivered' \in Seq(LastPsns)
        /\ reverse' \in Seq(Answer) /\ AnswersCoverTaken' /\ LogIsTaken'
    BY <1>1, <1>3, <1>4, LandedFrameFacts
  <1>6. TypeOK'
    BY <1>1, <1>3, <1>5 DEF IInv, TypeOK, requester
  <1>7. FramesNumbered'
    BY <1>1, <1>2, <1>3 DEF FramesNumbered, requester
  <1>8. CreditsCoverFrames'
    <2>1. /\ credits_out \in 0 .. ReceiveBufferFrames
          /\ Len(forward) <= credits_out /\ Len(forward) <= ReceiveBufferFrames
      BY DEF IInv, TypeOK, CreditsCoverFrames
    <2> QED BY <1>1, <1>2, <1>3, <2>1, SettingsAssumption DEF CreditsCoverFrames
  <1>9. AcknowledgedIsTaken' /\ CountersOrdered'
    BY <1>1, <1>5 DEF IInv, TypeOK, AcknowledgedIsTaken, CountersOrdered, requester
  <1>10. ReachablePacketsKept' /\ NeverStranded' /\ WindowRespected'
    BY <1>1
    DEF IInv, ReachablePacketsKept, NeverStranded, HasPacketToSend, WindowRespected,
        requester
  <1> QED BY <1>5, <1>6, <1>7, <1>8, <1>9, <1>10 DEF IInv

-----------------------------------------------------------------------------
LEMMA StutterPreserves ==
    ASSUME IInv, UNCHANGED vars
    PROVE  IInv'
  BY DEF vars, requester, wire, responder, IInv, TypeOK, AnswersCoverTaken,
         FramesNumbered, CountersOrdered, LogIsTaken, AcknowledgedIsTaken,
         ReachablePacketsKept, CreditsCoverFrames, NeverStranded, HasPacketToSend,
         WindowRespected, AcknowledgedUpTo

(* The strengthened invariant holds in every reachable state, for every      *)
(* message list, window, buffer and retry count.                            *)
THEOREM StrongInvariant == Spec => []IInv
  <1>1. IInv /\ [Next]_vars => IInv'
    <2> SUFFICES ASSUME IInv, [Next]_vars PROVE IInv'
      OBVIOUS
    <2>1. CASE \E last \in LastPsns : TakeWire(last)
      BY <2>1, TakeWirePreserves
    <2>2. CASE Wake
      BY <2>2, WakePreserves
    <2>3. CASE Acknowledged
      BY <2>3, AcknowledgedPreserves
    <2>4. CASE TimerExpired
      BY <2>4, TimerExpiredPreserves
    <2>5. CASE WireFrees
      BY <2>5, WireFreesPreserves
    <2>6. CASE CreditReturns
      BY <2>6, CreditReturnsPreserves
    <2>7. CASE Land
      BY <2>7, LandPreserves
    <2>8. CASE UNCHANGED vars
      BY <2>8, StutterPreserves
    <2> QED BY <2>1, <2>2, <2>3, <2>4, <2>5, <2>6, <2>7, <2>8 DEF Next
  <1> QED BY <1>1, InitEstablishesIInv, PTL DEF Spec

(* Every variable of the requester, the wire and the responder keeps its     *)
(* type: no counter runs past the packets and no credit past the buffer.     *)
THEOREM Typed == Spec => []TypeOK
  <1>1. IInv => TypeOK
    BY DEF IInv
  <1> QED BY <1>1, StrongInvariant, PTL

(* An acknowledgement never covers a frame the responder has not taken       *)
(* (_acknowledged against _land).                                           *)
THEOREM NothingUntakenIsAcknowledged == Spec => []AcknowledgedIsTaken
  <1>1. IInv => AcknowledgedIsTaken
    BY DEF IInv
  <1> QED BY <1>1, StrongInvariant, PTL

(* A send never reads a retired packet (_retire_acknowledged).               *)
THEOREM NoSendOfARetiredPacket == Spec => []ReachablePacketsKept
  <1>1. IInv => ReachablePacketsKept
    BY DEF IInv
  <1> QED BY <1>1, StrongInvariant, PTL

(* The frames on the wire never outnumber the receive buffer.                *)
THEOREM BufferNeverOverrun == Spec => []CreditsCoverFrames
  <1>1. IInv => CreditsCoverFrames
    BY DEF IInv
  <1> QED BY <1>1, StrongInvariant, PTL

(* A packet to send always has its wake, one outstanding always its timer.   *)
THEOREM SenderNeverStranded == Spec => []NeverStranded
  <1>1. IInv => NeverStranded
    BY DEF IInv
  <1> QED BY <1>1, StrongInvariant, PTL

-----------------------------------------------------------------------------
(* A landing hands over the expected message or nothing. *)
LEMMA LandImplementsDeliver ==
    ASSUME IInv, Land
    PROVE  [Abstract!Next]_(Abstract!vars)
  <1> DEFINE frame == Head(forward)
  <1>1. /\ forward # <<>> /\ ~failed
        /\ LandLost \/ LandExpected(frame) \/ LandAhead(frame) \/ LandDuplicate(frame)
        /\ UNCHANGED <<packet_count, failed>>
    BY DEF Land, requester
  <1>2. frame \in Frame /\ frame.psn < packet_count
    <2>1. forward \in Seq(Frame)
          /\ \A i \in DOMAIN forward : forward[i].psn < packet_count
      BY DEF IInv, TypeOK, FramesNumbered
    <2>2. frame \in Frame /\ frame = forward[1] /\ 1 \in DOMAIN forward
      BY <1>1, <2>1, TailFacts
    <2> QED BY <2>1, <2>2
  <1> HIDE DEF frame
  <1>3. CASE LandExpected(frame) /\ frame.psn \in LastPsns
    <2>1. /\ frame.psn = expected_psn
          /\ delivered' = Append(delivered, frame.psn)
      BY <1>3 DEF LandExpected
    <2>2. expected_psn \in 0 .. PacketTotal
          /\ \A m \in LastPsns :
                m < expected_psn <=> \E i \in DOMAIN delivered : delivered[i] = m
      BY DEF IInv, TypeOK, LogIsTaken
    <2>3. ~Abstract!Handed(frame.psn)
          /\ \A earlier \in LastPsns : earlier < frame.psn => Abstract!Handed(earlier)
      BY <1>3, <2>1, <2>2 DEF Abstract!Handed
    <2>4. Abstract!Deliver(frame.psn)
      BY <1>1, <1>2, <2>1, <2>3 DEF Abstract!Deliver
    <2> QED BY <1>3, <2>4 DEF Abstract!Next
  <1>4. CASE ~(LandExpected(frame) /\ frame.psn \in LastPsns)
    <2>1. delivered' = delivered
      BY <1>1, <1>4 DEF LandLost, LandExpected, LandAhead, LandDuplicate, responder
    <2> QED BY <1>1, <2>1 DEF Abstract!vars
  <1> QED BY <1>3, <1>4

(* The channel is the in-order, exactly-once channel the senders rely on:    *)
(* whatever is lost, duplicated or delayed, on_delivered runs once per       *)
(* message and in sending order, until a failed link stops the run.          *)
THEOREM Refinement == Spec => ImplementsMessageChannel
  <1>1. Init => Abstract!Init
    BY DEF Init, Abstract!Init
  <1>2. IInv /\ [Next]_vars => [Abstract!Next]_(Abstract!vars)
    <2> SUFFICES ASSUME IInv, [Next]_vars PROVE [Abstract!Next]_(Abstract!vars)
      OBVIOUS
    <2>1. ASSUME NEW last \in LastPsns, TakeWire(last)
          PROVE  Abstract!Next
      <3>1. Abstract!Accept(last)
        BY <2>1 DEF TakeWire, responder, Abstract!Accept
      <3> QED BY <3>1 DEF Abstract!Next
    <2>2. ASSUME GiveUp, ~failed
          PROVE  Abstract!Next
      <3>1. Abstract!Fail
        BY <2>2 DEF GiveUp, requester, responder, Abstract!Fail
      <3> QED BY <3>1 DEF Abstract!Next
    <2>3. CASE Wake
      BY <2>3 DEF Wake, responder, Abstract!vars
    <2>4. CASE Acknowledged
      <3>1. ~failed
        BY <2>4 DEF Acknowledged
      <3>2. CASE DropAnswer
        BY <3>2 DEF DropAnswer, requester, responder, Abstract!vars
      <3>3. CASE TakeAnswer(Head(reverse))
        <4>1. GiveUp \/ UNCHANGED <<packet_count, responder, failed>>
          BY <3>3 DEF TakeAnswer
        <4> QED BY <4>1, <3>1, <2>2 DEF responder, Abstract!vars
      <3> QED BY <2>4, <3>2, <3>3 DEF Acknowledged
    <2>5. CASE TimerExpired
      <3>1. ~failed /\ (GiveUp \/ UNCHANGED <<packet_count, responder, failed>>)
        BY <2>5 DEF TimerExpired
      <3> QED BY <3>1, <2>2 DEF responder, Abstract!vars
    <2>6. CASE WireFrees
      BY <2>6 DEF WireFrees, requester, responder, Abstract!vars
    <2>7. CASE CreditReturns
      BY <2>7 DEF CreditReturns, requester, responder, Abstract!vars
    <2>8. CASE Land
      BY <2>8, LandImplementsDeliver
    <2>9. CASE UNCHANGED vars
      BY <2>9 DEF vars, requester, responder, Abstract!vars
    <2> QED BY <2>1, <2>3, <2>4, <2>5, <2>6, <2>7, <2>8, <2>9 DEF Next
  <1> QED BY <1>1, <1>2, StrongInvariant, PTL DEF Spec, Abstract!Spec, ImplementsMessageChannel
=============================================================================
