-------------------------- MODULE ReliableChannel ---------------------------
(***************************************************************************)
(* decsim/links/reliable_channel.py: a credit channel that loses frames     *)
(* and recovers them by go-back-N, with the requester (the sending side),   *)
(* the responder, the retransmit timer and the wire between them.           *)
(*                                                                         *)
(* Time is abstracted to event order.  A card may pair any latency with     *)
(* any timeout, so a running timer may expire whenever it runs, a frame     *)
(* lands any time after it left the wire, and answers take any time.  What  *)
(* the engine fixes is kept: both directions deliver in sending order,      *)
(* since the wire serializes and the propagation is constant.               *)
(* Whether a frame fails its CRC is drawn when it is sent and first read    *)
(* when it lands; here it is chosen at the landing.                         *)
(***************************************************************************)
EXTENDS Integers, Sequences

CONSTANTS
    PacketTotal,          \* frames of all the messages the run sends
    LastPsns,             \* the frames that end a message
    WindowPackets,        \* window_packets
    AckEvery,             \* ack_every_packets
    ReceiveBufferFrames,  \* receive_buffer_frames, the credits
    RetryCount,           \* retry_count
    UnspentRetryCount     \* UNSPENT_RETRY_COUNT: this many are never spent

ASSUME PacketsAssumption ==
    /\ PacketTotal \in Nat \ {0}
    /\ LastPsns \subseteq 0 .. PacketTotal - 1
    /\ PacketTotal - 1 \in LastPsns

(* Settings.__post_init__ refuses every other value. *)
ASSUME SettingsAssumption ==
    /\ WindowPackets \in Nat \ {0}
    /\ AckEvery \in Nat \ {0}
    /\ WindowPackets >= AckEvery
    /\ ReceiveBufferFrames \in Nat \ {0}
    /\ UnspentRetryCount \in Nat
    /\ RetryCount \in 0 .. UnspentRetryCount

VARIABLES
    packet_count,         \* frames numbered so far, the next message's first
    first_kept_psn,       \* packets below this were let go of
    next_psn,             \* the next packet to send
    unacked_psn,          \* the first unacknowledged packet
    is_retry_started,
    since_ack_request,    \* packets_since_ack_request
    retries_left,
    timer,                \* the retransmit timer is running
    wake,                 \* a wake of the sender is queued
    serializing,          \* the wire is putting its last frame out
    credits_out,          \* frames sent whose credit is not back
    forward,              \* frames on the wire, oldest first
    expected_psn,         \* the responder's next PSN
    is_nak_sent,
    reverse,              \* ACKs and NAKs on the way back, oldest first
    delivered,            \* messages handed over, by last PSN, in order
    failed                \* the run stopped: retries exhausted

requester == <<packet_count, first_kept_psn, next_psn, unacked_psn,
               is_retry_started, since_ack_request, retries_left>>
wire      == <<serializing, credits_out, forward>>
responder == <<expected_psn, is_nak_sent, delivered>>
vars == <<requester, timer, wake, wire, responder, reverse, failed>>

Psn == 0 .. PacketTotal - 1
Frame == [psn : Psn, requests_ack : BOOLEAN]
Answer == [is_nak : BOOLEAN, psn : 0 .. PacketTotal]

TypeOK ==
    /\ packet_count \in 0 .. PacketTotal
    /\ first_kept_psn \in 0 .. PacketTotal
    /\ next_psn \in 0 .. PacketTotal
    /\ unacked_psn \in 0 .. PacketTotal
    /\ is_retry_started \in BOOLEAN
    /\ since_ack_request \in Nat
    /\ retries_left \in 0 .. UnspentRetryCount
    /\ timer \in BOOLEAN /\ wake \in BOOLEAN /\ serializing \in BOOLEAN
    /\ credits_out \in 0 .. ReceiveBufferFrames
    /\ forward \in Seq(Frame)
    /\ expected_psn \in 0 .. PacketTotal
    /\ is_nak_sent \in BOOLEAN
    /\ reverse \in Seq(Answer)
    /\ delivered \in Seq(LastPsns)
    /\ failed \in BOOLEAN

Init ==
    /\ packet_count = 0 /\ first_kept_psn = 0
    /\ next_psn = 0 /\ unacked_psn = 0
    /\ is_retry_started = FALSE
    /\ since_ack_request = 0
    /\ retries_left = RetryCount
    /\ timer = FALSE /\ wake = FALSE
    /\ serializing = FALSE /\ credits_out = 0 /\ forward = <<>>
    /\ expected_psn = 0 /\ is_nak_sent = FALSE
    /\ reverse = <<>> /\ delivered = <<>>
    /\ failed = FALSE

-----------------------------------------------------------------------------
(* The requester. *)

HasPacketToSend(next, unacked, count) ==
    next < count /\ next - unacked < WindowPackets

WireTakesFrame == ~serializing /\ credits_out < ReceiveBufferFrames

Transmit(psn) ==
    LET requests_ack == psn \in LastPsns \/ since_ack_request + 1 >= AckEvery
    IN  /\ forward' = Append(forward, [psn |-> psn, requests_ack |-> requests_ack])
        /\ since_ack_request' = IF requests_ack THEN 0 ELSE since_ack_request + 1
        /\ next_psn' = psn + 1
        /\ serializing' = TRUE
        /\ credits_out' = credits_out + 1

(* A variant that queues no wake when the wire or a credit refuses a frame. *)
SendNextForgetsWake(next, unacked, count, mark) ==
    LET sends == HasPacketToSend(next, unacked, count) /\ WireTakesFrame
    IN  /\ wake' = (mark \/ sends)
        /\ IF sends
           THEN Transmit(next)
           ELSE /\ next_psn' = next
                /\ UNCHANGED <<forward, serializing, credits_out, since_ack_request>>

(* _send_next from given counters: send if the window, the wire and a       *)
(* credit allow, and queue a wake whenever the window leaves work to do.    *)
SendNext(next, unacked, count, mark) ==
    /\ wake' = (mark \/ HasPacketToSend(next, unacked, count))
    /\ IF HasPacketToSend(next, unacked, count) /\ WireTakesFrame
       THEN Transmit(next)
       ELSE /\ next_psn' = next
            /\ UNCHANGED <<forward, serializing, credits_out, since_ack_request>>

TransmitsFrom(next, unacked, count) ==
    HasPacketToSend(next, unacked, count) /\ WireTakesFrame

(* The wire takes the next message: its frames get the next numbers. *)
TakeWire(last) ==
    /\ ~failed
    /\ last >= packet_count
    /\ \A other \in LastPsns : other >= packet_count => last <= other
    /\ packet_count' = last + 1
    /\ SendNext(next_psn, unacked_psn, last + 1, wake)
    /\ timer' = (next_psn' > unacked_psn)
    /\ UNCHANGED <<first_kept_psn, unacked_psn, is_retry_started, retries_left,
                   responder, reverse, failed>>

(* A queued try: the mark clears, and comes back while there is work. *)
Wake ==
    /\ ~failed
    /\ wake
    /\ SendNext(next_psn, unacked_psn, packet_count, FALSE)
    /\ timer' = (timer \/ TransmitsFrom(next_psn, unacked_psn, packet_count))
    /\ UNCHANGED <<packet_count, first_kept_psn, unacked_psn, is_retry_started,
                   retries_left, responder, reverse, failed>>

(* A variant in which a retry under way also silences the timeout. *)
MayRetryOnce(next, unacked, retry_started, is_timeout) ==
    next > unacked /\ ~retry_started

MayRetry(next, unacked, retry_started, is_timeout) ==
    next > unacked /\ (is_timeout \/ ~retry_started)

Spend(retries) ==
    IF retries = UnspentRetryCount THEN retries ELSE retries - 1

(* _give_up: the run stops where it stands. *)
GiveUp ==
    /\ failed' = TRUE
    /\ UNCHANGED <<requester, timer, wake, wire, responder>>

(* A variant that retires up to the first unacknowledged PSN, although a    *)
(* requester sent back may still stand behind it.                           *)
FirstNeededUnacked(next, unacked) == unacked

FirstNeeded(next, unacked) == IF next < unacked THEN next ELSE unacked

(* What an answer acknowledges: an ACK its PSN and all before, a NAK the    *)
(* PSNs before its own.                                                     *)
AcknowledgedUpTo(answer) ==
    IF answer.is_nak THEN answer.psn ELSE answer.psn + 1

(* The answer that lands when nothing is out is dropped. *)
DropAnswer ==
    /\ next_psn <= unacked_psn
    /\ timer' = FALSE
    /\ UNCHANGED <<requester, wake, wire, responder, failed>>

(* _acknowledged: the first unacknowledged PSN moves, a NAK may send the    *)
(* requester back, the next packet is tried and the covered ones let go.    *)
TakeAnswer(answer) ==
    LET upTo     == AcknowledgedUpTo(answer)
        unacked  == IF upTo > unacked_psn THEN upTo ELSE unacked_psn
        refills  == ~answer.is_nak /\ answer.psn >= unacked_psn
        started  == is_retry_started /\ ~refills
        retries  == IF refills THEN RetryCount ELSE retries_left
        retry    == answer.is_nak /\ MayRetry(next_psn, unacked, started, FALSE)
        next     == IF retry THEN unacked ELSE next_psn
    IN  /\ next_psn > unacked_psn
        /\ IF retry /\ retries = 0
           THEN GiveUp
           ELSE /\ unacked_psn' = unacked
                /\ is_retry_started' = (started \/ retry)
                /\ retries_left' = IF retry THEN Spend(retries) ELSE retries
                /\ SendNext(next, unacked, packet_count, wake)
                /\ timer' = IF TransmitsFrom(next, unacked, packet_count)
                            THEN TRUE
                            ELSE IF retry THEN timer ELSE next > unacked
                /\ first_kept_psn' = FirstNeeded(next_psn', unacked)
                /\ UNCHANGED <<packet_count, responder, failed>>

Acknowledged ==
    /\ ~failed
    /\ reverse # <<>>
    /\ reverse' = Tail(reverse)
    /\ DropAnswer \/ TakeAnswer(Head(reverse))

(* The expiry sends the requester back, whether a retry runs or not. *)
TimerExpired ==
    LET retry == MayRetry(next_psn, unacked_psn, is_retry_started, TRUE)
        next  == IF retry THEN unacked_psn ELSE next_psn
    IN  /\ ~failed
        /\ timer
        /\ UNCHANGED reverse
        /\ IF retry /\ retries_left = 0
           THEN GiveUp
           ELSE /\ is_retry_started' = (is_retry_started \/ retry)
                /\ retries_left' = IF retry THEN Spend(retries_left) ELSE retries_left
                /\ SendNext(next, unacked_psn, packet_count, wake)
                /\ timer' = TransmitsFrom(next, unacked_psn, packet_count)
                /\ UNCHANGED <<packet_count, first_kept_psn, unacked_psn,
                               responder, failed>>

-----------------------------------------------------------------------------
(* The wire (links/credit_channel.py). *)

(* end_ticks: the wire is free for the next frame. *)
WireFrees ==
    /\ ~failed
    /\ serializing
    /\ serializing' = FALSE
    /\ UNCHANGED <<requester, timer, wake, credits_out, forward, responder,
                   reverse, failed>>

(* c_k = e_k + L + L_c: the credit of a landed frame comes back. *)
CreditReturns ==
    /\ ~failed
    /\ credits_out > Len(forward)
    /\ credits_out' = credits_out - 1
    /\ UNCHANGED <<requester, timer, wake, serializing, forward, responder,
                   reverse, failed>>

-----------------------------------------------------------------------------
(* The responder. *)

(* An answer is a frame of its own and may be lost. *)
AnswerWith(is_nak, psn) ==
    \/ reverse' = Append(reverse, [is_nak |-> is_nak, psn |-> psn])
    \/ UNCHANGED reverse

LandLost ==
    UNCHANGED <<responder, reverse>>

(* A variant that takes any frame at or past the expected one. *)
LandAnyFrame(frame) ==
    /\ frame.psn >= expected_psn
    /\ expected_psn' = frame.psn + 1
    /\ is_nak_sent' = FALSE
    /\ IF frame.requests_ack THEN AnswerWith(FALSE, frame.psn) ELSE UNCHANGED reverse
    /\ delivered' = IF frame.psn \in LastPsns
                    THEN Append(delivered, frame.psn) ELSE delivered

LandExpected(frame) ==
    /\ frame.psn = expected_psn
    /\ expected_psn' = expected_psn + 1
    /\ is_nak_sent' = FALSE
    /\ IF frame.requests_ack THEN AnswerWith(FALSE, frame.psn) ELSE UNCHANGED reverse
    /\ delivered' = IF frame.psn \in LastPsns
                    THEN Append(delivered, frame.psn) ELSE delivered

(* A variant that answers a duplicate with the PSN it carries. *)
LandAheadAcks(frame) ==
    /\ frame.psn > expected_psn
    /\ UNCHANGED <<expected_psn, delivered, is_nak_sent>>
    /\ AnswerWith(FALSE, frame.psn)

(* One NAK per gap. *)
LandAhead(frame) ==
    /\ frame.psn > expected_psn
    /\ UNCHANGED <<expected_psn, delivered>>
    /\ is_nak_sent' = TRUE
    /\ IF is_nak_sent THEN UNCHANGED reverse ELSE AnswerWith(TRUE, expected_psn)

LandDuplicate(frame) ==
    /\ frame.psn < expected_psn
    /\ UNCHANGED responder
    /\ AnswerWith(FALSE, expected_psn - 1)

Land ==
    /\ ~failed
    /\ forward # <<>>
    /\ serializing => Len(forward) > 1
    /\ forward' = Tail(forward)
    /\ \/ LandLost
       \/ LandExpected(Head(forward))
       \/ LandAhead(Head(forward))
       \/ LandDuplicate(Head(forward))
    /\ UNCHANGED <<requester, timer, wake, serializing, credits_out, failed>>

-----------------------------------------------------------------------------
Next ==
    \/ \E last \in LastPsns : TakeWire(last)
    \/ Wake
    \/ Acknowledged
    \/ TimerExpired
    \/ WireFrees
    \/ CreditReturns
    \/ Land

Spec == Init /\ [][Next]_vars

(* The engine runs every queued event (engine.py run), so a queued wake, a  *)
(* running timer, a frame, a credit and an answer all come to their turn.   *)
(* Nothing says that the machine ever asks for another message.             *)
Fairness ==
    /\ WF_vars(Wake) /\ WF_vars(Acknowledged) /\ WF_vars(TimerExpired)
    /\ WF_vars(WireFrees) /\ WF_vars(CreditReturns) /\ WF_vars(Land)

FairSpec == Spec /\ Fairness

-----------------------------------------------------------------------------
(* An answer never acknowledges a frame the responder has not taken:        *)
(* whatever is lost, repeated or overtaken, unacked_psn stays at or behind   *)
(* expected_psn (_advance_unacked_psn against _land).                       *)
AcknowledgedIsTaken == unacked_psn <= expected_psn

(* Every packet a send can reach is still kept: the requester, standing on   *)
(* or behind the first unacknowledged PSN, never reads a retired entry of    *)
(* packet_by_psn (_retire_acknowledged against _transmit and _give_up).      *)
ReachablePacketsKept ==
    first_kept_psn <= next_psn /\ first_kept_psn <= unacked_psn

(* The receive buffer never holds more than its frames: the frames on the    *)
(* wire or in the buffer are covered by credits (CreditWire.next_start_ticks *)
(* bounds the frames from start to credit return).                           *)
CreditsCoverFrames ==
    Len(forward) <= credits_out /\ Len(forward) <= ReceiveBufferFrames

(* No lost wake and no lost timer: while the window leaves a packet to send  *)
(* a wake is queued, and while packets are out the timer runs, so the        *)
(* connection can always move (_wake_at and _restart_timer_if_out).          *)
NeverStranded ==
    ~failed =>
        /\ HasPacketToSend(next_psn, unacked_psn, packet_count) => wake
        /\ next_psn > unacked_psn => timer

(* However answers move the first unacknowledged PSN and send the requester  *)
(* back, no more than the window is ever out past it (_send_next).           *)
WindowRespected == next_psn - unacked_psn <= WindowPackets

(* The channel implements the exactly-once, in-order channel its senders     *)
(* are written against (on_delivered, one call per message, in order).       *)
Abstract == INSTANCE MessageChannel
    WITH accepted <- packet_count, log <- delivered, failed <- failed
ImplementsMessageChannel == Abstract!Spec

(* Every message the wire took is handed over, or the run stops naming the   *)
(* failed link; it is never silently left (under the engine's fairness).     *)
EveryMessageSettles ==
    \A m \in LastPsns :
        packet_count > m ~> (failed \/ \E i \in DOMAIN delivered : delivered[i] = m)
=============================================================================
