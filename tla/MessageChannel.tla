--------------------------- MODULE MessageChannel ---------------------------
(***************************************************************************)
(* What a link channel promises the parts that send on it                  *)
(* (decsim/links/channel.py, reliable_channel.py): each message it takes    *)
(* is handed to its receiver once, in the order the wire took them, until   *)
(* the link is declared failed, which stops the run.                        *)
(* A message is named by the number (PSN) of its last frame.                *)
(***************************************************************************)
EXTENDS Naturals, Sequences

CONSTANT LastPsns       \* the last frame number of each message

VARIABLES
    accepted,           \* frame numbers below this belong to taken messages
    log,                \* the messages handed over, oldest first
    failed              \* the run stopped on a failed link

vars == <<accepted, log, failed>>

Handed(m) == \E i \in DOMAIN log : log[i] = m

Init == accepted = 0 /\ log = <<>> /\ failed = FALSE

Accept(m) ==
    /\ ~failed
    /\ m >= accepted
    /\ accepted' = m + 1
    /\ UNCHANGED <<log, failed>>

(* Handed over once, and never before a message taken earlier. *)
Deliver(m) ==
    /\ ~failed
    /\ m < accepted
    /\ ~Handed(m)
    /\ \A earlier \in LastPsns : earlier < m => Handed(earlier)
    /\ log' = Append(log, m)
    /\ UNCHANGED <<accepted, failed>>

Fail ==
    /\ ~failed
    /\ failed' = TRUE
    /\ UNCHANGED <<accepted, log>>

Next == Fail \/ \E m \in LastPsns : Accept(m) \/ Deliver(m)

Spec == Init /\ [][Next]_vars
=============================================================================
