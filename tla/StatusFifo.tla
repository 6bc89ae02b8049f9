----------------------------- MODULE StatusFifo -----------------------------
(***************************************************************************)
(* What the firmware promises about TX status reports (abstract            *)
(* specification): every completed frame is reported to the host once, in  *)
(* the order of completion, in CARL9170_RSP_TXCOMP messages that carry at   *)
(* least one and at most Splice reports.                                   *)
(***************************************************************************)
EXTENDS Integers, Sequences

CONSTANTS Statuses, \* the values of struct carl9170_tx_status
          Splice    \* CARL9170_RSP_TX_STATUS_NUM, the reports per message

VARIABLES unsent,   \* reports generated and not yet handed to the host
          out       \* the last message handed over; <<>> when the last step
                    \* was no hand-over

vars == <<unsent, out>>

Init == unsent = <<>> /\ out = <<>>

Complete(s) == /\ unsent' = Append(unsent, s)
               /\ out' = <<>>

Emit(k) == /\ k <= Len(unsent)
           /\ out' = SubSeq(unsent, 1, k)
           /\ unsent' = SubSeq(unsent, k + 1, Len(unsent))

\* The hand-over is finished: the message belongs to the host.
Quiet == out' = <<>> /\ UNCHANGED unsent

Next == \/ \E s \in Statuses : Complete(s)
        \/ \E k \in 1..Splice : Emit(k)
        \/ Quiet

Spec == Init /\ [][Next]_vars
=============================================================================
