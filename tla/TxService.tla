----------------------------- MODULE TxService -----------------------------
(***************************************************************************)
(* What the transmit path promises the host (abstract specification): a     *)
(* frame that is accepted is tried until it succeeds or its rates have used  *)
(* up their tries, never once more, and then reported exactly once, with     *)
(* the outcome of the last attempt.                                         *)
(***************************************************************************)
EXTENDS Integers

CONSTANTS Frames, Jobs, Idle,
          Budget(_),  \* the attempts a job allows
          Damaged(_)  \* a job that is reported without an attempt

VARIABLES job,     \* what the host wants, or Idle
          tries,   \* the attempts made
          acked,   \* the last attempt succeeded
          result   \* the report on the frame's last job

vars == <<job, tries, acked, result>>

Init == /\ job = [f \in Frames |-> Idle]
        /\ tries = [f \in Frames |-> 0]
        /\ acked = [f \in Frames |-> FALSE]
        /\ result = [f \in Frames |-> "none"]

Accept(f, j) == /\ job[f] = Idle
                /\ job' = [job EXCEPT ![f] = j]
                /\ result' = [result EXCEPT ![f] = "none"]
                /\ UNCHANGED <<tries, acked>>

Attempt(f, ok) == /\ job[f] # Idle /\ ~Damaged(job[f])
                  /\ ~acked[f] /\ tries[f] < Budget(job[f])
                  /\ tries' = [tries EXCEPT ![f] = @ + 1]
                  /\ acked' = [acked EXCEPT ![f] = ok]
                  /\ UNCHANGED <<job, result>>

Report(f) == /\ job[f] # Idle
             /\ acked[f] \/ Damaged(job[f]) \/ tries[f] = Budget(job[f])
             /\ result' = [result EXCEPT ![f] = IF acked[f] THEN "ok" ELSE "failed"]
             /\ job' = [job EXCEPT ![f] = Idle]
             /\ tries' = [tries EXCEPT ![f] = 0]
             /\ acked' = [acked EXCEPT ![f] = FALSE]

Next == \E f \in Frames : \/ \E j \in Jobs : Accept(f, j)
                          \/ \E ok \in BOOLEAN : Attempt(f, ok)
                          \/ Report(f)

Spec == Init /\ [][Next]_vars
=============================================================================
