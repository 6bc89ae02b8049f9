----------------------------- MODULE PacketPipe -----------------------------
(***************************************************************************)
(* What the descriptor rings promise (abstract specification): packets are  *)
(* sequences of buffers.  They arrive from the host in free buffers, are    *)
(* queued for transmission in order of arrival, sent in that order, and     *)
(* their buffers become free again; a packet whose block ack failed goes    *)
(* through the retry queue to the end of the line.  No buffer is ever in    *)
(* two places and none gets lost.                                          *)
(***************************************************************************)
EXTENDS Integers, Sequences

CONSTANTS Buffers,  \* the data buffers of the ring
          Reserved, \* the buffer of the firmware's own frames
          MaxFrag   \* the most buffers a packet takes

VARIABLES free,     \* buffers the host's data may go to, in order
          arrived,  \* packets of the host the firmware has not looked at
          held,     \* the packet the firmware is moving; <<>> for none
          dest,     \* where it is going
          waiting,  \* packets queued for transmission
          sent,     \* packets sent (or failed) and not yet collected
          retry,    \* packets to be queued again
          reserve   \* the reserved buffer is at home

vars == <<free, arrived, held, dest, waiting, sent, retry, reserve>>

Init == /\ free \in Seq(Buffers)
        /\ \A i, j \in DOMAIN free : i # j => free[i] # free[j]
        /\ \A b \in Buffers : \E i \in DOMAIN free : free[i] = b
        /\ arrived = <<>> /\ waiting = <<>> /\ sent = <<>> /\ retry = <<>>
        /\ held = <<>> /\ dest = "none"
        /\ reserve = TRUE

\* A packet of k buffers arrives.
Arrive(k) == /\ k <= Len(free)
             /\ arrived' = Append(arrived, SubSeq(free, 1, k))
             /\ free' = SubSeq(free, k + 1, Len(free))
             /\ UNCHANGED <<held, dest, waiting, sent, retry, reserve>>

Hold(p, d) == held = <<>> /\ held' = p /\ dest' = d

TakeArrived == /\ arrived # <<>>
               /\ Hold(Head(arrived), "tx")
               /\ arrived' = Tail(arrived)
               /\ UNCHANGED <<free, waiting, sent, retry, reserve>>

TakeReserved == /\ reserve
                /\ Hold(<<Reserved>>, "tx")
                /\ reserve' = FALSE
                /\ UNCHANGED <<free, arrived, waiting, sent, retry>>

\* A collected packet is done with, or tried again later.
TakeSent(d) == /\ sent # <<>>
               /\ d = "down" => Head(sent) # <<Reserved>>
               /\ Hold(Head(sent), d)
               /\ sent' = Tail(sent)
               /\ UNCHANGED <<free, arrived, waiting, retry, reserve>>

ReserveHome == /\ sent # <<>> /\ Head(sent) = <<Reserved>>
               /\ sent' = Tail(sent) /\ reserve' = TRUE
               /\ UNCHANGED <<free, arrived, held, dest, waiting, retry>>

TakeRetry == /\ retry # <<>>
             /\ Hold(Head(retry), "tx")
             /\ retry' = Tail(retry)
             /\ UNCHANGED <<free, arrived, waiting, sent, reserve>>

Drop == /\ held # <<>>
        /\ held' = <<>> /\ dest' = "none"
        /\ waiting' = IF dest = "tx" THEN Append(waiting, held) ELSE waiting
        /\ retry' = IF dest = "retry" THEN Append(retry, held) ELSE retry
        /\ free' = IF dest = "down" THEN free \o held ELSE free
        /\ UNCHANGED <<arrived, sent, reserve>>

Send == /\ waiting # <<>>
        /\ sent' = Append(sent, Head(waiting))
        /\ waiting' = Tail(waiting)
        /\ UNCHANGED <<free, arrived, held, dest, retry, reserve>>

\* A failed packet at the head of the queue is sent again before the others.
Again == /\ Len(sent) = 1
         /\ waiting' = sent \o waiting
         /\ sent' = <<>>
         /\ UNCHANGED <<free, arrived, held, dest, retry, reserve>>

Next == \/ \E k \in 1 .. MaxFrag : Arrive(k)
        \/ TakeArrived \/ TakeReserved \/ TakeRetry
        \/ \E d \in {"down", "retry"} : TakeSent(d)
        \/ ReserveHome \/ Drop \/ Send \/ Again

Spec == Init /\ [][Next]_vars
=============================================================================
