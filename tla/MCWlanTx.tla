------------------------------ MODULE MCWlanTx ------------------------------
(* Instances of WlanTx for TLC: the superframes the host sends. *)
EXTENDS WlanTx

Legacy(n)    == [tries |-> n, ampdu |-> FALSE]
Aggregate(n) == [tries |-> n, ampdu |-> TRUE]

\* A unicast frame that is tried at rate a first, then at the rates b.
Plain(q, a, b, last) ==
  [queue |-> q, vif |-> 0, tid |-> 0, hdr |-> 0, cab |-> FALSE,
   bar |-> FALSE, clipped |-> FALSE, ri |-> [i \in 0 .. MaxRates |-> IF i = 0 THEN a ELSE b],
   last |-> last]
Single(r) == Plain(0, r, r, 0)

\* A frame of one rate in a queue of its own, one of two tries, an aggregate of
\* two tries, an aggregate for another station that falls back to a legacy rate,
\* and a frame the DMA clipped.
RetrySupers == { [Single(Legacy(1)) EXCEPT !.queue = 1], Single(Legacy(2)),
                 Single(Aggregate(2)),
                 [Plain(0, Aggregate(1), Legacy(0), 1) EXCEPT !.tid = 1, !.hdr = 1],
                 [Single(Legacy(1)) EXCEPT !.clipped = TRUE] }

\* A BlockAckReq, and multicast frames of every interface.
MixedSupers == { [Single(Legacy(2)) EXCEPT !.bar = TRUE] }
               \cup { [Single(Legacy(1)) EXCEPT !.cab = TRUE, !.vif = v] : v \in Vifs }
=============================================================================
