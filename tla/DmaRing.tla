------------------------------ MODULE DmaRing ------------------------------
(***************************************************************************)
(* The descriptor rings of dma.c at the level of descriptors and pointers,  *)
(* on the path every host frame takes: the PTA engine fills descriptors of  *)
(* down_queue, handle_download() moves the packet to a tx_queue, the MAC    *)
(* sends it, handle_wlan_tx_completion() returns it to down_queue or takes  *)
(* it through tx_retry.  The firmware swaps the contents of a packet's      *)
(* first descriptor with the queue's terminator while both engines walk     *)
(* the same memory, so a swap is split where an engine can look.            *)
(***************************************************************************)
EXTENDS Integers, Sequences

CONSTANTS NB,       \* AR9170_TX_BLOCK_NUMBER, the blocks of the down queue
          MaxFrag,  \* bound of the model: the descriptors a packet takes
          Outcomes, \* environment: how the MAC's attempts end
          FwFrames  \* environment: whether the firmware sends frames itself

ASSUME DmaAssumption ==
  /\ NB \in Nat \ {0} /\ MaxFrag \in 1 .. NB
  /\ Outcomes \subseteq {"ok", "TXFAIL", "BAFAIL"} /\ "ok" \in Outcomes
  /\ FwFrames \in BOOLEAN

Queues  == {"down", "tx", "retry"}
Engines == {"down", "tx"}
Null    == 0
FwData  == NB + 4                   \* the buffer of the firmware's own frame
Descs   == 1 .. NB + 4              \* blocks, three terminators, fw_desc
TermOf  == [down |-> NB + 1, tx |-> NB + 2, retry |-> NB + 3]
Buffers == 1 .. NB

VARIABLES mem,        \* the descriptors
          head, term, \* head and terminator of each struct dma_queue
          cur,        \* the descriptor each engine looks at next
          run,        \* the engine was triggered and has not gone idle
          halt,       \* the MAC stopped at a frame that failed
          pc, td, dst, desc, \* the firmware inside dma_put() or dma_reclaim():
                             \* tdesc, q and desc of that function
          fwDesc, fwAvail    \* fw.wlan.fw_desc, fw.wlan.fw_desc_available

queues  == <<head, term>>
engine  == <<cur, run, halt>>
call    == <<pc, td, dst, desc>>
reserve == <<fwDesc, fwAvail>>
vars    == <<mem, queues, engine, call, reserve>>

\* struct dma_desc: status, ctrl, lastAddr, nextAddr, dataAddr.
Descriptor == [own : {"SW", "HW", "SE"}, ctrl : {"ok", "TXFAIL", "BAFAIL"},
               last : Descs, next : Descs, data : Buffers \cup {FwData, Null}]

TypeOK ==
  /\ mem \in [Descs -> Descriptor]
  /\ head \in [Queues -> Descs] /\ term \in [Queues -> Descs]
  /\ cur \in [Engines -> Descs] /\ run \in [Engines -> BOOLEAN]
  /\ halt \in BOOLEAN
  /\ pc \in {"idle", "status", "body", "publish", "trigger", "retry"}
  /\ td \in Descriptor /\ dst \in Queues /\ desc \in Descs
  /\ fwDesc \in Descs /\ fwAvail \in BOOLEAN

\* clear_descriptor(): the descriptor leads to itself.
Cleared(d) == [own |-> "SW", ctrl |-> "ok", last |-> d, next |-> d, data |-> Null]

\* dma_init_descriptors(): after one dma_reclaim() per block the first buffer
\* sits in the queue's old terminator, each later one in the block before its
\* own, and the last block is the terminator.
Init ==
  /\ mem = [d \in Descs |->
       CASE d = TermOf.down -> [own |-> "HW", ctrl |-> "ok", last |-> d, next |-> 1, data |-> 1]
         [] d \in 1 .. NB - 1 -> [own |-> "HW", ctrl |-> "ok", last |-> d,
                                  next |-> d + 1, data |-> d + 1]
         [] OTHER -> Cleared(d)]
  /\ head = TermOf
  /\ term = [TermOf EXCEPT !.down = NB]
  /\ cur = [e \in Engines |-> TermOf[e]]
  /\ run = [e \in Engines |-> e = "down"]
  /\ halt = FALSE
  /\ pc = "idle" /\ td = Cleared(1) /\ dst = "down" /\ desc = 1
  /\ fwDesc = FwData /\ fwAvail = TRUE

-----------------------------------------------------------------------------
(* Walking the rings *)

Empty(q) == head[q] = term[q]

\* Where the steps along nx lead from a; a walk that takes more steps than there
\* are descriptors does not end.
Fuel == NB + 4
Walk(nx, a) ==
  LET at[i \in 0 .. Fuel] == IF i = 0 THEN a ELSE nx[at[i - 1]] IN at

\* The descriptors from a on, along nx, up to and without b.
Path(nx, a, b) ==
  LET at == Walk(nx, a)
      n  == CHOOSE i \in 0 .. Fuel :
              (at[i] = b \/ i = Fuel) /\ \A j \in 0 .. i - 1 : at[j] # b
  IN  [i \in 1 .. n |-> at[i - 1]]

NextOf == [d \in Descs |-> mem[d].next]

\* desc->lastAddr->nextAddr: the first descriptor of the packet after d's.
AfterOf == [d \in Descs |-> mem[mem[d].last].next]

\* The descriptors of the packet that starts at d.
Packet(d) == Append(Path(NextOf, d, mem[d].last), mem[d].last)

\* The packets of a queue, as their first descriptors.
Packets(q) == Path(AfterOf, head[q], term[q])

\* (Faulty: the MAC continues behind all frames.)
NonePending(d) == term.tx

\* The loop of wlan_txunstuck() over the packets from d on: the first one not
\* processed by the MAC, or the terminator.
FirstPending(d) ==
  LET ps   == Path(AfterOf, d, term.tx)
      open == {i \in DOMAIN ps : mem[ps[i]].own # "SW"}
  IN  IF open = {} THEN term.tx
      ELSE ps[CHOOSE i \in open : \A j \in open : i <= j]

-----------------------------------------------------------------------------
(* dma.c: dma_unlink_head() followed by dma_put() or dma_reclaim() *)

\* The packet's descriptors once it is unlinked and prepared for queue q: HW
\* owns them, the last points back at the first, the first is cleared to be
\* the new terminator.  dma_put() keeps the packet together, dma_reclaim()
\* makes every descriptor a packet of its own.
Prepared(p, keep) ==
  LET chain == Packet(p)
      l == mem[p].last
  IN  [d \in Descs |->
        IF d = p THEN Cleared(p)
        ELSE IF \E i \in DOMAIN chain : chain[i] = d
        THEN [mem[d] EXCEPT !.own = "HW",
                            !.ctrl = IF keep THEN @ ELSE "ok",
                            !.last = IF keep THEN l ELSE d,
                            !.next = IF d = l THEN p ELSE @]
        ELSE mem[d]]

\* tdesc: what the old terminator is going to hold.  (Faulty: the ownership
\* bit is copied with the rest.)
TdescOwned(p, q, keep) ==
  [own |-> "HW", ctrl |-> "ok",
   last |-> IF keep /\ mem[p].last # p THEN mem[p].last ELSE term[q],
   next |-> IF mem[p].last = p THEN p ELSE mem[p].next,
   data |-> mem[p].data]
Tdesc(p, q, keep) ==
  [own |-> "SW", ctrl |-> "ok",
   last |-> IF keep /\ mem[p].last # p THEN mem[p].last ELSE term[q],
   next |-> IF mem[p].last = p THEN p ELSE mem[p].next,
   data |-> mem[p].data]

\* Nothing an engine looks at changes up to here.
Begin(p, q, keep) ==
  /\ mem' = Prepared(p, keep)
  /\ td' = Tdesc(p, q, keep)
  /\ dst' = q /\ desc' = p
  /\ pc' = "status"

\* dma_unlink_head(): the whole packet.  (Faulty: one descriptor.)
UnlinkOne(q) == head' = [head EXCEPT ![q] = mem[head[q]].next]
Unlink(q) == head' = [head EXCEPT ![q] = AfterOf[head[q]]]

\* 5. Copy TTD to last TD: the status word first, then the rest.
CopyStatus ==
  /\ pc = "status"
  /\ mem' = [mem EXCEPT ![term[dst]].own = td.own, ![term[dst]].ctrl = td.ctrl]
  /\ pc' = "body"
  /\ UNCHANGED <<queues, engine, td, dst, desc, reserve>>

CopyBody ==
  /\ pc = "body"
  /\ mem' = [mem EXCEPT ![term[dst]] = td]
  /\ pc' = "publish"
  /\ UNCHANGED <<queues, engine, td, dst, desc, reserve>>

\* What the caller does next: the retry queue is moved back before the trigger.
\* (Faulty: the trigger forgotten.)
ThenNoTrigger == IF dst = "tx" /\ ~Empty("retry") THEN "retry" ELSE "idle"
Then == CASE dst = "retry" -> "idle"
          [] dst = "tx" /\ ~Empty("retry") -> "retry"
          [] OTHER -> "trigger"

\* status |= HW: now the engine may take the packet.  The locals die with the
\* call.
Publish ==
  /\ pc = "publish"
  /\ mem' = [mem EXCEPT ![term[dst]].own = "HW"]
  /\ term' = [term EXCEPT ![dst] = desc]
  /\ pc' = Then
  /\ td' = Cleared(1) /\ desc' = 1
  /\ dst' = IF pc' = "trigger" THEN dst ELSE "down"
  /\ UNCHANGED <<head, engine, reserve>>

\* down_trigger() or wlan_trigger().
Trigger ==
  /\ pc = "trigger"
  /\ run' = [run EXCEPT ![dst] = TRUE]
  /\ pc' = "idle" /\ dst' = "down"
  /\ UNCHANGED <<mem, queues, cur, halt, td, desc, reserve>>

-----------------------------------------------------------------------------
(* The callers: hostif.c and wlantx.c *)

\* The packet at the head of the queue, if it is the firmware's to take.
Completed(q, owners) == ~Empty(q) /\ mem[head[q]].own \in owners

\* handle_download() and wlan_tx().
TakeDown ==
  /\ pc = "idle" /\ Empty("retry")
  /\ Completed("down", {"SW", "SE"})
  /\ Unlink("down")
  /\ Begin(head.down, "tx", TRUE)
  /\ UNCHANGED <<term, engine, reserve>>

\* wlan_tx_fw(): the reserved descriptor carries the firmware's own frame.
SendReserved ==
  /\ pc = "idle" /\ Empty("retry")
  /\ FwFrames /\ fwAvail /\ fwAvail' = FALSE
  /\ mem' = [mem EXCEPT ![fwDesc] = Cleared(fwDesc)]
  /\ td' = [own |-> "SW", ctrl |-> "ok", last |-> term.tx, next |-> fwDesc,
            data |-> FwData]
  /\ dst' = "tx" /\ desc' = fwDesc
  /\ pc' = "status"
  /\ UNCHANGED <<queues, engine, fwDesc>>

\* wlan_txunstuck(): the MAC continues at the first frame it has not processed.
Unstuck(d) == /\ cur' = [cur EXCEPT !.tx = d]
              /\ run' = [run EXCEPT !.tx = TRUE]
              /\ halt' = FALSE

\* super == fw_desc_data.  (Faulty: the descriptors compared.)
IsFwDesc(p)   == p = FwData
IsReserved(p) == mem[p].data = FwData

\* The reserved descriptor is now the one that carries its buffer.  (Faulty:
\* fw_desc not updated.)
HomeAsBefore(p) == fwDesc' = fwDesc /\ fwAvail' = TRUE
Home(p)         == fwDesc' = p /\ fwAvail' = TRUE

\* wlan_tx_status() of a frame that is done with: the queue is set going again
\* if it stopped at this frame; the reserved descriptor is told by its buffer
\* and goes home, any other packet goes back to the down queue.
TxDone ==
  LET p == head.tx IN
  /\ pc = "idle" /\ Completed("tx", {"SW"})
  /\ Unlink("tx")
  /\ IF mem[p].ctrl = "TXFAIL" THEN Unstuck(FirstPending(AfterOf[p]))
                               ELSE UNCHANGED engine
  /\ IF IsReserved(p)
     THEN /\ Home(p)
          /\ mem' = [mem EXCEPT ![p].next = p, ![p].last = p, ![p].ctrl = "ok"]
          /\ UNCHANGED call
     ELSE Begin(p, "down", FALSE) /\ UNCHANGED reserve
  /\ UNCHANGED term

\* A frame that failed is sent once more from where it is: dma_rearm().
TxRearm ==
  LET p == head.tx IN
  /\ pc = "idle" /\ Completed("tx", {"SW"}) /\ mem[p].ctrl = "TXFAIL"
  /\ mem' = [mem EXCEPT ![p].own = "HW", ![p].ctrl = "ok"]
  /\ Unstuck(p)
  /\ UNCHANGED <<queues, call, reserve>>

\* An aggregated frame the block ack missed moves to the retry queue.
TxRetryLater ==
  /\ pc = "idle" /\ Completed("tx", {"SW"}) /\ mem[head.tx].ctrl = "BAFAIL"
  /\ Unlink("tx")
  /\ Begin(head.tx, "retry", TRUE)
  /\ UNCHANGED <<term, engine, reserve>>

\* handle_wlan_tx_completion() moves the retry queue back, then triggers.
TakeRetry ==
  /\ pc = "retry" \/ (pc = "idle" /\ ~Completed("tx", {"SW"}))
  /\ ~Empty("retry")
  /\ Unlink("retry")
  /\ Begin(head.retry, "tx", TRUE)
  /\ UNCHANGED <<term, engine, reserve>>

\* The handler's last word on a queue that is not empty.
TriggerTx ==
  /\ pc = "idle" /\ ~Empty("tx")
  /\ run' = [run EXCEPT !.tx = TRUE]
  /\ UNCHANGED <<mem, queues, cur, halt, call, reserve>>

-----------------------------------------------------------------------------
(* The engines *)

\* The PTA engine writes a packet into k descriptors of the down queue.
Fill(k) ==
  LET nth  == Walk(NextOf, cur.down)
      into == {nth[i] : i \in 0 .. k - 1}
  IN  /\ run.down
      /\ \A d \in into : mem[d].own = "HW"
      /\ mem' = [d \in Descs |->
           IF d \notin into THEN mem[d]
           ELSE [mem[d] EXCEPT !.own = "SE",
                               !.last = IF d = nth[0] THEN nth[k - 1] ELSE @]]
      /\ cur' = [cur EXCEPT !.down = nth[k]]
      /\ UNCHANGED <<queues, run, halt, call, reserve>>

\* The MAC sends the packet it stands at and goes on to the next, or stops at
\* one that failed; a missing block ack does not stop it.
Send(outcome) ==
  LET p == cur.tx
      chain == Packet(p)
  IN  /\ run.tx /\ ~halt /\ mem[p].own = "HW"
      /\ mem' = [d \in Descs |->
           IF \E i \in DOMAIN chain : chain[i] = d
           THEN [mem[d] EXCEPT !.own = "SW", !.ctrl = IF d = p THEN outcome ELSE @]
           ELSE mem[d]]
      /\ halt' = (outcome = "TXFAIL")
      /\ cur' = [cur EXCEPT !.tx = IF outcome = "TXFAIL" THEN p ELSE AfterOf[p]]
      /\ UNCHANGED <<queues, run, call, reserve>>

\* An engine that finds a descriptor it does not own goes idle.
GoIdle(e) ==
  /\ run[e] /\ mem[cur[e]].own # "HW"
  /\ run' = [run EXCEPT ![e] = FALSE]
  /\ UNCHANGED <<mem, queues, cur, halt, call, reserve>>

Firmware == \/ TakeDown \/ TxDone \/ TxRearm \/ TxRetryLater \/ TakeRetry
            \/ CopyStatus \/ CopyBody \/ Publish \/ Trigger

Next == \/ Firmware \/ SendReserved \/ TriggerTx
        \/ \E k \in 1 .. MaxFrag : Fill(k)
        \/ \E o \in Outcomes : Send(o)
        \/ \E e \in Engines : GoIdle(e)

\* The main loop runs for ever, the MAC sends what it is given, and every
\* frame has a limited number of tries (wlan_tx_consume_retry()); the host owes
\* nothing.
Fairness ==
  /\ WF_vars(Firmware) /\ SF_vars(TakeDown) /\ SF_vars(TakeRetry)
  /\ \A b \in Buffers \cup {FwData} : SF_vars(TxDone /\ mem[head.tx].data = b)
  /\ WF_vars(\E o \in Outcomes : Send(o))

Spec == Init /\ [][Next]_vars

FairSpec == Spec /\ Fairness

-----------------------------------------------------------------------------
(* Properties *)

\* The buffers of a packet, in order.
Data(p) == LET chain == Packet(p) IN [i \in 1 .. Len(chain) |-> mem[chain[i]].data]

Datas(ps) == [i \in 1 .. Len(ps) |-> Data(ps[i])]

\* How many packets at the head of queue q the engine has processed.
Processed(q) ==
  LET ps == Packets(q)
  IN  CHOOSE n \in 0 .. Len(ps) :
        /\ \A i \in 1 .. n : mem[ps[i]].own # "HW"
        /\ n < Len(ps) => mem[ps[n + 1]].own = "HW"

Done(q) == SubSeq(Packets(q), 1, Processed(q))
Open(q) == SubSeq(Packets(q), Processed(q) + 1, Len(Packets(q)))

Flat(ps) == [i \in 1 .. Len(ps) |-> mem[ps[i]].data]

\* The packet in the firmware's hands: tdesc stands for its first descriptor.
Held ==
  IF pc \notin {"status", "body", "publish"} THEN <<>>
  ELSE LET rest == Path(NextOf, td.next, desc)
       IN  <<td.data>> \o Flat(rest)

\* The rings implement the pipe: no buffer is lost or in two places, packets
\* stay together and keep their order, whatever the engines do in the middle
\* of dma_put(), dma_reclaim() and dma_unlink_head().
Pipe == INSTANCE PacketPipe WITH
  Reserved <- FwData,
  free     <- Flat(Open("down")),
  arrived  <- Datas(Done("down")),
  held     <- Held,
  dest     <- IF Held = <<>> THEN "none" ELSE dst,
  waiting  <- Datas(Open("tx")),
  sent     <- Datas(Done("tx")),
  retry    <- Datas(Packets("retry")),
  reserve  <- fwAvail
PipeSpec == Pipe!Spec

\* From every head the packets lead to the terminator; what an engine has
\* processed comes before what it has not, and it stands at the first packet it
\* still owns, or waits at the terminator for the next one; so setting one bit of
\* the terminator is all it takes to hand over.
EnginesInStep ==
  /\ \A q \in Queues : Empty(q) \/ Packets(q) # <<>>
  /\ \A q \in Queues : mem[term[q]].own = "SW"
  /\ halt \/ cur.tx = FirstPending(head.tx)
  /\ halt => cur.tx = head.tx \/ mem[head.tx].own = "SW"
  /\ cur.down = IF Open("down") = <<>> THEN term.down ELSE Head(Open("down"))
  /\ \A q \in Engines :
       /\ \A i \in DOMAIN Done(q) : mem[Done(q)[i]].own = IF q = "down" THEN "SE" ELSE "SW"
       /\ \A i \in DOMAIN Open(q) : mem[Open(q)[i]].own = "HW"

\* Well typed, and rings and engines agree at every step.
Inv == TypeOK /\ EnginesInStep

\* An engine never reads a descriptor that is half copied: what it owns at its
\* cursor always has a buffer and does not lead back to itself.
NoTornDescriptor ==
  \A e \in Engines :
    mem[cur[e]].own = "HW" =>
      /\ mem[cur[e]].data # Null
      /\ AfterOf[cur[e]] # cur[e]

\* No lost wake-up: when the firmware has nothing in hand, an engine that has
\* a packet to work on is running or is stopped at a failed frame.
NoLostWakeup ==
  pc = "idle" => \A e \in Engines :
    mem[cur[e]].own = "HW" /\ ~(e = "tx" /\ halt) => run[e]

\* The reserved descriptor is at home exactly while it is available, although
\* every trip through a queue exchanges it for another one.
ReservedHome == fwAvail => \A q \in Queues :
                  /\ fwDesc # term[q]
                  /\ \A i \in DOMAIN Packets(q) : Packets(q)[i] # fwDesc

\* Every buffer the host's data went to becomes free again.
IsFree(b) == \E i \in DOMAIN Open("down") : mem[Open("down")[i]].data = b

BuffersReturn == \A b \in Buffers : ~IsFree(b) ~> IsFree(b)
=============================================================================
