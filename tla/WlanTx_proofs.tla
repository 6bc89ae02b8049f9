--------------------------- MODULE WlanTx_proofs ---------------------------
(***************************************************************************)
(* Proofs about WlanTx: for any set of packets, any number of queues,       *)
(* interfaces and rates, and whatever the host sends and the air does; and  *)
(* that WlanTx implements TxService.                                       *)
(***************************************************************************)
EXTENDS WlanTx, RingArithmetic, SequenceTheorems, FiniteSetTheorems, TLAPS

\* Where the main loop stands, and what tx_retry may hold there.
Loop ==
  /\ pc \in {"txc", "reset", "retry"} => ix \in Queues
  /\ pc \in {"cab", "flush"} => ix \in Vifs
  /\ pc \notin {"txc", "reset", "retry"} => retryq = <<>>
  /\ \A f \in Elems(retryq) : sup[f].queue = ix

\* The queues hold no frame twice and have no frame in common.
Inj(s) == \A i, j \in DOMAIN s : s[i] = s[j] => i = j
Distinct == /\ Inj(down) /\ Inj(retryq)
            /\ \A q \in Queues : Inj(txq[q])
            /\ \A v \in Vifs : Inj(cabq[v])

InTx(f)  == f \in Elems(txq[sup[f].queue])
InCab(f) == f \in Elems(cabq[sup[f].vif])
Located ==
  /\ \A f \in AllFrames : sup[f] # Idle =>
       f \in Elems(down) \/ f \in Elems(retryq) \/ InTx(f) \/ InCab(f)
  /\ \A f \in Elems(down) :
       sup[f] # Idle /\ f \notin Elems(retryq) /\ ~InTx(f) /\ ~InCab(f)
  /\ \A f \in Elems(retryq) : sup[f] # Idle /\ ~InTx(f) /\ ~InCab(f)
  /\ \A q \in Queues : \A f \in Elems(txq[q]) :
       sup[f] # Idle /\ sup[f].queue = q /\ ~InCab(f)
  /\ \A v \in Vifs : \A f \in Elems(cabq[v]) :
       sup[f] # Idle /\ sup[f].vif = v /\ sup[f].cab

\* The reserved packet holds a BlockAck or nothing; no frame is past its last rate.
Contents ==
  /\ sup[FwFrame] \in {Idle, BaSuper}
  /\ \A f \in AllFrames : IF sup[f] = Idle THEN rix[f] = 0 ELSE rix[f] <= sup[f].last

\* The MAC is done with a prefix of each queue, and with nothing behind a
\* frame that failed; packets outside the queues belong to the hardware.
DonePrefix == \A q \in Queues : \A i, j \in DOMAIN txq[q] :
  i < j /\ own[txq[q][j]] = "SW" => own[txq[q][i]] = "SW" /\ ctrl[txq[q][i]] # "TXFAIL"
DoneInTx == \A f \in AllFrames : own[f] = "SW" => sup[f] # Idle /\ InTx(f)

\* A queue with a frame that failed stands still.
Stopped == \A q \in Queues : \A i \in DOMAIN txq[q] :
  own[txq[q][i]] = "SW" /\ ctrl[txq[q][i]] = "TXFAIL" => halt[q]

\* What a frame was queued behind is still queued, or waits for its retry.
AheadQueued ==
  /\ \A g \in AllFrames : \A f \in ahead[g] :
       sup[f] # Idle /\ (f \in Elems(retryq) \/ InTx(f))
  /\ Elems(retryq) \subseteq missed

\* While retries are moved back, ampdu_prev is the last packet of the queue.
PrevLast ==
  pc = "retry" /\ prev[ix] # NoFrame =>
    txq[ix] # <<>> /\ txq[ix][Len(txq[ix])] = prev[ix]

\* What the queues and counters alone determine, and what depends on the place
\* in the main loop.
Static  == /\ Distinct /\ Located /\ Contents /\ DonePrefix /\ DoneInTx
           /\ AheadQueued /\ CountersAgree /\ OrderKept
           /\ Stopped /\ HaltedAtFailure
Dynamic == Loop /\ PrevLast /\ NoForgottenCompletion /\ AmpduPrevLive
IInv    == TypeOK /\ Static /\ Dynamic

-----------------------------------------------------------------------------
(* Sequences as queues *)

\* Append adds one element, behind the others.
LEMMA AppendFacts ==
  ASSUME NEW S, NEW s \in Seq(S), NEW e \in S
  PROVE  /\ Append(s, e) \in Seq(S)
         /\ Append(s, e) # <<>>
         /\ Len(s) \in Nat /\ DOMAIN s = 1 .. Len(s)
         /\ Len(Append(s, e)) = Len(s) + 1
         /\ DOMAIN Append(s, e) = 1 .. Len(s) + 1
         /\ \A i \in 1 .. Len(s) : Append(s, e)[i] = s[i]
         /\ Append(s, e)[Len(s) + 1] = e
         /\ Elems(Append(s, e)) = Elems(s) \cup {e}
         /\ Inj(s) /\ e \notin Elems(s) => Inj(Append(s, e))
         /\ s # <<>> => Head(Append(s, e)) = Head(s)
         /\ s = <<>> => Head(Append(s, e)) = e
<1> DEFINE t == Append(s, e)
<1>1. /\ t \in Seq(S) /\ t # <<>> /\ Len(t) = Len(s) + 1
      /\ \A i \in 1 .. Len(s) : t[i] = s[i]
      /\ t[Len(s) + 1] = e
  BY AppendProperties
<1>2. Len(s) \in Nat /\ DOMAIN s = 1 .. Len(s) /\ DOMAIN t = 1 .. Len(s) + 1
  BY <1>1, LenProperties
<1> HIDE DEF t
<1>3. Elems(t) = Elems(s) \cup {e}
  <2>1. ASSUME NEW x \in Elems(t) PROVE x \in Elems(s) \cup {e}
    BY <1>1, <1>2, <2>1 DEF Elems
  <2>2. ASSUME NEW x \in Elems(s) \cup {e} PROVE x \in Elems(t)
    BY <1>1, <1>2, <2>2 DEF Elems
  <2> QED
    BY <2>1, <2>2
<1>4. ASSUME Inj(s), e \notin Elems(s) PROVE Inj(t)
  BY <1>1, <1>2, <1>4 DEF Elems, Inj
<1>5. s # <<>> => Head(t) = Head(s)
  BY <1>1, <1>2, HeadTailProperties, EmptySeq
<1>6. s = <<>> => Head(t) = e
  BY <1>1, <1>2, HeadTailProperties, EmptySeq
<1> QED
  BY <1>1, <1>2, <1>3, <1>4, <1>5, <1>6 DEF t

\* Tail takes the first element away.
LEMMA TailFacts ==
  ASSUME NEW S, NEW s \in Seq(S), s # <<>>
  PROVE  /\ Tail(s) \in Seq(S)
         /\ Len(s) \in Nat \ {0} /\ DOMAIN s = 1 .. Len(s)
         /\ Len(Tail(s)) = Len(s) - 1
         /\ DOMAIN Tail(s) = 1 .. Len(s) - 1
         /\ \A i \in 1 .. Len(s) - 1 : Tail(s)[i] = s[i + 1]
         /\ Head(s) = s[1] /\ Head(s) \in S /\ Head(s) \in Elems(s)
         /\ Inj(s) => Elems(Tail(s)) = Elems(s) \ {Head(s)} /\ Inj(Tail(s))
<1> DEFINE t == Tail(s)
<1>1. /\ t \in Seq(S) /\ Len(s) \in Nat \ {0} /\ Len(t) = Len(s) - 1
      /\ \A i \in 1 .. Len(t) : t[i] = s[i + 1]
      /\ Head(s) = s[1] /\ Head(s) \in S
  BY HeadTailProperties, EmptySeq, LenProperties
<1>2. DOMAIN s = 1 .. Len(s) /\ DOMAIN t = 1 .. Len(s) - 1
  BY <1>1, LenProperties
<1> HIDE DEF t
<1>3. Head(s) \in Elems(s)
  BY <1>1, <1>2 DEF Elems
<1>4. ASSUME Inj(s) PROVE Elems(t) = Elems(s) \ {Head(s)} /\ Inj(t)
  <2>1. ASSUME NEW x \in Elems(t) PROVE x \in Elems(s) \ {Head(s)}
    BY <1>1, <1>2, <1>4, <2>1 DEF Elems, Inj
  <2>2. ASSUME NEW x \in Elems(s) \ {Head(s)} PROVE x \in Elems(t)
    <3>1. PICK i \in 1 .. Len(s) : s[i] = x
      BY <1>2, <2>2 DEF Elems
    <3>2. i - 1 \in DOMAIN t /\ t[i - 1] = x
      BY <1>1, <1>2, <2>2, <3>1
    <3> QED
      BY <3>2 DEF Elems
  <2>3. Inj(t)
    BY <1>1, <1>2, <1>4 DEF Inj
  <2> QED
    BY <2>1, <2>2, <2>3
<1> QED
  BY <1>1, <1>2, <1>3, <1>4 DEF t

\* The empty queue.
LEMMA EmptyFacts == Elems(<<>>) = {} /\ Inj(<<>>)
  BY EmptySeq DEF Elems, Inj

LEMMA ElemsIn ==
  ASSUME NEW S, NEW s \in Seq(S)
  PROVE  Elems(s) \subseteq S
  BY ElementOfSeq, LenProperties DEF Elems

-----------------------------------------------------------------------------
(* What a packet does to a queue *)

\* Steps that touch neither packets nor counters.
LEMMA Quiet ==
  ASSUME Static, UNCHANGED <<queues, sup, rix, own, ctrl, counts, halt, ahead, missed>>
  PROVE  Static'
<1> USE DEF Static, queues, counts
<1>1. Distinct' /\ Located' /\ Contents'
  BY DEF Distinct, Located, Contents, InTx, InCab
<1>2. DonePrefix' /\ DoneInTx' /\ AheadQueued'
  BY DEF DonePrefix, DoneInTx, AheadQueued, InTx
<1>3. CountersAgree'
  BY DEF CountersAgree, Accepted
<1>4. Stopped' /\ HaltedAtFailure' /\ OrderKept'
  BY DEF Stopped, HaltedAtFailure, OrderKept, Overtaken
<1> QED
  BY <1>1, <1>2, <1>3, <1>4

\* A packet the hardware owns joins a queue at its end.  It is no completion, and
\* it overtakes nothing unless it waited for its retry.
LEMMA Joins ==
  ASSUME TypeOK, Static, NEW f \in AllFrames, NEW q \in Queues, own[f] = "HW",
         txq' = [txq EXCEPT ![q] = Append(@, f)],
         UNCHANGED <<own, ctrl, halt, missed>>,
         \A p \in Queues : f \notin Elems(txq[p]),
         \A g \in AllFrames : g # f => ahead'[g] = ahead[g],
         \A g \in AllFrames : f \in ahead[g] => f \in missed
  PROVE  /\ txq' \in [Queues -> Seq(AllFrames)]
         /\ \A p \in Queues : p # q => txq'[p] = txq[p]
         /\ Elems(txq'[q]) = Elems(txq[q]) \cup {f}
         /\ txq'[q] # <<>> /\ txq'[q][Len(txq'[q])] = f
         /\ \A p \in Queues : Inj(txq'[p])
         /\ \A p \in Queues : Completed(p)' => Completed(p)
         /\ DonePrefix' /\ Stopped' /\ HaltedAtFailure' /\ OrderKept'
<1> DEFINE s == txq[q]
           t == Append(s, f)
<1>1. s \in Seq(AllFrames)
  BY DEF TypeOK
<1>2. /\ t \in Seq(AllFrames) /\ t # <<>>
      /\ Len(s) \in Nat /\ DOMAIN s = 1 .. Len(s)
      /\ Len(t) = Len(s) + 1 /\ DOMAIN t = 1 .. Len(s) + 1
      /\ \A i \in 1 .. Len(s) : t[i] = s[i]
      /\ t[Len(s) + 1] = f
      /\ Elems(t) = Elems(s) \cup {f}
      /\ Inj(s) /\ f \notin Elems(s) => Inj(t)
      /\ s # <<>> => Head(t) = Head(s)
      /\ s = <<>> => Head(t) = f
  BY <1>1, AppendFacts
<1>3. txq'[q] = t /\ \A p \in Queues : p # q => txq'[p] = txq[p]
  BY DEF TypeOK
<1>4. txq' \in [Queues -> Seq(AllFrames)]
  BY <1>2 DEF TypeOK
<1>5. \A p \in Queues : Inj(txq[p]) /\ f \notin Elems(txq[p])
  BY DEF Static, Distinct
<1> HIDE DEF s, t
<1>6. \A p \in Queues : Inj(txq'[p])
  BY <1>2, <1>3, <1>5 DEF s
<1>7. ASSUME NEW p \in Queues, Completed(p)' PROVE Completed(p)
  BY <1>2, <1>3, <1>7 DEF Completed, s
<1>8. DonePrefix'
  <2> SUFFICES ASSUME NEW p \in Queues, NEW i \in DOMAIN txq'[p], NEW j \in DOMAIN txq'[p],
                      i < j, own[txq'[p][j]] = "SW"
               PROVE  own[txq'[p][i]] = "SW" /\ ctrl[txq'[p][i]] # "TXFAIL"
    BY DEF DonePrefix
  <2>1. CASE p # q
    BY <1>3, <2>1 DEF Static, DonePrefix
  <2>2. CASE p = q
    <3>1. i \in 1 .. Len(s) /\ j \in 1 .. Len(s)
      BY <1>2, <1>3, <2>2
    <3> QED
      BY <1>2, <1>3, <2>2, <3>1 DEF Static, DonePrefix, s
  <2> QED
    BY <2>1, <2>2
<1>9. HaltedAtFailure'
  <2> SUFFICES ASSUME NEW p \in Queues, halt[p]
               PROVE  \E i \in DOMAIN txq'[p] :
                        /\ own[txq'[p][i]] = "SW" /\ ctrl[txq'[p][i]] = "TXFAIL"
                        /\ \A j \in DOMAIN txq'[p] :
                             own[txq'[p][j]] = IF j <= i THEN "SW" ELSE "HW"
    BY DEF HaltedAtFailure
  <2>1. PICK i \in DOMAIN txq[p] :
          /\ own[txq[p][i]] = "SW" /\ ctrl[txq[p][i]] = "TXFAIL"
          /\ \A j \in DOMAIN txq[p] : own[txq[p][j]] = IF j <= i THEN "SW" ELSE "HW"
    BY DEF Static, HaltedAtFailure
  <2>2. CASE p # q
    BY <1>3, <2>1, <2>2
  <2>3. CASE p = q
    <3>1. i \in 1 .. Len(s) /\ i \in DOMAIN t
      BY <1>2, <2>1, <2>3 DEF s
    <3>2. \A j \in DOMAIN t : own[t[j]] = IF j <= i THEN "SW" ELSE "HW"
      BY <1>2, <2>1, <2>3, <3>1 DEF s
    <3> QED
      BY <1>2, <1>3, <2>1, <2>3, <3>1, <3>2 DEF s
  <2> QED
    BY <2>2, <2>3
<1>10. OrderKept'
  <2> SUFFICES ASSUME NEW p \in Queues, NEW i \in DOMAIN txq'[p], NEW j \in DOMAIN txq'[p],
                      i < j, txq'[p][j] \in ahead'[txq'[p][i]]
               PROVE  txq'[p][j] \in missed
    BY DEF OrderKept, Overtaken
  <2>1. CASE p # q
    <3>1. txq[p][i] # f /\ txq[p][i] \in AllFrames
      BY <1>3, <1>5, <2>1, ElementOfSeq, LenProperties DEF Elems, TypeOK
    <3> QED
      BY <1>3, <2>1, <3>1 DEF Static, OrderKept, Overtaken
  <2>2. CASE p = q
    <3>1. i \in 1 .. Len(s) /\ s[i] # f /\ s[i] \in AllFrames /\ txq'[p][i] = s[i]
      BY <1>1, <1>2, <1>3, <1>5, <2>2, ElementOfSeq DEF Elems, s
    <3>2. CASE j \in 1 .. Len(s)
      BY <1>2, <1>3, <2>2, <3>1, <3>2 DEF Static, OrderKept, Overtaken, s
    <3>3. CASE j = Len(s) + 1
      BY <1>2, <1>3, <2>2, <3>1, <3>3
    <3> QED
      BY <1>2, <1>3, <2>2, <3>2, <3>3
  <2> QED
    BY <2>1, <2>2
<1>11. Stopped'
  <2> SUFFICES ASSUME NEW p \in Queues, NEW i \in DOMAIN txq'[p],
                      own[txq'[p][i]] = "SW", ctrl[txq'[p][i]] = "TXFAIL"
               PROVE  halt[p]
    BY DEF Stopped
  <2>1. CASE p # q
    BY <1>3, <2>1 DEF Static, Stopped
  <2>2. CASE p = q
    <3>1. i \in 1 .. Len(s)
      BY <1>2, <1>3, <2>2
    <3> QED
      BY <1>2, <1>3, <2>2, <3>1 DEF Static, Stopped, s
  <2> QED
    BY <2>1, <2>2
<1> QED
  BY <1>2, <1>3, <1>4, <1>6, <1>7, <1>8, <1>9, <1>10, <1>11 DEF s

\* The packet at the head of the queue leaves it.
LEMMA Leaves ==
  ASSUME TypeOK, Static, ix \in Queues, Completed(ix), UnlinkHead,
         NEW f, f = Head(txq[ix]),
         \A g \in AllFrames : g # f =>
           own'[g] = own[g] /\ ctrl'[g] = ctrl[g] /\ ahead'[g] \subseteq ahead[g],
         \A g \in missed : g # f => g \in missed',
         \/ halt' = halt /\ ctrl[f] # "TXFAIL"
         \/ halt' = [halt EXCEPT ![ix] = FALSE] /\ ctrl[f] = "TXFAIL"
  PROVE  /\ f \in AllFrames /\ f \in Elems(txq[ix]) /\ own[f] = "SW"
         /\ txq' \in [Queues -> Seq(AllFrames)]
         /\ \A p \in Queues : p # ix => txq'[p] = txq[p]
         /\ Elems(txq'[ix]) = Elems(txq[ix]) \ {f}
         /\ \A p \in Queues : Inj(txq'[p]) /\ f \notin Elems(txq'[p])
         /\ \A p \in Queues : Completed(p)' =>
              Completed(p) /\ (p = ix => ctrl[f] # "TXFAIL")
         /\ DonePrefix' /\ Stopped' /\ HaltedAtFailure' /\ OrderKept'
<1> DEFINE s == txq[ix]
           t == Tail(s)
<1>1. s \in Seq(AllFrames) /\ s # <<>> /\ own[f] = "SW"
  BY DEF TypeOK, Completed
<1>2. /\ t \in Seq(AllFrames)
      /\ Len(s) \in Nat \ {0} /\ DOMAIN s = 1 .. Len(s)
      /\ Len(t) = Len(s) - 1 /\ DOMAIN t = 1 .. Len(s) - 1
      /\ \A i \in 1 .. Len(s) - 1 : t[i] = s[i + 1]
      /\ f = s[1] /\ f \in AllFrames /\ f \in Elems(s)
      /\ Inj(s) => Elems(t) = Elems(s) \ {f} /\ Inj(t)
  BY <1>1, TailFacts
<1>3. txq'[ix] = t /\ \A p \in Queues : p # ix => txq'[p] = txq[p]
  BY DEF TypeOK, UnlinkHead
<1>4. txq' \in [Queues -> Seq(AllFrames)]
  BY <1>2 DEF TypeOK, UnlinkHead
<1>5. Inj(s) /\ \A p \in Queues : Inj(txq[p])
  BY DEF Static, Distinct
<1>6. \A p \in Queues : p # ix => f \notin Elems(txq[p])
  BY <1>2 DEF Static, Located
<1> HIDE DEF s, t
<1>7. \A p \in Queues : Inj(txq'[p]) /\ f \notin Elems(txq'[p])
  BY <1>2, <1>3, <1>5, <1>6
<1>8. \A p \in Queues : \A i \in DOMAIN txq'[p] :
        LET g == txq'[p][i] IN
        /\ g # f /\ g \in AllFrames
        /\ own'[g] = own[g] /\ ctrl'[g] = ctrl[g] /\ ahead'[g] \subseteq ahead[g]
  BY <1>4, <1>7, ElementOfSeq, LenProperties DEF Elems
<1>9. \A p \in Queues : \A i \in DOMAIN txq'[p] :
        txq'[p][i] = IF p = ix THEN s[i + 1] ELSE txq[p][i]
  BY <1>2, <1>3
<1>16. \A i \in DOMAIN t :
         /\ i + 1 \in DOMAIN s /\ own'[t[i]] = own[s[i + 1]] /\ ctrl'[t[i]] = ctrl[s[i + 1]]
  <2> SUFFICES ASSUME NEW i \in DOMAIN t
               PROVE  /\ i + 1 \in DOMAIN s /\ own'[t[i]] = own[s[i + 1]]
                      /\ ctrl'[t[i]] = ctrl[s[i + 1]]
    OBVIOUS
  <2>1. i + 1 \in DOMAIN s /\ t[i] = s[i + 1]
    BY <1>2
  <2>2. own'[t[i]] = own[t[i]] /\ ctrl'[t[i]] = ctrl[t[i]]
    BY <1>3, <1>8
  <2> QED
    BY <2>1, <2>2
<1>10. ASSUME NEW p \in Queues, p # ix, Completed(p)' PROVE Completed(p)
  <2>1. txq'[p] = txq[p] /\ txq[p] # <<>> /\ own'[Head(txq[p])] = "SW"
    BY <1>3, <1>10 DEF Completed
  <2>2. txq[p] \in Seq(AllFrames)
    BY DEF TypeOK
  <2>3. Head(txq[p]) = txq[p][1] /\ 1 \in DOMAIN txq[p]
    BY <2>1, <2>2, TailFacts
  <2> QED
    BY <1>8, <2>1, <2>3 DEF Completed
<1>11. \A i, j \in DOMAIN s : i < j /\ own[s[j]] = "SW" =>
         own[s[i]] = "SW" /\ ctrl[s[i]] # "TXFAIL"
  BY DEF Static, DonePrefix, s
<1>12. ASSUME NEW p \in Queues, p = ix, ctrl[f] = "TXFAIL", Completed(p)'
      PROVE  FALSE
  <2>1. t # <<>> /\ own'[Head(t)] = "SW"
    BY <1>3, <1>12 DEF Completed
  <2>2. Head(t) = t[1] /\ 1 \in DOMAIN t
    BY <1>2, <2>1, TailFacts
  <2>3. own[s[2]] = "SW" /\ 2 \in DOMAIN s
    <3>1. 1 \in DOMAIN t
      BY <1>2, <1>3, <2>2
    <3> QED
      BY <1>16, <2>1, <2>2, <3>1
  <2> QED
    BY <1>2, <1>11, <1>12, <2>3
<1>13. DonePrefix'
  <2> SUFFICES ASSUME NEW p \in Queues, NEW i \in DOMAIN txq'[p], NEW j \in DOMAIN txq'[p],
                      i < j, own'[txq'[p][j]] = "SW"
               PROVE  own'[txq'[p][i]] = "SW" /\ ctrl'[txq'[p][i]] # "TXFAIL"
    BY DEF DonePrefix
  <2>1. CASE p # ix
    BY <1>3, <1>8, <2>1 DEF Static, DonePrefix
  <2>2. CASE p = ix
    <3>1. i \in DOMAIN t /\ j \in DOMAIN t /\ txq'[p] = t
      BY <1>3, <2>2
    <3>2. i + 1 \in DOMAIN s /\ j + 1 \in DOMAIN s /\ i + 1 < j + 1
      BY <1>2, <3>1
    <3>3. own[s[j + 1]] = "SW"
      BY <1>16, <3>1
    <3>4. own[s[i + 1]] = "SW" /\ ctrl[s[i + 1]] # "TXFAIL"
      BY <1>11, <3>2, <3>3
    <3> QED
      BY <1>16, <3>1, <3>4
  <2> QED
    BY <2>1, <2>2
<1>14. HaltedAtFailure'
  <2> SUFFICES ASSUME NEW p \in Queues, halt'[p]
               PROVE  \E i \in DOMAIN txq'[p] :
                        /\ own'[txq'[p][i]] = "SW" /\ ctrl'[txq'[p][i]] = "TXFAIL"
                        /\ \A j \in DOMAIN txq'[p] :
                             own'[txq'[p][j]] = IF j <= i THEN "SW" ELSE "HW"
    BY DEF HaltedAtFailure
  <2>1. halt[p] /\ (p = ix => ctrl[f] # "TXFAIL")
    BY DEF TypeOK
  <2>2. PICK i \in DOMAIN txq[p] :
          /\ own[txq[p][i]] = "SW" /\ ctrl[txq[p][i]] = "TXFAIL"
          /\ \A j \in DOMAIN txq[p] : own[txq[p][j]] = IF j <= i THEN "SW" ELSE "HW"
    BY <2>1 DEF Static, HaltedAtFailure
  <2>3. CASE p # ix
    BY <1>3, <1>8, <2>2, <2>3
  <2>4. CASE p = ix
    <3>1. i \in 1 .. Len(s) /\ i # 1
      BY <1>2, <2>1, <2>2, <2>4 DEF s
    <3>2. i - 1 \in DOMAIN t
      BY <1>2, <3>1
    <3>3. own'[t[i - 1]] = "SW" /\ ctrl'[t[i - 1]] = "TXFAIL"
      <4>1. (i - 1) + 1 = i
        BY <1>2, <3>1
      <4> QED
        BY <1>16, <2>2, <2>4, <3>2, <4>1 DEF s
    <3>4. \A j \in DOMAIN t : own'[t[j]] = IF j <= i - 1 THEN "SW" ELSE "HW"
      <4> SUFFICES ASSUME NEW j \in DOMAIN t
                   PROVE  own'[t[j]] = IF j <= i - 1 THEN "SW" ELSE "HW"
        OBVIOUS
      <4>1. j + 1 \in DOMAIN s /\ own'[t[j]] = own[s[j + 1]]
        BY <1>16
      <4>2. own[s[j + 1]] = IF j + 1 <= i THEN "SW" ELSE "HW"
        BY <2>2, <2>4, <4>1 DEF s
      <4>3. j \in Int /\ i \in Int
        BY <1>2, <3>1
      <4> QED
        BY <4>1, <4>2, <4>3
    <3> QED
      BY <1>3, <2>4, <3>2, <3>3, <3>4
  <2> QED
    BY <2>3, <2>4
<1>15. OrderKept'
  <2> SUFFICES ASSUME NEW p \in Queues, NEW i \in DOMAIN txq'[p], NEW j \in DOMAIN txq'[p],
                      i < j, txq'[p][j] \in ahead'[txq'[p][i]]
               PROVE  txq'[p][j] \in missed'
    BY DEF OrderKept, Overtaken
  <2>1. txq'[p][j] \in ahead[txq'[p][i]] /\ txq'[p][j] # f
    BY <1>8
  <2>2. CASE p # ix
    BY <1>3, <2>1, <2>2 DEF Static, OrderKept, Overtaken
  <2>3. CASE p = ix
    <3>1. i + 1 \in DOMAIN s /\ j + 1 \in DOMAIN s /\ i + 1 < j + 1
      BY <1>2, <1>3, <2>3
    <3> QED
      BY <1>9, <2>1, <2>3, <3>1 DEF Static, OrderKept, Overtaken, s
  <2> QED
    BY <2>2, <2>3
<1>17. Stopped'
  <2> SUFFICES ASSUME NEW p \in Queues, NEW i \in DOMAIN txq'[p],
                      own'[txq'[p][i]] = "SW", ctrl'[txq'[p][i]] = "TXFAIL"
               PROVE  halt'[p]
    BY DEF Stopped
  <2>1. CASE p # ix
    <3>1. halt[p]
      BY <1>3, <1>8, <2>1 DEF Static, Stopped
    <3> QED
      BY <2>1, <3>1 DEF TypeOK
  <2>2. CASE p = ix
    <3>1. i \in DOMAIN t /\ i + 1 \in DOMAIN s /\ 1 < i + 1 /\ 1 \in DOMAIN s
      BY <1>2, <1>3, <2>2
    <3>2. own[s[i + 1]] = "SW" /\ ctrl[s[i + 1]] = "TXFAIL"
      BY <1>3, <1>16, <2>2, <3>1
    <3>3. halt[ix] /\ ctrl[f] # "TXFAIL"
      BY <1>2, <1>11, <3>1, <3>2 DEF Static, Stopped, s
    <3> QED
      BY <2>2, <3>3
  <2> QED
    BY <2>1, <2>2
<1> QED
  BY <1>1, <1>2, <1>3, <1>4, <1>5, <1>7, <1>10, <1>12, <1>13, <1>14, <1>15, <1>17 DEF s

-----------------------------------------------------------------------------
(* Steps that leave the packets and the counters alone *)

LEMMA AckInterruptKeeps ==
  ASSUME IInv, NEW pretbtt \in BOOLEAN, AckInterrupt(pretbtt)
  PROVE  IInv'
<1> USE DEF IInv, AckInterrupt, queues, frame, hist
<1>1. Static'
  BY Quiet
<1>2. ix' \in Queues /\ ix' \in Int /\ (pc' = "cab" => ix' \in Vifs)
  BY TxAssumption DEF Queues, Vifs
<1>3. TypeOK'
  <2>1. clock' \in 0 .. 2
    BY DEF Late
  <2>2. intr' \in BOOLEAN
    OBVIOUS
  <2> QED
    BY <1>2, <2>1, <2>2 DEF TypeOK, counts
<1>4. Loop' /\ PrevLast'
  <2>1. retryq = <<>>
    BY DEF Dynamic, Loop
  <2> QED
    BY <1>2, <2>1, EmptyFacts DEF Loop, PrevLast
<1>5. NoForgottenCompletion'
  <2> SUFFICES ASSUME NEW q \in Queues, Completed(q)' PROVE pc' = "txc" /\ ix' >= q
    BY DEF NoForgottenCompletion
  <2>1. Completed(q) /\ intr
    BY DEF Completed, Dynamic, NoForgottenCompletion
  <2> QED
    BY <2>1, TxAssumption DEF Queues
<1>6. AmpduPrevLive'
  BY DEF Dynamic, AmpduPrevLive
<1> QED
  BY <1>1, <1>3, <1>4, <1>5, <1>6 DEF Dynamic

LEMMA AmpduResetKeeps ==
  ASSUME IInv, AmpduReset
  PROVE  IInv'
<1> USE DEF IInv, AmpduReset, PrevReset, queues, frame, hist, mac
<1>1. Static'
  BY Quiet
<1>2. ix \in Queues /\ prev' = [prev EXCEPT ![ix] = NoFrame]
  BY DEF Dynamic, Loop
<1>3. TypeOK'
  BY <1>2 DEF TypeOK, counts, cab
<1>4. Loop' /\ PrevLast'
  BY <1>2 DEF Dynamic, Loop, PrevLast, TypeOK
<1>5. NoForgottenCompletion'
  <2> SUFFICES ASSUME NEW q \in Queues, Completed(q)', ~intr PROVE ix > q
    BY DEF NoForgottenCompletion
  <2>1. Completed(q) /\ ((pc = "txc" /\ ix >= q) \/ ix > q)
    BY DEF Completed, Dynamic, NoForgottenCompletion
  <2> QED
    BY <1>2, <2>1 DEF Queues
<1>6. AmpduPrevLive'
  BY <1>2 DEF Dynamic, AmpduPrevLive, TypeOK
<1> QED
  BY <1>1, <1>3, <1>4, <1>5, <1>6 DEF Dynamic

LEMMA NextQueueKeeps ==
  ASSUME IInv, NextQueue
  PROVE  IInv'
<1> USE DEF IInv, NextQueue, AmpduEnd, LastQueue, queues, hist, mac
<1>1. Static'
  BY Quiet
<1>2. ix \in Queues /\ ix \in Int /\ prev' = [prev EXCEPT ![ix] = NoFrame]
  BY DEF Dynamic, Loop, Queues
<1>3. ix' \in Int /\ (pc' = "txc" => ix' \in Queues) /\ (pc' = "cab" => ix' \in Vifs)
  BY <1>2, TxAssumption DEF Queues, Vifs
<1>4. baEnd' \in [AllFrames -> BOOLEAN]
  BY DEF TypeOK
<1>5. TypeOK'
  BY <1>2, <1>3, <1>4 DEF TypeOK, counts, cab
<1>6. Loop' /\ PrevLast'
  BY <1>2, <1>3, EmptyFacts DEF Loop, PrevLast
<1>7. NoForgottenCompletion'
  <2> SUFFICES ASSUME NEW q \in Queues, Completed(q)', ~intr PROVE pc' = "txc" /\ ix' >= q
    BY DEF NoForgottenCompletion
  <2>1. Completed(q) /\ ix > q
    BY DEF Completed, Dynamic, NoForgottenCompletion
  <2> QED
    BY <1>2, <2>1 DEF Queues
<1>8. AmpduPrevLive'
  <2>1. \A q \in Queues : prev'[q] # NoFrame => q # ix /\ prev'[q] = prev[q]
    BY <1>2 DEF TypeOK
  <2> QED
    BY <1>2, <2>1 DEF Dynamic, AmpduPrevLive
<1> QED
  BY <1>1, <1>5, <1>6, <1>7, <1>8 DEF Dynamic

\* Outside the loop over the queues nothing waits for its retry, and
\* completions wait for the interrupt.
LEMMA Elsewhere ==
  ASSUME IInv, pc \notin {"txc", "reset", "retry"}, pc' \notin {"txc", "reset", "retry"},
         UNCHANGED <<queues, frame, prev, intr>>,
         pc' \in {"cab", "flush"} => ix' \in Vifs
  PROVE  Dynamic'
<1> USE DEF IInv, Dynamic, queues, frame
<1>1. Loop' /\ PrevLast'
  BY EmptyFacts DEF Loop, PrevLast
<1>2. NoForgottenCompletion'
  BY DEF NoForgottenCompletion, Completed
<1>3. AmpduPrevLive'
  BY DEF AmpduPrevLive
<1> QED
  BY <1>1, <1>2, <1>3

LEMMA NextVifKeeps ==
  ASSUME IInv, NextVif
  PROVE  IInv'
<1> USE DEF NextVif, queues, frame, hist, mac
<1>1. Static'
  BY Quiet DEF IInv
<1>2. ix' \in Vifs
  BY TxAssumption DEF IInv, Dynamic, Loop, Vifs
<1>3. TypeOK'
  <2>1. trigger' \in [Vifs -> {"EMPTY", "ARMED", "DEFER"}] /\ announced' \in [Vifs -> BOOLEAN]
    BY DEF IInv, TypeOK, DeferCab
  <2> QED
    BY <1>2, <2>1 DEF IInv, TypeOK, counts
<1>4. Dynamic'
  BY <1>2, Elsewhere
<1> QED
  BY <1>1, <1>3, <1>4 DEF IInv

LEMMA LoopStepKeeps ==
  ASSUME IInv, NoBa \/ LeaveHost \/ NoCommand \/ EndFlush
  PROVE  IInv'
<1> USE DEF NoBa, LeaveHost, NoCommand, EndFlush, queues, frame, hist, mac, cab
<1>1. Static'
  BY Quiet DEF IInv
<1>2. ix' \in Queues \cup Vifs
  BY TxAssumption, SMTT(30) DEF IInv, TypeOK, Queues
<1>3. TypeOK'
  BY <1>2 DEF IInv, TypeOK, counts
<1>4. Dynamic'
  BY Elsewhere
<1> QED
  BY <1>1, <1>3, <1>4 DEF IInv

LEMMA CommandKeeps ==
  ASSUME IInv, Command
  PROVE  IInv'
<1> USE DEF queues, frame, hist, mac, cab
<1> PICK v \in Vifs : StartFlush(v) \/ \E dtim \in BOOLEAN : ModifyBeacon(v, dtim)
  BY DEF Command
<1>1. Static' /\ trigger' \in [Vifs -> {"EMPTY", "ARMED", "DEFER"}]
  BY Quiet DEF IInv, StartFlush, ModifyBeacon, TypeOK
<1>2. TypeOK'
  BY <1>1 DEF IInv, TypeOK, counts, StartFlush, ModifyBeacon
<1>3. Dynamic'
  BY Elsewhere DEF StartFlush, ModifyBeacon
<1> QED
  BY <1>1, <1>2, <1>3 DEF IInv

LEMMA TickKeeps ==
  ASSUME IInv, Tick
  PROVE  IInv'
<1> USE DEF IInv, Tick, queues, frame, hist, mac
<1>1. Static'
  BY Quiet
<1>2. TypeOK'
  BY DEF TypeOK, counts
<1>3. Dynamic'
  BY DEF Dynamic, Loop, PrevLast, NoForgottenCompletion, Completed, AmpduPrevLive
<1> QED
  BY <1>1, <1>2, <1>3

-----------------------------------------------------------------------------
(* Steps that move a packet *)

\* A packet that is in no queue, or in the down, CAB or retry queue, is the hardware's
\* and is in no queue of the MAC.
LEMMA Waiting ==
  ASSUME IInv, NEW f \in AllFrames,
         sup[f] = Idle \/ f \in Elems(down) \/ f \in Elems(retryq)
           \/ \E v \in Vifs : f \in Elems(cabq[v])
  PROVE  own[f] = "HW" /\ \A p \in Queues : f \notin Elems(txq[p])
<1> USE DEF IInv, Static, Located, InTx, InCab
<1>1. ASSUME NEW p \in Queues, f \in Elems(txq[p]) PROVE FALSE
  BY <1>1
<1>2. own[f] # "SW"
  <2>1. sup[f] # Idle => sup[f].queue \in Queues
    BY DEF TypeOK, Superframe
  <2> QED
    BY <1>1, <2>1 DEF DoneInTx
<1> QED
  BY <1>1, <1>2 DEF TypeOK

\* A job and what it says of its packet are well formed.
LEMMA JobFields ==
  ASSUME TypeOK, NEW f \in AllFrames, sup[f] # Idle
  PROVE  /\ sup[f] \in Superframe /\ sup[f].queue \in Queues /\ sup[f].vif \in Vifs
         /\ sup[f].cab \in BOOLEAN /\ sup[f].bar \in BOOLEAN
         /\ sup[f].last \in 0 .. MaxRates
  BY DEF TypeOK, Superframe

\* wlan_tx_ampdu() leaves the packet or nothing in ampdu_prev.
LEMMA AmpduFacts ==
  ASSUME TypeOK, NEW f \in AllFrames, NEW q \in Queues, WlanTxAmpdu(f, q)
  PROVE  /\ baEnd' \in [AllFrames -> BOOLEAN]
         /\ prev' \in [Queues -> AllFrames \cup {NoFrame}]
         /\ prev'[q] \in {f, NoFrame}
         /\ \A p \in Queues : p # q => prev'[p] = prev[p]
<1>1. baEnd' \in [AllFrames -> BOOLEAN]
  BY DEF TypeOK, WlanTxAmpdu
<1>2. prev' = [prev EXCEPT ![q] = IF Ampdu(f) THEN f ELSE NoFrame]
  BY DEF WlanTxAmpdu
<1> QED
  BY <1>1, <1>2 DEF TypeOK

LEMMA RequeueKeeps ==
  ASSUME IInv, Requeue
  PROVE  IInv'
<1> DEFINE f == Head(retryq)
<1>0. ix \in Queues /\ pc = "retry" /\ retryq # <<>> /\ retryq \in Seq(AllFrames)
  BY DEF IInv, Dynamic, Loop, Requeue, TypeOK
<1>1. /\ retryq' \in Seq(AllFrames) /\ f \in AllFrames /\ f \in Elems(retryq)
      /\ Elems(retryq') = Elems(retryq) \ {f} /\ Inj(retryq')
  BY <1>0, TailFacts DEF IInv, Static, Distinct, Requeue
<1> HIDE DEF f
<1>2. sup[f] # Idle /\ sup[f].queue = ix /\ f \in missed
  BY <1>1 DEF IInv, Static, Located, Dynamic, Loop, AheadQueued
<1>3. /\ WlanTxAmpdu(f, ix) /\ txq' = [txq EXCEPT ![ix] = Append(@, f)]
      /\ UNCHANGED <<down, cabq, sup, rix, cnt, own, ctrl, counts, cab, mac, pc, ix, hist>>
  BY <1>2 DEF Requeue, Enqueue, f
<1>4. own[f] = "HW" /\ \A p \in Queues : f \notin Elems(txq[p])
  BY <1>1, Waiting
<1>5. UNCHANGED <<own, ctrl, halt, missed, ahead, sup, down, cabq, rix, pc, ix, intr>>
  BY <1>3 DEF mac, hist
<1>6. /\ txq' \in [Queues -> Seq(AllFrames)]
      /\ \A p \in Queues : p # ix => txq'[p] = txq[p]
      /\ Elems(txq'[ix]) = Elems(txq[ix]) \cup {f}
      /\ txq'[ix] # <<>> /\ txq'[ix][Len(txq'[ix])] = f
      /\ \A p \in Queues : Inj(txq'[p])
      /\ \A p \in Queues : Completed(p)' => Completed(p)
      /\ DonePrefix' /\ Stopped' /\ HaltedAtFailure' /\ OrderKept'
  BY <1>0, <1>1, <1>2, <1>3, <1>4, <1>5, Joins DEF IInv
<1>7. \A g \in AllFrames : sup[g] # Idle => (InTx(g)' <=> InTx(g) \/ g = f)
  BY <1>1, <1>2, <1>5, <1>6, JobFields DEF IInv, InTx
<1>8. Distinct'
  BY <1>1, <1>5, <1>6 DEF IInv, Static, Distinct
<1>9. Located'
  <2>1. \A g : InCab(g)' <=> InCab(g)
    BY <1>5 DEF InCab
  <2>2. \A q \in Queues : \A g \in Elems(txq'[q]) : sup[g] # Idle /\ sup[g].queue = q /\ ~InCab(g)
    BY <1>1, <1>2, <1>6 DEF IInv, Static, Located
  <2>3. \A g \in Elems(down) : g \in AllFrames
    BY ElementOfSeq, LenProperties DEF IInv, TypeOK, Elems, AllFrames
  <2>4. \A g \in Elems(retryq) : g \in AllFrames
    BY <1>0, ElementOfSeq, LenProperties DEF Elems
  <2>5. \A g \in AllFrames : sup[g] # Idle =>
          g \in Elems(down) \/ g \in Elems(retryq') \/ InTx(g)' \/ InCab(g)
    BY <1>1, <1>7 DEF IInv, Static, Located
  <2>6. \A g \in Elems(down) :
          sup[g] # Idle /\ g \notin Elems(retryq') /\ ~InTx(g)' /\ ~InCab(g)
    BY <1>1, <1>7, <2>3 DEF IInv, Static, Located
  <2>7. \A g \in Elems(retryq') : sup[g] # Idle /\ ~InTx(g)' /\ ~InCab(g)
    BY <1>1, <1>7, <2>4 DEF IInv, Static, Located
  <2>8. \A v \in Vifs : \A g \in Elems(cabq[v]) : sup[g] # Idle /\ sup[g].vif = v /\ sup[g].cab
    BY DEF IInv, Static, Located
  <2> QED
    BY <1>5, <2>1, <2>2, <2>5, <2>6, <2>7, <2>8 DEF Located
<1>10. Contents' /\ DoneInTx'
  BY <1>1, <1>5, <1>7 DEF IInv, Static, Contents, DoneInTx
<1>11. AheadQueued'
  BY <1>1, <1>5, <1>7 DEF IInv, TypeOK, Static, AheadQueued
<1>12. CountersAgree'
  BY <1>3 DEF IInv, Static, CountersAgree, Accepted, counts
<1>13. TypeOK'
  BY <1>0, <1>1, <1>3, <1>6, AmpduFacts DEF IInv, TypeOK, counts, cab, mac, hist
<1>14. Loop' /\ PrevLast'
  BY <1>0, <1>1, <1>3, <1>5, <1>6, AmpduFacts DEF IInv, Dynamic, Loop, PrevLast
<1>15. NoForgottenCompletion'
  BY <1>5, <1>6 DEF IInv, Dynamic, NoForgottenCompletion
<1>16. AmpduPrevLive'
  BY <1>0, <1>1, <1>2, <1>3, <1>5, <1>6, AmpduFacts DEF IInv, Dynamic, AmpduPrevLive
<1> QED
  BY <1>6, <1>8, <1>9, <1>10, <1>11, <1>12, <1>13, <1>14, <1>15, <1>16
     DEF IInv, Static, Dynamic

LEMMA FlushOneKeeps ==
  ASSUME IInv, FlushOne
  PROVE  IInv'
<1> DEFINE f == Head(cabq[ix])
           q == sup[f].queue
<1>0. /\ ix \in Vifs /\ pc \in {"cab", "flush"} /\ retryq = <<>>
      /\ cabq[ix] # <<>> /\ cabq[ix] \in Seq(Frames)
  BY DEF IInv, Dynamic, Loop, FlushOne, TypeOK
<1>1. /\ Tail(cabq[ix]) \in Seq(Frames)
      /\ f \in Frames /\ f \in AllFrames /\ f \in Elems(cabq[ix])
      /\ Elems(Tail(cabq[ix])) = Elems(cabq[ix]) \ {f} /\ Inj(Tail(cabq[ix]))
  BY <1>0, TailFacts DEF IInv, Static, Distinct, AllFrames
<1>a. cabq' = [cabq EXCEPT ![ix] = Tail(@)]
  BY DEF FlushOne
<1>b. /\ cabq' \in [Vifs -> Seq(Frames)]
      /\ cabq'[ix] = Tail(cabq[ix]) /\ \A v \in Vifs : v # ix => cabq'[v] = cabq[v]
  BY <1>0, <1>1, <1>a DEF IInv, TypeOK
<1> HIDE DEF f, q
<1>2. sup[f] # Idle /\ sup[f].vif = ix /\ q \in Queues
  BY <1>0, <1>1, JobFields DEF IInv, Static, Located, q
<1>3. /\ WlanTxAmpdu(f, q) /\ txq' = [txq EXCEPT ![q] = Append(@, f)]
      /\ ahead' = [ahead EXCEPT ![f] = Elems(txq[q])]
      /\ UNCHANGED <<down, retryq, sup, rix, cnt, own, ctrl, counts, cab, mac, pc, ix,
                     missed, tried, result>>
  BY DEF FlushOne, EnqueueFirst, Enqueue, Follows, f, q
<1>4. own[f] = "HW" /\ \A p \in Queues : f \notin Elems(txq[p])
  BY <1>0, <1>1, Waiting
<1>5. /\ UNCHANGED <<own, ctrl, halt, missed, sup, down, retryq, rix, pc, ix, intr>>
      /\ \A g \in AllFrames : g # f => ahead'[g] = ahead[g]
      /\ ahead'[f] = Elems(txq[q])
  BY <1>1, <1>3 DEF mac, IInv, TypeOK
<1>c. Elems(retryq) = {}
  BY <1>0, EmptyFacts
<1>d. \A g \in AllFrames : f \notin ahead[g]
  BY <1>2, <1>4, <1>c DEF IInv, Static, AheadQueued, InTx, q
<1>6. /\ txq' \in [Queues -> Seq(AllFrames)]
      /\ \A p \in Queues : p # q => txq'[p] = txq[p]
      /\ Elems(txq'[q]) = Elems(txq[q]) \cup {f}
      /\ \A p \in Queues : Inj(txq'[p])
      /\ \A p \in Queues : Completed(p)' => Completed(p)
      /\ DonePrefix' /\ Stopped' /\ HaltedAtFailure' /\ OrderKept'
  <2>1. txq' = [txq EXCEPT ![q] = Append(@, f)]
    BY <1>3
  <2> QED
    BY <1>1, <1>2, <2>1, <1>4, <1>5, <1>d, Joins DEF IInv
<1>7. /\ \A g \in AllFrames : sup[g] # Idle => (InTx(g)' <=> InTx(g) \/ g = f)
      /\ \A g \in AllFrames : sup[g] # Idle => (InCab(g)' <=> InCab(g) /\ g # f)
  BY <1>1, <1>2, <1>b, <1>5, <1>6, JobFields DEF IInv, InTx, InCab, q
<1>8. Distinct'
  BY <1>0, <1>1, <1>b, <1>5, <1>6 DEF IInv, Static, Distinct
<1>9. Located'
  <2>1. \A p \in Queues : \A g \in Elems(txq[p]) : g \in AllFrames
    BY ElementOfSeq, LenProperties DEF Elems, IInv, TypeOK
  <2>2. \A p \in Queues : \A g \in Elems(txq'[p]) : sup[g] # Idle /\ sup[g].queue = p /\ ~InCab(g)'
    <3> SUFFICES ASSUME NEW p \in Queues, NEW g \in Elems(txq'[p])
                 PROVE  sup[g] # Idle /\ sup[g].queue = p /\ ~InCab(g)'
      OBVIOUS
    <3>1. CASE g = f
      BY <1>1, <1>2, <1>4, <1>6, <1>7, <3>1 DEF q
    <3>2. CASE g # f
      <4>1. g \in Elems(txq[p]) /\ g \in AllFrames
        BY <1>2, <1>6, <2>1, <3>2
      <4>2. sup[g] # Idle /\ sup[g].queue = p /\ ~InCab(g)
        BY <4>1 DEF IInv, Static, Located
      <4> QED
        BY <1>7, <4>1, <4>2
    <3> QED
      BY <3>1, <3>2
  <2>3. \A g \in Elems(down) : g \in AllFrames
    BY ElementOfSeq, LenProperties DEF IInv, TypeOK, Elems, AllFrames
  <2>5. \A g \in AllFrames : sup[g] # Idle =>
          g \in Elems(down) \/ g \in Elems(retryq) \/ InTx(g)' \/ InCab(g)'
    BY <1>1, <1>7 DEF IInv, Static, Located
  <2>6. \A g \in Elems(down) :
          sup[g] # Idle /\ g \notin Elems(retryq) /\ ~InTx(g)' /\ ~InCab(g)'
    <3>1. f \notin Elems(down)
      BY <1>0, <1>1, <1>2 DEF IInv, Static, Located, InCab
    <3> QED
      BY <1>7, <2>3, <3>1 DEF IInv, Static, Located
  <2>8. \A v \in Vifs : \A g \in Elems(cabq'[v]) : sup[g] # Idle /\ sup[g].vif = v /\ sup[g].cab
    BY <1>0, <1>1, <1>b, ZenonT(60) DEF IInv, Static, Located
  <2> QED
    BY <1>5, <1>c, <2>2, <2>5, <2>6, <2>8 DEF Located
<1>10. Contents' /\ DoneInTx'
  BY <1>1, <1>5, <1>7 DEF IInv, Static, Contents, DoneInTx
<1>11. AheadQueued'
  <2>1. \A p \in Queues : \A g \in Elems(txq[p]) : g \in AllFrames
    BY ElementOfSeq, LenProperties DEF Elems, IInv, TypeOK
  <2>2. \A h \in Elems(txq[q]) : sup[h] # Idle /\ InTx(h)'
    BY <1>2, <1>7, <2>1 DEF IInv, Static, Located, InTx
  <2>3. \A g \in AllFrames : \A h \in ahead'[g] : sup[h] # Idle /\ InTx(h)'
    <3>1. \A g \in AllFrames : ahead[g] \subseteq AllFrames
      BY DEF IInv, TypeOK
    <3> QED
      BY <1>5, <1>7, <1>c, <2>2, <3>1 DEF IInv, Static, AheadQueued
  <2> QED
    BY <1>5, <1>c, <2>3 DEF AheadQueued
<1>12. CountersAgree'
  BY <1>3 DEF IInv, Static, CountersAgree, Accepted, counts
<1>13. TypeOK'
  <2>1. Elems(txq[q]) \subseteq AllFrames
    BY <1>2, ElementOfSeq, LenProperties DEF Elems, IInv, TypeOK
  <2>2. ahead' \in [AllFrames -> SUBSET AllFrames]
    BY <1>1, <1>3, <2>1 DEF IInv, TypeOK
  <2>3. baEnd' \in [AllFrames -> BOOLEAN] /\ prev' \in [Queues -> AllFrames \cup {NoFrame}]
    BY <1>1, <1>2, <1>3, AmpduFacts DEF IInv
  <2> QED
    BY <1>b, <1>3, <1>6, <2>2, <2>3 DEF IInv, TypeOK, counts, cab, mac
<1>14. Loop' /\ PrevLast' /\ NoForgottenCompletion'
  BY <1>0, <1>5, <1>6 DEF IInv, Dynamic, Loop, PrevLast, NoForgottenCompletion
<1>16. AmpduPrevLive'
  <2>1. prev'[q] \in {f, NoFrame} /\ \A p \in Queues : p # q => prev'[p] = prev[p]
    BY <1>1, <1>2, <1>3, AmpduFacts DEF IInv
  <2> QED
    BY <1>0, <1>5, <1>6, <2>1, ZenonT(60) DEF IInv, Dynamic, AmpduPrevLive, q
<1> QED
  BY <1>6, <1>8, <1>9, <1>10, <1>11, <1>12, <1>13, <1>14, <1>16
     DEF IInv, Static, Dynamic

-----------------------------------------------------------------------------
(* Counters *)

CabOf(v) == {f \in Accepted : sup[f].cab /\ sup[f].vif = v}
BarsOf   == {f \in Accepted : sup[f].bar}

LEMMA FiniteCounts ==
  /\ IsFiniteSet(BarsOf) /\ Cardinality(BarsOf) \in Nat
  /\ \A v \in Vifs : IsFiniteSet(CabOf(v)) /\ Cardinality(CabOf(v)) \in Nat
<1>1. IsFiniteSet(Frames)
  BY TxAssumption
<1>2. BarsOf \subseteq Frames /\ \A v \in Vifs : CabOf(v) \subseteq Frames
  BY DEF BarsOf, CabOf, Accepted
<1>3. IsFiniteSet(BarsOf) /\ \A v \in Vifs : IsFiniteSet(CabOf(v))
  BY <1>1, <1>2, FS_Subset
<1> QED
  BY <1>3, FS_CardinalityType

\* A frame that is accepted is counted.
LEMMA CountUp ==
  ASSUME TypeOK, CountersAgree, NEW f \in Frames, f \notin Accepted, sup[f] # Idle,
         Accepted' = Accepted \cup {f}, UNCHANGED <<sup, avail>>,
         bars' = (IF sup[f].bar THEN bars + 1 ELSE bars),
         IF sup[f].cab THEN cabLen' = [cabLen EXCEPT ![sup[f].vif] = @ + 1]
                       ELSE cabLen' = cabLen
  PROVE  CountersAgree' /\ cabLen' \in [Vifs -> Nat] /\ bars' \in Nat
<1>1. sup[f].vif \in Vifs /\ sup[f].cab \in BOOLEAN /\ sup[f].bar \in BOOLEAN
  BY JobFields DEF AllFrames
<1>2. /\ bars = Cardinality(BarsOf) /\ avail = (sup[FwFrame] = Idle)
      /\ \A v \in Vifs : cabLen[v] = Cardinality(CabOf(v))
  BY DEF CountersAgree, BarsOf, CabOf
<1>3. f \notin BarsOf /\ \A v \in Vifs : f \notin CabOf(v)
  BY DEF BarsOf, CabOf
<1>4. /\ BarsOf' = (IF sup[f].bar THEN BarsOf \cup {f} ELSE BarsOf)
      /\ \A v \in Vifs :
           CabOf(v)' = IF sup[f].cab /\ sup[f].vif = v THEN CabOf(v) \cup {f} ELSE CabOf(v)
  BY DEF BarsOf, CabOf
<1>5. bars' = Cardinality(BarsOf')
  BY <1>2, <1>3, <1>4, FiniteCounts, FS_AddElement
<1>6. \A v \in Vifs : cabLen'[v] = Cardinality(CabOf(v)')
  <2> SUFFICES ASSUME NEW v \in Vifs PROVE cabLen'[v] = Cardinality(CabOf(v)')
    OBVIOUS
  <2>1. cabLen'[v] = IF sup[f].cab /\ sup[f].vif = v THEN cabLen[v] + 1 ELSE cabLen[v]
    BY <1>1 DEF TypeOK
  <2>2. Cardinality(CabOf(v) \cup {f}) = Cardinality(CabOf(v)) + 1
    BY <1>3, FiniteCounts, FS_AddElement
  <2> QED
    BY <1>2, <1>4, <2>1, <2>2
<1>7. CountersAgree'
  BY <1>2, <1>5, <1>6 DEF CountersAgree, BarsOf, CabOf
<1>8. bars' \in Nat /\ cabLen' \in [Vifs -> Nat]
  <2>1. bars' \in Nat
    BY DEF TypeOK
  <2>2. CASE sup[f].cab
    <3>1. cabLen' = [cabLen EXCEPT ![sup[f].vif] = @ + 1]
      BY <2>2
    <3>2. cabLen \in [Vifs -> Nat]
      BY DEF TypeOK
    <3>3. cabLen' \in [Vifs -> Nat]
      BY <1>1, <3>1, <3>2
    <3> QED
      BY <2>1, <3>3
  <2>3. CASE ~sup[f].cab
    <3>1. cabLen' = cabLen
      BY <2>3
    <3> QED
      BY <2>1, <3>1 DEF TypeOK
  <2> QED
    BY <2>2, <2>3
<1> QED
  BY <1>7, <1>8

\* A frame that is reported is counted no longer.
LEMMA CountDown ==
  ASSUME TypeOK, CountersAgree, NEW f \in Accepted, Accepted' = Accepted \ {f},
         \A g \in AllFrames : g # f => sup'[g] = sup[g],
         avail' = avail,
         bars' = (IF sup[f].bar THEN bars - 1 ELSE bars),
         IF sup[f].cab THEN cabLen' = [cabLen EXCEPT ![sup[f].vif] = @ - 1]
                       ELSE cabLen' = cabLen
  PROVE  CountersAgree' /\ cabLen' \in [Vifs -> Nat] /\ bars' \in Nat
<1>0. f \in Frames /\ f # FwFrame /\ sup[f] # Idle
  BY TxAssumption DEF Accepted
<1>1. sup[f].vif \in Vifs /\ sup[f].cab \in BOOLEAN /\ sup[f].bar \in BOOLEAN
  BY <1>0, JobFields DEF AllFrames
<1>2. /\ bars = Cardinality(BarsOf) /\ avail = (sup[FwFrame] = Idle)
      /\ \A v \in Vifs : cabLen[v] = Cardinality(CabOf(v))
  BY DEF CountersAgree, BarsOf, CabOf
<1>3. \A g \in Accepted : g # f => sup'[g] = sup[g]
  BY DEF Accepted, AllFrames
<1>4. /\ BarsOf' = (IF sup[f].bar THEN BarsOf \ {f} ELSE BarsOf)
      /\ \A v \in Vifs :
           CabOf(v)' = IF sup[f].cab /\ sup[f].vif = v THEN CabOf(v) \ {f} ELSE CabOf(v)
  <2>1. BarsOf' = {g \in Accepted \ {f} : sup'[g].bar}
    BY DEF BarsOf
  <2>2. \A v \in Vifs : CabOf(v)' = {g \in Accepted \ {f} : sup'[g].cab /\ sup'[g].vif = v}
    BY DEF CabOf
  <2> QED
    BY <1>3, <2>1, <2>2 DEF BarsOf, CabOf
<1>5. bars' = Cardinality(BarsOf') /\ bars' \in Nat
  <2>1. sup[f].bar => /\ f \in BarsOf
                      /\ Cardinality(BarsOf \ {f}) = Cardinality(BarsOf) - 1
                      /\ Cardinality(BarsOf \ {f}) \in Nat
    BY FiniteCounts, FS_RemoveElement, FS_CardinalityType DEF BarsOf
  <2> QED
    BY <1>1, <1>2, <1>4, <2>1, FiniteCounts
<1>6. \A v \in Vifs : cabLen'[v] = Cardinality(CabOf(v)') /\ cabLen'[v] \in Nat
  <2> SUFFICES ASSUME NEW v \in Vifs
               PROVE  cabLen'[v] = Cardinality(CabOf(v)') /\ cabLen'[v] \in Nat
    OBVIOUS
  <2>1. cabLen'[v] = IF sup[f].cab /\ sup[f].vif = v THEN cabLen[v] - 1 ELSE cabLen[v]
    BY <1>1 DEF TypeOK
  <2>2. sup[f].cab /\ sup[f].vif = v =>
          /\ f \in CabOf(v)
          /\ Cardinality(CabOf(v) \ {f}) = Cardinality(CabOf(v)) - 1
          /\ Cardinality(CabOf(v) \ {f}) \in Nat
    BY FiniteCounts, FS_RemoveElement, FS_CardinalityType DEF CabOf
  <2> QED
    BY <1>2, <1>4, <2>1, <2>2, FiniteCounts
<1>7. cabLen' \in [Vifs -> Nat]
  <2>1. cabLen' \in [Vifs -> Int]
    BY <1>1 DEF TypeOK
  <2> QED
    BY <1>6, <2>1
<1>8. avail' = (sup'[FwFrame] = Idle)
  BY <1>0, <1>2 DEF AllFrames
<1>9. CountersAgree'
  BY <1>5, <1>6, <1>8 DEF CountersAgree, BarsOf, CabOf
<1> QED
  BY <1>5, <1>7, <1>9

-----------------------------------------------------------------------------
(* Packets that arrive, are accepted or dropped *)

\* The frame at the head of the down queue leaves it.
LEMMA LeavesDown ==
  ASSUME IInv, down # <<>>, down' = Tail(down), NEW f, f = Head(down)
  PROVE  /\ f \in Frames /\ f \in AllFrames /\ f # FwFrame
         /\ f \in Elems(down) /\ sup[f] # Idle
         /\ down' \in Seq(Frames) /\ Inj(down')
         /\ Elems(down') = Elems(down) \ {f}
         /\ own[f] = "HW" /\ f \notin Elems(retryq)
         /\ \A p \in Queues : f \notin Elems(txq[p])
         /\ \A v \in Vifs : f \notin Elems(cabq[v])
<1>1. down \in Seq(Frames)
  BY DEF IInv, TypeOK
<1>2. /\ f \in Frames /\ f \in Elems(down) /\ down' \in Seq(Frames)
      /\ Elems(down') = Elems(down) \ {f} /\ Inj(down')
  BY <1>1, TailFacts DEF IInv, Static, Distinct
<1>3. f \in AllFrames /\ f # FwFrame
  BY <1>2, TxAssumption DEF AllFrames
<1>4. own[f] = "HW" /\ \A p \in Queues : f \notin Elems(txq[p])
  BY <1>2, <1>3, Waiting
<1>5. sup[f] # Idle /\ f \notin Elems(retryq) /\ ~InCab(f)
  BY <1>2 DEF IInv, Static, Located
<1>6. \A v \in Vifs : f \notin Elems(cabq[v])
  BY <1>5 DEF IInv, Static, Located, InCab
<1> QED
  BY <1>2, <1>3, <1>4, <1>5, <1>6

\* A multicast frame is buffered.
LEMMA BufferKeeps ==
  ASSUME IInv, WlanTx, sup[Head(down)].cab
  PROVE  IInv'
<1> DEFINE f == Head(down)
           v == sup[f].vif
<1>0. /\ pc = "host" /\ retryq = <<>> /\ Elems(retryq) = {}
      /\ down' = Tail(down) /\ down # <<>>
  BY EmptyFacts DEF IInv, Dynamic, Loop, WlanTx
<1>1. /\ f \in Frames /\ f \in AllFrames /\ f # FwFrame
      /\ f \in Elems(down) /\ sup[f] # Idle
      /\ down' \in Seq(Frames) /\ Inj(down')
      /\ Elems(down') = Elems(down) \ {f}
      /\ own[f] = "HW" /\ f \notin Elems(retryq)
      /\ \A p \in Queues : f \notin Elems(txq[p])
      /\ \A w \in Vifs : f \notin Elems(cabq[w])
  BY <1>0, LeavesDown
<1>2. v \in Vifs /\ cabq[v] \in Seq(Frames)
  BY <1>1, JobFields DEF IInv, TypeOK
<1>3. /\ cnt' = [cnt EXCEPT ![f] = 1]
      /\ bars' = (IF sup[f].bar THEN bars + 1 ELSE bars)
      /\ cabLen' = [cabLen EXCEPT ![v] = @ + 1]
      /\ cabq' = [cabq EXCEPT ![v] = Append(@, f)]
      /\ UNCHANGED <<txq, baEnd, prev, ahead, retryq, sup, rix, own, ctrl, avail, cab,
                     mac, pc, ix, missed, tried, result>>
  BY DEF WlanTx
<1>4. sup[f].cab
  OBVIOUS
<1> HIDE DEF f, v
<1>5. /\ Append(cabq[v], f) \in Seq(Frames)
      /\ Elems(Append(cabq[v], f)) = Elems(cabq[v]) \cup {f}
      /\ Inj(Append(cabq[v], f))
  BY <1>1, <1>2, AppendFacts DEF IInv, Static, Distinct
<1>6. /\ cabq' \in [Vifs -> Seq(Frames)]
      /\ cabq'[v] = Append(cabq[v], f) /\ \A w \in Vifs : w # v => cabq'[w] = cabq[w]
  BY <1>2, <1>3, <1>5 DEF IInv, TypeOK
<1>7. \A g \in AllFrames : sup[g] # Idle => (InCab(g)' <=> InCab(g) \/ g = f)
  BY <1>1, <1>2, <1>3, <1>5, <1>6, JobFields, ZenonT(60) DEF IInv, InCab, v
<1>8. Distinct'
  BY <1>0, <1>1, <1>3, <1>5, <1>6 DEF IInv, Static, Distinct
<1>9. Located'
  <2>1. \A p \in Queues : \A g \in Elems(txq[p]) : g \in AllFrames /\ g # f
    BY <1>1, ElementOfSeq, LenProperties DEF Elems, IInv, TypeOK
  <2>2. \A p \in Queues : \A g \in Elems(txq[p]) : sup[g] # Idle /\ sup[g].queue = p /\ ~InCab(g)'
    BY <1>7, <2>1 DEF IInv, Static, Located
  <2>3. \A g \in Elems(down') : g \in AllFrames /\ g # f /\ g \in Elems(down)
    BY <1>1, ElemsIn DEF AllFrames
  <2>4. \A g \in AllFrames : sup[g] # Idle =>
          g \in Elems(down') \/ g \in Elems(retryq) \/ InTx(g) \/ InCab(g)'
    BY <1>1, <1>7 DEF IInv, Static, Located
  <2>5. \A g \in Elems(down') :
          sup[g] # Idle /\ g \notin Elems(retryq) /\ ~InTx(g) /\ ~InCab(g)'
    BY <1>7, <2>3 DEF IInv, Static, Located
  <2>6. \A w \in Vifs : \A g \in Elems(cabq'[w]) : sup[g] # Idle /\ sup[g].vif = w /\ sup[g].cab
    <3> SUFFICES ASSUME NEW w \in Vifs, NEW g \in Elems(cabq'[w])
                 PROVE  sup[g] # Idle /\ sup[g].vif = w /\ sup[g].cab
      OBVIOUS
    <3>1. CASE w = v /\ g = f
      BY <1>1, <1>4, <3>1 DEF v
    <3>2. CASE ~(w = v /\ g = f)
      <4>1. g \in Elems(cabq[w])
        BY <1>5, <1>6, <3>2
      <4> QED
        BY <4>1 DEF IInv, Static, Located
    <3> QED
      BY <3>1, <3>2
  <2>7. \A g : InTx(g)' <=> InTx(g)
    BY <1>3 DEF InTx
  <2> QED
    BY <1>0, <1>3, <2>2, <2>4, <2>5, <2>6, <2>7 DEF Located
<1>10. Contents' /\ DonePrefix' /\ DoneInTx' /\ AheadQueued'
  BY <1>3 DEF IInv, Static, Contents, DonePrefix, DoneInTx, AheadQueued, InTx
<1>11. Stopped' /\ HaltedAtFailure' /\ OrderKept'
  BY <1>3 DEF IInv, Static, Stopped, HaltedAtFailure, OrderKept, Overtaken, mac
<1>12. CountersAgree' /\ cabLen' \in [Vifs -> Nat] /\ bars' \in Nat
  <2>1. f \notin Accepted /\ Accepted' = Accepted \cup {f}
    BY <1>1, <1>3 DEF Accepted
  <2> QED
    BY <1>1, <1>3, <1>4, <2>1, CountUp DEF IInv, Static, v
<1>13. TypeOK'
  BY <1>1, <1>3, <1>6, <1>12 DEF IInv, TypeOK, cab, mac
<1>14. Dynamic'
  BY <1>0, <1>3 DEF IInv, Dynamic, Loop, PrevLast, NoForgottenCompletion, Completed,
                    AmpduPrevLive, mac
<1> QED
  BY <1>8, <1>9, <1>10, <1>11, <1>12, <1>13, <1>14 DEF IInv, Static

\* A frame is queued for the MAC at once.
LEMMA QueueKeeps ==
  ASSUME IInv, WlanTx, ~sup[Head(down)].cab
  PROVE  IInv'
<1> DEFINE f == Head(down)
           q == sup[f].queue
<1>0. /\ pc = "host" /\ retryq = <<>> /\ Elems(retryq) = {}
      /\ down' = Tail(down) /\ down # <<>>
  BY EmptyFacts DEF IInv, Dynamic, Loop, WlanTx
<1>1. /\ f \in Frames /\ f \in AllFrames /\ f # FwFrame
      /\ f \in Elems(down) /\ sup[f] # Idle
      /\ down' \in Seq(Frames) /\ Inj(down')
      /\ Elems(down') = Elems(down) \ {f}
      /\ own[f] = "HW" /\ f \notin Elems(retryq)
      /\ \A p \in Queues : f \notin Elems(txq[p])
      /\ \A w \in Vifs : f \notin Elems(cabq[w])
  BY <1>0, LeavesDown
<1>2. q \in Queues
  BY <1>1, JobFields DEF IInv
<1>3. /\ WlanTxAmpdu(f, q) /\ txq' = [txq EXCEPT ![q] = Append(@, f)]
      /\ ahead' = [ahead EXCEPT ![f] = Elems(txq[q])]
      /\ cnt' = [cnt EXCEPT ![f] = 1]
      /\ bars' = (IF sup[f].bar THEN bars + 1 ELSE bars)
      /\ UNCHANGED <<cabLen, cabq, retryq, sup, rix, own, ctrl, avail, cab, mac, pc, ix,
                     missed, tried, result>>
  BY DEF WlanTx, EnqueueFirst, Enqueue, Follows
<1>4. ~sup[f].cab
  OBVIOUS
<1> HIDE DEF f, q
<1>5. /\ UNCHANGED <<own, ctrl, halt, missed, sup, retryq, rix, pc, ix, intr>>
      /\ \A g \in AllFrames : g # f => ahead'[g] = ahead[g]
      /\ ahead'[f] = Elems(txq[q])
  BY <1>1, <1>3 DEF mac, IInv, TypeOK
<1>d. \A g \in AllFrames : f \notin ahead[g]
  BY <1>0, <1>1, <1>2 DEF IInv, Static, AheadQueued, InTx, q
<1>6. /\ txq' \in [Queues -> Seq(AllFrames)]
      /\ \A p \in Queues : p # q => txq'[p] = txq[p]
      /\ Elems(txq'[q]) = Elems(txq[q]) \cup {f}
      /\ \A p \in Queues : Inj(txq'[p])
      /\ \A p \in Queues : Completed(p)' => Completed(p)
      /\ DonePrefix' /\ Stopped' /\ HaltedAtFailure' /\ OrderKept'
  <2>1. txq' = [txq EXCEPT ![q] = Append(@, f)]
    BY <1>3
  <2> QED
    BY <1>1, <1>2, <2>1, <1>5, <1>d, Joins DEF IInv
<1>7. \A g \in AllFrames : sup[g] # Idle => (InTx(g)' <=> InTx(g) \/ g = f)
  BY <1>1, <1>2, <1>5, <1>6, JobFields DEF IInv, InTx, q
<1>8. Distinct'
  BY <1>1, <1>3, <1>5, <1>6 DEF IInv, Static, Distinct
<1>9. \A p \in Queues : Elems(txq[p]) \subseteq AllFrames
  BY ElemsIn DEF IInv, TypeOK
<1>10. Located'
  <2>1. \A g : InCab(g)' <=> InCab(g)
    BY <1>3 DEF InCab
  <2>2. ASSUME NEW p \in Queues, NEW g \in Elems(txq'[p])
        PROVE  sup[g] # Idle /\ sup[g].queue = p /\ ~InCab(g)
    <3>1. CASE g = f
      <4>1. ~InCab(f)
        BY <1>1, JobFields DEF IInv, InCab
      <4>2. p = q
        BY <1>1, <1>6, <2>2, <3>1
      <4> QED
        BY <1>1, <3>1, <4>1, <4>2 DEF q
    <3>2. CASE g # f
      <4>1. g \in Elems(txq[p])
        BY <1>6, <2>2, <3>2
      <4> QED
        BY <4>1 DEF IInv, Static, Located
    <3> QED
      BY <3>1, <3>2
  <2>3. \A g \in Elems(down') : g \in AllFrames /\ g # f /\ g \in Elems(down)
    BY <1>1, ElemsIn DEF AllFrames
  <2>4. \A g \in AllFrames : sup[g] # Idle =>
          g \in Elems(down') \/ g \in Elems(retryq) \/ InTx(g)' \/ InCab(g)
    BY <1>1, <1>7 DEF IInv, Static, Located
  <2>5. \A g \in Elems(down') :
          sup[g] # Idle /\ g \notin Elems(retryq) /\ ~InTx(g)' /\ ~InCab(g)
    BY <1>7, <2>3 DEF IInv, Static, Located
  <2>6. \A w \in Vifs : \A g \in Elems(cabq[w]) : sup[g] # Idle /\ sup[g].vif = w /\ sup[g].cab
    BY DEF IInv, Static, Located
  <2> QED
    BY <1>0, <1>3, <2>1, <2>2, <2>4, <2>5, <2>6 DEF Located
<1>11. Contents' /\ DoneInTx'
  BY <1>1, <1>5, <1>7 DEF IInv, Static, Contents, DoneInTx
<1>12. AheadQueued'
  <2>1. \A h \in Elems(txq[q]) : sup[h] # Idle /\ InTx(h)'
    BY <1>2, <1>7, <1>9 DEF IInv, Static, Located, InTx
  <2>2. \A g \in AllFrames : ahead[g] \subseteq AllFrames
    BY DEF IInv, TypeOK
  <2>3. \A g \in AllFrames : \A h \in ahead'[g] : sup[h] # Idle /\ InTx(h)'
    BY <1>0, <1>5, <1>7, <2>1, <2>2 DEF IInv, Static, AheadQueued
  <2> QED
    BY <1>0, <1>5, <2>3 DEF AheadQueued
<1>13. CountersAgree' /\ cabLen' \in [Vifs -> Nat] /\ bars' \in Nat
  <2>1. f \notin Accepted /\ Accepted' = Accepted \cup {f}
    BY <1>1, <1>3 DEF Accepted
  <2> QED
    BY <1>1, <1>3, <1>4, <2>1, CountUp DEF IInv, Static
<1>14. TypeOK'
  <2>1. ahead' \in [AllFrames -> SUBSET AllFrames]
    BY <1>1, <1>2, <1>3, <1>9 DEF IInv, TypeOK
  <2>2. baEnd' \in [AllFrames -> BOOLEAN] /\ prev' \in [Queues -> AllFrames \cup {NoFrame}]
    BY <1>1, <1>2, <1>3, AmpduFacts DEF IInv
  <2> QED
    BY <1>1, <1>3, <1>6, <1>13, <2>1, <2>2 DEF IInv, TypeOK, cab, mac
<1>15. Loop' /\ PrevLast'
  BY <1>0, <1>5 DEF IInv, Dynamic, Loop, PrevLast
<1>16. NoForgottenCompletion'
  BY <1>5, <1>6 DEF IInv, Dynamic, NoForgottenCompletion
<1>17. AmpduPrevLive'
  <2>1. prev'[q] \in {f, NoFrame} /\ \A p \in Queues : p # q => prev'[p] = prev[p]
    BY <1>1, <1>2, <1>3, AmpduFacts DEF IInv
  <2>2. \A p \in Queues : prev[p] # NoFrame => prev[p] \in Elems(txq[p]) /\ sup[prev[p]].queue = p
    BY <1>0 DEF IInv, Dynamic, AmpduPrevLive
  <2>3. ASSUME NEW p \in Queues, prev'[p] # NoFrame
        PROVE  prev'[p] \in Elems(txq'[p]) /\ sup[prev'[p]].queue = p
    <3>1. CASE p = q
      BY <1>6, <2>1, <2>3, <3>1 DEF q
    <3>2. CASE p # q
      BY <1>6, <2>1, <2>2, <2>3, <3>2
    <3> QED
      BY <3>1, <3>2
  <2> QED
    BY <1>5, <2>3 DEF AmpduPrevLive
<1> QED
  BY <1>6, <1>8, <1>10, <1>11, <1>12, <1>13, <1>14, <1>15, <1>16, <1>17
     DEF IInv, Static, Dynamic

\* A report empties the packet's buffer.
LEMMA RecycleFacts ==
  ASSUME TypeOK, NEW f \in AllFrames, NEW success \in BOOLEAN, Recycle(f, success)
  PROVE  /\ sup' \in [AllFrames -> Superframe \cup {Idle}]
         /\ rix' \in [AllFrames -> 0 .. MaxRates] /\ cnt' \in [AllFrames -> Nat]
         /\ baEnd' \in [AllFrames -> BOOLEAN]
         /\ own' \in [AllFrames -> {"HW", "SW"}]
         /\ ctrl' \in [AllFrames -> {"ok", "TXFAIL", "BAFAIL"}]
         /\ ahead' \in [AllFrames -> SUBSET AllFrames] /\ missed' \subseteq AllFrames
         /\ tried' \in [AllFrames -> Nat]
         /\ result' \in [AllFrames -> {"none", "ok", "failed"}]
         /\ sup'[f] = Idle /\ rix'[f] = 0 /\ own'[f] = "HW"
         /\ \A g \in AllFrames : g # f =>
              sup'[g] = sup[g] /\ rix'[g] = rix[g] /\ own'[g] = own[g] /\ ctrl'[g] = ctrl[g]
         /\ \A g \in AllFrames : f \notin ahead'[g] /\ ahead'[g] \subseteq ahead[g]
         /\ missed' = missed \ {f}
<1> USE DEF Recycle
<1>1. /\ sup' \in [AllFrames -> Superframe \cup {Idle}]
      /\ rix' \in [AllFrames -> 0 .. MaxRates] /\ cnt' \in [AllFrames -> Nat]
      /\ tried' \in [AllFrames -> Nat]
  BY TxAssumption DEF TypeOK
<1>2. baEnd' \in [AllFrames -> BOOLEAN]
  BY DEF TypeOK
<1>3. /\ own' \in [AllFrames -> {"HW", "SW"}]
      /\ ctrl' \in [AllFrames -> {"ok", "TXFAIL", "BAFAIL"}]
      /\ result' \in [AllFrames -> {"none", "ok", "failed"}]
  BY DEF TypeOK
<1>4. /\ ahead' \in [AllFrames -> SUBSET AllFrames] /\ missed' \subseteq AllFrames
      /\ \A g \in AllFrames : f \notin ahead'[g] /\ ahead'[g] \subseteq ahead[g]
      /\ missed' = missed \ {f}
  BY DEF TypeOK
<1>5. /\ sup'[f] = Idle /\ rix'[f] = 0 /\ own'[f] = "HW"
      /\ \A g \in AllFrames : g # f =>
           sup'[g] = sup[g] /\ rix'[g] = rix[g] /\ own'[g] = own[g] /\ ctrl'[g] = ctrl[g]
  BY DEF TypeOK
<1> QED
  BY <1>1, <1>2, <1>3, <1>4, <1>5

\* A frame the DMA clipped is dropped.
LEMMA DropKeeps ==
  ASSUME IInv, DropClipped
  PROVE  IInv'
<1> DEFINE f == Head(down)
<1>0. /\ pc = "host" /\ retryq = <<>> /\ Elems(retryq) = {}
      /\ down' = Tail(down) /\ down # <<>> /\ Recycle(f, FALSE)
      /\ UNCHANGED <<txq, retryq, cabq, prev, counts, cab, mac, pc, ix>>
  BY EmptyFacts DEF IInv, Dynamic, Loop, DropClipped
<1>1. /\ f \in Frames /\ f \in AllFrames /\ f # FwFrame
      /\ f \in Elems(down) /\ sup[f] # Idle
      /\ down' \in Seq(Frames) /\ Inj(down')
      /\ Elems(down') = Elems(down) \ {f}
      /\ own[f] = "HW" /\ f \notin Elems(retryq)
      /\ \A p \in Queues : f \notin Elems(txq[p])
      /\ \A w \in Vifs : f \notin Elems(cabq[w])
  BY <1>0, LeavesDown
<1> HIDE DEF f
<1>2. /\ sup' \in [AllFrames -> Superframe \cup {Idle}]
      /\ rix' \in [AllFrames -> 0 .. MaxRates] /\ cnt' \in [AllFrames -> Nat]
      /\ baEnd' \in [AllFrames -> BOOLEAN]
      /\ own' \in [AllFrames -> {"HW", "SW"}]
      /\ ctrl' \in [AllFrames -> {"ok", "TXFAIL", "BAFAIL"}]
      /\ ahead' \in [AllFrames -> SUBSET AllFrames] /\ missed' \subseteq AllFrames
      /\ tried' \in [AllFrames -> Nat]
      /\ result' \in [AllFrames -> {"none", "ok", "failed"}]
      /\ sup'[f] = Idle /\ rix'[f] = 0 /\ own'[f] = "HW"
      /\ \A g \in AllFrames : g # f =>
           sup'[g] = sup[g] /\ rix'[g] = rix[g] /\ own'[g] = own[g] /\ ctrl'[g] = ctrl[g]
      /\ \A g \in AllFrames : f \notin ahead'[g] /\ ahead'[g] \subseteq ahead[g]
      /\ missed' = missed \ {f}
  BY <1>0, <1>1, RecycleFacts DEF IInv
<1>3. UNCHANGED <<txq, retryq, cabq, prev, cabLen, bars, avail, halt, intr, pc, ix>>
  BY <1>0 DEF counts, mac
<1>4. TypeOK'
  BY <1>0, <1>1, <1>2 DEF IInv, TypeOK, counts, cab, mac
<1>5. /\ \A p \in Queues : \A g \in Elems(txq[p]) : g \in AllFrames /\ g # f
      /\ \A w \in Vifs : \A g \in Elems(cabq[w]) : g \in AllFrames /\ g # f
      /\ \A g \in Elems(down') : g \in AllFrames /\ g # f /\ g \in Elems(down)
  BY <1>1, ElemsIn DEF IInv, TypeOK, AllFrames
<1>6. \A g \in AllFrames : g # f => (InTx(g)' <=> InTx(g)) /\ (InCab(g)' <=> InCab(g))
  BY <1>2, <1>3 DEF InTx, InCab
<1>7. Distinct'
  BY <1>1, <1>3 DEF IInv, Static, Distinct
<1>8. Located'
  <2>1. \A g \in AllFrames : sup'[g] # Idle =>
          g \in Elems(down') \/ g \in Elems(retryq) \/ InTx(g)' \/ InCab(g)'
    BY <1>1, <1>2, <1>6 DEF IInv, Static, Located
  <2>2. \A g \in Elems(down') :
          sup'[g] # Idle /\ g \notin Elems(retryq) /\ ~InTx(g)' /\ ~InCab(g)'
    BY <1>2, <1>5, <1>6 DEF IInv, Static, Located
  <2>3. \A p \in Queues : \A g \in Elems(txq[p]) :
          sup'[g] # Idle /\ sup'[g].queue = p /\ ~InCab(g)'
    BY <1>2, <1>5, <1>6 DEF IInv, Static, Located
  <2>4. \A w \in Vifs : \A g \in Elems(cabq[w]) : sup'[g] # Idle /\ sup'[g].vif = w /\ sup'[g].cab
    BY <1>2, <1>5 DEF IInv, Static, Located
  <2> QED
    BY <1>0, <1>3, <2>1, <2>2, <2>3, <2>4 DEF Located
<1>9. Contents'
  BY <1>1, <1>2, ZenonT(60) DEF IInv, Static, Contents, AllFrames
<1>10. DoneInTx'
  BY <1>2, <1>6 DEF IInv, Static, DoneInTx
<1>11. AheadQueued'
  <2>1. \A g \in AllFrames : \A h \in ahead'[g] : h \in AllFrames /\ h # f /\ h \in ahead[g]
    BY <1>2 DEF IInv, TypeOK
  <2>2. \A g \in AllFrames : \A h \in ahead'[g] : sup'[h] # Idle /\ InTx(h)'
    BY <1>0, <1>2, <1>6, <2>1 DEF IInv, Static, AheadQueued
  <2> QED
    BY <1>0, <1>3, <2>2 DEF AheadQueued
<1>12. \A p \in Queues : \A i \in DOMAIN txq[p] :
         /\ txq[p][i] \in AllFrames /\ own'[txq[p][i]] = own[txq[p][i]]
         /\ ctrl'[txq[p][i]] = ctrl[txq[p][i]]
         /\ ahead'[txq[p][i]] \subseteq ahead[txq[p][i]] /\ txq[p][i] # f
  BY <1>2, <1>5 DEF Elems
<1>13. DonePrefix'
  BY <1>3, <1>12 DEF IInv, Static, DonePrefix
<1>14. Stopped' /\ HaltedAtFailure'
  BY <1>3, <1>12 DEF IInv, Static, Stopped, HaltedAtFailure
<1>15. OrderKept'
  BY <1>2, <1>3, <1>12 DEF IInv, Static, OrderKept, Overtaken
<1>16. CountersAgree'
  <2>1. Accepted' = Accepted
    <3>1. \A g \in Frames : g \in Elems(down') <=> g \in Elems(down) /\ g # f
      BY <1>1
    <3>2. f \notin Accepted
      BY <1>1 DEF Accepted
    <3> QED
      BY <1>2, <3>1, <3>2 DEF Accepted, AllFrames
  <2>2. \A g \in Accepted : sup'[g] = sup[g]
    BY <1>1, <1>2 DEF Accepted, AllFrames
  <2>3. sup'[FwFrame] = sup[FwFrame]
    BY <1>1, <1>2 DEF AllFrames
  <2>4. /\ \A w \in Vifs : {g \in Accepted : sup[g].cab /\ sup[g].vif = w}
                            = {g \in Accepted' : sup'[g].cab /\ sup'[g].vif = w}
        /\ {g \in Accepted : sup[g].bar} = {g \in Accepted' : sup'[g].bar}
    BY <2>1, <2>2
  <2> QED
    BY <1>3, <2>3, <2>4 DEF IInv, Static, CountersAgree
<1>17. \A p \in Queues : Completed(p)' => Completed(p)
  <2> SUFFICES ASSUME NEW p \in Queues, txq[p] # <<>> PROVE Head(txq[p]) \in DOMAIN own /\ own'[Head(txq[p])] = own[Head(txq[p])]
    BY <1>3 DEF Completed
  <2>1. Head(txq[p]) \in Elems(txq[p])
    BY TailFacts DEF IInv, TypeOK
  <2> QED
    BY <1>2, <1>5, <2>1 DEF IInv, TypeOK
<1>18. Loop' /\ PrevLast'
  BY <1>0, <1>3 DEF IInv, Dynamic, Loop, PrevLast
<1>19. NoForgottenCompletion'
  BY <1>3, <1>17 DEF IInv, Dynamic, NoForgottenCompletion
<1>20. AmpduPrevLive'
  <2>1. \A p \in Queues : prev[p] # NoFrame => prev[p] \in Elems(txq[p]) /\ sup[prev[p]].queue = p
    BY <1>0 DEF IInv, Dynamic, AmpduPrevLive
  <2>2. \A p \in Queues : prev[p] # NoFrame => prev[p] \in Elems(txq[p]) /\ sup'[prev[p]].queue = p
    BY <1>2, <1>5, <2>1
  <2> QED
    BY <1>3, <2>2 DEF AmpduPrevLive
<1> QED
  BY <1>4, <1>7, <1>8, <1>9, <1>10, <1>11, <1>13, <1>14, <1>15, <1>16, <1>18, <1>19, <1>20
     DEF IInv, Static, Dynamic

\* The BlockAck of the firmware is queued.
LEMMA SendBaKeeps ==
  ASSUME IInv, SendBa
  PROVE  IInv'
<1> DEFINE f == FwFrame
           q == FwQueue
<1>0. /\ pc = "ba" /\ pc' = "host" /\ retryq = <<>> /\ Elems(retryq) = {} /\ avail
      /\ f \in AllFrames /\ f \notin Frames /\ q \in Queues
  BY TxAssumption, EmptyFacts DEF IInv, Dynamic, Loop, SendBa, AllFrames
<1>1. sup[f] = Idle /\ rix[f] = 0
  BY <1>0 DEF IInv, Static, CountersAgree, Contents
<1>2. /\ avail' = FALSE
      /\ sup' = [sup EXCEPT ![f] = BaSuper]
      /\ cnt' = [cnt EXCEPT ![f] = 1]
      /\ result' = [result EXCEPT ![f] = "none"]
      /\ txq' = [txq EXCEPT ![q] = Append(@, f)]
      /\ ahead' = [ahead EXCEPT ![f] = Elems(txq[q])]
      /\ AmpduEnd(q)
      /\ UNCHANGED <<down, retryq, cabq, rix, own, ctrl, cabLen, bars, cab, mac, ix,
                     missed, tried>>
  BY DEF SendBa, Follows
<1>3. own[f] = "HW" /\ \A p \in Queues : f \notin Elems(txq[p])
  BY <1>0, <1>1, Waiting
<1>4. BaSuper \in Superframe /\ BaSuper.queue = q /\ BaSuper.last = 0
  <2>1. [tries |-> 1, ampdu |-> FALSE] \in Rate
    BY DEF Rate
  <2>2. [i \in 0 .. MaxRates |-> [tries |-> 1, ampdu |-> FALSE]] \in [0 .. MaxRates -> Rate]
    BY <2>1
  <2>3. 0 \in Vifs /\ 0 \in 0 .. MaxRates /\ 0 \in Nat
    BY TxAssumption DEF Vifs
  <2> QED
    BY <1>0, <2>2, <2>3 DEF BaSuper, Superframe
<1> HIDE DEF f, q
<1>5. /\ UNCHANGED <<own, ctrl, halt, missed, down, retryq, cabq, rix, intr>>
      /\ sup'[f] = BaSuper /\ sup'[f] # Idle
      /\ \A g \in AllFrames : g # f => ahead'[g] = ahead[g] /\ sup'[g] = sup[g]
      /\ ahead'[f] = Elems(txq[q])
  BY <1>0, <1>2, <1>4, TxAssumption DEF mac, IInv, TypeOK
<1>6. \A g \in AllFrames : f \notin ahead[g]
  BY <1>1 DEF IInv, Static, AheadQueued
<1>7. /\ txq' \in [Queues -> Seq(AllFrames)]
      /\ \A p \in Queues : p # q => txq'[p] = txq[p]
      /\ Elems(txq'[q]) = Elems(txq[q]) \cup {f}
      /\ \A p \in Queues : Inj(txq'[p])
      /\ \A p \in Queues : Completed(p)' => Completed(p)
      /\ DonePrefix' /\ Stopped' /\ HaltedAtFailure' /\ OrderKept'
  <2>1. txq' = [txq EXCEPT ![q] = Append(@, f)]
    BY <1>2
  <2> QED
    BY <1>0, <2>1, <1>3, <1>5, <1>6, Joins DEF IInv
<1>8. /\ \A p \in Queues : Elems(txq[p]) \subseteq AllFrames
      /\ \A w \in Vifs : \A g \in Elems(cabq[w]) : g \in AllFrames /\ g # f
      /\ \A g \in Elems(down) : g \in AllFrames /\ g # f
  BY <1>0, ElemsIn DEF IInv, TypeOK, AllFrames
<1>9. /\ InTx(f)'
      /\ \A g \in AllFrames : g # f => (InCab(g)' <=> InCab(g))
      /\ \A g \in AllFrames : g # f /\ sup[g] # Idle => (InTx(g)' <=> InTx(g))
  <2>1. InTx(f)'
    BY <1>4, <1>5, <1>7 DEF InTx
  <2>2. \A g \in AllFrames : g # f => (InCab(g)' <=> InCab(g))
    BY <1>5 DEF InCab
  <2>3. \A g \in AllFrames : g # f /\ sup[g] # Idle => (InTx(g)' <=> InTx(g))
    BY <1>5, <1>7, JobFields DEF InTx, IInv
  <2> QED
    BY <2>1, <2>2, <2>3
<1>10. Distinct'
  BY <1>5, <1>7 DEF IInv, Static, Distinct
<1>11. Located'
  <2>1. \A g \in AllFrames : sup'[g] # Idle =>
          g \in Elems(down) \/ g \in Elems(retryq) \/ InTx(g)' \/ InCab(g)'
    BY <1>5, <1>9 DEF IInv, Static, Located
  <2>2. \A g \in Elems(down) :
          sup'[g] # Idle /\ g \notin Elems(retryq) /\ ~InTx(g)' /\ ~InCab(g)'
    BY <1>5, <1>8, <1>9 DEF IInv, Static, Located
  <2>3. ASSUME NEW p \in Queues, NEW g \in Elems(txq'[p])
        PROVE  sup'[g] # Idle /\ sup'[g].queue = p /\ ~InCab(g)'
    <3>1. CASE g = f
      <4>1. p = q
        BY <1>3, <1>7, <2>3, <3>1
      <4>2. BaSuper.vif \in Vifs
        BY <1>4 DEF Superframe
      <4>3. ~InCab(f)'
        BY <1>5, <1>8, <4>2 DEF InCab
      <4> QED
        BY <1>4, <1>5, <3>1, <4>1, <4>3
    <3>2. CASE g # f
      <4>1. g \in Elems(txq[p]) /\ g \in AllFrames
        BY <1>7, <1>8, <2>3, <3>2
      <4>2. sup[g] # Idle /\ sup[g].queue = p /\ ~InCab(g)
        BY <4>1 DEF IInv, Static, Located
      <4> QED
        BY <1>5, <1>9, <3>2, <4>1, <4>2
    <3> QED
      BY <3>1, <3>2
  <2>4. \A w \in Vifs : \A g \in Elems(cabq[w]) : sup'[g] # Idle /\ sup'[g].vif = w /\ sup'[g].cab
    BY <1>5, <1>8 DEF IInv, Static, Located
  <2> QED
    BY <1>0, <1>5, <2>1, <2>2, <2>3, <2>4 DEF Located
<1>12. Contents'
  <2>1. \A g \in AllFrames : IF sup'[g] = Idle THEN rix[g] = 0 ELSE rix[g] <= sup'[g].last
    <3> SUFFICES ASSUME NEW g \in AllFrames
                 PROVE  IF sup'[g] = Idle THEN rix[g] = 0 ELSE rix[g] <= sup'[g].last
      OBVIOUS
    <3>1. CASE g = f
      BY <1>1, <1>4, <1>5, <3>1
    <3>2. CASE g # f
      BY <1>5, <3>2 DEF IInv, Static, Contents
    <3> QED
      BY <3>1, <3>2
  <2> QED
    BY <1>5, <2>1 DEF Contents, f
<1>13. DoneInTx'
  BY <1>3, <1>5, <1>9 DEF IInv, Static, DoneInTx
<1>14. AheadQueued'
  <2>1. \A h \in Elems(txq[q]) : sup'[h] # Idle /\ InTx(h)'
    BY <1>0, <1>3, <1>5, <1>8, <1>9 DEF IInv, Static, Located, InTx
  <2>2. \A g \in AllFrames : ahead[g] \subseteq AllFrames
    BY DEF IInv, TypeOK
  <2>3. \A g \in AllFrames : \A h \in ahead[g] : sup'[h] # Idle /\ InTx(h)'
    BY <1>0, <1>5, <1>6, <1>9, <2>2 DEF IInv, Static, AheadQueued
  <2>4. \A g \in AllFrames : \A h \in ahead'[g] : sup'[h] # Idle /\ InTx(h)'
    BY <1>5, <2>1, <2>3
  <2> QED
    BY <1>0, <1>5, <2>4 DEF AheadQueued
<1>15. CountersAgree'
  <2>1. Accepted' = Accepted /\ \A g \in Accepted : sup'[g] = sup[g]
    <3>1. \A g \in Frames : g \in AllFrames /\ g # f
      BY <1>0 DEF AllFrames
    <3> QED
      BY <1>5, <3>1 DEF Accepted
  <2>2. /\ \A w \in Vifs : {g \in Accepted : sup[g].cab /\ sup[g].vif = w}
                            = {g \in Accepted' : sup'[g].cab /\ sup'[g].vif = w}
        /\ {g \in Accepted : sup[g].bar} = {g \in Accepted' : sup'[g].bar}
    BY <2>1
  <2>3. avail' = (sup'[FwFrame] = Idle) /\ cabLen' = cabLen /\ bars' = bars
    BY <1>2, <1>5 DEF f
  <2> QED
    BY <2>2, <2>3 DEF IInv, Static, CountersAgree
<1>16. /\ baEnd' \in [AllFrames -> BOOLEAN] /\ prev' \in [Queues -> AllFrames \cup {NoFrame}]
       /\ prev'[q] = NoFrame /\ \A p \in Queues : p # q => prev'[p] = prev[p]
  <2>1. baEnd' \in [AllFrames -> BOOLEAN]
    BY <1>2 DEF AmpduEnd, IInv, TypeOK
  <2>2. prev' = [prev EXCEPT ![q] = NoFrame]
    BY <1>2 DEF AmpduEnd
  <2> QED
    BY <1>0, <2>1, <2>2 DEF IInv, TypeOK
<1>17. TypeOK'
  <2>1. ahead' \in [AllFrames -> SUBSET AllFrames]
    BY <1>0, <1>2, <1>8 DEF IInv, TypeOK
  <2>2. /\ sup' \in [AllFrames -> Superframe \cup {Idle}] /\ cnt' \in [AllFrames -> Nat]
        /\ result' \in [AllFrames -> {"none", "ok", "failed"}]
    BY <1>2, <1>4 DEF IInv, TypeOK
  <2>3. avail' \in BOOLEAN
    BY <1>2
  <2> QED
    BY <1>0, <1>2, <1>7, <1>16, <2>1, <2>2, <2>3 DEF IInv, TypeOK, cab, mac
<1>18. Loop' /\ PrevLast'
  BY <1>0, <1>5 DEF IInv, Dynamic, Loop, PrevLast
<1>19. NoForgottenCompletion'
  BY <1>0, <1>5, <1>7 DEF IInv, Dynamic, NoForgottenCompletion
<1>20. AmpduPrevLive'
  <2>1. \A p \in Queues : prev[p] # NoFrame => prev[p] \in Elems(txq[p]) /\ sup[prev[p]].queue = p
    BY <1>0 DEF IInv, Dynamic, AmpduPrevLive
  <2>2. ASSUME NEW p \in Queues, prev'[p] # NoFrame
        PROVE  prev'[p] \in Elems(txq'[p]) /\ sup'[prev'[p]].queue = p
    <3>1. p # q /\ prev'[p] = prev[p] /\ prev[p] \in Elems(txq[p]) /\ prev[p] \in AllFrames
      BY <1>8, <1>16, <2>1, <2>2
    <3>2. prev[p] # f
      BY <1>3, <3>1
    <3> QED
      BY <1>5, <1>7, <2>1, <2>2, <3>1, <3>2
  <2> QED
    BY <2>2 DEF AmpduPrevLive
<1> QED
  BY <1>7, <1>10, <1>11, <1>12, <1>13, <1>14, <1>15, <1>17, <1>18, <1>19, <1>20
     DEF IInv, Static, Dynamic

\* The host sends a frame.
LEMMA ArriveKeeps ==
  ASSUME IInv, NEW f \in Frames, NEW s \in Supers, Arrive(f, s)
  PROVE  IInv'
<1>0. /\ sup[f] = Idle /\ f \in AllFrames /\ f # FwFrame /\ s \in Superframe /\ s # Idle
      /\ sup' = [sup EXCEPT ![f] = s]
      /\ down' = Append(down, f)
      /\ result' = [result EXCEPT ![f] = "none"]
      /\ UNCHANGED <<txq, retryq, cabq, rix, cnt, baEnd, own, ctrl, prev, counts, cab,
                     mac, pc, ix, ahead, missed, tried>>
  BY TxAssumption DEF Arrive, AllFrames
<1>1. /\ f \notin Elems(down) /\ f \notin Elems(retryq) /\ rix[f] = 0 /\ own[f] = "HW"
      /\ \A p \in Queues : f \notin Elems(txq[p])
      /\ \A v \in Vifs : f \notin Elems(cabq[v])
      /\ \A g \in AllFrames : f \notin ahead[g]
  <2>1. own[f] = "HW" /\ \A p \in Queues : f \notin Elems(txq[p])
    BY <1>0, Waiting
  <2>2. f \notin Elems(down) /\ f \notin Elems(retryq) /\ rix[f] = 0
    BY <1>0 DEF IInv, Static, Located, Contents
  <2>3. \A v \in Vifs : f \notin Elems(cabq[v])
    BY <1>0 DEF IInv, Static, Located
  <2>4. \A g \in AllFrames : f \notin ahead[g]
    BY <1>0 DEF IInv, Static, AheadQueued
  <2> QED
    BY <2>1, <2>2, <2>3, <2>4
<1>2. /\ down' \in Seq(Frames) /\ Elems(down') = Elems(down) \cup {f} /\ Inj(down')
  BY <1>0, <1>1, AppendFacts DEF IInv, TypeOK, Static, Distinct
<1>3. /\ sup'[f] = s /\ \A g \in AllFrames : g # f => sup'[g] = sup[g]
      /\ UNCHANGED <<txq, retryq, cabq, rix, own, ctrl, cabLen, bars, avail, halt, intr,
                     prev, pc, ix, ahead, missed>>
  BY <1>0 DEF IInv, TypeOK, counts, mac
<1>4. TypeOK'
  <2>1. /\ sup' \in [AllFrames -> Superframe \cup {Idle}]
        /\ result' \in [AllFrames -> {"none", "ok", "failed"}]
    BY <1>0 DEF IInv, TypeOK
  <2> QED
    BY <1>0, <1>2, <2>1 DEF IInv, TypeOK, counts, cab, mac
<1>5. /\ \A p \in Queues : \A g \in Elems(txq[p]) : g \in AllFrames /\ g # f
      /\ \A w \in Vifs : \A g \in Elems(cabq[w]) : g \in AllFrames /\ g # f
      /\ \A g \in Elems(retryq) : g \in AllFrames /\ g # f
      /\ \A g \in Elems(down) : g \in AllFrames /\ g # f
  BY <1>1, ElemsIn DEF IInv, TypeOK, AllFrames
<1>6. \A g \in AllFrames : g # f => (InTx(g)' <=> InTx(g)) /\ (InCab(g)' <=> InCab(g))
  BY <1>3 DEF InTx, InCab
<1>7. ~InTx(f)' /\ ~InCab(f)'
  <2>1. s.queue \in Queues /\ s.vif \in Vifs
    BY <1>0 DEF Superframe
  <2> QED
    BY <1>1, <1>3, <2>1 DEF InTx, InCab
<1>8. Distinct'
  BY <1>2, <1>3 DEF IInv, Static, Distinct
<1>9. Located'
  <2>1. \A g \in AllFrames : sup'[g] # Idle =>
          g \in Elems(down') \/ g \in Elems(retryq) \/ InTx(g)' \/ InCab(g)'
    BY <1>2, <1>3, <1>6 DEF IInv, Static, Located
  <2>2. \A g \in Elems(down') :
          sup'[g] # Idle /\ g \notin Elems(retryq) /\ ~InTx(g)' /\ ~InCab(g)'
    BY <1>0, <1>1, <1>2, <1>3, <1>5, <1>6, <1>7 DEF IInv, Static, Located
  <2>3. \A p \in Queues : \A g \in Elems(txq[p]) :
          sup'[g] # Idle /\ sup'[g].queue = p /\ ~InCab(g)'
    BY <1>3, <1>5, <1>6 DEF IInv, Static, Located
  <2>4. \A w \in Vifs : \A g \in Elems(cabq[w]) : sup'[g] # Idle /\ sup'[g].vif = w /\ sup'[g].cab
    BY <1>3, <1>5 DEF IInv, Static, Located
  <2>5. \A g \in Elems(retryq) : sup'[g] # Idle /\ ~InTx(g)' /\ ~InCab(g)'
    BY <1>3, <1>5, <1>6 DEF IInv, Static, Located
  <2> QED
    BY <1>3, <2>1, <2>2, <2>3, <2>4, <2>5 DEF Located
<1>10. Contents'
  <2>1. s.last \in Nat
    BY <1>0 DEF Superframe
  <2>2. \A g \in AllFrames : IF sup'[g] = Idle THEN rix[g] = 0 ELSE rix[g] <= sup'[g].last
    <3> SUFFICES ASSUME NEW g \in AllFrames
                 PROVE  IF sup'[g] = Idle THEN rix[g] = 0 ELSE rix[g] <= sup'[g].last
      OBVIOUS
    <3>1. CASE g = f
      BY <1>0, <1>1, <1>3, <2>1, <3>1
    <3>2. CASE g # f
      BY <1>3, <3>2 DEF IInv, Static, Contents
    <3> QED
      BY <3>1, <3>2
  <2>3. sup'[FwFrame] = sup[FwFrame]
    BY <1>0, <1>3 DEF AllFrames
  <2> QED
    BY <1>3, <2>2, <2>3 DEF IInv, Static, Contents
<1>11. DoneInTx'
  BY <1>1, <1>3, <1>6 DEF IInv, Static, DoneInTx
<1>12. AheadQueued'
  <2>1. \A g \in AllFrames : \A h \in ahead[g] : h \in AllFrames /\ h # f
    BY <1>1 DEF IInv, TypeOK
  <2>2. \A g \in AllFrames : \A h \in ahead[g] : sup'[h] # Idle /\ (h \in Elems(retryq) \/ InTx(h)')
    BY <1>3, <1>6, <2>1 DEF IInv, Static, AheadQueued
  <2> QED
    BY <1>3, <2>2 DEF IInv, Static, AheadQueued
<1>13. DonePrefix' /\ Stopped' /\ HaltedAtFailure' /\ OrderKept'
  BY <1>3 DEF IInv, Static, DonePrefix, Stopped, HaltedAtFailure, OrderKept, Overtaken
<1>14. CountersAgree'
  <2>1. Accepted' = Accepted /\ \A g \in Accepted : sup'[g] = sup[g]
    BY <1>0, <1>2, <1>3 DEF Accepted, AllFrames
  <2>2. /\ \A w \in Vifs : {g \in Accepted : sup[g].cab /\ sup[g].vif = w}
                            = {g \in Accepted' : sup'[g].cab /\ sup'[g].vif = w}
        /\ {g \in Accepted : sup[g].bar} = {g \in Accepted' : sup'[g].bar}
    BY <2>1
  <2>3. sup'[FwFrame] = sup[FwFrame]
    BY <1>0, <1>3 DEF AllFrames
  <2> QED
    BY <1>3, <2>2, <2>3 DEF IInv, Static, CountersAgree
<1>15. Loop'
  BY <1>3, <1>5 DEF IInv, Dynamic, Loop
<1>16. PrevLast' /\ NoForgottenCompletion'
  BY <1>3 DEF IInv, Dynamic, PrevLast, NoForgottenCompletion, Completed
<1>17. AmpduPrevLive'
  BY <1>3, <1>5 DEF IInv, Dynamic, AmpduPrevLive
<1> QED
  BY <1>4, <1>8, <1>9, <1>10, <1>11, <1>12, <1>13, <1>14, <1>15, <1>16, <1>17
     DEF IInv, Static, Dynamic

-----------------------------------------------------------------------------
(* Completions *)

\* wlan_tx_consume_retry() stays within the rates of the frame.
LEMMA ConsumeFacts ==
  ASSUME TypeOK, Contents, NEW f \in AllFrames, sup[f] # Idle, ConsumeRetry(f)
  PROVE  /\ rix' \in [AllFrames -> 0 .. MaxRates] /\ cnt' \in [AllFrames -> Nat]
         /\ rix'[f] <= sup[f].last
         /\ own' \in [AllFrames -> {"HW", "SW"}]
         /\ ctrl' \in [AllFrames -> {"ok", "TXFAIL", "BAFAIL"}]
         /\ own'[f] = "HW"
         /\ \A g \in AllFrames : g # f =>
              rix'[g] = rix[g] /\ own'[g] = own[g] /\ ctrl'[g] = ctrl[g]
<1>1. sup[f].last \in 0 .. MaxRates /\ rix[f] \in 0 .. MaxRates /\ rix[f] <= sup[f].last
      /\ MaxRates \in Nat
  BY JobFields, TxAssumption DEF TypeOK, Contents
<1>2. /\ rix' \in [AllFrames -> 0 .. MaxRates] /\ cnt' \in [AllFrames -> Nat]
      /\ rix'[f] <= sup[f].last
      /\ \A g \in AllFrames : g # f => rix'[g] = rix[g]
  <2>1. CASE RateSpent(f)
    <3>1. rix' = [rix EXCEPT ![f] = rix[f] + 1] /\ cnt' = [cnt EXCEPT ![f] = 1]
      BY <2>1 DEF ConsumeRetry
    <3>2. rix[f] # sup[f].last
      BY <2>1 DEF ConsumeRetry, AllSpent
    <3>3. rix[f] + 1 \in 0 .. MaxRates /\ rix[f] + 1 <= sup[f].last
      BY <1>1, <3>2
    <3> QED
      BY <3>1, <3>3 DEF TypeOK
  <2>2. CASE ~RateSpent(f)
    <3>1. rix' = rix /\ cnt' = [cnt EXCEPT ![f] = cnt[f] + 1]
      BY <2>2 DEF ConsumeRetry
    <3> QED
      BY <1>1, <3>1, SMTT(30) DEF TypeOK
  <2> QED
    BY <2>1, <2>2
<1>3. /\ own' \in [AllFrames -> {"HW", "SW"}]
      /\ ctrl' \in [AllFrames -> {"ok", "TXFAIL", "BAFAIL"}]
      /\ own'[f] = "HW"
      /\ \A g \in AllFrames : g # f => own'[g] = own[g] /\ ctrl'[g] = ctrl[g]
  BY DEF ConsumeRetry, TypeOK
<1> QED
  BY <1>2, <1>3

\* The packet handed to wlan_tx_status() and the rest of its queue.
LEMMA HeadFacts ==
  ASSUME IInv, pc = "txc", Completed(ix), NEW f, f = Head(txq[ix])
  PROVE  /\ ix \in Queues /\ f \in AllFrames /\ f \in Elems(txq[ix])
         /\ 1 \in DOMAIN txq[ix] /\ f = txq[ix][1] /\ own[f] = "SW"
         /\ sup[f] # Idle /\ sup[f].queue = ix
         /\ f \notin Elems(down) /\ f \notin Elems(retryq)
         /\ \A v \in Vifs : f \notin Elems(cabq[v])
         /\ \A p \in Queues : p # ix => f \notin Elems(txq[p])
<1>1. ix \in Queues /\ txq[ix] \in Seq(AllFrames) /\ txq[ix] # <<>> /\ own[f] = "SW"
  BY DEF IInv, Dynamic, Loop, TypeOK, Completed
<1>2. f \in AllFrames /\ f \in Elems(txq[ix]) /\ 1 \in DOMAIN txq[ix] /\ f = txq[ix][1]
  BY <1>1, TailFacts
<1>3. sup[f] # Idle /\ sup[f].queue = ix /\ InTx(f) /\ ~InCab(f)
  BY <1>1, <1>2 DEF IInv, Static, Located, InTx
<1>4. f \notin Elems(down) /\ f \notin Elems(retryq)
  BY <1>3 DEF IInv, Static, Located
<1>5. \A v \in Vifs : f \notin Elems(cabq[v])
  BY <1>3 DEF IInv, Static, Located, InCab
<1>6. \A p \in Queues : p # ix => f \notin Elems(txq[p])
  BY <1>3 DEF IInv, Static, Located
<1> QED
  BY <1>1, <1>2, <1>3, <1>4, <1>5, <1>6

\* A frame that failed goes back to the MAC where it is.
LEMMA TxRearmKeeps ==
  ASSUME IInv, TxRearm
  PROVE  IInv'
<1> DEFINE f == Head(txq[ix])
<1>0. /\ pc = "txc" /\ Completed(ix) /\ ctrl[f] = "TXFAIL" /\ ConsumeRetry(f)
      /\ halt' = [halt EXCEPT ![ix] = FALSE] /\ pc' = "reset"
      /\ UNCHANGED <<queues, sup, baEnd, prev, counts, cab, intr, ix, hist>>
  BY DEF TxRearm, TxUnstuck
<1>1. /\ ix \in Queues /\ f \in AllFrames /\ f \in Elems(txq[ix])
      /\ 1 \in DOMAIN txq[ix] /\ f = txq[ix][1] /\ own[f] = "SW"
      /\ sup[f] # Idle /\ sup[f].queue = ix
      /\ \A p \in Queues : p # ix => f \notin Elems(txq[p])
  BY <1>0, HeadFacts
<1> HIDE DEF f
<1>2. /\ rix' \in [AllFrames -> 0 .. MaxRates] /\ cnt' \in [AllFrames -> Nat]
      /\ rix'[f] <= sup[f].last
      /\ own' \in [AllFrames -> {"HW", "SW"}]
      /\ ctrl' \in [AllFrames -> {"ok", "TXFAIL", "BAFAIL"}]
      /\ own'[f] = "HW"
      /\ \A g \in AllFrames : g # f =>
           rix'[g] = rix[g] /\ own'[g] = own[g] /\ ctrl'[g] = ctrl[g]
  BY <1>0, <1>1, ConsumeFacts DEF IInv, Static
<1>3. UNCHANGED <<down, txq, retryq, cabq, sup, prev, cabLen, bars, avail, intr, ix, ahead, missed>>
  BY <1>0 DEF queues, counts, hist
<1>4. TypeOK'
  <2>1. halt' \in [Queues -> BOOLEAN]
    BY <1>0 DEF IInv, TypeOK
  <2> QED
    BY <1>0, <1>2, <2>1 DEF IInv, TypeOK, queues, counts, cab, hist
<1>5. Distinct' /\ Located' /\ AheadQueued' /\ CountersAgree' /\ OrderKept'
  BY <1>3 DEF IInv, Static, Distinct, Located, InTx, InCab, AheadQueued, CountersAgree,
              Accepted, OrderKept, Overtaken
<1>6. Contents'
  BY <1>1, <1>2, <1>3 DEF IInv, Static, Contents
<1>7. DoneInTx'
  BY <1>2, <1>3 DEF IInv, Static, DoneInTx, InTx
\* Behind a frame that failed nothing is done.
<1>8. \A i \in DOMAIN txq[ix] : own'[txq[ix][i]] = "HW"
  <2> SUFFICES ASSUME NEW i \in DOMAIN txq[ix] PROVE own'[txq[ix][i]] = "HW"
    OBVIOUS
  <2>1. txq[ix] \in Seq(AllFrames) /\ txq[ix][i] \in AllFrames
    BY <1>1, ElementOfSeq, LenProperties DEF IInv, TypeOK
  <2>2. CASE txq[ix][i] = f
    BY <1>2, <2>2
  <2>3. CASE txq[ix][i] # f
    <3>1. i > 1
      BY <1>1, <2>1, <2>3, LenProperties
    <3>2. own[txq[ix][i]] # "SW"
      BY <1>0, <1>1, <3>1 DEF IInv, Static, DonePrefix
    <3> QED
      BY <1>2, <2>1, <2>3, <3>2 DEF IInv, TypeOK
  <2> QED
    BY <2>2, <2>3
<1>9. \A p \in Queues : p # ix => \A i \in DOMAIN txq[p] :
        own'[txq[p][i]] = own[txq[p][i]] /\ ctrl'[txq[p][i]] = ctrl[txq[p][i]]
  <2>1. \A p \in Queues : Elems(txq[p]) \subseteq AllFrames
    BY ElemsIn DEF IInv, TypeOK
  <2>2. \A p \in Queues : p # ix => \A i \in DOMAIN txq[p] : txq[p][i] \in AllFrames /\ txq[p][i] # f
    BY <1>1, <2>1 DEF Elems
  <2> QED
    BY <1>2, <2>2
<1>10. DonePrefix'
  <2> SUFFICES ASSUME NEW p \in Queues, NEW i \in DOMAIN txq[p], NEW j \in DOMAIN txq[p],
                      i < j, own'[txq[p][j]] = "SW"
               PROVE  own'[txq[p][i]] = "SW" /\ ctrl'[txq[p][i]] # "TXFAIL"
    BY <1>3 DEF DonePrefix
  <2>1. p # ix
    BY <1>8
  <2> QED
    BY <1>9, <2>1 DEF IInv, Static, DonePrefix
<1>11. HaltedAtFailure'
  <2> SUFFICES ASSUME NEW p \in Queues, halt'[p]
               PROVE  \E i \in DOMAIN txq[p] :
                        /\ own'[txq[p][i]] = "SW" /\ ctrl'[txq[p][i]] = "TXFAIL"
                        /\ \A j \in DOMAIN txq[p] :
                             own'[txq[p][j]] = IF j <= i THEN "SW" ELSE "HW"
    BY <1>3 DEF HaltedAtFailure
  <2>1. p # ix /\ halt[p]
    BY <1>0, <1>1 DEF IInv, TypeOK
  <2> QED
    BY <1>9, <2>1 DEF IInv, Static, HaltedAtFailure
<1>15. Stopped'
  <2> SUFFICES ASSUME NEW p \in Queues, NEW i \in DOMAIN txq[p],
                      own'[txq[p][i]] = "SW", ctrl'[txq[p][i]] = "TXFAIL"
               PROVE  halt'[p]
    BY <1>3 DEF Stopped
  <2>1. p # ix
    BY <1>8
  <2>2. halt[p]
    BY <1>9, <2>1 DEF IInv, Static, Stopped
  <2> QED
    BY <1>0, <2>1, <2>2 DEF IInv, TypeOK
<1>12. Loop' /\ PrevLast'
  BY <1>0, <1>1, <1>3 DEF IInv, Dynamic, Loop, PrevLast
<1>13. NoForgottenCompletion'
  <2> SUFFICES ASSUME NEW p \in Queues, txq[p] # <<>>, own'[Head(txq[p])] = "SW", ~intr
               PROVE  ix > p
    BY <1>0, <1>3 DEF NoForgottenCompletion, Completed
  <2>1. Head(txq[p]) = txq[p][1] /\ 1 \in DOMAIN txq[p]
    BY TailFacts DEF IInv, TypeOK
  <2>2. p # ix
    BY <1>8, <2>1
  <2>3. Completed(p)
    BY <1>9, <2>1, <2>2 DEF Completed
  <2> QED
    BY <1>0, <1>1, <2>2, <2>3 DEF IInv, Dynamic, NoForgottenCompletion, Queues
<1>14. AmpduPrevLive'
  BY <1>0, <1>3 DEF IInv, Dynamic, AmpduPrevLive
<1> QED
  BY <1>4, <1>5, <1>6, <1>7, <1>10, <1>11, <1>12, <1>13, <1>14, <1>15 DEF IInv, Static, Dynamic

\* A packet the block ack did not cover moves to tx_retry.
LEMMA TxRetryLaterKeeps ==
  ASSUME IInv, TxRetryLater
  PROVE  IInv'
<1> DEFINE f == Head(txq[ix])
<1>0. /\ pc = "txc" /\ Completed(ix) /\ ctrl[f] = "BAFAIL" /\ ConsumeRetry(f) /\ UnlinkHead
      /\ retryq' = Append(retryq, f) /\ missed' = missed \cup {f}
      /\ UNCHANGED <<down, cabq, sup, baEnd, prev, counts, cab, mac, pc, ix,
                     ahead, tried, result>>
  BY DEF TxRetryLater
<1>1. /\ ix \in Queues /\ f \in AllFrames /\ f \in Elems(txq[ix])
      /\ sup[f] # Idle /\ sup[f].queue = ix
      /\ f \notin Elems(down) /\ f \notin Elems(retryq)
      /\ \A v \in Vifs : f \notin Elems(cabq[v])
      /\ \A p \in Queues : p # ix => f \notin Elems(txq[p])
  BY <1>0, HeadFacts
<1>2. /\ rix' \in [AllFrames -> 0 .. MaxRates] /\ cnt' \in [AllFrames -> Nat]
      /\ rix'[f] <= sup[f].last
      /\ own' \in [AllFrames -> {"HW", "SW"}]
      /\ ctrl' \in [AllFrames -> {"ok", "TXFAIL", "BAFAIL"}]
      /\ own'[f] = "HW"
      /\ \A g \in AllFrames : g # f =>
           rix'[g] = rix[g] /\ own'[g] = own[g] /\ ctrl'[g] = ctrl[g]
  BY <1>0, <1>1, ConsumeFacts DEF IInv, Static
<1>3. UNCHANGED <<down, cabq, sup, prev, cabLen, bars, avail, halt, intr, pc, ix, ahead>>
  BY <1>0 DEF counts, mac
<1>4. /\ txq' \in [Queues -> Seq(AllFrames)]
      /\ \A p \in Queues : p # ix => txq'[p] = txq[p]
      /\ Elems(txq'[ix]) = Elems(txq[ix]) \ {f}
      /\ \A p \in Queues : Inj(txq'[p]) /\ f \notin Elems(txq'[p])
      /\ \A p \in Queues : Completed(p)' => Completed(p)
      /\ DonePrefix' /\ Stopped' /\ HaltedAtFailure' /\ OrderKept'
  <2>1. ctrl[f] # "TXFAIL" /\ halt' = halt
    BY <1>0, <1>3
  <2>2. \A g \in AllFrames : g # f =>
          own'[g] = own[g] /\ ctrl'[g] = ctrl[g] /\ ahead'[g] \subseteq ahead[g]
    BY <1>2, <1>3
  <2>3. \A g \in missed : g # f => g \in missed'
    BY <1>0
  <2> QED
    BY <1>0, <1>1, <2>1, <2>2, <2>3, Leaves DEF IInv
<1> HIDE DEF f
<1>5. /\ retryq' \in Seq(AllFrames) /\ Elems(retryq') = Elems(retryq) \cup {f} /\ Inj(retryq')
  BY <1>0, <1>1, AppendFacts DEF IInv, TypeOK, Static, Distinct
<1>6. TypeOK'
  BY <1>0, <1>1, <1>2, <1>4, <1>5 DEF IInv, TypeOK, counts, cab, mac
<1>7. /\ \A p \in Queues : \A g \in Elems(txq'[p]) : g \in AllFrames /\ g # f /\ g \in Elems(txq[p])
      /\ \A w \in Vifs : \A g \in Elems(cabq[w]) : g \in AllFrames /\ g # f
      /\ \A g \in Elems(down) : g \in AllFrames /\ g # f
      /\ \A g \in Elems(retryq) : g \in AllFrames /\ g # f
  <2>1. \A p \in Queues : Elems(txq'[p]) \subseteq AllFrames
    BY <1>4, ElemsIn
  <2>2. \A w \in Vifs : Elems(cabq[w]) \subseteq AllFrames
    BY ElemsIn DEF IInv, TypeOK, AllFrames
  <2>3. Elems(down) \subseteq AllFrames /\ Elems(retryq) \subseteq AllFrames
    BY ElemsIn DEF IInv, TypeOK, AllFrames
  <2> QED
    BY <1>1, <1>4, <2>1, <2>2, <2>3
<1>8. /\ \A g \in AllFrames : sup[g] # Idle => (InTx(g)' <=> InTx(g) /\ g # f)
      /\ \A g : InCab(g)' <=> InCab(g)
  <2>1. \A g : InCab(g)' <=> InCab(g)
    BY <1>3 DEF InCab
  <2>2. \A g \in AllFrames : sup[g] # Idle => (InTx(g)' <=> InTx(g) /\ g # f)
    BY <1>1, <1>3, <1>4, JobFields DEF InTx, IInv
  <2> QED
    BY <2>1, <2>2
<1>9. Distinct'
  BY <1>3, <1>4, <1>5 DEF IInv, Static, Distinct
<1>10. Located'
  <2>1. \A g \in AllFrames : sup[g] # Idle =>
          g \in Elems(down) \/ g \in Elems(retryq') \/ InTx(g)' \/ InCab(g)
    BY <1>5, <1>8 DEF IInv, Static, Located
  <2>2. \A g \in Elems(down) :
          sup[g] # Idle /\ g \notin Elems(retryq') /\ ~InTx(g)' /\ ~InCab(g)
    BY <1>5, <1>7, <1>8 DEF IInv, Static, Located
  <2>3. \A g \in Elems(retryq') : sup[g] # Idle /\ ~InTx(g)' /\ ~InCab(g)
    <3>1. ~InCab(f)
      BY <1>1, JobFields DEF IInv, InCab
    <3> QED
      BY <1>1, <1>5, <1>7, <1>8, <3>1 DEF IInv, Static, Located
  <2>4. \A p \in Queues : \A g \in Elems(txq'[p]) : sup[g] # Idle /\ sup[g].queue = p /\ ~InCab(g)
    BY <1>7 DEF IInv, Static, Located
  <2>5. \A w \in Vifs : \A g \in Elems(cabq[w]) : sup[g] # Idle /\ sup[g].vif = w /\ sup[g].cab
    BY DEF IInv, Static, Located
  <2> QED
    BY <1>3, <1>8, <2>1, <2>2, <2>3, <2>4, <2>5 DEF Located
<1>11. Contents'
  BY <1>1, <1>2, <1>3 DEF IInv, Static, Contents
<1>12. DoneInTx'
  BY <1>2, <1>3, <1>8 DEF IInv, Static, DoneInTx
<1>13. AheadQueued'
  <2>1. \A g \in AllFrames : ahead[g] \subseteq AllFrames
    BY DEF IInv, TypeOK
  <2>2. \A g \in AllFrames : \A h \in ahead[g] : sup[h] # Idle /\ (h \in Elems(retryq') \/ InTx(h)')
    BY <1>5, <1>8, <2>1 DEF IInv, Static, AheadQueued
  <2>3. Elems(retryq') \subseteq missed'
    BY <1>0, <1>5 DEF IInv, Static, AheadQueued
  <2> QED
    BY <1>3, <2>2, <2>3 DEF AheadQueued
<1>14. CountersAgree'
  BY <1>3 DEF IInv, Static, CountersAgree, Accepted
<1>15. Loop'
  BY <1>0, <1>1, <1>3, <1>5 DEF IInv, Dynamic, Loop
<1>16. PrevLast'
  BY <1>0, <1>3 DEF PrevLast
<1>17. NoForgottenCompletion'
  BY <1>0, <1>3, <1>4 DEF IInv, Dynamic, NoForgottenCompletion
<1>18. AmpduPrevLive'
  BY <1>0, <1>3, <1>4 DEF IInv, Dynamic, AmpduPrevLive
<1> QED
  BY <1>4, <1>6, <1>9, <1>10, <1>11, <1>12, <1>13, <1>14, <1>15, <1>16, <1>17, <1>18
     DEF IInv, Static, Dynamic

\* A packet is reported.
LEMMA TxDoneKeeps ==
  ASSUME IInv, TxDone
  PROVE  IInv'
<1> DEFINE f == Head(txq[ix])
<1>0. /\ pc = "txc" /\ Completed(ix) /\ UnlinkHead
      /\ IF ctrl[f] = "TXFAIL" THEN halt' = [halt EXCEPT ![ix] = FALSE] /\ pc' = "reset"
                               ELSE UNCHANGED <<halt, pc>>
      /\ avail' = (avail \/ f = FwFrame)
      /\ Uncount(sup[f])
      /\ Recycle(f, ctrl[f] = "ok")
      /\ UNCHANGED <<down, retryq, cabq, prev, cab, intr, ix>>
  BY DEF TxDone, TxUnstuck
<1>1. /\ ix \in Queues /\ f \in AllFrames /\ f \in Elems(txq[ix])
      /\ sup[f] # Idle /\ sup[f].queue = ix
      /\ f \notin Elems(down) /\ f \notin Elems(retryq)
      /\ \A v \in Vifs : f \notin Elems(cabq[v])
      /\ \A p \in Queues : p # ix => f \notin Elems(txq[p])
  BY <1>0, HeadFacts
<1>2. /\ sup' \in [AllFrames -> Superframe \cup {Idle}]
      /\ rix' \in [AllFrames -> 0 .. MaxRates] /\ cnt' \in [AllFrames -> Nat]
      /\ baEnd' \in [AllFrames -> BOOLEAN]
      /\ own' \in [AllFrames -> {"HW", "SW"}]
      /\ ctrl' \in [AllFrames -> {"ok", "TXFAIL", "BAFAIL"}]
      /\ ahead' \in [AllFrames -> SUBSET AllFrames] /\ missed' \subseteq AllFrames
      /\ tried' \in [AllFrames -> Nat]
      /\ result' \in [AllFrames -> {"none", "ok", "failed"}]
      /\ sup'[f] = Idle /\ rix'[f] = 0 /\ own'[f] = "HW"
      /\ \A g \in AllFrames : g # f =>
           sup'[g] = sup[g] /\ rix'[g] = rix[g] /\ own'[g] = own[g] /\ ctrl'[g] = ctrl[g]
      /\ \A g \in AllFrames : f \notin ahead'[g] /\ ahead'[g] \subseteq ahead[g]
      /\ missed' = missed \ {f}
  <2>1. (ctrl[f] = "ok") \in BOOLEAN
    OBVIOUS
  <2> QED
    BY <1>0, <1>1, <2>1, RecycleFacts DEF IInv
<1>3. /\ UNCHANGED <<down, retryq, cabq, prev, intr, ix>>
      /\ \/ halt' = halt /\ pc' = pc /\ ctrl[f] # "TXFAIL"
         \/ halt' = [halt EXCEPT ![ix] = FALSE] /\ pc' = "reset" /\ ctrl[f] = "TXFAIL"
  BY <1>0
<1>4. /\ txq' \in [Queues -> Seq(AllFrames)]
      /\ \A p \in Queues : p # ix => txq'[p] = txq[p]
      /\ Elems(txq'[ix]) = Elems(txq[ix]) \ {f}
      /\ \A p \in Queues : Inj(txq'[p]) /\ f \notin Elems(txq'[p])
      /\ \A p \in Queues : Completed(p)' =>
           Completed(p) /\ (p = ix => ctrl[f] # "TXFAIL")
      /\ DonePrefix' /\ Stopped' /\ HaltedAtFailure' /\ OrderKept'
  <2>1. \/ halt' = halt /\ ctrl[f] # "TXFAIL"
        \/ halt' = [halt EXCEPT ![ix] = FALSE] /\ ctrl[f] = "TXFAIL"
    BY <1>3
  <2>2. \A g \in AllFrames : g # f =>
          own'[g] = own[g] /\ ctrl'[g] = ctrl[g] /\ ahead'[g] \subseteq ahead[g]
    BY <1>2
  <2>3. \A g \in missed : g # f => g \in missed'
    BY <1>2
  <2> QED
    BY <1>0, <1>1, <2>1, <2>2, <2>3, Leaves DEF IInv
<1>b. pc' \in {"txc", "reset"} /\ (pc' = "reset" <=> ctrl[f] = "TXFAIL")
  BY <1>0
<1>c. Uncount(sup[f]) /\ avail' = (avail \/ f = FwFrame)
  BY <1>0
<1> HIDE DEF f
<1>5. CountersAgree' /\ cabLen' \in [Vifs -> Nat] /\ bars' \in Nat
  <2>1. /\ bars' = (IF sup[f].bar THEN bars - 1 ELSE bars)
        /\ cabLen' = IF sup[f].cab THEN [cabLen EXCEPT ![sup[f].vif] = @ - 1] ELSE cabLen
    BY <1>c DEF Uncount
  <2>2. CASE f \in Frames
    <3>1. f \in Accepted /\ Accepted' = Accepted \ {f}
      BY <1>1, <1>2, <1>3, <2>2 DEF Accepted, AllFrames
    <3>2. avail' = avail
      BY <1>c, <2>2, TxAssumption DEF IInv, TypeOK
    <3>3. IF sup[f].cab THEN cabLen' = [cabLen EXCEPT ![sup[f].vif] = @ - 1]
                        ELSE cabLen' = cabLen
      BY <2>1
    <3> QED
      BY <1>2, <2>1, <3>1, <3>2, <3>3, CountDown DEF IInv, Static
  <2>3. CASE f = FwFrame
    <3>1. sup[f] = BaSuper
      BY <1>1, <2>3 DEF IInv, Static, Contents
    <3>2. bars' = bars /\ cabLen' = cabLen
      BY <2>1, <3>1 DEF BaSuper
    <3>3. avail' = TRUE /\ sup'[FwFrame] = Idle
      BY <1>2, <1>c, <2>3
    <3>4. Accepted' = Accepted /\ \A g \in Accepted : sup'[g] = sup[g]
      BY <1>2, <1>3, <2>3, TxAssumption DEF Accepted, AllFrames
    <3>5. /\ \A w \in Vifs : {g \in Accepted : sup[g].cab /\ sup[g].vif = w}
                              = {g \in Accepted' : sup'[g].cab /\ sup'[g].vif = w}
          /\ {g \in Accepted : sup[g].bar} = {g \in Accepted' : sup'[g].bar}
      BY <3>4
    <3>6. CountersAgree'
      BY <3>2, <3>3, <3>5 DEF IInv, Static, CountersAgree
    <3> QED
      BY <3>2, <3>6 DEF IInv, TypeOK
  <2> QED
    BY <1>1, <2>2, <2>3 DEF AllFrames
<1>6. TypeOK'
  <2>1. halt' \in [Queues -> BOOLEAN]
    BY <1>3 DEF IInv, TypeOK
  <2>2. avail' \in BOOLEAN
    BY <1>c DEF IInv, TypeOK
  <2> QED
    BY <1>0, <1>b, <1>2, <1>3, <1>4, <1>5, <2>1, <2>2, SMTT(30) DEF IInv, TypeOK, cab
<1>7. /\ \A p \in Queues : \A g \in Elems(txq'[p]) : g \in AllFrames /\ g # f /\ g \in Elems(txq[p])
      /\ \A w \in Vifs : \A g \in Elems(cabq[w]) : g \in AllFrames /\ g # f
      /\ \A g \in Elems(down) : g \in AllFrames /\ g # f
      /\ \A g \in Elems(retryq) : g \in AllFrames /\ g # f
  <2>1. \A p \in Queues : Elems(txq'[p]) \subseteq AllFrames
    BY <1>4, ElemsIn
  <2>2. \A w \in Vifs : Elems(cabq[w]) \subseteq AllFrames
    BY ElemsIn DEF IInv, TypeOK, AllFrames
  <2>3. Elems(down) \subseteq AllFrames /\ Elems(retryq) \subseteq AllFrames
    BY ElemsIn DEF IInv, TypeOK, AllFrames
  <2> QED
    BY <1>1, <1>4, <2>1, <2>2, <2>3
<1>8. /\ \A g \in AllFrames : g # f /\ sup[g] # Idle => (InTx(g)' <=> InTx(g))
      /\ \A g \in AllFrames : g # f => (InCab(g)' <=> InCab(g))
  <2>1. \A g \in AllFrames : g # f => (InCab(g)' <=> InCab(g))
    BY <1>2, <1>3 DEF InCab
  <2>2. \A g \in AllFrames : g # f /\ sup[g] # Idle => (InTx(g)' <=> InTx(g))
    BY <1>1, <1>2, <1>4, JobFields, SMTT(30) DEF InTx, IInv
  <2> QED
    BY <2>1, <2>2
<1>9. Distinct'
  BY <1>3, <1>4 DEF IInv, Static, Distinct
<1>10. Located'
  <2>1. \A g \in AllFrames : sup'[g] # Idle =>
          g \in Elems(down) \/ g \in Elems(retryq) \/ InTx(g)' \/ InCab(g)'
    BY <1>2, <1>8 DEF IInv, Static, Located
  <2>2. \A g \in Elems(down) :
          sup'[g] # Idle /\ g \notin Elems(retryq) /\ ~InTx(g)' /\ ~InCab(g)'
    BY <1>2, <1>7, <1>8 DEF IInv, Static, Located
  <2>3. \A g \in Elems(retryq) : sup'[g] # Idle /\ ~InTx(g)' /\ ~InCab(g)'
    BY <1>2, <1>7, <1>8 DEF IInv, Static, Located
  <2>4. \A p \in Queues : \A g \in Elems(txq'[p]) :
          sup'[g] # Idle /\ sup'[g].queue = p /\ ~InCab(g)'
    BY <1>2, <1>7, <1>8 DEF IInv, Static, Located
  <2>5. \A w \in Vifs : \A g \in Elems(cabq[w]) : sup'[g] # Idle /\ sup'[g].vif = w /\ sup'[g].cab
    BY <1>2, <1>7 DEF IInv, Static, Located
  <2> QED
    BY <1>3, <2>1, <2>2, <2>3, <2>4, <2>5 DEF Located
<1>11. Contents'
  <2>1. sup'[FwFrame] \in {Idle, BaSuper}
    BY <1>2 DEF IInv, Static, Contents, AllFrames
  <2>2. \A g \in AllFrames : IF sup'[g] = Idle THEN rix'[g] = 0 ELSE rix'[g] <= sup'[g].last
    <3> SUFFICES ASSUME NEW g \in AllFrames
                 PROVE  IF sup'[g] = Idle THEN rix'[g] = 0 ELSE rix'[g] <= sup'[g].last
      OBVIOUS
    <3>1. CASE g = f
      BY <1>2, <3>1
    <3>2. CASE g # f
      BY <1>2, <3>2 DEF IInv, Static, Contents
    <3> QED
      BY <3>1, <3>2
  <2> QED
    BY <2>1, <2>2 DEF Contents
<1>12. DoneInTx'
  BY <1>2, <1>8 DEF IInv, Static, DoneInTx
<1>13. AheadQueued'
  <2>1. \A g \in AllFrames : \A h \in ahead'[g] : h \in AllFrames /\ h # f /\ h \in ahead[g]
    BY <1>2 DEF IInv, TypeOK
  <2>2. \A g \in AllFrames : \A h \in ahead'[g] :
          sup'[h] # Idle /\ (h \in Elems(retryq) \/ InTx(h)')
    BY <1>2, <1>8, <2>1 DEF IInv, Static, AheadQueued
  <2>3. Elems(retryq) \subseteq missed'
    BY <1>1, <1>2 DEF IInv, Static, AheadQueued
  <2> QED
    BY <1>3, <2>2, <2>3 DEF AheadQueued
<1>14. Loop'
  <2>1. \A g \in Elems(retryq) : sup'[g].queue = ix
    BY <1>2, <1>7 DEF IInv, Dynamic, Loop
  <2> QED
    BY <1>1, <1>3, <1>b, <2>1 DEF Loop
<1>15. PrevLast'
  BY <1>b DEF PrevLast
<1>16. NoForgottenCompletion'
  <2> SUFFICES ASSUME NEW p \in Queues, Completed(p)', ~intr
               PROVE  (pc' = "txc" /\ ix >= p) \/ (pc' = "reset" /\ ix > p)
    BY <1>3 DEF NoForgottenCompletion
  <2>1. Completed(p) /\ (p = ix => ctrl[f] # "TXFAIL")
    BY <1>4
  <2>2. ix >= p /\ ix \in Int /\ p \in Int
    BY <1>0, <1>1, <2>1 DEF IInv, Dynamic, NoForgottenCompletion, Queues
  <2> QED
    BY <1>b, <2>1, <2>2
<1>17. AmpduPrevLive'
  <2> SUFFICES ASSUME NEW p \in Queues, prev[p] # NoFrame, p # ix
               PROVE  prev[p] \in Elems(txq'[p]) /\ sup'[prev[p]].queue = p
    BY <1>3, <1>b DEF AmpduPrevLive
  <2>1. prev[p] \in Elems(txq[p]) /\ sup[prev[p]].queue = p
    BY DEF IInv, Dynamic, AmpduPrevLive
  <2>2. prev[p] \in Elems(txq'[p])
    BY <1>4, <2>1
  <2> QED
    BY <1>2, <1>7, <2>1, <2>2
<1> QED
  BY <1>4, <1>5, <1>6, <1>9, <1>10, <1>11, <1>12, <1>13, <1>14, <1>15, <1>16, <1>17
     DEF IInv, Static, Dynamic

\* The MAC completes the first packet it still owns.
LEMMA SendKeeps ==
  ASSUME IInv, NEW q \in Queues, NEW outcome \in Outcomes, Send(q, outcome)
  PROVE  IInv'
<1>0. PICK i \in DOMAIN txq[q] :
        /\ own[txq[q][i]] = "HW" /\ \A j \in 1 .. i - 1 : own[txq[q][j]] = "SW"
        /\ own' = [own EXCEPT ![txq[q][i]] = "SW"]
        /\ ctrl' = [ctrl EXCEPT ![txq[q][i]] = outcome]
        /\ tried' = [tried EXCEPT ![txq[q][i]] = @ + 1]
  BY DEF Send
<1> DEFINE f == txq[q][i]
<1>1. /\ ~halt[q] /\ halt' = [halt EXCEPT ![q] = outcome = "TXFAIL"] /\ intr' = TRUE
      /\ UNCHANGED <<queues, sup, rix, cnt, baEnd, prev, counts, cab, pc, ix,
                     ahead, missed, result>>
  BY DEF Send
<1>2. UNCHANGED <<down, txq, retryq, cabq, sup, rix, prev, cabLen, bars, avail, pc, ix, ahead, missed>>
  BY <1>1 DEF queues, counts
<1>3. /\ txq[q] \in Seq(AllFrames) /\ Len(txq[q]) \in Nat /\ DOMAIN txq[q] = 1 .. Len(txq[q])
      /\ f \in AllFrames /\ f \in Elems(txq[q])
  <2>1. txq[q] \in Seq(AllFrames)
    BY DEF IInv, TypeOK
  <2>2. f \in Elems(txq[q])
    BY DEF Elems
  <2> QED
    BY <2>1, <2>2, ElemsIn, LenProperties
<1>4. sup[f] # Idle /\ sup[f].queue = q /\ Inj(txq[q])
      /\ \A p \in Queues : p # q => f \notin Elems(txq[p])
  BY <1>3 DEF IInv, Static, Located, Distinct
<1>5. own[f] = "HW" /\ \A j \in 1 .. i - 1 : own[txq[q][j]] = "SW"
  BY <1>0
<1>6. /\ own' \in [AllFrames -> {"HW", "SW"}]
      /\ ctrl' \in [AllFrames -> {"ok", "TXFAIL", "BAFAIL"}]
      /\ tried' \in [AllFrames -> Nat]
      /\ own'[f] = "SW" /\ ctrl'[f] = outcome
      /\ \A g \in AllFrames : g # f => own'[g] = own[g] /\ ctrl'[g] = ctrl[g]
  BY <1>0, <1>3, TxAssumption, SMTT(30) DEF IInv, TypeOK
<1> HIDE DEF f
<1>7. TypeOK'
  <2>1. halt' \in [Queues -> BOOLEAN] /\ intr' \in BOOLEAN
    BY <1>1 DEF IInv, TypeOK
  <2> QED
    BY <1>1, <1>6, <2>1 DEF IInv, TypeOK, queues, counts, cab
<1>8. Distinct' /\ Located' /\ AheadQueued' /\ CountersAgree' /\ OrderKept' /\ Contents'
  BY <1>2 DEF IInv, Static, Distinct, Located, InTx, InCab, AheadQueued, CountersAgree,
              Accepted, OrderKept, Overtaken, Contents
<1>9. DoneInTx'
  BY <1>2, <1>3, <1>4, <1>6 DEF IInv, Static, DoneInTx, InTx
<1>10. \A p \in Queues : p # q => \A j \in DOMAIN txq[p] :
         own'[txq[p][j]] = own[txq[p][j]] /\ ctrl'[txq[p][j]] = ctrl[txq[p][j]]
  <2>1. \A p \in Queues : Elems(txq[p]) \subseteq AllFrames
    BY ElemsIn DEF IInv, TypeOK
  <2>2. \A p \in Queues : p # q => \A j \in DOMAIN txq[p] : txq[p][j] \in AllFrames /\ txq[p][j] # f
    BY <1>4, <2>1 DEF Elems
  <2> QED
    BY <1>6, <2>2
\* In queue q, what stands before i was done, what stands behind it is not.
<1>11. \A j \in DOMAIN txq[q] :
         /\ j # i => own'[txq[q][j]] = own[txq[q][j]] /\ ctrl'[txq[q][j]] = ctrl[txq[q][j]]
         /\ j > i => own[txq[q][j]] = "HW"
         /\ j < i => own[txq[q][j]] = "SW"
         /\ j = i => own'[txq[q][j]] = "SW" /\ ctrl'[txq[q][j]] = outcome
  <2> SUFFICES ASSUME NEW j \in DOMAIN txq[q]
               PROVE  /\ j # i => own'[txq[q][j]] = own[txq[q][j]] /\ ctrl'[txq[q][j]] = ctrl[txq[q][j]]
                      /\ j > i => own[txq[q][j]] = "HW"
                      /\ j < i => own[txq[q][j]] = "SW"
                      /\ j = i => own'[txq[q][j]] = "SW" /\ ctrl'[txq[q][j]] = outcome
    OBVIOUS
  <2>1. txq[q][j] \in AllFrames
    BY <1>3, ElementOfSeq
  <2>2. j # i => txq[q][j] # f
    BY <1>4 DEF Inj, f
  <2>3. j # i => own'[txq[q][j]] = own[txq[q][j]] /\ ctrl'[txq[q][j]] = ctrl[txq[q][j]]
    BY <1>6, <2>1, <2>2
  <2>4. j > i => own[txq[q][j]] = "HW"
    <3>1. j > i /\ own[txq[q][j]] = "SW" => own[txq[q][i]] = "SW"
      BY <1>3 DEF IInv, Static, DonePrefix
    <3> QED
      BY <1>5, <2>1, <3>1 DEF IInv, TypeOK, f
  <2>5. j < i => own[txq[q][j]] = "SW"
    BY <1>3, <1>5
  <2>6. j = i => own'[txq[q][j]] = "SW" /\ ctrl'[txq[q][j]] = outcome
    BY <1>6 DEF f
  <2> QED
    BY <2>3, <2>4, <2>5, <2>6
<1>12. DonePrefix'
  <2> SUFFICES ASSUME NEW p \in Queues, NEW j \in DOMAIN txq[p], NEW k \in DOMAIN txq[p],
                      j < k, own'[txq[p][k]] = "SW"
               PROVE  own'[txq[p][j]] = "SW" /\ ctrl'[txq[p][j]] # "TXFAIL"
    BY <1>2 DEF DonePrefix
  <2>1. CASE p # q
    BY <1>10, <2>1 DEF IInv, Static, DonePrefix
  <2>2. CASE p = q
    <3>1. k <= i /\ j < i
      BY <1>3, <1>11, <2>2
    \* Otherwise the queue would have stopped.
    <3>2. own[txq[q][j]] = "SW" /\ ctrl[txq[q][j]] # "TXFAIL"
      BY <1>1, <1>11, <2>2, <3>1 DEF IInv, Static, Stopped
    <3> QED
      BY <1>3, <1>11, <2>2, <3>1, <3>2
  <2> QED
    BY <2>1, <2>2
<1>13. /\ halt'[q] = (outcome = "TXFAIL")
       /\ \A p \in Queues : p # q => halt'[p] = halt[p]
  BY <1>1 DEF IInv, TypeOK
<1>14. Stopped'
  <2> SUFFICES ASSUME NEW p \in Queues, NEW j \in DOMAIN txq[p],
                      own'[txq[p][j]] = "SW", ctrl'[txq[p][j]] = "TXFAIL"
               PROVE  halt'[p]
    BY <1>2 DEF Stopped
  <2>1. CASE p # q
    BY <1>10, <1>13, <2>1 DEF IInv, Static, Stopped
  <2>2. CASE p = q /\ j = i
    BY <1>11, <1>13, <2>2
  <2>3. CASE p = q /\ j # i
    BY <1>1, <1>11, <2>3 DEF IInv, Static, Stopped
  <2> QED
    BY <2>1, <2>2, <2>3
<1>15. HaltedAtFailure'
  <2> SUFFICES ASSUME NEW p \in Queues, halt'[p]
               PROVE  \E j \in DOMAIN txq[p] :
                        /\ own'[txq[p][j]] = "SW" /\ ctrl'[txq[p][j]] = "TXFAIL"
                        /\ \A k \in DOMAIN txq[p] :
                             own'[txq[p][k]] = IF k <= j THEN "SW" ELSE "HW"
    BY <1>2 DEF HaltedAtFailure
  <2>1. CASE p # q
    BY <1>10, <1>13, <2>1 DEF IInv, Static, HaltedAtFailure
  <2>2. CASE p = q
    <3>1. own'[txq[q][i]] = "SW" /\ ctrl'[txq[q][i]] = "TXFAIL"
      BY <1>11, <1>13, <2>2
    <3>2. \A k \in DOMAIN txq[q] : own'[txq[q][k]] = IF k <= i THEN "SW" ELSE "HW"
      BY <1>3, <1>11
    <3> QED
      BY <2>2, <3>1, <3>2
  <2> QED
    BY <2>1, <2>2
<1>16. Loop' /\ PrevLast'
  BY <1>2 DEF IInv, Dynamic, Loop, PrevLast
<1>17. NoForgottenCompletion'
  BY <1>1 DEF NoForgottenCompletion
<1>18. AmpduPrevLive'
  BY <1>2 DEF IInv, Dynamic, AmpduPrevLive
<1> QED
  BY <1>7, <1>8, <1>9, <1>12, <1>14, <1>15, <1>16, <1>17, <1>18 DEF IInv, Static, Dynamic

-----------------------------------------------------------------------------
(* The invariant *)

LEMMA InvInit ==
  ASSUME Init
  PROVE  IInv
<1> USE DEF Init
<1>1. TypeOK
  <2>1. 0 \in Queues /\ 0 \in 0 .. MaxRates /\ 2 \in 0 .. 2
    BY TxAssumption DEF Queues
  <2>2. /\ <<>> \in Seq(Frames) /\ <<>> \in Seq(AllFrames)
        /\ txq \in [Queues -> Seq(AllFrames)] /\ cabq \in [Vifs -> Seq(Frames)]
    BY EmptySeq
  <2>3. /\ rix \in [AllFrames -> 0 .. MaxRates] /\ cnt \in [AllFrames -> Nat]
        /\ tried \in [AllFrames -> Nat] /\ cabLen \in [Vifs -> Nat]
    BY <2>1
  <2>4. baEnd \in [AllFrames -> BOOLEAN] /\ halt \in [Queues -> BOOLEAN]
    OBVIOUS
  <2>5. avail \in BOOLEAN /\ intr \in BOOLEAN
    OBVIOUS
  <2>6. ahead \in [AllFrames -> SUBSET AllFrames] /\ missed \subseteq AllFrames
    OBVIOUS
  <2> QED
    BY <2>1, <2>2, <2>3, <2>4, <2>5, <2>6 DEF TypeOK
<1>2. /\ down = <<>> /\ retryq = <<>>
      /\ \A q \in Queues : txq[q] = <<>> /\ DOMAIN txq[q] = {} /\ halt[q] = FALSE /\ prev[q] = NoFrame
      /\ \A v \in Vifs : cabq[v] = <<>> /\ cabLen[v] = 0
      /\ \A f \in AllFrames : sup[f] = Idle /\ rix[f] = 0 /\ own[f] = "HW" /\ ahead[f] = {}
      /\ FwFrame \in AllFrames /\ Frames \subseteq AllFrames
  BY EmptySeq DEF AllFrames
<1>3. Distinct /\ Located /\ Contents /\ DoneInTx
  BY <1>2, EmptyFacts DEF Distinct, Located, Contents, DoneInTx
<1>4. DonePrefix /\ Stopped /\ HaltedAtFailure /\ OrderKept
  BY <1>2 DEF DonePrefix, Stopped, HaltedAtFailure, OrderKept
<1>5. AheadQueued
  BY <1>2, EmptyFacts DEF AheadQueued
<1>6. CountersAgree
  <2>1. Accepted = {}
    BY <1>2 DEF Accepted
  <2>2. /\ \A v \in Vifs : {f \in Accepted : sup[f].cab /\ sup[f].vif = v} = {}
        /\ {f \in Accepted : sup[f].bar} = {}
    BY <2>1
  <2>3. avail = (sup[FwFrame] = Idle)
    BY <1>2
  <2> QED
    BY <1>2, <2>2, <2>3, FS_EmptySet DEF CountersAgree
<1>7. Dynamic
  BY <1>2, EmptyFacts DEF Dynamic, Loop, PrevLast, NoForgottenCompletion, Completed,
                          AmpduPrevLive
<1> QED
  BY <1>1, <1>3, <1>4, <1>5, <1>6, <1>7 DEF IInv, Static

LEMMA InvInductive ==
  ASSUME IInv, [Next]_vars
  PROVE  IInv'
<1>1. CASE Firmware
  BY <1>1, AckInterruptKeeps, TxRearmKeeps, TxRetryLaterKeeps, TxDoneKeeps, AmpduResetKeeps,
     RequeueKeeps, NextQueueKeeps, FlushOneKeeps, NextVifKeeps, SendBaKeeps, LoopStepKeeps,
     DropKeeps, BufferKeeps, QueueKeeps, CommandKeeps DEF Firmware, TxStatus
<1>2. CASE \E f \in Frames, s \in Supers : Arrive(f, s)
  BY <1>2, ArriveKeeps
<1>3. CASE \E q \in Queues, o \in Outcomes : Send(q, o)
  BY <1>3, SendKeeps
<1>4. CASE Tick
  BY <1>4, TickKeeps
<1>5. CASE UNCHANGED vars
  <2> USE <1>5 DEF vars, queues, frame, counts, cab, mac, hist
  <2>1. TypeOK'
    BY DEF IInv, TypeOK
  <2>2. Static'
    BY Quiet DEF IInv
  <2>3. Dynamic'
    BY DEF IInv, Dynamic, Loop, PrevLast, NoForgottenCompletion, Completed, AmpduPrevLive
  <2> QED
    BY <2>1, <2>2, <2>3 DEF IInv
<1> QED
  BY <1>1, <1>2, <1>3, <1>4, <1>5 DEF Next

\* The inductive invariant of the transmit path holds in every state of the main
\* loop, the MAC and the host (wlantx.c, hostif.c, main.c).
THEOREM Invariance == Spec => []IInv
  BY InvInit, InvInductive, PTL DEF Spec

\* The types are kept: the indices of the loops, the rate of each frame and the
\* counters stay in range (wlan.h, wlantx.c).
THEOREM TypeCorrect == Spec => []TypeOK
<1>1. IInv => TypeOK
  BY DEF IInv
<1> QED
  BY <1>1, Invariance, PTL

\* No frame is lost or queued twice between its arrival and its report.
LEMMA OnePlace == IInv => FrameInOnePlace
<1> SUFFICES ASSUME IInv, NEW f \in AllFrames
             PROVE  Cardinality(Places(f)) = IF sup[f] = Idle THEN 0 ELSE 1
  BY DEF FrameInOnePlace
<1> DEFINE d == {"down"} \X At(down, f)
           r == {"retry"} \X At(retryq, f)
           t(q) == {"tx"} \X {q} \X At(txq[q], f)
           c(v) == {"cab"} \X {v} \X At(cabq[v], f)
<1>1. \A s : At(s, f) = {} <=> f \notin Elems(s)
  BY DEF At, Elems
<1>2. \A s : Inj(s) /\ f \in Elems(s) => \E i : At(s, f) = {i}
  <2> SUFFICES ASSUME NEW s, Inj(s), f \in Elems(s) PROVE \E i : At(s, f) = {i}
    OBVIOUS
  <2>1. PICK i \in DOMAIN s : s[i] = f
    BY DEF Elems
  <2>2. At(s, f) = {i}
    BY <2>1 DEF At, Inj
  <2> QED
    BY <2>2
<1>3. /\ f \notin Elems(down) => d = {}
      /\ f \notin Elems(retryq) => r = {}
      /\ \A q \in Queues : f \notin Elems(txq[q]) => t(q) = {}
      /\ \A v \in Vifs : f \notin Elems(cabq[v]) => c(v) = {}
  BY <1>1
<1>4. /\ f \in Elems(down) => \E p : d = {p}
      /\ f \in Elems(retryq) => \E p : r = {p}
      /\ \A q \in Queues : f \in Elems(txq[q]) => \E p : t(q) = {p}
      /\ \A v \in Vifs : f \in Elems(cabq[v]) => \E p : c(v) = {p}
  <2>1. ASSUME f \in Elems(down) PROVE \E p : d = {p}
    <3>1. PICK i : At(down, f) = {i}
      BY <1>2, <2>1 DEF IInv, Static, Distinct
    <3>2. d = {<<"down", i>>}
      BY <3>1
    <3> QED
      BY <3>2
  <2>2. ASSUME f \in Elems(retryq) PROVE \E p : r = {p}
    <3>1. PICK i : At(retryq, f) = {i}
      BY <1>2, <2>2 DEF IInv, Static, Distinct
    <3>2. r = {<<"retry", i>>}
      BY <3>1
    <3> QED
      BY <3>2
  <2>3. ASSUME NEW q \in Queues, f \in Elems(txq[q]) PROVE \E p : t(q) = {p}
    <3>1. PICK i : At(txq[q], f) = {i}
      BY <1>2, <2>3 DEF IInv, Static, Distinct
    <3>2. t(q) = {<<"tx", q, i>>}
      BY <3>1
    <3> QED
      BY <3>2
  <2>4. ASSUME NEW v \in Vifs, f \in Elems(cabq[v]) PROVE \E p : c(v) = {p}
    <3>1. PICK i : At(cabq[v], f) = {i}
      BY <1>2, <2>4 DEF IInv, Static, Distinct
    <3>2. c(v) = {<<"cab", v, i>>}
      BY <3>1
    <3> QED
      BY <3>2
  <2> QED
    BY <2>1, <2>2, <2>3, <2>4
<1>5. Places(f) = d \cup r \cup (UNION {t(q) : q \in Queues})
                   \cup (UNION {c(v) : v \in Vifs})
  BY DEF Places
<1> HIDE DEF d, r, t, c
<1>6. CASE sup[f] = Idle
  <2>1. /\ f \notin Elems(down) /\ f \notin Elems(retryq)
        /\ \A q \in Queues : f \notin Elems(txq[q])
        /\ \A v \in Vifs : f \notin Elems(cabq[v])
    BY <1>6 DEF IInv, Static, Located
  <2>2. Places(f) = {}
    BY <1>3, <1>5, <2>1
  <2> QED
    BY <1>6, <2>2, FS_EmptySet
<1>7. CASE sup[f] # Idle
  <2>1. sup[f].queue \in Queues /\ sup[f].vif \in Vifs
    BY <1>7, JobFields DEF IInv
  <2>2. /\ \A q \in Queues : f \in Elems(txq[q]) => sup[f].queue = q
        /\ \A v \in Vifs : f \in Elems(cabq[v]) => sup[f].vif = v
    BY DEF IInv, Static, Located
  <2>3. \E p : Places(f) = {p}
    <3>1. CASE f \in Elems(down)
      <4>1. /\ f \notin Elems(retryq)
            /\ \A q \in Queues : f \notin Elems(txq[q])
            /\ \A v \in Vifs : f \notin Elems(cabq[v])
        BY <2>2, <3>1 DEF IInv, Static, Located, InTx, InCab
      <4> QED
        BY <1>3, <1>4, <1>5, <3>1, <4>1
    <3>2. CASE f \in Elems(retryq)
      <4>1. /\ f \notin Elems(down)
            /\ \A q \in Queues : f \notin Elems(txq[q])
            /\ \A v \in Vifs : f \notin Elems(cabq[v])
        BY <2>2, <3>2 DEF IInv, Static, Located, InTx, InCab
      <4> QED
        BY <1>3, <1>4, <1>5, <3>2, <4>1
    <3>3. CASE InTx(f)
      <4>1. /\ f \notin Elems(down) /\ f \notin Elems(retryq)
            /\ \A v \in Vifs : f \notin Elems(cabq[v])
        BY <2>1, <2>2, <3>3 DEF IInv, Static, Located, InTx, InCab
      <4>2. \A q \in Queues : q # sup[f].queue => t(q) = {}
        BY <1>3, <2>2
      <4>3. PICK p : t(sup[f].queue) = {p}
        BY <1>4, <2>1, <3>3 DEF InTx
      <4>4. UNION {t(q) : q \in Queues} = {p}
        BY <2>1, <4>2, <4>3
      <4>5. UNION {c(v) : v \in Vifs} = {} /\ d = {} /\ r = {}
        BY <1>3, <4>1
      <4> QED
        BY <1>5, <4>4, <4>5
    <3>4. CASE InCab(f)
      <4>1. /\ f \notin Elems(down) /\ f \notin Elems(retryq)
            /\ \A q \in Queues : f \notin Elems(txq[q])
        BY <2>1, <2>2, <3>4 DEF IInv, Static, Located, InTx, InCab
      <4>2. \A v \in Vifs : v # sup[f].vif => c(v) = {}
        BY <1>3, <2>2
      <4>3. PICK p : c(sup[f].vif) = {p}
        BY <1>4, <2>1, <3>4 DEF InCab
      <4>4. UNION {c(v) : v \in Vifs} = {p}
        BY <2>1, <4>2, <4>3
      <4>5. UNION {t(q) : q \in Queues} = {} /\ d = {} /\ r = {}
        BY <1>3, <4>1
      <4> QED
        BY <1>5, <4>4, <4>5
    <3> QED
      BY <1>7, <3>1, <3>2, <3>3, <3>4 DEF IInv, Static, Located
  <2> QED
    BY <1>7, <2>3, FS_Singleton
<1> QED
  BY <1>6, <1>7

\* No frame is lost or queued twice on its way through the queues of dma_mem and
\* fw (wlantx.c, hostif.c).
THEOREM NothingLost == Spec => []FrameInOnePlace
  BY OnePlace, Invariance, PTL

\* cab_queue_len, queued_bar and fw_desc_available agree with the frames under way.
THEOREM CountersRight == Spec => []CountersAgree
<1>1. IInv => CountersAgree
  BY DEF IInv, Static
<1> QED
  BY <1>1, Invariance, PTL

\* The MAC stands still only at a frame that failed (wlan_txunstuck()).
THEOREM StopsAtFailure == Spec => []HaltedAtFailure
<1>1. IInv => HaltedAtFailure
  BY DEF IInv, Static
<1> QED
  BY <1>1, Invariance, PTL

\* handle_wlan_tx_completion() misses no packet the MAC is done with.
THEOREM CompletionsSeen == Spec => []NoForgottenCompletion
<1>1. IInv => NoForgottenCompletion
  BY DEF IInv, Dynamic
<1> QED
  BY <1>1, Invariance, PTL

\* A frame is overtaken by a later one only if a block ack missed it.
THEOREM KeepsOrder == Spec => []OrderKept
<1>1. IInv => OrderKept
  BY DEF IInv, Static
<1> QED
  BY <1>1, Invariance, PTL

\* ampdu_prev points into its queue wherever it is used (wlan_tx_ampdu()).
THEOREM PrevNeverDangles == Spec => []AmpduPrevLive
<1>1. IInv => AmpduPrevLive
  BY DEF IInv, Dynamic
<1> QED
  BY <1>1, Invariance, PTL

\* The aggregates moved back from tx_retry end their A-MPDU.
THEOREM AggregatesClosed == Spec => RetriesClosed
<1>1. ASSUME IInv, [Next]_vars
      PROVE  [\A q \in Queues :
               pc = "retry" /\ pc' # "retry" /\ q = ix /\ prev[q] # NoFrame =>
                 baEnd'[prev[q]] /\ txq[q][Len(txq[q])] = prev[q]]_vars
  <2> SUFFICES ASSUME Next, NEW q \in Queues,
                      pc = "retry", pc' # "retry", q = ix, prev[q] # NoFrame
               PROVE  baEnd'[prev[q]] /\ txq[q][Len(txq[q])] = prev[q]
    BY <1>1 DEF vars
  <2>1. NextQueue
    BY DEF Next, Firmware, TxStatus, AckInterrupt, TxRearm, TxRetryLater, TxDone, AmpduReset,
           Requeue, FlushOne, NextVif, SendBa, NoBa, DropClipped, WlanTx, LeaveHost, Command,
           StartFlush, ModifyBeacon, EndFlush, NoCommand, Arrive, Send, Tick, cab, mac
  <2>2. baEnd' = [baEnd EXCEPT ![prev[q]] = TRUE]
    BY <2>1 DEF NextQueue, AmpduEnd
  <2>3. prev[q] \in AllFrames
    BY <1>1 DEF IInv, TypeOK
  <2>4. baEnd'[prev[q]]
    BY <1>1, <2>2, <2>3 DEF IInv, TypeOK
  <2> QED
    BY <1>1, <2>4 DEF IInv, Dynamic, PrevLast
<1> QED
  BY <1>1, Invariance, PTL DEF Spec, RetriesClosed

\* An armed trigger stands for an announcement that is not used up.
Announced == \A v \in Vifs : trigger[v] = "ARMED" => announced[v]

\* Only the host arms a trigger, and the flush that uses the announcement up defers
\* what comes later (wlan_send_buffered_cab()).
LEMMA AnnouncedKeeps ==
  ASSUME IInv, Announced, Next
  PROVE  Announced'
<1>0. trigger \in [Vifs -> {"EMPTY", "ARMED", "DEFER"}] /\ announced \in [Vifs -> BOOLEAN]
  BY DEF IInv, TypeOK
<1>1. CASE NextVif
  <2> SUFFICES ASSUME NEW v \in Vifs, trigger'[v] = "ARMED" PROVE announced'[v]
    BY DEF Announced
  <2>1. ix \in Vifs
    BY <1>1 DEF NextVif, IInv, Dynamic, Loop
  <2>2. CASE FlushDue
    <3>1. /\ trigger' = [trigger EXCEPT ![ix] = "DEFER"]
          /\ announced' = [announced EXCEPT ![ix] = FALSE]
      BY <1>1, <2>2 DEF NextVif, DeferCab
    <3>2. v # ix
      BY <1>0, <2>1, <3>1
    <3>3. trigger[v] = "ARMED" /\ announced'[v] = announced[v]
      BY <1>0, <2>1, <3>1, <3>2
    <3> QED
      BY <3>3 DEF Announced
  <2>3. CASE ~FlushDue
    BY <1>1, <2>3 DEF NextVif, Announced
  <2> QED
    BY <2>2, <2>3
<1>2. CASE Command
  <2>1. PICK w \in Vifs : StartFlush(w) \/ \E dtim \in BOOLEAN : ModifyBeacon(w, dtim)
    BY <1>2 DEF Command
  <2>2. CASE StartFlush(w)
    BY <2>2 DEF StartFlush, cab, Announced
  <2>3. ASSUME NEW dtim \in BOOLEAN, ModifyBeacon(w, dtim) PROVE Announced'
    <3> SUFFICES ASSUME NEW v \in Vifs, trigger'[v] = "ARMED" PROVE announced'[v]
      BY DEF Announced
    <3>1. announced' = [announced EXCEPT ![w] = announced[w] \/ (cabq[w] # <<>> /\ dtim)]
      BY <2>3 DEF ModifyBeacon
    <3>2. CASE v = w /\ cabq[w] # <<>> /\ dtim
      BY <1>0, <3>1, <3>2, Zenon
    <3>3. CASE ~(v = w /\ cabq[w] # <<>> /\ dtim)
      <4>1. trigger[v] = "ARMED"
        BY <1>0, <2>3, <3>3 DEF ModifyBeacon
      <4>2. announced[v]
        BY <4>1 DEF Announced
      <4> QED
        BY <1>0, <3>1, <4>2, Zenon
    <3> QED
      BY <3>2, <3>3
  <2> QED
    BY <2>1, <2>2, <2>3
<1>3. CASE EndFlush
  <2> SUFFICES ASSUME NEW v \in Vifs, trigger'[v] = "ARMED" PROVE announced'[v]
    BY DEF Announced
  <2>1. ix \in Vifs
    BY <1>3 DEF EndFlush, IInv, Dynamic, Loop
  <2>2. /\ trigger' = [trigger EXCEPT ![ix] = "EMPTY"]
        /\ announced' = [announced EXCEPT ![ix] = FALSE]
    BY <1>3 DEF EndFlush
  <2>3. v # ix
    BY <1>0, <2>1, <2>2
  <2>4. trigger[v] = "ARMED" /\ announced'[v] = announced[v]
    BY <1>0, <2>1, <2>2, <2>3
  <2> QED
    BY <2>4 DEF Announced
<1>4. CASE ~NextVif /\ ~Command /\ ~EndFlush
  <2>1. trigger' = trigger /\ announced' = announced
    BY <1>4 DEF Next, Firmware, TxStatus, AckInterrupt, TxRearm, TxRetryLater, TxDone, AmpduReset,
                Requeue, NextQueue, FlushOne, SendBa, NoBa, DropClipped, WlanTx, LeaveHost,
                NoCommand, Arrive, Send, Tick, cab
  <2> QED
    BY <2>1 DEF Announced
<1> QED
  BY <1>1, <1>2, <1>3, <1>4

\* A multicast frame leaves its queue only while an announcement of the host is not
\* used up, or when the host orders a flush (wlan_cab_flush_queue()): the trigger
\* never outlives the flush it stood for.
THEOREM CabWaits == Spec => LaterCabWaits
<1>1. ASSUME IInv, Announced, [Next]_vars
      PROVE  [\A v \in Vifs :
               Len(cabq'[v]) < Len(cabq[v]) => pc = "flush" \/ announced[v]]_vars
  <2> SUFFICES ASSUME Next, NEW v \in Vifs, Len(cabq'[v]) < Len(cabq[v])
               PROVE  pc = "flush" \/ announced[v]
    BY <1>1 DEF vars
  <2>1. cabq[v] \in Seq(Frames) /\ Len(cabq[v]) \in Nat
    BY <1>1, LenProperties DEF IInv, TypeOK
  <2>2. cabq' # cabq
    BY <2>1
  <2>3. FlushOne \/ WlanTx
    BY <2>2 DEF Next, Firmware, TxStatus, AckInterrupt, TxRearm, TxRetryLater, TxDone, AmpduReset,
                Requeue, NextQueue, NextVif, SendBa, NoBa, DropClipped, LeaveHost, Command,
                StartFlush, ModifyBeacon, EndFlush, NoCommand, Arrive, Send, Tick, queues
  <2>4. CASE FlushOne
    <3>1. cabq' = [cabq EXCEPT ![ix] = Tail(@)] /\ pc \in {"cab", "flush"}
          /\ (pc = "cab" => trigger[ix] = "ARMED")
      BY <2>4 DEF FlushOne, FlushDue
    <3>2. v = ix
      BY <1>1, <2>1, <3>1 DEF IInv, TypeOK
    <3> QED
      BY <1>1, <3>1, <3>2 DEF Announced
  <2>5. CASE WlanTx
    <3>2. down # <<>> /\ down \in Seq(Frames)
      BY <1>1, <2>5 DEF WlanTx, IInv, TypeOK
    <3>3. cabq' = [cabq EXCEPT ![sup[Head(down)].vif] = Append(@, Head(down))]
      BY <2>2, <2>5 DEF WlanTx
    <3>4. Head(down) \in Frames
      BY <3>2, TailFacts
    <3>5. Len(Append(cabq[v], Head(down))) = Len(cabq[v]) + 1
      BY <2>1, <3>4, AppendFacts
    <3> QED
      BY <1>1, <2>1, <3>3, <3>5 DEF IInv, TypeOK
  <2> QED
    BY <2>3, <2>4, <2>5
<1>2. Init => Announced
  BY DEF Init, Announced
<1>3. IInv /\ Announced /\ [Next]_vars => Announced'
  BY AnnouncedKeeps DEF vars, cab, Announced
<1> QED
  BY <1>1, <1>2, <1>3, Invariance, PTL DEF Spec, LaterCabWaits

-----------------------------------------------------------------------------
(* The tries of a frame *)

\* The tries of the rate at r: one that allows none is tried once (wlan_tx_consume_retry()).
TriesAt(s, r) == IF s.ri[r].tries > 1 THEN s.ri[r].tries ELSE 1

\* Before() adds up the tries of the rates: the recursive function exists.
LEMMA BeforeSteps ==
  ASSUME NEW s \in Superframe
  PROVE  /\ Before(s, 0) = 0
         /\ \A r \in 0 .. MaxRates :
              TriesAt(s, r) \in Nat \ {0} /\ Before(s, r + 1) = Before(s, r) + TriesAt(s, r)
<1> DEFINE T == [r \in 0 .. MaxRates |-> TriesAt(s, r)]
           Adds(n, g) == g[0] = 0 /\ \A i \in 1 .. n : g[i] = g[i - 1] + T[i - 1]
           Last == MaxRates + 1
           S == {n \in Nat : n <= Last => \E g \in [0 .. n -> Nat] : Adds(n, g)}
           Def(f) == f = [i \in 0 .. MaxRates + 1 |->
             IF i = 0 THEN 0
             ELSE f[i - 1] + (IF s.ri[i - 1].tries > 1 THEN s.ri[i - 1].tries ELSE 1)]
<1>1. MaxRates \in Nat /\ Last \in Nat /\ Last = MaxRates + 1
  BY TxAssumption
<1>2. \A r \in 0 .. MaxRates : TriesAt(s, r) \in Nat \ {0}
  <2>1. ASSUME NEW r \in 0 .. MaxRates PROVE s.ri[r].tries \in Nat
    <3>1. s.ri \in [0 .. MaxRates -> Rate]
      BY DEF Superframe
    <3>2. s.ri[r] \in Rate
      BY <3>1
    <3> QED
      BY <3>2 DEF Rate
  <2> QED
    BY <2>1 DEF TriesAt
<1>3. T \in [0 .. MaxRates -> Nat]
  BY <1>2
<1>4. \A n \in Nat : n \in S
  <2> HIDE DEF T, Last
  <2>1. 0 \in S
    <3> DEFINE g == [i \in 0 .. 0 |-> 0]
    <3>1. g \in [0 .. 0 -> Nat] /\ Adds(0, g)
      OBVIOUS
    <3> HIDE DEF g, Adds
    <3> QED
      BY <3>1
  <2>2. ASSUME NEW n \in Nat, n \in S PROVE n + 1 \in S
    <3>1. ASSUME n + 1 <= Last
          PROVE  \E g \in [0 .. n + 1 -> Nat] : Adds(n + 1, g)
      <4>1. PICK g \in [0 .. n -> Nat] : Adds(n, g)
        BY <1>1, <2>2, <3>1
      <4>2. g[n] + T[n] \in Nat
        BY <1>1, <1>3, <3>1
      <4> DEFINE h == [i \in 0 .. n + 1 |-> IF i = n + 1 THEN g[n] + T[n] ELSE g[i]]
      <4>3. h \in [0 .. n + 1 -> Nat]
        BY <4>2
      <4>4. ASSUME NEW i \in 1 .. n + 1 PROVE h[i] = h[i - 1] + T[i - 1]
        <5>1. i - 1 \in 0 .. n /\ h[i - 1] = g[i - 1]
          OBVIOUS
        <5>2. CASE i = n + 1
          BY <5>1, <5>2
        <5>3. CASE i \in 1 .. n
          BY <4>1, <5>1, <5>3
        <5> QED
          BY <5>2, <5>3
      <4>5. h[0] = 0
        BY <4>1
      <4>6. Adds(n + 1, h)
        BY <4>4, <4>5
      <4> HIDE DEF h, Adds
      <4> QED
        BY <4>3, <4>6
    <3> HIDE DEF Adds
    <3> QED
      BY <3>1
  <2> HIDE DEF S
  <2> QED
    BY <2>1, <2>2, Induct
<1>5. PICK g \in [0 .. Last -> Nat] : Adds(Last, g)
  <2> HIDE DEF Adds, Last
  <2>1. Last \in S /\ Last <= Last
    BY <1>1, <1>4
  <2> QED
    BY <2>1
<1>6. \E f : Def(f)
  <2>1. g = [i \in 0 .. MaxRates + 1 |-> g[i]]
    BY <1>1
  <2>2. ASSUME NEW i \in 0 .. MaxRates + 1
        PROVE g[i] = IF i = 0 THEN 0
                     ELSE g[i - 1] + (IF s.ri[i - 1].tries > 1 THEN s.ri[i - 1].tries ELSE 1)
    <3>1. CASE i = 0
      BY <1>5, <3>1
    <3>2. CASE i \in 1 .. Last
      <4>1. i - 1 \in 0 .. MaxRates
        BY <1>1, <3>2
      <4>2. T[i - 1] = TriesAt(s, i - 1)
        BY <4>1
      <4>3. g[i] = g[i - 1] + T[i - 1] /\ i # 0
        BY <1>1, <1>5, <3>2
      <4> QED
        BY <4>2, <4>3 DEF TriesAt
    <3> QED
      BY <1>1, <3>1, <3>2
  <2>3. Def(g)
    BY <2>1, <2>2
  <2> QED
    BY <2>3
<1> DEFINE w == CHOOSE f : Def(f)
<1>7. \A r : Before(s, r) = w[r]
  BY DEF Before
<1>8. Def(w)
  <2> HIDE DEF Def
  <2> QED
    BY <1>6
<1> HIDE DEF w
<1>9. \A i \in 0 .. MaxRates + 1 :
        w[i] = IF i = 0 THEN 0
               ELSE w[i - 1] + (IF s.ri[i - 1].tries > 1 THEN s.ri[i - 1].tries ELSE 1)
  BY <1>8
<1>10. w[0] = 0
  BY <1>1, <1>9
<1>11. ASSUME NEW r \in 0 .. MaxRates PROVE w[r + 1] = w[r] + TriesAt(s, r)
  <2>1. r + 1 \in 0 .. MaxRates + 1 /\ r + 1 # 0 /\ (r + 1) - 1 = r
    BY <1>1
  <2> QED
    BY <1>9, <2>1 DEF TriesAt
<1> QED
  BY <1>2, <1>7, <1>10, <1>11

\* Before() is a number and grows with the rates it counts.
LEMMA BeforeGrows ==
  ASSUME NEW s \in Superframe
  PROVE  /\ \A r \in 0 .. MaxRates + 1 : Before(s, r) \in Nat
         /\ \A n \in 0 .. MaxRates + 1 : \A r \in 0 .. n : Before(s, r) <= Before(s, n)
<1> DEFINE B(r) == Before(s, r)
           S == {n \in Nat : n <= MaxRates + 1 => \A r \in 0 .. n : B(r) \in Nat /\ B(r) <= B(n)}
<1>1. MaxRates \in Nat
  BY TxAssumption
<1>2. /\ B(0) = 0
      /\ \A r \in 0 .. MaxRates : TriesAt(s, r) \in Nat \ {0} /\ B(r + 1) = B(r) + TriesAt(s, r)
  BY BeforeSteps
<1> HIDE DEF B
<1>3. \A n \in Nat : n \in S
  <2>1. 0 \in S
    BY <1>2
  <2>2. ASSUME NEW n \in Nat, n \in S PROVE n + 1 \in S
    <3> SUFFICES ASSUME n + 1 <= MaxRates + 1
                 PROVE  \A r \in 0 .. n + 1 : B(r) \in Nat /\ B(r) <= B(n + 1)
      OBVIOUS
    <3>1. B(n) \in Nat /\ \A r \in 0 .. n : B(r) \in Nat /\ B(r) <= B(n)
      BY <1>1, <2>2
    <3> DEFINE t == TriesAt(s, n)
    <3>2. t \in Nat \ {0} /\ B(n + 1) = B(n) + t
      BY <1>1, <1>2
    <3> HIDE DEF t
    <3>3. ASSUME NEW r \in 0 .. n + 1 PROVE B(r) \in Nat /\ B(r) <= B(n + 1)
      <4>1. CASE r = n + 1
        <5>1. B(n + 1) \in Nat
          BY <3>1, <3>2
        <5> QED
          BY <4>1, <5>1
      <4>2. CASE r \in 0 .. n
        <5>1. B(r) <= B(n) /\ B(r) \in Nat
          BY <1>1, <2>2, <3>1, <4>2
        <5> QED
          BY <3>1, <3>2, <5>1
      <4> QED
        BY <4>1, <4>2
    <3> QED
      BY <3>1, <3>2, <3>3
  <2> HIDE DEF S
  <2> QED
    BY <2>1, <2>2, Induct
<1>4. \A n \in 0 .. MaxRates + 1 : B(n) \in Nat /\ \A r \in 0 .. n : B(r) <= B(n)
  BY <1>1, <1>3
<1> QED
  BY <1>4 DEF B

-----------------------------------------------------------------------------
(* The promise to the host *)

\* The attempts made for a frame follow from its rate and count; the attempt the MAC
\* has finished is among them, one it owes is not.  What waits in the down queue
\* has had none, and what has left it is not clipped.
TriesMade(f) ==
  IF sup[f] = Idle \/ f \in Elems(down) THEN tried[f] = 0 /\ rix[f] = 0
  ELSE /\ ~sup[f].clipped /\ cnt[f] \in 1 .. TriesAt(sup[f], rix[f])
       /\ tried[f] = Before(sup[f], rix[f]) + (IF own[f] = "HW" THEN cnt[f] - 1 ELSE cnt[f])
TriesCounted == \A f \in AllFrames : TriesMade(f)

\* A step that counts right and keeps the promise.
Serves == TriesCounted' /\ [Service!Next]_(Service!vars)

\* A frame whose tries a step leaves alone.
SameTries(f) ==
  /\ sup'[f] = sup[f] /\ rix'[f] = rix[f] /\ cnt'[f] = cnt[f]
  /\ own'[f] = own[f] /\ tried'[f] = tried[f]
  /\ f \in Elems(down') <=> f \in Elems(down)

\* A step that touches the tries of one frame.
LEMMA OthersKept ==
  ASSUME TriesCounted, NEW f \in AllFrames, TriesMade(f)',
         \A g \in AllFrames : g # f => SameTries(g)
  PROVE  TriesCounted'
<1>1. ASSUME NEW g \in AllFrames, g # f PROVE TriesMade(g)'
  BY <1>1 DEF TriesCounted, TriesMade, SameTries
<1> QED
  BY <1>1 DEF TriesCounted

\* A step the host does not see.
LEMMA NoneTouched ==
  ASSUME TriesCounted, UNCHANGED <<down, sup, rix, cnt, own, ctrl, tried, result>>
  PROVE  Serves
<1>1. TriesCounted'
  BY DEF TriesCounted, TriesMade
<1>2. UNCHANGED Service!vars
  BY DEF Service!vars
<1> QED
  BY <1>1, <1>2 DEF Serves

\* What the host sends is a job.
LEMMA ArriveServes ==
  ASSUME IInv, TriesCounted, NEW f \in Frames, NEW s \in Supers, Arrive(f, s)
  PROVE  Serves
<1>1. /\ sup[f] = Idle /\ f \in AllFrames
      /\ sup' = [sup EXCEPT ![f] = s]
      /\ down' = Append(down, f)
      /\ result' = [result EXCEPT ![f] = "none"]
      /\ UNCHANGED <<rix, cnt, own, ctrl, tried>>
  BY DEF Arrive, AllFrames
<1>2. down \in Seq(Frames) /\ sup \in [AllFrames -> Superframe \cup {Idle}]
  BY DEF IInv, TypeOK
<1>3. Elems(down') = Elems(down) \cup {f}
  BY <1>1, <1>2, AppendFacts
<1>4. TriesMade(f)'
  BY <1>1, <1>3 DEF TriesCounted, TriesMade
<1>5. \A g \in AllFrames : g # f => SameTries(g)
  BY <1>1, <1>2, <1>3 DEF SameTries
<1>6. Service!Accept(f, s)
  BY <1>1 DEF Service!Accept
<1> QED
  BY <1>1, <1>4, <1>5, <1>6, OthersKept DEF Serves, Service!Next

\* So is the BlockAck the firmware sends itself.
LEMMA SendBaServes ==
  ASSUME IInv, TriesCounted, SendBa
  PROVE  Serves
<1> DEFINE f == FwFrame
<1>1. /\ avail
      /\ sup' = [sup EXCEPT ![f] = BaSuper]
      /\ cnt' = [cnt EXCEPT ![f] = 1]
      /\ result' = [result EXCEPT ![f] = "none"]
      /\ UNCHANGED <<down, rix, own, ctrl, tried>>
  BY DEF SendBa
<1>2. /\ sup \in [AllFrames -> Superframe \cup {Idle}] /\ cnt \in [AllFrames -> Nat]
      /\ down \in Seq(Frames) /\ f \in AllFrames /\ f \notin Frames
  BY TxAssumption DEF IInv, TypeOK, AllFrames
<1>3. sup[f] = Idle /\ f \notin Elems(down)
  BY <1>1, <1>2, ElemsIn DEF IInv, Static, CountersAgree
<1>4. own[f] = "HW" /\ tried[f] = 0 /\ rix[f] = 0
  BY <1>2, <1>3, Waiting DEF TriesCounted, TriesMade
<1>5. BaSuper \in Superframe /\ BaSuper # Idle /\ ~BaSuper.clipped /\ TriesAt(BaSuper, 0) = 1
  <2>1. [tries |-> 1, ampdu |-> FALSE] \in Rate
    BY DEF Rate
  <2>2. [i \in 0 .. MaxRates |-> [tries |-> 1, ampdu |-> FALSE]] \in [0 .. MaxRates -> Rate]
    BY <2>1
  <2>3. 0 \in Vifs /\ 0 \in 0 .. MaxRates /\ 0 \in Nat /\ FwQueue \in Queues
    BY TxAssumption DEF Vifs
  <2>4. BaSuper \in Superframe
    BY <2>2, <2>3 DEF BaSuper, Superframe
  <2>5. BaSuper.ri[0].tries = 1
    BY <2>3 DEF BaSuper
  <2> QED
    BY <2>4, <2>5, TxAssumption DEF TriesAt, BaSuper
<1>6. TriesMade(f)'
  <2>1. Before(BaSuper, 0) = 0
    BY <1>5, BeforeSteps
  <2>2. sup'[f] = BaSuper /\ cnt'[f] = 1 /\ own'[f] = "HW" /\ tried'[f] = 0 /\ rix'[f] = 0
    BY <1>1, <1>2, <1>4
  <2>3. f \notin Elems(down')
    BY <1>1, <1>3
  <2> HIDE DEF f
  <2> QED
    BY <1>5, <2>1, <2>2, <2>3 DEF TriesMade
<1>7. \A g \in AllFrames : g # f => SameTries(g)
  BY <1>1, <1>2 DEF SameTries
<1>8. Service!Accept(f, BaSuper)
  BY <1>1, <1>3 DEF Service!Accept
<1> HIDE DEF f
<1> QED
  BY <1>2, <1>6, <1>7, <1>8, OthersKept DEF Serves, Service!Next

\* What is known of a frame the MAC may have tried.
LEMMA TriesOf ==
  ASSUME IInv, TriesCounted, NEW f \in AllFrames, sup[f] # Idle, f \notin Elems(down)
  PROVE  /\ sup[f] \in Superframe /\ ~sup[f].clipped
         /\ rix[f] \in 0 .. MaxRates /\ sup[f].last \in 0 .. MaxRates /\ rix[f] <= sup[f].last
         /\ TriesAt(sup[f], rix[f]) \in Nat \ {0} /\ cnt[f] \in 1 .. TriesAt(sup[f], rix[f])
         /\ Before(sup[f], rix[f]) \in Nat /\ tried[f] \in Nat
         /\ tried[f] = Before(sup[f], rix[f]) + (IF own[f] = "HW" THEN cnt[f] - 1 ELSE cnt[f])
         /\ Before(sup[f], rix[f] + 1) = Before(sup[f], rix[f]) + TriesAt(sup[f], rix[f])
         /\ Before(sup[f], rix[f] + 1) \in Nat /\ Attempts(sup[f]) \in Nat
         /\ Before(sup[f], rix[f] + 1) <= Attempts(sup[f])
<1>1. /\ sup[f] \in Superframe /\ sup[f].last \in 0 .. MaxRates
      /\ rix[f] \in 0 .. MaxRates /\ rix[f] <= sup[f].last /\ tried[f] \in Nat
  BY JobFields DEF IInv, TypeOK, Static, Contents
<1>2. /\ ~sup[f].clipped /\ cnt[f] \in 1 .. TriesAt(sup[f], rix[f])
      /\ tried[f] = Before(sup[f], rix[f]) + (IF own[f] = "HW" THEN cnt[f] - 1 ELSE cnt[f])
  BY DEF TriesCounted, TriesMade
<1>3. /\ TriesAt(sup[f], rix[f]) \in Nat \ {0}
      /\ Before(sup[f], rix[f] + 1) = Before(sup[f], rix[f]) + TriesAt(sup[f], rix[f])
  BY <1>1, BeforeSteps
<1>4. /\ rix[f] \in 0 .. MaxRates + 1 /\ rix[f] + 1 \in 0 .. sup[f].last + 1
      /\ rix[f] + 1 \in 0 .. MaxRates + 1 /\ sup[f].last + 1 \in 0 .. MaxRates + 1
  BY <1>1, TxAssumption
<1>5. /\ Before(sup[f], rix[f]) \in Nat /\ Before(sup[f], rix[f] + 1) \in Nat
      /\ Before(sup[f], sup[f].last + 1) \in Nat
      /\ Before(sup[f], rix[f] + 1) <= Before(sup[f], sup[f].last + 1)
  BY <1>1, <1>4, BeforeGrows
<1> QED
  BY <1>1, <1>2, <1>3, <1>5 DEF Attempts

\* A retry counts the attempt that failed and promises the next one.
LEMMA RetryServes ==
  ASSUME IInv, TriesCounted, TxRearm \/ TxRetryLater
  PROVE  Serves
<1>0. PICK f : f = Head(txq[ix])
  OBVIOUS
<1>1. /\ pc = "txc" /\ Completed(ix) /\ ctrl[f] # "ok" /\ ConsumeRetry(f)
      /\ UNCHANGED <<down, sup, tried, result>>
  BY <1>0 DEF TxRearm, TxRetryLater, UnlinkHead, queues, hist
<1>2. f \in AllFrames /\ own[f] = "SW" /\ sup[f] # Idle /\ f \notin Elems(down)
  BY <1>0, <1>1, HeadFacts
<1>3. /\ own \in [AllFrames -> {"HW", "SW"}] /\ ctrl \in [AllFrames -> {"ok", "TXFAIL", "BAFAIL"}]
      /\ rix \in [AllFrames -> 0 .. MaxRates] /\ cnt \in [AllFrames -> Nat]
  BY DEF IInv, TypeOK
<1>4. /\ own' = [own EXCEPT ![f] = "HW"] /\ ctrl' = [ctrl EXCEPT ![f] = "ok"]
      /\ ~AllSpent(f)
      /\ IF RateSpent(f) THEN rix' = [rix EXCEPT ![f] = rix[f] + 1] /\ cnt' = [cnt EXCEPT ![f] = 1]
                         ELSE cnt' = [cnt EXCEPT ![f] = cnt[f] + 1] /\ rix' = rix
  BY <1>1 DEF ConsumeRetry
<1>5. \A g \in AllFrames : g # f => SameTries(g)
  BY <1>1, <1>2, <1>3, <1>4 DEF SameTries
<1> DEFINE s == sup[f]
           r == rix[f]
           c == cnt[f]
           t == TriesAt(s, r)
           b == Before(s, r)
<1>6. /\ s \in Superframe /\ ~s.clipped /\ r \in 0 .. MaxRates /\ s.last \in 0 .. MaxRates
      /\ r <= s.last /\ t \in Nat \ {0} /\ c \in 1 .. t /\ b \in Nat
      /\ tried[f] = b + c /\ Before(s, r + 1) = b + t
  BY <1>2, TriesOf
<1>7. TriesMade(f)'
  <2>1. sup'[f] = s /\ s # Idle /\ f \notin Elems(down') /\ own'[f] = "HW" /\ tried'[f] = b + c
    BY <1>1, <1>2, <1>3, <1>4, <1>6
  <2>2. s.ri[r].tries \in Nat /\ t = IF s.ri[r].tries > 1 THEN s.ri[r].tries ELSE 1
    <3>1. s.ri \in [0 .. MaxRates -> Rate]
      BY <1>6 DEF Superframe
    <3> QED
      BY <1>6, <3>1 DEF TriesAt, Rate
  <2> DEFINE u == s.ri[r].tries
  <2>3. CASE RateSpent(f)
    <3>1. r # s.last /\ c >= u
      BY <1>4, <2>3 DEF AllSpent, RateSpent
    <3>2. c = t
      <4> HIDE DEF c, t, u, s, r
      <4> QED
        BY <1>6, <2>2, <3>1 DEF u
    <3>3. rix'[f] = r + 1 /\ cnt'[f] = 1
      BY <1>2, <1>3, <1>4, <2>3
    <3>4. r + 1 \in 0 .. MaxRates
      <4>1. r \in Nat /\ s.last \in Nat /\ s.last <= MaxRates /\ MaxRates \in Nat /\ r <= s.last
        BY <1>6, TxAssumption
      <4> HIDE DEF r
      <4> QED
        BY <3>1, <4>1
    <3>5. TriesAt(s, r + 1) \in Nat \ {0}
      BY <1>6, <3>4, BeforeSteps
    <3> DEFINE n == r + 1
    <3>6. /\ rix'[f] = n /\ TriesAt(s, n) \in Nat \ {0} /\ Before(s, n) = b + t
          /\ tried'[f] = b + t /\ b + t \in Nat
      BY <1>6, <2>1, <3>2, <3>3, <3>5
    <3> HIDE DEF s, r, c, t, b, n
    <3>7. 1 \in 1 .. TriesAt(s, n) /\ b + t = (b + t) + (1 - 1)
      BY <3>6
    <3> QED
      BY <1>6, <2>1, <3>3, <3>6, <3>7 DEF TriesMade
  <2>4. CASE ~RateSpent(f)
    <3>1. ~(c >= u)
      BY <2>4 DEF RateSpent
    <3> DEFINE n == c + 1
    <3>2. rix'[f] = r /\ cnt'[f] = n
      BY <1>2, <1>3, <1>4, <2>4
    <3>3. n \in 1 .. t /\ b + c = b + (n - 1)
      <4> HIDE DEF c, t, u, s, r, b
      <4> QED
        BY <1>6, <2>2, <3>1 DEF u
    <3> HIDE DEF c, s, r, b, n
    <3> QED
      BY <1>6, <2>1, <3>2, <3>3 DEF TriesMade, t, b
  <2> QED
    BY <2>3, <2>4
<1>8. UNCHANGED Service!vars
  <2>1. [g \in AllFrames |-> own'[g] = "SW" /\ ctrl'[g] = "ok"]
        = [g \in AllFrames |-> own[g] = "SW" /\ ctrl[g] = "ok"]
    BY <1>1, <1>2, <1>3, <1>4
  <2> QED
    BY <1>1, <2>1 DEF Service!vars
<1> QED
  BY <1>2, <1>5, <1>7, <1>8, OthersKept DEF Serves

\* A report leaves its packet idle and the others alone.
LEMMA RecycleServes ==
  ASSUME IInv, TriesCounted, NEW f \in AllFrames, NEW success \in BOOLEAN, Recycle(f, success),
         \A g \in AllFrames : g # f => (g \in Elems(down') <=> g \in Elems(down)),
         sup[f] # Idle,
         success <=> own[f] = "SW" /\ ctrl[f] = "ok",
         success \/ sup[f].clipped \/ tried[f] = Attempts(sup[f])
  PROVE  Serves
<1> DEFINE A == [g \in AllFrames |-> own[g] = "SW" /\ ctrl[g] = "ok"]
<1>1. /\ sup' = [sup EXCEPT ![f] = Idle] /\ rix' = [rix EXCEPT ![f] = 0]
      /\ cnt' = [cnt EXCEPT ![f] = 0] /\ own' = [own EXCEPT ![f] = "HW"]
      /\ ctrl' = [ctrl EXCEPT ![f] = "ok"] /\ tried' = [tried EXCEPT ![f] = 0]
      /\ result' = [result EXCEPT ![f] = IF success THEN "ok" ELSE "failed"]
  BY DEF Recycle
<1>2. /\ sup \in [AllFrames -> Superframe \cup {Idle}] /\ rix \in [AllFrames -> 0 .. MaxRates]
      /\ cnt \in [AllFrames -> Nat] /\ own \in [AllFrames -> {"HW", "SW"}]
      /\ ctrl \in [AllFrames -> {"ok", "TXFAIL", "BAFAIL"}] /\ tried \in [AllFrames -> Nat]
  BY DEF IInv, TypeOK
<1>3. TriesMade(f)'
  BY <1>1, <1>2 DEF TriesMade
<1>4. \A g \in AllFrames : g # f => SameTries(g)
  BY <1>1, <1>2 DEF SameTries
<1>5. Service!Report(f)
  <2>1. A' = [A EXCEPT ![f] = FALSE]
    BY <1>1, <1>2
  <2>2. A[f] <=> success
    OBVIOUS
  <2>3. result' = [result EXCEPT ![f] = IF A[f] THEN "ok" ELSE "failed"]
    BY <1>1, <2>2
  <2> QED
    BY <1>1, <2>1, <2>2, <2>3 DEF Service!Report, Clipped
<1> QED
  BY <1>3, <1>4, <1>5, OthersKept DEF Serves, Service!Next

\* A frame that went out or is out of tries is reported.
LEMMA TxDoneServes ==
  ASSUME IInv, TriesCounted, TxDone
  PROVE  Serves
<1>0. PICK f : f = Head(txq[ix])
  OBVIOUS
<1>1. /\ pc = "txc" /\ Completed(ix) /\ (ctrl[f] # "ok" => AllSpent(f))
      /\ Recycle(f, ctrl[f] = "ok") /\ down' = down
  BY <1>0 DEF TxDone
<1>2. f \in AllFrames /\ own[f] = "SW" /\ sup[f] # Idle /\ f \notin Elems(down)
  BY <1>0, <1>1, HeadFacts
<1>3. ASSUME ctrl[f] # "ok" PROVE tried[f] = Attempts(sup[f])
  <2> DEFINE s == sup[f]
             r == rix[f]
             c == cnt[f]
             t == TriesAt(s, r)
             b == Before(s, r)
  <2>1. /\ s \in Superframe /\ r \in 0 .. MaxRates /\ t \in Nat \ {0} /\ c \in 1 .. t
        /\ b \in Nat /\ tried[f] = b + c /\ Before(s, r + 1) = b + t
    BY <1>2, TriesOf
  <2>2. r = s.last /\ c >= s.ri[r].tries
    BY <1>1, <1>3 DEF AllSpent, RateSpent
  <2>3. s.ri[r].tries \in Nat /\ t = IF s.ri[r].tries > 1 THEN s.ri[r].tries ELSE 1
    <3>1. s.ri \in [0 .. MaxRates -> Rate]
      BY <2>1 DEF Superframe
    <3> QED
      BY <2>1, <3>1 DEF TriesAt, Rate
  <2> DEFINE u == s.ri[r].tries
  <2>4. c = t
    <3>1. u \in Nat /\ c >= u /\ t = IF u > 1 THEN u ELSE 1
      BY <2>2, <2>3
    <3> HIDE DEF c, t, u, s, r
    <3> QED
      BY <2>1, <3>1
  <2>5. Attempts(s) = Before(s, r + 1)
    BY <2>2 DEF Attempts
  <2> QED
    BY <2>1, <2>4, <2>5
<1>4. \A g \in AllFrames : g # f => (g \in Elems(down') <=> g \in Elems(down))
  BY <1>1
<1> DEFINE success == ctrl[f] = "ok"
<1>5. /\ success \in BOOLEAN /\ Recycle(f, success)
      /\ success <=> own[f] = "SW" /\ ctrl[f] = "ok"
      /\ success \/ sup[f].clipped \/ tried[f] = Attempts(sup[f])
  BY <1>1, <1>2, <1>3
<1> HIDE DEF success
<1> QED
  BY <1>2, <1>4, <1>5, RecycleServes

\* A clipped frame is reported without an attempt.
LEMMA DropServes ==
  ASSUME IInv, TriesCounted, DropClipped
  PROVE  Serves
<1>0. PICK f : f = Head(down)
  OBVIOUS
<1>1. /\ down # <<>> /\ down' = Tail(down) /\ sup[f].clipped /\ Recycle(f, FALSE)
  BY <1>0 DEF DropClipped
<1>2. /\ f \in AllFrames /\ sup[f] # Idle /\ own[f] = "HW"
      /\ Elems(down') = Elems(down) \ {f}
  BY <1>0, <1>1, LeavesDown
<1>3. \A g \in AllFrames : g # f => (g \in Elems(down') <=> g \in Elems(down))
  BY <1>2
<1> DEFINE success == FALSE
<1>4. /\ success \in BOOLEAN /\ Recycle(f, success)
      /\ success <=> own[f] = "SW" /\ ctrl[f] = "ok"
      /\ success \/ sup[f].clipped \/ tried[f] = Attempts(sup[f])
  BY <1>1, <1>2
<1> HIDE DEF success
<1> QED
  BY <1>2, <1>3, <1>4, RecycleServes

\* A frame that is accepted has its first attempt before it.
LEMMA WlanTxServes ==
  ASSUME IInv, TriesCounted, WlanTx
  PROVE  Serves
<1>0. PICK f : f = Head(down)
  OBVIOUS
<1>1. /\ down # <<>> /\ down' = Tail(down) /\ ~sup[f].clipped
      /\ cnt' = [cnt EXCEPT ![f] = 1]
      /\ UNCHANGED <<sup, rix, own, ctrl, tried, result>>
  BY <1>0 DEF WlanTx
<1>2. /\ f \in AllFrames /\ sup[f] # Idle /\ own[f] = "HW" /\ f \in Elems(down)
      /\ Elems(down') = Elems(down) \ {f} /\ sup[f] \in Superframe
  BY <1>0, <1>1, LeavesDown, JobFields DEF IInv
<1>3. tried[f] = 0 /\ rix[f] = 0
  BY <1>2 DEF TriesCounted, TriesMade
<1>4. cnt \in [AllFrames -> Nat] /\ 0 \in 0 .. MaxRates
  BY TxAssumption DEF IInv, TypeOK
<1>5. TriesMade(f)'
  <2>1. /\ sup'[f] = sup[f] /\ cnt'[f] = 1 /\ own'[f] = "HW" /\ tried'[f] = 0 /\ rix'[f] = 0
        /\ f \notin Elems(down')
    BY <1>1, <1>2, <1>3, <1>4
  <2>2. Before(sup[f], 0) = 0 /\ TriesAt(sup[f], 0) \in Nat \ {0}
    BY <1>2, <1>4, BeforeSteps
  <2>3. 1 \in 1 .. TriesAt(sup[f], 0)
    BY <2>2
  <2> QED
    BY <1>1, <1>2, <2>1, <2>2, <2>3 DEF TriesMade
<1>6. \A g \in AllFrames : g # f => SameTries(g)
  BY <1>1, <1>2, <1>4 DEF SameTries
<1>7. UNCHANGED Service!vars
  BY <1>1 DEF Service!vars
<1> QED
  BY <1>2, <1>5, <1>6, <1>7, OthersKept DEF Serves

\* The MAC makes the attempt that is owed.
LEMMA SendServes ==
  ASSUME IInv, TriesCounted, NEW q \in Queues, NEW outcome \in Outcomes, Send(q, outcome)
  PROVE  Serves
<1>1. PICK i \in DOMAIN txq[q] :
        /\ own[txq[q][i]] = "HW"
        /\ own' = [own EXCEPT ![txq[q][i]] = "SW"]
        /\ ctrl' = [ctrl EXCEPT ![txq[q][i]] = outcome]
        /\ tried' = [tried EXCEPT ![txq[q][i]] = @ + 1]
  BY DEF Send
<1>2. PICK f : f = txq[q][i]
  OBVIOUS
<1>3. /\ own[f] = "HW"
      /\ own' = [own EXCEPT ![f] = "SW"]
      /\ ctrl' = [ctrl EXCEPT ![f] = outcome]
      /\ tried' = [tried EXCEPT ![f] = tried[f] + 1]
      /\ UNCHANGED <<down, sup, rix, cnt, result>>
  BY <1>1, <1>2 DEF Send, queues
<1>4. f \in AllFrames /\ f \in Elems(txq[q])
  <2>1. txq[q] \in Seq(AllFrames)
    BY DEF IInv, TypeOK
  <2>2. f \in Elems(txq[q])
    BY <1>2 DEF Elems
  <2> QED
    BY <2>1, <2>2, ElemsIn
<1>5. sup[f] # Idle /\ InTx(f)
  BY <1>4 DEF IInv, Static, Located, InTx
<1>6. f \notin Elems(down)
  BY <1>5 DEF IInv, Static, Located
<1>7. /\ own \in [AllFrames -> {"HW", "SW"}] /\ ctrl \in [AllFrames -> {"ok", "TXFAIL", "BAFAIL"}]
      /\ tried \in [AllFrames -> Nat]
  BY DEF IInv, TypeOK
<1> DEFINE s == sup[f]
           r == rix[f]
           c == cnt[f]
           t == TriesAt(s, r)
           b == Before(s, r)
<1>8. /\ ~s.clipped /\ t \in Nat \ {0} /\ c \in 1 .. t /\ b \in Nat
      /\ tried[f] = b + (c - 1) /\ tried[f] \in Nat
      /\ Before(s, r + 1) = b + t /\ Before(s, r + 1) <= Attempts(s) /\ Attempts(s) \in Nat
  BY <1>3, <1>4, <1>5, <1>6, TriesOf
<1> HIDE DEF c, b, t
<1>9. tried[f] + 1 = b + c /\ tried[f] < Attempts(s)
  <2> HIDE DEF s, r
  <2> QED
    BY <1>8
<1>10. TriesMade(f)'
  <2>1. /\ sup'[f] = s /\ rix'[f] = r /\ cnt'[f] = c /\ own'[f] = "SW" /\ tried'[f] = b + c
        /\ f \notin Elems(down')
    BY <1>3, <1>4, <1>6, <1>7, <1>9 DEF c
  <2>2. s # Idle
    BY <1>5
  <2> HIDE DEF s, r
  <2> QED
    BY <1>8, <2>1, <2>2 DEF TriesMade, t, b
<1>11. \A g \in AllFrames : g # f => SameTries(g)
  BY <1>3, <1>7 DEF SameTries
<1>12. Service!Attempt(f, outcome = "ok")
  <2> DEFINE A == [g \in AllFrames |-> own[g] = "SW" /\ ctrl[g] = "ok"]
  <2>1. A' = [A EXCEPT ![f] = outcome = "ok"]
    BY <1>3, <1>4, <1>7
  <2>2. ~A[f]
    BY <1>3, <1>4
  <2> QED
    BY <1>3, <1>5, <1>8, <1>9, <2>1, <2>2 DEF Service!Attempt, Clipped
<1>13. \E ok \in BOOLEAN : Service!Attempt(f, ok)
  BY <1>12
<1> QED
  BY <1>4, <1>10, <1>11, <1>13, OthersKept DEF Serves, Service!Next

\* Every step counts right and keeps the promise.
LEMMA StepServes ==
  ASSUME IInv, TriesCounted, [Next]_vars
  PROVE  Serves
<1>1. CASE \/ TxRearm \/ TxRetryLater \/ TxDone \/ SendBa \/ DropClipped \/ WlanTx
           \/ \E f \in Frames, s \in Supers : Arrive(f, s)
           \/ \E q \in Queues, o \in Outcomes : Send(q, o)
  BY <1>1, RetryServes, TxDoneServes, SendBaServes, DropServes, WlanTxServes, ArriveServes, SendServes
<1>2. CASE \/ \E pretbtt \in BOOLEAN : AckInterrupt(pretbtt)
           \/ AmpduReset \/ Requeue \/ NextQueue \/ FlushOne \/ NextVif \/ NoBa \/ LeaveHost
           \/ Command \/ EndFlush \/ NoCommand \/ Tick \/ UNCHANGED vars
  <2>1. UNCHANGED <<down, sup, rix, cnt, own, ctrl, tried, result>>
    BY <1>2 DEF AckInterrupt, AmpduReset, Requeue, NextQueue, FlushOne, NextVif, NoBa, LeaveHost,
         Command, StartFlush, ModifyBeacon, EndFlush, NoCommand, Tick, vars, queues, frame, hist
  <2> QED
    BY <2>1, NoneTouched
<1> QED
  BY <1>1, <1>2 DEF Next, Firmware, TxStatus

\* At first nothing is accepted.
LEMMA StartsServing ==
  ASSUME Init
  PROVE  TriesCounted /\ Service!Init
<1>1. [f \in AllFrames |-> own[f] = "SW" /\ ctrl[f] = "ok"] = [f \in AllFrames |-> FALSE]
  BY DEF Init
<1> QED
  BY <1>1 DEF Init, TriesCounted, TriesMade, Service!Init

\* The transmit path keeps its promise to the host: a frame it accepts is tried
\* until it succeeds or its rates have used up their tries, and never once more, and
\* is then reported once, with the outcome of its last attempt, whatever is retried,
\* buffered or aggregated meanwhile (wlan_tx_consume_retry(), wlan_tx_status()).
THEOREM ImplementsService == Spec => ServiceSpec
<1>1. Init => IInv /\ TriesCounted /\ Service!Init
  BY InvInit, StartsServing
<1>2. IInv /\ TriesCounted /\ [Next]_vars => IInv' /\ TriesCounted' /\ [Service!Next]_(Service!vars)
  BY InvInductive, StepServes DEF Serves
<1> QED
  BY <1>1, <1>2, PTL DEF Spec, ServiceSpec, Service!Spec
=============================================================================
