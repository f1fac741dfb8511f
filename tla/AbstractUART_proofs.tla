------------------------- MODULE AbstractUART_proofs -------------------------
(***************************************************************************)
(* Proofs about the UART, for every FIFO depth, every watermark, any       *)
(* number of bytes and any input: through every interleaving of the guest, *)
(* the two threads and the destructor the semaphores count what they stand *)
(* for, bytes keep their order and no passed watermark goes unnoticed.     *)
(***************************************************************************)
EXTENDS AbstractUART, SequenceTheorems, TLAPS

(* Popping a byte leaves a sequence that is shorter by one. *)
LEMMA Popped ==
    ASSUME NEW q \in Seq(Nat), q # <<>>
    PROVE  Head(q) \in Nat /\ Tail(q) \in Seq(Nat) /\ Len(Tail(q)) = Len(q) - 1 /\ Len(q) > 0
  BY HeadTailProperties, EmptySeq

(* The receive side: rxempty is the number of free places. *)
RxInv ==
    /\ rx_fifo \in Seq(Nat)
    /\ received \in Seq(Nat)
    /\ rcvbytes \in Seq(Nat)
    /\ rxempty \in Nat
    /\ arrived \in 0..Len(Inputs)
    /\ pushed \in Nat
    /\ rcvthr \in {"loop", "poll", "push", "store", "notify", "done"}
    /\ rcvthr = "store" => rcvbytes # <<>>
    /\ RxRoom

LEMMA RxInvInit == Init => RxInv
  BY UartAssumption DEF Init, RxInv, RxRoom

(* What every step but a read of rxdata and the receive thread's leaves alone. *)
LEMMA RxFrame == Next => \/ ReadRxdata \/ Receive
                         \/ UNCHANGED rxdir
  BY DEF Next, Guest, Kernel, Transmit, Destructor, WriteTxdata, PostTxfull, WriteTxctrl,
         WriteRxctrl, WriteIe, Interrupt, InterruptTx, TxLoop, TxWait, TxWoken, TxPop,
         TxNotify, TxWrite, Stop, UnblockTx, JoinTx, UnblockRx, JoinRx

LEMMA RxInvNext == RxInv /\ [Next]_vars => RxInv'
<1> SUFFICES ASSUME RxInv, [Next]_vars PROVE RxInv'
  OBVIOUS
<1> USE UartAssumption DEF RxInv, RxRoom
<1>1. CASE ReadRxdata
  <2>1. /\ Head(rx_fifo) \in Nat /\ Tail(rx_fifo) \in Seq(Nat)
        /\ Len(Tail(rx_fifo)) = Len(rx_fifo) - 1
    BY <1>1, Popped DEF ReadRxdata
  <2>2. /\ rx_fifo' = Tail(rx_fifo) /\ rxempty' = rxempty + 1
        /\ received' = Append(received, Head(rx_fifo))
        /\ UNCHANGED <<rcvthr, rcvbytes, arrived, pushed>>
    BY <1>1 DEF ReadRxdata
  <2>3. received' \in Seq(Nat)
    BY <2>1, <2>2, AppendProperties
  <2>4. rx_fifo' \in Seq(Nat) /\ Len(rx_fifo') = Len(rx_fifo) - 1
    BY <2>1, <2>2
  <2>5. rxempty' = rxempty + 1 /\ rcvthr' = rcvthr
    BY <2>2
  <2>6. Len(rx_fifo) \in Nat /\ rxempty \in Nat /\ RxRoom
    BY LenProperties
  <2> HIDE UartAssumption DEF RxInv
  <2>7. RxRoom'
    BY <2>4, <2>5, <2>6
  <2> USE DEF RxInv
  <2> QED
    BY <2>2, <2>3, <2>4, <2>7
<1>2. CASE RxLoop
  BY <1>2 DEF RxLoop
<1>3. CASE RxPoll
  <2>1. CASE stop_pipe
    BY <1>3, <2>1 DEF RxPoll
  <2>2. CASE ~stop_pipe
    <3>1. Inputs[arrived + 1] \in Nat
      BY <1>3, <2>2 DEF RxPoll
    <3> DEFINE n == Inputs[arrived + 1]
    <3>2. /\ rcvbytes' = [i \in 1..n |-> pushed + i] /\ pushed' = pushed + n
          /\ arrived' = arrived + 1 /\ arrived < Len(Inputs) /\ rcvthr = "poll" /\ rcvthr' = "push"
          /\ UNCHANGED <<rx_fifo, rxempty, received>>
      BY <1>3, <2>2 DEF RxPoll
    <3> HIDE DEF n
    <3>3. n \in Nat
      BY <3>1 DEF n
    <3>4. [i \in 1..n |-> pushed + i] \in Seq(Nat)
      BY <3>3, SeqDef
    <3>5. rcvbytes' \in Seq(Nat) /\ pushed' \in Nat /\ arrived' \in 0..Len(Inputs)
      BY <3>2, <3>3, <3>4
    <3> QED
      BY <3>2, <3>5
  <2> QED
    BY <2>1, <2>2
<1>4. CASE RxWait
  BY <1>4 DEF RxWait, TakeRoom
<1>5. CASE RxStore
  BY <1>5 DEF RxStore
<1>6. CASE RxNotify
  BY <1>6 DEF RxNotify
<1>7. CASE UNCHANGED rxdir
  BY <1>7 DEF rxdir
<1>8. CASE UNCHANGED vars
  BY <1>8 DEF vars, rxdir
<1> QED
  BY <1>1, <1>2, <1>3, <1>4, <1>5, <1>6, <1>7, <1>8, RxFrame DEF Receive

(* The receive thread waits exactly for the free places of rx_fifo, so the *)
(* FIFO never holds more than Depth bytes.                                 *)
THEOREM RxRoomTheorem == Spec => [](RxRoom /\ Len(rx_fifo) <= Depth)
<1>1. RxInv => RxRoom /\ Len(rx_fifo) <= Depth
  BY UartAssumption DEF RxInv, RxRoom
<1> QED
  BY <1>1, RxInvInit, RxInvNext, PTL DEF Spec

-----------------------------------------------------------------------------
(* The transmit side.  As long as the simulation runs, txfull counts the   *)
(* bytes of tx_fifo that nobody has come for; the destructor's post breaks *)
(* that, but only after stop is set.                                       *)
Stopping == {"dtor", "join tx", "pipe", "join rx", "gone"}

Taken == {"woken", "pop"}

TxCredit ==
    /\ main = "post" /\ txthr \in Taken => Len(tx_fifo) = txfull + 2
    /\ main = "post" /\ txthr \notin Taken => Len(tx_fifo) = txfull + 1
    /\ main \in {"run", "interrupt"} /\ txthr \in Taken => Len(tx_fifo) = txfull + 1
    /\ main \in {"run", "interrupt"} /\ txthr \notin Taken => Len(tx_fifo) = txfull

TxInv ==
    /\ tx_fifo \in Seq(Nat) /\ Len(tx_fifo) <= Depth
    /\ txfull \in Nat
    /\ accepted \in Nat
    /\ txthr \in {"loop", "wait", "woken", "pop", "notify", "write", "done"}
    /\ main \in {"run", "post", "interrupt"} \cup Stopping
    /\ stop \in BOOLEAN
    /\ main \in Stopping => stop = TRUE
    /\ main \notin Stopping => stop = FALSE
    /\ TxCredit
    /\ PopsByte

LEMMA TxInvInit == Init => TxInv
<1> SUFFICES ASSUME Init PROVE TxInv
  OBVIOUS
<1>1. /\ tx_fifo \in Seq(Nat) /\ Len(tx_fifo) = 0 /\ Len(tx_fifo) <= Depth
      /\ txfull = 0 /\ txfull \in Nat /\ accepted \in Nat /\ txthr = "loop" /\ main = "run"
  BY UartAssumption DEF Init
<1>2. stop = FALSE
  BY DEF Init
<1>3. TxCredit /\ PopsByte
  BY <1>1 DEF TxCredit, PopsByte, Taken
<1> QED
  BY <1>1, <1>2, <1>3 DEF TxInv, Stopping

LEMMA TxInvNext == TxInv /\ [Next]_vars => TxInv'
<1> SUFFICES ASSUME TxInv, [Next]_vars PROVE TxInv'
  OBVIOUS
<1> USE UartAssumption DEF TxInv, TxCredit, PopsByte, Stopping, Taken
<1>1. CASE WriteTxdata
  <2>1. /\ tx_fifo' = Append(tx_fifo, accepted + 1) /\ accepted' = accepted + 1
        /\ Len(tx_fifo) < Depth /\ main = "run" /\ main' = "post" /\ UNCHANGED <<txfull, txthr>>
    BY <1>1 DEF WriteTxdata
  <2>2. UNCHANGED stop
    BY <1>1 DEF WriteTxdata
  <2>3. Append(tx_fifo, accepted + 1) \in Seq(Nat)
    <3>1. accepted \in Nat /\ tx_fifo \in Seq(Nat)
      OBVIOUS
    <3> HIDE UartAssumption DEF TxInv
    <3> QED
      BY <3>1, AppendProperties
  <2>4. Len(tx_fifo') = Len(tx_fifo) + 1 /\ Len(tx_fifo) \in Nat
    BY <2>1, LenProperties, AppendProperties
  <2>5. Len(tx_fifo') <= Depth
    BY <2>1, <2>4
  <2>6. TxCredit'
    BY <2>1, <2>4
  <2>7. PopsByte'
    BY <2>1, <2>4
  <2> HIDE DEF TxCredit, PopsByte
  <2> QED
    BY <2>1, <2>2, <2>3, <2>5, <2>6, <2>7
<1>2. CASE PostTxfull
  BY <1>2 DEF PostTxfull, Posted
<1>3. CASE TxLoop
  BY <1>3 DEF TxLoop
<1>4. CASE TxWait
  <2>1. /\ txfull > 0 /\ txfull' = txfull - 1 /\ txthr = "wait" /\ txthr' = "woken"
        /\ UNCHANGED <<tx_fifo, accepted, main, stop>>
    BY <1>4 DEF TxWait
  <2>2. Len(tx_fifo) \in Nat /\ txfull \in Nat /\ TxCredit
    BY LenProperties
  <2> HIDE UartAssumption DEF TxInv
  <2>3. TxCredit'
    BY <2>1, <2>2
  <2>4. txfull' \in Nat
    BY <2>1, <2>2
  <2> HIDE DEF TxCredit
  <2> QED
    BY <2>1, <2>3, <2>4 DEF TxInv
<1>5. CASE TxWoken
  <2>0. txthr = "woken" /\ UNCHANGED <<tx_fifo, txfull, accepted, main, stop>>
    BY <1>5 DEF TxWoken
  <2>1. /\ txthr = "woken" /\ UNCHANGED <<tx_fifo, txfull, accepted, main>>
        /\ \/ txthr' = "done" /\ main \in Stopping
           \/ txthr' = "pop" /\ main \in {"run", "post", "interrupt"}
    <3>1. CASE stop = TRUE
      <4>1. main \in Stopping
        BY <3>1
      <4>2. txthr' = "done"
        BY <1>5, <3>1 DEF TxWoken
      <4> QED
        BY <2>0, <4>1, <4>2
    <3>2. CASE stop # TRUE
      <4>1. main \in {"run", "post", "interrupt"}
        BY <3>2
      <4>2. txthr' = "pop"
        BY <1>5, <3>2 DEF TxWoken
      <4> QED
        BY <2>0, <4>1, <4>2
    <3> QED
      BY <3>1, <3>2
  <2>2. Len(tx_fifo) \in Nat /\ txfull \in Nat /\ TxCredit
    BY LenProperties
  <2>3. Len(<<>>) = 0
    OBVIOUS
  <2> HIDE UartAssumption DEF TxInv
  <2>4. TxCredit'
    BY <2>1, <2>2
  <2>5. txthr' = "pop" => Len(tx_fifo) > 0
    BY <2>1, <2>2
  <2>6. PopsByte'
    BY <2>1, <2>3, <2>5
  <2> HIDE DEF TxCredit, PopsByte
  <2> QED
    BY <2>0, <2>1, <2>4, <2>6 DEF TxInv
<1>6. CASE TxPop
  <2>1. /\ tx_fifo' = Tail(tx_fifo) /\ txthr = "pop" /\ txthr' = "notify"
        /\ UNCHANGED <<txfull, accepted, main, stop>>
    BY <1>6 DEF TxPop
  <2>2. Tail(tx_fifo) \in Seq(Nat) /\ Len(Tail(tx_fifo)) = Len(tx_fifo) - 1
    BY <2>1, Popped
  <2>3. tx_fifo' \in Seq(Nat) /\ Len(tx_fifo') = Len(tx_fifo) - 1
    BY <2>1, <2>2
  <2>4. /\ Len(tx_fifo) \in Nat /\ Len(tx_fifo') \in Nat /\ Len(tx_fifo) <= Depth
        /\ Depth \in Nat /\ txfull \in Nat /\ TxCredit
    BY <2>3, LenProperties
  <2>5. txthr = "pop" /\ txthr' = "notify" /\ UNCHANGED <<txfull, accepted, main, stop>>
    BY <2>1
  <2> HIDE UartAssumption DEF TxInv
  <2>6. TxCredit'
    BY <2>3, <2>4, <2>5
  <2>7. Len(tx_fifo') <= Depth
    BY <2>3, <2>4
  <2> HIDE DEF TxCredit
  <2> QED
    BY <2>3, <2>5, <2>6, <2>7 DEF TxInv
<1>7. CASE TxNotify
  BY <1>7 DEF TxNotify
<1>8. CASE TxWrite
  BY <1>8 DEF TxWrite
<1>9. CASE Stop
  BY <1>9 DEF Stop, txdir
<1>10. CASE UnblockTx
  <2>1. /\ main = "dtor" /\ main' = "join tx" /\ txfull' = txfull + 1
        /\ UNCHANGED <<tx_fifo, txthr, accepted, stop>>
    BY <1>10 DEF UnblockTx, Unblocked
  <2>2. TxCredit'
    BY <2>1
  <2>3. txfull \in Nat
    OBVIOUS
  <2> HIDE UartAssumption DEF TxInv, TxCredit
  <2>4. txfull' = txfull + 1
    BY <2>1
  <2>5. txfull' \in Nat
    BY <2>3, <2>4
  <2> QED
    BY <2>1, <2>2, <2>5 DEF TxInv
<1>11. CASE JoinTx \/ UnblockRx \/ JoinRx
  BY <1>11 DEF JoinTx, UnblockRx, JoinRx, txdir
<1>12. CASE Interrupt \/ InterruptTx
  BY <1>12 DEF Interrupt, InterruptTx, txdir
<1>13. CASE UNCHANGED <<txdir, main, stop>>
  BY <1>13 DEF txdir
<1>14. CASE Receive \/ ReadRxdata
  <2>1. UNCHANGED <<txdir, main, stop>>
    BY <1>14 DEF Receive, ReadRxdata, RxLoop, RxPoll, RxWait, RxStore, RxNotify
  <2> QED
    BY <2>1, <1>13
<1>15. CASE \E c \in Cnt : WriteTxctrl(c) \/ WriteRxctrl(c)
  <2>1. UNCHANGED <<txdir, main, stop>>
    BY <1>15 DEF WriteTxctrl, WriteRxctrl
  <2> QED
    BY <2>1, <1>13
<1>16. CASE \E set \in SUBSET Source : WriteIe(set)
  <2>1. UNCHANGED <<txdir, main, stop>>
    BY <1>16 DEF WriteIe
  <2> QED
    BY <2>1, <1>13
<1>17. CASE UNCHANGED vars
  BY <1>17, <1>13 DEF vars
<1> QED
  BY <1>1, <1>2, <1>3, <1>4, <1>5, <1>6, <1>7, <1>8, <1>9, <1>10, <1>11, <1>12, <1>14, <1>15,
     <1>16, <1>17 DEF Next, Guest, Kernel, Transmit, Destructor

(* The transmit thread never pops an empty FIFO, although the destructor   *)
(* posts txfull without a byte.                                            *)
THEOREM PopsByteTheorem == Spec => []PopsByte
<1>1. TxInv => PopsByte
  BY DEF TxInv
<1> QED
  BY <1>1, TxInvInit, TxInvNext, PTL DEF Spec

-----------------------------------------------------------------------------
(* The bytes 1 to n in order. *)
UpTo(n) == [i \in 1..n |-> i]

LEMMA UpToSeq == ASSUME NEW n \in Nat PROVE UpTo(n) \in Seq(Nat) /\ Len(UpTo(n)) = n
<1>1. UpTo(n) \in [1..n -> Nat]
  BY DEF UpTo
<1>2. UpTo(n) \in Seq(Nat)
  BY <1>1, SeqDef
<1>3. DOMAIN UpTo(n) = 1..n
  BY DEF UpTo
<1>4. Len(UpTo(n)) \in Nat /\ DOMAIN UpTo(n) = 1..Len(UpTo(n))
  BY <1>2, LenProperties
<1> QED
  BY <1>2, <1>3, <1>4

LEMMA UpToAppend == ASSUME NEW n \in Nat PROVE Append(UpTo(n), n + 1) = UpTo(n + 1)
<1>1. /\ UpTo(n) \in Seq(Nat) /\ Len(UpTo(n)) = n
      /\ UpTo(n + 1) \in Seq(Nat) /\ Len(UpTo(n + 1)) = n + 1
  BY UpToSeq
<1>2. /\ Append(UpTo(n), n + 1) \in Seq(Nat) /\ Len(Append(UpTo(n), n + 1)) = n + 1
      /\ \A i \in 1..n : Append(UpTo(n), n + 1)[i] = UpTo(n)[i]
      /\ Append(UpTo(n), n + 1)[n + 1] = n + 1
  BY <1>1, AppendProperties
<1>3. \A i \in 1..n + 1 : Append(UpTo(n), n + 1)[i] = UpTo(n + 1)[i]
  BY <1>2 DEF UpTo
<1> QED
  BY <1>1, <1>2, <1>3, SeqEqual

LEMMA UpToConcat ==
    ASSUME NEW m \in Nat, NEW n \in Nat
    PROVE  UpTo(m) \o [i \in 1..n |-> m + i] = UpTo(m + n)
<1> DEFINE t == [i \in 1..n |-> m + i]
<1>1. t \in Seq(Nat) /\ Len(t) = n
  <2>1. t \in [1..n -> Nat] /\ DOMAIN t = 1..n
    OBVIOUS
  <2>2. t \in Seq(Nat)
    BY <2>1, SeqDef
  <2>3. Len(t) \in Nat /\ DOMAIN t = 1..Len(t)
    BY <2>2, LenProperties
  <2> HIDE DEF t
  <2> QED
    BY <2>1, <2>2, <2>3
<1>2. /\ UpTo(m) \in Seq(Nat) /\ Len(UpTo(m)) = m
      /\ UpTo(m + n) \in Seq(Nat) /\ Len(UpTo(m + n)) = m + n
  BY UpToSeq
<1>3. \A i \in 1..n : t[i] = m + i
  OBVIOUS
<1> HIDE DEF t
<1> DEFINE u == UpTo(m)
<1> HIDE DEF u
<1>4. /\ u \o t \in Seq(Nat) /\ Len(u \o t) = m + n
      /\ \A i \in 1..m + n : (u \o t)[i] = IF i <= m THEN u[i] ELSE t[i - m]
  <2>1. u \in Seq(Nat) /\ Len(u) = m
    BY <1>2 DEF u
  <2>2. /\ u \o t \in Seq(Nat) /\ Len(u \o t) = Len(u) + Len(t)
        /\ \A i \in 1..Len(u) + Len(t) :
              (u \o t)[i] = IF i <= Len(u) THEN u[i] ELSE t[i - Len(u)]
    BY <1>1, <2>1, ConcatProperties, Zenon
  <2> QED
    BY <1>1, <2>1, <2>2, Zenon
<1>5. \A i \in 1..m + n : (u \o t)[i] = UpTo(m + n)[i]
  BY <1>3, <1>4 DEF u, UpTo
<1>6. u \o t = UpTo(m + n)
  BY <1>2, <1>4, <1>5, SeqEqual
<1> QED
  BY <1>6 DEF t, u

LEMMA HeadTail ==
    ASSUME NEW q \in Seq(Nat), q # <<>>
    PROVE  q = <<Head(q)>> \o Tail(q)
<1>1. /\ Head(q) \in Nat /\ Tail(q) \in Seq(Nat) /\ Len(Tail(q)) = Len(q) - 1
      /\ \A i \in 1..Len(Tail(q)) : Tail(q)[i] = q[i + 1]
      /\ Len(q) \in Nat /\ Len(q) > 0
  BY HeadTailProperties, EmptySeq
<1>2. <<Head(q)>> \in Seq(Nat) /\ Len(<<Head(q)>>) = 1 /\ <<Head(q)>>[1] = Head(q)
  BY <1>1
<1>3. Head(q) = q[1]
  OBVIOUS
<1> DEFINE h == <<Head(q)>>
           r == Tail(q)
<1> HIDE DEF h, r
<1>4. /\ h \o r \in Seq(Nat) /\ Len(h \o r) = Len(q)
      /\ \A i \in 1..Len(q) : (h \o r)[i] = IF i <= 1 THEN h[i] ELSE r[i - 1]
  <2>1. h \in Seq(Nat) /\ r \in Seq(Nat) /\ Len(h) = 1 /\ Len(r) = Len(q) - 1
    BY <1>1, <1>2 DEF h, r
  <2>2. Len(h) + Len(r) = Len(q)
    BY <1>1, <2>1
  <2>3. /\ h \o r \in Seq(Nat) /\ Len(h \o r) = Len(h) + Len(r)
        /\ \A i \in 1..Len(h) + Len(r) :
              (h \o r)[i] = IF i <= Len(h) THEN h[i] ELSE r[i - Len(h)]
    BY <2>1, ConcatProperties, Zenon
  <2> QED
    BY <2>1, <2>2, <2>3, Zenon
<1>5. \A i \in 1..Len(q) : (h \o r)[i] = q[i]
  BY <1>1, <1>2, <1>3, <1>4 DEF h, r
<1> QED
  BY <1>4, <1>5, SeqEqual DEF h, r

LEMMA Associative ==
    ASSUME NEW a \in Seq(Nat), NEW b \in Seq(Nat), NEW c \in Seq(Nat)
    PROVE  (a \o b) \o c = a \o (b \o c)
  BY ConcatAssociative

(* A byte moves from the front of one sequence to the end of another. *)
LEMMA Moved ==
    ASSUME NEW a \in Seq(Nat), NEW q \in Seq(Nat), q # <<>>
    PROVE  Append(a, Head(q)) \o Tail(q) = a \o q
<1> DEFINE h == <<Head(q)>>
           r == Tail(q)
<1>1. Head(q) \in Nat /\ r \in Seq(Nat) /\ h \in Seq(Nat)
  BY HeadTailProperties
<1>2. Append(a, Head(q)) = a \o h
  BY <1>1, AppendIsConcat
<1>3. q = h \o r
  BY HeadTail
<1> HIDE DEF h, r
<1>4. (a \o h) \o r = a \o (h \o r)
  BY <1>1, Associative
<1> QED
  BY <1>2, <1>3, <1>4 DEF r

LEMMA AppendConcat ==
    ASSUME NEW a \in Seq(Nat), NEW b \in Seq(Nat), NEW x \in Nat
    PROVE  a \o Append(b, x) = Append(a \o b, x)
<1>1. Append(b, x) = b \o <<x>> /\ <<x>> \in Seq(Nat)
  BY AppendIsConcat
<1>2. a \o b \in Seq(Nat)
  BY ConcatProperties
<1>3. Append(a \o b, x) = (a \o b) \o <<x>>
  BY <1>2, AppendIsConcat
<1>4. (a \o b) \o <<x>> = a \o (b \o <<x>>)
  BY <1>1, ConcatAssociative
<1> QED
  BY <1>1, <1>3, <1>4

-----------------------------------------------------------------------------
(* The order of the bytes sent. *)
InFlight == IF txthr \in {"notify", "write"} THEN <<txbyte>> ELSE <<>>

TxOrder ==
    /\ written \in Seq(Nat)
    /\ txbyte \in Nat
    /\ TxInOrder

LEMMA TxOrderInit == Init => TxOrder
<1> SUFFICES ASSUME Init PROVE TxOrder
  OBVIOUS
<1>1. <<>> \in Seq(Nat) /\ (<<>> \o <<>>) \o <<>> = <<>>
  BY EmptySeq, ConcatEmptySeq
<1>2. [i \in 1..0 |-> i] = <<>>
  OBVIOUS
<1> QED
  BY <1>1, <1>2 DEF Init, TxOrder, TxInOrder

LEMMA TxOrderNext == TxInv /\ TxOrder /\ [Next]_vars => TxOrder'
<1> SUFFICES ASSUME TxInv, TxOrder, [Next]_vars PROVE TxOrder'
  OBVIOUS
<1>0. /\ tx_fifo \in Seq(Nat) /\ written \in Seq(Nat) /\ txbyte \in Nat /\ accepted \in Nat
      /\ InFlight \in Seq(Nat) /\ (written \o InFlight) \o tx_fifo = UpTo(accepted)
  <2>1. InFlight \in Seq(Nat)
    BY EmptySeq DEF TxOrder, InFlight
  <2> QED
    BY <2>1 DEF TxInv, TxOrder, TxInOrder, InFlight, UpTo
<1>1. ASSUME UNCHANGED <<written, txbyte, tx_fifo, accepted>>, InFlight' = InFlight
      PROVE  TxOrder'
  BY <1>0, <1>1 DEF TxOrder, TxInOrder, InFlight, UpTo
<1>2. ASSUME UNCHANGED txdir PROVE TxOrder'
  BY <1>1, <1>2 DEF txdir, InFlight
<1>3. CASE WriteTxdata
  <2>1. /\ tx_fifo' = Append(tx_fifo, accepted + 1) /\ accepted' = accepted + 1
        /\ UNCHANGED <<txthr, txbyte, written>>
    BY <1>3 DEF WriteTxdata
  <2> DEFINE a == written \o InFlight
  <2>2. a \in Seq(Nat) /\ a \o tx_fifo = UpTo(accepted)
    BY <1>0, ConcatProperties
  <2> HIDE DEF a
  <2>3. a \o Append(tx_fifo, accepted + 1) = Append(a \o tx_fifo, accepted + 1)
    BY <1>0, <2>2, AppendConcat
  <2>4. a \o tx_fifo' = UpTo(accepted')
    BY <1>0, <2>1, <2>2, <2>3, UpToAppend
  <2> QED
    BY <1>0, <2>1, <2>4 DEF a, TxOrder, TxInOrder, InFlight, UpTo
<1>4. CASE TxPop
  <2>1. /\ txbyte' = Head(tx_fifo) /\ tx_fifo' = Tail(tx_fifo)
        /\ txthr = "pop" /\ txthr' = "notify" /\ UNCHANGED <<accepted, written>>
    BY <1>4 DEF TxPop
  <2>2. tx_fifo # <<>>
    BY <2>1 DEF TxInv, PopsByte
  <2>3. Head(tx_fifo) \in Nat
    BY <1>0, <2>2, Popped
  <2>4. Append(written, Head(tx_fifo)) \o Tail(tx_fifo) = written \o tx_fifo
    BY <1>0, <2>2, Moved
  <2>5. Append(written, Head(tx_fifo)) = written \o <<Head(tx_fifo)>>
    BY <1>0, <2>3, AppendIsConcat
  <2>6. written \o tx_fifo = UpTo(accepted)
    <3>1. InFlight = <<>>
      BY <2>1 DEF InFlight
    <3>2. written \o <<>> = written
      BY <1>0, ConcatEmptySeq
    <3> QED
      BY <1>0, <3>1, <3>2
  <2>7. (written \o <<txbyte'>>) \o tx_fifo' = UpTo(accepted)
    BY <2>1, <2>4, <2>5, <2>6
  <2> QED
    BY <1>0, <2>1, <2>3, <2>7 DEF TxOrder, TxInOrder, UpTo
<1>5. CASE TxWrite
  <2>1. /\ written' = Append(written, txbyte) /\ txthr = "write" /\ txthr' = "loop"
        /\ UNCHANGED <<txbyte, tx_fifo, accepted>>
    BY <1>5 DEF TxWrite
  <2>2. Append(written, txbyte) = written \o <<txbyte>> /\ Append(written, txbyte) \in Seq(Nat)
    BY <1>0, AppendIsConcat, AppendProperties
  <2>3. (written \o <<txbyte>>) \o tx_fifo = UpTo(accepted)
    BY <1>0, <2>1 DEF InFlight
  <2>4. written' \o <<>> = written'
    BY <2>1, <2>2, ConcatEmptySeq
  <2>5. (written' \o <<>>) \o tx_fifo' = UpTo(accepted)
    BY <2>1, <2>2, <2>3, <2>4
  <2> QED
    BY <1>0, <2>1, <2>2, <2>5 DEF TxOrder, TxInOrder, UpTo
<1>6. CASE TxLoop \/ TxWait \/ TxWoken \/ TxNotify
  BY <1>1, <1>6 DEF TxLoop, TxWait, TxWoken, TxNotify, InFlight
<1>7. CASE PostTxfull \/ UnblockTx
  BY <1>1, <1>7 DEF PostTxfull, UnblockTx, InFlight
<1>8. CASE \/ ReadRxdata \/ Interrupt \/ InterruptTx \/ Receive \/ Stop \/ JoinTx
           \/ UnblockRx \/ JoinRx
  BY <1>2, <1>8 DEF ReadRxdata, Interrupt, InterruptTx, Receive, RxLoop, RxPoll, RxWait, RxStore,
                    RxNotify, Stop, JoinTx, UnblockRx, JoinRx
<1>9. CASE \E c \in Cnt : WriteTxctrl(c) \/ WriteRxctrl(c)
  BY <1>2, <1>9 DEF WriteTxctrl, WriteRxctrl
<1>10. CASE \E set \in SUBSET Source : WriteIe(set)
  BY <1>2, <1>10 DEF WriteIe
<1>11. CASE UNCHANGED vars
  BY <1>2, <1>11 DEF vars
<1> QED
  BY <1>3, <1>4, <1>5, <1>6, <1>7, <1>8, <1>9, <1>10, <1>11
  DEF Next, Guest, Kernel, Transmit, Destructor

(* Every byte a guest writes to txdata while there is room goes out once   *)
(* and in order, whatever the watermarks, the interrupts and the receive   *)
(* side do.                                                                *)
THEOREM TxInOrderTheorem == Spec => []TxInOrder
<1>1. TxOrder => TxInOrder
  BY DEF TxOrder
<1> QED
  BY <1>1, TxInvInit, TxInvNext, TxOrderInit, TxOrderNext, PTL DEF Spec

-----------------------------------------------------------------------------
(* The order of the bytes received: the receive thread polls again only    *)
(* when it has pushed everything it has read.                              *)
RxOrder ==
    /\ rcvthr \in {"loop", "poll", "done"} => rcvbytes = <<>>
    /\ RxInOrder

LEMMA RxOrderInit == Init => RxOrder
<1> SUFFICES ASSUME Init PROVE RxOrder
  OBVIOUS
<1>1. <<>> \in Seq(Nat) /\ (<<>> \o <<>>) \o <<>> = <<>>
  BY EmptySeq, ConcatEmptySeq
<1>2. [i \in 1..0 |-> i] = <<>>
  OBVIOUS
<1> QED
  BY <1>1, <1>2 DEF Init, RxOrder, RxInOrder

LEMMA RxOrderNext == RxInv /\ RxOrder /\ [Next]_vars => RxOrder'
<1> SUFFICES ASSUME RxInv, RxOrder, [Next]_vars PROVE RxOrder'
  OBVIOUS
<1>0. /\ rx_fifo \in Seq(Nat) /\ received \in Seq(Nat) /\ rcvbytes \in Seq(Nat) /\ pushed \in Nat
      /\ received \o rx_fifo \in Seq(Nat)
      /\ (received \o rx_fifo) \o rcvbytes = UpTo(pushed)
      /\ rcvthr \in {"loop", "poll", "done"} => rcvbytes = <<>>
  <2>1. rx_fifo \in Seq(Nat) /\ received \in Seq(Nat) /\ rcvbytes \in Seq(Nat) /\ pushed \in Nat
    BY DEF RxInv
  <2>2. received \o rx_fifo \in Seq(Nat)
    BY <2>1, ConcatProperties
  <2> QED
    BY <2>1, <2>2 DEF RxOrder, RxInOrder, UpTo
<1>1. ASSUME UNCHANGED <<rx_fifo, received, rcvbytes, pushed>>,
             rcvthr' \in {"loop", "poll", "done"} => rcvbytes = <<>>
      PROVE  RxOrder'
  BY <1>1 DEF RxOrder, RxInOrder
<1>2. ASSUME UNCHANGED rxdir PROVE RxOrder'
  BY <1>0, <1>1, <1>2 DEF rxdir
<1>3. CASE ReadRxdata
  <2>1. /\ rx_fifo # <<>> /\ received' = Append(received, Head(rx_fifo))
        /\ rx_fifo' = Tail(rx_fifo) /\ UNCHANGED <<rcvthr, rcvbytes, pushed>>
    BY <1>3 DEF ReadRxdata
  <2>2. received' \o rx_fifo' = received \o rx_fifo
    BY <1>0, <2>1, Moved
  <2> QED
    BY <1>0, <2>1, <2>2 DEF RxOrder, RxInOrder, UpTo
<1>4. CASE RxPoll
  <2>1. CASE stop_pipe
    BY <1>0, <1>1, <1>4, <2>1 DEF RxPoll
  <2>2. CASE ~stop_pipe
    <3> DEFINE n == Inputs[arrived + 1]
               t == [i \in 1..n |-> pushed + i]
    <3>1. n \in Nat
      BY <1>4, <2>2, UartAssumption DEF RxPoll, RxInv
    <3>2. /\ rcvbytes' = t /\ pushed' = pushed + n
          /\ rcvthr = "poll" /\ rcvthr' = "push" /\ UNCHANGED <<rx_fifo, received>>
      BY <1>4, <2>2 DEF RxPoll
    <3>3. UpTo(pushed) \o t = UpTo(pushed + n)
      BY <1>0, <3>1, UpToConcat
    <3> HIDE DEF n, t
    <3>4. received \o rx_fifo = UpTo(pushed)
      <4>1. (received \o rx_fifo) \o <<>> = received \o rx_fifo
        BY <1>0, ConcatEmptySeq
      <4> QED
        BY <1>0, <3>2, <4>1
    <3>5. (received' \o rx_fifo') \o rcvbytes' = UpTo(pushed')
      BY <3>2, <3>3, <3>4
    <3> QED
      BY <3>2, <3>5 DEF RxOrder, RxInOrder, UpTo
  <2> QED
    BY <2>1, <2>2
<1>5. CASE RxStore
  <2>1. /\ rcvthr = "store" /\ rcvthr' = "notify" /\ rcvbytes # <<>>
        /\ rx_fifo' = Append(rx_fifo, Head(rcvbytes)) /\ rcvbytes' = Tail(rcvbytes)
        /\ UNCHANGED <<received, pushed>>
    BY <1>5 DEF RxStore, RxInv
  <2>2. Head(rcvbytes) \in Nat
    BY <1>0, <2>1, Popped
  <2>3. received \o Append(rx_fifo, Head(rcvbytes)) = Append(received \o rx_fifo, Head(rcvbytes))
    BY <1>0, <2>2, AppendConcat
  <2>4. Append(received \o rx_fifo, Head(rcvbytes)) \o Tail(rcvbytes)
            = (received \o rx_fifo) \o rcvbytes
    BY <1>0, <2>1, Moved
  <2>5. (received' \o rx_fifo') \o rcvbytes' = UpTo(pushed')
    BY <1>0, <2>1, <2>3, <2>4
  <2> QED
    BY <2>1, <2>5 DEF RxOrder, RxInOrder, UpTo
<1>6. CASE RxLoop \/ RxWait \/ RxNotify
  BY <1>0, <1>1, <1>6 DEF RxLoop, RxWait, RxNotify
<1>7. CASE UNCHANGED vars
  BY <1>2, <1>7 DEF vars
<1> QED
  BY <1>2, <1>3, <1>4, <1>5, <1>6, <1>7, RxFrame DEF Receive

(* The guest reads from rxdata the bytes that arrived, once and in order,  *)
(* whatever the inputs and however often rx_fifo fills up.                 *)
THEOREM RxInOrderTheorem == Spec => []RxInOrder
<1>1. RxOrder => RxInOrder
  BY DEF RxOrder
<1> QED
  BY <1>1, RxInvInit, RxInvNext, RxOrderInit, RxOrderNext, PTL DEF Spec

-----------------------------------------------------------------------------
(* The interrupts.  A source that has to be reported is passed, enabled    *)
(* and not noticed; while interrupt is between its two FIFOs, a receive    *)
(* watermark may live in its local variable only, and the transmit         *)
(* watermark is still to be looked at.                                     *)
NeedTx == "tx" \in ie /\ TxWatermark /\ "tx" \notin noticed
NeedRx == "rx" \in ie /\ RxWatermark /\ "rx" \notin noticed

Noticing ==
    /\ txcnt \in Nat /\ rxcnt \in Nat
    /\ ie \subseteq Source
    /\ main \in {"run", "post"} =>
        /\ NeedTx => update \/ txthr = "notify"
        /\ NeedRx => update \/ rcvthr = "notify"
    /\ main = "interrupt" => (NeedRx => update \/ rcvthr = "notify" \/ trigger)

LEMMA PassedSources ==
    ASSUME ie \subseteq Source
    PROVE  /\ Passed \subseteq Source
           /\ "tx" \in Passed <=> "tx" \in ie /\ TxWatermark
           /\ "rx" \in Passed <=> "rx" \in ie /\ RxWatermark
  BY DEF Passed, Source

(* What a step that changes a FIFO or a register leaves noticed. *)
LEMMA ForgetKeeps ==
    ASSUME ie' \subseteq Source, Forget
    PROVE  /\ NeedTx' <=> "tx" \in ie' /\ TxWatermark' /\ "tx" \notin noticed
           /\ NeedRx' <=> "rx" \in ie' /\ RxWatermark' /\ "rx" \notin noticed
<1>1. /\ "tx" \in Passed' <=> "tx" \in ie' /\ TxWatermark'
      /\ "rx" \in Passed' <=> "rx" \in ie' /\ RxWatermark'
  BY DEF Passed, Source
<1> QED
  BY <1>1 DEF Forget, NeedTx, NeedRx

LEMMA NoticingNext == TxInv /\ RxInv /\ Noticing /\ [Next]_vars => Noticing'
<1> SUFFICES ASSUME TxInv, RxInv, Noticing, [Next]_vars PROVE Noticing'
  OBVIOUS
<1>0. /\ txcnt \in Nat /\ rxcnt \in Nat /\ ie \subseteq Source
      /\ Len(tx_fifo) \in Nat /\ Len(rx_fifo) \in Nat
      /\ main \in {"run", "post"} =>
            /\ NeedTx => update \/ txthr = "notify"
            /\ NeedRx => update \/ rcvthr = "notify"
      /\ main = "interrupt" => (NeedRx => update \/ rcvthr = "notify" \/ trigger)
  BY LenProperties DEF Noticing, TxInv, RxInv
<1>1. CASE WriteTxdata
  <2>1. /\ tx_fifo' = Append(tx_fifo, accepted + 1) /\ main = "run" /\ main' = "post"
        /\ UNCHANGED <<txcnt, rxcnt, ie, txthr, rcvthr, rx_fifo, update, trigger>> /\ Forget
    BY <1>1 DEF WriteTxdata, regs, rxdir
  <2>2. Len(tx_fifo') = Len(tx_fifo) + 1
    BY <2>1, AppendProperties DEF TxInv
  <2>3. (TxWatermark' => TxWatermark) /\ (RxWatermark' <=> RxWatermark)
    BY <1>0, <2>1, <2>2 DEF TxWatermark, RxWatermark
  <2> QED
    BY <1>0, <2>1, <2>3, ForgetKeeps DEF Noticing, NeedTx, NeedRx
<1>2. CASE PostTxfull
  BY <1>0, <1>2 DEF PostTxfull, regs, rxdir, irq, Noticing, NeedTx, NeedRx, TxWatermark, RxWatermark
<1>3. CASE ReadRxdata
  <2>1. /\ rx_fifo # <<>> /\ rx_fifo' = Tail(rx_fifo) /\ main = "run" /\ main' = "run"
        /\ UNCHANGED <<txcnt, rxcnt, ie, txthr, rcvthr, tx_fifo, update, trigger>> /\ Forget
    BY <1>3 DEF ReadRxdata, regs, txdir
  <2>2. Len(rx_fifo') = Len(rx_fifo) - 1
    BY <2>1, Popped DEF RxInv
  <2>3. (TxWatermark' <=> TxWatermark) /\ (RxWatermark' => RxWatermark)
    BY <1>0, <2>1, <2>2 DEF TxWatermark, RxWatermark
  <2> QED
    BY <1>0, <2>1, <2>3, ForgetKeeps DEF Noticing, NeedTx, NeedRx
<1>4. ASSUME NEW c \in Cnt, WriteTxctrl(c) PROVE Noticing'
  <2>1. /\ txcnt' = c /\ c \in Nat /\ main = "run" /\ main' = "run"
        /\ update' = (update \/ c < txcnt)
        /\ noticed' = (IF c > txcnt THEN noticed \cup {"tx"} ELSE noticed) \cap Passed'
        /\ UNCHANGED <<rxcnt, ie, txthr, rcvthr, tx_fifo, rx_fifo, trigger>>
    BY <1>4, UartAssumption DEF WriteTxctrl, txdir, rxdir
  <2>2. /\ "tx" \in Passed' <=> "tx" \in ie /\ TxWatermark'
        /\ "rx" \in Passed' <=> "rx" \in ie /\ RxWatermark'
    BY <2>1 DEF Passed
  <2>3. NeedRx' => NeedRx
    BY <2>1, <2>2 DEF NeedRx, RxWatermark
  <2>4. NeedTx' => c <= txcnt /\ "tx" \notin noticed
    BY <1>0, <2>1, <2>2 DEF NeedTx
  <2>5. NeedTx' /\ c = txcnt => NeedTx
    BY <2>1, <2>4 DEF NeedTx, TxWatermark
  <2>6. NeedTx' => update' \/ txthr' = "notify"
    <3>1. NeedTx' => c < txcnt \/ NeedTx
      BY <1>0, <2>1, <2>4, <2>5
    <3>2. update' <=> update \/ c < txcnt
      BY <2>1
    <3> QED
      BY <1>0, <2>1, <3>1, <3>2
  <2> QED
    BY <1>0, <2>1, <2>3, <2>6 DEF Noticing
<1>5. ASSUME NEW c \in Cnt, WriteRxctrl(c) PROVE Noticing'
  <2>1. /\ rxcnt' = c /\ c \in Nat /\ main = "run" /\ main' = "run"
        /\ update' = (update \/ c < rxcnt) /\ Forget
        /\ UNCHANGED <<txcnt, ie, txthr, rcvthr, tx_fifo, rx_fifo, trigger>>
    BY <1>5, UartAssumption DEF WriteRxctrl, txdir, rxdir
  <2>2. NeedTx' => NeedTx
    BY <1>0, <2>1, ForgetKeeps DEF NeedTx, TxWatermark
  <2>3. NeedRx' /\ ~(c < rxcnt) => NeedRx
    BY <1>0, <2>1, ForgetKeeps DEF NeedRx, RxWatermark
  <2> QED
    BY <1>0, <2>1, <2>2, <2>3 DEF Noticing
<1>6. ASSUME NEW set \in SUBSET Source, WriteIe(set) PROVE Noticing'
  BY <1>0, <1>6 DEF WriteIe, Noticing
<1>7. CASE Interrupt
  <2>1. NeedRx' => trigger'
    BY <1>7 DEF Interrupt, NeedRx, RxWatermark, regs, rxdir
  <2> QED
    BY <1>0, <1>7, <2>1 DEF Interrupt, regs, Noticing
<1>8. CASE InterruptTx
  <2>1. /\ main = "interrupt" /\ main' = "run" /\ (update' <=> update)
        /\ UNCHANGED <<txcnt, rxcnt, ie, txthr, rcvthr, tx_fifo, rx_fifo>>
        /\ noticed' = IF trigger \/ ("tx" \in ie /\ TxWatermark) THEN Passed ELSE noticed
    <3>1. main = "interrupt" /\ update' = (update /\ ~Consumed)
      BY <1>8 DEF InterruptTx
    <3>2. ~Consumed
      BY <3>1 DEF Consumed
    <3> QED
      BY <1>8, <3>1, <3>2 DEF InterruptTx, regs, txdir, rxdir
  <2>2. (TxWatermark' <=> TxWatermark) /\ (RxWatermark' <=> RxWatermark)
    BY <2>1 DEF TxWatermark, RxWatermark
  <2>3. CASE trigger \/ ("tx" \in ie /\ TxWatermark)
    <3>1. ~NeedTx' /\ ~NeedRx'
      BY <1>0, <2>1, <2>2, <2>3, PassedSources DEF NeedTx, NeedRx
    <3> QED
      BY <1>0, <2>1, <3>1 DEF Noticing
  <2>4. CASE ~trigger /\ ~("tx" \in ie /\ TxWatermark)
    <3>1. ~NeedTx' /\ (NeedRx' => NeedRx)
      BY <2>1, <2>2, <2>4 DEF NeedTx, NeedRx
    <3> QED
      BY <1>0, <2>1, <2>4, <3>1 DEF Noticing
  <2> QED
    BY <2>3, <2>4
<1>9. CASE TxPop
  <2>1. /\ txthr' = "notify"
        /\ UNCHANGED <<txcnt, rxcnt, ie, rcvthr, rx_fifo, update, trigger, main>> /\ Forget
    BY <1>9 DEF TxPop, regs, rxdir
  <2>2. NeedRx' => NeedRx
    BY <1>0, <2>1, ForgetKeeps DEF NeedRx, RxWatermark
  <2> QED
    BY <1>0, <2>1, <2>2 DEF Noticing
<1>10. CASE RxStore
  <2>1. /\ rcvthr' = "notify"
        /\ UNCHANGED <<txcnt, rxcnt, ie, txthr, tx_fifo, update, trigger, main>> /\ Forget
    BY <1>10 DEF RxStore, regs, txdir
  <2>2. NeedTx' => NeedTx
    BY <1>0, <2>1, ForgetKeeps DEF NeedTx, TxWatermark
  <2> QED
    BY <1>0, <2>1, <2>2 DEF Noticing
<1>11. CASE TxNotify \/ RxNotify
  BY <1>0, <1>11 DEF TxNotify, RxNotify, regs, Noticing
<1>12. CASE Stop \/ Destructor
  <2>1. main' \notin {"run", "post", "interrupt"} /\ UNCHANGED regs
    BY <1>12 DEF Stop, Destructor, UnblockTx, JoinTx, UnblockRx, JoinRx
  <2> QED
    BY <1>0, <2>1 DEF Noticing, regs
<1>13. ASSUME UNCHANGED <<regs, tx_fifo, rx_fifo, irq, main>>,
              txthr' = "notify" \/ txthr # "notify", rcvthr' = "notify" \/ rcvthr # "notify"
       PROVE  Noticing'
  BY <1>0, <1>13 DEF Noticing, NeedTx, NeedRx, TxWatermark, RxWatermark, regs, irq
<1>14. CASE TxLoop \/ TxWait \/ TxWoken \/ TxWrite
  BY <1>13, <1>14 DEF TxLoop, TxWait, TxWoken, TxWrite, rxdir
<1>15. CASE RxLoop \/ RxPoll \/ RxWait
  BY <1>13, <1>15 DEF RxLoop, RxPoll, RxWait, txdir
<1>16. CASE UNCHANGED vars
  BY <1>13, <1>16 DEF vars, txdir, rxdir
<1> QED
  BY <1>1, <1>2, <1>3, <1>4, <1>5, <1>6, <1>7, <1>8, <1>9, <1>10, <1>11, <1>12, <1>14, <1>15,
     <1>16 DEF Next, Guest, Kernel, Transmit, Receive

(* No enabled watermark that is passed goes unreported: whatever the       *)
(* interleaving of the method interrupt with the two threads, the PLIC has *)
(* been told or a notification is on its way.                              *)
THEOREM WatermarkNoticedTheorem == Spec => []WatermarkNoticed
<1>1. Init => Noticing
  BY DEF Init, Noticing, NeedTx, NeedRx
<1>2. Noticing => WatermarkNoticed
  <2> SUFFICES ASSUME Noticing, main = "run", NEW s \in Passed \ noticed
               PROVE  update \/ (s = "tx" /\ txthr = "notify") \/ (s = "rx" /\ rcvthr = "notify")
    BY DEF WatermarkNoticed
  <2>1. s \in Source /\ (s = "tx" => NeedTx) /\ (s = "rx" => NeedRx)
    BY PassedSources DEF Noticing, NeedTx, NeedRx
  <2> QED
    BY <2>1 DEF Noticing, Source
<1> QED
  BY <1>1, <1>2, TxInvInit, TxInvNext, RxInvInit, RxInvNext, NoticingNext, PTL DEF Spec
=============================================================================
