---------------------------- MODULE AbstractUART ----------------------------
(***************************************************************************)
(* The UART of the HiFive and Linux platforms (platform/common/            *)
(* abstract_uart.cpp): two FIFOs between the SystemC kernel thread, which  *)
(* runs the guest's register accesses and the method interrupt, and two    *)
(* POSIX threads, receive and transmit; and its destructor, which stops    *)
(* them.                                                                   *)
(*                                                                         *)
(* Each access to a FIFO is under its mutex and does not block, so it is   *)
(* one step; the semaphore operations, the notifications and the checks of *)
(* stop are steps of their own.  The bytes of each direction are numbered  *)
(* in the order they enter the UART.                                       *)
(***************************************************************************)
EXTENDS Integers, Sequences

CONSTANTS
    Depth,      \* UART_FIFO_DEPTH
    Cnt,        \* the watermarks software writes
    MaxTx,      \* bound: bytes the guest sends
    Inputs      \* the inputs that become readable: how many bytes handle_input pushes for each

ASSUME UartAssumption ==
    /\ Depth \in Nat \ {0}
    /\ Cnt \subseteq Nat /\ 0 \in Cnt
    /\ MaxTx \in Nat
    /\ Inputs \in Seq(Nat)

VARIABLES
    tx_fifo, rx_fifo,
    txfull, rxempty,    \* the semaphores
    txcnt, rxcnt,       \* the watermarks of txctrl and rxctrl
    ie,                 \* the enabled interrupts
    update,             \* asyncEvent is notified
    trigger,            \* the local variable of interrupt
    noticed,            \* history: the watermarks the PLIC has been told of
    main,               \* where the kernel thread is
    txthr, txbyte,      \* where transmit is, its local data
    rcvthr, rcvbytes,   \* where receive is, what handle_input has still to push
    stop, stop_pipe,
    accepted, written,  \* history: bytes accepted from the guest, bytes written out
    arrived,            \* the inputs read so far
    pushed, received    \* history: bytes they made, bytes read by the guest

regs == <<txcnt, rxcnt, ie>>
txdir == <<tx_fifo, txfull, txthr, txbyte, accepted, written>>
rxdir == <<rx_fifo, rxempty, rcvthr, rcvbytes, arrived, pushed, received>>
irq == <<update, trigger, noticed>>
vars == <<regs, txdir, rxdir, irq, main, stop, stop_pipe>>

Source == {"tx", "rx"}

Init ==
    /\ tx_fifo = <<>> /\ rx_fifo = <<>>
    /\ txfull = 0 /\ rxempty = Depth
    /\ txcnt = 0 /\ rxcnt = 0 /\ ie = {}
    /\ update = FALSE /\ trigger = FALSE /\ noticed = {}
    /\ main = "run"
    /\ txthr = "loop" /\ txbyte = 0
    /\ rcvthr = "loop" /\ rcvbytes = <<>>
    /\ stop = FALSE /\ stop_pipe = FALSE
    /\ accepted = 0 /\ written = <<>>
    /\ arrived = 0 /\ pushed = 0 /\ received = <<>>

-----------------------------------------------------------------------------
(* The watermark conditions, as interrupt and a read of ip compute them. *)
TxWatermark == Len(tx_fifo) < txcnt
RxWatermark == Len(rx_fifo) > rxcnt

(* The enabled sources whose watermark is passed. *)
Passed == {s \in ie : IF s = "tx" THEN TxWatermark ELSE RxWatermark}

(* A watermark is forgotten once it is no longer passed. *)
Forget == noticed' = noticed \cap Passed'

-----------------------------------------------------------------------------
(* Register accesses of the guest. *)

(* Mutant: a write to a full FIFO overwrites the oldest byte. *)
WriteTxdataMutant ==
    /\ main = "run"
    /\ accepted < MaxTx
    /\ tx_fifo' = Append(IF Len(tx_fifo) = Depth THEN Tail(tx_fifo) ELSE tx_fifo, accepted + 1)
    /\ accepted' = accepted + 1
    /\ main' = "post"
    /\ UNCHANGED <<regs, txfull, txthr, txbyte, written, rxdir, update, trigger, stop, stop_pipe>>
    /\ Forget

(* A write of txdata; a write to a full FIFO is ignored. *)
WriteTxdata ==
    /\ main = "run"
    /\ accepted < MaxTx
    /\ Len(tx_fifo) < Depth
    /\ tx_fifo' = Append(tx_fifo, accepted + 1)
    /\ accepted' = accepted + 1
    /\ main' = "post"
    /\ UNCHANGED <<regs, txfull, txthr, txbyte, written, rxdir, update, trigger, stop, stop_pipe>>
    /\ Forget

(* Mutant: a binary semaphore. *)
PostedMutant == 1

(* The value of txfull after a spost. *)
Posted == txfull + 1

(* spost(&txfull), after txmtx is released *)
PostTxfull ==
    /\ main = "post"
    /\ txfull' = Posted
    /\ main' = "run"
    /\ UNCHANGED <<regs, tx_fifo, txthr, txbyte, accepted, written, rxdir, irq, stop, stop_pipe>>

(* A read of rxdata; an empty FIFO is only reported. *)
ReadRxdata ==
    /\ main = "run"
    /\ rx_fifo # <<>>
    /\ received' = Append(received, Head(rx_fifo))
    /\ rx_fifo' = Tail(rx_fifo)
    /\ rxempty' = rxempty + 1
    /\ UNCHANGED <<regs, txdir, rcvthr, rcvbytes, arrived, pushed, update, trigger, main, stop, stop_pipe>>
    /\ Forget

(* Writes of txctrl and rxctrl notify when the watermark is lowered.  That *)
(* can only make a receive watermark passed: a transmit watermark becomes  *)
(* passed when it is raised, of which the PLIC is not told (see README).   *)
WriteTxctrl(c) ==
    /\ main = "run"
    /\ txcnt' = c
    /\ update' = (update \/ c < txcnt)
    /\ UNCHANGED <<rxcnt, ie, txdir, rxdir, trigger, main, stop, stop_pipe>>
    /\ noticed' = (IF c > txcnt THEN noticed \cup {"tx"} ELSE noticed) \cap Passed'

WriteRxctrl(c) ==
    /\ main = "run"
    /\ rxcnt' = c
    /\ update' = (update \/ c < rxcnt)
    /\ UNCHANGED <<txcnt, ie, txdir, rxdir, trigger, main, stop, stop_pipe>>
    /\ Forget

WriteIe(set) ==
    /\ main = "run"
    /\ ie' = set
    /\ update' = TRUE
    /\ UNCHANGED <<txcnt, rxcnt, txdir, rxdir, trigger, main, stop, stop_pipe>>
    /\ Forget

-----------------------------------------------------------------------------
(* Mutant: the notification is consumed when the method ends. *)
ConsumedMutant == main = "interrupt"

(* The notification is consumed when the method starts. *)
Consumed == main = "run"

(* SC_METHOD interrupt: first rx_fifo, then tx_fifo, each under its mutex. *)
Interrupt ==
    /\ main = "run"
    /\ update
    /\ update' = ~Consumed
    /\ trigger' = ("rx" \in ie /\ RxWatermark)
    /\ main' = "interrupt"
    /\ UNCHANGED <<regs, txdir, rxdir, noticed, stop, stop_pipe>>

InterruptTx ==
    /\ main = "interrupt"
    /\ update' = (update /\ ~Consumed)
    /\ LET triggered == trigger \/ ("tx" \in ie /\ TxWatermark)
       IN  noticed' = IF triggered THEN Passed ELSE noticed
    /\ trigger' = FALSE
    /\ main' = "run"
    /\ UNCHANGED <<regs, txdir, rxdir, stop, stop_pipe>>

-----------------------------------------------------------------------------
(* The thread transmit. *)
TxLoop ==
    /\ txthr = "loop"
    /\ txthr' = IF stop THEN "done" ELSE "wait"
    /\ UNCHANGED <<regs, tx_fifo, txfull, txbyte, accepted, written, rxdir, irq, main, stop, stop_pipe>>

TxWait ==
    /\ txthr = "wait"
    /\ txfull > 0
    /\ txfull' = txfull - 1
    /\ txthr' = "woken"
    /\ UNCHANGED <<regs, tx_fifo, txbyte, accepted, written, rxdir, irq, main, stop, stop_pipe>>

TxWoken ==
    /\ txthr = "woken"
    /\ txthr' = IF stop THEN "done" ELSE "pop"
    /\ UNCHANGED <<regs, tx_fifo, txfull, txbyte, accepted, written, rxdir, irq, main, stop, stop_pipe>>

TxPop ==
    /\ txthr = "pop"
    /\ txbyte' = Head(tx_fifo)
    /\ tx_fifo' = Tail(tx_fifo)
    /\ txthr' = "notify"
    /\ UNCHANGED <<regs, txfull, accepted, written, rxdir, update, trigger, main, stop, stop_pipe>>
    /\ Forget

TxNotify ==
    /\ txthr = "notify"
    /\ update' = TRUE
    /\ txthr' = "write"
    /\ UNCHANGED <<regs, tx_fifo, txfull, txbyte, accepted, written, rxdir, trigger, noticed, main, stop, stop_pipe>>

(* write_data *)
TxWrite ==
    /\ txthr = "write"
    /\ written' = Append(written, txbyte)
    /\ txthr' = "loop"
    /\ UNCHANGED <<regs, tx_fifo, txfull, txbyte, accepted, rxdir, irq, main, stop, stop_pipe>>

Transmit == TxLoop \/ TxWait \/ TxWoken \/ TxPop \/ TxNotify \/ TxWrite

-----------------------------------------------------------------------------
(* The thread receive. *)
RxLoop ==
    /\ rcvthr = "loop"
    /\ rcvthr' = IF stop THEN "done" ELSE "poll"
    /\ UNCHANGED <<regs, txdir, rx_fifo, rxempty, rcvbytes, arrived, pushed, received, irq, main, stop, stop_pipe>>

(* poll returns: the stop pipe is looked at first, and ends the round. *)
RxPoll ==
    /\ rcvthr = "poll"
    /\ \/ /\ stop_pipe
          /\ rcvthr' = "loop"
          /\ UNCHANGED <<rcvbytes, arrived, pushed>>
       \/ /\ ~stop_pipe
          /\ arrived < Len(Inputs)
          /\ arrived' = arrived + 1
          /\ rcvbytes' = [i \in 1..Inputs[arrived + 1] |-> pushed + i]
          /\ pushed' = pushed + Inputs[arrived + 1]
          /\ rcvthr' = "push"
    /\ UNCHANGED <<regs, txdir, rx_fifo, rxempty, received, irq, main, stop, stop_pipe>>

(* swait(&rxempty) *)
TakeRoom == rxempty > 0 /\ rxempty' = rxempty - 1

(* Mutant: a byte that finds no room is dropped. *)
RxWaitMutant ==
    /\ rcvthr = "push"
    /\ IF rcvbytes = <<>> THEN rcvthr' = "loop" /\ UNCHANGED <<rxempty, rcvbytes>>
       ELSE IF rxempty = 0 THEN rcvbytes' = Tail(rcvbytes) /\ UNCHANGED <<rcvthr, rxempty>>
       ELSE rcvthr' = "store" /\ TakeRoom /\ UNCHANGED rcvbytes
    /\ UNCHANGED <<regs, txdir, rx_fifo, arrived, pushed, received, irq, main, stop, stop_pipe>>

(* rxpush, once for each byte. *)
RxWait ==
    /\ rcvthr = "push"
    /\ IF rcvbytes = <<>> THEN rcvthr' = "loop" /\ UNCHANGED rxempty
       ELSE rcvthr' = "store" /\ TakeRoom
    /\ UNCHANGED <<regs, txdir, rx_fifo, rcvbytes, arrived, pushed, received, irq, main, stop, stop_pipe>>

RxStore ==
    /\ rcvthr = "store"
    /\ rx_fifo' = Append(rx_fifo, Head(rcvbytes))
    /\ rcvbytes' = Tail(rcvbytes)
    /\ rcvthr' = "notify"
    /\ UNCHANGED <<regs, txdir, rxempty, arrived, pushed, received, update, trigger, main, stop, stop_pipe>>
    /\ Forget

RxNotify ==
    /\ rcvthr = "notify"
    /\ update' = TRUE
    /\ rcvthr' = "push"
    /\ UNCHANGED <<regs, txdir, rx_fifo, rxempty, rcvbytes, arrived, pushed, received, trigger, noticed, main, stop, stop_pipe>>

Receive == RxLoop \/ RxPoll \/ RxWait \/ RxStore \/ RxNotify

-----------------------------------------------------------------------------
(* The destructor, after the simulation ended. *)
Stop ==
    /\ main = "run"
    /\ stop' = TRUE
    /\ main' = "dtor"
    /\ UNCHANGED <<regs, txdir, rxdir, irq, stop_pipe>>

(* Mutant: the transmit thread is not unblocked. *)
UnblockedMutant == txfull

(* spost(&txfull) *)
Unblocked == txfull + 1

UnblockTx ==
    /\ main = "dtor"
    /\ txfull' = Unblocked
    /\ main' = "join tx"
    /\ UNCHANGED <<regs, tx_fifo, txthr, txbyte, accepted, written, rxdir, irq, stop, stop_pipe>>

JoinTx ==
    /\ main = "join tx"
    /\ txthr = "done"
    /\ main' = "pipe"
    /\ UNCHANGED <<regs, txdir, rxdir, irq, stop, stop_pipe>>

UnblockRx ==
    /\ main = "pipe"
    /\ stop_pipe' = TRUE
    /\ main' = "join rx"
    /\ UNCHANGED <<regs, txdir, rxdir, irq, stop>>

JoinRx ==
    /\ main = "join rx"
    /\ rcvthr = "done"
    /\ main' = "gone"
    /\ UNCHANGED <<regs, txdir, rxdir, irq, stop, stop_pipe>>

Destructor == UnblockTx \/ JoinTx \/ UnblockRx \/ JoinRx

-----------------------------------------------------------------------------
Guest ==
    \/ WriteTxdata
    \/ ReadRxdata
    \/ \E c \in Cnt : WriteTxctrl(c) \/ WriteRxctrl(c)
    \/ \E set \in SUBSET Source : WriteIe(set)

Kernel == PostTxfull \/ Interrupt \/ InterruptTx

Next == Guest \/ Kernel \/ Transmit \/ Receive \/ Stop \/ Destructor

Spec == Init /\ [][Next]_vars

(* The host schedules every thread; the guest need not do anything and the *)
(* simulation need not end.                                                *)
FairSpec ==
    /\ Spec
    /\ WF_vars(Kernel)
    /\ WF_vars(Transmit)
    /\ WF_vars(Receive)
    /\ WF_vars(Destructor)

-----------------------------------------------------------------------------
(* Properties. *)

(* The transmit thread never pops an empty FIFO, although the destructor   *)
(* posts the semaphore without a byte.                                     *)
PopsByte == txthr = "pop" => tx_fifo # <<>>

(* Every byte the guest wrote into a FIFO with room is written out once    *)
(* and in order, or still on its way.                                      *)
TxInOrder ==
    written \o (IF txthr \in {"notify", "write"} THEN <<txbyte>> ELSE <<>>) \o tx_fifo
        = [i \in 1..accepted |-> i]

(* The guest reads the bytes that arrived, once and in order. *)
RxInOrder == received \o rx_fifo \o rcvbytes = [i \in 1..pushed |-> i]

(* The semaphore counts the free places of rx_fifo, so the FIFO never      *)
(* exceeds its depth.                                                      *)
RxRoom ==
    IF rcvthr = "store" THEN rxempty + Len(rx_fifo) + 1 = Depth
    ELSE rxempty + Len(rx_fifo) = Depth

(* An enabled watermark that is passed has been reported to the PLIC since *)
(* it was passed, or a notification that makes interrupt look is on its    *)
(* way: no interleaving of the method with the threads loses one.          *)
WatermarkNoticed ==
    main = "run" =>
        \A s \in Passed \ noticed :
            update \/ (s = "tx" /\ txthr = "notify") \/ (s = "rx" /\ rcvthr = "notify")

(* The bytes accepted from the guest (at most MaxTx) are all written out   *)
(* in the end, unless the simulation ends first.                           *)
EventuallyWritten == []<>(stop \/ Len(written) = accepted)

(* The destructor always gets past the transmit thread, whatever is left   *)
(* in the FIFO, and past the receive thread if what that has in hand fits  *)
(* into rx_fifo.                                                           *)
InHand == Len(rcvbytes) - (IF rcvthr = "store" THEN 1 ELSE 0)
ShutdownReturns ==
    /\ stop ~> main \in {"join rx", "gone"}
    /\ (main = "join rx" /\ InHand <= rxempty) ~> main = "gone"

(* "unblock receive thread" (abstract_uart.cpp:78): the byte written to    *)
(* the stop pipe lets the destructor join the receive thread.              *)
ShutdownCompletes == stop ~> main = "gone"
=============================================================================
