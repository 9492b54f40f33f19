------------------------------ MODULE SpiLink -------------------------------
(***************************************************************************)
(* The SPI driver of the bare-metal core (cascoda_spi.c) between the main  *)
(* loop, the interrupt handlers and a CA-8211, with the part of            *)
(* cascoda_dispatch.c that reads from it.                                  *)
(*                                                                         *)
(* Every exchange goes both ways: sending a command also fetches what the  *)
(* chip has to say.  Indications go to a ring of buffers that the main     *)
(* loop empties, an answer to the buffer of the synchronous call that      *)
(* waits.  A read without a command is started by the interrupt handler    *)
(* and finished by DMA while the main program goes on.                     *)
(*                                                                         *)
(* What runs with RFIRQ disabled is one step: only the chip and the DMA go *)
(* on meanwhile, and it waits for both.  The chip holds RFIRQ high while   *)
(* it cannot be accessed; a falling edge is latched until it is served.    *)
(***************************************************************************)
EXTENDS Integers, Sequences

CONSTANTS
    SPI_RX_FIFO_SIZE, SPI_RX_FIFO_RESV,
    Kinds,        \* kinds of synchronous command
    MayFail,      \* may the chip stop answering for longer than SPI_T_TIMEOUT?
    MaxInd,       \* bound: indications from the chip
    MaxSends,     \* bound: commands sent
    MaxFlash      \* bound: uses of the bus for the external flash

ASSUME SpiAssumption ==
    /\ SPI_RX_FIFO_SIZE \in Nat /\ SPI_RX_FIFO_RESV \in Nat
    /\ SPI_RX_FIFO_RESV < SPI_RX_FIFO_SIZE
    /\ Kinds \cap {"ind", "async", "NULL", "SPI_IDLE"} = {}
    /\ MayFail \in BOOLEAN
    /\ MaxInd \in Nat /\ MaxSends \in Nat /\ MaxFlash \in Nat

VARIABLES
    \* ---- cascoda_spi.c
    SPI_Receive_Buffer, SPI_FIFO_Start, SPI_FIFO_End, SPI_FIFO_Full, waterMark,
    filling,        \* what the DMA fills: ExchangeInProgress if not "nothing"
    SPI_Wait_Buf,   \* the answer received so far, or NULL
    SpiExternallyInUse,
    \* ---- cascoda_dispatch.c and the main program
    isReadPending,
    pc,             \* where DISPATCH_FromCA821x is
    hand,           \* the message the callbacks were given
    call,           \* the synchronous command being waited for
    result,         \* the last one's outcome
    \* ---- the chip
    inbox, outbox, rfirq, edge,
    \* ---- history and bounds
    delivered, dropped, made, sends, burst, timedOut, flashes

ring   == <<SPI_Receive_Buffer, SPI_FIFO_Start, SPI_FIFO_End, SPI_FIFO_Full,
            waterMark>>
main   == <<pc, hand, call, result>>
chip   == <<inbox, outbox, rfirq, edge>>
counts == <<delivered, made, sends, burst, timedOut, flashes>>
vars   == <<ring, filling, SPI_Wait_Buf, SpiExternallyInUse, isReadPending, main,
            chip, dropped, counts>>

----------------------------------------------------------------------------
(* Messages: an indication is its number, an answer that of its command.   *)

NULL == [kind |-> "NULL", n |-> 0]
IDLE == [kind |-> "SPI_IDLE", n |-> 0]
Ind(n)    == [kind |-> "ind", n |-> n]
Cmd(k, n) == [kind |-> k, n |-> n]      \* the answer has the command's kind
IsInd(m)  == m.kind = "ind"
IsAnswer(m) == m.kind \in Kinds

Slots   == 0..SPI_RX_FIFO_SIZE - 1
Next1(i) == (i + 1) % SPI_RX_FIFO_SIZE

ExchangeInProgress == filling # "nothing"

----------------------------------------------------------------------------
(* The ring of receive buffers.                                            *)

SPI_IsFifoEmpty == SPI_FIFO_Start = SPI_FIFO_End /\ ~SPI_FIFO_Full
\* the only buffer in use is still being filled
SPI_IsSingleFifoBufInUse == SPI_FIFO_End = Next1(SPI_FIFO_Start) /\ ExchangeInProgress

\* mutant: one reserved slot less
AlmostFullShort ==
    IF SPI_Wait_Buf # NULL THEN SPI_FIFO_Full
    ELSE \/ SPI_FIFO_Full
         \/ \E i \in 1..SPI_RX_FIFO_RESV - 1 :
                SPI_FIFO_Start = (SPI_FIFO_End + i) % SPI_RX_FIFO_SIZE
SPI_IsFifoAlmostFull ==
    IF SPI_Wait_Buf # NULL THEN SPI_FIFO_Full
    ELSE \/ SPI_FIFO_Full
         \/ \E i \in 1..SPI_RX_FIFO_RESV :
                SPI_FIFO_Start = (SPI_FIFO_End + i) % SPI_RX_FIFO_SIZE

\* SPI_GetFreeBuf finds a buffer, and message m goes there
SPI_GetFreeBuf(m) ==
    /\ ~SPI_FIFO_Full
    /\ SPI_Receive_Buffer' = [SPI_Receive_Buffer EXCEPT ![SPI_FIFO_End] = m]
    /\ SPI_FIFO_End' = Next1(SPI_FIFO_End)
    /\ waterMark' = waterMark + 1
    /\ SPI_FIFO_Full' = (SPI_FIFO_Start = SPI_FIFO_End')
    /\ UNCHANGED SPI_FIFO_Start

----------------------------------------------------------------------------
(* SPI_Exchange.                                                           *)

Received == IF outbox = <<>> THEN IDLE ELSE Head(outbox)

\* getBuf: where the message the chip sends goes.  wait is SPI_Wait_Buf as the
\* caller left it.  Without a buffer the message is not stored.
getBuf(wait) ==
    \/ /\ IsInd(Received) /\ SPI_GetFreeBuf(Received)
       /\ SPI_Wait_Buf' = wait /\ UNCHANGED dropped
    \/ /\ IsInd(Received) /\ SPI_FIFO_Full
       /\ dropped' = dropped \cup {Received.n}
       /\ SPI_Wait_Buf' = wait /\ UNCHANGED ring
    \/ /\ IsAnswer(Received) \/ Received = IDLE
       /\ SPI_Wait_Buf' = IF IsAnswer(Received) /\ wait # NULL THEN Received ELSE wait
       /\ UNCHANGED <<ring, dropped>>

HasBuffer(wait) ==
    \/ IsInd(Received) /\ ~SPI_FIFO_Full
    \/ IsAnswer(Received) /\ wait # NULL

Fetched == outbox' = IF outbox = <<>> THEN <<>> ELSE Tail(outbox)

\* SPI_WaitSlave succeeds: the chip can be accessed
Accessible == ~ExchangeInProgress /\ ~rfirq

\* With a command: all of it is done when SPI_Exchange returns.  The chip is
\* then busy with the command.
ExchangeCommand(c, wait) ==
    /\ Accessible
    /\ getBuf(wait)
    /\ Fetched
    /\ inbox' = Append(inbox, c)
    /\ rfirq' = TRUE
    /\ UNCHANGED <<filling, edge>>

\* Without one: the two bytes read so far tell whether there is anything to
\* fetch, and the DMA is left to fetch it.
ExchangeNothing ==
    /\ Accessible
    /\ getBuf(SPI_Wait_Buf)
    /\ Fetched
    /\ filling' = IF ~HasBuffer(SPI_Wait_Buf) THEN "nothing"
                  ELSE IF IsInd(Received) THEN "fifo" ELSE "answer"
    /\ rfirq' = (~HasBuffer(SPI_Wait_Buf) /\ outbox' # <<>>)
    /\ UNCHANGED <<inbox>>

\* the DMA has finished: SPI_ExchangeComplete.  The chip needs a moment before
\* it offers what else it has.
SPI_ExchangeComplete ==
    /\ ExchangeInProgress
    /\ filling' = "nothing"
    /\ rfirq' = (outbox # <<>>)
    /\ UNCHANGED <<ring, SPI_Wait_Buf, SpiExternallyInUse, isReadPending, main, inbox,
                   outbox, edge, dropped, counts>>

----------------------------------------------------------------------------
(* DISPATCH_ReadCA821x, from the interrupt handler and from the main loop. *)

MayRead == ~rfirq /\ ~SPI_IsFifoAlmostFull /\ ~SpiExternallyInUse

\* mutant: a read that cannot be made is forgotten
NotePendingNot == isReadPending' = FALSE
NotePending == isReadPending' = TRUE

DISPATCH_ReadCA821x ==
    \/ /\ ExchangeInProgress
       /\ UNCHANGED <<ring, filling, SPI_Wait_Buf, isReadPending, inbox, outbox, rfirq,
                      dropped>>
    \/ /\ ~ExchangeInProgress /\ MayRead
       /\ ExchangeNothing
       /\ isReadPending' = FALSE
    \/ /\ ~ExchangeInProgress /\ ~MayRead /\ ~rfirq
       /\ NotePending
       /\ UNCHANGED <<ring, filling, SPI_Wait_Buf, inbox, outbox, rfirq, dropped>>
    \/ /\ ~ExchangeInProgress /\ rfirq
       /\ isReadPending' = FALSE
       /\ UNCHANGED <<ring, filling, SPI_Wait_Buf, inbox, outbox, rfirq, dropped>>

\* GPC_IRQHandler
Interrupt ==
    /\ edge
    /\ edge' = FALSE
    /\ DISPATCH_ReadCA821x
    /\ UNCHANGED <<SpiExternallyInUse, main, counts>>

----------------------------------------------------------------------------
(* DISPATCH_FromCA821x.                                                    *)

Goto(place) == pc' = place

BeginDispatch ==
    /\ pc = "loop" /\ call = NULL
    /\ Goto("peek")
    /\ UNCHANGED <<ring, filling, SPI_Wait_Buf, SpiExternallyInUse, isReadPending, hand,
                   call, result, chip, dropped, counts>>

\* mutant: a buffer in use is a buffer that is ready
PeekAnyBuf == ~SPI_IsFifoEmpty
SPI_PeekFullBuf == ~SPI_IsFifoEmpty /\ ~SPI_IsSingleFifoBufInUse

\* the oldest message goes to the callbacks, which read it where it is
BeginCallback ==
    /\ pc = "peek"
    /\ SPI_PeekFullBuf
    /\ hand' = SPI_Receive_Buffer[SPI_FIFO_Start]
    /\ Goto("callback")
    /\ UNCHANGED <<ring, filling, SPI_Wait_Buf, SpiExternallyInUse, isReadPending, call,
                   result, chip, dropped, counts>>

\* the callbacks return; SPI_DequeueFullBuf
\* mutant: everything received meanwhile is dequeued with it
DequeueAll ==
    /\ SPI_FIFO_Start' = SPI_FIFO_End
    /\ SPI_FIFO_Full' = FALSE
    /\ waterMark' = 0
    /\ UNCHANGED <<SPI_Receive_Buffer, SPI_FIFO_End>>
SPI_DequeueFullBuf ==
    /\ SPI_FIFO_Start' = Next1(SPI_FIFO_Start)
    /\ SPI_FIFO_Full' = FALSE
    /\ waterMark' = waterMark - 1
    /\ UNCHANGED <<SPI_Receive_Buffer, SPI_FIFO_End>>
EndCallback ==
    /\ pc = "callback" /\ call = NULL /\ ~SpiExternallyInUse
    /\ SPI_DequeueFullBuf
    /\ delivered' = Append(delivered, hand)
    /\ hand' = NULL
    /\ Goto("peek")
    /\ burst' = IF burst = 0 THEN 0 ELSE burst - 1
    /\ UNCHANGED <<filling, SPI_Wait_Buf, SpiExternallyInUse, isReadPending, call, result,
                   chip, dropped, made, sends, timedOut, flashes>>

\* nothing (more) is ready; what was left to read is read now
EndDispatch ==
    /\ pc = "peek"
    /\ ~SPI_PeekFullBuf
    /\ Goto("loop")
    /\ burst' = IF SPI_IsFifoEmpty THEN 0 ELSE burst
    /\ IF isReadPending
         THEN DISPATCH_ReadCA821x /\ UNCHANGED edge
         ELSE UNCHANGED <<ring, filling, SPI_Wait_Buf, isReadPending, chip, dropped>>
    /\ UNCHANGED <<SpiExternallyInUse, hand, call, result, delivered, made, sends, timedOut,
                   flashes>>

----------------------------------------------------------------------------
(* SPI_Send, from the application: outside of the dispatch or in callbacks. *)

MaySend == pc \in {"loop", "callback"} /\ call = NULL /\ ~SpiExternallyInUse

SendAsync ==
    /\ MaySend /\ sends < MaxSends
    /\ ExchangeCommand(Cmd("async", sends + 1), SPI_Wait_Buf)
    /\ sends' = sends + 1
    /\ burst' = burst + 1
    /\ UNCHANGED <<SpiExternallyInUse, isReadPending, main, delivered, made, timedOut, flashes>>

\* the response buffer is SPI_Wait_Buf before the exchange, so that an answer to
\* an earlier command may come in with it
SendSync(k) ==
    /\ MaySend /\ sends < MaxSends
    /\ ExchangeCommand(Cmd(k, sends + 1), IDLE)
    /\ call' = Cmd(k, sends + 1)
    /\ sends' = sends + 1
    /\ burst' = IF burst < SPI_RX_FIFO_RESV THEN SPI_RX_FIFO_RESV ELSE burst + 1
    /\ UNCHANGED <<SpiExternallyInUse, isReadPending, pc, hand, result, delivered, made,
                   timedOut, flashes>>

\* SPI_WaitSlave gives up: nothing is sent
SendFails ==
    /\ MayFail
    /\ MaySend /\ sends < MaxSends
    /\ ~ExchangeInProgress /\ rfirq
    /\ sends' = sends + 1
    /\ UNCHANGED <<ring, filling, SPI_Wait_Buf, SpiExternallyInUse, isReadPending, main,
                   chip, dropped, delivered, made, burst, timedOut, flashes>>

EndSync(status) ==
    /\ result' = [cmd |-> call, status |-> status, answer |-> SPI_Wait_Buf,
                  whole |-> filling # "answer"]
    /\ call' = NULL
    /\ SPI_Wait_Buf' = NULL
    /\ UNCHANGED <<ring, filling, SpiExternallyInUse, isReadPending, pc, hand, chip,
                   dropped, delivered, made, sends, burst, flashes>>

\* SPI_SyncWait: an answer of the right kind is there, and no DMA is under way
\* mutant: the DMA may still be writing it
AnsweredSoon == call # NULL /\ SPI_Wait_Buf.kind = call.kind
Answered == call # NULL /\ SPI_Wait_Buf.kind = call.kind /\ ~ExchangeInProgress
SyncDone == Answered /\ EndSync("SUCCESS") /\ UNCHANGED timedOut

\* SPI_T_TIMEOUT is long enough for everything that can go on without the main
\* program to have been done, unless the chip is tardy with its answer; that may
\* then be coming in just now, into a buffer that is no longer the caller's
Tardy == MayFail /\ (inbox # <<>> \/ ExchangeInProgress)
Settled == ~edge /\ ~ExchangeInProgress /\ ~rfirq /\ inbox = <<>>
SyncTimeout ==
    /\ call # NULL /\ ~Answered
    /\ Settled \/ Tardy
    /\ EndSync("TIMEOUT")
    /\ timedOut' = TRUE

----------------------------------------------------------------------------
(* The bus is lent to the external flash by the main program.              *)

\* SPI_SetExternallyInUseStatus(true): refused during an exchange
FlashBegin ==
    /\ MaySend /\ flashes < MaxFlash
    /\ ~ExchangeInProgress
    /\ SpiExternallyInUse' = TRUE
    /\ flashes' = flashes + 1
    /\ UNCHANGED <<ring, filling, SPI_Wait_Buf, isReadPending, main, chip, dropped,
                   delivered, made, sends, burst, timedOut>>
FlashEnd ==
    /\ SpiExternallyInUse
    /\ SpiExternallyInUse' = FALSE
    /\ UNCHANGED <<ring, filling, SPI_Wait_Buf, isReadPending, main, chip, dropped, counts>>

----------------------------------------------------------------------------
(* The chip, as the driver uses it.                                        *)

\* it has a message: it is busy for a moment, unless it is being accessed
Offer(m) ==
    /\ outbox' = Append(outbox, m)
    /\ rfirq' = ~ExchangeInProgress

ChipExecute ==
    /\ inbox # <<>> /\ rfirq
    /\ inbox' = Tail(inbox)
    /\ IF IsAnswer(Head(inbox)) THEN Offer(Head(inbox)) ELSE UNCHANGED <<outbox, rfirq>>
    /\ UNCHANGED <<ring, filling, SPI_Wait_Buf, SpiExternallyInUse, isReadPending, main,
                   edge, dropped, counts>>

ChipIndicate ==
    /\ made < MaxInd
    /\ Offer(Ind(made + 1))
    /\ made' = made + 1
    /\ UNCHANGED <<ring, filling, SPI_Wait_Buf, SpiExternallyInUse, isReadPending, main,
                   inbox, edge, dropped, delivered, sends, burst, timedOut, flashes>>

\* ready for the next access, which is an interrupt to the driver
ChipReady ==
    /\ rfirq
    /\ rfirq' = FALSE
    /\ edge' = TRUE
    /\ UNCHANGED <<ring, filling, SPI_Wait_Buf, SpiExternallyInUse, isReadPending, main,
                   inbox, outbox, dropped, counts>>

----------------------------------------------------------------------------
NoResult == [cmd |-> NULL, status |-> "none", answer |-> NULL, whole |-> TRUE]

\* SPI_Initialise
Init ==
    /\ SPI_Receive_Buffer = [i \in Slots |-> IDLE]
    /\ SPI_FIFO_Start = 0 /\ SPI_FIFO_End = 0
    /\ SPI_FIFO_Full = FALSE
    /\ waterMark = 0
    /\ filling = "nothing"
    /\ SPI_Wait_Buf = NULL
    /\ SpiExternallyInUse = FALSE
    /\ isReadPending = FALSE
    /\ pc = "loop" /\ hand = NULL /\ call = NULL /\ result = NoResult
    /\ inbox = <<>> /\ outbox = <<>> /\ rfirq = FALSE /\ edge = FALSE
    /\ delivered = <<>> /\ dropped = {}
    /\ made = 0 /\ sends = 0 /\ burst = 0 /\ flashes = 0
    /\ timedOut = FALSE

Dispatch == BeginDispatch \/ BeginCallback \/ EndCallback \/ EndDispatch

Next ==
    \/ Dispatch
    \/ SendAsync \/ SendFails \/ \E k \in Kinds : SendSync(k)
    \/ SyncDone \/ SyncTimeout
    \/ FlashBegin \/ FlashEnd
    \/ Interrupt \/ SPI_ExchangeComplete
    \/ ChipExecute \/ ChipIndicate \/ ChipReady

Spec == Init /\ [][Next]_vars

\* The main loop goes round and callbacks return, interrupts are served, the
\* DMA finishes, and the chip becomes accessible again.
Fairness ==
    /\ WF_vars(Dispatch)
    /\ WF_vars(SyncDone \/ SyncTimeout)
    /\ WF_vars(FlashEnd)
    /\ WF_vars(Interrupt) /\ WF_vars(SPI_ExchangeComplete)
    /\ WF_vars(ChipExecute) /\ WF_vars(ChipReady)

FairSpec == Spec /\ Fairness

----------------------------------------------------------------------------
(* Properties.                                                             *)

Msgs == {IDLE} \cup [kind : {"ind"} \cup Kinds, n : Nat]

\* Type invariant of the driver and its environment.
TypeOK ==
    /\ SPI_Receive_Buffer \in [Slots -> Msgs]
    /\ SPI_FIFO_Start \in Slots /\ SPI_FIFO_End \in Slots
    /\ SPI_FIFO_Full \in BOOLEAN /\ waterMark \in Nat
    /\ filling \in {"nothing", "fifo", "answer"}
    /\ SPI_Wait_Buf \in Msgs \cup {NULL}
    /\ SpiExternallyInUse \in BOOLEAN /\ isReadPending \in BOOLEAN
    /\ pc \in {"loop", "peek", "callback"}
    /\ hand \in Msgs \cup {NULL} /\ call \in Msgs \cup {NULL}
    /\ inbox \in Seq([kind : Kinds \cup {"async"}, n : Nat]) /\ outbox \in Seq(Msgs)
    /\ rfirq \in BOOLEAN /\ edge \in BOOLEAN
    /\ delivered \in Seq(Msgs) /\ dropped \subseteq Nat

\* The buffers in use, the oldest first.
Level == IF SPI_FIFO_Full THEN SPI_RX_FIFO_SIZE
         ELSE (SPI_FIFO_End - SPI_FIFO_Start) % SPI_RX_FIFO_SIZE
InRing == [i \in 1..Level |->
              SPI_Receive_Buffer[(SPI_FIFO_Start + i - 1) % SPI_RX_FIFO_SIZE]]

\* The water mark, counted up by interrupts and down by the main program, is the
\* number of buffers in use, also when the ring has wrapped around or is full.
WaterMarkRight == waterMark = Level

\* What the callbacks are looking at is never overwritten nor still being
\* written: not by the DMA that runs meanwhile, nor by what comes in with the
\* commands they send.
CallbackBufferStable ==
    pc = "callback" => /\ SPI_Receive_Buffer[SPI_FIFO_Start] = hand
                       /\ ~(filling = "fifo" /\ Level = 1)

\* The indications the chip sent are, in order and once each, those whose
\* callbacks have returned, those in the ring and those still in the chip, but
\* for the ones dropped for want of a buffer.
Numbers(s) == {s[i].n : i \in {j \in DOMAIN s : IsInd(s[j])}}
Ascending(s) == \A i, j \in DOMAIN s : i < j /\ IsInd(s[i]) /\ IsInd(s[j]) => s[i].n < s[j].n
Pipe == delivered \o InRing \o outbox
IndicationsInOrder == Ascending(Pipe) /\ Numbers(Pipe) = 1..made \ dropped

\* SPI_RX_FIFO_RESV buffers are kept for what comes in with commands: nothing is
\* dropped as long as the application has sent at most that many asynchronous
\* commands more than it has handled messages.  (A synchronous command uses up
\* the whole reserve: an answer is awaited at the cost of the free buffers.)
ReserveSuffices == [][dropped' # dropped => burst >= SPI_RX_FIFO_RESV]_vars

\* A synchronous call that succeeds has the whole answer to its own command,
\* unless an earlier one timed out and its answer came in after that.
AnswerIsOurs ==
    result.status = "SUCCESS" =>
        result.whole /\ (timedOut \/ result.answer = result.cmd)

\* Every indication is handed to the callbacks in the end, or was dropped: no
\* read that was put off is forgotten, no message is left in the ring.
EveryIndicationHandled ==
    \A n \in 1..MaxInd :
        made >= n ~> n \in dropped \/ \E i \in DOMAIN delivered : delivered[i] = Ind(n)
=============================================================================
