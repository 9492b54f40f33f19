--------------------------- MODULE SpiLink_proof ----------------------------
(***************************************************************************)
(* Proofs about SpiLink for rings of any size, any reserve and any number  *)
(* of messages and commands: the ring stays consistent, callbacks see      *)
(* stable buffers, the reserve suffices, indications keep their order and  *)
(* calls get their own answers.                                            *)
(*                                                                         *)
(* The inductive invariant expresses both indices and the full flag by the *)
(* first index and the water mark, so that the wrapping comparisons become *)
(* comparisons of numbers.                                                 *)
(***************************************************************************)
EXTENDS SpiLink, TLAPS

\* The slot that is x beyond slot 0, at most once round the ring.
Slot(x) == IF x < SPI_RX_FIFO_SIZE THEN x ELSE x - SPI_RX_FIFO_SIZE

RingOK ==
    /\ SPI_Receive_Buffer \in [Slots -> Msgs]
    /\ SPI_FIFO_Start \in Slots
    /\ waterMark \in 0..SPI_RX_FIFO_SIZE
    /\ SPI_FIFO_End = Slot(SPI_FIFO_Start + waterMark)
    /\ SPI_FIFO_Full \in BOOLEAN
    /\ SPI_FIFO_Full <=> waterMark = SPI_RX_FIFO_SIZE

\* What the callbacks look at is in the ring, and is not what the DMA fills.
CallbackOK ==
    pc = "callback" => /\ waterMark > 0
                       /\ SPI_Receive_Buffer[SPI_FIFO_Start] = hand
                       /\ filling = "fifo" => waterMark >= 2

\* An answer is only awaited during a call, never by the dispatch loop, and at
\* the cost of the reserve.
WaitOK ==
    /\ pc = "peek" => call = NULL
    /\ SPI_Wait_Buf # NULL => call # NULL /\ burst >= SPI_RX_FIFO_RESV

\* The free buffers are at least what is left of the reserve.
ReserveOK ==
    /\ burst \in Nat
    /\ waterMark + SPI_RX_FIFO_RESV <= SPI_RX_FIFO_SIZE + burst

----------------------------------------------------------------------------
(* Arithmetic of the ring.                                                 *)

LEMMA Sizes ==
    /\ SPI_RX_FIFO_SIZE \in Nat /\ SPI_RX_FIFO_RESV \in Nat
    /\ SPI_RX_FIFO_RESV < SPI_RX_FIFO_SIZE
BY SpiAssumption

LEMMA ModSize ==
    ASSUME NEW z \in Int, 0 - SPI_RX_FIFO_SIZE <= z, z < 2 * SPI_RX_FIFO_SIZE
    PROVE  z % SPI_RX_FIFO_SIZE = IF z < 0 THEN z + SPI_RX_FIFO_SIZE ELSE Slot(z)
<1> USE Sizes DEF Slot
<1>1. CASE z < 0
  BY <1>1
<1>2. CASE z >= 0 /\ z < SPI_RX_FIFO_SIZE
  BY <1>2
<1>3. CASE z >= SPI_RX_FIFO_SIZE
  BY <1>3
<1> QED
  BY <1>1, <1>2, <1>3

\* The reserve is no matter when the ring is empty or a burst as long.
LEMMA ReserveLeft ==
    ASSUME NEW w \in 0..SPI_RX_FIFO_SIZE, NEW b \in Nat, w = 0 \/ b >= SPI_RX_FIFO_RESV
    PROVE  w + SPI_RX_FIFO_RESV <= SPI_RX_FIFO_SIZE + b
BY Sizes

LEMMA NextSlot ==
    ASSUME NEW i \in Slots
    PROVE  Next1(i) = Slot(i + 1) /\ Next1(i) \in Slots
BY Sizes, ModSize DEF Next1, Slots, Slot

\* The level computed from the indices is the water mark.
LEMMA LevelIsWaterMark == RingOK => Level = waterMark
<1> SUFFICES ASSUME RingOK PROVE Level = waterMark
  OBVIOUS
<1> USE Sizes
<1>1. CASE waterMark = SPI_RX_FIFO_SIZE
  BY <1>1 DEF Level, RingOK
<1>2. CASE waterMark < SPI_RX_FIFO_SIZE
  <2> DEFINE d == SPI_FIFO_End - SPI_FIFO_Start
  <2>1. d = waterMark \/ d = waterMark - SPI_RX_FIFO_SIZE
    BY <1>2 DEF RingOK, Slot, Slots
  <2>2. d \in Int /\ d % SPI_RX_FIFO_SIZE = IF d < 0 THEN d + SPI_RX_FIFO_SIZE ELSE Slot(d)
    BY <1>2, <2>1, ModSize DEF RingOK
  <2>3. QED
    <3>1. d % SPI_RX_FIFO_SIZE = waterMark
      BY <1>2, <2>1, <2>2 DEF RingOK, Slot
    <3>2. ~SPI_FIFO_Full
      BY <1>2 DEF RingOK
    <3> QED
      BY <3>1, <3>2 DEF Level
<1> QED
  BY <1>1, <1>2 DEF RingOK

\* The tests of the ring say of the water mark what their names promise.
LEMMA RingTests ==
    ASSUME RingOK
    PROVE  /\ SPI_IsFifoEmpty <=> waterMark = 0
           /\ waterMark = 1 => SPI_FIFO_End = Next1(SPI_FIFO_Start)
           /\ SPI_Wait_Buf = NULL /\ ~SPI_IsFifoAlmostFull
                 => SPI_RX_FIFO_SIZE - waterMark > SPI_RX_FIFO_RESV
           /\ ~SPI_IsFifoAlmostFull => waterMark < SPI_RX_FIFO_SIZE
<1> USE Sizes
<1>1. SPI_IsFifoEmpty <=> waterMark = 0
  BY DEF SPI_IsFifoEmpty, RingOK, Slot, Slots
<1>2. waterMark = 1 => SPI_FIFO_End = Next1(SPI_FIFO_Start)
  BY NextSlot DEF RingOK
<1>3. ASSUME SPI_Wait_Buf = NULL, ~SPI_IsFifoAlmostFull
      PROVE  SPI_RX_FIFO_SIZE - waterMark > SPI_RX_FIFO_RESV
  <2> DEFINE free == SPI_RX_FIFO_SIZE - waterMark
  <2>1. free \in Nat /\ free > 0
    BY <1>3 DEF SPI_IsFifoAlmostFull, RingOK
  <2>2. (SPI_FIFO_End + free) % SPI_RX_FIFO_SIZE = Slot(SPI_FIFO_End + free)
    <3> DEFINE x == SPI_FIFO_End + free
    <3>1. x \in Int /\ 0 <= x /\ x < 2 * SPI_RX_FIFO_SIZE
      BY <2>1 DEF RingOK, Slots, Slot
    <3> HIDE DEF x
    <3>2. x % SPI_RX_FIFO_SIZE = Slot(x)
      BY <3>1, ModSize
    <3> QED
      BY <3>2 DEF x
  <2>3. Slot(SPI_FIFO_End + free) = SPI_FIFO_Start
    BY <2>1 DEF RingOK, Slots, Slot
  <2>4. free \notin 1..SPI_RX_FIFO_RESV
    BY <1>3, <2>2, <2>3 DEF SPI_IsFifoAlmostFull
  <2> QED
    BY <2>1, <2>4
<1>4. ~SPI_IsFifoAlmostFull => waterMark < SPI_RX_FIFO_SIZE
  BY DEF SPI_IsFifoAlmostFull, RingOK
<1> QED
  BY <1>1, <1>2, <1>3, <1>4

----------------------------------------------------------------------------
(* What the operations do to the ring.                                     *)

\* What an exchange keeps: the oldest buffer, and it takes at most one more.
Kept ==
    /\ RingOK'
    /\ SPI_FIFO_Start' = SPI_FIFO_Start
    /\ waterMark' \in {waterMark, waterMark + 1}
    /\ waterMark > 0 => SPI_Receive_Buffer'[SPI_FIFO_Start] = SPI_Receive_Buffer[SPI_FIFO_Start]

LEMMA UnchangedKept == RingOK /\ UNCHANGED ring => Kept /\ waterMark' = waterMark
BY DEF RingOK, ring, Kept

LEMMA GetFreeBufEffect ==
    ASSUME RingOK, NEW m \in Msgs, SPI_GetFreeBuf(m)
    PROVE  Kept /\ waterMark' = waterMark + 1 /\ ~SPI_FIFO_Full
<1> USE Sizes
<1>1. waterMark < SPI_RX_FIFO_SIZE /\ waterMark' = waterMark + 1 /\ SPI_FIFO_Start' = SPI_FIFO_Start
  BY DEF RingOK, SPI_GetFreeBuf
<1>2. SPI_FIFO_End \in Slots
  BY <1>1 DEF RingOK, Slot, Slots
<1>3. SPI_FIFO_End' = Slot(SPI_FIFO_End + 1)
  BY <1>2, NextSlot DEF SPI_GetFreeBuf
<1>4. SPI_FIFO_End' = Slot(SPI_FIFO_Start + waterMark')
  BY <1>1, <1>3 DEF RingOK, Slot, Slots
<1>5. SPI_FIFO_Full' \in BOOLEAN /\ (SPI_FIFO_Full' <=> SPI_FIFO_Start = SPI_FIFO_End')
  BY DEF SPI_GetFreeBuf
<1>6. SPI_FIFO_Full' <=> waterMark' = SPI_RX_FIFO_SIZE
  BY <1>1, <1>4, <1>5 DEF RingOK, Slot, Slots
<1>7. SPI_Receive_Buffer' \in [Slots -> Msgs]
  BY DEF SPI_GetFreeBuf, RingOK
<1>8. RingOK'
  BY <1>1, <1>4, <1>5, <1>6, <1>7 DEF RingOK, Slot
<1>9. ASSUME waterMark > 0
      PROVE  SPI_Receive_Buffer'[SPI_FIFO_Start] = SPI_Receive_Buffer[SPI_FIFO_Start]
  <2>1. SPI_FIFO_End # SPI_FIFO_Start
    BY <1>1, <1>9 DEF RingOK, Slot, Slots
  <2> QED
    BY <2>1 DEF SPI_GetFreeBuf, RingOK
<1> QED
  BY <1>1, <1>8, <1>9 DEF Kept, SPI_GetFreeBuf

\* A full ring is the only reason for which getBuf drops a message, and only an
\* indication takes a buffer of the ring.
LEMMA getBufEffect ==
    ASSUME RingOK, Received \in Msgs, NEW wait, getBuf(wait)
    PROVE  /\ Kept
           /\ SPI_Wait_Buf' # NULL => wait # NULL
           /\ dropped' # dropped => SPI_FIFO_Full /\ waterMark' = waterMark
           /\ IsInd(Received) /\ ~SPI_FIFO_Full => waterMark' = waterMark + 1
<1>1. CASE IsInd(Received) /\ SPI_GetFreeBuf(Received) /\ SPI_Wait_Buf' = wait /\ UNCHANGED dropped
  BY <1>1, GetFreeBufEffect
<1>2. CASE IsInd(Received) /\ SPI_FIFO_Full /\ SPI_Wait_Buf' = wait /\ UNCHANGED ring
  BY <1>2, UnchangedKept
<1>3. CASE /\ IsAnswer(Received) \/ Received = IDLE
           /\ SPI_Wait_Buf' = IF IsAnswer(Received) /\ wait # NULL THEN Received ELSE wait
           /\ UNCHANGED <<ring, dropped>>
  <2>1. ~IsInd(Received)
    BY <1>3, SpiAssumption DEF IsInd, IsAnswer, IDLE
  <2> QED
    BY <1>3, <2>1, UnchangedKept
<1> QED
  BY <1>1, <1>2, <1>3 DEF getBuf

----------------------------------------------------------------------------
(* Types of everything else, by who changes it.                            *)

BusTypes ==
    /\ filling \in {"nothing", "fifo", "answer"}
    /\ SPI_Wait_Buf \in Msgs \cup {NULL}
    /\ SpiExternallyInUse \in BOOLEAN /\ isReadPending \in BOOLEAN
MainTypes ==
    /\ pc \in {"loop", "peek", "callback"}
    /\ hand \in Msgs \cup {NULL} /\ call \in Msgs \cup {NULL}
    /\ delivered \in Seq(Msgs) /\ sends \in Nat
ChipTypes ==
    /\ inbox \in Seq([kind : Kinds \cup {"async"}, n : Nat]) /\ outbox \in Seq(Msgs)
    /\ rfirq \in BOOLEAN /\ edge \in BOOLEAN
    /\ dropped \subseteq Nat /\ made \in Nat

Types   == BusTypes /\ MainTypes /\ ChipTypes
RingInv == RingOK /\ CallbackOK /\ WaitOK /\ ReserveOK
SpiInv  == Types /\ RingInv

LEMMA SpiInvTypes == SpiInv => TypeOK
<1> SUFFICES ASSUME SpiInv PROVE TypeOK
  OBVIOUS
<1>1. SPI_FIFO_End \in Slots /\ waterMark \in Nat
  BY SpiAssumption DEF SpiInv, RingInv, RingOK, Slot, Slots
<1> QED
  BY <1>1 DEF SpiInv, RingInv, RingOK, Types, BusTypes, MainTypes, ChipTypes, TypeOK

LEMMA MsgNumbers ==
    /\ \A m \in Msgs : m.n \in Nat
    /\ NULL.n \in Nat
    /\ IDLE \in Msgs
    /\ \A n \in Nat : Ind(n) \in Msgs
    /\ \A k \in Kinds, n \in Nat : Cmd(k, n) \in Msgs /\ Cmd(k, n) # NULL
BY SpiAssumption DEF Msgs, NULL, IDLE, Ind, Cmd

LEMMA ReceivedType == ChipTypes => Received \in Msgs
BY MsgNumbers DEF ChipTypes, Received

\* An exchange keeps the types.
LEMMA getBufTypes ==
    ASSUME ChipTypes, NEW wait \in Msgs \cup {NULL}, getBuf(wait), Fetched
    PROVE  SPI_Wait_Buf' \in Msgs \cup {NULL} /\ dropped' \subseteq Nat /\ outbox' \in Seq(Msgs)
<1>1. Received \in Msgs
  BY ReceivedType
<1>2. SPI_Wait_Buf' \in Msgs \cup {NULL} /\ dropped' \subseteq Nat
  BY <1>1, MsgNumbers DEF getBuf, ChipTypes
<1>3. outbox' \in Seq(Msgs)
  BY DEF Fetched, ChipTypes
<1> QED
  BY <1>2, <1>3

\* A read keeps the types and everything said about the ring but the reserve,
\* of which it leaves enough for a burst of 0.
ReadEffect ==
    /\ Kept
    /\ SPI_Wait_Buf' \in Msgs \cup {NULL} /\ (SPI_Wait_Buf' # NULL => SPI_Wait_Buf # NULL)
    /\ filling' \in {"nothing", "fifo", "answer"} /\ isReadPending' \in BOOLEAN
    /\ filling' = "fifo" => \/ filling = "fifo" /\ waterMark' = waterMark
                            \/ waterMark' = waterMark + 1
    /\ inbox' = inbox /\ outbox' \in Seq(Msgs) /\ rfirq' \in BOOLEAN
    /\ dropped' = dropped
    /\ waterMark' = waterMark + 1 /\ SPI_Wait_Buf = NULL
          => waterMark' + SPI_RX_FIFO_RESV <= SPI_RX_FIFO_SIZE

LEMMA ReadKeeps ==
    ASSUME SpiInv, DISPATCH_ReadCA821x
    PROVE  ReadEffect
<1> USE Sizes
<1> SUFFICES ASSUME ~(UNCHANGED <<ring, filling, SPI_Wait_Buf, inbox, outbox, rfirq, dropped>>
                      /\ isReadPending' \in BOOLEAN)
             PROVE  ReadEffect
  <2>1. CASE UNCHANGED <<ring, filling, SPI_Wait_Buf, inbox, outbox, rfirq, dropped>>
             /\ isReadPending' \in BOOLEAN
    <3>1. Kept /\ waterMark' = waterMark
      BY <2>1, UnchangedKept DEF SpiInv, RingInv
    <3>2. waterMark' # waterMark + 1
      BY <3>1 DEF SpiInv, RingInv, RingOK
    <3> QED
      BY <2>1, <3>1, <3>2 DEF ReadEffect, SpiInv, Types, BusTypes, ChipTypes
  <2> QED
    BY <2>1
<1>1. MayRead /\ ExchangeNothing /\ isReadPending' = FALSE
  BY DEF DISPATCH_ReadCA821x, NotePending, SpiInv, Types, BusTypes
<1>2. Received \in Msgs
  BY ReceivedType DEF SpiInv, Types
<1>3. /\ Kept
      /\ SPI_Wait_Buf' # NULL => SPI_Wait_Buf # NULL
      /\ dropped' # dropped => SPI_FIFO_Full
      /\ IsInd(Received) /\ ~SPI_FIFO_Full => waterMark' = waterMark + 1
  BY <1>1, <1>2, getBufEffect DEF ExchangeNothing, SpiInv, RingInv
<1>4. waterMark < SPI_RX_FIFO_SIZE /\ ~SPI_FIFO_Full
  BY <1>1, RingTests DEF MayRead, SpiInv, RingInv, RingOK
<1>5. SPI_Wait_Buf' \in Msgs \cup {NULL} /\ outbox' \in Seq(Msgs)
  BY <1>1, getBufTypes DEF ExchangeNothing, SpiInv, Types, BusTypes
<1>6. filling' \in {"nothing", "fifo", "answer"} /\ (filling' = "fifo" => IsInd(Received))
  BY <1>1 DEF ExchangeNothing
<1>7. inbox' = inbox /\ rfirq' \in BOOLEAN
  BY <1>1 DEF ExchangeNothing
<1>8. waterMark' = waterMark + 1 /\ SPI_Wait_Buf = NULL
          => waterMark' + SPI_RX_FIFO_RESV <= SPI_RX_FIFO_SIZE
  BY <1>1, RingTests DEF MayRead, SpiInv, RingInv, RingOK
<1> QED
  BY <1>1, <1>3, <1>4, <1>5, <1>6, <1>7, <1>8 DEF ReadEffect

----------------------------------------------------------------------------
(* Every step keeps the invariant.                                         *)

LEMMA InitInv == Init => SpiInv
<1> SUFFICES ASSUME Init PROVE SpiInv
  OBVIOUS
<1> USE Sizes
<1>1. RingOK
  <2>1. SPI_Receive_Buffer \in [Slots -> Msgs]
    BY MsgNumbers DEF Init
  <2>2. SPI_FIFO_Start = 0 /\ SPI_FIFO_End = 0 /\ waterMark = 0 /\ SPI_FIFO_Full = FALSE
    BY DEF Init
  <2>3. QED
    <3>1. 0 \in Slots /\ Slot(0 + 0) = 0 /\ 0 \in 0..SPI_RX_FIFO_SIZE /\ 0 # SPI_RX_FIFO_SIZE
      BY DEF Slots, Slot
    <3> QED
      BY <2>1, <2>2, <3>1 DEF RingOK
<1>2. CallbackOK /\ WaitOK /\ ReserveOK
  BY DEF Init, CallbackOK, WaitOK, ReserveOK
<1>3. BusTypes
  BY DEF Init, BusTypes
<1>4. MainTypes
  BY DEF Init, MainTypes
<1>5. ChipTypes
  <2>1. \A S : <<>> \in Seq(S)
    OBVIOUS
  <2> QED
    BY <2>1 DEF Init, ChipTypes
<1> QED
  BY <1>1, <1>2, <1>3, <1>4, <1>5 DEF SpiInv, RingInv, Types

\* A step that leaves the ring, burst and what is written alone.
LEMMA RingUntouched ==
    ASSUME SpiInv, UNCHANGED <<ring, burst>>,
           filling' \in {filling, "nothing"},
           SPI_Wait_Buf' = SPI_Wait_Buf, pc' = pc, hand' = hand, call' = call
    PROVE  RingInv'
<1>1. RingOK'
  BY UnchangedKept DEF SpiInv, RingInv, Kept
<1>2. CallbackOK' /\ WaitOK' /\ ReserveOK'
  BY DEF SpiInv, RingInv, CallbackOK, WaitOK, ReserveOK, ring
<1> QED
  BY <1>1, <1>2 DEF RingInv

LEMMA InterruptKeeps ==
    ASSUME SpiInv, Interrupt
    PROVE  SpiInv' /\ dropped' = dropped
<1>1. ReadEffect
  BY ReadKeeps DEF Interrupt
<1>2. pc' = pc /\ hand' = hand /\ call' = call /\ burst' = burst /\ edge' = FALSE
  BY DEF Interrupt, main, counts
<1>3. Types'
  BY <1>1, <1>2 DEF Interrupt, main, counts, ReadEffect, SpiInv, Types, BusTypes, MainTypes, ChipTypes
<1>4. RingOK'
  BY <1>1 DEF ReadEffect, Kept
<1>5. CallbackOK'
  BY <1>1, <1>2 DEF ReadEffect, Kept, SpiInv, RingInv, RingOK, CallbackOK
<1>6. WaitOK'
  BY <1>1, <1>2 DEF ReadEffect, SpiInv, RingInv, WaitOK
<1>7. ReserveOK'
  <2>1. waterMark \in 0..SPI_RX_FIFO_SIZE /\ waterMark' \in 0..SPI_RX_FIFO_SIZE /\ burst \in Nat
    BY <1>1 DEF ReadEffect, Kept, SpiInv, RingInv, RingOK, ReserveOK
  <2>2. CASE waterMark' = waterMark
    BY <1>2, <2>2 DEF SpiInv, RingInv, ReserveOK
  <2>3. CASE waterMark' = waterMark + 1 /\ SPI_Wait_Buf = NULL
    BY <1>1, <1>2, <2>1, <2>3, Sizes DEF ReadEffect, ReserveOK
  <2>4. CASE SPI_Wait_Buf # NULL
    <3>1. burst >= SPI_RX_FIFO_RESV
      BY <2>4 DEF SpiInv, RingInv, WaitOK
    <3>2. burst' \in Nat /\ waterMark' + SPI_RX_FIFO_RESV <= SPI_RX_FIFO_SIZE + burst'
      BY <1>2, <2>1, <3>1, ReserveLeft
    <3> QED
      BY <3>2 DEF ReserveOK
  <2> QED
    BY <1>1, <2>2, <2>3, <2>4 DEF ReadEffect, Kept
<1> QED
  BY <1>1, <1>3, <1>4, <1>5, <1>6, <1>7 DEF SpiInv, RingInv, ReadEffect

LEMMA EndDispatchKeeps ==
    ASSUME SpiInv, EndDispatch
    PROVE  SpiInv' /\ dropped' = dropped
<1> USE Sizes
<1>1. /\ pc = "peek" /\ call = NULL /\ SPI_Wait_Buf = NULL
      /\ pc' = "loop" /\ hand' = hand /\ call' = call
      /\ burst' = IF SPI_IsFifoEmpty THEN 0 ELSE burst
      /\ SpiExternallyInUse' = SpiExternallyInUse /\ sends' = sends /\ delivered' = delivered
      /\ made' = made /\ edge' = edge
  BY DEF EndDispatch, Goto, SpiInv, RingInv, WaitOK, chip
<1>2. CASE isReadPending
  <2>1. ReadEffect
    BY <1>2, ReadKeeps DEF EndDispatch
  <2>2. Types'
    BY <1>1, <2>1 DEF ReadEffect, SpiInv, Types, BusTypes, MainTypes, ChipTypes
  <2>3. RingOK' /\ CallbackOK'
    BY <1>1, <2>1 DEF ReadEffect, Kept, CallbackOK
  <2>4. WaitOK'
    BY <1>1, <2>1 DEF ReadEffect, WaitOK
  <2>5. ReserveOK'
    <3>1. waterMark \in 0..SPI_RX_FIFO_SIZE /\ waterMark' \in 0..SPI_RX_FIFO_SIZE
          /\ burst \in Nat /\ burst' \in Nat
      BY <1>1, <2>1 DEF ReadEffect, Kept, SpiInv, RingInv, RingOK, ReserveOK
    <3>2. CASE waterMark' = waterMark
      <4>1. CASE waterMark = 0
        <5>1. waterMark' + SPI_RX_FIFO_RESV <= SPI_RX_FIFO_SIZE + burst'
          BY <3>1, <3>2, <4>1, ReserveLeft
        <5> QED
          BY <3>1, <5>1 DEF ReserveOK
      <4>2. CASE waterMark # 0
        <5>1. burst' = burst
          BY <1>1, <4>2, RingTests DEF SpiInv, RingInv
        <5> QED
          BY <3>2, <5>1 DEF SpiInv, RingInv, ReserveOK
      <4> QED
        BY <4>1, <4>2
    <3>3. CASE waterMark' = waterMark + 1
      BY <1>1, <2>1, <3>1, <3>3 DEF ReadEffect, ReserveOK
    <3> QED
      BY <2>1, <3>2, <3>3 DEF ReadEffect, Kept
  <2> QED
    BY <2>1, <2>2, <2>3, <2>4, <2>5 DEF SpiInv, RingInv, ReadEffect
<1>3. CASE ~isReadPending
  <2>1. UNCHANGED <<ring, filling, SPI_Wait_Buf, isReadPending, chip, dropped>>
    BY <1>3 DEF EndDispatch
  <2>2. Types'
    BY <1>1, <2>1 DEF SpiInv, Types, BusTypes, MainTypes, ChipTypes, chip
  <2>3. RingOK' /\ waterMark' = waterMark
    BY <2>1, UnchangedKept DEF SpiInv, RingInv, Kept
  <2>4. CallbackOK' /\ WaitOK'
    BY <1>1, <2>1 DEF CallbackOK, WaitOK
  <2>5. ReserveOK'
    BY <1>1, <2>3, RingTests DEF SpiInv, RingInv, RingOK, ReserveOK
  <2> QED
    BY <2>1, <2>2, <2>3, <2>4, <2>5 DEF SpiInv, RingInv
<1> QED
  BY <1>2, <1>3

LEMMA EndCallbackKeeps ==
    ASSUME SpiInv, EndCallback
    PROVE  SpiInv' /\ dropped' = dropped
<1> USE Sizes
<1>1. /\ pc = "callback" /\ pc' = "peek" /\ call = NULL /\ call' = NULL /\ hand' = NULL
      /\ SPI_Wait_Buf' = SPI_Wait_Buf /\ filling' = filling
      /\ burst' = IF burst = 0 THEN 0 ELSE burst - 1
  BY DEF EndCallback, Goto
<1>2. waterMark > 0 /\ waterMark' = waterMark - 1 /\ SPI_FIFO_End' = SPI_FIFO_End
      /\ SPI_FIFO_Full' = FALSE /\ SPI_Receive_Buffer' = SPI_Receive_Buffer
  BY <1>1 DEF EndCallback, SPI_DequeueFullBuf, SpiInv, RingInv, CallbackOK
<1>3. SPI_FIFO_Start' = Slot(SPI_FIFO_Start + 1) /\ SPI_FIFO_Start' \in Slots
  BY NextSlot DEF EndCallback, SPI_DequeueFullBuf, SpiInv, RingInv, RingOK
<1>4. SPI_FIFO_End' = Slot(SPI_FIFO_Start' + waterMark')
  BY <1>2, <1>3 DEF SpiInv, RingInv, RingOK, Slot, Slots
<1>5. RingOK'
  <2>1. waterMark' \in 0..SPI_RX_FIFO_SIZE /\ waterMark' # SPI_RX_FIFO_SIZE
    BY <1>2 DEF SpiInv, RingInv, RingOK
  <2>2. SPI_Receive_Buffer' \in [Slots -> Msgs]
    BY <1>2 DEF SpiInv, RingInv, RingOK
  <2> QED
    BY <1>2, <1>3, <1>4, <2>1, <2>2 DEF RingOK
<1>6. CallbackOK' /\ WaitOK'
  BY <1>1 DEF SpiInv, RingInv, CallbackOK, WaitOK
<1>7. ReserveOK'
  BY <1>1, <1>2 DEF SpiInv, RingInv, RingOK, ReserveOK
<1>8. hand \in Msgs
  BY <1>1 DEF SpiInv, RingInv, RingOK, CallbackOK
<1>9. Types'
  BY <1>1, <1>8 DEF EndCallback, SpiInv, Types, BusTypes, MainTypes, ChipTypes, chip
<1> QED
  BY <1>5, <1>6, <1>7, <1>9 DEF SpiInv, RingInv, EndCallback

\* A command that is sent uses up one buffer at most.  Nothing is dropped unless
\* the burst is as long as the reserve.
LEMMA CommandEffect ==
    ASSUME SpiInv, NEW c \in [kind : Kinds \cup {"async"}, n : Nat],
           NEW wait \in Msgs \cup {NULL}, ExchangeCommand(c, wait)
    PROVE  /\ Kept /\ filling = "nothing" /\ filling' = "nothing"
           /\ SPI_Wait_Buf' \in Msgs \cup {NULL} /\ (SPI_Wait_Buf' # NULL => wait # NULL)
           /\ inbox' \in Seq([kind : Kinds \cup {"async"}, n : Nat]) /\ outbox' \in Seq(Msgs)
           /\ rfirq' \in BOOLEAN /\ edge' = edge /\ dropped' \subseteq Nat
           /\ dropped' # dropped => burst >= SPI_RX_FIFO_RESV
<1>1. Received \in Msgs
  BY ReceivedType DEF SpiInv, Types
<1>2. /\ Kept
      /\ SPI_Wait_Buf' # NULL => wait # NULL
      /\ dropped' # dropped => SPI_FIFO_Full
  BY <1>1, getBufEffect DEF ExchangeCommand, SpiInv, RingInv
<1>3. SPI_Wait_Buf' \in Msgs \cup {NULL} /\ dropped' \subseteq Nat /\ outbox' \in Seq(Msgs)
  BY getBufTypes DEF ExchangeCommand, SpiInv, Types
<1>4. filling = "nothing" /\ filling' = "nothing"
  BY DEF ExchangeCommand, Accessible, ExchangeInProgress
<1>5. inbox' \in Seq([kind : Kinds \cup {"async"}, n : Nat])
  BY DEF ExchangeCommand, SpiInv, Types, ChipTypes
<1>6. rfirq' \in BOOLEAN /\ edge' = edge
  BY DEF ExchangeCommand
<1>7. SPI_FIFO_Full => burst >= SPI_RX_FIFO_RESV
  BY Sizes DEF SpiInv, RingInv, RingOK, ReserveOK
<1> QED
  BY <1>2, <1>3, <1>4, <1>5, <1>6, <1>7

LEMMA SendAsyncKeeps ==
    ASSUME SpiInv, SendAsync
    PROVE  SpiInv' /\ (dropped' # dropped => burst >= SPI_RX_FIFO_RESV)
<1> DEFINE c == Cmd("async", sends + 1)
<1>1. c \in [kind : Kinds \cup {"async"}, n : Nat]
  BY DEF Cmd, SpiInv, Types, MainTypes
<1>2. ExchangeCommand(c, SPI_Wait_Buf) /\ SPI_Wait_Buf \in Msgs \cup {NULL}
  BY DEF SendAsync, SpiInv, Types, BusTypes
<1> HIDE DEF c
<1>3. /\ Kept /\ filling = "nothing" /\ filling' = "nothing"
      /\ SPI_Wait_Buf' \in Msgs \cup {NULL} /\ (SPI_Wait_Buf' # NULL => SPI_Wait_Buf # NULL)
      /\ inbox' \in Seq([kind : Kinds \cup {"async"}, n : Nat]) /\ outbox' \in Seq(Msgs)
      /\ rfirq' \in BOOLEAN /\ edge' = edge /\ dropped' \subseteq Nat
      /\ dropped' # dropped => burst >= SPI_RX_FIFO_RESV
  BY <1>1, <1>2, CommandEffect
<1>4. pc' = pc /\ hand' = hand /\ call' = call /\ burst' = burst + 1 /\ sends' = sends + 1
  BY DEF SendAsync, main
<1>5. Types'
  BY <1>3, <1>4 DEF SendAsync, SpiInv, Types, BusTypes, MainTypes, ChipTypes
<1>6. CallbackOK'
  BY <1>3, <1>4 DEF Kept, SpiInv, RingInv, RingOK, CallbackOK
<1>7. WaitOK'
  BY <1>3, <1>4, Sizes DEF SpiInv, RingInv, WaitOK, ReserveOK
<1>8. ReserveOK'
  <2>1. waterMark \in Nat /\ burst \in Nat
        /\ waterMark + SPI_RX_FIFO_RESV <= SPI_RX_FIFO_SIZE + burst
    BY Sizes DEF SpiInv, RingInv, RingOK, ReserveOK
  <2>2. waterMark' = waterMark \/ waterMark' = waterMark + 1
    BY <1>3 DEF Kept
  <2>3. waterMark' + SPI_RX_FIFO_RESV <= SPI_RX_FIFO_SIZE + burst'
    BY <1>4, <2>1, <2>2, Sizes
  <2> QED
    BY <1>4, <2>1, <2>3 DEF ReserveOK
<1> QED
  BY <1>3, <1>5, <1>6, <1>7, <1>8 DEF SpiInv, RingInv, Kept

LEMMA SendSyncKeeps ==
    ASSUME SpiInv, NEW k \in Kinds, SendSync(k)
    PROVE  SpiInv' /\ (dropped' # dropped => burst >= SPI_RX_FIFO_RESV)
<1> DEFINE c == Cmd(k, sends + 1)
<1>1. c \in [kind : Kinds \cup {"async"}, n : Nat] /\ c \in Msgs /\ c # NULL
  BY MsgNumbers DEF Cmd, SpiInv, Types, MainTypes
<1>2. ExchangeCommand(c, IDLE) /\ IDLE \in Msgs \cup {NULL}
  BY MsgNumbers DEF SendSync
<1>3. /\ MaySend /\ pc' = pc /\ hand' = hand /\ call' = c /\ sends' = sends + 1
      /\ burst' = IF burst < SPI_RX_FIFO_RESV THEN SPI_RX_FIFO_RESV ELSE burst + 1
  BY DEF SendSync
<1> HIDE DEF c
<1>4. /\ Kept /\ filling = "nothing" /\ filling' = "nothing"
      /\ SPI_Wait_Buf' \in Msgs \cup {NULL}
      /\ inbox' \in Seq([kind : Kinds \cup {"async"}, n : Nat]) /\ outbox' \in Seq(Msgs)
      /\ rfirq' \in BOOLEAN /\ edge' = edge /\ dropped' \subseteq Nat
      /\ dropped' # dropped => burst >= SPI_RX_FIFO_RESV
  BY <1>1, <1>2, CommandEffect
<1>5. Types'
  BY <1>1, <1>3, <1>4 DEF SendSync, SpiInv, Types, BusTypes, MainTypes, ChipTypes
<1>6. CallbackOK'
  BY <1>3, <1>4 DEF Kept, SpiInv, RingInv, RingOK, CallbackOK
<1>7. burst' \in Nat /\ burst' >= SPI_RX_FIFO_RESV
  BY <1>3, Sizes DEF SpiInv, RingInv, ReserveOK
<1>8. WaitOK'
  BY <1>1, <1>3, <1>7 DEF WaitOK, MaySend
<1>9. ReserveOK'
  <2>1. waterMark' \in 0..SPI_RX_FIFO_SIZE
    BY <1>4 DEF Kept, RingOK
  <2>2. waterMark' + SPI_RX_FIFO_RESV <= SPI_RX_FIFO_SIZE + burst'
    BY <1>7, <2>1, ReserveLeft
  <2> QED
    BY <1>7, <2>2 DEF ReserveOK
<1> QED
  BY <1>4, <1>5, <1>6, <1>8, <1>9 DEF SpiInv, RingInv, Kept

\* The steps of the main program and the chip that leave the ring alone.
LEMMA RestKeeps ==
    ASSUME SpiInv,
           \/ BeginDispatch \/ BeginCallback \/ SendFails \/ SyncDone \/ SyncTimeout
           \/ FlashBegin \/ FlashEnd \/ SPI_ExchangeComplete
           \/ ChipExecute \/ ChipIndicate \/ ChipReady \/ UNCHANGED vars
    PROVE  SpiInv' /\ dropped' = dropped
<1> USE DEF SpiInv, main, chip, counts
<1>1. CASE BeginDispatch
  <2>1. RingOK'
    BY <1>1, UnchangedKept DEF BeginDispatch, RingInv, Kept
  <2>2. CallbackOK' /\ WaitOK' /\ ReserveOK'
    BY <1>1 DEF BeginDispatch, Goto, RingInv, CallbackOK, WaitOK, ReserveOK, ring
  <2>3. Types'
    BY <1>1 DEF BeginDispatch, Goto, Types, BusTypes, MainTypes, ChipTypes
  <2> QED
    BY <1>1, <2>1, <2>2, <2>3 DEF RingInv, BeginDispatch
<1>2. CASE BeginCallback
  <2>1. RingOK' /\ UNCHANGED ring
    BY <1>2, UnchangedKept DEF BeginCallback, RingInv, Kept
  <2>2. waterMark > 0 /\ (filling = "fifo" => waterMark # 1)
    BY <1>2, RingTests DEF BeginCallback, SPI_PeekFullBuf, SPI_IsSingleFifoBufInUse,
                           ExchangeInProgress, RingInv, RingOK
  <2>3. CallbackOK'
    BY <1>2, <2>1, <2>2, Sizes DEF BeginCallback, Goto, RingInv, RingOK, CallbackOK, ring
  <2>4. WaitOK' /\ ReserveOK'
    BY <1>2 DEF BeginCallback, Goto, RingInv, WaitOK, ReserveOK, ring
  <2>5. hand' \in Msgs
    BY <1>2 DEF BeginCallback, RingInv, RingOK
  <2>6. Types'
    BY <1>2, <2>5 DEF BeginCallback, Goto, Types, BusTypes, MainTypes, ChipTypes
  <2> QED
    BY <1>2, <2>1, <2>3, <2>4, <2>6 DEF RingInv, BeginCallback
<1>3. CASE SyncDone \/ SyncTimeout
  <2>1. PICK status : EndSync(status)
    BY <1>3 DEF SyncDone, SyncTimeout
  <2>2. RingOK'
    BY <2>1, UnchangedKept DEF EndSync, RingInv, Kept
  <2>3. CallbackOK' /\ WaitOK' /\ ReserveOK'
    BY <2>1 DEF EndSync, RingInv, CallbackOK, WaitOK, ReserveOK, ring
  <2>4. Types'
    BY <2>1 DEF EndSync, Types, BusTypes, MainTypes, ChipTypes
  <2> QED
    BY <2>1, <2>2, <2>3, <2>4 DEF RingInv, EndSync
<1>4. CASE SendFails
  <2>1. RingInv'
    BY <1>4, RingUntouched DEF SendFails
  <2>2. Types'
    BY <1>4 DEF SendFails, Types, BusTypes, MainTypes, ChipTypes
  <2> QED
    BY <1>4, <2>1, <2>2 DEF SendFails
<1>5. CASE FlashBegin \/ FlashEnd
  <2>1. RingInv'
    BY <1>5, RingUntouched DEF FlashBegin, FlashEnd
  <2>2. Types'
    BY <1>5 DEF FlashBegin, FlashEnd, Types, BusTypes, MainTypes, ChipTypes
  <2> QED
    BY <1>5, <2>1, <2>2 DEF FlashBegin, FlashEnd
<1>6. CASE SPI_ExchangeComplete
  <2>1. RingInv'
    BY <1>6, RingUntouched DEF SPI_ExchangeComplete
  <2>2. Types'
    BY <1>6 DEF SPI_ExchangeComplete, Types, BusTypes, MainTypes, ChipTypes
  <2> QED
    BY <1>6, <2>1, <2>2 DEF SPI_ExchangeComplete
<1>7. CASE ChipExecute
  <2>1. RingInv'
    BY <1>7, RingUntouched DEF ChipExecute
  <2>2. inbox' \in Seq([kind : Kinds \cup {"async"}, n : Nat])
        /\ Head(inbox) \in [kind : Kinds \cup {"async"}, n : Nat]
    <3> DEFINE C == [kind : Kinds \cup {"async"}, n : Nat]
    <3>1. inbox \in Seq(C) /\ inbox # <<>> /\ inbox' = Tail(inbox)
      BY <1>7 DEF ChipExecute, Types, ChipTypes
    <3> HIDE DEF C
    <3>2. Tail(inbox) \in Seq(C) /\ Head(inbox) \in C
      BY <3>1
    <3> QED
      BY <3>1, <3>2 DEF C
  <2>3. IsAnswer(Head(inbox)) => Head(inbox) \in Msgs
    BY <2>2 DEF IsAnswer, Msgs
  <2>4. outbox' \in Seq(Msgs) /\ rfirq' \in BOOLEAN
    <3>1. outbox \in Seq(Msgs) /\ rfirq \in BOOLEAN
      BY DEF Types, ChipTypes
    <3>2. CASE IsAnswer(Head(inbox))
      BY <1>7, <2>3, <3>1, <3>2 DEF ChipExecute, Offer
    <3>3. CASE ~IsAnswer(Head(inbox))
      BY <1>7, <3>1, <3>3 DEF ChipExecute
    <3> QED
      BY <3>2, <3>3
  <2>5. Types'
    BY <1>7, <2>2, <2>4 DEF ChipExecute, Types, BusTypes, MainTypes, ChipTypes
  <2> QED
    BY <1>7, <2>1, <2>5 DEF ChipExecute
<1>8. CASE ChipIndicate
  <2>1. RingInv'
    BY <1>8, RingUntouched DEF ChipIndicate
  <2>2. made' \in Nat /\ outbox' \in Seq(Msgs) /\ rfirq' \in BOOLEAN
    BY <1>8, MsgNumbers DEF ChipIndicate, Offer, Types, ChipTypes
  <2>3. Types'
    BY <1>8, <2>2 DEF ChipIndicate, Types, BusTypes, MainTypes, ChipTypes
  <2> QED
    BY <1>8, <2>1, <2>3 DEF ChipIndicate
<1>9. CASE ChipReady
  <2>1. RingInv'
    BY <1>9, RingUntouched DEF ChipReady
  <2>2. Types'
    BY <1>9 DEF ChipReady, Types, BusTypes, MainTypes, ChipTypes
  <2> QED
    BY <1>9, <2>1, <2>2 DEF ChipReady
<1>10. CASE UNCHANGED vars
  <2>1. RingInv'
    BY <1>10, RingUntouched DEF vars
  <2>2. Types'
    BY <1>10 DEF vars, Types, BusTypes, MainTypes, ChipTypes
  <2> QED
    BY <1>10, <2>1, <2>2 DEF vars
<1> QED
  BY <1>1, <1>2, <1>3, <1>4, <1>5, <1>6, <1>7, <1>8, <1>9, <1>10

LEMMA StepInv ==
    ASSUME SpiInv, [Next]_vars
    PROVE  SpiInv' /\ (dropped' # dropped => burst >= SPI_RX_FIFO_RESV)
<1>1. CASE Interrupt
  BY <1>1, InterruptKeeps
<1>2. CASE EndDispatch
  BY <1>2, EndDispatchKeeps
<1>3. CASE EndCallback
  BY <1>3, EndCallbackKeeps
<1>4. CASE SendAsync
  BY <1>4, SendAsyncKeeps
<1>5. CASE \E k \in Kinds : SendSync(k)
  BY <1>5, SendSyncKeeps
<1>6. CASE \/ BeginDispatch \/ BeginCallback \/ SendFails \/ SyncDone \/ SyncTimeout
           \/ FlashBegin \/ FlashEnd \/ SPI_ExchangeComplete
           \/ ChipExecute \/ ChipIndicate \/ ChipReady \/ UNCHANGED vars
  BY <1>6, RestKeeps
<1> QED
  BY <1>1, <1>2, <1>3, <1>4, <1>5, <1>6 DEF Next, Dispatch

----------------------------------------------------------------------------
(* The order of the indications: what the messages of a sequence, one more *)
(* and one less, are numbered.                                             *)

\* Numbers of one place are smaller than those of another.
Below(A, B) == \A m \in A, n \in B : m < n
NumberOf(m) == IF IsInd(m) THEN {m.n} ELSE {}

LEMMA NumbersAppend ==
    ASSUME NEW S, NEW q \in Seq(S), NEW m \in S
    PROVE  /\ Numbers(Append(q, m)) = Numbers(q) \cup NumberOf(m)
           /\ Ascending(q) /\ Below(Numbers(q), NumberOf(m)) => Ascending(Append(q, m))
<1>1. /\ DOMAIN q = 1..Len(q) /\ Len(q) \in Nat
      /\ DOMAIN Append(q, m) = 1..Len(q) + 1 /\ Append(q, m)[Len(q) + 1] = m
      /\ \A i \in 1..Len(q) : Append(q, m)[i] = q[i] /\ i \in 1..Len(q) + 1
      /\ \A i \in 1..Len(q) + 1 : i \in 1..Len(q) \/ i = Len(q) + 1
      /\ Len(q) + 1 \in 1..Len(q) + 1
  OBVIOUS
<1>2. ASSUME NEW n \in Numbers(Append(q, m)) PROVE n \in Numbers(q) \cup NumberOf(m)
  <2>1. PICK i \in 1..Len(q) + 1 : n = Append(q, m)[i].n /\ IsInd(Append(q, m)[i])
    BY <1>1 DEF Numbers
  <2> QED BY <1>1, <2>1 DEF Numbers, NumberOf
<1>3. ASSUME NEW n \in Numbers(q) PROVE n \in Numbers(Append(q, m))
  <2>1. PICK i \in 1..Len(q) : n = q[i].n /\ IsInd(q[i])
    BY <1>1 DEF Numbers
  <2> QED BY <1>1, <2>1 DEF Numbers
<1>4. ASSUME NEW n \in NumberOf(m) PROVE n \in Numbers(Append(q, m))
  BY <1>1 DEF Numbers, NumberOf
<1>5. ASSUME Ascending(q), Below(Numbers(q), NumberOf(m))
      PROVE  Ascending(Append(q, m))
  <2> SUFFICES ASSUME NEW i \in 1..Len(q) + 1, NEW j \in 1..Len(q) + 1, i < j,
                      IsInd(Append(q, m)[i]), IsInd(Append(q, m)[j])
               PROVE  Append(q, m)[i].n < Append(q, m)[j].n
    BY <1>1 DEF Ascending
  <2>1. i \in 1..Len(q) /\ Append(q, m)[i] = q[i] /\ q[i].n \in Numbers(q)
    BY <1>1 DEF Numbers
  <2>2. CASE j \in 1..Len(q)
    BY <1>1, <1>5, <2>1, <2>2 DEF Ascending
  <2>3. CASE j = Len(q) + 1
    <3>1. Append(q, m)[j] = m /\ m.n \in NumberOf(m)
      BY <1>1, <2>3 DEF NumberOf
    <3> QED BY <1>5, <2>1, <3>1 DEF Below
  <2> QED BY <1>1, <2>2, <2>3
<1> QED BY <1>2, <1>3, <1>4, <1>5

LEMMA NumbersAside ==
    ASSUME NEW S, NEW q \in Seq(S), NEW m \in S, ~IsInd(m)
    PROVE  /\ Numbers(Append(q, m)) = Numbers(q)
           /\ Ascending(q) => Ascending(Append(q, m))
<1>1. NumberOf(m) = {}
  BY DEF NumberOf
<1>2. Below(Numbers(q), NumberOf(m))
  BY <1>1 DEF Below
<1>3. Numbers(Append(q, m)) = Numbers(q) \cup NumberOf(m)
  BY NumbersAppend
<1>4. Ascending(q) => Ascending(Append(q, m))
  BY <1>2, NumbersAppend
<1> QED BY <1>1, <1>3, <1>4

LEMMA NumbersTail ==
    ASSUME NEW S, NEW q \in Seq(S), q # <<>>
    PROVE  /\ Numbers(q) = NumberOf(Head(q)) \cup Numbers(Tail(q))
           /\ Ascending(q) => /\ Ascending(Tail(q))
                                 /\ Below(NumberOf(Head(q)), Numbers(Tail(q)))
<1>1. /\ DOMAIN q = 1..Len(q) /\ Len(q) \in Nat \ {0} /\ Head(q) = q[1] /\ 1 \in 1..Len(q)
      /\ DOMAIN Tail(q) = 1..Len(q) - 1
      /\ \A i \in 1..Len(q) - 1 : Tail(q)[i] = q[i + 1] /\ i + 1 \in 1..Len(q) /\ 1 < i + 1
      /\ \A i \in 1..Len(q) : i = 1 \/ i - 1 \in 1..Len(q) - 1
      /\ \A i \in 1..Len(q) - 1 : (i + 1) - 1 = i
      /\ \A i \in 1..Len(q) : (i - 1) + 1 = i
      /\ \A i, j \in 1..Len(q) - 1 : i < j => i + 1 < j + 1
  OBVIOUS
<1>2. ASSUME NEW n \in Numbers(q) PROVE n \in NumberOf(Head(q)) \cup Numbers(Tail(q))
  <2>1. PICK i \in 1..Len(q) : n = q[i].n /\ IsInd(q[i])
    BY <1>1 DEF Numbers
  <2>2. CASE i = 1
    BY <1>1, <2>1, <2>2 DEF NumberOf
  <2>3. CASE i - 1 \in 1..Len(q) - 1
    <3>1. Tail(q)[i - 1] = q[i]
      BY <1>1, <2>3
    <3> QED BY <1>1, <2>1, <2>3, <3>1 DEF Numbers
  <2> QED BY <1>1, <2>2, <2>3
<1>3. NumberOf(Head(q)) \subseteq Numbers(q)
  BY <1>1 DEF Numbers, NumberOf
<1>4. ASSUME NEW n \in Numbers(Tail(q))
      PROVE  \E i \in 1..Len(q) - 1 : n = q[i + 1].n /\ IsInd(q[i + 1])
  BY <1>1 DEF Numbers
<1>5. Numbers(Tail(q)) \subseteq Numbers(q)
  BY <1>1, <1>4 DEF Numbers
<1>6. Ascending(q) => Ascending(Tail(q))
  BY <1>1 DEF Ascending
<1>7. Ascending(q) => Below(NumberOf(Head(q)), Numbers(Tail(q)))
  BY <1>1, <1>4 DEF Ascending, Below, NumberOf
<1> QED BY <1>2, <1>3, <1>5, <1>6, <1>7

LEMMA NumbersConcat ==
    ASSUME NEW S, NEW q \in Seq(S), NEW r \in Seq(S)
    PROVE  /\ Numbers(q \o r) = Numbers(q) \cup Numbers(r)
           /\ Ascending(q) /\ Ascending(r) /\ Below(Numbers(q), Numbers(r))
                  => Ascending(q \o r)
<1>1. /\ DOMAIN q = 1..Len(q) /\ Len(q) \in Nat
      /\ DOMAIN r = 1..Len(r) /\ Len(r) \in Nat
      /\ DOMAIN (q \o r) = 1..Len(q) + Len(r)
      /\ \A i \in 1..Len(q) : (q \o r)[i] = q[i] /\ i \in 1..Len(q) + Len(r)
      /\ \A i \in 1..Len(r) : (q \o r)[Len(q) + i] = r[i] /\ Len(q) + i \in 1..Len(q) + Len(r)
      /\ \A i \in 1..Len(q) + Len(r) :
             i \in 1..Len(q) \/ \E j \in 1..Len(r) : i = Len(q) + j
  <2>1. ASSUME NEW i \in 1..Len(q) + Len(r)
        PROVE  i \in 1..Len(q) \/ \E j \in 1..Len(r) : i = Len(q) + j
    <3>1. i \in 1..Len(q) \/ (i - Len(q) \in 1..Len(r) /\ i = Len(q) + (i - Len(q)))
      OBVIOUS
    <3> QED BY <3>1
  <2> QED BY <2>1
<1>2. ASSUME NEW n \in Numbers(q \o r) PROVE n \in Numbers(q) \cup Numbers(r)
  <2>1. PICK i \in 1..Len(q) + Len(r) : n = (q \o r)[i].n /\ IsInd((q \o r)[i])
    BY <1>1 DEF Numbers
  <2>2. CASE i \in 1..Len(q)
    BY <1>1, <2>1, <2>2 DEF Numbers
  <2>3. ASSUME NEW j \in 1..Len(r), i = Len(q) + j PROVE n \in Numbers(r)
    BY <1>1, <2>1, <2>3 DEF Numbers
  <2> QED BY <1>1, <2>2, <2>3
<1>3. ASSUME NEW n \in Numbers(q) PROVE n \in Numbers(q \o r)
  <2>1. PICK i \in 1..Len(q) : n = q[i].n /\ IsInd(q[i])
    BY <1>1 DEF Numbers
  <2> QED BY <1>1, <2>1 DEF Numbers
<1>4. ASSUME NEW n \in Numbers(r) PROVE n \in Numbers(q \o r)
  <2>1. PICK i \in 1..Len(r) : n = r[i].n /\ IsInd(r[i])
    BY <1>1 DEF Numbers
  <2>2. (q \o r)[Len(q) + i] = r[i] /\ Len(q) + i \in DOMAIN (q \o r)
    BY <1>1
  <2> QED BY <2>1, <2>2 DEF Numbers
<1>5. ASSUME Ascending(q), Ascending(r), Below(Numbers(q), Numbers(r))
      PROVE  Ascending(q \o r)
  <2> SUFFICES ASSUME NEW i \in 1..Len(q) + Len(r), NEW j \in 1..Len(q) + Len(r), i < j,
                      IsInd((q \o r)[i]), IsInd((q \o r)[j])
               PROVE  (q \o r)[i].n < (q \o r)[j].n
    BY <1>1 DEF Ascending
  <2>1. CASE i \in 1..Len(q) /\ j \in 1..Len(q)
    BY <1>1, <1>5, <2>1 DEF Ascending
  <2>2. ASSUME i \in 1..Len(q), NEW k \in 1..Len(r), j = Len(q) + k
        PROVE  (q \o r)[i].n < (q \o r)[j].n
    <3>1. q[i].n \in Numbers(q) /\ r[k].n \in Numbers(r)
      BY <1>1, <2>2 DEF Numbers
    <3>2. (q \o r)[i] = q[i] /\ (q \o r)[j] = r[k]
      BY <1>1, <2>2
    <3> QED BY <1>5, <3>1, <3>2 DEF Below
  <2>3. ASSUME NEW h \in 1..Len(r), i = Len(q) + h, NEW k \in 1..Len(r), j = Len(q) + k
        PROVE  (q \o r)[i].n < (q \o r)[j].n
    <3>1. h < k /\ (q \o r)[i] = r[h] /\ (q \o r)[j] = r[k]
      BY <1>1, <2>3
    <3> QED BY <1>1, <1>5, <2>3, <3>1 DEF Ascending
  <2>4. ASSUME NEW h \in 1..Len(r), i = Len(q) + h, j \in 1..Len(q) PROVE FALSE
    BY <1>1, <2>4
  <2> QED BY <1>1, <2>1, <2>2, <2>3, <2>4
<1> QED BY <1>2, <1>3, <1>4, <1>5

\* The indications numbered S are, in order and once each, in three places: with
\* the callbacks that have returned, in the ring and in the chip.
Ordered(D, R, O, S) ==
    /\ Ascending(D) /\ Ascending(R) /\ Ascending(O)
    /\ Below(Numbers(D), Numbers(R)) /\ Below(Numbers(D), Numbers(O))
    /\ Below(Numbers(R), Numbers(O))
    /\ Numbers(D) \cup Numbers(R) \cup Numbers(O) = S

\* They stay so when a message goes from one place to the next or is dropped,
\* and when a new one comes last.
LEMMA FetchOrdered ==
    ASSUME NEW D \in Seq(Msgs), NEW R \in Seq(Msgs), NEW O \in Seq(Msgs), NEW S \in SUBSET Nat,
           Ordered(D, R, O, S), O # <<>>
    PROVE  /\ IsInd(Head(O)) => Ordered(D, Append(R, Head(O)), Tail(O), S)
           /\ IsInd(Head(O)) => Ordered(D, R, Tail(O), S \ {Head(O).n})
           /\ ~IsInd(Head(O)) => Ordered(D, R, Tail(O), S)
<1> DEFINE m == Head(O)
<1>1. m \in Msgs /\ Tail(O) \in Seq(Msgs)
  OBVIOUS
<1>2. /\ Numbers(O) = NumberOf(m) \cup Numbers(Tail(O))
      /\ Ascending(Tail(O)) /\ Below(NumberOf(m), Numbers(Tail(O)))
  BY NumbersTail DEF Ordered
<1> HIDE DEF m
<1>3. Below(Numbers(D), Numbers(Tail(O))) /\ Below(Numbers(R), Numbers(Tail(O)))
      /\ Below(Numbers(D), NumberOf(m)) /\ Below(Numbers(R), NumberOf(m))
  BY <1>2 DEF Ordered, Below
<1>4. ASSUME IsInd(m) PROVE Ordered(D, Append(R, m), Tail(O), S)
  <2>1. Numbers(Append(R, m)) = Numbers(R) \cup NumberOf(m) /\ Ascending(Append(R, m))
    BY <1>1, <1>3, NumbersAppend DEF Ordered
  <2>2. Below(Numbers(D), Numbers(Append(R, m))) /\ Below(Numbers(Append(R, m)), Numbers(Tail(O)))
    BY <1>2, <1>3, <2>1 DEF Ordered, Below
  <2>3. Numbers(D) \cup Numbers(Append(R, m)) \cup Numbers(Tail(O)) = S
    BY <1>2, <2>1 DEF Ordered
  <2> QED
    BY <1>2, <1>3, <2>1, <2>2, <2>3 DEF Ordered
<1>5. ASSUME IsInd(m) PROVE Ordered(D, R, Tail(O), S \ {m.n})
  <2>1. NumberOf(m) = {m.n} /\ m.n \in Nat
    BY <1>1, <1>5, MsgNumbers DEF NumberOf
  <2>2. m.n \notin Numbers(D) /\ m.n \notin Numbers(R) /\ m.n \notin Numbers(Tail(O))
    BY <1>2, <1>3, <2>1 DEF Below
  <2>3. Numbers(D) \cup Numbers(R) \cup Numbers(Tail(O)) = S \ {m.n}
    BY <1>2, <2>1, <2>2 DEF Ordered
  <2> QED
    BY <1>2, <1>3, <2>3 DEF Ordered
<1>6. ASSUME ~IsInd(m) PROVE Ordered(D, R, Tail(O), S)
  <2>1. Numbers(Tail(O)) = Numbers(O)
    BY <1>2, <1>6 DEF NumberOf
  <2> QED
    BY <1>2, <1>3, <2>1 DEF Ordered
<1> QED
  BY <1>4, <1>5, <1>6 DEF m

LEMMA DequeueOrdered ==
    ASSUME NEW D \in Seq(Msgs), NEW R \in Seq(Msgs), NEW O \in Seq(Msgs), NEW S,
           Ordered(D, R, O, S), R # <<>>
    PROVE  Ordered(Append(D, Head(R)), Tail(R), O, S)
<1> DEFINE m == Head(R)
<1>1. m \in Msgs /\ Tail(R) \in Seq(Msgs)
  OBVIOUS
<1>2. /\ Numbers(R) = NumberOf(m) \cup Numbers(Tail(R))
      /\ Ascending(Tail(R)) /\ Below(NumberOf(m), Numbers(Tail(R)))
  BY NumbersTail DEF Ordered
<1> HIDE DEF m
<1>3. Below(Numbers(D), NumberOf(m)) /\ Below(Numbers(D), Numbers(Tail(R)))
      /\ Below(NumberOf(m), Numbers(O)) /\ Below(Numbers(Tail(R)), Numbers(O))
  BY <1>2 DEF Ordered, Below
<1>4. Numbers(Append(D, m)) = Numbers(D) \cup NumberOf(m) /\ Ascending(Append(D, m))
  BY <1>1, <1>3, NumbersAppend DEF Ordered
<1>5. Below(Numbers(Append(D, m)), Numbers(Tail(R))) /\ Below(Numbers(Append(D, m)), Numbers(O))
  BY <1>2, <1>3, <1>4 DEF Ordered, Below
<1>6. Numbers(Append(D, m)) \cup Numbers(Tail(R)) \cup Numbers(O) = S
  BY <1>2, <1>4 DEF Ordered
<1>7. Ordered(Append(D, m), Tail(R), O, S)
  BY <1>2, <1>3, <1>4, <1>5, <1>6 DEF Ordered
<1> QED
  BY <1>7 DEF m

LEMMA OfferOrdered ==
    ASSUME NEW D \in Seq(Msgs), NEW R \in Seq(Msgs), NEW O \in Seq(Msgs), NEW S \in SUBSET Nat,
           Ordered(D, R, O, S), NEW m \in Msgs, IsInd(m), \A n \in S : n < m.n
    PROVE  Ordered(D, R, Append(O, m), S \cup {m.n})
<1>1. /\ Below(Numbers(D), NumberOf(m)) /\ Below(Numbers(R), NumberOf(m))
      /\ Below(Numbers(O), NumberOf(m)) /\ NumberOf(m) = {m.n}
  BY DEF Below, NumberOf, Ordered
<1>2. Numbers(Append(O, m)) = Numbers(O) \cup NumberOf(m) /\ Ascending(Append(O, m))
  BY <1>1, NumbersAppend DEF Ordered
<1>3. Below(Numbers(D), Numbers(Append(O, m))) /\ Below(Numbers(R), Numbers(Append(O, m)))
  BY <1>1, <1>2 DEF Ordered, Below
<1>4. Numbers(D) \cup Numbers(R) \cup Numbers(Append(O, m)) = S \cup {m.n}
  BY <1>1, <1>2 DEF Ordered
<1> QED
  BY <1>2, <1>3, <1>4 DEF Ordered

LEMMA AnswerOrdered ==
    ASSUME NEW D \in Seq(Msgs), NEW R \in Seq(Msgs), NEW O \in Seq(Msgs), NEW S,
           Ordered(D, R, O, S), NEW m \in Msgs, ~IsInd(m)
    PROVE  Ordered(D, R, Append(O, m), S)
<1>1. Numbers(Append(O, m)) = Numbers(O) /\ (Ascending(O) => Ascending(Append(O, m)))
  BY NumbersAside
<1> QED
  BY <1>1 DEF Ordered

LEMMA ConcatOrdered ==
    ASSUME NEW D \in Seq(Msgs), NEW R \in Seq(Msgs), NEW O \in Seq(Msgs), NEW S,
           Ordered(D, R, O, S)
    PROVE  Ascending(D \o R \o O) /\ Numbers(D \o R \o O) = S
<1>1. PICK DR \in Seq(Msgs) : DR = D \o R
  <2>1. D \o R \in Seq(Msgs)
    OBVIOUS
  <2> QED
    BY <2>1
<1>2. Numbers(DR) = Numbers(D) \cup Numbers(R) /\ Ascending(DR)
  BY <1>1, NumbersConcat DEF Ordered
<1>3. Below(Numbers(DR), Numbers(O))
  BY <1>2 DEF Ordered, Below
<1>4. Ascending(DR \o O) /\ Numbers(DR \o O) = Numbers(DR) \cup Numbers(O)
  <2>1. Ascending(O)
    BY DEF Ordered
  <2>2. Numbers(DR \o O) = Numbers(DR) \cup Numbers(O)
    BY NumbersConcat
  <2>3. Ascending(DR \o O)
    BY <1>2, <1>3, <2>1, NumbersConcat
  <2> QED
    BY <2>2, <2>3
<1> QED
  BY <1>1, <1>2, <1>4 DEF Ordered

----------------------------------------------------------------------------
(* The ring as a sequence.                                                 *)

Used == [i \in 1..waterMark |-> SPI_Receive_Buffer[Slot(SPI_FIFO_Start + (i - 1))]]

LEMMA RingIsUsed == RingOK => InRing = Used /\ Used \in Seq(Msgs)
<1> SUFFICES ASSUME RingOK PROVE InRing = Used /\ Used \in Seq(Msgs)
  OBVIOUS
<1> USE Sizes
<1>1. ASSUME NEW i \in 1..waterMark
      PROVE  /\ (SPI_FIFO_Start + i - 1) % SPI_RX_FIFO_SIZE = Slot(SPI_FIFO_Start + (i - 1))
             /\ Slot(SPI_FIFO_Start + (i - 1)) \in Slots
  <2> DEFINE z == SPI_FIFO_Start + (i - 1)
  <2>1. z \in Int /\ 0 <= z /\ z < 2 * SPI_RX_FIFO_SIZE /\ SPI_FIFO_Start + i - 1 = z
    BY DEF RingOK, Slots
  <2> HIDE DEF z
  <2>2. z % SPI_RX_FIFO_SIZE = Slot(z) /\ Slot(z) \in Slots
    BY <2>1, ModSize DEF Slot, Slots
  <2> QED
    BY <2>1, <2>2 DEF z
<1>2. Level = waterMark
  BY LevelIsWaterMark
<1>3. InRing = Used
  BY <1>1, <1>2 DEF InRing, Used
<1>4. waterMark \in Nat /\ \A i \in 1..waterMark : Used[i] \in Msgs
  BY <1>1 DEF RingOK, Used
<1>5. Used = [i \in 1..waterMark |-> Used[i]]
  BY DEF Used
<1>6. Used \in Seq(Msgs)
  BY <1>4, <1>5
<1> QED
  BY <1>3, <1>6

LEMMA RingIsUsedNext == RingOK' => (InRing = Used /\ Used \in Seq(Msgs))'
BY RingIsUsed, PTL

LEMMA SameSeq ==
    ASSUME NEW S, NEW s \in Seq(S), NEW t \in Seq(S), Len(s) = Len(t),
           \A i \in 1..Len(s) : s[i] = t[i]
    PROVE  s = t
OBVIOUS

LEMMA RingStays == ASSUME RingOK, UNCHANGED ring PROVE Used' = Used
BY DEF Used, ring

LEMMA GetFreeBufAppends ==
    ASSUME RingOK, RingOK', NEW m \in Msgs, SPI_GetFreeBuf(m)
    PROVE  Used' = Append(Used, m)
<1> USE Sizes
<1>1. waterMark \in Nat /\ waterMark < SPI_RX_FIFO_SIZE /\ waterMark' = waterMark + 1
      /\ SPI_FIFO_Start' = SPI_FIFO_Start /\ SPI_FIFO_Start \in Slots
      /\ SPI_FIFO_End = Slot(SPI_FIFO_Start + waterMark) /\ SPI_FIFO_End \in Slots
  BY DEF RingOK, SPI_GetFreeBuf, Slot, Slots
<1>2. SPI_Receive_Buffer' = [SPI_Receive_Buffer EXCEPT ![SPI_FIFO_End] = m]
      /\ SPI_Receive_Buffer \in [Slots -> Msgs]
  BY DEF RingOK, SPI_GetFreeBuf
<1>3. ASSUME NEW i \in 1..waterMark
      PROVE  SPI_Receive_Buffer'[Slot(SPI_FIFO_Start + (i - 1))] = Used[i]
  <2>1. Slot(SPI_FIFO_Start + (i - 1)) \in Slots /\ Slot(SPI_FIFO_Start + (i - 1)) # SPI_FIFO_End
    BY <1>1 DEF Slot, Slots
  <2> QED
    BY <1>2, <2>1 DEF Used
<1>4. SPI_Receive_Buffer'[Slot(SPI_FIFO_Start + ((waterMark + 1) - 1))] = m
  <2>1. (waterMark + 1) - 1 = waterMark
    BY <1>1
  <2> QED
    BY <1>1, <1>2, <2>1
<1>5. Len(Used) = waterMark
  BY <1>1, RingIsUsed DEF Used
<1>6. Used \in Seq(Msgs)
  BY RingIsUsed
<1>7. /\ Append(Used, m) \in Seq(Msgs) /\ Len(Append(Used, m)) = waterMark + 1
      /\ \A i \in 1..waterMark : Append(Used, m)[i] = Used[i]
      /\ Append(Used, m)[waterMark + 1] = m
  BY <1>5, <1>6
<1>8. Used' = [i \in 1..(waterMark + 1) |->
                  SPI_Receive_Buffer'[Slot(SPI_FIFO_Start + (i - 1))]]
  BY <1>1 DEF Used
<1>9. \A i \in 1..(waterMark + 1) : i \in 1..waterMark \/ i = waterMark + 1
  BY <1>1
<1>10. \A i \in 1..(waterMark + 1) : Used'[i] = Append(Used, m)[i]
  BY <1>3, <1>4, <1>7, <1>8, <1>9
<1>11. Used' \in Seq(Msgs) /\ Len(Used') = waterMark + 1
  BY <1>1, <1>8, RingIsUsedNext
<1> HIDE DEF Used
<1> QED
  BY <1>7, <1>10, <1>11, SameSeq

LEMMA DequeueTails ==
    ASSUME RingOK, RingOK', waterMark > 0, SPI_DequeueFullBuf
    PROVE  Used' = Tail(Used) /\ Head(Used) = SPI_Receive_Buffer[SPI_FIFO_Start] /\ Used # <<>>
<1> USE Sizes
<1>1. waterMark \in 0..SPI_RX_FIFO_SIZE /\ waterMark' = waterMark - 1 /\ SPI_FIFO_Start \in Slots
      /\ SPI_FIFO_Start' = Slot(SPI_FIFO_Start + 1) /\ SPI_Receive_Buffer' = SPI_Receive_Buffer
  BY NextSlot DEF RingOK, SPI_DequeueFullBuf
<1>2. Used \in Seq(Msgs) /\ Len(Used) = waterMark
  BY <1>1, RingIsUsed DEF Used
<1>3. Used # <<>> /\ Head(Used) = Used[1]
  BY <1>1, <1>2
<1>4. Used[1] = SPI_Receive_Buffer[SPI_FIFO_Start]
  BY <1>1 DEF Used, Slot, Slots
<1>5. /\ Tail(Used) \in Seq(Msgs) /\ Len(Tail(Used)) = waterMark - 1
      /\ \A i \in 1..(waterMark - 1) : Tail(Used)[i] = Used[i + 1]
  BY <1>2, <1>3
<1>6. ASSUME NEW i \in 1..(waterMark - 1)
      PROVE  SPI_Receive_Buffer'[Slot(SPI_FIFO_Start' + (i - 1))] = Used[i + 1]
  <2>1. i + 1 \in 1..waterMark /\ (i + 1) - 1 = i
    BY <1>1
  <2>2. Slot(Slot(SPI_FIFO_Start + 1) + (i - 1)) = Slot(SPI_FIFO_Start + i)
    BY <1>1 DEF Slot, Slots
  <2> QED
    BY <1>1, <2>1, <2>2 DEF Used
<1>7. Used' = [i \in 1..(waterMark - 1) |-> SPI_Receive_Buffer'[Slot(SPI_FIFO_Start' + (i - 1))]]
  BY <1>1 DEF Used
<1>8. Used' \in Seq(Msgs) /\ Len(Used') = waterMark - 1
  BY <1>1, <1>7, RingIsUsedNext
<1>9. \A i \in 1..(waterMark - 1) : Used'[i] = Tail(Used)[i]
  BY <1>5, <1>6, <1>7
<1> HIDE DEF Used
<1>10. Used' = Tail(Used)
  BY <1>5, <1>8, <1>9, SameSeq
<1> QED
  BY <1>3, <1>4, <1>10

----------------------------------------------------------------------------
(* Every step keeps the indications in order.                              *)

OrderInv ==
    /\ Ordered(delivered, Used, outbox, 1..made \ dropped)
    /\ dropped \subseteq 1..made

LEMMA OrderTypes ==
    ASSUME SpiInv
    PROVE  /\ delivered \in Seq(Msgs) /\ Used \in Seq(Msgs) /\ outbox \in Seq(Msgs)
           /\ made \in Nat /\ (1..made \ dropped) \in SUBSET Nat
BY RingIsUsed DEF SpiInv, RingInv, Types, MainTypes, ChipTypes

LEMMA OrderStays ==
    ASSUME SpiInv, OrderInv, UNCHANGED <<ring, outbox, dropped, delivered, made>>
    PROVE  OrderInv'
BY RingStays DEF SpiInv, RingInv, OrderInv

\* An exchange takes the first message of the chip, if there is one.  What is an
\* indication goes to the end of the ring, or is dropped when that is full.
LEMMA ExchangeKeepsOrder ==
    ASSUME SpiInv, SpiInv', OrderInv, NEW wait, getBuf(wait), Fetched,
           delivered' = delivered, made' = made
    PROVE  OrderInv'
<1> DEFINE S == 1..made \ dropped
<1>1. /\ delivered \in Seq(Msgs) /\ Used \in Seq(Msgs) /\ outbox \in Seq(Msgs)
      /\ made \in Nat /\ S \in SUBSET Nat
  BY OrderTypes
<1>2. RingOK /\ RingOK'
  BY DEF SpiInv, RingInv
<1>3. Ordered(delivered, Used, outbox, S) /\ dropped \subseteq 1..made
  BY DEF OrderInv
<1>4. IsInd(Received) => outbox # <<>>
  BY DEF Received, IsInd, IDLE
<1>5. outbox # <<>> => Received = Head(outbox) /\ outbox' = Tail(outbox) /\ Head(outbox) \in Msgs
  BY <1>1 DEF Received, Fetched
<1> HIDE DEF S
<1>6. outbox # <<>> =>
          /\ IsInd(Head(outbox)) => Ordered(delivered, Append(Used, Head(outbox)), Tail(outbox), S)
          /\ IsInd(Head(outbox)) => Ordered(delivered, Used, Tail(outbox), S \ {Head(outbox).n})
          /\ ~IsInd(Head(outbox)) => Ordered(delivered, Used, Tail(outbox), S)
  BY <1>1, <1>3, FetchOrdered
<1>7. CASE IsInd(Received) /\ SPI_GetFreeBuf(Received) /\ UNCHANGED dropped
  <2>1. Used' = Append(Used, Head(outbox))
    BY <1>2, <1>4, <1>5, <1>7, GetFreeBufAppends
  <2>2. Ordered(delivered, Used', outbox', S)
    BY <1>4, <1>5, <1>6, <1>7, <2>1
  <2> QED
    BY <1>3, <1>7, <2>2 DEF OrderInv, S
<1>8. CASE IsInd(Received) /\ dropped' = dropped \cup {Received.n} /\ UNCHANGED ring
  <2>1. Used' = Used
    BY <1>2, <1>8, RingStays
  <2>2. Ordered(delivered, Used', outbox', S \ {Received.n})
    BY <1>4, <1>5, <1>6, <1>8, <2>1
  <2>3. S \ {Received.n} = 1..made \ dropped'
    BY <1>8 DEF S
  <2>4. Received.n \in 1..made
    <3>1. Received.n \in Numbers(outbox)
      <4>1. outbox # <<>> /\ Received = outbox[1] /\ 1 \in DOMAIN outbox
        BY <1>1, <1>4, <1>5, <1>8
      <4> QED
        BY <1>8, <4>1 DEF Numbers
    <3> QED
      BY <1>3, <3>1 DEF Ordered, S
  <2> QED
    BY <1>3, <1>8, <2>2, <2>3, <2>4 DEF OrderInv
<1>9. CASE ~IsInd(Received) /\ UNCHANGED <<ring, dropped>>
  <2>1. Used' = Used
    BY <1>2, <1>9, RingStays
  <2>2. Ordered(delivered, Used', outbox', S)
    <3>1. CASE outbox = <<>>
      BY <1>3, <2>1, <3>1 DEF Fetched
    <3>2. CASE outbox # <<>>
      BY <1>5, <1>6, <1>9, <2>1, <3>2
    <3> QED
      BY <3>1, <3>2
  <2> QED
    BY <1>3, <1>9, <2>2 DEF OrderInv, S
<1>10. ~IsInd(Received) \/ ~(IsAnswer(Received) \/ Received = IDLE)
  BY SpiAssumption DEF IsInd, IsAnswer, IDLE
<1> QED
  BY <1>7, <1>8, <1>9, <1>10 DEF getBuf

LEMMA ReadKeepsOrder ==
    ASSUME SpiInv, SpiInv', OrderInv, DISPATCH_ReadCA821x,
           delivered' = delivered, made' = made
    PROVE  OrderInv'
<1>1. CASE UNCHANGED <<ring, outbox, dropped>>
  BY <1>1, OrderStays
<1>2. CASE ExchangeNothing
  BY <1>2, ExchangeKeepsOrder DEF ExchangeNothing
<1> QED
  BY <1>1, <1>2 DEF DISPATCH_ReadCA821x

LEMMA EndCallbackKeepsOrder ==
    ASSUME SpiInv, SpiInv', OrderInv, EndCallback
    PROVE  OrderInv'
<1>1. /\ delivered \in Seq(Msgs) /\ Used \in Seq(Msgs) /\ outbox \in Seq(Msgs)
  BY OrderTypes
<1>2. /\ pc = "callback" /\ SPI_DequeueFullBuf /\ delivered' = Append(delivered, hand)
      /\ UNCHANGED <<outbox, dropped, made>>
  BY DEF EndCallback, chip
<1>3. RingOK /\ RingOK' /\ waterMark > 0 /\ SPI_Receive_Buffer[SPI_FIFO_Start] = hand
  BY <1>2 DEF SpiInv, RingInv, CallbackOK
<1>4. Used' = Tail(Used) /\ Head(Used) = hand /\ Used # <<>>
  BY <1>2, <1>3, DequeueTails
<1>5. Ordered(Append(delivered, Head(Used)), Tail(Used), outbox, 1..made \ dropped)
  <2>1. PICK S : S = 1..made \ dropped
    OBVIOUS
  <2>2. Ordered(delivered, Used, outbox, S)
    BY <2>1 DEF OrderInv
  <2>3. Ordered(Append(delivered, Head(Used)), Tail(Used), outbox, S)
    BY <1>1, <1>4, <2>2, DequeueOrdered
  <2> QED
    BY <2>1, <2>3
<1> QED
  BY <1>2, <1>4, <1>5 DEF OrderInv

LEMMA OfferKeepsOrder ==
    ASSUME SpiInv, OrderInv, ChipExecute \/ ChipIndicate
    PROVE  OrderInv'
<1> DEFINE S == 1..made \ dropped
<1>1. /\ delivered \in Seq(Msgs) /\ Used \in Seq(Msgs) /\ outbox \in Seq(Msgs)
      /\ made \in Nat /\ S \in SUBSET Nat
  BY OrderTypes
<1>2. UNCHANGED <<ring, dropped, delivered>> /\ Used' = Used
  BY RingStays DEF ChipExecute, ChipIndicate, counts, SpiInv, RingInv
<1>3. Ordered(delivered, Used, outbox, S) /\ dropped \subseteq 1..made
  BY DEF OrderInv
<1>4. CASE ChipIndicate
  <2>1. PICK m \in Msgs : m = Ind(made + 1)
    BY <1>1, MsgNumbers
  <2>2. IsInd(m) /\ m.n = made + 1
    BY <2>1 DEF Ind, IsInd
  <2>3. \A n \in S : n < m.n
    BY <1>1, <2>2
  <2>4. outbox' = Append(outbox, m) /\ made' = made + 1
    BY <1>4, <2>1 DEF ChipIndicate, Offer
  <2>5. S \cup {m.n} = 1..made' \ dropped'
    BY <1>1, <1>2, <1>3, <2>2, <2>4
  <2> HIDE DEF S
  <2>6. Ordered(delivered, Used, Append(outbox, m), S \cup {m.n})
    BY <1>1, <1>3, <2>2, <2>3, OfferOrdered
  <2>7. dropped' \subseteq 1..made'
    BY <1>1, <1>2, <1>3, <2>4
  <2> QED
    BY <1>2, <2>4, <2>5, <2>6, <2>7 DEF OrderInv
<1>5. CASE ChipExecute
  <2>1. made' = made
    BY <1>5 DEF ChipExecute, counts
  <2>2. CASE UNCHANGED outbox
    BY <1>2, <2>1, <2>2, OrderStays
  <2>3. CASE IsAnswer(Head(inbox)) /\ outbox' = Append(outbox, Head(inbox))
    <3>1. Head(inbox) \in Msgs /\ ~IsInd(Head(inbox))
      <4>1. Head(inbox) \in [kind : Kinds \cup {"async"}, n : Nat]
        <5>1. PICK C : C = [kind : Kinds \cup {"async"}, n : Nat]
          OBVIOUS
        <5>2. inbox \in Seq(C) /\ inbox # <<>>
          BY <1>5, <5>1 DEF ChipExecute, SpiInv, Types, ChipTypes
        <5>3. Head(inbox) \in C
          BY <5>2
        <5> QED
          BY <5>1, <5>3
      <4> QED
        BY <2>3, <4>1, SpiAssumption DEF IsAnswer, IsInd, Msgs
    <3> HIDE DEF S
    <3>2. Ordered(delivered, Used, Append(outbox, Head(inbox)), S)
      BY <1>1, <1>3, <3>1, AnswerOrdered
    <3> QED
      BY <1>2, <1>3, <2>1, <2>3, <3>2 DEF OrderInv, S
  <2> QED
    BY <1>5, <2>2, <2>3 DEF ChipExecute, Offer
<1> QED
  BY <1>4, <1>5

LEMMA OrderStep ==
    ASSUME SpiInv, SpiInv', OrderInv, [Next]_vars
    PROVE  OrderInv'
<1>1. CASE Interrupt
  BY <1>1, ReadKeepsOrder DEF Interrupt, counts
<1>2. CASE EndDispatch
  <2>1. delivered' = delivered /\ made' = made
    BY <1>2 DEF EndDispatch
  <2>2. CASE isReadPending
    BY <1>2, <2>1, <2>2, ReadKeepsOrder DEF EndDispatch
  <2>3. CASE ~isReadPending
    BY <1>2, <2>1, <2>3, OrderStays DEF EndDispatch, chip
  <2> QED
    BY <2>2, <2>3
<1>3. CASE EndCallback
  BY <1>3, EndCallbackKeepsOrder
<1>4. CASE SendAsync \/ \E k \in Kinds : SendSync(k)
  <2>1. PICK c, wait : ExchangeCommand(c, wait) /\ delivered' = delivered /\ made' = made
    BY <1>4 DEF SendAsync, SendSync
  <2> QED
    BY <2>1, ExchangeKeepsOrder DEF ExchangeCommand
<1>5. CASE ChipExecute \/ ChipIndicate
  BY <1>5, OfferKeepsOrder
<1>6. CASE \/ BeginDispatch \/ BeginCallback \/ SendFails \/ SyncDone \/ SyncTimeout
           \/ FlashBegin \/ FlashEnd \/ SPI_ExchangeComplete \/ ChipReady \/ UNCHANGED vars
  <2>1. UNCHANGED <<ring, outbox, dropped, delivered, made>>
    BY <1>6 DEF BeginDispatch, BeginCallback, SendFails, SyncDone, SyncTimeout, EndSync,
                FlashBegin, FlashEnd, SPI_ExchangeComplete, ChipReady, chip, counts, vars
  <2> QED
    BY <2>1, OrderStays
<1> QED
  BY <1>1, <1>2, <1>3, <1>4, <1>5, <1>6 DEF Next, Dispatch

LEMMA OrderStart == Init => OrderInv
<1> SUFFICES ASSUME Init PROVE OrderInv
  OBVIOUS
<1>1. delivered = <<>> /\ outbox = <<>> /\ waterMark = 0 /\ made = 0 /\ dropped = {}
  BY DEF Init
<1>2. DOMAIN Used = {} /\ DOMAIN delivered = {} /\ DOMAIN outbox = {}
  BY <1>1 DEF Used
<1>3. Numbers(Used) = {} /\ Numbers(delivered) = {} /\ Numbers(outbox) = {}
  BY <1>2 DEF Numbers
<1>4. Ascending(Used) /\ Ascending(delivered) /\ Ascending(outbox)
  BY <1>2 DEF Ascending
<1>5. 1..made \ dropped = {}
  BY <1>1
<1> QED
  BY <1>1, <1>3, <1>4, <1>5 DEF OrderInv, Ordered, Below

----------------------------------------------------------------------------
(* One answer is under way at most: that to the call being waited for.     *)

NoAnswerIn(s) == \A i \in DOMAIN s : ~IsAnswer(s[i])
OnlyAnswer(s, m) ==
    \A i \in DOMAIN s : IsAnswer(s[i]) =>
        s[i] = m /\ \A j \in DOMAIN s : IsAnswer(s[j]) => j = i

OneAnswer ==
    /\ OnlyAnswer(inbox, call) /\ OnlyAnswer(outbox, call)
    /\ IsAnswer(SPI_Wait_Buf) => SPI_Wait_Buf = call
    /\ NoAnswerIn(inbox) \/ (NoAnswerIn(outbox) /\ ~IsAnswer(SPI_Wait_Buf))
    /\ NoAnswerIn(outbox) \/ ~IsAnswer(SPI_Wait_Buf)

AnswerInv ==
    /\ call = NULL \/ IsAnswer(call)
    /\ timedOut \/ OneAnswer
    /\ AnswerIsOurs

LEMMA NullIsNoAnswer == ~IsAnswer(NULL) /\ ~IsAnswer(IDLE)
BY SpiAssumption DEF IsAnswer, NULL, IDLE

LEMMA AnswersAppend ==
    ASSUME NEW S, NEW s \in Seq(S), NEW x \in S, NEW m
    PROVE  /\ NoAnswerIn(s) /\ x = m => OnlyAnswer(Append(s, x), m)
           /\ OnlyAnswer(s, m) /\ ~IsAnswer(x) => OnlyAnswer(Append(s, x), m)
           /\ NoAnswerIn(s) /\ ~IsAnswer(x) => NoAnswerIn(Append(s, x))
<1>1. /\ DOMAIN s = 1..Len(s) /\ DOMAIN Append(s, x) = 1..(Len(s) + 1)
      /\ \A i \in 1..(Len(s) + 1) : i \in 1..Len(s) \/ i = Len(s) + 1
      /\ \A i \in 1..Len(s) : Append(s, x)[i] = s[i]
      /\ Append(s, x)[Len(s) + 1] = x
  OBVIOUS
<1>2. NoAnswerIn(s) /\ x = m => OnlyAnswer(Append(s, x), m)
  BY <1>1 DEF NoAnswerIn, OnlyAnswer
<1>3. OnlyAnswer(s, m) /\ ~IsAnswer(x) => OnlyAnswer(Append(s, x), m)
  BY <1>1 DEF OnlyAnswer
<1>4. NoAnswerIn(s) /\ ~IsAnswer(x) => NoAnswerIn(Append(s, x))
  BY <1>1 DEF NoAnswerIn
<1> QED
  BY <1>2, <1>3, <1>4

LEMMA AnswersTail ==
    ASSUME NEW S, NEW s \in Seq(S), s # <<>>, NEW m
    PROVE  /\ NoAnswerIn(s) => NoAnswerIn(Tail(s)) /\ ~IsAnswer(Head(s))
           /\ OnlyAnswer(s, m) => OnlyAnswer(Tail(s), m)
           /\ OnlyAnswer(s, m) /\ IsAnswer(Head(s)) => Head(s) = m /\ NoAnswerIn(Tail(s))
<1>1. /\ DOMAIN s = 1..Len(s) /\ DOMAIN Tail(s) = 1..(Len(s) - 1) /\ Len(s) \in Nat
      /\ 1 \in DOMAIN s /\ Head(s) = s[1]
      /\ \A i \in 1..(Len(s) - 1) : Tail(s)[i] = s[i + 1] /\ i + 1 \in 1..Len(s) /\ i + 1 # 1
      /\ \A i, j \in 1..(Len(s) - 1) : i + 1 = j + 1 => i = j
  OBVIOUS
<1>2. NoAnswerIn(s) => NoAnswerIn(Tail(s)) /\ ~IsAnswer(Head(s))
  BY <1>1 DEF NoAnswerIn
<1>3. OnlyAnswer(s, m) => OnlyAnswer(Tail(s), m)
  BY <1>1 DEF OnlyAnswer
<1>4. OnlyAnswer(s, m) /\ IsAnswer(Head(s)) => Head(s) = m /\ NoAnswerIn(Tail(s))
  BY <1>1 DEF OnlyAnswer, NoAnswerIn
<1> QED
  BY <1>2, <1>3, <1>4

LEMMA NoAnswerIsOnly ==
    ASSUME NEW s, NEW m
    PROVE  /\ NoAnswerIn(s) => OnlyAnswer(s, m)
           /\ OnlyAnswer(s, m) /\ ~IsAnswer(m) => NoAnswerIn(s)
BY DEF NoAnswerIn, OnlyAnswer

LEMMA AnswerTypes ==
    ASSUME SpiInv
    PROVE  \E C : inbox \in Seq(C) /\ Cmd("async", sends + 1) \in C
                  /\ \A k \in Kinds : Cmd(k, sends + 1) \in C
<1> DEFINE C == [kind : Kinds \cup {"async"}, n : Nat]
<1>1. inbox \in Seq(C) /\ Cmd("async", sends + 1) \in C
      /\ \A k \in Kinds : Cmd(k, sends + 1) \in C
  BY DEF SpiInv, Types, ChipTypes, MainTypes, Cmd
<1> QED
  BY <1>1

\* An exchange hands the answer over to the waiting call, if there is one.
LEMMA ExchangeOneAnswer ==
    ASSUME SpiInv, OnlyAnswer(outbox, call), NEW wait, getBuf(wait), Fetched,
           IsAnswer(wait) => wait = call /\ NoAnswerIn(outbox)
    PROVE  /\ OnlyAnswer(outbox', call)
           /\ IsAnswer(SPI_Wait_Buf') => SPI_Wait_Buf' = call
           /\ NoAnswerIn(outbox') \/ ~IsAnswer(SPI_Wait_Buf')
           /\ NoAnswerIn(outbox) => NoAnswerIn(outbox')
           /\ NoAnswerIn(outbox) => SPI_Wait_Buf' = wait
<1>1. outbox \in Seq(Msgs)
  BY DEF SpiInv, Types, ChipTypes
<1>2. SPI_Wait_Buf' = IF IsAnswer(Received) /\ wait # NULL THEN Received ELSE wait
  BY SpiAssumption DEF getBuf, IsInd, IsAnswer
<1>3. CASE outbox = <<>>
  <2>1. Received = IDLE /\ outbox' = <<>>
    BY <1>3 DEF Received, Fetched
  <2>2. NoAnswerIn(outbox') /\ OnlyAnswer(outbox', call)
    BY <2>1 DEF NoAnswerIn, OnlyAnswer
  <2>3. SPI_Wait_Buf' = wait
    BY <1>2, <2>1, NullIsNoAnswer
  <2> QED
    BY <2>2, <2>3
<1>4. CASE outbox # <<>>
  <2>1. Received = Head(outbox) /\ outbox' = Tail(outbox)
    BY <1>4 DEF Received, Fetched
  <2>2. /\ NoAnswerIn(outbox) => NoAnswerIn(outbox') /\ ~IsAnswer(Received)
        /\ OnlyAnswer(outbox', call)
        /\ IsAnswer(Received) => Received = call /\ NoAnswerIn(outbox')
    BY <1>1, <1>4, <2>1, AnswersTail
  <2> QED
    BY <1>2, <2>2
<1> QED
  BY <1>3, <1>4

LEMMA AnswersStay ==
    ASSUME AnswerInv, UNCHANGED <<inbox, outbox, SPI_Wait_Buf, call, timedOut, result>>
    PROVE  AnswerInv'
BY DEF AnswerInv, OneAnswer, AnswerIsOurs, NoAnswerIn, OnlyAnswer

LEMMA ReadKeepsAnswer ==
    ASSUME SpiInv, AnswerInv, DISPATCH_ReadCA821x, UNCHANGED <<call, timedOut, result>>
    PROVE  AnswerInv'
<1>1. CASE UNCHANGED <<inbox, outbox, SPI_Wait_Buf>>
  BY <1>1, AnswersStay
<1>2. CASE ExchangeNothing
  <2>1. AnswerIsOurs' /\ (call' = NULL \/ IsAnswer(call'))
    BY DEF AnswerInv, AnswerIsOurs
  <2>2. CASE OneAnswer
    <3>1. getBuf(SPI_Wait_Buf) /\ Fetched /\ inbox' = inbox
      BY <1>2 DEF ExchangeNothing
    <3>2. OnlyAnswer(outbox, call)
          /\ (IsAnswer(SPI_Wait_Buf) => SPI_Wait_Buf = call /\ NoAnswerIn(outbox))
      BY <2>2 DEF OneAnswer
    <3>3. /\ OnlyAnswer(outbox', call)
          /\ IsAnswer(SPI_Wait_Buf') => SPI_Wait_Buf' = call
          /\ NoAnswerIn(outbox') \/ ~IsAnswer(SPI_Wait_Buf')
          /\ NoAnswerIn(outbox) => NoAnswerIn(outbox')
          /\ NoAnswerIn(outbox) => SPI_Wait_Buf' = SPI_Wait_Buf
      BY <3>1, <3>2, ExchangeOneAnswer
    <3>4. OneAnswer'
      BY <2>2, <3>1, <3>3 DEF OneAnswer
    <3> QED
      BY <2>1, <3>4 DEF AnswerInv
  <2>3. CASE timedOut
    BY <2>1, <2>3 DEF AnswerInv
  <2> QED
    BY <2>2, <2>3 DEF AnswerInv
<1> QED
  BY <1>1, <1>2 DEF DISPATCH_ReadCA821x

LEMMA SendKeepsAnswer ==
    ASSUME SpiInv, AnswerInv, SendAsync \/ \E k \in Kinds : SendSync(k)
    PROVE  AnswerInv'
<1>1. call = NULL /\ SPI_Wait_Buf = NULL /\ UNCHANGED <<result, timedOut>>
  BY DEF SendAsync, SendSync, MaySend, main, SpiInv, RingInv, WaitOK
<1>2. PICK C : inbox \in Seq(C) /\ Cmd("async", sends + 1) \in C
               /\ \A k \in Kinds : Cmd(k, sends + 1) \in C
  BY AnswerTypes
<1>3. AnswerIsOurs'
  BY <1>1 DEF AnswerInv, AnswerIsOurs
<1>4. OneAnswer => NoAnswerIn(inbox) /\ NoAnswerIn(outbox) /\ OnlyAnswer(outbox, call)
  BY <1>1, NullIsNoAnswer, NoAnswerIsOnly DEF OneAnswer
<1>5. CASE SendAsync
  <2> DEFINE c == Cmd("async", sends + 1)
  <2>1. ~IsAnswer(c) /\ call' = call
    BY <1>5, SpiAssumption DEF SendAsync, main, IsAnswer, Cmd
  <2>2. getBuf(SPI_Wait_Buf) /\ Fetched /\ inbox' = Append(inbox, c) /\ c \in C
    BY <1>2, <1>5 DEF SendAsync, ExchangeCommand
  <2> HIDE DEF c
  <2>3. ASSUME OneAnswer PROVE OneAnswer'
    <3>1. ~IsAnswer(SPI_Wait_Buf)
      BY <1>1, NullIsNoAnswer
    <3>2. NoAnswerIn(outbox') /\ SPI_Wait_Buf' = SPI_Wait_Buf
      BY <1>4, <2>2, <2>3, <3>1, ExchangeOneAnswer
    <3>3. NoAnswerIn(inbox')
      BY <1>2, <1>4, <2>1, <2>2, <2>3, AnswersAppend
    <3>4. OnlyAnswer(inbox', call') /\ OnlyAnswer(outbox', call')
      BY <3>2, <3>3, NoAnswerIsOnly
    <3> QED
      BY <3>1, <3>2, <3>3, <3>4 DEF OneAnswer
  <2> QED
    BY <1>1, <1>3, <2>1, <2>3 DEF AnswerInv
<1>6. CASE \E k \in Kinds : SendSync(k)
  <2>1. PICK k \in Kinds : SendSync(k)
    BY <1>6
  <2> DEFINE c == Cmd(k, sends + 1)
  <2>2. IsAnswer(c) /\ call' = c /\ c \in C
    BY <1>2, <2>1 DEF SendSync, IsAnswer, Cmd
  <2>3. getBuf(IDLE) /\ Fetched /\ inbox' = Append(inbox, c)
    BY <2>1 DEF SendSync, ExchangeCommand
  <2> HIDE DEF c
  <2>4. ASSUME OneAnswer PROVE OneAnswer'
    <3>1. NoAnswerIn(outbox') /\ SPI_Wait_Buf' = IDLE
      BY <1>4, <2>3, <2>4, NullIsNoAnswer, ExchangeOneAnswer
    <3>2. OnlyAnswer(inbox', call') /\ OnlyAnswer(outbox', call')
      BY <1>2, <1>4, <2>2, <2>3, <2>4, <3>1, AnswersAppend, NoAnswerIsOnly
    <3> QED
      BY <3>1, <3>2, NullIsNoAnswer DEF OneAnswer
  <2> QED
    BY <1>1, <1>3, <2>2, <2>4 DEF AnswerInv
<1> QED
  BY <1>5, <1>6

\* A call ends with the answer that is there, or gives up for good.
LEMMA EndSyncKeepsAnswer ==
    ASSUME SpiInv, AnswerInv, SyncDone \/ SyncTimeout
    PROVE  AnswerInv'
<1>1. call' = NULL /\ SPI_Wait_Buf' = NULL /\ UNCHANGED <<inbox, outbox>>
  BY DEF SyncDone, SyncTimeout, EndSync, chip
<1>2. CASE SyncTimeout
  <2>1. timedOut' = TRUE /\ result'.status = "TIMEOUT"
    BY <1>2 DEF SyncTimeout, EndSync
  <2> QED
    BY <1>1, <2>1 DEF AnswerInv, AnswerIsOurs
<1>3. CASE SyncDone
  <2>1. /\ result' = [cmd |-> call, status |-> "SUCCESS", answer |-> SPI_Wait_Buf,
                      whole |-> filling # "answer"]
        /\ timedOut' = timedOut /\ call # NULL /\ SPI_Wait_Buf.kind = call.kind
        /\ filling = "nothing"
    BY <1>3 DEF SyncDone, EndSync, Answered, ExchangeInProgress
  <2>2. IsAnswer(SPI_Wait_Buf)
    BY <2>1 DEF AnswerInv, IsAnswer
  <2>3. OneAnswer => SPI_Wait_Buf = call /\ NoAnswerIn(inbox) /\ NoAnswerIn(outbox)
    BY <2>2 DEF OneAnswer
  <2>4. AnswerIsOurs'
    <3>1. timedOut \/ SPI_Wait_Buf = call
      BY <2>3 DEF AnswerInv
    <3>2. result'.whole /\ result'.answer = SPI_Wait_Buf /\ result'.cmd = call
      BY <2>1
    <3> QED
      BY <2>1, <3>1, <3>2 DEF AnswerIsOurs
  <2>5. OneAnswer => OneAnswer'
    <3>1. ASSUME OneAnswer PROVE OneAnswer'
      <4>1. NoAnswerIn(inbox') /\ NoAnswerIn(outbox')
        BY <1>1, <2>3, <3>1
      <4>2. OnlyAnswer(inbox', call') /\ OnlyAnswer(outbox', call')
        BY <4>1, NoAnswerIsOnly
      <4> QED
        BY <1>1, <4>1, <4>2, NullIsNoAnswer DEF OneAnswer
    <3> QED
      BY <3>1
  <2> QED
    BY <1>1, <2>1, <2>4, <2>5 DEF AnswerInv
<1> QED
  BY <1>2, <1>3

LEMMA ExecuteKeepsAnswer ==
    ASSUME SpiInv, AnswerInv, ChipExecute
    PROVE  AnswerInv'
<1>1. /\ inbox # <<>> /\ inbox' = Tail(inbox)
      /\ IF IsAnswer(Head(inbox)) THEN outbox' = Append(outbox, Head(inbox))
                                  ELSE outbox' = outbox
      /\ UNCHANGED <<SPI_Wait_Buf, call, timedOut, result>>
  BY DEF ChipExecute, Offer, main, counts
<1>2. PICK C : inbox \in Seq(C)
  BY AnswerTypes
<1>3. AnswerIsOurs'
  BY <1>1 DEF AnswerInv, AnswerIsOurs
<1>4. ASSUME OneAnswer PROVE OneAnswer'
  <2>1. /\ OnlyAnswer(Tail(inbox), call)
        /\ NoAnswerIn(inbox) => NoAnswerIn(Tail(inbox)) /\ ~IsAnswer(Head(inbox))
        /\ IsAnswer(Head(inbox)) => Head(inbox) = call /\ NoAnswerIn(Tail(inbox))
    BY <1>1, <1>2, <1>4, AnswersTail DEF OneAnswer
  <2>2. CASE IsAnswer(Head(inbox))
    <3>1. NoAnswerIn(outbox) /\ ~IsAnswer(SPI_Wait_Buf) /\ Head(inbox) = call
      BY <1>4, <2>1, <2>2 DEF OneAnswer
    <3>2. Head(inbox) \in Msgs /\ outbox \in Seq(Msgs)
      <4>1. call \in Msgs \cup {NULL}
        BY DEF SpiInv, Types, MainTypes
      <4> QED
        BY <2>2, <3>1, <4>1, NullIsNoAnswer DEF SpiInv, Types, ChipTypes
    <3>3. OnlyAnswer(outbox', call)
      BY <1>1, <2>2, <3>1, <3>2, AnswersAppend
    <3> QED
      BY <1>1, <1>4, <2>1, <2>2, <3>1, <3>3 DEF OneAnswer
  <2>3. CASE ~IsAnswer(Head(inbox))
    BY <1>1, <1>4, <2>1, <2>3 DEF OneAnswer
  <2> QED
    BY <2>2, <2>3
<1> QED
  BY <1>1, <1>3, <1>4 DEF AnswerInv

LEMMA IndicateKeepsAnswer ==
    ASSUME SpiInv, AnswerInv, ChipIndicate
    PROVE  AnswerInv'
<1>1. /\ outbox' = Append(outbox, Ind(made + 1))
      /\ UNCHANGED <<inbox, SPI_Wait_Buf, call, timedOut, result>>
  BY DEF ChipIndicate, Offer, main
<1>2. Ind(made + 1) \in Msgs /\ outbox \in Seq(Msgs) /\ ~IsAnswer(Ind(made + 1))
  BY MsgNumbers, SpiAssumption DEF SpiInv, Types, ChipTypes, Ind, IsAnswer
<1>3. /\ OnlyAnswer(outbox, call) => OnlyAnswer(outbox', call)
      /\ NoAnswerIn(outbox) => NoAnswerIn(outbox')
  BY <1>1, <1>2, AnswersAppend
<1>4. AnswerIsOurs'
  BY <1>1 DEF AnswerInv, AnswerIsOurs
<1>5. OneAnswer => OneAnswer'
  BY <1>1, <1>3 DEF OneAnswer
<1> QED
  BY <1>1, <1>4, <1>5 DEF AnswerInv

LEMMA AnswerStep ==
    ASSUME SpiInv, AnswerInv, [Next]_vars
    PROVE  AnswerInv'
<1>1. CASE Interrupt
  BY <1>1, ReadKeepsAnswer DEF Interrupt, main, counts
<1>2. CASE EndDispatch
  <2>1. UNCHANGED <<call, timedOut, result>>
    BY <1>2 DEF EndDispatch
  <2>2. CASE isReadPending
    BY <1>2, <2>1, <2>2, ReadKeepsAnswer DEF EndDispatch
  <2>3. CASE ~isReadPending
    BY <1>2, <2>1, <2>3, AnswersStay DEF EndDispatch, chip
  <2> QED
    BY <2>2, <2>3
<1>3. CASE SendAsync \/ \E k \in Kinds : SendSync(k)
  BY <1>3, SendKeepsAnswer
<1>4. CASE SyncDone \/ SyncTimeout
  BY <1>4, EndSyncKeepsAnswer
<1>5. CASE ChipExecute
  BY <1>5, ExecuteKeepsAnswer
<1>6. CASE ChipIndicate
  BY <1>6, IndicateKeepsAnswer
<1>7. CASE \/ BeginDispatch \/ BeginCallback \/ EndCallback \/ SendFails
           \/ FlashBegin \/ FlashEnd \/ SPI_ExchangeComplete \/ ChipReady \/ UNCHANGED vars
  <2>1. UNCHANGED <<inbox, outbox, SPI_Wait_Buf, call, timedOut, result>>
    BY <1>7 DEF BeginDispatch, BeginCallback, EndCallback, SendFails, FlashBegin, FlashEnd,
                SPI_ExchangeComplete, ChipReady, main, chip, counts, vars
  <2> QED
    BY <2>1, AnswersStay
<1> QED
  BY <1>1, <1>2, <1>3, <1>4, <1>5, <1>6, <1>7 DEF Next, Dispatch

----------------------------------------------------------------------------
(* The theorems.                                                           *)

\* The inductive invariant holds throughout: the ring, what the callbacks are
\* given, the buffer of a waiting call and the reserve are as described above.
LEMMA SpiInvariant == Spec => []SpiInv
<1>1. Init => SpiInv
  BY InitInv
<1>2. SpiInv /\ [Next]_vars => SpiInv'
  BY StepInv
<1> QED
  BY <1>1, <1>2, PTL DEF Spec

\* The driver's variables keep their types: in particular both indices stay in
\* the ring, whatever the order of interrupts, exchanges and callbacks.
THEOREM DriverTypes == Spec => []TypeOK
BY SpiInvariant, SpiInvTypes, PTL

\* The water mark, which interrupts count up and the main program counts down,
\* is the number of buffers in use for a ring of any size.
THEOREM WaterMarkCorrect == Spec => []WaterMarkRight
<1>1. SpiInv => WaterMarkRight
  BY LevelIsWaterMark DEF SpiInv, RingInv, WaterMarkRight
<1> QED
  BY <1>1, SpiInvariant, PTL

\* The buffer that the callbacks read in place is neither reused nor still being
\* filled, for a ring of any size and any number of nested exchanges.
THEOREM CallbacksSeeStableBuffers == Spec => []CallbackBufferStable
<1>1. SpiInv => CallbackBufferStable
  <2> SUFFICES ASSUME SpiInv PROVE CallbackBufferStable
    OBVIOUS
  <2>1. Level = waterMark
    BY LevelIsWaterMark DEF SpiInv, RingInv
  <2> QED
    BY <2>1 DEF SpiInv, RingInv, RingOK, CallbackOK, CallbackBufferStable
<1> QED
  BY <1>1, SpiInvariant, PTL

\* SPI_RX_FIFO_RESV reserved buffers are enough for that many commands in excess
\* of the messages handled, for any size of the ring and of the reserve.
THEOREM ReserveIsEnough == Spec => ReserveSuffices
<1>1. SpiInv /\ [Next]_vars => [dropped' # dropped => burst >= SPI_RX_FIFO_RESV]_vars
  BY StepInv
<1> QED
  BY <1>1, SpiInvariant, PTL DEF Spec, ReserveSuffices
\* The callbacks see the chip's indications in the order in which they were
\* sent, and none is missed out or seen twice other than by being dropped for
\* want of a buffer: for a ring of any size, whichever exchange brings them in.
THEOREM IndicationsKeepOrder == Spec => []IndicationsInOrder
<1>1. Init => OrderInv
  BY OrderStart
<1>2. SpiInv /\ SpiInv' /\ OrderInv /\ [Next]_vars => OrderInv'
  BY OrderStep
<1>3. SpiInv /\ OrderInv => IndicationsInOrder
  <2> SUFFICES ASSUME SpiInv, OrderInv PROVE IndicationsInOrder
    OBVIOUS
  <2>1. /\ delivered \in Seq(Msgs) /\ Used \in Seq(Msgs) /\ outbox \in Seq(Msgs)
    BY OrderTypes
  <2>2. InRing = Used
    BY RingIsUsed DEF SpiInv, RingInv
  <2>3. PICK S : S = 1..made \ dropped
    OBVIOUS
  <2>4. Ordered(delivered, Used, outbox, S)
    BY <2>3 DEF OrderInv
  <2>5. Ascending(delivered \o Used \o outbox) /\ Numbers(delivered \o Used \o outbox) = S
    BY <2>1, <2>4, ConcatOrdered
  <2> QED
    BY <2>2, <2>3, <2>5 DEF IndicationsInOrder, Pipe
<1> QED
  BY <1>1, <1>2, <1>3, SpiInvariant, PTL DEF Spec

\* Whatever exchange brings it in, and whichever interrupts and callbacks come
\* between, a call that succeeds has all of the answer to its own command, for as
\* long as no call has timed out.
THEOREM AnswersMatchCalls == Spec => []AnswerIsOurs
<1>1. Init => AnswerInv
  <2> SUFFICES ASSUME Init PROVE AnswerInv
    OBVIOUS
  <2>1. /\ inbox = <<>> /\ outbox = <<>> /\ SPI_Wait_Buf = NULL /\ call = NULL
        /\ result = NoResult
    BY DEF Init
  <2>2. OneAnswer
    BY <2>1, NullIsNoAnswer DEF OneAnswer, NoAnswerIn, OnlyAnswer
  <2> QED
    BY <2>1, <2>2 DEF AnswerInv, AnswerIsOurs, NoResult
<1>2. SpiInv /\ AnswerInv /\ [Next]_vars => AnswerInv'
  BY AnswerStep
<1>3. AnswerInv => AnswerIsOurs
  BY DEF AnswerInv
<1> QED
  BY <1>1, <1>2, <1>3, SpiInvariant, PTL DEF Spec
=============================================================================
