------------------------------ MODULE UartLink ------------------------------
(***************************************************************************)
(* The acknowledged UART link between a host (uart-exchange.c, below the   *)
(* generic exchange) and a device (cascoda_serial_uart.c with the main     *)
(* loop and interrupt handler that drive it).                              *)
(*                                                                         *)
(* The two lines are sequences of bytes.  A frame is SOM, command id,      *)
(* length and data; message n is <<n, 1, n>>.  A line may lose a byte of a *)
(* frame: there is no checksum, so what the receivers make of the rest is  *)
(* what their framing makes of it.                                         *)
(*                                                                         *)
(* Time is left out but for its order: whatever is on a line arrives, and  *)
(* is looked at, within 200 ms (the receive timeouts), and a receive       *)
(* timeout comes before an acknowledgement timeout (1000 ms); to be late   *)
(* for the latter is a fault.  A frame is written and the transmitter      *)
(* marked as stalled in one step, since the answer cannot come before the  *)
(* last byte has left.                                                     *)
(***************************************************************************)
EXTENDS Integers, Sequences, SequencesExt

CONSTANTS
    MAX_TIMEOUTS, \* acknowledgements missed before the device stops waiting
    HostMayStop,  \* may the host fall silent?
    MaxCommands,  \* bound: messages from the host
    MaxMessages,  \* bound: messages from the device
    MaxFaults     \* bound: bytes lost, and acknowledgements that come too late

ASSUME UartAssumption ==
    /\ MAX_TIMEOUTS \in Nat \ {0}
    /\ HostMayStop \in BOOLEAN
    /\ MaxCommands \in 0..100 /\ MaxMessages \in 0..100
    /\ MaxFaults \in Nat

VARIABLES
    \* ---- the host: struct uart_exchange_priv
    up,                 \* is the host there?
    tx_stalled, rx_buf, \* rx_buf holds "offset" bytes
    sent, delivered,    \* messages written; history: messages passed on
    \* ---- the lines
    toDevice, toHost, faults,
    \* ---- the device: cascoda_serial_uart.c
    SerialRxState,      \* and SerialRemainder, by the length of the buffer
    SerialCmdId, SerialRxBuffer, SerialRxPending,
    SerialTxStalled, SerialTxResendReq, SerialTxBuffer, SerialTimeoutCount,
    pc, return,         \* where the main loop is; where MAC_Message returns to
    made, executed      \* messages begun; history: commands executed

host   == <<up, tx_stalled, rx_buf, sent, delivered>>
rx     == <<SerialRxState, SerialCmdId, SerialRxBuffer, SerialRxPending>>
tx     == <<SerialTxStalled, SerialTxResendReq, SerialTxBuffer, SerialTimeoutCount>>
main   == <<pc, return, made, executed>>
vars   == <<host, toDevice, toHost, faults, rx, tx, main>>

----------------------------------------------------------------------------
(* Bytes and frames.                                                       *)

SOM    == 222
RXRDY  == 170
RXFAIL == 171

Frame(m) == <<SOM>> \o m
Ack      == Frame(<<RXRDY, 0>>)
Nack     == Frame(<<RXFAIL, 0>>)

Message(n) == <<n, 1, n>>
\* what a receiver has got: message n, or 0 for anything else
Got(m) == IF m = Message(m[1]) THEN m[1] ELSE 0

\* Bytes go out to a line, which may lose one of them.
Send(line, bytes) ==
    \/ line' = line \o bytes /\ UNCHANGED faults
    \/ /\ faults < MaxFaults
       /\ \E i \in DOMAIN bytes : line' = line \o RemoveAt(bytes, i)
       /\ faults' = faults + 1

----------------------------------------------------------------------------
(* The host.                                                               *)

\* uart_try_write, called when uart_write_isready
Write ==
    /\ up /\ ~tx_stalled
    /\ sent < MaxCommands
    /\ sent' = sent + 1
    /\ Send(toDevice, Frame(Message(sent + 1)))
    /\ tx_stalled' = TRUE
    /\ UNCHANGED <<up, rx_buf, delivered, toHost, rx, tx, main>>

\* The sent message is stored for a retransmission after the write loop has
\* consumed it, with the length that is left, 0: tx_buf keeps calloc's zeros.
tx_buf == <<0, 0>>

\* uart_write_isready gives up waiting.  Nothing is under way that would be the
\* acknowledgement or would bring it about.
\* mutant: the flag is not cleared
AckMissedKept ==
    /\ up /\ tx_stalled
    /\ UNCHANGED vars
AckMissed ==
    /\ up /\ tx_stalled
    /\ toDevice = <<>> /\ toHost = <<>> /\ rx_buf = <<>>
    /\ ~SerialRxPending
    /\ \/ pc = "loop" /\ SerialRxState = "INBETWEEN" /\ ~SerialTxResendReq
       \/ pc = "send" /\ SerialTxStalled
    /\ tx_stalled' = FALSE
    /\ UNCHANGED <<up, rx_buf, sent, delivered, toDevice, toHost, faults, rx, tx, main>>

\* ... or the device has the command, but its main program is busy for so long
\* that the acknowledgement will be late.
AckLate ==
    /\ up /\ tx_stalled /\ SerialRxPending
    /\ faults < MaxFaults /\ faults' = faults + 1
    /\ tx_stalled' = FALSE
    /\ UNCHANGED <<up, rx_buf, sent, delivered, toDevice, toHost, rx, tx, main>>

\* up to the first SOM everything is thrown away
FromSom(buf) ==
    LET I == {i \in DOMAIN buf : buf[i] = SOM /\ \A j \in 1..i - 1 : buf[j] # SOM}
    IN  IF I = {} THEN <<>> ELSE SubSeq(buf, CHOOSE i \in I : TRUE, Len(buf))

Complete(buf) == Len(buf) >= 3 /\ Len(buf) >= buf[3] + 3

\* uart_try_read gets the bytes that have arrived, and takes a frame off the
\* buffer if it is whole.  The next call begins by throwing away what precedes
\* a SOM.  (A frame still arriving is like one that is not yet on the line.)
Buffered == FromSom(rx_buf \o toHost)
Taken    == SubSeq(Buffered, 2, Buffered[3] + 3)

Get(rest) ==
    /\ up
    /\ toHost' = <<>>
    /\ rx_buf' = FromSom(rest)
    /\ UNCHANGED <<up, sent, rx, tx, main>>
GetFrame ==
    /\ Complete(Buffered)
    /\ Get(SubSeq(Buffered, Len(Taken) + 2, Len(Buffered)))

ReadPart ==
    /\ toHost # <<>> /\ ~Complete(Buffered)
    /\ Get(Buffered)
    /\ UNCHANGED <<tx_stalled, delivered, toDevice, faults>>

ReadAck ==
    /\ GetFrame /\ Taken[1] = RXRDY
    /\ tx_stalled' = FALSE
    /\ UNCHANGED <<delivered, toDevice, faults>>

\* a negative acknowledgement is itself acknowledged, then answered
ReadNack ==
    /\ GetFrame /\ Taken[1] = RXFAIL
    /\ Send(toDevice, Ack \o Frame(tx_buf))
    /\ tx_stalled' = TRUE
    /\ UNCHANGED delivered

\* mutant: whatever is received frees the transmitter
ReadMessageFrees ==
    /\ GetFrame /\ Taken[1] \notin {RXRDY, RXFAIL}
    /\ Send(toDevice, Ack)
    /\ delivered' = Append(delivered, Got(Taken))
    /\ tx_stalled' = FALSE
ReadMessage ==
    /\ GetFrame /\ Taken[1] \notin {RXRDY, RXFAIL}
    /\ Send(toDevice, Ack)
    /\ delivered' = Append(delivered, Got(Taken))
    /\ UNCHANGED tx_stalled

\* ... or none for so long that the receive times out
ReadTimeout ==
    /\ up
    /\ rx_buf # <<>> /\ ~Complete(rx_buf) /\ toHost = <<>>
    /\ Send(toDevice, Nack)
    /\ rx_buf' = <<>>
    /\ UNCHANGED <<up, tx_stalled, sent, delivered, toHost, rx, tx, main>>

Stop ==
    /\ HostMayStop /\ up
    /\ up' = FALSE
    /\ UNCHANGED <<tx_stalled, rx_buf, sent, delivered, toDevice, toHost, faults, rx, tx,
                   main>>
----------------------------------------------------------------------------
(* The device's interrupt handler: Serial_ReadInterface, byte by byte.     *)

NextByte == Head(toDevice)
Receive(state) ==
    /\ toDevice # <<>>
    /\ toDevice' = Tail(toDevice)
    /\ SerialRxState' = state
    /\ UNCHANGED <<host, toHost, faults, SerialTxBuffer, main>>

FindStart ==
    /\ SerialRxState = "INBETWEEN"
    /\ Receive(IF NextByte = SOM THEN "CMDID" ELSE "INBETWEEN")
    /\ UNCHANGED <<SerialCmdId, SerialRxBuffer, SerialRxPending, SerialTxStalled,
                   SerialTxResendReq, SerialTimeoutCount>>

ReceiveId ==
    /\ SerialRxState = "CMDID"
    /\ Receive("CMDLEN")
    /\ SerialCmdId' = NextByte
    /\ UNCHANGED <<SerialRxBuffer, SerialRxPending, SerialTxStalled, SerialTxResendReq,
                   SerialTimeoutCount>>

\* SerialReceivedRxRdy and SerialReceivedRxFail
IsHandshake(id, len) == id \in {RXRDY, RXFAIL} /\ len = 0

ReceiveHandshake ==
    /\ SerialRxState = "CMDLEN" /\ toDevice # <<>>
    /\ IsHandshake(SerialCmdId, NextByte)
    /\ Receive("INBETWEEN")
    /\ SerialTxStalled' = (SerialTxStalled /\ SerialCmdId # RXRDY)
    /\ SerialTxResendReq' = (SerialTxResendReq \/ SerialCmdId = RXFAIL)
    /\ SerialTimeoutCount' = 0
    /\ UNCHANGED <<SerialCmdId, SerialRxBuffer, SerialRxPending>>

\* the buffer's header is overwritten, whether or not a command is pending
ReceiveLength ==
    /\ SerialRxState = "CMDLEN" /\ toDevice # <<>>
    /\ ~IsHandshake(SerialCmdId, NextByte)
    /\ Receive(IF NextByte = 0 THEN "INBETWEEN" ELSE "DATA")
    /\ SerialRxBuffer' = <<SerialCmdId, NextByte>>
    /\ SerialRxPending' = (SerialRxPending \/ NextByte = 0)
    /\ UNCHANGED <<SerialCmdId, SerialTxStalled, SerialTxResendReq, SerialTimeoutCount>>

ReceiveData ==
    LET whole == Len(SerialRxBuffer) + 1 = SerialRxBuffer[2] + 2 IN
    /\ SerialRxState = "DATA"
    /\ Receive(IF whole THEN "INBETWEEN" ELSE "DATA")
    /\ SerialRxBuffer' = Append(SerialRxBuffer, NextByte)
    /\ SerialRxPending' = (SerialRxPending \/ whole)
    /\ UNCHANGED <<SerialCmdId, SerialTxStalled, SerialTxResendReq, SerialTimeoutCount>>

Interrupt == FindStart \/ ReceiveId \/ ReceiveHandshake \/ ReceiveLength \/ ReceiveData

----------------------------------------------------------------------------
(* The device's main loop.                                                 *)

\* mutant: an incomplete frame is waited for without a limit
RxNeverOverdue == FALSE
RxOverdue == SerialRxState # "INBETWEEN" /\ toDevice = <<>>

\* SerialGetCommand: a frame that stays incomplete is given up (and with it a
\* command that was pending), a requested retransmission is made.
\* mutant: the request is cleared, the message not sent
GetCommandForgets(timedOut) ==
    /\ timedOut => RxOverdue
    /\ SerialRxState' = IF timedOut THEN "INBETWEEN" ELSE SerialRxState
    /\ SerialRxPending' = (SerialRxPending /\ ~timedOut)
    /\ Send(toHost, IF timedOut THEN Nack ELSE <<>>)
    /\ SerialTxResendReq' = FALSE
    /\ UNCHANGED <<host, toDevice, SerialCmdId, SerialRxBuffer, SerialTxBuffer,
                   SerialTxStalled, SerialTimeoutCount>>
GetCommand(timedOut) ==
    /\ timedOut => RxOverdue
    /\ SerialRxState' = IF timedOut THEN "INBETWEEN" ELSE SerialRxState
    /\ SerialRxPending' = (SerialRxPending /\ ~timedOut)
    /\ Send(toHost, (IF timedOut THEN Nack ELSE <<>>)
                    \o (IF SerialTxResendReq THEN SerialTxBuffer ELSE <<>>))
    /\ SerialTxStalled' = (SerialTxStalled \/ SerialTxResendReq)
    /\ SerialTxResendReq' = FALSE
    /\ SerialTimeoutCount' = IF SerialRxPending' THEN 0 ELSE SerialTimeoutCount
    /\ UNCHANGED <<host, toDevice, SerialCmdId, SerialRxBuffer, SerialTxBuffer>>

\* cascoda_io_handler
Poll(timedOut) ==
    /\ pc = "loop"
    /\ timedOut \/ SerialTxResendReq \/ SerialRxPending
    /\ GetCommand(timedOut)
    /\ pc' = IF SerialRxPending' THEN "run" ELSE "loop"
    /\ UNCHANGED <<return, made, executed>>

\* MAC_Message or EVBME_Message, from what the chip sends or from a command
BeginMessage(timedOut, back) ==
    /\ made < MaxMessages
    /\ made' = made + 1
    /\ GetCommand(timedOut)
    /\ pc' = "send" /\ return' = back

Indicate(timedOut) == pc = "loop" /\ BeginMessage(timedOut, "loop") /\ UNCHANGED executed

\* The command in the buffer is dispatched; it may be answered.
Run(timedOut) ==
    /\ pc = "run"
    /\ executed' = Append(executed, Got(SerialRxBuffer))
    /\ \/ BeginMessage(timedOut, "ack")
       \/ /\ ~timedOut /\ pc' = "ack"
          /\ UNCHANGED <<host, toDevice, toHost, faults, rx, tx, return, made>>

\* SerialSendRxRdy; the buffer is free again
AckCommand ==
    /\ pc = "ack"
    /\ Send(toHost, Ack)
    /\ SerialRxPending' = FALSE
    /\ pc' = "loop"
    /\ UNCHANGED <<host, toDevice, SerialRxState, SerialCmdId, SerialRxBuffer, tx, return,
                   made, executed>>

\* SerialCheckTxTimeout: wait while the previous message is not acknowledged
Waiting == pc = "send" /\ SerialTxStalled
WaitNoMore ==
    /\ Waiting /\ SerialTimeoutCount >= MAX_TIMEOUTS
    /\ SerialTxStalled' = FALSE
    /\ UNCHANGED <<host, toDevice, toHost, faults, rx, SerialTxResendReq, SerialTxBuffer,
                   SerialTimeoutCount, main>>
WaitResend ==
    /\ Waiting /\ SerialTimeoutCount < MAX_TIMEOUTS /\ SerialTxResendReq
    /\ SerialTxResendReq' = FALSE
    /\ Send(toHost, SerialTxBuffer)
    /\ UNCHANGED <<host, toDevice, rx, SerialTxStalled, SerialTxBuffer, SerialTimeoutCount,
                   main>>
\* the host has nothing left that it would acknowledge, or is not there
WaitTimeout ==
    /\ Waiting /\ SerialTimeoutCount < MAX_TIMEOUTS /\ ~SerialTxResendReq
    /\ toDevice = <<>> /\ (up => toHost = <<>> /\ rx_buf = <<>>)
    /\ SerialTxStalled' = FALSE
    /\ SerialTimeoutCount' = SerialTimeoutCount + 1
    /\ UNCHANGED <<host, toDevice, toHost, faults, rx, SerialTxResendReq, SerialTxBuffer,
                   main>>

\* ... or its io thread is held up and reads the message only later
WaitLate ==
    /\ Waiting /\ SerialTimeoutCount < MAX_TIMEOUTS /\ ~SerialTxResendReq
    /\ up /\ toHost # <<>>
    /\ faults < MaxFaults /\ faults' = faults + 1
    /\ SerialTxStalled' = FALSE
    /\ SerialTimeoutCount' = SerialTimeoutCount + 1
    /\ UNCHANGED <<host, toDevice, toHost, rx, SerialTxResendReq, SerialTxBuffer, main>>

\* mutant: the buffer for retransmissions is filled only once
SendMessageKeepsFirst ==
    /\ pc = "send" /\ ~SerialTxStalled
    /\ SerialTxBuffer' = IF made = 1 THEN Frame(Message(made)) ELSE SerialTxBuffer
    /\ Send(toHost, Frame(Message(made)))
    /\ SerialTxStalled' = TRUE
    /\ pc' = return
    /\ UNCHANGED <<host, toDevice, rx, SerialTxResendReq, SerialTimeoutCount, return, made,
                   executed>>
SendMessage ==
    /\ pc = "send" /\ ~SerialTxStalled
    /\ SerialTxBuffer' = Frame(Message(made))
    /\ Send(toHost, Frame(Message(made)))
    /\ SerialTxStalled' = TRUE
    /\ pc' = return
    /\ UNCHANGED <<host, toDevice, rx, SerialTxResendReq, SerialTimeoutCount, return, made,
                   executed>>

----------------------------------------------------------------------------
Init ==
    /\ up = TRUE
    /\ tx_stalled = FALSE /\ rx_buf = <<>> /\ sent = 0 /\ delivered = <<>>
    /\ toDevice = <<>> /\ toHost = <<>> /\ faults = 0
    /\ SerialRxState = "INBETWEEN" /\ SerialCmdId = 255
    /\ SerialRxBuffer = <<>> /\ SerialRxPending = FALSE
    /\ SerialTxStalled = FALSE /\ SerialTxResendReq = FALSE
    /\ SerialTxBuffer = <<0, 0, 0>> /\ SerialTimeoutCount = 0
    /\ pc = "loop" /\ return = "loop" /\ made = 0 /\ executed = <<>>

ReadStep ==
    ReadPart \/ ReadAck \/ ReadNack \/ ReadMessage \/ ReadTimeout
SerialStep ==
    \/ \E timedOut \in BOOLEAN : Poll(timedOut) \/ Run(timedOut)
    \/ AckCommand
    \/ WaitNoMore \/ WaitResend \/ WaitTimeout \/ SendMessage

Next ==
    \/ Write \/ AckMissed \/ AckLate \/ ReadStep \/ Stop
    \/ Interrupt
    \/ SerialStep \/ WaitLate
    \/ \E timedOut \in BOOLEAN : Indicate(timedOut)

Spec == Init /\ [][Next]_vars

\* The io thread keeps reading and looking at its timeouts, interrupts are
\* served, and the device's main loop goes round.
Fairness ==
    /\ WF_vars(ReadStep) /\ WF_vars(AckMissed)
    /\ WF_vars(Interrupt) /\ WF_vars(SerialStep)

FairSpec == Spec /\ Fairness

----------------------------------------------------------------------------
(* Properties.                                                             *)

OneTo(n) == [i \in 1..n |-> i]

\* On a line that loses nothing, and with acknowledgements in time, what one side
\* regards as acknowledged the other side has had, once and in order: one frame
\* at a time is enough to protect the device's only receive buffer.
AcknowledgedMeansHandled ==
    faults = 0 =>
        /\ executed = OneTo(Len(executed)) /\ delivered = OneTo(Len(delivered))
        /\ ~tx_stalled => Len(executed) = sent
        /\ up /\ ~SerialTxStalled
               => Len(delivered) = IF pc = "send" THEN made - 1 ELSE made

\* Whatever is lost or late, the messages that get through intact (are not 0) are in
\* order: a retransmission repeats the last message and never an older one, and
\* no command is executed twice.
KeptInOrder ==
    /\ \A i, j \in DOMAIN executed :
           i < j /\ executed[i] # 0 /\ executed[j] # 0 => executed[i] < executed[j]
    /\ \A i, j \in DOMAIN delivered :
           i < j /\ delivered[i] # 0 /\ delivered[j] # 0 => delivered[i] <= delivered[j]

\* A message that is damaged, and of which the host says so, arrives in the end
\* unless more goes wrong.
NackRepairs ==
    \A n \in 1..MaxMessages :
        SerialTxResendReq /\ SerialTxBuffer = Frame(Message(n))
            ~> ~up \/ faults > 1 \/ \E i \in DOMAIN delivered : delivered[i] = n

\* Whatever is lost or late, and when the host falls silent: the host gets out of a
\* damaged frame and becomes ready to send again, MAC_Message returns and the
\* device gets out of a damaged frame.
BothRecover ==
    /\ tx_stalled \/ rx_buf # <<>> ~> ~up \/ (~tx_stalled /\ rx_buf = <<>>)
    /\ pc = "send" \/ SerialRxState # "INBETWEEN"
           ~> pc # "send" /\ SerialRxState = "INBETWEEN"

(* A statement of the documentation that the code does not keep.           *)

\* cascoda-uart-if.md: after RXFAIL "The transmit side must then retransmit the
\* dropped message in full".
RetransmitsInFull ==
    [][ReadNack /\ sent > 0 => IsSuffix(Frame(Message(sent)), toDevice')]_vars
=============================================================================
