------------------------------ MODULE UsbLink -------------------------------
(***************************************************************************)
(* The USB link: the transport of the host (usb-exchange.c), run by the io *)
(* thread of GenericExchange, and of the device (cascoda_serial_usb.c over *)
(* cascoda_usb_m2351.c).  Messages are cut into HID reports that are only  *)
(* marked first and last; both ends keep the reports in rings.             *)
(*                                                                         *)
(* The device is one main program with an interrupt handler for each       *)
(* direction.  An interrupt is one step with the transfer that raises it,  *)
(* since the main program touches the shared rings with interrupts off.    *)
(* The host's operating system collects reports as long as the device is   *)
(* open (external: hidapi), so that both programs may wait at the same     *)
(* time without waiting for each other.                                    *)
(***************************************************************************)
EXTENDS Integers, Sequences, SequencesExt

CONSTANTS
    Commands,   \* number of fragments of each command the host sends
    Messages,   \* number of fragments of each message the device sends
    TBUFFS, RBUFFS, \* reports that the rings of the device hold
    HidBuffers, \* reports that the host's operating system keeps
    MaxPauses,  \* bound: fragments for which a reader waits in vain
    MaxFails,   \* bound: failing hid_writes
    MaxUnplugs  \* bound: times the device is unplugged and plugged in again

ASSUME UsbAssumption ==
    /\ Commands \in Seq(Nat \ {0}) /\ Messages \in Seq(Nat \ {0})
    /\ {TBUFFS, RBUFFS, HidBuffers} \subseteq Nat \ {0}
    /\ {MaxPauses, MaxFails, MaxUnplugs} \subseteq Nat

VARIABLES
    \* ---- the host's io thread
    host,           \* what it is doing
    buf,            \* fragments assembled so far
    command, frag,  \* the command and the fragment that are written next
    opened,         \* is its handle of the device still good?
    hidQueue,       \* reports collected by the operating system
    \* ---- the device
    TransmitBuffer, ReceiveBuffer, TxStalled, RxStalled, Connected,
    ep2, ep3,       \* reports in the endpoints' buffers: to and from the host
    sending,        \* the message and fragment that SerialUSBSend is at
    SerialRxBuffer, SerialRxPending,
    \* ---- history
    up, handled,    \* messages handed up by the host, commands by the device
    gap,            \* has a fragment been dropped from the middle of a message?
    begun,          \* messages the device has begun to send
    pauses, fails, unplugs

hostState == <<host, buf, command, frag, opened, hidQueue>>
transmit  == <<TransmitBuffer, TxStalled, ep2>>
receive   == <<ReceiveBuffer, RxStalled, ep3, SerialRxBuffer, SerialRxPending>>
bounds    == <<pauses, fails, unplugs>>
history   == <<up, handled, gap, begun, bounds>>
vars == <<hostState, transmit, receive, Connected, sending, history>>

None == <<>>    \* an endpoint without a report

\* The fragments of message n of a list: get_next_frag, SerialUSBSend.  mutant:
\* every fragment is marked as a first one
FragmentFirst(list, n, i) == [msg |-> n, at |-> i, first |-> TRUE, last |-> i = list[n]]
Fragment(list, n, i) == [msg |-> n, at |-> i, first |-> i = 1, last |-> i = list[n]]
Whole(list, n) == [i \in 1..list[n] |-> Fragment(list, n, i)]

----------------------------------------------------------------------------
(* The host: usb_try_read, then usb_try_write if there is a command.       *)

\* flush_unread_usb, when the io thread starts
Flush ==
    /\ host = "flush"
    /\ IF hidQueue = <<>> THEN host' = "read" /\ UNCHANGED hidQueue
                          ELSE hidQueue' = Tail(hidQueue) /\ UNCHANGED host
    /\ UNCHANGED <<buf, command, frag, opened, transmit, receive, Connected, sending, history>>

\* assemble_frags.  mutant: a fragment that is not first is taken at any time
MissedFirstNever(f) == FALSE
MissedFirst(f) == ~f.first /\ buf = <<>>
Assembled(f) == IF f.first THEN <<f>> ELSE Append(buf, f)

Read ==
    LET f == Head(hidQueue)
    IN
    /\ host = "read" /\ hidQueue # <<>>
    /\ hidQueue' = Tail(hidQueue)
    /\ IF MissedFirst(f) \/ f.last THEN host' = "write" /\ buf' = <<>>
       ELSE host' = "read" /\ buf' = Assembled(f)
    /\ up' = IF f.last /\ ~MissedFirst(f) THEN Append(up, Assembled(f)) ELSE up
    /\ UNCHANGED <<command, frag, opened, transmit, receive, Connected, sending, handled, gap,
                   begun, bounds>>

\* nothing within POLL_DELAY, or the rest of a message not within 255 ms (the
\* bound is on time-outs while the rest is on its way)
ReadTimeout ==
    /\ host = "read" /\ opened /\ hidQueue = <<>>
    /\ host' = "write" /\ buf' = <<>>
    /\ IF buf # <<>> /\ (ep2 # None \/ sending # <<>>)
       THEN pauses < MaxPauses /\ pauses' = pauses + 1
       ELSE UNCHANGED pauses
    /\ UNCHANGED <<command, frag, opened, hidQueue, transmit, receive, Connected, sending, up,
                   handled, gap, begun, fails, unplugs>>

\* One report to the device's endpoint, which takes none while RxStalled; its
\* interrupt handler, USB_GetOutReport.
GetOutReport(f) ==
    IF Len(ReceiveBuffer) >= RBUFFS
    THEN /\ RxStalled' = TRUE /\ ep3' = f
         /\ UNCHANGED <<ReceiveBuffer, Connected>>
    ELSE /\ RxStalled' = FALSE /\ ep3' = None /\ Connected' = TRUE
         /\ ReceiveBuffer' = Append(ReceiveBuffer, f)

Write ==
    LET f == Fragment(Commands, command, frag)
    IN
    /\ host = "write" /\ opened
    /\ command <= Len(Commands) /\ ep3 = None
    /\ GetOutReport(f)
    /\ frag' = IF f.last THEN 1 ELSE frag + 1
    /\ command' = IF f.last THEN command + 1 ELSE command
    /\ host' = IF f.last THEN "read" ELSE "write"
    /\ UNCHANGED <<buf, opened, hidQueue, transmit, SerialRxBuffer, SerialRxPending, sending,
                   history>>

NothingToWrite ==
    /\ host = "write" /\ command > Len(Commands)
    /\ host' = "read"
    /\ UNCHANGED <<buf, command, frag, opened, hidQueue, transmit, receive, Connected, sending,
                   history>>

\* reload_hid_device, when all tries of a write have failed or the device has
\* been unplugged: reports not yet read are gone with the old handle, and a
\* command is written again from its first fragment.  mutant: it goes on
ResumeAt == frag
RestartAt == 1
Reload ==
    /\ host \in {"read", "write"}
    /\ \/ ~opened /\ UNCHANGED fails
       \/ /\ host = "write" /\ opened /\ command <= Len(Commands)
          /\ fails < MaxFails /\ fails' = fails + 1
    /\ opened' = TRUE
    /\ hidQueue' = <<>> /\ buf' = <<>>
    /\ frag' = RestartAt
    /\ UNCHANGED <<host, command, transmit, receive, Connected, sending, up, handled, gap, begun,
                   pauses, unplugs>>

----------------------------------------------------------------------------
(* The device.                                                             *)

\* USB_SetInReport for a ring: the next report to the endpoint, if there is one
SetInReport(ring) ==
    IF ring = <<>>
    THEN TxStalled' = TRUE /\ ep2' = None /\ TransmitBuffer' = ring
    ELSE TxStalled' = FALSE /\ ep2' = Head(ring) /\ TransmitBuffer' = Tail(ring)

\* The operating system fetches the report, unless it has no room for it, and
\* the handler of the endpoint puts the next one there.
InTransfer ==
    /\ opened /\ ep2 # None
    /\ IF Len(hidQueue) < HidBuffers THEN hidQueue' = Append(hidQueue, ep2) /\ UNCHANGED gap
                                     ELSE gap' = TRUE /\ UNCHANGED hidQueue
    /\ SetInReport(TransmitBuffer)
    /\ UNCHANGED <<host, buf, command, frag, opened, receive, Connected, sending, up, handled,
                   begun, bounds>>

BeginSend ==
    /\ sending = <<>> /\ begun < Len(Messages)
    /\ begun' = begun + 1
    /\ sending' = <<begun + 1, 1>>
    /\ UNCHANGED <<hostState, transmit, receive, Connected, up, handled, gap, bounds>>

NextFragment ==
    IF sending[2] = Messages[sending[1]] THEN <<>> ELSE <<sending[1], sending[2] + 1>>

\* USB_Transmit of one fragment of SerialUSBSend.
Transmit ==
    LET ring == Append(TransmitBuffer, Fragment(Messages, sending[1], sending[2]))
    IN
    /\ sending # <<>> /\ Len(TransmitBuffer) < TBUFFS
    /\ IF Connected /\ TxStalled THEN SetInReport(ring)
       ELSE TransmitBuffer' = ring /\ UNCHANGED <<TxStalled, ep2>>
    /\ sending' = NextFragment
    /\ UNCHANGED <<hostState, receive, Connected, history>>

\* The ring is full: without a connection the fragment is dropped, and after
\* USB_TX_RETRIES the connection is taken to be lost (BSP_USBSerialWrite).  The
\* tries are certain to run out if nothing empties the ring: the host is gone,
\* or has connected only after the ring was full, when no transfer is under way.
Drop ==
    /\ sending # <<>> /\ Len(TransmitBuffer) >= TBUFFS
    /\ IF Connected /\ opened /\ ep2 # None
       THEN pauses < MaxPauses /\ pauses' = pauses + 1
       ELSE UNCHANGED pauses
    /\ Connected' = FALSE
    /\ gap' = TRUE
    /\ sending' = NextFragment
    /\ UNCHANGED <<hostState, transmit, receive, up, handled, begun, fails, unplugs>>

\* SerialGetCommand takes a fragment off the ring (BSP_USBSerialRxDequeue),
\* which lets in a report that had to wait.  mutant: that report is forgotten
DequeueOnly ==
    /\ ReceiveBuffer' = Tail(ReceiveBuffer)
    /\ UNCHANGED <<RxStalled, ep3, Connected>>
Dequeue ==
    IF RxStalled THEN /\ ReceiveBuffer' = Append(Tail(ReceiveBuffer), ep3)
                      /\ RxStalled' = FALSE /\ ep3' = None /\ Connected' = TRUE
    ELSE ReceiveBuffer' = Tail(ReceiveBuffer) /\ UNCHANGED <<RxStalled, ep3, Connected>>

GetCommand ==
    LET f == Head(ReceiveBuffer)
    IN
    /\ sending = <<>> /\ ~SerialRxPending /\ ReceiveBuffer # <<>>
    /\ SerialRxBuffer' = IF f.first THEN <<f>> ELSE Append(SerialRxBuffer, f)
    /\ SerialRxPending' = f.last
    /\ Dequeue
    /\ IF Connected' /\ TxStalled THEN SetInReport(TransmitBuffer) ELSE UNCHANGED transmit
    /\ UNCHANGED <<hostState, sending, history>>

\* cascoda_io_handler hands it to the application
Handle ==
    /\ sending = <<>> /\ SerialRxPending
    /\ handled' = Append(handled, SerialRxBuffer)
    /\ SerialRxBuffer' = <<>> /\ SerialRxPending' = FALSE
    /\ UNCHANGED <<hostState, transmit, ReceiveBuffer, RxStalled, ep3, Connected, sending, up, gap,
                   begun, bounds>>

\* Without power the device starts again with empty rings.
Unplug ==
    /\ unplugs < MaxUnplugs /\ unplugs' = unplugs + 1
    /\ opened' = FALSE
    /\ TransmitBuffer' = <<>> /\ ReceiveBuffer' = <<>>
    /\ TxStalled' = TRUE /\ RxStalled' = FALSE /\ Connected' = FALSE
    /\ ep2' = None /\ ep3' = None /\ sending' = <<>>
    /\ SerialRxBuffer' = <<>> /\ SerialRxPending' = FALSE
    /\ UNCHANGED <<host, buf, command, frag, hidQueue, up, handled, gap, begun, pauses, fails>>

----------------------------------------------------------------------------
Init ==
    /\ host = "flush" /\ buf = <<>> /\ command = 1 /\ frag = 1
    /\ opened = TRUE /\ hidQueue = <<>>
    /\ TransmitBuffer = <<>> /\ ReceiveBuffer = <<>>
    /\ TxStalled = TRUE /\ RxStalled = FALSE /\ Connected = FALSE
    /\ ep2 = None /\ ep3 = None /\ sending = <<>>
    /\ SerialRxBuffer = <<>> /\ SerialRxPending = FALSE
    /\ up = <<>> /\ handled = <<>> /\ gap = FALSE /\ begun = 0
    /\ pauses = 0 /\ fails = 0 /\ unplugs = 0

Host == Flush \/ Read \/ ReadTimeout \/ Write \/ NothingToWrite \/ Reload
Device == Transmit \/ Drop \/ GetCommand \/ Handle

Next == Host \/ InTransfer \/ BeginSend \/ Device \/ Unplug

\* The io thread, the operating system and the device's main loop keep going;
\* a ring that is full without a connection is not waited for.
Fairness == WF_vars(Host) /\ WF_vars(InTransfer) /\ WF_vars(Device)

Spec == Init /\ [][Next]_vars /\ Fairness

----------------------------------------------------------------------------
(* Properties.                                                             *)

\* What was handed over is some of what was sent, whole, in order and once.
WholeInOrder(got, list) ==
    /\ \A i \in DOMAIN got : \E n \in DOMAIN list : got[i] = Whole(list, n)
    /\ \A i, j \in DOMAIN got : i < j => got[i][1].msg < got[j][1].msg

\* The device executes whole commands, once and in order, although a write that
\* fails in the middle of a command makes the host send it all again.
CommandsWhole == WholeInOrder(handled, Commands)

\* The host hands up whole messages only, in order, although the markers first
\* and last are all it knows of them: through time-outs in the middle of one,
\* reloading and unplugging.  A fragment dropped from the middle of a message is
\* not noticed (by a device whose host does not read, or by the host's own
\* operating system).
MessagesWhole == gap \/ WholeInOrder(up, Messages)

\* Host and device never wait for each other for good.  Every command is handled,
\* while the device sends messages of its own and the host writes more commands
\* than the rings hold, unless the device loses it by being unplugged.  What the
\* device has queued leaves it: neither the order of connecting, stalling and
\* refilling nor a full ring leaves a fragment behind.
LinkMoves ==
    /\ \A n \in DOMAIN Commands :
           <>(unplugs > 0 \/ \E i \in DOMAIN handled : handled[i] = Whole(Commands, n))
    /\ Connected /\ TransmitBuffer # <<>> ~> ~Connected \/ TransmitBuffer = <<>>
=============================================================================
