--------------------------- MODULE UartLink_proof ---------------------------
(***************************************************************************)
(* Proofs about UartLink for every number of messages (each a byte), any   *)
(* limit of missed acknowledgements and any number of faults.              *)
(*                                                                         *)
(* What a receiver has of a frame belongs to the line still: Incoming and  *)
(* Arriving are the device's and the host's part of a frame and what is on *)
(* the wire behind it.  Most steps of a receiver then leave the line as it *)
(* is, or take a prefix from it; a sender adds a frame, or a frame without *)
(* one of its bytes.                                                       *)
(*                                                                         *)
(* OrderInv, for any line: wherever a receiver may get back into step, the *)
(* messages it could find (Whole) are in order, and come after what it has *)
(* had.  For this to last, Line says what may follow a start byte or an    *)
(* acknowledgement's id: what is left of two damaged frames never reads as *)
(* a message.                                                              *)
(*                                                                         *)
(* HandledInv, for a line without faults: there is at most one message and *)
(* one acknowledgement each way, and for each side's message exactly one   *)
(* thing that frees its transmitter - the message, its command in the      *)
(* buffer, or the acknowledgement (CommandToken, MessageToken).            *)
(***************************************************************************)
EXTENDS UartLink, TLAPS, SequenceTheorems

----------------------------------------------------------------------------
(* What is on its way.  A receiver's share of the line is what it has of a *)
(* frame, and what is still on the wire.                                   *)

States == {"INBETWEEN", "CMDID", "CMDLEN", "DATA"}

Part ==
    IF SerialRxState = "INBETWEEN" THEN <<>>
    ELSE IF SerialRxState = "CMDID" THEN <<SOM>>
    ELSE IF SerialRxState = "CMDLEN" THEN <<SOM, SerialCmdId>>
    ELSE <<SOM>> \o SerialRxBuffer
Incoming == Part \o toDevice
Arriving == rx_buf \o toHost

Drop(s, n) == SubSeq(s, n + 1, Len(s))

\* Types, and what the device's framing relies on.
TypeOK ==
    /\ up \in BOOLEAN /\ tx_stalled \in BOOLEAN
    /\ rx_buf \in Seq(Nat) /\ sent \in 0..MaxCommands /\ delivered \in Seq(Nat)
    /\ toDevice \in Seq(Nat) /\ toHost \in Seq(Nat) /\ faults \in Nat
    /\ SerialRxState \in States /\ SerialCmdId \in Nat
    /\ SerialRxBuffer \in Seq(Nat) /\ SerialRxPending \in BOOLEAN
    /\ SerialTxStalled \in BOOLEAN /\ SerialTxResendReq \in BOOLEAN
    /\ SerialTxBuffer \in Seq(Nat) /\ SerialTimeoutCount \in Nat
    /\ pc \in {"loop", "run", "send", "ack"} /\ return \in {"loop", "ack"}
    /\ made \in 0..MaxMessages /\ executed \in Seq(Nat)

Framing ==
    /\ SerialRxPending => Len(SerialRxBuffer) >= 2
    /\ pc = "run" => SerialRxPending
    /\ pc = "send" => made > 0
    /\ SerialRxState = "DATA" =>
           Len(SerialRxBuffer) >= 2 /\ Len(SerialRxBuffer) < SerialRxBuffer[2] + 2
    /\ \/ Len(SerialTxBuffer) = 3 /\ \A i \in 1..3 : SerialTxBuffer[i] = 0
       \/ /\ SerialTxBuffer[2] \in 1..made
          /\ SerialTxBuffer = Frame(Message(SerialTxBuffer[2]))

----------------------------------------------------------------------------
(* A line without faults.                                                  *)

IsMessage(s, p, n) == s[p] = SOM /\ s[p + 1] = n /\ s[p + 2] = 1 /\ s[p + 3] = n
IsAck(s, p) == s[p] = SOM /\ s[p + 1] = RXRDY /\ s[p + 2] = 0

\* nothing but message n and an acknowledgement, each at most once
Exact(s, n) ==
    \/ Len(s) = 0
    \/ Len(s) = 3 /\ IsAck(s, 1)
    \/ Len(s) = 4 /\ IsMessage(s, 1, n)
    \/ Len(s) = 7 /\ IsMessage(s, 1, n) /\ IsAck(s, 5)
    \/ Len(s) = 7 /\ IsAck(s, 1) /\ IsMessage(s, 4, n)
HasMessage(s) == Len(s) \in {4, 7}
HasAck(s)     == Len(s) \in {3, 7}

\* the command has been executed but not acknowledged
Answering == pc = "ack" \/ (pc = "send" /\ return = "ack")

\* the messages that MAC_Message has written
Written == IF pc = "send" THEN made - 1 ELSE made

CommandToken ==
    \/ /\ ~tx_stalled
       /\ ~HasMessage(Incoming) /\ ~SerialRxPending /\ ~Answering
       /\ up => ~HasAck(Arriving)
       /\ Len(executed) = sent
    \/ /\ tx_stalled
       /\ HasMessage(Incoming) /\ ~SerialRxPending /\ ~Answering
       /\ up => ~HasAck(Arriving)
       /\ Len(executed) = sent - 1
    \/ /\ tx_stalled
       /\ ~HasMessage(Incoming) /\ SerialRxPending
       /\ up => ~HasAck(Arriving)
       /\ Len(executed) = IF Answering THEN sent ELSE sent - 1
    \/ /\ tx_stalled
       /\ ~HasMessage(Incoming) /\ ~SerialRxPending /\ ~Answering
       /\ up => HasAck(Arriving)
       /\ Len(executed) = sent

MessageToken ==
    \/ /\ ~SerialTxStalled
       /\ ~HasMessage(Arriving) /\ ~HasAck(Incoming) /\ Len(delivered) = Written
    \/ /\ SerialTxStalled
       /\ HasMessage(Arriving) /\ ~HasAck(Incoming) /\ Len(delivered) = Written - 1
    \/ /\ SerialTxStalled
       /\ ~HasMessage(Arriving) /\ HasAck(Incoming) /\ Len(delivered) = Written

IsCommand(m, n) == Len(m) = 3 /\ m[1] = n /\ m[2] = 1 /\ m[3] = n

Faultless ==
    /\ Exact(Incoming, sent)
    /\ ~SerialTxResendReq
    /\ SerialRxPending => IsCommand(SerialRxBuffer, sent)
    /\ \A i \in DOMAIN executed : executed[i] = i
    /\ \A i \in DOMAIN delivered : delivered[i] = i
    /\ CommandToken
    /\ up => SerialTimeoutCount = 0 /\ Exact(Arriving, Len(delivered) + 1) /\ MessageToken

HandledInv == TypeOK /\ Framing /\ (faults = 0 => Faultless)

----------------------------------------------------------------------------
(* Order on any line.                                                      *)

\* positions at which a receiver could find a message
Whole(s) == {p \in 1..Len(s) - 3 :
                s[p] = SOM /\ s[p + 1] # 0 /\ s[p + 2] = 1 /\ s[p + 3] = s[p + 1]}

Line(s, n) ==
    /\ \A p \in 1..Len(s) : s[p] = SOM =>
           /\ p < Len(s)
           /\ s[p + 1] \in {0, RXRDY, RXFAIL} \cup 1..n
           /\ s[p + 1] \in 1..n => p + 2 <= Len(s)
    /\ \A p \in 1..Len(s) - 1 : s[p] \in {RXRDY, RXFAIL} /\ s[p + 1] = 1 =>
           p + 2 <= Len(s) /\ s[p + 2] = 1

\* What is found on the line is in order, comes after the numbers V, and is at
\* most n: on the way to the device no number comes twice.
Later(s, n, V) ==
    /\ Line(s, n) /\ V \subseteq 0..n
    /\ \A p, q \in Whole(s) : p < q => s[p + 1] < s[q + 1]
    /\ \A v \in V, p \in Whole(s) : v < s[p + 1]
NotEarlier(s, n, V) ==
    /\ Line(s, n) /\ V \subseteq 0..n
    /\ \A p, q \in Whole(s) : p < q => s[p + 1] <= s[q + 1]
    /\ \A v \in V, p \in Whole(s) : v <= s[p + 1]

\* a message that has been received whole
Holds(m) == Len(m) = 3 /\ m[1] # 0 /\ m[2] = 1 /\ m[3] = m[1]

Numbers(m) == {m[i] : i \in DOMAIN m}
Had == Numbers(executed) \cup (IF Holds(SerialRxBuffer) THEN {SerialRxBuffer[1]} ELSE {})

CommandsRise ==
    /\ Later(Incoming, sent, Had)
    /\ \A i, j \in DOMAIN executed :
           i < j /\ executed[i] # 0 /\ executed[j] # 0 => executed[i] < executed[j]
    /\ SerialRxPending /\ ~Answering /\ Holds(SerialRxBuffer) =>
           \A v \in Numbers(executed) : v < SerialRxBuffer[1]

Repeated == SerialTxBuffer[2]

MessagesRise ==
    /\ NotEarlier(Arriving, Repeated, Numbers(delivered))
    /\ \A i, j \in DOMAIN delivered :
           i < j /\ delivered[i] # 0 /\ delivered[j] # 0 => delivered[i] <= delivered[j]

OrderInv == TypeOK /\ Framing /\ CommandsRise /\ MessagesRise

----------------------------------------------------------------------------
(* Sequences.                                                              *)

LEMMA ConcatNat ==
    ASSUME NEW s \in Seq(Nat), NEW t \in Seq(Nat)
    PROVE  /\ s \o t \in Seq(Nat) /\ Len(s \o t) = Len(s) + Len(t)
           /\ Len(s) \in Nat /\ Len(t) \in Nat
           /\ \A i \in 1..Len(s) : (s \o t)[i] = s[i]
           /\ \A i \in 1..Len(t) : (s \o t)[Len(s) + i] = t[i]
           /\ \A i \in Len(s) + 1..Len(s) + Len(t) : (s \o t)[i] = t[i - Len(s)]
           /\ \A i \in 1..Len(s) : s[i] \in Nat
           /\ \A i \in 1..Len(t) : t[i] \in Nat
<1>1. /\ s \o t \in Seq(Nat) /\ Len(s \o t) = Len(s) + Len(t)
      /\ \A i \in 1..Len(s) + Len(t) :
             (s \o t)[i] = IF i <= Len(s) THEN s[i] ELSE t[i - Len(s)]
  BY ConcatProperties
<1>2. PICK m \in Nat, n \in Nat : m = Len(s) /\ n = Len(t)
  BY LenProperties
<1>3. \A i \in 1..Len(s) : (s \o t)[i] = s[i]
  BY <1>1, <1>2
<1>4. \A i \in 1..Len(t) : (s \o t)[Len(s) + i] = t[i]
  <2> SUFFICES ASSUME NEW i \in 1..n PROVE (s \o t)[m + i] = t[i]
    BY <1>2
  <2>1. m + i \in 1..m + n /\ ~(m + i <= m) /\ m + i - m = i
    OBVIOUS
  <2> QED BY <1>1, <1>2, <2>1
<1>5. \A i \in Len(s) + 1..Len(s) + Len(t) : (s \o t)[i] = t[i - Len(s)]
  BY <1>1, <1>2
<1>6. (\A i \in 1..Len(s) : s[i] \in Nat) /\ (\A i \in 1..Len(t) : t[i] \in Nat)
  BY ElementOfSeq
<1> QED BY <1>1, <1>2, <1>3, <1>4, <1>5, <1>6

LEMMA Regrouped ==
    ASSUME NEW s \in Seq(Nat), NEW t \in Seq(Nat), NEW u \in Seq(Nat)
    PROVE  (s \o t) \o u = s \o (t \o u)
BY SMTT(20), ConcatAssociative

LEMMA AppendIs ==
    ASSUME NEW s \in Seq(Nat), NEW t \in Seq(Nat), NEW e \in Nat, NEW n \in Nat,
           Len(s) = n, Len(t) = n + 1, \A i \in 1..n : t[i] = s[i], t[n + 1] = e
    PROVE  Append(s, e) = t
<1> DEFINE u == Append(s, e)
<1>1. u \in Seq(Nat) /\ Len(u) = n + 1 /\ (\A i \in 1..n : u[i] = s[i]) /\ u[n + 1] = e
  BY AppendProperties
<1> HIDE DEF u
<1>2. \A i \in 1..n + 1 : i \in 1..n \/ i = n + 1
  OBVIOUS
<1>3. \A i \in 1..n + 1 : u[i] = t[i]
  BY <1>1, <1>2
<1>4. u = t
  BY <1>1, <1>3, SeqEqual
<1> QED BY <1>4 DEF u

LEMMA Tuples ==
    ASSUME NEW a \in Nat, NEW b \in Nat, NEW c \in Nat, NEW d \in Nat
    PROVE  /\ <<a>> \in Seq(Nat) /\ Len(<<a>>) = 1 /\ <<a>>[1] = a
           /\ <<a, b>> \in Seq(Nat) /\ Len(<<a, b>>) = 2 /\ <<a, b>>[1] = a /\ <<a, b>>[2] = b
           /\ <<a, b, c>> \in Seq(Nat) /\ Len(<<a, b, c>>) = 3
           /\ <<a, b, c>>[1] = a /\ <<a, b, c>>[2] = b /\ <<a, b, c>>[3] = c
           /\ <<a, b, c, d>> \in Seq(Nat) /\ Len(<<a, b, c, d>>) = 4
           /\ <<a, b, c, d>>[1] = a /\ <<a, b, c, d>>[2] = b
           /\ <<a, b, c, d>>[3] = c /\ <<a, b, c, d>>[4] = d
<1>1. <<a>> \in Seq(Nat) /\ Len(<<a>>) = 1 /\ <<a>>[1] = a
  OBVIOUS
<1>2. <<a, b>> \in Seq(Nat) /\ Len(<<a, b>>) = 2 /\ <<a, b>>[1] = a /\ <<a, b>>[2] = b
  OBVIOUS
<1>3. /\ <<a, b, c>> \in Seq(Nat) /\ Len(<<a, b, c>>) = 3
      /\ <<a, b, c>>[1] = a /\ <<a, b, c>>[2] = b /\ <<a, b, c>>[3] = c
  OBVIOUS
<1>4. /\ <<a, b, c, d>> \in Seq(Nat) /\ Len(<<a, b, c, d>>) = 4
      /\ <<a, b, c, d>>[1] = a /\ <<a, b, c, d>>[2] = b
      /\ <<a, b, c, d>>[3] = c /\ <<a, b, c, d>>[4] = d
  OBVIOUS
<1> QED BY <1>1, <1>2, <1>3, <1>4

LEMMA Longer ==
    ASSUME NEW a \in Nat, NEW b \in Nat
    PROVE  Append(<<a>>, b) = <<a, b>>
<1> DEFINE s == <<a>>
           t == <<a, b>>
<1>1. s \in Seq(Nat) /\ Len(s) = 1 /\ s[1] = a
  OBVIOUS
<1>2. t \in Seq(Nat) /\ Len(t) = 2 /\ t[1] = a /\ t[2] = b
  OBVIOUS
<1> HIDE DEF s, t
<1>3. Len(t) = 1 + 1 /\ (\A i \in 1..1 : t[i] = s[i]) /\ t[1 + 1] = b
  BY <1>1, <1>2
<1>4. Append(s, b) = t
  BY ZenonT(30), <1>1, <1>2, <1>3, AppendIs
<1> QED BY <1>4 DEF s, t

LEMMA Framed ==
    ASSUME NEW m \in Seq(Nat), NEW n \in Nat, Len(m) = n
    PROVE  /\ Frame(m) \in Seq(Nat) /\ Len(Frame(m)) = n + 1 /\ Frame(m)[1] = SOM
           /\ \A i \in 1..n : Frame(m)[i + 1] = m[i]
<1> DEFINE one == <<SOM>>
<1>1. one \in Seq(Nat) /\ Len(one) = 1 /\ one[1] = SOM
  BY DEF SOM
<1>2. Frame(m) = one \o m
  BY DEF Frame
<1> HIDE DEF one
<1>3. /\ Frame(m) \in Seq(Nat) /\ Len(Frame(m)) = 1 + n
      /\ \A i \in 1..1 : Frame(m)[i] = one[i]
      /\ \A i \in 1..n : Frame(m)[1 + i] = m[i]
  <2>1. /\ one \o m \in Seq(Nat) /\ Len(one \o m) = Len(one) + Len(m)
        /\ \A i \in 1..Len(one) : (one \o m)[i] = one[i]
        /\ \A i \in 1..Len(m) : (one \o m)[Len(one) + i] = m[i]
    BY <1>1, ConcatNat
  <2> QED BY <1>1, <1>2, <2>1
<1>4. \A i \in 1..n : 1 + i = i + 1
  OBVIOUS
<1> QED BY <1>1, <1>3, <1>4

LEMMA MessageFramed ==
    ASSUME NEW n \in Nat
    PROVE  /\ Message(n) \in Seq(Nat) /\ Frame(Message(n)) \in Seq(Nat)
           /\ Len(Frame(Message(n))) = 4 /\ IsMessage(Frame(Message(n)), 1, n)
<1> DEFINE m == Message(n)
<1>1. m \in Seq(Nat) /\ Len(m) = 3 /\ m[1] = n /\ m[2] = 1 /\ m[3] = n
  BY Tuples DEF Message
<1> HIDE DEF m
<1>2. /\ Frame(m) \in Seq(Nat) /\ Len(Frame(m)) = 3 + 1 /\ Frame(m)[1] = SOM
      /\ \A i \in 1..3 : Frame(m)[i + 1] = m[i]
  BY <1>1, Framed
<1>3. Frame(m)[1 + 1] = n /\ Frame(m)[2 + 1] = 1 /\ Frame(m)[3 + 1] = n
  BY <1>1, <1>2
<1>4. IsMessage(Frame(m), 1, n)
  BY <1>2, <1>3 DEF IsMessage
<1> QED BY <1>1, <1>2, <1>4 DEF m

LEMMA HandshakeFramed ==
    ASSUME NEW x \in Nat
    PROVE  /\ Frame(<<x, 0>>) \in Seq(Nat) /\ Len(Frame(<<x, 0>>)) = 3
           /\ Frame(<<x, 0>>)[1] = SOM /\ Frame(<<x, 0>>)[2] = x /\ Frame(<<x, 0>>)[3] = 0
<1> DEFINE m == <<x, 0>>
<1>1. m \in Seq(Nat) /\ Len(m) = 2 /\ m[1] = x /\ m[2] = 0
  OBVIOUS
<1> HIDE DEF m
<1>2. /\ Frame(m) \in Seq(Nat) /\ Len(Frame(m)) = 2 + 1 /\ Frame(m)[1] = SOM
      /\ \A i \in 1..2 : Frame(m)[i + 1] = m[i]
  BY <1>1, Framed
<1>3. Frame(m)[1 + 1] = x /\ Frame(m)[2 + 1] = 0
  BY <1>1, <1>2
<1> QED BY <1>2, <1>3 DEF m

LEMMA DropNat ==
    ASSUME NEW s \in Seq(Nat), NEW n \in 0..Len(s)
    PROVE  /\ Drop(s, n) \in Seq(Nat) /\ Len(Drop(s, n)) = Len(s) - n
           /\ \A i \in 1..Len(s) - n : Drop(s, n)[i] = s[n + i]
<1>1. PICK m \in Nat : m = Len(s)
  BY LenProperties
<1>2. \A i \in n + 1..m : s[i] \in Nat
  BY <1>1, ElementOfSeq
<1>3. /\ SubSeq(s, n + 1, m) \in Seq(Nat)
      /\ Len(SubSeq(s, n + 1, m)) = IF n + 1 <= m THEN m - (n + 1) + 1 ELSE 0
      /\ \A i \in 1..m - (n + 1) + 1 : SubSeq(s, n + 1, m)[i] = s[n + 1 + i - 1]
  <2>1. n + 1 \in Int /\ m \in Int
    BY <1>1
  <2> QED BY <1>2, <2>1, SubSeqProperties
<1> QED BY <1>1, <1>3 DEF Drop

LEMMA DropNone ==
    ASSUME NEW s \in Seq(Nat)
    PROVE  Drop(s, 0) = s
BY SubSeqFull DEF Drop

LEMMA RemovedNat ==
    ASSUME NEW s \in Seq(Nat), NEW n \in DOMAIN s
    PROVE  /\ RemoveAt(s, n) \in Seq(Nat) /\ Len(RemoveAt(s, n)) = Len(s) - 1
           /\ \A i \in 1..Len(s) - 1 : RemoveAt(s, n)[i] = IF i < n THEN s[i] ELSE s[i + 1]
<1>1. PICK m \in Nat : m = Len(s) /\ DOMAIN s = 1..m /\ \A i \in 1..m : s[i] \in Nat
  BY LenProperties, ElementOfSeq
<1> DEFINE a == SubSeq(s, 1, n - 1)
           b == SubSeq(s, n + 1, m)
<1>2. /\ a \in Seq(Nat) /\ Len(a) = n - 1
      /\ \A i \in 1..n - 1 : a[i] = s[i]
  <2>1. \A i \in 1..n - 1 : s[i] \in Nat
    BY <1>1
  <2>2. n - 1 \in Int
    BY <1>1
  <2>3. /\ a \in Seq(Nat) /\ Len(a) = IF 1 <= n - 1 THEN n - 1 - 1 + 1 ELSE 0
        /\ \A i \in 1..n - 1 - 1 + 1 : a[i] = s[1 + i - 1]
    BY SMTT(20), <2>1, <2>2, SubSeqProperties
  <2> QED BY <1>1, <2>3
<1>3. /\ b \in Seq(Nat) /\ Len(b) = m - n
      /\ \A i \in 1..m - n : b[i] = s[n + i]
  <2>1. \A i \in n + 1..m : s[i] \in Nat
    BY <1>1
  <2>2. n + 1 \in Int /\ m \in Int
    BY <1>1
  <2>3. /\ b \in Seq(Nat) /\ Len(b) = IF n + 1 <= m THEN m - (n + 1) + 1 ELSE 0
        /\ \A i \in 1..m - (n + 1) + 1 : b[i] = s[n + 1 + i - 1]
    BY SMTT(20), <2>1, <2>2, SubSeqProperties
  <2>4. n \in 1..m /\ m - (n + 1) + 1 = m - n
    BY <1>1
  <2>5. \A i \in 1..m - n : n + 1 + i - 1 = n + i
    BY <2>4
  <2>6. Len(b) = m - n
    BY <2>3, <2>4
  <2>7. \A i \in 1..m - n : b[i] = s[n + i]
    BY <2>3, <2>4, <2>5
  <2> HIDE DEF b
  <2> QED BY <2>3, <2>6, <2>7
<1>4. RemoveAt(s, n) = a \o b
  BY <1>1 DEF RemoveAt
<1> HIDE DEF a, b
<1>5. /\ a \o b \in Seq(Nat) /\ Len(a \o b) = Len(a) + Len(b)
      /\ \A i \in 1..Len(a) : (a \o b)[i] = a[i]
      /\ \A i \in Len(a) + 1..Len(a) + Len(b) : (a \o b)[i] = b[i - Len(a)]
  BY <1>2, <1>3, ConcatNat
<1>6. ASSUME NEW i \in 1..m - 1 PROVE (a \o b)[i] = IF i < n THEN s[i] ELSE s[i + 1]
  <2>1. CASE i < n
    <3>1. i \in 1..n - 1
      BY <1>1, <2>1
    <3> QED BY <1>2, <1>5, <2>1, <3>1
  <2>2. CASE ~(i < n)
    <3>1. i \in n - 1 + 1..n - 1 + (m - n) /\ i - (n - 1) \in 1..m - n /\ n + (i - (n - 1)) = i + 1
      BY <1>1, <2>2
    <3>2. (a \o b)[i] = b[i - (n - 1)]
      BY <1>2, <1>3, <1>5, <3>1
    <3> QED BY <1>3, <2>2, <3>1, <3>2
  <2> QED BY <2>1, <2>2
<1>7. Len(a \o b) = m - 1
  <2>1. n \in 1..m /\ n - 1 + (m - n) = m - 1
    BY SMTT(20), <1>1
  <2> QED BY <1>2, <1>3, <1>5, <2>1
<1> QED BY <1>1, <1>4, <1>5, <1>6, <1>7

LEMMA MovedOn ==
    ASSUME NEW a \in Seq(Nat), NEW b \in Seq(Nat), b # <<>>
    PROVE  /\ Append(a, Head(b)) \o Tail(b) = a \o b
           /\ Tail(b) = Drop(a \o b, Len(a) + 1)
           /\ Len(a \o b) >= Len(a) + 1 /\ (a \o b)[Len(a) + 1] = Head(b)
           /\ Head(b) \in Nat /\ Tail(b) \in Seq(Nat)
<1>1. PICK m \in Nat, n \in Nat : m = Len(a) /\ n = Len(b)
  BY LenProperties
<1>2. n > 0 /\ Head(b) = b[1]
  BY <1>1, EmptySeq
<1>3. /\ Head(b) \in Nat /\ Tail(b) \in Seq(Nat) /\ Len(Tail(b)) = n - 1
      /\ \A i \in 1..n - 1 : Tail(b)[i] = b[i + 1]
  BY <1>1, HeadTailProperties
<1>4. /\ Append(a, Head(b)) \in Seq(Nat) /\ Len(Append(a, Head(b))) = m + 1
      /\ \A i \in 1..m : Append(a, Head(b))[i] = a[i]
      /\ Append(a, Head(b))[m + 1] = b[1]
  BY <1>1, <1>2, <1>3, AppendProperties
<1>5. /\ a \o b \in Seq(Nat) /\ Len(a \o b) = m + n
      /\ \A i \in 1..m : (a \o b)[i] = a[i]
      /\ \A i \in 1..n : (a \o b)[m + i] = b[i]
  BY <1>1, ConcatNat
<1> DEFINE l == Append(a, Head(b))
           t == Tail(b)
<1>6. l \in Seq(Nat) /\ t \in Seq(Nat) /\ Len(l) = m + 1 /\ Len(t) = n - 1
  BY <1>3, <1>4
<1> HIDE DEF l, t
<1>7. /\ l \o t \in Seq(Nat) /\ Len(l \o t) = m + n
      /\ \A i \in 1..m + 1 : (l \o t)[i] = l[i]
      /\ \A i \in m + 2..m + n : (l \o t)[i] = t[i - (m + 1)]
  <2>1. /\ l \o t \in Seq(Nat) /\ Len(l \o t) = Len(l) + Len(t)
        /\ \A i \in 1..Len(l) : (l \o t)[i] = l[i]
        /\ \A i \in Len(l) + 1..Len(l) + Len(t) : (l \o t)[i] = t[i - Len(l)]
    BY <1>6, ConcatNat
  <2>2. m + 1 + (n - 1) = m + n /\ m + 1 + 1 = m + 2
    OBVIOUS
  <2> QED BY <1>6, <2>1, <2>2
<1>8. ASSUME NEW i \in 1..m + n PROVE (l \o t)[i] = (a \o b)[i]
  <2>1. CASE i \in 1..m
    BY <1>4, <1>5, <1>7, <2>1 DEF l
  <2>2. CASE i = m + 1
    <3>1. (a \o b)[m + 1] = b[1]
      BY <1>2, <1>5
    <3> QED BY <1>4, <1>7, <2>2, <3>1 DEF l
  <2>3. CASE i \in m + 2..m + n
    <3>1. i - (m + 1) \in 1..n - 1 /\ i - m \in 1..n /\ m + (i - m) = i /\ i - (m + 1) + 1 = i - m
      BY <2>3
    <3> QED BY <1>3, <1>5, <1>7, <2>3, <3>1 DEF t
  <2>4. i \in 1..m \/ i = m + 1 \/ i \in m + 2..m + n
    OBVIOUS
  <2> QED BY <2>1, <2>2, <2>3, <2>4
<1>9. l \o t = a \o b
  BY <1>5, <1>7, <1>8, SeqEqual
<1>10. m + 1 \in 0..Len(a \o b)
  BY <1>2, <1>5
<1>11. /\ Drop(a \o b, m + 1) \in Seq(Nat) /\ Len(Drop(a \o b, m + 1)) = n - 1
       /\ \A i \in 1..n - 1 : Drop(a \o b, m + 1)[i] = (a \o b)[m + 1 + i]
  <2>1. m + n - (m + 1) = n - 1
    OBVIOUS
  <2>2. PICK ab \in Seq(Nat) : ab = a \o b
    BY <1>5
  <2>3. /\ Drop(ab, m + 1) \in Seq(Nat) /\ Len(Drop(ab, m + 1)) = Len(ab) - (m + 1)
        /\ \A i \in 1..Len(ab) - (m + 1) : Drop(ab, m + 1)[i] = ab[m + 1 + i]
    BY <1>10, <2>2, DropNat
  <2>4. Len(ab) - (m + 1) = n - 1
    BY <1>5, <2>1, <2>2
  <2> QED BY <2>2, <2>3, <2>4
<1>12. ASSUME NEW i \in 1..n - 1 PROVE Drop(a \o b, m + 1)[i] = t[i]
  <2>1. m + 1 + i = m + (i + 1) /\ i + 1 \in 1..n
    OBVIOUS
  <2> QED BY <1>3, <1>5, <1>11, <2>1 DEF t
<1>13. t = Drop(a \o b, m + 1)
  BY <1>6, <1>11, <1>12, SeqEqual
<1>14. (a \o b)[m + 1] = Head(b)
  BY <1>2, <1>5
<1> QED BY SMTT(20), <1>1, <1>2, <1>3, <1>5, <1>9, <1>13, <1>14 DEF l, t
----------------------------------------------------------------------------
(* What leaves a line and what is added to it.                             *)

\* what a line has got of some bytes
Lossy(s, bytes) == s = bytes \/ \E i \in DOMAIN bytes : s = RemoveAt(bytes, i)

LEMMA SentToDevice ==
    ASSUME NEW bytes \in Seq(Nat), faults \in Nat, Send(toDevice, bytes)
    PROVE  /\ faults' \in Nat
           /\ \E s \in Seq(Nat) :
                  /\ toDevice' = toDevice \o s /\ Lossy(s, bytes)
                  /\ faults' = 0 => faults = 0 /\ s = bytes
<1>1. CASE toDevice' = toDevice \o bytes /\ UNCHANGED faults
  BY <1>1 DEF Lossy
<1>2. CASE \E i \in DOMAIN bytes : toDevice' = toDevice \o RemoveAt(bytes, i) /\ faults' = faults + 1
  <2>1. PICK i \in DOMAIN bytes : toDevice' = toDevice \o RemoveAt(bytes, i) /\ faults' = faults + 1
    BY <1>2
  <2>2. RemoveAt(bytes, i) \in Seq(Nat)
    BY RemovedNat
  <2>3. faults' # 0 /\ faults' \in Nat
    BY <2>1
  <2> QED BY <2>1, <2>2, <2>3 DEF Lossy
<1> QED BY <1>1, <1>2 DEF Send

LEMMA SentToHost ==
    ASSUME NEW bytes \in Seq(Nat), faults \in Nat, Send(toHost, bytes)
    PROVE  /\ faults' \in Nat
           /\ \E s \in Seq(Nat) :
                  /\ toHost' = toHost \o s /\ Lossy(s, bytes)
                  /\ faults' = 0 => faults = 0 /\ s = bytes
<1>1. CASE toHost' = toHost \o bytes /\ UNCHANGED faults
  BY <1>1 DEF Lossy
<1>2. CASE \E i \in DOMAIN bytes : toHost' = toHost \o RemoveAt(bytes, i) /\ faults' = faults + 1
  <2>1. PICK i \in DOMAIN bytes : toHost' = toHost \o RemoveAt(bytes, i) /\ faults' = faults + 1
    BY <1>2
  <2>2. RemoveAt(bytes, i) \in Seq(Nat)
    BY RemovedNat
  <2>3. faults' # 0 /\ faults' \in Nat
    BY <2>1
  <2> QED BY <2>1, <2>2, <2>3 DEF Lossy
<1> QED BY <1>1, <1>2 DEF Send

LEMMA Lines ==
    ASSUME TypeOK
    PROVE  /\ Part \in Seq(Nat) /\ Incoming \in Seq(Nat) /\ Arriving \in Seq(Nat)
           /\ toDevice \in Seq(Nat) /\ toHost \in Seq(Nat) /\ rx_buf \in Seq(Nat)
           /\ Incoming = Part \o toDevice
           /\ SerialRxState = "INBETWEEN" => Incoming = toDevice
<1>1. <<>> \in Seq(Nat) /\ <<SOM>> \in Seq(Nat)
  BY DEF SOM
<1>2. SerialCmdId \in Nat => <<SOM, SerialCmdId>> \in Seq(Nat)
  BY DEF SOM
<1>3. SerialRxBuffer \in Seq(Nat) => <<SOM>> \o SerialRxBuffer \in Seq(Nat)
  BY <1>1, ConcatNat
<1>4. Part \in Seq(Nat)
  BY <1>1, <1>2, <1>3 DEF TypeOK, Part
<1>5. Part \o toDevice \in Seq(Nat) /\ rx_buf \o toHost \in Seq(Nat)
  BY <1>4, ConcatNat DEF TypeOK
<1>6. <<>> \o toDevice = toDevice
  BY ConcatEmptySeq DEF TypeOK
<1> QED BY <1>4, <1>5, <1>6 DEF Incoming, Arriving, TypeOK, Part

LEMMA IncomingGrows ==
    ASSUME TypeOK, UNCHANGED rx, NEW s \in Seq(Nat), toDevice' = toDevice \o s
    PROVE  Incoming' = Incoming \o s
<1>1. Part' = Part
  BY DEF rx, Part
<1>2. Part \in Seq(Nat) /\ toDevice \in Seq(Nat)
  BY Lines
<1>3. Part \o (toDevice \o s) = (Part \o toDevice) \o s
  BY <1>2, Regrouped
<1> QED BY <1>1, <1>3 DEF Incoming

LEMMA IncomingStays ==
    ASSUME UNCHANGED <<rx, toDevice>>
    PROVE  Incoming' = Incoming
BY DEF rx, Part, Incoming

LEMMA ArrivingGrows ==
    ASSUME TypeOK, UNCHANGED rx_buf, NEW s \in Seq(Nat), toHost' = toHost \o s
    PROVE  Arriving' = Arriving \o s
<1>1. rx_buf \in Seq(Nat) /\ toHost \in Seq(Nat)
  BY DEF TypeOK
<1>2. rx_buf \o (toHost \o s) = (rx_buf \o toHost) \o s
  BY <1>1, Regrouped
<1> QED BY <1>2 DEF Arriving

----------------------------------------------------------------------------
(* The device receives a byte.                                             *)

LEMMA StartFound ==
    ASSUME TypeOK, FindStart
    PROVE  IF NextByte = SOM THEN Incoming' = Incoming /\ SerialRxState' = "CMDID"
           ELSE /\ Incoming' = Drop(Incoming, 1) /\ SerialRxState' = "INBETWEEN"
                /\ Len(Incoming) >= 1 /\ Incoming[1] # SOM
<1>1. toDevice # <<>> /\ toDevice' = Tail(toDevice) /\ SerialRxState = "INBETWEEN"
  BY DEF FindStart, Receive
<1>2. Part = <<>> /\ toDevice \in Seq(Nat) /\ <<>> \in Seq(Nat) /\ Len(<<>>) = 0
  BY <1>1, EmptySeq DEF Part, TypeOK
<1>3. /\ Append(<<>>, Head(toDevice)) \o Tail(toDevice) = Incoming
      /\ Tail(toDevice) = Drop(Incoming, 1)
      /\ Len(Incoming) >= 1 /\ Incoming[1] = Head(toDevice)
      /\ Tail(toDevice) \in Seq(Nat)
  <2>1. PICK e \in Seq(Nat) : e = <<>> /\ Len(e) = 0
    BY <1>2
  <2>2. /\ Append(e, Head(toDevice)) \o Tail(toDevice) = e \o toDevice
        /\ Tail(toDevice) = Drop(e \o toDevice, Len(e) + 1)
        /\ Len(e \o toDevice) >= Len(e) + 1 /\ (e \o toDevice)[Len(e) + 1] = Head(toDevice)
        /\ Tail(toDevice) \in Seq(Nat)
    BY <1>1, <1>2, <2>1, MovedOn
  <2>3. Incoming = e \o toDevice /\ Len(e) + 1 = 1
    BY <1>2, <2>1 DEF Incoming
  <2> QED BY <2>1, <2>2, <2>3
<1>4. CASE NextByte = SOM
  <2>1. SerialRxState' = "CMDID" /\ Part' = <<SOM>>
    BY <1>4 DEF FindStart, Receive, Part
  <2>2. Append(<<>>, Head(toDevice)) = <<SOM>>
    BY <1>4 DEF NextByte
  <2> QED BY <1>1, <1>3, <1>4, <2>1, <2>2 DEF Incoming
<1>5. CASE NextByte # SOM
  <2>1. SerialRxState' = "INBETWEEN" /\ Part' = <<>>
    BY <1>5 DEF FindStart, Receive, Part
  <2>2. <<>> \o Tail(toDevice) = Tail(toDevice)
    BY <1>3, ConcatEmptySeq
  <2> QED BY <1>1, <1>3, <1>5, <2>1, <2>2 DEF Incoming, NextByte
<1> QED BY <1>4, <1>5

LEMMA IdReceived ==
    ASSUME TypeOK, ReceiveId
    PROVE  Incoming' = Incoming /\ SerialRxState' = "CMDLEN" /\ SerialCmdId' \in Nat
<1>1. /\ toDevice # <<>> /\ toDevice' = Tail(toDevice) /\ SerialRxState = "CMDID"
      /\ SerialRxState' = "CMDLEN" /\ SerialCmdId' = Head(toDevice)
  BY DEF ReceiveId, Receive, NextByte
<1>2. Part = <<SOM>> /\ Part' = <<SOM, Head(toDevice)>>
  BY <1>1 DEF Part
<1>3. <<SOM>> \in Seq(Nat) /\ toDevice \in Seq(Nat)
  BY DEF SOM, TypeOK
<1>4. Append(<<SOM>>, Head(toDevice)) \o Tail(toDevice) = <<SOM>> \o toDevice /\ Head(toDevice) \in Nat
  BY <1>1, <1>3, MovedOn
<1>5. Append(<<SOM>>, Head(toDevice)) = <<SOM, Head(toDevice)>>
  BY <1>4, Longer DEF SOM
<1> QED BY <1>1, <1>2, <1>4, <1>5 DEF Incoming

\* id and length, whatever follows from them
LEMMA LengthReceived ==
    ASSUME TypeOK, SerialRxState = "CMDLEN", toDevice # <<>>, toDevice' = Tail(toDevice)
    PROVE  /\ Len(Incoming) >= 3 /\ Incoming[1] = SOM
           /\ Incoming[2] = SerialCmdId /\ Incoming[3] = NextByte
           /\ SerialRxState' = "INBETWEEN" => Incoming' = Drop(Incoming, 3)
           /\ SerialRxState' = "DATA" /\ SerialRxBuffer' = <<SerialCmdId, NextByte>>
                  => Incoming' = Incoming
           /\ NextByte \in Nat /\ SerialCmdId \in Nat /\ toDevice' \in Seq(Nat)
<1>1. Part = <<SOM, SerialCmdId>> /\ SerialCmdId \in Nat /\ toDevice \in Seq(Nat)
  BY DEF Part, TypeOK
<1> DEFINE h == <<SOM, SerialCmdId>>
<1>2. h \in Seq(Nat) /\ Len(h) = 2 /\ h[1] = SOM /\ h[2] = SerialCmdId
  <2>1. SOM \in Nat
    BY DEF SOM
  <2> QED BY <1>1, <2>1, Tuples
<1>3. Incoming = h \o toDevice
  BY <1>1 DEF Incoming
<1> HIDE DEF h
<1>4. /\ Append(h, Head(toDevice)) \o Tail(toDevice) = Incoming
      /\ Tail(toDevice) = Drop(Incoming, 3)
      /\ Len(Incoming) >= 3 /\ Incoming[3] = Head(toDevice)
      /\ Head(toDevice) \in Nat /\ Tail(toDevice) \in Seq(Nat)
  <2>1. /\ Append(h, Head(toDevice)) \o Tail(toDevice) = h \o toDevice
        /\ Tail(toDevice) = Drop(h \o toDevice, Len(h) + 1)
        /\ Len(h \o toDevice) >= Len(h) + 1 /\ (h \o toDevice)[Len(h) + 1] = Head(toDevice)
        /\ Head(toDevice) \in Nat /\ Tail(toDevice) \in Seq(Nat)
    BY <1>1, <1>2, MovedOn
  <2>2. Len(h) + 1 = 3
    BY <1>2
  <2> QED BY <1>3, <2>1, <2>2
<1>5. Incoming[1] = SOM /\ Incoming[2] = SerialCmdId
  <2>1. \A i \in 1..Len(h) : (h \o toDevice)[i] = h[i]
    BY <1>1, <1>2, ConcatNat
  <2>2. 1 \in 1..Len(h) /\ 2 \in 1..Len(h)
    BY <1>2
  <2> QED BY <1>2, <1>3, <2>1, <2>2
<1>6. SerialRxState' = "INBETWEEN" => Incoming' = Drop(Incoming, 3)
  <2>1. SerialRxState' = "INBETWEEN" => Incoming' = <<>> \o Tail(toDevice)
    BY DEF Incoming, Part
  <2>2. <<>> \o Tail(toDevice) = Tail(toDevice)
    BY <1>4, ConcatEmptySeq
  <2> QED BY <1>4, <2>1, <2>2
<1>7. SerialRxState' = "DATA" /\ SerialRxBuffer' = <<SerialCmdId, NextByte>> => Incoming' = Incoming
  <2>1. SerialRxState' = "DATA" /\ SerialRxBuffer' = <<SerialCmdId, NextByte>>
            => Incoming' = (<<SOM>> \o <<SerialCmdId, NextByte>>) \o Tail(toDevice)
    BY DEF Incoming, Part
  <2>2. <<SOM>> \o <<SerialCmdId, NextByte>> = Append(h, Head(toDevice))
    <3>1. SOM \in Nat /\ SerialCmdId \in Nat /\ Head(toDevice) \in Nat
      BY <1>1, <1>4 DEF SOM
    <3> QED BY <3>1 DEF NextByte, h
  <2> QED BY <1>4, <2>1, <2>2
<1> QED BY <1>1, <1>4, <1>5, <1>6, <1>7 DEF NextByte

LEMMA DataReceived ==
    ASSUME TypeOK, ReceiveData
    PROVE  /\ SerialRxBuffer' \in Seq(Nat) /\ Len(SerialRxBuffer') = Len(SerialRxBuffer) + 1
           /\ \A i \in 1..Len(SerialRxBuffer) : SerialRxBuffer'[i] = SerialRxBuffer[i]
           /\ Len(Incoming) > Len(SerialRxBuffer') /\ Incoming[1] = SOM
           /\ \A i \in 1..Len(SerialRxBuffer') : Incoming[i + 1] = SerialRxBuffer'[i]
           /\ SerialRxState' = "INBETWEEN" => Incoming' = Drop(Incoming, Len(SerialRxBuffer') + 1)
           /\ SerialRxState' = "DATA" => Incoming' = Incoming
           /\ toDevice' \in Seq(Nat)
<1>1. /\ toDevice # <<>> /\ toDevice' = Tail(toDevice) /\ SerialRxState = "DATA"
      /\ SerialRxBuffer' = Append(SerialRxBuffer, Head(toDevice))
      /\ toDevice \in Seq(Nat) /\ SerialRxBuffer \in Seq(Nat)
  BY DEF ReceiveData, Receive, NextByte, TypeOK
<1> DEFINE one == <<SOM>>
<1>2. one \in Seq(Nat) /\ Len(one) = 1 /\ one[1] = SOM
  BY DEF SOM
<1>3. PICK m \in Nat : m = Len(SerialRxBuffer)
  BY <1>1, LenProperties
<1>4. PICK h \in Seq(Nat) : /\ h = one \o SerialRxBuffer /\ Len(h) = m + 1 /\ h[1] = SOM
                            /\ \A i \in 1..m : h[i + 1] = SerialRxBuffer[i]
  <2>1. /\ one \o SerialRxBuffer \in Seq(Nat)
        /\ Len(one \o SerialRxBuffer) = Len(one) + Len(SerialRxBuffer)
        /\ \A i \in 1..Len(one) : (one \o SerialRxBuffer)[i] = one[i]
        /\ \A i \in 1..Len(SerialRxBuffer) : (one \o SerialRxBuffer)[Len(one) + i] = SerialRxBuffer[i]
    BY <1>1, <1>2, ConcatNat
  <2> DEFINE g == one \o SerialRxBuffer
  <2>2. Len(g) = m + 1 /\ g[1] = SOM /\ \A i \in 1..m : g[1 + i] = SerialRxBuffer[i]
    BY <1>2, <1>3, <2>1
  <2>3. \A i \in 1..m : 1 + i = i + 1
    OBVIOUS
  <2> HIDE DEF g, one
  <2>4. \A i \in 1..m : g[i + 1] = SerialRxBuffer[i]
    BY <2>2, <2>3
  <2> QED BY <2>1, <2>2, <2>4 DEF g
<1>5. Incoming = h \o toDevice
  BY <1>1, <1>4 DEF Incoming, Part
<1> HIDE DEF one
<1>6. /\ Append(h, Head(toDevice)) \o Tail(toDevice) = Incoming
      /\ Tail(toDevice) = Drop(Incoming, m + 1 + 1)
      /\ Len(Incoming) >= m + 1 + 1 /\ Incoming[m + 1 + 1] = Head(toDevice)
      /\ Head(toDevice) \in Nat /\ Tail(toDevice) \in Seq(Nat)
  <2>1. /\ Append(h, Head(toDevice)) \o Tail(toDevice) = h \o toDevice
        /\ Tail(toDevice) = Drop(h \o toDevice, Len(h) + 1)
        /\ Len(h \o toDevice) >= Len(h) + 1 /\ (h \o toDevice)[Len(h) + 1] = Head(toDevice)
        /\ Head(toDevice) \in Nat /\ Tail(toDevice) \in Seq(Nat)
    BY <1>1, MovedOn
  <2> QED BY <1>4, <1>5, <2>1
<1>7. /\ SerialRxBuffer' \in Seq(Nat) /\ Len(SerialRxBuffer') = m + 1
      /\ \A i \in 1..m : SerialRxBuffer'[i] = SerialRxBuffer[i]
      /\ SerialRxBuffer'[m + 1] = Head(toDevice)
  BY <1>1, <1>3, <1>6, AppendProperties
<1>8. \A i \in 1..m + 1 : Incoming[i] = h[i]
  <2>1. \A i \in 1..Len(h) : (h \o toDevice)[i] = h[i]
    BY <1>1, ConcatNat
  <2> QED BY <1>4, <1>5, <2>1
<1>9. Incoming[1] = SOM /\ \A i \in 1..m + 1 : Incoming[i + 1] = SerialRxBuffer'[i]
  <2>1. Incoming[1] = SOM
    BY <1>4, <1>8
  <2>2. ASSUME NEW i \in 1..m + 1 PROVE Incoming[i + 1] = SerialRxBuffer'[i]
    <3>1. CASE i \in 1..m
      <4>1. i + 1 \in 1..m + 1
        BY <3>1
      <4> QED BY <1>4, <1>7, <1>8, <3>1, <4>1
    <3>2. CASE i = m + 1
      BY <1>6, <1>7, <3>2
    <3> QED BY <3>1, <3>2
  <2> QED BY <2>1, <2>2
<1>10. SerialRxState' = "INBETWEEN" => Incoming' = Drop(Incoming, m + 1 + 1)
  <2>1. SerialRxState' = "INBETWEEN" => Incoming' = <<>> \o Tail(toDevice)
    BY <1>1 DEF Incoming, Part
  <2>2. <<>> \o Tail(toDevice) = Tail(toDevice)
    BY <1>6, ConcatEmptySeq
  <2> QED BY <1>6, <2>1, <2>2
<1>11. SerialRxState' = "DATA" => Incoming' = Incoming
  <2>1. SerialRxState' = "DATA" => Incoming' = (one \o Append(SerialRxBuffer, Head(toDevice))) \o Tail(toDevice)
    BY <1>1 DEF Incoming, Part, one
  <2>2. one \o Append(SerialRxBuffer, Head(toDevice)) = Append(h, Head(toDevice))
    <3>1. <<Head(toDevice)>> \in Seq(Nat)
      BY <1>6
    <3>2. Append(SerialRxBuffer, Head(toDevice)) = SerialRxBuffer \o <<Head(toDevice)>>
      BY <1>1, <1>6, AppendIsConcat
    <3>3. Append(h, Head(toDevice)) = h \o <<Head(toDevice)>>
      BY <1>6, AppendIsConcat
    <3>4. (one \o SerialRxBuffer) \o <<Head(toDevice)>> = one \o (SerialRxBuffer \o <<Head(toDevice)>>)
      <4>1. PICK t \in Seq(Nat) : t = <<Head(toDevice)>>
        BY <3>1
      <4>2. (one \o SerialRxBuffer) \o t = one \o (SerialRxBuffer \o t)
        <5>1. one \in Seq(Nat) /\ SerialRxBuffer \in Seq(Nat) /\ t \in Seq(Nat)
          BY <1>1, <1>2
        <5> QED BY SMTT(20), <5>1, ConcatAssociative
      <4> QED BY <4>1, <4>2
    <3> QED BY <1>4, <3>2, <3>3, <3>4
  <2> QED BY <1>6, <2>1, <2>2
<1> QED
  <2>1. Len(Incoming) > m + 1
    <3>1. PICK n \in Nat : n = Len(Incoming)
      BY Lines, LenProperties
    <3> QED BY <1>6, <3>1
  <2> QED BY <1>1, <1>3, <1>6, <1>7, <1>9, <1>10, <1>11, <2>1
----------------------------------------------------------------------------
(* A line, by what a receiver could find on it.                            *)

\* what may be added to a line: it begins with two bytes 1 if with one
Piece(s, n) == Line(s, n) /\ (Len(s) > 0 /\ s[1] = 1 => Len(s) >= 2 /\ s[2] = 1)

LEMMA EmptyLine ==
    ASSUME NEW s \in Seq(Nat), Len(s) = 0, NEW n \in Nat
    PROVE  Line(s, n) /\ Piece(s, n) /\ Whole(s) = {}
BY DEF Line, Piece, Whole

LEMMA WholeBounded ==
    ASSUME NEW s \in Seq(Nat), NEW n \in 0..100, Line(s, n), NEW p \in Whole(s)
    PROVE  s[p + 1] \in 1..n /\ p \in 1..Len(s) - 3
<1>1. PICK m \in Nat : m = Len(s)
  BY LenProperties
<1>2. /\ p \in 1..m - 3 /\ s[p] = SOM /\ s[p + 1] # 0 /\ s[p + 2] = 1 /\ s[p + 3] = s[p + 1]
  BY <1>1 DEF Whole
<1>3. p \in 1..m /\ p + 1 \in 1..m - 1 /\ p + 1 + 1 = p + 2 /\ p + 1 + 2 = p + 3
  BY <1>2
<1>4. s[p + 1] \in {0, RXRDY, RXFAIL} \cup 1..n
  BY <1>1, <1>2, <1>3 DEF Line
<1>5. s[p + 1] \in {RXRDY, RXFAIL} => s[p + 3] = 1
  BY <1>1, <1>2, <1>3 DEF Line
<1>6. s[p + 1] \notin {RXRDY, RXFAIL}
  BY <1>2, <1>5 DEF RXRDY, RXFAIL
<1> QED BY <1>1, <1>2, <1>4, <1>6

LEMMA LineDropped ==
    ASSUME NEW s \in Seq(Nat), NEW k \in 0..Len(s), NEW n \in Nat, Line(s, n)
    PROVE  /\ Line(Drop(s, k), n)
           /\ \A p \in Whole(Drop(s, k)) :
                  /\ p + k \in Whole(s) /\ Drop(s, k)[p + 1] = s[p + k + 1]
                  /\ p \in Nat /\ p >= 1 /\ p + k \in Nat
<1>1. PICK m \in Nat : m = Len(s)
  BY LenProperties
<1>2. k \in 0..m
  BY <1>1
<1> DEFINE t == Drop(s, k)
<1>3. t \in Seq(Nat) /\ Len(t) = m - k /\ \A i \in 1..m - k : t[i] = s[k + i]
  BY <1>1, DropNat
<1> HIDE DEF t
<1>4. ASSUME NEW p \in 1..m - k, t[p] = SOM
      PROVE  /\ p < m - k
             /\ t[p + 1] \in {0, RXRDY, RXFAIL} \cup 1..n
             /\ t[p + 1] \in 1..n => p + 2 <= m - k
  <2>1. k + p \in 1..m /\ s[k + p] = SOM
    BY <1>2, <1>3, <1>4
  <2>2. /\ k + p < m
        /\ s[k + p + 1] \in {0, RXRDY, RXFAIL} \cup 1..n
        /\ s[k + p + 1] \in 1..n => k + p + 2 <= m
    BY <1>1, <2>1 DEF Line
  <2>3. p + 1 \in 1..m - k /\ k + (p + 1) = k + p + 1
    BY <1>2, <2>2
  <2>4. t[p + 1] = s[k + p + 1]
    BY <1>3, <2>3
  <2>5. k + p + 2 <= m => p + 2 <= m - k
    BY <1>2
  <2> QED BY <1>2, <2>2, <2>3, <2>4, <2>5
<1>5. ASSUME NEW p \in 1..m - k - 1, t[p] \in {RXRDY, RXFAIL}, t[p + 1] = 1
      PROVE  p + 2 <= m - k /\ t[p + 2] = 1
  <2>1. /\ p \in 1..m - k /\ p + 1 \in 1..m - k /\ k + p \in 1..m - 1
        /\ k + (p + 1) = k + p + 1
    BY <1>2
  <2>2. s[k + p] \in {RXRDY, RXFAIL} /\ s[k + p + 1] = 1
    BY <1>3, <1>5, <2>1
  <2>3. k + p + 2 <= m /\ s[k + p + 2] = 1
    BY <1>1, <2>1, <2>2 DEF Line
  <2>4. p + 2 \in 1..m - k /\ k + (p + 2) = k + p + 2
    BY <1>2, <2>3
  <2> QED BY SMTT(20), <1>3, <2>3, <2>4
<1>6. Line(t, n)
  BY <1>3, <1>4, <1>5 DEF Line
<1>7. ASSUME NEW p \in Whole(t)
      PROVE  p + k \in Whole(s) /\ t[p + 1] = s[p + k + 1] /\ p \in Nat /\ p >= 1 /\ p + k \in Nat
  <2>1. /\ p \in 1..m - k - 3 /\ t[p] = SOM /\ t[p + 1] # 0 /\ t[p + 2] = 1
        /\ t[p + 3] = t[p + 1]
    BY <1>3 DEF Whole
  <2>2. /\ p \in 1..m - k /\ p + 1 \in 1..m - k /\ p + 2 \in 1..m - k /\ p + 3 \in 1..m - k
        /\ p + k \in 1..m - 3 /\ k + p = p + k /\ k + (p + 1) = p + k + 1
        /\ k + (p + 2) = p + k + 2 /\ k + (p + 3) = p + k + 3
    BY <1>2, <2>1
  <2>3. /\ t[p] = s[p + k] /\ t[p + 1] = s[p + k + 1]
        /\ t[p + 2] = s[p + k + 2] /\ t[p + 3] = s[p + k + 3]
    <3>1. t[p] = s[p + k] /\ t[p + 1] = s[p + k + 1]
      BY <1>3, <2>2
    <3>2. t[p + 2] = s[p + k + 2] /\ t[p + 3] = s[p + k + 3]
      BY <1>3, <2>2
    <3> QED BY <3>1, <3>2
  <2> QED BY SMTT(20), <1>1, <2>1, <2>2, <2>3 DEF Whole
<1> QED BY <1>6, <1>7 DEF t

LEMMA LineJoined ==
    ASSUME NEW s \in Seq(Nat), NEW t \in Seq(Nat), NEW b \in 0..100, NEW c \in 0..100, b <= c,
           Line(s, b), Piece(t, c)
    PROVE  /\ Line(s \o t, c)
           /\ \A p \in Whole(s \o t) :
                \/ p \in Whole(s) /\ (s \o t)[p + 1] = s[p + 1]
                \/ /\ p > Len(s) /\ p - Len(s) \in Whole(t)
                   /\ (s \o t)[p + 1] = t[p - Len(s) + 1]
                \/ /\ p = Len(s) - 2 /\ Len(t) > 0
                   /\ (s \o t)[p + 1] = t[1] /\ t[1] \in 1..b
<1>1. PICK m \in Nat, n \in Nat : m = Len(s) /\ n = Len(t)
  BY LenProperties
<1> DEFINE v == s \o t
<1>2. /\ v \in Seq(Nat) /\ Len(v) = m + n
      /\ \A i \in 1..m : v[i] = s[i]
      /\ \A i \in m + 1..m + n : v[i] = t[i - m]
      /\ \A i \in 1..m + n : v[i] \in Nat
  <2>1. /\ v \in Seq(Nat) /\ Len(v) = m + n
        /\ \A i \in 1..m : v[i] = s[i]
        /\ \A i \in m + 1..m + n : v[i] = t[i - m]
    BY <1>1, ConcatNat
  <2> QED BY <2>1, ElementOfSeq
<1> HIDE DEF v
<1>3. /\ \A p \in 1..m : s[p] = SOM =>
             p < m /\ s[p + 1] \in {0, RXRDY, RXFAIL} \cup 1..b /\ (s[p + 1] \in 1..b => p + 2 <= m)
      /\ \A p \in 1..m - 1 : s[p] \in {RXRDY, RXFAIL} /\ s[p + 1] = 1 =>
             p + 2 <= m /\ s[p + 2] = 1
  BY <1>1 DEF Line
<1>4. /\ \A p \in 1..n : t[p] = SOM =>
             p < n /\ t[p + 1] \in {0, RXRDY, RXFAIL} \cup 1..c /\ (t[p + 1] \in 1..c => p + 2 <= n)
      /\ \A p \in 1..n - 1 : t[p] \in {RXRDY, RXFAIL} /\ t[p + 1] = 1 =>
             p + 2 <= n /\ t[p + 2] = 1
      /\ n > 0 /\ t[1] = 1 => n >= 2 /\ t[2] = 1
  BY <1>1 DEF Piece, Line
<1>5. \A x : x \in {0, RXRDY, RXFAIL} \cup 1..b =>
          x \in {0, RXRDY, RXFAIL} \cup 1..c /\ (x \in 1..c => x \in 1..b)
  BY DEF RXRDY, RXFAIL
<1>6. ASSUME NEW p \in 1..m + n, v[p] = SOM
      PROVE  /\ p < m + n
             /\ v[p + 1] \in {0, RXRDY, RXFAIL} \cup 1..c
             /\ v[p + 1] \in 1..c => p + 2 <= m + n
  <2>1. CASE p \in 1..m
    <3>1. /\ p < m /\ s[p + 1] \in {0, RXRDY, RXFAIL} \cup 1..b
          /\ s[p + 1] \in 1..b => p + 2 <= m
      BY <1>2, <1>3, <1>6, <2>1
    <3>2. p + 1 \in 1..m
      BY <3>1
    <3>3. v[p + 1] = s[p + 1]
      BY <1>2, <3>2
    <3>4. /\ v[p + 1] \in {0, RXRDY, RXFAIL} \cup 1..c
          /\ v[p + 1] \in 1..c => p + 2 <= m
      BY <1>5, <3>1, <3>3
    <3> QED BY <3>1, <3>4
  <2>2. CASE p \in m + 1..m + n
    <3>1. p - m \in 1..n /\ t[p - m] = SOM
      BY SMTT(20), <1>2, <1>6, <2>2
    <3>2. /\ p - m < n /\ t[p - m + 1] \in {0, RXRDY, RXFAIL} \cup 1..c
          /\ t[p - m + 1] \in 1..c => p - m + 2 <= n
      BY <1>4, <3>1
    <3>3. p + 1 \in m + 1..m + n /\ p + 1 - m = p - m + 1
      BY <2>2, <3>2
    <3>4. v[p + 1] = t[p - m + 1]
      BY <1>2, <3>3
    <3>5. p < m + n /\ (p - m + 2 <= n => p + 2 <= m + n)
      BY <3>2
    <3> QED BY <3>2, <3>4, <3>5
  <2> QED BY <2>1, <2>2
<1>7. ASSUME NEW p \in 1..m + n - 1, v[p] \in {RXRDY, RXFAIL}, v[p + 1] = 1
      PROVE  p + 2 <= m + n /\ v[p + 2] = 1
  <2>1. CASE p \in 1..m - 1
    <3>1. p \in 1..m /\ p + 1 \in 1..m
      BY <2>1
    <3>2. p + 2 <= m /\ s[p + 2] = 1
      BY <1>2, <1>3, <1>7, <2>1, <3>1
    <3>3. p + 2 \in 1..m
      BY <3>2
    <3> QED BY <1>2, <3>2, <3>3
  <2>2. CASE p = m
    <3>1. m + 1 \in m + 1..m + n /\ m + 1 - m = 1 /\ n > 0
      BY <2>2
    <3>2. n >= 2 /\ t[2] = 1
      BY SMTT(20), <1>2, <1>4, <1>7, <2>2, <3>1
    <3>3. m + 2 \in m + 1..m + n /\ m + 2 - m = 2
      BY <3>2
    <3> QED BY SMTT(20), <1>2, <2>2, <3>2, <3>3
  <2>3. CASE p \in m + 1..m + n - 1
    <3>1. /\ p \in m + 1..m + n /\ p + 1 \in m + 1..m + n /\ p - m \in 1..n - 1
          /\ p + 1 - m = p - m + 1
      BY <2>3
    <3>2. p - m + 2 <= n /\ t[p - m + 2] = 1
      <4>1. v[p] = t[p - m] /\ v[p + 1] = t[p + 1 - m]
        BY SMTT(20), <1>2, <3>1
      <4> QED BY <1>4, <1>7, <3>1, <4>1
    <3>3. p + 2 \in m + 1..m + n /\ p + 2 - m = p - m + 2
      BY <3>1, <3>2
    <3> QED BY <1>2, <3>2, <3>3
  <2>4. p \in 1..m - 1 \/ p = m \/ p \in m + 1..m + n - 1
    OBVIOUS
  <2> QED BY <2>1, <2>2, <2>3, <2>4
<1>8. Line(v, c)
  BY <1>2, <1>6, <1>7 DEF Line
<1>9. ASSUME NEW p \in Whole(v)
      PROVE  \/ p \in Whole(s) /\ v[p + 1] = s[p + 1]
             \/ p > m /\ p - m \in Whole(t) /\ v[p + 1] = t[p - m + 1]
             \/ p = m - 2 /\ n > 0 /\ v[p + 1] = t[1] /\ t[1] \in 1..b
  <2>1. /\ p \in 1..m + n - 3 /\ v[p] = SOM /\ v[p + 1] # 0 /\ v[p + 2] = 1
        /\ v[p + 3] = v[p + 1]
    BY <1>2 DEF Whole
  <2>2. CASE p \in 1..m - 3
    <3>1. p \in 1..m /\ p + 1 \in 1..m /\ p + 2 \in 1..m /\ p + 3 \in 1..m
      BY <2>2
    <3>2. s[p] = v[p] /\ s[p + 1] = v[p + 1] /\ s[p + 2] = v[p + 2] /\ s[p + 3] = v[p + 3]
      BY <1>2, <3>1
    <3> QED BY <1>1, <2>1, <2>2, <3>2 DEF Whole
  <2>3. CASE p > m
    <3>1. /\ p \in m + 1..m + n /\ p + 1 \in m + 1..m + n /\ p + 2 \in m + 1..m + n
          /\ p + 3 \in m + 1..m + n /\ p - m \in 1..n - 3
          /\ p + 1 - m = p - m + 1 /\ p + 2 - m = p - m + 2 /\ p + 3 - m = p - m + 3
      BY <2>1, <2>3
    <3>2. /\ t[p - m] = v[p] /\ t[p - m + 1] = v[p + 1] /\ t[p - m + 2] = v[p + 2]
          /\ t[p - m + 3] = v[p + 3]
      <4>1. t[p - m] = v[p] /\ t[p + 1 - m] = v[p + 1]
        BY <1>2, <3>1
      <4>2. t[p + 2 - m] = v[p + 2] /\ t[p + 3 - m] = v[p + 3]
        BY SMTT(20), <1>2, <3>1
      <4> QED BY <3>1, <4>1, <4>2
    <3> QED BY <1>1, <2>1, <2>3, <3>1, <3>2 DEF Whole
  <2>4. CASE p \in m - 2..m
    <3>1. p \in 1..m /\ s[p] = SOM
      <4>1. p \in 1..m
        BY <2>1, <2>4
      <4> QED BY <1>2, <2>1, <4>1
    <3>2. /\ p < m /\ s[p + 1] \in {0, RXRDY, RXFAIL} \cup 1..b
          /\ s[p + 1] \in 1..b => p + 2 <= m
      BY <1>3, <3>1
    <3>3. p + 1 \in 1..m
      BY <3>1, <3>2
    <3>4. v[p + 1] = s[p + 1]
      BY <1>2, <3>3
    <3>5. s[p + 1] \notin {RXRDY, RXFAIL}
      <4>1. v[p + 1] \in {RXRDY, RXFAIL} => v[p + 1 + 2] = 1
        <5>1. p + 1 \in 1..m + n - 1 /\ p + 1 + 1 = p + 2
          BY <2>1
        <5> QED BY <1>7, <2>1, <5>1
      <4>2. p + 1 + 2 = p + 3
        BY <2>1
      <4> QED BY <2>1, <3>4, <4>1, <4>2 DEF RXRDY, RXFAIL
    <3>6. s[p + 1] \in 1..b
      BY <2>1, <3>2, <3>4, <3>5
    <3>7. p = m - 2
      BY <2>4, <3>2, <3>6
    <3>8. p + 3 = m + 1 /\ m + 1 \in m + 1..m + n /\ m + 1 - m = 1 /\ n > 0
      BY <2>1, <3>7
    <3>9. v[p + 3] = t[1]
      BY SMTT(20), <1>2, <3>8
    <3> QED BY <2>1, <3>4, <3>6, <3>7, <3>8, <3>9
  <2>5. p \in 1..m - 3 \/ p > m \/ p \in m - 2..m
    BY <2>1
  <2> QED BY <2>2, <2>3, <2>4, <2>5
<1> QED BY <1>1, <1>8, <1>9 DEF v

\* a damaged message, by which of its bytes is missing
LEMMA MessagePiece ==
    ASSUME NEW n \in 1..100, NEW s \in Seq(Nat), Lossy(s, Frame(Message(n)))
    PROVE  /\ Piece(s, n) /\ Len(s) > 0 /\ s[1] \in {SOM, n}
           /\ \A p \in Whole(s) : p = 1 /\ s[p + 1] = n
<1>1. PICK f \in Seq(Nat) : /\ f = Frame(Message(n)) /\ Len(f) = 4
                             /\ f[1] = SOM /\ f[2] = n /\ f[3] = 1 /\ f[4] = n
  <2>1. n \in Nat
    OBVIOUS
  <2>2. /\ Frame(Message(n)) \in Seq(Nat) /\ Len(Frame(Message(n))) = 4
        /\ IsMessage(Frame(Message(n)), 1, n)
    BY <2>1, MessageFramed
  <2>3. PICK g \in Seq(Nat) : g = Frame(Message(n)) /\ Len(g) = 4 /\ IsMessage(g, 1, n)
    BY <2>2
  <2>4. g[1] = SOM /\ g[1 + 1] = n /\ g[1 + 2] = 1 /\ g[1 + 3] = n
    BY <2>3 DEF IsMessage
  <2>5. g[1] = SOM /\ g[2] = n /\ g[3] = 1 /\ g[4] = n
    BY <2>4
  <2> QED BY <2>3, <2>5
<1>2. \/ Len(s) = 4 /\ s[1] = SOM /\ s[2] = n /\ s[3] = 1 /\ s[4] = n
      \/ Len(s) = 3 /\ s[1] = n /\ s[2] = 1 /\ s[3] = n
      \/ Len(s) = 3 /\ s[1] = SOM /\ s[2] = 1 /\ s[3] = n
      \/ Len(s) = 3 /\ s[1] = SOM /\ s[2] = n /\ s[3] = n
      \/ Len(s) = 3 /\ s[1] = SOM /\ s[2] = n /\ s[3] = 1
  <2>1. CASE s = f
    BY <1>1, <2>1
  <2>2. ASSUME NEW i \in DOMAIN f, s = RemoveAt(f, i)
        PROVE  \/ Len(s) = 3 /\ s[1] = n /\ s[2] = 1 /\ s[3] = n
               \/ Len(s) = 3 /\ s[1] = SOM /\ s[2] = 1 /\ s[3] = n
               \/ Len(s) = 3 /\ s[1] = SOM /\ s[2] = n /\ s[3] = n
               \/ Len(s) = 3 /\ s[1] = SOM /\ s[2] = n /\ s[3] = 1
    <3>1. Len(s) = 4 - 1 /\ \A j \in 1..4 - 1 : s[j] = IF j < i THEN f[j] ELSE f[j + 1]
      BY <1>1, <2>2, RemovedNat
    <3>2. i \in 1..4
      BY <1>1, LenProperties
    <3>3. /\ s[1] = IF 1 < i THEN f[1] ELSE f[2]
          /\ s[2] = IF 2 < i THEN f[2] ELSE f[3]
          /\ s[3] = IF 3 < i THEN f[3] ELSE f[4]
      BY <3>1
    <3> QED BY <1>1, <3>1, <3>2, <3>3
  <2> QED BY <1>1, <2>1, <2>2 DEF Lossy
<1>3. /\ \A p \in 1..4 : p \in {1, 2, 3, 4}
      /\ \A p \in 1..3 : p \in {1, 2, 3}
      /\ \A p \in 1..2 : p \in {1, 2}
  OBVIOUS
<1>4. n # 0 /\ n # SOM /\ n # RXRDY /\ n # RXFAIL /\ 1 # SOM /\ 1 # RXRDY /\ 1 # RXFAIL /\ SOM # RXRDY
      /\ SOM # RXFAIL /\ 1 \in 1..n /\ n \in 1..n /\ n \in Nat
  BY DEF SOM, RXRDY, RXFAIL
<1>5. Line(s, n)
  <2>1. CASE Len(s) = 4 /\ s[1] = SOM /\ s[2] = n /\ s[3] = 1 /\ s[4] = n
    BY <1>3, <1>4, <2>1 DEF Line
  <2>2. CASE Len(s) = 3 /\ s[1] = n /\ s[2] = 1 /\ s[3] = n
    BY <1>3, <1>4, <2>2 DEF Line
  <2>3. CASE Len(s) = 3 /\ s[1] = SOM /\ s[2] = 1 /\ s[3] = n
    BY <1>3, <1>4, <2>3 DEF Line
  <2>4. CASE Len(s) = 3 /\ s[1] = SOM /\ s[2] = n /\ s[3] = n
    BY <1>3, <1>4, <2>4 DEF Line
  <2>5. CASE Len(s) = 3 /\ s[1] = SOM /\ s[2] = n /\ s[3] = 1
    BY <1>3, <1>4, <2>5 DEF Line
  <2> QED BY <1>2, <2>1, <2>2, <2>3, <2>4, <2>5
<1>6. \A p \in Whole(s) : p = 1 /\ s[p + 1] = n
  <2>1. CASE Len(s) = 4 /\ s[2] = n
    BY <2>1 DEF Whole
  <2>2. CASE Len(s) = 3
    BY <2>2 DEF Whole
  <2> QED BY <1>2, <2>1, <2>2
<1>7. Len(s) > 0 /\ s[1] \in {SOM, n} /\ (s[1] = 1 => Len(s) >= 2 /\ s[2] = 1)
  BY <1>2, <1>4
<1> QED BY <1>5, <1>6, <1>7 DEF Piece

\* acknowledgements, and the host's empty retransmission
LEMMA HandshakePiece ==
    ASSUME NEW x \in {0, RXRDY, RXFAIL}, NEW s \in Seq(Nat), Lossy(s, Frame(<<x, 0>>)),
           NEW n \in 0..100
    PROVE  Piece(s, n) /\ Len(s) > 0 /\ s[1] \notin 1..100 /\ Whole(s) = {}
<1> DEFINE f == Frame(<<x, 0>>)
<1>1. f \in Seq(Nat) /\ Len(f) = 3 /\ f[1] = SOM /\ f[2] = x /\ f[3] = 0
  BY HandshakeFramed DEF RXRDY, RXFAIL
<1> HIDE DEF f
<1>2. \/ Len(s) = 3 /\ s[1] = SOM /\ s[2] = x /\ s[3] = 0
      \/ Len(s) = 2 /\ s[1] = x /\ s[2] = 0
      \/ Len(s) = 2 /\ s[1] = SOM /\ s[2] = 0
      \/ Len(s) = 2 /\ s[1] = SOM /\ s[2] = x
  <2>1. CASE s = f
    BY <1>1, <2>1
  <2>2. ASSUME NEW i \in DOMAIN f, s = RemoveAt(f, i)
        PROVE  \/ Len(s) = 2 /\ s[1] = x /\ s[2] = 0
               \/ Len(s) = 2 /\ s[1] = SOM /\ s[2] = 0
               \/ Len(s) = 2 /\ s[1] = SOM /\ s[2] = x
    <3>1. Len(s) = 3 - 1 /\ \A j \in 1..3 - 1 : s[j] = IF j < i THEN f[j] ELSE f[j + 1]
      BY <1>1, <2>2, RemovedNat
    <3>2. i \in 1..3
      BY <1>1, LenProperties
    <3>3. /\ s[1] = IF 1 < i THEN f[1] ELSE f[2]
          /\ s[2] = IF 2 < i THEN f[2] ELSE f[3]
      BY <3>1
    <3> QED BY <1>1, <3>1, <3>2, <3>3
  <2> QED BY <2>1, <2>2 DEF Lossy, f
<1>3. /\ \A p \in 1..3 : p \in {1, 2, 3}
      /\ \A p \in 1..2 : p \in {1, 2}
      /\ \A p \in 1..1 : p = 1
  OBVIOUS
<1>4. /\ x # SOM /\ x # 1 /\ x \notin 1..100 /\ SOM \notin 1..100 /\ SOM # 1
      /\ 0 # SOM /\ 0 # 1 /\ SOM # RXRDY /\ SOM # RXFAIL
      /\ x \notin 1..n /\ 0 \notin 1..n /\ x \in {0, RXRDY, RXFAIL}
  BY SMTT(20) DEF SOM, RXRDY, RXFAIL
<1>5. Line(s, n)
  <2>1. CASE Len(s) = 3 /\ s[1] = SOM /\ s[2] = x /\ s[3] = 0
    <3>1. ASSUME NEW p \in 1..3, s[p] = SOM
          PROVE  p < 3 /\ s[p + 1] \in {0, RXRDY, RXFAIL} /\ s[p + 1] \notin 1..n
      <4>1. p = 1 \/ p = 2 \/ p = 3
        OBVIOUS
      <4>2. p = 1
        BY <1>4, <2>1, <3>1, <4>1
      <4>3. s[p + 1] = x
        BY <2>1, <4>2
      <4> QED BY <1>4, <4>2, <4>3
    <3>2. ASSUME NEW p \in 1..2 PROVE s[p + 1] # 1
      <4>1. p = 1 \/ p = 2
        OBVIOUS
      <4>2. CASE p = 1
        BY <1>4, <2>1, <4>2
      <4>3. CASE p = 2
        BY <1>4, <2>1, <4>3
      <4> QED BY <4>1, <4>2, <4>3
    <3> QED BY <2>1, <3>1, <3>2 DEF Line
  <2>2. CASE Len(s) = 2 /\ s[1] = x /\ s[2] = 0
    BY <1>3, <1>4, <2>2 DEF Line
  <2>3. CASE Len(s) = 2 /\ s[1] = SOM /\ s[2] = 0
    BY <1>3, <1>4, <2>3 DEF Line
  <2>4. CASE Len(s) = 2 /\ s[1] = SOM /\ s[2] = x
    <3>1. ASSUME NEW p \in 1..2, s[p] = SOM
          PROVE  p < 2 /\ s[p + 1] \in {0, RXRDY, RXFAIL} /\ s[p + 1] \notin 1..n
      <4>1. p = 1 \/ p = 2
        OBVIOUS
      <4>2. p = 1
        BY <1>4, <2>4, <3>1, <4>1
      <4>3. s[p + 1] = x
        BY <2>4, <4>2
      <4> QED BY <1>4, <4>2, <4>3
    <3>2. ASSUME NEW p \in 1..1 PROVE s[p + 1] # 1
      <4>1. p = 1
        OBVIOUS
      <4> QED BY <1>4, <2>4, <4>1
    <3> QED BY <2>4, <3>1, <3>2 DEF Line
  <2> QED BY <1>2, <2>1, <2>2, <2>3, <2>4
<1>6. Whole(s) = {}
  <2>1. CASE Len(s) = 3
    BY <2>1 DEF Whole
  <2>2. CASE Len(s) = 2
    BY <2>2 DEF Whole
  <2> QED BY <1>2, <2>1, <2>2
<1>7. Len(s) > 0 /\ s[1] \notin 1..100 /\ s[1] # 1
  <2>1. Len(s) > 0 /\ (s[1] = SOM \/ s[1] = x)
    BY <1>2
  <2> QED BY <1>4, <2>1
<1> QED BY <1>5, <1>6, <1>7 DEF Piece

\* what the device repeats before it has sent anything
LEMMA ZerosPiece ==
    ASSUME NEW f \in Seq(Nat), Len(f) = 3, \A i \in 1..3 : f[i] = 0,
           NEW s \in Seq(Nat), Lossy(s, f), NEW n \in 0..100
    PROVE  Piece(s, n) /\ Len(s) > 0 /\ s[1] \notin 1..100 /\ Whole(s) = {}
<1>1. Len(s) \in {2, 3} /\ \A i \in 1..Len(s) : s[i] = 0
  <2>1. CASE s = f
    BY <2>1
  <2>2. ASSUME NEW i \in DOMAIN f, s = RemoveAt(f, i)
        PROVE  Len(s) = 2 /\ \A j \in 1..2 : s[j] = 0
    <3>1. Len(s) = 3 - 1 /\ \A j \in 1..3 - 1 : s[j] = IF j < i THEN f[j] ELSE f[j + 1]
      BY <2>2, RemovedNat
    <3>2. \A j \in 1..2 : j \in 1..3 /\ j + 1 \in 1..3
      OBVIOUS
    <3> QED BY <3>1, <3>2
  <2> QED BY <2>1, <2>2 DEF Lossy
<1>2. 0 # SOM /\ 0 # RXRDY /\ 0 # RXFAIL /\ 0 # 1
  BY DEF SOM, RXRDY, RXFAIL
<1>3. Line(s, n)
  <2>1. PICK m \in {2, 3} : m = Len(s)
    BY <1>1
  <2>2. \A p \in 1..m - 1 : p \in 1..m
    BY <2>1
  <2> QED BY <1>1, <1>2, <2>1, <2>2 DEF Line
<1>4. Whole(s) = {}
  <2>1. PICK m \in {2, 3} : m = Len(s)
    BY <1>1
  <2>2. 1..m - 3 = {}
    OBVIOUS
  <2> QED BY <2>1, <2>2 DEF Whole
<1>5. Len(s) > 0 /\ s[1] = 0
  BY <1>1
<1> QED BY <1>3, <1>4, <1>5 DEF Piece

LEMMA LossyJoined ==
    ASSUME NEW u \in Seq(Nat), NEW v \in Seq(Nat), NEW s \in Seq(Nat), Lossy(s, u \o v)
    PROVE  \E a \in Seq(Nat), b \in Seq(Nat) : s = a \o b /\ Lossy(a, u) /\ Lossy(b, v)
<1>1. PICK m \in Nat, n \in Nat : m = Len(u) /\ n = Len(v) /\ DOMAIN u = 1..m /\ DOMAIN v = 1..n
  BY LenProperties
<1> DEFINE w == u \o v
<1>2. /\ w \in Seq(Nat) /\ Len(w) = m + n /\ DOMAIN w = 1..m + n
      /\ \A i \in 1..m : w[i] = u[i]
      /\ \A i \in m + 1..m + n : w[i] = v[i - m]
  <2>1. /\ w \in Seq(Nat) /\ Len(w) = m + n
        /\ \A i \in 1..m : w[i] = u[i]
        /\ \A i \in m + 1..m + n : w[i] = v[i - m]
    BY <1>1, ConcatNat
  <2> QED BY <2>1, LenProperties
<1>3. CASE s = w
  BY <1>3 DEF Lossy
<1>4. ASSUME NEW i \in DOMAIN w, s = RemoveAt(w, i), i <= m
      PROVE  \E a \in Seq(Nat), b \in Seq(Nat) : s = a \o b /\ Lossy(a, u) /\ Lossy(b, v)
  <2> HIDE DEF w
  <2>1. i \in 1..m
    BY <1>2, <1>4
  <2> DEFINE a == RemoveAt(u, i)
             t == a \o v
  <2>2. /\ a \in Seq(Nat) /\ Len(a) = m - 1
        /\ \A j \in 1..m - 1 : a[j] = IF j < i THEN u[j] ELSE u[j + 1]
    BY <1>1, <2>1, RemovedNat
  <2>3. Lossy(a, u)
    BY <1>1, <2>1 DEF Lossy
  <2> HIDE DEF a
  <2>4. /\ t \in Seq(Nat) /\ Len(t) = m - 1 + n
        /\ \A j \in 1..m - 1 : t[j] = a[j]
        /\ \A j \in m..m - 1 + n : t[j] = v[j - (m - 1)]
    <3>1. /\ t \in Seq(Nat) /\ Len(t) = Len(a) + Len(v)
          /\ \A j \in 1..Len(a) : t[j] = a[j]
          /\ \A j \in Len(a) + 1..Len(a) + Len(v) : t[j] = v[j - Len(a)]
      BY <2>2, ConcatNat
    <3>2. m - 1 + 1 = m
      OBVIOUS
    <3> HIDE DEF t
    <3> QED BY <1>1, <2>2, <3>1, <3>2
  <2> HIDE DEF t
  <2>5. /\ s \in Seq(Nat) /\ Len(s) = m + n - 1
        /\ \A j \in 1..m + n - 1 : s[j] = IF j < i THEN w[j] ELSE w[j + 1]
    <3>1. /\ RemoveAt(w, i) \in Seq(Nat) /\ Len(RemoveAt(w, i)) = Len(w) - 1
          /\ \A j \in 1..Len(w) - 1 : RemoveAt(w, i)[j] = IF j < i THEN w[j] ELSE w[j + 1]
      BY <1>2, <1>4, RemovedNat
    <3>2. Len(w) - 1 = m + n - 1
      BY <1>2
    <3> QED BY <1>4, <3>1, <3>2
  <2>6. ASSUME NEW j \in 1..m + n - 1 PROVE s[j] = t[j]
    <3>1. CASE j \in 1..m - 1
      <4>1. j \in 1..m /\ j + 1 \in 1..m
        BY <3>1
      <4> QED BY <1>2, <2>2, <2>4, <2>5, <3>1, <4>1
    <3>2. CASE j \in m..m - 1 + n
      <4>1. j + 1 \in m + 1..m + n /\ j + 1 - m = j - (m - 1) /\ ~(j < i)
        BY <2>1, <3>2
      <4>2. s[j] = w[j + 1]
        BY <2>5, <4>1
      <4>3. w[j + 1] = v[j + 1 - m]
        BY <1>2, <4>1
      <4>4. t[j] = v[j - (m - 1)]
        BY <2>4, <3>2
      <4> QED BY <4>1, <4>2, <4>3, <4>4
    <3> QED BY <3>1, <3>2
  <2>7. m - 1 + n = m + n - 1
    OBVIOUS
  <2>8. s = t
    BY <2>4, <2>5, <2>6, <2>7, SeqEqual
  <2>9. Lossy(v, v)
    BY DEF Lossy
  <2> QED BY <2>2, <2>3, <2>8, <2>9 DEF t
<1>5. ASSUME NEW i \in DOMAIN w, s = RemoveAt(w, i), i > m
      PROVE  \E a \in Seq(Nat), b \in Seq(Nat) : s = a \o b /\ Lossy(a, u) /\ Lossy(b, v)
  <2> HIDE DEF w
  <2>1. i - m \in 1..n
    BY <1>2, <1>5
  <2> DEFINE b == RemoveAt(v, i - m)
             t == u \o b
  <2>2. /\ b \in Seq(Nat) /\ Len(b) = n - 1
        /\ \A j \in 1..n - 1 : b[j] = IF j < i - m THEN v[j] ELSE v[j + 1]
    BY <1>1, <2>1, RemovedNat
  <2>3. Lossy(b, v)
    BY <1>1, <2>1 DEF Lossy
  <2> HIDE DEF b
  <2>4. /\ t \in Seq(Nat) /\ Len(t) = m + (n - 1)
        /\ \A j \in 1..m : t[j] = u[j]
        /\ \A j \in m + 1..m + (n - 1) : t[j] = b[j - m]
    <3>1. /\ t \in Seq(Nat) /\ Len(t) = Len(u) + Len(b)
          /\ \A j \in 1..Len(u) : t[j] = u[j]
          /\ \A j \in Len(u) + 1..Len(u) + Len(b) : t[j] = b[j - Len(u)]
      BY <2>2, ConcatNat
    <3> HIDE DEF t
    <3> QED BY <1>1, <2>2, <3>1
  <2> HIDE DEF t
  <2>5. /\ s \in Seq(Nat) /\ Len(s) = m + n - 1
        /\ \A j \in 1..m + n - 1 : s[j] = IF j < i THEN w[j] ELSE w[j + 1]
    <3>1. /\ RemoveAt(w, i) \in Seq(Nat) /\ Len(RemoveAt(w, i)) = Len(w) - 1
          /\ \A j \in 1..Len(w) - 1 : RemoveAt(w, i)[j] = IF j < i THEN w[j] ELSE w[j + 1]
      BY <1>2, <1>5, RemovedNat
    <3> QED BY <1>2, <1>5, <3>1
  <2>6. ASSUME NEW j \in 1..m + n - 1 PROVE s[j] = t[j]
    <3>1. CASE j \in 1..m
      <4>1. j < i
        BY <1>2, <1>5, <3>1
      <4> QED BY <1>2, <2>4, <2>5, <3>1, <4>1
    <3>2. CASE j \in m + 1..m + (n - 1)
      <4>1. /\ j \in m + 1..m + n /\ j + 1 \in m + 1..m + n /\ j - m \in 1..n - 1
            /\ j + 1 - m = j - m + 1
        BY <3>2
      <4>2. j < i <=> j - m < i - m
        BY SMTT(20), <1>2, <1>5, <3>2
      <4>3. t[j] = IF j < i THEN v[j - m] ELSE v[j - m + 1]
        BY <2>2, <2>4, <3>2, <4>1, <4>2
      <4>4. w[j] = v[j - m] /\ w[j + 1] = v[j + 1 - m]
        BY <1>2, <4>1
      <4>5. s[j] = IF j < i THEN w[j] ELSE w[j + 1]
        BY <2>5
      <4> QED BY <4>1, <4>3, <4>4, <4>5
    <3> QED BY <3>1, <3>2
  <2>7. m + (n - 1) = m + n - 1
    OBVIOUS
  <2>8. s = t
    BY <2>4, <2>5, <2>6, <2>7, SeqEqual
  <2>9. Lossy(u, u)
    BY DEF Lossy
  <2> QED BY <2>2, <2>3, <2>8, <2>9 DEF t
<1>6. \A i \in DOMAIN w : i <= m \/ i > m
  BY <1>2
<1> QED BY <1>3, <1>4, <1>5, <1>6 DEF Lossy
----------------------------------------------------------------------------
(* Order on a line from which a prefix goes, or to which a piece is added. *)

\* a piece that adds no message, and one that adds at most message c
Silent(t, c) == Piece(t, c) /\ (Len(t) > 0 => t[1] \notin 1..100) /\ Whole(t) = {}
Adds(t, c) ==
    /\ Piece(t, c) /\ (Len(t) > 0 /\ t[1] \in 1..100 => t[1] = c)
    /\ \A p \in Whole(t) : p = 1 /\ t[p + 1] = c

LEMMA SilentAdds ==
    ASSUME NEW t, NEW c, Silent(t, c)
    PROVE  Adds(t, c)
BY DEF Silent, Adds

LEMMA NothingSent ==
    ASSUME NEW s \in Seq(Nat), Lossy(s, <<>>), NEW c \in 0..100
    PROVE  Silent(s, c)
<1>1. <<>> \in Seq(Nat) /\ Len(<<>>) = 0 /\ DOMAIN <<>> = {}
  OBVIOUS
<1>2. Len(s) = 0
  BY <1>1 DEF Lossy
<1>3. c \in Nat
  OBVIOUS
<1>4. Piece(s, c) /\ Whole(s) = {}
  BY <1>2, <1>3, EmptyLine
<1>5. ~(Len(s) > 0)
  BY <1>2
<1> QED BY <1>4, <1>5 DEF Silent

LEMMA HandshakeSent ==
    ASSUME NEW x \in {0, RXRDY, RXFAIL}, NEW s \in Seq(Nat), Lossy(s, Frame(<<x, 0>>)),
           NEW c \in 0..100
    PROVE  Silent(s, c)
BY HandshakePiece DEF Silent

LEMMA MessageSent ==
    ASSUME NEW c \in 1..100, NEW s \in Seq(Nat), Lossy(s, Frame(Message(c)))
    PROVE  Adds(s, c) /\ (Len(s) > 0 => s[1] \notin 1..c - 1)
<1>1. /\ Piece(s, c) /\ s[1] \in {SOM, c}
      /\ \A p \in Whole(s) : p = 1 /\ s[p + 1] = c
  BY MessagePiece
<1>2. SOM \notin 1..100 /\ SOM \notin 1..c - 1 /\ c \notin 1..c - 1
  BY DEF SOM
<1> QED BY <1>1, <1>2 DEF Adds

LEMMA DroppedLater ==
    ASSUME NEW s \in Seq(Nat), NEW k \in 0..Len(s), NEW n \in 0..100, NEW V, Later(s, n, V)
    PROVE  Later(Drop(s, k), n, V)
<1> DEFINE t == Drop(s, k)
<1>1. PICK m \in Nat : m = Len(s)
  BY LenProperties
<1>2. k \in Nat /\ n \in Nat
  BY <1>1
<1>3. /\ Line(t, n)
      /\ \A p \in Whole(t) : /\ p + k \in Whole(s) /\ t[p + 1] = s[p + k + 1]
                             /\ p \in Nat /\ p + k \in Nat
  BY <1>2, LineDropped DEF Later
<1> HIDE DEF t
<1>4. ASSUME NEW p \in Whole(t), NEW q \in Whole(t), p < q PROVE t[p + 1] < t[q + 1]
  <2>1. p + k < q + k
    BY <1>2, <1>3, <1>4
  <2> QED BY <1>3, <2>1 DEF Later
<1>5. ASSUME NEW v \in V, NEW p \in Whole(t) PROVE v < t[p + 1]
  BY <1>3 DEF Later
<1> QED BY <1>3, <1>4, <1>5 DEF Later, t

LEMMA DroppedNotEarlier ==
    ASSUME NEW s \in Seq(Nat), NEW k \in 0..Len(s), NEW n \in 0..100, NEW V,
           NotEarlier(s, n, V)
    PROVE  NotEarlier(Drop(s, k), n, V)
<1> DEFINE t == Drop(s, k)
<1>1. PICK m \in Nat : m = Len(s)
  BY LenProperties
<1>2. k \in Nat /\ n \in Nat
  BY <1>1
<1>3. /\ Line(t, n)
      /\ \A p \in Whole(t) : /\ p + k \in Whole(s) /\ t[p + 1] = s[p + k + 1]
                             /\ p \in Nat /\ p + k \in Nat
  BY <1>2, LineDropped DEF NotEarlier
<1> HIDE DEF t
<1>4. ASSUME NEW p \in Whole(t), NEW q \in Whole(t), p < q PROVE t[p + 1] <= t[q + 1]
  <2>1. p + k < q + k
    BY <1>2, <1>3, <1>4
  <2> QED BY <1>3, <2>1 DEF NotEarlier
<1>5. ASSUME NEW v \in V, NEW p \in Whole(t) PROVE v <= t[p + 1]
  BY <1>3 DEF NotEarlier
<1> QED BY <1>3, <1>4, <1>5 DEF NotEarlier, t

\* the first message is taken: what follows comes after it
LEMMA FirstTaken ==
    ASSUME NEW s \in Seq(Nat), NEW k \in 1..Len(s), NEW n \in 0..100, NEW V,
           Later(s, n, V), 1 \in Whole(s)
    PROVE  /\ s[2] \in 1..n /\ \A v \in V : v < s[2]
           /\ Later(Drop(s, k), n, V \cup {s[2]})
<1> DEFINE t == Drop(s, k)
<1>1. PICK m \in Nat : m = Len(s)
  BY LenProperties
<1>2. k \in Nat /\ n \in Nat /\ k >= 1 /\ k \in 0..Len(s) /\ 1 + 1 = 2
  BY <1>1
<1>3. /\ Line(t, n)
      /\ \A p \in Whole(t) : /\ p + k \in Whole(s) /\ t[p + 1] = s[p + k + 1]
                             /\ p \in Nat /\ p >= 1 /\ p + k \in Nat
  BY <1>2, LineDropped DEF Later
<1>4. Later(t, n, V)
  BY <1>2, DroppedLater
<1>5. s[2] \in 1..n
  BY <1>2, WholeBounded DEF Later
<1>6. \A v \in V : v < s[2]
  BY <1>2 DEF Later
<1> HIDE DEF t
<1>7. ASSUME NEW p \in Whole(t) PROVE s[2] < t[p + 1]
  <2>1. 1 < p + k /\ p + k \in Whole(s)
    BY <1>2, <1>3
  <2>2. s[1 + 1] < s[p + k + 1]
    BY <2>1 DEF Later
  <2> QED BY <1>2, <1>3, <2>2
<1>8. V \cup {s[2]} \subseteq 0..n
  <2>1. V \subseteq 0..n
    BY <1>4 DEF Later
  <2>2. s[2] \in 0..n
    BY <1>2, <1>5
  <2> QED BY <2>1, <2>2
<1>9. Later(t, n, V \cup {s[2]})
  BY <1>3, <1>4, <1>7, <1>8 DEF Later
<1> QED BY <1>5, <1>6, <1>9 DEF t

LEMMA FirstRead ==
    ASSUME NEW s \in Seq(Nat), NEW k \in 1..Len(s), NEW n \in 0..100, NEW V,
           NotEarlier(s, n, V), 1 \in Whole(s)
    PROVE  /\ s[2] \in 1..n /\ \A v \in V : v <= s[2]
           /\ NotEarlier(Drop(s, k), n, V \cup {s[2]})
<1> DEFINE t == Drop(s, k)
<1>1. PICK m \in Nat : m = Len(s)
  BY LenProperties
<1>2. k \in Nat /\ n \in Nat /\ k >= 1 /\ k \in 0..Len(s) /\ 1 + 1 = 2
  BY <1>1
<1>3. /\ Line(t, n)
      /\ \A p \in Whole(t) : /\ p + k \in Whole(s) /\ t[p + 1] = s[p + k + 1]
                             /\ p \in Nat /\ p >= 1 /\ p + k \in Nat
  BY <1>2, LineDropped DEF NotEarlier
<1>4. NotEarlier(t, n, V)
  BY <1>2, DroppedNotEarlier
<1>5. s[2] \in 1..n
  BY <1>2, WholeBounded DEF NotEarlier
<1>6. \A v \in V : v <= s[2]
  BY <1>2 DEF NotEarlier
<1> HIDE DEF t
<1>7. ASSUME NEW p \in Whole(t) PROVE s[2] <= t[p + 1]
  <2>1. 1 < p + k /\ p + k \in Whole(s)
    BY <1>2, <1>3
  <2>2. s[1 + 1] <= s[p + k + 1]
    BY <2>1 DEF NotEarlier
  <2> QED BY <1>2, <1>3, <2>2
<1>8. V \cup {s[2]} \subseteq 0..n
  <2>1. V \subseteq 0..n
    BY <1>4 DEF NotEarlier
  <2>2. s[2] \in 0..n
    BY <1>2, <1>5
  <2> QED BY <2>1, <2>2
<1>9. NotEarlier(t, n, V \cup {s[2]})
  BY <1>3, <1>4, <1>7, <1>8 DEF NotEarlier
<1> QED BY <1>5, <1>6, <1>9 DEF t

\* 0 stands for what was no message; fewer numbers ask for less
LEMMA WithZero ==
    ASSUME NEW s \in Seq(Nat), NEW n \in 0..100, NEW V, NEW W, W \subseteq V \cup {0}
    PROVE  /\ Later(s, n, V) => Later(s, n, W)
           /\ NotEarlier(s, n, V) => NotEarlier(s, n, W)
<1>1. Line(s, n) => \A p \in Whole(s) : s[p + 1] \in 1..n
  BY WholeBounded
<1>2. V \subseteq 0..n => W \subseteq 0..n
  OBVIOUS
<1>3. \A x \in 1..n : 0 < x /\ 0 <= x
  OBVIOUS
<1>4. Later(s, n, V) => \A v \in W, p \in Whole(s) : v < s[p + 1]
  <2> SUFFICES ASSUME Later(s, n, V), NEW v \in W, NEW p \in Whole(s) PROVE v < s[p + 1]
    OBVIOUS
  <2>1. CASE v \in V
    BY <2>1 DEF Later
  <2>2. CASE v = 0
    BY <1>1, <1>3, <2>2 DEF Later
  <2> QED BY <2>1, <2>2
<1>5. NotEarlier(s, n, V) => \A v \in W, p \in Whole(s) : v <= s[p + 1]
  <2> SUFFICES ASSUME NotEarlier(s, n, V), NEW v \in W, NEW p \in Whole(s)
               PROVE  v <= s[p + 1]
    OBVIOUS
  <2>1. CASE v \in V
    BY <2>1 DEF NotEarlier
  <2>2. CASE v = 0
    BY <1>1, <1>3, <2>2 DEF NotEarlier
  <2> QED BY <2>1, <2>2
<1> QED BY <1>2, <1>4, <1>5 DEF Later, NotEarlier

LEMMA JoinedNotEarlier ==
    ASSUME NEW s \in Seq(Nat), NEW t \in Seq(Nat), NEW b \in 0..100, NEW c \in 0..100, b <= c,
           NEW V, NotEarlier(s, b, V), Adds(t, c)
    PROVE  NotEarlier(s \o t, c, V)
<1> DEFINE u == s \o t
<1>1. PICK m \in Nat : m = Len(s)
  BY LenProperties
<1>2. /\ Line(u, c)
      /\ \A p \in Whole(u) :
           \/ p \in Whole(s) /\ u[p + 1] = s[p + 1]
           \/ /\ p > Len(s) /\ p - Len(s) \in Whole(t)
              /\ u[p + 1] = t[p - Len(s) + 1]
           \/ /\ p = Len(s) - 2 /\ Len(t) > 0
              /\ u[p + 1] = t[1] /\ t[1] \in 1..b
  BY LineJoined DEF NotEarlier, Adds
<1> HIDE DEF u
<1>3. ASSUME NEW p \in Whole(u)
      PROVE  \/ p \in Whole(s) /\ u[p + 1] = s[p + 1] /\ p <= m - 3 /\ u[p + 1] \in 1..b
             \/ p >= m - 2 /\ u[p + 1] = c
  <2>1. CASE p \in Whole(s) /\ u[p + 1] = s[p + 1]
    <3>1. s[p + 1] \in 1..b /\ p \in 1..Len(s) - 3
      BY <2>1, WholeBounded DEF NotEarlier
    <3> QED BY <1>1, <2>1, <3>1
  <2>2. CASE p > Len(s) /\ p - Len(s) \in Whole(t) /\ u[p + 1] = t[p - Len(s) + 1]
    <3>1. u[p + 1] = c
      BY <2>2 DEF Adds
    <3>2. p \in Nat
      BY DEF Whole
    <3>3. p > m
      BY <1>1, <2>2
    <3>4. p >= m - 2
      BY <3>2, <3>3
    <3> QED BY <3>1, <3>4
  <2>3. CASE p = Len(s) - 2 /\ Len(t) > 0 /\ u[p + 1] = t[1] /\ t[1] \in 1..b
    <3>0. 1..b \subseteq 1..100
      OBVIOUS
    <3>1. t[1] \in 1..100
      BY <2>3, <3>0
    <3>2. t[1] = c
      BY <2>3, <3>1 DEF Adds
    <3> QED BY <1>1, <2>3, <3>2
  <2> QED BY <1>2, <2>1, <2>2, <2>3
<1>4. ASSUME NEW p \in Whole(u), NEW q \in Whole(u), p < q PROVE u[p + 1] <= u[q + 1]
  <2>0. p \in Nat /\ q \in Nat
    BY DEF Whole
  <2>1. CASE q \in Whole(s) /\ u[q + 1] = s[q + 1] /\ q <= m - 3
    <3>1. p \in Whole(s) /\ u[p + 1] = s[p + 1]
      BY <1>3, <1>4, <2>0, <2>1
    <3> QED BY <1>4, <2>1, <3>1 DEF NotEarlier
  <2>2. CASE u[q + 1] = c
    <3>1. u[p + 1] \in 1..b \/ u[p + 1] = c
      BY <1>3
    <3> QED BY <2>2, <3>1
  <2> QED BY <1>3, <2>1, <2>2
<1>5. ASSUME NEW v \in V, NEW p \in Whole(u) PROVE v <= u[p + 1]
  <2>1. v \in 0..b
    BY DEF NotEarlier
  <2>2. CASE p \in Whole(s) /\ u[p + 1] = s[p + 1]
    BY <2>2 DEF NotEarlier
  <2>3. CASE u[p + 1] = c
    BY <2>1, <2>3
  <2> QED BY <1>3, <2>2, <2>3
<1>6. V \subseteq 0..c
  <2>1. V \subseteq 0..b
    BY DEF NotEarlier
  <2> QED BY <2>1
<1>7. NotEarlier(u, c, V)
  BY <1>2, <1>4, <1>5, <1>6 DEF NotEarlier
<1> QED BY <1>7 DEF u

LEMMA JoinedLater ==
    ASSUME NEW s \in Seq(Nat), NEW t \in Seq(Nat), NEW b \in 0..100, NEW c \in 0..100, b <= c,
           NEW V, Later(s, b, V), Piece(t, c), Len(t) > 0 => t[1] \notin 1..b,
           \A p \in Whole(t) : p = 1 /\ t[p + 1] = c, b < c \/ Whole(t) = {}
    PROVE  Later(s \o t, c, V)
<1> DEFINE u == s \o t
<1>1. PICK m \in Nat : m = Len(s)
  BY LenProperties
<1>2. /\ Line(u, c)
      /\ \A p \in Whole(u) :
           \/ p \in Whole(s) /\ u[p + 1] = s[p + 1]
           \/ /\ p > Len(s) /\ p - Len(s) \in Whole(t)
              /\ u[p + 1] = t[p - Len(s) + 1]
           \/ /\ p = Len(s) - 2 /\ Len(t) > 0
              /\ u[p + 1] = t[1] /\ t[1] \in 1..b
  BY LineJoined DEF Later
<1> HIDE DEF u
<1>3. ASSUME NEW p \in Whole(u)
      PROVE  \/ p \in Whole(s) /\ u[p + 1] = s[p + 1] /\ p <= m - 3 /\ u[p + 1] \in 1..b
             \/ p = m + 1 /\ u[p + 1] = c /\ b < c
  <2>1. CASE p \in Whole(s) /\ u[p + 1] = s[p + 1]
    <3>1. s[p + 1] \in 1..b /\ p \in 1..Len(s) - 3
      BY <2>1, WholeBounded DEF Later
    <3> QED BY <1>1, <2>1, <3>1
  <2>2. CASE p > Len(s) /\ p - Len(s) \in Whole(t) /\ u[p + 1] = t[p - Len(s) + 1]
    <3>1. u[p + 1] = c /\ p - Len(s) = 1 /\ b < c
      BY <2>2
    <3>2. p \in Nat
      BY DEF Whole
    <3>3. p = m + 1
      BY <1>1, <3>1, <3>2
    <3> QED BY <3>1, <3>3
  <2> QED BY <1>2, <2>1, <2>2
<1>4. ASSUME NEW p \in Whole(u), NEW q \in Whole(u), p < q PROVE u[p + 1] < u[q + 1]
  <2>0. p \in Nat /\ q \in Nat
    BY DEF Whole
  <2>1. CASE q \in Whole(s) /\ u[q + 1] = s[q + 1] /\ q <= m - 3
    <3>1. p \in Whole(s) /\ u[p + 1] = s[p + 1]
      BY <1>3, <1>4, <2>0, <2>1
    <3> QED BY <1>4, <2>1, <3>1 DEF Later
  <2>2. CASE q = m + 1 /\ u[q + 1] = c /\ b < c
    <3>1. u[p + 1] \in 1..b
      BY <1>3, <1>4, <2>0, <2>2
    <3> QED BY <2>2, <3>1
  <2> QED BY <1>3, <2>1, <2>2
<1>5. ASSUME NEW v \in V, NEW p \in Whole(u) PROVE v < u[p + 1]
  <2>1. v \in 0..b
    BY DEF Later
  <2>2. CASE p \in Whole(s) /\ u[p + 1] = s[p + 1]
    BY <2>2 DEF Later
  <2>3. CASE u[p + 1] = c /\ b < c
    BY <2>1, <2>3
  <2> QED BY <1>3, <2>2, <2>3
<1>6. V \subseteq 0..c
  <2>1. V \subseteq 0..b
    BY DEF Later
  <2> QED BY <2>1
<1>7. Later(u, c, V)
  BY <1>2, <1>4, <1>5, <1>6 DEF Later
<1> QED BY <1>7 DEF u
----------------------------------------------------------------------------
(* What the host reads.                                                    *)

LEMMA GotIs ==
    ASSUME NEW m \in Seq(Nat)
    PROVE  /\ Got(m) \in Nat
           /\ Got(m) # 0 => Holds(m) /\ Got(m) = m[1]
           /\ Holds(m) => Got(m) = m[1]
<1>1. ASSUME m = Message(m[1])
      PROVE  Len(m) = 3 /\ m[1] \in Nat /\ m[2] = 1 /\ m[3] = m[1]
  <2>1. Len(m) = 3
    BY <1>1 DEF Message
  <2>2. m[1] \in Nat
    <3>1. 1 \in 1..Len(m)
      BY <2>1
    <3> QED BY <3>1, ElementOfSeq
  <2>3. PICK a \in Nat : a = m[1] /\ m = <<a, 1, a>>
    BY <1>1, <2>2 DEF Message
  <2>4. m[2] = 1 /\ m[3] = a
    BY <2>3
  <2> QED BY <2>1, <2>2, <2>3, <2>4
<1>2. ASSUME Holds(m) PROVE m = Message(m[1])
  <2>1. Len(m) = 3 /\ m[2] = 1 /\ m[3] = m[1]
    BY <1>2 DEF Holds
  <2>2. PICK a \in Nat : a = m[1]
    <3>1. 1 \in 1..Len(m)
      BY <2>1
    <3> QED BY <3>1, ElementOfSeq
  <2> DEFINE t == <<a, 1, a>>
  <2>3. t \in Seq(Nat) /\ Len(t) = 3 /\ t[1] = a /\ t[2] = 1 /\ t[3] = a
    BY Tuples
  <2> HIDE DEF t
  <2>4. ASSUME NEW i \in 1..3 PROVE m[i] = t[i]
    <3>1. i = 1 \/ i = 2 \/ i = 3
      OBVIOUS
    <3> QED BY <2>1, <2>2, <2>3, <3>1
  <2>5. m = t
    BY <2>1, <2>3, <2>4, SeqEqual
  <2> QED BY <2>2, <2>5 DEF t, Message
<1>3. CASE m = Message(m[1])
  <2>1. Got(m) = m[1]
    BY <1>3 DEF Got
  <2> QED BY <1>1, <1>3, <2>1 DEF Holds
<1>4. CASE m # Message(m[1])
  <2>1. Got(m) = 0 /\ ~Holds(m)
    BY <1>2, <1>4 DEF Got
  <2> QED BY <2>1
<1> QED BY <1>3, <1>4

LEMMA FromStart ==
    ASSUME NEW s \in Seq(Nat)
    PROVE  /\ \E k \in 0..Len(s) : FromSom(s) = Drop(s, k)
           /\ FromSom(s) \in Seq(Nat)
           /\ Len(FromSom(s)) > 0 => FromSom(s)[1] = SOM
           /\ Len(s) > 0 /\ s[1] = SOM => FromSom(s) = s
<1> DEFINE I == {i \in DOMAIN s : s[i] = SOM /\ \A j \in 1..i - 1 : s[j] # SOM}
<1>1. PICK m \in Nat : m = Len(s) /\ DOMAIN s = 1..m
  BY LenProperties
<1>2. CASE I = {}
  <2>1. FromSom(s) = <<>>
    BY <1>2 DEF FromSom
  <2>2. Drop(s, m) \in Seq(Nat) /\ Len(Drop(s, m)) = 0
    <3>1. m \in 0..Len(s) /\ Len(s) - m = 0
      BY <1>1
    <3> QED BY <3>1, DropNat
  <2>3. Drop(s, m) = <<>>
    BY <2>2, EmptySeq
  <2>4. m \in 0..Len(s)
    BY <1>1
  <2>5. ~(Len(s) > 0 /\ s[1] = SOM)
    <3> SUFFICES ASSUME Len(s) > 0, s[1] = SOM PROVE FALSE
      OBVIOUS
    <3>1. 1 \in DOMAIN s /\ 1..1 - 1 = {}
      BY <1>1
    <3>2. 1 \in I
      BY <3>1
    <3> QED BY <1>2, <3>2
  <2>6. <<>> \in Seq(Nat) /\ ~(Len(<<>>) > 0)
    OBVIOUS
  <2> QED BY <2>1, <2>3, <2>4, <2>5, <2>6
<1>3. CASE I # {}
  <2> DEFINE c == CHOOSE i \in I : TRUE
  <2>1. c \in I
    BY <1>3
  <2>2. FromSom(s) = SubSeq(s, c, Len(s))
    BY <1>3 DEF FromSom
  <2> HIDE DEF c
  <2>3. c \in 1..m /\ s[c] = SOM /\ \A j \in 1..c - 1 : s[j] # SOM
    BY <1>1, <2>1
  <2> HIDE DEF I
  <2>4. c - 1 \in 0..Len(s) /\ c - 1 + 1 = c
    BY <1>1, <2>3
  <2>5. FromSom(s) = Drop(s, c - 1)
    BY <2>2, <2>4 DEF Drop
  <2>6. /\ Drop(s, c - 1) \in Seq(Nat) /\ Len(Drop(s, c - 1)) = Len(s) - (c - 1)
        /\ \A i \in 1..Len(s) - (c - 1) : Drop(s, c - 1)[i] = s[c - 1 + i]
    BY <2>4, DropNat
  <2>7. Drop(s, c - 1)[1] = SOM
    <3>1. 1 \in 1..Len(s) - (c - 1)
      BY <1>1, <2>3
    <3> QED BY <2>3, <2>4, <2>6, <3>1
  <2>8. s[1] = SOM => c = 1
    <3>1. c # 1 => 1 \in 1..c - 1
      BY <2>3
    <3> QED BY <2>3, <3>1
  <2>9. Drop(s, 0) = s /\ 1 - 1 = 0
    BY DropNone
  <2> QED BY <2>4, <2>5, <2>6, <2>7, <2>8, <2>9
<1> QED BY <1>2, <1>3

LEMMA FrameTaken ==
    ASSUME NEW s \in Seq(Nat), Complete(s), NEW n \in Nat, n = s[3]
    PROVE  LET m == SubSeq(s, 2, s[3] + 3)
           IN  /\ m \in Seq(Nat) /\ Len(m) = n + 2
               /\ \A i \in 1..n + 2 : m[i] = s[i + 1]
               /\ n + 3 \in 0..Len(s)
               /\ SubSeq(s, Len(m) + 2, Len(s)) = Drop(s, n + 3)
<1> DEFINE m == SubSeq(s, 2, s[3] + 3)
<1>1. PICK l \in Nat : l = Len(s) /\ l >= 3 /\ l >= n + 3
  BY LenProperties DEF Complete
<1>2. \A i \in 2..n + 3 : s[i] \in Nat
  BY <1>1, ElementOfSeq
<1>3. /\ m \in Seq(Nat) /\ Len(m) = IF 2 <= n + 3 THEN n + 3 - 2 + 1 ELSE 0
      /\ \A i \in 1..n + 3 - 2 + 1 : m[i] = s[2 + i - 1]
  <2>1. 2 \in Int /\ n + 3 \in Int
    OBVIOUS
  <2>2. /\ SubSeq(s, 2, n + 3) \in Seq(Nat)
        /\ Len(SubSeq(s, 2, n + 3)) = IF 2 <= n + 3 THEN n + 3 - 2 + 1 ELSE 0
        /\ \A i \in 1..n + 3 - 2 + 1 : SubSeq(s, 2, n + 3)[i] = s[2 + i - 1]
    BY <1>2, <2>1, SubSeqProperties
  <2> QED BY <2>2
<1> HIDE DEF m
<1>4. n + 3 - 2 + 1 = n + 2 /\ 2 <= n + 3 /\ \A i \in 1..n + 2 : 2 + i - 1 = i + 1
  OBVIOUS
<1>5. m \in Seq(Nat) /\ Len(m) = n + 2 /\ \A i \in 1..n + 2 : m[i] = s[i + 1]
  BY <1>3, <1>4
<1>6. n + 3 \in 0..Len(s) /\ Len(m) + 2 = n + 3 + 1
  BY SMTT(20), <1>1, <1>5
<1>7. SubSeq(s, Len(m) + 2, Len(s)) = Drop(s, n + 3)
  BY <1>6 DEF Drop
<1> QED BY <1>5, <1>6, <1>7 DEF m

\* what is buffered is the rest of what arrives, from a SOM on
LEMMA BufferedIs ==
    ASSUME TypeOK
    PROVE  /\ Buffered \in Seq(Nat) /\ \E k \in 0..Len(Arriving) : Buffered = Drop(Arriving, k)
           /\ Len(Buffered) > 0 => Buffered[1] = SOM
           /\ Len(Arriving) > 0 /\ Arriving[1] = SOM => Buffered = Arriving
<1>1. Arriving \in Seq(Nat) /\ Buffered = FromSom(Arriving)
  BY Lines DEF Buffered, Arriving
<1> QED BY <1>1, FromStart

LEMMA Fetched ==
    ASSUME NEW rest \in Seq(Nat), Get(rest)
    PROVE  /\ Arriving' = FromSom(rest) /\ rx_buf' \in Seq(Nat) /\ toHost' \in Seq(Nat)
<1>1. rx_buf' = FromSom(rest) /\ toHost' = <<>> /\ FromSom(rest) \in Seq(Nat)
  BY FromStart DEF Get
<1>2. FromSom(rest) \o <<>> = FromSom(rest)
  BY <1>1, ConcatEmptySeq
<1>3. <<>> \in Seq(Nat)
  OBVIOUS
<1> QED BY <1>1, <1>2, <1>3 DEF Arriving

LEMMA FrameRead ==
    ASSUME TypeOK, GetFrame
    PROVE  \E n \in Nat :
              /\ n = Buffered[3] /\ Buffered \in Seq(Nat) /\ Buffered[1] = SOM
              /\ Len(Buffered) >= 3 /\ n + 3 \in 1..Len(Buffered)
              /\ Taken \in Seq(Nat) /\ Len(Taken) = n + 2
              /\ \A i \in 1..n + 2 : Taken[i] = Buffered[i + 1]
              /\ Drop(Buffered, n + 3) \in Seq(Nat)
              /\ Arriving' = FromSom(Drop(Buffered, n + 3))
              /\ rx_buf' \in Seq(Nat) /\ toHost' \in Seq(Nat)
              /\ UNCHANGED <<up, sent, rx, tx, main>>
<1>1. Buffered \in Seq(Nat) /\ (Len(Buffered) > 0 => Buffered[1] = SOM)
  BY BufferedIs
<1>2. Complete(Buffered) /\ Get(SubSeq(Buffered, Len(Taken) + 2, Len(Buffered)))
  BY DEF GetFrame
<1>3. PICK l \in Nat : l = Len(Buffered) /\ l >= 3
  BY <1>1, <1>2, LenProperties DEF Complete
<1>4. PICK n \in Nat : n = Buffered[3]
  BY <1>1, <1>3, ElementOfSeq
<1>5. /\ Taken \in Seq(Nat) /\ Len(Taken) = n + 2
      /\ \A i \in 1..n + 2 : Taken[i] = Buffered[i + 1]
      /\ n + 3 \in 0..Len(Buffered)
      /\ SubSeq(Buffered, Len(Taken) + 2, Len(Buffered)) = Drop(Buffered, n + 3)
  BY <1>1, <1>2, <1>4, FrameTaken DEF Taken
<1>6. Drop(Buffered, n + 3) \in Seq(Nat)
  BY <1>1, <1>5, DropNat
<1>7. Get(Drop(Buffered, n + 3))
  BY <1>2, <1>5
<1>8. /\ Arriving' = FromSom(Drop(Buffered, n + 3)) /\ rx_buf' \in Seq(Nat) /\ toHost' \in Seq(Nat)
  BY <1>6, <1>7, Fetched
<1>9. UNCHANGED <<up, sent, rx, tx, main>>
  BY <1>7 DEF Get
<1>10. Buffered[1] = SOM /\ Len(Buffered) >= 3 /\ n + 3 \in 1..Len(Buffered)
  BY <1>1, <1>3, <1>5
<1> QED BY <1>1, <1>4, <1>5, <1>6, <1>8, <1>9, <1>10
----------------------------------------------------------------------------
(* Types, and what the device's framing relies on.                         *)

LEMMA ToDeviceTyped ==
    ASSUME TypeOK, NEW bytes \in Seq(Nat), Send(toDevice, bytes)
    PROVE  faults' \in Nat /\ toDevice' \in Seq(Nat)
<1>1. toDevice \in Seq(Nat) /\ faults \in Nat
  BY DEF TypeOK
<1>2. faults' \in Nat /\ \E s \in Seq(Nat) : toDevice' = toDevice \o s
  BY <1>1, SentToDevice
<1> QED BY <1>1, <1>2, ConcatNat

LEMMA ToHostTyped ==
    ASSUME TypeOK, NEW bytes \in Seq(Nat), Send(toHost, bytes)
    PROVE  faults' \in Nat /\ toHost' \in Seq(Nat)
<1>1. toHost \in Seq(Nat) /\ faults \in Nat
  BY DEF TypeOK
<1>2. faults' \in Nat /\ \E s \in Seq(Nat) : toHost' = toHost \o s
  BY <1>1, SentToHost
<1> QED BY <1>1, <1>2, ConcatNat

LEMMA Handshakes ==
    /\ Ack \in Seq(Nat) /\ Nack \in Seq(Nat) /\ Frame(tx_buf) \in Seq(Nat)
    /\ Ack \o Frame(tx_buf) \in Seq(Nat)
<1>1. RXRDY \in Nat /\ RXFAIL \in Nat /\ 0 \in Nat
  BY DEF RXRDY, RXFAIL
<1>2. Ack \in Seq(Nat) /\ Nack \in Seq(Nat) /\ Frame(tx_buf) \in Seq(Nat)
  BY <1>1, HandshakeFramed DEF Ack, Nack, tx_buf
<1> QED BY <1>2, ConcatNat

LEMMA Counted ==
    ASSUME TypeOK
    PROVE  sent \in 0..100 /\ made \in 0..100 /\ sent \in Nat /\ made \in Nat
BY UartAssumption DEF TypeOK

\* SerialGetCommand: what it sends, and what becomes of a frame half received
LEMMA CommandGot ==
    ASSUME TypeOK, NEW timedOut \in BOOLEAN, GetCommand(timedOut)
    PROVE  /\ faults' \in Nat /\ toHost' \in Seq(Nat)
           /\ \E a \in Seq(Nat), b \in Seq(Nat) :
                  /\ toHost' = (toHost \o a) \o b
                  /\ Lossy(a, IF timedOut THEN Nack ELSE <<>>)
                  /\ Lossy(b, IF SerialTxResendReq THEN SerialTxBuffer ELSE <<>>)
           /\ faults' = 0 =>
                  /\ faults = 0
                  /\ ~timedOut /\ ~SerialTxResendReq => toHost' = toHost
           /\ IF timedOut THEN toDevice = <<>> /\ Incoming' = <<>> ELSE Incoming' = Incoming
<1> DEFINE x == IF timedOut THEN Nack ELSE <<>>
           y == IF SerialTxResendReq THEN SerialTxBuffer ELSE <<>>
<1>1. x \in Seq(Nat) /\ y \in Seq(Nat) /\ toHost \in Seq(Nat) /\ faults \in Nat
  <2>1. <<>> \in Seq(Nat)
    OBVIOUS
  <2> QED BY <2>1, Handshakes DEF TypeOK
<1>2. Send(toHost, x \o y)
  BY DEF GetCommand
<1>3. x \o y \in Seq(Nat)
  BY <1>1, ConcatNat
<1>4. IF timedOut THEN toDevice = <<>> /\ Incoming' = <<>> ELSE Incoming' = Incoming
  <2>1. CASE timedOut
    <3>1. toDevice = <<>> /\ toDevice' = toDevice /\ SerialRxState' = "INBETWEEN"
      BY <2>1 DEF GetCommand, RxOverdue
    <3>2. Incoming' = <<>> \o <<>>
      BY <3>1 DEF Incoming, Part
    <3> QED BY <2>1, <3>1, <3>2
  <2>2. CASE ~timedOut
    <3>1. UNCHANGED <<toDevice, SerialRxState, SerialCmdId, SerialRxBuffer>>
      BY <2>2 DEF GetCommand
    <3> QED BY <2>2, <3>1 DEF Incoming, Part
  <2> QED BY <2>1, <2>2
<1> HIDE DEF x, y
<1>5. PICK s \in Seq(Nat) : /\ toHost' = toHost \o s /\ Lossy(s, x \o y)
                            /\ faults' = 0 => s = x \o y
  BY <1>1, <1>2, <1>3, SentToHost
<1>6. faults' \in Nat /\ (faults' = 0 => faults = 0)
  BY <1>1, <1>2, <1>3, SentToHost
<1>7. PICK a \in Seq(Nat), b \in Seq(Nat) : s = a \o b /\ Lossy(a, x) /\ Lossy(b, y)
  BY ZenonT(30), <1>1, <1>5, LossyJoined
<1>8. toHost' = (toHost \o a) \o b
  <2>1. toHost \o (a \o b) = (toHost \o a) \o b
    <3>1. toHost \in Seq(Nat)
      BY <1>1
    <3> QED BY <3>1, Regrouped
  <2> QED BY <1>5, <1>7, <2>1
<1>9. toHost' \in Seq(Nat)
  <2>1. toHost \o a \in Seq(Nat)
    BY <1>1, ConcatNat
  <2> QED BY <1>8, <2>1, ConcatNat
<1>10. ASSUME faults' = 0, ~timedOut, ~SerialTxResendReq PROVE toHost' = toHost
  <2>1. x = <<>> /\ y = <<>> /\ <<>> \o <<>> = <<>>
    BY <1>10 DEF x, y
  <2>2. toHost' = toHost \o <<>>
    BY <1>5, <1>10, <2>1
  <2> QED BY <1>1, <2>2, ConcatEmptySeq
<1> QED BY <1>4, <1>6, <1>7, <1>8, <1>9, <1>10 DEF x, y

LEMMA HostTyped ==
    ASSUME TypeOK, Framing, Write \/ AckMissed \/ AckLate \/ ReadStep \/ Stop
    PROVE  TypeOK' /\ Framing'
<1>1. ASSUME faults' \in Nat, toDevice' \in Seq(Nat), toHost' \in Seq(Nat), rx_buf' \in Seq(Nat),
             up' \in BOOLEAN, tx_stalled' \in BOOLEAN, sent' \in 0..MaxCommands,
             delivered' \in Seq(Nat), UNCHANGED <<rx, tx, main>>
      PROVE  TypeOK' /\ Framing'
  BY <1>1 DEF TypeOK, Framing, rx, tx, main
<1>2. CASE Write
  <2>1. sent + 1 \in Nat /\ sent + 1 \in 0..MaxCommands
    BY <1>2, UartAssumption DEF Write, TypeOK
  <2>2. Frame(Message(sent + 1)) \in Seq(Nat)
    BY <2>1, MessageFramed
  <2>3. faults' \in Nat /\ toDevice' \in Seq(Nat)
    BY <1>2, <2>2, ToDeviceTyped DEF Write
  <2> QED BY <1>1, <1>2, <2>1, <2>3 DEF Write, TypeOK
<1>3. CASE AckMissed
  BY <1>1, <1>3 DEF AckMissed, TypeOK
<1>4. CASE AckLate
  <2>1. faults' \in Nat
    BY <1>4 DEF AckLate, TypeOK
  <2> QED BY <1>1, <1>4, <2>1 DEF AckLate, TypeOK
<1>5. CASE ReadPart
  <2>1. rx_buf' \in Seq(Nat) /\ toHost' \in Seq(Nat)
    BY <1>5, BufferedIs, Fetched DEF ReadPart
  <2> QED BY <1>1, <1>5, <2>1 DEF ReadPart, Get, TypeOK
<1>6. CASE ReadAck
  <2>1. rx_buf' \in Seq(Nat) /\ toHost' \in Seq(Nat) /\ UNCHANGED <<up, sent, rx, tx, main>>
    BY <1>6, FrameRead DEF ReadAck
  <2> QED BY <1>1, <1>6, <2>1 DEF ReadAck, TypeOK
<1>7. CASE ReadNack
  <2>1. rx_buf' \in Seq(Nat) /\ toHost' \in Seq(Nat) /\ UNCHANGED <<up, sent, rx, tx, main>>
    BY <1>7, FrameRead DEF ReadNack
  <2>2. faults' \in Nat /\ toDevice' \in Seq(Nat)
    BY <1>7, Handshakes, ToDeviceTyped DEF ReadNack
  <2> QED BY <1>1, <1>7, <2>1, <2>2 DEF ReadNack, TypeOK
<1>8. CASE ReadMessage
  <2>1. /\ rx_buf' \in Seq(Nat) /\ toHost' \in Seq(Nat) /\ UNCHANGED <<up, sent, rx, tx, main>>
        /\ Taken \in Seq(Nat)
    BY <1>8, FrameRead DEF ReadMessage
  <2>2. faults' \in Nat /\ toDevice' \in Seq(Nat)
    BY <1>8, Handshakes, ToDeviceTyped DEF ReadMessage
  <2>3. delivered' \in Seq(Nat)
    <3>1. Got(Taken) \in Nat
      BY <2>1, GotIs
    <3>2. delivered' = Append(delivered, Got(Taken)) /\ delivered \in Seq(Nat)
      BY <1>8 DEF ReadMessage, TypeOK
    <3> QED BY <3>1, <3>2, AppendProperties
  <2> QED BY <1>1, <1>8, <2>1, <2>2, <2>3 DEF ReadMessage, TypeOK
<1>9. CASE ReadTimeout
  <2>1. faults' \in Nat /\ toDevice' \in Seq(Nat)
    BY <1>9, Handshakes, ToDeviceTyped DEF ReadTimeout
  <2>2. <<>> \in Seq(Nat)
    OBVIOUS
  <2> QED BY <1>1, <1>9, <2>1, <2>2 DEF ReadTimeout, TypeOK
<1>10. CASE Stop
  BY <1>1, <1>10 DEF Stop, TypeOK
<1> QED BY <1>2, <1>3, <1>4, <1>5, <1>6, <1>7, <1>8, <1>9, <1>10 DEF ReadStep

LEMMA InterruptTyped ==
    ASSUME TypeOK, Framing, Interrupt
    PROVE  TypeOK' /\ Framing'
<1>1. ASSUME toDevice' \in Seq(Nat), SerialRxState' \in States, SerialCmdId' \in Nat,
             SerialRxBuffer' \in Seq(Nat), SerialRxPending' \in BOOLEAN,
             SerialTxStalled' \in BOOLEAN, SerialTxResendReq' \in BOOLEAN,
             SerialTimeoutCount' \in Nat,
             UNCHANGED <<host, toHost, faults, SerialTxBuffer, main>>
      PROVE  TypeOK'
  BY <1>1 DEF TypeOK, host, main
<1>2. ASSUME SerialRxPending' => Len(SerialRxBuffer') >= 2, SerialRxPending => SerialRxPending',
             SerialRxState' = "DATA" =>
                 Len(SerialRxBuffer') >= 2 /\ Len(SerialRxBuffer') < SerialRxBuffer'[2] + 2,
             UNCHANGED <<SerialTxBuffer, main>>
      PROVE  Framing'
  BY <1>2 DEF Framing, main
<1>3. toDevice' \in Seq(Nat) /\ NextByte \in Nat
  <2>1. toDevice # <<>> /\ toDevice' = Tail(toDevice) /\ toDevice \in Seq(Nat)
    BY DEF Interrupt, FindStart, ReceiveId, ReceiveHandshake, ReceiveLength, ReceiveData, Receive,
           TypeOK
  <2> QED BY <2>1, HeadTailProperties DEF NextByte
<1>4. UNCHANGED <<host, toHost, faults, SerialTxBuffer, main>>
  BY DEF Interrupt, FindStart, ReceiveId, ReceiveHandshake, ReceiveLength, ReceiveData, Receive
<1>5. CASE FindStart
  <2>1. SerialRxState' \in States /\ SerialRxState' # "DATA"
    BY <1>5 DEF FindStart, Receive, States
  <2>2. UNCHANGED <<SerialCmdId, SerialRxBuffer, SerialRxPending, SerialTxStalled, SerialTxResendReq,
                    SerialTimeoutCount>>
    BY <1>5 DEF FindStart
  <2>3. TypeOK'
    BY <1>1, <1>3, <1>4, <2>1, <2>2 DEF TypeOK
  <2> QED BY <1>2, <1>4, <2>1, <2>2, <2>3 DEF Framing
<1>6. CASE ReceiveId
  <2>1. SerialRxState' \in States /\ SerialRxState' # "DATA" /\ SerialCmdId' = NextByte
    BY <1>6 DEF ReceiveId, Receive, States
  <2>2. UNCHANGED <<SerialRxBuffer, SerialRxPending, SerialTxStalled, SerialTxResendReq,
                    SerialTimeoutCount>>
    BY <1>6 DEF ReceiveId
  <2>3. TypeOK'
    BY <1>1, <1>3, <1>4, <2>1, <2>2 DEF TypeOK
  <2> QED BY <1>2, <1>4, <2>1, <2>2, <2>3 DEF Framing
<1>7. CASE ReceiveHandshake
  <2>1. /\ SerialRxState' \in States /\ SerialRxState' # "DATA"
        /\ SerialTxStalled' \in BOOLEAN /\ SerialTxResendReq' \in BOOLEAN /\ SerialTimeoutCount' \in Nat
    BY <1>7 DEF ReceiveHandshake, Receive, States, TypeOK
  <2>2. UNCHANGED <<SerialCmdId, SerialRxBuffer, SerialRxPending>>
    BY <1>7 DEF ReceiveHandshake
  <2>3. TypeOK'
    BY <1>1, <1>3, <1>4, <2>1, <2>2 DEF TypeOK
  <2> QED BY <1>2, <1>4, <2>1, <2>2, <2>3 DEF Framing
<1>8. CASE ReceiveLength
  <2>1. PICK a \in Nat, b \in Nat : a = SerialCmdId /\ b = NextByte
    BY <1>3 DEF TypeOK
  <2>2. SerialRxBuffer' = <<a, b>>
    BY <1>8, <2>1 DEF ReceiveLength
  <2>3. SerialRxBuffer' \in Seq(Nat) /\ Len(SerialRxBuffer') = 2 /\ SerialRxBuffer'[2] = b
    BY <2>2
  <2>4. SerialRxState' \in States /\ (SerialRxState' = "DATA" => b # 0)
    BY <1>8, <2>1 DEF ReceiveLength, Receive, States
  <2>6. SerialRxPending' \in BOOLEAN /\ (SerialRxPending => SerialRxPending')
    BY <1>8 DEF ReceiveLength, TypeOK
  <2>7. UNCHANGED <<SerialCmdId, SerialTxStalled, SerialTxResendReq, SerialTimeoutCount>>
    BY <1>8 DEF ReceiveLength
  <2>8. TypeOK'
    BY <1>1, <1>3, <1>4, <2>3, <2>4, <2>6, <2>7 DEF TypeOK
  <2>9. SerialRxState' = "DATA" =>
            Len(SerialRxBuffer') >= 2 /\ Len(SerialRxBuffer') < SerialRxBuffer'[2] + 2
    BY <2>1, <2>3, <2>4
  <2>10. Len(SerialRxBuffer') >= 2
    BY <2>3
  <2> QED BY <1>2, <1>4, <2>6, <2>8, <2>9, <2>10
<1>9. CASE ReceiveData
  <2>1. /\ SerialRxBuffer' \in Seq(Nat) /\ Len(SerialRxBuffer') = Len(SerialRxBuffer) + 1
        /\ \A i \in 1..Len(SerialRxBuffer) : SerialRxBuffer'[i] = SerialRxBuffer[i]
    BY <1>9, DataReceived
  <2>2. Len(SerialRxBuffer) >= 2 /\ Len(SerialRxBuffer) < SerialRxBuffer[2] + 2
    BY <1>9 DEF ReceiveData, Framing
  <2>3. PICK m \in Nat : m = Len(SerialRxBuffer)
    BY LenProperties DEF TypeOK
  <2>4. PICK l \in Nat : l = SerialRxBuffer[2]
    <3>1. 2 \in 1..Len(SerialRxBuffer)
      BY <2>2, <2>3
    <3> QED BY <3>1, ElementOfSeq DEF TypeOK
  <2>5. SerialRxBuffer'[2] = l /\ Len(SerialRxBuffer') = m + 1
    BY <2>1, <2>2, <2>3, <2>4
  <2>6. SerialRxState' = IF m + 1 = l + 2 THEN "INBETWEEN" ELSE "DATA"
    BY <1>9, <2>3, <2>4 DEF ReceiveData, Receive
  <2>7. SerialRxState' \in States
    BY <2>6 DEF States
  <2>8. SerialRxPending' \in BOOLEAN /\ (SerialRxPending => SerialRxPending')
    BY <1>9 DEF ReceiveData, TypeOK
  <2>9. UNCHANGED <<SerialCmdId, SerialTxStalled, SerialTxResendReq, SerialTimeoutCount>>
    BY <1>9 DEF ReceiveData
  <2>10. TypeOK'
    BY <1>1, <1>3, <1>4, <2>1, <2>7, <2>8, <2>9 DEF TypeOK
  <2>11. SerialRxState' = "DATA" =>
            Len(SerialRxBuffer') >= 2 /\ Len(SerialRxBuffer') < SerialRxBuffer'[2] + 2
    BY <2>2, <2>3, <2>4, <2>5, <2>6
  <2>12. Len(SerialRxBuffer') >= 2
    BY <2>2, <2>3, <2>5
  <2> QED BY <1>2, <1>4, <2>8, <2>10, <2>11, <2>12
<1> QED BY <1>5, <1>6, <1>7, <1>8, <1>9 DEF Interrupt

LEMMA MainTyped ==
    ASSUME TypeOK, Framing,
           SerialStep \/ WaitLate \/ \E timedOut \in BOOLEAN : Indicate(timedOut)
    PROVE  TypeOK' /\ Framing'
<1>1. ASSUME faults' \in Nat, toHost' \in Seq(Nat), SerialRxState' \in States,
             SerialRxPending' \in BOOLEAN, SerialTxStalled' \in BOOLEAN,
             SerialTxResendReq' \in BOOLEAN, SerialTxBuffer' \in Seq(Nat),
             SerialTimeoutCount' \in Nat, pc' \in {"loop", "run", "send", "ack"},
             return' \in {"loop", "ack"}, made' \in 0..MaxMessages, executed' \in Seq(Nat),
             UNCHANGED <<host, toDevice, SerialCmdId, SerialRxBuffer>>
      PROVE  TypeOK'
  BY <1>1 DEF TypeOK, host
<1>2. ASSUME SerialRxPending' => Len(SerialRxBuffer) >= 2, pc' = "run" => SerialRxPending',
             pc' = "send" => made' > 0,
             SerialRxState' \in {"INBETWEEN", SerialRxState}, UNCHANGED SerialRxBuffer,
             \/ Len(SerialTxBuffer') = 3 /\ \A i \in 1..3 : SerialTxBuffer'[i] = 0
             \/ /\ SerialTxBuffer'[2] \in 1..made'
                /\ SerialTxBuffer' = Frame(Message(SerialTxBuffer'[2]))
      PROVE  Framing'
  BY <1>2 DEF Framing
<1>3. ASSUME made' \in {made, made + 1}, UNCHANGED SerialTxBuffer
      PROVE  \/ Len(SerialTxBuffer') = 3 /\ \A i \in 1..3 : SerialTxBuffer'[i] = 0
             \/ /\ SerialTxBuffer'[2] \in 1..made'
                /\ SerialTxBuffer' = Frame(Message(SerialTxBuffer'[2]))
  <2>1. 1..made \subseteq 1..made'
    BY <1>3, Counted
  <2> QED BY <1>3, <2>1 DEF Framing
<1>4. ASSUME NEW timedOut \in BOOLEAN, GetCommand(timedOut)
      PROVE  /\ faults' \in Nat /\ toHost' \in Seq(Nat)
             /\ SerialRxState' \in States /\ SerialRxPending' \in BOOLEAN
             /\ SerialTxStalled' \in BOOLEAN /\ SerialTxResendReq' \in BOOLEAN
             /\ SerialTimeoutCount' \in Nat /\ SerialTxBuffer' \in Seq(Nat)
             /\ UNCHANGED <<host, toDevice, SerialCmdId, SerialRxBuffer, SerialTxBuffer>>
             /\ SerialRxPending' => SerialRxPending /\ Len(SerialRxBuffer) >= 2
             /\ SerialRxState' \in {"INBETWEEN", SerialRxState}
  <2>1. faults' \in Nat /\ toHost' \in Seq(Nat)
    BY <1>4, CommandGot
  <2>2. /\ SerialRxState' \in States /\ SerialRxPending' \in BOOLEAN
        /\ SerialTxStalled' \in BOOLEAN /\ SerialTxResendReq' \in BOOLEAN
        /\ SerialTimeoutCount' \in Nat /\ SerialTxBuffer' \in Seq(Nat)
    BY <1>4 DEF GetCommand, TypeOK, States
  <2>3. /\ UNCHANGED <<host, toDevice, SerialCmdId, SerialRxBuffer, SerialTxBuffer>>
        /\ SerialRxPending' => SerialRxPending /\ Len(SerialRxBuffer) >= 2
        /\ SerialRxState' \in {"INBETWEEN", SerialRxState}
    BY <1>4 DEF GetCommand, Framing
  <2> QED BY <2>1, <2>2, <2>3
<1>5. ASSUME NEW timedOut \in BOOLEAN, Poll(timedOut) PROVE TypeOK' /\ Framing'
  <2>1. /\ GetCommand(timedOut) /\ pc' = IF SerialRxPending' THEN "run" ELSE "loop"
        /\ UNCHANGED <<return, made, executed>>
    BY <1>5 DEF Poll
  <2>2. TypeOK'
    BY <1>1, <1>4, <2>1 DEF TypeOK
  <2>3. Framing'
    BY <1>2, <1>3, <1>4, <2>1
  <2> QED BY <2>2, <2>3
<1>6. ASSUME NEW timedOut \in BOOLEAN, NEW back \in {"loop", "ack"}, BeginMessage(timedOut, back),
             executed' \in Seq(Nat)
      PROVE  TypeOK' /\ Framing'
  <2>1. /\ GetCommand(timedOut) /\ pc' = "send" /\ return' = back
        /\ made < MaxMessages /\ made' = made + 1
    BY <1>6 DEF BeginMessage
  <2>2. made' \in 0..MaxMessages /\ made' > 0
    BY <2>1, UartAssumption DEF TypeOK
  <2>3. TypeOK'
    BY <1>1, <1>4, <1>6, <2>1, <2>2
  <2>4. Framing'
    BY <1>2, <1>3, <1>4, <2>1, <2>2
  <2> QED BY <2>3, <2>4
<1>7. ASSUME NEW timedOut \in BOOLEAN, Indicate(timedOut) PROVE TypeOK' /\ Framing'
  BY <1>6, <1>7 DEF Indicate, TypeOK
<1>8. ASSUME NEW timedOut \in BOOLEAN, Run(timedOut) PROVE TypeOK' /\ Framing'
  <2>1. executed' \in Seq(Nat)
    <3>1. Got(SerialRxBuffer) \in Nat
      BY GotIs DEF TypeOK
    <3>2. executed' = Append(executed, Got(SerialRxBuffer)) /\ executed \in Seq(Nat)
      BY <1>8 DEF Run, TypeOK
    <3> QED BY <3>1, <3>2, AppendProperties
  <2>2. CASE BeginMessage(timedOut, "ack")
    BY <1>6, <2>1, <2>2
  <2>3. CASE /\ ~timedOut /\ pc' = "ack"
             /\ UNCHANGED <<host, toDevice, toHost, faults, rx, tx, return, made>>
    <3>1. TypeOK'
      BY <1>1, <2>1, <2>3 DEF TypeOK, rx, tx
    <3>2. Framing'
      BY <2>3 DEF Framing, rx, tx
    <3> QED BY <3>1, <3>2
  <2> QED BY <1>8, <2>2, <2>3 DEF Run
<1>9. CASE AckCommand
  <2>1. faults' \in Nat /\ toHost' \in Seq(Nat)
    BY <1>9, Handshakes, ToHostTyped DEF AckCommand
  <2>2. TypeOK'
    BY <1>1, <1>9, <2>1 DEF AckCommand, TypeOK, tx
  <2>3. Framing'
    BY <1>9 DEF AckCommand, Framing, tx
  <2> QED BY <2>2, <2>3
<1>10. CASE WaitNoMore
  <2>1. TypeOK'
    BY <1>1, <1>10 DEF WaitNoMore, TypeOK, rx, main
  <2>2. Framing'
    BY <1>10 DEF WaitNoMore, Framing, rx, main
  <2> QED BY <2>1, <2>2
<1>11. CASE WaitResend
  <2>1. SerialTxBuffer \in Seq(Nat)
    BY DEF TypeOK
  <2>2. faults' \in Nat /\ toHost' \in Seq(Nat)
    BY <1>11, <2>1, ToHostTyped DEF WaitResend
  <2>3. TypeOK'
    BY <1>1, <1>11, <2>2 DEF WaitResend, TypeOK, rx, main
  <2>4. Framing'
    BY <1>11 DEF WaitResend, Framing, rx, main
  <2> QED BY <2>3, <2>4
<1>12. CASE WaitTimeout
  <2>1. SerialTimeoutCount' \in Nat
    BY <1>12 DEF WaitTimeout, TypeOK
  <2>2. TypeOK'
    BY <1>1, <1>12, <2>1 DEF WaitTimeout, TypeOK, rx, main
  <2>3. Framing'
    BY <1>12 DEF WaitTimeout, Framing, rx, main
  <2> QED BY <2>2, <2>3
<1>13. CASE WaitLate
  <2>1. SerialTimeoutCount' \in Nat /\ faults' \in Nat
    BY <1>13 DEF WaitLate, TypeOK
  <2>2. TypeOK'
    BY <1>1, <1>13, <2>1 DEF WaitLate, TypeOK, rx, main
  <2>3. Framing'
    BY <1>13 DEF WaitLate, Framing, rx, main
  <2> QED BY <2>2, <2>3
<1>14. CASE SendMessage
  <2>1. made \in Nat /\ made > 0 /\ made \in 1..made
    BY <1>14, Counted DEF SendMessage, Framing
  <2>2. /\ Frame(Message(made)) \in Seq(Nat) /\ Frame(Message(made))[2] = made
    <3>1. Frame(Message(made)) \in Seq(Nat) /\ Frame(Message(made))[1 + 1] = made
      BY <2>1, MessageFramed DEF IsMessage
    <3> QED BY <3>1
  <2>3. faults' \in Nat /\ toHost' \in Seq(Nat)
    BY <1>14, <2>2, ToHostTyped DEF SendMessage
  <2>4. pc' \in {"loop", "ack"} /\ SerialTxBuffer' = Frame(Message(made))
        /\ UNCHANGED <<host, toDevice, rx, SerialTxResendReq, SerialTimeoutCount, return, made,
                       executed>> /\ SerialTxStalled' = TRUE
    BY <1>14 DEF SendMessage, TypeOK
  <2>5. TypeOK'
    BY <1>1, <2>2, <2>3, <2>4 DEF TypeOK, rx
  <2>6. Framing'
    BY <1>2, <2>1, <2>2, <2>4 DEF Framing, rx
  <2> QED BY <2>5, <2>6
<1> QED BY <1>5, <1>7, <1>8, <1>9, <1>10, <1>11, <1>12, <1>13, <1>14 DEF SerialStep

LEMMA Typed ==
    ASSUME TypeOK, Framing, [Next]_vars
    PROVE  TypeOK' /\ Framing'
<1>1. CASE UNCHANGED vars
  BY <1>1 DEF TypeOK, Framing, vars, host, rx, tx, main
<1> QED BY <1>1, HostTyped, InterruptTyped, MainTyped DEF Next
----------------------------------------------------------------------------
(* Commands are executed in order.                                         *)

LEMMA SilentLater ==
    ASSUME NEW s \in Seq(Nat), NEW n \in 0..100, NEW V, Later(s, n, V),
           NEW t \in Seq(Nat), Silent(t, n)
    PROVE  Later(s \o t, n, V) /\ s \o t \in Seq(Nat)
<1>1. 1..n \subseteq 1..100 /\ n <= n
  OBVIOUS
<1>2. Piece(t, n) /\ (Len(t) > 0 => t[1] \notin 1..n) /\ Whole(t) = {}
  BY <1>1 DEF Silent
<1>3. Later(s \o t, n, V)
  BY <1>1, <1>2, JoinedLater
<1> QED BY <1>3, ConcatNat

LEMMA CommandsUndisturbed ==
    ASSUME CommandsRise, Later(Incoming', sent', Had), UNCHANGED <<executed, SerialRxBuffer>>,
           SerialRxPending' /\ ~Answering' => SerialRxPending /\ ~Answering
    PROVE  CommandsRise'
<1>1. Had' = Had
  BY DEF Had
<1> QED BY <1>1 DEF CommandsRise

\* what the host sends adds at most one command, the next
LEMMA HostCommands ==
    ASSUME TypeOK, CommandsRise, Write \/ AckMissed \/ AckLate \/ ReadStep \/ Stop
    PROVE  CommandsRise'
<1>1. /\ sent \in 0..100 /\ sent \in Nat /\ toDevice \in Seq(Nat) /\ faults \in Nat
      /\ Incoming \in Seq(Nat) /\ Later(Incoming, sent, Had)
  BY Counted, Lines DEF TypeOK, CommandsRise
<1>2. UNCHANGED <<rx, main>>
  BY FrameRead DEF Write, AckMissed, AckLate, ReadStep, ReadPart, ReadAck, ReadNack, ReadMessage,
                   ReadTimeout, Stop, GetFrame, Get
<1>3. UNCHANGED <<executed, SerialRxBuffer, SerialRxPending>> /\ Answering' = Answering
  BY <1>2 DEF rx, main, Answering
<1>4. ASSUME Later(Incoming', sent', Had) PROVE CommandsRise'
  BY <1>3, <1>4, CommandsUndisturbed
<1>5. CASE UNCHANGED <<sent, toDevice>>
  BY <1>1, <1>2, <1>4, <1>5, IncomingStays
<1>6. CASE Write
  <2>1. PICK c \in 1..100 : sent' = c /\ c = sent + 1 /\ Send(toDevice, Frame(Message(c)))
    <3>1. sent < MaxCommands /\ sent' = sent + 1 /\ Send(toDevice, Frame(Message(sent + 1)))
      BY <1>6 DEF Write
    <3>2. sent + 1 \in 1..100
      BY <1>1, <3>1, UartAssumption
    <3> QED BY <3>1, <3>2
  <2>2. c \in Nat /\ c \in 0..100 /\ sent <= c /\ sent < c /\ c - 1 = sent
    BY <1>1, <2>1
  <2>3. Frame(Message(c)) \in Seq(Nat)
    <3>1. c \in Nat
      BY <2>2
    <3> QED BY <3>1, MessageFramed
  <2>4. PICK s \in Seq(Nat) : toDevice' = toDevice \o s /\ Lossy(s, Frame(Message(c)))
    BY <1>1, <2>1, <2>3, SentToDevice
  <2>5. Adds(s, c) /\ (Len(s) > 0 => s[1] \notin 1..c - 1)
    BY <2>4, MessageSent
  <2>6. Piece(s, c) /\ \A p \in Whole(s) : p = 1 /\ s[p + 1] = c
    BY <2>5 DEF Adds
  <2>7. Later(Incoming \o s, c, Had)
    BY <1>1, <2>2, <2>5, <2>6, JoinedLater
  <2>8. Incoming' = Incoming \o s
    BY <1>2, <2>4, IncomingGrows
  <2> QED BY <1>4, <2>1, <2>7, <2>8
<1>7. ASSUME sent' = sent, NEW s \in Seq(Nat), toDevice' = toDevice \o s,
             Later(Incoming \o s, sent, Had)
      PROVE  CommandsRise'
  BY <1>2, <1>4, <1>7, IncomingGrows
<1>8. ASSUME sent' = sent, Send(toDevice, Ack) \/ Send(toDevice, Nack) PROVE CommandsRise'
  <2>1. PICK x \in {RXRDY, RXFAIL} : Send(toDevice, Frame(<<x, 0>>))
    BY <1>8 DEF Ack, Nack
  <2>2. Frame(<<x, 0>>) \in Seq(Nat)
    BY HandshakeFramed DEF RXRDY, RXFAIL
  <2>3. PICK s \in Seq(Nat) : toDevice' = toDevice \o s /\ Lossy(s, Frame(<<x, 0>>))
    BY <1>1, <2>1, <2>2, SentToDevice
  <2>4. Silent(s, sent)
    BY <1>1, <2>3, HandshakeSent
  <2> QED BY <1>1, <1>7, <1>8, <2>3, <2>4, SilentLater
<1>9. CASE ReadNack
  <2>1. PICK s \in Seq(Nat) : toDevice' = toDevice \o s /\ Lossy(s, Ack \o Frame(tx_buf))
    BY <1>1, <1>9, Handshakes, SentToDevice DEF ReadNack
  <2>2. PICK a \in Seq(Nat), b \in Seq(Nat) : s = a \o b /\ Lossy(a, Ack) /\ Lossy(b, Frame(tx_buf))
    BY <2>1, Handshakes, LossyJoined
  <2>3. Silent(a, sent) /\ Silent(b, sent)
    BY <1>1, <2>2, HandshakeSent DEF Ack, tx_buf
  <2>4. Later(Incoming \o a, sent, Had) /\ Incoming \o a \in Seq(Nat)
    BY <1>1, <2>3, SilentLater
  <2>5. Later((Incoming \o a) \o b, sent, Had)
    BY <1>1, <2>3, <2>4, SilentLater
  <2>6. (Incoming \o a) \o b = Incoming \o (a \o b)
    BY <1>1, Regrouped
  <2>7. sent' = sent
    BY <1>9, FrameRead DEF ReadNack
  <2> QED BY <1>7, <2>1, <2>2, <2>5, <2>6, <2>7
<1>10. CASE ReadMessage
  <2>1. sent' = sent
    BY <1>10, FrameRead DEF ReadMessage
  <2> QED BY <1>8, <1>10, <2>1 DEF ReadMessage
<1>11. CASE ReadTimeout
  BY <1>8, <1>11 DEF ReadTimeout
<1>12. CASE ReadAck
  <2>1. sent' = sent
    BY <1>12, FrameRead DEF ReadAck
  <2> QED BY <1>5, <1>12, <2>1 DEF ReadAck
<1>13. CASE ReadPart
  BY <1>5, <1>13 DEF ReadPart, Get
<1>14. CASE AckMissed \/ AckLate \/ Stop
  BY <1>5, <1>14 DEF AckMissed, AckLate, Stop
<1> QED BY <1>6, <1>9, <1>10, <1>11, <1>12, <1>13, <1>14 DEF ReadStep

\* a command that is received whole comes after all that were executed
LEMMA InterruptCommands ==
    ASSUME TypeOK, Framing, Framing', CommandsRise, Interrupt
    PROVE  CommandsRise'
<1>1. /\ sent \in 0..100 /\ Incoming \in Seq(Nat) /\ Later(Incoming, sent, Had)
      /\ UNCHANGED <<sent, executed>> /\ Answering' = Answering
  <2>1. UNCHANGED <<host, main>>
    BY DEF Interrupt, FindStart, ReceiveId, ReceiveHandshake, ReceiveLength, ReceiveData, Receive
  <2> QED BY <2>1, Counted, Lines DEF CommandsRise, host, main, Answering
<1>2. ASSUME NEW k \in 0..Len(Incoming), Incoming' = Drop(Incoming, k),
             UNCHANGED <<SerialRxBuffer, SerialRxPending>>
      PROVE  CommandsRise'
  BY <1>1, <1>2, DroppedLater, CommandsUndisturbed
<1>3. ASSUME UNCHANGED Incoming, UNCHANGED <<SerialRxBuffer, SerialRxPending>>
      PROVE  CommandsRise'
  BY <1>1, <1>3, CommandsUndisturbed
<1>4. ASSUME NEW k \in 0..Len(Incoming), Incoming' = Incoming \/ Incoming' = Drop(Incoming, k),
             ~Holds(SerialRxBuffer')
      PROVE  CommandsRise'
  <2>1. Had' \subseteq Had \cup {0}
    BY <1>1, <1>4 DEF Had
  <2>2. Later(Incoming', sent, Had) /\ Incoming' \in Seq(Nat)
    BY <1>1, <1>4, DroppedLater, DropNat
  <2>3. Later(Incoming', sent, Had')
    BY <1>1, <2>1, <2>2, WithZero
  <2> QED BY <1>1, <1>4, <2>3 DEF CommandsRise
<1>5. PICK l \in Nat : l = Len(Incoming)
  BY <1>1, LenProperties
<1>6. CASE FindStart
  <2>1. UNCHANGED <<SerialRxBuffer, SerialRxPending>>
    BY <1>6 DEF FindStart
  <2>2. Incoming' = Incoming \/ (Incoming' = Drop(Incoming, 1) /\ Len(Incoming) >= 1)
    BY <1>6, StartFound
  <2>3. Len(Incoming) >= 1 => 1 \in 0..Len(Incoming)
    BY <1>5
  <2> QED BY <1>2, <1>3, <2>1, <2>2, <2>3
<1>7. CASE ReceiveId
  BY <1>3, <1>7, IdReceived DEF ReceiveId
<1>8. CASE ReceiveHandshake
  <2>1. /\ Incoming' = Drop(Incoming, 3) /\ Len(Incoming) >= 3
        /\ UNCHANGED <<SerialRxBuffer, SerialRxPending>>
    BY <1>8, LengthReceived DEF ReceiveHandshake, Receive
  <2>2. 3 \in 0..Len(Incoming)
    BY <1>5, <2>1
  <2> QED BY <1>2, <2>1, <2>2
<1>9. CASE ReceiveLength
  <2>1. /\ Len(Incoming) >= 3
        /\ SerialRxState' = "INBETWEEN" => Incoming' = Drop(Incoming, 3)
        /\ SerialRxState' = "DATA" => Incoming' = Incoming
        /\ SerialRxBuffer' = <<SerialCmdId, NextByte>> /\ SerialRxState' \in {"INBETWEEN", "DATA"}
    BY <1>9, LengthReceived DEF ReceiveLength, Receive
  <2>2. ~Holds(SerialRxBuffer')
    BY <2>1 DEF Holds
  <2>3. 3 \in 0..Len(Incoming)
    BY <1>5, <2>1
  <2> QED BY <1>4, <2>1, <2>2, <2>3
<1>10. CASE ReceiveData
  <2> DEFINE m == SerialRxBuffer'
  <2>1. /\ m \in Seq(Nat)
        /\ Len(Incoming) > Len(m) /\ Incoming[1] = SOM
        /\ \A i \in 1..Len(m) : Incoming[i + 1] = m[i]
        /\ SerialRxState' = "INBETWEEN" => Incoming' = Drop(Incoming, Len(m) + 1)
        /\ SerialRxState' = "DATA" => Incoming' = Incoming
    BY <1>10, DataReceived
  <2>2. SerialRxState' \in {"INBETWEEN", "DATA"}
    BY <1>10 DEF ReceiveData, Receive
  <2>3. SerialRxState' = "DATA" => Len(m) < m[2] + 2
    BY DEF Framing
  <2>4. PICK n \in Nat : n = Len(m)
    BY <2>1, LenProperties
  <2>5. n + 1 \in 0..Len(Incoming) /\ n + 1 \in 1..Len(Incoming)
    BY <1>5, <2>1, <2>4
  <2>6. CASE ~Holds(m)
    BY <1>4, <2>1, <2>2, <2>4, <2>5, <2>6
  <2>7. CASE Holds(m)
    <3>1. Len(m) = 3 /\ m[1] # 0 /\ m[2] = 1 /\ m[3] = m[1]
      BY <2>7 DEF Holds
    <3>2. SerialRxState' = "INBETWEEN"
      BY <2>2, <2>3, <3>1
    <3>3. Incoming' = Drop(Incoming, n + 1)
      BY <2>1, <2>4, <3>2
    <3>4. Incoming[1 + 1] = m[1] /\ Incoming[2 + 1] = m[2] /\ Incoming[3 + 1] = m[3]
      BY <2>1, <3>1
    <3>5. 1 \in Whole(Incoming)
      <4>1. 1 \in 1..l - 3
        BY <1>5, <2>1, <3>1
      <4> QED BY <1>5, <2>1, <3>1, <3>4, <4>1 DEF Whole
    <3>6. /\ \A v \in Had : v < Incoming[2]
          /\ Later(Drop(Incoming, n + 1), sent, Had \cup {Incoming[2]})
      BY <1>1, <2>5, <3>5, FirstTaken
    <3>7. Incoming[2] = m[1]
      BY <3>4
    <3>8. Numbers(executed) \subseteq Had
      BY DEF Had
    <3>9. Had' \subseteq (Had \cup {Incoming[2]}) \cup {0}
      BY <1>1, <2>7, <3>7, <3>8 DEF Had
    <3>10. Later(Incoming', sent, Had')
      <4>1. Drop(Incoming, n + 1) \in Seq(Nat)
        BY <1>1, <2>5, DropNat
      <4> QED BY <1>1, <3>3, <3>6, <3>9, <4>1, WithZero
    <3>11. \A v \in Numbers(executed') : v < m[1]
      BY <1>1, <3>6, <3>7, <3>8
    <3> QED BY <1>1, <3>10, <3>11 DEF CommandsRise
  <2> QED BY <2>6, <2>7
<1> QED BY <1>6, <1>7, <1>8, <1>9, <1>10 DEF Interrupt

LEMMA MainCommands ==
    ASSUME TypeOK, Framing, CommandsRise,
           SerialStep \/ WaitLate \/ \E timedOut \in BOOLEAN : Indicate(timedOut)
    PROVE  CommandsRise'
<1>1. /\ sent \in 0..100 /\ sent \in Nat /\ Incoming \in Seq(Nat) /\ Later(Incoming, sent, Had)
  BY Counted, Lines DEF CommandsRise
<1>2. ASSUME Incoming' = Incoming \/ Incoming' = <<>>
      PROVE  Later(Incoming', sent, Had) /\ Incoming' \in Seq(Nat)
  <2>1. CASE Incoming' = <<>>
    <3>1. Len(Incoming') = 0 /\ Incoming' \in Seq(Nat)
      BY <2>1
    <3>2. Line(Incoming', sent) /\ Whole(Incoming') = {}
      BY <1>1, <3>1, EmptyLine
    <3> QED BY <1>1, <3>1, <3>2 DEF Later
  <2> QED BY <1>1, <1>2, <2>1
<1>3. ASSUME Incoming' = Incoming \/ Incoming' = <<>>, UNCHANGED <<sent, executed, SerialRxBuffer>>,
             SerialRxPending' /\ ~Answering' => SerialRxPending /\ ~Answering
      PROVE  CommandsRise'
  BY <1>2, <1>3, CommandsUndisturbed
<1>4. ASSUME NEW timedOut \in BOOLEAN, GetCommand(timedOut)
      PROVE  /\ Incoming' = Incoming \/ Incoming' = <<>>
             /\ UNCHANGED <<sent, SerialRxBuffer>> /\ (SerialRxPending' => SerialRxPending)
  BY <1>4, CommandGot DEF GetCommand, host
<1>5. ASSUME NEW timedOut \in BOOLEAN, Poll(timedOut) PROVE CommandsRise'
  <2>1. GetCommand(timedOut) /\ pc = "loop" /\ executed' = executed
    BY <1>5 DEF Poll
  <2> QED BY <1>3, <1>4, <2>1 DEF Answering
<1>6. ASSUME NEW timedOut \in BOOLEAN, Indicate(timedOut) PROVE CommandsRise'
  <2>1. GetCommand(timedOut) /\ pc = "loop" /\ executed' = executed
    BY <1>6 DEF Indicate, BeginMessage
  <2> QED BY <1>3, <1>4, <2>1 DEF Answering
<1>7. ASSUME NEW timedOut \in BOOLEAN, Run(timedOut) PROVE CommandsRise'
  <2> DEFINE k == Got(SerialRxBuffer)
  <2>1. /\ executed' = Append(executed, k) /\ executed \in Seq(Nat) /\ SerialRxPending /\ ~Answering
        /\ k \in Nat
    BY <1>7, GotIs DEF Run, TypeOK, Framing, Answering
  <2>2. /\ Incoming' = Incoming \/ Incoming' = <<>>
        /\ UNCHANGED <<sent, SerialRxBuffer>> /\ Answering'
    <3>1. CASE BeginMessage(timedOut, "ack")
      BY <1>4, <3>1 DEF BeginMessage, Answering
    <3>2. CASE ~timedOut /\ pc' = "ack"
               /\ UNCHANGED <<host, toDevice, toHost, faults, rx, tx, return, made>>
      <4>1. Incoming' = Incoming
        BY <3>2, IncomingStays
      <4> QED BY <3>2, <4>1 DEF host, rx, Answering
    <3> QED BY <1>7, <3>1, <3>2 DEF Run
  <2>3. k # 0 => Holds(SerialRxBuffer) /\ k = SerialRxBuffer[1]
    BY GotIs DEF TypeOK
  <2> HIDE DEF k
  <2>4. PICK n \in Nat : n = Len(executed) /\ DOMAIN executed = 1..n
    BY <2>1, LenProperties
  <2>5. /\ DOMAIN executed' = 1..n + 1
        /\ \A i \in 1..n : executed'[i] = executed[i]
        /\ executed'[n + 1] = k
    BY <2>1, <2>4, AppendProperties, LenProperties
  <2>6. \A i \in 1..n + 1 : i \in 1..n \/ i = n + 1
    OBVIOUS
  <2>7. Numbers(executed') \subseteq Numbers(executed) \cup {k}
    BY <2>4, <2>5, <2>6 DEF Numbers
  <2>8. k \in Had \cup {0}
    BY <2>3 DEF Had
  <2>9. Had' \subseteq Had \cup {0}
    BY <2>2, <2>7, <2>8 DEF Had
  <2>10. Later(Incoming', sent', Had')
    BY <1>1, <1>2, <2>2, <2>9, WithZero
  <2>11. ASSUME NEW i \in DOMAIN executed', NEW j \in DOMAIN executed', i < j,
                executed'[i] # 0, executed'[j] # 0
         PROVE  executed'[i] < executed'[j]
    <3>1. i \in 1..n
      BY <2>5, <2>6, <2>11
    <3>2. CASE j \in 1..n
      BY <2>4, <2>5, <2>11, <3>1, <3>2 DEF CommandsRise
    <3>3. CASE j = n + 1
      <4>1. k # 0 /\ executed'[j] = k
        BY <2>5, <2>11, <3>3
      <4>2. executed'[i] \in Numbers(executed)
        BY <2>4, <2>5, <3>1 DEF Numbers
      <4> QED BY <2>1, <2>3, <4>1, <4>2 DEF CommandsRise
    <3> QED BY <2>5, <2>6, <3>2, <3>3
  <2> QED BY <2>2, <2>10, <2>11 DEF CommandsRise
<1>8. CASE AckCommand
  <2>1. Part' = Part
    BY <1>8 DEF AckCommand, Part
  <2> QED BY <1>3, <1>8, <2>1 DEF AckCommand, host, Incoming
<1>9. CASE WaitNoMore \/ WaitResend \/ WaitTimeout \/ WaitLate
  <2>1. UNCHANGED <<host, rx, toDevice, main>>
    BY <1>9 DEF WaitNoMore, WaitResend, WaitTimeout, WaitLate
  <2>2. Incoming' = Incoming /\ Answering' = Answering
    BY <2>1, IncomingStays DEF Answering, main
  <2> QED BY <1>3, <2>1, <2>2 DEF host, rx, main
<1>10. CASE SendMessage
  <2>1. UNCHANGED <<host, rx, toDevice, executed, return>> /\ pc = "send" /\ pc' = return
    BY <1>10 DEF SendMessage
  <2>2. Incoming' = Incoming
    BY <2>1, IncomingStays
  <2>3. Answering => Answering'
    BY <2>1 DEF Answering
  <2> QED BY <1>3, <2>1, <2>2, <2>3 DEF host, rx
<1> QED BY <1>5, <1>6, <1>7, <1>8, <1>9, <1>10 DEF SerialStep
----------------------------------------------------------------------------
(* Messages are passed on in order.                                        *)

LEMMA AddsNotEarlier ==
    ASSUME NEW s \in Seq(Nat), NEW b \in 0..100, NEW c \in 0..100, b <= c, NEW V,
           NotEarlier(s, b, V), NEW t \in Seq(Nat), Adds(t, c)
    PROVE  NotEarlier(s \o t, c, V) /\ s \o t \in Seq(Nat)
BY JoinedNotEarlier, ConcatNat

LEMMA FromStartNotEarlier ==
    ASSUME NEW s \in Seq(Nat), NEW n \in 0..100, NEW V, NotEarlier(s, n, V)
    PROVE  NotEarlier(FromSom(s), n, V) /\ FromSom(s) \in Seq(Nat)
BY FromStart, DroppedNotEarlier

LEMMA RepeatedIs ==
    ASSUME TypeOK, Framing
    PROVE  /\ Repeated \in 0..100 /\ Repeated <= made
           /\ \A s \in Seq(Nat) : Lossy(s, SerialTxBuffer) => Adds(s, Repeated)
<1>1. made \in 0..100
  BY Counted
<1>2. CASE Len(SerialTxBuffer) = 3 /\ \A i \in 1..3 : SerialTxBuffer[i] = 0
  <2>1. Repeated = 0
    BY <1>2 DEF Repeated
  <2>2. ASSUME NEW s \in Seq(Nat), Lossy(s, SerialTxBuffer) PROVE Adds(s, 0)
    <3>1. 0 \in 0..100 /\ SerialTxBuffer \in Seq(Nat)
      BY DEF TypeOK
    <3>2. Silent(s, 0)
      BY <1>2, <2>2, <3>1, ZerosPiece DEF Silent
    <3> QED BY <3>2, SilentAdds
  <2> QED BY <1>1, <2>1, <2>2
<1>3. CASE Repeated \in 1..made /\ SerialTxBuffer = Frame(Message(Repeated))
  <2>1. Repeated \in 1..100
    BY <1>1, <1>3
  <2>2. \A s \in Seq(Nat) : Lossy(s, SerialTxBuffer) => Adds(s, Repeated)
    BY <1>3, <2>1, MessageSent
  <2> QED BY <1>1, <1>3, <2>1, <2>2
<1> QED BY <1>2, <1>3 DEF Framing, Repeated

LEMMA MessagesUndisturbed ==
    ASSUME MessagesRise, NotEarlier(Arriving', Repeated', Numbers(delivered)), UNCHANGED delivered
    PROVE  MessagesRise'
BY DEF MessagesRise

LEMMA HostMessages ==
    ASSUME TypeOK, Framing, MessagesRise, Write \/ AckMissed \/ AckLate \/ ReadStep \/ Stop
    PROVE  MessagesRise'
<1> DEFINE V == Numbers(delivered)
<1>1. /\ Arriving \in Seq(Nat) /\ Repeated \in 0..100 /\ NotEarlier(Arriving, Repeated, V)
      /\ delivered \in Seq(Nat)
  BY Lines, RepeatedIs DEF MessagesRise, TypeOK
<1>2. Repeated' = Repeated
  <2>1. UNCHANGED tx
    BY FrameRead DEF Write, AckMissed, AckLate, ReadStep, ReadPart, ReadAck, ReadNack, ReadMessage,
                     ReadTimeout, Stop, GetFrame, Get
  <2> QED BY <2>1 DEF tx, Repeated
<1>3. Buffered \in Seq(Nat) /\ NotEarlier(Buffered, Repeated, V)
  BY <1>1, BufferedIs, DroppedNotEarlier
<1> HIDE DEF V
<1>4. ASSUME NotEarlier(Arriving', Repeated, V), UNCHANGED delivered PROVE MessagesRise'
  BY <1>2, <1>4, MessagesUndisturbed DEF V
<1>5. CASE Write \/ AckMissed \/ AckLate \/ Stop
  <2>1. UNCHANGED <<rx_buf, toHost, delivered>>
    BY <1>5 DEF Write, AckMissed, AckLate, Stop
  <2>2. Arriving' = Arriving
    BY <2>1 DEF Arriving
  <2> QED BY <1>1, <1>4, <2>1, <2>2
<1>6. CASE ReadPart
  <2>1. Arriving' = FromSom(Buffered) /\ UNCHANGED delivered
    BY <1>3, <1>6, Fetched DEF ReadPart
  <2> QED BY <1>1, <1>3, <1>4, <2>1, FromStartNotEarlier
<1>7. CASE GetFrame /\ UNCHANGED delivered
  <2>1. PICK n \in Nat : /\ n + 3 \in 1..Len(Buffered) /\ Drop(Buffered, n + 3) \in Seq(Nat)
                         /\ Arriving' = FromSom(Drop(Buffered, n + 3))
    BY <1>7, FrameRead
  <2>2. n + 3 \in 0..Len(Buffered)
    BY <2>1
  <2>3. NotEarlier(Drop(Buffered, n + 3), Repeated, V)
    BY <1>1, <1>3, <2>2, DroppedNotEarlier
  <2>4. NotEarlier(Arriving', Repeated, V)
    BY <1>1, <2>1, <2>3, FromStartNotEarlier
  <2> QED BY <1>4, <1>7, <2>4
<1>8. CASE ReadMessage
  <2>1. PICK n \in Nat : /\ n = Buffered[3] /\ Buffered[1] = SOM
                         /\ Len(Buffered) >= 3 /\ n + 3 \in 1..Len(Buffered)
                         /\ Taken \in Seq(Nat) /\ Len(Taken) = n + 2
                         /\ \A i \in 1..n + 2 : Taken[i] = Buffered[i + 1]
                         /\ Drop(Buffered, n + 3) \in Seq(Nat)
                         /\ Arriving' = FromSom(Drop(Buffered, n + 3))
    BY <1>8, FrameRead DEF ReadMessage
  <2>2. delivered' = Append(delivered, Got(Taken))
    BY <1>8 DEF ReadMessage
  <2>3. PICK k \in Nat : k = Got(Taken) /\ (k # 0 => Holds(Taken) /\ k = Taken[1])
    BY <2>1, GotIs
  <2>4. n + 3 \in 0..Len(Buffered)
    BY <2>1
  <2>5. /\ \A v \in V : k # 0 => v <= k
        /\ NotEarlier(Arriving', Repeated, V \cup {k})
    <3>1. CASE k = 0
      <4>1. NotEarlier(Drop(Buffered, n + 3), Repeated, V)
        BY <1>1, <1>3, <2>4, DroppedNotEarlier
      <4>2. NotEarlier(Arriving', Repeated, V) /\ Arriving' \in Seq(Nat)
        BY <1>1, <2>1, <4>1, FromStartNotEarlier
      <4>3. V \cup {k} \subseteq V \cup {0}
        BY <3>1
      <4>4. NotEarlier(Arriving', Repeated, V \cup {k})
        BY <1>1, <4>2, <4>3, WithZero
      <4> QED BY <3>1, <4>4
    <3>2. CASE k # 0
      <4>1. Len(Taken) = 3 /\ Taken[1] = k /\ Taken[2] = 1 /\ Taken[3] = k
        BY <2>3, <3>2 DEF Holds
      <4>2. n = 1
        <5>1. n + 2 = 3
          BY <2>1, <4>1
        <5> QED BY <5>1
      <4>3. Buffered[1 + 1] = k /\ Buffered[2 + 1] = 1 /\ Buffered[3 + 1] = k
        BY <2>1, <4>1, <4>2
      <4>4. 1 \in Whole(Buffered)
        <5>1. PICK l \in Nat : l = Len(Buffered)
          BY <1>3, LenProperties
        <5>2. 1 \in 1..l - 3
          BY <2>1, <4>2, <5>1
        <5> QED BY <2>1, <3>2, <4>3, <5>1, <5>2 DEF Whole
      <4>5. /\ \A v \in V : v <= Buffered[2]
            /\ NotEarlier(Drop(Buffered, n + 3), Repeated, V \cup {Buffered[2]})
        BY <1>1, <1>3, <2>1, <4>4, FirstRead
      <4>6. Buffered[2] = k
        BY <4>3
      <4>7. NotEarlier(Arriving', Repeated, V \cup {k})
        BY <1>1, <2>1, <4>5, <4>6, FromStartNotEarlier
      <4> QED BY <4>5, <4>6, <4>7
    <3> QED BY <3>1, <3>2
  <2>6. PICK m \in Nat : m = Len(delivered) /\ DOMAIN delivered = 1..m
    BY <1>1, LenProperties
  <2>7. /\ DOMAIN delivered' = 1..m + 1
        /\ \A i \in 1..m : delivered'[i] = delivered[i]
        /\ delivered'[m + 1] = k
    BY <1>1, <2>2, <2>3, <2>6, AppendProperties, LenProperties
  <2>8. \A i \in 1..m + 1 : i \in 1..m \/ i = m + 1
    OBVIOUS
  <2>9. Numbers(delivered') = V \cup {k}
    BY <2>6, <2>7, <2>8 DEF Numbers, V
  <2>10. ASSUME NEW i \in DOMAIN delivered', NEW j \in DOMAIN delivered', i < j,
                delivered'[i] # 0, delivered'[j] # 0
         PROVE  delivered'[i] <= delivered'[j]
    <3>1. i \in 1..m
      BY <2>7, <2>8, <2>10
    <3>2. CASE j \in 1..m
      BY <2>6, <2>7, <2>10, <3>1, <3>2 DEF MessagesRise
    <3>3. CASE j = m + 1
      <4>1. k # 0 /\ delivered'[j] = k
        BY <2>7, <2>10, <3>3
      <4>2. delivered'[i] \in V
        BY <2>6, <2>7, <3>1 DEF Numbers, V
      <4> QED BY <2>5, <4>1, <4>2
    <3> QED BY <2>7, <2>8, <3>2, <3>3
  <2> QED BY <1>2, <2>5, <2>9, <2>10 DEF MessagesRise
<1>9. CASE ReadTimeout
  <2>1. Arriving' = <<>> \o <<>> /\ UNCHANGED delivered
    BY <1>9 DEF ReadTimeout, Arriving
  <2>2. Len(Arriving') = 0 /\ Arriving' \in Seq(Nat)
    BY <2>1
  <2>3. Repeated \in Nat
    BY <1>1
  <2>4. Line(Arriving', Repeated) /\ Whole(Arriving') = {}
    BY <2>2, <2>3, EmptyLine
  <2>5. NotEarlier(Arriving', Repeated, V)
    BY <1>1, <2>4 DEF NotEarlier
  <2> QED BY <1>4, <2>1, <2>5
<1>10. CASE ReadAck \/ ReadNack
  BY <1>7, <1>10 DEF ReadAck, ReadNack
<1> QED BY <1>5, <1>6, <1>8, <1>9, <1>10 DEF ReadStep

LEMMA DeviceMessages ==
    ASSUME TypeOK, Framing, MessagesRise,
           \/ Interrupt \/ SerialStep \/ WaitLate
           \/ \E timedOut \in BOOLEAN : Indicate(timedOut)
    PROVE  MessagesRise'
<1> DEFINE V == Numbers(delivered)
<1>1. /\ Arriving \in Seq(Nat) /\ toHost \in Seq(Nat) /\ rx_buf \in Seq(Nat) /\ faults \in Nat
      /\ Repeated \in 0..100 /\ Repeated <= Repeated
      /\ NotEarlier(Arriving, Repeated, V)
  <2>1. Repeated \in 0..100
    BY RepeatedIs
  <2> QED BY <2>1, Lines DEF MessagesRise, TypeOK
<1> HIDE DEF V
<1>2. ASSUME NotEarlier(Arriving', Repeated', V), UNCHANGED delivered PROVE MessagesRise'
  BY <1>2, MessagesUndisturbed DEF V
<1>3. ASSUME UNCHANGED <<rx_buf, toHost, delivered, SerialTxBuffer>> PROVE MessagesRise'
  <2>1. Arriving' = Arriving /\ Repeated' = Repeated
    BY <1>3 DEF Arriving, Repeated
  <2> QED BY <1>1, <1>2, <1>3, <2>1
<1>4. ASSUME NEW s \in Seq(Nat), NEW c \in 0..100, Repeated <= c, Repeated' = c, Adds(s, c),
             toHost' = toHost \o s, UNCHANGED <<rx_buf, delivered>>
      PROVE  MessagesRise'
  <2>1. NotEarlier(Arriving \o s, c, V)
    BY <1>1, <1>4, AddsNotEarlier
  <2>2. Arriving' = Arriving \o s
    BY <1>4, ArrivingGrows
  <2> QED BY <1>2, <1>4, <2>1, <2>2
<1>5. CASE Interrupt
  BY <1>3, <1>5
     DEF Interrupt, FindStart, ReceiveId, ReceiveHandshake, ReceiveLength, ReceiveData, Receive, host
<1>6. ASSUME NEW timedOut \in BOOLEAN, GetCommand(timedOut) PROVE MessagesRise'
  <2>1. PICK a \in Seq(Nat), b \in Seq(Nat) :
            /\ toHost' = (toHost \o a) \o b
            /\ Lossy(a, IF timedOut THEN Nack ELSE <<>>)
            /\ Lossy(b, IF SerialTxResendReq THEN SerialTxBuffer ELSE <<>>)
    BY <1>6, CommandGot
  <2>2. UNCHANGED <<rx_buf, delivered, SerialTxBuffer>>
    BY <1>6 DEF GetCommand, host
  <2>3. Adds(a, Repeated)
    <3>1. CASE timedOut
      BY <1>1, <2>1, <3>1, HandshakeSent, SilentAdds DEF Nack
    <3>2. CASE ~timedOut
      BY <1>1, <2>1, <3>2, NothingSent, SilentAdds
    <3> QED BY <3>1, <3>2
  <2>4. Adds(b, Repeated)
    <3>1. CASE SerialTxResendReq
      BY <2>1, <3>1, RepeatedIs
    <3>2. CASE ~SerialTxResendReq
      BY <1>1, <2>1, <3>2, NothingSent, SilentAdds
    <3> QED BY <3>1, <3>2
  <2>5. NotEarlier(Arriving \o a, Repeated, V) /\ Arriving \o a \in Seq(Nat)
    BY <1>1, <2>3, AddsNotEarlier
  <2>6. NotEarlier((Arriving \o a) \o b, Repeated, V)
    BY <1>1, <2>4, <2>5, AddsNotEarlier
  <2>7. Arriving' = (Arriving \o a) \o b
    <3>1. (toHost \o a) \o b = toHost \o (a \o b) /\ (Arriving \o a) \o b = Arriving \o (a \o b)
      BY ZenonT(30), <1>1, Regrouped
    <3>2. a \o b \in Seq(Nat)
      BY ConcatNat
    <3>3. Arriving' = Arriving \o (a \o b)
      BY <2>1, <2>2, <3>1, <3>2, ArrivingGrows
    <3> QED BY <3>1, <3>3
  <2>8. Repeated' = Repeated
    BY <2>2 DEF Repeated
  <2> QED BY <1>2, <2>2, <2>6, <2>7, <2>8
<1>7. ASSUME NEW timedOut \in BOOLEAN, Poll(timedOut) \/ Indicate(timedOut) PROVE MessagesRise'
  BY <1>6, <1>7 DEF Poll, Indicate, BeginMessage
<1>8. ASSUME NEW timedOut \in BOOLEAN, Run(timedOut) PROVE MessagesRise'
  BY <1>3, <1>6, <1>8 DEF Run, BeginMessage, host, tx
<1>9. CASE AckCommand
  <2>1. Send(toHost, Frame(<<RXRDY, 0>>)) /\ UNCHANGED <<rx_buf, delivered, SerialTxBuffer>>
    BY <1>9 DEF AckCommand, Ack, host, tx
  <2>2. Frame(<<RXRDY, 0>>) \in Seq(Nat)
    BY HandshakeFramed DEF RXRDY
  <2>3. PICK s \in Seq(Nat) : toHost' = toHost \o s /\ Lossy(s, Frame(<<RXRDY, 0>>))
    BY <1>1, <2>1, <2>2, SentToHost
  <2>4. Adds(s, Repeated)
    BY <1>1, <2>3, HandshakeSent, SilentAdds
  <2>5. Repeated' = Repeated
    BY <2>1 DEF Repeated
  <2> QED BY <1>1, <1>4, <2>1, <2>3, <2>4, <2>5
<1>10. CASE WaitResend
  <2>1. Send(toHost, SerialTxBuffer) /\ UNCHANGED <<rx_buf, delivered, SerialTxBuffer>>
    BY <1>10 DEF WaitResend, host
  <2>2. SerialTxBuffer \in Seq(Nat)
    BY DEF TypeOK
  <2>3. PICK s \in Seq(Nat) : toHost' = toHost \o s /\ Lossy(s, SerialTxBuffer)
    BY <1>1, <2>1, <2>2, SentToHost
  <2>4. Adds(s, Repeated)
    BY <2>3, RepeatedIs
  <2>5. Repeated' = Repeated
    BY <2>1 DEF Repeated
  <2> QED BY <1>1, <1>4, <2>1, <2>3, <2>4, <2>5
<1>11. CASE SendMessage
  <2>1. /\ Send(toHost, Frame(Message(made))) /\ UNCHANGED <<rx_buf, delivered>>
        /\ SerialTxBuffer' = Frame(Message(made))
    BY <1>11 DEF SendMessage, host
  <2>2. made \in 1..100 /\ made \in Nat
    BY <1>11, Counted DEF SendMessage, Framing
  <2>3. Frame(Message(made)) \in Seq(Nat) /\ Frame(Message(made))[1 + 1] = made
    BY <2>2, MessageFramed DEF IsMessage
  <2>4. PICK s \in Seq(Nat) : toHost' = toHost \o s /\ Lossy(s, Frame(Message(made)))
    BY <1>1, <2>1, <2>3, SentToHost
  <2>5. Adds(s, made)
    BY <2>2, <2>4, MessageSent
  <2>6. Repeated' = made
    BY <2>1, <2>3 DEF Repeated
  <2>7. Repeated <= made /\ made \in 0..100
    BY <2>2, RepeatedIs
  <2> QED BY <1>4, <2>1, <2>4, <2>5, <2>6, <2>7
<1>12. CASE WaitNoMore \/ WaitTimeout \/ WaitLate
  BY <1>3, <1>12 DEF WaitNoMore, WaitTimeout, WaitLate, host
<1> QED BY <1>5, <1>7, <1>8, <1>9, <1>10, <1>11, <1>12 DEF SerialStep

----------------------------------------------------------------------------
(* Theorems.                                                               *)

LEMMA StartsTyped ==
    ASSUME Init
    PROVE  TypeOK /\ Framing
<1>1. <<>> \in Seq(Nat) /\ <<0, 0, 0>> \in Seq(Nat)
  OBVIOUS
<1>2. 0 \in 0..MaxCommands /\ 0 \in 0..MaxMessages
  BY UartAssumption
<1>3. TypeOK
  BY ZenonT(30), <1>1, <1>2 DEF Init, TypeOK, States
<1>4. Len(<<0, 0, 0>>) = 3 /\ \A i \in 1..3 : <<0, 0, 0>>[i] = 0
  OBVIOUS
<1>5. Framing
  BY <1>4 DEF Init, Framing
<1> QED BY <1>3, <1>5

\* Bytes, states and counters keep their types on any line: the bound of each
\* history and what is in each buffer.
THEOREM TypesKept == Spec => [](TypeOK /\ Framing)
<1>1. Init => TypeOK /\ Framing
  BY StartsTyped
<1>2. TypeOK /\ Framing /\ [Next]_vars => (TypeOK /\ Framing)'
  BY Typed
<1> QED BY <1>1, <1>2, PTL DEF Spec

LEMMA OrderedAtFirst ==
    ASSUME Init
    PROVE  OrderInv
<1>1. TypeOK /\ Framing
  BY StartsTyped
<1>2. Incoming = <<>> \o <<>> /\ Arriving = <<>> \o <<>>
  BY DEF Init, Incoming, Part, Arriving
<1>3. /\ Len(Incoming) = 0 /\ Len(Arriving) = 0 /\ Incoming \in Seq(Nat) /\ Arriving \in Seq(Nat)
      /\ sent \in Nat /\ Repeated \in 0..100
  <2>1. <<>> \o <<>> = <<>> /\ Len(<<>>) = 0 /\ <<>> \in Seq(Nat)
    OBVIOUS
  <2>2. sent \in Nat /\ Repeated \in 0..100
    BY <1>1, Counted, RepeatedIs
  <2> QED BY <1>2, <2>1, <2>2
<1>4. /\ Line(Incoming, sent) /\ Whole(Incoming) = {}
      /\ Line(Arriving, Repeated) /\ Whole(Arriving) = {}
  <2>1. Repeated \in Nat
    BY <1>3
  <2>2. Line(Incoming, sent) /\ Whole(Incoming) = {}
    BY <1>3, EmptyLine
  <2>3. Line(Arriving, Repeated) /\ Whole(Arriving) = {}
    BY <1>3, <2>1, EmptyLine
  <2> QED BY <2>2, <2>3
<1>5. Numbers(executed) = {} /\ Numbers(delivered) = {}
  BY DEF Init, Numbers
<1>6. ~Holds(SerialRxBuffer) /\ DOMAIN executed = {} /\ DOMAIN delivered = {}
  BY DEF Init, Holds
<1>7. Later(Incoming, sent, Had)
  BY <1>4, <1>5, <1>6 DEF Later, Had
<1>8. NotEarlier(Arriving, Repeated, Numbers(delivered))
  BY <1>4, <1>5 DEF NotEarlier
<1> QED BY <1>1, <1>6, <1>7, <1>8 DEF OrderInv, CommandsRise, MessagesRise

LEMMA OrderKept ==
    ASSUME OrderInv, [Next]_vars
    PROVE  OrderInv'
<1>1. TypeOK /\ Framing /\ TypeOK' /\ Framing' /\ CommandsRise /\ MessagesRise
  BY Typed DEF OrderInv
<1>2. CASE UNCHANGED vars
  <2>1. Incoming' = Incoming /\ Arriving' = Arriving
    BY <1>2 DEF vars, host, rx, Incoming, Part, Arriving
  <2>2. Answering' = Answering /\ Had' = Had /\ Repeated' = Repeated
    BY <1>2 DEF vars, rx, tx, main, Answering, Had, Repeated
  <2>3. CommandsRise'
    BY <1>1, <1>2, <2>1, <2>2, CommandsUndisturbed DEF vars, host, rx, main, CommandsRise
  <2>4. MessagesRise'
    BY <1>1, <1>2, <2>1, <2>2, MessagesUndisturbed DEF vars, host, MessagesRise
  <2> QED BY <1>1, <2>3, <2>4 DEF OrderInv
<1>3. CASE Next
  <2>1. CommandsRise'
    BY <1>1, <1>3, HostCommands, InterruptCommands, MainCommands DEF Next
  <2>2. MessagesRise'
    BY <1>1, <1>3, HostMessages, DeviceMessages DEF Next
  <2> QED BY <1>1, <2>1, <2>2 DEF OrderInv
<1> QED BY <1>2, <1>3

\* Whatever is lost or late, no command is executed twice or after a later one,
\* and the host passes on no message before an earlier one: what MAC_Message
\* repeats is the last message, and uart_try_write never repeats any.
THEOREM OrderIsKept == Spec => []KeptInOrder
<1>1. Init => OrderInv
  BY OrderedAtFirst
<1>2. OrderInv /\ [Next]_vars => OrderInv'
  BY OrderKept
<1>3. OrderInv => KeptInOrder
  BY DEF OrderInv, CommandsRise, MessagesRise, KeptInOrder
<1> QED BY <1>1, <1>2, <1>3, PTL DEF Spec
----------------------------------------------------------------------------
(* What is on a line without faults.                                       *)

LEMMA ExactFirst ==
    ASSUME NEW s \in Seq(Nat), NEW n, Exact(s, n), Len(s) > 0
    PROVE  /\ s[1] = SOM /\ Len(s) >= 3
           /\ \/ s[2] = RXRDY /\ s[3] = 0 /\ Len(s) \in {3, 7}
              \/ s[2] = n /\ s[3] = 1 /\ s[4] = n /\ Len(s) \in {4, 7}
<1>1. Len(s) # 0
  OBVIOUS
<1>2. CASE IsAck(s, 1) /\ Len(s) \in {3, 7}
  <2>1. s[1] = SOM /\ s[1 + 1] = RXRDY /\ s[1 + 2] = 0
    BY <1>2 DEF IsAck
  <2> QED BY <1>2, <2>1
<1>3. CASE IsMessage(s, 1, n) /\ Len(s) \in {4, 7}
  <2>1. s[1] = SOM /\ s[1 + 1] = n /\ s[1 + 2] = 1 /\ s[1 + 3] = n
    BY <1>3 DEF IsMessage
  <2> QED BY <1>3, <2>1
<1> QED BY <1>1, <1>2, <1>3 DEF Exact

LEMMA ExactAckGone ==
    ASSUME NEW s \in Seq(Nat), NEW n, Exact(s, n), Len(s) >= 3, s[3] = 0
    PROVE  /\ s[2] = RXRDY /\ Drop(s, 3) \in Seq(Nat) /\ Exact(Drop(s, 3), n)
           /\ HasMessage(Drop(s, 3)) <=> HasMessage(s)
           /\ HasAck(s) /\ ~HasAck(Drop(s, 3))
<1>1. PICK m \in Nat : m = Len(s) /\ m >= 3
  BY LenProperties
<1> DEFINE t == Drop(s, 3)
<1>2. t \in Seq(Nat) /\ Len(t) = m - 3 /\ \A i \in 1..m - 3 : t[i] = s[3 + i]
  <2>1. 3 \in 0..Len(s)
    BY <1>1
  <2> QED BY <1>1, <2>1, DropNat
<1> HIDE DEF t
<1>3. s[2] = RXRDY /\ m \in {3, 7}
  <2>1. Len(s) > 0
    BY <1>1
  <2>2. \/ s[2] = RXRDY /\ s[3] = 0 /\ Len(s) \in {3, 7}
        \/ s[3] = 1
    BY <2>1, ExactFirst
  <2> QED BY <1>1, <2>2
<1>4. \/ m = 3
      \/ m = 7 /\ IsMessage(s, 4, n)
  <2>1. ~IsMessage(s, 1, n)
    <3>1. IsMessage(s, 1, n) => s[1 + 2] = 1
      BY DEF IsMessage
    <3> QED BY <3>1
  <2> QED BY <1>1, <1>3, <2>1 DEF Exact
<1>5. CASE m = 3
  <2>1. Len(t) = 0 /\ Len(s) = 3
    BY <1>1, <1>2, <1>5
  <2>2. Exact(t, n)
    BY <2>1 DEF Exact
  <2>3. ~HasMessage(t) /\ ~HasMessage(s) /\ HasAck(s) /\ ~HasAck(t)
    BY <2>1 DEF HasMessage, HasAck
  <2> QED BY <1>2, <1>3, <2>2, <2>3 DEF t
<1>6. CASE m = 7 /\ IsMessage(s, 4, n)
  <2>1. s[4] = SOM /\ s[4 + 1] = n /\ s[4 + 2] = 1 /\ s[4 + 3] = n
    BY <1>6 DEF IsMessage
  <2>2. Len(t) = 4 /\ t[1] = s[3 + 1] /\ t[2] = s[3 + 2] /\ t[3] = s[3 + 3] /\ t[4] = s[3 + 4]
    BY <1>2, <1>6
  <2>3. t[1] = SOM /\ t[1 + 1] = n /\ t[1 + 2] = 1 /\ t[1 + 3] = n
    BY <2>1, <2>2
  <2>4. IsMessage(t, 1, n)
    BY <2>3 DEF IsMessage
  <2>5. Exact(t, n)
    BY <2>2, <2>4 DEF Exact
  <2>6. Len(s) = 7
    BY <1>1, <1>6
  <2>7. HasMessage(t) /\ HasMessage(s) /\ HasAck(s) /\ ~HasAck(t)
    BY <2>2, <2>6 DEF HasMessage, HasAck
  <2> QED BY <1>2, <1>3, <2>5, <2>7 DEF t
<1> QED BY <1>4, <1>5, <1>6

LEMMA ExactMessageGone ==
    ASSUME NEW s \in Seq(Nat), NEW n, Exact(s, n), Len(s) >= 3, s[3] # 0
    PROVE  /\ s[2] = n /\ s[3] = 1 /\ s[4] = n /\ HasMessage(s) /\ Len(s) >= 4
           /\ Drop(s, 4) \in Seq(Nat) /\ \A k : Exact(Drop(s, 4), k)
           /\ ~HasMessage(Drop(s, 4)) /\ (HasAck(Drop(s, 4)) <=> HasAck(s))
<1>1. PICK m \in Nat : m = Len(s) /\ m >= 3
  BY LenProperties
<1>2. s[2] = n /\ s[3] = 1 /\ s[4] = n /\ m \in {4, 7}
  <2>1. Len(s) > 0
    BY <1>1
  <2> QED BY <1>1, <2>1, ExactFirst
<1> DEFINE t == Drop(s, 4)
<1>3. t \in Seq(Nat) /\ Len(t) = m - 4 /\ \A i \in 1..m - 4 : t[i] = s[4 + i]
  <2>1. 4 \in 0..Len(s)
    BY <1>1, <1>2
  <2> QED BY <1>1, <2>1, DropNat
<1> HIDE DEF t
<1>4. \/ m = 4
      \/ m = 7 /\ IsAck(s, 5)
  <2>1. ~IsAck(s, 1)
    <3>1. IsAck(s, 1) => s[1 + 2] = 0
      BY DEF IsAck
    <3> QED BY <3>1
  <2> QED BY <1>1, <1>2, <2>1 DEF Exact
<1>5. HasMessage(s) /\ Len(s) >= 4
  BY <1>1, <1>2 DEF HasMessage
<1>6. CASE m = 4
  <2>1. Len(t) = 0 /\ Len(s) = 4
    BY <1>1, <1>3, <1>6
  <2>2. \A k : Exact(t, k)
    BY <2>1 DEF Exact
  <2>3. ~HasMessage(t) /\ ~HasAck(s) /\ ~HasAck(t)
    BY <2>1 DEF HasMessage, HasAck
  <2> QED BY <1>2, <1>3, <1>5, <2>2, <2>3 DEF t
<1>7. CASE m = 7 /\ IsAck(s, 5)
  <2>1. s[5] = SOM /\ s[5 + 1] = RXRDY /\ s[5 + 2] = 0
    BY <1>7 DEF IsAck
  <2>2. Len(t) = 3 /\ t[1] = s[4 + 1] /\ t[2] = s[4 + 2] /\ t[3] = s[4 + 3]
    BY <1>3, <1>7
  <2>3. t[1] = SOM /\ t[1 + 1] = RXRDY /\ t[1 + 2] = 0
    BY <2>1, <2>2
  <2>4. IsAck(t, 1)
    BY <2>3 DEF IsAck
  <2>5. \A k : Exact(t, k)
    BY <2>2, <2>4 DEF Exact
  <2>6. Len(s) = 7
    BY <1>1, <1>7
  <2>7. ~HasMessage(t) /\ HasAck(s) /\ HasAck(t)
    BY <2>2, <2>6 DEF HasMessage, HasAck
  <2> QED BY <1>2, <1>3, <1>5, <2>5, <2>7 DEF t
<1> QED BY <1>4, <1>6, <1>7

LEMMA ExactOther ==
    ASSUME NEW s \in Seq(Nat), NEW n, Exact(s, n), ~HasMessage(s), NEW k
    PROVE  Exact(s, k)
BY DEF Exact, HasMessage

LEMMA ExactMessageAdded ==
    ASSUME NEW s \in Seq(Nat), NEW k, Exact(s, k), ~HasMessage(s), NEW n \in Nat
    PROVE  /\ s \o Frame(Message(n)) \in Seq(Nat) /\ Exact(s \o Frame(Message(n)), n)
           /\ HasMessage(s \o Frame(Message(n)))
           /\ HasAck(s \o Frame(Message(n))) <=> HasAck(s)
<1>1. PICK f \in Seq(Nat) : f = Frame(Message(n)) /\ Len(f) = 4 /\ IsMessage(f, 1, n)
  <2>1. /\ Frame(Message(n)) \in Seq(Nat) /\ Len(Frame(Message(n))) = 4
        /\ IsMessage(Frame(Message(n)), 1, n)
    BY MessageFramed
  <2> QED BY <2>1
<1>2. f[1] = SOM /\ f[2] = n /\ f[3] = 1 /\ f[4] = n
  <2>1. f[1] = SOM /\ f[1 + 1] = n /\ f[1 + 2] = 1 /\ f[1 + 3] = n
    BY <1>1 DEF IsMessage
  <2> QED BY <2>1
<1>3. PICK m \in Nat : m = Len(s)
  BY LenProperties
<1>4. PICK t \in Seq(Nat) : /\ t = s \o f /\ Len(t) = m + 4
                            /\ \A i \in 1..m : t[i] = s[i]
                            /\ \A i \in 1..4 : t[m + i] = f[i]
  <2>1. /\ s \o f \in Seq(Nat) /\ Len(s \o f) = Len(s) + Len(f)
        /\ \A i \in 1..Len(s) : (s \o f)[i] = s[i]
        /\ \A i \in 1..Len(f) : (s \o f)[Len(s) + i] = f[i]
    BY ConcatNat
  <2>2. PICK t \in Seq(Nat) : t = s \o f
    BY <2>1
  <2>3. /\ Len(t) = m + 4
        /\ \A i \in 1..m : t[i] = s[i]
        /\ \A i \in 1..4 : t[m + i] = f[i]
    BY <1>1, <1>3, <2>1, <2>2
  <2> QED BY <2>2, <2>3
<1>5. Len(s) = 0 \/ (Len(s) = 3 /\ IsAck(s, 1))
  BY DEF Exact, HasMessage
<1>6. CASE m = 0
  <2>1. t[0 + 1] = f[1] /\ t[0 + 2] = f[2] /\ t[0 + 3] = f[3] /\ t[0 + 4] = f[4]
    <3>1. \A i \in 1..4 : t[0 + i] = f[i]
      BY <1>4, <1>6
    <3> QED BY <3>1
  <2>2. t[1] = SOM /\ t[1 + 1] = n /\ t[1 + 2] = 1 /\ t[1 + 3] = n
    BY <1>2, <2>1
  <2>3. IsMessage(t, 1, n)
    BY <2>2 DEF IsMessage
  <2>4. Len(t) = 4 /\ Len(s) = 0
    BY <1>3, <1>4, <1>6
  <2>5. Exact(t, n)
    BY <2>3, <2>4 DEF Exact
  <2>6. HasMessage(t) /\ ~HasAck(t) /\ ~HasAck(s)
    BY <2>4 DEF HasMessage, HasAck
  <2> QED BY <1>1, <1>4, <2>5, <2>6
<1>7. CASE m = 3 /\ IsAck(s, 1)
  <2>1. t[3 + 1] = f[1] /\ t[3 + 2] = f[2] /\ t[3 + 3] = f[3] /\ t[3 + 4] = f[4]
    <3>1. \A i \in 1..4 : t[3 + i] = f[i]
      BY <1>4, <1>7
    <3> QED BY <3>1
  <2>2. t[4] = SOM /\ t[4 + 1] = n /\ t[4 + 2] = 1 /\ t[4 + 3] = n
    BY <1>2, <2>1
  <2>3. IsMessage(t, 4, n)
    BY <2>2 DEF IsMessage
  <2>4. IsAck(t, 1)
    <3>1. s[1] = SOM /\ s[1 + 1] = RXRDY /\ s[1 + 2] = 0
      BY <1>7 DEF IsAck
    <3>2. t[1] = s[1] /\ t[1 + 1] = s[1 + 1] /\ t[1 + 2] = s[1 + 2]
      <4>1. \A i \in 1..3 : t[i] = s[i]
        BY <1>4, <1>7
      <4> QED BY <4>1
    <3> QED BY <3>1, <3>2 DEF IsAck
  <2>5. Len(t) = 7 /\ Len(s) = 3
    BY <1>3, <1>4, <1>7
  <2>6. Exact(t, n)
    BY <2>3, <2>4, <2>5 DEF Exact
  <2>7. HasMessage(t) /\ HasAck(t) /\ HasAck(s)
    BY <2>5 DEF HasMessage, HasAck
  <2> QED BY <1>1, <1>4, <2>6, <2>7
<1> QED BY <1>3, <1>5, <1>6, <1>7

LEMMA ExactAckAdded ==
    ASSUME NEW s \in Seq(Nat), NEW n, Exact(s, n), ~HasAck(s)
    PROVE  /\ s \o Ack \in Seq(Nat) /\ Exact(s \o Ack, n) /\ HasAck(s \o Ack)
           /\ HasMessage(s \o Ack) <=> HasMessage(s)
<1>1. PICK f \in Seq(Nat) : f = Ack /\ Len(f) = 3 /\ f[1] = SOM /\ f[2] = RXRDY /\ f[3] = 0
  <2>1. RXRDY \in Nat
    BY DEF RXRDY
  <2> QED BY <2>1, HandshakeFramed DEF Ack
<1>3. PICK m \in Nat : m = Len(s)
  BY LenProperties
<1>4. PICK t \in Seq(Nat) : /\ t = s \o f /\ Len(t) = m + 3
                            /\ \A i \in 1..m : t[i] = s[i]
                            /\ \A i \in 1..3 : t[m + i] = f[i]
  <2>1. /\ s \o f \in Seq(Nat) /\ Len(s \o f) = Len(s) + Len(f)
        /\ \A i \in 1..Len(s) : (s \o f)[i] = s[i]
        /\ \A i \in 1..Len(f) : (s \o f)[Len(s) + i] = f[i]
    BY ConcatNat
  <2>2. PICK t \in Seq(Nat) : t = s \o f
    BY <2>1
  <2>3. /\ Len(t) = m + 3
        /\ \A i \in 1..m : t[i] = s[i]
        /\ \A i \in 1..3 : t[m + i] = f[i]
    BY <1>1, <1>3, <2>1, <2>2
  <2> QED BY <2>2, <2>3
<1>5. Len(s) = 0 \/ (Len(s) = 4 /\ IsMessage(s, 1, n))
  BY DEF Exact, HasAck
<1>6. CASE m = 0
  <2>1. t[0 + 1] = f[1] /\ t[0 + 2] = f[2] /\ t[0 + 3] = f[3]
    <3>1. \A i \in 1..3 : t[0 + i] = f[i]
      BY <1>4, <1>6
    <3> QED BY <3>1
  <2>2. t[1] = SOM /\ t[1 + 1] = RXRDY /\ t[1 + 2] = 0
    BY <1>1, <2>1
  <2>3. IsAck(t, 1)
    BY <2>2 DEF IsAck
  <2>4. Len(t) = 3 /\ Len(s) = 0
    BY <1>3, <1>4, <1>6
  <2>5. Exact(t, n)
    BY <2>3, <2>4 DEF Exact
  <2>6. HasAck(t) /\ ~HasMessage(t) /\ ~HasMessage(s)
    BY <2>4 DEF HasMessage, HasAck
  <2> QED BY <1>1, <1>4, <2>5, <2>6
<1>7. CASE m = 4 /\ IsMessage(s, 1, n)
  <2>1. t[4 + 1] = f[1] /\ t[4 + 2] = f[2] /\ t[4 + 3] = f[3]
    <3>1. \A i \in 1..3 : t[4 + i] = f[i]
      BY <1>4, <1>7
    <3> QED BY <3>1
  <2>2. t[5] = SOM /\ t[5 + 1] = RXRDY /\ t[5 + 2] = 0
    BY <1>1, <2>1
  <2>3. IsAck(t, 5)
    BY <2>2 DEF IsAck
  <2>4. IsMessage(t, 1, n)
    <3>1. s[1] = SOM /\ s[1 + 1] = n /\ s[1 + 2] = 1 /\ s[1 + 3] = n
      BY <1>7 DEF IsMessage
    <3>2. t[1] = s[1] /\ t[1 + 1] = s[1 + 1] /\ t[1 + 2] = s[1 + 2] /\ t[1 + 3] = s[1 + 3]
      <4>1. \A i \in 1..4 : t[i] = s[i]
        BY <1>4, <1>7
      <4> QED BY <4>1
    <3> QED BY <3>1, <3>2 DEF IsMessage
  <2>5. Len(t) = 7 /\ Len(s) = 4
    BY <1>3, <1>4, <1>7
  <2>6. Exact(t, n)
    BY <2>3, <2>4, <2>5 DEF Exact
  <2>7. HasMessage(t) /\ HasAck(t) /\ HasMessage(s)
    BY <2>5 DEF HasMessage, HasAck
  <2> QED BY <1>1, <1>4, <2>6, <2>7
<1> QED BY <1>3, <1>5, <1>6, <1>7

\* A frame of which the device has a part is still arriving.
LEMMA PartIncomplete ==
    ASSUME TypeOK, Framing, NEW n, Exact(Incoming, n), toDevice = <<>>
    PROVE  Len(Incoming) = 0 /\ SerialRxState = "INBETWEEN"
<1>1. /\ Part \in Seq(Nat) /\ Incoming = Part \o toDevice /\ Incoming \in Seq(Nat)
  BY Lines
<1>2. Incoming = Part
  BY <1>1, ConcatEmptySeq
<1>3. CASE SerialRxState = "INBETWEEN"
  BY <1>2, <1>3 DEF Part
<1>4. CASE SerialRxState = "CMDID"
  <2>1. Len(Incoming) = 1
    BY <1>2, <1>4 DEF Part
  <2> QED BY <1>1, <2>1, ExactFirst
<1>5. CASE SerialRxState = "CMDLEN"
  <2>1. Len(Incoming) = 2
    BY <1>2, <1>5 DEF Part
  <2> QED BY SMTT(20), <1>1, <2>1, ExactFirst
<1>6. CASE SerialRxState = "DATA"
  <2>1. /\ Len(SerialRxBuffer) >= 2 /\ Len(SerialRxBuffer) < SerialRxBuffer[2] + 2
        /\ SerialRxBuffer \in Seq(Nat)
    BY <1>6 DEF Framing, TypeOK
  <2>2. PICK l \in Nat : l = Len(SerialRxBuffer) /\ l >= 2
    BY <2>1, LenProperties
  <2>3. Incoming = Frame(SerialRxBuffer)
    BY <1>2, <1>6 DEF Part, Frame
  <2>4. Len(Incoming) = l + 1 /\ \A i \in 1..l : Incoming[i + 1] = SerialRxBuffer[i]
    BY <2>1, <2>2, <2>3, Framed
  <2>5. Incoming[2 + 1] = SerialRxBuffer[2]
    BY <2>2, <2>4
  <2>6. /\ Len(Incoming) > 0
        /\ \/ Incoming[3] = 0
           \/ Incoming[3] = 1 /\ Len(Incoming) >= 4
    <3>1. Len(Incoming) > 0
      BY <2>2, <2>4
    <3> QED BY <1>1, <3>1, ExactFirst
  <2> QED BY <2>1, <2>2, <2>4, <2>5, <2>6
<1> QED BY <1>3, <1>4, <1>5, <1>6 DEF TypeOK, States
----------------------------------------------------------------------------
(* Without faults a message is acknowledged only when it has been handled. *)

LEMMA NoFaultYet ==
    ASSUME TypeOK, Next, faults' = 0
    PROVE  faults = 0
<1>1. /\ faults \in Nat /\ faults + 1 # 0 /\ SerialTxBuffer \in Seq(Nat)
      /\ sent + 1 \in Nat /\ made \in Nat
  BY Counted DEF TypeOK
<1>2. Frame(Message(sent + 1)) \in Seq(Nat) /\ Frame(Message(made)) \in Seq(Nat)
  BY <1>1, MessageFramed
<1>3. ASSUME NEW bytes \in Seq(Nat), Send(toDevice, bytes) \/ Send(toHost, bytes) PROVE faults = 0
  BY <1>1, <1>3, SentToDevice, SentToHost
<1>4. CASE Write \/ ReadNack \/ ReadMessage \/ ReadTimeout
  BY <1>2, <1>3, <1>4, Handshakes DEF Write, ReadNack, ReadMessage, ReadTimeout
<1>5. CASE AckCommand \/ WaitResend \/ SendMessage
  BY <1>1, <1>2, <1>3, <1>5, Handshakes DEF AckCommand, WaitResend, SendMessage
<1>6. CASE AckLate \/ WaitLate
  BY <1>1, <1>6 DEF AckLate, WaitLate
<1>7. CASE AckMissed \/ ReadPart \/ ReadAck \/ Stop
  BY <1>7 DEF AckMissed, ReadPart, ReadAck, Stop
<1>8. CASE Interrupt
  BY <1>8 DEF Interrupt, FindStart, ReceiveId, ReceiveHandshake, ReceiveLength, ReceiveData, Receive
<1>9. CASE WaitNoMore \/ WaitTimeout
  BY <1>9 DEF WaitNoMore, WaitTimeout
<1>10. ASSUME NEW timedOut \in BOOLEAN, GetCommand(timedOut) PROVE faults = 0
  BY <1>10, CommandGot
<1>11. CASE \E timedOut \in BOOLEAN : Poll(timedOut) \/ Run(timedOut) \/ Indicate(timedOut)
  BY <1>10, <1>11 DEF Poll, Run, Indicate, BeginMessage
<1> QED BY <1>4, <1>5, <1>6, <1>7, <1>8, <1>9, <1>11 DEF Next, ReadStep, SerialStep

LEMMA OneMore ==
    ASSUME NEW s \in Seq(Nat), \A i \in DOMAIN s : s[i] = i, NEW n, n = Len(s) + 1
    PROVE  /\ \A i \in DOMAIN Append(s, n) : Append(s, n)[i] = i
           /\ Len(Append(s, n)) = n
<1>1. PICK m \in Nat : m = Len(s) /\ DOMAIN s = 1..m
  BY LenProperties
<1>2. n \in Nat /\ n = m + 1
  BY <1>1
<1>3. /\ Append(s, n) \in Seq(Nat) /\ Len(Append(s, n)) = m + 1
      /\ \A i \in 1..m : Append(s, n)[i] = s[i]
      /\ Append(s, n)[m + 1] = n
  BY <1>1, <1>2, AppendProperties
<1>4. DOMAIN Append(s, n) = 1..m + 1
  BY <1>3, LenProperties
<1>5. \A i \in 1..m + 1 : i \in 1..m \/ i = m + 1
  BY <1>1
<1> QED BY <1>1, <1>2, <1>3, <1>4, <1>5

LEMMA FromStartExact ==
    ASSUME NEW s \in Seq(Nat), NEW n, Exact(s, n)
    PROVE  FromSom(s) = s
<1>1. CASE Len(s) > 0
  BY <1>1, ExactFirst, FromStart
<1>2. CASE Len(s) = 0
  <2>1. PICK k \in 0..Len(s) : FromSom(s) = Drop(s, k)
    BY FromStart
  <2>2. k = 0
    BY <1>2, <2>1
  <2> QED BY <2>1, <2>2, DropNone
<1>3. Len(s) \in Nat
  BY LenProperties
<1> QED BY <1>1, <1>2, <1>3

LEMMA WrittenIs ==
    ASSUME TypeOK, Framing
    PROVE  Written \in 0..100
BY Counted DEF Framing, Written

\* what the host finds is whole, and an acknowledgement or the next message
LEMMA FrameReadExactly ==
    ASSUME TypeOK, Framing, Faultless, GetFrame, NEW n, n = Len(delivered) + 1
    PROVE  /\ up
           /\ \/ /\ Taken[1] = RXRDY /\ HasAck(Arriving) /\ ~HasAck(Arriving')
                 /\ Exact(Arriving', n) /\ (HasMessage(Arriving') <=> HasMessage(Arriving))
              \/ /\ Taken[1] = n /\ n \in 1..100 /\ Got(Taken) = n
                 /\ HasMessage(Arriving) /\ ~HasMessage(Arriving')
                 /\ \A k : Exact(Arriving', k)
                 /\ HasAck(Arriving') <=> HasAck(Arriving)
<1>1. up /\ Arriving \in Seq(Nat) /\ Exact(Arriving, n) /\ MessageToken
  BY Lines DEF GetFrame, Get, Faultless
<1>2. PICK j \in Nat : /\ j = Buffered[3] /\ Len(Buffered) >= 3 /\ j + 3 \in 1..Len(Buffered)
                       /\ Taken \in Seq(Nat) /\ Len(Taken) = j + 2
                       /\ \A i \in 1..j + 2 : Taken[i] = Buffered[i + 1]
                       /\ Drop(Buffered, j + 3) \in Seq(Nat)
                       /\ Arriving' = FromSom(Drop(Buffered, j + 3))
  BY FrameRead
<1>3. PICK l \in Nat : l = Len(Arriving)
  BY <1>1, LenProperties
<1>4. l >= 3
  <2>1. PICK k \in 0..l : Buffered = Drop(Arriving, k)
    BY <1>3, BufferedIs
  <2>2. Len(Drop(Arriving, k)) = l - k
    BY <1>1, <1>3, DropNat
  <2> QED BY <1>2, <2>1, <2>2
<1>5. Buffered = Arriving
  <2>1. Len(Arriving) > 0
    BY <1>3, <1>4
  <2>2. Arriving[1] = SOM
    BY <1>1, <2>1, ExactFirst
  <2> QED BY <2>1, <2>2, BufferedIs
<1>6. CASE j = 0
  <2>1. /\ Arriving[2] = RXRDY /\ Drop(Arriving, 3) \in Seq(Nat) /\ Exact(Drop(Arriving, 3), n)
        /\ HasMessage(Drop(Arriving, 3)) <=> HasMessage(Arriving)
        /\ HasAck(Arriving) /\ ~HasAck(Drop(Arriving, 3))
    BY <1>1, <1>2, <1>3, <1>4, <1>5, <1>6, ExactAckGone
  <2>2. Taken[1] = Arriving[2]
    <3>1. \A i \in 1..2 : Taken[i] = Arriving[i + 1]
      BY <1>2, <1>5, <1>6
    <3> QED BY <3>1
  <2>3. Arriving' = Drop(Arriving, 3)
    BY <1>2, <1>5, <1>6, <2>1, FromStartExact
  <2> QED BY <1>1, <2>1, <2>2, <2>3
<1>7. CASE j # 0
  <2>1. /\ Arriving[2] = n /\ Arriving[3] = 1 /\ Arriving[4] = n /\ HasMessage(Arriving)
        /\ Drop(Arriving, 4) \in Seq(Nat) /\ \A k : Exact(Drop(Arriving, 4), k)
        /\ ~HasMessage(Drop(Arriving, 4)) /\ (HasAck(Drop(Arriving, 4)) <=> HasAck(Arriving))
    <3>1. Arriving[3] # 0
      BY <1>2, <1>5, <1>7
    <3>2. Len(Arriving) >= 3
      BY <1>3, <1>4
    <3> QED BY <1>1, <3>1, <3>2, ExactMessageGone
  <2>2. j = 1
    <3>1. j = Arriving[3]
      BY <1>2, <1>5
    <3> QED BY <2>1, <3>1
  <2>3. Arriving' = Drop(Arriving, 4)
    <3>1. Arriving' = FromSom(Drop(Arriving, 4))
      <4>1. j + 3 = 4
        BY <2>2
      <4> QED BY <1>2, <1>5, <4>1
    <3>2. Exact(Drop(Arriving, 4), n)
      BY <2>1
    <3> QED BY <2>1, <3>1, <3>2, FromStartExact
  <2>4. n \in 1..100
    <3>1. Len(delivered) \in Nat
      BY LenProperties DEF TypeOK
    <3>2. Len(delivered) = Written - 1 /\ Written \in 0..100
      BY <1>1, <2>1, WrittenIs DEF MessageToken
    <3> QED BY <3>1, <3>2
  <2>5. Len(Taken) = 3 /\ Taken[1] = n /\ Taken[2] = 1 /\ Taken[3] = n
    <3>1. \A i \in 1..3 : Taken[i] = Arriving[i + 1]
      BY <1>2, <1>5, <2>2
    <3>2. Taken[1] = Arriving[1 + 1] /\ Taken[2] = Arriving[2 + 1] /\ Taken[3] = Arriving[3 + 1]
      BY <3>1
    <3> QED BY <1>2, <2>1, <2>2, <3>2
  <2>6. Holds(Taken)
    BY <2>4, <2>5 DEF Holds
  <2>7. Got(Taken) = n
    BY <1>2, <2>5, <2>6, GotIs
  <2> QED BY <1>1, <2>1, <2>3, <2>4, <2>5, <2>7
<1> QED BY <1>6, <1>7

LEMMA FaultlessHost ==
    ASSUME TypeOK, Framing, Faultless, faults' = 0,
           Write \/ AckMissed \/ AckLate \/ ReadStep \/ Stop
    PROVE  Faultless'
<1>1. /\ Incoming \in Seq(Nat) /\ Arriving \in Seq(Nat) /\ toDevice \in Seq(Nat)
      /\ sent \in Nat /\ faults \in Nat /\ delivered \in Seq(Nat)
      /\ Exact(Incoming, sent) /\ CommandToken
      /\ up => Exact(Arriving, Len(delivered) + 1) /\ MessageToken
  BY Lines, Counted DEF Faultless, TypeOK
<1>2. UNCHANGED <<rx, tx, main>>
  BY FrameRead DEF Write, AckMissed, AckLate, ReadStep, ReadPart, ReadAck, ReadNack, ReadMessage,
                   ReadTimeout, Stop, GetFrame, Get
<1>3. /\ UNCHANGED <<SerialTxResendReq, SerialRxBuffer, SerialRxPending, executed, SerialTimeoutCount,
                     SerialTxStalled>>
      /\ Answering' = Answering /\ Written' = Written
  BY <1>2 DEF rx, tx, main, Answering, Written
<1>4. ASSUME Exact(Incoming', sent'), CommandToken', SerialRxPending => sent' = sent,
             \A i \in DOMAIN delivered' : delivered'[i] = i,
             up' => up /\ Exact(Arriving', Len(delivered') + 1) /\ MessageToken'
      PROVE  Faultless'
  BY <1>3, <1>4 DEF Faultless
<1>5. \A i \in DOMAIN delivered : delivered[i] = i
  BY DEF Faultless
<1>6. CASE Write
  <2>1. /\ up /\ ~tx_stalled /\ tx_stalled' = TRUE /\ sent' = sent + 1
        /\ Send(toDevice, Frame(Message(sent + 1))) /\ UNCHANGED <<up, rx_buf, delivered, toHost>>
    BY <1>6 DEF Write
  <2>2. sent + 1 \in Nat
    BY <1>1
  <2>3. Frame(Message(sent + 1)) \in Seq(Nat)
    BY <2>2, MessageFramed
  <2>4. toDevice' = toDevice \o Frame(Message(sent + 1))
    BY <1>1, <2>1, <2>3, SentToDevice
  <2>5. Incoming' = Incoming \o Frame(Message(sent + 1))
    BY <1>2, <2>3, <2>4, IncomingGrows
  <2>6. /\ ~HasMessage(Incoming) /\ ~SerialRxPending /\ ~Answering
        /\ ~HasAck(Arriving) /\ Len(executed) = sent
    BY <1>1, <2>1 DEF CommandToken
  <2>7. /\ Exact(Incoming', sent + 1) /\ HasMessage(Incoming')
        /\ HasAck(Incoming') <=> HasAck(Incoming)
    BY <1>1, <2>2, <2>5, <2>6, ExactMessageAdded
  <2>8. Arriving' = Arriving
    BY <2>1 DEF Arriving
  <2>9. sent = sent + 1 - 1
    BY <1>1
  <2>10. CommandToken'
    BY <1>3, <2>1, <2>6, <2>7, <2>8, <2>9 DEF CommandToken
  <2>11. MessageToken'
    BY <1>1, <1>3, <2>1, <2>7, <2>8 DEF MessageToken
  <2> QED BY <1>1, <1>4, <1>5, <2>1, <2>6, <2>7, <2>8, <2>10, <2>11
<1>7. CASE AckMissed
  <2>1. /\ up /\ tx_stalled /\ toDevice = <<>> /\ ~SerialRxPending /\ Arriving = <<>> \o <<>>
    BY <1>7 DEF AckMissed, Arriving
  <2>2. Len(Incoming) = 0
    BY <1>1, <2>1, PartIncomplete
  <2>3. ~HasMessage(Incoming) /\ ~HasAck(Arriving)
    BY <2>1, <2>2 DEF HasMessage, HasAck
  <2> QED BY <1>1, <2>1, <2>3 DEF CommandToken
<1>8. CASE AckLate
  <2>1. faults' = faults + 1
    BY <1>8 DEF AckLate
  <2> QED BY <1>1, <2>1
<1>9. ASSUME up, Len(Arriving) > 0
      PROVE  Buffered = Arriving /\ Complete(Arriving)
  <2>1. Arriving \in Seq(Nat) /\ Exact(Arriving, Len(delivered) + 1)
    BY <1>1, <1>9
  <2>2. /\ Arriving[1] = SOM /\ Len(Arriving) >= 3
        /\ \/ Arriving[3] = 0
           \/ Arriving[3] = 1 /\ Len(Arriving) \in {4, 7}
    BY <1>9, <2>1, ExactFirst
  <2>3. Complete(Arriving)
    <3>1. PICK l \in Nat : l = Len(Arriving)
      BY <2>1, LenProperties
    <3>2. CASE Arriving[3] = 0
      <4>1. l >= 3 /\ l >= 0 + 3
        BY <2>2, <3>1
      <4> QED BY <3>1, <3>2, <4>1 DEF Complete
    <3>3. CASE Arriving[3] = 1 /\ Len(Arriving) \in {4, 7}
      <4>1. l >= 3 /\ l >= 1 + 3
        BY <3>1, <3>3
      <4> QED BY <3>1, <3>3, <4>1 DEF Complete
    <3> QED BY <2>2, <3>2, <3>3
  <2>4. Buffered = Arriving
    BY <1>9, <2>2, BufferedIs
  <2> QED BY <2>3, <2>4
<1>10. CASE ReadPart
  <2>1. up /\ toHost # <<>> /\ ~Complete(Buffered)
    BY <1>10 DEF ReadPart, Get
  <2>2. Len(Arriving) > 0
    <3>1. rx_buf \in Seq(Nat) /\ toHost \in Seq(Nat)
      BY DEF TypeOK
    <3>2. PICK m \in Nat, n \in Nat : m = Len(rx_buf) /\ n = Len(toHost) /\ n # 0
      BY <2>1, <3>1, LenProperties, EmptySeq
    <3>3. Len(Arriving) = m + n
      BY <3>1, <3>2, ConcatNat DEF Arriving
    <3> QED BY <3>2, <3>3
  <2> QED BY <1>9, <2>1, <2>2
<1>11. CASE ReadTimeout
  <2>1. up /\ toHost = <<>> /\ rx_buf # <<>> /\ ~Complete(rx_buf)
    BY <1>11 DEF ReadTimeout
  <2>2. Arriving = rx_buf
    BY <2>1, ConcatEmptySeq DEF Arriving, TypeOK
  <2>3. Len(Arriving) > 0
    BY <1>1, <2>1, <2>2, LenProperties, EmptySeq
  <2> QED BY <1>9, <2>1, <2>2, <2>3
<1> DEFINE n == Len(delivered) + 1
<1>12. ASSUME GetFrame
       PROVE  /\ up
              /\ \/ /\ Taken[1] = RXRDY /\ HasAck(Arriving) /\ ~HasAck(Arriving')
                    /\ Exact(Arriving', n) /\ (HasMessage(Arriving') <=> HasMessage(Arriving))
                 \/ /\ Taken[1] = n /\ n \in 1..100 /\ Got(Taken) = n
                    /\ HasMessage(Arriving) /\ ~HasMessage(Arriving')
                    /\ \A k : Exact(Arriving', k)
                    /\ HasAck(Arriving') <=> HasAck(Arriving)
              /\ UNCHANGED <<up, sent>>
  BY <1>12, FrameReadExactly, FrameRead
<1> HIDE DEF n
<1>13. n \in 1..100 => n # RXRDY /\ n # RXFAIL
  BY DEF RXRDY, RXFAIL
<1>14. CASE ReadNack
  BY <1>12, <1>13, <1>14 DEF ReadNack, RXRDY, RXFAIL
<1>15. CASE ReadAck
  <2>1. /\ GetFrame /\ Taken[1] = RXRDY /\ tx_stalled' = FALSE /\ UNCHANGED <<delivered, toDevice>>
    BY <1>15 DEF ReadAck
  <2>2. /\ up /\ HasAck(Arriving) /\ ~HasAck(Arriving') /\ Exact(Arriving', n)
        /\ HasMessage(Arriving') <=> HasMessage(Arriving)
        /\ UNCHANGED <<up, sent>>
    BY <1>12, <1>13, <2>1
  <2>3. Incoming' = Incoming
    BY <1>2, <2>1, IncomingStays
  <2>4. ~HasMessage(Incoming) /\ ~SerialRxPending /\ ~Answering /\ Len(executed) = sent
    BY <1>1, <2>2 DEF CommandToken
  <2>5. CommandToken'
    BY <1>3, <2>1, <2>2, <2>3, <2>4 DEF CommandToken
  <2>6. MessageToken'
    BY <1>1, <1>3, <2>1, <2>2, <2>3 DEF MessageToken
  <2>7. Exact(Arriving', Len(delivered') + 1)
    BY <2>1, <2>2 DEF n
  <2> QED BY <1>1, <1>4, <1>5, <2>1, <2>2, <2>3, <2>5, <2>6, <2>7
<1>16. CASE ReadMessage
  <2>1. /\ GetFrame /\ Taken[1] \notin {RXRDY, RXFAIL} /\ Send(toDevice, Ack)
        /\ delivered' = Append(delivered, Got(Taken)) /\ UNCHANGED tx_stalled
    BY <1>16 DEF ReadMessage
  <2>2. /\ up /\ n \in 1..100 /\ Got(Taken) = n
        /\ HasMessage(Arriving) /\ ~HasMessage(Arriving')
        /\ \A k : Exact(Arriving', k)
        /\ HasAck(Arriving') <=> HasAck(Arriving)
        /\ UNCHANGED <<up, sent>>
    BY <1>12, <2>1
  <2>3. /\ \A i \in DOMAIN delivered' : delivered'[i] = i
        /\ Len(delivered') = n
    BY <1>1, <1>5, <2>1, <2>2, OneMore DEF n
  <2>4. Incoming' = Incoming \o Ack
    <3>1. toDevice' = toDevice \o Ack
      BY <1>1, <2>1, Handshakes, SentToDevice
    <3> QED BY <1>2, <3>1, Handshakes, IncomingGrows
  <2>5. SerialTxStalled /\ ~HasAck(Incoming) /\ Len(delivered) = Written - 1
    BY <1>1, <2>2 DEF MessageToken
  <2>6. /\ Exact(Incoming', sent) /\ HasAck(Incoming')
        /\ HasMessage(Incoming') <=> HasMessage(Incoming)
    BY <1>1, <2>4, <2>5, ExactAckAdded
  <2>7. n = Written
    <3>1. Len(delivered) \in Nat
      BY <1>1, LenProperties
    <3>2. Written \in 0..100
      BY WrittenIs
    <3> QED BY <2>5, <3>1, <3>2 DEF n
  <2>8. CommandToken'
    BY <1>1, <1>3, <2>1, <2>2, <2>6 DEF CommandToken
  <2>9. MessageToken'
    BY <1>3, <2>2, <2>3, <2>5, <2>6, <2>7 DEF MessageToken
  <2> QED BY <1>4, <2>2, <2>3, <2>6, <2>8, <2>9
<1>17. CASE Stop
  <2>1. up' = FALSE /\ UNCHANGED <<tx_stalled, sent, delivered, toDevice, rx_buf, toHost>>
    BY <1>17 DEF Stop
  <2>2. Incoming' = Incoming
    BY <1>2, <2>1, IncomingStays
  <2>3. CommandToken'
    BY <1>1, <1>3, <2>1, <2>2 DEF CommandToken
  <2> QED BY <1>1, <1>4, <1>5, <2>1, <2>2, <2>3
<1> QED BY <1>6, <1>7, <1>8, <1>10, <1>11, <1>14, <1>15, <1>16, <1>17 DEF ReadStep

LEMMA FaultlessInterrupt ==
    ASSUME TypeOK, Framing, Faultless, Interrupt
    PROVE  Faultless'
<1>1. /\ Incoming \in Seq(Nat) /\ Exact(Incoming, sent) /\ CommandToken /\ ~SerialTxResendReq
      /\ up => SerialTimeoutCount = 0 /\ Exact(Arriving, Len(delivered) + 1) /\ MessageToken
  BY Lines DEF Faultless
<1>2. UNCHANGED <<host, toHost, main>>
  BY DEF Interrupt, FindStart, ReceiveId, ReceiveHandshake, ReceiveLength, ReceiveData, Receive
<1>3. /\ UNCHANGED <<up, tx_stalled, sent, delivered, executed>>
      /\ Arriving' = Arriving /\ Answering' = Answering /\ Written' = Written
  BY <1>2 DEF host, main, Arriving, Answering, Written
<1>4. ASSUME Exact(Incoming', sent), ~SerialTxResendReq',
             SerialRxPending' => IsCommand(SerialRxBuffer', sent), CommandToken',
             up => SerialTimeoutCount' = 0 /\ MessageToken'
      PROVE  Faultless'
  BY <1>1, <1>3, <1>4 DEF Faultless
<1>5. ASSUME Incoming' = Incoming, UNCHANGED <<SerialTxResendReq, SerialRxPending, SerialTxStalled>>,
             UNCHANGED SerialTimeoutCount,
             SerialRxPending' => IsCommand(SerialRxBuffer', sent)
      PROVE  Faultless'
  <2>1. CommandToken'
    BY <1>1, <1>3, <1>5 DEF CommandToken
  <2>2. up => MessageToken'
    BY <1>1, <1>3, <1>5 DEF MessageToken
  <2> QED BY <1>1, <1>4, <1>5, <2>1, <2>2
<1>6. SerialRxPending => IsCommand(SerialRxBuffer, sent)
  BY DEF Faultless
<1>7. CASE FindStart
  <2>1. /\ UNCHANGED <<SerialTxResendReq, SerialRxPending, SerialTxStalled, SerialTimeoutCount>>
        /\ UNCHANGED SerialRxBuffer
    BY <1>7 DEF FindStart
  <2>2. Incoming' = Incoming
    BY <1>1, <1>7, StartFound, ExactFirst
  <2> QED BY <1>5, <1>6, <2>1, <2>2
<1>8. CASE ReceiveId
  <2>1. /\ UNCHANGED <<SerialTxResendReq, SerialRxPending, SerialTxStalled, SerialTimeoutCount>>
        /\ UNCHANGED SerialRxBuffer
    BY <1>8 DEF ReceiveId
  <2>2. Incoming' = Incoming
    BY <1>8, IdReceived
  <2> QED BY <1>5, <1>6, <2>1, <2>2
<1>9. ASSUME SerialRxState = "CMDLEN", toDevice # <<>>, toDevice' = Tail(toDevice)
      PROVE  /\ Len(Incoming) >= 3
             /\ Incoming[2] = SerialCmdId /\ Incoming[3] = NextByte
             /\ SerialRxState' = "INBETWEEN" => Incoming' = Drop(Incoming, 3)
             /\ SerialRxState' = "DATA" /\ SerialRxBuffer' = <<SerialCmdId, NextByte>>
                    => Incoming' = Incoming
  BY <1>9, LengthReceived
<1>10. CASE ReceiveHandshake
  <2>1. /\ SerialRxState = "CMDLEN" /\ toDevice # <<>> /\ toDevice' = Tail(toDevice)
        /\ SerialRxState' = "INBETWEEN" /\ NextByte = 0
        /\ SerialTxStalled' = (SerialTxStalled /\ SerialCmdId # RXRDY)
        /\ SerialTxResendReq' = (SerialTxResendReq \/ SerialCmdId = RXFAIL)
        /\ SerialTimeoutCount' = 0
        /\ UNCHANGED <<SerialRxBuffer, SerialRxPending>>
    BY <1>10 DEF ReceiveHandshake, Receive, IsHandshake
  <2>2. Len(Incoming) >= 3 /\ Incoming[3] = 0 /\ Incoming[2] = SerialCmdId
        /\ Incoming' = Drop(Incoming, 3)
    BY <1>9, <2>1
  <2>3. /\ Incoming[2] = RXRDY /\ Exact(Incoming', sent)
        /\ HasMessage(Incoming') <=> HasMessage(Incoming)
        /\ HasAck(Incoming) /\ ~HasAck(Incoming')
    BY <1>1, <2>2, ExactAckGone
  <2>4. ~SerialTxStalled' /\ ~SerialTxResendReq'
    <3>1. RXRDY # RXFAIL
      BY DEF RXRDY, RXFAIL
    <3>2. SerialCmdId = RXRDY
      BY <2>2, <2>3
    <3> QED BY <1>1, <2>1, <3>1, <3>2
  <2>5. CommandToken'
    BY <1>1, <1>3, <2>1, <2>3 DEF CommandToken
  <2>6. up => MessageToken'
    BY <1>1, <1>3, <2>3, <2>4 DEF MessageToken
  <2> QED BY <1>4, <1>6, <2>1, <2>3, <2>4, <2>5, <2>6
<1>11. ASSUME Len(Incoming) >= 3, Incoming[3] # 0
       PROVE  /\ Incoming[2] = sent /\ Incoming[3] = 1 /\ Incoming[4] = sent
              /\ HasMessage(Incoming) /\ Exact(Drop(Incoming, 4), sent)
              /\ ~HasMessage(Drop(Incoming, 4))
              /\ HasAck(Drop(Incoming, 4)) <=> HasAck(Incoming)
  BY <1>1, <1>11, ExactMessageGone
<1>12. CASE ReceiveLength
  <2>1. /\ SerialRxState = "CMDLEN" /\ toDevice # <<>> /\ toDevice' = Tail(toDevice)
        /\ ~IsHandshake(SerialCmdId, NextByte)
        /\ SerialRxState' = IF NextByte = 0 THEN "INBETWEEN" ELSE "DATA"
        /\ SerialRxBuffer' = <<SerialCmdId, NextByte>>
        /\ SerialRxPending' = (SerialRxPending \/ NextByte = 0)
        /\ UNCHANGED <<SerialTxStalled, SerialTxResendReq, SerialTimeoutCount>>
    BY <1>12 DEF ReceiveLength, Receive
  <2>2. Len(Incoming) >= 3 /\ Incoming[3] = NextByte /\ Incoming[2] = SerialCmdId
    BY <1>9, <2>1
  <2>3. NextByte # 0
    <3>1. Incoming[3] = 0 => Incoming[2] = RXRDY
      BY <1>1, <2>2, ExactAckGone
    <3> QED BY <2>1, <2>2, <3>1 DEF IsHandshake
  <2>4. Incoming' = Incoming
    BY <1>9, <2>1, <2>3
  <2>5. HasMessage(Incoming)
    BY <1>11, <2>2, <2>3
  <2>6. ~SerialRxPending
    BY <1>1, <2>5 DEF CommandToken
  <2>7. SerialRxPending' = FALSE /\ SerialRxPending = FALSE
    BY <2>1, <2>3, <2>6 DEF TypeOK
  <2> QED BY <1>5, <2>1, <2>4, <2>7
<1>13. CASE ReceiveData
  <2>1. PICK l \in Nat : l = Len(SerialRxBuffer) /\ l >= 2 /\ l < SerialRxBuffer[2] + 2
    <3>1. SerialRxState = "DATA" /\ SerialRxBuffer \in Seq(Nat)
      BY <1>13 DEF ReceiveData, TypeOK
    <3>2. Len(SerialRxBuffer) >= 2 /\ Len(SerialRxBuffer) < SerialRxBuffer[2] + 2
      BY <3>1 DEF Framing
    <3> QED BY <3>1, <3>2, LenProperties
  <2>2. /\ Len(SerialRxBuffer') = l + 1
        /\ \A i \in 1..l : SerialRxBuffer'[i] = SerialRxBuffer[i]
        /\ Len(Incoming) > l + 1
        /\ \A i \in 1..l + 1 : Incoming[i + 1] = SerialRxBuffer'[i]
        /\ SerialRxState' = "INBETWEEN" => Incoming' = Drop(Incoming, l + 2)
    <3>1. /\ Len(SerialRxBuffer') = l + 1 /\ Len(SerialRxBuffer') + 1 = l + 2
      BY <1>13, <2>1, DataReceived
    <3> QED BY <1>13, <2>1, <3>1, DataReceived
  <2>3. /\ Incoming[1 + 1] = SerialRxBuffer'[1] /\ Incoming[2 + 1] = SerialRxBuffer'[2]
        /\ Incoming[3 + 1] = SerialRxBuffer'[3] /\ SerialRxBuffer'[2] = SerialRxBuffer[2]
    <3>1. 1 \in 1..l + 1 /\ 2 \in 1..l + 1 /\ 3 \in 1..l + 1 /\ 2 \in 1..l
      BY <2>1
    <3> QED BY <2>2, <3>1
  <2>4. Len(Incoming) >= 3
    <3>1. Len(Incoming) \in Nat
      BY <1>1, LenProperties
    <3> QED BY <2>1, <2>2, <3>1
  <2>5. Incoming[3] # 0
    BY <2>1, <2>3
  <2>6. /\ Incoming[2] = sent /\ Incoming[3] = 1 /\ Incoming[4] = sent
        /\ HasMessage(Incoming) /\ Exact(Drop(Incoming, 4), sent)
        /\ ~HasMessage(Drop(Incoming, 4))
        /\ HasAck(Drop(Incoming, 4)) <=> HasAck(Incoming)
    BY <1>11, <2>4, <2>5
  <2>7. l = 2 /\ SerialRxBuffer[2] = 1
    BY <2>1, <2>3, <2>6
  <2>8. /\ SerialRxState' = "INBETWEEN" /\ SerialRxPending' = TRUE
        /\ UNCHANGED <<SerialTxStalled, SerialTxResendReq, SerialTimeoutCount>>
    <3>1. Len(SerialRxBuffer) + 1 = SerialRxBuffer[2] + 2
      BY <2>1, <2>7
    <3> QED BY <1>13, <3>1 DEF ReceiveData, Receive
  <2>9. Incoming' = Drop(Incoming, 4)
    <3>1. l + 2 = 4
      BY <2>7
    <3> QED BY <2>2, <2>8, <3>1
  <2>10. IsCommand(SerialRxBuffer', sent)
    <3>1. Len(SerialRxBuffer') = 3
      BY <2>2, <2>7
    <3>2. SerialRxBuffer'[1] = sent /\ SerialRxBuffer'[2] = 1 /\ SerialRxBuffer'[3] = sent
      BY <2>3, <2>6
    <3> QED BY <3>1, <3>2 DEF IsCommand
  <2>11. CommandToken'
    BY <1>1, <1>3, <2>6, <2>8, <2>9 DEF CommandToken
  <2>12. up => MessageToken'
    BY <1>1, <1>3, <2>6, <2>8, <2>9 DEF MessageToken
  <2> QED BY <1>1, <1>4, <2>6, <2>8, <2>9, <2>10, <2>11, <2>12
<1> QED BY <1>7, <1>8, <1>10, <1>12, <1>13 DEF Interrupt

\* What the main loop sends is an acknowledgement or a message, or nothing.
LEMMA FaultlessMain ==
    ASSUME TypeOK, Framing, Faultless, faults' = 0,
           SerialStep \/ WaitLate \/ \E timedOut \in BOOLEAN : Indicate(timedOut)
    PROVE  Faultless'
<1>1. /\ Incoming \in Seq(Nat) /\ Arriving \in Seq(Nat) /\ faults \in Nat
      /\ Exact(Incoming, sent) /\ CommandToken /\ ~SerialTxResendReq
      /\ \A i \in DOMAIN executed : executed[i] = i
      /\ executed \in Seq(Nat) /\ delivered \in Seq(Nat)
      /\ SerialRxPending => IsCommand(SerialRxBuffer, sent)
      /\ up => SerialTimeoutCount = 0 /\ Exact(Arriving, Len(delivered) + 1) /\ MessageToken
  BY Lines DEF Faultless, TypeOK
<1>2. sent \in 0..100 /\ made \in 0..100 /\ made \in Nat /\ sent \in Nat
  BY Counted
<1>3. UNCHANGED <<host, toDevice, SerialRxBuffer>>
  BY DEF SerialStep, WaitLate, Indicate, Poll, Run, BeginMessage, GetCommand, AckCommand,
         WaitNoMore, WaitResend, WaitTimeout, SendMessage, rx
<1>4. UNCHANGED <<up, tx_stalled, rx_buf, sent, delivered>>
  BY <1>3 DEF host
<1>5. ASSUME Incoming' = Incoming, ~SerialTxResendReq', SerialRxPending' => SerialRxPending,
             \A i \in DOMAIN executed' : executed'[i] = i, CommandToken',
             up => SerialTimeoutCount' = 0 /\ Exact(Arriving', Len(delivered) + 1) /\ MessageToken'
      PROVE  Faultless'
  <2>1. Exact(Incoming', sent') /\ SerialRxPending' => IsCommand(SerialRxBuffer', sent')
    BY <1>1, <1>3, <1>4, <1>5
  <2>2. \A i \in DOMAIN delivered' : delivered'[i] = i
    BY <1>4 DEF Faultless
  <2>3. up' => SerialTimeoutCount' = 0 /\ Exact(Arriving', Len(delivered') + 1) /\ MessageToken'
    BY <1>4, <1>5
  <2>4. Exact(Incoming', sent')
    BY <1>1, <1>4, <1>5
  <2> QED BY <1>5, <2>1, <2>2, <2>3, <2>4 DEF Faultless
\* SerialGetCommand finds nothing incomplete and nothing to repeat.
<1>6. ASSUME NEW timedOut \in BOOLEAN, GetCommand(timedOut)
      PROVE  /\ timedOut = FALSE /\ Incoming' = Incoming /\ Arriving' = Arriving
             /\ ~SerialTxResendReq'
             /\ SerialRxPending' = SerialRxPending /\ SerialTxStalled' = SerialTxStalled
             /\ up => SerialTimeoutCount' = 0
  <2>1. ~timedOut
    <3>1. timedOut => toDevice = <<>> /\ SerialRxState # "INBETWEEN"
      BY <1>6 DEF GetCommand, RxOverdue
    <3> QED BY <1>1, <3>1, PartIncomplete
  <2>2. Incoming' = Incoming /\ toHost' = toHost
    BY <1>1, <1>6, <2>1, CommandGot
  <2>3. Arriving' = Arriving
    BY <1>4, <2>2 DEF Arriving
  <2>4. /\ SerialRxPending' = (SerialRxPending /\ ~timedOut)
        /\ SerialTxStalled' = (SerialTxStalled \/ SerialTxResendReq)
        /\ SerialTxResendReq' = FALSE
        /\ SerialTimeoutCount' = IF SerialRxPending' THEN 0 ELSE SerialTimeoutCount
    BY <1>6 DEF GetCommand
  <2>5. SerialRxPending \in BOOLEAN /\ SerialTxStalled \in BOOLEAN
    BY DEF TypeOK
  <2>6. SerialRxPending' = SerialRxPending /\ SerialTxStalled' = SerialTxStalled
    BY <1>1, <2>1, <2>4, <2>5
  <2>7. up => SerialTimeoutCount' = 0
    BY <1>1, <2>4
  <2> QED BY <2>1, <2>2, <2>3, <2>4, <2>6, <2>7
<1>7. ASSUME NEW timedOut \in BOOLEAN, Poll(timedOut)
      PROVE  Faultless'
  <2>1. /\ pc = "loop" /\ pc' \in {"run", "loop"} /\ GetCommand(timedOut)
        /\ UNCHANGED <<return, made, executed>>
    BY <1>7 DEF Poll
  <2>2. Answering' = FALSE /\ Answering = FALSE /\ Written' = Written
    BY <2>1 DEF Answering, Written
  <2>3. /\ Incoming' = Incoming /\ Arriving' = Arriving /\ ~SerialTxResendReq'
        /\ SerialRxPending' = SerialRxPending /\ SerialTxStalled' = SerialTxStalled
        /\ up => SerialTimeoutCount' = 0
    BY <1>6, <2>1
  <2>4. CommandToken'
    BY <1>1, <1>4, <2>1, <2>2, <2>3 DEF CommandToken
  <2>5. up => MessageToken'
    BY <1>1, <1>4, <2>2, <2>3 DEF MessageToken
  <2> QED BY <1>1, <1>5, <2>1, <2>3, <2>4, <2>5
<1>8. ASSUME NEW timedOut \in BOOLEAN, Indicate(timedOut)
      PROVE  Faultless'
  <2>1. /\ pc = "loop" /\ pc' = "send" /\ return' = "loop" /\ GetCommand(timedOut)
        /\ made' = made + 1 /\ UNCHANGED executed
    BY <1>8 DEF Indicate, BeginMessage
  <2>2. Answering' = FALSE /\ Answering = FALSE
    BY <2>1 DEF Answering
  <2>3. Written' = Written
    BY <1>2, <2>1 DEF Written
  <2>4. /\ Incoming' = Incoming /\ Arriving' = Arriving /\ ~SerialTxResendReq'
        /\ SerialRxPending' = SerialRxPending /\ SerialTxStalled' = SerialTxStalled
        /\ up => SerialTimeoutCount' = 0
    BY <1>6, <2>1
  <2>5. CommandToken'
    BY <1>1, <1>4, <2>1, <2>2, <2>4 DEF CommandToken
  <2>6. up => MessageToken'
    BY <1>1, <1>4, <2>3, <2>4 DEF MessageToken
  <2> QED BY <1>1, <1>5, <2>1, <2>4, <2>5, <2>6
<1>9. ASSUME NEW timedOut \in BOOLEAN, Run(timedOut)
      PROVE  Faultless'
  <2>1. /\ pc = "run" /\ executed' = Append(executed, Got(SerialRxBuffer))
        /\ \/ /\ GetCommand(timedOut) /\ pc' = "send" /\ return' = "ack" /\ made' = made + 1
           \/ pc' = "ack" /\ UNCHANGED <<toHost, rx, tx, made>>
    BY <1>9 DEF Run, BeginMessage
  <2>2. Answering = FALSE /\ Answering' = TRUE
    BY <2>1 DEF Answering
  <2>3. Written' = Written
    BY <1>2, <2>1 DEF Written
  <2>4. /\ Incoming' = Incoming /\ Arriving' = Arriving /\ ~SerialTxResendReq'
        /\ SerialRxPending' = SerialRxPending /\ SerialTxStalled' = SerialTxStalled
        /\ up => SerialTimeoutCount' = 0
    <3>1. CASE UNCHANGED <<toHost, rx, tx>>
      BY <1>1, <1>3, <1>4, <3>1, IncomingStays DEF rx, tx, Arriving
    <3> QED BY <1>6, <2>1, <3>1
  <2>5. /\ SerialRxPending /\ tx_stalled /\ ~HasMessage(Incoming) /\ Len(executed) = sent - 1
        /\ up => ~HasAck(Arriving)
    <3>1. SerialRxPending
      BY <2>1 DEF Framing
    <3> QED BY <1>1, <2>2, <3>1 DEF CommandToken
  <2>6. Got(SerialRxBuffer) = sent
    <3>1. /\ Len(SerialRxBuffer) = 3 /\ SerialRxBuffer[1] = sent /\ SerialRxBuffer[2] = 1
          /\ SerialRxBuffer[3] = sent /\ SerialRxBuffer \in Seq(Nat)
      BY <1>1, <2>5 DEF IsCommand, TypeOK
    <3>2. sent # 0
      <4>1. Len(executed) \in Nat
        BY <1>1, LenProperties
      <4> QED BY <1>2, <2>5, <4>1
    <3>3. Holds(SerialRxBuffer)
      BY <3>1, <3>2 DEF Holds
    <3> QED BY <3>1, <3>3, GotIs
  <2>7. /\ \A i \in DOMAIN executed' : executed'[i] = i
        /\ Len(executed') = sent
    <3>1. sent = Len(executed) + 1
      <4>1. Len(executed) \in Nat
        BY <1>1, LenProperties
      <4> QED BY <1>2, <2>5, <4>1
    <3> QED BY <1>1, <2>1, <2>6, <3>1, OneMore
  <2>8. CommandToken'
    BY <1>4, <2>2, <2>4, <2>5, <2>7 DEF CommandToken
  <2>9. up => MessageToken'
    BY <1>1, <1>4, <2>3, <2>4 DEF MessageToken
  <2> QED BY <1>1, <1>5, <2>4, <2>7, <2>8, <2>9
<1>10. ASSUME UNCHANGED rx PROVE Incoming' = Incoming
  BY <1>3, <1>10, IncomingStays
<1>11. CASE AckCommand
  <2>1. /\ pc = "ack" /\ pc' = "loop" /\ Send(toHost, Ack) /\ SerialRxPending' = FALSE
        /\ UNCHANGED <<SerialRxState, SerialCmdId, SerialRxBuffer, tx, made, executed>>
    BY <1>11 DEF AckCommand
  <2>2. toHost' = toHost \o Ack
    BY <1>1, <2>1, Handshakes, SentToHost
  <2>3. Arriving' = Arriving \o Ack
    BY <1>4, <2>2, Handshakes, ArrivingGrows
  <2>4. Incoming' = Incoming
    BY <1>3, <2>1 DEF Incoming, Part
  <2>5. Answering = TRUE /\ Answering' = FALSE /\ Written' = Written
    BY <2>1 DEF Answering, Written
  <2>6. /\ tx_stalled /\ ~HasMessage(Incoming) /\ SerialRxPending /\ Len(executed) = sent
        /\ up => ~HasAck(Arriving)
    BY <1>1, <2>5 DEF CommandToken
  <2>7. up => /\ Exact(Arriving', Len(delivered) + 1) /\ HasAck(Arriving')
              /\ HasMessage(Arriving') <=> HasMessage(Arriving)
    BY <1>1, <2>3, <2>6, ExactAckAdded
  <2>8. CommandToken'
    BY <1>4, <2>1, <2>4, <2>5, <2>6, <2>7 DEF CommandToken
  <2>9. UNCHANGED <<SerialTxStalled, SerialTxResendReq, SerialTimeoutCount>>
    BY <2>1 DEF tx
  <2>10. up => MessageToken'
    BY <1>1, <1>4, <2>4, <2>5, <2>7, <2>9 DEF MessageToken
  <2> QED BY <1>1, <1>5, <2>1, <2>4, <2>7, <2>8, <2>9, <2>10
<1>12. CASE WaitResend
  BY <1>1, <1>12 DEF WaitResend
<1>13. CASE WaitLate
  BY <1>1, <1>13 DEF WaitLate
\* With a host that is there, whatever is outstanding is on a line.
<1>14. CASE WaitNoMore \/ WaitTimeout
  <2>1. /\ SerialTxStalled /\ SerialTxStalled' = FALSE
        /\ UNCHANGED <<toHost, rx, SerialTxResendReq, main>>
        /\ \/ SerialTimeoutCount >= MAX_TIMEOUTS
           \/ toDevice = <<>> /\ (up => toHost = <<>> /\ rx_buf = <<>>)
    BY <1>14 DEF WaitNoMore, WaitTimeout, Waiting
  <2>2. ~up
    <3>1. SUFFICES ASSUME up PROVE FALSE
      OBVIOUS
    <3>2. ~(SerialTimeoutCount >= MAX_TIMEOUTS)
      BY <1>1, <3>1, UartAssumption
    <3>3. toDevice = <<>> /\ Arriving = <<>> \o <<>>
      BY <2>1, <3>1, <3>2 DEF Arriving
    <3>4. Len(Incoming) = 0
      BY <1>1, <3>3, PartIncomplete
    <3>5. ~HasAck(Incoming) /\ ~HasMessage(Arriving)
      BY <3>3, <3>4 DEF HasAck, HasMessage
    <3> QED BY <1>1, <2>1, <3>1, <3>5 DEF MessageToken
  <2>3. UNCHANGED <<executed, SerialRxPending>> /\ Answering' = Answering
    BY <2>1 DEF main, rx, Answering
  <2>4. Incoming' = Incoming
    BY <1>10, <2>1
  <2>5. CommandToken'
    BY <1>1, <1>4, <2>2, <2>3, <2>4 DEF CommandToken
  <2> QED BY <1>1, <1>5, <2>1, <2>2, <2>3, <2>4, <2>5
<1>15. CASE SendMessage
  <2>1. /\ pc = "send" /\ ~SerialTxStalled /\ pc' = return
        /\ Send(toHost, Frame(Message(made))) /\ SerialTxStalled' = TRUE
        /\ UNCHANGED <<rx, SerialTxResendReq, SerialTimeoutCount, return, made, executed>>
    BY <1>15 DEF SendMessage
  <2>2. return \in {"loop", "ack"}
    BY DEF TypeOK
  <2>3. Answering' = Answering
    BY <2>1, <2>2 DEF Answering
  <2>4. Written = made - 1 /\ Written' = made
    BY <2>1, <2>2 DEF Written
  <2>5. Frame(Message(made)) \in Seq(Nat)
    BY <1>2, MessageFramed
  <2>6. toHost' = toHost \o Frame(Message(made))
    BY <1>1, <2>1, <2>5, SentToHost
  <2>7. Arriving' = Arriving \o Frame(Message(made))
    BY <1>4, <2>5, <2>6, ArrivingGrows
  <2>8. Incoming' = Incoming
    BY <1>10, <2>1
  <2>9. SerialRxPending' = SerialRxPending
    BY <2>1 DEF rx
  <2>10. up => ~HasMessage(Arriving) /\ ~HasAck(Incoming) /\ Len(delivered) = made - 1
    BY <1>1, <2>1, <2>4 DEF MessageToken
  <2>11. up => /\ Exact(Arriving', made) /\ HasMessage(Arriving')
               /\ HasAck(Arriving') <=> HasAck(Arriving)
    BY <1>1, <1>2, <2>7, <2>10, ExactMessageAdded
  <2>12. made - 1 + 1 = made
    BY <1>2
  <2>13. CommandToken'
    BY <1>1, <1>4, <2>1, <2>3, <2>8, <2>9, <2>11 DEF CommandToken
  <2>14. up => MessageToken'
    BY <1>4, <2>1, <2>4, <2>8, <2>10, <2>11 DEF MessageToken
  <2>15. up => Exact(Arriving', Len(delivered) + 1)
    BY <2>10, <2>11, <2>12
  <2> QED BY <1>1, <1>5, <2>1, <2>8, <2>9, <2>13, <2>14, <2>15
<1> QED BY <1>7, <1>8, <1>9, <1>11, <1>12, <1>13, <1>14, <1>15 DEF SerialStep

LEMMA FaultlessAtFirst ==
    ASSUME Init
    PROVE  HandledInv
<1>1. TypeOK /\ Framing
  BY StartsTyped
<1>2. Incoming = <<>> \o <<>> /\ Arriving = <<>> \o <<>>
  BY DEF Init, Incoming, Part, Arriving
<1>3. Len(Incoming) = 0 /\ Len(Arriving) = 0
  <2>1. <<>> \o <<>> = <<>> /\ Len(<<>>) = 0
    OBVIOUS
  <2> QED BY <1>2, <2>1
<1>4. /\ Exact(Incoming, sent) /\ Exact(Arriving, Len(delivered) + 1)
      /\ ~HasMessage(Incoming) /\ ~HasMessage(Arriving)
      /\ ~HasAck(Incoming) /\ ~HasAck(Arriving)
  BY <1>3 DEF Exact, HasMessage, HasAck
<1>5. /\ up /\ ~tx_stalled /\ ~SerialRxPending /\ ~SerialTxStalled /\ ~SerialTxResendReq
      /\ SerialTimeoutCount = 0 /\ pc = "loop" /\ made = 0 /\ sent = 0
      /\ executed = <<>> /\ delivered = <<>>
  BY DEF Init
<1>6. ~Answering /\ Written = 0
  BY <1>5 DEF Answering, Written
<1>7. CommandToken
  BY <1>4, <1>5, <1>6 DEF CommandToken
<1>8. MessageToken
  BY <1>4, <1>5, <1>6 DEF MessageToken
<1>9. /\ \A i \in DOMAIN executed : executed[i] = i
      /\ \A i \in DOMAIN delivered : delivered[i] = i
  BY <1>5
<1> QED BY <1>1, <1>4, <1>5, <1>7, <1>8, <1>9 DEF Faultless, HandledInv

LEMMA HandledKept == HandledInv /\ [Next]_vars => HandledInv'
<1>1. SUFFICES ASSUME HandledInv, [Next]_vars PROVE HandledInv'
  OBVIOUS
<1>2. TypeOK /\ Framing /\ (faults = 0 => Faultless)
  BY <1>1 DEF HandledInv
<1>3. TypeOK' /\ Framing'
  BY <1>1, <1>2, Typed
<1>4. ASSUME faults' = 0 PROVE Faultless'
  <2>1. CASE UNCHANGED vars
    BY <1>2, <1>4, <2>1 DEF vars, host, rx, tx, main, Faultless, Incoming, Part, Arriving, Exact,
                            IsMessage, IsAck, IsCommand, CommandToken, MessageToken, HasMessage,
                            HasAck, Answering, Written
  <2>2. CASE Next
    <3>1. Faultless
      BY <1>2, <1>4, <2>2, NoFaultYet
    <3> QED BY <1>2, <1>4, <2>2, <3>1, FaultlessHost, FaultlessInterrupt, FaultlessMain DEF Next
  <2> QED BY <1>1, <2>1, <2>2
<1> QED BY <1>3, <1>4 DEF HandledInv

LEMMA Counting ==
    ASSUME NEW s \in Seq(Nat), \A i \in DOMAIN s : s[i] = i
    PROVE  s = OneTo(Len(s))
<1>1. PICK m \in Nat : m = Len(s) /\ DOMAIN s = 1..m
  BY LenProperties
<1>2. s = [i \in 1..m |-> s[i]]
  BY <1>1
<1> QED BY <1>1, <1>2 DEF OneTo

\* As long as no byte is lost and no acknowledgement is late, what a side
\* regards as acknowledged has been handled by the other, once and in order: the
\* device acknowledges a command after its execution, from the only receive
\* buffer, and the host a message when it passes it on.
THEOREM AcknowledgedIsHandled == Spec => []AcknowledgedMeansHandled
<1>1. Init => HandledInv
  BY FaultlessAtFirst
<1>2. HandledInv /\ [Next]_vars => HandledInv'
  BY HandledKept
<1>3. HandledInv => AcknowledgedMeansHandled
  <2>1. SUFFICES ASSUME HandledInv, faults = 0
                 PROVE  /\ executed = OneTo(Len(executed)) /\ delivered = OneTo(Len(delivered))
                        /\ ~tx_stalled => Len(executed) = sent
                        /\ up /\ ~SerialTxStalled => Len(delivered) = Written
    BY DEF AcknowledgedMeansHandled, Written
  <2>2. TypeOK /\ Faultless
    BY <2>1 DEF HandledInv
  <2>3. executed = OneTo(Len(executed)) /\ delivered = OneTo(Len(delivered))
    BY <2>2, Counting DEF TypeOK, Faultless
  <2>4. ~tx_stalled => Len(executed) = sent
    BY <2>2 DEF Faultless, CommandToken
  <2>5. up /\ ~SerialTxStalled => Len(delivered) = Written
    BY <2>2 DEF Faultless, MessageToken
  <2> QED BY <2>3, <2>4, <2>5
<1> QED BY <1>1, <1>2, <1>3, PTL DEF Spec
=============================================================================
