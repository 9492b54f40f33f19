--------------------------- MODULE UsbLink_proof ----------------------------
(***************************************************************************)
(* Proof that the USB link hands over whole messages, in order and once,   *)
(* for any number of messages of any length and rings of any size, with    *)
(* time-outs, failing writes and unplugging at any point.                  *)
(*                                                                         *)
(* Each direction is one line of fragments: what the receiver has          *)
(* assembled, then what is in rings, endpoints and queues.  Whatever       *)
(* happens takes fragments from its front or adds one to its end.  The     *)
(* invariant says of a line that its messages ascend and that a fragment   *)
(* that is not the first of its message follows the one before (InOrder),  *)
(* and of its end that the sender's next fragment fits on (EndsBefore).    *)
(***************************************************************************)
EXTENDS UsbLink, SequenceTheorems, TLAPS

\* The fragments of all messages of a list.
Fragments(list) ==
    UNION {{Fragment(list, n, i) : i \in 1..list[n]} : n \in DOMAIN list}

\* Messages ascend, and only a first fragment does not follow the one before it.
InOrder(line, list) ==
    /\ line \in Seq(Fragments(list))
    /\ \A j, k \in DOMAIN line : j < k =>
           line[j].msg <= line[k].msg /\ (line[j].last => line[j].msg < line[k].msg)
    /\ \A k \in DOMAIN line : line[k].at # 1 /\ k # 1 =>
           line[k-1].msg = line[k].msg /\ line[k-1].at = line[k].at - 1

\* Fragment i of message m fits at the end of the line.
EndsBefore(line, m, i) ==
    /\ \A k \in DOMAIN line : line[k].msg <= m /\ (line[k].last => line[k].msg < m)
    /\ i # 1 /\ line # <<>> => line[Len(line)].msg = m /\ line[Len(line)].at = i - 1

\* All messages of the line come after message n.
Above(line, n) == \A k \in DOMAIN line : n < line[k].msg

\* What is assembled are the first fragments of one message.
Begins(part) == \A k \in DOMAIN part : part[k].msg = part[1].msg /\ part[k].at = k

\* An endpoint as a line.
One(ep) == IF ep = None THEN <<>> ELSE <<ep>>

----------------------------------------------------------------------------
(* The commands.                                                           *)

FromHost == ReceiveBuffer \o One(ep3)
CommandLine == SerialRxBuffer \o FromHost

\* In particular, a report waits in the endpoint exactly while it is stalled.
CommandTypes ==
    /\ command \in 1..(Len(Commands) + 1) /\ frag \in Nat \ {0}
    /\ IF command <= Len(Commands) THEN frag <= Commands[command] ELSE frag = 1
    /\ SerialRxBuffer \in Seq(Fragments(Commands))
    /\ ReceiveBuffer \in Seq(Fragments(Commands))
    /\ ep3 \in Fragments(Commands) \cup {None}
    /\ ep3 # None => RxStalled /\ ReceiveBuffer # <<>>
    /\ RxStalled => ep3 # None
    /\ handled \in Seq(Seq(Fragments(Commands)))

\* The host goes on where the line ends or, after a failure, with the same
\* command from its beginning.  A handle that is no longer good writes nothing.
CommandsFlow ==
    /\ InOrder(CommandLine, Commands)
    /\ CommandLine # <<>> => CommandLine[1].at = 1
    /\ EndsBefore(CommandLine, command, 1)
    /\ opened => EndsBefore(CommandLine, command, frag) /\ (frag # 1 => CommandLine # <<>>)
    /\ Begins(SerialRxBuffer)
    /\ SerialRxPending => SerialRxBuffer # <<>> /\ SerialRxBuffer[Len(SerialRxBuffer)].last

\* Nothing of a command that was handled is on the line or will be written.
HandledFirst ==
    \A i \in DOMAIN handled :
        handled[i][1].msg < command /\ Above(CommandLine, handled[i][1].msg)

CommandInv == CommandTypes /\ CommandsFlow /\ HandledFirst /\ CommandsWhole

----------------------------------------------------------------------------
(* The messages.                                                           *)

InDevice == One(ep2) \o TransmitBuffer
ToHost == hidQueue \o InDevice
MessageLine == buf \o ToHost

MessageTypes ==
    /\ begun \in 0..Len(Messages)
    /\ sending = <<>> \/ \E i \in 1..Messages[begun] : begun # 0 /\ sending = <<begun, i>>
    /\ buf \in Seq(Fragments(Messages))
    /\ hidQueue \in Seq(Fragments(Messages))
    /\ TransmitBuffer \in Seq(Fragments(Messages))
    /\ ep2 \in Fragments(Messages) \cup {None}
    /\ TxStalled => ep2 = None
    /\ host = "flush" => buf = <<>>
    /\ up \in Seq(Seq(Fragments(Messages)))

\* The device goes on where the line ends, which is empty after a loss of power.
MessagesFlow ==
    /\ InOrder(MessageLine, Messages)
    /\ EndsBefore(MessageLine, begun + 1, 1)
    /\ sending # <<>> => EndsBefore(MessageLine, sending[1], sending[2])
    /\ Begins(buf)

\* Nothing of a message that was handed up is on the line or will be sent.
HandedUpFirst ==
    \A i \in DOMAIN up :
        /\ up[i][1].msg <= begun
        /\ sending # <<>> => up[i][1].msg < sending[1]
        /\ Above(MessageLine, up[i][1].msg)

\* With a gap in a message nothing is said.
MessageInv ==
    MessageTypes /\ (gap \/ (MessagesFlow /\ HandedUpFirst /\ WholeInOrder(up, Messages)))

----------------------------------------------------------------------------
(* Fragments and lines of fragments.                                       *)

\* A fragment says where it belongs.
LEMMA FragmentTypes ==
    ASSUME NEW list \in Seq(Nat \ {0})
    PROVE  /\ \A f \in Fragments(list) :
                  /\ f.msg \in 1..Len(list) /\ f.at \in 1..list[f.msg]
                  /\ f.first <=> f.at = 1
                  /\ f.last <=> f.at = list[f.msg]
                  /\ f = Fragment(list, f.msg, f.at)
                  /\ f # None
           /\ \A n \in 1..Len(list) : \A i \in 1..list[n] :
                  /\ Fragment(list, n, i) \in Fragments(list)
                  /\ Fragment(list, n, i).msg = n /\ Fragment(list, n, i).at = i
<1>1. \A n \in 1..Len(list) : \A i \in 1..list[n] :
          Fragment(list, n, i) \in Fragments(list)
  BY DEF Fragments
<1>2. \A n, i : LET f == Fragment(list, n, i) IN
          /\ f.msg = n /\ f.at = i
          /\ f.first <=> i = 1
          /\ f.last <=> i = list[n]
  BY DEF Fragment
<1>3. \A n, i : Fragment(list, n, i) # None
  <2>1. \A n, i : DOMAIN Fragment(list, n, i) = {"msg", "at", "first", "last"}
    BY DEF Fragment
  <2>2. DOMAIN None = {}
    BY DEF None
  <2> QED BY <2>1, <2>2
<1>4. ASSUME NEW f \in Fragments(list)
      PROVE  \E n \in 1..Len(list) : \E i \in 1..list[n] : f = Fragment(list, n, i)
  BY DEF Fragments
<1> QED BY <1>1, <1>2, <1>3, <1>4

\* What is in a sequence with one more element.
LEMMA Appended ==
    ASSUME NEW S, NEW q \in Seq(S), NEW e \in S
    PROVE  \A i \in DOMAIN Append(q, e) :
               (i \in DOMAIN q /\ Append(q, e)[i] = q[i]) \/ Append(q, e)[i] = e
<1>1. /\ DOMAIN Append(q, e) = 1..(Len(q) + 1) /\ DOMAIN q = 1..Len(q) /\ Len(q) \in Nat
      /\ \A i \in 1..Len(q) : Append(q, e)[i] = q[i]
      /\ Append(q, e)[Len(q) + 1] = e
  OBVIOUS
<1> QED BY <1>1

\* What is appended to the rear part of a line is appended to the line.
LEMMA AppendedBehind ==
    ASSUME NEW S, NEW a \in Seq(S), NEW b \in Seq(S), NEW e \in S
    PROVE  a \o Append(b, e) = Append(a \o b, e)
<1>1. <<e>> \in Seq(S) /\ a \o b \in Seq(S)
  OBVIOUS
<1>2. Append(b, e) = b \o <<e>> /\ Append(a \o b, e) = (a \o b) \o <<e>>
  BY <1>1, AppendIsConcat
<1>3. (a \o b) \o <<e>> = a \o (b \o <<e>>)
  BY <1>1, ConcatAssociative
<1> QED BY <1>2, <1>3, Zenon

\* A fragment that fits is added to the end of a line.
LEMMA LineGrows ==
    ASSUME NEW list \in Seq(Nat \ {0}), NEW line, NEW f \in Fragments(list),
           InOrder(line, list), EndsBefore(line, f.msg, f.at)
    PROVE  /\ InOrder(Append(line, f), list)
           /\ EndsBefore(Append(line, f), f.msg + 1, 1)
           /\ ~f.last => EndsBefore(Append(line, f), f.msg, f.at + 1)
<1> DEFINE longer == Append(line, f)
           L == Len(line)
<1>1. /\ line \in Seq(Fragments(list)) /\ longer \in Seq(Fragments(list))
      /\ L = Len(line) /\ L \in Nat /\ Len(longer) = L + 1
      /\ DOMAIN line = 1..L /\ DOMAIN longer = 1..(L + 1)
      /\ \A k \in 1..L : longer[k] = line[k]
      /\ longer[L + 1] = f
      /\ line # <<>> <=> L # 0
  BY DEF InOrder
<1>2. /\ \A k \in 1..L : line[k] \in Fragments(list)
      /\ \A g \in Fragments(list) : g.msg \in Nat /\ g.at \in Nat \ {0}
  BY <1>1, FragmentTypes
<1> HIDE DEF longer, L
<1>3. \A k \in DOMAIN longer : k \in 1..L \/ k = L + 1
  BY <1>1
<1>4. InOrder(longer, list)
  <2>1. ASSUME NEW j \in DOMAIN longer, NEW k \in DOMAIN longer, j < k
        PROVE  longer[j].msg <= longer[k].msg /\ (longer[j].last => longer[j].msg < longer[k].msg)
    <3>1. CASE k \in 1..L
      <4>1. j \in DOMAIN line /\ k \in DOMAIN line /\ longer[j] = line[j] /\ longer[k] = line[k]
        BY <1>1, <2>1, <3>1
      <4> QED BY <2>1, <4>1 DEF InOrder
    <3>2. CASE k = L + 1
      BY <1>1, <2>1, <3>2 DEF EndsBefore
    <3> QED BY <1>3, <3>1, <3>2
  <2>2. ASSUME NEW k \in DOMAIN longer, longer[k].at # 1, k # 1
        PROVE  longer[k-1].msg = longer[k].msg /\ longer[k-1].at = longer[k].at - 1
    <3>1. CASE k \in 1..L
      BY <1>1, <2>2, <3>1 DEF InOrder
    <3>2. CASE k = L + 1
      BY <1>1, <2>2, <3>2 DEF EndsBefore
    <3> QED BY <1>3, <3>1, <3>2
  <2> QED BY <1>1, <2>1, <2>2 DEF InOrder
<1>5. EndsBefore(longer, f.msg + 1, 1)
  BY <1>1, <1>2, SMTT(20) DEF EndsBefore
<1>6. ASSUME ~f.last PROVE EndsBefore(longer, f.msg, f.at + 1)
  <2>1. \A k \in DOMAIN longer : longer[k].msg <= f.msg /\ (longer[k].last => longer[k].msg < f.msg)
    BY <1>1, <1>2, <1>3, <1>6 DEF EndsBefore
  <2>2. longer[Len(longer)].msg = f.msg /\ longer[Len(longer)].at = (f.at + 1) - 1
    BY <1>1, <1>2
  <2> QED BY <2>1, <2>2 DEF EndsBefore
<1> QED BY <1>4, <1>5, <1>6 DEF longer

\* Both parts of a line that is cut are in order ...
LEMMA LineShrinks ==
    ASSUME NEW list \in Seq(Nat \ {0}), NEW a \in Seq(Fragments(list)),
           NEW b \in Seq(Fragments(list)), InOrder(a \o b, list)
    PROVE  InOrder(a, list) /\ InOrder(b, list)
<1>1. /\ Len(a) \in Nat /\ Len(b) \in Nat /\ Len(a \o b) = Len(a) + Len(b)
      /\ \A k \in 1..Len(a) : (a \o b)[k] = a[k]
      /\ \A k \in 1..Len(b) : (a \o b)[Len(a) + k] = b[k]
      /\ DOMAIN a = 1..Len(a) /\ DOMAIN b = 1..Len(b)
      /\ DOMAIN (a \o b) = 1..(Len(a) + Len(b))
  OBVIOUS
<1>2. InOrder(a, list)
  <2>1. \A k \in DOMAIN a : k \in DOMAIN (a \o b) /\ (k # 1 => k - 1 \in DOMAIN a)
    BY <1>1
  <2>2. \A j, k \in DOMAIN a : j < k =>
            a[j].msg <= a[k].msg /\ (a[j].last => a[j].msg < a[k].msg)
    BY <1>1, <2>1 DEF InOrder
  <2>3. \A k \in DOMAIN a : a[k].at # 1 /\ k # 1 =>
            a[k-1].msg = a[k].msg /\ a[k-1].at = a[k].at - 1
    BY <1>1, <2>1 DEF InOrder
  <2> QED BY <2>2, <2>3 DEF InOrder
<1>3. InOrder(b, list)
  <2>1. ASSUME NEW j \in DOMAIN b, NEW k \in DOMAIN b, j < k
        PROVE  b[j].msg <= b[k].msg /\ (b[j].last => b[j].msg < b[k].msg)
    <3>1. Len(a) + j \in DOMAIN (a \o b) /\ Len(a) + k \in DOMAIN (a \o b)
      BY <1>1
    <3> QED BY <1>1, <2>1, <3>1 DEF InOrder
  <2>2. ASSUME NEW k \in DOMAIN b, b[k].at # 1, k # 1
        PROVE  b[k-1].msg = b[k].msg /\ b[k-1].at = b[k].at - 1
    <3>1. Len(a) + k \in DOMAIN (a \o b) /\ Len(a) + k # 1 /\ k - 1 \in 1..Len(b)
      BY <1>1, <2>2
    <3>2. (a \o b)[Len(a) + k] = b[k] /\ (a \o b)[Len(a) + (k - 1)] = b[k-1]
      BY <1>1, <3>1
    <3>3. (Len(a) + k) - 1 = Len(a) + (k - 1)
      BY <1>1
    <3> QED BY <2>2, <3>1, <3>2, <3>3 DEF InOrder
  <2> QED BY <2>1, <2>2 DEF InOrder
<1> QED BY <1>2, <1>3

\* ... the rear part ends as the line did, the front part before some message ...
LEMMA EndStays ==
    ASSUME NEW list \in Seq(Nat \ {0}), NEW a \in Seq(Fragments(list)),
           NEW b \in Seq(Fragments(list)), NEW m, NEW i, EndsBefore(a \o b, m, i)
    PROVE  EndsBefore(b, m, i) /\ EndsBefore(a, m, 1)
<1>1. /\ Len(a) \in Nat /\ Len(b) \in Nat /\ Len(a \o b) = Len(a) + Len(b)
      /\ \A k \in 1..Len(a) : (a \o b)[k] = a[k] /\ k \in DOMAIN (a \o b)
      /\ \A k \in 1..Len(b) : (a \o b)[Len(a) + k] = b[k] /\ Len(a) + k \in DOMAIN (a \o b)
      /\ DOMAIN a = 1..Len(a) /\ DOMAIN b = 1..Len(b)
      /\ b # <<>> => Len(b) \in 1..Len(b) /\ a \o b # <<>>
  OBVIOUS
<1>2. EndsBefore(a, m, 1)
  BY <1>1 DEF EndsBefore
<1>3. \A k \in DOMAIN b : b[k].msg <= m /\ (b[k].last => b[k].msg < m)
  BY <1>1 DEF EndsBefore
<1>4. i # 1 /\ b # <<>> => b[Len(b)].msg = m /\ b[Len(b)].at = i - 1
  BY <1>1 DEF EndsBefore
<1> QED BY <1>2, <1>3, <1>4 DEF EndsBefore

\* ... and neither gets older messages.
LEMMA AboveStays ==
    ASSUME NEW S, NEW a \in Seq(S), NEW b \in Seq(S), NEW n, Above(a \o b, n)
    PROVE  Above(a, n) /\ Above(b, n)
<1>1. /\ \A k \in DOMAIN a : (a \o b)[k] = a[k] /\ k \in DOMAIN (a \o b)
      /\ \A k \in DOMAIN b : (a \o b)[Len(a) + k] = b[k] /\ Len(a) + k \in DOMAIN (a \o b)
  OBVIOUS
<1> QED BY <1>1 DEF Above

\* What is left of a line when its front has been taken off.
LEMMA Behind ==
    ASSUME NEW list \in Seq(Nat \ {0}), NEW a \in Seq(Fragments(list)),
           NEW b \in Seq(Fragments(list))
    PROVE  /\ InOrder(a \o b, list) => InOrder(b, list)
           /\ \A m, i : EndsBefore(a \o b, m, i) => EndsBefore(b, m, i)
           /\ \A n : Above(a \o b, n) => Above(b, n)
  BY LineShrinks, EndStays, AboveStays

\* A fragment is taken from the front of a line into what is being assembled.
With(part, f) == IF f.first THEN <<f>> ELSE Append(part, f)

LEMMA Assembling ==
    ASSUME NEW list \in Seq(Nat \ {0}), NEW part \in Seq(Fragments(list)),
           NEW f \in Fragments(list), NEW tail \in Seq(Fragments(list)),
           InOrder(part \o (<<f>> \o tail), list), Begins(part), f.first \/ part # <<>>
    PROVE  /\ With(part, f) \in Seq(Fragments(list)) /\ With(part, f) # <<>>
           /\ Begins(With(part, f)) /\ With(part, f)[Len(With(part, f))] = f
           /\ With(part, f) \o tail = <<f>> \o tail \/ With(part, f) \o tail = part \o (<<f>> \o tail)
<1> DEFINE more == With(part, f)
           line == part \o (<<f>> \o tail)
<1>1. f.at \in Nat /\ (f.first <=> f.at = 1)
  BY FragmentTypes
<1>2. CASE f.first
  <2>1. more = <<f>>
    BY <1>2 DEF With
  <2> HIDE DEF more
  <2>2. /\ more \in Seq(Fragments(list)) /\ more # <<>> /\ Begins(more)
        /\ more[Len(more)] = f
    BY <1>1, <1>2, <2>1 DEF Begins
  <2> QED BY <2>1, <2>2 DEF more
<1>3. CASE ~f.first
  <2>1. more = Append(part, f) /\ part # <<>> /\ f.at # 1
    BY <1>1, <1>3 DEF With
  <2> HIDE DEF more
  <2>2. more \o tail = line
    <3>1. Append(part, f) = part \o <<f>>
      BY AppendIsConcat
    <3>2. <<f>> \in Seq(Fragments(list))
      OBVIOUS
    <3>3. (part \o <<f>>) \o tail = part \o (<<f>> \o tail)
      BY <3>2, ConcatAssociative
    <3> QED BY <2>1, <3>1, <3>3
  <2>3. /\ more \in Seq(Fragments(list)) /\ more # <<>>
        /\ more[Len(more)] = f
    BY <2>1, SMTT(20)
  <2>4. Begins(more)
    <3>1. /\ Len(part) \in Nat \ {0} /\ Len(part) + 1 \in DOMAIN line
          /\ line[Len(part) + 1] = f
          /\ line[Len(part)] = part[Len(part)]
          /\ (Len(part) + 1) - 1 = Len(part) /\ Len(part) \in DOMAIN part
          /\ Len(part) + 1 # 1
      BY <2>1
    <3> HIDE DEF line
    <3>2. part[Len(part)].msg = f.msg /\ part[Len(part)].at = f.at - 1
      <4>1. InOrder(line, list)
        BY DEF line
      <4> QED BY <2>1, <3>1, <4>1 DEF InOrder
    <3>3. f.msg = part[1].msg /\ f.at = Len(part) + 1
      <4>1. part[Len(part)].msg = part[1].msg /\ part[Len(part)].at = Len(part)
        BY <3>1 DEF Begins
      <4> QED BY <1>1, <3>1, <3>2, <4>1
    <3>4. /\ DOMAIN more = 1..(Len(part) + 1) /\ DOMAIN part = 1..Len(part)
          /\ more[Len(part) + 1] = f /\ more[1] = part[1]
          /\ \A k \in DOMAIN part : more[k] = part[k]
      BY <2>1, <3>1
    <3> QED BY <3>1, <3>3, <3>4 DEF Begins
  <2> QED BY <2>2, <2>3, <2>4 DEF more
<1> QED BY <1>2, <1>3

\* A message all of whose fragments have been assembled.
LEMMA Complete ==
    ASSUME NEW list \in Seq(Nat \ {0}), NEW part \in Seq(Fragments(list)),
           part # <<>>, Begins(part), part[Len(part)].last
    PROVE  /\ part[1].msg \in DOMAIN list /\ part = Whole(list, part[1].msg)
           /\ part[Len(part)].msg = part[1].msg
<1> DEFINE n == part[1].msg
<1>1. /\ Len(part) \in Nat \ {0} /\ 1 \in DOMAIN part /\ Len(part) \in DOMAIN part
      /\ DOMAIN part = 1..Len(part)
      /\ \A k \in DOMAIN part : part[k] \in Fragments(list)
  OBVIOUS
<1>2. n \in 1..Len(list) /\ n \in DOMAIN list
  BY <1>1, FragmentTypes
<1>3. Len(part) = list[n] /\ part[Len(part)].msg = n
  BY <1>1, FragmentTypes DEF Begins
<1>4. \A k \in DOMAIN part : part[k] = Fragment(list, n, k)
  BY <1>1, FragmentTypes DEF Begins
<1>5. part = [k \in 1..Len(part) |-> part[k]]
  BY <1>1
<1> QED BY <1>1, <1>2, <1>3, <1>4, <1>5 DEF Whole

\* One more whole message is handed over.
LEMMA WholeGrows ==
    ASSUME NEW list \in Seq(Nat \ {0}), NEW got \in Seq(Seq(Fragments(list))),
           WholeInOrder(got, list), NEW part \in Seq(Fragments(list)),
           part[1].msg \in DOMAIN list, part = Whole(list, part[1].msg),
           \A i \in DOMAIN got : got[i][1].msg < part[1].msg
    PROVE  WholeInOrder(Append(got, part), list)
<1>1. /\ Len(got) \in Nat /\ DOMAIN got = 1..Len(got)
      /\ DOMAIN Append(got, part) = 1..(Len(got) + 1)
      /\ \A i \in DOMAIN got : Append(got, part)[i] = got[i]
      /\ Append(got, part)[Len(got) + 1] = part
  OBVIOUS
<1>2. \A i \in DOMAIN Append(got, part) : i \in DOMAIN got \/ i = Len(got) + 1
  BY <1>1
<1>3. \A i \in DOMAIN Append(got, part) :
          \E n \in DOMAIN list : Append(got, part)[i] = Whole(list, n)
  BY <1>1, <1>2 DEF WholeInOrder
<1>4. ASSUME NEW i \in DOMAIN Append(got, part), NEW j \in DOMAIN Append(got, part), i < j
      PROVE  Append(got, part)[i][1].msg < Append(got, part)[j][1].msg
  <2>1. i \in DOMAIN got
    BY <1>1, <1>4
  <2>2. CASE j \in DOMAIN got
    BY <1>1, <1>4, <2>1, <2>2 DEF WholeInOrder
  <2>3. CASE j = Len(got) + 1
    BY <1>1, <2>1, <2>3
  <2> QED BY <1>2, <2>2, <2>3
<1> QED BY <1>3, <1>4 DEF WholeInOrder

\* Messages that were handed over have numbers.
LEMMA WholeTypes ==
    ASSUME NEW list \in Seq(Nat \ {0}), NEW got, WholeInOrder(got, list)
    PROVE  \A i \in DOMAIN got : got[i][1].msg \in Int
<1>1. \A n \in DOMAIN list : 1 \in 1..list[n] /\ n \in Int
  OBVIOUS
<1>2. \A n \in DOMAIN list : Whole(list, n)[1].msg = n
  BY <1>1 DEF Whole, Fragment
<1> QED BY <1>1, <1>2 DEF WholeInOrder

----------------------------------------------------------------------------
(* Commands.                                                               *)

\* The parts of the commands' line are lines.
LEMMA CommandLineTypes ==
    ASSUME CommandTypes
    PROVE  /\ One(ep3) \in Seq(Fragments(Commands))
           /\ FromHost \in Seq(Fragments(Commands))
           /\ CommandLine \in Seq(Fragments(Commands))
<1>1. One(ep3) \in Seq(Fragments(Commands))
  BY DEF CommandTypes, One
<1> QED BY <1>1 DEF CommandTypes, FromHost, CommandLine

commandVars == <<command, frag, opened, ReceiveBuffer, RxStalled, ep3, SerialRxBuffer,
                 SerialRxPending, handled>>

\* What the invariant depends on.
LEMMA CommandFrame == CommandInv /\ UNCHANGED commandVars => CommandInv'
  BY DEF CommandInv, CommandTypes, CommandsFlow, HandledFirst, CommandsWhole, CommandLine,
         FromHost, commandVars

\* A report is written and fits: the line grows, or the report waits in the endpoint.
LEMMA CommandWritten == ASSUME CommandInv, Write PROVE CommandInv'
<1> DEFINE f == Fragment(Commands, command, frag)
<1> USE UsbAssumption DEF CommandInv
<1>1. /\ opened /\ command <= Len(Commands) /\ ep3 = None /\ GetOutReport(f)
      /\ frag' = IF f.last THEN 1 ELSE frag + 1
      /\ command' = IF f.last THEN command + 1 ELSE command
      /\ UNCHANGED <<opened, SerialRxBuffer, SerialRxPending, handled>>
  BY DEF Write, history
<1>2. f \in Fragments(Commands) /\ f.msg = command /\ f.at = frag /\ f # None
  BY <1>1, FragmentTypes DEF CommandTypes
<1>3. f.last <=> frag = Commands[command]
  BY DEF Fragment
<1> HIDE DEF f
<1>4. FromHost' = Append(FromHost, f) /\ CommandTypes'
  <2>1. FromHost = ReceiveBuffer
    BY <1>1 DEF FromHost, One, CommandTypes
  <2>2. command' \in 1..(Len(Commands) + 1) /\ frag' \in Nat \ {0}
        /\ IF command' <= Len(Commands) THEN frag' <= Commands[command'] ELSE frag' = 1
    <3>1. \A n \in 1..Len(Commands) : Commands[n] \in Nat \ {0}
      OBVIOUS
    <3>2. /\ command \in 1..Len(Commands) /\ Len(Commands) \in Nat
          /\ frag \in 1..Commands[command]
      BY <1>1, <3>1 DEF CommandTypes
    <3>3. CASE f.last
      BY <1>1, <3>1, <3>2, <3>3
    <3>4. CASE ~f.last
      BY <1>1, <1>3, <3>1, <3>2, <3>4
    <3> QED BY <3>3, <3>4
  <2>3. CASE Len(ReceiveBuffer) >= RBUFFS
    <3>1. RxStalled' = TRUE /\ ep3' = f /\ ReceiveBuffer' = ReceiveBuffer
      BY <1>1, <2>3 DEF GetOutReport
    <3>2. ReceiveBuffer # <<>>
      BY <2>3
    <3>3. FromHost' = Append(FromHost, f)
      BY <1>2, <2>1, <3>1, SMTT(20) DEF FromHost, One, CommandTypes
    <3> QED BY <1>1, <1>2, <2>2, <3>1, <3>2, <3>3 DEF CommandTypes
  <2>4. CASE ~(Len(ReceiveBuffer) >= RBUFFS)
    <3>1. RxStalled' = FALSE /\ ep3' = None /\ ReceiveBuffer' = Append(ReceiveBuffer, f)
      BY <1>1, <2>4 DEF GetOutReport
    <3>2. FromHost' = Append(FromHost, f)
      BY <1>2, <2>1, <3>1, SMTT(20) DEF FromHost, One, CommandTypes
    <3> QED BY <1>1, <1>2, <2>2, <3>1, <3>2 DEF CommandTypes
  <2> QED BY <2>3, <2>4
<1>5. CommandLine' = Append(CommandLine, f)
  <2>1. SerialRxBuffer \in Seq(Fragments(Commands)) /\ FromHost \in Seq(Fragments(Commands))
    BY CommandLineTypes DEF CommandTypes
  <2>2. SerialRxBuffer \o Append(FromHost, f) = Append(SerialRxBuffer \o FromHost, f)
    BY ONLY <1>2, <2>1, AppendedBehind
  <2>3. CommandLine' = SerialRxBuffer \o FromHost'
    BY <1>1 DEF CommandLine
  <2> QED BY ONLY <1>4, <2>2, <2>3, Zenon DEF CommandLine
<1>6. /\ InOrder(CommandLine', Commands)
      /\ EndsBefore(CommandLine', command + 1, 1)
      /\ ~f.last => EndsBefore(CommandLine', command, frag + 1)
  BY <1>1, <1>2, <1>5, LineGrows DEF CommandsFlow
<1>7. /\ CommandLine \in Seq(Fragments(Commands))
      /\ CommandLine' # <<>> /\ CommandLine' \in Seq(Fragments(Commands))
      /\ \A k \in DOMAIN CommandLine' :
             \/ k \in DOMAIN CommandLine /\ CommandLine'[k] = CommandLine[k]
             \/ k = Len(CommandLine) + 1 /\ CommandLine'[k] = f
  BY <1>2, <1>5, CommandLineTypes, SMTT(20)
<1>8. CommandLine'[1].at = 1
  <2>1. CASE CommandLine = <<>>
    BY <1>1, <1>2, <1>5, <2>1 DEF CommandsFlow
  <2>2. CASE CommandLine # <<>>
    BY <1>5, <1>7, <2>2 DEF CommandsFlow
  <2> QED BY <2>1, <2>2
<1>9. CommandsFlow'
  <2>1. EndsBefore(CommandLine', command', 1) /\ EndsBefore(CommandLine', command', frag')
    BY <1>1, <1>6 DEF EndsBefore
  <2> QED BY <1>1, <1>6, <1>7, <1>8, <2>1 DEF CommandsFlow, Begins
<1>10. HandledFirst'
  <2>1. \A i \in DOMAIN handled : handled[i][1].msg \in Int
    BY WholeTypes DEF CommandsWhole
  <2>2. command \in Int /\ command' \in {command, command + 1}
    BY <1>1 DEF CommandTypes
  <2>3. \A i \in DOMAIN handled : handled[i][1].msg < command'
    BY <2>1, <2>2 DEF HandledFirst
  <2>4. \A i \in DOMAIN handled : Above(CommandLine', handled[i][1].msg)
    BY <1>2, <1>7 DEF HandledFirst, Above
  <2> QED BY <1>1, <2>3, <2>4 DEF HandledFirst
<1> QED BY <1>1, <1>4, <1>9, <1>10 DEF CommandsWhole

\* The command is written again from its beginning.
LEMMA CommandReloaded == ASSUME CommandInv, Reload PROVE CommandInv'
<1> USE DEF CommandInv
<1>1. /\ frag' = 1 /\ opened' = TRUE
      /\ UNCHANGED <<command, ReceiveBuffer, RxStalled, ep3, SerialRxBuffer,
                     SerialRxPending, handled>>
  BY DEF Reload, RestartAt, receive
<1>2. CommandLine' = CommandLine
  BY <1>1 DEF CommandLine, FromHost
<1>3. CommandTypes'
  BY <1>1, UsbAssumption DEF CommandTypes
<1>4. CommandsFlow'
  BY <1>1, <1>2 DEF CommandsFlow
<1>5. HandledFirst' /\ CommandsWhole'
  BY <1>1, <1>2 DEF HandledFirst, CommandsWhole
<1> QED BY <1>3, <1>4, <1>5

\* The line is empty, the handle no longer good.
LEMMA CommandUnplugged == ASSUME CommandInv, Unplug PROVE CommandInv'
<1> USE DEF CommandInv
<1>1. /\ ReceiveBuffer' = <<>> /\ ep3' = None /\ SerialRxBuffer' = <<>>
      /\ opened' = FALSE /\ RxStalled' = FALSE /\ SerialRxPending' = FALSE
      /\ UNCHANGED <<command, frag, handled>>
  BY DEF Unplug
<1>2. CommandTypes'
  BY <1>1 DEF CommandTypes
<1>3. CommandLine' = <<>>
  BY <1>1 DEF CommandLine, FromHost, One
<1>4. CommandsFlow'
  BY <1>1, <1>3 DEF CommandsFlow, InOrder, EndsBefore, Begins
<1>5. HandledFirst' /\ CommandsWhole'
  BY <1>1, <1>3 DEF HandledFirst, CommandsWhole, Above
<1> QED BY <1>2, <1>4, <1>5

\* A fragment moves from the rings to what is assembled.
LEMMA CommandDequeued == ASSUME CommandInv, GetCommand PROVE CommandInv'
<1> DEFINE f == Head(ReceiveBuffer)
           tail == FromHost'
<1> USE UsbAssumption DEF CommandInv
<1>1. /\ ~SerialRxPending /\ ReceiveBuffer # <<>> /\ Dequeue
      /\ SerialRxBuffer' = IF f.first THEN <<f>> ELSE Append(SerialRxBuffer, f)
      /\ SerialRxPending' = f.last
      /\ UNCHANGED <<command, frag, opened, handled>>
  BY DEF GetCommand, hostState, history
<1>2. f \in Fragments(Commands) /\ Tail(ReceiveBuffer) \in Seq(Fragments(Commands))
  BY <1>1 DEF CommandTypes
<1>3. /\ ReceiveBuffer' \in Seq(Fragments(Commands)) /\ ep3' = None /\ RxStalled' = FALSE
      /\ tail \in Seq(Fragments(Commands))
      /\ FromHost = <<f>> \o tail
  <2>1. CASE RxStalled
    <3>1. ReceiveBuffer' = Append(Tail(ReceiveBuffer), ep3) /\ ep3' = None /\ RxStalled' = FALSE
      BY <1>1, <2>1 DEF Dequeue
    <3>2. FromHost = Append(ReceiveBuffer, ep3) /\ ep3 \in Fragments(Commands)
      BY <2>1 DEF FromHost, One, CommandTypes
    <3>3. tail = Append(Tail(ReceiveBuffer), ep3)
      BY <1>2, <3>1, <3>2 DEF FromHost, One
    <3>4. Append(ReceiveBuffer, ep3) = <<f>> \o Append(Tail(ReceiveBuffer), ep3)
      <4>1. ReceiveBuffer = <<f>> \o Tail(ReceiveBuffer) /\ <<f>> \in Seq(Fragments(Commands))
        BY <1>1, <1>2 DEF CommandTypes
      <4>2. <<f>> \o Append(Tail(ReceiveBuffer), ep3) = Append(<<f>> \o Tail(ReceiveBuffer), ep3)
        BY <1>2, <3>2, <4>1
      <4> QED BY <4>1, <4>2
    <3> QED BY <1>2, <3>1, <3>2, <3>3, <3>4
  <2>2. CASE ~RxStalled
    <3>1. ReceiveBuffer' = Tail(ReceiveBuffer) /\ ep3' = None /\ RxStalled' = RxStalled
      BY <1>1, <2>2 DEF Dequeue, CommandTypes
    <3>2. FromHost = ReceiveBuffer
      BY <2>2 DEF FromHost, One, CommandTypes
    <3>3. tail = Tail(ReceiveBuffer)
      BY <1>2, <3>1, <3>2 DEF FromHost, One
    <3>4. ReceiveBuffer = <<f>> \o Tail(ReceiveBuffer)
      BY <1>1, <1>2 DEF CommandTypes
    <3> QED BY <1>2, <2>2, <3>1, <3>2, <3>3, <3>4
  <2> QED BY <2>1, <2>2
<1> HIDE DEF f, tail
<1>4. f.first \/ SerialRxBuffer # <<>>
  <2>1. CASE SerialRxBuffer = <<>>
    <3>1. CommandLine = <<f>> \o tail
      BY <1>2, <1>3, <2>1 DEF CommandLine
    <3>2. CommandLine # <<>> /\ CommandLine[1] = f
      BY <1>2, <1>3, <3>1
    <3> QED BY <1>2, <3>2, FragmentTypes DEF CommandsFlow
  <2> QED BY <2>1
<1>5. /\ SerialRxBuffer' \in Seq(Fragments(Commands)) /\ SerialRxBuffer' # <<>>
      /\ Begins(SerialRxBuffer') /\ SerialRxBuffer'[Len(SerialRxBuffer')] = f
      /\ InOrder(SerialRxBuffer' \o tail, Commands)
      /\ \A m, i : EndsBefore(CommandLine, m, i) => EndsBefore(SerialRxBuffer' \o tail, m, i)
      /\ \A n : Above(CommandLine, n) => Above(SerialRxBuffer' \o tail, n)
  <2>1. CommandLine = SerialRxBuffer \o (<<f>> \o tail)
    BY <1>3 DEF CommandLine
  <2>2. InOrder(CommandLine, Commands) /\ Begins(SerialRxBuffer)
    BY DEF CommandsFlow
  <2>3. SerialRxBuffer \in Seq(Fragments(Commands))
    BY DEF CommandTypes
  <2>4. SerialRxBuffer' = IF f.first THEN <<f>> ELSE Append(SerialRxBuffer, f)
    BY <1>1 DEF f
  <2>5. SerialRxBuffer' = With(SerialRxBuffer, f)
    BY <2>4 DEF With
  <2>6. /\ SerialRxBuffer' \in Seq(Fragments(Commands)) /\ SerialRxBuffer' # <<>>
        /\ Begins(SerialRxBuffer') /\ SerialRxBuffer'[Len(SerialRxBuffer')] = f
        /\ SerialRxBuffer' \o tail = <<f>> \o tail \/ SerialRxBuffer' \o tail = CommandLine
    <3>1. Commands \in Seq(Nat \ {0}) /\ tail \in Seq(Fragments(Commands))
      BY <1>3
    <3>2. InOrder(SerialRxBuffer \o (<<f>> \o tail), Commands) /\ Begins(SerialRxBuffer)
      BY ONLY <2>1, <2>2
    <3> QED BY ONLY <1>2, <1>4, <2>1, <2>3, <2>5, <3>1, <3>2, Assembling
  <2>7. <<f>> \o tail \in Seq(Fragments(Commands))
    BY <1>2, <1>3
  <2> QED BY <2>1, <2>2, <2>3, <2>6, <2>7, Behind
<1>6. CommandLine' = SerialRxBuffer' \o tail
  BY DEF CommandLine, tail
<1>7. CommandTypes'
  BY <1>1, <1>3, <1>5 DEF CommandTypes
<1>8. CommandsFlow'
  <2>1. CommandLine' # <<>> /\ CommandLine'[1].at = 1
    BY <1>3, <1>5, <1>6 DEF Begins
  <2> QED BY <1>1, <1>5, <1>6, <2>1 DEF CommandsFlow
<1>9. HandledFirst' /\ CommandsWhole'
  BY <1>1, <1>5, <1>6 DEF HandledFirst, CommandsWhole
<1> QED BY <1>7, <1>8, <1>9

\* What is handled is whole and comes after everything handled before.
LEMMA CommandHandled == ASSUME CommandInv, Handle PROVE CommandInv'
<1> DEFINE part == SerialRxBuffer
           n == part[1].msg
<1> USE UsbAssumption DEF CommandInv
<1>1. /\ SerialRxPending
      /\ handled' = Append(handled, part)
      /\ SerialRxBuffer' = <<>> /\ SerialRxPending' = FALSE
      /\ UNCHANGED <<command, frag, opened, ReceiveBuffer, RxStalled, ep3>>
  BY DEF Handle, hostState
<1>2. part \in Seq(Fragments(Commands)) /\ FromHost \in Seq(Fragments(Commands))
  BY CommandLineTypes DEF CommandTypes
<1>3. /\ part # <<>> /\ part[Len(part)].last
      /\ n \in DOMAIN Commands /\ part = Whole(Commands, n) /\ part[Len(part)].msg = n
  BY <1>1, <1>2, Complete DEF CommandsFlow
<1>4. CommandLine' = FromHost /\ CommandLine = part \o FromHost
  BY <1>1, <1>2 DEF CommandLine, FromHost
<1>5. /\ Len(part) \in DOMAIN CommandLine /\ CommandLine[Len(part)] = part[Len(part)]
      /\ 1 \in DOMAIN CommandLine /\ CommandLine[1] = part[1]
  BY <1>2, <1>3, <1>4
<1>6. CommandTypes'
  BY <1>1, <1>2 DEF CommandTypes
<1>7. CommandsFlow'
  <2>1. /\ InOrder(FromHost, Commands)
        /\ EndsBefore(FromHost, command, 1)
        /\ opened => EndsBefore(FromHost, command, frag)
    BY <1>2, <1>4, Behind DEF CommandsFlow
  <2>2. ASSUME FromHost # <<>> PROVE FromHost[1].at = 1
    <3>1. /\ Len(part) + 1 \in DOMAIN CommandLine /\ Len(part) + 1 # 1
          /\ CommandLine[Len(part) + 1] = FromHost[1] /\ (Len(part) + 1) - 1 = Len(part)
          /\ FromHost[1] \in Fragments(Commands)
      BY <1>2, <1>3, <1>4, <2>2, SMTT(20)
    <3>2. FromHost[1].at # 1 => /\ FromHost[1].msg = n
                                /\ part[Len(part)].at = FromHost[1].at - 1
      BY <1>3, <1>5, <3>1 DEF CommandsFlow, InOrder
    <3>3. part[Len(part)].at = Commands[n] /\ part[Len(part)] \in Fragments(Commands)
      BY <1>2, <1>3, FragmentTypes, SMTT(20)
    <3>4. Commands[n] \in Nat
      BY <1>3
    <3>5. FromHost[1].at \in 1..Commands[FromHost[1].msg]
      BY <3>1, FragmentTypes
    <3> HIDE DEF n, part
    <3> QED BY <3>2, <3>3, <3>4, <3>5, SMTT(20)
  <2>3. opened /\ frag # 1 => FromHost # <<>>
    <3>1. CASE FromHost = <<>> /\ opened /\ frag # 1
      <4>1. CommandLine = part
        BY <1>2, <1>4, <3>1
      <4>2. n = command /\ part[Len(part)].at = frag - 1
        BY <1>3, <3>1, <4>1 DEF CommandsFlow, EndsBefore
      <4>3. part[Len(part)].at = Commands[n] /\ Commands[n] \in Nat
        BY <1>2, <1>3, FragmentTypes, SMTT(20)
      <4> QED BY <1>3, <4>2, <4>3, SMTT(20) DEF CommandTypes
    <3> QED BY <3>1
  <2> QED BY <1>1, <1>4, <2>1, <2>2, <2>3 DEF CommandsFlow, Begins
<1>8. \A i \in DOMAIN handled : handled[i][1].msg < n
  BY <1>5 DEF HandledFirst, Above
<1>9. n < command /\ Above(FromHost, n)
  <2>1. n < command
    BY <1>3, <1>5 DEF CommandsFlow, EndsBefore
  <2>2. ASSUME NEW k \in DOMAIN FromHost PROVE n < FromHost[k].msg
    <3>1. /\ Len(part) + k \in DOMAIN CommandLine /\ CommandLine[Len(part) + k] = FromHost[k]
          /\ Len(part) < Len(part) + k
      BY <1>2, <1>4, SMTT(20)
    <3> QED BY <1>3, <1>5, <3>1 DEF CommandsFlow, InOrder
  <2> QED BY <2>1, <2>2 DEF Above
<1>10. CommandsWhole'
  BY <1>1, <1>2, <1>3, <1>8, WholeGrows DEF CommandsWhole, CommandTypes
<1>11. HandledFirst'
  <2>1. \A i \in DOMAIN handled : Above(FromHost, handled[i][1].msg)
    BY <1>2, <1>4, Behind DEF HandledFirst
  <2>2. \A i \in DOMAIN handled' : (i \in DOMAIN handled /\ handled'[i] = handled[i])
                                     \/ handled'[i] = part
    <3>1. handled \in Seq(Seq(Fragments(Commands)))
      BY DEF CommandTypes
    <3> QED BY <1>1, <1>2, <3>1, Appended
  <2>3. \A i \in DOMAIN handled : handled[i][1].msg < command
    BY DEF HandledFirst
  <2>4. ASSUME NEW i \in DOMAIN handled'
        PROVE  handled'[i][1].msg < command /\ Above(FromHost, handled'[i][1].msg)
    <3>1. CASE i \in DOMAIN handled /\ handled'[i] = handled[i]
      BY <2>1, <2>3, <3>1
    <3>2. CASE handled'[i] = part
      BY <1>9, <3>2
    <3> QED BY <2>2, <3>1, <3>2
  <2> QED BY <1>1, <1>4, <2>4 DEF HandledFirst
<1> QED BY <1>6, <1>7, <1>10, <1>11

----------------------------------------------------------------------------
(* Messages.                                                               *)

\* The parts of the messages' line are lines.
LEMMA MessageLineTypes ==
    ASSUME MessageTypes
    PROVE  /\ One(ep2) \in Seq(Fragments(Messages))
           /\ InDevice \in Seq(Fragments(Messages))
           /\ ToHost \in Seq(Fragments(Messages))
           /\ MessageLine \in Seq(Fragments(Messages))
<1>1. One(ep2) \in Seq(Fragments(Messages))
  BY DEF MessageTypes, One
<1>2. InDevice \in Seq(Fragments(Messages))
  BY <1>1 DEF MessageTypes, InDevice
<1>3. ToHost \in Seq(Fragments(Messages))
  BY <1>2 DEF MessageTypes, ToHost
<1> QED BY <1>1, <1>2, <1>3 DEF MessageTypes, MessageLine

\* The parts of the invariant beside the types.
MessageOrder == MessagesFlow /\ HandedUpFirst /\ WholeInOrder(up, Messages)

messageVars == <<buf, hidQueue, ep2, TransmitBuffer, TxStalled, sending, begun, up, gap>>

\* What the invariant depends on.
LEMMA MessageFrame ==
    MessageInv /\ UNCHANGED messageVars /\ (host' = host \/ host' # "flush") => MessageInv'
  BY DEF MessageInv, MessageTypes, MessagesFlow, HandedUpFirst, MessageLine, ToHost,
         InDevice, messageVars

\* What was at the front of the line is gone, what was handed up stays.
LEMMA MessageLost ==
    ASSUME MessageTypes, MessageOrder, MessageTypes', UNCHANGED <<sending, begun, up>>,
           buf' = <<>>, NEW gone \in Seq(Fragments(Messages)),
           MessageLine = gone \o ToHost'
    PROVE  MessageOrder'
<1> USE UsbAssumption
<1>1. ToHost' \in Seq(Fragments(Messages))
  BY MessageLineTypes
<1>2. MessageLine' = ToHost'
  BY <1>1 DEF MessageLine
<1>3. /\ InOrder(MessageLine', Messages)
      /\ \A m, i : EndsBefore(MessageLine, m, i) => EndsBefore(MessageLine', m, i)
      /\ \A n : Above(MessageLine, n) => Above(MessageLine', n)
  BY <1>1, <1>2, Behind DEF MessageOrder, MessagesFlow
<1>4. MessagesFlow'
  BY <1>3 DEF MessageOrder, MessagesFlow, Begins
<1>5. HandedUpFirst'
  BY <1>3 DEF MessageOrder, HandedUpFirst
<1> QED BY <1>4, <1>5 DEF MessageOrder

\* A fragment is assembled, refused, or completes a message.
LEMMA MessageRead == ASSUME MessageInv, Read PROVE MessageInv'
<1> DEFINE f == Head(hidQueue)
           tail == ToHost'
           more == With(buf, f)
<1> USE UsbAssumption DEF MessageInv
<1>1. /\ hidQueue # <<>> /\ hidQueue' = Tail(hidQueue) /\ host' \in {"read", "write"}
      /\ buf' = IF MissedFirst(f) \/ f.last THEN <<>> ELSE more
      /\ up' = IF f.last /\ ~MissedFirst(f) THEN Append(up, more) ELSE up
      /\ UNCHANGED <<ep2, TransmitBuffer, TxStalled, sending, begun, gap>>
  BY DEF Read, transmit, Assembled, With
<1>2. /\ f \in Fragments(Messages) /\ Tail(hidQueue) \in Seq(Fragments(Messages))
      /\ hidQueue = <<f>> \o Tail(hidQueue)
  BY <1>1 DEF MessageTypes
<1>3. more \in Seq(Fragments(Messages))
  BY <1>2 DEF With, MessageTypes
<1>4. tail \in Seq(Fragments(Messages)) /\ ToHost = <<f>> \o tail
  <2>1. InDevice \in Seq(Fragments(Messages)) /\ InDevice' = InDevice
    BY <1>1, MessageLineTypes DEF InDevice
  <2>2. <<f>> \in Seq(Fragments(Messages))
    BY <1>2
  <2>3. tail = Tail(hidQueue) \o InDevice
    BY <1>1, <2>1 DEF ToHost
  <2>4. (<<f>> \o Tail(hidQueue)) \o InDevice = <<f>> \o (Tail(hidQueue) \o InDevice)
    BY <1>2, <2>1, <2>2, ConcatAssociative
  <2> QED BY <1>2, <2>1, <2>3, <2>4 DEF ToHost
<1>5. MessageTypes'
  <2>1. buf' \in Seq(Fragments(Messages)) /\ up' \in Seq(Seq(Fragments(Messages)))
    BY <1>1, <1>3 DEF MessageTypes
  <2> QED BY <1>1, <1>2, <2>1 DEF MessageTypes
<1> HIDE DEF f, tail, more
<1>6. ASSUME ~gap PROVE MessageOrder'
  <2> USE <1>6
  <2>0. MessageLine = buf \o (<<f>> \o tail) /\ buf \in Seq(Fragments(Messages))
    BY <1>4 DEF MessageLine, MessageTypes
  <2>1. CASE MissedFirst(f)
    <3>1. buf = <<>> /\ buf' = <<>> /\ up' = up
      BY <1>1, <2>1 DEF MissedFirst
    <3>2. MessageLine = <<f>> \o tail /\ <<f>> \in Seq(Fragments(Messages))
      BY <1>2, <1>4, <2>0, <3>1
    <3> QED BY <1>1, <1>5, <3>1, <3>2, MessageLost DEF MessageOrder, tail
  <2>2. CASE ~MissedFirst(f)
    <3>1. f.first \/ buf # <<>>
      BY <2>2 DEF MissedFirst
    <3>2. /\ more # <<>> /\ Begins(more) /\ more[Len(more)] = f
          /\ more \o tail = <<f>> \o tail \/ more \o tail = MessageLine
      BY <1>2, <1>4, <2>0, <3>1, Assembling DEF MessagesFlow, more
    <3>3. <<f>> \o tail \in Seq(Fragments(Messages))
      BY <1>2, <1>4
    <3>4. /\ InOrder(more \o tail, Messages)
          /\ \A m, i : EndsBefore(MessageLine, m, i) => EndsBefore(more \o tail, m, i)
          /\ \A n : Above(MessageLine, n) => Above(more \o tail, n)
      BY <2>0, <3>2, <3>3, Behind DEF MessagesFlow
    <3>5. CASE ~f.last
      <4>1. buf' = more /\ up' = up
        BY <1>1, <2>2, <3>5
      <4>2. MessageLine' = more \o tail
        BY <4>1 DEF MessageLine, tail
      <4>3. MessagesFlow'
        BY <1>1, <3>2, <3>4, <4>1, <4>2 DEF MessagesFlow
      <4>4. HandedUpFirst'
        BY <1>1, <3>4, <4>1, <4>2 DEF HandedUpFirst
      <4> QED BY <4>1, <4>3, <4>4 DEF MessageOrder
    <3>6. CASE f.last
      <4> DEFINE n == more[1].msg
      <4>1. buf' = <<>> /\ up' = Append(up, more)
        BY <1>1, <2>2, <3>6
      <4>2. MessageLine' = tail
        BY <1>4, <4>1 DEF MessageLine, tail
      <4>3. n \in DOMAIN Messages /\ more = Whole(Messages, n) /\ f.msg = n
        BY <1>3, <3>2, <3>6, Complete
      <4>4. /\ Len(more) \in DOMAIN (more \o tail) /\ (more \o tail)[Len(more)] = f
            /\ 1 \in DOMAIN (more \o tail) /\ (more \o tail)[1] = more[1]
        BY <1>3, <1>4, <3>2
      <4>5. \A i \in DOMAIN up : up[i][1].msg < n
        BY <3>4, <4>4 DEF HandedUpFirst, Above
      <4>6. WholeInOrder(up', Messages)
        BY <1>3, <4>1, <4>3, <4>5, WholeGrows DEF MessageTypes
      <4>7. Above(tail, n)
        <5>1. ASSUME NEW k \in DOMAIN tail PROVE n < tail[k].msg
          <6>1. /\ Len(more) + k \in DOMAIN (more \o tail)
                /\ (more \o tail)[Len(more) + k] = tail[k] /\ Len(more) < Len(more) + k
            BY <1>3, <1>4
          <6> QED BY <3>4, <3>6, <4>3, <4>4, <6>1 DEF InOrder
        <5> QED BY <5>1 DEF Above
      <4>8. /\ InOrder(tail, Messages)
            /\ \A m, i : EndsBefore(more \o tail, m, i) => EndsBefore(tail, m, i)
            /\ \A m : Above(more \o tail, m) => Above(tail, m)
        BY <1>3, <1>4, <3>4, Behind
      <4>9. MessagesFlow'
        BY <1>1, <3>4, <4>1, <4>2, <4>8 DEF MessagesFlow, Begins
      <4>10. n <= begun /\ (sending # <<>> => n < sending[1])
        <5>1. EndsBefore(more \o tail, begun + 1, 1)
          BY <3>4 DEF MessagesFlow
        <5>2. n < begun + 1
          BY <3>6, <4>3, <4>4, <5>1 DEF EndsBefore
        <5>3. sending # <<>> => EndsBefore(more \o tail, sending[1], sending[2])
          BY <3>4 DEF MessagesFlow
        <5>4. sending # <<>> => n < sending[1]
          BY <3>6, <4>3, <4>4, <5>3 DEF EndsBefore
        <5> QED BY <4>3, <5>2, <5>4, SMTT(20) DEF MessageTypes
      <4>11. HandedUpFirst'
        <5>1. \A i \in DOMAIN up' : (i \in DOMAIN up /\ up'[i] = up[i]) \/ up'[i] = more
          BY <1>3, <4>1, Appended DEF MessageTypes
        <5>2. ASSUME NEW i \in DOMAIN up'
              PROVE  /\ up'[i][1].msg <= begun
                     /\ sending # <<>> => up'[i][1].msg < sending[1]
                     /\ Above(tail, up'[i][1].msg)
          <6>1. CASE i \in DOMAIN up /\ up'[i] = up[i]
            BY <3>4, <4>8, <6>1 DEF HandedUpFirst
          <6>2. CASE up'[i] = more
            BY <4>7, <4>10, <6>2
          <6> QED BY <5>1, <6>1, <6>2
        <5> QED BY <1>1, <4>2, <5>2 DEF HandedUpFirst
      <4> QED BY <4>6, <4>9, <4>11 DEF MessageOrder
    <3> QED BY <3>5, <3>6
  <2> QED BY <2>1, <2>2
<1> QED BY <1>1, <1>5, <1>6 DEF MessageOrder

\* The host forgets what it has read.
LEMMA MessageDropped ==
    ASSUME MessageInv, Flush \/ ReadTimeout \/ Reload
    PROVE  MessageInv'
<1> USE DEF MessageInv
<1>1. UNCHANGED <<ep2, TransmitBuffer, TxStalled, sending, begun, up, gap>>
  BY DEF Flush, ReadTimeout, Reload, transmit, history, bounds
<1>2. InDevice' = InDevice /\ InDevice \in Seq(Fragments(Messages))
  BY <1>1, MessageLineTypes DEF InDevice
<1>3. CASE Flush /\ hidQueue = <<>>
  BY <1>1, <1>3, MessageFrame DEF Flush, messageVars
<1>4. CASE Flush /\ hidQueue # <<>>
  <2> DEFINE f == Head(hidQueue)
  <2>1. buf' = <<>> /\ buf = <<>> /\ hidQueue' = Tail(hidQueue) /\ host' = host
    BY <1>4 DEF Flush, MessageTypes
  <2>2. /\ <<f>> \in Seq(Fragments(Messages)) /\ Tail(hidQueue) \in Seq(Fragments(Messages))
        /\ hidQueue = <<f>> \o Tail(hidQueue)
    BY <1>4 DEF MessageTypes
  <2>3. MessageTypes'
    BY <1>1, <2>1, <2>2 DEF MessageTypes
  <2>4. MessageLine = <<f>> \o ToHost'
    <3>1. ToHost' = Tail(hidQueue) \o InDevice
      BY <1>2, <2>1 DEF ToHost
    <3>2. (<<f>> \o Tail(hidQueue)) \o InDevice = <<f>> \o (Tail(hidQueue) \o InDevice)
      BY <1>2, <2>2, ConcatAssociative
    <3>3. MessageLine = ToHost
      BY <2>1, MessageLineTypes DEF MessageLine
    <3> QED BY <2>2, <3>1, <3>2, <3>3 DEF ToHost
  <2> QED BY <1>1, <2>1, <2>2, <2>3, <2>4, MessageLost DEF MessageOrder
<1>5. CASE ReadTimeout
  <2>1. buf' = <<>> /\ hidQueue' = hidQueue /\ host' = "write"
    BY <1>5 DEF ReadTimeout
  <2>2. MessageTypes'
    BY <1>1, <2>1 DEF MessageTypes
  <2>3. MessageLine = buf \o ToHost'
    BY <1>2, <2>1 DEF MessageLine, ToHost
  <2>4. buf \in Seq(Fragments(Messages))
    BY DEF MessageTypes
  <2> QED BY <1>1, <2>1, <2>2, <2>3, <2>4, MessageLost DEF MessageOrder
<1>6. CASE Reload
  <2>1. buf' = <<>> /\ hidQueue' = <<>> /\ host' = host
    BY <1>6 DEF Reload
  <2>2. MessageTypes'
    BY <1>1, <2>1 DEF MessageTypes
  <2>3. MessageLine = (buf \o hidQueue) \o ToHost' /\ buf \o hidQueue \in Seq(Fragments(Messages))
    <3>1. buf \in Seq(Fragments(Messages)) /\ hidQueue \in Seq(Fragments(Messages))
      BY DEF MessageTypes
    <3>2. ToHost' = InDevice
      BY <1>2, <2>1 DEF ToHost
    <3>3. (buf \o hidQueue) \o InDevice = buf \o (hidQueue \o InDevice)
      BY <1>2, <3>1, ConcatAssociative
    <3> QED BY <3>1, <3>2, <3>3 DEF MessageLine, ToHost
  <2> QED BY <1>1, <2>1, <2>2, <2>3, MessageLost DEF MessageOrder
<1> QED BY <1>3, <1>4, <1>5, <1>6

\* USB_SetInReport puts the head of the ring into the endpoint.
LEMMA InReport ==
    ASSUME NEW ring \in Seq(Fragments(Messages)), SetInReport(ring)
    PROVE  /\ InDevice' = ring
           /\ TransmitBuffer' \in Seq(Fragments(Messages))
           /\ ep2' \in Fragments(Messages) \cup {None}
           /\ TxStalled' => ep2' = None
<1>1. CASE ring = <<>>
  BY <1>1 DEF SetInReport, InDevice, One, None
<1>2. CASE ring # <<>>
  <2>1. /\ ep2' = Head(ring) /\ TransmitBuffer' = Tail(ring) /\ TxStalled' = FALSE
        /\ Head(ring) \in Fragments(Messages) /\ Tail(ring) \in Seq(Fragments(Messages))
        /\ ring = <<Head(ring)>> \o Tail(ring)
    BY <1>2 DEF SetInReport
  <2>2. ep2' # None
    BY <2>1, UsbAssumption, FragmentTypes
  <2> QED BY <2>1, <2>2 DEF InDevice, One
<1> QED BY <1>1, <1>2

\* A report moves from the endpoint to the queue, or is lost there.
LEMMA MessageTransferred == ASSUME MessageInv, InTransfer PROVE MessageInv'
<1> USE UsbAssumption DEF MessageInv
<1>1. /\ ep2 # None /\ SetInReport(TransmitBuffer)
      /\ UNCHANGED <<host, buf, sending, begun, up>>
      /\ \/ hidQueue' = Append(hidQueue, ep2) /\ gap' = gap
         \/ gap' = TRUE /\ hidQueue' = hidQueue
  BY DEF InTransfer
<1>2. ep2 \in Fragments(Messages) /\ TransmitBuffer \in Seq(Fragments(Messages))
  BY <1>1 DEF MessageTypes
<1>3. MessageTypes'
  <2>1. hidQueue' \in Seq(Fragments(Messages))
    <3>1. hidQueue \in Seq(Fragments(Messages))
      BY DEF MessageTypes
    <3>2. Append(hidQueue, ep2) \in Seq(Fragments(Messages))
      BY <1>2, <3>1
    <3>3. CASE hidQueue' = Append(hidQueue, ep2)
      BY <3>2, <3>3
    <3>4. CASE hidQueue' = hidQueue
      BY <3>1, <3>4
    <3> QED BY <1>1, <3>3, <3>4
  <2>2. /\ TransmitBuffer' \in Seq(Fragments(Messages))
        /\ ep2' \in Fragments(Messages) \cup {None}
        /\ TxStalled' => ep2' = None
    BY <1>1, <1>2, InReport
  <2> QED BY <1>1, <2>1, <2>2 DEF MessageTypes
<1>4. CASE gap' = TRUE
  BY <1>3, <1>4
<1>5. CASE hidQueue' = Append(hidQueue, ep2) /\ gap' = gap
  <2>1. InDevice = <<ep2>> \o TransmitBuffer
    BY <1>1 DEF InDevice, One
  <2>2. ToHost' = Append(hidQueue, ep2) \o TransmitBuffer
    BY <1>1, <1>2, <1>5, InReport DEF ToHost
  <2>3. hidQueue \in Seq(Fragments(Messages)) /\ <<ep2>> \in Seq(Fragments(Messages))
    BY <1>2 DEF MessageTypes
  <2>4. Append(hidQueue, ep2) = hidQueue \o <<ep2>>
    BY <1>2, <2>3, AppendIsConcat
  <2>5. (hidQueue \o <<ep2>>) \o TransmitBuffer = hidQueue \o (<<ep2>> \o TransmitBuffer)
    BY <1>2, <2>3, ConcatAssociative, SMTT(20)
  <2>6. MessageLine' = MessageLine
    BY <1>1, <2>1, <2>2, <2>4, <2>5 DEF MessageLine, ToHost
  <2> QED BY <1>1, <1>3, <1>5, <2>6 DEF MessagesFlow, HandedUpFirst
<1> QED BY <1>1, <1>4, <1>5

\* The next message begins where all before it have ended.
LEMMA MessageBegun == ASSUME MessageInv, BeginSend PROVE MessageInv'
<1> USE UsbAssumption DEF MessageInv
<1>1. /\ sending = <<>> /\ begun < Len(Messages)
      /\ begun' = begun + 1 /\ sending' = <<begun + 1, 1>>
      /\ UNCHANGED <<host, buf, hidQueue, ep2, TransmitBuffer, TxStalled, up, gap>>
  BY DEF BeginSend, hostState, transmit
<1>2. begun \in Nat /\ begun + 1 \in 1..Len(Messages)
  BY <1>1 DEF MessageTypes
<1>3. MessageTypes'
  <2>1. 1 \in 1..Messages[begun + 1]
    BY <1>2
  <2> QED BY <1>1, <1>2, <2>1 DEF MessageTypes
<1>4. ASSUME ~gap PROVE MessagesFlow' /\ HandedUpFirst'
  <2>1. MessageLine' = MessageLine /\ MessageLine \in Seq(Fragments(Messages))
    BY <1>1, MessageLineTypes DEF MessageLine, ToHost, InDevice
  <2>2. sending'[1] = begun + 1 /\ sending'[2] = 1 /\ sending' # <<>>
    BY <1>1
  <2>3. EndsBefore(MessageLine, begun + 1, 1)
    BY <1>4 DEF MessagesFlow
  <2>4. EndsBefore(MessageLine, begun + 1 + 1, 1)
    <3>1. \A k \in DOMAIN MessageLine : MessageLine[k].msg \in Int
      BY <2>1, FragmentTypes
    <3> QED BY <1>2, <2>3, <3>1 DEF EndsBefore
  <2>5. \A i \in DOMAIN up : up[i][1].msg \in Int
    BY <1>4, WholeTypes
  <2>6. MessagesFlow'
    BY <1>1, <1>4, <2>1, <2>2, <2>3, <2>4 DEF MessagesFlow
  <2>7. HandedUpFirst'
    BY <1>1, <1>2, <1>4, <2>1, <2>2, <2>5 DEF HandedUpFirst
  <2> QED BY <2>6, <2>7
<1> QED BY <1>1, <1>3, <1>4

\* The device goes on in the same message or has sent it.
LEMMA NextFragmentTypes ==
    ASSUME MessageTypes, sending # <<>>
    PROVE  /\ sending = <<begun, sending[2]>> /\ sending[1] = begun /\ begun \in 1..Len(Messages)
           /\ sending[2] \in 1..Messages[begun]
           /\ IF sending[2] = Messages[begun] THEN NextFragment = <<>>
              ELSE NextFragment = <<begun, sending[2] + 1>> /\ sending[2] + 1 \in 1..Messages[begun]
<1>1. PICK i \in 1..Messages[begun] : begun # 0 /\ sending = <<begun, i>>
  BY DEF MessageTypes
<1>2. begun \in 1..Len(Messages) /\ Messages[begun] \in Nat
  BY <1>1, UsbAssumption DEF MessageTypes
<1> QED BY <1>1, <1>2 DEF NextFragment

\* A fragment is sent and fits.
LEMMA MessageTransmitted == ASSUME MessageInv, Transmit PROVE MessageInv'
<1> DEFINE i == sending[2]
           f == Fragment(Messages, begun, i)
           ring == Append(TransmitBuffer, f)
<1> USE UsbAssumption DEF MessageInv
<1>1. /\ sending # <<>> /\ sending[1] = begun /\ begun \in 1..Len(Messages)
      /\ i \in 1..Messages[begun] /\ sending' = NextFragment
      /\ UNCHANGED <<host, buf, hidQueue, begun, up, gap>>
  BY NextFragmentTypes DEF Transmit, hostState, history
<1>2. f \in Fragments(Messages) /\ f.msg = begun /\ f.at = i
  BY <1>1, FragmentTypes
<1>3. f.last <=> i = Messages[begun]
  BY DEF Fragment
<1>4. IF f.last THEN sending' = <<>>
      ELSE sending' = <<begun, i + 1>> /\ i + 1 \in 1..Messages[begun]
  BY <1>1, <1>3, NextFragmentTypes
<1>5. /\ TransmitBuffer \in Seq(Fragments(Messages)) /\ hidQueue \in Seq(Fragments(Messages))
      /\ buf \in Seq(Fragments(Messages)) /\ ring \in Seq(Fragments(Messages))
      /\ One(ep2) \in Seq(Fragments(Messages))
  BY <1>2, MessageLineTypes DEF MessageTypes
<1> HIDE DEF f, i
<1>6. /\ InDevice' = Append(InDevice, f)
      /\ TransmitBuffer' \in Seq(Fragments(Messages))
      /\ ep2' \in Fragments(Messages) \cup {None}
      /\ TxStalled' => ep2' = None
  <2>1. CASE Connected /\ TxStalled
    <3>1. SetInReport(ring) /\ ep2 = None
      BY <1>1, <2>1 DEF Transmit, MessageTypes, f, i
    <3>2. InDevice = TransmitBuffer
      BY <1>5, <3>1 DEF InDevice, One
    <3> HIDE DEF ring
    <3>3. InDevice' = ring
      BY <1>5, <3>1, InReport
    <3>4. /\ TransmitBuffer' \in Seq(Fragments(Messages))
          /\ ep2' \in Fragments(Messages) \cup {None}
          /\ TxStalled' => ep2' = None
      BY <1>5, <3>1, InReport
    <3> QED BY <3>2, <3>3, <3>4 DEF ring
  <2>2. CASE ~(Connected /\ TxStalled)
    <3>1. TransmitBuffer' = ring /\ UNCHANGED <<TxStalled, ep2>>
      BY <1>1, <2>2 DEF Transmit, f, i
    <3>2. One(ep2) \o Append(TransmitBuffer, f) = Append(One(ep2) \o TransmitBuffer, f)
      BY ONLY <1>2, <1>5, AppendedBehind
    <3>3. InDevice' = One(ep2) \o Append(TransmitBuffer, f)
      BY <3>1 DEF InDevice, One
    <3>4. InDevice' = Append(InDevice, f)
      BY ONLY <3>2, <3>3, Zenon DEF InDevice
    <3> QED BY <1>5, <3>1, <3>4 DEF MessageTypes
  <2> QED BY <2>1, <2>2
<1>7. MessageTypes'
  <2>1. sending' = <<>> \/ \E j \in 1..Messages[begun] : begun # 0 /\ sending' = <<begun, j>>
    BY <1>1, <1>4
  <2> QED BY <1>1, <1>6, <2>1 DEF MessageTypes
<1>8. MessageLine' = Append(MessageLine, f)
  <2>1. InDevice \in Seq(Fragments(Messages)) /\ ToHost \in Seq(Fragments(Messages))
    BY MessageLineTypes
  <2>2. hidQueue \o Append(InDevice, f) = Append(hidQueue \o InDevice, f)
    BY ONLY <1>2, <1>5, <2>1, AppendedBehind
  <2>3. ToHost' = hidQueue \o InDevice' /\ MessageLine' = buf \o ToHost'
    BY <1>1 DEF ToHost, MessageLine
  <2>4. ToHost' = Append(ToHost, f)
    BY ONLY <1>6, <2>2, <2>3, Zenon DEF ToHost
  <2>5. buf \o Append(ToHost, f) = Append(buf \o ToHost, f)
    BY ONLY <1>2, <1>5, <2>1, AppendedBehind
  <2> QED BY ONLY <2>3, <2>4, <2>5, Zenon DEF MessageLine
<1>9. ASSUME ~gap PROVE MessagesFlow' /\ HandedUpFirst'
  <2>1. /\ InOrder(MessageLine', Messages)
        /\ EndsBefore(MessageLine', begun + 1, 1)
        /\ ~f.last => EndsBefore(MessageLine', begun, i + 1)
    BY <1>1, <1>2, <1>8, <1>9, LineGrows DEF MessagesFlow, i
  <2>2. sending' # <<>> => ~f.last /\ sending'[1] = begun /\ sending'[2] = i + 1
    BY <1>4
  <2>3. MessagesFlow'
    BY <1>1, <1>9, <2>1, <2>2 DEF MessagesFlow
  <2>4. \A k \in DOMAIN MessageLine' :
            (k \in DOMAIN MessageLine /\ MessageLine'[k] = MessageLine[k]) \/ MessageLine'[k] = f
    BY <1>2, <1>8, MessageLineTypes, Appended
  <2>5. ASSUME NEW j \in DOMAIN up PROVE up[j][1].msg < begun /\ Above(MessageLine', up[j][1].msg)
    BY <1>1, <1>2, <1>9, <2>4 DEF HandedUpFirst, Above
  <2>6. \A j \in DOMAIN up : up[j][1].msg <= begun
    BY <1>9 DEF HandedUpFirst
  <2>7. HandedUpFirst'
    BY <1>1, <2>2, <2>5, <2>6 DEF HandedUpFirst
  <2> QED BY <2>3, <2>7
<1> QED BY <1>1, <1>7, <1>9

\* The other actions of the device.
LEMMA MessageInDevice ==
    ASSUME MessageInv, Drop \/ GetCommand \/ Unplug
    PROVE  MessageInv'
<1> USE UsbAssumption DEF MessageInv
<1>1. CASE Drop
  <2>1. /\ gap' = TRUE /\ sending # <<>> /\ sending' = NextFragment
        /\ UNCHANGED <<host, buf, hidQueue, ep2, TransmitBuffer, TxStalled, begun, up>>
    BY <1>1 DEF Drop, hostState, transmit
  <2>2. sending' = <<>> \/ \E j \in 1..Messages[begun] : begun # 0 /\ sending' = <<begun, j>>
    BY <2>1, NextFragmentTypes
  <2>3. MessageTypes'
    BY <2>1, <2>2 DEF MessageTypes
  <2> QED BY <2>1, <2>3
<1>2. CASE GetCommand
  <2>1. UNCHANGED <<host, buf, hidQueue, sending, begun, up, gap>>
    BY <1>2 DEF GetCommand, hostState, history
  <2>2. CASE UNCHANGED transmit
    BY <2>1, <2>2, MessageFrame DEF messageVars, transmit
  <2>3. CASE TxStalled /\ SetInReport(TransmitBuffer)
    <3>1. ep2 = None /\ TransmitBuffer \in Seq(Fragments(Messages))
      BY <2>3 DEF MessageTypes
    <3>2. InDevice = TransmitBuffer
      BY <3>1 DEF InDevice, One
    <3>3. /\ InDevice' = InDevice
          /\ TransmitBuffer' \in Seq(Fragments(Messages))
          /\ ep2' \in Fragments(Messages) \cup {None}
          /\ TxStalled' => ep2' = None
      BY <2>3, <3>1, <3>2, InReport
    <3>4. MessageTypes'
      BY <2>1, <3>3 DEF MessageTypes
    <3>5. MessageLine' = MessageLine
      BY <2>1, <3>3 DEF MessageLine, ToHost
    <3> QED BY <2>1, <3>4, <3>5 DEF MessagesFlow, HandedUpFirst
  <2> QED BY <1>2, <2>2, <2>3 DEF GetCommand
<1>3. CASE Unplug
  <2>1. /\ TransmitBuffer' = <<>> /\ ep2' = None /\ sending' = <<>>
        /\ UNCHANGED <<host, buf, hidQueue, begun, up, gap>>
    BY <1>3 DEF Unplug
  <2>2. MessageTypes'
    BY <2>1 DEF MessageTypes
  <2>3. buf \in Seq(Fragments(Messages)) /\ hidQueue \in Seq(Fragments(Messages))
    BY DEF MessageTypes
  <2>4. MessageLine' = buf \o hidQueue
    <3>1. InDevice' = <<>>
      BY <2>1 DEF InDevice, One
    <3> QED BY <2>1, <2>3, <3>1 DEF MessageLine, ToHost
  <2>5. /\ MessageLine = (buf \o hidQueue) \o InDevice
        /\ buf \o hidQueue \in Seq(Fragments(Messages))
        /\ InDevice \in Seq(Fragments(Messages))
    <3>1. InDevice \in Seq(Fragments(Messages))
      BY MessageLineTypes
    <3>2. buf \o hidQueue \in Seq(Fragments(Messages))
      BY <2>3
    <3>3. (buf \o hidQueue) \o InDevice = buf \o (hidQueue \o InDevice)
      BY ONLY <2>3, <3>1, ConcatAssociative
    <3> QED BY <3>1, <3>2, <3>3 DEF MessageLine, ToHost
  <2>6. ASSUME ~gap PROVE MessagesFlow' /\ HandedUpFirst'
    <3>1. /\ InOrder(MessageLine', Messages)
          /\ EndsBefore(MessageLine', begun + 1, 1)
      BY <2>4, <2>5, <2>6, LineShrinks, EndStays DEF MessagesFlow
    <3>2. \A n : Above(MessageLine, n) => Above(MessageLine', n)
      BY <2>4, <2>5, AboveStays
    <3>3. MessagesFlow'
      BY <2>1, <2>6, <3>1 DEF MessagesFlow
    <3>4. HandedUpFirst'
      BY <2>1, <2>6, <3>2 DEF HandedUpFirst
    <3> QED BY <3>3, <3>4
  <2> QED BY <2>1, <2>2, <2>6
<1> QED BY <1>1, <1>2, <1>3

----------------------------------------------------------------------------
(* The link.                                                               *)

\* The directions do not disturb each other.
LEMMA LinkInvariant == Spec => [](CommandInv /\ MessageInv)
<1>1. Init => CommandInv /\ MessageInv
  <2> SUFFICES ASSUME Init PROVE CommandInv /\ MessageInv
    OBVIOUS
  <2>1. /\ CommandLine = <<>> /\ MessageLine = <<>> /\ handled = <<>> /\ up = <<>>
    BY DEF Init, CommandLine, FromHost, MessageLine, ToHost, InDevice, One
  <2>2. CommandTypes
    <3>1. \A n \in 1..Len(Commands) : Commands[n] \in Nat \ {0}
      BY UsbAssumption
    <3> QED BY <3>1, UsbAssumption DEF Init, CommandTypes
  <2>3. MessageTypes
    BY UsbAssumption DEF Init, MessageTypes
  <2>4. CommandsFlow /\ HandledFirst
    BY <2>1 DEF Init, CommandsFlow, HandledFirst, InOrder, EndsBefore, Begins
  <2>5. MessagesFlow /\ HandedUpFirst
    BY <2>1 DEF Init, MessagesFlow, HandedUpFirst, InOrder, EndsBefore, Begins
  <2>6. WholeInOrder(up, Messages) /\ WholeInOrder(handled, Commands)
    BY <2>1 DEF WholeInOrder
  <2> QED BY <2>2, <2>3, <2>4, <2>5, <2>6 DEF CommandInv, MessageInv, CommandsWhole
<1>2. CommandInv /\ [Next]_vars => CommandInv'
  <2> SUFFICES ASSUME CommandInv, [Next]_vars PROVE CommandInv'
    OBVIOUS
  <2>1. CASE Flush \/ Read \/ ReadTimeout \/ NothingToWrite
    BY <2>1, CommandFrame
       DEF Flush, Read, ReadTimeout, NothingToWrite, commandVars, receive, history
  <2>2. CASE InTransfer \/ BeginSend \/ Transmit \/ Drop
    BY <2>2, CommandFrame
       DEF InTransfer, BeginSend, Transmit, Drop, commandVars, receive, history, hostState
  <2>3. CASE UNCHANGED vars
    BY <2>3, CommandFrame DEF vars, commandVars, receive, history, hostState
  <2> QED
    BY <2>1, <2>2, <2>3, CommandWritten, CommandReloaded, CommandDequeued, CommandHandled,
       CommandUnplugged DEF Next, Host, Device
<1>3. MessageInv /\ [Next]_vars => MessageInv'
  <2> SUFFICES ASSUME MessageInv, [Next]_vars PROVE MessageInv'
    OBVIOUS
  <2>1. CASE Write \/ NothingToWrite
    BY <2>1, MessageFrame DEF Write, NothingToWrite, messageVars, transmit, history
  <2>2. CASE Handle
    BY <2>2, MessageFrame DEF Handle, messageVars, transmit, hostState
  <2>3. CASE UNCHANGED vars
    BY <2>3, MessageFrame DEF vars, messageVars, transmit, history, hostState
  <2> QED
    BY <2>1, <2>2, <2>3, MessageRead, MessageDropped, MessageTransferred, MessageBegun,
       MessageTransmitted, MessageInDevice DEF Next, Host, Device
<1> QED BY <1>1, <1>2, <1>3, PTL DEF Spec

\* Whatever fails or is unplugged: what SerialGetCommand assembles and the
\* application handles are whole commands, in the order the host writes them, none
\* of them twice (reload_hid_device and the retry of a command in usb_try_write).
THEOREM CommandsArriveWhole == Spec => []CommandsWhole
<1>1. CommandInv => CommandsWhole
  BY DEF CommandInv
<1> QED BY <1>1, LinkInvariant, PTL

\* As long as no fragment is dropped from a full ring or queue, what assemble_frags
\* hands up are whole messages, in the order of SerialUSBSend, none of them twice.
THEOREM MessagesArriveWhole == Spec => []MessagesWhole
<1>1. MessageInv => MessagesWhole
  BY DEF MessageInv, MessagesWhole
<1> QED BY <1>1, LinkInvariant, PTL
=============================================================================
