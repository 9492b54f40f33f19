--------------------------- MODULE Dispatch_proof ---------------------------
(***************************************************************************)
(* Proofs about Dispatch for any requests, cache size and time-out, any    *)
(* number of faults, and any nesting of waits, callbacks and workarounds.  *)
(*                                                                         *)
(* A call in progress has a depth, counted from the main program: what is  *)
(* at a depth stays there until it returns.  The invariants say which call *)
(* can be on top of which, and relate each static of the code to the calls *)
(* that have set it.  The handles tell the requests apart (DistinctHandles,*)
(* in Dispatch), without which the confirm of one request would remove     *)
(* another from the cache.                                                 *)
(***************************************************************************)
EXTENDS Dispatch, FiniteSetTheorems, WellFoundedInduction, TLAPS

----------------------------------------------------------------------------
(* Calls and what they can be on top of.                                   *)

Call ==
    [op : {"main"}, at : {"app"}]
    \cup [op : {"callback"}, at : {"app"}, wrapped : BOOLEAN]
    \cup [op : {"wait"}, at : {"dispatch", "check"}, kind : Kind, rounds : Nat]
    \cup [op : {"dispatch"}, at : {"loop", "called", "flushed"}]
    \cup [op : {"flush"}, at : {"wait", "purge"}, slot : Nat, rxOnOld : BOOLEAN]
    \cup [op : {"pcps"}, at : {"wait", "send"}, req : Req]

MayCall(g, f) ==
    \/ f.op = "callback" /\ \/ g.op = "dispatch" /\ g.at = "called"
                            \/ g.op = "flush" /\ g.at = "purge"
    \/ f.op = "wait" /\ \/ g.op \in {"main", "callback"}
                        \/ g.op = "pcps" /\ g.at = "send"
                        \/ g.op = "flush" /\ g.at = "purge"
    \/ f.op = "dispatch" /\ \/ g.op = "main"
                            \/ g.op = "wait" /\ g.at = "check"
    \/ f.op = "flush" /\ g.op = "dispatch" /\ g.at = "flushed"
    \/ f.op = "pcps" /\ g.op \in {"main", "callback"}

Push(f, s)   == <<f>> \o s
At(s, d)     == s[Len(s) + 1 - d]
Calls(s, op) == {d \in 1..Len(s) : At(s, d).op = op}

Shape(s) ==
    /\ s \in Seq(Call) /\ s # <<>>
    /\ \A d \in 1..Len(s) : At(s, d).op = "main" <=> d = 1
    /\ \A d \in 1..(Len(s) - 1) : MayCall(At(s, d), At(s, d + 1))

\* the dispatchers in their loop, and those that have called a callback
Looping(s)  == {d \in Calls(s, "dispatch") : At(s, d).at # "flushed"}
Handling(s) == {d \in Calls(s, "dispatch") : At(s, d).at = "called"}
\* the callbacks of a wait
Wrapped(s)  == {d \in Calls(s, "callback") : At(s, d).wrapped}

LEMMA PushSeq ==
    ASSUME NEW s \in Seq(Call), NEW f \in Call
    PROVE  /\ Push(f, s) \in Seq(Call) /\ Push(f, s) # <<>> /\ Len(Push(f, s)) = Len(s) + 1
           /\ At(Push(f, s), Len(s) + 1) = f
           /\ \A d \in 1..Len(s) : At(Push(f, s), d) = At(s, d)
           /\ Head(Push(f, s)) = f /\ Tail(Push(f, s)) = s
<1> DEFINE t == Push(f, s)
<1>1. /\ t \in Seq(Call) /\ t # <<>> /\ Len(t) = Len(s) + 1 /\ t[1] = f
      /\ \A i \in 1..Len(s) : t[i + 1] = s[i]
  BY DEF Push
<1>2. Head(t) = f /\ Len(s) \in Nat
  BY <1>1
<1>3. Tail(t) = s
  <2>1. /\ Tail(t) \in Seq(Call) /\ Len(Tail(t)) = Len(s)
        /\ \A i \in 1..Len(s) : Tail(t)[i] = t[i + 1]
    BY <1>1
  <2> HIDE DEF t
  <2>2. \A i \in 1..Len(s) : Tail(t)[i] = s[i]
    BY <1>1, <2>1
  <2> QED
    BY <2>1, <2>2
<1> HIDE DEF t
<1>4. At(t, Len(s) + 1) = f
  <2>1. Len(t) + 1 - (Len(s) + 1) = 1
    BY <1>1, <1>2
  <2> QED
    BY <1>1, <2>1 DEF At
<1>5. ASSUME NEW d \in 1..Len(s) PROVE At(t, d) = At(s, d)
  <2>1. PICK i \in 1..Len(s) : i = Len(s) + 1 - d
    BY <1>2
  <2>2. Len(t) + 1 - d = i + 1
    BY <1>1, <1>2, <2>1
  <2> QED
    BY <1>1, <2>1, <2>2 DEF At
<1> QED
  BY <1>1, <1>2, <1>3, <1>4, <1>5 DEF t

LEMMA PopSeq ==
    ASSUME NEW s \in Seq(Call), s # <<>>
    PROVE  /\ Head(s) \in Call /\ Tail(s) \in Seq(Call) /\ s = Push(Head(s), Tail(s))
           /\ Len(s) = Len(Tail(s)) + 1 /\ Len(Tail(s)) \in Nat
           /\ At(s, Len(s)) = Head(s)
<1>1. Head(s) \in Call /\ Tail(s) \in Seq(Call) /\ Len(s) = Len(Tail(s)) + 1 /\ Len(Tail(s)) \in Nat
  OBVIOUS
<1>2. s = Push(Head(s), Tail(s))
  <2> DEFINE t == Push(Head(s), Tail(s))
  <2>1. /\ t \in Seq(Call) /\ Len(t) = Len(s) /\ t[1] = Head(s)
        /\ \A i \in 1..Len(Tail(s)) : t[i + 1] = Tail(s)[i]
    BY <1>1 DEF Push
  <2>2. ASSUME NEW i \in 1..Len(s) PROVE t[i] = s[i]
    <3>1. CASE i = 1
      BY <2>1, <3>1
    <3>2. CASE i # 1
      <4>1. PICK j \in 1..Len(Tail(s)) : i = j + 1
        <5>1. i - 1 \in 1..Len(Tail(s)) /\ i = (i - 1) + 1
          BY <1>1, <3>2
        <5> QED
          BY <5>1
      <4>2. Tail(s)[j] = s[j + 1]
        BY <4>1
      <4> QED
        BY <2>1, <4>1, <4>2
    <3> QED
      BY <3>1, <3>2
  <2> HIDE DEF t
  <2>3. t = s
    BY <2>1, <2>2
  <2> QED
    BY <2>3 DEF t
<1>3. At(s, Len(s)) = Head(s)
  BY <1>1 DEF At
<1> QED
  BY <1>1, <1>2, <1>3

LEMMA CallsPush ==
    ASSUME NEW s \in Seq(Call), NEW f \in Call
    PROVE  /\ \A op : Calls(Push(f, s), op) =
                          IF f.op = op THEN Calls(s, op) \cup {Len(s) + 1} ELSE Calls(s, op)
           /\ Looping(Push(f, s)) = IF f.op = "dispatch" /\ f.at # "flushed"
                                    THEN Looping(s) \cup {Len(s) + 1} ELSE Looping(s)
           /\ Handling(Push(f, s)) = IF f.op = "dispatch" /\ f.at = "called"
                                     THEN Handling(s) \cup {Len(s) + 1} ELSE Handling(s)
           /\ Wrapped(Push(f, s)) = IF f.op = "callback" /\ f.wrapped
                                    THEN Wrapped(s) \cup {Len(s) + 1} ELSE Wrapped(s)
<1> DEFINE t == Push(f, s)
<1> HIDE DEF t
<1>1. /\ Len(t) = Len(s) + 1 /\ At(t, Len(s) + 1) = f /\ Len(s) \in Nat
      /\ \A d \in 1..Len(s) : At(t, d) = At(s, d)
  <2>1. Len(s) \in Nat
    OBVIOUS
  <2> QED
    BY <2>1, PushSeq DEF t
<1>2. /\ \A d \in 1..(Len(s) + 1) : d \in 1..Len(s) \/ d = Len(s) + 1
      /\ Len(s) + 1 \notin 1..Len(s) /\ Len(s) + 1 \in 1..(Len(s) + 1)
      /\ 1..Len(s) \subseteq 1..(Len(s) + 1)
  BY <1>1
<1>3. ASSUME NEW op
      PROVE  Calls(t, op) = IF f.op = op THEN Calls(s, op) \cup {Len(s) + 1} ELSE Calls(s, op)
  BY <1>1, <1>2 DEF Calls
<1>4. Looping(t) = IF f.op = "dispatch" /\ f.at # "flushed"
                   THEN Looping(s) \cup {Len(s) + 1} ELSE Looping(s)
  BY <1>1, <1>2 DEF Calls, Looping
<1>5. Handling(t) = IF f.op = "dispatch" /\ f.at = "called"
                    THEN Handling(s) \cup {Len(s) + 1} ELSE Handling(s)
  BY <1>1, <1>2 DEF Calls, Handling
<1>6. Wrapped(t) = IF f.op = "callback" /\ f.wrapped
                   THEN Wrapped(s) \cup {Len(s) + 1} ELSE Wrapped(s)
  BY <1>1, <1>2 DEF Calls, Wrapped
<1> QED
  BY <1>3, <1>4, <1>5, <1>6 DEF t

LEMMA CallsRange ==
    ASSUME NEW s, NEW op
    PROVE  /\ Calls(s, op) \subseteq 1..Len(s)
           /\ Looping(s) \subseteq 1..Len(s) /\ Handling(s) \subseteq Looping(s)
           /\ Wrapped(s) \subseteq 1..Len(s)
BY DEF Calls, Looping, Handling, Wrapped

LEMMA ShapePush ==
    ASSUME NEW s, Shape(s), NEW f \in Call, f.op # "main", MayCall(At(s, Len(s)), f)
    PROVE  Shape(Push(f, s))
<1> DEFINE t == Push(f, s)
<1>1. s \in Seq(Call) /\ s # <<>> /\ Len(s) \in Nat \ {0}
  BY DEF Shape
<1>2. /\ t \in Seq(Call) /\ t # <<>> /\ Len(t) = Len(s) + 1 /\ At(t, Len(s) + 1) = f
      /\ \A d \in 1..Len(s) : At(t, d) = At(s, d)
  BY <1>1, PushSeq
<1> HIDE DEF t
<1>3. ASSUME NEW d \in 1..Len(t) PROVE At(t, d).op = "main" <=> d = 1
  BY <1>1, <1>2 DEF Shape
<1>4. ASSUME NEW d \in 1..(Len(t) - 1) PROVE MayCall(At(t, d), At(t, d + 1))
  <2>1. CASE d = Len(s)
    BY <1>1, <1>2, <2>1
  <2>2. CASE d # Len(s)
    <3>1. d \in 1..(Len(s) - 1) /\ d \in 1..Len(s) /\ d + 1 \in 1..Len(s)
      BY <1>1, <1>2, <2>2
    <3> QED
      BY <1>2, <3>1 DEF Shape
  <2> QED
    BY <2>1, <2>2
<1>5. Shape(t)
  BY <1>2, <1>3, <1>4 DEF Shape
<1> QED
  BY <1>5 DEF t

\* Every call but the main program has a caller, which has a shape as well.
LEMMA ShapePop ==
    ASSUME NEW s, Shape(s), Head(s).op # "main"
    PROVE  /\ Shape(Tail(s)) /\ MayCall(At(Tail(s), Len(Tail(s))), Head(s))
           /\ At(Tail(s), Len(Tail(s))) = Head(Tail(s))
<1> DEFINE t == Tail(s)
<1>1. s \in Seq(Call) /\ s # <<>>
  BY DEF Shape
<1>2. /\ Head(s) \in Call /\ t \in Seq(Call) /\ s = Push(Head(s), t)
      /\ Len(s) = Len(t) + 1 /\ Len(t) \in Nat /\ At(s, Len(s)) = Head(s)
  BY <1>1, PopSeq
<1>3. \A d \in 1..Len(t) : At(s, d) = At(t, d)
  <2> HIDE DEF t
  <2> QED
    BY <1>2, PushSeq
<1> HIDE DEF t
<1>4. Len(t) # 0
  BY <1>2 DEF Shape
<1>5. t # <<>>
  BY <1>4
<1>6. ASSUME NEW d \in 1..Len(t) PROVE At(t, d).op = "main" <=> d = 1
  BY <1>2, <1>3 DEF Shape
<1>7. ASSUME NEW d \in 1..(Len(t) - 1) PROVE MayCall(At(t, d), At(t, d + 1))
  <2>1. d \in 1..(Len(s) - 1) /\ d \in 1..Len(t) /\ d + 1 \in 1..Len(t)
    BY <1>2
  <2> QED
    BY <1>3, <2>1 DEF Shape
<1>8. MayCall(At(t, Len(t)), Head(s))
  <2>1. Len(t) \in 1..(Len(s) - 1) /\ Len(t) \in 1..Len(t)
    BY <1>2, <1>4
  <2> QED
    BY <1>2, <1>3, <2>1 DEF Shape
<1>9. At(t, Len(t)) = Head(t)
  BY <1>2, <1>5, PopSeq
<1>10. Shape(t)
  BY <1>2, <1>5, <1>6, <1>7 DEF Shape
<1> QED
  BY <1>8, <1>9, <1>10 DEF t

----------------------------------------------------------------------------
(* What each action does to the calls in progress.                         *)

\* The innermost call and its callers.
LEMMA TopCall ==
    ASSUME Shape(stack)
    PROVE  /\ stack \in Seq(Call) /\ Top \in Call /\ Rest \in Seq(Call)
           /\ stack = Push(Top, Rest) /\ Len(stack) = Len(Rest) + 1 /\ Len(Rest) \in Nat
           /\ At(stack, Len(stack)) = Top
           /\ Top.op # "main" => /\ Shape(Rest) /\ MayCall(Head(Rest), Top)
                                 /\ At(Rest, Len(Rest)) = Head(Rest)
BY PopSeq, ShapePop DEF Shape, Top, Rest

\* The innermost call goes on as g, without or with a call of f.
LEMMA TurnTop ==
    ASSUME Shape(stack), Top.op # "main", NEW g \in Call, g.op = Top.op,
           NEW f \in Call, f.op # "main", MayCall(g, f)
    PROVE  Shape(Push(g, Rest)) /\ Shape(Push(f, Push(g, Rest)))
<1>1. Rest \in Seq(Call) /\ Shape(Rest) /\ MayCall(At(Rest, Len(Rest)), Top)
  BY TopCall
<1>2. MayCall(At(Rest, Len(Rest)), g)
  BY <1>1 DEF MayCall
<1>3. Shape(Push(g, Rest))
  BY <1>1, <1>2, ShapePush
<1>4. At(Push(g, Rest), Len(Push(g, Rest))) = g
  <2>1. Len(Push(g, Rest)) = Len(Rest) + 1 /\ At(Push(g, Rest), Len(Rest) + 1) = g
    BY <1>1, PushSeq
  <2> QED
    BY <2>1
<1>5. Shape(Push(f, Push(g, Rest)))
  BY <1>3, <1>4, ShapePush
<1> QED
  BY <1>3, <1>5

\* The innermost call goes on as g.
LEMMA TurnOnly ==
    ASSUME Shape(stack), Top.op # "main", NEW g \in Call, g.op = Top.op
    PROVE  Shape(Push(g, Rest))
<1>1. Rest \in Seq(Call) /\ Shape(Rest) /\ MayCall(At(Rest, Len(Rest)), Top)
  BY TopCall
<1>2. MayCall(At(Rest, Len(Rest)), g)
  BY <1>1 DEF MayCall
<1> QED
  BY <1>1, <1>2, ShapePush

\* The innermost call calls f.
LEMMA CallTop ==
    ASSUME Shape(stack), NEW f \in Call, f.op # "main", MayCall(Top, f)
    PROVE  Shape(Push(f, stack))
BY TopCall, ShapePush

\* The types of what the calls carry and of what they are decided by.
ControlTypes ==
    /\ Shape(stack)
    /\ sWaiting \in BOOLEAN /\ sWaitCalled \in BOOLEAN /\ sWaitCallbackActive \in BOOLEAN
    /\ isDispatching \in BOOLEAN /\ isCacheFlushFixActive \in BOOLEAN
    /\ isScanInProgress \in BOOLEAN /\ isPCPSRxOn \in BOOLEAN
    /\ rxOn \in BOOLEAN /\ asked \in BOOLEAN /\ raced \in BOOLEAN

LEMMA PushTwo == \A f, g, s : s \in Seq(Call) /\ f \in Call /\ g \in Call
                                  => <<f, g>> \o s = Push(f, Push(g, s))
<1> SUFFICES ASSUME NEW s \in Seq(Call), NEW f \in Call, NEW g \in Call
             PROVE  <<f, g>> \o s = Push(f, Push(g, s))
  OBVIOUS
<1> DEFINE t == <<f, g>> \o s
           u == Push(f, Push(g, s))
           v == Push(g, s)
<1>1. /\ t \in Seq(Call) /\ Len(t) = Len(s) + 2 /\ t[1] = f /\ t[2] = g /\ Len(s) \in Nat
      /\ \A i \in 1..Len(s) : t[i + 2] = s[i]
  OBVIOUS
<1>2. /\ v \in Seq(Call) /\ Len(v) = Len(s) + 1 /\ v[1] = g
      /\ \A i \in 1..Len(s) : v[i + 1] = s[i]
  BY DEF Push
<1>3. u = Push(f, v)
  OBVIOUS
<1> HIDE DEF u, v
<1>4. /\ u \in Seq(Call) /\ Len(u) = Len(v) + 1 /\ u[1] = f
      /\ \A i \in 1..Len(v) : u[i + 1] = v[i]
  BY <1>2, <1>3 DEF Push
<1>5. ASSUME NEW i \in 1..Len(t) PROVE t[i] = u[i]
  <2>1. i = 1 \/ i = 2 \/ \E j \in 1..Len(s) : i = j + 2
    <3>1. i = 1 \/ i = 2 \/ (i - 2 \in 1..Len(s) /\ i = (i - 2) + 2)
      BY <1>1
    <3> QED
      BY <3>1
  <2>2. CASE i = 1
    BY <1>1, <1>4, <2>2
  <2>3. CASE i = 2
    BY <1>1, <1>2, <1>4, <2>3
  <2>4. ASSUME NEW j \in 1..Len(s), i = j + 2 PROVE t[i] = u[i]
    <3>1. j + 1 \in 1..Len(v) /\ i = (j + 1) + 1
      BY <1>2, <2>4
    <3> QED
      BY <1>1, <1>2, <1>4, <2>4, <3>1
  <2> QED
    BY <2>1, <2>2, <2>3, <2>4
<1> HIDE DEF t
<1>6. t = u
  BY <1>1, <1>2, <1>4, <1>5
<1> QED
  BY <1>6 DEF t, u, v

LEMMA AwkwardMoves ==
    ASSUME ControlTypes, NEW r \in Req, AwkwardRequest(r)
    PROVE  \E f \in Call : /\ stack' = Push(f, stack) /\ Shape(stack')
                           /\ f.op = "pcps" /\ f.at = "wait" /\ f.req = r
<1> DEFINE f == [op |-> "pcps", at |-> "wait", req |-> r]
<1>1. f \in Call /\ f.op = "pcps" /\ f.at = "wait" /\ f.req = r
  BY DEF Call
<1>2. stack' = Push(f, stack)
  BY DEF AwkwardRequest, Push
<1>3. MayCall(Top, f)
  BY DEF AwkwardRequest, InApp, MayCall
<1>4. Shape(Push(f, stack))
  <2> HIDE DEF f
  <2> QED
    BY <1>1, <1>3, CallTop DEF ControlTypes
<1> QED
  BY <1>1, <1>2, <1>4

LEMMA PcpsSendMoves ==
    ASSUME ControlTypes, PcpsSend
    PROVE  stack' = Rest /\ Shape(stack')
BY TopCall DEF ControlTypes, PcpsSend

LEMMA AppWaitMoves ==
    ASSUME ControlTypes, NEW kind \in WaitFor, NEW swap \in BOOLEAN, AppWait(kind, swap)
    PROVE  \E f \in Call : /\ stack' = Push(f, stack) /\ Shape(stack')
                           /\ f.op = "wait" /\ f.kind = kind
<1> DEFINE f == [op |-> "wait", at |-> "dispatch", kind |-> kind, rounds |-> 0]
<1>1. f \in Call /\ f.op = "wait" /\ f.kind = kind
  BY DispatchAssumption DEF Call, Kind
<1>2. stack' = Push(f, stack)
  BY DEF AppWait, BeginWait, Push
<1>3. MayCall(Top, f)
  BY DEF AppWait, AppOp, InApp, MayCall
<1>4. Shape(Push(f, stack))
  <2> HIDE DEF f
  <2> QED
    BY <1>1, <1>3, CallTop DEF ControlTypes
<1> QED
  BY <1>1, <1>2, <1>4

LEMMA FixWaitMoves ==
    ASSUME ControlTypes, FixWait
    PROVE  \E g \in Call :
             /\ g.op = Top.op /\ Top.op \in {"pcps", "flush"}
             /\ Top.op = "pcps" => g.req = Top.req
             /\ Top.op = "flush" => g.slot = Top.slot /\ g.rxOnOld = Top.rxOnOld
             /\ Shape(stack')
             /\ \/ ~MayWait /\ stack' = Push(g, Rest) /\ UNCHANGED waits
                \/ MayWait /\ \E f \in Call :
                     /\ f.op = "wait" /\ f.kind = "wakeup"
                     /\ stack' = Push(f, Push(g, Rest))
                     /\ BeginWait("wakeup", table["wakeup"], Push(g, Rest))
<1> DEFINE g == [Top EXCEPT !.at = IF Top.op = "pcps" THEN "send" ELSE "purge"]
           f == [op |-> "wait", at |-> "dispatch", kind |-> "wakeup", rounds |-> 0]
<1>1. /\ Top \in Call /\ Top.op \in {"pcps", "flush"} /\ Shape(stack)
      /\ Rest \in Seq(Call)
  BY TopCall DEF FixWait, ControlTypes
<1>2. /\ g \in Call /\ g.op = Top.op
      /\ Top.op = "pcps" => g.req = Top.req /\ g.at = "send"
      /\ Top.op = "flush" => g.slot = Top.slot /\ g.rxOnOld = Top.rxOnOld /\ g.at = "purge"
  BY <1>1 DEF Call
<1>3. f \in Call /\ f.op = "wait" /\ f.kind = "wakeup" /\ MayCall(g, f)
  BY <1>1, <1>2 DEF Call, Kind, MayCall
<1>4. \/ ~MayWait /\ stack' = Push(g, Rest) /\ UNCHANGED waits
      \/ MayWait /\ stack' = Push(f, Push(g, Rest))
                 /\ BeginWait("wakeup", table["wakeup"], Push(g, Rest))
  BY DEF FixWait, BeginWait, Push
<1>5. Shape(Push(g, Rest)) /\ Shape(Push(f, Push(g, Rest)))
  <2> HIDE DEF f, g
  <2> QED
    BY <1>1, <1>2, <1>3, TurnTop
<1> HIDE DEF f, g
<1> QED
  BY <1>1, <1>2, <1>3, <1>4, <1>5

LEMMA WaitRoundMoves ==
    ASSUME ControlTypes, WaitRound
    PROVE  \E f, g \in Call : /\ stack' = Push(f, Push(g, Rest)) /\ Shape(stack')
                              /\ g.op = "wait" /\ g.kind = Top.kind /\ Top.op = "wait"
                              /\ f.op = "dispatch" /\ f.at = "loop"
<1> DEFINE f == Frame("dispatch", "loop")
           g == [Top EXCEPT !.at = "check", !.rounds = @ + 1]
<1>1. Top \in Call /\ Top.op = "wait" /\ Shape(stack) /\ Rest \in Seq(Call)
  BY TopCall DEF WaitRound, ControlTypes
<1>2. g \in Call /\ g.op = "wait" /\ g.kind = Top.kind /\ g.at = "check"
  <2>1. Top \in [op : {"wait"}, at : {"dispatch", "check"}, kind : Kind, rounds : Nat]
    BY <1>1 DEF Call
  <2>2. PICK n \in Nat : n = Top.rounds + 1
    BY <2>1
  <2>3. g = [Top EXCEPT !.at = "check", !.rounds = n]
    BY <2>1, <2>2
  <2>4. g \in [op : {"wait"}, at : {"dispatch", "check"}, kind : Kind, rounds : Nat]
        /\ g.op = "wait" /\ g.kind = Top.kind /\ g.at = "check"
    <3> HIDE DEF g
    <3> QED
      BY <2>1, <2>2, <2>3
  <2> QED
    BY <2>4 DEF Call
<1>3. f \in Call /\ f.op = "dispatch" /\ f.at = "loop" /\ MayCall(g, f)
  BY <1>2 DEF Call, MayCall, Frame
<1>4. stack' = <<f, g>> \o Rest
  BY DEF WaitRound
<1> HIDE DEF f, g
<1>5. stack' = Push(f, Push(g, Rest))
  BY <1>1, <1>2, <1>3, <1>4, PushTwo
<1>6. Shape(Push(f, Push(g, Rest)))
  BY <1>1, <1>2, <1>3, TurnTop
<1> QED
  BY <1>1, <1>2, <1>3, <1>5, <1>6

LEMMA WaitAgainMoves ==
    ASSUME ControlTypes, WaitAgain
    PROVE  \E g \in Call : /\ stack' = Push(g, Rest) /\ Shape(stack')
                           /\ g.op = "wait" /\ g.kind = Top.kind /\ Top.op = "wait"
<1> DEFINE g == [Top EXCEPT !.at = "dispatch"]
<1>1. Top \in Call /\ Top.op = "wait" /\ Shape(stack)
  BY TopCall DEF WaitAgain, ControlTypes
<1>2. g \in Call /\ g.op = "wait" /\ g.kind = Top.kind
  BY <1>1 DEF Call
<1>3. stack' = Push(g, Rest)
  BY DEF WaitAgain, Push
<1> HIDE DEF g
<1>4. Shape(Push(g, Rest))
  BY <1>1, <1>2, TurnOnly
<1> QED
  BY <1>1, <1>2, <1>3, <1>4

LEMMA WaitEndMoves ==
    ASSUME ControlTypes, WaitEnd
    PROVE  stack' = Rest /\ Shape(stack') /\ Top.op = "wait"
BY TopCall DEF ControlTypes, WaitEnd

LEMMA MainLoopMoves ==
    ASSUME ControlTypes, MainLoop
    PROVE  \E f \in Call : /\ stack' = Push(f, stack) /\ Shape(stack')
                           /\ f.op = "dispatch" /\ f.at = "loop"
<1> DEFINE f == Frame("dispatch", "loop")
<1>1. f \in Call /\ f.op = "dispatch" /\ f.at = "loop"
  BY DEF Call, Frame
<1>2. stack' = Push(f, stack) /\ MayCall(Top, f)
  BY DEF MainLoop, Push, MayCall, Frame
<1> HIDE DEF f
<1>3. Shape(Push(f, stack))
  BY <1>1, <1>2, CallTop DEF ControlTypes
<1> QED
  BY <1>1, <1>2, <1>3

LEMMA DispatchMessageMoves ==
    ASSUME ControlTypes, DispatchMessage
    PROVE  \E f, g \in Call : /\ stack' = Push(f, Push(g, Rest)) /\ Shape(stack')
                              /\ Top.op = "dispatch" /\ Top.at = "loop"
                              /\ g.op = "dispatch" /\ g.at = "called"
                              /\ f.op = "callback"
                              /\ f.wrapped = (table[Head(ring).kind] = "wait")
<1> DEFINE f == [op |-> "callback", at |-> "app", wrapped |-> table[Head(ring).kind] = "wait"]
           g == [Top EXCEPT !.at = "called"]
<1>1. Top \in Call /\ Top.op = "dispatch" /\ Top.at = "loop" /\ Shape(stack)
  BY TopCall DEF DispatchMessage, ControlTypes
<1>2. g \in Call /\ g.op = "dispatch" /\ g.at = "called"
  BY <1>1 DEF Call
<1>3. f \in Call /\ f.op = "callback" /\ f.wrapped = (table[Head(ring).kind] = "wait")
      /\ MayCall(g, f)
  BY <1>2 DEF Call, MayCall
<1>4. stack' = Push(f, Push(g, Rest))
  BY DEF DispatchMessage, CallBack, Push
<1> HIDE DEF f, g
<1>5. Shape(Push(f, Push(g, Rest)))
  BY <1>1, <1>2, <1>3, TurnTop
<1> QED
  BY <1>1, <1>2, <1>3, <1>4, <1>5

\* A callback returns to the dispatcher, or to the loop that gives up requests.
LEMMA CallbackReturnMoves ==
    ASSUME ControlTypes, CallbackReturn
    PROVE  \E g \in Call, c \in Call :
             /\ Top.op = "callback"
             /\ c = Head(Rest) /\ Rest = Push(c, Tail(Rest)) /\ Tail(Rest) \in Seq(Call)
             /\ stack' = Push(g, Tail(Rest)) /\ Shape(stack') /\ g.op = c.op
             /\ \/ /\ c.op = "dispatch" /\ c.at = "called" /\ g.at = "loop"
                   /\ ring' = Tail(ring) /\ UNCHANGED MDR_Cache
                \/ /\ c.op = "flush" /\ c.at = "purge"
                   /\ g.slot = c.slot + 1 /\ g.rxOnOld = c.rxOnOld /\ g.at = "purge"
                   /\ MDR_Cache' = [MDR_Cache EXCEPT ![c.slot] = Empty] /\ UNCHANGED ring
<1> DEFINE c == Head(Rest)
           g == IF c.op = "dispatch" THEN [c EXCEPT !.at = "loop"]
                                     ELSE [c EXCEPT !.slot = c.slot + 1]
<1>1. Shape(Rest) /\ MayCall(c, Top) /\ Top.op = "callback"
  BY TopCall DEF CallbackReturn, ControlTypes
<1>2. /\ c \in Call /\ Rest = Push(c, Tail(Rest)) /\ Tail(Rest) \in Seq(Call) /\ Rest # <<>>
      /\ \/ c.op = "dispatch" /\ c.at = "called"
         \/ c.op = "flush" /\ c.at = "purge"
  BY <1>1, PopSeq DEF Shape, MayCall
<1>3. /\ g \in Call /\ g.op = c.op
      /\ c.op = "dispatch" => g.at = "loop"
      /\ c.op = "flush" => g.slot = c.slot + 1 /\ g.rxOnOld = c.rxOnOld /\ g.at = c.at
  <2>1. CASE c.op = "dispatch"
    BY <1>2, <2>1 DEF Call
  <2>2. CASE c.op = "flush"
    <3>1. c \in [op : {"flush"}, at : {"wait", "purge"}, slot : Nat, rxOnOld : BOOLEAN]
      BY <1>2, <2>2 DEF Call
    <3>2. g \in [op : {"flush"}, at : {"wait", "purge"}, slot : Nat, rxOnOld : BOOLEAN]
      BY <2>2, <3>1
    <3> QED
      BY <2>2, <3>1, <3>2 DEF Call
  <2> QED
    BY <1>2, <2>1, <2>2
<1>4. /\ stack' = Push(g, Tail(Rest))
      /\ \/ /\ c.op = "dispatch" /\ ring' = Tail(ring) /\ UNCHANGED MDR_Cache
         \/ /\ c.op = "flush"
            /\ MDR_Cache' = [MDR_Cache EXCEPT ![c.slot] = Empty] /\ UNCHANGED ring
  BY <1>2 DEF CallbackReturn, Push
<1>5. Shape(Push(g, Tail(Rest)))
  <2> HIDE DEF g
  <2>1. Shape(Tail(Rest)) /\ MayCall(At(Tail(Rest), Len(Tail(Rest))), c)
    BY <1>1, <1>2, ShapePop
  <2>2. MayCall(At(Tail(Rest), Len(Tail(Rest))), g) /\ g.op # "main"
    BY <1>2, <1>3, <2>1 DEF MayCall
  <2> QED
    BY <1>3, <2>1, <2>2, ShapePush
<1> HIDE DEF c, g
<1> QED
  BY <1>1, <1>2, <1>3, <1>4, <1>5 DEF c

\* The dispatcher returns, or begins to give up the requests in the cache.
LEMMA DispatchEndMoves ==
    ASSUME ControlTypes, DispatchEnd
    PROVE  /\ Top.op = "dispatch" /\ Top.at = "loop"
           /\ \/ /\ stack' = Rest /\ Shape(stack')
                 /\ UNCHANGED <<isCacheFlushFixActive, rxOn, raced>>
              \/ \E f, g \in Call :
                   /\ stack' = Push(f, Push(g, Rest)) /\ Shape(stack')
                   /\ g.op = "dispatch" /\ g.at = "flushed"
                   /\ f.op = "flush" /\ f.slot = 0
                   /\ isScanInProgress \/ f.rxOnOld = rxOn
                   /\ ~isCacheFlushFixActive /\ isCacheFlushFixActive' = TRUE
                   /\ rxOn' = (rxOn /\ isScanInProgress)
                   /\ raced' = (raced \/ isScanInProgress)
<1>1. Top \in Call /\ Top.op = "dispatch" /\ Top.at = "loop" /\ Shape(stack)
      /\ Shape(Rest) /\ Rest \in Seq(Call)
  BY TopCall DEF DispatchEnd, ControlTypes
<1>2. CASE elapsed = 0 \/ isCacheFlushFixActive \/ Late(MDR_Cache) = {}
  BY <1>1, <1>2 DEF DispatchEnd
<1>3. CASE ~(elapsed = 0 \/ isCacheFlushFixActive \/ Late(MDR_Cache) = {})
  <2>1. PICK rxOnOld \in IF isScanInProgress THEN BOOLEAN ELSE {rxOn} :
          /\ isCacheFlushFixActive' = TRUE
          /\ rxOn' = (rxOn /\ isScanInProgress)
          /\ raced' = (raced \/ isScanInProgress)
          /\ stack' = <<[op |-> "flush", at |-> "wait", slot |-> 0, rxOnOld |-> rxOnOld],
                        [Top EXCEPT !.at = "flushed"]>> \o Rest
    BY <1>3 DEF DispatchEnd
  <2> DEFINE f == [op |-> "flush", at |-> "wait", slot |-> 0, rxOnOld |-> rxOnOld]
             g == [Top EXCEPT !.at = "flushed"]
  <2>2. g \in Call /\ g.op = "dispatch" /\ g.at = "flushed"
    BY <1>1 DEF Call
  <2>3. /\ f \in Call /\ f.op = "flush" /\ f.slot = 0 /\ f.rxOnOld = rxOnOld /\ MayCall(g, f)
    BY <2>1, <2>2 DEF Call, MayCall, ControlTypes
  <2>4. isScanInProgress \/ rxOnOld = rxOn
    BY <2>1
  <2>5. stack' = <<f, g>> \o Rest
    BY <2>1
  <2> HIDE DEF f, g
  <2>6. stack' = Push(f, Push(g, Rest))
    BY <1>1, <2>2, <2>3, <2>5, PushTwo
  <2>7. Shape(Push(f, Push(g, Rest)))
    BY <1>1, <2>2, <2>3, TurnTop
  <2> QED
    BY <1>1, <1>3, <2>1, <2>2, <2>3, <2>4, <2>6, <2>7
<1> QED
  BY <1>2, <1>3

\* The least element of a set of numbers.
LEMMA MinInSet ==
    ASSUME NEW S \in SUBSET Nat, S # {}
    PROVE  Min(S) \in S /\ \A n \in S : Min(S) <= n
<1> DEFINE R == {ss \in Nat \X Nat : ss[1] < ss[2]}
<1>1. IsWellFoundedOn(R, Nat)
  BY NatLessThanWellFounded, Zenon DEF OpToRel
<1>2. PICK m \in S : \A n \in S : ~(<<n, m>> \in R)
  <2> HIDE DEF R
  <2> QED
    BY <1>1, WFMin
<1>3. \A n \in S : m <= n
  <2> SUFFICES ASSUME NEW n \in S, n < m PROVE FALSE
    OBVIOUS
  <2>1. <<n, m>> \in R
    OBVIOUS
  <2> QED
    BY <1>2, <2>1
<1> QED
  BY <1>3 DEF Min

LEMMA PurgeConfirmMoves ==
    ASSUME ControlTypes, PurgeConfirm
    PROVE  \E f, g \in Call : /\ stack' = Push(f, Push(g, Rest)) /\ Shape(stack')
                              /\ Top.op = "flush" /\ Top.at = "purge"
                              /\ g.op = "flush" /\ g.at = "purge" /\ g.rxOnOld = Top.rxOnOld
                              /\ g.slot = Min({i \in ActiveSlots : i >= Top.slot})
                              /\ f.op = "callback"
                              /\ f.wrapped = (table["confirm"] = "wait")
<1>1. PICK m \in Nat : m = Min({i \in ActiveSlots : i >= Top.slot})
  <2> DEFINE I == {i \in ActiveSlots : i >= Top.slot}
  <2>1. I # {}
    BY DEF PurgeConfirm
  <2>2. Slot \subseteq Nat
    BY DispatchAssumption DEF Slot
  <2>3. I \in SUBSET Nat
    BY <2>2 DEF ActiveSlots
  <2> HIDE DEF I
  <2>4. Min(I) \in Nat
    BY <2>1, <2>3, MinInSet
  <2> QED
    BY <2>4 DEF I
<1> DEFINE f == [op |-> "callback", at |-> "app", wrapped |-> table["confirm"] = "wait"]
           g == [Top EXCEPT !.slot = m]
<1>2. Top \in Call /\ Top.op = "flush" /\ Top.at = "purge" /\ Shape(stack)
  BY TopCall DEF PurgeConfirm, ControlTypes
<1>3. g \in Call /\ g.op = "flush" /\ g.at = "purge" /\ g.rxOnOld = Top.rxOnOld /\ g.slot = m
  <2>1. Top \in [op : {"flush"}, at : {"wait", "purge"}, slot : Nat, rxOnOld : BOOLEAN]
    BY <1>2 DEF Call
  <2>2. g \in [op : {"flush"}, at : {"wait", "purge"}, slot : Nat, rxOnOld : BOOLEAN]
    BY <2>1
  <2> QED
    BY <1>2, <2>1, <2>2 DEF Call
<1>4. f \in Call /\ f.op = "callback" /\ f.wrapped = (table["confirm"] = "wait") /\ MayCall(g, f)
  BY <1>3 DEF Call, MayCall
<1>5. stack' = Push(f, Push(g, Rest))
  BY <1>1 DEF PurgeConfirm, CallBack, Push
<1> HIDE DEF f, g
<1>6. Shape(Push(f, Push(g, Rest)))
  BY <1>2, <1>3, <1>4, TurnTop
<1> QED
  BY <1>1, <1>2, <1>3, <1>4, <1>5, <1>6

\* Giving up the requests ends, and with it the dispatcher that had begun it.
LEMMA FlushEndMoves ==
    ASSUME ControlTypes, FlushEnd
    PROVE  \E c \in Call :
             /\ Top.op = "flush"
             /\ c.op = "dispatch" /\ c.at = "flushed"
             /\ Rest = Push(c, stack') /\ stack' \in Seq(Call) /\ Shape(stack')
<1> DEFINE c == Head(Rest)
<1>1. Shape(Rest) /\ MayCall(c, Top) /\ Top.op = "flush"
  BY TopCall DEF FlushEnd, ControlTypes
<1>2. /\ c \in Call /\ Rest = Push(c, Tail(Rest)) /\ Tail(Rest) \in Seq(Call) /\ Rest # <<>>
      /\ c.op = "dispatch" /\ c.at = "flushed"
  BY <1>1, PopSeq DEF Shape, MayCall
<1>3. Shape(Tail(Rest))
  BY <1>1, <1>2, ShapePop
<1>4. stack' = Tail(Rest)
  BY DEF FlushEnd
<1> QED
  BY <1>1, <1>2, <1>3, <1>4


----------------------------------------------------------------------------
(* The calls before and after a step, by their depth.  "s" is the stack    *)
(* before and "t" the one after it; below a depth they are the same.       *)

Below(k, s, t) == \A d \in 1..k : At(t, d) = At(s, d)

LEMMA Called ==
    ASSUME Shape(stack), NEW f \in Call, NEW t, t = Push(f, stack)
    PROVE  /\ Len(stack) \in Nat \ {0} /\ Len(t) = Len(stack) + 1
           /\ Below(Len(stack), stack, t)
           /\ At(stack, Len(stack)) = Top /\ At(t, Len(stack) + 1) = f
<1>1. stack \in Seq(Call) /\ At(stack, Len(stack)) = Top /\ Len(stack) \in Nat \ {0}
  BY TopCall DEF Shape
<1> QED
  BY <1>1, PushSeq DEF Below

LEMMA Returned ==
    ASSUME Shape(stack), Top.op # "main", NEW t, t = Rest
    PROVE  /\ Len(stack) \in Nat \ {0, 1} /\ Len(t) = Len(stack) - 1
           /\ Below(Len(stack) - 1, stack, t)
           /\ At(stack, Len(stack)) = Top /\ At(stack, Len(stack) - 1) = Head(Rest)
<1>1. /\ Rest \in Seq(Call) /\ Top \in Call /\ stack = Push(Top, Rest)
      /\ Len(stack) = Len(Rest) + 1 /\ Len(Rest) \in Nat
      /\ At(stack, Len(stack)) = Top /\ At(Rest, Len(Rest)) = Head(Rest)
      /\ Rest # <<>>
  BY TopCall DEF Shape
<1>2. Below(Len(Rest), stack, t)
  BY <1>1, PushSeq DEF Below
<1>3. Len(Rest) # 0
  BY <1>1
<1>4. At(stack, Len(Rest)) = At(Rest, Len(Rest))
  BY <1>1, <1>2, <1>3 DEF Below
<1> QED
  BY <1>1, <1>2, <1>3, <1>4

LEMMA Turned ==
    ASSUME Shape(stack), Top.op # "main", NEW g \in Call, NEW t, t = Push(g, Rest)
    PROVE  /\ Len(stack) \in Nat \ {0, 1} /\ Len(t) = Len(stack)
           /\ Below(Len(stack) - 1, stack, t)
           /\ At(stack, Len(stack)) = Top /\ At(t, Len(stack)) = g
<1>1. /\ Len(stack) \in Nat \ {0, 1} /\ Len(Rest) = Len(stack) - 1
      /\ Below(Len(Rest), stack, Rest) /\ At(stack, Len(stack)) = Top
      /\ Rest \in Seq(Call)
  BY Returned, TopCall
<1>2. /\ Len(t) = Len(Rest) + 1 /\ At(t, Len(Rest) + 1) = g
      /\ Below(Len(Rest), Rest, t)
  BY <1>1, PushSeq DEF Below
<1> QED
  BY <1>1, <1>2 DEF Below

LEMMA TurnedCalling ==
    ASSUME Shape(stack), Top.op # "main", NEW g \in Call, NEW f \in Call,
           NEW t, t = Push(f, Push(g, Rest))
    PROVE  /\ Len(stack) \in Nat \ {0, 1} /\ Len(t) = Len(stack) + 1
           /\ Below(Len(stack) - 1, stack, t)
           /\ At(stack, Len(stack)) = Top
           /\ At(t, Len(stack)) = g /\ At(t, Len(stack) + 1) = f
<1> DEFINE u == Push(g, Rest)
<1>1. u \in Seq(Call)
  BY TopCall, PushSeq
<1>2. /\ Len(stack) \in Nat \ {0, 1} /\ Len(u) = Len(stack)
      /\ Below(Len(stack) - 1, stack, u)
      /\ At(stack, Len(stack)) = Top /\ At(u, Len(stack)) = g
  BY Turned
<1>3. t = Push(f, u)
  OBVIOUS
<1> HIDE DEF u
<1>4. /\ Len(t) = Len(u) + 1 /\ At(t, Len(u) + 1) = f /\ Below(Len(u), u, t)
  BY <1>1, <1>3, PushSeq DEF Below
<1> QED
  BY <1>2, <1>4 DEF Below

LEMMA ReturnedTo ==
    ASSUME Shape(stack), Top.op # "main", Head(Rest).op # "main",
           NEW g \in Call, NEW t, t = Push(g, Tail(Rest))
    PROVE  /\ Len(stack) \in Nat \ {0, 1, 2} /\ Len(t) = Len(stack) - 1
           /\ Below(Len(stack) - 2, stack, t)
           /\ At(stack, Len(stack)) = Top /\ At(stack, Len(stack) - 1) = Head(Rest)
           /\ At(t, Len(stack) - 1) = g
<1>1. /\ Len(stack) \in Nat \ {0, 1} /\ Len(Rest) = Len(stack) - 1
      /\ Below(Len(stack) - 1, stack, Rest) /\ Shape(Rest)
      /\ At(stack, Len(stack)) = Top /\ At(stack, Len(stack) - 1) = Head(Rest)
  BY Returned, TopCall
<1>2. /\ Rest \in Seq(Call) /\ Rest # <<>>
  BY <1>1 DEF Shape
<1>3. /\ Head(Rest) \in Call /\ Tail(Rest) \in Seq(Call)
      /\ Rest = Push(Head(Rest), Tail(Rest)) /\ Len(Rest) = Len(Tail(Rest)) + 1
      /\ Len(Tail(Rest)) \in Nat /\ Shape(Tail(Rest))
  BY <1>1, <1>2, PopSeq, ShapePop
<1>4. Below(Len(Tail(Rest)), Tail(Rest), Rest)
  <2> DEFINE h == Head(Rest)
             u == Tail(Rest)
  <2>1. h \in Call /\ u \in Seq(Call) /\ Rest = Push(h, u)
    BY <1>3
  <2> HIDE DEF h, u
  <2>2. Below(Len(u), u, Rest)
    BY <2>1, PushSeq DEF Below
  <2> QED
    BY <2>2 DEF u
<1>5. /\ Len(t) = Len(Tail(Rest)) + 1 /\ At(t, Len(Tail(Rest)) + 1) = g
      /\ Below(Len(Tail(Rest)), Tail(Rest), t)
  BY <1>3, PushSeq DEF Below
<1>6. Len(Tail(Rest)) \in Nat \ {0}
  <2>1. PICK u \in Seq(Call) : u = Tail(Rest) /\ u # <<>>
    BY <1>3 DEF Shape
  <2> QED
    BY <2>1
<1>7. Len(Tail(Rest)) = Len(stack) - 2 /\ Len(stack) \in Nat \ {0, 1, 2}
  <2>1. PICK k \in Nat \ {0} : k = Len(Tail(Rest))
    BY <1>6
  <2>2. PICK n \in Nat : n = Len(stack)
    BY <1>1
  <2>3. k + 1 = n - 1
    BY <1>1, <1>3, <2>1, <2>2
  <2>4. k = n - 2 /\ n \in Nat \ {0, 1, 2}
    BY <2>3
  <2> QED
    BY <2>1, <2>2, <2>4
<1>8. Below(Len(stack) - 2, stack, t)
  BY <1>1, <1>4, <1>5, <1>7 DEF Below
<1>9. Len(t) = Len(stack) - 1 /\ At(t, Len(stack) - 1) = g
  <2>1. Len(Tail(Rest)) + 1 = Len(stack) - 1
    BY <1>7
  <2> QED
    BY <1>5, <2>1
<1> QED
  BY <1>1, <1>7, <1>8, <1>9

LEMMA ReturnedTwice ==
    ASSUME Shape(stack), Top.op # "main", NEW c \in Call, c.op # "main",
           NEW t \in Seq(Call), Rest = Push(c, t)
    PROVE  /\ Len(stack) \in Nat \ {0, 1} /\ Len(t) = Len(stack) - 2
           /\ Below(Len(stack) - 2, stack, t)
           /\ At(stack, Len(stack)) = Top /\ At(stack, Len(stack) - 1) = c
<1>1. /\ Len(stack) \in Nat \ {0, 1} /\ Len(Rest) = Len(stack) - 1
      /\ Below(Len(stack) - 1, stack, Rest) /\ Shape(Rest)
      /\ At(stack, Len(stack)) = Top /\ At(stack, Len(stack) - 1) = Head(Rest)
  BY Returned, TopCall
<1>2. /\ Len(Rest) = Len(t) + 1 /\ Head(Rest) = c /\ Below(Len(t), t, Rest)
      /\ Len(t) \in Nat
  <2>1. Len(t) \in Nat
    OBVIOUS
  <2> QED
    BY <2>1, PushSeq DEF Below
<1> QED
  BY <1>1, <1>2 DEF Below

----------------------------------------------------------------------------
(* Which statics say what about the calls in progress: one dispatcher is   *)
(* in its loop, one gives up requests.                                     *)

OneOf(S) == \A d, e \in S : d = e

DispatchInv ==
    /\ isDispatching <=> Looping(stack) # {}
    /\ OneOf(Looping(stack))

FlushInv ==
    /\ isCacheFlushFixActive <=> Calls(stack, "flush") # {}
    /\ OneOf(Calls(stack, "flush"))

\* A request of an awkward length waits to be sent once, and is not sent yet.
PcpsInv ==
    /\ \A d, e \in Calls(stack, "pcps") : At(stack, d).req = At(stack, e).req => d = e
    /\ \A d \in Calls(stack, "pcps") : At(stack, d).req \in Req \ sent /\ At(stack, d).req.awkward

\* The steps that neither call nor return.
Flat ==
    \/ \E r \in Req : DataRequest(r) \/ PurgeRequest(r) \/ ChipConfirms(r) \/ ChipLoses(r)
    \/ \E on \in BOOLEAN : SetRxOnWhenIdle(on)
    \/ ScanRequest \/ ResetRequest \/ ChipScanned \/ ChipRestarts \/ Tick
    \/ UNCHANGED vars

LEMMA Steps ==
    ASSUME [Next]_vars
    PROVE  \/ Flat
           \/ \E r \in Req : AwkwardRequest(r)
           \/ \E kind \in WaitFor, swap \in BOOLEAN : AppWait(kind, swap)
           \/ Program
BY DEF Next, Application, Chip, Flat

LEMMA FlatKeeps ==
    ASSUME Flat
    PROVE  UNCHANGED <<stack, waits, isDispatching, isCacheFlushFixActive, isPCPSRxOn>>
BY DEF Flat, DataRequest, PurgeRequest, ChipConfirms, ChipLoses, SetRxOnWhenIdle, AppOp,
       ScanRequest, ResetRequest, ChipScanned, ChipRestarts, Tick, vars, statics, waits, Fault

LEMMA DispatchStep ==
    ASSUME ControlTypes, DispatchInv, [Next]_vars
    PROVE  DispatchInv'
<1>0. Shape(stack)
  BY DEF ControlTypes
<1>1. CASE Flat
  BY <1>1, FlatKeeps DEF DispatchInv
<1>2. ASSUME NEW r \in Req, AwkwardRequest(r) PROVE DispatchInv'
  <2>1. PICK f \in Call : stack' = Push(f, stack) /\ f.op = "pcps"
    BY <1>2, AwkwardMoves
  <2>2. UNCHANGED isDispatching
    BY <1>2 DEF AwkwardRequest
  <2> QED
    BY <1>0, <2>1, <2>2, Called DEF DispatchInv, OneOf, Looping, Calls, Below
<1>3. ASSUME NEW kind \in WaitFor, NEW swap \in BOOLEAN, AppWait(kind, swap) PROVE DispatchInv'
  <2>1. PICK f \in Call : stack' = Push(f, stack) /\ f.op = "wait"
    BY <1>3, AppWaitMoves
  <2>2. UNCHANGED isDispatching
    BY <1>3 DEF AppWait, statics
  <2> QED
    BY <1>0, <2>1, <2>2, Called DEF DispatchInv, OneOf, Looping, Calls, Below
<1>4. CASE PcpsSend
  <2>1. stack' = Rest /\ Top.op = "pcps" /\ UNCHANGED isDispatching
    BY <1>4 DEF PcpsSend
  <2> QED
    BY <1>0, <2>1, Returned DEF DispatchInv, OneOf, Looping, Calls, Below
<1>5. CASE FixWait
  <2>0. UNCHANGED isDispatching
    BY <1>5 DEF FixWait, statics
  <2>1. PICK g \in Call : /\ g.op = Top.op /\ Top.op \in {"pcps", "flush"}
                          /\ \/ stack' = Push(g, Rest)
                             \/ \E f \in Call : f.op = "wait" /\ stack' = Push(f, Push(g, Rest))
    BY <1>5, FixWaitMoves
  <2>2. CASE stack' = Push(g, Rest)
    BY <1>0, <2>0, <2>1, <2>2, Turned DEF DispatchInv, OneOf, Looping, Calls, Below
  <2>3. ASSUME NEW f \in Call, f.op = "wait", stack' = Push(f, Push(g, Rest)) PROVE DispatchInv'
    BY <1>0, <2>0, <2>1, <2>3, TurnedCalling DEF DispatchInv, OneOf, Looping, Calls, Below
  <2> QED
    BY <2>1, <2>2, <2>3
<1>6. CASE WaitRound
  <2>1. PICK f, g \in Call : /\ stack' = Push(f, Push(g, Rest)) /\ Top.op = "wait"
                             /\ g.op = "wait" /\ f.op = "dispatch" /\ f.at = "loop"
    BY <1>6, WaitRoundMoves
  <2>2. ~isDispatching /\ isDispatching' = TRUE
    BY <1>6 DEF WaitRound
  <2> QED
    BY <1>0, <2>1, <2>2, TurnedCalling DEF DispatchInv, OneOf, Looping, Calls, Below
<1>7. CASE WaitAgain
  <2>1. PICK g \in Call : stack' = Push(g, Rest) /\ g.op = "wait" /\ Top.op = "wait"
    BY <1>7, WaitAgainMoves
  <2>2. UNCHANGED isDispatching
    BY <1>7 DEF WaitAgain, statics
  <2> QED
    BY <1>0, <2>1, <2>2, Turned DEF DispatchInv, OneOf, Looping, Calls, Below
<1>8. CASE WaitEnd
  <2>1. stack' = Rest /\ Top.op = "wait" /\ UNCHANGED isDispatching
    BY <1>8 DEF WaitEnd, statics
  <2> QED
    BY <1>0, <2>1, Returned DEF DispatchInv, OneOf, Looping, Calls, Below
<1>9. CASE MainLoop
  <2>1. PICK f \in Call : stack' = Push(f, stack) /\ f.op = "dispatch" /\ f.at = "loop"
    BY <1>9, MainLoopMoves
  <2>2. ~isDispatching /\ isDispatching' = TRUE
    BY <1>9 DEF MainLoop
  <2> QED
    BY <1>0, <2>1, <2>2, Called DEF DispatchInv, OneOf, Looping, Calls, Below
<1>10. CASE DispatchMessage
  <2>1. PICK f, g \in Call : /\ stack' = Push(f, Push(g, Rest))
                             /\ Top.op = "dispatch" /\ Top.at = "loop"
                             /\ g.op = "dispatch" /\ g.at = "called" /\ f.op = "callback"
    BY <1>10, DispatchMessageMoves
  <2>2. UNCHANGED isDispatching
    BY <1>10 DEF DispatchMessage
  <2> QED
    BY <1>0, <2>1, <2>2, TurnedCalling DEF DispatchInv, OneOf, Looping, Calls, Below
<1>11. CASE CallbackReturn
  <2>1. PICK g, c \in Call :
          /\ Top.op = "callback" /\ c = Head(Rest) /\ stack' = Push(g, Tail(Rest))
          /\ g.op = c.op
          /\ \/ c.op = "dispatch" /\ c.at = "called" /\ g.at = "loop"
             \/ c.op = "flush"
    BY <1>11, CallbackReturnMoves
  <2>2. UNCHANGED isDispatching
    BY <1>11 DEF CallbackReturn
  <2> QED
    BY <1>0, <2>1, <2>2, ReturnedTo DEF DispatchInv, OneOf, Looping, Calls, Below
<1>12. CASE DispatchEnd
  <2>1. isDispatching' = FALSE
    BY <1>12 DEF DispatchEnd
  <2>2. /\ Top.op = "dispatch" /\ Top.at = "loop"
        /\ \/ stack' = Rest
           \/ \E f, g \in Call : /\ stack' = Push(f, Push(g, Rest))
                                 /\ g.op = "dispatch" /\ g.at = "flushed" /\ f.op = "flush"
    BY <1>12, DispatchEndMoves
  <2>3. CASE stack' = Rest
    BY <1>0, <2>1, <2>2, <2>3, Returned DEF DispatchInv, OneOf, Looping, Calls, Below
  <2>4. ASSUME NEW f \in Call, NEW g \in Call, stack' = Push(f, Push(g, Rest)),
               g.op = "dispatch", g.at = "flushed", f.op = "flush"
        PROVE  DispatchInv'
    BY <1>0, <2>1, <2>2, <2>4, TurnedCalling DEF DispatchInv, OneOf, Looping, Calls, Below
  <2> QED
    BY <2>2, <2>3, <2>4
<1>13. CASE PurgeConfirm
  <2>1. PICK f, g \in Call : /\ stack' = Push(f, Push(g, Rest)) /\ Top.op = "flush"
                             /\ g.op = "flush" /\ f.op = "callback"
    BY <1>13, PurgeConfirmMoves
  <2>2. UNCHANGED isDispatching
    BY <1>13 DEF PurgeConfirm, statics
  <2> QED
    BY <1>0, <2>1, <2>2, TurnedCalling DEF DispatchInv, OneOf, Looping, Calls, Below
<1>14. CASE FlushEnd
  <2>1. PICK c \in Call : /\ Top.op = "flush" /\ c.op = "dispatch" /\ c.at = "flushed"
                          /\ Rest = Push(c, stack') /\ stack' \in Seq(Call)
    BY <1>14, FlushEndMoves
  <2>2. UNCHANGED isDispatching
    BY <1>14 DEF FlushEnd
  <2>3. PICK n \in Nat \ {0, 1} :
          /\ n = Len(stack) /\ Len(stack') = n - 2 /\ Below(n - 2, stack, stack')
          /\ At(stack, n) = Top /\ At(stack, n - 1) = c
    BY <1>0, <2>1, ReturnedTwice
  <2>4. Looping(stack') = Looping(stack)
    BY <2>1, <2>3 DEF Looping, Calls, Below
  <2> QED
    BY <2>2, <2>4 DEF DispatchInv
<1> QED
  BY <1>1, <1>2, <1>3, <1>4, <1>5, <1>6, <1>7, <1>8, <1>9, <1>10, <1>11, <1>12, <1>13, <1>14,
     Steps DEF Program

LEMMA FlushStep ==
    ASSUME ControlTypes, FlushInv, [Next]_vars
    PROVE  FlushInv'
<1>0. Shape(stack)
  BY DEF ControlTypes
<1>1. CASE Flat
  BY <1>1, FlatKeeps DEF FlushInv
<1>2. ASSUME NEW r \in Req, AwkwardRequest(r) PROVE FlushInv'
  <2>1. PICK f \in Call : /\ stack' = Push(f, stack) /\ f.op = "pcps" /\ f.at = "wait"
                          /\ f.req = r
    BY <1>2, AwkwardMoves
  <2>2. UNCHANGED isCacheFlushFixActive
    BY <1>2 DEF AwkwardRequest
  <2>3. PICK n \in Nat \ {0} :
          /\ n = Len(stack) /\ Len(stack') = n + 1 /\ Below(n, stack, stack')
          /\ At(stack, n) = Top /\ At(stack', n + 1) = f
    BY <1>0, <2>1, Called
  <2> QED
    BY <2>1, <2>2, <2>3 DEF FlushInv, OneOf, Calls, Below
<1>3. ASSUME NEW kind \in WaitFor, NEW swap \in BOOLEAN, AppWait(kind, swap) PROVE FlushInv'
  <2>1. PICK f \in Call : stack' = Push(f, stack) /\ f.op = "wait" /\ f.kind = kind
    BY <1>3, AppWaitMoves
  <2>2. UNCHANGED isCacheFlushFixActive
    BY <1>3 DEF AppWait, AppOp, BeginWait, statics, chip
  <2>3. PICK n \in Nat \ {0} :
          /\ n = Len(stack) /\ Len(stack') = n + 1 /\ Below(n, stack, stack')
          /\ At(stack, n) = Top /\ At(stack', n + 1) = f
    BY <1>0, <2>1, Called
  <2> QED
    BY <2>1, <2>2, <2>3 DEF FlushInv, OneOf, Calls, Below
<1>4. CASE PcpsSend
  <2>1. stack' = Rest /\ Top.op = "pcps"
    BY <1>4 DEF PcpsSend
  <2>2. UNCHANGED isCacheFlushFixActive
    BY <1>4 DEF PcpsSend, SendAndCache, waits
  <2>3. PICK n \in Nat \ {0, 1} :
          /\ n = Len(stack) /\ Len(stack') = n - 1 /\ Below(n - 1, stack, stack')
          /\ At(stack, n) = Top /\ At(stack, n - 1) = Head(Rest)
    BY <1>0, <2>1, Returned
  <2> QED
    BY <2>1, <2>2, <2>3 DEF FlushInv, OneOf, Calls, Below
<1>5. CASE FixWait
  <2>1. PICK g \in Call : /\ g.op = Top.op /\ Top.op \in {"pcps", "flush"}
                          /\ Top.op = "pcps" => g.req = Top.req
                          /\ Top.op = "flush" => g.slot = Top.slot /\ g.rxOnOld = Top.rxOnOld
                          /\ \/ stack' = Push(g, Rest)
                             \/ \E f \in Call : f.op = "wait" /\ stack' = Push(f, Push(g, Rest))
    BY <1>5, FixWaitMoves
  <2>2. UNCHANGED isCacheFlushFixActive
    BY <1>5 DEF FixWait, statics, chip, history
  <2>4. CASE stack' = Push(g, Rest)
    BY <1>0, <2>1, <2>2, <2>4, Turned DEF FlushInv, OneOf, Calls, Below
  <2>5. ASSUME NEW f \in Call, f.op = "wait", stack' = Push(f, Push(g, Rest)) PROVE FlushInv'
    BY <1>0, <2>1, <2>2, <2>5, TurnedCalling DEF FlushInv, OneOf, Calls, Below
  <2> QED
    BY <2>1, <2>4, <2>5
<1>6. CASE WaitRound
  <2>1. PICK f, g \in Call : /\ stack' = Push(f, Push(g, Rest)) /\ Top.op = "wait"
                             /\ g.op = "wait" /\ g.kind = Top.kind
                             /\ f.op = "dispatch" /\ f.at = "loop"
    BY <1>6, WaitRoundMoves
  <2>2. UNCHANGED isCacheFlushFixActive
    BY <1>6 DEF WaitRound, waits, chip, history
  <2>3. PICK n \in Nat \ {0, 1} :
          /\ n = Len(stack) /\ Len(stack') = n + 1 /\ Below(n - 1, stack, stack')
          /\ At(stack, n) = Top /\ At(stack', n) = g /\ At(stack', n + 1) = f
    BY <1>0, <2>1, TurnedCalling
  <2> QED
    BY <2>1, <2>2, <2>3 DEF FlushInv, OneOf, Calls, Below
<1>7. CASE WaitAgain
  <2>1. PICK g \in Call : /\ stack' = Push(g, Rest) /\ Top.op = "wait"
                          /\ g.op = "wait" /\ g.kind = Top.kind
    BY <1>7, WaitAgainMoves
  <2>2. UNCHANGED isCacheFlushFixActive
    BY <1>7 DEF WaitAgain, statics, waits, chip, history
  <2>3. PICK n \in Nat \ {0, 1} :
          /\ n = Len(stack) /\ Len(stack') = n /\ Below(n - 1, stack, stack')
          /\ At(stack, n) = Top /\ At(stack', n) = g
    BY <1>0, <2>1, Turned
  <2> QED
    BY <2>1, <2>2, <2>3 DEF FlushInv, OneOf, Calls, Below
<1>8. CASE WaitEnd
  <2>1. stack' = Rest /\ Top.op = "wait"
    BY <1>8, WaitEndMoves
  <2>2. UNCHANGED isCacheFlushFixActive
    BY <1>8 DEF WaitEnd, statics, chip, history
  <2>3. PICK n \in Nat \ {0, 1} :
          /\ n = Len(stack) /\ Len(stack') = n - 1 /\ Below(n - 1, stack, stack')
          /\ At(stack, n) = Top /\ At(stack, n - 1) = Head(Rest)
    BY <1>0, <2>1, Returned
  <2> QED
    BY <2>1, <2>2, <2>3 DEF FlushInv, OneOf, Calls, Below
<1>9. CASE MainLoop
  <2>1. PICK f \in Call : stack' = Push(f, stack) /\ f.op = "dispatch" /\ f.at = "loop"
    BY <1>9, MainLoopMoves
  <2>2. UNCHANGED isCacheFlushFixActive
    BY <1>9 DEF MainLoop, waits, chip, history
  <2>3. PICK n \in Nat \ {0} :
          /\ n = Len(stack) /\ Len(stack') = n + 1 /\ Below(n, stack, stack')
          /\ At(stack, n) = Top /\ At(stack', n + 1) = f
    BY <1>0, <2>1, Called
  <2> QED
    BY <2>1, <2>2, <2>3 DEF FlushInv, OneOf, Calls, Below
<1>10. CASE DispatchMessage
  <2>1. PICK f, g \in Call : /\ stack' = Push(f, Push(g, Rest)) /\ Top.op = "dispatch"
                             /\ g.op = "dispatch" /\ g.at = "called" /\ f.op = "callback"
                             /\ f.wrapped = (table[Head(ring).kind] = "wait")
    BY <1>10, DispatchMessageMoves
  <2>2. UNCHANGED isCacheFlushFixActive
    BY <1>10 DEF DispatchMessage, chip, CallBack
  <2>3. PICK n \in Nat \ {0, 1} :
          /\ n = Len(stack) /\ Len(stack') = n + 1 /\ Below(n - 1, stack, stack')
          /\ At(stack, n) = Top /\ At(stack', n) = g /\ At(stack', n + 1) = f
    BY <1>0, <2>1, TurnedCalling
  <2>4. /\ Calls(stack', "flush") = Calls(stack, "flush")
        /\ \A d \in Calls(stack, "flush") : At(stack', d) = At(stack, d)
    BY <2>1, <2>3 DEF Calls, Below
  <2> QED
    BY <2>2, <2>4 DEF FlushInv, OneOf
<1>11. CASE CallbackReturn
  <2>1. PICK g, c \in Call :
          /\ Top.op = "callback" /\ c = Head(Rest) /\ stack' = Push(g, Tail(Rest))
          /\ g.op = c.op
          /\ \/ c.op = "dispatch" /\ c.at = "called" /\ g.at = "loop"
             \/ c.op = "flush" /\ g.slot = c.slot + 1 /\ g.rxOnOld = c.rxOnOld
    BY <1>11, CallbackReturnMoves
  <2>2. UNCHANGED isCacheFlushFixActive
    BY <1>11 DEF CallbackReturn
  <2>3. PICK n \in Nat \ {0, 1, 2} :
          /\ n = Len(stack) /\ Len(stack') = n - 1 /\ Below(n - 2, stack, stack')
          /\ At(stack, n) = Top /\ At(stack, n - 1) = c /\ At(stack', n - 1) = g
    BY <1>0, <2>1, ReturnedTo
  <2>4. Calls(stack', "flush") = Calls(stack, "flush")
    BY <2>1, <2>3 DEF Calls, Below
  <2> QED
    BY <2>2, <2>4 DEF FlushInv
<1>12. CASE DispatchEnd
  <2>1. /\ Top.op = "dispatch"
        /\ \/ stack' = Rest /\ UNCHANGED isCacheFlushFixActive
           \/ \E f, g \in Call : /\ stack' = Push(f, Push(g, Rest))
                                 /\ g.op = "dispatch" /\ f.op = "flush"
                                 /\ ~isCacheFlushFixActive /\ isCacheFlushFixActive' = TRUE
    BY <1>12, DispatchEndMoves
  <2>2. CASE stack' = Rest /\ UNCHANGED isCacheFlushFixActive
    BY <1>0, <2>1, <2>2, Returned DEF FlushInv, OneOf, Calls, Below
  <2>3. ASSUME NEW f \in Call, NEW g \in Call, stack' = Push(f, Push(g, Rest)),
               g.op = "dispatch", f.op = "flush",
               ~isCacheFlushFixActive, isCacheFlushFixActive' = TRUE
        PROVE  FlushInv'
    BY <1>0, <2>1, <2>3, TurnedCalling DEF FlushInv, OneOf, Calls, Below
  <2> QED
    BY <2>1, <2>2, <2>3
<1>13. CASE PurgeConfirm
  <2>1. PICK f, g \in Call : /\ stack' = Push(f, Push(g, Rest)) /\ Top.op = "flush"
                             /\ g.op = "flush" /\ g.rxOnOld = Top.rxOnOld
                             /\ f.op = "callback"
                             /\ f.wrapped = (table["confirm"] = "wait")
    BY <1>13, PurgeConfirmMoves
  <2>2. UNCHANGED isCacheFlushFixActive
    BY <1>13 DEF PurgeConfirm, statics
  <2>3. PICK n \in Nat \ {0, 1} :
          /\ n = Len(stack) /\ Len(stack') = n + 1 /\ Below(n - 1, stack, stack')
          /\ At(stack, n) = Top /\ At(stack', n) = g /\ At(stack', n + 1) = f
    BY <1>0, <2>1, TurnedCalling
  <2>4. Calls(stack', "flush") = Calls(stack, "flush")
    BY <2>1, <2>3 DEF Calls, Below
  <2> QED
    BY <2>2, <2>4 DEF FlushInv
<1>14. CASE FlushEnd
  <2>1. PICK c \in Call : /\ Top.op = "flush" /\ c.op = "dispatch"
                          /\ Rest = Push(c, stack') /\ stack' \in Seq(Call)
    BY <1>14, FlushEndMoves
  <2>2. isCacheFlushFixActive' = FALSE
    BY <1>14 DEF FlushEnd
  <2>3. PICK n \in Nat \ {0, 1} :
          /\ n = Len(stack) /\ Len(stack') = n - 2 /\ Below(n - 2, stack, stack')
          /\ At(stack, n) = Top /\ At(stack, n - 1) = c
    BY <1>0, <2>1, ReturnedTwice
  <2> QED
    BY <2>1, <2>2, <2>3 DEF FlushInv, OneOf, Calls, Below
<1> QED
  BY <1>1, <1>2, <1>3, <1>4, <1>5, <1>6, <1>7, <1>8, <1>9, <1>10, <1>11, <1>12, <1>13, <1>14,
     Steps DEF Program

LEMMA PcpsStep ==
    ASSUME ControlTypes, PcpsInv, [Next]_vars
    PROVE  PcpsInv'
<1>0. Shape(stack)
  BY DEF ControlTypes
<1>1. CASE Flat
  <2>1. \A r \in sent' \ sent : ~r.awkward
    BY <1>1 DEF Flat, DataRequest, PurgeRequest, ChipConfirms, ChipLoses, SetRxOnWhenIdle,
                ScanRequest, ResetRequest, ChipScanned, ChipRestarts, Tick, vars, history,
                SendAndCache
  <2> QED
    BY <1>1, <2>1, FlatKeeps DEF PcpsInv
<1>2. ASSUME NEW r \in Req, AwkwardRequest(r) PROVE PcpsInv'
  <2>1. PICK f \in Call : /\ stack' = Push(f, stack) /\ f.op = "pcps" /\ f.at = "wait"
                          /\ f.req = r
    BY <1>2, AwkwardMoves
  <2>2. /\ UNCHANGED sent /\ r \notin sent /\ r.awkward
        /\ \A i \in DOMAIN stack : stack[i].op = "pcps" => stack[i].req # r
    BY <1>2 DEF AwkwardRequest
  <2>3. PICK n \in Nat \ {0} :
          /\ n = Len(stack) /\ Len(stack') = n + 1 /\ Below(n, stack, stack')
          /\ At(stack, n) = Top /\ At(stack', n + 1) = f
    BY <1>0, <2>1, Called
  <2>4. \A d \in Calls(stack, "pcps") : At(stack, d).req # r
    <3> SUFFICES ASSUME NEW d \in Calls(stack, "pcps") PROVE At(stack, d).req # r
      OBVIOUS
    <3>1. n + 1 - d \in DOMAIN stack /\ stack[n + 1 - d].op = "pcps"
          /\ At(stack, d) = stack[n + 1 - d]
      BY <1>0, <2>3 DEF Calls, At, Shape
    <3> QED
      BY <2>2, <3>1
  <2> QED
    BY <2>1, <2>2, <2>3, <2>4 DEF PcpsInv, OneOf, Calls, Below
<1>3. ASSUME NEW kind \in WaitFor, NEW swap \in BOOLEAN, AppWait(kind, swap) PROVE PcpsInv'
  <2>1. PICK f \in Call : stack' = Push(f, stack) /\ f.op = "wait" /\ f.kind = kind
    BY <1>3, AppWaitMoves
  <2>2. UNCHANGED sent
    BY <1>3 DEF AppWait, AppOp, BeginWait, statics, chip
  <2>3. PICK n \in Nat \ {0} :
          /\ n = Len(stack) /\ Len(stack') = n + 1 /\ Below(n, stack, stack')
          /\ At(stack, n) = Top /\ At(stack', n + 1) = f
    BY <1>0, <2>1, Called
  <2> QED
    BY <2>1, <2>2, <2>3 DEF PcpsInv, OneOf, Calls, Below
<1>4. CASE PcpsSend
  <2>1. stack' = Rest /\ Top.op = "pcps" /\ sent' = sent \cup {Top.req}
    BY <1>4 DEF PcpsSend, SendAndCache
  <2>3. PICK n \in Nat \ {0, 1} :
          /\ n = Len(stack) /\ Len(stack') = n - 1 /\ Below(n - 1, stack, stack')
          /\ At(stack, n) = Top /\ At(stack, n - 1) = Head(Rest)
    BY <1>0, <2>1, Returned
  <2>4. n \in Calls(stack, "pcps") /\ n \notin Calls(stack', "pcps")
        /\ \A d \in Calls(stack', "pcps") : d \in Calls(stack, "pcps") /\ At(stack', d) = At(stack, d)
    BY <2>1, <2>3 DEF Calls, Below
  <2> QED
    BY <2>1, <2>3, <2>4 DEF PcpsInv
<1>5. CASE FixWait
  <2>1. PICK g \in Call : /\ g.op = Top.op /\ Top.op \in {"pcps", "flush"}
                          /\ Top.op = "pcps" => g.req = Top.req
                          /\ Top.op = "flush" => g.slot = Top.slot /\ g.rxOnOld = Top.rxOnOld
                          /\ \/ stack' = Push(g, Rest)
                             \/ \E f \in Call : f.op = "wait" /\ stack' = Push(f, Push(g, Rest))
    BY <1>5, FixWaitMoves
  <2>2. UNCHANGED sent
    BY <1>5 DEF FixWait, statics, chip, history
  <2>4. CASE stack' = Push(g, Rest)
    BY <1>0, <2>1, <2>2, <2>4, Turned DEF PcpsInv, OneOf, Calls, Below
  <2>5. ASSUME NEW f \in Call, f.op = "wait", stack' = Push(f, Push(g, Rest)) PROVE PcpsInv'
    BY <1>0, <2>1, <2>2, <2>5, TurnedCalling DEF PcpsInv, OneOf, Calls, Below
  <2> QED
    BY <2>1, <2>4, <2>5
<1>6. CASE WaitRound
  <2>1. PICK f, g \in Call : /\ stack' = Push(f, Push(g, Rest)) /\ Top.op = "wait"
                             /\ g.op = "wait" /\ g.kind = Top.kind
                             /\ f.op = "dispatch" /\ f.at = "loop"
    BY <1>6, WaitRoundMoves
  <2>2. UNCHANGED sent
    BY <1>6 DEF WaitRound, waits, chip, history
  <2>3. PICK n \in Nat \ {0, 1} :
          /\ n = Len(stack) /\ Len(stack') = n + 1 /\ Below(n - 1, stack, stack')
          /\ At(stack, n) = Top /\ At(stack', n) = g /\ At(stack', n + 1) = f
    BY <1>0, <2>1, TurnedCalling
  <2> QED
    BY <2>1, <2>2, <2>3 DEF PcpsInv, OneOf, Calls, Below
<1>7. CASE WaitAgain
  <2>1. PICK g \in Call : /\ stack' = Push(g, Rest) /\ Top.op = "wait"
                          /\ g.op = "wait" /\ g.kind = Top.kind
    BY <1>7, WaitAgainMoves
  <2>2. UNCHANGED sent
    BY <1>7 DEF WaitAgain, statics, waits, chip, history
  <2>3. PICK n \in Nat \ {0, 1} :
          /\ n = Len(stack) /\ Len(stack') = n /\ Below(n - 1, stack, stack')
          /\ At(stack, n) = Top /\ At(stack', n) = g
    BY <1>0, <2>1, Turned
  <2> QED
    BY <2>1, <2>2, <2>3 DEF PcpsInv, OneOf, Calls, Below
<1>8. CASE WaitEnd
  <2>1. stack' = Rest /\ Top.op = "wait"
    BY <1>8, WaitEndMoves
  <2>2. UNCHANGED sent
    BY <1>8 DEF WaitEnd, statics, chip, history
  <2>3. PICK n \in Nat \ {0, 1} :
          /\ n = Len(stack) /\ Len(stack') = n - 1 /\ Below(n - 1, stack, stack')
          /\ At(stack, n) = Top /\ At(stack, n - 1) = Head(Rest)
    BY <1>0, <2>1, Returned
  <2> QED
    BY <2>1, <2>2, <2>3 DEF PcpsInv, OneOf, Calls, Below
<1>9. CASE MainLoop
  <2>1. PICK f \in Call : stack' = Push(f, stack) /\ f.op = "dispatch" /\ f.at = "loop"
    BY <1>9, MainLoopMoves
  <2>2. UNCHANGED sent
    BY <1>9 DEF MainLoop, waits, chip, history
  <2>3. PICK n \in Nat \ {0} :
          /\ n = Len(stack) /\ Len(stack') = n + 1 /\ Below(n, stack, stack')
          /\ At(stack, n) = Top /\ At(stack', n + 1) = f
    BY <1>0, <2>1, Called
  <2> QED
    BY <2>1, <2>2, <2>3 DEF PcpsInv, OneOf, Calls, Below
<1>10. CASE DispatchMessage
  <2>1. PICK f, g \in Call : /\ stack' = Push(f, Push(g, Rest)) /\ Top.op = "dispatch"
                             /\ g.op = "dispatch" /\ g.at = "called" /\ f.op = "callback"
                             /\ f.wrapped = (table[Head(ring).kind] = "wait")
    BY <1>10, DispatchMessageMoves
  <2>2. UNCHANGED sent
    BY <1>10 DEF DispatchMessage, chip, CallBack
  <2>3. PICK n \in Nat \ {0, 1} :
          /\ n = Len(stack) /\ Len(stack') = n + 1 /\ Below(n - 1, stack, stack')
          /\ At(stack, n) = Top /\ At(stack', n) = g /\ At(stack', n + 1) = f
    BY <1>0, <2>1, TurnedCalling
  <2>4. /\ Calls(stack', "pcps") = Calls(stack, "pcps")
        /\ \A d \in Calls(stack, "pcps") : At(stack', d) = At(stack, d)
    BY <2>1, <2>3 DEF Calls, Below
  <2> QED
    BY <2>2, <2>4 DEF PcpsInv, OneOf
<1>11. CASE CallbackReturn
  <2>1. PICK g, c \in Call :
          /\ Top.op = "callback" /\ c = Head(Rest) /\ stack' = Push(g, Tail(Rest))
          /\ g.op = c.op
          /\ \/ c.op = "dispatch" /\ c.at = "called" /\ g.at = "loop"
             \/ c.op = "flush" /\ g.slot = c.slot + 1 /\ g.rxOnOld = c.rxOnOld
    BY <1>11, CallbackReturnMoves
  <2>2. UNCHANGED sent
    BY <1>11 DEF CallbackReturn, chip, history
  <2>3. PICK n \in Nat \ {0, 1, 2} :
          /\ n = Len(stack) /\ Len(stack') = n - 1 /\ Below(n - 2, stack, stack')
          /\ At(stack, n) = Top /\ At(stack, n - 1) = c /\ At(stack', n - 1) = g
    BY <1>0, <2>1, ReturnedTo
  <2> QED
    BY <2>1, <2>2, <2>3 DEF PcpsInv, OneOf, Calls, Below
<1>12. CASE DispatchEnd
  <2>2. UNCHANGED sent
    BY <1>12 DEF DispatchEnd
  <2>3. /\ Top.op = "dispatch"
        /\ \/ stack' = Rest
           \/ \E f, g \in Call : /\ stack' = Push(f, Push(g, Rest))
                                 /\ g.op = "dispatch" /\ f.op = "flush"
    BY <1>12, DispatchEndMoves
  <2>4. CASE stack' = Rest
    BY <1>0, <2>2, <2>3, <2>4, Returned DEF PcpsInv, OneOf, Calls, Below
  <2>5. ASSUME NEW f \in Call, NEW g \in Call, stack' = Push(f, Push(g, Rest)),
               g.op = "dispatch", f.op = "flush"
        PROVE  PcpsInv'
    BY <1>0, <2>2, <2>3, <2>5, TurnedCalling DEF PcpsInv, OneOf, Calls, Below
  <2> QED
    BY <2>3, <2>4, <2>5
<1>13. CASE PurgeConfirm
  <2>1. PICK f, g \in Call : /\ stack' = Push(f, Push(g, Rest)) /\ Top.op = "flush"
                             /\ g.op = "flush" /\ g.rxOnOld = Top.rxOnOld
                             /\ f.op = "callback"
                             /\ f.wrapped = (table["confirm"] = "wait")
    BY <1>13, PurgeConfirmMoves
  <2>2. UNCHANGED sent
    BY <1>13 DEF PurgeConfirm, statics, chip, CallBack
  <2>3. PICK n \in Nat \ {0, 1} :
          /\ n = Len(stack) /\ Len(stack') = n + 1 /\ Below(n - 1, stack, stack')
          /\ At(stack, n) = Top /\ At(stack', n) = g /\ At(stack', n + 1) = f
    BY <1>0, <2>1, TurnedCalling
  <2> QED
    BY <2>1, <2>2, <2>3 DEF PcpsInv, OneOf, Calls, Below
<1>14. CASE FlushEnd
  <2>1. PICK c \in Call : /\ Top.op = "flush" /\ c.op = "dispatch"
                          /\ Rest = Push(c, stack') /\ stack' \in Seq(Call)
    BY <1>14, FlushEndMoves
  <2>2. UNCHANGED sent
    BY <1>14 DEF FlushEnd, waits
  <2>3. PICK n \in Nat \ {0, 1} :
          /\ n = Len(stack) /\ Len(stack') = n - 2 /\ Below(n - 2, stack, stack')
          /\ At(stack, n) = Top /\ At(stack, n - 1) = c
    BY <1>0, <2>1, ReturnedTwice
  <2> QED
    BY <2>1, <2>2, <2>3 DEF PcpsInv, OneOf, Calls, Below
<1> QED
  BY <1>1, <1>2, <1>3, <1>4, <1>5, <1>6, <1>7, <1>8, <1>9, <1>10, <1>11, <1>12, <1>13, <1>14,
     Steps DEF Program

----------------------------------------------------------------------------
(* Types, and what the operations of the cache do.                         *)

Entry   == {Empty} \cup [active : {TRUE}, req : Req, left : Int]
Message == [kind : {"confirm"}, req : Req] \cup [kind : {"wakeup", "scan"}]

DataTypes ==
    /\ MDR_Cache \in [Slot -> Entry]
    /\ table \in [Kind -> {"app", "swap", "wait"}] /\ sTargetCallback \in {"app", "swap", "wait"}
    /\ ring \in Seq(Message)
    /\ held \subseteq Req /\ sent \subseteq Req /\ excused \subseteq Req
    /\ said \in [Req -> Seq({"real", "made up"})]
    /\ elapsed \in Nat

LEMMA EntryFields ==
    ASSUME NEW cache \in [Slot -> Entry], NEW i \in Slot
    PROVE  /\ cache[i].active \in BOOLEAN
           /\ cache[i].active => cache[i].req \in Req /\ cache[i].left \in Int
           /\ ~cache[i].active => cache[i] = Empty
<1>1. cache[i] = Empty \/ cache[i] \in [active : {TRUE}, req : Req, left : Int]
  BY DEF Entry
<1>2. CASE cache[i] = Empty
  BY <1>2 DEF Empty
<1>3. CASE cache[i] \in [active : {TRUE}, req : Req, left : Int]
  BY <1>3
<1> QED
  BY <1>1, <1>2, <1>3

LEMMA SlotsAreNumbers == Slot \subseteq Nat
BY DispatchAssumption DEF Slot

\* An item is put in a slot that is free; if there is none it is not remembered.
LEMMA AddItem ==
    ASSUME MDR_Cache \in [Slot -> Entry], NEW r \in Req
    PROVE  /\ CacheAddItem(r) \in [Slot -> Entry]
           /\ \/ ActiveSlots = Slot /\ CacheAddItem(r) = MDR_Cache
              \/ \E k \in Slot \ ActiveSlots : CacheAddItem(r) = [MDR_Cache EXCEPT ![k] = Item(r)]
<1>1. Item(r) \in Entry
  BY DispatchAssumption DEF Item, Entry
<1>2. CASE Slot \ ActiveSlots = {}
  BY <1>2 DEF CacheAddItem, ActiveSlots
<1>3. CASE Slot \ ActiveSlots # {}
  <2>1. PICK k \in Slot \ ActiveSlots : k = Min(Slot \ ActiveSlots)
    <3>1. Slot \ ActiveSlots \in SUBSET Nat
      BY SlotsAreNumbers
    <3> QED
      BY <1>3, <3>1, MinInSet
  <2>2. CacheAddItem(r) = [MDR_Cache EXCEPT ![k] = Item(r)]
    BY <1>3, <2>1 DEF CacheAddItem
  <2> QED
    BY <1>1, <2>1, <2>2
<1> QED
  BY <1>2, <1>3

\* What is removed has the handle and the type of the request.
LEMMA RemoveItem ==
    ASSUME MDR_Cache \in [Slot -> Entry], NEW r \in Req
    PROVE  /\ CacheRemoveItem(r) \in [Slot -> Entry]
           /\ \/ /\ CacheRemoveItem(r) = MDR_Cache
                 /\ \A i \in ActiveSlots : MDR_Cache[i].req # r
              \/ \E k \in ActiveSlots : /\ CacheRemoveItem(r) = [MDR_Cache EXCEPT ![k] = Empty]
                                        /\ MDR_Cache[k].req.handle = r.handle
                                        /\ MDR_Cache[k].req.type = r.type
<1> DEFINE Same == {i \in ActiveSlots : /\ MDR_Cache[i].req.handle = r.handle
                                        /\ MDR_Cache[i].req.type = r.type}
<1>1. CASE Same = {}
  BY <1>1 DEF CacheRemoveItem
<1>2. CASE Same # {}
  <2>1. Same \in SUBSET Nat
    BY SlotsAreNumbers DEF ActiveSlots
  <2>2. Min(Same) \in Same
    <3> HIDE DEF Same
    <3> QED
      BY <1>2, <2>1, MinInSet
  <2>3. PICK k \in Same : k = Min(Same)
    BY <2>2
  <2>4. CacheRemoveItem(r) = [MDR_Cache EXCEPT ![k] = Empty]
    BY <1>2, <2>3 DEF CacheRemoveItem
  <2>5. CacheRemoveItem(r) \in [Slot -> Entry]
    BY <2>4 DEF Entry
  <2> QED
    BY <2>3, <2>4, <2>5
<1> QED
  BY <1>1, <1>2

\* Time leaves every item where it is.
LEMMA DecayItems ==
    ASSUME NEW cache \in [Slot -> Entry], elapsed \in Nat, CacheDecay(cache)
    PROVE  /\ MDR_Cache' \in [Slot -> Entry] /\ elapsed' \in Nat
           /\ \A i \in Slot : /\ MDR_Cache'[i].active = cache[i].active
                              /\ cache[i].active => MDR_Cache'[i].req = cache[i].req
<1>1. elapsed' \in Nat
  BY DEF CacheDecay
<1>2. ASSUME NEW i \in Slot
      PROVE  /\ MDR_Cache'[i] \in Entry
             /\ MDR_Cache'[i].active = cache[i].active
             /\ cache[i].active => MDR_Cache'[i].req = cache[i].req
  <2>1. CASE MDR_Cache'[i] = cache[i]
    BY <2>1
  <2>2. CASE i \in Direct(cache) /\ MDR_Cache'[i] = [cache[i] EXCEPT !.left = @ - elapsed]
    <3>1. cache[i] \in [active : {TRUE}, req : Req, left : Int]
      <4>1. cache[i].active /\ ~Empty.active
        BY <2>2 DEF Direct, Empty
      <4> QED
        BY <4>1 DEF Entry
    <3>2. PICK left \in Int : left = cache[i].left - elapsed
      BY <3>1
    <3>3. MDR_Cache'[i] = [cache[i] EXCEPT !.left = left]
      BY <2>2, <3>2
    <3>4. MDR_Cache'[i] \in [active : {TRUE}, req : Req, left : Int]
          /\ MDR_Cache'[i].req = cache[i].req
      BY <3>1, <3>2, <3>3
    <3> QED
      BY <3>1, <3>4 DEF Entry
  <2> QED
    BY <2>1, <2>2 DEF CacheDecay
<1>3. MDR_Cache' \in [Slot -> Entry]
  <2>1. MDR_Cache' = [i \in Slot |-> MDR_Cache'[i]]
    BY DEF CacheDecay
  <2> QED
    BY <1>2, <2>1
<1> QED
  BY <1>1, <1>2, <1>3

LEMMA MessageFields ==
    ASSUME NEW m \in Message
    PROVE  m.kind \in Kind /\ (m.kind = "confirm" => m.req \in Req)
BY DEF Message, Kind

LEMMA CallFields ==
    ASSUME NEW f \in Call
    PROVE  /\ f.op = "pcps" => f.req \in Req /\ f.at \in {"wait", "send"}
           /\ f.op = "flush" => f.slot \in Nat /\ f.rxOnOld \in BOOLEAN
           /\ f.op = "wait" => f.kind \in Kind
           /\ f.op = "callback" => f.wrapped \in BOOLEAN
BY DEF Call

LEMMA SeqOps ==
    ASSUME NEW S, NEW s \in Seq(S), NEW x \in S
    PROVE  /\ Append(s, x) \in Seq(S) /\ Append(s, x) # <<>>
           /\ s # <<>> => Head(s) \in S /\ Tail(s) \in Seq(S)
OBVIOUS

\* A message stays in the ring until its callback has returned.
RingInv == Handling(stack) # {} => ring # <<>>

LEMMA DataStep ==
    ASSUME ControlTypes, DataTypes, RingInv, [Next]_vars
    PROVE  DataTypes'
<1>a. elapsed + 1 \in Nat
  <2>1. elapsed \in Nat
    BY DEF DataTypes
  <2> QED
    BY <2>1
<1>b. ASSUME NEW n \in Nat \ {0, 1} PROVE \E d \in 1..n : d = n - 1
  OBVIOUS
<1> USE DEF DataTypes
<1>0. Top \in Call /\ Shape(stack)
  BY TopCall DEF ControlTypes
<1>1. ASSUME NEW r \in Req, SendAndCache(r), UNCHANGED <<table, sTargetCallback, ring, said, elapsed>>
      PROVE  DataTypes'
  BY <1>1, AddItem DEF SendAndCache
<1>2. CASE UNCHANGED vars
  BY <1>2 DEF vars, statics, waits, chip, history
<1>3. ASSUME NEW r \in Req, DataRequest(r) PROVE DataTypes'
  BY <1>1, <1>3 DEF DataRequest, waits
<1>4. ASSUME NEW r \in Req, PurgeRequest(r) PROVE DataTypes'
  BY <1>4, RemoveItem DEF PurgeRequest, waits
<1>5. ASSUME NEW r \in Req, ChipConfirms(r) PROVE DataTypes'
  <2>1. Confirm(r) \in Message
    BY DEF Confirm, Message
  <2>2. Append(ring, Confirm(r)) \in Seq(Message)
    BY <2>1, SeqOps
  <2> QED
    BY <1>5, <2>2 DEF ChipConfirms, statics, waits, history
<1>6. ASSUME NEW r \in Req, ChipLoses(r) PROVE DataTypes'
  BY <1>6 DEF ChipLoses, statics, waits
<1>7. ASSUME NEW on \in BOOLEAN, SetRxOnWhenIdle(on) PROVE DataTypes'
  BY <1>7 DEF SetRxOnWhenIdle, statics, waits
<1>8. CASE ScanRequest
  BY <1>8 DEF ScanRequest, waits
<1>9. CASE ResetRequest
  <2>1. [i \in Slot |-> Empty] \in [Slot -> Entry]
    BY DEF Entry
  <2> QED
    BY <1>9, <2>1 DEF ResetRequest, waits
<1>10. CASE ChipScanned \/ ChipRestarts
  <2>1. Wakeup \in Message /\ ScanDone \in Message
    BY DEF Wakeup, ScanDone, Message
  <2>2. Append(ring, Wakeup) \in Seq(Message) /\ Append(ring, ScanDone) \in Seq(Message)
    BY <2>1, SeqOps
  <2>3. /\ UNCHANGED <<MDR_Cache, table, sTargetCallback, sent, excused, said, elapsed>>
        /\ held' \subseteq held
        /\ ring' = Append(ring, Wakeup) \/ ring' = Append(ring, ScanDone)
    BY <1>10 DEF ChipScanned, ChipRestarts, statics, waits, history
  <2> QED
    BY <2>2, <2>3
<1>11. CASE Tick
  <2>1. UNCHANGED <<MDR_Cache, table, sTargetCallback, ring, held, sent, excused, said>>
    BY <1>11 DEF Tick, waits, chip, history
  <2>2. elapsed' \in Nat
    BY <1>a, <1>11 DEF Tick
  <2> QED
    BY <2>1, <2>2
<1>12. CASE Flat
  BY <1>2, <1>3, <1>4, <1>5, <1>6, <1>7, <1>8, <1>9, <1>10, <1>11, <1>12 DEF Flat
<1>13. ASSUME NEW r \in Req, AwkwardRequest(r) PROVE DataTypes'
  BY <1>13 DEF AwkwardRequest, waits
<1>14. ASSUME NEW kind, NEW target \in {"app", "swap", "wait"}, NEW caller,
              BeginWait(kind, target, caller)
       PROVE  /\ table' \in [Kind -> {"app", "swap", "wait"}]
              /\ sTargetCallback' \in {"app", "swap", "wait"}
  BY <1>14 DEF BeginWait
<1>15. ASSUME NEW kind \in WaitFor, NEW swap \in BOOLEAN, AppWait(kind, swap) PROVE DataTypes'
  <2>1. kind \in Kind
    BY DispatchAssumption DEF Kind
  <2> QED
    BY <1>14, <1>15, <2>1 DEF AppWait, statics, chip
<1>16. CASE PcpsSend
  <2>1. PICK r \in Req : SendAndCache(r)
    BY <1>0, <1>16, CallFields DEF PcpsSend
  <2>2. UNCHANGED <<table, sTargetCallback, ring, said, elapsed>>
    BY <1>16 DEF PcpsSend, waits
  <2> QED
    BY <1>1, <2>1, <2>2
<1>17. CASE FixWait
  <2>1. UNCHANGED <<MDR_Cache, ring, held, sent, excused, said, elapsed>>
    BY <1>17 DEF FixWait, statics, chip, history
  <2>2. UNCHANGED <<table, sTargetCallback>> \/ \E caller : BeginWait("wakeup", table["wakeup"], caller)
    BY <1>17 DEF FixWait, waits
  <2>3. table["wakeup"] \in {"app", "swap", "wait"}
    BY DEF Kind
  <2> QED
    BY <1>14, <2>1, <2>2, <2>3
<1>18. CASE WaitRound
  BY <1>18 DEF WaitRound, waits, chip, history
<1>19. CASE WaitAgain
  BY <1>19 DEF WaitAgain, statics, waits, chip, history
<1>20. CASE WaitEnd
  <2>1. UNCHANGED <<MDR_Cache, ring, held, sent, excused, said, elapsed>>
    BY <1>20 DEF WaitEnd, statics, chip, history
  <2>2. UNCHANGED sTargetCallback
    BY <1>20 DEF WaitEnd
  <2> QED
    BY <1>20, <2>1, <2>2 DEF WaitEnd, RestoreCallback
<1>21. CASE MainLoop
  BY <1>21 DEF MainLoop, waits, chip, history
<1>22. CASE DispatchMessage
  <2>0. ring # <<>>
    BY <1>22 DEF DispatchMessage
  <2>1. Head(ring) \in Message
    <3>1. PICK m \in Message : m = Wakeup
      BY DEF Message, Wakeup
    <3> QED
      BY <2>0, <3>1, SeqOps
  <2>2. PICK m \in Message : m = Head(ring)
    BY <2>1
  <2>3. UNCHANGED <<table, sTargetCallback, ring, held, sent, excused, elapsed>>
    BY <1>22 DEF DispatchMessage, chip
  <2>4. CASE m.kind = "confirm"
    <3>1. /\ MDR_Cache' = CacheRemoveItem(m.req) /\ m.req \in Req
          /\ said' = [said EXCEPT ![m.req] = Append(@, "real")]
      BY <1>22, <2>2, <2>4, MessageFields DEF DispatchMessage
    <3>2. Append(said[m.req], "real") \in Seq({"real", "made up"})
      BY <3>1, SeqOps
    <3> QED
      BY <2>3, <3>1, <3>2, RemoveItem
  <2>5. CASE m.kind # "confirm"
    BY <1>22, <2>2, <2>3, <2>5 DEF DispatchMessage
  <2> QED
    BY <2>4, <2>5
<1>23. CASE CallbackReturn
  <2>1. UNCHANGED <<table, sTargetCallback, held, sent, excused, said, elapsed>>
    BY <1>23 DEF CallbackReturn, chip, history
  <2>2. PICK c \in Call :
          /\ Top.op = "callback" /\ c = Head(Rest)
          /\ \/ /\ c.op = "dispatch" /\ c.at = "called"
                /\ ring' = Tail(ring) /\ UNCHANGED MDR_Cache
             \/ /\ UNCHANGED ring
                /\ MDR_Cache' = [MDR_Cache EXCEPT ![c.slot] = Empty]
    BY <1>23, CallbackReturnMoves
  <2>3. ring' \in Seq(Message)
    <3>1. CASE UNCHANGED ring
      BY <3>1
    <3>2. CASE c.op = "dispatch" /\ c.at = "called" /\ ring' = Tail(ring)
      <4>1. Len(stack) - 1 \in Handling(stack)
        <5>1. /\ Len(stack) \in Nat \ {0, 1} /\ At(stack, Len(stack) - 1) = c
          BY <1>0, <2>2, Returned
        <5>2. PICK n \in Nat \ {0, 1} : n = Len(stack)
          BY <5>1
        <5>3. PICK d \in 1..n : d = n - 1
          BY <1>b, <5>2
        <5>4. At(stack, d) = c
          BY <5>1, <5>2, <5>3
        <5>5. d \in Handling(stack)
          BY <3>2, <5>2, <5>3, <5>4 DEF Handling, Calls
        <5> QED
          BY <5>2, <5>3, <5>5
      <4>2. ring # <<>>
        BY <4>1 DEF RingInv
      <4>3. PICK m \in Message : m = Wakeup
        BY DEF Message, Wakeup
      <4> QED
        BY <3>2, <4>2, <4>3, SeqOps
    <3> QED
      BY <2>2, <3>1, <3>2
  <2>4. MDR_Cache' \in [Slot -> Entry]
    BY <2>2 DEF Entry
  <2> QED
    BY <2>1, <2>3, <2>4
<1>24. CASE DispatchEnd
  <2>1. UNCHANGED <<table, sTargetCallback, ring, held, sent, excused, said>>
    BY <1>24 DEF DispatchEnd, waits
  <2>2. UNCHANGED <<MDR_Cache, elapsed>> \/ CacheDecay(MDR_Cache)
    BY <1>24 DEF DispatchEnd
  <2>3. MDR_Cache' \in [Slot -> Entry] /\ elapsed' \in Nat
    BY <2>2, DecayItems
  <2> QED
    BY <2>1, <2>3
<1>25. CASE PurgeConfirm
  <2>1. PICK r : said' = [said EXCEPT ![r] = Append(@, "made up")]
    BY <1>25 DEF PurgeConfirm
  <2>2. \A q \in Req : Append(said[q], "made up") \in Seq({"real", "made up"})
    BY SeqOps
  <2>3. UNCHANGED <<MDR_Cache, table, sTargetCallback, ring, held, sent, excused, elapsed>>
    BY <1>25 DEF PurgeConfirm, statics, chip
  <2> QED
    BY <2>1, <2>2, <2>3
<1>26. CASE FlushEnd
  <2>1. UNCHANGED <<table, sTargetCallback, ring, sent, excused, said>> /\ held' \subseteq Req
    BY <1>26 DEF FlushEnd, waits
  <2>2. PICK cache \in [Slot -> Entry] : CacheDecay(cache)
    <3>1. [i \in Slot |-> IF i < Top.slot /\ isScanInProgress THEN MDR_Cache[i] ELSE Empty]
            \in [Slot -> Entry]
      BY DEF Entry
    <3> QED
      BY <1>26, <3>1 DEF FlushEnd
  <2>3. MDR_Cache' \in [Slot -> Entry] /\ elapsed' \in Nat
    BY <2>2, DecayItems
  <2> QED
    BY <2>1, <2>3
<1> QED
  BY <1>12, <1>13, <1>15, <1>16, <1>17, <1>18, <1>19, <1>20, <1>21, <1>22, <1>23, <1>24,
     <1>25, <1>26, Steps DEF Program

LEMMA ShapeStep ==
    ASSUME ControlTypes, [Next]_vars
    PROVE  Shape(stack')
<1>1. CASE Flat
  BY <1>1, FlatKeeps DEF ControlTypes
<1>2. ASSUME NEW r \in Req, AwkwardRequest(r) PROVE Shape(stack')
  BY <1>2, AwkwardMoves
<1>3. ASSUME NEW kind \in WaitFor, NEW swap \in BOOLEAN, AppWait(kind, swap) PROVE Shape(stack')
  BY <1>3, AppWaitMoves
<1>4. CASE Program
  BY <1>4, PcpsSendMoves, FixWaitMoves, WaitRoundMoves, WaitAgainMoves, WaitEndMoves, MainLoopMoves,
     DispatchMessageMoves, CallbackReturnMoves, DispatchEndMoves, PurgeConfirmMoves, FlushEndMoves
  DEF Program
<1> QED
  BY <1>1, <1>2, <1>3, <1>4, Steps

LEMMA ControlTypesStep ==
    ASSUME ControlTypes, [Next]_vars
    PROVE  ControlTypes'
<1>0. Shape(stack') /\ Top \in Call
  BY ShapeStep, TopCall DEF ControlTypes
<1> USE DEF ControlTypes
<1>1. CASE Flat
  <2>1. UNCHANGED <<stack, waits, isDispatching, isCacheFlushFixActive, isPCPSRxOn>>
    BY <1>1, FlatKeeps
  <2>2. \/ UNCHANGED <<isScanInProgress, rxOn, asked, raced>>
        \/ \E on \in BOOLEAN : SetRxOnWhenIdle(on)
        \/ ScanRequest \/ ChipRestarts
    BY <1>1 DEF Flat, DataRequest, PurgeRequest, ChipConfirms, ChipLoses, ResetRequest,
                ChipScanned, Tick, vars, statics, chip, history
  <2>3. ASSUME NEW on \in BOOLEAN, SetRxOnWhenIdle(on) PROVE ControlTypes'
    BY <1>0, <2>1, <2>3 DEF SetRxOnWhenIdle, Calling, statics, waits
  <2>4. CASE ScanRequest \/ ChipRestarts
    BY <1>0, <2>1, <2>4 DEF ScanRequest, ChipRestarts, statics, waits
  <2> QED
    BY <1>0, <2>1, <2>2, <2>3, <2>4 DEF waits
<1>2. ASSUME NEW r \in Req, AwkwardRequest(r) PROVE ControlTypes'
  BY <1>0, <1>2 DEF AwkwardRequest, Calling, waits
<1>3. ASSUME NEW kind \in WaitFor, NEW swap \in BOOLEAN, AppWait(kind, swap) PROVE ControlTypes'
  BY <1>0, <1>3 DEF AppWait, BeginWait, statics, chip
<1>4. CASE PcpsSend
  BY <1>0, <1>4 DEF PcpsSend, PcpsReceiver, waits
<1>5. CASE FixWait
  BY <1>0, <1>5 DEF FixWait, BeginWait, statics, waits, chip, history
<1>6. CASE WaitRound
  BY <1>0, <1>6 DEF WaitRound, waits, chip, history
<1>7. CASE WaitAgain
  BY <1>0, <1>7 DEF WaitAgain, statics, waits, chip, history
<1>8. CASE WaitEnd
  BY <1>0, <1>8 DEF WaitEnd, statics, chip, history
<1>9. CASE MainLoop
  BY <1>0, <1>9 DEF MainLoop, waits, chip, history
<1>10. CASE DispatchMessage
  BY <1>0, <1>10 DEF DispatchMessage, CallBack, chip
<1>11. CASE CallbackReturn
  BY <1>0, <1>11 DEF CallbackReturn, chip, history
<1>12. CASE DispatchEnd
  <2>1. UNCHANGED <<isPCPSRxOn, isScanInProgress, waits, asked>> /\ isDispatching' = FALSE
    BY <1>12 DEF DispatchEnd
  <2>2. isCacheFlushFixActive' \in BOOLEAN /\ rxOn' \in BOOLEAN /\ raced' \in BOOLEAN
    BY <1>12, DispatchEndMoves
  <2> QED
    BY <1>0, <2>1, <2>2 DEF waits
<1>13. CASE PurgeConfirm
  BY <1>0, <1>13 DEF PurgeConfirm, CallBack, statics, chip
<1>14. CASE FlushEnd
  <2>1. UNCHANGED <<isPCPSRxOn, isScanInProgress, isDispatching, waits, asked>>
        /\ isCacheFlushFixActive' = FALSE
        /\ raced' = (raced \/ isScanInProgress)
    BY <1>14 DEF FlushEnd
  <2>2. rxOn' \in BOOLEAN
    BY <1>0, <1>14, CallFields, FlushEndMoves DEF FlushEnd
  <2> QED
    BY <1>0, <2>1, <2>2 DEF waits
<1> QED
  BY <1>1, <1>2, <1>3, <1>4, <1>5, <1>6, <1>7, <1>8, <1>9, <1>10, <1>11, <1>12, <1>13, <1>14,
     Steps DEF Program

----------------------------------------------------------------------------
(* Waits.  One is in progress at a time; the table differs from that of    *)
(* the application in the entry it waits for, and it knows what to put     *)
(* back there.                                                             *)

WaitInv ==
    /\ OneOf(Calls(stack, "wait"))
    /\ \A k \in Kind : table[k] = IF \E d \in Calls(stack, "wait") : At(stack, d).kind = k
                                  THEN "wait" ELSE "app"
    /\ sWaiting <=> Calls(stack, "wait") # {}
    /\ Calls(stack, "wait") # {} => sTargetCallback \in {"app", "swap"}

\* The callback of a wait runs while the wait is in progress, further in.
CallbackInv ==
    /\ sWaitCallbackActive <=> Wrapped(stack) # {}
    /\ \A d \in Wrapped(stack) : \E e \in Calls(stack, "wait") : e < d

LEMMA SameWaits ==
    ASSUME WaitInv, UNCHANGED <<table, sWaiting, sTargetCallback>>,
           Calls(stack', "wait") = Calls(stack, "wait"),
           \A d \in Calls(stack, "wait") : At(stack', d).kind = At(stack, d).kind
    PROVE  WaitInv'
<1>1. \A k \in Kind : (\E d \in Calls(stack', "wait") : At(stack', d).kind = k)
                      <=> (\E d \in Calls(stack, "wait") : At(stack, d).kind = k)
  OBVIOUS
<1> QED
  BY <1>1 DEF WaitInv

LEMMA WaitBegins ==
    ASSUME WaitInv, MayWait, table \in [Kind -> {"app", "swap", "wait"}], NEW kind \in Kind,
           NEW target \in {"swap", table[kind]}, NEW caller, BeginWait(kind, target, caller),
           NEW m, Calls(stack', "wait") = {m}, At(stack', m).kind = kind
    PROVE  WaitInv'
<1>1. Calls(stack, "wait") = {} /\ \A k \in Kind : table[k] = "app"
  BY DEF WaitInv, MayWait
<1>2. /\ sWaiting' = TRUE /\ sTargetCallback' \in {"app", "swap"}
      /\ table' = [table EXCEPT ![kind] = "wait"]
  BY <1>1 DEF BeginWait
<1>3. \A k \in Kind : table'[k] = IF k = kind THEN "wait" ELSE "app"
  BY <1>1, <1>2
<1> QED
  BY <1>2, <1>3 DEF WaitInv, OneOf

\* The innermost callback of a wait is the only one.
LEMMA OneWrapped ==
    ASSUME Shape(stack), WaitInv, CallbackInv, NEW d \in Wrapped(stack)
    PROVE  \/ d = Len(stack)
           \/ d = Len(stack) - 1 /\ Top.op = "pcps"
<1> DEFINE n == Len(stack)
<1>1. /\ n \in Nat \ {0} /\ At(stack, n) = Top
      /\ \A e \in 1..(n - 1) : MayCall(At(stack, e), At(stack, e + 1))
  BY TopCall DEF Shape
<1>2. d \in 1..n /\ At(stack, d).op = "callback"
  BY DEF Wrapped, Calls
<1>3. ASSUME NEW e \in 1..n, At(stack, e).op = "wait" PROVE e < d
  BY <1>3 DEF WaitInv, CallbackInv, OneOf, Calls
<1>4. CASE d # n
  <2>1. PICK e \in 1..n : e = d + 1
    BY <1>1, <1>2, <1>4
  <2>2. MayCall(At(stack, d), At(stack, e))
    <3>1. d \in 1..(n - 1)
      BY <1>1, <1>2, <1>4
    <3> HIDE DEF n
    <3> QED
      BY <1>1, <2>1, <3>1
  <2>3. At(stack, e).op = "pcps"
    <3>1. At(stack, e).op # "wait"
      BY <1>1, <1>2, <1>3, <2>1
    <3> QED
      BY <1>2, <2>2, <3>1 DEF MayCall
  <2>4. e = n
    <3> SUFFICES ASSUME e # n PROVE FALSE
      OBVIOUS
    <3>1. e \in 1..(n - 1) /\ e + 1 \in 1..n
      BY <1>1, <2>1
    <3>2. MayCall(At(stack, e), At(stack, e + 1))
      <4> HIDE DEF n
      <4> QED
        BY <1>1, <3>1
    <3>3. At(stack, e + 1).op = "wait"
      BY <2>3, <3>2 DEF MayCall
    <3>4. e + 1 < d
      <4> HIDE DEF n
      <4> QED
        BY <1>3, <3>1, <3>3
    <3> QED
      BY <1>2, <2>1, <3>1, <3>4
  <2> QED
    BY <1>1, <1>2, <2>1, <2>3, <2>4
<1> QED
  BY <1>4

LEMMA WaitStep ==
    ASSUME ControlTypes, DataTypes, WaitInv, [Next]_vars
    PROVE  WaitInv'
<1>0. Shape(stack)
  BY DEF ControlTypes
<1>1. CASE Flat
  BY <1>1, FlatKeeps DEF WaitInv, waits
<1>2. ASSUME NEW r \in Req, AwkwardRequest(r) PROVE WaitInv'
  <2>1. PICK f \in Call : /\ stack' = Push(f, stack) /\ f.op = "pcps" /\ f.at = "wait"
                          /\ f.req = r
    BY <1>2, AwkwardMoves
  <2>2. UNCHANGED <<table, sWaiting, sTargetCallback>>
    BY <1>2 DEF AwkwardRequest, waits
  <2>3. PICK n \in Nat \ {0} :
          /\ n = Len(stack) /\ Len(stack') = n + 1 /\ Below(n, stack, stack')
          /\ At(stack, n) = Top /\ At(stack', n + 1) = f
    BY <1>0, <2>1, Called
  <2>4. /\ Calls(stack', "wait") = Calls(stack, "wait")
        /\ \A d \in Calls(stack, "wait") : At(stack', d).kind = At(stack, d).kind
    BY <2>1, <2>3 DEF Calls, Below
  <2> QED
    BY <2>2, <2>4, SameWaits
<1>3. ASSUME NEW kind \in WaitFor, NEW swap \in BOOLEAN, AppWait(kind, swap) PROVE WaitInv'
  <2>1. PICK f \in Call : stack' = Push(f, stack) /\ f.op = "wait" /\ f.kind = kind
    BY <1>3, AppWaitMoves
  <2>2. /\ MayWait /\ kind \in Kind
        /\ BeginWait(kind, IF swap THEN "swap" ELSE table[kind], stack)
    BY <1>3, DispatchAssumption DEF AppWait, Kind
  <2>3. PICK n \in Nat \ {0} :
          /\ n = Len(stack) /\ Len(stack') = n + 1 /\ Below(n, stack, stack')
          /\ At(stack, n) = Top /\ At(stack', n + 1) = f
    BY <1>0, <2>1, Called
  <2>4. Calls(stack', "wait") = {n + 1} /\ At(stack', n + 1).kind = kind
    <3>1. Calls(stack, "wait") = {}
      BY <2>2 DEF WaitInv, MayWait
    <3> QED
      BY <2>1, <2>3, <3>1 DEF Calls, Below
  <2>5. PICK target \in {"swap", table[kind]} : target = IF swap THEN "swap" ELSE table[kind]
    OBVIOUS
  <2> QED
    BY <2>2, <2>4, <2>5, WaitBegins DEF DataTypes
<1>4. CASE PcpsSend
  <2>1. stack' = Rest /\ Top.op = "pcps"
    BY <1>4 DEF PcpsSend
  <2>2. UNCHANGED <<table, sWaiting, sTargetCallback>>
    BY <1>4 DEF PcpsSend, SendAndCache, waits
  <2>3. PICK n \in Nat \ {0, 1} :
          /\ n = Len(stack) /\ Len(stack') = n - 1 /\ Below(n - 1, stack, stack')
          /\ At(stack, n) = Top /\ At(stack, n - 1) = Head(Rest)
    BY <1>0, <2>1, Returned
  <2>4. /\ Calls(stack', "wait") = Calls(stack, "wait")
        /\ \A d \in Calls(stack, "wait") : At(stack', d).kind = At(stack, d).kind
    BY <2>1, <2>3 DEF Calls, Below
  <2> QED
    BY <2>2, <2>4, SameWaits
<1>5. CASE FixWait
  <2>1. PICK g \in Call :
          /\ g.op = Top.op /\ Top.op \in {"pcps", "flush"}
          /\ \/ ~MayWait /\ stack' = Push(g, Rest) /\ UNCHANGED waits
             \/ MayWait /\ \E f \in Call :
                  /\ f.op = "wait" /\ f.kind = "wakeup"
                  /\ stack' = Push(f, Push(g, Rest))
                  /\ BeginWait("wakeup", table["wakeup"], Push(g, Rest))
    BY <1>5, FixWaitMoves
  <2>2. CASE stack' = Push(g, Rest) /\ UNCHANGED waits
    <3>1. /\ Calls(stack', "wait") = Calls(stack, "wait")
          /\ \A d \in Calls(stack, "wait") : At(stack', d).kind = At(stack, d).kind
      BY <1>0, <2>1, <2>2, Turned DEF Calls, Below
    <3> QED
      BY <2>2, <3>1, SameWaits DEF waits
  <2>3. ASSUME MayWait, NEW f \in Call, f.op = "wait", f.kind = "wakeup",
               stack' = Push(f, Push(g, Rest)),
               BeginWait("wakeup", table["wakeup"], Push(g, Rest))
        PROVE  WaitInv'
    <3>1. PICK n \in Nat \ {0, 1} :
            /\ n = Len(stack) /\ Len(stack') = n + 1 /\ Below(n - 1, stack, stack')
            /\ At(stack, n) = Top /\ At(stack', n) = g /\ At(stack', n + 1) = f
      BY <1>0, <2>1, <2>3, TurnedCalling
    <3>2. Calls(stack, "wait") = {}
      BY <2>3 DEF WaitInv, MayWait
    <3>3. Calls(stack', "wait") = {n + 1} /\ At(stack', n + 1).kind = "wakeup"
      BY <2>1, <2>3, <3>1, <3>2 DEF Calls, Below
    <3>4. "wakeup" \in Kind
      BY DEF Kind
    <3>5. PICK target \in {"swap", table["wakeup"]} : target = table["wakeup"]
      OBVIOUS
    <3> QED
      BY <2>3, <3>3, <3>4, <3>5, WaitBegins DEF DataTypes
  <2> QED
    BY <2>1, <2>2, <2>3
<1>6. CASE WaitRound
  <2>1. PICK f, g \in Call : /\ stack' = Push(f, Push(g, Rest)) /\ Top.op = "wait"
                             /\ g.op = "wait" /\ g.kind = Top.kind
                             /\ f.op = "dispatch" /\ f.at = "loop"
    BY <1>6, WaitRoundMoves
  <2>2. UNCHANGED <<table, sWaiting, sTargetCallback>>
    BY <1>6 DEF WaitRound, waits, chip, history
  <2>3. PICK n \in Nat \ {0, 1} :
          /\ n = Len(stack) /\ Len(stack') = n + 1 /\ Below(n - 1, stack, stack')
          /\ At(stack, n) = Top /\ At(stack', n) = g /\ At(stack', n + 1) = f
    BY <1>0, <2>1, TurnedCalling
  <2>4. /\ Calls(stack', "wait") = Calls(stack, "wait")
        /\ \A d \in Calls(stack, "wait") : At(stack', d).kind = At(stack, d).kind
    BY <2>1, <2>3 DEF Calls, Below
  <2> QED
    BY <2>2, <2>4, SameWaits
<1>7. CASE WaitAgain
  <2>1. PICK g \in Call : /\ stack' = Push(g, Rest) /\ Top.op = "wait"
                          /\ g.op = "wait" /\ g.kind = Top.kind
    BY <1>7, WaitAgainMoves
  <2>2. UNCHANGED <<table, sWaiting, sTargetCallback>>
    BY <1>7 DEF WaitAgain, statics, waits, chip, history
  <2>3. PICK n \in Nat \ {0, 1} :
          /\ n = Len(stack) /\ Len(stack') = n /\ Below(n - 1, stack, stack')
          /\ At(stack, n) = Top /\ At(stack', n) = g
    BY <1>0, <2>1, Turned
  <2>4. /\ Calls(stack', "wait") = Calls(stack, "wait")
        /\ \A d \in Calls(stack, "wait") : At(stack', d).kind = At(stack, d).kind
    BY <2>1, <2>3 DEF Calls, Below
  <2> QED
    BY <2>2, <2>4, SameWaits
<1>8. CASE WaitEnd
  <2>1. stack' = Rest /\ Top.op = "wait"
    BY <1>8, WaitEndMoves
  <2>2. table' = RestoreCallback(Top.kind) /\ sWaiting' = FALSE
    BY <1>8 DEF WaitEnd
  <2>3. PICK n \in Nat \ {0, 1} :
          /\ n = Len(stack) /\ Len(stack') = n - 1 /\ Below(n - 1, stack, stack')
          /\ At(stack, n) = Top /\ At(stack, n - 1) = Head(Rest)
    BY <1>0, <2>1, Returned
  <2>4. n \in Calls(stack, "wait") /\ Top.kind \in Kind
    BY <1>0, <2>1, <2>3, TopCall, CallFields DEF Calls
  <2>5. Calls(stack, "wait") = {n}
    <3>1. \A d \in Calls(stack, "wait") : d = n
      BY <2>4 DEF WaitInv, OneOf
    <3> QED
      BY <2>4, <3>1
  <2>6. Calls(stack', "wait") = {}
    BY <2>3, <2>5 DEF Calls, Below
  <2>7. ASSUME NEW k \in Kind PROVE table'[k] = "app"
    <3>1. CASE k = Top.kind
      BY <2>2, <2>4, <3>1 DEF RestoreCallback, WaitInv, DataTypes
    <3>2. CASE k # Top.kind
      <4>1. table[k] = "app"
        BY <2>3, <2>5, <3>2 DEF WaitInv
      <4> QED
        BY <2>2, <3>2, <4>1 DEF RestoreCallback, DataTypes
    <3> QED
      BY <3>1, <3>2
  <2> QED
    BY <2>2, <2>6, <2>7 DEF WaitInv, OneOf
<1>9. CASE MainLoop
  <2>1. PICK f \in Call : stack' = Push(f, stack) /\ f.op = "dispatch" /\ f.at = "loop"
    BY <1>9, MainLoopMoves
  <2>2. UNCHANGED <<table, sWaiting, sTargetCallback>>
    BY <1>9 DEF MainLoop, waits, chip, history
  <2>3. PICK n \in Nat \ {0} :
          /\ n = Len(stack) /\ Len(stack') = n + 1 /\ Below(n, stack, stack')
          /\ At(stack, n) = Top /\ At(stack', n + 1) = f
    BY <1>0, <2>1, Called
  <2>4. /\ Calls(stack', "wait") = Calls(stack, "wait")
        /\ \A d \in Calls(stack, "wait") : At(stack', d).kind = At(stack, d).kind
    BY <2>1, <2>3 DEF Calls, Below
  <2> QED
    BY <2>2, <2>4, SameWaits
<1>10. CASE DispatchMessage
  <2>1. PICK f, g \in Call : /\ stack' = Push(f, Push(g, Rest)) /\ Top.op = "dispatch"
                             /\ g.op = "dispatch" /\ g.at = "called" /\ f.op = "callback"
                             /\ f.wrapped = (table[Head(ring).kind] = "wait")
    BY <1>10, DispatchMessageMoves
  <2>2. UNCHANGED <<table, sWaiting, sTargetCallback>>
    BY <1>10 DEF DispatchMessage, chip, CallBack
  <2>3. PICK n \in Nat \ {0, 1} :
          /\ n = Len(stack) /\ Len(stack') = n + 1 /\ Below(n - 1, stack, stack')
          /\ At(stack, n) = Top /\ At(stack', n) = g /\ At(stack', n + 1) = f
    BY <1>0, <2>1, TurnedCalling
  <2>4. /\ Calls(stack', "wait") = Calls(stack, "wait")
        /\ \A d \in Calls(stack, "wait") : At(stack', d).kind = At(stack, d).kind
    BY <2>1, <2>3 DEF Calls, Below
  <2> QED
    BY <2>2, <2>4, SameWaits
<1>11. CASE CallbackReturn
  <2>1. PICK g, c \in Call :
          /\ Top.op = "callback" /\ c = Head(Rest) /\ stack' = Push(g, Tail(Rest))
          /\ g.op = c.op
          /\ \/ c.op = "dispatch" /\ c.at = "called" /\ g.at = "loop"
             \/ c.op = "flush" /\ g.slot = c.slot + 1 /\ g.rxOnOld = c.rxOnOld
    BY <1>11, CallbackReturnMoves
  <2>2. UNCHANGED <<table, sWaiting, sTargetCallback>>
    BY <1>11 DEF CallbackReturn, chip, history
  <2>3. PICK n \in Nat \ {0, 1, 2} :
          /\ n = Len(stack) /\ Len(stack') = n - 1 /\ Below(n - 2, stack, stack')
          /\ At(stack, n) = Top /\ At(stack, n - 1) = c /\ At(stack', n - 1) = g
    BY <1>0, <2>1, ReturnedTo
  <2>4. /\ Calls(stack', "wait") = Calls(stack, "wait")
        /\ \A d \in Calls(stack, "wait") : At(stack', d).kind = At(stack, d).kind
    BY <2>1, <2>3 DEF Calls, Below
  <2> QED
    BY <2>2, <2>4, SameWaits
<1>12. CASE DispatchEnd
  <2>2. UNCHANGED <<table, sWaiting, sTargetCallback>>
    BY <1>12 DEF DispatchEnd, waits
  <2>3. /\ Top.op = "dispatch"
        /\ \/ stack' = Rest
           \/ \E f, g \in Call : /\ stack' = Push(f, Push(g, Rest))
                                 /\ g.op = "dispatch" /\ f.op = "flush"
    BY <1>12, DispatchEndMoves
  <2>4. /\ Calls(stack', "wait") = Calls(stack, "wait")
        /\ \A d \in Calls(stack, "wait") : At(stack', d).kind = At(stack, d).kind
    <3>1. CASE stack' = Rest
      BY <1>0, <2>3, <3>1, Returned DEF Calls, Below
    <3>2. ASSUME NEW f \in Call, NEW g \in Call, stack' = Push(f, Push(g, Rest)),
                 g.op = "dispatch", f.op = "flush"
          PROVE  /\ Calls(stack', "wait") = Calls(stack, "wait")
                 /\ \A d \in Calls(stack, "wait") : At(stack', d).kind = At(stack, d).kind
      BY <1>0, <2>3, <3>2, TurnedCalling DEF Calls, Below
    <3> QED
      BY <2>3, <3>1, <3>2
  <2> QED
    BY <2>2, <2>4, SameWaits
<1>13. CASE PurgeConfirm
  <2>1. PICK f, g \in Call : /\ stack' = Push(f, Push(g, Rest)) /\ Top.op = "flush"
                             /\ g.op = "flush" /\ g.rxOnOld = Top.rxOnOld
                             /\ f.op = "callback"
                             /\ f.wrapped = (table["confirm"] = "wait")
    BY <1>13, PurgeConfirmMoves
  <2>2. UNCHANGED <<table, sWaiting, sTargetCallback>>
    BY <1>13 DEF PurgeConfirm, statics, chip, CallBack
  <2>3. PICK n \in Nat \ {0, 1} :
          /\ n = Len(stack) /\ Len(stack') = n + 1 /\ Below(n - 1, stack, stack')
          /\ At(stack, n) = Top /\ At(stack', n) = g /\ At(stack', n + 1) = f
    BY <1>0, <2>1, TurnedCalling
  <2>4. /\ Calls(stack', "wait") = Calls(stack, "wait")
        /\ \A d \in Calls(stack, "wait") : At(stack', d).kind = At(stack, d).kind
    BY <2>1, <2>3 DEF Calls, Below
  <2> QED
    BY <2>2, <2>4, SameWaits
<1>14. CASE FlushEnd
  <2>1. PICK c \in Call : /\ Top.op = "flush" /\ c.op = "dispatch"
                          /\ Rest = Push(c, stack') /\ stack' \in Seq(Call)
    BY <1>14, FlushEndMoves
  <2>2. UNCHANGED <<table, sWaiting, sTargetCallback>>
    BY <1>14 DEF FlushEnd, waits
  <2>3. PICK n \in Nat \ {0, 1} :
          /\ n = Len(stack) /\ Len(stack') = n - 2 /\ Below(n - 2, stack, stack')
          /\ At(stack, n) = Top /\ At(stack, n - 1) = c
    BY <1>0, <2>1, ReturnedTwice
  <2>4. /\ Calls(stack', "wait") = Calls(stack, "wait")
        /\ \A d \in Calls(stack, "wait") : At(stack', d).kind = At(stack, d).kind
    BY <2>1, <2>3 DEF Calls, Below
  <2> QED
    BY <2>2, <2>4, SameWaits
<1> QED
  BY <1>1, <1>2, <1>3, <1>4, <1>5, <1>6, <1>7, <1>8, <1>9, <1>10, <1>11, <1>12, <1>13, <1>14,
     Steps DEF Program

LEMMA CallbackStep ==
    ASSUME ControlTypes, DataTypes, WaitInv, CallbackInv, [Next]_vars
    PROVE  CallbackInv'
<1>0. Shape(stack)
  BY DEF ControlTypes
<1>1. CASE Flat
  BY <1>1, FlatKeeps DEF CallbackInv, waits
<1>2. ASSUME NEW r \in Req, AwkwardRequest(r) PROVE CallbackInv'
  <2>1. PICK f \in Call : /\ stack' = Push(f, stack) /\ f.op = "pcps" /\ f.at = "wait"
                          /\ f.req = r
    BY <1>2, AwkwardMoves
  <2>2. UNCHANGED sWaitCallbackActive
    BY <1>2 DEF AwkwardRequest, waits
  <2>3. PICK n \in Nat \ {0} :
          /\ n = Len(stack) /\ Len(stack') = n + 1 /\ Below(n, stack, stack')
          /\ At(stack, n) = Top /\ At(stack', n + 1) = f
    BY <1>0, <2>1, Called
  <2>4. /\ Wrapped(stack') = Wrapped(stack)
        /\ \A e \in Calls(stack, "wait") : e \in Calls(stack', "wait")
    BY <2>1, <2>3 DEF Wrapped, Calls, Below
  <2> QED
    BY <2>2, <2>4 DEF CallbackInv
<1>3. ASSUME NEW kind \in WaitFor, NEW swap \in BOOLEAN, AppWait(kind, swap) PROVE CallbackInv'
  <2>1. PICK f \in Call : stack' = Push(f, stack) /\ f.op = "wait" /\ f.kind = kind
    BY <1>3, AppWaitMoves
  <2>2. UNCHANGED sWaitCallbackActive
    BY <1>3 DEF AppWait, BeginWait
  <2>3. PICK n \in Nat \ {0} :
          /\ n = Len(stack) /\ Len(stack') = n + 1 /\ Below(n, stack, stack')
          /\ At(stack, n) = Top /\ At(stack', n + 1) = f
    BY <1>0, <2>1, Called
  <2>4. /\ Wrapped(stack') = Wrapped(stack)
        /\ \A e \in Calls(stack, "wait") : e \in Calls(stack', "wait")
    BY <2>1, <2>3 DEF Wrapped, Calls, Below
  <2> QED
    BY <2>2, <2>4 DEF CallbackInv
<1>4. CASE PcpsSend
  <2>1. stack' = Rest /\ Top.op = "pcps"
    BY <1>4 DEF PcpsSend
  <2>2. UNCHANGED sWaitCallbackActive
    BY <1>4 DEF PcpsSend, SendAndCache, waits
  <2>3. PICK n \in Nat \ {0, 1} :
          /\ n = Len(stack) /\ Len(stack') = n - 1 /\ Below(n - 1, stack, stack')
          /\ At(stack, n) = Top /\ At(stack, n - 1) = Head(Rest)
    BY <1>0, <2>1, Returned
  <2>4. /\ Wrapped(stack') = Wrapped(stack)
        /\ \A e \in Calls(stack, "wait") : e \in Calls(stack', "wait")
    BY <2>1, <2>3 DEF Wrapped, Calls, Below
  <2> QED
    BY <2>2, <2>4 DEF CallbackInv
<1>5. CASE FixWait
  <2>1. PICK g \in Call :
          /\ g.op = Top.op /\ Top.op \in {"pcps", "flush"}
          /\ \/ stack' = Push(g, Rest)
             \/ \E f \in Call : f.op = "wait" /\ stack' = Push(f, Push(g, Rest))
    BY <1>5, FixWaitMoves
  <2>2. UNCHANGED sWaitCallbackActive
    BY <1>5 DEF FixWait, BeginWait, waits
  <2>3. /\ Wrapped(stack') = Wrapped(stack)
        /\ \A e \in Calls(stack, "wait") : e \in Calls(stack', "wait")
    <3>1. CASE stack' = Push(g, Rest)
      BY <1>0, <2>1, <3>1, Turned DEF Wrapped, Calls, Below
    <3>2. ASSUME NEW f \in Call, f.op = "wait", stack' = Push(f, Push(g, Rest))
          PROVE  /\ Wrapped(stack') = Wrapped(stack)
                 /\ \A e \in Calls(stack, "wait") : e \in Calls(stack', "wait")
      BY <1>0, <2>1, <3>2, TurnedCalling DEF Wrapped, Calls, Below
    <3> QED
      BY <2>1, <3>1, <3>2
  <2> QED
    BY <2>2, <2>3 DEF CallbackInv
<1>6. CASE WaitRound
  <2>1. PICK f, g \in Call : /\ stack' = Push(f, Push(g, Rest)) /\ Top.op = "wait"
                             /\ g.op = "wait" /\ g.kind = Top.kind
                             /\ f.op = "dispatch" /\ f.at = "loop"
    BY <1>6, WaitRoundMoves
  <2>2. UNCHANGED sWaitCallbackActive
    BY <1>6 DEF WaitRound, waits, chip, history
  <2>3. PICK n \in Nat \ {0, 1} :
          /\ n = Len(stack) /\ Len(stack') = n + 1 /\ Below(n - 1, stack, stack')
          /\ At(stack, n) = Top /\ At(stack', n) = g /\ At(stack', n + 1) = f
    BY <1>0, <2>1, TurnedCalling
  <2>4. /\ Wrapped(stack') = Wrapped(stack)
        /\ \A e \in Calls(stack, "wait") : e \in Calls(stack', "wait")
    BY <2>1, <2>3 DEF Wrapped, Calls, Below
  <2> QED
    BY <2>2, <2>4 DEF CallbackInv
<1>7. CASE WaitAgain
  <2>1. PICK g \in Call : /\ stack' = Push(g, Rest) /\ Top.op = "wait"
                          /\ g.op = "wait" /\ g.kind = Top.kind
    BY <1>7, WaitAgainMoves
  <2>2. UNCHANGED sWaitCallbackActive
    BY <1>7 DEF WaitAgain, statics, waits, chip, history
  <2>3. PICK n \in Nat \ {0, 1} :
          /\ n = Len(stack) /\ Len(stack') = n /\ Below(n - 1, stack, stack')
          /\ At(stack, n) = Top /\ At(stack', n) = g
    BY <1>0, <2>1, Turned
  <2>4. /\ Wrapped(stack') = Wrapped(stack)
        /\ \A e \in Calls(stack, "wait") : e \in Calls(stack', "wait")
    BY <2>1, <2>3 DEF Wrapped, Calls, Below
  <2> QED
    BY <2>2, <2>4 DEF CallbackInv
<1>8. CASE WaitEnd
  <2>1. stack' = Rest /\ Top.op = "wait"
    BY <1>8, WaitEndMoves
  <2>2. UNCHANGED sWaitCallbackActive
    BY <1>8 DEF WaitEnd
  <2>3. PICK n \in Nat \ {0, 1} :
          /\ n = Len(stack) /\ Len(stack') = n - 1 /\ Below(n - 1, stack, stack')
          /\ At(stack, n) = Top /\ At(stack, n - 1) = Head(Rest)
    BY <1>0, <2>1, Returned
  <2>4. n \in Calls(stack, "wait")
    BY <2>1, <2>3 DEF Calls
  <2>5. Wrapped(stack) = {}
    <3> SUFFICES ASSUME NEW d \in Wrapped(stack) PROVE FALSE
      OBVIOUS
    <3>1. PICK e \in Calls(stack, "wait") : e < d
      BY DEF CallbackInv
    <3>2. e = n /\ d \in 1..n
      BY <2>3, <2>4 DEF WaitInv, OneOf, Wrapped, Calls
    <3> QED
      BY <3>1, <3>2
  <2>6. Wrapped(stack') = {}
    BY <2>3, <2>5 DEF Wrapped, Calls, Below
  <2> QED
    BY <2>2, <2>5, <2>6 DEF CallbackInv
<1>9. CASE MainLoop
  <2>1. PICK f \in Call : stack' = Push(f, stack) /\ f.op = "dispatch" /\ f.at = "loop"
    BY <1>9, MainLoopMoves
  <2>2. UNCHANGED sWaitCallbackActive
    BY <1>9 DEF MainLoop, waits, chip, history
  <2>3. PICK n \in Nat \ {0} :
          /\ n = Len(stack) /\ Len(stack') = n + 1 /\ Below(n, stack, stack')
          /\ At(stack, n) = Top /\ At(stack', n + 1) = f
    BY <1>0, <2>1, Called
  <2>4. /\ Wrapped(stack') = Wrapped(stack)
        /\ \A e \in Calls(stack, "wait") : e \in Calls(stack', "wait")
    BY <2>1, <2>3 DEF Wrapped, Calls, Below
  <2> QED
    BY <2>2, <2>4 DEF CallbackInv
<1>10. CASE DispatchMessage
  <2>1. PICK f, g \in Call : /\ stack' = Push(f, Push(g, Rest)) /\ Top.op = "dispatch"
                             /\ g.op = "dispatch" /\ g.at = "called" /\ f.op = "callback"
                             /\ f.wrapped = (table[Head(ring).kind] = "wait")
    BY <1>10, DispatchMessageMoves
  <2>2. sWaitCallbackActive' = (sWaitCallbackActive \/ f.wrapped)
    BY <1>10, <2>1 DEF DispatchMessage, CallBack
  <2>3. PICK n \in Nat \ {0, 1} :
          /\ n = Len(stack) /\ Len(stack') = n + 1 /\ Below(n - 1, stack, stack')
          /\ At(stack, n) = Top /\ At(stack', n) = g /\ At(stack', n + 1) = f
    BY <1>0, <2>1, TurnedCalling
  <2>4. /\ Wrapped(stack') = IF f.wrapped THEN Wrapped(stack) \cup {n + 1} ELSE Wrapped(stack)
        /\ Calls(stack', "wait") = Calls(stack, "wait")
    <3>1. Calls(stack', "wait") = Calls(stack, "wait")
      BY <2>1, <2>3 DEF Calls, Below
    <3> QED
      BY <2>1, <2>3, <3>1 DEF Wrapped, Calls, Below
  <2>5. ASSUME f.wrapped PROVE \E e \in Calls(stack, "wait") : e < n + 1
    <3>1. Head(ring).kind \in Kind
      <4>1. ring # <<>>
        BY <1>10 DEF DispatchMessage
      <4>2. PICK m \in Message : m = Wakeup
        BY DEF Message, Wakeup
      <4> QED
        BY <4>1, <4>2, SeqOps, MessageFields DEF DataTypes
    <3>2. Calls(stack, "wait") # {}
      BY <2>1, <2>5, <3>1 DEF WaitInv
    <3> QED
      BY <2>3, <3>2 DEF Calls
  <2> QED
    BY <2>2, <2>4, <2>5 DEF CallbackInv
<1>11. CASE CallbackReturn
  <2>1. PICK g, c \in Call :
          /\ Top.op = "callback" /\ c = Head(Rest) /\ stack' = Push(g, Tail(Rest))
          /\ g.op = c.op
          /\ \/ c.op = "dispatch" /\ c.at = "called" /\ g.at = "loop"
             \/ c.op = "flush" /\ g.slot = c.slot + 1 /\ g.rxOnOld = c.rxOnOld
    BY <1>11, CallbackReturnMoves
  <2>2. sWaitCallbackActive' = IF Top.wrapped THEN FALSE ELSE sWaitCallbackActive
    BY <1>11 DEF CallbackReturn
  <2>3. PICK n \in Nat \ {0, 1, 2} :
          /\ n = Len(stack) /\ Len(stack') = n - 1 /\ Below(n - 2, stack, stack')
          /\ At(stack, n) = Top /\ At(stack, n - 1) = c /\ At(stack', n - 1) = g
    BY <1>0, <2>1, ReturnedTo
  <2>4. /\ Wrapped(stack') = Wrapped(stack) \ {n}
        /\ Calls(stack', "wait") = Calls(stack, "wait")
    BY <2>1, <2>3 DEF Wrapped, Calls, Below
  <2>5. \A d \in Wrapped(stack) : d = n
    BY <1>0, <2>1, <2>3, OneWrapped
  <2>6. n \in Wrapped(stack) <=> Top.wrapped
    BY <2>1, <2>3 DEF Wrapped, Calls
  <2>7. Top.wrapped \in BOOLEAN
    BY <1>0, <2>1, TopCall, CallFields
  <2> QED
    BY <2>2, <2>4, <2>5, <2>6, <2>7 DEF CallbackInv
<1>12. CASE DispatchEnd
  <2>2. UNCHANGED sWaitCallbackActive
    BY <1>12 DEF DispatchEnd, waits
  <2>3. /\ Top.op = "dispatch"
        /\ \/ stack' = Rest
           \/ \E f, g \in Call : /\ stack' = Push(f, Push(g, Rest))
                                 /\ g.op = "dispatch" /\ f.op = "flush"
    BY <1>12, DispatchEndMoves
  <2>4. /\ Wrapped(stack') = Wrapped(stack)
        /\ \A e \in Calls(stack, "wait") : e \in Calls(stack', "wait")
    <3>1. CASE stack' = Rest
      BY <1>0, <2>3, <3>1, Returned DEF Wrapped, Calls, Below
    <3>2. ASSUME NEW f \in Call, NEW g \in Call, stack' = Push(f, Push(g, Rest)),
                 g.op = "dispatch", f.op = "flush"
          PROVE  /\ Wrapped(stack') = Wrapped(stack)
                 /\ \A e \in Calls(stack, "wait") : e \in Calls(stack', "wait")
      BY <1>0, <2>3, <3>2, TurnedCalling DEF Wrapped, Calls, Below
    <3> QED
      BY <2>3, <3>1, <3>2
  <2> QED
    BY <2>2, <2>4 DEF CallbackInv
<1>13. CASE PurgeConfirm
  <2>1. PICK f, g \in Call : /\ stack' = Push(f, Push(g, Rest)) /\ Top.op = "flush"
                             /\ g.op = "flush" /\ g.rxOnOld = Top.rxOnOld
                             /\ f.op = "callback"
                             /\ f.wrapped = (table["confirm"] = "wait")
    BY <1>13, PurgeConfirmMoves
  <2>2. sWaitCallbackActive' = (sWaitCallbackActive \/ f.wrapped)
    BY <1>13, <2>1 DEF PurgeConfirm, CallBack
  <2>3. PICK n \in Nat \ {0, 1} :
          /\ n = Len(stack) /\ Len(stack') = n + 1 /\ Below(n - 1, stack, stack')
          /\ At(stack, n) = Top /\ At(stack', n) = g /\ At(stack', n + 1) = f
    BY <1>0, <2>1, TurnedCalling
  <2>4. /\ Wrapped(stack') = IF f.wrapped THEN Wrapped(stack) \cup {n + 1} ELSE Wrapped(stack)
        /\ Calls(stack', "wait") = Calls(stack, "wait")
    <3>1. Calls(stack', "wait") = Calls(stack, "wait")
      BY <2>1, <2>3 DEF Calls, Below
    <3> QED
      BY <2>1, <2>3, <3>1 DEF Wrapped, Calls, Below
  <2>5. ASSUME f.wrapped PROVE \E e \in Calls(stack, "wait") : e < n + 1
    <3>1. "confirm" \in Kind
      BY DEF Kind
    <3>2. Calls(stack, "wait") # {}
      BY <2>1, <2>5, <3>1 DEF WaitInv
    <3> QED
      BY <2>3, <3>2 DEF Calls
  <2> QED
    BY <2>2, <2>4, <2>5 DEF CallbackInv
<1>14. CASE FlushEnd
  <2>1. PICK c \in Call : /\ Top.op = "flush" /\ c.op = "dispatch"
                          /\ Rest = Push(c, stack') /\ stack' \in Seq(Call)
    BY <1>14, FlushEndMoves
  <2>2. UNCHANGED sWaitCallbackActive
    BY <1>14 DEF FlushEnd, waits
  <2>3. PICK n \in Nat \ {0, 1} :
          /\ n = Len(stack) /\ Len(stack') = n - 2 /\ Below(n - 2, stack, stack')
          /\ At(stack, n) = Top /\ At(stack, n - 1) = c
    BY <1>0, <2>1, ReturnedTwice
  <2>4. /\ Wrapped(stack') = Wrapped(stack)
        /\ \A e \in Calls(stack, "wait") : e \in Calls(stack', "wait")
    BY <2>1, <2>3 DEF Wrapped, Calls, Below
  <2> QED
    BY <2>2, <2>4 DEF CallbackInv
<1> QED
  BY <1>1, <1>2, <1>3, <1>4, <1>5, <1>6, <1>7, <1>8, <1>9, <1>10, <1>11, <1>12, <1>13, <1>14,
     Steps DEF Program

----------------------------------------------------------------------------
(* The ring: a message is in it until its callback has returned.           *)

\* A dispatcher begins to handle a message when it calls a callback.
LEMMA HandlingBegins ==
    ASSUME ControlTypes, DispatchInv, DispatchMessage
    PROVE  Handling(stack) = {} /\ Handling(stack') # {}
<1>0. Shape(stack)
  BY DEF ControlTypes
<1>1. PICK f, g \in Call : /\ stack' = Push(f, Push(g, Rest)) /\ g.op = "dispatch"
                           /\ Top.op = "dispatch" /\ Top.at = "loop" /\ g.at = "called"
  BY DispatchMessageMoves
<1>2. PICK n \in Nat \ {0, 1} :
        /\ n = Len(stack) /\ Len(stack') = n + 1 /\ At(stack, n) = Top /\ At(stack', n) = g
  BY <1>0, <1>1, TurnedCalling
<1>3. n \in Looping(stack) /\ n \notin Handling(stack) /\ n \in Handling(stack')
  BY <1>1, <1>2 DEF Looping, Handling, Calls
<1>4. \A d \in Handling(stack) : d = n
  BY <1>3, CallsRange DEF DispatchInv, OneOf
<1> QED
  BY <1>3, <1>4

\* It has handled the message when the callback returns; a callback of the loop
\* that gives up requests changes nothing of that.
LEMMA HandlingEnds ==
    ASSUME ControlTypes, DispatchInv, NEW c, c = Head(Rest), CallbackReturn
    PROVE  /\ c.op = "dispatch" => Handling(stack) # {} /\ Handling(stack') = {}
           /\ c.op = "flush" => Handling(stack') = Handling(stack)
<1>0. Shape(stack)
  BY DEF ControlTypes
<1>1. PICK g \in Call :
        /\ c \in Call /\ Top.op = "callback" /\ stack' = Push(g, Tail(Rest)) /\ g.op = c.op
        /\ \/ c.op = "dispatch" /\ c.at = "called" /\ g.at = "loop"
           \/ c.op = "flush"
  BY CallbackReturnMoves
<1>2. PICK n \in Nat \ {0, 1, 2} :
        /\ n = Len(stack) /\ Len(stack') = n - 1 /\ Below(n - 2, stack, stack')
        /\ At(stack, n) = Top /\ At(stack, n - 1) = c /\ At(stack', n - 1) = g
  BY <1>0, <1>1, ReturnedTo
<1>3. CASE c.op = "flush"
  <2>1. \A d : d \in Handling(stack') <=> /\ d \in 1..(n - 2) /\ At(stack, d).op = "dispatch"
                                         /\ At(stack, d).at = "called"
    BY <1>1, <1>2, <1>3 DEF Handling, Calls, Below
  <2>2. \A d : d \in Handling(stack) <=> /\ d \in 1..(n - 2) /\ At(stack, d).op = "dispatch"
                                        /\ At(stack, d).at = "called"
    BY <1>1, <1>2, <1>3 DEF Handling, Calls, Below
  <2> QED
    BY <1>3, <2>1, <2>2
<1>4. CASE c.op = "dispatch"
  <2>1. PICK m \in 1..n : m = n - 1
    BY <1>2
  <2>2. m \in Looping(stack) /\ m \in Handling(stack)
    BY <1>1, <1>2, <1>4, <2>1 DEF Looping, Handling, Calls
  <2>3. \A d \in Handling(stack) : d = m
    BY <2>2, CallsRange DEF DispatchInv, OneOf
  <2>4. \A d \in Handling(stack') : d \in Handling(stack) /\ d # m
    BY <1>1, <1>2, <1>4, <2>1 DEF Handling, Calls, Below
  <2> QED
    BY <1>4, <2>2, <2>3, <2>4
<1> QED
  BY <1>1, <1>3, <1>4

LEMMA HandlingElse ==
    ASSUME ControlTypes, [Next]_vars, ~DispatchMessage, ~CallbackReturn
    PROVE  Handling(stack') = Handling(stack)
<1>0. Shape(stack)
  BY DEF ControlTypes
<1>1. CASE Flat
  BY <1>1, FlatKeeps
<1>2. ASSUME NEW r \in Req, AwkwardRequest(r) PROVE Handling(stack') = Handling(stack)
  <2>1. PICK f \in Call : /\ stack' = Push(f, stack) /\ f.op = "pcps" /\ f.at = "wait"
                          /\ f.req = r
    BY <1>2, AwkwardMoves
  <2>3. PICK n \in Nat \ {0} :
          /\ n = Len(stack) /\ Len(stack') = n + 1 /\ Below(n, stack, stack')
          /\ At(stack, n) = Top /\ At(stack', n + 1) = f
    BY <1>0, <2>1, Called
  <2> QED
    BY <2>1, <2>3 DEF Handling, Calls, Below
<1>3. ASSUME NEW kind \in WaitFor, NEW swap \in BOOLEAN, AppWait(kind, swap) PROVE Handling(stack') = Handling(stack)
  <2>1. PICK f \in Call : stack' = Push(f, stack) /\ f.op = "wait" /\ f.kind = kind
    BY <1>3, AppWaitMoves
  <2>3. PICK n \in Nat \ {0} :
          /\ n = Len(stack) /\ Len(stack') = n + 1 /\ Below(n, stack, stack')
          /\ At(stack, n) = Top /\ At(stack', n + 1) = f
    BY <1>0, <2>1, Called
  <2> QED
    BY <2>1, <2>3 DEF Handling, Calls, Below
<1>4. CASE PcpsSend
  <2>1. stack' = Rest /\ Top.op = "pcps"
    BY <1>4 DEF PcpsSend
  <2>3. PICK n \in Nat \ {0, 1} :
          /\ n = Len(stack) /\ Len(stack') = n - 1 /\ Below(n - 1, stack, stack')
          /\ At(stack, n) = Top /\ At(stack, n - 1) = Head(Rest)
    BY <1>0, <2>1, Returned
  <2> QED
    BY <2>1, <2>3 DEF Handling, Calls, Below
<1>5. CASE FixWait
  <2>1. PICK g \in Call :
          /\ g.op = Top.op /\ Top.op \in {"pcps", "flush"}
          /\ \/ stack' = Push(g, Rest)
             \/ \E f \in Call : f.op = "wait" /\ stack' = Push(f, Push(g, Rest))
    BY <1>5, FixWaitMoves
  <2>2. CASE stack' = Push(g, Rest)
    BY <1>0, <2>1, <2>2, Turned DEF Handling, Calls, Below
  <2>3. ASSUME NEW f \in Call, f.op = "wait", stack' = Push(f, Push(g, Rest))
        PROVE  Handling(stack') = Handling(stack)
    BY <1>0, <2>1, <2>3, TurnedCalling DEF Handling, Calls, Below
  <2> QED
    BY <2>1, <2>2, <2>3
<1>6. CASE WaitRound
  <2>1. PICK f, g \in Call : /\ stack' = Push(f, Push(g, Rest)) /\ Top.op = "wait"
                             /\ g.op = "wait" /\ g.kind = Top.kind
                             /\ f.op = "dispatch" /\ f.at = "loop"
    BY <1>6, WaitRoundMoves
  <2>3. PICK n \in Nat \ {0, 1} :
          /\ n = Len(stack) /\ Len(stack') = n + 1 /\ Below(n - 1, stack, stack')
          /\ At(stack, n) = Top /\ At(stack', n) = g /\ At(stack', n + 1) = f
    BY <1>0, <2>1, TurnedCalling
  <2> QED
    BY <2>1, <2>3 DEF Handling, Calls, Below
<1>7. CASE WaitAgain
  <2>1. PICK g \in Call : /\ stack' = Push(g, Rest) /\ Top.op = "wait"
                          /\ g.op = "wait" /\ g.kind = Top.kind
    BY <1>7, WaitAgainMoves
  <2>3. PICK n \in Nat \ {0, 1} :
          /\ n = Len(stack) /\ Len(stack') = n /\ Below(n - 1, stack, stack')
          /\ At(stack, n) = Top /\ At(stack', n) = g
    BY <1>0, <2>1, Turned
  <2> QED
    BY <2>1, <2>3 DEF Handling, Calls, Below
<1>8. CASE WaitEnd
  <2>1. stack' = Rest /\ Top.op = "wait"
    BY <1>8, WaitEndMoves
  <2>3. PICK n \in Nat \ {0, 1} :
          /\ n = Len(stack) /\ Len(stack') = n - 1 /\ Below(n - 1, stack, stack')
          /\ At(stack, n) = Top /\ At(stack, n - 1) = Head(Rest)
    BY <1>0, <2>1, Returned
  <2> QED
    BY <2>1, <2>3 DEF Handling, Calls, Below
<1>9. CASE MainLoop
  <2>1. PICK f \in Call : stack' = Push(f, stack) /\ f.op = "dispatch" /\ f.at = "loop"
    BY <1>9, MainLoopMoves
  <2>3. PICK n \in Nat \ {0} :
          /\ n = Len(stack) /\ Len(stack') = n + 1 /\ Below(n, stack, stack')
          /\ At(stack, n) = Top /\ At(stack', n + 1) = f
    BY <1>0, <2>1, Called
  <2> QED
    BY <2>1, <2>3 DEF Handling, Calls, Below
<1>12. CASE DispatchEnd
  <2>1. /\ Top.op = "dispatch" /\ Top.at = "loop"
        /\ \/ stack' = Rest
           \/ \E f, g \in Call : /\ stack' = Push(f, Push(g, Rest))
                                 /\ g.op = "dispatch" /\ g.at = "flushed" /\ f.op = "flush"
    BY <1>12, DispatchEndMoves
  <2>2. CASE stack' = Rest
    BY <1>0, <2>1, <2>2, Returned DEF Handling, Calls, Below
  <2>3. ASSUME NEW f \in Call, NEW g \in Call, stack' = Push(f, Push(g, Rest)),
               g.op = "dispatch", g.at = "flushed", f.op = "flush"
        PROVE  Handling(stack') = Handling(stack)
    BY <1>0, <2>1, <2>3, TurnedCalling DEF Handling, Calls, Below
  <2> QED
    BY <2>1, <2>2, <2>3
<1>13. CASE PurgeConfirm
  <2>1. PICK f, g \in Call : /\ stack' = Push(f, Push(g, Rest)) /\ Top.op = "flush"
                             /\ g.op = "flush" /\ g.rxOnOld = Top.rxOnOld
                             /\ f.op = "callback"
                             /\ f.wrapped = (table["confirm"] = "wait")
    BY <1>13, PurgeConfirmMoves
  <2>3. PICK n \in Nat \ {0, 1} :
          /\ n = Len(stack) /\ Len(stack') = n + 1 /\ Below(n - 1, stack, stack')
          /\ At(stack, n) = Top /\ At(stack', n) = g /\ At(stack', n + 1) = f
    BY <1>0, <2>1, TurnedCalling
  <2> QED
    BY <2>1, <2>3 DEF Handling, Calls, Below
<1>14. CASE FlushEnd
  <2>1. PICK c \in Call : /\ Top.op = "flush" /\ c.op = "dispatch" /\ c.at = "flushed"
                          /\ Rest = Push(c, stack') /\ stack' \in Seq(Call)
    BY <1>14, FlushEndMoves
  <2>3. PICK n \in Nat \ {0, 1} :
          /\ n = Len(stack) /\ Len(stack') = n - 2 /\ Below(n - 2, stack, stack')
          /\ At(stack, n) = Top /\ At(stack, n - 1) = c
    BY <1>0, <2>1, ReturnedTwice
  <2> QED
    BY <2>1, <2>3 DEF Handling, Calls, Below
<1> QED
  BY <1>1, <1>2, <1>3, <1>4, <1>5, <1>6, <1>7, <1>8, <1>9, <1>12, <1>13, <1>14, Steps DEF Program

\* What happens to the ring.
LEMMA RingMoves ==
    ASSUME ControlTypes, DataTypes, DispatchInv, RingInv, [Next]_vars
    PROVE  \/ UNCHANGED ring
           \/ \E r \in held : ChipConfirms(r)
           \/ ring' \in {Append(ring, Wakeup), Append(ring, ScanDone)} /\ held' \subseteq held
           \/ /\ CallbackReturn /\ Head(Rest).op = "dispatch"
              /\ ring # <<>> /\ ring' = Tail(ring)
<1>1. CASE Flat
  BY <1>1 DEF Flat, DataRequest, SendAndCache, PurgeRequest, ChipConfirms, ChipLoses,
       SetRxOnWhenIdle, ScanRequest, ResetRequest, ChipScanned, ChipRestarts, Tick, vars
<1>2. CASE CallbackReturn
  <2>1. \/ UNCHANGED ring
        \/ Head(Rest).op = "dispatch" /\ ring' = Tail(ring)
    BY <1>2, CallbackReturnMoves
  <2>2. Head(Rest).op = "dispatch" => ring # <<>>
    BY <1>2, HandlingEnds DEF RingInv
  <2> QED
    BY <1>2, <2>1, <2>2
<1>3. CASE Program /\ ~CallbackReturn
  BY <1>3 DEF Program, PcpsSend, FixWait, WaitRound, WaitAgain, WaitEnd, MainLoop,
       DispatchMessage, DispatchEnd, PurgeConfirm, FlushEnd
<1>4. ASSUME NEW r \in Req, AwkwardRequest(r) PROVE UNCHANGED ring
  BY <1>4 DEF AwkwardRequest
<1>5. ASSUME NEW kind \in WaitFor, NEW swap \in BOOLEAN, AppWait(kind, swap) PROVE UNCHANGED ring
  BY <1>5 DEF AppWait
<1> QED
  BY <1>1, <1>2, <1>3, <1>4, <1>5, Steps

LEMMA RingStep ==
    ASSUME ControlTypes, DataTypes, DispatchInv, RingInv, [Next]_vars
    PROVE  RingInv'
<1>1. CASE DispatchMessage
  BY <1>1 DEF DispatchMessage, RingInv
<1>2. CASE CallbackReturn
  <2>1. PICK c \in Call : /\ c = Head(Rest) /\ c.op \in {"dispatch", "flush"}
                          /\ c.op = "flush" => UNCHANGED ring
    BY <1>2, CallbackReturnMoves
  <2> QED
    BY <1>2, <2>1, HandlingEnds DEF RingInv
<1>3. CASE ~DispatchMessage /\ ~CallbackReturn
  <2>1. Handling(stack') = Handling(stack)
    BY <1>3, HandlingElse
  <2>2. ring # <<>> => ring' # <<>>
    <3>1. /\ Wakeup \in Message /\ ScanDone \in Message
          /\ \A r \in held : Confirm(r) \in Message
      BY DEF DataTypes, Message, Confirm, ScanDone, Wakeup
    <3>2. ring' = ring \/ \E m \in Message : ring' = Append(ring, m)
      BY <1>3, <3>1, RingMoves DEF ChipConfirms
    <3> QED
      BY <3>2, SeqOps DEF DataTypes
  <2> QED
    BY <2>1, <2>2 DEF RingInv
<1> QED
  BY <1>1, <1>2, <1>3

----------------------------------------------------------------------------
(* The theorem about callbacks.                                            *)

WaitingInv ==
    /\ ControlTypes /\ DataTypes
    /\ DispatchInv /\ RingInv /\ WaitInv /\ CallbackInv

LEMMA InitCalls ==
    ASSUME Init
    PROVE  /\ Shape(stack) /\ Len(stack) = 1 /\ At(stack, 1) = Frame("main", "app")
           /\ \A op : op # "main" => Calls(stack, op) = {}
           /\ Looping(stack) = {} /\ Handling(stack) = {} /\ Wrapped(stack) = {}
<1>1. stack = <<Frame("main", "app")>>
  BY DEF Init
<1>2. Frame("main", "app") \in Call /\ Frame("main", "app").op = "main"
  BY DEF Call, Frame
<1>3. stack \in Seq(Call) /\ stack # <<>> /\ Len(stack) = 1 /\ stack[1] = Frame("main", "app")
  BY <1>1, <1>2
<1>4. At(stack, 1) = Frame("main", "app")
  BY <1>3 DEF At
<1>5. \A d \in 1..Len(stack) : d = 1
  BY <1>3
<1>6. Shape(stack)
  <2>1. \A d \in 1..(Len(stack) - 1) : FALSE
    BY <1>3
  <2> QED
    BY <1>2, <1>3, <1>4, <1>5, <2>1 DEF Shape
<1>7. \A op : op # "main" => Calls(stack, op) = {}
  BY <1>2, <1>4, <1>5 DEF Calls
<1> QED
  BY <1>3, <1>4, <1>6, <1>7 DEF Looping, Handling, Wrapped

LEMMA InitWaiting ==
    ASSUME Init
    PROVE  WaitingInv
<1>1. ControlTypes
  BY InitCalls DEF Init, ControlTypes
<1>2. DataTypes
  <2>1. MDR_Cache \in [Slot -> Entry] /\ elapsed \in Nat
    BY DEF Init, Entry
  <2>2. table \in [Kind -> {"app", "swap", "wait"}] /\ sTargetCallback \in {"app", "swap", "wait"}
    BY DEF Init
  <2>3. ring \in Seq(Message)
    BY DEF Init
  <2>4. said \in [Req -> Seq({"real", "made up"})]
    BY DEF Init
  <2> QED
    BY <2>1, <2>2, <2>3, <2>4 DEF Init, DataTypes
<1>3. DispatchInv /\ RingInv
  BY InitCalls DEF Init, DispatchInv, RingInv, OneOf
<1>4. WaitInv /\ CallbackInv
  <2>1. Calls(stack, "wait") = {} /\ Wrapped(stack) = {}
    BY InitCalls
  <2>2. (\A k \in Kind : table[k] = "app") /\ ~sWaiting /\ ~sWaitCallbackActive
    BY DEF Init
  <2> QED
    BY <2>1, <2>2 DEF WaitInv, CallbackInv, OneOf
<1> QED
  BY <1>1, <1>2, <1>3, <1>4 DEF WaitingInv

LEMMA WaitingStep ==
    ASSUME WaitingInv, [Next]_vars
    PROVE  WaitingInv'
BY ControlTypesStep, DataStep, DispatchStep, RingStep, WaitStep, CallbackStep DEF WaitingInv

LEMMA WaitingAlways == Spec => []WaitingInv
<1>1. Init => WaitingInv
  BY InitWaiting
<1>2. WaitingInv /\ [Next]_vars => WaitingInv'
  BY WaitingStep
<1> QED
  BY <1>1, <1>2, PTL DEF Spec

\* The calls by their index in the stack, which the properties use.
LEMMA ByIndex ==
    ASSUME Shape(stack)
    PROVE  /\ \A i \in DOMAIN stack : \E d \in 1..Len(stack) :
                 i = Len(stack) + 1 - d /\ stack[i] = At(stack, d)
           /\ \A d \in 1..Len(stack) : \E i \in DOMAIN stack :
                 i = Len(stack) + 1 - d /\ stack[i] = At(stack, d)
<1>1. PICK n \in Nat : n = Len(stack)
  BY DEF Shape
<1>2. DOMAIN stack = 1..n
  BY <1>1 DEF Shape
<1>3. ASSUME NEW i \in 1..n
      PROVE  \E d \in 1..n : i = n + 1 - d /\ stack[i] = stack[n + 1 - d]
  <2>1. n + 1 - i \in 1..n /\ i = n + 1 - (n + 1 - i)
    OBVIOUS
  <2> QED
    BY <2>1
<1>4. ASSUME NEW d \in 1..n
      PROVE  \E i \in 1..n : i = n + 1 - d /\ stack[i] = stack[n + 1 - d]
  <2>1. n + 1 - d \in 1..n
    OBVIOUS
  <2> QED
    BY <2>1
<1> QED
  BY <1>1, <1>2, <1>3, <1>4 DEF At

\* The table of callbacks holds those of the application but for the one that
\* is waited for, however waits, dispatchers and workarounds are nested: there
\* is one wait at a time, and its context is seen only by its own callback.
THEOREM CallbacksAreRestored == Spec => []CallbacksRestored
<1>1. ASSUME WaitingInv PROVE CallbacksRestored
  <2> DEFINE W == {i \in DOMAIN stack : stack[i].op = "wait"}
             C == {i \in DOMAIN stack : stack[i].op = "callback" /\ stack[i].wrapped}
             n == Len(stack)
  <2>0. Shape(stack) /\ n \in Nat
    BY <1>1 DEF WaitingInv, ControlTypes, Shape
  <2>1. \A i \in W : \E d \in Calls(stack, "wait") : i = n + 1 - d /\ stack[i] = At(stack, d)
    BY <2>0, ByIndex DEF Calls
  <2>2. \A d \in Calls(stack, "wait") : \E i \in W : i = n + 1 - d /\ stack[i] = At(stack, d)
    BY <2>0, ByIndex DEF Calls
  <2>3. C # {} <=> Wrapped(stack) # {}
    <3>1. ASSUME NEW i \in C PROVE Wrapped(stack) # {}
      <4>1. PICK d \in 1..n : stack[i] = At(stack, d)
        BY <2>0, ByIndex
      <4> QED
        BY <4>1 DEF Wrapped, Calls
    <3>2. ASSUME NEW d \in Wrapped(stack) PROVE C # {}
      <4>1. d \in 1..n /\ At(stack, d).op = "callback" /\ At(stack, d).wrapped
        BY DEF Wrapped, Calls
      <4>2. PICK i \in DOMAIN stack : stack[i] = At(stack, d)
        BY <2>0, <4>1, ByIndex
      <4> QED
        BY <4>1, <4>2
    <3> QED
      BY <3>1, <3>2
  <2>4. \A i, j \in W : i = j
    BY <1>1, <2>1 DEF WaitingInv, WaitInv, OneOf
  <2>5. Cardinality(W) <= 1
    <3> HIDE DEF W
    <3>1. CASE W = {}
      BY <3>1, FS_EmptySet
    <3>2. ASSUME NEW i \in W PROVE Cardinality(W) <= 1
      <4>1. W = {i}
        BY <2>4, <3>2
      <4> QED
        BY <4>1, FS_Singleton
    <3> QED
      BY <3>1, <3>2
  <2>6. ASSUME NEW k \in Kind
        PROVE  table[k] = IF \E i \in W : stack[i].kind = k THEN "wait" ELSE "app"
    <3>1. (\E i \in W : stack[i].kind = k)
            <=> (\E d \in Calls(stack, "wait") : At(stack, d).kind = k)
      BY <2>1, <2>2
    <3> QED
      BY <1>1, <3>1 DEF WaitingInv, WaitInv
  <2>7. sWaiting <=> W # {}
    BY <1>1, <2>1, <2>2 DEF WaitingInv, WaitInv
  <2>8. sWaitCallbackActive <=> C # {}
    BY <1>1, <2>3 DEF WaitingInv, CallbackInv
  <2> QED
    BY <2>5, <2>6, <2>7, <2>8 DEF CallbacksRestored
<1> QED
  BY <1>1, WaitingAlways, PTL

----------------------------------------------------------------------------
(* The receiver.  The outer one of the two workarounds has found it as the *)
(* application had asked for, the inner one has found it off, and each     *)
(* puts back what it has found.                                            *)

Awkwards == Calls(stack, "pcps")
Flushes  == Calls(stack, "flush")

ReceiverInv ==
    ~raced =>
        /\ OneOf(Awkwards)
        /\ rxOn = (asked /\ Awkwards = {} /\ Flushes = {})
        /\ \A p \in Awkwards : isPCPSRxOn = (asked /\ \A f \in Flushes : p < f)
        /\ \A f \in Flushes : At(stack, f).rxOnOld = (asked /\ \A p \in Awkwards : f < p)

LEMMA CallingCalls ==
    ASSUME Shape(stack), NEW op
    PROVE  Calling(op) <=> Calls(stack, op) # {}
<1>1. ASSUME Calling(op) PROVE Calls(stack, op) # {}
  <2>1. PICK i \in DOMAIN stack : stack[i].op = op
    BY <1>1 DEF Calling
  <2>2. PICK d \in 1..Len(stack) : stack[i] = At(stack, d)
    BY <2>1, ByIndex
  <2> QED
    BY <2>1, <2>2 DEF Calls
<1>2. ASSUME NEW d \in Calls(stack, op) PROVE Calling(op)
  <2>1. d \in 1..Len(stack) /\ At(stack, d).op = op
    BY DEF Calls
  <2>2. PICK i \in DOMAIN stack : stack[i] = At(stack, d)
    BY <2>1, ByIndex
  <2> QED
    BY <2>1, <2>2 DEF Calling
<1> QED
  BY <1>1, <1>2

LEMMA SameReceiver ==
    ASSUME ReceiverInv, UNCHANGED <<rxOn, asked, raced, isPCPSRxOn, Awkwards, Flushes>>,
           \A f \in Flushes : At(stack', f).rxOnOld = At(stack, f).rxOnOld
    PROVE  ReceiverInv'
BY DEF ReceiverInv

LEMMA ReceiverStep ==
    ASSUME ControlTypes, ControlTypes', FlushInv, ReceiverInv, [Next]_vars
    PROVE  ReceiverInv'
<1>0. Shape(stack)
  BY DEF ControlTypes
<1>00. ControlTypes /\ ControlTypes'
  OBVIOUS
<1>1. CASE Flat
  <2>1. UNCHANGED <<stack, isPCPSRxOn, Awkwards, Flushes>>
    BY <1>1, FlatKeeps DEF Awkwards, Flushes
  <2>2. \/ UNCHANGED <<rxOn, asked, raced>>
        \/ \E on \in BOOLEAN : SetRxOnWhenIdle(on)
        \/ raced'
    BY <1>1 DEF Flat, DataRequest, PurgeRequest, ChipConfirms, ChipLoses, ScanRequest,
                ResetRequest, ChipScanned, ChipRestarts, Tick, vars, statics, chip, history
  <2>3. CASE UNCHANGED <<rxOn, asked, raced>>
    BY <2>1, <2>3, SameReceiver
  <2>4. ASSUME NEW on \in BOOLEAN, SetRxOnWhenIdle(on) PROVE ReceiverInv'
    <3>1. rxOn' = asked' /\ raced' = (raced \/ Awkwards # {} \/ Flushes # {})
      BY <1>0, <2>4, CallingCalls DEF SetRxOnWhenIdle, Awkwards, Flushes
    <3> QED
      BY <1>00, <2>1, <3>1 DEF ReceiverInv, ControlTypes, OneOf
  <2> QED
    BY <2>2, <2>3, <2>4 DEF ReceiverInv
<1>2. ASSUME NEW r \in Req, AwkwardRequest(r) PROVE ReceiverInv'
  <2>1. PICK f \in Call : /\ stack' = Push(f, stack) /\ f.op = "pcps" /\ f.at = "wait"
                          /\ f.req = r
    BY <1>2, AwkwardMoves
  <2>2. /\ isPCPSRxOn' = rxOn /\ rxOn' = FALSE /\ UNCHANGED asked
        /\ raced' = (raced \/ Awkwards # {})
    BY <1>0, <1>2, CallingCalls DEF AwkwardRequest, Awkwards
  <2>3. PICK n \in Nat \ {0} :
          /\ n = Len(stack) /\ Len(stack') = n + 1 /\ Below(n, stack, stack')
          /\ At(stack, n) = Top /\ At(stack', n + 1) = f
    BY <1>0, <2>1, Called
  <2>4. /\ Awkwards' = Awkwards \cup {n + 1} /\ UNCHANGED Flushes
        /\ \A e \in Flushes : e < n + 1 /\ ~(n + 1 < e) /\ At(stack', e) = At(stack, e)
    BY <2>1, <2>3 DEF Awkwards, Flushes, Calls, Below
  <2>5. CASE raced \/ Awkwards # {}
    BY <2>2, <2>5 DEF ReceiverInv
  <2>6. CASE ~raced /\ Awkwards = {}
    <3>1. rxOn = (asked /\ Flushes = {})
          /\ \A e \in Flushes : At(stack, e).rxOnOld = asked
      BY <1>00, <2>6 DEF ReceiverInv, ControlTypes
    <3>2. Awkwards' = {n + 1}
      BY <2>4, <2>6
    <3>3. OneOf(Awkwards')
      BY <3>2 DEF OneOf
    <3>4. isPCPSRxOn' = (asked' /\ \A e \in Flushes' : n + 1 < e)
      BY <2>2, <2>4, <3>1
    <3>5. \A e \in Flushes' : At(stack', e).rxOnOld = (asked' /\ \A p \in Awkwards' : e < p)
      BY <1>00, <2>2, <2>4, <3>1, <3>2 DEF ControlTypes
    <3>6. \A p \in Awkwards' : isPCPSRxOn' = (asked' /\ \A e \in Flushes' : p < e)
      BY <3>2, <3>4
    <3>7. rxOn' = (asked' /\ Awkwards' = {} /\ Flushes' = {})
      BY <2>2, <3>2
    <3> QED
      BY <3>3, <3>5, <3>6, <3>7 DEF ReceiverInv
  <2> QED
    BY <1>00, <2>5, <2>6 DEF ControlTypes
<1>3. ASSUME NEW kind \in WaitFor, NEW swap \in BOOLEAN, AppWait(kind, swap) PROVE ReceiverInv'
  <2>1. PICK f \in Call : stack' = Push(f, stack) /\ f.op = "wait" /\ f.kind = kind
    BY <1>3, AppWaitMoves
  <2>2. UNCHANGED <<rxOn, asked, raced, isPCPSRxOn>>
    BY <1>3 DEF AppWait, AppOp, BeginWait, statics, chip
  <2>3. PICK n \in Nat \ {0} :
          /\ n = Len(stack) /\ Len(stack') = n + 1 /\ Below(n, stack, stack')
          /\ At(stack, n) = Top /\ At(stack', n + 1) = f
    BY <1>0, <2>1, Called
  <2>4. /\ UNCHANGED <<Awkwards, Flushes>>
        /\ \A e \in Flushes : At(stack', e).rxOnOld = At(stack, e).rxOnOld
    BY <2>1, <2>3 DEF Awkwards, Flushes, Calls, Below
  <2> QED
    BY <2>2, <2>4, SameReceiver
<1>4. CASE PcpsSend
  <2>1. stack' = Rest /\ Top.op = "pcps"
    BY <1>4 DEF PcpsSend
  <2>2. /\ UNCHANGED <<asked, isPCPSRxOn>>
        /\ raced' = (raced \/ isScanInProgress)
        /\ rxOn' = IF isScanInProgress THEN rxOn ELSE isPCPSRxOn
    BY <1>4 DEF PcpsSend, PcpsReceiver
  <2>3. PICK n \in Nat \ {0, 1} :
          /\ n = Len(stack) /\ Len(stack') = n - 1 /\ Below(n - 1, stack, stack')
          /\ At(stack, n) = Top /\ At(stack, n - 1) = Head(Rest)
    BY <1>0, <2>1, Returned
  <2>4. /\ n \in Awkwards /\ Awkwards' = Awkwards \ {n} /\ UNCHANGED Flushes
        /\ \A e \in Flushes : e < n /\ ~(n < e) /\ At(stack', e) = At(stack, e)
    BY <2>1, <2>3 DEF Awkwards, Flushes, Calls, Below
  <2>5. CASE raced \/ isScanInProgress
    BY <2>2, <2>5 DEF ReceiverInv
  <2>6. CASE ~raced /\ ~isScanInProgress
    <3>1. Awkwards = {n}
      <4>1. \A d \in Awkwards : d = n
        BY <2>4, <2>6 DEF ReceiverInv, OneOf
      <4> QED
        BY <2>4, <4>1
    <3>2. Awkwards' = {}
      BY <2>4, <3>1
    <3>3. rxOn' = (asked' /\ Flushes' = {})
      BY <1>00, <2>2, <2>4, <2>6 DEF ReceiverInv, ControlTypes
    <3>4. \A e \in Flushes' : At(stack', e).rxOnOld = asked'
      BY <1>00, <2>2, <2>4, <2>6, <3>1 DEF ReceiverInv, ControlTypes
    <3> QED
      BY <1>00, <2>2, <3>2, <3>3, <3>4 DEF ReceiverInv, ControlTypes, OneOf
  <2> QED
    BY <1>00, <2>5, <2>6 DEF ControlTypes
<1>5. CASE FixWait
  <2>1. PICK g \in Call :
          /\ g.op = Top.op /\ Top.op \in {"pcps", "flush"}
          /\ Top.op = "flush" => g.rxOnOld = Top.rxOnOld
          /\ \/ stack' = Push(g, Rest)
             \/ \E f \in Call : f.op = "wait" /\ stack' = Push(f, Push(g, Rest))
    BY <1>5, FixWaitMoves
  <2>2. UNCHANGED <<rxOn, asked, raced, isPCPSRxOn>>
    BY <1>5 DEF FixWait, statics, chip, history
  <2>3. /\ UNCHANGED <<Awkwards, Flushes>>
        /\ \A e \in Flushes : At(stack', e).rxOnOld = At(stack, e).rxOnOld
    <3>1. CASE stack' = Push(g, Rest)
      BY <1>0, <2>1, <3>1, Turned DEF Awkwards, Flushes, Calls, Below
    <3>2. ASSUME NEW f \in Call, f.op = "wait", stack' = Push(f, Push(g, Rest))
          PROVE  /\ UNCHANGED <<Awkwards, Flushes>>
                 /\ \A e \in Flushes : At(stack', e).rxOnOld = At(stack, e).rxOnOld
      BY <1>0, <2>1, <3>2, TurnedCalling DEF Awkwards, Flushes, Calls, Below
    <3> QED
      BY <2>1, <3>1, <3>2
  <2> QED
    BY <2>2, <2>3, SameReceiver
<1>6. CASE WaitRound
  <2>1. PICK f, g \in Call : /\ stack' = Push(f, Push(g, Rest)) /\ Top.op = "wait"
                             /\ g.op = "wait" /\ g.kind = Top.kind
                             /\ f.op = "dispatch" /\ f.at = "loop"
    BY <1>6, WaitRoundMoves
  <2>2. UNCHANGED <<rxOn, asked, raced, isPCPSRxOn>>
    BY <1>6 DEF WaitRound, waits, chip, history
  <2>3. PICK n \in Nat \ {0, 1} :
          /\ n = Len(stack) /\ Len(stack') = n + 1 /\ Below(n - 1, stack, stack')
          /\ At(stack, n) = Top /\ At(stack', n) = g /\ At(stack', n + 1) = f
    BY <1>0, <2>1, TurnedCalling
  <2>4. /\ UNCHANGED <<Awkwards, Flushes>>
        /\ \A e \in Flushes : At(stack', e).rxOnOld = At(stack, e).rxOnOld
    BY <2>1, <2>3 DEF Awkwards, Flushes, Calls, Below
  <2> QED
    BY <2>2, <2>4, SameReceiver
<1>7. CASE WaitAgain
  <2>1. PICK g \in Call : /\ stack' = Push(g, Rest) /\ Top.op = "wait"
                          /\ g.op = "wait" /\ g.kind = Top.kind
    BY <1>7, WaitAgainMoves
  <2>2. UNCHANGED <<rxOn, asked, raced, isPCPSRxOn>>
    BY <1>7 DEF WaitAgain, statics, waits, chip, history
  <2>3. PICK n \in Nat \ {0, 1} :
          /\ n = Len(stack) /\ Len(stack') = n /\ Below(n - 1, stack, stack')
          /\ At(stack, n) = Top /\ At(stack', n) = g
    BY <1>0, <2>1, Turned
  <2>4. /\ UNCHANGED <<Awkwards, Flushes>>
        /\ \A e \in Flushes : At(stack', e).rxOnOld = At(stack, e).rxOnOld
    BY <2>1, <2>3 DEF Awkwards, Flushes, Calls, Below
  <2> QED
    BY <2>2, <2>4, SameReceiver
<1>8. CASE WaitEnd
  <2>1. stack' = Rest /\ Top.op = "wait"
    BY <1>8, WaitEndMoves
  <2>2. UNCHANGED <<rxOn, asked, raced, isPCPSRxOn>>
    BY <1>8 DEF WaitEnd, statics, chip, history
  <2>3. PICK n \in Nat \ {0, 1} :
          /\ n = Len(stack) /\ Len(stack') = n - 1 /\ Below(n - 1, stack, stack')
          /\ At(stack, n) = Top /\ At(stack, n - 1) = Head(Rest)
    BY <1>0, <2>1, Returned
  <2>4. /\ UNCHANGED <<Awkwards, Flushes>>
        /\ \A e \in Flushes : At(stack', e).rxOnOld = At(stack, e).rxOnOld
    BY <2>1, <2>3 DEF Awkwards, Flushes, Calls, Below
  <2> QED
    BY <2>2, <2>4, SameReceiver
<1>9. CASE MainLoop
  <2>1. PICK f \in Call : stack' = Push(f, stack) /\ f.op = "dispatch" /\ f.at = "loop"
    BY <1>9, MainLoopMoves
  <2>2. UNCHANGED <<rxOn, asked, raced, isPCPSRxOn>>
    BY <1>9 DEF MainLoop, waits, chip, history
  <2>3. PICK n \in Nat \ {0} :
          /\ n = Len(stack) /\ Len(stack') = n + 1 /\ Below(n, stack, stack')
          /\ At(stack, n) = Top /\ At(stack', n + 1) = f
    BY <1>0, <2>1, Called
  <2>4. /\ UNCHANGED <<Awkwards, Flushes>>
        /\ \A e \in Flushes : At(stack', e).rxOnOld = At(stack, e).rxOnOld
    BY <2>1, <2>3 DEF Awkwards, Flushes, Calls, Below
  <2> QED
    BY <2>2, <2>4, SameReceiver
<1>10. CASE DispatchMessage
  <2>1. PICK f, g \in Call : /\ stack' = Push(f, Push(g, Rest)) /\ Top.op = "dispatch"
                             /\ g.op = "dispatch" /\ g.at = "called" /\ f.op = "callback"
                             /\ f.wrapped = (table[Head(ring).kind] = "wait")
    BY <1>10, DispatchMessageMoves
  <2>2. UNCHANGED <<rxOn, asked, raced, isPCPSRxOn>>
    BY <1>10 DEF DispatchMessage, chip, CallBack
  <2>3. PICK n \in Nat \ {0, 1} :
          /\ n = Len(stack) /\ Len(stack') = n + 1 /\ Below(n - 1, stack, stack')
          /\ At(stack, n) = Top /\ At(stack', n) = g /\ At(stack', n + 1) = f
    BY <1>0, <2>1, TurnedCalling
  <2>4. /\ UNCHANGED <<Awkwards, Flushes>>
        /\ \A e \in Flushes : At(stack', e).rxOnOld = At(stack, e).rxOnOld
    <3>1. UNCHANGED Awkwards
      BY <2>1, <2>3 DEF Awkwards, Calls, Below
    <3>2. UNCHANGED Flushes /\ \A e \in Flushes : At(stack', e) = At(stack, e)
      BY <2>1, <2>3 DEF Flushes, Calls, Below
    <3> QED
      BY <3>1, <3>2
  <2> QED
    BY <2>2, <2>4, SameReceiver
<1>11. CASE CallbackReturn
  <2>1. PICK g, c \in Call :
          /\ Top.op = "callback" /\ c = Head(Rest) /\ stack' = Push(g, Tail(Rest))
          /\ g.op = c.op
          /\ \/ c.op = "dispatch" /\ c.at = "called" /\ g.at = "loop"
             \/ c.op = "flush" /\ g.slot = c.slot + 1 /\ g.rxOnOld = c.rxOnOld
    BY <1>11, CallbackReturnMoves
  <2>2. UNCHANGED <<rxOn, asked, raced, isPCPSRxOn>>
    BY <1>11 DEF CallbackReturn, chip, history
  <2>3. PICK n \in Nat \ {0, 1, 2} :
          /\ n = Len(stack) /\ Len(stack') = n - 1 /\ Below(n - 2, stack, stack')
          /\ At(stack, n) = Top /\ At(stack, n - 1) = c /\ At(stack', n - 1) = g
    BY <1>0, <2>1, ReturnedTo
  <2>4. UNCHANGED Awkwards
    BY <2>1, <2>3 DEF Awkwards, Calls, Below
  <2>5. UNCHANGED Flushes
    BY <2>1, <2>3 DEF Flushes, Calls, Below
  <2>6. ASSUME NEW e \in Flushes PROVE At(stack', e).rxOnOld = At(stack, e).rxOnOld
    <3>1. e \in 1..(n - 2) \/ e = n - 1
      BY <2>1, <2>3 DEF Flushes, Calls
    <3>2. CASE e \in 1..(n - 2)
      BY <2>3, <3>2 DEF Below
    <3>3. CASE e = n - 1
      BY <2>1, <2>3, <3>3 DEF Flushes, Calls
    <3> QED
      BY <3>1, <3>2, <3>3
  <2> QED
    BY <2>2, <2>4, <2>5, <2>6, SameReceiver
<1>12. CASE DispatchEnd
  <2>1. UNCHANGED <<asked, isPCPSRxOn>>
    BY <1>12 DEF DispatchEnd
  <2>2. /\ Top.op = "dispatch"
        /\ \/ stack' = Rest /\ UNCHANGED <<rxOn, raced>>
           \/ \E f, g \in Call :
                /\ stack' = Push(f, Push(g, Rest)) /\ g.op = "dispatch" /\ f.op = "flush"
                /\ isScanInProgress \/ f.rxOnOld = rxOn
                /\ ~isCacheFlushFixActive
                /\ rxOn' = (rxOn /\ isScanInProgress)
                /\ raced' = (raced \/ isScanInProgress)
    BY <1>12, DispatchEndMoves
  <2>3. CASE stack' = Rest /\ UNCHANGED <<rxOn, raced>>
    <3>1. /\ UNCHANGED <<Awkwards, Flushes>>
          /\ \A e \in Flushes : At(stack', e).rxOnOld = At(stack, e).rxOnOld
      BY <1>0, <2>2, <2>3, Returned DEF Awkwards, Flushes, Calls, Below
    <3> QED
      BY <2>1, <2>3, <3>1, SameReceiver
  <2>4. ASSUME NEW f \in Call, NEW g \in Call, stack' = Push(f, Push(g, Rest)),
               g.op = "dispatch", f.op = "flush", ~isCacheFlushFixActive,
               isScanInProgress \/ f.rxOnOld = rxOn,
               rxOn' = (rxOn /\ isScanInProgress), raced' = (raced \/ isScanInProgress)
        PROVE  ReceiverInv'
    <3>1. PICK n \in Nat \ {0, 1} :
            /\ n = Len(stack) /\ Len(stack') = n + 1 /\ Below(n - 1, stack, stack')
            /\ At(stack, n) = Top /\ At(stack', n) = g /\ At(stack', n + 1) = f
      BY <1>0, <2>2, <2>4, TurnedCalling
    <3>2. Flushes = {}
      BY <2>4 DEF FlushInv, Flushes
    <3>3. /\ UNCHANGED Awkwards /\ Flushes' = Flushes \cup {n + 1}
          /\ \A p \in Awkwards : p < n + 1 /\ ~(n + 1 < p)
      BY <2>2, <2>4, <3>1 DEF Awkwards, Flushes, Calls, Below
    <3>4. Flushes' = {n + 1}
      BY <3>2, <3>3
    <3>5. CASE ~raced /\ ~isScanInProgress
      <4>1. OneOf(Awkwards) /\ rxOn = (asked /\ Awkwards = {})
            /\ \A p \in Awkwards : isPCPSRxOn = asked
        BY <1>00, <3>2, <3>5 DEF ReceiverInv, ControlTypes
      <4>2. At(stack', n + 1).rxOnOld = (asked' /\ \A p \in Awkwards' : n + 1 < p)
        BY <2>1, <2>4, <3>1, <3>3, <3>5, <4>1
      <4>3. rxOn' = (asked' /\ Awkwards' = {} /\ Flushes' = {})
        BY <2>4, <3>4, <3>5
      <4>4. \A p \in Awkwards' : isPCPSRxOn' = (asked' /\ \A e \in Flushes' : p < e)
        BY <1>00, <2>1, <3>3, <3>4, <4>1 DEF ControlTypes
      <4>5. OneOf(Awkwards')
        BY <3>3, <4>1
      <4> QED
        BY <3>4, <4>2, <4>3, <4>4, <4>5 DEF ReceiverInv
    <3>6. CASE raced \/ isScanInProgress
      BY <2>4, <3>6 DEF ReceiverInv
    <3> QED
      BY <1>00, <3>5, <3>6 DEF ControlTypes
  <2> QED
    BY <2>2, <2>3, <2>4
<1>13. CASE PurgeConfirm
  <2>1. PICK f, g \in Call : /\ stack' = Push(f, Push(g, Rest)) /\ Top.op = "flush"
                             /\ g.op = "flush" /\ g.rxOnOld = Top.rxOnOld
                             /\ f.op = "callback"
                             /\ f.wrapped = (table["confirm"] = "wait")
    BY <1>13, PurgeConfirmMoves
  <2>2. UNCHANGED <<rxOn, asked, raced, isPCPSRxOn>>
    BY <1>13 DEF PurgeConfirm, statics, chip, CallBack
  <2>3. PICK n \in Nat \ {0, 1} :
          /\ n = Len(stack) /\ Len(stack') = n + 1 /\ Below(n - 1, stack, stack')
          /\ At(stack, n) = Top /\ At(stack', n) = g /\ At(stack', n + 1) = f
    BY <1>0, <2>1, TurnedCalling
  <2>4. /\ UNCHANGED <<Awkwards, Flushes>>
        /\ \A e \in Flushes : At(stack', e).rxOnOld = At(stack, e).rxOnOld
    BY <2>1, <2>3 DEF Awkwards, Flushes, Calls, Below
  <2> QED
    BY <2>2, <2>4, SameReceiver
<1>14. CASE FlushEnd
  <2>1. PICK c \in Call : /\ Top.op = "flush" /\ c.op = "dispatch"
                          /\ Rest = Push(c, stack') /\ stack' \in Seq(Call)
    BY <1>14, FlushEndMoves
  <2>2. /\ UNCHANGED <<asked, isPCPSRxOn>>
        /\ raced' = (raced \/ isScanInProgress)
        /\ rxOn' = IF isScanInProgress THEN rxOn ELSE Top.rxOnOld
    BY <1>14 DEF FlushEnd
  <2>3. PICK n \in Nat \ {0, 1} :
          /\ n = Len(stack) /\ Len(stack') = n - 2 /\ Below(n - 2, stack, stack')
          /\ At(stack, n) = Top /\ At(stack, n - 1) = c
    BY <1>0, <2>1, ReturnedTwice
  <2>4. /\ n \in Flushes /\ Flushes' = Flushes \ {n} /\ UNCHANGED Awkwards
        /\ \A p \in Awkwards : p < n /\ ~(n < p)
    BY <2>1, <2>3 DEF Awkwards, Flushes, Calls, Below
  <2>5. CASE raced \/ isScanInProgress
    BY <2>2, <2>5 DEF ReceiverInv
  <2>6. CASE ~raced /\ ~isScanInProgress
    <3>1. Flushes = {n}
      <4>1. \A d \in Flushes : d = n
        BY <2>4 DEF FlushInv, Flushes, OneOf
      <4> QED
        BY <2>4, <4>1
    <3>2. Flushes' = {}
      BY <2>4, <3>1
    <3>3. rxOn' = (asked' /\ Awkwards' = {})
      BY <1>00, <2>2, <2>3, <2>4, <2>6 DEF ReceiverInv, ControlTypes
    <3>4. \A p \in Awkwards' : isPCPSRxOn' = asked'
      BY <1>00, <2>2, <2>4, <2>6, <3>1 DEF ReceiverInv, ControlTypes
    <3>5. OneOf(Awkwards')
      BY <2>4, <2>6 DEF ReceiverInv
    <3> QED
      BY <1>00, <2>2, <3>2, <3>3, <3>4, <3>5 DEF ReceiverInv, ControlTypes
  <2> QED
    BY <1>00, <2>5, <2>6 DEF ControlTypes
<1> QED
  BY <1>1, <1>2, <1>3, <1>4, <1>5, <1>6, <1>7, <1>8, <1>9, <1>10, <1>11, <1>12, <1>13, <1>14,
     Steps DEF Program

ReceiverAll == ControlTypes /\ FlushInv /\ ReceiverInv

\* When none of the workarounds is at work the receiver is as the application
\* has last asked for, unless something has intervened in one of them.
THEOREM ReceiverIsRestored == Spec => []ReceiverRestored
<1>1. Init => ReceiverAll
  <2>1. ASSUME Init PROVE ReceiverAll
    <3>1. ControlTypes
      BY <2>1, InitWaiting DEF WaitingInv
    <3>2. Awkwards = {} /\ Flushes = {}
      BY <2>1, InitCalls DEF Awkwards, Flushes
    <3>3. ReceiverInv
      BY <2>1, <3>2 DEF ReceiverInv, Init, OneOf
    <3>4. FlushInv
      BY <2>1, <3>2 DEF FlushInv, Flushes, Init, OneOf
    <3> QED
      BY <3>1, <3>3, <3>4 DEF ReceiverAll
  <2> QED
    BY <2>1
<1>2. ReceiverAll /\ [Next]_vars => ReceiverAll'
  BY ControlTypesStep, FlushStep, ReceiverStep DEF ReceiverAll
<1>3. ReceiverAll => ReceiverRestored
  <2>1. ASSUME ReceiverAll PROVE ReceiverRestored
    <3>1. /\ Calling("pcps") <=> Awkwards # {}
          /\ Calling("flush") <=> Flushes # {}
      BY <2>1, CallingCalls DEF ReceiverAll, ControlTypes, Awkwards, Flushes
    <3> QED
      BY <2>1, <3>1 DEF ReceiverAll, ReceiverInv, ReceiverRestored, ControlTypes
  <2> QED
    BY <2>1
<1> QED
  BY <1>1, <1>2, <1>3, PTL DEF Spec

----------------------------------------------------------------------------
(* Giving up the requests in the cache.                                    *)

\* The confirm made up for the request in slot i is being passed on.
Giving(s, i) ==
    \E d \in Calls(s, "flush") :
        d < Len(s) /\ At(s, d + 1).op = "callback" /\ At(s, d).slot = i

\* The loop over the cache stays where it is.
SameFlush ==
    /\ Calls(stack', "flush") = Calls(stack, "flush")
    /\ \A d \in Calls(stack, "flush") :
          /\ At(stack', d).slot = At(stack, d).slot
          /\ At(stack', d).at = "wait" => At(stack, d).at = "wait"
    /\ \A i : Giving(stack', i) <=> Giving(stack, i)

\* Enough for it: the calls that give up requests keep their slot, and what
\* they have called remains.
LEMMA FlushKept ==
    ASSUME Calls(stack', "flush") = Calls(stack, "flush"),
           \A d \in Calls(stack, "flush") :
              /\ At(stack', d).slot = At(stack, d).slot
              /\ At(stack', d).at = "wait" => At(stack, d).at = "wait"
              /\ d < Len(stack') /\ At(stack', d + 1).op = "callback"
                    <=> d < Len(stack) /\ At(stack, d + 1).op = "callback"
    PROVE  SameFlush
<1>1. ASSUME NEW i PROVE Giving(stack', i) <=> Giving(stack, i)
  BY DEF Giving
<1> QED
  BY <1>1 DEF SameFlush

LEMMA FlushElse ==
    ASSUME ControlTypes, [Next]_vars,
           ~CallbackReturn, ~DispatchEnd, ~PurgeConfirm, ~FlushEnd
    PROVE  SameFlush
<1>0. Shape(stack)
  BY DEF ControlTypes
<1>1. CASE Flat
  BY <1>1, FlatKeeps DEF SameFlush, Giving
<1>2. ASSUME NEW r \in Req, AwkwardRequest(r) PROVE SameFlush
  <2>1. PICK f \in Call : /\ stack' = Push(f, stack) /\ f.op = "pcps" /\ f.at = "wait"
                          /\ f.req = r
    BY <1>2, AwkwardMoves
  <2>3. PICK n \in Nat \ {0} :
          /\ n = Len(stack) /\ Len(stack') = n + 1 /\ Below(n, stack, stack')
          /\ At(stack, n) = Top /\ At(stack', n + 1) = f
    BY <1>0, <2>1, Called
  <2>4. Calls(stack', "flush") = Calls(stack, "flush")
    BY <2>1, <2>3 DEF Calls, Below
  <2>5. ASSUME NEW d \in Calls(stack, "flush")
        PROVE  /\ At(stack', d).slot = At(stack, d).slot
               /\ At(stack', d).at = "wait" => At(stack, d).at = "wait"
               /\ d < Len(stack') /\ At(stack', d + 1).op = "callback"
                     <=> d < Len(stack) /\ At(stack, d + 1).op = "callback"
    BY <2>1, <2>3 DEF Calls, Below
  <2> QED
    BY <2>4, <2>5, FlushKept
<1>3. ASSUME NEW kind \in WaitFor, NEW swap \in BOOLEAN, AppWait(kind, swap) PROVE SameFlush
  <2>1. PICK f \in Call : stack' = Push(f, stack) /\ f.op = "wait" /\ f.kind = kind
    BY <1>3, AppWaitMoves
  <2>3. PICK n \in Nat \ {0} :
          /\ n = Len(stack) /\ Len(stack') = n + 1 /\ Below(n, stack, stack')
          /\ At(stack, n) = Top /\ At(stack', n + 1) = f
    BY <1>0, <2>1, Called
  <2>4. Calls(stack', "flush") = Calls(stack, "flush")
    BY <2>1, <2>3 DEF Calls, Below
  <2>5. ASSUME NEW d \in Calls(stack, "flush")
        PROVE  /\ At(stack', d).slot = At(stack, d).slot
               /\ At(stack', d).at = "wait" => At(stack, d).at = "wait"
               /\ d < Len(stack') /\ At(stack', d + 1).op = "callback"
                     <=> d < Len(stack) /\ At(stack, d + 1).op = "callback"
    BY <2>1, <2>3 DEF Calls, Below
  <2> QED
    BY <2>4, <2>5, FlushKept
<1>4. CASE PcpsSend
  <2>1. stack' = Rest /\ Top.op = "pcps"
    BY <1>4 DEF PcpsSend
  <2>3. PICK n \in Nat \ {0, 1} :
          /\ n = Len(stack) /\ Len(stack') = n - 1 /\ Below(n - 1, stack, stack')
          /\ At(stack, n) = Top /\ At(stack, n - 1) = Head(Rest)
    BY <1>0, <2>1, Returned
  <2>4. Calls(stack', "flush") = Calls(stack, "flush")
    BY <2>1, <2>3 DEF Calls, Below
  <2>5. ASSUME NEW d \in Calls(stack, "flush")
        PROVE  /\ At(stack', d).slot = At(stack, d).slot
               /\ At(stack', d).at = "wait" => At(stack, d).at = "wait"
               /\ d < Len(stack') /\ At(stack', d + 1).op = "callback"
                     <=> d < Len(stack) /\ At(stack, d + 1).op = "callback"
    BY <2>1, <2>3 DEF Calls, Below
  <2> QED
    BY <2>4, <2>5, FlushKept
<1>5. CASE FixWait
  <2>1. PICK g \in Call :
          /\ g.op = Top.op /\ Top.op \in {"pcps", "flush"} /\ Top.at = "wait"
          /\ Top.op = "flush" => g.slot = Top.slot
          /\ \/ stack' = Push(g, Rest)
             \/ \E f \in Call : f.op = "wait" /\ stack' = Push(f, Push(g, Rest))
    BY <1>5, FixWaitMoves DEF FixWait
  <2>2. CASE stack' = Push(g, Rest)
    <3>1. PICK n \in Nat \ {0, 1} :
            /\ n = Len(stack) /\ Len(stack') = n /\ Below(n - 1, stack, stack')
            /\ At(stack, n) = Top /\ At(stack', n) = g
      BY <1>0, <2>1, <2>2, Turned
    <3>2. Calls(stack', "flush") = Calls(stack, "flush")
      BY <2>1, <3>1 DEF Calls, Below
    <3>3. ASSUME NEW d \in Calls(stack, "flush")
          PROVE  /\ At(stack', d).slot = At(stack, d).slot
                 /\ At(stack', d).at = "wait" => At(stack, d).at = "wait"
                 /\ d < Len(stack') /\ At(stack', d + 1).op = "callback"
                       <=> d < Len(stack) /\ At(stack, d + 1).op = "callback"
      BY <2>1, <3>1 DEF Calls, Below
    <3> QED
      BY <3>2, <3>3, FlushKept
  <2>3. ASSUME NEW f \in Call, f.op = "wait", stack' = Push(f, Push(g, Rest)) PROVE SameFlush
    <3>1. PICK n \in Nat \ {0, 1} :
            /\ n = Len(stack) /\ Len(stack') = n + 1 /\ Below(n - 1, stack, stack')
            /\ At(stack, n) = Top /\ At(stack', n) = g /\ At(stack', n + 1) = f
      BY <1>0, <2>3, <2>1, TurnedCalling
    <3>2. Calls(stack', "flush") = Calls(stack, "flush")
      BY <2>1, <2>3, <3>1 DEF Calls, Below
    <3>3. ASSUME NEW d \in Calls(stack, "flush")
          PROVE  /\ At(stack', d).slot = At(stack, d).slot
                 /\ At(stack', d).at = "wait" => At(stack, d).at = "wait"
                 /\ d < Len(stack') /\ At(stack', d + 1).op = "callback"
                       <=> d < Len(stack) /\ At(stack, d + 1).op = "callback"
      BY <2>1, <2>3, <3>1 DEF Calls, Below
    <3> QED
      BY <3>2, <3>3, FlushKept
  <2> QED
    BY <2>1, <2>2, <2>3
<1>6. CASE WaitRound
  <2>1. PICK f, g \in Call : /\ stack' = Push(f, Push(g, Rest)) /\ Top.op = "wait"
                             /\ g.op = "wait" /\ g.kind = Top.kind
                             /\ f.op = "dispatch" /\ f.at = "loop"
    BY <1>6, WaitRoundMoves
  <2>3. PICK n \in Nat \ {0, 1} :
          /\ n = Len(stack) /\ Len(stack') = n + 1 /\ Below(n - 1, stack, stack')
          /\ At(stack, n) = Top /\ At(stack', n) = g /\ At(stack', n + 1) = f
    BY <1>0, <2>1, TurnedCalling
  <2>4. Calls(stack', "flush") = Calls(stack, "flush")
    BY <2>1, <2>3 DEF Calls, Below
  <2>5. ASSUME NEW d \in Calls(stack, "flush")
        PROVE  /\ At(stack', d).slot = At(stack, d).slot
               /\ At(stack', d).at = "wait" => At(stack, d).at = "wait"
               /\ d < Len(stack') /\ At(stack', d + 1).op = "callback"
                     <=> d < Len(stack) /\ At(stack, d + 1).op = "callback"
    BY <2>1, <2>3 DEF Calls, Below
  <2> QED
    BY <2>4, <2>5, FlushKept
<1>7. CASE WaitAgain
  <2>1. PICK g \in Call : /\ stack' = Push(g, Rest) /\ Top.op = "wait"
                          /\ g.op = "wait" /\ g.kind = Top.kind
    BY <1>7, WaitAgainMoves
  <2>3. PICK n \in Nat \ {0, 1} :
          /\ n = Len(stack) /\ Len(stack') = n /\ Below(n - 1, stack, stack')
          /\ At(stack, n) = Top /\ At(stack', n) = g
    BY <1>0, <2>1, Turned
  <2>4. Calls(stack', "flush") = Calls(stack, "flush")
    BY <2>1, <2>3 DEF Calls, Below
  <2>5. ASSUME NEW d \in Calls(stack, "flush")
        PROVE  /\ At(stack', d).slot = At(stack, d).slot
               /\ At(stack', d).at = "wait" => At(stack, d).at = "wait"
               /\ d < Len(stack') /\ At(stack', d + 1).op = "callback"
                     <=> d < Len(stack) /\ At(stack, d + 1).op = "callback"
    BY <2>1, <2>3 DEF Calls, Below
  <2> QED
    BY <2>4, <2>5, FlushKept
<1>8. CASE WaitEnd
  <2>1. stack' = Rest /\ Top.op = "wait"
    BY <1>8, WaitEndMoves
  <2>3. PICK n \in Nat \ {0, 1} :
          /\ n = Len(stack) /\ Len(stack') = n - 1 /\ Below(n - 1, stack, stack')
          /\ At(stack, n) = Top /\ At(stack, n - 1) = Head(Rest)
    BY <1>0, <2>1, Returned
  <2>4. Calls(stack', "flush") = Calls(stack, "flush")
    BY <2>1, <2>3 DEF Calls, Below
  <2>5. ASSUME NEW d \in Calls(stack, "flush")
        PROVE  /\ At(stack', d).slot = At(stack, d).slot
               /\ At(stack', d).at = "wait" => At(stack, d).at = "wait"
               /\ d < Len(stack') /\ At(stack', d + 1).op = "callback"
                     <=> d < Len(stack) /\ At(stack, d + 1).op = "callback"
    BY <2>1, <2>3 DEF Calls, Below
  <2> QED
    BY <2>4, <2>5, FlushKept
<1>9. CASE MainLoop
  <2>1. PICK f \in Call : stack' = Push(f, stack) /\ f.op = "dispatch" /\ f.at = "loop"
    BY <1>9, MainLoopMoves
  <2>3. PICK n \in Nat \ {0} :
          /\ n = Len(stack) /\ Len(stack') = n + 1 /\ Below(n, stack, stack')
          /\ At(stack, n) = Top /\ At(stack', n + 1) = f
    BY <1>0, <2>1, Called
  <2>4. Calls(stack', "flush") = Calls(stack, "flush")
    BY <2>1, <2>3 DEF Calls, Below
  <2>5. ASSUME NEW d \in Calls(stack, "flush")
        PROVE  /\ At(stack', d).slot = At(stack, d).slot
               /\ At(stack', d).at = "wait" => At(stack, d).at = "wait"
               /\ d < Len(stack') /\ At(stack', d + 1).op = "callback"
                     <=> d < Len(stack) /\ At(stack, d + 1).op = "callback"
    BY <2>1, <2>3 DEF Calls, Below
  <2> QED
    BY <2>4, <2>5, FlushKept
<1>10. CASE DispatchMessage
  <2>1. PICK f, g \in Call : /\ stack' = Push(f, Push(g, Rest)) /\ Top.op = "dispatch"
                             /\ g.op = "dispatch" /\ g.at = "called" /\ f.op = "callback"
                             /\ f.wrapped = (table[Head(ring).kind] = "wait")
    BY <1>10, DispatchMessageMoves
  <2>3. PICK n \in Nat \ {0, 1} :
          /\ n = Len(stack) /\ Len(stack') = n + 1 /\ Below(n - 1, stack, stack')
          /\ At(stack, n) = Top /\ At(stack', n) = g /\ At(stack', n + 1) = f
    BY <1>0, <2>1, TurnedCalling
  <2>4. Calls(stack', "flush") = Calls(stack, "flush")
    BY <2>1, <2>3 DEF Calls, Below
  <2>5. ASSUME NEW d \in Calls(stack, "flush")
        PROVE  /\ At(stack', d).slot = At(stack, d).slot
               /\ At(stack', d).at = "wait" => At(stack, d).at = "wait"
               /\ d < Len(stack') /\ At(stack', d + 1).op = "callback"
                     <=> d < Len(stack) /\ At(stack, d + 1).op = "callback"
    BY <2>1, <2>3 DEF Calls, Below
  <2> QED
    BY <2>4, <2>5, FlushKept
<1> QED
  BY <1>1, <1>2, <1>3, <1>4, <1>5, <1>6, <1>7, <1>8, <1>9, <1>10, Steps DEF Program

\* A dispatcher returns, or begins to give up requests at the first slot.
LEMMA FlushBegins ==
    ASSUME ControlTypes, FlushInv, DispatchEnd
    PROVE  \/ SameFlush
           \/ /\ \A d \in Calls(stack', "flush") : At(stack', d).slot = 0
              /\ \A i : ~Giving(stack', i) /\ ~Giving(stack, i)
<1>0. Shape(stack)
  BY DEF ControlTypes
<1>1. /\ Top.op = "dispatch"
      /\ \/ stack' = Rest
         \/ \E f, g \in Call :
              /\ stack' = Push(f, Push(g, Rest)) /\ g.op = "dispatch"
              /\ f.op = "flush" /\ f.slot = 0 /\ ~isCacheFlushFixActive
  BY DispatchEndMoves
<1>2. CASE stack' = Rest
  <2>3. PICK n \in Nat \ {0, 1} :
          /\ n = Len(stack) /\ Len(stack') = n - 1 /\ Below(n - 1, stack, stack')
          /\ At(stack, n) = Top /\ At(stack, n - 1) = Head(Rest)
    BY <1>0, <1>1, <1>2, Returned
  <2>4. Calls(stack', "flush") = Calls(stack, "flush")
    BY <1>1, <2>3 DEF Calls, Below
  <2>5. ASSUME NEW d \in Calls(stack, "flush")
        PROVE  /\ At(stack', d).slot = At(stack, d).slot
               /\ At(stack', d).at = "wait" => At(stack, d).at = "wait"
               /\ d < Len(stack') /\ At(stack', d + 1).op = "callback"
                     <=> d < Len(stack) /\ At(stack, d + 1).op = "callback"
    BY <1>1, <2>3 DEF Calls, Below
  <2> QED
    BY <2>4, <2>5, FlushKept
<1>3. ASSUME NEW f \in Call, NEW g \in Call, stack' = Push(f, Push(g, Rest)),
             g.op = "dispatch", f.op = "flush", f.slot = 0, ~isCacheFlushFixActive
      PROVE  /\ \A d \in Calls(stack', "flush") : At(stack', d).slot = 0
             /\ \A i : ~Giving(stack', i) /\ ~Giving(stack, i)
  <2>0. Top.op # "main"
    BY <1>1
  <2>1. PICK n \in Nat \ {0, 1} :
          /\ n = Len(stack) /\ Len(stack') = n + 1 /\ Below(n - 1, stack, stack')
          /\ At(stack, n) = Top /\ At(stack', n) = g /\ At(stack', n + 1) = f
    BY <1>0, <1>3, <2>0, TurnedCalling
  <2>2. Calls(stack, "flush") = {}
    BY <1>3 DEF FlushInv
  <2>3. Calls(stack', "flush") = {n + 1}
    BY <1>1, <1>3, <2>1, <2>2 DEF Calls, Below
  <2> QED
    BY <1>3, <2>1, <2>2, <2>3 DEF Giving
<1> QED
  BY <1>1, <1>2, <1>3

\* The next item in the cache is given up.
LEMMA FlushAdvances ==
    ASSUME ControlTypes, FlushInv, PurgeConfirm
    PROVE  \E k \in ActiveSlots, n \in Nat :
              /\ \A i \in ActiveSlots : i >= Top.slot => k <= i
              /\ k >= Top.slot /\ Top.slot \in Nat
              /\ said' = [said EXCEPT ![MDR_Cache[k].req] = Append(@, "made up")]
              /\ Calls(stack, "flush") = {n} /\ Calls(stack', "flush") = {n}
              /\ At(stack, n) = Top /\ At(stack', n).slot = k /\ At(stack', n).at = "purge"
              /\ \A i : ~Giving(stack, i) /\ (Giving(stack', i) <=> i = k)
<1>0. Shape(stack) /\ Top \in Call
  BY TopCall DEF ControlTypes
<1>1. PICK f, g \in Call :
        /\ stack' = Push(f, Push(g, Rest)) /\ Top.op = "flush" /\ f.op = "callback"
        /\ g.op = "flush" /\ g.at = "purge" /\ g.slot = Min({i \in ActiveSlots : i >= Top.slot})
  BY PurgeConfirmMoves
<1>2. PICK k \in ActiveSlots : /\ k = g.slot /\ k >= Top.slot
                               /\ \A i \in ActiveSlots : i >= Top.slot => k <= i
  <2> DEFINE I == {i \in ActiveSlots : i >= Top.slot}
  <2>1. I # {}
    BY DEF PurgeConfirm
  <2>2. I \in SUBSET Nat
    BY SlotsAreNumbers DEF ActiveSlots
  <2>3. Min(I) \in I /\ \A i \in I : Min(I) <= i
    <3> HIDE DEF I
    <3> QED
      BY <2>1, <2>2, MinInSet
  <2> QED
    BY <1>1, <2>3
<1>3. PICK n \in Nat \ {0, 1} :
        /\ n = Len(stack) /\ Len(stack') = n + 1 /\ Below(n - 1, stack, stack')
        /\ At(stack, n) = Top /\ At(stack', n) = g /\ At(stack', n + 1) = f
  BY <1>0, <1>1, TurnedCalling
<1>4. Calls(stack, "flush") = {n}
  <2>1. n \in Calls(stack, "flush")
    BY <1>1, <1>3 DEF Calls
  <2>2. \A d \in Calls(stack, "flush") : d = n
    BY <2>1 DEF FlushInv, OneOf
  <2> QED
    BY <2>1, <2>2
<1>5. Calls(stack', "flush") = {n}
  <2>1. Calls(stack', "flush") = Calls(stack, "flush")
    BY <1>1, <1>3 DEF Calls, Below
  <2> QED
    BY <1>4, <2>1
<1>6. \A i : ~Giving(stack, i) /\ (Giving(stack', i) <=> i = k)
  BY <1>1, <1>2, <1>3, <1>4, <1>5 DEF Giving
<1>7. said' = [said EXCEPT ![MDR_Cache[k].req] = Append(@, "made up")]
  BY <1>1, <1>2 DEF PurgeConfirm
<1>8. Top.slot \in Nat
  BY <1>0, <1>1, CallFields
<1> QED
  BY <1>1, <1>2, <1>3, <1>4, <1>5, <1>6, <1>7, <1>8

\* It is given up; or a message has been handled, which the loop does not see.
LEMMA FlushGoesOn ==
    ASSUME ControlTypes, FlushInv, CallbackReturn
    PROVE  \/ SameFlush /\ UNCHANGED MDR_Cache
           \/ \E k, n \in Nat :
                /\ Calls(stack, "flush") = {n} /\ Calls(stack', "flush") = {n}
                /\ At(stack, n).slot = k /\ At(stack', n).slot = k + 1
                /\ At(stack', n).at = "purge"
                /\ \A i : ~Giving(stack', i) /\ (Giving(stack, i) <=> i = k)
                /\ MDR_Cache' = [MDR_Cache EXCEPT ![k] = Empty]
<1>0. Shape(stack)
  BY DEF ControlTypes
<1>1. PICK g, c \in Call :
        /\ Top.op = "callback" /\ c = Head(Rest) /\ stack' = Push(g, Tail(Rest)) /\ g.op = c.op
        /\ \/ c.op = "dispatch" /\ UNCHANGED MDR_Cache
           \/ /\ c.op = "flush" /\ c.at = "purge" /\ g.slot = c.slot + 1 /\ g.at = "purge"
              /\ MDR_Cache' = [MDR_Cache EXCEPT ![c.slot] = Empty]
  BY CallbackReturnMoves
<1>2. PICK n \in Nat \ {0, 1, 2} :
        /\ n = Len(stack) /\ Len(stack') = n - 1 /\ Below(n - 2, stack, stack')
        /\ At(stack, n) = Top /\ At(stack, n - 1) = c /\ At(stack', n - 1) = g
  BY <1>0, <1>1, ReturnedTo
<1>3. CASE c.op = "dispatch" /\ UNCHANGED MDR_Cache
  <2>1. Calls(stack', "flush") = Calls(stack, "flush")
    <3>1. \A d : d \in Calls(stack', "flush") <=> d \in 1..(n - 2) /\ At(stack, d).op = "flush"
      BY <1>1, <1>2, <1>3 DEF Calls, Below
    <3>2. \A d : d \in Calls(stack, "flush") <=> d \in 1..(n - 2) /\ At(stack, d).op = "flush"
      BY <1>1, <1>2, <1>3 DEF Calls
    <3> QED
      BY <3>1, <3>2
  <2>2. ASSUME NEW d \in Calls(stack, "flush")
        PROVE  /\ At(stack', d) = At(stack, d)
               /\ d < Len(stack') /\ At(stack', d + 1).op = "callback"
                     <=> d < Len(stack) /\ At(stack, d + 1).op = "callback"
    <3>1. d \in 1..(n - 2)
      BY <1>1, <1>2, <1>3 DEF Calls
    <3>2. CASE d = n - 2
      BY <1>1, <1>2, <1>3, <3>1, <3>2 DEF Below
    <3>3. CASE d # n - 2
      <4>1. d + 1 \in 1..(n - 2)
        BY <3>1, <3>3
      <4> QED
        BY <1>2, <3>1, <4>1 DEF Below
    <3> QED
      BY <3>2, <3>3
  <2>3. SameFlush
    BY <2>1, <2>2, FlushKept
  <2> QED
    BY <1>3, <2>3
<1>4. CASE c.op = "flush"
  <2>1. PICK m \in 1..n : m = n - 1
    BY <1>2
  <2>2. Calls(stack, "flush") = {m}
    <3>1. m \in Calls(stack, "flush")
      BY <1>2, <1>4, <2>1 DEF Calls
    <3>2. \A d \in Calls(stack, "flush") : d = m
      BY <3>1 DEF FlushInv, OneOf
    <3> QED
      BY <3>1, <3>2
  <2>3. Calls(stack', "flush") = {m}
    <3>1. m \in Calls(stack', "flush")
      BY <1>1, <1>2, <1>4, <2>1 DEF Calls
    <3>2. ASSUME NEW d \in Calls(stack', "flush") PROVE d = m
      <4>1. d \in 1..(n - 2) \/ d = m
        BY <1>2, <2>1 DEF Calls
      <4>2. ASSUME d \in 1..(n - 2) PROVE d \in Calls(stack, "flush")
        BY <1>2, <4>2 DEF Calls, Below
      <4> QED
        BY <2>2, <4>1, <4>2
    <3> QED
      BY <3>1, <3>2
  <2>4. c.slot \in Nat /\ m \in Nat
    BY <1>4, <2>1, CallFields
  <2>5. /\ \A i : Giving(stack, i) <=> i = c.slot
        /\ \A i : ~Giving(stack', i)
    BY <1>1, <1>2, <1>4, <2>1, <2>2, <2>3 DEF Giving
  <2> QED
    BY <1>1, <1>2, <1>4, <2>1, <2>2, <2>3, <2>4, <2>5
<1> QED
  BY <1>1, <1>3, <1>4

\* The cache has been given up.
LEMMA FlushEnds ==
    ASSUME ControlTypes, FlushInv, FlushEnd
    PROVE  /\ Calls(stack', "flush") = {} /\ \A i : ~Giving(stack, i)
           /\ \E n \in Nat : Calls(stack, "flush") = {n} /\ At(stack, n) = Top
<1>0. Shape(stack)
  BY DEF ControlTypes
<1>1. PICK c \in Call : /\ Top.op = "flush" /\ c.op = "dispatch"
                        /\ Rest = Push(c, stack') /\ stack' \in Seq(Call)
  BY FlushEndMoves
<1>2. PICK n \in Nat \ {0, 1} :
        /\ n = Len(stack) /\ Len(stack') = n - 2 /\ Below(n - 2, stack, stack')
        /\ At(stack, n) = Top
  BY <1>0, <1>1, ReturnedTwice
<1>3. Calls(stack, "flush") = {n}
  <2>1. n \in Calls(stack, "flush")
    BY <1>1, <1>2 DEF Calls
  <2>2. \A d \in Calls(stack, "flush") : d = n
    BY <2>1 DEF FlushInv, OneOf
  <2> QED
    BY <2>1, <2>2
<1>4. Calls(stack', "flush") = {}
  <2>1. \A d \in Calls(stack', "flush") : d \in Calls(stack, "flush") /\ d # n
    BY <1>2 DEF Calls, Below
  <2> QED
    BY <1>3, <2>1
<1> QED
  BY <1>2, <1>3, <1>4 DEF Giving

----------------------------------------------------------------------------
(* What happens to the cache, but for giving it up.                        *)

SameItems(cache, new) ==
    \A i \in Slot : /\ new[i].active = cache[i].active
                    /\ cache[i].active => new[i].req = cache[i].req

Sends(r)    == /\ r \in Req \ sent /\ SendAndCache(r)
               /\ UNCHANGED <<said, ring>>
Purges(r)   == /\ MDR_Cache' = CacheRemoveItem(r) /\ excused' = excused \cup {r}
               /\ held' \subseteq held /\ UNCHANGED <<sent, said, ring>>
Confirms(r) == /\ ring # <<>> /\ Head(ring) = Confirm(r)
               /\ MDR_Cache' = CacheRemoveItem(r)
               /\ said' = [said EXCEPT ![r] = Append(@, "real")]
               /\ UNCHANGED <<sent, excused, held, ring>>
Forgets     == /\ MDR_Cache' = [i \in Slot |-> Empty] /\ excused' = sent
               /\ held' = {} /\ UNCHANGED <<sent, said, ring>>
LeavesItems == /\ SameItems(MDR_Cache, MDR_Cache')
               /\ UNCHANGED <<sent, excused, said>>
               /\ \/ held' \subseteq held
                  \/ \E r \in held : ChipConfirms(r)

LEMMA CacheElse ==
    ASSUME ControlTypes, DataTypes, PcpsInv, [Next]_vars,
           ~CallbackReturn, ~PurgeConfirm, ~FlushEnd
    PROVE  \/ \E r \in Req : Sends(r)
           \/ \E r \in Req : Purges(r)
           \/ \E r \in Req : DispatchMessage /\ Confirms(r)
           \/ Forgets
           \/ LeavesItems
<1>0. Shape(stack)
  BY DEF ControlTypes
<1>1. ASSUME NEW r \in Req, DataRequest(r) PROVE Sends(r)
  BY <1>1 DEF DataRequest, Sends
<1>2. CASE PcpsSend
  <2>1. Top.op = "pcps" /\ SendAndCache(Top.req) /\ UNCHANGED <<said, ring>>
    BY <1>2 DEF PcpsSend
  <2>2. Len(stack) \in Calls(stack, "pcps") /\ At(stack, Len(stack)) = Top
    BY <1>0, <2>1, Returned DEF Calls
  <2>3. Top.req \in Req \ sent
    BY <2>2 DEF PcpsInv
  <2> QED
    BY <2>1, <2>3 DEF Sends
<1>3. ASSUME NEW r \in Req, PurgeRequest(r) PROVE Purges(r)
  BY <1>3 DEF PurgeRequest, Purges
<1>4. CASE ResetRequest
  BY <1>4 DEF ResetRequest, Forgets
<1>5. CASE UNCHANGED <<MDR_Cache, sent, excused, said>> /\ held' \subseteq held
  BY <1>5 DEF LeavesItems, SameItems
<1>6. CASE DispatchMessage
  <2>1. PICK m \in Message : m = Head(ring) /\ ring # <<>>
    <3>1. PICK m \in Message : m = Wakeup
      BY DEF Message, Wakeup
    <3>2. ring # <<>>
      BY <1>6 DEF DispatchMessage
    <3> QED
      BY <3>1, <3>2, SeqOps DEF DataTypes
  <2>2. UNCHANGED <<held, ring, sent, excused>>
    BY <1>6 DEF DispatchMessage, chip
  <2>3. CASE m.kind = "confirm"
    <3>1. m = Confirm(m.req) /\ m.req \in Req
      BY <2>3 DEF Message, Confirm
    <3>2. /\ MDR_Cache' = CacheRemoveItem(m.req)
          /\ said' = [said EXCEPT ![m.req] = Append(@, "real")]
      BY <1>6, <2>1, <2>3 DEF DispatchMessage
    <3> QED
      BY <1>6, <2>1, <2>2, <3>1, <3>2 DEF Confirms
  <2>4. CASE m.kind # "confirm"
    <3>1. UNCHANGED <<MDR_Cache, said>>
      BY <1>6, <2>1, <2>4 DEF DispatchMessage
    <3> QED
      BY <1>5, <2>2, <3>1
  <2> QED
    BY <2>3, <2>4
<1>7. CASE DispatchEnd
  <2>1. UNCHANGED <<held, sent, excused, said>>
    BY <1>7 DEF DispatchEnd
  <2>2. SameItems(MDR_Cache, MDR_Cache')
    <3>1. UNCHANGED MDR_Cache \/ CacheDecay(MDR_Cache)
      BY <1>7 DEF DispatchEnd
    <3> QED
      BY <3>1, DecayItems DEF DataTypes, SameItems
  <2> QED
    BY <2>1, <2>2 DEF LeavesItems
<1>8. ASSUME NEW r \in Req, ChipConfirms(r) PROVE LeavesItems
  <2>1. UNCHANGED <<MDR_Cache, sent, excused, said>> /\ r \in held
    BY <1>8 DEF ChipConfirms, statics, history
  <2> QED
    BY <1>8, <2>1 DEF LeavesItems, SameItems
<1>9. CASE Flat
  <2>1. \/ \E r \in Req : DataRequest(r) \/ PurgeRequest(r) \/ ChipConfirms(r)
        \/ ResetRequest
        \/ UNCHANGED <<MDR_Cache, sent, excused, said>> /\ held' \subseteq held
    BY <1>9 DEF Flat, ChipLoses, SetRxOnWhenIdle, ScanRequest, ChipScanned, ChipRestarts, Tick,
                vars, statics, chip, history
  <2> QED
    BY <1>1, <1>3, <1>4, <1>5, <1>8, <2>1
<1>10. ASSUME NEW r \in Req, AwkwardRequest(r)
       PROVE  UNCHANGED <<MDR_Cache, sent, excused, said, held>>
  BY <1>10 DEF AwkwardRequest
<1>11. ASSUME NEW kind \in WaitFor, NEW swap \in BOOLEAN, AppWait(kind, swap)
       PROVE  UNCHANGED <<MDR_Cache, sent, excused, said, held>>
  BY <1>11 DEF AppWait, statics, chip
<1>12. CASE FixWait \/ WaitRound \/ WaitAgain \/ WaitEnd \/ MainLoop
  <2>1. UNCHANGED <<MDR_Cache, sent, excused, said, held>>
    BY <1>12 DEF FixWait, WaitRound, WaitAgain, WaitEnd, MainLoop, statics, chip, history
  <2> QED
    BY <1>5, <2>1
<1> QED
  BY <1>2, <1>5, <1>6, <1>7, <1>9, <1>10, <1>11, <1>12, Steps DEF Program

\* Which requests are in the cache after one was added or removed.
LEMMA AfterAdd ==
    ASSUME DataTypes, NEW r \in Req, SendAndCache(r)
    PROVE  \/ ActiveSlots = Slot /\ UNCHANGED MDR_Cache /\ excused' = excused \cup {r}
           \/ \E k \in Slot \ ActiveSlots :
                /\ ActiveSlots' = ActiveSlots \cup {k} /\ MDR_Cache'[k].req = r
                /\ \A i \in ActiveSlots : MDR_Cache'[i] = MDR_Cache[i]
                /\ CacheAddItem(r)[k] # MDR_Cache[k]
<1>1. MDR_Cache' = CacheAddItem(r) /\ MDR_Cache \in [Slot -> Entry]
  BY DEF SendAndCache, DataTypes
<1>2. CASE ActiveSlots = Slot /\ CacheAddItem(r) = MDR_Cache
  BY <1>1, <1>2 DEF SendAndCache
<1>3. ASSUME NEW k \in Slot \ ActiveSlots, CacheAddItem(r) = [MDR_Cache EXCEPT ![k] = Item(r)]
      PROVE  /\ ActiveSlots' = ActiveSlots \cup {k} /\ MDR_Cache'[k].req = r
             /\ \A i \in ActiveSlots : MDR_Cache'[i] = MDR_Cache[i]
             /\ CacheAddItem(r)[k] # MDR_Cache[k]
  <2>1. MDR_Cache'[k] = Item(r) /\ \A i \in Slot \ {k} : MDR_Cache'[i] = MDR_Cache[i]
    BY <1>1, <1>3
  <2>2. Item(r).active /\ Item(r).req = r
    BY DEF Item
  <2>3. ~MDR_Cache[k].active
    BY <1>3 DEF ActiveSlots
  <2> QED
    BY <1>1, <2>1, <2>2, <2>3 DEF ActiveSlots
<1> QED
  BY <1>1, <1>2, <1>3, AddItem

LEMMA AfterRemove ==
    ASSUME DataTypes, NEW r \in Req, MDR_Cache' = CacheRemoveItem(r)
    PROVE  \/ UNCHANGED MDR_Cache /\ \A i \in ActiveSlots : MDR_Cache[i].req # r
           \/ \E k \in ActiveSlots :
                /\ MDR_Cache[k].req = r /\ ActiveSlots' = ActiveSlots \ {k}
                /\ \A i \in ActiveSlots' : MDR_Cache'[i] = MDR_Cache[i]
<1>1. MDR_Cache \in [Slot -> Entry]
  BY DEF DataTypes
<1>2. ASSUME NEW k \in ActiveSlots, MDR_Cache' = [MDR_Cache EXCEPT ![k] = Empty],
             MDR_Cache[k].req.handle = r.handle, MDR_Cache[k].req.type = r.type
      PROVE  /\ MDR_Cache[k].req = r /\ ActiveSlots' = ActiveSlots \ {k}
             /\ \A i \in ActiveSlots' : MDR_Cache'[i] = MDR_Cache[i]
  <2>1. k \in Slot /\ MDR_Cache[k].req \in Req
    BY <1>1, EntryFields DEF ActiveSlots
  <2>2. MDR_Cache[k].req = r
    BY <1>2, <2>1, DistinctHandles
  <2>3. MDR_Cache'[k] = Empty /\ \A i \in Slot \ {k} : MDR_Cache'[i] = MDR_Cache[i]
    BY <1>1, <1>2, <2>1
  <2>4. ~Empty.active
    BY DEF Empty
  <2> QED
    BY <2>1, <2>2, <2>3, <2>4 DEF ActiveSlots
<1> QED
  BY <1>1, <1>2, RemoveItem

LEMMA AfterEmptied ==
    ASSUME DataTypes, NEW k, MDR_Cache' = [MDR_Cache EXCEPT ![k] = Empty]
    PROVE  /\ ActiveSlots' = ActiveSlots \ {k}
           /\ \A i \in ActiveSlots' : MDR_Cache'[i] = MDR_Cache[i]
<1>1. ~Empty.active /\ MDR_Cache \in [Slot -> Entry]
  BY DEF Empty, DataTypes
<1>2. CASE k \in Slot
  BY <1>1, <1>2 DEF ActiveSlots
<1>3. CASE k \notin Slot
  <2>1. MDR_Cache' = MDR_Cache
    BY <1>1, <1>3
  <2> QED
    BY <1>3, <2>1 DEF ActiveSlots
<1> QED
  BY <1>2, <1>3

LEMMA AfterSame ==
    ASSUME SameItems(MDR_Cache, MDR_Cache')
    PROVE  ActiveSlots' = ActiveSlots /\ \A i \in ActiveSlots : MDR_Cache'[i].req = MDR_Cache[i].req
BY DEF SameItems, ActiveSlots

\* When the cache has been given up, only what is behind the loop can be left.
LEMMA AfterFlush ==
    ASSUME DataTypes, FlushEnd
    PROVE  /\ ActiveSlots' \subseteq ActiveSlots
           /\ \A i \in ActiveSlots : i < Top.slot
           /\ \A i \in ActiveSlots' : MDR_Cache'[i].req = MDR_Cache[i].req
<1> DEFINE cache == [i \in Slot |->
                        IF i < Top.slot /\ isScanInProgress THEN MDR_Cache[i] ELSE Empty]
<1>1. cache \in [Slot -> Entry] /\ CacheDecay(cache) /\ elapsed \in Nat
  BY DEF FlushEnd, DataTypes, Entry
<1>2. \A i \in Slot : cache[i] = MDR_Cache[i] \/ cache[i] = Empty
  OBVIOUS
<1>3. ~Empty.active
  BY DEF Empty
<1> HIDE DEF cache
<1>4. \A i \in Slot : /\ MDR_Cache'[i].active = cache[i].active
                      /\ cache[i].active => MDR_Cache'[i].req = cache[i].req
  BY <1>1, DecayItems
<1> QED
  BY <1>2, <1>3, <1>4 DEF ActiveSlots, FlushEnd

----------------------------------------------------------------------------
(* What the cache remembers.  A request is in it until a confirm is given  *)
(* for it; what the loop over the cache has passed, or is about to empty,  *)
(* needs none any more.                                                    *)

RememberInv ==
    /\ \A r \in sent \ excused : said[r] = <<>> => Cached(r)
    /\ \A i \in ActiveSlots, d \in Calls(stack, "flush") :
          i < At(stack, d).slot => MDR_Cache[i].req \in excused
    /\ \A i \in ActiveSlots : Giving(stack, i) =>
          MDR_Cache[i].req \in excused \/ said[MDR_Cache[i].req] # <<>>
    /\ \A d \in Calls(stack, "flush") : At(stack, d).at = "wait" => At(stack, d).slot = 0

\* A slot that the loop has passed, or is about to empty, is behind it.
LEMMA IsBehind ==
    ASSUME Shape(stack), RememberInv, NEW r, NEW k \in Slot, CacheAddItem(r)[k] # MDR_Cache[k],
           Giving(stack, k) \/ \E d \in Calls(stack, "flush") : k < At(stack, d).slot
    PROVE  BehindPurge(r)
<1>1. PICK d \in Calls(stack, "flush") :
        k <= At(stack, d).slot /\ At(stack, d).at = "purge" /\ At(stack, d).op = "flush"
  <2>1. ASSUME NEW d \in Calls(stack, "flush"), k < At(stack, d).slot
        PROVE  k <= At(stack, d).slot /\ At(stack, d).at = "purge"
    <3>1. At(stack, d) \in Call /\ At(stack, d).op = "flush"
      <4>1. PICK i \in DOMAIN stack : stack[i] = At(stack, d)
        BY ByIndex DEF Calls
      <4> QED
        BY <4>1 DEF Shape, Calls
    <3>2. k \in Nat /\ At(stack, d).slot \in Nat
      BY <3>1, CallFields, SlotsAreNumbers
    <3>3. At(stack, d).at \in {"wait", "purge"}
      BY <3>1 DEF Call
    <3>4. At(stack, d).slot # 0
      BY <2>1, <3>2
    <3> QED
      BY <2>1, <3>2, <3>3, <3>4 DEF RememberInv
  <2>2. ASSUME NEW d \in Calls(stack, "flush"), d < Len(stack), At(stack, d + 1).op = "callback",
               At(stack, d).slot = k
        PROVE  k <= At(stack, d).slot /\ At(stack, d).at = "purge"
    <3>1. PICK n \in Nat : n = Len(stack)
      BY DEF Shape
    <3>2. d \in 1..(n - 1) /\ At(stack, d).op = "flush"
      BY <2>2, <3>1 DEF Calls
    <3>3. MayCall(At(stack, d), At(stack, d + 1))
      BY <3>1, <3>2 DEF Shape
    <3>4. k \in Nat
      BY SlotsAreNumbers
    <3> QED
      BY <2>2, <3>2, <3>3, <3>4 DEF MayCall
  <2> QED
    BY <2>1, <2>2 DEF Giving, Calls
<1>2. PICK i \in DOMAIN stack : stack[i] = At(stack, d)
  BY ByIndex DEF Calls
<1> QED
  BY <1>1, <1>2 DEF BehindPurge

LEMMA RememberStep ==
    ASSUME ControlTypes, DataTypes, FlushInv, PcpsInv, RememberInv, [Next]_vars
    PROVE  RememberInv'
<1>0. Shape(stack) /\ said \in [Req -> Seq({"real", "made up"})] /\ MDR_Cache \in [Slot -> Entry]
  BY DEF ControlTypes, DataTypes
<1>a. \A i \in ActiveSlots : i \in Slot /\ MDR_Cache[i].req \in Req
  BY <1>0, EntryFields DEF ActiveSlots
\* The loop stays where it is, and so do the items and what is excused of them.
<1>b. ASSUME SameFlush, ActiveSlots' \subseteq ActiveSlots,
             \A i \in ActiveSlots' : MDR_Cache'[i].req = MDR_Cache[i].req,
             excused \subseteq excused', \A r \in Req : said[r] # <<>> => said'[r] # <<>>
      PROVE  /\ \A i \in ActiveSlots', d \in Calls(stack', "flush") :
                   i < At(stack', d).slot => MDR_Cache'[i].req \in excused'
             /\ \A i \in ActiveSlots' : Giving(stack', i) =>
                   MDR_Cache'[i].req \in excused' \/ said'[MDR_Cache'[i].req] # <<>>
  <2>1. ASSUME NEW i \in ActiveSlots', NEW d \in Calls(stack', "flush"), i < At(stack', d).slot
        PROVE  MDR_Cache'[i].req \in excused'
    BY <1>b, <2>1 DEF SameFlush, RememberInv
  <2>2. ASSUME NEW i \in ActiveSlots', Giving(stack', i)
        PROVE  MDR_Cache'[i].req \in excused' \/ said'[MDR_Cache'[i].req] # <<>>
    <3>1. i \in ActiveSlots /\ Giving(stack, i) /\ MDR_Cache'[i].req = MDR_Cache[i].req
      BY <1>b, <2>2 DEF SameFlush
    <3> QED
      BY <1>a, <1>b, <3>1 DEF RememberInv
  <2> QED
    BY <2>1, <2>2
<1>c. ASSUME SameFlush
      PROVE  \A d \in Calls(stack', "flush") : At(stack', d).at = "wait" => At(stack', d).slot = 0
  BY <1>c DEF SameFlush, RememberInv
<1>1. ASSUME NEW r \in Req, Sends(r), SameFlush PROVE RememberInv'
  <2>0. SendAndCache(r) /\ r \in Req \ sent /\ UNCHANGED said /\ sent' = sent \cup {r}
        /\ MDR_Cache' = CacheAddItem(r)
    BY <1>1 DEF Sends, SendAndCache
  <2>1. excused \subseteq excused' /\ excused' \subseteq excused \cup {r}
        /\ (BehindPurge(r) => r \in excused')
    BY <2>0 DEF SendAndCache
  <2>2. CASE ActiveSlots = Slot /\ UNCHANGED MDR_Cache /\ excused' = excused \cup {r}
    <3>1. ActiveSlots' = ActiveSlots
      BY <2>2 DEF ActiveSlots
    <3>2. \A q \in sent' \ excused' : said'[q] = <<>> => Cached(q)'
      BY <2>0, <2>2, <3>1 DEF RememberInv, Cached
    <3> QED
      BY <1>1, <1>b, <1>c, <2>0, <2>1, <2>2, <3>1, <3>2 DEF RememberInv
  <2>3. ASSUME NEW k \in Slot \ ActiveSlots,
               ActiveSlots' = ActiveSlots \cup {k}, MDR_Cache'[k].req = r,
               \A i \in ActiveSlots : MDR_Cache'[i] = MDR_Cache[i],
               CacheAddItem(r)[k] # MDR_Cache[k]
        PROVE  RememberInv'
    <3>1. ASSUME NEW q \in sent' \ excused', said'[q] = <<>> PROVE Cached(q)'
      <4>1. CASE q = r
        BY <2>3, <4>1 DEF Cached
      <4>2. CASE q # r
        <5>1. Cached(q)
          BY <2>0, <2>1, <3>1, <4>2 DEF RememberInv
        <5> QED
          BY <2>3, <5>1 DEF Cached
      <4> QED
        BY <4>1, <4>2
    <3>2. ASSUME Giving(stack', k) \/ \E d \in Calls(stack', "flush") : k < At(stack', d).slot
          PROVE  r \in excused'
      <4>1. Giving(stack, k) \/ \E d \in Calls(stack, "flush") : k < At(stack, d).slot
        BY <1>1, <3>2 DEF SameFlush
      <4> QED
        BY <1>0, <2>1, <2>3, <4>1, IsBehind
    <3>3. ASSUME NEW i \in ActiveSlots', NEW d \in Calls(stack', "flush"), i < At(stack', d).slot
          PROVE  MDR_Cache'[i].req \in excused'
      <4>1. CASE i = k
        BY <2>3, <3>2, <3>3, <4>1
      <4>2. CASE i # k
        BY <1>1, <2>1, <2>3, <3>3, <4>2 DEF SameFlush, RememberInv
      <4> QED
        BY <4>1, <4>2
    <3>4. ASSUME NEW i \in ActiveSlots', Giving(stack', i)
          PROVE  MDR_Cache'[i].req \in excused' \/ said'[MDR_Cache'[i].req] # <<>>
      <4>1. CASE i = k
        BY <2>3, <3>2, <3>4, <4>1
      <4>2. CASE i # k
        BY <1>1, <2>0, <2>1, <2>3, <3>4, <4>2 DEF SameFlush, RememberInv
      <4> QED
        BY <4>1, <4>2
    <3> QED
      BY <1>1, <1>c, <3>1, <3>3, <3>4 DEF RememberInv
  <2> QED
    BY <2>0, <2>2, <2>3, AfterAdd
\* One item is removed, of a request that needs it no more.
<1>d. ASSUME NEW r \in Req, MDR_Cache' = CacheRemoveItem(r), SameFlush, UNCHANGED sent,
             excused \subseteq excused', \A q \in Req : said[q] # <<>> => said'[q] # <<>>,
             \A q \in Req : said'[q] = <<>> => said[q] = <<>>,
             r \in excused' \/ said'[r] # <<>>
      PROVE  RememberInv'
  <2>1. /\ ActiveSlots' \subseteq ActiveSlots
        /\ \A i \in ActiveSlots' : MDR_Cache'[i].req = MDR_Cache[i].req
        /\ \A i \in ActiveSlots \ ActiveSlots' : MDR_Cache[i].req = r
    BY <1>d, AfterRemove DEF ActiveSlots
  <2>2. ASSUME NEW q \in sent' \ excused', said'[q] = <<>> PROVE Cached(q)'
    <3>1. q \in sent \ excused /\ q \in Req /\ q # r
      BY <1>d, <2>2 DEF DataTypes
    <3>2. Cached(q)
      BY <1>d, <2>2, <3>1 DEF RememberInv
    <3> QED
      BY <2>1, <3>1, <3>2 DEF Cached
  <2> QED
    BY <1>b, <1>c, <1>d, <2>1, <2>2 DEF RememberInv
<1>2. ASSUME NEW r \in Req, Purges(r), SameFlush PROVE RememberInv'
  BY <1>2, <1>d DEF Purges
<1>3. ASSUME NEW r \in Req, Confirms(r), SameFlush PROVE RememberInv'
  <2>1. /\ said'[r] = Append(said[r], "real")
        /\ \A q \in Req : q # r => said'[q] = said[q]
    BY <1>0, <1>3 DEF Confirms
  <2>2. said'[r] # <<>>
    BY <1>0, <2>1, SeqOps
  <2> QED
    BY <1>3, <1>d, <2>1, <2>2 DEF Confirms
<1>4. ASSUME Forgets, SameFlush PROVE RememberInv'
  <2>1. ActiveSlots' = {}
    BY <1>4 DEF Forgets, ActiveSlots, Empty
  <2>2. sent' \ excused' = {}
    BY <1>4 DEF Forgets
  <2> QED
    BY <1>4, <1>c, <2>1, <2>2 DEF RememberInv
<1>5. ASSUME LeavesItems PROVE /\ ActiveSlots' = ActiveSlots
                               /\ \A i \in ActiveSlots : MDR_Cache'[i].req = MDR_Cache[i].req
                               /\ \A q \in sent' \ excused' : said'[q] = <<>> => Cached(q)'
  BY <1>5, AfterSame DEF LeavesItems, RememberInv, Cached
<1>6. ASSUME LeavesItems, SameFlush PROVE RememberInv'
  <2>1. UNCHANGED <<excused, said>>
    BY <1>6 DEF LeavesItems
  <2> QED
    BY <1>5, <1>6, <1>b, <1>c, <2>1 DEF RememberInv
<1>7. CASE DispatchEnd
  <2>1. LeavesItems
    <3>1. ~CallbackReturn /\ ~PurgeConfirm /\ ~FlushEnd /\ ~DispatchMessage
      BY <1>7, DispatchEndMoves DEF DispatchEnd, CallbackReturn, PurgeConfirm, FlushEnd,
                                    DispatchMessage
    <3>2. UNCHANGED <<held, sent, excused, said>>
      BY <1>7 DEF DispatchEnd
    <3>3. SameItems(MDR_Cache, MDR_Cache')
      <4>1. UNCHANGED MDR_Cache \/ CacheDecay(MDR_Cache)
        BY <1>7 DEF DispatchEnd
      <4> QED
        BY <4>1, DecayItems DEF DataTypes, SameItems
    <3> QED
      BY <3>2, <3>3 DEF LeavesItems
  <2>2. CASE SameFlush
    BY <1>6, <2>1, <2>2
  <2>3. CASE /\ \A d \in Calls(stack', "flush") : At(stack', d).slot = 0
             /\ \A i : ~Giving(stack', i)
    <3>1. \A i \in ActiveSlots' : i \in Nat
      BY <1>a, <1>5, <2>1, SlotsAreNumbers
    <3> QED
      BY <1>5, <2>1, <2>3, <3>1 DEF RememberInv
  <2> QED
    BY <1>7, <2>2, <2>3, FlushBegins
<1>8. CASE PurgeConfirm
  <2>1. UNCHANGED <<MDR_Cache, sent, excused>>
    BY <1>8 DEF PurgeConfirm, statics
  <2>2. PICK k \in ActiveSlots, n \in Nat :
          /\ \A i \in ActiveSlots : i >= Top.slot => k <= i
          /\ k >= Top.slot /\ Top.slot \in Nat
          /\ said' = [said EXCEPT ![MDR_Cache[k].req] = Append(@, "made up")]
          /\ Calls(stack, "flush") = {n} /\ Calls(stack', "flush") = {n}
          /\ At(stack, n) = Top /\ At(stack', n).slot = k /\ At(stack', n).at = "purge"
          /\ \A i : ~Giving(stack, i) /\ (Giving(stack', i) <=> i = k)
    BY <1>8, FlushAdvances
  <2>3. /\ said'[MDR_Cache[k].req] # <<>>
        /\ \A q \in Req : q # MDR_Cache[k].req => said'[q] = said[q]
    <3>1. MDR_Cache[k].req \in Req
      BY <1>a
    <3> QED
      BY <1>0, <2>2, <3>1, SeqOps
  <2>4. ActiveSlots' = ActiveSlots
    BY <2>1 DEF ActiveSlots
  <2>5. \A q \in sent' \ excused' : said'[q] = <<>> => Cached(q)'
    BY <2>1, <2>3, <2>4 DEF RememberInv, Cached, DataTypes
  <2>6. ASSUME NEW i \in ActiveSlots', i < k PROVE MDR_Cache'[i].req \in excused'
    <3>1. i \in Nat /\ k \in Nat /\ i \in ActiveSlots
      BY <1>a, <2>4, SlotsAreNumbers
    <3>2. i < Top.slot
      <4>1. PICK t \in Nat : t = Top.slot
        BY <2>2
      <4>2. i >= t => k <= i
        BY <2>2, <3>1, <4>1
      <4> QED
        BY <2>6, <3>1, <4>1, <4>2
    <3> QED
      BY <2>1, <2>2, <3>1, <3>2 DEF RememberInv
  <2> QED
    BY <2>1, <2>2, <2>3, <2>4, <2>5, <2>6 DEF RememberInv
<1>9. CASE CallbackReturn
  <2>1. UNCHANGED <<sent, excused, said>>
    BY <1>9 DEF CallbackReturn, history
  <2>2. CASE SameFlush /\ UNCHANGED MDR_Cache
    <3>1. ActiveSlots' = ActiveSlots
      BY <2>2 DEF ActiveSlots
    <3>2. \A q \in sent' \ excused' : said'[q] = <<>> => Cached(q)'
      BY <2>1, <2>2, <3>1 DEF RememberInv, Cached
    <3> QED
      BY <1>b, <1>c, <2>1, <2>2, <3>1, <3>2 DEF RememberInv
  <2>3. ASSUME NEW k \in Nat, NEW n \in Nat,
               Calls(stack, "flush") = {n}, Calls(stack', "flush") = {n},
               At(stack, n).slot = k, At(stack', n).slot = k + 1, At(stack', n).at = "purge",
               \A i : ~Giving(stack', i) /\ (Giving(stack, i) <=> i = k),
               MDR_Cache' = [MDR_Cache EXCEPT ![k] = Empty]
        PROVE  RememberInv'
    <3>1. /\ ActiveSlots' = ActiveSlots \ {k}
          /\ \A i \in ActiveSlots' : MDR_Cache'[i] = MDR_Cache[i]
      BY <2>3, AfterEmptied
    <3>2. ASSUME NEW q \in sent' \ excused', said'[q] = <<>> PROVE Cached(q)'
      <4>1. PICK i \in ActiveSlots : MDR_Cache[i].req = q
        BY <2>1, <3>2 DEF RememberInv, Cached
      <4>2. i # k
        BY <2>1, <2>3, <3>2, <4>1 DEF RememberInv
      <4> QED
        BY <3>1, <4>1, <4>2 DEF Cached
    <3>3. ASSUME NEW i \in ActiveSlots', i < k + 1 PROVE MDR_Cache'[i].req \in excused'
      <4>1. i \in ActiveSlots /\ i < k
        <5>1. i \in Nat
          BY <1>a, <3>1, SlotsAreNumbers
        <5> QED
          BY <3>1, <3>3, <5>1
      <4> QED
        BY <2>1, <2>3, <3>1, <4>1 DEF RememberInv
    <3> QED
      BY <2>3, <3>2, <3>3 DEF RememberInv
  <2> QED
    BY <1>9, <2>2, <2>3, FlushGoesOn
<1>10. CASE FlushEnd
  <2>1. UNCHANGED <<sent, excused, said>>
    BY <1>10 DEF FlushEnd
  <2>2. /\ ActiveSlots' \subseteq ActiveSlots
        /\ \A i \in ActiveSlots : i < Top.slot
        /\ \A i \in ActiveSlots' : MDR_Cache'[i].req = MDR_Cache[i].req
    BY <1>10, AfterFlush
  <2>3. /\ Calls(stack', "flush") = {} /\ \A i : ~Giving(stack, i)
        /\ \E n \in Nat : Calls(stack, "flush") = {n} /\ At(stack, n) = Top
    BY <1>10, FlushEnds
  <2>4. \A i \in ActiveSlots : MDR_Cache[i].req \in excused
    BY <2>2, <2>3 DEF RememberInv
  <2>5. \A q \in sent' \ excused' : said'[q] # <<>>
    BY <2>1, <2>4 DEF RememberInv, Cached
  <2>6. \A i : ~Giving(stack', i)
    BY <2>3 DEF Giving
  <2> QED
    BY <2>3, <2>5, <2>6 DEF RememberInv
<1>11. CASE ~CallbackReturn /\ ~DispatchEnd /\ ~PurgeConfirm /\ ~FlushEnd
  <2>1. SameFlush
    BY <1>11, FlushElse
  <2> QED
    BY <1>1, <1>2, <1>3, <1>4, <1>6, <1>11, <2>1, CacheElse
<1> QED
  BY <1>7, <1>8, <1>9, <1>10, <1>11

----------------------------------------------------------------------------
(* A request is with the chip, or its confirm is in the ring, or neither;  *)
(* only a confirm of the chip that has been passed on may still be in the  *)
(* ring when its request has been answered for good.                       *)

Pending(r) == {i \in DOMAIN ring : ring[i] = Confirm(r)}
Unsaid(r)  == said[r] \in {<<>>, <<"made up">>}

TokenInv ==
    \A r \in Req :
        /\ r \in held \/ Pending(r) # {} \/ said[r] # <<>> => r \in sent
        /\ r \in held => Pending(r) = {} /\ Unsaid(r)
        /\ OneOf(Pending(r))
        /\ \A i \in Pending(r) : (i = 1 /\ Handling(stack) # {}) \/ Unsaid(r)
        /\ said[r] \in {<<>>, <<"real">>, <<"made up">>, <<"made up", "real">>}

\* A request is in the cache once, and no more when a confirm has been given
\* for it, except while the one made up for it is being passed on.
ItemInv ==
    \A i \in ActiveSlots :
        LET r == MDR_Cache[i].req IN
        /\ r \in sent
        /\ said[r] = <<>> \/ (Giving(stack, i) /\ said[r] = <<"made up">>)
        /\ \A j \in ActiveSlots : MDR_Cache[j].req = r => i = j

LEMMA TokenSame ==
    ASSUME TokenInv, UNCHANGED <<ring, said>>, held' \subseteq held, sent' = sent,
           Handling(stack) # {} => Handling(stack') # {}
    PROVE  TokenInv'
<1>1. \A r : Pending(r)' = Pending(r)
  BY DEF Pending
<1> QED
  BY <1>1 DEF TokenInv, Unsaid

LEMMA AppendParts ==
    ASSUME NEW S, NEW s \in Seq(S), NEW x \in S, NEW t, t = Append(s, x)
    PROVE  /\ Len(s) \in Nat /\ DOMAIN s = 1..Len(s) /\ DOMAIN t = 1..(Len(s) + 1)
           /\ t[Len(s) + 1] = x /\ \A i \in 1..Len(s) : t[i] = s[i]
OBVIOUS

LEMMA TailParts ==
    ASSUME NEW S, NEW s \in Seq(S), s # <<>>, NEW t, t = Tail(s)
    PROVE  /\ Len(s) \in Nat \ {0} /\ DOMAIN s = 1..Len(s) /\ DOMAIN t = 1..(Len(s) - 1)
           /\ s[1] = Head(s) /\ \A i \in 1..(Len(s) - 1) : t[i] = s[i + 1]
OBVIOUS

LEMMA OneMore ==
    ASSUME DataTypes, NEW m \in Message, NEW r, ring' = Append(ring, m)
    PROVE  Pending(r)' = IF m = Confirm(r) THEN Pending(r) \cup {Len(ring) + 1} ELSE Pending(r)
<1>1. /\ Len(ring) \in Nat /\ DOMAIN ring = 1..Len(ring) /\ DOMAIN ring' = 1..(Len(ring) + 1)
      /\ ring'[Len(ring) + 1] = m /\ \A i \in 1..Len(ring) : ring'[i] = ring[i]
  <2>1. ring \in Seq(Message)
    BY DEF DataTypes
  <2> QED
    BY <2>1, AppendParts
<1>2. \A i : i \in 1..(Len(ring) + 1) <=> i \in 1..Len(ring) \/ i = Len(ring) + 1
  BY <1>1
<1> QED
  BY <1>1, <1>2 DEF Pending

LEMMA OneLess ==
    ASSUME DataTypes, ring # <<>>, ring' = Tail(ring), NEW r
    PROVE  \A i \in Pending(r)' : i \in Nat \ {0} /\ i + 1 \in Pending(r)
<1>1. /\ Len(ring) \in Nat \ {0} /\ DOMAIN ring = 1..Len(ring)
      /\ DOMAIN ring' = 1..(Len(ring) - 1)
      /\ \A i \in 1..(Len(ring) - 1) : ring'[i] = ring[i + 1]
  <2>1. ring \in Seq(Message)
    BY DEF DataTypes
  <2> QED
    BY <2>1, TailParts
<1>2. \A i \in 1..(Len(ring) - 1) : i \in Nat \ {0} /\ i + 1 \in 1..Len(ring)
  BY <1>1
<1> QED
  BY <1>1, <1>2 DEF Pending

LEMMA IsAppend ==
    ASSUME NEW S, NEW s \in Seq(S), NEW x \in S, NEW t \in Seq(S),
           Len(t) = Len(s) + 1, t[Len(s) + 1] = x, \A i \in 1..Len(s) : t[i] = s[i]
    PROVE  Append(s, x) = t
OBVIOUS

LEMMA ShortSeqs ==
    ASSUME NEW S, NEW x \in S, NEW y \in S, NEW none, none = <<>>
    PROVE  /\ Append(none, x) = <<x>> /\ Append(<<x>>, y) = <<x, y>>
           /\ none # <<x>> /\ none # <<x, y>>
<1>1. PICK one, two : one = <<x>> /\ two = <<x, y>>
  OBVIOUS
<1>2. /\ none \in Seq(S) /\ Len(none) = 0 /\ one \in Seq(S) /\ Len(one) = 1 /\ one[1] = x
      /\ two \in Seq(S) /\ Len(two) = 2 /\ two[1] = x /\ two[2] = y
  BY <1>1
<1>3. Append(none, x) = one /\ Append(one, y) = two /\ none # one /\ none # two
  BY <1>2, IsAppend
<1> QED
  BY <1>1, <1>3

LEMMA Sayings ==
    /\ Append(<<>>, "real") = <<"real">> /\ Append(<<>>, "made up") = <<"made up">>
    /\ Append(<<"made up">>, "real") = <<"made up", "real">>
    /\ <<>> # <<"made up">> /\ <<"made up", "real">> # <<>> /\ <<"real">> # <<>>
<1>1. "real" \in {"real", "made up"} /\ "made up" \in {"real", "made up"}
  OBVIOUS
<1> QED
  BY <1>1, ShortSeqs

LEMMA TokenStep ==
    ASSUME ControlTypes, DataTypes, DispatchInv, FlushInv, PcpsInv, RingInv,
           TokenInv, ItemInv, [Next]_vars
    PROVE  TokenInv'
<1>0. /\ said \in [Req -> Seq({"real", "made up"})] /\ held \subseteq Req /\ sent \subseteq Req
      /\ MDR_Cache \in [Slot -> Entry]
  BY DEF DataTypes
<1>1. CASE CallbackReturn
  <2>1. UNCHANGED <<held, sent, said>>
    BY <1>1 DEF CallbackReturn, chip, history
  <2>2. PICK c \in Call :
          /\ c = Head(Rest)
          /\ \/ c.op = "dispatch" /\ ring' = Tail(ring)
             \/ c.op = "flush" /\ UNCHANGED ring
    BY <1>1, CallbackReturnMoves
  <2>3. /\ c.op = "dispatch" => Handling(stack) # {} /\ Handling(stack') = {}
        /\ c.op = "flush" => Handling(stack') = Handling(stack)
    BY <1>1, <2>2, HandlingEnds
  <2>4. CASE c.op = "flush" /\ UNCHANGED ring
    BY <2>1, <2>3, <2>4, TokenSame
  <2>5. CASE c.op = "dispatch" /\ ring' = Tail(ring)
    <3>1. ring # <<>>
      BY <2>3, <2>5 DEF RingInv
    <3>2. ASSUME NEW r \in Req
          PROVE  \A i \in Pending(r)' : i \in Nat \ {0} /\ i + 1 \in Pending(r)
      BY <2>5, <3>1, OneLess
    <3>3. ASSUME NEW r \in Req, NEW i \in Pending(r)' PROVE Unsaid(r) /\ Pending(r) # {}
      <4>1. i + 1 \in Pending(r) /\ i + 1 # 1
        BY <3>2, <3>3
      <4> QED
        BY <4>1 DEF TokenInv
    <3>4. ASSUME NEW r \in Req PROVE OneOf(Pending(r)')
      <4> SUFFICES ASSUME NEW i \in Pending(r)', NEW j \in Pending(r)' PROVE i = j
        BY DEF OneOf
      <4>1. i \in Nat /\ j \in Nat /\ i + 1 \in Pending(r) /\ j + 1 \in Pending(r)
        BY <3>2
      <4>2. i + 1 = j + 1
        BY <4>1 DEF TokenInv, OneOf
      <4> QED
        BY <4>1, <4>2
    <3>5. ASSUME NEW r \in Req
          PROVE  /\ r \in held' \/ Pending(r)' # {} \/ said'[r] # <<>> => r \in sent'
                 /\ r \in held' => Pending(r)' = {} /\ Unsaid(r)'
                 /\ OneOf(Pending(r)')
                 /\ \A i \in Pending(r)' : Unsaid(r)'
                 /\ said'[r] \in {<<>>, <<"real">>, <<"made up">>, <<"made up", "real">>}
      <4>1. Unsaid(r)' = Unsaid(r)
        BY <2>1 DEF Unsaid
      <4> QED
        BY <2>1, <3>3, <3>4, <4>1 DEF TokenInv
    <3> QED
      BY <3>5 DEF TokenInv
  <2> QED
    BY <2>2, <2>4, <2>5
<1>2. CASE ~CallbackReturn
  <2>1. Handling(stack) # {} => Handling(stack') # {}
    BY <1>2, HandlingBegins, HandlingElse
  <2>2. CASE FlushEnd
    <3>1. UNCHANGED <<ring, sent, said>> /\ held' \subseteq held
      BY <2>2 DEF FlushEnd
    <3> QED
      BY <2>1, <3>1, TokenSame
  <2>3. CASE PurgeConfirm
    <3>1. UNCHANGED <<ring, held, sent>>
      BY <2>3 DEF PurgeConfirm, chip
    <3>2. PICK k \in ActiveSlots :
            /\ said' = [said EXCEPT ![MDR_Cache[k].req] = Append(@, "made up")]
            /\ ~Giving(stack, k)
      BY <2>3, FlushAdvances
    <3>3. PICK q \in Req : q = MDR_Cache[k].req
      BY <1>0, EntryFields DEF ActiveSlots
    <3>4. said[q] = <<>> /\ q \in sent
      BY <3>2, <3>3 DEF ItemInv
    <3>5. said'[q] = <<"made up">> /\ \A r \in Req : r # q => said'[r] = said[r]
      BY <1>0, <3>2, <3>3, <3>4, Sayings
    <3>6. \A r : Pending(r)' = Pending(r)
      BY <3>1 DEF Pending
    <3>7. ASSUME NEW r \in Req PROVE said'[r] = said[r] \/ (r = q /\ Unsaid(r) /\ Unsaid(r)')
      BY <3>4, <3>5 DEF Unsaid
    <3>8. ASSUME NEW r \in Req PROVE Unsaid(r) => Unsaid(r)'
      BY <3>7 DEF Unsaid
    <3> QED
      BY <2>1, <3>1, <3>4, <3>5, <3>6, <3>8 DEF TokenInv
  <2>4. ASSUME NEW r \in Req, Sends(r) PROVE TokenInv'
    <3>1. /\ r \notin sent /\ sent' = sent \cup {r} /\ held' = held \cup {r}
          /\ UNCHANGED <<said, ring>>
      BY <2>4 DEF Sends, SendAndCache
    <3>2. \A q : Pending(q)' = Pending(q) /\ (Unsaid(q)' <=> Unsaid(q))
      BY <3>1 DEF Pending, Unsaid
    <3>3. Pending(r) = {} /\ said[r] = <<>>
      BY <3>1 DEF TokenInv
    <3>4. Unsaid(r)
      BY <3>3 DEF Unsaid
    <3> QED
      BY <2>1, <3>1, <3>2, <3>3, <3>4 DEF TokenInv
  <2>5. ASSUME NEW r \in Req, Purges(r) PROVE TokenInv'
    BY <2>1, <2>5, TokenSame DEF Purges
  <2>6. CASE Forgets
    BY <2>1, <2>6, TokenSame DEF Forgets
  <2>7. ASSUME NEW r \in Req, DispatchMessage, Confirms(r) PROVE TokenInv'
    <3>1. /\ UNCHANGED <<held, ring, sent>> /\ ring # <<>> /\ Head(ring) = Confirm(r)
          /\ said' = [said EXCEPT ![r] = Append(@, "real")]
      BY <2>7 DEF Confirms
    <3>2. Handling(stack) = {} /\ Handling(stack') # {}
      BY <2>7, HandlingBegins
    <3>3. 1 \in Pending(r)
      <4>1. 1 \in DOMAIN ring /\ ring[1] = Head(ring)
        <5>1. ring \in Seq(Message)
          BY DEF DataTypes
        <5> QED
          BY <3>1, <5>1, TailParts
      <4> QED
        BY <3>1, <4>1 DEF Pending
    <3>4. /\ Unsaid(r) /\ r \in sent /\ r \notin held
          /\ \A i \in Pending(r) : i = 1
      BY <3>2, <3>3 DEF TokenInv, OneOf
    <3>5. said'[r] \in {<<"real">>, <<"made up", "real">>}
      BY <1>0, <3>1, <3>4, Sayings DEF Unsaid
    <3>6. \A q \in Req : q # r => said'[q] = said[q]
      BY <1>0, <3>1
    <3>7. \A q \in Req : Pending(q)' = Pending(q)
      BY <3>1 DEF Pending
    <3>8. \A q \in Req : q # r => Unsaid(q)' = Unsaid(q)
      BY <3>6 DEF Unsaid
    <3>9. ASSUME NEW q \in Req
          PROVE  /\ q \in held' \/ Pending(q)' # {} \/ said'[q] # <<>> => q \in sent'
                 /\ q \in held' => Pending(q)' = {} /\ Unsaid(q)'
                 /\ OneOf(Pending(q)')
                 /\ \A i \in Pending(q)' : (i = 1 /\ Handling(stack') # {}) \/ Unsaid(q)'
                 /\ said'[q] \in {<<>>, <<"real">>, <<"made up">>, <<"made up", "real">>}
      <4>1. CASE q = r
        BY <3>1, <3>2, <3>4, <3>5, <3>7, <4>1 DEF TokenInv
      <4>2. CASE q # r
        BY <3>1, <3>2, <3>6, <3>7, <3>8, <4>2 DEF TokenInv
      <4> QED
        BY <4>1, <4>2
    <3> QED
      BY <3>9 DEF TokenInv
  <2>8. ASSUME NEW r \in held, ChipConfirms(r) PROVE TokenInv'
    <3>1. /\ held' = held \ {r} /\ ring' = Append(ring, Confirm(r))
          /\ UNCHANGED <<sent, said>>
      BY <2>8 DEF ChipConfirms, history
    <3>2. r \in Req /\ Confirm(r) \in Message
      BY <1>0 DEF Message, Confirm
    <3>3. \A q \in Req : Pending(q)' = IF q = r THEN Pending(r) \cup {Len(ring) + 1} ELSE Pending(q)
      <4>1. \A q \in Req : Confirm(r) = Confirm(q) <=> q = r
        BY DEF Confirm
      <4> QED
        BY <3>1, <3>2, <4>1, OneMore
    <3>4. Pending(r) = {} /\ Unsaid(r) /\ r \in sent
      BY <3>2 DEF TokenInv
    <3>5. Pending(r)' = {Len(ring) + 1}
      BY <3>2, <3>3, <3>4
    <3>6. \A q \in Req : Unsaid(q)' = Unsaid(q)
      BY <3>1 DEF Unsaid
    <3>7. ASSUME NEW q \in Req
          PROVE  /\ q \in held' \/ Pending(q)' # {} \/ said'[q] # <<>> => q \in sent'
                 /\ q \in held' => Pending(q)' = {} /\ Unsaid(q)'
                 /\ OneOf(Pending(q)')
                 /\ \A i \in Pending(q)' : (i = 1 /\ Handling(stack') # {}) \/ Unsaid(q)'
                 /\ said'[q] \in {<<>>, <<"real">>, <<"made up">>, <<"made up", "real">>}
      <4>1. CASE q = r
        BY <3>1, <3>4, <3>5, <3>6, <4>1 DEF TokenInv, OneOf
      <4>2. CASE q # r
        BY <2>1, <3>1, <3>3, <3>6, <4>2 DEF TokenInv
      <4> QED
        BY <4>1, <4>2
    <3> QED
      BY <3>7 DEF TokenInv
  <2>9. CASE LeavesItems /\ held' \subseteq held
    <3>1. UNCHANGED <<sent, said>>
      BY <2>9 DEF LeavesItems
    <3>2. CASE UNCHANGED ring
      BY <2>1, <2>9, <3>1, <3>2, TokenSame
    <3>3. CASE ring' \in {Append(ring, Wakeup), Append(ring, ScanDone)}
      <4>1. PICK m \in Message : ring' = Append(ring, m) /\ m.kind # "confirm"
        BY <3>3 DEF Message, Wakeup, ScanDone
      <4>2. \A q \in Req : Pending(q)' = Pending(q)
        <5>1. \A q \in Req : m # Confirm(q)
          BY <4>1 DEF Confirm
        <5> QED
          BY <4>1, <5>1, OneMore
      <4>3. \A q \in Req : Unsaid(q)' = Unsaid(q)
        BY <3>1 DEF Unsaid
      <4> QED
        BY <2>1, <2>9, <3>1, <4>2, <4>3 DEF TokenInv
    <3> QED
      BY <1>2, <2>8, <3>2, <3>3, RingMoves
  <2>10. CASE ~PurgeConfirm /\ ~FlushEnd
    <3>1. LeavesItems => TokenInv'
      BY <2>8, <2>9 DEF LeavesItems
    <3> QED
      BY <1>2, <2>4, <2>5, <2>6, <2>7, <2>10, <3>1, CacheElse
  <2> QED
    BY <2>2, <2>3, <2>10
<1> QED
  BY <1>1, <1>2

LEMMA ItemFewer ==
    ASSUME ItemInv, ActiveSlots' \subseteq ActiveSlots, sent \subseteq sent',
           \A i \in ActiveSlots' :
              /\ MDR_Cache'[i].req = MDR_Cache[i].req
              /\ said'[MDR_Cache[i].req] = said[MDR_Cache[i].req]
              /\ Giving(stack, i) => Giving(stack', i)
    PROVE  ItemInv'
<1>1. ASSUME NEW i \in ActiveSlots'
      PROVE  /\ MDR_Cache'[i].req \in sent'
             /\ \/ said'[MDR_Cache'[i].req] = <<>>
                \/ Giving(stack', i) /\ said'[MDR_Cache'[i].req] = <<"made up">>
             /\ \A j \in ActiveSlots' : MDR_Cache'[j].req = MDR_Cache'[i].req => i = j
  <2>1. /\ i \in ActiveSlots /\ MDR_Cache'[i].req = MDR_Cache[i].req
        /\ said'[MDR_Cache[i].req] = said[MDR_Cache[i].req]
        /\ Giving(stack, i) => Giving(stack', i)
    OBVIOUS
  <2>2. /\ MDR_Cache[i].req \in sent
        /\ \/ said[MDR_Cache[i].req] = <<>>
           \/ Giving(stack, i) /\ said[MDR_Cache[i].req] = <<"made up">>
        /\ \A j \in ActiveSlots : MDR_Cache[j].req = MDR_Cache[i].req => i = j
    BY <2>1 DEF ItemInv
  <2> QED
    BY <2>1, <2>2
<1> QED
  BY <1>1 DEF ItemInv

LEMMA ItemStep ==
    ASSUME ControlTypes, DataTypes, FlushInv, PcpsInv, TokenInv, ItemInv, [Next]_vars
    PROVE  ItemInv'
<1>0. said \in [Req -> Seq({"real", "made up"})] /\ MDR_Cache \in [Slot -> Entry]
  BY DEF DataTypes
<1>a. \A i \in ActiveSlots : i \in Slot /\ MDR_Cache[i].req \in Req
  BY <1>0, EntryFields DEF ActiveSlots
<1>1. ASSUME NEW r \in Req, Sends(r), SameFlush PROVE ItemInv'
  <2>1. SendAndCache(r) /\ r \notin sent /\ UNCHANGED said /\ sent' = sent \cup {r}
    BY <1>1 DEF Sends, SendAndCache
  <2>2. said[r] = <<>>
    BY <2>1 DEF TokenInv
  <2>3. CASE UNCHANGED MDR_Cache
    <3>1. ActiveSlots' = ActiveSlots
      BY <2>3 DEF ActiveSlots
    <3> QED
      BY <1>1, <2>1, <2>3, <3>1, ItemFewer DEF SameFlush
  <2>4. ASSUME NEW k \in Slot \ ActiveSlots,
               ActiveSlots' = ActiveSlots \cup {k}, MDR_Cache'[k].req = r,
               \A i \in ActiveSlots : MDR_Cache'[i] = MDR_Cache[i]
        PROVE  ItemInv'
    <3>1. \A i \in ActiveSlots : MDR_Cache[i].req # r
      BY <2>1 DEF ItemInv
    <3>2. ASSUME NEW i \in ActiveSlots'
          PROVE  /\ MDR_Cache'[i].req \in sent'
                 /\ \/ said'[MDR_Cache'[i].req] = <<>>
                    \/ Giving(stack', i) /\ said'[MDR_Cache'[i].req] = <<"made up">>
                 /\ \A j \in ActiveSlots' : MDR_Cache'[j].req = MDR_Cache'[i].req => i = j
      <4>1. CASE i = k
        BY <2>1, <2>2, <2>4, <3>1, <4>1
      <4>2. CASE i # k
        <5>1. /\ i \in ActiveSlots /\ MDR_Cache'[i] = MDR_Cache[i]
              /\ Giving(stack, i) => Giving(stack', i)
          BY <1>1, <2>4, <4>2 DEF SameFlush
        <5>2. /\ MDR_Cache[i].req \in sent /\ MDR_Cache[i].req # r
              /\ \/ said[MDR_Cache[i].req] = <<>>
                 \/ Giving(stack, i) /\ said[MDR_Cache[i].req] = <<"made up">>
              /\ \A j \in ActiveSlots : MDR_Cache[j].req = MDR_Cache[i].req => i = j
          BY <3>1, <5>1 DEF ItemInv
        <5> QED
          BY <2>1, <2>4, <5>1, <5>2
      <4> QED
        BY <4>1, <4>2
    <3> QED
      BY <3>2 DEF ItemInv
  <2> QED
    BY <2>1, <2>3, <2>4, AfterAdd
<1>2. ASSUME NEW r \in Req, Purges(r), SameFlush PROVE ItemInv'
  <2>1. /\ ActiveSlots' \subseteq ActiveSlots
        /\ \A i \in ActiveSlots' : MDR_Cache'[i].req = MDR_Cache[i].req
    BY <1>2, AfterRemove DEF Purges, ActiveSlots
  <2> QED
    BY <1>2, <2>1, ItemFewer DEF Purges, SameFlush
<1>3. ASSUME NEW r \in Req, Confirms(r), SameFlush PROVE ItemInv'
  <2>1. /\ ActiveSlots' \subseteq ActiveSlots
        /\ \A i \in ActiveSlots' : /\ MDR_Cache'[i].req = MDR_Cache[i].req
                                   /\ MDR_Cache[i].req # r
    <3>1. MDR_Cache' = CacheRemoveItem(r)
      BY <1>3 DEF Confirms
    <3>2. CASE UNCHANGED MDR_Cache /\ \A i \in ActiveSlots : MDR_Cache[i].req # r
      BY <3>2 DEF ActiveSlots
    <3>3. ASSUME NEW k \in ActiveSlots,
                 MDR_Cache[k].req = r, ActiveSlots' = ActiveSlots \ {k},
                 \A i \in ActiveSlots' : MDR_Cache'[i] = MDR_Cache[i]
          PROVE  /\ ActiveSlots' \subseteq ActiveSlots
                 /\ \A i \in ActiveSlots' : /\ MDR_Cache'[i].req = MDR_Cache[i].req
                                            /\ MDR_Cache[i].req # r
      BY <3>3 DEF ItemInv
    <3> QED
      BY <3>1, <3>2, <3>3, AfterRemove
  <2>2. \A q \in Req : q # r => said'[q] = said[q]
    BY <1>0, <1>3 DEF Confirms
  <2> QED
    BY <1>3, <1>a, <2>1, <2>2, ItemFewer DEF Confirms, SameFlush
<1>4. CASE Forgets
  <2>1. ActiveSlots' = {}
    BY <1>4 DEF Forgets, ActiveSlots, Empty
  <2> QED
    BY <2>1 DEF ItemInv
<1>5. ASSUME LeavesItems, SameFlush \/ \A i : ~Giving(stack, i) PROVE ItemInv'
  <2>1. /\ ActiveSlots' = ActiveSlots /\ UNCHANGED <<sent, said>>
        /\ \A i \in ActiveSlots : MDR_Cache'[i].req = MDR_Cache[i].req
    BY <1>5, AfterSame DEF LeavesItems
  <2> QED
    BY <1>5, <2>1, ItemFewer DEF SameFlush
<1>6. CASE DispatchEnd
  <2>1. UNCHANGED <<held, sent, excused, said>>
    BY <1>6 DEF DispatchEnd
  <2>2. SameItems(MDR_Cache, MDR_Cache')
    <3>1. UNCHANGED MDR_Cache \/ CacheDecay(MDR_Cache)
      BY <1>6 DEF DispatchEnd
    <3> QED
      BY <3>1, DecayItems DEF DataTypes, SameItems
  <2>3. LeavesItems
    BY <2>1, <2>2 DEF LeavesItems
  <2> QED
    BY <1>5, <1>6, <2>3, FlushBegins
<1>7. CASE PurgeConfirm
  <2>1. UNCHANGED <<MDR_Cache, sent>> /\ ActiveSlots' = ActiveSlots
    BY <1>7 DEF PurgeConfirm, statics, ActiveSlots
  <2>2. PICK k \in ActiveSlots :
          /\ said' = [said EXCEPT ![MDR_Cache[k].req] = Append(@, "made up")]
          /\ \A i : ~Giving(stack, i) /\ (Giving(stack', i) <=> i = k)
    BY <1>7, FlushAdvances
  <2>3. \A i \in ActiveSlots : said[MDR_Cache[i].req] = <<>>
    BY <2>2 DEF ItemInv
  <2>4. \A i \in ActiveSlots : said'[MDR_Cache[i].req] = IF i = k THEN <<"made up">> ELSE <<>>
    <3>1. \A i \in ActiveSlots : MDR_Cache[i].req = MDR_Cache[k].req => i = k
      BY DEF ItemInv
    <3>2. Append(<<>>, "made up") = <<"made up">>
      BY Sayings
    <3> QED
      BY <1>0, <1>a, <2>2, <2>3, <3>1, <3>2
  <2> QED
    BY <2>1, <2>2, <2>4 DEF ItemInv
<1>8. CASE CallbackReturn
  <2>1. UNCHANGED <<sent, said>>
    BY <1>8 DEF CallbackReturn, history
  <2>2. CASE SameFlush /\ UNCHANGED MDR_Cache
    <3>1. ActiveSlots' = ActiveSlots
      BY <2>2 DEF ActiveSlots
    <3> QED
      BY <2>1, <2>2, <3>1, ItemFewer DEF SameFlush
  <2>3. ASSUME NEW k \in Nat, \A i : Giving(stack, i) <=> i = k,
               MDR_Cache' = [MDR_Cache EXCEPT ![k] = Empty]
        PROVE  ItemInv'
    <3>1. /\ ActiveSlots' = ActiveSlots \ {k}
          /\ \A i \in ActiveSlots' : MDR_Cache'[i] = MDR_Cache[i]
      BY <2>3, AfterEmptied
    <3> QED
      BY <2>1, <2>3, <3>1, ItemFewer
  <2> QED
    BY <1>8, <2>2, <2>3, FlushGoesOn
<1>9. CASE FlushEnd
  <2>1. UNCHANGED <<sent, said>>
    BY <1>9 DEF FlushEnd
  <2> QED
    BY <1>9, <2>1, AfterFlush, FlushEnds, ItemFewer
<1>10. CASE ~CallbackReturn /\ ~DispatchEnd /\ ~PurgeConfirm /\ ~FlushEnd
  <2>1. SameFlush
    BY <1>10, FlushElse
  <2> QED
    BY <1>1, <1>2, <1>3, <1>4, <1>5, <1>10, <2>1, CacheElse
<1> QED
  BY <1>6, <1>7, <1>8, <1>9, <1>10

----------------------------------------------------------------------------
(* The theorems about requests and their confirms.                         *)

CacheAll ==
    /\ ControlTypes /\ DataTypes
    /\ DispatchInv /\ RingInv /\ FlushInv /\ PcpsInv
    /\ TokenInv /\ ItemInv /\ RememberInv

LEMMA InitCache ==
    ASSUME Init
    PROVE  CacheAll
<1>1. ControlTypes /\ DataTypes /\ DispatchInv /\ RingInv
  BY InitWaiting DEF WaitingInv
<1>2. Calls(stack, "flush") = {} /\ Calls(stack, "pcps") = {}
  BY InitCalls
<1>3. FlushInv /\ PcpsInv
  BY <1>2 DEF Init, FlushInv, PcpsInv, OneOf
<1>4. ActiveSlots = {}
  BY DEF Init, ActiveSlots, Empty
<1>5. /\ sent = {} /\ held = {} /\ \A r \in Req : Pending(r) = {} /\ said[r] = <<>>
  BY DEF Init, Pending
<1>6. TokenInv
  BY <1>5 DEF TokenInv, OneOf
<1>7. ItemInv
  BY <1>4 DEF ItemInv
<1>8. RememberInv
  BY <1>2, <1>4, <1>5 DEF RememberInv
<1> QED
  BY <1>1, <1>3, <1>6, <1>7, <1>8 DEF CacheAll

LEMMA CacheAlways == Spec => []CacheAll
<1>1. Init => CacheAll
  BY InitCache
<1>2. CacheAll /\ [Next]_vars => CacheAll'
  BY ControlTypesStep, DataStep, DispatchStep, RingStep, FlushStep, PcpsStep,
     TokenStep, ItemStep, RememberStep DEF CacheAll
<1> QED
  BY <1>1, <1>2, PTL DEF Spec

\* A request has at most one confirm of the chip and one made up for it, and
\* the one made up comes first: the loop over the cache, which is left and
\* entered again between its rounds, gives none twice, and none to a request
\* whose confirm has been passed on.
THEOREM ConfirmsAreUnique == Spec => []ConfirmedOnce
<1>1. CacheAll => ConfirmedOnce
  BY DEF CacheAll, TokenInv, ConfirmedOnce
<1> QED
  BY <1>1, CacheAlways, PTL

\* A request that has had no confirm is in the cache, where its time runs
\* out, unless it is excused: the cache was full, the request was purged, the
\* chip was reset, or a callback sent it while the loop was past its slot.
THEOREM RequestsAreRemembered == Spec => []NoRequestForgotten
<1>1. CacheAll => NoRequestForgotten
  BY DEF CacheAll, RememberInv, NoRequestForgotten
<1> QED
  BY <1>1, CacheAlways, PTL

=============================================================================
