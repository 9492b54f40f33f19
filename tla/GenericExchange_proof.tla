----------------------- MODULE GenericExchange_proof -----------------------
(***************************************************************************)
(* Proofs about GenericExchange for every set of devices and threads: its  *)
(* types; that a synchronous call gets its own answer, because a device    *)
(* has at most one synchronous message until a call on it times out; that  *)
(* the commands of each thread are executed in order, synchronous calls    *)
(* being barriers; and, for an application with one controlling thread,    *)
(* that the callbacks never run twice at a time, that no worker outlives   *)
(* the call that stops it, and that the callbacks get every indication     *)
(* once and in order.                                                      *)
(***************************************************************************)
EXTENDS GenericExchange, TLAPS

----------------------------------------------------------------------------
(* Types.                                                                  *)

LEMMA SequenceTypes ==
    \A S : \A q \in Seq(S) :
        /\ <<>> \in Seq(S)
        /\ \A m \in S : Append(q, m) \in Seq(S)
        /\ q # <<>> => Head(q) \in S /\ Tail(q) \in Seq(S)
  OBVIOUS

LEMMA MessageTypes ==
    /\ \A a \in Actor, d \in Dev, n \in Nat :
           /\ Msg("sync", d, a, n) \in Command
           /\ Msg("async", d, a, n) \in Command
    /\ \A d \in Dev, n \in Nat : Msg("ind", d, None, n) \in Indication
    /\ \A c \in Command : c.dev \in Dev /\ Confirm(c) \in Answer
    /\ \A m \in Answer \cup Indication : IF IsSync(m) THEN m \in Answer ELSE m \in Indication
    /\ \A m \in Indication : m.dev \in Dev /\ m.n \in Nat /\ m # Wake
  BY DEF Wake, Command, Answer, Indication, IsSync, Msg, Confirm

\* A part of the state that a step leaves alone keeps its types.
LEMMA PartsUnchanged ==
    /\ StaticsOK /\ UNCHANGED statics => StaticsOK'
    /\ QueuesOK /\ UNCHANGED queues => QueuesOK'
    /\ DeviceOK /\ UNCHANGED device => DeviceOK'
    /\ ControlOK /\ UNCHANGED control => ControlOK'
    /\ CallerOK /\ UNCHANGED caller => CallerOK'
    /\ ChipOK /\ UNCHANGED chip => ChipOK'
    /\ HistoryOK /\ UNCHANGED history => HistoryOK'
<1>1. StaticsOK /\ UNCHANGED statics => StaticsOK'
  BY DEF StaticsOK, statics
<1>2. QueuesOK /\ UNCHANGED queues => QueuesOK'
  BY DEF QueuesOK, queues
<1>3. DeviceOK /\ UNCHANGED device => DeviceOK'
  BY DEF DeviceOK, device
<1>4. ControlOK /\ UNCHANGED control => ControlOK'
  BY DEF ControlOK, control
<1>5. CallerOK /\ UNCHANGED caller => CallerOK'
  BY DEF CallerOK, caller
<1>6. ChipOK /\ UNCHANGED chip => ChipOK'
  BY DEF ChipOK, chip
<1>7. HistoryOK /\ UNCHANGED history => HistoryOK'
  BY DEF HistoryOK, history
<1> QED BY <1>1, <1>2, <1>3, <1>4, <1>5, <1>6, <1>7

LEMMA DispatchTypes ==
    ASSUME TypeOK, NEW a \in Actor, NEW back \in {"idle", "check"}, Dispatch(a, back)
    PROVE  TypeOK'
<1> USE DEF TypeOK
<1>1. QueuesOK'
  BY SequenceTypes DEF Dispatch, QueuesOK
<1>2. upstream # <<>> /\ (Head(upstream) # Wake => Head(upstream) \in Indication)
  BY SequenceTypes DEF Dispatch, QueuesOK
<1>3. ControlOK'
  <2>1. CASE Head(upstream) = Wake
    <3>1. at' = [at EXCEPT ![a] = back] /\ UNCHANGED <<hand, closing, controls>>
      BY <2>1 DEF Dispatch, Goto
    <3> QED BY <3>1 DEF ControlOK, AtPcs
  <2>2. CASE Head(upstream) # Wake
    <3>1. /\ at' = [at EXCEPT ![a] = "callback"]
          /\ hand' = [hand EXCEPT ![a] = Head(upstream)]
          /\ UNCHANGED <<closing, controls>>
      BY <2>2 DEF Dispatch, Goto
    <3>2. Head(upstream) \in Indication
      BY <1>2, <2>2
    <3> QED BY <3>1, <3>2 DEF ControlOK, AtPcs
  <2> QED BY <2>1, <2>2
<1>4. StaticsOK' /\ DeviceOK' /\ CallerOK' /\ ChipOK' /\ HistoryOK'
  BY PartsUnchanged DEF Dispatch
<1> QED BY <1>1, <1>3, <1>4

LEMMA SendAsyncTypes ==
    ASSUME TypeOK, NEW a \in Actor, NEW d \in Dev, SendAsync(a, d)
    PROVE  TypeOK'
<1> USE DEF TypeOK
<1>1. NewCommand("async", a, d) \in Command
  BY MessageTypes DEF NewCommand, CallerOK
<1>2. QueuesOK'
  BY <1>1, SequenceTypes DEF SendAsync, AddTo, QueuesOK
<1>3. CallerOK'
  BY DEF SendAsync, CallerOK
<1>4. StaticsOK' /\ DeviceOK' /\ ControlOK' /\ ChipOK' /\ HistoryOK'
  BY PartsUnchanged DEF SendAsync
<1> QED BY <1>2, <1>3, <1>4

LEMMA TypeInit == Init => TypeOK
<1> SUFFICES ASSUME Init PROVE TypeOK
  OBVIOUS
<1>1. StaticsOK
  <2>1. generic_initialised = 0 /\ ud_run_flag = FALSE /\ ud_thread = None
    BY DEF Init
  <2>2. generic_initialised \in Int /\ ud_thread \in Worker \cup {None}
    BY <2>1
  <2>3. ud_run_flag \in BOOLEAN
    BY <2>1, Zenon
  <2> QED BY <2>2, <2>3, Zenon DEF StaticsOK
<1>2. QueuesOK
  BY DEF Init, QueuesOK
<1>3. DeviceOK
  BY DEF Init, DeviceOK
<1>4. ChipOK
  BY DEF Init, ChipOK
<1>5. HistoryOK
  BY DEF Init, HistoryOK
<1>6. ControlOK
  BY DEF Init, ControlOK, AtPcs, Actor
<1>7. CallerOK
  BY DEF Init, CallerOK, CallPcs, NoCall, NoResult
<1> QED BY <1>1, <1>2, <1>3, <1>4, <1>5, <1>6, <1>7 DEF TypeOK

\* Every action keeps the types of the exchange's state.
LEMMA TypeStep == ASSUME TypeOK, [Next]_vars PROVE TypeOK'
<1> USE DEF TypeOK, CallPcs, AtPcs
<1>1. ASSUME NEW a \in Actor, NEW d \in Dev, ExchangeAsync(a, d) PROVE TypeOK'
  BY <1>1, SendAsyncTypes DEF ExchangeAsync
<1>2. ASSUME NEW a \in Actor, NEW d \in Dev, UserCommand(a, d) PROVE TypeOK'
  BY <1>2, SendAsyncTypes DEF UserCommand
<1>3. ASSUME NEW a \in Actor, NEW d \in Dev, SyncBegin(a, d) PROVE TypeOK'
  <2>1. CallerOK'
    BY <1>3, MessageTypes DEF SyncBegin, NewCommand, CallerOK
  <2>2. StaticsOK' /\ QueuesOK' /\ DeviceOK' /\ ControlOK' /\ ChipOK' /\ HistoryOK'
    BY <1>3, PartsUnchanged DEF SyncBegin
  <2> QED BY <2>1, <2>2
<1>4. ASSUME NEW a \in Actor, SyncSend(a) PROVE TypeOK'
  <2>1. QueuesOK'
    BY <1>4, SequenceTypes DEF SyncSend, CallAt, LockSync, AddTo, QueuesOK, CallerOK
  <2>2. DeviceOK'
    BY <1>4 DEF SyncSend, CallAt, LockSync, AddTo, DeviceOK, CallerOK
  <2>3. CallerOK'
    BY <1>4 DEF SyncSend, CallAt, LockSync, AddTo, CallerOK
  <2>4. StaticsOK' /\ ControlOK' /\ ChipOK' /\ HistoryOK'
    BY <1>4, PartsUnchanged DEF SyncSend
  <2> QED BY <2>1, <2>2, <2>3, <2>4
<1>5. ASSUME NEW a \in Actor, SyncDrained(a) PROVE TypeOK'
  <2>1. CallerOK'
    BY <1>5 DEF SyncDrained, CallAt, CallerOK
  <2>2. StaticsOK' /\ QueuesOK' /\ DeviceOK' /\ ControlOK' /\ ChipOK' /\ HistoryOK'
    BY <1>5, PartsUnchanged DEF SyncDrained
  <2> QED BY <2>1, <2>2
<1>6. ASSUME NEW a \in Actor, SyncAnswered(a) PROVE TypeOK'
  <2>1. CallerOK'
    BY <1>6 DEF SyncAnswered, CallAt, CallerOK
  <2>2. StaticsOK' /\ QueuesOK' /\ DeviceOK' /\ ControlOK' /\ ChipOK' /\ HistoryOK'
    BY <1>6, PartsUnchanged DEF SyncAnswered
  <2> QED BY <2>1, <2>2
<1>7. ASSUME NEW a \in Actor, SyncTimeout(a) PROVE TypeOK'
  <2>1. CallerOK'
    BY <1>7 DEF SyncTimeout, CallAt, CallerOK
  <2>2. HistoryOK'
    BY <1>7 DEF SyncTimeout, CallAt, HistoryOK
  <2>3. StaticsOK' /\ QueuesOK' /\ DeviceOK' /\ ControlOK' /\ ChipOK'
    BY <1>7, PartsUnchanged DEF SyncTimeout
  <2> QED BY <2>1, <2>2, <2>3
<1>8. ASSUME NEW a \in Actor, SyncReturn(a) PROVE TypeOK'
  <2>1. QueuesOK'
    BY <1>8, SequenceTypes, MessageTypes DEF SyncReturn, PopAnswer, UnlockSync,
       NoCall, QueuesOK, CallerOK
  <2>2. DeviceOK'
    BY <1>8, MessageTypes DEF SyncReturn, PopAnswer, UnlockSync, NoCall, DeviceOK,
       CallerOK
  <2>3. CallerOK'
    BY <1>8, SequenceTypes, MessageTypes DEF SyncReturn, PopAnswer, UnlockSync,
       NoCall, CallerOK, QueuesOK
  <2>4. StaticsOK' /\ ControlOK' /\ ChipOK' /\ HistoryOK'
    BY <1>8, PartsUnchanged DEF SyncReturn
  <2> QED BY <2>1, <2>2, <2>3, <2>4
<1>9. ASSUME NEW a \in Actor, CallbackReturn(a) PROVE TypeOK'
  <2>1. ControlOK'
    BY <1>9 DEF CallbackReturn, Goto, AfterCallback, ControlOK
  <2>2. HistoryOK'
    BY <1>9, MessageTypes DEF CallbackReturn, Goto, AfterCallback, HistoryOK,
       ControlOK
  <2>3. StaticsOK' /\ QueuesOK' /\ DeviceOK' /\ CallerOK' /\ ChipOK'
    BY <1>9, PartsUnchanged DEF CallbackReturn
  <2> QED BY <2>1, <2>2, <2>3
<1>10. ASSUME NEW t \in Thread, PollBegin(t) PROVE TypeOK'
  <2>1. StaticsOK'
    BY <1>10 DEF PollBegin, MayControl, Move, GotoSetting, Goto, Actor, StaticsOK
  <2>2. ControlOK'
    BY <1>10 DEF PollBegin, MayControl, Move, GotoSetting, Goto, Actor, ControlOK
  <2>3. QueuesOK' /\ DeviceOK' /\ CallerOK' /\ ChipOK' /\ HistoryOK'
    BY <1>10, PartsUnchanged DEF PollBegin, Move, GotoSetting
  <2> QED BY <2>1, <2>2, <2>3
<1>11. ASSUME NEW t \in Thread, StartBegin(t) PROVE TypeOK'
  <2>1. StaticsOK'
    BY <1>11 DEF StartBegin, MayControl, Move, GotoSetting, Goto, Actor, StaticsOK
  <2>2. ControlOK'
    BY <1>11 DEF StartBegin, MayControl, Move, GotoSetting, Goto, Actor, ControlOK
  <2>3. QueuesOK' /\ DeviceOK' /\ CallerOK' /\ ChipOK' /\ HistoryOK'
    BY <1>11, PartsUnchanged DEF StartBegin, Move, GotoSetting
  <2> QED BY <2>1, <2>2, <2>3
<1>12. ASSUME NEW t \in Thread, StopBegin(t) PROVE TypeOK'
  <2>1. StaticsOK'
    BY <1>12 DEF StopBegin, MayControl, Move, GotoSetting, Goto, Actor, StaticsOK
  <2>2. ControlOK'
    BY <1>12 DEF StopBegin, MayControl, Move, GotoSetting, Goto, Actor, ControlOK
  <2>3. QueuesOK' /\ DeviceOK' /\ CallerOK' /\ ChipOK' /\ HistoryOK'
    BY <1>12, PartsUnchanged DEF StopBegin, Move, GotoSetting
  <2> QED BY <2>1, <2>2, <2>3
<1>13. ASSUME NEW t \in Thread, NEW d \in Dev, Open(t, d) PROVE TypeOK'
  <2>1. StaticsOK'
    BY <1>13 DEF Open, MayControl, Actor, StaticsOK
  <2>2. QueuesOK'
    BY <1>13 DEF Open, MayControl, Actor, QueuesOK
  <2>3. DeviceOK'
    BY <1>13 DEF Open, MayControl, Actor, DeviceOK
  <2>4. ControlOK'
    BY <1>13 DEF Open, MayControl, Actor, ControlOK
  <2>5. ChipOK'
    BY <1>13 DEF Open, MayControl, Actor, ChipOK
  <2>6. CallerOK' /\ HistoryOK'
    BY <1>13, PartsUnchanged DEF Open
  <2> QED BY <2>1, <2>2, <2>3, <2>4, <2>5, <2>6
<1>14. ASSUME NEW t \in Thread, NEW d \in Dev, CloseBegin(t, d) PROVE TypeOK'
  <2>1. DeviceOK'
    BY <1>14 DEF CloseBegin, MayControl, StopIo, Goto, Actor, DeviceOK
  <2>2. ControlOK'
    BY <1>14 DEF CloseBegin, MayControl, StopIo, Goto, Actor, ControlOK
  <2>3. StaticsOK' /\ QueuesOK' /\ CallerOK' /\ ChipOK' /\ HistoryOK'
    BY <1>14, PartsUnchanged DEF CloseBegin
  <2> QED BY <2>1, <2>2, <2>3
<1>15. ASSUME NEW t \in Thread, PollNotFound(t) PROVE TypeOK'
  <2>1. CASE Dispatch(t, "idle")
    BY <2>1, DispatchTypes DEF Actor
  <2>2. CASE Move(t, "idle") /\ UNCHANGED controls
    <3>1. StaticsOK' /\ ControlOK'
      BY <2>2 DEF Move, GotoSetting, Goto, Actor, StaticsOK, ControlOK
    <3>2. QueuesOK' /\ DeviceOK' /\ CallerOK' /\ ChipOK' /\ HistoryOK'
      BY <2>2, PartsUnchanged DEF Move, GotoSetting
    <3> QED BY <3>1, <3>2
  <2> QED BY <1>15, <2>1, <2>2 DEF PollNotFound
<1>16. ASSUME NEW t \in Thread, PollDispatch(t) PROVE TypeOK'
  BY <1>16, DispatchTypes DEF PollDispatch, Actor
<1>17. ASSUME NEW t \in Thread, StartSetFlag(t) PROVE TypeOK'
  <2>1. StaticsOK'
    BY <1>17 DEF StartSetFlag, GotoSetting, Goto, Actor, StaticsOK
  <2>2. ControlOK'
    BY <1>17 DEF StartSetFlag, GotoSetting, Goto, Actor, ControlOK
  <2>3. QueuesOK' /\ DeviceOK' /\ CallerOK' /\ ChipOK' /\ HistoryOK'
    BY <1>17, PartsUnchanged DEF StartSetFlag, GotoSetting
  <2> QED BY <2>1, <2>2, <2>3
<1>18. ASSUME NEW t \in Thread, StartCreate(t) PROVE TypeOK'
  <2>1. PICK w \in Worker : ud_thread' = w /\ at' = [at EXCEPT ![t] = "idle", ![w] = "check"]
    BY <1>18 DEF StartCreate
  <2>2. StaticsOK' /\ ControlOK'
    BY <1>18, <2>1 DEF StartCreate, StaticsOK, ControlOK, Actor
  <2>3. QueuesOK' /\ DeviceOK' /\ CallerOK' /\ ChipOK' /\ HistoryOK'
    BY <1>18, PartsUnchanged DEF StartCreate
  <2> QED BY <2>2, <2>3
<1>19. ASSUME NEW t \in Thread, StartFail(t) PROVE TypeOK'
  <2>1. StaticsOK'
    BY <1>19 DEF StartFail, Move, GotoSetting, Goto, Actor, StaticsOK
  <2>2. ControlOK'
    BY <1>19 DEF StartFail, Move, GotoSetting, Goto, Actor, ControlOK
  <2>3. QueuesOK' /\ DeviceOK' /\ CallerOK' /\ ChipOK' /\ HistoryOK'
    BY <1>19, PartsUnchanged DEF StartFail, Move, GotoSetting
  <2> QED BY <2>1, <2>2, <2>3
<1>20. ASSUME NEW t \in Thread, StopCheck(t) PROVE TypeOK'
  <2>1. StaticsOK'
    BY <1>20 DEF StopCheck, AfterStop, Move, GotoSetting, Goto, Actor, StaticsOK
  <2>2. ControlOK'
    BY <1>20 DEF StopCheck, AfterStop, Move, GotoSetting, Goto, Actor, ControlOK
  <2>3. QueuesOK' /\ DeviceOK' /\ CallerOK' /\ ChipOK' /\ HistoryOK'
    BY <1>20, PartsUnchanged DEF StopCheck, Move, GotoSetting
  <2> QED BY <2>1, <2>2, <2>3
<1>21. ASSUME NEW t \in Thread, StopClearFlag(t) PROVE TypeOK'
  <2>1. StaticsOK'
    BY <1>21 DEF StopClearFlag, GotoSetting, Goto, Actor, StaticsOK
  <2>2. ControlOK'
    BY <1>21 DEF StopClearFlag, GotoSetting, Goto, Actor, ControlOK
  <2>3. QueuesOK' /\ DeviceOK' /\ CallerOK' /\ ChipOK' /\ HistoryOK'
    BY <1>21, PartsUnchanged DEF StopClearFlag, GotoSetting
  <2> QED BY <2>1, <2>2, <2>3
<1>22. ASSUME NEW t \in Thread, StopWake(t) PROVE TypeOK'
  <2>1. QueuesOK'
    BY <1>22, SequenceTypes DEF StopWake, QueueWake, AddUpstream, Goto, Actor,
       QueuesOK
  <2>2. ControlOK'
    BY <1>22 DEF StopWake, QueueWake, AddUpstream, Goto, Actor, ControlOK
  <2>3. StaticsOK' /\ DeviceOK' /\ CallerOK' /\ ChipOK' /\ HistoryOK'
    BY <1>22, PartsUnchanged DEF StopWake
  <2> QED BY <2>1, <2>2, <2>3
<1>23. ASSUME NEW t \in Thread, StopJoin(t) PROVE TypeOK'
  <2>1. ControlOK'
    BY <1>23 DEF StopJoin, Join, AfterStop, Actor, ControlOK, StaticsOK
  <2>2. StaticsOK' /\ QueuesOK' /\ DeviceOK' /\ CallerOK' /\ ChipOK' /\ HistoryOK'
    BY <1>23, PartsUnchanged DEF StopJoin
  <2> QED BY <2>1, <2>2
<1>24. ASSUME NEW t \in Thread, CloseJoin(t) PROVE TypeOK'
  <2>1. closing[t] \in Dev
    BY <1>24 DEF CloseJoin, ControlOK
  <2>2. StaticsOK' /\ QueuesOK'
    BY <1>24, <2>1, SequenceTypes DEF CloseJoin, StaticsOK, QueuesOK
  <2>3. DeviceOK' /\ ControlOK'
    <3>1. /\ io' = [io EXCEPT ![closing[t]] = "none"]
          /\ UNCHANGED <<sync_mutex, io_thread_runflag, writing, opens, hand, controls>>
      BY <1>24 DEF CloseJoin
    <3>2. CASE CloseEnd(t)
      BY <2>1, <3>1, <3>2 DEF CloseEnd, Goto, Actor, DeviceOK, ControlOK
    <3>3. CASE Goto(t, "stop") /\ UNCHANGED <<status, closing>>
      BY <2>1, <3>1, <3>3 DEF Goto, Actor, DeviceOK, ControlOK
    <3> QED BY <1>24, <3>2, <3>3 DEF CloseJoin
  <2>4. CallerOK' /\ ChipOK' /\ HistoryOK'
    BY <1>24, PartsUnchanged DEF CloseJoin
  <2> QED BY <2>2, <2>3, <2>4
<1>25. ASSUME NEW t \in Thread, CloseFlush(t) PROVE TypeOK'
  <2>1. /\ UNCHANGED <<out_queue, in_queue, sync_mutex, io_thread_runflag, io, writing,
                      opens, hand, controls>>
        /\ \/ upstream # <<>> /\ upstream' = Tail(upstream) /\ UNCHANGED <<at, status, closing>>
           \/ CloseEnd(t) /\ UNCHANGED upstream
    BY <1>25 DEF CloseFlush
  <2>2. QueuesOK'
    BY <2>1, SequenceTypes DEF QueuesOK
  <2>3. closing[t] \in Dev
    BY <1>25 DEF CloseFlush, ControlOK
  <2>4. DeviceOK' /\ ControlOK'
    BY <2>1, <2>3 DEF CloseEnd, Goto, Actor, DeviceOK, ControlOK
  <2>5. StaticsOK' /\ CallerOK' /\ ChipOK' /\ HistoryOK'
    BY <1>25, PartsUnchanged DEF CloseFlush
  <2> QED BY <2>2, <2>4, <2>5
<1>26. ASSUME NEW w \in Worker, WorkerCheck(w) PROVE TypeOK'
  <2>1. StaticsOK'
    BY <1>26 DEF WorkerCheck, Move, GotoSetting, Goto, Actor, StaticsOK
  <2>2. ControlOK'
    BY <1>26 DEF WorkerCheck, Move, GotoSetting, Goto, Actor, ControlOK
  <2>3. QueuesOK' /\ DeviceOK' /\ CallerOK' /\ ChipOK' /\ HistoryOK'
    BY <1>26, PartsUnchanged DEF WorkerCheck, Move, GotoSetting
  <2> QED BY <2>1, <2>2, <2>3
<1>27. ASSUME NEW w \in Worker, WorkerDispatch(w) PROVE TypeOK'
  BY <1>27, DispatchTypes DEF WorkerDispatch, Actor
<1>28. ASSUME NEW d \in Dev, IoFlush(d) PROVE TypeOK'
  <2>1. DeviceOK'
    BY <1>28 DEF IoFlush, DeviceOK
  <2>2. ChipOK'
    BY <1>28, SequenceTypes DEF IoFlush, ChipOK
  <2>3. HistoryOK'
    BY <1>28 DEF IoFlush, HistoryOK, ChipOK
  <2>4. StaticsOK' /\ QueuesOK' /\ ControlOK' /\ CallerOK'
    BY <1>28, PartsUnchanged DEF IoFlush
  <2> QED BY <2>1, <2>2, <2>3, <2>4
<1>29. ASSUME NEW d \in Dev, IoRead(d) PROVE TypeOK'
  <2> DEFINE m == Head(fromChip[d])
  <2>1. /\ m \in Answer \cup Indication
        /\ Tail(fromChip[d]) \in Seq(Answer \cup Indication)
    BY <1>29, SequenceTypes DEF IoRead, ChipOK
  <2>2. QueuesOK'
    <3>1. CASE IsSync(m)
      <4>1. in_queue' = [in_queue EXCEPT ![d] = Append(@, m)] /\ UNCHANGED <<upstream, out_queue>>
        BY <1>29, <3>1 DEF IoRead, AddTo
      <4>2. m \in Answer
        BY <2>1, <3>1, MessageTypes
      <4> QED BY <4>1, <4>2, SequenceTypes DEF QueuesOK
    <3>2. CASE ~IsSync(m)
      <4>1. upstream' = Append(upstream, m) /\ UNCHANGED <<in_queue, out_queue>>
        BY <1>29, <3>2 DEF IoRead, AddUpstream
      <4>2. m \in Indication
        BY <2>1, <3>2, MessageTypes
      <4> QED BY <4>1, <4>2, SequenceTypes DEF QueuesOK
    <3> QED BY <3>1, <3>2
  <2>3. ChipOK'
    BY <1>29, <2>1 DEF IoRead, ChipOK
  <2>4. StaticsOK' /\ DeviceOK' /\ ControlOK' /\ CallerOK' /\ HistoryOK'
    BY <1>29, PartsUnchanged DEF IoRead
  <2> QED BY <2>2, <2>3, <2>4
<1>30. ASSUME NEW d \in Dev, IoReadError(d) PROVE TypeOK'
  <2>1. ChipOK'
    BY <1>30 DEF IoReadError, Error, ChipOK
  <2>2. StaticsOK' /\ QueuesOK' /\ DeviceOK' /\ ControlOK' /\ CallerOK' /\ HistoryOK'
    BY <1>30, PartsUnchanged DEF IoReadError
  <2> QED BY <2>1, <2>2
<1>31. ASSUME NEW d \in Dev, IoPop(d) PROVE TypeOK'
  <2>1. QueuesOK'
    BY <1>31, SequenceTypes DEF IoPop, PopFrom, QueuesOK
  <2>2. DeviceOK'
    BY <1>31, SequenceTypes DEF IoPop, PopFrom, DeviceOK, QueuesOK
  <2>3. StaticsOK' /\ ControlOK' /\ CallerOK' /\ ChipOK' /\ HistoryOK'
    BY <1>31, PartsUnchanged DEF IoPop
  <2> QED BY <2>1, <2>2, <2>3
<1>32. ASSUME NEW d \in Dev, IoSend(d) PROVE TypeOK'
  <2>1. DeviceOK'
    BY <1>32 DEF IoSend, Written, AddTo, DeviceOK
  <2>2. ChipOK'
    BY <1>32, SequenceTypes DEF IoSend, Written, AddTo, ChipOK, DeviceOK
  <2>3. StaticsOK' /\ QueuesOK' /\ ControlOK' /\ CallerOK' /\ HistoryOK'
    BY <1>32, PartsUnchanged DEF IoSend, Written
  <2> QED BY <2>1, <2>2, <2>3
<1>33. ASSUME NEW d \in Dev, IoSendError(d) PROVE TypeOK'
  <2>1. DeviceOK'
    BY <1>33 DEF IoSendError, Written, Error, DeviceOK
  <2>2. ChipOK'
    BY <1>33 DEF IoSendError, Written, Error, ChipOK
  <2>3. StaticsOK' /\ QueuesOK' /\ ControlOK' /\ CallerOK' /\ HistoryOK'
    BY <1>33, PartsUnchanged DEF IoSendError, Written
  <2> QED BY <2>1, <2>2, <2>3
<1>34. ASSUME NEW d \in Dev, IoExit(d) PROVE TypeOK'
  <2>1. DeviceOK'
    BY <1>34 DEF IoExit, DeviceOK
  <2>2. StaticsOK' /\ QueuesOK' /\ ControlOK' /\ CallerOK' /\ ChipOK' /\ HistoryOK'
    BY <1>34, PartsUnchanged DEF IoExit
  <2> QED BY <2>1, <2>2
<1>35. ASSUME NEW d \in Dev, ChipExecute(d) PROVE TypeOK'
  <2>1. ChipOK'
    BY <1>35, SequenceTypes, MessageTypes DEF ChipExecute, PopFrom, ChipOK
  <2>2. HistoryOK'
    BY <1>35, SequenceTypes DEF ChipExecute, PopFrom, HistoryOK, ChipOK
  <2>3. StaticsOK' /\ QueuesOK' /\ DeviceOK' /\ ControlOK' /\ CallerOK'
    BY <1>35, PartsUnchanged DEF ChipExecute
  <2> QED BY <2>1, <2>2, <2>3
<1>36. ASSUME NEW d \in Dev, ChipLose(d) PROVE TypeOK'
  <2>1. ChipOK'
    BY <1>36, SequenceTypes DEF ChipLose, PopFrom, Error, ChipOK
  <2>2. StaticsOK' /\ QueuesOK' /\ DeviceOK' /\ ControlOK' /\ CallerOK' /\ HistoryOK'
    BY <1>36, PartsUnchanged DEF ChipLose
  <2> QED BY <2>1, <2>2
<1>37. ASSUME NEW d \in Dev, ChipIndicate(d) PROVE TypeOK'
  <2>1. ChipOK'
    BY <1>37, SequenceTypes, MessageTypes DEF ChipIndicate, AddTo, ChipOK
  <2>2. StaticsOK' /\ QueuesOK' /\ DeviceOK' /\ ControlOK' /\ CallerOK' /\ HistoryOK'
    BY <1>37, PartsUnchanged DEF ChipIndicate
  <2> QED BY <2>1, <2>2
<1>38. ASSUME NEW d \in Dev, LinkReady(d) PROVE TypeOK'
  <2>1. ChipOK'
    BY <1>38 DEF LinkReady, ChipOK
  <2>2. StaticsOK' /\ QueuesOK' /\ DeviceOK' /\ ControlOK' /\ CallerOK' /\ HistoryOK'
    BY <1>38, PartsUnchanged DEF LinkReady
  <2> QED BY <2>1, <2>2
<1>39. CASE UNCHANGED vars
  BY <1>39, PartsUnchanged DEF vars
<1> QED
  BY <1>1, <1>2, <1>3, <1>4, <1>5, <1>6, <1>7, <1>8, <1>9, <1>10, <1>11, <1>12, <1>13,
     <1>14, <1>15, <1>16, <1>17, <1>18, <1>19, <1>20, <1>21, <1>22, <1>23, <1>24, <1>25, <1>26,
     <1>27, <1>28, <1>29, <1>30, <1>31, <1>32, <1>33, <1>34, <1>35, <1>36, <1>37, <1>38, <1>39
     DEF Next, Begin, CallStep, BeginControl, ControlStep, WorkerStep, IoStep,
         ChipStep, Quiescent, Actor

\* Every action keeps the types of the exchange's state.
THEOREM TypeCorrect == Spec => []TypeOK
<1>1. TypeOK /\ [Next]_vars => TypeOK'
  BY TypeStep
<1> QED
  BY <1>1, TypeInit, PTL DEF Spec

----------------------------------------------------------------------------
(* Synchronous calls.                                                      *)

\* sync_mutex belongs to the thread whose call has begun to use the device.
Holds(a) == call[a].pc \in {"drain", "await", "pop"}
Exclusive ==
    /\ \A a \in Actor : Holds(a) => sync_mutex[call[a].cmd.dev] = a
    /\ \A d \in Dev : sync_mutex[d] # None =>
           Holds(sync_mutex[d]) /\ call[sync_mutex[d]].cmd.dev = d

\* A call is about the thread's last command, and its device stays open.
Calling ==
    \A a \in Actor : call[a].pc # "idle" =>
        /\ call[a].cmd.kind = "sync" /\ call[a].cmd.by = a /\ call[a].cmd.n = issued[a]
        /\ status[call[a].cmd.dev] = "open"

\* A device is deinitialised by one thread.
Closing ==
    /\ \A t \in Thread : closing[t] # None => status[closing[t]] = "closing"
    /\ \A t, u \in Thread : closing[t] = closing[u] /\ closing[t] # None => t = u

\* All the steps, those that concern no command, call or answer as one.
Aside ==
    UNCHANGED <<out_queue, in_queue, sync_mutex, writing, status, closing, call, last,
                issued, toChip, fromChip, executed, timedOut>>

LEMMA StepsOfCalls ==
    ASSUME [Next]_vars
    PROVE  \/ \E a \in Actor, d \in Dev : SendAsync(a, d) \/ SyncBegin(a, d)
           \/ \E a \in Actor : SyncSend(a) \/ SyncDrained(a) \/ SyncAnswered(a)
                                   \/ SyncTimeout(a) \/ SyncReturn(a)
           \/ \E t \in Thread, d \in Dev : Open(t, d) \/ CloseBegin(t, d)
           \/ \E t \in Thread : CloseJoin(t) \/ CloseFlush(t)
           \/ \E d \in Dev : IoFlush(d) \/ IoRead(d) \/ IoPop(d) \/ IoSend(d) \/ IoSendError(d)
           \/ \E d \in Dev : ChipExecute(d) \/ ChipLose(d) \/ ChipIndicate(d)
           \/ Aside
<1>1. ASSUME NEW a \in Actor, NEW back, Dispatch(a, back) PROVE Aside
  BY <1>1 DEF Dispatch, Aside, device, caller, chip, history
<1>2. ASSUME NEW t \in Thread, NEW pc, NEW flag, GotoSetting(t, pc, flag) PROVE Aside
  BY <1>2 DEF GotoSetting, Aside, queues, device, caller, chip, history
<1>3. ASSUME NEW a \in Actor, CallbackReturn(a) PROVE Aside
  BY <1>3 DEF CallbackReturn, Aside, queues, device, caller, chip
<1>4. ASSUME NEW t \in Thread, PollBegin(t) \/ StartBegin(t) \/ StopBegin(t) PROVE Aside
  BY <1>2, <1>4 DEF PollBegin, StartBegin, StopBegin, Move
<1>5. ASSUME NEW t \in Thread,
             PollNotFound(t) \/ PollDispatch(t) \/ StartSetFlag(t) \/ StartFail(t)
                 \/ StopCheck(t) \/ StopClearFlag(t)
      PROVE  Aside
  <2>1. t \in Actor
    BY DEF Actor
  <2> QED
    BY <1>1, <1>2, <1>5, <2>1 DEF PollNotFound, PollDispatch, StartSetFlag, StartFail, StopCheck,
                                  StopClearFlag, Move
<1>6. ASSUME NEW t \in Thread, StartCreate(t) \/ StopWake(t) \/ StopJoin(t) PROVE Aside
  BY <1>6 DEF StartCreate, StopWake, StopJoin, Aside, queues, device, caller, chip, history
<1>7. ASSUME NEW w \in Worker, WorkerStep(w) PROVE Aside
  <2>1. w \in Actor
    BY DEF Actor
  <2>2. CASE WorkerCheck(w)
    BY <2>2 DEF WorkerCheck, Move, GotoSetting, Aside, queues, device, caller, chip, history
  <2> QED
    BY <1>1, <1>7, <2>1, <2>2 DEF WorkerStep, WorkerDispatch
<1>8. ASSUME NEW d \in Dev, IoReadError(d) \/ IoExit(d) \/ LinkReady(d) PROVE Aside
  BY <1>8 DEF IoReadError, IoExit, LinkReady, Error, Aside, queues, device, control, caller,
              chip, history
<1>9. CASE UNCHANGED vars
  BY <1>9 DEF vars, Aside, queues, device, control, caller, chip, history
<1> QED
  BY <1>3, <1>4, <1>5, <1>6, <1>7, <1>8, <1>9
     DEF Next, Begin, CallStep, BeginControl, ControlStep, IoStep, ChipStep, Quiescent,
         ExchangeAsync, UserCommand

----------------------------------------------------------------------------
LEMMA ExclusiveStep ==
    ASSUME TypeOK, Exclusive, Calling, Closing, [Next]_vars
    PROVE  Exclusive' /\ Calling' /\ Closing'
<1> USE DEF TypeOK
<1>1. /\ call \in [Actor -> [pc : CallPcs, cmd : Command \cup {NoMsg}, ok : BOOLEAN]]
      /\ \A a \in Actor : call[a].pc # "idle" => call[a].cmd \in Command /\ call[a].cmd.dev \in Dev
      /\ sync_mutex \in [Dev -> Actor \cup {None}] /\ None \notin Actor
      /\ issued \in [Actor -> Nat]
      /\ status \in [Dev -> {"closed", "open", "closing"}]
      /\ closing \in [Thread -> Dev \cup {None}] /\ None \notin Dev
      /\ \A t \in Thread : at[t] \in {"joinio", "flush"} => closing[t] \in Dev
  BY MessageTypes, ConstantsAssumption DEF CallerOK, DeviceOK, ControlOK
<1>2. ASSUME NEW a \in Actor, NEW d \in Dev, SendAsync(a, d)
      PROVE  Exclusive' /\ Calling' /\ Closing'
  <2>1. /\ UNCHANGED <<call, sync_mutex, status, closing>>
        /\ call[a].pc = "idle" /\ issued' = [issued EXCEPT ![a] = @ + 1]
    BY <1>2 DEF SendAsync, MayIssue, device, control
  <2> QED
    BY <1>1, <2>1 DEF Exclusive, Calling, Closing, Holds
<1>3. ASSUME NEW a \in Actor, NEW d \in Dev, SyncBegin(a, d)
      PROVE  Exclusive' /\ Calling' /\ Closing'
  <2>1. /\ UNCHANGED <<sync_mutex, status, closing>>
        /\ call[a].pc = "idle" /\ issued' = [issued EXCEPT ![a] = @ + 1] /\ status[d] = "open"
        /\ call' = [call EXCEPT ![a] = [pc |-> "lock", cmd |-> Msg("sync", d, a, issued[a] + 1),
                                        ok |-> FALSE]]
    BY <1>3 DEF SyncBegin, MayIssue, NewCommand, device, control
  <2>2. /\ call'[a].pc = "lock" /\ call'[a].cmd = Msg("sync", d, a, issued[a] + 1)
        /\ \A b \in Actor : b # a => call'[b] = call[b] /\ issued'[b] = issued[b]
        /\ issued'[a] = issued[a] + 1
    BY <1>1, <2>1
  <2>3. Exclusive'
    BY <1>1, <2>1, <2>2 DEF Exclusive, Holds
  <2>4. Calling'
    BY <1>1, <2>1, <2>2 DEF Calling, Msg
  <2> QED
    BY <2>1, <2>3, <2>4 DEF Closing
<1>4. ASSUME NEW a \in Actor, SyncSend(a)
      PROVE  Exclusive' /\ Calling' /\ Closing'
  <2> DEFINE d == call[a].cmd.dev
  <2>1. /\ UNCHANGED <<status, closing, issued>> /\ d \in Dev
        /\ call[a].pc = "lock" /\ sync_mutex[d] = None
        /\ sync_mutex' = [sync_mutex EXCEPT ![d] = a]
        /\ call'[a].pc = "drain" /\ call'[a].cmd = call[a].cmd
        /\ \A b \in Actor : b # a => call'[b] = call[b]
    BY <1>1, <1>4 DEF SyncSend, LockSync, CallAt, control
  <2>2. Exclusive'
    BY <1>1, <2>1 DEF Exclusive, Holds
  <2> QED
    BY <1>1, <2>1, <2>2 DEF Calling, Closing
<1>5. ASSUME NEW a \in Actor, SyncDrained(a) \/ SyncAnswered(a) \/ SyncTimeout(a)
      PROVE  Exclusive' /\ Calling' /\ Closing'
  <2>1. /\ UNCHANGED <<status, closing, issued, sync_mutex>>
        /\ call[a].pc \in {"drain", "await"} /\ call'[a].pc \in {"await", "pop"}
        /\ call'[a].cmd = call[a].cmd
        /\ \A b \in Actor : b # a => call'[b] = call[b]
    BY <1>1, <1>5 DEF SyncDrained, SyncAnswered, SyncTimeout, CallAt, device, control
  <2>2. Exclusive'
    BY <1>1, <2>1 DEF Exclusive, Holds
  <2> QED
    BY <1>1, <2>1, <2>2 DEF Calling, Closing
<1>6. ASSUME NEW a \in Actor, SyncReturn(a)
      PROVE  Exclusive' /\ Calling' /\ Closing'
  <2> DEFINE d == call[a].cmd.dev
  <2>1. /\ UNCHANGED <<status, closing, issued>> /\ d \in Dev
        /\ call[a].pc = "pop"
        /\ sync_mutex' = [sync_mutex EXCEPT ![d] = None]
        /\ call'[a].pc = "idle"
        /\ \A b \in Actor : b # a => call'[b] = call[b]
    BY <1>1, <1>6 DEF SyncReturn, UnlockSync, NoCall, control
  <2>2. Exclusive'
    <3>1. sync_mutex[d] = a
      BY <2>1 DEF Exclusive, Holds
    <3>2. /\ sync_mutex'[d] = None
          /\ \A e \in Dev : e # d => sync_mutex'[e] = sync_mutex[e]
      BY <1>1, <2>1
    <3>3. \A b \in Actor : Holds(b)' => Holds(b) /\ call'[b].cmd.dev = call[b].cmd.dev
                                        /\ call[b].cmd.dev \in Dev \ {d}
      BY <1>1, <2>1, <3>1 DEF Exclusive, Holds
    <3>4. \A e \in Dev : sync_mutex'[e] # None => call'[sync_mutex[e]] = call[sync_mutex[e]]
      BY <1>1, <2>1, <3>1, <3>2 DEF Exclusive
    <3> QED
      BY <1>1, <3>2, <3>3, <3>4 DEF Exclusive, Holds
  <2> QED
    BY <1>1, <2>1, <2>2 DEF Calling, Closing
<1>7. ASSUME NEW t \in Thread, NEW d \in Dev, Open(t, d)
      PROVE  Exclusive' /\ Calling' /\ Closing'
  <2>1. /\ UNCHANGED <<call, sync_mutex, closing, issued>> /\ status[d] = "closed"
        /\ status' = [status EXCEPT ![d] = "open"]
    BY <1>7 DEF Open, caller
  <2> QED
    BY <1>1, <2>1 DEF Exclusive, Calling, Closing, Holds
<1>8. ASSUME NEW t \in Thread, NEW d \in Dev, CloseBegin(t, d)
      PROVE  Exclusive' /\ Calling' /\ Closing'
  <2>1. /\ UNCHANGED <<call, sync_mutex, issued>> /\ status[d] = "open"
        /\ \A a \in Actor : call[a].pc = "idle" \/ call[a].cmd.dev # d
        /\ status' = [status EXCEPT ![d] = "closing"]
        /\ closing' = [closing EXCEPT ![t] = d]
    BY <1>8 DEF CloseBegin, caller
  <2> QED
    BY <1>1, <2>1 DEF Exclusive, Calling, Closing, Holds
<1>9. ASSUME NEW t \in Thread, CloseJoin(t) \/ CloseFlush(t)
      PROVE  Exclusive' /\ Calling' /\ Closing'
  <2>1. /\ UNCHANGED <<call, sync_mutex, issued>> /\ closing[t] \in Dev
        /\ CloseEnd(t) \/ UNCHANGED <<status, closing>>
    BY <1>1, <1>9 DEF CloseJoin, CloseFlush, caller
  <2>2. CASE CloseEnd(t)
    <3>1. /\ status' = [status EXCEPT ![closing[t]] = "closed"]
          /\ closing' = [closing EXCEPT ![t] = None] /\ status[closing[t]] = "closing"
      BY <1>1, <2>1, <2>2 DEF CloseEnd, Closing
    <3> QED
      BY <1>1, <2>1, <3>1 DEF Exclusive, Calling, Closing, Holds
  <2> QED
    BY <2>1, <2>2 DEF Exclusive, Calling, Closing, Holds
<1>10. CASE UNCHANGED <<call, sync_mutex, status, closing, issued>>
  BY <1>10 DEF Exclusive, Calling, Closing, Holds
<1>11. ASSUME NEW d \in Dev,
              IoFlush(d) \/ IoRead(d) \/ IoPop(d) \/ IoSend(d) \/ IoSendError(d)
                \/ ChipExecute(d) \/ ChipLose(d) \/ ChipIndicate(d)
       PROVE  UNCHANGED <<call, sync_mutex, status, closing, issued>>
  BY <1>11 DEF IoFlush, IoRead, IoPop, IoSend, IoSendError, Written, ChipExecute, ChipLose,
               ChipIndicate, Error, device, control, caller
<1>12. CASE Aside
  BY <1>10, <1>12 DEF Aside
<1> QED
  BY <1>2, <1>3, <1>4, <1>5, <1>6, <1>7, <1>8, <1>9, <1>10, <1>11, <1>12, StepsOfCalls

----------------------------------------------------------------------------
\* Queues with no synchronous message, and with one.
Free(q) == \A i \in DOMAIN q : ~IsSync(q[i])
Single(q, m) == \E i \in DOMAIN q : q[i] = m /\ \A j \in DOMAIN q : IsSync(q[j]) => j = i

LEMMA SyncInQueue ==
    ASSUME NEW S, NEW q \in Seq(S), NEW m \in S, NEW c
    PROVE  /\ Free(<<>>)
           /\ ~IsSync(m) /\ Free(q) => Free(Append(q, m))
           /\ ~IsSync(m) /\ Single(q, c) => Single(Append(q, m), c)
           /\ IsSync(m) /\ Free(q) => Single(Append(q, m), m)
<1>1. /\ Append(q, m) \in Seq(S) /\ DOMAIN q = 1..Len(q) /\ Len(q) \in Nat
      /\ DOMAIN Append(q, m) = 1..Len(q) + 1 /\ Append(q, m)[Len(q) + 1] = m
      /\ \A i \in 1..Len(q) : Append(q, m)[i] = q[i]
  OBVIOUS
<1>2. Free(<<>>)
  BY DEF Free
<1>3. ~IsSync(m) /\ Free(q) => Free(Append(q, m))
  BY <1>1 DEF Free
<1>4. ASSUME ~IsSync(m), Single(q, c) PROVE Single(Append(q, m), c)
  <2>1. PICK i \in 1..Len(q) : q[i] = c /\ \A j \in 1..Len(q) : IsSync(q[j]) => j = i
    BY <1>1, <1>4 DEF Single
  <2>2. i \in 1..Len(q) + 1
    BY <1>1
  <2>3. \A j \in 1..Len(q) + 1 : IsSync(Append(q, m)[j]) => j = i
    BY <1>1, <1>4, <2>1
  <2> QED
    BY <1>1, <2>1, <2>2, <2>3 DEF Single
<1>5. ASSUME IsSync(m), Free(q) PROVE Single(Append(q, m), m)
  <2>1. Len(q) + 1 \in 1..Len(q) + 1
    BY <1>1
  <2>2. \A j \in 1..Len(q) + 1 : IsSync(Append(q, m)[j]) => j = Len(q) + 1
    BY <1>1, <1>5 DEF Free
  <2> QED
    BY <1>1, <2>1, <2>2 DEF Single
<1> QED BY <1>2, <1>3, <1>4, <1>5

LEMMA SyncAtHead ==
    ASSUME NEW S, NEW q \in Seq(S), q # <<>>, NEW c, IsSync(c)
    PROVE  /\ Free(q) => ~IsSync(Head(q)) /\ Free(Tail(q))
           /\ Single(q, c) /\ IsSync(Head(q)) => Head(q) = c /\ Free(Tail(q))
           /\ Single(q, c) /\ ~IsSync(Head(q)) => Single(Tail(q), c)
<1>1. /\ DOMAIN q = 1..Len(q) /\ Len(q) \in Nat \ {0} /\ Head(q) = q[1]
      /\ DOMAIN Tail(q) = 1..Len(q) - 1
      /\ \A i \in 1..Len(q) - 1 : Tail(q)[i] = q[i + 1]
  OBVIOUS
<1>2. Free(q) => ~IsSync(Head(q)) /\ Free(Tail(q))
  BY <1>1 DEF Free
<1>3. ASSUME Single(q, c)
      PROVE  /\ IsSync(Head(q)) => Head(q) = c /\ Free(Tail(q))
             /\ ~IsSync(Head(q)) => Single(Tail(q), c)
  <2>1. PICK i \in 1..Len(q) : q[i] = c /\ \A j \in 1..Len(q) : IsSync(q[j]) => j = i
    BY <1>1, <1>3 DEF Single
  <2>2. CASE IsSync(Head(q))
    <3>1. i = 1
      BY <1>1, <2>1, <2>2
    <3>2. \A j \in 1..Len(q) - 1 : ~IsSync(q[j + 1])
      BY <1>1, <2>1, <3>1
    <3> QED
      BY <1>1, <2>1, <2>2, <3>1, <3>2 DEF Free
  <2>3. CASE ~IsSync(Head(q))
    <3>1. i - 1 \in 1..Len(q) - 1 /\ Tail(q)[i - 1] = c
      BY <1>1, <2>1, <2>3
    <3>2. \A j \in 1..Len(q) - 1 : IsSync(Tail(q)[j]) => j = i - 1
      BY <1>1, <2>1
    <3> QED
      BY <1>1, <2>3, <3>1, <3>2 DEF Single
  <2> QED BY <2>2, <2>3
<1> QED BY <1>2, <1>3

\* A device's synchronous messages, when there are none but an answer read, and
\* when there is one command, which is about to be written, written or executed.
NoneSent(d) == /\ Free(out_queue[d]) /\ ~IsSync(writing[d])
               /\ Free(toChip[d]) /\ Free(fromChip[d])
Nowhere(d) == NoneSent(d) /\ in_queue[d] = <<>>
Answered(d, c) == NoneSent(d) /\ in_queue[d] = <<Confirm(c)>>
Sent(d, c) ==
    /\ in_queue[d] = <<>>
    /\ \/ /\ Single(out_queue[d], c) /\ ~IsSync(writing[d])
          /\ Free(toChip[d]) /\ Free(fromChip[d])
       \/ Free(out_queue[d]) /\ writing[d] = c /\ Free(toChip[d]) /\ Free(fromChip[d])
       \/ /\ Free(out_queue[d]) /\ ~IsSync(writing[d])
          /\ Single(toChip[d], c) /\ Free(fromChip[d])
       \/ /\ Free(out_queue[d]) /\ ~IsSync(writing[d])
          /\ Free(toChip[d]) /\ Single(fromChip[d], Confirm(c))

\* Until a call on it times out, a device has one synchronous message at most:
\* the command of the thread that has the mutex, or its answer.
UnderWay(d, c) == Nowhere(d) \/ Sent(d, c) \/ Answered(d, c)
OneUnderWay(d) ==
    ~timedOut[d] =>
        LET h == sync_mutex[d] IN
        /\ h = None => Nowhere(d)
        /\ h # None => UnderWay(d, call[h].cmd)
        /\ h # None /\ call[h].pc = "pop" => Answered(d, call[h].cmd)

\* What the io thread, the link and the chip do with the one message.
LEMMA MessageMoves ==
    ASSUME TypeOK, NEW d \in Dev, NEW c, IsSync(c),
           IoFlush(d) \/ IoRead(d) \/ IoPop(d) \/ IoSend(d) \/ IoSendError(d)
             \/ ChipExecute(d) \/ ChipLose(d) \/ ChipIndicate(d)
    PROVE  /\ Nowhere(d) => Nowhere(d)'
           /\ Answered(d, c) => Answered(d, c)'
           /\ Sent(d, c) => UnderWay(d, c)'
<1> USE DEF TypeOK
<1>1. /\ out_queue \in [Dev -> Seq(Command)] /\ in_queue \in [Dev -> Seq(Answer)]
      /\ toChip \in [Dev -> Seq(Command)] /\ fromChip \in [Dev -> Seq(Answer \cup Indication)]
      /\ writing \in [Dev -> Command \cup {NoMsg}] /\ (io[d] = "send" => writing[d] \in Command)
  BY DEF QueuesOK, ChipOK, DeviceOK
<1>2. ~IsSync(NoMsg) /\ \A x : IsSync(Confirm(x))
  BY DEF IsSync, NoMsg, Msg, Confirm
<1>3. /\ out_queue[d] # <<>> =>
           /\ Free(out_queue[d]) => ~IsSync(Head(out_queue[d])) /\ Free(Tail(out_queue[d]))
           /\ Single(out_queue[d], c) /\ IsSync(Head(out_queue[d]))
                => Head(out_queue[d]) = c /\ Free(Tail(out_queue[d]))
           /\ Single(out_queue[d], c) /\ ~IsSync(Head(out_queue[d]))
                => Single(Tail(out_queue[d]), c)
      /\ toChip[d] # <<>> =>
           /\ Free(toChip[d]) => ~IsSync(Head(toChip[d])) /\ Free(Tail(toChip[d]))
           /\ Single(toChip[d], c) /\ IsSync(Head(toChip[d]))
                => Head(toChip[d]) = c /\ Free(Tail(toChip[d]))
           /\ Single(toChip[d], c) /\ ~IsSync(Head(toChip[d])) => Single(Tail(toChip[d]), c)
      /\ fromChip[d] # <<>> =>
           /\ Free(fromChip[d]) => ~IsSync(Head(fromChip[d])) /\ Free(Tail(fromChip[d]))
           /\ Single(fromChip[d], Confirm(c)) /\ IsSync(Head(fromChip[d]))
                => Head(fromChip[d]) = Confirm(c) /\ Free(Tail(fromChip[d]))
           /\ Single(fromChip[d], Confirm(c)) /\ ~IsSync(Head(fromChip[d]))
                => Single(Tail(fromChip[d]), Confirm(c))
  BY <1>1, <1>2, SyncAtHead
<1>4. CASE IoFlush(d)
  <2>1. fromChip'[d] = <<>> /\ UNCHANGED <<out_queue, in_queue, writing, toChip>>
    BY <1>1, <1>4 DEF IoFlush, queues
  <2>2. Free(<<>>)
    BY DEF Free
  <2> QED
    BY <2>1, <2>2 DEF Nowhere, Answered, Sent, UnderWay, NoneSent
<1>5. CASE IoRead(d)
  <2> DEFINE m == Head(fromChip[d])
  <2>1. /\ fromChip[d] # <<>> /\ fromChip'[d] = Tail(fromChip[d])
        /\ UNCHANGED <<out_queue, writing, toChip>>
        /\ IF IsSync(m) THEN in_queue'[d] = Append(in_queue[d], m)
                        ELSE UNCHANGED in_queue
    BY <1>1, <1>5 DEF IoRead, AddTo, device
  <2>2. Append(<<>>, m) = <<m>>
    OBVIOUS
  <2>3. CASE Free(fromChip[d])
    <3>1. UNCHANGED in_queue /\ Free(fromChip'[d])
      BY <1>3, <2>1, <2>3
    <3> QED
      BY <2>1, <2>3, <3>1 DEF Nowhere, Answered, Sent, UnderWay, NoneSent
  <2>4. ASSUME Sent(d, c), ~Free(fromChip[d]) PROVE UnderWay(d, c)'
    <3>1. /\ in_queue[d] = <<>> /\ Free(out_queue[d]) /\ ~IsSync(writing[d]) /\ Free(toChip[d])
          /\ Single(fromChip[d], Confirm(c))
      BY <2>4 DEF Sent
    <3>2. CASE IsSync(m)
      BY <1>3, <2>1, <2>2, <3>1, <3>2 DEF Answered, Sent, UnderWay, NoneSent
    <3>3. CASE ~IsSync(m)
      BY <1>3, <2>1, <3>1, <3>3 DEF Sent, UnderWay
    <3> QED BY <3>2, <3>3
  <2> QED
    BY <2>3, <2>4 DEF Nowhere, Answered, Sent, NoneSent
<1>6. CASE IoPop(d)
  <2>1. /\ out_queue[d] # <<>> /\ out_queue'[d] = Tail(out_queue[d])
        /\ writing'[d] = Head(out_queue[d])
        /\ UNCHANGED <<in_queue, toChip, fromChip>>
    BY <1>1, <1>6 DEF IoPop, PopFrom, chip
  <2> QED
    BY <1>3, <2>1 DEF Nowhere, Answered, Sent, UnderWay, NoneSent
<1>7. CASE IoSend(d)
  <2>1. /\ writing[d] \in Command /\ writing'[d] = NoMsg
        /\ toChip'[d] = Append(toChip[d], writing[d])
        /\ UNCHANGED <<out_queue, in_queue, fromChip>>
    BY <1>1, <1>7 DEF IoSend, Written, AddTo, queues
  <2>2. /\ ~IsSync(writing[d]) /\ Free(toChip[d]) => Free(Append(toChip[d], writing[d]))
        /\ ~IsSync(writing[d]) /\ Single(toChip[d], c) => Single(Append(toChip[d], writing[d]), c)
        /\ IsSync(writing[d]) /\ Free(toChip[d]) => Single(Append(toChip[d], writing[d]), writing[d])
    BY <1>1, <2>1, SyncInQueue
  <2> QED
    BY <1>2, <2>1, <2>2 DEF Nowhere, Answered, Sent, UnderWay, NoneSent
<1>8. CASE IoSendError(d)
  <2>1. /\ writing'[d] = NoMsg /\ UNCHANGED <<out_queue, in_queue, fromChip, toChip>>
    BY <1>1, <1>8 DEF IoSendError, Written, queues
  <2> QED
    BY <1>2, <2>1 DEF Nowhere, Answered, Sent, UnderWay, NoneSent
<1>9. CASE ChipExecute(d)
  <2> DEFINE x == Head(toChip[d])
  <2>1. /\ toChip[d] # <<>> /\ toChip'[d] = Tail(toChip[d])
        /\ UNCHANGED <<out_queue, in_queue, writing>>
        /\ IF IsSync(x) THEN fromChip'[d] = Append(fromChip[d], Confirm(x))
                        ELSE UNCHANGED fromChip
    BY <1>1, <1>9 DEF ChipExecute, PopFrom, queues, device
  <2>2. Free(fromChip[d]) => Single(Append(fromChip[d], Confirm(x)), Confirm(x))
    <3>1. /\ fromChip[d] \in Seq(Answer \cup Indication)
          /\ Confirm(x) \in Answer \cup Indication
      BY <1>1, <2>1, MessageTypes
    <3> QED BY <1>2, <3>1, SyncInQueue
  <2>3. CASE Free(toChip[d])
    <3>1. UNCHANGED fromChip /\ Free(toChip'[d])
      BY <1>3, <2>1, <2>3
    <3> QED
      BY <2>1, <2>3, <3>1 DEF Nowhere, Answered, Sent, UnderWay, NoneSent
  <2>4. ASSUME Sent(d, c), ~Free(toChip[d]) PROVE UnderWay(d, c)'
    <3>1. /\ in_queue[d] = <<>> /\ Free(out_queue[d]) /\ ~IsSync(writing[d]) /\ Free(fromChip[d])
          /\ Single(toChip[d], c)
      BY <2>4 DEF Sent
    <3>2. CASE IsSync(x)
      BY <1>3, <2>1, <2>2, <3>1, <3>2 DEF Answered, Sent, UnderWay, NoneSent
    <3>3. CASE ~IsSync(x)
      BY <1>3, <2>1, <3>1, <3>3 DEF Sent, UnderWay
    <3> QED BY <3>2, <3>3
  <2> QED
    BY <2>3, <2>4 DEF Nowhere, Answered, Sent, NoneSent
<1>10. CASE ChipLose(d)
  <2>1. /\ toChip[d] # <<>> /\ toChip'[d] = Tail(toChip[d])
        /\ UNCHANGED <<out_queue, in_queue, writing, fromChip>>
    BY <1>1, <1>10 DEF ChipLose, PopFrom, queues, device
  <2> QED
    BY <1>3, <2>1 DEF Nowhere, Answered, Sent, UnderWay, NoneSent
<1>11. CASE ChipIndicate(d)
  <2> DEFINE m == Msg("ind", d, None, ind[d] + 1)
  <2>1. /\ fromChip'[d] = Append(fromChip[d], m)
        /\ UNCHANGED <<out_queue, in_queue, writing, toChip>>
    BY <1>1, <1>11 DEF ChipIndicate, AddTo, queues, device
  <2>2. m \in Indication /\ ~IsSync(m)
    <3>1. ind[d] + 1 \in Nat
      BY DEF ChipOK
    <3> QED BY <3>1, MessageTypes DEF IsSync, Msg
  <2>3. /\ Free(fromChip[d]) => Free(Append(fromChip[d], m))
        /\ Single(fromChip[d], Confirm(c)) => Single(Append(fromChip[d], m), Confirm(c))
    <3>1. fromChip[d] \in Seq(Answer \cup Indication) /\ m \in Answer \cup Indication
      BY <1>1, <2>2
    <3> HIDE DEF m
    <3> QED BY <2>2, <3>1, SyncInQueue
  <2> QED
    BY <2>1, <2>3 DEF Nowhere, Answered, Sent, UnderWay, NoneSent
<1> QED
  BY <1>4, <1>5, <1>6, <1>7, <1>8, <1>9, <1>10, <1>11

\* A device that a step has nothing to do with.
LEMMA UnderWayFrame ==
    ASSUME NEW d \in Dev, OneUnderWay(d),
           out_queue'[d] = out_queue[d], in_queue'[d] = in_queue[d], writing'[d] = writing[d],
           toChip'[d] = toChip[d], fromChip'[d] = fromChip[d],
           sync_mutex'[d] = sync_mutex[d], timedOut'[d] = timedOut[d],
           sync_mutex[d] # None => call'[sync_mutex[d]] = call[sync_mutex[d]]
    PROVE  OneUnderWay(d)'
<1>1. /\ Nowhere(d)' <=> Nowhere(d)
      /\ \A c : Answered(d, c)' <=> Answered(d, c)
      /\ \A c : Sent(d, c)' <=> Sent(d, c)
  BY DEF Nowhere, NoneSent, Answered, Sent
<1> QED
  BY <1>1 DEF OneUnderWay, UnderWay

LEMMA Holder ==
    ASSUME TypeOK, Exclusive, NEW d \in Dev, sync_mutex[d] # None
    PROVE  /\ sync_mutex[d] \in Actor
           /\ call[sync_mutex[d]].pc # "idle" /\ call[sync_mutex[d]].cmd.dev = d
<1>1. sync_mutex[d] \in Actor
  BY DEF TypeOK, DeviceOK
<1>2. call[sync_mutex[d]].pc # "idle"
  BY DEF Exclusive, Holds
<1>3. call[sync_mutex[d]].cmd.dev = d
  BY DEF Exclusive
<1> QED BY <1>1, <1>2, <1>3

LEMMA OtherHolder ==
    ASSUME TypeOK, Exclusive, NEW a \in Actor, NEW e \in Dev, ~Holds(a) \/ call[a].cmd.dev # e,
           \A b \in Actor : b # a => call'[b] = call[b]
    PROVE  sync_mutex[e] # None => call'[sync_mutex[e]] = call[sync_mutex[e]]
<1>1. ASSUME sync_mutex[e] # None PROVE sync_mutex[e] \in Actor /\ sync_mutex[e] # a
  BY <1>1 DEF TypeOK, DeviceOK, Exclusive
<1> QED BY <1>1

LEMMA UnderWayStep ==
    ASSUME TypeOK, Exclusive, Calling, Closing, \A d \in Dev : OneUnderWay(d), [Next]_vars
    PROVE  \A d \in Dev : OneUnderWay(d)'
<1> USE DEF TypeOK
<1>1. /\ call \in [Actor -> [pc : CallPcs, cmd : Command \cup {NoMsg}, ok : BOOLEAN]]
      /\ \A a \in Actor : call[a].pc # "idle" =>
             /\ call[a].cmd \in Command /\ call[a].cmd.dev \in Dev
             /\ IsSync(call[a].cmd)
      /\ sync_mutex \in [Dev -> Actor \cup {None}] /\ None \notin Actor
      /\ out_queue \in [Dev -> Seq(Command)] /\ in_queue \in [Dev -> Seq(Answer)]
      /\ writing \in [Dev -> Command \cup {NoMsg}]
      /\ toChip \in [Dev -> Seq(Command)] /\ fromChip \in [Dev -> Seq(Answer \cup Indication)]
      /\ timedOut \in [Dev -> BOOLEAN]
      /\ \A t \in Thread : at[t] \in {"joinio", "flush"} => closing[t] \in Dev
  BY MessageTypes, ConstantsAssumption
     DEF CallerOK, DeviceOK, QueuesOK, ChipOK, HistoryOK, ControlOK, Calling, IsSync
<1>2. ASSUME NEW a \in Actor, NEW d \in Dev, SendAsync(a, d)
      PROVE  \A e \in Dev : OneUnderWay(e)'
  <2> DEFINE m == NewCommand("async", a, d)
  <2>1. /\ out_queue' = [out_queue EXCEPT ![d] = Append(@, m)]
        /\ UNCHANGED <<call, sync_mutex, in_queue, writing, toChip, fromChip, timedOut>>
    BY <1>2 DEF SendAsync, AddTo, device, control, chip, history
  <2>2. m \in Command /\ ~IsSync(m)
    <3>1. issued[a] + 1 \in Nat
      BY DEF CallerOK
    <3> QED BY <3>1, MessageTypes DEF NewCommand, IsSync, Msg
  <2>3. /\ Free(out_queue[d]) => Free(out_queue'[d])
        /\ \A c : Single(out_queue[d], c) => Single(out_queue'[d], c)
    <3> HIDE DEF m
    <3>1. out_queue'[d] = Append(out_queue[d], m)
      BY <1>1, <2>1
    <3> QED BY <1>1, <2>2, <3>1, SyncInQueue
  <2>4. OneUnderWay(d)'
    <3>1. /\ Nowhere(d) => Nowhere(d)'
          /\ \A c : Answered(d, c) => Answered(d, c)'
          /\ \A c : Sent(d, c) => Sent(d, c)'
      BY <2>1, <2>3 DEF Nowhere, NoneSent, Answered, Sent
    <3> QED
      BY <2>1, <3>1 DEF OneUnderWay, UnderWay
  <2>5. ASSUME NEW e \in Dev, e # d PROVE OneUnderWay(e)'
    <3>1. out_queue'[e] = out_queue[e]
      BY <1>1, <2>1, <2>5
    <3> QED BY <2>1, <3>1, UnderWayFrame
  <2> QED BY <2>4, <2>5
<1>3. ASSUME NEW a \in Actor, NEW d \in Dev, SyncBegin(a, d)
      PROVE  \A e \in Dev : OneUnderWay(e)'
  <2>1. /\ call[a].pc = "idle" /\ \A b \in Actor : b # a => call'[b] = call[b]
        /\ UNCHANGED <<queues, sync_mutex, writing, toChip, fromChip, timedOut>>
    BY <1>1, <1>3 DEF SyncBegin, MayIssue, device, chip, history
  <2>2. \A e \in Dev : sync_mutex[e] # None => call'[sync_mutex[e]] = call[sync_mutex[e]]
    BY <2>1, OtherHolder DEF Holds
  <2> QED BY <2>1, <2>2, UnderWayFrame DEF queues
<1>4. ASSUME NEW a \in Actor, SyncSend(a)
      PROVE  \A e \in Dev : OneUnderWay(e)'
  <2>0. PICK d \in Dev : d = call[a].cmd.dev
    BY <1>1, <1>4 DEF SyncSend
  <2>1. /\ d \in Dev /\ call[a].pc = "lock" /\ sync_mutex[d] = None
        /\ sync_mutex' = [sync_mutex EXCEPT ![d] = a]
        /\ out_queue' = [out_queue EXCEPT ![d] = Append(@, call[a].cmd)]
        /\ call'[a].pc = "drain" /\ call'[a].cmd = call[a].cmd
        /\ \A b \in Actor : b # a => call'[b] = call[b]
        /\ UNCHANGED <<in_queue, writing, toChip, fromChip, timedOut>>
    BY <1>1, <1>4, <2>0 DEF SyncSend, LockSync, AddTo, CallAt, chip, history
  <2>2. call[a].cmd \in Command /\ IsSync(call[a].cmd)
    BY <1>1, <2>1
  <2>3. OneUnderWay(d)'
    <3>1. ASSUME ~timedOut[d] PROVE Sent(d, call[a].cmd)'
      <4>1. Nowhere(d)
        BY <2>1, <3>1 DEF OneUnderWay
      <4>2. Single(Append(out_queue[d], call[a].cmd), call[a].cmd)
        BY <1>1, <2>1, <2>2, <4>1, SyncInQueue DEF Nowhere, NoneSent
      <4>3. out_queue'[d] = Append(out_queue[d], call[a].cmd) /\ call'[a].cmd = call[a].cmd
        BY <1>1, <2>1
      <4> QED BY <2>1, <4>1, <4>2, <4>3 DEF Nowhere, NoneSent, Sent
    <3>2. sync_mutex'[d] = a /\ timedOut'[d] = timedOut[d]
      BY <1>1, <2>1
    <3> QED BY <1>1, <2>1, <3>1, <3>2 DEF OneUnderWay, UnderWay
  <2>4. ASSUME NEW e \in Dev, e # d PROVE OneUnderWay(e)'
    <3>1. out_queue'[e] = out_queue[e] /\ sync_mutex'[e] = sync_mutex[e]
      BY <1>1, <2>1, <2>4
    <3>2. sync_mutex[e] # None => call'[sync_mutex[e]] = call[sync_mutex[e]]
      BY <2>1, OtherHolder DEF Holds
    <3> QED BY <2>1, <3>1, <3>2, UnderWayFrame
  <2> QED BY <2>3, <2>4
<1>5. ASSUME NEW a \in Actor, SyncDrained(a) \/ SyncAnswered(a) \/ SyncTimeout(a)
      PROVE  \A e \in Dev : OneUnderWay(e)'
  <2>0. PICK d \in Dev : d = call[a].cmd.dev
    BY <1>1, <1>5 DEF SyncDrained, SyncAnswered, SyncTimeout
  <2>1. /\ d \in Dev /\ call[a].pc \in {"drain", "await"} /\ sync_mutex[d] = a
        /\ call'[a].cmd = call[a].cmd
        /\ \A b \in Actor : b # a => call'[b] = call[b]
        /\ UNCHANGED <<queues, sync_mutex, writing, toChip, fromChip>>
        /\ \A e \in Dev : e # d => timedOut'[e] = timedOut[e]
    BY <1>1, <1>5, <2>0
       DEF SyncDrained, SyncAnswered, SyncTimeout, CallAt, device, chip, history, Exclusive, Holds
  <2>2. \/ call'[a].pc = "await" /\ timedOut'[d] = timedOut[d]
        \/ call'[a].pc = "pop" /\ timedOut'[d] = timedOut[d] /\ in_queue[d] # <<>>
        \/ timedOut'[d]
    BY <1>1, <1>5, <2>0, <2>1 DEF SyncDrained, SyncAnswered, SyncTimeout, CallAt, history
  <2>3. OneUnderWay(d)'
    <3>1. /\ Nowhere(d)' <=> Nowhere(d)
          /\ \A c : Answered(d, c)' <=> Answered(d, c)
          /\ \A c : Sent(d, c)' <=> Sent(d, c)
      BY <2>1 DEF Nowhere, NoneSent, Answered, Sent, queues
    <3>2. in_queue[d] # <<>> => ~Nowhere(d) /\ ~Sent(d, call[a].cmd)
      BY DEF Nowhere, Sent
    <3> QED
      BY <1>1, <2>1, <2>2, <3>1, <3>2 DEF OneUnderWay, UnderWay
  <2>4. ASSUME NEW e \in Dev, e # d PROVE OneUnderWay(e)'
    <3>1. sync_mutex[e] # None => call'[sync_mutex[e]] = call[sync_mutex[e]]
      BY <2>0, <2>1, <2>4, OtherHolder
    <3> QED BY <2>1, <2>4, <3>1, UnderWayFrame DEF queues
  <2> QED BY <2>3, <2>4
<1>6. ASSUME NEW a \in Actor, SyncReturn(a)
      PROVE  \A e \in Dev : OneUnderWay(e)'
  <2>0. PICK d \in Dev : d = call[a].cmd.dev
    BY <1>1, <1>6 DEF SyncReturn
  <2>1. /\ d \in Dev /\ call[a].pc = "pop" /\ sync_mutex[d] = a
        /\ sync_mutex' = [sync_mutex EXCEPT ![d] = None]
        /\ in_queue' = [in_queue EXCEPT ![d] = IF @ = <<>> THEN @ ELSE Tail(@)]
        /\ \A b \in Actor : b # a => call'[b] = call[b]
        /\ UNCHANGED <<out_queue, writing, toChip, fromChip, timedOut>>
    BY <1>1, <1>6, <2>0 DEF SyncReturn, UnlockSync, PopAnswer, chip, history, Exclusive, Holds
  <2>2. OneUnderWay(d)'
    <3>1. ASSUME ~timedOut[d] PROVE Nowhere(d)'
      <4>1. Answered(d, call[a].cmd)
        BY <1>1, <2>1, <3>1 DEF OneUnderWay
      <4>2. in_queue'[d] = <<>>
        BY <1>1, <2>1, <4>1 DEF Answered
      <4> QED BY <2>1, <4>1, <4>2 DEF Answered, Nowhere, NoneSent
    <3>2. sync_mutex'[d] = None /\ timedOut'[d] = timedOut[d]
      BY <1>1, <2>1
    <3> QED BY <3>1, <3>2 DEF OneUnderWay
  <2>3. ASSUME NEW e \in Dev, e # d PROVE OneUnderWay(e)'
    <3>1. sync_mutex[e] # None => call'[sync_mutex[e]] = call[sync_mutex[e]]
      BY <2>0, <2>1, <2>3, OtherHolder
    <3>2. in_queue'[e] = in_queue[e] /\ sync_mutex'[e] = sync_mutex[e]
      BY <1>1, <2>1, <2>3
    <3> QED BY <2>1, <3>1, <3>2, UnderWayFrame
  <2> QED BY <2>2, <2>3
<1>7. ASSUME NEW d \in Dev, status[d] # "open",
             out_queue' = [out_queue EXCEPT ![d] = <<>>],
             in_queue' = [in_queue EXCEPT ![d] = <<>>],
             UNCHANGED <<call, sync_mutex, writing, toChip, fromChip, timedOut>>
      PROVE  \A e \in Dev : OneUnderWay(e)'
  <2>1. sync_mutex[d] = None
    BY <1>7, Holder DEF Calling
  <2>2. OneUnderWay(d)'
    <3>1. Nowhere(d) => Nowhere(d)'
      BY <1>1, <1>7 DEF Nowhere, NoneSent, Free
    <3> QED BY <1>7, <2>1, <3>1 DEF OneUnderWay
  <2>3. ASSUME NEW e \in Dev, e # d PROVE OneUnderWay(e)'
    <3>1. in_queue'[e] = in_queue[e] /\ out_queue'[e] = out_queue[e]
      BY <1>1, <1>7, <2>3
    <3> QED BY <1>7, <3>1, UnderWayFrame
  <2> QED BY <2>2, <2>3
<1>8. ASSUME NEW t \in Thread, NEW d \in Dev, Open(t, d)
      PROVE  \A e \in Dev : OneUnderWay(e)'
  BY <1>7, <1>8 DEF Open, caller, history
<1>9. ASSUME NEW t \in Thread, CloseJoin(t)
      PROVE  \A e \in Dev : OneUnderWay(e)'
  <2>1. closing[t] \in Dev /\ status[closing[t]] = "closing"
    BY <1>1, <1>9, ConstantsAssumption DEF CloseJoin, Closing
  <2>2. /\ out_queue' = [out_queue EXCEPT ![closing[t]] = <<>>]
        /\ in_queue' = [in_queue EXCEPT ![closing[t]] = <<>>]
        /\ UNCHANGED <<call, sync_mutex, writing, toChip, fromChip, timedOut>>
    BY <1>9 DEF CloseJoin, caller, chip, history
  <2> QED BY <1>7, <2>1, <2>2
<1>10. CASE UNCHANGED <<out_queue, in_queue, sync_mutex, writing, call, toChip, fromChip, timedOut>>
  BY <1>10, UnderWayFrame
<1>11. ASSUME NEW t \in Thread, CloseFlush(t) \/ \E d \in Dev : CloseBegin(t, d)
       PROVE  \A e \in Dev : OneUnderWay(e)'
  BY <1>10, <1>11 DEF CloseFlush, CloseBegin, queues, caller, chip, history
<1>12. ASSUME NEW d \in Dev,
              IoFlush(d) \/ IoRead(d) \/ IoPop(d) \/ IoSend(d) \/ IoSendError(d)
                \/ ChipExecute(d) \/ ChipLose(d) \/ ChipIndicate(d)
       PROVE  \A e \in Dev : OneUnderWay(e)'
  <2>1. UNCHANGED <<call, sync_mutex, timedOut>>
    BY <1>12 DEF IoFlush, IoRead, IoPop, IoSend, IoSendError, Written, ChipExecute, ChipLose,
                 ChipIndicate, Error, device, control, caller, history
  <2>2. OneUnderWay(d)'
    <3>1. Nowhere(d) => Nowhere(d)'
      <4>1. IsSync(Msg("sync", d, d, 0))
        BY DEF IsSync, Msg
      <4> QED BY <1>12, <4>1, MessageMoves
    <3>2. CASE sync_mutex[d] = None
      BY <2>1, <3>1, <3>2 DEF OneUnderWay
    <3>3. CASE sync_mutex[d] # None
      <4> DEFINE c == call[sync_mutex[d]].cmd
      <4>1. IsSync(c)
        <5>1. /\ sync_mutex[d] \in Actor /\ call[sync_mutex[d]].pc # "idle"
          BY <3>3, Holder
        <5> QED BY <1>1, <5>1
      <4>2. Answered(d, c) => Answered(d, c)'
        BY <1>12, <2>1, <4>1, MessageMoves
      <4>3. Sent(d, c) => UnderWay(d, c)'
        BY <1>12, <2>1, <4>1, MessageMoves
      <4> QED BY <2>1, <3>1, <3>3, <4>2, <4>3 DEF OneUnderWay, UnderWay
    <3> QED BY <3>2, <3>3
  <2>3. ASSUME NEW e \in Dev, e # d PROVE OneUnderWay(e)'
    <3>1. /\ out_queue'[e] = out_queue[e] /\ in_queue'[e] = in_queue[e]
          /\ writing'[e] = writing[e] /\ toChip'[e] = toChip[e] /\ fromChip'[e] = fromChip[e]
      BY <1>1, <1>12, <2>3
         DEF IoFlush, IoRead, IoPop, IoSend, IoSendError, Written, ChipExecute, ChipLose,
             ChipIndicate, Error, AddTo, PopFrom, queues, device, chip
    <3> QED BY <2>1, <3>1, UnderWayFrame
  <2> QED BY <2>2, <2>3
<1>13. CASE Aside
  BY <1>10, <1>13 DEF Aside
<1> QED
  BY <1>2, <1>3, <1>4, <1>5, <1>6, <1>8, <1>9, <1>11, <1>12, <1>13, StepsOfCalls

\* What a call returned is about a command of that thread.
Resulted ==
    \A a \in Actor : last[a].status # "none" \/ last[a].cmd # NoMsg =>
        last[a].cmd \in Command /\ last[a].cmd.by = a

CallInv ==
    /\ Exclusive /\ Calling /\ Closing
    /\ \A d \in Dev : OneUnderWay(d)
    /\ Resulted /\ AnswerMatchesCommand

LEMMA ResultStep ==
    ASSUME TypeOK, CallInv, [Next]_vars
    PROVE  Resulted' /\ AnswerMatchesCommand'
<1> USE DEF TypeOK
<1>1. /\ call \in [Actor -> [pc : CallPcs, cmd : Command \cup {NoMsg}, ok : BOOLEAN]]
      /\ \A a \in Actor : call[a].pc # "idle" =>
             call[a].cmd \in Command /\ call[a].cmd.dev \in Dev /\ call[a].cmd.by = a
      /\ \A c \in Command : c.dev \in Dev
      /\ last \in [Actor -> [cmd : Command \cup {NoMsg}, resp : Answer \cup {NoMsg},
                             status : {"none", "SUCCESS", "TIMEOUT"}]]
      /\ timedOut \in [Dev -> BOOLEAN]
  BY MessageTypes DEF CallerOK, HistoryOK, CallInv, Calling
<1>2. ASSUME NEW a \in Actor, SyncReturn(a) PROVE Resulted' /\ AnswerMatchesCommand'
  <2>0. PICK d \in Dev : d = call[a].cmd.dev
    BY <1>1, <1>2 DEF SyncReturn
  <2>1. /\ call[a].pc = "pop" /\ call[a].cmd \in Command /\ call[a].cmd.by = a
        /\ sync_mutex[d] = a /\ UNCHANGED timedOut
        /\ \A b \in Actor : b # a => last'[b] = last[b]
        /\ last'[a].cmd = call[a].cmd
        /\ last'[a].resp = IF in_queue[d] = <<>> THEN NoMsg ELSE Head(in_queue[d])
    BY <1>1, <1>2, <2>0 DEF SyncReturn, history, CallInv, Exclusive, Holds
  <2>2. ~timedOut[d] => last'[a].resp = Confirm(call[a].cmd)
    <3>1. ~timedOut[d] => in_queue[d] = <<Confirm(call[a].cmd)>>
      BY <2>1, ConstantsAssumption DEF CallInv, OneUnderWay, Answered
    <3>2. \A m : <<m>> # <<>> /\ Head(<<m>>) = m
      OBVIOUS
    <3> QED BY <2>1, <3>1, <3>2, Zenon
  <2>3. Resulted'
    BY <2>1 DEF CallInv, Resulted
  <2> QED
    BY <2>0, <2>1, <2>2, <2>3 DEF CallInv, AnswerMatchesCommand
<1>3. ASSUME last' = last, \A d \in Dev : timedOut[d] => timedOut'[d]
      PROVE  Resulted' /\ AnswerMatchesCommand'
  BY <1>1, <1>3 DEF CallInv, Resulted, AnswerMatchesCommand
<1>4. ASSUME NEW a \in Actor, SyncTimeout(a) PROVE Resulted' /\ AnswerMatchesCommand'
  <2>1. last' = last /\ timedOut' = [timedOut EXCEPT ![call[a].cmd.dev] = TRUE]
    BY <1>4 DEF SyncTimeout
  <2> QED BY <1>1, <1>3, <2>1
<1>5. ASSUME NEW a \in Actor,
             SyncSend(a) \/ SyncDrained(a) \/ SyncAnswered(a)
                 \/ \E d \in Dev : SendAsync(a, d) \/ SyncBegin(a, d)
      PROVE  UNCHANGED <<last, timedOut>>
  BY <1>5 DEF SyncSend, SyncDrained, SyncAnswered, SendAsync, SyncBegin, history
<1>6. ASSUME NEW t \in Thread,
             CloseJoin(t) \/ CloseFlush(t) \/ \E d \in Dev : Open(t, d) \/ CloseBegin(t, d)
      PROVE  UNCHANGED <<last, timedOut>>
  BY <1>6 DEF CloseJoin, CloseFlush, Open, CloseBegin, caller, history
<1>7. ASSUME NEW d \in Dev,
             IoFlush(d) \/ IoRead(d) \/ IoPop(d) \/ IoSend(d) \/ IoSendError(d)
               \/ ChipExecute(d) \/ ChipLose(d) \/ ChipIndicate(d)
      PROVE  UNCHANGED <<last, timedOut>>
  BY <1>7 DEF IoFlush, IoRead, IoPop, IoSend, IoSendError, Written, ChipExecute, ChipLose,
              ChipIndicate, caller, history
<1>8. CASE Aside
  BY <1>3, <1>8 DEF Aside
<1> QED
  BY <1>2, <1>3, <1>4, <1>5, <1>6, <1>7, <1>8, StepsOfCalls

LEMMA CallInvariant == Spec => [](TypeOK /\ CallInv)
<1>1. Init => CallInv
  <2> SUFFICES ASSUME Init PROVE CallInv
    OBVIOUS
  <2>1. Exclusive /\ Calling /\ Closing
    BY DEF Init, Exclusive, Calling, Closing, Holds, NoCall
  <2>2. \A d \in Dev : OneUnderWay(d)
    BY DEF Init, OneUnderWay, Nowhere, NoneSent, Free, IsSync, NoMsg, Msg
  <2>3. Resulted /\ AnswerMatchesCommand
    BY DEF Init, Resulted, AnswerMatchesCommand, NoResult
  <2> QED BY <2>1, <2>2, <2>3 DEF CallInv
<1>2. TypeOK /\ CallInv /\ [Next]_vars => CallInv'
  BY ExclusiveStep, UnderWayStep, ResultStep DEF CallInv
<1> QED
  BY <1>1, <1>2, TypeCorrect, PTL DEF Spec

\* On a device where no call has timed out, a synchronous call that succeeds
\* returns the answer to its own command (sync_mutex in ca821x_exchange_commands),
\* however many threads call, through write errors, lost commands and reopening.
THEOREM AnswersMatch == Spec => []AnswerMatchesCommand
<1>1. CallInv => AnswerMatchesCommand
  BY DEF CallInv
<1> QED
  BY <1>1, CallInvariant, PTL

----------------------------------------------------------------------------
(* The order of commands.                                                  *)

\* In a sequence, and between one sequence and a later one, the commands of
\* each thread are in the order of their numbers.
Before(q, r) == \A i \in DOMAIN q, j \in DOMAIN r : q[i].by = r[j].by => q[i].n < r[j].n
Ordered(q) == \A i, j \in DOMAIN q : i < j /\ q[i].by = q[j].by => q[i].n < q[j].n

LEMMA OrderNothing ==
    /\ Ordered(<<>>)
    /\ \A q : Before(q, <<>>) /\ Before(<<>>, q)
BY DEF Ordered, Before

LEMMA OrderAppend ==
    ASSUME NEW S, NEW q \in Seq(S), NEW r \in Seq(S), NEW m \in S
    PROVE  /\ Ordered(q) /\ Before(q, <<m>>) => Ordered(Append(q, m))
           /\ Before(q, r) /\ Before(<<m>>, r) => Before(Append(q, m), r)
           /\ Before(r, q) /\ Before(r, <<m>>) => Before(r, Append(q, m))
<1>1. /\ DOMAIN q = 1..Len(q) /\ Len(q) \in Nat
      /\ DOMAIN Append(q, m) = 1..Len(q) + 1 /\ Append(q, m)[Len(q) + 1] = m
      /\ \A i \in 1..Len(q) : Append(q, m)[i] = q[i]
      /\ DOMAIN <<m>> = {1} /\ <<m>>[1] = m
  OBVIOUS
<1>2. \A i \in 1..Len(q) + 1 : i \in 1..Len(q) \/ i = Len(q) + 1
  BY <1>1
<1>3. ASSUME Ordered(q), Before(q, <<m>>) PROVE Ordered(Append(q, m))
  BY <1>1, <1>2, <1>3 DEF Ordered, Before
<1>4. ASSUME Before(q, r), Before(<<m>>, r) PROVE Before(Append(q, m), r)
  BY <1>1, <1>2, <1>4 DEF Before
<1>5. ASSUME Before(r, q), Before(r, <<m>>) PROVE Before(r, Append(q, m))
  BY <1>1, <1>2, <1>5 DEF Before
<1> QED BY <1>3, <1>4, <1>5

LEMMA OrderTail ==
    ASSUME NEW S, NEW q \in Seq(S), q # <<>>, NEW r
    PROVE  /\ Ordered(q) => Ordered(Tail(q)) /\ Before(<<Head(q)>>, Tail(q))
           /\ Before(q, r) => Before(Tail(q), r) /\ Before(<<Head(q)>>, r)
           /\ Before(r, q) => Before(r, Tail(q)) /\ Before(r, <<Head(q)>>)
<1>1. /\ DOMAIN q = 1..Len(q) /\ Len(q) \in Nat \ {0} /\ Head(q) = q[1]
      /\ DOMAIN Tail(q) = 1..Len(q) - 1
      /\ \A i \in 1..Len(q) - 1 : Tail(q)[i] = q[i + 1]
  OBVIOUS
<1>2. \A m : DOMAIN <<m>> = {1} /\ <<m>>[1] = m
  OBVIOUS
<1>3. /\ 1 \in 1..Len(q)
      /\ \A i \in 1..Len(q) - 1 : i + 1 \in 1..Len(q) /\ 1 < i + 1
      /\ \A i, j \in 1..Len(q) - 1 : i < j => i + 1 < j + 1
  BY <1>1
<1>4. Ordered(q) => Ordered(Tail(q))
  BY <1>1, <1>3 DEF Ordered
<1>5. Ordered(q) => Before(<<Head(q)>>, Tail(q))
  BY <1>1, <1>2, <1>3 DEF Ordered, Before
<1>6. Before(q, r) => Before(Tail(q), r) /\ Before(<<Head(q)>>, r)
  BY <1>1, <1>2, <1>3 DEF Before
<1>7. Before(r, q) => Before(r, Tail(q)) /\ Before(r, <<Head(q)>>)
  BY <1>1, <1>2, <1>3 DEF Before
<1> QED BY <1>4, <1>5, <1>6, <1>7

LEMMA OrderConcat ==
    ASSUME NEW S, NEW q \in Seq(S), NEW r \in Seq(S), NEW s \in Seq(S)
    PROVE  /\ Ordered(q) /\ Ordered(r) /\ Before(q, r) => Ordered(q \o r)
           /\ Before(q, s) /\ Before(r, s) => Before(q \o r, s)
<1>1. /\ DOMAIN q = 1..Len(q) /\ Len(q) \in Nat
      /\ DOMAIN r = 1..Len(r) /\ Len(r) \in Nat
      /\ DOMAIN (q \o r) = 1..Len(q) + Len(r)
      /\ \A i \in 1..Len(q) + Len(r) :
             (q \o r)[i] = IF i <= Len(q) THEN q[i] ELSE r[i - Len(q)]
  OBVIOUS
<1>2. \A i \in 1..Len(q) + Len(r) :
          IF i <= Len(q) THEN i \in 1..Len(q) ELSE i - Len(q) \in 1..Len(r)
  BY <1>1
<1>3. ASSUME Ordered(q), Ordered(r), Before(q, r) PROVE Ordered(q \o r)
  <2> SUFFICES ASSUME NEW i \in 1..Len(q) + Len(r), NEW j \in 1..Len(q) + Len(r),
                      i < j, (q \o r)[i].by = (q \o r)[j].by
               PROVE  (q \o r)[i].n < (q \o r)[j].n
    BY <1>1 DEF Ordered
  <2>1. CASE j <= Len(q)
    <3>1. i \in 1..Len(q) /\ j \in 1..Len(q) /\ (q \o r)[i] = q[i] /\ (q \o r)[j] = q[j]
      BY <1>1, <2>1
    <3> QED BY <1>1, <1>3, <3>1 DEF Ordered
  <2>2. CASE i <= Len(q) /\ ~(j <= Len(q))
    <3>1. /\ i \in 1..Len(q) /\ j - Len(q) \in 1..Len(r)
          /\ (q \o r)[i] = q[i] /\ (q \o r)[j] = r[j - Len(q)]
      BY <1>1, <2>2
    <3> QED BY <1>1, <1>3, <3>1 DEF Before
  <2>3. CASE ~(i <= Len(q))
    <3>1. /\ i - Len(q) \in 1..Len(r) /\ j - Len(q) \in 1..Len(r) /\ i - Len(q) < j - Len(q)
          /\ (q \o r)[i] = r[i - Len(q)] /\ (q \o r)[j] = r[j - Len(q)]
      BY <1>1, <2>3
    <3> QED BY <1>1, <1>3, <3>1 DEF Ordered
  <2> QED BY <1>1, <2>1, <2>2, <2>3
<1>4. ASSUME Before(q, s), Before(r, s) PROVE Before(q \o r, s)
  BY <1>1, <1>2, <1>4 DEF Before
<1> QED BY <1>3, <1>4

\* What was executed, what is at the chip, what is being written (if anything)
\* and what is queued.
Pipe(e, t, w, o) ==
    /\ Ordered(e) /\ Ordered(t) /\ Ordered(o)
    /\ Before(e, t) /\ Before(e, w) /\ Before(e, o)
    /\ Before(t, w) /\ Before(t, o) /\ Before(w, o)

\* What the steps do to them: queue, pop, write, fail to, execute, lose, clear.
LEMMA PipeSteps ==
    ASSUME NEW e \in Seq(Command), NEW t \in Seq(Command), NEW w \in Seq(Command),
           NEW o \in Seq(Command), Pipe(e, t, w, o)
    PROVE  /\ \A m \in Command :
                  Before(e, <<m>>) /\ Before(t, <<m>>) /\ Before(w, <<m>>) /\ Before(o, <<m>>)
                      => Pipe(e, t, w, Append(o, m))
           /\ \A m \in Command : w = <<m>> => Pipe(e, Append(t, m), <<>>, o)
           /\ o # <<>> => Pipe(e, t, <<Head(o)>>, Tail(o))
           /\ t # <<>> => /\ Pipe(Append(e, Head(t)), Tail(t), w, o)
                          /\ Pipe(e, Tail(t), w, o)
           /\ Pipe(e, t, <<>>, o)
           /\ Pipe(e, t, w, <<>>)
<1> USE DEF Pipe
<1>1. ASSUME NEW m \in Command, Before(e, <<m>>), Before(t, <<m>>), Before(w, <<m>>),
             Before(o, <<m>>)
      PROVE  Pipe(e, t, w, Append(o, m))
  BY <1>1, OrderAppend
<1>2. ASSUME NEW m \in Command, w = <<m>> PROVE Pipe(e, Append(t, m), <<>>, o)
  <2>1. Before(e, Append(t, m)) /\ Ordered(Append(t, m)) /\ Before(Append(t, m), o)
    BY <1>2, OrderAppend
  <2> QED BY <2>1, OrderNothing
<1>3. ASSUME o # <<>> PROVE Pipe(e, t, <<Head(o)>>, Tail(o))
  BY <1>3, OrderTail
<1>4. ASSUME t # <<>>
      PROVE  Pipe(Append(e, Head(t)), Tail(t), w, o) /\ Pipe(e, Tail(t), w, o)
  <2>1. /\ Ordered(Tail(t)) /\ Before(<<Head(t)>>, Tail(t))
        /\ Before(e, Tail(t)) /\ Before(e, <<Head(t)>>)
        /\ Before(Tail(t), w) /\ Before(<<Head(t)>>, w)
        /\ Before(Tail(t), o) /\ Before(<<Head(t)>>, o)
        /\ Head(t) \in Command /\ Tail(t) \in Seq(Command)
    <3> HIDE DEF Pipe
    <3>1. /\ Ordered(t) /\ Before(e, t) /\ Before(t, w) /\ Before(t, o)
      BY DEF Pipe
    <3>2. Ordered(Tail(t)) /\ Before(<<Head(t)>>, Tail(t))
      BY <1>4, <3>1, OrderTail
    <3>3. Before(e, Tail(t)) /\ Before(e, <<Head(t)>>)
      BY <1>4, <3>1, OrderTail
    <3>4. Before(Tail(t), w) /\ Before(<<Head(t)>>, w)
      BY <1>4, <3>1, OrderTail
    <3>5. Before(Tail(t), o) /\ Before(<<Head(t)>>, o)
      BY <1>4, <3>1, OrderTail
    <3> QED BY <1>4, <3>2, <3>3, <3>4, <3>5
  <2>2. /\ Ordered(Append(e, Head(t))) /\ Before(Append(e, Head(t)), Tail(t))
        /\ Before(Append(e, Head(t)), w) /\ Before(Append(e, Head(t)), o)
    <3> HIDE DEF Pipe
    <3>1. Before(e, t) /\ Ordered(e) /\ Before(e, w) /\ Before(e, o)
      BY DEF Pipe
    <3>2. Ordered(Append(e, Head(t)))
      BY <2>1, <3>1, OrderAppend
    <3>3. Before(Append(e, Head(t)), Tail(t))
      BY <2>1, <3>1, OrderAppend
    <3>4. Before(Append(e, Head(t)), w)
      BY <2>1, <3>1, OrderAppend
    <3>5. Before(Append(e, Head(t)), o)
      BY <2>1, <3>1, OrderAppend
    <3> QED BY <3>2, <3>3, <3>4, <3>5
  <2> QED BY <2>1, <2>2
<1>5. Pipe(e, t, <<>>, o) /\ Pipe(e, t, w, <<>>)
  BY OrderNothing
<1> HIDE DEF Pipe
<1>6. \A m \in Command :
          Before(e, <<m>>) /\ Before(t, <<m>>) /\ Before(w, <<m>>) /\ Before(o, <<m>>)
              => Pipe(e, t, w, Append(o, m))
  BY <1>1
<1>7. \A m \in Command : w = <<m>> => Pipe(e, Append(t, m), <<>>, o)
  BY <1>2
<1> QED BY <1>3, <1>4, <1>5, <1>6, <1>7

\* The number of commands that a thread has put into out queues.
Given == [a \in Actor |-> IF call[a].pc = "lock" THEN issued[a] - 1 ELSE issued[a]]
Within(q, g) == \A i \in DOMAIN q : q[i].n <= g[q[i].by]

LEMMA WithinSteps ==
    ASSUME NEW q \in Seq(Command), NEW g \in [Actor -> Int], Within(q, g)
    PROVE  /\ q # <<>> => Within(Tail(q), g) /\ Within(<<Head(q)>>, g)
           /\ \A m \in Command : m.n <= g[m.by] => Within(Append(q, m), g)
           /\ \A m \in Command : g[m.by] < m.n => Before(q, <<m>>)
           /\ \A h \in [Actor -> Int] : (\A a \in Actor : g[a] <= h[a]) => Within(q, h)
<1>1. /\ DOMAIN q = 1..Len(q) /\ Len(q) \in Nat /\ \A i \in 1..Len(q) : q[i] \in Command
      /\ \A c \in Command : c.n \in Nat /\ c.by \in Actor
  <2>1. \A c \in Command : c.n \in Nat /\ c.by \in Actor
    BY DEF Command
  <2> QED BY <2>1
<1>2. ASSUME q # <<>> PROVE Within(Tail(q), g) /\ Within(<<Head(q)>>, g)
  <2>1. /\ Head(q) = q[1] /\ 1 \in 1..Len(q)
        /\ DOMAIN Tail(q) = 1..Len(q) - 1
        /\ \A i \in 1..Len(q) - 1 : Tail(q)[i] = q[i + 1] /\ i + 1 \in 1..Len(q)
    BY <1>2
  <2>2. \A m : DOMAIN <<m>> = {1} /\ <<m>>[1] = m
    OBVIOUS
  <2> QED BY <1>1, <2>1, <2>2 DEF Within
<1>3. ASSUME NEW m \in Command, m.n <= g[m.by] PROVE Within(Append(q, m), g)
  <2>1. /\ DOMAIN Append(q, m) = 1..Len(q) + 1 /\ Append(q, m)[Len(q) + 1] = m
        /\ \A i \in 1..Len(q) : Append(q, m)[i] = q[i]
        /\ \A i \in 1..Len(q) + 1 : i \in 1..Len(q) \/ i = Len(q) + 1
    BY <1>1
  <2> QED BY <1>1, <1>3, <2>1 DEF Within
<1>4. ASSUME NEW m \in Command, g[m.by] < m.n PROVE Before(q, <<m>>)
  <2> SUFFICES ASSUME NEW i \in 1..Len(q), q[i].by = m.by PROVE q[i].n < m.n
    BY <1>1 DEF Before
  <2>1. q[i].n <= g[m.by] /\ q[i].n \in Nat /\ m.n \in Nat /\ g[m.by] \in Int
    BY <1>1 DEF Within
  <2> QED BY <1>4, <2>1
<1>5. ASSUME NEW h \in [Actor -> Int], \A a \in Actor : g[a] <= h[a] PROVE Within(q, h)
  <2> SUFFICES ASSUME NEW i \in 1..Len(q) PROVE q[i].n <= h[q[i].by]
    BY <1>1 DEF Within
  <2>1. /\ q[i].n <= g[q[i].by] /\ g[q[i].by] <= h[q[i].by]
        /\ q[i].n \in Nat /\ g[q[i].by] \in Int /\ h[q[i].by] \in Int
    BY <1>1, <1>5 DEF Within
  <2> QED BY <2>1
<1> QED BY <1>2, <1>3, <1>4, <1>5

\* The commands of a device, in order, and none newer than what was given.
Commands(d) == Pipe(executed[d], toChip[d], One(writing[d]), out_queue[d])
AllGiven(d) ==
    /\ Within(executed[d], Given) /\ Within(toChip[d], Given)
    /\ Within(One(writing[d]), Given) /\ Within(out_queue[d], Given)

LEMMA WritingTypes ==
    \A m \in Command \cup {NoMsg} :
        /\ One(m) \in Seq(Command)
        /\ m \in Command => m # NoMsg /\ One(m) = <<m>>
        /\ One(NoMsg) = <<>>
<1>1. \A m \in Command : m # NoMsg
  BY DEF NoMsg, Msg, Command
<1>2. \A m \in Command : <<m>> \in Seq(Command)
  OBVIOUS
<1>3. <<>> \in Seq(Command)
  OBVIOUS
<1> QED BY <1>1, <1>2, <1>3 DEF One

\* Giving a command moves the count of its thread on; nothing moves it back.
LEMMA GivenStep ==
    ASSUME TypeOK, Calling, [Next]_vars
    PROVE  /\ Given \in [Actor -> Int] /\ Given' \in [Actor -> Int]
           /\ \A a \in Actor : Given[a] <= Given'[a]
           /\ \A a \in Actor, d \in Dev : SendAsync(a, d) => Given[a] < issued[a] + 1
                                                          /\ Given'[a] = issued[a] + 1
           /\ \A a \in Actor : SyncSend(a) => Given[a] < call[a].cmd.n
                                           /\ Given'[a] = call[a].cmd.n
<1>1. /\ call \in [Actor -> [pc : CallPcs, cmd : Command \cup {NoMsg}, ok : BOOLEAN]]
      /\ issued \in [Actor -> Nat]
  BY DEF TypeOK, CallerOK
<1>2. /\ Given \in [Actor -> Int]
      /\ \A a \in Actor : Given[a] = IF call[a].pc = "lock" THEN issued[a] - 1 ELSE issued[a]
  BY <1>1 DEF Given
<1>3. TypeOK'
  BY TypeStep
<1>4. /\ Given' \in [Actor -> Int]
      /\ \A a \in Actor : Given'[a] = IF call'[a].pc = "lock" THEN issued'[a] - 1 ELSE issued'[a]
  BY <1>3 DEF TypeOK, CallerOK, Given
<1>5. ASSUME NEW a \in Actor, NEW d \in Dev, SendAsync(a, d)
      PROVE  /\ call' = call /\ issued' = [issued EXCEPT ![a] = @ + 1] /\ call[a].pc = "idle"
  BY <1>5 DEF SendAsync, MayIssue
<1>6. ASSUME NEW a \in Actor, SyncSend(a)
      PROVE  /\ call[a].pc = "lock" /\ call[a].cmd.n = issued[a] /\ issued' = issued
             /\ call'[a].pc = "drain" /\ \A b \in Actor : b # a => call'[b] = call[b]
  BY <1>1, <1>6 DEF SyncSend, CallAt, Calling
<1>7. \A a \in Actor : Given[a] <= Given'[a]
  <2>1. ASSUME NEW a \in Actor, NEW d \in Dev, SyncBegin(a, d)
        PROVE  \A b \in Actor : Given[b] <= Given'[b]
    <3>1. /\ call[a].pc = "idle" /\ issued' = [issued EXCEPT ![a] = @ + 1]
          /\ call'[a].pc = "lock" /\ \A b \in Actor : b # a => call'[b] = call[b]
      BY <1>1, <2>1 DEF SyncBegin, MayIssue
    <3> QED BY <1>1, <1>2, <1>4, <3>1
  <2>2. ASSUME NEW a \in Actor,
               SyncDrained(a) \/ SyncAnswered(a) \/ SyncTimeout(a) \/ SyncReturn(a)
        PROVE  \A b \in Actor : Given[b] <= Given'[b]
    <3>1. /\ call[a].pc # "lock" /\ call'[a].pc # "lock" /\ issued' = issued
          /\ \A b \in Actor : b # a => call'[b] = call[b]
      BY <1>1, <2>2 DEF SyncDrained, SyncAnswered, SyncTimeout, SyncReturn, CallAt, NoCall
    <3> QED BY <1>1, <1>2, <1>4, <3>1
  <2>3. ASSUME NEW a \in Actor, NEW d \in Dev, SendAsync(a, d)
        PROVE  \A b \in Actor : Given[b] <= Given'[b]
    BY <1>1, <1>2, <1>4, <1>5, <2>3
  <2>4. ASSUME NEW a \in Actor, SyncSend(a)
        PROVE  \A b \in Actor : Given[b] <= Given'[b]
    BY <1>1, <1>2, <1>4, <1>6, <2>4
  <2>5. CASE UNCHANGED <<call, issued>>
    BY <1>1, <1>2, <1>4, <2>5
  <2>6. ASSUME NEW t \in Thread,
               CloseJoin(t) \/ CloseFlush(t) \/ \E d \in Dev : Open(t, d) \/ CloseBegin(t, d)
        PROVE  UNCHANGED <<call, issued>>
    BY <2>6 DEF CloseJoin, CloseFlush, Open, CloseBegin, caller
  <2>7. ASSUME NEW d \in Dev,
               IoFlush(d) \/ IoRead(d) \/ IoPop(d) \/ IoSend(d) \/ IoSendError(d)
                 \/ ChipExecute(d) \/ ChipLose(d) \/ ChipIndicate(d)
        PROVE  UNCHANGED <<call, issued>>
    BY <2>7 DEF IoFlush, IoRead, IoPop, IoSend, IoSendError, Written, ChipExecute, ChipLose,
                ChipIndicate, caller
  <2>8. CASE Aside
    BY <2>5, <2>8 DEF Aside
  <2> QED
    BY <2>1, <2>2, <2>3, <2>4, <2>5, <2>6, <2>7, <2>8, StepsOfCalls
<1>8. ASSUME NEW a \in Actor, NEW d \in Dev, SendAsync(a, d)
      PROVE  Given[a] < issued[a] + 1 /\ Given'[a] = issued[a] + 1
  BY <1>1, <1>2, <1>4, <1>5, <1>8
<1>9. ASSUME NEW a \in Actor, SyncSend(a)
      PROVE  Given[a] < call[a].cmd.n /\ Given'[a] = call[a].cmd.n
  BY <1>1, <1>2, <1>4, <1>6, <1>9
<1> QED
  BY <1>2, <1>4, <1>7, <1>8, <1>9

\* What a step may do to the commands of a device.
Kept(d)     == UNCHANGED <<executed[d], toChip[d], writing[d]>>
               /\ out_queue'[d] \in {out_queue[d], <<>>}
Queued(d)   == UNCHANGED <<executed[d], toChip[d], writing[d]>>
               /\ \E m \in Command : /\ out_queue'[d] = Append(out_queue[d], m)
                                     /\ Given[m.by] < m.n /\ m.n <= Given'[m.by]
Popped(d)   == UNCHANGED <<executed[d], toChip[d]>>
               /\ out_queue[d] # <<>> /\ out_queue'[d] = Tail(out_queue[d])
               /\ writing'[d] = Head(out_queue[d])
Gone(d)     == UNCHANGED <<executed[d], out_queue[d]>> /\ writing'[d] = NoMsg
               /\ \/ UNCHANGED toChip[d]
                  \/ writing[d] \in Command /\ toChip'[d] = Append(toChip[d], writing[d])
Taken(d)    == UNCHANGED <<writing[d], out_queue[d]>>
               /\ toChip[d] # <<>> /\ toChip'[d] = Tail(toChip[d])
               /\ \/ UNCHANGED executed[d]
                  \/ executed'[d] = Append(executed[d], Head(toChip[d]))

LEMMA CommandMoves ==
    ASSUME TypeOK, Calling, [Next]_vars, NEW d \in Dev
    PROVE  Kept(d) \/ Queued(d) \/ Popped(d) \/ Gone(d) \/ Taken(d)
<1>1. /\ out_queue \in [Dev -> Seq(Command)]
      /\ writing \in [Dev -> Command \cup {NoMsg}] /\ (io[d] = "send" => writing[d] \in Command)
      /\ toChip \in [Dev -> Seq(Command)] /\ executed \in [Dev -> Seq(Command)]
      /\ issued \in [Actor -> Nat]
      /\ \A a \in Actor : call[a].pc # "idle" => call[a].cmd \in Command /\ call[a].cmd.by = a
  BY DEF TypeOK, QueuesOK, DeviceOK, ChipOK, HistoryOK, CallerOK, Calling
<1>2. CASE UNCHANGED <<executed, toChip, writing, out_queue>>
  BY <1>2 DEF Kept
<1>3. ASSUME NEW a \in Actor, NEW b \in Dev, SendAsync(a, b) PROVE Kept(d) \/ Queued(d)
  <2> DEFINE m == NewCommand("async", a, b)
  <2>1. m \in Command /\ m.by = a /\ m.n = issued[a] + 1
    <3>1. issued[a] + 1 \in Nat
      BY <1>1
    <3>2. m.by = a /\ m.n = issued[a] + 1
      BY DEF NewCommand, Msg
    <3> QED BY <3>1, <3>2, MessageTypes DEF NewCommand
  <2>2. /\ out_queue' = [out_queue EXCEPT ![b] = Append(@, m)]
        /\ UNCHANGED <<executed, toChip, writing>>
    BY <1>3 DEF SendAsync, AddTo, device, chip, history
  <2>3. Given[a] < m.n /\ m.n <= Given'[a]
    BY <1>1, <1>3, <2>1, GivenStep
  <2> HIDE DEF m
  <2>4. out_queue'[d] = IF d = b THEN Append(out_queue[d], m) ELSE out_queue[d]
    BY <1>1, <2>2
  <2> QED BY <2>1, <2>2, <2>3, <2>4 DEF Kept, Queued
<1>4. ASSUME NEW a \in Actor, SyncSend(a) PROVE Kept(d) \/ Queued(d)
  <2>1. /\ call[a].cmd \in Command /\ call[a].cmd.by = a
        /\ out_queue' = [out_queue EXCEPT ![call[a].cmd.dev] = Append(@, call[a].cmd)]
        /\ UNCHANGED <<executed, toChip, writing>>
    BY <1>1, <1>4 DEF SyncSend, AddTo, chip, history
  <2>2. Given[a] < call[a].cmd.n /\ call[a].cmd.n <= Given'[a]
    <3>1. call[a].cmd.n \in Nat
      BY <2>1 DEF Command
    <3> QED BY <1>4, <3>1, GivenStep
  <2>3. \/ out_queue'[d] = Append(out_queue[d], call[a].cmd)
        \/ out_queue'[d] = out_queue[d]
    BY <1>1, <2>1
  <2> QED BY <2>1, <2>2, <2>3 DEF Kept, Queued
<1>5. ASSUME NEW a \in Actor,
             SyncDrained(a) \/ SyncAnswered(a) \/ SyncTimeout(a) \/ SyncReturn(a)
                 \/ \E b \in Dev : SyncBegin(a, b)
      PROVE  UNCHANGED <<executed, toChip, writing, out_queue>>
  BY <1>5 DEF SyncDrained, SyncAnswered, SyncTimeout, SyncReturn, SyncBegin, queues, device,
              chip, history
<1>6. ASSUME NEW t \in Thread, CloseJoin(t) \/ \E b \in Dev : Open(t, b)
      PROVE  Kept(d)
  <2>1. /\ UNCHANGED <<executed, toChip, writing>>
        /\ \E b : out_queue' = [out_queue EXCEPT ![b] = <<>>]
    BY <1>6 DEF CloseJoin, Open, chip, history
  <2> QED BY <1>1, <2>1 DEF Kept
<1>7. ASSUME NEW t \in Thread, CloseFlush(t) \/ \E b \in Dev : CloseBegin(t, b)
      PROVE  UNCHANGED <<executed, toChip, writing, out_queue>>
  BY <1>7 DEF CloseFlush, CloseBegin, queues, chip, history
<1>8. ASSUME NEW b \in Dev, IoFlush(b) \/ IoRead(b) \/ ChipIndicate(b)
      PROVE  UNCHANGED <<executed, toChip, writing, out_queue>>
  BY <1>8 DEF IoFlush, IoRead, ChipIndicate, queues, device, history
<1>9. ASSUME NEW b \in Dev, IoPop(b) PROVE Kept(d) \/ Popped(d)
  <2>1. /\ UNCHANGED <<executed, toChip>> /\ out_queue[b] # <<>>
        /\ out_queue' = [out_queue EXCEPT ![b] = Tail(@)]
        /\ writing' = [writing EXCEPT ![b] = Head(out_queue[b])]
    BY <1>9 DEF IoPop, PopFrom, chip, history
  <2> QED BY <1>1, <2>1 DEF Kept, Popped
<1>10. ASSUME NEW b \in Dev, IoSend(b) \/ IoSendError(b) PROVE Kept(d) \/ Gone(d)
  <2>1. /\ UNCHANGED <<executed, out_queue>> /\ io[b] = "send"
        /\ writing' = [writing EXCEPT ![b] = NoMsg]
        /\ UNCHANGED toChip \/ toChip' = [toChip EXCEPT ![b] = Append(@, writing[b])]
    BY <1>10 DEF IoSend, IoSendError, Written, AddTo, queues, history
  <2> QED BY <1>1, <2>1 DEF Kept, Gone
<1>11. ASSUME NEW b \in Dev, ChipExecute(b) \/ ChipLose(b) PROVE Kept(d) \/ Taken(d)
  <2>1. /\ UNCHANGED <<writing, out_queue>> /\ toChip[b] # <<>>
        /\ toChip' = [toChip EXCEPT ![b] = Tail(@)]
        /\ \/ UNCHANGED executed
           \/ executed' = [executed EXCEPT ![b] = Append(@, Head(toChip[b]))]
    BY <1>11 DEF ChipExecute, ChipLose, PopFrom, queues, device, history
  <2> QED BY <1>1, <2>1 DEF Kept, Taken
<1>12. CASE Aside
  BY <1>2, <1>12 DEF Aside
<1> QED
  BY <1>2, <1>3, <1>4, <1>5, <1>6, <1>7, <1>8, <1>9, <1>10, <1>11, <1>12, StepsOfCalls

LEMMA CommandsStep ==
    ASSUME TypeOK, Calling, [Next]_vars, NEW d \in Dev, Commands(d), AllGiven(d)
    PROVE  Commands(d)' /\ AllGiven(d)'
<1> DEFINE e == executed[d]   t == toChip[d]   w == One(writing[d])   o == out_queue[d]
<1>1. /\ e \in Seq(Command) /\ t \in Seq(Command) /\ w \in Seq(Command) /\ o \in Seq(Command)
      /\ Given \in [Actor -> Int] /\ Given' \in [Actor -> Int]
  BY WritingTypes, GivenStep DEF TypeOK, QueuesOK, DeviceOK, ChipOK, HistoryOK
<1>2. Pipe(e, t, w, o)
  BY DEF Commands
<1>3. /\ Within(e, Given) /\ Within(t, Given) /\ Within(w, Given) /\ Within(o, Given)
  BY DEF AllGiven
<1>4. \A q \in Seq(Command) : Within(q, Given) => Within(q, Given')
  BY <1>1, GivenStep, WithinSteps
<1>5. CASE Kept(d)
  <2>1. /\ e' = e /\ t' = t /\ w' = w /\ o' \in {o, <<>>}
    BY <1>5 DEF Kept
  <2>2. Within(<<>>, Given')
    BY DEF Within
  <2>3. Pipe(e, t, w, <<>>)
    BY <1>1, <1>2, PipeSteps
  <2> QED BY <1>1, <1>2, <1>3, <1>4, <2>1, <2>2, <2>3 DEF Commands, AllGiven
<1>6. CASE Queued(d)
  <2>1. PICK m \in Command : /\ o' = Append(o, m)
                             /\ Given[m.by] < m.n /\ m.n <= Given'[m.by]
    BY <1>6 DEF Queued
  <2>2. e' = e /\ t' = t /\ w' = w
    BY <1>6 DEF Queued
  <2>3. Before(e, <<m>>) /\ Before(t, <<m>>) /\ Before(w, <<m>>) /\ Before(o, <<m>>)
    BY <1>1, <1>3, <2>1, WithinSteps
  <2>4. Pipe(e, t, w, Append(o, m))
    BY <1>1, <1>2, <2>3, PipeSteps
  <2>5. Within(Append(o, m), Given')
    BY <1>1, <1>3, <1>4, <2>1, WithinSteps
  <2> QED BY <1>1, <1>3, <1>4, <2>1, <2>2, <2>4, <2>5 DEF Commands, AllGiven
<1>7. CASE Popped(d)
  <2>1. o # <<>> /\ o' = Tail(o) /\ e' = e /\ t' = t
    BY <1>7 DEF Popped
  <2>2. w' = <<Head(o)>>
    <3>1. writing'[d] = Head(o) /\ Head(o) \in Command
      BY <1>1, <1>7, <2>1 DEF Popped
    <3> QED BY <3>1, WritingTypes
  <2>3. Pipe(e, t, <<Head(o)>>, Tail(o))
    BY <1>1, <1>2, <2>1, PipeSteps
  <2>4. Within(Tail(o), Given) /\ Within(<<Head(o)>>, Given)
    BY <1>1, <1>3, <2>1, WithinSteps
  <2>5. Tail(o) \in Seq(Command) /\ <<Head(o)>> \in Seq(Command)
    BY <1>1, <2>1
  <2> QED BY <1>1, <1>3, <1>4, <2>1, <2>2, <2>3, <2>4, <2>5 DEF Commands, AllGiven
<1>8. CASE Gone(d)
  <2>1. e' = e /\ o' = o /\ w' = <<>>
    BY <1>8, WritingTypes DEF Gone
  <2>2. Within(<<>>, Given')
    BY DEF Within
  <2>3. CASE t' = t
    <3>1. Pipe(e, t, <<>>, o)
      BY <1>1, <1>2, PipeSteps
    <3> QED BY <1>1, <1>3, <1>4, <2>1, <2>2, <2>3, <3>1 DEF Commands, AllGiven
  <2>4. CASE writing[d] \in Command /\ t' = Append(t, writing[d])
    <3>1. w = <<writing[d]>>
      BY <2>4, WritingTypes
    <3>2. Pipe(e, Append(t, writing[d]), <<>>, o)
      BY <1>1, <1>2, <2>4, <3>1, PipeSteps
    <3>3. Within(Append(t, writing[d]), Given')
      <4>1. writing[d].n <= Given[writing[d].by]
        <5>1. 1 \in DOMAIN <<writing[d]>> /\ <<writing[d]>>[1] = writing[d]
          OBVIOUS
        <5> QED BY <1>3, <3>1, <5>1 DEF Within
      <4>2. Append(t, writing[d]) \in Seq(Command)
        BY <1>1, <2>4
      <4>3. Within(Append(t, writing[d]), Given)
        BY <1>1, <1>3, <2>4, <4>1, WithinSteps
      <4> QED BY <1>4, <4>2, <4>3
    <3> QED BY <1>1, <1>3, <1>4, <2>1, <2>2, <2>4, <3>2, <3>3 DEF Commands, AllGiven
  <2> QED BY <1>8, <2>3, <2>4 DEF Gone
<1>9. CASE Taken(d)
  <2>1. t # <<>> /\ t' = Tail(t) /\ o' = o /\ w' = w
    BY <1>9 DEF Taken
  <2>2. /\ Head(t) \in Command /\ Tail(t) \in Seq(Command)
        /\ Append(e, Head(t)) \in Seq(Command)
    BY <1>1, <2>1
  <2>3. Within(Tail(t), Given) /\ Head(t).n <= Given[Head(t).by]
    <3>1. Within(Tail(t), Given) /\ Within(<<Head(t)>>, Given)
      BY <1>1, <1>3, <2>1, WithinSteps
    <3>2. 1 \in DOMAIN <<Head(t)>> /\ <<Head(t)>>[1] = Head(t)
      OBVIOUS
    <3> QED BY <3>1, <3>2 DEF Within
  <2>4. CASE e' = e
    <3>1. Pipe(e, Tail(t), w, o)
      BY <1>1, <1>2, <2>1, PipeSteps
    <3> QED BY <1>1, <1>3, <1>4, <2>1, <2>2, <2>3, <2>4, <3>1 DEF Commands, AllGiven
  <2>5. CASE e' = Append(e, Head(t))
    <3>1. Pipe(Append(e, Head(t)), Tail(t), w, o)
      BY <1>1, <1>2, <2>1, PipeSteps
    <3>2. Within(Append(e, Head(t)), Given)
      BY <1>1, <1>3, <2>2, <2>3, WithinSteps
    <3> QED BY <1>1, <1>3, <1>4, <2>1, <2>2, <2>3, <2>5, <3>1, <3>2 DEF Commands, AllGiven
  <2> QED BY <1>9, <2>4, <2>5 DEF Taken
<1> QED
  BY <1>5, <1>6, <1>7, <1>8, <1>9, CommandMoves

\* The answers that exist are answers to commands that the chip has executed.
In(m, q) == \E i \in DOMAIN q : q[i] = m
Here(m, d) == In(m, in_queue[d]) \/ (In(m, fromChip[d]) /\ IsSync(m))
AnswerOf(m, d) == \E i \in DOMAIN executed[d] : m = Confirm(executed[d][i])
Genuine ==
    /\ \A d \in Dev : \A m : Here(m, d) => AnswerOf(m, d)
    /\ \A a \in Actor : last[a].resp # NoMsg =>
           last[a].cmd \in Command /\ AnswerOf(last[a].resp, last[a].cmd.dev)

LEMMA InQueue ==
    ASSUME NEW S, NEW q \in Seq(S), NEW x
    PROVE  /\ ~In(x, <<>>)
           /\ \A m \in S : In(x, Append(q, m)) <=> In(x, q) \/ x = m
           /\ q # <<>> => In(Head(q), q) /\ (In(x, Tail(q)) => In(x, q))
<1>1. DOMAIN q = 1..Len(q) /\ Len(q) \in Nat
  OBVIOUS
<1>2. ~In(x, <<>>)
  BY DEF In
<1>3. ASSUME NEW m \in S PROVE In(x, Append(q, m)) <=> In(x, q) \/ x = m
  <2>1. /\ DOMAIN Append(q, m) = 1..Len(q) + 1 /\ Append(q, m)[Len(q) + 1] = m
        /\ \A i \in 1..Len(q) : Append(q, m)[i] = q[i] /\ i \in 1..Len(q) + 1
        /\ \A i \in 1..Len(q) + 1 : i \in 1..Len(q) \/ i = Len(q) + 1
        /\ Len(q) + 1 \in 1..Len(q) + 1
    BY <1>1
  <2> QED BY <1>1, <2>1 DEF In
<1>4. ASSUME q # <<>> PROVE In(Head(q), q) /\ (In(x, Tail(q)) => In(x, q))
  <2>1. /\ Head(q) = q[1] /\ 1 \in 1..Len(q) /\ DOMAIN Tail(q) = 1..Len(q) - 1
        /\ \A i \in 1..Len(q) - 1 : Tail(q)[i] = q[i + 1] /\ i + 1 \in 1..Len(q)
    BY <1>1, <1>4
  <2> QED BY <1>1, <2>1 DEF In
<1> QED BY <1>2, <1>3, <1>4

LEMMA GenuineStep ==
    ASSUME TypeOK, CallInv, Genuine, [Next]_vars
    PROVE  Genuine'
<1> DEFINE Then(m, d) == \E i \in DOMAIN executed'[d] : m = Confirm(executed'[d][i])
<1> HIDE DEF Then
<1>1. /\ in_queue \in [Dev -> Seq(Answer)] /\ toChip \in [Dev -> Seq(Command)]
      /\ fromChip \in [Dev -> Seq(Answer \cup Indication)]
      /\ executed \in [Dev -> Seq(Command)]
      /\ \A a \in Actor : call[a].pc # "idle" => call[a].cmd \in Command /\ call[a].cmd.dev \in Dev
      /\ last \in [Actor -> [cmd : Command \cup {NoMsg}, resp : Answer \cup {NoMsg},
                             status : {"none", "SUCCESS", "TIMEOUT"}]]
      /\ NoMsg \notin Answer
  <2>1. NoMsg \notin Answer
    BY DEF NoMsg, Msg, Answer
  <2> QED BY <2>1, MessageTypes DEF TypeOK, QueuesOK, ChipOK, HistoryOK, CallerOK
<1>2. Calling
  BY DEF CallInv
<1>3. ASSUME NEW d \in Dev, NEW m, AnswerOf(m, d) PROVE Then(m, d)
  <2>1. executed'[d] = executed[d]
            \/ \E c \in Command : executed'[d] = Append(executed[d], c)
    <3>1. toChip[d] # <<>> => Head(toChip[d]) \in Command
      BY <1>1
    <3> QED BY <1>2, <3>1, CommandMoves DEF Kept, Queued, Popped, Gone, Taken
  <2>2. PICK i \in DOMAIN executed[d] : m = Confirm(executed[d][i])
    BY <1>3 DEF AnswerOf
  <2>3. \A c \in Command : /\ i \in DOMAIN Append(executed[d], c)
                           /\ Append(executed[d], c)[i] = executed[d][i]
    BY <1>1
  <2>4. Then(m, d) <=> \E k \in DOMAIN executed'[d] : m = Confirm(executed'[d][k])
    BY DEF Then
  <2> QED BY <2>1, <2>2, <2>3, <2>4
<1>4. ASSUME NEW d \in Dev, NEW m, Here(m, d)
      PROVE  Then(m, d)
  <2>1. AnswerOf(m, d)
    BY <1>4 DEF Genuine
  <2> QED BY <1>3, <2>1
<1>5. ASSUME NEW a \in Actor, last[a].resp # NoMsg
      PROVE  last[a].cmd \in Command /\ Then(last[a].resp, last[a].cmd.dev)
  <2>1. /\ last[a].cmd \in Command /\ last[a].cmd.dev \in Dev
        /\ AnswerOf(last[a].resp, last[a].cmd.dev)
    BY <1>5, MessageTypes DEF Genuine
  <2> QED BY <1>3, <2>1
<1>6. ASSUME last' = last,
             \A d \in Dev : \A m : Here(m, d)' => Here(m, d) \/ Then(m, d)
      PROVE  Genuine'
  <2>1. \A d \in Dev : \A m : Here(m, d)' => Then(m, d)
    BY <1>4, <1>6
  <2> QED BY <1>5, <1>6, <2>1 DEF Genuine, AnswerOf, Then
<1>7. CASE UNCHANGED <<last, fromChip, in_queue>>
  BY <1>6, <1>7 DEF Here
<1>8. ASSUME NEW a \in Actor, SyncReturn(a) PROVE Genuine'
  <2>0. PICK d \in Dev : d = call[a].cmd.dev
    BY <1>1, <1>8 DEF SyncReturn
  <2>1. /\ call[a].cmd \in Command /\ UNCHANGED fromChip
        /\ in_queue' = [in_queue EXCEPT ![d] = IF @ = <<>> THEN @ ELSE Tail(@)]
        /\ \A b \in Actor : b # a => last'[b] = last[b]
        /\ last'[a].cmd = call[a].cmd
        /\ last'[a].resp = IF in_queue[d] = <<>> THEN NoMsg ELSE Head(in_queue[d])
    BY <1>1, <1>8, <2>0 DEF SyncReturn, PopAnswer, chip
  <2>2. ASSUME NEW e \in Dev, NEW m, Here(m, e)'
        PROVE  Then(m, e)
    <3>1. \/ in_queue'[e] = in_queue[e]
          \/ in_queue[e] # <<>> /\ in_queue'[e] = Tail(in_queue[e])
      BY <1>1, <2>1
    <3>2. In(m, in_queue'[e]) => In(m, in_queue[e])
      BY <1>1, <3>1, InQueue
    <3> QED BY <1>4, <2>1, <2>2, <3>2 DEF Here
  <2>3. last'[a].resp # NoMsg => Then(last'[a].resp, d)
    <3>1. in_queue[d] # <<>> => In(Head(in_queue[d]), in_queue[d])
      BY <1>1, InQueue
    <3> QED BY <1>4, <2>1, <3>1 DEF Here
  <2> QED BY <1>5, <2>0, <2>1, <2>2, <2>3 DEF Genuine, AnswerOf, Then
<1>9. ASSUME NEW d \in Dev, IoFlush(d) PROVE Genuine'
  <2>1. fromChip' = [fromChip EXCEPT ![d] = <<>>] /\ UNCHANGED <<in_queue, last>>
    BY <1>9 DEF IoFlush, queues, caller
  <2>2. \A e \in Dev : \A m : In(m, fromChip'[e]) => In(m, fromChip[e])
    BY <1>1, <2>1 DEF In
  <2> QED BY <1>6, <2>1, <2>2 DEF Here
<1>10. ASSUME NEW d \in Dev, IoRead(d) PROVE Genuine'
  <2> DEFINE h == Head(fromChip[d])
  <2>1. /\ fromChip[d] # <<>> /\ fromChip' = [fromChip EXCEPT ![d] = Tail(@)]
        /\ \/ IsSync(h) /\ in_queue' = [in_queue EXCEPT ![d] = Append(@, h)]
           \/ in_queue' = in_queue
        /\ UNCHANGED last
    BY <1>10 DEF IoRead, AddTo, caller
  <2>2. IsSync(h) => h \in Answer
    <3>1. h \in Answer \cup Indication
      BY <1>1, <2>1
    <3>2. \A m \in Indication : ~IsSync(m)
      BY DEF Indication, IsSync
    <3> QED BY <3>1, <3>2
  <2>3. In(h, fromChip[d])
    BY <1>1, <2>1, InQueue
  <2> HIDE DEF h
  <2>4. ASSUME NEW e \in Dev, NEW m
        PROVE  /\ In(m, fromChip'[e]) => In(m, fromChip[e])
               /\ In(m, in_queue'[e]) => In(m, in_queue[e]) \/ (e = d /\ m = h /\ IsSync(h))
    <3>1. /\ In(m, Tail(fromChip[d])) => In(m, fromChip[d])
          /\ IsSync(h) => (In(m, Append(in_queue[d], h)) => In(m, in_queue[d]) \/ m = h)
      BY <1>1, <2>1, <2>2, InQueue
    <3> QED BY <1>1, <2>1, <3>1
  <2> QED BY <1>6, <2>1, <2>3, <2>4 DEF Here
<1>11. ASSUME NEW d \in Dev, ChipExecute(d) PROVE Genuine'
  <2>0. PICK c \in Command : c = Head(toChip[d])
    BY <1>1, <1>11 DEF ChipExecute
  <2>1. /\ executed' = [executed EXCEPT ![d] = Append(@, c)]
        /\ \/ fromChip' = [fromChip EXCEPT ![d] = Append(@, Confirm(c))]
           \/ fromChip' = fromChip
        /\ UNCHANGED <<in_queue, last>>
    BY <1>11, <2>0 DEF ChipExecute, queues, caller
  <2>2. Then(Confirm(c), d)
    <3>1. /\ executed'[d] = Append(executed[d], c)
          /\ Len(executed[d]) + 1 \in DOMAIN executed'[d]
          /\ executed'[d][Len(executed[d]) + 1] = c
      BY <1>1, <2>1
    <3> QED BY <3>1 DEF Then
  <2>3. Confirm(c) \in Answer \cup Indication
    BY <2>1, MessageTypes
  <2>4. ASSUME NEW e \in Dev, NEW m, In(m, fromChip'[e])
        PROVE  In(m, fromChip[e]) \/ (e = d /\ m = Confirm(c))
    <3>1. In(m, Append(fromChip[d], Confirm(c))) => In(m, fromChip[d]) \/ m = Confirm(c)
      BY <1>1, <2>3, InQueue
    <3> QED BY <1>1, <2>1, <2>4, <3>1
  <2> QED BY <1>6, <2>1, <2>2, <2>4 DEF Here
<1>12. ASSUME NEW d \in Dev, ChipIndicate(d) PROVE Genuine'
  <2> DEFINE h == Msg("ind", d, None, ind[d] + 1)
  <2>1. /\ fromChip' = [fromChip EXCEPT ![d] = Append(@, h)] /\ UNCHANGED <<in_queue, last>>
    BY <1>12 DEF ChipIndicate, AddTo, queues, caller
  <2>2. h \in Answer \cup Indication /\ ~IsSync(h)
    <3>1. ind[d] + 1 \in Nat
      BY DEF TypeOK, ChipOK
    <3> QED BY <3>1, MessageTypes DEF IsSync, Msg
  <2> HIDE DEF h
  <2>3. ASSUME NEW e \in Dev, NEW m, In(m, fromChip'[e])
        PROVE  In(m, fromChip[e]) \/ m = h
    <3>1. In(m, Append(fromChip[d], h)) => In(m, fromChip[d]) \/ m = h
      BY <1>1, <2>2, InQueue
    <3> QED BY <1>1, <2>1, <2>3, <3>1
  <2> QED BY <1>6, <2>1, <2>2, <2>3 DEF Here
<1>13. ASSUME NEW t \in Thread, CloseJoin(t) \/ \E d \in Dev : Open(t, d) PROVE Genuine'
  <2>1. /\ UNCHANGED <<fromChip, last>> /\ \E d : in_queue' = [in_queue EXCEPT ![d] = <<>>]
    BY <1>13 DEF CloseJoin, Open, caller, chip
  <2>2. \A e \in Dev : \A m : In(m, in_queue'[e]) => In(m, in_queue[e])
    BY <1>1, <2>1 DEF In
  <2> QED BY <1>6, <2>1, <2>2 DEF Here
<1>14. ASSUME NEW a \in Actor,
              SyncSend(a) \/ SyncDrained(a) \/ SyncAnswered(a) \/ SyncTimeout(a)
                  \/ \E d \in Dev : SendAsync(a, d) \/ SyncBegin(a, d)
       PROVE  UNCHANGED <<last, fromChip, in_queue>>
  BY <1>14 DEF SyncSend, SyncDrained, SyncAnswered, SyncTimeout, SendAsync, SyncBegin, queues, chip
<1>15. ASSUME NEW t \in Thread, CloseFlush(t) \/ \E d \in Dev : CloseBegin(t, d)
       PROVE  UNCHANGED <<last, fromChip, in_queue>>
  BY <1>15 DEF CloseFlush, CloseBegin, queues, caller, chip
<1>16. ASSUME NEW d \in Dev, IoPop(d) \/ IoSend(d) \/ IoSendError(d) \/ ChipLose(d)
       PROVE  UNCHANGED <<last, fromChip, in_queue>>
  BY <1>16 DEF IoPop, IoSend, IoSendError, Written, ChipLose, queues, caller, chip
<1>17. CASE Aside
  BY <1>7, <1>17 DEF Aside
<1> QED
  BY <1>7, <1>8, <1>9, <1>10, <1>11, <1>12, <1>13, <1>14, <1>15, <1>16, <1>17, StepsOfCalls

\* Together with the invariant of calls.
OrderInv ==
    /\ CallInv
    /\ \A d \in Dev : Commands(d) /\ AllGiven(d)
    /\ Genuine

LEMMA OrderInvariant == Spec => [](TypeOK /\ OrderInv)
<1>1. Init => Genuine /\ \A d \in Dev : Commands(d) /\ AllGiven(d)
  <2> SUFFICES ASSUME Init PROVE Genuine /\ \A d \in Dev : Commands(d) /\ AllGiven(d)
    OBVIOUS
  <2>1. \A d \in Dev : /\ executed[d] = <<>> /\ toChip[d] = <<>> /\ One(writing[d]) = <<>>
                       /\ out_queue[d] = <<>> /\ in_queue[d] = <<>> /\ fromChip[d] = <<>>
    BY WritingTypes DEF Init
  <2>2. Genuine
    BY <2>1 DEF Genuine, Here, In, Init, NoResult
  <2>3. \A d \in Dev : Commands(d) /\ AllGiven(d)
    BY <2>1, OrderNothing DEF Commands, AllGiven, Pipe, Within
  <2> QED BY <2>2, <2>3
<1>2. ASSUME TypeOK /\ CallInv,
             Genuine /\ \A d \in Dev : Commands(d) /\ AllGiven(d), [Next]_vars
      PROVE  (Genuine /\ \A d \in Dev : Commands(d) /\ AllGiven(d))'
  <2>1. \A d \in Dev : (Commands(d) /\ AllGiven(d))'
    BY <1>2, CommandsStep DEF CallInv
  <2> QED BY <1>2, <2>1, GenuineStep
<1> DEFINE Ours == Genuine /\ \A d \in Dev : Commands(d) /\ AllGiven(d)
<1>3. TypeOK /\ CallInv /\ Ours => TypeOK /\ OrderInv
  BY DEF OrderInv
<1> HIDE DEF Ours
<1>4. (Init => Ours) /\ (TypeOK /\ CallInv /\ Ours /\ [Next]_vars => Ours')
  BY <1>1, <1>2 DEF Ours
<1> QED
  BY <1>3, <1>4, CallInvariant, PTL DEF Spec

\* The out queue, the one command being written and the link keep the order in
\* which each thread gave its commands (ca821x_exchange_commands,
\* exchange_user_command, ca821x_try_write), synchronous or not, through write
\* errors, lost commands, timeouts and reopening.
THEOREM CommandsKeepOrder == Spec => []CommandsInOrder
<1>1. ASSUME TypeOK, OrderInv PROVE CommandsInOrder
  <2> SUFFICES ASSUME NEW d \in Dev PROVE Ordered(CommandPipe(d))
    BY DEF CommandsInOrder, Ordered
  <2> DEFINE e == executed[d]   t == toChip[d]   w == One(writing[d])   o == out_queue[d]
  <2>1. e \in Seq(Command) /\ t \in Seq(Command) /\ w \in Seq(Command) /\ o \in Seq(Command)
    BY <1>1, WritingTypes DEF TypeOK, QueuesOK, DeviceOK, ChipOK, HistoryOK
  <2>2. /\ Ordered(e) /\ Ordered(t) /\ Ordered(o)
        /\ Before(e, t) /\ Before(e, w) /\ Before(e, o)
        /\ Before(t, w) /\ Before(t, o) /\ Before(w, o)
    BY <1>1 DEF OrderInv, Commands, Pipe
  <2>3. Ordered(w)
    BY DEF One, Ordered
  <2>4. CommandPipe(d) = ((e \o t) \o w) \o o
    BY DEF CommandPipe
  <2> HIDE DEF e, t, w, o
  <2>5. /\ e \o t \in Seq(Command) /\ Ordered(e \o t)
        /\ Before(e \o t, w) /\ Before(e \o t, o)
    BY <2>1, <2>2, OrderConcat
  <2>6. /\ (e \o t) \o w \in Seq(Command) /\ Ordered((e \o t) \o w)
        /\ Before((e \o t) \o w, o)
    <3> DEFINE et == e \o t
    <3> HIDE DEF et
    <3>1. /\ et \in Seq(Command) /\ Ordered(et) /\ Before(et, w) /\ Before(et, o)
      BY <2>5 DEF et
    <3>2. et \o w \in Seq(Command) /\ Ordered(et \o w) /\ Before(et \o w, o)
      BY <2>1, <2>2, <2>3, <3>1, OrderConcat
    <3> QED BY <3>2 DEF et
  <2> QED BY <2>1, <2>2, <2>4, <2>6, OrderConcat
<1> QED
  BY <1>1, OrderInvariant, PTL

\* A synchronous call that gets its own answer, in time or late, is a barrier
\* (the wait of ca821x_exchange_commands for the queue and for the answer): no
\* earlier command of the thread is left in the queue, being written or on the link.
THEOREM AnswersAreBarriers == Spec => []SyncIsBarrier
<1>1. ASSUME TypeOK, OrderInv PROVE SyncIsBarrier
  <2> SUFFICES ASSUME NEW a \in Actor, last[a].cmd # NoMsg,
                      last[a].resp = Confirm(last[a].cmd)
               PROVE  LET c == last[a].cmd
                          Late(m) == m.by = a /\ m.n < c.n
                      IN  /\ \A i \in DOMAIN out_queue[c.dev] : ~Late(out_queue[c.dev][i])
                          /\ \A i \in DOMAIN toChip[c.dev] : ~Late(toChip[c.dev][i])
                          /\ ~Late(writing[c.dev])
    BY DEF SyncIsBarrier
  <2> DEFINE c == last[a].cmd
  <2>0. PICK d \in Dev : d = c.dev /\ c \in Command /\ c.by = a
    BY <1>1, MessageTypes DEF OrderInv, CallInv, Resulted
  <2>1. PICK i \in DOMAIN executed[d] : executed[d][i].by = a /\ executed[d][i].n = c.n
    <3>1. Confirm(c) # NoMsg
      BY DEF Confirm, NoMsg, Msg
    <3>2. PICK i \in DOMAIN executed[d] : Confirm(c) = Confirm(executed[d][i])
      BY <1>1, <2>0, <3>1 DEF OrderInv, Genuine, AnswerOf
    <3> QED BY <2>0, <3>2 DEF Confirm, Msg
  <2>2. /\ Before(executed[d], toChip[d]) /\ Before(executed[d], out_queue[d])
        /\ Before(executed[d], One(writing[d]))
    BY <1>1 DEF OrderInv, Commands, Pipe
  <2>3. /\ out_queue[d] \in Seq(Command) /\ toChip[d] \in Seq(Command)
        /\ writing[d] \in Command \cup {NoMsg} /\ c.n \in Nat
        /\ \A m \in Command : m.n \in Nat
    BY <1>1, <2>0 DEF TypeOK, QueuesOK, DeviceOK, ChipOK, Command
  <2>4. ASSUME NEW j \in DOMAIN out_queue[d], out_queue[d][j].by = a,
               out_queue[d][j].n < c.n
        PROVE  FALSE
    <3>1. c.n < out_queue[d][j].n
      BY <2>1, <2>2, <2>4 DEF Before
    <3> QED BY <2>3, <2>4, <3>1
  <2>5. ASSUME NEW j \in DOMAIN toChip[d], toChip[d][j].by = a, toChip[d][j].n < c.n
        PROVE  FALSE
    <3>1. c.n < toChip[d][j].n
      BY <2>1, <2>2, <2>5 DEF Before
    <3> QED BY <2>3, <2>5, <3>1
  <2>6. ASSUME writing[d].by = a, writing[d].n < c.n
        PROVE  FALSE
    <3>1. writing[d] \in Command
      BY <2>3, <2>6, ConstantsAssumption DEF NoMsg, Msg, Actor
    <3>2. 1 \in DOMAIN <<writing[d]>> /\ <<writing[d]>>[1] = writing[d]
      OBVIOUS
    <3>3. c.n < writing[d].n
      BY <2>1, <2>2, <2>6, <3>1, <3>2, WritingTypes DEF Before
    <3> QED BY <2>3, <2>6, <3>1, <3>3
  <2> QED BY <2>0, <2>4, <2>5, <2>6
<1> QED
  BY <1>1, OrderInvariant, PTL

----------------------------------------------------------------------------
(* Who runs the callbacks, and on what, for an application that opens,     *)
(* closes, starts, stops and polls from one thread, and any number of      *)
(* devices, callers and workers.                                           *)

\* The header asks for no more than this of the application: the start and
\* stop functions take no lock around their check and its consequence.
SingleController == \A t, u \in Controller : t = u

\* A thread that is inside a control operation is a controller.
ThreadPlaces ==
    \A t \in Thread : /\ at[t] \notin {"none", "check", "wait", "done"}
                      /\ at[t] # "idle" => t \in Controller
WorkerPlaces ==
    \A w \in Worker : at[w] \in {"none", "check", "wait", "done", "callback"}

\* Only the worker created last exists, and only until it has been joined.
OneWorker == \A w \in Worker : at[w] # "none" => w = ud_thread
WorkerWanted ==
    \A w \in Worker : at[w] # "none" =>
        ud_run_flag \/ \E t \in Thread : at[t] \in {"wake", "join"}

\* A worker is created when there is none, and nobody polls beside it.
StartAlone ==
    \A t \in Thread :
        /\ at[t] \in {"start", "create"} => \A w \in Worker : at[w] = "none"
        /\ at[t] = "create" => ud_run_flag
PollAlone ==
    \A t \in Thread : at[t] \in {"poll", "callback", "wake", "join"} => ~ud_run_flag

DispatchInv ==
    /\ ThreadPlaces /\ WorkerPlaces /\ OneWorker
    /\ WorkerWanted /\ StartAlone /\ PollAlone

\* What a step of the controlling thread has to respect.
LEMMA ThreadMoves ==
    ASSUME SingleController, TypeOK, DispatchInv, NEW t \in Controller,
           NEW pc \in AtPcs \ {"none", "check", "wait", "done"},
           at' = [at EXCEPT ![t] = pc], ud_thread' = ud_thread,
           pc \in {"start", "create"} => \A w \in Worker : at[w] = "none",
           pc = "create" => ud_run_flag',
           pc \in {"poll", "callback", "wake", "join"} => ~ud_run_flag',
           \/ ud_run_flag' \/ pc \in {"wake", "join"}
           \/ \A w \in Worker : at[w] = "none"
    PROVE  DispatchInv'
<1> USE DEF DispatchInv
<1>1. t \in Thread /\ t \in Actor /\ at \in [Actor -> AtPcs]
  BY ConstantsAssumption DEF TypeOK, ControlOK, Actor
<1>2. \A u \in Thread : at'[u] = IF u = t THEN pc ELSE "idle"
  BY <1>1 DEF SingleController, ThreadPlaces, Actor
<1>3. \A w \in Worker : at'[w] = at[w]
  BY <1>1, ConstantsAssumption DEF Actor
<1>4. ThreadPlaces'
  BY <1>2 DEF ThreadPlaces
<1>5. WorkerPlaces' /\ OneWorker'
  BY <1>3 DEF WorkerPlaces, OneWorker
<1>6. WorkerWanted'
  BY <1>1, <1>2, <1>3 DEF WorkerWanted
<1>7. StartAlone' /\ PollAlone'
  BY <1>2, <1>3 DEF StartAlone, PollAlone
<1> QED BY <1>4, <1>5, <1>6, <1>7

\* A worker that exists may move between its places.
LEMMA WorkerMoves ==
    ASSUME TypeOK, DispatchInv, NEW w \in Worker, at[w] # "none",
           NEW pc \in {"check", "wait", "done", "callback"},
           at' = [at EXCEPT ![w] = pc], UNCHANGED <<ud_thread, ud_run_flag>>
    PROVE  DispatchInv'
<1> USE DEF DispatchInv
<1>1. at \in [Actor -> AtPcs] /\ w \in Actor
  BY DEF TypeOK, ControlOK, Actor
<1>2. \A u \in Thread : at'[u] = at[u]
  BY <1>1, ConstantsAssumption DEF Actor
<1>3. \A v \in Worker : at'[v] = IF v = w THEN pc ELSE at[v]
  BY <1>1 DEF Actor
<1>4. ThreadPlaces' /\ WorkerPlaces' /\ OneWorker'
  BY <1>2, <1>3 DEF ThreadPlaces, WorkerPlaces, OneWorker
<1>5. WorkerWanted'
  BY <1>2, <1>3 DEF WorkerWanted
<1>6. StartAlone' /\ PollAlone'
  BY <1>2, <1>3 DEF StartAlone, PollAlone
<1> QED BY <1>4, <1>5, <1>6

LEMMA DispatchMoves ==
    ASSUME SingleController, TypeOK, DispatchInv, NEW t \in Thread, at[t] = "poll",
           Dispatch(t, "idle")
    PROVE  DispatchInv'
<1>1. t \in Controller /\ ~ud_run_flag /\ \A w \in Worker : at[w] = "none"
  BY DEF DispatchInv, ThreadPlaces, PollAlone, WorkerWanted, SingleController
<1>2. UNCHANGED <<ud_thread, ud_run_flag>>
  BY DEF Dispatch, statics
<1>3. at' = [at EXCEPT ![t] = "idle"] \/ at' = [at EXCEPT ![t] = "callback"]
  BY DEF Dispatch, Goto
<1> QED BY <1>1, <1>2, <1>3, ThreadMoves DEF AtPcs

\* Nothing but these three variables matters.
LEMMA DispatchFrame ==
    ASSUME DispatchInv, UNCHANGED <<at, ud_thread, ud_run_flag>>
    PROVE  DispatchInv'
  BY DEF DispatchInv, ThreadPlaces, WorkerPlaces, OneWorker, WorkerWanted, StartAlone,
         PollAlone

LEMMA DispatchStep ==
    ASSUME SingleController, TypeOK, DispatchInv, [Next]_vars
    PROVE  DispatchInv'
<1>1. ASSUME NEW a \in Actor, Begin(a) PROVE DispatchInv'
  BY <1>1, DispatchFrame DEF Begin, ExchangeAsync, UserCommand, SyncBegin, SendAsync,
     statics, control
<1>2. ASSUME NEW a \in Actor,
             SyncSend(a) \/ SyncDrained(a) \/ SyncAnswered(a) \/ SyncTimeout(a)
                 \/ SyncReturn(a)
      PROVE  DispatchInv'
  BY <1>2, DispatchFrame DEF SyncSend, SyncDrained, SyncAnswered, SyncTimeout,
     SyncReturn, statics, control
<1>3. ASSUME NEW a \in Actor, CallbackReturn(a) PROVE DispatchInv'
  <2>1. at[a] = "callback" /\ UNCHANGED <<ud_thread, ud_run_flag>>
    BY <1>3 DEF CallbackReturn, statics
  <2>2. CASE a \in Worker
    <3>1. at' = [at EXCEPT ![a] = "check"]
      BY <1>3, <2>2 DEF CallbackReturn, Goto, AfterCallback
    <3> QED BY <2>1, <2>2, <3>1, WorkerMoves
  <2>3. CASE a \in Thread /\ a \notin Worker
    <3>1. at' = [at EXCEPT ![a] = "idle"]
      BY <1>3, <2>3 DEF CallbackReturn, Goto, AfterCallback
    <3>2. a \in Controller /\ ~ud_run_flag /\ \A w \in Worker : at[w] = "none"
      BY <2>1, <2>3
         DEF DispatchInv, ThreadPlaces, PollAlone, WorkerWanted, SingleController
    <3> QED BY <2>1, <3>1, <3>2, ThreadMoves DEF AtPcs
  <2> QED BY <2>2, <2>3 DEF Actor
<1>4. ASSUME NEW t \in Thread, BeginControl(t) PROVE DispatchInv'
  <2>1. t \in Controller /\ at[t] = "idle"
    BY <1>4 DEF BeginControl, PollBegin, StartBegin, StopBegin, Open, CloseBegin, MayControl
  <2>2. ud_run_flag \/ \A w \in Worker : at[w] = "none"
    BY <2>1 DEF DispatchInv, ThreadPlaces, WorkerWanted, SingleController
  <2>3. CASE PollBegin(t)
    BY <2>1, <2>2, <2>3, ThreadMoves
       DEF PollBegin, PollAllowed, Move, GotoSetting, Goto, AtPcs
  <2>4. CASE StartBegin(t)
    BY <2>1, <2>2, <2>4, ThreadMoves DEF StartBegin, Move, GotoSetting, Goto, AtPcs
  <2>5. CASE StopBegin(t)
    BY <2>1, <2>2, <2>5, ThreadMoves DEF StopBegin, Move, GotoSetting, Goto, AtPcs
  <2>6. ASSUME NEW d \in Dev, Open(t, d) PROVE DispatchInv'
    BY <2>6, DispatchFrame DEF Open
  <2>7. ASSUME NEW d \in Dev, CloseBegin(t, d) PROVE DispatchInv'
    <3>1. at' = [at EXCEPT ![t] = "joinio"] /\ UNCHANGED <<ud_run_flag, ud_thread>>
      BY <2>7, Zenon DEF CloseBegin, Goto, statics
    <3> QED BY <2>1, <2>2, <3>1, ThreadMoves DEF AtPcs
  <2> QED BY <1>4, <2>3, <2>4, <2>5, <2>6, <2>7 DEF BeginControl
<1>5. ASSUME NEW t \in Thread, ControlStep(t) PROVE DispatchInv'
  <2>1. t \in Controller /\ at[t] # "idle"
    BY <1>5 DEF ControlStep, PollNotFound, PollDispatch, StartSetFlag, StartCreate,
       StartFail, StopCheck, StopClearFlag, StopWake, StopJoin, CloseJoin, CloseFlush,
       DispatchInv, ThreadPlaces
  <2>2. \A u \in Thread : u # t => at[u] = "idle"
    BY <2>1 DEF DispatchInv, ThreadPlaces, SingleController
  <2>3. \/ ud_run_flag \/ at[t] \in {"wake", "join"}
        \/ \A w \in Worker : at[w] = "none"
    BY <2>2 DEF DispatchInv, WorkerWanted
  <2>4. CASE PollNotFound(t)
    <3>1. CASE Dispatch(t, "idle")
      BY <2>4, <3>1, DispatchMoves DEF PollNotFound
    <3>2. CASE Move(t, "idle")
      BY <2>1, <2>3, <2>4, <3>2, ThreadMoves
         DEF PollNotFound, Move, GotoSetting, Goto, AtPcs
    <3> QED BY <2>4, <3>1, <3>2 DEF PollNotFound
  <2>5. CASE PollDispatch(t)
    BY <2>5, DispatchMoves DEF PollDispatch
  <2>6. CASE StartSetFlag(t)
    <3>1. \A w \in Worker : at[w] = "none"
      BY <2>6 DEF StartSetFlag, DispatchInv, StartAlone
    <3> QED BY <2>1, <2>6, <3>1, ThreadMoves DEF StartSetFlag, GotoSetting, Goto, AtPcs
  <2>7. CASE StartFail(t)
    BY <2>1, <2>3, <2>7, ThreadMoves DEF StartFail, Move, GotoSetting, Goto, AtPcs
  <2>8. CASE StopCheck(t)
    <3>1. at[t] = "stop" /\ UNCHANGED <<ud_run_flag, ud_thread>>
      BY <2>8 DEF StopCheck, Move, GotoSetting
    <3>2. \E pc \in {"clear", "idle", "flush"} : at' = [at EXCEPT ![t] = pc]
      BY <2>8 DEF StopCheck, AfterStop, Move, GotoSetting, Goto
    <3> QED BY <2>1, <2>3, <3>1, <3>2, ThreadMoves DEF AtPcs
  <2>9. CASE StopClearFlag(t)
    BY <2>1, <2>9, ThreadMoves DEF StopClearFlag, GotoSetting, Goto, AtPcs
  <2>10. CASE StopWake(t)
    <3>1. ~ud_run_flag
      BY <2>10 DEF StopWake, DispatchInv, PollAlone
    <3> QED BY <2>1, <2>10, <3>1, ThreadMoves DEF StopWake, Goto, statics, AtPcs
  <2>11. CASE CloseJoin(t)
    BY <2>1, <2>3, <2>11, ThreadMoves DEF CloseJoin, CloseEnd, Goto, AtPcs
  <2>12. CASE CloseFlush(t)
    BY <2>1, <2>3, <2>12, ThreadMoves, DispatchFrame
       DEF CloseFlush, CloseEnd, Goto, statics, AtPcs
  <2>13. CASE StartCreate(t)
    <3>1. PICK w \in Worker : /\ ud_thread' = w
                              /\ at' = [at EXCEPT ![t] = "idle", ![w] = "check"]
      BY <2>13 DEF StartCreate
    <3>2. at[t] = "create" /\ ud_run_flag /\ UNCHANGED ud_run_flag
      BY <2>13 DEF StartCreate, DispatchInv, StartAlone
    <3>3. \A u \in Thread : at'[u] = "idle"
      BY <2>2, <3>1, ConstantsAssumption DEF TypeOK, ControlOK, Actor
    <3>4. \A v \in Worker : at'[v] = IF v = w THEN "check" ELSE "none"
      BY <2>13, <3>1, <3>2, ConstantsAssumption
         DEF TypeOK, ControlOK, Actor, DispatchInv, StartAlone
    <3>5. ThreadPlaces' /\ StartAlone' /\ PollAlone'
      BY <3>3 DEF ThreadPlaces, StartAlone, PollAlone
    <3>6. WorkerPlaces' /\ OneWorker' /\ WorkerWanted'
      BY <3>1, <3>2, <3>4 DEF WorkerPlaces, OneWorker, WorkerWanted
    <3> QED BY <3>5, <3>6 DEF DispatchInv
  <2>14. CASE StopJoin(t)
    <3>1. /\ at' = [at EXCEPT ![t] = AfterStop(t), ![ud_thread] = "none"]
          /\ UNCHANGED <<ud_run_flag, ud_thread>>
      BY <2>14 DEF StopJoin, Join, statics
    <3>2. ud_thread \in Worker \cup {None} /\ AfterStop(t) \in {"idle", "flush"}
      BY DEF TypeOK, StaticsOK, AfterStop
    <3>3. \A u \in Thread : at'[u] = IF u = t THEN AfterStop(t) ELSE "idle"
      BY <2>2, <3>1, <3>2, ConstantsAssumption DEF TypeOK, ControlOK, Actor
    <3>4. \A v \in Worker : at'[v] = "none"
      BY <3>1, <3>2, ConstantsAssumption
         DEF TypeOK, ControlOK, Actor, DispatchInv, OneWorker
    <3>5. ThreadPlaces' /\ StartAlone' /\ PollAlone'
      BY <2>1, <3>2, <3>3, <3>4 DEF ThreadPlaces, StartAlone, PollAlone
    <3>6. WorkerPlaces' /\ OneWorker' /\ WorkerWanted'
      BY <3>4 DEF WorkerPlaces, OneWorker, WorkerWanted
    <3> QED BY <3>5, <3>6 DEF DispatchInv
  <2> QED BY <1>5, <2>4, <2>5, <2>6, <2>7, <2>8, <2>9, <2>10, <2>11, <2>12, <2>13, <2>14
          DEF ControlStep
<1>6. ASSUME NEW w \in Worker, WorkerStep(w) PROVE DispatchInv'
  <2>1. at[w] \in {"check", "wait"}
    BY <1>6 DEF WorkerStep, WorkerCheck, WorkerDispatch
  <2>2. CASE WorkerCheck(w)
    BY <2>1, <2>2, WorkerMoves DEF WorkerCheck, Move, GotoSetting, Goto
  <2>3. CASE WorkerDispatch(w)
    BY <2>1, <2>3, WorkerMoves DEF WorkerDispatch, Dispatch, Goto, statics
  <2> QED BY <1>6, <2>2, <2>3 DEF WorkerStep
<1>7. ASSUME NEW d \in Dev,
             IoStep(d) \/ ChipStep(d) \/ ChipIndicate(d) \/ LinkReady(d)
      PROVE  DispatchInv'
  <2>1. CASE IoStep(d)
    BY <2>1, DispatchFrame DEF IoStep, IoFlush, IoRead, IoReadError, IoPop, IoSend,
       IoSendError, IoExit, Written, statics, control
  <2>2. CASE ChipStep(d) \/ ChipIndicate(d) \/ LinkReady(d)
    BY <2>2, DispatchFrame DEF ChipStep, ChipExecute, ChipLose, ChipIndicate, LinkReady,
       statics, control
  <2> QED BY <1>7, <2>1, <2>2
<1>8. CASE UNCHANGED vars
  BY <1>8, DispatchFrame DEF vars, statics, control
<1> QED
  BY <1>1, <1>2, <1>3, <1>4, <1>5, <1>6, <1>7, <1>8 DEF Next, CallStep, Quiescent

LEMMA DispatchInvariant ==
    ASSUME SingleController
    PROVE  Spec => [](TypeOK /\ DispatchInv)
<1>1. Init => DispatchInv
  BY ConstantsAssumption DEF Init, DispatchInv, ThreadPlaces, WorkerPlaces, OneWorker, WorkerWanted,
     StartAlone, PollAlone, Actor
<1>2. TypeOK /\ DispatchInv /\ [Next]_vars => DispatchInv'
  BY DispatchStep
<1> QED
  BY <1>1, <1>2, TypeCorrect, PTL DEF Spec

\* With one controlling thread the callbacks of all devices never run in two
\* threads at a time (ca821x_run_upstream_dispatch, from worker or poll).
THEOREM CallbacksNeverOverlap ==
    ASSUME SingleController
    PROVE  Spec => []AtMostOneDispatcher
<1>1. ASSUME TypeOK, DispatchInv PROVE AtMostOneDispatcher
  <2> SUFFICES ASSUME NEW a \in Actor, NEW b \in Actor, at[a] = "callback", at[b] = "callback"
               PROVE  a = b
    BY DEF AtMostOneDispatcher, Dispatching
  <2>1. \A t \in Thread, w \in Worker : ~(at[t] = "callback" /\ at[w] = "callback")
    BY <1>1 DEF DispatchInv, ThreadPlaces, WorkerWanted, PollAlone, SingleController
  <2>2. CASE a \in Thread /\ b \in Thread
    BY <1>1, <2>2 DEF DispatchInv, ThreadPlaces, SingleController
  <2>3. CASE a \in Worker /\ b \in Worker
    BY <1>1, <2>3 DEF DispatchInv, OneWorker
  <2> QED BY <2>1, <2>2, <2>3 DEF Actor
<1> QED
  BY <1>1, DispatchInvariant, PTL

\* With one controlling thread no worker outlives the stop that ends it.
THEOREM StopLeavesNoWorker ==
    ASSUME SingleController
    PROVE  Spec => []StoppedMeansSilent
<1>1. ASSUME TypeOK, DispatchInv PROVE StoppedMeansSilent
  BY <1>1 DEF StoppedMeansSilent, DispatchInv, WorkerWanted, WorkerPlaces
<1> QED
  BY <1>1, DispatchInvariant, PTL

----------------------------------------------------------------------------
(* The order of indications.                                               *)

\* Numbers of one place are smaller than those of another.
Below(A, B) == \A m \in A, n \in B : m < n
NumberOf(m, d) == IF IsInd(m, d) THEN {m.n} ELSE {}

LEMMA NumbersAppend ==
    ASSUME NEW S, NEW q \in Seq(S), NEW d, NEW m \in S
    PROVE  /\ Numbers(Append(q, m), d) = Numbers(q, d) \cup NumberOf(m, d)
           /\ Ascending(q, d) /\ Below(Numbers(q, d), NumberOf(m, d)) => Ascending(Append(q, m), d)
<1>1. /\ DOMAIN q = 1..Len(q) /\ Len(q) \in Nat
      /\ DOMAIN Append(q, m) = 1..Len(q) + 1 /\ Append(q, m)[Len(q) + 1] = m
      /\ \A i \in 1..Len(q) : Append(q, m)[i] = q[i] /\ i \in 1..Len(q) + 1
      /\ \A i \in 1..Len(q) + 1 : i \in 1..Len(q) \/ i = Len(q) + 1
      /\ Len(q) + 1 \in 1..Len(q) + 1
  OBVIOUS
<1>2. ASSUME NEW n \in Numbers(Append(q, m), d) PROVE n \in Numbers(q, d) \cup NumberOf(m, d)
  <2>1. PICK i \in 1..Len(q) + 1 : n = Append(q, m)[i].n /\ IsInd(Append(q, m)[i], d)
    BY <1>1 DEF Numbers
  <2> QED BY <1>1, <2>1 DEF Numbers, NumberOf
<1>3. ASSUME NEW n \in Numbers(q, d) PROVE n \in Numbers(Append(q, m), d)
  <2>1. PICK i \in 1..Len(q) : n = q[i].n /\ IsInd(q[i], d)
    BY <1>1 DEF Numbers
  <2> QED BY <1>1, <2>1 DEF Numbers
<1>4. ASSUME NEW n \in NumberOf(m, d) PROVE n \in Numbers(Append(q, m), d)
  BY <1>1 DEF Numbers, NumberOf
<1>5. ASSUME Ascending(q, d), Below(Numbers(q, d), NumberOf(m, d))
      PROVE  Ascending(Append(q, m), d)
  <2> SUFFICES ASSUME NEW i \in 1..Len(q) + 1, NEW j \in 1..Len(q) + 1, i < j,
                      IsInd(Append(q, m)[i], d), IsInd(Append(q, m)[j], d)
               PROVE  Append(q, m)[i].n < Append(q, m)[j].n
    BY <1>1 DEF Ascending
  <2>1. i \in 1..Len(q) /\ Append(q, m)[i] = q[i] /\ q[i].n \in Numbers(q, d)
    BY <1>1 DEF Numbers
  <2>2. CASE j \in 1..Len(q)
    BY <1>1, <1>5, <2>1, <2>2 DEF Ascending
  <2>3. CASE j = Len(q) + 1
    <3>1. Append(q, m)[j] = m /\ m.n \in NumberOf(m, d)
      BY <1>1, <2>3 DEF NumberOf
    <3> QED BY <1>5, <2>1, <3>1 DEF Below
  <2> QED BY <1>1, <2>2, <2>3
<1> QED BY <1>2, <1>3, <1>4, <1>5

LEMMA NumbersAside ==
    ASSUME NEW S, NEW q \in Seq(S), NEW d, NEW m \in S, ~IsInd(m, d)
    PROVE  /\ Numbers(Append(q, m), d) = Numbers(q, d)
           /\ Ascending(q, d) => Ascending(Append(q, m), d)
<1>1. NumberOf(m, d) = {}
  BY DEF NumberOf
<1>2. Below(Numbers(q, d), NumberOf(m, d))
  BY <1>1 DEF Below
<1>3. Numbers(Append(q, m), d) = Numbers(q, d) \cup NumberOf(m, d)
  BY NumbersAppend
<1>4. Ascending(q, d) => Ascending(Append(q, m), d)
  BY <1>2, NumbersAppend
<1> QED BY <1>1, <1>3, <1>4

LEMMA NumbersTail ==
    ASSUME NEW S, NEW q \in Seq(S), q # <<>>, NEW d
    PROVE  /\ Numbers(q, d) = NumberOf(Head(q), d) \cup Numbers(Tail(q), d)
           /\ Ascending(q, d) => /\ Ascending(Tail(q), d)
                                 /\ Below(NumberOf(Head(q), d), Numbers(Tail(q), d))
<1>1. /\ DOMAIN q = 1..Len(q) /\ Len(q) \in Nat \ {0} /\ Head(q) = q[1] /\ 1 \in 1..Len(q)
      /\ DOMAIN Tail(q) = 1..Len(q) - 1
      /\ \A i \in 1..Len(q) - 1 : Tail(q)[i] = q[i + 1] /\ i + 1 \in 1..Len(q) /\ 1 < i + 1
      /\ \A i \in 1..Len(q) : i = 1 \/ i - 1 \in 1..Len(q) - 1
      /\ \A i \in 1..Len(q) - 1 : (i + 1) - 1 = i
      /\ \A i \in 1..Len(q) : (i - 1) + 1 = i
      /\ \A i, j \in 1..Len(q) - 1 : i < j => i + 1 < j + 1
  OBVIOUS
<1>2. ASSUME NEW n \in Numbers(q, d) PROVE n \in NumberOf(Head(q), d) \cup Numbers(Tail(q), d)
  <2>1. PICK i \in 1..Len(q) : n = q[i].n /\ IsInd(q[i], d)
    BY <1>1 DEF Numbers
  <2>2. CASE i = 1
    BY <1>1, <2>1, <2>2 DEF NumberOf
  <2>3. CASE i - 1 \in 1..Len(q) - 1
    <3>1. Tail(q)[i - 1] = q[i]
      BY <1>1, <2>3
    <3> QED BY <1>1, <2>1, <2>3, <3>1 DEF Numbers
  <2> QED BY <1>1, <2>2, <2>3
<1>3. NumberOf(Head(q), d) \subseteq Numbers(q, d)
  BY <1>1 DEF Numbers, NumberOf
<1>4. ASSUME NEW n \in Numbers(Tail(q), d)
      PROVE  \E i \in 1..Len(q) - 1 : n = q[i + 1].n /\ IsInd(q[i + 1], d)
  BY <1>1 DEF Numbers
<1>5. Numbers(Tail(q), d) \subseteq Numbers(q, d)
  BY <1>1, <1>4 DEF Numbers
<1>6. Ascending(q, d) => Ascending(Tail(q), d)
  BY <1>1 DEF Ascending
<1>7. Ascending(q, d) => Below(NumberOf(Head(q), d), Numbers(Tail(q), d))
  BY <1>1, <1>4 DEF Ascending, Below, NumberOf
<1> QED BY <1>2, <1>3, <1>5, <1>6, <1>7

LEMMA NumbersConcat ==
    ASSUME NEW S, NEW q \in Seq(S), NEW r \in Seq(S), NEW d
    PROVE  /\ Numbers(q \o r, d) = Numbers(q, d) \cup Numbers(r, d)
           /\ Ascending(q, d) /\ Ascending(r, d) /\ Below(Numbers(q, d), Numbers(r, d))
                  => Ascending(q \o r, d)
<1>1. /\ DOMAIN q = 1..Len(q) /\ Len(q) \in Nat
      /\ DOMAIN r = 1..Len(r) /\ Len(r) \in Nat
      /\ DOMAIN (q \o r) = 1..Len(q) + Len(r)
      /\ \A i \in 1..Len(q) : (q \o r)[i] = q[i] /\ i \in 1..Len(q) + Len(r)
      /\ \A i \in 1..Len(r) : (q \o r)[Len(q) + i] = r[i] /\ Len(q) + i \in 1..Len(q) + Len(r)
      /\ \A i \in 1..Len(q) + Len(r) :
             i \in 1..Len(q) \/ \E j \in 1..Len(r) : i = Len(q) + j
  <2>1. ASSUME NEW i \in 1..Len(q) + Len(r)
        PROVE  i \in 1..Len(q) \/ \E j \in 1..Len(r) : i = Len(q) + j
    <3>1. i \in 1..Len(q) \/ (i - Len(q) \in 1..Len(r) /\ i = Len(q) + (i - Len(q)))
      OBVIOUS
    <3> QED BY <3>1
  <2> QED BY <2>1
<1>2. ASSUME NEW n \in Numbers(q \o r, d) PROVE n \in Numbers(q, d) \cup Numbers(r, d)
  <2>1. PICK i \in 1..Len(q) + Len(r) : n = (q \o r)[i].n /\ IsInd((q \o r)[i], d)
    BY <1>1 DEF Numbers
  <2>2. CASE i \in 1..Len(q)
    BY <1>1, <2>1, <2>2 DEF Numbers
  <2>3. ASSUME NEW j \in 1..Len(r), i = Len(q) + j PROVE n \in Numbers(r, d)
    BY <1>1, <2>1, <2>3 DEF Numbers
  <2> QED BY <1>1, <2>2, <2>3
<1>3. ASSUME NEW n \in Numbers(q, d) PROVE n \in Numbers(q \o r, d)
  <2>1. PICK i \in 1..Len(q) : n = q[i].n /\ IsInd(q[i], d)
    BY <1>1 DEF Numbers
  <2> QED BY <1>1, <2>1 DEF Numbers
<1>4. ASSUME NEW n \in Numbers(r, d) PROVE n \in Numbers(q \o r, d)
  <2>1. PICK i \in 1..Len(r) : n = r[i].n /\ IsInd(r[i], d)
    BY <1>1 DEF Numbers
  <2>2. (q \o r)[Len(q) + i] = r[i] /\ Len(q) + i \in DOMAIN (q \o r)
    BY <1>1
  <2> QED BY <2>1, <2>2 DEF Numbers
<1>5. ASSUME Ascending(q, d), Ascending(r, d), Below(Numbers(q, d), Numbers(r, d))
      PROVE  Ascending(q \o r, d)
  <2> SUFFICES ASSUME NEW i \in 1..Len(q) + Len(r), NEW j \in 1..Len(q) + Len(r), i < j,
                      IsInd((q \o r)[i], d), IsInd((q \o r)[j], d)
               PROVE  (q \o r)[i].n < (q \o r)[j].n
    BY <1>1 DEF Ascending
  <2>1. CASE i \in 1..Len(q) /\ j \in 1..Len(q)
    BY <1>1, <1>5, <2>1 DEF Ascending
  <2>2. ASSUME i \in 1..Len(q), NEW k \in 1..Len(r), j = Len(q) + k
        PROVE  (q \o r)[i].n < (q \o r)[j].n
    <3>1. q[i].n \in Numbers(q, d) /\ r[k].n \in Numbers(r, d)
      BY <1>1, <2>2 DEF Numbers
    <3>2. (q \o r)[i] = q[i] /\ (q \o r)[j] = r[k]
      BY <1>1, <2>2
    <3> QED BY <1>5, <3>1, <3>2 DEF Below
  <2>3. ASSUME NEW h \in 1..Len(r), i = Len(q) + h, NEW k \in 1..Len(r), j = Len(q) + k
        PROVE  (q \o r)[i].n < (q \o r)[j].n
    <3>1. h < k /\ (q \o r)[i] = r[h] /\ (q \o r)[j] = r[k]
      BY <1>1, <2>3
    <3> QED BY <1>1, <1>5, <2>3, <3>1 DEF Ascending
  <2>4. ASSUME NEW h \in 1..Len(r), i = Len(q) + h, j \in 1..Len(q) PROVE FALSE
    BY <1>1, <2>4
  <2> QED BY <1>1, <2>1, <2>2, <2>3, <2>4
<1> QED BY <1>2, <1>3, <1>4, <1>5

\* Where the indications of a device are: their numbers, in order of progress.
Done(d)    == Numbers(dispatched[d], d)
Running(d) == {hand[a].n : a \in {b \in Dispatching : hand[b].dev = d}}
Waiting(d) == Numbers(upstream, d)
OnWire(d)  == Numbers(fromChip[d], d)

Rising(d) ==
    Ascending(dispatched[d], d) /\ Ascending(upstream, d) /\ Ascending(fromChip[d], d)
InSequence(d) ==
    /\ Below(Done(d), Running(d)) /\ Below(Done(d), Waiting(d)) /\ Below(Done(d), OnWire(d))
    /\ Below(Running(d), Waiting(d)) /\ Below(Running(d), OnWire(d))
    /\ Below(Waiting(d), OnWire(d))
SentBy(d) == \A n \in Done(d) \cup Running(d) \cup Waiting(d) \cup OnWire(d) : n <= ind[d]
OwnWire(d) == \A e \in Dev \ {d} : Numbers(fromChip[e], d) = {}
Indications == \A d \in Dev : Rising(d) /\ InSequence(d) /\ SentBy(d) /\ OwnWire(d)

\* All the steps, those that concern no indication as one.
Elsewhere ==
    UNCHANGED <<dispatched, hand, upstream, fromChip, ind, Dispatching>>

LEMMA StepsOfIndications ==
    ASSUME TypeOK, [Next]_vars
    PROVE  \/ \E a \in Actor : CallbackReturn(a)
           \/ \E a \in Actor, back \in {"idle", "check"} :
                  at[a] # "callback" /\ Dispatch(a, back)
           \/ \E d \in Dev : IoFlush(d) \/ IoRead(d) \/ ChipExecute(d) \/ ChipIndicate(d)
           \/ \E t \in Thread : (StopWake(t) \/ CloseFlush(t)) /\ UNCHANGED Dispatching
           \/ Elsewhere
<1>1. at \in [Actor -> AtPcs] /\ Thread \subseteq Actor /\ Worker \subseteq Actor
      /\ ud_thread \in Worker \cup {None} /\ None \notin Actor
  BY ConstantsAssumption DEF TypeOK, ControlOK, StaticsOK, Actor
<1>2. ASSUME NEW a \in Actor, NEW pc, at[a] # "callback", pc # "callback",
             at' = [at EXCEPT ![a] = pc]
      PROVE  Dispatching' = Dispatching
  BY <1>1, <1>2 DEF Dispatching
<1>3. ASSUME NEW a \in Actor, NEW pc, NEW flag, GotoSetting(a, pc, flag),
             at[a] # "callback", pc # "callback"
      PROVE  Elsewhere
  BY <1>2, <1>3 DEF GotoSetting, Goto, Elsewhere, queues, chip, history
<1>4. ASSUME NEW a \in Actor, Begin(a) PROVE Elsewhere
  <2>1. ASSUME NEW d \in Dev, SendAsync(a, d) \/ SyncBegin(a, d) PROVE Elsewhere
    BY <2>1 DEF SendAsync, SyncBegin, queues, control, chip, history, Elsewhere, Dispatching
  <2> QED BY <1>4, <2>1 DEF Begin, ExchangeAsync, UserCommand
<1>5. ASSUME NEW a \in Actor, CallStep(a) PROVE Elsewhere \/ CallbackReturn(a)
  BY <1>5 DEF CallStep, SyncSend, SyncDrained, SyncAnswered, SyncTimeout, SyncReturn, queues,
              control, chip, history, Elsewhere, Dispatching
<1>6. ASSUME NEW t \in Thread, BeginControl(t) PROVE Elsewhere
  <2>1. at[t] = "idle"
    BY <1>6 DEF BeginControl, PollBegin, StartBegin, StopBegin, Open, CloseBegin, MayControl
  <2>2. CASE PollBegin(t) \/ StartBegin(t) \/ StopBegin(t)
    BY <1>1, <1>3, <2>1, <2>2 DEF PollBegin, StartBegin, StopBegin, Move
  <2>3. ASSUME NEW d \in Dev, Open(t, d) PROVE Elsewhere
    BY <2>3 DEF Open, Elsewhere, Dispatching, history
  <2>4. ASSUME NEW d \in Dev, CloseBegin(t, d) PROVE Elsewhere
    <3>1. /\ at' = [at EXCEPT ![t] = "joinio"]
          /\ UNCHANGED <<dispatched, hand, upstream, fromChip, ind>>
      BY <2>4 DEF CloseBegin, Goto, queues, chip, history
    <3> QED BY <1>1, <1>2, <2>1, <3>1 DEF Elsewhere
  <2> QED BY <1>6, <2>2, <2>3, <2>4 DEF BeginControl
<1>7. ASSUME NEW t \in Thread, ControlStep(t)
      PROVE  \/ Elsewhere
             \/ at[t] # "callback" /\ Dispatch(t, "idle")
             \/ (StopWake(t) \/ CloseFlush(t)) /\ UNCHANGED Dispatching
  <2>1. t \in Actor /\ at[t] # "callback"
    BY <1>1, <1>7 DEF ControlStep, PollNotFound, PollDispatch, StartSetFlag, StartCreate,
       StartFail, StopCheck, StopClearFlag, StopWake, StopJoin, CloseJoin, CloseFlush
  <2>2. AfterStop(t) # "callback"
    BY DEF AfterStop
  <2>3. CASE PollNotFound(t) \/ PollDispatch(t)
    BY <1>3, <2>1, <2>3 DEF PollNotFound, PollDispatch, Move
  <2>4. CASE StartSetFlag(t) \/ StartFail(t) \/ StopCheck(t) \/ StopClearFlag(t)
    BY <1>3, <2>1, <2>2, <2>4 DEF StartSetFlag, StartFail, StopCheck, StopClearFlag, Move
  <2>5. CASE StartCreate(t)
    <3>1. PICK w \in Worker : at[w] = "none" /\ at' = [at EXCEPT ![t] = "idle", ![w] = "check"]
      BY <2>5 DEF StartCreate
    <3>2. Dispatching' = Dispatching
      BY <1>1, <2>1, <3>1 DEF Dispatching
    <3> QED BY <2>5, <3>2 DEF StartCreate, queues, chip, history, Elsewhere
  <2>6. CASE StopWake(t)
    BY <1>2, <2>1, <2>6 DEF StopWake, Goto
  <2>7. CASE StopJoin(t)
    <3>1. /\ at' = [at EXCEPT ![t] = AfterStop(t), ![ud_thread] = "none"]
          /\ at[ud_thread] = "done"
      BY <2>7 DEF StopJoin, Join
    <3>2. Dispatching' = Dispatching
      BY <1>1, <2>1, <2>2, <3>1 DEF Dispatching
    <3> QED BY <2>7, <3>2 DEF StopJoin, queues, chip, history, Elsewhere
  <2>8. CASE CloseJoin(t)
    <3>1. \E pc \in {"idle", "stop"} : at' = [at EXCEPT ![t] = pc]
      BY <2>8 DEF CloseJoin, CloseEnd, Goto
    <3>2. Dispatching' = Dispatching
      BY <1>2, <2>1, <3>1
    <3> QED BY <2>8, <3>2 DEF CloseJoin, chip, history, Elsewhere
  <2>9. CASE CloseFlush(t)
    <3>1. UNCHANGED at \/ at' = [at EXCEPT ![t] = "idle"]
      BY <2>9 DEF CloseFlush, CloseEnd, Goto
    <3>2. Dispatching' = Dispatching
      BY <1>2, <2>1, <3>1 DEF Dispatching
    <3> QED BY <2>9, <3>2
  <2> QED BY <1>7, <2>3, <2>4, <2>5, <2>6, <2>7, <2>8, <2>9 DEF ControlStep
<1>8. ASSUME NEW w \in Worker, WorkerStep(w)
      PROVE  Elsewhere \/ (at[w] # "callback" /\ Dispatch(w, "check"))
  BY <1>1, <1>3, <1>8 DEF WorkerStep, WorkerCheck, WorkerDispatch, Move
<1>9. ASSUME NEW d \in Dev,
             IoReadError(d) \/ IoPop(d) \/ IoSend(d) \/ IoSendError(d) \/ IoExit(d)
                 \/ ChipLose(d) \/ LinkReady(d)
      PROVE  Elsewhere
  BY <1>9 DEF IoReadError, IoPop, IoSend, IoSendError, Written, IoExit, ChipLose, LinkReady,
              Error, queues, control, chip, history, Elsewhere, Dispatching
<1>10. CASE UNCHANGED vars
  BY <1>10 DEF vars, queues, control, chip, history, Elsewhere, Dispatching
<1> QED
  BY <1>1, <1>4, <1>5, <1>6, <1>7, <1>8, <1>9, <1>10 DEF Next, IoStep, ChipStep, Quiescent

\* What a step may do to the indications of a device.
Still(d)    == UNCHANGED <<Done(d), Running(d), Waiting(d), OnWire(d), ind[d]>>
Indicated(d) == UNCHANGED <<Done(d), Running(d), Waiting(d)>>
                /\ ind'[d] = ind[d] + 1 /\ OnWire(d)' = OnWire(d) \cup {ind[d] + 1}
Flushed(d)  == UNCHANGED <<Done(d), Running(d), Waiting(d), ind[d]>>
               /\ OnWire(d)' = {} /\ IoFlush(d)
Received(d) == UNCHANGED <<Done(d), Running(d), ind[d]>>
               /\ \E N : /\ OnWire(d) = N \cup OnWire(d)' /\ Below(N, OnWire(d)')
                         /\ Waiting(d)' = Waiting(d) \cup N
               /\ io[d] = "loop"
HandedOn(d) == UNCHANGED <<Done(d), OnWire(d), ind[d]>> /\ Running(d) = {}
               /\ Waiting(d) = Running(d)' \cup Waiting(d)'
               /\ Below(Running(d)', Waiting(d)')
Returned(d) == UNCHANGED <<Waiting(d), OnWire(d), ind[d]>>
               /\ Done(d)' = Done(d) \cup Running(d) /\ Running(d)' = {}
Dropped(d)  == UNCHANGED <<Done(d), Running(d), OnWire(d), ind[d]>>
               /\ Waiting(d)' \subseteq Waiting(d) /\ \E t \in Thread : CloseFlush(t)

Moved(d) == \/ Still(d) \/ Indicated(d) \/ Flushed(d) \/ Received(d)
            \/ HandedOn(d) \/ Returned(d) \/ Dropped(d)

LEMMA IndicationMoves ==
    ASSUME TypeOK, AtMostOneDispatcher, AtMostOneDispatcher', Indications, [Next]_vars,
           NEW d \in Dev
    PROVE  Rising(d)' /\ OwnWire(d)' /\ Moved(d)
<1>1. /\ dispatched \in [Dev -> Seq(Indication)] /\ upstream \in Seq(Indication \cup {Wake})
      /\ fromChip \in [Dev -> Seq(Answer \cup Indication)]
      /\ hand \in [Actor -> Indication \cup {NoMsg}]
      /\ at \in [Actor -> AtPcs] /\ ind \in [Dev -> Nat]
      /\ \A a \in Dispatching : hand[a] \in Indication
      /\ \A m \in Indication : m.kind = "ind" /\ m.dev \in Dev /\ m.n \in Nat /\ m # Wake
      /\ \A m \in Answer : ~IsInd(m, d)
      /\ ~IsInd(Wake, d) /\ Wake \in Indication \cup {Wake}
  <2>1. /\ \A m \in Indication : m.kind = "ind"
        /\ \A m \in Answer : ~IsInd(m, d)
        /\ ~IsInd(Wake, d)
    BY DEF Indication, Answer, Wake, Msg, IsInd
  <2> QED
    BY <2>1, MessageTypes DEF TypeOK, HistoryOK, QueuesOK, ChipOK, ControlOK, Dispatching
<1>2. Rising(d) /\ InSequence(d) /\ OwnWire(d)
  BY DEF Indications
<1>3. CASE Elsewhere
  BY <1>2, <1>3 DEF Elsewhere, Rising, OwnWire, Moved, Still, Done, Running, Waiting, OnWire
<1>4. ASSUME NEW a \in Actor, CallbackReturn(a) PROVE Rising(d)' /\ OwnWire(d)' /\ Moved(d)
  <2>1. /\ at[a] = "callback" /\ at' = [at EXCEPT ![a] = AfterCallback(a)]
        /\ dispatched' = [dispatched EXCEPT ![hand[a].dev] = Append(@, hand[a])]
        /\ UNCHANGED <<upstream, fromChip, ind>>
    BY <1>4 DEF CallbackReturn, Goto, queues, chip
  <2>2. Dispatching = {a} /\ Dispatching' = {}
    BY <1>1, <2>1 DEF AtMostOneDispatcher, Dispatching, AfterCallback
  <2>3. PICK m \in Indication : m = hand[a]
    BY <1>1, <2>2
  <2>4. Running(d)' = {} /\ Running(d) = NumberOf(m, d)
    BY <1>1, <2>2, <2>3 DEF Running, NumberOf, IsInd
  <2>5. dispatched'[d] = IF m.dev = d THEN Append(dispatched[d], m) ELSE dispatched[d]
    BY <1>1, <2>1, <2>3
  <2>6. /\ Done(d)' = Done(d) \cup Running(d)
        /\ Ascending(dispatched'[d], d)
    <3>1. CASE m.dev = d
      BY <1>1, <1>2, <2>4, <2>5, <3>1, NumbersAppend DEF Rising, InSequence, Done
    <3>2. CASE m.dev # d
      BY <1>1, <1>2, <2>4, <2>5, <3>2 DEF Rising, Done, NumberOf, IsInd
    <3> QED BY <3>1, <3>2
  <2> QED
    BY <1>2, <2>1, <2>4, <2>6 DEF Rising, OwnWire, Moved, Returned, Waiting, OnWire
<1>5. ASSUME NEW a \in Actor, NEW back \in {"idle", "check"}, at[a] # "callback",
             Dispatch(a, back)
      PROVE  Rising(d)' /\ OwnWire(d)' /\ Moved(d)
  <2>1. /\ upstream # <<>> /\ upstream' = Tail(upstream)
        /\ UNCHANGED <<dispatched, fromChip, ind>>
    BY <1>5 DEF Dispatch, chip, history
  <2>2. /\ Waiting(d) = NumberOf(Head(upstream), d) \cup Waiting(d)'
        /\ Ascending(upstream', d) /\ Below(NumberOf(Head(upstream), d), Waiting(d)')
    BY <1>1, <1>2, <2>1, NumbersTail DEF Rising, Waiting
  <2>3. CASE Head(upstream) = Wake
    <3>1. at' = [at EXCEPT ![a] = back] /\ hand' = hand
      BY <1>5, <2>3 DEF Dispatch, Goto
    <3>2. Running(d)' = Running(d)
      BY <1>1, <1>5, <3>1 DEF Dispatching, Running
    <3>3. NumberOf(Head(upstream), d) = {}
      BY <1>1, <2>3 DEF NumberOf
    <3> QED
      BY <1>2, <2>1, <2>2, <3>2, <3>3 DEF Rising, OwnWire, Moved, Still, Done, OnWire
  <2>4. CASE Head(upstream) # Wake
    <3>1. at' = [at EXCEPT ![a] = "callback"] /\ hand' = [hand EXCEPT ![a] = Head(upstream)]
      BY <1>5, <2>4 DEF Dispatch, Goto
    <3>2. PICK m \in Indication : m = Head(upstream)
      BY <1>1, <2>1, <2>4
    <3>3. Dispatching' = {a} /\ Dispatching = {} /\ hand'[a] = m
      BY <1>1, <1>5, <3>1, <3>2 DEF AtMostOneDispatcher, Dispatching
    <3>4. Running(d) = {} /\ Running(d)' = NumberOf(m, d)
      BY <1>1, <3>3 DEF Running, NumberOf, IsInd
    <3> QED
      BY <1>2, <2>1, <2>2, <3>2, <3>4 DEF Rising, OwnWire, Moved, HandedOn, Done, OnWire
  <2> QED BY <2>3, <2>4
<1>6. ASSUME NEW e \in Dev, IoFlush(e) PROVE Rising(d)' /\ OwnWire(d)' /\ Moved(d)
  <2>1. /\ fromChip' = [fromChip EXCEPT ![e] = <<>>]
        /\ UNCHANGED <<dispatched, hand, at, upstream, ind>>
    BY <1>6 DEF IoFlush, queues, control
  <2>2. Numbers(<<>>, d) = {} /\ Ascending(<<>>, d)
    BY DEF Numbers, Ascending
  <2>3. OwnWire(d)'
    BY <1>1, <1>2, <2>1, <2>2 DEF OwnWire
  <2>4. Rising(d)'
    BY <1>1, <1>2, <2>1, <2>2 DEF Rising
  <2>5. Moved(d)
    <3>1. UNCHANGED <<Done(d), Running(d), Waiting(d), ind[d]>>
      BY <2>1 DEF Done, Running, Waiting, Dispatching
    <3>2. OnWire(d)' = IF e = d THEN {} ELSE OnWire(d)
      BY <1>1, <2>1, <2>2 DEF OnWire
    <3> QED BY <1>6, <3>1, <3>2 DEF Moved, Still, Flushed
  <2> QED BY <2>3, <2>4, <2>5
<1>7. ASSUME NEW e \in Dev, IoRead(e) PROVE Rising(d)' /\ OwnWire(d)' /\ Moved(d)
  <2>0. PICK m \in Answer \cup Indication : m = Head(fromChip[e])
    BY <1>1, <1>7 DEF IoRead
  <2>1. /\ fromChip[e] # <<>> /\ fromChip' = [fromChip EXCEPT ![e] = Tail(@)]
        /\ IF IsSync(m) THEN upstream' = upstream ELSE upstream' = Append(upstream, m)
        /\ UNCHANGED <<dispatched, hand, at, ind>>
    BY <1>7, <2>0 DEF IoRead, AddUpstream, control, history
  <2>2. /\ Numbers(fromChip[e], d) = NumberOf(m, d) \cup Numbers(fromChip'[e], d)
        /\ Ascending(fromChip[e], d) =>
              /\ Ascending(fromChip'[e], d)
              /\ Below(NumberOf(m, d), Numbers(fromChip'[e], d))
    BY <1>1, <2>0, <2>1, NumbersTail
  <2>3. OwnWire(d)'
    <3>1. e # d => Numbers(fromChip'[e], d) = {}
      BY <1>2, <2>2 DEF OwnWire
    <3> QED BY <1>1, <1>2, <2>1, <3>1 DEF OwnWire
  <2>4. Below(Waiting(d), NumberOf(m, d))
    <3>1. e # d => NumberOf(m, d) = {}
      BY <1>2, <2>2 DEF OwnWire
    <3> QED BY <1>2, <2>2, <3>1 DEF InSequence, OnWire, Below
  <2>5. Waiting(d)' = Waiting(d) \cup NumberOf(m, d) /\ Ascending(upstream', d)
    <3>1. CASE IsSync(m)
      <4>1. NumberOf(m, d) = {}
        BY <1>1, <3>1, MessageTypes DEF NumberOf
      <4> QED BY <1>2, <2>1, <3>1, <4>1 DEF Rising, Waiting
    <3>2. CASE ~IsSync(m)
      <4>1. m \in Indication \cup {Wake} /\ upstream' = Append(upstream, m)
        BY <2>1, <3>2, MessageTypes
      <4> QED BY <1>1, <1>2, <2>4, <4>1, NumbersAppend DEF Rising, Waiting
    <3> QED BY <3>1, <3>2
  <2>6. Rising(d)'
    <3>1. Ascending(fromChip'[d], d)
      BY <1>1, <1>2, <2>1, <2>2 DEF Rising
    <3> QED BY <1>2, <2>1, <2>5, <3>1 DEF Rising
  <2>7. Moved(d)
    <3>1. UNCHANGED <<Done(d), Running(d), ind[d]>>
      BY <2>1 DEF Done, Running, Dispatching
    <3>2. CASE e = d
      <4>1. io[d] = "loop"
        BY <1>7, <3>2 DEF IoRead, InLoop
      <4> QED BY <1>2, <2>2, <2>5, <3>1, <3>2, <4>1 DEF Moved, Received, OnWire, Rising
    <3>3. CASE e # d
      <4>1. NumberOf(m, d) = {} /\ fromChip'[d] = fromChip[d]
        BY <1>1, <1>2, <2>1, <2>2, <3>3 DEF OwnWire
      <4> QED BY <2>5, <3>1, <4>1 DEF Moved, Still, OnWire
    <3> QED BY <3>2, <3>3
  <2> QED BY <2>3, <2>6, <2>7
<1>8. ASSUME NEW e \in Dev, ChipExecute(e) PROVE Rising(d)' /\ OwnWire(d)' /\ Moved(d)
  <2>0. PICK m \in Answer : m = Confirm(Head(toChip[e]))
    <3>1. Head(toChip[e]) \in Command
      BY <1>8 DEF ChipExecute, TypeOK, ChipOK
    <3> QED BY <3>1, MessageTypes
  <2>1. /\ UNCHANGED fromChip \/ fromChip' = [fromChip EXCEPT ![e] = Append(@, m)]
        /\ UNCHANGED <<dispatched, hand, at, upstream, ind>>
    BY <1>8, <2>0 DEF ChipExecute, queues, control
  <2>2. /\ Numbers(fromChip'[e], d) = Numbers(fromChip[e], d)
        /\ Ascending(fromChip[e], d) => Ascending(fromChip'[e], d)
    <3>1. ~IsInd(m, d)
      BY <1>1
    <3>2. m \in Answer \cup Indication
      OBVIOUS
    <3>3. /\ Numbers(Append(fromChip[e], m), d) = Numbers(fromChip[e], d)
          /\ Ascending(fromChip[e], d) => Ascending(Append(fromChip[e], m), d)
      BY <1>1, <3>1, <3>2, NumbersAside
    <3> QED BY <1>1, <2>1, <3>3
  <2>3. \A x \in Dev : x # e => fromChip'[x] = fromChip[x]
    BY <1>1, <2>1
  <2> QED
    BY <1>2, <2>1, <2>2, <2>3
       DEF Rising, OwnWire, Moved, Still, Done, Running, Waiting, OnWire, Dispatching
<1>9. ASSUME NEW e \in Dev, ChipIndicate(e) PROVE Rising(d)' /\ OwnWire(d)' /\ Moved(d)
  <2>0. PICK m \in Indication : m = Msg("ind", e, None, ind[e] + 1)
    BY <1>1, MessageTypes
  <2>1. /\ fromChip' = [fromChip EXCEPT ![e] = Append(@, m)]
        /\ ind' = [ind EXCEPT ![e] = @ + 1]
        /\ UNCHANGED <<dispatched, hand, at, upstream>>
    BY <1>9, <2>0 DEF ChipIndicate, AddTo, queues, control, history
  <2>2. NumberOf(m, d) = IF e = d THEN {ind[d] + 1} ELSE {}
    BY <2>0 DEF NumberOf, IsInd, Msg
  <2>3. /\ Numbers(fromChip'[e], d) = Numbers(fromChip[e], d) \cup NumberOf(m, d)
        /\ Ascending(fromChip[e], d) /\ Below(Numbers(fromChip[e], d), NumberOf(m, d))
              => Ascending(fromChip'[e], d)
    <3>1. fromChip'[e] = Append(fromChip[e], m) /\ m \in Answer \cup Indication
      BY <1>1, <2>1
    <3> QED BY <1>1, <3>1, NumbersAppend
  <2>4. \A x \in Dev : x # e => fromChip'[x] = fromChip[x]
    BY <1>1, <2>1
  <2>5. OwnWire(d)'
    BY <1>2, <2>2, <2>3, <2>4 DEF OwnWire
  <2>6. e = d => Below(Numbers(fromChip[e], d), NumberOf(m, d))
    <3>1. \A n \in OnWire(d) : n \in Nat /\ n <= ind[d]
      <4>1. \A n \in OnWire(d) : n \in Nat
        <5>1. ASSUME NEW i \in DOMAIN fromChip[d], IsInd(fromChip[d][i], d)
              PROVE  fromChip[d][i].n \in Nat
          BY <1>1, <5>1
        <5> QED BY <5>1 DEF OnWire, Numbers
      <4> QED BY <4>1 DEF Indications, SentBy
    <3> QED BY <1>1, <2>2, <3>1 DEF Below, OnWire
  <2>7. Rising(d)'
    <3>1. Ascending(fromChip'[d], d)
      BY <1>2, <2>3, <2>4, <2>6 DEF Rising
    <3> QED BY <1>2, <2>1, <3>1 DEF Rising
  <2>8. Moved(d)
    <3>1. UNCHANGED <<Done(d), Running(d), Waiting(d)>>
      BY <2>1 DEF Done, Running, Waiting, Dispatching
    <3>2. ind'[d] = IF e = d THEN ind[d] + 1 ELSE ind[d]
      BY <1>1, <2>1
    <3>3. OnWire(d)' = IF e = d THEN OnWire(d) \cup {ind[d] + 1} ELSE OnWire(d)
      BY <2>2, <2>3, <2>4 DEF OnWire
    <3> QED BY <3>1, <3>2, <3>3 DEF Moved, Still, Indicated
  <2> QED BY <2>5, <2>7, <2>8
<1>10. ASSUME NEW t \in Thread, StopWake(t) \/ CloseFlush(t), UNCHANGED Dispatching
       PROVE  Rising(d)' /\ OwnWire(d)' /\ Moved(d)
  <2>1. /\ UNCHANGED <<dispatched, hand, fromChip, ind>>
        /\ \/ upstream' = upstream \/ upstream' = Append(upstream, Wake)
           \/ CloseFlush(t) /\ upstream # <<>> /\ upstream' = Tail(upstream)
    BY <1>10 DEF StopWake, QueueWake, AddUpstream, CloseFlush, chip, history
  <2>2. /\ UNCHANGED <<Done(d), Running(d), OnWire(d), ind[d]>>
        /\ OwnWire(d)' /\ Ascending(dispatched'[d], d) /\ Ascending(fromChip'[d], d)
    BY <1>2, <1>10, <2>1 DEF Done, Running, OnWire, OwnWire, Rising
  <2>3. CASE upstream' = upstream
    BY <1>2, <2>2, <2>3 DEF Rising, Moved, Still, Waiting
  <2>4. CASE upstream' = Append(upstream, Wake)
    <3>1. Waiting(d)' = Waiting(d) /\ Ascending(upstream', d)
      BY <1>1, <1>2, <2>4, NumbersAside DEF Rising, Waiting
    <3> QED BY <2>2, <3>1 DEF Rising, Moved, Still
  <2>5. CASE CloseFlush(t) /\ upstream # <<>> /\ upstream' = Tail(upstream)
    <3>1. Waiting(d)' \subseteq Waiting(d) /\ Ascending(upstream', d)
      BY <1>1, <1>2, <2>5, NumbersTail DEF Rising, Waiting
    <3> QED BY <2>2, <2>5, <3>1 DEF Rising, Moved, Dropped
  <2> QED BY <2>1, <2>3, <2>4, <2>5
<1> QED
  BY <1>3, <1>4, <1>5, <1>6, <1>7, <1>8, <1>9, <1>10, StepsOfIndications

LEMMA NumberTypes ==
    ASSUME TypeOK, NEW d \in Dev
    PROVE  Done(d) \cup Running(d) \cup Waiting(d) \cup OnWire(d) \subseteq Nat
<1>1. /\ dispatched[d] \in Seq(Indication) /\ upstream \in Seq(Indication \cup {Wake})
      /\ fromChip[d] \in Seq(Answer \cup Indication)
      /\ \A a \in Dispatching : hand[a].n \in Nat
      /\ \A m \in Indication \cup Answer \cup {Wake} : IsInd(m, d) => m.n \in Nat
  <2>1. \A m \in Answer \cup {Wake} : ~IsInd(m, d)
    BY DEF Answer, Wake, Msg, IsInd
  <2> QED
    BY <2>1, MessageTypes DEF TypeOK, HistoryOK, QueuesOK, ChipOK, ControlOK, Dispatching
<1>2. ASSUME NEW q \in Seq(Indication \cup Answer \cup {Wake}) PROVE Numbers(q, d) \subseteq Nat
  <2>1. ASSUME NEW i \in DOMAIN q, IsInd(q[i], d) PROVE q[i].n \in Nat
    BY <1>1, <1>2, <2>1
  <2> QED BY <2>1 DEF Numbers
<1>3. /\ dispatched[d] \in Seq(Indication \cup Answer \cup {Wake})
      /\ upstream \in Seq(Indication \cup Answer \cup {Wake})
      /\ fromChip[d] \in Seq(Indication \cup Answer \cup {Wake})
  BY <1>1
<1> QED BY <1>1, <1>2, <1>3 DEF Done, Running, Waiting, OnWire

LEMMA IndicationsStep ==
    ASSUME TypeOK, AtMostOneDispatcher, AtMostOneDispatcher', Indications, [Next]_vars
    PROVE  Indications'
<1> SUFFICES ASSUME NEW d \in Dev
             PROVE  Rising(d)' /\ InSequence(d)' /\ SentBy(d)' /\ OwnWire(d)'
  BY DEF Indications
<1>1. Rising(d)' /\ OwnWire(d)' /\ Moved(d)
  BY IndicationMoves
<1>2. /\ Done(d) \subseteq Nat /\ Running(d) \subseteq Nat /\ Waiting(d) \subseteq Nat
      /\ OnWire(d) \subseteq Nat /\ ind[d] \in Nat
  BY NumberTypes DEF TypeOK, ChipOK
<1>3. InSequence(d) /\ SentBy(d)
  BY DEF Indications
<1> USE DEF InSequence, SentBy, Below
<1>4. CASE Still(d)
  BY <1>1, <1>3, <1>4 DEF Still
<1>5. CASE Indicated(d)
  <2>1. \A n \in Done(d) \cup Running(d) \cup Waiting(d) \cup OnWire(d) :
            n < ind[d] + 1 /\ n <= ind[d] + 1
    BY <1>2, <1>3
  <2> QED BY <1>1, <1>2, <1>3, <1>5, <2>1 DEF Indicated
<1>6. CASE Flushed(d)
  BY <1>1, <1>3, <1>6 DEF Flushed
<1>7. CASE Received(d)
  BY <1>1, <1>3, <1>7 DEF Received
<1>8. CASE HandedOn(d)
  BY <1>1, <1>3, <1>8 DEF HandedOn
<1>9. CASE Returned(d)
  BY <1>1, <1>3, <1>9 DEF Returned
<1>10. CASE Dropped(d)
  BY <1>1, <1>3, <1>10 DEF Dropped
<1> QED
  BY <1>1, <1>4, <1>5, <1>6, <1>7, <1>8, <1>9, <1>10 DEF Moved

LEMMA IndicationsInvariant ==
    ASSUME SingleController
    PROVE  Spec => [](TypeOK /\ AtMostOneDispatcher /\ Indications)
<1>1. Init => Indications
  <2> SUFFICES ASSUME Init, NEW d \in Dev
               PROVE  Rising(d) /\ InSequence(d) /\ SentBy(d) /\ OwnWire(d)
    BY DEF Indications
  <2>1. /\ dispatched[d] = <<>> /\ upstream = <<>> /\ Dispatching = {}
        /\ \A e \in Dev : fromChip[e] = <<>>
    BY DEF Init, Dispatching
  <2>2. Numbers(<<>>, d) = {} /\ Ascending(<<>>, d)
    BY DEF Numbers, Ascending
  <2>3. Done(d) = {} /\ Running(d) = {} /\ Waiting(d) = {} /\ OnWire(d) = {}
    BY <2>1, <2>2 DEF Done, Running, Waiting, OnWire
  <2> QED BY <2>1, <2>2, <2>3 DEF Rising, InSequence, SentBy, OwnWire, Below
<1>2. TypeOK /\ AtMostOneDispatcher /\ AtMostOneDispatcher' /\ Indications /\ [Next]_vars
          => Indications'
  BY IndicationsStep
<1> QED
  BY <1>1, <1>2, TypeCorrect, CallbacksNeverOverlap, PTL DEF Spec

\* The places one after the other.
LEMMA PipeOfPlaces ==
    ASSUME TypeOK, AtMostOneDispatcher, Indications, NEW d \in Dev
    PROVE  /\ Ascending(IndicationPipe(d), d)
           /\ Numbers(IndicationPipe(d), d) = Done(d) \cup Running(d) \cup Waiting(d) \cup OnWire(d)
<1> DEFINE S == Indication \cup Answer \cup {Wake}
           p == dispatched[d]   h == InHand(d)   u == upstream   f == fromChip[d]
<1>1. p \in Seq(S) /\ u \in Seq(S) /\ f \in Seq(S)
  BY DEF TypeOK, HistoryOK, QueuesOK, ChipOK
<1>2. h \in Seq(S) /\ Numbers(h, d) = Running(d) /\ Ascending(h, d)
  <2> DEFINE A == {a \in Dispatching : hand[a].dev = d}
  <2>1. \A a \in Dispatching : hand[a] \in Indication /\ hand[a].kind = "ind"
    BY DEF TypeOK, ControlOK, Dispatching, Indication
  <2>2. CASE A = {}
    <3>1. h = <<>> /\ Running(d) = {}
      BY <2>2 DEF InHand, Running
    <3> QED BY <3>1 DEF Numbers, Ascending
  <2>3. CASE A # {}
    <3>1. PICK a \in Dispatching : hand[a].dev = d
      BY <2>3
    <3>2. A = {a}
      BY <3>1 DEF AtMostOneDispatcher
    <3>3. h = <<hand[a]>> /\ Running(d) = {hand[a].n}
      BY <3>2 DEF InHand, Running
    <3>4. IsInd(hand[a], d) /\ hand[a] \in S
      BY <2>1, <3>1 DEF IsInd
    <3>5. \A m \in S : /\ <<m>> \in Seq(S) /\ DOMAIN <<m>> = {1} /\ <<m>>[1] = m
      OBVIOUS
    <3> HIDE DEF h, S
    <3> QED BY <3>3, <3>4, <3>5 DEF Numbers, Ascending
  <2> QED BY <2>2, <2>3
<1>3. /\ Numbers(p, d) = Done(d) /\ Numbers(u, d) = Waiting(d) /\ Numbers(f, d) = OnWire(d)
      /\ Ascending(p, d) /\ Ascending(u, d) /\ Ascending(f, d) /\ InSequence(d)
  BY DEF Indications, Rising, Done, Waiting, OnWire
<1>4. IndicationPipe(d) = ((p \o h) \o u) \o f
  BY DEF IndicationPipe
<1> DEFINE ph == p \o h   phu == ph \o u
<1> HIDE DEF p, h, u, f, S, ph, phu
<1>5. /\ ph \in Seq(S) /\ Numbers(ph, d) = Done(d) \cup Running(d) /\ Ascending(ph, d)
  BY <1>1, <1>2, <1>3, NumbersConcat DEF ph, InSequence
<1>6. /\ phu \in Seq(S) /\ Numbers(phu, d) = Done(d) \cup Running(d) \cup Waiting(d)
      /\ Ascending(phu, d)
  <2>1. Below(Numbers(ph, d), Numbers(u, d))
    BY <1>3, <1>5 DEF InSequence, Below
  <2>2. Numbers(ph \o u, d) = Numbers(ph, d) \cup Numbers(u, d)
    BY <1>1, <1>5, NumbersConcat
  <2>3. Ascending(ph \o u, d)
    BY <1>1, <1>3, <1>5, <2>1, NumbersConcat
  <2>4. ph \o u \in Seq(S)
    BY <1>1, <1>5
  <2> QED BY <1>3, <1>5, <2>2, <2>3, <2>4 DEF phu
<1>7. Below(Numbers(phu, d), Numbers(f, d))
  BY <1>3, <1>6 DEF InSequence, Below
<1>8. Numbers(phu \o f, d) = Numbers(phu, d) \cup Numbers(f, d)
  BY <1>1, <1>6, NumbersConcat
<1>9. Ascending(phu \o f, d)
  BY <1>1, <1>3, <1>6, <1>7, NumbersConcat
<1> QED BY <1>3, <1>4, <1>6, <1>8, <1>9 DEF ph, phu

\* For an application with one controlling thread, a device's indications reach
\* the callbacks in the order in which they were sent and none of them twice,
\* through ca821x_try_read, the upstream queue shared by all devices, polls and
\* any number of sessions of the dispatch worker.
THEOREM IndicationsKeepOrder ==
    ASSUME SingleController
    PROVE  Spec => []IndicationsInOrder
<1>1. TypeOK /\ AtMostOneDispatcher /\ Indications => IndicationsInOrder
  BY PipeOfPlaces DEF IndicationsInOrder
<1> QED
  BY <1>1, IndicationsInvariant, PTL

----------------------------------------------------------------------------
(* No indication is lost.                                                  *)

\* A device that is not closed has been opened, one that never was opened has no
\* io thread, and the flush of its io thread was not ahead of the chip.
Sessions ==
    \A d \in Dev : /\ status[d] # "closed" => opens[d] >= 1
                   /\ opens[d] = 0 => io[d] = "none"
                   /\ base[d] <= ind[d]

\* What has left the link before the io thread has flushed it, and after.
Complete(d) ==
    LET Left == Done(d) \cup Running(d) \cup Waiting(d) IN
    /\ io[d] \in {"none", "flush"} => Left = {}
    /\ io[d] \in {"loop", "send"} => Left \cup OnWire(d) = base[d] + 1 .. ind[d]

LEMMA StepsOfSessions ==
    ASSUME [Next]_vars
    PROVE  \/ \E t \in Thread, d \in Dev : Open(t, d) \/ CloseBegin(t, d)
           \/ \E t \in Thread : CloseJoin(t) \/ CloseFlush(t)
           \/ \E d \in Dev : \/ IoFlush(d) \/ IoPop(d) \/ IoSend(d) \/ IoSendError(d)
                             \/ IoExit(d) \/ ChipIndicate(d)
           \/ UNCHANGED <<status, opens, io, base, ind>>
<1> DEFINE Same == UNCHANGED <<status, opens, io, base, ind>>
<1>1. ASSUME NEW a \in Actor, NEW back, Dispatch(a, back) PROVE Same
  BY <1>1 DEF Dispatch, device, chip, history
<1>2. ASSUME NEW t \in Actor, NEW pc, NEW flag, GotoSetting(t, pc, flag) PROVE Same
  BY <1>2 DEF GotoSetting, device, chip, history
<1>3. ASSUME NEW a \in Actor, Begin(a) \/ CallStep(a) PROVE Same
  <2>1. ASSUME NEW d \in Dev, SendAsync(a, d) \/ SyncBegin(a, d) PROVE Same
    BY <2>1 DEF SendAsync, SyncBegin, device, chip, history
  <2>2. CASE CallStep(a)
    BY <2>2 DEF CallStep, SyncSend, SyncDrained, SyncAnswered, SyncTimeout, SyncReturn,
                CallbackReturn, device, chip, history
  <2> QED BY <1>3, <2>1, <2>2 DEF Begin, ExchangeAsync, UserCommand
<1>4. Thread \subseteq Actor /\ Worker \subseteq Actor
  BY DEF Actor
<1>5. ASSUME NEW t \in Thread, PollBegin(t) \/ StartBegin(t) \/ StopBegin(t) PROVE Same
  BY <1>2, <1>4, <1>5 DEF PollBegin, StartBegin, StopBegin, Move
<1>6. ASSUME NEW t \in Thread,
             PollNotFound(t) \/ PollDispatch(t) \/ StartSetFlag(t) \/ StartFail(t)
                 \/ StopCheck(t) \/ StopClearFlag(t)
      PROVE  Same
  BY <1>1, <1>2, <1>4, <1>6
     DEF PollNotFound, PollDispatch, StartSetFlag, StartFail, StopCheck, StopClearFlag, Move
<1>7. ASSUME NEW t \in Thread, StartCreate(t) \/ StopWake(t) \/ StopJoin(t) PROVE Same
  BY <1>7 DEF StartCreate, StopWake, StopJoin, device, chip, history
<1>8. ASSUME NEW w \in Worker, WorkerStep(w) PROVE Same
  BY <1>1, <1>2, <1>4, <1>8 DEF WorkerStep, WorkerCheck, WorkerDispatch, Move
<1>9. ASSUME NEW d \in Dev,
             IoRead(d) \/ IoReadError(d) \/ ChipExecute(d) \/ ChipLose(d) \/ LinkReady(d)
      PROVE  Same
  BY <1>9 DEF IoRead, IoReadError, ChipExecute, ChipLose, LinkReady, Error, device, chip, history
<1>10. CASE UNCHANGED vars
  BY <1>10 DEF vars, device, chip, history
<1> QED
  BY <1>3, <1>5, <1>6, <1>7, <1>8, <1>9, <1>10
     DEF Next, BeginControl, ControlStep, IoStep, ChipStep, Quiescent

\* Once a device is closed, NeverClosed is false for good.
LEMMA SessionsStep ==
    ASSUME TypeOK, Closing, Sessions, [Next]_vars
    PROVE  Sessions' /\ (NeverClosed' => NeverClosed)
<1>1. /\ status \in [Dev -> {"closed", "open", "closing"}] /\ opens \in [Dev -> Nat]
      /\ io \in [Dev -> {"none", "flush", "loop", "send", "done"}]
      /\ base \in [Dev -> Nat] /\ ind \in [Dev -> Nat]
      /\ \A t \in Thread : at[t] \in {"joinio", "flush"} =>
             closing[t] \in Dev /\ status[closing[t]] = "closing"
  BY ConstantsAssumption DEF TypeOK, DeviceOK, HistoryOK, ChipOK, ControlOK, Closing
<1>2. CASE UNCHANGED <<status, opens, io, base, ind>>
  BY <1>2 DEF Sessions, NeverClosed
<1>3. ASSUME NEW t \in Thread, NEW d \in Dev, Open(t, d)
      PROVE  Sessions' /\ (NeverClosed' => NeverClosed)
  <2>1. /\ status[d] = "closed" /\ status' = [status EXCEPT ![d] = "open"]
        /\ opens' = [opens EXCEPT ![d] = @ + 1] /\ io' = [io EXCEPT ![d] = "flush"]
        /\ UNCHANGED <<base, ind>>
    BY <1>3 DEF Open, history
  <2> QED BY <1>1, <2>1 DEF Sessions, NeverClosed
<1>4. ASSUME NEW t \in Thread, NEW d \in Dev, CloseBegin(t, d)
      PROVE  Sessions' /\ (NeverClosed' => NeverClosed)
  <2>1. /\ status[d] = "open" /\ status' = [status EXCEPT ![d] = "closing"]
        /\ UNCHANGED <<opens, io, base, ind>>
    BY <1>4 DEF CloseBegin, chip, history
  <2> QED BY <1>1, <2>1 DEF Sessions, NeverClosed
<1>5. ASSUME NEW t \in Thread, CloseJoin(t) \/ CloseFlush(t)
      PROVE  Sessions' /\ (NeverClosed' => NeverClosed)
  <2>0. PICK d \in Dev : d = closing[t] /\ status[d] = "closing"
    BY <1>1, <1>5 DEF CloseJoin, CloseFlush
  <2>1. /\ UNCHANGED status \/ status' = [status EXCEPT ![d] = "closed"]
        /\ UNCHANGED io \/ io' = [io EXCEPT ![d] = "none"]
        /\ UNCHANGED <<opens, base, ind>>
    BY <1>5, <2>0 DEF CloseJoin, CloseFlush, CloseEnd, chip, history
  <2> QED BY <1>1, <2>0, <2>1 DEF Sessions, NeverClosed
<1>6. ASSUME NEW d \in Dev,
             \/ IoFlush(d) \/ IoPop(d) \/ IoSend(d) \/ IoSendError(d) \/ IoExit(d)
             \/ ChipIndicate(d)
      PROVE  Sessions' /\ (NeverClosed' => NeverClosed)
  <2>1. UNCHANGED <<status, opens>>
    BY <1>6 DEF IoFlush, IoPop, IoSend, IoSendError, Written, IoExit, ChipIndicate, device
  <2>2. CASE ChipIndicate(d)
    BY <1>1, <2>1, <2>2 DEF ChipIndicate, device, history, Sessions, NeverClosed
  <2>3. CASE IoFlush(d)
    <3>1. /\ io[d] = "flush" /\ io' = [io EXCEPT ![d] = "loop"]
          /\ base' = [base EXCEPT ![d] = ind[d]] /\ UNCHANGED ind
      BY <2>3 DEF IoFlush
    <3> QED BY <1>1, <2>1, <3>1 DEF Sessions, NeverClosed
  <2>4. CASE IoPop(d) \/ IoSend(d) \/ IoSendError(d) \/ IoExit(d)
    <3>1. /\ io[d] \in {"loop", "send"} /\ \E pc : io' = [io EXCEPT ![d] = pc]
          /\ UNCHANGED <<base, ind>>
      BY <2>4 DEF IoPop, InLoop, IoSend, IoSendError, Written, IoExit, chip, history
    <3> QED BY <1>1, <2>1, <3>1 DEF Sessions, NeverClosed
  <2> QED BY <1>6, <2>2, <2>3, <2>4
<1> QED
  BY <1>2, <1>3, <1>4, <1>5, <1>6, StepsOfSessions

\* While none is closed, an io thread opens, flushes, and loops.
LEMMA IoMoves ==
    ASSUME TypeOK, Closing, Sessions, NeverClosed, NeverClosed', [Next]_vars, NEW d \in Dev
    PROVE  \/ IoFlush(d)
           \/ \E t \in Thread : Open(t, d) /\ opens[d] = 0
           \/ /\ base'[d] = base[d]
              /\ \/ io'[d] = io[d] \/ io'[d] = "done"
                 \/ io[d] \in {"loop", "send"} /\ io'[d] \in {"loop", "send"}
<1>1. /\ io \in [Dev -> {"none", "flush", "loop", "send", "done"}] /\ base \in [Dev -> Nat]
      /\ opens \in [Dev -> Nat]
      /\ \A t \in Thread : closing[t] \in Dev => status[closing[t]] = "closing"
      /\ \A t \in Thread : at[t] \in {"joinio", "flush"} => closing[t] \in Dev
      /\ \A e \in Dev : status[e] # "closing"
  <2>1. \A e \in Dev : status[e] # "closing"
    BY DEF Sessions, NeverClosed, TypeOK, DeviceOK
  <2> QED
    BY <2>1, ConstantsAssumption DEF TypeOK, DeviceOK, HistoryOK, ControlOK, Closing
<1>2. ASSUME NEW t \in Thread, NEW e \in Dev, Open(t, e) PROVE opens[e] = 0
  <2>1. opens'[e] = opens[e] + 1 /\ opens'[e] \in {0, 1}
    BY <1>1, <1>2 DEF Open, NeverClosed
  <2> QED BY <1>1, <2>1
<1>3. ASSUME NEW t \in Thread, NEW e \in Dev, e # d, Open(t, e)
      PROVE  io'[d] = io[d] /\ base'[d] = base[d]
  BY <1>1, <1>3 DEF Open, history
<1>4. ASSUME NEW t \in Thread PROVE ~CloseJoin(t) /\ ~CloseFlush(t)
  BY <1>1 DEF CloseJoin, CloseFlush
<1>5. ASSUME NEW t \in Thread, NEW e \in Dev, CloseBegin(t, e)
      PROVE  io'[d] = io[d] /\ base'[d] = base[d]
  BY <1>5 DEF CloseBegin, history
<1>6. ASSUME NEW e \in Dev, IoFlush(e), e # d PROVE io'[d] = io[d] /\ base'[d] = base[d]
  BY <1>1, <1>6 DEF IoFlush
<1>7. ASSUME NEW e \in Dev, IoPop(e) \/ IoSend(e) \/ IoSendError(e) \/ IoExit(e)
      PROVE  /\ base'[d] = base[d]
             /\ \/ io'[d] = io[d] \/ io'[d] = "done"
                \/ io[d] \in {"loop", "send"} /\ io'[d] \in {"loop", "send"}
  BY <1>1, <1>7 DEF IoPop, InLoop, IoSend, IoSendError, Written, IoExit, history
<1>8. ASSUME NEW e \in Dev, ChipIndicate(e) PROVE io'[d] = io[d] /\ base'[d] = base[d]
  BY <1>8 DEF ChipIndicate, device, history
<1> QED
  BY <1>2, <1>3, <1>4, <1>5, <1>6, <1>7, <1>8, StepsOfSessions

LEMMA CompleteStep ==
    ASSUME TypeOK, Closing, Sessions, NeverClosed, NeverClosed', [Next]_vars,
           AtMostOneDispatcher, AtMostOneDispatcher', Indications,
           NEW d \in Dev, Complete(d)
    PROVE  Complete(d)'
<1>1. /\ io[d] \in {"none", "flush", "loop", "send", "done"}
      /\ base[d] \in Nat /\ ind[d] \in Nat /\ base[d] <= ind[d]
  BY DEF TypeOK, DeviceOK, HistoryOK, ChipOK, Sessions
<1>2. Moved(d)
  BY IndicationMoves
<1>3. CASE IoFlush(d)
  <2>1. /\ io[d] = "flush" /\ io'[d] = "loop" /\ base'[d] = ind[d] /\ ind'[d] = ind[d]
        /\ fromChip'[d] = <<>> /\ UNCHANGED <<dispatched, hand, at, upstream>>
    BY <1>3 DEF IoFlush, queues, control, TypeOK, DeviceOK, HistoryOK, ChipOK
  <2>2. OnWire(d)' = {} /\ UNCHANGED <<Done(d), Running(d), Waiting(d)>>
    BY <2>1 DEF OnWire, Done, Running, Waiting, Dispatching, Numbers
  <2>3. ind[d] + 1 .. ind[d] = {}
    BY <1>1
  <2> QED BY <2>1, <2>2, <2>3 DEF Complete
<1>4. ASSUME NEW t \in Thread, Open(t, d), opens[d] = 0 PROVE Complete(d)'
  <2>1. /\ io[d] = "none" /\ io'[d] = "flush"
        /\ UNCHANGED <<dispatched, hand, at, upstream>>
    BY <1>4 DEF Open, history, Sessions, TypeOK, DeviceOK
  <2>2. UNCHANGED <<Done(d), Running(d), Waiting(d)>>
    BY <2>1 DEF Done, Running, Waiting, Dispatching
  <2> QED BY <2>1, <2>2 DEF Complete
<1>5. ASSUME ~IoFlush(d), base'[d] = base[d],
             \/ io'[d] = io[d] \/ io'[d] = "done"
             \/ io[d] \in {"loop", "send"} /\ io'[d] \in {"loop", "send"}
      PROVE  Complete(d)'
  <2>1. CASE Still(d)
    BY <1>1, <1>5, <2>1 DEF Still, Complete
  <2>2. CASE Indicated(d)
    <3>1. (base[d] + 1 .. ind[d]) \cup {ind[d] + 1} = base[d] + 1 .. ind[d] + 1
      BY <1>1
    <3> QED BY <1>1, <1>5, <2>2, <3>1 DEF Indicated, Complete
  <2>3. CASE Received(d)
    BY <1>5, <2>3 DEF Received, Complete
  <2>4. CASE HandedOn(d)
    BY <1>1, <1>5, <2>4 DEF HandedOn, Complete
  <2>5. CASE Returned(d)
    BY <1>1, <1>5, <2>5 DEF Returned, Complete
  <2>6. CASE Dropped(d)
    <3>1. PICK t \in Thread : CloseFlush(t)
      BY <2>6 DEF Dropped
    <3>2. closing[t] \in Dev /\ status[closing[t]] = "closing"
      BY <3>1, ConstantsAssumption DEF CloseFlush, TypeOK, ControlOK, Closing
    <3> QED BY <3>2 DEF Sessions, NeverClosed, TypeOK, DeviceOK
  <2> QED BY <1>2, <1>5, <2>1, <2>2, <2>3, <2>4, <2>5, <2>6 DEF Moved, Flushed
<1> QED BY <1>3, <1>4, <1>5, IoMoves

\* Together with the invariant of the order.
LossInv ==
    /\ Closing /\ Sessions
    /\ NeverClosed => \A d \in Dev : Complete(d)

LEMMA LossInvariant ==
    ASSUME SingleController
    PROVE  Spec => []LossInv
<1>1. Init => LossInv
  <2> SUFFICES ASSUME Init PROVE LossInv
    OBVIOUS
  <2>1. Closing /\ Sessions
    BY DEF Init, Closing, Sessions
  <2>2. ASSUME NEW d \in Dev PROVE Complete(d)
    <3>1. dispatched[d] = <<>> /\ upstream = <<>> /\ Dispatching = {} /\ io[d] = "none"
      BY DEF Init, Dispatching
    <3> QED BY <3>1 DEF Complete, Done, Running, Waiting, Numbers
  <2> QED BY <2>1, <2>2 DEF LossInv
<1>2. ASSUME TypeOK, CallInv, AtMostOneDispatcher, AtMostOneDispatcher', Indications, LossInv,
             [Next]_vars
      PROVE  LossInv'
  <2>1. Closing' /\ Sessions' /\ (NeverClosed' => NeverClosed)
    BY <1>2, ExclusiveStep, SessionsStep DEF CallInv, LossInv
  <2>2. ASSUME NeverClosed', NEW d \in Dev PROVE Complete(d)'
    <3>1. NeverClosed /\ Complete(d)
      BY <1>2, <2>1, <2>2 DEF LossInv
    <3> QED BY <1>2, <2>2, <3>1, CompleteStep DEF LossInv
  <2> QED BY <2>1, <2>2 DEF LossInv
<1>3. TypeOK /\ CallInv /\ AtMostOneDispatcher /\ AtMostOneDispatcher' /\ Indications
          /\ LossInv /\ [Next]_vars => LossInv'
  BY <1>2
<1> QED
  BY <1>1, <1>3, CallInvariant, IndicationsInvariant, PTL DEF Spec

\* For an application with one controlling thread that has closed nothing yet,
\* every indication sent since the io thread's flush is on its way exactly once,
\* whatever the application starts, stops and polls meanwhile: with the worker,
\* the poll and the wake items of stop all popping and queueing upstream.
THEOREM IndicationsAreKept ==
    ASSUME SingleController
    PROVE  Spec => []NoIndicationLost
<1>1. TypeOK /\ AtMostOneDispatcher /\ Indications /\ LossInv => NoIndicationLost
  <2> SUFFICES ASSUME TypeOK, AtMostOneDispatcher, Indications, LossInv, NeverClosed,
                      NEW d \in Dev, io[d] = "loop"
               PROVE  /\ Ascending(IndicationPipe(d), d)
                      /\ Numbers(IndicationPipe(d), d) = base[d] + 1 .. ind[d]
    BY DEF NoIndicationLost
  <2>1. Done(d) \cup Running(d) \cup Waiting(d) \cup OnWire(d) = base[d] + 1 .. ind[d]
    BY DEF LossInv, Complete
  <2> QED BY <2>1, PipeOfPlaces
<1> QED
  BY <1>1, IndicationsInvariant, LossInvariant, PTL
=============================================================================
