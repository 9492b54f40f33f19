-------------------------- MODULE GenericExchange --------------------------
(***************************************************************************)
(* The host side message exchange of ca821x-posix, shared by the USB, UART *)
(* and kernel transports: ca821x-generic-exchange.c and ca821x-queue.c.    *)
(*                                                                         *)
(* Every open device has an io thread that moves messages between the      *)
(* transport and three kinds of queue: the device's out queue (commands),  *)
(* the device's in queue (answers to synchronous commands) and one         *)
(* upstream queue, shared by all devices, of the messages to be handed to  *)
(* the application's callbacks by a dispatch worker or by polling.         *)
(*                                                                         *)
(* A queue operation holds q_mutex from end to end, so it is one step; a   *)
(* condition-variable wait is a step guarded by the awaited condition,     *)
(* since every change of a queue broadcasts.  Two consecutive steps of a   *)
(* thread are one action only where the first commutes with every step of  *)
(* the others (taking a lock before an operation, reading the run flag of  *)
(* the io thread at the top of its loop).                                  *)
(***************************************************************************)
EXTENDS Integers, Sequences, FiniteSets

CONSTANTS
    Dev,          \* devices (struct ca821x_dev)
    Thread,       \* application threads
    Worker,       \* identities for the dispatch workers that get created
    Caller,       \* the threads, or workers in callbacks, that issue commands
    Controller,   \* the threads that open, close, start, stop and poll
    ControlOps,   \* which of those operations the controllers use
    Acked,        \* devices whose transport has a write_isready_func (UART)
    Unreliable,   \* devices that may lose a command, fail a write, answer late
    CreateMayFail,\* may pthread_create fail?
    None,         \* no device, no thread: NULL
    MaxCalls,     \* bound: commands issued by each caller
    MaxInd,       \* bound: indications sent by each device
    MaxOpens,     \* bound: times each device is opened
    MaxControls,  \* bound: control operations begun by each controller
    MaxErrors     \* bound: transport errors of each device

Actor == Thread \cup Worker

ASSUME ConstantsAssumption ==
    /\ Thread \cap Worker = {}
    /\ None \notin Dev \cup Actor
    /\ Controller \subseteq Thread /\ Caller \subseteq Actor
    /\ Acked \subseteq Dev /\ Unreliable \subseteq Dev
    /\ ControlOps \subseteq {"open", "close", "start", "stop", "poll"}
    /\ CreateMayFail \in BOOLEAN
    /\ {MaxCalls, MaxInd, MaxOpens, MaxControls, MaxErrors} \subseteq Nat
    /\ IsFiniteSet(Dev)

VARIABLES
    \* ---- statics of ca821x-generic-exchange.c
    generic_initialised,    \* number of initialised devices
    ud_run_flag,            \* is the dispatch worker supposed to be running?
    ud_thread,              \* the last dispatch worker created
    upstream,               \* upstream_dispatch_queue
    \* ---- struct ca821x_exchange_base, per device
    out_queue, in_queue, sync_mutex, io_thread_runflag,
    io, writing,            \* the io thread: where it is, the command it writes
    status, opens,          \* is the device open, and how often it has been
    \* ---- the threads
    at, hand, closing,      \* where a thread is, the message it dispatches,
                            \* the device it deinitialises
    call, last,             \* its ca821x_exchange_commands call and the last result
    issued, controls,       \* commands issued, control operations begun
    \* ---- the transport and the chip behind it
    toChip, fromChip, stalled, ind, errors,
    \* ---- history
    executed,               \* commands the chip has executed, per device
    dispatched,             \* indications whose callback has returned, per device
    base,                   \* indications sent before the io thread's flush
    timedOut                \* has a synchronous call on the device timed out?

statics == <<generic_initialised, ud_run_flag, ud_thread>>
queues  == <<upstream, out_queue, in_queue>>
device  == <<sync_mutex, io_thread_runflag, io, writing, status, opens>>
control == <<at, hand, closing, controls>>
caller  == <<call, last, issued>>
chip    == <<toChip, fromChip, stalled, ind, errors>>
history == <<executed, dispatched, base, timedOut>>
vars    == <<statics, queues, device, control, caller, chip, history>>

----------------------------------------------------------------------------
(* Messages.  A buffer is abstracted to its kind (the SPI_SYN bit and the  *)
(* direction), the device, the issuing thread and a serial number.         *)

Msg(kind, d, a, n) == [kind |-> kind, dev |-> d, by |-> a, n |-> n]

\* the empty item that stop_upstream_dispatch_worker queues to wake the worker
Wake  == Msg("wake", None, None, 0)
NoMsg == Msg("none", None, None, 0)

Command    == [kind : {"sync", "async"}, dev : Dev, by : Actor, n : Nat]
Answer     == [kind : {"confirm"}, dev : Dev, by : Actor, n : Nat]
Indication == [kind : {"ind"}, dev : Dev, by : {None}, n : Nat]

Confirm(c) == Msg("confirm", c.dev, c.by, c.n)

\* the SPI_SYN bit
IsSync(m) == m.kind \in {"sync", "confirm"}

NoCall   == [pc |-> "idle", cmd |-> NoMsg, ok |-> FALSE]
NoResult == [cmd |-> NoMsg, status |-> "none", resp |-> NoMsg]

----------------------------------------------------------------------------
(* The queues.                                                             *)

\* mutant: new items go to the head
AddToFront(queue, d, m) == queue' = [queue EXCEPT ![d] = <<m>> \o @]
AddTo(queue, d, m)      == queue' = [queue EXCEPT ![d] = Append(@, m)]

PopFrom(queue, d) == queue' = [queue EXCEPT ![d] = Tail(@)]

\* mutants: at the head; a queue of one item
AddUpstreamFront(m) == upstream' = <<m>> \o upstream
AddUpstreamSlot(m)  == upstream' = <<m>>
AddUpstream(m)      == upstream' = Append(upstream, m)

----------------------------------------------------------------------------
(* ca821x_exchange_commands and exchange_user_command.                     *)

\* Commands are issued from application code: a thread that is not inside a
\* library call, or the callback a dispatcher is running.
MayIssue(a, d) ==
    /\ a \in Caller /\ at[a] \in {"idle", "callback"} /\ call[a].pc = "idle"
    /\ status[d] = "open"
    /\ issued[a] < MaxCalls

NewCommand(kind, a, d)    == Msg(kind, d, a, issued[a] + 1)

SendAsync(a, d) ==
    /\ MayIssue(a, d)
    /\ AddTo(out_queue, d, NewCommand("async", a, d))
    /\ issued' = [issued EXCEPT ![a] = @ + 1]
    /\ UNCHANGED <<statics, upstream, in_queue, device, control, call, last,
                   chip, history>>

\* a command without SPI_SYN, or without a response buffer
ExchangeAsync(a, d) == generic_initialised > 0 /\ SendAsync(a, d)

\* asynchronous commands only, and no initialisation check
UserCommand(a, d) == SendAsync(a, d)

SyncBegin(a, d) ==
    /\ MayIssue(a, d)
    /\ generic_initialised > 0
    /\ call' = [call EXCEPT ![a] =
                   [pc |-> "lock", cmd |-> NewCommand("sync", a, d), ok |-> FALSE]]
    /\ issued' = [issued EXCEPT ![a] = @ + 1]
    /\ UNCHANGED <<statics, queues, device, control, last, chip, history>>

CallAt(a, pc, ok) ==
    call' = [call EXCEPT ![a] = [pc |-> pc, cmd |-> call[a].cmd, ok |-> ok]]

\* mutant: no exclusion
LockSyncShared(d, a) == sync_mutex' = [sync_mutex EXCEPT ![d] = a]
LockSync(d, a) == sync_mutex[d] = None /\ sync_mutex' = [sync_mutex EXCEPT ![d] = a]
UnlockSync(d) == sync_mutex' = [sync_mutex EXCEPT ![d] = None]

\* lock sync_mutex, add the command to the out queue, signal the io thread
SyncSend(a) ==
    LET d == call[a].cmd.dev IN
    /\ call[a].pc = "lock"
    /\ LockSync(d, a)
    /\ AddTo(out_queue, d, call[a].cmd)
    /\ CallAt(a, "drain", FALSE)
    /\ UNCHANGED <<statics, upstream, in_queue, io_thread_runflag, io, writing,
                   status, opens, control, last, issued, chip, history>>

\* wait_on_queue_empty(out_buffer_queue, 0)
SyncDrained(a) ==
    /\ call[a].pc = "drain"
    /\ out_queue[call[a].cmd.dev] = <<>>
    /\ CallAt(a, "await", FALSE)
    /\ UNCHANGED <<statics, queues, device, control, last, issued, chip, history>>

\* wait_on_queue(in_buffer_queue, SYNC_TIMEOUT_S) finds an answer ...
SyncAnswered(a) ==
    /\ call[a].pc = "await"
    /\ in_queue[call[a].cmd.dev] # <<>>
    /\ CallAt(a, "pop", TRUE)
    /\ UNCHANGED <<statics, queues, device, control, last, issued, chip, history>>

\* mutant: the wait has no timeout
OverdueNever(d) == d \notin Dev
Overdue(d) == d \in Unreliable /\ in_queue[d] = <<>>

\* ... or gives up
SyncTimeout(a) ==
    LET d == call[a].cmd.dev IN
    /\ call[a].pc = "await"
    /\ Overdue(d)
    /\ CallAt(a, "pop", FALSE)
    /\ timedOut' = [timedOut EXCEPT ![d] = TRUE]
    /\ UNCHANGED <<statics, queues, device, control, last, issued, chip, executed,
                   dispatched, base>>

PopAnswer(d) == in_queue' = [in_queue EXCEPT ![d] = IF @ = <<>> THEN @ ELSE Tail(@)]

\* pop the answer (whatever is queued by now, after a timeout too) and unlock
SyncReturn(a) ==
    LET d == call[a].cmd.dev IN
    /\ call[a].pc = "pop"
    /\ PopAnswer(d)
    /\ UnlockSync(d)
    /\ last' = [last EXCEPT ![a] =
           [cmd    |-> call[a].cmd,
            status |-> IF call[a].ok THEN "SUCCESS" ELSE "TIMEOUT",
            resp   |-> IF in_queue[d] = <<>> THEN NoMsg ELSE Head(in_queue[d])]]
    /\ call' = [call EXCEPT ![a] = NoCall]
    /\ UNCHANGED <<statics, upstream, out_queue, io_thread_runflag, io, writing,
                   status, opens, control, issued, chip, history>>

----------------------------------------------------------------------------
(* ca821x_io_worker.                                                       *)

\* flush_func discards what the transport still holds from earlier sessions
IoFlush(d) ==
    /\ io[d] = "flush"
    /\ fromChip' = [fromChip EXCEPT ![d] = <<>>]
    /\ base' = [base EXCEPT ![d] = ind[d]]
    /\ io' = [io EXCEPT ![d] = "loop"]
    /\ UNCHANGED <<statics, queues, sync_mutex, io_thread_runflag, writing, status,
                   opens, control, caller, toChip, stalled, ind, errors, executed,
                   dispatched, timedOut>>

InLoop(d) == io[d] = "loop" /\ io_thread_runflag[d]

\* ca821x_try_read: answers to the in queue, everything else upstream
IoRead(d) ==
    LET m == Head(fromChip[d]) IN
    /\ InLoop(d)
    /\ fromChip[d] # <<>>
    /\ fromChip' = [fromChip EXCEPT ![d] = Tail(@)]
    /\ IF IsSync(m) THEN AddTo(in_queue, d, m) /\ UNCHANGED upstream
                    ELSE AddUpstream(m) /\ UNCHANGED in_queue
    /\ UNCHANGED <<statics, out_queue, device, control, caller, toChip, stalled,
                   ind, errors, history>>

\* an error is reported to the error callback; the loop goes on
Error(d) ==
    /\ d \in Unreliable /\ errors[d] < MaxErrors
    /\ errors' = [errors EXCEPT ![d] = @ + 1]

IoReadError(d) ==
    /\ InLoop(d)
    /\ Error(d)
    /\ UNCHANGED <<statics, queues, device, control, caller, toChip, fromChip,
                   stalled, ind, history>>

\* ca821x_try_write, entered only when there is nothing to read: pop ...
IoPop(d) ==
    /\ InLoop(d)
    /\ fromChip[d] = <<>>
    /\ ~stalled[d]
    /\ out_queue[d] # <<>>
    /\ writing' = [writing EXCEPT ![d] = Head(out_queue[d])]
    /\ PopFrom(out_queue, d)
    /\ io' = [io EXCEPT ![d] = "send"]
    /\ UNCHANGED <<statics, upstream, in_queue, sync_mutex, io_thread_runflag,
                   status, opens, control, caller, chip, history>>

Written(d) ==
    /\ io[d] = "send"
    /\ writing' = [writing EXCEPT ![d] = NoMsg]
    /\ io' = [io EXCEPT ![d] = "loop"]
    /\ UNCHANGED <<statics, queues, sync_mutex, io_thread_runflag, status, opens,
                   control, caller, fromChip, ind, history>>

\* ... and write_func, which may fail: then the command is dropped
IoSend(d) ==
    /\ Written(d)
    /\ AddTo(toChip, d, writing[d])
    /\ stalled' = [stalled EXCEPT ![d] = d \in Acked]
    /\ UNCHANGED errors

IoSendError(d) == Written(d) /\ Error(d) /\ UNCHANGED <<toChip, stalled>>

IoExit(d) ==
    /\ io[d] = "loop" /\ ~io_thread_runflag[d]
    /\ io' = [io EXCEPT ![d] = "done"]
    /\ UNCHANGED <<statics, queues, sync_mutex, io_thread_runflag, writing, status,
                   opens, control, caller, chip, history>>

----------------------------------------------------------------------------
(* Steps of a thread that change nothing but where it is.                  *)

Goto(t, pc) == at' = [at EXCEPT ![t] = pc]
GotoSetting(t, pc, flag) ==
    /\ Goto(t, pc)
    /\ ud_run_flag' = flag
    /\ UNCHANGED <<generic_initialised, ud_thread, queues, device, hand, closing,
                   caller, chip, history>>
Move(t, pc) == GotoSetting(t, pc, ud_run_flag)

----------------------------------------------------------------------------
(* Dispatch: ca821x_run_upstream_dispatch from the worker or from a poll.  *)

\* the top of the loop of ca821x_upstream_dispatch_worker
WorkerCheck(w) ==
    /\ at[w] = "check"
    /\ Move(w, IF ud_run_flag THEN "wait" ELSE "done")
    /\ UNCHANGED controls

\* Pop the head of the upstream queue: a message goes to the callbacks, the
\* empty item only sends the dispatcher back to where it came from.
Dispatch(a, back) ==
    /\ upstream # <<>>
    /\ upstream' = Tail(upstream)
    /\ IF Head(upstream) = Wake
         THEN Goto(a, back) /\ UNCHANGED hand
         ELSE Goto(a, "callback") /\ hand' = [hand EXCEPT ![a] = Head(upstream)]
    /\ UNCHANGED <<statics, out_queue, in_queue, device, closing, controls, caller,
                   chip, history>>

\* wait_on_queue, then ca821x_run_upstream_dispatch
WorkerDispatch(w) == at[w] = "wait" /\ Dispatch(w, "check")

AfterCallback(a) == IF a \in Worker THEN "check" ELSE "idle"

\* the callback returns
CallbackReturn(a) ==
    /\ at[a] = "callback" /\ call[a].pc = "idle"
    /\ dispatched' = [dispatched EXCEPT ![hand[a].dev] = Append(@, hand[a])]
    /\ hand' = [hand EXCEPT ![a] = NoMsg]
    /\ Goto(a, AfterCallback(a))
    /\ UNCHANGED <<statics, queues, device, closing, controls, caller, chip,
                   executed, base, timedOut>>

----------------------------------------------------------------------------
(* The control operations of the application.                              *)

MayControl(t, op) ==
    /\ t \in Controller /\ op \in ControlOps
    /\ at[t] = "idle" /\ call[t].pc = "idle"
    /\ controls[t] < MaxControls
    /\ controls' = [controls EXCEPT ![t] = @ + 1]

\* mutant: polling beside a running worker
PollAlways == TRUE
PollAllowed == ~ud_run_flag

\* ca821x_util_dispatch_poll: INVALID_STATE while a worker is running
PollBegin(t) == MayControl(t, "poll") /\ PollAllowed /\ Move(t, "poll")

PollNotFound(t) ==
    /\ at[t] = "poll"
    /\ \/ Dispatch(t, "idle") /\ Head(upstream) = Wake
       \/ upstream = <<>> /\ Move(t, "idle") /\ UNCHANGED controls

PollDispatch(t) ==
    at[t] = "poll" /\ Dispatch(t, "idle") /\ Head(upstream) # Wake

\* ca821x_util_start_upstream_dispatch_worker: ALREADY if the flag is set;
\* the check, the assignment and pthread_create are three separate steps
StartBegin(t) == MayControl(t, "start") /\ ~ud_run_flag /\ Move(t, "start")

StartSetFlag(t) ==
    /\ at[t] = "start"
    /\ GotoSetting(t, "create", TRUE)
    /\ UNCHANGED controls

StartCreate(t) ==
    /\ at[t] = "create"
    /\ \E w \in Worker :
         /\ at[w] = "none"
         /\ ud_thread' = w
         /\ at' = [at EXCEPT ![t] = "idle", ![w] = "check"]
    /\ UNCHANGED <<generic_initialised, ud_run_flag, queues, device, hand, closing,
                   controls, caller, chip, history>>

\* pthread_create fails: CA_ERROR_FAIL, the flag stays set
StartFail(t) ==
    at[t] = "create" /\ CreateMayFail /\ Move(t, "idle") /\ UNCHANGED controls

\* ca821x_util_stop_upstream_dispatch_worker, called by the application or at
\* the end of deinit_generic_statics; it returns to its caller
AfterStop(t) == IF closing[t] = None THEN "idle" ELSE "flush"

StopBegin(t) == MayControl(t, "stop") /\ Move(t, "stop")

StopCheck(t) ==
    /\ at[t] = "stop"
    /\ Move(t, IF ud_run_flag THEN "clear" ELSE AfterStop(t))
    /\ UNCHANGED controls

StopClearFlag(t) ==
    /\ at[t] = "clear"
    /\ GotoSetting(t, "wake", FALSE)
    /\ UNCHANGED controls

\* mutant: the worker is not woken
QueueNothing == UNCHANGED upstream
QueueWake == AddUpstream(Wake)

StopWake(t) ==
    /\ at[t] = "wake"
    /\ QueueWake
    /\ Goto(t, "join")
    /\ UNCHANGED <<statics, out_queue, in_queue, device, hand, closing, controls,
                   caller, chip, history>>

\* mutant: stop does not wait for the worker
JoinNot(t) == Goto(t, AfterStop(t))
Join(t) == /\ at[ud_thread] = "done"
           /\ at' = [at EXCEPT ![t] = AfterStop(t), ![ud_thread] = "none"]

\* pthread_join(ud_thread)
StopJoin(t) ==
    /\ at[t] = "join"
    /\ Join(t)
    /\ UNCHANGED <<statics, queues, device, hand, closing, controls, caller, chip,
                   history>>

\* ca821x_util_init with init_generic: a fresh exchange_base, an io thread
Open(t, d) ==
    /\ MayControl(t, "open")
    /\ status[d] = "closed" /\ opens[d] < MaxOpens
    /\ status' = [status EXCEPT ![d] = "open"]
    /\ opens' = [opens EXCEPT ![d] = @ + 1]
    /\ generic_initialised' = generic_initialised + 1
    /\ out_queue' = [out_queue EXCEPT ![d] = <<>>]
    /\ in_queue' = [in_queue EXCEPT ![d] = <<>>]
    /\ io_thread_runflag' = [io_thread_runflag EXCEPT ![d] = TRUE]
    /\ io' = [io EXCEPT ![d] = "flush"]
    /\ stalled' = [stalled EXCEPT ![d] = FALSE]
    /\ UNCHANGED <<ud_run_flag, ud_thread, upstream, sync_mutex, writing, at, hand,
                   closing, caller, toChip, fromChip, ind, errors, history>>

StopIo(d) == io_thread_runflag' = [io_thread_runflag EXCEPT ![d] = FALSE]

\* ca821x_util_deinit with deinit_generic.  The application closes a device no
\* thread is using any more.
CloseBegin(t, d) ==
    /\ MayControl(t, "close")
    /\ status[d] = "open"
    /\ \A a \in Actor : call[a].pc = "idle" \/ call[a].cmd.dev # d
    /\ status' = [status EXCEPT ![d] = "closing"]
    /\ StopIo(d)
    /\ closing' = [closing EXCEPT ![t] = d]
    /\ Goto(t, "joinio")
    /\ UNCHANGED <<statics, queues, sync_mutex, io, writing, opens, hand, caller,
                   chip, history>>

CloseEnd(t) ==
    /\ status' = [status EXCEPT ![closing[t]] = "closed"]
    /\ closing' = [closing EXCEPT ![t] = None]
    /\ Goto(t, "idle")

\* join the io thread, flush the device's queues, deinit_generic_statics: the
\* worker is stopped and the upstream queue flushed unless the count is now 0
CloseJoin(t) ==
    LET d == closing[t] IN
    /\ at[t] = "joinio"
    /\ io[d] = "done"
    /\ io' = [io EXCEPT ![d] = "none"]
    /\ in_queue' = [in_queue EXCEPT ![d] = <<>>]
    /\ out_queue' = [out_queue EXCEPT ![d] = <<>>]
    /\ generic_initialised' = generic_initialised - 1
    /\ \/ generic_initialised' = 0 /\ CloseEnd(t)
       \/ generic_initialised' # 0 /\ Goto(t, "stop") /\ UNCHANGED <<status, closing>>
    /\ UNCHANGED <<ud_run_flag, ud_thread, upstream, sync_mutex, io_thread_runflag,
                   writing, opens, hand, controls, caller, chip, history>>

\* flush_queue(&upstream_dispatch_queue): one pop at a time until it is empty
CloseFlush(t) ==
    /\ at[t] = "flush"
    /\ IF upstream # <<>>
         THEN upstream' = Tail(upstream) /\ UNCHANGED <<at, status, closing>>
         ELSE CloseEnd(t) /\ UNCHANGED upstream
    /\ UNCHANGED <<statics, out_queue, in_queue, sync_mutex, io_thread_runflag, io,
                   writing, opens, hand, controls, caller, chip, history>>

----------------------------------------------------------------------------
(* The chip and the link to it, as the code above uses them.               *)

\* commands are executed in order; a synchronous one is answered at once
ChipExecute(d) ==
    LET c == Head(toChip[d]) IN
    /\ toChip[d] # <<>>
    /\ PopFrom(toChip, d)
    /\ executed' = [executed EXCEPT ![d] = Append(@, c)]
    /\ fromChip' = IF IsSync(c) THEN [fromChip EXCEPT ![d] = Append(@, Confirm(c))]
                                ELSE fromChip
    /\ UNCHANGED <<statics, queues, device, control, caller, stalled, ind, errors,
                   dispatched, base, timedOut>>

ChipLose(d) ==
    /\ toChip[d] # <<>>
    /\ PopFrom(toChip, d)
    /\ Error(d)
    /\ UNCHANGED <<statics, queues, device, control, caller, fromChip, stalled, ind,
                   history>>

ChipIndicate(d) ==
    /\ ind[d] < MaxInd
    /\ ind' = [ind EXCEPT ![d] = @ + 1]
    /\ AddTo(fromChip, d, Msg("ind", d, None, ind[d] + 1))
    /\ UNCHANGED <<statics, queues, device, control, caller, toChip, stalled, errors,
                   history>>

\* the UART acknowledgement, or its timeout: write_isready_func is ready again
LinkReady(d) ==
    /\ stalled[d]
    /\ stalled' = [stalled EXCEPT ![d] = FALSE]
    /\ UNCHANGED <<statics, queues, device, control, caller, toChip, fromChip, ind,
                   errors, history>>

----------------------------------------------------------------------------
Init ==
    /\ generic_initialised = 0
    /\ ud_run_flag = FALSE
    /\ ud_thread = None
    /\ upstream = <<>>
    /\ out_queue = [d \in Dev |-> <<>>]
    /\ in_queue = [d \in Dev |-> <<>>]
    /\ sync_mutex = [d \in Dev |-> None]
    /\ io_thread_runflag = [d \in Dev |-> FALSE]
    /\ io = [d \in Dev |-> "none"]
    /\ writing = [d \in Dev |-> NoMsg]
    /\ status = [d \in Dev |-> "closed"]
    /\ opens = [d \in Dev |-> 0]
    /\ at = [a \in Actor |-> IF a \in Thread THEN "idle" ELSE "none"]
    /\ hand = [a \in Actor |-> NoMsg]
    /\ closing = [t \in Thread |-> None]
    /\ call = [a \in Actor |-> NoCall]
    /\ last = [a \in Actor |-> NoResult]
    /\ issued = [a \in Actor |-> 0]
    /\ controls = [t \in Thread |-> 0]
    /\ toChip = [d \in Dev |-> <<>>]
    /\ fromChip = [d \in Dev |-> <<>>]
    /\ stalled = [d \in Dev |-> FALSE]
    /\ ind = [d \in Dev |-> 0]
    /\ errors = [d \in Dev |-> 0]
    /\ executed = [d \in Dev |-> <<>>]
    /\ dispatched = [d \in Dev |-> <<>>]
    /\ base = [d \in Dev |-> 0]
    /\ timedOut = [d \in Dev |-> FALSE]

\* what a thread chooses to begin
Begin(a) == \E d \in Dev : ExchangeAsync(a, d) \/ UserCommand(a, d) \/ SyncBegin(a, d)

BeginControl(t) ==
    \/ PollBegin(t) \/ StartBegin(t) \/ StopBegin(t)
    \/ \E d \in Dev : Open(t, d) \/ CloseBegin(t, d)

\* what a thread must get on with once begun
CallStep(a) ==
    \/ SyncSend(a) \/ SyncDrained(a) \/ SyncAnswered(a) \/ SyncTimeout(a)
    \/ SyncReturn(a) \/ CallbackReturn(a)

ControlStep(t) ==
    \/ PollNotFound(t) \/ PollDispatch(t)
    \/ StartSetFlag(t) \/ StartCreate(t) \/ StartFail(t)
    \/ StopCheck(t) \/ StopClearFlag(t) \/ StopWake(t) \/ StopJoin(t)
    \/ CloseJoin(t) \/ CloseFlush(t)

WorkerStep(w) == WorkerCheck(w) \/ WorkerDispatch(w)

IoStep(d) ==
    \/ IoFlush(d) \/ IoRead(d) \/ IoReadError(d) \/ IoPop(d)
    \/ IoSend(d) \/ IoSendError(d) \/ IoExit(d)

ChipStep(d) == ChipExecute(d) \/ ChipLose(d)

\* Everything has been done: the threads are idle, the worker waits, the io
\* threads spin on an idle link.  Any other state without a step is a deadlock.
Quiescent ==
    /\ \A a \in Actor : at[a] \in {"idle", "none", "wait"} /\ call[a].pc = "idle"
    /\ \A d \in Dev : /\ io[d] \in {"none", "loop"}
                      /\ out_queue[d] = <<>> /\ toChip[d] = <<>>
    /\ UNCHANGED vars

Next ==
    \/ \E a \in Actor : Begin(a) \/ CallStep(a)
    \/ \E t \in Thread : BeginControl(t) \/ ControlStep(t)
    \/ \E w \in Worker : WorkerStep(w)
    \/ \E d \in Dev : IoStep(d) \/ ChipStep(d) \/ ChipIndicate(d) \/ LinkReady(d)
    \/ Quiescent

Spec == Init /\ [][Next]_vars

\* The operating system runs every runnable thread, callbacks return, the link
\* becomes ready again and a chip gets round to the commands it was sent.
Fairness ==
    /\ \A a \in Actor : WF_vars(CallStep(a))
    /\ \A t \in Thread : WF_vars(ControlStep(t))
    /\ \A w \in Worker : WF_vars(WorkerStep(w))
    /\ \A d \in Dev : WF_vars(IoStep(d)) /\ WF_vars(ChipStep(d)) /\ WF_vars(LinkReady(d))

FairSpec == Spec /\ Fairness
----------------------------------------------------------------------------
(* Properties.                                                             *)

CallPcs == {"idle", "lock", "drain", "await", "pop"}
AtPcs   == {"none", "idle", "check", "wait", "done", "callback", "poll", "start",
            "create", "stop", "clear", "wake", "join", "joinio", "flush"}

StaticsOK ==
    /\ generic_initialised \in Int
    /\ ud_run_flag \in BOOLEAN
    /\ ud_thread \in Worker \cup {None}
QueuesOK ==
    /\ upstream \in Seq(Indication \cup {Wake})
    /\ out_queue \in [Dev -> Seq(Command)]
    /\ in_queue \in [Dev -> Seq(Answer)]
DeviceOK ==
    /\ sync_mutex \in [Dev -> Actor \cup {None}]
    /\ io_thread_runflag \in [Dev -> BOOLEAN]
    /\ io \in [Dev -> {"none", "flush", "loop", "send", "done"}]
    /\ writing \in [Dev -> Command \cup {NoMsg}]
    /\ \A d \in Dev : io[d] = "send" => writing[d] \in Command
    /\ status \in [Dev -> {"closed", "open", "closing"}]
    /\ opens \in [Dev -> Nat]
ControlOK ==
    /\ at \in [Actor -> AtPcs]
    /\ hand \in [Actor -> Indication \cup {NoMsg}]
    /\ \A a \in Actor : at[a] = "callback" => hand[a] \in Indication
    /\ closing \in [Thread -> Dev \cup {None}]
    /\ \A t \in Thread : at[t] \in {"joinio", "flush"} => closing[t] \in Dev
    /\ controls \in [Thread -> Nat]
CallerOK ==
    /\ call \in [Actor -> [pc : CallPcs, cmd : Command \cup {NoMsg}, ok : BOOLEAN]]
    /\ \A a \in Actor : call[a].pc # "idle" => call[a].cmd \in Command
    /\ last \in [Actor -> [cmd : Command \cup {NoMsg}, resp : Answer \cup {NoMsg},
                           status : {"none", "SUCCESS", "TIMEOUT"}]]
    /\ issued \in [Actor -> Nat]
ChipOK ==
    /\ toChip \in [Dev -> Seq(Command)]
    /\ fromChip \in [Dev -> Seq(Answer \cup Indication)]
    /\ stalled \in [Dev -> BOOLEAN]
    /\ ind \in [Dev -> Nat] /\ errors \in [Dev -> Nat]
HistoryOK ==
    /\ executed \in [Dev -> Seq(Command)]
    /\ dispatched \in [Dev -> Seq(Indication)]
    /\ base \in [Dev -> Nat]
    /\ timedOut \in [Dev -> BOOLEAN]

\* Type invariant of the exchange state.
TypeOK ==
    /\ StaticsOK /\ QueuesOK /\ DeviceOK /\ ControlOK /\ CallerOK
    /\ ChipOK /\ HistoryOK

\* A synchronous call that succeeds returns the answer to its own command, as
\* long as no call on that device has ever timed out: sync_mutex keeps a second
\* command off the link until the answer to the first has been popped.
AnswerMatchesCommand ==
    \A a \in Actor :
        last[a].status = "SUCCESS" /\ ~timedOut[last[a].cmd.dev]
            => last[a].resp = Confirm(last[a].cmd)

\* A synchronous call is a barrier: when its own answer is back, no command the
\* thread gave that device earlier is still on its way to the chip.
SyncIsBarrier ==
    \A a \in Actor :
        LET c == last[a].cmd
            Late(m) == m.by = a /\ m.n < c.n
        IN  c # NoMsg /\ last[a].resp = Confirm(c) =>
                /\ \A i \in DOMAIN out_queue[c.dev] : ~Late(out_queue[c.dev][i])
                /\ \A i \in DOMAIN toChip[c.dev] : ~Late(toChip[c.dev][i])
                /\ ~Late(writing[c.dev])

\* The commands of the chip's history and those still on their way to it.
One(m) == IF m = NoMsg THEN <<>> ELSE <<m>>
CommandPipe(d) == executed[d] \o toChip[d] \o One(writing[d]) \o out_queue[d]

\* The chip executes what one thread gives one device in the order it was
\* given, synchronous or not, through errors and reopening.
CommandsInOrder ==
    \A d \in Dev : LET p == CommandPipe(d) IN
        \A i, j \in DOMAIN p : i < j /\ p[i].by = p[j].by => p[i].n < p[j].n

\* What a device has sent, from the callback back to the wire: its indications,
\* among answers and the indications of other devices.
Dispatching == {a \in Actor : at[a] = "callback"}
InHand(d) ==
    LET A == {a \in Dispatching : hand[a].dev = d}
    IN  IF A = {} THEN <<>> ELSE <<hand[CHOOSE a \in A : TRUE]>>
IndicationPipe(d) == dispatched[d] \o InHand(d) \o upstream \o fromChip[d]

IsInd(m, d) == m.kind = "ind" /\ m.dev = d
Numbers(p, d) == {p[i].n : i \in {k \in DOMAIN p : IsInd(p[k], d)}}
Ascending(p, d) ==
    \A i, j \in DOMAIN p : i < j /\ IsInd(p[i], d) /\ IsInd(p[j], d) => p[i].n < p[j].n

\* A device's indications reach the callbacks in the order they were sent and
\* at most once, although poll and several sessions of the worker share a queue.
IndicationsInOrder == \A d \in Dev : Ascending(IndicationPipe(d), d)

NeverClosed == \A d \in Dev : opens[d] = IF status[d] = "open" THEN 1 ELSE 0

\* While no device has been closed, every indication sent after the io thread's
\* flush is on its way once, whatever is started, stopped and polled meanwhile.
NoIndicationLost ==
    NeverClosed =>
        \A d \in Dev : io[d] = "loop" =>
            /\ Ascending(IndicationPipe(d), d)
            /\ Numbers(IndicationPipe(d), d) = base[d] + 1 .. ind[d]

\* With one controlling thread the callbacks are never run by two threads at a
\* time, so a single-threaded application needs no locking among callbacks.
AtMostOneDispatcher == \A a, b \in Dispatching : a = b

\* "callbacks will no longer be triggered from a separate thread": once stop
\* has returned no worker is left, not even one finishing a last callback.
StoppedMeansSilent ==
    ~ud_run_flag /\ (\A t \in Thread : at[t] \in {"idle", "poll", "callback", "start"})
        => \A w \in Worker : at[w] = "none"

\* A synchronous call always returns: to an application thread and to a
\* callback, while other threads queue commands, with or without an answer.
SyncCallReturns == \A a \in Actor : call[a].pc # "idle" ~> call[a].pc = "idle"

\* Every control operation returns: stop joins a worker that may be waiting,
\* checking its flag or running a callback with a synchronous call of its own.
ControlReturns == \A t \in Thread : at[t] # "idle" ~> at[t] = "idle"

(* Statements of the documentation that the code does not keep.            *)

\* ca821x-posix.h: "If ca821x_util_start_upstream_dispatch_worker has been
\* called, the callbacks will be called immediately and asynchronously from
\* another thread": only a stop asked for by the application ends that.
WorkerStopsOnlyOnRequest ==
    [][ud_run_flag /\ ~ud_run_flag' =>
          \E t \in Thread : at[t] = "clear" /\ closing[t] = None]_vars
=============================================================================
