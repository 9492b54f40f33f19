------------------------------ MODULE Tasklets ------------------------------
(***************************************************************************)
(* The tasklet scheduler of cascoda-util (cascoda_tasklet.c): a list of    *)
(* callbacks sorted by the time they are due, on a millisecond clock that  *)
(* wraps around.  Times are compared by the half of the clock's range in   *)
(* which their difference lies.                                            *)
(*                                                                         *)
(* Each entry of the list carries, as history, the milliseconds that are   *)
(* really left until it is due, which the program can only infer from the  *)
(* clock.  The linked list is a sequence; an entry's tasklet is queued if  *)
(* its bit "scheduled" is set, which changes together with the list.       *)
(***************************************************************************)
EXTENDS Integers, Sequences, SequencesExt

CONSTANTS
    Tasklet,
    Wrap,      \* the clock's range: 2^32 in the code
    MaxDelay,  \* the longest delay that the application asks for
    MaxStale,  \* age of the aTimeNow that ScheduleAbs is given
    MaxLate,   \* bound: how long a due tasklet waits for TASKLET_Process
    None       \* no callback is running

ASSUME TaskletAssumption ==
    /\ Wrap \in Nat /\ Wrap > 1 /\ Wrap % 2 = 0
    /\ MaxDelay \in Nat /\ MaxDelay < Wrap
    /\ MaxStale \in Nat /\ MaxLate \in Nat /\ MaxStale <= MaxLate
    /\ None \notin Tasklet

VARIABLES
    now,        \* TIME_ReadAbsoluteTime
    queue,      \* the list from sTaskletHead on
    processing, \* is TASKLET_Process running?
    running     \* the tasklet whose callback runs

vars == <<now, queue, processing, running>>

Half == Wrap \div 2

\* mutant: an event in the past is far in the future
GetTimeToEventNoWrap(start, future) == (future - start) % Wrap
GetTimeToEvent(start, future) ==
    LET delta == (future - start) % Wrap IN IF delta >= Half THEN 0 ELSE delta

IsQueued(t) == \E i \in DOMAIN queue : queue[i].task = t

\* Position n is where a tasklet due at "time" goes: before the first that is
\* not due earlier.
IsPlace(n, time) ==
    /\ \A i \in 1..n - 1 : GetTimeToEvent(queue[i].fireTime, time) # 0
    /\ n <= Len(queue) => GetTimeToEvent(queue[n].fireTime, time) = 0

\* The application, or a callback, schedules and cancels.  The delay counts
\* from a clock reading that may be old; what is too far is refused.
ScheduleAbs(t, stale, delay) ==
    LET aTimeNow == (now - stale) % Wrap
        aTimeAbs == (aTimeNow + delay) % Wrap
    IN
    /\ ~processing \/ running # None
    /\ ~IsQueued(t)
    /\ GetTimeToEvent(aTimeNow, aTimeAbs) # 0 \/ aTimeNow = aTimeAbs
    /\ \E n \in 1..Len(queue) + 1 :
           /\ IsPlace(n, aTimeAbs)
           /\ queue' = InsertAt(queue, n,
                         [task |-> t, fireTime |-> aTimeAbs, left |-> delay - stale])
    /\ UNCHANGED <<now, processing, running>>

ScheduleDelta(t, delay) == ScheduleAbs(t, 0, delay)

Cancel(t) ==
    /\ ~processing \/ running # None
    /\ \E i \in DOMAIN queue : queue[i].task = t /\ queue' = RemoveAt(queue, i)
    /\ UNCHANGED <<now, processing, running>>

----------------------------------------------------------------------------
(* TASKLET_Process.                                                        *)

HeadDue == queue # <<>> /\ GetTimeToEvent(now, Head(queue).fireTime) = 0

Process ==
    /\ ~processing
    /\ processing' = TRUE
    /\ UNCHANGED <<now, queue, running>>

\* The head is taken off the list before its callback runs.
\* mutants: whether it is due is not asked; it must be due this very millisecond
ProcessUnasked ==
    /\ processing /\ running = None
    /\ queue # <<>>
    /\ running' = Head(queue).task
    /\ queue' = Tail(queue)
    /\ UNCHANGED <<now, processing>>
ProcessDueNow ==
    /\ processing /\ running = None
    /\ queue # <<>> /\ Head(queue).fireTime = now
    /\ running' = Head(queue).task
    /\ queue' = Tail(queue)
    /\ UNCHANGED <<now, processing>>
ProcessDue ==
    /\ processing /\ running = None
    /\ HeadDue
    /\ running' = Head(queue).task
    /\ queue' = Tail(queue)
    /\ UNCHANGED <<now, processing>>

CallbackReturns ==
    /\ running # None
    /\ running' = None
    /\ UNCHANGED <<now, queue, processing>>

\* mutant: one tasklet per call
ProcessReturnsEarly ==
    /\ processing /\ running = None
    /\ processing' = FALSE
    /\ UNCHANGED <<now, queue, running>>
ProcessReturns ==
    /\ processing /\ running = None
    /\ ~HeadDue
    /\ processing' = FALSE
    /\ UNCHANGED <<now, queue, running>>

----------------------------------------------------------------------------
\* The clock.  The main loop polls often enough that nothing waits for longer
\* than MaxLate.
Tick ==
    /\ \A i \in DOMAIN queue : queue[i].left > -MaxLate
    /\ now' = (now + 1) % Wrap
    /\ queue' = [i \in DOMAIN queue |-> [queue[i] EXCEPT !.left = @ - 1]]
    /\ UNCHANGED <<processing, running>>

Init ==
    /\ now = 0
    /\ queue = <<>>
    /\ processing = FALSE
    /\ running = None

Next ==
    \/ \E t \in Tasklet, delay \in 0..MaxDelay :
           \/ ScheduleDelta(t, delay)
           \/ \E stale \in 1..MaxStale : ScheduleAbs(t, stale, delay)
    \/ \E t \in Tasklet : Cancel(t)
    \/ Process \/ ProcessDue \/ CallbackReturns \/ ProcessReturns
    \/ Tick

Spec == Init /\ [][Next]_vars

\* The clock runs, the main loop keeps calling TASKLET_Process and the
\* callbacks return.
Fairness ==
    /\ WF_vars(Tick)
    /\ WF_vars(Process \/ ProcessDue \/ CallbackReturns \/ ProcessReturns)

FairSpec == Spec /\ Fairness

----------------------------------------------------------------------------
(* Properties.                                                             *)

Entry == [task : Tasklet, fireTime : 0..Wrap - 1, left : Int]

\* Type invariant of the scheduler: a tasklet is in the list at most once.
TypeOK ==
    /\ now \in 0..Wrap - 1
    /\ queue \in Seq(Entry)
    /\ \A i, j \in DOMAIN queue : queue[i].task = queue[j].task => i = j
    /\ processing \in BOOLEAN
    /\ running \in Tasklet \cup {None}
    /\ running # None => processing

\* The list is sorted by the time that is really left, across the clock's
\* wrap-around and with overdue tasklets in it.
Sorted == \A i, j \in DOMAIN queue : i < j => queue[i].left <= queue[j].left

\* TASKLET_GetTimeToNext tells how long the device may sleep: never longer than
\* any tasklet has left, and zero only if one is due.
SleepsRight ==
    queue # <<>> =>
        LET delta == GetTimeToEvent(now, Head(queue).fireTime)
        IN  /\ \A i \in DOMAIN queue : queue[i].left > 0 => delta <= queue[i].left
            /\ delta = 0 <=> \E i \in DOMAIN queue : queue[i].left <= 0

\* A callback never runs before its tasklet is due, nor before one that was due
\* earlier.
NeverEarly ==
    [][ProcessDue => /\ Head(queue).left <= 0
                     /\ \A i \in DOMAIN queue : Head(queue).left <= queue[i].left]_vars

\* cascoda_tasklet.h, Process: "Process the callbacks for any tasklets that are
\* scheduled to happen now or in the past": when it returns, none is left.
NothingDueIsLeft ==
    [][processing /\ ~processing' => \A i \in DOMAIN queue : queue[i].left > 0]_vars

\* A scheduled tasklet runs or is cancelled, whatever else is scheduled: even a
\* callback that asks to be called again at once cannot overtake it for ever.
EventuallyRuns == \A t \in Tasklet : IsQueued(t) ~> ~IsQueued(t)
=============================================================================
