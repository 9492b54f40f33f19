--------------------------- MODULE Tasklets_proof ---------------------------
(***************************************************************************)
(* The tasklet list is right for every range of the clock, every number of *)
(* tasklets and every history, provided that the longest delay and the     *)
(* longest lateness together stay below half the clock's range.            *)
(*                                                                         *)
(* The inductive invariant relates each fire time, on the wrapping clock,  *)
(* to the time that is really left; all comparisons of clock times are     *)
(* then comparisons of numbers.                                            *)
(***************************************************************************)
EXTENDS Tasklets, SequenceTheorems, TLAPS

\* The condition that the code does not enforce.
InRange == MaxDelay + MaxLate < Half

\* What fire times mean.
FireTimes ==
    \A i \in DOMAIN queue :
        /\ queue[i].left >= -MaxLate /\ queue[i].left <= MaxDelay
        /\ queue[i].fireTime = (now + queue[i].left) % Wrap

SchedulerInv == TypeOK /\ FireTimes /\ Sorted

----------------------------------------------------------------------------
(* The wrapping clock.                                                     *)

\* Within a range of zero, the remainder is a shift by at most one range.
LEMMA ModWrap ==
    ASSUME NEW z \in Int, 0 - Wrap <= z, z < 2 * Wrap
    PROVE  z % Wrap = IF z < 0 THEN z + Wrap ELSE IF z < Wrap THEN z ELSE z - Wrap
<1> USE TaskletAssumption
<1>1. CASE z < 0
  BY <1>1
<1>2. CASE z >= 0 /\ z < Wrap
  BY <1>2
<1>3. CASE z >= Wrap
  BY <1>3
<1> QED
  BY <1>1, <1>2, <1>3

LEMMA HalfWrap == Half \in Nat /\ Half > 0 /\ 2 * Half = Wrap
BY TaskletAssumption DEF Half

\* Two times near now are compared by the time left until them.
LEMMA TimeToEvent ==
    ASSUME InRange, NEW n \in 0..Wrap - 1, NEW x \in Int, NEW y \in Int,
           x >= -MaxLate, x <= MaxDelay, y >= -MaxLate, y <= MaxDelay
    PROVE  GetTimeToEvent((n + x) % Wrap, (n + y) % Wrap) = IF y > x THEN y - x ELSE 0
<1> DEFINE a == (n + x) % Wrap
           b == (n + y) % Wrap
<1> USE TaskletAssumption, HalfWrap DEF InRange
<1>1. a = IF n + x < 0 THEN n + x + Wrap ELSE IF n + x < Wrap THEN n + x ELSE n + x - Wrap
  BY ModWrap
<1>2. b = IF n + y < 0 THEN n + y + Wrap ELSE IF n + y < Wrap THEN n + y ELSE n + y - Wrap
  BY ModWrap
<1>3. a \in 0..Wrap - 1 /\ b \in 0..Wrap - 1
  BY <1>1, <1>2
<1>4. (b - a) % Wrap = IF b - a < 0 THEN b - a + Wrap ELSE b - a
  BY <1>3, ModWrap
<1>5. (b - a) % Wrap = IF y - x < 0 THEN y - x + Wrap ELSE y - x
  BY <1>1, <1>2, <1>3, <1>4
<1> QED
  BY <1>5 DEF GetTimeToEvent

LEMMA TimeFromNow ==
    ASSUME InRange, NEW n \in 0..Wrap - 1, NEW y \in Int, y >= -MaxLate, y <= MaxDelay
    PROVE  GetTimeToEvent(n, (n + y) % Wrap) = IF y > 0 THEN y ELSE 0
<1>1. (n + 0) % Wrap = n
  BY ModWrap, TaskletAssumption
<1>2. 0 \in Int /\ 0 >= -MaxLate /\ 0 <= MaxDelay
  BY TaskletAssumption
<1>3. GetTimeToEvent((n + 0) % Wrap, (n + y) % Wrap) = IF y > 0 THEN y - 0 ELSE 0
  BY <1>2, TimeToEvent
<1> QED
  BY <1>1, <1>3

\* A delay that counts from an older reading of the clock.
LEMMA StaleTime ==
    ASSUME InRange, NEW n \in 0..Wrap - 1, NEW s \in 0..MaxStale, NEW d \in 0..MaxDelay
    PROVE  /\ (((n - s) % Wrap) + d) % Wrap = (n + (d - s)) % Wrap
           /\ (((n - s) % Wrap) + d) % Wrap \in 0..Wrap - 1
           /\ d - s >= -MaxLate /\ d - s <= MaxDelay
<1> DEFINE past == (n - s) % Wrap
<1> USE TaskletAssumption, HalfWrap DEF InRange
<1>1. past = IF n - s < 0 THEN n - s + Wrap ELSE n - s
  BY ModWrap
<1>2. past \in 0..Wrap - 1
  BY <1>1
<1>3. (past + d) % Wrap = IF past + d < Wrap THEN past + d ELSE past + d - Wrap
  <2> HIDE DEF past
  <2> QED BY <1>2, ModWrap
<1>4. (n + (d - s)) % Wrap = IF n + (d - s) < 0 THEN n + (d - s) + Wrap
          ELSE IF n + (d - s) < Wrap THEN n + (d - s) ELSE n + (d - s) - Wrap
  BY ModWrap
<1> HIDE DEF past
<1>5. (past + d) % Wrap = (n + (d - s)) % Wrap /\ (past + d) % Wrap \in 0..Wrap - 1
  BY <1>1, <1>2, <1>3, <1>4
<1> QED
  BY <1>5 DEF past

\* A millisecond later there is one less to wait.
LEMMA NextTime ==
    ASSUME InRange, NEW n \in 0..Wrap - 1, NEW x \in Int, x >= -MaxLate, x <= MaxDelay
    PROVE  (((n + 1) % Wrap) + (x - 1)) % Wrap = (n + x) % Wrap
<1> DEFINE m == (n + 1) % Wrap
<1> USE TaskletAssumption, HalfWrap DEF InRange
<1>1. m = IF n + 1 < Wrap THEN n + 1 ELSE n + 1 - Wrap
  BY ModWrap
<1>2. m \in 0..Wrap - 1
  BY <1>1
<1>3. (n + x) % Wrap = IF n + x < 0 THEN n + x + Wrap
          ELSE IF n + x < Wrap THEN n + x ELSE n + x - Wrap
  BY ModWrap
<1> HIDE DEF m
<1>4. (m + (x - 1)) % Wrap = IF m + (x - 1) < 0 THEN m + (x - 1) + Wrap
          ELSE IF m + (x - 1) < Wrap THEN m + (x - 1) ELSE m + (x - 1) - Wrap
  BY <1>2, ModWrap
<1>5. (m + (x - 1)) % Wrap = (n + x) % Wrap
  BY <1>1, <1>3, <1>4
<1> QED
  BY <1>5 DEF m

----------------------------------------------------------------------------
(* Sequences.                                                              *)

LEMMA InsertAtIndices ==
    ASSUME NEW S, NEW s \in Seq(S), NEW e \in S, NEW n \in 1..Len(s) + 1
    PROVE  /\ InsertAt(s, n, e) \in Seq(S)
           /\ Len(InsertAt(s, n, e)) = Len(s) + 1
           /\ \A i \in 1..Len(s) + 1 :
                 InsertAt(s, n, e)[i] = IF i < n THEN s[i] ELSE IF i = n THEN e ELSE s[i - 1]
<1> DEFINE front == SubSeq(s, 1, n - 1)
           back  == SubSeq(s, n, Len(s))
<1>1. front \in Seq(S) /\ Len(front) = n - 1 /\ \A i \in 1..n - 1 : front[i] = s[i]
  OBVIOUS
<1>2. /\ back \in Seq(S) /\ Len(back) = Len(s) - n + 1
      /\ \A i \in 1..Len(s) - n + 1 : back[i] = s[n + i - 1]
  OBVIOUS
<1> DEFINE one == <<e>>
           mid == front \o one
<1>3. one \in Seq(S) /\ Len(one) = 1 /\ one[1] = e
  OBVIOUS
<1> HIDE DEF front, back, one
<1>4. /\ mid \in Seq(S) /\ Len(mid) = Len(front) + Len(one)
      /\ \A i \in 1..Len(front) + Len(one) :
            mid[i] = IF i <= Len(front) THEN front[i] ELSE one[i - Len(front)]
  BY <1>1, <1>3, ConcatProperties
<1> HIDE DEF mid
<1>5. /\ mid \o back \in Seq(S) /\ Len(mid \o back) = Len(mid) + Len(back)
      /\ \A i \in 1..Len(mid) + Len(back) :
            (mid \o back)[i] = IF i <= Len(mid) THEN mid[i] ELSE back[i - Len(mid)]
  <2>1. mid \in Seq(S) /\ back \in Seq(S)
    BY <1>2, <1>4
  <2> QED
    BY <2>1, ConcatProperties
<1>6. InsertAt(s, n, e) = mid \o back
  BY DEF InsertAt, mid, front, back, one
<1>7. Len(mid) = n /\ Len(mid) + Len(back) = Len(s) + 1 /\ Len(s) \in Nat /\ n \in Int
  BY <1>1, <1>2, <1>3, <1>4
<1>8. ASSUME NEW i \in 1..Len(s) + 1
      PROVE  (mid \o back)[i] = IF i < n THEN s[i] ELSE IF i = n THEN e ELSE s[i - 1]
  <2>1. CASE i < n
    BY <2>1, <1>1, <1>3, <1>4, <1>5, <1>7
  <2>2. CASE i = n
    BY <2>2, <1>1, <1>3, <1>4, <1>5, <1>7
  <2>3. CASE i > n
    BY <2>3, <1>2, <1>5, <1>7
  <2> QED
    BY <1>7, <2>1, <2>2, <2>3
<1> QED
  BY <1>5, <1>6, <1>7, <1>8

LEMMA RemoveAtIndices ==
    ASSUME NEW S, NEW s \in Seq(S), NEW n \in 1..Len(s)
    PROVE  /\ RemoveAt(s, n) \in Seq(S)
           /\ Len(RemoveAt(s, n)) = Len(s) - 1
           /\ \A i \in 1..Len(s) - 1 : RemoveAt(s, n)[i] = IF i < n THEN s[i] ELSE s[i + 1]
<1> DEFINE front == SubSeq(s, 1, n - 1)
           back  == SubSeq(s, n + 1, Len(s))
<1>1. front \in Seq(S) /\ Len(front) = n - 1 /\ \A i \in 1..n - 1 : front[i] = s[i]
  OBVIOUS
<1>2. /\ back \in Seq(S) /\ Len(back) = Len(s) - n
      /\ \A i \in 1..Len(s) - n : back[i] = s[n + i]
  OBVIOUS
<1> HIDE DEF front, back
<1>3. /\ front \o back \in Seq(S) /\ Len(front \o back) = Len(front) + Len(back)
      /\ \A i \in 1..Len(front) + Len(back) :
            (front \o back)[i] = IF i <= Len(front) THEN front[i] ELSE back[i - Len(front)]
  BY <1>1, <1>2, ConcatProperties
<1>4. RemoveAt(s, n) = front \o back
  BY DEF RemoveAt, front, back
<1>5. Len(s) \in Nat /\ n \in Int /\ Len(front) = n - 1 /\ Len(front) + Len(back) = Len(s) - 1
  BY <1>1, <1>2
<1>6. ASSUME NEW i \in 1..Len(s) - 1
      PROVE  (front \o back)[i] = IF i < n THEN s[i] ELSE s[i + 1]
  <2>1. CASE i < n
    BY <2>1, <1>1, <1>3, <1>5
  <2>2. CASE i >= n
    <3>1. (front \o back)[i] = back[i - (n - 1)] /\ i - (n - 1) \in 1..Len(s) - n
      BY <2>2, <1>3, <1>5
    <3>2. back[i - (n - 1)] = s[n + (i - (n - 1))] /\ n + (i - (n - 1)) = i + 1
      BY <3>1, <1>2, <1>5
    <3> QED
      BY <2>2, <3>1, <3>2, <1>5
  <2> QED
    BY <1>5, <2>1, <2>2
<1> QED
  BY <1>3, <1>4, <1>5, <1>6

LEMMA EntryFields ==
    ASSUME NEW q \in Seq(Entry)
    PROVE  /\ DOMAIN q = 1..Len(q) /\ Len(q) \in Nat
           /\ \A i \in 1..Len(q) :
                 q[i].task \in Tasklet /\ q[i].fireTime \in 0..Wrap - 1 /\ q[i].left \in Int
<1>1. DOMAIN q = 1..Len(q) /\ Len(q) \in Nat
  OBVIOUS
<1>2. \A i \in 1..Len(q) : q[i] \in Entry
  BY ElementOfSeq
<1> QED
  BY <1>1, <1>2 DEF Entry

\* A list that lost an entry keeps the invariant.
LEMMA InvAfterRemove ==
    ASSUME SchedulerInv, now' = now, NEW n \in 1..Len(queue), queue' \in Seq(Entry),
           Len(queue') = Len(queue) - 1,
           \A i \in 1..Len(queue) - 1 : queue'[i] = IF i < n THEN queue[i] ELSE queue[i + 1]
    PROVE  /\ \A i, j \in DOMAIN queue' : queue'[i].task = queue'[j].task => i = j
           /\ FireTimes' /\ Sorted'
<1> DEFINE old(i) == IF i < n THEN i ELSE i + 1
<1>1. DOMAIN queue = 1..Len(queue) /\ DOMAIN queue' = 1..Len(queue) - 1
  BY DEF SchedulerInv, TypeOK
<1>2. \A i \in DOMAIN queue' : old(i) \in DOMAIN queue /\ queue'[i] = queue[old(i)]
  BY <1>1 DEF SchedulerInv, TypeOK
<1>3. \A i, j \in DOMAIN queue' : /\ i < j => old(i) < old(j)
                                  /\ old(i) = old(j) => i = j
  BY <1>1
<1> HIDE DEF old
<1>4. \A i, j \in DOMAIN queue' : queue'[i].task = queue'[j].task => i = j
  BY <1>2, <1>3 DEF SchedulerInv, TypeOK
<1>5. FireTimes'
  BY <1>2 DEF SchedulerInv, FireTimes
<1>6. Sorted'
  BY <1>2, <1>3 DEF SchedulerInv, Sorted
<1> QED
  BY <1>4, <1>5, <1>6

----------------------------------------------------------------------------
(* The steps.                                                              *)

LEMMA ScheduleStep ==
    ASSUME InRange, SchedulerInv, NEW t \in Tasklet, NEW stale \in 0..MaxStale,
           NEW delay \in 0..MaxDelay, ScheduleAbs(t, stale, delay)
    PROVE  SchedulerInv'
<1> DEFINE left == delay - stale
           time == (((now - stale) % Wrap) + delay) % Wrap
           e    == [task |-> t, fireTime |-> time, left |-> left]
<1>1. now \in 0..Wrap - 1 /\ queue \in Seq(Entry)
  BY DEF SchedulerInv, TypeOK
<1>2. delay \in 0..MaxDelay /\ left \in Int
  BY TaskletAssumption
<1>3. /\ time = (now + left) % Wrap /\ time \in 0..Wrap - 1
      /\ left >= -MaxLate /\ left <= MaxDelay
  BY <1>1, <1>2, StaleTime
<1>4. e \in Entry /\ e.left = left /\ e.fireTime = time /\ e.task = t
  BY <1>2, <1>3 DEF Entry
<1>5. PICK n \in 1..Len(queue) + 1 : IsPlace(n, time) /\ queue' = InsertAt(queue, n, e)
  BY DEF ScheduleAbs
<1> HIDE DEF e, time, left
<1>6. /\ queue' \in Seq(Entry) /\ Len(queue') = Len(queue) + 1
      /\ \A i \in 1..Len(queue) + 1 :
            queue'[i] = IF i < n THEN queue[i] ELSE IF i = n THEN e ELSE queue[i - 1]
  BY <1>1, <1>4, <1>5, InsertAtIndices
<1>7. now' = now /\ processing' = processing /\ running' = running /\ ~IsQueued(t)
  BY DEF ScheduleAbs
<1>8. DOMAIN queue = 1..Len(queue) /\ DOMAIN queue' = 1..Len(queue) + 1 /\ Len(queue) \in Nat
  BY <1>1, <1>6
<1>9. \A i \in DOMAIN queue : queue[i].left \in Int
  BY <1>1, EntryFields
<1>10. \A i \in 1..n - 1 : queue[i].left < left
  <2> TAKE i \in 1..n - 1
  <2>1. i \in DOMAIN queue
    BY <1>8
  <2>2. GetTimeToEvent(queue[i].fireTime, time) # 0
    BY <1>5 DEF IsPlace
  <2>3. GetTimeToEvent(queue[i].fireTime, time) = IF left > queue[i].left THEN left - queue[i].left ELSE 0
    BY <1>1, <1>2, <1>3, <1>9, <2>1, TimeToEvent DEF SchedulerInv, FireTimes
  <2> QED
    BY <1>2, <1>9, <2>1, <2>2, <2>3
<1>11. n <= Len(queue) => left <= queue[n].left
  <2> HAVE n <= Len(queue)
  <2>1. n \in DOMAIN queue
    BY <1>8
  <2>2. GetTimeToEvent(queue[n].fireTime, time) = 0
    BY <1>5 DEF IsPlace
  <2>3. GetTimeToEvent(queue[n].fireTime, time) = IF left > queue[n].left THEN left - queue[n].left ELSE 0
    BY <1>1, <1>2, <1>3, <1>9, <2>1, TimeToEvent DEF SchedulerInv, FireTimes
  <2> QED
    BY <1>2, <1>9, <2>1, <2>2, <2>3
<1>12. \A i \in n..Len(queue) : left <= queue[i].left
  BY <1>2, <1>8, <1>9, <1>11 DEF SchedulerInv, Sorted
<1>13. Sorted'
  <2> SUFFICES ASSUME NEW i \in 1..Len(queue) + 1, NEW j \in 1..Len(queue) + 1, i < j
               PROVE  queue'[i].left <= queue'[j].left
    BY <1>8 DEF Sorted
  <2>1. \A k, l \in 1..Len(queue) : k < l => queue[k].left <= queue[l].left
    BY <1>8 DEF SchedulerInv, Sorted
  <2>2. CASE j < n
    BY <1>6, <1>8, <2>1, <2>2
  <2>3. CASE j = n
    BY <1>2, <1>4, <1>6, <1>8, <1>9, <1>10, <2>3
  <2>4. CASE j > n /\ i < n
    <3>1. queue'[i] = queue[i] /\ queue'[j] = queue[j - 1]
      BY <1>6, <1>8, <2>4
    <3>2. i \in 1..n - 1 /\ j - 1 \in n..Len(queue)
      BY <1>6, <1>8, <2>4
    <3>3. queue[i].left < left /\ left <= queue[j - 1].left
      BY <1>10, <1>12, <3>2
    <3>4. i \in DOMAIN queue /\ j - 1 \in DOMAIN queue
      BY <1>5, <1>8, <3>2
    <3>5. queue[i].left \in Int /\ queue[j - 1].left \in Int
      BY <1>9, <3>4
    <3> QED
      BY <1>2, <3>1, <3>3, <3>5
  <2>5. CASE i = n
    <3>1. queue'[i] = e /\ queue'[j] = queue[j - 1] /\ j - 1 \in n..Len(queue)
      BY <1>6, <1>8, <2>5
    <3> QED
      BY <1>4, <1>12, <3>1
  <2>6. CASE i > n
    <3>1. /\ queue'[i] = queue[i - 1] /\ queue'[j] = queue[j - 1] /\ i - 1 < j - 1
          /\ i - 1 \in 1..Len(queue) /\ j - 1 \in 1..Len(queue)
      BY <1>6, <1>8, <2>6
    <3> QED
      BY <2>1, <3>1
  <2> QED
    BY <1>8, <2>2, <2>3, <2>4, <2>5, <2>6
<1>14. FireTimes'
  BY <1>2, <1>3, <1>4, <1>6, <1>7, <1>8 DEF SchedulerInv, FireTimes
<1>15. \A i, j \in DOMAIN queue' : queue'[i].task = queue'[j].task => i = j
  <2>1. \A k, l \in 1..Len(queue) : queue[k].task = queue[l].task => k = l
    BY <1>8 DEF SchedulerInv, TypeOK
  <2>2. \A k \in 1..Len(queue) : queue[k].task # t
    BY <1>7, <1>8 DEF IsQueued
  <2>3. \A i \in 1..Len(queue) + 1 :
           \/ i < n /\ queue'[i] = queue[i] /\ i \in 1..Len(queue)
           \/ i = n /\ queue'[i].task = t
           \/ i > n /\ queue'[i] = queue[i - 1] /\ i - 1 \in 1..Len(queue)
    BY <1>4, <1>6, <1>8
  <2> QED
    BY <1>8, <2>1, <2>2, <2>3
<1>16. TypeOK'
  BY <1>6, <1>7, <1>15 DEF SchedulerInv, TypeOK
<1> QED
  BY <1>13, <1>14, <1>16 DEF SchedulerInv

LEMMA CancelStep ==
    ASSUME SchedulerInv, NEW t \in Tasklet, Cancel(t)
    PROVE  SchedulerInv'
<1>1. PICK n \in DOMAIN queue : queue' = RemoveAt(queue, n)
  BY DEF Cancel
<1>2. queue \in Seq(Entry) /\ n \in 1..Len(queue) /\ Len(queue) \in Nat
  BY <1>1 DEF SchedulerInv, TypeOK
<1>3. /\ queue' \in Seq(Entry) /\ Len(queue') = Len(queue) - 1
      /\ \A i \in 1..Len(queue) - 1 : queue'[i] = IF i < n THEN queue[i] ELSE queue[i + 1]
  BY <1>1, <1>2, RemoveAtIndices
<1>4. now' = now /\ processing' = processing /\ running' = running
  BY DEF Cancel
<1>5. /\ \A i, j \in DOMAIN queue' : queue'[i].task = queue'[j].task => i = j
      /\ FireTimes' /\ Sorted'
  BY <1>2, <1>3, <1>4, InvAfterRemove
<1> QED
  BY <1>3, <1>4, <1>5 DEF SchedulerInv, TypeOK

LEMMA ProcessDueStep ==
    ASSUME SchedulerInv, ProcessDue
    PROVE  SchedulerInv'
<1>1. queue \in Seq(Entry) /\ queue # <<>> /\ queue' = Tail(queue) /\ now' = now
  BY DEF SchedulerInv, TypeOK, ProcessDue, HeadDue
<1>2. /\ queue' \in Seq(Entry) /\ Len(queue') = Len(queue) - 1
      /\ \A i \in 1..Len(queue) - 1 : queue'[i] = queue[i + 1]
      /\ 1 \in 1..Len(queue) /\ Len(queue) \in Nat
  BY <1>1, HeadTailProperties
<1>3. \A i \in 1..Len(queue) - 1 : queue'[i] = IF i < 1 THEN queue[i] ELSE queue[i + 1]
  BY <1>2
<1>4. /\ \A i, j \in DOMAIN queue' : queue'[i].task = queue'[j].task => i = j
      /\ FireTimes' /\ Sorted'
  BY <1>1, <1>2, <1>3, InvAfterRemove
<1>5. running' \in Tasklet /\ processing' = TRUE
  <2>1. queue[1].task \in Tasklet
    BY <1>1, <1>2, EntryFields
  <2> QED
    BY <1>1, <1>2, <2>1 DEF ProcessDue, SchedulerInv, TypeOK
<1> QED
  BY <1>1, <1>2, <1>4, <1>5 DEF SchedulerInv, TypeOK

LEMMA TickStep ==
    ASSUME InRange, SchedulerInv, Tick
    PROVE  SchedulerInv'
<1> USE TaskletAssumption, HalfWrap
<1>1. /\ now \in 0..Wrap - 1 /\ queue \in Seq(Entry) /\ DOMAIN queue = 1..Len(queue)
      /\ Len(queue) \in Nat
  BY DEF SchedulerInv, TypeOK
<1>2. queue' = [i \in 1..Len(queue) |-> [queue[i] EXCEPT !.left = @ - 1]] /\ now' = (now + 1) % Wrap
  BY <1>1 DEF Tick
<1>3. ASSUME NEW i \in 1..Len(queue)
      PROVE  /\ queue[i] \in Entry
             /\ queue'[i] \in Entry
             /\ queue'[i].left = queue[i].left - 1
             /\ queue'[i].fireTime = queue[i].fireTime
             /\ queue'[i].task = queue[i].task
  <2>1. queue[i] \in Entry
    BY <1>1, ElementOfSeq
  <2>2. queue'[i] = [queue[i] EXCEPT !.left = @ - 1]
    BY <1>2
  <2> QED
    BY <2>1, <2>2 DEF Entry
<1>4. queue' \in Seq(Entry) /\ DOMAIN queue' = 1..Len(queue)
  <2>1. queue' \in [1..Len(queue) -> Entry]
    BY <1>2, <1>3
  <2> QED
    BY <1>1, <2>1, IsASeq
<1>5. now' \in 0..Wrap - 1
  <2>1. \A n \in 0..Wrap - 1 : (n + 1) % Wrap \in 0..Wrap - 1
    BY ModWrap
  <2> QED
    BY <1>1, <1>2, <2>1
<1>6. ASSUME NEW i \in 1..Len(queue)
      PROVE  /\ queue'[i].left >= -MaxLate /\ queue'[i].left <= MaxDelay
             /\ queue'[i].fireTime = (now' + queue'[i].left) % Wrap
  <2> DEFINE x == queue[i].left
  <2>1. x \in Int /\ x > -MaxLate /\ x <= MaxDelay /\ queue[i].fireTime = (now + x) % Wrap
    BY <1>1, <1>3, EntryFields DEF SchedulerInv, FireTimes, Tick
  <2>2. (((now + 1) % Wrap) + (x - 1)) % Wrap = (now + x) % Wrap
    <3> HIDE DEF x
    <3>1. x \in Int /\ x >= -MaxLate /\ x <= MaxDelay
      BY <2>1
    <3> QED
      BY <1>1, <3>1, NextTime
  <2> QED
    BY <1>2, <1>3, <2>1, <2>2
<1>7. FireTimes'
  BY <1>4, <1>6 DEF FireTimes
<1>8. Sorted'
  <2> SUFFICES ASSUME NEW i \in 1..Len(queue), NEW j \in 1..Len(queue), i < j
               PROVE  queue'[i].left <= queue'[j].left
    BY <1>4 DEF Sorted
  <2>1. queue[i].left <= queue[j].left /\ queue[i].left \in Int /\ queue[j].left \in Int
    BY <1>1, EntryFields DEF SchedulerInv, Sorted
  <2>2. queue'[i].left = queue[i].left - 1 /\ queue'[j].left = queue[j].left - 1
    BY <1>3
  <2> QED
    BY <2>1, <2>2
<1>9. \A i, j \in DOMAIN queue' : queue'[i].task = queue'[j].task => i = j
  BY <1>1, <1>3, <1>4 DEF SchedulerInv, TypeOK
<1> QED
  BY <1>4, <1>5, <1>7, <1>8, <1>9 DEF SchedulerInv, TypeOK, Tick

LEMMA SchedulerStep ==
    ASSUME InRange, SchedulerInv, [Next]_vars
    PROVE  SchedulerInv'
<1>1. ASSUME NEW t \in Tasklet, NEW delay \in 0..MaxDelay, ScheduleDelta(t, delay)
      PROVE  SchedulerInv'
  BY <1>1, ScheduleStep, TaskletAssumption DEF ScheduleDelta
<1>2. ASSUME NEW t \in Tasklet, NEW delay \in 0..MaxDelay, NEW stale \in 1..MaxStale,
             ScheduleAbs(t, stale, delay)
      PROVE  SchedulerInv'
  BY <1>2, ScheduleStep, TaskletAssumption
<1>3. ASSUME NEW t \in Tasklet, Cancel(t)
      PROVE  SchedulerInv'
  BY <1>3, CancelStep
<1>4. CASE Process \/ CallbackReturns \/ ProcessReturns \/ UNCHANGED vars
  BY <1>4 DEF Process, CallbackReturns, ProcessReturns, vars, SchedulerInv, TypeOK, FireTimes,
              Sorted
<1>5. CASE ProcessDue
  BY <1>5, ProcessDueStep
<1>6. CASE Tick
  BY <1>6, TickStep
<1> QED
  BY <1>1, <1>2, <1>3, <1>4, <1>5, <1>6 DEF Next

LEMMA SchedulerInvariant == ASSUME InRange PROVE Spec => []SchedulerInv
<1>1. Init => SchedulerInv
  <2> SUFFICES ASSUME Init PROVE SchedulerInv
    OBVIOUS
  <2>1. queue = <<>> /\ queue \in Seq(Entry) /\ DOMAIN queue = {}
    BY DEF Init
  <2>2. 0 \in 0..Wrap - 1
    BY TaskletAssumption
  <2> QED
    BY <2>1, <2>2, TaskletAssumption DEF Init, SchedulerInv, TypeOK, FireTimes, Sorted
<1>2. SchedulerInv /\ [Next]_vars => SchedulerInv'
  BY SchedulerStep
<1> QED
  BY <1>1, <1>2, PTL DEF Spec

----------------------------------------------------------------------------
(* The results.                                                            *)

\* What TASKLET_GetTimeToNext and TASKLET_Process compute from the clock.
LEMMA HeadLeft ==
    ASSUME InRange, SchedulerInv, queue # <<>>
    PROVE  /\ 1 \in DOMAIN queue /\ Head(queue) = queue[1]
           /\ \A i \in DOMAIN queue : queue[i].left \in Int /\ queue[1].left <= queue[i].left
           /\ GetTimeToEvent(now, Head(queue).fireTime)
                 = IF queue[1].left > 0 THEN queue[1].left ELSE 0
<1>1. queue \in Seq(Entry) /\ now \in 0..Wrap - 1
  BY DEF SchedulerInv, TypeOK
<1>2. 1 \in DOMAIN queue /\ Head(queue) = queue[1] /\ DOMAIN queue = 1..Len(queue)
  BY <1>1
<1>3. \A i \in DOMAIN queue : queue[i].left \in Int
  BY <1>1, EntryFields
<1>4. \A i \in DOMAIN queue : queue[1].left <= queue[i].left
  BY <1>1, <1>2, <1>3 DEF SchedulerInv, Sorted
<1>5. GetTimeToEvent(now, queue[1].fireTime) = IF queue[1].left > 0 THEN queue[1].left ELSE 0
  BY <1>1, <1>2, <1>3, TimeFromNow DEF SchedulerInv, FireTimes
<1> QED
  BY <1>2, <1>3, <1>4, <1>5

\* The scheduler's variables keep their types and no tasklet is listed twice.
THEOREM SchedulerTypes == ASSUME InRange PROVE Spec => []TypeOK
BY SchedulerInvariant, PTL DEF SchedulerInv

\* TASKLET_ScheduleAbs keeps the list sorted by the time really left.
THEOREM ListSorted == ASSUME InRange PROVE Spec => []Sorted
BY SchedulerInvariant, PTL DEF SchedulerInv

\* TASKLET_GetTimeToNext never lets the device sleep past a tasklet.
THEOREM SleepTimeRight == ASSUME InRange PROVE Spec => []SleepsRight
<1>1. SchedulerInv => SleepsRight
  <2> SUFFICES ASSUME SchedulerInv, queue # <<>>
               PROVE  LET delta == GetTimeToEvent(now, Head(queue).fireTime)
                      IN  /\ \A i \in DOMAIN queue : queue[i].left > 0 => delta <= queue[i].left
                          /\ delta = 0 <=> \E i \in DOMAIN queue : queue[i].left <= 0
    BY DEF SleepsRight
  <2> DEFINE delta == GetTimeToEvent(now, Head(queue).fireTime)
  <2>1. /\ 1 \in DOMAIN queue
        /\ \A i \in DOMAIN queue : queue[i].left \in Int /\ queue[1].left <= queue[i].left
        /\ delta = IF queue[1].left > 0 THEN queue[1].left ELSE 0
    BY HeadLeft
  <2> HIDE DEF delta
  <2>2. \A i \in DOMAIN queue : queue[i].left > 0 => delta <= queue[i].left
    BY <2>1
  <2>3. delta = 0 <=> \E i \in DOMAIN queue : queue[i].left <= 0
    BY <2>1
  <2> QED
    BY <2>2, <2>3 DEF delta
<1> QED
  BY <1>1, SchedulerInvariant, PTL

\* TASKLET_Process calls nothing before its time or before what was due earlier.
THEOREM CallbacksOnTime == ASSUME InRange PROVE Spec => NeverEarly
<1>1. ASSUME SchedulerInv, ProcessDue
      PROVE  Head(queue).left <= 0 /\ \A i \in DOMAIN queue : Head(queue).left <= queue[i].left
  <2>1. queue # <<>> /\ GetTimeToEvent(now, Head(queue).fireTime) = 0
    BY <1>1 DEF ProcessDue, HeadDue
  <2> QED
    BY <1>1, <2>1, HeadLeft
<1> QED
  BY <1>1, SchedulerInvariant, PTL DEF NeverEarly

\* TASKLET_Process returns only when no tasklet is due.
THEOREM ProcessLeavesNothingDue == ASSUME InRange PROVE Spec => NothingDueIsLeft
<1>1. ASSUME SchedulerInv, [Next]_vars, processing, ~processing'
      PROVE  \A i \in DOMAIN queue : queue[i].left > 0
  <2>1. ~HeadDue
    BY <1>1 DEF Next, vars, ScheduleDelta, ScheduleAbs, Cancel, Process, ProcessDue,
                CallbackReturns, ProcessReturns, Tick
  <2>2. CASE queue = <<>>
    BY <2>2
  <2>3. CASE queue # <<>>
    <3>1. queue[1].left > 0
      BY <1>1, <2>1, <2>3, HeadLeft DEF HeadDue
    <3> QED
      BY <1>1, <2>3, <3>1, HeadLeft
  <2> QED
    BY <2>2, <2>3
<1> QED
  BY <1>1, SchedulerInvariant, PTL DEF NothingDueIsLeft, Spec
=============================================================================
