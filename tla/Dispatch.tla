------------------------------ MODULE Dispatch ------------------------------
(***************************************************************************)
(* The bare-metal core between the SPI driver and the application:         *)
(* cascoda_dispatch.c with its cache of outstanding data requests and the  *)
(* workarounds for the CA-8211 built on it, and cascoda_wait.c.            *)
(*                                                                         *)
(* There is one thread, but it re-enters: callbacks send requests, a       *)
(* request may have to wait (which dispatches messages, so runs callbacks) *)
(* and giving up a lost request waits and calls back in the middle of a    *)
(* loop over the cache.  "stack" holds the calls in progress, the innermost*)
(* first; a step is what one of them does up to the next call of a         *)
(* callback or of DISPATCH_FromCA821x.  Synchronous commands are part of   *)
(* the step they are sent from.                                            *)
(***************************************************************************)
EXTENDS Integers, Sequences, FiniteSets, SequencesExt, FiniteSetsExt

CONSTANTS
    Req,        \* data requests: records of type, handle, indirect, awkward
    CacheSize,  \* MDR_CacheSize
    Timeout,    \* mTimeout of a new item, in ticks
    WaitFor,    \* the kinds of messages that the application waits for
    MaxRounds,  \* bound: rounds of a wait loop before its time is over
    MaxFaults,  \* bound: requests lost by the chip, and its restarts
    MaxOps      \* bound: what else than requests the application does

ASSUME DispatchAssumption ==
    /\ Req \subseteq [type : {"MCPS", "PCPS"}, handle : Nat,
                      indirect : BOOLEAN, awkward : BOOLEAN]
    /\ \A r \in Req : r.awkward => r.type = "PCPS"
    /\ WaitFor \subseteq {"confirm", "wakeup", "scan"}
    /\ CacheSize \in Nat \ {0} /\ Timeout \in Nat /\ MaxRounds \in Nat \ {0}
    /\ MaxFaults \in Nat /\ MaxOps \in Nat

\* All that the cache and the chip know of a request is its type and handle: the
\* application has to choose the handles so that they tell its requests apart.
ASSUME DistinctHandles ==
    \A r, s \in Req : r.type = s.type /\ r.handle = s.handle => r = s

VARIABLES
    stack,                 \* the calls in progress
    \* ---- statics of cascoda_dispatch.c
    MDR_Cache, isPCPSRxOn, isCacheFlushFixActive, isScanInProgress, isDispatching,
    elapsed,               \* time since CacheDecay's prevTime
    \* ---- statics of cascoda_wait.c, and the callback table of the device
    table, sTargetCallback, sWaitCalled, sWaitCallbackActive, sWaiting,
    \* ---- the chip, and the SPI driver's ring of messages from it
    held, scanning, rxOn, ring,
    \* ---- history
    sent, said,            \* requests sent; the confirms given for each
    excused,               \* requests of which the application expects no confirm,
                           \* or that never were, or are no longer, in the cache
    asked, raced,          \* the receiver state asked for; may it have been lost?
    faults, ops            \* how often the bounded events have happened

statics == <<MDR_Cache, isPCPSRxOn, isCacheFlushFixActive, isScanInProgress,
             isDispatching, elapsed>>
waits   == <<table, sTargetCallback, sWaitCalled, sWaitCallbackActive, sWaiting>>
chip    == <<held, scanning, rxOn>>
history == <<sent, said, excused, asked, raced, faults, ops>>
vars    == <<stack, statics, waits, chip, ring, history>>

Slot  == 0..CacheSize - 1
Empty == [active |-> FALSE]
Item(r) == [active |-> TRUE, req |-> r, left |-> Timeout]

\* the messages from the chip, and the entries of the callback table they use
Confirm(r) == [kind |-> "confirm", req |-> r]
Wakeup     == [kind |-> "wakeup"]
ScanDone   == [kind |-> "scan"]
Kind       == {"confirm", "wakeup", "scan"}

\* Calls in progress.  "at" is where the call goes on when it is on top.
Frame(op, at) == [op |-> op, at |-> at]
Top  == Head(stack)
Rest == Tail(stack)
InApp == Top.op \in {"main", "callback"}
Calling(op) == \E i \in DOMAIN stack : stack[i].op = op

AppOp == InApp /\ ops < MaxOps /\ ops' = ops + 1
Fault == faults < MaxFaults /\ faults' = faults + 1

----------------------------------------------------------------------------
(* The cache of outstanding data requests.                                 *)

ActiveSlots == {i \in Slot : MDR_Cache[i].active}
Cached(r) == \E i \in ActiveSlots : MDR_Cache[i].req = r

CacheAddItem(r) ==
    LET Free == Slot \ ActiveSlots
    IN  IF Free = {} THEN MDR_Cache ELSE [MDR_Cache EXCEPT ![Min(Free)] = Item(r)]

\* mutants: the type is not compared; nothing is removed
RemoveByHandle(r) ==
    LET Same == {i \in ActiveSlots : MDR_Cache[i].req.handle = r.handle}
    IN  IF Same = {} THEN MDR_Cache ELSE [MDR_Cache EXCEPT ![Min(Same)] = Empty]
RemoveNothing(r) == MDR_Cache
CacheRemoveItem(r) ==
    LET Same == {i \in ActiveSlots : /\ MDR_Cache[i].req.handle = r.handle
                                     /\ MDR_Cache[i].req.type = r.type}
    IN  IF Same = {} THEN MDR_Cache ELSE [MDR_Cache EXCEPT ![Min(Same)] = Empty]

\* CacheDecay goes through the slots until one has timed out; only if none has
\* is the time it has accounted for taken off the clock.  Indirect requests
\* wait for a poll and have no timeout.  mutant: only the first slot is looked at
DirectFirst(cache) == {i \in {0} : cache[i].active /\ ~cache[i].req.indirect}
Direct(cache) == {i \in Slot : cache[i].active /\ ~cache[i].req.indirect}
Late(cache) == {i \in Direct(cache) : elapsed > cache[i].left}
CacheDecay(cache) ==
    /\ MDR_Cache' = [i \in Slot |->
           IF i \in Direct(cache) /\ \A j \in Late(cache) : i < j
           THEN [cache[i] EXCEPT !.left = @ - elapsed] ELSE cache[i]]
    /\ elapsed' = IF Late(cache) = {} THEN 0 ELSE elapsed

----------------------------------------------------------------------------
(* DISPATCH_ToCA821x, from the main program or from a callback.  While a   *)
(* scan is in progress every command is refused.                           *)

\* Sent and remembered: PostCheckToCA821x, once SPI_Send has succeeded.  A
\* request that is put behind the loop of CachePurge, or in the slot it is at,
\* is dropped by that loop or by the reset after it.
BehindPurge(r) ==
    \E n \in DOMAIN stack :
        /\ stack[n].op = "flush" /\ stack[n].at = "purge"
        /\ \E i \in Slot : i <= stack[n].slot /\ CacheAddItem(r)[i] # MDR_Cache[i]
SendAndCache(r) ==
    /\ held' = held \cup {r}
    /\ MDR_Cache' = CacheAddItem(r)
    /\ sent' = sent \cup {r}
    /\ excused' = IF ActiveSlots = Slot \/ BehindPurge(r) THEN excused \cup {r} ELSE excused

DataRequest(r) ==
    /\ InApp /\ ~isScanInProgress
    /\ r \notin sent /\ ~r.awkward
    /\ SendAndCache(r)
    /\ UNCHANGED <<stack, isPCPSRxOn, isCacheFlushFixActive, isScanInProgress, isDispatching,
                   elapsed, waits, scanning, rxOn, ring, said, asked, raced, faults, ops>>

\* ApplyPCPSHotFix: for some lengths the receiver is switched off first, and
\* what goes on meanwhile is waited for.
AwkwardRequest(r) ==
    /\ InApp /\ ~isScanInProgress
    /\ r \notin sent /\ r.awkward
    /\ \A i \in DOMAIN stack : stack[i].op = "pcps" => stack[i].req # r
    /\ isPCPSRxOn' = rxOn
    /\ rxOn' = FALSE
    /\ raced' = (raced \/ Calling("pcps"))
    /\ stack' = <<[op |-> "pcps", at |-> "wait", req |-> r]>> \o stack
    /\ UNCHANGED <<MDR_Cache, isCacheFlushFixActive, isScanInProgress, isDispatching, elapsed,
                   waits, held, scanning, ring, sent, said, excused, asked, faults, ops>>

\* The request itself and ApplyPCPSPostFix, which restores the receiver unless
\* a callback has begun a scan.  mutant: it is left off
PcpsReceiverOff == FALSE
PcpsReceiver == IF isScanInProgress THEN rxOn ELSE isPCPSRxOn
PcpsSend ==
    /\ Top.op = "pcps" /\ Top.at = "send"
    /\ SendAndCache(Top.req)
    /\ rxOn' = PcpsReceiver
    /\ raced' = (raced \/ isScanInProgress)
    /\ stack' = Rest
    /\ UNCHANGED <<isPCPSRxOn, isCacheFlushFixActive, isScanInProgress, isDispatching, elapsed,
                   waits, scanning, ring, said, asked, faults, ops>>

SetRxOnWhenIdle(on) ==
    /\ AppOp /\ ~isScanInProgress
    /\ rxOn' = on /\ asked' = on
    /\ raced' = (raced \/ Calling("pcps") \/ Calling("flush"))
    /\ UNCHANGED <<stack, statics, waits, held, scanning, ring, sent, said, excused, faults>>

ScanRequest ==
    /\ AppOp /\ ~isScanInProgress
    /\ isScanInProgress' = TRUE /\ scanning' = TRUE
    /\ UNCHANGED <<stack, MDR_Cache, isPCPSRxOn, isCacheFlushFixActive, isDispatching, elapsed,
                   waits, held, rxOn, ring, sent, said, excused, asked, raced, faults>>

\* MCPS_PURGE_request of a request that the chip still holds
PurgeRequest(r) ==
    /\ AppOp /\ ~isScanInProgress
    /\ r \in held /\ r.type = "MCPS"
    /\ held' = held \ {r}
    /\ MDR_Cache' = CacheRemoveItem(r)
    /\ excused' = excused \cup {r}
    /\ UNCHANGED <<stack, isPCPSRxOn, isCacheFlushFixActive, isScanInProgress, isDispatching,
                   elapsed, waits, scanning, rxOn, ring, sent, said, asked, raced, faults>>

\* MLME_RESET_request of the application: all it had asked for is forgotten
ResetRequest ==
    /\ AppOp /\ ~isScanInProgress
    /\ held' = {} /\ scanning' = FALSE
    /\ MDR_Cache' = [i \in Slot |-> Empty]
    /\ excused' = sent
    /\ UNCHANGED <<stack, isPCPSRxOn, isCacheFlushFixActive, isScanInProgress, isDispatching,
                   elapsed, waits, rxOn, ring, sent, said, asked, raced, faults>>

----------------------------------------------------------------------------
(* WAIT_Callback and WAIT_CallbackSwap.                                    *)

\* Begin to wait for a message, through the application's callback or another
\* one.  mutant: a wait in progress is no obstacle
AlwaysMayWait == TRUE
MayWait == ~sWaiting
BeginWait(kind, target, caller) ==
    /\ sWaiting' = TRUE /\ sWaitCalled' = FALSE
    /\ sTargetCallback' = target
    /\ table' = [table EXCEPT ![kind] = "wait"]
    /\ stack' = <<[op |-> "wait", at |-> "dispatch", kind |-> kind, rounds |-> 0]>> \o caller
    /\ UNCHANGED sWaitCallbackActive

\* Within a callback of the dispatcher a wait gives up at once.
AppWait(kind, swap) ==
    /\ AppOp /\ MayWait /\ ~isDispatching
    /\ BeginWait(kind, IF swap THEN "swap" ELSE table[kind], stack)
    /\ UNCHANGED <<statics, chip, ring, sent, said, excused, asked, raced, faults>>

\* The workarounds wait for a wake-up to let time pass; within another wait
\* they go on at once.
FixWait ==
    LET then == IF Top.op = "pcps" THEN "send" ELSE "purge"
        caller == <<[Top EXCEPT !.at = then]>> \o Rest
    IN
    /\ Top.op \in {"pcps", "flush"} /\ Top.at = "wait"
    /\ IF MayWait THEN BeginWait("wakeup", table["wakeup"], caller)
       ELSE stack' = caller /\ UNCHANGED waits
    /\ UNCHANGED <<statics, chip, ring, history>>

RestoreCallback(kind) ==
    [table EXCEPT ![kind] = IF sTargetCallback = "swap" THEN "app" ELSE sTargetCallback]

WaitRound ==
    /\ Top.op = "wait" /\ Top.at = "dispatch"
    /\ ~isDispatching /\ Top.rounds < MaxRounds
    /\ isDispatching' = TRUE
    /\ stack' = <<Frame("dispatch", "loop"),
                  [Top EXCEPT !.at = "check", !.rounds = @ + 1]>> \o Rest
    /\ UNCHANGED <<MDR_Cache, isPCPSRxOn, isCacheFlushFixActive, isScanInProgress, elapsed,
                   waits, chip, ring, history>>

WaitAgain ==
    /\ Top.op = "wait" /\ Top.at = "check" /\ ~sWaitCalled
    /\ stack' = <<[Top EXCEPT !.at = "dispatch"]>> \o Rest
    /\ UNCHANGED <<statics, waits, chip, ring, history>>

\* called, timed out, or CA_ERROR_INVALID_STATE inside a callback
WaitEnd ==
    /\ Top.op = "wait"
    /\ \/ Top.at = "check" /\ sWaitCalled
       \/ Top.at = "dispatch" /\ (isDispatching \/ Top.rounds > 0)
    /\ table' = RestoreCallback(Top.kind)
    /\ sWaiting' = FALSE
    /\ stack' = Rest
    /\ UNCHANGED <<statics, sTargetCallback, sWaitCalled, sWaitCallbackActive, chip, ring, history>>

----------------------------------------------------------------------------
(* Callbacks, DISPATCH_FromCA821x and ApplyCacheFlushFix.                  *)

\* ca821x_upstream_dispatch: through WAIT_CallbackInternal if that is in the
\* table, otherwise the callback itself
CallBack(kind, caller) ==
    LET wrapped == table[kind] = "wait"
    IN  /\ stack' = <<[op |-> "callback", at |-> "app", wrapped |-> wrapped]>> \o caller
        /\ sWaitCallbackActive' = (sWaitCallbackActive \/ wrapped)

MainLoop ==
    /\ Top.op = "main" /\ ~isDispatching
    /\ isDispatching' = TRUE
    /\ stack' = <<Frame("dispatch", "loop")>> \o stack
    /\ UNCHANGED <<MDR_Cache, isPCPSRxOn, isCacheFlushFixActive, isScanInProgress, elapsed,
                   waits, chip, ring, history>>

\* One message: PreCheckFromCA821x, then the callback; the message is taken
\* off the ring when the callback has returned.
DispatchMessage ==
    LET m == Head(ring)
    IN
    /\ Top.op = "dispatch" /\ Top.at = "loop" /\ ring # <<>>
    /\ MDR_Cache' = IF m.kind = "confirm" THEN CacheRemoveItem(m.req) ELSE MDR_Cache
    /\ isScanInProgress' = (isScanInProgress /\ m.kind = "confirm")
    /\ said' = IF m.kind = "confirm" THEN [said EXCEPT ![m.req] = Append(@, "real")] ELSE said
    /\ CallBack(m.kind, <<[Top EXCEPT !.at = "called"]>> \o Rest)
    /\ UNCHANGED <<isPCPSRxOn, isCacheFlushFixActive, isDispatching, elapsed, table,
                   sTargetCallback, sWaitCalled, sWaiting, chip, ring, sent, excused, asked,
                   raced, faults, ops>>

\* Return to the loop that called: the dispatcher drops the message, CachePurge
\* the item it has made up a confirm for.
CallbackReturn ==
    LET caller == Head(Rest)
        i == caller.slot
    IN
    /\ Top.op = "callback"
    /\ IF Top.wrapped THEN sWaitCalled' = TRUE /\ sWaitCallbackActive' = FALSE
                      ELSE UNCHANGED <<sWaitCalled, sWaitCallbackActive>>
    /\ \/ /\ caller.op = "dispatch"
          /\ ring' = Tail(ring)
          /\ stack' = <<[caller EXCEPT !.at = "loop"]>> \o Tail(Rest)
          /\ UNCHANGED MDR_Cache
       \/ /\ caller.op = "flush"
          /\ MDR_Cache' = [MDR_Cache EXCEPT ![i] = Empty]
          /\ stack' = <<[caller EXCEPT !.slot = i + 1]>> \o Tail(Rest)
          /\ UNCHANGED ring
    /\ UNCHANGED <<isPCPSRxOn, isCacheFlushFixActive, isScanInProgress, isDispatching, elapsed,
                   table, sTargetCallback, sWaiting, chip, history>>

\* The end of the loop over the ring: the cache decays, and if a request has
\* timed out the receiver is switched off for ApplyCacheFlushFix.  The value
\* that is to be restored is not written when a scan refuses the reading of it.
DispatchEnd ==
    /\ Top.op = "dispatch" /\ Top.at = "loop" /\ ring = <<>>
    /\ isDispatching' = FALSE
    /\ IF elapsed = 0 \/ isCacheFlushFixActive THEN UNCHANGED <<MDR_Cache, elapsed>>
                                               ELSE CacheDecay(MDR_Cache)
    /\ IF elapsed = 0 \/ isCacheFlushFixActive \/ Late(MDR_Cache) = {}
       THEN /\ stack' = Rest
            /\ UNCHANGED <<isCacheFlushFixActive, rxOn, raced>>
       ELSE \E rxOnOld \in IF isScanInProgress THEN BOOLEAN ELSE {rxOn} :
            /\ isCacheFlushFixActive' = TRUE
            /\ rxOn' = (rxOn /\ isScanInProgress)
            /\ raced' = (raced \/ isScanInProgress)
            /\ stack' = <<[op |-> "flush", at |-> "wait", slot |-> 0, rxOnOld |-> rxOnOld],
                          [Top EXCEPT !.at = "flushed"]>> \o Rest
    /\ UNCHANGED <<isPCPSRxOn, isScanInProgress, waits, held, scanning, ring, sent, said,
                   excused, asked, faults, ops>>

\* CachePurge(true): a confirm is made up for every request.
PurgeConfirm ==
    LET I == {i \in ActiveSlots : i >= Top.slot}
        i == Min(I)
    IN
    /\ Top.op = "flush" /\ Top.at = "purge" /\ I # {}
    /\ said' = [said EXCEPT ![MDR_Cache[i].req] = Append(@, "made up")]
    /\ CallBack("confirm", <<[Top EXCEPT !.slot = i]>> \o Rest)
    /\ UNCHANGED <<statics, table, sTargetCallback, sWaitCalled, sWaiting, chip, ring,
                   sent, excused, asked, raced, faults, ops>>

\* The chip is reset, which empties the cache again, and the receiver restored.
FlushEnd ==
    LET cache == [i \in Slot |->
                     IF i < Top.slot /\ isScanInProgress THEN MDR_Cache[i] ELSE Empty]
    IN
    /\ Top.op = "flush" /\ Top.at = "purge"
    /\ \A i \in ActiveSlots : i < Top.slot
    /\ held' = IF isScanInProgress THEN held ELSE {}
    /\ rxOn' = IF isScanInProgress THEN rxOn ELSE Top.rxOnOld
    /\ raced' = (raced \/ isScanInProgress)
    /\ isCacheFlushFixActive' = FALSE
    /\ CacheDecay(cache)
    /\ stack' = Tail(Rest)
    /\ UNCHANGED <<isPCPSRxOn, isScanInProgress, isDispatching, waits, scanning, ring, sent,
                   said, excused, asked, faults, ops>>

----------------------------------------------------------------------------
(* The chip, which is not part of the repository, and time.                *)

ChipConfirms(r) ==
    /\ r \in held
    /\ held' = held \ {r}
    /\ ring' = Append(ring, Confirm(r))
    /\ UNCHANGED <<stack, statics, waits, scanning, rxOn, history>>

ChipLoses(r) ==
    /\ r \in held /\ Fault
    /\ held' = held \ {r}
    /\ UNCHANGED <<stack, statics, waits, scanning, rxOn, ring, sent, said, excused, asked, raced,
                   ops>>

ChipScanned ==
    /\ scanning
    /\ scanning' = FALSE
    /\ ring' = Append(ring, ScanDone)
    /\ UNCHANGED <<stack, statics, waits, held, rxOn, history>>

\* It wakes up with nothing of what it was doing and with its default settings.
\* Only a restart in a scan is considered: isScanInProgress depends on it, and
\* that a request can be lost at any time is seen above.
ChipRestarts ==
    /\ scanning /\ Fault
    /\ held' = {} /\ scanning' = FALSE /\ rxOn' = FALSE
    /\ raced' = TRUE
    /\ ring' = Append(ring, Wakeup)
    /\ UNCHANGED <<stack, statics, waits, sent, said, excused, asked, ops>>

Tick ==
    /\ elapsed <= Timeout
    /\ elapsed' = elapsed + 1
    /\ UNCHANGED <<stack, MDR_Cache, isPCPSRxOn, isCacheFlushFixActive, isScanInProgress,
                   isDispatching, waits, chip, ring, history>>

----------------------------------------------------------------------------
Init ==
    /\ stack = <<Frame("main", "app")>>
    /\ MDR_Cache = [i \in Slot |-> Empty]
    /\ isPCPSRxOn = FALSE /\ isCacheFlushFixActive = FALSE
    /\ isScanInProgress = FALSE /\ isDispatching = FALSE
    /\ elapsed = 0
    /\ table = [k \in Kind |-> "app"]
    /\ sTargetCallback = "app"
    /\ sWaitCalled = FALSE /\ sWaitCallbackActive = FALSE /\ sWaiting = FALSE
    /\ held = {} /\ scanning = FALSE /\ rxOn = TRUE /\ ring = <<>>
    /\ sent = {} /\ said = [r \in Req |-> <<>>] /\ excused = {}
    /\ asked = TRUE /\ raced = FALSE
    /\ faults = 0 /\ ops = 0

Application ==
    \/ \E r \in Req : DataRequest(r) \/ AwkwardRequest(r) \/ PurgeRequest(r)
    \/ \E on \in BOOLEAN : SetRxOnWhenIdle(on)
    \/ ScanRequest \/ ResetRequest
    \/ \E kind \in WaitFor, swap \in BOOLEAN : AppWait(kind, swap)

Program ==
    \/ MainLoop \/ DispatchMessage \/ DispatchEnd \/ CallbackReturn
    \/ WaitRound \/ WaitAgain \/ WaitEnd
    \/ FixWait \/ PcpsSend \/ PurgeConfirm \/ FlushEnd

Chip == (\E r \in Req : ChipConfirms(r) \/ ChipLoses(r)) \/ ChipScanned \/ ChipRestarts

Next == Application \/ Program \/ Chip \/ Tick

\* The main loop never stops and callbacks return; the application and the
\* chip owe nothing.
Fairness == WF_vars(Program) /\ WF_vars(Tick)

Spec == Init /\ [][Next]_vars /\ Fairness

----------------------------------------------------------------------------
(* Properties.                                                             *)

\* A request that was sent and cached is not forgotten, whatever the chip loses
\* and whoever waits for what: until it is confirmed the chip has it, its confirm
\* waits in the ring, or the cache remembers it.
NoRequestForgotten ==
    \A r \in sent \ excused :
        \/ said[r] # <<>>
        \/ r \in held \/ Cached(r)
        \/ \E i \in DOMAIN ring : ring[i] = Confirm(r)

\* A confirm of the chip is the last word on a request and is passed on once,
\* and at most one is made up: giving up a lost request and dispatching, which
\* re-enter each other through waits and callbacks, do not repeat it.
ConfirmedOnce ==
    \A r \in Req : said[r] \in {<<>>, <<"real">>, <<"made up">>, <<"made up", "real">>}

\* "Re-enable receiver": when none of the workarounds is at work the receiver is
\* as the application last asked, unless something intervened in one of them: a
\* scan, a restart of the chip, another request of an awkward length or the
\* application's own setting of it.
ReceiverRestored ==
    ~raced /\ ~Calling("pcps") /\ ~Calling("flush") => rxOn = asked

\* "Replace the current callback ... and also calls the old callback": the table
\* holds the application's callbacks but for the one that is waited for, there
\* is one wait at a time, and its context is seen only by its own callback.
CallbacksRestored ==
    LET W == {i \in DOMAIN stack : stack[i].op = "wait"}
        C == {i \in DOMAIN stack : stack[i].op = "callback" /\ stack[i].wrapped}
    IN  /\ Cardinality(W) <= 1
        /\ \A k \in Kind : table[k] = IF \E i \in W : stack[i].kind = k THEN "wait" ELSE "app"
        /\ sWaiting <=> W # {}
        /\ sWaitCallbackActive <=> C # {}

\* Every direct request is confirmed: by the chip, or after its timeout by the
\* cache, so that an application that waits for a confirm is not stuck.
EveryRequestAnswered ==
    \A r \in Req : r \in sent /\ ~r.indirect ~> said[r] # <<>> \/ r \in excused
=============================================================================
