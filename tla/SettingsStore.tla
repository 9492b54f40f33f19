--------------------------- MODULE SettingsStore ---------------------------
(***************************************************************************)
(* The settings store of cascoda-util (cascoda_settings.c): values are     *)
(* appended as blocks to one of two flash areas; when the area in use is   *)
(* full the blocks that still count are copied to the other area and the   *)
(* two change roles.  Flash bits are only ever cleared between erasures,   *)
(* so a block is superseded or deleted by clearing bits of its flag.       *)
(*                                                                         *)
(* Every write of a word that decides something is a step of its own, and  *)
(* the power may fail between any two.  An area's blocks are a sequence    *)
(* instead of bytes at addresses; the bytes that they take are counted.    *)
(***************************************************************************)
EXTENDS Integers, Sequences, FiniteSets, SequencesExt

CONSTANTS
    Key, Val,
    Length,         \* the length of a value in bytes
    SetKeys,        \* keys written with caUtilSettingsSet
    AddKeys,        \* keys written with caUtilSettingsAdd
    SettingsSize,   \* bytes of an area
    CopyBufferSize, \* kCopyBufferSize
    WipeBoth,       \* may Wipe begin when the power failed between the two flag
                    \* writes that end a swap, so that both areas are in use?
    Lost,           \* contents of a value that was not copied: erased flash
    MaxOps,         \* bound: operations begun
    MaxCrashes      \* bound: power failures

ASSUME SettingsAssumption ==
    /\ SetKeys \subseteq Key /\ AddKeys \subseteq Key
    /\ Lost \notin Val
    /\ Length \in [Val -> 0..511]
    /\ SettingsSize \in Nat /\ SettingsSize >= 4     \* there is room for the flag word
    /\ CopyBufferSize \in Nat \ {0}
    /\ WipeBoth \in BOOLEAN
    /\ MaxOps \in Nat /\ MaxCrashes \in Nat

VARIABLES
    area,       \* the flash: two areas, each a flag word and blocks
    base,       \* the area in use, as the program knows it
    pc, block,  \* what is being written, and where that is
    todo,       \* the flag writes that are left of a deletion
    formatted,  \* history: has the store been in use since it was blank or wiped?
    ops, crashes

\* the points of the program: within Set or Add, and the others
Writing == {"key", "length", "data", "complete",
            "swap", "stamp_swap", "copy", "use", "retire"}
Pcs == Writing \cup {"off", "idle", "format", "stamp", "delete"}

vars == <<area, base, pc, block, todo, formatted, ops, crashes>>

----------------------------------------------------------------------------
(* Blocks and areas.                                                       *)

FlagSize   == 4
HeaderSize == 8
UnsetLength == 65535    \* the length field of a block not yet written

getAlignLength(n) == 4 * (((n + 3) % 65536) \div 4)

Area  == 0..1
Other(a) == 1 - a
ErasedArea == [flag |-> "erased", blocks |-> <<>>]

Live(b) == b.complete /\ ~b.deleted

\* The program goes through an area block by block: what it has after all of
\* n blocks, if it begins with x and block i makes Step(y, i) of what it has.
Scan(Step(_, _), x, n) ==
    LET after[i \in 0..n] == IF i = 0 THEN x ELSE Step(after[i - 1], i)
    IN  after[n]

UsedSize(blocks) ==
    Scan(LAMBDA used, i : used + HeaderSize + blocks[i].size, FlagSize, Len(blocks))

Positions(blocks, k) == {i \in DOMAIN blocks : blocks[i].key = k}

\* The values of a key as caUtilSettingsGet finds them by index: the live
\* blocks from the key's last index0 block on, be that live or not.
Values(blocks, k) ==
    LET Begun(list, i) == IF blocks[i].index0 THEN <<>> ELSE list
        Found(list, i) ==
            IF blocks[i].key # k THEN list
            ELSE IF Live(blocks[i]) THEN Append(Begun(list, i), blocks[i].val)
            ELSE Begun(list, i)
    IN  Scan(Found, <<>>, Len(blocks))

----------------------------------------------------------------------------
(* Operations.                                                             *)

Idle == pc = "idle" /\ ops < MaxOps /\ ops' = ops + 1
Write(a, blocks) == area' = [area EXCEPT ![a].blocks = blocks]
SetFlag(a, flag) == area' = [area EXCEPT ![a].flag = flag]
Erase(a) == area' = [area EXCEPT ![a] = ErasedArea]
Go(l) == pc' = l /\ UNCHANGED <<block, todo, ops, crashes>>

\* mutant: room is never checked
RoomAlways(n) == TRUE
Room(n) ==
    UsedSize(area[base].blocks) + getAlignLength(n) + HeaderSize < SettingsSize

\* addSettingVector begins: make room if there is none
Put(k, v, index0) ==
    /\ Idle
    /\ block' = [key |-> k, val |-> v, index0 |-> index0]
    /\ pc' = IF Room(Length[v]) THEN "key" ELSE "swap"
    /\ UNCHANGED <<area, base, todo, formatted, crashes>>

caUtilSettingsSet(k, v) == k \in SetKeys /\ Put(k, v, TRUE)
caUtilSettingsAdd(k, v) ==
    k \in AddKeys /\ Put(k, v, Values(area[base].blocks, k) = <<>>)

\* key and flag, the first word of the block's header
PutKey ==
    /\ pc = "key"
    /\ Write(base, Append(area[base].blocks,
                          [key |-> block.key, index0 |-> block.index0,
                           complete |-> FALSE, deleted |-> FALSE,
                           size |-> getAlignLength(UnsetLength), val |-> Lost]))
    /\ Go("length")
    /\ UNCHANGED <<base, formatted>>

ChangeLast(a, b) ==
    LET blocks == area[a].blocks IN Write(a, [blocks EXCEPT ![Len(blocks)] = b])
LastBlock == Last(area[base].blocks)

PutLength ==
    /\ pc = "length"
    /\ ChangeLast(base, [LastBlock EXCEPT !.size = getAlignLength(Length[block.val])])
    /\ Go("data")
    /\ UNCHANGED <<base, formatted>>

PutData ==
    /\ pc = "data"
    /\ ChangeLast(base, [LastBlock EXCEPT !.val = block.val])
    /\ Go("complete")
    /\ UNCHANGED <<base, formatted>>

\* kBlockAddCompleteFlag is cleared: the value counts from here on
PutComplete ==
    /\ pc = "complete"
    /\ ChangeLast(base, [LastBlock EXCEPT !.complete = TRUE])
    /\ Go("idle")
    /\ UNCHANGED <<base, formatted>>

----------------------------------------------------------------------------
(* swapSettingsBlock.                                                      *)

\* A live block is copied unless a later live one replaces all of its key.
Survives(blocks, i) ==
    /\ Live(blocks[i])
    /\ \A j \in DOMAIN blocks :
           j > i /\ blocks[j].key = blocks[i].key => ~(Live(blocks[j]) /\ blocks[j].index0)

\* The bytes copied of a block whose data takes n, header included: the loop
\* ends when it has copied n bytes, and n does not count the header.
CopiedBytes(n) ==
    LET Least(x, y) == IF x < y THEN x ELSE y
        f[c \in 0..n + HeaderSize] ==
            IF c >= n THEN c ELSE f[c + Least(CopyBufferSize, n - c + HeaderSize)]
    IN  f[HeaderSize]
CopyBlock(b) ==
    IF CopiedBytes(b.size) = HeaderSize + b.size THEN b ELSE [b EXCEPT !.val = Lost]

\* mutants: only the blocks that begin a list; deleted blocks as well
SwappedFirst(blocks) == SelectSeq(blocks, LAMBDA b : Live(b) /\ b.index0)
SwappedDeleted(blocks) ==
    [i \in DOMAIN blocks |-> [blocks[i] EXCEPT !.deleted = FALSE]]
Swapped(blocks) ==
    LET Copied(copy, i) ==
            IF Survives(blocks, i) THEN Append(copy, CopyBlock(blocks[i])) ELSE copy
    IN  Scan(Copied, <<>>, Len(blocks))

\* initSettings of the other area, in two steps: erased, then stamped InSwap
SwapErase ==
    /\ pc = "swap"
    /\ base' = Other(base)
    /\ Erase(Other(base))
    /\ Go("stamp_swap")
    /\ UNCHANGED formatted

SwapStamp ==
    /\ pc = "stamp_swap"
    /\ SetFlag(base, "InSwap")
    /\ Go("copy")
    /\ UNCHANGED <<base, formatted>>

\* The copying is one step: a restart in its middle does not read this area.
SwapCopy ==
    /\ pc = "copy"
    /\ Write(base, Swapped(area[Other(base)].blocks))
    /\ Go("use")
    /\ UNCHANGED <<base, formatted>>

\* mutant: the old area is given up first
SwapUseLate ==
    /\ pc = "use"
    /\ SetFlag(Other(base), "NotUse")
    /\ Go("retire")
    /\ UNCHANGED <<base, formatted>>
SwapUse ==
    /\ pc = "use"
    /\ SetFlag(base, "InUse")
    /\ Go("retire")
    /\ UNCHANGED <<base, formatted>>

\* NotUse on the old area; CA_ERROR_NO_BUFFER if there still is no room
SwapRetire ==
    /\ pc = "retire"
    /\ SetFlag(Other(base), "NotUse")
    /\ Go(IF SettingsSize - UsedSize(area[base].blocks)
                 >= getAlignLength(Length[block.val]) + HeaderSize
          THEN "key" ELSE "idle")
    /\ UNCHANGED <<base, formatted>>

----------------------------------------------------------------------------
(* caUtilSettingsDelete, index from zero or -1 for all.                    *)

\* A block's index: how many live blocks of its key the scan has passed since
\* the last index0 block.
IndexOf(blocks, i) ==
    LET k == blocks[i].key
        Forgotten(j) == \E m \in j + 1..i : blocks[m].key = k /\ blocks[m].index0
    IN  Cardinality({j \in 1..i - 1 : blocks[j].key = k /\ Live(blocks[j]) /\ ~Forgotten(j)})

\* the flag writes, in the order of the scan
DeleteWrites(blocks, k, index) ==
    LET Deletes(i)  == index = -1 \/ IndexOf(blocks, i) = index
        Promotes(i) == index = 0 /\ IndexOf(blocks, i) = 1
        Written(writes, i) ==
            IF blocks[i].key = k /\ Live(blocks[i]) /\ (Deletes(i) \/ Promotes(i))
            THEN Append(writes, [at |-> i, deletes |-> Deletes(i)])
            ELSE writes
    IN  Scan(Written, <<>>, Len(blocks))

caUtilSettingsDelete(k, index) ==
    /\ Idle
    /\ todo' = DeleteWrites(area[base].blocks, k, index)
    /\ todo' # <<>>
    /\ pc' = "delete"
    /\ UNCHANGED <<area, base, block, formatted, crashes>>

DeleteWrite ==
    LET w == Head(todo)
        blocks == area[base].blocks
    IN
    /\ pc = "delete"
    /\ Write(base, IF w.deletes THEN [blocks EXCEPT ![w.at].deleted = TRUE]
                                ELSE [blocks EXCEPT ![w.at].index0 = TRUE])
    /\ todo' = Tail(todo)
    /\ pc' = IF Tail(todo) = <<>> THEN "idle" ELSE "delete"
    /\ UNCHANGED <<base, block, formatted, ops, crashes>>

----------------------------------------------------------------------------
(* caUtilSettingsInit, caUtilSettingsWipe, power failures.                 *)

InUse == {a \in Area : area[a].flag = "InUse"}

\* the area a restart uses: the first that is in use
Boot ==
    /\ pc = "off"
    /\ base' = IF 0 \in InUse THEN 0 ELSE 1
    /\ Go(IF InUse = {} THEN "format" ELSE "idle")
    /\ formatted' = (formatted \/ InUse # {})
    /\ UNCHANGED area

\* mutant: the other area is erased
FormatOther ==
    /\ pc = "format"
    /\ Erase(Other(base))
    /\ Go("stamp")
    /\ UNCHANGED <<base, formatted>>
Format ==
    /\ pc = "format"
    /\ Erase(base)
    /\ Go("stamp")
    /\ UNCHANGED <<base, formatted>>

FormatStamp ==
    /\ pc = "stamp"
    /\ SetFlag(base, "InUse")
    /\ formatted' = TRUE
    /\ Go("off")
    /\ UNCHANGED base

caUtilSettingsWipe ==
    /\ Idle
    /\ InUse = Area => WipeBoth
    /\ pc' = "format"
    /\ formatted' = FALSE
    /\ UNCHANGED <<area, base, block, todo, crashes>>

NoBlock == [key |-> Lost, val |-> Lost, index0 |-> FALSE]

Crash ==
    /\ pc # "off" /\ crashes < MaxCrashes
    /\ crashes' = crashes + 1
    /\ pc' = "off" /\ base' = 0 /\ block' = NoBlock /\ todo' = <<>>
    /\ UNCHANGED <<area, formatted, ops>>

----------------------------------------------------------------------------
Init ==
    /\ area = [a \in Area |-> ErasedArea]
    /\ base = 0
    /\ pc = "off"
    /\ block = NoBlock
    /\ todo = <<>>
    /\ formatted = FALSE
    /\ ops = 0 /\ crashes = 0

Next ==
    \/ \E k \in Key, v \in Val : caUtilSettingsSet(k, v) \/ caUtilSettingsAdd(k, v)
    \/ PutKey \/ PutLength \/ PutData \/ PutComplete
    \/ SwapErase \/ SwapStamp \/ SwapCopy \/ SwapUse \/ SwapRetire
    \/ \E k \in Key, index \in {-1, 0, 1} : caUtilSettingsDelete(k, index)
    \/ DeleteWrite
    \/ caUtilSettingsWipe
    \/ Boot \/ Format \/ FormatStamp \/ Crash

Spec == Init /\ [][Next]_vars

----------------------------------------------------------------------------
(* Properties.                                                             *)

\* What the settings would be if the power failed now: the view of a restart.
Stored(k) ==
    IF 0 \in InUse THEN Values(area[0].blocks, k)
    ELSE IF 1 \in InUse THEN Values(area[1].blocks, k)
    ELSE <<>>

\* Blocks never run over the end of their area, into the other area's flag:
\* swapSettingsBlock and the check before it leave room for every write.
NeverOverflows == \A a \in Area : UsedSize(area[a].blocks) <= SettingsSize

\* A store in use is never without an area in use, whenever the power fails, so
\* caUtilSettingsInit formats only what was blank or was being wiped.
AlwaysRecoverable == formatted => InUse # {}

\* A Set of k was interrupted after its block's key and flags were written:
\* the values before it cannot be found until a swap drops that block.
Withdrawn(k) ==
    LET blocks == area[Other(base)].blocks
        I == {i \in Positions(blocks, k) : blocks[i].index0}
    IN  \E i \in I : ~blocks[i].complete /\ \A j \in I : j <= i

\* The moment a swap takes effect changes no key's values: what it copied is
\* what the old area held, in the same order, and nothing deleted returns.
SwapKeepsValues ==
    [][SwapUse => \A k \in Key : Withdrawn(k) \/ Stored(k)' = Stored(k)]_vars

\* Seen at any point where the power may fail, the store changes only as the
\* interface says: one value is set, added or removed at a time, and starting,
\* formatting and every other step of a swap change nothing.
KV == INSTANCE KeyValue WITH values <- [k \in Key |-> Stored(k)]
StoresKeyValues == KV!Spec

\* cascoda_settings.h, Wipe: "deletes all settings from the settings store":
\* from the erasure on, a restart finds none of them, nor any older ones.
WipeForgets == [][Format => \A k \in Key : Stored(k)' = <<>>]_vars

(* Statements of the documentation that the code does not keep.            *)

\* cascoda_settings.h, Set and Add: "Calling this function successfully may
\* cause unrelated settings with multiple values to be reordered": nothing
\* worse happens to other keys.
OtherKeysKept ==
    [][\A k \in Key : pc \in Writing /\ k # block.key => Stored(k)' = Stored(k)]_vars
=============================================================================
