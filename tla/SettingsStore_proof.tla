------------------------ MODULE SettingsStore_proof ------------------------
(***************************************************************************)
(* The settings store across power failures, for every size of the areas   *)
(* and every length of the values:                                         *)
(*   - a store in use never loses the area in use, until it is wiped and   *)
(*     again after that (NeverLosesTheStore);                              *)
(*   - what was wiped is never found again (WipedIsForgotten);             *)
(*   - a swap cannot be seen before the flag of the new area is written    *)
(*     (SwapIsUnseen);                                                     *)
(*   - no write runs over the end of its area (BlocksStayInTheirArea);     *)
(*   - a swap changes no values when it takes effect, and nothing deleted  *)
(*     returns (SwapPreservesValues);                                      *)
(*   - every step is an operation of the interface on the values that a    *)
(*     restart would find, or changes none (StoreImplementsKeyValue).      *)
(*                                                                         *)
(* None of these is inductive.  That erasing the other area is safe        *)
(* depends on which of the two the program believes to be in use           *)
(* (RecoverableInv), and what a restart finds on whether it believes so of *)
(* the one that the restart reads (RestartInv).  That a write fits rests   *)
(* on the room that was found before the first word of its block was       *)
(* written (FitsInv), and on what the loops over an area's blocks compute. *)
(* That a swap brings nothing back rests on the order in which every       *)
(* earlier operation wrote its flags, interrupted or not (OrderInv).       *)
(***************************************************************************)
EXTENDS SettingsStore, SequenceTheorems, FiniteSetTheorems, NaturalsInduction,
        WellFoundedInduction, TLAPS

\* An area is a flag and its blocks; nothing is said of the blocks.
Flash ==
    /\ area = [a \in Area |-> [flag |-> area[a].flag, blocks |-> area[a].blocks]]
    /\ base \in Area

\* The area in use before, during and after a swap.
Marked(a) == area[a].flag = "InUse"
InOneArea ==
    /\ pc \in {"idle", "delete", "key", "length", "data", "complete", "swap", "retire"}
          => Marked(base)
    /\ pc \in {"stamp_swap", "copy", "use"} => Marked(Other(base))

\* The store is formatted only when no area is in use.
FormatsOnce ==
    /\ pc \in {"format", "stamp"} => ~formatted
    /\ pc = "off" => (formatted => InUse # {})

RecoverableInv == Flash /\ pc \in Pcs /\ formatted \in BOOLEAN /\ InOneArea /\ FormatsOnce

----------------------------------------------------------------------------
\* The three ways to change the flash, and what they do to the flags.
LEMMA FlagsAfterWrite ==
    ASSUME Flash, NEW a \in Area, NEW blocks, Write(a, blocks)
    PROVE  /\ area' = [b \in Area |-> [flag |-> area'[b].flag, blocks |-> area'[b].blocks]]
           /\ \A b \in Area : area'[b].flag = area[b].flag
BY DEF Flash, Write

LEMMA FlagsAfterSetFlag ==
    ASSUME Flash, NEW a \in Area, NEW flag, SetFlag(a, flag)
    PROVE  /\ area' = [b \in Area |-> [flag |-> area'[b].flag, blocks |-> area'[b].blocks]]
           /\ area'[a].flag = flag
           /\ \A b \in Area \ {a} : area'[b].flag = area[b].flag
BY DEF Flash, SetFlag

LEMMA FlagsAfterErase ==
    ASSUME Flash, NEW a \in Area, Erase(a)
    PROVE  /\ area' = [b \in Area |-> [flag |-> area'[b].flag, blocks |-> area'[b].blocks]]
           /\ \A b \in Area \ {a} : area'[b].flag = area[b].flag
BY DEF Flash, Erase, ErasedArea

LEMMA TwoAreas == ASSUME NEW a \in Area PROVE Other(a) \in Area /\ Other(a) # a
BY DEF Area, Other

----------------------------------------------------------------------------
\* One step of the program, by what it does to the flash.
LEMMA RecoverableStep ==
    ASSUME RecoverableInv, [Next]_vars
    PROVE  RecoverableInv'
<1> USE DEF RecoverableInv
<1>1. CASE PutKey
  <2>1. PICK blocks : Write(base, blocks)
    BY <1>1 DEF PutKey
  <2>2. Flash' /\ \A b \in Area : area'[b].flag = area[b].flag
    BY <2>1, <1>1, FlagsAfterWrite DEF PutKey, Flash
  <2> QED
    BY <1>1, <2>2 DEF PutKey, Go, Flash, InOneArea, FormatsOnce, Marked, Pcs, Writing, Other
<1>2. CASE PutLength \/ PutData \/ PutComplete
  <2>1. PICK blocks : Write(base, blocks)
    BY <1>2 DEF PutLength, PutData, PutComplete, ChangeLast
  <2>2. Flash' /\ \A b \in Area : area'[b].flag = area[b].flag
    BY <2>1, <1>2, FlagsAfterWrite DEF PutLength, PutData, PutComplete, Flash
  <2> QED
    BY <1>2, <2>2 DEF PutLength, PutData, PutComplete, Go, Flash, InOneArea, FormatsOnce,
                      Marked, Pcs, Writing, Other
<1>3. CASE SwapErase
  <2>1. Flash' /\ area'[base].flag = area[base].flag /\ Other(Other(base)) = base
    BY <1>3, FlagsAfterErase, TwoAreas DEF SwapErase, Flash, Area, Other
  <2> QED
    BY <1>3, <2>1 DEF SwapErase, Go, Flash, InOneArea, FormatsOnce, Marked, Pcs, Writing
<1>4. CASE SwapStamp
  <2>1. Flash' /\ area'[Other(base)].flag = area[Other(base)].flag
    BY <1>4, FlagsAfterSetFlag, TwoAreas DEF SwapStamp, Flash
  <2> QED
    BY <1>4, <2>1 DEF SwapStamp, Go, Flash, InOneArea, FormatsOnce, Marked, Pcs, Writing, Other
<1>5. CASE SwapCopy
  <2>1. Flash' /\ \A b \in Area : area'[b].flag = area[b].flag
    BY <1>5, FlagsAfterWrite DEF SwapCopy, Flash
  <2> QED
    BY <1>5, <2>1, TwoAreas DEF SwapCopy, Go, Flash, InOneArea, FormatsOnce, Marked, Pcs, Writing, Other
<1>6. CASE SwapUse
  <2>1. Flash' /\ area'[base].flag = "InUse"
    BY <1>6, FlagsAfterSetFlag DEF SwapUse, Flash
  <2> QED
    BY <1>6, <2>1 DEF SwapUse, Go, Flash, InOneArea, FormatsOnce, Marked, Pcs, Writing
<1>7. CASE SwapRetire
  <2>1. Flash' /\ area'[base].flag = area[base].flag
    BY <1>7, FlagsAfterSetFlag, TwoAreas DEF SwapRetire, Flash
  <2> QED
    BY <1>7, <2>1 DEF SwapRetire, Go, Flash, InOneArea, FormatsOnce, Marked, Pcs, Writing
<1>8. CASE \E k \in Key, index \in {-1, 0, 1} : caUtilSettingsDelete(k, index)
  BY <1>8 DEF caUtilSettingsDelete, Idle, Flash, InOneArea, FormatsOnce, Marked, Pcs,
              Writing, Other, InUse
<1>9. CASE DeleteWrite
  <2>1. Flash' /\ \A b \in Area : area'[b].flag = area[b].flag
    BY <1>9, FlagsAfterWrite DEF DeleteWrite, Flash
  <2> QED
    BY <1>9, <2>1 DEF DeleteWrite, Flash, InOneArea, FormatsOnce, Marked, Pcs, Writing, Other
<1>10. CASE caUtilSettingsWipe
  BY <1>10 DEF caUtilSettingsWipe, Idle, Flash, InOneArea, FormatsOnce, Pcs
<1>11. CASE Boot
  <2>1. area' = area /\ base' \in Area
    BY <1>11 DEF Boot, Area
  <2>2. InUse # {} => Marked(base)'
    BY <1>11, <2>1 DEF Boot, InUse, Marked, Area
  <2>3. formatted' \in BOOLEAN /\ (InUse = {} => formatted' = FALSE)
    BY <1>11 DEF Boot, FormatsOnce
  <2> QED
    BY <1>11, <2>1, <2>2, <2>3 DEF Boot, Go, Flash, InOneArea, FormatsOnce, Pcs, Writing
<1>12. CASE Format
  <2>1. Flash'
    BY <1>12, FlagsAfterErase DEF Format, Flash
  <2> QED
    BY <1>12, <2>1 DEF Format, Go, Flash, InOneArea, FormatsOnce, Pcs, Writing
<1>13. CASE FormatStamp
  <2>1. Flash' /\ area'[base].flag = "InUse"
    BY <1>13, FlagsAfterSetFlag DEF FormatStamp, Flash
  <2> QED
    BY <1>13, <2>1 DEF FormatStamp, Go, Flash, InOneArea, FormatsOnce, Pcs, Writing, InUse
<1>14. CASE Crash
  <2>1. formatted => InUse # {}
    BY <1>14, TwoAreas DEF Crash, Flash, InOneArea, FormatsOnce, Marked, Pcs, Writing, InUse
  <2> QED
    BY <1>14, <2>1 DEF Crash, Flash, InOneArea, FormatsOnce, Pcs, Writing, Area, InUse
<1>15. CASE UNCHANGED vars
  BY <1>15 DEF vars, Flash, InOneArea, FormatsOnce, Marked, InUse, Other
<1>16. ASSUME NEW k \in Key, NEW v \in Val, caUtilSettingsSet(k, v) \/ caUtilSettingsAdd(k, v)
       PROVE  RecoverableInv'
  <2>1. PICK index0 : Put(k, v, index0)
    BY <1>16 DEF caUtilSettingsSet, caUtilSettingsAdd
  <2> QED
    BY <2>1 DEF Put, Idle, Flash, InOneArea, FormatsOnce, Marked, Pcs, Writing, Other, InUse
<1> QED
  BY <1>1, <1>2, <1>3, <1>4, <1>5, <1>6, <1>7, <1>8, <1>9, <1>10, <1>11, <1>12, <1>13,
     <1>14, <1>15, <1>16 DEF Next

----------------------------------------------------------------------------
\* A store in use keeps an area in use, whenever the power fails: restarting
\* (caUtilSettingsInit) formats only what was blank or was being wiped.
THEOREM NeverLosesTheStore == Spec => []AlwaysRecoverable
<1>1. Init => RecoverableInv
  BY DEF Init, RecoverableInv, Flash, InOneArea, FormatsOnce, Pcs, Writing, Area, ErasedArea
<1>2. RecoverableInv /\ [Next]_vars => RecoverableInv'
  BY RecoverableStep
<1>3. RecoverableInv => AlwaysRecoverable
  BY TwoAreas DEF RecoverableInv, Flash, InOneArea, FormatsOnce, Marked, Pcs, Writing, InUse,
                  AlwaysRecoverable
<1> QED
  BY <1>1, <1>2, <1>3, PTL DEF Spec
----------------------------------------------------------------------------
(* What a restart finds.  It reads area 0 if that is in use, and otherwise *)
(* area 1.  Between the erasure of an area and its flag write nothing in   *)
(* it is read, and before that the program works on the area that is read. *)

Read == IF 0 \in InUse THEN 0 ELSE 1

Working == {"idle", "delete", "key", "length", "data", "complete", "swap"}
Copying == {"stamp_swap", "copy", "use"}

WorksOnWhatIsRead ==
    /\ pc \in Working => base = Read
    /\ pc \in Copying => ~Marked(base)

\* What is formatted is the only area that may be in use, unless the store was
\* wiped between the two flag writes of a swap.
WipedAlone ==
    /\ pc = "format" => InUse \subseteq {base}
    /\ pc = "stamp" => InUse = {}

RestartInv == RecoverableInv /\ WorksOnWhatIsRead /\ (WipeBoth \/ WipedAlone)

\* What a restart finds depends on the flags and on the blocks of that area.
LEMMA StoredKept ==
    ASSUME Flash, Flash', InUse # {}, InUse' # {}, Read' = Read,
           area'[Read].blocks = area[Read].blocks
    PROVE  \A k : Stored(k)' = Stored(k)
<1>1. \A k : Stored(k) = Values(area[Read].blocks, k)
  BY DEF Stored, Read, InUse, Area
<1>2. \A k : Stored(k)' = Values(area'[Read'].blocks, k)
  BY DEF Stored, Read, InUse, Area
<1> QED
  BY <1>1, <1>2

LEMMA SameFlags ==
    ASSUME \A b \in Area : Marked(b)' = Marked(b)
    PROVE  InUse' = InUse /\ Read' = Read
BY DEF InUse, Read, Marked

\* Writing blocks and losing power leave the flags alone.
LEMMA RestartFrame ==
    ASSUME WorksOnWhatIsRead, WipeBoth \/ WipedAlone, \A b \in Area : Marked(b)' = Marked(b),
           \/ pc \in Working /\ pc' \in Working /\ base' = base
           \/ pc \in Copying /\ pc' \in Copying /\ base' = base
           \/ pc' = "off"
           \/ UNCHANGED <<pc, base>>,
           base \in Area
    PROVE  WorksOnWhatIsRead' /\ (WipeBoth \/ WipedAlone)'
<1>1. InUse' = InUse /\ Read' = Read
  BY SameFlags
<1>2. WorksOnWhatIsRead'
  BY <1>1 DEF WorksOnWhatIsRead, Working, Copying
<1>3. (WipeBoth \/ WipedAlone)'
  BY <1>1 DEF WipedAlone, Working, Copying
<1> QED
  BY <1>2, <1>3

LEMMA RestartStep ==
    ASSUME RestartInv, [Next]_vars
    PROVE  WorksOnWhatIsRead' /\ (WipeBoth \/ WipedAlone)'
<1>1. /\ Flash /\ base \in Area /\ pc \in Pcs
      /\ Other(base) \in Area /\ Other(base) # base /\ Other(Other(base)) = base
      /\ WorksOnWhatIsRead /\ (WipeBoth \/ WipedAlone)
  BY TwoAreas DEF RestartInv, RecoverableInv, Flash, Area, Other
<1>2. CASE PutKey \/ PutLength \/ PutData \/ PutComplete \/ DeleteWrite \/ SwapCopy
  <2>1. PICK blocks : Write(base, blocks)
    BY <1>2 DEF PutKey, PutLength, PutData, PutComplete, DeleteWrite, SwapCopy, ChangeLast
  <2>2. \A b \in Area : Marked(b)' = Marked(b)
    BY <1>1, <2>1, FlagsAfterWrite DEF Marked
  <2>3. /\ base' = base
        /\ \/ pc \in Working /\ pc' \in Working
           \/ pc \in Copying /\ pc' \in Copying
    BY <1>2 DEF PutKey, PutLength, PutData, PutComplete, DeleteWrite, SwapCopy, Go, Working, Copying
  <2> QED
    BY <1>1, <2>2, <2>3, RestartFrame
<1>3. CASE SwapErase
  <2>1. pc' = "stamp_swap" /\ base' = Other(base) /\ area'[Other(base)].flag = "erased"
    BY <1>1, <1>3 DEF SwapErase, Go, Erase, ErasedArea, Flash
  <2> QED
    BY <2>1 DEF WorksOnWhatIsRead, WipedAlone, Marked, Working, Copying
<1>4. CASE SwapStamp
  <2>1. pc' = "copy" /\ base' = base /\ area'[base].flag = "InSwap"
    BY <1>1, <1>4, FlagsAfterSetFlag DEF SwapStamp, Go
  <2> QED
    BY <2>1 DEF WorksOnWhatIsRead, WipedAlone, Marked, Working, Copying
<1>5. CASE SwapUse
  BY <1>5 DEF SwapUse, Go, WorksOnWhatIsRead, WipedAlone, Working, Copying
<1>6. CASE SwapRetire
  <2>1. /\ pc' \in Working /\ base' = base
        /\ area'[base].flag = "InUse" /\ area'[Other(base)].flag = "NotUse"
    BY <1>1, <1>6, FlagsAfterSetFlag
       DEF SwapRetire, Go, Working, RestartInv, RecoverableInv, InOneArea, Marked
  <2>2. base' = Read'
    BY <1>1, <2>1 DEF Read, InUse, Area, Other
  <2> QED
    BY <2>1, <2>2 DEF WorksOnWhatIsRead, WipedAlone, Working, Copying
<1>7. CASE caUtilSettingsWipe
  <2>1. pc' = "format" /\ base' = base /\ InUse' = InUse /\ Marked(base)
    BY <1>7 DEF caUtilSettingsWipe, Idle, RestartInv, RecoverableInv, InOneArea, InUse
  <2>2. InUse = Area => WipeBoth
    BY <1>7 DEF caUtilSettingsWipe
  <2>3. InUse \subseteq {base} \/ InUse = Area
    BY <1>1, <2>1 DEF InUse, Marked, Area
  <2> QED
    BY <2>1, <2>2, <2>3 DEF WorksOnWhatIsRead, WipedAlone, Working, Copying
<1>8. CASE Boot
  <2>1. base' = Read /\ InUse' = InUse /\ Read' = Read
    BY <1>8 DEF Boot, Read, InUse
  <2>2. pc' \in {"format", "idle"} /\ (pc' = "format" => InUse = {})
    BY <1>8 DEF Boot, Go
  <2> QED
    BY <2>1, <2>2 DEF WorksOnWhatIsRead, WipedAlone, Working, Copying
<1>9. CASE Format
  <2>1. /\ pc' = "stamp" /\ base' = base /\ area'[base].flag = "erased"
        /\ \A b \in Area \ {base} : area'[b].flag = area[b].flag
    BY <1>1, <1>9, FlagsAfterErase DEF Format, Go, Erase, ErasedArea, Flash
  <2>2. WipedAlone => InUse' = {}
    BY <1>9, <2>1 DEF Format, WipedAlone, InUse
  <2> QED
    BY <1>1, <2>1, <2>2 DEF WorksOnWhatIsRead, WipedAlone, Working, Copying
<1>10. CASE FormatStamp
  BY <1>10 DEF FormatStamp, Go, WorksOnWhatIsRead, WipedAlone, Working, Copying
<1>11. CASE \/ \E k \in Key, index \in {-1, 0, 1} : caUtilSettingsDelete(k, index)
            \/ Crash \/ UNCHANGED vars
  <2>1. area' = area
    BY <1>11 DEF caUtilSettingsDelete, Crash, vars
  <2>2. \/ pc \in Working /\ pc' \in Working /\ base' = base
        \/ pc' = "off"
        \/ UNCHANGED <<pc, base>>
    BY <1>11 DEF caUtilSettingsDelete, Idle, Crash, vars, Working
  <2> QED
    BY <1>1, <2>1, <2>2, RestartFrame DEF Marked
<1>12. ASSUME NEW k \in Key, NEW v \in Val, caUtilSettingsSet(k, v) \/ caUtilSettingsAdd(k, v)
       PROVE  WorksOnWhatIsRead' /\ (WipeBoth \/ WipedAlone)'
  <2>1. PICK index0 : Put(k, v, index0)
    BY <1>12 DEF caUtilSettingsSet, caUtilSettingsAdd
  <2>2. area' = area /\ pc \in Working /\ pc' \in Working /\ base' = base
    BY <2>1 DEF Put, Idle, Working
  <2> QED
    BY <1>1, <2>2, RestartFrame DEF Marked
<1> QED
  BY <1>2, <1>3, <1>4, <1>5, <1>6, <1>7, <1>8, <1>9, <1>10, <1>11, <1>12 DEF Next

LEMMA RestartInvariant == Spec => []RestartInv
<1>1. Init => RestartInv
  BY DEF Init, RestartInv, RecoverableInv, Flash, InOneArea, FormatsOnce, WorksOnWhatIsRead,
         WipedAlone, Working, Copying, Pcs, Writing, Area, ErasedArea
<1>2. RestartInv /\ [Next]_vars => RestartInv'
  BY RecoverableStep, RestartStep DEF RestartInv
<1> QED
  BY <1>1, <1>2, PTL DEF Spec

\* caUtilSettingsWipe, however often it is interrupted: once the area has been
\* erased a restart finds nothing, in particular no settings of before the last
\* swap.  (With WipeBoth it may; see the disagreements.)
THEOREM WipedIsForgotten ==
    ASSUME ~WipeBoth
    PROVE  Spec => WipeForgets
<1>1. RestartInv /\ Format => \A k \in Key : Stored(k)' = <<>>
  <2> SUFFICES ASSUME RestartInv, Format  PROVE \A k \in Key : Stored(k)' = <<>>
    OBVIOUS
  <2>1. WorksOnWhatIsRead' /\ WipedAlone' /\ pc' = "stamp"
    BY RestartStep DEF Format, Go, Next
  <2>2. InUse' = {}
    BY <2>1 DEF WipedAlone
  <2> QED
    BY <2>2 DEF Stored
<1> QED
  BY <1>1, RestartInvariant, PTL DEF WipeForgets

LEMMA UnseenStep ==
    ASSUME RestartInv, RestartInv', SwapErase \/ SwapStamp \/ SwapCopy \/ Crash \/ Boot
    PROVE  \A k \in Key : Stored(k)' = Stored(k)
<1>1. /\ Flash /\ Flash' /\ base \in Area
      /\ Other(base) \in Area /\ Other(base) # base /\ Other(Other(base)) = base
  BY TwoAreas DEF RestartInv, RecoverableInv, Flash, Area, Other
<1>2. CASE SwapErase
  <2>1. Read = base /\ base \in InUse
    BY <1>1, <1>2
       DEF SwapErase, RestartInv, RecoverableInv, InOneArea, WorksOnWhatIsRead, Working, Marked, InUse
  <2>2. area'[base] = area[base] /\ area'[Other(base)].flag = "erased"
    BY <1>1, <1>2 DEF SwapErase, Erase, ErasedArea, Flash
  <2>3. base \in InUse' /\ Read' = base
    BY <1>1, <2>1, <2>2 DEF InUse, Read, Area, Other
  <2> QED
    BY <1>1, <2>1, <2>2, <2>3, StoredKept
<1>3. CASE SwapStamp \/ SwapCopy
  <2>1. base \notin InUse /\ Other(base) \in InUse
    BY <1>1, <1>3
       DEF SwapStamp, SwapCopy, RestartInv, RecoverableInv, InOneArea, WorksOnWhatIsRead,
           Copying, Marked, InUse
  <2>2. base' = base /\ area'[Other(base)] = area[Other(base)] /\ base \notin InUse'
    <3>1. pc' \in Copying /\ base' = base
      BY <1>3 DEF SwapStamp, SwapCopy, Go, Copying
    <3> QED
      BY <1>1, <1>3, <3>1
         DEF SwapStamp, SwapCopy, SetFlag, Write, Flash, RestartInv, WorksOnWhatIsRead, Marked, InUse
  <2>3. Other(base) \in InUse' /\ Read = Other(base) /\ Read' = Other(base)
    BY <1>1, <2>1, <2>2 DEF InUse, Read, Area, Other
  <2> QED
    BY <1>1, <2>1, <2>2, <2>3, StoredKept
<1>4. CASE Crash \/ Boot
  BY <1>4 DEF Crash, Boot, Stored, InUse
<1> QED
  BY <1>2, <1>3, <1>4

\* Until swapSettingsBlock writes the flag of the new area, nothing that it does
\* can be seen after a restart: neither erasing the other area, which may still
\* be in use after an earlier failure, nor the copying, nor losing power.
SwapUnseen ==
    [][SwapErase \/ SwapStamp \/ SwapCopy \/ Crash \/ Boot
          => \A k \in Key : Stored(k)' = Stored(k)]_vars

THEOREM SwapIsUnseen == Spec => SwapUnseen
<1>1. RestartInv /\ RestartInv' => (SwapErase \/ SwapStamp \/ SwapCopy \/ Crash \/ Boot
                                       => \A k \in Key : Stored(k)' = Stored(k))
  BY UnseenStep
<1> QED
  BY <1>1, RestartInvariant, PTL DEF SwapUnseen

----------------------------------------------------------------------------
(* The loops over the blocks of an area.                                   *)

LEMMA LeastOf ==
    ASSUME NEW S \in SUBSET Nat, S # {}
    PROVE  \E m \in S : \A n \in S : m <= n
<1> DEFINE R == {p \in Nat \X Nat : p[1] < p[2]}
<1>1. IsWellFoundedOn(R, Nat)
  BY NatLessThanWellFounded, Zenon DEF OpToRel
<1>2. PICK m \in S : \A n \in S : ~(<<n, m>> \in R)
  <2> HIDE DEF R
  <2> QED BY <1>1, WFMin
<1>3. \A n \in S : m <= n
  <2> SUFFICES ASSUME NEW n \in S, n < m PROVE FALSE
    OBVIOUS
  <2>1. <<n, m>> \in R
    OBVIOUS
  <2> QED BY <1>2, <2>1
<1> QED BY <1>3

LEMMA Induction ==
    ASSUME NEW k \in Nat, NEW T, 0 \in T, \A n \in 1..k : n - 1 \in T => n \in T
    PROVE  \A n \in 0..k : n \in T
<1> DEFINE S == {n \in 0..k : n \notin T}
<1> SUFFICES ASSUME S # {} PROVE FALSE
  OBVIOUS
<1>1. S \in SUBSET Nat
  OBVIOUS
<1>2. PICK m \in S : \A n \in S : m <= n
  BY <1>1, LeastOf
<1>3. m # 0 /\ m \in 0..k /\ m \notin T
  OBVIOUS
<1>4. m \in 1..k /\ m - 1 \in 0..k /\ m - 1 < m
  BY <1>3
<1>5. m - 1 \in T
  BY <1>2, <1>4
<1> QED BY <1>3, <1>4, <1>5

\* two loops that make the same of the same
Alike(f, g, k) == f[0] = g[0] /\ \A n \in 1..k : f[n - 1] = g[n - 1] => f[n] = g[n]

LEMMA SameLoop ==
    ASSUME NEW k \in Nat, NEW f, NEW g, Alike(f, g, k)
    PROVE  \A n \in 0..k : f[n] = g[n]
<1> DEFINE T == {n \in 0..k : f[n] = g[n]}
<1>1. 0 \in T /\ \A n \in 1..k : n - 1 \in T => n \in T
  BY DEF Alike
<1> HIDE DEF T
<1>2. \A n \in 0..k : n \in T
  BY <1>1, Induction
<1> QED BY <1>2 DEF T

\* what a loop makes of x, step by step
IsLoop(f, k, x, g) == f = [i \in 0..k |-> IF i = 0 THEN x ELSE g[<<f[i - 1], i>>]]

LEMMA LoopDefined ==
    ASSUME NEW k \in Nat, NEW x, NEW g
    PROVE  \E f : IsLoop(f, k, x, g)
<1> DEFINE Good(f, n) == f = [i \in 0..n |-> IF i = 0 THEN x ELSE g[<<f[i - 1], i>>]]
           T == {n \in 0..k : \E f : Good(f, n)}
<1>1. 0 \in T
  <2> DEFINE h == [i \in 0..0 |-> x]
  <2>1. h = [i \in 0..0 |-> IF i = 0 THEN x ELSE g[<<h[i - 1], i>>]]
    OBVIOUS
  <2>2. 0 \in 0..k
    OBVIOUS
  <2> HIDE DEF h
  <2> QED BY <2>1, <2>2
<1>2. ASSUME NEW n \in 1..k, n - 1 \in T PROVE n \in T
  <2>1. PICK f : Good(f, n - 1)
    BY <1>2
  <2>2. f[0] = x /\ \A i \in 1..n - 1 : f[i] = g[<<f[i - 1], i>>]
    <3>1. 0 \in 0..n - 1 /\ \A i \in 1..n - 1 : i \in 0..n - 1 /\ i # 0
      OBVIOUS
    <3> QED BY <2>1, <3>1
  <2> DEFINE h == [i \in 0..n |-> IF i = n THEN g[<<f[n - 1], n>>] ELSE f[i]]
  <2>3. h[n] = g[<<f[n - 1], n>>] /\ \A i \in 0..n - 1 : h[i] = f[i]
    OBVIOUS
  <2>4. h = [i \in 0..n |-> h[i]]
    OBVIOUS
  <2> HIDE DEF h
  <2>5. ASSUME NEW i \in 1..n PROVE h[i] = g[<<h[i - 1], i>>]
    <3>1. h[i - 1] = f[i - 1]
      BY <2>3
    <3>2. CASE i = n
      <4>1. <<h[i - 1], i>> = <<f[n - 1], n>>
        BY <3>1, <3>2
      <4> QED BY <2>3, <3>2, <4>1
    <3>3. CASE i # n
      <4>1. i \in 1..n - 1 /\ h[i] = f[i]
        BY <2>3, <3>3
      <4> QED BY <2>2, <3>1, <4>1
    <3> QED BY <3>2, <3>3
  <2>6. h[0] = x
    BY <2>2, <2>3
  <2>7. \A i \in 0..n : h[i] = IF i = 0 THEN x ELSE g[<<h[i - 1], i>>]
    BY <2>5, <2>6
  <2>8. Good(h, n)
    BY <2>4, <2>7
  <2> QED BY <2>8
<1> HIDE DEF T
<1>3. k \in T
  BY <1>1, <1>2, Induction
<1> QED BY <1>3 DEF T, IsLoop

----------------------------------------------------------------------------
(* What the blocks of an area take.                                        *)

Block == [key : Key, index0 : BOOLEAN, complete : BOOLEAN, deleted : BOOLEAN,
          size : Nat, val : Val \cup {Lost}]

\* The scan of UsedSize as the function that it is: the bytes used before each block.
IsUsed(f, blocks) ==
    /\ f = [i \in 0..Len(blocks) |->
                IF i = 0 THEN FlagSize ELSE f[i - 1] + HeaderSize + blocks[i].size]
    /\ \A i \in 0..Len(blocks) : f[i] \in Nat
    /\ f[0] = FlagSize
    /\ \A i \in 1..Len(blocks) : f[i] = f[i - 1] + HeaderSize + blocks[i].size

\* all that the size of an area's contents depends on
Sized(blocks) == Len(blocks) \in Nat /\ \A i \in 1..Len(blocks) : blocks[i].size \in Nat

LEMMA BlocksAreSized ==
    ASSUME NEW blocks \in Seq(Block)
    PROVE  Sized(blocks)
<1>1. Len(blocks) \in Nat
  BY LenProperties
<1>2. \A i \in 1..Len(blocks) : blocks[i] \in Block
  BY ElementOfSeq
<1> QED BY <1>1, <1>2 DEF Block, Sized

LEMMA UsedIsChosen ==
    ASSUME NEW blocks
    PROVE  UsedSize(blocks) =
               (CHOOSE f : f = [i \in 0..Len(blocks) |->
                                  IF i = 0 THEN FlagSize
                                  ELSE f[i - 1] + HeaderSize + blocks[i].size])[Len(blocks)]
BY DEF UsedSize, Scan

LEMMA UsedDefined ==
    ASSUME NEW blocks, Sized(blocks)
    PROVE  \E f : IsUsed(f, blocks)
<1>1. PICK k \in Nat : k = Len(blocks)
  BY DEF Sized
<1>2. \A i \in 1..k : blocks[i].size \in Nat
  BY <1>1 DEF Sized
<1> DEFINE g == [p \in Nat \X (1..k) |-> p[1] + HeaderSize + blocks[p[2]].size]
<1>3. \A y \in Nat, i \in 1..k : g[<<y, i>>] = y + HeaderSize + blocks[i].size
  OBVIOUS
<1>4. ASSUME NEW y \in Nat, NEW i \in 1..k PROVE g[<<y, i>>] \in Nat
  <2>1. y + HeaderSize + blocks[i].size \in Nat
    BY <1>2 DEF HeaderSize
  <2> QED BY <1>3, <2>1
<1> HIDE DEF g
<1>5. PICK f : IsLoop(f, k, FlagSize, g)
  BY LoopDefined
<1>6. f[0] = FlagSize /\ \A i \in 1..k : f[i] = g[<<f[i - 1], i>>]
  <2>1. 0 \in 0..k /\ \A i \in 1..k : i \in 0..k /\ i # 0
    OBVIOUS
  <2> QED BY <1>5, <2>1 DEF IsLoop
<1> DEFINE T == {i \in 0..k : f[i] \in Nat}
<1>7. \A i \in 0..k : i \in T
  <2>1. 0 \in T
    BY <1>6 DEF FlagSize
  <2>2. \A i \in 1..k : i - 1 \in T => i \in T
    <3> SUFFICES ASSUME NEW i \in 1..k, f[i - 1] \in Nat PROVE f[i] \in Nat
      OBVIOUS
    <3> QED BY <1>4, <1>6
  <2> HIDE DEF T
  <2> QED BY <2>1, <2>2, Induction
<1>8. \A i \in 0..k : f[i] \in Nat
  BY <1>7
<1>9. \A i \in 1..k : f[i] = f[i - 1] + HeaderSize + blocks[i].size
  <2> SUFFICES ASSUME NEW i \in 1..k PROVE f[i] = f[i - 1] + HeaderSize + blocks[i].size
    OBVIOUS
  <2>1. i - 1 \in 0..k
    OBVIOUS
  <2>2. f[i - 1] \in Nat
    BY <1>8, <2>1
  <2> QED BY <1>3, <1>6, <2>2
<1>10. f = [i \in 0..k |-> IF i = 0 THEN FlagSize ELSE f[i - 1] + HeaderSize + blocks[i].size]
  <2>1. \A i \in 0..k : (IF i = 0 THEN FlagSize ELSE g[<<f[i - 1], i>>])
                          = IF i = 0 THEN FlagSize ELSE f[i - 1] + HeaderSize + blocks[i].size
    BY <1>6, <1>9
  <2> QED BY <1>5, <2>1 DEF IsLoop
<1> QED BY <1>1, <1>6, <1>8, <1>9, <1>10 DEF IsUsed

LEMMA UsedUnique ==
    ASSUME NEW blocks, Sized(blocks), NEW f, IsUsed(f, blocks)
    PROVE  UsedSize(blocks) = f[Len(blocks)] /\ UsedSize(blocks) \in Nat
<1>1. PICK k \in Nat : k = Len(blocks)
  BY DEF Sized
<1>2. f[0] = FlagSize /\ f[k] \in Nat
          /\ \A i \in 1..k : f[i] = f[i - 1] + HeaderSize + blocks[i].size
  BY <1>1 DEF IsUsed
<1>3. f = [i \in 0..k |-> IF i = 0 THEN FlagSize ELSE f[i - 1] + HeaderSize + blocks[i].size]
  BY <1>1 DEF IsUsed
<1>4. PICK a : /\ a = [i \in 0..k |-> IF i = 0 THEN FlagSize
                                      ELSE a[i - 1] + HeaderSize + blocks[i].size]
               /\ UsedSize(blocks) = a[k]
  BY <1>1, <1>3, UsedIsChosen, Zenon
<1>5. a[0] = FlagSize /\ \A i \in 1..k : a[i] = a[i - 1] + HeaderSize + blocks[i].size
  BY <1>4
<1>6. \A i \in 1..k : a[i - 1] = f[i - 1] => a[i] = f[i]
  BY <1>2, <1>5
<1>7. \A i \in 0..k : a[i] = f[i]
  <2>1. Alike(a, f, k)
    BY <1>2, <1>5, <1>6 DEF Alike
  <2> QED BY <2>1, SameLoop
<1> QED BY <1>1, <1>2, <1>4, <1>7

LEMMA UsedIsNat ==
    ASSUME NEW blocks, Sized(blocks)
    PROVE  UsedSize(blocks) \in Nat
BY UsedDefined, UsedUnique

\* where two areas begin alike, the same is used
LEMMA UsedPrefix ==
    ASSUME NEW b, NEW c, NEW f, NEW g, IsUsed(f, b), IsUsed(g, c), Sized(b), Sized(c),
           NEW m \in Nat, m <= Len(b), m <= Len(c), \A i \in 1..m : b[i].size = c[i].size
    PROVE  f[m] = g[m]
<1>1. f[0] = g[0]
  BY DEF IsUsed
<1>2. \A i \in 1..m : i \in 1..Len(b) /\ i \in 1..Len(c)
  BY DEF Sized
<1>3. \A i \in 1..m : /\ f[i] = f[i - 1] + HeaderSize + b[i].size
                      /\ g[i] = g[i - 1] + HeaderSize + b[i].size
  BY <1>2 DEF IsUsed
<1>4. \A i \in 1..m : f[i - 1] = g[i - 1] => f[i] = g[i]
  BY <1>3
<1>5. Alike(f, g, m)
  BY <1>1, <1>4 DEF Alike
<1>6. \A i \in 0..m : f[i] = g[i]
  BY <1>5, SameLoop
<1> QED BY <1>6

LEMMA UsedSame ==
    ASSUME NEW b, NEW c, Sized(b), Sized(c), Len(b) = Len(c),
           \A i \in 1..Len(b) : b[i].size = c[i].size
    PROVE  UsedSize(b) = UsedSize(c)
<1>1. PICK f : IsUsed(f, b)
  BY UsedDefined
<1>2. PICK g : IsUsed(g, c)
  BY UsedDefined
<1>3. PICK m \in Nat : m = Len(b) /\ m = Len(c)
  BY DEF Sized
<1>4. f[m] = g[m]
  BY <1>1, <1>2, <1>3, UsedPrefix
<1> QED BY <1>1, <1>2, <1>3, <1>4, UsedUnique

\* one more block, and one that changed
LEMMA UsedGrows ==
    ASSUME NEW b, NEW c, Sized(b), Sized(c), Len(c) = Len(b) + 1,
           \A i \in 1..Len(b) : b[i].size = c[i].size
    PROVE  UsedSize(c) = UsedSize(b) + HeaderSize + c[Len(c)].size
<1>1. PICK f : IsUsed(f, b)
  BY UsedDefined
<1>2. PICK g : IsUsed(g, c)
  BY UsedDefined
<1>3. PICK m \in Nat : m = Len(b) /\ m + 1 = Len(c)
  BY DEF Sized
<1>4. f[m] = g[m]
  <2>1. m <= Len(b) /\ m <= Len(c) /\ \A i \in 1..m : b[i].size = c[i].size
    BY <1>3
  <2> QED BY <1>1, <1>2, <2>1, UsedPrefix
<1>5. g[m + 1] = g[m] + HeaderSize + c[m + 1].size
  <2>1. m + 1 \in 1..Len(c) /\ (m + 1) - 1 = m
    BY <1>3
  <2> QED BY <1>2, <2>1 DEF IsUsed
<1>6. UsedSize(c) = g[m + 1] /\ UsedSize(b) = f[m]
  BY <1>1, <1>2, <1>3, UsedUnique
<1> QED BY <1>3, <1>4, <1>5, <1>6

LEMMA UsedLast ==
    ASSUME NEW b, NEW c, Sized(b), Sized(c), Len(c) = Len(b), Len(b) > 0,
           \A i \in 1..Len(b) - 1 : b[i].size = c[i].size
    PROVE  UsedSize(c) = UsedSize(b) - b[Len(b)].size + c[Len(c)].size
<1>1. PICK f : IsUsed(f, b)
  BY UsedDefined
<1>2. PICK g : IsUsed(g, c)
  BY UsedDefined
<1>3. PICK m \in Nat : m + 1 = Len(b) /\ m + 1 = Len(c)
  <2>1. Len(b) - 1 \in Nat
    BY DEF Sized
  <2> QED BY <2>1
<1>4. f[m] = g[m]
  <2>1. m <= Len(b) /\ m <= Len(c) /\ \A i \in 1..m : b[i].size = c[i].size
    BY <1>3
  <2> QED BY <1>1, <1>2, <2>1, UsedPrefix
<1>5. f[m + 1] = f[m] + HeaderSize + b[m + 1].size /\ g[m + 1] = g[m] + HeaderSize + c[m + 1].size
  <2>1. m + 1 \in 1..Len(b) /\ m + 1 \in 1..Len(c) /\ (m + 1) - 1 = m
    BY <1>3
  <2> QED BY <1>1, <1>2, <2>1 DEF IsUsed
<1>6. UsedSize(c) = g[m + 1] /\ UsedSize(b) = f[m + 1]
  BY <1>1, <1>2, <1>3, UsedUnique
<1>7. f[m] \in Nat /\ b[m + 1].size \in Nat /\ c[m + 1].size \in Nat /\ HeaderSize \in Nat
  BY <1>1, <1>3 DEF IsUsed, Sized, HeaderSize
<1> QED BY <1>3, <1>4, <1>5, <1>6, <1>7

LEMMA UsedEmpty == UsedSize(<<>>) = FlagSize
<1>1. Sized(<<>>) /\ Len(<<>>) = 0
  BY DEF Sized
<1>2. PICK f : IsUsed(f, <<>>)
  BY <1>1, UsedDefined
<1> QED BY <1>1, <1>2, UsedUnique DEF IsUsed

LEMMA UsedAppend ==
    ASSUME NEW blocks \in Seq(Block), NEW b \in Block
    PROVE  UsedSize(Append(blocks, b)) = UsedSize(blocks) + HeaderSize + b.size
<1> DEFINE c == Append(blocks, b)
<1>1. c \in Seq(Block) /\ Len(c) = Len(blocks) + 1 /\ c[Len(c)] = b
          /\ \A i \in 1..Len(blocks) : c[i] = blocks[i]
  BY AppendProperties
<1>2. Sized(c) /\ Sized(blocks)
  BY <1>1, BlocksAreSized
<1> HIDE DEF c
<1>3. UsedSize(c) = UsedSize(blocks) + HeaderSize + c[Len(c)].size
  BY <1>1, <1>2, UsedGrows
<1> QED BY <1>1, <1>3 DEF c

----------------------------------------------------------------------------
(* What a swap writes takes no more than what it reads.                    *)

LEMMA CopyKeepsSize ==
    ASSUME NEW b \in Block
    PROVE  CopyBlock(b) \in Block /\ CopyBlock(b).size = b.size
BY DEF CopyBlock, Block

\* The scan of Swapped as a function.
LEMMA SwappedIsChosen ==
    ASSUME NEW blocks
    PROVE  Swapped(blocks) =
               (CHOOSE f : f = [i \in 0..Len(blocks) |->
                                  IF i = 0 THEN <<>>
                                  ELSE IF Survives(blocks, i)
                                       THEN Append(f[i - 1], CopyBlock(blocks[i]))
                                       ELSE f[i - 1]])[Len(blocks)]
BY DEF Swapped, Scan

IsCopied(f, blocks) ==
    /\ f[0] = <<>>
    /\ \A i \in 1..Len(blocks) :
           f[i] = IF Survives(blocks, i) THEN Append(f[i - 1], CopyBlock(blocks[i]))
                  ELSE f[i - 1]

LEMMA SwappedLoop ==
    ASSUME NEW blocks \in Seq(Block)
    PROVE  \E f : /\ IsCopied(f, blocks)
                  /\ \A i \in 0..Len(blocks) : f[i] \in Seq(Block)
                  /\ Swapped(blocks) = f[Len(blocks)]
<1>1. PICK k \in Nat : k = Len(blocks)
  BY LenProperties
<1>2. \A i \in 1..k : CopyBlock(blocks[i]) \in Block
  BY <1>1, ElementOfSeq, CopyKeepsSize
<1> DEFINE Copied(y, i) == IF Survives(blocks, i) THEN Append(y, CopyBlock(blocks[i])) ELSE y
           g == [p \in Seq(Block) \X (1..k) |-> Copied(p[1], p[2])]
<1>3. \A y \in Seq(Block), i \in 1..k : g[<<y, i>>] = Copied(y, i)
  OBVIOUS
<1>4. \A y \in Seq(Block), i \in 1..k : Copied(y, i) \in Seq(Block)
  BY <1>2, AppendProperties
<1> HIDE DEF g, Copied
<1>5. PICK f : IsLoop(f, k, <<>>, g)
  BY LoopDefined
<1>6. f[0] = <<>> /\ \A i \in 1..k : f[i] = g[<<f[i - 1], i>>]
  <2>1. 0 \in 0..k /\ \A i \in 1..k : i \in 0..k /\ i # 0
    OBVIOUS
  <2> QED BY <1>5, <2>1 DEF IsLoop
<1> DEFINE S == Seq(Block)
           T == {i \in 0..k : f[i] \in S}
<1>7. \A i \in 0..k : i \in T
  <2>1. 0 \in T
    <3>1. <<>> \in Seq(Block)
      BY EmptySeq
    <3>2. f[0] \in S
      BY <1>6, <3>1
    <3> HIDE DEF S
    <3> QED BY <3>2
  <2>2. \A i \in 1..k : i - 1 \in T => i \in T
    <3>1. ASSUME NEW i \in 1..k, f[i - 1] \in S PROVE f[i] \in S
      BY <1>3, <1>4, <1>6, <3>1
    <3> HIDE DEF S
    <3> QED BY <3>1
  <2> HIDE DEF T
  <2> QED BY <2>1, <2>2, Induction
<1> HIDE DEF T
<1>8. \A i \in 0..k : f[i] \in Seq(Block)
  <2>1. \A i \in 0..k : f[i] \in S
    <3> HIDE DEF S
    <3> QED BY <1>7 DEF T
  <2> QED BY <2>1
<1> HIDE DEF S
<1>9. \A i \in 1..k : f[i] = Copied(f[i - 1], i)
  <2> SUFFICES ASSUME NEW i \in 1..k PROVE f[i] = Copied(f[i - 1], i)
    OBVIOUS
  <2>1. i - 1 \in 0..k
    OBVIOUS
  <2>2. f[i - 1] \in Seq(Block)
    BY <1>8, <2>1
  <2> QED BY <1>3, <1>6, <2>2
<1>10. f = [i \in 0..k |-> IF i = 0 THEN <<>> ELSE Copied(f[i - 1], i)]
  <2>1. \A i \in 0..k : (IF i = 0 THEN <<>> ELSE g[<<f[i - 1], i>>])
                          = IF i = 0 THEN <<>> ELSE Copied(f[i - 1], i)
    BY <1>6, <1>9
  <2> QED BY <1>5, <2>1 DEF IsLoop
<1>11. PICK a : /\ a = [i \in 0..k |->
                          IF i = 0 THEN <<>>
                          ELSE IF Survives(blocks, i)
                               THEN Append(a[i - 1], CopyBlock(blocks[i]))
                               ELSE a[i - 1]]
                /\ Swapped(blocks) = a[k]
  <2>1. f = [i \in 0..k |-> IF i = 0 THEN <<>>
                            ELSE IF Survives(blocks, i)
                                 THEN Append(f[i - 1], CopyBlock(blocks[i]))
                                 ELSE f[i - 1]]
    BY <1>10 DEF Copied
  <2> DEFINE Chosen(a) == a = [i \in 0..k |-> IF i = 0 THEN <<>>
                                             ELSE IF Survives(blocks, i)
                                                  THEN Append(a[i - 1], CopyBlock(blocks[i]))
                                                  ELSE a[i - 1]]
  <2>2. Swapped(blocks) = (CHOOSE a : Chosen(a))[k]
    BY <1>1, SwappedIsChosen, Zenon
  <2>3. Chosen(f)
    BY <2>1
  <2> HIDE DEF Chosen
  <2>4. \E a : Chosen(a) /\ Swapped(blocks) = a[k]
    BY <2>2, <2>3, Zenon
  <2> QED BY <2>4, Zenon DEF Chosen
<1>12. a[0] = <<>> /\ \A i \in 1..k : a[i] = Copied(a[i - 1], i)
  <2>1. 0 \in 0..k /\ \A i \in 1..k : i \in 0..k /\ i # 0
    OBVIOUS
  <2>2. a[0] = <<>>
    BY <1>11, <2>1
  <2>3. ASSUME NEW i \in 1..k PROVE a[i] = Copied(a[i - 1], i)
    BY <1>11, <2>1, Zenon DEF Copied
  <2> QED BY <2>2, <2>3
<1>13. \A i \in 1..k : a[i - 1] = f[i - 1] => a[i] = f[i]
  BY <1>9, <1>12
<1>14. \A i \in 0..k : a[i] = f[i]
  <2>1. Alike(a, f, k)
    BY <1>6, <1>12, <1>13 DEF Alike
  <2> QED BY <2>1, SameLoop
<1>15. IsCopied(f, blocks)
  BY <1>1, <1>6, <1>9 DEF IsCopied, Copied
<1>16. Swapped(blocks) = f[k]
  BY <1>11, <1>14
<1> QED BY <1>1, <1>8, <1>15, <1>16

LEMMA SwapFits ==
    ASSUME NEW blocks \in Seq(Block)
    PROVE  Swapped(blocks) \in Seq(Block) /\ UsedSize(Swapped(blocks)) <= UsedSize(blocks)
<1>1. PICK k \in Nat : k = Len(blocks)
  BY LenProperties
<1>2. Sized(blocks) /\ \A i \in 1..k : blocks[i] \in Block
  BY <1>1, BlocksAreSized, ElementOfSeq
<1>3. PICK used : IsUsed(used, blocks)
  BY <1>2, UsedDefined
<1>4. PICK f : /\ IsCopied(f, blocks)
               /\ \A i \in 0..k : f[i] \in Seq(Block)
               /\ Swapped(blocks) = f[k]
  BY <1>1, SwappedLoop
<1> DEFINE Fits(i) == UsedSize(f[i]) <= used[i]
           T == {i \in 0..k : Fits(i)}
<1>5. 0 \in T
  BY <1>3, <1>4, UsedEmpty DEF IsCopied, IsUsed, FlagSize
<1>6. ASSUME NEW i \in 1..k, UsedSize(f[i - 1]) <= used[i - 1]
      PROVE  UsedSize(f[i]) <= used[i]
  <2>1. i - 1 \in 0..k /\ i \in 0..k
    OBVIOUS
  <2>2. f[i - 1] \in Seq(Block) /\ blocks[i] \in Block
    BY <1>2, <1>4, <2>1
  <2>3. UsedSize(f[i - 1]) \in Nat /\ blocks[i].size \in Nat /\ HeaderSize \in Nat
    BY <2>2, BlocksAreSized, UsedIsNat DEF Block, HeaderSize
  <2>4. used[i - 1] \in Nat /\ used[i] = used[i - 1] + HeaderSize + blocks[i].size
    BY <1>1, <1>3, <2>1 DEF IsUsed
  <2>5. CASE Survives(blocks, i)
    <3>1. f[i] = Append(f[i - 1], CopyBlock(blocks[i]))
      BY <1>1, <1>4, <2>5 DEF IsCopied
    <3>2. UsedSize(f[i]) = UsedSize(f[i - 1]) + HeaderSize + blocks[i].size
      BY <2>2, <3>1, CopyKeepsSize, UsedAppend
    <3> QED BY <1>6, <2>3, <2>4, <3>2
  <2>6. CASE ~Survives(blocks, i)
    <3>1. f[i] = f[i - 1]
      BY <1>1, <1>4, <2>6 DEF IsCopied
    <3> QED BY <1>6, <2>3, <2>4, <3>1
  <2> QED BY <2>5, <2>6
<1>7. \A i \in 1..k : i - 1 \in T => i \in T
  <2> SUFFICES ASSUME NEW i \in 1..k, i - 1 \in T PROVE i \in T
    OBVIOUS
  <2>1. i - 1 \in 0..k /\ i \in 0..k /\ Fits(i - 1)
    OBVIOUS
  <2>2. Fits(i)
    BY <1>6, <2>1
  <2> HIDE DEF Fits
  <2> QED BY <2>1, <2>2
<1> HIDE DEF T
<1>8. k \in T
  <2>1. \A i \in 0..k : i \in T
    BY <1>5, <1>7, Induction
  <2> QED BY <2>1
<1>9. UsedSize(f[k]) <= used[k]
  BY <1>8 DEF T
<1>10. UsedSize(blocks) = used[k] /\ f[k] \in Seq(Block)
  BY <1>1, <1>2, <1>3, <1>4, UsedUnique
<1> QED BY <1>4, <1>9, <1>10

----------------------------------------------------------------------------
(* Every write fits into its area.                                         *)

LEMMA AlignedLength ==
    /\ getAlignLength(UnsetLength) = 0
    /\ \A v \in Val : getAlignLength(Length[v]) \in Nat
<1>1. getAlignLength(UnsetLength) = 0
  BY DEF getAlignLength, UnsetLength
<1>2. \A n \in 0..511 : getAlignLength(n) \in Nat
  BY DEF getAlignLength
<1>3. \A v \in Val : Length[v] \in 0..511
  BY SettingsAssumption DEF SettingsAssumption
<1> QED BY <1>1, <1>2, <1>3

\* The last block of an area is replaced.
LEMMA LastReplaced ==
    ASSUME NEW blocks \in Seq(Block), blocks # <<>>, NEW b \in Block
    PROVE  LET c == [blocks EXCEPT ![Len(blocks)] = b] IN
           /\ c \in Seq(Block) /\ c # <<>>
           /\ UsedSize(c) = UsedSize(blocks) - Last(blocks).size + b.size
<1> DEFINE c == [blocks EXCEPT ![Len(blocks)] = b]
<1>1. Len(blocks) \in Nat /\ Len(blocks) > 0
  BY EmptySeq, LenProperties
<1>2. Len(blocks) \in 1..Len(blocks)
  BY <1>1
<1>3. c \in Seq(Block) /\ Len(c) = Len(blocks)
  BY <1>2, ExceptSeq
<1>4. c[Len(blocks)] = b /\ \A i \in 1..Len(blocks) - 1 : c[i] = blocks[i]
  BY <1>1, <1>2, ExceptSeq
<1> HIDE DEF c
<1>5. Sized(blocks) /\ Sized(c)
  BY <1>3, BlocksAreSized
<1>6. UsedSize(c) = UsedSize(blocks) - blocks[Len(blocks)].size + c[Len(c)].size
  BY <1>1, <1>3, <1>4, <1>5, UsedLast
<1>7. c # <<>>
  BY <1>1, <1>3
<1> QED BY <1>3, <1>4, <1>6, <1>7 DEF c, Last

\* A flag of some block is cleared.
LEMMA FlagCleared ==
    ASSUME NEW blocks \in Seq(Block), NEW at, NEW c,
           c = [blocks EXCEPT ![at].deleted = TRUE] \/ c = [blocks EXCEPT ![at].index0 = TRUE]
    PROVE  c \in Seq(Block) /\ UsedSize(c) = UsedSize(blocks)
<1>1. Len(blocks) \in Nat /\ DOMAIN blocks = 1..Len(blocks)
  BY LenProperties
<1>2. \A i \in 1..Len(blocks) : blocks[i] \in Block
  BY ElementOfSeq
<1>3. c = [i \in 1..Len(blocks) |-> c[i]]
  BY <1>1
<1>4. \A i \in 1..Len(blocks) : c[i] \in Block /\ c[i].size = blocks[i].size
  <2> SUFFICES ASSUME NEW i \in 1..Len(blocks)
               PROVE  c[i] \in Block /\ c[i].size = blocks[i].size
    OBVIOUS
  <2>1. \/ c[i] = blocks[i]
        \/ c[i] = [blocks[i] EXCEPT !.deleted = TRUE]
        \/ c[i] = [blocks[i] EXCEPT !.index0 = TRUE]
    BY <1>1
  <2>2. blocks[i] \in Block
    BY <1>2
  <2> QED BY <2>1, <2>2 DEF Block
<1>5. c \in Seq(Block) /\ Len(c) = Len(blocks)
  BY <1>1, <1>3, <1>4
<1> QED BY <1>4, <1>5, BlocksAreSized, UsedSame

\* The room for what is still to be written of a block.
RoomAhead ==
    LET blocks == area[base].blocks
        n == getAlignLength(Length[block.val])
    IN
    /\ pc = "key" => UsedSize(blocks) + HeaderSize + n <= SettingsSize
    /\ pc = "length" => /\ blocks # <<>> /\ Last(blocks).size = 0
                        /\ UsedSize(blocks) + n <= SettingsSize
    /\ pc \in {"data", "complete"} => blocks # <<>>

FitsInv ==
    /\ \A a \in Area : area[a].blocks \in Seq(Block) /\ UsedSize(area[a].blocks) <= SettingsSize
    /\ pc \in Writing => block \in [key : Key, val : Val, index0 : BOOLEAN]
    /\ RoomAhead

\* The three ways to change the flash, and what they do to the blocks.
LEMMA BlocksAfterWrite ==
    ASSUME Flash, NEW a \in Area, NEW blocks, Write(a, blocks)
    PROVE  area'[a].blocks = blocks /\ \A b \in Area \ {a} : area'[b].blocks = area[b].blocks
BY DEF Flash, Write

LEMMA BlocksAfterSetFlag ==
    ASSUME Flash, NEW a \in Area, NEW flag, SetFlag(a, flag)
    PROVE  \A b \in Area : area'[b].blocks = area[b].blocks
BY DEF Flash, SetFlag

LEMMA BlocksAfterErase ==
    ASSUME Flash, NEW a \in Area, Erase(a)
    PROVE  area'[a].blocks = <<>> /\ \A b \in Area \ {a} : area'[b].blocks = area[b].blocks
BY DEF Flash, Erase, ErasedArea

LEMMA FitsStep ==
    ASSUME RecoverableInv, FitsInv, [Next]_vars
    PROVE  FitsInv'
<1>1. Flash /\ base \in Area /\ Other(base) \in Area /\ Other(base) # base
  BY TwoAreas DEF RecoverableInv, Flash
<1>2. \A a \in Area : /\ area[a].blocks \in Seq(Block)
                      /\ UsedSize(area[a].blocks) \in Nat
                      /\ UsedSize(area[a].blocks) <= SettingsSize
  BY BlocksAreSized, UsedIsNat DEF FitsInv
<1>3. /\ <<>> \in Seq(Block) /\ UsedSize(<<>>) <= SettingsSize
      /\ SettingsSize \in Nat /\ HeaderSize \in Nat
  BY EmptySeq, UsedEmpty, SettingsAssumption DEF SettingsAssumption, FlagSize, HeaderSize
<1>4. ASSUME NEW k \in Key, NEW v \in Val, caUtilSettingsSet(k, v) \/ caUtilSettingsAdd(k, v)
      PROVE  FitsInv'
  <2>1. PICK index0 \in BOOLEAN : Put(k, v, index0)
    BY <1>4 DEF caUtilSettingsSet, caUtilSettingsAdd
  <2>2. /\ area' = area /\ base' = base /\ pc' \in {"key", "swap"}
        /\ block' = [key |-> k, val |-> v, index0 |-> index0]
        /\ pc' = "key" => Room(Length[v])
    BY <2>1 DEF Put
  <2>3. pc' = "key" => UsedSize(area[base].blocks) + HeaderSize + getAlignLength(Length[v]) <= SettingsSize
    BY <1>1, <1>2, <1>3, <2>2, AlignedLength DEF Room
  <2> QED
    BY <2>2, <2>3 DEF FitsInv, RoomAhead
<1>5. CASE PutKey
  <2> DEFINE b == [key |-> block.key, index0 |-> block.index0, complete |-> FALSE,
                   deleted |-> FALSE, size |-> getAlignLength(UnsetLength), val |-> Lost]
             blocks == area[base].blocks
  <2>1. pc = "key" /\ pc' = "length" /\ base' = base /\ block' = block /\ Write(base, Append(blocks, b))
    BY <1>5 DEF PutKey, Go
  <2>2. block \in [key : Key, val : Val, index0 : BOOLEAN]
    BY <2>1 DEF FitsInv, Writing
  <2>3. b \in Block /\ b.size = 0
    BY <2>2, AlignedLength DEF Block
  <2>4. blocks \in Seq(Block)
    BY <1>1, <1>2
  <2> HIDE DEF b, blocks
  <2>5. /\ Append(blocks, b) \in Seq(Block) /\ Append(blocks, b) # <<>>
        /\ Last(Append(blocks, b)) = b
    BY <2>3, <2>4, AppendProperties DEF Last
  <2>6. UsedSize(Append(blocks, b)) = UsedSize(blocks) + HeaderSize
    BY <1>2, <1>3, <2>3, <2>4, UsedAppend, BlocksAreSized, UsedIsNat
  <2>7. UsedSize(blocks) + HeaderSize + getAlignLength(Length[block.val]) <= SettingsSize
    BY <2>1 DEF FitsInv, RoomAhead, blocks
  <2>8. UsedSize(Append(blocks, b)) + getAlignLength(Length[block.val]) <= SettingsSize
    BY <2>6, <2>7
  <2>9. UsedSize(Append(blocks, b)) <= SettingsSize
    <3>1. getAlignLength(Length[block.val]) \in Nat
      BY <2>2, AlignedLength
    <3>2. UsedSize(Append(blocks, b)) \in Nat
      BY <2>5, BlocksAreSized, UsedIsNat
    <3> QED BY <1>3, <2>8, <3>1, <3>2
  <2>10. area'[base].blocks = Append(blocks, b) /\ \A a \in Area \ {base} : area'[a].blocks = area[a].blocks
    BY <1>1, <2>1, BlocksAfterWrite
  <2>11. \A a \in Area : area'[a].blocks \in Seq(Block) /\ UsedSize(area'[a].blocks) <= SettingsSize
    BY <1>2, <2>5, <2>9, <2>10
  <2> QED
    BY <2>1, <2>2, <2>3, <2>5, <2>8, <2>10, <2>11 DEF FitsInv, RoomAhead
<1>6. ASSUME pc \in {"length", "data", "complete"}, NEW b \in Block,
             ChangeLast(base, b), base' = base, block' = block,
             pc' \in {"data", "complete", "idle"},
             IF pc = "length" THEN b.size = getAlignLength(Length[block.val])
                              ELSE b.size = LastBlock.size
      PROVE  FitsInv'
  <2> DEFINE blocks == area[base].blocks
             c == [blocks EXCEPT ![Len(blocks)] = b]
  <2>1. blocks \in Seq(Block) /\ blocks # <<>>
    BY <1>1, <1>2, <1>6 DEF FitsInv, RoomAhead
  <2>2. area'[base].blocks = c /\ \A a \in Area \ {base} : area'[a].blocks = area[a].blocks
    BY <1>1, <1>6, BlocksAfterWrite DEF ChangeLast
  <2>3. c \in Seq(Block) /\ c # <<>> /\ UsedSize(c) = UsedSize(blocks) - LastBlock.size + b.size
    BY <2>1, LastReplaced DEF LastBlock
  <2>4. UsedSize(c) <= SettingsSize
    <3>1. UsedSize(blocks) \in Nat /\ UsedSize(blocks) <= SettingsSize
      BY <1>1, <1>2
    <3>2. block.val \in Val /\ getAlignLength(Length[block.val]) \in Nat
      BY <1>6, AlignedLength DEF FitsInv, Writing
    <3>3. CASE pc = "length"
      <4>1. LastBlock.size = 0 /\ UsedSize(blocks) + getAlignLength(Length[block.val]) <= SettingsSize
        BY <3>3 DEF FitsInv, RoomAhead, LastBlock
      <4> QED BY <1>6, <2>3, <3>1, <3>2, <3>3, <4>1
    <3>4. CASE pc # "length"
      <4>1. b.size = LastBlock.size /\ b.size \in Nat
        BY <1>6, <3>4 DEF Block
      <4> QED BY <2>3, <3>1, <4>1
    <3> QED BY <3>3, <3>4
  <2> HIDE DEF c
  <2>5. \A a \in Area : area'[a].blocks \in Seq(Block) /\ UsedSize(area'[a].blocks) <= SettingsSize
    BY <1>2, <2>2, <2>3, <2>4
  <2> QED
    BY <1>6, <2>2, <2>3, <2>5 DEF FitsInv, RoomAhead, Writing
<1>7. CASE PutLength \/ PutData \/ PutComplete
  <2>1. pc \in {"length", "data", "complete"} /\ base' = base /\ block' = block
    BY <1>7 DEF PutLength, PutData, PutComplete, Go
  <2>2. LastBlock \in Block
    <3>1. area[base].blocks \in Seq(Block) /\ area[base].blocks # <<>>
      BY <1>1, <1>2, <2>1 DEF FitsInv, RoomAhead
    <3>2. Len(area[base].blocks) \in 1..Len(area[base].blocks)
      BY <3>1, EmptySeq, LenProperties
    <3> QED BY <3>1, <3>2, ElementOfSeq DEF LastBlock, Last
  <2>3. block.val \in Val /\ getAlignLength(Length[block.val]) \in Nat
    BY <2>1, AlignedLength DEF FitsInv, Writing
  <2>4. CASE PutLength
    <3> DEFINE b == [LastBlock EXCEPT !.size = getAlignLength(Length[block.val])]
    <3>1. b \in Block /\ b.size = getAlignLength(Length[block.val])
      BY <2>2, <2>3 DEF Block
    <3>2. pc = "length" /\ pc' = "data" /\ ChangeLast(base, b)
      BY <2>4 DEF PutLength, Go
    <3> QED BY <1>6, <2>1, <3>1, <3>2
  <2>5. CASE PutData
    <3> DEFINE b == [LastBlock EXCEPT !.val = block.val]
    <3>1. b \in Block /\ b.size = LastBlock.size
      BY <2>2, <2>3 DEF Block
    <3>2. pc = "data" /\ pc' = "complete" /\ ChangeLast(base, b)
      BY <2>5 DEF PutData, Go
    <3> QED BY <1>6, <2>1, <3>1, <3>2
  <2>6. CASE PutComplete
    <3> DEFINE b == [LastBlock EXCEPT !.complete = TRUE]
    <3>1. b \in Block /\ b.size = LastBlock.size
      BY <2>2 DEF Block
    <3>2. pc = "complete" /\ pc' = "idle" /\ ChangeLast(base, b)
      BY <2>6 DEF PutComplete, Go
    <3> QED BY <1>6, <2>1, <3>1, <3>2
  <2> QED BY <1>7, <2>4, <2>5, <2>6
<1>8. ASSUME \A a \in Area : area'[a].blocks \in Seq(Block) /\ UsedSize(area'[a].blocks) <= SettingsSize,
             pc' \notin {"key", "length", "data", "complete"},
             pc' \in Writing => pc \in Writing /\ block' = block
      PROVE  FitsInv'
  BY <1>8 DEF FitsInv, RoomAhead
<1>9. CASE SwapErase
  <2>1. area'[Other(base)].blocks = <<>> /\ \A a \in Area \ {Other(base)} : area'[a].blocks = area[a].blocks
    BY <1>1, <1>9, BlocksAfterErase DEF SwapErase
  <2>2. \A a \in Area : area'[a].blocks \in Seq(Block) /\ UsedSize(area'[a].blocks) <= SettingsSize
    BY <1>2, <1>3, <2>1
  <2>3. pc' = "stamp_swap" /\ pc \in Writing /\ block' = block
    BY <1>9 DEF SwapErase, Go, Writing
  <2> QED BY <1>8, <2>2, <2>3
<1>10. CASE SwapStamp \/ SwapUse
  <2>1. \A a \in Area : area'[a].blocks = area[a].blocks
    BY <1>1, <1>10, BlocksAfterSetFlag DEF SwapStamp, SwapUse
  <2>2. pc' \in {"copy", "retire"} /\ pc \in Writing /\ block' = block
    BY <1>10 DEF SwapStamp, SwapUse, Go, Writing
  <2> QED BY <1>2, <1>8, <2>1, <2>2
<1>11. CASE SwapCopy
  <2> DEFINE c == Swapped(area[Other(base)].blocks)
  <2>1. area'[base].blocks = c /\ \A a \in Area \ {base} : area'[a].blocks = area[a].blocks
    BY <1>1, <1>11, BlocksAfterWrite DEF SwapCopy
  <2>2. c \in Seq(Block) /\ UsedSize(c) <= UsedSize(area[Other(base)].blocks)
    BY <1>1, <1>2, SwapFits
  <2>3. UsedSize(c) \in Nat
    BY <2>2, BlocksAreSized, UsedIsNat
  <2> HIDE DEF c
  <2>4. UsedSize(c) <= SettingsSize
    <3>1. /\ UsedSize(area[Other(base)].blocks) \in Nat
          /\ UsedSize(area[Other(base)].blocks) <= SettingsSize
      BY <1>1, <1>2
    <3> QED BY <1>3, <2>2, <2>3, <3>1
  <2>5. \A a \in Area : area'[a].blocks \in Seq(Block) /\ UsedSize(area'[a].blocks) <= SettingsSize
    BY <1>2, <2>1, <2>2, <2>4
  <2>6. pc' = "use" /\ pc \in Writing /\ block' = block
    BY <1>11 DEF SwapCopy, Go, Writing
  <2> QED BY <1>8, <2>5, <2>6
<1>12. CASE SwapRetire
  <2>1. \A a \in Area : area'[a].blocks = area[a].blocks
    BY <1>1, <1>12, BlocksAfterSetFlag DEF SwapRetire
  <2>2. /\ pc \in Writing /\ block' = block /\ base' = base /\ pc' \in {"key", "idle"}
        /\ pc' = "key" => SettingsSize - UsedSize(area[base].blocks)
                              >= getAlignLength(Length[block.val]) + HeaderSize
    BY <1>12 DEF SwapRetire, Go, Writing
  <2>3. CASE pc' = "idle"
    BY <1>2, <1>8, <2>1, <2>3 DEF Writing
  <2>4. CASE pc' = "key"
    <3>1. block \in [key : Key, val : Val, index0 : BOOLEAN]
      BY <2>2 DEF FitsInv
    <3>2. getAlignLength(Length[block.val]) \in Nat /\ UsedSize(area[base].blocks) \in Nat
      BY <1>1, <1>2, <3>1, AlignedLength
    <3>3. UsedSize(area[base].blocks) + HeaderSize + getAlignLength(Length[block.val]) <= SettingsSize
      BY <1>3, <2>2, <2>4, <3>2
    <3> QED
      BY <1>1, <1>2, <2>1, <2>2, <2>4, <3>1, <3>3 DEF FitsInv, RoomAhead
  <2> QED BY <2>2, <2>3, <2>4
<1>13. CASE DeleteWrite
  <2>1. PICK at, c : /\ Write(base, c)
                     /\ \/ c = [area[base].blocks EXCEPT ![at].deleted = TRUE]
                        \/ c = [area[base].blocks EXCEPT ![at].index0 = TRUE]
    BY <1>13 DEF DeleteWrite
  <2>2. c \in Seq(Block) /\ UsedSize(c) = UsedSize(area[base].blocks)
    BY <1>1, <1>2, <2>1, FlagCleared
  <2>3. area'[base].blocks = c /\ \A a \in Area \ {base} : area'[a].blocks = area[a].blocks
    BY <1>1, <2>1, BlocksAfterWrite
  <2>4. \A a \in Area : area'[a].blocks \in Seq(Block) /\ UsedSize(area'[a].blocks) <= SettingsSize
    BY <1>1, <1>2, <2>2, <2>3
  <2>5. pc' \in {"idle", "delete"}
    BY <1>13 DEF DeleteWrite
  <2> QED BY <1>8, <2>4, <2>5 DEF Writing
<1>14. CASE Format
  <2>1. area'[base].blocks = <<>> /\ \A a \in Area \ {base} : area'[a].blocks = area[a].blocks
    BY <1>1, <1>14, BlocksAfterErase DEF Format
  <2>2. \A a \in Area : area'[a].blocks \in Seq(Block) /\ UsedSize(area'[a].blocks) <= SettingsSize
    BY <1>2, <1>3, <2>1
  <2>3. pc' = "stamp"
    BY <1>14 DEF Format, Go
  <2> QED BY <1>8, <2>2, <2>3 DEF Writing
<1>15. CASE FormatStamp
  <2>1. \A a \in Area : area'[a].blocks = area[a].blocks
    BY <1>1, <1>15, BlocksAfterSetFlag DEF FormatStamp
  <2>2. pc' = "off"
    BY <1>15 DEF FormatStamp, Go
  <2> QED BY <1>2, <1>8, <2>1, <2>2 DEF Writing
<1>16. CASE \/ \E k \in Key, index \in {-1, 0, 1} : caUtilSettingsDelete(k, index)
            \/ caUtilSettingsWipe \/ Boot \/ Crash
  <2>1. area' = area /\ pc' \in {"delete", "format", "idle", "off"}
    BY <1>16 DEF caUtilSettingsDelete, caUtilSettingsWipe, Boot, Crash, Go
  <2> QED BY <1>2, <1>8, <2>1 DEF Writing
<1>17. CASE UNCHANGED vars
  BY <1>17 DEF vars, FitsInv, RoomAhead
<1> QED
  BY <1>4, <1>5, <1>7, <1>9, <1>10, <1>11, <1>12, <1>13, <1>14, <1>15, <1>16, <1>17 DEF Next

LEMMA FitsInit == Init => RecoverableInv /\ FitsInv
<1>1. Init => RecoverableInv
  BY DEF Init, RecoverableInv, Flash, InOneArea, FormatsOnce, Pcs, Writing, Area, ErasedArea
<1>2. <<>> \in Seq(Block) /\ UsedSize(<<>>) <= SettingsSize
  BY EmptySeq, UsedEmpty, SettingsAssumption DEF SettingsAssumption, FlagSize
<1>3. Init => FitsInv
  <2>1. Init => pc = "off" /\ \A a \in Area : area[a].blocks = <<>>
    BY DEF Init, ErasedArea
  <2> QED BY <1>2, <2>1 DEF FitsInv, RoomAhead, Writing
<1> QED BY <1>1, <1>3

\* However the lengths of the values are chosen and wherever the power fails, no
\* write of a block runs over the end of its area, and what a swap copies always
\* fits into the other one.
THEOREM BlocksStayInTheirArea == Spec => []NeverOverflows
<1>1. Init => RecoverableInv /\ FitsInv
  BY FitsInit
<1>2. RecoverableInv /\ FitsInv /\ [Next]_vars => (RecoverableInv /\ FitsInv)'
  BY RecoverableStep, FitsStep
<1>3. FitsInv => NeverOverflows
  BY DEF FitsInv, NeverOverflows
<1> QED
  BY <1>1, <1>2, <1>3, PTL DEF Spec

----------------------------------------------------------------------------
(* What a scan of an area's blocks finds of a key.                         *)

\* a loop all of whose results are in X
LoopsIn(f, k, x, g, X) ==
    /\ IsLoop(f, k, x, g)
    /\ \A i \in 0..k : f[i] \in X
    /\ f[0] = x
    /\ \A i \in 1..k : f[i] = g[<<f[i - 1], i>>]

LEMMA LoopIn ==
    ASSUME NEW k \in Nat, NEW X, NEW x, x \in X, NEW g, g \in [X \X (1..k) -> X]
    PROVE  \E f : LoopsIn(f, k, x, g, X)
<1>1. PICK f : IsLoop(f, k, x, g)
  BY LoopDefined
<1>2. f[0] = x /\ \A i \in 1..k : f[i] = g[<<f[i - 1], i>>]
  <2>1. 0 \in 0..k /\ \A i \in 1..k : i \in 0..k /\ i # 0
    OBVIOUS
  <2> QED BY <1>1, <2>1 DEF IsLoop
<1> DEFINE T == {i \in 0..k : f[i] \in X}
<1>3. 0 \in T
  BY <1>2
<1>4. \A i \in 1..k : i - 1 \in T => i \in T
  <2> SUFFICES ASSUME NEW i \in 1..k, f[i - 1] \in X PROVE f[i] \in X
    OBVIOUS
  <2>1. <<f[i - 1], i>> \in X \X (1..k)
    OBVIOUS
  <2>2. g[<<f[i - 1], i>>] \in X
    BY <2>1
  <2> QED BY <1>2, <2>2
<1>5. \A i \in 0..k : i \in T
  <2> HIDE DEF T
  <2> QED BY <1>3, <1>4, Induction
<1> QED BY <1>1, <1>2, <1>5 DEF LoopsIn

Stores == Seq(Val \cup {Lost})

\* what block b makes of the values of k that were found before it
Found(list, b, k) ==
    IF b.key # k THEN list
    ELSE IF Live(b) THEN Append(IF b.index0 THEN <<>> ELSE list, b.val)
    ELSE IF b.index0 THEN <<>> ELSE list

LEMMA FoundTyped ==
    ASSUME NEW list \in Stores, NEW b \in Block, NEW k
    PROVE  Found(list, b, k) \in Stores
<1>1. <<>> \in Stores /\ b.val \in Val \cup {Lost}
  BY EmptySeq DEF Stores, Block
<1>2. \A s \in Stores : Append(s, b.val) \in Stores
  BY <1>1, AppendProperties DEF Stores
<1> QED BY <1>1, <1>2 DEF Found

\* the scan of Values as a function
IsFound(f, blocks, k) ==
    /\ f[0] = <<>>
    /\ \A i \in 1..Len(blocks) : f[i] = Found(f[i - 1], blocks[i], k)

LEMMA ValuesIsChosen ==
    ASSUME NEW blocks, NEW k
    PROVE  Values(blocks, k) =
               (CHOOSE f : f = [i \in 0..Len(blocks) |->
                   IF i = 0 THEN <<>>
                   ELSE IF blocks[i].key # k THEN f[i - 1]
                   ELSE IF Live(blocks[i])
                        THEN Append(IF blocks[i].index0 THEN <<>> ELSE f[i - 1], blocks[i].val)
                   ELSE IF blocks[i].index0 THEN <<>> ELSE f[i - 1]])[Len(blocks)]
BY DEF Values, Scan

LEMMA ValuesLoop ==
    ASSUME NEW blocks \in Seq(Block), NEW k
    PROVE  \E f : /\ IsFound(f, blocks, k)
                  /\ \A i \in 0..Len(blocks) : f[i] \in Stores
                  /\ Values(blocks, k) = f[Len(blocks)]
<1>1. PICK n \in Nat : n = Len(blocks)
  BY LenProperties
<1>2. \A i \in 1..n : blocks[i] \in Block
  BY <1>1, ElementOfSeq
<1> DEFINE g == [p \in Stores \X (1..n) |-> Found(p[1], blocks[p[2]], k)]
<1>3. \A y \in Stores, i \in 1..n : g[<<y, i>>] = Found(y, blocks[i], k)
  OBVIOUS
<1>4. g \in [Stores \X (1..n) -> Stores]
  BY <1>2, FoundTyped
<1>5. <<>> \in Stores
  BY EmptySeq DEF Stores
<1> HIDE DEF g
<1>6. PICK f : LoopsIn(f, n, <<>>, g, Stores)
  BY <1>4, <1>5, LoopIn
<1>7. f[0] = <<>> /\ \A i \in 0..n : f[i] \in Stores
  BY <1>6 DEF LoopsIn
<1>8. ASSUME NEW i \in 1..n PROVE f[i] = Found(f[i - 1], blocks[i], k)
  <2>1. i - 1 \in 0..n
    OBVIOUS
  <2>2. f[i - 1] \in Stores
    BY <1>7, <2>1
  <2> QED BY <1>3, <1>6, <2>2 DEF LoopsIn
<1> DEFINE Chosen(a) == a = [i \in 0..n |->
                   IF i = 0 THEN <<>>
                   ELSE IF blocks[i].key # k THEN a[i - 1]
                   ELSE IF Live(blocks[i])
                        THEN Append(IF blocks[i].index0 THEN <<>> ELSE a[i - 1], blocks[i].val)
                   ELSE IF blocks[i].index0 THEN <<>> ELSE a[i - 1]]
<1>9. f = [i \in 0..n |-> IF i = 0 THEN <<>> ELSE Found(f[i - 1], blocks[i], k)]
  <2>1. \A i \in 0..n : (IF i = 0 THEN <<>> ELSE g[<<f[i - 1], i>>])
                          = IF i = 0 THEN <<>> ELSE Found(f[i - 1], blocks[i], k)
    BY <1>6, <1>8 DEF LoopsIn
  <2> QED BY <1>6, <2>1 DEF LoopsIn, IsLoop
<1>10. Chosen(f)
  BY <1>9 DEF Found
<1>11. Values(blocks, k) = (CHOOSE a : Chosen(a))[n]
  BY <1>1, ValuesIsChosen, Zenon
<1>12. \A a : Chosen(a) => a[0] = <<>> /\ \A i \in 1..n : a[i] = Found(a[i - 1], blocks[i], k)
  <2> SUFFICES ASSUME NEW a, Chosen(a)
               PROVE  a[0] = <<>> /\ \A i \in 1..n : a[i] = Found(a[i - 1], blocks[i], k)
    OBVIOUS
  <2>1. 0 \in 0..n /\ \A i \in 1..n : i \in 0..n /\ i # 0
    OBVIOUS
  <2>2. a[0] = <<>>
    BY <2>1
  <2>3. ASSUME NEW i \in 1..n PROVE a[i] = Found(a[i - 1], blocks[i], k)
    BY <2>1, Zenon DEF Found
  <2> QED BY <2>2, <2>3
<1> HIDE DEF Chosen
<1>13. PICK a : Chosen(a) /\ Values(blocks, k) = a[n]
  BY <1>10, <1>11, Zenon
<1>14. Alike(a, f, n)
  BY <1>7, <1>8, <1>12, <1>13 DEF Alike
<1>15. \A i \in 0..n : a[i] = f[i]
  BY <1>14, SameLoop
<1>16. IsFound(f, blocks, k)
  BY <1>1, <1>7, <1>8 DEF IsFound
<1> QED BY <1>1, <1>7, <1>13, <1>15, <1>16

LEMMA ValuesGrow ==
    ASSUME NEW blocks \in Seq(Block), NEW b \in Block, NEW k
    PROVE  Values(Append(blocks, b), k) = Found(Values(blocks, k), b, k)
<1> DEFINE c == Append(blocks, b)
<1>1. PICK n \in Nat : n = Len(blocks)
  BY LenProperties
<1>2. c \in Seq(Block) /\ Len(c) = n + 1 /\ c[n + 1] = b /\ \A i \in 1..n : c[i] = blocks[i]
  BY <1>1, AppendProperties
<1> HIDE DEF c
<1>3. PICK f : IsFound(f, blocks, k) /\ Values(blocks, k) = f[n]
  BY <1>1, ValuesLoop
<1>4. PICK g : IsFound(g, c, k) /\ Values(c, k) = g[n + 1]
  BY <1>2, ValuesLoop
<1>5. Alike(f, g, n)
  <2>1. f[0] = g[0]
    BY <1>3, <1>4 DEF IsFound
  <2>2. ASSUME NEW i \in 1..n PROVE f[i - 1] = g[i - 1] => f[i] = g[i]
    <3>1. i \in 1..Len(blocks) /\ i \in 1..Len(c)
      BY <1>1, <1>2
    <3> QED BY <1>2, <1>3, <1>4, <3>1 DEF IsFound
  <2> QED BY <2>1, <2>2 DEF Alike
<1>6. f[n] = g[n]
  BY <1>5, SameLoop
<1>7. g[n + 1] = Found(g[n], b, k)
  <2>1. n + 1 \in 1..Len(c) /\ (n + 1) - 1 = n
    BY <1>2
  <2> QED BY <1>2, <1>4, <2>1 DEF IsFound
<1> QED BY <1>3, <1>4, <1>6, <1>7 DEF c

----------------------------------------------------------------------------
(* In an area in order nothing that was superseded can come back.          *)

\* Block i must not count any more because of block j behind it: j begins the
\* list of its key anew and is one that was added, or one that was deleted.
Superseded(blocks, i, j) ==
    /\ i < j /\ blocks[i].key = blocks[j].key /\ blocks[j].index0
    /\ blocks[j].key \in AddKeys \/ (blocks[j].complete /\ blocks[j].deleted)

Ordered(blocks) ==
    /\ \A i \in 1..Len(blocks) :
           /\ blocks[i].key \in SetKeys \cup AddKeys
           /\ blocks[i].key \in SetKeys => blocks[i].index0
           /\ blocks[i].complete => /\ blocks[i].val \in Val
                                    /\ blocks[i].size = getAlignLength(Length[blocks[i].val])
    /\ \A i, j \in 1..Len(blocks) : Superseded(blocks, i, j) => ~Live(blocks[i])

\* what the loop of a swap copies of every value: all of it
CopiesWhole ==
    \A v \in Val : CopiedBytes(getAlignLength(Length[v])) = HeaderSize + getAlignLength(Length[v])

LEMMA CopiedWhole ==
    ASSUME CopiesWhole, NEW blocks, Ordered(blocks), NEW i \in 1..Len(blocks), Live(blocks[i])
    PROVE  CopyBlock(blocks[i]) = blocks[i]
<1>1. blocks[i].val \in Val /\ blocks[i].size = getAlignLength(Length[blocks[i].val])
  BY DEF Ordered, Live
<1>2. CopiedBytes(blocks[i].size) = HeaderSize + blocks[i].size
  BY <1>1 DEF CopiesWhole
<1> QED BY <1>2 DEF CopyBlock

\* What the copy has after n blocks are blocks of the first n that survive, in
\* their order.
CopyOf(c, blocks, n) ==
    /\ \A x \in 1..Len(c) : \E i \in 1..n : c[x] = blocks[i] /\ Survives(blocks, i)
    /\ \A x, y \in 1..Len(c) :
           x < y => \E i, j \in 1..n : i < j /\ c[x] = blocks[i] /\ c[y] = blocks[j]
                                       /\ Survives(blocks, i) /\ Survives(blocks, j)

LEMMA SwappedCopies ==
    ASSUME CopiesWhole, NEW blocks \in Seq(Block), Ordered(blocks)
    PROVE  CopyOf(Swapped(blocks), blocks, Len(blocks))
<1>1. PICK k \in Nat : k = Len(blocks)
  BY LenProperties
<1>2. PICK f : /\ IsCopied(f, blocks)
               /\ \A i \in 0..k : f[i] \in Seq(Block)
               /\ Swapped(blocks) = f[k]
  BY <1>1, SwappedLoop
<1> DEFINE T == {n \in 0..k : CopyOf(f[n], blocks, n)}
<1>3. 0 \in T
  <2>1. f[0] = <<>> /\ 1..Len(<<>>) = {}
    BY <1>2 DEF IsCopied
  <2>2. CopyOf(f[0], blocks, 0)
    BY <2>1 DEF CopyOf
  <2> QED BY <2>2
<1>4. ASSUME NEW n \in 1..k, CopyOf(f[n - 1], blocks, n - 1) PROVE CopyOf(f[n], blocks, n)
  <2>1. n - 1 \in 0..k /\ n \in 1..Len(blocks) /\ \A i \in 1..n - 1 : i \in 1..n /\ i < n
    BY <1>1
  <2>2. CASE ~Survives(blocks, n)
    <3>1. f[n] = f[n - 1]
      BY <1>2, <2>1, <2>2 DEF IsCopied
    <3> QED BY <1>4, <2>1, <3>1 DEF CopyOf
  <2>3. CASE Survives(blocks, n)
    <3>1. CopyBlock(blocks[n]) = blocks[n]
      BY <2>1, <2>3, CopiedWhole DEF Survives
    <3>2. f[n] = Append(f[n - 1], blocks[n])
      BY <1>2, <2>1, <2>3, <3>1 DEF IsCopied
    <3>3. PICK c \in Seq(Block) : c = f[n - 1]
      BY <1>2, <2>1
    <3>4. blocks[n] \in Block
      BY <2>1, ElementOfSeq
    <3>5. PICK m \in Nat : m = Len(c)
      BY LenProperties
    <3>6. /\ Len(f[n]) = m + 1 /\ f[n][m + 1] = blocks[n]
          /\ \A x \in 1..m : f[n][x] = c[x]
      BY <3>2, <3>3, <3>4, <3>5, AppendProperties
    <3>7. /\ \A x \in 1..m : \E i \in 1..n - 1 : c[x] = blocks[i] /\ Survives(blocks, i)
          /\ \A x, y \in 1..m :
                 x < y => \E i, j \in 1..n - 1 : i < j /\ c[x] = blocks[i] /\ c[y] = blocks[j]
                                       /\ Survives(blocks, i) /\ Survives(blocks, j)
      <4>1. CopyOf(c, blocks, n - 1)
        BY <1>4, <3>3
      <4> QED BY <3>5, <4>1, Zenon DEF CopyOf
    <3>8. n \in 1..n
      OBVIOUS
    <3>9. ASSUME NEW x \in 1..m + 1
          PROVE  \E i \in 1..n : f[n][x] = blocks[i] /\ Survives(blocks, i)
      <4>1. CASE x = m + 1
        BY <2>3, <3>6, <3>8, <4>1
      <4>2. CASE x # m + 1
        <5>1. x \in 1..m
          BY <4>2
        <5> QED BY <2>1, <3>6, <3>7, <5>1
      <4> QED BY <4>1, <4>2
    <3>10. ASSUME NEW x \in 1..m + 1, NEW y \in 1..m + 1, x < y
           PROVE  \E i, j \in 1..n : i < j /\ f[n][x] = blocks[i] /\ f[n][y] = blocks[j]
                                     /\ Survives(blocks, i) /\ Survives(blocks, j)
      <4>1. x \in 1..m
        BY <3>10
      <4>2. CASE y = m + 1
        <5>1. PICK i \in 1..n - 1 : c[x] = blocks[i] /\ Survives(blocks, i)
          BY <3>7, <4>1
        <5> QED BY <2>1, <2>3, <3>6, <3>8, <4>1, <4>2, <5>1
      <4>3. CASE y # m + 1
        <5>1. y \in 1..m
          BY <4>3
        <5>2. PICK i \in 1..n - 1, j \in 1..n - 1 :
                  i < j /\ c[x] = blocks[i] /\ c[y] = blocks[j]
                        /\ Survives(blocks, i) /\ Survives(blocks, j)
          BY <3>7, <3>10, <4>1, <5>1
        <5> QED BY <2>1, <3>6, <4>1, <5>1, <5>2
      <4> QED BY <4>2, <4>3
    <3>11. Len(f[n]) = m + 1
      BY <3>6
    <3> QED BY <3>9, <3>10, <3>11, ZenonT(40) DEF CopyOf
  <2> QED BY <2>2, <2>3
<1>5. \A n \in 1..k : n - 1 \in T => n \in T
  BY <1>4
<1> HIDE DEF T
<1>6. \A n \in 0..k : n \in T
  BY <1>3, <1>5, Induction
<1>7. CopyOf(f[k], blocks, k)
  BY <1>6 DEF T
<1> QED BY <1>1, <1>2, <1>7

LEMMA SwappedOrdered ==
    ASSUME CopiesWhole, NEW blocks \in Seq(Block), Ordered(blocks)
    PROVE  /\ Ordered(Swapped(blocks))
           /\ \A k : (\A i \in 1..Len(blocks) : blocks[i].key = k => ~Live(blocks[i]))
                       => \A x \in 1..Len(Swapped(blocks)) : Swapped(blocks)[x].key # k
<1> DEFINE c == Swapped(blocks)
<1>1. CopyOf(c, blocks, Len(blocks))
  BY SwappedCopies
<1> HIDE DEF c
<1>2. \A x \in 1..Len(c) : \E i \in 1..Len(blocks) : c[x] = blocks[i] /\ Live(blocks[i])
  BY <1>1 DEF CopyOf, Survives
<1>3. ASSUME NEW x \in 1..Len(c), NEW y \in 1..Len(c), Superseded(c, x, y)
      PROVE  ~Live(c[x])
  <2>1. PICK i \in 1..Len(blocks), j \in 1..Len(blocks) :
            i < j /\ c[x] = blocks[i] /\ c[y] = blocks[j] /\ Live(blocks[i]) /\ Live(blocks[j])
    BY <1>1, <1>3 DEF CopyOf, Survives, Superseded
  <2>2. Superseded(blocks, i, j)
    BY <1>3, <2>1 DEF Superseded
  <2> QED BY <2>1, <2>2 DEF Ordered
<1>4. Ordered(c)
  BY <1>2, <1>3 DEF Ordered
<1> QED BY <1>2, <1>4 DEF c

\* block i is one that begins the list of k anew
Begins(blocks, i, k) == blocks[i].key = k /\ blocks[i].index0

LEMMA LastBegun ==
    ASSUME NEW n \in Nat, NEW blocks, NEW k
    PROVE  \E N \in 0..n : /\ N # 0 => Begins(blocks, N, k)
                           /\ \A j \in N + 1..n : ~Begins(blocks, j, k)
<1> DEFINE Good(N, m) == /\ N # 0 => Begins(blocks, N, k)
                         /\ \A j \in N + 1..m : ~Begins(blocks, j, k)
           T == {m \in 0..n : \E N \in 0..m : Good(N, m)}
<1>1. 0 \in T
  <2>1. 0 + 1..0 = {} /\ 0 \in 0..0 /\ 0 \in 0..n
    OBVIOUS
  <2>2. Good(0, 0)
    BY <2>1
  <2> QED BY <2>1, <2>2
<1>2. ASSUME NEW m \in 1..n, m - 1 \in T PROVE m \in T
  <2>1. PICK N \in 0..m - 1 : Good(N, m - 1)
    BY <1>2
  <2>2. CASE Begins(blocks, m, k)
    <3>1. m \in 0..m /\ m + 1..m = {}
      OBVIOUS
    <3>2. Good(m, m)
      BY <2>2, <3>1
    <3> QED BY <3>1, <3>2
  <2>3. CASE ~Begins(blocks, m, k)
    <3>1. N \in 0..m /\ \A j \in N + 1..m : j = m \/ j \in N + 1..m - 1
      OBVIOUS
    <3>2. Good(N, m)
      BY <2>1, <2>3, <3>1
    <3> QED BY <3>1, <3>2
  <2> QED BY <2>2, <2>3
<1> HIDE DEF T
<1>3. \A m \in 0..n : m \in T
  BY <1>1, <1>2, Induction
<1> QED BY <1>3 DEF T

LEMMA SwapKeeps ==
    ASSUME CopiesWhole, NEW blocks \in Seq(Block), Ordered(blocks), NEW k,
           \A i \in 1..Len(blocks) :
               Begins(blocks, i, k) /\ (\A j \in i + 1..Len(blocks) : ~Begins(blocks, j, k))
                   => blocks[i].complete \/ k \in AddKeys
    PROVE  Values(Swapped(blocks), k) = Values(blocks, k)
<1>1. PICK n \in Nat : n = Len(blocks)
  BY LenProperties
<1>2. \A i \in 1..n : blocks[i] \in Block
  BY <1>1, ElementOfSeq
<1>3. PICK f : /\ IsCopied(f, blocks)
               /\ \A i \in 0..n : f[i] \in Seq(Block)
               /\ Swapped(blocks) = f[n]
  BY <1>1, SwappedLoop
<1>4. PICK h : IsFound(h, blocks, k) /\ Values(blocks, k) = h[n]
  BY <1>1, ValuesLoop
<1>5. PICK N \in 0..n : /\ N # 0 => Begins(blocks, N, k)
                        /\ \A j \in N + 1..n : ~Begins(blocks, j, k)
  BY LastBegun
<1>6. ASSUME NEW m \in 1..n
      PROVE  /\ h[m] = Found(h[m - 1], blocks[m], k)
             /\ Values(f[m], k) = IF Survives(blocks, m) THEN Found(Values(f[m - 1], k), blocks[m], k)
                                  ELSE Values(f[m - 1], k)
  <2>1. m \in 1..Len(blocks) /\ m - 1 \in 0..n
    BY <1>1
  <2>2. h[m] = Found(h[m - 1], blocks[m], k)
    BY <1>4, <2>1 DEF IsFound
  <2>3. CASE Survives(blocks, m)
    <3>1. CopyBlock(blocks[m]) = blocks[m]
      BY <2>1, <2>3, CopiedWhole DEF Survives
    <3>2. f[m] = Append(f[m - 1], blocks[m])
      BY <1>3, <2>1, <2>3, <3>1 DEF IsCopied
    <3>3. f[m - 1] \in Seq(Block) /\ blocks[m] \in Block
      BY <1>2, <1>3, <2>1
    <3>4. Values(f[m], k) = Found(Values(f[m - 1], k), blocks[m], k)
      BY <3>2, <3>3, ValuesGrow
    <3> QED BY <2>2, <2>3, <3>4
  <2>4. CASE ~Survives(blocks, m)
    <3>1. f[m] = f[m - 1]
      BY <1>3, <2>1, <2>4 DEF IsCopied
    <3> QED BY <2>2, <2>4, <3>1
  <2> QED BY <2>3, <2>4
<1>7. Values(f[0], k) = <<>> /\ h[0] = <<>>
  <2>1. f[0] = <<>> /\ h[0] = <<>>
    BY <1>3, <1>4 DEF IsCopied, IsFound
  <2>2. <<>> \in Seq(Block) /\ Len(<<>>) = 0
    BY EmptySeq
  <2>3. PICK g : IsFound(g, <<>>, k) /\ Values(<<>>, k) = g[0]
    BY <2>2, ValuesLoop
  <2> QED BY <2>1, <2>3 DEF IsFound
<1> DEFINE Same(m) == IF m < N THEN ~Live(blocks[N]) => Values(f[m], k) = <<>>
                      ELSE Values(f[m], k) = h[m]
           T == {m \in 0..n : Same(m)}
<1>8. 0 \in T
  BY <1>7
<1>9. ASSUME NEW m \in 1..n, Same(m - 1) PROVE Same(m)
  <2>1. m \in 1..Len(blocks)
    BY <1>1
  <2>2. CASE blocks[m].key # k
    <3>1. m # N
      BY <1>5, <2>2 DEF Begins
    <3>2. m - 1 < N <=> m < N
      BY <3>1
    <3>3. Values(f[m], k) = Values(f[m - 1], k) /\ h[m] = h[m - 1]
      BY <1>6, <2>2 DEF Found
    <3> QED BY <1>9, <3>2, <3>3
  <2>3. CASE blocks[m].key = k /\ m < N
    <3> SUFFICES ASSUME ~Live(blocks[N]) PROVE Values(f[m], k) = <<>>
      BY <2>3
    <3>1. N \in 1..Len(blocks) /\ Begins(blocks, N, k)
      BY <1>1, <1>5, <2>3
    <3>2. \A j \in N + 1..Len(blocks) : ~Begins(blocks, j, k)
      BY <1>1, <1>5
    <3>3. blocks[N].complete \/ k \in AddKeys
      BY <3>1, <3>2
    <3>4. blocks[N].complete => blocks[N].deleted
      BY DEF Live
    <3>5. Superseded(blocks, m, N)
      BY <2>3, <3>1, <3>3, <3>4 DEF Superseded, Begins
    <3>6. ~Survives(blocks, m)
      BY <2>1, <3>1, <3>5 DEF Ordered, Survives
    <3> QED BY <1>6, <1>9, <2>3, <3>6
  <2>4. CASE blocks[m].key = k /\ m = N
    <3>1. Begins(blocks, m, k)
      BY <1>5, <2>4
    <3>2. CASE Live(blocks[m])
      <4>1. Survives(blocks, m)
        <5>1. \A j \in 1..n : j > m => j \in N + 1..n
          BY <2>4
        <5> QED BY <1>1, <1>5, <2>4, <3>2, <5>1 DEF Survives, Begins
      <4>2. Values(f[m], k) = Append(<<>>, blocks[m].val) /\ h[m] = Append(<<>>, blocks[m].val)
        BY <1>6, <2>4, <3>1, <3>2, <4>1 DEF Found, Begins
      <4> QED BY <2>4, <4>2
    <3>3. CASE ~Live(blocks[m])
      <4>1. Values(f[m], k) = Values(f[m - 1], k)
        BY <1>6, <3>3 DEF Survives
      <4>2. h[m] = <<>>
        BY <1>6, <2>4, <3>1, <3>3 DEF Found, Begins
      <4>3. Values(f[m - 1], k) = <<>>
        BY <1>9, <2>4, <3>3
      <4> QED BY <2>4, <4>1, <4>2, <4>3
    <3> QED BY <3>2, <3>3
  <2>5. CASE blocks[m].key = k /\ m > N
    <3>1. m \in N + 1..n
      BY <2>5
    <3>2. ~blocks[m].index0 /\ ~(m < N) /\ ~(m - 1 < N)
      BY <1>5, <2>5, <3>1 DEF Begins
    <3>3. Values(f[m - 1], k) = h[m - 1]
      BY <1>9, <3>2
    <3>4. CASE Live(blocks[m])
      <4>1. Survives(blocks, m)
        <5>1. \A j \in 1..n : j > m => j \in N + 1..n
          BY <2>5
        <5> QED BY <1>1, <1>5, <2>5, <3>4, <5>1 DEF Survives, Begins
      <4> QED BY <1>6, <3>2, <3>3, <4>1
    <3>5. CASE ~Live(blocks[m])
      <4>1. ~Survives(blocks, m)
        BY <3>5 DEF Survives
      <4>2. h[m] = h[m - 1]
        BY <1>6, <3>2, <3>5 DEF Found
      <4> QED BY <1>6, <3>2, <3>3, <4>1, <4>2
    <3> QED BY <3>4, <3>5
  <2> QED BY <2>2, <2>3, <2>4, <2>5
<1>10. \A m \in 1..n : m - 1 \in T => m \in T
  <2> SUFFICES ASSUME NEW m \in 1..n, m - 1 \in T PROVE m \in T
    OBVIOUS
  <2>1. m \in 0..n /\ Same(m - 1)
    OBVIOUS
  <2>2. Same(m)
    BY <1>9, <2>1
  <2> HIDE DEF Same
  <2> QED BY <2>1, <2>2
<1> HIDE DEF T
<1>11. \A m \in 0..n : m \in T
  BY <1>8, <1>10, Induction
<1>12. n \in 0..n /\ Same(n)
  BY <1>11 DEF T
<1>13. Values(f[n], k) = h[n]
  BY <1>12
<1> QED BY <1>3, <1>4, <1>13

\* A key whose list is empty has no block that counts, if it is one that is
\* added to.
LEMMA EmptyHasNoneLive ==
    ASSUME NEW blocks \in Seq(Block), Ordered(blocks), NEW k \in AddKeys, Values(blocks, k) = <<>>
    PROVE  \A i \in 1..Len(blocks) : blocks[i].key = k => ~Live(blocks[i])
<1> SUFFICES ASSUME NEW i \in 1..Len(blocks), blocks[i].key = k, Live(blocks[i])
             PROVE  FALSE
  OBVIOUS
<1>1. PICK n \in Nat : n = Len(blocks)
  BY LenProperties
<1>2. \A m \in 1..n : blocks[m] \in Block
  BY <1>1, ElementOfSeq
<1>3. PICK h : /\ IsFound(h, blocks, k)
               /\ \A m \in 0..n : h[m] \in Stores
               /\ h[n] = <<>>
  BY <1>1, ValuesLoop
<1>4. ASSUME NEW s \in Stores, NEW b \in Block PROVE Append(s, b.val) # <<>>
  <2>1. b.val \in Val \cup {Lost}
    BY DEF Block
  <2>2. Len(Append(s, b.val)) = Len(s) + 1 /\ Len(s) \in Nat
    BY <2>1, AppendProperties, LenProperties DEF Stores
  <2>3. PICK c : c = Append(s, b.val)
    OBVIOUS
  <2>4. Len(c) # 0
    BY <2>2, <2>3
  <2>5. Len(<<>>) = 0
    BY EmptySeq
  <2>6. c # <<>>
    BY <2>4, <2>5
  <2> QED BY <2>3, <2>6
<1>5. <<>> \in Stores
  BY EmptySeq DEF Stores
<1> DEFINE T == {m \in 0..n : m >= i => h[m] # <<>>}
<1>6. 0 \in T
  OBVIOUS
<1>7. ASSUME NEW m \in 1..n, m - 1 \in T PROVE m \in T
  <2>1. m - 1 \in 0..n /\ m \in 1..Len(blocks) /\ blocks[m] \in Block
    BY <1>1, <1>2
  <2>2. h[m] = Found(h[m - 1], blocks[m], k) /\ h[m - 1] \in Stores
    BY <1>3, <2>1 DEF IsFound
  <2>3. \A s \in Stores : Append(s, blocks[m].val) # <<>>
    BY <1>4, <2>1
  <2>4. CASE m = i
    <3>1. \/ h[m] = Append(<<>>, blocks[m].val)
          \/ h[m] = Append(h[m - 1], blocks[m].val)
      BY <2>2, <2>4 DEF Found
    <3>2. h[m] # <<>>
      BY <1>5, <2>2, <2>3, <3>1
    <3> QED BY <3>2
  <2>5. CASE m > i
    <3>1. h[m - 1] # <<>>
      BY <1>7, <2>5
    <3>2. blocks[m].key = k => ~blocks[m].index0
      <4> SUFFICES ASSUME blocks[m].key = k, blocks[m].index0 PROVE FALSE
        OBVIOUS
      <4>1. Superseded(blocks, i, m)
        BY <2>5 DEF Superseded
      <4> QED BY <2>1, <4>1 DEF Ordered
    <3>3. h[m] \in {h[m - 1], Append(h[m - 1], blocks[m].val)}
      BY <2>2, <3>2 DEF Found
    <3>4. h[m] # <<>>
      BY <2>2, <2>3, <3>1, <3>3
    <3> QED BY <3>4
  <2>6. CASE m < i
    BY <2>6
  <2> QED BY <2>4, <2>5, <2>6
<1> HIDE DEF T
<1>8. n \in T
  <2>1. \A m \in 0..n : m \in T
    BY <1>6, <1>7, Induction
  <2> QED BY <2>1
<1> QED BY <1>1, <1>3, <1>8 DEF T

----------------------------------------------------------------------------
(* The flag writes of a deletion.                                          *)

DeletesAt(blocks, index, i) == index = -1 \/ IndexOf(blocks, i) = index
TakenAt(blocks, k, index, i) ==
    /\ blocks[i].key = k /\ Live(blocks[i])
    /\ DeletesAt(blocks, index, i) \/ (index = 0 /\ IndexOf(blocks, i) = 1)

FlagWrites == Seq([at : Nat, deletes : BOOLEAN])

\* The writes are those of the blocks that are taken, in their order.
WritesOf(w, blocks, k, index, n) ==
    /\ \A x \in 1..Len(w) : /\ w[x].at \in 1..n /\ TakenAt(blocks, k, index, w[x].at)
                            /\ w[x].deletes = DeletesAt(blocks, index, w[x].at)
    /\ \A x, y \in 1..Len(w) : x < y => w[x].at < w[y].at
    /\ \A i \in 1..n : TakenAt(blocks, k, index, i) => \E x \in 1..Len(w) : w[x].at = i

LEMMA DeleteWritesIsChosen ==
    ASSUME NEW blocks, NEW k, NEW index
    PROVE  DeleteWrites(blocks, k, index) =
               (CHOOSE f : f = [i \in 0..Len(blocks) |->
                   IF i = 0 THEN <<>>
                   ELSE IF /\ blocks[i].key = k /\ Live(blocks[i])
                           /\ \/ index = -1 \/ IndexOf(blocks, i) = index
                              \/ index = 0 /\ IndexOf(blocks, i) = 1
                        THEN Append(f[i - 1], [at |-> i, deletes |-> (index = -1 \/ IndexOf(blocks, i) = index)])
                        ELSE f[i - 1]])[Len(blocks)]
BY DEF DeleteWrites, Scan

IsWritten(f, blocks, k, index) ==
    /\ f[0] = <<>>
    /\ \A i \in 1..Len(blocks) :
           f[i] = IF TakenAt(blocks, k, index, i)
                  THEN Append(f[i - 1], [at |-> i, deletes |-> DeletesAt(blocks, index, i)])
                  ELSE f[i - 1]

LEMMA DeleteWritesLoop ==
    ASSUME NEW blocks \in Seq(Block), NEW k, NEW index
    PROVE  \E f : /\ IsWritten(f, blocks, k, index)
                  /\ \A i \in 0..Len(blocks) : f[i] \in FlagWrites
                  /\ DeleteWrites(blocks, k, index) = f[Len(blocks)]
<1>1. PICK n \in Nat : n = Len(blocks)
  BY LenProperties
<1> DEFINE Entry(i) == [at |-> i, deletes |-> DeletesAt(blocks, index, i)]
           Step(y, i) == IF TakenAt(blocks, k, index, i) THEN Append(y, Entry(i)) ELSE y
           g == [p \in FlagWrites \X (1..n) |-> Step(p[1], p[2])]
<1>2. \A i \in 1..n : Entry(i) \in [at : Nat, deletes : BOOLEAN]
  BY DEF DeletesAt
<1> HIDE DEF Entry
<1>3. \A y \in FlagWrites, i \in 1..n : Append(y, Entry(i)) \in FlagWrites
  BY <1>2, AppendProperties DEF FlagWrites
<1>4. \A y \in FlagWrites, i \in 1..n : Step(y, i) \in FlagWrites
  BY <1>3
<1> HIDE DEF Step
<1>5. \A y \in FlagWrites, i \in 1..n : g[<<y, i>>] = Step(y, i)
  OBVIOUS
<1>6. g \in [FlagWrites \X (1..n) -> FlagWrites]
  BY <1>4
<1>7. <<>> \in FlagWrites
  BY EmptySeq DEF FlagWrites
<1> HIDE DEF g
<1>8. PICK f : LoopsIn(f, n, <<>>, g, FlagWrites)
  BY <1>6, <1>7, LoopIn
<1>9. f[0] = <<>> /\ \A i \in 0..n : f[i] \in FlagWrites
  BY <1>8 DEF LoopsIn
<1>10. ASSUME NEW i \in 1..n PROVE f[i] = Step(f[i - 1], i)
  <2>1. i - 1 \in 0..n
    OBVIOUS
  <2>2. f[i - 1] \in FlagWrites
    BY <1>9, <2>1
  <2> QED BY <1>5, <1>8, <2>2 DEF LoopsIn
<1> DEFINE Chosen(a) == a = [i \in 0..n |->
                   IF i = 0 THEN <<>>
                   ELSE IF /\ blocks[i].key = k /\ Live(blocks[i])
                           /\ \/ index = -1 \/ IndexOf(blocks, i) = index
                              \/ index = 0 /\ IndexOf(blocks, i) = 1
                        THEN Append(a[i - 1], [at |-> i, deletes |-> (index = -1 \/ IndexOf(blocks, i) = index)])
                        ELSE a[i - 1]]
<1>11. f = [i \in 0..n |-> IF i = 0 THEN <<>> ELSE Step(f[i - 1], i)]
  <2>1. \A i \in 0..n : (IF i = 0 THEN <<>> ELSE g[<<f[i - 1], i>>])
                          = IF i = 0 THEN <<>> ELSE Step(f[i - 1], i)
    BY <1>8, <1>10 DEF LoopsIn
  <2> QED BY <1>8, <2>1 DEF LoopsIn, IsLoop
<1>12. Chosen(f)
  BY <1>11, Zenon DEF Step, Entry, TakenAt, DeletesAt
<1>13. DeleteWrites(blocks, k, index) = (CHOOSE a : Chosen(a))[n]
  BY <1>1, DeleteWritesIsChosen, Zenon
<1>14. \A a : Chosen(a) => a[0] = <<>> /\ \A i \in 1..n : a[i] = Step(a[i - 1], i)
  <2> SUFFICES ASSUME NEW a, Chosen(a)
               PROVE  a[0] = <<>> /\ \A i \in 1..n : a[i] = Step(a[i - 1], i)
    OBVIOUS
  <2>1. 0 \in 0..n /\ \A i \in 1..n : i \in 0..n /\ i # 0
    OBVIOUS
  <2>2. a[0] = <<>>
    BY <2>1
  <2>3. ASSUME NEW i \in 1..n PROVE a[i] = Step(a[i - 1], i)
    BY <2>1, Zenon DEF Step, Entry, TakenAt, DeletesAt
  <2> QED BY <2>2, <2>3
<1> HIDE DEF Chosen
<1>15. PICK a : Chosen(a) /\ DeleteWrites(blocks, k, index) = a[n]
  BY <1>12, <1>13, Zenon
<1>16. Alike(a, f, n)
  BY <1>9, <1>10, <1>14, <1>15 DEF Alike
<1>17. \A i \in 0..n : a[i] = f[i]
  BY <1>16, SameLoop
<1>18. IsWritten(f, blocks, k, index)
  BY <1>1, <1>9, <1>10 DEF IsWritten, Step, Entry
<1> QED BY <1>1, <1>9, <1>15, <1>17, <1>18

LEMMA DeleteWritesAre ==
    ASSUME NEW blocks \in Seq(Block), NEW k, NEW index
    PROVE  /\ DeleteWrites(blocks, k, index) \in FlagWrites
           /\ WritesOf(DeleteWrites(blocks, k, index), blocks, k, index, Len(blocks))
<1>1. PICK n \in Nat : n = Len(blocks)
  BY LenProperties
<1>2. PICK f : /\ IsWritten(f, blocks, k, index)
               /\ \A i \in 0..n : f[i] \in FlagWrites
               /\ DeleteWrites(blocks, k, index) = f[n]
  BY <1>1, DeleteWritesLoop
<1> DEFINE T == {m \in 0..n : WritesOf(f[m], blocks, k, index, m)}
<1>3. 0 \in T
  <2>1. f[0] = <<>> /\ 1..Len(<<>>) = {} /\ 1..0 = {}
    BY <1>2 DEF IsWritten
  <2>2. WritesOf(f[0], blocks, k, index, 0)
    BY <2>1 DEF WritesOf
  <2> QED BY <2>2
<1>4. ASSUME NEW m \in 1..n, WritesOf(f[m - 1], blocks, k, index, m - 1)
      PROVE  WritesOf(f[m], blocks, k, index, m)
  <2>1. /\ m \in 1..Len(blocks) /\ m - 1 \in 0..n
        /\ \A i \in 1..m - 1 : i \in 1..m /\ i < m
        /\ \A i \in 1..m : i = m \/ i \in 1..m - 1
    BY <1>1
  <2>2. CASE ~TakenAt(blocks, k, index, m)
    <3>1. f[m] = f[m - 1]
      BY <1>2, <2>1, <2>2 DEF IsWritten
    <3> QED BY <1>4, <2>1, <2>2, <3>1 DEF WritesOf
  <2>3. CASE TakenAt(blocks, k, index, m)
    <3> DEFINE e == [at |-> m, deletes |-> DeletesAt(blocks, index, m)]
    <3>1. e.at = m /\ e.deletes = DeletesAt(blocks, index, m) /\ e \in [at : Nat, deletes : BOOLEAN]
      BY DEF DeletesAt
    <3>2. f[m] = Append(f[m - 1], e)
      BY <1>2, <2>1, <2>3 DEF IsWritten
    <3> HIDE DEF e
    <3>3. PICK w \in FlagWrites : w = f[m - 1]
      BY <1>2, <2>1
    <3>4. PICK l \in Nat : l = Len(w)
      BY LenProperties DEF FlagWrites
    <3>5. /\ Len(f[m]) = l + 1 /\ f[m][l + 1] = e
          /\ \A x \in 1..l : f[m][x] = w[x]
      BY <3>1, <3>2, <3>3, <3>4, AppendProperties DEF FlagWrites
    <3>6. WritesOf(w, blocks, k, index, m - 1)
      BY <1>4, <3>3
    <3>7. /\ \A x \in 1..l : /\ w[x].at \in 1..m - 1 /\ TakenAt(blocks, k, index, w[x].at)
                             /\ w[x].deletes = DeletesAt(blocks, index, w[x].at)
          /\ \A x, y \in 1..l : x < y => w[x].at < w[y].at
          /\ \A i \in 1..m - 1 : TakenAt(blocks, k, index, i) => \E x \in 1..l : w[x].at = i
      BY <3>4, <3>6, Zenon DEF WritesOf
    <3>8. ASSUME NEW x \in 1..l + 1
          PROVE  /\ f[m][x].at \in 1..m /\ TakenAt(blocks, k, index, f[m][x].at)
                 /\ f[m][x].deletes = DeletesAt(blocks, index, f[m][x].at)
      <4>1. CASE x = l + 1
        <5>1. f[m][x] = e /\ m \in 1..m
          BY <3>5, <4>1
        <5> QED BY <2>3, <3>1, <5>1
      <4>2. CASE x # l + 1
        <5>1. x \in 1..l
          BY <4>2
        <5>2. f[m][x] = w[x]
          BY <3>5, <5>1
        <5> QED BY <2>1, <3>7, <5>1, <5>2
      <4> QED BY <4>1, <4>2
    <3>9. ASSUME NEW x \in 1..l + 1, NEW y \in 1..l + 1, x < y
          PROVE  f[m][x].at < f[m][y].at
      <4>1. x \in 1..l /\ f[m][x] = w[x]
        BY <3>5, <3>9
      <4>2. CASE y = l + 1
        <5>1. f[m][y] = e /\ w[x].at \in 1..m - 1
          BY <3>5, <3>7, <4>1, <4>2
        <5> QED BY <3>1, <4>1, <5>1
      <4>3. CASE y # l + 1
        <5>1. y \in 1..l /\ f[m][y] = w[y]
          BY <3>5, <4>3
        <5> QED BY <3>7, <3>9, <4>1, <5>1
      <4> QED BY <4>2, <4>3
    <3>10. ASSUME NEW i \in 1..m, TakenAt(blocks, k, index, i)
           PROVE  \E x \in 1..l + 1 : f[m][x].at = i
      <4>1. CASE i = m
        <5>1. l + 1 \in 1..l + 1
          OBVIOUS
        <5> QED BY <3>1, <3>5, <4>1, <5>1
      <4>2. CASE i # m
        <5>1. PICK x \in 1..l : w[x].at = i
          BY <2>1, <3>7, <3>10, <4>2
        <5>2. x \in 1..l + 1 /\ f[m][x].at = i
          BY <3>5, <5>1
        <5> QED BY <5>2
      <4> QED BY <4>1, <4>2
    <3>11. Len(f[m]) = l + 1
      BY <3>5
    <3> QED BY <3>8, <3>9, <3>10, <3>11, Zenon DEF WritesOf
  <2> QED BY <2>2, <2>3
<1>5. \A m \in 1..n : m - 1 \in T => m \in T
  BY <1>4
<1> HIDE DEF T
<1>6. \A m \in 0..n : m \in T
  BY <1>3, <1>5, Induction
<1>7. n \in 0..n /\ WritesOf(f[n], blocks, k, index, n)
  BY <1>6 DEF T
<1> QED BY <1>1, <1>2, <1>7

\* The blocks that are counted for the index of block i.
Counted(blocks, i) ==
    {j \in 1..i - 1 : /\ blocks[j].key = blocks[i].key /\ Live(blocks[j])
                      /\ ~\E m \in j + 1..i : blocks[m].key = blocks[i].key /\ blocks[m].index0}

LEMMA IndexCounts ==
    ASSUME NEW blocks, NEW i
    PROVE  IndexOf(blocks, i) = Cardinality(Counted(blocks, i))
BY Zenon DEF IndexOf, Counted

LEMMA FirstHasIndexZero ==
    ASSUME NEW blocks, NEW i \in Nat, blocks[i].index0
    PROVE  IndexOf(blocks, i) = 0
<1>1. \A j \in 1..i - 1 : i \in j + 1..i
  OBVIOUS
<1>2. Counted(blocks, i) = {}
  BY <1>1 DEF Counted
<1> QED BY <1>2, IndexCounts, FS_EmptySet

\* Before a block with index one there is one live block, which has index zero.
LEMMA SecondHasIndexOne ==
    ASSUME NEW blocks, Ordered(blocks), NEW i \in 1..Len(blocks), NEW j \in 1..Len(blocks),
           Len(blocks) \in Nat,
           i < j, blocks[i].key = blocks[j].key, blocks[j].key \in AddKeys, Live(blocks[i]),
           IndexOf(blocks, j) = 1
    PROVE  IndexOf(blocks, i) = 0
<1>1. ASSUME NEW x \in 1..j - 1, blocks[x].key = blocks[j].key, Live(blocks[x])
      PROVE  x \in Counted(blocks, j)
  <2> SUFFICES ASSUME NEW m \in x + 1..j, blocks[m].key = blocks[j].key, blocks[m].index0
               PROVE  FALSE
    BY <1>1 DEF Counted
  <2>1. x \in 1..Len(blocks) /\ m \in 1..Len(blocks) /\ x < m
    OBVIOUS
  <2>2. Superseded(blocks, x, m)
    BY <1>1, <2>1 DEF Superseded
  <2> QED BY <1>1, <2>1, <2>2 DEF Ordered
<1>2. Counted(blocks, j) \in SUBSET (1..j - 1)
  BY DEF Counted
<1>3. IsFiniteSet(Counted(blocks, j))
  <2>1. IsFiniteSet(1..j - 1)
    BY FS_Interval
  <2> QED BY <1>2, <2>1, FS_Subset
<1>4. PICK y : Counted(blocks, j) = {y}
  <2>1. Cardinality(Counted(blocks, j)) = 1
    BY IndexCounts
  <2> QED BY <1>3, <2>1, FS_Singleton
<1>5. i \in 1..j - 1
  OBVIOUS
<1>6. i = y
  BY <1>1, <1>4, <1>5
<1>7. Counted(blocks, i) = {}
  <2> SUFFICES ASSUME NEW x \in Counted(blocks, i) PROVE FALSE
    OBVIOUS
  <2>1. x \in 1..i - 1 /\ blocks[x].key = blocks[i].key /\ Live(blocks[x])
    BY DEF Counted
  <2>2. x \in 1..j - 1 /\ x # i
    BY <2>1
  <2>3. x \in Counted(blocks, j)
    BY <1>1, <2>1, <2>2
  <2> QED BY <1>4, <1>6, <2>2, <2>3
<1> QED BY <1>7, IndexCounts, FS_EmptySet

\* What is written of a deletion is in order: a block that begins a list, or that
\* is to begin it, is written when the live ones before it have been deleted.
TodoOrdered(blocks, writes) ==
    /\ \A n \in 1..Len(writes) : writes[n].at \in 1..Len(blocks)
    /\ \A m, n \in 1..Len(writes) : m < n => writes[m].at < writes[n].at
    /\ \A n \in 1..Len(writes) : \A i \in 1..Len(blocks) :
           /\ i < writes[n].at /\ blocks[i].key = blocks[writes[n].at].key /\ Live(blocks[i])
           /\ blocks[writes[n].at].index0 \/ ~writes[n].deletes
           => \E m \in 1..Len(writes) : m < n /\ writes[m].at = i /\ writes[m].deletes

LEMMA DeletionOrdered ==
    ASSUME SetKeys \cap AddKeys = {}, NEW blocks \in Seq(Block), Ordered(blocks), NEW k, NEW index
    PROVE  TodoOrdered(blocks, DeleteWrites(blocks, k, index))
<1>1. PICK w \in FlagWrites : w = DeleteWrites(blocks, k, index)
  BY DeleteWritesAre
<1>2. PICK l \in Nat : l = Len(w)
  BY LenProperties DEF FlagWrites
<1>3. PICK b \in Nat : b = Len(blocks)
  BY LenProperties
<1>4. WritesOf(w, blocks, k, index, b)
  BY <1>1, <1>3, DeleteWritesAre
<1>5. /\ \A x \in 1..l : /\ w[x].at \in 1..b /\ TakenAt(blocks, k, index, w[x].at)
                         /\ w[x].deletes = DeletesAt(blocks, index, w[x].at)
      /\ \A x, y \in 1..l : x < y => w[x].at < w[y].at
      /\ \A i \in 1..b : TakenAt(blocks, k, index, i) => \E x \in 1..l : w[x].at = i
  BY <1>2, <1>4, Zenon DEF WritesOf
<1>6. ASSUME NEW n \in 1..l, NEW i \in 1..b,
             i < w[n].at, blocks[i].key = blocks[w[n].at].key, Live(blocks[i]),
             blocks[w[n].at].index0 \/ ~w[n].deletes
      PROVE  \E m \in 1..l : m < n /\ w[m].at = i /\ w[m].deletes
  <2>1. PICK j \in 1..b : j = w[n].at
    BY <1>5
  <2>2. TakenAt(blocks, k, index, j) /\ w[n].deletes = DeletesAt(blocks, index, j)
    BY <1>5, <2>1
  <2>3. blocks[j].key = k /\ blocks[i].key = k
    BY <1>6, <2>1, <2>2 DEF TakenAt
  <2>4. DeletesAt(blocks, index, i)
    <3>1. CASE k \in AddKeys
      <4>1. ~blocks[j].index0
        <5> SUFFICES ASSUME blocks[j].index0 PROVE FALSE
          OBVIOUS
        <5>1. Superseded(blocks, i, j)
          BY <1>6, <2>1, <2>3, <3>1 DEF Superseded
        <5> QED BY <1>3, <1>6, <5>1 DEF Ordered
      <4>2. ~DeletesAt(blocks, index, j)
        BY <1>6, <2>1, <2>2, <4>1
      <4>3. index = 0 /\ IndexOf(blocks, j) = 1
        BY <2>2, <4>2 DEF TakenAt
      <4>4. i < j /\ Live(blocks[i]) /\ blocks[i].key = blocks[j].key /\ blocks[j].key \in AddKeys
        BY <1>6, <2>1, <2>3, <3>1
      <4>5. IndexOf(blocks, i) = 0
        BY <1>3, <4>3, <4>4, SecondHasIndexOne
      <4> QED BY <4>3, <4>5 DEF DeletesAt
    <3>2. CASE k \in SetKeys
      <4>1. blocks[i].index0 /\ blocks[j].index0
        BY <1>3, <2>3, <3>2 DEF Ordered
      <4>2. IndexOf(blocks, i) = 0 /\ IndexOf(blocks, j) = 0
        BY <4>1, FirstHasIndexZero
      <4>3. DeletesAt(blocks, index, j)
        BY <2>2, <4>2 DEF TakenAt
      <4> QED BY <4>2, <4>3 DEF DeletesAt
    <3> QED BY <1>3, <2>3, <3>1, <3>2 DEF Ordered
  <2>5. TakenAt(blocks, k, index, i)
    BY <1>6, <2>3, <2>4 DEF TakenAt
  <2>6. PICK m \in 1..l : w[m].at = i
    BY <1>5, <2>5
  <2>7. w[m].deletes
    BY <1>5, <2>4, <2>6
  <2>8. m < n
    <3> SUFFICES ASSUME n <= m PROVE FALSE
      OBVIOUS
    <3>1. n < m => w[n].at < w[m].at
      BY <1>5
    <3>2. w[m].at < w[n].at
      BY <1>6, <2>6
    <3>3. w[m].at \in 1..b /\ w[n].at \in 1..b
      BY <1>5
    <3>4. n # m
      BY <3>2, <3>3
    <3> QED BY <3>1, <3>2, <3>3, <3>4
  <2> QED BY <2>6, <2>7, <2>8
<1>7. TodoOrdered(blocks, w)
  BY <1>2, <1>3, <1>5, <1>6, Zenon DEF TodoOrdered
<1> QED BY <1>1, <1>7

LEMMA FlagOfBlock ==
    ASSUME NEW b \in Block, NEW e,
           e = [b EXCEPT !.deleted = TRUE] \/ e = [b EXCEPT !.index0 = TRUE]
    PROVE  /\ e.key = b.key /\ e.complete = b.complete /\ e.val = b.val /\ e.size = b.size
           /\ e = [b EXCEPT !.deleted = TRUE] => e.deleted = TRUE /\ e.index0 = b.index0
           /\ e = [b EXCEPT !.index0 = TRUE] => e.index0 = TRUE /\ e.deleted = b.deleted
BY DEF Block

LEMMA DeletionStep ==
    ASSUME NEW blocks \in Seq(Block), Ordered(blocks), NEW w \in FlagWrites, w # <<>>,
           TodoOrdered(blocks, w), NEW c,
           c = IF Head(w).deletes THEN [blocks EXCEPT ![Head(w).at].deleted = TRUE]
                                  ELSE [blocks EXCEPT ![Head(w).at].index0 = TRUE]
    PROVE  Ordered(c) /\ Tail(w) \in FlagWrites /\ TodoOrdered(c, Tail(w))
<1>1. PICK b \in Nat : b = Len(blocks) /\ DOMAIN blocks = 1..b
  BY LenProperties
<1>2. PICK l \in Nat : l + 1 = Len(w)
  <2>1. Len(w) \in Nat /\ Len(w) # 0
    BY LenProperties, EmptySeq DEF FlagWrites
  <2>2. PICK m : m = Len(w)
    OBVIOUS
  <2>3. m - 1 \in Nat /\ (m - 1) + 1 = m
    BY <2>1, <2>2
  <2> QED BY <2>2, <2>3
<1>3. /\ Tail(w) \in FlagWrites /\ Len(Tail(w)) = l /\ Head(w) = w[1]
      /\ \A n \in 1..l : Tail(w)[n] = w[n + 1]
  <2>1. /\ Tail(w) \in FlagWrites /\ Len(Tail(w)) = Len(w) - 1
        /\ \A n \in 1..Len(Tail(w)) : Tail(w)[n] = w[n + 1]
    BY HeadTailProperties DEF FlagWrites
  <2>2. Len(Tail(w)) = l
    BY <1>2, <2>1
  <2> QED BY <2>1, <2>2
<1>4. /\ \A n \in 1..l + 1 : w[n].at \in 1..b
      /\ \A m, n \in 1..l + 1 : m < n => w[m].at < w[n].at
      /\ \A n \in 1..l + 1 : \A i \in 1..b :
             /\ i < w[n].at /\ blocks[i].key = blocks[w[n].at].key /\ Live(blocks[i])
             /\ blocks[w[n].at].index0 \/ ~w[n].deletes
             => \E m \in 1..l + 1 : m < n /\ w[m].at = i /\ w[m].deletes
  BY <1>1, <1>2, Zenon DEF TodoOrdered
<1>5. 1 \in 1..l + 1
  OBVIOUS
<1>6. PICK a \in 1..b : a = w[1].at
  BY <1>4, <1>5
<1>7. \A i \in 1..b : blocks[i] \in Block
  BY <1>1, ElementOfSeq
<1>8. c = IF w[1].deletes THEN [blocks EXCEPT ![a].deleted = TRUE]
                          ELSE [blocks EXCEPT ![a].index0 = TRUE]
  BY <1>3, <1>6
<1>9. c \in Seq(Block) /\ Len(c) = b
  <2>1. c \in Seq(Block)
    BY <1>8, FlagCleared
  <2>2. DOMAIN c = 1..b
    BY <1>1, <1>8
  <2>3. Len(c) \in Nat /\ DOMAIN c = 1..Len(c)
    BY <2>1, LenProperties
  <2> QED BY <2>1, <2>2, <2>3
<1>10. \A i \in 1..b : i # a => c[i] = blocks[i]
  BY <1>1, <1>8
<1>11. c[a] = IF w[1].deletes THEN [blocks[a] EXCEPT !.deleted = TRUE]
                             ELSE [blocks[a] EXCEPT !.index0 = TRUE]
  BY <1>1, <1>8
<1>12. /\ c[a].key = blocks[a].key /\ c[a].complete = blocks[a].complete
       /\ c[a].val = blocks[a].val /\ c[a].size = blocks[a].size
       /\ w[1].deletes => c[a].deleted /\ c[a].index0 = blocks[a].index0
       /\ ~w[1].deletes => c[a].index0 /\ c[a].deleted = blocks[a].deleted
  <2>1. blocks[a] \in Block
    BY <1>7
  <2>2. w[1] \in [at : Nat, deletes : BOOLEAN]
    BY <1>2, <1>5, ElementOfSeq DEF FlagWrites
  <2>3. CASE w[1].deletes
    <3>1. c[a] = [blocks[a] EXCEPT !.deleted = TRUE]
      BY <1>11, <2>3
    <3>2. /\ c[a].key = blocks[a].key /\ c[a].complete = blocks[a].complete
          /\ c[a].val = blocks[a].val /\ c[a].size = blocks[a].size
          /\ c[a].deleted = TRUE /\ c[a].index0 = blocks[a].index0
      BY <2>1, <3>1, FlagOfBlock
    <3> QED BY <2>3, <3>2
  <2>4. CASE ~w[1].deletes
    <3>1. c[a] = [blocks[a] EXCEPT !.index0 = TRUE]
      BY <1>11, <2>4
    <3>2. /\ c[a].key = blocks[a].key /\ c[a].complete = blocks[a].complete
          /\ c[a].val = blocks[a].val /\ c[a].size = blocks[a].size
          /\ c[a].index0 = TRUE /\ c[a].deleted = blocks[a].deleted
      BY <2>1, <3>1, FlagOfBlock
    <3> QED BY <2>4, <3>2
  <2> QED BY <2>3, <2>4
<1>13. \A i \in 1..b : /\ c[i].key = blocks[i].key /\ c[i].complete = blocks[i].complete
                       /\ c[i].val = blocks[i].val /\ c[i].size = blocks[i].size
                       /\ blocks[i].index0 => c[i].index0
                       /\ Live(c[i]) => Live(blocks[i])
  BY <1>10, <1>12 DEF Live
<1>14. blocks[a].index0 \/ ~w[1].deletes =>
           \A i \in 1..b : i < a /\ blocks[i].key = blocks[a].key => ~Live(blocks[i])
  <2> SUFFICES ASSUME blocks[a].index0 \/ ~w[1].deletes,
                      NEW i \in 1..b, i < a, blocks[i].key = blocks[a].key, Live(blocks[i])
               PROVE  FALSE
    OBVIOUS
  <2>1. PICK m \in 1..l + 1 : m < 1
    BY <1>4, <1>5, <1>6
  <2> QED BY <2>1
<1>15. Ordered(c)
  <2>1. ASSUME NEW i \in 1..b, NEW j \in 1..b, Superseded(c, i, j)
        PROVE  ~Live(c[i])
    <3>1. i < j /\ blocks[i].key = blocks[j].key /\ c[j].index0
              /\ (blocks[j].key \in AddKeys \/ (blocks[j].complete /\ c[j].deleted))
      BY <1>13, <2>1 DEF Superseded
    <3>2. CASE j # a
      <4>1. Superseded(blocks, i, j)
        BY <1>10, <3>1, <3>2 DEF Superseded
      <4> QED BY <1>1, <1>13, <4>1 DEF Ordered
    <3>3. CASE j = a
      <4>1. blocks[a].index0 \/ ~w[1].deletes
        BY <1>12, <3>1, <3>3
      <4> QED BY <1>13, <1>14, <3>1, <3>3, <4>1
    <3> QED BY <3>2, <3>3
  <2>2. ASSUME NEW i \in 1..b
        PROVE  /\ c[i].key \in SetKeys \cup AddKeys
               /\ c[i].key \in SetKeys => c[i].index0
               /\ c[i].complete => /\ c[i].val \in Val
                                   /\ c[i].size = getAlignLength(Length[c[i].val])
    BY <1>1, <1>13 DEF Ordered
  <2>3. Len(c) = b
    BY <1>9
  <2> QED BY <2>1, <2>2, <2>3, Zenon DEF Ordered
<1>16. ASSUME NEW n \in 1..l, NEW i \in 1..b,
              i < w[n + 1].at, c[i].key = c[w[n + 1].at].key, Live(c[i]),
              c[w[n + 1].at].index0 \/ ~w[n + 1].deletes
       PROVE  \E m \in 1..l : m < n /\ w[m + 1].at = i /\ w[m + 1].deletes
  <2>1. n + 1 \in 1..l + 1 /\ 1 < n + 1
    OBVIOUS
  <2>2. w[n + 1].at \in 1..b /\ w[1].at < w[n + 1].at
    BY <1>4, <1>5, <2>1
  <2>3. c[w[n + 1].at] = blocks[w[n + 1].at]
    BY <1>6, <1>10, <2>2
  <2>4. Live(blocks[i]) /\ blocks[i].key = blocks[w[n + 1].at].key
            /\ (blocks[w[n + 1].at].index0 \/ ~w[n + 1].deletes)
    BY <1>13, <1>16, <2>3
  <2>5. PICK m \in 1..l + 1 : m < n + 1 /\ w[m].at = i /\ w[m].deletes
    BY <1>4, <1>16, <2>1, <2>4
  <2>6. m # 1
    <3> SUFFICES ASSUME m = 1 PROVE FALSE
      OBVIOUS
    <3>1. i = a /\ w[1].deletes
      BY <1>6, <2>5
    <3>2. c[a].deleted
      BY <1>12, <3>1
    <3> QED BY <1>16, <3>1, <3>2 DEF Live
  <2>7. m - 1 \in 1..l /\ m - 1 < n /\ (m - 1) + 1 = m
    BY <2>5, <2>6
  <2> QED BY <2>5, <2>7
<1>17. TodoOrdered(c, Tail(w))
  <2> PICK t : t = Tail(w)
    OBVIOUS
  <2>1. Len(t) = l /\ Len(c) = b /\ \A n \in 1..l : t[n] = w[n + 1]
    BY <1>3, <1>9
  <2>2. \A n \in 1..l : n + 1 \in 1..l + 1
    OBVIOUS
  <2>3. ASSUME NEW n \in 1..l PROVE t[n].at \in 1..b
    <3>1. n + 1 \in 1..l + 1 /\ t[n] = w[n + 1]
      BY <2>1, <2>2
    <3> QED BY <1>4, <3>1
  <2>4. ASSUME NEW m \in 1..l, NEW n \in 1..l, m < n PROVE t[m].at < t[n].at
    <3>1. m + 1 < n + 1 /\ m + 1 \in 1..l + 1 /\ n + 1 \in 1..l + 1
      BY <2>4
    <3>2. t[m] = w[m + 1] /\ t[n] = w[n + 1]
      BY <2>1
    <3>3. w[m + 1].at < w[n + 1].at
      BY <1>4, <3>1
    <3> QED BY <3>2, <3>3
  <2>5. ASSUME NEW n \in 1..l, NEW i \in 1..b,
               i < t[n].at, c[i].key = c[t[n].at].key, Live(c[i]),
               c[t[n].at].index0 \/ ~t[n].deletes
        PROVE  \E m \in 1..l : m < n /\ t[m].at = i /\ t[m].deletes
    <3>1. t[n] = w[n + 1]
      BY <2>1
    <3>2. /\ i < w[n + 1].at /\ c[i].key = c[w[n + 1].at].key /\ Live(c[i])
          /\ c[w[n + 1].at].index0 \/ ~w[n + 1].deletes
      BY <2>5, <3>1
    <3>3. PICK m \in 1..l : m < n /\ w[m + 1].at = i /\ w[m + 1].deletes
      BY <1>16, <3>2
    <3>4. t[m] = w[m + 1]
      BY <2>1
    <3>5. t[m].at = i /\ t[m].deletes
      BY <3>3, <3>4
    <3> QED BY <3>3, <3>5, Zenon
  <2>6. \A n \in 1..Len(t) : t[n].at \in 1..Len(c)
    BY <2>1, <2>3
  <2>7. \A m, n \in 1..Len(t) : m < n => t[m].at < t[n].at
    BY <2>1, <2>4
  <2> DEFINE Kept(x, y) ==
          \A n \in 1..x : \A i \in 1..y :
             /\ i < t[n].at /\ c[i].key = c[t[n].at].key /\ Live(c[i])
             /\ c[t[n].at].index0 \/ ~t[n].deletes
             => \E m \in 1..x : m < n /\ t[m].at = i /\ t[m].deletes
  <2>8. Kept(l, b)
    BY <2>5, Zenon
  <2>9. Kept(Len(t), Len(c))
    <3> HIDE DEF Kept
    <3> QED BY <2>1, <2>8
  <2>10. TodoOrdered(c, t)
    BY <2>6, <2>7, <2>9, Zenon DEF TodoOrdered
  <2> QED BY <2>10
<1> QED BY <1>3, <1>15, <1>17

\* No block of k counts.
NoneLive(blocks, k) == \A i \in 1..Len(blocks) : blocks[i].key = k => ~Live(blocks[i])

LEMMA AppendOrdered ==
    ASSUME NEW blocks \in Seq(Block), Ordered(blocks), NEW e \in Block,
           e.key \in SetKeys \cup AddKeys, e.key \in SetKeys => e.index0, ~e.complete,
           e.key \in AddKeys /\ e.index0 => NoneLive(blocks, e.key)
    PROVE  Ordered(Append(blocks, e))
<1>1. PICK b \in Nat : b = Len(blocks)
  BY LenProperties
<1> DEFINE c == Append(blocks, e)
<1>2. c \in Seq(Block) /\ Len(c) = b + 1 /\ c[b + 1] = e /\ \A i \in 1..b : c[i] = blocks[i]
  BY <1>1, AppendProperties
<1> HIDE DEF c
<1>3. ASSUME NEW i \in 1..b + 1
      PROVE  /\ c[i].key \in SetKeys \cup AddKeys
             /\ c[i].key \in SetKeys => c[i].index0
             /\ c[i].complete => /\ c[i].val \in Val
                                 /\ c[i].size = getAlignLength(Length[c[i].val])
  <2>1. CASE i = b + 1
    BY <1>2, <2>1
  <2>2. CASE i # b + 1
    <3>1. i \in 1..b
      BY <2>2
    <3> QED BY <1>1, <1>2, <3>1 DEF Ordered
  <2> QED BY <2>1, <2>2
<1>4. ASSUME NEW i \in 1..b + 1, NEW j \in 1..b + 1, Superseded(c, i, j)
      PROVE  ~Live(c[i])
  <2>1. i \in 1..b /\ c[i] = blocks[i]
    BY <1>2, <1>4 DEF Superseded
  <2>2. CASE j = b + 1
    <3>1. c[j] = e
      BY <1>2, <2>2
    <3>2. e.key \in AddKeys /\ e.index0 /\ blocks[i].key = e.key
      BY <1>4, <2>1, <3>1 DEF Superseded
    <3> QED BY <1>1, <2>1, <3>2 DEF NoneLive
  <2>3. CASE j # b + 1
    <3>1. j \in 1..b /\ c[j] = blocks[j]
      BY <1>2, <2>3
    <3>2. Superseded(blocks, i, j)
      BY <1>4, <2>1, <3>1 DEF Superseded
    <3> QED BY <1>1, <2>1, <3>1, <3>2 DEF Ordered
  <2> QED BY <2>2, <2>3
<1>5. Len(c) = b + 1
  BY <1>2
<1>6. Ordered(c)
  BY <1>3, <1>4, <1>5, Zenon DEF Ordered
<1> QED BY <1>6 DEF c

LEMMA LastOrdered ==
    ASSUME NEW blocks \in Seq(Block), blocks # <<>>, Ordered(blocks), NEW e \in Block,
           e.key = Last(blocks).key, e.index0 = Last(blocks).index0, ~e.deleted,
           e.complete => e.val \in Val /\ e.size = getAlignLength(Length[e.val])
    PROVE  Ordered([blocks EXCEPT ![Len(blocks)] = e])
<1>1. PICK b \in Nat : b = Len(blocks) /\ b \in 1..b
  <2>1. Len(blocks) \in Nat /\ Len(blocks) # 0
    BY LenProperties, EmptySeq
  <2>2. Len(blocks) \in 1..Len(blocks)
    BY <2>1
  <2> QED BY <2>1, <2>2
<1> DEFINE c == [blocks EXCEPT ![Len(blocks)] = e]
<1>2. Len(c) = b /\ c[b] = e /\ \A i \in 1..b - 1 : c[i] = blocks[i]
  BY <1>1, ExceptSeq
<1> HIDE DEF c
<1>3. e.key = blocks[b].key /\ e.index0 = blocks[b].index0
  BY <1>1 DEF Last
<1>4. ASSUME NEW i \in 1..b
      PROVE  /\ c[i].key \in SetKeys \cup AddKeys
             /\ c[i].key \in SetKeys => c[i].index0
             /\ c[i].complete => /\ c[i].val \in Val
                                 /\ c[i].size = getAlignLength(Length[c[i].val])
  <2>1. CASE i = b
    BY <1>1, <1>2, <1>3, <2>1 DEF Ordered
  <2>2. CASE i # b
    <3>1. i \in 1..b - 1
      BY <2>2
    <3> QED BY <1>1, <1>2, <3>1 DEF Ordered
  <2> QED BY <2>1, <2>2
<1>5. ASSUME NEW i \in 1..b, NEW j \in 1..b, Superseded(c, i, j)
      PROVE  ~Live(c[i])
  <2>1. i \in 1..b - 1 /\ c[i] = blocks[i]
    BY <1>2, <1>5 DEF Superseded
  <2>2. c[j].key = blocks[j].key /\ c[j].index0 = blocks[j].index0
    BY <1>2, <1>3
  <2>3. c[j].deleted => c[j] = blocks[j]
    BY <1>2
  <2>4. Superseded(blocks, i, j)
    BY <1>5, <2>1, <2>2, <2>3 DEF Superseded
  <2> QED BY <1>1, <2>1, <2>4 DEF Ordered
<1>6. Len(c) = b
  BY <1>2
<1>7. Ordered(c)
  BY <1>4, <1>5, <1>6, Zenon DEF Ordered
<1> QED BY <1>7 DEF c

----------------------------------------------------------------------------
(* Every area is always in order.                                          *)

\* The area that holds the values: during a swap, the one that is copied.
Source == IF pc \in {"stamp_swap", "copy"} THEN Other(base) ELSE base

\* What is to be written of the block that was asked for, and what has been
\* written of it.
AskedFor(blocks) ==
    /\ block.key \in SetKeys \cup AddKeys
    /\ block.key \in SetKeys => block.index0
    /\ block.key \in AddKeys /\ block.index0 => NoneLive(blocks, block.key)
BlockOrdered ==
    /\ pc \in {"swap", "stamp_swap", "copy", "use", "retire", "key"} => AskedFor(area[Source].blocks)
    /\ pc \in {"length", "data", "complete"} => ~LastBlock.complete /\ ~LastBlock.deleted
    /\ pc \in {"data", "complete"} => LastBlock.size = getAlignLength(Length[block.val])
    /\ pc = "complete" => LastBlock.val = block.val

OrderInv ==
    /\ \A a \in Area : Ordered(area[a].blocks)
    /\ BlockOrdered
    /\ pc = "delete" => /\ todo \in FlagWrites /\ todo # <<>>
                        /\ TodoOrdered(area[base].blocks, todo)
    /\ pc \in {"use", "retire"} => area[base].blocks = Swapped(area[Other(base)].blocks)
    /\ pc = "stamp" => area[base].blocks = <<>>

LEMMA EmptyOrdered == Ordered(<<>>)
<1>1. 1..Len(<<>>) = {}
  OBVIOUS
<1> QED BY <1>1 DEF Ordered

\* A step of the program that begins or ends nothing and changes no blocks.
LEMMA OrderFrame ==
    ASSUME \A a \in Area : Ordered(area'[a].blocks),
           pc' \notin {"swap", "stamp_swap", "copy", "use", "retire", "key",
                       "length", "data", "complete", "delete", "stamp"}
    PROVE  OrderInv'
BY DEF OrderInv, BlockOrdered

\* A step of a swap: what was asked for stays the same, and so does the area that
\* holds the values, if it is not the moment at which the copy takes its place.
LEMMA OrderInSwap ==
    ASSUME \A a \in Area : Ordered(area'[a].blocks), AskedFor(area'[Source'].blocks),
           block' = block, pc' \in {"stamp_swap", "copy", "retire", "key"},
           pc' = "retire" => area'[base'].blocks = Swapped(area'[Other(base')].blocks)
    PROVE  OrderInv'
BY DEF OrderInv, BlockOrdered, AskedFor

\* The fields of the block that is written last.
LEMMA LastFields ==
    ASSUME NEW b \in Block, NEW v \in Val, NEW n \in Nat
    PROVE  /\ LET e == [b EXCEPT !.size = n] IN
              /\ e \in Block /\ e.key = b.key /\ e.index0 = b.index0 /\ e.size = n
              /\ e.deleted = b.deleted /\ e.complete = b.complete
           /\ LET e == [b EXCEPT !.val = v] IN
              /\ e \in Block /\ e.key = b.key /\ e.index0 = b.index0 /\ e.size = b.size
              /\ e.val = v /\ e.deleted = b.deleted /\ e.complete = b.complete
           /\ LET e == [b EXCEPT !.complete = TRUE] IN
              /\ e \in Block /\ e.key = b.key /\ e.index0 = b.index0 /\ e.size = b.size
              /\ e.val = b.val /\ e.deleted = b.deleted
BY DEF Block

LEMMA OrderStep ==
    ASSUME CopiesWhole, SetKeys \cap AddKeys = {}, RecoverableInv, FitsInv, OrderInv, [Next]_vars
    PROVE  OrderInv'
<1>1. Flash /\ base \in Area /\ Other(base) \in Area /\ Other(base) # base /\ Other(Other(base)) = base
  BY TwoAreas DEF RecoverableInv, Flash, Area, Other
<1>2. \A a \in Area : area[a].blocks \in Seq(Block) /\ Ordered(area[a].blocks)
  BY DEF FitsInv, OrderInv
<1>3. ASSUME NEW k \in Key, NEW v \in Val, caUtilSettingsSet(k, v) \/ caUtilSettingsAdd(k, v)
      PROVE  OrderInv'
  <2>1. PICK index0 \in BOOLEAN :
          /\ Put(k, v, index0) /\ k \in SetKeys \cup AddKeys
          /\ k \in SetKeys => index0
          /\ k \in AddKeys /\ index0 => Values(area[base].blocks, k) = <<>>
    BY <1>3 DEF caUtilSettingsSet, caUtilSettingsAdd
  <2>2. /\ area' = area /\ base' = base /\ pc' \in {"key", "swap"}
        /\ block'.key = k /\ block'.index0 = index0
    BY <2>1 DEF Put
  <2>3. k \in AddKeys /\ index0 => NoneLive(area[base].blocks, k)
    BY <1>1, <1>2, <2>1, EmptyHasNoneLive DEF NoneLive
  <2>4. Source' = base
    BY <2>2 DEF Source
  <2> QED BY <1>2, <2>1, <2>2, <2>3, <2>4 DEF OrderInv, BlockOrdered, AskedFor
<1>4. CASE PutKey
  <2> DEFINE b == [key |-> block.key, index0 |-> block.index0, complete |-> FALSE,
                   deleted |-> FALSE, size |-> getAlignLength(UnsetLength), val |-> Lost]
             blocks == area[base].blocks
  <2>1. pc = "key" /\ pc' = "length" /\ base' = base /\ block' = block /\ Write(base, Append(blocks, b))
    BY <1>4 DEF PutKey, Go
  <2>2. block \in [key : Key, val : Val, index0 : BOOLEAN]
    BY <2>1 DEF FitsInv, Writing
  <2>3. /\ b \in Block /\ b.key = block.key /\ b.index0 = block.index0
        /\ ~b.complete /\ ~b.deleted
    BY <2>2, AlignedLength DEF Block
  <2>4. blocks \in Seq(Block) /\ Ordered(blocks)
    BY <1>1, <1>2
  <2>5. AskedFor(blocks)
    BY <2>1 DEF OrderInv, BlockOrdered, Source
  <2> HIDE DEF b, blocks
  <2>6. Ordered(Append(blocks, b))
    BY <2>3, <2>4, <2>5, AppendOrdered DEF AskedFor
  <2>7. Last(Append(blocks, b)) = b
    BY <2>3, <2>4, AppendProperties DEF Last
  <2>8. area'[base].blocks = Append(blocks, b) /\ \A a \in Area \ {base} : area'[a].blocks = area[a].blocks
    BY <1>1, <2>1, BlocksAfterWrite
  <2>9. \A a \in Area : Ordered(area'[a].blocks)
    BY <1>2, <2>6, <2>8
  <2>10. LastBlock' = b
    BY <2>1, <2>7, <2>8 DEF LastBlock
  <2> QED BY <2>1, <2>3, <2>9, <2>10 DEF OrderInv, BlockOrdered
<1>5. ASSUME pc \in {"length", "data", "complete"}, NEW e \in Block,
             ChangeLast(base, e), base' = base, block' = block,
             e.key = LastBlock.key, e.index0 = LastBlock.index0, ~e.deleted,
             e.size = getAlignLength(Length[block.val]),
             pc' \in {"data", "complete", "idle"},
             pc' \in {"data", "complete"} => ~e.complete,
             pc' = "complete" => e.val = block.val,
             e.complete => e.val = block.val
      PROVE  OrderInv'
  <2> DEFINE blocks == area[base].blocks
             c == [blocks EXCEPT ![Len(blocks)] = e]
  <2>1. blocks \in Seq(Block) /\ blocks # <<>> /\ Ordered(blocks)
    BY <1>1, <1>2, <1>5 DEF FitsInv, RoomAhead
  <2>2. block.val \in Val
    BY <1>5 DEF FitsInv, Writing
  <2>3. Ordered(c)
    BY <1>5, <2>1, <2>2, LastOrdered DEF LastBlock
  <2>4. area'[base].blocks = c /\ \A a \in Area \ {base} : area'[a].blocks = area[a].blocks
    BY <1>1, <1>5, BlocksAfterWrite DEF ChangeLast
  <2>5. Last(c) = e
    <3>1. Len(blocks) \in 1..Len(blocks)
      BY <2>1, EmptySeq, LenProperties
    <3>2. Len(c) = Len(blocks) /\ c[Len(blocks)] = e
      BY <2>1, <3>1, ExceptSeq
    <3> QED BY <3>2 DEF Last
  <2> HIDE DEF c
  <2>6. \A a \in Area : Ordered(area'[a].blocks)
    BY <1>2, <2>3, <2>4
  <2>7. LastBlock' = e
    BY <1>5, <2>4, <2>5 DEF LastBlock
  <2> QED BY <1>5, <2>6, <2>7 DEF OrderInv, BlockOrdered
<1>6. CASE PutLength \/ PutData \/ PutComplete
  <2>1. pc \in {"length", "data", "complete"} /\ base' = base /\ block' = block
    BY <1>6 DEF PutLength, PutData, PutComplete, Go
  <2>2. LastBlock \in Block
    <3>1. area[base].blocks \in Seq(Block) /\ area[base].blocks # <<>>
      BY <1>1, <1>2, <2>1 DEF FitsInv, RoomAhead
    <3>2. Len(area[base].blocks) \in 1..Len(area[base].blocks)
      BY <3>1, EmptySeq, LenProperties
    <3> QED BY <3>1, <3>2, ElementOfSeq DEF LastBlock, Last
  <2>3. block.val \in Val /\ getAlignLength(Length[block.val]) \in Nat
    BY <2>1, AlignedLength DEF FitsInv, Writing
  <2>4. ~LastBlock.complete /\ ~LastBlock.deleted
    BY <2>1 DEF OrderInv, BlockOrdered
  <2>5. CASE PutLength
    <3> DEFINE e == [LastBlock EXCEPT !.size = getAlignLength(Length[block.val])]
    <3>1. /\ e \in Block /\ e.key = LastBlock.key /\ e.index0 = LastBlock.index0
          /\ ~e.deleted /\ ~e.complete /\ e.size = getAlignLength(Length[block.val])
      BY <2>2, <2>3, <2>4, LastFields
    <3>2. pc' = "data" /\ ChangeLast(base, e)
      BY <2>5 DEF PutLength, Go
    <3> HIDE DEF e
    <3> QED BY <1>5, <2>1, <3>1, <3>2
  <2>6. CASE PutData
    <3> DEFINE e == [LastBlock EXCEPT !.val = block.val]
    <3>1. /\ e \in Block /\ e.key = LastBlock.key /\ e.index0 = LastBlock.index0
          /\ ~e.deleted /\ ~e.complete /\ e.size = LastBlock.size /\ e.val = block.val
      BY <2>2, <2>3, <2>4, LastFields
    <3>2. pc = "data" /\ pc' = "complete" /\ ChangeLast(base, e)
      BY <2>6 DEF PutData, Go
    <3>3. LastBlock.size = getAlignLength(Length[block.val])
      BY <3>2 DEF OrderInv, BlockOrdered
    <3> HIDE DEF e
    <3> QED BY <1>5, <2>1, <3>1, <3>2, <3>3
  <2>7. CASE PutComplete
    <3> DEFINE e == [LastBlock EXCEPT !.complete = TRUE]
    <3>1. /\ e \in Block /\ e.key = LastBlock.key /\ e.index0 = LastBlock.index0
          /\ ~e.deleted /\ e.size = LastBlock.size /\ e.val = LastBlock.val
      BY <2>2, <2>3, <2>4, LastFields
    <3>2. pc = "complete" /\ pc' = "idle" /\ ChangeLast(base, e)
      BY <2>7 DEF PutComplete, Go
    <3>3. LastBlock.size = getAlignLength(Length[block.val]) /\ LastBlock.val = block.val
      BY <3>2 DEF OrderInv, BlockOrdered
    <3> HIDE DEF e
    <3> QED BY <1>5, <2>1, <3>1, <3>2, <3>3
  <2> QED BY <1>6, <2>5, <2>6, <2>7
<1>7. CASE SwapErase
  <2>1. area'[Other(base)].blocks = <<>> /\ \A a \in Area \ {Other(base)} : area'[a].blocks = area[a].blocks
    BY <1>1, <1>7, BlocksAfterErase DEF SwapErase
  <2>2. \A a \in Area : Ordered(area'[a].blocks)
    BY <1>2, <2>1, EmptyOrdered
  <2>3. pc = "swap" /\ pc' = "stamp_swap" /\ block' = block /\ base' = Other(base)
    BY <1>7 DEF SwapErase, Go
  <2>4. Source = base /\ Source' = base
    BY <1>1, <2>3 DEF Source, Other
  <2>5. AskedFor(area'[Source'].blocks)
    BY <1>1, <2>1, <2>3, <2>4 DEF OrderInv, BlockOrdered
  <2> QED BY <2>2, <2>3, <2>5, OrderInSwap
<1>8. CASE SwapStamp \/ SwapUse
  <2>1. \A a \in Area : area'[a].blocks = area[a].blocks
    BY <1>1, <1>8, BlocksAfterSetFlag DEF SwapStamp, SwapUse
  <2>2. /\ \/ pc = "stamp_swap" /\ pc' = "copy"
           \/ pc = "use" /\ pc' = "retire"
        /\ block' = block /\ base' = base
    BY <1>8 DEF SwapStamp, SwapUse, Go
  <2>3. Source' = Source /\ Source \in Area
    BY <1>1, <2>2 DEF Source, Other
  <2>4. AskedFor(area'[Source'].blocks)
    BY <2>1, <2>2, <2>3 DEF OrderInv, BlockOrdered
  <2>5. pc' = "retire" => area'[base'].blocks = Swapped(area'[Other(base')].blocks)
    <3> SUFFICES ASSUME pc' = "retire" PROVE area'[base].blocks = Swapped(area'[Other(base)].blocks)
      BY <2>2
    <3>1. area[base].blocks = Swapped(area[Other(base)].blocks)
      BY <2>2 DEF OrderInv
    <3> QED BY <1>1, <2>1, <3>1
  <2>6. \A a \in Area : Ordered(area'[a].blocks)
    BY <1>2, <2>1
  <2> QED BY <2>2, <2>4, <2>5, <2>6, OrderInSwap
<1>9. CASE SwapCopy
  <2> DEFINE c == Swapped(area[Other(base)].blocks)
  <2>1. area'[base].blocks = c /\ \A a \in Area \ {base} : area'[a].blocks = area[a].blocks
    BY <1>1, <1>9, BlocksAfterWrite DEF SwapCopy
  <2>2. /\ Ordered(c)
        /\ \A k : NoneLive(area[Other(base)].blocks, k) => \A x \in 1..Len(c) : c[x].key # k
    BY <1>1, <1>2, SwappedOrdered DEF NoneLive
  <2>3. pc = "copy" /\ pc' = "use" /\ block' = block /\ base' = base
    BY <1>9 DEF SwapCopy, Go
  <2>4. area'[base'].blocks = Swapped(area'[Other(base')].blocks)
    BY <1>1, <2>1, <2>3
  <2> HIDE DEF c
  <2>5. \A a \in Area : Ordered(area'[a].blocks)
    BY <1>2, <2>1, <2>2
  <2>6. AskedFor(area[Other(base)].blocks)
    BY <2>3 DEF OrderInv, BlockOrdered, Source
  <2>7. AskedFor(c)
    BY <2>2, <2>6 DEF AskedFor, NoneLive
  <2>8. Source' = base
    BY <2>3 DEF Source
  <2>9. AskedFor(area'[Source'].blocks)
    BY <2>1, <2>7, <2>8
  <2> QED BY <2>3, <2>4, <2>5, <2>9 DEF OrderInv, BlockOrdered, AskedFor
<1>10. CASE SwapRetire
  <2>1. \A a \in Area : area'[a].blocks = area[a].blocks
    BY <1>1, <1>10, BlocksAfterSetFlag DEF SwapRetire
  <2>2. pc = "retire" /\ block' = block /\ base' = base /\ pc' \in {"key", "idle"}
    BY <1>10 DEF SwapRetire, Go
  <2>3. Source' = base /\ Source = base
    BY <2>2 DEF Source
  <2>4. AskedFor(area'[Source'].blocks)
    BY <1>1, <2>1, <2>2, <2>3 DEF OrderInv, BlockOrdered
  <2>5. \A a \in Area : Ordered(area'[a].blocks)
    BY <1>2, <2>1
  <2> QED BY <2>2, <2>4, <2>5, OrderInSwap, OrderFrame
<1>11. ASSUME NEW k \in Key, NEW index \in {-1, 0, 1}, caUtilSettingsDelete(k, index)
       PROVE  OrderInv'
  <2>1. /\ area' = area /\ base' = base /\ pc' = "delete" /\ todo' # <<>>
        /\ todo' = DeleteWrites(area[base].blocks, k, index)
    BY <1>11 DEF caUtilSettingsDelete
  <2>2. area[base].blocks \in Seq(Block) /\ Ordered(area[base].blocks)
    BY <1>1, <1>2
  <2>3. todo' \in FlagWrites /\ TodoOrdered(area[base].blocks, todo')
    BY <2>1, <2>2, DeleteWritesAre, DeletionOrdered
  <2> QED BY <1>2, <2>1, <2>3 DEF OrderInv, BlockOrdered
<1>12. CASE DeleteWrite
  <2>1. PICK blocks \in Seq(Block) : blocks = area[base].blocks /\ Ordered(blocks)
    BY <1>1, <1>2
  <2>2. pc = "delete" /\ todo \in FlagWrites /\ todo # <<>> /\ TodoOrdered(blocks, todo)
    BY <1>12, <2>1 DEF DeleteWrite, OrderInv
  <2>3. PICK c : c = IF Head(todo).deletes THEN [blocks EXCEPT ![Head(todo).at].deleted = TRUE]
                                           ELSE [blocks EXCEPT ![Head(todo).at].index0 = TRUE]
    OBVIOUS
  <2>4. /\ Write(base, c) /\ todo' = Tail(todo) /\ base' = base
        /\ pc' = IF Tail(todo) = <<>> THEN "idle" ELSE "delete"
    BY <1>12, <2>1, <2>3 DEF DeleteWrite
  <2>5. Ordered(c) /\ Tail(todo) \in FlagWrites /\ TodoOrdered(c, Tail(todo))
    BY <2>1, <2>2, <2>3, DeletionStep
  <2>6. area'[base].blocks = c /\ \A a \in Area \ {base} : area'[a].blocks = area[a].blocks
    BY <1>1, <2>4, BlocksAfterWrite
  <2>7. \A a \in Area : Ordered(area'[a].blocks)
    BY <1>2, <2>5, <2>6
  <2> QED BY <2>4, <2>5, <2>6, <2>7 DEF OrderInv, BlockOrdered
<1>13. CASE Format
  <2>1. area'[base].blocks = <<>> /\ \A a \in Area \ {base} : area'[a].blocks = area[a].blocks
    BY <1>1, <1>13, BlocksAfterErase DEF Format
  <2>2. \A a \in Area : Ordered(area'[a].blocks)
    BY <1>2, <2>1, EmptyOrdered
  <2>3. pc' = "stamp"
    BY <1>13 DEF Format, Go
  <2>4. base' = base
    BY <1>13 DEF Format
  <2> QED BY <2>1, <2>2, <2>3, <2>4 DEF OrderInv, BlockOrdered
<1>14. CASE FormatStamp
  <2>1. \A a \in Area : area'[a].blocks = area[a].blocks
    BY <1>1, <1>14, BlocksAfterSetFlag DEF FormatStamp
  <2>2. pc' = "off"
    BY <1>14 DEF FormatStamp, Go
  <2> QED BY <1>2, <2>1, <2>2, OrderFrame
<1>15. CASE caUtilSettingsWipe \/ Boot \/ Crash
  <2>1. area' = area /\ pc' \in {"format", "idle", "off"}
    BY <1>15 DEF caUtilSettingsWipe, Boot, Crash, Go
  <2> QED BY <1>2, <2>1, OrderFrame
<1>16. CASE UNCHANGED vars
  BY <1>16 DEF vars, OrderInv, BlockOrdered, AskedFor, Source, LastBlock
<1> QED
  BY <1>3, <1>4, <1>6, <1>7, <1>8, <1>9, <1>10, <1>11, <1>12, <1>13, <1>14, <1>15, <1>16 DEF Next

LEMMA OrderInvariant ==
    ASSUME CopiesWhole, SetKeys \cap AddKeys = {}
    PROVE  Spec => [](FitsInv /\ OrderInv)
<1>1. Init => RecoverableInv /\ FitsInv /\ OrderInv
  <2>1. Init => RecoverableInv /\ FitsInv
    BY FitsInit
  <2>2. Init => pc = "off" /\ \A a \in Area : area[a].blocks = <<>>
    BY DEF Init, ErasedArea
  <2>3. Init => OrderInv
    BY <2>2, EmptyOrdered DEF OrderInv, BlockOrdered
  <2> QED BY <2>1, <2>3
<1>2. RecoverableInv /\ FitsInv /\ OrderInv /\ [Next]_vars => (RecoverableInv /\ FitsInv /\ OrderInv)'
  BY RecoverableStep, FitsStep, OrderStep
<1> QED
  BY <1>1, <1>2, PTL DEF Spec

\* The moment a swap takes effect, a key whose last list was not cut off by a
\* power failure has the values that it had, in their order, and none that was
\* deleted.  The two hypotheses are needed: a value that the swap's loop does not
\* copy whole is lost (see the disagreements), and for a key that is both set and
\* added to, deleting the value that was set last leaves those added before it,
\* which the swap brings back.
THEOREM SwapPreservesValues ==
    ASSUME CopiesWhole, SetKeys \cap AddKeys = {}
    PROVE  Spec => SwapKeepsValues
<1>1. ASSUME RestartInv, FitsInv, OrderInv, SwapUse, NEW k \in Key, ~Withdrawn(k)
      PROVE  Stored(k)' = Stored(k)
  <2>1. /\ Flash /\ base \in Area
        /\ Other(base) \in Area /\ Other(base) # base /\ Other(Other(base)) = base
    BY <1>1, TwoAreas DEF RestartInv, RecoverableInv, Flash, Area, Other
  <2>2. PICK blocks \in Seq(Block) :
          /\ blocks = area[Other(base)].blocks /\ Ordered(blocks)
          /\ area[base].blocks = Swapped(blocks)
    BY <1>1, <2>1 DEF SwapUse, FitsInv, OrderInv
  <2>3. base \notin InUse /\ Other(base) \in InUse
    BY <1>1, <2>1
       DEF SwapUse, RestartInv, RecoverableInv, InOneArea, WorksOnWhatIsRead, Copying, Marked, InUse
  <2>4. Stored(k) = Values(blocks, k)
    BY <2>1, <2>2, <2>3 DEF Stored, Area, Other
  <2>5. /\ \A a \in Area : area'[a].blocks = area[a].blocks
        /\ area'[base].flag = "InUse" /\ area'[Other(base)].flag = area[Other(base)].flag
    BY <1>1, <2>1, BlocksAfterSetFlag, FlagsAfterSetFlag DEF SwapUse
  <2>6. 0 \in InUse'
    BY <2>1, <2>3, <2>5 DEF InUse, Area, Other
  <2>7. Stored(k)' = Values(area[0].blocks, k)
    BY <2>5, <2>6 DEF Stored, Area
  <2>8. CASE base = 1
    BY <2>2, <2>4, <2>7, <2>8 DEF Other
  <2>9. CASE base = 0
    <3>1. ASSUME NEW i \in 1..Len(blocks), Begins(blocks, i, k),
                 \A j \in i + 1..Len(blocks) : ~Begins(blocks, j, k)
          PROVE  blocks[i].complete
      <4>1. Len(blocks) \in Nat /\ DOMAIN blocks = 1..Len(blocks)
        BY <2>2, LenProperties
      <4>2. \A j \in DOMAIN blocks : Begins(blocks, j, k) => j <= i
        BY <3>1, <4>1
      <4>3. \A j : j \in {p \in Positions(blocks, k) : blocks[p].index0}
                   <=> j \in DOMAIN blocks /\ Begins(blocks, j, k)
        BY DEF Positions, Begins
      <4> QED BY <1>1, <2>2, <3>1, <4>1, <4>2, <4>3 DEF Withdrawn
    <3>2. Values(Swapped(blocks), k) = Values(blocks, k)
      BY <2>2, <3>1, SwapKeeps
    <3> QED BY <2>2, <2>4, <2>7, <2>9, <3>2
  <2> QED BY <2>1, <2>8, <2>9 DEF Area
<1>2. RestartInv /\ FitsInv /\ OrderInv
          => (SwapUse => \A k \in Key : Withdrawn(k) \/ Stored(k)' = Stored(k))
  BY <1>1
<1> QED
  BY <1>2, RestartInvariant, OrderInvariant, PTL DEF SwapKeepsValues

\* CopiesWhole in terms of lengths: the buffer holds the value, and the value is
\* longer than a block's header.
LEMMA ShortValuesAreCopiedWhole ==
    ASSUME \A v \in Val : getAlignLength(Length[v]) \in HeaderSize + 1..CopyBufferSize
    PROVE  CopiesWhole
<1> SUFFICES ASSUME NEW n \in HeaderSize + 1..CopyBufferSize
             PROVE  CopiedBytes(n) = HeaderSize + n
  BY DEF CopiesWhole
<1> DEFINE Least(x, y) == IF x < y THEN x ELSE y
           Copied(f) == f = [c \in 0..n + HeaderSize |->
               IF c >= n THEN c ELSE f[c + Least(CopyBufferSize, n - c + HeaderSize)]]
<1>1. HeaderSize = 8 /\ CopyBufferSize \in Nat /\ n \in Nat /\ 8 < n /\ n <= CopyBufferSize
  BY SettingsAssumption DEF SettingsAssumption, HeaderSize
<1>2. \E f : Copied(f)
  <2> DEFINE g == [c \in 0..n + HeaderSize |->
                     IF c >= n THEN c
                     ELSE IF n - c + HeaderSize <= CopyBufferSize THEN n + HeaderSize
                     ELSE c + CopyBufferSize]
  <2>1. ASSUME NEW c \in 0..n + HeaderSize
        PROVE  g[c] = IF c >= n THEN c ELSE g[c + Least(CopyBufferSize, n - c + HeaderSize)]
    BY <1>1
  <2>2. Copied(g)
    BY <2>1
  <2> QED BY <2>2
<1>3. \A f : Copied(f) => f[HeaderSize] = HeaderSize + n
  BY <1>1
<1>4. PICK f : Copied(f) /\ CopiedBytes(n) = f[HeaderSize]
  <2>1. CopiedBytes(n) = (CHOOSE f : Copied(f))[HeaderSize]
    BY DEF CopiedBytes
  <2> HIDE DEF Copied
  <2>2. Copied(CHOOSE f : Copied(f))
    BY <1>2
  <2> QED BY <2>1, <2>2
<1> QED BY <1>3, <1>4

----------------------------------------------------------------------------
(* What one write of a word does to the values.                            *)

\* one block with a flag cleared
Deleted(blocks, at)  == [blocks EXCEPT ![at].deleted = TRUE]
Promoted(blocks, at) == [blocks EXCEPT ![at].index0 = TRUE]

LEMMA FlagChanged ==
    ASSUME NEW blocks \in Seq(Block), NEW at \in 1..Len(blocks), NEW c,
           c = Deleted(blocks, at) \/ c = Promoted(blocks, at)
    PROVE  /\ c \in Seq(Block) /\ Len(c) = Len(blocks)
           /\ \A i \in 1..Len(blocks) : i # at => c[i] = blocks[i]
           /\ c[at].key = blocks[at].key /\ c[at].val = blocks[at].val
           /\ c = Deleted(blocks, at) => ~Live(c[at]) /\ c[at].index0 = blocks[at].index0
           /\ c = Promoted(blocks, at) => Live(c[at]) = Live(blocks[at]) /\ c[at].index0
<1>1. Len(blocks) \in Nat /\ DOMAIN blocks = 1..Len(blocks) /\ blocks[at] \in Block
  BY LenProperties, ElementOfSeq
<1>2. c \in Seq(Block)
  BY FlagCleared DEF Deleted, Promoted
<1>3. Len(c) = Len(blocks)
  <2>1. DOMAIN c = 1..Len(blocks)
    BY <1>1 DEF Deleted, Promoted
  <2>2. Len(c) \in Nat /\ DOMAIN c = 1..Len(c)
    BY <1>2, LenProperties
  <2> QED BY <1>1, <2>1, <2>2
<1>4. \A i \in 1..Len(blocks) : i # at => c[i] = blocks[i]
  BY <1>1 DEF Deleted, Promoted
<1>5. CASE c = Deleted(blocks, at)
  <2>1. c[at] = [blocks[at] EXCEPT !.deleted = TRUE]
    BY <1>1, <1>5 DEF Deleted
  <2>2. /\ c[at].key = blocks[at].key /\ c[at].val = blocks[at].val
        /\ c[at].deleted /\ c[at].index0 = blocks[at].index0
    BY <1>1, <2>1, FlagOfBlock
  <2>3. c = Promoted(blocks, at) => Live(c[at]) = Live(blocks[at]) /\ c[at].index0
    <3> SUFFICES ASSUME c = Promoted(blocks, at)
                 PROVE  Live(c[at]) = Live(blocks[at]) /\ c[at].index0
      OBVIOUS
    <3>1. c[at] = [blocks[at] EXCEPT !.index0 = TRUE]
      BY <1>1 DEF Promoted
    <3>2. c[at].complete = blocks[at].complete /\ c[at].deleted = blocks[at].deleted /\ c[at].index0 = TRUE
      BY <1>1, <3>1, FlagOfBlock
    <3> QED BY <3>2 DEF Live
  <2> QED BY <1>2, <1>3, <1>4, <2>2, <2>3 DEF Live
<1>6. CASE c = Promoted(blocks, at) /\ c # Deleted(blocks, at)
  <2>1. c[at] = [blocks[at] EXCEPT !.index0 = TRUE]
    BY <1>1, <1>6 DEF Promoted
  <2>2. /\ c[at].key = blocks[at].key /\ c[at].val = blocks[at].val /\ c[at].index0 = TRUE
        /\ c[at].complete = blocks[at].complete /\ c[at].deleted = blocks[at].deleted
    BY <1>1, <2>1, FlagOfBlock
  <2> QED BY <1>2, <1>3, <1>4, <1>6, <2>2 DEF Live
<1> QED BY <1>5, <1>6

\* No block of k from N to M counts.
NoneCounts(blocks, k, N, M) == \A j \in 1..M : j >= N /\ blocks[j].key = k => ~Live(blocks[j])

\* Nothing is found by a scan that passes no block that counts after the one it
\* begins anew at, or since the start (N = 0).
LEMMA NoneFound ==
    ASSUME NEW blocks \in Seq(Block), NEW k, NEW f, IsFound(f, blocks, k),
           NEW M \in 0..Len(blocks), NEW N \in 0..M,
           N # 0 => Begins(blocks, N, k),
           NoneCounts(blocks, k, N, M)
    PROVE  f[M] = <<>>
<1>1. PICK n \in Nat : n = Len(blocks)
  BY LenProperties
<1> DEFINE T == {m \in 0..M : m >= N => f[m] = <<>>}
<1>2. 0 \in T
  BY DEF IsFound
<1>3. ASSUME NEW m \in 1..M, m - 1 \in T PROVE m \in T
  <2> SUFFICES ASSUME m >= N PROVE f[m] = <<>>
    OBVIOUS
  <2>1. f[m] = Found(f[m - 1], blocks[m], k)
    BY <1>1 DEF IsFound
  <2>2. blocks[m].key = k => ~Live(blocks[m])
    BY DEF NoneCounts
  <2>3. CASE m = N
    BY <2>1, <2>2, <2>3 DEF Found, Begins
  <2>4. CASE m # N
    <3>1. f[m - 1] = <<>>
      BY <1>3, <2>4
    <3> QED BY <2>1, <2>2, <3>1 DEF Found
  <2> QED BY <2>3, <2>4
<1> HIDE DEF T
<1>4. M \in Nat /\ M \in 0..M
  BY <1>1
<1>5. \A m \in 0..M : m \in T
  BY <1>2, <1>3, <1>4, Induction
<1>6. M \in T
  BY <1>4, <1>5
<1> QED BY <1>6 DEF T

LEMMA NoneLiveNoValues ==
    ASSUME NEW blocks \in Seq(Block), NEW k, NoneLive(blocks, k)
    PROVE  Values(blocks, k) = <<>>
<1>1. PICK n \in Nat : n = Len(blocks)
  BY LenProperties
<1>2. PICK f : IsFound(f, blocks, k) /\ Values(blocks, k) = f[n]
  BY <1>1, ValuesLoop
<1>3. f[n] = <<>>
  <2>1. NoneCounts(blocks, k, 0, n)
    BY <1>1 DEF NoneLive, NoneCounts
  <2>2. n \in 0..Len(blocks) /\ 0 \in 0..n
    BY <1>1
  <2> QED BY <1>1, <1>2, <2>1, <2>2, NoneFound
<1> QED BY <1>2, <1>3

\* A change of the last block.
LEMMA LastValues ==
    ASSUME NEW blocks \in Seq(Block), blocks # <<>>, NEW e \in Block, NEW k
    PROVE  \E list \in Stores :
               /\ Values(blocks, k) = Found(list, Last(blocks), k)
               /\ Values([blocks EXCEPT ![Len(blocks)] = e], k) = Found(list, e, k)
<1>1. PICK n \in Nat : n = Len(blocks) /\ n \in 1..n
  <2>1. Len(blocks) \in Nat /\ Len(blocks) # 0
    BY LenProperties, EmptySeq
  <2>2. Len(blocks) \in 1..Len(blocks)
    BY <2>1
  <2> QED BY <2>1, <2>2
<1> DEFINE c == [blocks EXCEPT ![Len(blocks)] = e]
<1>2. c \in Seq(Block) /\ Len(c) = n /\ c[n] = e /\ \A i \in 1..n - 1 : c[i] = blocks[i]
  BY <1>1, ExceptSeq
<1> HIDE DEF c
<1>3. PICK f : /\ IsFound(f, blocks, k) /\ Values(blocks, k) = f[n]
               /\ \A i \in 0..n : f[i] \in Stores
  BY <1>1, ValuesLoop
<1>4. PICK g : IsFound(g, c, k) /\ Values(c, k) = g[n]
  BY <1>2, ValuesLoop
<1>5. n - 1 \in Nat /\ n - 1 \in 0..n /\ n - 1 \in 0..n - 1
  BY <1>1
<1>6. Alike(f, g, n - 1)
  <2>1. f[0] = g[0]
    BY <1>3, <1>4 DEF IsFound
  <2>2. ASSUME NEW i \in 1..n - 1 PROVE f[i - 1] = g[i - 1] => f[i] = g[i]
    <3>1. i \in 1..Len(blocks) /\ i \in 1..Len(c)
      BY <1>1, <1>2
    <3> QED BY <1>2, <1>3, <1>4, <3>1 DEF IsFound
  <2> QED BY <2>1, <2>2 DEF Alike
<1>7. f[n - 1] = g[n - 1]
  BY <1>5, <1>6, SameLoop
<1>8. f[n] = Found(f[n - 1], blocks[n], k) /\ g[n] = Found(f[n - 1], e, k)
  BY <1>1, <1>2, <1>3, <1>4, <1>7 DEF IsFound
<1>9. f[n - 1] \in Stores /\ Last(blocks) = blocks[n]
  BY <1>1, <1>3, <1>5 DEF Last
<1> QED BY <1>3, <1>4, <1>8, <1>9 DEF c

\* A change of one block after which the scan has the same as before.
LEMMA SameFrom ==
    ASSUME NEW blocks \in Seq(Block), NEW c \in Seq(Block), Len(c) = Len(blocks),
           NEW j \in 1..Len(blocks), NEW k, NEW f, NEW g,
           IsFound(f, blocks, k), IsFound(g, c, k),
           \A i \in 1..Len(blocks) : i # j => c[i] = blocks[i],
           f[j - 1] = g[j - 1] => f[j] = g[j]
    PROVE  f[Len(blocks)] = g[Len(blocks)]
<1>1. PICK n \in Nat : n = Len(blocks)
  BY LenProperties
<1>2. Alike(f, g, n)
  <2>1. f[0] = g[0]
    BY DEF IsFound
  <2>2. ASSUME NEW i \in 1..n PROVE f[i - 1] = g[i - 1] => f[i] = g[i]
    <3>1. i \in 1..Len(blocks) /\ i \in 1..Len(c)
      BY <1>1
    <3> QED BY <3>1 DEF IsFound
  <2> QED BY <2>1, <2>2 DEF Alike
<1>3. n \in 0..n
  BY <1>1
<1> QED BY <1>1, <1>2, <1>3, SameLoop

\* None of the blocks of its key before block j counts.
NoneBefore(blocks, j) ==
    \A i \in 1..Len(blocks) : i < j /\ blocks[i].key = blocks[j].key => ~Live(blocks[i])

\* Of such a block kBlockIndex0Flag is cleared.
LEMMA PromotionKeepsValues ==
    ASSUME NEW blocks \in Seq(Block), NEW j \in 1..Len(blocks), NEW k,
           NoneBefore(blocks, j)
    PROVE  Values(Promoted(blocks, j), k) = Values(blocks, k)
<1>1. PICK n \in Nat : n = Len(blocks)
  BY LenProperties
<1>2. PICK c : c = Promoted(blocks, j)
  OBVIOUS
<1>3. /\ c \in Seq(Block) /\ Len(c) = n
      /\ c[j].key = blocks[j].key /\ c[j].val = blocks[j].val /\ c[j].index0
      /\ Live(c[j]) = Live(blocks[j])
      /\ \A i \in 1..n : i # j => c[i] = blocks[i]
  BY <1>1, <1>2, FlagChanged
<1>4. PICK f : IsFound(f, blocks, k) /\ Values(blocks, k) = f[n]
  BY <1>1, ValuesLoop
<1>5. PICK g : IsFound(g, c, k) /\ Values(c, k) = g[n]
  BY <1>3, ValuesLoop
<1>6. f[j - 1] = g[j - 1] => f[j] = g[j]
  <2> SUFFICES ASSUME f[j - 1] = g[j - 1] PROVE f[j] = g[j]
    OBVIOUS
  <2>1. f[j] = Found(f[j - 1], blocks[j], k) /\ g[j] = Found(f[j - 1], c[j], k)
    BY <1>1, <1>3, <1>4, <1>5 DEF IsFound
  <2>4. CASE blocks[j].key # k
    BY <1>3, <2>1, <2>4 DEF Found
  <2>5. CASE blocks[j].key = k
    <3>1. PICK m \in 0..Len(blocks) : m = j - 1 /\ 0 \in 0..m
      BY <1>1
    <3>2. NoneCounts(blocks, k, 0, m)
      BY <1>1, <2>5, <3>1 DEF NoneBefore, NoneCounts
    <3>3. f[m] = <<>>
      BY <1>4, <3>1, <3>2, NoneFound
    <3> QED BY <1>3, <2>1, <2>5, <3>1, <3>3 DEF Found
  <2> QED BY <2>4, <2>5
<1>7. f[n] = g[n]
  BY <1>1, <1>3, <1>4, <1>5, <1>6, SameFrom
<1> QED BY <1>2, <1>4, <1>5, <1>7

LEMMA RemoveAtProperties ==
    ASSUME NEW S, NEW s \in Seq(S), NEW p \in 1..Len(s)
    PROVE  /\ RemoveAt(s, p) \in Seq(S) /\ Len(RemoveAt(s, p)) = Len(s) - 1
           /\ \A i \in 1..Len(s) - 1 : RemoveAt(s, p)[i] = IF i < p THEN s[i] ELSE s[i + 1]
<1>1. PICK n \in Nat : n = Len(s)
  BY LenProperties
<1>2. \A i \in 1..n : s[i] \in S
  BY <1>1, ElementOfSeq
<1>3. p \in Int /\ p - 1 \in Int /\ p + 1 \in Int /\ n \in Int /\ 1 \in Int /\ p >= 1 /\ p <= n
  BY <1>1
<1>4. PICK a : a = SubSeq(s, 1, p - 1)
  OBVIOUS
<1>5. PICK z : z = SubSeq(s, p + 1, n)
  OBVIOUS
<1>6. a \in Seq(S) /\ Len(a) = p - 1 /\ \A i \in 1..p - 1 : a[i] = s[i]
  <2>1. \A i \in 1..p - 1 : s[i] \in S
    BY <1>2, <1>3
  <2>2. /\ SubSeq(s, 1, p - 1) \in Seq(S)
        /\ Len(SubSeq(s, 1, p - 1)) = IF 1 <= p - 1 THEN (p - 1) - 1 + 1 ELSE 0
        /\ \A i \in 1..(p - 1) - 1 + 1 : SubSeq(s, 1, p - 1)[i] = s[1 + i - 1]
    BY <1>3, <2>1, SubSeqProperties
  <2> QED BY <1>3, <1>4, <2>2
<1>7. z \in Seq(S) /\ Len(z) = n - p /\ \A i \in 1..n - p : z[i] = s[p + i]
  <2>1. \A i \in p + 1..n : s[i] \in S
    BY <1>2, <1>3
  <2>2. /\ SubSeq(s, p + 1, n) \in Seq(S)
        /\ Len(SubSeq(s, p + 1, n)) = IF p + 1 <= n THEN n - (p + 1) + 1 ELSE 0
        /\ \A i \in 1..n - (p + 1) + 1 : SubSeq(s, p + 1, n)[i] = s[(p + 1) + i - 1]
    BY <1>3, <2>1, SubSeqProperties
  <2> QED BY <1>3, <1>5, <2>2
<1>8. RemoveAt(s, p) = a \o z
  BY <1>1, <1>4, <1>5 DEF RemoveAt
<1>9. /\ a \o z \in Seq(S) /\ Len(a \o z) = Len(a) + Len(z)
      /\ \A i \in 1..Len(a) + Len(z) : (a \o z)[i] = IF i <= Len(a) THEN a[i] ELSE z[i - Len(a)]
  BY <1>6, <1>7, ConcatProperties
<1>10. Len(a) + Len(z) = n - 1
  BY <1>3, <1>6, <1>7
<1>11. ASSUME NEW i \in 1..n - 1 PROVE (a \o z)[i] = IF i < p THEN s[i] ELSE s[i + 1]
  <2>1. (a \o z)[i] = IF i <= p - 1 THEN a[i] ELSE z[i - (p - 1)]
    BY <1>6, <1>9, <1>10
  <2>2. CASE i < p
    <3>1. i \in 1..p - 1 /\ i <= p - 1
      BY <1>3, <2>2
    <3> QED BY <1>6, <2>1, <2>2, <3>1
  <2>3. CASE ~(i < p)
    <3>1. i - (p - 1) \in 1..n - p /\ ~(i <= p - 1) /\ p + (i - (p - 1)) = i + 1
      BY <1>3, <2>3
    <3> QED BY <1>7, <2>1, <2>3, <3>1
  <2> QED BY <2>2, <2>3
<1> QED BY <1>1, <1>8, <1>9, <1>10, <1>11

LEMMA RemoveLast ==
    ASSUME NEW S, NEW s \in Seq(S), NEW x \in S
    PROVE  RemoveAt(Append(s, x), Len(s) + 1) = s
<1>1. PICK n \in Nat : n = Len(s)
  BY LenProperties
<1>2. PICK t : t = Append(s, x)
  OBVIOUS
<1>3. t \in Seq(S) /\ Len(t) = n + 1 /\ n + 1 \in 1..Len(t) /\ \A i \in 1..n : t[i] = s[i]
  BY <1>1, <1>2, AppendProperties
<1>4. PICK r : r = RemoveAt(t, n + 1)
  OBVIOUS
<1>5. r \in Seq(S) /\ Len(r) = n /\ \A i \in 1..n : r[i] = t[i]
  <2>1. /\ r \in Seq(S) /\ Len(r) = Len(t) - 1
        /\ \A i \in 1..Len(t) - 1 : r[i] = IF i < n + 1 THEN t[i] ELSE t[i + 1]
    BY <1>3, <1>4, RemoveAtProperties
  <2>2. Len(t) - 1 = n /\ \A i \in 1..n : i < n + 1
    BY <1>1, <1>3
  <2> QED BY <2>1, <2>2
<1>6. r = s
  BY <1>1, <1>3, <1>5, SeqEqual
<1> QED BY <1>1, <1>2, <1>4, <1>6

LEMMA RemoveEarlier ==
    ASSUME NEW S, NEW s \in Seq(S), NEW x \in S, NEW p \in 1..Len(s)
    PROVE  RemoveAt(Append(s, x), p) = Append(RemoveAt(s, p), x)
<1>1. PICK n \in Nat : n = Len(s) /\ n >= 1 /\ p \in 1..n
  BY LenProperties
<1>2. PICK t : t = Append(s, x)
  OBVIOUS
<1>3. /\ t \in Seq(S) /\ Len(t) = n + 1 /\ p \in 1..Len(t)
      /\ t[n + 1] = x /\ \A i \in 1..n : t[i] = s[i]
  BY <1>1, <1>2, AppendProperties
<1>4. PICK r \in Seq(S) : /\ r = RemoveAt(t, p) /\ Len(r) = n
                          /\ \A i \in 1..n : r[i] = IF i < p THEN t[i] ELSE t[i + 1]
  <2>1. /\ RemoveAt(t, p) \in Seq(S) /\ Len(RemoveAt(t, p)) = Len(t) - 1
        /\ \A i \in 1..Len(t) - 1 : RemoveAt(t, p)[i] = IF i < p THEN t[i] ELSE t[i + 1]
    BY <1>3, RemoveAtProperties
  <2>2. Len(t) - 1 = n
    BY <1>1, <1>3
  <2> QED BY <2>1, <2>2
<1>5. PICK q \in Seq(S) : /\ q = RemoveAt(s, p) /\ Len(q) = n - 1
                          /\ \A i \in 1..n - 1 : q[i] = IF i < p THEN s[i] ELSE s[i + 1]
  <2>1. /\ RemoveAt(s, p) \in Seq(S) /\ Len(RemoveAt(s, p)) = Len(s) - 1
        /\ \A i \in 1..Len(s) - 1 : RemoveAt(s, p)[i] = IF i < p THEN s[i] ELSE s[i + 1]
    BY RemoveAtProperties
  <2> QED BY <1>1, <2>1
<1>6. PICK u : u = Append(q, x)
  OBVIOUS
<1>7. u \in Seq(S) /\ Len(u) = n /\ u[n] = x /\ \A i \in 1..n - 1 : u[i] = q[i]
  <2>1. (n - 1) + 1 = n
    BY <1>1
  <2>2. /\ u \in Seq(S) /\ Len(u) = (n - 1) + 1 /\ u[(n - 1) + 1] = x
        /\ \A i \in 1..n - 1 : u[i] = q[i]
    BY <1>5, <1>6, AppendProperties
  <2> QED BY <2>1, <2>2
<1>8. ASSUME NEW i \in 1..n PROVE r[i] = u[i]
  <2>1. CASE i = n
    <3>1. r[i] = t[n + 1]
      BY <1>1, <1>4, <2>1
    <3> QED BY <1>3, <1>7, <2>1, <3>1
  <2>2. CASE i # n
    <3>1. i \in 1..n - 1 /\ i + 1 \in 1..n
      BY <2>2
    <3>2. u[i] = IF i < p THEN s[i] ELSE s[i + 1]
      BY <1>5, <1>7, <3>1
    <3>3. t[i] = s[i] /\ t[i + 1] = s[i + 1]
      BY <1>3, <3>1
    <3> QED BY <1>4, <3>2, <3>3
  <2> QED BY <2>1, <2>2
<1>9. r = u
  BY <1>4, <1>7, <1>8, SeqEqual
<1> QED BY <1>2, <1>4, <1>5, <1>6, <1>9

\* kBlockDeletedFlag of a block is cleared: one value is gone, or none.
LEMMA DeletionRemoves ==
    ASSUME NEW blocks \in Seq(Block), NEW j \in 1..Len(blocks), NEW k
    PROVE  \/ Values(Deleted(blocks, j), k) = Values(blocks, k)
           \/ /\ blocks[j].key = k
              /\ \E p \in 1..Len(Values(blocks, k)) :
                     Values(Deleted(blocks, j), k) = RemoveAt(Values(blocks, k), p)
<1>1. PICK n \in Nat : n = Len(blocks)
  BY LenProperties
<1>2. PICK c : c = Deleted(blocks, j)
  OBVIOUS
<1>3. /\ c \in Seq(Block) /\ Len(c) = n
      /\ c[j].key = blocks[j].key /\ ~Live(c[j]) /\ c[j].index0 = blocks[j].index0
      /\ \A i \in 1..n : i # j => c[i] = blocks[i]
  BY <1>1, <1>2, FlagChanged
<1>4. PICK f : /\ IsFound(f, blocks, k) /\ Values(blocks, k) = f[n]
               /\ \A i \in 0..n : f[i] \in Stores
  BY <1>1, ValuesLoop
<1>5. PICK g : IsFound(g, c, k) /\ Values(c, k) = g[n]
  BY <1>3, ValuesLoop
<1>6. \A i \in 1..n : f[i] = Found(f[i - 1], blocks[i], k) /\ g[i] = Found(g[i - 1], c[i], k)
  BY <1>1, <1>3, <1>4, <1>5 DEF IsFound
<1>7. CASE blocks[j].key # k \/ ~Live(blocks[j])
  <2>1. f[j - 1] = g[j - 1] => f[j] = g[j]
    BY <1>1, <1>3, <1>6, <1>7 DEF Found
  <2>2. f[n] = g[n]
    BY <1>1, <1>3, <1>4, <1>5, <2>1, SameFrom
  <2> QED BY <1>2, <1>4, <1>5, <2>2
<1>8. CASE blocks[j].key = k /\ Live(blocks[j])
  <2> DEFINE Shorter(m) == \/ g[m] = f[m]
                           \/ \E p \in 1..Len(f[m]) : g[m] = RemoveAt(f[m], p)
             T == {m \in 0..n : (m < j => g[m] = f[m]) /\ (m >= j => Shorter(m))}
  <2>1. 0 \in T
    <3>1. g[0] = f[0] /\ ~(0 >= j) /\ 0 \in 0..n
      BY <1>1, <1>4, <1>5 DEF IsFound
    <3> HIDE DEF Shorter
    <3> QED BY <3>1
  <2>2. ASSUME NEW m \in 1..n PROVE blocks[m].val \in Val \cup {Lost}
    <3>1. blocks[m] \in Block
      BY <1>1, ElementOfSeq
    <3> QED BY <3>1 DEF Block
  <2>3. ASSUME NEW m \in 1..n, m - 1 \in T PROVE m \in T
    <3>1. m - 1 \in 0..n /\ m \in 0..n /\ f[m - 1] \in Stores
      BY <1>4
    <3>2. f[m] = Found(f[m - 1], blocks[m], k) /\ g[m] = Found(g[m - 1], c[m], k)
      BY <1>6
    <3>3. CASE m < j
      <4>1. g[m - 1] = f[m - 1] /\ c[m] = blocks[m]
        BY <1>1, <1>3, <2>3, <3>3
      <4> QED BY <3>1, <3>2, <3>3, <4>1
    <3>4. CASE m = j
      <4>1. g[m - 1] = f[m - 1]
        BY <2>3, <3>4
      <4>2. PICK list \in Stores : list = IF blocks[m].index0 THEN <<>> ELSE f[m - 1]
        BY <3>1, EmptySeq DEF Stores
      <4>3. f[m] = Append(list, blocks[m].val) /\ g[m] = list
        BY <1>3, <1>8, <3>2, <3>4, <4>1, <4>2 DEF Found
      <4>4. /\ RemoveAt(Append(list, blocks[m].val), Len(list) + 1) = list
            /\ Len(Append(list, blocks[m].val)) = Len(list) + 1 /\ Len(list) \in Nat
        BY <2>2, RemoveLast, AppendProperties, LenProperties DEF Stores
      <4>5. Len(list) + 1 \in 1..Len(list) + 1
        BY <4>4
      <4>6. Shorter(m)
        BY <4>3, <4>4, <4>5
      <4> HIDE DEF Shorter
      <4> QED BY <3>1, <3>4, <4>6
    <3>5. CASE m > j
      <4>1. Shorter(m - 1) /\ c[m] = blocks[m]
        BY <1>3, <2>3, <3>5
      <4>2. CASE g[m - 1] = f[m - 1]
        <5>1. Shorter(m)
          BY <3>2, <4>1, <4>2
        <5> HIDE DEF Shorter
        <5> QED BY <3>1, <3>5, <5>1
      <4>3. ASSUME NEW p \in 1..Len(f[m - 1]), g[m - 1] = RemoveAt(f[m - 1], p)
            PROVE  m \in T
        <5>1. CASE blocks[m].key # k \/ (~Live(blocks[m]) /\ ~blocks[m].index0)
          <6>1. f[m] = f[m - 1] /\ g[m] = g[m - 1]
            BY <3>2, <4>1, <5>1 DEF Found
          <6>2. Shorter(m)
            BY <4>3, <6>1
          <6> HIDE DEF Shorter
          <6> QED BY <3>1, <3>5, <6>2
        <5>2. CASE blocks[m].key = k /\ blocks[m].index0
          <6>1. g[m] = f[m]
            BY <3>2, <4>1, <5>2 DEF Found
          <6> QED BY <3>1, <3>5, <6>1
        <5>3. CASE blocks[m].key = k /\ ~blocks[m].index0 /\ Live(blocks[m])
          <6>1. PICK s \in Stores, x \in Val \cup {Lost} : s = f[m - 1] /\ x = blocks[m].val
            BY <2>2, <3>1
          <6>2. f[m] = Append(s, x) /\ g[m] = Append(RemoveAt(s, p), x)
            BY <3>2, <4>1, <4>3, <5>3, <6>1 DEF Found
          <6>3. RemoveAt(Append(s, x), p) = Append(RemoveAt(s, p), x)
            BY <4>3, <6>1, RemoveEarlier DEF Stores
          <6>4. Len(s) \in Nat /\ Len(Append(s, x)) = Len(s) + 1
            BY <6>1, AppendProperties, LenProperties DEF Stores
          <6>5. p \in 1..Len(f[m])
            BY <4>3, <6>1, <6>2, <6>4
          <6>6. Shorter(m)
            BY <6>2, <6>3, <6>5
          <6> HIDE DEF Shorter
          <6> QED BY <3>1, <3>5, <6>6
        <5> QED BY <5>1, <5>2, <5>3
      <4> QED BY <4>1, <4>2, <4>3
    <3> QED BY <3>3, <3>4, <3>5
  <2> HIDE DEF T
  <2>4. \A m \in 0..n : m \in T
    BY <2>1, <2>3, Induction
  <2>5. n \in T /\ n >= j
    BY <1>1, <2>4
  <2>6. Shorter(n)
    BY <2>5 DEF T
  <2> QED BY <1>2, <1>4, <1>5, <1>8, <2>6
<1> QED BY <1>7, <1>8

LEMMA AppendedToNothing == \A v : Append(<<>>, v) = <<v>>
OBVIOUS

LEMMA OneValueOfSetKey ==
    ASSUME NEW blocks \in Seq(Block), Ordered(blocks), NEW k \in SetKeys
    PROVE  Values(blocks, k) = <<>> \/ \E v \in Val : Values(blocks, k) = <<v>>
<1>1. PICK n \in Nat : n = Len(blocks)
  BY LenProperties
<1>2. PICK f : IsFound(f, blocks, k) /\ Values(blocks, k) = f[n]
  BY <1>1, ValuesLoop
<1> DEFINE One(m) == f[m] = <<>> \/ \E v \in Val : f[m] = <<v>>
           T == {m \in 0..n : One(m)}
<1>3. 0 \in T
  BY <1>2 DEF IsFound
<1>4. ASSUME NEW m \in 1..n, m - 1 \in T PROVE m \in T
  <2>1. m \in 0..n /\ One(m - 1) /\ f[m] = Found(f[m - 1], blocks[m], k)
    BY <1>1, <1>2, <1>4 DEF IsFound
  <2>2. blocks[m].key = k => blocks[m].index0
    BY <1>1 DEF Ordered
  <2>3. CASE blocks[m].key # k
    <3>1. f[m] = f[m - 1]
      BY <2>1, <2>3 DEF Found
    <3>2. One(m)
      BY <2>1, <3>1
    <3> HIDE DEF One
    <3> QED BY <2>1, <3>2
  <2>4. CASE blocks[m].key = k /\ Live(blocks[m])
    <3>1. blocks[m].val \in Val
      BY <1>1, <2>4 DEF Ordered, Live
    <3>2. f[m] = <<blocks[m].val>>
      BY <2>1, <2>2, <2>4, AppendedToNothing DEF Found
    <3>3. One(m)
      BY <3>1, <3>2
    <3> HIDE DEF One
    <3> QED BY <2>1, <3>3
  <2>5. CASE blocks[m].key = k /\ ~Live(blocks[m])
    <3>1. f[m] = <<>>
      BY <2>1, <2>2, <2>5 DEF Found
    <3> QED BY <2>1, <3>1
  <2> QED BY <2>3, <2>4, <2>5
<1> HIDE DEF T
<1>5. \A m \in 0..n : m \in T
  BY <1>3, <1>4, Induction
<1>6. n \in T
  BY <1>5
<1> QED BY <1>2, <1>6 DEF T

\* What a swap makes of the values of a key: the same, or the value is back that a
\* Set had withdrawn.
Restored(old, new, k) ==
    new = old \/ (k \in SetKeys /\ old = <<>> /\ \E v \in Val : new = <<v>>)

LEMMA SwapRestores ==
    ASSUME CopiesWhole, NEW blocks \in Seq(Block), Ordered(blocks), NEW k
    PROVE  Restored(Values(blocks, k), Values(Swapped(blocks), k), k)
<1>1. PICK n \in Nat : n = Len(blocks)
  BY LenProperties
<1>2. CASE k \notin SetKeys
  <2>1. \A i \in 1..Len(blocks) : Begins(blocks, i, k) => k \in AddKeys
    BY <1>2 DEF Begins, Ordered
  <2>2. Values(Swapped(blocks), k) = Values(blocks, k)
    BY <2>1, SwapKeeps
  <2> QED BY <2>2 DEF Restored
<1>3. CASE k \in SetKeys
  <2>1. PICK N \in 0..n : /\ N # 0 => Begins(blocks, N, k)
                          /\ \A j \in N + 1..n : ~Begins(blocks, j, k)
    BY LastBegun
  <2>2. CASE N = 0 \/ blocks[N].complete
    <3>1. ASSUME NEW i \in 1..Len(blocks), Begins(blocks, i, k),
                 \A j \in i + 1..Len(blocks) : ~Begins(blocks, j, k)
          PROVE  blocks[i].complete \/ k \in AddKeys
      <4>1. ~(i > N)
        <5> SUFFICES ASSUME i > N PROVE FALSE
          OBVIOUS
        <5>1. i \in N + 1..n
          BY <1>1
        <5> QED BY <2>1, <3>1, <5>1
      <4>2. N # 0 /\ ~(i < N)
        <5>1. N # 0
          BY <4>1
        <5> SUFFICES ASSUME i < N PROVE FALSE
          BY <5>1
        <5>2. N \in i + 1..Len(blocks)
          BY <1>1
        <5> QED BY <2>1, <3>1, <5>1, <5>2
      <4>3. i = N
        BY <4>1, <4>2
      <4> QED BY <2>2, <4>2, <4>3
    <3>2. Values(Swapped(blocks), k) = Values(blocks, k)
      BY <3>1, SwapKeeps
    <3> QED BY <3>2 DEF Restored
  <2>3. CASE N # 0 /\ ~blocks[N].complete
    <3>1. NoneCounts(blocks, k, N, n)
      <4> SUFFICES ASSUME NEW j \in 1..n, j >= N, blocks[j].key = k PROVE ~Live(blocks[j])
        BY DEF NoneCounts
      <4>1. blocks[j].index0
        BY <1>1, <1>3 DEF Ordered
      <4>2. j = N
        <5> SUFFICES ASSUME j > N PROVE FALSE
          OBVIOUS
        <5>1. j \in N + 1..n
          OBVIOUS
        <5> QED BY <2>1, <4>1, <5>1 DEF Begins
      <4> QED BY <2>3, <4>2 DEF Live
    <3>2. PICK f : IsFound(f, blocks, k) /\ Values(blocks, k) = f[n]
      BY <1>1, ValuesLoop
    <3>3. n \in 0..Len(blocks) /\ N \in 0..n
      BY <1>1
    <3>4. f[n] = <<>>
      BY <2>1, <3>1, <3>2, <3>3, NoneFound
    <3>5. Swapped(blocks) \in Seq(Block) /\ Ordered(Swapped(blocks))
      BY SwapFits, SwappedOrdered
    <3>6. PICK c : c = Swapped(blocks)
      OBVIOUS
    <3>7. Values(c, k) = <<>> \/ \E v \in Val : Values(c, k) = <<v>>
      BY <1>3, <3>5, <3>6, OneValueOfSetKey
    <3> QED BY <1>3, <3>2, <3>4, <3>6, <3>7 DEF Restored
  <2> QED BY <2>2, <2>3
<1> QED BY <1>2, <1>3

----------------------------------------------------------------------------
(* The store does what KeyValue says, step by step.                        *)

\* One key's values change, and no others.
LEMMA OneChanges ==
    ASSUME NEW k \in Key, NEW x, Stored(k)' = x, \A j \in Key \ {k} : Stored(j)' = Stored(j)
    PROVE  [j \in Key |-> Stored(j)]' = [[j \in Key |-> Stored(j)] EXCEPT ![k] = x]
OBVIOUS

LEMMA IsSet ==
    ASSUME NEW k \in SetKeys, NEW v \in Val, Stored(k)' = <<v>>,
           \A j \in Key \ {k} : Stored(j)' = Stored(j)
    PROVE  KV!Next
<1>1. k \in Key
  BY SettingsAssumption DEF SettingsAssumption
<1>2. KV!Set(k, v)
  BY <1>1, OneChanges DEF KV!Set
<1> QED BY <1>2 DEF KV!Next

LEMMA IsWithdraw ==
    ASSUME NEW k \in SetKeys, Stored(k)' = <<>>, \A j \in Key \ {k} : Stored(j)' = Stored(j)
    PROVE  KV!Next
<1>1. k \in Key
  BY SettingsAssumption DEF SettingsAssumption
<1>2. KV!Withdraw(k)
  BY <1>1, OneChanges DEF KV!Withdraw
<1> QED BY <1>2 DEF KV!Next

LEMMA IsAdd ==
    ASSUME NEW k \in AddKeys, NEW v \in Val, Stored(k)' = Append(Stored(k), v),
           \A j \in Key \ {k} : Stored(j)' = Stored(j)
    PROVE  KV!Next
<1>1. k \in Key
  BY SettingsAssumption DEF SettingsAssumption
<1>2. [j \in Key |-> Stored(j)][k] = Stored(k)
  BY <1>1
<1>3. KV!Add(k, v)
  BY <1>1, <1>2, OneChanges DEF KV!Add
<1> QED BY <1>3 DEF KV!Next

LEMMA IsRemove ==
    ASSUME NEW k \in Key, NEW p \in 1..Len(Stored(k)), Stored(k) \in Stores,
           Stored(k)' = RemoveAt(Stored(k), p),
           \A j \in Key \ {k} : Stored(j)' = Stored(j)
    PROVE  KV!Next
<1>1. [j \in Key |-> Stored(j)][k] = Stored(k)
  OBVIOUS
<1>2. p \in DOMAIN Stored(k)
  BY LenProperties DEF Stores
<1>3. KV!RemoveOne(k, p)
  BY <1>1, OneChanges DEF KV!RemoveOne, KV!RemoveAt, RemoveAt
<1> QED BY <1>1, <1>2, <1>3 DEF KV!Next

LEMMA IsWipe ==
    ASSUME \A k \in Key : Stored(k)' = <<>>
    PROVE  KV!Next
<1>1. KV!Wipe
  BY DEF KV!Wipe
<1> QED BY <1>1 DEF KV!Next

LEMMA IsRestore ==
    ASSUME \A k \in Key : Restored(Stored(k), Stored(k)', k)
    PROVE  KV!Next
<1> DEFINE K == {k \in SetKeys : Stored(k) = <<>> /\ \E v \in Val : Stored(k)' = <<v>>}
           old == [k \in K |-> CHOOSE v \in Val : Stored(k)' = <<v>>]
<1>1. SetKeys \subseteq Key
  BY SettingsAssumption DEF SettingsAssumption
<1>2. ASSUME NEW k \in K PROVE old[k] \in Val /\ Stored(k)' = <<old[k]>>
  OBVIOUS
<1>3. old \in [K -> Val]
  BY <1>2
<1>4. K \in SUBSET {k \in SetKeys : [j \in Key |-> Stored(j)][k] = <<>>}
  BY <1>1
<1>5. ASSUME NEW k \in Key
      PROVE  Stored(k)' = IF k \in K THEN <<old[k]>> ELSE [j \in Key |-> Stored(j)][k]
  <2>1. CASE k \in K
    BY <1>2, <2>1
  <2>2. CASE k \notin K
    BY <2>2 DEF Restored
  <2> QED BY <2>1, <2>2
<1> HIDE DEF K, old
<1>6. [j \in Key |-> Stored(j)]'
          = [k \in Key |-> IF k \in K THEN <<old[k]>> ELSE [j \in Key |-> Stored(j)][k]]
  BY <1>5
<1>7. KV!Restore
  BY <1>3, <1>4, <1>6 DEF KV!Restore
<1> QED BY <1>7 DEF KV!Next

\* What a restart would find before and after blocks are written.
LEMMA WrittenView ==
    ASSUME RestartInv, pc \in Working, base' = base, NEW c, Write(base, c)
    PROVE  \A k : Stored(k) = Values(area[base].blocks, k) /\ Stored(k)' = Values(c, k)
<1>1. Flash /\ base \in Area /\ Marked(base) /\ base = Read
  BY DEF RestartInv, RecoverableInv, Flash, InOneArea, WorksOnWhatIsRead, Working
<1>2. area'[base].blocks = c /\ \A a \in Area : area'[a].flag = area[a].flag
  BY <1>1, FlagsAfterWrite, BlocksAfterWrite
<1>3. base \in InUse /\ InUse' = InUse
  BY <1>1, <1>2 DEF InUse, Marked
<1> QED BY <1>1, <1>2, <1>3 DEF Stored, Read, Area

LEMMA SameAreas ==
    ASSUME area' = area
    PROVE  \A k : Stored(k)' = Stored(k)
BY DEF Stored, InUse

\* The two flag writes that end a swap: a restart reads the copy after one of
\* them, and the old area until then.
LEMMA SwapEnds ==
    ASSUME CopiesWhole, RestartInv, FitsInv, OrderInv, SwapUse \/ SwapRetire
    PROVE  \A k : Restored(Stored(k), Stored(k)', k)
<1>1. /\ Flash /\ base \in Area
      /\ Other(base) \in Area /\ Other(base) # base /\ Other(Other(base)) = base
  BY TwoAreas DEF RestartInv, RecoverableInv, Flash, Area, Other
<1>2. PICK blocks \in Seq(Block) :
        /\ blocks = area[Other(base)].blocks /\ Ordered(blocks)
        /\ area[base].blocks = Swapped(blocks)
  BY <1>1 DEF SwapUse, SwapRetire, FitsInv, OrderInv
<1>3. \A k : Restored(Values(blocks, k), Values(Swapped(blocks), k), k)
  BY <1>2, SwapRestores
<1>4. CASE SwapUse
  <2>1. base \notin InUse /\ Other(base) \in InUse
    BY <1>1, <1>4
       DEF SwapUse, RestartInv, RecoverableInv, InOneArea, WorksOnWhatIsRead, Copying, Marked, InUse
  <2>2. \A k : Stored(k) = Values(blocks, k)
    BY <1>1, <1>2, <2>1 DEF Stored, Area, Other
  <2>3. /\ \A a \in Area : area'[a].blocks = area[a].blocks
        /\ area'[base].flag = "InUse" /\ area'[Other(base)].flag = area[Other(base)].flag
    BY <1>1, <1>4, BlocksAfterSetFlag, FlagsAfterSetFlag DEF SwapUse
  <2>4. 0 \in InUse'
    BY <1>1, <2>1, <2>3 DEF InUse, Area, Other
  <2>5. \A k : Stored(k)' = Values(area[0].blocks, k)
    BY <2>3, <2>4 DEF Stored, Area
  <2>6. area[0].blocks \in {blocks, Swapped(blocks)}
    BY <1>1, <1>2 DEF Area, Other
  <2> QED BY <1>3, <2>2, <2>5, <2>6 DEF Restored
<1>5. CASE SwapRetire
  <2>1. base \in InUse
    BY <1>1, <1>5 DEF SwapRetire, RestartInv, RecoverableInv, InOneArea, Marked, InUse
  <2>2. /\ \A a \in Area : area'[a].blocks = area[a].blocks
        /\ area'[base].flag = area[base].flag /\ area'[Other(base)].flag = "NotUse"
    BY <1>1, <1>5, BlocksAfterSetFlag, FlagsAfterSetFlag DEF SwapRetire
  <2>3. base \in InUse' /\ Other(base) \notin InUse'
    BY <1>1, <2>1, <2>2 DEF InUse
  <2>4. \A k : Stored(k)' = Values(Swapped(blocks), k)
    BY <1>1, <1>2, <2>2, <2>3 DEF Stored, Area, Other
  <2>5. \A k : Stored(k) \in {Values(blocks, k), Values(Swapped(blocks), k)}
    BY <1>1, <1>2, <2>1 DEF Stored, Area, Other
  <2> QED BY <1>3, <2>4, <2>5 DEF Restored
<1> QED BY <1>4, <1>5

\* The write of one flag of a deletion removes one value, or none.
LEMMA DeleteWriteRemoves ==
    ASSUME RestartInv, FitsInv, OrderInv, DeleteWrite
    PROVE  KV!Next \/ \A k \in Key : Stored(k)' = Stored(k)
<1>1. base \in Area
  BY DEF RestartInv, RecoverableInv, Flash
<1>2. PICK blocks \in Seq(Block) : blocks = area[base].blocks
  BY <1>1 DEF FitsInv
<1>3. todo \in FlagWrites /\ todo # <<>> /\ TodoOrdered(blocks, todo)
  BY <1>2 DEF DeleteWrite, OrderInv
<1>4. Len(todo) \in Nat /\ 1 \in 1..Len(todo) /\ Head(todo) = todo[1]
  <2>1. Len(todo) \in Nat /\ Len(todo) # 0
    BY <1>3, LenProperties, EmptySeq DEF FlagWrites
  <2>2. 1 \in 1..Len(todo)
    BY <2>1
  <2> QED BY <2>1, <2>2 DEF Head
<1>5. PICK j \in 1..Len(blocks) : j = todo[1].at
  BY <1>3, <1>4 DEF TodoOrdered
<1>6. todo[1].deletes \in BOOLEAN
  <2>1. todo[1] \in [at : Nat, deletes : BOOLEAN]
    BY <1>3, <1>4, ElementOfSeq DEF FlagWrites
  <2> QED BY <2>1
<1>7. pc \in Working /\ base' = base
  BY DEF DeleteWrite, Working
<1>8. CASE todo[1].deletes
  <2>1. Write(base, Deleted(blocks, j))
    BY <1>2, <1>4, <1>5, <1>8 DEF DeleteWrite, Deleted
  <2>2. \A k : Stored(k) = Values(blocks, k) /\ Stored(k)' = Values(Deleted(blocks, j), k)
    BY <1>2, <1>7, <2>1, WrittenView
  <2>3. ASSUME NEW k \in Key, blocks[j].key = k PROVE KV!Next \/ \A i \in Key : Stored(i)' = Stored(i)
    <3>1. \A i \in Key \ {k} : Stored(i)' = Stored(i)
      BY <2>2, <2>3, DeletionRemoves
    <3>2. CASE Stored(k)' = Stored(k)
      BY <3>1, <3>2
    <3>3. CASE Stored(k)' # Stored(k)
      <4>1. PICK p \in 1..Len(Stored(k)) : Stored(k)' = RemoveAt(Stored(k), p)
        BY <2>2, <3>3, DeletionRemoves
      <4>2. Stored(k) \in Stores
        <5>1. Values(blocks, k) \in Stores
          <6>1. PICK n \in Nat : n = Len(blocks)
            BY LenProperties
          <6>2. n \in 0..n
            BY <6>1
          <6> QED BY <6>1, <6>2, ValuesLoop
        <5> QED BY <2>2, <5>1
      <4> QED BY <3>1, <4>1, <4>2, IsRemove
    <3> QED BY <3>2, <3>3
  <2>4. blocks[j].key \in Key
    <3>1. blocks[j] \in Block
      BY ElementOfSeq
    <3> QED BY <3>1 DEF Block
  <2> QED BY <2>3, <2>4
<1>9. CASE ~todo[1].deletes
  <2>1. Write(base, Promoted(blocks, j))
    BY <1>2, <1>4, <1>5, <1>9 DEF DeleteWrite, Promoted
  <2>2. \A k : Stored(k) = Values(blocks, k) /\ Stored(k)' = Values(Promoted(blocks, j), k)
    BY <1>2, <1>7, <2>1, WrittenView
  <2>3. NoneBefore(blocks, j)
    <3> SUFFICES ASSUME NEW i \in 1..Len(blocks), i < j, blocks[i].key = blocks[j].key, Live(blocks[i])
                 PROVE  FALSE
      BY DEF NoneBefore
    <3>1. PICK m \in 1..Len(todo) : m < 1
      BY <1>3, <1>4, <1>5, <1>9 DEF TodoOrdered
    <3> QED BY <3>1
  <2>4. \A k : Values(Promoted(blocks, j), k) = Values(blocks, k)
    BY <2>3, PromotionKeepsValues
  <2> QED BY <2>2, <2>4
<1> QED BY <1>6, <1>8, <1>9

\* The writes of a block: its header withdraws the value of a key that is set, and
\* the flag that completes it sets or adds one.
LEMMA KeyWriteWithdraws ==
    ASSUME SetKeys \cap AddKeys = {}, RestartInv, FitsInv, OrderInv, PutKey
    PROVE  KV!Next \/ \A k \in Key : Stored(k)' = Stored(k)
<1> DEFINE b == [key |-> block.key, index0 |-> block.index0, complete |-> FALSE,
                 deleted |-> FALSE, size |-> getAlignLength(UnsetLength), val |-> Lost]
<1>1. base \in Area
  BY DEF RestartInv, RecoverableInv, Flash
<1>2. PICK blocks \in Seq(Block) : blocks = area[base].blocks
  BY <1>1 DEF FitsInv
<1>3. pc \in Working /\ base' = base /\ Write(base, Append(blocks, b))
  BY <1>2 DEF PutKey, Working
<1>4. block \in [key : Key, val : Val, index0 : BOOLEAN]
  BY DEF PutKey, FitsInv, Writing
<1>5. b \in Block /\ b.key = block.key /\ b.index0 = block.index0 /\ ~Live(b)
  BY <1>4, AlignedLength DEF Block, Live
<1>6. AskedFor(blocks)
  BY <1>2 DEF PutKey, OrderInv, BlockOrdered, Source
<1> HIDE DEF b
<1>7. \A k : /\ Stored(k) = Values(blocks, k)
             /\ Stored(k)' = Found(Values(blocks, k), b, k)
  <2>1. \A k : Stored(k) = Values(blocks, k) /\ Stored(k)' = Values(Append(blocks, b), k)
    BY <1>2, <1>3, WrittenView
  <2> QED BY <1>5, <2>1, ValuesGrow
<1>8. PICK k0 : k0 = b.key
  OBVIOUS
<1>9. \A k : k # k0 \/ ~b.index0 => Stored(k)' = Stored(k)
  BY <1>5, <1>7, <1>8 DEF Found
<1>10. CASE ~b.index0
  BY <1>9, <1>10
<1>11. CASE b.index0
  <2>1. Stored(k0)' = <<>>
    BY <1>5, <1>7, <1>8, <1>11 DEF Found
  <2>2. CASE k0 \in SetKeys
    BY <1>9, <2>1, <2>2, IsWithdraw
  <2>3. CASE k0 \in AddKeys
    <3>1. NoneLive(blocks, k0)
      BY <1>5, <1>6, <1>8, <1>11, <2>3 DEF AskedFor
    <3>2. Stored(k0) = <<>>
      BY <1>7, <3>1, NoneLiveNoValues
    <3> QED BY <1>9, <2>1, <3>2
  <2> QED BY <1>5, <1>6, <1>8, <2>2, <2>3 DEF AskedFor
<1> QED BY <1>10, <1>11

\* a step that writes the last block anew
LEMMA LastWriteView ==
    ASSUME RestartInv, FitsInv, pc \in {"length", "data", "complete"}, base' = base,
           NEW e \in Block, ChangeLast(base, e), NEW k
    PROVE  \E list \in Stores : /\ Stored(k) = Found(list, LastBlock, k)
                                /\ Stored(k)' = Found(list, e, k)
<1>1. base \in Area
  BY DEF RestartInv, RecoverableInv, Flash
<1>2. PICK blocks \in Seq(Block) : blocks = area[base].blocks /\ blocks # <<>>
  BY <1>1 DEF FitsInv, RoomAhead
<1>3. PICK c : c = [blocks EXCEPT ![Len(blocks)] = e]
  OBVIOUS
<1>4. Write(base, c) /\ pc \in Working
  BY <1>2, <1>3 DEF ChangeLast, Working
<1>5. Stored(k) = Values(blocks, k) /\ Stored(k)' = Values(c, k)
  BY <1>2, <1>4, WrittenView
<1>6. PICK list \in Stores :
          /\ Values(blocks, k) = Found(list, Last(blocks), k)
          /\ Values(c, k) = Found(list, e, k)
  BY <1>2, <1>3, LastValues
<1> QED BY <1>2, <1>5, <1>6 DEF LastBlock

LEMMA LastIsBlock ==
    ASSUME RecoverableInv, FitsInv, pc \in {"length", "data", "complete"}
    PROVE  LastBlock \in Block
<1>1. area[base].blocks \in Seq(Block) /\ area[base].blocks # <<>>
  BY DEF RecoverableInv, Flash, FitsInv, RoomAhead
<1>2. Len(area[base].blocks) \in 1..Len(area[base].blocks)
  BY <1>1, EmptySeq, LenProperties
<1> QED BY <1>1, <1>2, ElementOfSeq DEF LastBlock, Last

LEMMA UnfinishedIsUnseen ==
    ASSUME RestartInv, FitsInv, OrderInv, PutLength \/ PutData
    PROVE  \A k \in Key : Stored(k)' = Stored(k)
<1> SUFFICES ASSUME NEW k \in Key PROVE Stored(k)' = Stored(k)
  OBVIOUS
<1>1. pc \in {"length", "data", "complete"} /\ base' = base
  BY DEF PutLength, PutData
<1>2. LastBlock \in Block /\ block.val \in Val /\ getAlignLength(Length[block.val]) \in Nat
  BY <1>1, AlignedLength, LastIsBlock DEF RestartInv, FitsInv, Writing
<1>3. ~LastBlock.complete
  BY <1>1 DEF OrderInv, BlockOrdered
<1>4. PICK e \in Block : /\ ChangeLast(base, e) /\ e.key = LastBlock.key
                         /\ e.index0 = LastBlock.index0 /\ ~e.complete
  <2>1. CASE PutLength
    <3> DEFINE e == [LastBlock EXCEPT !.size = getAlignLength(Length[block.val])]
    <3>1. ChangeLast(base, e)
      BY <2>1 DEF PutLength
    <3>2. e \in Block /\ e.key = LastBlock.key /\ e.index0 = LastBlock.index0 /\ ~e.complete
      BY <1>2, <1>3, LastFields
    <3> HIDE DEF e
    <3> QED BY <3>1, <3>2
  <2>2. CASE PutData
    <3> DEFINE e == [LastBlock EXCEPT !.val = block.val]
    <3>1. ChangeLast(base, e)
      BY <2>2 DEF PutData
    <3>2. e \in Block /\ e.key = LastBlock.key /\ e.index0 = LastBlock.index0 /\ ~e.complete
      BY <1>2, <1>3, LastFields
    <3> HIDE DEF e
    <3> QED BY <3>1, <3>2
  <2> QED BY <2>1, <2>2
<1>5. PICK list \in Stores : Stored(k) = Found(list, LastBlock, k) /\ Stored(k)' = Found(list, e, k)
  BY <1>1, <1>4, LastWriteView
<1> QED BY <1>3, <1>4, <1>5 DEF Found, Live

LEMMA CompletionStores ==
    ASSUME RestartInv, FitsInv, OrderInv, PutComplete
    PROVE  KV!Next \/ \A k \in Key : Stored(k)' = Stored(k)
<1>1. pc = "complete" /\ base' = base
  BY DEF PutComplete
<1>2. LastBlock \in Block /\ block.val \in Val
  BY <1>1, LastIsBlock DEF RestartInv, FitsInv, Writing
<1>3. ~LastBlock.complete /\ ~LastBlock.deleted /\ LastBlock.val = block.val
  BY <1>1 DEF OrderInv, BlockOrdered
<1> DEFINE e == [LastBlock EXCEPT !.complete = TRUE]
<1>4. e \in Block /\ e.key = LastBlock.key /\ e.index0 = LastBlock.index0 /\ e.val = block.val
      /\ Live(e)
  <2>1. e.complete
    BY <1>2 DEF Block
  <2> QED BY <1>2, <1>3, <2>1, LastFields DEF Live
<1>5. ChangeLast(base, e)
  BY DEF PutComplete
<1> HIDE DEF e
<1>6. PICK k0 : k0 = e.key
  OBVIOUS
<1>7. PICK v0 \in Val : v0 = block.val
  BY <1>2
<1>8. ASSUME NEW k
      PROVE  /\ k # k0 => Stored(k)' = Stored(k)
             /\ k = k0 => Stored(k)' = Append(Stored(k), v0)
             /\ k = k0 /\ e.index0 => Stored(k) = <<>>
  <2>1. PICK list \in Stores : Stored(k) = Found(list, LastBlock, k) /\ Stored(k)' = Found(list, e, k)
    BY <1>1, <1>4, <1>5, LastWriteView
  <2>2. ~Live(LastBlock)
    BY <1>3 DEF Live
  <2> QED BY <1>4, <1>6, <1>7, <2>1, <2>2 DEF Found
<1>9. k0 \in SetKeys \cup AddKeys /\ (k0 \in SetKeys => e.index0)
  <2>1. PICK blocks \in Seq(Block) : blocks = area[base].blocks /\ blocks # <<>> /\ Ordered(blocks)
    BY <1>1 DEF RestartInv, RecoverableInv, Flash, FitsInv, RoomAhead, OrderInv
  <2>2. Len(blocks) \in 1..Len(blocks)
    BY <2>1, EmptySeq, LenProperties
  <2>3. LastBlock = blocks[Len(blocks)]
    BY <2>1 DEF LastBlock, Last
  <2> QED BY <1>4, <1>6, <2>1, <2>2, <2>3 DEF Ordered
<1>10. CASE k0 \in SetKeys
  <2>1. Stored(k0)' = Append(Stored(k0), v0) /\ Stored(k0) = <<>>
    BY <1>8, <1>9, <1>10
  <2>2. Stored(k0)' = <<v0>>
    BY <2>1, AppendedToNothing
  <2> QED BY <1>8, <1>10, <2>2, IsSet
<1>11. CASE k0 \in AddKeys
  <2>1. Stored(k0)' = Append(Stored(k0), v0)
    BY <1>8
  <2> QED BY <1>8, <1>11, <2>1, IsAdd
<1> QED BY <1>9, <1>10, <1>11

LEMMA FormatForgets ==
    ASSUME ~WipeBoth, RestartInv, OrderInv, RestartInv', Format \/ FormatStamp
    PROVE  KV!Next \/ \A k \in Key : Stored(k)' = Stored(k)
<1>1. CASE Format
  <2>1. InUse' = {}
    BY <1>1 DEF Format, Go, RestartInv, WipedAlone
  <2> QED BY <2>1, IsWipe DEF Stored
<1>2. CASE FormatStamp
  <2>1. Flash /\ base \in Area /\ InUse = {} /\ area[base].blocks = <<>>
    BY <1>2 DEF FormatStamp, RestartInv, RecoverableInv, Flash, WipedAlone, OrderInv
  <2>2. area'[base].blocks = <<>> /\ InUse' = {base}
    <3>1. /\ \A a \in Area : area'[a].blocks = area[a].blocks
          /\ area'[base].flag = "InUse" /\ \A a \in Area \ {base} : area'[a].flag = area[a].flag
      BY <1>2, <2>1, BlocksAfterSetFlag, FlagsAfterSetFlag DEF FormatStamp
    <3> QED BY <2>1, <3>1 DEF InUse
  <2>3. \A k : Values(<<>>, k) = <<>>
    <3>1. <<>> \in Seq(Block) /\ 1..Len(<<>>) = {}
      BY EmptySeq
    <3> QED BY <3>1, NoneLiveNoValues DEF NoneLive
  <2>4. \A k : Stored(k)' = <<>> /\ Stored(k) = <<>>
    BY <2>1, <2>2, <2>3 DEF Stored, Area
  <2> QED BY <2>4
<1> QED BY <1>1, <1>2

LEMMA KeyValueStep ==
    ASSUME CopiesWhole, SetKeys \cap AddKeys = {}, ~WipeBoth,
           RestartInv, FitsInv, OrderInv, RestartInv', [Next]_vars
    PROVE  KV!Next \/ \A k \in Key : Stored(k)' = Stored(k)
<1>1. ASSUME NEW k \in Key, NEW v \in Val, caUtilSettingsSet(k, v) \/ caUtilSettingsAdd(k, v)
      PROVE  KV!Next \/ \A i \in Key : Stored(i)' = Stored(i)
  BY <1>1, SameAreas DEF caUtilSettingsSet, caUtilSettingsAdd, Put
<1>2. CASE PutKey
  BY <1>2, KeyWriteWithdraws
<1>3. CASE PutLength \/ PutData
  BY <1>3, UnfinishedIsUnseen
<1>4. CASE PutComplete
  BY <1>4, CompletionStores
<1>5. CASE SwapErase \/ SwapStamp \/ SwapCopy \/ Crash \/ Boot
  BY <1>5, UnseenStep
<1>6. CASE SwapUse \/ SwapRetire
  BY <1>6, SwapEnds, IsRestore
<1>7. CASE \/ \E k \in Key, index \in {-1, 0, 1} : caUtilSettingsDelete(k, index)
           \/ caUtilSettingsWipe \/ UNCHANGED vars
  BY <1>7, SameAreas DEF caUtilSettingsDelete, caUtilSettingsWipe, vars
<1>8. CASE DeleteWrite
  BY <1>8, DeleteWriteRemoves
<1>9. CASE Format \/ FormatStamp
  BY <1>9, FormatForgets
<1> QED
  BY <1>1, <1>2, <1>3, <1>4, <1>5, <1>6, <1>7, <1>8, <1>9 DEF Next

\* Every step of the store, the writes of single words and the power failures
\* between them included, is one of the interface's operations on the values that a
\* restart would find, or changes none of them.  Without ~WipeBoth, a Wipe lets the
\* values of before the last swap be found (see the disagreements).
THEOREM StoreImplementsKeyValue ==
    ASSUME CopiesWhole, SetKeys \cap AddKeys = {}, ~WipeBoth
    PROVE  Spec => StoresKeyValues
<1>1. Init => KV!Init
  BY DEF Init, KV!Init, Stored, InUse, ErasedArea
<1>2. RestartInv /\ FitsInv /\ OrderInv /\ RestartInv' /\ [Next]_vars
          => [KV!Next]_([k \in Key |-> Stored(k)])
  <2> SUFFICES ASSUME RestartInv, FitsInv, OrderInv, RestartInv', [Next]_vars
               PROVE  KV!Next \/ UNCHANGED [k \in Key |-> Stored(k)]
    OBVIOUS
  <2>1. KV!Next \/ \A k \in Key : Stored(k)' = Stored(k)
    BY KeyValueStep
  <2> QED BY <2>1
<1> QED
  BY <1>1, <1>2, RestartInvariant, OrderInvariant, PTL DEF Spec, StoresKeyValues, KV!Spec
============================================================================
