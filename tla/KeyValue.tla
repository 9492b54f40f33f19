----------------------------- MODULE KeyValue ------------------------------
(* What cascoda_settings.h promises of the settings store: every key holds *)
(* a sequence of values, changed only by the operations of the interface.  *)
EXTENDS Integers, Sequences, SequencesExt

CONSTANTS Key, Val, \* the keys and the values stored under them
          SetKeys,  \* keys written with caUtilSettingsSet
          AddKeys   \* keys written with caUtilSettingsAdd

VARIABLE values

Set(k, v) == values' = [values EXCEPT ![k] = <<v>>]

\* A power failure inside Set may leave the key without a value: until the
\* next Set, or until the store is compacted and the old value is back, with
\* those of all other keys to which that has happened.
Withdraw(k) == values' = [values EXCEPT ![k] = <<>>]
Restore ==
    \E K \in SUBSET {k \in SetKeys : values[k] = <<>>} : \E old \in [K -> Val] :
        values' = [k \in Key |-> IF k \in K THEN <<old[k]>> ELSE values[k]]

Add(k, v) == values' = [values EXCEPT ![k] = Append(@, v)]

\* one value, or one after the other for index -1
RemoveOne(k, i) == values' = [values EXCEPT ![k] = RemoveAt(@, i)]

Wipe == values' = [k \in Key |-> <<>>]

Init == values = [k \in Key |-> <<>>]

Next ==
    \/ \E k \in SetKeys : Withdraw(k) \/ \E v \in Val : Set(k, v)
    \/ Restore
    \/ \E k \in AddKeys, v \in Val : Add(k, v)
    \/ \E k \in Key : \E i \in DOMAIN values[k] : RemoveOne(k, i)
    \/ Wipe

Spec == Init /\ [][Next]_values
=============================================================================
