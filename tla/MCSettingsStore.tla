-------------------------- MODULE MCSettingsStore --------------------------
(* Model checking SettingsStore: areas that hold three or four values; and *)
(* SettingsVector: vectors of three elements at most.                      *)
EXTENDS SettingsStore, SettingsVector

CONSTANTS k1, k2, v1, v2

OneKey  == {k1}
Keys    == {k1, k2}
Second  == {k2}
TwoVals == {v1, v2}
Twelve  == [v \in Val |-> 12]   \* copied whole by a swap
Four    == [v \in Val |-> 4]    \* not copied by a swap

\* elements that reach the next word wherever they begin, the last of any length
UpTo2(lengths) == UNION {[1..n -> lengths] : n \in 1..2}
Words == {Append(v, n) : v \in {<<>>} \cup UpTo2(4..9), n \in 0..9}

\* cascoda_settings.h, AddVector: "Stored in continuous flash within the
\* setting": whatever the lengths of its elements, Get returns a vector as it
\* was given, and the block behind it finds erased flash.  (The state plays no
\* part: it is evaluated before the first operation only.)
StoredContinuously ==
    pc = "off" /\ ops = 0 /\ crashes = 0 => \A v \in Vectors : Continuous(v)
=============================================================================
