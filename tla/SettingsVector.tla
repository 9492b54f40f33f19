--------------------------- MODULE SettingsVector ---------------------------
(***************************************************************************)
(* addSettingVector writes the elements of a vector one after the other    *)
(* into the data of one block.  Flash is written in words, so an element   *)
(* that begins inside a word shares it with the element before: the word   *)
(* is written again, with 0xff, which changes nothing, where the element   *)
(* has no byte.  Bytes are named by the element and offset they come from. *)
(***************************************************************************)
EXTENDS Integers, Sequences, SequencesExt

CONSTANTS
    Vectors, \* the vectors that are stored: sequences of element lengths
    End      \* the size of the flash after the header, in bytes

ASSUME VectorAssumption == Vectors \subseteq Seq(Nat) /\ End \in Nat

Word == 4
ErasedByte == <<0, 0>>

Minimum(m, n) == IF m < n THEN m ELSE n

\* Bytes of element i, from offset "from", written from an address on.  A byte
\* already written keeps only the bits both have, which is neither of the two.
Written(f, at, i, from, count) ==
    [a \in DOMAIN f |->
        IF a \notin at..(at + count - 1) THEN f[a]
        ELSE IF f[a] = ErasedByte THEN <<i, from + a - at + 1>>
        ELSE <<-1, -1>>]

\* One round of the loop: the rest of the word the address is in, even when
\* the element has fewer bytes or none, then what is left of the element.
headPadCount(at) == at % Word
headDataCount(at, n) == Minimum(Word - headPadCount(at), n)
\* mutant: a word from the address on is skipped
NextWordUnaligned(at) == at + Word
NextWord(at) == at - headPadCount(at) + Word

\* "at" is write_address, counted from the first byte of the block's data
WriteElement(w, i, n) ==
    LET head == headDataCount(w.at, n)
        rest == NextWord(w.at)
    IN  [at    |-> rest + n - head,
         flash |-> Written(Written(w.flash, w.at, i, 0, head), rest, i, head, n - head)]

\* the flash once all elements of v are written
addSettingVector(v) ==
    FoldLeft(LAMBDA w, i : WriteElement(w, i, v[i]),
             [at |-> 0, flash |-> [a \in 0..End - 1 |-> ErasedByte]],
             [i \in DOMAIN v |-> i]).flash

----------------------------------------------------------------------------
\* Where the bytes of the vector belong: without gaps, in the elements' order.
Bytes(v) == FlattenSeq([i \in DOMAIN v |-> [n \in 1..v[i] |-> <<i, n>>]])

\* once all elements are written the block's data is their concatenation, and
\* what follows is still erased
Continuous(v) ==
    LET b == Bytes(v)
        flash == addSettingVector(v)
    IN  \A a \in DOMAIN flash :
            flash[a] = IF a < Len(b) THEN b[a + 1] ELSE ErasedByte

=============================================================================
