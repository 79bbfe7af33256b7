------------------------------- MODULE Bitmap -------------------------------
(***************************************************************************)
(* The bitmap view of crates/athera-bitmap, on which the inode and zone    *)
(* bitmaps of the MINIX file system are allocated.  A word is the set of   *)
(* the positions that are 1 in it, and the masks of the code are sets.     *)
(***************************************************************************)
EXTENDS Integers, FiniteSets, FiniteSetsExt

CONSTANT WORD_BITS

NoBit == -1
WordAll == 0 .. (WORD_BITS - 1)

is_bit_set(words, index) == index % WORD_BITS \in words[index \div WORD_BITS]

set_bit(words, index) ==
  [words EXCEPT ![index \div WORD_BITS] = @ \cup {index % WORD_BITS}]

clear_bit(words, index) ==
  [words EXCEPT ![index \div WORD_BITS] = @ \ {index % WORD_BITS}]

\* The first free bit from start on.  Bits from bits on are masked in the last
\* word of the slice only, whichever word the limit lies in.
scan_words(words, bits, start) ==
  LET last == Cardinality(DOMAIN words) - 1
      Before(w) == IF w = start \div WORD_BITS THEN 0 .. ((start % WORD_BITS) - 1) ELSE {}
      Reserved(w) ==
        IF w = last /\ bits % WORD_BITS # 0 THEN (bits % WORD_BITS) .. (WORD_BITS - 1) ELSE {}
      Candidates(w) == WordAll \ (words[w] \cup Before(w) \cup Reserved(w))
      hits == {w \in (start \div WORD_BITS) .. last : Candidates(w) # {}}
  IN  IF start >= bits \/ hits = {}
      THEN NoBit
      ELSE Min(hits) * WORD_BITS + Min(Candidates(Min(hits)))

Took(words, bit) ==
  [bit |-> bit, words |-> IF bit = NoBit THEN words ELSE set_bit(words, bit)]

\* BitMapView::alloc_from: the bit, if there is one, and the words with it set
alloc_from(words, bits, start) == Took(words, scan_words(words, bits, start))

\* BitMapView::clear: an index out of range is refused, a free bit is not
clear(words, bits, index) ==
  IF index < bits THEN clear_bit(words, index) ELSE words

=============================================================================
