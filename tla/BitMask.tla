------------------------------- MODULE BitMask -------------------------------
(***************************************************************************)
(* Bit masks (mask.c), which the garbage collector keeps the heads of      *)
(* objects and its marks in.  A mask is the set of its bits; the           *)
(* operations work on it word by word, and a mask that fits one word takes *)
(* a shorter path.  WordBits is 64 in the code; smaller words let TLC      *)
(* cross word boundaries in small masks.                                   *)
(***************************************************************************)
EXTENDS Integers, FiniteSetsExt

CONSTANTS
    WordBits,
    MaxBits         \* bound: sizes of masks that MasksCorrect looks at
ASSUME WordAssumption == WordBits \in Nat \ {0, 1}

LOCAL W == WordBits

mask_for_range(low, high) == {b \in 0 .. W - 1 : low <= b /\ b <= high}

\* m->ptr[bit / 64], and back: where bits of word i are in the mask.
Word(m, bit) == {b \in 0 .. W - 1 : (bit \div W) * W + b \in m}
InWord(i, bs) == {i * W + b : b \in bs}

\* Mutant of RangeBits: the words of the main loop are not left behind.
RangeBitsStuck(size, start, count) ==
    LET low == start % W
        pre == IF count > 0 /\ low # 0 THEN Min({low + count - 1, W - 1}) - low + 1
                                       ELSE 0
        first == (start + pre) \div W
        full == (count - pre) \div W
        rest == (count - pre) % W
    IN  InWord(start \div W, mask_for_range(low, low + pre - 1))
        \cup UNION {InWord(i, 0 .. W - 1) : i \in first .. first + full - 1}
        \cup InWord(first, mask_for_range(0, rest - 1))

\* The bits that mask_set_range, mask_clear_range and mask_test_range set, clear
\* or test: the rest of the first word, whole words, the beginning of the last.
RangeBits(size, start, count) ==
    LET low == start % W
        pre == IF count > 0 /\ low # 0 THEN Min({low + count - 1, W - 1}) - low + 1
                                       ELSE 0
        first == (start + pre) \div W
        full == (count - pre) \div W
        rest == (count - pre) % W
    IN  IF size <= W THEN mask_for_range(start, start + count - 1)
        ELSE InWord(start \div W, mask_for_range(low, low + pre - 1))
             \cup UNION {InWord(i, 0 .. W - 1) : i \in first .. first + full - 1}
             \cup InWord(first + full, mask_for_range(0, rest - 1))

mask_set_range(m, size, start, count) == m \cup RangeBits(size, start, count)
mask_clear_range(m, size, start, count) == m \ RangeBits(size, start, count)
mask_test_range(m, size, start, count) == m \cap RangeBits(size, start, count) # {}

\* The last set bit up to this one, or -1.
mask_scan_backwards(m, size, bit) ==
    LET word0 == Word(m, bit) \cap mask_for_range(0, bit % W)
        Skip[i \in -1 .. size] ==
            IF i > 0 /\ Word(m, i) = {} THEN Skip[IF i >= W THEN i - W ELSE -1]
                                        ELSE i
        below == Skip[bit - ((bit % W) + 1)]
    IN  IF size <= W
        THEN Max({-1} \cup (m \cap mask_for_range(0, bit)))
        ELSE IF word0 # {} THEN (bit \div W) * W + Max(word0)
        ELSE IF below > 0 THEN (below \div W) * W + Max(Word(m, below))
        ELSE -1

\* How many bits are clear from this one on.
mask_count_clear(m, size, bit) ==
    LET low == bit % W
        maxbits == Min({W, size - (bit - low)})
        word0 == Word(m, bit) \cap mask_for_range(low, maxbits - 1)
        \* from the beginning of a word: whole words, then the last one
        Count[b \in 0 .. size] ==
            IF b = size THEN 0
            ELSE IF b + W < size /\ Word(m, b) = {} THEN W + Count[b + W]
            ELSE IF Word(m, b) # {} THEN Min(Word(m, b))
            ELSE size - b
    IN  IF size <= W
        THEN Min({size} \cup (m \cap mask_for_range(bit, W - 1))) - bit
        ELSE IF low = 0 THEN Count[bit]
        ELSE IF word0 # {} THEN Min(word0) - low
        ELSE maxbits - low + Count[bit + maxbits - low]

-----------------------------------------------------------------------------
(* What the operations are meant to compute *)

\* The scans find the last bit set up to a bit and count the bits clear from a
\* bit on, and a range is set, cleared or tested and nothing else, for every mask
\* of up to MaxBits bits, one word or several, full or partial words.
MasksCorrect ==
    \A size \in 1 .. MaxBits : \A m \in SUBSET (0 .. size - 1) :
    \A b \in 0 .. size - 1 :
        /\ mask_scan_backwards(m, size, b) = Max({-1} \cup {h \in m : h <= b})
        /\ mask_count_clear(m, size, b) = Min({size} \cup {h \in m : h >= b}) - b
        /\ \A count \in 1 .. size - b :
              LET range == b .. b + count - 1
              IN  /\ mask_set_range(m, size, b, count) = m \cup range
                  /\ mask_clear_range(m, size, b, count) = m \ range
                  /\ mask_test_range(m, size, b, count) = (m \cap range # {})
=============================================================================
