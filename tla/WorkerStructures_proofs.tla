------------------------ MODULE WorkerStructures_proofs ---------------------
(***************************************************************************)
(* Proofs about the data structures of the DATA worker, for every size and *)
(* every set of values: the replay window, the session table and the ring. *)
(***************************************************************************)
EXTENDS WorkerStructures, FiniteSetTheorems, WellFoundedInduction, TLAPS

LEMMA Widths ==
  /\ WordBits \in Nat \ {0} /\ word_count \in Nat \ {0} /\ Expiry \in Nat \ {0}
  /\ SlotCount \in Nat \ {0} /\ 0 \notin Keys /\ 0 \notin Sessions
BY TableAssumption, WindowAssumption

-----------------------------------------------------------------------------
(* The replay window.  Offset d behind the highest sequence is bit         *)
(* d % WordBits of word d \div WordBits; a shift moves what each offset    *)
(* says, and the offsets of a window say which sequences were committed.   *)

Offsets == 0..Window!window_size - 1
Says(bitmap, d) == d % WordBits \in bitmap[d \div WordBits]

WindowInv ==
  /\ Window!TypeOK
  /\ ~initialized => highest = 0 /\ committed = {} /\ words = [i \in Window!Words |-> {}]
  /\ initialized => highest \in committed /\ \A s \in committed : s <= highest
  /\ initialized => \A d \in Offsets : Says(words, d) <=> highest - d \in committed

LEMMA Division ==
  ASSUME NEW d \in Nat
  PROVE  /\ d \div WordBits \in Nat /\ d % WordBits \in Window!Bits
         /\ d = (d \div WordBits) * WordBits + (d % WordBits)
BY Widths DEF Window!Bits

LEMMA Later ==
  ASSUME NEW p \in Int, NEW q \in Int, p < q
  PROVE  p * WordBits + WordBits <= q * WordBits
BY Widths

\* Quotient and remainder are what they have to be.
LEMMA Unique ==
  ASSUME NEW d \in Nat, NEW q \in Int, NEW r \in Window!Bits, d = q * WordBits + r
  PROVE  d \div WordBits = q /\ d % WordBits = r
<1> DEFINE p == d \div WordBits
           s == d % WordBits
<1>1. p \in Int /\ s \in Window!Bits /\ d = p * WordBits + s
  BY Division
<1> HIDE DEF p, s
<1>2. /\ p * WordBits \in Int /\ q * WordBits \in Int
      /\ r \in Int /\ s \in Int /\ 0 <= r /\ r < WordBits /\ 0 <= s /\ s < WordBits
  BY <1>1, Widths DEF Window!Bits
<1>3. ~(p < q)
  BY <1>1, <1>2, Later, Widths
<1>4. ~(q < p)
  BY <1>1, <1>2, Later, Widths
<1>5. p = q
  BY <1>1, <1>3, <1>4
<1>6. r = s
  BY <1>1, <1>2, <1>5
<1>. QED
  BY <1>5, <1>6 DEF p, s

LEMMA SameBit ==
  ASSUME NEW d \in Nat, NEW e \in Nat,
         d \div WordBits = e \div WordBits, d % WordBits = e % WordBits
  PROVE  d = e
BY Division

LEMMA Zero == 0 \div WordBits = 0 /\ 0 % WordBits = 0
<1>1. 0 = 0 * WordBits + 0 /\ 0 \in Window!Bits
  BY Widths DEF Window!Bits
<1>. QED
  BY <1>1, Unique

\* The offsets are the bits of the words.
LEMMA InWindow ==
  ASSUME NEW d \in Nat
  PROVE  /\ d \in Offsets <=> d \div WordBits \in Window!Words
         /\ Window!window_size \in Nat \ {0} /\ 0 \in Offsets /\ 0 \in Window!Words
<1> DEFINE q == d \div WordBits
           r == d % WordBits
<1>1. q \in Nat /\ r \in Nat /\ r < WordBits /\ d = q * WordBits + r
  BY Division, Widths DEF Window!Bits
<1> HIDE DEF q, r
<1>2. word_count \in Nat \ {0} /\ WordBits \in Nat \ {0}
      /\ word_count * WordBits \in Nat \ {0}
  BY Widths
<1>3. Window!window_size = word_count * WordBits
  BY <1>2 DEF Window!window_size
<1>4. q < word_count => d < word_count * WordBits
  <2>1. q < word_count => q * WordBits + WordBits <= word_count * WordBits
    BY <1>1, <1>2, Later, Widths
  <2>2. q * WordBits \in Int
    BY <1>1, <1>2
  <2>. QED  BY <1>1, <1>2, <2>1, <2>2
<1>5. ~(q < word_count) => ~(d < word_count * WordBits)
  <2>1. ~(q < word_count) => word_count * WordBits <= q * WordBits
    BY <1>1, <1>2, Later, Widths
  <2>2. q * WordBits \in Int
    BY <1>1, <1>2
  <2>. QED  BY <1>1, <1>2, <2>1, <2>2
<1>6. d \in Offsets <=> q \in Window!Words
  BY <1>1, <1>2, <1>3, <1>4, <1>5 DEF Offsets, Window!Words
<1>. QED
  BY <1>2, <1>3, <1>6 DEF q, Offsets, Window!Words

\* shift moves every offset by the amount, carries between words included.
LEMMA ShiftMoves ==
  ASSUME words \in [Window!Words -> SUBSET Window!Bits],
         NEW amount \in Nat, amount < Window!window_size, NEW d \in Offsets
  PROVE  Says(Window!Shifted(amount), d) <=> d >= amount /\ Says(words, d - amount)
<1> DEFINE W == WordBits
           q == d \div W
           r == d % W
           a == amount \div W
           s == amount % W
<1>0. d \in Nat /\ q \in Window!Words
  BY InWindow DEF Offsets
<1>1. q \in Nat /\ r \in Window!Bits /\ d = q * W + r
  BY <1>0, Division
<1>2. a \in Nat /\ s \in Window!Bits /\ amount = a * W + s
  BY Division
<1>3. W \in Nat \ {0} /\ word_count \in Nat \ {0} /\ Window!window_size \in Nat
  BY Widths, InWindow
<1> DEFINE source == q - a
           Carry(n) == IF s # 0 /\ n > 0 THEN Window!ShiftRight(words[n - 1], W - s) ELSE {}
<1>4. Window!Shifted(amount)[q] =
        IF q < a THEN {} ELSE Window!ShiftLeft(words[source], s) \cup Carry(source)
  BY <1>0, <1>3 DEF Window!Shifted
<1>. HIDE DEF W, q, r, a, s
<1>5. /\ d - amount = source * W + (r - s)
      /\ d - amount = (source - 1) * W + (r - s + W)
  BY <1>1, <1>2, <1>3 DEF Window!Bits
<1>6. /\ r \in Int /\ s \in Int /\ 0 <= r /\ r < W /\ 0 <= s /\ s < W
      /\ d \in Int /\ amount \in Int /\ source \in Int /\ source * W \in Int
  BY <1>1, <1>2, <1>3 DEF Window!Bits, W
<1>7. ASSUME q < a PROVE Says(Window!Shifted(amount), d) <=> d >= amount /\ Says(words, d - amount)
  <2>1. source * W + W <= 0
    BY <1>6, <1>7, <1>1, <1>2, Later, <1>3 DEF W
  <2>2. d < amount
    BY <1>3, <1>5, <1>6, <2>1
  <2>3. Window!Shifted(amount)[q] = {}
    BY <1>4, <1>7
  <2>. QED  BY <2>2, <2>3, <1>6 DEF Says, q, W
<1>8. ASSUME q >= a, r >= s PROVE Says(Window!Shifted(amount), d) <=> d >= amount /\ Says(words, d - amount)
  <2>1. source * W >= 0 /\ source \in Nat
    BY <1>1, <1>2, <1>3, <1>8
  <2>2. d >= amount /\ d - amount \in Nat
    BY <1>3, <1>5, <1>6, <1>8, <2>1
  <2>3. r - s \in Window!Bits
    BY Widths, <1>6, <1>8 DEF Window!Bits, W
  <2>4. (d - amount) \div W = source /\ (d - amount) % W = r - s
    BY <1>5, <2>1, <2>2, <2>3, Unique DEF W
  <2>5. r \in Window!ShiftLeft(words[source], s) <=> r - s \in words[source]
    BY <1>1 DEF Window!ShiftLeft
  <2>6. r \notin Carry(source)
    <3>1. source > 0 => source - 1 \in Window!Words
      BY <1>0, <1>1, <1>2, <1>3, <2>1 DEF Window!Words
    <3>2. r + (W - s) \notin Window!Bits
      BY Widths, <1>6, <1>8 DEF Window!Bits, W
    <3>. QED  BY <3>1, <3>2 DEF Window!ShiftRight
  <2>7. r \in Window!Shifted(amount)[q] <=> r - s \in words[source]
    BY <1>1, <1>2, <1>4, <1>8, <2>5, <2>6
  <2>. QED  BY <2>2, <2>4, <2>7 DEF Says, q, r, W
<1>9. ASSUME q >= a, r < s PROVE Says(Window!Shifted(amount), d) <=> d >= amount /\ Says(words, d - amount)
  <2>1. source \in Nat /\ source \in Window!Words
    BY <1>0, <1>1, <1>2, <1>3, <1>9 DEF Window!Words
  <2>2. r \notin Window!ShiftLeft(words[source], s)
    <3>1. r - s \notin Window!Bits
      BY Widths, <1>6, <1>9 DEF Window!Bits
    <3>. QED  BY <2>1, <3>1 DEF Window!ShiftLeft
  <2>3. ASSUME source = 0 PROVE Says(Window!Shifted(amount), d) <=> d >= amount /\ Says(words, d - amount)
    <3>1. source * W = 0
      BY <2>3, <1>3
    <3>2. d < amount
      BY <1>3, <1>5, <1>6, <1>9, <3>1
    <3>3. Carry(source) = {}
      BY <2>3
    <3>4. r \notin Window!Shifted(amount)[q]
      BY <1>1, <1>2, <1>4, <1>9, <2>2, <3>3
    <3>. QED  BY <1>6, <3>2, <3>4 DEF Says, q, r, W
  <2>4. ASSUME source > 0 PROVE Says(Window!Shifted(amount), d) <=> d >= amount /\ Says(words, d - amount)
    <3>1. (source - 1) * W \in Nat /\ source - 1 \in Nat
      BY <2>1, <2>4, <1>3
    <3>2. d - amount \in Nat /\ d >= amount
      BY <1>3, <1>5, <1>6, <1>9, <3>1
    <3>3. r - s + W \in Window!Bits
      BY Widths, <1>6, <1>9 DEF Window!Bits, W
    <3>4. (d - amount) \div W = source - 1 /\ (d - amount) % W = r - s + W
      BY <1>5, <3>1, <3>2, <3>3, Unique DEF W
    <3>5. r \in Carry(source) <=> r + (W - s) \in words[source - 1]
      BY <1>1, <1>6, <1>9, <2>4 DEF Window!ShiftRight
    <3>6. r \in Window!Shifted(amount)[q] <=> r - s + W \in words[source - 1]
      <4>1. r + (W - s) = r - s + W
        BY <1>3, <1>6
      <4>. QED  BY <1>1, <1>2, <1>4, <1>9, <2>2, <3>5, <4>1
    <3>. QED  BY <3>2, <3>4, <3>6 DEF Says, q, r, W
  <2>. QED  BY <2>1, <2>3, <2>4
<1>. QED
  BY <1>1, <1>2, <1>6, <1>7, <1>8, <1>9

\* The three ways in which a sequence is committed.
LEMMA FirstMark ==
  ASSUME NEW d \in Offsets
  PROVE  Says([[i \in Window!Words |-> {}] EXCEPT ![0] = {0}], d) <=> d = 0
<1>1. d \in Nat /\ d \div WordBits \in Window!Words /\ 0 \in Window!Words
  BY InWindow DEF Offsets
<1>2. d = 0 <=> d \div WordBits = 0 /\ d % WordBits = 0
  BY <1>1, Zero, SameBit
<1>. QED
  BY <1>1, <1>2 DEF Says

LEMMA OneMark ==
  ASSUME NEW bitmap \in [Window!Words -> SUBSET Window!Bits],
         NEW d \in Offsets, NEW e \in Offsets
  PROVE  Says([bitmap EXCEPT ![e \div WordBits] = @ \cup {e % WordBits}], d)
           <=> Says(bitmap, d) \/ d = e
<1>1. /\ d \in Nat /\ d \div WordBits \in Window!Words
      /\ e \in Nat /\ e \div WordBits \in Window!Words
  BY InWindow DEF Offsets
<1>2. d = e <=> d \div WordBits = e \div WordBits /\ d % WordBits = e % WordBits
  BY <1>1, SameBit
<1>. QED
  BY <1>1, <1>2 DEF Says

LEMMA ShiftTyped ==
  ASSUME words \in [Window!Words -> SUBSET Window!Bits], NEW amount \in Nat
  PROVE  Window!Shifted(amount) \in [Window!Words -> SUBSET Window!Bits]
BY DEF Window!Shifted, Window!ShiftLeft, Window!ShiftRight

\* What a window holds after a commit.
After(bitmap, top, set) ==
  /\ top \in 0..Expiry - 1 /\ bitmap \in [Window!Words -> SUBSET Window!Bits]
  /\ top \in set /\ \A c \in set : c <= top
  /\ \A d \in Offsets : Says(bitmap, d) <=> top - d \in set

\* What an authentic datagram that passes the check does to the window.
LEMMA CommitStep ==
  ASSUME WindowInv, NEW sequence \in Window!Sequences, Window!commit(sequence)
  PROVE  WindowInv'
<1> USE DEF WindowInv
<1>1. /\ initialized \in BOOLEAN /\ highest \in 0..Expiry - 1 /\ sequence \in 0..Expiry - 1
      /\ words \in [Window!Words -> SUBSET Window!Bits]
      /\ committed \subseteq 0..Expiry - 1 /\ highest \in Nat /\ sequence \in Nat
      /\ 0 \in Window!Words /\ 0 \in Window!Bits /\ Window!window_size \in Nat \ {0}
      /\ 0 \in Offsets
  BY InWindow, Widths DEF Window!TypeOK, Window!Sequences, Window!Bits
<1>2. initialized' = TRUE /\ committed' = committed \cup {sequence}
      /\ Window!check(sequence)
  BY DEF Window!commit
<1>3. After(words', highest', committed')
  <2>1. ASSUME ~initialized, highest' = sequence, words' = [words EXCEPT ![0] = {0}]
        PROVE  After(words', highest', committed')
    <3>1. words' = [[i \in Window!Words |-> {}] EXCEPT ![0] = {0}] /\ committed' = {sequence}
      BY <1>2, <2>1
    <3>2. \A d \in Offsets : d \in Int
      BY DEF Offsets
    <3>3. \A d \in Offsets : sequence - d = sequence <=> d = 0
      BY <1>1, <3>2
    <3>4. words' \in [Window!Words -> SUBSET Window!Bits]
      BY <1>1, <2>1
    <3>5. \A d \in Offsets : Says(words', d) <=> sequence - d \in committed'
      BY <3>1, <3>3, FirstMark
    <3>6. highest' = sequence
      BY <2>1
    <3>. QED  BY <1>1, <3>1, <3>4, <3>5, <3>6 DEF After
  <2>2. ASSUME initialized, sequence > highest, highest' = sequence,
               words' = [Window!Shifted(Window!Smaller(sequence - highest, Window!window_size))
                           EXCEPT ![0] = @ \cup {0}]
        PROVE  After(words', highest', committed')
    <3> DEFINE amount == Window!Smaller(sequence - highest, Window!window_size)
               shifted == Window!Shifted(amount)
    <3>0. initialized /\ sequence > highest /\ highest' = sequence
      BY <2>2
    <3>1. amount \in Nat /\ \A c \in committed : c <= highest /\ c \in Int
      BY <1>1, <2>2 DEF Window!Smaller
    <3>2. shifted \in [Window!Words -> SUBSET Window!Bits]
      BY <1>1, <3>1, ShiftTyped
    <3>3. words' \in [Window!Words -> SUBSET Window!Bits]
      BY <1>1, <2>2, <3>2
    <3>4. ASSUME NEW d \in Offsets
          PROVE  Says(words', d) <=> sequence - d \in committed'
      <4>1. Says(words', d) <=> Says(shifted, d) \/ d = 0
        <5>1. words' = [shifted EXCEPT ![0 \div WordBits] = @ \cup {0 % WordBits}]
          BY <2>2, Zero
        <5>. QED  BY <1>1, <3>2, <5>1, OneMark
      <4>2. d \in Nat /\ d < Window!window_size
        BY <1>1 DEF Offsets
      <4>3. ASSUME d < sequence - highest
            PROVE  ~Says(shifted, d) /\ sequence - d \notin committed
        <5>1. sequence - d \notin committed
          BY <1>1, <3>1, <4>2, <4>3
        <5>2. CASE amount < Window!window_size
          <6>1. amount = sequence - highest
            BY <1>1, <5>2, <2>2 DEF Window!Smaller
          <6>. QED  BY <1>1, <3>1, <4>2, <4>3, <5>1, <5>2, <6>1, ShiftMoves
        <5>3. CASE ~(amount < Window!window_size)
          <6>1. shifted = [i \in Window!Words |-> {}]
            BY <1>1, <3>1, <5>3 DEF Window!Shifted
          <6>. QED  BY <4>2, <5>1, <6>1, InWindow DEF Says
        <5>. QED  BY <5>2, <5>3
      <4>4. ASSUME ~(d < sequence - highest)
            PROVE  Says(shifted, d) <=> sequence - d \in committed
        <5>1. amount = sequence - highest /\ amount < Window!window_size
          BY <1>1, <3>0, <4>2, <4>4 DEF Window!Smaller
        <5> HIDE DEF amount
        <5>2. d - amount \in Offsets /\ d >= amount /\ highest - (d - amount) = sequence - d
          BY <1>1, <3>1, <4>2, <4>4, <5>1 DEF Offsets
        <5>3. Says(shifted, d) <=> Says(words, d - amount)
          BY <1>1, <3>1, <5>1, <5>2, ShiftMoves
        <5>. QED  BY <3>0, <5>2, <5>3
      <4>5. sequence - d = sequence <=> d = 0
        BY <1>1, <4>2
      <4>6. sequence - d \in committed' <=> sequence - d \in committed \/ d = 0
        BY <1>2, <4>5
      <4> HIDE DEF shifted, amount
      <4>. QED  BY <4>1, <4>3, <4>4, <4>6
    <3>. QED  BY <1>1, <1>2, <3>0, <3>1, <3>3, <3>4 DEF After
  <2>3. ASSUME initialized, sequence <= highest, highest' = highest,
               words' = [words EXCEPT ![Window!Word(sequence)] = @ \cup {Window!Bit(sequence)}]
        PROVE  After(words', highest', committed')
    <3> DEFINE e == highest - sequence
    <3>1. e \in Offsets /\ e \in Nat /\ highest - e = sequence
      BY <1>1, <1>2, <2>3 DEF Window!check, Offsets
    <3>2. words' = [words EXCEPT ![e \div WordBits] = @ \cup {e % WordBits}]
      BY <2>3 DEF Window!Word, Window!Bit
    <3>3. e \div WordBits \in Window!Words /\ e % WordBits \in Window!Bits
      BY <3>1, InWindow, Division
    <3>4. words' \in [Window!Words -> SUBSET Window!Bits]
      BY <1>1, <3>2, <3>3
    <3>5. \A d \in Offsets : d \in Int
      BY DEF Offsets
    <3>6. \A d \in Offsets : highest - d = sequence <=> d = e
      BY <1>1, <3>1, <3>5
    <3>7. \A d \in Offsets : Says(words', d) <=> Says(words, d) \/ d = e
      BY <1>1, <3>1, <3>2, OneMark
    <3>. QED  BY <1>1, <1>2, <2>3, <3>4, <3>6, <3>7 DEF After
  <2>. QED
    BY <1>1, <2>1, <2>2, <2>3 DEF Window!commit
<1>. QED
  BY <1>1, <1>2, <1>3 DEF After, Window!TypeOK, Window!Sequences

LEMMA WindowInitially == Window!Init => WindowInv
<1> SUFFICES ASSUME Window!Init PROVE WindowInv
  OBVIOUS
<1>1. words \in [Window!Words -> SUBSET Window!Bits] /\ 0 \in 0..Expiry - 1
  BY Widths DEF Window!Init
<1>. QED
  BY <1>1 DEF Window!Init, WindowInv, Window!TypeOK, Window!Sequences

LEMMA WindowExact == WindowInv => Window!TypeOK /\ Window!AcceptsExactlyNew
<1> SUFFICES ASSUME WindowInv, NEW sequence \in Window!Sequences
             PROVE  Window!check(sequence) <=>
                      /\ sequence \notin committed
                      /\ \A other \in committed : other - sequence < Window!window_size
  BY DEF WindowInv, Window!AcceptsExactlyNew
<1> USE DEF WindowInv
<1>1. /\ initialized \in BOOLEAN /\ highest \in Nat /\ sequence \in Nat
      /\ \A c \in committed : c \in Nat /\ Window!window_size \in Nat \ {0}
      /\ Window!window_size \in Nat \ {0}
  BY InWindow, Widths DEF Window!TypeOK, Window!Sequences
<1>2. CASE ~initialized
  BY <1>2 DEF Window!check
<1>3. CASE initialized /\ sequence > highest
  BY <1>1, <1>3 DEF Window!check
<1>4. CASE initialized /\ sequence <= highest
  <2> DEFINE e == highest - sequence
  <2>1. e \in Nat /\ highest - e = sequence
    BY <1>1, <1>4
  <2>2. e < Window!window_size => (Says(words, e) <=> sequence \in committed)
    BY <1>1, <1>4, <2>1 DEF Offsets
  <2>3. Window!check(sequence) <=> e < Window!window_size /\ ~Says(words, e)
    BY <1>4 DEF Window!check, Says, Window!Word, Window!Bit
  <2>4. e < Window!window_size <=> \A other \in committed : other - sequence < Window!window_size
    BY <1>1, <1>4
  <2>. QED
    BY <2>2, <2>3, <2>4
<1>. QED
  BY <1>1, <1>2, <1>3, <1>4

\* replay.zig accepts a sequence exactly when it was not accepted before and is
\* within the window, at every width of a word, number of words and order of
\* arrival: no shift loses a bit, leaves one, or carries one to a wrong place.
THEOREM WindowAccepts == Structures => []WindowIsExact
<1>1. Every => WindowInv
  BY WindowInitially DEF Every
<1>2. WindowInv /\ [Advance /\ UNCHANGED structure]_<<ringVars, tableVars, windowVars>> => WindowInv'
  <2> SUFFICES ASSUME WindowInv, [Advance /\ UNCHANGED structure]_<<ringVars, tableVars, windowVars>>
               PROVE  WindowInv'
    OBVIOUS
  <2>1. CASE Window!Next
    BY <2>1, CommitStep DEF Window!Next
  <2>2. CASE UNCHANGED windowVars
    BY <2>2 DEF windowVars, WindowInv, Window!TypeOK, Says
  <2>. QED
    BY <2>1, <2>2 DEF Advance, windowVars
<1>3. WindowInv => WindowIsExact
  BY WindowExact DEF WindowIsExact
<1>. QED
  BY <1>1, <1>2, <1>3, PTL DEF Structures

-----------------------------------------------------------------------------
(* The session table.  A key is found where it is held, because no slot    *)
(* before it on its probe is empty; it is held once.                       *)

Held(k, p) == Table!Holds(slots[p], k)
Taken == {p \in Table!Slots : slots[p].state = "occupied"}
Present == {k \in Keys : Table!Lookup(k) # 0}

\* What holds of each occupied slot.
Reached(p) ==
  /\ slots[p].key \in Keys /\ slots[p].value \in Sessions
  /\ \A i \in Table!Slots :
       Table!Probe(slots[p].key, i) = p => i \in Table!Visited(slots[p].key)
Placement ==
  /\ Table!TypeOK
  /\ \A p \in Table!Slots : slots[p].state # "occupied" => slots[p].value = 0
  /\ \A p \in Taken : Reached(p)
  /\ \A p, q \in Taken : slots[p].key = slots[q].key => p = q

Found ==
  \A k \in Keys :
    /\ \A p \in Table!Slots : Held(k, p) =>
         /\ Table!Lookup(k) = slots[p].value /\ Table!Lookup(k) # 0
         /\ Table!Matches(k) # {} /\ Table!Probe(k, Table!First(Table!Matches(k))) = p
    /\ (\A p \in Table!Slots : ~Held(k, p)) => Table!Lookup(k) = 0 /\ Table!Matches(k) = {}

Counted ==
  /\ count = Cardinality(Taken)
  /\ IsFiniteSet(Present) /\ count = Cardinality(Present)

TableInv == Placement /\ Counted

\* A set of slots has a first one.
LEMMA LeastExists ==
  ASSUME NEW S \in SUBSET Nat, S # {}
  PROVE  \E i \in S : \A j \in S : i <= j
<1> DEFINE R == {ss \in Nat \X Nat : ss[1] < ss[2]}
<1>1. \A x, y \in Nat : <<y, x>> \in R <=> y < x
  OBVIOUS
<1>2. IsWellFoundedOn(R, Nat)
  BY NatLessThanWellFounded, Zenon DEF OpToRel
<1> HIDE DEF R
<1>3. \E x \in S : \A y \in S : ~(<<y, x>> \in R)
  BY <1>2, WFMin, Zenon
<1>4. \E x \in S : \A y \in S : ~(y < x)
  BY <1>1, <1>3, Zenon
<1>5. \A x, y \in Nat : ~(y < x) => x <= y
  OBVIOUS
<1>. QED
  BY <1>4, <1>5, Zenon

\* A probe comes to every slot once.
LEMMA Probes ==
  ASSUME Table!TypeOK, NEW k \in Keys
  PROVE  /\ \A i \in Table!Slots : Table!Probe(k, i) \in Table!Slots
         /\ \A p \in Table!Slots : \E i \in Table!Slots : Table!Probe(k, i) = p
         /\ \A i, j \in Table!Slots : Table!Probe(k, i) = Table!Probe(k, j) => i = j
<1> DEFINE h == hash[k]
           Round(x) == IF x < SlotCount THEN x ELSE x - SlotCount
<1>1. h \in 0..SlotCount - 1 /\ SlotCount \in Nat \ {0}
  BY Widths DEF Table!TypeOK, Table!Slots
<1>2. ASSUME NEW i \in 0..SlotCount - 1 PROVE Table!Probe(k, i) = Round(h + i)
  <2> HIDE DEF h
  <2>1. h + i \in 0..2 * SlotCount - 2
    BY <1>1, <1>2
  <2>2. (h + i) % SlotCount = Round(h + i)
    BY <1>1, <2>1
  <2>. QED  BY <2>2 DEF Table!Probe, h
<1> HIDE DEF h
<1>3. \A i \in 0..SlotCount - 1 : Round(h + i) \in 0..SlotCount - 1
  BY <1>1
<1>4. ASSUME NEW p \in 0..SlotCount - 1 PROVE \E i \in 0..SlotCount - 1 : Round(h + i) = p
  <2>1. CASE p >= h
    <3>1. p - h \in 0..SlotCount - 1 /\ Round(h + (p - h)) = p
      BY <1>1, <2>1
    <3>. QED  BY <3>1
  <2>2. CASE p < h
    <3>1. p - h + SlotCount \in 0..SlotCount - 1 /\ Round(h + (p - h + SlotCount)) = p
      BY <1>1, <2>2
    <3>. QED  BY <3>1
  <2>. QED  BY <1>1, <2>1, <2>2
<1>5. \A i, j \in 0..SlotCount - 1 : Round(h + i) = Round(h + j) => i = j
  BY <1>1
<1> HIDE DEF Round
<1>. QED
  BY <1>2, <1>3, <1>4, <1>5 DEF Table!Slots

LEMMA FirstIs ==
  ASSUME NEW S \in SUBSET Table!Slots, S # {}
  PROVE  Table!First(S) \in S
<1>1. \E i \in S : \A j \in S : i <= j
  BY LeastExists DEF Table!Slots
<1>. QED
  BY <1>1 DEF Table!First

LEMMA FirstOfOne == ASSUME NEW i PROVE Table!First({i}) = i
BY DEF Table!First

LEMMA Finds == Placement => Found
<1> SUFFICES ASSUME Placement, NEW k \in Keys
             PROVE  /\ \A p \in Table!Slots : Held(k, p) =>
                         /\ Table!Lookup(k) = slots[p].value /\ Table!Lookup(k) # 0
                         /\ Table!Matches(k) # {}
                         /\ Table!Probe(k, Table!First(Table!Matches(k))) = p
                    /\ (\A p \in Table!Slots : ~Held(k, p)) =>
                         Table!Lookup(k) = 0 /\ Table!Matches(k) = {}
  BY DEF Found
<1>0. Table!TypeOK
  BY DEF Placement
<1>1. ASSUME NEW p \in Table!Slots, Held(k, p)
      PROVE  /\ Table!Lookup(k) = slots[p].value /\ Table!Lookup(k) # 0
             /\ Table!Matches(k) # {}
             /\ Table!Probe(k, Table!First(Table!Matches(k))) = p
  <2>1. PICK i \in Table!Slots : Table!Probe(k, i) = p
    BY <1>0, Probes
  <2>2. p \in Taken /\ slots[p].key = k
    BY <1>1 DEF Held, Table!Holds, Taken
  <2>3. i \in Table!Visited(k) /\ slots[p].value \in Sessions
    BY <2>1, <2>2 DEF Placement, Reached
  <2>4. i \in Table!Matches(k)
    BY <1>1, <2>1, <2>3 DEF Table!Matches, Held
  <2>5. ASSUME NEW j \in Table!Matches(k) PROVE j = i
    <3>1. j \in Table!Slots /\ Table!Holds(slots[Table!Probe(k, j)], k)
      BY DEF Table!Matches, Table!Visited
    <3>2. Table!Probe(k, j) \in Taken /\ slots[Table!Probe(k, j)].key = k
      BY <1>0, <3>1, Probes DEF Taken, Table!Holds
    <3>3. Table!Probe(k, j) = p
      BY <2>2, <3>2 DEF Placement
    <3>. QED  BY <1>0, <2>1, <3>1, <3>3, Probes
  <2>6. Table!Matches(k) = {i}
    BY <2>4, <2>5
  <2>7. Table!First(Table!Matches(k)) = i
    BY <2>6, FirstOfOne
  <2>8. Table!Lookup(k) = slots[p].value
    BY <2>1, <2>6, <2>7 DEF Table!Lookup
  <2>. QED
    BY <2>1, <2>3, <2>6, <2>7, <2>8, Widths
<1>2. ASSUME \A p \in Table!Slots : ~Held(k, p)
      PROVE  Table!Lookup(k) = 0 /\ Table!Matches(k) = {}
  <2>1. Table!Matches(k) = {}
    BY <1>0, <1>2, Probes DEF Table!Matches, Table!Visited, Held
  <2>. QED  BY <2>1 DEF Table!Lookup
<1>. QED
  BY <1>1, <1>2

\* What a slot that is written or vacated does to the others.
LEMMA PlacementStep ==
  ASSUME Placement, NEW p \in Table!Slots, NEW new \in Table!Slot,
         slots' = [slots EXCEPT ![p] = new], hash' = hash, Table!TypeOK',
         new.state # "empty", new.state # "occupied" => new.value = 0,
         new.state = "occupied" =>
           /\ new.key \in Keys /\ new.value \in Sessions
           /\ \E i \in Table!Visited(new.key) : Table!Probe(new.key, i) = p
           /\ \A q \in Taken : slots[q].key = new.key => q = p
  PROVE  Placement'
<1>0. Table!TypeOK /\ slots \in [Table!Slots -> Table!Slot]
  BY DEF Placement, Table!TypeOK
<1>1. \A q \in Table!Slots : slots'[q] = IF q = p THEN new ELSE slots[q]
  BY <1>0
<1>2. \A k, i : Table!Probe(k, i)' = Table!Probe(k, i)
  BY DEF Table!Probe
<1>3. \A k \in Keys : Table!Visited(k) \subseteq Table!Visited(k)'
  BY <1>0, <1>1, <1>2, Probes DEF Table!Visited
<1>4. \A q \in Table!Slots : q \in Taken' <=> IF q = p THEN new.state = "occupied" ELSE q \in Taken
  BY <1>1 DEF Taken
<1>5. ASSUME NEW q \in Taken' PROVE Reached(q)'
  <2>0. q \in Table!Slots
    BY DEF Taken
  <2>1. CASE q = p
    <3>1. new.state = "occupied" /\ slots'[q] = new
      BY <1>1, <1>4, <2>0, <2>1
    <3>2. PICK i \in Table!Visited(new.key) : Table!Probe(new.key, i) = p
      BY <3>1
    <3>3. new.key \in Keys /\ new.value \in Sessions
      BY <3>1
    <3>4. i \in Table!Slots
      BY <3>2 DEF Table!Visited
    <3>5. \A j \in Table!Slots : Table!Probe(new.key, j) = p => j = i
      BY <1>0, <3>2, <3>3, <3>4, Probes
    <3>. QED  BY <1>2, <1>3, <2>1, <3>1, <3>2, <3>3, <3>5 DEF Reached
  <2>2. CASE q # p
    <3>1. q \in Taken /\ slots'[q] = slots[q]
      BY <1>1, <1>4, <2>0, <2>2
    <3>2. Reached(q)
      BY <3>1 DEF Placement
    <3>. QED  BY <1>2, <1>3, <3>1, <3>2 DEF Reached
  <2>. QED  BY <2>1, <2>2
<1>6. ASSUME NEW q \in Taken', NEW r \in Taken', slots'[q].key = slots'[r].key
      PROVE  q = r
  BY <1>1, <1>4, <1>6 DEF Placement, Taken
<1>7. \A q \in Table!Slots : slots'[q].state # "occupied" => slots'[q].value = 0
  BY <1>1 DEF Placement
<1>. QED
  BY <1>5, <1>6, <1>7 DEF Placement

LEMMA TableInitially == Table!Init => TableInv
<1> SUFFICES ASSUME Table!Init PROVE TableInv
  OBVIOUS
<1>1. \A p \in Table!Slots : slots[p] = Table!Empty
  BY DEF Table!Init
<1>2. Table!TypeOK
  BY <1>1, Widths DEF Table!Init, Table!TypeOK, Table!Slot, Table!Empty
<1>3. Taken = {}
  BY <1>1 DEF Taken, Table!Empty
<1>4. Placement
  BY <1>1, <1>2, <1>3 DEF Placement, Table!Empty
<1>5. \A k \in Keys : Table!Lookup(k) = 0
  BY <1>1, <1>4, Finds DEF Found, Held, Table!Holds, Table!Empty
<1>6. Present = {}
  BY <1>5 DEF Present
<1>. QED
  BY <1>3, <1>4, <1>6, FS_EmptySet DEF TableInv, Counted, Table!Init

\* The slot that put chooses is on the key's probe, and holds the key or
\* nothing.
LEMMA Destinations ==
  ASSUME Placement, NEW k \in Keys, Table!Matches(k) # {} \/ Table!In(k, "empty") # {}
  PROVE  /\ Table!Destination(k) \in Table!Slots
         /\ \E i \in Table!Visited(k) : Table!Probe(k, i) = Table!Destination(k)
         /\ Table!Matches(k) # {} => Held(k, Table!Destination(k))
         /\ Table!Matches(k) = {} => slots[Table!Destination(k)].state # "occupied"
<1>0. Table!TypeOK /\ Table!Visited(k) \subseteq Table!Slots
  BY DEF Placement, Table!Visited
<1>1. CASE Table!Matches(k) # {}
  <2>1. Table!Matches(k) \subseteq Table!Visited(k)
    BY DEF Table!Matches
  <2>2. Table!First(Table!Matches(k)) \in Table!Matches(k)
    BY <1>0, <1>1, <2>1, FirstIs
  <2>3. Table!Destination(k) = Table!Probe(k, Table!First(Table!Matches(k)))
    BY <1>1 DEF Table!Destination
  <2>. QED
    BY <1>0, <1>1, <2>1, <2>2, <2>3, Probes DEF Table!Matches, Held
<1>2. ASSUME Table!Matches(k) = {}, NEW state \in {"tombstone", "empty"},
             Table!In(k, state) # {},
             Table!Destination(k) = Table!Probe(k, Table!First(Table!In(k, state)))
      PROVE  /\ Table!Destination(k) \in Table!Slots
             /\ \E i \in Table!Visited(k) : Table!Probe(k, i) = Table!Destination(k)
             /\ slots[Table!Destination(k)].state # "occupied"
  <2>1. Table!In(k, state) \subseteq Table!Visited(k)
    BY DEF Table!In
  <2>2. Table!First(Table!In(k, state)) \in Table!In(k, state)
    BY <1>0, <1>2, <2>1, FirstIs
  <2>. QED
    BY <1>0, <1>2, <2>1, <2>2, Probes DEF Table!In
<1>3. CASE Table!Matches(k) = {} /\ Table!In(k, "tombstone") # {}
  <2>1. Table!Destination(k) = Table!Probe(k, Table!First(Table!In(k, "tombstone")))
    BY <1>3 DEF Table!Destination
  <2>. QED  BY <1>2, <1>3, <2>1
<1>4. CASE Table!Matches(k) = {} /\ Table!In(k, "tombstone") = {}
  <2>1. Table!Destination(k) = Table!Probe(k, Table!First(Table!In(k, "empty")))
    BY <1>4 DEF Table!Destination
  <2>. QED  BY <1>2, <1>4, <2>1
<1>. QED
  BY <1>1, <1>3, <1>4

\* One slot is written, and it held k or nothing: the map changes at k.
LEMMA MapStep ==
  ASSUME Placement, Placement', NEW k \in Keys, NEW d \in Table!Slots,
         NEW new \in Table!Slot, slots' = [slots EXCEPT ![d] = new],
         slots[d].state = "occupied" => slots[d].key = k,
         new.state = "occupied" => new.key = k, new.state # "occupied" => new.value = 0,
         \A p \in Table!Slots : Held(k, p) => p = d
  PROVE  /\ Table!Lookup(k) = slots[d].value
         /\ Table!Map' = [Table!Map EXCEPT ![k] = new.value]
         /\ Table!Lookup(k)' = new.value
         /\ \A j \in Keys : j # k => Table!Lookup(j)' = Table!Lookup(j)
<1>0. Found /\ Found'
  <2>1. Found' BY Finds, PTL
  <2>. QED  BY <2>1, Finds
<1>1. \A p \in Table!Slots : slots'[p] = IF p = d THEN new ELSE slots[p]
  BY DEF Placement, Table!TypeOK
<1>2. \A j : Held(j, d)' <=> new.state = "occupied" /\ j = k
  BY <1>1, <1>0 DEF Held, Table!Holds
<1>3. \A j, p : p \in Table!Slots /\ p # d => (Held(j, p)' <=> Held(j, p))
  BY <1>1 DEF Held, Table!Holds
<1>4. Held(k, d) <=> slots[d].state = "occupied"
  BY DEF Held, Table!Holds
<1>5. Table!Lookup(k) = slots[d].value
  BY <1>0, <1>4 DEF Found, Placement
<1>6. ASSUME NEW j \in Keys, j # k PROVE Table!Lookup(j)' = Table!Lookup(j)
  <2>1. ~Held(j, d)
    BY <1>6 DEF Held, Table!Holds
  <2>2. ASSUME NEW p \in Table!Slots, Held(j, p) PROVE Table!Lookup(j)' = Table!Lookup(j)
    <3>1. p # d /\ Held(j, p)' /\ slots'[p] = slots[p]
      BY <1>1, <1>3, <2>1, <2>2
    <3>. QED  BY <1>0, <2>2, <3>1 DEF Found
  <2>3. ASSUME \A p \in Table!Slots : ~Held(j, p) PROVE Table!Lookup(j)' = Table!Lookup(j)
    <3>1. \A p \in Table!Slots : ~Held(j, p)'
      BY <1>2, <1>3, <1>6, <2>3
    <3>2. Table!Lookup(j)' = 0
      BY <1>0, <3>1 DEF Found, Table!Slots
    <3>. QED  BY <1>0, <2>3, <3>2 DEF Found
  <2>. QED  BY <2>2, <2>3
<1>7. Table!Lookup(k)' = new.value
  <2>1. CASE new.state = "occupied"
    <3>1. Held(k, d)' /\ slots'[d] = new
      BY <1>1, <1>2, <2>1
    <3>. QED  BY <1>0, <3>1 DEF Found, Table!Slots
  <2>2. CASE new.state # "occupied"
    <3>1. \A p \in Table!Slots : ~Held(k, p)'
      BY <1>2, <1>3, <2>2
    <3>. QED  BY <1>0, <2>2, <3>1 DEF Found, Table!Slots
  <2>. QED  BY <2>1, <2>2
<1>. QED
  BY <1>5, <1>6, <1>7 DEF Table!Map

LEMMA OccupiedFinite == IsFiniteSet(Taken) /\ Cardinality(Taken) \in Nat
<1>1. IsFiniteSet(Table!Slots)
  BY Widths, FS_Interval DEF Table!Slots
<1>2. IsFiniteSet(Taken)
  BY <1>1, FS_Subset DEF Taken
<1>. QED
  BY <1>2, FS_CardinalityType

\* The two counts, of slots and of keys, change alike.
LEMMA CountStep ==
  ASSUME TableInv, Placement', NEW k \in Keys, NEW d \in Table!Slots,
         NEW new \in Table!Slot, slots' = [slots EXCEPT ![d] = new],
         slots[d].state = "occupied" => slots[d].key = k,
         new.state = "occupied" => new.key = k, new.state # "occupied" => new.value = 0,
         \A p \in Table!Slots : Held(k, p) => p = d,
         count' = count + (IF new.state = "occupied" THEN 1 ELSE 0)
                        - (IF slots[d].state = "occupied" THEN 1 ELSE 0)
  PROVE  Counted'
<1> USE DEF TableInv
<1>1. /\ Table!Lookup(k) = slots[d].value
      /\ Table!Lookup(k)' = new.value
      /\ \A j \in Keys : j # k => Table!Lookup(j)' = Table!Lookup(j)
  BY MapStep
<1>2. /\ slots[d].state = "occupied" <=> d \in Taken
      /\ slots[d].state = "occupied" <=> k \in Present
  <2>1. d \in Taken => slots[d].value \in Sessions
    BY DEF Placement, Reached
  <2>. QED  BY <1>1, <2>1, Widths DEF Taken, Placement, Present
<1>3. \A p \in Table!Slots : slots'[p] = IF p = d THEN new ELSE slots[p]
  BY DEF Placement, Table!TypeOK
<1>4. /\ new.state = "occupied" => Taken' = Taken \cup {d}
      /\ new.state # "occupied" => Taken' = Taken \ {d}
  BY <1>3 DEF Taken
<1>5. new.state = "occupied" <=> new.value # 0
  <2>1. new.state = "occupied" => d \in Taken'
    BY <1>4
  <2>2. d \in Taken' => slots'[d].value \in Sessions
    BY DEF Placement, Reached
  <2>. QED  BY <1>3, <2>1, <2>2, Widths
<1>6. /\ new.state = "occupied" => Present' = Present \cup {k}
      /\ new.state # "occupied" => Present' = Present \ {k}
  BY <1>1, <1>5 DEF Present
<1>7. IsFiniteSet(Taken) /\ IsFiniteSet(Present)
      /\ count = Cardinality(Taken) /\ count = Cardinality(Present) /\ count \in Nat
  BY OccupiedFinite DEF Counted
<1>8. CASE new.state = "occupied"
  <2>1. count' = IF d \in Taken THEN count ELSE count + 1
    BY <1>2, <1>7, <1>8
  <2>2. count' = Cardinality(Taken') /\ d \in Table!Slots
    BY <1>4, <1>7, <1>8, <2>1, FS_AddElement
  <2>3. count' = Cardinality(Present') /\ IsFiniteSet(Present')
    BY <1>2, <1>6, <1>7, <1>8, <2>1, FS_AddElement
  <2>. QED  BY <2>2, <2>3 DEF Counted
<1>9. CASE new.state # "occupied"
  <2>1. count' = IF d \in Taken THEN count - 1 ELSE count
    BY <1>2, <1>7, <1>9
  <2>2. count' = Cardinality(Taken')
    <3>1. d \in Taken => Cardinality(Taken \ {d}) = count - 1
      BY <1>7, FS_RemoveElement
    <3>2. d \notin Taken => Taken \ {d} = Taken
      OBVIOUS
    <3>. QED  BY <1>4, <1>7, <1>9, <2>1, <3>1, <3>2
  <2>3. count' = Cardinality(Present') /\ IsFiniteSet(Present')
    BY <1>2, <1>6, <1>7, <1>9, <2>1, FS_RemoveElement
  <2>. QED  BY <2>2, <2>3 DEF Counted
<1>. QED
  BY <1>8, <1>9

LEMMA TableSame ==
  ASSUME UNCHANGED <<slots, hash>>
  PROVE  /\ \A k : Table!Lookup(k)' = Table!Lookup(k) /\ Table!Visited(k)' = Table!Visited(k)
         /\ \A k, i : Table!Probe(k, i)' = Table!Probe(k, i)
         /\ Taken' = Taken /\ Present' = Present
         /\ Table!Map' = Table!Map
         /\ \A p : Reached(p)' <=> Reached(p)
<1>1. \A k, i : Table!Probe(k, i)' = Table!Probe(k, i)
  BY DEF Table!Probe
<1>2. \A k : Table!Visited(k)' = Table!Visited(k)
  BY <1>1 DEF Table!Visited
<1>3. \A k : Table!Matches(k)' = Table!Matches(k)
  BY <1>1, <1>2 DEF Table!Matches
<1>4. \A k : Table!Lookup(k)' = Table!Lookup(k)
  BY <1>1, <1>3 DEF Table!Lookup
<1>. QED
  BY <1>1, <1>2, <1>4 DEF Taken, Present, Table!Map, Reached

\* put and remove preserve the table and change the map as SessionMap says.
LEMMA PutStep ==
  ASSUME TableInv, NEW k \in Keys, NEW v \in Sessions, Table!Put(k, v)
  PROVE  TableInv' /\ (Table!M!Put(k, v) \/ Table!M!Refuse)
<1> DEFINE d == Table!Destination(k)
           new == Table!Occupied(k, v)
<1>0. Placement /\ Table!TypeOK /\ Found /\ hash' = hash /\ count \in Nat
  BY Finds DEF TableInv, Placement, Table!Put, Table!TypeOK
<1>1. ASSUME erased' = {}, putResult' = "TableFull", UNCHANGED <<slots, count>>
      PROVE  TableInv' /\ Table!M!Refuse
  <2>1. Table!TypeOK'
    BY <1>0, <1>1 DEF Table!TypeOK
  <2>2. TableInv' /\ Table!Map' = Table!Map
    BY <1>0, <1>1, <2>1, TableSame DEF TableInv, Placement, Counted
  <2>. QED  BY <1>1, <2>2 DEF Table!M!Refuse
<1>2. ASSUME ~Table!Loaded, Table!Matches(k) # {} \/ Table!In(k, "empty") # {},
             slots' = [slots EXCEPT ![d] = new],
             count' = count + (IF Table!Matches(k) = {} THEN 1 ELSE 0),
             erased' = Table!Erased(slots[d]), putResult' = "ok"
      PROVE  TableInv' /\ Table!M!Put(k, v)
  <2>1. /\ d \in Table!Slots
        /\ \E i \in Table!Visited(k) : Table!Probe(k, i) = d
        /\ Table!Matches(k) # {} => Held(k, d)
        /\ Table!Matches(k) = {} => slots[d].state # "occupied"
    BY <1>0, <1>2, Destinations
  <2>2. slots' = [slots EXCEPT ![d] = new]
    BY <1>2
  <2>3. new \in Table!Slot /\ new.state = "occupied" /\ new.key = k /\ new.value = v
    BY DEF Table!Occupied, Table!Slot
  <2>4. slots[d].state = "occupied" <=> Table!Matches(k) # {}
    BY <2>1 DEF Held, Table!Holds
  <2>5. slots[d].state = "occupied" => slots[d].key = k
    BY <2>1, <2>4 DEF Held, Table!Holds
  <2> HIDE DEF d, new
  <2>6. ASSUME NEW p \in Table!Slots, Held(k, p) PROVE p = d
    <3>1. Table!Matches(k) # {}
      BY <1>0, <2>6 DEF Found
    <3>2. Held(k, d)
      BY <2>1, <3>1
    <3>3. d \in Taken /\ p \in Taken /\ slots[d].key = slots[p].key
      BY <2>1, <2>6, <3>2 DEF Taken, Held, Table!Holds
    <3>. QED  BY <1>0, <3>3 DEF Placement
  <2>7. \A q \in Taken : slots[q].key = new.key => q = d
    BY <2>3, <2>6 DEF Taken, Held, Table!Holds
  <2>8. count' = count + 1 - (IF slots[d].state = "occupied" THEN 1 ELSE 0)
    BY <1>0, <1>2, <2>4
  <2>9. Table!TypeOK'
    <3>1. slots' \in [Table!Slots -> Table!Slot]
      BY <1>0, <2>2, <2>3 DEF Table!TypeOK
    <3>2. count' \in Nat /\ count' * 10 <= SlotCount * 7
      <4>1. (count + 1) * 10 <= SlotCount * 7 /\ count * 10 <= SlotCount * 7
        BY <1>0, <1>2, Widths DEF Table!Loaded, Table!TypeOK
      <4>. QED  BY <1>0, <1>2, <4>1
    <3>3. erased' \subseteq Sessions
      BY <1>0, <1>2, <2>1 DEF Table!Erased, Table!TypeOK, Table!Slot, d
    <3>. QED  BY <1>0, <1>2, <3>1, <3>2, <3>3 DEF Table!TypeOK
  <2>10. Placement'
    BY <1>0, <2>1, <2>2, <2>3, <2>7, <2>9, PlacementStep
  <2>11. Counted'
    BY <1>0, <2>1, <2>2, <2>3, <2>5, <2>6, <2>8, <2>10, CountStep
  <2>12. Table!Lookup(k) = slots[d].value /\ Table!Map' = [Table!Map EXCEPT ![k] = v]
    <3>1. /\ Table!Lookup(k) = slots[d].value
          /\ Table!Map' = [Table!Map EXCEPT ![k] = new.value]
      <4>1. d \in Table!Slots /\ new \in Table!Slot /\ Placement /\ Placement'
        BY <1>0, <2>1, <2>3, <2>10
      <4>2. slots[d].state = "occupied" => slots[d].key = k
        BY <2>5
      <4>3. new.state = "occupied" => new.key = k
        BY <2>3
      <4>4. new.state # "occupied" => new.value = 0
        BY <2>3
      <4>5. \A p \in Table!Slots : Held(k, p) => p = d
        BY <2>6
      <4>6. Table!Lookup(k) = slots[d].value
        BY <2>2, <4>1, <4>2, <4>3, <4>4, <4>5, MapStep, Zenon
      <4>7. Table!Map' = [Table!Map EXCEPT ![k] = new.value]
        BY <2>2, <4>1, <4>2, <4>3, <4>4, <4>5, MapStep, Zenon
      <4>. QED  BY <4>6, <4>7
    <3>. QED  BY <2>3, <3>1
  <2>13. erased' = {Table!Map[k]} \ {0}
    BY <1>2, <2>12 DEF Table!Erased, Table!Map, d
  <2>. QED
    BY <2>10, <2>11, <2>12, <2>13 DEF TableInv, Table!M!Put
<1>. QED
  BY <1>1, <1>2 DEF Table!Put

LEMMA RemoveStep ==
  ASSUME TableInv, NEW k \in Keys, Table!Remove(k)
  PROVE  TableInv' /\ Table!M!Remove(k)
<1> DEFINE d == Table!Probe(k, Table!First(Table!Matches(k)))
           new == Table!Tombstone
<1>0. Placement /\ Table!TypeOK /\ Found /\ hash' = hash /\ count \in Nat
      /\ count = Cardinality(Taken)
  BY Finds DEF TableInv, Placement, Table!Remove, Table!TypeOK, Counted
<1>1. /\ Table!Matches(k) # {} /\ slots' = [slots EXCEPT ![d] = new]
      /\ erased' = Table!Erased(slots[d]) /\ count' = count - 1 /\ putResult' = "ok"
  BY DEF Table!Remove
<1>2. PICK p \in Table!Slots : Held(k, p)
  BY <1>0, <1>1 DEF Found
<1>3. d = p /\ Table!Lookup(k) = slots[d].value /\ Table!Lookup(k) # 0
  BY <1>0, <1>2 DEF Found
<1>4. d \in Table!Slots /\ slots[d].state = "occupied" /\ slots[d].key = k
  BY <1>2, <1>3 DEF Held, Table!Holds
<1>5. slots' = [slots EXCEPT ![d] = new] /\ count' = count - 1
  BY <1>1
<1>6. new \in Table!Slot /\ new.state = "tombstone" /\ new.value = 0
  BY DEF Table!Tombstone, Table!Slot
<1>7. erased' = {slots[d].value} \ {0}
  BY <1>1 DEF Table!Erased
<1> HIDE DEF d, new
<1>8. \A q \in Table!Slots : Held(k, q) => q = d
  BY <1>0, <1>4 DEF Held, Table!Holds, Placement, Taken
<1>9. count' = count + (IF new.state = "occupied" THEN 1 ELSE 0)
                     - (IF slots[d].state = "occupied" THEN 1 ELSE 0)
  BY <1>0, <1>4, <1>5, <1>6
<1>10. Table!TypeOK'
  <2>1. slots' \in [Table!Slots -> Table!Slot]
    BY <1>0, <1>5, <1>6 DEF Table!TypeOK
  <2>2. count >= 1
    <3>1. d \in Taken
      BY <1>4 DEF Taken
    <3>2. Cardinality(Taken) # 0
      BY <3>1, OccupiedFinite, FS_EmptySet
    <3>. QED  BY <1>0, <3>2
  <2>3. count' \in Nat /\ count' * 10 <= SlotCount * 7
    <3>1. count * 10 <= SlotCount * 7
      BY <1>0 DEF Table!TypeOK
    <3>. QED  BY <1>0, <1>5, <2>2, <3>1, Widths
  <2>4. erased' \subseteq Sessions
    BY <1>0, <1>4, <1>7 DEF Table!TypeOK, Table!Slot
  <2>. QED  BY <1>0, <1>1, <2>1, <2>3, <2>4 DEF Table!TypeOK
<1>11. Placement'
  BY <1>0, <1>4, <1>5, <1>6, <1>10, PlacementStep
<1>12. Counted'
  BY <1>0, <1>4, <1>5, <1>6, <1>8, <1>9, <1>11, CountStep
<1>13. Table!Map' = [Table!Map EXCEPT ![k] = 0]
  <2>1. Table!Map' = [Table!Map EXCEPT ![k] = new.value]
    <3>1. new.state # "occupied"
      BY <1>6
    <3>. QED  BY <1>0, <1>4, <1>5, <1>6, <1>8, <1>11, <3>1, MapStep
  <2>. QED  BY <1>6, <2>1
<1>14. erased' = {Table!Map[k]} /\ Table!Map[k] # 0
  BY <1>3, <1>7 DEF Table!Map
<1>. QED
  BY <1>11, <1>12, <1>13, <1>14 DEF TableInv, Table!M!Remove

LEMMA TableUnchanged ==
  ASSUME TableInv, UNCHANGED tableVars
  PROVE  TableInv' /\ Table!Map' = Table!Map /\ erased' = erased
<1>1. UNCHANGED <<slots, count, hash, erased, putResult>>
  BY DEF tableVars
<1>2. Table!TypeOK'
  BY <1>1 DEF TableInv, Placement, Table!TypeOK
<1>. QED
  BY <1>1, <1>2, TableSame DEF TableInv, Placement, Counted

\* The table brings an instance of FiniteSets of its own.
LEMMA SameCardinality == ASSUME NEW S PROVE Table!Cardinality(S) = Cardinality(S)
BY DEF Table!Cardinality, Cardinality

\* session_table.zig is the map that SessionMap describes: its count is exact,
\* its load factor is kept, and each operation erases what it drops, for every
\* hash function, size and sequence of operations.
THEOREM TableImplementsMap == Structures => TableIsMap
<1>1. Every => TableInv /\ Table!M!Init
  <2> SUFFICES ASSUME Every PROVE TableInv /\ Table!M!Init
    OBVIOUS
  <2>1. TableInv /\ Found /\ Table!Init
    BY TableInitially, Finds DEF Every, TableInv
  <2>2. \A k \in Keys : Table!Lookup(k) = 0
    BY <2>1 DEF Found, Held, Table!Holds, Table!Init, Table!Empty
  <2>. QED  BY <2>1, <2>2 DEF Table!M!Init, Table!Map, Table!Init
<1>2. TableInv /\ [Advance /\ UNCHANGED structure]_<<ringVars, tableVars, windowVars>>
        => TableInv' /\ [Table!M!Next]_<<Table!Map, erased>>
  <2> SUFFICES ASSUME TableInv, [Advance /\ UNCHANGED structure]_<<ringVars, tableVars, windowVars>>
               PROVE  TableInv' /\ [Table!M!Next]_<<Table!Map, erased>>
    OBVIOUS
  <2>1. ASSUME NEW k \in Keys, NEW v \in Sessions, Table!Put(k, v)
        PROVE  TableInv' /\ Table!M!Next
    BY <2>1, PutStep DEF Table!M!Next
  <2>2. ASSUME NEW k \in Keys, Table!Remove(k) PROVE TableInv' /\ Table!M!Next
    BY <2>2, RemoveStep DEF Table!M!Next
  <2>3. CASE Table!Next
    BY <2>1, <2>2, <2>3 DEF Table!Next
  <2>4. CASE UNCHANGED tableVars
    BY <2>4, TableUnchanged
  <2>. QED
    BY <2>3, <2>4 DEF Advance
<1>3. TableInv => Table!CountIsExact /\ Table!TypeOK
  <2>1. TableInv => Table!TypeOK
    BY DEF TableInv, Placement
  <2>2. TableInv => count = Cardinality(Taken) /\ count = Cardinality(Present)
    BY DEF TableInv, Counted
  <2>3. Table!CountIsExact <=> count = Cardinality(Taken) /\ count = Cardinality(Present)
    BY SameCardinality DEF Table!CountIsExact, Taken, Present
  <2>. QED  BY <2>1, <2>2, <2>3
<1>. QED
  BY <1>1, <1>2, <1>3, PTL DEF Structures, TableIsMap, Table!ImplementsMap, Table!M!Spec

-----------------------------------------------------------------------------
(* The ring.  The argument is the order of the four indices around it, seen *)
(* from the last tail the producer knows: tail, headSeen, head, and never  *)
(* a whole lap.                                                            *)

Ordered ==
  /\ Occupancy(tail, tailSeen) <= Occupancy(headSeen, tailSeen)
  /\ Occupancy(headSeen, tailSeen) <= Occupancy(head, tailSeen)

\* A thread between its load and its store still has what the load showed.
Entitled ==
  /\ producer.pc # "idle" => Succeeding(head) # tailSeen /\ producer.value \in Values
  /\ consumer.pc # "idle" => tail # headSeen

\* What the slots hold.
Filled ==
  /\ \A i \in Slots : Occupied(i) =>
       storage[i] \in Values \/ (i = tail /\ consumer.pc = "wiped")
  /\ producer.pc = "written" => storage[head] = producer.value
  /\ consumer.pc = "taken" => consumer.value = storage[tail]
  /\ consumer.pc \in {"taken", "wiped"} => consumer.value \in Values
  /\ consumer.pc = "wiped" => storage[tail] = Nothing

IInv == TypeOK /\ Ordered /\ Entitled /\ Filled /\ VacatedIsErased

USE CapacityAssumption, NothingAssumption

\* Between two indices of the ring, seen from a third.
LEMMA SeenFrom ==
  ASSUME NEW s \in Slots, NEW a \in Slots, NEW b \in Slots,
         Occupancy(a, s) <= Occupancy(b, s),
         NEW x \in Visible(a, b)
  PROVE  x \in Slots /\ Occupancy(a, s) <= Occupancy(x, s) /\ Occupancy(x, s) <= Occupancy(b, s)
BY DEF Slots, Occupancy, Visible

\* What lies behind an index that was passed keeps its order.
LEMMA SeenLater ==
  ASSUME NEW s \in Slots, NEW a \in Slots, NEW b \in Slots, NEW x \in Slots,
         Occupancy(x, s) <= Occupancy(a, s), Occupancy(a, s) <= Occupancy(b, s)
  PROVE  Occupancy(a, x) <= Occupancy(b, x)
BY DEF Slots, Occupancy

LEMMA Initially == Init => IInv
<1> SUFFICES ASSUME Init PROVE IInv
  OBVIOUS
<1>1. TypeOK
  BY DEF Init, TypeOK, Slots
<1>2. Ordered /\ Entitled
  BY DEF Init, Ordered, Entitled, Occupancy
<1>3. Filled /\ VacatedIsErased
  BY DEF Init, Filled, VacatedIsErased, Occupied, Occupancy, Slots
<1>. QED
  BY <1>1, <1>2, <1>3 DEF IInv

LEMMA TypingStep == TypeOK /\ Entitled /\ [Next]_vars => TypeOK'
<1> SUFFICES ASSUME TypeOK, Entitled, [Next]_vars PROVE TypeOK'
  OBVIOUS
<1> USE DEF TypeOK
<1>0. \A i \in Slots : Succeeding(i) \in Slots
  BY DEF Slots, Succeeding
<1>1. ASSUME NEW v \in Values, PushLoad(v) PROVE TypeOK'
  BY <1>1 DEF PushLoad, Visible, consumerVars
<1>2. CASE PushWrite
  BY <1>2 DEF PushWrite, consumerVars
<1>3. CASE PushPublish
  BY <1>0, <1>3 DEF PushPublish, consumerVars
<1>4. CASE PopLoad
  BY <1>4 DEF PopLoad, Visible, producerVars
<1>5. CASE PopRead
  BY <1>5 DEF PopRead, producerVars
<1>6. CASE Wipe
  BY <1>6 DEF Wipe, producerVars
<1>7. CASE PopRelease
  BY <1>0, <1>7 DEF PopRelease, producerVars
<1>8. CASE ConsumerCounts
  BY <1>8 DEF ConsumerCounts, Visible, producerVars
<1>9. CASE ProducerCounts
  BY <1>9 DEF ProducerCounts, Visible, consumerVars
<1>10. CASE UNCHANGED vars
  BY <1>10 DEF vars, producerVars, consumerVars
<1>. QED
  BY <1>1, <1>2, <1>3, <1>4, <1>5, <1>6, <1>7, <1>8, <1>9, <1>10
  DEF Next, Produce, Consume

\* The order of the indices, and what each thread may still rely on.
LEMMA OrderStep ==
  TypeOK /\ Ordered /\ Entitled /\ [Next]_vars => Ordered' /\ Entitled'
<1> SUFFICES ASSUME TypeOK, Ordered, Entitled, [Next]_vars
             PROVE  Ordered' /\ Entitled'
  OBVIOUS
<1> USE DEF TypeOK
<1>a. ASSUME NEW h \in Visible(headSeen, head), headSeen' = h,
             UNCHANGED <<head, tail, tailSeen>>
      PROVE  Ordered'
  <2>1. \A i \in Slots : Occupancy(i, tailSeen) \in Int
    BY DEF Occupancy, Slots
  <2>2. /\ h \in Slots
        /\ Occupancy(headSeen, tailSeen) <= Occupancy(h, tailSeen)
        /\ Occupancy(h, tailSeen) <= Occupancy(head, tailSeen)
    BY SeenFrom DEF Ordered
  <2>. QED
    BY <1>a, <2>1, <2>2 DEF Ordered
<1>b. ASSUME NEW t \in Visible(tailSeen, tail), tailSeen' = t,
             UNCHANGED <<head, tail, headSeen>>
      PROVE  Ordered'
  <2>1. t \in Slots /\ Occupancy(t, tailSeen) <= Occupancy(tail, tailSeen)
    BY DEF Visible
  <2>2. \A i \in Slots : Occupancy(i, tailSeen) \in Int
    BY DEF Occupancy, Slots
  <2>3. Occupancy(t, tailSeen) <= Occupancy(headSeen, tailSeen)
    BY <2>1, <2>2 DEF Ordered
  <2>. QED
    BY <1>b, <2>1, <2>3, SeenLater DEF Ordered
<1>1. ASSUME NEW v \in Values, PushLoad(v) PROVE Ordered' /\ Entitled'
  <2>1. Ordered'
    BY <1>1, <1>b DEF PushLoad, consumerVars
  <2>2. Entitled'
    BY <1>1 DEF PushLoad, consumerVars, IsFull, Entitled
  <2>. QED  BY <2>1, <2>2
<1>2. CASE PushWrite
  BY <1>2 DEF PushWrite, consumerVars, Ordered, Entitled
<1>3. CASE PushPublish
  <2>1. Occupancy(head', tailSeen) = Occupancy(head, tailSeen) + 1
    BY <1>3 DEF PushPublish, Entitled, Succeeding, Occupancy, Slots
  <2>2. \A i \in Slots : Occupancy(i, tailSeen) \in Int
    BY DEF Occupancy, Slots
  <2>3. Ordered'
    BY <1>3, <2>1, <2>2 DEF PushPublish, consumerVars, Ordered
  <2>4. Entitled'
    BY <1>3 DEF PushPublish, consumerVars, Entitled
  <2>. QED  BY <2>3, <2>4
<1>4. CASE PopLoad
  <2>1. Ordered'
    BY <1>4, <1>a DEF PopLoad, producerVars
  <2>2. Entitled'
    BY <1>4 DEF PopLoad, producerVars, IsEmpty, Entitled
  <2>. QED  BY <2>1, <2>2
<1>5. CASE PopRead
  BY <1>5 DEF PopRead, producerVars, Ordered, Entitled
<1>6. CASE Wipe
  BY <1>6 DEF Wipe, producerVars, Ordered, Entitled
<1>7. CASE PopRelease
  <2>1. Occupancy(tail', tailSeen) <= Occupancy(headSeen, tailSeen)
    BY <1>7 DEF PopRelease, Ordered, Entitled, Succeeding, Occupancy, Slots
  <2>. QED
    BY <1>7, <2>1 DEF PopRelease, producerVars, Ordered, Entitled
<1>8. CASE ConsumerCounts
  BY <1>8, <1>a DEF ConsumerCounts, producerVars, Entitled
<1>9. CASE ProducerCounts
  BY <1>9, <1>b DEF ProducerCounts, consumerVars, Entitled
<1>10. CASE UNCHANGED vars
  BY <1>10 DEF vars, producerVars, consumerVars, Ordered, Entitled
<1>. QED
  BY <1>1, <1>2, <1>3, <1>4, <1>5, <1>6, <1>7, <1>8, <1>9, <1>10
  DEF Next, Produce, Consume

\* The occupied slots gain the head's with a push and lose the tail's with a
\* pop.
LEMMA Gained ==
  ASSUME TypeOK, Ordered, Succeeding(head) # tailSeen, NEW i \in Slots
  PROVE  /\ ~Occupied(head)
         /\ Occupancy(i, tail) < Occupancy(Succeeding(head), tail)
              <=> Occupied(i) \/ i = head
BY DEF TypeOK, Ordered, Occupied, Occupancy, Succeeding, Slots

LEMMA Lost ==
  ASSUME TypeOK, Ordered, tail # headSeen, NEW i \in Slots
  PROVE  /\ Occupied(tail)
         /\ Occupancy(i, Succeeding(tail)) < Occupancy(head, Succeeding(tail))
              <=> Occupied(i) /\ i # tail
BY DEF TypeOK, Ordered, Occupied, Occupancy, Succeeding, Slots

LEMMA ContentStep == IInv /\ [Next]_vars => Filled' /\ VacatedIsErased'
<1> SUFFICES ASSUME IInv, [Next]_vars PROVE Filled' /\ VacatedIsErased'
  OBVIOUS
<1> USE DEF IInv
<1>0. TypeOK
  OBVIOUS
<1>1. ASSUME NEW v \in Values, PushLoad(v) PROVE Filled' /\ VacatedIsErased'
  BY <1>1 DEF PushLoad, consumerVars, Filled, VacatedIsErased, Occupied
<1>2. CASE PushWrite
  <2>1. Succeeding(head) # tailSeen /\ producer.value \in Values
    BY <1>2 DEF PushWrite, Entitled
  <2>2. ~Occupied(head)
    BY <2>1, Gained DEF TypeOK
  <2>3. consumer.pc # "idle" => head # tail
    BY <2>2, Lost DEF Entitled, TypeOK
  <2>4. storage' = [storage EXCEPT ![head] = producer.value]
        /\ producer'.pc = "written" /\ producer'.value = producer.value
        /\ UNCHANGED <<head, tail, secure, consumer>>
    BY <1>2 DEF PushWrite, consumerVars, TypeOK
  <2>5. \A i \in Slots : Occupied(i)' <=> Occupied(i)
    BY <2>4 DEF Occupied
  <2>6. Filled'
    BY <2>1, <2>2, <2>3, <2>4, <2>5 DEF Filled, TypeOK
  <2>7. VacatedIsErased'
    BY <2>4, <2>5 DEF VacatedIsErased, TypeOK
  <2>. QED  BY <2>6, <2>7
<1>3. CASE PushPublish
  <2>1. Succeeding(head) # tailSeen /\ producer.value \in Values
    BY <1>3 DEF PushPublish, Entitled
  <2>2. head' = Succeeding(head) /\ producer'.pc = "idle"
        /\ UNCHANGED <<storage, tail, secure, consumer>>
    BY <1>3 DEF PushPublish, consumerVars
  <2>3. \A i \in Slots : Occupied(i)' <=> Occupied(i) \/ i = head
    BY <2>1, <2>2, Gained DEF Occupied
  <2>4. Filled'
    BY <1>3, <2>1, <2>2, <2>3 DEF Filled, PushPublish
  <2>5. VacatedIsErased'
    BY <2>2, <2>3 DEF VacatedIsErased
  <2>. QED  BY <2>4, <2>5
<1>4. CASE PopLoad
  BY <1>4 DEF PopLoad, producerVars, Filled, VacatedIsErased, Occupied, TypeOK
<1>5. CASE PopRead
  <2>1. Occupied(tail)
    BY <1>5, Lost DEF PopRead, Entitled, TypeOK
  <2>2. storage[tail] \in Values
    BY <1>5, <2>1 DEF PopRead, Filled, TypeOK
  <2>. QED
    BY <1>5, <2>2 DEF PopRead, producerVars, Filled, VacatedIsErased, Occupied
<1>6. CASE Wipe
  <2>1. Occupied(tail)
    BY <1>6, Lost DEF Wipe, Entitled, TypeOK
  <2>2. producer.pc # "idle" => head # tail
    BY <2>1, Gained DEF Entitled, TypeOK
  <2>3. storage' = [storage EXCEPT ![tail] = Nothing]
        /\ consumer'.pc = "wiped" /\ consumer'.value = consumer.value
        /\ UNCHANGED <<head, tail, secure, producer>>
    BY <1>6 DEF Wipe, producerVars, TypeOK
  <2>4. \A i \in Slots : Occupied(i)' <=> Occupied(i)
    BY <2>3 DEF Occupied
  <2>5. Filled'
    BY <1>6, <2>2, <2>3, <2>4 DEF Filled, TypeOK, Wipe
  <2>6. VacatedIsErased'
    BY <2>3, <2>4 DEF VacatedIsErased, TypeOK
  <2>. QED  BY <2>5, <2>6
<1>7. CASE PopRelease
  <2>1. tail # headSeen /\ consumer.pc \in {"taken", "wiped"}
    BY <1>7 DEF PopRelease, Entitled, TypeOK
  <2>2. tail' = Succeeding(tail) /\ consumer'.pc = "idle"
        /\ UNCHANGED <<storage, head, secure, producer>>
    BY <1>7 DEF PopRelease, producerVars
  <2>3. \A i \in Slots : Occupied(i)' <=> Occupied(i) /\ i # tail
    BY <2>1, <2>2, Lost DEF Occupied
  <2>4. Filled'
    BY <2>2, <2>3 DEF Filled
  <2>5. secure => storage[tail] = Nothing
    BY <1>7 DEF PopRelease, Filled
  <2>. QED
    BY <2>2, <2>3, <2>4, <2>5 DEF VacatedIsErased
<1>8. CASE ConsumerCounts
  BY <1>8 DEF ConsumerCounts, producerVars, Filled, VacatedIsErased, Occupied
<1>9. CASE ProducerCounts
  BY <1>9 DEF ProducerCounts, consumerVars, Filled, VacatedIsErased, Occupied
<1>10. CASE UNCHANGED vars
  BY <1>10 DEF vars, producerVars, consumerVars, Filled, VacatedIsErased, Occupied
<1>. QED
  BY <1>1, <1>2, <1>3, <1>4, <1>5, <1>6, <1>7, <1>8, <1>9, <1>10
  DEF Next, Produce, Consume

LEMMA Inductive == Spec => []IInv
<1>1. Init => IInv
  BY Initially
<1>2. IInv /\ [Next]_vars => IInv'
  BY TypingStep, OrderStep, ContentStep DEF IInv
<1>. QED
  BY <1>1, <1>2, PTL DEF Spec

\* Indices stay in the ring and every step keeps to its program.
THEOREM RingTyping == Spec => []TypeOK
BY Inductive, PTL DEF IInv

\* push and pop never touch a slot at the same time, or without having been
\* told that the other side has finished with it.
THEOREM NoRace == Spec => []NoSlotRace
<1>1. IInv => NoSlotRace
  <2> SUFFICES ASSUME IInv PROVE NoSlotRace
    OBVIOUS
  <2> USE DEF IInv, TypeOK, Ordered, Occupancy, Slots
  <2>1. ASSUME Writing PROVE head \notin Unknown(tailSeen, tail)
    BY <2>1 DEF Writing, Entitled, Unknown, Succeeding
  <2>2. ASSUME Reading PROVE tail \notin Unknown(headSeen, head)
    BY <2>2 DEF Reading, Entitled, Unknown
  <2>3. ~(Writing /\ Reading /\ head = tail)
    BY DEF Writing, Reading, Entitled
  <2>. QED
    BY <2>1, <2>2, <2>3 DEF NoSlotRace
<1>. QED
  BY <1>1, Inductive, PTL

\* No key material stays behind in a queue that is read with popSecure.
THEOREM Erasure == Spec => []VacatedIsErased
BY Inductive, PTL DEF IInv

\* Each side's count is safe for its use.
THEOREM SafeCounts == Spec => []OccupancyErrsSafely
<1>1. IInv => OccupancyErrsSafely
  BY DEF IInv, TypeOK, Ordered, Occupancy, Slots, OccupancyErrsSafely
<1>. QED
  BY <1>1, Inductive, PTL

-----------------------------------------------------------------------------
\* Refinement.  Each step appends an element, takes the first, or leaves the
\* abstract queue as it is.

ElementNext(i) ==
  IF i = tail' /\ consumer'.pc \in {"taken", "wiped"} THEN consumer'.value
  ELSE storage'[i]

LEMMA ContentsAre ==
  ASSUME TypeOK
  PROVE  /\ Occupancy(head, tail) \in 0..Capacity
         /\ \A n \in 1..Occupancy(head, tail) :
              At(n - 1) \in Slots /\ Occupied(At(n - 1))
         /\ Contents = [n \in 1..Occupancy(head, tail) |-> Element(At(n - 1))]
         /\ Len(Contents) = Occupancy(head, tail)
<1>1. Occupancy(head, tail) \in 0..Capacity
  BY DEF TypeOK, Slots, Occupancy
<1>2. \A n \in 1..Occupancy(head, tail) : At(n - 1) \in Slots /\ Occupied(At(n - 1))
  BY DEF TypeOK, Slots, Occupancy, At, Occupied
<1>3. Len(Contents) = Occupancy(head, tail)
  BY <1>1 DEF Contents
<1>. QED
  BY <1>1, <1>2, <1>3 DEF Contents

\* Reads, writes beyond the head and counts do not change what is queued.
LEMMA SameContents ==
  ASSUME TypeOK, tail' = tail, head' = head,
         \A i \in Slots : Occupied(i) => ElementNext(i) = Element(i)
  PROVE  Contents' = Contents
<1>1. \A n \in 1..Occupancy(head, tail) : ElementNext(At(n - 1)) = Element(At(n - 1))
  BY ContentsAre
<1>2. Contents' = [n \in 1..Occupancy(head, tail) |-> ElementNext(At(n - 1))]
  BY DEF Contents, Element, ElementNext, At, Occupancy
<1>. QED
  BY <1>1, <1>2, ContentsAre

LEMMA Appends ==
  ASSUME IInv, PushPublish
  PROVE  /\ producer.value \in Values /\ Len(Contents) < Capacity
         /\ Contents' = Append(Contents, producer.value) /\ result' = result
<1> DEFINE k == Occupancy(head, tail)
<1>0. TypeOK /\ Ordered /\ Succeeding(head) # tailSeen /\ producer.value \in Values
      /\ storage[head] = producer.value
  BY DEF IInv, Entitled, PushPublish, Filled
<1>1. /\ head' = Succeeding(head)
      /\ UNCHANGED <<storage, tail, consumer, result>>
  BY DEF PushPublish, consumerVars
<1>2. k \in 0..Capacity /\ k < Capacity /\ Occupancy(head', tail') = k + 1
  BY <1>0, <1>1 DEF TypeOK, Ordered, Slots, Occupancy, Succeeding
<1>3. At(k) = head
  BY <1>0 DEF TypeOK, Slots, At, Occupancy
<1>4. Element(head) = producer.value
  <2>1. ~Occupied(head)
    BY <1>0, Gained DEF TypeOK
  <2>2. consumer.pc \in {"taken", "wiped"} => head # tail
    BY <1>0, <2>1, Lost DEF IInv, Entitled, TypeOK
  <2>. QED  BY <1>0, <2>2 DEF Element
<1>5. Contents' = [n \in 1..k + 1 |-> Element(At(n - 1))]
  BY <1>1, <1>2 DEF Contents, Element, At
<1>6. Contents = [n \in 1..k |-> Element(At(n - 1))] /\ Len(Contents) = k
  BY <1>0, ContentsAre
<1>7. Append(Contents, producer.value)
        = [n \in 1..k + 1 |-> IF n <= k THEN Element(At(n - 1)) ELSE producer.value]
  <2> HIDE DEF k
  <2>. QED  BY <1>2, <1>6
<1>8. \A n \in 1..k + 1 : n <= k \/ Element(At(n - 1)) = producer.value
  <2> SUFFICES ASSUME NEW n \in 1..k + 1, ~(n <= k)
               PROVE  Element(At(n - 1)) = producer.value
    OBVIOUS
  <2>1. n - 1 = k
    BY <1>2
  <2>. QED  BY <1>3, <1>4, <2>1
<1>. QED
  BY <1>0, <1>1, <1>2, <1>5, <1>6, <1>7, <1>8

LEMMA Takes ==
  ASSUME IInv, PopRelease
  PROVE  /\ Contents # <<>> /\ result' = Head(Contents)
         /\ Contents' = Tail(Contents)
<1> DEFINE k == Occupancy(head, tail)
<1>0. TypeOK /\ Ordered /\ tail # headSeen /\ consumer.pc \in {"taken", "wiped"}
  BY DEF IInv, Entitled, PopRelease, TypeOK
<1>1. /\ tail' = Succeeding(tail) /\ result' = consumer.value
      /\ consumer'.pc = "idle" /\ UNCHANGED <<storage, head>>
  BY DEF PopRelease, producerVars
<1>2. k \in 1..Capacity /\ Occupancy(head', tail') = k - 1
  BY <1>0, <1>1 DEF TypeOK, Ordered, Slots, Occupancy, Succeeding
<1>3. At(0) = tail
  BY <1>0 DEF TypeOK, Slots, At
<1>4. Element(tail) = consumer.value
  BY <1>0 DEF Element
<1>5. \A n \in 1..k - 1 : At(n - 1)' = At(n) /\ At(n) # tail
  BY <1>0, <1>1, <1>2 DEF TypeOK, Slots, At, Succeeding
<1>6. Contents' = [n \in 1..k - 1 |-> storage[At(n - 1)']]
  BY <1>1, <1>2 DEF Contents, Element, At
<1>7. Contents = [n \in 1..k |-> Element(At(n - 1))] /\ Len(Contents) = k
  BY <1>0, ContentsAre
<1>8. Tail(Contents) = [n \in 1..k - 1 |-> Element(At(n))]
  <2> HIDE DEF k
  <2>. QED  BY <1>2, <1>7
<1>9. \A n \in 1..k - 1 : Element(At(n)) = storage[At(n - 1)']
  BY <1>5 DEF Element
<1>10. Contents # <<>> /\ Head(Contents) = consumer.value
  BY <1>2, <1>3, <1>4, <1>7
<1>. QED
  BY <1>1, <1>6, <1>8, <1>9, <1>10

\* The ring implements the bounded FIFO.
THEOREM RingIsFifo == Spec => ImplementsFifo
<1>1. Init => Fifo!Init
  <2> SUFFICES ASSUME Init PROVE Contents = <<>>
    BY DEF Fifo!Init
  <2>1. TypeOK /\ Occupancy(head, tail) = 0
    BY Initially DEF Init, IInv, Occupancy
  <2>2. Contents = [n \in 1..0 |-> Element(At(n - 1))]
    BY <2>1, ContentsAre
  <2>. QED  BY <2>2
<1>2. ASSUME IInv, [Next]_vars PROVE [Fifo!Next]_Fifo!vars
  <2> USE DEF Fifo!vars
  <2>0. TypeOK
    BY <1>2 DEF IInv
  <2>a. ASSUME UNCHANGED <<storage, head, tail, result, consumer>>
        PROVE  UNCHANGED Fifo!vars
    <3>1. \A i \in Slots : Occupied(i) => ElementNext(i) = Element(i)
      BY <2>a DEF Element, ElementNext
    <3>. QED  BY <2>0, <2>a, <3>1, SameContents
  <2>1. ASSUME NEW v \in Values, PushLoad(v) PROVE UNCHANGED Fifo!vars
    BY <2>1, <2>a DEF PushLoad, consumerVars
  <2>2. ASSUME PushWrite PROVE UNCHANGED Fifo!vars
    <3>1. Succeeding(head) # tailSeen
      BY <1>2, <2>2 DEF PushWrite, IInv, Entitled
    <3>2. ~Occupied(head)
      BY <1>2, <2>0, <3>1, Gained DEF IInv, TypeOK
    <3>3. storage' = [storage EXCEPT ![head] = producer.value]
          /\ UNCHANGED <<head, tail, consumer, result>>
      BY <2>2 DEF PushWrite, consumerVars
    <3>4. \A i \in Slots : Occupied(i) => ElementNext(i) = Element(i)
      BY <2>0, <3>2, <3>3 DEF Element, ElementNext, TypeOK
    <3>. QED  BY <2>0, <3>3, <3>4, SameContents
  <2>3. ASSUME PushPublish PROVE Fifo!Next
    BY <1>2, <2>3, Appends DEF Fifo!Next, Fifo!Push
  <2>4. ASSUME PopLoad PROVE UNCHANGED Fifo!vars
    <3>1. consumer.pc = "idle" /\ consumer'.pc \in {"idle", "ready"}
          /\ UNCHANGED <<storage, head, tail, result>>
      BY <2>0, <2>4 DEF PopLoad, producerVars, TypeOK
    <3>2. \A i \in Slots : ElementNext(i) = Element(i)
      BY <3>1 DEF Element, ElementNext
    <3>. QED  BY <2>0, <3>1, <3>2, SameContents
  <2>5. ASSUME PopRead PROVE UNCHANGED Fifo!vars
    <3>1. \A i \in Slots : ElementNext(i) = Element(i)
      BY <2>5 DEF PopRead, producerVars, Element, ElementNext
    <3>. QED  BY <2>0, <2>5, <3>1, SameContents DEF PopRead, producerVars
  <2>6. ASSUME Wipe PROVE UNCHANGED Fifo!vars
    <3>1. storage' = [storage EXCEPT ![tail] = Nothing]
          /\ consumer.pc = "taken" /\ consumer'.pc = "wiped"
          /\ consumer'.value = consumer.value /\ UNCHANGED <<head, tail, result>>
      BY <2>0, <2>6 DEF Wipe, producerVars, TypeOK
    <3>2. \A i \in Slots : ElementNext(i) = Element(i)
      BY <2>0, <3>1 DEF Element, ElementNext, TypeOK
    <3>. QED  BY <2>0, <3>1, <3>2, SameContents
  <2>7. ASSUME PopRelease PROVE Fifo!Next
    BY <1>2, <2>7, Takes DEF Fifo!Next, Fifo!Pop
  <2>8. ASSUME ConsumerCounts PROVE UNCHANGED Fifo!vars
    BY <2>8, <2>a DEF ConsumerCounts, producerVars
  <2>9. ASSUME ProducerCounts PROVE UNCHANGED Fifo!vars
    BY <2>9, <2>a DEF ProducerCounts, consumerVars
  <2>10. ASSUME UNCHANGED vars PROVE UNCHANGED Fifo!vars
    BY <2>10, <2>a DEF vars, producerVars, consumerVars
  <2>. QED
    BY <1>2, <2>1, <2>2, <2>3, <2>4, <2>5, <2>6, <2>7, <2>8, <2>9, <2>10
    DEF Next, Produce, Consume
<1>. QED
  BY <1>1, <1>2, Inductive, PTL DEF Spec, ImplementsFifo, Fifo!Spec

\* The ring is the same whether it is alone or beside the other structures.
THEOREM RingAmongStructures == Structures => Spec
<1>1. Every => Init
  BY DEF Every
<1>2. [Advance /\ UNCHANGED structure]_<<ringVars, tableVars, windowVars>> => [Next]_vars
  BY DEF Advance, ringVars
<1>. QED
  BY <1>1, <1>2, PTL DEF Structures, Spec
=============================================================================
