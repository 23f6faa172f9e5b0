---------------------------- MODULE ReplayWindow -----------------------------
(***************************************************************************)
(* The replay window of a session (protocol/replay.zig) as transport.open  *)
(* uses it: check before the tag is verified, commit after.  A word of the *)
(* bitmap is the set of its one bits; bit b of word i stands for the       *)
(* sequence highest - (i * WordBits + b).                                  *)
(***************************************************************************)
EXTENDS Integers, FiniteSets

CONSTANTS
  WordBits,    \* 64 in the code
  word_count,  \* 32
  Expiry       \* hard_expiry_packets: sequences from here on are refused

VARIABLES
  initialized, highest, words,
  committed    \* history: the sequences committed so far

vars == <<initialized, highest, words, committed>>

window_size == WordBits * word_count
Sequences == 0..Expiry - 1
Bits == 0..WordBits - 1
Words == 0..word_count - 1

Init ==
  /\ initialized = FALSE /\ highest = 0
  /\ words = [i \in Words |-> {}]
  /\ committed = {}

-----------------------------------------------------------------------------
Bit(sequence) == (highest - sequence) % WordBits
Word(sequence) == (highest - sequence) \div WordBits

\* check returns no error
check(sequence) ==
  (initialized /\ sequence <= highest) =>
    /\ highest - sequence < window_size
    /\ Bit(sequence) \notin words[Word(sequence)]

\* A word shifted by less than its width: what leaves it is lost.
ShiftLeft(word, bits) == {b \in Bits : b - bits \in word}
ShiftRight(word, bits) == {b \in Bits : b + bits \in word}

\* shift.  The loop runs from the last word down and reads words at or below
\* the one it writes, so that it sees the old ones.
ShiftedWithoutCarry(amount) ==
  IF amount >= window_size THEN [i \in Words |-> {}]
  ELSE [i \in Words |->
         IF i < amount \div WordBits THEN {}
         ELSE ShiftLeft(words[i - amount \div WordBits], amount % WordBits)]
Shifted(amount) ==
  IF amount >= window_size THEN [i \in Words |-> {}]
  ELSE LET whole == amount \div WordBits
           bits == amount % WordBits
           Carry(source) ==
             IF bits # 0 /\ source > 0
             THEN ShiftRight(words[source - 1], WordBits - bits) ELSE {}
       IN  [i \in Words |->
             IF i < whole THEN {}
             ELSE ShiftLeft(words[i - whole], bits) \cup Carry(i - whole)]

Smaller(a, b) == IF a < b THEN a ELSE b

\* An authentic datagram: transport.open checks and commits its sequence.
commit(sequence) ==
  /\ check(sequence)
  /\ initialized' = TRUE
  /\ \/ /\ ~initialized
        /\ highest' = sequence
        /\ words' = [words EXCEPT ![0] = {0}]
     \/ /\ initialized /\ sequence > highest
        /\ highest' = sequence
        /\ words' = [Shifted(Smaller(sequence - highest, window_size))
                       EXCEPT ![0] = @ \cup {0}]
     \/ /\ initialized /\ sequence <= highest
        /\ words' = [words EXCEPT ![Word(sequence)] = @ \cup {Bit(sequence)}]
        /\ UNCHANGED highest
  /\ committed' = committed \cup {sequence}

\* A datagram whose tag is wrong may pass the check; it changes nothing.
Next == \E sequence \in Sequences : commit(sequence)

Spec == Init /\ [][Next]_vars

-----------------------------------------------------------------------------
TypeOK ==
  /\ initialized \in BOOLEAN /\ highest \in Sequences
  /\ words \in [Words -> SUBSET Bits]
  /\ committed \subseteq Sequences

\* The bitmap is exact at every width, shift and order of arrival: a sequence
\* passes iff it was not committed before and is not as far behind the highest
\* as the window is wide.  A bit that a shift lost would accept a datagram
\* twice; one that it left would drop a datagram that is new.
AcceptsExactlyNew ==
  \A sequence \in Sequences :
    check(sequence) <=>
      /\ sequence \notin committed
      /\ \A other \in committed : other - sequence < window_size
=============================================================================
