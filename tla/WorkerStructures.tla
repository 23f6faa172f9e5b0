-------------------------- MODULE WorkerStructures --------------------------
(***************************************************************************)
(* The data structures between a datagram and the DATA worker: the ring    *)
(* that brings its commands (SpscQueue), the table that finds its session  *)
(* (SessionTable) and the window that judges its sequence number           *)
(* (ReplayWindow).  They share no state, so a behaviour is one of them.    *)
(***************************************************************************)
EXTENDS SpscQueue

CONSTANTS
  Keys, Sessions, SlotCount,       \* of SessionTable
  WordBits, word_count, Expiry     \* of ReplayWindow

VARIABLES
  structure,
  slots, count, hash, erased, putResult,
  initialized, highest, words, committed

Table == INSTANCE SessionTable WITH Values <- Sessions, result <- putResult
Window == INSTANCE ReplayWindow

\* The table's slots mark the absence of a key and of a session with 0.
ASSUME TableAssumption ==
  SlotCount \in Nat \ {0} /\ 0 \notin Keys /\ 0 \notin Sessions
ASSUME WindowAssumption ==
  {WordBits, word_count, Expiry} \subseteq Nat \ {0}

ringVars == vars
tableVars == <<slots, count, hash, erased, putResult>>
windowVars == <<initialized, highest, words, committed>>

Every ==
  /\ Init /\ Table!Init /\ Window!Init
  /\ structure \in {"ring", "table", "window"}
  /\ structure # "ring" => ~secure
  /\ structure # "table" => \A k \in Keys : hash[k] = 0

Advance ==
  \/ structure = "ring" /\ Next /\ UNCHANGED <<tableVars, windowVars>>
  \/ structure = "table" /\ Table!Next /\ UNCHANGED <<ringVars, windowVars>>
  \/ structure = "window" /\ Window!Next /\ UNCHANGED <<ringVars, tableVars>>

Structures == Every /\ [][Advance /\ UNCHANGED structure]_<<ringVars, tableVars, windowVars>>

-----------------------------------------------------------------------------
\* session_table.zig is a map that erases exactly what it drops, counts what it
\* holds and keeps its load factor, under every hash function.
TableIsMap == Table!ImplementsMap /\ [](Table!CountIsExact /\ Table!TypeOK)

\* replay.zig accepts exactly what is new (see ReplayWindow), and no shift
\* sets a bit outside a word.
WindowIsExact == structure = "window" => Window!TypeOK /\ Window!AcceptsExactlyNew
=============================================================================
