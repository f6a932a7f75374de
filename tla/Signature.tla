----------------------------- MODULE Signature -----------------------------
(***************************************************************************)
(* common/utils/signature.cpp: the search for a pattern of bytes in a      *)
(* loaded image, over all of it by one thread or by some threads each over *)
(* a part, comparing byte by byte or a vector at a time.                   *)
(*                                                                         *)
(* An address is its distance from the start of the image, from 0.  The    *)
(* image is at least a vector, and a pattern, long: a shorter one makes    *)
(* the subtractions of sizes wrap around and the search leave it.          *)
(***************************************************************************)
EXTENDS Integers, Sequences, SequencesExt, FiniteSets, FiniteSetsExt

CONSTANTS
  PatternText,    \* texts of patterns: sequences of "?", " ", digits and others
  Memory,         \* what the image may hold
  Concurrency,    \* what hardware_concurrency may give, 0 if it is not known
  Vector,         \* BOUND: bytes of a vector (16 in the code)
  PerCore         \* BOUND: positions a core is worth (10 in the code)

Digit == [c \in {"0", "1"} |-> IF c = "0" THEN 0 ELSE 1]   \* BOUND: of sixteen
IsDigit(c) == c \in DOMAIN Digit

ASSUME SignatureAssumption ==
  /\ Concurrency \subseteq Nat /\ Vector \in Nat \ {0} /\ PerCore \in Nat
  /\ \A m \in Memory : Len(m) >= Vector

VARIABLES
  sig_text,
  sig_memory,
  cpu,            \* concurrency and whether it has SSE 4.2
  sig,            \* mask_ and pattern_; or that the text was refused
  searching,      \* the threads of the search that have not added what they found
  matches          \* addresses found, in the order of the list

signatureVars == <<sig_text, sig_memory, cpu, sig, searching, matches>>

-----------------------------------------------------------------------------
(* load_pattern.                                                           *)

Cleared == [mask |-> <<>>, pattern |-> <<>>, nibble |-> -1, valid |-> TRUE]

\* One character; the first digit of a byte waits for the second, whatever is
\* between them.
read_character(s, c) ==
  IF c = " " \/ ~s.valid THEN s
  ELSE IF c = "?" THEN [s EXCEPT !.mask = Append(@, "?"), !.pattern = Append(@, 0)]
  ELSE IF ~IsDigit(c) THEN [s EXCEPT !.valid = FALSE]
  ELSE IF s.nibble = -1 THEN [s EXCEPT !.nibble = Digit[c]]
  ELSE [s EXCEPT !.mask = Append(@, "x"), !.pattern = Append(@, s.nibble * 16 + Digit[c]),
                 !.nibble = -1]

\* Trailing unknown bytes are dropped.
Trimmed(s) ==
  LET last == SelectLastInSeq(s.mask, LAMBDA m : m # "?")
  IN [s EXCEPT !.mask = SubSeq(@, 1, last), !.pattern = SubSeq(@, 1, last)]

has_sse_support(mask) == Len(mask) <= Vector /\ cpu.sse

\* For the vectors the pattern is filled up with zeros.
Padded(s) ==
  IF has_sse_support(s.mask)
  THEN [s EXCEPT !.pattern = @ \o [i \in 1..(Vector - Len(s.mask)) |-> 0]]
  ELSE s

PatternOf(text) ==
  LET read == FoldLeft(read_character, Cleared, text)
  IN IF ~read.valid \/ read.nibble # -1 THEN [Cleared EXCEPT !.valid = FALSE]
     ELSE Padded(Trimmed(read))

load_pattern ==
  /\ sig = <<>>
  /\ sig' = PatternOf(sig_text)
  /\ UNCHANGED <<sig_text, sig_memory, cpu, searching, matches>>

-----------------------------------------------------------------------------
(* process_range: the addresses of length positions from start on that     *)
(* match, in order.                                                        *)

At(address) == sig_memory[address + 1]

linear_match(address) ==
  \A j \in DOMAIN sig.mask : sig.mask[j] = "?" \/ sig.pattern[j] = At(address + j - 1)

\* desired_mask has a bit for each known byte; the comparison has one for each
\* byte that is equal, within the length of the mask, and for those past it none.
vectorized_match(address) ==
  LET mask == {j \in DOMAIN sig.mask : sig.mask[j] # "?"}
      comparison == {j \in 1..Vector : j <= Len(sig.mask) /\ sig.pattern[j] = At(address + j - 1)}
  IN mask \ comparison = {}

process_range(start, length) ==
  SelectSeq([i \in 1..length |-> start + i - 1],
            LAMBDA a : IF has_sse_support(sig.mask) THEN vectorized_match(a) ELSE linear_match(a))

-----------------------------------------------------------------------------
(* process: by itself, or each half of the cores a part of the same size,  *)
(* the last with what remains.                                             *)

AtLeastOne(n) == IF n < 1 THEN 1 ELSE n
Sub == IF has_sse_support(sig.mask) THEN Vector ELSE Len(sig.mask)
Reach == Len(sig_memory) - Sub

Ready == sig # <<>> /\ sig.valid /\ searching = {}

IsSmall == Len(sig_memory) - Len(sig.mask) <= AtLeastOne(cpu.cores) * PerCore

process_serial ==
  /\ Ready /\ matches = <<>> /\ IsSmall
  /\ matches' = <<process_range(0, Reach)>>
  /\ UNCHANGED <<sig_text, sig_memory, cpu, sig, searching>>

Threads == AtLeastOne(cpu.cores \div 2)
Grid == Reach \div Threads

\* What thread i searches, from 0.
Part(i) ==
  [start |-> Grid * i,
   length |-> IF i + 1 = Threads THEN Reach - Grid * i ELSE Grid]

process_parallel ==
  /\ Ready /\ matches = <<>> /\ ~IsSmall
  /\ searching' = 0..(Threads - 1)
  /\ matches' = <<<<>>>>
  /\ UNCHANGED <<sig_text, sig_memory, cpu, sig>>

\* A thread has searched its part and adds what it found, under the mutex; the
\* last to be joined leaves the list to be sorted.
ThreadFinds(i) ==
  LET all == matches[1] \o process_range(Part(i).start, Part(i).length)
  IN /\ i \in searching
     /\ searching' = searching \ {i}
     /\ matches' = <<IF searching = {i} THEN SortSeq(all, <) ELSE all>>
     /\ UNCHANGED <<sig_text, sig_memory, cpu, sig>>

-----------------------------------------------------------------------------
SignatureInit ==
  /\ sig_text \in PatternText /\ sig_memory \in Memory
  /\ cpu \in [cores : Concurrency, sse : BOOLEAN]
  /\ sig = <<>> /\ searching = {} /\ matches = <<>>

SignatureNext ==
  \/ load_pattern
  \/ process_serial
  \/ process_parallel
  \/ \E i \in searching : ThreadFinds(i)

-----------------------------------------------------------------------------
(* Property.                                                               *)

\* What a text asks for: its known bytes are its digits two by two, and the
\* places of its bytes are counted with those that are not known.
DigitsOf(text) == SelectSeq(text, IsDigit)
IsValid(text) ==
  /\ \A i \in DOMAIN text : IsDigit(text[i]) \/ text[i] \in {"?", " "}
  /\ Len(DigitsOf(text)) % 2 = 0

\* The byte that the k-th two digits make stands behind those before it and
\* behind the unknown ones before its second digit.
PlaceOf(text, k) ==
  LET second == CHOOSE i \in DOMAIN text :
                  IsDigit(text[i]) /\ Len(DigitsOf(SubSeq(text, 1, i))) = 2 * k
  IN k + Cardinality({i \in 1..second : text[i] = "?"})
Asked(text, address) ==
  \A k \in 1..(Len(DigitsOf(text)) \div 2) :
    At(address + PlaceOf(text, k) - 1)
      = Digit[DigitsOf(text)[2 * k - 1]] * 16 + Digit[DigitsOf(text)[2 * k]]

\* With vectors or without, by one thread or by several in whatever order they
\* end: each address that matches the text is found once and the list is in order;
\* but the last positions, as many as the vector or the pattern is long, are never
\* looked at, and a text that is none is refused (signature.cpp, load_pattern,
\* process_parallel).
SignaturesFound ==
  /\ sig # <<>> => sig.valid = IsValid(sig_text)
  /\ (searching = {} /\ matches # <<>>) =>
       matches[1] = SelectSeq([i \in 1..Reach |-> i - 1], LAMBDA a : Asked(sig_text, a))
=============================================================================
