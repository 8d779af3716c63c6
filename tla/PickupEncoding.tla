--------------------------- MODULE PickupEncoding ---------------------------
(***************************************************************************)
(* The one-bit-per-pickup counter layout of pickup_encoding.py.  The game  *)
(* adds 2^bit to a persistent counter when a pickup is collected, and the  *)
(* client later turns the counters back into pickup indices.               *)
(*                                                                         *)
(* A counter amount is represented by the set of its binary digits that    *)
(* are one, so that adding, subtracting and decoding are first-order       *)
(* definitions a prover can use.  References checks that this              *)
(* representation agrees with the arithmetic of the source.                *)
(***************************************************************************)
EXTENDS Integers

CONSTANTS
  NumPickups,       \* len(LOCATION_TABLE), 119 in the source
  NumCounters,      \* len(PICKUP_COUNTER_ITEMS), 4 in the source
  BitsPerCounter,   \* constants.BITS_PER_COUNTER, 30 in the source
  AmountBits        \* width of COUNTER_MAX_CAPACITY = 0x7FFFFFFF, 31 in the source

\* The last conjunct is the module-level assert of pickup_encoding.py.
ASSUME LayoutAssumption ==
  /\ NumPickups \in Nat
  /\ NumCounters \in Nat
  /\ BitsPerCounter \in Nat \ {0}
  /\ AmountBits \in Nat
  /\ BitsPerCounter <= AmountBits
  /\ NumPickups <= NumCounters * BitsPerCounter

Pickups  == 0 .. NumPickups - 1
Counters == 0 .. NumCounters - 1
Bits     == 0 .. AmountBits - 1
Amounts  == [Counters -> SUBSET Bits]

NoAmounts == [c \in Counters |-> {}]

(* What a body consumes: an amount for some of the counters.               *)
DeltaMaps == UNION {[D -> SUBSET Bits] : D \in SUBSET Counters}
NoDeltas  == [c \in {} |-> {}]
-----------------------------------------------------------------------------
(* counter_and_amount: pickup p adds 2^BitOf(p) to counter CounterOf(p).   *)
CounterOf(p) == p \div BitsPerCounter
BitOfOneBased(p) == (p + 1) % BitsPerCounter   \* mutant: the index is 0-based
BitOf(p)     == p % BitsPerCounter

Holds(amount, p) == BitOf(p) \in amount[CounterOf(p)]

DecodeOffByOne(amount) ==   \* mutant: 1-based index
  {p \in Pickups : \E c \in Counters : \E b \in amount[c] :
     b < BitsPerCounter /\ p = c * BitsPerCounter + b + 1}

DecodeUnchecked(amount) ==   \* mutant: 1-based index, not looked up in the table
  UNION {{c * BitsPerCounter + b + 1 : b \in {d \in amount[c] : d < BitsPerCounter}} :
           c \in Counters}

(* decode: every one-bit below BitsPerCounter that is the slot of a real   *)
(* pickup yields that pickup's index ...                                   *)
Decode(amount) ==
  {p \in Pickups : \E c \in Counters : \E b \in amount[c] :
     b < BitsPerCounter /\ p = c * BitsPerCounter + b}

(* ... every other one-bit is stray ...                                    *)
Stray(amount) ==
  {slot \in Counters \X Bits :
     /\ slot[2] \in amount[slot[1]]
     /\ slot[2] < BitsPerCounter => slot[1] * BitsPerCounter + slot[2] \notin Pickups}

(* ... and every nonzero counter is consumed by exactly the amount read.   *)
Deltas(amount) == [c \in {d \in Counters : amount[d] # {}} |-> amount[c]]
-----------------------------------------------------------------------------
PlusBitNoCarry(amount, bit) == amount \cup {bit}   \* mutant: or instead of add

(* What the game does to an amount.  Adding 2^bit ripples a carry through  *)
(* the ones above it and saturates at the powerup_max ceiling.             *)
PlusBit(amount, bit) ==
  IF \A e \in Bits : e >= bit => e \in amount
  THEN Bits
  ELSE {d \in Bits :
          IF d >= bit /\ (\A e \in bit .. d - 1 : e \in amount)
          THEN d \notin amount
          ELSE d \in amount}

(* The highest digit in which the two amounts differ belongs to second.    *)
IsLess(first, second) ==
  \E b \in second \ first :
     \A d \in Bits : d > b => (d \in first <=> d \in second)

(* first - second, or zero when second is the larger one.                  *)
Minus(first, second) ==
  LET Borrow(d) == \E b \in second \ first :
                      b < d /\ \A e \in b + 1 .. d - 1 : (e \in first <=> e \in second)
  IN  IF IsLess(first, second)
      THEN {}
      ELSE {d \in Bits : (d \in first <=> d \in second) <=> Borrow(d)}

(* A pickup of the patched game: the native additive path.                 *)
AddPickup(amount, p) ==
  [amount EXCEPT ![CounterOf(p)] = PlusBit(amount[CounterOf(p)], BitOf(p))]

(* The body consume_counters arms: one decr_pickup call per delta.         *)
Consume(amount, deltas) ==
  [c \in Counters |-> IF c \in DOMAIN deltas THEN Minus(amount[c], deltas[c])
                                             ELSE amount[c]]
=============================================================================
