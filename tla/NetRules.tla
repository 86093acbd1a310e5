------------------------------ MODULE NetRules ------------------------------
(***************************************************************************)
(* network/netrules, IPRangeToCIDRs: a range of addresses as a list of     *)
(* CIDR blocks, computed in unsigned integers of Width bits.               *)
(***************************************************************************)
EXTENDS Integers, FiniteSets

CONSTANT Width  \* bits of an address, 32 in the code

ASSUME WidthAssumption == Width \in Nat \ {0}

\* What ^ is on the exponents that occur; it holds of every Width.
ASSUME PowerAssumption == \A k \in 1..Width : 2^k = 2 * 2^(k - 1)

VARIABLES
  from,   \* iprange.Start as a number
  start,  \* where the rest of the range starts
  end,    \* iprange.End as a number
  r,      \* the blocks found so far
  pc      \* "loop" or "done"

vars == <<from, start, end, r, pc>>

Last == 2^Width - 1  \* 0xffffffff

Addresses == 0..Last

\* Shifting by the whole width leaves nothing: bitMask(0) is 0.
bitMask(len) == 2^Width - 2^(Width - len)

\* start & bitMask(len), which clears the low bits
first(s, len) == s - (s % (2^Width - bitMask(len)))

last(s, len) == first(s, len) + (2^Width - 1 - bitMask(len))

\* The block of s with len bits lies in the rest of the range.
Fits(s, e, len) == s = first(s, len) /\ e >= last(s, len)

\* Faulty variant: the prefix is never made shorter than one bit.
MaskLenPositive(s, e) ==
  CHOOSE m \in 1..Width :
    /\ \A k \in m..(Width - 1) : Fits(s, e, k)
    /\ m > 1 => ~Fits(s, e, m - 1)

\* The inner loop: shorten the prefix as long as the block fits.
MaskLen(s, e) ==
  CHOOSE m \in 0..Width :
    /\ \A k \in m..(Width - 1) : Fits(s, e, k)
    /\ m > 0 => ~Fits(s, e, m - 1)

Init ==
  /\ from \in Addresses
  /\ start = from
  /\ end \in Addresses
  /\ r = {}
  /\ pc = "loop"

\* Faulty variant: the last address is not looked at before start++.
TakeBlockWraps ==
  /\ pc = "loop"
  /\ start =< end
  /\ LET m == MaskLen(start, end)
     IN  /\ r' = r \cup {[at |-> start, len |-> m]}
         /\ start' = (last(start, m) + 1) % 2^Width
  /\ UNCHANGED <<from, end, pc>>

TakeBlock ==
  /\ pc = "loop"
  /\ start =< end
  /\ LET m == MaskLen(start, end)
     IN  /\ r' = r \cup {[at |-> start, len |-> m]}
         /\ IF last(start, m) = Last
              THEN start' = Last /\ pc' = "done"
              ELSE start' = (last(start, m) + 1) % 2^Width /\ pc' = pc
  /\ UNCHANGED <<from, end>>

LoopEnds ==
  /\ pc = "loop"
  /\ start > end
  /\ pc' = "done"
  /\ UNCHANGED <<from, start, end, r>>

Next == TakeBlock \/ LoopEnds

Spec == Init /\ [][Next]_vars /\ WF_vars(Next)

-----------------------------------------------------------------------------
(* Properties                                                              *)

Block(b) == first(b.at, b.len)..last(b.at, b.len)

\* The blocks that IPRangeToCIDRs returns cover the range from Start to End
\* inclusive and nothing else, and no address twice; a range whose end comes
\* before its start has none.  The list is as short as it can be: no block could
\* have a shorter prefix and still lie in the range.  In particular the full
\* range is the one block 0.0.0.0/0, which Applier.Out recognizes.
CoversExactly ==
  pc = "done" =>
    /\ UNION {Block(b) : b \in r} = from..end
    /\ \A b, c \in r : b # c => Block(b) \cap Block(c) = {}
    /\ \A b \in r : b.len > 0 =>
         ~(first(b.at, b.len - 1)..last(b.at, b.len - 1) \subseteq from..end)

\* The loop ends for every range, also one that ends at the last address, where
\* start++ would wrap around to 0.
Terminates == <>(pc = "done")
=============================================================================
