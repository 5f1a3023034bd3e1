------------------------------- MODULE BitPos -------------------------------
(***************************************************************************)
(* utils_get_leftmost_set_bit_pos and utils_get_rightmost_set_bit_pos in   *)
(* their two builds: src/src/utils/utils_posix_math.c, through the GCC     *)
(* builtins __builtin_clzll and __builtin_ctzll, and                       *)
(* src/src/utils/utils_windows_math.c, through the MSVC intrinsics         *)
(* _BitScanReverse64 and _BitScanForward64.  The leftmost position is what *)
(* critnib_insert turns into the shift of a new node (critnib.c:371).      *)
(*                                                                         *)
(* The functions take a uint64_t; TLC's integers hold 31 bits, so the     *)
(* word is WIDTH bits wide and every formula keeps its shape with WIDTH    *)
(* in place of 64 (sizeof(num) * CHAR_BIT).  A caller passes num to one   *)
(* function at a time; the state is the argument of the latest call.      *)
(***************************************************************************)
EXTENDS Integers, FiniteSetsExt

CONSTANTS
  WIDTH,   \* bits in the argument word (64 in the code)
  Inputs   \* the arguments passed: nonzero words (num == 0 is asserted against)

ASSUME WIDTH \in 1 .. 31 /\ Inputs \subseteq 1 .. 2^(WIDTH - 1) - 1 + 2^(WIDTH - 1)

VARIABLE num

\* Bit i of x.
Bit(x, i) == (x \div 2^i) % 2

\* __builtin_clzll: the zero bits above the highest set bit of a w-bit word.
RECURSIVE clz(_, _)
clz(x, w) == IF Bit(x, w - 1) = 1 THEN 0 ELSE 1 + clz(x, w - 1)

\* __builtin_ctzll: the zero bits below the lowest set bit.
RECURSIVE ctz(_)
ctz(x) == IF Bit(x, 0) = 1 THEN 0 ELSE 1 + ctz(x \div 2)

\* _BitScanReverse64 stores the index of the highest set bit, searching
\* from bit 63 down; _BitScanForward64 the lowest, searching from bit 0 up.
RECURSIVE BitScanReverse(_, _), BitScanForward(_, _)
BitScanReverse(x, i) == IF Bit(x, i) = 1 THEN i ELSE BitScanReverse(x, i - 1)
BitScanForward(x, i) == IF Bit(x, i) = 1 THEN i ELSE BitScanForward(x, i + 1)

\* Mutation: the builtin's count taken from the word size, not its last index.
PosixLeftmostOffByOne(x) == WIDTH - clz(x, WIDTH)

\* utils_posix_math.c lines 17-21.
PosixLeftmost(x) == (WIDTH - 1) - clz(x, WIDTH)

\* utils_posix_math.c lines 23-27.
PosixRightmost(x) == ctz(x)

\* utils_windows_math.c lines 19-25.
WindowsLeftmost(x) == BitScanReverse(x, WIDTH - 1)

\* utils_windows_math.c lines 27-33.
WindowsRightmost(x) == BitScanForward(x, 0)

\* A call with any nonzero argument.
Call(x) == num' = x

Init == num \in Inputs
Next == \E x \in Inputs : Call(x)
Spec == Init /\ [][Next]_num

-----------------------------------------------------------------------------
(* The positions of the set bits, the reference both builds are checked   *)
(* against: bit positions counted from 0 ("for 01000011110 the position   *)
(* equals 9", the comment at line 16).                                     *)
SetBits(x) == {i \in 0 .. WIDTH - 1 : Bit(x, i) = 1}

TypeOK == num \in Inputs

(* Both builds of utils_get_leftmost_set_bit_pos return the position of   *)
(* the highest set bit, so the shift critnib_insert derives from it is the *)
(* same on POSIX and on Windows.                                            *)
LeftmostIsHighestBit ==
  PosixLeftmost(num) = Max(SetBits(num)) /\ WindowsLeftmost(num) = Max(SetBits(num))
=============================================================================
