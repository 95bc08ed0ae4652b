------------------------------ MODULE RingWord ------------------------------
(***************************************************************************)
(* Fixed-width counters and the ring buffers they index, as every socket   *)
(* of the stack uses them (transport/mainthread.h, struct Socket).         *)
(*                                                                         *)
(* A buffer position is a uint16_t that is never reduced explicitly: the   *)
(* buffer has TCP_BUFFER_SIZE = 0x10000 cells, so the wrap of the integer  *)
(* is the wrap of the ring.  M stands for 0x10000.  A sequence number is a *)
(* uint32_t of which the code keeps comparing and adding the low 16 bits;  *)
(* it is represented by its two halves, [hi, lo], and Wraps stands for the *)
(* 0x10000 values of the high half.                                        *)
(***************************************************************************)
EXTENDS Integers, Sequences

CONSTANTS M, Wraps

ASSUME WordAssumption == M \in Nat /\ M >= 2 /\ Wraps \in Nat /\ Wraps >= 2

Word == 0 .. M - 1
SeqNo == [hi : 0 .. Wraps - 1, lo : Word]

\* Mutant of Add: the sum is kept in an int, the uint16_t wrap forgotten.
AddNoWrap(x, n) == x + n

\* x + n and x - y in uint16_t, for operands that are words.
Add(x, n) == IF x + n < M THEN x + n ELSE x + n - M
Sub(x, y) == IF y <= x THEN x - y ELSE x - y + M

\* The uint16_t expression  back - 1 - front : the cells a producer at
\* `front` may still fill when the consumer is at `back`.
Space(back, front) == Sub(Sub(back, 1), front)

\* s + n in uint32_t, n a word: the carry goes to the high half.
Adv(s, n) ==
  [hi |-> IF s.lo + n < M THEN s.hi
          ELSE IF s.hi + 1 = Wraps THEN 0 ELSE s.hi + 1,
   lo |-> Add(s.lo, n)]

Zero == [hi |-> 0, lo |-> 0]
MinusOne == [hi |-> Wraps - 1, lo |-> M - 1]

Min2(a, b) == IF a <= b THEN a ELSE b

\* The n cells of `buf` from position `at` on, in order; and `buf` with the
\* sequence `data` stored from `at` on.  Both wrap at the end of the buffer.
RingRead(buf, at, n) == [i \in 1 .. n |-> buf[Add(at, i - 1)]]
RingWrite(buf, at, data) ==
  [k \in Word |-> IF Sub(k, at) < Len(data) THEN data[Sub(k, at) + 1]
                                            ELSE buf[k]]
=============================================================================
