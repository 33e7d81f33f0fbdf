---------------------------- MODULE EcatConvert ----------------------------
(***************************************************************************)
(* The functions with which the support layer copies an element of a PDO   *)
(* between a process image and the memory of the model                     *)
(* (src/rtw/blocks/EtherCAT/ecrt_support.c, ecs_copy, _write and _read).   *)
(*                                                                         *)
(* None of them looks at the values that it copies, so each is modelled by *)
(* where every bit goes. Bit b of a byte at offset o of the image is bit   *)
(* 8 * o + b; a bit of the memory is its place in the value that is there. *)
(* The host is little endian: ecs_write_be_uint24 and its like shift the   *)
(* bytes of a swapped value.                                               *)
(***************************************************************************)
EXTENDS EcTypes, FiniteSets

Zero == -1  \* a bit of the memory that is cleared

Bytes(dt) == MantBits(dt) \div 8

-----------------------------------------------------------------------------
(* Image to memory: a function from the bits that are stored to their      *)
(* sources. A function of less than a byte reads one byte.                 *)

ReadBitField(n, offset, bit_pos) ==
  [b \in 0 .. 7 |-> IF b < n /\ bit_pos + b < 8 THEN 8 * offset + bit_pos + b
                    ELSE Zero]

(* Integers are stored in the next larger type of the machine.             *)
Stored(n) == CHOOSE s \in {1, 2, 4, 8} :
               s >= n /\ \A t \in {1, 2, 4, 8} : t >= n => s <= t

ReadLittle(n, offset) ==
  [b \in 0 .. 8 * Stored(n) - 1 |-> IF b < 8 * n THEN 8 * offset + b ELSE Zero]

(* Mutant: the bytes stay in their order.                                  *)
BigUnswapped(n, b) == b

(* The place of bit b of a big endian value of n bytes.                    *)
Big(n, b) == 8 * (n - 1 - b \div 8) + (b % 8)

(* ecs_read_be_uint24 stores 64 bits, unlike ecs_read_le_uint24.           *)
ReadBig(n, offset) ==
  [b \in 0 .. 8 * (IF n = 3 THEN 8 ELSE Stored(n)) - 1 |->
     IF b < 8 * n THEN 8 * offset + Big(n, b) ELSE Zero]

(* The choice of the function in ecs_start_slaves.                         *)
Read(dt, bigendian, offset, bit_pos) ==
  IF dt < 1008 THEN ReadBitField(MantBits(dt), offset, bit_pos)
  ELSE IF bigendian THEN ReadBig(Bytes(dt), offset)
                    ELSE ReadLittle(Bytes(dt), offset)

-----------------------------------------------------------------------------
(* Memory to image: a function from the bits of the image that change to   *)
(* the bits of the memory.                                                 *)

(* Mutant: the mask is that of the whole byte.                             *)
WriteByteOfField(n, offset, bit_pos) ==
  [x \in 8 * offset .. 8 * offset + 7 |->
     IF x - 8 * offset >= bit_pos THEN x - 8 * offset - bit_pos ELSE 7]

(* The mask is cut off with the byte.                                      *)
WriteBitField(n, offset, bit_pos) ==
  [x \in {8 * offset + b : b \in (bit_pos .. bit_pos + n - 1) \cap (0 .. 7)} |->
     x - 8 * offset - bit_pos]

WriteLittle(n, offset) ==
  [x \in 8 * offset .. 8 * (offset + n) - 1 |-> x - 8 * offset]

WriteBig(n, offset) ==
  [x \in 8 * offset .. 8 * (offset + n) - 1 |-> Big(n, x - 8 * offset)]

Write(dt, bigendian, offset, bit_pos) ==
  IF dt < 1008 THEN WriteBitField(MantBits(dt), offset, bit_pos)
  ELSE IF bigendian THEN WriteBig(Bytes(dt), offset)
                    ELSE WriteLittle(Bytes(dt), offset)
=============================================================================
