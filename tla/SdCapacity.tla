------------------------------ MODULE SdCapacity ------------------------------
(***************************************************************************)
(* What sd_cmd9_transaction makes of the card's CSD register (sd.c:878-899)*)
(* against the fields the card put into it, as functions.  Byte k of the   *)
(* register holds its bits 127 - 8k down to 120 - 8k; a byte is a number,  *)
(* x & m and the shifts are the quotients and remainders they stand for.   *)
(***************************************************************************)
EXTENDS Naturals

\* The fields of the registers of cards up to the 2 GB of the standard.  The
\* current stands next to the low bits of the size.
Fields(bl, sizes, mults, erase, currents) ==
  [read_bl_len : bl, c_size : sizes, c_size_mult : mults, sector_size : erase,
   vdd_r_curr_max : currents]

\* The bytes the card sends, by the layout of the SD specification.
Register(c) ==
  [b5 |-> c.read_bl_len,
   b6 |-> c.c_size \div 1024,
   b7 |-> (c.c_size \div 4) % 256,
   b8 |-> 64 * (c.c_size % 4) + c.vdd_r_curr_max,
   b9 |-> c.c_size_mult \div 2,
   b10 |-> 128 * (c.c_size_mult % 2) + 64 + c.sector_size \div 2,
   b11 |-> 128 * (c.sector_size % 2)]

\* >> binds tighter than &: buf[8] & 0xC0 >> 6 is buf[8] & 3.
CSizeLow(b8) == b8 % 4

SectorSize(buf) == 2 * (buf.b10 % 64) + buf.b11 \div 128

Unpacked(buf) ==
  [read_bl_len |-> buf.b5 % 16,
   c_size |-> 1024 * (buf.b6 % 4) + 4 * buf.b7 + CSizeLow(buf.b8),
   c_size_mult |-> 2 * (buf.b9 % 4) + buf.b10 \div 128,
   sector_size |-> SectorSize(buf)]

\* capacity_bytes / 512 in the 32 bits of its product, where sd_pow(2, k) is 2 ^ k.
Blocks(f) ==
  ((f.c_size + 1) * 2 ^ (f.c_size_mult + 2) * 2 ^ (f.read_bl_len - 9)) % 2 ^ 23

\* The sectors that dev gets for card c, and those that it has.
CountedBlocks(c) == Blocks(Unpacked(Register(c)))
Unit(c) == 2 ^ (c.c_size_mult + c.read_bl_len - 7)
RealBlocks(c) == (c.c_size + 1) * Unit(c)
=============================================================================
