----------------------------- MODULE MCSdDriver -----------------------------
(***************************************************************************)
(* SdDriver for TLC.  A sector is two bytes long, so that the byte address *)
(* of one sector is the number of another.  One card is credited with a    *)
(* sector too many and one with a sector too few, as the low bits of       *)
(* C_SIZE decide; the version 1 card is refused.                           *)
(***************************************************************************)
EXTENDS SdDriver

Capacity == INSTANCE SdCapacity

Card(v, c, s, counted) == [version |-> v, class |-> c, sectors |-> s, counted |-> counted]
MCCards == {Card(2, "standard", 2, 3), Card(2, "standard", 3, 2),
            Card(2, "high", 4, 4), Card(1, "standard", 2, 2)}

\* The smallest, the largest and some sizes between, with every value of the
\* bits next to C_SIZE.
Registers == Capacity!Fields({9, 10}, {0, 1, 255, 1022, 1023, 1024, 3839, 4094, 4095},
                             {0, 1, 2, 6, 7}, {0, 31, 126, 127}, 0 .. 7)

\* The driver's count of sectors is off by at most three of the card's units, in
\* either direction, and nothing goes round in its product (sd.c:882-890).
ASSUME CountedIsNear ==
  \A c \in Registers :
    /\ Capacity!CountedBlocks(c) <= Capacity!RealBlocks(c) + 3 * Capacity!Unit(c)
    /\ Capacity!RealBlocks(c) <= Capacity!CountedBlocks(c) + 3 * Capacity!Unit(c)

\* The erase unit, put together from two bytes, is the card's (sd.c:885).
ASSUME EraseUnitIsExact ==
  \A c \in Registers :
    Capacity!SectorSize(Capacity!Register(c)) = c.sector_size
=============================================================================
