------------------------------ MODULE PeanoHilbert ------------------------------
(***************************************************************************)
(* The Peano-Hilbert curve through the 2^bits cells in each of three       *)
(* dimensions (peano.c): the key of a cell and the cell of a key.          *)
(***************************************************************************)
EXTENDS Integers, Sequences

(* For each of 24 rotations, where the curve has the octants 000, 001 to   *)
(* 111 (bits of x, y, z).                                                  *)
quadrants == <<
   <<0, 7, 1, 6, 3, 4, 2, 5>>, <<7, 4, 6, 5, 0, 3, 1, 2>>, <<4, 3, 5, 2, 7, 0, 6, 1>>,
   <<3, 0, 2, 1, 4, 7, 5, 6>>, <<1, 0, 6, 7, 2, 3, 5, 4>>, <<0, 3, 7, 4, 1, 2, 6, 5>>,
   <<3, 2, 4, 5, 0, 1, 7, 6>>, <<2, 1, 5, 6, 3, 0, 4, 7>>, <<6, 1, 7, 0, 5, 2, 4, 3>>,
   <<1, 2, 0, 3, 6, 5, 7, 4>>, <<2, 5, 3, 4, 1, 6, 0, 7>>, <<5, 6, 4, 7, 2, 1, 3, 0>>,
   <<7, 6, 0, 1, 4, 5, 3, 2>>, <<6, 5, 1, 2, 7, 4, 0, 3>>, <<5, 4, 2, 3, 6, 7, 1, 0>>,
   <<4, 7, 3, 0, 5, 6, 2, 1>>, <<6, 7, 5, 4, 1, 0, 2, 3>>, <<7, 0, 4, 3, 6, 1, 5, 2>>,
   <<0, 1, 3, 2, 7, 6, 4, 5>>, <<1, 6, 2, 5, 0, 7, 3, 4>>, <<2, 3, 1, 0, 5, 4, 6, 7>>,
   <<3, 4, 0, 7, 2, 5, 1, 6>>, <<4, 5, 7, 6, 3, 2, 0, 1>>, <<5, 2, 6, 1, 4, 3, 7, 0>> >>

(* The rotation that follows one about the x axis, or about the y axis.    *)
rotxmap_table ==
  <<4, 5, 6, 7, 8, 9, 10, 11, 12, 13, 14, 15, 0, 1, 2, 3, 17, 18, 19, 16, 23, 20, 21, 22>>

rotymap_table ==
  <<1, 2, 3, 0, 16, 17, 18, 19, 11, 8, 9, 10, 22, 23, 20, 21, 14, 15, 12, 13, 4, 5, 6, 7>>

(* How many of them each octant needs, and whether it turns the curve.     *)
rotx_table == <<3, 0, 0, 2, 2, 0, 0, 1>>

roty_table == <<0, 1, 1, 2, 2, 3, 3, 0>>

sense_table == <<-1, -1, -1, 1, 1, -1, -1, -1>>

RECURSIVE Turned(_, _, _)

Turned(table, times, rotation) ==
  IF times = 0 THEN rotation ELSE Turned(table, times - 1, table[rotation + 1])

(* The state of the loop behind the octant with number quad.               *)
Rotated(rotation, quad) ==
  Turned(rotymap_table, roty_table[quad + 1],
         Turned(rotxmap_table, rotx_table[quad + 1], rotation))

(* Mutant: the sense of the curve is forgotten.                            *)
TurnedSenseKept(sense, quad) == sense

TurnedSense(sense, quad) == sense * sense_table[quad + 1]

Along(sense, quad) == IF sense = 1 THEN quad ELSE 7 - quad

BitOf(n, bits) == (n \div 2 ^ (bits - 1)) % 2

Octant(cell, bits) == 4 * BitOf(cell[1], bits) + 2 * BitOf(cell[2], bits) + BitOf(cell[3], bits)

RECURSIVE KeyFrom(_, _, _, _, _)

KeyFrom(key, cell, bits, rotation, sense) ==
  IF bits = 0 THEN key
  ELSE LET quad == quadrants[rotation + 1][Octant(cell, bits) + 1] IN
       KeyFrom(8 * key + Along(sense, quad), cell, bits - 1, Rotated(rotation, quad),
               TurnedSense(sense, quad))

peano_hilbert_key(cell, bits) == KeyFrom(0, cell, bits, 0, 1)

RECURSIVE CellFrom(_, _, _, _, _)

CellFrom(cell, key, bits, rotation, sense) ==
  IF bits = 0 THEN cell
  ELSE LET quad == Along(sense, (key \div 8 ^ (bits - 1)) % 8)
           octant == (CHOOSE q \in 1 .. 8 : quadrants[rotation + 1][q] = quad) - 1
       IN  CellFrom(<<2 * cell[1] + octant \div 4, 2 * cell[2] + ((octant \div 2) % 2),
                      2 * cell[3] + (octant % 2)>>,
                    key, bits - 1, Rotated(rotation, quad), TurnedSense(sense, quad))

(* The mask 7 << 3 * (bits - 1) is an int: this is for bits up to 10.      *)
peano_hilbert_key_inverse(key, bits) == CellFrom(<<0, 0, 0>>, key, bits, 0, 1)
===============================================================================
