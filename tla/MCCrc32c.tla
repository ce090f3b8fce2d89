------------------------------ MODULE MCCrc32c ------------------------------
(***************************************************************************)
(* TLC's instance of Crc32c: data shorter than a word, of a few bytes more *)
(* or less than a swath of sixteen, and of two swaths and some words.      *)
(***************************************************************************)
EXTENDS Crc32c

Piece(length) == [i \in 1..length |-> Bits((37 * i + length) % 256, 0, 7)]

MCPieces == {Piece(1), Piece(3), Piece(7), Piece(19), Piece(46)}
MCTypes == {{}, {0}}

=============================================================================
