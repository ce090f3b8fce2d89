------------------------------ MODULE MCBlock ------------------------------
(***************************************************************************)
(* TLC's instance of Block: keys that share nothing, a part, or all of one *)
(* another, and an empty value.                                            *)
(***************************************************************************)
EXTENDS Block

MCKeys == {<<1>>, <<1, 2>>, <<1, 3, 2>>, <<2, 2, 2, 2>>}
MCValues == {<<>>, <<1, 0>>}

=============================================================================
