-------------------------------- MODULE MCKyc --------------------------------
(* Kyc with what Smile may answer: no name, three words, or a first name only; *)
(* calls and users may be permuted.                                             *)
EXTENDS Kyc

CONSTANTS w1, w2, w3

ThreeWords == [first |-> <<>>, last |-> <<>>, full |-> <<w1, w2, w3>>]
FirstOnly == [first |-> <<w1>>, last |-> <<>>, full |-> <<>>]

MCAnswer == {Silence, ThreeWords, FirstOnly}
Symmetry == Permutations(Call) \cup Permutations(User)
=============================================================================
