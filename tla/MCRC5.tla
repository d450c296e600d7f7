------------------------------- MODULE MCRC5 -------------------------------
(* Model-checking instance of RC5: words of 3 bits, 3 rounds, the key       *)
(* tables that setkey makes of keys of no, one and two words.               *)
EXTENDS RC5, Sequences, TLC

Arith == INSTANCE RC5Words WITH w <- 3, P <- 5, Q <- 3

AllWords   == 0 .. 7
AddW(v, s) == Arith!add(v, s)
SubW(v, s) == Arith!sub(v, s)
XorW(v, s) == Arith!xor(v, s)
RotlW(v, n) == Arith!rotl(v, n)
RotrW(v, n) == Arith!rotr(v, n)
KeyWords   == {<<>>, <<1>>, <<7>>, <<4, 6>>}
KeyTables  == {Arith!setkey(k, 3) : k \in KeyWords}
=============================================================================
