------------------------------ MODULE RC5Words ------------------------------
(* The word arithmetic and the key schedule of rc5.py for words of w bits.  *)
EXTENDS Integers, Sequences, SequencesExt, Bitwise

CONSTANTS w, P, Q   \* 32 or 64 in the code, with the magic constants

add(v, s)  == (v + s) % 2 ^ w
sub(v, s)  == (v - s) % 2 ^ w
xor(v, s)  == v ^^ s
rotl(v, n) == ((v * 2 ^ (n % w)) % 2 ^ w) + (v \div 2 ^ (w - (n % w)))
rotr(v, n) == (v \div 2 ^ (n % w)) + ((v * 2 ^ (w - (n % w))) % 2 ^ w)

\* One step of the loop that mixes the key words L into the table; the two
\* sequences count from 1.
Mix(st, t, c) ==
  LET A == rotl((st.S[st.i + 1] + st.A + st.B) % 2 ^ w, 3)
      B == rotl((st.L[st.j + 1] + A + st.B) % 2 ^ w, (A + st.B) % 2 ^ w)
  IN [S |-> [st.S EXCEPT ![st.i + 1] = A], L |-> [st.L EXCEPT ![st.j + 1] = B],
      A |-> A, B |-> B, i |-> (st.i + 1) % t, j |-> (st.j + 1) % c]

\* setkey for a key of the words L; an empty key counts as one zero word.
setkey(words, rounds) ==
  LET L == IF words = <<>> THEN <<0>> ELSE words
      t == 2 * (rounds + 1)
      c == Len(L)
      n == 3 * (IF t > c THEN t ELSE c)
      start == [S |-> [k \in 1 .. t |-> (P + (k - 1) * Q) % 2 ^ w], L |-> L,
                A |-> 0, B |-> 0, i |-> 0, j |-> 0]
      last == FoldLeft(LAMBDA st, k : Mix(st, t, c), start, [k \in 1 .. n |-> k])
  IN [k \in 0 .. t - 1 |-> last.S[k + 1]]
=============================================================================
