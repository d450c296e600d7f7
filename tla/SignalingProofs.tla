--------------------------- MODULE SignalingProofs ---------------------------
(***************************************************************************)
(* The handshake, for every number of sessions, repeats and ports: both    *)
(* sides have the same keys and numbers, and every answer is one the SDK   *)
(* takes for the request it was made for.                                  *)
(*                                                                         *)
(* The cipher is symbolic: what is encrypted with a key can be read with   *)
(* that key, and with any other key decryption yields noise.  The lemmas   *)
(* on frames follow every word of a request and of an answer through its   *)
(* encryption and back; the rest is the inductive invariant IndInv.        *)
(***************************************************************************)
EXTENDS Signaling, SequenceTheorems, TLAPS

-----------------------------------------------------------------------------
(* The invariant                                                           *)

Kinds   == {Script[i] : i \in 1 .. 7}
MadeKey(s, n) == XorWords(ClientKey(s), ServerKey(n))
AllKeys == {MadeKey(s, n) : s \in Nat, n \in Nat}
SomeKey == AllKeys \cup {NoKey}
Requests == [kind : Kinds, sq : Nat, port : Ports, session : Nat, key : SomeKey]

TypeInv ==
  /\ sdk \in [session : Nat, port : Ports, key : SomeKey, sq : Nat, step : 1 .. 8,
              request : Requests \cup {NoRequest}]
  /\ hook \in BOOLEAN /\ captured \in SomeKey
  /\ addr_session_keys \in Seq(Ports \X AllKeys)
  /\ addr_last_sqnum \in [Ports -> Nat]
  /\ served \in Nat /\ sent \subseteq Requests /\ done \subseteq sent
  /\ shifted \in BOOLEAN /\ mismatched \in BOOLEAN

\* The number of the i-th request of session s, and of none.
Number(s, i) == 10 * s + <<0, 1, 2, 3, 4, 6, 8, 10>>[i + 1]

\* r is the i-th request of its session.
Asked(r, i) ==
  /\ r.kind = Script[i] /\ r.sq = Number(r.session, i)
  /\ r.session \in 1 .. sdk.session
  /\ r.port = CallPort => i = 7
  /\ i >= 4 => r.key # NoKey
  /\ IF r.session = sdk.session
     THEN /\ r.port \in {sdk.port, CallPort}
          /\ i >= 4 => r.key = sdk.key
          /\ i < sdk.step \/ (i = sdk.step /\ r = sdk.request)
     ELSE r.port # sdk.port

\* The SDK follows the script: its number and its key fit the step it is at,
\* and it has sent each request of a session once.
SdkInv ==
  /\ sdk.session = 0 => sdk.step = 1 /\ sdk.request = NoRequest
  /\ sdk.session > 0 => sdk.port # CallPort
  /\ sdk.request # NoRequest =>
       /\ sdk.step <= 7 /\ sdk.request \in sent
       /\ sdk.request.session = sdk.session /\ sdk.request.kind = Script[sdk.step]
  /\ sdk.sq = Number(sdk.session, IF sdk.request = NoRequest THEN sdk.step - 1 ELSE sdk.step)
  /\ sdk.step <= 3 => sdk.key = NoKey
  /\ sdk.step >= 4 => \E n \in 1 .. served : sdk.key = MadeKey(sdk.session, n)
  /\ \A r \in sent : \E i \in 1 .. 7 : Asked(r, i)
  /\ \A r, q \in sent : r.session = q.session /\ r.kind = q.kind => r = q

\* The relay has handled the i-th request of the running session.
Has(i) == \E r \in done : r.session = sdk.session /\ r.kind = Script[i]

\* The relay has a key for the port of the SDK once it has handled CERTIFY, and
\* after the SDK has the answer it is the key of the SDK, unless the CERTIFY
\* came twice; the hook captures what the SDK has, and every CALLING handled
\* with it leaves a key for its port.
KeyInv ==
  /\ \A i \in DOMAIN addr_session_keys : \E r \in done : r.port = addr_session_keys[i][1]
  /\ ~ hook => captured = NoKey /\ OwnKeys(addr_session_keys, CallPort) = {}
  /\ hook /\ sdk.step >= 4 => captured = sdk.key
  /\ hook => \A r \in sent : r.key # NoKey => captured # NoKey
  /\ hook => \A r \in done : r.kind = "calling" => OwnKeys(addr_session_keys, r.port) # {}
  /\ sdk.step >= 4 => Has(3)
  /\ Has(3) <=> OwnKeys(addr_session_keys, sdk.port) # {}
  /\ sdk.session \notin twice /\ sdk.step >= 4 => OwnKeys(addr_session_keys, sdk.port) = {sdk.key}
  /\ sdk.session = 1 /\ 1 \notin twice =>
       \A i \in DOMAIN addr_session_keys : addr_session_keys[i][2] \in OwnKeys(addr_session_keys, sdk.port)

\* What an answer carries: the server key, a response to number w, noise.
ServerKeyIn(f, n) == \A j \in 1 .. 8 : Opened(f, NoKey)[8 + j] = ServerKey(n)[j]
Resp(f, w) == IsResp(f) /\ ~ IsAck(f) /\ EncryptMode(f) # 2 /\ Opened(f, NoKey)[4] = w
Noise(w) == w # {} /\ \A t \in w : t[1] = "dec"

\* f answers r: it carries the number of r, or the one predicted for it, or
\* noise after a repeated CERTIFY; the server key in it made the relay's key.
Answer(r, f) ==
  /\ r.kind \in {"detect", "certify"} => Resp(f, Num(r.sq))
  /\ r.kind = "certify" =>
       \E n \in 1 .. served :
         /\ ServerKeyIn(f, n)
         /\ r.session \notin twice => OwnKeys(addr_session_keys, r.port) = {MadeKey(r.session, n)}
  /\ r.kind = "list" => f = build_list_resp
  /\ r.kind = "init" => \E w \in {Num(r.sq), Opened(f, NoKey)[4]} : Resp(f, w) /\ (w = Num(r.sq) \/ Noise(w))
  /\ r.kind = "init" /\ r.session \notin twice => Resp(f, Num(r.sq))
  /\ r.kind \in {"subscribe", "ctl"} => \E x \in Nat : Resp(f, Num(x)) /\ (~ shifted => x = r.sq)
  /\ r.kind = "calling" =>
       /\ ~ IsResp(f)
       /\ IsAck(f) \/ EncryptMode(f) = 0
       /\ KeyFor(addr_session_keys, r.port) = sdk.key /\ r.session \notin twice => Accepts(r, f, sdk.key)

AnswerInv ==
  \A a \in answers : a.to \in done /\ a.to.session = sdk.session /\ Answer(a.to, a.frame)

\* addr_last_sqnum of the SDK's port is the number of its i-th request.
NumberIs(i) == addr_last_sqnum[sdk.port] = Number(sdk.session, i)

\* As long as no repeat has moved it, addr_last_sqnum is the number of the
\* last request from CERTIFY on that the relay has handled, or 0 when it could
\* not read INIT_INFO; an answer to INIT_INFO that fits proves that it could.
NumberInv ==
  /\ \A p \in Ports : (\A r \in sent : r.port # p) => addr_last_sqnum[p] = 0
  /\ ~ shifted =>
       /\ ~ mismatched
       /\ \A i \in 1 .. 7 : i < sdk.step => Has(i)
       /\ ~ Has(3) => addr_last_sqnum[sdk.port] = 0
       /\ Has(3) /\ ~ Has(4) => NumberIs(3)
       /\ Has(4) /\ ~ Has(5) =>
            /\ addr_last_sqnum[sdk.port] = 0 \/ NumberIs(4)
            /\ sdk.step >= 5 => NumberIs(4)
            /\ \A a \in answers : a.to.kind = "init" /\ Resp(a.frame, Num(a.to.sq)) => NumberIs(4)
       /\ Has(5) /\ ~ Has(6) => NumberIs(5)
       /\ Has(6) => NumberIs(6)

\* The session ids that clients choose: their first word is 0.
SessionIds == {<<Zero, giot_hash_string(ClientKey(n))>> : n \in Nat}

\* The relay stores no other ids.
IdInv == addr_session_id \in Seq(Ports \X SessionIds)

\* What OnlyOldSessionsMislead says; no request is misread before a session.
MisreadInv ==
  \A r \in misread : r.session >= 1 /\ (r.session \in twice \/ (r.port = CallPort /\ r.session > 1))

IndInv == TypeInv /\ SdkInv /\ KeyInv /\ AnswerInv /\ NumberInv /\ IdInv /\ MisreadInv

-----------------------------------------------------------------------------
(* The cipher                                                              *)

\* A word that decryption has not produced: what is encrypted with it can be
\* told from what is decrypted.
Plain(w) == \A t \in w : t[1] # "dec"

\* XOR with the same word twice gives the word back.
LEMMA XorTwice ==
  ASSUME NEW v, NEW w
  PROVE  SymDiff(SymDiff(v, w), w) = v
BY DEF SymDiff

\* XOR makes no decrypted term.
LEMMA XorPlain ==
  ASSUME NEW v, NEW w, Plain(v), Plain(w)
  PROVE  Plain(SymDiff(v, w))
BY DEF SymDiff, Plain

\* A block whose first word is plain is encrypted to two terms.
LEMMA Encrypted ==
  ASSUME NEW k, NEW x, NEW y, Plain(x)
  PROVE  LET b == <<x, y>>
         IN  /\ Enc(k, b)[1] = Term(<<"enc", k, b, 1>>)
             /\ Enc(k, b)[2] = Term(<<"enc", k, b, 2>>)
             /\ Plain(Enc(k, b)[1])
<1> DEFINE b == <<x, y>>
<1>1. \A t \in b[1] : t[1] # "dec"
  BY DEF Plain
<1>2. 1 \in DOMAIN b /\ 2 \in DOMAIN b
  OBVIOUS
<1> HIDE DEF b
<1>3. Enc(k, b) = [j \in DOMAIN b |-> Term(<<"enc", k, b, j>>)]
  BY <1>1 DEF Enc, Cipher, Undoing
<1>4. \A j \in DOMAIN b : Enc(k, b)[j] = Term(<<"enc", k, b, j>>)
  BY <1>3
<1>5. \A t \in Term(<<"enc", k, b, 1>>) : t[1] = "enc"
  BY DEF Term
<1> QED BY <1>2, <1>4, <1>5 DEF b, Plain

\* Decryption under the same key gives the block back.
LEMMA Decrypted ==
  ASSUME NEW k, NEW x, NEW y, Plain(x)
  PROVE  /\ Dec(k, <<Enc(k, <<x, y>>)[1], Enc(k, <<x, y>>)[2]>>)[1] = x
         /\ Dec(k, <<Enc(k, <<x, y>>)[1], Enc(k, <<x, y>>)[2]>>)[2] = y
<1> DEFINE b == <<x, y>>
           c == <<Enc(k, b)[1], Enc(k, b)[2]>>
           u == <<"enc", k, b, 1>>
<1>1. c[1] = {u} /\ c[2] = Term(<<"enc", k, b, 2>>) /\ DOMAIN c = {1, 2}
  BY Encrypted DEF Term
<1>2. u[1] = "enc" /\ u[2] = k /\ u[3] = b
  OBVIOUS
<1>3. c = <<Term(<<"enc", k, b, 1>>), Term(<<"enc", k, b, 2>>)>>
  BY Encrypted
<1> HIDE DEF c, u
<1>4. c = [j \in DOMAIN c |-> Term(<<"enc", k, u[3], j>>)]
  <2>1. c = <<Term(<<"enc", k, u[3], 1>>), Term(<<"enc", k, u[3], 2>>)>>
    BY <1>2, <1>3
  <2> QED BY <1>1, <2>1
<1>5. (CHOOSE t \in c[1] : TRUE) = u
  BY <1>1
<1>6. Dec(k, c) = u[3]
  BY <1>1, <1>2, <1>4, <1>5 DEF Dec, Cipher, Undoing
<1>7. b[1] = x /\ b[2] = y
  OBVIOUS
<1> QED BY <1>2, <1>6, <1>7 DEF c

\* Under another key it gives noise.
LEMMA Misread ==
  ASSUME NEW k, NEW l, NEW x, NEW y, Plain(x), k # l
  PROVE  Noise(Dec(l, <<Enc(k, <<x, y>>)[1], Enc(k, <<x, y>>)[2]>>)[1])
<1> DEFINE b == <<x, y>>
           c == <<Enc(k, b)[1], Enc(k, b)[2]>>
<1>1. c[1] = {<<"enc", k, b, 1>>} /\ 1 \in DOMAIN c
  BY Encrypted DEF Term
<1>2. \A t \in c[1] : t[2] # l
  BY <1>1
<1> HIDE DEF c, b
<1>3. Dec(l, c) = [j \in DOMAIN c |-> Term(<<"dec", l, c, j>>)]
  BY <1>2 DEF Dec, Cipher, Undoing
<1>4. Dec(l, c)[1] = {<<"dec", l, c, 1>>}
  BY <1>1, <1>3 DEF Term
<1>5. Noise({<<"dec", l, c, 1>>})
  BY DEF Noise
<1> QED BY <1>4, <1>5 DEF c, b

-----------------------------------------------------------------------------
(* Frames                                                                  *)

FrameOf(f, n) == f = [j \in 0 .. n |-> f[j]] /\ n \in Nat /\ n >= 7

\* A frame of words 0 .. n ends at n.
LEMMA LastWord ==
  ASSUME NEW f, NEW n, FrameOf(f, n)
  PROVE  Last(f) = n
<1>1. DOMAIN f = 0 .. n /\ n \in Nat
  BY DEF FrameOf
<1>2. n \in 0 .. n /\ \A y \in 0 .. n : n >= y
  BY <1>1
<1>3. \A x \in 0 .. n : (\A y \in 0 .. n : x >= y) => x = n
  BY <1>1
<1> QED BY <1>1, <1>2, <1>3 DEF Last, Max

\* Words i and i + 1 of g are those of f, encrypted or decrypted as a block.
Crypted(op, k, f, g, i) ==
  /\ g[i] = Cipher(op, k, <<f[i], f[i + 1]>>)[1]
  /\ g[i + 1] = Cipher(op, k, <<f[i], f[i + 1]>>)[2]

Same(f, g, n, S) == \A j \in 0 .. n : j \notin S => g[j] = f[j]
BodyCrypted(op, k, f, g, n) == \A i \in 6 .. n - 1 : i % 2 = 0 => Crypted(op, k, f, g, i)

\* ECB from first to last leaves the words before first, and a last one
\* without a partner, and takes the others in pairs.
InPairs(op, k, f, g, n, first, last) ==
  /\ FrameOf(g, n)
  /\ \A j \in 0 .. n : j < first \/ j > last + 1 => g[j] = f[j]
  /\ \A i \in 0 .. n : first <= i /\ i < last /\ (i - first) % 2 = 0 => Crypted(op, k, f, g, i)

\* ECB over a range of words works on its pairs and leaves the others alone.
LEMMA EcbWords ==
  ASSUME NEW op, NEW k, NEW f, NEW n, FrameOf(f, n), NEW first \in Nat, NEW last \in 0 .. n,
         NEW g, g = Ecb(op, k, f, first, last)
  PROVE  InPairs(op, k, f, g, n, first, last)
<1> DEFINE start(j) == first + 2 * ((j - first) \div 2)
<1>1. DOMAIN f = 0 .. n /\ n \in Nat /\ n >= 7
  BY DEF FrameOf
<1>2. g = [j \in 0 .. n |-> IF first <= j /\ start(j) < last
                            THEN Cipher(op, k, <<f[start(j)], f[start(j) + 1]>>)[1 + j - start(j)]
                            ELSE f[j]]
  BY <1>1 DEF Ecb
<1>3. FrameOf(g, n)
  BY <1>1, <1>2 DEF FrameOf
<1>4. ASSUME NEW j \in 0 .. n, j < first \/ j > last + 1
      PROVE  g[j] = f[j]
  <2>1. ~ (first <= j /\ start(j) < last)
    BY <1>1, <1>4
  <2> QED BY <1>2, <2>1
<1>5. ASSUME NEW i \in 0 .. n, first <= i, i < last, (i - first) % 2 = 0
      PROVE  Crypted(op, k, f, g, i)
  <2>1. start(i) = i /\ start(i + 1) = i /\ i + 1 \in 0 .. n
    BY <1>1, <1>5
  <2>2. 1 + i - start(i) = 1 /\ 1 + (i + 1) - start(i + 1) = 2
    BY <2>1, <1>5
  <2>3. first <= i + 1
    BY <1>5
  <2> HIDE DEF start
  <2> QED BY <1>2, <1>5, <2>1, <2>2, <2>3 DEF Crypted
<1> QED BY <1>3, <1>4, <1>5 DEF InPairs

\* ECB over the id touches the words 1 and 2 only.
LEMMA IdWords ==
  ASSUME NEW op, NEW k, NEW f, NEW n, FrameOf(f, n),
         NEW g, g = Ecb(op, k, f, 1, 2)
  PROVE  FrameOf(g, n) /\ Crypted(op, k, f, g, 1) /\ Same(f, g, n, {1, 2})
<1>1. n \in Nat /\ n >= 7
  BY DEF FrameOf
<1>2. PICK a \in Nat, b \in 0 .. n : a = 1 /\ b = 2
  BY <1>1
<1>3. g = Ecb(op, k, f, a, b)
  BY <1>2
<1>4. InPairs(op, k, f, g, n, a, b)
  BY <1>3, EcbWords, ZenonT(30)
<1>5. g[3] = f[3]
  <2> DEFINE start(j) == 1 + 2 * ((j - 1) \div 2)
  <2>1. start(3) = 3
    OBVIOUS
  <2>2. 3 \in DOMAIN f
    BY <1>1 DEF FrameOf
  <2>3. g[3] = IF 1 <= 3 /\ start(3) < 2
               THEN Cipher(op, k, <<f[start(3)], f[start(3) + 1]>>)[1 + 3 - start(3)]
               ELSE f[3]
    BY <2>2 DEF Ecb
  <2> HIDE DEF start
  <2> QED BY <2>1, <2>3
<1>6. Crypted(op, k, f, g, 1)
  BY <1>1, <1>2, <1>4 DEF InPairs
<1>7. \A j \in 0 .. n : j \notin {1, 2} => j < a \/ j > b + 1 \/ j = 3
  BY <1>1, <1>2
<1>8. Same(f, g, n, {1, 2})
  BY <1>4, <1>5, <1>7 DEF InPairs, Same
<1> QED BY <1>4, <1>6, <1>8 DEF InPairs

\* ECB over sqnum and chkval touches the words 3 and 4 only.
LEMMA NumberWords ==
  ASSUME NEW op, NEW k, NEW f, NEW n, FrameOf(f, n),
         NEW g, g = Ecb(op, k, f, 3, 4)
  PROVE  FrameOf(g, n) /\ Crypted(op, k, f, g, 3) /\ Same(f, g, n, {3, 4})
<1>1. n \in Nat /\ n >= 7
  BY DEF FrameOf
<1>2. PICK a \in Nat, b \in 0 .. n : a = 3 /\ b = 4
  BY <1>1
<1>3. g = Ecb(op, k, f, a, b)
  BY <1>2
<1>4. InPairs(op, k, f, g, n, a, b)
  BY <1>3, EcbWords, ZenonT(30)
<1>5. g[5] = f[5]
  <2> DEFINE start(j) == 3 + 2 * ((j - 3) \div 2)
  <2>1. start(5) = 5
    OBVIOUS
  <2>2. 5 \in DOMAIN f
    BY <1>1 DEF FrameOf
  <2>3. g[5] = IF 3 <= 5 /\ start(5) < 4
               THEN Cipher(op, k, <<f[start(5)], f[start(5) + 1]>>)[1 + 5 - start(5)]
               ELSE f[5]
    BY <2>2 DEF Ecb
  <2> HIDE DEF start
  <2> QED BY <2>1, <2>3
<1>6. Crypted(op, k, f, g, 3)
  BY <1>1, <1>2, <1>4 DEF InPairs
<1>7. \A j \in 0 .. n : j \notin {3, 4} => j < a \/ j > b + 1 \/ j = 5
  BY <1>1, <1>2
<1>8. Same(f, g, n, {3, 4})
  BY <1>4, <1>5, <1>7 DEF InPairs, Same
<1> QED BY <1>4, <1>6, <1>8 DEF InPairs

\* ECB over the payload leaves the header alone.
LEMMA BodyWords ==
  ASSUME NEW op, NEW k, NEW f, NEW n, FrameOf(f, n),
         NEW g, g = Ecb(op, k, f, 6, Last(f))
  PROVE  FrameOf(g, n) /\ BodyCrypted(op, k, f, g, n) /\ Same(f, g, n, 6 .. n)
<1>1. n \in Nat /\ n >= 7
  BY DEF FrameOf
<1>2. PICK a \in Nat, b \in 0 .. n : a = 6 /\ b = n
  BY <1>1
<1>3. g = Ecb(op, k, f, a, b)
  BY <1>2, LastWord
<1>4. InPairs(op, k, f, g, n, a, b)
  BY <1>3, EcbWords, ZenonT(30)
<1>5. ASSUME NEW i \in 6 .. n - 1, i % 2 = 0
      PROVE  Crypted(op, k, f, g, i)
  <2>1. i \in 0 .. n /\ a <= i /\ i < b /\ (i - a) % 2 = 0
    BY <1>1, <1>2, <1>5
  <2> QED BY <1>4, <2>1 DEF InPairs
<1>6. \A j \in 0 .. n : j \notin 6 .. n => j < a
  BY <1>1, <1>2
<1> QED BY <1>4, <1>5, <1>6 DEF InPairs, Same, BodyCrypted

\* The XOR that id_encrypt and id_decrypt apply to the id touches the words 1
\* and 2 only.
LEMMA XorIdWords ==
  ASSUME NEW f, NEW n, FrameOf(f, n), NEW g, g = XorId(f)
  PROVE  /\ FrameOf(g, n)
         /\ g[1] = SymDiff(f[1], f[3]) /\ g[2] = SymDiff(f[2], f[4])
         /\ Same(f, g, n, {1, 2})
<1>1. DOMAIN f = 0 .. n /\ n \in Nat /\ n >= 7 /\ 1 \in 0 .. n /\ 2 \in 0 .. n
  BY DEF FrameOf
<1>2. g = [j \in 0 .. n |-> IF j = 2 THEN SymDiff(f[2], f[4])
                            ELSE IF j = 1 THEN SymDiff(f[1], f[3]) ELSE f[j]]
  BY <1>1 DEF XorId
<1>3. g = [j \in 0 .. n |-> g[j]]
  BY <1>2
<1> QED BY <1>1, <1>2, <1>3 DEF FrameOf, Same

\* A block that was encrypted and is decrypted under the same key.
LEMMA CryptedBack ==
  ASSUME NEW k, NEW f, NEW g, NEW h, NEW i \in Nat, Plain(f[i]),
         Crypted("enc", k, f, g, i), Crypted("dec", k, g, h, i)
  PROVE  h[i] = f[i] /\ h[i + 1] = f[i + 1]
<1>1. PICK x, y : x = f[i] /\ y = f[i + 1]
  OBVIOUS
<1>2. g[i] = Enc(k, <<x, y>>)[1] /\ g[i + 1] = Enc(k, <<x, y>>)[2]
  BY <1>1 DEF Crypted, Enc
<1>3. h[i] = Dec(k, <<g[i], g[i + 1]>>)[1] /\ h[i + 1] = Dec(k, <<g[i], g[i + 1]>>)[2]
  BY DEF Crypted, Dec
<1> QED BY <1>1, <1>2, <1>3, Decrypted

Length(len) == len \in Nat /\ len >= 8

\* The words of a frame as it is built.
Words(f, type, len, id, sqnum, chkval, flags, body) ==
  /\ FrameOf(f, len - 1)
  /\ f[0] = Term(<<"hdr", type, len>>) /\ f[1] = id[1] /\ f[2] = id[2]
  /\ f[3] = sqnum /\ f[4] = chkval /\ f[5] = flags
  /\ \A j \in 6 .. len - 1 : f[j] = IF j - 5 \in DOMAIN body THEN body[j - 5] ELSE Zero

\* The words of a frame a builder has put together.
LEMMA FrameWords ==
  ASSUME NEW type, NEW len, Length(len), NEW id, NEW sqnum, NEW chkval, NEW flags, NEW body,
         NEW f, f = Frame(type, len, id, sqnum, chkval, flags, body)
  PROVE  Words(f, type, len, id, sqnum, chkval, flags, body)
<1> USE DEF Length
<1>1. PICK header : header = <<Term(<<"hdr", type, len>>), id[1], id[2], sqnum, chkval, flags>>
  OBVIOUS
<1>2. /\ header[1] = Term(<<"hdr", type, len>>) /\ header[2] = id[1] /\ header[3] = id[2]
      /\ header[4] = sqnum /\ header[5] = chkval /\ header[6] = flags
  BY <1>1
<1>3. f = [j \in 0 .. len - 1 |-> IF j < 6 THEN header[j + 1]
                                  ELSE IF j - 5 \in DOMAIN body THEN body[j - 5] ELSE Zero]
  BY <1>1 DEF Frame
<1>4. FrameOf(f, len - 1)
  <2>1. f = [j \in 0 .. len - 1 |-> f[j]]
    BY <1>3
  <2> QED BY <2>1 DEF FrameOf
<1>5. \A j \in 6 .. len - 1 : j \in 0 .. len - 1 /\ ~ (j < 6)
  OBVIOUS
<1>6. {0, 1, 2, 3, 4, 5} \subseteq 0 .. len - 1
  OBVIOUS
<1>7. /\ f[0] = header[1] /\ f[1] = header[2] /\ f[2] = header[3]
      /\ f[3] = header[4] /\ f[4] = header[5] /\ f[5] = header[6]
  BY <1>3, <1>6
<1>8. \A j \in 6 .. len - 1 : f[j] = IF j - 5 \in DOMAIN body THEN body[j - 5] ELSE Zero
  BY <1>3, <1>5
<1> QED BY <1>2, <1>4, <1>7, <1>8 DEF Words

\* Filling in the chkval touches no other word.
LEMMA ChkvalWords ==
  ASSUME NEW f, NEW n, FrameOf(f, n), NEW g, g = SetChkval(f)
  PROVE  FrameOf(g, n) /\ g[4] = compute_chkval(f) /\ Same(f, g, n, {4})
<1>1. DOMAIN f = 0 .. n /\ n \in Nat /\ n >= 7 /\ 4 \in 0 .. n
  BY DEF FrameOf
<1>2. g = [j \in 0 .. n |-> IF j = 4 THEN compute_chkval(f) ELSE f[j]]
  BY <1>1 DEF SetChkval
<1>3. g = [j \in 0 .. n |-> g[j]]
  BY <1>2
<1> QED BY <1>1, <1>2, <1>3 DEF FrameOf, Same

\* The checksum leaves out the word it is written to, so that it is verified.
LEMMA ChkvalVerified ==
  ASSUME NEW f, NEW n, FrameOf(f, n)
  PROVE  Verified(SetChkval(f))
<1>1. PICK g : g = SetChkval(f)
  OBVIOUS
<1>2. FrameOf(g, n) /\ g[4] = compute_chkval(f) /\ Same(f, g, n, {4})
  BY <1>1, ChkvalWords
<1>3. DOMAIN f = 0 .. n /\ DOMAIN g = 0 .. n /\ 4 \in 0 .. n /\ 5 \in 0 .. n
  BY <1>2 DEF FrameOf
<1>4. PICK u : u = [f EXCEPT ![4] = Zero, ![5] = @ \ HighBits]
  OBVIOUS
<1>5. PICK v : v = [g EXCEPT ![4] = Zero, ![5] = @ \ HighBits]
  OBVIOUS
<1>6. u = [j \in 0 .. n |-> IF j = 5 THEN f[5] \ HighBits ELSE IF j = 4 THEN Zero ELSE f[j]]
  BY <1>3, <1>4
<1>7. v = [j \in 0 .. n |-> IF j = 5 THEN g[5] \ HighBits ELSE IF j = 4 THEN Zero ELSE g[j]]
  BY <1>3, <1>5
<1>8. g[5] = f[5] /\ \A j \in 0 .. n : j # 4 => g[j] = f[j]
  BY <1>2, <1>3 DEF Same
<1>9. u = v
  BY <1>6, <1>7, <1>8
<1>10. compute_chkval(f) = compute_chkval(g)
  <2>1. compute_chkval(f) = {t \in UNION Range(u) : Cardinality({j \in DOMAIN u : t \in u[j]}) % 2 = 1}
    BY <1>4 DEF compute_chkval
  <2>2. compute_chkval(g) = {t \in UNION Range(v) : Cardinality({j \in DOMAIN v : t \in v[j]}) % 2 = 1}
    BY <1>5 DEF compute_chkval
  <2> QED BY <1>9, <2>1, <2>2
<1> QED BY <1>1, <1>2, <1>10 DEF Verified

\* The id of a frame is read as it was written.
LEMMA IdBack ==
  ASSUME NEW f, NEW n, FrameOf(f, n), Plain(f[1]), Plain(f[3]), NEW g, g = id_encrypt(f)
  PROVE  FrameOf(g, n) /\ Same(f, g, n, {1, 2}) /\ decode_term_id(g) = <<f[1], f[2]>>
<1>1. PICK x : x = XorId(f)
  OBVIOUS
<1>2. PICK y : y = Ecb("dec", GWELL_KEY, g, 1, 2)
  OBVIOUS
<1>3. PICK z : z = XorId(y)
  OBVIOUS
<1>4. /\ FrameOf(x, n) /\ Same(f, x, n, {1, 2})
      /\ x[1] = SymDiff(f[1], f[3]) /\ x[2] = SymDiff(f[2], f[4])
  BY <1>1, XorIdWords
<1>5. FrameOf(g, n) /\ Crypted("enc", GWELL_KEY, x, g, 1) /\ Same(x, g, n, {1, 2})
  <2>1. g = Ecb("enc", GWELL_KEY, x, 1, 2)
    BY <1>1 DEF id_encrypt
  <2> QED BY <1>4, <2>1, IdWords
<1>6. FrameOf(y, n) /\ Crypted("dec", GWELL_KEY, g, y, 1) /\ Same(g, y, n, {1, 2})
  BY <1>2, <1>5, IdWords
<1>7. z[1] = SymDiff(y[1], y[3]) /\ z[2] = SymDiff(y[2], y[4])
  BY <1>3, <1>6, XorIdWords
<1>8. decode_term_id(g) = <<z[1], z[2]>>
  BY <1>2, <1>3 DEF decode_term_id, id_decrypt
<1>9. Plain(x[1])
  BY <1>4, XorPlain
<1>10. y[1] = x[1] /\ y[2] = x[2]
  BY <1>5, <1>6, <1>9, CryptedBack
<1>11. y[3] = f[3] /\ y[4] = f[4]
  <2>1. 3 \in 0 .. n /\ 4 \in 0 .. n
    BY DEF FrameOf
  <2> QED BY <1>4, <1>5, <1>6, <2>1 DEF Same
<1>12. z[1] = f[1] /\ z[2] = f[2]
  BY <1>4, <1>7, <1>10, <1>11, XorTwice
<1>13. Same(f, g, n, {1, 2})
  BY <1>4, <1>5 DEF Same
<1> QED BY <1>5, <1>8, <1>12, <1>13

\* What a reader finds in a sealed frame: numbers and payload are encrypted in
\* blocks under the key, the id is readable, the rest is as it was.
LEMMA Sealed ==
  ASSUME NEW f, NEW n, FrameOf(f, n), Plain(f[1]), Plain(f[3]), NEW key, NEW s, s = Seal(f, key)
  PROVE  /\ FrameOf(s, n) /\ s[0] = f[0] /\ s[5] = f[5]
         /\ decode_term_id(s) = <<f[1], f[2]>>
         /\ s[3] = Enc(key, <<f[3], compute_chkval(f)>>)[1]
         /\ s[4] = Enc(key, <<f[3], compute_chkval(f)>>)[2]
         /\ BodyCrypted("enc", key, f, s, n)
<1>1. n \in Nat /\ n >= 7 /\ 0 .. 5 \subseteq 0 .. n
  BY DEF FrameOf
<1>2. PICK h : h = SetChkval(f)
  OBVIOUS
<1>3. PICK b : b = Ecb("enc", key, h, 6, Last(h))
  OBVIOUS
<1>4. PICK c : c = Ecb("enc", key, b, 3, 4)
  OBVIOUS
<1>5. FrameOf(h, n) /\ h[4] = compute_chkval(f) /\ Same(f, h, n, {4})
  BY <1>2, ChkvalWords
<1>6. FrameOf(b, n) /\ BodyCrypted("enc", key, h, b, n) /\ Same(h, b, n, 6 .. n)
  BY <1>3, <1>5, BodyWords
<1>7. FrameOf(c, n) /\ Crypted("enc", key, b, c, 3) /\ Same(b, c, n, {3, 4})
  BY <1>4, <1>6, NumberWords
<1>8. Last(h) = Last(f)
  BY <1>5, LastWord
<1>9. s = id_encrypt(c)
  BY <1>2, <1>3, <1>4, <1>8 DEF Seal
<1>10. /\ b[0] = f[0] /\ b[1] = f[1] /\ b[2] = f[2] /\ b[3] = f[3]
       /\ b[4] = compute_chkval(f) /\ b[5] = f[5]
  BY <1>1, <1>5, <1>6 DEF Same
<1>11. c[0] = f[0] /\ c[1] = f[1] /\ c[2] = f[2] /\ c[5] = f[5]
  BY <1>1, <1>7, <1>10 DEF Same
<1>12. /\ c[3] = Enc(key, <<f[3], compute_chkval(f)>>)[1]
       /\ c[4] = Enc(key, <<f[3], compute_chkval(f)>>)[2]
  BY <1>7, <1>10 DEF Crypted, Enc
<1>13. Plain(c[3])
  <2>1. PICK v, w : v = f[3] /\ w = compute_chkval(f)
    OBVIOUS
  <2>2. c[3] = Enc(key, <<v, w>>)[1] /\ Plain(v)
    BY <1>12, <2>1
  <2> QED BY <2>2, Encrypted
<1>14. FrameOf(s, n) /\ Same(c, s, n, {1, 2}) /\ decode_term_id(s) = <<c[1], c[2]>>
  BY <1>7, <1>9, <1>11, <1>13, IdBack
<1>15. ASSUME NEW i \in 6 .. n - 1, i % 2 = 0
       PROVE  Crypted("enc", key, f, s, i)
  <2>1. i \in 0 .. n /\ i + 1 \in 0 .. n /\ i \notin {1, 2, 3, 4} /\ i + 1 \notin {1, 2, 3, 4}
    BY <1>1, <1>15
  <2>2. s[i] = b[i] /\ s[i + 1] = b[i + 1]
    BY <1>7, <1>14, <2>1 DEF Same
  <2>3. h[i] = f[i] /\ h[i + 1] = f[i + 1]
    BY <1>5, <2>1 DEF Same
  <2> QED BY <1>6, <1>15, <2>2, <2>3 DEF Crypted, BodyCrypted
<1>16. s[0] = f[0] /\ s[5] = f[5] /\ s[3] = c[3] /\ s[4] = c[4]
  BY <1>1, <1>11, <1>14 DEF Same
<1> QED BY <1>11, <1>12, <1>14, <1>15, <1>16 DEF BodyCrypted

-----------------------------------------------------------------------------
(* What the relay reads in requests                                        *)

IdPlain == Plain(ClientId[1]) /\ <<ClientId[1], ClientId[2]>> = ClientId

\* The id of the client has not come out of a decryption.
LEMMA PlainId == IdPlain
<1>1. ClientId[1] = {<<"client", 1>>} /\ <<ClientId[1], ClientId[2]>> = ClientId
  BY DEF ClientId, Term
<1>2. \A t \in {<<"client", 1>>} : t[1] # "dec"
  OBVIOUS
<1> QED BY <1>1, <1>2 DEF IdPlain, Plain

\* Numbers can be told from each other and from noise.
LEMMA PlainNum ==
  ASSUME NEW n
  PROVE  Plain(Num(n)) /\ ~ Noise(Num(n)) /\ \A m : Num(n) = Num(m) => n = m
<1>1. Num(n) = {<<"num", n>>}
  BY DEF Num, Term
<1>2. <<"num", n>>[1] = "num"
  OBVIOUS
<1>3. \A m : Num(n) = Num(m) => n = m
  <2> SUFFICES ASSUME NEW m, Num(n) = Num(m) PROVE n = m
    OBVIOUS
  <2>1. <<"num", n>> = <<"num", m>>
    BY DEF Num, Term
  <2>2. <<"num", n>>[2] = n /\ <<"num", m>>[2] = m
    OBVIOUS
  <2> QED BY <2>1, <2>2
<1> QED BY <1>1, <1>2, <1>3 DEF Plain, Noise

\* A number that was encrypted is read under its key; under another it is noise.
NumberIn(s, key, n) ==
  \E c : s[3] = Enc(key, <<Num(n), c>>)[1] /\ s[4] = Enc(key, <<Num(n), c>>)[2]

\* With the key of the request decryption gives its number, with any other
\* noise.
LEMMA NumberRead ==
  ASSUME NEW s, NEW key, NEW n, NumberIn(s, key, n), NEW l
  PROVE  /\ l = key => Dec(l, <<s[3], s[4]>>)[1] = Num(n)
         /\ l # key => Noise(Dec(l, <<s[3], s[4]>>)[1])
<1>1. PICK c : s[3] = Enc(key, <<Num(n), c>>)[1] /\ s[4] = Enc(key, <<Num(n), c>>)[2]
  BY DEF NumberIn
<1>2. PICK x : x = Num(n) /\ Plain(x)
  BY PlainNum
<1>3. CASE l = key
  BY <1>1, <1>2, <1>3, Decrypted
<1>4. CASE l # key
  BY <1>1, <1>2, <1>4, Misread
<1> QED BY <1>3, <1>4

Request(type, len, n, mode, body) ==
  Frame(type, len, ClientId, Num(n), Zero, Nonce \cup mode, body)

\* Request f of the SDK as s under key.
SealedAs(f, s, len, n, mode, body, key) ==
  /\ FrameOf(f, len - 1) /\ FrameOf(s, len - 1)
  /\ \A j \in 6 .. len - 1 : f[j] = IF j - 5 \in DOMAIN body THEN body[j - 5] ELSE Zero
  /\ decode_term_id(s) = ClientId
  /\ s[5] = Nonce \cup mode /\ derive_per_frame_key(s) = derive_per_frame_key(f)
  /\ NumberIn(s, key, n)
  /\ BodyCrypted("enc", key, f, s, len - 1)

\* What the words of a request of the SDK are once it is sealed.
LEMMA RequestSealed ==
  ASSUME NEW type, NEW len, Length(len), NEW n, NEW mode, NEW body,
         NEW key, NEW f, f = Request(type, len, n, mode, body), NEW s, s = Seal(f, key)
  PROVE  SealedAs(f, s, len, n, mode, body, key)
<1>1. Words(f, type, len, ClientId, Num(n), Zero, Nonce \cup mode, body)
  BY FrameWords, Zenon DEF Request
<1>2. Plain(f[1]) /\ Plain(f[3])
  BY <1>1, PlainId, PlainNum DEF IdPlain, Words
<1>3. /\ FrameOf(s, len - 1) /\ s[0] = f[0] /\ s[5] = f[5]
      /\ decode_term_id(s) = <<f[1], f[2]>>
      /\ s[3] = Enc(key, <<f[3], compute_chkval(f)>>)[1]
      /\ s[4] = Enc(key, <<f[3], compute_chkval(f)>>)[2]
      /\ BodyCrypted("enc", key, f, s, len - 1)
  BY <1>1, <1>2, Sealed DEF Words
<1>4. derive_per_frame_key(s) = derive_per_frame_key(f)
  BY <1>3 DEF derive_per_frame_key
<1>5. NumberIn(s, key, n)
  BY <1>1, <1>3 DEF NumberIn, Words
<1>6. decode_term_id(s) = ClientId
  BY <1>1, <1>3, PlainId DEF IdPlain, Words
<1> QED BY <1>1, <1>3, <1>4, <1>5, <1>6 DEF SealedAs, Words

\* The options of a request give its mode of encryption.
LEMMA ModeOf ==
  ASSUME NEW f
  PROVE  /\ f[5] = Nonce \cup Opt("enc1") => EncryptMode(f) = 1
         /\ f[5] = Nonce \cup Opt("enc2") => EncryptMode(f) = 2
<1>1. <<"opt", "nonce">> # <<"opt", "enc1">> /\ <<"opt", "enc2">> # <<"opt", "enc1">>
  OBVIOUS
<1> QED BY <1>1 DEF EncryptMode, Opt, Nonce, Term

\* The relay reads id and number of DETECT right.
LEMMA DetectRead ==
  ASSUME NEW r, r.kind = "detect", NEW s, s = RequestFrame(r)
  PROVE  decode_term_id(s) = ClientId /\ extract_request_sequence_number(s, NoKey) = Num(r.sq)
<1>0. Length(8)
  BY DEF Length
<1>1. PICK f : f = Request("DETECT_REQ", 8, r.sq, Opt("enc1"), <<>>)
  OBVIOUS
<1>2. PICK key : key = derive_per_frame_key(f)
  OBVIOUS
<1>3. s = Seal(f, key)
  BY <1>1, <1>2 DEF RequestFrame, Request
<1>4. SealedAs(f, s, 8, r.sq, Opt("enc1"), <<>>, key)
  BY <1>0, <1>1, <1>3, RequestSealed, Zenon
<1>5. EncryptMode(s) = 1
  BY <1>4, ModeOf DEF SealedAs
<1>6. extract_request_sequence_number(s, NoKey) = Dec(key, <<s[3], s[4]>>)[1]
  BY <1>2, <1>4, <1>5 DEF extract_request_sequence_number, SealedAs
<1> QED BY <1>4, <1>6, NumberRead DEF SealedAs

\* The relay reads the id of LIST right.
LEMMA ListRead ==
  ASSUME NEW r, r.kind = "list", NEW s, s = RequestFrame(r)
  PROVE  decode_term_id(s) = ClientId
<1>0. Length(8)
  BY DEF Length
<1>1. PICK f : f = Frame("LIST_REQ", 8, ClientId, Num(r.sq), Zero, Nonce \cup Zero, <<>>)
  OBVIOUS
<1>2. PICK g : g = SetChkval(f)
  OBVIOUS
<1>3. Words(f, "LIST_REQ", 8, ClientId, Num(r.sq), Zero, Nonce \cup Zero, <<>>)
  BY <1>0, <1>1, FrameWords, Zenon
<1>4. FrameOf(g, 8 - 1) /\ Same(f, g, 8 - 1, {4})
  BY <1>2, <1>3, ChkvalWords DEF Words
<1>5. g[1] = f[1] /\ g[2] = f[2] /\ g[3] = f[3]
  BY <1>4 DEF Same
<1>6. s = id_encrypt(g)
  BY <1>1, <1>2 DEF RequestFrame
<1>7. Plain(g[1]) /\ Plain(g[3])
  BY <1>3, <1>5, PlainId, PlainNum DEF IdPlain, Words
<1>8. decode_term_id(s) = <<g[1], g[2]>>
  BY <1>4, <1>6, <1>7, IdBack
<1> QED BY <1>3, <1>5, <1>8, PlainId DEF IdPlain, Words

\* The first words of a body of several parts.
LEMMA BodyStarts ==
  ASSUME NEW n \in Nat, NEW d, DOMAIN d = 1 .. n, d = [j \in 1 .. n |-> d[j]],
         NEW m \in Nat, NEW e, e = [j \in 1 .. m |-> e[j]], NEW b, b = d \o e
  PROVE  /\ b = [j \in 1 .. n + m |-> b[j]]
         /\ \A j \in 1 .. n : b[j] = d[j]
         /\ \A j \in 1 .. m : b[n + j] = e[j]
<1>1. PICK S : S = {d[j] : j \in 1 .. n} \cup {e[j] : j \in 1 .. m}
  OBVIOUS
<1>2. d \in [1 .. n -> S] /\ e \in [1 .. m -> S]
  BY <1>1
<1>3. d \in Seq(S) /\ e \in Seq(S) /\ Len(d) = n /\ Len(e) = m
  BY <1>2
<1>4. b \in Seq(S) /\ Len(b) = n + m
  BY <1>3
<1>5. \A j \in 1 .. n + m : b[j] = IF j <= n THEN d[j] ELSE e[j - n]
  BY <1>3
<1>6. b = [j \in 1 .. n + m |-> b[j]]
  <2>1. b \in [1 .. n + m -> S]
    BY <1>4, LenProperties
  <2> QED BY <2>1
<1>7. \A j \in 1 .. m : n + j \in 1 .. n + m /\ ~ (n + j <= n) /\ n + j - n = j
  OBVIOUS
<1>8. \A j \in 1 .. n : b[j] = d[j]
  <2>1. \A j \in 1 .. n : j \in 1 .. n + m /\ j <= n
    OBVIOUS
  <2> QED BY <1>5, <2>1
<1>9. \A j \in 1 .. m : b[n + j] = e[j]
  BY <1>5, <1>7
<1> QED BY <1>6, <1>8, <1>9

\* Four words of a key, encrypted.
LEMMA HalfKey ==
  ASSUME NEW n, NEW i \in {1, 5}, NEW e, e = Enc(CertifyKey, SubSeq(ClientKey(n), i, i + 3))
  PROVE  e = [j \in 1 .. 4 |-> e[j]]
<1>1. PICK k : k = ClientKey(n)
  OBVIOUS
<1>2. PICK S : S = {k[j] : j \in 1 .. 8}
  OBVIOUS
<1>3. \A j \in 1 .. 8 : k[j] \in S /\ k[j] = {<<"client key", n, j>>}
  <2>1. k = [j \in 1 .. 8 |-> {<<"client key", n, j>>}]
    BY <1>1 DEF ClientKey, Term
  <2> QED BY <1>2, <2>1
<1>4. PICK b : b = SubSeq(k, i, i + 3)
  OBVIOUS
<1>6. DOMAIN b = 1 .. 4 /\ b[1] = k[i]
  <2>1. PICK l \in Int : l = i + 3 /\ i \in Int
    OBVIOUS
  <2>2. \A j \in i .. l : k[j] \in S
    <3>1. \A j \in i .. l : j \in 1 .. 8
      BY <2>1
    <3> QED BY <1>3, <3>1
  <2>3. b = SubSeq(k, i, l)
    BY <1>4, <2>1
  <2>4. /\ b \in Seq(S) /\ Len(b) = IF i <= l THEN l - i + 1 ELSE 0
        /\ \A j \in 1 .. l - i + 1 : b[j] = k[i + j - 1]
    BY <2>1, <2>2, <2>3, SubSeqProperties
  <2>5. Len(b) = 4 /\ 1 \in 1 .. l - i + 1 /\ i + 1 - 1 = i
    BY <2>1, <2>4
  <2> QED BY <2>4, <2>5
<1>7. \A t \in b[1] : t[1] # "dec"
  <2>1. i \in 1 .. 8 /\ <<"client key", n, i>>[1] # "dec"
    OBVIOUS
  <2> QED BY <1>3, <1>6, <2>1
<1>5. e = [j \in 1 .. 4 |-> Term(<<"enc", CertifyKey, b, j>>)]
  BY <1>1, <1>4, <1>6, <1>7 DEF Enc, Cipher, Undoing
<1> QED BY <1>5

\* The first two words of what a CERTIFY encrypts.
LEMMA CertifyBodyStarts ==
  ASSUME NEW n, NEW b, b = CertifyBody(n)
  PROVE  /\ 1 \in DOMAIN b /\ b[1] = Zero
         /\ 2 \in DOMAIN b /\ b[2] = giot_hash_string(ClientKey(n))
<1>1. PICK h : h = giot_hash_string(ClientKey(n))
  OBVIOUS
<1>2. PICK c : c = <<Zero, h>>
  OBVIOUS
<1>3. PICK d : d = Enc(CertifyKey, SubSeq(ClientKey(n), 1, 4))
  OBVIOUS
<1>4. PICK e : e = Enc(CertifyKey, SubSeq(ClientKey(n), 5, 8))
  OBVIOUS
<1>5. PICK f : f = c \o d
  OBVIOUS
<1>6. b = f \o e
  BY <1>1, <1>2, <1>3, <1>4, <1>5 DEF CertifyBody
<1>7. c = [j \in 1 .. 2 |-> c[j]] /\ c[1] = Zero /\ c[2] = h
  BY <1>2
<1>8. d = [j \in 1 .. 4 |-> d[j]] /\ e = [j \in 1 .. 4 |-> e[j]]
  <2>1. 1 + 3 = 4 /\ 5 + 3 = 8
    OBVIOUS
  <2> QED BY <1>3, <1>4, <2>1, HalfKey
<1>9. f = [j \in 1 .. 2 + 4 |-> f[j]] /\ f[1] = Zero /\ f[2] = h
  BY <1>5, <1>7, <1>8, BodyStarts
<1>10. f = [j \in 1 .. 6 |-> f[j]]
  BY <1>9
<1>11. b = [j \in 1 .. 6 + 4 |-> b[j]] /\ b[1] = f[1] /\ b[2] = f[2]
  BY <1>6, <1>8, <1>10, BodyStarts
<1>12. DOMAIN b = 1 .. 10
  BY <1>11
<1> QED BY <1>1, <1>9, <1>11, <1>12

\* The relay reads id, number and the hash of the client's key in CERTIFY right.
LEMMA CertifyRead ==
  ASSUME NEW r, r.kind = "certify", NEW s, s = RequestFrame(r)
  PROVE  /\ decode_term_id(s) = ClientId
         /\ extract_request_sequence_number(s, NoKey) = Num(r.sq)
         /\ CertifyPayload(s)[6] = Zero
         /\ CertifyPayload(s)[7] = giot_hash_string(ClientKey(r.session))
<1>0. Length(16)
  BY DEF Length
<1>1. PICK f : f = Request("CERTIFY", 16, r.sq, Opt("enc1"), CertifyBody(r.session))
  OBVIOUS
<1>2. PICK key : key = derive_per_frame_key(f)
  OBVIOUS
<1>3. s = Seal(f, key)
  BY <1>1, <1>2 DEF RequestFrame, Request
<1>4. SealedAs(f, s, 16, r.sq, Opt("enc1"), CertifyBody(r.session), key)
  BY <1>0, <1>1, <1>3, RequestSealed, Zenon
<1>5. EncryptMode(s) = 1
  BY <1>4, ModeOf DEF SealedAs
<1>6. extract_request_sequence_number(s, NoKey) = Dec(key, <<s[3], s[4]>>)[1]
  BY <1>2, <1>4, <1>5 DEF extract_request_sequence_number, SealedAs
<1>7. PICK p : p = Ecb("dec", key, s, 6, Last(s))
  OBVIOUS
<1>8. CertifyPayload(s) = p
  BY <1>2, <1>4, <1>5, <1>7 DEF CertifyPayload, SealedAs
<1>9. BodyCrypted("dec", key, s, p, 16 - 1)
  BY <1>4, <1>7, BodyWords DEF SealedAs
<1>10. Crypted("enc", key, f, s, 6) /\ Crypted("dec", key, s, p, 6)
  BY <1>4, <1>9 DEF BodyCrypted, SealedAs
<1>13. \A b : b = CertifyBody(r.session) =>
               /\ 1 \in DOMAIN b /\ b[1] = Zero
               /\ 2 \in DOMAIN b /\ b[2] = giot_hash_string(ClientKey(r.session))
  BY CertifyBodyStarts
<1>11. f[6] = Zero /\ f[7] = giot_hash_string(ClientKey(r.session))
  <2>1. PICK body : body = CertifyBody(r.session)
    OBVIOUS
  <2>2. \A j \in 6 .. 16 - 1 : f[j] = IF j - 5 \in DOMAIN body THEN body[j - 5] ELSE Zero
    BY <1>4, <2>1 DEF SealedAs
  <2>3. /\ 1 \in DOMAIN body /\ body[1] = Zero
        /\ 2 \in DOMAIN body /\ body[2] = giot_hash_string(ClientKey(r.session))
    BY <2>1, <1>13
  <2> QED BY <2>2, <2>3
<1>12. p[6] = f[6] /\ p[6 + 1] = f[6 + 1]
  BY <1>10, <1>11, CryptedBack DEF Plain, Zero
<1> QED BY <1>4, <1>6, <1>8, <1>11, <1>12, NumberRead DEF SealedAs

\* The frames sealed with the key of the session.
SessionKinds == {"init", "subscribe", "ctl", "calling"}

\* In the requests under the session key the relay reads the id right; number and
\* link id are encrypted with that key.
LEMMA SessionRead ==
  ASSUME NEW r, r.kind \in SessionKinds, NEW s, s = RequestFrame(r)
  PROVE  /\ decode_term_id(s) = ClientId /\ EncryptMode(s) = 2 /\ NumberIn(s, r.key, r.sq)
         /\ r.kind = "calling" =>
              \E f : /\ f[6] = Zero /\ f[7] = LinkId(r.session)
                     /\ Crypted("enc", r.key, f, s, 6)
<1>1. PICK type, body : /\ s = Seal(Request(type, 8, r.sq, Opt("enc2"), body), r.key)
                        /\ r.kind = "calling" => body = <<Zero, LinkId(r.session)>>
  <2>1. CASE r.kind = "init"
    <3>1. s = Seal(Request("INIT_INFO", 8, r.sq, Opt("enc2"), <<>>), r.key)
      BY <2>1 DEF RequestFrame, Request
    <3> QED BY <2>1, <3>1
  <2>2. CASE r.kind = "subscribe"
    <3>1. s = Seal(Request("SUBSCRIBE", 8, r.sq, Opt("enc2"), <<>>), r.key)
      BY <2>2 DEF RequestFrame, Request
    <3> QED BY <2>2, <3>1
  <2>3. CASE r.kind = "ctl"
    <3>1. s = Seal(Request("SESSION_CTL", 8, r.sq, Opt("enc2"), <<>>), r.key)
      BY <2>3 DEF RequestFrame, Request
    <3> QED BY <2>3, <3>1
  <2>4. CASE r.kind = "calling"
    <3>1. s = Seal(Request("CALLING", 8, r.sq, Opt("enc2"), <<Zero, LinkId(r.session)>>), r.key)
      BY <2>4 DEF RequestFrame, Request
    <3> QED BY <2>4, <3>1
  <2> QED BY <2>1, <2>2, <2>3, <2>4 DEF SessionKinds
<1>2. PICK f : f = Request(type, 8, r.sq, Opt("enc2"), body)
  OBVIOUS
<1>3. s = Seal(f, r.key) /\ Length(8)
  BY <1>1, <1>2 DEF Length
<1>4. SealedAs(f, s, 8, r.sq, Opt("enc2"), body, r.key)
  BY <1>2, <1>3, RequestSealed, Zenon
<1>5. EncryptMode(s) = 2
  BY <1>4, ModeOf DEF SealedAs
<1>6. ASSUME r.kind = "calling"
      PROVE  f[6] = Zero /\ f[7] = LinkId(r.session) /\ Crypted("enc", r.key, f, s, 6)
  <2>1. 1 \in DOMAIN body /\ 2 \in DOMAIN body /\ body[1] = Zero /\ body[2] = LinkId(r.session)
    BY <1>1, <1>6
  <2>2. f[6] = Zero /\ f[7] = LinkId(r.session)
    BY <1>4, <2>1 DEF SealedAs
  <2> QED BY <1>4, <2>2 DEF SealedAs, BodyCrypted
<1> QED BY <1>4, <1>5, <1>6 DEF SealedAs

\* Every request has the id of the client.
LEMMA IdRead ==
  ASSUME NEW r, r.kind \in Kinds
  PROVE  decode_term_id(RequestFrame(r)) = ClientId
<1>1. r.kind \in {"detect", "list", "certify", "init", "subscribe", "ctl", "calling"}
  BY DEF Kinds, Script
<1> QED BY <1>1, DetectRead, ListRead, CertifyRead, SessionRead DEF SessionKinds

\* With the key of the sender the number is read, and with it alone.
LEMMA SessionNumber ==
  ASSUME NEW r, r.kind \in SessionKinds, r.key # NoKey, NEW key,
         NEW w, w = extract_request_sequence_number(RequestFrame(r), key)
  PROVE  /\ w = Num(r.sq) \/ Noise(w)
         /\ key = r.key => w = Num(r.sq)
<1>1. PICK s : s = RequestFrame(r)
  OBVIOUS
<1>2. EncryptMode(s) = 2 /\ NumberIn(s, r.key, r.sq)
  BY <1>1, SessionRead
<1>3. PICK l : w = Dec(l, <<s[3], s[4]>>)[1] /\ (key = r.key => l = r.key)
  <2>1. CASE key = NoKey
    <3>1. w = Dec(derive_per_frame_key(s), <<s[3], s[4]>>)[1]
      BY <1>1, <1>2, <2>1 DEF extract_request_sequence_number
    <3> QED BY <2>1, <3>1
  <2>2. CASE key # NoKey
    <3>1. w = Dec(key, <<s[3], s[4]>>)[1]
      BY <1>1, <1>2, <2>2 DEF extract_request_sequence_number
    <3> QED BY <3>1
  <2> QED BY <2>1, <2>2
<1> QED BY <1>2, <1>3, NumberRead

\* With the right key the relay reads the link id of CALLING right.
LEMMA CallingLink ==
  ASSUME NEW r, r.kind = "calling", r.key # NoKey
  PROVE  extract_calling_link_id(RequestFrame(r), r.key) = LinkId(r.session)
<1>1. PICK s : s = RequestFrame(r)
  OBVIOUS
<1>2. EncryptMode(s) = 2
  BY <1>1, SessionRead DEF SessionKinds
<1>3. PICK f : f[6] = Zero /\ f[7] = LinkId(r.session) /\ Crypted("enc", r.key, f, s, 6)
  BY <1>1, SessionRead DEF SessionKinds
<1>4. extract_calling_link_id(s, r.key) = Dec(r.key, <<s[6], s[7]>>)[2]
  BY <1>2 DEF extract_calling_link_id
<1>5. PICK x, y : x = f[6] /\ y = f[7] /\ Plain(x)
  BY <1>3 DEF Plain, Zero
<1>6. s[6] = Enc(r.key, <<x, y>>)[1] /\ s[7] = Enc(r.key, <<x, y>>)[2]
  BY <1>3, <1>5 DEF Crypted, Enc
<1> QED BY <1>1, <1>3, <1>4, <1>5, <1>6, Decrypted

-----------------------------------------------------------------------------
(* What the SDK reads in answers                                           *)

\* The second half of Opened, and all of it.
OpenedId(f) == Ecb("dec", GWELL_KEY, XorId(f), 1, 2)
OpenedUnder(f, key) == Ecb("dec", key, Ecb("dec", key, OpenedId(f), 6, Last(f)), 3, 4)

\* The key with which a frame is opened follows from its mode.
LEMMA OpenedModes ==
  ASSUME NEW f, NEW key
  PROVE  /\ EncryptMode(f) = 0 => Opened(f, key) = f
         /\ EncryptMode(f) = 1 => Opened(f, key) = OpenedUnder(f, derive_per_frame_key(f))
         /\ EncryptMode(f) = 2 => Opened(f, key) = OpenedUnder(f, key)
<1>1. EncryptMode(f) \in {0, 1, 2}
  BY DEF EncryptMode
<1>2. CASE EncryptMode(f) = 0
  BY <1>2 DEF Opened
<1>3. CASE EncryptMode(f) = 1
  BY <1>3 DEF Opened, OpenedUnder, OpenedId
<1>4. CASE EncryptMode(f) = 2
  BY <1>4 DEF Opened, OpenedUnder, OpenedId
<1> QED BY <1>1, <1>2, <1>3, <1>4

\* What was encrypted in blocks under a key is opened under it.
LEMMA OpenedWords ==
  ASSUME NEW f, NEW s, NEW n, FrameOf(f, n), FrameOf(s, n), NEW key,
         Plain(f[3]), Crypted("enc", key, f, s, 3), BodyCrypted("enc", key, f, s, n),
         NEW q, q = OpenedUnder(s, key)
  PROVE  /\ FrameOf(q, n) /\ q[3] = f[3] /\ q[4] = f[4]
         /\ q[0] = s[0] /\ q[5] = s[5] /\ q[1] = OpenedId(s)[1] /\ q[2] = OpenedId(s)[2]
         /\ \A i \in 6 .. n - 1 : i % 2 = 0 /\ Plain(f[i]) => q[i] = f[i] /\ q[i + 1] = f[i + 1]
<1>1. n \in Nat /\ n >= 7 /\ 0 .. 5 \subseteq 0 .. n
  BY DEF FrameOf
<1>2. PICK x : x = XorId(s)
  OBVIOUS
<1>3. PICK g : g = OpenedId(s)
  OBVIOUS
<1>4. PICK p : p = Ecb("dec", key, g, 6, Last(g))
  OBVIOUS
<1>5. FrameOf(x, n) /\ Same(s, x, n, {1, 2})
  BY <1>2, XorIdWords
<1>6. FrameOf(g, n) /\ Same(x, g, n, {1, 2})
  <2>1. g = Ecb("dec", GWELL_KEY, x, 1, 2)
    BY <1>2, <1>3 DEF OpenedId
  <2> QED BY <1>5, <2>1, IdWords
<1>7. FrameOf(p, n) /\ BodyCrypted("dec", key, g, p, n) /\ Same(g, p, n, 6 .. n)
  BY <1>4, <1>6, BodyWords
<1>8. FrameOf(q, n) /\ Crypted("dec", key, p, q, 3) /\ Same(p, q, n, {3, 4})
  <2>1. Last(g) = Last(s)
    BY <1>6, LastWord
  <2>2. q = Ecb("dec", key, p, 3, 4)
    BY <1>3, <1>4, <2>1 DEF OpenedUnder
  <2> QED BY <1>7, <2>2, NumberWords
<1>9. p[3] = s[3] /\ p[4] = s[4]
  BY <1>1, <1>5, <1>6, <1>7 DEF Same
<1>10. q[3] = f[3] /\ q[4] = f[4]
  <2>1. Crypted("dec", key, s, q, 3)
    BY <1>8, <1>9 DEF Crypted
  <2>2. q[3] = f[3] /\ q[3 + 1] = f[3 + 1]
    BY <2>1, CryptedBack
  <2> QED BY <2>2
<1>11. q[0] = s[0] /\ q[5] = s[5] /\ q[1] = g[1] /\ q[2] = g[2]
  BY <1>1, <1>5, <1>6, <1>7, <1>8 DEF Same
<1>12. ASSUME NEW i \in 6 .. n - 1, i % 2 = 0, Plain(f[i])
       PROVE  q[i] = f[i] /\ q[i + 1] = f[i + 1]
  <2>1. i \in 0 .. n /\ i + 1 \in 0 .. n /\ i \notin {1, 2, 3, 4} /\ i + 1 \notin {1, 2, 3, 4} /\ i \in Nat
    BY <1>1, <1>12
  <2>2. g[i] = s[i] /\ g[i + 1] = s[i + 1] /\ q[i] = p[i] /\ q[i + 1] = p[i + 1]
    BY <1>5, <1>6, <1>8, <2>1 DEF Same
  <2>3. Crypted("dec", key, g, p, i) /\ Crypted("enc", key, f, s, i)
    BY <1>7, <1>12 DEF BodyCrypted
  <2>4. Crypted("dec", key, s, q, i)
    BY <2>2, <2>3 DEF Crypted
  <2> QED BY <1>12, <2>1, <2>3, <2>4, CryptedBack
<1> QED BY <1>3, <1>8, <1>10, <1>11, <1>12

\* The flags of the answers say whether they are a response or an ACK, and how
\* they are encrypted.
LEMMA FlagSets ==
  ASSUME NEW f, NEW a \in {"nonce", "relay"}
  PROVE  /\ f[5] = Opt(a) \cup Opt("resp") => IsResp(f) /\ ~ IsAck(f) /\ EncryptMode(f) = 0
         /\ f[5] = Nonce \cup RespFlags => IsResp(f) /\ ~ IsAck(f) /\ EncryptMode(f) = 0
         /\ f[5] = Nonce \cup Opt("enc1") \cup Opt("resp") => IsResp(f) /\ ~ IsAck(f) /\ EncryptMode(f) = 1
         /\ f[5] = Opt(a) => ~ IsResp(f) /\ ~ IsAck(f) /\ EncryptMode(f) = 0
         /\ f[5] = Nonce \cup Opt("enc2") \cup Opt("ack") \cup Opt("relay") =>
              ~ IsResp(f) /\ IsAck(f) /\ EncryptMode(f) = 2
<1>1. \A x, y : <<"opt", x>> = <<"opt", y>> <=> x = y
  OBVIOUS
<1>2. \A x, y : <<"opt", x>> \in Opt(y) <=> x = y
  BY <1>1 DEF Opt, Term
<1> QED BY <1>2 DEF IsResp, IsAck, EncryptMode, Nonce, RespFlags

\* The answers whose number is in clear.
LEMMA ClearAnswer ==
  ASSUME NEW w, NEW id, NEW f,
         \/ f = build_detect_resp(w) \/ f = build_init_info_resp(id, w)
         \/ f = build_subscribe_resp(id, w) \/ f = build_session_ctl_resp(id, w)
  PROVE  Resp(f, w)
<1>1. /\ f[4] = w
      /\ f[5] = Nonce \cup Opt("resp") \/ f[5] = Nonce \cup RespFlags \/ f[5] = RespFlags
  <2>1. CASE f = build_detect_resp(w)
    <3>1. PICK body : body = <<Num(1), Val("uptime"), Zero, Val("mtu"), Val("uptime"), Zero, Val("now"), Num(1)>>
      OBVIOUS
    <3>2. f = Frame("DETECT_RESP", 14, ServerId, ServerSqnum, w, Nonce \cup Opt("resp"), body)
      BY <2>1, <3>1 DEF build_detect_resp
    <3>3. Length(14)
      BY DEF Length
    <3>4. Words(f, "DETECT_RESP", 14, ServerId, ServerSqnum, w, Nonce \cup Opt("resp"), body)
      BY <3>2, <3>3, FrameWords, Zenon
    <3> QED BY <3>4 DEF Words
  <2>2. CASE f = build_init_info_resp(id, w)
    <3>1. PICK body : body = <<Num(1), Val("one online"), Val("did"), Zero, Zero, Val("online")>>
      OBVIOUS
    <3>2. f = Frame("INIT_INFO", 16, id, ServerSqnum, w, Nonce \cup RespFlags, body)
      BY <2>2, <3>1 DEF build_init_info_resp
    <3>3. Length(16)
      BY DEF Length
    <3>4. Words(f, "INIT_INFO", 16, id, ServerSqnum, w, Nonce \cup RespFlags, body)
      BY <3>2, <3>3, FrameWords, Zenon
    <3> QED BY <3>4 DEF Words
  <2>3. CASE f = build_subscribe_resp(id, w)
    <3>1. PICK body : body = <<>>
      OBVIOUS
    <3>2. f = Frame("SUBSCRIBE_RESP", 13, id, ServerSqnum, w, RespFlags, body)
      BY <2>3, <3>1 DEF build_subscribe_resp
    <3>3. Length(13)
      BY DEF Length
    <3>4. Words(f, "SUBSCRIBE_RESP", 13, id, ServerSqnum, w, RespFlags, body)
      BY <3>2, <3>3, FrameWords, Zenon
    <3> QED BY <3>4 DEF Words
  <2>4. CASE f = build_session_ctl_resp(id, w)
    <3>1. PICK body : body = <<>>
      OBVIOUS
    <3>2. f = Frame("SESSION_CTL_RESP", 13, id, ServerSqnum, w, RespFlags, body)
      BY <2>4, <3>1 DEF build_session_ctl_resp
    <3>3. Length(13)
      BY DEF Length
    <3>4. Words(f, "SESSION_CTL_RESP", 13, id, ServerSqnum, w, RespFlags, body)
      BY <3>2, <3>3, FrameWords, Zenon
    <3> QED BY <3>4 DEF Words
  <2> QED BY <2>1, <2>2, <2>3, <2>4
<1>2. \/ f[5] = Opt("nonce") \cup Opt("resp") \/ f[5] = Opt("relay") \cup Opt("resp")
      \/ f[5] = Nonce \cup RespFlags
  <2>1. RespFlags = Opt("relay") \cup Opt("resp")
    BY DEF RespFlags
  <2> QED BY <1>1, <2>1 DEF Nonce
<1>3. IsResp(f) /\ ~ IsAck(f) /\ EncryptMode(f) = 0
  BY <1>2, FlagSets
<1> QED BY <1>1, <1>3, OpenedModes DEF Resp

\* The words of a frame whose payload, sqnum and chkval are encrypted.
LEMMA Wrapped ==
  ASSUME NEW f, NEW n, FrameOf(f, n), NEW key,
         NEW s, s = Ecb("enc", key, Ecb("enc", key, f, 6, Last(f)), 3, 4)
  PROVE  /\ FrameOf(s, n) /\ s[0] = f[0] /\ s[1] = f[1] /\ s[2] = f[2] /\ s[5] = f[5]
         /\ Crypted("enc", key, f, s, 3) /\ BodyCrypted("enc", key, f, s, n)
<1>1. n \in Nat /\ n >= 7 /\ 0 .. 5 \subseteq 0 .. n
  BY DEF FrameOf
<1>2. PICK g : g = Ecb("enc", key, f, 6, Last(f))
  OBVIOUS
<1>3. FrameOf(g, n) /\ BodyCrypted("enc", key, f, g, n) /\ Same(f, g, n, 6 .. n)
  BY <1>2, BodyWords
<1>4. s = Ecb("enc", key, g, 3, 4)
  BY <1>2
<1>5. FrameOf(s, n) /\ Crypted("enc", key, g, s, 3) /\ Same(g, s, n, {3, 4})
  BY <1>3, <1>4, NumberWords
<1>6. /\ g[0] = f[0] /\ g[1] = f[1] /\ g[2] = f[2] /\ g[3] = f[3] /\ g[4] = f[4] /\ g[5] = f[5]
      /\ s[0] = g[0] /\ s[1] = g[1] /\ s[2] = g[2] /\ s[5] = g[5]
  BY <1>1, <1>3, <1>5 DEF Same
<1>7. Crypted("enc", key, f, s, 3)
  BY <1>5, <1>6 DEF Crypted
<1>8. ASSUME NEW i \in 6 .. n - 1, i % 2 = 0
      PROVE  Crypted("enc", key, f, s, i)
  <2>1. i \in 0 .. n /\ i + 1 \in 0 .. n /\ i \notin {3, 4} /\ i + 1 \notin {3, 4}
    BY <1>1, <1>8
  <2>2. s[i] = g[i] /\ s[i + 1] = g[i + 1]
    BY <1>5, <2>1 DEF Same
  <2> QED BY <1>3, <1>8, <2>2 DEF BodyCrypted, Crypted
<1> QED BY <1>5, <1>6, <1>7, <1>8 DEF BodyCrypted

\* A server key has eight words that have not come out of a decryption.
LEMMA ServerKeyWords ==
  ASSUME NEW n, NEW e, e = ServerKey(n)
  PROVE  /\ e = [j \in 1 .. 8 |-> e[j]]
         /\ \A j \in 1 .. 8 : Plain(e[j])
<1>1. e = [j \in 1 .. 8 |-> {<<"server key", n, j>>}]
  BY DEF ServerKey, Term
<1>2. ASSUME NEW j \in 1 .. 8
      PROVE  Plain(e[j])
  <2>1. <<"server key", n, j>>[1] # "dec"
    OBVIOUS
  <2>2. \A i \in 1 .. 8 : e[i] = {<<"server key", n, i>>}
    BY <1>1
  <2>3. e[j] = {<<"server key", n, j>>}
    BY <2>2
  <2> QED BY <2>1, <2>3 DEF Plain
<1> QED BY <1>1, <1>2

\* The answer to CERTIFY carries number and server key to the SDK.
LEMMA CertifyAnswer ==
  ASSUME NEW n, NEW sid, Plain(sid[2]), NEW w, NEW f, f = build_certify_resp(sid, ServerKey(n), w)
  PROVE  Resp(f, w) /\ ServerKeyIn(f, n)
<1>0. Length(20)
  BY DEF Length
<1>1. PICK c : c = <<Num(1), sid[1], sid[2]>>
  OBVIOUS
<1>2. PICK e : e = ServerKey(n)
  OBVIOUS
<1>3. PICK body : body = c \o e
  OBVIOUS
<1>4. PICK flags : flags = Nonce \cup Opt("enc1") \cup Opt("resp")
  OBVIOUS
<1>5. PICK g : g = Frame("CERTIFY_RESP", 20, ServerId, ServerSqnum, w, flags, body)
  OBVIOUS
<1>6. PICK key : key = derive_per_frame_key(g)
  OBVIOUS
<1>7. f = Ecb("enc", key, Ecb("enc", key, g, 6, Last(g)), 3, 4)
  BY <1>1, <1>2, <1>3, <1>4, <1>5, <1>6 DEF build_certify_resp
<1>8. Words(g, "CERTIFY_RESP", 20, ServerId, ServerSqnum, w, flags, body)
  BY <1>0, <1>5, FrameWords, Zenon
<1>9. FrameOf(g, 20 - 1) /\ g[3] = ServerSqnum /\ g[4] = w /\ g[5] = flags
  BY <1>8 DEF Words
<1>10. /\ FrameOf(f, 20 - 1) /\ f[0] = g[0] /\ f[5] = g[5]
       /\ Crypted("enc", key, g, f, 3) /\ BodyCrypted("enc", key, g, f, 20 - 1)
  BY <1>7, <1>9, Wrapped
<1>11. IsResp(f) /\ ~ IsAck(f) /\ EncryptMode(f) = 1
  BY <1>4, <1>9, <1>10, FlagSets
<1>12. PICK q : q = Opened(f, NoKey)
  OBVIOUS
<1>13. q = OpenedUnder(f, key)
  BY <1>6, <1>10, <1>11, <1>12, OpenedModes DEF derive_per_frame_key
<1>14. Plain(g[3])
  <2>1. ServerSqnum = {<<"server sqnum">>} /\ <<"server sqnum">>[1] # "dec"
    BY DEF ServerSqnum, Term
  <2> QED BY <1>9, <2>1 DEF Plain
<1>15. /\ q[4] = g[4]
       /\ \A i \in 6 .. (20 - 1) - 1 : i % 2 = 0 /\ Plain(g[i]) => q[i] = g[i] /\ q[i + 1] = g[i + 1]
  BY <1>9, <1>10, <1>13, <1>14, OpenedWords
<1>16. e = [j \in 1 .. 8 |-> e[j]] /\ \A j \in 1 .. 8 : Plain(e[j])
  BY <1>2, ServerKeyWords
<1>17. c = [j \in 1 .. 3 |-> c[j]] /\ c[3] = sid[2] /\ DOMAIN c = 1 .. 3
  BY <1>1
<1>18. /\ body = [j \in 1 .. 3 + 8 |-> body[j]] /\ body[3] = sid[2]
       /\ \A j \in 1 .. 8 : body[3 + j] = e[j]
  BY <1>3, <1>16, <1>17, BodyStarts
<1>19. \A j \in 6 .. 16 : g[j] = body[j - 5]
  <2>1. \A j \in 6 .. 20 - 1 : g[j] = IF j - 5 \in DOMAIN body THEN body[j - 5] ELSE Zero
    BY <1>8 DEF Words
  <2>2. DOMAIN body = 1 .. 11
    BY <1>18
  <2> QED BY <2>1, <2>2
<1>20. g[8] = sid[2] /\ \A j \in 1 .. 8 : g[8 + j] = e[j]
  <2>1. 8 \in 6 .. 16 /\ 8 - 5 = 3
    OBVIOUS
  <2>2. \A j \in 1 .. 8 : 8 + j \in 6 .. 16 /\ (8 + j) - 5 = 3 + j
    OBVIOUS
  <2> QED BY <1>18, <1>19, <2>1, <2>2
<1>21. ASSUME NEW j \in 1 .. 8
       PROVE  q[8 + j] = e[j]
  <2>1. CASE j % 2 = 0
    <3>1. 8 + j \in 6 .. (20 - 1) - 1 /\ (8 + j) % 2 = 0
      BY <2>1
    <3> QED BY <1>15, <1>16, <1>20, <3>1
  <2>2. CASE j = 1
    <3>1. 8 \in 6 .. (20 - 1) - 1 /\ 8 % 2 = 0
      OBVIOUS
    <3>2. q[8 + 1] = g[8 + 1]
      BY <1>15, <1>20, <3>1
    <3> QED BY <1>20, <2>2, <3>2
  <2>3. CASE j % 2 # 0 /\ j # 1
    <3>1. PICK i \in 1 .. 8 : i + 1 = j /\ i % 2 = 0
      BY <2>3
    <3>2. 8 + i \in 6 .. (20 - 1) - 1 /\ (8 + i) % 2 = 0 /\ (8 + i) + 1 = 8 + j
      BY <3>1
    <3>3. q[(8 + i) + 1] = g[(8 + i) + 1]
      BY <1>15, <1>16, <1>20, <3>1, <3>2
    <3> QED BY <1>20, <3>2, <3>3
  <2> QED BY <2>1, <2>2, <2>3
<1> QED BY <1>2, <1>9, <1>11, <1>12, <1>15, <1>21 DEF Resp, ServerKeyIn

\* The answer to LIST tells the request by its type, and no CALLING by its link.
LEMMA ListAnswer ==
  ASSUME NEW f, f = build_list_resp
  PROVE  /\ ~ IsResp(f) /\ ~ IsAck(f) /\ Verified(f) /\ \A k : Opened(f, k) = f
         /\ f[0] = Term(<<"hdr", "LIST_RESP", 17>>) /\ \A m : f[7] # LinkId(m)
<1>0. Length(17)
  BY DEF Length
<1>11. PICK v, ip, port : v = Val("one server") /\ ip = Val("our ip") /\ port = Val("port")
  OBVIOUS
<1>1. PICK body : body = <<Zero, v, ip, Zero, Zero, Zero, Zero, Zero, port, port>>
  OBVIOUS
<1>2. PICK g : g = Frame("LIST_RESP", 17, ServerId, ServerSqnum, Zero, Nonce, body)
  OBVIOUS
<1>3. f = SetChkval(g)
  BY <1>1, <1>2, <1>11 DEF build_list_resp
<1>4. Words(g, "LIST_RESP", 17, ServerId, ServerSqnum, Zero, Nonce, body)
  BY <1>0, <1>2, FrameWords, Zenon
<1>5. /\ FrameOf(g, 17 - 1) /\ g[0] = Term(<<"hdr", "LIST_RESP", 17>>) /\ g[5] = Opt("nonce")
      /\ g[7] = body[2]
  <2>2. 2 \in DOMAIN body
    BY <1>1
  <2> QED BY <1>4, <2>2 DEF Words, Nonce
<1>6. Same(g, f, 17 - 1, {4}) /\ Verified(f)
  BY <1>3, <1>5, ChkvalWords, ChkvalVerified
<1>7. f[0] = g[0] /\ f[5] = g[5] /\ f[7] = g[7]
  BY <1>6 DEF Same
<1>8. ~ IsResp(f) /\ ~ IsAck(f) /\ EncryptMode(f) = 0
  BY <1>5, <1>7, FlagSets
<1>9. \A m : Val("one server") # LinkId(m)
  <2> SUFFICES ASSUME NEW m PROVE Val("one server") # LinkId(m)
    OBVIOUS
  <2>1. <<"val", "one server">>[1] # <<"link", m>>[1]
    OBVIOUS
  <2> QED BY <2>1 DEF Val, LinkId, Term
<1>10. f[7] = Val("one server")
  BY <1>1, <1>5, <1>7, <1>11
<1> QED BY <1>5, <1>6, <1>7, <1>8, <1>9, <1>10, OpenedModes

\* MTP_RES_RESP tells the CALLING by its link.
LEMMA MtpAnswer ==
  ASSUME NEW id, NEW link, NEW f, f = build_mtp_res_resp(id, link)
  PROVE  /\ ~ IsResp(f) /\ ~ IsAck(f) /\ EncryptMode(f) = 0 /\ Verified(f) /\ \A k : Opened(f, k) = f
         /\ f[7] = link
<1>0. Length(31)
  BY DEF Length
<1>10. PICK three, v4, ip, dports, dport, dip, any :
         /\ three = Num(3) /\ v4 = Val("v4") /\ ip = Val("our ip") /\ dports = Val("doorbell ports")
         /\ dport = Val("doorbell port") /\ dip = Val("doorbell ip") /\ any = Val("1.2.3.4")
  OBVIOUS
<1>1. PICK body : body = <<three, link, Zero, Zero, Zero, Zero, v4, Zero, Zero, ip, ip, Zero, Zero, Zero, Zero,
                           v4, dports, dport, any, dip>>
  OBVIOUS
<1>2. PICK g : g = Frame("MTP_RES_RESP", 31, id, ServerSqnum, Zero, Opt("relay"), body)
  OBVIOUS
<1>3. f = SetChkval(g)
  BY <1>1, <1>2, <1>10 DEF build_mtp_res_resp
<1>4. Words(g, "MTP_RES_RESP", 31, id, ServerSqnum, Zero, Opt("relay"), body)
  BY <1>0, <1>2, FrameWords, Zenon
<1>5. FrameOf(g, 31 - 1) /\ g[5] = Opt("relay") /\ g[7] = body[2]
  <2>2. 2 \in DOMAIN body
    BY <1>1
  <2> QED BY <1>4, <2>2 DEF Words
<1>6. Same(g, f, 31 - 1, {4}) /\ Verified(f)
  BY <1>3, <1>5, ChkvalWords, ChkvalVerified
<1>7. f[5] = g[5] /\ f[7] = g[7]
  BY <1>6 DEF Same
<1>8. ~ IsResp(f) /\ ~ IsAck(f) /\ EncryptMode(f) = 0
  BY <1>5, <1>7, FlagSets
<1>9. f[7] = link
  BY <1>1, <1>5, <1>7
<1> QED BY <1>6, <1>8, <1>9, OpenedModes

\* The same words have the same checksum.
LEMMA SameChkval ==
  ASSUME NEW f, NEW g, NEW n, FrameOf(f, n), FrameOf(g, n), \A j \in 0 .. n : g[j] = f[j], Verified(f)
  PROVE  Verified(g)
<1>1. f = [j \in 0 .. n |-> f[j]] /\ g = [j \in 0 .. n |-> g[j]]
  BY DEF FrameOf
<1>2. f = g
  BY <1>1
<1> QED BY <1>2

\* CALLING_ACK under the key of the SDK is checked and tells the CALLING by its
\* number.
LEMMA AckAnswer ==
  ASSUME NEW key, NEW id, NEW w, NEW f, f = build_calling_ack(key, id, w)
  PROVE  /\ ~ IsResp(f) /\ IsAck(f)
         /\ Plain(id[1]) /\ Plain(w) => Verified(Opened(f, key)) /\ Opened(f, key)[3] = w
<1>0. Length(10)
  BY DEF Length
<1>28. PICK one, ip, port : one = Num(1) /\ ip = Val("doorbell ip") /\ port = Val("doorbell port")
  OBVIOUS
<1>1. PICK body : body = <<one, Zero, ip, port>>
  OBVIOUS
<1>2. PICK flags : flags = Nonce \cup Opt("enc2") \cup Opt("ack") \cup Opt("relay")
  OBVIOUS
<1>3. PICK e : e = Frame("CALLING", 10, id, w, Zero, flags, body)
  OBVIOUS
<1>4. PICK g : g = SetChkval(e)
  OBVIOUS
<1>5. PICK h : h = Ecb("enc", key, Ecb("enc", key, g, 6, Last(g)), 3, 4)
  OBVIOUS
<1>6. PICK i : i = Ecb("enc", GWELL_KEY, h, 1, 2)
  OBVIOUS
<1>7. f = XorId(i)
  BY <1>1, <1>2, <1>3, <1>4, <1>5, <1>6, <1>28 DEF build_calling_ack
<1>8. Words(e, "CALLING", 10, id, w, Zero, flags, body)
  BY <1>0, <1>3, FrameWords, Zenon
<1>9. /\ FrameOf(e, 10 - 1) /\ e[1] = id[1] /\ e[3] = w /\ e[5] = flags
      /\ e[6] = body[1] /\ e[8] = body[3]
  <2>2. 1 \in DOMAIN body /\ 3 \in DOMAIN body
    BY <1>1
  <2> QED BY <1>8, <2>2 DEF Words
<1>10. FrameOf(g, 10 - 1) /\ Same(e, g, 10 - 1, {4}) /\ Verified(g)
  BY <1>4, <1>9, ChkvalWords, ChkvalVerified
<1>11. g[1] = e[1] /\ g[3] = e[3] /\ g[5] = e[5] /\ g[6] = e[6] /\ g[8] = e[8]
  BY <1>10 DEF Same
<1>12. /\ FrameOf(h, 10 - 1) /\ h[0] = g[0] /\ h[1] = g[1] /\ h[2] = g[2] /\ h[5] = g[5]
       /\ Crypted("enc", key, g, h, 3) /\ BodyCrypted("enc", key, g, h, 10 - 1)
  BY <1>5, <1>10, Wrapped
<1>13. FrameOf(i, 10 - 1) /\ Crypted("enc", GWELL_KEY, h, i, 1) /\ Same(h, i, 10 - 1, {1, 2})
  BY <1>6, <1>12, IdWords
<1>14. /\ FrameOf(f, 10 - 1) /\ Same(i, f, 10 - 1, {1, 2})
       /\ f[1] = SymDiff(i[1], i[3]) /\ f[2] = SymDiff(i[2], i[4])
  BY <1>7, <1>13, XorIdWords
<1>15. \A j \in 0 .. 9 : j \notin {1, 2} => f[j] = h[j]
  BY <1>13, <1>14 DEF Same
<1>16. f[0] = g[0] /\ f[5] = g[5] /\ Crypted("enc", key, g, f, 3)
  BY <1>12, <1>15 DEF Crypted
<1>17. BodyCrypted("enc", key, g, f, 10 - 1)
  <2> SUFFICES ASSUME NEW j \in 6 .. (10 - 1) - 1, j % 2 = 0
               PROVE  Crypted("enc", key, g, f, j)
    BY DEF BodyCrypted
  <2>1. f[j] = h[j] /\ f[j + 1] = h[j + 1]
    BY <1>15
  <2> QED BY <1>12, <2>1 DEF BodyCrypted, Crypted
<1>18. ~ IsResp(f) /\ IsAck(f) /\ EncryptMode(f) = 2
  BY <1>2, <1>9, <1>11, <1>16, FlagSets
<1>19. PICK q : q = Opened(f, key)
  OBVIOUS
<1> SUFFICES ASSUME Plain(id[1]), Plain(w)
             PROVE  Verified(q) /\ q[3] = w
  BY <1>18, <1>19
<1>20. q = OpenedUnder(f, key)
  BY <1>18, <1>19, OpenedModes
<1>21. Plain(g[3])
  BY <1>9, <1>11
<1>22. /\ FrameOf(q, 10 - 1) /\ q[3] = g[3] /\ q[4] = g[4]
       /\ q[0] = f[0] /\ q[5] = f[5] /\ q[1] = OpenedId(f)[1] /\ q[2] = OpenedId(f)[2]
       /\ \A j \in 6 .. (10 - 1) - 1 : j % 2 = 0 /\ Plain(g[j]) => q[j] = g[j] /\ q[j + 1] = g[j + 1]
  BY <1>10, <1>14, <1>16, <1>17, <1>20, <1>21, OpenedWords
<1>23. Plain(g[6]) /\ Plain(g[8])
  <2>1. Plain(Num(1))
    BY PlainNum
  <2>2. Val("doorbell ip") = {<<"val", "doorbell ip">>} /\ <<"val", "doorbell ip">>[1] # "dec"
    BY DEF Val, Term
  <2>3. Plain(Val("doorbell ip"))
    BY <2>2 DEF Plain
  <2> QED BY <1>1, <1>9, <1>11, <1>28, <2>1, <2>3
<1>24. q[6] = g[6] /\ q[7] = g[7] /\ q[8] = g[8] /\ q[9] = g[9]
  <2>1. 6 \in 6 .. (10 - 1) - 1 /\ 8 \in 6 .. (10 - 1) - 1 /\ 6 % 2 = 0 /\ 8 % 2 = 0 /\ 6 + 1 = 7 /\ 8 + 1 = 9
    OBVIOUS
  <2> QED BY <1>22, <1>23, <2>1
<1>25. q[1] = g[1] /\ q[2] = g[2]
  <2>1. PICK x : x = XorId(f)
    OBVIOUS
  <2>2. x[1] = SymDiff(f[1], f[3]) /\ x[2] = SymDiff(f[2], f[4]) /\ FrameOf(x, 10 - 1)
    BY <1>14, <2>1, XorIdWords
  <2>3. f[3] = i[3] /\ f[4] = i[4]
    BY <1>14 DEF Same
  <2>4. x[1] = i[1] /\ x[2] = i[2]
    BY <1>14, <2>2, <2>3, XorTwice
  <2>5. PICK y : y = Ecb("dec", GWELL_KEY, x, 1, 2)
    OBVIOUS
  <2>6. Crypted("dec", GWELL_KEY, x, y, 1)
    BY <2>2, <2>5, IdWords
  <2>7. Crypted("dec", GWELL_KEY, i, y, 1)
    BY <2>4, <2>6 DEF Crypted
  <2>8. Plain(h[1])
    BY <1>9, <1>11, <1>12
  <2>9. y[1] = h[1] /\ y[1 + 1] = h[1 + 1]
    BY <1>13, <2>7, <2>8, CryptedBack
  <2>10. y = OpenedId(f)
    BY <2>1, <2>5 DEF OpenedId
  <2> QED BY <1>12, <1>22, <2>9, <2>10
<1>26. \A j \in 0 .. 10 - 1 : q[j] = g[j]
  <2>1. \A j \in 0 .. 10 - 1 : j \in {0, 1, 2, 3, 4, 5, 6, 7, 8, 9}
    OBVIOUS
  <2> QED BY <1>16, <1>22, <1>24, <1>25, <2>1
<1>27. Verified(q)
  BY <1>10, <1>22, <1>26, SameChkval
<1> QED BY <1>9, <1>11, <1>22, <1>27

-----------------------------------------------------------------------------
(* Keys and numbers                                                        *)

\* Sessions and server keys that differ make session keys that differ.
LEMMA MadeKeys ==
  ASSUME NEW s, NEW n
  PROVE  /\ MadeKey(s, n) # NoKey
         /\ \A t, m : MadeKey(s, n) = MadeKey(t, m) => s = t /\ n = m
<1>1. ASSUME NEW t, NEW m
      PROVE  /\ 1 \in DOMAIN MadeKey(t, m)
             /\ MadeKey(t, m)[1] = {<<"client key", t, 1>>, <<"server key", m, 1>>}
  <2>1. PICK c : c = ClientKey(t)
    OBVIOUS
  <2>2. PICK e : e = ServerKey(m)
    OBVIOUS
  <2>3. c[1] = {<<"client key", t, 1>>} /\ DOMAIN c = 1 .. 8
    <3>1. c = [j \in 1 .. 8 |-> {<<"client key", t, j>>}]
      BY <2>1 DEF ClientKey, Term
    <3>2. \A j \in 1 .. 8 : c[j] = {<<"client key", t, j>>}
      BY <3>1
    <3>3. DOMAIN c = 1 .. 8
      BY <3>1
    <3>4. PICK i \in 1 .. 8 : i = 1
      OBVIOUS
    <3>5. c[i] = {<<"client key", t, i>>}
      BY <3>2
    <3> QED BY <3>3, <3>4, <3>5
  <2>4. e[1] = {<<"server key", m, 1>>}
    <3>1. e = [j \in 1 .. 8 |-> {<<"server key", m, j>>}]
      BY <2>2 DEF ServerKey, Term
    <3>2. \A j \in 1 .. 8 : e[j] = {<<"server key", m, j>>}
      BY <3>1
    <3>3. PICK i \in 1 .. 8 : i = 1
      OBVIOUS
    <3>4. e[i] = {<<"server key", m, i>>}
      BY <3>2
    <3> QED BY <3>3, <3>4
  <2>5. MadeKey(t, m) = [j \in 1 .. 8 |-> SymDiff(c[j], e[j])]
    BY <2>1, <2>2, <2>3 DEF MadeKey, XorWords
  <2>6. MadeKey(t, m)[1] = SymDiff(c[1], e[1]) /\ 1 \in DOMAIN MadeKey(t, m)
    BY <2>5
  <2>7. <<"client key", t, 1>> # <<"server key", m, 1>>
    OBVIOUS
  <2> QED BY <2>3, <2>4, <2>6, <2>7 DEF SymDiff
<1>2. MadeKey(s, n) # NoKey
  <2>1. 1 \notin DOMAIN <<>>
    OBVIOUS
  <2> QED BY <1>1, <2>1 DEF NoKey
<1>3. ASSUME NEW t, NEW m, MadeKey(s, n) = MadeKey(t, m)
      PROVE  s = t /\ n = m
  <2>1. {<<"client key", s, 1>>, <<"server key", n, 1>>} = {<<"client key", t, 1>>, <<"server key", m, 1>>}
    BY <1>1, <1>3
  <2>2. <<"client key", s, 1>> = <<"client key", t, 1>> /\ <<"server key", n, 1>> = <<"server key", m, 1>>
    BY <2>1
  <2>3. <<"client key", s, 1>>[2] = s /\ <<"client key", t, 1>>[2] = t
        /\ <<"server key", n, 1>>[2] = n /\ <<"server key", m, 1>>[2] = m
    OBVIOUS
  <2> QED BY <2>2, <2>3
<1> QED BY <1>2, <1>3

\* The key made of what the SDK has received is the relay's.
LEMMA ReceivedKey ==
  ASSUME NEW s, NEW n, NEW f, ServerKeyIn(f, n)
  PROVE  XorWords(ClientKey(s), [j \in 1 .. 8 |-> Opened(f, NoKey)[8 + j]]) = MadeKey(s, n)
<1>1. PICK e : e = ServerKey(n)
  OBVIOUS
<1>2. e = [j \in 1 .. 8 |-> e[j]]
  BY <1>1, ServerKeyWords
<1>3. PICK q : q = Opened(f, NoKey)
  OBVIOUS
<1>4. \A j \in 1 .. 8 : q[8 + j] = e[j]
  BY <1>1, <1>3 DEF ServerKeyIn
<1>5. [j \in 1 .. 8 |-> q[8 + j]] = e
  BY <1>2, <1>4
<1> QED BY <1>1, <1>3, <1>5 DEF MadeKey

\* What StoreKey leaves.
Stored(keys, new, p, k) ==
  /\ OwnKeys(new, p) = {k}
  /\ \A q : q # p => OwnKeys(new, q) = OwnKeys(keys, q)
  /\ \A i \in DOMAIN new : new[i] = <<p, k>> \/ (i \in DOMAIN keys /\ new[i] = keys[i])
  /\ new # <<>> /\ new[1] = IF keys # <<>> /\ keys[1][1] # p THEN keys[1] ELSE <<p, k>>

\* The keys of a port.
LEMMA OwnKeysOf ==
  ASSUME NEW keys, NEW p, NEW k
  PROVE  k \in OwnKeys(keys, p) <=> \E j \in DOMAIN keys : keys[j][1] = p /\ keys[j][2] = k
BY DEF OwnKeys

\* StoreKey sets the key, or the id, of one port and leaves the others alone.
LEMMA StoreKeyKeys ==
  ASSUME NEW S, NEW keys \in Seq(Ports \X S), NEW p \in Ports, NEW k \in S,
         NEW new, new = StoreKey(keys, p, k)
  PROVE  new \in Seq(Ports \X S) /\ Stored(keys, new, p, k)
<1>0. <<p, k>> \in Ports \X S /\ <<p, k>>[1] = p /\ <<p, k>>[2] = k
  OBVIOUS
<1>1. DOMAIN keys = 1 .. Len(keys) /\ Len(keys) \in Nat
  BY LenProperties
<1>2. CASE OwnKeys(keys, p) = {}
  <2>1. new = Append(keys, <<p, k>>)
    BY <1>2 DEF StoreKey
  <2>2. /\ new \in Seq(Ports \X S) /\ Len(new) = Len(keys) + 1
        /\ new[Len(keys) + 1] = <<p, k>> /\ \A i \in 1 .. Len(keys) : new[i] = keys[i]
    BY <1>0, <2>1, AppendProperties
  <2>3. DOMAIN new = 1 .. Len(keys) + 1
    BY <2>2, LenProperties
  <2>4. \A i \in DOMAIN keys : keys[i][1] # p /\ i \in DOMAIN new /\ new[i] = keys[i]
    <3> SUFFICES ASSUME NEW i \in DOMAIN keys
                 PROVE  keys[i][1] # p /\ i \in DOMAIN new /\ new[i] = keys[i]
      OBVIOUS
    <3>1. keys[i][2] \notin OwnKeys(keys, p)
      BY <1>2
    <3>2. keys[i][1] # p
      BY <3>1, OwnKeysOf
    <3> QED BY <1>1, <2>2, <2>3, <3>2
  <2>5. \A i \in DOMAIN new : i \in DOMAIN keys \/ new[i] = <<p, k>>
    BY <1>1, <2>2, <2>3
  <2>6. \E i \in DOMAIN new : new[i] = <<p, k>>
    BY <1>1, <2>2, <2>3
  <2>7. OwnKeys(new, p) = {k}
    <3>1. ASSUME NEW x \in OwnKeys(new, p) PROVE x = k
      <4>1. PICK j \in DOMAIN new : new[j][1] = p /\ new[j][2] = x
        BY <3>1, OwnKeysOf
      <4> QED BY <1>0, <2>4, <2>5, <4>1
    <3>2. k \in OwnKeys(new, p)
      BY <1>0, <2>6, OwnKeysOf
    <3> QED BY <3>1, <3>2
  <2>8. ASSUME NEW q, q # p PROVE OwnKeys(new, q) = OwnKeys(keys, q)
    <3>1. ASSUME NEW x \in OwnKeys(new, q) PROVE x \in OwnKeys(keys, q)
      <4>1. PICK j \in DOMAIN new : new[j][1] = q /\ new[j][2] = x
        BY <3>1, OwnKeysOf
      <4>2. j \in DOMAIN keys /\ new[j] = keys[j]
        BY <1>0, <2>4, <2>5, <2>8, <4>1
      <4> QED BY <4>1, <4>2, OwnKeysOf
    <3>2. ASSUME NEW x \in OwnKeys(keys, q) PROVE x \in OwnKeys(new, q)
      <4>1. PICK j \in DOMAIN keys : keys[j][1] = q /\ keys[j][2] = x
        BY <3>2, OwnKeysOf
      <4> QED BY <2>4, <4>1, OwnKeysOf
    <3> QED BY <3>1, <3>2
  <2>9. \A i \in DOMAIN new : new[i] = <<p, k>> \/ (i \in DOMAIN keys /\ new[i] = keys[i])
    BY <2>4, <2>5
  <2>10. new # <<>> /\ new[1] = IF keys # <<>> /\ keys[1][1] # p THEN keys[1] ELSE <<p, k>>
    <3>1. new # <<>>
      BY <2>1, AppendProperties, <1>0
    <3>2. CASE keys = <<>>
      <4>1. Len(keys) = 0
        BY <3>2, EmptySeq
      <4> QED BY <2>2, <3>1, <3>2, <4>1
    <3>3. CASE keys # <<>>
      <4>1. 1 \in DOMAIN keys
        BY <1>1, <3>3, EmptySeq
      <4> QED BY <2>4, <3>1, <3>3, <4>1
    <3> QED BY <3>2, <3>3
  <2> QED BY <2>2, <2>7, <2>8, <2>9, <2>10 DEF Stored
<1>3. CASE OwnKeys(keys, p) # {}
  <2>1. new = [j \in DOMAIN keys |-> IF keys[j][1] = p THEN <<p, k>> ELSE keys[j]]
    BY <1>3 DEF StoreKey
  <2>2. /\ DOMAIN new = DOMAIN keys
        /\ \A i \in DOMAIN keys : new[i] = IF keys[i][1] = p THEN <<p, k>> ELSE keys[i]
    BY <2>1
  <2>3. new \in Seq(Ports \X S)
    <3>1. \A i \in 1 .. Len(keys) : keys[i] \in Ports \X S
      BY LenProperties
    <3>2. \A i \in 1 .. Len(keys) : new[i] \in Ports \X S
      BY <1>0, <1>1, <2>2, <3>1
    <3>3. new \in [1 .. Len(keys) -> Ports \X S]
      BY <1>1, <2>1, <3>2
    <3>4. Len(keys) \in Nat
      BY LenProperties
    <3> QED BY <3>3, <3>4, SeqDef
  <2>4. PICK j \in DOMAIN keys : keys[j][1] = p
    <3>1. PICK x : x \in OwnKeys(keys, p)
      BY <1>3
    <3> QED BY <3>1, OwnKeysOf
  <2>5. \A i \in DOMAIN keys : /\ new[i][1] = keys[i][1]
                               /\ keys[i][1] # p => new[i] = keys[i]
                               /\ keys[i][1] = p => new[i] = <<p, k>>
    BY <1>0, <2>2
  <2>6. OwnKeys(new, p) = {k}
    <3>1. ASSUME NEW x \in OwnKeys(new, p) PROVE x = k
      <4>1. PICK i \in DOMAIN new : new[i][1] = p /\ new[i][2] = x
        BY <3>1, OwnKeysOf
      <4> QED BY <1>0, <2>2, <2>5, <4>1
    <3>2. k \in OwnKeys(new, p)
      <4>1. j \in DOMAIN new /\ new[j] = <<p, k>>
        BY <2>2, <2>4, <2>5
      <4> QED BY <1>0, <4>1, OwnKeysOf
    <3> QED BY <3>1, <3>2
  <2>7. ASSUME NEW q, q # p PROVE OwnKeys(new, q) = OwnKeys(keys, q)
    <3>1. ASSUME NEW x PROVE x \in OwnKeys(new, q) <=> x \in OwnKeys(keys, q)
      <4>1. \A i \in DOMAIN keys : new[i][1] = q /\ new[i][2] = x <=> keys[i][1] = q /\ keys[i][2] = x
        BY <2>5, <2>7
      <4>2. (\E i \in DOMAIN new : new[i][1] = q /\ new[i][2] = x)
              <=> (\E i \in DOMAIN keys : keys[i][1] = q /\ keys[i][2] = x)
        BY <2>2, <4>1
      <4> QED BY <4>2, OwnKeysOf
    <3> QED BY <3>1
  <2>8. \A i \in DOMAIN new : new[i] = <<p, k>> \/ (i \in DOMAIN keys /\ new[i] = keys[i])
    BY <2>2
  <2>9. new # <<>> /\ new[1] = IF keys # <<>> /\ keys[1][1] # p THEN keys[1] ELSE <<p, k>>
    <3>1. 1 \in DOMAIN keys
      BY <1>1, <2>4
    <3>2. keys # <<>> /\ new # <<>>
      BY <2>2, <3>1
    <3> QED BY <2>2, <3>1, <3>2
  <2> QED BY <2>3, <2>6, <2>7, <2>8, <2>9 DEF Stored
<1> QED BY <1>2, <1>3

\* Where the relay looks for a key.
LEMMA KeysFound ==
  ASSUME NEW keys \in Seq(Ports \X AllKeys), NEW p
  PROVE  /\ OwnKeys(keys, p) # {} => KeyFor(keys, p) \in OwnKeys(keys, p)
         /\ OwnKeys(keys, p) = {} /\ keys # <<>> => KeyFor(keys, p) = keys[1][2] /\ 1 \in DOMAIN keys
         /\ keys = <<>> => KeyFor(keys, p) = NoKey
         /\ KeyFor(keys, p) \in SomeKey
<1>1. OwnKeys(keys, p) # {} => KeyFor(keys, p) \in OwnKeys(keys, p)
  <2>1. \A S : S # {} => (CHOOSE k \in S : TRUE) \in S
    OBVIOUS
  <2> QED BY <2>1 DEF KeyFor
<1>2. \A j \in DOMAIN keys : keys[j] \in Ports \X AllKeys
  OBVIOUS
<1>3. OwnKeys(keys, p) \subseteq AllKeys
  BY <1>2 DEF OwnKeys
<1>4. keys # <<>> => 1 \in DOMAIN keys
  OBVIOUS
<1>5. OwnKeys(keys, p) = {} /\ keys # <<>> => KeyFor(keys, p) = keys[1][2]
  BY DEF KeyFor
<1>6. keys = <<>> => KeyFor(keys, p) = NoKey
  <2>1. keys = <<>> => OwnKeys(keys, p) = {}
    BY DEF OwnKeys
  <2> QED BY <2>1 DEF KeyFor
<1>7. KeyFor(keys, p) \in SomeKey
  BY <1>1, <1>2, <1>3, <1>4, <1>5, <1>6 DEF SomeKey
<1> QED BY <1>1, <1>4, <1>5, <1>6, <1>7

\* The numbers of a session.
LEMMA Numbers ==
  ASSUME NEW s \in Nat
  PROVE  /\ Number(s, 0) = 10 * s /\ Number(s, 1) = 10 * s + 1 /\ Number(s, 2) = 10 * s + 2
         /\ Number(s, 3) = 10 * s + 3 /\ Number(s, 4) = 10 * s + 4 /\ Number(s, 5) = 10 * s + 6
         /\ Number(s, 6) = 10 * s + 8 /\ Number(s, 7) = 10 * s + 10
         /\ \A i \in 0 .. 7 : Number(s, i) \in Nat
         /\ \A i, j \in 1 .. 7 : Number(s, i) = Number(s, j) => i = j
<1>1. PICK t : t = <<0, 1, 2, 3, 4, 6, 8, 10>>
  OBVIOUS
<1>2. /\ t[1] = 0 /\ t[2] = 1 /\ t[3] = 2 /\ t[4] = 3 /\ t[5] = 4 /\ t[6] = 6 /\ t[7] = 8 /\ t[8] = 10
  BY <1>1
<1>3. \A i : Number(s, i) = 10 * s + t[i + 1]
  BY <1>1 DEF Number
<1>4. /\ Number(s, 0) = 10 * s /\ Number(s, 1) = 10 * s + 1 /\ Number(s, 2) = 10 * s + 2
      /\ Number(s, 3) = 10 * s + 3 /\ Number(s, 4) = 10 * s + 4 /\ Number(s, 5) = 10 * s + 6
      /\ Number(s, 6) = 10 * s + 8 /\ Number(s, 7) = 10 * s + 10
  BY <1>2, <1>3
<1>5. \A i \in 0 .. 7 : i \in {0, 1, 2, 3, 4, 5, 6, 7}
  OBVIOUS
<1>6. \A i \in 0 .. 7 : Number(s, i) \in Nat
  BY <1>4, <1>5
<1>7. \A i, j \in 1 .. 7 : Number(s, i) = Number(s, j) => i = j
  BY <1>4, <1>5
<1> QED BY <1>4, <1>6, <1>7

\* The kinds of requests and their order.
LEMMA Kind ==
  /\ Script[1] = "detect" /\ Script[2] = "list" /\ Script[3] = "certify" /\ Script[4] = "init"
  /\ Script[5] = "subscribe" /\ Script[6] = "ctl" /\ Script[7] = "calling" /\ Len(Script) = 7
  /\ \A i, j \in 1 .. 7 : Script[i] = Script[j] => i = j
  /\ \A i \in 1 .. 7 : Script[i] \in Kinds /\ Script[i] # "none"
<1>1. /\ Script[1] = "detect" /\ Script[2] = "list" /\ Script[3] = "certify" /\ Script[4] = "init"
      /\ Script[5] = "subscribe" /\ Script[6] = "ctl" /\ Script[7] = "calling" /\ Len(Script) = 7
  BY DEF Script
<1>2. \A i \in 1 .. 7 : i \in {1, 2, 3, 4, 5, 6, 7}
  OBVIOUS
<1>3. \A i, j \in 1 .. 7 : Script[i] = Script[j] => i = j
  BY <1>1, <1>2
<1>4. \A i \in 1 .. 7 : Script[i] # "none"
  BY <1>1, <1>2
<1> QED BY <1>1, <1>3, <1>4 DEF Kinds

-----------------------------------------------------------------------------
(* What the SDK makes of answers                                           *)

\* What the SDK accepts, for each kind of answer.
LEMMA AcceptCases ==
  ASSUME NEW r, NEW f, NEW key
  PROVE  /\ IsResp(f) /\ ~ IsAck(f) =>
              (Accepts(r, f, key) <=> r.kind \notin {"none", "list", "calling"} /\ Opened(f, key)[4] = Num(r.sq))
         /\ ~ IsResp(f) /\ IsAck(f) =>
              (Accepts(r, f, key) <=> r.kind = "calling" /\ Verified(Opened(f, key)) /\ Opened(f, key)[3] = Num(r.sq))
         /\ ~ IsResp(f) /\ ~ IsAck(f) =>
              (Accepts(r, f, key) <=>
                 /\ Verified(Opened(f, key))
                 /\ \/ r.kind = "list" /\ Opened(f, key)[0] = Term(<<"hdr", "LIST_RESP", 17>>)
                    \/ r.kind = "calling" /\ Opened(f, key)[7] = LinkId(r.session))
<1>1. ASSUME IsResp(f), ~ IsAck(f)
      PROVE  Accepts(r, f, key) <=> r.kind \notin {"none", "list", "calling"} /\ Opened(f, key)[4] = Num(r.sq)
  BY <1>1 DEF Accepts
<1>2. ASSUME ~ IsResp(f), IsAck(f)
      PROVE  Accepts(r, f, key) <=> r.kind = "calling" /\ Verified(Opened(f, key)) /\ Opened(f, key)[3] = Num(r.sq)
  BY <1>2 DEF Accepts
<1>3. ASSUME ~ IsResp(f), ~ IsAck(f)
      PROVE  Accepts(r, f, key) <=>
                 /\ Verified(Opened(f, key))
                 /\ \/ r.kind = "list" /\ Opened(f, key)[0] = Term(<<"hdr", "LIST_RESP", 17>>)
                    \/ r.kind = "calling" /\ Opened(f, key)[7] = LinkId(r.session)
  BY <1>3 DEF Accepts
<1> QED BY <1>1, <1>2, <1>3

\* A numbered answer is taken by the request with that number.
LEMMA RespTaken ==
  ASSUME NEW r, NEW f, NEW w, Resp(f, w), NEW key
  PROVE  Accepts(r, f, key) <=> r.kind \notin {"none", "list", "calling"} /\ w = Num(r.sq)
<1>1. EncryptMode(f) \in {0, 1, 2}
  BY DEF EncryptMode
<1>2. Opened(f, key) = Opened(f, NoKey)
  BY <1>1, OpenedModes DEF Resp
<1> QED BY <1>2, AcceptCases DEF Resp

\* The kinds of requests.
LEMMA SomeKind ==
  ASSUME NEW k \in Kinds
  PROVE  k \in {"detect", "list", "certify", "init", "subscribe", "ctl", "calling"}
BY DEF Kinds, Script

\* A request is known by session and number.
LEMMA SameRequest ==
  ASSUME TypeInv, SdkInv, NEW r \in sent, NEW q \in sent, r.session = q.session, r.sq = q.sq
  PROVE  r = q
<1>1. PICK i \in 1 .. 7 : Asked(r, i)
  BY DEF SdkInv
<1>2. PICK j \in 1 .. 7 : Asked(q, j)
  BY DEF SdkInv
<1>3. r.session \in Nat
  BY DEF TypeInv, Requests
<1>4. Number(r.session, i) = Number(r.session, j)
  BY <1>1, <1>2 DEF Asked
<1>5. i = j
  BY <1>3, <1>4, Numbers
<1> QED BY <1>1, <1>2, <1>5 DEF Asked, SdkInv

\* The request the SDK waits for an answer to.
LEMMA Waiting ==
  ASSUME TypeInv, SdkInv, sdk.request # NoRequest
  PROVE  /\ sdk.request \in sent /\ sdk.step \in 1 .. 7 /\ sdk.request.kind = Script[sdk.step]
         /\ sdk.request.session = sdk.session /\ Asked(sdk.request, sdk.step)
<1>1. sdk.request \in sent /\ sdk.step \in 1 .. 7 /\ sdk.request.session = sdk.session
      /\ sdk.request.kind = Script[sdk.step]
  BY DEF TypeInv, SdkInv
<1>2. PICK i \in 1 .. 7 : Asked(sdk.request, i)
  BY <1>1 DEF SdkInv
<1>3. i = sdk.step
  BY <1>1, <1>2, Kind DEF Asked
<1> QED BY <1>1, <1>2, <1>3

\* A request of the running session.
LEMMA Current ==
  ASSUME TypeInv, SdkInv, NEW r \in sent, r.session = sdk.session
  PROVE  \E i \in 1 .. 7 : /\ Asked(r, i) /\ r.kind = Script[i] /\ i <= sdk.step /\ i \in Nat
                           /\ (i < sdk.step \/ r = sdk.request)
                           /\ (i < 7 => r.port = sdk.port)
                           /\ (i >= 4 => r.key = sdk.key)
<1>1. PICK i \in 1 .. 7 : Asked(r, i)
  BY DEF SdkInv
<1>2. sdk.step \in 1 .. 8
  BY DEF TypeInv
<1> QED BY <1>1, <1>2 DEF Asked

\* The SDK takes answers for what they are: always while it waits for that to
\* CERTIFY, afterwards if no prediction was shifted.
LEMMA Taken ==
  ASSUME TypeInv, SdkInv, AnswerInv, NEW a \in answers, Accepts(sdk.request, a.frame, sdk.key)
  PROVE  /\ sdk.request # NoRequest
         /\ ~ shifted \/ sdk.request.kind = "certify" => a.to = sdk.request
<1>1. PICK r : r = sdk.request
  OBVIOUS
<1>2. PICK b : b = a.to
  OBVIOUS
<1>3. PICK f : f = a.frame
  OBVIOUS
<1>4. b \in done /\ b \in sent /\ b.session = sdk.session /\ Answer(b, f) /\ b.kind \in Kinds
  BY <1>2, <1>3 DEF AnswerInv, TypeInv, Requests
<1>5. Accepts(r, f, sdk.key)
  BY <1>1, <1>3
<1>6. PICK j \in 1 .. 7 : Asked(b, j) /\ b.kind = Script[j] /\ j <= sdk.step
  BY <1>4, Current
<1>7. CASE b.kind \in {"detect", "certify"}
  <2>1. Resp(f, Num(b.sq))
    BY <1>4, <1>7 DEF Answer
  <2>2. r.kind \notin {"none", "list", "calling"} /\ Num(b.sq) = Num(r.sq)
    BY <1>5, <2>1, RespTaken
  <2>3. b.sq = r.sq /\ r # NoRequest
    BY <2>2, PlainNum DEF NoRequest
  <2> QED BY <1>1, <1>2, <1>4, <2>3, Waiting, SameRequest
<1>8. CASE b.kind = "list"
  <2>1. f = build_list_resp
    BY <1>4, <1>8 DEF Answer
  <2>2. r.kind = "list"
    BY <1>5, <2>1, ListAnswer, AcceptCases
  <2>3. r # NoRequest
    BY <2>2 DEF NoRequest
  <2> QED BY <1>1, <1>2, <1>4, <1>8, <2>2, <2>3, Waiting DEF SdkInv
<1>9. CASE b.kind = "init"
  <2>1. PICK w : Resp(f, w) /\ (w = Num(b.sq) \/ Noise(w))
    BY <1>4, <1>9 DEF Answer
  <2>2. r.kind \notin {"none", "list", "calling"} /\ w = Num(r.sq)
    BY <1>5, <2>1, RespTaken
  <2>3. b.sq = r.sq /\ r # NoRequest
    BY <2>1, <2>2, PlainNum DEF NoRequest
  <2> QED BY <1>1, <1>2, <1>4, <2>3, Waiting, SameRequest
<1>10. CASE b.kind \in {"subscribe", "ctl"}
  <2>1. PICK x \in Nat : Resp(f, Num(x)) /\ (~ shifted => x = b.sq)
    BY <1>4, <1>10 DEF Answer
  <2>2. r.kind \notin {"none", "list", "calling"} /\ Num(x) = Num(r.sq)
    BY <1>5, <2>1, RespTaken
  <2>3. x = r.sq /\ r # NoRequest
    BY <2>2, PlainNum DEF NoRequest
  <2>4. j \in {5, 6}
    <3>1. j \in {1, 2, 3, 4, 5, 6, 7}
      OBVIOUS
    <3> QED BY <1>6, <1>10, <3>1, Kind
  <2>5. sdk.step # 3
    BY <1>6, <2>4
  <2>6. r.kind # "certify"
    BY <1>1, <2>3, <2>5, Waiting, Kind
  <2> QED BY <1>1, <1>2, <1>4, <2>1, <2>3, <2>6, Waiting, SameRequest
<1>11. CASE b.kind = "calling"
  <2>1. j = 7
    <3>1. Script[j] = Script[7] /\ 7 \in 1 .. 7
      BY <1>6, <1>11, Kind
    <3> QED BY <3>1, Kind
  <2>2. ~ IsResp(f)
    BY <1>4, <1>11 DEF Answer
  <2>3. r.kind \in {"list", "calling"}
    BY <1>5, <2>2, AcceptCases
  <2>4. r # NoRequest
    BY <2>3 DEF NoRequest
  <2>5. sdk.step # 2
    BY <1>6, <2>1
  <2>6. r.kind = "calling"
    BY <1>1, <2>3, <2>4, <2>5, Waiting, Kind
  <2> QED BY <1>1, <1>2, <1>4, <1>11, <2>4, <2>6, Waiting DEF SdkInv
<1> QED BY <1>4, <1>7, <1>8, <1>9, <1>10, <1>11, SomeKind

-----------------------------------------------------------------------------
(* The steps of the SDK                                                    *)

\* The invariant holds at the start.
LEMMA Start ==
  ASSUME Init
  PROVE  IndInv
<1> USE DEF Init
<1>1. TypeInv
  <2>1. NoKey \in SomeKey /\ CallPort \in Ports /\ 1 \in 1 .. 8
    BY PortsAssumption DEF SomeKey
  <2>2. sdk \in [session : Nat, port : Ports, key : SomeKey, sq : Nat, step : 1 .. 8,
                 request : Requests \cup {NoRequest}]
    BY <2>1
  <2>3. captured \in SomeKey /\ addr_last_sqnum \in [Ports -> Nat] /\ served \in Nat
        /\ addr_session_keys \in Seq(Ports \X AllKeys)
    BY <2>1
  <2> QED BY <2>2, <2>3 DEF TypeInv
<1>2. SdkInv
  <2>1. sdk.session = 0 /\ sdk.step = 1 /\ sdk.request = NoRequest /\ sdk.sq = 0 /\ sdk.key = NoKey
    OBVIOUS
  <2>2. 1 - 1 = 0 /\ Number(0, 0) = 0
    BY Numbers
  <2> QED BY <2>1, <2>2 DEF SdkInv
<1>3. \A p : OwnKeys(addr_session_keys, p) = {}
  BY DEF OwnKeys
<1>4. KeyInv
  BY <1>3 DEF KeyInv, Has
<1>5. NumberInv
  BY <1>1, PortsAssumption DEF NumberInv, Has, TypeInv
<1>7. IdInv
  BY DEF IdInv
<1> QED BY <1>1, <1>2, <1>4, <1>5, <1>7 DEF IndInv, AnswerInv, MisreadInv

\* The step after a number.
LEMMA NextNumber ==
  ASSUME NEW s \in Nat, NEW i \in 1 .. 7
  PROVE  Number(s, i) = IF i > 4 THEN Number(s, i - 1) + 2 ELSE Number(s, i - 1) + 1
<1>1. i \in {1, 2, 3, 4, 5, 6, 7}
  OBVIOUS
<1>2. 1 - 1 = 0 /\ 2 - 1 = 1 /\ 3 - 1 = 2 /\ 4 - 1 = 3 /\ 5 - 1 = 4 /\ 6 - 1 = 5 /\ 7 - 1 = 6
  OBVIOUS
<1>5. /\ Number(s, 0) = 10 * s /\ Number(s, 1) = 10 * s + 1 /\ Number(s, 2) = 10 * s + 2
      /\ Number(s, 3) = 10 * s + 3 /\ Number(s, 4) = 10 * s + 4 /\ Number(s, 5) = 10 * s + 6
      /\ Number(s, 6) = 10 * s + 8 /\ Number(s, 7) = 10 * s + 10
  BY Numbers
<1>3. CASE i <= 4
  <2>1. i \in {1, 2, 3, 4} /\ ~ (i > 4)
    BY <1>1, <1>3
  <2>2. CASE i = 1 \/ i = 2
    BY <1>2, <1>5, <2>1, <2>2
  <2>3. CASE i = 3 \/ i = 4
    BY <1>2, <1>5, <2>1, <2>3
  <2> QED BY <2>1, <2>2, <2>3
<1>4. CASE i > 4
  <2>1. i \in {5, 6, 7}
    BY <1>1, <1>4
  <2> QED BY <1>2, <2>1, Numbers
<1> QED BY <1>3, <1>4

\* A request of the SDK keeps the invariant.
LEMMA AskStep ==
  ASSUME IndInv, Ask
  PROVE  IndInv'
<1> USE DEF IndInv
<1>1. PICK p, r :
        /\ p \in Ports
        /\ p = sdk.port \/ (p = CallPort /\ Script[sdk.step] = "calling")
        /\ r = [kind |-> Script[sdk.step], port |-> p, session |-> sdk.session, key |-> sdk.key,
                sq |-> IF sdk.step > 4 THEN sdk.sq + 2 ELSE sdk.sq + 1]
        /\ sdk' = [sdk EXCEPT !.request = r, !.sq = r.sq]
        /\ sent' = sent \cup {r}
  BY PortsAssumption DEF Ask, TypeInv
<1>2. sdk.session > 0 /\ sdk.request = NoRequest /\ sdk.step \in 1 .. 7
  BY Kind DEF Ask, TypeInv
<1>3. UNCHANGED <<hook, captured, relayVars, done, repeats, answers, history>>
  BY DEF Ask
<1>4. /\ r.kind = Script[sdk.step] /\ r.port = p /\ r.session = sdk.session /\ r.key = sdk.key
      /\ r.sq = IF sdk.step > 4 THEN sdk.sq + 2 ELSE sdk.sq + 1
  BY <1>1
<1>5. sdk.session \in Nat /\ sdk.sq \in Nat /\ sdk.key \in SomeKey
  BY DEF TypeInv
<1>6. r.sq = Number(sdk.session, sdk.step) /\ r.sq \in Nat
  BY <1>2, <1>4, <1>5, NextNumber DEF SdkInv
<1>7. r \in Requests
  BY <1>1, <1>2, <1>4, <1>5, <1>6, Kind DEF Requests
<1>8. /\ sdk'.session = sdk.session /\ sdk'.port = sdk.port /\ sdk'.key = sdk.key /\ sdk'.step = sdk.step
      /\ sdk'.request = r /\ sdk'.sq = r.sq
      /\ sdk' \in [session : Nat, port : Ports, key : SomeKey, sq : Nat, step : 1 .. 8,
                   request : Requests \cup {NoRequest}]
  BY <1>1, <1>6, <1>7 DEF TypeInv
<1>9. TypeInv'
  BY <1>1, <1>3, <1>7, <1>8 DEF TypeInv, relayVars, history
<1>10. r # NoRequest
  BY <1>2, <1>4, Kind DEF NoRequest
<1>11. Asked(r, sdk.step)'
  <2>1. sdk.step >= 4 => sdk.key # NoKey
    BY MadeKeys DEF SdkInv
  <2>2. r.port = CallPort => sdk.step = 7
    BY <1>1, <1>2, <1>4, Kind DEF SdkInv
  <2>3. r.session \in 1 .. sdk'.session
    BY <1>2, <1>4, <1>5, <1>8
  <2> QED BY <1>1, <1>4, <1>6, <1>8, <2>1, <2>2, <2>3 DEF Asked
<1>12. \A q \in sent : \A i \in 1 .. 7 : Asked(q, i) => Asked(q, i)' /\ (q.session = sdk.session => i < sdk.step)
  <2> SUFFICES ASSUME NEW q \in sent, NEW i \in 1 .. 7, Asked(q, i)
               PROVE  Asked(q, i)' /\ (q.session = sdk.session => i < sdk.step)
    OBVIOUS
  <2>1. q # NoRequest
    BY <1>2, Kind DEF Asked, NoRequest
  <2> QED BY <1>2, <1>8, <2>1 DEF Asked
<1>13. SdkInv'
  <2>1. \A q \in sent' : \E i \in 1 .. 7 : Asked(q, i)'
    BY <1>1, <1>2, <1>11, <1>12 DEF SdkInv
  <2>2. \A q \in sent : ~ (q.session = r.session /\ q.kind = r.kind)
    <3> SUFFICES ASSUME NEW q \in sent, q.session = r.session, q.kind = r.kind PROVE FALSE
      OBVIOUS
    <3>1. PICK i \in 1 .. 7 : Asked(q, i)
      BY DEF SdkInv
    <3>2. i < sdk.step /\ Script[i] = Script[sdk.step]
      BY <1>4, <1>12, <3>1 DEF Asked
    <3> QED BY <1>2, <3>2, Kind
  <2>3. \A q, t \in sent' : q.session = t.session /\ q.kind = t.kind => q = t
    BY <1>1, <2>2 DEF SdkInv
  <2>4. served' = served
    BY <1>3 DEF relayVars
  <2> QED BY <1>1, <1>2, <1>4, <1>6, <1>8, <1>10, <2>1, <2>3, <2>4 DEF SdkInv
<1>14. KeyInv'
  <2>1. captured' = captured /\ hook' = hook /\ addr_session_keys' = addr_session_keys /\ done' = done /\ twice' = twice
    BY <1>3 DEF relayVars, history
  <2>2. Has(3)' <=> Has(3)
    BY <1>8, <2>1 DEF Has
  <2>3. hook /\ r.key # NoKey => captured # NoKey
    BY <1>4 DEF KeyInv, SdkInv, TypeInv
  <2> QED BY <1>1, <1>8, <2>1, <2>2, <2>3 DEF KeyInv
<1>15. AnswerInv'
  <2>1. UNCHANGED <<answers, done, served, twice, addr_session_keys, shifted>>
    BY <1>3 DEF relayVars, history
  <2> QED BY <1>8, <2>1 DEF AnswerInv, Answer
<1>16. NumberInv'
  <2>1. UNCHANGED <<answers, done, shifted, mismatched, addr_last_sqnum>>
    BY <1>3 DEF relayVars, history
  <2>2. \A i : (Has(i)' <=> Has(i)) /\ (NumberIs(i)' <=> NumberIs(i))
    BY <1>8, <2>1 DEF Has, NumberIs
  <2>3. \A q \in sent : q \in sent'
    BY <1>1
  <2> QED BY <1>8, <2>1, <2>2, <2>3 DEF NumberInv
<1>17. IdInv' /\ MisreadInv'
  BY <1>3 DEF IdInv, MisreadInv, relayVars, history
<1> QED BY <1>9, <1>13, <1>14, <1>15, <1>16, <1>17

\* An answer the SDK receives keeps the invariant.
LEMMA ReceiveStep ==
  ASSUME IndInv, Receive
  PROVE  IndInv'
<1> USE DEF IndInv
<1>0. PICK r : r = sdk.request
  OBVIOUS
<1> DEFINE Key(a) == IF r.kind # "certify" THEN sdk.key
                     ELSE XorWords(ClientKey(sdk.session), [j \in 1 .. 8 |-> Opened(a.frame, sdk.key)[8 + j]])
<1>1. PICK a \in answers :
        /\ answers' = answers \ {a}
        /\ IF Accepts(r, a.frame, sdk.key)
           THEN /\ sdk' = IF IsAck(a.frame) THEN sdk
                          ELSE [sdk EXCEPT !.request = NoRequest, !.step = @ + 1, !.key = Key(a)]
                /\ captured' = IF hook /\ r.kind = "certify" THEN Key(a) ELSE captured
                /\ mismatched' = (mismatched \/ a.to # r)
           ELSE UNCHANGED <<sdk, captured, mismatched>>
        /\ UNCHANGED <<hook, relayVars, sent, done, repeats, shifted, twice, misread>>
  BY <1>0 DEF Receive
<1>6. PICK key : key = Key(a)
  OBVIOUS
<1> HIDE DEF Key
<1>2. UNCHANGED <<hook, addr_session_keys, addr_session_id, addr_last_sqnum, known, served,
                  sent, done, shifted, twice, misread>>
  BY <1>1 DEF relayVars
<1>3. IdInv'
  BY <1>2 DEF IdInv
<1>4. CASE ~ Accepts(r, a.frame, sdk.key)
  <2>1. UNCHANGED <<sdk, captured, mismatched>> /\ answers' \subseteq answers
    BY <1>1, <1>4
  <2>2. TypeInv' /\ SdkInv' /\ MisreadInv'
    BY <1>2, <2>1 DEF TypeInv, SdkInv, Asked, MisreadInv
  <2>3. \A i : (Has(i)' <=> Has(i)) /\ (NumberIs(i)' <=> NumberIs(i))
    BY <1>2, <2>1 DEF Has, NumberIs
  <2>4. KeyInv'
    BY <1>2, <2>1, <2>3 DEF KeyInv
  <2>5. AnswerInv'
    BY <1>2, <2>1 DEF AnswerInv, Answer
  <2>6. NumberInv'
    BY <1>2, <2>1, <2>3 DEF NumberInv
  <2> QED BY <1>3, <2>2, <2>4, <2>5, <2>6
<1>5. CASE Accepts(r, a.frame, sdk.key)
  <2>1. /\ r # NoRequest
        /\ ~ shifted \/ r.kind = "certify" => a.to = r
    BY <1>0, <1>5, Taken
  <2>2. /\ r \in sent /\ sdk.step \in 1 .. 7 /\ r.kind = Script[sdk.step] /\ r.session = sdk.session
        /\ Asked(r, sdk.step)
    BY <1>0, <2>1, Waiting
  <2>3. answers' \subseteq answers
    BY <1>1
  <2>4. a.to \in done /\ Answer(a.to, a.frame)
    BY DEF AnswerInv
  <2>5. ASSUME sdk.step = 3
        PROVE  /\ r.kind = "certify" /\ sdk.key = NoKey /\ a.to = r
               /\ \E n \in 1 .. served :
                    /\ key = MadeKey(sdk.session, n)
                    /\ sdk.session \notin twice => OwnKeys(addr_session_keys, sdk.port) = {key}
    <3>1. r.kind = "certify" /\ sdk.key = NoKey /\ a.to = r
      BY <2>1, <2>2, <2>5, Kind DEF SdkInv
    <3>2. PICK n \in 1 .. served :
            /\ ServerKeyIn(a.frame, n)
            /\ r.session \notin twice => OwnKeys(addr_session_keys, r.port) = {MadeKey(r.session, n)}
      BY <2>4, <3>1 DEF Answer
    <3>3. key = MadeKey(sdk.session, n)
      BY <1>6, <3>1, <3>2, ReceivedKey DEF Key
    <3>4. r.port = sdk.port
      <4>1. r.port \in {sdk.port, CallPort} /\ r.port # CallPort
        BY <2>2, <2>5 DEF Asked
      <4> QED BY <4>1
    <3> QED BY <2>2, <3>1, <3>2, <3>3, <3>4
  <2>6. sdk.step # 3 => r.kind # "certify" /\ key = sdk.key
    <3>1. sdk.step # 3 => r.kind # "certify"
      BY <2>2, Kind
    <3> QED BY <1>6, <3>1 DEF Key
  <2>7. served \in Nat /\ sdk.session \in Nat
    BY DEF TypeInv
  <2>8. key \in SomeKey
    <3>1. sdk.step = 3 => key \in AllKeys
      BY <2>5, <2>7 DEF AllKeys
    <3> QED BY <2>6, <3>1 DEF SomeKey, TypeInv
  <2>9. mismatched' = (mismatched \/ a.to # r)
    BY <1>1, <1>5
  <2>10. captured' = IF hook /\ sdk.step = 3 THEN key ELSE captured
    BY <1>1, <1>5, <1>6, <2>5, <2>6
  <2>11. /\ sdk'.session = sdk.session /\ sdk'.port = sdk.port /\ sdk'.sq = sdk.sq
         /\ sdk' = sdk \/ (sdk'.request = NoRequest /\ sdk'.step = sdk.step + 1 /\ sdk'.key = key)
         /\ sdk' \in [session : Nat, port : Ports, key : SomeKey, sq : Nat, step : 1 .. 8,
                      request : Requests \cup {NoRequest}]
    <3>1. CASE IsAck(a.frame)
      <4>1. sdk' = sdk
        BY <1>1, <1>5, <3>1
      <4> QED BY <4>1 DEF TypeInv
    <3>2. CASE ~ IsAck(a.frame)
      <4>1. sdk' = [sdk EXCEPT !.request = NoRequest, !.step = @ + 1, !.key = key]
        BY <1>1, <1>5, <1>6, <3>2
      <4>2. sdk.step + 1 \in 1 .. 8
        BY <2>2
      <4> QED BY <2>8, <4>1, <4>2 DEF TypeInv
    <3> QED BY <3>1, <3>2
  <2>12. TypeInv'
    <3>1. captured' \in SomeKey /\ mismatched' \in BOOLEAN
      BY <2>8, <2>9, <2>10 DEF TypeInv
    <3> QED BY <1>2, <2>11, <3>1 DEF TypeInv
  <2>13. sdk.step # 3 => sdk'.key = sdk.key
    BY <2>6, <2>11
  <2>14. \A q \in sent : \A i \in 1 .. 7 : Asked(q, i) => Asked(q, i)'
    <3> SUFFICES ASSUME NEW q \in sent, NEW i \in 1 .. 7, Asked(q, i) PROVE Asked(q, i)'
      OBVIOUS
    <3>1. q.session = sdk.session => i <= sdk.step
      BY <2>2 DEF Asked
    <3>2. q.session = sdk.session /\ i >= 4 => q.key = sdk'.key
      BY <2>2, <2>13, <3>1 DEF Asked
    <3>3. q.session = sdk.session => i < sdk'.step \/ (i = sdk'.step /\ q = sdk'.request)
      BY <2>2, <2>11, <3>1 DEF Asked
    <3> QED BY <2>11, <3>2, <3>3 DEF Asked
  <2>15. SdkInv'
    <3>1. sdk' = sdk => SdkInv'
      BY <1>2, <2>14 DEF SdkInv
    <3>2. CASE sdk'.request = NoRequest /\ sdk'.step = sdk.step + 1 /\ sdk'.key = key
      <4>1. sdk.session > 0 /\ sdk.session # 0
        BY <1>0, <2>1, <2>2, <2>7 DEF SdkInv
      <4>2. sdk'.step <= 3 => sdk'.key = NoKey
        BY <2>2, <2>13, <3>2 DEF SdkInv
      <4>3. sdk'.step >= 4 => \E n \in 1 .. served' : sdk'.key = MadeKey(sdk'.session, n)
        <5>1. CASE sdk.step = 3
          BY <1>2, <2>5, <2>11, <3>2, <5>1
        <5>2. CASE sdk.step # 3
          <6>1. sdk'.step >= 4 => sdk.step >= 4
            BY <2>2, <3>2, <5>2
          <6> QED BY <1>2, <2>11, <2>13, <5>2, <6>1 DEF SdkInv
        <5> QED BY <5>1, <5>2
      <4>4. sdk'.sq = Number(sdk'.session, sdk'.step - 1)
        <5>1. sdk'.step - 1 = sdk.step
          BY <2>2, <3>2
        <5> QED BY <1>0, <2>1, <2>11, <5>1 DEF SdkInv
      <4>5. \A q \in sent' : \E i \in 1 .. 7 : Asked(q, i)'
        BY <1>2, <2>14 DEF SdkInv
      <4>6. \A q, t \in sent' : q.session = t.session /\ q.kind = t.kind => q = t
        BY <1>2 DEF SdkInv
      <4>7. sdk'.port # CallPort
        BY <2>11, <4>1 DEF SdkInv
      <4> QED BY <2>11, <3>2, <4>1, <4>2, <4>3, <4>4, <4>5, <4>6, <4>7 DEF SdkInv
    <3> QED BY <2>11, <3>1, <3>2
  <2>16. \A i : (Has(i)' <=> Has(i)) /\ (NumberIs(i)' <=> NumberIs(i))
    BY <1>2, <2>11 DEF Has, NumberIs
  <2>17. KeyInv'
    <3>1. sdk.step = 3 => Has(3) /\ key # NoKey
      BY <2>2, <2>4, <2>5, MadeKeys, Kind DEF Has
    <3>2. ~ hook' => captured' = NoKey /\ OwnKeys(addr_session_keys', CallPort) = {}
      BY <1>2, <2>10 DEF KeyInv
    <3>3. hook' /\ sdk'.step >= 4 => captured' = sdk'.key
      BY <1>2, <2>2, <2>10, <2>11, <2>13, <3>1 DEF KeyInv
    <3>4. hook' => \A q \in sent' : q.key # NoKey => captured' # NoKey
      BY <1>2, <2>10, <3>1 DEF KeyInv
    <3>5. sdk'.step >= 4 => Has(3)'
      BY <2>2, <2>11, <2>16, <3>1 DEF KeyInv
    <3>6. sdk'.session \notin twice' /\ sdk'.step >= 4 => OwnKeys(addr_session_keys', sdk'.port) = {sdk'.key}
      <4>1. CASE sdk.step = 3
        BY <1>2, <2>5, <2>11, <4>1
      <4>2. CASE sdk.step # 3
        BY <1>2, <2>2, <2>11, <2>13, <4>2 DEF KeyInv
      <4> QED BY <4>1, <4>2
    <3> QED BY <1>2, <2>11, <2>16, <3>2, <3>3, <3>4, <3>5, <3>6 DEF KeyInv
  <2>18. AnswerInv'
    <3> SUFFICES ASSUME NEW b \in answers'
                 PROVE  b.to \in done' /\ b.to.session = sdk'.session /\ Answer(b.to, b.frame)'
      BY DEF AnswerInv
    <3>1. b \in answers /\ b.to \in sent /\ b.to.session = sdk.session /\ Answer(b.to, b.frame)
      BY <2>3 DEF AnswerInv, TypeInv
    <3>2. b.to.kind = "calling" => sdk'.key = sdk.key
      <4>1. PICK i \in 1 .. 7 : b.to.kind = Script[i] /\ i <= sdk.step
        BY <3>1, Current
      <4>2. b.to.kind = "calling" => i = 7
        <5>1. b.to.kind = "calling" => Script[i] = Script[7] /\ 7 \in 1 .. 7
          BY <4>1, Kind
        <5> QED BY <5>1, Kind
      <4> QED BY <2>2, <2>13, <4>1, <4>2
    <3> QED BY <1>2, <2>11, <3>1, <3>2 DEF Answer, AnswerInv
  <2>19. NumberInv'
    <3> SUFFICES ASSUME ~ shifted
                 PROVE  /\ ~ mismatched'
                        /\ \A i \in 1 .. 7 : i < sdk'.step => Has(i)
                        /\ Has(4) /\ ~ Has(5) /\ sdk'.step >= 5 => NumberIs(4)
      BY <1>2, <2>3, <2>11, <2>16 DEF NumberInv
    <3>1. a.to = r /\ Has(sdk.step)
      BY <2>1, <2>2, <2>4 DEF Has
    <3>2. \A i \in 1 .. 7 : i < sdk'.step => Has(i)
      BY <2>2, <2>11, <3>1 DEF NumberInv
    <3>3. ASSUME Has(4), ~ Has(5), sdk'.step >= 5
          PROVE  NumberIs(4)
      <4>1. CASE sdk.step >= 5
        BY <3>3, <4>1 DEF NumberInv
      <4>2. CASE sdk.step = 4
        <5>1. r.kind = "init"
          BY <2>2, <4>2, Kind
        <5>2. PICK w : Resp(a.frame, w) /\ (w = Num(r.sq) \/ Noise(w))
          BY <2>4, <3>1, <5>1 DEF Answer
        <5>3. w = Num(r.sq)
          BY <1>5, <5>2, RespTaken
        <5> QED BY <3>1, <3>3, <5>1, <5>2, <5>3 DEF NumberInv
      <4> QED BY <2>2, <2>11, <3>3, <4>1, <4>2
    <3> QED BY <2>9, <3>1, <3>2, <3>3 DEF NumberInv
  <2>20. MisreadInv'
    BY <1>2 DEF MisreadInv
  <2> QED BY <1>3, <2>12, <2>15, <2>17, <2>18, <2>19, <2>20
<1> QED BY <1>4, <1>5

\* A lost answer keeps the invariant.
LEMMA LoseStep ==
  ASSUME IndInv, Lose \/ UNCHANGED vars
  PROVE  IndInv'
<1> USE DEF IndInv
<1>1. UNCHANGED <<sdk, hook, captured, relayVars, sent, done, history>> /\ answers' \subseteq answers
  BY DEF Lose, vars
<1>2. UNCHANGED <<addr_session_keys, addr_session_id, addr_last_sqnum, known, served,
                  shifted, twice, mismatched, misread>>
  BY <1>1 DEF relayVars, history
<1>3. TypeInv' /\ SdkInv' /\ MisreadInv' /\ IdInv'
  BY <1>1, <1>2 DEF TypeInv, SdkInv, Asked, MisreadInv, IdInv
<1>4. \A i : (Has(i)' <=> Has(i)) /\ (NumberIs(i)' <=> NumberIs(i))
  BY <1>1, <1>2 DEF Has, NumberIs
<1>5. KeyInv'
  BY <1>1, <1>2, <1>4 DEF KeyInv
<1>6. AnswerInv'
  BY <1>1, <1>2 DEF AnswerInv, Answer
<1>7. NumberInv'
  BY <1>1, <1>2, <1>4 DEF NumberInv
<1> QED BY <1>3, <1>5, <1>6, <1>7

\* A start of the SDK keeps the invariant.
LEMMA StartStep ==
  ASSUME IndInv, StartSdk
  PROVE  IndInv'
<1> USE DEF IndInv
<1>1. PICK p \in Ports \ ({CallPort} \cup {r.port : r \in sent}) :
        sdk' = [session |-> sdk.session + 1, port |-> p, key |-> NoKey, sq |-> 10 * (sdk.session + 1),
                step |-> 1, request |-> NoRequest]
  BY DEF StartSdk
<1>2. /\ answers' = {} /\ shifted' = FALSE /\ mismatched' = FALSE
      /\ UNCHANGED <<hook, captured, relayVars, sent, done, repeats, twice, misread>>
  BY DEF StartSdk
<1>3. UNCHANGED <<addr_session_keys, addr_session_id, addr_last_sqnum, known, served>>
  BY <1>2 DEF relayVars
<1>4. sdk.session \in Nat /\ NoKey \in SomeKey
  BY DEF TypeInv, SomeKey
<1>5. /\ sdk'.session = sdk.session + 1 /\ sdk'.port = p /\ sdk'.key = NoKey /\ sdk'.sq = 10 * (sdk.session + 1)
      /\ sdk'.step = 1 /\ sdk'.request = NoRequest
      /\ sdk' \in [session : Nat, port : Ports, key : SomeKey, sq : Nat, step : 1 .. 8,
                   request : Requests \cup {NoRequest}]
  BY <1>1, <1>4
<1>6. TypeInv'
  BY <1>2, <1>3, <1>5 DEF TypeInv
<1>7. \A r \in sent : r.session \in 1 .. sdk.session /\ r.session # sdk'.session /\ r.port # p
  <2> SUFFICES ASSUME NEW r \in sent PROVE r.session \in 1 .. sdk.session /\ r.session # sdk'.session /\ r.port # p
    OBVIOUS
  <2>1. r.session \in 1 .. sdk.session
    BY DEF SdkInv, Asked
  <2> QED BY <1>1, <1>4, <1>5, <2>1
<1>8. SdkInv'
  <2>1. ASSUME NEW r \in sent, NEW i \in 1 .. 7, Asked(r, i)
        PROVE  Asked(r, i)'
    <3>1. r.session \in 1 .. sdk'.session
      BY <1>4, <1>5, <1>7
    <3> QED BY <1>5, <1>7, <2>1, <3>1 DEF Asked
  <2>2. \A r \in sent' : \E i \in 1 .. 7 : Asked(r, i)'
    BY <1>2, <2>1 DEF SdkInv
  <2>3. sdk'.sq = Number(sdk'.session, 1 - 1)
    <3>1. 1 - 1 = 0 /\ sdk.session + 1 \in Nat
      BY <1>4
    <3> QED BY <1>5, <3>1, Numbers
  <2>4. p # CallPort /\ sdk'.session # 0
    BY <1>1, <1>4, <1>5
  <2>5. \A r, q \in sent' : r.session = q.session /\ r.kind = q.kind => r = q
    BY <1>2 DEF SdkInv
  <2> QED BY <1>5, <2>2, <2>3, <2>4, <2>5 DEF SdkInv
<1>9. \A i : ~ Has(i)'
  BY <1>2, <1>5, <1>7 DEF Has, TypeInv
<1>10. OwnKeys(addr_session_keys, p) = {}
  <2>1. \A i \in DOMAIN addr_session_keys : addr_session_keys[i][1] # p
    BY <1>7 DEF KeyInv, TypeInv
  <2> QED BY <2>1 DEF OwnKeys
<1>11. KeyInv'
  <2>1. sdk'.session = 1 => addr_session_keys = <<>>
    <3>1. sdk'.session = 1 => sent = {}
      <4> SUFFICES ASSUME sdk'.session = 1, NEW r \in sent PROVE FALSE
        OBVIOUS
      <4>1. r.session \in 1 .. sdk.session /\ r.session # 1
        BY <1>7
      <4>2. sdk.session \in Nat /\ 1 = sdk.session + 1
        BY <1>4, <1>5
      <4> QED BY <4>1, <4>2
    <3>2. sdk'.session = 1 => DOMAIN addr_session_keys = {}
      BY <3>1 DEF KeyInv, TypeInv
    <3> QED BY <3>2 DEF TypeInv
  <2>2. sdk'.session = 1 => DOMAIN addr_session_keys' = {}
    BY <1>3, <2>1
  <2> QED BY <1>2, <1>3, <1>5, <1>9, <1>10, <2>2 DEF KeyInv
<1>12. AnswerInv'
  BY <1>2 DEF AnswerInv
<1>13. NumberInv'
  <2>1. addr_last_sqnum[p] = 0
    BY <1>1, <1>7 DEF NumberInv
  <2>2. \A i \in 1 .. 7 : ~ (i < sdk'.step)
    BY <1>5
  <2>3. \A q \in Ports : (\A r \in sent' : r.port # q) => addr_last_sqnum'[q] = 0
    BY <1>2, <1>3 DEF NumberInv
  <2> QED BY <1>2, <1>3, <1>5, <1>9, <2>1, <2>2, <2>3 DEF NumberInv
<1>14. IdInv' /\ MisreadInv'
  BY <1>2, <1>3 DEF IdInv, MisreadInv
<1> QED BY <1>6, <1>8, <1>11, <1>12, <1>13, <1>14

-----------------------------------------------------------------------------
(* What every step of the relay does                                       *)

\* Another request r is done, and answered by the frames.
Took(r, frames) ==
  /\ done' = done \cup {r} /\ UNCHANGED <<sdk, hook, captured, sent, mismatched>>
  /\ known' = known \cup {ClientId}
  /\ \A a \in answers' : a \in answers \/ (r.session = sdk.session /\ a.to = r /\ a.frame \in frames)
  /\ shifted' = (shifted \/ (r \in done /\ r.session = sdk.session /\ addr_last_sqnum' # addr_last_sqnum))
  /\ twice' = twice \cup (IF r \in done /\ r.kind = "certify" THEN {r.session} ELSE {})

\* Every handler does what Took says.
LEMMA HandledTook ==
  ASSUME IndInv, NEW r \in sent, NEW frames, Handles(r, frames)
  PROVE  Took(r, frames)
<1>1. decode_term_id(RequestFrame(r)) = ClientId
  BY IdRead DEF IndInv, TypeInv, Requests
<1>2. PICK new : /\ new = IF r.session = sdk.session THEN {[to |-> r, frame |-> f] : f \in frames} ELSE {}
                 /\ answers' = answers \cup new
  BY DEF Handles
<1>3. \A a \in new : r.session = sdk.session /\ a.to = r /\ a.frame \in frames
  BY <1>2
<1>4. known' = known \cup {ClientId}
  BY <1>1 DEF Handles
<1>5. /\ done' = done \cup {r} /\ UNCHANGED <<sdk, hook, captured, sent, mismatched>>
      /\ shifted' = (shifted \/ (r \in done /\ r.session = sdk.session /\ addr_last_sqnum' # addr_last_sqnum))
      /\ twice' = twice \cup (IF r \in done /\ r.kind = "certify" THEN {r.session} ELSE {})
  BY DEF Handles
<1> QED BY <1>2, <1>3, <1>4, <1>5 DEF Took

\* No handler changes what the SDK has asked.
LEMMA HandledSdk ==
  ASSUME IndInv, NEW r \in sent, NEW frames, Took(r, frames), served' \in Nat, served' >= served,
         addr_session_keys' \in Seq(Ports \X AllKeys), addr_last_sqnum' \in [Ports -> Nat]
  PROVE  TypeInv' /\ SdkInv'
<1> USE DEF IndInv
<1>1. TypeInv'
  BY DEF TypeInv, Took
<1>2. \A n \in 1 .. served : n \in 1 .. served'
  BY DEF TypeInv
<1>3. \A q : \A i : Asked(q, i)' <=> Asked(q, i)
  BY DEF Asked, Took
<1>4. sdk' = sdk /\ sent' = sent
  BY DEF Took
<1>5. SdkInv'
  BY <1>2, <1>3, <1>4 DEF SdkInv
<1> QED BY <1>1, <1>5

\* Which requests of the session the relay has seen, before and after.
LEMMA HandledHas ==
  ASSUME IndInv, NEW r \in sent, NEW frames, Took(r, frames), NEW i
  PROVE  Has(i)' <=> Has(i) \/ (r.session = sdk.session /\ r.kind = Script[i])
<1>1. done' = done \cup {r} /\ sdk' = sdk
  BY DEF Took
<1> QED BY <1>1 DEF Has

\* The CERTIFY of the running session is handled when it has been.
LEMMA CertifyDone ==
  ASSUME IndInv, NEW r \in sent, r.session = sdk.session, r.kind = "certify", Has(3)
  PROVE  r \in done
<1>1. PICK q \in done : q.session = sdk.session /\ q.kind = Script[3]
  BY DEF Has
<1>2. q \in sent /\ q.session = r.session /\ q.kind = r.kind
  BY <1>1, Kind DEF IndInv, TypeInv
<1>3. q = r
  BY <1>2 DEF IndInv, SdkInv
<1> QED BY <1>1, <1>3

\* NoKey is none of the session keys.
LEMMA NoKeyApart ==
  /\ NoKey \notin AllKeys
  /\ \A s \in Nat, n \in Nat : MadeKey(s, n) \in AllKeys
BY MadeKeys DEF AllKeys

\* The keys the handling of r leaves to the answers on the way.
KeepsKeys ==
  /\ sdk.session \notin twice' /\ Has(3) =>
       OwnKeys(addr_session_keys', sdk.port) = OwnKeys(addr_session_keys, sdk.port)
  /\ \A a \in answers :
       a.to.kind = "calling" /\ sdk.session \notin twice' /\ KeyFor(addr_session_keys', a.to.port) = sdk.key =>
         KeyFor(addr_session_keys, a.to.port) = sdk.key

\* A handler that stores no key keeps what is known about the keys.
LEMMA HandledSame ==
  ASSUME IndInv, NEW r \in sent, NEW frames, Took(r, frames), addr_session_keys' = addr_session_keys,
         r.kind # "certify",
         r.kind = "calling" /\ hook => OwnKeys(addr_session_keys, r.port) # {}
  PROVE  KeyInv' /\ KeepsKeys
<1> USE DEF IndInv
<1>1. Has(3)' <=> Has(3)
  BY HandledHas, Kind
<1>2. done' = done \cup {r} /\ sdk' = sdk /\ hook' = hook /\ captured' = captured /\ sent' = sent
      /\ twice \subseteq twice'
  BY DEF Took
<1>3. KeyInv'
  BY <1>1, <1>2 DEF KeyInv
<1>4. KeepsKeys
  BY DEF KeepsKeys
<1> QED BY <1>3, <1>4

\* r by its place in the script.
LEMMA ByKind ==
  ASSUME TypeInv, SdkInv, NEW r \in sent
  PROVE  /\ r.port = CallPort => r.kind = "calling"
         /\ r.session \in 1 .. sdk.session
         /\ r.session # sdk.session => r.port # sdk.port
         /\ r.session = sdk.session /\ r.kind # "calling" => r.port = sdk.port
         /\ r.session = sdk.session => r.port \in {sdk.port, CallPort}
         /\ r.session = sdk.session /\ r.kind \in SessionKinds => sdk.step >= 4 /\ r.key = sdk.key
         /\ r.kind \in SessionKinds => r.key # NoKey
<1>1. PICK i \in 1 .. 7 : Asked(r, i)
  BY DEF SdkInv
<1>2. sdk.step \in 1 .. 8
  BY DEF TypeInv
<1>3. r.kind = Script[i] /\ i \in {1, 2, 3, 4, 5, 6, 7}
  BY <1>1 DEF Asked
<1>4. (r.kind = "calling" <=> i = 7) /\ (r.kind \in SessionKinds <=> i >= 4)
  BY <1>3, Kind DEF SessionKinds
<1>5. r.session = sdk.session => i <= sdk.step
  BY <1>1, <1>2 DEF Asked
<1> QED BY <1>1, <1>2, <1>4, <1>5 DEF Asked

\* A key is stored for the address of r: by CERTIFY a new one, by INIT_INFO and
\* CALLING the captured one.
LEMMA HandledStored ==
  ASSUME IndInv, NEW r \in sent, NEW frames, Took(r, frames), NEW k \in AllKeys,
         addr_session_keys' \in Seq(Ports \X AllKeys),
         Stored(addr_session_keys, addr_session_keys', r.port, k),
         \/ r.kind = "certify" /\ k = MadeKey(r.session, served + 1)
         \/ r.kind = "init" /\ k = captured
         \/ r.kind = "calling" /\ k = captured /\ OwnKeys(addr_session_keys, r.port) = {}
  PROVE  KeyInv' /\ KeepsKeys
<1> USE DEF IndInv
<1>1. done' = done \cup {r} /\ sdk' = sdk /\ hook' = hook /\ captured' = captured /\ sent' = sent
      /\ twice' = twice \cup (IF r \in done /\ r.kind = "certify" THEN {r.session} ELSE {})
  BY DEF Took
<1>2. PICK keys : keys = addr_session_keys
  OBVIOUS
<1>3. PICK new : new = addr_session_keys'
  OBVIOUS
<1>4. /\ OwnKeys(new, r.port) = {k}
      /\ \A q : q # r.port => OwnKeys(new, q) = OwnKeys(keys, q)
      /\ \A i \in DOMAIN new : new[i] = <<r.port, k>> \/ (i \in DOMAIN keys /\ new[i] = keys[i])
      /\ new # <<>> /\ new[1] = IF keys # <<>> /\ keys[1][1] # r.port THEN keys[1] ELSE <<r.port, k>>
  BY <1>2, <1>3 DEF Stored
<1>5. keys \in Seq(Ports \X AllKeys) /\ new \in Seq(Ports \X AllKeys)
  BY <1>2, <1>3 DEF TypeInv
<1>6. r.kind # "certify" => hook /\ k = captured
  <2>1. r.kind # "certify" => k = captured
    OBVIOUS
  <2>2. captured \in AllKeys => captured # NoKey
    BY NoKeyApart
  <2> QED BY <2>1, <2>2 DEF KeyInv
<1>7. r.session = sdk.session /\ r.kind # "certify" => sdk.step >= 4 /\ Has(3) /\ k = sdk.key
  BY <1>6, ByKind DEF SessionKinds, KeyInv
<1>8. r.session = sdk.session /\ r.kind = "certify" /\ Has(3) => sdk.session \in twice'
  BY <1>1, CertifyDone
<1>9. Has(3)' <=> Has(3) \/ (r.session = sdk.session /\ r.kind = "certify")
  BY HandledHas, Kind
<1>10. sdk.session \notin twice' /\ Has(3) => OwnKeys(new, sdk.port) = OwnKeys(keys, sdk.port)
  <2> HAVE sdk.session \notin twice' /\ Has(3)
  <2>1. CASE r.port # sdk.port
    BY <1>4, <2>1
  <2>2. CASE r.port = sdk.port
    <3>1. r.session = sdk.session /\ r.kind # "certify"
      BY <1>8, <2>2, ByKind
    <3>2. sdk.session \notin twice
      BY <1>1
    <3>3. OwnKeys(keys, sdk.port) = {k}
      BY <1>2, <1>7, <3>1, <3>2 DEF KeyInv
    <3> QED BY <1>4, <2>2, <3>3
  <2> QED BY <2>1, <2>2
<1>11. KeyInv'
  <2>1. \A i \in DOMAIN new : \E q \in done' : q.port = new[i][1]
    <3> SUFFICES ASSUME NEW i \in DOMAIN new PROVE \E q \in done' : q.port = new[i][1]
      OBVIOUS
    <3>1. <<r.port, k>>[1] = r.port
      OBVIOUS
    <3> QED BY <1>1, <1>2, <1>4, <3>1 DEF KeyInv
  <2>2. ~ hook => captured = NoKey /\ OwnKeys(new, CallPort) = {}
    <3>1. ~ hook => r.port # CallPort
      BY <1>6, ByKind
    <3> QED BY <1>2, <1>4, <3>1 DEF KeyInv
  <2>3. hook => \A q \in done' : q.kind = "calling" => OwnKeys(new, q.port) # {}
    <3> SUFFICES ASSUME hook, NEW q \in done', q.kind = "calling", q.port # r.port
                 PROVE  OwnKeys(new, q.port) # {}
      BY <1>4
    <3>1. q \in done
      BY <1>1
    <3> QED BY <1>2, <1>4, <3>1 DEF KeyInv
  <2>4. Has(3)' <=> OwnKeys(new, sdk.port) # {}
    <3>1. CASE r.session = sdk.session /\ r.kind # "calling"
      <4>1. r.port = sdk.port
        BY <3>1, ByKind
      <4> QED BY <1>4, <1>7, <1>9, <3>1, <4>1
    <3>2. CASE r.session = sdk.session /\ r.kind = "calling"
      <4>1. Has(3)' /\ OwnKeys(keys, sdk.port) # {}
        BY <1>2, <1>7, <1>9, <3>2 DEF KeyInv
      <4> QED BY <1>4, <4>1
    <3>3. CASE r.session # sdk.session
      <4>1. r.port # sdk.port
        BY <3>3, ByKind
      <4> QED BY <1>2, <1>4, <1>9, <3>3, <4>1 DEF KeyInv
    <3> QED BY <3>1, <3>2, <3>3
  <2>5. sdk.session \notin twice' /\ sdk.step >= 4 => OwnKeys(new, sdk.port) = {sdk.key}
    BY <1>1, <1>2, <1>10 DEF KeyInv
  <2>6. ASSUME sdk.session = 1, 1 \notin twice', NEW i \in DOMAIN new
        PROVE  new[i][2] \in OwnKeys(new, sdk.port)
    <3>1. r.session = sdk.session
      BY <2>6, ByKind
    <3>2. <<r.port, k>>[2] = k
      OBVIOUS
    <3>3. 1 \notin twice
      BY <1>1, <2>6
    <3>4. CASE r.kind = "certify"
      <4>1. ~ Has(3)
        BY <1>8, <2>6, <3>1, <3>4
      <4>2. OwnKeys(keys, sdk.port) = {}
        BY <1>2, <4>1 DEF KeyInv
      <4>3. i \notin DOMAIN keys
        BY <1>2, <2>6, <3>3, <4>2 DEF KeyInv
      <4>4. r.port = sdk.port
        BY <3>1, <3>4, ByKind
      <4> QED BY <1>4, <2>6, <3>2, <4>3, <4>4
    <3>5. CASE r.kind # "certify"
      <4>1. OwnKeys(keys, sdk.port) = {sdk.key} /\ k = sdk.key
        BY <1>2, <1>7, <2>6, <3>1, <3>3, <3>5 DEF KeyInv
      <4>2. OwnKeys(new, sdk.port) = {sdk.key}
        BY <1>4, <4>1
      <4>3. i \in DOMAIN keys => keys[i][2] \in OwnKeys(keys, sdk.port)
        BY <1>2, <2>6, <3>3 DEF KeyInv
      <4> QED BY <1>4, <2>6, <3>2, <4>1, <4>2, <4>3
    <3> QED BY <3>4, <3>5
  <2>7. sdk.step >= 4 => Has(3)'
    BY <1>9 DEF KeyInv
  <2>8. /\ hook => \A q \in sent : q.key # NoKey => captured # NoKey
        /\ hook /\ sdk.step >= 4 => captured = sdk.key
    BY DEF KeyInv
  <2> QED BY <1>1, <1>3, <2>1, <2>2, <2>3, <2>4, <2>5, <2>6, <2>7, <2>8 DEF KeyInv
<1>12. ASSUME NEW a \in answers, a.to.kind = "calling", sdk.session \notin twice', KeyFor(new, a.to.port) = sdk.key
       PROVE  KeyFor(keys, a.to.port) = sdk.key
  <2>1. a.to \in done /\ a.to \in sent /\ a.to.session = sdk.session
    BY DEF AnswerInv, TypeInv
  <2>2. sdk.step >= 4 /\ a.to.port \in {sdk.port, CallPort} /\ sdk.session \notin twice
    BY <1>1, <1>12, <2>1, ByKind DEF SessionKinds
  <2>3. CASE a.to.port = sdk.port
    <3>1. OwnKeys(keys, sdk.port) = {sdk.key}
      BY <1>2, <2>2 DEF KeyInv
    <3> QED BY <1>5, <2>3, <3>1, KeysFound
  <2>4. CASE hook /\ a.to.port = CallPort
    <3>1. OwnKeys(keys, CallPort) # {}
      BY <1>2, <1>12, <2>1, <2>4 DEF KeyInv
    <3>2. r.port # CallPort
      BY <1>2, <3>1, ByKind
    <3>3. OwnKeys(new, CallPort) = OwnKeys(keys, CallPort)
      BY <1>4, <3>2
    <3>4. KeyFor(new, CallPort) = KeyFor(keys, CallPort)
      BY <3>1, <3>3 DEF KeyFor
    <3> QED BY <1>12, <2>4, <3>4
  <2>5. CASE ~ hook /\ a.to.port = CallPort
    <3>1. r.kind = "certify" /\ k = MadeKey(r.session, served + 1)
      BY <1>6, <2>5
    <3>2. OwnKeys(keys, CallPort) = {} /\ OwnKeys(new, CallPort) = {}
      <4>1. r.port # CallPort
        BY <3>1, ByKind
      <4> QED BY <1>2, <1>4, <2>5, <4>1 DEF KeyInv
    <3>3. new[1][2] = sdk.key
      BY <1>4, <1>5, <1>12, <2>5, <3>2, KeysFound
    <3>4. k # sdk.key
      <4>1. PICK n \in 1 .. served : sdk.key = MadeKey(sdk.session, n)
        BY <2>2 DEF SdkInv
      <4>2. n # served + 1
        BY <4>1 DEF TypeInv
      <4> QED BY <3>1, <4>1, <4>2, MadeKeys
    <3>5. <<r.port, k>>[2] = k
      OBVIOUS
    <3>6. keys # <<>> /\ new[1] = keys[1]
      BY <1>4, <3>3, <3>4, <3>5
    <3> QED BY <1>5, <2>5, <3>2, <3>3, <3>6, KeysFound
  <2> QED BY <2>2, <2>3, <2>4, <2>5
<1>13. KeepsKeys
  BY <1>2, <1>3, <1>10, <1>12 DEF KeepsKeys
<1> QED BY <1>11, <1>13

\* The answers on the way stay what they are, and those to r are made right.
LEMMA HandledAnswers ==
  ASSUME IndInv, NEW r \in sent, NEW frames, Took(r, frames), KeepsKeys,
         served' \in Nat, served' >= served,
         r.session = sdk.session => \A f \in frames : Answer(r, f)'
  PROVE  AnswerInv'
<1> USE DEF IndInv
<1>1. done' = done \cup {r} /\ sdk' = sdk /\ (shifted => shifted') /\ twice \subseteq twice'
  BY DEF Took
<1>2. SUFFICES ASSUME NEW a \in answers'
               PROVE  a.to \in done' /\ a.to.session = sdk.session /\ Answer(a.to, a.frame)'
  BY <1>1 DEF AnswerInv
<1>3. CASE a \notin answers
  <2>1. r.session = sdk.session /\ a.to = r /\ a.frame \in frames
    BY <1>3 DEF Took
  <2> QED BY <1>1, <2>1
<1>4. CASE a \in answers
  <2>1. PICK b, f : b = a.to /\ f = a.frame
    OBVIOUS
  <2>2. b \in done /\ b \in sent /\ b.session = sdk.session /\ Answer(b, f)
    BY <1>4, <2>1 DEF AnswerInv, TypeInv
  <2>3. ASSUME b.kind = "certify", sdk.session \notin twice'
        PROVE  OwnKeys(addr_session_keys', b.port) = OwnKeys(addr_session_keys, b.port)
    <3>1. Has(3) /\ b.port = sdk.port
      BY <2>2, <2>3, ByKind, Kind DEF Has
    <3> QED BY <2>3, <3>1 DEF KeepsKeys
  <2>4. b.kind = "calling" /\ sdk.session \notin twice' /\ KeyFor(addr_session_keys', b.port) = sdk.key =>
          KeyFor(addr_session_keys, b.port) = sdk.key
    BY <1>4, <2>1 DEF KeepsKeys
  <2>5. \A n \in 1 .. served : n \in 1 .. served'
    BY DEF TypeInv
  <2>6. Answer(b, f)'
    BY <1>1, <2>2, <2>3, <2>4, <2>5 DEF Answer
  <2> QED BY <1>1, <2>1, <2>2, <2>6
<1> QED BY <1>3, <1>4

\* What the handling of a request of the session does to addr_last_sqnum.
Moves(r, frames) ==
  /\ r.kind \in {"detect", "list", "calling"} => addr_last_sqnum' = addr_last_sqnum
  /\ r.kind = "certify" => addr_last_sqnum'[sdk.port] = r.sq
  /\ r.kind = "init" =>
       /\ addr_last_sqnum'[sdk.port] \in {0, r.sq}
       /\ \A f \in frames : Resp(f, Num(r.sq)) => addr_last_sqnum'[sdk.port] = r.sq
  /\ r.kind \in {"subscribe", "ctl"} => addr_last_sqnum'[sdk.port] = addr_last_sqnum[sdk.port] + 2

\* A handler keeps what is known about addr_last_sqnum when it moves it as the
\* request it handles demands.
LEMMA HandledNumbers ==
  ASSUME IndInv, NEW r \in sent, NEW frames, Took(r, frames),
         addr_last_sqnum' \in [Ports -> Nat],
         \A p \in Ports : p # r.port => addr_last_sqnum'[p] = addr_last_sqnum[p],
         r.session = sdk.session => Moves(r, frames)
  PROVE  NumberInv'
<1> USE DEF IndInv
<1>1. done' = done \cup {r} /\ sdk' = sdk /\ sent' = sent /\ mismatched' = mismatched
      /\ shifted' = (shifted \/ (r \in done /\ r.session = sdk.session /\ addr_last_sqnum' # addr_last_sqnum))
  BY DEF Took
<1>2. \A p \in Ports : (\A q \in sent' : q.port # p) => addr_last_sqnum'[p] = 0
  BY <1>1 DEF NumberInv
<1>3. \A i : Has(i)' <=> Has(i) \/ (r.session = sdk.session /\ r.kind = Script[i])
  BY HandledHas
<1>4. \A a \in answers' : a \in answers \/ (r.session = sdk.session /\ a.to = r /\ a.frame \in frames)
  BY DEF Took
<1>5. \A i : NumberIs(i)' <=> addr_last_sqnum'[sdk.port] = Number(sdk.session, i)
  BY <1>1 DEF NumberIs
<1>6. sdk.port \in Ports /\ r.kind \in Kinds /\ sdk.step \in 1 .. 8
  BY DEF TypeInv, Requests
<1> SUFFICES ASSUME ~ shifted'
             PROVE  /\ ~ mismatched'
                    /\ \A i \in 1 .. 7 : i < sdk'.step => Has(i)'
                    /\ ~ Has(3)' => addr_last_sqnum'[sdk'.port] = 0
                    /\ Has(3)' /\ ~ Has(4)' => NumberIs(3)'
                    /\ Has(4)' /\ ~ Has(5)' =>
                         /\ addr_last_sqnum'[sdk'.port] = 0 \/ NumberIs(4)'
                         /\ sdk'.step >= 5 => NumberIs(4)'
                         /\ \A a \in answers' : a.to.kind = "init" /\ Resp(a.frame, Num(a.to.sq)) => NumberIs(4)'
                    /\ Has(5)' /\ ~ Has(6)' => NumberIs(5)'
                    /\ Has(6)' => NumberIs(6)'
  BY <1>2 DEF NumberInv
<1>7. ~ shifted /\ ~ mismatched' /\ \A i \in 1 .. 7 : i < sdk'.step => Has(i)'
  BY <1>1, <1>3 DEF NumberInv
<1>8. CASE r.session # sdk.session
  <2>1. addr_last_sqnum'[sdk.port] = addr_last_sqnum[sdk.port]
    BY <1>6, <1>8, ByKind
  <2>2. \A i : (Has(i)' <=> Has(i)) /\ (NumberIs(i)' <=> NumberIs(i))
    BY <1>3, <1>5, <1>8, <2>1 DEF NumberIs
  <2> QED BY <1>1, <1>4, <1>7, <1>8, <2>1, <2>2 DEF NumberInv
<1>9. CASE r.session = sdk.session /\ r \in done
  <2>1. addr_last_sqnum' = addr_last_sqnum
    BY <1>1, <1>9
  <2>2. \A i : (Has(i)' <=> Has(i)) /\ (NumberIs(i)' <=> NumberIs(i))
    BY <1>3, <1>5, <1>9, <2>1 DEF Has, NumberIs
  <2>3. ASSUME NEW a \in answers', a \notin answers, a.to.kind = "init", Resp(a.frame, Num(a.to.sq))
        PROVE  NumberIs(4)
    <3>1. a.to = r /\ a.frame \in frames
      BY <1>4, <2>3
    <3>2. addr_last_sqnum[sdk.port] = r.sq
      BY <1>9, <2>1, <2>3, <3>1 DEF Moves
    <3>3. PICK i \in 1 .. 7 : Asked(r, i)
      BY DEF SdkInv
    <3>4. Script[i] = Script[4] /\ 4 \in 1 .. 7
      BY <2>3, <3>1, <3>3, Kind DEF Asked
    <3>5. i = 4
      BY <3>4, Kind
    <3> QED BY <1>9, <3>2, <3>3, <3>5 DEF Asked, NumberIs
  <2> QED BY <1>1, <1>7, <2>1, <2>2, <2>3 DEF NumberInv
<1>10. CASE r.session = sdk.session /\ r \notin done
  <2>1. PICK i \in 1 .. 7 : /\ Asked(r, i) /\ r.kind = Script[i] /\ i <= sdk.step /\ i \in Nat
                            /\ (i < sdk.step \/ r = sdk.request)
    BY <1>10, Current
  <2>2. ~ Has(i)
    <3> SUFFICES ASSUME NEW q \in done, q.session = sdk.session, q.kind = Script[i] PROVE FALSE
      BY DEF Has
    <3>1. q = r
      BY <1>10, <2>1 DEF SdkInv, TypeInv
    <3> QED BY <1>10, <3>1
  <2>3. i = sdk.step
    <3>1. i < sdk.step => Has(i)
      BY <1>7, <2>1 DEF NumberInv
    <3>2. sdk.step \in Nat
      BY DEF TypeInv
    <3> QED BY <2>1, <2>2, <3>1, <3>2
  <2>4. ASSUME NEW j \in 1 .. 7
        PROVE  (Has(j) <=> j < i) /\ (Has(j)' <=> j <= i)
    <3>1. j < i => Has(j)
      BY <1>7, <2>3 DEF NumberInv
    <3>2. Has(j) => j <= i
      <4> SUFFICES ASSUME NEW q \in done, q.session = sdk.session, q.kind = Script[j] PROVE j <= i
        BY DEF Has
      <4>1. PICK m \in 1 .. 7 : q.kind = Script[m] /\ m <= sdk.step
        BY Current DEF TypeInv
      <4>2. m = j
        BY <4>1, Kind
      <4> QED BY <2>3, <4>1, <4>2
    <3>3. r.kind = Script[j] <=> j = i
      BY <2>1, Kind
    <3>4. Has(j) <=> j < i
      BY <2>2, <3>1, <3>2
    <3> QED BY <1>3, <1>10, <3>3, <3>4
  <2>5. /\ (Has(3) <=> 3 < i) /\ (Has(4) <=> 4 < i) /\ (Has(5) <=> 5 < i) /\ (Has(6) <=> 6 < i)
        /\ (Has(3)' <=> 3 <= i) /\ (Has(4)' <=> 4 <= i) /\ (Has(5)' <=> 5 <= i) /\ (Has(6)' <=> 6 <= i)
    BY <2>4
  <2>6. r.sq = Number(sdk.session, i) /\ sdk.session \in Nat
    BY <1>10, <2>1 DEF Asked, TypeInv
  <2>7. Moves(r, frames)
    BY <1>10
  <2>8. CASE i \in {1, 2}
    <3>1. r.kind \in {"detect", "list"}
      BY <2>1, <2>8, Kind
    <3>2. addr_last_sqnum' = addr_last_sqnum
      BY <2>7, <3>1 DEF Moves
    <3> QED BY <1>1, <1>7, <2>5, <2>8, <3>2 DEF NumberInv
  <2>9. CASE i = 3
    <3>1. r.kind = "certify"
      BY <2>1, <2>9, Kind
    <3>2. NumberIs(3)'
      BY <1>5, <2>6, <2>7, <2>9, <3>1 DEF Moves
    <3> QED BY <1>7, <2>5, <2>9, <3>2
  <2>10. CASE i = 4
    <3>1. r.kind = "init"
      BY <2>1, <2>10, Kind
    <3>2. /\ addr_last_sqnum'[sdk.port] \in {0, r.sq}
          /\ \A f \in frames : Resp(f, Num(r.sq)) => addr_last_sqnum'[sdk.port] = r.sq
      BY <2>7, <3>1 DEF Moves
    <3>3. addr_last_sqnum'[sdk'.port] = 0 \/ NumberIs(4)'
      BY <1>1, <1>5, <2>6, <2>10, <3>2
    <3>4. ASSUME NEW a \in answers', a.to.kind = "init", Resp(a.frame, Num(a.to.sq))
          PROVE  NumberIs(4)'
      <4>1. a \notin answers
        <5> SUFFICES ASSUME a \in answers PROVE FALSE
          OBVIOUS
        <5>1. Has(4)
          BY <3>4, Kind DEF AnswerInv, Has
        <5> QED BY <2>5, <2>10, <5>1
      <4>2. a.to = r /\ a.frame \in frames
        BY <1>4, <4>1
      <4>3. addr_last_sqnum'[sdk.port] = r.sq
        BY <3>2, <3>4, <4>2
      <4> QED BY <1>5, <2>6, <2>10, <4>3
    <3>5. ~ (sdk'.step >= 5)
      BY <1>1, <2>3, <2>10
    <3> QED BY <1>7, <2>5, <2>10, <3>3, <3>4, <3>5
  <2>11. CASE i = 5
    <3>1. r.kind = "subscribe"
      BY <2>1, <2>11, Kind
    <3>2. NumberIs(4)
      BY <1>7, <2>3, <2>5, <2>11 DEF NumberInv
    <3>3. addr_last_sqnum'[sdk.port] = Number(sdk.session, 5)
      BY <2>6, <2>7, <3>1, <3>2, Numbers DEF Moves, NumberIs
    <3>4. NumberIs(5)'
      BY <1>5, <3>3
    <3> QED BY <1>7, <2>5, <2>11, <3>4
  <2>12. CASE i = 6
    <3>1. r.kind = "ctl"
      BY <2>1, <2>12, Kind
    <3>2. NumberIs(5)
      BY <1>7, <2>3, <2>5, <2>12 DEF NumberInv
    <3>5. addr_last_sqnum'[sdk.port] = Number(sdk.session, 5) + 2
      BY <2>7, <3>1, <3>2 DEF Moves, NumberIs
    <3>7. PICK s \in Nat : s = sdk.session
      BY <2>6
    <3>8. Number(s, 6) = 10 * s + 8 /\ Number(s, 5) = 10 * s + 6
      BY Numbers
    <3>6. Number(sdk.session, 6) = Number(sdk.session, 5) + 2
      BY <3>7, <3>8
    <3>3. addr_last_sqnum'[sdk.port] = Number(sdk.session, 6)
      BY <3>5, <3>6
    <3>4. NumberIs(6)'
      BY <1>5, <3>3
    <3> QED BY <1>7, <2>5, <2>12, <3>4
  <2>13. CASE i = 7
    <3>1. r.kind = "calling"
      BY <2>1, <2>13, Kind
    <3>2. addr_last_sqnum' = addr_last_sqnum
      BY <2>7, <3>1 DEF Moves
    <3>3. NumberIs(6)
      BY <1>7, <2>5, <2>13 DEF NumberInv
    <3>4. NumberIs(6)'
      BY <1>5, <3>2, <3>3 DEF NumberIs
    <3> QED BY <1>7, <2>5, <2>13, <3>4
  <2> QED BY <2>8, <2>9, <2>10, <2>11, <2>12, <2>13
<1> QED BY <1>8, <1>9, <1>10

-----------------------------------------------------------------------------
(* The steps of the relay                                                  *)

\* The number the relay makes of a decrypted word: 0 when it is noise.
LEMMA ValueOf ==
  ASSUME TypeInv, NEW r \in sent, NEW w
  PROVE  /\ Value(w) \in Nat
         /\ w = Num(r.sq) => Value(w) = r.sq
         /\ Noise(w) => Value(w) = 0
<1>1. \A q \in sent : q.sq \in Nat
  BY DEF TypeInv, Requests
<1>2. CASE \E q \in sent : w = Num(q.sq)
  <2>1. PICK c : c = (CHOOSE q \in sent : w = Num(q.sq))
    OBVIOUS
  <2>2. c \in sent /\ w = Num(c.sq)
    BY <1>2, <2>1
  <2>3. Value(w) = c.sq
    BY <1>2, <2>1 DEF Value
  <2>4. w = Num(r.sq) => c.sq = r.sq
    BY <2>2, PlainNum
  <2>5. ~ Noise(w)
    BY <2>2, PlainNum
  <2> QED BY <1>1, <2>2, <2>3, <2>4, <2>5
<1>3. CASE ~ \E q \in sent : w = Num(q.sq)
  BY <1>3 DEF Value
<1> QED BY <1>2, <1>3

\* Steps that make no key and register no id.
LEMMA HandledRest ==
  ASSUME IndInv, NEW r \in sent, NEW frames, Took(r, frames), UNCHANGED <<addr_session_id, misread>>
  PROVE  IdInv' /\ MisreadInv'
<1> USE DEF IndInv
<1>1. IdInv'
  BY DEF IdInv
<1>2. MisreadInv'
  BY DEF MisreadInv, Took
<1> QED BY <1>1, <1>2

\* Handling DETECT keeps the invariant.
LEMMA DetectStep ==
  ASSUME IndInv, NEW r \in sent, r.kind = "detect", HandleDetect(r)
  PROVE  IndInv'
<1> USE DEF IndInv
<1>1. PICK f : f = build_detect_resp(extract_request_sequence_number(RequestFrame(r), NoKey))
  OBVIOUS
<1>2. UNCHANGED <<addr_session_keys, addr_session_id, addr_last_sqnum, served, misread>> /\ Handles(r, {f})
  BY <1>1 DEF HandleDetect
<1>3. Took(r, {f})
  BY <1>2, HandledTook
<1>4. served \in Nat /\ addr_session_keys \in Seq(Ports \X AllKeys) /\ addr_last_sqnum \in [Ports -> Nat]
  BY DEF TypeInv
<1>5. Resp(f, Num(r.sq))
  <2>1. extract_request_sequence_number(RequestFrame(r), NoKey) = Num(r.sq)
    BY DetectRead
  <2> QED BY <1>1, <2>1, ClearAnswer
<1>6. Answer(r, f)'
  BY <1>5 DEF Answer
<1>7. TypeInv' /\ SdkInv'
  BY <1>2, <1>3, <1>4, HandledSdk
<1>8. KeyInv' /\ KeepsKeys
  BY <1>2, <1>3, HandledSame
<1>9. AnswerInv'
  BY <1>2, <1>3, <1>4, <1>6, <1>8, HandledAnswers
<1>10. NumberInv'
  BY <1>2, <1>3, <1>4, HandledNumbers DEF Moves
<1>11. IdInv' /\ MisreadInv'
  BY <1>2, <1>3, HandledRest
<1> QED BY <1>7, <1>8, <1>9, <1>10, <1>11

\* Handling LIST keeps the invariant.
LEMMA ListStep ==
  ASSUME IndInv, NEW r \in sent, r.kind = "list", HandleList(r)
  PROVE  IndInv'
<1> USE DEF IndInv
<1>1. PICK f : f = build_list_resp
  OBVIOUS
<1>2. UNCHANGED <<addr_session_keys, addr_session_id, addr_last_sqnum, served, misread>> /\ Handles(r, {f})
  BY <1>1 DEF HandleList
<1>3. Took(r, {f})
  BY <1>2, HandledTook
<1>4. served \in Nat /\ addr_session_keys \in Seq(Ports \X AllKeys) /\ addr_last_sqnum \in [Ports -> Nat]
  BY DEF TypeInv
<1>6. Answer(r, f)'
  BY <1>1 DEF Answer
<1>7. TypeInv' /\ SdkInv'
  BY <1>2, <1>3, <1>4, HandledSdk
<1>8. KeyInv' /\ KeepsKeys
  BY <1>2, <1>3, HandledSame
<1>9. AnswerInv'
  BY <1>2, <1>3, <1>4, <1>6, <1>8, HandledAnswers
<1>10. NumberInv'
  BY <1>2, <1>3, <1>4, HandledNumbers DEF Moves
<1>11. IdInv' /\ MisreadInv'
  BY <1>2, <1>3, HandledRest
<1> QED BY <1>7, <1>8, <1>9, <1>10, <1>11

\* The hash identifies the key of the client.
LEMMA SameHash ==
  ASSUME NEW k, NEW l, giot_hash_string(k) = giot_hash_string(l)
  PROVE  k = l
<1>1. <<"hash", k>> = <<"hash", l>>
  BY DEF giot_hash_string, Term
<1>2. <<"hash", k>>[2] = k /\ <<"hash", l>>[2] = l
  OBVIOUS
<1> QED BY <1>1, <1>2

\* Handling CERTIFY keeps the invariant.
LEMMA CertifyStep ==
  ASSUME IndInv, NEW r \in sent, r.kind = "certify", HandleCertify(r)
  PROVE  IndInv'
<1> USE DEF IndInv
<1>1. PICK p : p = CertifyPayload(RequestFrame(r))
  OBVIOUS
<1>2. PICK w : w = extract_request_sequence_number(RequestFrame(r), NoKey)
  OBVIOUS
<1>3. PICK key : key = decrypt_session_key(CertifyKey, p)
  OBVIOUS
<1>4. PICK sid : sid = <<p[6], p[7]>>
  OBVIOUS
<1>5. PICK f : f = build_certify_resp(sid, ServerKey(served + 1), w)
  OBVIOUS
<1>6. /\ giot_hash_string(key) = p[7]
      /\ served' = served + 1
      /\ addr_session_keys' = StoreKey(addr_session_keys, r.port, XorWords(key, ServerKey(served + 1)))
      /\ addr_session_id' = StoreKey(addr_session_id, r.port, sid)
      /\ addr_last_sqnum' = [addr_last_sqnum EXCEPT ![r.port] = Value(w)]
      /\ UNCHANGED misread
      /\ Handles(r, {f})
  BY <1>1, <1>2, <1>3, <1>4, <1>5 DEF HandleCertify
<1>7. w = Num(r.sq) /\ p[6] = Zero /\ p[7] = giot_hash_string(ClientKey(r.session))
  BY <1>1, <1>2, CertifyRead
<1>8. key = ClientKey(r.session)
  BY <1>6, <1>7, SameHash
<1>9. /\ served \in Nat /\ addr_session_keys \in Seq(Ports \X AllKeys) /\ addr_last_sqnum \in [Ports -> Nat]
      /\ r.port \in Ports /\ r.session \in Nat /\ r.sq \in Nat
  BY DEF TypeInv, Requests
<1>10. PICK k \in AllKeys : k = MadeKey(r.session, served + 1)
  BY <1>9, NoKeyApart
<1>11. /\ addr_session_keys' \in Seq(Ports \X AllKeys)
       /\ Stored(addr_session_keys, addr_session_keys', r.port, k)
  <2>1. addr_session_keys' = StoreKey(addr_session_keys, r.port, k)
    BY <1>6, <1>8, <1>10 DEF MadeKey
  <2>2. PICK keys : keys = addr_session_keys
    OBVIOUS
  <2>3. PICK new : new = StoreKey(keys, r.port, k)
    OBVIOUS
  <2>4. keys \in Seq(Ports \X AllKeys) /\ r.port \in Ports /\ k \in AllKeys
    BY <1>9, <1>10, <2>2
  <2>5. new \in Seq(Ports \X AllKeys) /\ Stored(keys, new, r.port, k)
    BY <2>3, <2>4, StoreKeyKeys
  <2> QED BY <2>1, <2>2, <2>3, <2>5
<1>12. Took(r, {f})
  BY <1>6, HandledTook
<1>13. Value(w) = r.sq
  BY <1>7, ValueOf
<1>14. addr_last_sqnum' \in [Ports -> Nat] /\ addr_last_sqnum'[r.port] = r.sq
       /\ \A q \in Ports : q # r.port => addr_last_sqnum'[q] = addr_last_sqnum[q]
  BY <1>6, <1>9, <1>13
<1>15. served' \in Nat /\ served' >= served /\ served + 1 \in 1 .. served'
  BY <1>6, <1>9
<1>16. Plain(sid[1]) /\ Plain(sid[2])
  <2>1. \A t \in {<<"hash", ClientKey(r.session)>>} : t[1] # "dec"
    <3>1. <<"hash", ClientKey(r.session)>>[1] # "dec"
      OBVIOUS
    <3> QED BY <3>1
  <2>2. sid[1] = {} /\ sid[2] = {<<"hash", ClientKey(r.session)>>}
    BY <1>4, <1>7 DEF Zero, giot_hash_string, Term
  <2> QED BY <2>1, <2>2 DEF Plain
<1>17. Resp(f, Num(r.sq)) /\ ServerKeyIn(f, served + 1)
  BY <1>5, <1>7, <1>16, CertifyAnswer
<1>18. Answer(r, f)'
  <2>1. OwnKeys(addr_session_keys', r.port) = {MadeKey(r.session, served + 1)}
    BY <1>10, <1>11 DEF Stored
  <2> QED BY <1>15, <1>17, <2>1 DEF Answer
<1>19. TypeInv' /\ SdkInv'
  BY <1>11, <1>12, <1>14, <1>15, HandledSdk
<1>20. KeyInv' /\ KeepsKeys
  BY <1>10, <1>11, <1>12, HandledStored
<1>21. AnswerInv'
  BY <1>12, <1>15, <1>18, <1>20, HandledAnswers
<1>22. NumberInv'
  <2>1. r.session = sdk.session => r.port = sdk.port
    BY ByKind
  <2> QED BY <1>12, <1>14, <2>1, HandledNumbers DEF Moves
<1>23. IdInv'
  <2>1. sid \in SessionIds
    BY <1>4, <1>7, <1>9 DEF SessionIds
  <2>2. PICK ids : ids = addr_session_id'
    OBVIOUS
  <2>3. ids \in Seq(Ports \X SessionIds)
    BY <1>6, <1>9, <2>1, <2>2, StoreKeyKeys DEF IdInv
  <2> QED BY <2>2, <2>3 DEF IdInv
<1>24. MisreadInv'
  BY <1>6, <1>12 DEF MisreadInv, Took
<1> QED BY <1>19, <1>20, <1>21, <1>22, <1>23, <1>24

\* Handling INIT_INFO keeps the invariant.
LEMMA InitStep ==
  ASSUME IndInv, NEW r \in sent, r.kind = "init", HandleInit(r)
  PROVE  IndInv'
<1> USE DEF IndInv
<1>1. PICK keys : keys = IF captured # NoKey THEN StoreKey(addr_session_keys, r.port, captured)
                         ELSE addr_session_keys
  OBVIOUS
<1>2. PICK key : key = KeyFor(keys, r.port)
  OBVIOUS
<1>3. PICK w : w = extract_request_sequence_number(RequestFrame(r), key)
  OBVIOUS
<1>4. PICK f : f = build_init_info_resp(HostId(r.port), w)
  OBVIOUS
<1>5. /\ OwnKeys(keys, r.port) # {}
      /\ addr_session_keys' = keys
      /\ addr_last_sqnum' = [addr_last_sqnum EXCEPT ![r.port] = Value(w)]
      /\ UNCHANGED <<addr_session_id, served, misread>>
      /\ Handles(r, {f})
  BY <1>1, <1>2, <1>3, <1>4 DEF HandleInit
<1>6. /\ served \in Nat /\ served >= served /\ addr_session_keys \in Seq(Ports \X AllKeys)
      /\ addr_last_sqnum \in [Ports -> Nat] /\ r.port \in Ports
  BY DEF TypeInv, Requests
<1>7. Took(r, {f})
  BY <1>5, HandledTook
<1>8. keys \in Seq(Ports \X AllKeys) /\ KeyInv' /\ KeepsKeys
  <2>1. CASE captured = NoKey
    BY <1>1, <1>5, <1>6, <1>7, <2>1, HandledSame
  <2>2. CASE captured # NoKey
    <3>1. PICK k \in AllKeys : k = captured
      BY <2>2 DEF TypeInv, SomeKey
    <3>2. keys = StoreKey(addr_session_keys, r.port, k)
      BY <1>1, <2>2, <3>1
    <3>3. keys \in Seq(Ports \X AllKeys) /\ Stored(addr_session_keys, keys, r.port, k)
      BY <1>6, <3>2, StoreKeyKeys
    <3> QED BY <1>5, <1>7, <3>1, <3>3, HandledStored
  <2> QED BY <2>1, <2>2
<1>9. r.kind \in SessionKinds /\ r.key # NoKey
  BY ByKind DEF SessionKinds
<1>10. (w = Num(r.sq) \/ Noise(w)) /\ (key = r.key => w = Num(r.sq))
  BY <1>3, <1>9, SessionNumber
<1>11. Resp(f, w)
  BY <1>4, ClearAnswer
<1>12. Value(w) \in Nat /\ (w = Num(r.sq) => Value(w) = r.sq) /\ (Noise(w) => Value(w) = 0)
  BY ValueOf
<1>13. addr_last_sqnum' \in [Ports -> Nat] /\ addr_last_sqnum'[r.port] = Value(w)
       /\ \A q \in Ports : q # r.port => addr_last_sqnum'[q] = addr_last_sqnum[q]
  BY <1>5, <1>6, <1>12
<1>14. TypeInv' /\ SdkInv'
  BY <1>5, <1>6, <1>7, <1>8, <1>13, HandledSdk
<1>15. ASSUME r.session = sdk.session
       PROVE  r.port = sdk.port /\ sdk.step >= 4 /\ r.key = sdk.key
  BY <1>9, <1>15, ByKind
<1>16. ASSUME r.session = sdk.session
       PROVE  Answer(r, f)'
  <2>1. ASSUME sdk.session \notin twice'
        PROVE  w = Num(r.sq)
    <3>1. OwnKeys(keys, r.port) = {sdk.key}
      BY <1>5, <1>7, <1>8, <1>15, <1>16, <2>1 DEF KeyInv, Took
    <3>2. key = sdk.key
      BY <1>2, <1>8, <3>1, KeysFound
    <3> QED BY <1>10, <1>15, <1>16, <3>2
  <2>2. w = Opened(f, NoKey)[4]
    BY <1>11 DEF Resp
  <2> QED BY <1>10, <1>11, <1>16, <2>1, <2>2 DEF Answer
<1>17. AnswerInv'
  BY <1>5, <1>6, <1>7, <1>8, <1>16, HandledAnswers
<1>18. r.session = sdk.session => Moves(r, {f})
  <2> HAVE r.session = sdk.session
  <2>1. addr_last_sqnum'[sdk.port] \in {0, r.sq}
    BY <1>10, <1>12, <1>13, <1>15
  <2>2. Resp(f, Num(r.sq)) => addr_last_sqnum'[sdk.port] = r.sq
    <3>1. Resp(f, Num(r.sq)) => w = Num(r.sq)
      BY <1>11 DEF Resp
    <3> QED BY <1>12, <1>13, <1>15, <3>1
  <2> QED BY <2>1, <2>2 DEF Moves
<1>19. NumberInv'
  BY <1>7, <1>13, <1>18, HandledNumbers
<1>20. IdInv' /\ MisreadInv'
  BY <1>5, <1>7, HandledRest
<1> QED BY <1>8, <1>14, <1>17, <1>19, <1>20

\* Handling a request whose number the relay predicts keeps the invariant.
LEMMA PredictedStep ==
  ASSUME IndInv, NEW r \in sent, r.kind \in {"subscribe", "ctl"},
         NEW f, Resp(f, Num(Predicted(r.port))), HandlePredicted(r, f)
  PROVE  IndInv'
<1> USE DEF IndInv
<1>1. /\ addr_last_sqnum' = [addr_last_sqnum EXCEPT ![r.port] = Predicted(r.port)]
      /\ UNCHANGED <<addr_session_keys, addr_session_id, served, misread>>
      /\ Handles(r, {f})
  BY DEF HandlePredicted
<1>2. /\ served \in Nat /\ served >= served /\ addr_session_keys \in Seq(Ports \X AllKeys)
      /\ addr_last_sqnum \in [Ports -> Nat] /\ r.port \in Ports
  BY DEF TypeInv, Requests
<1>3. Took(r, {f})
  BY <1>1, HandledTook
<1>4. Predicted(r.port) = addr_last_sqnum[r.port] + 2 /\ Predicted(r.port) \in Nat
  BY <1>2 DEF Predicted
<1>5. addr_last_sqnum' \in [Ports -> Nat] /\ addr_last_sqnum'[r.port] = addr_last_sqnum[r.port] + 2
      /\ \A q \in Ports : q # r.port => addr_last_sqnum'[q] = addr_last_sqnum[q]
  BY <1>1, <1>2, <1>4
<1>6. TypeInv' /\ SdkInv'
  BY <1>1, <1>2, <1>3, <1>5, HandledSdk
<1>7. KeyInv' /\ KeepsKeys
  BY <1>1, <1>3, HandledSame
<1>8. r.session = sdk.session => r.port = sdk.port
  BY ByKind
<1>9. NumberInv'
  BY <1>3, <1>5, <1>8, HandledNumbers DEF Moves
<1>10. ASSUME r.session = sdk.session, ~ shifted'
       PROVE  Predicted(r.port) = r.sq
  <2>1. r \notin done
    <3>1. addr_last_sqnum'[r.port] # addr_last_sqnum[r.port]
      BY <1>2, <1>5
    <3> QED BY <1>3, <1>10, <3>1 DEF Took
  <2>2. ~ shifted
    BY <1>3, <1>10 DEF Took
  <2>3. PICK i \in 1 .. 7 : Asked(r, i) /\ r.kind = Script[i] /\ i <= sdk.step /\ i \in Nat
    BY <1>10, Current
  <2>4. ~ Has(i)
    <3> SUFFICES ASSUME NEW q \in done, q.session = sdk.session, q.kind = Script[i] PROVE FALSE
      BY DEF Has
    <3>1. q = r
      BY <1>10, <2>3 DEF SdkInv, TypeInv
    <3> QED BY <2>1, <3>1
  <2>5. i = sdk.step /\ sdk.step \in Nat
    <3>1. i < sdk.step => Has(i)
      BY <2>2, <2>3 DEF NumberInv
    <3>2. sdk.step \in Nat
      BY DEF TypeInv
    <3> QED BY <2>3, <2>4, <3>1, <3>2
  <2>6. \A j \in 1 .. 7 : j < i => Has(j)
    BY <2>2, <2>5 DEF NumberInv
  <2>7. PICK s \in Nat : s = sdk.session
    BY DEF TypeInv
  <2>8. r.sq = Number(s, i)
    BY <1>10, <2>3, <2>7 DEF Asked
  <2>9. /\ Number(s, 4) = 10 * s + 4 /\ Number(s, 5) = 10 * s + 6 /\ Number(s, 6) = 10 * s + 8
    BY Numbers
  <2>10. i \in {1, 2, 3, 4, 5, 6, 7}
    OBVIOUS
  <2>11. i = 5 \/ i = 6
    BY <2>3, <2>10, Kind
  <2>12. CASE i = 5
    <3>1. NumberIs(4)
      BY <2>2, <2>4, <2>5, <2>6, <2>12 DEF NumberInv
    <3>2. addr_last_sqnum[r.port] = Number(s, 4)
      BY <1>8, <1>10, <2>7, <3>1 DEF NumberIs
    <3> QED BY <1>4, <2>8, <2>9, <2>12, <3>2
  <2>13. CASE i = 6
    <3>1. NumberIs(5)
      BY <2>2, <2>4, <2>6, <2>13 DEF NumberInv
    <3>2. addr_last_sqnum[r.port] = Number(s, 5)
      BY <1>8, <1>10, <2>7, <3>1 DEF NumberIs
    <3> QED BY <1>4, <2>8, <2>9, <2>13, <3>2
  <2> QED BY <2>11, <2>12, <2>13
<1>11. r.session = sdk.session => Answer(r, f)'
  BY <1>4, <1>10 DEF Answer
<1>12. AnswerInv'
  BY <1>1, <1>2, <1>3, <1>7, <1>11, HandledAnswers
<1>13. IdInv' /\ MisreadInv'
  BY <1>1, <1>3, HandledRest
<1> QED BY <1>6, <1>7, <1>9, <1>12, <1>13

\* A key found for the running session is found at an address.
LEMMA SomeKeyOf ==
  ASSUME NEW keys \in Seq(Ports \X AllKeys), keys # <<>>, NEW q
  PROVE  \E i \in DOMAIN keys : KeyFor(keys, q) = keys[i][2]
<1>2. CASE OwnKeys(keys, q) = {}
  <2>1. KeyFor(keys, q) = keys[1][2] /\ 1 \in DOMAIN keys
    BY <1>2, KeysFound
  <2> QED BY <2>1
<1>3. CASE OwnKeys(keys, q) # {}
  <2>1. KeyFor(keys, q) \in OwnKeys(keys, q)
    BY <1>3, KeysFound
  <2> QED BY <2>1, OwnKeysOf
<1> QED BY <1>2, <1>3

\* The id of a CALLING_ACK can be told from what is decrypted.
LEMMA HostIdPlain ==
  ASSUME IdInv, NEW p
  PROVE  Plain(HostId(p)[1])
<1>1. \A id \in SessionIds : Plain(id[1])
  BY DEF SessionIds, Zero, Plain
<1>2. Plain(ServerId[1])
  <2>1. <<"server", 1>>[1] # "dec"
    OBVIOUS
  <2> QED BY <2>1 DEF ServerId, Term, Plain
<1>3. ASSUME addr_session_id # <<>>
      PROVE  KeyFor(addr_session_id, p) \in SessionIds
  <2>1. \A j \in DOMAIN addr_session_id : addr_session_id[j][2] \in SessionIds
    BY DEF IdInv
  <2>2. 1 \in DOMAIN addr_session_id
    BY <1>3 DEF IdInv
  <2>3. OwnKeys(addr_session_id, p) \subseteq SessionIds
    BY <2>1 DEF OwnKeys
  <2>4. \A S : S # {} => (CHOOSE k \in S : TRUE) \in S
    OBVIOUS
  <2>5. CASE OwnKeys(addr_session_id, p) # {}
    BY <2>3, <2>4, <2>5 DEF KeyFor
  <2>6. CASE OwnKeys(addr_session_id, p) = {}
    BY <1>3, <2>1, <2>2, <2>6 DEF KeyFor
  <2> QED BY <2>5, <2>6
<1> QED BY <1>1, <1>2, <1>3 DEF HostId

\* Handling CALLING keeps the invariant.
LEMMA CallingStep ==
  ASSUME IndInv, NEW r \in sent, r.kind = "calling", HandleCalling(r)
  PROVE  IndInv'
<1> USE DEF IndInv
<1>1. PICK keys : keys = IF captured # NoKey /\ OwnKeys(addr_session_keys, r.port) = {}
                         THEN StoreKey(addr_session_keys, r.port, captured) ELSE addr_session_keys
  OBVIOUS
<1>2. PICK key : key = KeyFor(keys, r.port)
  OBVIOUS
<1>3. PICK w : w = extract_request_sequence_number(RequestFrame(r), key)
  OBVIOUS
<1>4. PICK link : link = extract_calling_link_id(RequestFrame(r), key)
  OBVIOUS
<1>5. PICK frames : frames = (IF key = NoKey THEN {} ELSE {build_calling_ack(key, HostId(r.port), w)})
                               \cup {build_mtp_res_resp(SessionId(r.port), link)}
  OBVIOUS
<1>6. /\ addr_session_keys' = keys
      /\ misread' = misread \cup (IF key = r.key \/ r.session # sdk.session THEN {} ELSE {r})
      /\ UNCHANGED <<addr_session_id, addr_last_sqnum, served>>
      /\ Handles(r, frames)
  BY <1>1, <1>2, <1>3, <1>4, <1>5 DEF HandleCalling
<1>7. /\ served \in Nat /\ served >= served /\ addr_session_keys \in Seq(Ports \X AllKeys)
      /\ addr_last_sqnum \in [Ports -> Nat] /\ r.port \in Ports
  BY DEF TypeInv, Requests
<1>8. Took(r, frames)
  BY <1>6, HandledTook
<1>9. r.kind \in SessionKinds /\ r.key # NoKey
  BY ByKind DEF SessionKinds
<1>10. keys \in Seq(Ports \X AllKeys) /\ KeyInv' /\ KeepsKeys
  <2>1. CASE captured # NoKey /\ OwnKeys(addr_session_keys, r.port) = {}
    <3>1. PICK k \in AllKeys : k = captured
      BY <2>1 DEF TypeInv, SomeKey
    <3>2. keys = StoreKey(addr_session_keys, r.port, k)
      BY <1>1, <2>1, <3>1
    <3>3. keys \in Seq(Ports \X AllKeys) /\ Stored(addr_session_keys, keys, r.port, k)
      BY <1>7, <3>2, StoreKeyKeys
    <3> QED BY <1>6, <1>8, <2>1, <3>1, <3>3, HandledStored
  <2>2. CASE ~ (captured # NoKey /\ OwnKeys(addr_session_keys, r.port) = {})
    <3>1. keys = addr_session_keys
      BY <1>1, <2>2
    <3>2. hook => OwnKeys(addr_session_keys, r.port) # {}
      BY <1>9, <2>2 DEF KeyInv
    <3> QED BY <1>6, <1>7, <1>8, <3>1, <3>2, HandledSame
  <2> QED BY <2>1, <2>2
<1>11. TypeInv' /\ SdkInv'
  BY <1>6, <1>7, <1>8, <1>10, HandledSdk
<1>12. ASSUME r.session = sdk.session, NEW f \in frames
       PROVE  Answer(r, f)'
  <2>1. sdk.step >= 4 /\ r.key = sdk.key
    BY <1>9, <1>12, ByKind
  <2>2. w = Num(r.sq) \/ Noise(w)
    BY <1>3, <1>9, SessionNumber
  <2>3. key = r.key => w = Num(r.sq)
    BY <1>3, <1>9, SessionNumber
  <2>4. key = r.key => link = LinkId(r.session)
    BY <1>4, <1>9, CallingLink
  <2>5. CASE key # NoKey /\ f = build_calling_ack(key, HostId(r.port), w)
    <3>1. PICK id : id = HostId(r.port)
      OBVIOUS
    <3>2. Plain(id[1])
      BY <3>1, HostIdPlain
    <3>3. f = build_calling_ack(key, id, w)
      BY <2>5, <3>1
    <3>4. ~ IsResp(f) /\ IsAck(f)
      BY <3>3, AckAnswer
    <3>5. ASSUME key = sdk.key
          PROVE  Accepts(r, f, sdk.key)
      <4>1. w = Num(r.sq) /\ Plain(w)
        BY <2>1, <2>3, <3>5, PlainNum
      <4>2. Verified(Opened(f, key)) /\ Opened(f, key)[3] = w
        BY <3>2, <3>3, <4>1, AckAnswer
      <4> QED BY <3>4, <3>5, <4>1, <4>2, AcceptCases
    <3> QED BY <1>2, <1>6, <1>8, <3>4, <3>5 DEF Answer, Took
  <2>6. CASE f = build_mtp_res_resp(SessionId(r.port), link)
    <3>1. /\ ~ IsResp(f) /\ ~ IsAck(f) /\ EncryptMode(f) = 0 /\ Verified(f) /\ \A k : Opened(f, k) = f
          /\ f[7] = link
      BY <2>6, MtpAnswer
    <3>2. ASSUME key = sdk.key
          PROVE  Accepts(r, f, sdk.key)
      <4>1. f[7] = LinkId(r.session)
        BY <2>1, <2>4, <3>1, <3>2
      <4> QED BY <3>1, <4>1, AcceptCases
    <3> QED BY <1>2, <1>6, <1>8, <3>1, <3>2 DEF Answer, Took
  <2> QED BY <1>5, <1>12, <2>5, <2>6
<1>13. AnswerInv'
  BY <1>6, <1>7, <1>8, <1>10, <1>12, HandledAnswers
<1>14. NumberInv'
  BY <1>6, <1>7, <1>8, HandledNumbers DEF Moves
<1>15. IdInv'
  BY <1>6 DEF IdInv
<1>16. MisreadInv'
  <2>1. ASSUME r.session = sdk.session, key # r.key
        PROVE  r.session >= 1 /\ (r.session \in twice' \/ (r.port = CallPort /\ r.session > 1))
    <3>1. r.session \in 1 .. sdk.session /\ r.port \in {sdk.port, CallPort} /\ sdk.step >= 4 /\ r.key = sdk.key
      BY <1>9, <2>1, ByKind
    <3>2. sdk.session \in Nat
      BY DEF TypeInv
    <3>3. SUFFICES ASSUME sdk.session \notin twice'
                   PROVE  r.port = CallPort /\ r.session > 1
      BY <2>1, <3>1, <3>2
    <3>4. OwnKeys(keys, sdk.port) = {sdk.key}
      BY <1>6, <1>8, <1>10, <3>1, <3>3 DEF KeyInv, Took
    <3>5. r.port # sdk.port
      <4> SUFFICES ASSUME r.port = sdk.port PROVE FALSE
        OBVIOUS
      <4>1. key = sdk.key
        BY <1>2, <1>10, <3>4, KeysFound
      <4> QED BY <2>1, <3>1, <4>1
    <3>6. r.session # 1
      <4> SUFFICES ASSUME r.session = 1 PROVE FALSE
        OBVIOUS
      <4>1. \A i \in DOMAIN keys : keys[i][2] \in OwnKeys(keys, sdk.port)
        BY <1>6, <1>8, <1>10, <2>1, <3>3 DEF KeyInv, Took
      <4>2. \A i \in DOMAIN keys : keys[i][2] = sdk.key
        BY <3>4, <4>1
      <4>3. key = sdk.key
        <5>1. PICK x : x \in OwnKeys(keys, sdk.port)
          BY <3>4
        <5>2. keys \in Seq(Ports \X AllKeys) /\ keys # <<>>
          BY <1>10, <5>1, OwnKeysOf
        <5>3. PICK i \in DOMAIN keys : KeyFor(keys, r.port) = keys[i][2]
          BY <5>2, SomeKeyOf
        <5> QED BY <1>2, <4>2, <5>3
      <4> QED BY <2>1, <3>1, <4>3
    <3> QED BY <3>1, <3>2, <3>5, <3>6
  <2>2. twice \subseteq twice'
    BY <1>8 DEF Took
  <2> QED BY <1>6, <2>1, <2>2 DEF MisreadInv
<1> QED BY <1>10, <1>11, <1>13, <1>14, <1>15, <1>16

-----------------------------------------------------------------------------
(* The theorems                                                            *)

\* Whatever the relay handles keeps the invariant.
LEMMA HandleStep ==
  ASSUME IndInv, Handle
  PROVE  IndInv'
<1>1. PICK r \in sent :
         \/ r.kind = "detect" /\ HandleDetect(r)
         \/ r.kind = "list" /\ HandleList(r)
         \/ r.kind = "certify" /\ HandleCertify(r)
         \/ r.kind = "init" /\ HandleInit(r)
         \/ /\ r.kind = "subscribe"
            /\ HandlePredicted(r, build_subscribe_resp(SessionId(r.port), Num(Predicted(r.port))))
         \/ /\ r.kind = "ctl"
            /\ HandlePredicted(r, build_session_ctl_resp(SessionId(r.port), Num(Predicted(r.port))))
         \/ r.kind = "calling" /\ HandleCalling(r)
  BY DEF Handle
<1>2. ASSUME r.kind = "subscribe",
             HandlePredicted(r, build_subscribe_resp(SessionId(r.port), Num(Predicted(r.port))))
      PROVE  IndInv'
  <2>1. PICK f : f = build_subscribe_resp(SessionId(r.port), Num(Predicted(r.port)))
    OBVIOUS
  <2>2. Resp(f, Num(Predicted(r.port)))
    BY <2>1, ClearAnswer
  <2> QED BY <1>2, <2>1, <2>2, PredictedStep
<1>3. ASSUME r.kind = "ctl",
             HandlePredicted(r, build_session_ctl_resp(SessionId(r.port), Num(Predicted(r.port))))
      PROVE  IndInv'
  <2>1. PICK f : f = build_session_ctl_resp(SessionId(r.port), Num(Predicted(r.port)))
    OBVIOUS
  <2>2. Resp(f, Num(Predicted(r.port)))
    BY <2>1, ClearAnswer
  <2> QED BY <1>3, <2>1, <2>2, PredictedStep
<1> QED BY <1>1, <1>2, <1>3, DetectStep, ListStep, CertifyStep, InitStep, CallingStep

\* What both sides know of keys and numbers always fits together: the requests
\* of a session follow the script, the keys the relay has stored are those of
\* sessions it has certified (gutes_relay.py 622-629), and every answer on its
\* way carries the number and the key of the request it is for.
THEOREM Invariant == Spec => []IndInv
<1>1. Init => IndInv
  BY Start
<1>2. IndInv /\ [Next]_vars => IndInv'
  BY AskStep, ReceiveStep, LoseStep, StartStep, HandleStep DEF Next
<1> QED BY <1>1, <1>2, PTL DEF Spec

\* The relay registers one client: the id of every request comes through the
\* cipher unharmed, in all modes of encryption (gutes_relay.py 113).
THEOREM RegistersOneClient == Spec => []OneClient
<1>1. Init => OneClient
  BY DEF Init, OneClient
<1>2. IndInv /\ OneClient /\ [Next]_vars => OneClient'
  <2> SUFFICES ASSUME IndInv, OneClient, [Next]_vars PROVE OneClient'
    OBVIOUS
  <2>1. ASSUME NEW r \in sent, NEW frames, Handles(r, frames)
        PROVE  OneClient'
    BY <2>1, HandledTook DEF OneClient, Took
  <2>2. ASSUME Handle
        PROVE  OneClient'
    BY <2>1, <2>2 DEF Handle, HandleDetect, HandleList, HandleCertify, HandleInit, HandlePredicted, HandleCalling
  <2>3. CASE UNCHANGED known
    BY <2>3 DEF OneClient
  <2>4. ~ Handle => UNCHANGED known
    BY DEF Next, Ask, Receive, Lose, StartSdk, relayVars, vars
  <2> QED BY <2>2, <2>3, <2>4
<1> QED BY <1>1, <1>2, Invariant, PTL DEF Spec

\* After CERTIFY the relay uses the key the SDK has, unless it handled the CERTIFY
\* twice and made a second server key (gutes_relay.py 622-629).
THEOREM KeysAgree == Spec => []KeysMatch
<1>1. IndInv => KeysMatch
  <2> SUFFICES ASSUME IndInv, sdk.key # NoKey, sdk.session \notin twice
               PROVE  KeyFor(addr_session_keys, sdk.port) = sdk.key
    BY DEF KeysMatch
  <2>1. sdk.step >= 4
    BY DEF IndInv, SdkInv, TypeInv
  <2>2. OwnKeys(addr_session_keys, sdk.port) = {sdk.key} /\ addr_session_keys \in Seq(Ports \X AllKeys)
    BY <2>1 DEF IndInv, KeyInv, TypeInv
  <2> QED BY <2>2, KeysFound
<1> QED BY <1>1, Invariant, PTL

\* CALLING is read with a wrong key only after a repeated CERTIFY, or when it
\* comes from the second socket of a restarted bridge (session_crypto.py 126-131).
THEOREM MisledByOldSessions == Spec => []OnlyOldSessionsMislead
<1>1. IndInv => OnlyOldSessionsMislead
  BY DEF IndInv, MisreadInv, OnlyOldSessionsMislead
<1> QED BY <1>1, Invariant, PTL

\* The SDK accepts every answer made for the request it waits for, as long as
\* no repeat has shifted the predictions and no key is stale (frame_builder.py
\* 291-366, gutes_relay.py 363-412).
THEOREM AnswersAccepted == Spec => []AnswersFit
<1>1. IndInv => AnswersFit
  <2> SUFFICES ASSUME IndInv, NEW a \in answers, a.to = sdk.request, ~ shifted, sdk.session \notin twice,
                      a.to.kind = "calling" => KeyFor(addr_session_keys, a.to.port) = sdk.key
               PROVE  Accepts(a.to, a.frame, sdk.key)
    BY DEF AnswersFit
  <2>1. PICK r, f : r = a.to /\ f = a.frame
    OBVIOUS
  <2>2. Answer(r, f) /\ r.kind \in Kinds /\ r.session = sdk.session
    BY <2>1 DEF IndInv, AnswerInv, TypeInv, Requests
  <2>3. CASE r.kind \in {"detect", "certify", "init", "subscribe", "ctl"}
    <3>1. Resp(f, Num(r.sq))
      BY <2>2, <2>3 DEF Answer
    <3> QED BY <2>1, <2>3, <3>1, RespTaken
  <2>4. CASE r.kind = "list"
    <3>1. f = build_list_resp
      BY <2>2, <2>4 DEF Answer
    <3> QED BY <2>1, <2>4, <3>1, ListAnswer, AcceptCases
  <2>5. CASE r.kind = "calling"
    BY <2>1, <2>2, <2>5 DEF Answer
  <2> QED BY <2>2, <2>3, <2>4, <2>5, SomeKind
<1> QED BY <1>1, Invariant, PTL

\* Unless a repeat has shifted addr_last_sqnum, it is 0 or the number of a
\* request of the running session, and the SDK never takes an answer for one to
\* another request (gutes_relay.py 363-370).
THEOREM MisledByRepeats == Spec => []OnlyRepeatsMislead
<1>1. IndInv => OnlyRepeatsMislead
  <2> SUFFICES ASSUME IndInv, ~ shifted
               PROVE  /\ ~ mismatched
                      /\ addr_last_sqnum[sdk.port] \in {0} \cup {r.sq : r \in {q \in done : q.session = sdk.session}}
    BY DEF OnlyRepeatsMislead
  <2>1. ASSUME NEW i \in 1 .. 7, Has(i), NumberIs(i)
        PROVE  addr_last_sqnum[sdk.port] \in {r.sq : r \in {q \in done : q.session = sdk.session}}
    <3>1. PICK r \in done : r.session = sdk.session /\ r.kind = Script[i]
      BY <2>1 DEF Has
    <3>2. r \in sent
      BY DEF IndInv, TypeInv
    <3>3. PICK j \in 1 .. 7 : Asked(r, j)
      BY <3>2 DEF IndInv, SdkInv
    <3>4. j = i
      BY <3>1, <3>3, Kind DEF Asked
    <3> QED BY <2>1, <3>1, <3>3, <3>4 DEF Asked, NumberIs
  <2>2. \/ addr_last_sqnum[sdk.port] = 0
        \/ (Has(3) /\ NumberIs(3)) \/ (Has(4) /\ NumberIs(4)) \/ (Has(5) /\ NumberIs(5)) \/ (Has(6) /\ NumberIs(6))
    BY DEF IndInv, NumberInv
  <2>3. 3 \in 1 .. 7 /\ 4 \in 1 .. 7 /\ 5 \in 1 .. 7 /\ 6 \in 1 .. 7
    OBVIOUS
  <2> QED BY <2>1, <2>2, <2>3 DEF IndInv, NumberInv
<1> QED BY <1>1, Invariant, PTL
=============================================================================
