---------------------------- MODULE FrameCodec ----------------------------
(***************************************************************************)
(* GUTES frames as the relay builds and reads them (frame_builder.py,      *)
(* session_crypto.py, rc5.py).                                             *)
(*                                                                         *)
(* A frame is a function from the indices of its 32-bit words: 0 is        *)
(* protocol, type and length, 1-2 the id, 3 the sqnum, 4 the chkval, 5     *)
(* opt_flags, 6 flags2 and ack_result, 7 (offset 0x1C) what HEADER_SIZE    *)
(* calls the payload.  A word is the set of the terms whose XOR it is, so  *)
(* that XOR is the symmetric difference and zero the empty set.  A block   *)
(* encrypted under a key is a term that only the same key, applied to the  *)
(* same block, takes apart; RC5 says why this is right.                    *)
(***************************************************************************)
EXTENDS Naturals, Sequences, FiniteSetsExt, Functions

Zero     == {}
Term(t)  == {t}
Num(n)   == Term(<<"num", n>>)
Val(v)   == Term(<<"val", v>>)
Opt(o)   == Term(<<"opt", o>>)

XorWords(k, l) == [j \in DOMAIN k |-> SymDiff(k[j], l[j])]

-----------------------------------------------------------------------------
(* The cipher, on blocks of two words or of four                           *)

Undoing(op) == IF op = "enc" THEN "dec" ELSE "enc"

Cipher(op, k, b) ==
  IF \E t \in b[1] :
       t[1] = Undoing(op) /\ t[2] = k /\ b = [j \in DOMAIN b |-> Term(<<Undoing(op), k, t[3], j>>)]
  THEN (CHOOSE t \in b[1] : TRUE)[3]
  ELSE [j \in DOMAIN b |-> Term(<<op, k, b, j>>)]

Enc(k, b) == Cipher("enc", k, b)
Dec(k, b) == Cipher("dec", k, b)

\* ECB over the full blocks of the words first .. last of a frame.
Ecb(op, k, f, first, last) ==
  LET start(j) == first + 2 * ((j - first) \div 2)
  IN [j \in DOMAIN f |->
        IF first <= j /\ start(j) < last
        THEN Cipher(op, k, <<f[start(j)], f[start(j) + 1]>>)[1 + j - start(j)]
        ELSE f[j]]

Last(f) == Max(DOMAIN f)

GWELL_KEY == <<Term(<<"www.gwell.cc">>)>>

HighBits == {<<"opt", "ntp">>, <<"opt", "relay">>}   \* above opt_flags & 0x00FFFFFF

derive_per_frame_key(f) == <<f[0], f[5] \ HighBits>>

XorId(f) == [f EXCEPT ![1] = SymDiff(@, f[3]), ![2] = SymDiff(@, f[4])]

\* Of a frame whose sqnum and chkval are already what goes over the wire.
id_encrypt(f) == Ecb("enc", GWELL_KEY, XorId(f), 1, 2)
id_decrypt_XorFirst(f) == Ecb("dec", GWELL_KEY, XorId(f), 1, 2)   \* mutant: in the order of id_encrypt
id_decrypt(f) == XorId(Ecb("dec", GWELL_KEY, f, 1, 2))

\* The XOR of all words but the chkval: the terms that are in an odd number.
compute_chkval(f) ==
  LET word == [f EXCEPT ![4] = Zero, ![5] = @ \ HighBits]
  IN {t \in UNION Range(word) : Cardinality({j \in DOMAIN word : t \in word[j]}) % 2 = 1}

-----------------------------------------------------------------------------
(* Builders.  An id is a pair of words, a body the words from offset 0x18  *)
(* on, zero where it ends; the values of single fields that nothing        *)
(* depends on are not distinguished.                                       *)

ServerId    == <<Term(<<"server", 1>>), Term(<<"server", 2>>)>>
ServerSqnum == Term(<<"server sqnum">>)      \* next_sqnum: never 0, never a client's
Nonce       == Opt("nonce")

Frame(type, len, id, sqnum, chkval, flags, body) ==
  LET header == <<Term(<<"hdr", type, len>>), id[1], id[2], sqnum, chkval, flags>>
  IN [j \in 0 .. len - 1 |-> IF j < 6 THEN header[j + 1]
                             ELSE IF j - 5 \in DOMAIN body THEN body[j - 5] ELSE Zero]

SetChkval(f) == [f EXCEPT ![4] = compute_chkval(f)]

\* Answers that opt_resp routes by their chkval, the sqnum of the request.
RespFlags == Opt("resp") \cup Opt("relay")

build_detect_resp(sqnum) ==
  Frame("DETECT_RESP", 14, ServerId, ServerSqnum, sqnum, Nonce \cup Opt("resp"),
        <<Num(1), Val("uptime"), Zero, Val("mtu"), Val("uptime"), Zero, Val("now"), Num(1)>>)

build_list_resp ==
  SetChkval(Frame("LIST_RESP", 17, ServerId, ServerSqnum, Zero, Nonce,
        <<Zero, Val("one server"), Val("our ip"), Zero, Zero, Zero, Zero, Zero, Val("port"), Val("port")>>))

build_init_info_resp(id, sqnum) ==
  Frame("INIT_INFO", 16, id, ServerSqnum, sqnum, Nonce \cup RespFlags,
        <<Num(1), Val("one online"), Val("did"), Zero, Zero, Val("online")>>)

build_subscribe_resp(id, sqnum) == Frame("SUBSCRIBE_RESP", 13, id, ServerSqnum, sqnum, RespFlags, <<>>)
build_session_ctl_resp(id, sqnum) ==
  Frame("SESSION_CTL_RESP", 13, id, ServerSqnum, sqnum, RespFlags, <<>>)

\* The CERTIFY_RESP of _handle_certify_local: encrypted from offset 0x18.
build_certify_resp_Payload(sid, server_key, sqnum) ==   \* mutant: encrypted from HEADER_SIZE
  LET f == Frame("CERTIFY_RESP", 20, ServerId, ServerSqnum, sqnum,
                 Nonce \cup Opt("enc1") \cup Opt("resp"),
                 <<Num(1), sid[1], sid[2]>> \o server_key)
      pfk == derive_per_frame_key(f)
  IN Ecb("enc", pfk, Ecb("enc", pfk, f, 7, Last(f)), 3, 4)
build_certify_resp(sid, server_key, sqnum) ==
  LET f == Frame("CERTIFY_RESP", 20, ServerId, ServerSqnum, sqnum,
                 Nonce \cup Opt("enc1") \cup Opt("resp"),
                 <<Num(1), sid[1], sid[2]>> \o server_key)
      pfk == derive_per_frame_key(f)
  IN Ecb("enc", pfk, Ecb("enc", pfk, f, 6, Last(f)), 3, 4)

\* Payload, then sqnum and chkval, then the id; unlike id_encrypt the id is
\* encrypted first and combined with the encrypted sqnum and chkval after it.
build_calling_ack_Late(key, id, sqnum) ==   \* mutant: the checksum of the encrypted payload
  LET f == Frame("CALLING", 10, id, sqnum, Zero,
                 Nonce \cup Opt("enc2") \cup Opt("ack") \cup Opt("relay"),
                 <<Num(1), Zero, Val("doorbell ip"), Val("doorbell port")>>)
      g == SetChkval(Ecb("enc", key, f, 6, Last(f)))
  IN XorId(Ecb("enc", GWELL_KEY, Ecb("enc", key, g, 3, 4), 1, 2))
build_calling_ack(key, id, sqnum) ==
  LET f == SetChkval(Frame("CALLING", 10, id, sqnum, Zero,
                 Nonce \cup Opt("enc2") \cup Opt("ack") \cup Opt("relay"),
                 <<Num(1), Zero, Val("doorbell ip"), Val("doorbell port")>>))
      g == Ecb("enc", key, f, 6, Last(f))
  IN XorId(Ecb("enc", GWELL_KEY, Ecb("enc", key, g, 3, 4), 1, 2))

build_mtp_res_resp(id, link_id) ==
  SetChkval(Frame("MTP_RES_RESP", 31, id, ServerSqnum, Zero, Opt("relay"),
        <<Num(3), link_id, Zero, Zero, Zero, Zero, Val("v4"), Zero, Zero, Val("our ip"), Val("our ip"),
          Zero, Zero, Zero, Zero, Val("v4"), Val("doorbell ports"), Val("doorbell port"),
          Val("1.2.3.4"), Val("doorbell ip")>>))

-----------------------------------------------------------------------------
(* Readers                                                                 *)

NoKey == <<>>

EncryptMode(f) ==
  IF <<"opt", "enc1">> \in f[5] THEN 1 ELSE IF <<"opt", "enc2">> \in f[5] THEN 2 ELSE 0

\* key: the session key found for the sender, NoKey when none was looked for
\* or found.
extract_request_sequence_number(f, key) ==
  CASE EncryptMode(f) = 0 -> f[3]
    [] EncryptMode(f) = 2 /\ key # NoKey -> Dec(key, <<f[3], f[4]>>)[1]
    [] OTHER -> Dec(derive_per_frame_key(f), <<f[3], f[4]>>)[1]

NoLinkId == Term(<<"link counter">>)   \* mtp_link_counter is used instead

extract_calling_link_id(f, key) ==
  CASE EncryptMode(f) = 0 -> f[7]
    [] EncryptMode(f) = 1 -> Dec(derive_per_frame_key(f), <<f[6], f[7]>>)[2]
    [] EncryptMode(f) = 2 /\ key # NoKey -> Dec(key, <<f[6], f[7]>>)[2]
    [] OTHER -> NoLinkId

\* The payload of a CERTIFY_REQ, read by _handle_certify_local: the session id
\* is its first 8 bytes, the hash of the client's key the second half of it.
CertifyPayload(f) == IF EncryptMode(f) = 1 THEN Ecb("dec", derive_per_frame_key(f), f, 6, Last(f)) ELSE f

\* decrypt_session_key: two blocks of four words under the certify key.
decrypt_session_key(certify_key, f) ==
  Dec(certify_key, [j \in 1 .. 4 |-> f[7 + j]]) \o Dec(certify_key, [j \in 1 .. 4 |-> f[11 + j]])

giot_hash_string(key) == Term(<<"hash", key>>)
=============================================================================
