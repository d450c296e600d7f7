----------------------------- MODULE Signaling -----------------------------
(***************************************************************************)
(* The handshake of the bridge's SDK with the relay over UDP in relay mode *)
(* (handle_packet in gutes_relay.py), down to the words of the frames.     *)
(*                                                                         *)
(* The relay cannot always read a request, so it predicts its sqnum; the   *)
(* SDK finds the request an answer belongs to by nothing but that number.  *)
(* The SDK repeats a request it gets no answer to, so that the relay may   *)
(* handle it more than once, early or late, and answers overtake each      *)
(* other or get lost.  A restarted bridge has new ports and a new key.     *)
(***************************************************************************)
EXTENDS FrameCodec, FiniteSets

CONSTANTS
  Ports,         \* UDP ports of the bridge's host
  CallPort,      \* the port of the SDK's second socket
  MaxSessions,   \* bound: starts of the SDK
  MaxRepeats     \* bound: requests the relay handles once more

ASSUME PortsAssumption  == CallPort \in Ports /\ Ports # {CallPort}
ASSUME BoundsAssumption == MaxSessions \in Nat /\ MaxRepeats \in Nat

VARIABLES
  sdk,        \* session, port, key, number last used, step and request of the SDK
  hook,       \* the bridge runs with the hook that captures the key
  captured,   \* the key in session_key_extracted.bin
  addr_session_keys,   \* <<port, key>> in the order of insertion
  addr_session_id,     \* <<port, id>>, likewise
  addr_last_sqnum,
  known,      \* ids in clients
  served,     \* server keys made so far
  sent, done, \* requests sent, and those the relay has handled
  repeats,
  answers,    \* answers on the way to the SDK, with the request they are for
  shifted,    \* a request of this session handled twice has moved addr_last_sqnum
  twice,      \* sessions whose CERTIFY was handled twice
  mismatched, \* the SDK has taken an answer for one to another request
  misread     \* CALLINGs of the running session read with a wrong key

relayVars == <<addr_session_keys, addr_session_id, addr_last_sqnum, known, served>>
history   == <<shifted, twice, mismatched, misread>>
vars == <<sdk, hook, captured, relayVars, sent, done, repeats, answers, history>>

Script == <<"detect", "list", "certify", "init", "subscribe", "ctl", "calling">>
NoRequest == [kind |-> "none", sq |-> 0, port |-> CallPort, session |-> 0, key |-> NoKey]

Init ==
  /\ sdk = [session |-> 0, port |-> CallPort, key |-> NoKey, sq |-> 0, step |-> 1, request |-> NoRequest]
  /\ hook \in BOOLEAN
  /\ captured = NoKey
  /\ addr_session_keys = <<>>
  /\ addr_session_id = <<>>
  /\ addr_last_sqnum = [p \in Ports |-> 0]
  /\ known = {} /\ served = 0
  /\ sent = {} /\ done = {} /\ repeats = 0 /\ answers = {}
  /\ shifted = FALSE /\ twice = {} /\ mismatched = FALSE /\ misread = {}

-----------------------------------------------------------------------------
(* The frames of the SDK, as the relay's readers expect them               *)

ClientId     == <<Term(<<"client", 1>>), Term(<<"client", 2>>)>>
CertifyKey   == [j \in 1 .. 4 |-> Term(<<"certify key", j>>)]
ClientKey(n) == [j \in 1 .. 8 |-> Term(<<"client key", n, j>>)]
ServerKey(n) == [j \in 1 .. 8 |-> Term(<<"server key", n, j>>)]
LinkId(n)    == Term(<<"link", n>>)

\* Payload, sqnum and chkval under key, the id over what they have become.
Seal(f, key) == id_encrypt(Ecb("enc", key, Ecb("enc", key, SetChkval(f), 6, Last(f)), 3, 4))

CertifyBody(n) ==
  LET key == ClientKey(n)
  IN <<Zero, giot_hash_string(key)>>
       \o Enc(CertifyKey, SubSeq(key, 1, 4)) \o Enc(CertifyKey, SubSeq(key, 5, 8))

RequestFrame(r) ==
  LET Plain(type, len, mode, body) ==
        Frame(type, len, ClientId, Num(r.sq), Zero, Nonce \cup mode, body)
      Sealed1(f) == Seal(f, derive_per_frame_key(f))
  IN CASE r.kind = "detect"    -> Sealed1(Plain("DETECT_REQ", 8, Opt("enc1"), <<>>))
       [] r.kind = "list"      -> id_encrypt(SetChkval(Plain("LIST_REQ", 8, Zero, <<>>)))
       [] r.kind = "certify"   -> Sealed1(Plain("CERTIFY", 16, Opt("enc1"), CertifyBody(r.session)))
       [] r.kind = "init"      -> Seal(Plain("INIT_INFO", 8, Opt("enc2"), <<>>), r.key)
       [] r.kind = "subscribe" -> Seal(Plain("SUBSCRIBE", 8, Opt("enc2"), <<>>), r.key)
       [] r.kind = "ctl"       -> Seal(Plain("SESSION_CTL", 8, Opt("enc2"), <<>>), r.key)
       [] r.kind = "calling"   -> Seal(Plain("CALLING", 8, Opt("enc2"), <<Zero, LinkId(r.session)>>), r.key)

\* What the SDK makes of a frame, and whether it is an answer to request r.  It
\* undoes the encryption of the id in the order build_calling_ack applies it.
Opened(f, key) ==
  LET Id(g) == Ecb("dec", GWELL_KEY, XorId(g), 1, 2)
      Open(k) == Ecb("dec", k, Ecb("dec", k, Id(f), 6, Last(f)), 3, 4)
  IN CASE EncryptMode(f) = 0 -> f
       [] EncryptMode(f) = 1 -> Open(derive_per_frame_key(f))
       [] EncryptMode(f) = 2 -> Open(key)

Verified(f) == f[4] = compute_chkval(f)

IsResp(f) == <<"opt", "resp">> \in f[5]
IsAck(f)  == <<"opt", "ack">> \in f[5]

Accepts(r, f, key) ==
  LET g == Opened(f, key)
  IN CASE IsResp(f) -> r.kind \notin {"none", "list", "calling"} /\ g[4] = Num(r.sq)
       [] IsAck(f)  -> r.kind = "calling" /\ Verified(g) /\ g[3] = Num(r.sq)
       [] OTHER     -> /\ Verified(g)
                       /\ \/ r.kind = "list" /\ g[0] = Term(<<"hdr", "LIST_RESP", 17>>)
                          \/ r.kind = "calling" /\ g[7] = LinkId(r.session)

-----------------------------------------------------------------------------
(* Steps of the SDK                                                        *)

\* Up to CERTIFY numbers are consecutive; INIT_INFO follows CERTIFY at once,
\* afterwards the SDK acknowledges each answer with a frame of its own.
Ask ==
  /\ sdk.session > 0 /\ sdk.request = NoRequest /\ sdk.step <= Len(Script)
  /\ \E p \in IF Script[sdk.step] = "calling" THEN {sdk.port, CallPort} ELSE {sdk.port} :
       LET r == [kind |-> Script[sdk.step], port |-> p, session |-> sdk.session, key |-> sdk.key,
                 sq |-> IF sdk.step > 4 THEN sdk.sq + 2 ELSE sdk.sq + 1]
       IN /\ sdk' = [sdk EXCEPT !.request = r, !.sq = r.sq]
          /\ sent' = sent \cup {r}
  /\ UNCHANGED <<hook, captured, relayVars, done, repeats, answers, history>>

\* Answers that do not fit are dropped.  The CALLING_ACK leaves the SDK
\* waiting for MTP_RES_RESP.  With the key installed, the hook captures it.
Receive ==
  \E a \in answers :
    LET r == sdk.request
        f == Opened(a.frame, sdk.key)
        key == IF r.kind # "certify" THEN sdk.key
               ELSE XorWords(ClientKey(sdk.session), [j \in 1 .. 8 |-> f[8 + j]])
    IN /\ answers' = answers \ {a}
       /\ IF Accepts(r, a.frame, sdk.key)
          THEN /\ sdk' = IF IsAck(a.frame) THEN sdk
                         ELSE [sdk EXCEPT !.request = NoRequest, !.step = @ + 1, !.key = key]
               /\ captured' = IF hook /\ r.kind = "certify" THEN key ELSE captured
               /\ mismatched' = (mismatched \/ a.to # r)
          ELSE UNCHANGED <<sdk, captured, mismatched>>
       /\ UNCHANGED <<hook, relayVars, sent, done, repeats, shifted, twice, misread>>

Lose ==
  \E a \in answers :
    /\ answers' = answers \ {a}
    /\ UNCHANGED <<sdk, hook, captured, relayVars, sent, done, repeats, history>>

\* The bridge starts, or gives up and is started again.
StartSdk ==
  /\ sdk.session < MaxSessions
  /\ \E p \in Ports \ ({CallPort} \cup {r.port : r \in sent}) :
       sdk' = [session |-> sdk.session + 1, port |-> p, key |-> NoKey, sq |-> 10 * (sdk.session + 1),
               step |-> 1, request |-> NoRequest]
  /\ answers' = {}
  /\ shifted' = FALSE /\ mismatched' = FALSE
  /\ UNCHANGED <<hook, captured, relayVars, sent, done, repeats, twice, misread>>

-----------------------------------------------------------------------------
(* The relay: handle_packet                                                *)

decode_term_id(f) == <<id_decrypt(f)[1], id_decrypt(f)[2]>>

OwnKeys(keys, p) == {keys[j][2] : j \in {j \in DOMAIN keys : keys[j][1] = p}}

\* addr_session_keys.get(addr), else the first key of the same host.
KeyFor_First(keys, p) == IF keys # <<>> THEN keys[1][2] ELSE NoKey   \* mutant: by host only
KeyFor(keys, p) ==
  IF OwnKeys(keys, p) # {} THEN CHOOSE k \in OwnKeys(keys, p) : TRUE
  ELSE IF keys # <<>> THEN keys[1][2] ELSE NoKey

StoreKey(keys, p, k) ==
  IF OwnKeys(keys, p) = {} THEN Append(keys, <<p, k>>)
  ELSE [j \in DOMAIN keys |-> IF keys[j][1] = p THEN <<p, k>> ELSE keys[j]]

\* The session id of the address; INIT_INFO_RESP and CALLING_ACK fall back to the
\* first one of the same host.
SessionId(p) ==
  IF OwnKeys(addr_session_id, p) # {} THEN CHOOSE i \in OwnKeys(addr_session_id, p) : TRUE ELSE ServerId
HostId(p) == IF addr_session_id # <<>> THEN KeyFor(addr_session_id, p) ELSE ServerId

\* The relay takes request r and sends the frames; history: is it a repeat?
Handles(r, frames) ==
  LET again == r \in done
      current == r.session = sdk.session
  IN /\ again => repeats < MaxRepeats
     /\ repeats' = IF again THEN repeats + 1 ELSE repeats
     /\ done' = done \cup {r}
     /\ known' = known \cup {decode_term_id(RequestFrame(r))}
     /\ answers' = answers \cup (IF current THEN {[to |-> r, frame |-> f] : f \in frames} ELSE {})
     /\ shifted' = (shifted \/ (again /\ current /\ addr_last_sqnum' # addr_last_sqnum))
     /\ twice' = twice \cup (IF again /\ r.kind = "certify" THEN {r.session} ELSE {})
     /\ UNCHANGED <<sdk, hook, captured, sent, mismatched>>

HandleDetect(r) ==
  /\ UNCHANGED <<addr_session_keys, addr_session_id, addr_last_sqnum, served, misread>>
  /\ Handles(r, {build_detect_resp(extract_request_sequence_number(RequestFrame(r), NoKey))})

HandleList(r) ==
  /\ UNCHANGED <<addr_session_keys, addr_session_id, addr_last_sqnum, served, misread>>
  /\ Handles(r, {build_list_resp})

\* A word the relay has read as a number; 0 stands for garbage.
Value(word) == IF \E r \in sent : word = Num(r.sq) THEN (CHOOSE r \in sent : word = Num(r.sq)).sq ELSE 0

\* _handle_certify_local with a certify key that fits: each time the request
\* is handled the relay makes another server key.
HandleCertify(r) ==
  LET f == RequestFrame(r)
      payload == CertifyPayload(f)
      key == decrypt_session_key(CertifyKey, payload)
      sid == <<payload[6], payload[7]>>
      sqnum == extract_request_sequence_number(f, NoKey)
  IN /\ giot_hash_string(key) = payload[7]
     /\ served' = served + 1
     /\ addr_session_keys' = StoreKey(addr_session_keys, r.port, XorWords(key, ServerKey(served + 1)))
     /\ addr_session_id' = StoreKey(addr_session_id, r.port, sid)
     /\ addr_last_sqnum' = [addr_last_sqnum EXCEPT ![r.port] = Value(sqnum)]
     /\ UNCHANGED misread
     /\ Handles(r, {build_certify_resp(sid, ServerKey(served + 1), sqnum)})

\* INIT_INFO: a captured key replaces a different one.
HandleInit(r) ==
  LET keys == IF captured # NoKey THEN StoreKey(addr_session_keys, r.port, captured)
              ELSE addr_session_keys
      sqnum == extract_request_sequence_number(RequestFrame(r), KeyFor(keys, r.port))
  IN /\ OwnKeys(keys, r.port) # {}
     /\ addr_session_keys' = keys
     /\ addr_last_sqnum' = [addr_last_sqnum EXCEPT ![r.port] = Value(sqnum)]
     /\ UNCHANGED <<addr_session_id, served, misread>>
     /\ Handles(r, {build_init_info_resp(HostId(r.port), sqnum)})

\* The number of the next SUBSCRIBE or SESSION_CTL, which the relay cannot read:
\* the SDK acknowledges each answer with a frame of its own.
Predicted_Plus1(p) == addr_last_sqnum[p] + 1    \* mutant: that frame is forgotten
Predicted(p) == addr_last_sqnum[p] + 2

HandlePredicted(r, answer) ==
  /\ addr_last_sqnum' = [addr_last_sqnum EXCEPT ![r.port] = Predicted(r.port)]
  /\ UNCHANGED <<addr_session_keys, addr_session_id, served, misread>>
  /\ Handles(r, {answer})

\* CALLING: a captured key is taken for an address without one; the answer is
\* CALLING_ACK, when there is a key, and MTP_RES_RESP.
HandleCalling(r) ==
  LET keys == IF captured # NoKey /\ OwnKeys(addr_session_keys, r.port) = {}
              THEN StoreKey(addr_session_keys, r.port, captured) ELSE addr_session_keys
      key == KeyFor(keys, r.port)
      f == RequestFrame(r)
      sqnum == extract_request_sequence_number(f, key)
      ack == IF key = NoKey THEN {} ELSE {build_calling_ack(key, HostId(r.port), sqnum)}
  IN /\ addr_session_keys' = keys
     /\ misread' = misread \cup (IF key = r.key \/ r.session # sdk.session THEN {} ELSE {r})
     /\ UNCHANGED <<addr_session_id, addr_last_sqnum, served>>
     /\ Handles(r, ack \cup {build_mtp_res_resp(SessionId(r.port), extract_calling_link_id(f, key))})

Handle ==
  \E r \in sent :
    \/ r.kind = "detect" /\ HandleDetect(r)
    \/ r.kind = "list" /\ HandleList(r)
    \/ r.kind = "certify" /\ HandleCertify(r)
    \/ r.kind = "init" /\ HandleInit(r)
    \/ /\ r.kind = "subscribe"
       /\ HandlePredicted(r, build_subscribe_resp(SessionId(r.port), Num(Predicted(r.port))))
    \/ /\ r.kind = "ctl"
       /\ HandlePredicted(r, build_session_ctl_resp(SessionId(r.port), Num(Predicted(r.port))))
    \/ r.kind = "calling" /\ HandleCalling(r)

Next == Ask \/ Receive \/ Lose \/ StartSdk \/ Handle

Spec == Init /\ [][Next]_vars

-----------------------------------------------------------------------------
(* Properties                                                              *)

\* The id of every frame is read right, in all modes of encryption: the relay
\* registers one client and routes nothing to phantoms (gutes_relay.py 113).
OneClient == known \subseteq {ClientId}

\* After CERTIFY both sides have the same key, unless the relay handled the
\* CERTIFY twice: it makes a new server key each time (gutes_relay.py 622-629),
\* while the SDK keeps that of the answer that came first.
KeysMatch ==
  sdk.key # NoKey /\ sdk.session \notin twice => KeyFor(addr_session_keys, sdk.port) = sdk.key

\* Every CALLING of the running session is read with the key of its session,
\* unless the CERTIFY of that session was repeated or the CALLING comes from the
\* second socket of a restarted bridge: by IP alone the relay finds the oldest
\* key (session_crypto.py 128).
OnlyOldSessionsMislead ==
  \A r \in misread : r.session \in twice \/ (r.port = CallPort /\ r.session > 1)

\* Every answer is one the SDK takes for the request it was made for: the
\* relay reads or predicts the sqnum right, fills in the checksums and encrypts
\* what the SDK decrypts, as long as no prediction was shifted and no key is
\* stale (frame_builder.py 291-366, gutes_relay.py 363-412).
AnswersFit ==
  \A a \in answers :
    a.to = sdk.request /\ ~ shifted /\ sdk.session \notin twice
      /\ (a.to.kind = "calling" => KeyFor(addr_session_keys, a.to.port) = sdk.key)
    => Accepts(a.to, a.frame, sdk.key)

\* Unless a request handled twice has moved addr_last_sqnum, so that the
\* predictions run ahead of the requests or behind them, it is the number of a
\* request of the session the relay has seen, and the SDK never takes the
\* answer to one request for the answer to another (gutes_relay.py 363-370).
OnlyRepeatsMislead ==
  ~ shifted =>
    /\ ~ mismatched
    /\ addr_last_sqnum[sdk.port] \in {0} \cup {r.sq : r \in {q \in done : q.session = sdk.session}}
=============================================================================
