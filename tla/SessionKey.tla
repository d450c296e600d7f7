----------------------------- MODULE SessionKey -----------------------------
(***************************************************************************)
(* How the relay learns the session key of the bridge's SDK.               *)
(*                                                                         *)
(* The SDK makes a new key at every CERTIFY.  A preloaded hook             *)
(* (bionic_interpose.c) copies the key to memory and into a file when the  *)
(* SDK installs it; main (main.cpp, daemon.cpp, session_key.cpp) writes    *)
(* the file once more; the relay (session_crypto.py, gutes_relay.py) reads *)
(* it when the bridge sends CERTIFY, INIT_INFO or CALLING.  SDK thread,    *)
(* main thread and relay interleave; the file outlives the processes.      *)
(*                                                                         *)
(* A key is the number of the CERTIFY it was made for.  Either side derives *)
(* it with the random number of one CERTIFY_RESP; what the relay derives    *)
(* when it handles a copy of the request is a key the SDK does not have.    *)
(***************************************************************************)
EXTENDS Naturals

CONSTANTS
  MaxKeys,   \* bound: CERTIFY exchanges
  None,      \* no file, no key
  Blank,     \* a file truncated and not written yet
  Foreign,   \* Mars's server_key, stored in place of a session key
  Stray      \* a key derived from a copy of a CERTIFY

Keys == 1 .. MaxKeys

ASSUME MaxKeysAssumption == MaxKeys \in Nat
ASSUME NoKeyAssumption   ==
  /\ {None, Blank, Foreign, Stray} \cap Nat = {}
  /\ None # Blank /\ None # Foreign /\ None # Stray
  /\ Blank # Foreign /\ Blank # Stray /\ Foreign # Stray

VARIABLES
  sdk,      \* phase of the SDK's session with the relay
  made,     \* the key of its last CERTIFY (0: none yet)
  file,     \* contents of session_key_extracted.bin
  hooked,   \* _session_key, the copy in memory
  writer,   \* main's step: "wait", "got", "opened" or "done"
  copied,   \* the key main has copied from memory
  faults,   \* what befell the present session (history)
  addrKey,  \* the relay's addr_session_keys for the bridge's address
  termKey,  \* the relay's session_keys for the bridge's term id
  cached,   \* the key of that term id in session_keys.json
  used      \* whether the relay's last use of its key in the present session
            \* was "right" or "wrong"

bridgeVars == <<sdk, made, hooked>>
mainVars   == <<writer, copied>>
relayVars  == <<addrKey, termKey, cached>>
vars == <<bridgeVars, file, mainVars, relayVars, faults, used>>

\* "certified": CERTIFY_RESP received; "hooked": the key is in memory;
\* "opened": the hook has opened the file; "installed": the SDK uses the key;
\* "online": INIT_INFO answered.
Phases == {"off", "certified", "hooked", "opened", "installed", "online"}

\* "repeated": the relay handled a copy of a CERTIFY; "unsaved": the hook could
\* not open or write the file; "rewritten": main opened or wrote it.
Faults == {"repeated", "unsaved", "rewritten"}

TypeOK ==
  /\ sdk \in Phases
  /\ made \in 0 .. MaxKeys
  /\ file \in Keys \cup {None, Blank}
  /\ hooked \in Keys \cup {None}
  /\ writer \in {"wait", "got", "opened", "done"}
  /\ copied \in Keys \cup {None}
  /\ faults \subseteq Faults
  /\ addrKey \in Keys \cup {None, Blank, Stray}
  /\ termKey \in Keys \cup {None, Blank, Foreign, Stray}
  /\ cached \in Keys \cup {None, Blank, Foreign, Stray}
  /\ used \in {"no", "right", "wrong"}
  /\ sdk # "off" => made \in Keys
  /\ writer \in {"got", "opened"} => copied \in Keys

Init ==
  /\ sdk = "off" /\ made = 0
  /\ file = None /\ hooked = None
  /\ writer = "wait" /\ copied = None
  /\ addrKey = None /\ termKey = None /\ cached = None
  /\ faults = {} /\ used = "no"

-----------------------------------------------------------------------------
(* The relay                                                               *)

\* load_bridge_captured_session_key: 32 bytes or nothing.  (Its three paths are
\* mount points of one directory.)
Loaded_AnySize == file         \* mutant: the length is not checked
Loaded == IF file = Blank THEN None ELSE file

\* The relay uses k, if it has a key, as the session key of the SDK.
Judge(k) ==
  used' = IF k = None THEN used ELSE IF k = made THEN "right" ELSE "wrong"

\* _handle_certify_local, for a request from the present address of the bridge or
\* not.  Verified: k is derived.  Else the relay takes the captured key, or asks
\* Mars: its answer puts server_key into session_keys; no answer leaves the keys
\* alone.  What went into session_keys is persisted.
CertifiedWith(k, here) ==
  \E new \in {k} \cup ({Loaded} \ {None}) :
    /\ addrKey' = IF here THEN new ELSE addrKey
    /\ termKey' = new /\ cached' = new

RelayCertifies(k, here) ==
  \/ CertifiedWith(k, here)
  \/ Loaded = None /\ addrKey' = addrKey /\ termKey' = Foreign /\ cached' = Foreign
  \/ Loaded = None /\ UNCHANGED relayVars

\* CERTIFY_REQ of a new session; the SDK gets a CERTIFY_RESP anyhow.
CertifyHandled ==
  /\ sdk \in {"off", "installed", "online"}
  /\ made < MaxKeys
  /\ made' = made + 1
  /\ sdk' = "certified"
  /\ RelayCertifies(made', TRUE)
  /\ faults' = {} /\ used' = "no"
  /\ UNCHANGED <<file, hooked, mainVars>>

\* A copy of a CERTIFY_REQ that was handled: the datagram was repeated or is
\* late, perhaps from the port of an earlier process.
CertifyRepeated ==
  /\ made > 0
  /\ \E here \in BOOLEAN :
       /\ here => sdk # "off"
       /\ RelayCertifies(Stray, here)
  /\ faults' = faults \cup {"repeated"}
  /\ UNCHANGED <<bridgeVars, file, mainVars, used>>

\* INIT_INFO replaces the key of the address by a captured one that differs.
Refresh_IfMissing ==           \* mutant: only when there is none, as CALLING does
  Loaded # None /\ addrKey = None
Refresh == Loaded # None /\ addrKey # Loaded

\* Answered with the key of the address; without one it goes to Mars.
InitInfoHandled ==
  /\ sdk = "installed"
  /\ sdk' = "online"
  /\ addrKey' = IF Refresh THEN Loaded ELSE addrKey
  /\ termKey' = IF Refresh THEN Loaded ELSE termKey
  /\ Judge(addrKey')
  /\ UNCHANGED <<made, hooked, file, mainVars, cached, faults>>

\* CALLING_REQ: a captured key is taken only for an address that has none;
\* the payload is decrypted with the key of the term id, from memory or from
\* session_keys.json, or else with that of the address.
CallingTakes == Loaded # None /\ addrKey = None

CallingHandled ==
  /\ sdk = "online"
  /\ addrKey' = IF CallingTakes THEN Loaded ELSE addrKey
  /\ termKey' = CASE CallingTakes                   -> Loaded
                  [] ~ CallingTakes /\ termKey = None -> cached
                  [] ~ CallingTakes /\ termKey # None -> termKey
  /\ Judge(IF termKey' = None THEN addrKey' ELSE termKey')
  /\ UNCHANGED <<bridgeVars, file, mainVars, cached, faults>>

RelayRestarts ==
  /\ addrKey' = None /\ termKey' = None
  /\ UNCHANGED <<bridgeVars, file, mainVars, cached, faults, used>>

-----------------------------------------------------------------------------
(* The SDK thread in rc5_ctx_setkey                                        *)

SetKeyCaptures ==
  /\ sdk = "certified"
  /\ sdk' = "hooked"
  /\ hooked' = made
  /\ UNCHANGED <<made, file, mainVars, relayVars, faults, used>>

\* _write_session_key_file, outside the mutex: open with O_TRUNC, then write.
SetKeyOpens ==
  /\ sdk = "hooked"
  /\ sdk' = "opened"
  /\ file' = Blank
  /\ UNCHANGED <<made, hooked, mainVars, relayVars, faults, used>>

SetKeyWrites ==
  /\ sdk = "opened"
  /\ sdk' = "installed"
  /\ file' = made
  /\ UNCHANGED <<made, hooked, mainVars, relayVars, faults, used>>

\* open() fails, with a warning, or write() does, which nobody notices; the file
\* keeps what it has and the SDK installs the key all the same.
SetKeyFails ==
  /\ sdk \in {"hooked", "opened"}
  /\ sdk' = "installed"
  /\ faults' = faults \cup {"unsaved"}
  /\ UNCHANGED <<made, hooked, file, mainVars, relayVars, used>>

-----------------------------------------------------------------------------
(* The main thread after APP_ONLINE, and a restart of the bridge           *)

\* session_key::wait_for, once the hook has a key.  main forces APP_ONLINE when
\* it does not come, so the SDK may still be anywhere in rc5_ctx_setkey.
MainCopies ==
  /\ writer = "wait" /\ sdk # "off"
  /\ hooked # None
  /\ writer' = "got"
  /\ copied' = hooked
  /\ UNCHANGED <<bridgeVars, file, relayVars, faults, used>>

MainOpens ==
  /\ writer = "got"
  /\ writer' = "opened"
  /\ file' = Blank
  /\ faults' = faults \cup {"rewritten"}
  /\ UNCHANGED <<bridgeVars, copied, relayVars, used>>

MainWrites ==
  /\ writer = "opened"
  /\ writer' = "done"
  /\ file' = copied
  /\ faults' = faults \cup {"rewritten"}
  /\ UNCHANGED <<bridgeVars, copied, relayVars, used>>

\* open() or write() fails: write_to_file returns false, which main ignores.
MainFails ==
  /\ writer \in {"got", "opened"}
  /\ writer' = "done"
  /\ UNCHANGED <<bridgeVars, file, copied, relayVars, faults, used>>

\* At any point, between open and write too; the new process has a new port.
BridgeRestarts ==
  /\ sdk # "off"
  /\ sdk' = "off" /\ hooked' = None
  /\ writer' = "wait" /\ copied' = None
  /\ addrKey' = None
  /\ UNCHANGED <<made, file, termKey, cached, faults, used>>

Next ==
  \/ CertifyHandled \/ CertifyRepeated
  \/ InitInfoHandled \/ CallingHandled \/ RelayRestarts
  \/ SetKeyCaptures \/ SetKeyOpens \/ SetKeyWrites \/ SetKeyFails
  \/ MainCopies \/ MainOpens \/ MainWrites \/ MainFails
  \/ BridgeRestarts

Spec == Init /\ [][Next]_vars

-----------------------------------------------------------------------------
(* Properties                                                              *)

\* The relay never works with a key read from a half-written file, whoever
\* truncates it and even when its writer died in between.
NeverBlank == addrKey # Blank /\ termKey # Blank

\* The relay uses the key of the SDK's present session whenever it answers
\* INIT_INFO or reads a CALLING: through re-certification, Mars fallbacks,
\* half-written files, late copies and lost writes of earlier sessions, and
\* restarts of either side, if in this session no CERTIFY was handled again, the
\* hook could write the file, and main did not write it once more.
RightKeyUsed == faults = {} => used # "wrong"
=============================================================================
