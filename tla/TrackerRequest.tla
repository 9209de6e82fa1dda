---------------------------- MODULE TrackerRequest ----------------------------
(***************************************************************************)
(* The announce request parameters in their two versions:                 *)
(*   - TrackerRequestParams of src/p2p/client/tracker.go (exported; Port,  *)
(*     Uploaded, Downloaded and Left optional);                            *)
(*   - RequestParams of src/p2p/client/internal/tracker/request.go (used   *)
(*     by the client; those four always present);                          *)
(* their Validate and Encode, and CreateRequest of the internal one.       *)
(*                                                                         *)
(* A parameter record has one field per struct field; an absent optional  *)
(* (a nil pointer) is Nil. Strings are TLA+ strings. Validate returns the  *)
(* name of the check that fails, or "ok". Encode returns the url.Values it *)
(* builds as a function from keys to values; url.Values.Encode only sorts  *)
(* and escapes them, so the query is that function. Integer values go      *)
(* through strconv: their value is the sequence of decimal digits          *)
(* (FormatInt).                                                            *)
(***************************************************************************)
EXTENDS Integers, Sequences, TrackerResponse

CONSTANT ValidIPs   \* the strings net.ParseIP accepts

(* The events of both versions: StartedEvent/EventStarted etc.             *)
Events == {"started", "stopped", "completed"}

(* strconv.FormatInt(n, 10) / strconv.Itoa(n): the characters of "-" and  *)
(* the decimal digits, most significant first.                             *)
DigitChar == << "0", "1", "2", "3", "4", "5", "6", "7", "8", "9" >>
RECURSIVE Digits(_)
Digits(n) == IF n < 10 THEN << DigitChar[n + 1] >>
             ELSE Digits(n \div 10) \o << DigitChar[(n % 10) + 1] >>
FormatInt(n) == IF n < 0 THEN << "-" >> \o Digits(-n) ELSE Digits(n)

(* Mutant: compact and no_peer_id accepted together.                     *)
ValidateOptionsNoExclusive(p) ==
  IF p.compact # Nil /\ p.compact \notin {0, 1} THEN "compact"
  ELSE IF p.noPeerId # Nil /\ p.noPeerId \notin {0, 1} THEN "no_peer_id"
  ELSE IF p.event # Nil /\ p.event \notin Events THEN "event"
  ELSE IF p.ip # Nil /\ p.ip \notin ValidIPs THEN "ip"
  ELSE IF p.numWant # Nil /\ p.numWant < 0 THEN "num_want"
  ELSE "ok"

(* The option checks shared by both Validate methods, in code order.       *)
ValidateOptions(p) ==
  IF p.compact # Nil /\ p.compact \notin {0, 1} THEN "compact"
  ELSE IF p.noPeerId # Nil /\ p.noPeerId \notin {0, 1} THEN "no_peer_id"
  ELSE IF p.noPeerId # Nil /\ p.compact # Nil THEN "exclusive"
  ELSE IF p.event # Nil /\ p.event \notin Events THEN "event"
  ELSE IF p.ip # Nil /\ p.ip \notin ValidIPs THEN "ip"
  ELSE IF p.numWant # Nil /\ p.numWant < 0 THEN "num_want"
  ELSE "ok"

(* Mutant: the port check dropped.                                        *)
ExportedValidateNoPort(p) ==
  IF p.infoHash = "" THEN "info_hash"
  ELSE IF p.peerId = "" THEN "peer_id"
  ELSE ValidateOptions(p)

(* TrackerRequestParams.Validate: a port, if given, must not be 0.         *)
ExportedValidate(p) ==
  IF p.infoHash = "" THEN "info_hash"
  ELSE IF p.peerId = "" THEN "peer_id"
  ELSE IF p.port # Nil /\ p.port = 0 THEN "port"
  ELSE ValidateOptions(p)

(* RequestParams.Validate: the port must not be 0.                         *)
InternalValidate(p) ==
  IF p.infoHash = "" THEN "info_hash"
  ELSE IF p.peerId = "" THEN "peer_id"
  ELSE IF p.port = 0 THEN "port"
  ELSE ValidateOptions(p)


StringFields == {"event", "ip", "key", "trackerId"}
Conv(f, x) == IF f \in StringFields THEN x ELSE FormatInt(x)

(* The keys values.Set adds for the fields in present, each under the key  *)
(* keyOf gives it, strings as they are and integers via strconv.           *)
Optionals(p, present, keyOf) ==
  [k \in {keyOf[f] : f \in present} |->
     LET f == CHOOSE g \in present : keyOf[g] = k IN Conv(f, p[f])]

(* TrackerRequestParams.Encode: every non-nil option is set, integers via  *)
(* strconv.Itoa.                                                           *)
ExportedKeys ==
  [port |-> "port", uploaded |-> "uploaded", downloaded |-> "downloaded",
   left |-> "left", compact |-> "compact", noPeerId |-> "no_peer_id",
   event |-> "event", ip |-> "ip", numWant |-> "num_want", key |-> "key",
   trackerId |-> "tracker_id"]
ExportedEncode(p) ==
  [k \in {"info_hash", "peer_id"} |-> IF k = "info_hash" THEN p.infoHash ELSE p.peerId]
  @@ Optionals(p, {f \in DOMAIN ExportedKeys : p[f] # Nil}, ExportedKeys)

(* RequestParams.Encode: port and the three counters always; an optional  *)
(* string is skipped when nil or empty, an optional integer when nil.      *)
(* Mutant: a misspelt key.                                                *)
InternalKeysTypo ==
  [compact |-> "compact", noPeerId |-> "no_peerid", event |-> "event",
   ip |-> "ip", numWant |-> "numwant", key |-> "key", trackerId |-> "trackerid"]
InternalKeys ==
  [compact |-> "compact", noPeerId |-> "no_peer_id", event |-> "event",
   ip |-> "ip", numWant |-> "numwant", key |-> "key", trackerId |-> "trackerid"]
(* The options RequestParams.Encode sets: non-nil, and strings non-empty.  *)
InternalPresent(p) ==
  {f \in DOMAIN InternalKeys : p[f] # Nil /\ (f \in StringFields => p[f] # "")}
(* Mutant: the left counter forgotten.                                    *)
InternalEncodeNoLeft(p) ==
  [info_hash |-> p.infoHash, peer_id |-> p.peerId, port |-> FormatInt(p.port),
   uploaded |-> FormatInt(p.uploaded), downloaded |-> FormatInt(p.downloaded)]
  @@ Optionals(p, InternalPresent(p), InternalKeys)
InternalEncode(p) ==
  [info_hash |-> p.infoHash, peer_id |-> p.peerId, port |-> FormatInt(p.port),
   uploaded |-> FormatInt(p.uploaded), downloaded |-> FormatInt(p.downloaded),
   left |-> FormatInt(p.left)]
  @@ Optionals(p, InternalPresent(p), InternalKeys)

(* DecodeResponse of the internal package, which CreateRequest calls, is   *)
(* not in the sources. It is taken from the response format of the        *)
(* specification (section 4.C), which the exported DecodeTrackerResponse   *)
(* implements; the two are assumed to decode alike.                        *)
DecodeResponse(body) == DecodeTrackerResponse(body)

(* CreateRequest: validate, send the GET (the transport outcome http says  *)
(* whether building, sending and reading it succeeded, and the status),    *)
(* decode the body, and turn a failure reason into an error. Returns the   *)
(* error or the response; the query sent is InternalEncode(p).            *)
(* Mutant: a failure reason returned as a response.                       *)
CreateRequestIgnoringFailure(p, http, body) ==
  LET dec == DecodeResponse(body) IN
  IF InternalValidate(p) # "ok" THEN [err |-> "invalid params", resp |-> Nil]
  ELSE IF ~http.sent THEN [err |-> "send", resp |-> Nil]
  ELSE IF http.status # 200 THEN [err |-> "status", resp |-> Nil]
  ELSE IF dec.err # "none" THEN [err |-> "decode", resp |-> Nil]
  ELSE [err |-> "none", resp |-> dec.out]

CreateRequest(p, http, body) ==
  LET dec == DecodeResponse(body) IN
  IF InternalValidate(p) # "ok" THEN [err |-> "invalid params", resp |-> Nil]
  ELSE IF ~http.sent THEN [err |-> "send", resp |-> Nil]
  ELSE IF http.status # 200 THEN [err |-> "status", resp |-> Nil]
  ELSE IF dec.err # "none" THEN [err |-> "decode", resp |-> Nil]
  ELSE IF dec.out.failureReason # Nil THEN [err |-> "failure", resp |-> Nil]
  ELSE [err |-> "none", resp |-> dec.out]

=============================================================================
