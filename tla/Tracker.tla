------------------------------- MODULE Tracker -------------------------------
(***************************************************************************)
(* The tracker client's operations as calls a caller makes, one per step: *)
(* validating and encoding request parameters of either version, decoding *)
(* a response body, and the internal CreateRequest. The variable call     *)
(* records the last call with its inputs and its results, and the         *)
(* properties compare those results with the announce protocol of the     *)
(* specification (section 4.C): required parameters, their names, the     *)
(* validation rules and the shape of a decoded response.                  *)
(***************************************************************************)
EXTENDS TrackerRequest, FiniteSets

CONSTANTS
  ExportedInputs,   \* TrackerRequestParams values to validate and encode
  InternalInputs,   \* RequestParams values to validate and encode
  Bodies,           \* decoded bencoding values of response bodies
  Announces         \* [p, http, body] inputs of CreateRequest

VARIABLE call

Init == call = [op |-> "none"]

ExportedCall(p) ==
  /\ call.op = "none"
  /\ call' = [op |-> "exported", p |-> p, valid |-> ExportedValidate(p),
              query |-> ExportedEncode(p)]

InternalCall(p) ==
  /\ call.op = "none"
  /\ call' = [op |-> "internal", p |-> p, valid |-> InternalValidate(p),
              query |-> InternalEncode(p)]

Decode(b) ==
  /\ call.op = "none"
  /\ call' = [op |-> "decode", body |-> b, res |-> DecodeTrackerResponse(b)]

Announce(a) ==
  /\ call.op = "none"
  /\ call' = [op |-> "announce", in |-> a, res |-> CreateRequest(a.p, a.http, a.body)]

(* The caller takes the result; the next call starts from an idle state.  *)
Return ==
  /\ call.op # "none"
  /\ call' = [op |-> "none"]

Next ==
  \/ Return
  \/ \E p \in ExportedInputs : ExportedCall(p)
  \/ \E p \in InternalInputs : InternalCall(p)
  \/ \E b \in Bodies : Decode(b)
  \/ \E a \in Announces : Announce(a)

Spec == Init /\ [][Next]_call

-----------------------------------------------------------------------------
(* The announce protocol of the specification, section 4.C.                *)

(* Query parameters the specification names, and those it requires.       *)
SpecKeys == {"info_hash", "peer_id", "port", "uploaded", "downloaded", "left",
             "compact", "no_peer_id", "event", "ip", "key", "numwant",
             "trackerid"}
RequiredKeys == {"info_hash", "peer_id", "port", "uploaded", "downloaded", "left"}
(* The parameter field each specified key carries.                         *)
SpecField ==
  [info_hash |-> "infoHash", peer_id |-> "peerId", port |-> "port",
   uploaded |-> "uploaded", downloaded |-> "downloaded", left |-> "left",
   compact |-> "compact", no_peer_id |-> "noPeerId", event |-> "event",
   ip |-> "ip", key |-> "key", numwant |-> "numWant", trackerid |-> "trackerId"]
TextFields == {"infoHash", "peerId", "event", "ip", "key", "trackerId"}

(* The integer a decimal text denotes.                                     *)
DigitValue(c) == CHOOSE d \in 0 .. 9 : DigitChar[d + 1] = c
Unsigned(s) == FoldLeft(LAMBDA acc, c : 10 * acc + DigitValue(c), 0, s)
DecimalValue(s) == IF s[1] = "-" THEN -Unsigned(Tail(s)) ELSE Unsigned(s)

(* The validation rules: info hash and peer id given, port nonzero, the    *)
(* enums in range, compact and no_peer_id not both, numwant not negative,  *)
(* the IP well formed.                                                     *)
SpecAcceptable(p) ==
  /\ p.infoHash # "" /\ p.peerId # ""
  /\ p.port # 0
  /\ p.compact \in {Nil, 0, 1}
  /\ p.noPeerId \in {Nil, 0, 1}
  /\ p.compact = Nil \/ p.noPeerId = Nil
  /\ p.event \in Events \cup {Nil}
  /\ p.numWant = Nil \/ p.numWant >= 0
  /\ p.ip \in ValidIPs \cup {Nil}

(* A query built for parameters p: every key is a specified one, the       *)
(* required ones are all there, and each carries its field's value         *)
(* (integers as decimal text).                                             *)
QueryUsesSpecNames(q) == DOMAIN q \subseteq SpecKeys
QueryHasRequired(q) == RequiredKeys \subseteq DOMAIN q
QueryCarries(p, q) ==
  \A k \in DOMAIN q \cap SpecKeys :
    IF SpecField[k] \in TextFields THEN q[k] = p[SpecField[k]]
    ELSE DecimalValue(q[k]) = p[SpecField[k]]
(* Every option given with a non-empty value is sent.                      *)
QueryHasOptions(p, q) ==
  \A k \in SpecKeys \ RequiredKeys :
    LET f == SpecField[k] IN
    p[f] # Nil /\ (f \in TextFields => p[f] # "") => k \in DOMAIN q

(* A response body the specification accepts: a dictionary whose failure  *)
(* reason, if present, is a string (and then nothing else counts), whose   *)
(* other keys have their types, and whose peers are a list of dictionaries *)
(* with a string ip and an integer port (and maybe a string peer id), or a *)
(* string of 6-byte records.                                               *)
SpecType ==
  [s \in {"warning message", "tracker id"} |-> "bytes"] @@
  [s \in {"interval", "min interval", "complete", "incomplete"} |-> "int"]
HasType(d, k, t) == k \notin DOMAIN d \/ d[k].t = t
SpecPeerOk(e) ==
  /\ e.t = "dict"
  /\ HasType(e.v, "peer id", "bytes")
  /\ "ip" \in DOMAIN e.v /\ e.v["ip"].t = "bytes"
  /\ "port" \in DOMAIN e.v /\ e.v["port"].t = "int"
SpecPeersOk(pr) ==
  \/ pr.t = "list" /\ \A n \in DOMAIN pr.v : SpecPeerOk(pr.v[n])
  \/ pr.t = "bytes" /\ Len(pr.v) % 6 = 0
SpecDecodeOk(body) ==
  /\ body.t = "dict"
  /\ LET d == body.v IN
     IF "failure reason" \in DOMAIN d THEN d["failure reason"].t = "bytes"
     ELSE /\ \A k \in DOMAIN SpecType : HasType(d, k, SpecType[k])
          /\ "peers" \in DOMAIN d => SpecPeersOk(d["peers"])

(* The response the specification reads from an accepted body; a compact  *)
(* record is 4 bytes of IPv4 address and a 2-byte big-endian port.         *)
Opt(d, k) == IF k \in DOMAIN d THEN d[k].v ELSE Nil
SpecPeers(pr) ==
  IF pr.t = "list"
  THEN [n \in DOMAIN pr.v |->
          [id |-> IF "peer id" \in DOMAIN pr.v[n].v THEN pr.v[n].v["peer id"].v ELSE "",
           ip |-> pr.v[n].v["ip"].v, port |-> pr.v[n].v["port"].v]]
  ELSE [j \in 1 .. Len(pr.v) \div 6 |->
          [id |-> "", ip |-> SubSeq(pr.v, 6 * j - 5, 6 * j - 2),
           port |-> 256 * pr.v[6 * j - 1] + pr.v[6 * j]]]
SpecResponse(d) ==
  IF "failure reason" \in DOMAIN d
  THEN [NoResponse EXCEPT !.failureReason = d["failure reason"].v]
  ELSE [failureReason |-> Nil, warningMessage |-> Opt(d, "warning message"),
        interval |-> Opt(d, "interval"), minInterval |-> Opt(d, "min interval"),
        trackerId |-> Opt(d, "tracker id"), complete |-> Opt(d, "complete"),
        incomplete |-> Opt(d, "incomplete"),
        peers |-> IF "peers" \in DOMAIN d THEN SpecPeers(d["peers"]) ELSE << >>]

-----------------------------------------------------------------------------
(* Properties                                                              *)

TypeOK ==
  /\ call.op \in {"none", "exported", "internal", "decode", "announce"}
  /\ call.op \in {"exported", "internal"} =>
       call.valid \in {"ok", "info_hash", "peer_id", "port", "compact",
                       "no_peer_id", "exclusive", "event", "ip", "num_want"}
  /\ call.op \in {"exported", "internal"} =>
       DOMAIN call.query \subseteq SpecKeys \cup {"num_want", "tracker_id"}

(* RequestParams.Validate accepts exactly the parameters the validation    *)
(* rules of the specification accept, whatever order it checks them in.   *)
InternalValidateIsSpec ==
  call.op = "internal" => (call.valid = "ok" <=> SpecAcceptable(call.p))

(* The query RequestParams.Encode builds for parameters Validate accepts   *)
(* uses the specified parameter names only, has every required one,        *)
(* carries every option given, and each value converts back to its field. *)
InternalQueryConforms ==
  call.op = "internal" /\ call.valid = "ok" =>
    /\ QueryUsesSpecNames(call.query)
    /\ QueryHasRequired(call.query)
    /\ QueryHasOptions(call.p, call.query)
    /\ QueryCarries(call.p, call.query)

(* TrackerRequestParams.Validate, given a port, accepts exactly the         *)
(* parameters the validation rules of the specification accept.           *)
ExportedValidateIsSpec ==
  call.op = "exported" /\ call.p.port # Nil =>
    (call.valid = "ok" <=> SpecAcceptable(call.p))

(* DecodeTrackerResponse succeeds on exactly the bodies the specification  *)
(* accepts, and then returns the response it describes: nothing but the   *)
(* failure reason when there is one, the peers of a list in order, and     *)
(* each 6-byte compact record as address and big-endian port.              *)
DecodeMatchesSpec ==
  call.op = "decode" =>
    /\ call.res.err = "none" <=> SpecDecodeOk(call.body)
    /\ call.res.err = "none" => call.res.out = SpecResponse(call.body.v)

(* CreateRequest returns a response exactly when the parameters are valid, *)
(* the GET was answered 200 with a body the specification accepts and no   *)
(* failure reason; the failure reason, transport and status errors reach   *)
(* the caller as errors.                                                   *)
AnnounceOutcome ==
  call.op = "announce" =>
    LET a == call.in IN
    /\ call.res.err = "none" <=>
         /\ SpecAcceptable(a.p) /\ a.http.sent /\ a.http.status = 200
         /\ SpecDecodeOk(a.body) /\ ~("failure reason" \in DOMAIN a.body.v)
    /\ call.res.err = "none" => call.res.resp = SpecResponse(a.body.v)

=============================================================================
