--------------------------- MODULE TrackerResponse ---------------------------
(***************************************************************************)
(* DecodeTrackerResponse of src/p2p/client/tracker.go: the bencoded body   *)
(* of a tracker announce response turned into a TrackerResponse.          *)
(*                                                                         *)
(* A decoded bencoding value is a record [t |-> tag, v |-> payload] with   *)
(* tag "bytes", "int", "list" or "dict"; a body that bencoding.Decode      *)
(* rejects has tag "malformed". A dictionary's payload is a function from  *)
(* its keys. A byte string holding a compact peer list carries its bytes   *)
(* as a sequence of integers in 0..255; other byte strings carry a string. *)
(* The operator returns the error the code returns (or "none") together    *)
(* with the response as the code has filled it when it returns: on an     *)
(* error the fields decoded before it stay set.                            *)
(***************************************************************************)
EXTENDS Integers, Sequences, SequencesExt

CONSTANT Nil

(* The response with nothing set: var out TrackerResponse.                 *)
NoResponse ==
  [failureReason |-> Nil, warningMessage |-> Nil, interval |-> Nil,
   minInterval |-> Nil, trackerId |-> Nil, complete |-> Nil,
   incomplete |-> Nil, peers |-> << >>]

Result(err, out) == [err |-> err, out |-> out]

(* The optional scalar keys in the order the code reads them, with the     *)
(* bencoding type each must have and the field it fills.                   *)
ScalarKeys ==
  << [key |-> "warning message", t |-> "bytes", fld |-> "warningMessage"],
     [key |-> "interval",        t |-> "int",   fld |-> "interval"],
     [key |-> "min interval",    t |-> "int",   fld |-> "minInterval"],
     [key |-> "tracker id",      t |-> "bytes", fld |-> "trackerId"],
     [key |-> "complete",        t |-> "int",   fld |-> "complete"],
     [key |-> "incomplete",      t |-> "int",   fld |-> "incomplete"] >>

(* The scalar keys from the n-th on: a present key of the wrong type       *)
(* returns its error, a present key of the right type fills its field.     *)
RECURSIVE DecodeScalars(_, _, _)
DecodeScalars(d, n, out) ==
  IF n > Len(ScalarKeys) THEN Result("none", out)
  ELSE LET k == ScalarKeys[n] IN
       IF k.key \notin DOMAIN d THEN DecodeScalars(d, n + 1, out)
       ELSE IF d[k.key].t # k.t THEN Result(k.key, out)
       ELSE DecodeScalars(d, n + 1, [out EXCEPT ![k.fld] = d[k.key].v])

(* One entry of a non-compact peer list: a dictionary with an optional     *)
(* byte-string "peer id" and a required byte-string "ip" and integer       *)
(* "port". Returns the error, or "none" and the peer.                      *)
ListPeer(e) ==
  LET d == e.v IN
  IF e.t # "dict" THEN [err |-> "peer", peer |-> Nil]
  ELSE IF "peer id" \in DOMAIN d /\ d["peer id"].t # "bytes"
       THEN [err |-> "peer_id", peer |-> Nil]
  ELSE IF "ip" \notin DOMAIN d THEN [err |-> "no_ip", peer |-> Nil]
  ELSE IF d["ip"].t # "bytes" THEN [err |-> "peer_ip", peer |-> Nil]
  ELSE IF "port" \notin DOMAIN d THEN [err |-> "no_port", peer |-> Nil]
  ELSE IF d["port"].t # "int" THEN [err |-> "peer_port", peer |-> Nil]
  ELSE [err |-> "none",
        peer |-> [id   |-> IF "peer id" \in DOMAIN d THEN d["peer id"].v ELSE "",
                  ip   |-> d["ip"].v,
                  port |-> d["port"].v]]

(* The loop over the list from entry n on, appending each peer to out as   *)
(* it goes and returning at the first bad entry.                           *)
RECURSIVE DecodeList(_, _, _)
DecodeList(l, n, out) ==
  IF n > Len(l) THEN Result("none", out)
  ELSE LET r == ListPeer(l[n]) IN
       IF r.err # "none" THEN Result(r.err, out)
       ELSE DecodeList(l, n + 1, [out EXCEPT !.peers = Append(@, r.peer)])

(* Mutant: the port bytes read little-endian.                             *)
LittleEndianUint16(hi, lo) == lo * 256 + hi

(* binary.BigEndian.Uint16 of two bytes.                                   *)
BigEndianUint16(hi, lo) == hi * 256 + lo

(* The loop `for i := 0; i < len(compact); i += 6` over a compact list     *)
(* from offset i (0-based): 4 bytes of IPv4 address, 2 of port.            *)
RECURSIVE DecodeCompact(_, _, _)
DecodeCompact(b, i, out) ==
  IF i >= Len(b) THEN out
  ELSE DecodeCompact(b, i + 6,
         [out EXCEPT !.peers = Append(@,
            [id   |-> "",
             ip   |-> SubSeq(b, i + 1, i + 4),
             port |-> BigEndianUint16(b[i + 5], b[i + 6])])])

(* The "peers" key: a list, a compact byte string, or an error.            *)
DecodePeers(p, out) ==
  CASE p.t = "list"  -> DecodeList(p.v, 1, out)
    [] p.t = "bytes" -> IF Len(p.v) % 6 # 0 THEN Result("compact_len", out)
                        ELSE Result("none", DecodeCompact(p.v, 0, out))
    [] OTHER         -> Result("peers_type", out)

DecodeTrackerResponse(body) ==
  IF body.t = "malformed" THEN Result("decode", NoResponse)
  ELSE IF body.t # "dict" THEN Result("not_dict", NoResponse)
  ELSE LET d == body.v IN
    IF "failure reason" \in DOMAIN d
    THEN IF d["failure reason"].t # "bytes" THEN Result("failure_reason", NoResponse)
         ELSE Result("none", [NoResponse EXCEPT !.failureReason = d["failure reason"].v])
    ELSE LET s == DecodeScalars(d, 1, NoResponse) IN
         IF s.err # "none" \/ "peers" \notin DOMAIN d THEN s
         ELSE DecodePeers(d["peers"], s.out)

=============================================================================
