------------------------------ MODULE MCTracker ------------------------------
(* Bounded inputs of the tracker client's calls: every outcome of each     *)
(* check of Validate, each key of Encode present and absent, empty strings *)
(* where Encode skips them, and response bodies with every key absent, of  *)
(* the right type and of a wrong one.                                      *)
EXTENDS Tracker, SequencesExt

(* Values of the optional request fields shared by both versions.          *)
OptionValues ==
  [compact : {Nil, 1, 2}, noPeerId : {Nil, 0, 2},
   event : {Nil, "", "started", "paused"}, ip : {Nil, "1.2.3.4", "bogus"},
   numWant : {Nil, -1, 50}, key : {Nil, "", "k"}, trackerId : {Nil, "", "t"}]

MCValidIPs == {"1.2.3.4"}

(* The fields the exported Validate reads, each through all its outcomes.  *)
MCExportedValidateInputs ==
  {o @@ r :
     o \in [compact : {Nil, 1, 2}, noPeerId : {Nil, 0, 2},
           event : {Nil, "started", "paused"}, ip : {Nil, "1.2.3.4", "bogus"},
           numWant : {Nil, -1, 50}, key : {Nil}, trackerId : {Nil}],
     r \in [infoHash : {"", "h"}, peerId : {"id"}, port : {Nil, 0, 6881},
            uploaded : {0}, downloaded : {7}, left : {10}]}

MCInternalInputs ==
  {o @@ r :
     o \in OptionValues,
     r \in [infoHash : {"h"}, peerId : {"", "id"}, port : {0, 6881},
            uploaded : {0}, downloaded : {7}, left : {10}]}

(* Bencoding values.                                                       *)
BBytes(s) == [t |-> "bytes", v |-> s]
BInt(n)   == [t |-> "int", v |-> n]
Absent   == [t |-> "absent", v |-> 0]
(* A dictionary of the keys of f not mapped to Absent.                     *)
Dict(f) == [t |-> "dict", v |-> [k \in {k2 \in DOMAIN f : f[k2] # Absent} |-> f[k]]]
Malformed == [t |-> "malformed", v |-> << >>]

(* A peers value: a list, a compact string, or an integer.                 *)
PeerList(l)  == [t |-> "list", v |-> l]
Compact(b)   == [t |-> "bytes", v |-> b]
PeersWrong   == [t |-> "int", v |-> << >>]

(* Entries of a non-compact list: a non-dictionary, or a dictionary with   *)
(* each of its keys absent, well typed or not.                             *)
ListEntries ==
  {[t |-> "int", v |-> << >>]} \cup
  {Dict(f) : f \in [{"peer id", "ip", "port"} ->
                      {Absent, BBytes("p"), BInt(1), BBytes("1.2.3.4")}]}
GoodEntry == Dict([k \in {"ip", "port"} |-> IF k = "ip" THEN BBytes("1.2.3.4") ELSE BInt(6881)])

(* Bodies exercising the scalar keys and the failure reason.               *)
ScalarBodies ==
  {Malformed, [t |-> "list", v |-> << >>]} \cup
  {Dict(f1 @@ f2 @@ f3 @@ f4) :
     f1 \in [{"failure reason"} -> {Absent, BBytes("fr"), BInt(0)}],
     f2 \in [{"warning message", "tracker id"} -> {Absent, BBytes("w"), BInt(0)}],
     f3 \in [{"interval", "complete"} -> {Absent, BInt(1800), BBytes("x")}],
     f4 \in [{"peers"} -> {Absent, PeersWrong, PeerList(<< >>), PeerList(<< GoodEntry >>),
                          Compact(<< >>), Compact(<< 1, 2, 3, 4, 26, 225 >>),
                          Compact(<< 1, 2, 3, 4, 26 >>)}]}

(* Bodies with an interval and a peer list of up to two entries.           *)
ListBodies ==
  {Dict([k \in {"interval", "peers"} |->
           IF k = "interval" THEN BInt(1800) ELSE PeerList(l)]) :
     l \in BoundedSeq(ListEntries, 2)}

MCDecodeBodies == ScalarBodies \cup ListBodies

(* Bodies with a compact peer string of up to MaxCompact bytes.            *)
MaxCompact == 12
CompactBodies ==
  {Dict([k \in {"peers"} |-> Compact(b)]) : b \in BoundedSeq({1, 26}, MaxCompact)}

(* CreateRequest: a valid and an invalid request, every transport outcome, *)
(* and bodies of every outcome of the decoder.                             *)
(* All response bodies: the scalar and list cases and the compact strings. *)
MCResponseBodies == MCDecodeBodies \cup CompactBodies

MCAnnounces ==
  [p : {r \in MCInternalInputs : r.compact = 1 /\ r.noPeerId = Nil /\ r.event = "started"
                                 /\ r.ip = Nil /\ r.numWant \in {Nil, 50}
                                 /\ r.key = Nil /\ r.trackerId = Nil},
   http : [sent : BOOLEAN, status : {200, 404}],
   body : {Malformed, Dict([k \in {"failure reason"} |-> BBytes("fr")]),
           Dict([k \in {"interval", "peers"} |->
                   IF k = "interval" THEN BInt(1800) ELSE Compact(<< 1, 2, 3, 4, 26, 225 >>)]),
           Dict([k \in {"interval"} |-> BBytes("x")])}]

=============================================================================
