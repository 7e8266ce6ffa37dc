----------------------------- MODULE TlvContract -----------------------------
(***************************************************************************)
(* What the entry points of asn1-core/src/tlv.rs promise their callers,    *)
(* as one step: a decode either yields a forest whose roots fill the blob  *)
(* and whose elements are whole, or one error of a listed kind, located in *)
(* the blob, and nothing else (`?` leaves no partial tree behind).         *)
(***************************************************************************)
EXTENDS TlvForest

CONSTANTS Blobs, RulesUsed, Callers

VARIABLES data, rules, caller, forest, roots, result

vars == <<data, rules, caller, forest, roots, result>>

Init ==
  /\ data \in Blobs /\ rules \in RulesUsed /\ caller \in Callers
  /\ forest = <<>> /\ roots = <<>>
  /\ result = [kind |-> "pending", offset |-> 0]

Accept ==
  /\ result.kind = "pending"
  /\ result'.kind = "ok"
  /\ \A i \in DOMAIN forest' : ElementIsWhole(forest', i)
  /\ Tiles(forest', roots', 0, Len(data))
  /\ caller = "parse_rules" => Len(roots') = 1
  /\ rules = "der" => \A i \in DOMAIN forest' : ~ forest'[i].indefinite
  /\ UNCHANGED <<data, rules, caller>>

Reject ==
  /\ result.kind = "pending"
  /\ result'.kind \in ErrorKinds
  /\ result'.offset \in 0 .. Len(data)
  /\ result'.kind = "trailing-bytes" => caller = "parse_rules"
  /\ result'.kind = "indefinite-in-der" => rules = "der"
  /\ UNCHANGED <<data, rules, caller, forest, roots>>

Next == Accept \/ Reject

Spec == Init /\ [][Next]_vars

=============================================================================
