--------------------------------- MODULE Oid ---------------------------------
(***************************************************************************)
(* The OBJECT IDENTIFIER codec of asn1-core/src/oid.rs, between content    *)
(* octets and the sequence of arcs that the dotted string spells.          *)
(***************************************************************************)
EXTENDS Integers, Sequences

CONSTANT ArcModulus  \* arcs are u128: 2^128

ASSUME ArcModulusAssumption ==
  ArcModulus \in Nat /\ ArcModulus >= 128 /\ ArcModulus % 128 = 0

NoOid == <<>>

\* The loop over the octets, after k of them.  checked_shl only refuses a
\* shift by the whole width: the bits shifted out of acc are lost.
Subidentifiers(bytes) ==
  LET after[k \in 0 .. Len(bytes)] ==
        IF k = 0 THEN [failed |-> FALSE, arcs |-> <<>>, acc |-> 0, started |-> FALSE]
        ELSE LET s == after[k - 1]
                 acc == ((128 * s.acc) % ArcModulus) + (bytes[k] % 128)
             IN [failed |-> s.failed \/ (~ s.started /\ bytes[k] = 128) \/ acc >= ArcModulus,
                 arcs |-> IF bytes[k] < 128 THEN Append(s.arcs, acc) ELSE s.arcs,
                 acc |-> IF bytes[k] < 128 THEN 0 ELSE acc,
                 started |-> bytes[k] >= 128]
  IN after[Len(bytes)]

\* Mutant of FirstArcs: 40 is still under 0.
FirstArcsLate(first) ==
  IF first <= 40 THEN <<0, first>>
  ELSE IF first < 80 THEN <<1, first - 40>>
  ELSE <<2, first - 80>>

\* The two arcs that the first subidentifier stands for.
FirstArcs(first) ==
  IF first < 40 THEN <<0, first>>
  ELSE IF first < 80 THEN <<1, first - 40>>
  ELSE <<2, first - 80>>

\* NoOid stands for None.
DecodeOid(bytes) ==
  LET scan == Subidentifiers(bytes)
  IN IF bytes = <<>> \/ bytes[Len(bytes)] >= 128 \/ scan.failed \/ scan.started
     THEN NoOid
     ELSE FirstArcs(scan.arcs[1]) \o Tail(scan.arcs)

IsRelativeOid(bytes) ==
  bytes # <<>> =>
    LET scan == Subidentifiers(bytes)
    IN bytes[Len(bytes)] < 128 /\ ~ scan.failed /\ ~ scan.started

\* No joint first arc, and no octets are no arcs.
DecodeRelativeOid(bytes) == Subidentifiers(bytes).arcs

\* The septets of v, the most significant first, each marked as continued.
Septets(v) ==
  LET octets[m \in 0 .. v] ==
        IF m < 128 THEN <<m + 128>> ELSE Append(octets[m \div 128], (m % 128) + 128)
  IN octets[v]

PushBase128(v) == [Septets(v) EXCEPT ![Len(Septets(v))] = @ - 128]

\* For arcs whose first two fit one subidentifier.
EncodeOid(arcs) ==
  IF Len(arcs) < 2 \/ arcs[1] > 2 \/ (arcs[1] < 2 /\ arcs[2] >= 40) THEN <<>>
  ELSE LET encode[k \in 1 .. Len(arcs)] ==
             IF k = 1 THEN <<>>
             ELSE encode[k - 1] \o PushBase128(IF k = 2 THEN 40 * arcs[1] + arcs[2] ELSE arcs[k])
       IN encode[Len(arcs)]

=============================================================================
