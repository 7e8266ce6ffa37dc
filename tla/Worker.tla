------------------------------- MODULE Worker --------------------------------
(***************************************************************************)
(* The worker: it serves a call of a scalar function or a scan of a table, *)
(* one at a time, in the loop of asn1-worker/src/main.rs.  Nothing is kept *)
(* from one call to the next, so one call shows all there is to see.       *)
(***************************************************************************)
EXTENDS ScalarScan, TableScan

ASSUME WorkerAssumption == Calls # {} /\ Scans # {}

vars == <<scanVars, tableVars>>

\* A call and a scan that are not made stand for all of them.
SomeCall == CHOOSE c \in Calls : TRUE
SomeScan == CHOOSE s \in Scans : TRUE

ScanIdle ==
  /\ call = SomeCall
  /\ pc = "idle" /\ row = 1
  /\ values = <<>> /\ children = <<>> /\ valid = <<>>
  /\ offsets = <<0>> /\ elements = <<>> /\ total = 0 /\ at = 0

TableIdle ==
  /\ scan = SomeScan
  /\ tpc = "idle" /\ columns = <<>> /\ next = 1
  /\ batch = <<>> /\ done = FALSE
  /\ delivered = <<>> /\ asks = 0

Init ==
  \/ ScanInit /\ TableIdle
  \/ ScanIdle /\ TableInit

Serve ==
  \/ ScanNext /\ UNCHANGED tableVars
  \/ TableStep /\ UNCHANGED scanVars

Next == Serve \/ (Leave /\ UNCHANGED scanVars)

\* The engine need not drop a producer that would answer for ever.
Spec == Init /\ [][Next]_vars /\ WF_vars(Serve)

Answered ==
  \/ pc \in {"done", "failed", "panicked"}
  \/ tpc \in {"ended", "left"}

(***************************************************************************)
(* Every call is answered and every scan ends or is dropped: the loops     *)
(* over rows, over the elements of a list and over the engine's asking all *)
(* come to their end.  The engine asks until it is told of the end.        *)
(***************************************************************************)
EveryCallEnds == <>Answered
=============================================================================
