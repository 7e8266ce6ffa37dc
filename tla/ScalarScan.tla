----------------------------- MODULE ScalarScan ------------------------------
(***************************************************************************)
(* The process function of the scalars over a batch: a loop over the rows  *)
(* that appends to builders, and for list columns a second loop over the   *)
(* answers, build_tlv_list, build_oid_list and build_blob_list of          *)
(* asn1-worker/src/arrow_io.rs, that lays the elements end to end and      *)
(* keeps the offsets at which each row's begin.                            *)
(***************************************************************************)
EXTENDS ScalarFunctions

CONSTANTS Calls, OffsetMax

ASSUME ScanAssumption ==
  /\ OffsetMax \in Nat
  /\ \A c \in Calls : IsCall(c)

VARIABLES
  call,      \* the function and the batch
  pc,        \* "idle", "scan", "build", "done", "failed" or "panicked"
  row,       \* the row either loop is at
  values,    \* the answers, of functions that give a value or a list
  children,  \* the child columns of a struct
  valid,     \* the validity of a struct or list column
  offsets,   \* where the elements of each row begin
  elements,  \* the child column of a list
  total,     \* the elements so far
  at         \* the elements of this row so far

scanVars == <<call, pc, row, values, children, valid, offsets, elements, total, at>>

ScanInit ==
  /\ call \in Calls
  /\ pc = "scan" /\ row = 1
  /\ values = <<>>
  /\ children = [f \in FieldsOf(call.fn) |-> <<>>]
  /\ valid = <<>>
  /\ offsets = <<0>> /\ elements = <<>> /\ total = 0 /\ at = 0

-----------------------------------------------------------------------------

Scanning == pc = "scan" /\ row <= call.rows
Reads == Scanning /\ ~Unreadable(call, row)

\* blob_bytes or text_str fails: the whole call does.
ReadError ==
  /\ Scanning /\ Unreadable(call, row)
  /\ pc' = "failed"
  /\ UNCHANGED <<call, row, values, children, valid, offsets, elements, total, at>>

ScanValue ==
  /\ Reads /\ ~IsStruct(call)
  /\ values' = Append(values, AnswerAt(call, row))
  /\ row' = row + 1
  /\ UNCHANGED <<call, pc, children, valid, offsets, elements, total, at>>

\* A struct appends to every child column, whether it is NULL or not.
ScanStruct ==
  LET answer == AnswerAt(call, row)
  IN /\ Reads /\ IsStruct(call)
     /\ children' = [f \in FieldsOf(call.fn) |->
                       Append(children[f], IF answer = None THEN Filler(f) ELSE answer[1][f])]
     /\ valid' = Append(valid, answer # None)
     /\ row' = row + 1
     /\ UNCHANGED <<call, pc, values, offsets, elements, total, at>>

EndScan ==
  /\ pc = "scan" /\ row > call.rows
  /\ pc' = IF IsList(call) THEN "build" ELSE "done"
  /\ row' = 1
  /\ UNCHANGED <<call, values, children, valid, offsets, elements, total, at>>

-----------------------------------------------------------------------------

Building == pc = "build" /\ row <= call.rows

MoreElements == Building /\ values[row] # None /\ at < Len(values[row][1])

BuildElement ==
  /\ MoreElements /\ total < OffsetMax
  /\ elements' = Append(elements, values[row][1][at + 1])
  /\ total' = total + 1
  /\ at' = at + 1
  /\ UNCHANGED <<call, pc, row, values, children, valid, offsets>>

\* total is an i32: counting on overflows, or makes offsets OffsetBuffer refuses.
Overflow ==
  /\ MoreElements /\ total = OffsetMax
  /\ pc' = "panicked"
  /\ UNCHANGED <<call, row, values, children, valid, offsets, elements, total, at>>

\* Mutant of EndRow: the list of a NULL row is empty.
EndRowAllValid ==
  /\ Building /\ ~MoreElements
  /\ offsets' = Append(offsets, total)
  /\ valid' = Append(valid, TRUE)
  /\ row' = row + 1 /\ at' = 0
  /\ UNCHANGED <<call, pc, values, children, elements, total>>

\* A NULL list has an offset too, that of the row after it.
EndRow ==
  /\ Building /\ ~MoreElements
  /\ offsets' = Append(offsets, total)
  /\ valid' = Append(valid, values[row] # None)
  /\ row' = row + 1 /\ at' = 0
  /\ UNCHANGED <<call, pc, values, children, elements, total>>

EndBuild ==
  /\ pc = "build" /\ row > call.rows
  /\ pc' = "done"
  /\ UNCHANGED <<call, row, values, children, valid, offsets, elements, total, at>>

ScanNext ==
  \/ ReadError \/ ScanValue \/ ScanStruct \/ EndScan
  \/ BuildElement \/ Overflow \/ EndRow \/ EndBuild

ScanSpec == ScanInit /\ [][ScanNext]_scanVars

-----------------------------------------------------------------------------
\* What a reader of the finished column finds in a row.

ListAt(r) ==
  IF valid[r]
  THEN Some([j \in 1 .. offsets[r + 1] - offsets[r] |-> elements[offsets[r] + j]])
  ELSE None

StructAt(r) ==
  IF valid[r] THEN Some([f \in FieldsOf(call.fn) |-> children[f][r]]) ELSE None

ReadBack(r) ==
  CASE IsList(call) -> ListAt(r)
    [] IsStruct(call) -> StructAt(r)
    [] OTHER -> values[r]

Outcome ==
  CASE pc = "done" -> [status |-> "column", cells |-> [r \in 1 .. call.rows |-> ReadBack(r)]]
    [] pc = "failed" -> [status |-> "error"]
    [] pc = "panicked" -> [status |-> "panic"]
    [] OTHER -> [status |-> "pending"]

Promise == INSTANCE RowByRow WITH outcome <- Outcome

(***************************************************************************)
(* The column a scalar function builds, read back row by row through its   *)
(* validity and its offsets, holds in every row the answer for the cells   *)
(* of that row alone: NULLs, malformed cells and lists of any length       *)
(* before it shift nothing.  The call fails only for a column of the wrong *)
(* type, and panics only when its elements are more than offsets count.    *)
(***************************************************************************)
KeepsRowByRow == Promise!Spec

=============================================================================
