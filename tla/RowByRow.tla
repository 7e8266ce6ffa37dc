------------------------------ MODULE RowByRow -------------------------------
(***************************************************************************)
(* What a scalar function promises: the answer in a row is a function of   *)
(* the cells of that row.  A malformed cell never fails the batch; only a  *)
(* column of the wrong type does, and a list column that would have more   *)
(* elements than its offsets can count.                                    *)
(***************************************************************************)
EXTENDS ScalarFunctions

CONSTANT OffsetMax  \* the largest offset of a list column: 2^31 - 1 in the code

VARIABLES call, outcome

Pending == [status |-> "pending"]
Failed == [status |-> "error"]
Panicked == [status |-> "panic"]
Column(cells) == [status |-> "column", cells |-> cells]

AnyUnreadable(c) == \E row \in 1 .. c.rows : Unreadable(c, row)

ElementsAt(c, row) == IF AnswerAt(c, row) = None THEN {} ELSE 1 .. Len(AnswerAt(c, row)[1])

\* The elements of all rows, each by its row and its place.
AllElements(c) == UNION { {row} \X ElementsAt(c, row) : row \in 1 .. c.rows }

TooMany(c) == IsList(c) /\ Cardinality(AllElements(c)) > OffsetMax

Init == IsCall(call) /\ outcome = Pending

Answered ==
  \/ /\ AnyUnreadable(call)
     /\ outcome' = Failed
  \/ /\ ~AnyUnreadable(call)
     /\ outcome' = Column([row \in 1 .. call.rows |-> AnswerAt(call, row)])
  \/ /\ ~AnyUnreadable(call) /\ TooMany(call)
     /\ outcome' = Panicked

Next == outcome = Pending /\ Answered /\ UNCHANGED call

Spec == Init /\ [][Next]_<<call, outcome>>

=============================================================================
