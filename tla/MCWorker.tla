------------------------------ MODULE MCWorker -------------------------------
(***************************************************************************)
(* Worker on every function and table: batches of up to three rows with    *)
(* NULLs, malformed and well-formed cells in columns of every type, lists  *)
(* of none, one and two elements that exceed the offsets in some batches,  *)
(* and tables of none to two rows with NULLs and numbers of either size.   *)
(***************************************************************************)
EXTENDS Worker

MCContents == {"bad", "one", "two"}
MCWellFormed == {"one", "two"}
MCElements == 1 .. 3

ListOf(b) == CASE b = "bad" -> <<>> [] b = "one" -> <<1>> [] b = "two" -> <<2, 3>>

\* The value of a field, of a truth value where the column has no other.
FieldOf(f, b) == IF f = "encrypted" THEN Some(b = "two") ELSE IF b = "one" THEN Some(f) ELSE None

MCCore(fn, x) ==
  CASE fn \in ListFunctions -> ListOf(x)
    [] fn = "well_formed" ->
         [ok |-> x # "bad", error |-> IF x = "bad" THEN "truncated" ELSE "",
          kind |-> IF x = "bad" THEN "kind" ELSE ""]
    [] fn \in {"krb_ticket", "pkcs8_info"} ->
         IF x = "bad" THEN None ELSE Some([f \in FieldsOf(fn) |-> FieldOf(f, x)])
    [] fn \in TextFunctions \cup {"cms_content"} -> IF x = "two" THEN None ELSE Some(x)
    [] fn = "is_valid" -> x # "bad"
    [] OTHER -> x

CellsOf(contents) == { None } \cup { Some(b) : b \in contents }
ColumnsOf(types, rows, contents) ==
  { [type |-> t, cells |-> cells] : t \in types, cells \in [1 .. rows -> CellsOf(contents)] }

MCCalls ==
  UNION { { [fn |-> fn, rows |-> rows, columns |-> <<column>>] :
                   fn \in Functions \ {"at_path"}, column \in ColumnsOf(Types, rows, MCContents) } :
               rows \in 0 .. 3 }
  \cup { [fn |-> "at_path", rows |-> 2, columns |-> <<blobs, paths>>] :
           blobs \in ColumnsOf(Types, 2, {"bad", "one"}), paths \in ColumnsOf(Types, 2, {"two"}) }

\* A row whose integer column is NULL, fits, or does not.
RowOf(table, n) ==
  [c \in Columns(table) |-> IF c \in IntColumns(table) THEN n ELSE <<c, n>>]

MCDecoded(table, content) ==
  CASE table = "oid_registry" -> <<RowOf(table, <<1>>), RowOf(table, <<2>>), RowOf(table, <<3>>)>>
    [] content = "one" -> <<RowOf(table, <<-8>>)>>
    [] content = "two" -> <<RowOf(table, <<7>>), RowOf(table, <<>>)>>
    [] content = "wide" -> <<RowOf(table, <<8>>), RowOf(table, <<-9>>), RowOf(table, <<-1>>)>>
    [] OTHER -> <<>>

MCScans ==
  { [table |-> t, argument |-> [kind |-> k, content |-> c]] :
      t \in Tables, k \in {"bytes", "text", "absent"}, c \in {"bad", "one", "two", "wide"} }
=============================================================================
