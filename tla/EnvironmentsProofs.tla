------------------------- MODULE EnvironmentsProofs -------------------------
(***************************************************************************)
(* Theorems about module Environments, for any number of requests, any     *)
(* number of them at the same time, and any operations.                    *)
(***************************************************************************)
EXTENDS EnvironmentsProps, TLAPS

-----------------------------------------------------------------------------
(* The inductive invariant.  A stale row may be written back, and an       *)
(* interval of zero or a missing column left alone: what is kept is that   *)
(* every row that a request has read, and may write, is as good as one of  *)
(* the table.                                                              *)

LinkColumns == {"enroll_secret_path", "enroll_expire", "remove_secret_path",
                "remove_expire"}

Paired(row, over) ==
  /\ row["enroll_expire"] = row["enroll_secret_path"] \/ row["enroll_expire"] \in over
  /\ row["remove_expire"] = row["remove_secret_path"] \/ row["remove_expire"] \in over

(* A row whose links have their deadlines, and which flags can be made of. *)
Good(row, over) ==
  /\ row \in Row
  /\ \A c \in LinkColumns : row[c] \in Edits
  /\ row["intervals"] \in Edits /\ row["hostname"] \in Edits
  /\ Paired(row, over)

GoodRequest(x, over) ==
  x.pc \in {"get", "write", "tag", "flags"} => Good(x.seen, over)

GoodTable == \A i \in 1 .. made : Good(table[i], passed)

GoodRequests == \A r \in Requests : GoodRequest(request[r], passed)

EnvironmentsIInv == EnvironmentsTypeOK /\ GoodTable /\ GoodRequests

-----------------------------------------------------------------------------
(* Rows. *)

LEMMA Distinct ==
  /\ Blank \notin Edits /\ On \notin Edits /\ Off \notin Edits
  /\ On # Blank /\ Off # Blank /\ On # Off
  BY EnvironmentsAssumption

LEMMA ValueKinds ==
  /\ \A e \in Edits : e \in Values
  /\ Blank \in Values /\ On \in Values /\ Off \in Values
  BY DEF Values

LEMMA GeneratedType ==
  ASSUME NEW row, row["intervals"] \in Edits, row["hostname"] \in Edits
  PROVE  Generated(row) \in Values
  BY DEF Generated, Values, FlagTexts

LEMMA BlankRowType == BlankRow \in Row
  BY ValueKinds DEF BlankRow, Row

LEMMA PairedGrows ==
  ASSUME NEW row, NEW over, NEW more, over \subseteq more, Good(row, over)
  PROVE  Good(row, more)
  BY DEF Good, Paired

(* The row that a creator makes: both links have the deadline of their     *)
(* creation.                                                               *)
LEMMA EmptyGood ==
  ASSUME NEW e \in Edits, NEW over
  PROVE  Good(Empty(e), over)
<1>1. Empty(e) \in Row
  BY ValueKinds DEF Empty, Row
<1>2. \A c \in LinkColumns \cup {"intervals", "hostname"} : Empty(e)[c] = e
  BY DEF Empty, LinkColumns, Columns
<1>. QED  BY <1>1, <1>2 DEF Good, Paired, LinkColumns

LEMMA WithColumns ==
  ASSUME NEW row \in Row, NEW columns, NEW v \in Values
  PROVE  /\ With(row, columns, v) \in Row
         /\ \A c \in Columns :
              With(row, columns, v)[c] = IF c \in columns THEN v ELSE row[c]
  BY DEF With, Row

(* Columns that belong to no link keep a row good. *)
LEMMA OtherColumns ==
  ASSUME NEW row, NEW over, Good(row, over),
         NEW c \in {"flags", "configuration", "certificate", "debug_http"},
         NEW v \in Values
  PROVE  Good(With(row, {c}, v), over)
<1>1. With(row, {c}, v) \in Row
  BY WithColumns DEF Good
<1>2. \A d \in LinkColumns \cup {"intervals", "hostname"} :
        d \in Columns /\ With(row, {c}, v)[d] = row[d]
  BY DEF With, LinkColumns, Columns
<1>. QED  BY <1>1, <1>2 DEF Good, Paired, LinkColumns

LEMMA SetColumn ==
  ASSUME NEW row \in Row, NEW c \in Columns, NEW v
  PROVE  [row EXCEPT ![c] = v] = With(row, {c}, v)
  BY DEF With, Row

LEMMA NewRowsGood ==
  ASSUME NEW e \in Edits, NEW by, NEW over, NEW row \in NewRows(e, by)
  PROVE  Good(row, over)
<1>1. Good(Empty(e), over)
  BY EmptyGood
<1>2. CASE by = "create"
  <2>1. Generated(Empty(e)) \in Values
    BY <1>1, GeneratedType DEF Good
  <2>2. row = [Empty(e) EXCEPT !["flags"] = Generated(Empty(e))]
    BY <1>2 DEF NewRows
  <2>3. row = With(Empty(e), {"flags"}, Generated(Empty(e)))
    BY <1>1, <2>2, SetColumn DEF Good, Columns
  <2>. QED  BY <1>1, <2>1, <2>3, OtherColumns
<1>3. CASE by # "create"
  <2>1. PICK c \in {Blank, e}, d \in {On, Off} :
          row = With(With(Empty(e), {"certificate"}, c), {"debug_http"}, d)
    BY <1>3 DEF NewRows
  <2>2. c \in Values /\ d \in Values
    BY ValueKinds
  <2>3. Good(With(Empty(e), {"certificate"}, c), over)
    BY <1>1, <2>2, OtherColumns
  <2>. QED  BY <2>1, <2>2, <2>3, OtherColumns
<1>. QED  BY <1>2, <1>3

(* Writing a whole row skips the columns with a zero value, none of which  *)
(* is a column of a link.                                                  *)
LEMMA UpdatesGood ==
  ASSUME NEW row, NEW new, NEW over, Good(row, over), new \in Row,
         \A c \in LinkColumns : new[c] \in Edits,
         new["intervals"] \in Edits \cup {Blank}, new["hostname"] \in Edits,
         Paired(new, over)
  PROVE  Good(Updates(row, new), over)
<1>1. Updates(row, new) \in Row
  BY DEF Updates, Row, Good
<1>2. \A c \in LinkColumns : c \in Columns /\ Updates(row, new)[c] = new[c]
  BY Distinct DEF Updates, LinkColumns, Columns
<1>3. Updates(row, new)["hostname"] = new["hostname"]
  BY Distinct DEF Updates, Columns
<1>4. Updates(row, new)["intervals"] \in Edits
  BY DEF Updates, Columns, Good
<1>. QED  BY <1>1, <1>2, <1>3, <1>4 DEF Good, Paired, LinkColumns

(* The row a request makes of the one it has read. *)
LEMMA EditedGood ==
  ASSUME NEW r \in Requests, NEW over, Good(request[r].seen, over),
         request[r].op \in AllOperations \cup {Blank}, NEW new \in Edited(r)
  PROVE  /\ new \in Row
         /\ \A c \in LinkColumns : new[c] \in Edits
         /\ new["intervals"] \in Edits \cup {Blank} /\ new["hostname"] \in Edits
         /\ Paired(new, over)
         /\ request[r].op # "intervals" => Good(new, over)
<1>. DEFINE seen == request[r].seen
<1>1. r \in Edits /\ r \in Values /\ Blank \in Values
  BY ValueKinds DEF Edits
<1>2. seen \in Row /\ (\A c \in LinkColumns : seen[c] \in Edits)
      /\ seen["intervals"] \in Edits /\ seen["hostname"] \in Edits /\ Paired(seen, over)
  BY DEF Good
<1>3. CASE request[r].op = "intervals"
  <2>1. PICK v \in {r, Blank} : new = With(seen, {"intervals"}, v)
    BY <1>3 DEF Edited
  <2>2. new \in Row /\ new["intervals"] = v
        /\ \A c \in LinkColumns \cup {"hostname"} : new[c] = seen[c]
    BY <1>1, <1>2, <2>1, WithColumns DEF Columns, LinkColumns
  <2>. QED  BY <1>1, <1>2, <1>3, <2>2 DEF Paired, LinkColumns
<1>4. CASE request[r].op = "extend enroll"
  <2>1. new = With(seen, {"enroll_secret_path", "enroll_expire"}, r)
    BY <1>4 DEF Edited
  <2>2. /\ new \in Row /\ new["enroll_secret_path"] = r /\ new["enroll_expire"] = r
        /\ \A c \in {"remove_secret_path", "remove_expire", "intervals", "hostname"} :
             new[c] = seen[c]
    BY <1>1, <1>2, <2>1, WithColumns DEF Columns
  <2>. QED  BY <1>1, <1>2, <2>2 DEF Paired, LinkColumns, Good
<1>5. CASE request[r].op = "extend remove"
  <2>1. new = With(seen, {"remove_secret_path", "remove_expire"}, r)
    BY <1>5 DEF Edited
  <2>2. /\ new \in Row /\ new["remove_secret_path"] = r /\ new["remove_expire"] = r
        /\ \A c \in {"enroll_secret_path", "enroll_expire", "intervals", "hostname"} :
             new[c] = seen[c]
    BY <1>1, <1>2, <2>1, WithColumns DEF Columns
  <2>. QED  BY <1>1, <1>2, <2>2 DEF Paired, LinkColumns, Good
<1>6. CASE request[r].op \notin {"intervals", "extend enroll", "extend remove"}
  <2>1. PICK d \in {On, Off}, h \in {seen["hostname"], r} :
          new = With(With(seen, {"debug_http"}, d), {"hostname"}, h)
    <3>1. new \in Updated(seen, r)
      BY <1>6 DEF Edited
    <3>. QED  BY <3>1 DEF Updated
  <2>2. d \in Values /\ h \in Edits /\ h \in Values
    BY <1>1, <1>2, ValueKinds
  <2>3. With(seen, {"debug_http"}, d) \in Row
        /\ \A c \in LinkColumns \cup {"intervals"} : With(seen, {"debug_http"}, d)[c] = seen[c]
    BY <1>2, <2>2, WithColumns DEF Columns, LinkColumns
  <2>4. /\ new \in Row /\ new["hostname"] = h
        /\ \A c \in LinkColumns \cup {"intervals"} : new[c] = seen[c]
    BY <2>1, <2>2, <2>3, WithColumns DEF Columns, LinkColumns
  <2>. QED  BY <1>2, <2>2, <2>4 DEF Paired, LinkColumns, Good
<1>. QED  BY <1>3, <1>4, <1>5, <1>6

-----------------------------------------------------------------------------
(* Requests and the table. *)

LEMMA RequestMoves ==
  ASSUME EnvironmentsIInv, NEW r \in Requests, NEW x \in RequestState,
         NEW over, passed \subseteq over, GoodRequest(x, over)
  PROVE  /\ [request EXCEPT ![r] = x] \in [Requests -> RequestState]
         /\ \A q \in Requests : GoodRequest([request EXCEPT ![r] = x][q], over)
<1>1. request \in [Requests -> RequestState]
  BY DEF EnvironmentsIInv, EnvironmentsTypeOK
<1>2. ASSUME NEW q \in Requests PROVE GoodRequest(request[q], over)
  BY PairedGrows DEF EnvironmentsIInv, GoodRequests, GoodRequest
<1>. QED  BY <1>1, <1>2

LEMMA RowMoves ==
  ASSUME EnvironmentsIInv, NEW i \in 1 .. MaxRows, NEW row,
         NEW over, passed \subseteq over, Good(row, over)
  PROVE  /\ [table EXCEPT ![i] = row] \in [1 .. MaxRows -> Row]
         /\ \A j \in (1 .. made) \cup {i} : Good([table EXCEPT ![i] = row][j], over)
<1>1. table \in [1 .. MaxRows -> Row] /\ made \in 0 .. MaxRows
  BY DEF EnvironmentsIInv, EnvironmentsTypeOK
<1>2. row \in Row
  BY DEF Good
<1>3. ASSUME NEW j \in 1 .. made PROVE Good(table[j], over)
  BY PairedGrows DEF EnvironmentsIInv, GoodTable
<1>. QED  BY <1>1, <1>2, <1>3, EnvironmentsAssumption

LEMMA TableKept ==
  ASSUME EnvironmentsIInv, NEW over, passed \subseteq over
  PROVE  \A j \in 1 .. made : Good(table[j], over)
  BY PairedGrows DEF EnvironmentsIInv, GoodTable

LEMMA RequestsKept ==
  ASSUME EnvironmentsIInv, NEW over, passed \subseteq over
  PROVE  \A q \in Requests : GoodRequest(request[q], over)
  BY PairedGrows DEF EnvironmentsIInv, GoodRequests, GoodRequest

LEMMA BeginGood ==
  ASSUME EnvironmentsIInv, NEW r \in Requests, NEW op \in AllOperations,
         NEW pc \in {"get", "write", "insert", "done"}, NEW i \in 0 .. made,
         i # 0 \/ pc \in {"insert", "done"}, Begin(r, op, pc, i),
         NEW over, passed \subseteq over
  PROVE  /\ request' \in [Requests -> RequestState]
         /\ \A q \in Requests : GoodRequest(request'[q], over)
         /\ overlapped' \in BOOLEAN
<1>. DEFINE seen == IF i = 0 THEN BlankRow ELSE table[i]
            x == [pc |-> pc, op |-> op, id |-> i, seen |-> seen]
<1>1. table \in [1 .. MaxRows -> Row] /\ made \in 0 .. MaxRows /\ MaxRows \in Nat
  BY EnvironmentsAssumption DEF EnvironmentsIInv, EnvironmentsTypeOK
<1>2. i \in 0 .. MaxRows /\ (i # 0 => i \in 1 .. made /\ i \in 1 .. MaxRows)
  BY <1>1
<1>3. seen \in Row
  BY <1>1, <1>2, BlankRowType
<1>4. x \in RequestState
  BY <1>2, <1>3 DEF RequestState
<1>5. i # 0 => Good(seen, over)
  BY <1>2, TableKept
<1>6. GoodRequest(x, over)
  BY <1>5 DEF GoodRequest
<1>7. request' = [request EXCEPT ![r] = x]
  BY DEF Begin
<1>8. overlapped' \in BOOLEAN
  BY DEF Begin
<1>. QED  BY <1>4, <1>6, <1>7, <1>8, RequestMoves

LEMMA GotoGood ==
  ASSUME EnvironmentsIInv, NEW r \in Requests,
         NEW pc \in {"write", "flags", "done"}, Goto(r, pc),
         pc = "done" \/ request[r].pc \in {"get", "write", "tag", "flags"},
         NEW over, passed \subseteq over
  PROVE  /\ request' \in [Requests -> RequestState]
         /\ \A q \in Requests : GoodRequest(request'[q], over)
<1>. DEFINE x == [request[r] EXCEPT !.pc = pc]
<1>1. request[r] \in RequestState /\ request \in [Requests -> RequestState]
  BY DEF EnvironmentsIInv, EnvironmentsTypeOK
<1>2. x \in RequestState /\ x.pc = pc /\ x.seen = request[r].seen
  BY <1>1 DEF RequestState
<1>3. GoodRequest(x, over)
  BY <1>2, RequestsKept DEF GoodRequest
<1>4. request' = [request EXCEPT ![r] = x]
  BY <1>1 DEF Goto
<1>. QED  BY <1>2, <1>3, <1>4, RequestMoves

-----------------------------------------------------------------------------
(* The steps. *)

LEMMA InitEnvironments == EnvironmentsInit => EnvironmentsIInv
<1>. SUFFICES ASSUME EnvironmentsInit PROVE EnvironmentsIInv
  OBVIOUS
<1>. DEFINE row == [Empty(First) EXCEPT !["flags"] = Generated(Empty(First))]
<1>1. First \in Edits /\ MaxRows \in Nat \ {0}
  BY EnvironmentsAssumption DEF Edits
<1>2. Good(Empty(First), passed)
  BY <1>1, EmptyGood
<1>3. Generated(Empty(First)) \in Values /\ row = With(Empty(First), {"flags"}, Generated(Empty(First)))
  BY <1>2, GeneratedType, SetColumn DEF Good, Columns
<1>4. Good(row, passed)
  BY <1>2, <1>3, OtherColumns
<1>5. row \in Row
  BY <1>4 DEF Good
<1>6. /\ made \in 0 .. MaxRows /\ present = 1 .. made
      /\ table \in [1 .. MaxRows -> Row]
      /\ \A i \in 1 .. made : table[i] = row
  BY <1>1, <1>5, BlankRowType DEF EnvironmentsInit
<1>7. /\ request \in [Requests -> RequestState]
      /\ \A r \in Requests : request[r].pc = "idle"
  BY <1>1, BlankRowType DEF EnvironmentsInit, RequestState
<1>8. tag \in BOOLEAN /\ overlapped \in BOOLEAN /\ passed \subseteq Edits
  BY DEF EnvironmentsInit
<1>9. EnvironmentsTypeOK
  BY <1>6, <1>7, <1>8 DEF EnvironmentsTypeOK
<1>10. GoodTable /\ GoodRequests
  BY <1>4, <1>6, <1>7 DEF GoodTable, GoodRequests, GoodRequest
<1>. QED  BY <1>9, <1>10 DEF EnvironmentsIInv

LEMMA EditColumnIInv ==
  ASSUME EnvironmentsIInv, NEW r \in Requests, NEW op \in ColumnEdits, EditColumn(r, op)
  PROVE  EnvironmentsIInv'
<1>1. PICK i \in present :
        /\ Begin(r, op, "done", i)
        /\ table' = [table EXCEPT ![i][Column(op)] =
             CASE op = "debug on" -> On [] op = "debug off" -> Off [] OTHER -> r]
  BY DEF EditColumn
<1>. DEFINE v == CASE op = "debug on" -> On [] op = "debug off" -> Off [] OTHER -> r
            row == [table[i] EXCEPT ![Column(op)] = v]
<1>2. /\ made \in 0 .. MaxRows /\ MaxRows \in Nat /\ present \subseteq 1 .. made
      /\ table \in [1 .. MaxRows -> Row]
  BY EnvironmentsAssumption DEF EnvironmentsIInv, EnvironmentsTypeOK
<1>3. i \in 1 .. made /\ i \in 1 .. MaxRows /\ i \in 0 .. made /\ i # 0
  BY <1>2
<1>4. r \in Edits /\ r \in Values
  BY ValueKinds DEF Edits
<1>5. passed \subseteq passed' /\ (passed \subseteq Edits => passed' \subseteq Edits)
  BY <1>4 DEF EditColumn
<1>6. Good(table[i], passed')
  BY <1>3, <1>5, TableKept
<1>7. /\ v \in Values /\ (op \in {"expire enroll", "expire remove"} => v = r)
      /\ Column(op) \in Columns
      /\ op \in {"configuration", "certificate", "debug on", "debug off"}
           => Column(op) \in {"configuration", "certificate", "debug_http"}
      /\ op \in {"expire enroll", "expire remove"}
           => Column(op) \in {"enroll_expire", "remove_expire"}
  BY <1>4, ValueKinds DEF ColumnEdits, Column, Columns
<1>. HIDE DEF v
<1>8. row = With(table[i], {Column(op)}, v) /\ table[i] \in Row
  <2>1. table[i] \in Row
    BY <1>2, <1>3
  <2>2. Column(op) \in Columns
    BY <1>7
  <2>3. [table[i] EXCEPT ![Column(op)] = v] = With(table[i], {Column(op)}, v)
    BY <2>1, <2>2, SetColumn
  <2>. QED  BY <2>1, <2>3
<1>. HIDE DEF row
<1>9. Good(row, passed')
  <2>1. CASE op \in {"configuration", "certificate", "debug on", "debug off"}
    BY <1>6, <1>7, <1>8, <2>1, OtherColumns
  <2>2. CASE op \in {"expire enroll", "expire remove"}
    <3>1. v = r /\ r \in passed' /\ Column(op) \in {"enroll_expire", "remove_expire"}
      BY <1>7, <2>2 DEF EditColumn
    <3>2. /\ row \in Row
          /\ \A c \in Columns : row[c] = IF c \in {Column(op)} THEN v ELSE table[i][c]
      <4>1. v \in Values /\ table[i] \in Row /\ row = With(table[i], {Column(op)}, v)
        BY <1>7, <1>8
      <4>. QED  BY <4>1, WithColumns
    <3>. QED  BY <1>4, <1>6, <3>1, <3>2 DEF Good, Paired, LinkColumns, Columns
  <2>. QED  BY <2>1, <2>2 DEF ColumnEdits
<1>10. table' = [table EXCEPT ![i] = row]
  BY <1>1, <1>2, <1>3 DEF row, v
<1>11. /\ table' \in [1 .. MaxRows -> Row]
      /\ \A j \in 1 .. made : Good(table'[j], passed')
  BY <1>3, <1>5, <1>9, <1>10, RowMoves
<1>12. /\ request' \in [Requests -> RequestState]
       /\ \A q \in Requests : GoodRequest(request'[q], passed')
       /\ overlapped' \in BOOLEAN
  BY <1>1, <1>3, <1>5, BeginGood DEF AllOperations
<1>13. UNCHANGED <<present, made, tag>>
  BY DEF EditColumn
<1>. QED
  BY <1>5, <1>11, <1>12, <1>13
  DEF EnvironmentsIInv, EnvironmentsTypeOK, GoodTable, GoodRequests, Good, GoodRequest, Paired

(* A handler or a command that only starts reads the row, or nothing. *)
LEMMA StartIInv ==
  ASSUME EnvironmentsIInv, NEW r \in Requests, NEW op \in AllOperations,
         \/ EditRow(r, op) \/ Create(r, op)
         \/ Delete(r) \/ RemoveTag(r)
  PROVE  EnvironmentsIInv'
<1>1. /\ made \in 0 .. MaxRows /\ MaxRows \in Nat /\ present \subseteq 1 .. made
      /\ passed \subseteq passed /\ passed \subseteq Edits
      /\ table \in [1 .. MaxRows -> Row] /\ tag \in BOOLEAN
  BY EnvironmentsAssumption DEF EnvironmentsIInv, EnvironmentsTypeOK
<1>2. ASSUME NEW o \in AllOperations, NEW pc \in {"get", "write", "insert", "done"},
             NEW i \in 0 .. made, i # 0 \/ pc \in {"insert", "done"}, Begin(r, o, pc, i)
      PROVE  /\ request' \in [Requests -> RequestState]
             /\ \A q \in Requests : GoodRequest(request'[q], passed)
             /\ overlapped' \in BOOLEAN
  BY <1>1, <1>2, BeginGood
<1>3. /\ request' \in [Requests -> RequestState]
      /\ \A q \in Requests : GoodRequest(request'[q], passed)
      /\ overlapped' \in BOOLEAN
  <2>1. CASE EditRow(r, op)
    <3>1. PICK i \in present : Begin(r, op, IF op = "update" THEN "get" ELSE "write", i)
      BY <2>1 DEF EditRow
    <3>2. i \in 0 .. made /\ i # 0
      BY <1>1
    <3>3. CASE op = "update"
      <4>1. Begin(r, op, "get", i)
        BY <3>1, <3>3
      <4>. QED  BY <1>2, <3>2, <4>1
    <3>4. CASE op # "update"
      <4>1. Begin(r, op, "write", i)
        BY <3>1, <3>4
      <4>. QED  BY <1>2, <3>2, <4>1
    <3>. QED  BY <3>3, <3>4
  <2>2. CASE Create(r, op)
    <3>1. Begin(r, op, "insert", 0)
      BY <2>2 DEF Create
    <3>2. 0 \in 0 .. made
      BY <1>1
    <3>. QED  BY <1>2, <3>1, <3>2
  <2>3. CASE Delete(r)
    <3>1. PICK i \in present : Begin(r, "delete", "done", i)
      BY <2>3 DEF Delete
    <3>2. i \in 0 .. made
      BY <1>1
    <3>3. "delete" \in AllOperations
      BY DEF AllOperations
    <3>. QED  BY <1>2, <3>1, <3>2, <3>3
  <2>4. CASE RemoveTag(r)
    <3>1. Begin(r, "remove tag", "done", 0)
      BY <2>4 DEF RemoveTag
    <3>2. 0 \in 0 .. made
      BY <1>1
    <3>3. "remove tag" \in AllOperations
      BY DEF AllOperations
    <3>. QED  BY <1>2, <3>1, <3>2, <3>3
  <2>. QED  BY <2>1, <2>2, <2>3, <2>4
<1>4. UNCHANGED <<table, made, passed>> /\ tag' \in BOOLEAN /\ present' \subseteq present
  BY <1>1 DEF EditRow, Create, Delete, RemoveTag
<1>. QED
  BY <1>1, <1>3, <1>4
  DEF EnvironmentsIInv, EnvironmentsTypeOK, GoodTable, GoodRequests, Good, GoodRequest, Paired

(* A row that was read may be written back over a later one. *)
LEMMA WriteIInv ==
  ASSUME EnvironmentsIInv, NEW r \in Requests, Write(r)
  PROVE  EnvironmentsIInv'
<1>1. /\ made \in 0 .. MaxRows /\ MaxRows \in Nat /\ present \subseteq 1 .. made
      /\ passed \subseteq passed /\ passed \subseteq Edits
      /\ table \in [1 .. MaxRows -> Row]
      /\ request[r] \in RequestState /\ request \in [Requests -> RequestState]
  BY EnvironmentsAssumption DEF EnvironmentsIInv, EnvironmentsTypeOK
<1>. DEFINE pc == CASE request[r].op = "intervals" -> "generate"
                    [] request[r].op = "update" -> "flags"
                    [] OTHER -> "done"
<1>2. PICK new \in Edited(r) :
        /\ Put(request[r].id, new)
        /\ request' = [request EXCEPT ![r].seen = new, ![r].pc = pc]
  BY DEF Write
<1>3. pc \in {"generate", "flags", "done"} /\ (request[r].op = "intervals" => pc # "flags")
  OBVIOUS
<1>. HIDE DEF pc
<1>4. Good(request[r].seen, passed) /\ request[r].op \in AllOperations \cup {Blank}
  BY <1>1 DEF Write, EnvironmentsIInv, GoodRequests, GoodRequest, RequestState
<1>5. /\ new \in Row
      /\ \A c \in LinkColumns : new[c] \in Edits
      /\ new["intervals"] \in Edits \cup {Blank} /\ new["hostname"] \in Edits
      /\ Paired(new, passed)
      /\ request[r].op # "intervals" => Good(new, passed)
  BY <1>4, EditedGood
<1>. DEFINE x == [request[r] EXCEPT !.seen = new, !.pc = pc]
<1>6. x \in RequestState /\ x.pc = pc /\ x.seen = new
  BY <1>1, <1>3, <1>5 DEF RequestState
<1>7. GoodRequest(x, passed)
  BY <1>3, <1>5, <1>6 DEF GoodRequest
<1>8. request' = [request EXCEPT ![r] = x]
  BY <1>1, <1>2 DEF RequestState
<1>. HIDE DEF x
<1>9. /\ request' \in [Requests -> RequestState]
      /\ \A q \in Requests : GoodRequest(request'[q], passed)
  BY <1>1, <1>6, <1>7, <1>8, RequestMoves
<1>10. /\ table' \in [1 .. MaxRows -> Row]
       /\ \A j \in 1 .. made : Good(table'[j], passed)
  <2>. DEFINE i == request[r].id
  <2>1. CASE i \in present
    <3>0. i \in 1 .. made
      BY <1>1, <2>1
    <3>. HIDE DEF i
    <3>1. i \in 1 .. made /\ i \in 1 .. MaxRows
      BY <1>1, <3>0
    <3>2. Good(table[i], passed)
      BY <3>1 DEF EnvironmentsIInv, GoodTable
    <3>3. Good(Updates(table[i], new), passed)
      BY <1>5, <3>2, UpdatesGood
    <3>4. table' = [table EXCEPT ![i] = Updates(table[i], new)]
      BY <1>2, <2>1 DEF Put, i
    <3>. QED  BY <1>1, <3>1, <3>3, <3>4, RowMoves
  <2>2. CASE i \notin present
    BY <1>1, <1>2, <2>2 DEF Put, EnvironmentsIInv, GoodTable
  <2>. QED  BY <2>1, <2>2
<1>11. UNCHANGED <<present, made, tag, passed, overlapped>>
  BY DEF Write
<1>. QED
  BY <1>1, <1>9, <1>10, <1>11
  DEF EnvironmentsIInv, EnvironmentsTypeOK, GoodTable, GoodRequests, Good, GoodRequest, Paired

(* The other steps of a handler under way. *)
LEMMA ProceedIInv ==
  ASSUME EnvironmentsIInv, NEW r \in Requests,
         Get(r) \/ GenerateFlags(r) \/ UpdateFlags(r) \/ NewTag(r)
  PROVE  EnvironmentsIInv'
<1>1. /\ made \in 0 .. MaxRows /\ MaxRows \in Nat /\ present \subseteq 1 .. made
      /\ passed \subseteq passed /\ passed \subseteq Edits
      /\ table \in [1 .. MaxRows -> Row]
      /\ request[r] \in RequestState /\ request \in [Requests -> RequestState]
  BY EnvironmentsAssumption DEF EnvironmentsIInv, EnvironmentsTypeOK
<1>2. /\ request' \in [Requests -> RequestState]
      /\ \A q \in Requests : GoodRequest(request'[q], passed)
  <2>1. ASSUME NEW pc \in {"write", "flags", "done"}, Goto(r, pc),
               pc = "done" \/ request[r].pc \in {"get", "write", "tag", "flags"}
        PROVE  <1>2
    BY <1>1, <2>1, GotoGood
  <2>2. ASSUME NEW i \in present,
               request' = [request EXCEPT ![r].pc = "flags", ![r].seen = table[i]]
        PROVE  <1>2
    <3>. DEFINE x == [request[r] EXCEPT !.pc = "flags", !.seen = table[i]]
    <3>1. i \in 1 .. made /\ i \in 1 .. MaxRows
      BY <1>1
    <3>2. Good(table[i], passed) /\ table[i] \in Row
      BY <1>1, <3>1 DEF EnvironmentsIInv, GoodTable
    <3>3. x \in RequestState /\ x.seen = table[i]
      BY <1>1, <3>2 DEF RequestState
    <3>4. GoodRequest(x, passed)
      BY <3>2, <3>3 DEF GoodRequest
    <3>5. request' = [request EXCEPT ![r] = x]
      BY <1>1, <2>2 DEF RequestState
    <3>. HIDE DEF x
    <3>. QED  BY <1>1, <3>3, <3>4, <3>5, RequestMoves
  <2>3. CASE Get(r)
    BY <2>1, <2>3 DEF Get
  <2>4. CASE GenerateFlags(r)
    BY <2>1, <2>2, <2>4 DEF GenerateFlags
  <2>5. CASE UpdateFlags(r)
    BY <2>1, <2>5 DEF UpdateFlags
  <2>6. CASE NewTag(r)
    BY <2>1, <2>6 DEF NewTag
  <2>. QED  BY <2>3, <2>4, <2>5, <2>6
<1>3. /\ table' \in [1 .. MaxRows -> Row]
      /\ \A j \in 1 .. made : Good(table'[j], passed)
  <2>1. CASE UpdateFlags(r)
    <3>. DEFINE T(i) == IF Found(i)
                        THEN [table[i] EXCEPT !["flags"] = Generated(request[r].seen)]
                        ELSE table[i]
    <3>1. Generated(request[r].seen) \in Values
      <4>1. Good(request[r].seen, passed)
        BY <2>1 DEF UpdateFlags, EnvironmentsIInv, GoodRequests, GoodRequest
      <4>. QED  BY <4>1, GeneratedType DEF Good
    <3>2. ASSUME NEW j \in 1 .. MaxRows
          PROVE  T(j) \in Row /\ (j \in 1 .. made => Good(T(j), passed))
      <4>1. table[j] \in Row /\ (j \in 1 .. made => Good(table[j], passed))
        BY <1>1, <3>2 DEF EnvironmentsIInv, GoodTable
      <4>2. [table[j] EXCEPT !["flags"] = Generated(request[r].seen)]
              = With(table[j], {"flags"}, Generated(request[r].seen))
        BY <4>1, SetColumn DEF Columns
      <4>3. With(table[j], {"flags"}, Generated(request[r].seen)) \in Row
        BY <3>1, <4>1, WithColumns
      <4>4. Good(table[j], passed)
              => Good(With(table[j], {"flags"}, Generated(request[r].seen)), passed)
        BY <3>1, OtherColumns
      <4>. QED  BY <4>1, <4>2, <4>3, <4>4
    <3>3. table' = [j \in 1 .. MaxRows |-> T(j)]
      BY <1>1, <2>1 DEF UpdateFlags
    <3>. HIDE DEF T
    <3>. QED  BY <1>1, <3>2, <3>3
  <2>2. CASE ~UpdateFlags(r)
    BY <1>1, <2>2 DEF Get, GenerateFlags, NewTag, EnvironmentsIInv, GoodTable
  <2>. QED  BY <2>1, <2>2
<1>4. UNCHANGED <<present, made, passed, overlapped>> /\ tag' \in BOOLEAN
  BY DEF Get, GenerateFlags, UpdateFlags, NewTag, EnvironmentsIInv, EnvironmentsTypeOK
<1>. QED
  BY <1>1, <1>2, <1>3, <1>4
  DEF EnvironmentsIInv, EnvironmentsTypeOK, GoodTable, GoodRequests, Good, GoodRequest, Paired

LEMMA InsertIInv ==
  ASSUME EnvironmentsIInv, NEW r \in Requests, Insert(r)
  PROVE  EnvironmentsIInv'
<1>1. /\ made \in 0 .. MaxRows /\ MaxRows \in Nat /\ present \subseteq 1 .. made
      /\ table \in [1 .. MaxRows -> Row] /\ passed \subseteq Edits
      /\ request[r] \in RequestState /\ request \in [Requests -> RequestState]
  BY EnvironmentsAssumption DEF EnvironmentsIInv, EnvironmentsTypeOK
<1>2. PICK row \in NewRows(r, request[r].op) :
        /\ table' = [table EXCEPT ![made + 1] = row]
        /\ request' = [request EXCEPT ![r].pc = "tag", ![r].seen = row]
  BY DEF Insert
<1>3. r \in Edits
  BY DEF Edits
<1>4. passed \subseteq passed' /\ passed' \subseteq Edits
  BY <1>1, <1>3 DEF Insert
<1>5. Good(row, passed') /\ row \in Row
  <2>1. Good(row, passed')
    BY <1>3, NewRowsGood
  <2>. QED  BY <2>1 DEF Good
<1>6. /\ made + 1 \in 1 .. MaxRows /\ made' = made + 1 /\ made' \in 0 .. MaxRows
      /\ 1 .. made' = (1 .. made) \cup {made + 1}
      /\ present' \subseteq 1 .. made'
  BY <1>1 DEF Insert
<1>7. /\ table' \in [1 .. MaxRows -> Row]
      /\ \A j \in 1 .. made' : Good(table'[j], passed')
  BY <1>2, <1>4, <1>5, <1>6, RowMoves
<1>. DEFINE x == [request[r] EXCEPT !.pc = "tag", !.seen = row]
<1>8. x \in RequestState /\ x.seen = row
  BY <1>1, <1>5 DEF RequestState
<1>9. GoodRequest(x, passed')
  BY <1>5, <1>8 DEF GoodRequest
<1>10. request' = [request EXCEPT ![r] = x]
  BY <1>1, <1>2 DEF RequestState
<1>. HIDE DEF x
<1>11. /\ request' \in [Requests -> RequestState]
       /\ \A q \in Requests : GoodRequest(request'[q], passed')
  BY <1>4, <1>8, <1>9, <1>10, RequestMoves
<1>12. UNCHANGED <<tag, overlapped>>
  BY DEF Insert
<1>. QED
  BY <1>4, <1>6, <1>7, <1>11, <1>12
  DEF EnvironmentsIInv, EnvironmentsTypeOK, GoodTable, GoodRequests, Good, GoodRequest, Paired

LEMMA PassIInv ==
  ASSUME EnvironmentsIInv, NEW e \in Edits, Pass(e)
  PROVE  EnvironmentsIInv'
<1>1. passed \subseteq passed' /\ passed' \subseteq Edits
  BY DEF Pass, EnvironmentsIInv, EnvironmentsTypeOK
<1>2. /\ \A j \in 1 .. made : Good(table[j], passed')
      /\ \A q \in Requests : GoodRequest(request[q], passed')
  BY <1>1, TableKept, RequestsKept
<1>3. UNCHANGED <<table, present, made, tag, request, overlapped>>
  BY DEF Pass
<1>. QED
  BY <1>1, <1>2, <1>3
  DEF EnvironmentsIInv, EnvironmentsTypeOK, GoodTable, GoodRequests, Good, GoodRequest, Paired

LEMMA NextEnvironments ==
  EnvironmentsIInv /\ [EnvironmentsNext]_environmentVars => EnvironmentsIInv'
<1>. SUFFICES ASSUME EnvironmentsIInv, [EnvironmentsNext]_environmentVars
              PROVE  EnvironmentsIInv'
  OBVIOUS
<1>1. CASE UNCHANGED environmentVars
  BY <1>1
  DEF environmentVars, EnvironmentsIInv, EnvironmentsTypeOK, GoodTable, GoodRequests,
      Good, GoodRequest, Paired
<1>2. ASSUME NEW e \in Edits, Pass(e) PROVE EnvironmentsIInv'
  BY <1>2, PassIInv
<1>3. ASSUME NEW r \in Requests, RequestStep(r) PROVE EnvironmentsIInv'
  <2>1. CASE ConfPOSTHandler(r) \/ EnrollPOSTHandler(r) \/ ExpireLink(r) \/ ChangeDebugHTTP(r)
    BY <2>1, EditColumnIInv
    DEF ConfPOSTHandler, EnrollPOSTHandler, ExpireLink, ChangeDebugHTTP, EditColumn
  <2>2. CASE \/ IntervalsPOSTHandler(r) \/ ExtendLink(r) \/ updateEnvironment(r)
             \/ Create(r, "create") \/ Create(r, "create by command")
             \/ Delete(r) \/ RemoveTag(r)
    BY <2>2, StartIInv
    DEF IntervalsPOSTHandler, ExtendLink, updateEnvironment, AllOperations, RowEdits
  <2>3. CASE Write(r)
    BY <2>3, WriteIInv
  <2>4. CASE Get(r) \/ GenerateFlags(r) \/ UpdateFlags(r) \/ NewTag(r)
    BY <2>4, ProceedIInv
  <2>5. CASE Insert(r)
    BY <2>5, InsertIInv
  <2>. QED  BY <1>3, <2>1, <2>2, <2>3, <2>4, <2>5 DEF RequestStep
<1>. QED  BY <1>1, <1>2, <1>3 DEF EnvironmentsNext

-----------------------------------------------------------------------------
(* The inductive invariant holds in every reachable state. *)
THEOREM EnvironmentsInvariantHolds == EnvironmentsSpec => []EnvironmentsIInv
  BY InitEnvironments, NextEnvironments, PTL DEF EnvironmentsSpec

(* Rows, requests and deadlines keep their types. *)
THEOREM EnvironmentsTypeCorrect == EnvironmentsSpec => []EnvironmentsTypeOK
<1>1. EnvironmentsIInv => EnvironmentsTypeOK
  BY DEF EnvironmentsIInv
<1>. QED  BY <1>1, EnvironmentsInvariantHolds, PTL

(* However many edits of however many requests overlap, no link gets the   *)
(* deadline of another one (RotateEnrollPath, RotateRemove, ExpireEnroll,  *)
(* ExpireRemove, UpdateIntervals, Update).                                 *)
THEOREM LinksSound == EnvironmentsSpec => []LinkKeepsDeadline
<1>1. EnvironmentsIInv => LinkKeepsDeadline
  <2>. SUFFICES ASSUME EnvironmentsIInv, NEW i \in present, NEW l \in Links
                PROVE  table[i][l[2]] = table[i][l[1]] \/ table[i][l[2]] \in passed
    BY DEF LinkKeepsDeadline
  <2>1. i \in 1 .. made
    BY DEF EnvironmentsIInv, EnvironmentsTypeOK
  <2>2. Paired(table[i], passed)
    BY <2>1 DEF EnvironmentsIInv, GoodTable, Good
  <2>3. \/ l[1] = "enroll_secret_path" /\ l[2] = "enroll_expire"
        \/ l[1] = "remove_secret_path" /\ l[2] = "remove_expire"
    BY DEF Links
  <2>. QED  BY <2>2, <2>3 DEF Paired
<1>. QED  BY <1>1, EnvironmentsInvariantHolds, PTL
-----------------------------------------------------------------------------
(* A link that is accepted after a step was accepted before it, unless the *)
(* step is a stale write or makes the link.                                *)

(* Both columns of a link. *)
Same(row, new, l) == new[l[1]] = row[l[1]] /\ new[l[2]] = row[l[2]]

LEMMA LinkNames ==
  ASSUME NEW l \in Links
  PROVE  /\ l[1] \in LinkColumns /\ l[2] \in LinkColumns /\ LinkColumns \subseteq Columns
         /\ \/ l[1] = "enroll_secret_path" /\ l[2] = "enroll_expire"
            \/ l[1] = "remove_secret_path" /\ l[2] = "remove_expire"
  BY DEF Links, LinkColumns, Columns

LEMMA EditedLinks ==
  ASSUME NEW r \in Requests, request[r].seen \in Row, NEW new \in Edited(r), NEW l \in Links
  PROVE  Same(request[r].seen, new, l) \/ new[l[1]] = r
<1>. DEFINE seen == request[r].seen
<1>1. r \in Values /\ Blank \in Values
  BY ValueKinds DEF Edits
<1>2. CASE request[r].op = "intervals"
  <2>1. PICK v \in {r, Blank} : new = With(seen, {"intervals"}, v)
    BY <1>2 DEF Edited
  <2>2. \A c \in LinkColumns : new[c] = seen[c]
    BY <1>1, <2>1, WithColumns DEF Columns, LinkColumns
  <2>. QED  BY <2>2, LinkNames DEF Same
<1>3. CASE request[r].op = "extend enroll"
  <2>1. new = With(seen, {"enroll_secret_path", "enroll_expire"}, r)
    BY <1>3 DEF Edited
  <2>2. /\ new["enroll_secret_path"] = r
        /\ \A c \in {"remove_secret_path", "remove_expire"} : new[c] = seen[c]
    BY <1>1, <2>1, WithColumns DEF Columns
  <2>. QED  BY <2>2, LinkNames DEF Same
<1>4. CASE request[r].op = "extend remove"
  <2>1. new = With(seen, {"remove_secret_path", "remove_expire"}, r)
    BY <1>4 DEF Edited
  <2>2. /\ new["remove_secret_path"] = r
        /\ \A c \in {"enroll_secret_path", "enroll_expire"} : new[c] = seen[c]
    BY <1>1, <2>1, WithColumns DEF Columns
  <2>. QED  BY <2>2, LinkNames DEF Same
<1>5. CASE request[r].op \notin {"intervals", "extend enroll", "extend remove"}
  <2>1. new \in Updated(seen, r)
    BY <1>5 DEF Edited
  <2>2. PICK d \in {On, Off}, h \in {seen["hostname"], r} :
          new = With(With(seen, {"debug_http"}, d), {"hostname"}, h)
    BY <2>1 DEF Updated
  <2>3. d \in Values /\ h \in Values
    BY <1>1, ValueKinds DEF Row, Columns
  <2>4. /\ With(seen, {"debug_http"}, d) \in Row
        /\ \A c \in LinkColumns : With(seen, {"debug_http"}, d)[c] = seen[c]
    BY <2>3, WithColumns DEF Columns, LinkColumns
  <2>5. \A c \in LinkColumns : new[c] = seen[c]
    BY <2>2, <2>3, <2>4, WithColumns DEF Columns, LinkColumns
  <2>. QED  BY <2>5, LinkNames DEF Same
<1>. QED  BY <1>2, <1>3, <1>4, <1>5

LEMMA NewRowLinks ==
  ASSUME NEW e \in Edits, NEW by, NEW row \in NewRows(e, by), NEW l \in Links
  PROVE  row[l[1]] = e
<1>0. /\ Empty(e) \in Row /\ \A c \in LinkColumns : Empty(e)[c] = e
  BY EmptyGood DEF Good, Empty, LinkColumns, Columns
<1>1. CASE by = "create"
  <2>1. row = [Empty(e) EXCEPT !["flags"] = Generated(Empty(e))]
    BY <1>1 DEF NewRows
  <2>2. \A c \in LinkColumns : row[c] = Empty(e)[c]
    BY <1>0, <2>1 DEF Row, LinkColumns, Columns
  <2>. QED  BY <1>0, <2>2, LinkNames
<1>2. CASE by # "create"
  <2>1. PICK c \in {Blank, e}, d \in {On, Off} :
          row = With(With(Empty(e), {"certificate"}, c), {"debug_http"}, d)
    BY <1>2 DEF NewRows
  <2>2. c \in Values /\ d \in Values
    BY ValueKinds
  <2>3. /\ With(Empty(e), {"certificate"}, c) \in Row
        /\ \A b \in LinkColumns : With(Empty(e), {"certificate"}, c)[b] = Empty(e)[b]
    BY <1>0, <2>2, WithColumns DEF LinkColumns, Columns
  <2>4. \A b \in LinkColumns : row[b] = Empty(e)[b]
    BY <2>1, <2>2, <2>3, WithColumns DEF LinkColumns, Columns
  <2>. QED  BY <1>0, <2>4, LinkNames
<1>. QED  BY <1>1, <1>2

(* Where the link of a row comes from. *)
Before(i, l, e) == i \in present /\ table[i][l[1]] = e /\ table[i][l[2]] \notin passed

LEMMA StandsBefore ==
  ASSUME EnvironmentsIInv, NEW r \in Requests, RequestStep(r), ~StaleWrite(r),
         NEW l \in Links, NEW e \in Edits, Issued(e),
         NEW i \in present', table'[i][l[1]] = e, table'[i][l[2]] \notin passed'
  PROVE  Before(i, l, e)
<1>0. /\ made \in 0 .. MaxRows /\ MaxRows \in Nat /\ present \subseteq 1 .. made
      /\ table \in [1 .. MaxRows -> Row] /\ DOMAIN table = 1 .. MaxRows
      /\ request[r] \in RequestState /\ request \in [Requests -> RequestState]
      /\ r \in Edits
  BY EnvironmentsAssumption DEF EnvironmentsIInv, EnvironmentsTypeOK, Edits
<1>1. \A j \in present : j \in 1 .. MaxRows /\ table[j] \in Row
  <2>1. \A j \in present : j \in 1 .. MaxRows
    BY <1>0
  <2>. QED  BY <1>0, <2>1
<1>2. ASSUME i \in present, Same(table[i], table'[i], l), passed \subseteq passed'
      PROVE  Before(i, l, e)
  BY <1>2 DEF Before, Same
<1>3. ASSUME UNCHANGED table, present' \subseteq present, passed \subseteq passed'
      PROVE  Before(i, l, e)
  BY <1>2, <1>3 DEF Same
<1>4. ASSUME NEW op \in ColumnEdits, EditColumn(r, op)
      PROVE  Before(i, l, e)
  <2>1. PICK k \in present :
          /\ Begin(r, op, "done", k)
          /\ table' = [table EXCEPT ![k][Column(op)] =
               CASE op = "debug on" -> On [] op = "debug off" -> Off [] OTHER -> r]
    BY <1>4 DEF EditColumn
  <2>. DEFINE v == CASE op = "debug on" -> On [] op = "debug off" -> Off [] OTHER -> r
  <2>2. /\ UNCHANGED present /\ passed \subseteq passed'
        /\ op \in {"expire enroll", "expire remove"} => v = r /\ r \in passed'
        /\ Column(op) \in LinkColumns =>
             op \in {"expire enroll", "expire remove"}
             /\ Column(op) \in {"enroll_expire", "remove_expire"}
    BY <1>4 DEF EditColumn, Column, LinkColumns, ColumnEdits
  <2>. HIDE DEF v
  <2>3. /\ \A j \in present \ {k} : table'[j] = table[j]
        /\ \A c \in Columns : table'[k][c] = IF c = Column(op) THEN v ELSE table[k][c]
    BY <1>0, <1>1, <2>1 DEF v, Row
  <2>4. CASE i # k
    BY <1>2, <2>2, <2>3, <2>4 DEF Same
  <2>5. CASE i = k
    <3>1. Column(op) # l[1] /\ Column(op) # l[2]
      BY <2>2, <2>3, <2>5, LinkNames
    <3>. QED  BY <1>2, <2>2, <2>3, <2>5, <3>1, LinkNames DEF Same
  <2>. QED  BY <2>4, <2>5
<1>5. CASE Write(r)
  <2>. DEFINE k == request[r].id
              seen == request[r].seen
  <2>1. PICK new \in Edited(r) :
          Put(k, new) /\ request'[r].pc \in {"generate", "flags", "done"}
    BY <1>0, <1>5 DEF Write
  <2>2. request[r].pc = "write" /\ UNCHANGED <<present, passed>> /\ e # r
    BY <1>5, EnvironmentsAssumption DEF Write, Issued
  <2>3. table[k] = seen
    BY <2>1, <2>2 DEF StaleWrite
  <2>4. CASE k \notin present \/ i # k
    BY <1>0, <1>1, <1>2, <2>1, <2>2, <2>4 DEF Put, Same
  <2>5. CASE k \in present /\ i = k
    <3>1. table'[i] = Updates(seen, new)
      BY <1>0, <1>1, <2>1, <2>3, <2>5 DEF Put
    <3>2. Same(seen, new, l) \/ new[l[1]] = r
      BY <1>1, <2>1, <2>3, <2>5, EditedLinks
    <3>3. \A c \in {l[1], l[2]} : table'[i][c] = IF new[c] \in {Blank, Off} THEN seen[c] ELSE new[c]
      BY <3>1, LinkNames DEF Updates
    <3>4. Same(seen, new, l)
      BY <1>0, <2>2, <3>2, <3>3, Distinct
    <3>. QED  BY <1>2, <2>2, <2>3, <2>5, <3>3, <3>4 DEF Same
  <2>. QED  BY <2>4, <2>5
<1>6. CASE UpdateFlags(r)
  <2>1. UNCHANGED <<present, passed>> /\ i \in present
    BY <1>6 DEF UpdateFlags
  <2>2. table'[i] \in {table[i], [table[i] EXCEPT !["flags"] = Generated(request[r].seen)]}
    BY <1>0, <1>1, <1>6, <2>1 DEF UpdateFlags
  <2>3. \A c \in LinkColumns : table'[i][c] = table[i][c]
    BY <1>1, <2>1, <2>2 DEF Row, LinkColumns, Columns
  <2>. QED  BY <1>2, <2>1, <2>3, LinkNames DEF Same
<1>7. CASE Insert(r)
  <2>1. PICK row \in NewRows(r, request[r].op) : table' = [table EXCEPT ![made + 1] = row]
    BY <1>7 DEF Insert
  <2>2. /\ e # r /\ passed \subseteq passed'
        /\ made + 1 \in 1 .. MaxRows /\ i \in present \cup {made + 1}
    <3>1. e # r
      BY <1>7, EnvironmentsAssumption DEF Insert, Issued
    <3>2. made < MaxRows /\ present' = present \cup {made + 1} /\ passed \subseteq passed'
      BY <1>7 DEF Insert
    <3>. QED  BY <1>0, <3>1, <3>2
  <2>3. CASE i = made + 1
    BY <1>0, <2>1, <2>2, <2>3, NewRowLinks
  <2>4. CASE i # made + 1
    BY <1>0, <1>1, <1>2, <2>1, <2>2, <2>4 DEF Same
  <2>. QED  BY <2>3, <2>4
<1>8. ASSUME NEW op \in AllOperations, EditRow(r, op) \/ Create(r, op)
      PROVE  Before(i, l, e)
  BY <1>3, <1>8 DEF EditRow, Create
<1>9. CASE Get(r) \/ GenerateFlags(r) \/ NewTag(r) \/ Delete(r) \/ RemoveTag(r)
  BY <1>3, <1>9 DEF Get, GenerateFlags, NewTag, Delete, RemoveTag
<1>. QED
  BY <1>4, <1>5, <1>6, <1>7, <1>8, <1>9
  DEF RequestStep, ConfPOSTHandler, EnrollPOSTHandler, ExpireLink, ChangeDebugHTTP,
      IntervalsPOSTHandler, ExtendLink, updateEnvironment, ColumnEdits, RowEdits, AllOperations

(* A link that was replaced, has expired or was deleted with its           *)
(* environment comes back by nothing but a stale write, however the edits  *)
(* of rows and columns overlap.                                            *)
THEOREM RevocationSound == EnvironmentsSpec => RevokedForGood
<1>. DEFINE Revoked == \A l \in Links, e \in Edits :
       Issued(e) /\ ~Standing(l, e) /\ Standing(l, e)' => \E r \in Requests : StaleWrite(r)
<1>1. EnvironmentsIInv /\ [EnvironmentsNext]_environmentVars => [Revoked]_environmentVars
  <2>. SUFFICES ASSUME EnvironmentsIInv, EnvironmentsNext, NEW l \in Links, NEW e \in Edits,
                       Issued(e), Standing(l, e)', ~ \E r \in Requests : StaleWrite(r)
                PROVE  Standing(l, e)
    OBVIOUS
  <2>1. PICK i \in present' : table'[i][l[1]] = e /\ table'[i][l[2]] \notin passed'
    BY DEF Standing
  <2>2. ASSUME NEW r \in Requests, RequestStep(r) PROVE Standing(l, e)
    <3>1. Before(i, l, e)
      BY <2>1, <2>2, StandsBefore
    <3>. QED  BY <3>1 DEF Before, Standing
  <2>3. ASSUME NEW d \in Edits, Pass(d) PROVE Standing(l, e)
    BY <2>1, <2>3 DEF Pass, Standing
  <2>. QED  BY <2>2, <2>3 DEF EnvironmentsNext
<1>. QED  BY <1>1, EnvironmentsInvariantHolds, PTL DEF EnvironmentsSpec, RevokedForGood

-----------------------------------------------------------------------------
(* As long as requests do not overlap, the one that runs knows the row it  *)
(* is about to write, and flags are behind only while it refreshes them.   *)

Fit(i) == table[i]["flags"] \in {Blank, Generated(table[i])}

InStep(r) ==
  /\ request[r].pc \in {"get", "write"} =>
       Found(request[r].id) /\ request[r].seen = table[request[r].id]
  /\ request[r].pc \in {"flags", "tag"} =>
       \A i \in present : Found(i) => Generated(request[r].seen) = Generated(table[i])
  /\ request[r].pc = "insert" => present = {}

Refreshes(r) == request[r].pc \in {"generate", "flags"}

FlagsFollow ==
  ~overlapped =>
    /\ \A r, s \in Running : r = s
    /\ \A r \in Requests : InStep(r)
    /\ \A i \in present : Fit(i) \/ (Found(i) /\ \E r \in Requests : Refreshes(r))

OperationsKnown ==
  \A r \in Requests :
    /\ request[r].pc = "get" => request[r].op = "update"
    /\ request[r].pc = "write" => request[r].op \in RowEdits

LEMMA FoundOnce ==
  ASSUME EnvironmentsTypeOK, NEW i, NEW j, Found(i), Found(j)
  PROVE  i = j
<1>1. made \in Nat /\ present \subseteq 1 .. made /\ i \in present /\ j \in present
  BY EnvironmentsAssumption DEF EnvironmentsTypeOK, Found
<1>2. i \in Nat /\ j \in Nat /\ i <= j /\ j <= i
  BY <1>1 DEF Found
<1>. QED  BY <1>2

(* What a request that begins alone, or goes on alone, may rely on. *)
LEMMA BeginsAlone ==
  ASSUME EnvironmentsTypeOK, FlagsFollow, NEW r \in Requests, NEW op, NEW pc, NEW i,
         Begin(r, op, pc, i), ~overlapped'
  PROVE  /\ \A j \in present : Fit(j)
         /\ \A s \in Requests \ {r} : request'[s].pc \in {"idle", "done"}
         /\ request'[r].pc = pc /\ request'[r].id = i /\ request'[r].op = op
         /\ i # 0 => request'[r].seen = table[i]
<1>1. ~overlapped /\ Running = {}
  BY DEF Begin
<1>2. \A s \in Requests : request[s].pc \in {"idle", "done"}
  BY <1>1 DEF Running
<1>3. \A j \in present : Fit(j)
  BY <1>1, <1>2 DEF FlagsFollow, Refreshes
<1>. QED  BY <1>2, <1>3 DEF Begin, EnvironmentsTypeOK

LEMMA GoesOnAlone ==
  ASSUME FlagsFollow, NEW r \in Requests, request[r].pc \notin {"idle", "done"},
         ~overlapped, \A s \in Requests \ {r} : request'[s] = request[s]
  PROVE  /\ \A s \in Requests \ {r} : request'[s].pc \in {"idle", "done"}
         /\ InStep(r)
         /\ \A i \in present : Fit(i) \/ (Found(i) /\ Refreshes(r))
<1>1. \A s \in Requests \ {r} : request[s].pc \in {"idle", "done"}
  BY DEF FlagsFollow, Running
<1>. QED  BY <1>1 DEF FlagsFollow, Refreshes

LEMMA FollowsAfter ==
  ASSUME NEW r \in Requests,
         \A s \in Requests \ {r} : request'[s].pc \in {"idle", "done"},
         InStep(r)',
         \A i \in present' : Fit(i)' \/ (Found(i)' /\ Refreshes(r)')
  PROVE  FlagsFollow'
<1>1. \A s, v \in Running' : s = v
  BY DEF Running
<1>2. \A s \in Requests : InStep(s)'
  BY DEF InStep
<1>. QED  BY <1>1, <1>2 DEF FlagsFollow

LEMMA OperationsKept ==
  ASSUME EnvironmentsTypeOK, OperationsKnown, NEW r \in Requests, RequestStep(r)
  PROVE  OperationsKnown'
<1>0. request \in [Requests -> RequestState] /\ request[r] \in RequestState
  BY DEF EnvironmentsTypeOK
<1>1. SUFFICES /\ \A s \in Requests \ {r} : request'[s] = request[s]
               /\ request'[r].pc = "get" => request'[r].op = "update"
               /\ request'[r].pc = "write" => request'[r].op \in RowEdits
  BY DEF OperationsKnown
<1>2. ASSUME NEW op, NEW pc, NEW i, Begin(r, op, pc, i),
             pc = "get" => op = "update", pc = "write" => op \in RowEdits
      PROVE  /\ \A s \in Requests \ {r} : request'[s] = request[s]
             /\ request'[r].pc = "get" => request'[r].op = "update"
             /\ request'[r].pc = "write" => request'[r].op \in RowEdits
  <2>1. request' = [request EXCEPT ![r] =
          [pc |-> pc, op |-> op, id |-> i, seen |-> IF i = 0 THEN BlankRow ELSE table[i]]]
    BY <1>2 DEF Begin
  <2>2. request'[r].pc = pc /\ request'[r].op = op
    BY <1>0, <2>1
  <2>3. \A s \in Requests \ {r} : request'[s] = request[s]
    BY <1>0, <2>1
  <2>. QED  BY <1>2, <2>2, <2>3
<1>3. ASSUME NEW op, EditColumn(r, op) \/ Create(r, op) \/ Delete(r) \/ RemoveTag(r) PROVE
             /\ \A s \in Requests \ {r} : request'[s] = request[s]
             /\ request'[r].pc = "get" => request'[r].op = "update"
             /\ request'[r].pc = "write" => request'[r].op \in RowEdits
  <2>1. \E b, i : Begin(r, b, "done", i) \/ Begin(r, b, "insert", i)
    BY <1>3 DEF EditColumn, Create, Delete, RemoveTag
  <2>. QED  BY <1>2, <2>1
<1>4. ASSUME NEW op, EditRow(r, op) PROVE
             /\ \A s \in Requests \ {r} : request'[s] = request[s]
             /\ request'[r].pc = "get" => request'[r].op = "update"
             /\ request'[r].pc = "write" => request'[r].op \in RowEdits
  <2>1. op \in RowEdits /\ \E i \in present : Begin(r, op, IF op = "update" THEN "get" ELSE "write", i)
    BY <1>4 DEF EditRow
  <2>. QED  BY <1>2, <2>1
<1>5. CASE Get(r)
  <2>1. request' = [request EXCEPT ![r].pc = IF present = {} THEN "done" ELSE "write"]
    BY <1>5 DEF Get, Goto
  <2>2. request[r].op = "update" /\ "update" \in RowEdits
    BY <1>5 DEF Get, OperationsKnown, RowEdits
  <2>3. request'[r].pc \in {"done", "write"} /\ request'[r].op = request[r].op
    BY <1>0, <2>1 DEF RequestState
  <2>. QED  BY <1>0, <2>1, <2>2, <2>3
<1>6. CASE Write(r)
  BY <1>0, <1>6 DEF Write
<1>7. CASE GenerateFlags(r) \/ UpdateFlags(r) \/ Insert(r) \/ NewTag(r)
  <2>1. \E pc \in {"done", "flags", "tag"} :
          \/ request' = [request EXCEPT ![r].pc = pc]
          \/ \E row : request' = [request EXCEPT ![r].pc = pc, ![r].seen = row]
    BY <1>7 DEF GenerateFlags, UpdateFlags, Insert, NewTag, Goto
  <2>2. /\ \A s \in Requests \ {r} : request'[s] = request[s]
        /\ request'[r].pc \in {"done", "flags", "tag"}
    BY <1>0, <2>1 DEF RequestState
  <2>. QED  BY <2>2
<1>. QED
  BY <1>3, <1>4, <1>5, <1>6, <1>7
  DEF RequestStep, ConfPOSTHandler, EnrollPOSTHandler, ExpireLink, ChangeDebugHTTP,
      IntervalsPOSTHandler, ExtendLink, updateEnvironment

LEMMA BeginFollows ==
  ASSUME EnvironmentsIInv, FlagsFollow, ~overlapped', NEW r \in Requests, NEW op,
         EditColumn(r, op) \/ EditRow(r, op) \/ Create(r, op) \/ Delete(r) \/ RemoveTag(r)
  PROVE  FlagsFollow'
<1>0. /\ EnvironmentsTypeOK /\ made \in Nat /\ present \subseteq 1 .. made /\ 0 \notin present
      /\ table \in [1 .. MaxRows -> Row] /\ present \subseteq 1 .. MaxRows
      /\ MaxRows \in Nat
  BY EnvironmentsAssumption DEF EnvironmentsIInv, EnvironmentsTypeOK
<1>1. ASSUME NEW b, NEW pc \in {"done", "insert", "get", "write"}, NEW i, Begin(r, b, pc, i),
             present' \subseteq present, \A j \in present : Fit(j) => Fit(j)',
             pc = "insert" => present' = {},
             pc \in {"get", "write"} => Found(i) /\ UNCHANGED <<table, present>>
      PROVE  FlagsFollow'
  <2>1. /\ \A j \in present : Fit(j)
        /\ \A s \in Requests \ {r} : request'[s].pc \in {"idle", "done"}
        /\ request'[r].pc = pc /\ request'[r].id = i
        /\ i # 0 => request'[r].seen = table[i]
    BY <1>0, <1>1, BeginsAlone
  <2>2. pc \in {"get", "write"} => i # 0
    BY <1>0, <1>1 DEF Found
  <2>3. InStep(r)'
    BY <1>1, <2>1, <2>2 DEF InStep, Found
  <2>4. \A j \in present' : Fit(j)'
    BY <1>1, <2>1
  <2>. QED  BY <2>1, <2>3, <2>4, FollowsAfter
<1>2. CASE EditColumn(r, op)
  <2>1. PICK k \in present :
          /\ Begin(r, op, "done", k)
          /\ table' = [table EXCEPT ![k][Column(op)] =
               CASE op = "debug on" -> On [] op = "debug off" -> Off [] OTHER -> r]
    BY <1>2 DEF EditColumn
  <2>2. Column(op) \notin {"flags", "intervals", "hostname"} /\ UNCHANGED present
    BY <1>2 DEF EditColumn, ColumnEdits, Column
  <2>3. \A j \in present : \A c \in {"flags", "intervals", "hostname"} :
          table'[j][c] = table[j][c]
    <3>1. ASSUME NEW j \in present, NEW c \in {"flags", "intervals", "hostname"}
          PROVE  table'[j][c] = table[j][c]
      <4>1. j \in 1 .. MaxRows /\ k \in 1 .. MaxRows /\ table[k] \in Row /\ c \in Columns
        BY <1>0 DEF Columns
      <4>. QED  BY <1>0, <2>1, <2>2, <4>1 DEF Row
    <3>. QED  BY <3>1
  <2>4. \A j \in present : Fit(j) => Fit(j)'
    BY <2>3 DEF Fit, Generated
  <2>. QED  BY <1>1, <2>1, <2>2, <2>4
<1>3. CASE EditRow(r, op)
  <2>1. PICK i \in present : Found(i) /\ Begin(r, op, IF op = "update" THEN "get" ELSE "write", i)
    BY <1>3 DEF EditRow
  <2>2. UNCHANGED <<table, present>> /\ \A j \in present : Fit(j) => Fit(j)'
    BY <1>3 DEF EditRow, Fit
  <2>3. (IF op = "update" THEN "get" ELSE "write") \in {"done", "insert", "get", "write"}
    OBVIOUS
  <2>4. (IF op = "update" THEN "get" ELSE "write") # "insert"
    OBVIOUS
  <2>. QED  BY <1>1, <2>1, <2>2, <2>3, <2>4
<1>4. CASE Create(r, op)
  <2>1. Begin(r, op, "insert", 0) /\ present = {} /\ UNCHANGED present
    BY <1>4 DEF Create
  <2>. QED  BY <1>1, <2>1
<1>5. CASE Delete(r) \/ RemoveTag(r)
  <2>1. UNCHANGED table /\ present' \subseteq present
        /\ \E b, i : Begin(r, b, "done", i)
    BY <1>5 DEF Delete, RemoveTag
  <2>2. \A j \in present : Fit(j) => Fit(j)'
    BY <2>1 DEF Fit
  <2>. QED  BY <1>1, <2>1, <2>2
<1>. QED  BY <1>2, <1>3, <1>4, <1>5

(* Writing back the row that was read: what flags are made of stays as the *)
(* request has it, and the flags stay as they were.                        *)
LEMMA UpdatedRow ==
  ASSUME EnvironmentsIInv, OperationsKnown, NEW r \in Requests, request[r].pc = "write",
         request[r].op # "intervals", NEW new \in Edited(r)
  PROVE  /\ Generated(Updates(request[r].seen, new)) = Generated(new)
         /\ Updates(request[r].seen, new)["flags"] = request[r].seen["flags"]
         /\ request[r].op # "update" => Generated(new) = Generated(request[r].seen)
<1>. DEFINE seen == request[r].seen
<1>0. /\ seen \in Row /\ seen["intervals"] \in Edits /\ seen["hostname"] \in Edits
      /\ r \in Edits /\ r \in Values
      /\ request[r].op \in {"extend enroll", "extend remove", "update"}
  BY ValueKinds
  DEF EnvironmentsIInv, GoodRequests, GoodRequest, Good, OperationsKnown, RowEdits, Edits
<1>1. /\ new["flags"] = seen["flags"] /\ new["intervals"] = seen["intervals"]
      /\ new["hostname"] \in {seen["hostname"], r}
      /\ request[r].op # "update" => new["hostname"] = seen["hostname"]
  <2>1. CASE request[r].op \in {"extend enroll", "extend remove"}
    <3>1. PICK columns \in {{"enroll_secret_path", "enroll_expire"},
                             {"remove_secret_path", "remove_expire"}} :
            new = With(seen, columns, r)
      BY <2>1 DEF Edited
    <3>2. \A c \in Columns : new[c] = IF c \in columns THEN r ELSE seen[c]
      BY <3>1 DEF With
    <3>3. \A c \in {"flags", "intervals", "hostname"} : c \in Columns /\ c \notin columns
      BY DEF Columns
    <3>. QED  BY <3>2, <3>3
  <2>2. CASE request[r].op = "update"
    <3>1. PICK d \in {On, Off}, h \in {seen["hostname"], r} :
            new = With(With(seen, {"debug_http"}, d), {"hostname"}, h)
      BY <2>2 DEF Edited, Updated
    <3>2. d \in Values /\ h \in Values
      BY <1>0, ValueKinds
    <3>3. /\ With(seen, {"debug_http"}, d) \in Row
          /\ \A c \in {"flags", "intervals"} : With(seen, {"debug_http"}, d)[c] = seen[c]
      <4>1. \A c \in {"flags", "intervals"} : c \in Columns /\ c \notin {"debug_http"}
        BY DEF Columns
      <4>. QED  BY <1>0, <3>2, <4>1 DEF With, Row
    <3>. QED  BY <2>2, <3>1, <3>2, <3>3, WithColumns DEF Columns
  <2>. QED  BY <1>0, <2>1, <2>2
<1>2. \A c \in {"flags", "intervals", "hostname"} :
        Updates(seen, new)[c] = IF new[c] \in {Blank, Off} THEN seen[c] ELSE new[c]
  BY DEF Updates, Columns
<1>3. /\ Updates(seen, new)["flags"] = seen["flags"]
      /\ Updates(seen, new)["intervals"] = new["intervals"]
      /\ Updates(seen, new)["hostname"] = new["hostname"]
  BY <1>0, <1>1, <1>2, Distinct
<1>. QED  BY <1>1, <1>3 DEF Generated

LEMMA WriteFollows ==
  ASSUME EnvironmentsIInv, OperationsKnown, FlagsFollow, ~overlapped,
         NEW r \in Requests, Write(r)
  PROVE  FlagsFollow'
<1>. PICK k, seen : k = request[r].id /\ seen = request[r].seen
  OBVIOUS
<1>0. /\ EnvironmentsTypeOK /\ request \in [Requests -> RequestState]
      /\ request[r] \in RequestState /\ table \in [1 .. MaxRows -> Row]
  BY DEF EnvironmentsIInv, EnvironmentsTypeOK
<1>1. request[r].pc = "write" /\ UNCHANGED present
  BY DEF Write
<1>2. PICK new \in Edited(r) :
        /\ Put(k, new)
        /\ request' = [request EXCEPT
             ![r].seen = new,
             ![r].pc = CASE request[r].op = "intervals" -> "generate"
                         [] request[r].op = "update" -> "flags"
                         [] OTHER -> "done"]
  BY DEF Write
<1>3. /\ \A s \in Requests \ {r} : request'[s] = request[s]
      /\ request'[r].seen = new
      /\ request'[r].pc = IF request[r].op = "intervals" THEN "generate"
                          ELSE IF request[r].op = "update" THEN "flags" ELSE "done"
  BY <1>0, <1>2 DEF RequestState
<1>4. /\ \A s \in Requests \ {r} : request'[s].pc \in {"idle", "done"}
      /\ InStep(r)
      /\ \A i \in present : Fit(i) \/ (Found(i) /\ Refreshes(r))
  BY <1>1, <1>3, GoesOnAlone
<1>5. /\ Found(k) /\ seen = table[k] /\ \A i \in present : Fit(i)
  BY <1>1, <1>4 DEF InStep, Refreshes
<1>6. /\ \A i \in present : Found(i) => Found(i)'
      /\ \A i \in present : Found(i)' => Found(i)
  BY <1>1 DEF Found
<1>7. k \in 1 .. MaxRows /\ table'[k] = Updates(seen, new)
  <2>1. k \in present
    BY <1>5 DEF Found
  <2>2. k \in 1 .. MaxRows
    <3>1. /\ present \subseteq 1 .. made /\ made \in 0 .. MaxRows
          /\ MaxRows \in Nat
      BY <1>0, EnvironmentsAssumption DEF EnvironmentsTypeOK
    <3>2. \A j \in 1 .. made : j \in 1 .. MaxRows
      BY <3>1
    <3>. QED  BY <2>1, <3>1, <3>2
  <2>. QED  BY <1>0, <1>2, <1>5, <2>1, <2>2 DEF Put
<1>8. \A i \in present \ {k} : Fit(i)'
  <2>1. ASSUME NEW i \in present \ {k} PROVE table'[i] = table[i]
    BY <1>0, <1>2 DEF Put
  <2>. QED  BY <1>5, <2>1 DEF Fit
<1>9. CASE request[r].op = "intervals"
  <2>1. InStep(r)' /\ Refreshes(r)'
    BY <1>3, <1>9 DEF InStep, Refreshes
  <2>. QED  BY <1>1, <1>4, <1>5, <1>6, <1>8, <2>1, FollowsAfter
<1>10. CASE request[r].op = "update"
  <2>1. \A i \in present' : Found(i)' => i = k
    BY <1>0, <1>1, <1>5, <1>6, FoundOnce
  <2>2. Generated(new) = Generated(table'[k])
    BY <1>1, <1>7, <1>10, UpdatedRow
  <2>3. InStep(r)' /\ Refreshes(r)'
    BY <1>3, <1>10, <2>1, <2>2 DEF InStep, Refreshes
  <2>. QED  BY <1>1, <1>4, <1>5, <1>6, <1>8, <2>3, FollowsAfter
<1>11. CASE request[r].op \notin {"intervals", "update"}
  <2>1. InStep(r)'
    BY <1>3, <1>11 DEF InStep
  <2>2. /\ table'[k]["flags"] = seen["flags"]
        /\ Generated(table'[k]) = Generated(seen)
    BY <1>1, <1>7, <1>11, UpdatedRow
  <2>3. Fit(k)
    BY <1>5 DEF Found
  <2>4. Fit(k)'
    BY <1>5, <2>2, <2>3 DEF Fit
  <2>. QED  BY <1>1, <1>4, <1>8, <2>1, <2>4, FollowsAfter
<1>. QED  BY <1>9, <1>10, <1>11

LEMMA ProceedFollows ==
  ASSUME EnvironmentsIInv, FlagsFollow, ~overlapped, NEW r \in Requests,
         Get(r) \/ GenerateFlags(r) \/ UpdateFlags(r) \/ NewTag(r)
  PROVE  FlagsFollow'
<1>0. /\ EnvironmentsTypeOK /\ request \in [Requests -> RequestState]
      /\ request[r] \in RequestState /\ table \in [1 .. MaxRows -> Row]
      /\ \A i \in present : i \in 1 .. MaxRows
  <2>1. EnvironmentsTypeOK
    BY DEF EnvironmentsIInv
  <2>. QED  BY <2>1, EnvironmentsAssumption DEF EnvironmentsTypeOK
<1>1. /\ UNCHANGED present /\ request[r].pc \in {"get", "generate", "flags", "tag"}
  BY DEF Get, GenerateFlags, UpdateFlags, NewTag
<1>2. \A i \in present : Found(i) => Found(i)'
  BY <1>1 DEF Found
<1>3. \A s \in Requests \ {r} : request'[s] = request[s]
  BY <1>0 DEF Get, GenerateFlags, UpdateFlags, NewTag, Goto
<1>4. /\ \A s \in Requests \ {r} : request'[s].pc \in {"idle", "done"}
      /\ InStep(r)
      /\ \A i \in present : Fit(i) \/ (Found(i) /\ Refreshes(r))
  BY <1>1, <1>3, GoesOnAlone
<1>5. CASE Get(r)
  <2>1. request' = [request EXCEPT ![r].pc = IF present = {} THEN "done" ELSE "write"]
    BY <1>5 DEF Get, Goto
  <2>2. /\ request[r].pc = "get" /\ UNCHANGED table
        /\ request'[r].pc \in {"done", "write"}
        /\ request'[r].id = request[r].id /\ request'[r].seen = request[r].seen
    BY <1>0, <1>5, <2>1 DEF Get, RequestState
  <2>3. InStep(r)' /\ \A i \in present : Fit(i)'
    BY <1>1, <1>4, <2>2 DEF InStep, Found, Fit, Refreshes
  <2>. QED  BY <1>1, <1>4, <2>3, FollowsAfter
<1>6. CASE GenerateFlags(r)
  <2>1. UNCHANGED table /\ \A i \in present : Fit(i) => Fit(i)'
    BY <1>6 DEF GenerateFlags, Fit
  <2>2. CASE present = {} /\ Goto(r, "done")
    <3>1. request'[r].pc = "done"
      BY <1>0, <2>2 DEF Goto, RequestState
    <3>. QED  BY <1>1, <1>4, <2>2, <3>1, FollowsAfter DEF InStep
  <2>3. CASE \E i \in present :
               /\ Found(i)
               /\ request' = [request EXCEPT ![r].pc = "flags", ![r].seen = table[i]]
    <3>1. PICK i \in present :
            /\ Found(i)
            /\ request' = [request EXCEPT ![r].pc = "flags", ![r].seen = table[i]]
      BY <2>3
    <3>2. request'[r].pc = "flags" /\ request'[r].seen = table[i]
      BY <1>0, <3>1 DEF RequestState
    <3>3. \A j \in present' : Found(j)' => j = i
      <4>1. \A j \in present' : Found(j)' => Found(j)
        BY <1>1 DEF Found
      <4>. QED  BY <1>0, <3>1, <4>1, FoundOnce
    <3>4. InStep(r)' /\ Refreshes(r)'
      BY <2>1, <3>2, <3>3 DEF InStep, Refreshes
    <3>. QED  BY <1>1, <1>2, <1>4, <2>1, <3>4, FollowsAfter
  <2>. QED  BY <1>6, <2>2, <2>3 DEF GenerateFlags
<1>7. CASE UpdateFlags(r)
  <2>1. request'[r].pc = "done" /\ request[r].pc = "flags"
    BY <1>0, <1>7 DEF UpdateFlags, Goto, RequestState
  <2>2. \A i \in 1 .. MaxRows :
          table'[i] = IF Found(i) THEN [table[i] EXCEPT !["flags"] = Generated(request[r].seen)]
                      ELSE table[i]
    BY <1>0, <1>7 DEF UpdateFlags
  <2>3. ASSUME NEW i \in present PROVE Fit(i)'
    <3>1. CASE Found(i)
      <4>1. table[i] \in Row /\ {"flags", "intervals", "hostname"} \subseteq Columns
        BY <1>0 DEF Columns
      <4>2. table'[i] = [table[i] EXCEPT !["flags"] = Generated(request[r].seen)]
        BY <1>0, <2>2, <3>1
      <4>3. /\ table'[i]["flags"] = Generated(request[r].seen)
            /\ table'[i]["intervals"] = table[i]["intervals"]
            /\ table'[i]["hostname"] = table[i]["hostname"]
        BY <4>1, <4>2 DEF Row
      <4>4. Generated(request[r].seen) = Generated(table[i])
        BY <1>4, <2>1, <3>1 DEF InStep
      <4>. QED  BY <4>3, <4>4 DEF Fit, Generated
    <3>2. CASE ~Found(i)
      <4>1. table'[i] = table[i] /\ Fit(i)
        BY <1>0, <1>4, <2>2, <3>2
      <4>. QED  BY <4>1 DEF Fit
    <3>. QED  BY <3>1, <3>2
  <2>4. InStep(r)'
    BY <2>1 DEF InStep
  <2>. QED  BY <1>1, <1>4, <2>3, <2>4, FollowsAfter
<1>8. CASE NewTag(r)
  <2>1. /\ request[r].pc = "tag" /\ UNCHANGED table
        /\ request'[r].pc \in {"done", "flags"}
        /\ request'[r].seen = request[r].seen
    BY <1>0, <1>8 DEF NewTag, Goto, RequestState
  <2>2. InStep(r)' /\ \A i \in present : Fit(i)'
    BY <1>1, <1>4, <2>1 DEF InStep, Found, Fit, Refreshes
  <2>. QED  BY <1>1, <1>4, <2>2, FollowsAfter
<1>. QED  BY <1>5, <1>6, <1>7, <1>8

LEMMA InsertFollows ==
  ASSUME EnvironmentsIInv, FlagsFollow, ~overlapped, NEW r \in Requests, Insert(r)
  PROVE  FlagsFollow'
<1>0. /\ request \in [Requests -> RequestState] /\ request[r] \in RequestState
      /\ table \in [1 .. MaxRows -> Row] /\ made \in Nat /\ MaxRows \in Nat
  BY EnvironmentsAssumption DEF EnvironmentsIInv, EnvironmentsTypeOK
<1>1. /\ request[r].pc = "insert" /\ made < MaxRows /\ present' = present \cup {made + 1}
  BY DEF Insert
<1>2. PICK row \in NewRows(r, request[r].op) :
        /\ table' = [table EXCEPT ![made + 1] = row]
        /\ request' = [request EXCEPT ![r].pc = "tag", ![r].seen = row]
  BY DEF Insert
<1>3. /\ \A s \in Requests \ {r} : request'[s] = request[s]
      /\ request'[r].pc = "tag" /\ request'[r].seen = row
  BY <1>0, <1>2 DEF RequestState
<1>4. /\ \A s \in Requests \ {r} : request'[s].pc \in {"idle", "done"}
      /\ InStep(r)
  BY <1>1, <1>3, GoesOnAlone
<1>5. present' = {made + 1} /\ table'[made + 1] = row
  BY <1>0, <1>1, <1>2, <1>4 DEF InStep
<1>6. InStep(r)'
  BY <1>3, <1>5 DEF InStep
<1>7. row["flags"] \in {Blank, Generated(row)}
  <2>0. Empty(r) \in Row /\ r \in Values /\ Blank \in Values /\ On \in Values /\ Off \in Values
    BY EmptyGood, ValueKinds DEF Good, Edits
  <2>1. CASE request[r].op = "create"
    <3>1. row = [Empty(r) EXCEPT !["flags"] = Generated(Empty(r))]
      BY <2>1 DEF NewRows
    <3>2. /\ row["flags"] = Generated(Empty(r))
          /\ row["intervals"] = Empty(r)["intervals"] /\ row["hostname"] = Empty(r)["hostname"]
      BY <2>0, <3>1 DEF Row, Columns
    <3>. QED  BY <3>2 DEF Generated
  <2>2. CASE request[r].op # "create"
    <3>1. PICK c \in {Blank, r}, d \in {On, Off} :
            row = With(With(Empty(r), {"certificate"}, c), {"debug_http"}, d)
      BY <2>2 DEF NewRows
    <3>2. Empty(r)["flags"] = Blank
      BY DEF Empty, Columns
    <3>3. /\ With(Empty(r), {"certificate"}, c) \in Row
          /\ With(Empty(r), {"certificate"}, c)["flags"] = Blank
      BY <2>0, <3>2, WithColumns DEF Columns
    <3>. QED  BY <2>0, <3>1, <3>3, WithColumns DEF Columns
  <2>. QED  BY <2>1, <2>2
<1>8. \A i \in present' : Fit(i)'
  BY <1>5, <1>7 DEF Fit
<1>. QED  BY <1>4, <1>6, <1>8, FollowsAfter

LEMMA InitFollows == EnvironmentsInit => FlagsFollow /\ OperationsKnown
<1>. SUFFICES ASSUME EnvironmentsInit PROVE FlagsFollow /\ OperationsKnown
  OBVIOUS
<1>1. \A r \in Requests : request[r].pc = "idle"
  BY DEF EnvironmentsInit
<1>2. ASSUME NEW i \in present PROVE Fit(i)
  <2>1. Empty(First) \in Row
    BY EmptyGood DEF Good, Edits
  <2>2. i \in 1 .. MaxRows /\ i \in 1 .. made
    BY <1>2, EnvironmentsAssumption DEF EnvironmentsInit
  <2>3. table[i] = [Empty(First) EXCEPT !["flags"] = Generated(Empty(First))]
    BY <2>2 DEF EnvironmentsInit
  <2>4. /\ table[i]["flags"] = Generated(Empty(First))
        /\ table[i]["intervals"] = Empty(First)["intervals"]
        /\ table[i]["hostname"] = Empty(First)["hostname"]
    BY <2>1, <2>3 DEF Row, Columns
  <2>. QED  BY <2>4 DEF Fit, Generated
<1>. QED  BY <1>1, <1>2 DEF FlagsFollow, OperationsKnown, InStep, Running

LEMMA NextFollows ==
  EnvironmentsIInv /\ OperationsKnown /\ FlagsFollow /\ [EnvironmentsNext]_environmentVars
    => OperationsKnown' /\ FlagsFollow'
<1>. SUFFICES ASSUME EnvironmentsIInv, OperationsKnown, FlagsFollow,
                     [EnvironmentsNext]_environmentVars
              PROVE  OperationsKnown' /\ FlagsFollow'
  OBVIOUS
<1>0. EnvironmentsTypeOK
  BY DEF EnvironmentsIInv
<1>1. ASSUME UNCHANGED <<table, present, request, overlapped>>
      PROVE  OperationsKnown' /\ FlagsFollow'
  BY <1>1 DEF OperationsKnown, FlagsFollow, Running, InStep, Found, Fit, Refreshes
<1>2. ASSUME NEW r \in Requests, RequestStep(r) PROVE OperationsKnown' /\ FlagsFollow'
  <2>1. OperationsKnown'
    BY <1>0, <1>2, OperationsKept
  <2>2. CASE overlapped'
    BY <2>1, <2>2 DEF FlagsFollow
  <2>3. CASE ~overlapped'
    <3>1. CASE Get(r) \/ GenerateFlags(r) \/ UpdateFlags(r) \/ NewTag(r)
      <4>1. ~overlapped
        BY <2>3, <3>1 DEF Get, GenerateFlags, UpdateFlags, NewTag
      <4>. QED  BY <2>1, <3>1, <4>1, ProceedFollows
    <3>2. CASE Write(r) \/ Insert(r)
      <4>1. ~overlapped
        BY <2>3, <3>2 DEF Write, Insert
      <4>. QED  BY <2>1, <3>2, <4>1, WriteFollows, InsertFollows
    <3>3. CASE \E op : \/ EditColumn(r, op) \/ EditRow(r, op) \/ Create(r, op)
                       \/ Delete(r) \/ RemoveTag(r)
      BY <2>1, <2>3, <3>3, BeginFollows
    <3>. QED
      BY <1>2, <3>1, <3>2, <3>3
      DEF RequestStep, ConfPOSTHandler, EnrollPOSTHandler, ExpireLink, ChangeDebugHTTP,
          IntervalsPOSTHandler, ExtendLink, updateEnvironment
  <2>. QED  BY <2>2, <2>3
<1>3. ASSUME NEW e \in Edits, Pass(e) PROVE OperationsKnown' /\ FlagsFollow'
  BY <1>1, <1>3 DEF Pass
<1>4. CASE UNCHANGED environmentVars
  BY <1>1, <1>4 DEF environmentVars
<1>. QED  BY <1>2, <1>3, <1>4 DEF EnvironmentsNext

(* When requests come one after the other, no row is left with flags that  *)
(* were made for other intervals or another host name.                     *)
THEOREM FlagsSound == EnvironmentsSpec => []FlagsUpToDate
<1>1. FlagsFollow => FlagsUpToDate
  <2>. SUFFICES ASSUME FlagsFollow, Running = {}, ~overlapped, NEW i \in present
                PROVE  Fit(i)
    BY DEF FlagsUpToDate, Fit
  <2>1. \A r \in Requests : ~Refreshes(r)
    BY DEF Running, Refreshes
  <2>. QED  BY <2>1 DEF FlagsFollow
<1>. QED
  BY <1>1, InitFollows, NextFollows, EnvironmentsInvariantHolds, PTL DEF EnvironmentsSpec
=============================================================================
