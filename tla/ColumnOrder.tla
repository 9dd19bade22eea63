------------------------------ MODULE ColumnOrder -----------------------------
(* The order of a board's columns (areas.sort).  A new column gets a number   *)
(* from how many there are (area POST, the tool createArea); dragging one     *)
(* sends the whole list, and each column in it is numbered by a statement of  *)
(* its own (board PATCH, the tool moveAreas).  Archived columns keep theirs.  *)

EXTENDS Naturals, FiniteSets, Sequences, SequencesExt

CONSTANTS
  OrderCalls,     \* requests that may be under way at a time
  MaxColumns,     \* bound: columns ever made
  MaxOrderCalls   \* bound: requests

VARIABLES
  columns,        \* `areas`: for each id ever given out its number and where it is
  orderCall,
  orderCallsLeft,
  dragged         \* the order last asked for, while nothing else has been changed

orderVars == <<columns, orderCall, orderCallsLeft, dragged>>

NoOrderCall == [step |-> "idle", number |-> 0, list |-> << >>, at |-> 1, alone |-> TRUE]

OrderInit ==
  /\ columns = << >>
  /\ orderCall = [p \in OrderCalls |-> NoOrderCall]
  /\ orderCallsLeft = MaxOrderCalls
  /\ dragged = << >>

ShownColumns == {a \in DOMAIN columns : columns[a].where = "shown"}
ColumnRows == {a \in DOMAIN columns : columns[a].where # "gone"}

(* ORDER BY sort alone: equal numbers come in either order.                   *)
InOrder(list) == \A i, j \in DOMAIN list : i < j => columns[list[i]].sort <= columns[list[j]].sort
CertainlyInOrder(list) == \A i, j \in DOMAIN list : i < j => columns[list[i]].sort < columns[list[j]].sort
Listings(set) == {list \in SetToSeqs(set) : InOrder(list)}

Spends == orderCallsLeft > 0 /\ orderCallsLeft' = orderCallsLeft - 1
Alone(p) == \A q \in OrderCalls \ {p} : orderCall[q].step = "idle"

(* Whatever writes makes the requests under way no longer alone.              *)
Crosses(p, call) ==
  orderCall' = [q \in OrderCalls |-> IF q = p THEN call ELSE [orderCall[q] EXCEPT !.alone = FALSE]]

-----------------------------------------------------------------------------
(* All of the board's rows, archived ones too.                                *)
CountColumns(p) ==
  /\ orderCall[p].step = "idle" /\ Spends
  /\ Crosses(p, [NoOrderCall EXCEPT !.step = "insert", !.number = Cardinality(ColumnRows) + 1,
                                    !.alone = Alone(p)])
  /\ dragged' = << >>
  /\ UNCHANGED columns

InsertColumn(p) ==
  /\ orderCall[p].step = "insert"
  /\ Len(columns) < MaxColumns
  /\ columns' = Append(columns, [sort |-> orderCall[p].number, where |-> "shown",
                                 alone |-> orderCall[p].alone])
  /\ orderCall' = [orderCall EXCEPT ![p] = NoOrderCall]
  /\ UNCHANGED <<orderCallsLeft, dragged>>

-----------------------------------------------------------------------------
(* The list is what some page showed, with one column carried elsewhere.      *)
StartReorder(p) ==
  /\ orderCall[p].step = "idle" /\ Spends
  /\ Cardinality(ShownColumns) > 1
  /\ \E shown \in Listings(ShownColumns) : \E from, to \in DOMAIN shown :
       /\ from # to
       /\ LET list == InsertAt(RemoveAt(shown, from), to, shown[from])
          IN /\ Crosses(p, [NoOrderCall EXCEPT !.step = "number", !.list = list, !.alone = Alone(p)])
             /\ dragged' = << >>
  /\ UNCHANGED columns

(* A slip: the number a column gets is the place it had.                      *)
NumberFromOne(p) ==
  /\ orderCall[p].step = "number"
  /\ LET call == orderCall[p] IN
       /\ columns' = IF call.at = 1 THEN columns
                     ELSE [columns EXCEPT ![call.list[call.at]].sort = call.at - 1]
       /\ IF call.at = Len(call.list)
            THEN /\ orderCall' = [orderCall EXCEPT ![p] = NoOrderCall]
                 /\ dragged' = IF call.alone THEN call.list ELSE << >>
            ELSE orderCall' = [orderCall EXCEPT ![p].at = @ + 1] /\ UNCHANGED dragged
  /\ UNCHANGED orderCallsLeft

(* UPDATE areas SET sort = i; a column that is gone ends the request.         *)
NumberNext(p) ==
  /\ orderCall[p].step = "number"
  /\ LET call == orderCall[p]
         a == call.list[call.at]
     IN IF columns[a].where = "gone"
          THEN orderCall' = [orderCall EXCEPT ![p] = NoOrderCall] /\ UNCHANGED <<columns, dragged>>
          ELSE /\ columns' = [columns EXCEPT ![a].sort = call.at - 1]
               /\ IF call.at = Len(call.list)
                    THEN /\ orderCall' = [orderCall EXCEPT ![p] = NoOrderCall]
                         /\ dragged' = IF call.alone THEN call.list ELSE << >>
                    ELSE orderCall' = [orderCall EXCEPT ![p].at = @ + 1] /\ UNCHANGED dragged
  /\ UNCHANGED orderCallsLeft

-----------------------------------------------------------------------------
ShowOrHide(a) ==
  /\ Spends
  /\ columns[a].where \in {"shown", "archived"}
  /\ columns' = [columns EXCEPT ![a].where = IF @ = "shown" THEN "archived" ELSE "shown"]
  /\ orderCall' = [q \in OrderCalls |-> [orderCall[q] EXCEPT !.alone = FALSE]]
  /\ dragged' = << >>

RemoveColumnRow(a) ==
  /\ Spends
  /\ columns[a].where # "gone"
  /\ columns' = [columns EXCEPT ![a].where = "gone"]
  /\ orderCall' = [q \in OrderCalls |-> [orderCall[q] EXCEPT !.alone = FALSE]]
  /\ dragged' = << >>

OrderNext ==
  \/ \E p \in OrderCalls :
       CountColumns(p) \/ InsertColumn(p) \/ StartReorder(p) \/ NumberNext(p)
  \/ \E a \in DOMAIN columns : ShowOrHide(a) \/ RemoveColumnRow(a)

OrderSpec == OrderInit /\ [][OrderNext]_orderVars

-----------------------------------------------------------------------------
(* Properties *)

(* moveAreas.ts: "Set the left-to-right order of a board's areas."  After a   *)
(* request that nobody crossed the columns stand in the order it asked for,   *)
(* whatever numbers they had, and whatever numbers archived columns keep.     *)
DraggedOrderHolds == dragged # << >> =>
  ToSet(dragged) = ShownColumns /\ CertainlyInOrder(dragged)

(* createArea.ts: "to the end of a board".  When nobody else changes the board *)
(* meanwhile, no column has a higher number than one just made.               *)
NewColumnAlwaysLast ==
  [][Len(columns') > Len(columns) /\ columns'[Len(columns')].alone =>
       \A a \in ShownColumns' : columns'[Len(columns')].sort >= columns'[a].sort]_orderVars

=============================================================================
