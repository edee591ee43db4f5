--------------------------- MODULE ChecklistSlice ---------------------------
(***************************************************************************)
(* The checklists page over the Redux slice that keeps its rows: the slice *)
(* is loaded when the page appears, and each save is put into it from its  *)
(* own answer, without loading it again. One flag tells of all its calls.  *)
(*                                                                         *)
(* A row is its id, how often its text was saved, and whether it is        *)
(* completed. The answer to a completion carries no row, so a completion   *)
(* shows only when its row next comes with another answer.                 *)
(***************************************************************************)
EXTENDS Naturals, FiniteSets, Sequences, SequencesExt

CONSTANTS
  Ids,         \* ids the server may give
  NoId,        \* no id
  MaxChanges,  \* bound: saved texts of a row
  MaxThunks    \* bound: calls on the wire

ASSUME IdsAssumption == NoId \notin Ids /\ IsFiniteSet(Ids)
ASSUME ThunksAssumption == MaxChanges \in Nat \ {0} /\ MaxThunks \in Nat \ {0}

VARIABLES
  checklists,  \* the server's checklists: how often each was saved, 0 for none
  completed,   \* those of status "completed"
  everUsed,    \* ids the server has given: it gives none twice
  items,       \* the slice's rows, the newest first
  loading,     \* the slice's flag
  modal,       \* the page's dialog: none, create or edit, and the row it was opened for
  thunks,      \* calls on the wire
  together,    \* whether a call was sent while another was on the wire
  mixed,       \* rows a load has read while the answer to their creation was on its way
  untold,      \* whether a change was made whose answer was lost
  unshown      \* completed since a load or a save's answer last brought the row

serverVars == <<checklists, completed, everUsed>>
sliceVars == <<serverVars, items, loading, modal, thunks, together, mixed, untold, unshown>>

Row(id, ver, done) == [id |-> id, ver |-> ver, done |-> done]
NoRow == Row(NoId, 0, FALSE)
NoModal == [kind |-> "none", id |-> NoId]

\* The rows of an answer, in the order the server lists them.
Listing ==
  SetToSeq({Row(id, checklists[id], id \in completed) : id \in {i \in Ids : checklists[i] > 0}})

At(id) == {i \in 1..Len(items) : items[i].id = id}
FirstAt(id) == CHOOSE i \in At(id) : \A j \in At(id) : i <= j

\* The mutated form: the row is added beside the one there is.
PutBeside(row) == IF At(row.id) = {} THEN items ELSE <<row>> \o items

\* A row put in the place of the first of its id, if there is one.
Put(row) == IF At(row.id) = {} THEN items ELSE [items EXCEPT ![FirstAt(row.id)] = row]

\* What a filter keeps, by position: the one increasing sequence of a set of them.
InOrder(positions) ==
  {kept \in [1..Cardinality(positions) -> positions] :
     \A j, k \in DOMAIN kept : j < k => kept[j] < kept[k]}

Thunk(n, kind, id) ==
  [n |-> n, kind |-> kind, id |-> id, at |-> "sent", mine |-> TRUE, row |-> NoRow,
   rows |-> <<>>]

\* The page has just appeared.
SliceInit ==
  /\ checklists = [id \in Ids |-> 0] /\ completed = {} /\ everUsed = {}
  /\ items = <<>>
  /\ loading = TRUE
  /\ modal = NoModal
  /\ thunks = {Thunk(1, "fetch", NoId)}
  /\ together = FALSE /\ mixed = {} /\ untold = FALSE /\ unshown = {}

(* ------------------------------- the page ------------------------------- *)

\* pending: every call raises the flag.
Dispatch(kind, id, among) ==
  \E n \in 1..MaxThunks :
    /\ \A t \in thunks : t.n # n
    /\ thunks' = among \cup {Thunk(n, kind, id)}
    /\ loading' = TRUE
    /\ together' = (together \/ thunks # {})

\* The page appears anew, its dialog closed; the slice is as it was, and calls on
\* the wire no longer belong to the page.
OpenChecklists ==
  /\ Dispatch("fetch", NoId, {[t EXCEPT !.mine = FALSE] : t \in thunks})
  /\ modal' = NoModal
  /\ UNCHANGED <<serverVars, items, mixed, untold, unshown>>

handleCreate ==
  /\ modal = NoModal
  /\ modal' = [kind |-> "create", id |-> NoId]
  /\ UNCHANGED <<serverVars, items, loading, thunks, together, mixed, untold, unshown>>

\* The table's buttons lie under its spinner while a call is on the wire.
handleEdit(id) ==
  /\ modal = NoModal /\ ~loading /\ At(id) # {}
  /\ modal' = [kind |-> "edit", id |-> id]
  /\ UNCHANGED <<serverVars, items, loading, thunks, together, mixed, untold, unshown>>

\* onCancel hides the dialog; what it edits is forgotten when it is next opened.
CancelModal ==
  /\ modal # NoModal
  /\ modal' = NoModal
  /\ UNCHANGED <<serverVars, items, loading, thunks, together, mixed, untold, unshown>>

\* The dialog stays open until the answer.
handleModalOk ==
  /\ modal # NoModal
  /\ Dispatch(IF modal.kind = "edit" THEN "update" ELSE "create", modal.id, thunks)
  /\ UNCHANGED <<serverVars, items, modal, mixed, untold, unshown>>

\* handleDelete is confirmed in a popup of its own, which the spinner does not
\* cover; handleComplete is a button of a row that is not shown as completed.
handleDelete(id) ==
  /\ modal = NoModal /\ At(id) # {}
  /\ Dispatch("delete", id, thunks)
  /\ UNCHANGED <<serverVars, items, modal, mixed, untold, unshown>>

handleComplete(id) ==
  /\ modal = NoModal /\ ~loading /\ \E i \in At(id) : ~items[i].done
  /\ Dispatch("complete", id, thunks)
  /\ UNCHANGED <<serverVars, items, modal, mixed, untold, unshown>>

(* ------------------------------ the server ------------------------------ *)

AnswerWith(t, row, rows) ==
  thunks' = (thunks \ {t}) \cup {[t EXCEPT !.at = "answered", !.row = row, !.rows = rows]}

GetChecklists(t) ==
  /\ t.kind = "fetch" /\ t.at = "sent"
  /\ AnswerWith(t, NoRow, Listing)
  /\ mixed' = mixed \cup {c.row.id : c \in {d \in thunks : d.kind = "create" /\ d.at = "answered"}}
  /\ UNCHANGED <<serverVars, items, loading, modal, together, untold, unshown>>

CreateChecklist(t) ==
  \E id \in Ids \ everUsed :
    /\ t.kind = "create" /\ t.at = "sent"
    /\ checklists' = [checklists EXCEPT ![id] = 1]
    /\ everUsed' = everUsed \cup {id}
    /\ AnswerWith(t, Row(id, 1, FALSE), <<>>)
    /\ UNCHANGED <<completed, items, loading, modal, together, mixed, untold, unshown>>

\* The page sends no status, and the row keeps the one it has.
UpdateChecklist(t) ==
  /\ t.kind = "update" /\ t.at = "sent"
  /\ checklists[t.id] \in 1..(MaxChanges - 1)
  /\ checklists' = [checklists EXCEPT ![t.id] = @ + 1]
  /\ AnswerWith(t, Row(t.id, checklists[t.id] + 1, t.id \in completed), <<>>)
  /\ UNCHANGED <<completed, everUsed, items, loading, modal, together, mixed, untold, unshown>>

\* Completed, and deleted, are answered with a message and no row.
CompleteChecklist(t) ==
  /\ t.kind = "complete" /\ t.at = "sent" /\ checklists[t.id] > 0
  /\ completed' = completed \cup {t.id}
  /\ unshown' = IF t.id \in completed THEN unshown ELSE unshown \cup {t.id}
  /\ AnswerWith(t, NoRow, <<>>)
  /\ UNCHANGED <<checklists, everUsed, items, loading, modal, together, mixed, untold>>

DeleteChecklist(t) ==
  /\ t.kind = "delete" /\ t.at = "sent" /\ checklists[t.id] > 0
  /\ checklists' = [checklists EXCEPT ![t.id] = 0]
  /\ completed' = completed \ {t.id} /\ unshown' = unshown \ {t.id}
  /\ AnswerWith(t, NoRow, <<>>)
  /\ UNCHANGED <<everUsed, items, loading, modal, together, mixed, untold>>

(* ------------------------------- the slice ------------------------------- *)

\* Every answer takes the flag down.
Settled(t) ==
  /\ thunks' = thunks \ {t}
  /\ loading' = FALSE
  /\ UNCHANGED <<serverVars, together>>

FetchFulfilled(t) ==
  /\ t.kind = "fetch" /\ t.at = "answered"
  /\ items' = t.rows
  /\ unshown' = {}
  /\ Settled(t)
  /\ UNCHANGED <<modal, mixed, untold>>

\* What handleModalOk does after its call: it closes the dialog its page has now.
CloseDialog(t) == modal' = IF t.mine THEN NoModal ELSE modal

CreateFulfilled(t) ==
  /\ t.kind = "create" /\ t.at = "answered"
  /\ items' = <<t.row>> \o items
  /\ Settled(t)
  /\ CloseDialog(t)
  /\ UNCHANGED <<mixed, untold, unshown>>

UpdateFulfilled(t) ==
  /\ t.kind = "update" /\ t.at = "answered"
  /\ items' = Put(t.row)
  /\ unshown' = unshown \ {t.id}
  /\ Settled(t)
  /\ CloseDialog(t)
  /\ UNCHANGED <<mixed, untold>>

\* The row of the answer would be put in its place: the message there is instead
\* has no id, and no row is found.
CompleteFulfilled(t) ==
  /\ t.kind = "complete" /\ t.at = "answered"
  /\ items' = Put(t.row)
  /\ Settled(t)
  /\ UNCHANGED <<modal, mixed, untold, unshown>>

\* The mutated form: the row stays in the table until it is loaded again.
DeleteFulfilledLater(t) ==
  /\ t.kind = "delete" /\ t.at = "answered"
  /\ Settled(t)
  /\ UNCHANGED <<items, modal, mixed, untold, unshown>>

DeleteFulfilled(t) ==
  /\ t.kind = "delete" /\ t.at = "answered"
  /\ \E kept \in InOrder((1..Len(items)) \ At(t.id)) :
       items' = [k \in DOMAIN kept |-> items[kept[k]]]
  /\ Settled(t)
  /\ UNCHANGED <<modal, mixed, untold, unshown>>

\* Refused, or lost with its answer: the error shows, the rows stay.
ThunkRejected(t) ==
  /\ Settled(t)
  /\ untold' = (untold \/ (t.kind # "fetch" /\ t.at = "answered"))
  /\ UNCHANGED <<items, modal, mixed, unshown>>

SliceNext ==
  \/ OpenChecklists \/ handleCreate \/ CancelModal \/ handleModalOk
  \/ \E id \in Ids : handleEdit(id) \/ handleDelete(id) \/ handleComplete(id)
  \/ \E t \in thunks :
       \/ GetChecklists(t) \/ CreateChecklist(t) \/ UpdateChecklist(t)
       \/ CompleteChecklist(t) \/ DeleteChecklist(t)
       \/ FetchFulfilled(t) \/ CreateFulfilled(t) \/ UpdateFulfilled(t)
       \/ CompleteFulfilled(t) \/ DeleteFulfilled(t) \/ ThunkRejected(t)

SliceSpec == SliceInit /\ [][SliceNext]_sliceVars

(* ------------------------------ properties ------------------------------ *)

\* Every variable has its type.
SliceTypeOK ==
  /\ checklists \in [Ids -> 0..MaxChanges]
  /\ completed \subseteq Ids /\ everUsed \subseteq Ids /\ mixed \subseteq Ids /\ unshown \subseteq Ids
  /\ \A i \in 1..Len(items) : items[i] \in [id : Ids, ver : 1..MaxChanges, done : BOOLEAN]
  /\ {loading, together, untold} \subseteq BOOLEAN
  /\ modal \in [kind : {"none", "create", "edit"}, id : Ids \cup {NoId}]
  /\ \A t \in thunks : t.n \in 1..MaxThunks /\ t.id \in Ids \cup {NoId}

\* The table has one row for a checklist, unless a load has read it while the
\* answer to its creation was on its way: the load may bring the row first, and
\* that answer then puts it there again.
NoRowTwice == \A id \in Ids \ mixed : Cardinality(At(id)) <= 1

\* Where no two calls were ever on the wire together and no answer was lost,
\* the rows built from the answers are the server's, after any sequence of
\* creations, changes, deletions and visits: none is missing or left over, each
\* has the text last saved, and it is shown as completed if it is, unless it was
\* completed since a load or a save brought it.
SliceFollowsServer ==
  thunks = {} /\ ~together /\ ~untold =>
    /\ {<<items[i].id, items[i].ver>> : i \in 1..Len(items)}
         = {<<id, checklists[id]>> : id \in {j \in Ids : checklists[j] > 0}}
    /\ \A i \in 1..Len(items) :
         /\ items[i].done => items[i].id \in completed
         /\ items[i].id \in completed \ unshown => items[i].done

\* The flag is up only while a call is on the wire: the table's buttons come
\* back. (It may be down while one is: the first answer takes it down.)
FlagAwaitsCall == loading => thunks # {}
=============================================================================
