---------------------------- MODULE StoreProofs ----------------------------
(***************************************************************************)
(* The two stores that are Redux slices, for any users, pages, rows and    *)
(* calls. The checklists: no row is there twice, the rows follow the       *)
(* server's, and the flag is true to the wire. Who is signed in: the       *)
(* copies agree, the forms' flag is true to the wire, and the guards of    *)
(* the pages come to rest.                                                 *)
(***************************************************************************)
EXTENDS BrowserSession, ChecklistSlice, FiniteSetTheorems, SequenceTheorems,
        WellFoundedInduction, TLAPS

(* ---------------------------- the checklists ---------------------------- *)

USE DEF serverVars

SliceRow == [id : Ids, ver : 1..MaxChanges, done : BOOLEAN]
AnyRow == [id : Ids \cup {NoId}, ver : 0..MaxChanges, done : BOOLEAN]

ThunkRecord ==
  [n : 1..MaxThunks, kind : {"fetch", "create", "update", "delete", "complete"},
   id : Ids \cup {NoId}, at : {"sent", "answered"}, mine : BOOLEAN,
   row : AnyRow, rows : Seq(SliceRow)]

\* A call that changes a row knows which; the answer to a save is of that row,
\* the answer to a completion of none.
ThunkKnowsItsRow(t) ==
  /\ t.kind \in {"update", "complete", "delete"} => t.id \in Ids
  /\ t.kind = "update" /\ t.at = "answered" => t.row.id = t.id
  /\ t.kind = "complete" /\ t.at = "answered" => t.row.id = NoId
  /\ t.kind \in {"create", "update"} /\ t.at = "answered" => t.row \in SliceRow

SliceTyped ==
  /\ SliceTypeOK
  /\ items \in Seq(SliceRow)
  /\ thunks \subseteq ThunkRecord
  /\ \A t \in thunks : ThunkKnowsItsRow(t)
  /\ modal.kind = "edit" => modal.id \in Ids

IdsIn(rows) == {rows[i].id : i \in 1..Len(rows)}
Loaded == {t \in thunks : t.kind = "fetch" /\ t.at = "answered"}
Created == {t \in thunks : t.kind = "create" /\ t.at = "answered"}

\* Every id the browser has heard of was given by the server.
IdsWereGiven ==
  /\ \A id \in Ids : checklists[id] > 0 => id \in everUsed
  /\ completed \subseteq everUsed
  /\ IdsIn(items) \subseteq everUsed
  /\ \A t \in Loaded : IdsIn(t.rows) \subseteq everUsed
  /\ \A t \in Created : t.row.id \in everUsed

\* No list has an id twice, but the slice one of those mixed.
RowsDiffer ==
  /\ \A i, j \in 1..Len(items) : items[i].id = items[j].id /\ items[i].id \notin mixed => i = j
  /\ \A t \in Loaded : \A i, j \in 1..Len(t.rows) : t.rows[i].id = t.rows[j].id => i = j

\* A row whose creation is still to be heard of is not in the slice, nor in
\* what a load brings, and no other answer has its id.
CreatedIsNew ==
  /\ \A c \in Created : c.row.id \notin mixed =>
       c.row.id \notin IdsIn(items) /\ \A t \in Loaded : c.row.id \notin IdsIn(t.rows)
  /\ \A c, d \in Created : c.row.id = d.row.id => c = d

\* What the browser has heard of ids, whatever the order of calls and answers.
HeardOf == IdsWereGiven /\ RowsDiffer /\ CreatedIsNew

\* What the slice shows, and what the server has, some completions left out.
RowsShown == {items[i] : i \in 1..Len(items)}
RowsBut(id) == {r \in RowsShown : r.id # id}
OnServer == {Row(id, checklists[id], id \in completed) : id \in {i \in Ids : checklists[i] > 0}}
RowsHiding(hidden) ==
  {Row(id, checklists[id], id \in completed \ hidden) : id \in {i \in Ids : checklists[i] > 0}}

\* At most one call is on the wire, and no load came in between.
Alone == mixed = {} /\ \A t, u \in thunks : t = u

\* One call at a time: the slice is what the server has, but for the completions
\* it was not told of and the one change whose answer is on its way.
OneByOne ==
  /\ (thunks = {} \/ \E t \in thunks : t.at = "sent" \/ t.kind \in {"fetch", "complete"})
       => RowsShown = RowsHiding(unshown)
  /\ \A t \in thunks : t.at = "answered" =>
       /\ t.kind = "fetch" => {t.rows[i] : i \in 1..Len(t.rows)} = OnServer
       /\ t.kind = "create" => RowsHiding(unshown) = RowsShown \cup {t.row}
       /\ t.kind = "update" =>
            RowsHiding(unshown \ {t.id}) = RowsBut(t.id) \cup {t.row} /\ t.id \in IdsIn(items)
       /\ t.kind = "delete" => RowsHiding(unshown) = RowsBut(t.id)

SliceInv ==
  /\ SliceTyped /\ HeardOf
  /\ ~together => Alone
  /\ ~together /\ ~untold => OneByOne

\* A function on the numbers up to a length is a sequence of that length.
LEMMA FunctionsAreSequences ==
  ASSUME NEW n \in Nat, NEW S, NEW f \in [1..n -> S]
  PROVE  f \in Seq(S) /\ Len(f) = n
<1>1. DOMAIN f = 1..n
  OBVIOUS
<1>2. f \in Seq(S)
  BY SeqDef
<1>3. Len(f) = n
  BY <1>1, <1>2, LenProperties
<1> QED  BY <1>2, <1>3

\* The server's answer lists each of its checklists once.
LEMMA ListingIsServer ==
  ASSUME SliceTypeOK
  PROVE  /\ Listing \in Seq(SliceRow)
         /\ \A i, j \in 1..Len(Listing) : Listing[i].id = Listing[j].id => i = j
         /\ {Listing[i] : i \in 1..Len(Listing)} = OnServer
         /\ ToSet(Listing) = OnServer
<1> DEFINE ids == {i \in Ids : checklists[i] > 0}
           row == [id \in ids |-> Row(id, checklists[id], id \in completed)]
           n == Cardinality(OnServer)
<1>1. row \in Surjection(ids, OnServer)
  BY DEF Surjection, OnServer
<1>2. IsFiniteSet(ids)
  BY IdsAssumption, FS_Subset
<1>3. IsFiniteSet(OnServer)
  <2> HIDE DEF row, ids
  <2> QED  BY <1>1, <1>2, FS_Surjection
<1>4. n \in Nat /\ ExistsBijection(1..n, OnServer)
  BY <1>3, FS_CardinalityType
<1>5. PICK g \in Bijection(1..n, OnServer) : TRUE
  BY <1>4 DEF ExistsBijection
<1>6. g \in [1..n -> OnServer] /\ IsInjective(g)
  BY <1>5 DEF Bijection, Injection
<1>7. Listing \in [1..n -> OnServer] /\ IsInjective(Listing)
  <2>1. Listing = CHOOSE f \in [1..n -> OnServer] : IsInjective(f)
    BY DEF Listing, SetToSeq, OnServer
  <2> QED  BY <1>6, <2>1
<1>8. Listing \in Injection(1..n, OnServer)
  BY <1>7 DEF Injection
<1>9. Cardinality(1..n) = n
  BY <1>4, FS_Interval
<1>10. Listing \in Surjection(1..n, OnServer)
  BY <1>3, <1>8, <1>9, FS_Injection
<1>11. OnServer \subseteq SliceRow
  <2>1. ASSUME NEW id \in ids, NEW done \in BOOLEAN PROVE Row(id, checklists[id], done) \in SliceRow
    BY DEF Row, SliceRow, SliceTypeOK
  <2>2. ASSUME NEW id \in ids PROVE Row(id, checklists[id], id \in completed) \in SliceRow
    <3>1. CASE id \in completed
      <4>1. (id \in completed) = TRUE
        BY <3>1
      <4> QED  BY <2>1, <4>1
    <3>2. CASE id \notin completed
      <4>1. (id \in completed) = FALSE
        BY <3>2
      <4> QED  BY <2>1, <4>1
    <3> QED  BY <3>1, <3>2
  <2> QED  BY <2>2, Zenon DEF OnServer
<1>12. Listing \in [1..n -> SliceRow]
  BY <1>7, <1>11
<1>13. Listing \in Seq(SliceRow) /\ Len(Listing) = n /\ DOMAIN Listing = 1..n
  BY <1>4, <1>12, FunctionsAreSequences
<1>14. {Listing[i] : i \in 1..n} = OnServer
  BY <1>7, <1>10 DEF Surjection
<1>15. ASSUME NEW i \in 1..n, NEW j \in 1..n, Listing[i].id = Listing[j].id PROVE i = j
  <2>1. Listing[i] \in OnServer /\ Listing[j] \in OnServer
    BY <1>7
  <2>2. Listing[i] = Listing[j]
    BY <1>15, <2>1 DEF OnServer, Row
  <2> QED  BY <1>7, <2>2 DEF IsInjective
<1> QED  BY <1>13, <1>14, <1>15 DEF ToSet

\* A set of positions that is not empty has a first one.
LEMMA FirstPosition ==
  ASSUME NEW S \in SUBSET Nat, S # {}
  PROVE  \E m \in S : \A n \in S : m <= n
<1>1. PICK m \in S : \A n \in S : ~ (<<n, m>> \in OpToRel(<, Nat))
  BY WFMin, NatLessThanWellFounded
<1>2. \A n \in S : ~(n < m)
  BY <1>1 DEF OpToRel
<1> QED  BY <1>2

\* A row put in the place of one with its id leaves every id where it was.
LEMMA PutKeepsIds ==
  ASSUME NEW row \in SliceRow, items \in Seq(SliceRow)
  PROVE  /\ Put(row) \in Seq(SliceRow) /\ Len(Put(row)) = Len(items)
         /\ \A i \in 1..Len(items) : Put(row)[i].id = items[i].id
         /\ \A i \in 1..Len(items) : Put(row)[i] = items[i] \/ (items[i].id = row.id /\ Put(row)[i] = row)
         /\ At(row.id) # {} => \E i \in 1..Len(items) : items[i].id = row.id /\ Put(row)[i] = row
<1>1. CASE At(row.id) = {}
  BY <1>1 DEF Put
<1>2. CASE At(row.id) # {}
  <2>1. Len(items) \in Nat /\ At(row.id) \subseteq 1..Len(items) /\ At(row.id) \subseteq Nat
    BY LenProperties DEF At
  <2>2. \E m \in At(row.id) : \A j \in At(row.id) : m <= j
    BY <1>2, <2>1, FirstPosition
  <2>3. FirstAt(row.id) \in At(row.id)
    BY <2>2 DEF FirstAt
  <2> DEFINE f == FirstAt(row.id)
  <2>4. f \in 1..Len(items) /\ items[f].id = row.id
    BY <2>3 DEF At
  <2>5. Put(row) = [items EXCEPT ![f] = row]
    BY <1>2 DEF Put
  <2> HIDE DEF f
  <2>6. /\ Put(row) \in Seq(SliceRow) /\ Len(Put(row)) = Len(items)
        /\ \A j \in 1..Len(items) : Put(row)[j] = IF j = f THEN row ELSE items[j]
    BY <2>4, <2>5, ExceptSeq
  <2> QED  BY <2>4, <2>6
<1> QED  BY <1>1, <1>2

\* Positions in their order: each of them once, and all of them.
LEMMA OrderedPositions ==
  ASSUME NEW n \in Nat, NEW P \in SUBSET (1..n), NEW kept \in InOrder(P)
  PROVE  /\ Cardinality(P) \in Nat /\ kept \in [1..Cardinality(P) -> P]
         /\ \A j, k \in DOMAIN kept : kept[j] = kept[k] => j = k
         /\ \A p \in P : \E k \in DOMAIN kept : kept[k] = p
<1>1. IsFiniteSet(P)
  <2>1. IsFiniteSet(1..n)
    BY FS_Interval
  <2> QED  BY <2>1, FS_Subset
<1>2. Cardinality(P) \in Nat
  BY <1>1, FS_CardinalityType
<1> DEFINE c == Cardinality(P)
<1>3. kept \in [1..c -> P] /\ \A j, k \in 1..c : j < k => kept[j] < kept[k]
  BY DEF InOrder
<1>4. ASSUME NEW j \in 1..c, NEW k \in 1..c, kept[j] = kept[k] PROVE j = k
  <2>1. j \in Nat /\ k \in Nat /\ kept[j] \in Nat /\ kept[k] \in Nat
    <3>1. kept[j] \in P /\ kept[k] \in P /\ P \subseteq Nat
      BY <1>3
    <3>2. kept[j] \in Nat /\ kept[k] \in Nat
      BY <3>1, Zenon
    <3>3. j \in Nat /\ k \in Nat
      BY <1>2
    <3> QED  BY <3>2, <3>3
  <2>2. ~(j < k) /\ ~(k < j)
    BY <1>3, <1>4, <2>1
  <2> QED  BY <2>1, <2>2
<1>5. kept \in Injection(1..c, P)
  BY <1>3, <1>4 DEF Injection, IsInjective
<1>6. Cardinality(1..c) = c
  BY <1>2, FS_Interval
<1>7. kept \in Surjection(1..c, P)
  BY <1>1, <1>5, <1>6, FS_Injection
<1> QED  BY <1>2, <1>3, <1>4, <1>7 DEF Surjection

\* No row is a row that an answer may carry.
LEMMA NoRowTyped == NoRow \in AnyRow
BY ThunksAssumption DEF NoRow, Row, AnyRow

\* A call that starts is a record like the others.
LEMMA ThunkStarts ==
  ASSUME NEW n \in 1..MaxThunks, NEW id \in Ids \cup {NoId},
         NEW kind \in {"fetch", "create", "update", "delete", "complete"}
  PROVE  /\ Thunk(n, kind, id) \in ThunkRecord
         /\ Thunk(n, kind, id).kind = kind /\ Thunk(n, kind, id).id = id
         /\ Thunk(n, kind, id).at = "sent"
<1>1. NoRow \in AnyRow
  BY NoRowTyped
<1>2. <<>> \in Seq(SliceRow)
  BY EmptySeq
<1> QED  BY <1>1, <1>2 DEF Thunk, ThunkRecord

\* An answer changes of its call what it carries.
Answer(t, row, rows) == [t EXCEPT !.at = "answered", !.row = row, !.rows = rows]

\* A call answered is a call, of the same kind and row.
LEMMA ThunkAnswers ==
  ASSUME NEW t \in ThunkRecord, NEW rows \in Seq(SliceRow),
         NEW row \in AnyRow
  PROVE  /\ Answer(t, row, rows) \in ThunkRecord
         /\ Answer(t, row, rows).n = t.n /\ Answer(t, row, rows).kind = t.kind
         /\ Answer(t, row, rows).id = t.id /\ Answer(t, row, rows).at = "answered"
         /\ Answer(t, row, rows).row = row /\ Answer(t, row, rows).rows = rows
BY DEF Answer, ThunkRecord

\* What leaves the slice when a row is deleted: its rows, and no others.
LEMMA DeletedRows ==
  ASSUME SliceTyped, NEW t \in thunks, DeleteFulfilled(t)
  PROVE  /\ items' \in Seq(SliceRow)
         /\ \E kept \in [1..Len(items') -> {i \in 1..Len(items) : items[i].id # t.id}] :
              /\ \A k \in 1..Len(items') : items'[k] = items[kept[k]]
              /\ \A j, k \in 1..Len(items') : kept[j] = kept[k] => j = k
              /\ \A i \in 1..Len(items) : items[i].id # t.id
                   => \E k \in 1..Len(items') : kept[k] = i
<1> DEFINE P == (1..Len(items)) \ At(t.id)
<1>1. Len(items) \in Nat /\ \A i \in 1..Len(items) : items[i] \in SliceRow
  BY LenProperties, ElementOfSeq DEF SliceTyped
<1>2. P = {i \in 1..Len(items) : items[i].id # t.id}
  BY DEF At
<1>3. PICK kept \in InOrder(P) : items' = [k \in DOMAIN kept |-> items[kept[k]]]
  BY DEF DeleteFulfilled
<1> HIDE DEF P
<1>4. P \in SUBSET (1..Len(items))
  BY <1>2
<1> DEFINE c == Cardinality(P)
<1>5. /\ c \in Nat /\ kept \in [1..c -> P]
      /\ \A j, k \in DOMAIN kept : kept[j] = kept[k] => j = k
      /\ \A p \in P : \E k \in DOMAIN kept : kept[k] = p
  BY <1>1, <1>4, OrderedPositions
<1>6. DOMAIN kept = 1..c /\ \A k \in 1..c : kept[k] \in P
  BY <1>5
<1> HIDE DEF c
<1>7. \A k \in 1..c : items[kept[k]] \in SliceRow
  BY <1>1, <1>4, <1>6
<1>8. items' \in [1..c -> SliceRow] /\ \A k \in 1..c : items'[k] = items[kept[k]]
  BY <1>3, <1>6, <1>7
<1>9. items' \in Seq(SliceRow) /\ Len(items') = c
  BY <1>5, <1>8, FunctionsAreSequences
<1>10. kept \in [1..Len(items') -> {i \in 1..Len(items) : items[i].id # t.id}]
  BY <1>2, <1>5, <1>9
<1>11. \A i \in 1..Len(items) : items[i].id # t.id => \E k \in 1..Len(items') : kept[k] = i
  BY <1>2, <1>5, <1>6, <1>9
<1>12. /\ \A k \in 1..Len(items') : items'[k] = items[kept[k]]
       /\ \A j, k \in 1..Len(items') : kept[j] = kept[k] => j = k
  BY <1>5, <1>6, <1>8, <1>9
<1> QED  BY <1>9, <1>10, <1>11, <1>12, Zenon

\* The answer to a completion has no id, and changes no row.
LEMMA NothingPut ==
  ASSUME SliceTyped, NEW t \in thunks, CompleteFulfilled(t)
  PROVE  items' = items
<1>1. t.row.id = NoId
  BY DEF SliceTyped, ThunkKnowsItsRow, CompleteFulfilled
<1>2. \A i \in 1..Len(items) : items[i].id \in Ids
  <2>1. \A i \in 1..Len(items) : items[i] \in SliceRow
    BY ElementOfSeq DEF SliceTyped
  <2> QED  BY <2>1 DEF SliceRow
<1>3. At(t.row.id) = {}
  BY <1>1, <1>2, IdsAssumption DEF At
<1> QED  BY <1>3 DEF CompleteFulfilled, Put

\* No action leads out of the types.
LEMMA SliceTypePreserved == SliceTyped /\ [SliceNext]_sliceVars => SliceTyped'
<1> SUFFICES ASSUME SliceTyped, [SliceNext]_sliceVars PROVE SliceTyped'
  OBVIOUS
<1>0. /\ checklists \in [Ids -> 0..MaxChanges] /\ everUsed \subseteq Ids /\ mixed \subseteq Ids
      /\ completed \subseteq Ids /\ unshown \subseteq Ids
      /\ loading \in BOOLEAN /\ together \in BOOLEAN /\ untold \in BOOLEAN
      /\ modal \in [kind : {"none", "create", "edit"}, id : Ids \cup {NoId}]
      /\ items \in Seq(SliceRow) /\ thunks \subseteq ThunkRecord
      /\ \A t \in thunks : ThunkKnowsItsRow(t)
      /\ modal.kind = "edit" => modal.id \in Ids
  BY DEF SliceTyped, SliceTypeOK
<1>1. ASSUME /\ (checklists \in [Ids -> 0..MaxChanges] /\ everUsed \subseteq Ids /\ mixed \subseteq Ids)'
             /\ completed' \subseteq Ids /\ unshown' \subseteq Ids
             /\ loading' \in BOOLEAN /\ together' \in BOOLEAN /\ untold' \in BOOLEAN
             /\ modal' \in [kind : {"none", "create", "edit"}, id : Ids \cup {NoId}]
             /\ items' \in Seq(SliceRow) /\ thunks' \subseteq ThunkRecord
             /\ \A t \in thunks' : ThunkKnowsItsRow(t)
             /\ modal'.kind = "edit" => modal'.id \in Ids
      PROVE  SliceTyped'
  <2>1. \A i \in 1..Len(items') : items'[i] \in SliceRow
    BY <1>1, ElementOfSeq
  <2>2. \A t \in thunks' : t.n \in 1..MaxThunks /\ t.id \in Ids \cup {NoId}
    BY <1>1 DEF ThunkRecord
  <2>3. SliceTypeOK'
    BY <1>1, <2>1, <2>2 DEF SliceTypeOK, SliceRow
  <2> QED  BY <1>1, <2>3 DEF SliceTyped
<1> USE DEF ThunkKnowsItsRow
<1>2. CASE OpenChecklists
  <2>1. PICK n \in 1..MaxThunks :
          thunks' = {[t EXCEPT !.mine = FALSE] : t \in thunks} \cup {Thunk(n, "fetch", NoId)}
    BY <1>2 DEF OpenChecklists, Dispatch
  <2> DEFINE u == Thunk(n, "fetch", NoId)
  <2>2. u \in ThunkRecord /\ u.kind = "fetch" /\ u.at = "sent"
    BY ThunkStarts
  <2> HIDE DEF u
  <2>3. \A t \in thunks : /\ [t EXCEPT !.mine = FALSE] \in ThunkRecord
                          /\ ThunkKnowsItsRow([t EXCEPT !.mine = FALSE])
    <3> TAKE t \in thunks
    <3>1. t \in ThunkRecord /\ ThunkKnowsItsRow(t)
      BY <1>0
    <3> QED  BY <3>1 DEF ThunkRecord
  <2>4. thunks' = {[t EXCEPT !.mine = FALSE] : t \in thunks} \cup {u}
    BY <2>1 DEF u
  <2>5. thunks' \subseteq ThunkRecord /\ \A t \in thunks' : ThunkKnowsItsRow(t)
    <3>1. ThunkKnowsItsRow(u)
      BY <2>2
    <3> HIDE DEF ThunkKnowsItsRow
    <3> QED  BY <2>2, <2>3, <2>4, <3>1
  <2>6. modal' \in [kind : {"none", "create", "edit"}, id : Ids \cup {NoId}] /\ modal'.kind = "none"
    BY <1>2 DEF OpenChecklists, NoModal
  <2>7. loading' \in BOOLEAN /\ together' \in BOOLEAN
    BY <1>0, <1>2 DEF OpenChecklists, Dispatch
  <2> QED  BY <1>0, <1>1, <1>2, <2>5, <2>6, <2>7 DEF OpenChecklists
<1>3. CASE handleCreate \/ CancelModal
  BY <1>0, <1>1, <1>3 DEF handleCreate, CancelModal, NoModal
<1>4. ASSUME NEW id \in Ids, handleEdit(id) PROVE SliceTyped'
  BY <1>0, <1>1, <1>4 DEF handleEdit
<1>5. CASE handleModalOk
  <2> DEFINE kind == IF modal.kind = "edit" THEN "update" ELSE "create"
  <2>1. PICK n \in 1..MaxThunks : thunks' = thunks \cup {Thunk(n, kind, modal.id)}
    BY <1>5 DEF handleModalOk, Dispatch
  <2> DEFINE u == Thunk(n, kind, modal.id)
  <2>2. u \in ThunkRecord /\ u.kind = kind /\ u.id = modal.id /\ u.at = "sent"
    <3>1. kind \in {"fetch", "create", "update", "delete", "complete"} /\ modal.id \in Ids \cup {NoId}
      BY <1>0
    <3> HIDE DEF kind
    <3> QED  BY <3>1, ThunkStarts
  <2>3. thunks' = thunks \cup {u}
    BY <2>1
  <2> HIDE DEF u
  <2>4. thunks' \subseteq ThunkRecord /\ \A t \in thunks' : ThunkKnowsItsRow(t)
    <3>1. ThunkKnowsItsRow(u)
      BY <1>0, <2>2
    <3> HIDE DEF ThunkKnowsItsRow
    <3> QED  BY <1>0, <2>2, <2>3, <3>1
  <2>5. loading' \in BOOLEAN /\ together' \in BOOLEAN
    BY <1>0, <1>5 DEF handleModalOk, Dispatch
  <2> QED  BY <1>0, <1>1, <1>5, <2>4, <2>5 DEF handleModalOk
<1>6. ASSUME NEW id \in Ids, handleDelete(id) \/ handleComplete(id) PROVE SliceTyped'
  <2>1. PICK kind \in {"delete", "complete"}, n \in 1..MaxThunks :
          thunks' = thunks \cup {Thunk(n, kind, id)}
    BY <1>6 DEF handleDelete, handleComplete, Dispatch
  <2> DEFINE u == Thunk(n, kind, id)
  <2>2. u \in ThunkRecord /\ u.kind = kind /\ u.id = id /\ u.at = "sent"
    BY ThunkStarts
  <2>3. thunks' = thunks \cup {u}
    BY <2>1
  <2> HIDE DEF u
  <2>4. thunks' \subseteq ThunkRecord /\ \A t \in thunks' : ThunkKnowsItsRow(t)
    <3>1. ThunkKnowsItsRow(u)
      BY <2>2
    <3> HIDE DEF ThunkKnowsItsRow
    <3> QED  BY <1>0, <2>2, <2>3, <3>1
  <2>5. loading' \in BOOLEAN /\ together' \in BOOLEAN
    BY <1>0, <1>6 DEF handleDelete, handleComplete, Dispatch
  <2> QED  BY <1>0, <1>1, <1>6, <2>4, <2>5 DEF handleDelete, handleComplete
<1>7. ASSUME NEW t \in thunks, GetChecklists(t) PROVE SliceTyped'
  <2> DEFINE a == Answer(t, NoRow, Listing)
  <2>1. t \in ThunkRecord /\ Listing \in Seq(SliceRow)
    BY <1>0, ListingIsServer DEF SliceTyped
  <2>2. NoRow \in AnyRow
    BY NoRowTyped
  <2>3. thunks' = (thunks \ {t}) \cup {a} /\ a \in ThunkRecord /\ a.kind = "fetch"
    <3>1. thunks' = (thunks \ {t}) \cup {a} /\ t.kind = "fetch"
      BY <1>7 DEF GetChecklists, AnswerWith, Answer
    <3> QED  BY <2>1, <2>2, <3>1, ThunkAnswers
  <2> HIDE DEF a
  <2>4. thunks' \subseteq ThunkRecord /\ \A u \in thunks' : ThunkKnowsItsRow(u)
    BY <1>0, <2>3
  <2>5. mixed' \subseteq Ids
    <3>1. \A c \in thunks : c.kind = "create" /\ c.at = "answered" => c.row.id \in Ids
      BY <1>0 DEF SliceRow
    <3> QED  BY <1>0, <1>7, <3>1 DEF GetChecklists
  <2> QED  BY <1>0, <1>1, <1>7, <2>4, <2>5 DEF GetChecklists
<1>8. ASSUME NEW t \in thunks, CreateChecklist(t) PROVE SliceTyped'
  <2>1. PICK id \in Ids \ everUsed :
          /\ t.kind = "create" /\ t.at = "sent"
          /\ checklists' = [checklists EXCEPT ![id] = 1]
          /\ everUsed' = everUsed \cup {id}
          /\ thunks' = (thunks \ {t}) \cup {Answer(t, Row(id, 1, FALSE), <<>>)}
          /\ UNCHANGED <<completed, items, loading, modal, together, mixed, untold, unshown>>
    BY <1>8 DEF CreateChecklist, AnswerWith, Answer
  <2>2. Row(id, 1, FALSE) \in SliceRow /\ Row(id, 1, FALSE) \in AnyRow
    BY ThunksAssumption DEF Row, SliceRow, AnyRow
  <2>3. <<>> \in Seq(SliceRow)
    BY EmptySeq
  <2> DEFINE a == Answer(t, Row(id, 1, FALSE), <<>>)
  <2>4. /\ thunks' = (thunks \ {t}) \cup {a}
        /\ a \in ThunkRecord /\ a.kind = "create" /\ a.row = Row(id, 1, FALSE)
    <3>1. t \in ThunkRecord
      BY <1>0
    <3> QED  BY <2>1, <2>2, <2>3, <3>1 DEF Answer, ThunkRecord
  <2> HIDE DEF a
  <2>5. thunks' \subseteq ThunkRecord /\ \A u \in thunks' : ThunkKnowsItsRow(u)
    BY <1>0, <2>2, <2>4
  <2>6. checklists' \in [Ids -> 0..MaxChanges]
    BY <1>0, <2>1, ThunksAssumption
  <2> QED  BY <1>0, <1>1, <2>1, <2>5, <2>6
<1>9. ASSUME NEW t \in thunks, UpdateChecklist(t) PROVE SliceTyped'
  <2>1. t.id \in Ids /\ checklists[t.id] \in 1..(MaxChanges - 1)
    BY <1>0, <1>9 DEF UpdateChecklist
  <2> DEFINE row == Row(t.id, checklists[t.id] + 1, t.id \in completed)
  <2>2. row \in SliceRow /\ row \in AnyRow /\ row.id = t.id
    BY <2>1, ThunksAssumption DEF Row, SliceRow, AnyRow
  <2>3. <<>> \in Seq(SliceRow)
    BY EmptySeq
  <2> DEFINE a == Answer(t, row, <<>>)
  <2>4. /\ thunks' = (thunks \ {t}) \cup {a}
        /\ a \in ThunkRecord /\ a.kind = "update" /\ a.id = t.id /\ a.row = row
    <3>1. thunks' = (thunks \ {t}) \cup {a} /\ t.kind = "update"
      BY <1>9 DEF UpdateChecklist, AnswerWith, Answer
    <3> HIDE DEF row
    <3>2. t \in ThunkRecord
      BY <1>0
    <3> QED  BY <2>2, <2>3, <3>1, <3>2 DEF Answer, ThunkRecord
  <2> HIDE DEF a
  <2>5. thunks' \subseteq ThunkRecord /\ \A u \in thunks' : ThunkKnowsItsRow(u)
    <3> HIDE DEF row
    <3> QED  BY <1>0, <2>1, <2>2, <2>4
  <2>6. checklists' \in [Ids -> 0..MaxChanges]
    BY <1>0, <1>9, <2>1, ThunksAssumption DEF UpdateChecklist
  <2> QED  BY <1>0, <1>1, <1>9, <2>5, <2>6 DEF UpdateChecklist
<1>10. ASSUME NEW t \in thunks, CompleteChecklist(t) \/ DeleteChecklist(t) PROVE SliceTyped'
  <2>1. t.id \in Ids /\ t.kind \in {"complete", "delete"}
    BY <1>0, <1>10 DEF CompleteChecklist, DeleteChecklist
  <2>2. NoRow \in AnyRow /\ NoRow.id = NoId
    BY NoRowTyped DEF NoRow, Row
  <2>3. <<>> \in Seq(SliceRow)
    BY EmptySeq
  <2> DEFINE a == Answer(t, NoRow, <<>>)
  <2>4. /\ thunks' = (thunks \ {t}) \cup {a}
        /\ a \in ThunkRecord /\ a.kind = t.kind /\ a.id = t.id /\ a.row = NoRow
    <3>1. thunks' = (thunks \ {t}) \cup {a}
      BY <1>10 DEF CompleteChecklist, DeleteChecklist, AnswerWith, Answer
    <3>2. t \in ThunkRecord
      BY <1>0
    <3> QED  BY <2>2, <2>3, <3>1, <3>2 DEF Answer, ThunkRecord
  <2> HIDE DEF a
  <2>5. thunks' \subseteq ThunkRecord /\ \A u \in thunks' : ThunkKnowsItsRow(u)
    BY <1>0, <2>1, <2>2, <2>4
  <2>6. /\ checklists' \in [Ids -> 0..MaxChanges] /\ completed' \subseteq Ids
        /\ unshown' \subseteq Ids
    BY <1>0, <1>10, <2>1, ThunksAssumption DEF CompleteChecklist, DeleteChecklist
  <2> QED  BY <1>0, <1>1, <1>10, <2>5, <2>6 DEF CompleteChecklist, DeleteChecklist
<1>11. ASSUME NEW t \in thunks,
              \/ FetchFulfilled(t) \/ CreateFulfilled(t) \/ UpdateFulfilled(t)
              \/ CompleteFulfilled(t) \/ DeleteFulfilled(t) \/ ThunkRejected(t)
       PROVE  SliceTyped'
  <2>1. /\ Settled(t) /\ modal' \in {modal, NoModal} /\ mixed' = mixed
        /\ untold' \in BOOLEAN /\ unshown' \subseteq unshown
    BY <1>0, <1>11
       DEF FetchFulfilled, CreateFulfilled, UpdateFulfilled, CompleteFulfilled, DeleteFulfilled,
           ThunkRejected, CloseDialog
  <2>2. t \in ThunkRecord /\ ThunkKnowsItsRow(t)
    BY <1>0
  <2>3. items' \in Seq(SliceRow)
    <3>1. CASE FetchFulfilled(t)
      BY <2>2, <3>1 DEF FetchFulfilled, ThunkRecord
    <3>2. CASE CreateFulfilled(t)
      <4>1. <<t.row>> \in Seq(SliceRow)
        BY <2>2, <3>2 DEF CreateFulfilled
      <4> QED  BY <1>0, <3>2, <4>1, ConcatProperties DEF CreateFulfilled
    <3>3. CASE UpdateFulfilled(t)
      BY <1>0, <2>2, <3>3, PutKeepsIds DEF UpdateFulfilled
    <3>6. CASE CompleteFulfilled(t)
      BY <1>0, <3>6, NothingPut
    <3>4. CASE DeleteFulfilled(t)
      BY <3>4, DeletedRows
    <3>5. CASE ThunkRejected(t)
      BY <1>0, <3>5 DEF ThunkRejected
    <3> QED  BY <1>11, <3>1, <3>2, <3>3, <3>4, <3>5, <3>6
  <2>4. modal' \in [kind : {"none", "create", "edit"}, id : Ids \cup {NoId}]
        /\ (modal'.kind = "edit" => modal'.id \in Ids)
    BY <1>0, <2>1 DEF NoModal
  <2> QED  BY <1>0, <1>1, <2>1, <2>3, <2>4 DEF Settled
<1>12. CASE UNCHANGED sliceVars
  BY <1>0, <1>1, <1>12 DEF sliceVars
<1> QED  BY <1>2, <1>3, <1>4, <1>5, <1>6, <1>7, <1>8, <1>9, <1>10, <1>11, <1>12 DEF SliceNext

\* A page that sends a call leaves the slice, the server and every answer alone.
LEMMA CallSent ==
  ASSUME SliceTyped,
         \/ OpenChecklists \/ handleModalOk
         \/ \E id \in Ids : handleDelete(id) \/ handleComplete(id)
  PROVE  /\ UNCHANGED <<serverVars, items, mixed, untold, unshown>>
         /\ together' = (together \/ thunks # {})
         /\ \A t \in Loaded' : \E s \in Loaded : t.rows = s.rows
         /\ \A c \in Created' : \E d \in Created : c.row = d.row
         /\ Created' \in {Created, {[c EXCEPT !.mine = FALSE] : c \in Created}}
         /\ thunks = {} => \E u : thunks' = {u} /\ u.at = "sent"
<1>1. /\ UNCHANGED <<serverVars, items, mixed, untold, unshown>>
      /\ together' = (together \/ thunks # {})
  BY DEF OpenChecklists, handleModalOk, handleDelete, handleComplete, Dispatch
<1>2. \A t \in thunks : t \in ThunkRecord
  BY DEF SliceTyped
<1>3. CASE OpenChecklists
  <2> DEFINE Left(t) == [t EXCEPT !.mine = FALSE]
  <2>1. PICK n \in 1..MaxThunks : thunks' = {Left(t) : t \in thunks} \cup {Thunk(n, "fetch", NoId)}
    BY <1>3 DEF OpenChecklists, Dispatch
  <2> DEFINE u == Thunk(n, "fetch", NoId)
  <2>2. u.at = "sent"
    BY DEF Thunk
  <2>3. thunks' = {Left(t) : t \in thunks} \cup {u}
    BY <2>1
  <2> HIDE DEF u
  <2>4. \A t \in thunks : /\ Left(t).kind = t.kind /\ Left(t).at = t.at
                          /\ Left(t).row = t.row /\ Left(t).rows = t.rows
    BY <1>2 DEF ThunkRecord
  <2> HIDE DEF Left
  <2>5. \A t \in Loaded' : \E s \in Loaded : t.rows = s.rows
    BY <2>2, <2>3, <2>4 DEF Loaded
  <2>6. Created' = {Left(c) : c \in Created}
    BY <2>2, <2>3, <2>4 DEF Created
  <2>7. \A c \in Created' : \E d \in Created : c.row = d.row
    BY <2>4, <2>6 DEF Created
  <2>8. thunks = {} => thunks' = {u}
    BY <2>3
  <2> QED  BY <1>1, <2>2, <2>5, <2>6, <2>7, <2>8 DEF Left
<1>4. ASSUME NEW u, u.at = "sent", thunks' = thunks \cup {u}
      PROVE  Loaded' = Loaded /\ Created' = Created
  BY <1>4 DEF Loaded, Created
<1>5. CASE handleModalOk
  <2> DEFINE kind == IF modal.kind = "edit" THEN "update" ELSE "create"
  <2>1. PICK n \in 1..MaxThunks : thunks' = thunks \cup {Thunk(n, kind, modal.id)}
    BY <1>5 DEF handleModalOk, Dispatch
  <2> DEFINE u == Thunk(n, kind, modal.id)
  <2>2. u.at = "sent" /\ thunks' = thunks \cup {u}
    BY <2>1 DEF Thunk
  <2> HIDE DEF u
  <2> QED  BY <1>1, <1>4, <2>2
<1>6. ASSUME NEW id \in Ids, handleDelete(id) \/ handleComplete(id)
      PROVE  /\ Loaded' = Loaded /\ Created' = Created
             /\ thunks = {} => \E u : thunks' = {u} /\ u.at = "sent"
  <2>1. PICK kind \in {"delete", "complete"}, n \in 1..MaxThunks :
          thunks' = thunks \cup {Thunk(n, kind, id)}
    BY <1>6 DEF handleDelete, handleComplete, Dispatch
  <2> DEFINE u == Thunk(n, kind, id)
  <2>2. u.at = "sent" /\ thunks' = thunks \cup {u}
    BY <2>1 DEF Thunk
  <2> HIDE DEF u
  <2> QED  BY <1>4, <2>2
<1> QED  BY <1>1, <1>3, <1>5, <1>6

\* The server's answer to a call, and where that call is counted then.
LEMMA CallAnswered ==
  ASSUME NEW t \in thunks, t.at = "sent", NEW a, thunks' = (thunks \ {t}) \cup {a},
         a.kind = t.kind, a.at = "answered"
  PROVE  /\ Loaded' = IF t.kind = "fetch" THEN Loaded \cup {a} ELSE Loaded
         /\ Created' = IF t.kind = "create" THEN Created \cup {a} ELSE Created
BY DEF Loaded, Created

\* A call that is over is counted nowhere.
LEMMA CallOver ==
  ASSUME NEW t \in thunks, Settled(t)
  PROVE  Loaded' = Loaded \ {t} /\ Created' = Created \ {t}
BY DEF Settled, Loaded, Created

\* A row that comes first in the slice, before the rows there are.
LEMMA RowInFront ==
  ASSUME items \in Seq(SliceRow), NEW row \in SliceRow, items' = <<row>> \o items
  PROVE  /\ items' \in Seq(SliceRow) /\ Len(items) \in Nat /\ Len(items') = Len(items) + 1
         /\ items'[1] = row
         /\ \A i \in 2..Len(items') : i - 1 \in 1..Len(items) /\ items'[i] = items[i - 1]
         /\ \A i \in 1..Len(items) : i + 1 \in 1..Len(items') /\ items'[i + 1] = items[i]
<1>1. <<row>> \in Seq(SliceRow) /\ Len(<<row>>) = 1 /\ <<row>>[1] = row
  OBVIOUS
<1>2. Len(items) \in Nat
  BY LenProperties
<1> DEFINE one == <<row>>
<1>3. one \in Seq(SliceRow) /\ Len(one) = 1 /\ one[1] = row /\ items' = one \o items
  BY <1>1
<1> HIDE DEF one
<1>4. /\ items' \in Seq(SliceRow) /\ Len(items') = 1 + Len(items)
      /\ \A i \in 1..Len(items') : items'[i] = IF i <= 1 THEN one[i] ELSE items[i - 1]
  BY <1>3, ConcatProperties
<1> QED  BY <1>2, <1>3, <1>4

\* No action brings an id into the browser twice, but one of those mixed.
LEMMA HeardOfPreserved ==
  SliceTyped /\ HeardOf /\ [SliceNext]_sliceVars => HeardOf'
<1> SUFFICES ASSUME SliceTyped, HeardOf, [SliceNext]_sliceVars PROVE HeardOf'
  OBVIOUS
<1>0. /\ checklists \in [Ids -> 0..MaxChanges] /\ everUsed \subseteq Ids
      /\ completed \subseteq Ids /\ items \in Seq(SliceRow)
      /\ \A t \in thunks : t \in ThunkRecord /\ ThunkKnowsItsRow(t)
  BY DEF SliceTyped, SliceTypeOK
<1> USE DEF HeardOf
<1>1. ASSUME UNCHANGED <<serverVars, items, mixed, Loaded, Created>>
      PROVE  HeardOf'
  BY <1>1 DEF IdsWereGiven, RowsDiffer, CreatedIsNew, IdsIn
<1>2. CASE UNCHANGED sliceVars \/ handleCreate \/ CancelModal \/ \E id \in Ids : handleEdit(id)
  <2>1. UNCHANGED <<serverVars, items, mixed, thunks>>
    BY <1>2 DEF sliceVars, handleCreate, CancelModal, handleEdit
  <2> QED  BY <1>1, <2>1 DEF Loaded, Created
<1>3. CASE \/ OpenChecklists \/ handleModalOk
           \/ \E id \in Ids : handleDelete(id) \/ handleComplete(id)
  <2>1. /\ UNCHANGED <<serverVars, items, mixed>>
        /\ \A t \in Loaded' : \E s \in Loaded : t.rows = s.rows
        /\ \A c \in Created' : \E d \in Created : c.row = d.row
        /\ Created' \in {Created, {[c EXCEPT !.mine = FALSE] : c \in Created}}
    BY <1>3, CallSent
  <2>2. IdsWereGiven'
    BY <2>1 DEF IdsWereGiven, IdsIn
  <2>3. RowsDiffer'
    BY <2>1 DEF RowsDiffer
  <2>4. \A c, d \in Created' : c.row.id = d.row.id => c = d
    <3>1. CASE Created' = Created
      BY <3>1 DEF CreatedIsNew
    <3>2. CASE Created' = {[c EXCEPT !.mine = FALSE] : c \in Created}
      <4> DEFINE Left(c) == [c EXCEPT !.mine = FALSE]
      <4>1. \A c \in Created : Left(c).row = c.row
        BY <1>0 DEF Created, ThunkRecord
      <4>2. Created' = {Left(c) : c \in Created}
        BY <3>2
      <4> HIDE DEF Left
      <4> QED  BY <4>1, <4>2 DEF CreatedIsNew
    <3> QED  BY <2>1, <3>1, <3>2
  <2>5. CreatedIsNew'
    BY <2>1, <2>4 DEF CreatedIsNew, IdsIn
  <2> QED  BY <2>2, <2>3, <2>5
<1>4. ASSUME NEW t \in thunks, GetChecklists(t) PROVE HeardOf'
  <2>1. /\ Listing \in Seq(SliceRow)
        /\ \A i, j \in 1..Len(Listing) : Listing[i].id = Listing[j].id => i = j
        /\ {Listing[i] : i \in 1..Len(Listing)} = OnServer
    BY ListingIsServer DEF SliceTyped
  <2>2. PICK a : a = Answer(t, NoRow, Listing)
    OBVIOUS
  <2>3. Loaded' = Loaded \cup {a} /\ Created' = Created /\ a.rows = Listing
    <3>1. t.kind = "fetch" /\ t.at = "sent" /\ thunks' = (thunks \ {t}) \cup {a}
      BY <1>4, <2>2 DEF GetChecklists, AnswerWith, Answer
    <3>2. a.kind = t.kind /\ a.at = "answered" /\ a.rows = Listing
      BY <1>0, <2>2 DEF Answer, ThunkRecord
    <3> QED  BY <3>1, <3>2, CallAnswered
  <2>4. IdsIn(Listing) \subseteq everUsed
    <3>1. \A r \in OnServer : r.id \in everUsed
      BY DEF OnServer, Row, IdsWereGiven
    <3> QED  BY <2>1, <3>1 DEF IdsIn
  <2>5. /\ UNCHANGED <<serverVars, items>>
        /\ mixed' = mixed \cup {c.row.id : c \in Created}
    BY <1>4 DEF GetChecklists, Created
  <2>6. IdsWereGiven'
    BY <2>3, <2>4, <2>5 DEF IdsWereGiven, IdsIn
  <2>7. RowsDiffer'
    BY <2>1, <2>3, <2>5 DEF RowsDiffer
  <2>8. CreatedIsNew'
    BY <2>3, <2>5 DEF CreatedIsNew
  <2> QED  BY <2>6, <2>7, <2>8
<1>5. ASSUME NEW t \in thunks, CreateChecklist(t) PROVE HeardOf'
  <2>1. PICK id \in Ids \ everUsed :
          /\ t.kind = "create" /\ t.at = "sent"
          /\ checklists' = [checklists EXCEPT ![id] = 1]
          /\ everUsed' = everUsed \cup {id}
          /\ thunks' = (thunks \ {t}) \cup {Answer(t, Row(id, 1, FALSE), <<>>)}
          /\ UNCHANGED <<completed, items, mixed>>
    BY <1>5 DEF CreateChecklist, AnswerWith, Answer
  <2>2. Row(id, 1, FALSE).id = id
    BY DEF Row
  <2> DEFINE a == Answer(t, Row(id, 1, FALSE), <<>>)
  <2>3. Loaded' = Loaded /\ Created' = Created \cup {a} /\ a.row = Row(id, 1, FALSE)
    <3>1. a.kind = t.kind /\ a.at = "answered" /\ a.row = Row(id, 1, FALSE)
      BY <1>0 DEF Answer, ThunkRecord
    <3>2. thunks' = (thunks \ {t}) \cup {a}
      BY <2>1
    <3> HIDE DEF a
    <3> QED  BY <2>1, <3>1, <3>2, CallAnswered
  <2> HIDE DEF a
  <2>4. IdsWereGiven'
    BY <1>0, <2>1, <2>2, <2>3 DEF IdsWereGiven, IdsIn
  <2>5. RowsDiffer'
    BY <2>1, <2>3 DEF RowsDiffer
  <2>6. CreatedIsNew'
    <3>1. id \notin IdsIn(items) /\ \A s \in Loaded : id \notin IdsIn(s.rows)
      BY <2>1 DEF IdsWereGiven
    <3>2. \A c \in Created : c.row.id # id
      BY <2>1 DEF IdsWereGiven
    <3>3. a.row.id = id /\ UNCHANGED <<items, mixed>>
      BY <2>1, <2>2, <2>3
    <3>4. Loaded' = Loaded /\ Created' = Created \cup {a}
      BY <2>3
    <3> QED  BY <3>1, <3>2, <3>3, <3>4 DEF CreatedIsNew, IdsIn
  <2> QED  BY <2>4, <2>5, <2>6
<1>6. ASSUME NEW t \in thunks, UpdateChecklist(t) \/ CompleteChecklist(t) \/ DeleteChecklist(t)
      PROVE  HeardOf'
  <2>1. t.kind \in {"update", "complete", "delete"} /\ t.id \in Ids /\ t.at = "sent"
    BY <1>0, <1>6 DEF UpdateChecklist, CompleteChecklist, DeleteChecklist, ThunkKnowsItsRow
  <2>2. /\ \A i \in Ids : checklists'[i] > 0 => checklists[i] > 0
        /\ completed' \subseteq everUsed
        /\ UNCHANGED <<everUsed, items, mixed>>
    <3> USE DEF IdsWereGiven
    <3>1. CASE UpdateChecklist(t)
      BY <1>0, <2>1, <3>1 DEF UpdateChecklist
    <3>2. CASE DeleteChecklist(t)
      BY <1>0, <2>1, <3>2 DEF DeleteChecklist
    <3>3. CASE CompleteChecklist(t)
      BY <1>0, <2>1, <3>3 DEF CompleteChecklist
    <3> QED  BY <1>6, <3>1, <3>2, <3>3
  <2>3. UNCHANGED <<Loaded, Created>>
    <3>1. PICK row : AnswerWith(t, row, <<>>)
      BY <1>6 DEF UpdateChecklist, CompleteChecklist, DeleteChecklist
    <3> DEFINE a == Answer(t, row, <<>>)
    <3>2. a.kind = t.kind /\ a.at = "answered"
      BY <1>0 DEF Answer, ThunkRecord
    <3>3. thunks' = (thunks \ {t}) \cup {a}
      BY <3>1 DEF AnswerWith, Answer
    <3> HIDE DEF a
    <3> QED  BY <2>1, <3>2, <3>3, CallAnswered
  <2> QED  BY <2>2, <2>3 DEF IdsWereGiven, RowsDiffer, CreatedIsNew, IdsIn
<1>7. ASSUME NEW t \in thunks, FetchFulfilled(t) PROVE HeardOf'
  <2>1. /\ t \in Loaded /\ items' = t.rows /\ UNCHANGED <<serverVars, mixed>>
        /\ Loaded' = Loaded \ {t} /\ Created' = Created \ {t}
    BY <1>7, CallOver DEF FetchFulfilled, Settled, Loaded
  <2> QED  BY <2>1 DEF IdsWereGiven, RowsDiffer, CreatedIsNew, IdsIn
<1>8. ASSUME NEW t \in thunks, CreateFulfilled(t) PROVE HeardOf'
  <2>1. /\ t \in Created /\ t.row \in SliceRow /\ items' = <<t.row>> \o items
        /\ UNCHANGED <<serverVars, mixed>>
        /\ Loaded' = Loaded \ {t} /\ Created' = Created \ {t}
    BY <1>0, <1>8, CallOver DEF CreateFulfilled, Settled, Created, ThunkKnowsItsRow
  <2>2. /\ Len(items) \in Nat /\ Len(items') = Len(items) + 1
        /\ items'[1] = t.row
        /\ \A i \in 2..Len(items') : i - 1 \in 1..Len(items) /\ items'[i] = items[i - 1]
    BY <1>0, <2>1, RowInFront
  <2>3. \A i \in 1..Len(items') : i = 1 \/ i \in 2..Len(items')
    BY <2>2
  <2>4. IdsIn(items') \subseteq IdsIn(items) \cup {t.row.id}
    <3>1. \A i \in 1..Len(items') : items'[i].id \in IdsIn(items) \cup {t.row.id}
      BY <2>2, <2>3 DEF IdsIn
    <3> QED  BY <3>1 DEF IdsIn
  <2>5. IdsWereGiven'
    BY <2>1, <2>4 DEF IdsWereGiven
  <2>6. ASSUME NEW i \in 1..Len(items'), NEW j \in 1..Len(items'),
               items'[i].id = items'[j].id, items'[i].id \notin mixed
        PROVE  i = j
    <3>1. t.row.id \notin mixed => \A k \in 1..Len(items) : items[k].id # t.row.id
      BY <2>1 DEF CreatedIsNew, IdsIn
    <3>2. CASE i = 1 /\ j = 1
      BY <3>2
    <3>3. CASE i = 1 /\ j # 1
      BY <2>2, <2>3, <2>6, <3>1, <3>3
    <3>4. CASE i # 1 /\ j = 1
      BY <2>2, <2>3, <2>6, <3>1, <3>4
    <3>5. CASE i # 1 /\ j # 1
      <4>1. i - 1 = j - 1
        BY <2>2, <2>3, <2>6, <3>5 DEF RowsDiffer
      <4> QED  BY <2>2, <4>1
    <3> QED  BY <3>2, <3>3, <3>4, <3>5
  <2>7. RowsDiffer'
    BY <2>1, <2>6 DEF RowsDiffer
  <2>8. CreatedIsNew'
    <3>1. \A c \in Created' : c.row.id # t.row.id
      BY <2>1 DEF CreatedIsNew
    <3> QED  BY <2>1, <2>4, <3>1 DEF CreatedIsNew
  <2> QED  BY <2>5, <2>7, <2>8
<1>9. ASSUME NEW t \in thunks, UpdateFulfilled(t) PROVE HeardOf'
  <2>1. /\ t.row \in SliceRow /\ items' = Put(t.row) /\ UNCHANGED <<serverVars, mixed>>
        /\ Loaded' = Loaded \ {t} /\ Created' = Created \ {t}
    BY <1>0, <1>9, CallOver DEF UpdateFulfilled, Settled, ThunkKnowsItsRow
  <2>2. Len(items') = Len(items) /\ \A i \in 1..Len(items) : items'[i].id = items[i].id
    BY <1>0, <2>1, PutKeepsIds
  <2>3. IdsIn(items') = IdsIn(items)
    BY <2>2 DEF IdsIn
  <2>4. RowsDiffer'
    BY <2>1, <2>2 DEF RowsDiffer
  <2> QED  BY <2>1, <2>3, <2>4 DEF IdsWereGiven, CreatedIsNew
<1>10. ASSUME NEW t \in thunks, DeleteFulfilled(t) PROVE HeardOf'
  <2>1. /\ UNCHANGED <<serverVars, mixed>>
        /\ Loaded' = Loaded \ {t} /\ Created' = Created \ {t}
    BY <1>10, CallOver DEF DeleteFulfilled, Settled
  <2>2. PICK kept \in [1..Len(items') -> {i \in 1..Len(items) : items[i].id # t.id}] :
              /\ \A k \in 1..Len(items') : items'[k] = items[kept[k]]
              /\ \A j, k \in 1..Len(items') : kept[j] = kept[k] => j = k
              /\ \A i \in 1..Len(items) : items[i].id # t.id
                     => \E k \in 1..Len(items') : kept[k] = i
    BY <1>10, DeletedRows
  <2>3. /\ \A k \in 1..Len(items') : kept[k] \in 1..Len(items) /\ items'[k] = items[kept[k]]
        /\ \A j, k \in 1..Len(items') : kept[j] = kept[k] => j = k
    BY <2>2
  <2>4. IdsIn(items') \subseteq IdsIn(items)
    BY <2>3 DEF IdsIn
  <2>5. RowsDiffer'
    BY <2>1, <2>3 DEF RowsDiffer
  <2> QED  BY <2>1, <2>4, <2>5 DEF IdsWereGiven, CreatedIsNew
<1>11. ASSUME NEW t \in thunks, ThunkRejected(t) \/ CompleteFulfilled(t) PROVE HeardOf'
  <2>1. /\ UNCHANGED <<serverVars, items, mixed>>
        /\ Loaded' = Loaded \ {t} /\ Created' = Created \ {t}
    BY <1>11, CallOver, NothingPut DEF ThunkRejected, CompleteFulfilled, Settled
  <2> QED  BY <2>1 DEF IdsWereGiven, RowsDiffer, CreatedIsNew, IdsIn
<1> QED  BY <1>2, <1>3, <1>4, <1>5, <1>6, <1>7, <1>8, <1>9, <1>10, <1>11 DEF SliceNext

\* While calls come one at a time there is only one, and nothing is mixed.
LEMMA AlonePreserved ==
  SliceTyped /\ (~together => Alone) /\ [SliceNext]_sliceVars => (~together' => Alone')
<1> SUFFICES ASSUME SliceTyped, ~together => Alone, [SliceNext]_sliceVars, ~together'
             PROVE  Alone'
  OBVIOUS
<1>1. CASE UNCHANGED sliceVars \/ handleCreate \/ CancelModal \/ \E id \in Ids : handleEdit(id)
  BY <1>1 DEF sliceVars, handleCreate, CancelModal, handleEdit, Alone
<1>2. CASE \/ OpenChecklists \/ handleModalOk
           \/ \E id \in Ids : handleDelete(id) \/ handleComplete(id)
  <2>1. mixed' = mixed /\ ~together /\ thunks = {} /\ \E u : thunks' = {u}
    BY <1>2, CallSent
  <2> QED  BY <2>1 DEF Alone
<1>3. ASSUME NEW t \in thunks, NEW a, thunks' = (thunks \ {t}) \cup {a}, together' = together,
             mixed' = mixed
      PROVE  Alone'
  BY <1>3 DEF Alone
<1>4. ASSUME NEW t \in thunks, GetChecklists(t) PROVE Alone'
  <2>1. /\ ~together /\ t.kind = "fetch"
        /\ thunks' = (thunks \ {t}) \cup {Answer(t, NoRow, Listing)}
    BY <1>4 DEF GetChecklists, AnswerWith, Answer
  <2>2. mixed' = {}
    BY <1>4, <2>1 DEF GetChecklists, Alone
  <2> QED  BY <2>1, <2>2 DEF Alone
<1>5. ASSUME NEW t \in thunks,
             \/ CreateChecklist(t) \/ UpdateChecklist(t)
             \/ CompleteChecklist(t) \/ DeleteChecklist(t)
      PROVE  Alone'
  <2>1. PICK row : AnswerWith(t, row, <<>>)
    BY <1>5 DEF CreateChecklist, UpdateChecklist, CompleteChecklist, DeleteChecklist
  <2>2. thunks' = (thunks \ {t}) \cup {Answer(t, row, <<>>)}
    BY <2>1 DEF AnswerWith, Answer
  <2>3. together' = together /\ mixed' = mixed
    BY <1>5 DEF CreateChecklist, UpdateChecklist, CompleteChecklist, DeleteChecklist
  <2> QED  BY <1>3, <2>2, <2>3
<1>6. ASSUME NEW t \in thunks,
             \/ FetchFulfilled(t) \/ CreateFulfilled(t) \/ UpdateFulfilled(t)
             \/ CompleteFulfilled(t) \/ DeleteFulfilled(t) \/ ThunkRejected(t)
      PROVE  Alone'
  <2>1. thunks' = thunks \ {t} /\ together' = together /\ mixed' = mixed
    BY <1>6 DEF Settled, FetchFulfilled, CreateFulfilled, UpdateFulfilled, CompleteFulfilled,
                DeleteFulfilled, ThunkRejected
  <2> QED  BY <2>1 DEF Alone
<1> QED  BY <1>1, <1>2, <1>4, <1>5, <1>6 DEF SliceNext

\* One call at a time keeps the slice what the server has, after each answer.
LEMMA OneByOnePreserved ==
  SliceInv /\ [SliceNext]_sliceVars => (~together' /\ ~untold' => OneByOne')
<1> SUFFICES ASSUME SliceInv, [SliceNext]_sliceVars, ~together', ~untold' PROVE OneByOne'
  OBVIOUS
<1>0. /\ checklists \in [Ids -> 0..MaxChanges] /\ everUsed \subseteq Ids
      /\ completed \subseteq Ids
      /\ items \in Seq(SliceRow) /\ Len(items) \in Nat
      /\ \A t \in thunks : t \in ThunkRecord /\ ThunkKnowsItsRow(t)
      /\ \A i \in 1..Len(items) : items[i] \in SliceRow
  BY LenProperties, ElementOfSeq DEF SliceInv, SliceTyped, SliceTypeOK
<1>1. CASE UNCHANGED sliceVars \/ handleCreate \/ CancelModal \/ \E id \in Ids : handleEdit(id)
  <2>1. UNCHANGED <<serverVars, items, thunks, together, untold, unshown>>
    BY <1>1 DEF sliceVars, handleCreate, CancelModal, handleEdit
  <2>2. /\ RowsShown' = RowsShown /\ OnServer' = OnServer /\ IdsIn(items)' = IdsIn(items)
        /\ RowsHiding(unshown)' = RowsHiding(unshown)
    BY <2>1 DEF RowsShown, OnServer, RowsHiding, IdsIn
  <2>3. \A t \in thunks : /\ RowsBut(t.id)' = RowsBut(t.id)
                          /\ RowsHiding(unshown \ {t.id})' = RowsHiding(unshown \ {t.id})
    BY <2>1, <2>2 DEF RowsBut, RowsHiding
  <2>4. OneByOne
    BY <2>1 DEF SliceInv
  <2> QED  BY <2>1, <2>2, <2>3, <2>4 DEF OneByOne
<1>2. CASE \/ OpenChecklists \/ handleModalOk
           \/ \E id \in Ids : handleDelete(id) \/ handleComplete(id)
  <2>1. PICK u : /\ UNCHANGED <<serverVars, items, untold, unshown>> /\ ~together /\ thunks = {}
                 /\ thunks' = {u} /\ u.at = "sent"
    BY <1>2, CallSent DEF SliceInv
  <2>2. RowsShown = RowsHiding(unshown)
    BY <2>1 DEF SliceInv, OneByOne
  <2>3. RowsShown' = RowsHiding(unshown)'
    BY <2>1, <2>2 DEF RowsShown, RowsHiding
  <2> QED  BY <2>1, <2>3 DEF OneByOne
<1>3. ASSUME NEW t \in thunks, together' = together, untold' = untold PROVE
             /\ \A u \in thunks : u = t
             /\ OneByOne
  BY <1>3 DEF SliceInv, Alone
<1>4. ASSUME NEW t \in thunks, GetChecklists(t) PROVE OneByOne'
  <2>1. PICK a : a = Answer(t, NoRow, Listing)
    OBVIOUS
  <2>2. /\ t.kind = "fetch" /\ t.at = "sent" /\ thunks' = (thunks \ {t}) \cup {a}
        /\ UNCHANGED <<serverVars, items, together, untold, unshown>>
    BY <1>4, <2>1 DEF GetChecklists, AnswerWith, Answer
  <2>3. a.kind = "fetch" /\ a.at = "answered" /\ a.rows = Listing
    BY <1>0, <2>1, <2>2 DEF Answer, ThunkRecord
  <2>4. {Listing[i] : i \in 1..Len(Listing)} = OnServer
    BY ListingIsServer DEF SliceInv, SliceTyped
  <2>5. thunks' = {a} /\ RowsShown = RowsHiding(unshown)
    BY <1>3, <2>2 DEF OneByOne
  <2>6. RowsShown' = RowsHiding(unshown)' /\ OnServer' = OnServer
    BY <2>2, <2>5 DEF RowsShown, OnServer, RowsHiding
  <2> QED  BY <2>3, <2>4, <2>5, <2>6 DEF OneByOne
<1>5. ASSUME NEW t \in thunks, CreateChecklist(t) PROVE OneByOne'
  <2>1. PICK id \in Ids \ everUsed :
          /\ t.kind = "create" /\ t.at = "sent"
          /\ checklists' = [checklists EXCEPT ![id] = 1]
          /\ thunks' = (thunks \ {t}) \cup {Answer(t, Row(id, 1, FALSE), <<>>)}
          /\ UNCHANGED <<completed, items, together, untold, unshown>>
    BY <1>5 DEF CreateChecklist, AnswerWith, Answer
  <2> DEFINE a == Answer(t, Row(id, 1, FALSE), <<>>)
  <2>2. a.kind = "create" /\ a.at = "answered" /\ a.row = Row(id, 1, FALSE)
    BY <1>0, <2>1 DEF Answer, ThunkRecord
  <2>3. thunks' = {a} /\ RowsShown = RowsHiding(unshown)
    BY <1>3, <2>1 DEF OneByOne
  <2> HIDE DEF a
  <2>4. RowsShown' = RowsShown
    BY <2>1 DEF RowsShown
  <2>5. checklists[id] = 0 /\ id \notin completed
    BY <1>0, <2>1 DEF SliceInv, HeardOf, IdsWereGiven
  <2>6. RowsHiding(unshown)' = RowsHiding(unshown) \cup {Row(id, 1, FALSE)}
    <3>1. {i \in Ids : checklists'[i] > 0} = {i \in Ids : checklists[i] > 0} \cup {id}
      BY <1>0, <2>1, <2>5
    <3>2. \A i \in Ids : checklists'[i] = IF i = id THEN 1 ELSE checklists[i]
      BY <1>0, <2>1
    <3> DEFINE Old(i) == Row(i, checklists[i], i \in completed \ unshown)
               New(i) == Row(i, checklists'[i], i \in completed \ unshown)
               row == Row(id, 1, FALSE)
               before == RowsHiding(unshown)
               after == RowsHiding(unshown)'
    <3>3. New(id) = Row(id, 1, FALSE)
      <4>1. (id \in completed \ unshown) = FALSE
        BY <2>5
      <4> QED  BY <2>1, <3>2, <4>1
    <3>4. \A i \in Ids : i # id => New(i) = Old(i)
      BY <3>2
    <3>5. \A r : r \in after <=> \E i \in Ids : checklists'[i] > 0 /\ r = New(i)
      BY <2>1 DEF RowsHiding
    <3>6. \A r : r \in before <=> \E i \in Ids : checklists[i] > 0 /\ r = Old(i)
      BY DEF RowsHiding
    <3>7. after = before \cup {row}
      <4>1. id \in Ids /\ New(id) = row /\ checklists'[id] > 0 /\ ~(checklists[id] > 0)
        <5>1. checklists'[id] = 1 /\ id \in Ids
          BY <2>1, <3>2
        <5>2. checklists'[id] > 0 /\ ~(checklists[id] > 0)
          BY <2>5, <5>1
        <5>3. New(id) = row
          BY <3>3
        <5> HIDE DEF New, row
        <5> QED  BY <5>1, <5>2, <5>3
      <4>2. \A i \in Ids : i # id => checklists'[i] = checklists[i]
        BY <3>2
      <4> HIDE DEF Old, New, before, after, row
      <4> QED  BY <3>4, <3>5, <3>6, <4>1, <4>2
    <3> QED  BY <3>7
  <2> QED  BY <2>2, <2>3, <2>4, <2>6 DEF OneByOne
<1>6. ASSUME NEW t \in thunks, UpdateChecklist(t) PROVE OneByOne'
  <2>1. /\ t.kind = "update" /\ t.at = "sent" /\ t.id \in Ids
        /\ checklists[t.id] \in 1..(MaxChanges - 1)
        /\ checklists' = [checklists EXCEPT ![t.id] = checklists[t.id] + 1]
        /\ UNCHANGED <<completed, items, together, untold, unshown>>
    BY <1>0, <1>6 DEF UpdateChecklist, ThunkKnowsItsRow
  <2> DEFINE row == Row(t.id, checklists[t.id] + 1, t.id \in completed)
             a == Answer(t, row, <<>>)
  <2>2. a.kind = "update" /\ a.id = t.id /\ a.at = "answered" /\ a.row = row
    BY <1>0, <2>1 DEF Answer, ThunkRecord
  <2>3. thunks' = (thunks \ {t}) \cup {a}
    BY <1>6 DEF UpdateChecklist, AnswerWith, Answer
  <2> HIDE DEF a
  <2>4. thunks' = {a} /\ RowsShown = RowsHiding(unshown)
    BY <1>3, <2>1, <2>3 DEF OneByOne
  <2>5. RowsShown' = RowsShown /\ RowsBut(t.id)' = RowsBut(t.id) /\ IdsIn(items)' = IdsIn(items)
    BY <2>1 DEF RowsShown, RowsBut, IdsIn
  <2>6. Row(t.id, checklists[t.id], t.id \in completed \ unshown) \in RowsHiding(unshown)
    BY <2>1, ThunksAssumption DEF RowsHiding
  <2>7. t.id \in IdsIn(items)
    BY <2>4, <2>6 DEF RowsShown, IdsIn, Row
  <2>8. RowsHiding(unshown \ {t.id})' = {r \in RowsHiding(unshown) : r.id # t.id} \cup {row}
    <3> DEFINE Old(i) == Row(i, checklists[i], i \in completed \ unshown)
               New(i) == Row(i, checklists'[i], i \in completed \ (unshown \ {t.id}))
               before == RowsHiding(unshown)
               after == RowsHiding(unshown \ {t.id})'
    <3>1. \A i \in Ids : checklists'[i] = IF i = t.id THEN checklists[t.id] + 1 ELSE checklists[i]
      BY <1>0, <2>1
    <3>2. checklists[t.id] + 1 > 0 /\ checklists[t.id] > 0
      BY <2>1, ThunksAssumption
    <3>3. \A i \in Ids : Old(i).id = i
      BY DEF Row
    <3>4. New(t.id) = row /\ \A i \in Ids : i # t.id => New(i) = Old(i)
      BY <2>1, <3>1
    <3>5. \A r : r \in after <=> \E i \in Ids : checklists'[i] > 0 /\ r = New(i)
      BY <2>1 DEF RowsHiding
    <3>6. \A r : r \in before <=> \E i \in Ids : checklists[i] > 0 /\ r = Old(i)
      BY DEF RowsHiding
    <3>7. after = {r \in before : r.id # t.id} \cup {row}
      <4> HIDE DEF row, Old, New, before, after
      <4> QED  BY <2>1, <3>1, <3>2, <3>3, <3>4, <3>5, <3>6
    <3> QED  BY <3>7
  <2>9. RowsHiding(unshown \ {t.id})' = RowsBut(t.id) \cup {row}
    BY <2>4, <2>8 DEF RowsBut
  <2> HIDE DEF row
  <2> QED  BY <2>1, <2>2, <2>4, <2>5, <2>7, <2>9 DEF OneByOne
<1>14. ASSUME NEW t \in thunks, CompleteChecklist(t) PROVE OneByOne'
  <2>1. /\ t.kind = "complete" /\ t.at = "sent" /\ completed' = completed \cup {t.id}
        /\ unshown' = IF t.id \in completed THEN unshown ELSE unshown \cup {t.id}
        /\ UNCHANGED <<checklists, items, together, untold>>
    BY <1>14 DEF CompleteChecklist
  <2> DEFINE a == Answer(t, NoRow, <<>>)
  <2>2. a.kind = "complete" /\ a.at = "answered"
    BY <1>0, <2>1 DEF Answer, ThunkRecord
  <2>3. thunks' = (thunks \ {t}) \cup {a}
    BY <1>14 DEF CompleteChecklist, AnswerWith, Answer
  <2> HIDE DEF a
  <2>4. thunks' = {a} /\ RowsShown = RowsHiding(unshown)
    BY <1>3, <2>1, <2>3 DEF OneByOne
  <2>5. completed' \ unshown' = completed \ unshown
    BY <2>1
  <2>6. RowsHiding(unshown)' = RowsHiding(unshown) /\ RowsShown' = RowsShown
    BY <2>1, <2>5 DEF RowsHiding, RowsShown
  <2> QED  BY <2>2, <2>4, <2>6 DEF OneByOne
<1>7. ASSUME NEW t \in thunks, DeleteChecklist(t) PROVE OneByOne'
  <2>1. /\ t.kind = "delete" /\ t.at = "sent" /\ t.id \in Ids
        /\ checklists' = [checklists EXCEPT ![t.id] = 0]
        /\ completed' = completed \ {t.id} /\ unshown' = unshown \ {t.id}
        /\ UNCHANGED <<items, together, untold>>
    BY <1>0, <1>7 DEF DeleteChecklist, ThunkKnowsItsRow
  <2> DEFINE a == Answer(t, NoRow, <<>>)
  <2>2. a.kind = t.kind /\ a.id = t.id /\ a.at = "answered"
    BY <1>0, <2>1 DEF Answer, ThunkRecord
  <2>3. thunks' = (thunks \ {t}) \cup {a}
    BY <1>7 DEF DeleteChecklist, AnswerWith, Answer
  <2> HIDE DEF a
  <2>4. thunks' = {a} /\ RowsShown = RowsHiding(unshown)
    BY <1>3, <2>1, <2>3 DEF OneByOne
  <2>5. RowsBut(t.id)' = RowsBut(t.id)
    BY <2>1 DEF RowsShown, RowsBut
  <2>6. RowsHiding(unshown)' = {r \in RowsHiding(unshown) : r.id # t.id}
    <3> DEFINE Old(i) == Row(i, checklists[i], i \in completed \ unshown)
               New(i) == Row(i, checklists'[i], i \in completed' \ unshown')
               before == RowsHiding(unshown)
               after == RowsHiding(unshown)'
    <3>1. \A i \in Ids : checklists'[i] = IF i = t.id THEN 0 ELSE checklists[i]
      BY <1>0, <2>1
    <3>2. \A i \in Ids : Old(i).id = i
      BY DEF Row
    <3>3. \A i \in Ids : i # t.id => New(i) = Old(i)
      BY <2>1, <3>1
    <3>4. \A r : r \in after <=> \E i \in Ids : checklists'[i] > 0 /\ r = New(i)
      BY DEF RowsHiding
    <3>5. \A r : r \in before <=> \E i \in Ids : checklists[i] > 0 /\ r = Old(i)
      BY DEF RowsHiding
    <3>6. after = {r \in before : r.id # t.id}
      <4> HIDE DEF Old, New, before, after
      <4> QED  BY <2>1, <3>1, <3>2, <3>3, <3>4, <3>5
    <3> QED  BY <3>6
  <2>7. RowsHiding(unshown)' = RowsBut(t.id)
    BY <2>4, <2>6 DEF RowsBut
  <2> QED  BY <2>1, <2>2, <2>4, <2>5, <2>7 DEF OneByOne
<1>8. ASSUME NEW t \in thunks, Settled(t), untold' = untold, RowsShown' = RowsHiding(unshown')
      PROVE  OneByOne'
  <2>1. UNCHANGED serverVars /\ thunks' = {}
    BY <1>3, <1>8 DEF Settled
  <2>2. RowsHiding(unshown)' = RowsHiding(unshown')
    BY <2>1 DEF RowsHiding
  <2> QED  BY <1>8, <2>1, <2>2 DEF OneByOne
<1>9. ASSUME NEW t \in thunks, FetchFulfilled(t) PROVE OneByOne'
  <2>1. /\ t.kind = "fetch" /\ t.at = "answered" /\ items' = t.rows /\ Settled(t)
        /\ untold' = untold /\ together' = together /\ unshown' = {}
    BY <1>9 DEF FetchFulfilled, Settled
  <2>2. {t.rows[i] : i \in 1..Len(t.rows)} = OnServer
    BY <1>3, <2>1 DEF OneByOne
  <2>4. RowsShown' = OnServer
    BY <2>1, <2>2 DEF RowsShown
  <2>3. OnServer = RowsHiding(unshown')
    <3>1. completed \ unshown' = completed
      BY <2>1
    <3> QED  BY <3>1 DEF OnServer, RowsHiding
  <2> QED  BY <1>8, <2>1, <2>3, <2>4
<1>10. ASSUME NEW t \in thunks, CreateFulfilled(t) PROVE OneByOne'
  <2>1. /\ t.kind = "create" /\ t.at = "answered" /\ items' = <<t.row>> \o items /\ Settled(t)
        /\ untold' = untold /\ together' = together /\ t.row \in SliceRow /\ unshown' = unshown
    BY <1>0, <1>10 DEF CreateFulfilled, Settled, ThunkKnowsItsRow
  <2>2. /\ Len(items) \in Nat /\ Len(items') = Len(items) + 1
        /\ items'[1] = t.row
        /\ \A i \in 2..Len(items') : i - 1 \in 1..Len(items) /\ items'[i] = items[i - 1]
        /\ \A i \in 1..Len(items) : i + 1 \in 1..Len(items') /\ items'[i + 1] = items[i]
    BY <1>0, <2>1, RowInFront
  <2>3. \A i \in 1..Len(items') : i = 1 \/ i \in 2..Len(items')
    BY <2>2
  <2>4. 1 \in 1..Len(items')
    BY <2>2
  <2>5. RowsShown' = RowsShown \cup {t.row}
    <3>1. RowsShown' \subseteq RowsShown \cup {t.row}
      BY <2>2, <2>3 DEF RowsShown
    <3>2. \A i \in 1..Len(items) : items[i] \in RowsShown'
      BY <2>2 DEF RowsShown
    <3>3. t.row \in RowsShown'
      BY <2>2, <2>4 DEF RowsShown
    <3> QED  BY <3>1, <3>2, <3>3 DEF RowsShown
  <2>6. RowsHiding(unshown) = RowsShown \cup {t.row}
    BY <1>3, <2>1 DEF OneByOne
  <2> QED  BY <1>8, <2>1, <2>5, <2>6
<1>11. ASSUME NEW t \in thunks, UpdateFulfilled(t) PROVE OneByOne'
  <2>1. /\ t.kind = "update" /\ t.at = "answered" /\ items' = Put(t.row)
        /\ Settled(t) /\ untold' = untold /\ together' = together /\ unshown' = unshown \ {t.id}
        /\ t.row \in SliceRow /\ t.row.id = t.id
    BY <1>0, <1>11 DEF UpdateFulfilled, Settled, ThunkKnowsItsRow
  <2>2. RowsHiding(unshown \ {t.id}) = RowsBut(t.id) \cup {t.row} /\ t.id \in IdsIn(items)
    BY <1>3, <2>1 DEF OneByOne
  <2>3. At(t.row.id) # {}
    BY <2>1, <2>2 DEF At, IdsIn
  <2>4. \A i, j \in 1..Len(items) : items[i].id = items[j].id => i = j
    BY <1>3, <2>1 DEF SliceInv, HeardOf, RowsDiffer, Alone
  <2>5. /\ Len(items') = Len(items)
        /\ \A i \in 1..Len(items) :
             items'[i] = items[i] \/ (items[i].id = t.row.id /\ items'[i] = t.row)
        /\ \E i \in 1..Len(items) : items[i].id = t.row.id /\ items'[i] = t.row
    BY <1>0, <2>1, <2>3, PutKeepsIds
  <2>6. RowsShown' = RowsBut(t.id) \cup {t.row}
    BY <2>1, <2>4, <2>5 DEF RowsShown, RowsBut
  <2> QED  BY <1>8, <2>1, <2>2, <2>6
<1>12. ASSUME NEW t \in thunks, DeleteFulfilled(t) PROVE OneByOne'
  <2>1. /\ t.kind = "delete" /\ t.at = "answered" /\ Settled(t)
        /\ untold' = untold /\ together' = together /\ unshown' = unshown
    BY <1>12 DEF DeleteFulfilled, Settled
  <2>2. RowsHiding(unshown) = RowsBut(t.id)
    BY <1>3, <2>1 DEF OneByOne
  <2>3. PICK kept \in [1..Len(items') -> {i \in 1..Len(items) : items[i].id # t.id}] :
              /\ \A k \in 1..Len(items') : items'[k] = items[kept[k]]
              /\ \A i \in 1..Len(items) : items[i].id # t.id
                   => \E k \in 1..Len(items') : kept[k] = i
    BY <1>12, DeletedRows DEF SliceInv
  <2>4. RowsShown' = RowsBut(t.id)
    <3>1. RowsShown' \subseteq RowsBut(t.id)
      BY <2>3 DEF RowsShown, RowsBut
    <3>2. RowsBut(t.id) \subseteq RowsShown'
      BY <2>3 DEF RowsShown, RowsBut
    <3> QED  BY <3>1, <3>2
  <2> QED  BY <1>8, <2>1, <2>2, <2>4
<1>13. ASSUME NEW t \in thunks, ThunkRejected(t) \/ CompleteFulfilled(t) PROVE OneByOne'
  <2>1. /\ Settled(t) /\ items' = items /\ together' = together /\ unshown' = unshown
        /\ untold' = untold /\ (t.kind \in {"fetch", "complete"} \/ t.at = "sent")
    BY <1>0, <1>13, NothingPut
       DEF ThunkRejected, CompleteFulfilled, Settled, ThunkRecord, SliceInv, SliceTyped, SliceTypeOK
  <2>2. RowsShown = RowsHiding(unshown)
    BY <1>3, <2>1 DEF OneByOne
  <2>3. RowsShown' = RowsHiding(unshown')
    BY <2>1, <2>2 DEF RowsShown
  <2> QED  BY <1>8, <2>1, <2>3
<1> QED  BY <1>1, <1>2, <1>4, <1>5, <1>6, <1>7, <1>9, <1>10, <1>11, <1>12, <1>13, <1>14 DEF SliceNext

\* The page has just appeared, its load on the wire.
LEMMA SliceInitially == SliceInit => SliceInv
<1> SUFFICES ASSUME SliceInit PROVE SliceInv
  OBVIOUS
<1> DEFINE u == Thunk(1, "fetch", NoId)
<1>1. u \in ThunkRecord /\ u.kind = "fetch" /\ u.id = NoId /\ u.at = "sent"
  BY ThunksAssumption, ThunkStarts
<1>2. thunks = {u}
  BY DEF SliceInit
<1> HIDE DEF u
<1>3. items = <<>> /\ Len(items) = 0 /\ items \in Seq(SliceRow)
  BY DEF SliceInit
<1>4. checklists \in [Ids -> 0..MaxChanges] /\ \A id \in Ids : checklists[id] = 0
  BY ThunksAssumption DEF SliceInit
<1>5. SliceTyped
  <2>1. SliceTypeOK
    <3>1. \A t \in thunks : t.n \in 1..MaxThunks /\ t.id \in Ids \cup {NoId}
      BY <1>1, <1>2 DEF ThunkRecord
    <3>2. \A i \in 1..Len(items) : items[i] \in [id : Ids, ver : 1..MaxChanges, done : BOOLEAN]
      BY <1>3
    <3>3. /\ everUsed \subseteq Ids /\ mixed \subseteq Ids /\ completed \subseteq Ids
          /\ unshown \subseteq Ids
          /\ {loading, together, untold} \subseteq BOOLEAN
          /\ modal \in [kind : {"none", "create", "edit"}, id : Ids \cup {NoId}]
      BY DEF SliceInit, NoModal
    <3> QED  BY <1>4, <3>1, <3>2, <3>3 DEF SliceTypeOK
  <2>2. ThunkKnowsItsRow(u)
    BY <1>1 DEF ThunkKnowsItsRow
  <2>3. modal.kind # "edit"
    BY DEF SliceInit, NoModal
  <2> QED  BY <1>1, <1>2, <1>3, <2>1, <2>2, <2>3 DEF SliceTyped
<1>6. Loaded = {} /\ Created = {}
  BY <1>1, <1>2 DEF Loaded, Created
<1>7. HeardOf
  BY <1>3, <1>4, <1>6 DEF HeardOf, IdsWereGiven, RowsDiffer, CreatedIsNew, IdsIn, SliceInit
<1>8. Alone
  BY <1>2 DEF SliceInit, Alone
<1>9. OneByOne
  <2>1. RowsShown = {} /\ RowsHiding(unshown) = {}
    BY <1>3, <1>4 DEF RowsShown, RowsHiding
  <2> QED  BY <1>1, <1>2, <2>1 DEF OneByOne
<1> QED  BY <1>5, <1>7, <1>8, <1>9 DEF SliceInv

\* The invariant of the slice.
LEMMA SlicePreserved == SliceInv /\ [SliceNext]_sliceVars => SliceInv'
<1> SUFFICES ASSUME SliceInv, [SliceNext]_sliceVars PROVE SliceInv'
  OBVIOUS
<1>1. SliceTyped'
  BY SliceTypePreserved DEF SliceInv
<1>2. HeardOf'
  BY HeardOfPreserved DEF SliceInv
<1>3. ~together' => Alone'
  BY AlonePreserved DEF SliceInv
<1>4. ~together' /\ ~untold' => OneByOne'
  BY OneByOnePreserved
<1> QED  BY <1>1, <1>2, <1>3, <1>4 DEF SliceInv

\* The checklists page and its slice keep their types, the rows of the answers
\* on the wire included.
THEOREM SliceTypeCorrect == SliceSpec => []SliceTypeOK
<1>1. SliceInv => SliceTypeOK
  BY DEF SliceInv, SliceTyped
<1> QED  BY <1>1, SliceInitially, SlicePreserved, PTL DEF SliceSpec

\* The table never has two rows for one checklist, whatever the calls and the
\* order of their answers, unless a load read it while the answer to its
\* creation was on its way.
THEOREM RowsAreNotDoubled == SliceSpec => []NoRowTwice
<1>1. SliceInv => NoRowTwice
  <2> SUFFICES ASSUME SliceInv, NEW id \in Ids \ mixed PROVE Cardinality(At(id)) <= 1
    BY DEF NoRowTwice
  <2>1. \A i, j \in At(id) : i = j
    BY DEF SliceInv, HeardOf, RowsDiffer, At
  <2>2. CASE At(id) = {}
    BY <2>2, FS_EmptySet
  <2>3. CASE At(id) # {}
    <3>1. PICK i : At(id) = {i}
      BY <2>1, <2>3
    <3>2. Cardinality({i}) = 1
      BY FS_Singleton
    <3> QED  BY <3>1, <3>2
  <2> QED  BY <2>2, <2>3
<1> QED  BY <1>1, SliceInitially, SlicePreserved, PTL DEF SliceSpec

\* Where calls came one at a time and no answer was lost, whenever nothing is
\* on the wire the table has the server's rows and texts, and shows as completed
\* what is, but for what was completed since its row last came with an answer.
THEOREM SliceIsTheServers == SliceSpec => []SliceFollowsServer
<1>1. SliceInv => SliceFollowsServer
  <2> SUFFICES ASSUME SliceInv, thunks = {}, ~together, ~untold
               PROVE  SliceFollowsServer
    BY DEF SliceFollowsServer
  <2> DEFINE ids == {i \in Ids : checklists[i] > 0}
  <2>1. RowsShown = RowsHiding(unshown)
    BY DEF SliceInv, OneByOne
  <2>2. \A i \in 1..Len(items) : \E id \in ids :
          items[i].id = id /\ items[i].ver = checklists[id]
            /\ items[i].done = (id \in completed \ unshown)
    BY <2>1 DEF RowsShown, RowsHiding, Row
  <2>3. \A id \in ids : \E i \in 1..Len(items) : items[i].id = id /\ items[i].ver = checklists[id]
    <3> TAKE id \in ids
    <3>1. Row(id, checklists[id], id \in completed \ unshown) \in RowsShown
      BY <2>1 DEF RowsHiding
    <3> QED  BY <3>1 DEF RowsShown, Row
  <2>4. {<<items[i].id, items[i].ver>> : i \in 1..Len(items)} = {<<id, checklists[id]>> : id \in ids}
    <3> DEFINE shown(i) == <<items[i].id, items[i].ver>>
               there(id) == <<id, checklists[id]>>
    <3>1. \A i \in 1..Len(items) : \E id \in ids : shown(i) = there(id)
      BY <2>2
    <3>2. \A id \in ids : \E i \in 1..Len(items) : shown(i) = there(id)
      BY <2>3
    <3> HIDE DEF ids, shown, there
    <3>3. {shown(i) : i \in 1..Len(items)} = {there(id) : id \in ids}
      BY <3>1, <3>2
    <3> QED  BY <3>3 DEF shown, there
  <2>5. \A i \in 1..Len(items) :
          /\ items[i].done => items[i].id \in completed
          /\ items[i].id \in completed \ unshown => items[i].done
    BY <2>2
  <2> QED  BY <2>4, <2>5 DEF SliceFollowsServer
<1> QED  BY <1>1, SliceInitially, SlicePreserved, PTL DEF SliceSpec

\* A settled call is what takes the flag down: it is up only while one is on the wire.
LEMMA SliceFlagPreserved == FlagAwaitsCall /\ [SliceNext]_sliceVars => FlagAwaitsCall'
<1> SUFFICES ASSUME FlagAwaitsCall, [SliceNext]_sliceVars PROVE FlagAwaitsCall'
  OBVIOUS
<1>1. CASE UNCHANGED sliceVars \/ handleCreate \/ CancelModal \/ \E id \in Ids : handleEdit(id)
  BY <1>1 DEF sliceVars, handleCreate, CancelModal, handleEdit, FlagAwaitsCall
<1>2. CASE \/ OpenChecklists \/ handleModalOk
           \/ \E id \in Ids : handleDelete(id) \/ handleComplete(id)
  <2>1. thunks' # {}
    BY <1>2 DEF OpenChecklists, handleModalOk, handleDelete, handleComplete, Dispatch
  <2> QED  BY <2>1 DEF FlagAwaitsCall
<1>3. ASSUME NEW t \in thunks,
             \/ GetChecklists(t) \/ CreateChecklist(t) \/ UpdateChecklist(t)
             \/ CompleteChecklist(t) \/ DeleteChecklist(t)
      PROVE  thunks' # {}
  BY <1>3 DEF GetChecklists, CreateChecklist, UpdateChecklist, CompleteChecklist, DeleteChecklist,
               AnswerWith
<1>4. ASSUME NEW t \in thunks,
             \/ FetchFulfilled(t) \/ CreateFulfilled(t) \/ UpdateFulfilled(t)
             \/ CompleteFulfilled(t) \/ DeleteFulfilled(t) \/ ThunkRejected(t)
      PROVE  ~loading'
  BY <1>4 DEF Settled, FetchFulfilled, CreateFulfilled, UpdateFulfilled, CompleteFulfilled,
              DeleteFulfilled, ThunkRejected
<1> QED  BY <1>1, <1>2, <1>3, <1>4 DEF SliceNext, FlagAwaitsCall

\* The flag of the checklists page is up only while a call is on the wire.
THEOREM FlagIsTruthful == SliceSpec => []FlagAwaitsCall
<1>1. SliceInit => FlagAwaitsCall
  BY DEF SliceInit, FlagAwaitsCall
<1> QED  BY <1>1, SliceFlagPreserved, PTL DEF SliceSpec

\* Whoever signs in or registers is a user; a cookie may be nobody's.
AuthCallsOfUsers == \A c \in OnWire(AuthKinds) : c.user \in Users

\* The flag without counting: it is up while exactly one call is on the wire.
FlagOfOneCall ==
  IF auth.loading THEN \E c : OnWire(AuthKinds) = {c} ELSE OnWire(AuthKinds) = {}

SessionTypeInv == SessionTypeOK /\ AuthCallsOfUsers

USE NoUserAssumption, RolesAssumption

(* -------------------------------- types --------------------------------- *)

\* The home of a user is a page.
LEMMA HomesArePages == \A u \in Users : HomeOf(u) \in HomePages
<1> SUFFICES ASSUME NEW u \in Users PROVE HomePage[RoleOf[u]] \in HomePages
  BY DEF HomeOf
<1>1. RoleOf[u] \in Roles
  OBVIOUS
<1> QED  BY <1>1 DEF Roles, HomePage, HomePages

\* A redirect leads to a page.
LEMMA TargetsArePages ==
  ASSUME auth.user \in Owner, NEW p
  PROVE  TargetsFrom(p) \subseteq Pages
<1>1. auth.user # NoUser => HomeOf(auth.user) \in HomePages
  BY HomesArePages DEF Owner
<1> QED
  BY <1>1 DEF TargetsFrom, LoginTargets, RegisterTargets, IndexTargets, AdminTargets,
     ManagerTargets, DealerTargets, SalonTargets, MemberTargets, Pages, HomePages

\* A call sent is one on the wire.
LEMMA SendTyped ==
  ASSUME SessionTypeOK, NEW k \in AuthKinds \cup {"logout"} \cup Dashboards, NEW u \in Owner,
         Send(Call(k, u))
  PROVE  wire' \subseteq [kind : AuthKinds \cup {"logout"} \cup Dashboards, user : Owner]
BY DEF Send, Call, SessionTypeOK

\* Going to a page leaves wire and figures typed.
LEMMA GoToTyped ==
  ASSUME SessionTypeOK, NEW p \in Pages, NEW w \in SUBSET wire, GoTo(p, w)
  PROVE  /\ page' \in Pages
         /\ wire' \subseteq wire
         /\ summary' \in [Dashboards -> Owner]
BY DEF GoTo, SessionTypeOK, Dashboards, Owner

(* --------------------------- calls of the forms --------------------------- *)

\* Leaving a page drops no call of the forms.
LEMMA GoToKeepsAuthCalls ==
  ASSUME NEW p, NEW w \in SUBSET wire, GoTo(p, w)
  PROVE  OnWire(AuthKinds)' = {c \in w : c.kind \in AuthKinds}
<1>1. "salon" \notin AuthKinds
  BY DEF AuthKinds
<1>2. wire' = w \/ wire' = {c \in w : c.kind # "salon"}
  BY DEF GoTo
<1> QED  BY <1>1, <1>2 DEF OnWire

\* How a step moves the calls of the forms, and the flag with them: it adds one
\* and puts the flag up, takes one away and puts it down, drops all with the
\* tab's memory, or changes neither.
AuthCallSent ==
  /\ ~auth.loading /\ auth'.loading
  /\ \E k \in AuthKinds, u \in Users : OnWire(AuthKinds)' = OnWire(AuthKinds) \cup {Call(k, u)}

AuthCallEnded ==
  /\ ~auth'.loading
  /\ \E c \in OnWire(AuthKinds) : OnWire(AuthKinds)' = OnWire(AuthKinds) \ {c}

AuthCallsDropped == ~auth'.loading /\ OnWire(AuthKinds)' = {}

AuthCallsKept == auth'.loading = auth.loading /\ OnWire(AuthKinds)' = OnWire(AuthKinds)

AuthCallsMove == AuthCallSent \/ AuthCallEnded \/ AuthCallsDropped \/ AuthCallsKept

\* Every step moves the calls of the forms in one of these ways.
LEMMA AuthCallsMoves ==
  ASSUME SessionTypeOK, [SessionNext]_sessionVars
  PROVE  AuthCallsMove
<1> USE DEF AuthCallsMove
<1>0. auth \in [user : Owner, signedIn : BOOLEAN, loading : BOOLEAN]
  BY DEF SessionTypeOK
<1>1. ASSUME NEW u \in Users, NEW k \in AuthKinds, ~auth.loading,
             auth' = [auth EXCEPT !.loading = TRUE], Send(Call(k, u))
      PROVE  AuthCallSent
  BY <1>0, <1>1 DEF AuthCallSent, OnWire, Send, Call
<1>2. ASSUME NEW u \in Users, SubmitLogin(u) \/ SubmitRegister(u) PROVE AuthCallSent
  BY <1>1, <1>2 DEF SubmitLogin, SubmitRegister, AuthKinds
<1>3. ASSUME NEW c \in OnWire(AuthKinds), NEW p, ~auth'.loading, GoTo(p, wire \ {c})
      PROVE  AuthCallEnded
  BY <1>3, GoToKeepsAuthCalls DEF AuthCallEnded, OnWire
<1>4. ASSUME NEW c \in wire, LoginAnswered(c) \/ RegisterAnswered(c) PROVE AuthCallEnded
  BY <1>3, <1>4 DEF LoginAnswered, RegisterAnswered, LoginFulfilled, RegisterFulfilled,
     OnWire, AuthKinds
<1>5. ASSUME NEW c \in wire, AuthRejected(c) PROVE AuthCallEnded
  BY <1>0, <1>5 DEF AuthRejected, AuthCallEnded, OnWire
<1>6. ASSUME NEW p, Reload(p) PROVE AuthCallsDropped
  BY <1>6 DEF Reload, setAuthFromStorage, loadState, AuthCallsDropped, OnWire
<1>7. CASE Logout
  BY <1>0, <1>7 DEF Logout, AuthCallsKept, OnWire, Send, Call, AuthKinds
<1>8. ASSUME NEW c \in wire,
             LogoutAnswered(c) \/ LogoutFailed(c) \/ SummaryAnswered(c) \/ SummaryFailed(c)
      PROVE  AuthCallsKept
  BY <1>8 DEF LogoutAnswered, LogoutFailed, SummaryAnswered, SummaryFailed, AuthCallsKept,
     OnWire, AuthKinds, Dashboards
<1>9. CASE Redirect \/ Navigate
  BY <1>9, GoToKeepsAuthCalls DEF Redirect, Navigate, AuthCallsKept, OnWire
<1>10. CASE SessionExpires
  BY <1>10 DEF SessionExpires, AuthCallsKept, OnWire
<1>11. ASSUME NEW d \in Dashboards, PollSummary(d) PROVE AuthCallsKept
  BY <1>11 DEF PollSummary, AuthCallsKept, OnWire, Send, Call, AuthKinds, Dashboards
<1>12. CASE UNCHANGED sessionVars
  BY <1>12 DEF sessionVars, AuthCallsKept, OnWire
<1> QED
  BY <1>2, <1>4, <1>5, <1>6, <1>7, <1>8, <1>9, <1>10, <1>11, <1>12
     DEF SessionNext, AuthAnswered

\* The calls of the forms stay calls of users.
LEMMA AuthCallsOfUsersPreserved ==
  SessionTypeInv /\ [SessionNext]_sessionVars => AuthCallsOfUsers'
<1> SUFFICES ASSUME SessionTypeInv, [SessionNext]_sessionVars PROVE AuthCallsOfUsers'
  OBVIOUS
<1>1. AuthCallsMove
  BY AuthCallsMoves DEF SessionTypeInv
<1> QED
  BY <1>1 DEF SessionTypeInv, AuthCallsMove, AuthCallSent, AuthCallEnded, AuthCallsDropped,
     AuthCallsKept, AuthCallsOfUsers, Call

\* A tab that is loaded for the first time is typed.
LEMMA SessionTypeInitially == SessionInit => SessionTypeInv
BY DEF SessionInit, SessionTypeInv, SessionTypeOK, AuthCallsOfUsers, OnWire, Owner, Pages

\* No action leads out of the types, in whatever order calls are answered.
LEMMA SessionTypePreserved ==
  SessionTypeInv /\ [SessionNext]_sessionVars => SessionTypeOK'
<1> SUFFICES ASSUME SessionTypeInv, [SessionNext]_sessionVars PROVE SessionTypeOK'
  OBVIOUS
<1> DEFINE Slice == [user : Owner, signedIn : BOOLEAN, loading : BOOLEAN]
           Calls == [kind : AuthKinds \cup {"logout"} \cup Dashboards, user : Owner]
<1> USE DEF SessionTypeInv, SessionTypeOK
<1>0. /\ auth \in Slice /\ persisted \in [user : Owner, signedIn : BOOLEAN]
      /\ \A a \in Slice : Persist(a) \in [user : Owner, signedIn : BOOLEAN]
      /\ Users \subseteq Owner /\ NoUser \in Owner
  BY DEF Persist, Owner
<1>1. ASSUME NEW u \in Users, SubmitLogin(u) PROVE SessionTypeOK'
  <2>1. wire' \subseteq Calls
    BY <1>1, SendTyped DEF SubmitLogin, Owner, AuthKinds
  <2>2. auth' \in Slice
    BY <1>1 DEF SubmitLogin
  <2> QED  BY <1>0, <1>1, <2>1, <2>2 DEF SubmitLogin
<1>2. ASSUME NEW u \in Users, SubmitRegister(u) PROVE SessionTypeOK'
  <2>1. wire' \subseteq Calls
    BY <1>2, SendTyped DEF SubmitRegister, Owner, AuthKinds
  <2>2. auth' \in Slice
    BY <1>2 DEF SubmitRegister
  <2> QED  BY <1>0, <1>2, <2>1, <2>2 DEF SubmitRegister
<1>3. ASSUME NEW c \in wire, NEW profile \in BOOLEAN, LoginFulfilled(c, profile)
      PROVE  SessionTypeOK'
  <2>1. c.user \in Users
    BY <1>3 DEF LoginFulfilled, OnWire, AuthKinds, AuthCallsOfUsers
  <2>2. auth' \in Slice
    BY <1>0, <1>3, <2>1 DEF LoginFulfilled
  <2>3. PICK p \in Pages : GoTo(p, wire \ {c})
    <3>1. HomeOf(c.user) \in Pages
      BY <2>1, HomesArePages DEF Pages
    <3> QED  BY <1>3, <3>1 DEF LoginFulfilled, Pages
  <2>4. page' \in Pages /\ wire' \subseteq wire /\ summary' \in [Dashboards -> Owner]
    BY <2>3, GoToTyped
  <2>5. cached' \in Owner /\ cookie' \in Owner /\ persisted' = Persist(auth') /\ disk' = disk
    BY <1>0, <1>3, <2>1 DEF LoginFulfilled, cacheUser
  <2> QED  BY <1>0, <2>2, <2>4, <2>5
<1>4. ASSUME NEW c \in wire, NEW profile \in BOOLEAN, NEW opened \in BOOLEAN,
             RegisterFulfilled(c, profile, opened)
      PROVE  SessionTypeOK'
  <2>1. c.user \in Users
    BY <1>4 DEF RegisterFulfilled, OnWire, AuthKinds, AuthCallsOfUsers
  <2>2. auth' \in Slice
    BY <1>0, <1>4, <2>1 DEF RegisterFulfilled
  <2>3. page' \in Pages /\ wire' \subseteq wire /\ summary' \in [Dashboards -> Owner]
    BY <1>4, GoToTyped DEF RegisterFulfilled, Pages
  <2>4. cached' \in Owner /\ cookie' \in Owner /\ persisted' = Persist(auth') /\ disk' = disk
    BY <1>0, <1>4, <2>1 DEF RegisterFulfilled, cacheUser
  <2> QED  BY <1>0, <2>2, <2>3, <2>4
<1>5. ASSUME NEW c \in wire, AuthRejected(c) PROVE SessionTypeOK'
  <2>1. auth' \in Slice
    BY <1>0, <1>5 DEF AuthRejected
  <2> QED  BY <1>0, <1>5, <2>1 DEF AuthRejected
<1>6. CASE Logout
  <2>1. wire' \subseteq Calls
    BY <1>6, SendTyped DEF Logout
  <2>2. auth' \in Slice
    BY <1>0, <1>6 DEF Logout
  <2> QED  BY <1>0, <1>6, <2>1, <2>2 DEF Logout, clearUserCache, Pages
<1>7. ASSUME NEW c \in wire, LogoutAnswered(c) \/ LogoutFailed(c) PROVE SessionTypeOK'
  BY <1>0, <1>7 DEF LogoutAnswered, LogoutFailed
<1>8. CASE Redirect
  <2>1. PICK p \in TargetsFrom(page) :
          GoTo(p, wire) /\ UNCHANGED <<auth, cached, persisted, cookie, disk>>
    BY <1>8 DEF Redirect
  <2>2. p \in Pages
    BY <1>0, <2>1, TargetsArePages
  <2>3. page' \in Pages /\ wire' \subseteq wire /\ summary' \in [Dashboards -> Owner]
    BY <2>1, <2>2, GoToTyped
  <2> QED  BY <2>1, <2>3
<1>9. CASE Navigate
  <2>1. PICK p \in Links :
          GoTo(p, wire) /\ UNCHANGED <<auth, cached, persisted, cookie, disk>>
    BY <1>9 DEF Navigate
  <2>2. p \in Pages
    BY <2>1 DEF Links, Pages, MemberPages
  <2>3. page' \in Pages /\ wire' \subseteq wire /\ summary' \in [Dashboards -> Owner]
    BY <2>1, <2>2, GoToTyped
  <2> QED  BY <2>1, <2>3
<1>10. ASSUME NEW p \in Pages, Reload(p) PROVE SessionTypeOK'
  <2>1. auth' \in Slice
    BY <1>0, <1>10 DEF Reload, setAuthFromStorage, loadState
  <2>2. cookie' \in Owner
    BY <1>0, <1>10 DEF Reload, OnWire
  <2>3. summary' \in [Dashboards -> Owner]
    BY <1>0, <1>10 DEF Reload
  <2> QED  BY <1>0, <1>10, <2>1, <2>2, <2>3 DEF Reload
<1>11. CASE SessionExpires
  BY <1>0, <1>11 DEF SessionExpires
<1>12. ASSUME NEW d \in Dashboards, PollSummary(d) PROVE SessionTypeOK'
  <2>1. wire' \subseteq Calls
    BY <1>12, SendTyped DEF PollSummary
  <2> QED  BY <1>0, <1>12, <2>1 DEF PollSummary, persist
<1>13. ASSUME NEW c \in wire, SummaryAnswered(c) \/ SummaryFailed(c) PROVE SessionTypeOK'
  <2>1. c.user \in Owner /\ c.kind \in Dashboards
    BY <1>13 DEF SummaryAnswered, SummaryFailed, OnWire
  <2>2. summary' \in [Dashboards -> Owner] /\ disk' \in Owner
    BY <1>0, <1>13, <2>1 DEF SummaryAnswered, SummaryFailed, persist
  <2> QED  BY <1>0, <1>13, <2>2 DEF SummaryAnswered, SummaryFailed
<1>14. CASE UNCHANGED sessionVars
  BY <1>14 DEF sessionVars
<1> QED
  BY <1>1, <1>2, <1>3, <1>4, <1>5, <1>6, <1>7, <1>8, <1>9, <1>10, <1>11, <1>12, <1>13, <1>14,
     TypedAssumption DEF SessionNext, AuthAnswered, LoginAnswered, RegisterAnswered

\* Every reachable state of the tab is typed, and only users sign in.
THEOREM SessionTypeCorrect == SessionSpec => []SessionTypeInv
<1>1. SessionTypeInv /\ [SessionNext]_sessionVars => SessionTypeInv'
  BY SessionTypePreserved, AuthCallsOfUsersPreserved DEF SessionTypeInv
<1> QED  BY SessionTypeInitially, <1>1, PTL DEF SessionSpec

(* ---------------------------- the three copies ---------------------------- *)

\* A step that leaves the slice's profile and its flag alone, and the copies.
LEMMA CopiesKept ==
  ASSUME CopiesAgree, UNCHANGED <<cached, persisted>>,
         auth'.user = auth.user, auth'.signedIn = auth.signedIn
  PROVE  CopiesAgree'
BY DEF CopiesAgree, Persist

\* Every action that writes one of the copies writes the others with it.
LEMMA CopiesPreserved ==
  SessionTypeInv /\ CopiesAgree /\ [SessionNext]_sessionVars => CopiesAgree'
<1> SUFFICES ASSUME SessionTypeInv, CopiesAgree, [SessionNext]_sessionVars PROVE CopiesAgree'
  OBVIOUS
<1>0. auth \in [user : Owner, signedIn : BOOLEAN, loading : BOOLEAN]
  BY DEF SessionTypeInv, SessionTypeOK
<1>1. ASSUME NEW u \in Users, SubmitLogin(u) \/ SubmitRegister(u) PROVE CopiesAgree'
  BY <1>0, <1>1 DEF SubmitLogin, SubmitRegister, CopiesAgree, Persist
<1>2. ASSUME NEW c \in OnWire(AuthKinds), NEW profile \in BOOLEAN,
             auth' = [user |-> IF profile THEN c.user ELSE auth.user,
                      signedIn |-> profile, loading |-> FALSE],
             IF profile THEN cacheUser(c.user) ELSE UNCHANGED cached,
             persisted' = Persist(auth')
      PROVE  CopiesAgree'
  <2>1. c.user \in Users
    BY DEF SessionTypeInv, AuthCallsOfUsers
  <2> QED  BY <1>2, <2>1 DEF CopiesAgree, Persist, cacheUser
<1>3. ASSUME NEW c \in wire, NEW profile \in BOOLEAN, LoginFulfilled(c, profile)
      PROVE  CopiesAgree'
  BY <1>2, <1>3 DEF LoginFulfilled, OnWire, AuthKinds
<1>4. ASSUME NEW c \in wire, NEW profile \in BOOLEAN, NEW opened \in BOOLEAN,
             RegisterFulfilled(c, profile, opened)
      PROVE  CopiesAgree'
  BY <1>2, <1>4 DEF RegisterFulfilled, OnWire, AuthKinds
<1>5. ASSUME NEW c \in wire, AuthRejected(c) PROVE CopiesAgree'
  BY <1>0, <1>5 DEF AuthRejected, CopiesAgree, Persist
<1>6. CASE Logout
  BY <1>0, <1>6 DEF Logout, clearUserCache, CopiesAgree, Persist
<1>7. ASSUME NEW p, Reload(p) PROVE CopiesAgree'
  <2>1. CASE cached # NoUser
    BY <1>7, <2>1 DEF Reload, setAuthFromStorage, CopiesAgree, Persist
  <2>2. CASE cached = NoUser
    BY <1>7, <2>2 DEF Reload, loadState, CopiesAgree, Persist
  <2> QED  BY <2>1, <2>2
<1>8. ASSUME UNCHANGED <<auth, cached, persisted>> PROVE CopiesAgree'
  BY <1>8, CopiesKept
<1> QED
  BY <1>1, <1>3, <1>4, <1>5, <1>6, <1>7, <1>8
     DEF SessionNext, AuthAnswered, LoginAnswered, RegisterAnswered, LogoutAnswered,
         LogoutFailed, Redirect, Navigate, SessionExpires, PollSummary, SummaryAnswered,
         SummaryFailed, sessionVars

\* However calls, pages and reloads interleave, the slice, the cached profile
\* and the persisted state name one person, and nobody is signed in unnamed.
THEOREM OnePersonInAllCopies == SessionSpec => []CopiesAgree
<1>1. SessionInit => SessionTypeInv /\ CopiesAgree
  BY SessionTypeInitially DEF SessionInit, CopiesAgree, Persist
<1>2. SessionTypeInv /\ CopiesAgree /\ [SessionNext]_sessionVars => (SessionTypeInv /\ CopiesAgree)'
  BY SessionTypePreserved, AuthCallsOfUsersPreserved, CopiesPreserved DEF SessionTypeInv
<1> QED  BY <1>1, <1>2, PTL DEF SessionSpec

(* ------------------------------- the flag ------------------------------- *)

\* A sent call puts the flag up and is alone; an ended one puts it down.
LEMMA FlagPreserved ==
  SessionTypeInv /\ FlagOfOneCall /\ [SessionNext]_sessionVars => FlagOfOneCall'
<1> SUFFICES ASSUME SessionTypeInv, FlagOfOneCall, [SessionNext]_sessionVars PROVE FlagOfOneCall'
  OBVIOUS
<1>1. AuthCallsMove
  BY AuthCallsMoves DEF SessionTypeInv
<1>2. CASE AuthCallSent
  BY <1>2 DEF AuthCallSent, FlagOfOneCall
<1>3. CASE AuthCallEnded
  <2>1. PICK c \in OnWire(AuthKinds) : OnWire(AuthKinds)' = OnWire(AuthKinds) \ {c}
    BY <1>3 DEF AuthCallEnded
  <2>2. PICK d : OnWire(AuthKinds) = {d}
    BY <2>1 DEF FlagOfOneCall
  <2>3. OnWire(AuthKinds)' = {}
    BY <2>1, <2>2
  <2> QED  BY <1>3, <2>3 DEF AuthCallEnded, FlagOfOneCall
<1>4. CASE AuthCallsDropped
  BY <1>4 DEF AuthCallsDropped, FlagOfOneCall
<1>5. CASE AuthCallsKept
  BY <1>5 DEF AuthCallsKept, FlagOfOneCall
<1> QED  BY <1>1, <1>2, <1>3, <1>4, <1>5 DEF AuthCallsMove

\* Two forms share one flag: it is up exactly while one of their calls, and no
\* more than one, is on the wire.
THEOREM FlagAdmitsOneCall == SessionSpec => []OneAuthCall
<1>1. SessionInit => SessionTypeInv /\ FlagOfOneCall
  BY SessionTypeInitially DEF SessionInit, FlagOfOneCall, OnWire
<1>2. SessionTypeInv /\ FlagOfOneCall /\ [SessionNext]_sessionVars => (SessionTypeInv /\ FlagOfOneCall)'
  BY SessionTypePreserved, AuthCallsOfUsersPreserved, FlagPreserved DEF SessionTypeInv
<1>3. FlagOfOneCall => OneAuthCall
  <2>1. \A c : Cardinality({c}) = 1
    BY FS_Singleton
  <2>2. Cardinality({}) = 0
    BY FS_EmptySet
  <2> QED  BY <2>1, <2>2 DEF FlagOfOneCall, OneAuthCall
<1> QED  BY <1>1, <1>2, <1>3, PTL DEF SessionSpec

(* ------------------------------ the guards ------------------------------ *)

\* Only a visitor who is not signed in is sent to the login; nobody is sent on
\* from a home that is his own.
LEMMA SettleInThree ==
  SessionTypeInv /\ CopiesAgree => RedirectsSettle
<1> SUFFICES ASSUME SessionTypeInv, CopiesAgree,
                    NEW p \in Pages, NEW q \in TargetsFrom(p), NEW r \in TargetsFrom(q)
             PROVE  TargetsFrom(r) = {}
  BY DEF RedirectsSettle
<1> USE DEF TargetsFrom, LoginTargets, RegisterTargets, IndexTargets, AdminTargets,
        ManagerTargets, DealerTargets, SalonTargets, MemberTargets
<1>1. CASE auth.user = NoUser
  BY <1>1 DEF CopiesAgree
<1>2. CASE auth.user # NoUser
  <2>1. /\ auth.user \in Users /\ HomeOf(auth.user) \in HomePages
        /\ RoleOf[auth.user] = "super_admin" <=> HomeOf(auth.user) = "/admin"
    <3>1. auth.user \in Users
      BY <1>2 DEF SessionTypeInv, SessionTypeOK, Owner
    <3>2. RoleOf[auth.user] \in Roles
      BY <3>1
    <3> QED  BY <3>1, <3>2, HomesArePages DEF HomeOf, HomePage, Roles
  <2>2. auth.signedIn \in BOOLEAN
    BY DEF SessionTypeInv, SessionTypeOK
  <2> DEFINE home == HomeOf(auth.user)
  <2>3. TargetsFrom(home) = IF auth.signedIn THEN {} ELSE {"/login"}
    BY <1>2, <2>1 DEF HomePages
  <2>4. CASE ~auth.signedIn
    <3>1. TargetsFrom("/login") = {}
      BY <2>4
    <3>2. q = "/login" \/ q = home
      BY <1>2, <2>1, <2>4 DEF HomePages
    <3> QED  BY <2>3, <2>4, <3>1, <3>2
  <2>5. CASE auth.signedIn
    <3>1. q = home \/ q = "/"
      BY <1>2, <2>1, <2>5 DEF HomePages
    <3>2. \A t \in TargetsFrom("/") : t = home
      BY <1>2, <2>1, <2>5
    <3> QED  BY <2>3, <2>5, <3>1, <3>2
  <2> QED  BY <2>2, <2>4, <2>5
<1> QED  BY <1>1, <1>2

\* Whoever the users are and whatever their roles, no visitor is sent round in
\* a circle by the guards of the pages.
THEOREM GuardsSettle == SessionSpec => []RedirectsSettle
<1>1. SessionInit => SessionTypeInv /\ CopiesAgree
  BY SessionTypeInitially DEF SessionInit, CopiesAgree, Persist
<1>2. SessionTypeInv /\ CopiesAgree /\ [SessionNext]_sessionVars => (SessionTypeInv /\ CopiesAgree)'
  BY SessionTypePreserved, AuthCallsOfUsersPreserved, CopiesPreserved DEF SessionTypeInv
<1> QED  BY <1>1, <1>2, SettleInThree, PTL DEF SessionSpec
=============================================================================
