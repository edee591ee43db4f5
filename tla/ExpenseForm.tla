---------------------------- MODULE ExpenseForm ----------------------------
(***************************************************************************)
(* A dealer's monthly expenses: one form for all months, filled from the   *)
(* server when a month is selected, from the month before, or from a file, *)
(* and saved under the month selected.                                     *)
(*                                                                         *)
(* Figures are represented by the month they were meant for: the month on  *)
(* the screen when they were typed, copied, or given as a file. Handlers   *)
(* keep the month of the render they were made in, and the form survives   *)
(* all of them.                                                            *)
(***************************************************************************)
EXTENDS Naturals, FiniteSets

CONSTANTS
  LastMonth,  \* months are 1..LastMonth
  MaxFetches  \* bound: loads on the wire

ASSUME LastMonthAssumption == LastMonth \in Nat \ {0}
ASSUME MaxFetchesAssumption == MaxFetches \in Nat \ {0}

Months == 1..LastMonth
NoMonth == 0

VARIABLES
  selectedMonth,  \* the month on the screen
  formData,       \* the month the form's figures were meant for; NoMonth: initial values
  unsaved,        \* whether they were put there since the form was last filled or saved
  hasChanges,     \* whether the save button is enabled
  initialData,    \* whether a record is known for the month
  prevMonthData,  \* whose record is offered as the month before's
  formLoading,    \* a spinner stands in the form's place
  fetchExpenses,  \* loads on the wire: of which month, and which record is asked for
  handleSave,     \* the save on the wire, if any: its month and its figures
  handleImport,   \* the import on the wire, if any: the month its file is of
  expenses,       \* the server's records
  crossed         \* whether the month was changed during a save or an import

expenseVars == <<selectedMonth, formData, unsaved, hasChanges, initialData, prevMonthData,
                 formLoading, fetchExpenses, handleSave, handleImport, expenses, crossed>>

formVars == <<formData, unsaved, hasChanges, initialData, prevMonthData>>

NoSave == [month |-> NoMonth, data |-> NoMonth]

\* The form is drawn, and can be used.
FormDrawn == ~formLoading

\* A load for the month m: its record first, then the one of the month before.
FetchFor(m) ==
  \E n \in 1..MaxFetches :
    /\ \A f \in fetchExpenses : f.n # n
    /\ fetchExpenses' = fetchExpenses \cup {[n |-> n, month |-> m, asks |-> "month"]}
    /\ formLoading' = TRUE

ExpensesInit ==
  /\ selectedMonth \in Months
  /\ formData = NoMonth /\ unsaved = FALSE /\ hasChanges = FALSE
  /\ initialData = FALSE /\ prevMonthData = NoMonth
  /\ formLoading = TRUE
  /\ fetchExpenses = {[n |-> 1, month |-> selectedMonth, asks |-> "month"]}
  /\ handleSave = NoSave /\ handleImport = NoMonth
  /\ expenses = [m \in Months |-> NoMonth]
  /\ crossed = FALSE

(* ------------------------------- the month ------------------------------- *)

\* The month's control is part of the form; the effect loads.
SelectMonth(m) ==
  /\ FormDrawn /\ m # selectedMonth
  /\ selectedMonth' = m
  /\ FetchFor(m)
  /\ crossed' = (crossed \/ handleSave # NoSave \/ handleImport # NoMonth)
  /\ UNCHANGED <<formVars, handleSave, handleImport, expenses>>

\* The record of a load's month fills the form, whatever month is selected.
RecordFetched(f) ==
  /\ f.asks = "month" /\ expenses[f.month] # NoMonth
  /\ initialData' = TRUE
  /\ formData' = expenses[f.month] /\ unsaved' = FALSE
  /\ fetchExpenses' = fetchExpenses \ {f} /\ formLoading' = FALSE
  /\ UNCHANGED <<selectedMonth, hasChanges, prevMonthData, handleSave, handleImport, expenses,
                 crossed>>

\* The mutated form: the figures of another month stay in the form.
NothingFetchedKeepsForm(f) ==
  /\ f.asks = "month"
  /\ initialData' = FALSE
  /\ fetchExpenses' = (fetchExpenses \ {f}) \cup {[f EXCEPT !.asks = "before"]}
  /\ UNCHANGED <<selectedMonth, formData, unsaved, hasChanges, prevMonthData, formLoading,
                 handleSave, handleImport, expenses, crossed>>

\* No record, or no answer: the form is reset and the month before asked for.
NothingFetched(f) ==
  /\ f.asks = "month"
  /\ initialData' = FALSE
  /\ formData' = NoMonth /\ unsaved' = FALSE
  /\ fetchExpenses' = (fetchExpenses \ {f}) \cup {[f EXCEPT !.asks = "before"]}
  /\ UNCHANGED <<selectedMonth, hasChanges, prevMonthData, formLoading, handleSave, handleImport,
                 expenses, crossed>>

\* The month before's record is kept; without one, the last that was kept.
BeforeFetched(f) ==
  /\ f.asks = "before"
  /\ prevMonthData' \in {prevMonthData}
       \cup (IF f.month > 1 /\ expenses[f.month - 1] # NoMonth THEN {f.month - 1} ELSE {})
  /\ fetchExpenses' = fetchExpenses \ {f} /\ formLoading' = FALSE
  /\ UNCHANGED <<selectedMonth, formData, unsaved, hasChanges, initialData, handleSave,
                 handleImport, expenses, crossed>>

(* -------------------------------- the form -------------------------------- *)

\* handleValuesChange, or handleCopyFromPrevMonth: figures for the month on the
\* screen, in whatever is still there.
handleValuesChange ==
  /\ FormDrawn
  /\ formData' = IF formData = NoMonth THEN selectedMonth ELSE formData
  /\ unsaved' = TRUE /\ hasChanges' = TRUE
  /\ UNCHANGED <<selectedMonth, initialData, prevMonthData, formLoading, fetchExpenses,
                 handleSave, handleImport, expenses, crossed>>

handleCopyFromPrevMonth ==
  /\ FormDrawn /\ prevMonthData # NoMonth
  /\ formData' = selectedMonth
  /\ unsaved' = TRUE /\ hasChanges' = TRUE
  /\ UNCHANGED <<selectedMonth, initialData, prevMonthData, formLoading, fetchExpenses,
                 handleSave, handleImport, expenses, crossed>>

ClearForm ==
  /\ FormDrawn
  /\ formData' = NoMonth /\ unsaved' = FALSE /\ hasChanges' = FALSE
  /\ UNCHANGED <<selectedMonth, initialData, prevMonthData, formLoading, fetchExpenses,
                 handleSave, handleImport, expenses, crossed>>

(* -------------------------------- saving -------------------------------- *)

SubmitExpenses ==
  /\ FormDrawn /\ hasChanges /\ handleSave = NoSave
  /\ handleSave' = [month |-> selectedMonth,
                    data |-> IF formData = NoMonth THEN selectedMonth ELSE formData]
  /\ UNCHANGED <<selectedMonth, formVars, formLoading, fetchExpenses, handleImport, expenses,
                 crossed>>

\* The save is done and answered: the month it was of is loaded again.
SaveSucceeds ==
  /\ handleSave # NoSave
  /\ expenses' = [expenses EXCEPT ![handleSave.month] = handleSave.data]
  /\ handleSave' = NoSave
  /\ initialData' = TRUE /\ hasChanges' = FALSE
  /\ FetchFor(handleSave.month)
  /\ UNCHANGED <<selectedMonth, formData, unsaved, prevMonthData, handleImport, crossed>>

\* The save fails, or is done and its answer lost: a message.
SaveFails ==
  /\ handleSave # NoSave
  /\ expenses' \in {expenses, [expenses EXCEPT ![handleSave.month] = handleSave.data]}
  /\ handleSave' = NoSave
  /\ UNCHANGED <<selectedMonth, formVars, formLoading, fetchExpenses, handleImport, crossed>>

(* ------------------------------- the import ------------------------------- *)

BeginImport ==
  /\ FormDrawn /\ handleImport = NoMonth
  /\ handleImport' = selectedMonth
  /\ UNCHANGED <<selectedMonth, formVars, formLoading, fetchExpenses, handleSave, expenses,
                 crossed>>

\* The file's figures go into the form, whatever month is selected by now.
ImportSucceeds ==
  /\ handleImport # NoMonth
  /\ formData' = handleImport
  /\ unsaved' = TRUE /\ hasChanges' = TRUE
  /\ handleImport' = NoMonth
  /\ UNCHANGED <<selectedMonth, initialData, prevMonthData, formLoading, fetchExpenses,
                 handleSave, expenses, crossed>>

ImportFails ==
  /\ handleImport # NoMonth
  /\ handleImport' = NoMonth
  /\ UNCHANGED <<selectedMonth, formVars, formLoading, fetchExpenses, handleSave, expenses,
                 crossed>>

ExpensesNext ==
  \/ \E m \in Months : SelectMonth(m)
  \/ \E f \in fetchExpenses : RecordFetched(f) \/ NothingFetched(f) \/ BeforeFetched(f)
  \/ handleValuesChange \/ handleCopyFromPrevMonth \/ ClearForm
  \/ SubmitExpenses \/ SaveSucceeds \/ SaveFails
  \/ BeginImport \/ ImportSucceeds \/ ImportFails

ExpensesSpec == ExpensesInit /\ [][ExpensesNext]_expenseVars

(* ------------------------------ properties ------------------------------ *)

\* Every variable has its type.
ExpensesTypeOK ==
  /\ selectedMonth \in Months
  /\ {formData, prevMonthData, handleImport} \subseteq Months \cup {NoMonth}
  /\ {unsaved, hasChanges, initialData, formLoading, crossed} \subseteq BOOLEAN
  /\ fetchExpenses \subseteq [n : 1..MaxFetches, month : Months, asks : {"month", "before"}]
  /\ handleSave \in [month : Months \cup {NoMonth}, data : Months \cup {NoMonth}]
  /\ expenses \in [Months -> Months \cup {NoMonth}]

\* No month's figures are saved as another's, unless the month was once changed
\* while a save or an import was on the wire: the answer of either then puts
\* its own month's figures under the new one.
FiguresOfTheirMonth ==
  ~crossed => \A m \in Months : expenses[m] \in {m, NoMonth}

\* What the user put into the form can be saved: the button is not disabled
\* over figures nobody has saved, also when they were typed during a save. A
\* change of the month during a save or an import is again the exception.
UnsavedIsSavable == ~crossed /\ FormDrawn /\ unsaved => hasChanges

\* What the form holds is of the month on the screen, and can be saved as such.
FormKeepsItsMonth == FiguresOfTheirMonth /\ UnsavedIsSavable
=============================================================================
