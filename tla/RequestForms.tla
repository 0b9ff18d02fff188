---------------------------- MODULE RequestForms ----------------------------
(***************************************************************************)
(* The forms of the request engine: the fields administrators define for a *)
(* request type, the values a requester submits, and the rules of leave    *)
(* requests, at submission and when the details are shown later.           *)
(*                                                                         *)
(* One request type.  A JSON value is what the normalisation tells apart:  *)
(* a blank string, a date, a date with a time, a leave option (any of its  *)
(* spellings), another string, a number, a boolean.                        *)
(***************************************************************************)
EXTENDS Sessions, Functions

CONSTANTS
  FieldIds,      \* rows of request_type_fields
  LastDate,      \* bound on the dates
  MaxBalance,    \* bound on employees.available_leave_balance_days
  FormModes      \* operations of a run, whether they overlap, the form it starts with

ASSUME BoundsAreNat == LastDate \in Nat /\ MaxBalance \in Nat

StartCode == "date_start"
EndCode == "date_end"
OptionCode == "leave_option"
LeaveCodes == {StartCode, EndCode, OptionCode}
FieldCodes == LeaveCodes \cup {"other"}

TextTypes == {"text", "textarea", "select"}
FieldTypes == TextTypes \cup {"number", "boolean", "date", "datetime"}

LeaveOptions == {"paid_leave", "unpaid_leave", "ctt"}
Values ==
  [kind: {"blank", "word", "number", "flag"}]
    \cup [kind: {"day", "moment"}, day: 0..LastDate]
    \cup [kind: {"option"}, option: LeaveOptions]

FieldRow == [code: FieldCodes, type: FieldTypes, required: BOOLEAN,
             default: Maybe(Values), active: BOOLEAN]

FormOps == {"define", "submit", "rename", "balance"}
ASSUME FormModesAreTyped ==
  FormModes \subseteq [serial: BOOLEAN, ops: SUBSET FormOps, leave: BOOLEAN,
                       form: [FieldIds -> Maybe(FieldRow)], edited: SUBSET FieldIds,
                       columns: SUBSET {"code", "type", "required", "active"},
                       types: SUBSET FieldTypes, answers: SUBSET Maybe(Values)]

VARIABLES
  formMode,      \* one of FormModes, fixed at the start
  isLeave,       \* whether the type's code is "leave"
  fieldRow,      \* the field definitions
  balance,       \* the requester's leave balance
  submission,    \* the last accepted request, or None
  formSession    \* the field update a worker is about to commit, or None

formVars == <<formMode, isLeave, fieldRow, balance, submission, formSession>>

-----------------------------------------------------------------------------
(* _normalize_value_for_type                                               *)

Refused == [kind |-> "refused"]
Details == [days: Nat, option: LeaveOptions]
ASSUME NoneIsNoForm == None \notin Values \cup FieldRow \cup {Refused} \cup Details

Strings == {"blank", "word", "day", "moment", "option"}
Accepted(type) ==
  CASE type \in TextTypes -> Strings
    [] type = "number" -> {"number"}
    [] type = "boolean" -> {"flag"}
    [] type = "date" -> {"day"}
    [] type = "datetime" -> {"day", "moment"}

Stored(type, v) == IF type = "datetime" THEN [v EXCEPT !.kind = "moment"] ELSE v

(* Mutant: a blank answer passes although the field is required.           *)
NormalBlankAllowed(type, v, required) ==
  CASE v = None -> IF required THEN Refused ELSE None
    [] v # None /\ v.kind \notin Accepted(type) -> Refused
    [] v # None /\ v.kind \in Accepted(type) ->
         IF v.kind = "blank" THEN None ELSE Stored(type, v)

(* None and blank text need a field that is not required; what is stored   *)
(* of a date without a time in a datetime field is midnight.               *)
Normal(type, v, required) ==
  CASE v = None -> IF required THEN Refused ELSE None
    [] v # None /\ v.kind \notin Accepted(type) -> Refused
    [] v # None /\ v.kind \in Accepted(type) ->
         IF v.kind # "blank" THEN Stored(type, v)
         ELSE IF required THEN Refused ELSE None

(* Where a run starts: every code is used once and defaults are stored as  *)
(* create_request_field and update_request_field normalise them.           *)
ASSUME FormsAreStored ==
  \A mode \in FormModes : \A f, g \in FieldIds :
    LET row == mode.form[f] IN row # None =>
      /\ Normal(row.type, row.default, FALSE) = row.default
      /\ mode.form[g] # None /\ mode.form[g].code = row.code => f = g

-----------------------------------------------------------------------------
(* Leave rules: leave_business                                             *)

(* validate_leave_field_definition                                         *)
LeaveTypeAllowed(code, type) ==
  CASE code \in {StartCode, EndCode} -> type = "date"
    [] code = OptionCode -> type \in {"select", "text"}
    [] OTHER -> TRUE

ActiveFields == {f \in FieldIds : IF fieldRow[f] = None THEN FALSE ELSE fieldRow[f].active}

(* validate_leave_request_type_fields                                      *)
LeaveFieldsComplete ==
  /\ LeaveCodes \subseteq {fieldRow[f].code : f \in ActiveFields}
  /\ \A f \in ActiveFields : LeaveTypeAllowed(fieldRow[f].code, fieldRow[f].type)

(* _require_leave_value, _coerce_date, _resolve_leave_option               *)
Readable(values, code, kind) ==
  code \in DOMAIN values /\ values[code] # None /\ values[code].kind = kind

(* Mutant: the last day is not counted.                                    *)
DurationExclusive(start, end) == end - start

(* calculate_leave_duration_days: both ends count.                         *)
Duration(start, end) == end - start + 1

(* evaluate_leave_request                                                  *)
LeaveDays(values) == Duration(values[StartCode].day, values[EndCode].day)

LeaveEvaluates(values, available, enforce) ==
  /\ Readable(values, StartCode, "day") /\ Readable(values, EndCode, "day")
  /\ Readable(values, OptionCode, "option")
  /\ values[StartCode].day <= values[EndCode].day
  /\ enforce /\ values[OptionCode].option = "paid_leave" => LeaveDays(values) <= available

-----------------------------------------------------------------------------
(* Field definitions: create_request_field, update_request_field           *)

CodeTaken(code, f) == \E g \in FieldIds \ {f} : fieldRow[g] # None /\ fieldRow[g].code = code

Definition(code, type, required, default, active) ==
  [code |-> code, type |-> type, required |-> required, default |-> default, active |-> active]

(* A definition is refused, or stored with the default normalised.         *)
Defined(row, loaded) ==
  IF isLeave /\ ~LeaveTypeAllowed(row.code, row.type) THEN Refused
  ELSE IF Normal(row.type, row.default, FALSE) = Refused THEN Refused
  ELSE [row EXCEPT !.default = Normal(row.type, row.default, FALSE)]

CreateRequestField(w) ==
  \E f \in formMode.edited, code \in FieldCodes, type \in formMode.types, required \in BOOLEAN,
     default \in formMode.answers :
    LET new == Defined(Definition(code, type, required, default, TRUE), None) IN
    /\ MayServe(formSession, w, formMode.serial)
    /\ fieldRow[f] = None /\ ~CodeTaken(code, f) /\ new # Refused
    /\ fieldRow' = [fieldRow EXCEPT ![f] = new]
    /\ UNCHANGED <<formMode, isLeave, balance, submission, formSession>>

(* The rows a payload asks for: any columns but those the mode leaves      *)
(* alone; the default may always be sent.                                  *)
Edits(row) ==
  LET Choice(column, S) == {row[column]} \cup (IF column \in formMode.columns THEN S ELSE {})
  IN  {Definition(code, type, required, default, active) :
         code \in Choice("code", FieldCodes), type \in Choice("type", formMode.types),
         required \in Choice("required", BOOLEAN), active \in Choice("active", BOOLEAN),
         default \in {row.default} \cup formMode.answers}

LoadFieldUpdate(w) ==
  \E f \in formMode.edited : fieldRow[f] # None /\
    \E row \in Edits(fieldRow[f]) :
      LET new == Defined(row, fieldRow[f]) IN
      /\ MayServe(formSession, w, formMode.serial)
      /\ new # Refused /\ ~CodeTaken(row.code, f)
      /\ formSession' = [formSession EXCEPT ![w] = [field |-> f, loaded |-> fieldRow[f], new |-> new]]
      /\ UNCHANGED <<formMode, isLeave, fieldRow, balance, submission>>

(* The unique constraint refuses a code taken meanwhile.                   *)
CommitFieldUpdate(w) ==
  LET x == formSession[w] IN
  /\ x # None
  /\ fieldRow' = IF x.new.code # x.loaded.code /\ CodeTaken(x.new.code, x.field) THEN fieldRow
                 ELSE [fieldRow EXCEPT ![x.field] = Flushed(@, x.loaded, x.new)]
  /\ formSession' = [formSession EXCEPT ![w] = None]
  /\ UNCHANGED <<formMode, isLeave, balance, submission>>

-----------------------------------------------------------------------------
(* Submission: create_request                                              *)

(* _normalize_submitted_values: an answer, or the default of its field.    *)
AnswerFor(answers, row) == IF row.code \in DOMAIN answers THEN answers[row.code] ELSE row.default
Normalized(answers, row) == Normal(row.type, AnswerFor(answers, row), row.required)

(* An unknown code, or an answer its field refuses.                        *)
RefusesForm(answers) ==
  \/ DOMAIN answers \ {fieldRow[f].code : f \in ActiveFields} # {}
  \/ \E f \in ActiveFields : Normalized(answers, fieldRow[f]) = Refused

(* _persist_request_values: what was answered or has a default.            *)
Persisted(answers) ==
  LET kept == {f \in ActiveFields : \/ fieldRow[f].code \in DOMAIN answers
                                    \/ fieldRow[f].default # None}
  IN  [code \in {fieldRow[f].code : f \in kept} |->
         Normalized(answers, CHOOSE row \in Range(fieldRow) :
                               row # None /\ row.active /\ row.code = code)]

Answers == UNION {[codes -> formMode.answers] : codes \in SUBSET FieldCodes}

(* _validate_request_type_business_configuration, ..._business_rules       *)
LeaveRule(values) == isLeave => LeaveEvaluates(values, balance, TRUE)

SubmitForm(w) ==
  \E answers \in Answers :
    /\ MayServe(formSession, w, formMode.serial)
    /\ isLeave => LeaveFieldsComplete
    /\ ~RefusesForm(answers)
    /\ LeaveRule(Persisted(answers))
    /\ submission' = [leave |-> isLeave, values |-> Persisted(answers), balance |-> balance,
                      fields |-> {fieldRow[f] : f \in ActiveFields}]
    /\ UNCHANGED <<formMode, isLeave, fieldRow, balance, formSession>>

(* update_request_type may give the type another code.                     *)
RenameType ==
  /\ isLeave' = ~isLeave
  /\ UNCHANGED <<formMode, fieldRow, balance, submission, formSession>>

(* update_employee: the balance is only set by hand.                       *)
SetBalance ==
  /\ \E b \in 0..MaxBalance : balance' = b
  /\ UNCHANGED <<formMode, isLeave, fieldRow, submission, formSession>>

(* _build_leave_request_details                                            *)
LeaveDetails(values) ==
  IF isLeave /\ LeaveEvaluates(values, balance, FALSE)
  THEN [days |-> LeaveDays(values), option |-> values[OptionCode].option] ELSE None

-----------------------------------------------------------------------------
FormInit ==
  /\ formMode \in FormModes
  /\ isLeave = formMode.leave
  /\ fieldRow = formMode.form
  /\ balance = MaxBalance
  /\ submission = None
  /\ formSession = [w \in Workers |-> None]

FormNext ==
  \/ \E w \in Workers :
       \/ "define" \in formMode.ops /\ (CreateRequestField(w) \/ LoadFieldUpdate(w))
       \/ CommitFieldUpdate(w)
       \/ "submit" \in formMode.ops /\ SubmitForm(w)
  \/ "rename" \in formMode.ops /\ RenameType
  \/ "balance" \in formMode.ops /\ SetBalance

FormSpec == FormInit /\ [][FormNext]_formVars

-----------------------------------------------------------------------------
FormTypeOK ==
  /\ formMode \in FormModes
  /\ isLeave \in BOOLEAN
  /\ fieldRow \in [FieldIds -> Maybe(FieldRow)]
  /\ balance \in 0..MaxBalance
  /\ submission # None =>
       /\ submission.fields \subseteq FieldRow
       /\ \A code \in DOMAIN submission.values : submission.values[code] \in Maybe(Values)

(* Updates are typed and of rows that exist; without overlap they replace  *)
(* the row they loaded.                                                    *)
UpdatesFit ==
  \A w \in Workers : LET x == formSession[w] IN x # None =>
    /\ x.field \in FieldIds /\ x.loaded \in FieldRow /\ x.new \in FieldRow
    /\ fieldRow[x.field] # None
    /\ formMode.serial => /\ x.loaded = fieldRow[x.field]
                          /\ Normal(x.new.type, x.new.default, FALSE) = x.new.default

(* No two fields get one code, by whichever overlapping edits (the unique  *)
(* constraint of request_type_fields).                                     *)
CodesUnique ==
  \A f \in FieldIds : fieldRow[f] # None => ~CodeTaken(fieldRow[f].code, f)

(* A default stays usable through any sequence of edits of its field, as   *)
(* long as they do not overlap: leaving an optional field out never makes  *)
(* a submission fail (update_request_field checks the stored default       *)
(* against the final type).                                                *)
DefaultsFit ==
  formMode.serial =>
    \A f \in FieldIds : fieldRow[f] # None =>
      Normal(fieldRow[f].type, fieldRow[f].default, FALSE) = fieldRow[f].default

(* Whatever the form was edited to, an accepted request answers every      *)
(* required field, and each stored value is one its field's type can hold  *)
(* (_normalize_submitted_values).                                          *)
AnsweredAsDefined ==
  submission # None =>
    /\ DOMAIN submission.values \subseteq {row.code : row \in submission.fields}
    /\ \A row \in submission.fields :
         IF row.code \notin DOMAIN submission.values THEN ~row.required
         ELSE LET v == submission.values[row.code] IN
              IF v = None THEN ~row.required ELSE v.kind \in Accepted(row.type) \ {"blank"}

(* Forms and what is submitted with them fit each other.                   *)
FormInv ==
  /\ FormTypeOK
  /\ UpdatesFit
  /\ CodesUnique
  /\ DefaultsFit
  /\ AnsweredAsDefined

(* An accepted leave request has its days in order, and paid leave is not  *)
(* longer than the balance it was checked against, however fields were     *)
(* edited, also by overlapping edits that leave a reserved field with a    *)
(* wrong type (evaluate_leave_request).                                    *)
LeaveFitsBalance ==
  submission # None /\ (IF submission = None THEN FALSE ELSE submission.leave) =>
    LET days == {d \in 0..LastDate : /\ submission.values[StartCode].day <= d
                                     /\ d <= submission.values[EndCode].day}
    IN  /\ days # {}
        /\ submission.values[OptionCode].option = "paid_leave"
             => Cardinality(days) <= submission.balance

(* The details of an accepted leave request are shown as long as its type  *)
(* is a leave type, whatever happens to the balance and the fields after   *)
(* the submission (_build_leave_request_details).                          *)
LeaveDetailsShown ==
  submission # None /\ isLeave /\ (IF submission = None THEN FALSE ELSE submission.leave) =>
    LeaveDetails(submission.values) # None

(* An accepted leave request was measured right and stays readable.        *)
LeaveInv ==
  /\ LeaveFitsBalance
  /\ LeaveDetailsShown

=============================================================================
