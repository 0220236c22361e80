---------------------------- MODULE AmountFields ----------------------------
(***************************************************************************)
(* The amounts of a form (EditableRow, AutoSelectInput) and the decimals   *)
(* they are read from and written to (Decimal).  One field of a form at a  *)
(* time is an input, the others show their amount as text.  The input      *)
(* takes its text from the amount once, when it opens; after that it is    *)
(* the typed text that sets the amount, if it is a decimal.                *)
(*                                                                         *)
(* A decimal counts units of 10^-PRECISION.  A text is what a number input *)
(* can hold: digits, of which scale follow the point, and an exponent; or  *)
(* something that is not a decimal.                                        *)
(***************************************************************************)
EXTENDS Integers

CONSTANTS
  DecimalPlaces,   \* PRECISION: places that a Decimal keeps (18)
  FieldIds,            \* the fields of a form
  ShownPlaces,     \* places a field shows
  TypedTexts,      \* texts the user types
  MaxAmounts,      \* values of maxAmount: balances and deposits that the store has
  FormAmounts,     \* what the form itself may set an amount to
  MaxKeys          \* bound: texts typed, presses of "max" and changes by the form

ASSUME PlacesAssumption == DecimalPlaces \in Nat /\ ShownPlaces \in 0..DecimalPlaces

ASSUME AmountsAssumption == MaxAmounts \subseteq Nat /\ FormAmounts \subseteq Nat

VARIABLES
  amounts,      \* the form's amounts, as Decimals
  maxAmount,    \* the largest amount, by field
  editing,      \* the field that is open, or NoField
  text,         \* what its input holds
  invalid,      \* AutoSelectInput's state
  overridden,   \* history: the form changed the amount of the open field
  keys

fieldVars == <<amounts, maxAmount, editing, text, invalid, overridden, keys>>

NoField == "none"
NotADecimal == [digits |-> -1, scale |-> 0, exp |-> 0]
BadFormat == -1

ASSUME TextsAssumption ==
  \A t \in TypedTexts \ {NotADecimal} : t.digits \in Nat /\ t.scale \in Nat /\ t.exp \in Int

\* The powers of ten.
tenTo[n \in Nat] == IF n = 0 THEN 1 ELSE 10 * tenTo[n-1]

-----------------------------------------------------------------------------
(* Decimal.  Places past the last one are cut off, before the exponent is applied. *)

coefficient(t) ==
  IF t.scale <= DecimalPlaces THEN t.digits * tenTo[DecimalPlaces - t.scale]
  ELSE t.digits \div tenTo[t.scale - DecimalPlaces]

_fromString(t) ==
  CASE t = NotADecimal             -> BadFormat
    [] t # NotADecimal /\ t.exp < 0  -> coefficient(t) \div tenTo[-t.exp]
    [] t # NotADecimal /\ t.exp >= 0 -> coefficient(t) * tenTo[t.exp]

_toStringWithAutomaticPrecision(x) == [digits |-> x, scale |-> DecimalPlaces, exp |-> 0]

_roundUp(x, places) == x + 5 * tenTo[DecimalPlaces - 1 - places]

_toStringWithPrecision(x, places) ==
  LET value == IF places < DecimalPlaces THEN _roundUp(x, places) ELSE x
  IN [digits |-> value \div tenTo[DecimalPlaces - places], scale |-> places, exp |-> 0]

\* toString without and with a precision; "max" takes the former.  No amount of a form
\* is infinite.
\* Faulty variant: the largest amount is rounded as it is shown.
maxText_Rounded(x) == _toStringWithPrecision(x, ShownPlaces)

maxText(x) == _toStringWithAutomaticPrecision(x)
editedAmount(x) == _toStringWithPrecision(x, ShownPlaces)

-----------------------------------------------------------------------------
FieldsInit ==
  /\ amounts = [f \in FieldIds |-> 0]
  /\ maxAmount \in [FieldIds -> MaxAmounts]
  /\ editing = NoField /\ text = NotADecimal /\ invalid = FALSE /\ overridden = FALSE
  /\ keys = 0

KeyPress == keys < MaxKeys /\ keys' = keys + 1

\* Every input is a new one: its defaultValue is the amount as it is shown.
textOnOpening(f) == editedAmount(amounts[f])

\* A click on the text of a field: one that was open loses the focus first.
OpenField(f) ==
  /\ editing # f
  /\ editing' = f /\ text' = textOnOpening(f)
  /\ invalid' = FALSE /\ overridden' = FALSE
  /\ UNCHANGED <<amounts, maxAmount, keys>>

\* onChange: setEditedAmount throws when the text is not a decimal.
TypeText(t) ==
  LET value == _fromString(t)
  IN /\ KeyPress
     /\ editing # NoField
     /\ text' = t
     /\ invalid' = (value = BadFormat)
     /\ amounts' = IF value = BadFormat THEN amounts ELSE [amounts EXCEPT ![editing] = value]
     /\ overridden' = (overridden /\ value = BadFormat)
     /\ UNCHANGED <<maxAmount, editing>>

\* onBlur and onWheel.
CloseField ==
  /\ editing # NoField
  /\ editing' = NoField /\ text' = NotADecimal /\ invalid' = FALSE /\ overridden' = FALSE
  /\ UNCHANGED <<amounts, maxAmount, keys>>

maxedOut(f) == amounts[f] = maxAmount[f]

\* The button of a field that is not open, unless the amount is the largest already.
PressMax(f) ==
  /\ KeyPress
  /\ editing # f /\ ~maxedOut(f)
  /\ amounts' = [amounts EXCEPT ![f] = _fromString(maxText(maxAmount[f]))]
  /\ editing' = NoField /\ text' = NotADecimal /\ invalid' = FALSE /\ overridden' = FALSE
  /\ UNCHANGED maxAmount

\* The form changes an amount: a reset after a confirmation, a new store state, the
\* least debt as a default.  An open input does not follow.
FormSets(f, x) ==
  /\ KeyPress
  /\ amounts' = [amounts EXCEPT ![f] = x]
  /\ overridden' = (overridden \/ f = editing)
  /\ UNCHANGED <<maxAmount, editing, text, invalid>>

FieldsNext ==
  \/ \E f \in FieldIds : OpenField(f) \/ PressMax(f) \/ \E x \in FormAmounts : FormSets(f, x)
  \/ \E t \in TypedTexts : TypeText(t)
  \/ CloseField

FieldsSpec == FieldsInit /\ [][FieldsNext]_fieldVars

-----------------------------------------------------------------------------
(* Properties *)

\* x is nearest to y among the numbers with the places shown.
Nearest(x, y) == 2 * (x - y) \in -(tenTo[DecimalPlaces - ShownPlaces])..tenTo[DecimalPlaces - ShownPlaces]

\* Whatever was typed, opened, left half-typed, maxed out or set by the form before: what
\* a field shows is its amount, to the places shown if nothing was typed and exactly
\* otherwise.  The exceptions are an input marked invalid, and one whose amount the form
\* has changed since it was opened (EditableRow, AutoSelectInput, Decimal).
FieldsShowTheirAmounts ==
  /\ \A f \in FieldIds \ {editing} : Nearest(_fromString(editedAmount(amounts[f])), amounts[f])
  /\ editing # NoField /\ ~invalid /\ ~overridden =>
       \/ text = editedAmount(amounts[editing])
       \/ _fromString(text) = amounts[editing]

\* "max" gives the very amount that disables it: nobody is left with a rest, or offered
\* more than he has (EditableRow, Decimal.toString and from).
MaxIsExact ==
  [][\A f \in FieldIds : PressMax(f) => maxedOut(f)']_fieldVars

\* The fields of a form show the amounts the form holds, and "max" is the whole amount.
FieldsKeepAmounts == []FieldsShowTheirAmounts /\ MaxIsExact

=============================================================================
