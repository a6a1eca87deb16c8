------------------------------- MODULE Forms -------------------------------
(***************************************************************************)
(* The forms of schema payloads: the content of an item's drawer is        *)
(* rendered from the schema in its payload, the page keeps what is entered *)
(* in signals, and Submit posts all signals to the close route.  Signals   *)
(* outlive the drawer: they belong to the page.                            *)
(*                                                                         *)
(* A key is a sequence of the parts of its string.                         *)
(***************************************************************************)
EXTENDS Naturals, Sequences

CONSTANTS
  Payloads,   \* of the items: [type, parses, fields, completable]
  Texts       \* what can be entered into a text input

ASSUME TextsAssumption == "" \in Texts

VARIABLES
  content,    \* the fields in the drawer, and whether there is a Submit button
  signals,    \* the signals of the page, by key
  entered,    \* what was entered since the drawer was rendered, by key
  posted      \* the signals Submit has posted

formVars == <<content, signals, entered, posted>>

NoContent == [fields |-> {}, submit |-> FALSE]

-----------------------------------------------------------------------------
(* Field types *)

Lines   == {"textarea", "select"}
Typed   == {"date", "phone", "email", "number", "otp"}
Uploads == {"file", "image"}
Pads    == {"signature", "rating"}
Known   == Lines \union Typed \union Uploads \union Pads \union {"checkbox", "multiselect"}

\* A text area and a drop-down list are bound to the signal of the field.
BindsLine(f) == f.type \in Lines

\* A single box too, and its signal is a boolean.
BindsBox(f) == f.type = "checkbox"

\* Inputs of the browser's own types, and plain text for what is not known.
BindsTyped(f) == f.type \in Typed \/ f.type \notin Known

\* A group of boxes: each has a signal of its own, which nobody declares.
BoxKeys(f) == IF f.type = "multiselect" THEN {f.name \o <<"_", o>> : o \in f.options} ELSE {}

\* Files, the signature pad and the stars are bound to nothing.
IsBound(f) == ~(f.type \in Uploads \union Pads) /\
              (BindsLine(f) \/ BindsBox(f) \/ BindsTyped(f))

Inputs(fields) ==
  {f.name : f \in {g \in fields : IsBound(g)}} \union UNION {BoxKeys(f) : f \in fields}

\* The fields of a form have names of their own, also after a "_".
ASSUME NamesAssumption ==
  \A p \in Payloads : \A f, g \in p.fields :
    /\ f.name = g.name => f = g
    /\ f.name \notin BoxKeys(g)
    /\ f # g => BoxKeys(f) \intersect BoxKeys(g) = {}

-----------------------------------------------------------------------------
(* Rendering *)

\* Mutant: a field without a default is left out of the signals.
SignalsWithDefaults(fields) ==
  [k \in {f.name : f \in {g \in fields : g.default # ""}} |->
     LET f == CHOOSE g \in fields : g.name = k
     IN IF BindsBox(f) THEN f.default = "true" ELSE f.default]

\* The signals a form declares: every field by its name.
BuildSignals(fields) ==
  [k \in {f.name : f \in fields} |->
     LET f == CHOOSE g \in fields : g.name = k
     IN IF BindsBox(f) THEN f.default = "true" ELSE f.default]

\* Two names of one message type; the payload may still not be one.
TryParse(p) == p.type \in {"schema.v1.ItemSchema", "inbox.v1.ItemSchema"} /\ p.parses

IsTerminal(status) == status \notin {"open", "claimed"}

\* What the provider renders for an item with payload p.
Render(p, status) ==
  IF TryParse(p)
  THEN [fields |-> p.fields, submit |-> ~IsTerminal(status) /\ p.completable]
  ELSE NoContent

Boxes(fields) == {k \in Inputs(fields) : \A f \in fields : f.name = k => BindsBox(f)}

\* What the page makes of the fields: the declared signals take their
\* defaults, and an input whose signal there is none of makes an empty one.
Payload(fields) ==
  LET declared == BuildSignals(fields)
      keys     == DOMAIN declared \union Inputs(fields)
  IN [k \in DOMAIN signals \union keys |->
        IF k \in DOMAIN declared THEN declared[k]
        ELSE IF k \in DOMAIN signals THEN signals[k]
        ELSE IF k \in Boxes(fields) THEN FALSE ELSE ""]

-----------------------------------------------------------------------------
(* The page *)

\* The drawer of an item is opened.
OpenDrawer(p, status) ==
  /\ content' = Render(p, status)
  /\ signals' = Payload(content'.fields)
  /\ entered' = <<>>
  /\ UNCHANGED posted

Enter(k, v) ==
  /\ signals' = [signals EXCEPT ![k] = v]
  /\ entered' = [l \in DOMAIN entered \union {k} |-> IF l = k THEN v ELSE entered[l]]
  /\ UNCHANGED <<content, posted>>

\* A box is ticked or unticked.
Tick(k, v) == k \in Boxes(content.fields) /\ v \in BOOLEAN /\ Enter(k, v)

\* Something is entered into another input.
Fill(k, v) == k \in Inputs(content.fields) \ Boxes(content.fields) /\ v \in Texts /\ Enter(k, v)

\* The Submit button posts the signals of the page to the close route.
Submit ==
  /\ content.submit
  /\ posted' = signals
  /\ UNCHANGED <<content, signals, entered>>

FormsInit == content = NoContent /\ signals = <<>> /\ entered = <<>> /\ posted = <<>>

FormsNext ==
  \/ \E p \in Payloads, status \in {"open", "claimed", "closed", "expired"} :
       OpenDrawer(p, status)
  \/ \E k \in Inputs(content.fields) : (\E v \in BOOLEAN : Tick(k, v)) \/ (\E v \in Texts : Fill(k, v))
  \/ Submit

FormsSpec == FormsInit /\ [][FormsNext]_formVars

-----------------------------------------------------------------------------
(* Properties *)

\* Submit posts for every bound field what was entered in this drawer, or
\* the default the schema gives it: nothing of a form that was open before
\* (helpers.go:26-37 declares what render.templ binds).
FormsStartFresh ==
  [][Submit =>
       \A f \in content.fields : IsBound(f) =>
         posted'[f.name] =
           IF f.name \in DOMAIN entered THEN entered[f.name]
           ELSE IF BindsBox(f) THEN f.default = "true" ELSE f.default]_formVars

=============================================================================
