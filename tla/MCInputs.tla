------------------------------ MODULE MCInputs ------------------------------
(***************************************************************************)
(* Instances of what people type, select and fill in for TLC: a text that  *)
(* is tokenized, the filter bar and a form, one of them at a time.         *)
(***************************************************************************)
EXTENDS Tokens, FilterBar, Forms, FiniteSets

CONSTANTS MaxAsked   \* bound: the requests under way at a time

\* The bytes of "a", "A", "Z", "5", "-" and of a letter of two bytes.
SomeBytes == {97, 65, 90, 53, 45, 195}

\* Two filters, one of them without a colon.
TwoFilters == <<[label |-> <<"Team">>, prefix |-> <<"team", ":">>],
                [label |-> <<"Kind">>, prefix |-> <<"kind">>]>>

Field(name, type, default, options) ==
  [name |-> <<name>>, type |-> type, default |-> default, options |-> options]

Schema(fields) ==
  [type |-> "schema.v1.ItemSchema", parses |-> TRUE, fields |-> fields, completable |-> TRUE]

\* Two forms with a field of the same name, a payload of another type and
\* one that is no schema.
Decision == Schema({Field("reason", "textarea", "", {}), Field("agree", "checkbox", "true", {}),
                    Field("stars", "rating", "3", {})})
Details  == Schema({Field("reason", "text", "", {}), Field("mail", "email", "x", {}),
                    Field("docs", "multiselect", "", {"id"})})
Other    == [Decision EXCEPT !.type = "other"]
Broken   == [Details EXCEPT !.parses = FALSE]

FourPayloads == {Decision, Details, Other, Broken}

inputVars == <<tokenVars, barVars, formVars>>

\* Only one of the three is used: while the others are as in the beginning.
BarUnused  == asked = {} /\ table = {}
FormUnused == content = NoContent /\ DOMAIN signals = {}
Untokenized == read = 0 /\ running

InputsInit == TokensInit /\ BarInit /\ FormsInit

InputsNext ==
  \/ BarUnused /\ FormUnused /\ TokensNext /\ UNCHANGED <<barVars, formVars>>
  \/ text = <<>> /\ Untokenized /\ FormUnused /\ BarNext /\ UNCHANGED <<tokenVars, formVars>>
  \/ text = <<>> /\ Untokenized /\ BarUnused /\ FormsNext /\ UNCHANGED <<tokenVars, barVars>>

InputsSpec == InputsInit /\ [][InputsNext]_inputVars

\* Bound: the requests under way at a time.
FewAsked == Cardinality(asked) <= MaxAsked

=============================================================================
