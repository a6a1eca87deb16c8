----------------------------- MODULE FilterBar -----------------------------
(***************************************************************************)
(* The filter bar of the queue.  What it selects travels in three forms:   *)
(* the query of the page's address, the values the page is rendered with,  *)
(* by label, and the signals of the page, by key, which every later        *)
(* request of the page sends along.                                        *)
(*                                                                         *)
(* Strings are sequences of their parts: "team:" is <<"team", ":">>.       *)
(***************************************************************************)
EXTENDS SequencesExt, Naturals

CONSTANTS
  Bar,       \* the filters, in their order: [label, prefix]
  Values,    \* what can be selected
  None       \* the empty value

\* A trailing colon does not belong to the key.
filterKey(prefix) ==
  IF prefix # <<>> /\ Last(prefix) = ":" THEN Front(prefix) ELSE prefix

BarKeys == {filterKey(f.prefix) : f \in Range(Bar)}
Labels  == {f.label : f \in Range(Bar)}

\* The filters of an application have labels and keys of their own.
ASSUME BarAssumption ==
  /\ None \notin Values
  /\ \A f, g \in Range(Bar) :
       f.label = g.label \/ filterKey(f.prefix) = filterKey(g.prefix) => f = g

VARIABLES
  selects,   \* the value of every select, by key
  table,     \* the tags of the list the table shows
  asked      \* the requests under way

barVars == <<selects, table, asked>>

Selections == [BarKeys -> Values \union {None}]

-----------------------------------------------------------------------------
(* The handler *)

\* A request of the page sends its signals, and then only they count.
readFilterValues(r) == IF "datastar" \in DOMAIN r THEN r.datastar ELSE r.query

\* The tags of the list: the open items that have what is selected.
ListTags(values) ==
  {<<"status", ":", "open">>} \union
  {Append(f.prefix, values[filterKey(f.prefix)]) :
     f \in {g \in Range(Bar) : values[filterKey(g.prefix)] # None}}

\* What the page is rendered with.
ActiveFilters(values) ==
  [l \in Labels |-> values[filterKey((CHOOSE f \in Range(Bar) : f.label = l).prefix)]]

\* Mutant: the rendered values are looked up by key.
SignalsByKey(active) == [k \in BarKeys |-> IF k \in Labels THEN active[k] ELSE None]

\* The signals the page declares.
buildFilterSignals(active) ==
  [k \in BarKeys |-> active[(CHOOSE f \in Range(Bar) : filterKey(f.prefix) = k).label]]

\* What request r is answered with: a whole page, or its table alone.
handleQueue(what, r) ==
  LET values == readFilterValues(r)
  IN [what |-> what, values |-> values, tags |-> ListTags(values),
      declared |-> buildFilterSignals(ActiveFilters(values))]

-----------------------------------------------------------------------------
(* The page *)

NoQuery == [k \in BarKeys |-> None]

\* An address with a query is followed; answers to the old page are dropped.
Visit(query) ==
  /\ asked' = {handleQueue("page", [query |-> query])}
  /\ UNCHANGED <<selects, table>>

\* Another value is selected, and the table asked for anew.
Select(k, v) ==
  /\ table # {}
  /\ selects' = [selects EXCEPT ![k] = v]
  /\ asked' = asked \union {handleQueue("table", [query |-> NoQuery, datastar |-> selects'])}
  /\ UNCHANGED table

\* The stream or the Load more link asks for the table: with the queue's
\* address, which has no filter in it.
AskAgain ==
  /\ table # {}
  /\ asked' = asked \union {handleQueue("table", [query |-> NoQuery, datastar |-> selects])}
  /\ UNCHANGED <<selects, table>>

Arrive(r) ==
  /\ r \in asked
  /\ table' = r.tags
  /\ selects' = IF r.what = "page" THEN r.declared ELSE selects
  /\ asked' = asked \ {r}

BarInit ==
  /\ selects = NoQuery
  /\ table = {}
  /\ asked = {}

BarNext ==
  \/ \E query \in Selections : Visit(query)
  \/ \E k \in BarKeys, v \in Values \union {None} : Select(k, v)
  \/ AskAgain
  \/ \E r \in asked : Arrive(r)

BarSpec == BarInit /\ [][BarNext]_barVars

-----------------------------------------------------------------------------
(* Properties *)

\* When an answer arrives to what is still selected, the table lists the
\* open items with the values the selects show: no value is lost or comes
\* back on its way from the address to the page, to its signals and to the
\* requests of its stream and links (queue.go:15-24, helpers.go:64-112).
\* Answers that overtake each other may leave the table of an older choice.
TableFitsSelects ==
  [][\A r \in asked :
       Arrive(r) /\ (r.what = "page" \/ r.values = selects) =>
         table' = ListTags(selects')]_barVars

=============================================================================
