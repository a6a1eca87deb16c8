------------------------------- MODULE TagSet -------------------------------
(***************************************************************************)
(* The values of the external tags library, as the inbox uses them.        *)
(*                                                                         *)
(* A tag is a pair <<key, value>>, written "key:value" in the code, and a  *)
(* tag set is a set of pairs.  One key may have several values ("ref:..."  *)
(* tags, or two assignees); only With makes a key single-valued.           *)
(***************************************************************************)

Tagged(ts, k) == {t \in ts : t[1] = k}

ValuesOf(ts, k) == {t[2] : t \in Tagged(ts, k)}

Without(ts, k) == ts \ Tagged(ts, k)

With(ts, k, v) == Without(ts, k) \union {<<k, v>>}

Merge(ts, us) == ts \union us

HasAll(ts, required) == required \subseteq ts

=============================================================================
