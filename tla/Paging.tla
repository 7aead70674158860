------------------------------- MODULE Paging -------------------------------
(***************************************************************************)
(* Reading a table or an index in order, a page at a time: ORDER BY ...    *)
(* LIMIT in SQLite, sort and size in Elasticsearch.                        *)
(***************************************************************************)
EXTENDS Naturals, FiniteSets, FiniteSetsExt

\* The pages that list the first `limit` members of a set in a strict order:
\* exactly one when the order is total.
FirstOf(S, limit, Before(_, _)) ==
  LET size == Min({limit, Cardinality(S)})
  IN  {page \in [1..size -> S] :
         /\ \A j, k \in 1..size : j < k => Before(page[j], page[k])
         /\ \A x \in S : \/ \E j \in 1..size : page[j] = x
                         \/ \A j \in 1..size : Before(page[j], x)}
=============================================================================
