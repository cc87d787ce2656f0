-------------------------- MODULE MCDataInspector --------------------------
(* Two rows on two pages, one search and one filter that match the second, *)
(* and a record of another table that refers to the first.                 *)
EXTENDS RelatedRecords

CONSTANTS all, some, unfiltered, filtered

MCHits == [t \in {all, some, unfiltered, filtered} |->
             IF t \in {all, unfiltered} THEN Rows ELSE {2}]
(* The second row may still be missing, so that a new row finds a key. *)
MCTables == {t \in [Rows -> {[c \in Columns |-> 0], None}] : t[1] # None}
MCOwner == [r \in Records |-> 1]
=============================================================================
