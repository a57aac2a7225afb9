------------------------- MODULE MCDocumentEditing -------------------------
(* Two people at one document.                                             *)
EXTENDS DocumentEditing

CONSTANTS e1, e2, price, quantity

\* What rarely happens, happens to e1, who edits both fields.
MCMaxRare == [e \in Editors |-> IF e = e1 THEN 1 ELSE 0]
MCTouches == [e \in Editors |-> IF e = e1 THEN Fields ELSE {price}]
=============================================================================
