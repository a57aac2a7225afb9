---- MODULE MCLiveDocument ----
(* Two browsers that have one document open at one API instance. *)
EXTENDS LiveDocument
CONSTANTS c1, c2, i1
====
