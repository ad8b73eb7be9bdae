-------------------------- MODULE MCTemplateStore --------------------------
(* TemplateStore in small: two requests, two contents, one publication     *)
(* between any two steps.  TemplateStore_proofs is about any number.       *)
EXTENDS TemplateStore
=============================================================================
