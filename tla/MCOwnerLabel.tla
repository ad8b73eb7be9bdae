---------------------------- MODULE MCOwnerLabel ----------------------------
(* OwnerLabel in small: labels of eight characters, names of up to six.  A  *)
(* core may have four, so names that must be cut are among them.            *)
EXTENDS OwnerLabel
=============================================================================
