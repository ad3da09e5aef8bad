------------------------------- MODULE MCMdig -------------------------------
(* Two threads, four lines: two names, an empty line and an address.       *)
EXTENDS Mdig

KindDef == <<"name", "empty", "name", "address">>

=============================================================================
