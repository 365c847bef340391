------------------------------ MODULE MCPages -------------------------------
(* Values for the constants of the pages and widgets. *)
EXTENDS Pages

CONSTANTS alice, bob, d1, d2, d3, old, new

Item(v, l, off) == [value |-> v, letter |-> l, disabled |-> off]
MCOptionLists ==
  {<<Item("all", "a", FALSE), Item("u", "b", FALSE), Item("v", "b", TRUE)>>,
   <<Item("all", "a", TRUE), Item("v", "b", FALSE), Item("u", "b", FALSE), Item("w", "b", FALSE),
     Item("x", "b", FALSE), Item("y", "b", FALSE)>>}
=============================================================================
