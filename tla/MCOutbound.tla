----------------------------- MODULE MCOutbound -----------------------------
(* Small instances of Outbound. *)
EXTENDS Outbound, TLC

MCTask == Order \X Line \X Item

\* All items carry one SKU, and every line asks for it.
OneSku  == [i \in Item |-> "sku"]
AnyItem == [l \in Line |-> Item]

\* Item 1 cannot serve two orders alone; item 2 makes up for it.
MCShelf == (1 :> 2) @@ (2 :> 1)

\* One line asking for one or two units; for two units.
OneOrTwo == {[l \in Line |-> 1], [l \in Line |-> 2]}
Two      == {[l \in Line |-> 2]}
One      == {[l \in Line |-> 1]}

=============================================================================
