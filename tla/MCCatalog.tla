----------------------------- MODULE MCCatalog -----------------------------
(* A small catalog: one seeded appliance, clients and runs interchangeable. *)
EXTENDS Catalog, TLC

MCSeedRows == [a \in {1} |-> [name |-> <<"dryer", "lower">>, hours |-> 2]]

MCSymmetry == Permutations(Clients) \cup Permutations(Runs)
=============================================================================
