----------------------------- MODULE MCIncludeGraph -----------------------------
EXTENDS IncludeGraph

CONSTANTS main_file, file_a, file_b, absent, PkgName, Sub

(* The entry holds one or two includes, in its own module or in one nested *)
(* in it; the other files up to two. *)
EntryItems == { Include(t, s, d) : t \in {file_a, file_b, absent}, s \in {<<PkgName>>, <<PkgName, Sub>>}, d \in BOOLEAN }
ItemsOfA == { Include(t, s, d) : t \in {main_file, file_a, file_b, absent}, s \in {<<>>, <<Sub>>, <<PkgName>>}, d \in {TRUE} }
ItemsOfB == { Include(t, <<>>, TRUE) : t \in {main_file, file_a} }

MCTrees == { [f \in {main_file, file_a, file_b} |-> IF f = main_file THEN x ELSE IF f = file_a THEN y ELSE z] :
               x \in {<<i>> : i \in EntryItems} \cup {<<i, j>> : i, j \in EntryItems},
               y \in {<<>>} \cup {<<i>> : i \in ItemsOfA} \cup {<<i, Include(file_b, <<Sub>>, TRUE)>> : i \in ItemsOfA},
               z \in {<<>>} \cup {<<i>> : i \in ItemsOfB} }
=============================================================================
