------------------------ MODULE MCReparseCacheSafety ------------------------
(* Two instances of the cache in one run: one file with long histories of  *)
(* edits of every kind, and two files that compete for the entries.        *)
EXTENDS MCReparseCache

VARIABLE instance

OneFile == INSTANCE ReparseCache
               WITH Members <- {f}, Openable <- {f}, Closable <- {f}, MaxVersion <- 3
TwoFiles == INSTANCE ReparseCache
               WITH Members <- {g}, Openable <- {f, g}, Closable <- {}, MaxVersion <- 2,
                    Texts <- {0, 2}, Batches <- {<<"paste">>}

MCInit == \/ instance = "one file" /\ OneFile!Init
          \/ instance = "two files" /\ TwoFiles!Init
MCNext == /\ \/ instance = "one file" /\ OneFile!Next
             \/ instance = "two files" /\ TwoFiles!Next
          /\ UNCHANGED instance
MCSpec == MCInit /\ [][MCNext]_<<vars, instance>>
=============================================================================
