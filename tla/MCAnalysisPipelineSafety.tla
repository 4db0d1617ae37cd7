---------------------- MODULE MCAnalysisPipelineSafety ----------------------
(* Two instances of the pipeline in one run: two files that depend on no    *)
(* other, with more edits, and two files of one package, with a panic and   *)
(* a rewrite on disk.                                                       *)
EXTENDS MCAnalysisPipeline

VARIABLE instance

LooseFiles == INSTANCE AnalysisPipeline
                  WITH Members <- {}, MaxPanics <- 0, Rewritable <- {}
PackageFiles == INSTANCE AnalysisPipeline
                  WITH MaxEdits <- 2, MaxRules <- 0

MCInit == \/ instance = "loose files" /\ LooseFiles!Init
          \/ instance = "package files" /\ PackageFiles!Init
MCNext == /\ \/ instance = "loose files" /\ LooseFiles!Next
             \/ instance = "package files" /\ PackageFiles!Next
          /\ UNCHANGED instance
MCSpec == MCInit /\ [][MCNext]_<<vars, instance>>
=============================================================================
