------------------------- MODULE MCAnalysisPipeline -------------------------
(* Constants for checking AnalysisPipeline with TLC.                       *)
EXTENDS AnalysisPipeline

CONSTANTS a, b, t0, t1

MCProjectionOf == [t \in Texts |-> t]

(* What Next comes to where no document closes, nothing panics, and neither  *)
(* the disk nor the configuration changes; MCAnalysisPipelineSafety takes    *)
(* every step.                                                               *)
OpenNext ==
    \/ \E d \in Docs, t \in Texts : DidOpen(d, t) \/ DidChange(d, t)
    \/ MainLoop \/ AnalysisArm \/ LibraryArm
    \/ \E j \in JobIds : DoneArm(j)
    \/ Pool
OpenSpec == Init /\ [][OpenNext]_vars /\ Fairness
=============================================================================
