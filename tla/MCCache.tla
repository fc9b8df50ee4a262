------------------------------- MODULE MCCache -------------------------------
(***************************************************************************)
(* The instance of package internal/cache for TLC.  The cache calls the    *)
(* detector, but the two share no variable (MultiLevelCache lets a key be  *)
(* hot or not at any miss), so a behaviour follows one of them from the    *)
(* start to the end while the other rests.                                 *)
(***************************************************************************)
EXTENDS MCMultiLevelCache, HotKeyDetector

CONSTANTS a1, a2

VARIABLE part  \* the component this behaviour follows

PartInit == Init /\ DetectorInit /\ part \in {"cache", "detector"}

\* The detector has come to the bounds of the instance.
Rest ==
    /\ accesses = MaxAccesses /\ now = MaxTime
    /\ \A a \in Accessors : pc[a] = "idle"
    /\ cleaner = "stopped"
    /\ UNCHANGED detectorVars

PartNext ==
    /\ \/ part = "cache" /\ Next /\ UNCHANGED detectorVars
       \/ part = "detector" /\ (DetectorNext \/ Rest) /\ UNCHANGED vars
    /\ UNCHANGED part

\* Fairness and DetectorFairness, each of the part that moves.
Cache(A)    == part = "cache" /\ A
Detector(A) == part = "detector" /\ A

PartSpec ==
    /\ PartInit /\ [][PartNext]_<<vars, detectorVars, part>>
    /\ \A r \in Readers : WF_vars(Cache(ReaderStep(r)))
    /\ \A w \in Writers : WF_vars(Cache(WriterStep(w)))
    /\ WF_vars(Cache(Replicate)) /\ WF_vars(Cache(ExpireL2))
    /\ \A p \in Pods : WF_vars(Cache(ExpireL1(p)))
    /\ \A a \in Accessors : WF_detectorVars(Detector(Serve(a)))
    /\ WF_detectorVars(Detector(Collect)) /\ WF_detectorVars(Detector(Test))
    /\ WF_detectorVars(Detector(Delete))
=============================================================================
