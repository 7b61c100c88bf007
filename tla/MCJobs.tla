------------------------------- MODULE MCJobs -------------------------------
(***************************************************************************)
(* A projection's loop (ProjectionManager), and beside it the jobs that    *)
(* leave a row, pieces and a stream behind (JobRuns).  The first reads the *)
(* positions of rows, the second looks at what one stream tells: they have *)
(* no variable in common, and the loop rests while the jobs are checked.   *)
(***************************************************************************)
EXTENDS ProjectionManager

LOCAL INSTANCE TLC

CONSTANTS MediaJob, AiRun, Listing, Batch, Upload,
          Drafting, ListingSteps, Parts, Slots, DailyLimit, MaxStarts, MaxFaults

VARIABLES row, stream, pieces, path, step, faults

J == INSTANCE JobRuns

ASSUME JobsAssumption == J!JobRunsAssumption

(* One ad, whichever.                                                      *)
MCCountsOn == [s \in Stream |-> s]

jobs == <<row, stream, pieces, path, step, faults>>

(* The steps of JobRuns!Spec, the loop at rest.                            *)
JobsSpec ==
  Init /\ J!Init /\ [][J!Next /\ UNCHANGED vars]_<<vars, jobs>>

(* Runs differ in nothing but their name.                                  *)
Symmetry == Permutations(AiRun)

(* Row, pieces and stream at the end of a job: JobRuns' properties.        *)
OutcomesAgree == J!OutcomesAgree

(* What the streams say happened: JobRuns' properties.                     *)
StreamsTellTheStory == J!StreamsTellTheStory

(* The daily limit against the runs under way (JobRuns).                   *)
LimitOverrunBounded == J!LimitOverrunBounded
=============================================================================
