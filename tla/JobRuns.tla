------------------------------ MODULE JobRuns ------------------------------
(***************************************************************************)
(* Long work that leaves a status row, pieces and a stream of events       *)
(* behind: the media jobs of JobEngine, which go on detached from the      *)
(* request, and what a request waits for: the AI runs of AiGatewayService, *)
(* listing pipelines, regional batches and knowledge base uploads.         *)
(*                                                                         *)
(* Each is a fixed sequence of awaited steps, some with a catch.  The      *)
(* sequences are data (Script, Handler), the interpreter says what a step  *)
(* does and where a rejection goes: to the catch, to the caller, nowhere   *)
(* (the AI publisher swallows what its append throws), or, outside the try *)
(* of a detached job, up to the process, which has no unhandledRejection   *)
(* handler and exits.                                                      *)
(* Each job has a stream and objects of its own, so no append conflicts.   *)
(* The AI runs inside a pipeline or a batch are AI runs like the others:   *)
(* awaiting one is a step without a lasting trace.                         *)
(***************************************************************************)
EXTENDS Integers, Sequences, FiniteSets, SequencesExt

CONSTANTS MediaJob, AiRun, Listing, Batch, Upload,  \* jobs of each kind
          Drafting,         \* listings asked for a draft that end with a title
          ListingSteps,     \* 8 in the code
          Parts,            \* regions of a batch, chunks of an upload
          Slots,            \* how many jobs can be under way at once
          DailyLimit,       \* 10_000 in the code
          MaxStarts,        \* bound on jobs asked for
          MaxFaults         \* bound on steps that throw

Job == MediaJob \cup AiRun \cup Listing \cup Batch \cup Upload

(* Assumed where the constants get their values (MCJobs).                 *)
JobRunsAssumption ==
  /\ IsFiniteSet(Job)
  /\ MediaJob \cap (AiRun \cup Listing \cup Batch \cup Upload) = {}
  /\ AiRun \cap (Listing \cup Batch \cup Upload) = {}
  /\ Listing \cap (Batch \cup Upload) = {} /\ Batch \cap Upload = {}
  /\ Drafting \subseteq Listing
  /\ {ListingSteps, Parts} \subseteq Nat \ {0}
  /\ {Slots, DailyLimit, MaxStarts, MaxFaults} \subseteq Nat

VARIABLES
  row,     \* status column of each job's row
  stream,  \* events of each job's stream
  pieces,  \* what each job has made: asset, draft ad, regional drafts, chunks
  path,    \* where each job is: script, catch, or how it ended
  step,    \* index of its next step
  faults

vars == <<row, stream, pieces, path, step, faults>>

-----------------------------------------------------------------------------
(* The sequences.  A step writes the row, appends to the stream, publishes *)
(* what was appended, makes a piece, or works without a lasting trace.     *)

Set(status) == [does |-> "row", value |-> status]
Tell(event) == [does |-> "append", value |-> event]
Do(what)    == [does |-> what, value |-> "none"]

Times(n, steps) == [i \in 1..(n * Len(steps)) |-> steps[1 + ((i - 1) % Len(steps))]]

(* createJob: insert and announce; nothing runs yet.                       *)
CreateJob == <<Set("pending"), Tell("created"), Do("publish")>>

(* MediaPipelineService.processJob: generate, putObject, asset row, event  *)
(* on the avito stream.                                                    *)
ProcessMedia == <<Do("work"), Do("piece"), Do("work")>>

(* Mutant: the event goes out before the row is completed.                 *)
AnnounceFirst ==
  <<Set("processing")>> \o ProcessMedia \o <<Tell("completed"), Do("publish"), Set("completed")>>

(* JobEngine.processJob.                                                   *)
ProcessJob ==
  <<Set("processing")>> \o ProcessMedia \o <<Set("completed"), Tell("completed"), Do("publish")>>

(* AiOrchestratorService.run, up to the model's answer and after it: cost, *)
(* agent, evaluation, learning and memory come after the row is completed. *)
Orchestrate ==
  <<Set("running"), Tell("started"), Do("work"), Set("completed"), Tell("completed"), Do("work")>>

(* AiGatewayService.executeWithContext; recordRun is one more such step.   *)
Execute == <<Do("limit")>> \o Orchestrate

(* ListingGeneratorPipeline.run: `if (input.createDraft && final.title)`,  *)
(* where the title is what the last model call answered, there is a draft. *)
(* Otherwise the row and the event say completed with no ad, all the same. *)
RunPipeline(drafts) ==
  <<Set("running"), Tell("started"), Do("publish")>>
    \o Times(ListingSteps, <<Do("work"), Tell("step"), Do("publish")>>)
    \o <<Do(IF drafts THEN "piece" ELSE "work"),
         Set("completed"), Tell("completed"), Do("publish")>>

(* RegionalPublishingService.publishBatch: for each region the text, the   *)
(* ad, the draft row, the event.  A batch has no row of its own.           *)
PublishBatch ==
  <<Tell("started"), Do("publish")>>
    \o Times(Parts, <<Do("work"), Do("piece"), Tell("step"), Do("publish")>>)

(* KnowledgeBaseService.upload: object, row, event, chunks, `indexed`,     *)
(* memory, event.                                                          *)
UploadDocument ==
  <<Do("work"), Set("stored"), Tell("started"), Do("publish")>>
    \o Times(Parts, <<Do("piece")>>)
    \o <<Set("completed"), Do("work"), Tell("completed"), Do("publish")>>

Script == [j \in Job |->
  CASE j \in MediaJob -> CreateJob \o ProcessJob
    [] j \in AiRun    -> Execute
    [] j \in Listing  -> RunPipeline(j \in Drafting)
    [] j \in Batch    -> PublishBatch
    [] j \in Upload   -> UploadDocument]

(* Mutant: the catch only updates the row.                                 *)
RowOnlyHandler == [j \in Job |-> <<Set("failed")>>]

(* The catch of processJob, and recordFailure, whose span comes too late   *)
(* to matter.  The others have none.                                       *)
Handler ==
  [j \in Job |-> IF j \in MediaJob THEN <<Set("failed"), Tell("failed"), Do("publish")>>
                                   ELSE <<Set("failed"), Tell("failed")>>]

Sequence(j) == IF path[j] = "script" THEN Script[j] ELSE Handler[j]

Running(j) == path[j] \in {"script", "catch"}

Now(j) == Sequence(j)[step[j]]

(* After createJob the request no longer waits for a media job.            *)
Detached(j) == j \in MediaJob /\ (path[j] = "catch" \/ step[j] > Len(CreateJob))

(* The first write of processJob, and the count before the orchestration,  *)
(* are outside the try.                                                    *)
InTry(j) ==
  /\ path[j] = "script" /\ j \in MediaJob \cup AiRun
  /\ step[j] > (IF j \in MediaJob THEN Len(CreateJob) + 1 ELSE 1)

-----------------------------------------------------------------------------
Status == {"none", "pending", "processing", "running", "stored", "completed", "failed"}
Event  == {"created", "started", "step", "completed", "failed"}

(* How a job ends: all its steps done, the error thrown on to the caller,  *)
(* refused by the limit, or cut off by the end of the process.             *)
Ended == {"done", "thrown", "refused", "cut"}

TypeOK ==
  /\ row \in [Job -> Status]
  /\ stream \in [Job -> Seq(Event)]
  /\ pieces \in [Job -> 0..Parts]
  /\ path \in [Job -> {"idle", "script", "catch"} \cup Ended]
  /\ \A j \in Job : step[j] \in 1..(Len(Script[j]) + Len(Handler[j]))
  /\ faults \in 0..MaxFaults

Init ==
  /\ row = [j \in Job |-> "none"]
  /\ stream = [j \in Job |-> <<>>]
  /\ pieces = [j \in Job |-> 0]
  /\ path = [j \in Job |-> "idle"]
  /\ step = [j \in Job |-> 1]
  /\ faults = 0

-----------------------------------------------------------------------------
(* The interpreter.                                                        *)

At(j, where, n) ==
  /\ path' = [path EXCEPT ![j] = where]
  /\ step' = [step EXCEPT ![j] = n]

(* The catch of a media job is the end of it; recordFailure is followed by *)
(* `throw e`.                                                              *)
Finish(j) == At(j, IF path[j] = "catch" /\ j \in AiRun THEN "thrown" ELSE "done", 1)

Advance(j) ==
  IF step[j] = Len(Sequence(j)) THEN Finish(j) ELSE At(j, path[j], step[j] + 1)

Start(j) ==
  /\ path[j] = "idle"
  /\ Cardinality({k \in Job : Running(k)}) < Slots
  /\ Cardinality({k \in Job : path[k] # "idle"}) < MaxStarts
  /\ At(j, "script", 1)
  /\ UNCHANGED <<row, stream, pieces, faults>>

WriteRow(j) ==
  /\ Running(j) /\ Now(j).does = "row"
  /\ row' = [row EXCEPT ![j] = IF path[j] = "catch" /\ @ = "none" THEN @ ELSE Now(j).value]
  /\ Advance(j)
  /\ UNCHANGED <<stream, pieces, faults>>

AppendEvent(j) ==
  /\ Running(j) /\ Now(j).does = "append"
  /\ stream' = [stream EXCEPT ![j] = Append(@, Now(j).value)]
  /\ Advance(j)
  /\ UNCHANGED <<row, pieces, faults>>

(* bus.publish and the steps that leave no trace of their own.             *)
Work(j) ==
  /\ Running(j) /\ Now(j).does \in {"publish", "work"}
  /\ Advance(j)
  /\ UNCHANGED <<row, stream, pieces, faults>>

MakePiece(j) ==
  /\ Running(j) /\ Now(j).does = "piece"
  /\ pieces' = [pieces EXCEPT ![j] = @ + 1]
  /\ Advance(j)
  /\ UNCHANGED <<row, stream, faults>>

(* The runs of one day: rows of any status.                                *)
Recent == {j \in AiRun : row[j] # "none"}

(* Mutant: only completed runs are counted.                                *)
CheckCompleted(j) ==
  /\ Running(j) /\ Now(j).does = "limit"
  /\ IF Cardinality({k \in AiRun : row[k] = "completed"}) > DailyLimit
     THEN At(j, "refused", 1) ELSE Advance(j)
  /\ UNCHANGED <<row, stream, pieces, faults>>

(* `if (dailyRuns > 10_000)` on a count of rows, long before this run's    *)
(* own row is there.                                                       *)
CheckLimit(j) ==
  /\ Running(j) /\ Now(j).does = "limit"
  /\ IF Cardinality(Recent) > DailyLimit THEN At(j, "refused", 1) ELSE Advance(j)
  /\ UNCHANGED <<row, stream, pieces, faults>>

(* The process exits: whatever was under way stays as it is.               *)
ProcessDies ==
  /\ path' = [j \in Job |-> IF Running(j) THEN "cut" ELSE path[j]]
  /\ step' = [j \in Job |-> IF Running(j) THEN 1 ELSE step[j]]

(* AiEventPublisher.publish catches what append and bus.publish throw, not *)
(* what the readStream before its try throws: that one goes on.            *)
Swallowed(j) == j \in AiRun /\ Now(j).does = "append"

Throws(j) ==
  /\ Running(j) /\ faults < MaxFaults
  /\ faults' = faults + 1
  /\ \/ Swallowed(j) /\ Advance(j)
     \/ InTry(j) /\ At(j, "catch", 1)
     \/ ~InTry(j) /\ Detached(j) /\ ProcessDies
     \/ ~InTry(j) /\ ~Detached(j) /\ At(j, "thrown", 1)
  /\ UNCHANGED <<row, stream, pieces>>

(* A deployment, or another component's rejection, ends the process.       *)
Crash ==
  /\ faults < MaxFaults /\ faults' = faults + 1
  /\ \E j \in Job : Running(j)
  /\ ProcessDies
  /\ UNCHANGED <<row, stream, pieces>>

Step(j) == WriteRow(j) \/ AppendEvent(j) \/ Work(j) \/ MakePiece(j) \/ CheckLimit(j)

Next == \/ \E j \in Job : Start(j) \/ Step(j) \/ Throws(j)
        \/ Crash

Spec == Init /\ [][Next]_vars

-----------------------------------------------------------------------------
(* Properties.                                                             *)

(* How often an event is in a job's stream.                                *)
Count(j, event) == Cardinality({i \in DOMAIN stream[j] : stream[j][i] = event})

(* A media job that ran to its end, straight or through its catch, shows   *)
(* one outcome: the row and the last event of its stream say the same,     *)
(* even when the event "completed" was appended and could not be published *)
(* (processJob).                                                           *)
MediaOutcomeAgrees ==
  \A j \in MediaJob :
    path[j] = "done" => /\ row[j] \in {"completed", "failed"}
                        /\ stream[j] # <<>> /\ Last(stream[j]) = row[j]

(* Nobody resumes a job, so a row that says it is being worked on is       *)
(* backed by a call under way, unless the process ended under it or, for a *)
(* run, the update to "failed" itself threw.                               *)
WorkedOnIsRunning ==
  /\ \A j \in MediaJob : row[j] = "processing" => Running(j) \/ path[j] = "cut"
  /\ \A j \in AiRun : row[j] = "running" => Running(j) \/ path[j] = "cut"
                                            \/ (path[j] = "thrown" /\ faults >= 2)

(* Costs are summed over completed rows: the row of a run whose caller was *)
(* given an error is not left completed, unless recordFailure threw too.   *)
ErrorIsNotCompleted ==
  \A j \in AiRun : (path[j] = "thrown" /\ row[j] = "completed") => faults >= 2

(* However a job ended, its row, its stream and what its caller was told   *)
(* agree as far as the code's catches make them (processJob, recordFailure):*)
(* a finished job shows one outcome, a row that says it is worked on is    *)
(* backed by a call or was cut off, an error leaves no completed row.      *)
OutcomesAgree == TypeOK /\ MediaOutcomeAgrees /\ WorkedOnIsRunning /\ ErrorIsNotCompleted

(* Half a result is never presented as a whole one: what says completed or *)
(* indexed, in its row or its stream, has all its pieces, however it goes  *)
(* on (the last event may throw and leave the row completed).  A listing   *)
(* has told all its steps, and has its draft if it was to have one.        *)
CompletedIsWhole(j) ==
  j \notin AiRun /\ (row[j] = "completed" \/ Count(j, "completed") > 0) =>
    /\ j \in Listing => Count(j, "step") = ListingSteps
    /\ pieces[j] = IF j \in Batch \cup Upload THEN Parts
                   ELSE IF j \in MediaJob \cup Drafting THEN 1 ELSE 0

(* What the stream says happened: "completed" comes after the row said so, *)
(* "failed" is the last word, nothing but a step is told twice, and a step *)
(* of a batch is told once its draft row is in, before the next.  What is  *)
(* said to be completed is whole.                                          *)
StreamsTellTheStory ==
  \A j \in Job :
    /\ \A e \in Event \ {"step"} : Count(j, e) <= 1
    /\ Count(j, "completed") > 0 => row[j] \in {"completed", "failed"}
    /\ Count(j, "failed") > 0 => Last(stream[j]) = "failed" /\ row[j] \in {"failed", "none"}
    /\ j \in Batch => pieces[j] - Count(j, "step") \in {0, 1}
    /\ CompletedIsWhole(j)

(* Counting first and inserting later lets the runs that are under way     *)
(* pass together, but no more than those, however many are asked for.      *)
LimitOverrunBounded == Cardinality(Recent) <= DailyLimit + Slots
=============================================================================
