------------------------- MODULE ContentPublication -------------------------
(* `content workbook|datasource|flow publish`.  A batch is planned twice: the *)
(* command in the foreground plans every row, records the destinations it     *)
(* accepts and the server and site they are on, and the worker it starts      *)
(* plans them again and compares.  Then the rows run side by side; each plans *)
(* once more, verifies its destination, uploads, verifies again and submits.  *)
(* A single publication has no preparation.  All the while others change the  *)
(* site, the configuration and the files.  OperationRun has the worker, the   *)
(* admission and the order of the rows; PublicationStatus the receipts.       *)
EXTENDS Naturals, FiniteSets

CONSTANTS
    Publications,     \* the commands: records [kind, mode]
    MaxDisturbances   \* bound: what others do meanwhile

ASSUME PublicationAssumption ==
    /\ Publications \subseteq
        [kind : {"workbook", "flow"}, mode : {"create", "overwrite"}]
        \cup [kind : {"datasource"}, mode : {"create", "overwrite", "append", "replace"}]
    /\ MaxDisturbances \in Nat

VARIABLES
    cloud,            \* what Tableau and the configuration hold
    files,            \* the version of the file of each row
    publishing,       \* the command and its two processes
    row,              \* its rows
    disturbances      \* what others have done

publicationVars == <<cloud, files, publishing, row, disturbances>>

-----------------------------------------------------------------------------
(* A site is a place for content per project and name; 0 is no content.  Two  *)
(* servers hold copies of one site, with the same LUIDs.  path is the project *)
(* that the path on the command line names, alias the server of --env.        *)

Servers == {1, 2}
BatchRows == {1, 2}
Places == {1, 2} \X {1, 2}
NoDestination == [project |-> 0, name |-> 0, existing |-> 0]
NoEffect == [server |-> 0, place |-> <<0, 0>>, over |-> 0, bytes |-> 0]

(* A row selects its project by the path (0) or by its LUID.                  *)
NewRow(by, name) ==
    [by |-> by, name |-> name, at |-> "new", accepted |-> NoDestination, plan |-> NoDestination,
     path |-> 0, print |-> 0, bytes |-> 0, effect |-> NoEffect, report |-> "", receipt |-> "none", raced |-> FALSE]

ContentAt(server, place) == cloud.content[server][place]
Existing(r, project) == ContentAt(publishing.server, <<project, row[r].name>>)

TypedProject(r) == IF row[r].by = 0 THEN cloud.path ELSE row[r].by

(* An accepted destination takes the place of what was typed.                 *)
ExpectDestination(r) == IF row[r].accepted = NoDestination THEN TypedProject(r) ELSE row[r].accepted.project

DestinationOf(r) ==
    LET project == ExpectDestination(r)
    IN [project |-> project, name |-> row[r].name, existing |-> Existing(r, project)]

PublishCollision(mode, existing) ==
    CASE mode = "create" -> existing = 0
      [] mode = "overwrite" -> TRUE
      [] OTHER -> existing # 0

(* The plan of a row: what it finds, unless that was not what was accepted.   *)
Plannable(r) ==
    LET destination == DestinationOf(r) IN
    /\ PublishCollision(publishing.mode, destination.existing)
    /\ row[r].accepted \in {NoDestination, destination}

RowNumbers == 1 .. publishing.rows
IsBatch == publishing.rows > 1

-----------------------------------------------------------------------------
(* The preparation of a batch, row by row, in the foreground and then in the  *)
(* worker.                                                                    *)

Seen(r) == {q \in RowNumbers : q < r /\ row[q].at = publishing.at}

(* Mutant: only the content to be replaced must not be selected twice.        *)
TakesOnlyContent(destination, other) == destination.existing # 0 /\ destination.existing = other.existing

PublicationTargets(destination, other) ==
    \/ <<destination.project, destination.name>> = <<other.project, other.name>>
    \/ destination.existing # 0 /\ destination.existing = other.existing

RecordPublication(r, destination) == \A q \in Seen(r) : ~PublicationTargets(destination, row[q].accepted)

(* Mutant: the worker takes whatever server its configuration names.          *)
AnyScope == TRUE

BindPublicationScope == publishing.at = "worker" => publishing.server = publishing.scope

NextToPrepare(r) == r \in RowNumbers /\ row[r].at # publishing.at /\ \A q \in RowNumbers : q < r => row[q].at = publishing.at

PreparePublication(r) ==
    /\ publishing.at \in {"foreground", "worker"} /\ NextToPrepare(r)
    /\ LET destination == DestinationOf(r) IN
       IF BindPublicationScope /\ Plannable(r) /\ RecordPublication(r, destination)
       THEN /\ row' = [row EXCEPT ![r].accepted = destination, ![r].at = publishing.at]
            /\ UNCHANGED publishing
       ELSE publishing' = [publishing EXCEPT !.at = "refused"] /\ UNCHANGED row
    /\ UNCHANGED <<cloud, files, disturbances>>

(* The worker is another process: it reads the configuration for itself.      *)
StartWorker ==
    /\ publishing.at = "foreground" /\ \A r \in RowNumbers : row[r].at = "foreground"
    /\ publishing' = [publishing EXCEPT !.at = "worker", !.scope = publishing.server, !.server = cloud.alias]
    /\ UNCHANGED <<cloud, files, row, disturbances>>

RunRows ==
    /\ publishing.at = "worker" /\ \A r \in RowNumbers : row[r].at = "worker"
    /\ publishing' = [publishing EXCEPT !.at = "run"]
    /\ UNCHANGED <<cloud, files, row, disturbances>>

-----------------------------------------------------------------------------
(* One row.                                                                   *)

RowAt(r, step) == publishing.at = "run" /\ r \in RowNumbers /\ row[r].at = step
RowBecomes(r, record) == row' = [row EXCEPT ![r] = record]
RowEnded(r, report) == [row[r] EXCEPT !.at = "done", !.report = report]
OthersUnchanged == UNCHANGED <<cloud, files, publishing, disturbances>>

(* "none" stands for an error that states no outcome.                         *)
PlanRow(r) ==
    /\ publishing.at = "run" /\ r \in RowNumbers /\ row[r].at \in {"new", "worker"}
    /\ RowBecomes(r, IF Plannable(r)
                 THEN [row[r] EXCEPT !.at = "planned", !.plan = DestinationOf(r), !.path = cloud.path,
                                        !.print = files[r]]
                 ELSE RowEnded(r, "none"))
    /\ OthersUnchanged

VerifyOverwriteTarget(r) ==
    publishing.mode = "overwrite" => Existing(r, row[r].plan.project) = row[r].plan.existing

(* The path of the project, too, must be what it was.                         *)
VerifyDestination(r) ==
    LET destination == DestinationOf(r) IN
    /\ destination = row[r].plan /\ cloud.path = row[r].path
    /\ PublishCollision(publishing.mode, destination.existing)

Verified(r) == IF publishing.kind = "workbook" THEN VerifyOverwriteTarget(r) ELSE VerifyDestination(r)
VerifyReport == IF publishing.kind = "workbook" THEN "none" ELSE "not_attempted"

(* Datasources and flows are read again first, workbooks are not.             *)
RevalidateRow(r) ==
    /\ RowAt(r, "planned")
    /\ RowBecomes(r, IF publishing.kind # "workbook" /\ files[r] # row[r].print THEN RowEnded(r, "none")
                     ELSE IF Verified(r) THEN [row[r] EXCEPT !.at = "verified"]
                     ELSE RowEnded(r, VerifyReport))
    /\ OthersUnchanged

(* The bytes are copied, hashed on the way, and the copy is uploaded.         *)
SnapshotPublishPayload(r) == files[r] = row[r].print

PreparePublish(r) ==
    /\ RowAt(r, "verified")
    /\ \/ SnapshotPublishPayload(r) /\ RowBecomes(r, [row[r] EXCEPT !.at = "uploaded", !.bytes = files[r]])
       \/ RowBecomes(r, RowEnded(r, IF publishing.kind = "flow" THEN "not_attempted" ELSE "none"))
    /\ OthersUnchanged

(* Mutant: the destination is not looked at again after the upload.           *)
TrustUpload(r) ==
    RowAt(r, "uploaded") /\ RowBecomes(r, [row[r] EXCEPT !.at = "checked"]) /\ OthersUnchanged

VerifyAgain(r) ==
    /\ RowAt(r, "uploaded")
    /\ RowBecomes(r, IF Verified(r) THEN [row[r] EXCEPT !.at = "checked"] ELSE RowEnded(r, VerifyReport))
    /\ OthersUnchanged

-----------------------------------------------------------------------------
(* The one request.  good: 201 with the wanted identity; differs: with        *)
(* another; odd: 2xx without a usable body; failed: 5xx; lost: no answer;     *)
(* refused: 4xx; unsent: it never left.                                       *)

TakenAnswers == {"good", "differs", "odd", "failed", "lost"}
UntakenAnswers == {"failed", "lost", "refused", "unsent"}

(* Tableau refuses to create where content is, and to append where none is.   *)
TableauTakes(mode, content) == PublishCollision(mode, content)

(* The clients' classification of an answer.                                  *)
CommitWorkbook(answer) ==
    CASE answer \in {"good", "differs"} -> "succeeded"
      [] answer \in {"odd", "lost", "unsent"} -> "unknown"
      [] OTHER -> ""

CommitDatasource(answer) ==
    CASE answer = "good" -> "succeeded"
      [] answer \in {"differs", "odd", "lost", "failed"} -> "unknown"
      [] OTHER -> ""

CommitFlow(answer) == CommitDatasource(answer)

CommitStatus(kind, answer) ==
    CASE kind = "workbook" -> CommitWorkbook(answer)
      [] kind = "datasource" -> CommitDatasource(answer)
      [] kind = "flow" -> CommitFlow(answer)

(* Mutant: an error of the server counts as a refusal.                        *)
RefusedByAnyError(status, answer) ==
    CASE status # "" -> "unknown"
      [] status = "" /\ answer \in {"refused", "failed"} -> "not_applied"
      [] OTHER -> "unknown"

FailureOutcome(status, answer) ==
    CASE status # "" -> "unknown"
      [] status = "" /\ answer = "refused" -> "not_applied"
      [] OTHER -> "unknown"

(* What the accepted answer says is compared with the plan.                   *)
CompleteReport(r, answer, luid) ==
    IF \/ answer = "differs"
       \/ publishing.kind = "datasource" /\ publishing.mode \in {"append", "replace"} /\ luid # row[r].plan.existing
    THEN "confirmed" ELSE "ok"

RowReport(r, answer, luid) ==
    LET status == CommitStatus(publishing.kind, answer) IN
    IF status = "succeeded" THEN CompleteReport(r, answer, luid) ELSE FailureOutcome(status, answer)

(* A receipt is saved of every result with a status; its loss is an error.    *)
ReceiptsOf(status) == IF status = "" THEN {"none"} ELSE {"saved", "failed"}

WithReceipt(r, report, effect, receipt) ==
    [RowEnded(r, IF receipt = "failed" /\ report = "ok" THEN "confirmed" ELSE report)
        EXCEPT !.effect = effect, !.receipt = receipt]

AdmissionDenied(r) ==
    RowAt(r, "checked") /\ RowBecomes(r, RowEnded(r, "not_attempted")) /\ OthersUnchanged

RequestTaken(r, answer) ==
    LET place == <<row[r].plan.project, row[r].plan.name>>
        over == ContentAt(publishing.server, place)
        luid == IF over = 0 THEN cloud.fresh ELSE over
        effect == [server |-> publishing.server, place |-> place, over |-> over, bytes |-> row[r].bytes]
    IN
    /\ RowAt(r, "checked") /\ answer \in TakenAnswers /\ TableauTakes(publishing.mode, over)
    /\ \E receipt \in ReceiptsOf(CommitStatus(publishing.kind, answer)) :
        RowBecomes(r, WithReceipt(r, RowReport(r, answer, luid), effect, receipt))
    /\ cloud' = [cloud EXCEPT !.content[publishing.server][place] = luid,
                              !.fresh = IF over = 0 THEN cloud.fresh + 1 ELSE cloud.fresh]
    /\ UNCHANGED <<files, publishing, disturbances>>

RequestNotTaken(r, answer) ==
    /\ RowAt(r, "checked") /\ answer \in UntakenAnswers
    /\ \E receipt \in ReceiptsOf(CommitStatus(publishing.kind, answer)) :
        RowBecomes(r, WithReceipt(r, RowReport(r, answer, 0), NoEffect, receipt))
    /\ OthersUnchanged

RowStep(r) ==
    \/ PlanRow(r) \/ RevalidateRow(r) \/ PreparePublish(r) \/ VerifyAgain(r) \/ AdmissionDenied(r)
    \/ \E answer \in TakenAnswers : RequestTaken(r, answer)
    \/ \E answer \in UntakenAnswers : RequestNotTaken(r, answer)

-----------------------------------------------------------------------------
(* Others: content appears, goes, or is moved and keeps its LUID; projects    *)
(* are renamed; the alias is given another URL; a file is written.            *)

Disturb(newCloud, newFiles) ==
    /\ disturbances < MaxDisturbances /\ disturbances' = disturbances + 1
    /\ cloud' = newCloud /\ files' = newFiles
    /\ row' = [r \in BatchRows |-> [row[r] EXCEPT !.raced = @ \/ row[r].at = "checked"]]
    /\ UNCHANGED publishing

ContentAppears(place) ==
    ContentAt(1, place) = 0
    /\ Disturb([cloud EXCEPT !.content[1][place] = cloud.fresh, !.fresh = @ + 1], files)
ContentGoes(place) ==
    ContentAt(1, place) # 0 /\ Disturb([cloud EXCEPT !.content[1][place] = 0], files)
ContentMoves(from, to) ==
    /\ ContentAt(1, from) # 0 /\ ContentAt(1, to) = 0
    /\ Disturb([cloud EXCEPT !.content[1][from] = 0, !.content[1][to] = ContentAt(1, from)], files)
PathRenamed == Disturb([cloud EXCEPT !.path = 3 - @], files)
AliasChanged == cloud.alias = 1 /\ Disturb([cloud EXCEPT !.alias = 2], files)
FileWritten(r) == r \in RowNumbers /\ files[r] = 1 /\ Disturb(cloud, [files EXCEPT ![r] = 2])

OthersStep ==
    /\ publishing.at # "refused" /\ \E r \in RowNumbers : row[r].at # "done"
    /\ \/ \E place \in Places : ContentAppears(place) \/ ContentGoes(place)
       \/ \E from, to \in Places : ContentMoves(from, to)
       \/ PathRenamed \/ AliasChanged
       \/ \E r \in BatchRows : FileWritten(r)

-----------------------------------------------------------------------------
PublicationInit ==
    /\ \E here \in {0, 1} : LET site == [p \in Places |-> IF p = <<1, 1>> THEN here ELSE 0] IN
        cloud = [content |-> [s \in Servers |-> site], path |-> 1, alias |-> 1, fresh |-> 2]
    /\ files = [r \in BatchRows |-> 1]
    /\ \E c \in Publications, rows \in BatchRows : publishing =
        [kind |-> c.kind, mode |-> c.mode, rows |-> rows, server |-> 1, scope |-> 0,
         at |-> IF rows = 1 THEN "run" ELSE "foreground"]
    /\ \E second \in {NewRow(0, 2), NewRow(1, 1)} :
        /\ publishing.rows = 1 => second.by = 0
        /\ row = [r \in BatchRows |-> IF r = 1 THEN NewRow(0, 1) ELSE second]
    /\ disturbances = 0

PublicationNext ==
    \/ \E r \in BatchRows : PreparePublication(r) \/ RowStep(r)
    \/ StartWorker \/ RunRows \/ OthersStep

PublicationSpec == PublicationInit /\ [][PublicationNext]_publicationVars

-----------------------------------------------------------------------------
Destinations == [project : 0 .. 2, name : 0 .. 2, existing : 0 .. cloud.fresh]

PublicationTypeOK ==
    /\ cloud.fresh \in Nat /\ cloud.path \in {1, 2} /\ cloud.alias \in Servers
    /\ cloud.content \in [Servers -> [Places -> 0 .. cloud.fresh]]
    /\ files \in [BatchRows -> {1, 2}] /\ disturbances \in 0 .. MaxDisturbances
    /\ \A r \in BatchRows : row[r].accepted \in Destinations /\ row[r].plan \in Destinations

HasEffect(r) == row[r].effect # NoEffect

(* What a row writes is what its plan showed: at the planned place, the bytes *)
(* whose fingerprint was taken, and over the planned content, unless somebody *)
(* changed the place after the last look.                                     *)
WritesAsPlanned(r) ==
    /\ row[r].effect.place = <<row[r].plan.project, row[r].plan.name>>
    /\ row[r].effect.bytes = row[r].print
    /\ row[r].effect.over = row[r].plan.existing \/ row[r].raced

(* A row of a batch writes to the destination, the server and the site that   *)
(* were accepted in the foreground, whatever the alias and the path name now. *)
WritesAsAccepted(r) ==
    IsBatch => row[r].plan = row[r].accepted /\ row[r].effect.server = publishing.scope

(* No publication goes elsewhere than shown, and no two rows of a batch write *)
(* to one place or replace one another's content.                             *)
PublishesWhereShown ==
    /\ PublicationTypeOK
    /\ \A r \in BatchRows : HasEffect(r) => WritesAsPlanned(r) /\ WritesAsAccepted(r)
    /\ \A r, q \in BatchRows : r # q /\ HasEffect(r) /\ HasEffect(q) => row[r].effect.place # row[q].effect.place

(* A report without an outcome, or that nothing was attempted or applied, is  *)
(* made only when nothing was; success and "confirmed" only when something    *)
(* was; and a write is without a receipt only when its failure is reported as *)
(* unknown.                                                                   *)
PublicationIsReported ==
    \A r \in BatchRows : row[r].at = "done" =>
        /\ row[r].report \in {"none", "not_attempted", "not_applied"} => ~HasEffect(r)
        /\ row[r].report \in {"ok", "confirmed"} => HasEffect(r)
        /\ HasEffect(r) /\ row[r].receipt = "none" => row[r].report = "unknown"
        /\ row[r].report = "ok" => row[r].receipt = "saved"
=============================================================================
