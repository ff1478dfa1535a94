---------------------------- MODULE ChangeProofs -----------------------------
(* Proofs about what a command changes in Tableau: publications               *)
(* (ContentPublication), for every kind and mode that the command line takes  *)
(* and any number of disturbances; and the commands that change, create or    *)
(* remove something (RemoteChange), for any number of objects and any number  *)
(* of steps of another administrator.                                         *)
EXTENDS RemoteChange, ContentPublication, TLAPS

USE PublicationAssumption, ChangeAssumption

-----------------------------------------------------------------------------
(* ContentPublication: the types of the state.                                *)

Steps == {"new", "foreground", "worker", "planned", "verified", "uploaded", "checked", "done"}
Working == {"planned", "verified", "uploaded", "checked"}
Reports == {"", "none", "not_attempted", "not_applied", "ok", "confirmed", "unknown"}
Destination == [project : 0 .. 2, name : 0 .. 2, existing : Nat]
Effect == [server : 0 .. 2, place : (0 .. 2) \X (0 .. 2), over : Nat, bytes : 0 .. 2]

Row ==
    [by : 0 .. 1, name : 1 .. 2, at : Steps, accepted : Destination, plan : Destination,
     path : 0 .. 2, print : 0 .. 2, bytes : 0 .. 2, effect : Effect, report : Reports,
     receipt : {"none", "saved", "failed"}, raced : BOOLEAN]

Cloud ==
    [content : [Servers -> [Places -> Nat]], path : {1, 2}, alias : Servers, fresh : Nat]

Publishing ==
    [kind : {"workbook", "datasource", "flow"}, mode : {"create", "overwrite", "append", "replace"},
     rows : 1 .. 2, server : 1 .. 2, scope : 0 .. 2,
     at : {"foreground", "worker", "run", "refused"}]

PlaceOf(d) == <<d.project, d.name>>

-----------------------------------------------------------------------------
(* What is known of row m of publication p while Tableau holds c.             *)

(* Its plan is the destination it was accepted for, if there was a            *)
(* preparation, and creates only where nothing is.                            *)
PlannedRow(m, p) ==
    /\ m.plan.name = m.name /\ m.plan.project \in {1, 2}
    /\ m.accepted \in {NoDestination, m.plan}
    /\ p.rows > 1 => m.accepted = m.plan
    /\ p.mode = "create" => m.plan.existing = 0

(* Its place still is as planned, unless somebody changed it after the last   *)
(* look; the creation of a workbook takes no such look.                       *)
LookedAt(m, p, c) ==
    \/ m.raced \/ (p.kind = "workbook" /\ p.mode = "create")
    \/ c.content[p.server][PlaceOf(m.plan)] = m.plan.existing

WrittenRow(m, p) ==
    /\ m.effect.place = PlaceOf(m.plan) /\ m.effect.bytes = m.print
    /\ m.effect.over = m.plan.existing \/ m.raced
    /\ m.effect.server = p.server

ReportedRow(m) ==
    m.at = "done" =>
        /\ m.report \in {"none", "not_attempted", "not_applied"} => m.effect = NoEffect
        /\ m.report \in {"ok", "confirmed"} => m.effect # NoEffect
        /\ m.effect # NoEffect /\ m.receipt = "none" => m.report = "unknown"
        /\ m.report = "ok" => m.receipt = "saved"

KeptRow(m, p, c) ==
    /\ m \in Row
    /\ m.accepted.existing <= c.fresh /\ m.plan.existing <= c.fresh
    /\ m.accepted # NoDestination => m.accepted.name = m.name /\ m.accepted.project \in {1, 2}
    /\ m.at # "done" => m.effect = NoEffect /\ m.receipt = "none"
    /\ m.at \in Working => PlannedRow(m, p)
    /\ m.at \in {"uploaded", "checked"} => m.bytes = m.print
    /\ m.at = "checked" => LookedAt(m, p, c)
    /\ m.effect # NoEffect => PlannedRow(m, p) /\ WrittenRow(m, p)
    /\ ReportedRow(m)

(* The stages of the preparation of a batch, and the rows that do not take    *)
(* part.  A row of a batch runs on the server and site accepted for it.       *)
StageOf(m, p) ==
    /\ p.at = "foreground" => m.at \in {"new", "foreground"} /\ (m.at = "new" <=> m.accepted = NoDestination)
    /\ p.at = "worker" => m.at \in {"foreground", "worker"} /\ m.accepted # NoDestination
    /\ p.at = "worker" /\ m.at = "worker" => p.server = p.scope
    /\ p.at = "run" /\ p.rows > 1 => p.server = p.scope /\ m.accepted # NoDestination
    /\ m.at \in Working => p.at = "run"
    /\ m.effect # NoEffect => p.at = "run"

Idle(m) == m.at = "new" /\ m.effect = NoEffect

(* No two rows of a batch are accepted for one place.                         *)
AcceptedApart ==
    publishing.rows > 1 /\ row[1].accepted # NoDestination /\ row[2].accepted # NoDestination =>
        PlaceOf(row[1].accepted) # PlaceOf(row[2].accepted)

InOrder == publishing.at = "foreground" /\ publishing.rows > 1 /\ row[2].at # "new" => row[1].at # "new"

PublicationInv ==
    /\ cloud \in Cloud /\ publishing \in Publishing
    /\ \A s \in Servers, p \in Places : cloud.content[s][p] <= cloud.fresh
    /\ publishing.kind # "datasource" => publishing.mode \in {"create", "overwrite"}
    /\ files \in [BatchRows -> {1, 2}] /\ disturbances \in 0 .. MaxDisturbances
    /\ row \in [BatchRows -> Row]
    /\ \A r \in BatchRows : KeptRow(row[r], publishing, cloud)
    /\ \A r \in BatchRows : IF r <= publishing.rows THEN StageOf(row[r], publishing) ELSE Idle(row[r])
    /\ AcceptedApart /\ InOrder
LEMMA PublicationTyped ==
    ASSUME PublicationInv
    PROVE  /\ cloud \in Cloud /\ publishing \in Publishing
           /\ cloud.fresh \in Nat /\ cloud.path \in {1, 2} /\ cloud.alias \in {1, 2}
           /\ publishing.server \in {1, 2} /\ publishing.rows \in {1, 2} /\ publishing.scope \in 0 .. 2
           /\ cloud.content \in [{1, 2} -> [Places -> Nat]]
           /\ \A r \in BatchRows : row[r] \in Row /\ KeptRow(row[r], publishing, cloud)
BY DEF PublicationInv, Cloud, Publishing, Servers

LEMMA RowTyped ==
    ASSUME PublicationInv, NEW r \in BatchRows
    PROVE  /\ row[r] \in Row /\ row[r].by \in {0, 1} /\ row[r].name \in {1, 2}
           /\ row[r].at \in Steps /\ row[r].print \in 0 .. 2 /\ row[r].bytes \in 0 .. 2
           /\ row[r].accepted \in Destination /\ row[r].plan \in Destination
           /\ row[r].effect \in Effect /\ row[r].path \in 0 .. 2
           /\ row[r].accepted.existing \in Nat /\ row[r].plan.existing \in Nat
BY PublicationTyped DEF Row, Destination

(* What the plan of a row finds.                                              *)
LEMMA DestinationFound ==
    ASSUME PublicationInv, NEW r \in BatchRows
    PROVE  LET d == DestinationOf(r) IN
           /\ d \in Destination /\ d.name = row[r].name /\ d.project \in {1, 2}
           /\ d.existing = cloud.content[publishing.server][PlaceOf(d)]
           /\ d.existing = Existing(r, d.project) /\ d.existing \in Nat
           /\ d.existing <= cloud.fresh /\ d # NoDestination
           /\ d.project = ExpectDestination(r)
<1> DEFINE project == ExpectDestination(r)
           d == DestinationOf(r)
<1>1. KeptRow(row[r], publishing, cloud)
    BY PublicationTyped
<1>2. project \in {1, 2}
    BY <1>1, RowTyped, PublicationTyped DEF ExpectDestination, TypedProject, KeptRow
<1>3. d = [project |-> project, name |-> row[r].name, existing |-> Existing(r, project)]
    BY DEF DestinationOf
<1>4. <<project, row[r].name>> \in Places
    BY <1>2, RowTyped DEF Places
<1>5. Existing(r, project) = cloud.content[publishing.server][<<project, row[r].name>>]
    BY DEF Existing, ContentAt
<1> HIDE DEF project, d
<1>6. Existing(r, project) \in Nat
    BY <1>4, <1>5, PublicationTyped
<1>7. Existing(r, project) <= cloud.fresh
    BY <1>4, <1>5, PublicationTyped DEF PublicationInv, Servers
<1>8. d.name = row[r].name /\ d.project = project /\ d.existing = Existing(r, project)
    BY <1>3
<1>9. d \in Destination
    BY <1>2, <1>3, <1>6, RowTyped DEF Destination
<1>10. d # NoDestination
    BY <1>2, <1>8 DEF NoDestination
<1>11. d.existing = cloud.content[publishing.server][PlaceOf(d)]
    BY <1>5, <1>8 DEF PlaceOf
<1> QED
    BY <1>2, <1>6, <1>7, <1>8, <1>9, <1>10, <1>11 DEF project, d

(* The invariant implies the properties.                                      *)
LEMMA InvPublishes == ASSUME PublicationInv PROVE PublishesWhereShown
<1>1. PublicationTypeOK
    <2>1. ASSUME NEW r \in BatchRows
          PROVE  row[r].accepted \in Destinations /\ row[r].plan \in Destinations
        <3>1. KeptRow(row[r], publishing, cloud) /\ cloud.fresh \in Nat
            BY PublicationTyped
        <3>2. row[r].accepted.existing <= cloud.fresh /\ row[r].plan.existing <= cloud.fresh
            BY <3>1 DEF KeptRow
        <3> QED
            BY <3>1, <3>2, RowTyped DEF Destinations, Destination
    <2>2. cloud.content \in [Servers -> [Places -> 0 .. cloud.fresh]]
        BY PublicationTyped DEF PublicationInv, Servers
    <2> QED
        BY <2>1, <2>2, PublicationTyped DEF PublicationTypeOK, PublicationInv, Servers
<1>2. ASSUME NEW r \in BatchRows, HasEffect(r)
      PROVE  /\ WritesAsPlanned(r) /\ WritesAsAccepted(r) /\ r <= publishing.rows
             /\ publishing.rows > 1 => row[r].accepted = row[r].plan /\ row[r].accepted # NoDestination
             /\ row[r].effect.place = PlaceOf(row[r].plan)
    <2>1. row[r].effect # NoEffect
        BY <1>2 DEF HasEffect
    <2>2. PlannedRow(row[r], publishing) /\ WrittenRow(row[r], publishing)
        BY <2>1, PublicationTyped DEF KeptRow
    <2>3. r <= publishing.rows /\ StageOf(row[r], publishing)
        BY <2>1 DEF PublicationInv, Idle
    <2>4. publishing.rows > 1 => publishing.server = publishing.scope /\ row[r].accepted # NoDestination
        BY <2>1, <2>3 DEF StageOf
    <2> QED
        BY <2>2, <2>3, <2>4 DEF PlannedRow, WrittenRow, WritesAsPlanned, WritesAsAccepted, IsBatch, PlaceOf
<1>3. ASSUME NEW r \in BatchRows, NEW q \in BatchRows, r # q, HasEffect(r), HasEffect(q)
      PROVE  row[r].effect.place # row[q].effect.place
    <2>1. publishing.rows > 1
        BY <1>2, <1>3, PublicationTyped DEF BatchRows
    <2>2. /\ row[r].effect.place = PlaceOf(row[r].accepted) /\ row[r].accepted # NoDestination
          /\ row[q].effect.place = PlaceOf(row[q].accepted) /\ row[q].accepted # NoDestination
        BY <1>2, <1>3, <2>1
    <2> QED
        BY <1>3, <2>1, <2>2 DEF PublicationInv, AcceptedApart, BatchRows
<1> QED
    BY <1>1, <1>2, <1>3 DEF PublishesWhereShown

LEMMA InvReports == ASSUME PublicationInv PROVE PublicationIsReported
BY PublicationTyped DEF KeptRow, ReportedRow, PublicationIsReported, HasEffect

(* One row of a running publication takes a step.                             *)
LEMMA OneRowMoves ==
    ASSUME PublicationInv, NEW r \in BatchRows, NEW m,
           publishing.at = "run", r <= publishing.rows, OthersUnchanged,
           row' = [row EXCEPT ![r] = m], KeptRow(m, publishing, cloud),
           m.accepted = row[r].accepted
    PROVE  PublicationInv'
<1>1. row \in [BatchRows -> Row] /\ m \in Row
    BY DEF PublicationInv, KeptRow
<1>2. row' \in [BatchRows -> Row] /\ row'[r] = m /\ \A q \in BatchRows \ {r} : row'[q] = row[q]
    BY <1>1
<1>3. cloud' = cloud /\ files' = files /\ publishing' = publishing /\ disturbances' = disturbances
    BY DEF OthersUnchanged
<1>4. \A q \in BatchRows : KeptRow(row'[q], publishing, cloud)
    BY <1>2, PublicationTyped
<1>5. StageOf(row[r], publishing)
    BY DEF PublicationInv
<1>6. StageOf(m, publishing)
    BY <1>5 DEF StageOf
<1>7. \A q \in BatchRows : IF q <= publishing.rows THEN StageOf(row'[q], publishing) ELSE Idle(row'[q])
    BY <1>2, <1>6 DEF PublicationInv
<1>8. \A q \in BatchRows : row'[q].accepted = row[q].accepted
    BY <1>2
<1>9. AcceptedApart' /\ InOrder'
    BY <1>3, <1>8 DEF PublicationInv, AcceptedApart, InOrder, BatchRows
<1>10. \A q \in BatchRows : KeptRow(row'[q], publishing', cloud')
    BY <1>3, <1>4
<1>11. \A q \in BatchRows : IF q <= publishing'.rows THEN StageOf(row'[q], publishing') ELSE Idle(row'[q])
    BY <1>3, <1>7
<1> QED
    BY <1>2, <1>3, <1>9, <1>10, <1>11 DEF PublicationInv
(* A row that has not written ends with a report of no effect, or moves on.   *)
LEMMA RowEndsKept ==
    ASSUME PublicationInv, NEW r \in BatchRows, row[r].at # "done",
           NEW report \in {"none", "not_attempted"}
    PROVE  /\ KeptRow(RowEnded(r, report), publishing, cloud)
           /\ RowEnded(r, report).accepted = row[r].accepted
<1> DEFINE m == RowEnded(r, report)
<1>1. m = [row[r] EXCEPT !.at = "done", !.report = report]
    BY DEF RowEnded
<1>2. report \in Reports /\ "done" \in Steps /\ row[r] \in Row
    BY RowTyped DEF Reports, Steps
<1> HIDE DEF m
<1>3. /\ m \in Row /\ m.at = "done" /\ m.report = report /\ m.accepted = row[r].accepted
      /\ m.plan = row[r].plan /\ m.name = row[r].name /\ m.effect = row[r].effect
    BY <1>1, <1>2 DEF Row
<1>4. KeptRow(row[r], publishing, cloud)
    BY PublicationTyped
<1>5. m.effect = NoEffect
    BY <1>3, <1>4 DEF KeptRow
<1>6. KeptRow(m, publishing, cloud)
    BY <1>3, <1>4, <1>5 DEF KeptRow, ReportedRow, Working
<1> QED
    BY <1>3, <1>6 DEF m

LEMMA RowEndsKeeps ==
    ASSUME PublicationInv, NEW r \in BatchRows, publishing.at = "run", r <= publishing.rows,
           OthersUnchanged, row[r].at # "done", NEW report \in {"none", "not_attempted"},
           RowBecomes(r, RowEnded(r, report))
    PROVE  PublicationInv'
BY RowEndsKept, OneRowMoves DEF RowBecomes

LEMMA RowAdvancesKept ==
    ASSUME PublicationInv, NEW r \in BatchRows, row[r].at # "done",
           NEW m \in Row, m.at # "done", m.accepted = row[r].accepted, m.plan = row[r].plan,
           m.name = row[r].name, m.effect = row[r].effect, m.receipt = row[r].receipt,
           m.at \in Working => row[r].at \in Working,
           m.at \in {"uploaded", "checked"} => m.bytes = m.print,
           m.at = "checked" => LookedAt(m, publishing, cloud)
    PROVE  KeptRow(m, publishing, cloud)
<1>1. KeptRow(row[r], publishing, cloud)
    BY PublicationTyped
<1>2. m.effect = NoEffect
    BY <1>1 DEF KeptRow
<1>3. m.at \in Working => PlannedRow(m, publishing)
    BY <1>1 DEF KeptRow, PlannedRow
<1> QED
    BY <1>1, <1>2, <1>3 DEF KeptRow, ReportedRow

LEMMA RowRuns ==
    ASSUME PublicationInv, NEW r \in BatchRows, NEW step, RowAt(r, step)
    PROVE  publishing.at = "run" /\ r <= publishing.rows /\ row[r].at = step
BY PublicationTyped DEF RowAt, RowNumbers, BatchRows

LEMMA PlanRowKeeps == ASSUME PublicationInv, NEW r \in BatchRows, PlanRow(r) PROVE PublicationInv'
<1>1. /\ publishing.at = "run" /\ r <= publishing.rows /\ row[r].at \in {"new", "worker"}
      /\ OthersUnchanged
    BY PublicationTyped DEF PlanRow, RowNumbers
<1> DEFINE d == DestinationOf(r)
           m == [row[r] EXCEPT !.at = "planned", !.plan = d, !.path = cloud.path, !.print = files[r]]
<1>2. CASE ~Plannable(r)
    <2>1. RowBecomes(r, RowEnded(r, "none"))
        BY <1>2 DEF PlanRow
    <2> QED
        BY <1>1, <2>1, RowEndsKeeps
<1>3. CASE Plannable(r)
    <2>1. row' = [row EXCEPT ![r] = m]
        BY <1>3 DEF PlanRow, RowBecomes
    <2>2. /\ PublishCollision(publishing.mode, d.existing) /\ row[r].accepted \in {NoDestination, d}
        BY <1>3 DEF Plannable
    <2>3. /\ d \in Destination /\ d.name = row[r].name /\ d.project \in {1, 2}
          /\ d.existing \in Nat /\ d.existing <= cloud.fresh
        BY DestinationFound
    <2> HIDE DEF d
    <2>4. "planned" \in Steps /\ cloud.path \in 0 .. 2 /\ files[r] \in 0 .. 2 /\ row[r] \in Row
        BY RowTyped, PublicationTyped DEF Steps, PublicationInv
    <2>5. /\ m \in Row /\ m.at = "planned" /\ m.plan = d /\ m.accepted = row[r].accepted
          /\ m.name = row[r].name /\ m.effect = row[r].effect /\ m.receipt = row[r].receipt
        BY <2>3, <2>4 DEF Row
    <2> HIDE DEF m
    <2>6. KeptRow(row[r], publishing, cloud) /\ StageOf(row[r], publishing)
        BY <1>1, PublicationTyped DEF PublicationInv
    <2>7. publishing.mode = "create" => d.existing = 0
        BY <2>2 DEF PublishCollision
    <2>8. publishing.rows > 1 => row[r].accepted = d
        BY <1>1, <2>2, <2>6 DEF StageOf
    <2>9. PlannedRow(m, publishing)
        BY <2>2, <2>3, <2>5, <2>7, <2>8 DEF PlannedRow
    <2>10. KeptRow(m, publishing, cloud)
        BY <1>1, <2>3, <2>5, <2>6, <2>9 DEF KeptRow, ReportedRow, Working
    <2> QED
        BY <1>1, <2>1, <2>5, <2>10, OneRowMoves
<1> QED
    BY <1>2, <1>3

(* A row that goes on to another step without any other change.               *)
LEMMA RowGoesOn ==
    ASSUME PublicationInv, NEW r \in BatchRows, publishing.at = "run", r <= publishing.rows,
           OthersUnchanged, row[r].at \in Working, NEW at \in {"verified", "checked"},
           RowBecomes(r, [row[r] EXCEPT !.at = at]),
           at = "checked" => row[r].at = "uploaded" /\ LookedAt(row[r], publishing, cloud)
    PROVE  PublicationInv'
<1> DEFINE m == [row[r] EXCEPT !.at = at]
<1>1. row' = [row EXCEPT ![r] = m]
    BY DEF RowBecomes
<1>2. at \in Steps /\ row[r] \in Row
    BY RowTyped DEF Steps
<1>3. /\ m \in Row /\ m.at = at /\ m.accepted = row[r].accepted /\ m.plan = row[r].plan
      /\ m.name = row[r].name /\ m.effect = row[r].effect /\ m.receipt = row[r].receipt
      /\ m.bytes = row[r].bytes /\ m.print = row[r].print /\ (row[r].raced => m.raced)
    BY <1>2 DEF Row
<1> HIDE DEF m
<1>4. KeptRow(row[r], publishing, cloud) /\ row[r].at # "done"
    BY PublicationTyped DEF Working
<1>5. m.at = "checked" => m.bytes = m.print /\ LookedAt(m, publishing, cloud)
    BY <1>3, <1>4 DEF KeptRow, LookedAt
<1>6. KeptRow(m, publishing, cloud)
    BY <1>3, <1>4, <1>5, RowAdvancesKept
<1> QED
    BY <1>1, <1>3, <1>6, OneRowMoves

LEMMA RevalidateKeeps ==
    ASSUME PublicationInv, NEW r \in BatchRows, RevalidateRow(r) PROVE PublicationInv'
<1>1. /\ publishing.at = "run" /\ r <= publishing.rows /\ row[r].at = "planned" /\ OthersUnchanged
    BY RowRuns DEF RevalidateRow
<1>2. \/ RowBecomes(r, RowEnded(r, "none"))
      \/ RowBecomes(r, RowEnded(r, VerifyReport))
      \/ RowBecomes(r, [row[r] EXCEPT !.at = "verified"])
    BY DEF RevalidateRow
<1>3. VerifyReport \in {"none", "not_attempted"}
    BY DEF VerifyReport
<1> QED
    BY <1>1, <1>2, <1>3, RowEndsKeeps, RowGoesOn DEF Working

LEMMA PreparePublishKeeps ==
    ASSUME PublicationInv, NEW r \in BatchRows, PreparePublish(r) PROVE PublicationInv'
<1>1. /\ publishing.at = "run" /\ r <= publishing.rows /\ row[r].at = "verified" /\ OthersUnchanged
    BY RowRuns DEF PreparePublish
<1> DEFINE m == [row[r] EXCEPT !.at = "uploaded", !.bytes = files[r]]
           report == IF publishing.kind = "flow" THEN "not_attempted" ELSE "none"
<1>2. CASE files[r] = row[r].print /\ RowBecomes(r, m)
    <2>1. row' = [row EXCEPT ![r] = m]
        BY <1>2 DEF RowBecomes
    <2>2. "uploaded" \in Steps /\ row[r] \in Row /\ files[r] \in 0 .. 2
        BY RowTyped DEF Steps, PublicationInv
    <2>3. /\ m \in Row /\ m.at = "uploaded" /\ m.accepted = row[r].accepted /\ m.plan = row[r].plan
          /\ m.name = row[r].name /\ m.effect = row[r].effect /\ m.receipt = row[r].receipt
          /\ m.bytes = files[r] /\ m.print = row[r].print
        BY <2>2 DEF Row
    <2> HIDE DEF m
    <2>4. KeptRow(m, publishing, cloud)
        BY <1>1, <1>2, <2>3, RowAdvancesKept DEF Working
    <2> QED
        BY <1>1, <2>1, <2>3, <2>4, OneRowMoves
<1>3. CASE RowBecomes(r, RowEnded(r, report))
    <2>1. report \in {"none", "not_attempted"}
        OBVIOUS
    <2> HIDE DEF report
    <2> QED
        BY <1>1, <1>3, <2>1, RowEndsKeeps
<1> QED
    BY <1>2, <1>3 DEF PreparePublish, SnapshotPublishPayload

(* A row that is verified sees its place as it was planned.                   *)
LEMMA VerifiedLooks ==
    ASSUME PublicationInv, NEW r \in BatchRows, row[r].at \in Working, Verified(r)
    PROVE  LookedAt(row[r], publishing, cloud)
<1>1. PlannedRow(row[r], publishing)
    BY PublicationTyped DEF KeptRow
<1>2. CASE publishing.kind = "workbook"
    <2>1. publishing.mode \in {"create", "overwrite"}
        BY <1>2 DEF PublicationInv
    <2>2. VerifyOverwriteTarget(r)
        BY <1>2 DEF Verified
    <2>3. publishing.mode = "overwrite" =>
            cloud.content[publishing.server][PlaceOf(row[r].plan)] = row[r].plan.existing
        BY <1>1, <2>2 DEF VerifyOverwriteTarget, Existing, ContentAt, PlaceOf, PlannedRow
    <2> QED
        BY <1>2, <2>1, <2>3 DEF LookedAt
<1>3. CASE publishing.kind # "workbook"
    <2>1. DestinationOf(r) = row[r].plan
        BY <1>3 DEF Verified, VerifyDestination
    <2> QED
        BY <2>1, DestinationFound DEF LookedAt
<1> QED
    BY <1>2, <1>3

LEMMA VerifyAgainKeeps ==
    ASSUME PublicationInv, NEW r \in BatchRows, VerifyAgain(r) PROVE PublicationInv'
<1>1. /\ publishing.at = "run" /\ r <= publishing.rows /\ row[r].at = "uploaded" /\ OthersUnchanged
    BY RowRuns DEF VerifyAgain
<1>2. CASE Verified(r) /\ RowBecomes(r, [row[r] EXCEPT !.at = "checked"])
    BY <1>1, <1>2, VerifiedLooks, RowGoesOn DEF Working
<1>3. CASE RowBecomes(r, RowEnded(r, VerifyReport))
    <2>1. VerifyReport \in {"none", "not_attempted"}
        BY DEF VerifyReport
    <2> QED
        BY <1>1, <1>3, <2>1, RowEndsKeeps
<1> QED
    BY <1>2, <1>3 DEF VerifyAgain

LEMMA DeniedKeeps ==
    ASSUME PublicationInv, NEW r \in BatchRows, AdmissionDenied(r) PROVE PublicationInv'
<1>1. /\ publishing.at = "run" /\ r <= publishing.rows /\ row[r].at = "checked" /\ OthersUnchanged
      /\ RowBecomes(r, RowEnded(r, "not_attempted"))
    BY RowRuns DEF AdmissionDenied
<1> QED
    BY <1>1, RowEndsKeeps
(* The report of a row that Tableau has answered.                             *)
LEMMA AnsweredReport ==
    ASSUME NEW answer \in TakenAnswers \cup UntakenAnswers, NEW status, NEW kind,
           kind \in {"workbook", "datasource", "flow"}, status = CommitStatus(kind, answer)
    PROVE  /\ status \in {"succeeded", "unknown", ""}
           /\ status = "succeeded" => answer \in TakenAnswers \ UntakenAnswers
           /\ answer \in TakenAnswers /\ status # "succeeded" => FailureOutcome(status, answer) = "unknown"
           /\ FailureOutcome(status, answer) \in {"unknown", "not_applied"}
BY DEF CommitStatus, CommitWorkbook, CommitDatasource, CommitFlow, FailureOutcome, TakenAnswers, UntakenAnswers

LEMMA AnsweredRow ==
    ASSUME PublicationInv, NEW r \in BatchRows, row[r].at = "checked",
           NEW report \in {"ok", "confirmed", "unknown", "not_applied"}, NEW effect \in Effect,
           NEW receipt \in {"none", "saved", "failed"}
    PROVE  LET m == WithReceipt(r, report, effect, receipt) IN
           /\ m \in Row /\ m.at = "done" /\ m.accepted = row[r].accepted /\ m.plan = row[r].plan
           /\ m.name = row[r].name /\ m.effect = effect /\ m.receipt = receipt
           /\ m.report = (IF receipt = "failed" /\ report = "ok" THEN "confirmed" ELSE report)
           /\ m.print = row[r].print /\ (m.raced <=> row[r].raced)
<1> DEFINE told == IF receipt = "failed" /\ report = "ok" THEN "confirmed" ELSE report
           ended == [row[r] EXCEPT !.at = "done", !.report = told]
           m == [ended EXCEPT !.effect = effect, !.receipt = receipt]
<1>1. told \in Reports /\ "done" \in Steps /\ row[r] \in Row
    BY RowTyped DEF Reports, Steps
<1>2. WithReceipt(r, report, effect, receipt) = m
    BY DEF WithReceipt, RowEnded
<1> HIDE DEF told
<1>3. /\ ended \in Row /\ ended.at = "done" /\ ended.accepted = row[r].accepted
      /\ ended.plan = row[r].plan /\ ended.name = row[r].name /\ ended.report = told
      /\ ended.print = row[r].print /\ (ended.raced <=> row[r].raced)
    BY <1>1 DEF Row
<1> HIDE DEF ended
<1>4. /\ m \in Row /\ m.at = "done" /\ m.accepted = row[r].accepted /\ m.plan = row[r].plan
      /\ m.name = row[r].name /\ m.effect = effect /\ m.receipt = receipt /\ m.report = told
      /\ m.print = row[r].print /\ (m.raced <=> row[r].raced)
    BY <1>3 DEF Row
<1> HIDE DEF m
<1> QED
    BY <1>2, <1>4 DEF told

LEMMA NotTakenKeeps ==
    ASSUME PublicationInv, NEW r \in BatchRows, NEW answer \in UntakenAnswers,
           RequestNotTaken(r, answer)
    PROVE  PublicationInv'
<1>1. /\ publishing.at = "run" /\ r <= publishing.rows /\ row[r].at = "checked" /\ OthersUnchanged
    BY RowRuns DEF RequestNotTaken
<1> DEFINE status == CommitStatus(publishing.kind, answer)
           report == FailureOutcome(status, answer)
<1>2. PICK receipt \in ReceiptsOf(status) :
        RowBecomes(r, WithReceipt(r, RowReport(r, answer, 0), NoEffect, receipt))
    BY DEF RequestNotTaken
<1>3. publishing.kind \in {"workbook", "datasource", "flow"}
    BY PublicationTyped DEF Publishing
<1>4. status # "succeeded" /\ report \in {"unknown", "not_applied"}
    BY <1>3, AnsweredReport
<1>5. RowReport(r, answer, 0) = report
    BY <1>4 DEF RowReport
<1>6. receipt \in {"none", "saved", "failed"} /\ NoEffect \in Effect
    <2>1. <<0, 0>> \in (0 .. 2) \X (0 .. 2)
        OBVIOUS
    <2>2. NoEffect \in Effect
        BY <2>1 DEF NoEffect, Effect
    <2>3. receipt \in {"none", "saved", "failed"}
        BY DEF ReceiptsOf
    <2> QED
        BY <2>2, <2>3
<1> DEFINE m == WithReceipt(r, report, NoEffect, receipt)
<1>7. row' = [row EXCEPT ![r] = m]
    BY <1>2, <1>5 DEF RowBecomes
<1> HIDE DEF report, status
<1>8. /\ m \in Row /\ m.at = "done" /\ m.accepted = row[r].accepted /\ m.plan = row[r].plan
      /\ m.name = row[r].name /\ m.effect = NoEffect /\ m.report = report
    BY <1>1, <1>4, <1>6, AnsweredRow
<1> HIDE DEF m
<1>9. KeptRow(row[r], publishing, cloud)
    BY PublicationTyped
<1>10. KeptRow(m, publishing, cloud)
    BY <1>4, <1>8, <1>9 DEF KeptRow, ReportedRow, Working
<1> QED
    BY <1>1, <1>7, <1>8, <1>10, OneRowMoves

(* Tableau's new contents: a row at another place keeps what is known of it.  *)
LEMMA CloudChanges ==
    ASSUME PublicationInv, NEW m, NEW c \in Cloud, KeptRow(m, publishing, cloud),
           cloud.fresh <= c.fresh,
           m.at = "checked" => m.raced \/ c.content[publishing.server][PlaceOf(m.plan)]
                                            = cloud.content[publishing.server][PlaceOf(m.plan)]
    PROVE  KeptRow(m, publishing, c)
<1>1. cloud.fresh \in Nat /\ c.fresh \in Nat /\ m \in Row
    BY PublicationTyped DEF Cloud, KeptRow
<1>2. m.accepted.existing \in Nat /\ m.plan.existing \in Nat
    BY <1>1 DEF Row, Destination
<1>3. m.accepted.existing <= c.fresh /\ m.plan.existing <= c.fresh
    BY <1>1, <1>2 DEF KeptRow
<1>4. m.at = "checked" => LookedAt(m, publishing, c)
    BY DEF KeptRow, LookedAt
<1> QED
    BY <1>3, <1>4 DEF KeptRow

(* Rows of a batch that are being worked on have different places.            *)
LEMMA WorkingApart ==
    ASSUME PublicationInv, NEW r \in BatchRows, NEW q \in BatchRows, r # q,
           row[r].at \in Working, row[q].at \in Working
    PROVE  PlaceOf(row[r].plan) # PlaceOf(row[q].plan)
<1>1. r <= publishing.rows /\ q <= publishing.rows
    BY DEF PublicationInv, Idle, Working
<1>2. publishing.rows > 1
    BY <1>1, PublicationTyped DEF BatchRows
<1>3. PlannedRow(row[r], publishing) /\ PlannedRow(row[q], publishing)
    BY PublicationTyped DEF KeptRow
<1>4. /\ row[r].accepted = row[r].plan /\ row[q].accepted = row[q].plan
      /\ row[r].plan # NoDestination /\ row[q].plan # NoDestination
    BY <1>2, <1>3 DEF PlannedRow, NoDestination
<1> QED
    BY <1>2, <1>4 DEF PublicationInv, AcceptedApart, BatchRows

LEMMA TakenKeeps ==
    ASSUME PublicationInv, NEW r \in BatchRows, NEW answer \in TakenAnswers,
           RequestTaken(r, answer)
    PROVE  PublicationInv'
<1> DEFINE place == PlaceOf(row[r].plan)
           over == cloud.content[publishing.server][place]
           luid == IF over = 0 THEN cloud.fresh ELSE over
           fresh == IF over = 0 THEN cloud.fresh + 1 ELSE cloud.fresh
           effect == [server |-> publishing.server, place |-> place, over |-> over, bytes |-> row[r].bytes]
           status == CommitStatus(publishing.kind, answer)
           report == RowReport(r, answer, luid)
<1>1. /\ publishing.at = "run" /\ r <= publishing.rows /\ row[r].at = "checked"
      /\ UNCHANGED <<files, publishing, disturbances>> /\ TableauTakes(publishing.mode, over)
    BY RowRuns, ZenonT(30) DEF RequestTaken, ContentAt, PlaceOf
<1>2. PICK receipt \in ReceiptsOf(status) : RowBecomes(r, WithReceipt(r, report, effect, receipt))
    BY ZenonT(30) DEF RequestTaken, ContentAt, PlaceOf
<1>3. cloud' = [cloud EXCEPT !.content[publishing.server][place] = luid, !.fresh = fresh]
    BY ZenonT(30) DEF RequestTaken, ContentAt, PlaceOf
<1>4. KeptRow(row[r], publishing, cloud) /\ PlannedRow(row[r], publishing)
      /\ LookedAt(row[r], publishing, cloud) /\ row[r].bytes = row[r].print
    BY <1>1, PublicationTyped DEF KeptRow, Working
<1>5. place \in Places /\ place \in (0 .. 2) \X (0 .. 2) /\ publishing.server \in Servers
      /\ publishing.server \in 0 .. 2
    BY <1>4, RowTyped, PublicationTyped DEF PlannedRow, PlaceOf, Places, Servers
<1>6. over \in Nat /\ over <= cloud.fresh /\ cloud.fresh \in Nat
    <2> HIDE DEF place
    <2> QED
        BY <1>5, PublicationTyped DEF PublicationInv, Servers
<1>7. over = row[r].plan.existing \/ row[r].raced
    BY <1>1, <1>4 DEF LookedAt, PlannedRow, TableauTakes, PublishCollision
<1> HIDE DEF over
<1>8. effect \in Effect /\ effect # NoEffect
    <2> HIDE DEF place
    <2>1. effect \in Effect
        BY <1>5, <1>6, RowTyped DEF Effect
    <2>2. effect.server # NoEffect.server
        BY <1>5 DEF NoEffect, Servers
    <2> QED
        BY <2>1, <2>2
<1>9. effect.place = place /\ effect.server = publishing.server /\ effect.over = over
      /\ effect.bytes = row[r].bytes
    OBVIOUS
<1> HIDE DEF effect
<1>10. publishing.kind \in {"workbook", "datasource", "flow"}
    BY PublicationTyped DEF Publishing
<1>11. status \in {"succeeded", "unknown", ""} /\ (status # "succeeded" => FailureOutcome(status, answer) = "unknown")
    BY <1>10, AnsweredReport
<1>12. report \in {"ok", "confirmed", "unknown"} /\ (report # "unknown" => status = "succeeded")
    BY <1>11 DEF RowReport, CompleteReport
<1>13. receipt \in {"none", "saved", "failed"} /\ (receipt = "none" => status = "")
    BY DEF ReceiptsOf
<1> HIDE DEF report, status, luid, fresh
<1> DEFINE m == WithReceipt(r, report, effect, receipt)
<1>14. row' = [row EXCEPT ![r] = m]
    BY <1>2 DEF RowBecomes
<1>15. /\ m \in Row /\ m.at = "done" /\ m.accepted = row[r].accepted /\ m.plan = row[r].plan
       /\ m.name = row[r].name /\ m.effect = effect /\ m.receipt = receipt
       /\ m.report = (IF receipt = "failed" /\ report = "ok" THEN "confirmed" ELSE report)
       /\ m.print = row[r].print /\ (m.raced <=> row[r].raced)
    <2>1. /\ row[r].at = "checked" /\ report \in {"ok", "confirmed", "unknown", "not_applied"}
          /\ effect \in Effect /\ receipt \in {"none", "saved", "failed"}
        BY <1>1, <1>8, <1>12, <1>13
    <2> QED
        BY <2>1, AnsweredRow
<1> HIDE DEF m
<1>16. PlannedRow(m, publishing) /\ WrittenRow(m, publishing)
    BY <1>4, <1>7, <1>9, <1>15 DEF PlannedRow, WrittenRow
<1>17. ReportedRow(m)
    BY <1>8, <1>12, <1>13, <1>15 DEF ReportedRow
<1>18. KeptRow(m, publishing, cloud)
    BY <1>4, <1>15, <1>16, <1>17 DEF KeptRow, Working
<1>19. luid \in Nat /\ fresh \in Nat /\ luid <= fresh /\ cloud.fresh <= fresh
    BY <1>6 DEF luid, fresh
<1>20. /\ cloud' \in Cloud /\ cloud'.fresh = fresh
       /\ \A s \in Servers, p \in Places :
            cloud'.content[s][p] = IF s = publishing.server /\ p = place THEN luid ELSE cloud.content[s][p]
    <2> HIDE DEF place
    <2> DEFINE there == [cloud.content[publishing.server] EXCEPT ![place] = luid]
               content == [cloud.content EXCEPT ![publishing.server] = there]
    <2>1. cloud' = [cloud EXCEPT !.content = content, !.fresh = fresh]
        BY <1>3
    <2>2. cloud \in Cloud /\ cloud.content \in [Servers -> [Places -> Nat]]
        BY PublicationTyped DEF Servers
    <2>3. cloud.content[publishing.server] \in [Places -> Nat]
        BY <1>5, <2>2
    <2>4. there \in [Places -> Nat] /\ \A p \in Places :
            there[p] = IF p = place THEN luid ELSE cloud.content[publishing.server][p]
        BY <1>5, <1>19, <2>3
    <2> HIDE DEF there
    <2>5. content \in [Servers -> [Places -> Nat]] /\ \A s \in Servers :
            content[s] = IF s = publishing.server THEN there ELSE cloud.content[s]
        BY <1>5, <2>2, <2>4
    <2> HIDE DEF content
    <2>6. cloud' \in Cloud /\ cloud'.fresh = fresh /\ cloud'.content = content
        BY <1>19, <2>1, <2>2, <2>5 DEF Cloud
    <2> QED
        BY <2>4, <2>5, <2>6
<1>21. ASSUME NEW s \in Servers, NEW p \in Places PROVE cloud'.content[s][p] <= cloud'.fresh
    <2>1. cloud.content[s][p] <= cloud.fresh /\ cloud.content[s][p] \in Nat
        BY PublicationTyped DEF PublicationInv, Servers
    <2> QED
        BY <1>6, <1>19, <1>20, <2>1
<1>22. row \in [BatchRows -> Row]
    BY DEF PublicationInv
<1>23. row' \in [BatchRows -> Row] /\ row'[r] = m /\ \A q \in BatchRows \ {r} : row'[q] = row[q]
    BY <1>14, <1>15, <1>22
<1>24. ASSUME NEW q \in BatchRows PROVE KeptRow(row'[q], publishing', cloud')
    <2>1. CASE q = r
        BY <1>1, <1>15, <1>18, <1>19, <1>20, <1>23, <2>1, CloudChanges
    <2>2. CASE q # r
        <3>1. KeptRow(row[q], publishing, cloud) /\ row'[q] = row[q]
            BY <1>23, <2>2, PublicationTyped
        <3>2. ASSUME row[q].at = "checked"
              PROVE  cloud'.content[publishing.server][PlaceOf(row[q].plan)]
                        = cloud.content[publishing.server][PlaceOf(row[q].plan)]
            <4>1. PlaceOf(row[q].plan) # place
                BY <1>1, <2>2, <3>2, WorkingApart DEF Working
            <4>2. PlannedRow(row[q], publishing)
                BY <3>1, <3>2 DEF KeptRow, Working
            <4>3. PlaceOf(row[q].plan) \in Places
                BY <4>2, RowTyped DEF PlannedRow, PlaceOf, Places
            <4> QED
                BY <1>5, <1>20, <4>1, <4>3
        <3> QED
            BY <1>1, <1>19, <1>20, <3>1, <3>2, CloudChanges
    <2> QED
        BY <2>1, <2>2
<1>25. StageOf(row[r], publishing)
    BY <1>1 DEF PublicationInv
<1>26. StageOf(m, publishing)
    BY <1>1, <1>15, <1>25 DEF StageOf, Working
<1>27. \A q \in BatchRows : IF q <= publishing'.rows THEN StageOf(row'[q], publishing') ELSE Idle(row'[q])
    BY <1>1, <1>23, <1>26 DEF PublicationInv
<1>28. \A q \in BatchRows : row'[q].accepted = row[q].accepted
    BY <1>15, <1>23
<1>29. AcceptedApart' /\ InOrder'
    BY <1>1, <1>28 DEF PublicationInv, AcceptedApart, InOrder, BatchRows
<1>30. /\ publishing' \in Publishing /\ files' \in [BatchRows -> {1, 2}]
       /\ disturbances' \in 0 .. MaxDisturbances
       /\ publishing'.kind # "datasource" => publishing'.mode \in {"create", "overwrite"}
    BY <1>1 DEF PublicationInv
<1> QED
    BY <1>20, <1>21, <1>23, <1>24, <1>27, <1>29, <1>30, SMTT(30) DEF PublicationInv
(* The preparation, row by row, in the foreground and in the worker.          *)
LEMMA PrepareKeeps ==
    ASSUME PublicationInv, NEW r \in BatchRows, PreparePublication(r) PROVE PublicationInv'
<1> DEFINE d == DestinationOf(r)
           m == [row[r] EXCEPT !.accepted = d, !.at = publishing.at]
<1>1. /\ publishing.at \in {"foreground", "worker"} /\ NextToPrepare(r)
      /\ UNCHANGED <<cloud, files, disturbances>>
    BY DEF PreparePublication
<1>2. r <= publishing.rows /\ row[r].at # publishing.at
      /\ \A q \in BatchRows : q < r => row[q].at = publishing.at
    BY <1>1, PublicationTyped DEF NextToPrepare, RowNumbers, BatchRows
<1>3. CASE publishing' = [publishing EXCEPT !.at = "refused"] /\ UNCHANGED row
    <2>1. publishing \in Publishing
        BY DEF PublicationInv
    <2>2. /\ publishing' \in Publishing /\ publishing'.at = "refused"
          /\ publishing'.rows = publishing.rows /\ publishing'.kind = publishing.kind
          /\ publishing'.mode = publishing.mode /\ publishing'.server = publishing.server
        BY <1>3, <2>1 DEF Publishing
    <2>3. ASSUME NEW q \in BatchRows
          PROVE  /\ KeptRow(row[q], publishing', cloud)
                 /\ IF q <= publishing'.rows THEN StageOf(row[q], publishing') ELSE Idle(row[q])
        <3>1. /\ KeptRow(row[q], publishing, cloud)
              /\ IF q <= publishing.rows THEN StageOf(row[q], publishing) ELSE Idle(row[q])
            BY DEF PublicationInv
        <3>2. row[q].at \notin Working /\ row[q].effect = NoEffect
            BY <1>1, <3>1 DEF StageOf, Idle, Working
        <3>3. KeptRow(row[q], publishing', cloud)
            BY <3>1, <3>2 DEF KeptRow, Working
        <3> QED
            BY <2>2, <3>1, <3>2, <3>3 DEF StageOf
    <2>4. AcceptedApart' /\ InOrder'
        BY <1>3, <2>2 DEF PublicationInv, AcceptedApart, InOrder
    <2> QED
        BY <1>1, <1>3, <2>2, <2>3, <2>4 DEF PublicationInv
<1>4. CASE /\ BindPublicationScope /\ Plannable(r) /\ RecordPublication(r, d)
           /\ row' = [row EXCEPT ![r] = m] /\ UNCHANGED publishing
    <2>1. /\ d \in Destination /\ d.name = row[r].name /\ d.project \in {1, 2}
          /\ d.existing \in Nat /\ d.existing <= cloud.fresh /\ d # NoDestination
        BY DestinationFound
    <2>2. /\ row[r].accepted \in {NoDestination, d}
          /\ \A q \in Seen(r) : PlaceOf(d) # PlaceOf(row[q].accepted)
        BY <1>4 DEF Plannable, RecordPublication, PublicationTargets, PlaceOf
    <2> HIDE DEF d
    <2>3. publishing.at \in Steps /\ row[r] \in Row
        BY <1>1, RowTyped DEF Steps
    <2>4. /\ m \in Row /\ m.at = publishing.at /\ m.accepted = d /\ m.plan = row[r].plan
          /\ m.name = row[r].name /\ m.effect = row[r].effect /\ m.receipt = row[r].receipt
        BY <2>1, <2>3 DEF Row
    <2> HIDE DEF m
    <2>5. KeptRow(row[r], publishing, cloud) /\ StageOf(row[r], publishing)
        BY <1>2, PublicationTyped DEF PublicationInv
    <2>6. row[r].effect = NoEffect /\ row[r].at # "done" /\ m.at \notin Working /\ m.at # "done"
        BY <1>1, <2>4, <2>5 DEF StageOf, KeptRow, Working
    <2>7. KeptRow(m, publishing, cloud)
        BY <2>1, <2>4, <2>5, <2>6 DEF KeptRow, ReportedRow, Working
    <2>8. publishing.at = "worker" => publishing.server = publishing.scope
        BY <1>4 DEF BindPublicationScope
    <2>9. StageOf(m, publishing)
        BY <1>1, <2>1, <2>4, <2>6, <2>8 DEF StageOf
    <2>10. row \in [BatchRows -> Row]
        BY DEF PublicationInv
    <2>11. row' \in [BatchRows -> Row] /\ row'[r] = m /\ \A q \in BatchRows \ {r} : row'[q] = row[q]
        BY <1>4, <2>4, <2>10
    <2>12. ASSUME NEW q \in BatchRows
           PROVE  /\ KeptRow(row'[q], publishing, cloud)
                  /\ IF q <= publishing.rows THEN StageOf(row'[q], publishing) ELSE Idle(row'[q])
        <3>1. CASE q = r
            BY <1>2, <2>7, <2>9, <2>11, <3>1
        <3>2. CASE q # r
            BY <2>11, <3>2 DEF PublicationInv
        <3> QED
            BY <3>1, <3>2
    <2>13. AcceptedApart'
        <3>1. CASE row[r].accepted = d
            <4>1. \A q \in BatchRows : row'[q].accepted = row[q].accepted
                BY <2>4, <2>11, <3>1
            <4> QED
                BY <1>4, <4>1 DEF PublicationInv, AcceptedApart, BatchRows
        <3>2. CASE row[r].accepted = NoDestination /\ publishing.rows > 1
            <4>1. publishing.at = "foreground" /\ row[r].at = "new"
                BY <1>1, <2>5, <3>2 DEF StageOf
            <4>2. CASE r = 1
                <5>1. row[2].at = "new"
                    BY <3>2, <4>1, <4>2 DEF PublicationInv, InOrder
                <5>2. StageOf(row[2], publishing)
                    BY <3>2, PublicationTyped DEF PublicationInv, BatchRows
                <5>3. row'[2].accepted = NoDestination
                    BY <2>11, <4>1, <4>2, <5>1, <5>2 DEF StageOf, BatchRows
                <5> QED
                    BY <5>3 DEF AcceptedApart
            <4>3. CASE r = 2
                <5>1. 1 \in Seen(r)
                    BY <1>2, <4>3, PublicationTyped DEF Seen, RowNumbers, BatchRows
                <5>2. PlaceOf(d) # PlaceOf(row[1].accepted)
                    BY <2>2, <5>1
                <5> QED
                    BY <2>4, <2>11, <4>3, <5>2 DEF AcceptedApart, BatchRows
            <4> QED
                BY <4>2, <4>3 DEF BatchRows
        <3> QED
            BY <1>4, <2>2, <3>1, <3>2 DEF AcceptedApart
    <2>14. InOrder'
        <3>1. publishing.at = "foreground" /\ r = 2 => row[1].at # "new"
            BY <1>2 DEF BatchRows
        <3> QED
            BY <1>1, <1>4, <2>4, <2>11, <3>1 DEF PublicationInv, InOrder, BatchRows
    <2> QED
        BY <1>1, <1>4, <2>11, <2>12, <2>13, <2>14 DEF PublicationInv
<1> QED
    BY <1>3, <1>4 DEF PreparePublication

(* The publication enters its next stage and its rows stay as they are.       *)
LEMMA StageChanges ==
    ASSUME PublicationInv, UNCHANGED <<cloud, files, row, disturbances>>, publishing' \in Publishing,
           publishing'.rows = publishing.rows, publishing'.kind = publishing.kind,
           publishing'.mode = publishing.mode, publishing.at # "run", publishing'.at # "foreground",
           \A q \in BatchRows : q <= publishing.rows => StageOf(row[q], publishing')
    PROVE  PublicationInv'
<1>1. ASSUME NEW q \in BatchRows
      PROVE  /\ KeptRow(row[q], publishing', cloud)
             /\ IF q <= publishing'.rows THEN StageOf(row[q], publishing') ELSE Idle(row[q])
    <2>1. /\ KeptRow(row[q], publishing, cloud)
          /\ IF q <= publishing.rows THEN StageOf(row[q], publishing) ELSE Idle(row[q])
        BY DEF PublicationInv
    <2>2. row[q].at \notin Working /\ row[q].effect = NoEffect
        BY <2>1 DEF StageOf, Idle, Working
    <2>3. KeptRow(row[q], publishing', cloud)
        BY <2>1, <2>2 DEF KeptRow, Working
    <2> QED
        BY <2>1, <2>3
<1>2. AcceptedApart' /\ InOrder'
    BY DEF PublicationInv, AcceptedApart, InOrder
<1> QED
    BY <1>1, <1>2 DEF PublicationInv

LEMMA StartWorkerKeeps == ASSUME PublicationInv, StartWorker PROVE PublicationInv'
<1>1. /\ publishing.at = "foreground" /\ UNCHANGED <<cloud, files, row, disturbances>>
      /\ publishing' = [publishing EXCEPT !.at = "worker", !.scope = publishing.server, !.server = cloud.alias]
    BY DEF StartWorker
<1>0. publishing \in Publishing /\ publishing.server \in 0 .. 2 /\ cloud.alias \in 1 .. 2
    BY PublicationTyped
<1>2. /\ publishing' \in Publishing /\ publishing'.at = "worker"
      /\ publishing'.rows = publishing.rows /\ publishing'.kind = publishing.kind
      /\ publishing'.mode = publishing.mode
    BY <1>0, <1>1 DEF Publishing
<1>3. ASSUME NEW q \in BatchRows, q <= publishing.rows PROVE StageOf(row[q], publishing')
    <2>1. StageOf(row[q], publishing)
        BY <1>3 DEF PublicationInv
    <2>2. row[q].at = "foreground"
        BY <1>3, PublicationTyped DEF StartWorker, RowNumbers, BatchRows
    <2> QED
        BY <1>1, <1>2, <2>1, <2>2 DEF StageOf, Working
<1> QED
    BY <1>1, <1>2, <1>3, StageChanges

LEMMA RunRowsKeeps == ASSUME PublicationInv, RunRows PROVE PublicationInv'
<1>1. /\ publishing.at = "worker" /\ UNCHANGED <<cloud, files, row, disturbances>>
      /\ publishing' = [publishing EXCEPT !.at = "run"]
    BY DEF RunRows
<1>2. /\ publishing' \in Publishing /\ publishing'.at = "run"
      /\ publishing'.rows = publishing.rows /\ publishing'.kind = publishing.kind
      /\ publishing'.mode = publishing.mode /\ publishing'.server = publishing.server
      /\ publishing'.scope = publishing.scope
    BY <1>1, PublicationTyped DEF Publishing
<1>3. ASSUME NEW q \in BatchRows, q <= publishing.rows PROVE StageOf(row[q], publishing')
    <2>1. StageOf(row[q], publishing)
        BY <1>3 DEF PublicationInv
    <2>2. row[q].at = "worker"
        BY <1>3, PublicationTyped DEF RunRows, RowNumbers, BatchRows
    <2> QED
        BY <1>1, <1>2, <2>1, <2>2 DEF StageOf, Working
<1> QED
    BY <1>1, <1>2, <1>3, StageChanges

(* What others do: the rows that have been checked know of it.                *)
LEMMA DisturbKeeps ==
    ASSUME PublicationInv, NEW c \in Cloud, NEW f \in [BatchRows -> {1, 2}], Disturb(c, f),
           cloud.fresh <= c.fresh, \A s \in Servers, p \in Places : c.content[s][p] <= c.fresh
    PROVE  PublicationInv'
<1>1. /\ cloud' = c /\ files' = f /\ publishing' = publishing
      /\ disturbances < MaxDisturbances /\ disturbances' = disturbances + 1
    BY DEF Disturb
<1>2. disturbances' \in 0 .. MaxDisturbances
    BY <1>1 DEF PublicationInv
<1> DEFINE hit(q) == [row[q] EXCEPT !.raced = row[q].raced \/ row[q].at = "checked"]
<1>3. row' = [q \in BatchRows |-> hit(q)]
    BY DEF Disturb
<1>4. ASSUME NEW q \in BatchRows
      PROVE  /\ row'[q] \in Row /\ row'[q].accepted = row[q].accepted /\ row'[q].at = row[q].at
             /\ row'[q].effect = row[q].effect
             /\ KeptRow(row'[q], publishing, c)
    <2> DEFINE b == row[q].raced \/ row[q].at = "checked"
               m == [row[q] EXCEPT !.raced = b]
    <2>1. row'[q] = m
        BY <1>3
    <2>2. b \in BOOLEAN
        OBVIOUS
    <2>3. row[q].at = "checked" => b
        OBVIOUS
    <2>4. row[q].raced => b
        OBVIOUS
    <2> HIDE DEF b
    <2>5. row[q] \in Row
        BY RowTyped
    <2>6. /\ m \in Row /\ m.at = row[q].at /\ m.accepted = row[q].accepted /\ m.plan = row[q].plan
          /\ m.name = row[q].name /\ m.effect = row[q].effect /\ m.receipt = row[q].receipt
          /\ m.print = row[q].print /\ m.bytes = row[q].bytes /\ m.report = row[q].report
        BY <2>2, <2>5 DEF Row
    <2>7. m.raced = b
        BY <2>5 DEF Row
    <2> HIDE DEF m
    <2>8. KeptRow(row[q], publishing, cloud)
        BY PublicationTyped
    <2>9. m.at = "checked" => m.raced
        BY <2>3, <2>6, <2>7
    <2>10. row[q].raced => m.raced
        BY <2>4, <2>7
    <2>11. PlannedRow(row[q], publishing) => PlannedRow(m, publishing)
        BY <2>6 DEF PlannedRow
    <2>12. WrittenRow(row[q], publishing) => WrittenRow(m, publishing)
        BY <2>6, <2>10 DEF WrittenRow
    <2>13. ReportedRow(m)
        BY <2>6, <2>8 DEF KeptRow, ReportedRow
    <2>14. KeptRow(m, publishing, cloud)
        BY <2>6, <2>8, <2>9, <2>11, <2>12, <2>13 DEF KeptRow, LookedAt
    <2>15. KeptRow(m, publishing, c)
        BY <2>9, <2>14, CloudChanges
    <2> QED
        BY <2>1, <2>6, <2>15
<1>5. row' \in [BatchRows -> Row]
    <2> HIDE DEF hit
    <2>1. \A q \in BatchRows : hit(q) \in Row
        BY <1>3, <1>4
    <2> QED
        BY <1>3, <2>1
<1>6. \A q \in BatchRows : IF q <= publishing.rows THEN StageOf(row'[q], publishing) ELSE Idle(row'[q])
    BY <1>4 DEF PublicationInv, StageOf, Idle
<1>7. AcceptedApart' /\ InOrder'
    BY <1>1, <1>4 DEF PublicationInv, AcceptedApart, InOrder, BatchRows
<1>8. /\ publishing' \in Publishing /\ cloud' \in Cloud /\ files' \in [BatchRows -> {1, 2}]
      /\ publishing'.kind # "datasource" => publishing'.mode \in {"create", "overwrite"}
    BY <1>1 DEF PublicationInv
<1>9. \A q \in BatchRows : KeptRow(row'[q], publishing', cloud')
    BY <1>1, <1>4
<1>10. \A q \in BatchRows : IF q <= publishing'.rows THEN StageOf(row'[q], publishing') ELSE Idle(row'[q])
    BY <1>1, <1>6
<1>11. \A s \in Servers, p \in Places : cloud'.content[s][p] <= cloud'.fresh
    BY <1>1
<1> QED
    BY <1>2, <1>5, <1>7, <1>8, <1>9, <1>10, <1>11 DEF PublicationInv
(* The contents of a site with content of one place replaced.                 *)
LEMMA ContentReplaced ==
    ASSUME PublicationInv, NEW place \in Places, NEW luid \in Nat, NEW fresh \in Nat,
           cloud.fresh <= fresh, luid <= fresh
    PROVE  LET c == [cloud EXCEPT !.content[1][place] = luid, !.fresh = fresh] IN
           /\ c \in Cloud /\ c.fresh = fresh
           /\ \A s \in Servers, p \in Places : c.content[s][p] <= fresh
<1> DEFINE there == [cloud.content[1] EXCEPT ![place] = luid]
           content == [cloud.content EXCEPT ![1] = there]
           c == [cloud EXCEPT !.content = content, !.fresh = fresh]
<1>1. cloud \in Cloud /\ cloud.content \in [Servers -> [Places -> Nat]] /\ 1 \in Servers
      /\ cloud.fresh \in Nat
    BY PublicationTyped DEF Servers
<1>2. cloud.content[1] \in [Places -> Nat]
    BY <1>1
<1>3. there \in [Places -> Nat] /\ \A p \in Places : there[p] = IF p = place THEN luid ELSE cloud.content[1][p]
    BY <1>2
<1> HIDE DEF there
<1>4. content \in [Servers -> [Places -> Nat]]
      /\ \A s \in Servers : content[s] = IF s = 1 THEN there ELSE cloud.content[s]
    BY <1>1, <1>3
<1>5. ASSUME NEW s \in Servers, NEW p \in Places PROVE content[s][p] <= fresh
    <2>1. cloud.content[s][p] <= cloud.fresh /\ cloud.content[s][p] \in Nat
        BY PublicationTyped DEF PublicationInv, Servers
    <2> QED
        BY <1>1, <1>3, <1>4, <2>1
<1> HIDE DEF content
<1>6. c \in Cloud /\ c.fresh = fresh /\ c.content = content
    BY <1>1, <1>4 DEF Cloud
<1> HIDE DEF c
<1>7. c \in Cloud /\ c.fresh = fresh /\ \A s \in Servers, p \in Places : c.content[s][p] <= fresh
    BY <1>5, <1>6
<1> QED
    BY <1>7 DEF c, content, there

LEMMA OthersKeep == ASSUME PublicationInv, OthersStep PROVE PublicationInv'
<1>1. /\ cloud \in Cloud /\ cloud.fresh \in Nat /\ files \in [BatchRows -> {1, 2}] /\ 1 \in Servers
      /\ \A s \in Servers, p \in Places : cloud.content[s][p] <= cloud.fresh /\ cloud.content[s][p] \in Nat
    BY PublicationTyped DEF PublicationInv, Servers
<1>2. ASSUME NEW place \in Places, ContentAppears(place) PROVE PublicationInv'
    <2> DEFINE n == cloud.fresh + 1
               c == [cloud EXCEPT !.content[1][place] = cloud.fresh, !.fresh = n]
    <2>1. Disturb(c, files)
        BY <1>2 DEF ContentAppears
    <2>2. n \in Nat /\ cloud.fresh <= n
        BY <1>1
    <2> HIDE DEF n
    <2>3. c \in Cloud /\ c.fresh = n /\ \A s \in Servers, p \in Places : c.content[s][p] <= n
        BY <1>1, <2>2, ContentReplaced
    <2> HIDE DEF c
    <2> QED
        BY <1>1, <2>1, <2>2, <2>3, DisturbKeeps
<1>3. ASSUME NEW place \in Places, ContentGoes(place) PROVE PublicationInv'
    <2> DEFINE there == [cloud.content[1] EXCEPT ![place] = 0]
               content == [cloud.content EXCEPT ![1] = there]
               c == [cloud EXCEPT !.content = content]
    <2>1. Disturb(c, files)
        BY <1>3 DEF ContentGoes
    <2>2. cloud.content \in [Servers -> [Places -> Nat]] /\ cloud.content[1] \in [Places -> Nat]
        BY <1>1, PublicationTyped DEF Servers
    <2>3. there \in [Places -> Nat] /\ \A p \in Places : there[p] <= cloud.fresh
        BY <1>1, <2>2
    <2> HIDE DEF there
    <2>4. content \in [Servers -> [Places -> Nat]] /\ \A s \in Servers, p \in Places : content[s][p] <= cloud.fresh
        BY <1>1, <2>2, <2>3
    <2> HIDE DEF content
    <2>5. c \in Cloud /\ c.fresh = cloud.fresh /\ c.content = content
        BY <1>1, <2>4 DEF Cloud
    <2> HIDE DEF c
    <2>6. cloud.fresh <= c.fresh
        BY <1>1, <2>5
    <2> QED
        BY <1>1, <2>1, <2>4, <2>5, <2>6, DisturbKeeps
<1>4. ASSUME NEW from \in Places, NEW to \in Places, ContentMoves(from, to) PROVE PublicationInv'
    <2> DEFINE luid == cloud.content[1][from]
               there == [cloud.content[1] EXCEPT ![from] = 0, ![to] = luid]
               content == [cloud.content EXCEPT ![1] = there]
               c == [cloud EXCEPT !.content = content]
    <2>1. Disturb(c, files)
        BY <1>4 DEF ContentMoves, ContentAt
    <2>2. cloud.content \in [Servers -> [Places -> Nat]] /\ cloud.content[1] \in [Places -> Nat]
          /\ luid \in Nat /\ luid <= cloud.fresh
        BY <1>1, PublicationTyped DEF Servers
    <2> HIDE DEF luid
    <2>3. there \in [Places -> Nat] /\ \A p \in Places : there[p] <= cloud.fresh
        BY <1>1, <2>2
    <2> HIDE DEF there
    <2>4. content \in [Servers -> [Places -> Nat]] /\ \A s \in Servers, p \in Places : content[s][p] <= cloud.fresh
        BY <1>1, <2>2, <2>3
    <2> HIDE DEF content
    <2>5. c \in Cloud /\ c.fresh = cloud.fresh /\ c.content = content
        BY <1>1, <2>4 DEF Cloud
    <2> HIDE DEF c
    <2>6. cloud.fresh <= c.fresh
        BY <1>1, <2>5
    <2> QED
        BY <1>1, <2>1, <2>4, <2>5, <2>6, DisturbKeeps
<1>5. ASSUME PathRenamed \/ AliasChanged PROVE PublicationInv'
    <2>1. PICK c \in Cloud : Disturb(c, files) /\ c.fresh = cloud.fresh /\ c.content = cloud.content
        <3>1. 3 - cloud.path \in {1, 2}
            BY PublicationTyped
        <3> DEFINE p == [cloud EXCEPT !.path = 3 - cloud.path]
                   a == [cloud EXCEPT !.alias = 2]
        <3>2. p \in Cloud /\ p.fresh = cloud.fresh /\ p.content = cloud.content
            BY <1>1, <3>1 DEF Cloud
        <3>3. a \in Cloud /\ a.fresh = cloud.fresh /\ a.content = cloud.content
            BY <1>1 DEF Cloud, Servers
        <3>4. Disturb(p, files) \/ Disturb(a, files)
            BY <1>5 DEF PathRenamed, AliasChanged
        <3> HIDE DEF p, a
        <3> QED
            BY <3>2, <3>3, <3>4
    <2>2. cloud.fresh <= c.fresh /\ \A s \in Servers, p \in Places : c.content[s][p] <= c.fresh
        BY <1>1, <2>1
    <2> QED
        BY <1>1, <2>1, <2>2, DisturbKeeps
<1>6. ASSUME NEW r \in BatchRows, FileWritten(r) PROVE PublicationInv'
    <2>1. [files EXCEPT ![r] = 2] \in [BatchRows -> {1, 2}] /\ Disturb(cloud, [files EXCEPT ![r] = 2])
        BY <1>1, <1>6 DEF FileWritten
    <2>2. cloud.fresh <= cloud.fresh
        BY <1>1
    <2> QED
        BY <1>1, <2>1, <2>2, DisturbKeeps
<1> QED
    BY <1>2, <1>3, <1>4, <1>5, <1>6 DEF OthersStep

LEMMA PublicationStep ==
    ASSUME PublicationInv, [PublicationNext]_publicationVars PROVE PublicationInv'
<1>1. ASSUME NEW r \in BatchRows, RowStep(r) PROVE PublicationInv'
    BY <1>1, PlanRowKeeps, RevalidateKeeps, PreparePublishKeeps, VerifyAgainKeeps, DeniedKeeps,
       TakenKeeps, NotTakenKeeps DEF RowStep
<1>2. CASE UNCHANGED publicationVars
    <2>1. UNCHANGED <<cloud, files, publishing, row, disturbances>>
        BY <1>2 DEF publicationVars
    <2> QED
        BY <2>1 DEF PublicationInv, AcceptedApart, InOrder
<1> QED
    BY <1>1, <1>2, PrepareKeeps, StartWorkerKeeps, RunRowsKeeps, OthersKeep DEF PublicationNext

LEMMA NewRowKept ==
    ASSUME NEW by \in {0, 1}, NEW name \in {1, 2}, NEW p, NEW c, c.fresh = 2
    PROVE  /\ NewRow(by, name) \in Row /\ KeptRow(NewRow(by, name), p, c)
           /\ NewRow(by, name).at = "new" /\ NewRow(by, name).accepted = NoDestination
           /\ NewRow(by, name).effect = NoEffect
<1> DEFINE m == NewRow(by, name)
           empty == ""
<1>1. NoDestination \in Destination
    BY DEF NoDestination, Destination
<1>2. <<0, 0>> \in (0 .. 2) \X (0 .. 2)
    OBVIOUS
<1>3. NoEffect \in Effect
    BY <1>2 DEF NoEffect, Effect
<1>4. m = [by |-> by, name |-> name, at |-> "new", accepted |-> NoDestination, plan |-> NoDestination,
           path |-> 0, print |-> 0, bytes |-> 0, effect |-> NoEffect, report |-> empty,
           receipt |-> "none", raced |-> FALSE]
    BY DEF NewRow
<1>b. empty \in Reports
    BY Zenon DEF Reports
<1> HIDE DEF m, empty
<1>a. "new" \in Steps /\ by \in 0 .. 1 /\ name \in 1 .. 2
    BY DEF Steps
<1>5. m \in Row
    BY <1>1, <1>3, <1>4, <1>a, <1>b DEF Row
<1>6. /\ m.at = "new" /\ m.accepted = NoDestination /\ m.plan = NoDestination
      /\ m.effect = NoEffect /\ m.receipt = "none"
    BY <1>4
<1>7. NoDestination.existing <= c.fresh
    BY DEF NoDestination
<1>8. KeptRow(m, p, c)
    BY <1>5, <1>6, <1>7 DEF KeptRow, ReportedRow, Working
<1> QED
    BY <1>5, <1>6, <1>8 DEF m

LEMMA PublicationStarts == ASSUME PublicationInit PROVE PublicationInv
<1>1. PICK here \in {0, 1} :
        cloud = [content |-> [s \in Servers |-> [p \in Places |-> IF p = <<1, 1>> THEN here ELSE 0]],
                 path |-> 1, alias |-> 1, fresh |-> 2]
    BY DEF PublicationInit
<1> DEFINE places == [p \in Places |-> IF p = <<1, 1>> THEN here ELSE 0]
           content == [s \in Servers |-> places]
<1>2. places \in [Places -> Nat] /\ \A p \in Places : places[p] <= 2
    OBVIOUS
<1>3. cloud = [content |-> content, path |-> 1, alias |-> 1, fresh |-> 2]
    BY <1>1
<1> HIDE DEF places
<1>4. content \in [Servers -> [Places -> Nat]] /\ \A s \in Servers, p \in Places : content[s][p] <= 2
    BY <1>2
<1> HIDE DEF content
<1>5. cloud \in Cloud /\ cloud.fresh = 2 /\ cloud.content = content
    BY <1>3, <1>4 DEF Cloud, Servers
<1>6. PICK k \in Publications, rows \in BatchRows : publishing =
        [kind |-> k.kind, mode |-> k.mode, rows |-> rows, server |-> 1, scope |-> 0,
         at |-> IF rows = 1 THEN "run" ELSE "foreground"]
    BY DEF PublicationInit
<1>7. /\ k.kind \in {"workbook", "datasource", "flow"}
      /\ k.mode \in {"create", "overwrite", "append", "replace"}
      /\ k.kind # "datasource" => k.mode \in {"create", "overwrite"}
    BY DEF PublicationAssumption
<1>8. /\ publishing \in Publishing /\ publishing.rows = rows
      /\ publishing.kind # "datasource" => publishing.mode \in {"create", "overwrite"}
      /\ publishing.at = IF rows = 1 THEN "run" ELSE "foreground"
    BY <1>6, <1>7 DEF Publishing, BatchRows
<1>9. PICK second \in {NewRow(0, 2), NewRow(1, 1)} :
        row = [r \in BatchRows |-> IF r = 1 THEN NewRow(0, 1) ELSE second]
    BY DEF PublicationInit
<1>10. \A r \in BatchRows :
        /\ row[r] \in Row /\ KeptRow(row[r], publishing, cloud) /\ row[r].at = "new"
        /\ row[r].accepted = NoDestination /\ row[r].effect = NoEffect
    BY <1>5, <1>9, NewRowKept
<1>11. row \in [BatchRows -> Row]
    BY <1>9, <1>10
<1>12. ASSUME NEW r \in BatchRows
       PROVE  IF r <= publishing.rows THEN StageOf(row[r], publishing) ELSE Idle(row[r])
    BY <1>8, <1>10 DEF StageOf, Idle, Working, BatchRows
<1>13. AcceptedApart /\ InOrder
    BY <1>10 DEF AcceptedApart, InOrder, BatchRows
<1>14. files \in [BatchRows -> {1, 2}] /\ disturbances \in 0 .. MaxDisturbances
    BY DEF PublicationInit
<1> QED
    BY <1>4, <1>5, <1>8, <1>10, <1>11, <1>12, <1>13, <1>14 DEF PublicationInv

LEMMA PublicationInvariant == PublicationSpec => []PublicationInv
<1>1. PublicationInit => PublicationInv
    BY PublicationStarts
<1>2. PublicationInv /\ [PublicationNext]_publicationVars => PublicationInv'
    BY PublicationStep
<1> QED
    BY <1>1, <1>2, PTL DEF PublicationSpec

(* However often others rename, move, replace or remove meanwhile, and        *)
(* whatever the alias names by then, every row of a publication writes the    *)
(* bytes, the place and the content that its plan showed, on the server and   *)
(* site that were accepted, and no two rows of a batch write to one place.    *)
THEOREM PublicationsGoWhereShown == PublicationSpec => []PublishesWhereShown
<1>1. PublicationInv => PublishesWhereShown
    BY InvPublishes
<1> QED
    BY <1>1, PublicationInvariant, PTL

(* A row reports success, failure and doubt as they are, whatever Tableau     *)
(* answers and whether the receipt is saved.                                  *)
THEOREM PublicationsReportTruly == PublicationSpec => []PublicationIsReported
<1>1. PublicationInv => PublicationIsReported
    BY InvReports
<1> QED
    BY <1>1, PublicationInvariant, PTL
-----------------------------------------------------------------------------
(* RemoteChange: requests and commands.                                       *)

Answers == {"unsent", "refused", "failed", "lost", "status", "body", "differs", "good"}
Clients == {"content", "new_project", "user", "group", "permission", "label", "catalog", "exact",
            "removal", "pulse"}
Styles == {"classified", "uncertain", "acknowledged", "unknown", "silent"}

Request ==
    [client : Clients, report : Styles, verify : SUBSET {"ok", "confirmed", "unknown"},
     readback : BOOLEAN, part : {"main", "list"}]

(* Only the clients of users and groups accept an answer with other values,   *)
(* and then the command compares them, unless it has just created the object. *)
SoundRequest(q, sets) ==
    /\ q \in Request
    /\ q.client \in {"user", "group"} => sets = "creation" \/ "ok" \notin q.verify

(* What the proofs use of the table of commands.                              *)
SoundCommand(c) ==
    /\ c.requests \in Seq(Request) /\ c.requests # <<>>
    /\ \A i \in DOMAIN c.requests : SoundRequest(c.requests[i], c.sets)
    /\ c.sets = "creation" => c.skips = "never" /\ Len(c.requests) = 1
    /\ c.skips \in {"never", "at_plan", "at_recheck"} \/ c.sets \in c.same
    /\ c.sets \in Aspects \cup {"removal", "creation"}
    /\ c.early \in {"none", "not_attempted"}

LEMMA SentIsSound ==
    ASSUME NEW client \in Clients \ {"user", "group"}, NEW report \in Styles, NEW sets
    PROVE  /\ SoundRequest(Sends(client, report), sets)
           /\ SoundRequest([Sends(client, report) EXCEPT !.readback = TRUE], sets)
           /\ SoundRequest([Sends(client, report) EXCEPT !.part = "list"], sets)
BY DEF SoundRequest, Sends, Request

LEMMA SentToUsersIsSound ==
    ASSUME NEW client \in {"user", "group"}, NEW report \in Styles, NEW sets
    PROVE  /\ SoundRequest(Sends(client, report), "creation")
           /\ SoundRequest([Sends(client, report) EXCEPT !.verify = VerifyUser], sets)
           /\ SoundRequest([Sends(client, report) EXCEPT !.verify = VerifyGroup], sets)
BY DEF SoundRequest, Sends, Request, Clients, VerifyUser, VerifyGroup

(* A sound request: its answer lets the command report only what is so.       *)
TrueVerdict(effect, verdict, sets) ==
    /\ verdict \in {"ok", "none", "not_applied", "confirmed", "unknown"}
    /\ verdict = "not_applied" => effect = "none"
    /\ verdict = "confirmed" => effect # "none"
    /\ verdict = "ok" => effect = "all" \/ (effect = "some" /\ sets = "creation")

LEMMA ReceiptsAreSound ==
    ASSUME NEW client \in Clients, NEW answer \in Answers
    PROVE  LET receipt == ReceiptOf(client, answer) IN
           /\ receipt = "succeeded" => answer \in {"good", "status", "body", "differs"}
           /\ receipt = "succeeded" /\ answer = "differs" => client \in {"user", "group"}
           /\ receipt = "partial" => answer = "differs"
           /\ receipt \in {"acknowledged", "identified"} => answer \in {"body", "differs"}
<1>1. CASE client \in {"content", "new_project"}
    BY <1>1 DEF ReceiptOf, ContentReceipt, NewProjectReceipt, UncertainOr, MutationUncertain, SubmissionAttempted, Answers
<1>2. CASE client = "user"
    BY <1>2 DEF ReceiptOf, UserReceipt, UncertainOr, MutationUncertain, SubmissionAttempted, Answers
<1>3. CASE client \in {"group", "permission", "label", "catalog"}
    BY <1>3 DEF ReceiptOf, GroupReceipt, PermissionReceipt, LabelReceipt, CatalogReceipt, Answers
<1>4. CASE client \in {"exact", "removal", "pulse"}
    BY <1>4 DEF ReceiptOf, ExactReceipt, RemovalReceipt, PulseReceipt, Answers
<1> QED
    BY <1>1, <1>2, <1>3, <1>4 DEF Clients

LEMMA VerdictsAreTrue ==
    ASSUME NEW q, NEW sets, SoundRequest(q, sets), NEW answer \in Answers,
           NEW effect \in Effects[answer], NEW verdict \in Verdicts(q, answer)
    PROVE  TrueVerdict(effect, verdict, sets)
<1> DEFINE receipt == ReceiptOf(q.client, answer)
<1>1. /\ q.client \in Clients /\ q.report \in Styles /\ q.verify \in SUBSET {"ok", "confirmed", "unknown"}
      /\ q.client \in {"user", "group"} => sets = "creation" \/ "ok" \notin q.verify
    BY DEF SoundRequest, Request
<1>2. /\ receipt = "succeeded" => answer \in {"good", "status", "body", "differs"}
      /\ receipt = "succeeded" /\ answer = "differs" => q.client \in {"user", "group"}
      /\ receipt = "partial" => answer = "differs"
      /\ receipt \in {"acknowledged", "identified"} => answer \in {"body", "differs"}
    BY <1>1, ReceiptsAreSound
<1>3. /\ answer \in {"good", "status", "body"} => effect = "all"
      /\ answer = "differs" => effect = "some"
      /\ answer = "refused" => effect = "none"
    BY DEF Effects, Answers
<1>4. CASE receipt # "succeeded"
    <2>1. verdict = Reported(q.report, receipt, answer)
        BY <1>4 DEF Verdicts
    <2> HIDE DEF receipt
    <2> QED
        BY <1>1, <1>2, <1>3, <1>4, <2>1 DEF Reported, MutationFailure, TrueVerdict, Styles
<1>5. CASE receipt = "succeeded" /\ answer = "differs"
    <2>1. verdict \in q.verify
        BY <1>5 DEF Verdicts
    <2> QED
        BY <1>1, <1>2, <1>3, <1>5, <2>1 DEF TrueVerdict
<1>6. CASE receipt = "succeeded" /\ answer # "differs"
    <2>1. verdict \in {"ok", "confirmed"}
        BY <1>6 DEF Verdicts
    <2> QED
        BY <1>2, <1>3, <1>6, <2>1 DEF TrueVerdict
<1> QED
    BY <1>4, <1>5, <1>6

LEMMA AnswersAreKnown == ASSUME NEW q PROVE AnswersTo(q) \subseteq Answers
BY DEF AnswersTo, Effects, Answers
(* The commands of the table, by their requests.                              *)
LEMMA OneRequest ==
    ASSUME NEW c, NEW q, c.requests = <<q>>, SoundRequest(q, c.sets),
           c.sets = "creation" => c.skips = "never",
           c.skips \in {"never", "at_plan", "at_recheck"} \/ c.sets \in c.same,
           c.sets \in Aspects \cup {"removal", "creation"}, c.early \in {"none", "not_attempted"}
    PROVE  SoundCommand(c)
<1>1. q \in Request
    BY DEF SoundRequest
<1>a. <<q>> \in Seq(Request)
    BY <1>1
<1>b. Len(<<q>>) = 1 /\ DOMAIN <<q>> = 1 .. 1 /\ <<q>>[1] = q
    OBVIOUS
<1>2. c.requests \in Seq(Request) /\ c.requests # <<>> /\ Len(c.requests) = 1
    BY <1>a, <1>b
<1>3. \A i \in DOMAIN c.requests : SoundRequest(c.requests[i], c.sets)
    BY <1>b
<1> QED
    BY <1>2, <1>3 DEF SoundCommand

LEMMA ThreeRequests ==
    ASSUME NEW c, NEW q1, NEW q2, NEW q3, c.requests = <<q1, q2, q3>>,
           SoundRequest(q1, c.sets), SoundRequest(q2, c.sets), SoundRequest(q3, c.sets),
           c.skips \in {"never", "at_plan", "at_recheck"} \/ c.sets \in c.same,
           c.sets \in Aspects, c.early \in {"none", "not_attempted"}
    PROVE  SoundCommand(c)
<1>1. q1 \in Request /\ q2 \in Request /\ q3 \in Request
    BY DEF SoundRequest
<1>a. <<q1, q2, q3>> \in Seq(Request)
    BY <1>1
<1>b. /\ Len(<<q1, q2, q3>>) = 3 /\ DOMAIN <<q1, q2, q3>> = 1 .. 3 /\ <<q1, q2, q3>>[1] = q1
      /\ <<q1, q2, q3>>[2] = q2 /\ <<q1, q2, q3>>[3] = q3
    OBVIOUS
<1>2. c.requests \in Seq(Request) /\ c.requests # <<>>
    BY <1>a, <1>b
<1>3. \A i \in DOMAIN c.requests : SoundRequest(c.requests[i], c.sets)
    <2> SUFFICES ASSUME NEW i \in 1 .. 3 PROVE SoundRequest(<<q1, q2, q3>>[i], c.sets)
        BY <1>b
    <2>1. i = 1 \/ i = 2 \/ i = 3
        OBVIOUS
    <2> QED
        BY <1>b, <2>1
<1>4. c.sets # "creation"
    BY DEF Aspects
<1> QED
    BY <1>2, <1>3, <1>4 DEF SoundCommand

LEMMA WorkbookUpdateIsSound == ASSUME NEW c \in WorkbookUpdate PROVE SoundCommand(c)
<1> DEFINE q == Sends("content", "classified")
<1>1. SoundRequest(q, c.sets)
    BY SentIsSound DEF Clients, Styles
<1> HIDE DEF q
<1>2. /\ c.requests = <<q>>
      /\ c.sets = "creation" => c.skips = "never"
      /\ c.skips \in {"never", "at_plan", "at_recheck"} \/ c.sets \in c.same
      /\ c.sets \in Aspects \cup {"removal", "creation"} /\ c.early \in {"none", "not_attempted"}
    BY DEF q, WorkbookUpdate, Basic, Identity, Path, Aspects
<1> QED
    BY <1>1, <1>2, OneRequest

LEMMA WorkbookMoveIsSound == ASSUME NEW c \in WorkbookMove \cup DatasourceMove PROVE SoundCommand(c)
<1> DEFINE q == Sends("content", "classified")
<1>1. SoundRequest(q, c.sets)
    BY SentIsSound DEF Clients, Styles
<1> HIDE DEF q
<1>2. /\ c.requests = <<q>>
      /\ c.sets = "creation" => c.skips = "never"
      /\ c.skips \in {"never", "at_plan", "at_recheck"} \/ c.sets \in c.same
      /\ c.sets \in Aspects \cup {"removal", "creation"} /\ c.early \in {"none", "not_attempted"}
    BY DEF q, WorkbookMove, DatasourceMove, Basic, Identity, Path, Aspects
<1> QED
    BY <1>1, <1>2, OneRequest

LEMMA WorkbookDeleteIsSound == ASSUME NEW c \in WorkbookDelete PROVE SoundCommand(c)
<1> DEFINE q == Sends("content", "classified")
<1>1. SoundRequest(q, c.sets)
    BY SentIsSound DEF Clients, Styles
<1> HIDE DEF q
<1>2. /\ c.requests = <<q>>
      /\ c.sets = "creation" => c.skips = "never"
      /\ c.skips \in {"never", "at_plan", "at_recheck"} \/ c.sets \in c.same
      /\ c.sets \in Aspects \cup {"removal", "creation"} /\ c.early \in {"none", "not_attempted"}
    BY DEF q, WorkbookDelete, Removal, Basic
<1> QED
    BY <1>1, <1>2, OneRequest

LEMMA DatasourceUpdateIsSound == ASSUME NEW c \in DatasourceUpdate PROVE SoundCommand(c)
<1> DEFINE q == Sends("content", "classified")
<1>1. SoundRequest(q, c.sets)
    BY SentIsSound DEF Clients, Styles
<1> HIDE DEF q
<1>2. /\ c.requests = <<q>>
      /\ c.sets = "creation" => c.skips = "never"
      /\ c.skips \in {"never", "at_plan", "at_recheck"} \/ c.sets \in c.same
      /\ c.sets \in Aspects \cup {"removal", "creation"} /\ c.early \in {"none", "not_attempted"}
    BY DEF q, DatasourceUpdate, Basic, Identity, Path, Aspects
<1> QED
    BY <1>1, <1>2, OneRequest

LEMMA DatasourceDeleteIsSound == ASSUME NEW c \in DatasourceDelete \cup FlowDelete PROVE SoundCommand(c)
<1> DEFINE q == Sends("content", "classified")
<1>1. SoundRequest(q, c.sets)
    BY SentIsSound DEF Clients, Styles
<1> HIDE DEF q
<1>2. /\ c.requests = <<q>>
      /\ c.sets = "creation" => c.skips = "never"
      /\ c.skips \in {"never", "at_plan", "at_recheck"} \/ c.sets \in c.same
      /\ c.sets \in Aspects \cup {"removal", "creation"} /\ c.early \in {"none", "not_attempted"}
    BY DEF q, DatasourceDelete, FlowDelete, Removal, Basic
<1> QED
    BY <1>1, <1>2, OneRequest

LEMMA FlowUpdateIsSound == ASSUME NEW c \in FlowUpdate PROVE SoundCommand(c)
<1> DEFINE q == Sends("content", "classified")
<1>1. SoundRequest(q, c.sets)
    BY SentIsSound DEF Clients, Styles
<1> HIDE DEF q
<1>2. /\ c.requests = <<q>>
      /\ c.sets = "creation" => c.skips = "never"
      /\ c.skips \in {"never", "at_plan", "at_recheck"} \/ c.sets \in c.same
      /\ c.sets \in Aspects \cup {"removal", "creation"} /\ c.early \in {"none", "not_attempted"}
    BY DEF q, FlowUpdate, Basic, Aspects
<1> QED
    BY <1>1, <1>2, OneRequest

LEMMA FlowMoveIsSound == ASSUME NEW c \in FlowMove PROVE SoundCommand(c)
<1> DEFINE q == Sends("content", "classified")
<1>1. SoundRequest(q, c.sets)
    BY SentIsSound DEF Clients, Styles
<1> HIDE DEF q
<1>2. /\ c.requests = <<q>>
      /\ c.sets = "creation" => c.skips = "never"
      /\ c.skips \in {"never", "at_plan", "at_recheck"} \/ c.sets \in c.same
      /\ c.sets \in Aspects \cup {"removal", "creation"} /\ c.early \in {"none", "not_attempted"}
    BY DEF q, FlowMove, Basic, Path, Aspects
<1> QED
    BY <1>1, <1>2, OneRequest

LEMMA ProjectUpdateIsSound == ASSUME NEW c \in ProjectUpdate PROVE SoundCommand(c)
<1> DEFINE q == Sends("content", "silent")
<1>1. SoundRequest(q, c.sets)
    BY SentIsSound DEF Clients, Styles
<1> HIDE DEF q
<1>2. /\ c.requests = <<q>>
      /\ c.sets = "creation" => c.skips = "never"
      /\ c.skips \in {"never", "at_plan", "at_recheck"} \/ c.sets \in c.same
      /\ c.sets \in Aspects \cup {"removal", "creation"} /\ c.early \in {"none", "not_attempted"}
    BY DEF q, ProjectUpdate, Basic, Silent, Aspects
<1> QED
    BY <1>1, <1>2, OneRequest

LEMMA ProjectMoveIsSound == ASSUME NEW c \in ProjectMove PROVE SoundCommand(c)
<1> DEFINE q == Sends("content", "silent")
<1>1. SoundRequest(q, c.sets)
    BY SentIsSound DEF Clients, Styles
<1> HIDE DEF q
<1>2. /\ c.requests = <<q>>
      /\ c.sets = "creation" => c.skips = "never"
      /\ c.skips \in {"never", "at_plan", "at_recheck"} \/ c.sets \in c.same
      /\ c.sets \in Aspects \cup {"removal", "creation"} /\ c.early \in {"none", "not_attempted"}
    BY DEF q, ProjectMove, Basic, Silent, Aspects
<1> QED
    BY <1>1, <1>2, OneRequest

LEMMA ProjectDeleteIsSound == ASSUME NEW c \in ProjectDelete PROVE SoundCommand(c)
<1> DEFINE q == Sends("content", "silent")
<1>1. SoundRequest(q, c.sets)
    BY SentIsSound DEF Clients, Styles
<1> HIDE DEF q
<1>2. /\ c.requests = <<q>>
      /\ c.sets = "creation" => c.skips = "never"
      /\ c.skips \in {"never", "at_plan", "at_recheck"} \/ c.sets \in c.same
      /\ c.sets \in Aspects \cup {"removal", "creation"} /\ c.early \in {"none", "not_attempted"}
    BY DEF q, ProjectDelete, Removal, Basic, Silent
<1> QED
    BY <1>1, <1>2, OneRequest

LEMMA ProjectCreateIsSound == ASSUME NEW c \in ProjectCreate PROVE SoundCommand(c)
<1> DEFINE q == Sends("new_project", "classified")
<1>1. SoundRequest(q, c.sets)
    BY SentIsSound DEF Clients, Styles
<1> HIDE DEF q
<1>2. /\ c.requests = <<q>>
      /\ c.sets = "creation" => c.skips = "never"
      /\ c.skips \in {"never", "at_plan", "at_recheck"} \/ c.sets \in c.same
      /\ c.sets \in Aspects \cup {"removal", "creation"} /\ c.early \in {"none", "not_attempted"}
    BY DEF q, ProjectCreate, Creation, Basic
<1> QED
    BY <1>1, <1>2, OneRequest

LEMMA UserCreateIsSound == ASSUME NEW c \in UserCreate PROVE SoundCommand(c)
<1> DEFINE q == Sends("user", "uncertain")
<1>1. SoundRequest(q, c.sets)
    BY SentToUsersIsSound DEF Clients, Styles, UserCreate, Creation, Basic
<1> HIDE DEF q
<1>2. /\ c.requests = <<q>>
      /\ c.sets = "creation" => c.skips = "never"
      /\ c.skips \in {"never", "at_plan", "at_recheck"} \/ c.sets \in c.same
      /\ c.sets \in Aspects \cup {"removal", "creation"} /\ c.early \in {"none", "not_attempted"}
    BY DEF q, UserCreate, Creation, Basic
<1> QED
    BY <1>1, <1>2, OneRequest

LEMMA UserUpdateIsSound == ASSUME NEW c \in UserUpdate PROVE SoundCommand(c)
<1> DEFINE q == [Sends("user", "uncertain") EXCEPT !.verify = VerifyUser]
<1>1. SoundRequest(q, c.sets)
    BY SentToUsersIsSound DEF Clients, Styles
<1>2. PICK a \in {"name", "text"} :
        c = [Basic EXCEPT !.sets = a, !.same = Aspects, !.skips = "as_planned", !.requests = <<q>>]
    BY DEF UserUpdate
<1> HIDE DEF q
<1>3. c.requests = <<q>> /\ c.sets = a /\ c.same = Aspects /\ c.early = "none"
    BY <1>2 DEF Basic
<1>4. a \in Aspects /\ a # "creation"
    BY DEF Aspects
<1> QED
    BY <1>1, <1>3, <1>4, OneRequest

LEMMA UserDeleteIsSound == ASSUME NEW c \in UserDelete PROVE SoundCommand(c)
<1> DEFINE q == Sends("exact", "unknown")
<1>1. SoundRequest(q, c.sets)
    BY SentIsSound DEF Clients, Styles
<1> HIDE DEF q
<1>2. /\ c.requests = <<q>>
      /\ c.sets = "creation" => c.skips = "never"
      /\ c.skips \in {"never", "at_plan", "at_recheck"} \/ c.sets \in c.same
      /\ c.sets \in Aspects \cup {"removal", "creation"} /\ c.early \in {"none", "not_attempted"}
    BY DEF q, UserDelete, Removal, Basic
<1> QED
    BY <1>1, <1>2, OneRequest

LEMMA GroupCreateIsSound == ASSUME NEW c \in GroupCreate PROVE SoundCommand(c)
<1> DEFINE q == Sends("user", "uncertain")
<1>1. SoundRequest(q, c.sets)
    BY SentToUsersIsSound DEF Clients, Styles, GroupCreate, Creation, Basic
<1> HIDE DEF q
<1>2. /\ c.requests = <<q>>
      /\ c.sets = "creation" => c.skips = "never"
      /\ c.skips \in {"never", "at_plan", "at_recheck"} \/ c.sets \in c.same
      /\ c.sets \in Aspects \cup {"removal", "creation"} /\ c.early \in {"none", "not_attempted"}
    BY DEF q, GroupCreate, Creation, Basic
<1> QED
    BY <1>1, <1>2, OneRequest

LEMMA GroupDeleteIsSound == ASSUME NEW c \in GroupDelete PROVE SoundCommand(c)
<1> DEFINE q == Sends("exact", "silent")
<1>1. SoundRequest(q, c.sets)
    BY SentIsSound DEF Clients, Styles
<1> HIDE DEF q
<1>2. /\ c.requests = <<q>>
      /\ c.sets = "creation" => c.skips = "never"
      /\ c.skips \in {"never", "at_plan", "at_recheck"} \/ c.sets \in c.same
      /\ c.sets \in Aspects \cup {"removal", "creation"} /\ c.early \in {"none", "not_attempted"}
    BY DEF q, GroupDelete, Removal, Basic
<1> QED
    BY <1>1, <1>2, OneRequest

LEMMA PermissionCreateIsSound == ASSUME NEW c \in PermissionCreate \cup PermissionDelete PROVE SoundCommand(c)
<1> DEFINE q == [Sends("permission", "silent") EXCEPT !.readback = TRUE]
<1>1. SoundRequest(q, c.sets)
    BY SentIsSound DEF Clients, Styles
<1> HIDE DEF q
<1>2. /\ c.requests = <<q>>
      /\ c.sets = "creation" => c.skips = "never"
      /\ c.skips \in {"never", "at_plan", "at_recheck"} \/ c.sets \in c.same
      /\ c.sets \in Aspects \cup {"removal", "creation"} /\ c.early \in {"none", "not_attempted"}
    BY DEF q, PermissionCreate, PermissionDelete, Permission, Basic, Aspects
<1> QED
    BY <1>1, <1>2, OneRequest

LEMMA LabelUpdateIsSound == ASSUME NEW c \in LabelUpdate PROVE SoundCommand(c)
<1> DEFINE q == [Sends("label", "acknowledged") EXCEPT !.readback = TRUE]
<1>1. SoundRequest(q, c.sets)
    BY SentIsSound DEF Clients, Styles
<1> HIDE DEF q
<1>2. /\ c.requests = <<q>>
      /\ c.sets = "creation" => c.skips = "never"
      /\ c.skips \in {"never", "at_plan", "at_recheck"} \/ c.sets \in c.same
      /\ c.sets \in Aspects \cup {"removal", "creation"} /\ c.early \in {"none", "not_attempted"}
    BY DEF q, LabelUpdate, Labelled, AddedLabel, Basic, Aspects
<1> QED
    BY <1>1, <1>2, OneRequest

LEMMA LabelDeleteIsSound == ASSUME NEW c \in LabelDelete \cup LabelValueDelete \cup LabelCategoryDelete PROVE SoundCommand(c)
<1> DEFINE q == Sends("removal", "unknown")
<1>1. SoundRequest(q, c.sets)
    BY SentIsSound DEF Clients, Styles
<1> HIDE DEF q
<1>2. /\ c.requests = <<q>>
      /\ c.sets = "creation" => c.skips = "never"
      /\ c.skips \in {"never", "at_plan", "at_recheck"} \/ c.sets \in c.same
      /\ c.sets \in Aspects \cup {"removal", "creation"} /\ c.early \in {"none", "not_attempted"}
    BY DEF q, LabelDelete, LabelValueDelete, LabelCategoryDelete, Removal, Basic
<1> QED
    BY <1>1, <1>2, OneRequest

LEMMA LabelValueUpdateIsSound == ASSUME NEW c \in LabelValueUpdate PROVE SoundCommand(c)
<1> DEFINE q == [Sends("label", "acknowledged") EXCEPT !.readback = TRUE]
<1>1. SoundRequest(q, c.sets)
    BY SentIsSound DEF Clients, Styles
<1> HIDE DEF q
<1>2. /\ c.requests = <<q>>
      /\ c.sets = "creation" => c.skips = "never"
      /\ c.skips \in {"never", "at_plan", "at_recheck"} \/ c.sets \in c.same
      /\ c.sets \in Aspects \cup {"removal", "creation"} /\ c.early \in {"none", "not_attempted"}
    BY DEF q, LabelValueUpdate, Labelled, AddedLabel, Basic, Aspects
<1> QED
    BY <1>1, <1>2, OneRequest

LEMMA LabelCategoryCreateIsSound == ASSUME NEW c \in LabelCategoryCreate PROVE SoundCommand(c)
<1> DEFINE q == [Sends("label", "acknowledged") EXCEPT !.readback = TRUE]
<1>1. SoundRequest(q, c.sets)
    BY SentIsSound DEF Clients, Styles
<1> HIDE DEF q
<1>2. /\ c.requests = <<q>>
      /\ c.sets = "creation" => c.skips = "never"
      /\ c.skips \in {"never", "at_plan", "at_recheck"} \/ c.sets \in c.same
      /\ c.sets \in Aspects \cup {"removal", "creation"} /\ c.early \in {"none", "not_attempted"}
    BY DEF q, LabelCategoryCreate, Labelled, AddedLabel, Basic, Aspects
<1> QED
    BY <1>1, <1>2, OneRequest

LEMMA LabelCategoryUpdateIsSound == ASSUME NEW c \in LabelCategoryUpdate PROVE SoundCommand(c)
<1> DEFINE q == [Sends("label", "acknowledged") EXCEPT !.readback = TRUE]
<1>1. SoundRequest(q, c.sets)
    BY SentIsSound DEF Clients, Styles
<1> HIDE DEF q
<1>2. /\ c.requests = <<q>>
      /\ c.sets = "creation" => c.skips = "never"
      /\ c.skips \in {"never", "at_plan", "at_recheck"} \/ c.sets \in c.same
      /\ c.sets \in Aspects \cup {"removal", "creation"} /\ c.early \in {"none", "not_attempted"}
    BY DEF q, LabelCategoryUpdate, Labelled, Basic, Aspects
<1> QED
    BY <1>1, <1>2, OneRequest

LEMMA PulseDeleteIsSound == ASSUME NEW c \in PulseDelete PROVE SoundCommand(c)
<1> DEFINE q == Sends("pulse", "unknown")
<1>1. SoundRequest(q, c.sets)
    BY SentIsSound DEF Clients, Styles
<1> HIDE DEF q
<1>2. /\ c.requests = <<q>>
      /\ c.sets = "creation" => c.skips = "never"
      /\ c.skips \in {"never", "at_plan", "at_recheck"} \/ c.sets \in c.same
      /\ c.sets \in Aspects \cup {"removal", "creation"} /\ c.early \in {"none", "not_attempted"}
    BY DEF q, PulseDelete, Removal, Basic
<1> QED
    BY <1>1, <1>2, OneRequest

LEMMA UnfollowIsSound == ASSUME NEW c \in Unfollow PROVE SoundCommand(c)
<1> DEFINE q == Sends("exact", "unknown")
<1>1. SoundRequest(q, c.sets)
    BY SentIsSound DEF Clients, Styles
<1> HIDE DEF q
<1>2. /\ c.requests = <<q>>
      /\ c.sets = "creation" => c.skips = "never"
      /\ c.skips \in {"never", "at_plan", "at_recheck"} \/ c.sets \in c.same
      /\ c.sets \in Aspects \cup {"removal", "creation"} /\ c.early \in {"none", "not_attempted"}
    BY DEF q, Unfollow, Removal, Basic
<1> QED
    BY <1>1, <1>2, OneRequest

LEMMA GroupUpdateIsSound == ASSUME NEW c \in GroupUpdate PROVE SoundCommand(c)
<1> DEFINE q == [Sends("group", "classified") EXCEPT !.verify = VerifyGroup]
           m == [Sends("exact", "silent") EXCEPT !.part = "list"]
<1>1. SoundRequest(q, c.sets) /\ SoundRequest(m, c.sets)
    BY SentIsSound, SentToUsersIsSound DEF Clients, Styles
<1>2. PICK a \in {"name", "text"} :
        c = [Basic EXCEPT !.sets = a, !.same = Aspects, !.skips = "as_planned", !.requests = <<q, m, m>>]
    BY DEF GroupUpdate, Member
<1> HIDE DEF q, m
<1>3. c.requests = <<q, m, m>> /\ c.sets = a /\ c.same = Aspects /\ c.early = "none"
    BY <1>2 DEF Basic
<1>4. a \in Aspects
    BY DEF Aspects
<1> QED
    BY <1>1, <1>3, <1>4, ThreeRequests

LEMMA CatalogUpdateIsSound == ASSUME NEW c \in CatalogUpdate PROVE SoundCommand(c)
<1> DEFINE q == Sends("catalog", "acknowledged")
           m == [Sends("catalog", "unknown") EXCEPT !.part = "list"]
           n == [Sends("removal", "unknown") EXCEPT !.part = "list"]
<1>1. SoundRequest(q, c.sets) /\ SoundRequest(m, c.sets) /\ SoundRequest(n, c.sets)
    BY SentIsSound DEF Clients, Styles
<1> HIDE DEF q, m, n
<1>2. /\ c.requests = <<q, m, n>>
      /\ c.sets \in Aspects /\ c.early \in {"none", "not_attempted"} /\ c.skips = "at_recheck"
    BY DEF q, m, n, CatalogUpdate, Basic, Aspects
<1> QED
    BY <1>1, <1>2, ThreeRequests

LEMMA CommandsAreSound == ASSUME NEW c \in Commands PROVE SoundCommand(c)
BY WorkbookUpdateIsSound, WorkbookMoveIsSound, WorkbookDeleteIsSound, DatasourceUpdateIsSound,
   DatasourceDeleteIsSound, FlowUpdateIsSound, FlowMoveIsSound, ProjectUpdateIsSound,
   ProjectMoveIsSound, ProjectDeleteIsSound, ProjectCreateIsSound, UserCreateIsSound,
   UserUpdateIsSound, UserDeleteIsSound, GroupCreateIsSound, GroupDeleteIsSound,
   PermissionCreateIsSound, LabelUpdateIsSound, LabelDeleteIsSound, LabelValueUpdateIsSound,
   LabelCategoryCreateIsSound, LabelCategoryUpdateIsSound, PulseDeleteIsSound, UnfollowIsSound,
   GroupUpdateIsSound, CatalogUpdateIsSound DEF Commands

(* A choice of the requests is a sequence of requests of the command.         *)
LEMMA ChosenRequests ==
    ASSUME NEW s \in Seq(Request), NEW t \in SubSequences(s)
    PROVE  t \in Seq(Request) /\ \A i \in DOMAIN t : \E j \in DOMAIN s : t[i] = s[j]
<1>0. PICK n \in 0 .. Len(s) : \E at \in [1 .. n -> DOMAIN s] : t = [i \in 1 .. n |-> s[at[i]]]
    BY DEF SubSequences
<1>1. PICK at \in [1 .. n -> DOMAIN s] : t = [i \in 1 .. n |-> s[at[i]]]
    BY <1>0
<1>2. n \in Nat
    OBVIOUS
<1>3. \A i \in 1 .. n : at[i] \in DOMAIN s /\ s[at[i]] \in Request
    OBVIOUS
<1>4. t \in [1 .. n -> Request]
    BY <1>1, <1>3
<1>5. t \in Seq(Request)
    BY <1>2, <1>4
<1>6. DOMAIN t = 1 .. n /\ \A i \in 1 .. n : t[i] = s[at[i]]
    BY <1>1
<1> QED
    BY <1>3, <1>5, <1>6

-----------------------------------------------------------------------------
(* RemoteChange: the invariant.                                               *)

Stages == {"start", "planned", "sending", "ended"}
Site == [Roles -> [Keys -> [Aspects -> Nat]]]
SentRequest == [to : 0 .. Objects, toward : 0 .. Objects, effect : {"none", "some", "all"}]

Running ==
    [at : Stages, command : Commands, by : 0 .. 1, to : 0 .. 2, wanted : Nat, typed : [name : {1}, home : 1 .. 2],
     key : 0 .. Objects, place : 0 .. Objects, seen : [Aspects -> Nat], seenPlace : [Aspects -> Nat],
     address : 0 .. Objects, toward : 0 .. Objects, requests : Seq(Request), sent : Seq(SentRequest),
     outcome : ChangeOutcomes]

(* The requests that are left to send are the ones of the command.            *)
SoundRequests(requests, sets) == \A i \in DOMAIN requests : SoundRequest(requests[i], sets)

(* A command that has nothing to do looked at its target before it said so.   *)
NothingToDo(r) == r.seen[r.command.sets] = r.wanted

PlannedCommand(r) ==
    r.at = "planned" =>
        /\ r.command.sets = "creation" => Len(r.requests) = 1
        /\ r.requests = <<>> => r.command.skips \notin {"never", "at_plan"} /\ NothingToDo(r)

SendingCommand(r) ==
    r.at = "sending" =>
        /\ r.requests # <<>> /\ r.address = r.key /\ r.toward = r.place
        /\ r.command.sets = "creation" => Len(r.requests) = 1
        /\ \A i \in 1 .. Len(r.sent) : r.sent[i].effect = "all"

SentAsPlanned(r) == \A i \in 1 .. Len(r.sent) : r.sent[i].to = r.key /\ r.sent[i].toward = r.place

(* The reports of an ended command.                                           *)
TrueReport(r) ==
    r.at = "ended" =>
        /\ r.outcome \in {"preview", "unchanged", "not_attempted"} => r.sent = <<>>
        /\ r.outcome = "not_applied" => r.sent[Len(r.sent)].effect = "none"
        /\ r.outcome = "confirmed" => r.sent[Len(r.sent)].effect # "none"
        /\ r.outcome = "success" =>
             /\ r.sent # <<>>
             /\ \/ r.sent[Len(r.sent)].effect = "all"
                \/ r.sent[Len(r.sent)].effect = "some" /\ r.command.sets = "creation"
        /\ \A i \in 1 .. Len(r.sent) - 1 : r.sent[i].effect = "all"

KeptCommand(r) ==
    /\ r \in Running /\ SoundRequests(r.requests, r.command.sets)
    /\ r.at \in {"start", "planned"} => r.sent = <<>>
    /\ r.at # "ended" => r.outcome = "none"
    /\ PlannedCommand(r) /\ SendingCommand(r) /\ SentAsPlanned(r)
    /\ r.outcome = "unchanged" => NothingToDo(r)
    /\ TrueReport(r)

ChangeInv == site \in Site /\ rival \in 0 .. MaxRival /\ KeptCommand(change)

LEMMA InvPlansAreKept == ASSUME ChangeInv PROVE PlansAreKept
<1>1. change \in Running /\ change.sent \in Seq(SentRequest)
    BY DEF ChangeInv, KeptCommand, Running
<1>2. ChangeTypeOK
    <2>1. site \in [Roles -> [Keys -> [Aspects -> Nat]]] /\ rival \in 0 .. MaxRival
        BY DEF ChangeInv, Site
    <2>2. /\ change.command \in Commands /\ change.at \in {"start", "planned", "sending", "ended"}
          /\ change.key \in 0 .. Objects /\ change.place \in 0 .. Objects /\ change.outcome \in ChangeOutcomes
        BY <1>1 DEF Running, Stages
    <2>3. \A i \in DOMAIN change.sent : change.sent[i] \in SentRequest
        BY <1>1
    <2>4. change.at # "ended" => change.outcome = "none"
        BY DEF ChangeInv, KeptCommand
    <2> QED
        BY <2>1, <2>2, <2>3, <2>4 DEF ChangeTypeOK, SentRequest
<1>3. \A i \in DOMAIN change.sent : change.sent[i].to = change.key /\ change.sent[i].toward = change.place
    BY <1>1 DEF ChangeInv, KeptCommand, SentAsPlanned
<1>4. change.outcome = "unchanged" => change.seen[change.command.sets] = change.wanted
    BY DEF ChangeInv, KeptCommand, NothingToDo
<1> QED
    BY <1>2, <1>3, <1>4 DEF PlansAreKept

LEMMA InvReportsAreTrue == ASSUME ChangeInv PROVE ReportsAreTrue
<1>1. TrueReport(change)
    BY DEF ChangeInv, KeptCommand
<1> QED
    BY <1>1 DEF TrueReport, ReportsAreTrue

LEMMA RunningTyped ==
    ASSUME ChangeInv
    PROVE  /\ change \in Running /\ KeptCommand(change) /\ change.command \in Commands
           /\ SoundCommand(change.command) /\ site \in Site
           /\ change.key \in 0 .. Objects /\ change.place \in 0 .. Objects /\ change.address \in 0 .. Objects
           /\ change.toward \in 0 .. Objects /\ change.wanted \in Nat /\ change.seen \in [Aspects -> Nat]
           /\ change.requests \in Seq(Request) /\ change.sent \in Seq(SentRequest)
           /\ change.outcome \in ChangeOutcomes /\ change.at \in Stages
<1>1. change \in Running /\ KeptCommand(change) /\ site \in Site
    BY DEF ChangeInv, KeptCommand
<1>2. change.command \in Commands
    BY <1>1 DEF Running
<1>3. SoundCommand(change.command)
    BY <1>2, CommandsAreSound
<1> QED
    BY <1>1, <1>2, <1>3 DEF Running

LEMMA ObjectTyped ==
    ASSUME site \in Site, NEW role \in Roles, NEW k \in 0 .. Objects
    PROVE  Object(role, k) \in [Aspects -> Nat]
<1>1. Gone \in [Aspects -> Nat]
    BY DEF Gone
<1>2. ASSUME k # 0 PROVE site[role][k] \in [Aspects -> Nat]
    <2>1. k \in Keys
        BY <1>2 DEF Keys
    <2> QED
        BY <2>1 DEF Site
<1> QED
    BY <1>1, <1>2 DEF Object

(* What is left to do: requests of the command, none only if the wanted value *)
(* is there already.                                                          *)
LEMMA ToDoIsSound ==
    ASSUME ChangeInv, NEW object \in [Aspects -> Nat], NEW wanted \in Nat, NEW requests \in ToDo(object, wanted)
    PROVE  LET c == change.command IN
           /\ requests \in Seq(Request) /\ SoundRequests(requests, c.sets)
           /\ c.skips = "never" => requests = c.requests
           /\ requests = <<>> => c.skips # "never" /\ object[c.sets] = wanted
<1> DEFINE c == change.command
<1>1. SoundCommand(c)
    BY RunningTyped
<1> HIDE DEF c
<1>2. c.requests \in Seq(Request) /\ c.requests # <<>> /\ SoundRequests(c.requests, c.sets)
    BY <1>1 DEF SoundCommand, SoundRequests
<1>3. CASE c.skips = "never"
    <2>1. requests = c.requests
        BY <1>3 DEF ToDo, c
    <2> QED
        BY <1>2, <1>3, <2>1 DEF c
<1>4. CASE c.skips # "never"
    <2>1. requests \in SubSequences(c.requests)
        BY <1>4 DEF ToDo, c
    <2>2. requests \in Seq(Request) /\ \A i \in DOMAIN requests : \E j \in DOMAIN c.requests : requests[i] = c.requests[j]
        BY <1>2, <2>1, ChosenRequests
    <2>3. SoundRequests(requests, c.sets)
        BY <1>2, <2>2 DEF SoundRequests
    <2>4. ASSUME requests = <<>> PROVE object[c.sets] = wanted
        <3>1. ~ \E i \in DOMAIN requests : requests[i].part = "main"
            BY <2>4
        <3>2. "main" \notin IF c.sets \in Aspects /\ object[c.sets] = wanted THEN {} ELSE {"main"}
            BY <1>4, <3>1 DEF ToDo, c
        <3> QED
            BY <3>2
    <2> QED
        BY <1>4, <2>2, <2>3, <2>4 DEF c
<1> QED
    BY <1>3, <1>4

LEMMA ChangeEnds ==
    ASSUME ChangeInv, NEW outcome \in ChangeOutcomes, EndChange(outcome), UNCHANGED <<site, rival>>,
           change.at \in {"start", "planned"}, outcome \in {"preview", "none", "not_attempted"}
    PROVE  ChangeInv'
<1> DEFINE r == [change EXCEPT !.at = "ended", !.outcome = outcome, !.requests = <<>>, !.seenPlace = Gone]
<1>1. change' = r
    BY DEF EndChange
<1>2. change \in Running /\ change.sent = <<>> /\ SentAsPlanned(change)
    BY RunningTyped DEF KeptCommand
<1>3. Gone \in [Aspects -> Nat] /\ <<>> \in Seq(Request) /\ "ended" \in Stages
    BY DEF Gone, Stages
<1>4. r \in Running /\ r.at = "ended" /\ r.outcome = outcome /\ r.requests = <<>> /\ r.sent = change.sent
    BY <1>2, <1>3 DEF Running
<1> HIDE DEF r
<1>5. SoundRequests(r.requests, r.command.sets)
    BY <1>4 DEF SoundRequests
<1>6. Len(r.sent) = 0 /\ r.sent = <<>>
    BY <1>2, <1>4
<1>7. SentAsPlanned(r) /\ TrueReport(r)
    BY <1>4, <1>6 DEF SentAsPlanned, TrueReport
<1>8. PlannedCommand(r) /\ SendingCommand(r)
    BY <1>4 DEF PlannedCommand, SendingCommand
<1>9. KeptCommand(r)
    BY <1>4, <1>5, <1>7, <1>8 DEF KeptCommand
<1> QED
    BY <1>1, <1>9 DEF ChangeInv

LEMMA StopKeeps == ASSUME ChangeInv, Stop PROVE ChangeInv'
<1>1. change.command.early \in {"none", "not_attempted"}
    BY RunningTyped DEF SoundCommand
<1> QED
    BY <1>1, ChangeEnds DEF Stop, ChangeOutcomes

LEMMA PlannedUnchanged ==
    ASSUME ChangeInv, NEW k \in 0 .. Objects, NEW wanted \in Nat, NEW object \in [Aspects -> Nat],
           change.at = "start", object[change.command.sets] = wanted, UNCHANGED <<site, rival>>,
           change' = [change EXCEPT !.at = "ended", !.outcome = "unchanged", !.key = k, !.seen = object, !.wanted = wanted]
    PROVE  ChangeInv'
<1> DEFINE r == [change EXCEPT !.at = "ended", !.outcome = "unchanged", !.key = k, !.seen = object, !.wanted = wanted]
<1>1. change \in Running /\ change.sent = <<>> /\ SoundRequests(change.requests, change.command.sets)
    BY RunningTyped DEF KeptCommand
<1>2. "ended" \in Stages /\ "unchanged" \in ChangeOutcomes
    BY DEF ChangeOutcomes, Stages
<1>3. /\ r \in Running /\ r.at = "ended" /\ r.outcome = "unchanged" /\ r.requests = change.requests
      /\ r.sent = change.sent /\ r.command = change.command /\ r.seen = object /\ r.wanted = wanted
    BY <1>1, <1>2 DEF Running
<1>4. change' = r
    OBVIOUS
<1> HIDE DEF r
<1>5. NothingToDo(r)
    BY <1>3 DEF NothingToDo
<1>6. Len(r.sent) = 0 /\ r.sent = <<>>
    BY <1>1, <1>3
<1>7. SentAsPlanned(r) /\ TrueReport(r)
    BY <1>3, <1>6 DEF SentAsPlanned, TrueReport
<1>8. PlannedCommand(r) /\ SendingCommand(r)
    BY <1>3 DEF PlannedCommand, SendingCommand
<1>9. KeptCommand(r)
    BY <1>1, <1>3, <1>5, <1>7, <1>8 DEF KeptCommand
<1> QED
    BY <1>4, <1>9 DEF ChangeInv

LEMMA PlannedToSend ==
    ASSUME ChangeInv, NEW k \in 0 .. Objects, NEW p \in 0 .. Objects, NEW wanted \in Nat,
           NEW object \in [Aspects -> Nat], NEW place \in [Aspects -> Nat], NEW requests \in ToDo(object, wanted),
           change.at = "start", requests = <<>> => change.command.skips # "at_plan", UNCHANGED <<site, rival>>,
           change' = [change EXCEPT !.at = "planned", !.key = k, !.place = p, !.seen = object, !.wanted = wanted,
                                    !.seenPlace = place, !.requests = requests]
    PROVE  ChangeInv'
<1> DEFINE r == [change EXCEPT !.at = "planned", !.key = k, !.place = p, !.seen = object, !.wanted = wanted,
                               !.seenPlace = place, !.requests = requests]
           c == change.command
<1>1. change \in Running /\ change.sent = <<>> /\ change.outcome = "none" /\ SoundCommand(c)
    BY RunningTyped DEF KeptCommand
<1>2. /\ requests \in Seq(Request) /\ SoundRequests(requests, c.sets)
      /\ c.skips = "never" => requests = c.requests
      /\ requests = <<>> => c.skips # "never" /\ object[c.sets] = wanted
    BY ToDoIsSound
<1>3. "planned" \in Stages
    BY DEF Stages
<1>4. /\ r \in Running /\ r.at = "planned" /\ r.outcome = "none" /\ r.requests = requests
      /\ r.sent = change.sent /\ r.command = c /\ r.seen = object /\ r.wanted = wanted
    BY <1>1, <1>2, <1>3 DEF Running
<1>5. change' = r
    OBVIOUS
<1>6. c.sets = "creation" => c.skips = "never" /\ Len(c.requests) = 1
    BY <1>1 DEF SoundCommand
<1> HIDE DEF r, c
<1>7. PlannedCommand(r)
    BY <1>2, <1>4, <1>6 DEF PlannedCommand, NothingToDo, c
<1>8. Len(r.sent) = 0 /\ r.sent = <<>>
    BY <1>1, <1>4
<1>9. SentAsPlanned(r) /\ TrueReport(r) /\ SendingCommand(r)
    BY <1>4, <1>8 DEF SentAsPlanned, TrueReport, SendingCommand
<1>10. KeptCommand(r)
    BY <1>2, <1>4, <1>7, <1>8, <1>9 DEF KeptCommand
<1> QED
    BY <1>5, <1>10 DEF ChangeInv

LEMMA PlanChangeKeeps == ASSUME ChangeInv, PlanChange PROVE ChangeInv'
<1> DEFINE c == change.command
<1>1. PICK k \in 0 .. Objects, p \in 0 .. Objects :
        LET wanted == IF c.sets = "home" THEN p ELSE change.wanted
            object == Object("target", k) IN
        \E requests \in ToDo(object, wanted) :
            \/ EndChange("preview")
            \/ requests = <<>> /\ c.skips = "at_plan"
               /\ change' = [change EXCEPT !.at = "ended", !.outcome = "unchanged", !.key = k, !.seen = object, !.wanted = wanted]
            \/ (requests = <<>> => c.skips # "at_plan")
               /\ change' = [change EXCEPT !.at = "planned", !.key = k, !.place = p, !.seen = object, !.wanted = wanted,
                                           !.seenPlace = Object("place", p), !.requests = requests]
    BY DEF PlanChange
<1> DEFINE wanted == IF c.sets = "home" THEN p ELSE change.wanted
           object == Object("target", k)
           place == Object("place", p)
<1>2. PICK requests \in ToDo(object, wanted) :
            \/ EndChange("preview")
            \/ requests = <<>> /\ c.skips = "at_plan"
               /\ change' = [change EXCEPT !.at = "ended", !.outcome = "unchanged", !.key = k, !.seen = object, !.wanted = wanted]
            \/ (requests = <<>> => c.skips # "at_plan")
               /\ change' = [change EXCEPT !.at = "planned", !.key = k, !.place = p, !.seen = object, !.wanted = wanted,
                                           !.seenPlace = place, !.requests = requests]
    BY <1>1
<1>3. wanted \in Nat
    BY RunningTyped
<1>4. object \in [Aspects -> Nat] /\ place \in [Aspects -> Nat]
    BY ObjectTyped, RunningTyped DEF Roles
<1>5. change.at = "start" /\ UNCHANGED <<site, rival>>
    BY DEF PlanChange
<1> HIDE DEF wanted, object, place
<1>6. requests = <<>> => object[c.sets] = wanted
    BY <1>3, <1>4, ToDoIsSound
<1>7. CASE EndChange("preview")
    BY <1>5, <1>7, ChangeEnds DEF ChangeOutcomes
<1>8. CASE requests = <<>> /\ c.skips = "at_plan"
           /\ change' = [change EXCEPT !.at = "ended", !.outcome = "unchanged", !.key = k, !.seen = object, !.wanted = wanted]
    BY <1>3, <1>4, <1>5, <1>6, <1>8, PlannedUnchanged
<1>9. CASE (requests = <<>> => c.skips # "at_plan")
           /\ change' = [change EXCEPT !.at = "planned", !.key = k, !.place = p, !.seen = object, !.wanted = wanted,
                                       !.seenPlace = place, !.requests = requests]
    BY <1>3, <1>4, <1>5, <1>9, PlannedToSend
<1> QED
    BY <1>2, <1>7, <1>8, <1>9

(* The last look finds the planned target and place, so what is not sent is   *)
(* so because of what this look saw.                                          *)
LEMMA RecheckFinds ==
    ASSUME ChangeInv, change.at = "planned", NEW k \in 0 .. Objects, NEW p \in 0 .. Objects, Unchanged(k, p),
           NEW requests \in IF change.command.skips = "at_recheck" THEN ToDo(Object("target", k), change.wanted)
                            ELSE {change.requests}
    PROVE  LET c == change.command IN
           /\ requests \in Seq(Request) /\ SoundRequests(requests, c.sets)
           /\ c.sets = "creation" => Len(requests) = 1
           /\ requests = <<>> => Object("target", k)[c.sets] = change.wanted
<1> DEFINE c == change.command
           object == Object("target", k)
<1>1. SoundCommand(c) /\ PlannedCommand(change) /\ SoundRequests(change.requests, c.sets)
    BY RunningTyped DEF KeptCommand
<1>2. object \in [Aspects -> Nat]
    BY ObjectTyped, RunningTyped DEF Roles
<1>3. /\ change.requests \in Seq(Request) /\ change.wanted \in Nat
      /\ c.sets = "creation" => c.skips = "never" /\ Len(c.requests) = 1
      /\ c.skips \in {"never", "at_plan", "at_recheck"} \/ c.sets \in c.same
    BY <1>1, RunningTyped DEF SoundCommand
<1>4. CASE c.skips = "at_recheck"
    BY <1>2, <1>3, <1>4, ToDoIsSound
<1>5. CASE c.skips # "at_recheck"
    <2>1. requests = change.requests
        BY <1>5
    <2>2. c.sets = "creation" => Len(requests) = 1
        BY <1>1, <2>1 DEF PlannedCommand
    <2>3. ASSUME requests = <<>> PROVE object[c.sets] = change.wanted
        <3>1. c.sets \in c.same /\ change.seen[c.sets] = change.wanted
            BY <1>1, <1>3, <1>5, <2>1, <2>3 DEF PlannedCommand, NothingToDo
        <3> QED
            BY <3>1 DEF Unchanged
    <2> QED
        BY <1>1, <1>3, <2>1, <2>2, <2>3
<1> QED
    BY <1>4, <1>5

LEMMA RecheckKeeps == ASSUME ChangeInv, Recheck PROVE ChangeInv'
<1> DEFINE c == change.command
<1>1. PICK k \in 0 .. Objects, p \in 0 .. Objects :
        /\ SameKeys(k, p) /\ Unchanged(k, p)
        /\ LET object == Object("target", k) IN
            \E requests \in IF c.skips = "at_recheck" THEN ToDo(object, change.wanted) ELSE {change.requests} :
                change' = [change EXCEPT !.at = IF requests = <<>> THEN "ended" ELSE "sending",
                                         !.outcome = IF requests = <<>> THEN "unchanged" ELSE "none",
                                         !.seen = object, !.seenPlace = Gone, !.address = k, !.toward = p, !.requests = requests]
    BY DEF Recheck
<1> DEFINE object == Object("target", k)
<1>2. PICK requests \in IF c.skips = "at_recheck" THEN ToDo(object, change.wanted) ELSE {change.requests} :
        change' = [change EXCEPT !.at = IF requests = <<>> THEN "ended" ELSE "sending",
                                 !.outcome = IF requests = <<>> THEN "unchanged" ELSE "none",
                                 !.seen = object, !.seenPlace = Gone, !.address = k, !.toward = p, !.requests = requests]
    BY <1>1
<1> DEFINE at == IF requests = <<>> THEN "ended" ELSE "sending"
           outcome == IF requests = <<>> THEN "unchanged" ELSE "none"
           r == [change EXCEPT !.at = at, !.outcome = outcome, !.seen = object, !.seenPlace = Gone,
                               !.address = k, !.toward = p, !.requests = requests]
<1>3. change' = r
    BY <1>2
<1>4. /\ change \in Running /\ change.sent = <<>> /\ change.at = "planned" /\ UNCHANGED <<site, rival>>
    BY RunningTyped DEF KeptCommand, Recheck
<1>5. object \in [Aspects -> Nat] /\ Gone \in [Aspects -> Nat]
    BY ObjectTyped, RunningTyped DEF Roles, Gone
<1>6. /\ requests \in Seq(Request) /\ SoundRequests(requests, c.sets)
      /\ c.sets = "creation" => Len(requests) = 1
      /\ requests = <<>> => object[c.sets] = change.wanted
    BY <1>1, <1>4, RecheckFinds
<1>7. at \in Stages /\ outcome \in ChangeOutcomes
    BY DEF Stages, ChangeOutcomes
<1>8. /\ requests = <<>> => at = "ended" /\ outcome = "unchanged"
      /\ requests # <<>> => at = "sending" /\ outcome = "none"
    OBVIOUS
<1>9. k = change.key /\ p = change.place
    BY <1>1 DEF SameKeys
<1> HIDE DEF at, outcome, object
<1>10. /\ r \in Running /\ r.at = at /\ r.outcome = outcome /\ r.requests = requests /\ r.sent = change.sent
       /\ r.command = c /\ r.seen = object /\ r.wanted = change.wanted /\ r.address = k /\ r.toward = p
       /\ r.key = change.key /\ r.place = change.place
    BY <1>4, <1>5, <1>6, <1>7 DEF Running
<1> HIDE DEF r, c
<1>11. Len(r.sent) = 0 /\ r.sent = <<>>
    BY <1>4, <1>10
<1>12. SentAsPlanned(r) /\ PlannedCommand(r)
    BY <1>8, <1>10, <1>11 DEF SentAsPlanned, PlannedCommand
<1>13. SendingCommand(r)
    BY <1>6, <1>8, <1>9, <1>10, <1>11 DEF SendingCommand
<1>14. r.outcome = "unchanged" => NothingToDo(r)
    BY <1>6, <1>8, <1>10 DEF NothingToDo
<1>15. TrueReport(r)
    BY <1>8, <1>10, <1>11 DEF TrueReport
<1>16. KeptCommand(r)
    BY <1>6, <1>8, <1>10, <1>11, <1>12, <1>13, <1>14, <1>15 DEF KeptCommand
<1> QED
    BY <1>3, <1>4, <1>16 DEF ChangeInv

LEMMA SiteApplied ==
    ASSUME ChangeInv, NEW request, NEW effect
    PROVE  Apply(request, effect) \in Site
<1>1. site \in Site /\ change.wanted \in Nat
    BY RunningTyped
<1>2. Gone \in [Aspects -> Nat]
    BY DEF Gone
<1>3. ASSUME NEW object \in [Aspects -> Nat], NEW sets PROVE [object EXCEPT ![sets] = change.wanted] \in [Aspects -> Nat]
    BY <1>1, <1>3
<1> DEFINE c == change.command
           key == change.address
           made == IF c.sets = "removal" THEN Gone ELSE [site["target"][key] EXCEPT ![c.sets] = change.wanted]
           changed == [site EXCEPT !["target"][key] = made]
<1>4. changed \in Site
    <2>1. key \in Keys => made \in [Aspects -> Nat]
        BY <1>1, <1>2, <1>3 DEF Site, Roles
    <2> HIDE DEF made
    <2>2. [site["target"] EXCEPT ![key] = made] \in [Keys -> [Aspects -> Nat]]
        BY <1>1, <2>1, ZenonT(30) DEF Site, Roles
    <2>3. changed = [site EXCEPT !["target"] = [site["target"] EXCEPT ![key] = made]]
        BY <1>1 DEF Site, Roles
    <2> HIDE DEF changed
    <2> QED
        BY <1>1, <2>2, <2>3 DEF Site
<1>5. Apply(request, effect) = site \/ Apply(request, effect) = changed
    BY DEF Apply
<1> QED
    BY <1>1, <1>4, <1>5

LEMMA SendRequestKeeps == ASSUME ChangeInv, SendRequest PROVE ChangeInv'
<1> DEFINE request == Head(change.requests)
           rest == Tail(change.requests)
           sets == change.command.sets
<1>1. PICK answer \in AnswersTo(request) : \E effect \in Effects[answer], verdict \in Verdicts(request, answer) :
        LET sent == Append(change.sent, [to |-> change.address, toward |-> change.toward, effect |-> effect]) IN
        /\ site' = Apply(request, effect)
        /\ change' = [change EXCEPT !.sent = sent, !.requests = IF verdict = "ok" THEN rest ELSE <<>>,
                                    !.at = IF verdict = "ok" /\ rest # <<>> THEN "sending" ELSE "ended",
                                    !.outcome = IF verdict # "ok" THEN verdict ELSE IF rest = <<>> THEN "success" ELSE "none"]
    BY ZenonT(30) DEF SendRequest
<1>2. PICK effect \in Effects[answer], verdict \in Verdicts(request, answer) :
        LET sent == Append(change.sent, [to |-> change.address, toward |-> change.toward, effect |-> effect]) IN
        /\ site' = Apply(request, effect)
        /\ change' = [change EXCEPT !.sent = sent, !.requests = IF verdict = "ok" THEN rest ELSE <<>>,
                                    !.at = IF verdict = "ok" /\ rest # <<>> THEN "sending" ELSE "ended",
                                    !.outcome = IF verdict # "ok" THEN verdict ELSE IF rest = <<>> THEN "success" ELSE "none"]
    BY <1>1, ZenonT(30)
<1> DEFINE new == [to |-> change.address, toward |-> change.toward, effect |-> effect]
           sent == Append(change.sent, new)
           requests == IF verdict = "ok" THEN rest ELSE <<>>
           at == IF verdict = "ok" /\ rest # <<>> THEN "sending" ELSE "ended"
           outcome == IF verdict # "ok" THEN verdict ELSE IF rest = <<>> THEN "success" ELSE "none"
           r == [change EXCEPT !.sent = sent, !.requests = requests, !.at = at, !.outcome = outcome]
<1>3. change' = r /\ site' = Apply(request, effect)
    BY <1>2
<1>4. /\ change \in Running /\ change.at = "sending" /\ UNCHANGED rival
      /\ SendingCommand(change) /\ SentAsPlanned(change) /\ SoundRequests(change.requests, sets)
    BY RunningTyped DEF KeptCommand, SendRequest
<1>5. /\ change.requests \in Seq(Request) /\ change.requests # <<>> /\ change.address = change.key
      /\ change.toward = change.place /\ (sets = "creation" => Len(change.requests) = 1)
      /\ change.sent \in Seq(SentRequest) /\ change.key \in 0 .. Objects /\ change.place \in 0 .. Objects
      /\ \A i \in 1 .. Len(change.sent) : change.sent[i].effect = "all"
      /\ \A i \in 1 .. Len(change.sent) : change.sent[i].to = change.key /\ change.sent[i].toward = change.place
    BY <1>4, RunningTyped DEF SendingCommand, SentAsPlanned
<1>6. /\ request = change.requests[1] /\ 1 \in DOMAIN change.requests /\ rest \in Seq(Request)
      /\ \A i \in DOMAIN rest : i + 1 \in DOMAIN change.requests /\ rest[i] = change.requests[i + 1]
      /\ Len(change.requests) = 1 => rest = <<>>
    <2> DEFINE s == change.requests
    <2>1. s \in Seq(Request) /\ s # <<>>
        BY <1>5
    <2> HIDE DEF s
    <2>2. Len(s) \in Nat \ {0} /\ Head(s) = s[1] /\ Tail(s) \in Seq(Request) /\ Len(Tail(s)) = Len(s) - 1
        BY <2>1
    <2>3. \A i \in 1 .. Len(s) - 1 : Tail(s)[i] = s[i + 1]
        BY <2>1, <2>2
    <2>4. DOMAIN s = 1 .. Len(s) /\ DOMAIN Tail(s) = 1 .. Len(s) - 1
        BY <2>1, <2>2
    <2>5. Len(s) = 1 => Tail(s) = <<>>
        <3> DEFINE t == Tail(s)
        <3>1. t \in Seq(Request) /\ (Len(s) = 1 => Len(t) = 0)
            BY <2>2
        <3> HIDE DEF t
        <3>2. Len(s) = 1 => t = <<>>
            BY <3>1
        <3> QED
            BY <3>2 DEF t
    <2> QED
        BY <2>2, <2>3, <2>4, <2>5 DEF s
<1>7. SoundRequest(request, sets) /\ SoundRequests(rest, sets)
    BY <1>4, <1>6 DEF SoundRequests
<1>8. TrueVerdict(effect, verdict, sets)
    <2>1. answer \in Answers
        BY AnswersAreKnown
    <2> HIDE DEF request, sets
    <2> QED
        BY <1>7, <2>1, VerdictsAreTrue
<1>9. effect \in {"none", "some", "all"}
    <2>1. answer \in Answers
        BY AnswersAreKnown
    <2> QED
        BY <2>1 DEF Effects, Answers
<1>10. new \in SentRequest /\ new.to = change.key /\ new.toward = change.place /\ new.effect = effect
    <2>1. new.to = change.key /\ new.toward = change.place /\ new.effect = effect
        BY <1>5
    <2>2. change.address \in 0 .. Objects /\ change.toward \in 0 .. Objects
        BY RunningTyped
    <2> QED
        BY <1>9, <2>1, <2>2 DEF SentRequest
<1> HIDE DEF new
<1>11. /\ sent \in Seq(SentRequest) /\ Len(sent) = Len(change.sent) + 1 /\ sent[Len(sent)] = new
       /\ \A i \in 1 .. Len(change.sent) : sent[i] = change.sent[i]
       /\ sent # <<>> /\ Len(change.sent) \in Nat
    <2> DEFINE s == change.sent
    <2>1. s \in Seq(SentRequest) /\ new \in SentRequest
        BY <1>5, <1>10
    <2> HIDE DEF s
    <2>2. Append(s, new) \in Seq(SentRequest) /\ Len(s) \in Nat
        BY <2>1
    <2>3. Len(Append(s, new)) = Len(s) + 1 /\ Append(s, new)[Len(s) + 1] = new
        BY <2>1
    <2>4. \A i \in 1 .. Len(s) : Append(s, new)[i] = s[i]
        BY <2>1
    <2>5. Append(s, new) # <<>>
        BY <2>2, <2>3
    <2> QED
        BY <2>2, <2>3, <2>4, <2>5 DEF s
<1> HIDE DEF sent, rest, request
<1>12. requests \in Seq(Request) /\ SoundRequests(requests, sets)
    <2>1. <<>> \in Seq(Request) /\ SoundRequests(<<>>, sets)
        BY DEF SoundRequests
    <2> QED
        BY <1>6, <1>7, <2>1
<1>13. /\ verdict \in {"ok", "none", "not_applied", "confirmed", "unknown"}
       /\ verdict = "ok" /\ rest # <<>> => at = "sending" /\ outcome = "none" /\ requests = rest
       /\ verdict = "ok" /\ rest = <<>> => at = "ended" /\ outcome = "success"
       /\ verdict # "ok" => at = "ended" /\ outcome = verdict
    BY <1>8 DEF TrueVerdict
<1>14. at \in Stages /\ outcome \in ChangeOutcomes
    BY <1>13 DEF Stages, ChangeOutcomes
<1> HIDE DEF at, outcome, requests
<1>15. /\ r \in Running /\ r.at = at /\ r.outcome = outcome /\ r.requests = requests /\ r.sent = sent
       /\ r.command = change.command /\ r.address = change.address /\ r.toward = change.toward
       /\ r.key = change.key /\ r.place = change.place
    BY <1>4, <1>11, <1>12, <1>14 DEF Running
<1> HIDE DEF r
<1>16. SentAsPlanned(r)
    <2> SUFFICES ASSUME NEW i \in 1 .. Len(sent) PROVE sent[i].to = change.key /\ sent[i].toward = change.place
        BY <1>15 DEF SentAsPlanned
    <2>1. CASE i \in 1 .. Len(change.sent)
        BY <1>5, <1>11, <2>1
    <2>2. CASE i = Len(sent)
        BY <1>10, <1>11, <2>2
    <2> QED
        BY <1>11, <2>1, <2>2
<1>17. SendingCommand(r) /\ PlannedCommand(r)
    <2>1. r.at # "planned"
        BY <1>13, <1>15
    <2>2. ASSUME r.at = "sending"
          PROVE  verdict = "ok" /\ requests = rest /\ rest # <<>> /\ sets # "creation" /\ effect = "all"
        <3>1. at = "sending"
            BY <1>15, <2>2
        <3>2. verdict = "ok" /\ rest # <<>> /\ requests = rest
            BY <1>13, <3>1
        <3>3. sets # "creation"
            BY <1>5, <1>6, <3>2
        <3>4. effect = "all"
            BY <1>8, <3>2, <3>3 DEF TrueVerdict
        <3> QED
            BY <3>2, <3>3, <3>4
    <2>3. ASSUME r.at = "sending", NEW i \in 1 .. Len(sent) PROVE sent[i].effect = "all"
        <3>1. CASE i \in 1 .. Len(change.sent)
            BY <1>5, <1>11, <3>1
        <3>2. CASE i = Len(sent)
            BY <1>10, <1>11, <2>2, <2>3, <3>2
        <3> QED
            BY <1>11, <3>1, <3>2
    <2>4. PlannedCommand(r)
        BY <2>1 DEF PlannedCommand
    <2>5. SendingCommand(r)
        <3>1. r.command.sets = sets /\ r.address = r.key /\ r.toward = r.place
            BY <1>5, <1>15
        <3>2. ASSUME r.at = "sending" PROVE r.requests # <<>> /\ sets # "creation"
            BY <1>15, <2>2, <3>2
        <3>3. ASSUME r.at = "sending" PROVE \A i \in 1 .. Len(r.sent) : r.sent[i].effect = "all"
            BY <1>15, <2>3, <3>3
        <3> HIDE DEF sets
        <3> QED
            BY <3>1, <3>2, <3>3 DEF SendingCommand
    <2> QED
        BY <2>4, <2>5
<1>18. TrueReport(r)
    <2>1. \A i \in 1 .. Len(sent) - 1 : sent[i].effect = "all"
        BY <1>5, <1>11
    <2>2. sent[Len(sent)].effect = effect /\ sent # <<>>
        BY <1>10, <1>11
    <2>3. ASSUME at = "ended"
          PROVE  /\ outcome \in {"success", "none", "not_applied", "confirmed", "unknown"}
                 /\ outcome = "not_applied" => effect = "none"
                 /\ outcome = "confirmed" => effect # "none"
                 /\ outcome = "success" => effect = "all" \/ (effect = "some" /\ sets = "creation")
        BY <1>8, <1>13, <2>3 DEF TrueVerdict
    <2> QED
        BY <1>15, <2>1, <2>2, <2>3 DEF TrueReport
<1>19. (r.at # "ended" => r.outcome = "none") /\ r.outcome # "unchanged" /\ r.at \notin {"start", "planned"}
    BY <1>13, <1>15
<1>20. KeptCommand(r)
    BY <1>12, <1>15, <1>16, <1>17, <1>18, <1>19 DEF KeptCommand
<1>21. site' \in Site
    BY <1>3, SiteApplied
<1> QED
    BY <1>3, <1>4, <1>20, <1>21 DEF ChangeInv

LEMMA RivalActsKeeps == ASSUME ChangeInv, RivalActs PROVE ChangeInv'
<1>1. rival' \in 0 .. MaxRival /\ change' = change
    BY DEF RivalActs, ChangeInv
<1>2. PICK role \in Roles, k \in Keys :
        \/ \E a \in Aspects, v \in 1 .. 2 : site' = [site EXCEPT ![role][k][a] = v]
        \/ site' = [site EXCEPT ![role][k] = Gone]
    BY DEF RivalActs
<1>3. site \in Site /\ Gone \in [Aspects -> Nat]
    BY RunningTyped DEF Gone
<1>4. ASSUME NEW made \in [Aspects -> Nat] PROVE [site EXCEPT ![role][k] = made] \in Site
    BY <1>3, <1>4 DEF Site
<1>5. site' \in Site
    <2>1. CASE \E a \in Aspects, v \in 1 .. 2 : site' = [site EXCEPT ![role][k][a] = v]
        <3>1. PICK a \in Aspects, v \in 1 .. 2 : site' = [site EXCEPT ![role][k][a] = v]
            BY <2>1
        <3> DEFINE made == [site[role][k] EXCEPT ![a] = v]
        <3>2. made \in [Aspects -> Nat]
            BY <1>3 DEF Site
        <3>3. site' = [site EXCEPT ![role][k] = made]
            BY <1>3, <3>1 DEF Site
        <3> HIDE DEF made
        <3> QED
            BY <1>4, <3>2, <3>3
    <2>2. CASE site' = [site EXCEPT ![role][k] = Gone]
        BY <1>3, <1>4, <2>2
    <2> QED
        BY <1>2, <2>1, <2>2
<1> QED
    BY <1>1, <1>5 DEF ChangeInv

LEMMA ChangeStarts == ASSUME ChangeInit PROVE ChangeInv
<1>1. PICK command \in Commands, present \in SUBSET Keys, home \in 1 .. 2, by \in 0 .. 1, to \in 0 .. 2, wanted \in 1 .. 2 :
        ChangeStart(command, present, home, by, to, wanted)
    BY DEF ChangeInit
<1>2. Gone \in [Aspects -> Nat] /\ <<>> \in Seq(Request) /\ <<>> \in Seq(SentRequest) /\ Len(<<>>) = 0
    BY DEF Gone
<1>3. site \in Site
    <2>1. ASSUME NEW k \in Keys
          PROVE  /\ [name |-> k, home |-> 1, owner |-> 1, text |-> 1] \in [Aspects -> Nat]
                 /\ [name |-> k, home |-> home, owner |-> 1, text |-> 1] \in [Aspects -> Nat]
        BY <2>1 DEF Aspects, Keys
    <2> DEFINE object(role, k) ==
            IF role = "place" THEN [name |-> k, home |-> 1, owner |-> 1, text |-> 1]
            ELSE IF k \in present THEN [name |-> k, home |-> home, owner |-> 1, text |-> 1] ELSE Gone
    <2>2. site = [role \in Roles |-> [k \in Keys |-> object(role, k)]]
        BY <1>1 DEF ChangeStart
    <2>3. ASSUME NEW role \in Roles, NEW k \in Keys PROVE object(role, k) \in [Aspects -> Nat]
        BY <1>2, <2>1
    <2> HIDE DEF object
    <2> QED
        BY <2>2, <2>3 DEF Site
<1>4. "start" \in Stages /\ "none" \in ChangeOutcomes
    BY DEF Stages, ChangeOutcomes
<1>5. change = [at |-> "start", command |-> command, by |-> by, to |-> to, wanted |-> wanted,
                typed |-> [name |-> 1, home |-> home], key |-> 0, place |-> 0, seen |-> Gone, seenPlace |-> Gone,
                address |-> 0, toward |-> 0, requests |-> <<>>, sent |-> <<>>, outcome |-> "none"]
    BY <1>1 DEF ChangeStart
<1>6. [name |-> 1, home |-> home] \in [name : {1}, home : 1 .. 2]
    OBVIOUS
<1>7. change \in Running
    BY <1>2, <1>4, <1>5, <1>6 DEF Running
<1>8. change.at = "start" /\ change.requests = <<>> /\ change.sent = <<>> /\ change.outcome = "none"
    BY <1>5
<1>9. rival \in 0 .. MaxRival
    BY <1>1 DEF ChangeStart
<1>10. KeptCommand(change)
    BY <1>2, <1>7, <1>8 DEF KeptCommand, SoundRequests, PlannedCommand, SendingCommand, SentAsPlanned, TrueReport
<1> QED
    BY <1>3, <1>9, <1>10 DEF ChangeInv

LEMMA ChangeStep ==
    ASSUME ChangeInv, [ChangeNext]_changeVars
    PROVE  ChangeInv'
<1>1. CASE UNCHANGED changeVars
    BY <1>1 DEF changeVars, ChangeInv, KeptCommand, SoundRequests, PlannedCommand, SendingCommand, SentAsPlanned,
                TrueReport, NothingToDo
<1> QED
    BY <1>1, StopKeeps, PlanChangeKeeps, RecheckKeeps, SendRequestKeeps, RivalActsKeeps DEF ChangeNext

LEMMA ChangeInvariant == ChangeSpec => []ChangeInv
<1>1. ChangeInit => ChangeInv
    BY ChangeStarts
<1>2. ChangeInv /\ [ChangeNext]_changeVars => ChangeInv'
    BY ChangeStep
<1> QED
    BY <1>1, <1>2, PTL DEF ChangeSpec

(* What a command that changes something says about its requests is so        *)
(* (actions/mutationerror.go, Failure and the commands that call it): nothing *)
(* was sent by one that says unchanged, preview or not_attempted, a request   *)
(* reported as not_applied changed nothing and a confirmed one did, and every *)
(* request before the last took effect.                                       *)
THEOREM CommandsReportTruly == ChangeSpec => []ReportsAreTrue
<1>1. ChangeInv => ReportsAreTrue
    BY InvReportsAreTrue
<1> QED
    BY <1>1, ChangeInvariant, PTL

(* Whatever others change between the two looks of a command, each of its     *)
(* requests goes to the target and the destination that its plan showed, and  *)
(* a command that says unchanged saw the wanted value in its last look.       *)
THEOREM CommandsKeepToPlans == ChangeSpec => []PlansAreKept
<1>1. ChangeInv => PlansAreKept
    BY InvPlansAreKept
<1> QED
    BY <1>1, ChangeInvariant, PTL
=============================================================================
