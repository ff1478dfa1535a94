---------------------------- MODULE RemoteChange -----------------------------
(* One command that changes something in Tableau: it looks at its target,     *)
(* shows a plan, looks again, sends its requests one by one and reports what  *)
(* became of them.  Another administrator changes the site meanwhile and any  *)
(* answer may be lost.  Every command of src/actions that does so is one set  *)
(* of records below: what it looks up again and how, what must not have       *)
(* changed, when it leaves out a request, and how it reports a failed one.    *)
(* An answer of 2xx comes from Tableau and means that the request took        *)
(* effect; a 4xx that it did not; 5xx or no answer mean neither.              *)
EXTENDS Naturals, Sequences

CONSTANTS
    Objects,          \* the targets, and the places, of a site have the keys 1 .. Objects
    MaxRival          \* bound: steps of the other administrator

ASSUME ChangeAssumption == Objects \in Nat \ {0} /\ MaxRival \in Nat

VARIABLES
    site,             \* the aspects of every target and place, Gone once it is removed
    rival,            \* steps the other administrator has taken
    change            \* the command

changeVars == <<site, rival, change>>

-----------------------------------------------------------------------------
(* The site.  A key is a LUID, or the name of a label; 0 is none.  A selector *)
(* is a key, or 0 for the name and home (the project) that the user typed.    *)
(* owner and text stand for everything else about an object.                  *)

Keys == 1 .. Objects
Roles == {"target", "place"}
Aspects == {"name", "home", "owner", "text"}
Gone == [a \in Aspects |-> 0]
IsTyped(object, typed) == \A a \in DOMAIN typed : object[a] = typed[a]
Found(role, selector, typed) ==
    {k \in Keys : IF selector = 0 THEN IsTyped(site[role][k], typed) ELSE k = selector /\ site[role][k] # Gone}
FoundTarget(how, selector, typed) ==
    IF how = "unseen" THEN {selector} \ {0} ELSE Found("target", selector, typed)

-----------------------------------------------------------------------------
(* How a client reports the answer to a request.  unsent: the request never   *)
(* left; refused: 4xx; failed: 5xx; lost: no answer; status, body: a 2xx of   *)
(* another status, or without a usable body; differs: usable, but not with    *)
(* the wanted values; good.  A receipt is blank if it has no outcome.         *)

Effects ==
    [unsent |-> {"none"}, refused |-> {"none"}, failed |-> {"none", "all"}, lost |-> {"none", "all"},
     status |-> {"all"}, body |-> {"all"}, differs |-> {"some"}, good |-> {"all"}]

SubmissionAttempted(answer) == answer \in {"refused", "failed", "lost"}
MutationUncertain(answer) == SubmissionAttempted(answer) /\ answer # "refused"

UncertainOr(answer, rest) == IF MutationUncertain(answer) \/ answer \in {"status", "body"} THEN "unknown" ELSE rest

ContentReceipt(answer) ==
    UncertainOr(answer, CASE answer = "good" -> "succeeded" [] answer = "differs" -> "unknown" [] OTHER -> "blank")
NewProjectReceipt(answer) ==
    UncertainOr(answer, CASE answer = "good" -> "succeeded" [] answer = "differs" -> "partial" [] OTHER -> "blank")
UserReceipt(answer) ==
    IF SubmissionAttempted(answer) THEN "unknown" ELSE UncertainOr(answer, IF answer = "unsent" THEN "blank" ELSE "succeeded")
GroupReceipt(answer) ==
    CASE answer \in {"good", "differs"} -> "succeeded" [] answer \in {"status", "body"} -> "unknown" [] OTHER -> "blank"
PermissionReceipt(answer) ==
    CASE answer = "good" -> "succeeded" [] answer \in {"refused", "failed"} -> "blank" [] OTHER -> "unknown"
LabelReceipt(answer) ==
    CASE answer = "good" -> "succeeded" [] answer \in {"body", "differs"} -> "acknowledged" [] OTHER -> "blank"
(* update of catalog assets returns the node, or the key of the request alone *)
(* if it cannot be read.  The node of another asset counts as status here:    *)
(* the action does not take it for an acknowledgement.                        *)
CatalogReceipt(answer) ==
    CASE answer = "good" -> "succeeded" [] answer \in {"body", "differs"} -> "identified" [] OTHER -> "blank"
(* A status and a body, empty or with the key, and nothing else.              *)
ExactReceipt(answer) ==
    CASE answer = "good" -> "succeeded" [] answer \in {"status", "body", "differs"} -> "unknown" [] OTHER -> "blank"
(* Nothing but the status is looked at, and pulse accepts any.                *)
RemovalReceipt(answer) == IF answer \in {"good", "body"} THEN "succeeded" ELSE "blank"
PulseReceipt(answer) == IF answer \in {"good", "body", "status"} THEN "succeeded" ELSE "blank"

ReceiptOf(client, answer) ==
    CASE client = "content" -> ContentReceipt(answer)
      [] client = "new_project" -> NewProjectReceipt(answer)
      [] client = "user" -> UserReceipt(answer)
      [] client = "group" -> GroupReceipt(answer)
      [] client = "permission" -> PermissionReceipt(answer)
      [] client = "label" -> LabelReceipt(answer)
      [] client = "catalog" -> CatalogReceipt(answer)
      [] client = "exact" -> ExactReceipt(answer)
      [] client = "removal" -> RemovalReceipt(answer)
      [] client = "pulse" -> PulseReceipt(answer)

-----------------------------------------------------------------------------
(* How a command reports a request that failed: the outcome in its error,     *)
(* "none" where the error has no outcome.                                     *)

(* Mutant: an error of the server counts as a refusal too.                    *)
ServerErrorRefuses(receipt, answer) ==
    CASE receipt \in {"succeeded", "partial"} -> "confirmed"
      [] receipt = "blank" /\ answer \in {"refused", "failed"} -> "not_applied"
      [] OTHER -> "unknown"

MutationFailure(receipt, answer) ==
    CASE receipt \in {"succeeded", "partial"} -> "confirmed"
      [] receipt = "blank" /\ answer = "refused" -> "not_applied"
      [] OTHER -> "unknown"

Reported(style, receipt, answer) ==
    CASE style = "classified" -> MutationFailure(receipt, answer)
      [] style = "uncertain" -> IF receipt = "unknown" THEN "unknown" ELSE "none"
      [] style = "acknowledged" -> IF receipt \in {"acknowledged", "identified"} THEN "confirmed" ELSE "unknown"
      [] style = "unknown" -> "unknown"
      [] style = "silent" -> "none"

(* The values in an accepted answer, compared by the command.                 *)
VerifyUser == {"confirmed", "unknown"}
VerifyGroup == {"unknown"}

(* What a command may report after the answer to one request: the outcome of  *)
(* an error, or "ok".  A command that reads back what it wrote may fail then. *)
Verdicts(request, answer) ==
    LET receipt == ReceiptOf(request.client, answer) IN
    IF receipt # "succeeded" THEN {Reported(request.report, receipt, answer)}
    ELSE IF answer = "differs" THEN request.verify
    ELSE IF request.readback THEN {"ok", "confirmed"} ELSE {"ok"}

-----------------------------------------------------------------------------
(* The commands.  again: how the target is found the second time, unseen if   *)
(* it is not looked up at all; toward: the same for the destination; same:    *)
(* what must not have changed, of target and destination; sets: the aspect to *)
(* change, or what else is done; skips: when a target that already has the    *)
(* wanted value is noticed; early: the outcome of an error before the first   *)
(* request.                                                                   *)

Sends(client, report) ==
    [client |-> client, report |-> report, verify |-> {"ok"}, readback |-> FALSE, part |-> "main"]

Basic == [again |-> "key", toward |-> "none", same |-> {}, samePlace |-> {}, sets |-> "text",
          skips |-> "at_recheck", early |-> "none", requests |-> <<Sends("content", "classified")>>]
Removal == [Basic EXCEPT !.sets = "removal", !.skips = "never"]
Creation == [Basic EXCEPT !.again = "absent", !.sets = "creation", !.skips = "never"]
Labelled == [Basic EXCEPT !.skips = "at_plan", !.early = "not_attempted", !.same = Aspects,
                          !.requests = <<[Sends("label", "acknowledged") EXCEPT !.readback = TRUE]>>]

Path == {"name", "home"}
Identity == Path \cup {"owner"}

WorkbookUpdate == {[Basic EXCEPT !.sets = a, !.same = Identity \cup {a}] : a \in {"name", "owner", "text"}}
WorkbookMove == {[Basic EXCEPT !.sets = "home", !.same = Identity, !.toward = "key", !.skips = "as_planned"]}
WorkbookDelete == {Removal}
DatasourceUpdate == {[Basic EXCEPT !.sets = a, !.same = Identity] : a \in {"name", "owner"}}
DatasourceMove == WorkbookMove
DatasourceDelete == {[Removal EXCEPT !.again = "selector", !.same = Path]}
FlowUpdate == {[Basic EXCEPT !.sets = "owner", !.same = Identity]}
FlowMove == {[Basic EXCEPT !.sets = "home", !.again = "selector", !.toward = "selector", !.same = Path,
                           !.samePlace = Path, !.skips = "as_planned"]}
FlowDelete == DatasourceDelete

Silent == <<Sends("content", "silent")>>
ProjectUpdate == {[Basic EXCEPT !.sets = a, !.again = "selector", !.requests = Silent] : a \in {"name", "text"}}
ProjectMove == {[Basic EXCEPT !.sets = "home", !.same = Path, !.toward = "key", !.requests = Silent]}
ProjectDelete == {[Removal EXCEPT !.requests = Silent]}
ProjectCreate == {[Creation EXCEPT !.toward = "selector", !.requests = <<Sends("new_project", "classified")>>]}

UserCreate == {[Creation EXCEPT !.requests = <<Sends("user", "uncertain")>>]}
UserUpdate ==
    {[Basic EXCEPT !.sets = a, !.same = Aspects, !.skips = "as_planned",
                   !.requests = <<[Sends("user", "uncertain") EXCEPT !.verify = VerifyUser]>>] : a \in {"name", "text"}}
(* A refusal because of owned content, which may end the license, is left out. *)
UserDelete == {[Removal EXCEPT !.same = Aspects, !.requests = <<Sends("exact", "unknown")>>]}
GroupCreate == {[Creation EXCEPT !.requests = <<Sends("user", "uncertain")>>]}
Member == [Sends("exact", "silent") EXCEPT !.part = "list"]
(* The settings, then each member to add, then each to remove.                *)
GroupUpdate ==
    {[Basic EXCEPT !.sets = a, !.same = Aspects, !.skips = "as_planned", !.requests =
        <<[Sends("group", "classified") EXCEPT !.verify = VerifyGroup], Member, Member>>] : a \in {"name", "text"}}
GroupDelete == {[Removal EXCEPT !.same = Aspects, !.requests = <<Sends("exact", "silent")>>]}
Permission == [Basic EXCEPT !.same = Aspects, !.skips = "as_planned",
                            !.requests = <<[Sends("permission", "silent") EXCEPT !.readback = TRUE]>>]
PermissionCreate == {Permission}
PermissionDelete == {Permission}

AddedLabel == [Labelled EXCEPT !.again = "absent", !.sets = "creation", !.skips = "never"]
LabelUpdate == {Labelled, AddedLabel}
LabelDelete == {[Removal EXCEPT !.same = Aspects, !.early = "not_attempted", !.requests = <<Sends("removal", "unknown")>>]}
LabelValueUpdate == {[Labelled EXCEPT !.sets = a] : a \in {"name", "text"}} \cup {AddedLabel}
LabelValueDelete == LabelDelete
LabelCategoryCreate == {AddedLabel}
LabelCategoryUpdate == {[Labelled EXCEPT !.sets = a] : a \in {"name", "text"}}
LabelCategoryDelete == LabelDelete

(* The properties, then the tags to add at once, then each to remove.  That   *)
(* an error names the added tags that Tableau has acknowledged is left out.   *)
CatalogUpdate ==
    {[Basic EXCEPT !.early = "not_attempted", !.requests =
        <<Sends("catalog", "acknowledged"),
          [Sends("catalog", "unknown") EXCEPT !.part = "list"], [Sends("removal", "unknown") EXCEPT !.part = "list"]>>]}
PulseDelete == {[Removal EXCEPT !.early = "not_attempted", !.requests = <<Sends("pulse", "unknown")>>]}
(* A subscription is looked up by its metric and follower, or not at all.     *)
Unfollow ==
    {[Removal EXCEPT !.again = how, !.early = "not_attempted", !.requests = <<Sends("exact", "unknown")>>] :
        how \in {"selector", "unseen"}}

Commands ==
    WorkbookUpdate \cup WorkbookMove \cup WorkbookDelete \cup DatasourceUpdate \cup DatasourceMove
    \cup DatasourceDelete \cup FlowUpdate \cup FlowMove \cup FlowDelete \cup ProjectUpdate \cup ProjectMove
    \cup ProjectDelete \cup ProjectCreate \cup UserCreate \cup UserUpdate \cup UserDelete \cup GroupCreate
    \cup GroupUpdate \cup GroupDelete \cup PermissionCreate \cup PermissionDelete \cup LabelUpdate
    \cup LabelDelete \cup LabelValueUpdate \cup LabelValueDelete \cup LabelCategoryCreate
    \cup LabelCategoryUpdate \cup LabelCategoryDelete \cup CatalogUpdate \cup PulseDelete \cup Unfollow

-----------------------------------------------------------------------------
(* The steps of the command.                                                  *)

ChangeOutcomes == {"preview", "unchanged", "success", "none", "not_attempted", "not_applied", "confirmed", "unknown"}

ChangeTypeOK ==
    /\ site \in [Roles -> [Keys -> [Aspects -> Nat]]] /\ rival \in 0 .. MaxRival
    /\ change.command \in Commands /\ change.at \in {"start", "planned", "sending", "ended"}
    /\ change.key \in 0 .. Objects /\ change.place \in 0 .. Objects
    /\ \A i \in DOMAIN change.sent :
        change.sent[i] \in [to : 0 .. Objects, toward : 0 .. Objects, effect : {"none", "some", "all"}]
    /\ change.outcome \in ChangeOutcomes /\ (change.at # "ended" => change.outcome = "none")

(* Object 1 has the typed name, if it is there at all; place 1 is the typed   *)
(* one, and the targets are in either place.  Values of aspects are 1 and 2.  *)
ChangeStart(command, present, home, by, to, wanted) ==
    /\ site = [role \in Roles |-> [k \in Keys |->
        IF role = "place" THEN [name |-> k, home |-> 1, owner |-> 1, text |-> 1]
        ELSE IF k \in present THEN [name |-> k, home |-> home, owner |-> 1, text |-> 1] ELSE Gone]]
    /\ rival = 0
    /\ change = [at |-> "start", command |-> command, by |-> by, to |-> to, wanted |-> wanted,
                 typed |-> [name |-> 1, home |-> home], key |-> 0, place |-> 0, seen |-> Gone, seenPlace |-> Gone,
                 address |-> 0, toward |-> 0, requests |-> <<>>, sent |-> <<>>, outcome |-> "none"]

ChangeInit ==
    \E command \in Commands, present \in SUBSET Keys, home \in 1 .. 2, by \in 0 .. 1, to \in 0 .. 2, wanted \in 1 .. 2 :
        (command.toward = "none" => to = 0) /\ ChangeStart(command, present, home, by, to, wanted)

Object(role, k) == IF k = 0 THEN Gone ELSE site[role][k]
TypedPlace == [name |-> 1, home |-> 1]
EndChange(outcome) == change' = [change EXCEPT !.at = "ended", !.outcome = outcome, !.requests = <<>>, !.seenPlace = Gone]

SubSequences(s) ==
    UNION {{[i \in 1 .. n |-> s[at[i]]] :
                at \in {f \in [1 .. n -> DOMAIN s] : \A i, j \in 1 .. n : i < j => f[i] < f[j]}} : n \in 0 .. Len(s)}

(* What is still to do: the main request unless the target already has the    *)
(* wanted value, and the listed ones that the contents call for.              *)
ToDo(object, wanted) ==
    LET c == change.command
        needed == IF c.sets \in Aspects /\ object[c.sets] = wanted THEN {} ELSE {"main"} IN
    IF c.skips = "never" THEN {c.requests}
    ELSE {s \in SubSequences(c.requests) : (\E i \in DOMAIN s : s[i].part = "main") <=> "main" \in needed}

(* A read fails, a name is ambiguous or taken, or a client is not set up.     *)
Stop == change.at \in {"start", "planned"} /\ EndChange(change.command.early) /\ UNCHANGED <<site, rival>>

PlanChange ==
    LET c == change.command IN
    /\ change.at = "start"
    /\ \E k, p \in 0 .. Objects :
        /\ IF c.again = "absent" THEN k = 0 /\ Found("target", 0, change.typed) = {} ELSE FoundTarget(c.again, change.by, change.typed) = {k}
        /\ IF c.toward = "none" THEN p = 0 ELSE Found("place", change.to, TypedPlace) = {p}
        /\ LET wanted == IF c.sets = "home" THEN p ELSE change.wanted
               object == Object("target", k) IN
            \E requests \in ToDo(object, wanted) :
                \/ EndChange("preview")
                \/ requests = <<>> /\ c.skips = "at_plan"
                   /\ change' = [change EXCEPT !.at = "ended", !.outcome = "unchanged", !.key = k, !.seen = object, !.wanted = wanted]
                \/ (requests = <<>> => c.skips # "at_plan")
                   /\ change' = [change EXCEPT !.at = "planned", !.key = k, !.place = p, !.seen = object, !.wanted = wanted,
                                               !.seenPlace = Object("place", p), !.requests = requests]
    /\ UNCHANGED <<site, rival>>

(* Mutant: the keys found again are not compared with the planned ones.       *)
AnyKeys(k, p) == TRUE

SameKeys(k, p) == k = change.key /\ p = change.place

Unchanged(k, p) ==
    /\ \A a \in change.command.same : Object("target", k)[a] = change.seen[a]
    /\ \A a \in change.command.samePlace : Object("place", p)[a] = change.seenPlace[a]

Again(how, key, selector) == IF how = "selector" THEN selector ELSE key

Recheck ==
    LET c == change.command IN
    /\ change.at = "planned"
    /\ \E k, p \in 0 .. Objects :
        /\ IF c.again = "absent" THEN k = 0 /\ Found("target", 0, change.typed) = {}
           ELSE FoundTarget(c.again, Again(c.again, change.key, change.by), change.typed) = {k}
        /\ IF c.toward = "none" THEN p = 0 ELSE Found("place", Again(c.toward, change.place, change.to), TypedPlace) = {p}
        /\ SameKeys(k, p) /\ Unchanged(k, p)
        /\ LET object == Object("target", k) IN
            \E requests \in IF c.skips = "at_recheck" THEN ToDo(object, change.wanted) ELSE {change.requests} :
                change' = [change EXCEPT !.at = IF requests = <<>> THEN "ended" ELSE "sending",
                                         !.outcome = IF requests = <<>> THEN "unchanged" ELSE "none",
                                         !.seen = object, !.seenPlace = Gone, !.address = k, !.toward = p, !.requests = requests]
    /\ UNCHANGED <<site, rival>>

AnswersTo(request) == DOMAIN Effects \ (IF request.client \in {"removal", "pulse"} THEN {"differs"} ELSE {})

Apply(request, effect) ==
    LET c == change.command IN
    IF effect # "all" \/ request.part # "main" \/ c.sets = "creation" THEN site
    ELSE [site EXCEPT !["target"][change.address] = IF c.sets = "removal" THEN Gone ELSE [@ EXCEPT ![c.sets] = change.wanted]]

(* One request.  Without its target it has no effect.                         *)
SendRequest ==
    LET request == Head(change.requests) IN
    /\ change.at = "sending"
    /\ \E answer \in AnswersTo(request) : \E effect \in Effects[answer], verdict \in Verdicts(request, answer) :
        LET sent == Append(change.sent, [to |-> change.address, toward |-> change.toward, effect |-> effect])
            rest == Tail(change.requests) IN
        /\ (Object("target", change.address) = Gone /\ change.command.again # "absent") => effect = "none"
        /\ site' = Apply(request, effect)
        /\ change' = [change EXCEPT !.sent = sent, !.requests = IF verdict = "ok" THEN rest ELSE <<>>,
                                    !.at = IF verdict = "ok" /\ rest # <<>> THEN "sending" ELSE "ended",
                                    !.outcome = IF verdict # "ok" THEN verdict ELSE IF rest = <<>> THEN "success" ELSE "none"]
    /\ UNCHANGED rival

(* Another administrator gives an object another name, home, owner or text,   *)
(* or removes it.                                                             *)
RivalActs ==
    /\ change.at \in {"planned", "sending"} /\ rival < MaxRival
    /\ \E role \in Roles, k \in Keys :
        /\ site[role][k] # Gone /\ (role = "place" => change.command.toward # "none")
        /\ \/ \E a \in Aspects, v \in 1 .. 2 : site[role][k][a] # v /\ site' = [site EXCEPT ![role][k][a] = v]
           \/ site' = [site EXCEPT ![role][k] = Gone]
    /\ rival' = rival + 1 /\ UNCHANGED change

ChangeNext == Stop \/ PlanChange \/ Recheck \/ SendRequest \/ RivalActs

ChangeSpec == ChangeInit /\ [][ChangeNext]_changeVars

-----------------------------------------------------------------------------
(* What a command tells its user about its requests is so.  Nothing was sent  *)
(* by a command that says unchanged, preview or not_attempted; a request that *)
(* is reported as not_applied changed nothing and a confirmed one did; after  *)
(* success every request took effect; and so did every one before a failed    *)
(* one, which are the items that the error lists as completed.                *)
ReportsAreTrue ==
    change.at = "ended" =>
        LET sent == change.sent
            last == sent[Len(sent)] IN
        /\ change.outcome \in {"preview", "unchanged", "not_attempted"} => sent = <<>>
        /\ change.outcome = "not_applied" => last.effect = "none"
        /\ change.outcome = "confirmed" => last.effect # "none"
        /\ change.outcome = "success" => sent # <<>> /\ last.effect \in {"all"} \cup (IF change.command.sets = "creation" THEN {"some"} ELSE {})
        /\ \A i \in 1 .. Len(sent) - 1 : sent[i].effect = "all"

(* Whatever the site's other users rename, move or remove between the two     *)
(* looks, every request goes to the target and the destination of the plan,   *)
(* and a command that says unchanged saw the wanted value in its last look.   *)
PlansAreKept ==
    /\ ChangeTypeOK
    /\ \A i \in DOMAIN change.sent : change.sent[i].to = change.key /\ change.sent[i].toward = change.place
    /\ change.outcome = "unchanged" => change.seen[change.command.sets] = change.wanted
=============================================================================
