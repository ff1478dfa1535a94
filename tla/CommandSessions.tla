-------------------------- MODULE CommandSessions --------------------------
(* How the commands of one user share a Tableau personal access token (PAT):  *)
(* src/internal/auth/command_sessions.go with the saved sessions of           *)
(* credentials.go.  Signing in with a PAT ends every earlier session of that  *)
(* PAT, so a sign-in runs under the PAT's sign-in lock and advances its epoch *)
(* file, and a command holds the PAT's use lock while it relies on a session. *)
(*                                                                            *)
(* A command is one process and a target one site reached with one credential *)
(* source; the requests of a command run concurrently, one per target, and    *)
(* share the command's gate.  A token is the number of the sign-in of its PAT *)
(* that issued it (0 is no token).  Advisory locks die with their process.    *)
EXTENDS Naturals

CONSTANTS
    Commands,     \* processes that run a command
    PATs,         \* personal access tokens of one server
    Sites,        \* sites of that server
    References,   \* entries of the native credential store
    Environment,  \* the credential source that is no reference: variables or a login prompt
    SiteOf,       \* the one site a reference is bound to (its target fingerprint)
    Targets,      \* the targets commands use: [site, source]
    NoPAT, Free,  \* model values
    MaxSignIns,   \* bound: sign-ins with one PAT
    Again,        \* do new commands start when one has ended?
    Modes,        \* the kinds of calls commands make
    SessionFaults        \* what may go wrong: writes ("epoch", "key", "save"), "crash", "expire"

ASSUME SessionConstants ==
    /\ SiteOf \in [References -> Sites]
    /\ Environment \notin References
    /\ Targets \subseteq [site : Sites, source : References \cup {Environment}]
    /\ \A g \in Targets : g.source \in References => g.site = SiteOf[g.source]
    /\ NoPAT \notin PATs
    /\ Free \notin Commands \cup Targets
    /\ MaxSignIns \in Nat
    /\ Again \in BOOLEAN
    /\ Modes \subseteq {"reuse", "signIn", "login"}
    /\ SessionFaults \subseteq {"epoch", "key", "save", "crash", "expire"}

VARIABLES
    bound,    \* credential store: the PAT kept under each reference
    saved,    \* credential store: the session kept beside it
    epoch,    \* epoch file of each PAT
    useKey,   \* use-key file of each PAT: the reference whose commands may share it
    signing,  \* holder of each PAT's sign-in lock
    issued,   \* Tableau: number of sign-ins with each PAT
    live,     \* Tableau: the one token of each PAT it accepts
    open,     \* is the command running and not closed?
    gate,     \* the target whose request holds the command's gate
    known,    \* the PAT a command resolved for a target, once
    use,      \* the command's hold on each PAT's use lock and its key
    session,  \* the command's session of each PAT and site: token and epoch
    task      \* the request of each command for each target

store == <<bound, saved>>
coordination == <<epoch, useKey>>
tableau == <<issued, live>>
memory == <<open, known, session>>
sessionVars == <<store, coordination, signing, tableau, memory, gate, use, task>>

NoKey == Environment                  \* the empty key: sole use
NoSession == [token |-> 0, epoch |-> 0]
NotUsed == [handle |-> "none", key |-> NoKey]
Idle == [at |-> "idle", mode |-> "reuse", rejected |-> 0]
Keys == References \cup {NoKey}
Tokens == 0 .. MaxSignIns

SessionTypeOK ==
    /\ bound \in [References -> PATs]
    /\ saved \in [References -> [pat : PATs \cup {NoPAT}, token : Tokens, epoch : Tokens]]
    /\ epoch \in [PATs -> Tokens]
    /\ useKey \in [PATs -> Keys]
    /\ signing \in [PATs -> Commands \cup {Free}]
    /\ issued \in [PATs -> Tokens]
    /\ live \in [PATs -> Tokens]
    /\ open \in [Commands -> BOOLEAN]
    /\ gate \in [Commands -> Targets \cup {Free}]
    /\ known \in [Commands -> [Targets -> PATs \cup {NoPAT}]]
    /\ use \in [Commands -> [PATs -> [handle : {"none", "shared", "exclusive"}, key : Keys]]]
    /\ session \in [Commands -> [PATs -> [Sites -> [token : Tokens, epoch : Tokens]]]]
    /\ task \in [Commands -> [Targets ->
            [at : {"idle", "hold", "waiting", "decide", "signIn", "signed", "recorded"},
             mode : {"reuse", "signIn", "renew", "login"},
             rejected : Tokens]]]

NothingKnown == [g \in Targets |-> NoPAT]
NothingUsed == [p \in PATs |-> NotUsed]
NoSessions == [p \in PATs |-> [s \in Sites |-> NoSession]]
AllIdle == [g \in Targets |-> Idle]

SessionInit ==
    /\ bound \in [References -> PATs]
    /\ saved = [r \in References |-> [pat |-> NoPAT, token |-> 0, epoch |-> 0]]
    /\ epoch = [p \in PATs |-> 0]
    /\ useKey = [p \in PATs |-> NoKey]
    /\ signing = [p \in PATs |-> Free]
    /\ issued = [p \in PATs |-> 0]
    /\ live = [p \in PATs |-> 0]
    /\ open = [c \in Commands |-> TRUE]
    /\ gate = [c \in Commands |-> Free]
    /\ known = [c \in Commands |-> NothingKnown]
    /\ use = [c \in Commands |-> NothingUsed]
    /\ session = [c \in Commands |-> NoSessions]
    /\ task = [c \in Commands |-> AllIdle]

-----------------------------------------------------------------------------
(* What a command holds and may take.                                         *)

Holds(c, p) == use[c][p].handle # "none"
Others(c) == Commands \ {c}
CanShare(c, p) == \A d \in Others(c) : use[d][p].handle # "exclusive"
CanOwn(c, p) == \A d \in Others(c) : ~Holds(d, p)

(* The key of the commands that can adopt each other's saved sessions: those  *)
(* that load the PAT from the same stored reference.                          *)
Key(g) == IF g.source \in References THEN g.source ELSE NoKey

Pat(c, g) == known[c][g]
Mine(c, g) == session[c][Pat(c, g)][g.site]

SetTask(c, g, at) == task' = [task EXCEPT ![c][g].at = at]
EnterGate(c, g) == gate' = [gate EXCEPT ![c] = g]
LeaveGate(c) == gate' = [gate EXCEPT ![c] = Free]
Unlock(p) == signing' = [signing EXCEPT ![p] = Free]

(* The request returns: the gate and, if held, the sign-in lock are released. *)
(* A login keeps no use of the PAT it only validates.                         *)
Return(c, g) ==
    /\ task' = [task EXCEPT ![c][g] = Idle]
    /\ LeaveGate(c)
    /\ signing' = [p \in PATs |-> IF p = Pat(c, g) /\ signing[p] = c THEN Free ELSE signing[p]]

KeepUse(c, g) ==
    use' = IF task[c][g].mode = "login" THEN [use EXCEPT ![c][Pat(c, g)] = NotUsed] ELSE use

-----------------------------------------------------------------------------
(* Authenticate, SignIn and AuthenticateCredentials: enter the gate and       *)
(* resolve the source once per command.  Environment variables and a login    *)
(* prompt give any PAT; a reference gives the one stored under it now.        *)
Start(c, g, mode) ==
    /\ open[c] /\ gate[c] = Free /\ task[c][g] = Idle
    /\ mode = "login" => g.source = Environment
    /\ \E p \in PATs :
        /\ known[c][g] # NoPAT => p = known[c][g]
        /\ known[c][g] = NoPAT /\ g.source \in References => p = bound[g.source]
        /\ known' = [known EXCEPT ![c][g] = p]
    /\ EnterGate(c, g)
    /\ task' = [task EXCEPT ![c][g] = [at |-> "hold", mode |-> mode, rejected |-> 0]]
    /\ UNCHANGED <<store, coordination, signing, tableau, open, session, use>>

(* A request of the session is answered 401: the session renews unless its    *)
(* token was replaced meanwhile (then nothing is left to do).                 *)
Rejected(c, g) ==
    /\ open[c] /\ gate[c] = Free /\ task[c][g] = Idle
    /\ Pat(c, g) # NoPAT /\ Mine(c, g).token # 0
    /\ Mine(c, g).token # live[Pat(c, g)]
    /\ EnterGate(c, g)
    /\ task' = [task EXCEPT ![c][g] =
            [at |-> "hold", mode |-> "renew", rejected |-> Mine(c, g).token]]
    /\ UNCHANGED <<store, coordination, signing, tableau, memory, use>>

(* holdUse found the sign-in lock or the use taken.  Waiting releases the     *)
(* gate; a command that uses another PAT does not wait for a second one.      *)
WaitOrFail(c, g, canFail) ==
    IF canFail /\ \E p \in PATs : use'[c][p].handle # "none"
    THEN Return(c, g)
    ELSE /\ SetTask(c, g, "waiting") /\ LeaveGate(c) /\ UNCHANGED signing

(* holdUse meets a sign-in lock another command holds.                        *)
SignInLocked(c, g) ==
    /\ task[c][g].at = "hold"
    /\ signing[Pat(c, g)] # Free
    /\ use' = use
    /\ WaitOrFail(c, g, FALSE)
    /\ UNCHANGED <<store, coordination, tableau, memory>>

(* useFor: what the command holds after making its use fit the target's key.  *)
(* A hold of sole use, or one whose key is still the PAT's, is kept.          *)
Fits(c, g) ==
    LET p == Pat(c, g)  u == use[c][p] IN
    /\ Holds(c, p)
    /\ u.key = NoKey \/ (u.key = Key(g) /\ useKey[p] = Key(g))

(* holdUse takes the sign-in lock and useFor settles the use of the PAT.      *)
TakeUse(c, g) ==
    LET p == Pat(c, g)  k == Key(g) IN
    /\ task[c][g].at = "hold" /\ signing[p] = Free
    /\ \/ /\ Fits(c, g)
          /\ UNCHANGED <<use, useKey>>
       \/ /\ ~Fits(c, g) /\ k # NoKey /\ CanShare(c, p) /\ useKey[p] = k
          /\ use' = [use EXCEPT ![c][p] = [handle |-> "shared", key |-> k]]
          /\ UNCHANGED useKey
       \/ /\ ~Fits(c, g) /\ k = NoKey /\ CanOwn(c, p)
          /\ use' = [use EXCEPT ![c][p] = [handle |-> "exclusive", key |-> NoKey]]
          /\ UNCHANGED useKey
       \/ /\ ~Fits(c, g) /\ k # NoKey /\ useKey[p] # k /\ CanOwn(c, p)
          /\ useKey' = [useKey EXCEPT ![p] = k]
          /\ use' = [use EXCEPT ![c][p] = [handle |-> "shared", key |-> k]]
    /\ signing' = [signing EXCEPT ![p] = c]
    /\ SetTask(c, g, "decide")
    /\ UNCHANGED <<store, epoch, tableau, memory, gate>>

(* Mutant: a command that uses one PAT waits for another one.                 *)
UseTakenWaits(c, g) ==
    LET p == Pat(c, g)  k == Key(g) IN
    /\ task[c][g].at = "hold" /\ signing[p] = Free
    /\ ~Fits(c, g)
    /\ ~CanOwn(c, p)
    /\ k # NoKey => ~(CanShare(c, p) /\ useKey[p] = k)
    /\ use' = [use EXCEPT ![c][p] = NotUsed]
    /\ WaitOrFail(c, g, FALSE)
    /\ UNCHANGED <<store, coordination, tableau, memory>>

(* useFor cannot have the use now: what the command held before is given up.  *)
UseTaken(c, g) ==
    LET p == Pat(c, g)  k == Key(g) IN
    /\ task[c][g].at = "hold" /\ signing[p] = Free
    /\ ~Fits(c, g)
    /\ ~CanOwn(c, p)
    /\ k # NoKey => ~(CanShare(c, p) /\ useKey[p] = k)
    /\ use' = [use EXCEPT ![c][p] = NotUsed]
    /\ WaitOrFail(c, g, TRUE)
    /\ UNCHANGED <<store, coordination, tableau, memory>>

(* useFor cannot write the key file: the call fails with the use given up.    *)
UseFails(c, g) ==
    LET p == Pat(c, g)  k == Key(g) IN
    /\ "key" \in SessionFaults
    /\ task[c][g].at = "hold" /\ signing[p] = Free
    /\ ~Fits(c, g) /\ k # NoKey /\ useKey[p] # k /\ CanOwn(c, p)
    /\ use' = [use EXCEPT ![c][p] = NotUsed]
    /\ Return(c, g)
    /\ UNCHANGED <<store, coordination, tableau, memory>>

(* waitForUse ends: the request takes the gate back and tries again, or finds *)
(* that its command was closed meanwhile.                                     *)
TryAgain(c, g) ==
    /\ task[c][g].at = "waiting" /\ open[c] /\ gate[c] = Free
    /\ EnterGate(c, g) /\ SetTask(c, g, "hold")
    /\ UNCHANGED <<store, coordination, signing, tableau, memory, use>>

WaitOfClosed(c, g) ==
    /\ task[c][g].at = "waiting" /\ ~open[c] /\ gate[c] = Free
    /\ task' = [task EXCEPT ![c][g] = Idle]
    /\ UNCHANGED <<store, coordination, signing, tableau, memory, gate, use>>

-----------------------------------------------------------------------------
(* authenticate, under the sign-in lock.                                      *)

(* The command's session is still the PAT's latest, or another request        *)
(* renewed it while this one waited.                                          *)
Current(c, g) ==
    /\ Mine(c, g).token # 0
    /\ \/ task[c][g].mode \in {"reuse", "login"} /\ Mine(c, g).epoch = epoch[Pat(c, g)]
       \/ task[c][g].mode = "renew" /\ Mine(c, g).token # task[c][g].rejected

(* Mutant: any saved session of the PAT is adopted.                           *)
AdoptableAnyEpoch(c, g) ==
    /\ task[c][g].mode # "signIn"
    /\ g.source \in References
    /\ saved[g.source].pat = Pat(c, g)
    /\ saved[g.source].token # task[c][g].rejected

(* loadSavedSession: the session of the PAT's current epoch, saved beside the *)
(* stored PAT, unless Tableau rejected that very token.                       *)
Adoptable(c, g) ==
    /\ task[c][g].mode # "signIn"
    /\ g.source \in References
    /\ saved[g.source].pat = Pat(c, g)
    /\ saved[g.source].epoch = epoch[Pat(c, g)]
    /\ saved[g.source].token # task[c][g].rejected

Install(c, g, token, at) ==
    session' = [session EXCEPT ![c][Pat(c, g)][g.site] = [token |-> token, epoch |-> at]]

Reuse(c, g) ==
    /\ task[c][g].at = "decide" /\ Current(c, g)
    /\ Return(c, g) /\ KeepUse(c, g)
    /\ UNCHANGED <<store, coordination, tableau, memory>>

Adopt(c, g) ==
    /\ task[c][g].at = "decide" /\ ~Current(c, g) /\ Adoptable(c, g)
    /\ Install(c, g, saved[g.source].token, epoch[Pat(c, g)])
    /\ Return(c, g) /\ KeepUse(c, g)
    /\ UNCHANGED <<store, coordination, tableau, open, known>>

(* Tableau answers the sign-in: it refuses, or it ends the PAT's sessions at  *)
(* every site and issues a new token, whose answer may be lost.               *)
SignIn(c, g) ==
    LET p == Pat(c, g) IN
    /\ task[c][g].at = "decide" /\ ~Current(c, g) /\ ~Adoptable(c, g)
    /\ issued[p] < MaxSignIns
    /\ issued' = [issued EXCEPT ![p] = @ + 1]
    /\ live' = [live EXCEPT ![p] = issued[p] + 1]
    /\ \/ SetTask(c, g, "signed") /\ UNCHANGED <<gate, signing, use>>
       \/ Return(c, g) /\ KeepUse(c, g)
    /\ UNCHANGED <<store, coordination, memory>>

SignInRefused(c, g) ==
    /\ task[c][g].at = "decide" /\ ~Current(c, g) /\ ~Adoptable(c, g)
    /\ Return(c, g) /\ KeepUse(c, g)
    /\ UNCHANGED <<store, coordination, tableau, memory>>

(* writeEpoch.  A failed write leaves the earlier epoch and fails the call.   *)
RecordEpoch(c, g) ==
    /\ task[c][g].at = "signed"
    /\ \/ /\ epoch' = [epoch EXCEPT ![Pat(c, g)] = @ + 1]
          /\ SetTask(c, g, "recorded")
          /\ UNCHANGED <<gate, signing, use>>
       \/ /\ "epoch" \in SessionFaults
          /\ Return(c, g) /\ KeepUse(c, g)
          /\ UNCHANGED epoch
    /\ UNCHANGED <<store, useKey, tableau, memory>>

(* saveSession: only beside the reference, and only while it still holds the  *)
(* PAT that signed in.  The session is then installed for the command.        *)
SaveSession(c, g) ==
    LET p == Pat(c, g) IN
    /\ task[c][g].at = "recorded"
    /\ g.source \in References /\ bound[g.source] = p
    /\ saved' = [saved EXCEPT ![g.source] = [pat |-> p, token |-> issued[p], epoch |-> epoch[p]]]
    /\ Install(c, g, issued[p], epoch[p])
    /\ Return(c, g) /\ KeepUse(c, g)
    /\ UNCHANGED <<bound, coordination, tableau, open, known>>

(* Mutant: the key file keeps inviting commands that load the reference.      *)
WithholdSilently(c, g) ==
    LET p == Pat(c, g) IN
    /\ task[c][g].at = "recorded"
    /\ g.source \in References => bound[g.source] # p \/ "save" \in SessionFaults
    /\ use' = [use EXCEPT ![c][p] =
            IF task[c][g].mode = "login" THEN NotUsed ELSE [@ EXCEPT !.key = NoKey]]
    /\ Install(c, g, issued[p], epoch[p])
    /\ Return(c, g)
    /\ UNCHANGED <<store, coordination, tableau, open, known>>

(* withholdUse: nobody can adopt the session, so the command's hold becomes   *)
(* sole use before it installs the session.                                   *)
Withhold(c, g) ==
    LET p == Pat(c, g) IN
    /\ task[c][g].at = "recorded"
    /\ g.source \in References => bound[g.source] # p \/ "save" \in SessionFaults
    /\ \/ /\ useKey' = IF use[c][p].key = NoKey THEN useKey ELSE [useKey EXCEPT ![p] = NoKey]
          /\ use' = [use EXCEPT ![c][p] =
                IF task[c][g].mode = "login" THEN NotUsed ELSE [@ EXCEPT !.key = NoKey]]
          /\ Install(c, g, issued[p], epoch[p])
       \/ /\ "key" \in SessionFaults /\ use[c][p].key # NoKey
          /\ KeepUse(c, g)
          /\ UNCHANGED <<useKey, session>>
    /\ Return(c, g)
    /\ UNCHANGED <<store, epoch, tableau, open, known>>

-----------------------------------------------------------------------------
(* The command as a whole.                                                    *)

(* A long wait for a job gives up every use, and keeps the sessions.          *)
Suspend(c) ==
    /\ open[c] /\ gate[c] = Free
    /\ use[c] # NothingUsed
    /\ use' = [use EXCEPT ![c] = NothingUsed]
    /\ UNCHANGED <<store, coordination, signing, tableau, memory, gate, task>>

Close(c) ==
    /\ open[c] /\ gate[c] = Free
    /\ open' = [open EXCEPT ![c] = FALSE]
    /\ use' = [use EXCEPT ![c] = NothingUsed]
    /\ known' = [known EXCEPT ![c] = NothingKnown]
    /\ session' = [session EXCEPT ![c] = NoSessions]
    /\ UNCHANGED <<store, coordination, signing, tableau, gate, task>>

(* The process dies anywhere: the system drops its locks.                     *)
Crash(c) ==
    /\ "crash" \in SessionFaults /\ open[c]
    /\ open' = [open EXCEPT ![c] = FALSE]
    /\ gate' = [gate EXCEPT ![c] = Free]
    /\ known' = [known EXCEPT ![c] = NothingKnown]
    /\ session' = [session EXCEPT ![c] = NoSessions]
    /\ use' = [use EXCEPT ![c] = NothingUsed]
    /\ task' = [task EXCEPT ![c] = AllIdle]
    /\ signing' = [p \in PATs |-> IF signing[p] = c THEN Free ELSE signing[p]]
    /\ UNCHANGED <<store, coordination, tableau>>

(* A new command starts.                                                      *)
Run(c) ==
    /\ Again /\ ~open[c] /\ task[c] = AllIdle
    /\ open' = [open EXCEPT ![c] = TRUE]
    /\ UNCHANGED <<store, coordination, signing, tableau, known, session, gate, use, task>>

(* ReplacePAT: the user stores another PAT under a reference; the removal of  *)
(* the saved session may fail.                                                *)
ReplacePAT(r, p) ==
    /\ bound[r] # p
    /\ bound' = [bound EXCEPT ![r] = p]
    /\ saved' \in {saved, [saved EXCEPT ![r] = [pat |-> NoPAT, token |-> 0, epoch |-> 0]]}
    /\ UNCHANGED <<coordination, signing, tableau, memory, gate, use, task>>

(* Tableau ends a session by itself.                                          *)
Expire(p) ==
    /\ "expire" \in SessionFaults /\ live[p] # 0
    /\ live' = [live EXCEPT ![p] = 0]
    /\ UNCHANGED <<store, coordination, signing, issued, memory, gate, use, task>>

Step(c, g) ==
    \/ SignInLocked(c, g) \/ TakeUse(c, g) \/ UseTaken(c, g) \/ UseFails(c, g)
    \/ TryAgain(c, g) \/ WaitOfClosed(c, g)
    \/ Reuse(c, g) \/ Adopt(c, g) \/ SignIn(c, g) \/ SignInRefused(c, g)
    \/ RecordEpoch(c, g) \/ SaveSession(c, g) \/ Withhold(c, g)

SessionNext ==
    \/ \E c \in Commands, g \in Targets :
        \/ \E mode \in Modes : Start(c, g, mode)
        \/ Rejected(c, g)
        \/ Step(c, g)
    \/ \E c \in Commands : Suspend(c) \/ Close(c) \/ Crash(c) \/ Run(c)
    \/ \E r \in References, p \in PATs : ReplacePAT(r, p)
    \/ \E p \in PATs : Expire(p)

SessionSpec == SessionInit /\ [][SessionNext]_sessionVars

(* A command makes finitely many calls.  A started call runs on; a waiting one *)
(* polls every 100 ms, and blocked senders of the gate's channel are served    *)
(* in their order.  A command whose calls have all returned ends some day.     *)
NewCalls ==
    \E c \in Commands, g \in Targets :
        Rejected(c, g) \/ \E mode \in Modes : Start(c, g, mode)

FinishCommand(c) == task[c] = AllIdle /\ Close(c)

SessionFairness ==
    /\ <>[][~NewCalls]_sessionVars
    /\ \A c \in Commands :
        /\ SF_sessionVars(FinishCommand(c))
        /\ \A g \in Targets : WF_sessionVars(Step(c, g)) /\ SF_sessionVars(TryAgain(c, g))

-----------------------------------------------------------------------------
(* While a command has sole use of a PAT, nobody else's sign-in ends the      *)
(* session it relies on (holdUse, useFor and withholdUse together).           *)
SoleUserKeepsSession ==
    [][\A c \in Commands, p \in PATs :
        Holds(c, p) /\ use[c][p].key = NoKey /\ live[p] # 0
            => live'[p] \in {live[p], 0} \/ signing[p] = c]_sessionVars

(* Epochs order the sessions of a PAT: two sessions with one epoch, in any    *)
(* command or saved, are the same session, and a later epoch means a newer    *)
(* token.  authenticate reuses a session without asking Tableau on the        *)
(* strength of its epoch, so an epoch that was not advanced, or a session     *)
(* adopted under a wrong one, would make a command send an ended token.       *)
SessionsOf(p) ==
    ({session[c][p][s] : c \in Commands, s \in Sites} \ {NoSession})
    \cup {[token |-> saved[r].token, epoch |-> saved[r].epoch] :
             r \in {q \in References : saved[q].pat = p}}

EpochsOrderSessions ==
    SessionTypeOK /\ \A p \in PATs : \A a, b \in SessionsOf(p) : a.epoch <= b.epoch <=> a.token <= b.token

(* No request waits for ever for a PAT: commands that use several PATs never  *)
(* wait for each other in a circle.                                           *)
WaitEnds ==
    \A c \in Commands, g \in Targets :
        task[c][g].at \in {"hold", "waiting"} ~> task[c][g].at \notin {"hold", "waiting"}
=============================================================================
