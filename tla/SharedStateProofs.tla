------------------------- MODULE SharedStateProofs -------------------------
(* What is proved of the state that the commands of one user share: the       *)
(* sessions of a personal access token (CommandSessions) and the cache of a   *)
(* site (CacheGenerations).                                                   *)
EXTENDS CommandSessions, CacheGenerations, SequenceTheorems, FiniteSetTheorems, TLAPS

USE SessionConstants

-----------------------------------------------------------------------------
(* The inductive invariant of CommandSessions.                                *)

Uses == [handle : {"none", "shared", "exclusive"}, key : Keys]

Session == [token : Tokens, epoch : Tokens]

Calls ==
    [at : {"idle", "hold", "waiting", "decide", "signIn", "signed", "recorded"},
     mode : {"reuse", "signIn", "renew", "login"}, rejected : Tokens]

Inside(c, g) == task[c][g].at \notin {"idle", "waiting"}

SignsIn(c, g) == task[c][g].at \in {"decide", "signed", "recorded"}

(* A request inside has its command's gate; under the sign-in lock of its PAT *)
(* its command's use of the PAT fits the request.                             *)
CallsGuarded ==
    \A c \in Commands, g \in Targets :
        /\ Inside(c, g) => gate[c] = g /\ open[c]
        /\ task[c][g].at # "idle" /\ open[c] => Pat(c, g) # NoPAT
        /\ SignsIn(c, g) => signing[Pat(c, g)] = c /\ Fits(c, g)

Sole(c, p) == Holds(c, p) /\ use[c][p].key = NoKey

(* A sole user holds the lock alone, or the key file invites nobody; and no   *)
(* PAT has two sole users.                                                    *)
UsesApart(p) ==
    \A c \in Commands :
        /\ use[c][p].handle = "exclusive" =>
            use[c][p].key = NoKey /\ \A d \in Commands : d # c => ~Holds(d, p)
        /\ Sole(c, p) /\ use[c][p].handle = "shared" => useKey[p] = NoKey
        /\ \A d \in Commands : Sole(c, p) /\ Sole(d, p) => c = d

(* A sign-in that is not recorded yet is newer than every session, one that   *)
(* is recorded also has the later epoch.                                      *)
InOrder(p) ==
    /\ epoch[p] <= issued[p]
    /\ \A a \in SessionsOf(p) : a.epoch <= epoch[p] /\ a.token <= issued[p]
    /\ \A a, b \in SessionsOf(p) : a.epoch <= b.epoch <=> a.token <= b.token
    /\ \A c \in Commands, g \in Targets :
        /\ task[c][g].at = "signed" /\ Pat(c, g) = p =>
            epoch[p] < issued[p] /\ \A a \in SessionsOf(p) : a.token < issued[p]
        /\ task[c][g].at = "recorded" /\ Pat(c, g) = p =>
            \A a \in SessionsOf(p) : a.token < issued[p] /\ a.epoch < epoch[p]

SessionInv ==
    /\ SessionTypeOK /\ CallsGuarded
    /\ \A p \in PATs : UsesApart(p)
    /\ \A p \in PATs : InOrder(p)

-----------------------------------------------------------------------------
(* What the types say of one request.                                         *)

LEMMA SessionTypes ==
    ASSUME SessionTypeOK, NEW c \in Commands, NEW g \in Targets
    PROVE  /\ g.site \in Sites /\ Key(g) \in Keys /\ g.source \in References \cup {Environment}
           /\ task[c][g] \in Calls /\ task[c] \in [Targets -> Calls]
           /\ known[c][g] \in PATs \cup {NoPAT}
           /\ gate[c] \in Targets \cup {Free} /\ open[c] \in BOOLEAN
           /\ Free \notin Targets /\ Free \notin Commands /\ NoPAT \notin PATs
           /\ MaxSignIns \in Nat
BY DEF SessionTypeOK, Key, Keys, NoKey, Calls

LEMMA UseTypes ==
    ASSUME SessionTypeOK, NEW c \in Commands, NEW p \in PATs
    PROVE  /\ use[c][p] \in Uses /\ use[c] \in [PATs -> Uses] /\ use[c][p].key \in Keys
           /\ use[c][p].handle \in {"none", "shared", "exclusive"}
           /\ useKey[p] \in Keys /\ signing[p] \in Commands \cup {Free}
BY DEF SessionTypeOK, Uses

(* One part of a variable changes.                                            *)
SetCall(c, g, t) == task' = [task EXCEPT ![c][g] = t]
SetKnown(c, g, p) == known' = [known EXCEPT ![c][g] = p]
SetUse(c, p, u) == use' = [use EXCEPT ![c][p] = u]
SetSession(c, p, s, a) == session' = [session EXCEPT ![c][p][s] = a]

LEMMA TaskIs ==
    ASSUME SessionTypeOK, NEW c \in Commands, NEW g \in Targets, NEW t \in Calls,
           SetCall(c, g, t)
    PROVE  /\ task' \in [Commands -> [Targets -> Calls]] /\ task'[c][g] = t
           /\ \A d \in Commands, h \in Targets : d # c \/ h # g => task'[d][h] = task[d][h]
<1>1. task \in [Commands -> [Targets -> Calls]]
    BY DEF SessionTypeOK, Calls
<1> QED BY <1>1 DEF SetCall

LEMMA TaskAt ==
    ASSUME SessionTypeOK, NEW c \in Commands, NEW g \in Targets,
           NEW at \in {"idle", "hold", "waiting", "decide", "signIn", "signed", "recorded"},
           SetTask(c, g, at)
    PROVE  /\ task' \in [Commands -> [Targets -> Calls]]
           /\ task'[c][g].at = at /\ task'[c][g].mode = task[c][g].mode
           /\ task'[c][g].rejected = task[c][g].rejected
           /\ \A d \in Commands, h \in Targets : d # c \/ h # g => task'[d][h] = task[d][h]
<1> DEFINE t == [task[c][g] EXCEPT !.at = at]
<1>1. task[c][g] \in Calls
    BY SessionTypes
<1>2. t \in Calls /\ t.at = at /\ t.mode = task[c][g].mode /\ t.rejected = task[c][g].rejected
    BY <1>1 DEF Calls
<1>3. SetCall(c, g, t)
    BY DEF SetTask, SetCall
<1>4. t \in Calls
    BY <1>2
<1> HIDE DEF t
<1>5. /\ task' \in [Commands -> [Targets -> Calls]] /\ task'[c][g] = t
      /\ \A d \in Commands, h \in Targets : d # c \/ h # g => task'[d][h] = task[d][h]
    BY <1>3, <1>4, TaskIs
<1> QED BY <1>2, <1>5

LEMMA KnownIs ==
    ASSUME SessionTypeOK, NEW c \in Commands, NEW g \in Targets, NEW p \in PATs,
           SetKnown(c, g, p)
    PROVE  /\ known' \in [Commands -> [Targets -> PATs \cup {NoPAT}]] /\ known'[c][g] = p
           /\ \A d \in Commands, h \in Targets : d # c \/ h # g => known'[d][h] = known[d][h]
<1>1. known \in [Commands -> [Targets -> PATs \cup {NoPAT}]]
    BY DEF SessionTypeOK
<1> QED BY <1>1 DEF SetKnown

LEMMA UseIs ==
    ASSUME SessionTypeOK, NEW c \in Commands, NEW p \in PATs, NEW u \in Uses,
           SetUse(c, p, u)
    PROVE  /\ use' \in [Commands -> [PATs -> Uses]] /\ use'[c][p] = u
           /\ \A d \in Commands, q \in PATs : d # c \/ q # p => use'[d][q] = use[d][q]
<1>1. use \in [Commands -> [PATs -> Uses]]
    BY DEF SessionTypeOK, Uses
<1> QED BY <1>1 DEF SetUse

LEMMA SessionIs ==
    ASSUME SessionTypeOK, NEW c \in Commands, NEW p \in PATs, NEW s \in Sites, NEW a \in Session,
           SetSession(c, p, s, a)
    PROVE  /\ session' \in [Commands -> [PATs -> [Sites -> Session]]]
           /\ session'[c][p][s] = a
           /\ \A d \in Commands, q \in PATs, x \in Sites :
                d # c \/ q # p \/ x # s => session'[d][q][x] = session[d][q][x]
<1>1. session \in [Commands -> [PATs -> [Sites -> Session]]]
    BY DEF SessionTypeOK, Session
<1> QED BY <1>1 DEF SetSession

(* The return of a request: it is idle, and its locks are free.               *)
LEMMA ReturnIs ==
    ASSUME SessionTypeOK, NEW c \in Commands, NEW g \in Targets, Return(c, g)
    PROVE  /\ task' \in [Commands -> [Targets -> Calls]] /\ task'[c][g] = Idle
           /\ \A d \in Commands, h \in Targets : d # c \/ h # g => task'[d][h] = task[d][h]
           /\ gate' \in [Commands -> Targets \cup {Free}] /\ gate'[c] = Free
           /\ \A d \in Commands : d # c => gate'[d] = gate[d]
           /\ signing' \in [PATs -> Commands \cup {Free}]
           /\ \A p \in PATs : p # Pat(c, g) => signing'[p] = signing[p]
           /\ \A p \in PATs : signing[p] # c => signing'[p] = signing[p]
<1>1. Idle \in Calls
    BY SessionTypes DEF Idle, Calls, Tokens
<1>2. SetCall(c, g, Idle)
    BY DEF Return, SetCall
<1>3. gate \in [Commands -> Targets \cup {Free}] /\ gate' = [gate EXCEPT ![c] = Free]
    BY DEF SessionTypeOK, Return, LeaveGate
<1>4. /\ signing \in [PATs -> Commands \cup {Free}]
      /\ signing' = [p \in PATs |-> IF p = Pat(c, g) /\ signing[p] = c THEN Free ELSE signing[p]]
    BY DEF SessionTypeOK, Return
<1>5. /\ task' \in [Commands -> [Targets -> Calls]] /\ task'[c][g] = Idle
      /\ \A d \in Commands, h \in Targets : d # c \/ h # g => task'[d][h] = task[d][h]
    BY <1>1, <1>2, TaskIs
<1>6. gate' \in [Commands -> Targets \cup {Free}] /\ gate'[c] = Free
      /\ \A d \in Commands : d # c => gate'[d] = gate[d]
    BY <1>3
<1>7. /\ signing' \in [PATs -> Commands \cup {Free}]
      /\ \A p \in PATs : p # Pat(c, g) => signing'[p] = signing[p]
      /\ \A p \in PATs : signing[p] # c => signing'[p] = signing[p]
    BY <1>4
<1> QED BY <1>5, <1>6, <1>7

(* A request that returns keeps its command's use, or gives up its own.       *)
LEMMA KeepUseIs ==
    ASSUME SessionTypeOK, NEW c \in Commands, NEW g \in Targets, Pat(c, g) \in PATs, KeepUse(c, g)
    PROVE  /\ use' \in [Commands -> [PATs -> Uses]]
           /\ \A d \in Commands, p \in PATs : d # c \/ p # Pat(c, g) => use'[d][p] = use[d][p]
           /\ use'[c][Pat(c, g)] \in {use[c][Pat(c, g)], NotUsed}
<1>1. NotUsed \in Uses
    BY DEF NotUsed, Uses, Keys
<1>2. use \in [Commands -> [PATs -> Uses]]
    BY DEF SessionTypeOK, Uses
<1>3. CASE task[c][g].mode = "login"
    <2> DEFINE p == Pat(c, g)
    <2>1. p \in PATs /\ SetUse(c, p, NotUsed)
        BY <1>3 DEF KeepUse, SetUse
    <2> HIDE DEF p
    <2>2. /\ use' \in [Commands -> [PATs -> Uses]] /\ use'[c][p] = NotUsed
          /\ \A d \in Commands, q \in PATs : d # c \/ q # p => use'[d][q] = use[d][q]
        BY <1>1, <2>1, UseIs
    <2> QED BY <2>2 DEF p
<1>4. CASE task[c][g].mode # "login"
    BY <1>2, <1>4 DEF KeepUse
<1> QED BY <1>3, <1>4

-----------------------------------------------------------------------------
(* What leaves the invariant as it is.                                        *)

(* Only the request c, g and its command move.                                *)
OthersSame(c, g) ==
    /\ \A d \in Commands, h \in Targets :
        d # c \/ h # g => task'[d][h] = task[d][h] /\ known'[d][h] = known[d][h]
    /\ \A d \in Commands : d # c => gate'[d] = gate[d]
    /\ \A d \in Commands, p \in PATs : d # c => use'[d][p] = use[d][p]
    /\ open' = open

(* Of the PATs they touch only q, and its lock only when it is theirs to take. *)
OnlyItsPAT(c, q) ==
    /\ \A p \in PATs : p # q =>
        signing'[p] = signing[p] /\ useKey'[p] = useKey[p] /\ use'[c][p] = use[c][p]
    /\ q \in PATs => signing[q] \in {Free, c} \/ (signing'[q] = signing[q] /\ useKey'[q] = useKey[q])

LEMMA CallKeepsGuards ==
    ASSUME SessionTypeOK, CallsGuarded, NEW c \in Commands, NEW g \in Targets,
           OthersSame(c, g), gate[c] \in {Free, g}, OnlyItsPAT(c, known'[c][g]),
           Inside(c, g)' => gate'[c] = g /\ open[c],
           task'[c][g].at # "idle" /\ open[c] => known'[c][g] # NoPAT,
           SignsIn(c, g)' => signing'[known'[c][g]] = c /\ Fits(c, g)'
    PROVE  CallsGuarded'
<1> SUFFICES ASSUME NEW d \in Commands, NEW h \in Targets
             PROVE  /\ Inside(d, h)' => gate'[d] = h /\ open'[d]
                    /\ task'[d][h].at # "idle" /\ open'[d] => known'[d][h] # NoPAT
                    /\ SignsIn(d, h)' => signing'[known'[d][h]] = d /\ Fits(d, h)'
    BY DEF CallsGuarded, Pat
<1>0. /\ Inside(d, h) => gate[d] = h /\ open[d]
      /\ task[d][h].at # "idle" /\ open[d] => known[d][h] # NoPAT
      /\ SignsIn(d, h) => signing[known[d][h]] = d /\ Fits(d, h)
      /\ SignsIn(d, h) => Inside(d, h) /\ task[d][h].at # "idle"
    BY DEF CallsGuarded, Pat, SignsIn, Inside
<1>1. CASE d = c /\ h = g
    BY <1>1 DEF OthersSame
<1>2. CASE d = c /\ h # g
    <2>1. task'[d][h] = task[d][h] /\ known'[d][h] = known[d][h] /\ open' = open
        BY <1>2 DEF OthersSame
    <2>2. ~Inside(d, h)
        BY <1>0, <1>2, SessionTypes
    <2> QED BY <1>0, <2>1, <2>2 DEF Inside, SignsIn
<1>3. CASE d # c
    <2>1. task'[d][h] = task[d][h] /\ known'[d][h] = known[d][h] /\ open' = open /\ gate'[d] = gate[d]
        BY <1>3 DEF OthersSame
    <2>2. ASSUME SignsIn(d, h)
          PROVE  signing'[known'[d][h]] = d /\ Fits(d, h)'
        <3> DEFINE p == known[d][h]
        <3>1. p \in PATs /\ signing[p] = d /\ Fits(d, h)
            BY <1>0, <2>2, SessionTypes
        <3>2. signing[p] \notin {Free, c}
            BY <1>3, <3>1, SessionTypes
        <3>3. signing'[p] = signing[p] /\ useKey'[p] = useKey[p]
            BY <3>1, <3>2 DEF OnlyItsPAT
        <3>4. use'[d][p] = use[d][p]
            BY <1>3, <3>1 DEF OthersSame
        <3> QED BY <2>1, <3>1, <3>3, <3>4 DEF Fits, Holds, Pat
    <2> QED BY <1>0, <2>1, <2>2 DEF Inside, SignsIn
<1> QED BY <1>1, <1>2, <1>3

(* Uses that are given up keep the others apart.                              *)
LEMMA UsesFewer ==
    ASSUME NEW p \in PATs, UsesApart(p), useKey'[p] = useKey[p],
           \A d \in Commands : use'[d][p] = use[d][p] \/ use'[d][p] = NotUsed
    PROVE  UsesApart(p)'
<1> USE DEF Holds, Sole
<1>1. NotUsed.handle = "none"
    BY DEF NotUsed
<1>2. ASSUME NEW d \in Commands
      PROVE  Holds(d, p)' => use'[d][p] = use[d][p]
    BY <1>1
<1> QED BY <1>1, <1>2 DEF UsesApart

(* Sessions that go, and sign-ins that end, keep the order.                   *)
LEMMA OrderKept ==
    ASSUME NEW p \in PATs, InOrder(p), SessionsOf(p)' \subseteq SessionsOf(p),
           epoch'[p] = epoch[p], issued'[p] = issued[p],
           \A c \in Commands, g \in Targets :
            task'[c][g].at \in {"signed", "recorded"} /\ known'[c][g] = p =>
                task[c][g].at = task'[c][g].at /\ known[c][g] = known'[c][g]
    PROVE  InOrder(p)'
BY DEF InOrder, Pat

(* The sessions of a PAT after a step are earlier ones, or the one added.     *)
LEMMA SessionsAfter ==
    ASSUME NEW p \in PATs, NEW a,
           \A c \in Commands, s \in Sites : session'[c][p][s] \in {session[c][p][s], NoSession, a},
           \A r \in References :
            \/ saved'[r] = saved[r] \/ saved'[r].pat # p
            \/ [token |-> saved'[r].token, epoch |-> saved'[r].epoch] = a
    PROVE  SessionsOf(p)' \subseteq SessionsOf(p) \cup {a}
<1> SUFFICES ASSUME NEW b \in SessionsOf(p)', b # a
             PROVE  b \in SessionsOf(p)
    OBVIOUS
<1>1. CASE \E c \in Commands, s \in Sites : b = session'[c][p][s] /\ b # NoSession
    BY <1>1 DEF SessionsOf
<1>2. CASE \E r \in References : saved'[r].pat = p /\ b = [token |-> saved'[r].token, epoch |-> saved'[r].epoch]
    BY <1>2 DEF SessionsOf
<1> QED BY <1>1, <1>2 DEF SessionsOf

LEMMA SessionsSame ==
    ASSUME NEW p \in PATs, session' = session, saved' = saved
    PROVE  SessionsOf(p)' = SessionsOf(p)
BY DEF SessionsOf

LEMMA SessionsTyped ==
    ASSUME SessionTypeOK, NEW p \in PATs, NEW a \in SessionsOf(p)
    PROVE  a \in Session /\ a.token \in Nat /\ a.epoch \in Nat
<1>1. a \in Session
    BY DEF SessionTypeOK, SessionsOf, Session
<1> QED BY <1>1 DEF Session, Tokens

LEMMA CountsTyped ==
    ASSUME SessionTypeOK, NEW p \in PATs
    PROVE  /\ epoch[p] \in Nat /\ issued[p] \in Nat /\ MaxSignIns \in Nat
           /\ epoch[p] \in Tokens /\ issued[p] \in Tokens
           /\ epoch[p] <= MaxSignIns /\ issued[p] <= MaxSignIns
BY DEF SessionTypeOK, Tokens

(* Two sign-ins with one PAT are one.                                         *)
LEMMA OneSignsIn ==
    ASSUME SessionTypeOK, CallsGuarded, NEW c \in Commands, NEW g \in Targets, SignsIn(c, g),
           NEW d \in Commands, NEW h \in Targets, SignsIn(d, h), Pat(c, g) = Pat(d, h)
    PROVE  c = d /\ g = h
<1>1. signing[Pat(c, g)] = c /\ signing[Pat(d, h)] = d
    BY DEF CallsGuarded
<1>2. gate[c] = g /\ gate[d] = h
    BY DEF CallsGuarded, SignsIn, Inside
<1> QED BY <1>1, <1>2

(* A request that is inside has resolved its PAT.                             *)
LEMMA InsideKnows ==
    ASSUME SessionTypeOK, CallsGuarded, NEW c \in Commands, NEW g \in Targets, Inside(c, g)
    PROVE  Pat(c, g) \in PATs /\ gate[c] = g /\ open[c]
<1>1. gate[c] = g /\ open[c] /\ Pat(c, g) # NoPAT
    BY DEF CallsGuarded, Inside
<1> QED BY <1>1, SessionTypes DEF Pat

NoNewSignIn ==
    \A c \in Commands, g \in Targets :
        task'[c][g].at \in {"signed", "recorded"} =>
            task[c][g].at = task'[c][g].at /\ known[c][g] = known'[c][g]

LEMMA OrderQuiet ==
    ASSUME SessionInv, NoNewSignIn, UNCHANGED <<store, epoch, issued, session>>
    PROVE  \A p \in PATs : InOrder(p)'
<1> SUFFICES ASSUME NEW p \in PATs
             PROVE  InOrder(p)'
    OBVIOUS
<1>1. InOrder(p) /\ SessionsOf(p)' = SessionsOf(p)
    BY SessionsSame DEF SessionInv, store
<1> QED BY <1>1, OrderKept DEF NoNewSignIn

-----------------------------------------------------------------------------
(* A request leaves its command's gate: it returns, or it waits.              *)

Leaves(c, g) ==
    /\ task' \in [Commands -> [Targets -> Calls]] /\ task'[c][g].at \in {"idle", "waiting"}
    /\ \A d \in Commands, h \in Targets : d # c \/ h # g => task'[d][h] = task[d][h]
    /\ gate' \in [Commands -> Targets \cup {Free}] /\ gate'[c] = Free
    /\ \A d \in Commands : d # c => gate'[d] = gate[d]
    /\ signing' \in [PATs -> Commands \cup {Free}]
    /\ \A p \in PATs : p # Pat(c, g) => signing'[p] = signing[p]
    /\ \A p \in PATs : signing[p] # c => signing'[p] = signing[p]

UseOnlyOf(c, q) ==
    /\ use' \in [Commands -> [PATs -> Uses]]
    /\ \A d \in Commands, p \in PATs : d # c \/ p # q => use'[d][p] = use[d][p]

UseKept(c, q) == UseOnlyOf(c, q) /\ use'[c][q] \in {use[c][q], NotUsed}

LEMMA ReturnLeaves ==
    ASSUME SessionTypeOK, NEW c \in Commands, NEW g \in Targets, Return(c, g)
    PROVE  Leaves(c, g)
<1>1. Idle.at = "idle"
    BY DEF Idle
<1> QED BY <1>1, ReturnIs DEF Leaves

LEMMA WaitLeaves ==
    ASSUME SessionTypeOK, NEW c \in Commands, NEW g \in Targets,
           SetTask(c, g, "waiting"), LeaveGate(c), UNCHANGED signing
    PROVE  Leaves(c, g)
<1>1. gate \in [Commands -> Targets \cup {Free}] /\ gate' = [gate EXCEPT ![c] = Free]
    BY DEF SessionTypeOK, LeaveGate
<1>2. gate' \in [Commands -> Targets \cup {Free}] /\ gate'[c] = Free
      /\ \A d \in Commands : d # c => gate'[d] = gate[d]
    BY <1>1
<1>3. signing' \in [PATs -> Commands \cup {Free}]
    BY DEF SessionTypeOK
<1>4. /\ task' \in [Commands -> [Targets -> Calls]]
      /\ task'[c][g].at = "waiting"
      /\ \A d \in Commands, h \in Targets : d # c \/ h # g => task'[d][h] = task[d][h]
    BY TaskAt
<1> QED BY <1>2, <1>3, <1>4 DEF Leaves

LEMMA UseStays ==
    ASSUME SessionTypeOK, NEW c \in Commands, NEW q, use' = use
    PROVE  UseKept(c, q)
BY DEF SessionTypeOK, UseKept, UseOnlyOf, Uses

LEMMA UseGoes ==
    ASSUME SessionTypeOK, NEW c \in Commands, NEW q \in PATs, SetUse(c, q, NotUsed)
    PROVE  UseKept(c, q)
<1>1. NotUsed \in Uses
    BY DEF NotUsed, Uses, Keys
<1> QED BY <1>1, UseIs DEF UseKept, UseOnlyOf

LEMMA UseKeptIs ==
    ASSUME SessionTypeOK, NEW c \in Commands, NEW g \in Targets, Pat(c, g) \in PATs, KeepUse(c, g)
    PROVE  UseKept(c, Pat(c, g))
BY KeepUseIs DEF UseKept, UseOnlyOf

LEMMA LeaveGuards ==
    ASSUME SessionInv, NEW c \in Commands, NEW g \in Targets, Inside(c, g), Leaves(c, g),
           UseOnlyOf(c, Pat(c, g)), UNCHANGED <<open, known>>,
           \A p \in PATs : useKey'[p] # useKey[p] => p = Pat(c, g) /\ signing[p] = c
    PROVE  CallsGuarded' /\ NoNewSignIn
<1>1. SessionTypeOK /\ CallsGuarded
    BY DEF SessionInv
<1>2. Pat(c, g) \in PATs /\ gate[c] = g /\ open[c] /\ known'[c][g] = Pat(c, g)
    BY <1>1, InsideKnows DEF Pat
<1>3. OthersSame(c, g)
    BY DEF OthersSame, Leaves, UseOnlyOf
<1>4. OnlyItsPAT(c, known'[c][g])
    <2>1. \A p \in PATs : p # Pat(c, g) =>
            signing'[p] = signing[p] /\ useKey'[p] = useKey[p] /\ use'[c][p] = use[c][p]
        BY DEF Leaves, UseOnlyOf
    <2>2. signing[Pat(c, g)] # c => signing'[Pat(c, g)] = signing[Pat(c, g)]
                                    /\ useKey'[Pat(c, g)] = useKey[Pat(c, g)]
        BY <1>2 DEF Leaves
    <2> QED BY <1>2, <2>1, <2>2 DEF OnlyItsPAT
<1>5. task'[c][g].at \in {"idle", "waiting"}
    BY DEF Leaves
<1>6. ~Inside(c, g)' /\ ~SignsIn(c, g)'
    BY <1>5 DEF Inside, SignsIn
<1>7. known'[c][g] # NoPAT
    BY <1>2, SessionTypes, <1>1
<1>8. CallsGuarded'
    BY <1>1, <1>2, <1>3, <1>4, <1>6, <1>7, CallKeepsGuards
<1>9. NoNewSignIn
    <2> SUFFICES ASSUME NEW d \in Commands, NEW h \in Targets, task'[d][h].at \in {"signed", "recorded"}
                 PROVE  task[d][h].at = task'[d][h].at
        BY DEF NoNewSignIn
    <2>1. d # c \/ h # g
        BY <1>5
    <2> QED BY <2>1 DEF Leaves
<1> QED BY <1>8, <1>9

LEMMA LeaveKeeps ==
    ASSUME SessionInv, NEW c \in Commands, NEW g \in Targets, Inside(c, g), Leaves(c, g),
           UseKept(c, Pat(c, g)), UNCHANGED <<useKey, open, known>>
    PROVE  CallsGuarded' /\ NoNewSignIn /\ \A p \in PATs : UsesApart(p)'
<1>1. UseOnlyOf(c, Pat(c, g)) /\ use'[c][Pat(c, g)] \in {use[c][Pat(c, g)], NotUsed}
    BY DEF UseKept
<1>2. CallsGuarded' /\ NoNewSignIn
    BY <1>1, LeaveGuards
<1>3. ASSUME NEW p \in PATs
      PROVE  UsesApart(p)'
    <2>1. UsesApart(p) /\ useKey'[p] = useKey[p]
        BY DEF SessionInv
    <2>2. \A d \in Commands : use'[d][p] = use[d][p] \/ use'[d][p] = NotUsed
        BY <1>1 DEF UseOnlyOf
    <2> QED BY <2>1, <2>2, UsesFewer
<1> QED BY <1>2, <1>3

(* A request leaves and changes nothing else.                                 *)
LEMMA LeaveIsSafe ==
    ASSUME SessionInv, NEW c \in Commands, NEW g \in Targets, Inside(c, g), Leaves(c, g),
           UseKept(c, Pat(c, g)), UNCHANGED <<store, coordination, issued, memory>>,
           live' \in [PATs -> Tokens]
    PROVE  SessionInv'
<1>1. UNCHANGED <<useKey, open, known>> /\ UNCHANGED <<store, epoch, issued, session>>
    BY DEF coordination, memory
<1>2. CallsGuarded' /\ NoNewSignIn /\ \A p \in PATs : UsesApart(p)'
    BY <1>1, LeaveKeeps
<1>3. \A p \in PATs : InOrder(p)'
    BY <1>1, <1>2, OrderQuiet
<1>4. SessionTypeOK'
    BY <1>1 DEF SessionInv, SessionTypeOK, Leaves, UseKept, UseOnlyOf, Calls, Uses, store
<1> QED BY <1>2, <1>3, <1>4 DEF SessionInv

-----------------------------------------------------------------------------
(* A request enters the gate and settles the use of its PAT.                  *)

(* A request moves on in the gate, and the sessions and sign-ins stay.        *)
LEMMA CallIsSafe ==
    ASSUME SessionInv, NEW c \in Commands, NEW g \in Targets, NEW q \in PATs,
           OthersSame(c, g), gate[c] \in {Free, g}, gate'[c] = g, open[c], known'[c][g] = q,
           OnlyItsPAT(c, q), task'[c][g].at \in {"hold", "decide"},
           task'[c][g].at = "decide" => signing'[q] = c /\ Fits(c, g)',
           UsesApart(q)', UNCHANGED <<store, epoch, issued, session>>,
           SessionTypeOK'
    PROVE  SessionInv'
<1>1. SessionTypeOK /\ CallsGuarded
    BY DEF SessionInv
<1>2. NoPAT \notin PATs
    OBVIOUS
<1>3. SignsIn(c, g)' => task'[c][g].at = "decide"
    BY DEF SignsIn
<1>4. CallsGuarded'
    BY <1>1, <1>2, <1>3, CallKeepsGuards
<1>5. NoNewSignIn
    BY DEF NoNewSignIn, OthersSame
<1>6. \A p \in PATs : InOrder(p)'
    BY <1>5, OrderQuiet
<1>7. ASSUME NEW p \in PATs
      PROVE  UsesApart(p)'
    <2>1. CASE p = q
        BY <2>1
    <2>2. CASE p # q
        <3>1. UsesApart(p) /\ useKey'[p] = useKey[p]
            BY <2>2 DEF SessionInv, OnlyItsPAT
        <3>2. \A d \in Commands : use'[d][p] = use[d][p]
            BY <2>2 DEF OnlyItsPAT, OthersSame
        <3> QED BY <3>1, <3>2, UsesFewer
    <2> QED BY <2>1, <2>2
<1> QED BY <1>4, <1>6, <1>7 DEF SessionInv

(* The use stays as it is.                                                    *)
LEMMA UsesSame ==
    ASSUME SessionInv, NEW p \in PATs, use' = use, useKey' = useKey
    PROVE  UsesApart(p)'
BY UsesFewer DEF SessionInv

LEMMA StartIsSafe ==
    ASSUME SessionInv, NEW c \in Commands, NEW g \in Targets, NEW mode \in Modes, Start(c, g, mode)
    PROVE  SessionInv'
<1>1. SessionTypeOK
    BY DEF SessionInv
<1>2. PICK p \in PATs : SetKnown(c, g, p)
    BY DEF Start, SetKnown
<1> DEFINE t == [at |-> "hold", mode |-> mode, rejected |-> 0]
<1>3. t \in Calls /\ t.at = "hold"
    BY <1>1, SessionTypes DEF Calls, Tokens
<1>4. SetCall(c, g, t)
    BY DEF Start, SetCall
<1> HIDE DEF t
<1>5. /\ task' \in [Commands -> [Targets -> Calls]] /\ task'[c][g] = t
      /\ \A d \in Commands, h \in Targets : d # c \/ h # g => task'[d][h] = task[d][h]
    BY <1>1, <1>3, <1>4, TaskIs
<1>6. /\ known' \in [Commands -> [Targets -> PATs \cup {NoPAT}]] /\ known'[c][g] = p
      /\ \A d \in Commands, h \in Targets : d # c \/ h # g => known'[d][h] = known[d][h]
    BY <1>1, <1>2, KnownIs
<1>7. /\ gate[c] = Free /\ open[c] /\ gate' = [gate EXCEPT ![c] = g]
      /\ UNCHANGED <<store, coordination, signing, tableau, open, session, use>>
    BY DEF Start, EnterGate
<1>8. /\ gate' \in [Commands -> Targets \cup {Free}] /\ gate'[c] = g
      /\ \A d \in Commands : d # c => gate'[d] = gate[d]
    BY <1>1, <1>7 DEF SessionTypeOK
<1>9. OthersSame(c, g)
    BY <1>5, <1>6, <1>7, <1>8 DEF OthersSame
<1>10. OnlyItsPAT(c, p)
    BY <1>7 DEF OnlyItsPAT, coordination
<1>11. UsesApart(p)' /\ UNCHANGED <<store, epoch, issued, session>>
    BY <1>7, UsesSame DEF coordination, tableau
<1>12. SessionTypeOK'
    BY <1>1, <1>5, <1>6, <1>7, <1>8 DEF SessionTypeOK, store, coordination, tableau, Calls
<1> QED BY <1>3, <1>5, <1>6, <1>7, <1>8, <1>9, <1>10, <1>11, <1>12, CallIsSafe

(* The gate is entered by a request whose PAT is known.                       *)
LEMMA EnterIsSafe ==
    ASSUME SessionInv, NEW c \in Commands, NEW g \in Targets, NEW q \in PATs,
           open[c], gate[c] = Free, EnterGate(c, g), known[c][g] = q, task' \in [Commands -> [Targets -> Calls]],
           task'[c][g].at = "hold",
           \A d \in Commands, h \in Targets : d # c \/ h # g => task'[d][h] = task[d][h],
           UNCHANGED <<store, coordination, signing, tableau, memory, use>>
    PROVE  SessionInv'
<1>1. SessionTypeOK
    BY DEF SessionInv
<1>2. gate' = [gate EXCEPT ![c] = g] /\ known'[c][g] = q
      /\ UNCHANGED <<known, useKey, open, use, signing>> /\ UNCHANGED <<store, epoch, issued, session>>
    BY DEF EnterGate, coordination, tableau, memory
<1>3. /\ gate' \in [Commands -> Targets \cup {Free}] /\ gate'[c] = g
      /\ \A d \in Commands : d # c => gate'[d] = gate[d]
    BY <1>1, <1>2 DEF SessionTypeOK
<1>4. OthersSame(c, g) /\ OnlyItsPAT(c, q)
    BY <1>2, <1>3 DEF OthersSame, OnlyItsPAT
<1>5. UsesApart(q)'
    BY <1>2, UsesSame
<1>6. SessionTypeOK'
    BY <1>1, <1>2, <1>3 DEF SessionTypeOK, store, coordination, tableau, Calls
<1> QED BY <1>2, <1>3, <1>4, <1>5, <1>6, CallIsSafe

LEMMA RejectedIsSafe ==
    ASSUME SessionInv, NEW c \in Commands, NEW g \in Targets, Rejected(c, g)
    PROVE  SessionInv'
<1>1. SessionTypeOK
    BY DEF SessionInv
<1>2. known[c][g] \in PATs
    BY <1>1, SessionTypes DEF Rejected, Pat
<1> DEFINE t == [at |-> "hold", mode |-> "renew", rejected |-> Mine(c, g).token]
<1>3. Mine(c, g).token \in Tokens
    BY <1>1, <1>2, SessionTypes DEF Mine, Pat, SessionTypeOK
<1>4. t \in Calls /\ t.at = "hold"
    BY <1>3 DEF Calls
<1>5. SetCall(c, g, t)
    BY DEF Rejected, SetCall
<1> HIDE DEF t
<1>6. /\ task' \in [Commands -> [Targets -> Calls]] /\ task'[c][g] = t
      /\ \A d \in Commands, h \in Targets : d # c \/ h # g => task'[d][h] = task[d][h]
    BY <1>1, <1>4, <1>5, TaskIs
<1>7. /\ open[c] /\ gate[c] = Free /\ EnterGate(c, g)
      /\ UNCHANGED <<store, coordination, signing, tableau, memory, use>>
    BY DEF Rejected
<1> QED BY <1>2, <1>4, <1>6, <1>7, EnterIsSafe

LEMMA TryAgainIsSafe ==
    ASSUME SessionInv, NEW c \in Commands, NEW g \in Targets, TryAgain(c, g)
    PROVE  SessionInv'
<1>1. SessionTypeOK /\ CallsGuarded
    BY DEF SessionInv
<1>2. /\ task[c][g].at = "waiting" /\ open[c] /\ gate[c] = Free /\ EnterGate(c, g)
      /\ SetTask(c, g, "hold") /\ UNCHANGED <<store, coordination, signing, tableau, memory, use>>
    BY DEF TryAgain
<1>3. known[c][g] \in PATs
    BY <1>1, <1>2, SessionTypes DEF CallsGuarded, Pat
<1>4. /\ task' \in [Commands -> [Targets -> Calls]] /\ task'[c][g].at = "hold"
      /\ \A d \in Commands, h \in Targets : d # c \/ h # g => task'[d][h] = task[d][h]
    BY <1>1, <1>2, TaskAt
<1> QED BY <1>2, <1>3, <1>4, EnterIsSafe

(* TakeUse: what the command then holds fits the request, and no sole user of *)
(* the PAT is joined.                                                         *)
LEMMA TakeUseFits ==
    ASSUME SessionTypeOK, NEW c \in Commands, NEW g \in Targets, NEW p \in PATs, p = Pat(c, g),
           UsesApart(p), TakeUse(c, g)
    PROVE  /\ UseOnlyOf(c, p) /\ Holds(c, p)'
           /\ \/ use'[c][p].key = NoKey
              \/ use'[c][p].key = Key(g) /\ useKey'[p] = Key(g)
           /\ useKey' \in [PATs -> Keys]
           /\ \A q \in PATs : q # p => useKey'[q] = useKey[q]
           /\ UsesApart(p)'
<1> DEFINE k == Key(g)
<1>1. k \in Keys /\ p \in PATs /\ useKey \in [PATs -> Keys] /\ use \in [Commands -> [PATs -> Uses]]
    BY SessionTypes DEF SessionTypeOK, Uses
<1>2. k # NoKey => k \in Keys
    BY <1>1
<1>3. CASE Fits(c, g) /\ UNCHANGED <<use, useKey>>
    <2>1. Holds(c, p)' /\ (use'[c][p].key = NoKey \/ (use'[c][p].key = k /\ useKey'[p] = k))
        BY <1>3 DEF Fits, Holds
    <2>2. UseOnlyOf(c, p)
        BY <1>1, <1>3 DEF UseOnlyOf
    <2>3. UsesApart(p)'
        BY <1>1, <1>3, UsesFewer
    <2> QED BY <1>1, <1>3, <2>1, <2>2, <2>3
<1>4. CASE /\ k # NoKey /\ CanShare(c, p) /\ useKey[p] = k
           /\ use' = [use EXCEPT ![c][p] = [handle |-> "shared", key |-> k]] /\ UNCHANGED useKey
    <2> DEFINE u == [handle |-> "shared", key |-> k]
    <2>1. u \in Uses /\ u.handle = "shared" /\ u.key = k
        BY <1>1 DEF Uses
    <2>2. SetUse(c, p, u)
        BY <1>4 DEF SetUse
    <2> HIDE DEF u
    <2>3. /\ use' \in [Commands -> [PATs -> Uses]] /\ use'[c][p] = u
          /\ \A d \in Commands, q \in PATs : d # c \/ q # p => use'[d][q] = use[d][q]
        BY <1>1, <2>1, <2>2, UseIs
    <2>4. UsesApart(p)'
        <3>1. \A d \in Commands : d # c => use'[d][p] = use[d][p] /\ use[d][p].handle # "exclusive"
            BY <1>1, <1>4, <2>3 DEF CanShare, Others
        <3>2. \A d \in Commands : d # c => ~Sole(d, p)
            BY <1>1, <1>4, <3>1, UseTypes DEF UsesApart, Sole, Holds
        <3>3. \A d \in Commands : ~Sole(d, p)' /\ use'[d][p].handle # "exclusive"
            BY <1>4, <2>1, <2>3, <3>1, <3>2 DEF Sole, Holds
        <3> QED BY <3>3 DEF UsesApart
    <2> QED BY <1>1, <1>4, <2>1, <2>3, <2>4 DEF UseOnlyOf, Holds
<1>5. CASE /\ k = NoKey /\ CanOwn(c, p) /\ UNCHANGED useKey
           /\ use' = [use EXCEPT ![c][p] = [handle |-> "exclusive", key |-> NoKey]]
    <2> DEFINE u == [handle |-> "exclusive", key |-> NoKey]
    <2>1. u \in Uses /\ u.handle = "exclusive" /\ u.key = NoKey
        BY <1>1, <1>5 DEF Uses
    <2>2. SetUse(c, p, u)
        BY <1>5 DEF SetUse
    <2> HIDE DEF u
    <2>3. /\ use' \in [Commands -> [PATs -> Uses]] /\ use'[c][p] = u
          /\ \A d \in Commands, q \in PATs : d # c \/ q # p => use'[d][q] = use[d][q]
        BY <1>1, <2>1, <2>2, UseIs
    <2>4. UsesApart(p)'
        <3>1. \A d \in Commands : d # c => use'[d][p] = use[d][p] /\ ~Holds(d, p)
            BY <1>1, <1>5, <2>3 DEF CanOwn, Others
        <3>2. \A d \in Commands : d # c => ~Holds(d, p)'
            BY <3>1 DEF Holds
        <3>3. use'[c][p].key = NoKey /\ use'[c][p].handle = "exclusive"
            BY <2>1, <2>3
        <3> QED BY <3>2, <3>3 DEF UsesApart, Sole, Holds
    <2> QED BY <1>1, <1>5, <2>1, <2>3, <2>4 DEF UseOnlyOf, Holds
<1>6. CASE /\ k # NoKey /\ CanOwn(c, p) /\ useKey' = [useKey EXCEPT ![p] = k]
           /\ use' = [use EXCEPT ![c][p] = [handle |-> "shared", key |-> k]]
    <2> DEFINE u == [handle |-> "shared", key |-> k]
    <2>1. u \in Uses /\ u.handle = "shared" /\ u.key = k
        BY <1>1 DEF Uses
    <2>2. SetUse(c, p, u)
        BY <1>6 DEF SetUse
    <2> HIDE DEF u
    <2>3. /\ use' \in [Commands -> [PATs -> Uses]] /\ use'[c][p] = u
          /\ \A d \in Commands, q \in PATs : d # c \/ q # p => use'[d][q] = use[d][q]
        BY <1>1, <2>1, <2>2, UseIs
    <2>4. UsesApart(p)'
        <3>1. \A d \in Commands : d # c => use'[d][p] = use[d][p] /\ ~Holds(d, p)
            BY <1>1, <1>6, <2>3 DEF CanOwn, Others
        <3>2. \A d \in Commands : d # c => ~Holds(d, p)'
            BY <3>1 DEF Holds
        <3>3. use'[c][p].key # NoKey /\ use'[c][p].handle = "shared"
            BY <1>6, <2>1, <2>3
        <3> QED BY <3>2, <3>3 DEF UsesApart, Sole, Holds
    <2> QED BY <1>1, <1>6, <2>1, <2>3, <2>4 DEF UseOnlyOf, Holds
<1> QED BY <1>3, <1>4, <1>5, <1>6 DEF TakeUse

LEMMA TakeUseIsSafe ==
    ASSUME SessionInv, NEW c \in Commands, NEW g \in Targets, TakeUse(c, g)
    PROVE  SessionInv'
<1>1. SessionTypeOK /\ CallsGuarded
    BY DEF SessionInv
<1>2. /\ task[c][g].at = "hold" /\ signing[Pat(c, g)] = Free
      /\ signing' = [signing EXCEPT ![Pat(c, g)] = c] /\ SetTask(c, g, "decide")
      /\ UNCHANGED <<store, epoch, tableau, memory, gate>>
    BY DEF TakeUse
<1>3. Inside(c, g)
    BY <1>2 DEF Inside
<1>4. PICK q \in PATs : q = Pat(c, g) /\ gate[c] = g /\ open[c]
    BY <1>1, <1>3, InsideKnows
<1>5. UsesApart(q)
    BY <1>4 DEF SessionInv
<1>6. /\ UseOnlyOf(c, q) /\ Holds(c, q)'
      /\ \/ use'[c][q].key = NoKey
         \/ use'[c][q].key = Key(g) /\ useKey'[q] = Key(g)
      /\ useKey' \in [PATs -> Keys]
      /\ \A p \in PATs : p # q => useKey'[p] = useKey[p]
      /\ UsesApart(q)'
    BY <1>1, <1>4, <1>5, TakeUseFits
<1>7. /\ task' \in [Commands -> [Targets -> Calls]] /\ task'[c][g].at = "decide"
      /\ \A d \in Commands, h \in Targets : d # c \/ h # g => task'[d][h] = task[d][h]
    BY <1>1, <1>2, TaskAt
<1>8. known'[c][g] = q /\ UNCHANGED <<known, gate, open>> /\ UNCHANGED <<store, epoch, issued, session>>
    BY <1>2, <1>4 DEF Pat, memory, tableau
<1>9. /\ signing' \in [PATs -> Commands \cup {Free}] /\ signing'[q] = c
      /\ \A p \in PATs : p # q => signing'[p] = signing[p]
    BY <1>1, <1>2, <1>4 DEF SessionTypeOK
<1>10. OthersSame(c, g)
    BY <1>6, <1>7, <1>8 DEF OthersSame, UseOnlyOf
<1>11. OnlyItsPAT(c, q)
    BY <1>2, <1>6, <1>8, <1>9 DEF OnlyItsPAT, UseOnlyOf
<1>12. Fits(c, g)'
    BY <1>6, <1>8 DEF Fits, Holds, Pat
<1>13. SessionTypeOK'
    BY <1>1, <1>2, <1>6, <1>7, <1>8, <1>9 DEF SessionTypeOK, store, tableau, memory, Calls, Uses, UseOnlyOf
<1> QED BY <1>4, <1>6, <1>7, <1>8, <1>9, <1>10, <1>11, <1>12, <1>13, CallIsSafe

-----------------------------------------------------------------------------
(* A request waits for the use of its PAT, or returns without it.             *)

LEMMA SignInLockedIsSafe ==
    ASSUME SessionInv, NEW c \in Commands, NEW g \in Targets, SignInLocked(c, g)
    PROVE  SessionInv'
<1>1. SessionTypeOK
    BY DEF SessionInv
<1>2. /\ Inside(c, g) /\ SetTask(c, g, "waiting") /\ LeaveGate(c) /\ UNCHANGED signing
      /\ use' = use /\ UNCHANGED <<store, coordination, tableau, memory>>
    BY DEF SignInLocked, WaitOrFail, Inside
<1>3. Leaves(c, g) /\ UseKept(c, Pat(c, g))
    BY <1>1, <1>2, WaitLeaves, UseStays
<1>4. UNCHANGED issued /\ live' \in [PATs -> Tokens]
    BY <1>1, <1>2 DEF SessionTypeOK, tableau
<1> QED BY <1>2, <1>3, <1>4, LeaveIsSafe

LEMMA UseTakenIsSafe ==
    ASSUME SessionInv, NEW c \in Commands, NEW g \in Targets, UseTaken(c, g) \/ UseFails(c, g)
    PROVE  SessionInv'
<1>1. SessionTypeOK /\ CallsGuarded
    BY DEF SessionInv
<1>2. /\ Inside(c, g) /\ SetUse(c, Pat(c, g), NotUsed)
      /\ UNCHANGED <<store, coordination, tableau, memory>>
    BY DEF UseTaken, UseFails, Inside, SetUse
<1>3. Leaves(c, g)
    <2>1. CASE Return(c, g)
        BY <1>1, <2>1, ReturnLeaves
    <2>2. CASE SetTask(c, g, "waiting") /\ LeaveGate(c) /\ UNCHANGED signing
        BY <1>1, <2>2, WaitLeaves
    <2> QED BY <2>1, <2>2 DEF UseTaken, UseFails, WaitOrFail
<1>4. Pat(c, g) \in PATs
    BY <1>1, <1>2, InsideKnows
<1>5. UseKept(c, Pat(c, g))
    BY <1>1, <1>2, <1>4, UseGoes
<1>6. UNCHANGED issued /\ live' \in [PATs -> Tokens]
    BY <1>1, <1>2 DEF SessionTypeOK, tableau
<1> QED BY <1>2, <1>3, <1>5, <1>6, LeaveIsSafe

(* The sign-in is not needed, refused, or its answer is lost.                 *)
LEMMA DecidedIsSafe ==
    ASSUME SessionInv, NEW c \in Commands, NEW g \in Targets, Reuse(c, g) \/ SignInRefused(c, g)
    PROVE  SessionInv'
<1>1. SessionTypeOK /\ CallsGuarded
    BY DEF SessionInv
<1>2. /\ Inside(c, g) /\ Return(c, g) /\ KeepUse(c, g)
      /\ UNCHANGED <<store, coordination, tableau, memory>>
    BY DEF Reuse, SignInRefused, Inside
<1>3. Pat(c, g) \in PATs
    BY <1>1, <1>2, InsideKnows
<1>4. Leaves(c, g) /\ UseKept(c, Pat(c, g))
    BY <1>1, <1>2, <1>3, ReturnLeaves, UseKeptIs
<1>5. UNCHANGED issued /\ live' \in [PATs -> Tokens]
    BY <1>1, <1>2 DEF SessionTypeOK, tableau
<1> QED BY <1>2, <1>4, <1>5, LeaveIsSafe

LEMMA WaitOfClosedIsSafe ==
    ASSUME SessionInv, NEW c \in Commands, NEW g \in Targets, WaitOfClosed(c, g)
    PROVE  SessionInv'
<1>1. SessionTypeOK /\ CallsGuarded
    BY DEF SessionInv
<1>2. /\ ~open[c] /\ gate[c] = Free
      /\ UNCHANGED <<store, coordination, signing, tableau, memory, gate, use>>
    BY DEF WaitOfClosed
<1>3. Idle \in Calls /\ Idle.at = "idle" /\ SetCall(c, g, Idle)
    BY <1>1, SessionTypes DEF Idle, Calls, Tokens, WaitOfClosed, SetCall
<1>4. /\ task' \in [Commands -> [Targets -> Calls]] /\ task'[c][g].at = "idle"
      /\ \A d \in Commands, h \in Targets : d # c \/ h # g => task'[d][h] = task[d][h]
    BY <1>1, <1>3, TaskIs
<1>5. UNCHANGED <<known, open, gate, use, signing, useKey>> /\ UNCHANGED <<store, epoch, issued, session>>
    BY <1>2 DEF coordination, tableau, memory
<1>6. OthersSame(c, g) /\ OnlyItsPAT(c, known'[c][g]) /\ ~Inside(c, g)' /\ ~SignsIn(c, g)'
    BY <1>4, <1>5 DEF OthersSame, OnlyItsPAT, Inside, SignsIn
<1>7. CallsGuarded'
    BY <1>1, <1>2, <1>4, <1>6, CallKeepsGuards
<1>8. NoNewSignIn
    BY <1>4, <1>5 DEF NoNewSignIn
<1>9. \A p \in PATs : InOrder(p)' /\ UsesApart(p)'
    BY <1>5, <1>8, OrderQuiet, UsesSame
<1>10. SessionTypeOK'
    BY <1>1, <1>4, <1>5, <1>2 DEF SessionTypeOK, store, tableau, Calls
<1> QED BY <1>7, <1>9, <1>10 DEF SessionInv

-----------------------------------------------------------------------------
(* The sign-in.                                                               *)

(* A request that signs in leaves, with other sessions than before.           *)
LEMMA SignInLeaves ==
    ASSUME SessionInv, NEW c \in Commands, NEW g \in Targets, Inside(c, g), Return(c, g),
           UseKept(c, Pat(c, g)), UNCHANGED <<bound, useKey, open, known>>,
           saved' \in [References -> [pat : PATs \cup {NoPAT}, token : Tokens, epoch : Tokens]],
           epoch' \in [PATs -> Tokens], issued' \in [PATs -> Tokens], live' \in [PATs -> Tokens],
           session' \in [Commands -> [PATs -> [Sites -> Session]]],
           NoNewSignIn => \A p \in PATs : InOrder(p)'
    PROVE  SessionInv'
<1>1. SessionTypeOK
    BY DEF SessionInv
<1>2. Leaves(c, g)
    BY <1>1, ReturnLeaves
<1>3. CallsGuarded' /\ NoNewSignIn /\ \A p \in PATs : UsesApart(p)'
    BY <1>2, LeaveKeeps
<1>4. SessionTypeOK'
    BY <1>1, <1>2 DEF SessionTypeOK, Leaves, UseKept, UseOnlyOf, Calls, Uses, Session
<1> QED BY <1>3, <1>4 DEF SessionInv

(* The session that a command adopts is one there is.                         *)
LEMMA AdoptIsSafe ==
    ASSUME SessionInv, NEW c \in Commands, NEW g \in Targets, Adopt(c, g)
    PROVE  SessionInv'
<1>1. SessionTypeOK /\ CallsGuarded
    BY DEF SessionInv
<1>2. /\ Inside(c, g) /\ Return(c, g) /\ KeepUse(c, g) /\ Adoptable(c, g)
      /\ Install(c, g, saved[g.source].token, epoch[Pat(c, g)])
      /\ UNCHANGED <<store, coordination, tableau, open, known>>
    BY DEF Adopt, Inside
<1>3. PICK p \in PATs : p = Pat(c, g)
    BY <1>1, <1>2, InsideKnows
<1>4. UseKept(c, Pat(c, g))
    BY <1>1, <1>2, <1>3, UseKeptIs
<1> DEFINE a == [token |-> saved[g.source].token, epoch |-> epoch[p]]
<1>5. g.source \in References /\ saved[g.source].pat = p /\ saved[g.source].epoch = epoch[p]
    BY <1>2, <1>3 DEF Adoptable
<1>6. a \in SessionsOf(p)
    BY <1>5 DEF SessionsOf
<1>7. a \in Session
    BY <1>1, <1>6, SessionsTyped
<1>8. SetSession(c, p, g.site, a)
    BY <1>2, <1>3 DEF Install, SetSession
<1> HIDE DEF a
<1>9. /\ session' \in [Commands -> [PATs -> [Sites -> Session]]]
      /\ session'[c][p][g.site] = a
      /\ \A d \in Commands, q \in PATs, x \in Sites :
            d # c \/ q # p \/ x # g.site => session'[d][q][x] = session[d][q][x]
    BY <1>1, <1>7, <1>8, SessionTypes, SessionIs
<1>10. UNCHANGED <<bound, useKey, open, known, saved, epoch, issued, live>>
    BY <1>2 DEF store, coordination, tableau
<1>11. ASSUME NEW q \in PATs, NoNewSignIn
       PROVE  InOrder(q)'
    <2> DEFINE b == IF q = p THEN a ELSE NoSession
    <2>1. \A d \in Commands, x \in Sites : session'[d][q][x] \in {session[d][q][x], NoSession, b}
        BY <1>9
    <2>2. b \in SessionsOf(q) \/ b = NoSession
        BY <1>6
    <2> HIDE DEF b
    <2>3. SessionsOf(q)' \subseteq SessionsOf(q) \cup {b}
        BY <1>10, <2>1, SessionsAfter
    <2>5. SessionsOf(q)' \subseteq SessionsOf(q)
        <3>1. CASE b \in SessionsOf(q)
            BY <2>3, <3>1
        <3>2. CASE q # p
            <4>1. \A d \in Commands, x \in Sites : session'[d][q][x] = session[d][q][x]
                BY <1>9, <3>2
            <4>2. saved' = saved
                BY <1>10
            <4> QED BY <4>1, <4>2 DEF SessionsOf
        <3>3. q = p => b \in SessionsOf(q)
            BY <1>6 DEF b
        <3> QED BY <3>1, <3>2, <3>3
    <2>6. InOrder(q)
        BY DEF SessionInv
    <2> QED BY <1>10, <1>11, <2>5, <2>6, OrderKept DEF NoNewSignIn
<1>12. /\ saved' \in [References -> [pat : PATs \cup {NoPAT}, token : Tokens, epoch : Tokens]]
       /\ epoch' \in [PATs -> Tokens] /\ issued' \in [PATs -> Tokens] /\ live' \in [PATs -> Tokens]
    BY <1>1, <1>10 DEF SessionTypeOK
<1> QED BY <1>2, <1>4, <1>9, <1>10, <1>11, <1>12, SignInLeaves

(* While a sign-in is recorded, its session is newer than all of its PAT: it  *)
(* may be added.                                                              *)
LEMMA NewestAdded ==
    ASSUME SessionInv, NEW c \in Commands, NEW g \in Targets, task[c][g].at = "recorded",
           NEW p \in PATs, p = Pat(c, g), epoch'[p] = epoch[p], issued'[p] = issued[p],
           SessionsOf(p)' \subseteq SessionsOf(p) \cup {[token |-> issued[p], epoch |-> epoch[p]]},
           NoNewSignIn, task'[c][g].at = "idle"
    PROVE  InOrder(p)'
<1> DEFINE new == [token |-> issued[p], epoch |-> epoch[p]]
<1>1. SessionTypeOK /\ CallsGuarded /\ InOrder(p)
    BY DEF SessionInv
<1>2. epoch[p] \in Nat /\ issued[p] \in Nat
    BY <1>1, CountsTyped
<1>3. new.token = issued[p] /\ new.epoch = epoch[p]
    OBVIOUS
<1>4. \A a \in SessionsOf(p) :
        a.token < new.token /\ a.epoch < new.epoch /\ a.token \in Nat /\ a.epoch \in Nat
    BY <1>1, SessionsTyped DEF InOrder
<1>5. \A d \in Commands, h \in Targets : known'[d][h] = p => task'[d][h].at \notin {"signed", "recorded"}
    <2> SUFFICES ASSUME NEW d \in Commands, NEW h \in Targets, known'[d][h] = p,
                        task'[d][h].at \in {"signed", "recorded"}
                 PROVE  FALSE
        OBVIOUS
    <2>1. SignsIn(d, h) /\ SignsIn(c, g) /\ Pat(d, h) = Pat(c, g)
        BY DEF NoNewSignIn, SignsIn, Pat
    <2>2. d = c /\ h = g
        BY <1>1, <2>1, OneSignsIn
    <2> QED BY <2>2
<1> HIDE DEF new
<1>6. SessionsOf(p)' \subseteq SessionsOf(p) \cup {new}
    BY DEF new
<1>7. \A a \in SessionsOf(p)' : a.epoch <= epoch[p] /\ a.token <= issued[p]
    BY <1>2, <1>3, <1>4, <1>6
<1>8. \A a, b \in SessionsOf(p) : a.epoch <= b.epoch <=> a.token <= b.token
    BY <1>1 DEF InOrder
<1>9. \A a, b \in SessionsOf(p)' : a.epoch <= b.epoch <=> a.token <= b.token
    <2> SUFFICES ASSUME NEW a \in SessionsOf(p)', NEW b \in SessionsOf(p)'
                 PROVE  a.epoch <= b.epoch <=> a.token <= b.token
        OBVIOUS
    <2>1. CASE a = new /\ b = new
        BY <1>2, <1>3, <2>1
    <2>2. CASE a # new /\ b = new
        BY <1>2, <1>3, <1>4, <1>6, <2>2
    <2>3. CASE a = new /\ b # new
        BY <1>2, <1>3, <1>4, <1>6, <2>3
    <2>4. CASE a # new /\ b # new
        BY <1>6, <1>8, <2>4
    <2> QED BY <2>1, <2>2, <2>3, <2>4
<1>10. epoch'[p] <= issued'[p]
    BY <1>1 DEF InOrder
<1> QED BY <1>5, <1>7, <1>9, <1>10 DEF InOrder, Pat

LEMMA SaveSessionIsSafe ==
    ASSUME SessionInv, NEW c \in Commands, NEW g \in Targets, SaveSession(c, g)
    PROVE  SessionInv'
<1>1. SessionTypeOK /\ CallsGuarded
    BY DEF SessionInv
<1>2. /\ Inside(c, g) /\ Return(c, g) /\ KeepUse(c, g) /\ task[c][g].at = "recorded"
      /\ g.source \in References /\ Install(c, g, issued[Pat(c, g)], epoch[Pat(c, g)])
      /\ UNCHANGED <<bound, coordination, tableau, open, known>>
    BY DEF SaveSession, Inside
<1>3. PICK p \in PATs : p = Pat(c, g)
    BY <1>1, <1>2, InsideKnows
<1>4. UseKept(c, Pat(c, g))
    BY <1>1, <1>2, <1>3, UseKeptIs
<1> DEFINE a == [token |-> issued[p], epoch |-> epoch[p]]
           e == [pat |-> p, token |-> issued[p], epoch |-> epoch[p]]
<1>5. a \in Session /\ e \in [pat : PATs \cup {NoPAT}, token : Tokens, epoch : Tokens]
      /\ e.pat = p /\ [token |-> e.token, epoch |-> e.epoch] = a
    BY <1>1, CountsTyped DEF Session
<1>6. SetSession(c, p, g.site, a) /\ saved' = [saved EXCEPT ![g.source] = e]
    BY <1>2, <1>3 DEF Install, SetSession, SaveSession
<1> HIDE DEF a, e
<1>7. /\ session' \in [Commands -> [PATs -> [Sites -> Session]]]
      /\ session'[c][p][g.site] = a
      /\ \A d \in Commands, q \in PATs, x \in Sites :
            d # c \/ q # p \/ x # g.site => session'[d][q][x] = session[d][q][x]
    BY <1>1, <1>5, <1>6, SessionTypes, SessionIs
<1>8. /\ saved' \in [References -> [pat : PATs \cup {NoPAT}, token : Tokens, epoch : Tokens]]
      /\ \A r \in References : saved'[r] = saved[r] \/ saved'[r] = e
    BY <1>1, <1>5, <1>6 DEF SessionTypeOK
<1>9. UNCHANGED <<bound, useKey, open, known, epoch, issued, live>>
    BY <1>2 DEF coordination, tableau
<1>10. task'[c][g].at = "idle"
    BY <1>1, <1>2, ReturnIs DEF Idle
<1>11. ASSUME NEW q \in PATs, NoNewSignIn
       PROVE  InOrder(q)'
    <2>1. CASE q = p
        <3>1. \A d \in Commands, x \in Sites : session'[d][q][x] \in {session[d][q][x], NoSession, a}
            BY <1>7
        <3>2. SessionsOf(p)' \subseteq SessionsOf(p) \cup {a}
            BY <1>5, <1>8, <2>1, <3>1, SessionsAfter
        <3> QED BY <1>2, <1>3, <1>9, <1>10, <1>11, <2>1, <3>2, NewestAdded DEF a
    <2>2. CASE q # p
        <3>1. \A d \in Commands, x \in Sites : session'[d][q][x] = session[d][q][x]
            BY <1>7, <2>2
        <3>2. \A r \in References : saved'[r] = saved[r] \/ saved'[r].pat # q
            BY <1>5, <1>8, <2>2
        <3>3. SessionsOf(q)' \subseteq SessionsOf(q)
            BY <3>1, <3>2 DEF SessionsOf
        <3>4. InOrder(q)
            BY DEF SessionInv
        <3> QED BY <1>9, <1>11, <3>3, <3>4, OrderKept DEF NoNewSignIn
    <2> QED BY <2>1, <2>2
<1>12. epoch' \in [PATs -> Tokens] /\ issued' \in [PATs -> Tokens] /\ live' \in [PATs -> Tokens]
    BY <1>1, <1>9 DEF SessionTypeOK
<1> QED BY <1>2, <1>4, <1>7, <1>8, <1>9, <1>11, <1>12, SignInLeaves

LEMMA SignInIsSafe ==
    ASSUME SessionInv, NEW c \in Commands, NEW g \in Targets, SignIn(c, g)
    PROVE  SessionInv'
<1>1. SessionTypeOK /\ CallsGuarded
    BY DEF SessionInv
<1>2. /\ Inside(c, g) /\ SignsIn(c, g) /\ task[c][g].at = "decide"
      /\ UNCHANGED <<store, coordination, memory>>
    BY DEF SignIn, Inside, SignsIn
<1>3. PICK p \in PATs : p = Pat(c, g) /\ gate[c] = g /\ open[c]
    BY <1>1, <1>2, InsideKnows
<1>4. /\ issued[p] < MaxSignIns /\ issued' = [issued EXCEPT ![p] = @ + 1]
      /\ live' = [live EXCEPT ![p] = issued[p] + 1]
    BY <1>3 DEF SignIn
<1>5. issued[p] + 1 \in Tokens
    BY <1>1, <1>4, CountsTyped DEF Tokens
<1>6. /\ issued' \in [PATs -> Tokens] /\ live' \in [PATs -> Tokens]
      /\ issued'[p] = issued[p] + 1 /\ \A q \in PATs : q # p => issued'[q] = issued[q]
    BY <1>1, <1>4, <1>5 DEF SessionTypeOK
<1>7. UNCHANGED <<bound, saved, epoch, useKey, open, known, session>>
    BY <1>2 DEF store, coordination, memory
<1>8. \A q \in PATs : SessionsOf(q)' = SessionsOf(q) /\ InOrder(q) /\ UsesApart(q)
    BY <1>7, SessionsSame DEF SessionInv
<1>9. /\ \A a \in SessionsOf(p) : a.epoch <= epoch[p] /\ a.token < issued'[p] /\ a.token <= issued'[p]
      /\ epoch'[p] < issued'[p] /\ epoch'[p] <= issued'[p]
    <2>1. epoch[p] \in Nat /\ issued[p] \in Nat /\ epoch[p] <= issued[p]
        BY <1>1, <1>8, CountsTyped DEF InOrder
    <2>2. \A a \in SessionsOf(p) : a.epoch <= epoch[p] /\ a.token <= issued[p] /\ a.token \in Nat
        BY <1>1, <1>8, SessionsTyped DEF InOrder
    <2> QED BY <1>6, <1>7, <2>1, <2>2
<1>10. ASSUME /\ \A d \in Commands, h \in Targets : d # c \/ h # g => task'[d][h] = task[d][h]
              /\ task'[c][g].at \in {"idle", "signed"}
       PROVE  \A q \in PATs : InOrder(q)'
    <2> SUFFICES ASSUME NEW q \in PATs
                 PROVE  InOrder(q)'
        OBVIOUS
    <2>1. CASE q # p
        <3>1. \A d \in Commands, h \in Targets :
                task'[d][h].at \in {"signed", "recorded"} /\ known'[d][h] = q =>
                    task[d][h].at = task'[d][h].at /\ known[d][h] = known'[d][h]
            BY <1>3, <1>7, <1>10, <2>1 DEF Pat
        <3>2. epoch'[q] = epoch[q] /\ issued'[q] = issued[q]
            BY <1>6, <1>7, <2>1
        <3> QED BY <1>8, <3>1, <3>2, OrderKept
    <2>2. CASE q = p
        <3>1. \A d \in Commands, h \in Targets :
                task'[d][h].at \in {"signed", "recorded"} /\ known'[d][h] = p => d = c /\ h = g
            <4> SUFFICES ASSUME NEW d \in Commands, NEW h \in Targets, d # c \/ h # g,
                                task'[d][h].at \in {"signed", "recorded"}, known'[d][h] = p
                         PROVE  FALSE
                OBVIOUS
            <4>1. SignsIn(d, h) /\ Pat(d, h) = Pat(c, g)
                BY <1>3, <1>7, <1>10 DEF SignsIn, Pat
            <4> QED BY <1>1, <1>2, <4>1, OneSignsIn
        <3>2. \A d \in Commands, h \in Targets : known'[d][h] = p => task'[d][h].at # "recorded"
            BY <1>10, <3>1
        <3>3. \A a, b \in SessionsOf(p) : a.epoch <= b.epoch <=> a.token <= b.token
            BY <1>8 DEF InOrder
        <3>4. SessionsOf(p)' = SessionsOf(p) /\ epoch' = epoch
            BY <1>7, <1>8
        <3> QED BY <1>9, <2>2, <3>2, <3>3, <3>4 DEF InOrder, Pat
    <2> QED BY <2>1, <2>2
<1>11. CASE Return(c, g) /\ KeepUse(c, g)
    <2>1. UseKept(c, Pat(c, g))
        BY <1>1, <1>3, <1>11, UseKeptIs
    <2>2. /\ \A d \in Commands, h \in Targets : d # c \/ h # g => task'[d][h] = task[d][h]
          /\ task'[c][g].at = "idle"
        BY <1>1, <1>11, ReturnIs DEF Idle
    <2>3. \A q \in PATs : InOrder(q)'
        BY <1>10, <2>2
    <2>4. /\ saved' \in [References -> [pat : PATs \cup {NoPAT}, token : Tokens, epoch : Tokens]]
          /\ epoch' \in [PATs -> Tokens] /\ session' \in [Commands -> [PATs -> [Sites -> Session]]]
        BY <1>1, <1>7 DEF SessionTypeOK, Session
    <2> QED BY <1>2, <1>6, <1>7, <1>11, <2>1, <2>3, <2>4, SignInLeaves
<1>12. CASE SetTask(c, g, "signed") /\ UNCHANGED <<gate, signing, use>>
    <2>1. /\ task' \in [Commands -> [Targets -> Calls]] /\ task'[c][g].at = "signed"
          /\ \A d \in Commands, h \in Targets : d # c \/ h # g => task'[d][h] = task[d][h]
        BY <1>1, <1>12, TaskAt
    <2>2. \A q \in PATs : InOrder(q)'
        BY <1>10, <2>1
    <2>3. CallsGuarded'
        <3>1. OthersSame(c, g) /\ OnlyItsPAT(c, known'[c][g])
            BY <1>7, <1>12, <2>1 DEF OthersSame, OnlyItsPAT
        <3>2. signing[p] = c /\ Fits(c, g) /\ p # NoPAT
            BY <1>1, <1>2, <1>3 DEF CallsGuarded
        <3>3. Fits(c, g)' /\ signing'[known'[c][g]] = c /\ known'[c][g] # NoPAT
            BY <1>3, <1>7, <1>12, <3>2 DEF Fits, Holds, Pat
        <3>4. gate'[c] = g
            BY <1>3, <1>12
        <3> QED BY <1>1, <1>3, <3>1, <3>3, <3>4, CallKeepsGuards
    <2>4. \A q \in PATs : UsesApart(q)'
        BY <1>7, <1>12, UsesSame
    <2>5. SessionTypeOK'
        BY <1>1, <1>6, <1>7, <1>12, <2>1 DEF SessionTypeOK, Calls
    <2> QED BY <2>2, <2>3, <2>4, <2>5 DEF SessionInv
<1> QED BY <1>11, <1>12 DEF SignIn

LEMMA RecordEpochIsSafe ==
    ASSUME SessionInv, NEW c \in Commands, NEW g \in Targets, RecordEpoch(c, g)
    PROVE  SessionInv'
<1>1. SessionTypeOK /\ CallsGuarded
    BY DEF SessionInv
<1>2. /\ Inside(c, g) /\ SignsIn(c, g) /\ task[c][g].at = "signed"
      /\ UNCHANGED <<store, useKey, tableau, memory>>
    BY DEF RecordEpoch, Inside, SignsIn
<1>3. PICK p \in PATs : p = Pat(c, g) /\ gate[c] = g /\ open[c]
    BY <1>1, <1>2, InsideKnows
<1>4. UNCHANGED <<bound, saved, useKey, open, known, session, issued, live>>
    BY <1>2 DEF store, tableau, memory
<1>5. \A q \in PATs : SessionsOf(q)' = SessionsOf(q) /\ InOrder(q) /\ UsesApart(q)
    BY <1>4, SessionsSame DEF SessionInv
<1>6. CASE UNCHANGED epoch /\ Return(c, g) /\ KeepUse(c, g)
    <2>1. Leaves(c, g) /\ UseKept(c, Pat(c, g))
        BY <1>1, <1>3, <1>6, ReturnLeaves, UseKeptIs
    <2>2. UNCHANGED coordination /\ UNCHANGED issued /\ live' \in [PATs -> Tokens]
        BY <1>1, <1>4, <1>6 DEF coordination, SessionTypeOK
    <2> QED BY <1>2, <2>1, <2>2, LeaveIsSafe
<1>7. CASE /\ epoch' = [epoch EXCEPT ![Pat(c, g)] = @ + 1] /\ SetTask(c, g, "recorded")
           /\ UNCHANGED <<gate, signing, use>>
    <2>1. /\ task' \in [Commands -> [Targets -> Calls]] /\ task'[c][g].at = "recorded"
          /\ \A d \in Commands, h \in Targets : d # c \/ h # g => task'[d][h] = task[d][h]
        BY <1>1, <1>7, TaskAt
    <2>2. /\ epoch[p] \in Nat /\ issued[p] \in Nat /\ epoch[p] < issued[p] /\ epoch[p] \in Tokens
          /\ \A a \in SessionsOf(p) : a.token < issued[p] /\ a.epoch <= epoch[p] /\ a.epoch \in Nat
          /\ \A a \in SessionsOf(p) : a.token <= issued[p]
        BY <1>1, <1>2, <1>3, <1>5, CountsTyped, SessionsTyped DEF InOrder
    <2>3. epoch[p] + 1 \in Tokens
        BY <1>1, <2>2, CountsTyped DEF Tokens
    <2>4. /\ epoch' \in [PATs -> Tokens] /\ epoch'[p] = epoch[p] + 1
          /\ \A q \in PATs : q # p => epoch'[q] = epoch[q]
        BY <1>1, <1>3, <1>7, <2>3 DEF SessionTypeOK
    <2>5. /\ epoch'[p] <= issued'[p]
          /\ \A a \in SessionsOf(p) : /\ a.epoch <= epoch'[p] /\ a.token <= issued'[p]
                                      /\ a.token < issued'[p] /\ a.epoch < epoch'[p]
        BY <1>4, <2>2, <2>4
    <2>6. InOrder(p)'
        <3>1. \A d \in Commands, h \in Targets :
                task'[d][h].at \in {"signed", "recorded"} /\ known'[d][h] = p => d = c /\ h = g
            <4> SUFFICES ASSUME NEW d \in Commands, NEW h \in Targets, d # c \/ h # g,
                                task'[d][h].at \in {"signed", "recorded"}, known'[d][h] = p
                         PROVE  FALSE
                OBVIOUS
            <4>1. SignsIn(d, h) /\ Pat(d, h) = Pat(c, g)
                BY <1>3, <1>4, <2>1 DEF SignsIn, Pat
            <4> QED BY <1>1, <1>2, <4>1, OneSignsIn
        <3>2. \A d \in Commands, h \in Targets : known'[d][h] = p => task'[d][h].at # "signed"
            BY <2>1, <3>1
        <3>3. \A a, b \in SessionsOf(p) : a.epoch <= b.epoch <=> a.token <= b.token
            BY <1>5 DEF InOrder
        <3>4. SessionsOf(p)' = SessionsOf(p)
            BY <1>5
        <3> QED BY <2>5, <3>2, <3>3, <3>4 DEF InOrder, Pat
    <2>7. ASSUME NEW q \in PATs, q # p
          PROVE  InOrder(q)'
        <3>1. \A d \in Commands, h \in Targets :
                task'[d][h].at \in {"signed", "recorded"} /\ known'[d][h] = q =>
                    task[d][h].at = task'[d][h].at /\ known[d][h] = known'[d][h]
            BY <1>3, <1>4, <2>1, <2>7 DEF Pat
        <3>2. epoch'[q] = epoch[q] /\ issued'[q] = issued[q]
            BY <1>4, <2>4, <2>7
        <3> QED BY <1>5, <3>1, <3>2, OrderKept
    <2>8. CallsGuarded'
        <3>1. OthersSame(c, g) /\ OnlyItsPAT(c, known'[c][g])
            BY <1>4, <1>7, <2>1 DEF OthersSame, OnlyItsPAT
        <3>2. signing[p] = c /\ Fits(c, g) /\ p # NoPAT
            BY <1>1, <1>2, <1>3 DEF CallsGuarded
        <3>3. Fits(c, g)' /\ signing'[known'[c][g]] = c /\ known'[c][g] # NoPAT
            BY <1>3, <1>4, <1>7, <3>2 DEF Fits, Holds, Pat
        <3>4. gate'[c] = g
            BY <1>3, <1>7
        <3> QED BY <1>1, <1>3, <3>1, <3>3, <3>4, CallKeepsGuards
    <2>9. \A q \in PATs : UsesApart(q)'
        BY <1>4, <1>7, UsesSame
    <2>10. SessionTypeOK'
        BY <1>1, <1>4, <1>7, <2>1, <2>4 DEF SessionTypeOK, Calls
    <2> QED BY <2>6, <2>7, <2>8, <2>9, <2>10 DEF SessionInv
<1> QED BY <1>6, <1>7 DEF RecordEpoch

(* The command that withholds its session becomes the sole user, beside       *)
(* others that cannot sign in any more.                                       *)
LEMMA WithholdApart ==
    ASSUME SessionTypeOK, NEW c \in Commands, NEW g \in Targets, NEW p \in PATs, p = Pat(c, g),
           UsesApart(p), Fits(c, g), NEW u \in Uses, UseOnlyOf(c, p), use'[c][p] = u,
           u = NotUsed \/ (u.handle = use[c][p].handle /\ u.key = NoKey),
           useKey'[p] = NoKey \/ (useKey'[p] = useKey[p] /\ use[c][p].key = NoKey)
    PROVE  UsesApart(p)'
<1> USE DEF Holds, Sole
<1>1. \A d \in Commands : d # c => use'[d][p] = use[d][p]
    BY DEF UseOnlyOf
<1>2. CASE u = NotUsed
    <2>1. u.handle = "none"
        BY <1>2 DEF NotUsed
    <2> QED BY <1>1, <2>1 DEF UsesApart
<1>3. CASE u.handle = use[c][p].handle /\ u.key = NoKey
    <2>1. Holds(c, p) /\ (use[c][p].key = NoKey \/ useKey[p] # NoKey)
        BY DEF Fits
    <2>2. \A d \in Commands : d # c => ~Sole(d, p)
        BY <2>1, UseTypes DEF UsesApart
    <2>3. \A d \in Commands : d # c => ~Sole(d, p)'
        BY <1>1, <2>2
    <2>4. \A d \in Commands : use[d][p].handle = "exclusive" =>
            use[d][p].key = NoKey /\ \A e \in Commands : e # d => ~Holds(e, p)
        BY DEF UsesApart
    <2>5. use'[c][p].handle = use[c][p].handle /\ use'[c][p].key = NoKey
        BY <1>3
    <2>6. ASSUME NEW d \in Commands, use'[d][p].handle = "exclusive"
          PROVE  use'[d][p].key = NoKey /\ \A e \in Commands : e # d => ~Holds(e, p)'
        BY <1>1, <2>4, <2>5, <2>6
    <2>7. Sole(c, p) /\ use[c][p].handle = "shared" => useKey[p] = NoKey
        BY DEF UsesApart
    <2>8. Sole(c, p)' /\ use'[c][p].handle = "shared" => useKey'[p] = NoKey
        BY <2>5, <2>7
    <2> QED BY <2>3, <2>6, <2>8 DEF UsesApart
<1> QED BY <1>2, <1>3

LEMMA WithholdIsSafe ==
    ASSUME SessionInv, NEW c \in Commands, NEW g \in Targets, Withhold(c, g)
    PROVE  SessionInv'
<1>1. SessionTypeOK /\ CallsGuarded
    BY DEF SessionInv
<1>2. /\ Inside(c, g) /\ SignsIn(c, g) /\ Return(c, g) /\ task[c][g].at = "recorded"
      /\ UNCHANGED <<store, epoch, tableau, open, known>>
    BY DEF Withhold, Inside, SignsIn
<1>3. PICK p \in PATs : p = Pat(c, g) /\ gate[c] = g /\ open[c]
    BY <1>1, <1>2, InsideKnows
<1>4. UNCHANGED <<bound, saved, epoch, open, known, issued, live>>
    BY <1>2 DEF store, tableau
<1>5. CASE KeepUse(c, g) /\ UNCHANGED <<useKey, session>>
    <2>1. Leaves(c, g) /\ UseKept(c, Pat(c, g))
        BY <1>1, <1>2, <1>3, <1>5, ReturnLeaves, UseKeptIs
    <2>2. UNCHANGED <<store, coordination, issued, memory>> /\ live' \in [PATs -> Tokens]
        BY <1>1, <1>4, <1>5 DEF coordination, SessionTypeOK, store, memory
    <2> QED BY <1>2, <2>1, <2>2, LeaveIsSafe
<1>6. CASE /\ useKey' = IF use[c][p].key = NoKey THEN useKey ELSE [useKey EXCEPT ![p] = NoKey]
           /\ use' = [use EXCEPT ![c][p] =
                IF task[c][g].mode = "login" THEN NotUsed ELSE [@ EXCEPT !.key = NoKey]]
           /\ Install(c, g, issued[p], epoch[p])
    <2> DEFINE a == [token |-> issued[p], epoch |-> epoch[p]]
               u == IF task[c][g].mode = "login" THEN NotUsed ELSE [use[c][p] EXCEPT !.key = NoKey]
    <2>1. a \in Session
        BY <1>1, CountsTyped DEF Session
    <2>2. u \in Uses /\ (u = NotUsed \/ (u.handle = use[c][p].handle /\ u.key = NoKey))
        BY <1>1, UseTypes DEF Uses, NotUsed, Keys
    <2>3. SetSession(c, p, g.site, a) /\ SetUse(c, p, u)
        BY <1>3, <1>6 DEF Install, SetSession, SetUse
    <2> HIDE DEF a, u
    <2>4. /\ session' \in [Commands -> [PATs -> [Sites -> Session]]]
          /\ session'[c][p][g.site] = a
          /\ \A d \in Commands, q \in PATs, x \in Sites :
                d # c \/ q # p \/ x # g.site => session'[d][q][x] = session[d][q][x]
        BY <1>1, <2>1, <2>3, SessionTypes, SessionIs
    <2>5. /\ use' \in [Commands -> [PATs -> Uses]] /\ use'[c][p] = u
          /\ \A d \in Commands, q \in PATs : d # c \/ q # p => use'[d][q] = use[d][q]
        BY <1>1, <2>2, <2>3, UseIs
    <2>6. UseOnlyOf(c, p)
        BY <2>5 DEF UseOnlyOf
    <2>7. /\ useKey' \in [PATs -> Keys] /\ \A q \in PATs : q # p => useKey'[q] = useKey[q]
          /\ useKey'[p] = NoKey \/ (useKey'[p] = useKey[p] /\ use[c][p].key = NoKey)
        BY <1>1, <1>6 DEF SessionTypeOK, Keys
    <2>8. signing[p] = c /\ Fits(c, g)
        BY <1>1, <1>2, <1>3 DEF CallsGuarded
    <2>9. UsesApart(p)'
        BY <1>1, <1>3, <2>2, <2>5, <2>6, <2>7, <2>8, WithholdApart DEF SessionInv
    <2>10. ASSUME NEW q \in PATs, q # p
           PROVE  UsesApart(q)'
        <3>1. UsesApart(q) /\ useKey'[q] = useKey[q] /\ \A d \in Commands : use'[d][q] = use[d][q]
            BY <2>5, <2>7, <2>10 DEF SessionInv
        <3> QED BY <3>1, UsesFewer
    <2>11. Leaves(c, g)
        BY <1>1, <1>2, ReturnLeaves
    <2>12. \A q \in PATs : useKey'[q] # useKey[q] => q = Pat(c, g) /\ signing[q] = c
        BY <1>3, <2>7, <2>8
    <2>13. CallsGuarded' /\ NoNewSignIn
        BY <1>2, <1>3, <1>4, <2>6, <2>11, <2>12, LeaveGuards
    <2>14. InOrder(p)'
        <3>1. \A d \in Commands, x \in Sites : session'[d][p][x] \in {session[d][p][x], NoSession, a}
            BY <2>4
        <3>2. SessionsOf(p)' \subseteq SessionsOf(p) \cup {a}
            BY <1>4, <3>1, SessionsAfter
        <3>3. task'[c][g].at = "idle"
            BY <1>1, <1>2, ReturnIs DEF Idle
        <3> QED BY <1>2, <1>3, <1>4, <2>13, <3>2, <3>3, NewestAdded DEF a
    <2>15. ASSUME NEW q \in PATs, q # p
           PROVE  InOrder(q)'
        <3>1. \A d \in Commands, x \in Sites : session'[d][q][x] = session[d][q][x]
            BY <2>4, <2>15
        <3>2. saved' = saved
            BY <1>4
        <3>3. SessionsOf(q)' \subseteq SessionsOf(q)
            BY <3>1, <3>2 DEF SessionsOf
        <3>4. InOrder(q)
            BY DEF SessionInv
        <3> QED BY <1>4, <2>13, <3>3, <3>4, OrderKept DEF NoNewSignIn
    <2>16. SessionTypeOK'
        BY <1>1, <1>4, <2>4, <2>5, <2>7, <2>11 DEF SessionTypeOK, Leaves, Calls, Uses, Session
    <2> QED BY <2>9, <2>10, <2>13, <2>14, <2>15, <2>16 DEF SessionInv
<1> QED BY <1>3, <1>5, <1>6 DEF Withhold

-----------------------------------------------------------------------------
(* The command as a whole, the user and Tableau.                              *)

(* A command none of whose requests is inside any more drops its locks.       *)
LEMMA CommandKeeps ==
    ASSUME SessionInv, SessionTypeOK', NEW c \in Commands,
           \A d \in Commands : d # c =>
            /\ task'[d] = task[d] /\ known'[d] = known[d] /\ gate'[d] = gate[d]
            /\ open'[d] = open[d] /\ use'[d] = use[d],
           \A g \in Targets : task'[c][g].at = "idle" \/ (task'[c][g].at = "waiting" /\ ~open'[c])
                              \/ (task'[c][g].at = "waiting" /\ task[c][g].at = "waiting"
                                    /\ open[c] /\ known'[c][g] = known[c][g]),
           \A p \in PATs : use'[c][p] = use[c][p] \/ use'[c][p] = NotUsed,
           \A p \in PATs : signing'[p] = signing[p] \/ signing[p] = c,
           \A p \in PATs, s \in Sites : session'[c][p][s] = session[c][p][s] \/ session'[c][p][s] = NoSession,
           \A d \in Commands : d # c => session'[d] = session[d],
           UNCHANGED <<saved, coordination, issued>>
    PROVE  SessionInv'
<1>1. SessionTypeOK /\ CallsGuarded /\ UNCHANGED <<useKey, epoch>>
    BY DEF SessionInv, coordination
<1>2. CallsGuarded'
    <2> SUFFICES ASSUME NEW d \in Commands, NEW h \in Targets
                 PROVE  /\ Inside(d, h)' => gate'[d] = h /\ open'[d]
                        /\ task'[d][h].at # "idle" /\ open'[d] => known'[d][h] # NoPAT
                        /\ SignsIn(d, h)' => signing'[known'[d][h]] = d /\ Fits(d, h)'
        BY DEF CallsGuarded, Pat
    <2>0. /\ Inside(d, h) => gate[d] = h /\ open[d]
          /\ task[d][h].at # "idle" /\ open[d] => known[d][h] # NoPAT
          /\ SignsIn(d, h) => signing[known[d][h]] = d /\ Fits(d, h) /\ known[d][h] \in PATs
        BY <1>1, InsideKnows DEF CallsGuarded, Pat, SignsIn, Inside
    <2>1. CASE d = c
        BY <2>0, <2>1 DEF Inside, SignsIn
    <2>2. CASE d # c
        BY <1>1, <2>0, <2>2 DEF Inside, SignsIn, Fits, Holds, Pat
    <2> QED BY <2>1, <2>2
<1>3. NoNewSignIn
    <2> SUFFICES ASSUME NEW d \in Commands, NEW h \in Targets, task'[d][h].at \in {"signed", "recorded"}
                 PROVE  task[d][h].at = task'[d][h].at /\ known[d][h] = known'[d][h]
        BY DEF NoNewSignIn
    <2>1. d # c
        OBVIOUS
    <2> QED BY <2>1
<1>4. ASSUME NEW p \in PATs
      PROVE  UsesApart(p)'
    <2>1. UsesApart(p) /\ useKey'[p] = useKey[p]
        BY <1>1 DEF SessionInv
    <2>2. \A d \in Commands : use'[d][p] = use[d][p] \/ use'[d][p] = NotUsed
        OBVIOUS
    <2> QED BY <2>1, <2>2, UsesFewer
<1>5. ASSUME NEW p \in PATs
      PROVE  InOrder(p)'
    <2>1. SessionsOf(p)' \subseteq SessionsOf(p)
        <3>1. \A d \in Commands, x \in Sites : session'[d][p][x] = session[d][p][x] \/ session'[d][p][x] = NoSession
            OBVIOUS
        <3> QED BY <3>1 DEF SessionsOf
    <2>2. InOrder(p)
        BY DEF SessionInv
    <2> QED BY <1>1, <1>3, <2>1, <2>2, OrderKept DEF NoNewSignIn
<1> QED BY <1>2, <1>4, <1>5 DEF SessionInv

(* A command whose gate is free has only waiting requests.                    *)
LEMMA GateFree ==
    ASSUME SessionInv, NEW c \in Commands, gate[c] = Free, NEW g \in Targets
    PROVE  task[c][g].at \in {"idle", "waiting"}
<1>1. SessionTypeOK /\ CallsGuarded
    BY DEF SessionInv
<1>2. ~Inside(c, g)
    BY <1>1, SessionTypes DEF CallsGuarded
<1> QED BY <1>2 DEF Inside

LEMMA NothingTypes ==
    /\ NothingUsed \in [PATs -> Uses] /\ NothingKnown \in [Targets -> PATs \cup {NoPAT}]
    /\ NoSessions \in [PATs -> [Sites -> Session]] /\ AllIdle \in [Targets -> Calls]
    /\ \A p \in PATs : NothingUsed[p] = NotUsed
    /\ \A p \in PATs, s \in Sites : NoSessions[p][s] = NoSession
    /\ \A g \in Targets : AllIdle[g].at = "idle"
BY DEF NothingUsed, NothingKnown, NoSessions, AllIdle, NotUsed, NoSession, Idle, Uses, Session, Calls,
       Keys, Tokens

LEMMA CommandIsSafe ==
    ASSUME SessionInv, NEW c \in Commands, Suspend(c) \/ Close(c) \/ Crash(c) \/ Run(c)
    PROVE  SessionInv'
<1>1. SessionTypeOK
    BY DEF SessionInv
<1> USE NothingTypes
<1>2. CASE Suspend(c)
    <2>1. /\ gate[c] = Free /\ open[c] /\ use' = [use EXCEPT ![c] = NothingUsed]
          /\ UNCHANGED <<store, coordination, signing, tableau, memory, gate, task>>
        BY <1>2 DEF Suspend
    <2>2. UNCHANGED <<bound, saved, epoch, useKey, signing, issued, live, open, known, session, gate, task>>
        BY <2>1 DEF store, coordination, tableau, memory
    <2>3. use' \in [Commands -> [PATs -> Uses]] /\ use'[c] = NothingUsed
          /\ \A d \in Commands : d # c => use'[d] = use[d]
        BY <1>1, <2>1 DEF SessionTypeOK, Uses
    <2>4. SessionTypeOK'
        BY <1>1, <2>2, <2>3 DEF SessionTypeOK, Uses
    <2>5. \A g \in Targets : task[c][g].at \in {"idle", "waiting"}
        BY <2>1, GateFree
    <2> QED BY <2>1, <2>2, <2>3, <2>4, <2>5, CommandKeeps
<1>3. CASE Close(c)
    <2>1. /\ gate[c] = Free /\ open[c] /\ use' = [use EXCEPT ![c] = NothingUsed]
          /\ open' = [open EXCEPT ![c] = FALSE] /\ known' = [known EXCEPT ![c] = NothingKnown]
          /\ session' = [session EXCEPT ![c] = NoSessions]
          /\ UNCHANGED <<store, coordination, signing, tableau, gate, task>>
        BY <1>3 DEF Close
    <2>2. UNCHANGED <<bound, saved, epoch, useKey, signing, issued, live, gate, task>>
        BY <2>1 DEF store, coordination, tableau
    <2>3. use' \in [Commands -> [PATs -> Uses]] /\ use'[c] = NothingUsed
          /\ \A d \in Commands : d # c => use'[d] = use[d]
        BY <1>1, <2>1 DEF SessionTypeOK, Uses
    <2>4. /\ open' \in [Commands -> BOOLEAN] /\ open'[c] = FALSE /\ \A d \in Commands : d # c => open'[d] = open[d]
          /\ known' \in [Commands -> [Targets -> PATs \cup {NoPAT}]]
          /\ \A d \in Commands : d # c => known'[d] = known[d]
          /\ session' \in [Commands -> [PATs -> [Sites -> Session]]] /\ session'[c] = NoSessions
          /\ \A d \in Commands : d # c => session'[d] = session[d]
        BY <1>1, <2>1 DEF SessionTypeOK, Session
    <2>5. SessionTypeOK'
        BY <1>1, <2>2, <2>3, <2>4 DEF SessionTypeOK, Uses, Session
    <2>6. \A g \in Targets : task[c][g].at \in {"idle", "waiting"}
        BY <2>1, GateFree
    <2>7. \A g \in Targets : task'[c][g].at = "idle" \/ (task'[c][g].at = "waiting" /\ ~open'[c])
        BY <2>2, <2>4, <2>6
    <2>8. /\ \A p \in PATs : use'[c][p] = NotUsed
          /\ \A p \in PATs, s \in Sites : session'[c][p][s] = NoSession
        BY <2>3, <2>4
    <2>9. /\ SessionTypeOK' /\ UNCHANGED <<saved, coordination, issued>>
          /\ \A d \in Commands : d # c =>
            /\ task'[d] = task[d] /\ known'[d] = known[d] /\ gate'[d] = gate[d]
            /\ open'[d] = open[d] /\ use'[d] = use[d]
          /\ \A p \in PATs : use'[c][p] = use[c][p] \/ use'[c][p] = NotUsed
          /\ \A p \in PATs : signing'[p] = signing[p] \/ signing[p] = c
          /\ \A p \in PATs, s \in Sites : session'[c][p][s] = session[c][p][s] \/ session'[c][p][s] = NoSession
          /\ \A d \in Commands : d # c => session'[d] = session[d]
        BY <2>1, <2>2, <2>3, <2>4, <2>5, <2>8 DEF coordination
    <2> QED BY <2>7, <2>9, CommandKeeps
<1>4. CASE Crash(c)
    <2>1. /\ open[c] /\ use' = [use EXCEPT ![c] = NothingUsed] /\ task' = [task EXCEPT ![c] = AllIdle]
          /\ open' = [open EXCEPT ![c] = FALSE] /\ known' = [known EXCEPT ![c] = NothingKnown]
          /\ session' = [session EXCEPT ![c] = NoSessions] /\ gate' = [gate EXCEPT ![c] = Free]
          /\ signing' = [p \in PATs |-> IF signing[p] = c THEN Free ELSE signing[p]]
          /\ UNCHANGED <<store, coordination, tableau>>
        BY <1>4 DEF Crash
    <2>2. UNCHANGED <<bound, saved, epoch, useKey, issued, live>>
        BY <2>1 DEF store, coordination, tableau
    <2>3. use' \in [Commands -> [PATs -> Uses]] /\ use'[c] = NothingUsed
          /\ \A d \in Commands : d # c => use'[d] = use[d]
        BY <1>1, <2>1 DEF SessionTypeOK, Uses
    <2>4. /\ open' \in [Commands -> BOOLEAN] /\ open'[c] = FALSE /\ \A d \in Commands : d # c => open'[d] = open[d]
          /\ known' \in [Commands -> [Targets -> PATs \cup {NoPAT}]]
          /\ \A d \in Commands : d # c => known'[d] = known[d]
          /\ session' \in [Commands -> [PATs -> [Sites -> Session]]] /\ session'[c] = NoSessions
          /\ \A d \in Commands : d # c => session'[d] = session[d]
        BY <1>1, <2>1 DEF SessionTypeOK, Session
    <2>5. /\ task' \in [Commands -> [Targets -> Calls]] /\ task'[c] = AllIdle
          /\ \A d \in Commands : d # c => task'[d] = task[d]
          /\ gate' \in [Commands -> Targets \cup {Free}] /\ \A d \in Commands : d # c => gate'[d] = gate[d]
          /\ signing' \in [PATs -> Commands \cup {Free}]
          /\ \A p \in PATs : signing'[p] = signing[p] \/ signing[p] = c
        BY <1>1, <2>1 DEF SessionTypeOK, Calls
    <2>6. SessionTypeOK'
        BY <1>1, <2>2, <2>3, <2>4, <2>5 DEF SessionTypeOK, Uses, Session, Calls
    <2>7. \A g \in Targets : task'[c][g].at = "idle"
        BY <2>5
    <2>8. /\ \A p \in PATs : use'[c][p] = NotUsed
          /\ \A p \in PATs, s \in Sites : session'[c][p][s] = NoSession
        BY <2>3, <2>4
    <2>9. /\ SessionTypeOK' /\ UNCHANGED <<saved, coordination, issued>>
          /\ \A d \in Commands : d # c =>
            /\ task'[d] = task[d] /\ known'[d] = known[d] /\ gate'[d] = gate[d]
            /\ open'[d] = open[d] /\ use'[d] = use[d]
          /\ \A p \in PATs : use'[c][p] = use[c][p] \/ use'[c][p] = NotUsed
          /\ \A p \in PATs : signing'[p] = signing[p] \/ signing[p] = c
          /\ \A p \in PATs, s \in Sites : session'[c][p][s] = session[c][p][s] \/ session'[c][p][s] = NoSession
          /\ \A d \in Commands : d # c => session'[d] = session[d]
        BY <2>1, <2>2, <2>3, <2>4, <2>5, <2>6, <2>8 DEF coordination
    <2> QED BY <2>7, <2>9, CommandKeeps
<1>5. CASE Run(c)
    <2>1. /\ task[c] = AllIdle /\ open' = [open EXCEPT ![c] = TRUE]
          /\ UNCHANGED <<store, coordination, signing, tableau, known, session, gate, use, task>>
        BY <1>5 DEF Run
    <2>2. UNCHANGED <<bound, saved, epoch, useKey, signing, issued, live, known, session, gate, use, task>>
        BY <2>1 DEF store, coordination, tableau
    <2>3. open' \in [Commands -> BOOLEAN] /\ \A d \in Commands : d # c => open'[d] = open[d]
        BY <1>1, <2>1 DEF SessionTypeOK
    <2>4. SessionTypeOK'
        BY <1>1, <2>2, <2>3 DEF SessionTypeOK
    <2>5. \A g \in Targets : task'[c][g].at = "idle"
        BY <2>1, <2>2
    <2>6. /\ SessionTypeOK' /\ UNCHANGED <<saved, coordination, issued>>
          /\ \A d \in Commands : d # c =>
            /\ task'[d] = task[d] /\ known'[d] = known[d] /\ gate'[d] = gate[d]
            /\ open'[d] = open[d] /\ use'[d] = use[d]
          /\ \A p \in PATs : use'[c][p] = use[c][p] \/ use'[c][p] = NotUsed
          /\ \A p \in PATs : signing'[p] = signing[p] \/ signing[p] = c
          /\ \A p \in PATs, s \in Sites : session'[c][p][s] = session[c][p][s] \/ session'[c][p][s] = NoSession
          /\ \A d \in Commands : d # c => session'[d] = session[d]
        BY <2>1, <2>2, <2>3, <2>4 DEF coordination
    <2> QED BY <2>5, <2>6, CommandKeeps
<1> QED BY <1>2, <1>3, <1>4, <1>5

(* What is saved beside a reference may go, and Tableau may end a session.    *)
LEMMA OutsideIsSafe ==
    ASSUME SessionInv, SessionTypeOK',
           UNCHANGED <<coordination, signing, issued, memory, gate, use, task>>,
           \A r \in References : saved'[r] = saved[r] \/ saved'[r].pat = NoPAT
    PROVE  SessionInv'
<1>1. CallsGuarded /\ UNCHANGED <<useKey, epoch, known, open, session>>
    BY DEF SessionInv, coordination, memory
<1>2. CallsGuarded'
    BY <1>1 DEF CallsGuarded, Inside, SignsIn, Fits, Holds, Pat
<1>3. ASSUME NEW p \in PATs
      PROVE  UsesApart(p)' /\ InOrder(p)'
    <2>1. UsesApart(p)'
        BY <1>1, UsesSame
    <2>2. SessionsOf(p)' \subseteq SessionsOf(p)
        BY <1>1 DEF SessionsOf
    <2>3. InOrder(p)
        BY DEF SessionInv
    <2> QED BY <1>1, <2>1, <2>2, <2>3, OrderKept
<1> QED BY <1>2, <1>3 DEF SessionInv

LEMMA UserIsSafe ==
    ASSUME SessionInv, NEW r \in References, NEW p \in PATs, ReplacePAT(r, p)
    PROVE  SessionInv'
<1>1. SessionTypeOK
    BY DEF SessionInv
<1> DEFINE none == [pat |-> NoPAT, token |-> 0, epoch |-> 0]
<1>2. none \in [pat : PATs \cup {NoPAT}, token : Tokens, epoch : Tokens] /\ none.pat = NoPAT
    BY DEF Tokens
<1>3. /\ bound' = [bound EXCEPT ![r] = p] /\ (saved' = saved \/ saved' = [saved EXCEPT ![r] = none])
      /\ UNCHANGED <<coordination, signing, tableau, memory, gate, use, task>>
    BY DEF ReplacePAT
<1> HIDE DEF none
<1>4. /\ bound' \in [References -> PATs]
      /\ saved' \in [References -> [pat : PATs \cup {NoPAT}, token : Tokens, epoch : Tokens]]
      /\ \A q \in References : saved'[q] = saved[q] \/ saved'[q].pat = NoPAT
    <2>1. /\ bound \in [References -> PATs]
          /\ saved \in [References -> [pat : PATs \cup {NoPAT}, token : Tokens, epoch : Tokens]]
        BY <1>1 DEF SessionTypeOK
    <2>2. CASE saved' = saved
        BY <1>3, <2>1, <2>2
    <2>3. CASE saved' = [saved EXCEPT ![r] = none]
        <3>1. \A q \in References : saved'[q] = IF q = r THEN none ELSE saved[q]
            BY <2>1, <2>3
        <3>2. saved' \in [References -> [pat : PATs \cup {NoPAT}, token : Tokens, epoch : Tokens]]
            BY <1>2, <2>1, <2>3
        <3> QED BY <1>2, <1>3, <2>1, <3>1, <3>2
    <2> QED BY <1>3, <2>2, <2>3
<1>5. SessionTypeOK' /\ UNCHANGED issued
    BY <1>1, <1>3, <1>4 DEF SessionTypeOK, coordination, tableau, memory
<1> QED BY <1>3, <1>4, <1>5, OutsideIsSafe

LEMMA ExpireIsSafe ==
    ASSUME SessionInv, NEW p \in PATs, Expire(p)
    PROVE  SessionInv'
<1>1. SessionTypeOK
    BY DEF SessionInv
<1>2. /\ live' = [live EXCEPT ![p] = 0]
      /\ UNCHANGED <<store, coordination, signing, issued, memory, gate, use, task>>
    BY DEF Expire
<1>3. live' \in [PATs -> Tokens] /\ UNCHANGED saved
    BY <1>1, <1>2 DEF SessionTypeOK, Tokens, store
<1>4. SessionTypeOK'
    BY <1>1, <1>2, <1>3 DEF SessionTypeOK, store, coordination, memory
<1> QED BY <1>2, <1>3, <1>4, OutsideIsSafe

-----------------------------------------------------------------------------
(* The theorems about CommandSessions.                                        *)

LEMMA SessionInvInitially == SessionInit => SessionInv
<1> SUFFICES ASSUME SessionInit
             PROVE  SessionInv
    OBVIOUS
<1> USE NothingTypes
<1>1. SessionTypeOK
    <2>1. 0 \in Tokens /\ NoKey \in Keys
        BY DEF Tokens, Keys
    <2> QED BY <2>1 DEF SessionInit, SessionTypeOK, Uses, Session, Calls
<1>2. \A c \in Commands, g \in Targets : task[c][g].at = "idle"
    BY DEF SessionInit
<1>3. CallsGuarded
    BY <1>2 DEF CallsGuarded, Inside, SignsIn
<1>4. \A c \in Commands, p \in PATs : use[c][p].handle = "none"
    BY DEF SessionInit, NotUsed
<1>5. ASSUME NEW p \in PATs
      PROVE  UsesApart(p) /\ InOrder(p)
    <2>1. UsesApart(p)
        BY <1>4 DEF UsesApart, Sole, Holds
    <2>2. \A c \in Commands, s \in Sites : session[c][p][s] = NoSession
        BY DEF SessionInit
    <2>3. \A r \in References : saved[r].pat = NoPAT
        BY DEF SessionInit
    <2>4. SessionsOf(p) = {}
        BY <2>2, <2>3 DEF SessionsOf
    <2>5. epoch[p] <= issued[p]
        BY DEF SessionInit
    <2> QED BY <1>2, <2>1, <2>4, <2>5 DEF InOrder
<1> QED BY <1>1, <1>3, <1>5 DEF SessionInv

LEMMA SessionInvKept == SessionInv /\ [SessionNext]_sessionVars => SessionInv'
<1> SUFFICES ASSUME SessionInv, [SessionNext]_sessionVars
             PROVE  SessionInv'
    OBVIOUS
<1>1. ASSUME NEW c \in Commands, NEW g \in Targets,
             Rejected(c, g) \/ Step(c, g) \/ \E mode \in Modes : Start(c, g, mode)
      PROVE  SessionInv'
    BY <1>1, StartIsSafe, RejectedIsSafe, SignInLockedIsSafe, TakeUseIsSafe, UseTakenIsSafe,
       TryAgainIsSafe, WaitOfClosedIsSafe, DecidedIsSafe, AdoptIsSafe, SignInIsSafe,
       RecordEpochIsSafe, SaveSessionIsSafe, WithholdIsSafe DEF Step
<1>2. CASE UNCHANGED sessionVars
    <2>1. UNCHANGED <<coordination, signing, issued, memory, gate, use, task, saved, bound, live>>
        BY <1>2 DEF sessionVars, tableau, store
    <2>2. SessionTypeOK'
        BY <2>1 DEF SessionInv, SessionTypeOK, coordination, memory
    <2> QED BY <2>1, <2>2, OutsideIsSafe
<1> QED BY <1>1, <1>2, CommandIsSafe, UserIsSafe, ExpireIsSafe DEF SessionNext

(* Epochs order the sessions of a PAT, in memory and saved, however commands  *)
(* sign in, adopt, fail and crash: authenticate may reuse a session on the    *)
(* strength of its epoch (src/internal/auth/command_sessions.go).             *)
THEOREM SessionsAreOrdered == SessionSpec => []EpochsOrderSessions
<1>1. SessionInv => EpochsOrderSessions
    BY DEF SessionInv, InOrder, EpochsOrderSessions
<1> QED BY <1>1, SessionInvInitially, SessionInvKept, PTL DEF SessionSpec

(* While a command has sole use of a PAT, no sign-in of another one ends the  *)
(* session it relies on: holdUse, useFor and withholdUse exclude it together. *)
THEOREM SoleUseIsRespected == SessionSpec => SoleUserKeepsSession
<1> DEFINE Kept == \A c \in Commands, p \in PATs :
        Holds(c, p) /\ use[c][p].key = NoKey /\ live[p] # 0
            => live'[p] \in {live[p], 0} \/ signing[p] = c
<1>1. SessionInv /\ [SessionNext]_sessionVars => Kept
    <2> SUFFICES ASSUME SessionInv, [SessionNext]_sessionVars, NEW c \in Commands, NEW p \in PATs,
                        Sole(c, p), live'[p] \notin {live[p], 0}
                 PROVE  signing[p] = c
        BY DEF Sole
    <2>1. SessionTypeOK /\ CallsGuarded /\ UsesApart(p)
        BY DEF SessionInv
    <2>2. live' # live
        OBVIOUS
    <2>3. ASSUME NEW q \in PATs, Expire(q)
          PROVE  FALSE
        BY <2>1, <2>3 DEF Expire, SessionTypeOK
    <2>4. PICK d \in Commands, g \in Targets : SignIn(d, g)
        <3>1. \A d \in Commands, g \in Targets : Step(d, g) => SignIn(d, g) \/ live' = live
            <4> SUFFICES ASSUME NEW d \in Commands, NEW g \in Targets
                         PROVE  Step(d, g) => SignIn(d, g) \/ live' = live
                OBVIOUS
            <4>1. SignInLocked(d, g) => UNCHANGED tableau
                BY DEF SignInLocked
            <4>2. TakeUse(d, g) => UNCHANGED tableau
                BY DEF TakeUse
            <4>3. UseTaken(d, g) => UNCHANGED tableau
                BY DEF UseTaken
            <4>4. UseFails(d, g) => UNCHANGED tableau
                BY DEF UseFails
            <4>5. TryAgain(d, g) => UNCHANGED tableau
                BY DEF TryAgain
            <4>6. WaitOfClosed(d, g) => UNCHANGED tableau
                BY DEF WaitOfClosed
            <4>7. Reuse(d, g) => UNCHANGED tableau
                BY DEF Reuse
            <4>8. Adopt(d, g) => UNCHANGED tableau
                BY DEF Adopt
            <4>9. SignInRefused(d, g) => UNCHANGED tableau
                BY DEF SignInRefused
            <4>10. RecordEpoch(d, g) => UNCHANGED tableau
                BY DEF RecordEpoch
            <4>11. SaveSession(d, g) => UNCHANGED tableau
                BY DEF SaveSession
            <4>12. Withhold(d, g) => UNCHANGED tableau
                BY DEF Withhold
            <4> QED BY <4>1, <4>2, <4>3, <4>4, <4>5, <4>6, <4>7, <4>8, <4>9, <4>10, <4>11, <4>12 DEF Step, tableau
        <3>2. \A d \in Commands, g \in Targets, mode \in Modes : Start(d, g, mode) => live' = live
            BY DEF Start, tableau
        <3>3. \A d \in Commands, g \in Targets : Rejected(d, g) => live' = live
            BY DEF Rejected, tableau
        <3>4. \A d \in Commands : Suspend(d) \/ Close(d) \/ Crash(d) \/ Run(d) => live' = live
            BY DEF Suspend, Close, Crash, Run, tableau
        <3>5. \A r \in References, q \in PATs : ReplacePAT(r, q) => live' = live
            BY DEF ReplacePAT, tableau
        <3>6. UNCHANGED sessionVars => live' = live
            BY DEF sessionVars, tableau
        <3> QED BY <2>2, <2>3, <3>1, <3>2, <3>3, <3>4, <3>5, <3>6 DEF SessionNext
    <2>5. Pat(d, g) = p
        BY <2>1, <2>4 DEF SignIn, SessionTypeOK
    <2>6. signing[p] = d /\ Fits(d, g)
        BY <2>1, <2>4, <2>5 DEF CallsGuarded, SignsIn, SignIn
    <2>7. ASSUME c # d
          PROVE  FALSE
        <3>1. Holds(d, p) /\ (Sole(d, p) \/ useKey[p] # NoKey)
            BY <2>5, <2>6 DEF Fits, Sole
        <3>2. use[c][p].handle # "exclusive"
            BY <2>1, <2>7, <3>1 DEF UsesApart
        <3>3. use[c][p].handle = "shared"
            BY <2>1, <3>2, UseTypes DEF Sole, Holds
        <3>4. useKey[p] = NoKey
            BY <2>1, <3>3 DEF UsesApart
        <3> QED BY <2>1, <2>7, <3>1, <3>4 DEF UsesApart
    <2> QED BY <2>6, <2>7
<1>2. SoleUserKeepsSession <=> [][Kept]_sessionVars
    BY DEF SoleUserKeepsSession
<1> QED BY <1>1, <1>2, SessionInvInitially, SessionInvKept, PTL DEF SessionSpec

-----------------------------------------------------------------------------
(* The inductive invariant of CacheGenerations.                               *)

Tables == [Kinds -> [Rows -> Versions]]

Generations == [id : IDs, requested : SUBSET Kinds, records : Tables]

Writes ==
    [at : {"idle", "refresh", "list", "some"}, requested : SUBSET Kinds, todo : SUBSET Kinds,
     got : Tables]

Shown == {Ordered(rows)[i] : rows \in [Rows -> Versions], i \in Nat}

ShownLists == Seq(Shown)

Pages ==
    [at : {"idle", "more", "done", "rejected"}, table : {"entries", "records"}, kind : Kinds,
     id : IDs, offset : Nat, seen : ShownLists]

Published == 1 .. Len(observed)

(* A user who goes on reading has read the first rows of one collection, and  *)
(* at the end has read it all.                                                *)
Follows(page) ==
    LET rows == Ordered(observed[page.id][page.kind]) IN
    /\ page.at \in {"more", "done"} => page.id \in Published
    /\ page.at = "more" =>
        /\ Len(page.seen) = page.offset /\ page.offset < Len(rows)
        /\ \A i \in 1 .. page.offset : page.seen[i] = rows[i]
    /\ page.at = "done" => page.seen = rows

EntriesTrue ==
    \A k \in Kinds : schema = "current" /\ snapshot[k].complete =>
        snapshot[k].id \in Published /\ entries[k] = observed[snapshot[k].id][k]

CatalogTrue ==
    /\ generation.requested # {} => generation.id # 0
    /\ generation.id # 0 =>
        /\ generation.id \in Published /\ generation.records = observed[generation.id]
        /\ ~OutsideGeneration(generation.records)

CacheTyped ==
    /\ CacheTypeOK /\ schema \in {"current", "old"}
    /\ observed \in Seq(Tables) /\ Len(observed) <= MaxPublished
    /\ paging \in [Pagers -> Pages]

CacheInv ==
    /\ CacheTyped /\ EntriesTrue /\ CatalogTrue
    /\ \A u \in Pagers : Follows(paging[u])

USE CacheConstants

LEMMA CacheFacts ==
    /\ Kinds = {"project", "workbook"} /\ 1 \in Rows /\ 0 \in Versions /\ 1 \in Versions
    /\ NoRows \in [Rows -> Versions] /\ Empty \in Tables /\ AllPresent \in Tables
    /\ \A k \in PagedKinds : k \in Kinds
BY DEF Kinds, Rows, Versions, NoRows, Empty, AllPresent, Tables

LEMMA CacheTypes ==
    ASSUME CacheTyped
    PROVE  /\ site \in Tables /\ generation \in Generations /\ entries \in Tables
           /\ snapshot \in [Kinds -> [id : IDs, complete : BOOLEAN]]
           /\ writing \in [CacheWriters -> Writes] /\ paging \in [Pagers -> Pages]
           /\ schema \in {"current", "old"} /\ observed \in Seq(Tables)
           /\ Len(observed) \in Nat /\ Len(observed) <= MaxPublished
BY DEF CacheTyped, CacheTypeOK, Tables, Generations, Writes

LEMMA CacheTypedAfter ==
    ASSUME site' \in Tables, generation' \in Generations, entries' \in Tables,
           snapshot' \in [Kinds -> [id : IDs, complete : BOOLEAN]],
           writing' \in [CacheWriters -> Writes], paging' \in [Pagers -> Pages],
           schema' \in {"current", "old"}, observed' \in Seq(Tables), Len(observed') <= MaxPublished
    PROVE  CacheTyped'
BY DEF CacheTyped, CacheTypeOK, Tables, Generations, Writes

(* The rows of a table, in order, are a sequence.                             *)
LEMMA OrderedRows ==
    ASSUME NEW rows \in [Rows -> Versions]
    PROVE  /\ Ordered(rows) \in Seq(Shown) /\ Len(Ordered(rows)) \in Nat
           /\ \A i \in 1 .. Len(Ordered(rows)) : Ordered(rows)[i] \in Shown
<1> DEFINE present == {r \in Rows : rows[r] # 0}
           n == Cardinality(present)
<1>1. IsFiniteSet(Rows)
    BY FS_Interval DEF Rows
<1>2. n \in Nat
    BY <1>1, FS_Subset, FS_CardinalityType
<1> DEFINE Nth(i) == CHOOSE r \in present : Cardinality({q \in present : q <= r}) = i
           all == [i \in 1 .. n |-> <<Nth(i), rows[Nth(i)]>>]
<1>0. Ordered(rows) = all
    BY Zenon DEF Ordered
<1> HIDE DEF Nth
<1>3. Ordered(rows) = [i \in 1 .. n |-> Ordered(rows)[i]]
    BY <1>0
<1> HIDE DEF n, present, all
<1>4. \A i \in 1 .. n : Ordered(rows)[i] \in Shown
    BY <1>2 DEF Shown
<1>5. Ordered(rows) \in Seq(Shown) /\ Len(Ordered(rows)) = n
    BY <1>2, <1>3, <1>4
<1> QED BY <1>2, <1>4, <1>5

(* A collection that was published stays what it was.                         *)
LEMMA FollowsOn ==
    ASSUME NEW page, Follows(page), Len(observed) \in Nat,
           Len(observed') \in Nat, Len(observed') >= Len(observed),
           \A i \in Published : observed'[i] = observed[i]
    PROVE  Follows(page)'
BY DEF Follows, Published

-----------------------------------------------------------------------------
(* Writers.                                                                   *)

LEMMA OnlyWriting ==
    ASSUME CacheInv, writing' \in [CacheWriters -> Writes],
           UNCHANGED <<site, changes, schema, generation, entries, snapshot, observed, paging>>
    PROVE  CacheInv'
<1>1. CacheTyped'
    BY CacheTypes, CacheTypedAfter DEF CacheInv
<1>2. EntriesTrue' /\ CatalogTrue'
    BY DEF CacheInv, EntriesTrue, CatalogTrue, Published, OutsideGeneration
<1>3. \A u \in Pagers : Follows(paging[u])'
    BY DEF CacheInv, Follows, Published
<1> QED BY <1>1, <1>2, <1>3 DEF CacheInv

LEMMA ReadIsSafe ==
    ASSUME CacheInv, NEW p \in CacheWriters, NEW plan \in Writes, NEW k \in Kinds, NEW rows,
           Read(p, plan, k, rows)
    PROVE  CacheInv'
<1>1. site \in Tables /\ writing \in [CacheWriters -> Writes]
    BY CacheTypes DEF CacheInv
<1> DEFINE read == [r \in Rows |-> IF r \in rows THEN site[k][r] ELSE 0]
           w == [plan EXCEPT !.todo = @ \ {k}, !.got[k] = read]
<1>2. read \in [Rows -> Versions]
    BY <1>1, CacheFacts DEF Tables
<1>3. plan.todo \ {k} \in SUBSET Kinds /\ plan.got \in Tables
    BY DEF Writes
<1> HIDE DEF read
<1>4. [plan.got EXCEPT ![k] = read] \in Tables
    BY <1>2, <1>3 DEF Tables
<1>5. w \in Writes
    BY <1>3, <1>4 DEF Writes
<1>6. writing' = [writing EXCEPT ![p] = w]
    BY DEF Read, read
<1> HIDE DEF w
<1>7. writing' \in [CacheWriters -> Writes]
    BY <1>1, <1>5, <1>6
<1> QED BY <1>7, OnlyWriting DEF Read

LEMMA PlanTyped ==
    ASSUME NEW mode \in {"refresh", "list", "some"}, NEW requested \in SUBSET Kinds
    PROVE  [NoWrite EXCEPT !.at = mode, !.requested = requested,
                !.todo = IF mode = "some" THEN requested ELSE Closure(requested)] \in Writes
BY CacheFacts DEF NoWrite, Writes, Closure

LEMMA CollectsIsSafe ==
    ASSUME CacheInv, NEW p \in CacheWriters, NEW k \in Kinds,
           \/ Collect(p, k)
           \/ \E mode \in {"refresh", "list", "some"}, requested \in SUBSET Kinds, rows \in SUBSET Rows :
                Begin(p, mode, requested, k, rows)
    PROVE  CacheInv'
<1>1. CASE Collect(p, k)
    <2>1. writing[p] \in Writes
        BY CacheTypes DEF CacheInv
    <2> QED BY <1>1, <2>1, ReadIsSafe DEF Collect
<1>2. ASSUME NEW mode \in {"refresh", "list", "some"}, NEW requested \in SUBSET Kinds, NEW rows,
             Begin(p, mode, requested, k, rows)
      PROVE  CacheInv'
    <2> DEFINE plan == [NoWrite EXCEPT !.at = mode, !.requested = requested,
                !.todo = IF mode = "some" THEN requested ELSE Closure(requested)]
    <2>1. plan \in Writes
        BY PlanTyped
    <2>2. Read(p, plan, k, rows)
        BY <1>2 DEF Begin
    <2> HIDE DEF plan
    <2> QED BY <2>1, <2>2, ReadIsSafe
<1> QED BY <1>1, <1>2

LEMMA DoneTyped ==
    ASSUME CacheTyped, NEW p \in CacheWriters, Done(p)
    PROVE  writing' \in [CacheWriters -> Writes]
<1>1. NoWrite \in Writes
    BY CacheFacts DEF NoWrite, Writes
<1> QED BY <1>1, CacheTypes DEF Done

LEMMA AbandonIsSafe ==
    ASSUME CacheInv, NEW p \in CacheWriters, Abandon(p)
    PROVE  CacheInv'
BY OnlyWriting, DoneTyped DEF CacheInv, Abandon

LEMMA SaveRowsIsSafe ==
    ASSUME CacheInv, NEW p \in CacheWriters, NEW k \in Kinds, SaveRows(p, k)
    PROVE  CacheInv'
<1> DEFINE got == writing[p].got[k]
<1>1. /\ UpsertResources(k, got) /\ Done(p)
      /\ UNCHANGED <<site, changes, schema, generation, observed, paging>>
    BY DEF SaveRows
<1>2. CacheTyped /\ EntriesTrue /\ CatalogTrue /\ \A u \in Pagers : Follows(paging[u])
    BY DEF CacheInv
<1>3. got \in [Rows -> Versions]
    BY <1>2, CacheTypes DEF Writes, Tables
<1>4. entries \in Tables /\ snapshot \in [Kinds -> [id : IDs, complete : BOOLEAN]]
    BY <1>2, CacheTypes
<1> HIDE DEF got
<1> DEFINE merged == [r \in Rows |-> IF got[r] # 0 THEN got[r] ELSE entries[k][r]]
<1>5. merged \in [Rows -> Versions]
    BY <1>3, <1>4 DEF Tables
<1>6. entries' = [entries EXCEPT ![k] = merged]
    BY <1>1 DEF UpsertResources
<1>7. got = NoRows => merged = entries[k]
    BY <1>4 DEF NoRows, Tables
<1> HIDE DEF merged
<1>8. entries' \in Tables /\ entries'[k] = merged /\ \A j \in Kinds : j # k => entries'[j] = entries[j]
    BY <1>4, <1>5, <1>6 DEF Tables
<1>9. /\ snapshot' \in [Kinds -> [id : IDs, complete : BOOLEAN]]
      /\ \A j \in Kinds : snapshot'[j].complete => snapshot'[j] = snapshot[j] /\ (j = k => got = NoRows)
    <2>1. CASE got = NoRows
        BY <1>1, <1>4, <2>1 DEF UpsertResources
    <2>2. CASE got # NoRows
        <3>1. snapshot' = [snapshot EXCEPT ![k] = [snapshot[k] EXCEPT !.complete = FALSE]]
            BY <1>1, <2>2 DEF UpsertResources
        <3>2. [snapshot[k] EXCEPT !.complete = FALSE] \in [id : IDs, complete : BOOLEAN]
              /\ [snapshot[k] EXCEPT !.complete = FALSE].complete = FALSE
            BY <1>4
        <3> QED BY <1>4, <3>1, <3>2
    <2> QED BY <2>1, <2>2
<1>10. CacheTyped'
    BY <1>1, <1>2, <1>8, <1>9, CacheTypes, CacheTypedAfter, DoneTyped
<1>11. EntriesTrue'
    BY <1>1, <1>2, <1>7, <1>8, <1>9 DEF EntriesTrue, Published
<1>12. CatalogTrue'
    BY <1>1, <1>2 DEF CatalogTrue, Published, OutsideGeneration
<1>13. \A u \in Pagers : Follows(paging[u])'
    BY <1>1, <1>2 DEF Follows, Published
<1> QED BY <1>10, <1>11, <1>12, <1>13 DEF CacheInv

(* What a collection is published as; nothing published before changes.       *)
LEMMA Appended ==
    ASSUME CacheInv, NEW got \in Tables, NewID <= MaxPublished,
           observed' = Append(observed, got)
    PROVE  /\ observed' \in Seq(Tables) /\ Len(observed') = NewID /\ NewID \in IDs \ {0}
           /\ NewID \in Published' /\ observed'[NewID] = got
           /\ \A i \in Published : i \in Published' /\ observed'[i] = observed[i]
<1>1. observed \in Seq(Tables) /\ Len(observed) \in Nat
    BY CacheTypes DEF CacheInv
<1>2. /\ Append(observed, got) \in Seq(Tables)
      /\ Len(Append(observed, got)) = Len(observed) + 1
      /\ \A i \in 1 .. Len(observed) : Append(observed, got)[i] = observed[i]
      /\ Append(observed, got)[Len(observed) + 1] = got
    BY <1>1, AppendProperties
<1> QED BY <1>1, <1>2 DEF NewID, IDs, Published

LEMMA ReadersFollowOn ==
    ASSUME CacheInv, NEW got \in Tables, NewID <= MaxPublished,
           observed' = Append(observed, got), UNCHANGED paging
    PROVE  \A u \in Pagers : Follows(paging[u])'
<1> SUFFICES ASSUME NEW u \in Pagers PROVE Follows(paging[u])'
    OBVIOUS
<1>1. Follows(paging[u])
    BY DEF CacheInv
<1>2. \A i \in Published : i \in Published' /\ observed'[i] = observed[i]
    BY Appended
<1>3. paging'[u] = paging[u]
    OBVIOUS
<1> QED BY <1>1, <1>2, <1>3 DEF Follows

LEMMA ReplaceIsSafe ==
    ASSUME CacheInv, NEW p \in CacheWriters, NEW k \in Kinds, ReplaceResourceScope(p, k)
    PROVE  CacheInv'
<1> DEFINE got == writing[p].got[k]
           table == [Empty EXCEPT ![k] = got]
<1>1. CacheTyped /\ EntriesTrue /\ CatalogTrue
    BY DEF CacheInv
<1>2. /\ schema = "current" /\ NewID <= MaxPublished
      /\ entries' = [entries EXCEPT ![k] = got]
      /\ snapshot' = [snapshot EXCEPT ![k] = [id |-> NewID, complete |-> TRUE]]
      /\ observed' = Append(observed, table)
      /\ Done(p) /\ UNCHANGED <<site, changes, schema, generation, paging>>
    BY DEF ReplaceResourceScope
<1>3. got \in [Rows -> Versions]
    BY <1>1, CacheTypes DEF Writes, Tables
<1> HIDE DEF got
<1>4. table \in Tables /\ table[k] = got
    BY <1>3, CacheFacts DEF Tables
<1> HIDE DEF table
<1>5. /\ observed' \in Seq(Tables) /\ Len(observed') = NewID /\ NewID \in IDs \ {0}
      /\ NewID \in Published' /\ observed'[NewID] = table
      /\ \A i \in Published : i \in Published' /\ observed'[i] = observed[i]
    BY <1>2, <1>4, Appended
<1>6. /\ entries' \in Tables /\ entries'[k] = got
      /\ \A j \in Kinds : j # k => entries'[j] = entries[j]
    BY <1>1, <1>2, <1>3, CacheTypes DEF Tables
<1>7. /\ snapshot' \in [Kinds -> [id : IDs, complete : BOOLEAN]]
      /\ snapshot'[k] = [id |-> NewID, complete |-> TRUE]
      /\ \A j \in Kinds : j # k => snapshot'[j] = snapshot[j]
    BY <1>1, <1>2, <1>5, CacheTypes
<1>8. CacheTyped'
    BY <1>1, <1>2, <1>5, <1>6, <1>7, CacheTypes, CacheTypedAfter, DoneTyped
<1>9. EntriesTrue'
    <2> SUFFICES ASSUME NEW j \in Kinds, snapshot'[j].complete
                 PROVE  snapshot'[j].id \in Published' /\ entries'[j] = observed'[snapshot'[j].id][j]
        BY DEF EntriesTrue
    <2>1. CASE j = k
        BY <1>4, <1>5, <1>6, <1>7, <2>1
    <2>2. CASE j # k
        <3>1. snapshot'[j] = snapshot[j] /\ entries'[j] = entries[j]
            BY <1>6, <1>7, <2>2
        <3>2. snapshot[j].id \in Published /\ entries[j] = observed[snapshot[j].id][j]
            BY <1>1, <1>2, <3>1 DEF EntriesTrue
        <3> QED BY <1>5, <3>1, <3>2
    <2> QED BY <2>1, <2>2
<1>10. CatalogTrue'
    BY <1>1, <1>2, <1>5 DEF CatalogTrue, OutsideGeneration
<1>11. \A u \in Pagers : Follows(paging[u])'
    BY <1>2, <1>4, ReadersFollowOn
<1> QED BY <1>8, <1>9, <1>10, <1>11 DEF CacheInv

LEMMA PublishIsSafe ==
    ASSUME CacheInv, NEW p \in CacheWriters, PublishGeneration(p)
    PROVE  CacheInv'
<1> DEFINE got == writing[p].got
           requested == writing[p].requested
           keptRows(k) == IF schema = "old" THEN NoRows ELSE entries[k]
           keptScope(k) == IF schema = "old" THEN [id |-> 0, complete |-> FALSE] ELSE snapshot[k]
<1>1. CacheTyped /\ EntriesTrue /\ CatalogTrue
    BY DEF CacheInv
<1>2. /\ ~OutsideGeneration(got) /\ NewID <= MaxPublished /\ schema' = "current"
      /\ generation' = [id |-> NewID, requested |-> requested, records |-> got]
      /\ entries' = [k \in Kinds |-> IF k \in requested THEN got[k] ELSE keptRows(k)]
      /\ snapshot' = [k \in Kinds |-> IF k \in requested THEN [id |-> NewID, complete |-> TRUE]
                                       ELSE keptScope(k)]
      /\ observed' = Append(observed, got)
      /\ Done(p) /\ UNCHANGED <<site, changes, paging>>
    BY DEF PublishGeneration
<1>3. got \in Tables /\ requested \in SUBSET Kinds
    BY <1>1, CacheTypes DEF Writes
<1> HIDE DEF got, requested
<1>4. /\ entries \in Tables /\ snapshot \in [Kinds -> [id : IDs, complete : BOOLEAN]]
      /\ schema \in {"current", "old"}
    BY <1>1, CacheTypes
<1>5. \A k \in Kinds : keptRows(k) \in [Rows -> Versions]
                       /\ keptScope(k) \in [id : IDs, complete : BOOLEAN]
    BY <1>4, CacheFacts DEF Tables, IDs
<1>6. \A k \in Kinds : keptScope(k).complete =>
            schema = "current" /\ keptScope(k) = snapshot[k] /\ keptRows(k) = entries[k]
    BY <1>4
<1> HIDE DEF keptRows, keptScope
<1>7. /\ observed' \in Seq(Tables) /\ Len(observed') = NewID /\ NewID \in IDs \ {0}
      /\ NewID \in Published' /\ observed'[NewID] = got
      /\ \A i \in Published : i \in Published' /\ observed'[i] = observed[i]
    BY <1>2, <1>3, Appended
<1>8. entries' \in Tables
    BY <1>2, <1>3, <1>5 DEF Tables
<1>9. snapshot' \in [Kinds -> [id : IDs, complete : BOOLEAN]]
    BY <1>2, <1>5, <1>7
<1>10. generation' \in Generations
    BY <1>2, <1>3, <1>7 DEF Generations
<1>11. CacheTyped'
    BY <1>1, <1>2, <1>7, <1>8, <1>9, <1>10, CacheTypes, CacheTypedAfter, DoneTyped
<1>12. EntriesTrue'
    <2> SUFFICES ASSUME NEW k \in Kinds, snapshot'[k].complete
                 PROVE  snapshot'[k].id \in Published' /\ entries'[k] = observed'[snapshot'[k].id][k]
        BY DEF EntriesTrue
    <2>1. CASE k \in requested
        BY <1>2, <1>7, <2>1
    <2>2. CASE k \notin requested
        <3>1. snapshot'[k] = keptScope(k) /\ entries'[k] = keptRows(k)
            BY <1>2, <2>2
        <3>2. schema = "current" /\ snapshot'[k] = snapshot[k] /\ entries'[k] = entries[k]
            BY <1>6, <3>1
        <3>3. snapshot[k].id \in Published /\ entries[k] = observed[snapshot[k].id][k]
            BY <1>1, <3>2 DEF EntriesTrue
        <3> QED BY <1>7, <3>2, <3>3
    <2> QED BY <2>1, <2>2
<1>13. CatalogTrue'
    BY <1>2, <1>7 DEF CatalogTrue, OutsideGeneration
<1>14. \A u \in Pagers : Follows(paging[u])'
    BY <1>2, <1>3, ReadersFollowOn
<1> QED BY <1>11, <1>12, <1>13, <1>14 DEF CacheInv

-----------------------------------------------------------------------------
(* Readers.                                                                   *)

(* What is shown as current, and complete, is one published collection.       *)
LEMMA CompleteIsPublished ==
    ASSUME CacheInv, NEW table \in {"entries", "records"}, NEW k \in Kinds, Complete(table, k)
    PROVE  /\ CurrentID(table, k) \in Published
           /\ CurrentRows(table, k) = Ordered(observed[CurrentID(table, k)][k])
BY DEF CacheInv, EntriesTrue, CatalogTrue, Complete, CurrentID, CurrentRows

(* The reads of a user when they begin, after a page, and when rejected.      *)
Begun(table, k) == [NoPages EXCEPT !.table = table, !.kind = k]
Turned(page, at, id, offset, seen) ==
    [page EXCEPT !.at = at, !.id = id, !.offset = offset, !.seen = seen]
RejectedPages == [NoPages EXCEPT !.at = "rejected"]

LEMMA PageTurned ==
    ASSUME NEW page \in Pages, NEW at \in {"idle", "more", "done", "rejected"},
           NEW id \in IDs, NEW offset \in Nat, NEW seen \in ShownLists
    PROVE  LET shown == Turned(page, at, id, offset, seen) IN
           /\ shown \in Pages /\ shown.at = at /\ shown.id = id /\ shown.offset = offset
           /\ shown.seen = seen /\ shown.kind = page.kind
BY DEF Turned, Pages

LEMMA PagesBegun ==
    ASSUME NEW table \in {"entries", "records"}, NEW k \in Kinds
    PROVE  /\ NoPages \in Pages /\ NoPages.at = "idle"
           /\ RejectedPages \in Pages /\ RejectedPages.at = "rejected"
           /\ Begun(table, k) \in Pages /\ Begun(table, k).table = table
           /\ Begun(table, k).kind = k /\ Begun(table, k).seen = <<>>
<1>1. NoPages \in Pages /\ NoPages.seen = <<>> /\ NoPages.at = "idle"
    <2>1. <<>> \in ShownLists /\ 0 \in IDs
        BY DEF ShownLists, IDs
    <2> QED BY <2>1, CacheFacts DEF NoPages, Pages
<1> HIDE DEF NoPages
<1> QED BY <1>1 DEF Pages, Begun, RejectedPages

(* The rows before the offset were shown, and there is another row.           *)
ReadSoFar(page, offset) ==
    LET rows == CurrentRows(page.table, page.kind) IN
    /\ page.seen \in Seq(Shown) /\ Len(page.seen) = offset
    /\ offset = 0 \/ offset < Len(rows)
    /\ \A i \in 1 .. offset : page.seen[i] = rows[i]

LEMMA ShowPageFollows ==
    ASSUME CacheInv, NEW u \in Pagers, NEW page \in Pages, NEW offset \in Nat,
           Complete(page.table, page.kind), ShowPage(u, page, offset),
           ReadSoFar(page, offset),
           UNCHANGED <<site, changes, schema, generation, entries, snapshot, observed, writing>>
    PROVE  CacheInv'
<1> DEFINE id == CurrentID(page.table, page.kind)
           rows == CurrentRows(page.table, page.kind)
           seen == IF offset < Len(rows) THEN Append(page.seen, rows[offset + 1]) ELSE page.seen
           at == IF offset + 1 < Len(rows) THEN "more" ELSE "done"
           shown == Turned(page, at, id, offset + 1, seen)
<1>1. CacheTyped /\ EntriesTrue /\ CatalogTrue
    BY DEF CacheInv
<1>2. page.table \in {"entries", "records"} /\ page.kind \in Kinds
    BY DEF Pages
<1>3. id \in Published /\ rows = Ordered(observed[id][page.kind])
    BY <1>2, CompleteIsPublished
<1>4. paging' = [paging EXCEPT ![u] = shown]
    BY DEF ShowPage, Turned
<1>5. /\ page.seen \in Seq(Shown) /\ Len(page.seen) = offset
      /\ offset = 0 \/ offset < Len(rows)
      /\ \A i \in 1 .. offset : page.seen[i] = rows[i]
    BY DEF ReadSoFar
<1> HIDE DEF id, rows
<1>6. id \in IDs /\ observed[id][page.kind] \in [Rows -> Versions]
    BY <1>1, <1>2, <1>3, CacheTypes DEF Published, IDs, Tables
<1>7. /\ rows \in Seq(Shown) /\ Len(rows) \in Nat
      /\ \A i \in 1 .. Len(rows) : rows[i] \in Shown
    BY <1>3, <1>6, OrderedRows
<1>8. /\ seen \in Seq(Shown) /\ at \in {"more", "done"}
      /\ at = "more" =>
            /\ Len(seen) = offset + 1 /\ offset + 1 < Len(rows)
            /\ \A i \in 1 .. offset + 1 : seen[i] = rows[i]
      /\ at = "done" => seen = rows
    <2>1. CASE offset < Len(rows)
        <3> DEFINE next == Append(page.seen, rows[offset + 1])
        <3>1. rows[offset + 1] \in Shown
            BY <1>7, <2>1
        <3>2. /\ next \in Seq(Shown) /\ Len(next) = offset + 1
              /\ \A i \in 1 .. offset : next[i] = page.seen[i]
              /\ next[offset + 1] = rows[offset + 1]
            BY <1>5, <3>1, AppendProperties
        <3>3. seen = next
            BY <2>1
        <3> HIDE DEF next
        <3>4. \A i \in 1 .. offset + 1 : next[i] = rows[i]
            BY <1>5, <3>2
        <3>5. offset + 1 = Len(rows) => next = rows
            <4> SUFFICES ASSUME offset + 1 = Len(rows) PROVE next = rows
                OBVIOUS
            <4>1. Len(next) = Len(rows) /\ \A i \in 1 .. Len(next) : next[i] = rows[i]
                BY <3>2, <3>4
            <4> HIDE DEF next
            <4> QED BY <1>7, <3>2, <4>1, SeqEqual
        <3>6. at = "done" => offset + 1 = Len(rows)
            BY <1>7, <2>1
        <3> HIDE DEF seen
        <3> QED BY <3>2, <3>3, <3>4, <3>5, <3>6
    <2>2. CASE ~(offset < Len(rows))
        <3>1. offset = 0 /\ Len(rows) = 0
            BY <1>5, <1>7, <2>2
        <3>2. rows = <<>> /\ page.seen = <<>>
            BY <1>5, <1>7, <3>1, EmptySeq
        <3>3. at = "done" /\ seen = page.seen
            BY <2>2, <3>1
        <3> HIDE DEF seen, at
        <3> QED BY <1>5, <3>2, <3>3
    <2> QED BY <2>1, <2>2
<1> HIDE DEF seen, at
<1>9. /\ shown \in Pages /\ shown.at = at /\ shown.id = id /\ shown.offset = offset + 1
      /\ shown.seen = seen /\ shown.kind = page.kind
    <2>1. at \in {"idle", "more", "done", "rejected"} /\ offset + 1 \in Nat
        BY <1>8
    <2>2. page \in Pages /\ seen \in ShownLists
        BY <1>8 DEF ShownLists
    <2>3. shown \in Pages /\ shown.at = at /\ shown.id = id
          /\ shown.offset = offset + 1 /\ shown.seen = seen /\ shown.kind = page.kind
        BY <1>6, <2>1, <2>2, PageTurned
    <2> QED BY <2>3 DEF Pages
<1>10. Follows(shown)
    BY <1>3, <1>8, <1>9 DEF Follows
<1> HIDE DEF shown
<1>11. paging' \in [Pagers -> Pages] /\ paging'[u] = shown
       /\ \A v \in Pagers : v # u => paging'[v] = paging[v]
    BY <1>1, <1>4, <1>9, CacheTypes
<1>12. CacheTyped'
    BY <1>1, <1>11, CacheTypes, CacheTypedAfter
<1>13. EntriesTrue' /\ CatalogTrue'
    BY <1>1 DEF EntriesTrue, CatalogTrue, Published, OutsideGeneration
<1>14. \A v \in Pagers : Follows(paging'[v])
    BY <1>10, <1>11 DEF CacheInv
<1>15. \A v \in Pagers : Follows(paging[v])'
    BY <1>14 DEF Follows, Published
<1> QED BY <1>12, <1>13, <1>15 DEF CacheInv

(* A user who reads nothing (more) changes nothing.                           *)
LEMMA PagesIsSafe ==
    ASSUME CacheInv, NEW u \in Pagers,
           \/ NextPage(u)
           \/ \E table \in {"entries", "records"}, k \in PagedKinds : FirstPage(u, table, k)
    PROVE  CacheInv'
<1>1. CacheTyped /\ EntriesTrue /\ CatalogTrue
    BY DEF CacheInv
<1>2. paging \in [Pagers -> Pages]
    BY <1>1, CacheTypes
<1>3. ASSUME NEW table \in {"entries", "records"}, NEW k \in PagedKinds, FirstPage(u, table, k)
      PROVE  CacheInv'
    <2> DEFINE page == Begun(table, k)
    <2>1. k \in Kinds
        BY CacheFacts
    <2>2. /\ page \in Pages /\ page.table = table /\ page.kind = k
          /\ page.seen = <<>>
        BY <2>1, PagesBegun
    <2>3. Complete(page.table, page.kind) /\ ShowPage(u, page, 0)
          /\ UNCHANGED <<site, changes, schema, generation, entries, snapshot, observed, writing>>
        BY <1>3, <2>2 DEF FirstPage, Begun
    <2> HIDE DEF page
    <2>4. 0 \in Nat /\ ReadSoFar(page, 0)
        BY <2>2 DEF ReadSoFar
    <2> QED BY <2>2, <2>3, <2>4, ShowPageFollows
<1>4. CASE NextPage(u)
    <2> DEFINE page == paging[u]
    <2>1. /\ page \in Pages /\ page.at = "more"
          /\ UNCHANGED <<site, changes, schema, generation, entries, snapshot, observed, writing>>
        BY <1>2, <1>4 DEF NextPage
    <2>2. CASE CursorValid(u)
        <3>1. /\ Complete(page.table, page.kind) /\ CurrentID(page.table, page.kind) = page.id
              /\ ShowPage(u, page, page.offset)
            BY <1>4, <2>2 DEF NextPage, CursorValid
        <3>2. Follows(page)
            BY DEF CacheInv
        <3> HIDE DEF page
        <3>3. page.offset \in Nat /\ page.seen \in Seq(Shown)
              /\ page.table \in {"entries", "records"} /\ page.kind \in Kinds
            BY <2>1 DEF Pages, ShownLists
        <3>4. CurrentRows(page.table, page.kind) = Ordered(observed[page.id][page.kind])
            BY <3>1, <3>3, CompleteIsPublished
        <3>5. /\ Len(page.seen) = page.offset
              /\ page.offset < Len(CurrentRows(page.table, page.kind))
              /\ \A i \in 1 .. page.offset : page.seen[i] = CurrentRows(page.table, page.kind)[i]
            BY <2>1, <3>2, <3>4 DEF Follows
        <3>6. ReadSoFar(page, page.offset)
            BY <3>3, <3>5 DEF ReadSoFar
        <3> QED BY <2>1, <3>1, <3>3, <3>6, ShowPageFollows
    <2>3. CASE ~CursorValid(u)
        <3>1. paging' = [paging EXCEPT ![u] = RejectedPages]
            BY <1>4, <2>3 DEF NextPage, RejectedPages
        <3>2. <<>> \in Seq(Shown)
            OBVIOUS
        <3>3. RejectedPages \in Pages /\ RejectedPages.at = "rejected"
            BY <3>2, CacheFacts, PagesBegun DEF Pages
        <3>4. Follows(RejectedPages)
            BY <3>3 DEF Follows
        <3>5. paging' \in [Pagers -> Pages] /\ paging'[u] = RejectedPages
              /\ \A v \in Pagers : v # u => paging'[v] = paging[v]
            BY <1>2, <3>1, <3>3
        <3>6. CacheTyped'
            BY <1>1, <2>1, <3>5, CacheTypes, CacheTypedAfter
        <3>7. EntriesTrue' /\ CatalogTrue'
            BY <1>1, <2>1 DEF EntriesTrue, CatalogTrue, Published, OutsideGeneration
        <3>8. \A v \in Pagers : Follows(paging'[v])
            BY <3>4, <3>5 DEF CacheInv
        <3>9. \A v \in Pagers : Follows(paging[v])'
            BY <2>1, <3>8 DEF Follows, Published
        <3> QED BY <3>6, <3>7, <3>9 DEF CacheInv
    <2> QED BY <2>2, <2>3
<1> QED BY <1>3, <1>4

-----------------------------------------------------------------------------
LEMMA SiteChangesIsSafe ==
    ASSUME CacheInv, SiteChanges
    PROVE  CacheInv'
<1>1. CacheTyped /\ EntriesTrue /\ CatalogTrue
    BY DEF CacheInv
<1>2. site \in Tables
    BY <1>1, CacheTypes
<1>3. site' \in Tables
    <2>1. ASSUME NEW r \in Rows, NEW v \in Versions, site' = [site EXCEPT !["workbook"][r] = v]
          PROVE  site' \in Tables
        <3>1. [site["workbook"] EXCEPT ![r] = v] \in [Rows -> Versions]
            BY <1>2, CacheFacts DEF Tables
        <3> QED BY <1>2, <2>1, <3>1 DEF Tables
    <2> QED BY <2>1, CacheFacts DEF SiteChanges
<1>4. UNCHANGED <<schema, generation, entries, snapshot, observed, writing, paging>>
    BY DEF SiteChanges
<1>5. CacheTyped'
    BY <1>1, <1>3, <1>4, CacheTypes, CacheTypedAfter
<1>6. EntriesTrue' /\ CatalogTrue'
    BY <1>1, <1>4 DEF EntriesTrue, CatalogTrue, Published, OutsideGeneration
<1>7. \A u \in Pagers : Follows(paging[u])'
    BY <1>4 DEF CacheInv, Follows, Published
<1> QED BY <1>5, <1>6, <1>7 DEF CacheInv

LEMMA CacheInvInit ==
    ASSUME CacheInit
    PROVE  CacheInv
<1>1. <<>> \in Seq(Tables) /\ Len(<<>>) = 0 /\ <<>> \in Seq(Shown) /\ 0 \in IDs
    BY DEF IDs
<1>2. site \in Tables /\ generation \in Generations /\ entries \in Tables
    BY <1>1, CacheFacts DEF CacheInit, Generations
<1>3. snapshot \in [Kinds -> [id : IDs, complete : BOOLEAN]]
    BY <1>1 DEF CacheInit
<1>4. writing \in [CacheWriters -> Writes]
    BY CacheFacts DEF CacheInit, NoWrite, Writes
<1>5. paging \in [Pagers -> Pages]
    BY <1>1, CacheFacts, PagesBegun DEF CacheInit, Pages
<1>6. CacheTyped
    BY <1>1, <1>2, <1>3, <1>4, <1>5 DEF CacheInit, CacheTyped, CacheTypeOK, Tables, Generations, Writes
<1>7. EntriesTrue /\ CatalogTrue
    BY DEF CacheInit, EntriesTrue, CatalogTrue
<1>8. \A u \in Pagers : Follows(paging[u])
    BY DEF CacheInit, NoPages, Follows
<1> QED BY <1>6, <1>7, <1>8 DEF CacheInv

LEMMA CacheInvKept ==
    ASSUME CacheInv, [CacheNext]_cacheVars
    PROVE  CacheInv'
<1>1. CASE UNCHANGED cacheVars
    <2>1. CacheTyped' /\ EntriesTrue' /\ CatalogTrue'
        BY <1>1 DEF cacheVars, CacheInv, CacheTyped, CacheTypeOK, EntriesTrue, CatalogTrue,
                    Published, OutsideGeneration
    <2>2. \A u \in Pagers : Follows(paging[u])'
        BY <1>1 DEF cacheVars, CacheInv, Follows, Published
    <2> QED BY <2>1, <2>2 DEF CacheInv
<1>2. ASSUME NEW p \in CacheWriters, NEW k \in Kinds,
             Collect(p, k) \/ ReplaceResourceScope(p, k) \/ SaveRows(p, k)
      PROVE  CacheInv'
    BY <1>2, CollectsIsSafe, ReplaceIsSafe, SaveRowsIsSafe
<1>3. ASSUME NEW p \in CacheWriters, NEW k \in Kinds,
             NEW mode \in {"refresh", "list", "some"}, NEW requested \in SUBSET Kinds,
             NEW rows \in SUBSET Rows, Begin(p, mode, requested, k, rows)
      PROVE  CacheInv'
    BY <1>3, CollectsIsSafe
<1>4. ASSUME NEW p \in CacheWriters, PublishGeneration(p) \/ Abandon(p)
      PROVE  CacheInv'
    BY <1>4, PublishIsSafe, AbandonIsSafe
<1>5. ASSUME NEW u \in Pagers,
             \/ NextPage(u)
             \/ \E table \in {"entries", "records"}, k \in PagedKinds : FirstPage(u, table, k)
      PROVE  CacheInv'
    BY <1>5, PagesIsSafe
<1>6. CASE SiteChanges
    BY <1>6, SiteChangesIsSafe
<1>7. \A rows \in {Rows} \cup {{r} : r \in Rows} : rows \in SUBSET Rows
    OBVIOUS
<1> QED BY <1>1, <1>2, <1>3, <1>4, <1>5, <1>6, <1>7 DEF CacheNext

(* However refreshes, lists, inspections and changes at Tableau overlap, a     *)
(* complete inventory and the catalog are what one collection saw, for any     *)
(* number of processes and rows.                                              *)
THEOREM InventoriesAreCollected == CacheSpec => []CompleteMeansCollected
<1>1. CacheInv => CompleteMeansCollected
    BY DEF CacheInv, CacheTyped, EntriesTrue, CatalogTrue, CompleteMeansCollected
<1> QED BY <1>1, CacheInvInit, CacheInvKept, PTL DEF CacheSpec

(* Whoever reads an inventory or the catalog to its last page has read one     *)
(* collection, however often it was replaced meanwhile.                       *)
THEOREM PagesAreConsistent == CacheSpec => []PagesAreOneSnapshot
<1>1. CacheInv => PagesAreOneSnapshot
    BY DEF CacheInv, Follows, PagesAreOneSnapshot
<1> QED BY <1>1, CacheInvInit, CacheInvKept, PTL DEF CacheSpec
=============================================================================
