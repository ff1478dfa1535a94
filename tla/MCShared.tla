------------------------------ MODULE MCShared ------------------------------
(* What the commands of one user share: a credential and the cache of a site. *)
(* A behaviour runs the scene that its initial state selects, and TLC         *)
(* explores them all; the variables of the others keep one fixed value.  In   *)
(* "sessions" two commands share the PAT p1, through the same stored          *)
(* reference or through environment variables; in "expiry" they only reuse    *)
(* sessions, which end by themselves; in "replaced PAT" the user replaces the *)
(* PAT of the reference while one command runs.  In "cache" the operations of *)
(* two writers overlap; in "pages" one runs after the other, while a user     *)
(* reads.                                                                     *)
EXTENDS CommandSessions, CacheGenerations, TLC

CONSTANTS s1, r1, p1

RefreshRequests == {{"workbook"}, {"project", "workbook"}}

VARIABLE scene

allVars == <<scene, sessionVars, cacheVars>>

OneReference == r1 :> s1
Stored == [site |-> s1, source |-> r1]
SharedPAT == {Stored, [site |-> s1, source |-> Environment]}

TwoCommands == scene \in {"sessions", "expiry"}
Sessions == TwoCommands \/ scene = "replaced PAT"
SessionOnly(A) == Sessions /\ A /\ UNCHANGED <<scene, cacheVars>>
CacheOnly(A) == ~Sessions /\ A /\ UNCHANGED <<scene, sessionVars>>

SharedInit ==
    /\ scene \in {"sessions", "expiry", "replaced PAT", "cache", "pages"}
    /\ SessionInit /\ CacheInit
    /\ bound[r1] = p1
    /\ Sessions => schema = "current"

SharedNext ==
    \/ \E c \in Commands, g \in SharedPAT, mode \in Modes :
        /\ ~TwoCommands => g = Stored /\ \A d \in Others(c) : known[d] = NothingKnown
        /\ scene = "expiry" => mode = "reuse"
        /\ SessionOnly(Start(c, g, mode))
        /\ TwoCommands => known'[c][g] = p1
    \/ \E c \in Commands, g \in SharedPAT : SessionOnly(Rejected(c, g)) \/ SessionOnly(Step(c, g))
    \/ \E c \in Commands :
        \/ SessionOnly(Suspend(c)) \/ SessionOnly(Close(c))
        \/ scene # "expiry" /\ SessionOnly(Crash(c))
        \/ SessionOnly(Run(c))
    \/ \E p \in PATs : scene = "replaced PAT" /\ SessionOnly(ReplacePAT(r1, p))
    \/ \E p \in PATs : scene # "sessions" /\ SessionOnly(Expire(p))
    \/ \E p \in CacheWriters :
        \/ \E mode \in {"refresh", "list", "some"}, requested \in SUBSET Kinds \ {{}}, k \in Kinds :
            /\ scene = "pages" => \A q \in CacheWriters : writing[q] = NoWrite
            /\ mode = "refresh" => requested \in Requests
            /\ \E rows \in {Rows} \cup {{r} : r \in Rows} :
                CacheOnly(Begin(p, mode, requested, k, rows))
        \/ \E k \in Kinds :
            \/ CacheOnly(Collect(p, k)) \/ CacheOnly(ReplaceResourceScope(p, k))
            \/ CacheOnly(SaveRows(p, k))
        \/ CacheOnly(PublishGeneration(p)) \/ CacheOnly(Abandon(p))
    \/ \E u \in Pagers :
        \/ \E table \in {"entries", "records"}, k \in PagedKinds :
            scene = "pages" /\ CacheOnly(FirstPage(u, table, k))
        \/ CacheOnly(NextPage(u))
    \/ CacheOnly(SiteChanges)

SharedSpec == SharedInit /\ [][SharedNext]_allVars


(* The writers of the cache are the same commands.                            *)
Symmetric == Permutations(Commands)
=============================================================================
