-------------------------- MODULE CacheGenerations --------------------------
(* The local cache of one Tableau site (src/internal/cache): a SQLite         *)
(* database that commands of several processes fill and read without a common *)
(* lock.  A refresh collects a whole generation in a private stage and        *)
(* promotes it in one transaction; a complete list replaces the inventory of  *)
(* one kind; a filtered list or an inspection adds rows to it; a reader pages *)
(* through an inventory with one command per page.                            *)
(*                                                                            *)
(* A row is a version of a resource (0: no such row).  A transaction is one   *)
(* step; one that fails, or whose process dies, leaves the database as it was. *)
EXTENDS Naturals, Sequences, FiniteSets

CONSTANTS
    CacheWriters,   \* processes that refresh, list or inspect
    Pagers,         \* users that page through an inventory
    PagedKinds,     \* bound: the kinds they page through
    Requests,       \* bound: the scopes a refresh requests
    RowCount,       \* rows of a kind
    MaxVersion,     \* bound: versions of a resource at Tableau
    MaxChanges,     \* bound: changes at Tableau
    MaxPublished    \* bound: generations and inventories published

ASSUME CacheConstants ==
    /\ RowCount \in Nat \ {0} /\ MaxVersion \in Nat \ {0}
    /\ MaxChanges \in Nat /\ MaxPublished \in Nat
    /\ PagedKinds \subseteq {"project", "workbook"}

VARIABLES
    site,           \* Tableau: the version of each resource
    changes,        \* Tableau: number of changes so far
    schema,         \* is the database of this release's schema, or of an older one?
    generation,     \* the current generation: its ID, requested scopes, catalog records
    entries,        \* resource_entries
    snapshot,       \* resource_scope_snapshots: the inventory of each kind
    observed,       \* what was collected for each published ID
    writing,        \* the operation of each writer
    paging          \* the reads of each user

cacheVars == <<site, changes, schema, generation, entries, snapshot, observed, writing, paging>>

(* Workbooks stand for the content whose project is part of its row; all are  *)
(* in one project.                                                            *)
Kinds == {"project", "workbook"}
Rows == 1 .. RowCount
RowsOf(k) == IF k = "project" THEN {1} ELSE Rows
Versions == 0 .. MaxVersion
IDs == 0 .. MaxPublished
NoRows == [r \in Rows |-> 0]
Empty == [k \in Kinds |-> NoRows]
AllPresent == [k \in Kinds |-> [r \in Rows |-> IF r \in RowsOf(k) THEN 1 ELSE 0]]
NoWrite == [at |-> "idle", requested |-> {}, todo |-> {}, got |-> Empty]
NoPages == [at |-> "idle", table |-> "entries", kind |-> "project", id |-> 0, offset |-> 0, seen |-> <<>>]

CacheTypeOK ==
    /\ site \in [Kinds -> [Rows -> Versions]]
    /\ generation \in [id : IDs, requested : SUBSET Kinds, records : [Kinds -> [Rows -> Versions]]]
    /\ entries \in [Kinds -> [Rows -> Versions]]
    /\ snapshot \in [Kinds -> [id : IDs, complete : BOOLEAN]]
    /\ writing \in [CacheWriters -> [at : {"idle", "refresh", "list", "some"},
                        requested : SUBSET Kinds, todo : SUBSET Kinds, got : [Kinds -> [Rows -> Versions]]]]

CacheInit ==
    /\ site = AllPresent
    /\ changes = 0
    /\ schema \in {"current", "old"}
    /\ generation = [id |-> 0, requested |-> {}, records |-> Empty]
    /\ entries = IF schema = "old" THEN AllPresent ELSE Empty
    /\ snapshot = [k \in Kinds |-> [id |-> 0, complete |-> schema = "old"]]
    /\ observed = <<>>
    /\ writing = [p \in CacheWriters |-> NoWrite]
    /\ paging = [u \in Pagers |-> NoPages]

-----------------------------------------------------------------------------
(* Writers.                                                                   *)

(* PlanScopes: content is collected with the projects it refers to.           *)
Closure(requested) == IF "workbook" \in requested THEN Kinds ELSE requested

(* Hydrate or collectResourceInventory plan what they collect and read a first *)
(* scope.  A filtered list and an inspection read some rows of a kind.        *)
Read(p, plan, k, rows) ==
    /\ k \in plan.todo
    /\ plan.at # "some" => rows = Rows
    /\ writing' = [writing EXCEPT ![p] = [plan EXCEPT !.todo = @ \ {k},
            !.got[k] = [r \in Rows |-> IF r \in rows THEN site[k][r] ELSE 0]]]
    /\ UNCHANGED <<site, changes, schema, generation, entries, snapshot, observed, paging>>

Begin(p, mode, requested, k, rows) ==
    /\ writing[p].at = "idle"
    /\ mode # "refresh" => Cardinality(requested) = 1
    /\ Read(p, [NoWrite EXCEPT !.at = mode, !.requested = requested,
                    !.todo = IF mode = "some" THEN requested ELSE Closure(requested)], k, rows)

(* The pages of another scope arrive.                                         *)
Collect(p, k) == Read(p, writing[p], k, Rows)

Collected(p, mode) == writing[p].at = mode /\ writing[p].todo = {}
Done(p) == writing' = [writing EXCEPT ![p] = NoWrite]
NewID == Len(observed) + 1

(* A workbook whose project was not collected: it was created, or its project *)
(* deleted, between the two scopes.                                           *)
OutsideGeneration(got) == got["workbook"] # NoRows /\ got["project"][1] = 0

(* Mutant: the snapshot keeps its completeness although rows are added.       *)
AddRows(k, got) ==
    /\ entries' = [entries EXCEPT ![k] = [r \in Rows |-> IF got[r] # 0 THEN got[r] ELSE @[r]]]
    /\ UNCHANGED snapshot

(* UpsertResources: a row says nothing of the others, so the inventory is no  *)
(* longer complete.                                                           *)
UpsertResources(k, got) ==
    /\ entries' = [entries EXCEPT ![k] = [r \in Rows |-> IF got[r] # 0 THEN got[r] ELSE @[r]]]
    /\ snapshot' = IF got = NoRows THEN snapshot ELSE [snapshot EXCEPT ![k].complete = FALSE]

(* Publish, publishStaged and publishReady: the collected generation becomes  *)
(* the current one and replaces the inventories of the requested kinds.  A    *)
(* database of an older schema is rebuilt, which drops what it held.          *)
PublishGeneration(p) ==
    LET got == writing[p].got  requested == writing[p].requested
        Kept(k, table, none) == IF schema = "old" THEN none ELSE table[k]
    IN
    /\ Collected(p, "refresh") /\ ~OutsideGeneration(got) /\ NewID <= MaxPublished
    /\ schema' = "current"
    /\ generation' = [id |-> NewID, requested |-> requested, records |-> got]
    /\ entries' = [k \in Kinds |-> IF k \in requested THEN got[k] ELSE Kept(k, entries, NoRows)]
    /\ snapshot' = [k \in Kinds |-> IF k \in requested THEN [id |-> NewID, complete |-> TRUE]
                                    ELSE Kept(k, snapshot, [id |-> 0, complete |-> FALSE])]
    /\ observed' = Append(observed, got)
    /\ Done(p)
    /\ UNCHANGED <<site, changes, paging>>

(* ReplaceResourceScope: the inventory of one kind, unless rows of it had to  *)
(* be skipped.                                                                *)
ReplaceResourceScope(p, k) ==
    LET got == writing[p].got IN
    /\ Collected(p, "list") /\ writing[p].requested = {k}
    /\ ~OutsideGeneration(got) /\ schema = "current" /\ NewID <= MaxPublished
    /\ entries' = [entries EXCEPT ![k] = got[k]]
    /\ snapshot' = [snapshot EXCEPT ![k] = [id |-> NewID, complete |-> TRUE]]
    /\ observed' = Append(observed, [Empty EXCEPT ![k] = got[k]])
    /\ Done(p)
    /\ UNCHANGED <<site, changes, schema, generation, paging>>

SaveRows(p, k) ==
    /\ Collected(p, "some") /\ writing[p].requested = {k} /\ schema = "current"
    /\ UpsertResources(k, writing[p].got[k])
    /\ Done(p)
    /\ UNCHANGED <<site, changes, schema, generation, observed, paging>>

(* The collection fails, it is incomplete, the transaction is busy, or the    *)
(* process dies: nothing of it is published.                                  *)
Abandon(p) ==
    /\ writing[p].at # "idle" /\ Done(p)
    /\ UNCHANGED <<site, changes, schema, generation, entries, snapshot, observed, paging>>

-----------------------------------------------------------------------------
(* Readers: one page of one row per command.  A user reads once, at any time. *)

(* The rows in their stable order.                                            *)
Ordered(rows) ==
    LET present == {r \in Rows : rows[r] # 0}
        Nth(i) == CHOOSE r \in present : Cardinality({q \in present : q <= r}) = i
    IN [i \in 1 .. Cardinality(present) |-> <<Nth(i), rows[Nth(i)]>>]

(* What a list (table "entries") and a search (table "records") see of a kind. *)
Complete(table, k) ==
    /\ schema = "current"
    /\ IF table = "entries" THEN snapshot[k].complete ELSE k \in generation.requested

CurrentID(table, k) == IF table = "entries" THEN snapshot[k].id ELSE generation.id

CurrentRows(table, k) == Ordered(IF table = "entries" THEN entries[k] ELSE generation.records[k])

ShowPage(u, page, offset) ==
    LET rows == CurrentRows(page.table, page.kind) IN
    paging' = [paging EXCEPT ![u] = [page EXCEPT
        !.at = IF offset + 1 < Len(rows) THEN "more" ELSE "done",
        !.id = CurrentID(page.table, page.kind), !.offset = offset + 1,
        !.seen = IF offset < Len(rows) THEN Append(@, rows[offset + 1]) ELSE @]]

FirstPage(u, table, k) ==
    /\ paging[u].at = "idle" /\ Complete(table, k)
    /\ ShowPage(u, [NoPages EXCEPT !.table = table, !.kind = k], 0)
    /\ UNCHANGED <<site, changes, schema, generation, entries, snapshot, observed, writing>>

(* Mutant: the cursor is an offset only.                                      *)
AnyCursor(u) == Complete(paging[u].table, paging[u].kind)

(* The cursor names the generation it continues.                              *)
CursorValid(u) ==
    /\ Complete(paging[u].table, paging[u].kind)
    /\ CurrentID(paging[u].table, paging[u].kind) = paging[u].id

NextPage(u) ==
    /\ paging[u].at = "more"
    /\ IF CursorValid(u) THEN ShowPage(u, paging[u], paging[u].offset)
       ELSE paging' = [paging EXCEPT ![u] = [NoPages EXCEPT !.at = "rejected"]]
    /\ UNCHANGED <<site, changes, schema, generation, entries, snapshot, observed, writing>>

-----------------------------------------------------------------------------
(* A workbook is created, changed or deleted at Tableau, or the project with   *)
(* all its workbooks is deleted.                                              *)
SiteChanges ==
    /\ changes < MaxChanges /\ site["project"][1] # 0
    /\ \/ \E r \in Rows, v \in Versions :
            site["workbook"][r] # v /\ site' = [site EXCEPT !["workbook"][r] = v]
       \/ site' = Empty
    /\ changes' = changes + 1
    /\ UNCHANGED <<schema, generation, entries, snapshot, observed, writing, paging>>

CacheNext ==
    \/ \E p \in CacheWriters :
        \/ \E mode \in {"refresh", "list", "some"}, requested \in SUBSET Kinds \ {{}}, k \in Kinds :
            /\ mode = "refresh" => requested \in Requests
            /\ \E rows \in {Rows} \cup {{r} : r \in Rows} : Begin(p, mode, requested, k, rows)
        \/ \E k \in Kinds : Collect(p, k) \/ ReplaceResourceScope(p, k) \/ SaveRows(p, k)
        \/ PublishGeneration(p) \/ Abandon(p)
    \/ \E u \in Pagers :
        \/ \E table \in {"entries", "records"}, k \in PagedKinds : FirstPage(u, table, k)
        \/ NextPage(u)
    \/ SiteChanges

CacheSpec == CacheInit /\ [][CacheNext]_cacheVars

-----------------------------------------------------------------------------
(* A complete inventory, and the catalog, are exactly what one collection saw, *)
(* however refreshes, lists and inspections overlapped; and every workbook of *)
(* the catalog has its project there.                                         *)
CompleteMeansCollected ==
    /\ CacheTypeOK
    /\ \A k \in Kinds : schema = "current" /\ snapshot[k].complete => entries[k] = observed[snapshot[k].id][k]
    /\ generation.id # 0 =>
        generation.records = observed[generation.id] /\ ~OutsideGeneration(generation.records)

(* docs/architecture/resources-and-state.md: "Changed snapshots invalidate    *)
(* continuation rather than combine observations from different generations": *)
(* whoever reads to the last page has read one collection, no row of it twice *)
(* and none left out.                                                         *)
PagesAreOneSnapshot ==
    \A u \in Pagers : paging[u].at = "done" =>
        paging[u].seen = Ordered(observed[paging[u].id][paging[u].kind])
=============================================================================
