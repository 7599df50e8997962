------------------------------ MODULE Inventory ------------------------------
(***************************************************************************)
(* The tc_inventory plugin (plugins/inventory/tc_inventory.py) on the      *)
(* shared inventory layer (plugins/module_utils/inventory.py) and its      *)
(* Paginator (plugins/module_utils/paging.py): runs of parse(), one after  *)
(* another, over one cache.                                                *)
(*                                                                         *)
(* One step is one API call.  The account is external: its lists change    *)
(* between two calls, and the list APIs differ in what they honour.        *)
(* Resources are ids; of an entry only its id, its region and its sources  *)
(* are kept, and hosts are named after the id.                             *)
(*                                                                         *)
(* Init, Next, Spec and vars carry Inventory in their names, and the       *)
(* program counter is mode, so that one module can extend this one, the    *)
(* retry loop and the waits.                                               *)
(***************************************************************************)
EXTENDS Integers, Sequences, FiniteSets, Functions, SequencesExt

CONSTANTS
  Ids,          \* resources
  Clusters,     \* TKE clusters
  Regions,      \* regions, as strings
  Flat,         \* sources listed in one walk; "tke" lists nodes by cluster
  PageSize,     \* PAGE_SIZE
  Filters,      \* filters a source may have; NoFilter is one of them
  Shows,        \* the ids a filter lets through
  Scripts,      \* sequences of runs, each with its own options
  Worlds,       \* accounts a script may find: [Listing -> Seq(Ids)]
  Apis,         \* how the list calls behave
  MaxListChanges,   \* bound: changes of the lists in a behaviour
  NoFilter, None

Sources == Flat \cup {"tke"}
Listing == [region : Regions, source : Flat, cluster : {None}]
             \cup [region : Regions, source : {"tke"}, cluster : Clusters \cup {None}]
Rows(l) == IF l.source = "tke" /\ l.cluster = None THEN Clusters ELSE Ids
Api     == [honours : BOOLEAN,    \* Offset
            counts  : BOOLEAN,    \* reports TotalCount
            cap     : Nat \ {0}]  \* rows it serves at most, whatever Limit says
Run     == [path : {"a", "b"}, sources : Seq(Sources \cup {"unknown"}), regions : Seq(Regions),
            filters : [Sources -> Filters], dedupe : BOOLEAN, caching : BOOLEAN,
            cache : BOOLEAN]

ASSUME InventoryAssumption ==
  /\ PageSize \in Nat \ {0} /\ MaxListChanges \in Nat /\ None \notin Clusters
  /\ NoFilter \in Filters
  /\ Shows \in [Filters -> SUBSET (Ids \cup Clusters)] /\ Shows[NoFilter] = Ids \cup Clusters
  /\ Scripts \subseteq Seq(Run)
  /\ \A s \in Scripts : \A r \in DOMAIN s : IsInjective(s[r].regions)  \* no region twice
  /\ Worlds \subseteq [Listing -> Seq(Ids \cup Clusters)]
  /\ \A w \in Worlds, l \in Listing : w[l] \in Seq(Rows(l)) /\ IsInjective(w[l])
  /\ Apis \subseteq Api

VARIABLES
  script,   \* the runs
  api,      \* how the list calls behave
  world,    \* the account
  listChanges, \* changes so far
  run,      \* the run that is in progress or next
  mode,     \* "idle" | "walk"
  todo,     \* listings still to walk; the first is being walked
  walk,     \* the Paginator
  entries,  \* what the run has fetched
  cache,    \* the plugin's cache
  shown,    \* the inventory each run made, or how it failed
  fetches   \* fetches that were completed (history)

inventoryVars == <<script, api, world, listChanges, run, mode, todo, walk, entries, cache, shown,
                   fetches>>

Fresh == [items |-> <<>>, offset |-> 0, previous |-> <<>>, total |-> -1,
          began |-> <<>>, moved |-> FALSE]

InventoryInit ==
  /\ script \in Scripts /\ api \in Apis /\ world \in Worlds
  /\ listChanges = 0 /\ run = 1 /\ mode = "idle"
  /\ todo = <<>> /\ walk = Fresh /\ entries = <<>>
  /\ cache = <<>> /\ shown = [r \in DOMAIN script |-> <<>>] /\ fetches = {}

This == script[run]

\* The elements of s at the positions P, in order (SelectSeq selects by element).
Pick(s, P) ==
  [m \in 1 .. Cardinality(P) |-> s[CHOOSE n \in P : Cardinality({k \in P : k <= n}) = m]]

\* resolve_sources: every source once, in the order given.
Resolved(names) ==
  Pick(names, {n \in DOMAIN names : \A m \in 1 .. n - 1 : names[m] # names[n]})

\* The listings of _fetch_all: every source in every region.
Plan(r) ==
  LET specs == Resolved(r.sources)
      count == Len(specs)
  IN  [n \in 1 .. Len(r.regions) * count |->
        [region |-> r.regions[1 + ((n - 1) \div count)],
         source |-> specs[1 + ((n - 1) % count)], cluster |-> None]]

\* What resolve_sources and _source_filters refuse.
Refused(r) ==
  \/ r.sources = <<>> \/ "unknown" \in ToSet(r.sources) \/ r.regions = <<>>
  \/ \E s \in Sources : r.filters[s] # NoFilter /\ s \notin ToSet(r.sources)

\* Mutant: the key of Cacheable.get_cache_key.
KeyOfFile(r) == [path |-> r.path]

\* build_cache_key.
CacheKey(r) ==
  [path |-> r.path, sources |-> Resolved(r.sources), regions |-> r.regions,
   filters |-> r.filters, dedupe |-> r.dedupe]

UseCache(r) == r.caching /\ r.cache

-----------------------------------------------------------------------------
(* merge_entries.                                                          *)

\* Mutant: the first source is the only one.
FoldFirst(merged, e) ==
  IF \E n \in DOMAIN merged : merged[n].id = e.id THEN merged ELSE Append(merged, e)

\* One more entry: folded into the one with its id, or at the end.
Fold(merged, e) ==
  IF \E n \in DOMAIN merged : merged[n].id = e.id
  THEN [n \in DOMAIN merged |->
          IF merged[n].id = e.id
          THEN [merged[n] EXCEPT !.sources = @ \o SelectSeq(e.sources, LAMBDA s : ~Contains(@, s))]
          ELSE merged[n]]
  ELSE Append(merged, e)

MergeEntries(es) == FoldLeft(Fold, <<>>, es)

\* {region: entries} of a fetch, merged region by region.
Results(r, es) ==
  [g \in ToSet(r.regions) |->
     LET mine == SelectSeq(es, LAMBDA e : e.region = g)
     IN  IF r.dedupe THEN MergeEntries(mine) ELSE mine]

-----------------------------------------------------------------------------
(* The Paginator.                                                          *)

Least(a, b) == IF a < b THEN a ELSE b

Visible(l) ==
  Pick(world[l], {n \in DOMAIN world[l] : world[l][n] \in Shows[This.filters[l.source]]})

Reply(l, offset) ==
  LET rows == Visible(l)
      from == IF api.honours THEN offset ELSE 0
      to   == Least(from + Least(PageSize, api.cap), Len(rows))
  IN  [batch |-> IF from < to THEN SubSeq(rows, from + 1, to) ELSE <<>>,
       total |-> IF api.counts THEN Len(rows) ELSE -1]

\* Mutant: the offset moves by what was asked for.
TurnedByLimit(w, reply) ==
  [w EXCEPT !.items = @ \o reply.batch, !.offset = @ + PageSize,
            !.previous = reply.batch, !.total = IF @ = -1 THEN reply.total ELSE @,
            !.began = IF w.offset = 0 /\ w.total = -1 THEN Visible(Head(todo)) ELSE @]

\* The walk after one more page.
Turned(w, reply) ==
  [w EXCEPT !.items = @ \o reply.batch, !.offset = @ + Len(reply.batch),
            !.previous = reply.batch, !.total = IF @ = -1 THEN reply.total ELSE @,
            !.began = IF w.offset = 0 /\ w.total = -1 THEN Visible(Head(todo)) ELSE @]

\* A page that is served twice.
Repeated(w, reply) == reply.batch # <<>> /\ reply.batch = w.previous

\* Mutant: only the total ends a walk that has one.
ByTotal(w, reply) ==
  IF w.total # -1 THEN Len(w.items) >= w.total ELSE Len(reply.batch) < PageSize

\* The walk is over: an empty page, the total reached, a short page.
Complete(w, reply) ==
  \/ reply.batch = <<>>
  \/ IF w.total # -1 THEN Len(w.items) >= w.total ELSE Len(reply.batch) < PageSize

-----------------------------------------------------------------------------
(* parse.                                                                  *)

Ends(how, results) ==
  /\ shown' = [shown EXCEPT ![run] = <<[how |-> how, results |-> results]>>]
  /\ run' = run + 1
  /\ mode' = "idle"

\* Options are checked; the cache answers, or the walk begins.
Parse ==
  /\ mode = "idle" /\ run <= Len(script)
  /\ IF Refused(This) THEN Ends("refused", <<>>) /\ UNCHANGED <<todo, walk, entries>>
     ELSE IF UseCache(This) /\ CacheKey(This) \in DOMAIN cache
          THEN Ends("cached", cache[CacheKey(This)]) /\ UNCHANGED <<todo, walk, entries>>
     ELSE /\ mode' = "walk" /\ todo' = Plan(This) /\ walk' = Fresh /\ entries' = <<>>
          /\ UNCHANGED <<run, shown>>
  /\ UNCHANGED <<script, api, world, listChanges, cache, fetches>>

\* What a finished walk adds: the nodes of every cluster are still to walk, or
\* its rows are entries (describe_entry).
Followed(l, w) ==
  IF l.source = "tke" /\ l.cluster = None
  THEN [todo |-> [n \in DOMAIN w.items |-> [l EXCEPT !.cluster = w.items[n]]] \o Tail(todo),
        entries |-> entries]
  ELSE [todo |-> Tail(todo),
        entries |-> entries \o [n \in DOMAIN w.items |->
                                  [id |-> w.items[n], region |-> l.region,
                                   sources |-> <<l.source>>]]]

\* One page; the last page of the last walk completes the fetch, which is cached.
Page ==
  /\ mode = "walk"
  /\ \E reply \in {Reply(Head(todo), walk.offset)} : \E w \in {Turned(walk, reply)} :
       \/ /\ Repeated(walk, reply)
          /\ Ends("repeated", <<>>) /\ UNCHANGED <<todo, walk, entries, cache, fetches>>
       \/ /\ ~Repeated(walk, reply) /\ ~Complete(w, reply)
          /\ walk' = w /\ UNCHANGED <<run, mode, todo, entries, cache, shown, fetches>>
       \/ /\ ~Repeated(walk, reply) /\ Complete(w, reply)
          /\ walk' = Fresh
          /\ \E next \in {Followed(Head(todo), w)} :
               /\ todo' = next.todo /\ entries' = next.entries
               /\ IF next.todo # <<>> THEN UNCHANGED <<run, mode, cache, shown, fetches>>
                  ELSE \E found \in {Results(This, next.entries)} :
                    /\ cache' = IF UseCache(This)
                                THEN [k \in DOMAIN cache \cup {CacheKey(This)} |->
                                        IF k = CacheKey(This) THEN found ELSE cache[k]]
                                ELSE cache
                    /\ fetches' = fetches \cup {[by |-> run, results |-> found]}
                    /\ Ends("fetched", found)
  /\ UNCHANGED <<script, api, world, listChanges>>

\* A call fails: a page, the node pools of a cluster, the credentials.
Fail ==
  /\ mode = "walk"
  /\ Ends("failed", <<>>)
  /\ UNCHANGED <<script, api, world, listChanges, todo, walk, entries, cache, fetches>>

\* The account: a row is added at an end of a list, or goes.
ListChange(l) ==
  /\ listChanges < MaxListChanges
  /\ listChanges' = listChanges + 1
  /\ \/ \E i \in Rows(l) :
          /\ ~Contains(world[l], i)
          /\ world' \in {[world EXCEPT ![l] = Append(@, i)], [world EXCEPT ![l] = <<i>> \o @]}
     \/ \E n \in DOMAIN world[l] : world' = [world EXCEPT ![l] = RemoveAt(@, n)]
  /\ walk' = IF todo # <<>> /\ l = Head(todo)
             THEN [walk EXCEPT !.moved = @ \/ ~IsPrefix(world[l], world'[l])] ELSE walk
  /\ UNCHANGED <<script, api, run, mode, todo, entries, cache, shown, fetches>>

InventoryNext == Parse \/ Page \/ Fail \/ \E l \in Listing : ListChange(l)

InventorySpec == InventoryInit /\ [][InventoryNext]_inventoryVars
FairInventorySpec == InventorySpec /\ WF_inventoryVars(Parse \/ Page)

-----------------------------------------------------------------------------
(* Properties.                                                             *)

\* A step of a walk of a list that so far has only grown at its end.
WalksInFull ==
  mode = "walk" /\ ~walk.moved =>
    LET rows == Visible(Head(todo))
        had  == IF walk.began = <<>> THEN rows ELSE walk.began
        got  == Turned(walk, Reply(Head(todo), walk.offset)).items
        fair == api.honours /\ (api.counts \/ api.cap >= PageSize)
    IN  /\ todo' # todo =>
             IsInjective(got) /\ (fair => IsPrefix(had, got) /\ IsPrefix(got, rows))
        /\ fair => shown'[run] = shown[run] \/ shown'[run][1].how # "repeated"

\* A list that only grows at its end while it is walked yields each row once, even
\* if the API ignores Offset; it is walked in full, and never taken for one whose
\* API ignores Offset, if the API reports a total or serves all the rows asked for.
WalkedInFull == [][WalksInFull]_inventoryVars

\* With dedupe, a resource is one host of its region, and the host names every
\* source that listed it, each once.
OneHostEach ==
  [][\A r \in DOMAIN script :
       shown'[r] # shown[r] /\ shown'[r][1].how = "fetched" /\ script[r].dedupe =>
         \A g \in ToSet(script[r].regions) :
           LET hosts == shown'[r][1].results[g]
               es    == {e \in ToSet(entries') : e.region = g}
           IN  /\ {hosts[n].id : n \in DOMAIN hosts} = {e.id : e \in es}
               /\ \A m, n \in DOMAIN hosts : hosts[m].id = hosts[n].id => m = n
               /\ \A n \in DOMAIN hosts :
                    /\ IsInjective(hosts[n].sources)
                    /\ ToSet(hosts[n].sources) =
                         {s \in Sources : \E e \in es : e.id = hosts[n].id /\ s = e.sources[1]}]_inventoryVars

\* What a run asks of the account, however its sources are written.
Query(r) == <<r.path, Plan(r), r.filters, r.dedupe>>

\* What a run shows was fetched to the end for the same query, by the run itself
\* or, if the cache may answer, by an earlier one whose cache was on: a failed
\* walk leaves nothing behind, and a changed query is a miss.
ServedOwn ==
  \A r \in DOMAIN script :
    shown[r] # <<>> /\ shown[r][1].how \in {"fetched", "cached"} =>
      \E f \in fetches :
        /\ f.results = shown[r][1].results
        /\ \/ f.by = r
           \/ /\ UseCache(script[r]) /\ UseCache(script[f.by])
              /\ Query(script[r]) = Query(script[f.by])

\* Every run ends: no reply, and no change of a list, makes a walk endless.
EveryRunEnds == <>(run > Len(script))

=============================================================================
