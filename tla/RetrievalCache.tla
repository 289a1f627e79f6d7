--------------------------- MODULE RetrievalCache ---------------------------
(***************************************************************************)
(* RetrievalService.search and its Redis cache, with the ingestion worker's *)
(* and the API's changes to the index.  Cached results are keyed by an index*)
(* version, which a writer increments after it changed the index in Milvus. *)
(* Every await is a point where the others may act.                         *)
(*                                                                          *)
(* One query is modelled: another query or top_k has other keys.  A result  *)
(* is the set of documents it has chunks of.                                *)
(***************************************************************************)
EXTENDS Integers

CONSTANTS Docs,         \* documents that match the query
          Searchers,    \* concurrent searches
          Writers,      \* concurrent ingestion attempts and delete requests
          TTL,          \* settings.rag_cache_ttl, in ticks
          RedisFails,   \* may a call to Redis fail?
          MaxChanges    \* bound: changes of the index

ASSUME CacheAssumption ==
    /\ TTL \in Nat \ {0}
    /\ RedisFails \in BOOLEAN
    /\ MaxChanges \in Nat

VARIABLES index,      \* Milvus: the documents that are searchable
          version,    \* Redis: rag_index_version_key
          cache,      \* Redis: the results stored under each version
          searcher,   \* each search in progress
          writer,     \* each writer's unfinished change
          changes,    \* how often the index was changed
          dirty       \* history: did the index change since the last increment?

vars == <<index, version, cache, searcher, writer, changes, dirty>>

Pcs == {"idle", "get_entry", "search", "set_version", "set_entry", "done"}

\* "clean" is history: the index has not changed since the search read it.
Searches == [pc : Pcs, version : Nat, docs : SUBSET Docs, clean : BOOLEAN]

IdleSearch == [pc |-> "idle", version |-> 0, docs |-> {}, clean |-> FALSE]

Entries == [version : Nat, docs : SUBSET Docs, clean : BOOLEAN, ttl : 1..TTL]

NoChange == "none"

Init ==
    /\ index = {}
    /\ version = 0
    /\ cache = {}
    /\ searcher = [s \in Searchers |-> IdleSearch]
    /\ writer = [w \in Writers |-> NoChange]
    /\ changes = 0
    /\ dirty = FALSE

----------------------------------------------------------------------------
(* Writers.                                                                 *)

Overtaken == [s \in Searchers |-> [searcher[s] EXCEPT !.clean = FALSE]]

Change(w, from, to, docs) ==
    /\ writer[w] = from
    /\ changes < MaxChanges
    /\ index' = docs
    /\ writer' = [writer EXCEPT ![w] = to]
    /\ searcher' = Overtaken
    /\ changes' = changes + 1
    /\ dirty' = TRUE
    /\ UNCHANGED <<version, cache>>

\* IngestionKernel.ingest inserts a document's chunks.
InsertDoc(w, d) == d \notin index /\ Change(w, NoChange, d, index \union {d})

\* The insert is taken back before the increment: cleanup_chunks after a cancellation.
Withdraw(w, d) == d \in index /\ Change(w, d, "deleted", index \ {d})

\* The API's delete, or cleanup_chunks, deletes them.
DeleteDoc(w, d) == d \in index /\ Change(w, NoChange, "deleted", index \ {d})

\* Mutant: the version is not incremented.
SameVersion(v) == v

NextVersion(v) == v + 1

IncrementIndexVersion(w) ==
    /\ writer[w] # NoChange
    /\ version' = NextVersion(version)
    /\ writer' = [writer EXCEPT ![w] = NoChange]
    /\ dirty' = FALSE
    /\ UNCHANGED <<index, cache, searcher, changes>>

\* Redis cannot be reached: cleanup_chunks ignores it, delete answers with a 503, and
\* neither tries again.
IncrementFails(w) ==
    /\ RedisFails
    /\ writer[w] # NoChange
    /\ writer' = [writer EXCEPT ![w] = NoChange]
    /\ UNCHANGED <<index, version, cache, searcher, changes, dirty>>

----------------------------------------------------------------------------
(* RetrievalService.search.                                                 *)

\* RetrievalCache.get reads the version, and then the entry.
GetVersion(s) ==
    /\ searcher[s].pc = "idle"
    /\ searcher' = [searcher EXCEPT ![s] =
           [pc |-> "get_entry", version |-> version, docs |-> {}, clean |-> FALSE]]
    /\ UNCHANGED <<index, version, cache, writer, changes, dirty>>

Hits(v) == {c \in cache : c.version = v}

GetEntry(s) ==
    /\ searcher[s].pc = "get_entry"
    /\ \/ /\ Hits(searcher[s].version) = {}
          /\ searcher' = [searcher EXCEPT ![s].pc = "search"]
       \/ \E c \in Hits(searcher[s].version) :
             searcher' = [searcher EXCEPT ![s].pc = "done", ![s].docs = c.docs]
    /\ UNCHANGED <<index, version, cache, writer, changes, dirty>>

\* Embed the query and search Milvus.
HybridSearch(s) ==
    /\ searcher[s].pc = "search"
    /\ searcher' = [searcher EXCEPT ![s].pc = "set_version", ![s].docs = index, ![s].clean = TRUE]
    /\ UNCHANGED <<index, version, cache, writer, changes, dirty>>

\* RetrievalCache.set reads the version again, which may have been incremented.
SetVersion(s) ==
    /\ searcher[s].pc = "set_version"
    /\ searcher' = [searcher EXCEPT ![s].pc = "set_entry", ![s].version = version]
    /\ UNCHANGED <<index, version, cache, writer, changes, dirty>>

Stored(s) == [version |-> searcher[s].version, docs |-> searcher[s].docs,
              clean |-> searcher[s].clean, ttl |-> TTL]

SetEntry(s) ==
    /\ searcher[s].pc = "set_entry"
    /\ cache' = (cache \ Hits(searcher[s].version)) \union {Stored(s)}
    /\ searcher' = [searcher EXCEPT ![s].pc = "done"]
    /\ UNCHANGED <<index, version, writer, changes, dirty>>

\* The answer is used, or a call failed and there is no answer.
EndSearch(s) ==
    /\ \/ searcher[s].pc = "done"
       \/ RedisFails /\ searcher[s].pc # "idle"
    /\ searcher' = [searcher EXCEPT ![s] = IdleSearch]
    /\ UNCHANGED <<index, version, cache, writer, changes, dirty>>

\* Mutant: an entry is stored without its time to live.
NeverExpired(entries) == entries

Expired(entries) ==
    {[version |-> c.version, docs |-> c.docs, clean |-> c.clean, ttl |-> c.ttl - 1] :
        c \in {e \in entries : e.ttl > 1}}

Tick ==
    /\ cache' = Expired(cache)
    /\ UNCHANGED <<index, version, searcher, writer, changes, dirty>>

----------------------------------------------------------------------------

SearchStep(s) ==
    \/ GetEntry(s) \/ HybridSearch(s) \/ SetVersion(s) \/ SetEntry(s) \/ EndSearch(s)

WriterStep(w) ==
    \/ \E d \in Docs : InsertDoc(w, d) \/ Withdraw(w, d) \/ DeleteDoc(w, d)
    \/ IncrementIndexVersion(w) \/ IncrementFails(w)

Next ==
    \/ \E s \in Searchers : GetVersion(s) \/ SearchStep(s)
    \/ \E w \in Writers : WriterStep(w)
    \/ Tick

Spec == Init /\ [][Next]_vars

\* Searches that began go on, and time passes.
Fairness == (\A s \in Searchers : WF_vars(SearchStep(s))) /\ WF_vars(Tick)

FairSpec == Spec /\ Fairness

----------------------------------------------------------------------------
(* Properties.                                                              *)

\* The type invariant.
TypeOK ==
    /\ index \subseteq Docs
    /\ version \in Nat
    /\ cache \subseteq Entries
    /\ searcher \in [Searchers -> Searches]
    /\ writer \in [Writers -> Docs \union {NoChange, "deleted"}]
    /\ changes \in 0..MaxChanges
    /\ dirty \in BOOLEAN

\* What readers find is the index as it is, unless a change has not been announced yet or
\* the entry was stored by a search that the change overtook.
CleanHitsCurrent ==
    ~dirty => \A c \in Hits(version) : c.clean => c.docs = index

\* A deleted document is forgotten for good, even when the increment was lost or a search
\* stored an old result late: entries expire, and a hit is never stored again.
DeletedForgotten ==
    \A d \in Docs :
        <>[](d \notin index) => <>[](\A c \in Hits(version) : d \notin c.docs)
=============================================================================
