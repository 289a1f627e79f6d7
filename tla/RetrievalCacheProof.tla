------------------------- MODULE RetrievalCacheProof -------------------------
(***************************************************************************)
(* The safety invariants of module RetrievalCache for any documents,        *)
(* searches, writers, TTL and number of changes.                            *)
(***************************************************************************)
EXTENDS RetrievalCache, TLAPS

\* Nothing is stored, or about to be stored, under a version to come.
PastVersions ==
    /\ \A c \in cache : c.version <= version
    /\ \A s \in Searchers : searcher[s].version <= version

\* A search that read the index, and that no change overtook since, holds the index.
CleanSearches ==
    \A s \in Searchers : searcher[s].clean =>
        /\ searcher[s].docs = index
        /\ searcher[s].pc \in {"set_version", "set_entry", "done"}

\* CleanHitsCurrent is not inductive: a stored entry is as good as the search that stores
\* it, and an increment makes a version current that must have no entries yet.
IInv == TypeOK /\ PastVersions /\ CleanSearches /\ CleanHitsCurrent

LEMMA InitIInv == Init => IInv
<1> SUFFICES ASSUME Init PROVE IInv
  OBVIOUS
<1>1. TypeOK
  <2>1. IdleSearch \in Searches
    BY DEF IdleSearch, Searches, Pcs
  <2>2. version \in Nat /\ changes \in 0..MaxChanges
    BY CacheAssumption DEF Init
  <2>3. dirty \in BOOLEAN
    BY DEF Init
  <2>4. QED
    BY <2>1, <2>2, <2>3 DEF Init, TypeOK
<1>2. PastVersions /\ CleanSearches /\ CleanHitsCurrent
  BY DEF Init, PastVersions, CleanSearches, CleanHitsCurrent, Hits, IdleSearch
<1>3. QED
  BY <1>1, <1>2 DEF IInv

\* A change of the index makes no search clean and leaves its version alone.
LEMMA ChangePreserves ==
    ASSUME IInv, NEW w \in Writers, NEW docs \in SUBSET Docs,
           NEW from, NEW to \in Docs \union {"deleted"}, Change(w, from, to, docs)
    PROVE  IInv'
<1>1. \A s \in Searchers : /\ searcher'[s] \in Searches
                           /\ searcher'[s].version = searcher[s].version
                           /\ ~searcher'[s].clean
  BY DEF IInv, TypeOK, Searches, Change, Overtaken
<1>2. searcher' \in [Searchers -> Searches]
  BY <1>1 DEF Change, Overtaken
<1>3. TypeOK'
  BY <1>2, CacheAssumption DEF IInv, TypeOK, Change
<1>4. PastVersions' /\ CleanSearches' /\ CleanHitsCurrent'
  BY <1>1 DEF IInv, PastVersions, CleanSearches, CleanHitsCurrent, Change
<1>5. QED
  BY <1>3, <1>4 DEF IInv

LEMMA WriterPreserves ==
    ASSUME IInv, NEW w \in Writers, WriterStep(w)
    PROVE  IInv'
<1>1. ASSUME NEW d \in Docs, InsertDoc(w, d) \/ Withdraw(w, d) \/ DeleteDoc(w, d) PROVE IInv'
  <2>1. index \union {d} \in SUBSET Docs /\ index \ {d} \in SUBSET Docs
    BY DEF IInv, TypeOK
  <2>2. QED
    BY <1>1, <2>1, ChangePreserves DEF InsertDoc, Withdraw, DeleteDoc
<1>2. CASE IncrementIndexVersion(w)
  <2>1. TypeOK'
    <3>1. writer' \in [Writers -> Docs \union {NoChange, "deleted"}]
      BY <1>2 DEF IInv, TypeOK, IncrementIndexVersion
    <3>2. version' \in Nat
      BY <1>2 DEF IInv, TypeOK, IncrementIndexVersion, NextVersion
    <3>3. dirty' \in BOOLEAN
      BY <1>2 DEF IncrementIndexVersion
    <3>4. QED
      BY <1>2, <3>1, <3>2, <3>3 DEF IInv, TypeOK, IncrementIndexVersion
  <2>2. PastVersions' /\ CleanSearches'
    BY <1>2 DEF IInv, TypeOK, Entries, Searches, PastVersions, CleanSearches,
       IncrementIndexVersion, NextVersion
  <2>3. Hits(version)' = {}
    BY <1>2 DEF IInv, TypeOK, Entries, PastVersions, IncrementIndexVersion, NextVersion, Hits
  <2>4. QED
    BY <2>1, <2>2, <2>3 DEF IInv, CleanHitsCurrent
<1>3. CASE IncrementFails(w)
  BY <1>3 DEF IInv, TypeOK, PastVersions, CleanSearches, CleanHitsCurrent, Hits, IncrementFails
<1>4. QED
  BY <1>1, <1>2, <1>3 DEF WriterStep

\* A search's step other than storing its result.
LEMMA ReaderPreserves ==
    ASSUME IInv, NEW s \in Searchers,
           searcher' \in [Searchers -> Searches],
           \A t \in Searchers \ {s} : searcher'[t] = searcher[t],
           searcher'[s].version <= version,
           searcher'[s].clean => /\ searcher'[s].docs = index
                                 /\ searcher'[s].pc \in {"set_version", "set_entry", "done"},
           UNCHANGED <<index, version, cache, writer, changes, dirty>>
    PROVE  IInv'
<1>1. TypeOK'
  BY DEF IInv, TypeOK
<1>2. PastVersions' /\ CleanSearches' /\ CleanHitsCurrent'
  BY DEF IInv, TypeOK, PastVersions, CleanSearches, CleanHitsCurrent, Hits
<1>3. QED
  BY <1>1, <1>2 DEF IInv

LEMMA SearchPreserves ==
    ASSUME IInv, NEW s \in Searchers, GetVersion(s) \/ SearchStep(s)
    PROVE  IInv'
<1>1. /\ searcher \in [Searchers -> Searches] /\ searcher[s] \in Searches
      /\ searcher[s].version <= version /\ version \in Nat
      /\ searcher[s].clean => /\ searcher[s].docs = index
                              /\ searcher[s].pc \in {"set_version", "set_entry", "done"}
      /\ index \subseteq Docs /\ cache \subseteq Entries
  BY DEF IInv, TypeOK, PastVersions, CleanSearches
<1>2. CASE GetVersion(s)
  <2> DEFINE q == [pc |-> "get_entry", version |-> version, docs |-> {}, clean |-> FALSE]
  <2>1. q \in Searches /\ q.version <= version /\ ~q.clean
    BY <1>1 DEF Searches, Pcs
  <2>2. /\ searcher' = [searcher EXCEPT ![s] = q]
        /\ UNCHANGED <<index, version, cache, writer, changes, dirty>>
    BY <1>2 DEF GetVersion
  <2>3. QED
    BY <1>1, <2>1, <2>2, ReaderPreserves
<1>3. CASE GetEntry(s)
  <2>1. ~searcher[s].clean
    BY <1>1, <1>3 DEF GetEntry
  <2>2. CASE searcher' = [searcher EXCEPT ![s].pc = "search"]
    <3>1. searcher' \in [Searchers -> Searches]
      BY <1>1, <2>2 DEF Searches, Pcs
    <3>2. searcher'[s].version = searcher[s].version /\ ~searcher'[s].clean
      BY <1>1, <2>1, <2>2 DEF Searches
    <3>3. QED
      BY <1>1, <1>3, <2>2, <3>1, <3>2, ReaderPreserves DEF GetEntry
  <2>3. ASSUME NEW c \in Hits(searcher[s].version),
               searcher' = [searcher EXCEPT ![s].pc = "done", ![s].docs = c.docs]
        PROVE  IInv'
    <3>1. c.docs \in SUBSET Docs
      BY <1>1 DEF Hits, Entries
    <3>2. searcher' \in [Searchers -> Searches]
      BY <1>1, <2>3, <3>1 DEF Searches, Pcs
    <3>3. searcher'[s].version = searcher[s].version /\ ~searcher'[s].clean
      BY <1>1, <2>1, <2>3 DEF Searches
    <3>4. QED
      BY <1>1, <1>3, <2>3, <3>2, <3>3, ReaderPreserves DEF GetEntry
  <2>4. QED
    BY <1>3, <2>2, <2>3 DEF GetEntry
<1>4. CASE HybridSearch(s)
  <2>1. searcher' \in [Searchers -> Searches]
    BY <1>1, <1>4 DEF HybridSearch, Searches, Pcs
  <2>2. /\ searcher'[s].version = searcher[s].version /\ searcher'[s].docs = index
        /\ searcher'[s].pc = "set_version"
    BY <1>1, <1>4 DEF HybridSearch, Searches
  <2>3. QED
    BY <1>1, <1>4, <2>1, <2>2, ReaderPreserves DEF HybridSearch
<1>5. CASE SetVersion(s)
  <2>1. searcher' \in [Searchers -> Searches]
    BY <1>1, <1>5 DEF SetVersion, Searches, Pcs
  <2>2. /\ searcher'[s].version = version /\ searcher'[s].docs = searcher[s].docs
        /\ searcher'[s].clean = searcher[s].clean /\ searcher'[s].pc = "set_entry"
    BY <1>1, <1>5 DEF SetVersion, Searches
  <2>3. QED
    BY <1>1, <1>5, <2>1, <2>2, ReaderPreserves DEF SetVersion
\* What is stored is clean only if the search is.
<1>6. CASE SetEntry(s)
  <2>1. /\ searcher' = [searcher EXCEPT ![s].pc = "done"]
        /\ cache' = (cache \ Hits(searcher[s].version)) \union {Stored(s)}
        /\ UNCHANGED <<index, version, writer, changes, dirty>>
    BY <1>6 DEF SetEntry
  <2>2. /\ Stored(s) \in Entries
        /\ Stored(s).version <= version
        /\ Stored(s).clean => Stored(s).docs = index
    BY <1>1, CacheAssumption DEF Stored, Entries, Searches
  <2>3. \A t \in Searchers : /\ searcher'[t] \in Searches
                             /\ searcher'[t].version = searcher[t].version
                             /\ searcher'[t].clean = searcher[t].clean
                             /\ searcher'[t].docs = searcher[t].docs
                             /\ searcher'[t].pc \in {searcher[t].pc, "done"}
    BY <1>1, <2>1 DEF Searches, Pcs
  <2>4. TypeOK'
    BY <1>1, <2>1, <2>2, <2>3 DEF IInv, TypeOK
  <2>5. PastVersions' /\ CleanSearches'
    BY <2>1, <2>2, <2>3 DEF IInv, PastVersions, CleanSearches
  <2>6. CleanHitsCurrent'
    BY <2>1, <2>2 DEF IInv, CleanHitsCurrent, Hits
  <2>7. QED
    BY <2>4, <2>5, <2>6 DEF IInv
<1>7. CASE EndSearch(s)
  <2>1. IdleSearch \in Searches /\ IdleSearch.version <= version /\ ~IdleSearch.clean
    BY <1>1 DEF IdleSearch, Searches, Pcs
  <2>2. QED
    BY <1>1, <1>7, <2>1, ReaderPreserves DEF EndSearch
<1>8. QED
  BY <1>2, <1>3, <1>4, <1>5, <1>6, <1>7 DEF SearchStep

LEMMA TickPreserves ==
    ASSUME IInv, Tick
    PROVE  IInv'
<1>1. \A c \in Expired(cache) : /\ c \in Entries
                               /\ \E e \in cache : /\ e.version = c.version
                                                   /\ e.clean = c.clean /\ e.docs = c.docs
  <2> SUFFICES ASSUME NEW e \in cache, e.ttl > 1
               PROVE  [version |-> e.version, docs |-> e.docs, clean |-> e.clean,
                       ttl |-> e.ttl - 1] \in Entries
    BY DEF Expired
  <2>1. e \in Entries
    BY DEF IInv, TypeOK
  <2>2. e.ttl - 1 \in 1..TTL
    BY <2>1, CacheAssumption DEF Entries
  <2>3. QED
    BY <2>1, <2>2 DEF Entries
<1>2. cache' = Expired(cache) /\ UNCHANGED <<index, version, searcher, writer, changes, dirty>>
  BY DEF Tick
<1>3. TypeOK'
  BY <1>1, <1>2 DEF IInv, TypeOK
<1>4. PastVersions' /\ CleanSearches'
  BY <1>1, <1>2 DEF IInv, PastVersions, CleanSearches
<1>5. CleanHitsCurrent'
  BY <1>1, <1>2 DEF IInv, CleanHitsCurrent, Hits
<1>6. QED
  BY <1>3, <1>4, <1>5 DEF IInv

LEMMA SpecIInv == Spec => []IInv
<1>1. Init => IInv
  BY InitIInv
<1>2. IInv /\ [Next]_vars => IInv'
  <2>1. CASE Next
    BY <2>1, WriterPreserves, SearchPreserves, TickPreserves DEF Next
  <2>2. CASE UNCHANGED vars
    BY <2>2 DEF vars, IInv, TypeOK, PastVersions, CleanSearches, CleanHitsCurrent, Hits
  <2>3. QED
    BY <2>1, <2>2
<1>3. QED
  BY <1>1, <1>2, PTL DEF Spec

\* Every variable keeps its type.
THEOREM TypeCorrect == Spec => []TypeOK
<1>1. IInv => TypeOK
  BY DEF IInv
<1>2. QED
  BY <1>1, SpecIInv, PTL

\* A cached result is the index, unless a change is not announced yet or the search that
\* stored it was overtaken by one.
THEOREM HitsCurrent == Spec => []CleanHitsCurrent
<1>1. IInv => CleanHitsCurrent
  BY DEF IInv
<1>2. QED
  BY <1>1, SpecIInv, PTL
=============================================================================
