---------------------------- MODULE CatalogCache ----------------------------
(***************************************************************************)
(* The server's Redis cache before the catalog's lists (internal/cache,    *)
(* internal/catalog, internal/admin): reads that fill a key over several   *)
(* round trips, and changes of the rows that drop it afterwards.           *)
(*                                                                         *)
(* One cached list is followed.  What the database would answer for it is  *)
(* its version; a copy is the version it was read as.                      *)
(***************************************************************************)
EXTENDS Naturals

CONSTANTS
    Readers,       \* requests that may read the list at once
    Writers,       \* administrator's requests at once
    MaxListVersion,  \* bound: changes of the list
    NoCopy

ASSUME CatalogCacheAssumption == MaxListVersion \in Nat /\ NoCopy \notin Nat

VARIABLES
    cacheKey,  \* the list that is followed; it never changes
    version,   \* of the rows
    copy,      \* the key in Redis
    excused,   \* history: may the copy be old, for one of the reasons by name?
    reading,   \* requests in GetOrSet, from the miss on
    dropping   \* requests that have changed rows and are to drop keys

cacheVars == <<cacheKey, version, copy, excused, reading, dropping>>

CatalogLists == {"categories", "types", "stores", "featured", "recipes", "scenarios"}
ByPattern == {"stores", "featured"}

NotReading == [st |-> "idle", got |-> NoCopy, late |-> FALSE]
Reading == [st : {"idle", "missed", "fetched"}, got : 0 .. MaxListVersion \cup {NoCopy},
            late : BOOLEAN]

CacheTypeOK ==
    /\ cacheKey \in CatalogLists
    /\ version \in 0 .. MaxListVersion
    /\ copy \in 0 .. version \cup {NoCopy}
    /\ excused \in BOOLEAN
    /\ reading \in [Readers -> Reading]
    /\ \A r \in Readers : reading[r].st = "fetched" <=> reading[r].got # NoCopy
    /\ dropping \in [Writers -> {"no", "due", "found"}]

CacheInit ==
    /\ cacheKey \in CatalogLists
    /\ version = 0
    /\ copy = NoCopy /\ excused = FALSE
    /\ reading = [r \in Readers |-> NotReading]
    /\ dropping = [w \in Writers |-> "no"]

-----------------------------------------------------------------------------
(* Changes of rows.  What they do to the other lists is left out.          *)

\* The lists that show what an operation changes.  A product's row, with its
\* subcategory, is part of the showcases and recipes it is in.
Changes(op) ==
    CASE op \in {"create category", "rename category"} -> {"categories"}
      [] op = "delete category" -> {"categories", "featured", "recipes"}
      [] op = "delete store's category" -> {"featured", "recipes"}
      [] op = "edit type" -> {"types"}
      [] op = "delete type" -> {"types", "stores"}
      [] op = "edit store" -> {"stores"}
      [] op = "delete store" -> {"stores", "featured", "recipes"}
      [] op \in {"edit product in catalog", "edit product", "delete product"}
           -> {"featured", "recipes"}
      [] op = "edit showcase" -> {"featured"}
      [] op = "edit recipe" -> {"recipes"}
      [] op = "edit scenario" -> {"scenarios"}

Operations ==
    {"create category", "rename category", "delete category", "delete store's category",
     "edit type", "delete type", "edit store", "delete store", "edit product in catalog",
     "edit product", "delete product", "edit showcase", "edit recipe", "edit scenario"}

\* Exceptions by name: operations that leave showcases and recipes to their TTL.
Forgetful == {"delete category", "delete store's category", "delete store",
              "edit product", "delete product"}
LeavesToTTL(op) == op \in Forgetful /\ cacheKey \in {"featured", "recipes"}

\* Fault: a type of stores is deleted without a thought for the stores.
DropsTypesOnly(op) ==
    IF op \in Forgetful THEN Changes(op) \ {"featured", "recipes"}
    ELSE IF op = "delete type" THEN {"types"} ELSE Changes(op)

\* The keys that an operation drops after its statement.
Drops(op) == IF op \in Forgetful THEN Changes(op) \ {"featured", "recipes"} ELSE Changes(op)

\* Whoever has read the rows before will store what nobody is to drop.
Overtaken(new) ==
    [r \in Readers |-> IF reading[r].st = "fetched" /\ reading[r].got # new
                       THEN [reading[r] EXCEPT !.late = TRUE] ELSE reading[r]]

Change(w, op) ==
    /\ dropping[w] = "no"
    /\ cacheKey \in Changes(op)
    /\ version < MaxListVersion
    /\ version' = version + 1
    /\ IF LeavesToTTL(op)
       THEN excused' = TRUE /\ reading' = Overtaken(version')
       ELSE UNCHANGED <<excused, reading>>
    /\ dropping' = [dropping EXCEPT ![w] = IF cacheKey \in Drops(op) THEN "due" ELSE "no"]
    /\ UNCHANGED <<cacheKey, copy>>

\* InvalidatePattern looks for the keys first: one that is not there is not dropped.
Scan(w) ==
    /\ cacheKey \in ByPattern
    /\ dropping[w] = "due"
    /\ dropping' = [dropping EXCEPT ![w] = IF copy = NoCopy THEN "no" ELSE "found"]
    /\ reading' = IF copy = NoCopy THEN Overtaken(version) ELSE reading
    /\ UNCHANGED <<cacheKey, version, copy, excused>>

Drop(w) ==
    /\ dropping[w] = IF cacheKey \in ByPattern THEN "found" ELSE "due"
    /\ dropping' = [dropping EXCEPT ![w] = "no"]
    /\ copy' = NoCopy /\ excused' = FALSE
    /\ reading' = Overtaken(version)
    /\ UNCHANGED <<cacheKey, version>>

\* Redis refuses, the client is gone with the request's context, the process stops.
DropIsLost(w) ==
    /\ dropping[w] # "no"
    /\ dropping' = [dropping EXCEPT ![w] = "no"]
    /\ excused' = (excused \/ copy # version)
    /\ reading' = Overtaken(version)
    /\ UNCHANGED <<cacheKey, version, copy>>

-----------------------------------------------------------------------------
(* Reads.  A hit changes nothing. *)

\* The key is not there, or Redis does not say.
Misses(r) ==
    /\ reading[r].st = "idle"
    /\ reading' = [reading EXCEPT ![r].st = "missed"]
    /\ UNCHANGED <<cacheKey, version, copy, excused, dropping>>

\* A list that takes two statements is as old as its first.
Fetches(r) ==
    /\ reading[r].st = "missed"
    /\ reading' = [reading EXCEPT ![r].st = "fetched", ![r].got = version]
    /\ UNCHANGED <<cacheKey, version, copy, excused, dropping>>

Fills(r) ==
    /\ reading[r].st = "fetched"
    /\ copy' = reading[r].got /\ excused' = reading[r].late
    /\ reading' = [reading EXCEPT ![r] = NotReading]
    /\ UNCHANGED <<cacheKey, version, dropping>>

\* The statement fails, Redis refuses to store, or the process stops.
GivesUp(r) ==
    /\ reading[r].st # "idle"
    /\ reading' = [reading EXCEPT ![r] = NotReading]
    /\ UNCHANGED <<cacheKey, version, copy, excused, dropping>>

\* The TTL of the key is over.
Expires ==
    /\ copy # NoCopy
    /\ copy' = NoCopy /\ excused' = FALSE
    /\ UNCHANGED <<cacheKey, version, reading, dropping>>

CacheNext ==
    \/ \E w \in Writers :
         \/ \E op \in Operations : Change(w, op)
         \/ Scan(w) \/ Drop(w) \/ DropIsLost(w)
    \/ \E r \in Readers : Misses(r) \/ Fetches(r) \/ Fills(r) \/ GivesUp(r)
    \/ Expires

CacheSpec == CacheInit /\ [][CacheNext]_cacheVars

-----------------------------------------------------------------------------
(* Correctness. *)

\* A copy in Redis is what the database would answer, or a change is still to
\* drop it; otherwise one of three things has happened: it was stored by a read
\* that the drop had overtaken, a drop was lost, or the operation was one of the
\* forgetful.  Until the TTL is over nothing else makes the storefront old.
CachedIsCurrent ==
    copy \in {NoCopy, version} \/ excused \/ \E w \in Writers : dropping[w] # "no"
=============================================================================
