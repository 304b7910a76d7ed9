----------------------------- MODULE DataCache ------------------------------
(***************************************************************************)
(* Data_Manager (src/nodelib/db/Data_Manager.cpp): the rows a data process *)
(* keeps in memory in front of its databases, and the runtime data it      *)
(* keeps in memory alone.                                                  *)
(*                                                                         *)
(* A cached row is a Bit_Buffer, and a load copies it out by reading it:   *)
(* the buffer stays at its end, and what reads it again fails, until a     *)
(* save puts a new array in.  "read" says that a row is at its end.        *)
(*                                                                         *)
(* The operations take the tables of a database and a cache and give both  *)
(* back with a return code and the rows loaded.  "link" is the state of    *)
(* the connection: "up", "broken" (queries fail), or "none" (the process   *)
(* never connected).  A query that fails gives no rows; a statement to     *)
(* save that cannot be prepared is a null pointer, which the code uses:    *)
(* the process is gone (Crash).                                            *)
(***************************************************************************)
EXTENDS Integers, Sequences, FiniteSets, Functions

CONSTANTS
    CachedTables,       \* tables of the database, as a sequence
    Keys,         \* key_index: positive, 0 means a whole table
    Values,       \* contents of a row
    None          \* no row

Crash == -9

Links == {"up", "broken", "none"}

ASSUME DataAssumption ==
    /\ CachedTables \in Seq(Range(CachedTables))
    /\ Keys \subseteq Nat \ {0} /\ None \notin Values

TableSet == Range(CachedTables)

NoRows == [k \in {} |-> None]
EmptyCache == [t \in TableSet |-> NoRows]
EmptyTables == [t \in TableSet |-> [k \in Keys |-> None]]

\* Save types.
SaveTypes == {"SAVE_CACHE", "SAVE_DB_AND_CACHE", "SAVE_DB_CLEAR_CACHE"}

Result(db, cache, code, rows) == [db |-> db, cache |-> cache, code |-> code, rows |-> rows]

Insert(rows, new) == [k \in DOMAIN rows \cup DOMAIN new |->
                         IF k \in DOMAIN rows THEN rows[k] ELSE new[k]]
PutRow(rows, k, new) == [x \in {k} \cup DOMAIN rows |-> IF x = k THEN new ELSE rows[x]]
Erase(rows, k) == Restrict(rows, DOMAIN rows \ {k})
Unread(v) == [value |-> v, read |-> FALSE]
ReadOut(v) == [value |-> v, read |-> TRUE]

\* build_bit_buffer copies the rows of keys out of the cache, one after another
\* in any order.  The first one at its end fails; those before are at theirs.
CachedCopy(db, cache, t, keys) ==
    LET stale == {k \in keys : cache[t][k].read}
        Advanced(s) == [cache EXCEPT ![t] =
            [k \in DOMAIN @ |-> IF k \in s THEN ReadOut(@[k].value) ELSE @[k]]]
    IN IF stale = {}
       THEN {Result(db, Advanced(keys), 0, [k \in keys |-> cache[t][k].value])}
       ELSE {Result(db, Advanced(s), -1, NoRows) : s \in SUBSET (keys \ stale)}

\* What the operator loads goes to the cache, unless it is there.
FromDb(db, cache, t, keys, link) ==
    LET found == {k \in keys : link = "up" /\ db[t][k] # None}
    IN [cache EXCEPT ![t] = Insert(@, [k \in found |-> Unread(db[t][k])])]

\* load_db_data of one table.  A whole table comes from the database only when
\* none of its rows is cached.
LoadTable(db, cache, t, key, link) ==
    LET cached == DOMAIN cache[t]
        wanted == IF key = 0 THEN Keys ELSE {key}
        miss == IF key = 0 THEN cached = {} ELSE key \notin cached
        now == IF miss THEN FromDb(db, cache, t, wanted, link) ELSE cache
        rows == wanted \cap DOMAIN now[t]
    IN IF miss /\ link = "none" THEN {Result(db, cache, -1, NoRows)}
       ELSE IF rows = {} THEN {Result(db, now, -2, NoRows)}
       ELSE CachedCopy(db, now, t, rows)

\* A structure without a table is a collection: a row of each of its tables, one
\* after another, up to the first that fails.
LoadCollection(db, cache, key, link) ==
    LET After[n \in 0..Len(CachedTables)] ==
            IF n = 0 THEN {Result(db, cache, 0, << >>)}
            ELSE UNION {IF r.code < 0 THEN {r}
                        ELSE {[q EXCEPT !.rows = IF q.code < 0 THEN << >>
                                                 ELSE Append(r.rows, q.rows[key])] :
                                 q \in LoadTable(db, r.cache, CachedTables[n], key, link)} :
                        r \in After[n - 1]}
    IN After[Len(CachedTables)]

\* Mutant of SaveRow: the cache is cleared and the database forgotten.
SaveRowClears(db, cache, type, t, key, v, link) ==
    LET stored == IF link = "up" THEN [db EXCEPT ![t][key] = v] ELSE db
        kept == [cache EXCEPT ![t] = PutRow(@, key, Unread(v))]
        code == CASE link = "up" -> 0 [] link = "broken" -> Crash [] link = "none" -> -1
        cleared == [cache EXCEPT ![t] = Erase(@, key)]
    IN CASE type = "SAVE_CACHE" -> Result(db, kept, 0, NoRows)
         [] type = "SAVE_DB_AND_CACHE" -> Result(stored, kept, code, NoRows)
         [] type = "SAVE_DB_CLEAR_CACHE" -> Result(db, cleared, code, NoRows)

\* save_db_data of one row: the cache first, then the database.
SaveRow(db, cache, type, t, key, v, link) ==
    LET stored == IF link = "up" THEN [db EXCEPT ![t][key] = v] ELSE db
        kept == [cache EXCEPT ![t] = PutRow(@, key, Unread(v))]
        code == CASE link = "up" -> 0 [] link = "broken" -> Crash [] link = "none" -> -1
        cleared == [cache EXCEPT ![t] = Erase(@, key)]
    IN CASE type = "SAVE_CACHE" -> Result(db, kept, 0, NoRows)
         [] type = "SAVE_DB_AND_CACHE" -> Result(stored, kept, code, NoRows)
         [] type = "SAVE_DB_CLEAR_CACHE" -> Result(stored, cleared, code, NoRows)

\* A collection is saved table by table, up to the first failure.
SaveCollection(db, cache, type, key, v, link) ==
    LET After[n \in 0..Len(CachedTables)] ==
            IF n = 0 THEN Result(db, cache, 0, NoRows)
            ELSE LET r == After[n - 1]
                 IN IF r.code < 0 THEN r
                    ELSE SaveRow(r.db, r.cache, type, CachedTables[n], key, v, link)
    IN After[Len(CachedTables)]

\* Mutant of DeleteRow: the row stays in the cache.
DeleteRowCached(db, cache, t, key, link) ==
    IF link # "up" THEN Result(db, cache, -1, NoRows)
    ELSE Result([db EXCEPT ![t][key] = None], cache, 0, NoRows)

\* delete_db_data: from the database, then from the cache.
DeleteRow(db, cache, t, key, link) ==
    IF link # "up" THEN Result(db, cache, -1, NoRows)
    ELSE Result([db EXCEPT ![t][key] = None], [cache EXCEPT ![t] = Erase(@, key)], 0, NoRows)

\* select_db_data asks the database, whatever the cache holds.
SelectRow(db, cache, t, key, link) ==
    IF link = "up" /\ db[t][key] # None
    THEN Result(db, cache, 0, [k \in {key} |-> db[t][k]])
    ELSE Result(db, cache, IF link = "none" THEN -1 ELSE -2, NoRows)

\* Runtime data, in a map of its own.
LoadRuntime(runtime, key) ==
    IF key \in DOMAIN runtime /\ ~runtime[key].read
    THEN [runtime |-> PutRow(runtime, key, ReadOut(runtime[key].value)),
          code |-> 0, value |-> runtime[key].value]
    ELSE [runtime |-> runtime, code |-> -1, value |-> None]
SaveRuntime(runtime, key, v) == PutRow(runtime, key, Unread(v))
DeleteRuntime(runtime, key) ==
    [runtime |-> Erase(runtime, key), code |-> IF key \in DOMAIN runtime THEN 0 ELSE -1]
=============================================================================
