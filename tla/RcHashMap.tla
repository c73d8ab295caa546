----------------------------- MODULE RcHashMap ------------------------------
(***************************************************************************)
(* The reference-counted hash map of lib/collection/rc_hash_map.c and its  *)
(* clients.  It is a list of tables of equal size, each a CxRcMap with an  *)
(* array of keys.  A key is looked for at its hash index and the next few, *)
(* at each of them in every table; a put that finds no room adds a table.  *)
(* A key stays written in a slot when the slot becomes empty.              *)
(***************************************************************************)
EXTENDS RcMapOps, FiniteSets, FiniteSetsExt, Bags, Sequences

CONSTANTS
    Keys,            \* the keys that are used
    ZeroKey,         \* key 0, which calloc writes into every slot
    Size,            \* hash_map->map_size
    Hash,            \* key_to_index, as a function of the key
    MAX_COLLISIONS,  \* indices that put and retain look at
    MaxTables,       \* bound on hash_map_count
    Items,           \* the objects that are put into the map, each once
    MaxRefs,         \* bound on the references that clients hold
    KeyReleases,     \* the keys that clients also release by key
    Faults           \* "extend": the allocations of extend_hash_map may fail

Indices == 0 .. Size - 1

ASSUME RcHashMapAssumption ==
    /\ Size \in Nat \ {0}
    /\ Hash \in [Keys -> Indices]
    /\ MAX_COLLISIONS \in Nat \ {0}
    /\ MaxTables \in Nat \ {0}
    /\ KeyReleases \subseteq Keys
    /\ Faults \subseteq {"extend"}
    /\ NULL \notin Items

VARIABLES
    tables,   \* hash_map->hash_maps: the keys and values of every table
    held,     \* references of clients: table, index, key asked for and item seen
    cleaned,  \* how often the cleanup function was called for an item
    given,    \* items that were passed to cx_rc_hash_map_put
    state     \* "open", "broken" after a failed extend, "closed" after cleanup

vars == <<tables, held, cleaned, given, state>>

Reference == (1 .. MaxTables) \X Indices \X Keys \X Items

\* extend_hash_map appends this.
NewTable == [keys |-> [i \in Indices |-> ZeroKey], values |-> cx_rc_map_init(Indices)]

\* cx_rc_hash_map_init.
Init ==
    /\ tables = <<NewTable>>
    /\ held = EmptyBag
    /\ cleaned = [d \in Items |-> 0]
    /\ given = {}
    /\ state = "open"

\* The probes of a lookup, in order: place n of the key is an index of a table.
\* The tables are the inner loop.
Index(k, n) == (Hash[k] + n \div Len(tables)) % Size
Table(n)    == (n % Len(tables)) + 1
Places(indices) == 0 .. indices * Len(tables) - 1

Empty(k, n) == is_empty(tables[Table(n)].values, Index(k, n))
Match(k, n) == tables[Table(n)].keys[Index(k, n)] = k

\* Mutant: a slot with another key is taken, too.
PutPlaces_any(k) == Places(Min({Size, MAX_COLLISIONS}))

\* Mutant: a slot that has the key already is passed over.
PutPlaces_empty(k) == {n \in Places(Min({Size, MAX_COLLISIONS})) : Empty(k, n)}

\* The places where cx_rc_hash_map_put stops.
PutPlaces(k) == {n \in Places(Min({Size, MAX_COLLISIONS})) : Empty(k, n) \/ Match(k, n)}

\* The places where cx_rc_hash_map_retain stops: empty slots are not left out.
RetainPlaces(k) == {n \in Places(Min({Size, MAX_COLLISIONS})) : Match(k, n)}

\* The places where cx_rc_hash_map_release_key stops: it looks at every index.
ReleasePlaces(k) == {n \in Places(Size) : Match(k, n)}

Clean(S) == cleaned' = [d \in Items |-> IF d \in S THEN cleaned[d] + 1 ELSE cleaned[d]]

\* The item a client sees at an index of a table.
Seen(ts, j, i) == ts[j].values.data[i]

\* keys[index] = key; cx_rc_map_set(values, index, d) in table j of ts.
PutAt(ts, j, i, k, d) ==
    /\ tables' = [ts EXCEPT ![j].keys[i] = k, ![j].values = set(@, i, d)]
    /\ Clean(SetCleans(ts[j].values, i, d))
    /\ held' = held (+) SetToBag({<<j, i, k, Seen(tables', j, i)>>})

\* A client passes a new item to cx_rc_hash_map_put.
Put(d) ==
    /\ state = "open"
    /\ d \notin given
    /\ BagCardinality(held) < MaxRefs
    /\ given' = given \cup {d}

\* cx_rc_hash_map_put when the search stops at a slot.
cx_rc_hash_map_put(k, d) ==
    /\ Put(d)
    /\ PutPlaces(k) # {}
    /\ LET n == Min(PutPlaces(k)) IN PutAt(tables, Table(n), Index(k, n), k, d)
    /\ UNCHANGED state

\* cx_rc_hash_map_put with extend_hash_map.
put_extends(k, d) ==
    /\ Put(d)
    /\ PutPlaces(k) = {}
    /\ Len(tables) < MaxTables
    /\ PutAt(Append(tables, NewTable), Len(tables) + 1, Hash[k], k, d)
    /\ UNCHANGED state

\* An allocation of extend_hash_map fails: hash_map_count was incremented, but
\* the new table cannot be read.  NULL is returned and d is still the caller's.
put_extend_fails(k, d) ==
    /\ "extend" \in Faults
    /\ Put(d)
    /\ PutPlaces(k) = {}
    /\ state' = "broken"
    /\ UNCHANGED <<tables, held, cleaned>>

\* cx_rc_hash_map_retain; NULL is returned for no place and for an empty slot.
cx_rc_hash_map_retain(k) ==
    /\ state = "open"
    /\ BagCardinality(held) < MaxRefs
    /\ RetainPlaces(k) # {}
    /\ LET n == Min(RetainPlaces(k))
           j == Table(n)
           i == Index(k, n)
       IN  /\ ~Empty(k, n)
           /\ tables' = [tables EXCEPT ![j].values = retain(@, i)]
           /\ held' = held (+) SetToBag({<<j, i, k, Seen(tables, j, i)>>})
    /\ UNCHANGED <<cleaned, given, state>>

ReleaseAt(j, i) ==
    /\ tables' = [tables EXCEPT ![j].values = release_index(@, i)]
    /\ Clean(ReleaseCleans(tables[j].values, i))

\* cx_rc_hash_map_release: the address tells the table and the index.
cx_rc_hash_map_release(r) ==
    /\ state = "open"
    /\ ReleaseAt(r[1], r[2])
    /\ held' = held (-) SetToBag({r})
    /\ UNCHANGED <<given, state>>

\* cx_rc_hash_map_release_key, for a reference the client got for this key.
cx_rc_hash_map_release_key(r) ==
    /\ state = "open"
    /\ r[3] \in KeyReleases
    /\ LET k == r[3]
       IN  IF ReleasePlaces(k) = {}
           THEN UNCHANGED <<tables, cleaned>>
           ELSE LET n == Min(ReleasePlaces(k)) IN ReleaseAt(Table(n), Index(k, n))
    /\ held' = held (-) SetToBag({r})
    /\ UNCHANGED <<given, state>>

\* cx_rc_hash_map_cleanup, when the clients have released everything.
cx_rc_hash_map_cleanup ==
    /\ state = "open"
    /\ held = EmptyBag
    /\ state' = "closed"
    /\ UNCHANGED <<tables, held, cleaned, given>>

Finished == state # "open" /\ UNCHANGED vars

Next ==
    \/ \E k \in Keys, d \in Items :
          \/ cx_rc_hash_map_put(k, d)
          \/ put_extends(k, d)
          \/ put_extend_fails(k, d)
    \/ \E k \in Keys : cx_rc_hash_map_retain(k)
    \/ \E r \in BagToSet(held) :
          \/ cx_rc_hash_map_release(r)
          \/ cx_rc_hash_map_release_key(r)
    \/ cx_rc_hash_map_cleanup
    \/ Finished

Spec == Init /\ [][Next]_vars

-----------------------------------------------------------------------------
Slots == (DOMAIN tables) \X Indices

\* The slots with references whose key is k.
Copies(k) ==
    {s \in Slots : tables[s[1]].keys[s[2]] = k /\ tables[s[1]].values.ref_count[s[2]] > 0}

\* A reference stays good while it is held: the slot still has the key the
\* client asked for and the item it was given, and the item is not cleaned up,
\* also when tables are added and slots are used again for other keys.
ReferencesStayGood ==
    \A r \in BagToSet(held) :
        /\ tables[r[1]].keys[r[2]] = r[3]
        /\ Seen(tables, r[1], r[2]) = r[4]
        /\ cleaned[r[4]] = 0

\* No item is leaked or cleaned up twice: one that the map took over is in one
\* slot that counts references, or was cleaned up once.
CleanedOnce ==
    state # "broken" => \A d \in given :
        Cardinality({s \in Slots : /\ Seen(tables, s[1], s[2]) = d
                                   /\ tables[s[1]].values.ref_count[s[2]] > 0})
            + cleaned[d] = 1

\* The keys whose probes meet no index that another key may use.
Alone ==
    LET Window(k) == {(Hash[k] + n) % Size : n \in 0 .. MAX_COLLISIONS - 1}
    IN  {k \in Keys : \A j \in Keys \ {k} : Window(j) \cap Window(k) = {}}

\* A key that has references is never out of reach of the probes, however the
\* tables grow and the slots are used again; and cx_rc_hash_map_retain does not
\* stop at an empty slot before it, provided that the key collides with no
\* other.  (With collisions it may, and return NULL for a key that has
\* references: a slot that became empty still shows its key.)
RetainFinds ==
    \A k \in Keys : Copies(k) # {} =>
        /\ RetainPlaces(k) # {}
        /\ k \in Alone => ~Empty(k, Min(RetainPlaces(k)))

\* The assertion of release_rc, ref_count >= 0: no reference is released that
\* was not counted.
CountsNotNegative ==
    \A s \in Slots : tables[s[1]].values.ref_count[s[2]] >= 0
=============================================================================
