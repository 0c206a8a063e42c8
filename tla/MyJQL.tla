-------------------------------- MODULE MyJQL --------------------------------
(***************************************************************************)
(* myjql.c: a map from keys to values, kept in an index, a table of records *)
(* and a table of strings.  myjql_set and myjql_del are one action each,    *)
(* myjql_get is an operator.  Closing and opening again changes no file     *)
(* (BufferPool).                                                            *)
(*                                                                         *)
(* The index is BTreeOps; a table is the heap that Table and Str implement, *)
(* a function from the RIDs of what is live.  A record may get any RID that *)
(* no live record has; a string's RID is named after the record it is       *)
(* written for, which no other live string is.                              *)
(***************************************************************************)
EXTENDS BTreeOps, Lex, FiniteSets

CONSTANTS RecordRID,   \* RIDs of records
          Key,         \* keys: strings of characters, not empty
          Value        \* values

ASSUME MyJQLAssumption ==
    /\ NoRid \notin RecordRID
    /\ IsFiniteSet(RecordRID)
    /\ Cardinality(RecordRID) >= Cardinality(Key)
    /\ Key \subseteq Seq(Int) \ {<<>>}

VARIABLES db,    \* the files: [tree, records, strings]
          dict   \* what the callers of set and del asked for

MyJQLVars == <<db, dict>>

Missing == "missing"   \* the -1 of myjql_get

-----------------------------------------------------------------------------
(* Comparing keys.                                                         *)

StoredKey(d, rid) == d.strings[d.records[rid].key]

\* comparerow, for the records of d.
CompareRow(d) ==
    LET live == DOMAIN d.records
    IN  [a \in live |-> [b \in live |-> Order(StoredKey(d, a), StoredKey(d, b))]]

\* Mutant of ComparePtr: a stored key that goes on is equal.
ComparePtrPrefix(key, stored) ==
    LET n == IF Len(key) < Len(stored) THEN Len(key) ELSE Len(stored)
    IN  IF Len(key) > n THEN Order(key, stored) ELSE Order(key, SubSeq(stored, 1, n))

\* One round of compareptr's loop: character m of key.  c.used is how far stored
\* was read.  A NUL of the key is passed over, and where the stored key has
\* ended only a character of key that is not its last tells.
HasMore(c, stored) == c.used < Len(stored)
ComparePtrRound(key, stored, c, m) ==
    LET sign(x, y) == IF x > y THEN 1 ELSE IF x < y THEN -1 ELSE 0
    IN  IF c.result # 0 \/ (key[m] = 0 /\ m > 1) THEN c
        ELSE IF HasMore(c, stored) THEN [used |-> c.used + 1, result |-> sign(key[m], stored[c.used + 1])]
        ELSE [used |-> c.used, result |-> IF m < Len(key) THEN 1 ELSE 0]

\* compareptr: key against a stored one.
ComparePtr(key, stored) ==
    LET after[m \in 0 .. Len(key)] ==
            IF m = 0 THEN [used |-> 0, result |-> 0] ELSE ComparePtrRound(key, stored, after[m - 1], m)
        end == after[Len(key)]
    IN  IF end.result = 0 /\ HasMore(end, stored) THEN -1 ELSE end.result

\* Keys that compareptr tells apart: none is another one and one character more,
\* or has a NUL after its first character.
KeysApart(keys) ==
    \A a, b \in keys :
        /\ \A i \in 2 .. Len(a) : a[i] # 0
        /\ Len(a) = Len(b) + 1 => \E i \in 1 .. Len(b) : a[i] # b[i]

-----------------------------------------------------------------------------
(* The operations.                                                         *)

Find(d, key) == Search(d.tree, [rid \in DOMAIN d.records |-> ComparePtr(key, StoredKey(d, rid))])

\* myjql_get with room for the whole value.
Get(d, key) ==
    LET rid == Find(d, key)
    IN  IF rid = NoRid THEN Missing ELSE d.strings[d.records[rid].value]

Without(f, S) == [x \in DOMAIN f \ S |-> f[x]]

\* Mutant of Erased: the value's string stays.
ErasedNotValue(d, rid) ==
    [tree    |-> Delete(d.tree, CompareRow(d), rid),
     records |-> Without(d.records, {rid}),
     strings |-> Without(d.strings, {d.records[rid].key})]

\* Out of the index, while the comparisons still find the key, and then out of
\* the tables.
Erased(d, rid) ==
    [tree    |-> Delete(d.tree, CompareRow(d), rid),
     records |-> Without(d.records, {rid}),
     strings |-> Without(d.strings, {d.records[rid].key, d.records[rid].value})]

\* Into the tables, and then into the index.
Written(d, rid, key, value) ==
    LET srid == [key |-> <<rid, "key">>, value |-> <<rid, "value">>]
        new  == [d EXCEPT !.records = [x \in DOMAIN @ \union {rid} |-> IF x = rid THEN srid ELSE @[x]],
                          !.strings = [x \in DOMAIN @ \union {srid.key, srid.value} |->
                                           CASE x = srid.key   -> key
                                             [] x = srid.value -> value
                                             [] OTHER          -> @[x]]]
    IN  [new EXCEPT !.tree = Insert(@, CompareRow(new), rid)]

MyJQLInit ==
    /\ db = [tree |-> InitTree, records |-> [x \in {} |-> <<>>], strings |-> [x \in {} |-> <<>>]]
    /\ dict = [x \in {} |-> Missing]

\* myjql_set: a record that is found is erased, and a new one written.
MyJQLSet(key, value) ==
    LET rid  == Find(db, key)
        kept == IF rid = NoRid THEN db ELSE Erased(db, rid)
    IN  /\ \E new \in RecordRID \ DOMAIN kept.records : db' = Written(kept, new, key, value)
        /\ dict' = [x \in DOMAIN dict \union {key} |-> IF x = key THEN value ELSE dict[x]]

\* Mutant of MyJQLDel: the index keeps the record.
DelLeavesIndex(key) ==
    LET rid == Find(db, key)
    IN  /\ db' = IF rid = NoRid THEN db ELSE [Erased(db, rid) EXCEPT !.tree = db.tree]
        /\ dict' = Without(dict, {key})

\* myjql_del.
MyJQLDel(key) ==
    LET rid == Find(db, key)
    IN  /\ db' = IF rid = NoRid THEN db ELSE Erased(db, rid)
        /\ dict' = Without(dict, {key})

MyJQLNext ==
    \E key \in Key : \/ \E value \in Value : MyJQLSet(key, value)
                    \/ MyJQLDel(key)

MyJQLSpec == MyJQLInit /\ [][MyJQLNext]_MyJQLVars

-----------------------------------------------------------------------------
(* Properties.                                                             *)

\* The tables' records and strings, and the nodes' sizes.
MyJQLTypeOK ==
    /\ DOMAIN db.records \subseteq RecordRID
    /\ \A rid \in DOMAIN db.records :
          /\ StoredKey(db, rid) \in Key
          /\ db.strings[db.records[rid].value] \in Value
    /\ \A a \in DOMAIN db.tree.node : Size(db.tree, a) <= 2 * DEGREE

\* The rows of the index; nodes on the free list are empty.
Rows == UNION {Range(db.tree.node[a].row) : a \in DOMAIN db.tree.node}
LeafRows == UNION {Range(x.row) : x \in {y \in Range(db.tree.node) : Leaf(y)}}

\* myjql_get answers what was last set and not deleted, for every key, after
\* any sequence of calls.
GetAnswers ==
    \A key \in Key : Get(db, key) = IF key \in DOMAIN dict THEN dict[key] ELSE Missing

\* The weaker half that myjql.h promises: -1 if the key does not exist.
GetMissing == \A key \in Key \ DOMAIN dict : Get(db, key) = Missing

\* Every RID in the index, in inner nodes too, names a live record: no
\* comparison reads a record that was deleted.
RowsAlive == Rows \subseteq DOMAIN db.records

\* Nothing is lost: a record is in a leaf, and a string belongs to a record.
NothingLeaked ==
    /\ DOMAIN db.records = LeafRows
    /\ DOMAIN db.strings = UNION {{db.records[r].key, db.records[r].value} : r \in DOMAIN db.records}
    /\ Cardinality(DOMAIN db.strings) = 2 * Cardinality(DOMAIN db.records)
=============================================================================
