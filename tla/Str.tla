--------------------------------- MODULE Str ---------------------------------
(***************************************************************************)
(* str.c: strings longer than a block, kept as chains of chunks in a table. *)
(* The table is the heap that Table implements: table_insert puts a chunk   *)
(* under a RID no live chunk has, table_read and get_item return it.        *)
(* write_string and delete_string are one action each; the others change    *)
(* nothing in the table and are operators.                                  *)
(*                                                                          *)
(* A chunk is its next pointer and its characters (its size is their        *)
(* number); a StringRecord is a copy of a chunk with a position, counted    *)
(* from 0 as in the code.                                                   *)
(***************************************************************************)
EXTENDS Lex, Sequences, FiniteSets

CONSTANTS RID,                \* record ids of the string table
          NoRid,              \* the RID (-1, 0) that ends a chain
          STR_CHUNK_MAX_LEN,  \* characters of a full chunk (20 with 128-byte pages)
          String              \* the strings written: not empty

ASSUME StrAssumption ==
    /\ NoRid \notin RID
    /\ STR_CHUNK_MAX_LEN \in Nat \ {0}
    /\ String \subseteq Seq(Int) \ {<<>>}

VARIABLES chunks,   \* the string table: its live chunks by RID
          strings   \* what was written, by the RID write_string returned

vars == <<chunks, strings>>

-----------------------------------------------------------------------------
(* Reading.                                                                *)

ReadString(table, rid) == [chunk |-> table[rid], idx |-> 0]

AtEnd(record) == record.idx = Len(record.chunk.data) - 1

\* Mutant of HasNextChar: a string ends with its chunk.
HasNextInChunk(record) == ~AtEnd(record)

HasNextChar(record) == ~AtEnd(record) \/ record.chunk.next # NoRid

Char(record) == record.chunk.data[record.idx + 1]

\* next_char: the record it leaves; the character it returns is the record's.
\* Callers ask has_next_char first.
NextChar(table, record) ==
    IF ~AtEnd(record) THEN [record EXCEPT !.idx = @ + 1]
    ELSE [chunk |-> table[record.chunk.next], idx |-> 0]

\* load_string of at most max characters: loaded[n] is where the loop is when
\* it has stored n of them, or where it ended before.
LoadString(table, record, max) ==
    LET Step(l) == LET next == NextChar(table, l.record)
                   IN  IF HasNextChar(l.record)
                       THEN [record |-> next, dest |-> Append(l.dest, Char(next))]
                       ELSE l
        first == [record EXCEPT !.idx = 0]
        loaded[n \in 1 .. max] ==
            IF n = 1 THEN [record |-> first, dest |-> <<Char(first)>>] ELSE Step(loaded[n - 1])
    IN  loaded[max].dest

\* compare_string_record: 1, -1 or 0.  decided[n] is the result after n
\* characters, or Undecided with both records behind them.
Undecided == 2

CompareStringRecord(table, a, b, bound) ==
    LET Judge(ra, rb) ==
            [a |-> ra, b |-> rb,
             result |-> IF Char(ra) > Char(rb) THEN 1
                        ELSE IF Char(ra) < Char(rb) THEN -1 ELSE Undecided]
        Step(c) ==
            CASE c.result # Undecided -> c
              [] c.result = Undecided /\ HasNextChar(c.a) /\ HasNextChar(c.b) ->
                     Judge(NextChar(table, c.a), NextChar(table, c.b))
              [] OTHER -> [c EXCEPT !.result = IF HasNextChar(c.a) THEN 1
                                               ELSE IF HasNextChar(c.b) THEN -1 ELSE 0]
        decided[n \in 1 .. bound] ==
            IF n = 1 THEN Judge([a EXCEPT !.idx = 0], [b EXCEPT !.idx = 0]) ELSE Step(decided[n - 1])
    IN  decided[bound].result

-----------------------------------------------------------------------------
(* Writing.                                                                *)

\* Mutant of Pieces: no rounding for strings that fill their chunks.
PiecesUnrounded(s) ==
    LET max    == STR_CHUNK_MAX_LEN
        number == Len(s) \div max
        piece(k, len) == SubSeq(s, k * max + 1, k * max + len)
    IN  <<piece(number, Len(s) % max)>>
            \o (IF number > 0 THEN [i \in 1 .. number |-> piece(number - i, max)] ELSE <<>>)

\* The chunks of a string in the order write_string inserts them: the tail,
\* whose number is rounded so that it is never empty, then the full ones
\* before it, then the first.  (The literal 20 that the code rounds by is
\* STR_CHUNK_MAX_LEN.)
Pieces(s) ==
    LET max    == STR_CHUNK_MAX_LEN
        size   == Len(s)
        exact  == size % max = 0
        number == IF exact THEN size \div max - 1 ELSE size \div max
        tail   == IF exact THEN max ELSE size % max
        piece(k, len) == SubSeq(s, k * max + 1, k * max + len)
        middle == IF number > 1 THEN [i \in 1 .. number - 1 |-> piece(number - i, max)] ELSE <<>>
        first  == IF size > max THEN <<piece(0, max)>> ELSE <<>>
    IN  <<piece(number, tail)>> \o middle \o first

\* The RIDs table_insert may return for n chunks, one after the other.
FreshRids(n) == {r \in [1 .. n -> RID \ DOMAIN chunks] :
                    \A i, k \in 1 .. n : r[i] = r[k] => i = k}

\* Mutant of WriteString: the RID returned is the one the last chunk points to.
WriteReturnsNext(s) ==
    LET p == Pieces(s)
        n == Len(p)
    IN  \E r \in FreshRids(n) :
            /\ chunks' = [q \in DOMAIN chunks \union {r[k] : k \in 1 .. n} |->
                             IF q \in DOMAIN chunks THEN chunks[q]
                             ELSE LET k == CHOOSE k \in 1 .. n : r[k] = q
                                  IN  [next |-> IF k = 1 THEN NoRid ELSE r[k - 1], data |-> p[k]]]
            /\ strings' = [q \in DOMAIN strings \union {IF n = 1 THEN NoRid ELSE r[n - 1]} |->
                              IF q = (IF n = 1 THEN NoRid ELSE r[n - 1]) THEN s ELSE strings[q]]

WriteString(s) ==
    LET p == Pieces(s)
        n == Len(p)
    IN  \E r \in FreshRids(n) :
            /\ chunks' = [q \in DOMAIN chunks \union {r[k] : k \in 1 .. n} |->
                             IF q \in DOMAIN chunks THEN chunks[q]
                             ELSE LET k == CHOOSE k \in 1 .. n : r[k] = q
                                  IN  [next |-> IF k = 1 THEN NoRid ELSE r[k - 1], data |-> p[k]]]
            /\ strings' = [q \in DOMAIN strings \union {r[n]} |->
                              IF q = r[n] THEN s ELSE strings[q]]

\* The chunks from rid on, as delete_string follows and deletes them.
ChainFrom(table, rid) ==
    LET reached[n \in 1 .. Cardinality(DOMAIN table)] ==
            IF n = 1 THEN {rid}
            ELSE reached[n - 1] \union {table[q].next : q \in reached[n - 1] \ {NoRid}}
    IN  reached[Cardinality(DOMAIN table)] \ {NoRid}

\* Mutant of DeleteString: the chain is not followed.
DeleteFirstChunk(rid) ==
    /\ chunks' = [q \in DOMAIN chunks \ {rid} |-> chunks[q]]
    /\ strings' = [q \in DOMAIN strings \ {rid} |-> strings[q]]

DeleteString(rid) ==
    /\ chunks' = [q \in DOMAIN chunks \ ChainFrom(chunks, rid) |-> chunks[q]]
    /\ strings' = [q \in DOMAIN strings \ {rid} |-> strings[q]]

Init == /\ chunks = [q \in {} |-> <<>>]
        /\ strings = [q \in {} |-> <<>>]

Next == \/ \E s \in String : WriteString(s)
        \/ \E rid \in DOMAIN strings : DeleteString(rid)

Spec == Init /\ [][Next]_vars

-----------------------------------------------------------------------------
(* Properties.                                                             *)

\* Chunks are never empty nor longer than a chunk may be.
TypeOK ==
    /\ DOMAIN strings \subseteq DOMAIN chunks
    /\ DOMAIN chunks \subseteq RID
    /\ \A q \in DOMAIN chunks : /\ chunks[q].next \in RID \union {NoRid}
                                /\ Len(chunks[q].data) \in 1 .. STR_CHUNK_MAX_LEN

\* load_string gives back the string that was written, cut to the characters
\* asked for, whatever was written and deleted since.  (It stores one character
\* even if asked for none.)
Loads ==
    \A rid \in DOMAIN strings :
        LET s == strings[rid]
        IN  \A max \in 1 .. Len(s) + 1 :
                LoadString(chunks, ReadString(chunks, rid), max)
                    = SubSeq(s, 1, IF max < Len(s) THEN max ELSE Len(s))

\* Every chunk belongs to exactly one live string: deleting a string leaves
\* none of its chunks behind and takes none of another's.
ChunksOwned ==
    /\ \A q, r \in DOMAIN strings :
          q # r => ChainFrom(chunks, q) \intersect ChainFrom(chunks, r) = {}
    /\ UNION {ChainFrom(chunks, r) : r \in DOMAIN strings} = DOMAIN chunks

\* compare_string_record agrees with the lexicographic order for any two stored strings,
\* wherever their chunks end.
CompareIsOrder ==
    \A q, r \in DOMAIN strings :
        CompareStringRecord(chunks, ReadString(chunks, q), ReadString(chunks, r),
                            Len(strings[q]) + Len(strings[r]) + 1)
            = Order(strings[q], strings[r])

\* The strings are a heap, as MyJQL takes them to be: the RID of a new one is
\* not that of a stored one, and a call changes no other string.
Promise == INSTANCE Heap WITH heap <- strings, Rid <- RID, Record <- String
StringsAreFresh == Promise!Spec

-----------------------------------------------------------------------------
(* The inductive invariant.                                                *)

\* The number of chunks of a string, and the characters of its i-th.
Chunks(s) == (Len(s) - 1) \div STR_CHUNK_MAX_LEN + 1

Part(s, i) ==
    LET max == STR_CHUNK_MAX_LEN
    IN  SubSeq(s, (i - 1) * max + 1, IF i * max < Len(s) THEN i * max ELSE Len(s))

\* The RIDs of n chunks from rid on.
Trail(table, rid, n) ==
    LET t[i \in 1 .. n] == IF i = 1 THEN rid ELSE table[t[i - 1]].next
    IN  t

\* The chunks t of the table hold s, and end after it.
Laid(table, t, s) ==
    /\ t \in [1 .. Chunks(s) -> DOMAIN table]
    /\ \A i, k \in 1 .. Chunks(s) : t[i] = t[k] => i = k
    /\ \A i \in 1 .. Chunks(s) :
          table[t[i]] = [next |-> IF i = Chunks(s) THEN NoRid ELSE t[i + 1], data |-> Part(s, i)]

\* Every string of written is laid out in the table, its chunks at trails[r],
\* and every chunk is one of one of them.
LaidOut(table, written, trails) ==
    /\ table = [q \in DOMAIN table |-> table[q]]
    /\ DOMAIN table \subseteq RID /\ IsFiniteSet(DOMAIN table)
    /\ written = [r \in DOMAIN written |-> written[r]]
    /\ \A r \in DOMAIN written : /\ written[r] \in String
                                 /\ trails[r][1] = r
                                 /\ Laid(table, trails[r], written[r])
    /\ \A q, r \in DOMAIN written :
          \A i \in 1 .. Chunks(written[q]), k \in 1 .. Chunks(written[r]) :
              trails[q][i] = trails[r][k] => q = r
    /\ \A c \in DOMAIN table :
          \E r \in DOMAIN written : \E i \in 1 .. Chunks(written[r]) : trails[r][i] = c

Trails(table, written) == [r \in DOMAIN written |-> Trail(table, r, Chunks(written[r]))]

IInv == LaidOut(chunks, strings, Trails(chunks, strings))
=============================================================================
