------------------------------ MODULE SetFile ------------------------------
(***************************************************************************)
(* A shared set on disk: knd_shared_set_marshall writes the trie of ids as *)
(* a tree of blocks, knd_shared_set_unmarshall_file reads all of it when a *)
(* repo is opened, knd_shared_set_unmarshall_elem reads one record later.  *)
(*                                                                         *)
(* The block of a node is                                                  *)
(*     records  footer of records  blocks of sub-nodes  footer of them     *)
(*     size of the first two parts  number of bytes of that size           *)
(* and every footer comes in two forms: with the digit of each entry, or   *)
(* with an entry for every digit.  Short blocks have no sizes but a zero   *)
(* byte between records.                                                   *)
(*                                                                         *)
(* A file is a sequence of bytes.  A record is a sequence of bytes, none   *)
(* of them zero: its content is the business of the callbacks.             *)
(* Loops and recursions are functions of the number of steps or levels.    *)
(* Operators whose name ends in _v are wrong variants of the definition    *)
(* that follows them; nothing uses them but the mutation tests.            *)
(***************************************************************************)
EXTENDS Naturals, Sequences, FiniteSets

CONSTANTS
    Base,         \* KND_RADIX_BASE
    Byte,         \* values of a byte
    UintSize,     \* KND_UINT_SIZE, the longest packed number
    MinLinear,    \* below this size of a block KND_SET_MIN_FOOTER_SIZE is more
                  \* than KND_MAX_IDX_OVERHEAD of it
    IdSize,       \* KND_ID_SIZE, the longest id
    FileIds,      \* ids a set may hold: sequences of digits
    RecordsOf(_)  \* the records the callback may make of the element at an id

AllDigits == 0..(Base - 1)
ByteSeq == Seq(Nat)

ASSUME SetFileAssumption ==
    /\ Base \in Nat \ {0} /\ Byte \in Nat /\ Base + 2 <= Byte
    /\ UintSize \in Nat /\ UintSize >= 4
    /\ MinLinear \in Nat /\ IdSize \in Nat \ {0}
    /\ FileIds \subseteq Seq(AllDigits) \ {<<>>}
    /\ IsFiniteSet(FileIds)
    /\ \A id \in FileIds : /\ Len(id) <= IdSize
                           /\ RecordsOf(id) \subseteq Seq(Nat \ {0}) \ {<<>>}

VARIABLES content, \* the set in memory: its ids and the records the callback makes
          file,    \* the file, <<>> before it is written
          opened   \* what reading it gave

fileVars == <<content, file, opened>>

Header == <<71, 83, 80>>  \* "GSP"

---------------------------------------------------------------------------
(* Numbers (knd_utils.c) *)

\* obj_id_seq: neither '\0' nor '\1' is a digit.
Chr(d) == d + 2
DigitOf(c) == c - 2

Byte2 == Byte * Byte
Byte3 == Byte * Byte2
Byte4 == Byte * Byte3

\* knd_min_bytes
MinBytes_v(n) == IF n <= Byte THEN 1 ELSE IF n < Byte2 THEN 2 ELSE IF n < Byte3 THEN 3 ELSE 4
MinBytes(n) == IF n < Byte THEN 1 ELSE IF n < Byte2 THEN 2 ELSE IF n < Byte3 THEN 3 ELSE 4

\* knd_pack_int: big-endian, what does not fit is cut off.
Low(n) == n % Byte
High(n) == n \div Byte
Pack(n, size) ==
    CASE size = 4 -> <<Low(High(High(High(n)))), Low(High(High(n))), Low(High(n)), Low(n)>>
      [] size = 3 -> <<Low(High(High(n))), Low(High(n)), Low(n)>>
      [] size = 2 -> <<Low(High(n)), Low(n)>>
      [] OTHER    -> <<Low(n)>>
\* knd_unpack_int.  knd_unpack_u32 shifts the first of four bytes as an int, which
\* is then widened with its sign.
SignBits == (Byte4 - 1) * Byte4
Unpack(b) ==
    CASE Len(b) = 4 -> b[1] * Byte3 + b[2] * Byte2 + b[3] * Byte + b[4]
                       + (IF 2 * b[1] < Byte THEN 0 ELSE SignBits)
      [] Len(b) = 3 -> b[1] * Byte2 + b[2] * Byte + b[3]
      [] Len(b) = 2 -> b[1] * Byte + b[2]
      [] OTHER      -> b[1]

Largest(S) == CHOOSE n \in S : \A m \in S : m <= n

\* A set of numbers, the least first.
Sorted(S) == CHOOSE s \in [1..Cardinality(S) -> S] :
                /\ \A i, j \in 1..Cardinality(S) : i < j => s[i] < s[j]
                /\ \A d \in S : \E k \in 1..Cardinality(S) : s[k] = d

\* The first k of a sequence of sequences one after the other, and all of them.
JoinedTo(parts) ==
    LET upto[k \in 0..Len(parts)] == IF k = 0 THEN <<>> ELSE upto[k - 1] \o parts[k]
    IN upto
Joined(parts) == JoinedTo(parts)[Len(parts)]

\* The first k numbers of a sequence added up.
TotalTo(sizes) ==
    LET upto[k \in 0..Len(sizes)] == IF k = 0 THEN 0 ELSE upto[k - 1] + sizes[k]
    IN upto
Lengths(parts) == [k \in 1..Len(parts) |-> Len(parts[k])]

---------------------------------------------------------------------------
(* Writing *)

\* The nodes of the trie: what comes before the last digit of an id.
FileNodes == {<<>>} \cup UNION {{SubSeq(id, 1, k) : k \in 1..(Len(id) - 1)} : id \in FileIds}

\* The digits at node p that have an element, and those that have a sub-node.
ElemsAt(p) == {d \in AllDigits : Append(p, d) \in DOMAIN content}
SubdirsAt(p) == {d \in AllDigits : \E id \in DOMAIN content :
                    Len(id) > Len(p) + 1 /\ SubSeq(id, 1, Len(p) + 1) = Append(p, d)}

\* Entries carry their digit when more than half of the digits have none.
UseKeys(used) == Base - Cardinality(used) > Base \div 2
Listed(used) == IF UseKeys(used) THEN Sorted(used) ELSE [k \in 1..Base |-> k - 1]

\* build_elems_footer, build_subdirs_footer: digits with their sizes.
Footer(digits, sizes, keys) ==
    LET cell == MinBytes(Largest({sizes[k] : k \in 1..Len(sizes)}))
    IN Joined([k \in 1..Len(digits) |-> (IF keys THEN <<Chr(digits[k])>> ELSE <<>>) \o Pack(sizes[k], cell)])
       \o (IF keys THEN <<Len(digits)>> ELSE <<>>)
       \o <<cell, IF keys THEN 1 ELSE 0>>

\* The parts that belong to some digits, and their footer.
Parts(used, part) ==
    LET digits == Listed(used)
    IN [k \in 1..Len(digits) |-> IF digits[k] \in used THEN part[digits[k]] ELSE <<>>]
Table(used, part) ==
    Joined(Parts(used, part)) \o Footer(Listed(used), Lengths(Parts(used, part)), UseKeys(used))

\* marshall_elems with explicit keys: digit, record, and '\0' between two of them.
LinearParts(used, recs) ==
    LET digits == Sorted(used)
    IN [k \in 1..Len(digits) |->
           (IF k = 1 THEN <<>> ELSE <<0>>) \o <<Chr(digits[k])>> \o recs[digits[k]]]
LinearBlock(used, recs) == Joined(LinearParts(used, recs)) \o <<0, 1>>

\* marshall_elems, and the choice of its form in traverse_marshall.
ElemsBlock(p) ==
    LET used == ElemsAt(p)
        recs == [d \in used |-> content[Append(p, d)]]
    IN IF used = {} THEN <<>>
       ELSE IF Len(Joined(Parts(used, recs))) < MinLinear THEN LinearBlock(used, recs)
       ELSE Table(used, recs)

\* marshall_subdirs; below[q] is the block of the sub-node q.
SubdirsBlock(p, below) ==
    IF SubdirsAt(p) = {} THEN <<>>
    ELSE Table(SubdirsAt(p), [d \in SubdirsAt(p) |-> below[Append(p, d)]])

\* The last bytes of a block: how long its part for elements is.
SizeSpec(n) == IF n = 0 THEN <<0>> ELSE Pack(n, MinBytes(n)) \o <<MinBytes(n)>>

\* traverse_marshall
BlockOf(p, below) == ElemsBlock(p) \o SubdirsBlock(p, below) \o SizeSpec(Len(ElemsBlock(p)))

\* The blocks of nodes that have at most n - 1 nodes below each other.
Blocks ==
    LET upto[n \in 0..IdSize] == IF n = 0 THEN [p \in FileNodes |-> <<>>]
                                 ELSE [p \in FileNodes |-> BlockOf(p, upto[n - 1])]
    IN upto

\* knd_shared_set_marshall, after marshall_idx has written the header.
Marshall == Header \o Blocks[IdSize][<<>>]

---------------------------------------------------------------------------
(* Reading: positions are offsets into the file, as for lseek *)

At(pos) == file[pos + 1]
Bytes(pos, n) == SubSeq(file, pos + 1, pos + n)

Rec(id, val) == [id |-> id, val |-> val]
\* The calls of the callback: the records and how many there are (num_elems).
Called(recs, num) == [ok |-> TRUE, recs |-> recs, num |-> num]
Failed == [ok |-> FALSE, recs |-> {}, num |-> 0]
Plus(r, s) == IF r.ok /\ s.ok THEN Called(r.recs \cup s.recs, r.num + s.num) ELSE Failed
Gathered(results) ==
    LET upto[k \in 0..Len(results)] ==
            IF k = 0 THEN Called({}, 0) ELSE Plus(upto[k - 1], results[k])
    IN upto[Len(results)]

\* read_payload_size, from the end of the block.
SpecSize(pos, size) == 1 + At(pos + size - 1)
PayloadSize(pos, size) ==
    IF At(pos + size - 1) = 0 THEN 0
    ELSE Unpack(Bytes(pos + size - SpecSize(pos, size), At(pos + size - 1)))

\* A list of records with a zero byte between two of them, from pos up to end:
\* where each begins, and where one that begins at s ends.
Zeros(pos, end) == {k \in (pos + 1)..(end - 1) : At(k) = 0}
Starts(pos, end) == {pos} \cup {k + 1 : k \in Zeros(pos, end)}
StopOf(s, pos, end) ==
    CHOOSE k \in {z \in Zeros(pos, end) : z > s} \cup {end} :
        \A z \in Zeros(pos, end) : z > s => k <= z
ValueAt(s, pos, end) == Bytes(s + 1, StopOf(s, pos, end) - s - 1)

\* payload_linear_scan
LinearScan(p, pos, end) ==
    Called({Rec(Append(p, DigitOf(At(s))), ValueAt(s, pos, end)) : s \in Starts(pos, end)},
           Cardinality(Starts(pos, end)))

\* The footer that ends at end: where it begins, digit and size of each entry.
Keyed(end) == At(end - 1) = 1
CellSize(end) == At(end - 2)
NumEntries(end) == IF Keyed(end) THEN At(end - 3) ELSE Base
FieldSize(end) == IF Keyed(end) THEN CellSize(end) + 1 ELSE CellSize(end)
FooterStart(end) == end - (IF Keyed(end) THEN 3 ELSE 2) - NumEntries(end) * FieldSize(end)
Entries(end) ==
    LET cell(k) == FooterStart(end) + (k - 1) * FieldSize(end)
    IN [k \in 1..NumEntries(end) |->
           IF Keyed(end) THEN [digit |-> DigitOf(At(cell(k))), size |-> Unpack(Bytes(cell(k) + 1, CellSize(end)))]
           ELSE [digit |-> k - 1, size |-> Unpack(Bytes(cell(k), CellSize(end)))]]
Sizes(end) == LET list == Entries(end) IN [k \in 1..Len(list) |-> list[k].size]

\* Where the part of the k-th entry begins, if that of the first begins at pos.
StartOf(end, k, pos) == pos + TotalTo(Sizes(end))[k - 1]
IsLinear(pos, payload) == At(pos + payload - 1) = 1 /\ At(pos + payload - 2) = 0

\* unmarshall_elems
UnmarshallElems(p, pos, payload) ==
    LET end == pos + payload
        list == Entries(end)
        used == {k \in 1..NumEntries(end) : list[k].size > 0}
    IN IF payload = 0 THEN Called({}, 0)
       ELSE IF IsLinear(pos, payload) THEN LinearScan(p, pos, end - 2)
       ELSE IF \/ CellSize(end) > UintSize
               \/ FooterStart(end) < pos
               \/ StartOf(end, NumEntries(end) + 1, pos) > FooterStart(end)
            THEN Failed
       ELSE Called({Rec(Append(p, list[k].digit), Bytes(StartOf(end, k, pos), list[k].size)) : k \in used},
                   Cardinality(used))

\* read_subdirs: the sub-nodes whose blocks begin at pos and whose footer ends
\* at end; read[q][s][n] is what the block of node q gives.
UnmarshallSubdirs(p, pos, end, read) ==
    LET list == Entries(end)
    IN IF pos = end THEN Called({}, 0)
       ELSE IF CellSize(end) \notin 1..UintSize THEN Failed
       ELSE Gathered([k \in 1..NumEntries(end) |->
                         IF list[k].size = 0 THEN Called({}, 0)
                         ELSE read[Append(p, list[k].digit)][StartOf(end, k, pos)][list[k].size]])

\* unmarshall_block
UnmarshallBlock(p, pos, size, read) ==
    LET payload == PayloadSize(pos, size)
        end == pos + size - SpecSize(pos, size)
    IN IF pos + payload > end THEN Failed
       ELSE Plus(UnmarshallElems(p, pos, payload), UnmarshallSubdirs(p, pos + payload, end, read))

\* The recursion, for ids of at most n digits.
Unmarshall ==
    LET upto[n \in 0..IdSize] ==
            [p \in Seq(AllDigits) |-> [pos \in Nat |-> [size \in Nat |->
                IF n = 0 THEN Failed ELSE UnmarshallBlock(p, pos, size, upto[n - 1])]]]
    IN upto

\* knd_shared_set_unmarshall_file
UnmarshallFile == Unmarshall[IdSize][<<>>][Len(Header)][Len(file) - Len(Header)]

Found(val) == [found |-> TRUE, val |-> val]
NotFound == [found |-> FALSE, val |-> <<>>]

\* fetch_elem_linear_scan: the scan covers the two bytes after the records too,
\* and stops at a digit beyond the one it looks for.
Beyond_v(c, digit) == c >= Chr(digit)
Beyond(c, digit) == c > Chr(digit)
LinearFetch(digit, pos, end) ==
    LET hits == {s \in Starts(pos, end) : /\ At(s) = Chr(digit)
                                          /\ \A q \in Starts(pos, end) \ {pos} :
                                                q <= s => ~Beyond(At(q), digit)}
    IN IF hits = {} THEN NotFound
       ELSE Found(ValueAt(CHOOSE s \in hits : \A q \in hits : s <= q, pos, end))

\* A block and that of its sub-node for a digit, by the sizes that were noted
\* when the file was read.
Place(pos, size) == [pos |-> pos, size |-> size]
EntriesWith(end, digit) == {k \in 1..NumEntries(end) : /\ Entries(end)[k].digit = digit
                                                       /\ Entries(end)[k].size > 0}
SubPlace(b, digit) ==
    LET first == b.pos + PayloadSize(b.pos, b.size)
        end == b.pos + b.size - SpecSize(b.pos, b.size)
        k == CHOOSE k \in EntriesWith(end, digit) : TRUE
    IN IF b.size = 0 \/ first = end \/ EntriesWith(end, digit) = {} THEN Place(0, 0)
       ELSE Place(StartOf(end, k, first), Entries(end)[k].size)

\* The blocks on the way to an id, Place(0, 0) where there is none.
Way(id) ==
    LET upto[k \in 0..(Len(id) - 1)] ==
            IF k = 0 THEN Place(Len(Header), Len(file) - Len(Header)) ELSE SubPlace(upto[k - 1], id[k])
    IN upto

\* read_elem: one record, at the end of the way.
ReadElem(b, digit) ==
    LET payload == PayloadSize(b.pos, b.size)
        end == b.pos + payload
    IN IF b.size = 0 THEN NotFound
       ELSE IF payload = 0 THEN Found(<<>>)
       ELSE IF IsLinear(b.pos, payload) THEN LinearFetch(digit, b.pos, end)
       ELSE IF EntriesWith(end, digit) = {} THEN Found(<<>>)
       ELSE LET k == CHOOSE k \in EntriesWith(end, digit) : TRUE
            IN Found(Bytes(StartOf(end, k, b.pos), Entries(end)[k].size))

\* knd_shared_set_unmarshall_elem
FetchElem(id) == ReadElem(Way(id)[Len(id) - 1], id[Len(id)])

---------------------------------------------------------------------------
NotOpened == [unread |-> TRUE]

FileInit == /\ content = [id \in {} |-> <<>>]
            /\ file = <<>>
            /\ opened = NotOpened

AddRecord(id, rec) ==
    /\ file = <<>>
    /\ id \notin DOMAIN content
    /\ content' = [i \in DOMAIN content \cup {id} |-> IF i = id THEN rec ELSE content[i]]
    /\ UNCHANGED <<file, opened>>

WriteFile == /\ file = <<>>
             /\ file' = Marshall
             /\ UNCHANGED <<content, opened>>

OpenFile == /\ file # <<>>
            /\ opened = NotOpened
            /\ opened' = UnmarshallFile
            /\ UNCHANGED <<content, file>>

FileNext == \/ \E id \in FileIds : \E rec \in RecordsOf(id) : AddRecord(id, rec)
            \/ WriteFile \/ OpenFile

FileSpec == FileInit /\ [][FileNext]_fileVars

---------------------------------------------------------------------------
(* Properties *)

\* Opening the file gives every record of the set once, under its id and byte
\* for byte, whichever footers its blocks have, and their number
\* (self->num_elems = dir->total_elems) is that of the set.
FileRoundTrip ==
    file # <<>> /\ opened # NotOpened =>
        /\ opened.ok
        /\ opened.recs = {Rec(id, content[id]) : id \in DOMAIN content}
        /\ opened.num = Cardinality(DOMAIN content)

\* A record fetched on its own (a class that is used for the first time after a
\* restart) is the one that was written.
FetchFindsRecord ==
    opened # NotOpened => \A id \in DOMAIN content : FetchElem(id) = Found(content[id])

\* A record is found in the file of its set, and the file has just those that
\* were added.
RecordsKept == FileRoundTrip /\ FetchFindsRecord
=============================================================================
