------------------------------ MODULE Settings ------------------------------
(***************************************************************************)
(* settings.cpp: keyval_save writes the records of a tree behind a header  *)
(* of the file, in place, and the header last; keyval_load reads them back *)
(* and compares the checksum.  A step is one write(), so that the program  *)
(* may die between any two of them.  The checksum is taken as free of      *)
(* collisions: it is the sequence of what it was computed over.            *)
(***************************************************************************)
EXTENDS Naturals, FiniteSets, SequencesExt

CONSTANTS Trees,   \* the trees that are saved: sequences of records in key order
          Tags,    \* the tag and version a program saves under or asks for: records [tag, ver]
          NoHeader

\* keyval_hdr_t: the lengths have 8 and 16 bits.
Truncated(kv) == [kv EXCEPT !.key_len = @ % 256, !.val_len = @ % 65536]
Fits(tree) == \A i \in DOMAIN tree : tree[i] = Truncated(tree[i])

\* What keyval_save writes for a record: its header, its key and, unless it is empty,
\* its value.
Units(kv) ==
    LET t == Truncated(kv) IN
    <<<<"hdr", t.key_len, t.val_len>>, <<"key", t.key, t.key_len>>>>
        \o IF t.val_len > 0 THEN <<<<"val", t.val, t.val_len>>>> ELSE <<>>

\* All the records, as they follow each other in the file.
Payload(tree) == FlattenSeq([i \in DOMAIN tree |-> Units(tree[i])])

\* settings_hdr_t: the checksum covers the records, the tag and version, and the length.
settings_hdr(tag, units) ==
    [tag |-> tag, payload_len |-> Len(units), cksum |-> <<units, tag, Len(units)>>]

VARIABLES header, body,   \* the file: its header, and the units behind it
          saving, tag, pos, \* the call of keyval_save under way: its tree (or <<>>), its
                          \* tag and the number of units written
          saved,          \* the tree and tag of the last save that returned a length
          loaded          \* the outcome of the last load since a save began: its return
                          \* value, the tag it asked for, its tree, and whether a failure
                          \* left records in that tree

vars == <<header, body, saving, tag, pos, saved, loaded>>
file == <<header, body>>

NoTree == <<>>
Idle == saving = NoTree /\ pos = 0
NoLoad == [ret |-> FALSE, tag |-> NoHeader, tree |-> NoTree, left |-> FALSE]

Init ==
    /\ header = NoHeader /\ body = <<>>
    /\ saving = NoTree /\ tag = NoHeader /\ pos = 0
    /\ saved = [tree |-> NoTree, tag |-> NoHeader]
    /\ loaded = NoLoad

\* The file position is moved behind the header.
keyval_save(tree, t) ==
    /\ Idle /\ saving' = tree /\ tag' = t /\ loaded' = NoLoad
    /\ UNCHANGED <<file, pos, saved>>

\* One write of a record's header, key or value, over what was there.
WriteUnit ==
    /\ pos < Len(Payload(saving)) /\ pos' = pos + 1
    /\ body' = [i \in 1..(IF Len(body) > pos THEN Len(body) ELSE pos + 1) |->
                  IF i = pos + 1 THEN Payload(saving)[i] ELSE body[i]]
    /\ UNCHANGED <<header, saving, tag, saved, loaded>>

Returns == saving' = NoTree /\ tag' = NoHeader /\ pos' = 0

WriteHeader ==
    /\ saving # NoTree /\ pos = Len(Payload(saving))
    /\ header' = settings_hdr(tag, Payload(saving))
    /\ saved' = [tree |-> saving, tag |-> tag]
    /\ Returns /\ UNCHANGED <<body, loaded>>

\* A write fails, or the program ends: the file stays as it is.
SaveEnds == saving # NoTree /\ Returns /\ UNCHANGED <<file, saved, loaded>>

\* The records behind the header, up to its length; what follows a record's header is its
\* key and its value, if they are there.
RecordsOf(units) ==
    LET start == {i \in DOMAIN units : units[i][1] = "hdr"}
        at[n \in 1..Cardinality(start)] ==
            CHOOSE i \in start : Cardinality({j \in start : j < i}) = n - 1
        Text(kind, i) == IF i \in DOMAIN units /\ units[i][1] = kind THEN units[i][2] ELSE ""
    IN  [n \in 1..Cardinality(start) |->
           LET i == at[n] IN
           [key |-> Text("key", i + 1), key_len |-> units[i][2],
            val |-> Text("val", i + 2), val_len |-> units[i][3]]]

\* The caller of keyval_load asks for a tag and a version; an empty tag and version 0 ask
\* for any (154, 159).
Accepts(want, t) == want.tag \in {"", t.tag} /\ want.ver \in {0, t.ver}

Outcome(ret, want, tree, left) == loaded' = [ret |-> ret, tag |-> want, tree |-> tree, left |-> left]

\* The records as far as the header's length says, and whether they are all there.
Stored == SubSeq(body, 1, header.payload_len)
Readable(want) ==
    header # NoHeader /\ Accepts(want, header.tag) /\ Len(body) >= header.payload_len

\* Mutant: the checksum of the records is not compared.
keyval_load_unchecked(want) ==
    /\ Idle /\ Readable(want)
    /\ Outcome(TRUE, want, RecordsOf(Stored), FALSE)
    /\ UNCHANGED <<file, saving, tag, pos, saved>>

keyval_load(want) ==
    /\ Idle /\ Readable(want) /\ <<Stored, header.tag, header.payload_len>> = header.cksum
    /\ Outcome(TRUE, want, RecordsOf(Stored), FALSE)
    /\ UNCHANGED <<file, saving, tag, pos, saved>>

\* A load fails at a read or an allocation, at the tag, the version or the checksum.  The
\* records it has read by then stay in the caller's tree (209): some, once the tag and the
\* version are accepted.  Which ones is not told: where two saves overlap, the bytes read
\* as they come.
LoadFails(want) ==
    /\ Idle
    /\ \E left \in BOOLEAN :
         /\ left => header # NoHeader /\ body # <<>> /\ Accepts(want, header.tag)
         /\ Outcome(FALSE, want, NoTree, left)
    /\ UNCHANGED <<file, saving, tag, pos, saved>>

Next ==
    \/ \E tree \in Trees, t \in Tags : keyval_save(tree, t)
    \/ WriteUnit \/ WriteHeader \/ SaveEnds
    \/ \E t \in Tags : keyval_load(t) \/ LoadFails(t)

Spec == Init /\ [][Next]_vars

-----------------------------------------------------------------------------
\* What a load returns is the last tree whose save returned, whole, and of the tag and
\* version the caller asked for: never a mixture of two saves, whatever write the later one
\* stopped at (settings.cpp writes in place and the header last).  Nor does a failing load
\* leave records of another tag or version in the caller's tree.  Keys of 256 bytes and
\* values of 65536 and more are outside the promise: their lengths wrap.
LoadTrue ==
    /\ loaded.ret \/ loaded.left => Accepts(loaded.tag, saved.tag)
    /\ loaded.ret /\ Fits(saved.tree) => loaded.tree = saved.tree
=============================================================================
