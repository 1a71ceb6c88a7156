--------------------------- MODULE WriteAheadLog ---------------------------
(***************************************************************************)
(* One write-ahead log (storage/wal.hpp): a directory of segments named    *)
(* after the LSN they were opened at, the stream that appends to one of    *)
(* them, and the replay that reads them all in the order of their names.   *)
(*                                                                         *)
(* A record is whole or, after a crash or a full disk in the middle of its *)
(* write, Torn: its checksum does not match, and since the reader has gone *)
(* past its end it cannot find the next record either.                     *)
(***************************************************************************)
EXTENDS Naturals, FiniteSets, Sequences, SequencesExt

CONSTANTS
    Torn,       \* a record that was not written completely
    Radix       \* the base of the numerals in segment names (10 in the code)

ASSUME WalAssumption == Radix \in Nat \ {0, 1}

\* std::to_string of an LSN.
Numeral[n \in Nat] ==
    IF n < Radix THEN <<n>> ELSE Append(Numeral[n \div Radix], n % Radix)

\* Names are compared as strings; the "." after the numeral sorts before any digit.
NameBefore(m, n) ==
    LET a == Numeral[m]
        b == Numeral[n]
    IN  \/ IsStrictPrefix(a, b)
        \/ \E k \in DOMAIN a \cap DOMAIN b :
              a[k] < b[k] /\ \A j \in 1..(k - 1) : a[j] = b[j]

\* The k-th name has k - 1 others before it.
_list_segments(files) ==
    [k \in 1..Cardinality(DOMAIN files) |->
        CHOOSE m \in DOMAIN files : Cardinality({n \in DOMAIN files : NameBefore(n, m)}) = k - 1]

\* A segment is read up to its first bad record.
Readable(segment) ==
    LET torn == SelectInSeq(segment, LAMBDA r : r = Torn)
    IN  IF torn = 0 THEN segment ELSE SubSeq(segment, 1, torn - 1)

\* Mutant: only the newest segment is read.
replay_LastSegment(files) == Readable(files[Last(_list_segments(files))])

\* The records a replay calls back for, of all segments.
replay(files) ==
    LET names == _list_segments(files)
    IN  FlattenSeq([k \in DOMAIN names |-> Readable(files[names[k]])])

\* Mutant: the file is opened with truncation.
_open_or_create_segment_Truncates(w) ==
    LET name == w.lsn + 1
    IN  [files   |-> [s \in DOMAIN w.files \cup {name} |-> IF s = name THEN <<>> ELSE w.files[s]],
         lsn     |-> w.lsn,
         current |-> name,
         written |-> 0,
         bad     |-> FALSE]

\* lsn_ counts from 0 in every process, so this reopens an older file if there is one.
_open_or_create_segment(w) ==
    LET name == w.lsn + 1
    IN  [files   |-> IF name \in DOMAIN w.files THEN w.files
                     ELSE [s \in DOMAIN w.files \cup {name} |-> IF s = name THEN <<>> ELSE w.files[s]],
         lsn     |-> w.lsn,
         current |-> name,
         written |-> IF name \in DOMAIN w.files THEN Len(w.files[name]) ELSE 0,
         bad     |-> FALSE]

\* The constructor, on what is in the directory.
OpenLog(files) ==
    _open_or_create_segment([files |-> files, lsn |-> 0, current |-> 0, written |-> 0, bad |-> FALSE])

Rotates(w, max) == w.written >= max

Rotated(w, max) == IF Rotates(w, max) THEN _open_or_create_segment(w) ELSE w

\* A stream that failed once writes nothing more until the next segment is opened, and
\* reports nothing.
AppendTo(w, entries) ==
    [w EXCEPT !.lsn = @ + 1,
              !.written = @ + 1,
              !.files[w.current] = IF w.bad THEN @ ELSE @ \o entries]

_write(w, rec, max) == AppendTo(Rotated(w, max), <<rec>>)

\* The disk is full: a part of the record at most gets there, and the stream turns bad.
WriteFails(w, max, part) == [AppendTo(Rotated(w, max), part) EXCEPT !.bad = TRUE]

\* A crash in the middle of _write: nothing, a part or all of the record is on disk.
CrashOutcomes(w, rec, max) ==
    {AppendTo(Rotated(w, max), part).files : part \in {<<>>, <<Torn>>, <<rec>>}}
=============================================================================
