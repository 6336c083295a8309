------------------------------ MODULE Journal ------------------------------
(***************************************************************************)
(* The append-only journals of a node (jsonl_store.rs), under the events,   *)
(* the audit records and the operations timeline: one JSON record a line,   *)
(* appended under an exclusive flock and read back under a shared one.      *)
(* An appending process may die, or find the disk full, at any byte: the    *)
(* model cuts a line after half of the record and before its newline.       *)
(***************************************************************************)
EXTENDS Naturals, Sequences, SequencesExt

CONSTANTS
    Writers,        \* processes that append
    Limit,          \* how many records a reader asks for
    MaxRecords,     \* bound: number of appends
    MaxCuts         \* bound: number of appends cut short

JournalAssumption == Limit \in Nat \ {0} /\ MaxRecords \in Nat /\ MaxCuts \in Nat

VARIABLES
    bytes,      \* the file: which part of which record follows which
    flock,      \* the writers that hold the exclusive lock
    writing,    \* the record each writer appends and the parts still to write
    cuts,
    order,      \* history: the records in the order they were written whole
    torn        \* history: a record follows one that was cut short

vars == <<bytes, flock, writing, cuts, order, torn>>

Parts == <<"half", "rest", "newline">>
NoRecord == [record |-> 0, parts |-> <<>>]

Init ==
    /\ bytes = <<>> /\ flock = {}
    /\ writing = [w \in Writers |-> NoRecord]
    /\ cuts = 0 /\ order = <<>> /\ torn = FALSE

Part(b) == b[2]
Record(b) == b[1]

\* The file ends in the middle of a line.
Unfinished == bytes # <<>> /\ Part(Last(bytes)) # "newline"

Issued == {Record(bytes[i]) : i \in DOMAIN bytes} \cup {writing[w].record : w \in Writers}

-----------------------------------------------------------------------------
(* Appending. *)

\* Mutant: the append does not lock the file.
Unlocked == TRUE

\* The exclusive flock waits for the other appends.
Exclusive == flock = {}

\* The file is opened and flocked, whatever is at its end.
Open(w) ==
    /\ writing[w] = NoRecord
    /\ Exclusive
    /\ \E r \in 1..MaxRecords :
         /\ r \notin Issued /\ \A s \in 1..(r - 1) : s \in Issued
         /\ writing' = [writing EXCEPT ![w] = [record |-> r, parts |-> Parts]]
    /\ flock' = flock \cup {w}
    /\ torn' = (torn \/ (flock = {} /\ Unfinished))
    /\ UNCHANGED <<bytes, cuts, order>>

\* write_all appends at the end of the file, in as many writes as it takes.
Write(w) ==
    LET job == writing[w] IN
    /\ job.parts # <<>>
    /\ bytes' = Append(bytes, <<job.record, Head(job.parts)>>)
    /\ writing' = [writing EXCEPT ![w].parts = Tail(@)]
    /\ order' = IF Head(job.parts) = "rest" THEN Append(order, job.record) ELSE order
    /\ UNCHANGED <<flock, cuts, torn>>

\* The line is there and synced: the append returns, which closes the file.
Close(w) ==
    /\ writing[w] # NoRecord /\ writing[w].parts = <<>>
    /\ writing' = [writing EXCEPT ![w] = NoRecord]
    /\ flock' = flock \ {w}
    /\ UNCHANGED <<bytes, cuts, order, torn>>

\* The process dies, or write_all fails, with part of the line written.
Cut(w) ==
    /\ writing[w].parts # <<>> /\ writing[w].parts # Parts /\ cuts < MaxCuts
    /\ cuts' = cuts + 1
    /\ writing' = [writing EXCEPT ![w] = NoRecord]
    /\ flock' = flock \ {w}
    /\ UNCHANGED <<bytes, order, torn>>

Next == \E w \in Writers : Open(w) \/ Write(w) \/ Close(w) \/ Cut(w)

Spec == Init /\ [][Next]_vars

-----------------------------------------------------------------------------
(* Reading. *)

\* One JSON value, without the newline.
Parsed(line) == Len(line) = 2 /\ Part(line[2]) = "rest" /\ Record(line[1]) = Record(line[2])

Start == [line |-> <<>>, values |-> <<>>, refused |-> FALSE]

\* The last Limit values are kept, in the order of the file.
Push(values, r) == Append(IF Len(values) = Limit THEN Tail(values) ELSE values, r)

\* A complete line that is not a record refuses the whole read.
ReadByte(so_far, b) ==
    IF so_far.refused THEN so_far
    ELSE IF Part(b) # "newline" THEN [so_far EXCEPT !.line = Append(@, b)]
    ELSE IF Parsed(so_far.line)
    THEN [line |-> <<>>, values |-> Push(so_far.values, Record(so_far.line[1])), refused |-> FALSE]
    ELSE [so_far EXCEPT !.refused = TRUE]

\* What is read after the first n bytes.
reading[n \in 0..Len(bytes)] ==
    IF n = 0 THEN Start ELSE ReadByte(reading[n - 1], bytes[n])

\* The end of the file: an incomplete line counts if it parses.
latest ==
    LET end == reading[Len(bytes)] IN
    [refused |-> end.refused,
     values |-> Reverse(IF Parsed(end.line) THEN Push(end.values, Record(end.line[1]))
                        ELSE end.values)]

-----------------------------------------------------------------------------
\* A reader, which waits for the writer to unlock, gets exactly the last records
\* in reverse order, each once, those of processes that died behind the record
\* included, and never half a record: until somebody appends to a line that was
\* cut short.
JournalIsRead ==
    flock = {} /\ ~torn =>
        /\ ~latest.refused
        /\ LET first == IF Len(order) > Limit THEN Len(order) - Limit + 1 ELSE 1 IN
           latest.values = Reverse(SubSeq(order, first, Len(order)))
=============================================================================
