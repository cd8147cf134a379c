----------------------------- MODULE BulkImport ------------------------------
(***************************************************************************)
(* bulkimport/import.go: what a worker makes of one input file, and the    *)
(* one writer that takes the results of the workers, in the order they     *)
(* come, into the catalog in batches.  The state of the writer is a        *)
(* record; what it put into the catalog is only counted.                   *)
(***************************************************************************)
EXTENDS Naturals, Sequences, FiniteSets, SequencesExt, FiniteSetsExt

CONSTANTS
  MaxEntries,  \* entries one import may have; 0 for any number
  Batch        \* accounts per write

ASSUME ImportAssumption == MaxEntries \in Nat /\ Batch \in Nat \ {0}

\* A file has a format and a sequence of entries: the account each is for, or Bad.
Bad == "bad"

\* A file of which the entries at the positions I became accounts; the writer drops
\* all but one of those that are the same.
Result(total, entries, I, failed, error) ==
  [total |-> total, accounts |-> Cardinality(I),
   distinct |-> Cardinality({entries[i] : i \in I}), failed |-> failed, error |-> error]

Unread == Result(0, <<>>, {}, 1, TRUE)

Accounts(entries) == {i \in DOMAIN entries : entries[i] # Bad}
TooMany(entries) == MaxEntries > 0 /\ Len(entries) > MaxEntries

\* An array of credentials: all or nothing if it cannot be parsed, cannot be
\* counted, or the context ends.
JSONResults(entries, done) ==
  IF TooMany(entries) THEN {Unread}
  ELSE {Result(Len(entries), entries, Accounts(entries),
               Len(entries) - Cardinality(Accounts(entries)), FALSE)}
       \cup IF done THEN {Result(Len(entries), entries, {}, Len(entries), TRUE)} ELSE {}

\* A line at a time; the first one that is bad or one too many fails the file.
NDJSONResults(entries, done) ==
  LET n == IF MaxEntries > 0 /\ MaxEntries < Len(entries) THEN MaxEntries ELSE Len(entries)
      bad == {i \in 1 .. n : entries[i] = Bad}
      whole == bad = {} /\ n = Len(entries)
      read == IF bad = {} THEN n ELSE Min(bad) - 1
  IN  {IF whole THEN Result(n, entries, 1 .. n, 0, FALSE) ELSE Result(read, entries, {}, 1, TRUE)}
      \cup IF done THEN {Result(i, entries, {}, 1, TRUE) : i \in 0 .. read} ELSE {}

\* Values converted in chunks, here of one; a chunk may fail, and the context may
\* end between two of them: what was converted is kept.
SSOResults(entries, done) ==
  IF TooMany(entries) THEN {Unread}
  ELSE LET Got(n, lost) ==
             LET got == {i \in Accounts(entries) : i <= n} \ lost
             IN  Result(Len(entries), entries, got, Len(entries) - Cardinality(got),
                        lost # {} \/ n < Len(entries))
       IN  {Got(Len(entries), lost) : lost \in SUBSET DOMAIN entries}
           \cup IF done THEN {Got(n, {}) : n \in 0 .. Len(entries)} ELSE {}

\* processFile: what a worker may answer for a file; done: the context may have ended.
ProcessFile(file, done) ==
  (IF done THEN {Unread} ELSE {})
  \cup CASE file.format = "json" -> JSONResults(file.entries, done)
         [] file.format = "sso" -> SSOResults(file.entries, done)
         [] file.format = "ndjson" -> NDJSONResults(file.entries, done)

-------------------------------------------------------------------------------
(* The writer.                                                             *)

Writer == [total |-> 0, ok |-> 0, failed |-> 0, skipped |-> 0,
           buffer |-> 0,    \* accounts that wait for a full batch
           written |-> 0,   \* accounts in the catalog
           error |-> FALSE]

\* Reports of an import that was given up: the counts so far, or none.
Aborted(w) == [w EXCEPT !.error = TRUE, !.buffer = 0]
Zeroed(w) == [Writer EXCEPT !.written = w.written, !.error = TRUE]

\* Mutant: the last, partial batch is forgotten.
Flush_WholeBatches(w, ok) ==
  IF ~ok THEN Zeroed(w)
  ELSE IF w.buffer < Batch THEN [w EXCEPT !.buffer = 0]
  ELSE [w EXCEPT !.written = @ + w.buffer, !.buffer = 0]

\* flush: fails with the context or the store.  The guard on the resident size of
\* the process, which may give up after a write, is left out.
Flush(w, ok) ==
  IF ok THEN [w EXCEPT !.written = @ + w.buffer, !.buffer = 0] ELSE Zeroed(w)

\* The n distinct accounts of one file join the buffer, which is flushed whenever a
\* batch is full; failAt is the flush that fails, or 0.
Take(w, n, failAt) ==
  LET waiting == w.buffer + n
      full == waiting \div Batch
  IN  IF failAt \in 1 .. full
        THEN Zeroed([w EXCEPT !.written = @ + (failAt - 1) * Batch])
        ELSE [w EXCEPT !.ok = @ + n, !.written = @ + full * Batch, !.buffer = waiting % Batch]

\* The body of the loop over results; several says whether there is another file.
Consume(w, result, several, failAt) ==
  LET counted == [w EXCEPT !.total = @ + result.total, !.failed = @ + result.failed,
                           !.skipped = @ + result.accounts - result.distinct]
  IN  IF MaxEntries > 0 /\ several /\ result.error THEN Aborted(counted)
      ELSE IF MaxEntries > 0 /\ counted.total > MaxEntries THEN Zeroed(counted)
      ELSE Take(counted, result.distinct, failAt)
==============================================================================
