---------------------------- MODULE Console_proofs ----------------------------
(* Proofs about ImportJobs, with the writer of BulkImport, and about the    *)
(* parts of Console, the limits of ImportDocuments among them.              *)
EXTENDS ImportJobs, Console, FunctionTheorems, FiniteSetTheorems, WellFoundedInduction, TLAPS

-----------------------------------------------------------------------------
\* What a worker answers for a file: never more accounts than entries, nor more
\* different accounts than accounts.

File == [format : {"json", "sso", "ndjson"}, entries : Seq(STRING)]

Answer == {a \in [total : Nat, accounts : Nat, distinct : Nat, failed : Nat, error : BOOLEAN] :
             a.distinct <= a.accounts /\ a.accounts <= a.total}

LEMMA LeastNumber ==
  ASSUME NEW T \in SUBSET Nat, T # {}
  PROVE  Min(T) \in T /\ \A y \in T : Min(T) <= y
<1> DEFINE Below == {q \in Nat \X Nat : q[1] < q[2]}
<1>1. IsWellFoundedOn(Below, Nat)
  BY NatLessThanWellFounded DEF OpToRel
<1>2. \A x, y \in Nat : <<y, x>> \in Below <=> y < x
  OBVIOUS
<1> HIDE DEF Below
<1>3. PICK x \in T : \A y \in T : ~(<<y, x>> \in Below)
  BY <1>1, WFMin
<1>4. ASSUME NEW y \in T PROVE x <= y
  <2>1. x \in Nat /\ y \in Nat
    OBVIOUS
  <2>2. ~(y < x)
    BY <1>2, <1>3, <2>1
  <2> QED BY <2>1, <2>2
<1>5. \E m \in T : \A y \in T : m <= y
  BY <1>4
<1> QED BY <1>5 DEF Min

LEMMA UpTo ==
  ASSUME NEW n \in Nat
  PROVE  IsFiniteSet(1 .. n) /\ Cardinality(1 .. n) = n
<1>1. 1 \in Int /\ n \in Int /\ (IF 1 > n THEN 0 ELSE n - 1 + 1) = n
  OBVIOUS
<1> QED BY <1>1, FS_Interval

LEMMA Counted ==
  ASSUME NEW entries \in Seq(STRING), NEW I \in SUBSET DOMAIN entries
  PROVE  /\ IsFiniteSet(I) /\ Cardinality(I) \in Nat
         /\ Cardinality({entries[i] : i \in I}) \in Nat
         /\ Cardinality({entries[i] : i \in I}) <= Cardinality(I)
         /\ Cardinality(I) <= Len(entries)
<1>1. DOMAIN entries = 1 .. Len(entries) /\ Len(entries) \in Nat
  OBVIOUS
<1>2. IsFiniteSet(1 .. Len(entries)) /\ Cardinality(1 .. Len(entries)) = Len(entries)
  BY <1>1, UpTo
<1>3. IsFiniteSet(I) /\ Cardinality(I) <= Len(entries)
  BY <1>1, <1>2, FS_Subset
<1> DEFINE T == {entries[i] : i \in I}
           f == [i \in I |-> entries[i]]
<1>4. f \in Surjection(I, T)
  BY DEF Surjection
<1> HIDE DEF f, T
<1>5. IsFiniteSet(T) /\ Cardinality(T) <= Cardinality(I)
  BY <1>3, <1>4, FS_Surjection
<1>6. Cardinality(T) \in Nat /\ Cardinality(I) \in Nat
  BY <1>3, <1>5, FS_CardinalityType
<1> QED BY <1>3, <1>5, <1>6 DEF T

LEMMA ResultSound ==
  ASSUME NEW entries \in Seq(STRING), NEW I \in SUBSET DOMAIN entries,
         NEW total \in Nat, Cardinality(I) <= total, NEW failed \in Nat, NEW error \in BOOLEAN
  PROVE  Result(total, entries, I, failed, error) \in Answer
<1>1. /\ Cardinality(I) \in Nat /\ Cardinality({entries[i] : i \in I}) \in Nat
      /\ Cardinality({entries[i] : i \in I}) <= Cardinality(I)
  BY Counted
<1> QED BY <1>1 DEF Result, Answer

LEMMA FileSound ==
  ASSUME NEW text \in File, NEW done \in BOOLEAN, NEW a \in ProcessFile(text, done)
  PROVE  a \in Answer
<1> DEFINE e == text.entries
           n == Len(e)
<1>1. e \in Seq(STRING) /\ n \in Nat /\ DOMAIN e = 1 .. n
  BY DEF File
<1>2. Cardinality({}) = 0
  BY FS_EmptySet
<1> HIDE DEF e
<1>3. ASSUME NEW total \in Nat, NEW failed \in Nat, NEW error \in BOOLEAN
      PROVE  Result(total, e, {}, failed, error) \in Answer
  BY <1>1, <1>2, ResultSound
<1>4. Unread \in Answer
  <2>1. <<>> \in Seq(STRING) /\ {} \in SUBSET DOMAIN <<>>
    OBVIOUS
  <2>2. Cardinality({}) <= 0 /\ 0 \in Nat /\ 1 \in Nat /\ TRUE \in BOOLEAN
    BY <1>2
  <2>3. Result(0, <<>>, {}, 1, TRUE) \in Answer
    BY <2>1, <2>2, ResultSound
  <2> QED BY <2>3 DEF Unread
<1>5. ASSUME NEW I \in SUBSET DOMAIN e, NEW error \in BOOLEAN
      PROVE  Result(n, e, I, n - Cardinality(I), error) \in Answer
  <2>1. Cardinality(I) \in Nat /\ Cardinality(I) <= n
    BY <1>1, Counted
  <2>2. n - Cardinality(I) \in Nat
    BY <1>1, <2>1
  <2> QED BY <1>1, <2>1, <2>2, ResultSound
<1>6. ASSUME a \in JSONResults(e, done) PROVE a \in Answer
  <2>1. Accounts(e) \in SUBSET DOMAIN e
    BY DEF Accounts
  <2>2. \/ a = Unread
        \/ a = Result(n, e, Accounts(e), n - Cardinality(Accounts(e)), FALSE)
        \/ a = Result(n, e, {}, n, TRUE)
    BY <1>6 DEF JSONResults
  <2> QED BY <1>1, <1>3, <1>4, <1>5, <2>1, <2>2
<1>7. ASSUME a \in SSOResults(e, done) PROVE a \in Answer
  <2>1. \/ a = Unread
        \/ \E I \in SUBSET DOMAIN e, error \in BOOLEAN :
              a = Result(n, e, I, n - Cardinality(I), error)
    BY <1>7 DEF SSOResults, Accounts
  <2> QED BY <1>4, <1>5, <2>1
<1>8. ASSUME a \in NDJSONResults(e, done) PROVE a \in Answer
  <2> DEFINE m == IF MaxEntries > 0 /\ MaxEntries < Len(e) THEN MaxEntries ELSE Len(e)
             bad == {i \in 1 .. m : e[i] = Bad}
             read == IF bad = {} THEN m ELSE Min(bad) - 1
  <2>1. m \in Nat /\ m <= n
    BY <1>1, ImportAssumption
  <2>2. read \in Nat
    <3>1. bad \in SUBSET Nat /\ \A i \in bad : i >= 1
      BY <2>1
    <3> HIDE DEF bad, m
    <3>2. bad # {} => Min(bad) \in bad
      BY <3>1, LeastNumber
    <3>3. bad # {} => Min(bad) \in Nat /\ Min(bad) >= 1
      BY <3>1, <3>2
    <3>4. CASE bad = {}
      BY <2>1, <3>4
    <3>5. CASE bad # {}
      <4>1. read = Min(bad) - 1
        BY <3>5
      <4> HIDE DEF read
      <4> QED BY <3>3, <3>5, <4>1
    <3> QED BY <3>4, <3>5
  <2>3. \/ m = n /\ a = Result(m, e, 1 .. m, 0, FALSE)
        \/ a = Result(read, e, {}, 1, TRUE)
        \/ \E i \in 0 .. read : a = Result(i, e, {}, 1, TRUE)
    BY <1>8 DEF NDJSONResults
  <2> HIDE DEF m, bad, read
  <2>4. m = n => Result(m, e, 1 .. m, 0, FALSE) \in Answer
    <3>1. Cardinality(1 .. n) = n
      BY <1>1, UpTo
    <3>2. 1 .. n \in SUBSET DOMAIN e /\ Cardinality(1 .. n) <= n /\ 0 \in Nat /\ FALSE \in BOOLEAN
      BY <1>1, <3>1
    <3>3. Result(n, e, 1 .. n, 0, FALSE) \in Answer
      BY <1>1, <3>2, ResultSound
    <3> QED BY <3>3
  <2>5. \A i \in Nat : Result(i, e, {}, 1, TRUE) \in Answer
    BY <1>3
  <2>6. 0 .. read \subseteq Nat
    BY <2>2
  <2> QED BY <2>2, <2>3, <2>4, <2>5, <2>6
<1> QED BY <1>4, <1>6, <1>7, <1>8 DEF ProcessFile, File, e

-----------------------------------------------------------------------------
\* The writer.  As long as no write has failed, an account it counts is in the
\* catalog or in the buffer, which holds less than a batch.

WriterFields == {"total", "ok", "failed", "skipped", "buffer", "written", "error"}

IsWriter(w) ==
  /\ DOMAIN w = WriterFields
  /\ w.total \in Nat /\ w.ok \in Nat /\ w.failed \in Nat /\ w.skipped \in Nat
  /\ w.buffer \in Nat /\ w.written \in Nat /\ w.error \in BOOLEAN

Sound(w) == w.error \/ (w.ok = w.written + w.buffer /\ w.ok <= w.total /\ w.buffer < Batch)

LEMMA WriterStarts == IsWriter(Writer) /\ Sound(Writer) /\ ~Writer.error /\ Writer.written = 0
  BY ImportAssumption DEF Writer, WriterFields, IsWriter, Sound

LEMMA GivenUp ==
  ASSUME NEW w, IsWriter(w)
  PROVE  /\ IsWriter(Zeroed(w)) /\ Zeroed(w).error
         /\ IsWriter(Aborted(w)) /\ Aborted(w).error
  BY DEF Zeroed, Aborted, Writer, IsWriter, WriterFields

LEMMA FlushSound ==
  ASSUME NEW w, IsWriter(w), NEW ok \in BOOLEAN, Sound(w), ~w.error
  PROVE  /\ IsWriter(Flush(w, ok))
         /\ ~Flush(w, ok).error =>
              ok /\ Flush(w, ok).ok = Flush(w, ok).written /\ Flush(w, ok).ok <= Flush(w, ok).total
<1>1. CASE ok
  <2> DEFINE v == [w EXCEPT !.written = @ + w.buffer, !.buffer = 0]
  <2>1. Flush(w, ok) = v
    BY <1>1 DEF Flush
  <2>2. /\ DOMAIN v = WriterFields /\ v.written = w.written + w.buffer /\ v.buffer = 0
        /\ v.total = w.total /\ v.ok = w.ok /\ v.failed = w.failed /\ v.skipped = w.skipped
        /\ v.error = w.error
    BY DEF IsWriter, WriterFields
  <2> HIDE DEF v
  <2>3. w.written + w.buffer \in Nat /\ w.ok = w.written + w.buffer /\ w.ok <= w.total
    BY DEF IsWriter, Sound
  <2>4. IsWriter(v)
    BY <2>2, <2>3 DEF IsWriter
  <2> QED BY <1>1, <2>1, <2>2, <2>3, <2>4
<1>2. CASE ~ok
  BY <1>2, GivenUp DEF Flush
<1> QED BY <1>1, <1>2

LEMMA Whole ==
  ASSUME NEW n \in Nat
  PROVE  /\ n = (n \div Batch) * Batch + (n % Batch) /\ n \div Batch \in Nat
         /\ n % Batch \in Nat /\ n % Batch < Batch
  BY ImportAssumption

LEMMA TakeSound ==
  ASSUME NEW w, IsWriter(w), ~w.error, w.ok = w.written + w.buffer, w.buffer < Batch,
         NEW n \in Nat, w.ok + n <= w.total, NEW failAt \in Nat
  PROVE  IsWriter(Take(w, n, failAt)) /\ Sound(Take(w, n, failAt))
<1> DEFINE waiting == w.buffer + n
           full == waiting \div Batch
           rest == waiting % Batch
<1>1. waiting \in Nat /\ w.written \in Nat /\ w.buffer \in Nat /\ w.ok \in Nat /\ w.total \in Nat
  BY DEF IsWriter
<1> HIDE DEF waiting
<1>2. waiting = full * Batch + rest /\ full \in Nat /\ rest \in Nat /\ rest < Batch
  BY <1>1, Whole
<1>3. full * Batch \in Nat
  BY <1>2, ImportAssumption
<1>4. CASE failAt \in 1 .. full
  <2> DEFINE t == (failAt - 1) * Batch
             v == [w EXCEPT !.written = @ + t]
  <2>1. t \in Nat
    BY <1>4, ImportAssumption
  <2>3. Take(w, n, failAt) = Zeroed(v)
    BY <1>4 DEF Take, waiting
  <2> HIDE DEF t
  <2>4. /\ DOMAIN v = WriterFields /\ v.written = w.written + t /\ v.buffer = w.buffer
        /\ v.total = w.total /\ v.ok = w.ok /\ v.failed = w.failed /\ v.skipped = w.skipped
        /\ v.error = w.error
    BY DEF IsWriter, WriterFields
  <2> HIDE DEF v
  <2>5. w.written + t \in Nat
    BY <1>1, <2>1
  <2>6. IsWriter(v)
    BY <2>4, <2>5 DEF IsWriter
  <2> QED BY <2>3, <2>6, GivenUp DEF Sound
<1>5. CASE failAt \notin 1 .. full
  <2> DEFINE t == full * Batch
             v == [w EXCEPT !.ok = @ + n, !.written = @ + t, !.buffer = rest]
  <2>1. Take(w, n, failAt) = v
    BY <1>5 DEF Take, waiting
  <2>2. w.buffer + n = t + rest
    BY <1>2 DEF waiting
  <2>3. t \in Nat
    BY <1>3
  <2> HIDE DEF full, rest, t
  <2>4. /\ DOMAIN v = WriterFields /\ v.written = w.written + t /\ v.buffer = rest
        /\ v.total = w.total /\ v.ok = w.ok + n /\ v.failed = w.failed /\ v.skipped = w.skipped
        /\ v.error = w.error
    BY DEF IsWriter, WriterFields
  <2> HIDE DEF v
  <2>5. w.ok + n \in Nat /\ w.written + t \in Nat /\ w.ok + n = w.written + t + rest
    BY <1>1, <1>2, <2>2, <2>3
  <2>6. IsWriter(v)
    BY <1>2, <2>4, <2>5 DEF IsWriter
  <2>7. Sound(v)
    BY <1>1, <1>2, <2>4, <2>5 DEF Sound
  <2> QED BY <2>1, <2>6, <2>7
<1> QED BY <1>4, <1>5

LEMMA ConsumeSound ==
  ASSUME NEW w, IsWriter(w), Sound(w), ~w.error, NEW a \in Answer, NEW several,
         NEW failAt \in Nat
  PROVE  IsWriter(Consume(w, a, several, failAt)) /\ Sound(Consume(w, a, several, failAt))
<1> DEFINE c == [w EXCEPT !.total = @ + a.total, !.failed = @ + a.failed,
                          !.skipped = @ + a.accounts - a.distinct]
<1>1. /\ a.total \in Nat /\ a.failed \in Nat /\ a.accounts \in Nat /\ a.distinct \in Nat
      /\ a.distinct <= a.accounts /\ a.accounts <= a.total
  BY DEF Answer
<1>2. /\ DOMAIN c = WriterFields /\ c.total = w.total + a.total /\ c.ok = w.ok
      /\ c.failed = w.failed + a.failed /\ c.skipped = w.skipped + a.accounts - a.distinct
      /\ c.buffer = w.buffer /\ c.written = w.written /\ c.error = w.error
  BY DEF IsWriter, WriterFields
<1>4. \/ Consume(w, a, several, failAt) \in {Aborted(c), Zeroed(c)}
      \/ Consume(w, a, several, failAt) = Take(c, a.distinct, failAt)
  BY DEF Consume
<1> HIDE DEF c
<1>3. IsWriter(c)
  <2>1. /\ w.skipped + a.accounts - a.distinct \in Nat
        /\ w.total + a.total \in Nat /\ w.failed + a.failed \in Nat
    BY <1>1 DEF IsWriter
  <2> QED BY <1>2, <2>1 DEF IsWriter
<1>5. /\ w.ok \in Nat /\ w.total \in Nat /\ w.ok = w.written + w.buffer
      /\ w.ok <= w.total /\ w.buffer < Batch
  BY DEF IsWriter, Sound
<1>6. /\ ~c.error /\ c.ok = c.written + c.buffer /\ c.buffer < Batch
      /\ c.ok + a.distinct <= c.total
  BY <1>1, <1>2, <1>5
<1>7. IsWriter(Take(c, a.distinct, failAt)) /\ Sound(Take(c, a.distinct, failAt))
  BY <1>1, <1>3, <1>6, TakeSound
<1> QED BY <1>3, <1>4, <1>7, GivenUp DEF Sound

-----------------------------------------------------------------------------
\* The table.  Trimming leaves it alone or removes one finished job from it and
\* from the order.

LEMMA Removed ==
  ASSUME NEW S, NEW s \in Seq(S), NEW i \in 1 .. Len(s)
  PROVE  /\ RemoveAt(s, i) \in Seq(S) /\ Len(RemoveAt(s, i)) = Len(s) - 1
         /\ \A k \in 1 .. Len(s) - 1 : RemoveAt(s, i)[k] = IF k < i THEN s[k] ELSE s[k + 1]
<1> DEFINE a == SubSeq(s, 1, i - 1)
           b == SubSeq(s, i + 1, Len(s))
<1>1. /\ a \in Seq(S) /\ Len(a) = i - 1 /\ \A k \in 1 .. i - 1 : a[k] = s[k]
  OBVIOUS
<1>2. /\ b \in Seq(S) /\ Len(b) = Len(s) - i /\ \A k \in 1 .. Len(s) - i : b[k] = s[k + i]
  OBVIOUS
<1>3. RemoveAt(s, i) = a \o b
  BY DEF RemoveAt
<1> HIDE DEF a, b
<1>4. /\ a \o b \in Seq(S) /\ Len(a \o b) = Len(a) + Len(b)
      /\ \A k \in 1 .. Len(a) + Len(b) : (a \o b)[k] = IF k <= Len(a) THEN a[k] ELSE b[k - Len(a)]
  <2>1. a \in Seq(S) /\ b \in Seq(S)
    BY <1>1, <1>2
  <2>2. a \o b \in Seq(S) /\ Len(a \o b) = Len(a) + Len(b)
    BY <2>1
  <2>3. \A k \in 1 .. Len(a) + Len(b) : (a \o b)[k] = IF k <= Len(a) THEN a[k] ELSE b[k - Len(a)]
    BY <2>1
  <2> QED BY <2>2, <2>3
<1>5. Len(s) \in Nat /\ Len(a) + Len(b) = Len(s) - 1
  BY <1>1, <1>2
<1>6. ASSUME NEW k \in 1 .. Len(s) - 1
      PROVE  RemoveAt(s, i)[k] = IF k < i THEN s[k] ELSE s[k + 1]
  <2>1. CASE k < i
    BY <1>1, <1>3, <1>4, <1>5, <2>1
  <2>2. CASE ~(k < i)
    <3>1. k - Len(a) \in 1 .. Len(s) - i /\ (k - Len(a)) + i = k + 1 /\ ~(k <= Len(a))
      BY <1>1, <1>5, <2>2
    <3>2. b[k - Len(a)] = s[k + 1]
      BY <1>2, <3>1
    <3> QED BY <1>3, <1>4, <1>5, <2>2, <3>1, <3>2
  <2> QED BY <2>1, <2>2
<1> QED BY <1>3, <1>4, <1>5, <1>6

LEMMA RemovedOnce ==
  ASSUME NEW S, NEW s \in Seq(S), IsInjective(s), NEW i \in 1 .. Len(s)
  PROVE  IsInjective(RemoveAt(s, i)) /\ ToSet(RemoveAt(s, i)) = ToSet(s) \ {s[i]}
<1> DEFINE t == RemoveAt(s, i)
           n == Len(s)
<1>1. /\ n \in Nat /\ DOMAIN s = 1 .. n /\ DOMAIN t = 1 .. n - 1
      /\ \A k \in 1 .. n - 1 : t[k] = IF k < i THEN s[k] ELSE s[k + 1]
  <2>1. n \in Nat /\ DOMAIN s = 1 .. n
    OBVIOUS
  <2>2. t \in Seq(S) /\ Len(t) = n - 1
    BY Removed
  <2>3. \A k \in 1 .. n - 1 : t[k] = IF k < i THEN s[k] ELSE s[k + 1]
    BY Removed
  <2> HIDE DEF t, n
  <2>4. DOMAIN t = 1 .. n - 1
    BY <2>2
  <2> QED BY <2>1, <2>3, <2>4
<1>2. \A k, l \in 1 .. n : s[k] = s[l] => k = l
  BY <1>1 DEF IsInjective
<1> HIDE DEF t, n
<1>3. ASSUME NEW k \in 1 .. n - 1, NEW l \in 1 .. n - 1, t[k] = t[l] PROVE k = l
  <2> DEFINE up(x) == IF x < i THEN x ELSE x + 1
  <2>1. i \in 1 .. n
    BY DEF n
  <2>2. up(k) \in 1 .. n /\ up(l) \in 1 .. n /\ s[up(k)] = s[up(l)]
    BY <1>1, <1>3, <2>1
  <2>3. up(k) = up(l)
    BY <1>2, <2>2
  <2> QED BY <2>1, <2>3
<1>4. ASSUME NEW k \in 1 .. n - 1 PROVE t[k] \in ToSet(s) \ {s[i]}
  <2>1. i \in 1 .. n
    BY DEF n
  <2>2. CASE k < i
    <3>1. k \in 1 .. n /\ k # i /\ t[k] = s[k]
      BY <1>1, <2>1, <2>2
    <3> QED BY <1>1, <1>2, <2>1, <3>1 DEF ToSet
  <2>3. CASE ~(k < i)
    <3>1. k + 1 \in 1 .. n /\ k + 1 # i /\ t[k] = s[k + 1]
      BY <1>1, <2>1, <2>3
    <3> QED BY <1>1, <1>2, <2>1, <3>1 DEF ToSet
  <2> QED BY <2>2, <2>3
<1>5. ASSUME NEW k \in 1 .. n, k # i PROVE s[k] \in ToSet(t)
  <2>1. i \in 1 .. n
    BY DEF n
  <2>2. CASE k < i
    <3>1. k \in 1 .. n - 1 /\ t[k] = s[k]
      BY <1>1, <2>1, <2>2
    <3> QED BY <1>1, <3>1 DEF ToSet
  <2>3. CASE k > i
    <3>1. k - 1 \in 1 .. n - 1 /\ ~(k - 1 < i) /\ k - 1 + 1 = k
      BY <1>1, <2>1, <2>3
    <3>2. t[k - 1] = s[k]
      BY <1>1, <3>1
    <3> QED BY <1>1, <3>1, <3>2 DEF ToSet
  <2> QED BY <1>5, <2>1, <2>2, <2>3
<1>6. IsInjective(t)
  BY <1>1, <1>3 DEF IsInjective
<1>7. ToSet(t) = ToSet(s) \ {s[i]}
  BY <1>1, <1>4, <1>5 DEF ToSet
<1> QED BY <1>6, <1>7 DEF t

\* The ids of a set without repetition are no more than its members.
LEMMA NoMore ==
  ASSUME NEW S, NEW s \in Seq(S), IsInjective(s), IsFiniteSet(S)
  PROVE  Len(s) <= Cardinality(S) /\ Len(s) \in Nat
<1>1. Len(s) \in Nat /\ s \in [1 .. Len(s) -> S]
  OBVIOUS
<1>2. s \in Injection(1 .. Len(s), S)
  BY <1>1 DEF Injection
<1>3. Cardinality(1 .. Len(s)) <= Cardinality(S)
  BY <1>2, FS_Injection
<1> QED BY <1>1, <1>3, UpTo

Trims(js, ord, t) ==
  \/ /\ t.jobs = js /\ t.order = ord
     /\ Len(ord) <= MaxKeep \/ \A q \in ToSet(ord) : ~Finished(js[q])
  \/ \E x \in ToSet(ord) :
        /\ Finished(js[x]) /\ Len(t.order) = Len(ord) - 1 /\ ToSet(t.order) = ToSet(ord) \ {x}
        /\ t.jobs = [q \in Requests |-> IF q = x THEN NoJob ELSE js[q]]

LEMMA TrimSound ==
  ASSUME NEW js, js = [q \in Requests |-> js[q]],
         NEW ord \in Seq(Requests), IsInjective(ord)
  PROVE  /\ Trimmed(js, ord).order \in Seq(Requests) /\ IsInjective(Trimmed(js, ord).order)
         /\ Trims(js, ord, Trimmed(js, ord))
<1> DEFINE done == {i \in DOMAIN ord : Finished(js[ord[i]])}
           t == Trimmed(js, ord)
<1>1. Len(ord) \in Nat /\ DOMAIN ord = 1 .. Len(ord) /\ \A i \in DOMAIN ord : ord[i] \in Requests
  OBVIOUS
<1>2. CASE Len(ord) <= MaxKeep \/ done = {}
  <2>1. t.jobs = js /\ t.order = ord
    BY <1>2 DEF Trimmed
  <2>2. done = {} => \A q \in ToSet(ord) : ~Finished(js[q])
    BY DEF ToSet
  <2> HIDE DEF done, t
  <2>3. Trims(js, ord, t)
    BY <1>2, <2>1, <2>2 DEF Trims
  <2> QED BY <2>1, <2>3 DEF t
<1>3. CASE ~(Len(ord) <= MaxKeep) /\ done # {}
  <2> DEFINE i == Min(done)
             x == ord[i]
  <2>1. done \in SUBSET Nat
    BY <1>1
  <2>2. i \in done
    BY <1>3, <2>1, LeastNumber
  <2>3. i \in 1 .. Len(ord) /\ Finished(js[x]) /\ x \in Requests /\ x \in ToSet(ord)
    BY <1>1, <2>2 DEF ToSet
  <2>4. t.jobs = [js EXCEPT ![x] = NoJob] /\ t.order = RemoveAt(ord, i)
    BY <1>3 DEF Trimmed
  <2> HIDE DEF i, done, t
  <2>5. t.order \in Seq(Requests) /\ Len(t.order) = Len(ord) - 1
    BY <2>3, <2>4, Removed
  <2>6. IsInjective(t.order) /\ ToSet(t.order) = ToSet(ord) \ {x}
    BY <2>3, <2>4, RemovedOnce
  <2>7. t.jobs = [q \in Requests |-> IF q = x THEN NoJob ELSE js[q]]
    BY <2>3, <2>4
  <2>8. Trims(js, ord, t)
    BY <2>3, <2>5, <2>6, <2>7 DEF Trims
  <2> QED BY <2>5, <2>6, <2>8 DEF t
<1> QED BY <1>2, <1>3


-----------------------------------------------------------------------------
\* The jobs.  What the report of a job says depends on how far its goroutine is.

Before == {"idle", "reserved", "staging", "ready", "leaving", "removed"}
Working == {"queued", "importing", "written", "listed", "ended", "removed"}

RunFields == {"at", "todo", "several", "expired", "writer", "failed"}
JobFields == {"state", "ok", "total"}

IsRun(j) ==
  /\ DOMAIN j = RunFields
  /\ j.todo \in Seq(File) /\ j.expired \in BOOLEAN /\ j.failed \in BOOLEAN
  /\ IsWriter(j.writer)

\* The import has everything it counts in the catalog.
Wrote(j) == j.todo = <<>> /\ j.writer.ok = j.writer.written /\ j.writer.ok <= j.writer.total

JobFits(j, job, known) ==
  \/ j.at = "none" /\ job = NoJob
  \/ j.at = "queued" /\ job.state = "queued" /\ j.writer = Writer
  \/ /\ j.at = "importing" /\ job.state = "running"
     /\ Sound(j.writer) /\ ~j.writer.error
  \/ j.at = "written" /\ job.state = "running" /\ Wrote(j)
  \/ j.at = "listed" /\ job.state = "running" /\ Wrote(j) /\ known = j.writer.written
  \/ /\ j.at \in {"ended", "removed"} /\ job.state = "running"
     /\ j.failed \/ (Wrote(j) /\ known = j.writer.written)
  \/ /\ j.at = "done"
     /\ \/ job = NoJob
        \/ job.state = "failed"
        \/ /\ job.state = "succeeded" /\ j.todo = <<>>
           /\ job.ok = j.writer.written /\ known = job.ok /\ job.total >= job.ok

JobOK(r) ==
  IsRun(run[r]) /\ DOMAIN jobs[r] = JobFields /\ JobFits(run[r], jobs[r], seen[r])

JobsInv ==
  /\ closing \in BOOLEAN
  /\ run = [r \in Requests |-> run[r]]
  /\ jobs = [r \in Requests |-> jobs[r]]
  /\ seen = [r \in Requests |-> seen[r]]
  /\ order \in Seq(Requests) /\ IsInjective(order)
  /\ \A r \in Requests : JobOK(r)

\* What other requests and jobs do to a job: it may be trimmed once it is done.
LEMMA JobKept ==
  ASSUME NEW q \in Requests, JobOK(q), run'[q] = run[q],
         jobs'[q] = jobs[q] \/ (run[q].at = "done" /\ jobs'[q] = NoJob),
         seen'[q] = seen[q]
  PROVE  JobOK(q)'
<1>1. /\ IsRun(run[q]) /\ IsRun(run'[q]) /\ DOMAIN jobs[q] = JobFields
      /\ DOMAIN jobs'[q] = JobFields
  BY DEF JobOK, NoJob, JobFields
<1> DEFINE j == run[q]
           k == seen'[q]
           job == jobs'[q]
<1>2. JobFits(j, jobs[q], seen[q])
  BY DEF JobOK
<1>3. JobFits(j, jobs[q], k)
  BY <1>2 DEF JobFits
<1>4. JobFits(j, job, k)
  BY <1>3 DEF JobFits, NoJob
<1> QED BY <1>1, <1>4 DEF JobOK

LEMMA Going ==
  ASSUME JobsInv, NEW r \in Requests, NEW j, Goes(r, j)
  PROVE  /\ run'[r] = j /\ run' = [q \in Requests |-> run'[q]]
         /\ \A q \in Requests \ {r} : run'[q] = run[q]
  BY DEF JobsInv, Goes

LEMMA Patching ==
  ASSUME JobsInv, NEW r \in Requests, NEW job, jobs[r] # NoJob
  PROVE  /\ Patched(r, job)[r] = job /\ Patched(r, job) = [q \in Requests |-> Patched(r, job)[q]]
         /\ \A q \in Requests \ {r} : Patched(r, job)[q] = jobs[q]
  BY DEF JobsInv, Patched

\* One job moves on and the others are kept.
LEMMA OneJob ==
  ASSUME JobsInv, NEW r \in Requests, NEW j, Goes(r, j), IsRun(j),
         DOMAIN jobs'[r] = JobFields, JobFits(j, jobs'[r], seen'[r]),
         jobs' = [q \in Requests |-> jobs'[q]],
         \A q \in Requests \ {r} : jobs'[q] = jobs[q] \/ (run[q].at = "done" /\ jobs'[q] = NoJob),
         seen' = seen \/ seen' = [seen EXCEPT ![r] = run[r].writer.written],
         closing' \in BOOLEAN, order' \in Seq(Requests), IsInjective(order')
  PROVE  JobsInv'
<1>1. /\ run'[r] = j /\ run' = [q \in Requests |-> run'[q]]
      /\ \A q \in Requests \ {r} : run'[q] = run[q]
  BY Going
<1>2. /\ seen' = [q \in Requests |-> seen'[q]]
      /\ \A q \in Requests \ {r} : seen'[q] = seen[q]
  BY DEF JobsInv
<1>3. JobOK(r)'
  BY <1>1 DEF JobOK
<1>4. ASSUME NEW q \in Requests \ {r} PROVE JobOK(q)'
  <2>1. JobOK(q)
    BY DEF JobsInv
  <2>2. run'[q] = run[q]
    BY <1>1
  <2>3. jobs'[q] = jobs[q] \/ (run[q].at = "done" /\ jobs'[q] = NoJob)
    OBVIOUS
  <2>4. seen'[q] = seen[q]
    BY <1>2
  <2> QED BY <2>1, <2>2, <2>3, <2>4, JobKept
<1> QED BY <1>1, <1>2, <1>3, <1>4 DEF JobsInv


LEMMA StartStep ==
  ASSUME JobsInv, NEW r \in Requests, Start(r)
  PROVE  JobsInv' /\ run[r].at = "queued" /\ run'[r].at = "importing"
<1> DEFINE f == run[r]
           j == [f EXCEPT !.at = "importing"]
           job == [jobs[r] EXCEPT !.state = "running"]
<1>1. /\ f.at = "queued" /\ Goes(r, j) /\ jobs' = Patched(r, job)
      /\ seen' = seen /\ order' = order /\ closing' = closing
  BY DEF Start
<1>2. IsRun(f) /\ DOMAIN jobs[r] = JobFields /\ jobs[r].state = "queued" /\ f.writer = Writer
  BY <1>1 DEF JobsInv, JobOK, JobFits
<1>3. jobs[r] # NoJob
  BY <1>2 DEF NoJob
<1> HIDE DEF f
<1>4. /\ DOMAIN j = RunFields /\ j.at = "importing" /\ j.todo = f.todo /\ j.expired = f.expired
      /\ j.failed = f.failed /\ j.writer = f.writer
  BY <1>2 DEF IsRun, RunFields
<1>5. DOMAIN job = JobFields /\ job.state = "running"
  BY <1>2 DEF JobFields
<1>6. /\ jobs'[r] = job /\ jobs' = [q \in Requests |-> jobs'[q]]
      /\ \A q \in Requests \ {r} : jobs'[q] = jobs[q]
  BY <1>1, <1>3, Patching
<1>7. order' \in Seq(Requests) /\ IsInjective(order') /\ closing' \in BOOLEAN
  BY <1>1 DEF JobsInv
<1> HIDE DEF j, job
<1>8. IsRun(j) /\ JobFits(j, jobs'[r], seen'[r])
  BY <1>2, <1>4, <1>5, <1>6, WriterStarts DEF IsRun, JobFits
<1>9. JobsInv'
  BY <1>1, <1>5, <1>6, <1>7, <1>8, OneJob
<1>10. run'[r] = j
  BY <1>1, Going
<1> QED BY <1>1, <1>4, <1>9, <1>10 DEF f

\* A step of the goroutine that leaves the report alone.
LEMMA QuietStep ==
  ASSUME JobsInv, NEW r \in Requests, NEW j, Goes(r, j), IsRun(j),
         UNCHANGED <<jobs, order, closing>>,
         seen' = seen \/ seen' = [seen EXCEPT ![r] = run[r].writer.written],
         JobFits(j, jobs[r], seen'[r])
  PROVE  JobsInv' /\ run'[r] = j
<1>1. /\ jobs' = [q \in Requests |-> jobs'[q]] /\ DOMAIN jobs'[r] = JobFields
      /\ \A q \in Requests \ {r} : jobs'[q] = jobs[q]
      /\ order' \in Seq(Requests) /\ IsInjective(order') /\ closing' \in BOOLEAN
  BY DEF JobsInv, JobOK
<1>2. JobFits(j, jobs'[r], seen'[r])
  OBVIOUS
<1> QED BY <1>1, <1>2, OneJob, Going

LEMMA ExpireStep ==
  ASSUME JobsInv, NEW r \in Requests, Expire(r)
  PROVE  JobsInv' /\ run[r].at \in {"importing", "written"} /\ run'[r].at = run[r].at
<1> DEFINE f == run[r]
           j == [f EXCEPT !.expired = TRUE]
<1>1. /\ f.at \in {"importing", "written"} /\ Goes(r, j)
      /\ UNCHANGED <<jobs, order, closing>> /\ seen' = seen
  BY DEF Expire, managerVars
<1>2. IsRun(f) /\ JobFits(f, jobs[r], seen[r])
  BY DEF JobsInv, JobOK
<1> HIDE DEF f
<1>3. /\ DOMAIN j = RunFields /\ j.at = f.at /\ j.todo = f.todo /\ j.expired = TRUE
      /\ j.failed = f.failed /\ j.writer = f.writer
  BY <1>2 DEF IsRun, RunFields
<1> HIDE DEF j
<1>4. IsRun(j) /\ JobFits(j, jobs[r], seen[r])
  BY <1>1, <1>2, <1>3 DEF IsRun, JobFits, Wrote
<1>5. JobsInv' /\ run'[r] = j
  BY <1>1, <1>4, QuietStep
<1> QED BY <1>1, <1>3, <1>5 DEF f

LEMMA TakeResultStep ==
  ASSUME JobsInv, NEW r \in Requests, TakeResult(r)
  PROVE  JobsInv' /\ run[r].at = "importing" /\ run'[r].at \in {"importing", "ended"}
<1> DEFINE f == run[r]
<1>1. /\ f.at = "importing" /\ f.todo # <<>> /\ UNCHANGED <<jobs, order, closing>>
      /\ seen' = seen
  BY DEF TakeResult, managerVars
<1>2. /\ IsRun(f) /\ jobs[r].state = "running" /\ Sound(f.writer) /\ ~f.writer.error
      /\ Done(r) \in BOOLEAN
  <2>1. IsRun(f) /\ JobFits(f, jobs[r], seen[r]) /\ closing \in BOOLEAN
    BY DEF JobsInv, JobOK
  <2> QED BY <1>1, <2>1 DEF JobFits, Done, IsRun
<1>3. PICK i \in IF MaxEntries > 0 THEN {1} ELSE DOMAIN f.todo :
        \E result \in ProcessFile(f.todo[i], Done(r)) :
        \E failAt \in IF Done(r) THEN {1} ELSE 0 .. Len(f.todo[i].entries) :
          LET w == Consume(f.writer, result, f.several, failAt)
          IN  Goes(r, [f EXCEPT !.writer = w, !.todo = RemoveAt(@, i), !.failed = w.error,
                                !.at = IF w.error THEN "ended" ELSE "importing"])
  BY DEF TakeResult
<1>4. i \in 1 .. Len(f.todo) /\ f.todo[i] \in File
  <2>1. f.todo \in Seq(File) /\ f.todo # <<>>
    BY <1>1, <1>2 DEF IsRun
  <2> HIDE DEF f
  <2>2. Len(f.todo) \in Nat /\ Len(f.todo) # 0 /\ DOMAIN f.todo = 1 .. Len(f.todo)
    BY <2>1
  <2>3. i \in 1 .. Len(f.todo)
    BY <1>3, <2>2
  <2> QED BY <2>1, <2>3
<1>5. PICK result \in ProcessFile(f.todo[i], Done(r)) :
        \E failAt \in IF Done(r) THEN {1} ELSE 0 .. Len(f.todo[i].entries) :
          LET w == Consume(f.writer, result, f.several, failAt)
          IN  Goes(r, [f EXCEPT !.writer = w, !.todo = RemoveAt(@, i), !.failed = w.error,
                                !.at = IF w.error THEN "ended" ELSE "importing"])
  BY <1>3
<1>6. PICK failAt \in IF Done(r) THEN {1} ELSE 0 .. Len(f.todo[i].entries) :
          LET w == Consume(f.writer, result, f.several, failAt)
          IN  Goes(r, [f EXCEPT !.writer = w, !.todo = RemoveAt(@, i), !.failed = w.error,
                                !.at = IF w.error THEN "ended" ELSE "importing"])
  BY <1>5
<1> DEFINE w == Consume(f.writer, result, f.several, failAt)
           rest == RemoveAt(f.todo, i)
           to == IF w.error THEN "ended" ELSE "importing"
           j == [f EXCEPT !.writer = w, !.todo = rest, !.failed = w.error, !.at = to]
<1>7. result \in Answer /\ failAt \in Nat
  <2>1. result \in Answer
    BY <1>2, <1>4, <1>5, FileSound
  <2>2. failAt \in 0 .. Len(f.todo[i].entries) \/ failAt = 1
    BY <1>6
  <2> QED BY <2>1, <2>2
<1>8. IsWriter(f.writer)
  BY <1>2 DEF IsRun
<1> HIDE DEF f
<1>9. IsWriter(w) /\ Sound(w)
  BY <1>2, <1>7, <1>8, ConsumeSound
<1>10. Goes(r, j)
  BY <1>6
<1>11. rest \in Seq(File)
  BY <1>2, <1>4, Removed DEF IsRun
<1> HIDE DEF w, rest
<1>12. (w.error => to = "ended") /\ (~w.error => to = "importing")
  OBVIOUS
<1> HIDE DEF to
<1>13. /\ DOMAIN j = RunFields /\ j.at = to /\ j.todo = rest /\ j.expired = f.expired
       /\ j.failed = w.error /\ j.writer = w
  BY <1>2 DEF IsRun, RunFields
<1> HIDE DEF j
<1>14. IsRun(j)
  BY <1>2, <1>9, <1>11, <1>13 DEF IsRun, IsWriter
<1>15. JobFits(j, jobs[r], seen[r])
  BY <1>2, <1>9, <1>12, <1>13 DEF JobFits
<1>16. JobsInv' /\ run'[r] = j
  BY <1>1, <1>10, <1>14, <1>15, QuietStep
<1> QED BY <1>1, <1>12, <1>13, <1>16 DEF f

LEMMA EndImportStep ==
  ASSUME JobsInv, NEW r \in Requests, EndImport(r)
  PROVE  JobsInv' /\ run[r].at = "importing" /\ run'[r].at \in {"ended", "written"}
<1> DEFINE f == run[r]
<1>1. /\ f.at = "importing" /\ UNCHANGED <<jobs, order, closing>> /\ seen' = seen
  BY DEF EndImport, managerVars
<1>2. /\ IsRun(f) /\ jobs[r].state = "running" /\ Sound(f.writer) /\ ~f.writer.error
  <2>1. IsRun(f) /\ JobFits(f, jobs[r], seen[r])
    BY DEF JobsInv, JobOK
  <2> QED BY <1>1, <2>1 DEF JobFits
<1>3. PICK ok \in BOOLEAN :
        /\ f.todo = <<>> \/ ~ok
        /\ LET w == Flush(f.writer, ok)
           IN  Goes(r, [f EXCEPT !.writer = w, !.failed = w.error,
                                 !.at = IF w.error THEN "ended" ELSE "written"])
  BY DEF EndImport
<1> DEFINE w == Flush(f.writer, ok)
           to == IF w.error THEN "ended" ELSE "written"
           j == [f EXCEPT !.writer = w, !.failed = w.error, !.at = to]
<1>4. Goes(r, j)
  BY <1>3
<1> HIDE DEF f
<1>5. IsWriter(w) /\ (~w.error => ok /\ w.ok = w.written /\ w.ok <= w.total)
  BY <1>2, FlushSound DEF IsRun
<1> HIDE DEF w
<1>6. (w.error => to = "ended") /\ (~w.error => to = "written")
  OBVIOUS
<1> HIDE DEF to
<1>7. /\ DOMAIN j = RunFields /\ j.at = to /\ j.todo = f.todo /\ j.expired = f.expired
      /\ j.failed = w.error /\ j.writer = w
  BY <1>2 DEF IsRun, RunFields
<1> HIDE DEF j
<1>8. IsRun(j)
  BY <1>2, <1>5, <1>7 DEF IsRun, IsWriter
<1>9. JobFits(j, jobs[r], seen[r])
  BY <1>2, <1>3, <1>5, <1>6, <1>7 DEF JobFits, Wrote
<1>10. JobsInv' /\ run'[r] = j
  BY <1>1, <1>4, <1>8, <1>9, QuietStep
<1> QED BY <1>1, <1>6, <1>7, <1>10 DEF f

LEMMA ListCatalogStep ==
  ASSUME JobsInv, NEW r \in Requests, ListCatalog(r)
  PROVE  JobsInv' /\ run[r].at = "written" /\ run'[r].at \in {"listed", "ended"}
<1> DEFINE f == run[r]
<1>1. f.at = "written" /\ UNCHANGED <<jobs, order, closing>>
  BY DEF ListCatalog, managerVars
<1>2. IsRun(f) /\ jobs[r].state = "running" /\ Wrote(f)
  <2>1. IsRun(f) /\ JobFits(f, jobs[r], seen[r])
    BY DEF JobsInv, JobOK
  <2> QED BY <1>1, <2>1 DEF JobFits
<1>3. CASE Goes(r, [f EXCEPT !.at = "listed"]) /\ seen' = [seen EXCEPT ![r] = f.writer.written]
  <2> DEFINE j == [f EXCEPT !.at = "listed"]
  <2>1. Goes(r, j) /\ seen'[r] = f.writer.written /\ seen' = [seen EXCEPT ![r] = run[r].writer.written]
    BY <1>3 DEF JobsInv
  <2> HIDE DEF f
  <2>2. /\ DOMAIN j = RunFields /\ j.at = "listed" /\ j.todo = f.todo /\ j.expired = f.expired
        /\ j.failed = f.failed /\ j.writer = f.writer
    BY <1>2 DEF IsRun, RunFields
  <2> HIDE DEF j
  <2>3. IsRun(j) /\ JobFits(j, jobs[r], seen'[r])
    BY <1>2, <2>1, <2>2 DEF IsRun, JobFits, Wrote
  <2>4. JobsInv' /\ run'[r] = j
    BY <1>1, <2>1, <2>3, QuietStep
  <2> QED BY <1>1, <2>2, <2>4 DEF f
<1>4. CASE Goes(r, [f EXCEPT !.at = "ended", !.failed = TRUE]) /\ seen' = seen
  <2> DEFINE j == [f EXCEPT !.at = "ended", !.failed = TRUE]
  <2>1. Goes(r, j)
    BY <1>4
  <2> HIDE DEF f
  <2>2. /\ DOMAIN j = RunFields /\ j.at = "ended" /\ j.todo = f.todo /\ j.expired = f.expired
        /\ j.failed = TRUE /\ j.writer = f.writer
    BY <1>2 DEF IsRun, RunFields
  <2> HIDE DEF j
  <2>3. IsRun(j) /\ JobFits(j, jobs[r], seen'[r])
    BY <1>2, <2>2 DEF IsRun, JobFits
  <2>4. JobsInv' /\ run'[r] = j
    BY <1>1, <1>4, <2>1, <2>3, QuietStep
  <2> QED BY <1>1, <2>2, <2>4 DEF f
<1> QED BY <1>3, <1>4 DEF ListCatalog

LEMMA ReplaceIndexStep ==
  ASSUME JobsInv, NEW r \in Requests, ReplaceIndex(r)
  PROVE  JobsInv' /\ run[r].at = "listed" /\ run'[r].at = "ended"
<1> DEFINE f == run[r]
<1>1. f.at = "listed" /\ UNCHANGED <<jobs, order, closing>> /\ seen' = seen
  BY DEF ReplaceIndex, managerVars
<1>2. IsRun(f) /\ jobs[r].state = "running" /\ Wrote(f) /\ seen[r] = f.writer.written
  <2>1. IsRun(f) /\ JobFits(f, jobs[r], seen[r])
    BY DEF JobsInv, JobOK
  <2> QED BY <1>1, <2>1 DEF JobFits
<1>3. PICK ok \in BOOLEAN : Goes(r, [f EXCEPT !.at = "ended", !.failed = ~ok])
  BY DEF ReplaceIndex
<1> DEFINE j == [f EXCEPT !.at = "ended", !.failed = ~ok]
<1>4. Goes(r, j)
  BY <1>3
<1> HIDE DEF f
<1>5. /\ DOMAIN j = RunFields /\ j.at = "ended" /\ j.todo = f.todo /\ j.expired = f.expired
      /\ j.failed = ~ok /\ j.writer = f.writer
  BY <1>2 DEF IsRun, RunFields
<1> HIDE DEF j
<1>6. IsRun(j) /\ JobFits(j, jobs[r], seen'[r])
  BY <1>1, <1>2, <1>5 DEF IsRun, JobFits, Wrote
<1>7. JobsInv' /\ run'[r] = j
  BY <1>1, <1>4, <1>6, QuietStep
<1> QED BY <1>1, <1>5, <1>7 DEF f

LEMMA RemoveWorkStep ==
  ASSUME JobsInv, NEW r \in Requests, RemoveWork(r)
  PROVE  /\ JobsInv' /\ run[r].at = "ended" /\ run'[r].at = "removed"
         /\ \/ disk' = disk \ {Staged(r, "work")} /\ UNCHANGED litter
            \/ UNCHANGED disk /\ litter' = litter \cup {Staged(r, "work")} /\ run'[r].failed
<1> DEFINE f == run[r]
<1>1. /\ f.at = "ended" /\ UNCHANGED <<jobs, order, closing>> /\ seen' = seen
  BY DEF RemoveWork, managerVars
<1>2. /\ IsRun(f) /\ jobs[r].state = "running"
      /\ f.failed \/ (Wrote(f) /\ seen[r] = f.writer.written)
  <2>1. IsRun(f) /\ JobFits(f, jobs[r], seen[r])
    BY DEF JobsInv, JobOK
  <2> QED BY <1>1, <2>1 DEF JobFits
<1>3. CASE /\ disk' = disk \ {Staged(r, "work")} /\ UNCHANGED litter
           /\ Goes(r, [f EXCEPT !.at = "removed"])
  <2> DEFINE j == [f EXCEPT !.at = "removed"]
  <2>1. Goes(r, j)
    BY <1>3
  <2> HIDE DEF f
  <2>2. /\ DOMAIN j = RunFields /\ j.at = "removed" /\ j.todo = f.todo /\ j.expired = f.expired
        /\ j.failed = f.failed /\ j.writer = f.writer
    BY <1>2 DEF IsRun, RunFields
  <2> HIDE DEF j
  <2>3. IsRun(j) /\ JobFits(j, jobs[r], seen[r])
    BY <1>2, <2>2 DEF IsRun, JobFits, Wrote
  <2>4. JobsInv' /\ run'[r] = j
    BY <1>1, <2>1, <2>3, QuietStep
  <2> QED BY <1>1, <1>3, <2>2, <2>4 DEF f
<1>4. CASE /\ UNCHANGED disk /\ litter' = litter \cup {Staged(r, "work")}
           /\ Goes(r, [f EXCEPT !.at = "removed", !.failed = TRUE])
  <2> DEFINE j == [f EXCEPT !.at = "removed", !.failed = TRUE]
  <2>1. Goes(r, j)
    BY <1>4
  <2> HIDE DEF f
  <2>2. /\ DOMAIN j = RunFields /\ j.at = "removed" /\ j.todo = f.todo /\ j.expired = f.expired
        /\ j.failed = TRUE /\ j.writer = f.writer
    BY <1>2 DEF IsRun, RunFields
  <2> HIDE DEF j
  <2>3. IsRun(j) /\ JobFits(j, jobs[r], seen[r])
    BY <1>2, <2>2 DEF IsRun, JobFits
  <2>4. JobsInv' /\ run'[r] = j
    BY <1>1, <2>1, <2>3, QuietStep
  <2> QED BY <1>1, <1>4, <2>2, <2>4 DEF f
<1> QED BY <1>3, <1>4 DEF RemoveWork


LEMMA StraggleStep ==
  ASSUME JobsInv, NEW r \in Requests, Straggle(r)
  PROVE  /\ JobsInv' /\ run[r].at \in {"ended", "removed", "done"} /\ run'[r].at = run[r].at
         /\ run'[r].failed = run[r].failed
         /\ jobs'[r].state = jobs[r].state /\ (jobs'[r] = NoJob <=> jobs[r] = NoJob)
         /\ \A q \in Requests \ {r} : jobs'[q] = jobs[q]
<1> DEFINE f == run[r]
           rest == Tail(f.todo)
           j == [f EXCEPT !.todo = rest]
<1>1. /\ f.at \in {"ended", "removed", "done"} /\ f.todo # <<>> /\ Goes(r, j)
      /\ seen' = seen /\ order' = order /\ closing' = closing
  BY DEF Straggle
<1>2. IsRun(f) /\ JobFits(f, jobs[r], seen[r]) /\ DOMAIN jobs[r] = JobFields
  BY DEF JobsInv, JobOK
<1>3. PICK result : jobs' = Patched(r, [jobs[r] EXCEPT !.ok = result.accounts,
                              !.total = IF result.total > @ THEN result.total ELSE @])
  BY DEF Straggle
<1> DEFINE total == IF result.total > jobs[r].total THEN result.total ELSE jobs[r].total
           job == [jobs[r] EXCEPT !.ok = result.accounts, !.total = total]
<1>4. jobs' = Patched(r, job)
  BY <1>3
<1>5. rest \in Seq(File)
  BY <1>1, <1>2 DEF IsRun
<1> HIDE DEF f, rest, total
<1>6. /\ DOMAIN j = RunFields /\ j.at = f.at /\ j.todo = rest /\ j.expired = f.expired
      /\ j.failed = f.failed /\ j.writer = f.writer
  BY <1>2 DEF IsRun, RunFields
<1>7. DOMAIN job = JobFields /\ job.state = jobs[r].state
  BY <1>2 DEF JobFields
<1> HIDE DEF j, job
<1>8. /\ jobs' = [q \in Requests |-> jobs'[q]]
      /\ \A q \in Requests \ {r} : jobs'[q] = jobs[q]
      /\ jobs'[r] = IF jobs[r] = NoJob THEN NoJob ELSE job
  BY <1>4 DEF JobsInv, Patched
<1>9. /\ jobs[r] # NoJob => jobs[r].state # "none"
      /\ NoJob.state = "none" /\ DOMAIN NoJob = JobFields
  BY <1>1, <1>2 DEF JobFits, NoJob, JobFields
<1>10. /\ DOMAIN jobs'[r] = JobFields /\ jobs'[r].state = jobs[r].state
       /\ jobs'[r] = NoJob <=> jobs[r] = NoJob
  BY <1>7, <1>8, <1>9
<1>11. f.at = "done" => jobs[r] = NoJob \/ jobs[r].state = "failed"
  BY <1>1, <1>2 DEF JobFits
<1>12. f.at \in {"ended", "removed"} => jobs[r].state = "running" /\ f.failed
  BY <1>1, <1>2 DEF JobFits, Wrote
<1>13. IsRun(j) /\ JobFits(j, jobs'[r], seen'[r])
  BY <1>1, <1>2, <1>5, <1>6, <1>10, <1>11, <1>12 DEF IsRun, JobFits
<1>14. order' \in Seq(Requests) /\ IsInjective(order') /\ closing' \in BOOLEAN
  BY <1>1 DEF JobsInv
<1>15. JobsInv' /\ run'[r] = j
  BY <1>1, <1>8, <1>10, <1>13, <1>14, OneJob, Going
<1> QED BY <1>1, <1>6, <1>8, <1>10, <1>15 DEF f

\* What a report keeps of the trimming: the finished jobs are those whose
\* goroutine has returned.
LEMMA FinishedDone ==
  ASSUME JobsInv, NEW q \in Requests, Finished(jobs[q])
  PROVE  run[q].at = "done" /\ jobs[q] # NoJob
  BY DEF JobsInv, JobOK, JobFits, Finished, NoJob

LEMMA CompleteStep ==
  ASSUME JobsInv, NEW r \in Requests, Complete(r)
  PROVE  /\ JobsInv' /\ run[r].at = "removed" /\ run'[r].at = "done"
         /\ run[r].failed => jobs'[r] = NoJob \/ jobs'[r].state = "failed"
         /\ \E js, t : /\ js = [q \in Requests |-> js[q]] /\ Finished(js[r])
                       /\ \A q \in Requests \ {r} : js[q] = jobs[q]
                       /\ jobs' = t.jobs /\ order' = t.order /\ Trims(js, order, t)
<1> DEFINE f == run[r]
           w == f.writer
           bad == f.failed \/ (w.failed > 0 /\ w.ok = 0)
           report == [state |-> IF bad THEN "failed" ELSE "succeeded", ok |-> w.ok, total |-> w.total]
           js == Patched(r, report)
           t == Trimmed(js, order)
           j == Over(f)
<1>1. /\ f.at = "removed" /\ Goes(r, j) /\ jobs' = t.jobs /\ order' = t.order
      /\ seen' = seen /\ closing' = closing
  BY DEF Complete
<1>2. /\ IsRun(f) /\ jobs[r].state = "running"
      /\ f.failed \/ (Wrote(f) /\ seen[r] = w.written)
  <2>1. IsRun(f) /\ JobFits(f, jobs[r], seen[r])
    BY DEF JobsInv, JobOK
  <2> QED BY <1>1, <2>1 DEF JobFits
<1>3. jobs[r] # NoJob
  BY <1>2 DEF NoJob
<1>4. /\ js[r] = report /\ js = [q \in Requests |-> js[q]]
      /\ \A q \in Requests \ {r} : js[q] = jobs[q]
  BY <1>3, Patching
<1>5. /\ DOMAIN report = JobFields /\ report.ok = w.ok /\ report.total = w.total
      /\ (bad => report.state = "failed") /\ (~bad => report.state = "succeeded")
  <2> HIDE DEF bad
  <2> QED BY DEF JobFields
<1>6. DOMAIN j = RunFields /\ j.at = "done" /\ j.todo = f.todo /\ j.expired = FALSE
      /\ j.failed = FALSE /\ j.writer = [Writer EXCEPT !.written = f.writer.written]
  BY DEF Over, NoRun, RunFields
<1>7. IsWriter(j.writer) /\ j.writer.written = w.written
  <2>1. w.written \in Nat
    BY <1>2 DEF IsRun, IsWriter
  <2> DEFINE v == [Writer EXCEPT !.written = w.written]
  <2> HIDE DEF w
  <2>2. /\ DOMAIN v = WriterFields /\ v.total = 0 /\ v.ok = 0 /\ v.failed = 0 /\ v.skipped = 0
        /\ v.buffer = 0 /\ v.written = w.written /\ v.error = FALSE
    BY DEF Writer, WriterFields
  <2>3. j.writer = v
    BY <1>6 DEF w
  <2> HIDE DEF v, j
  <2>4. v.error \in BOOLEAN /\ v.written \in Nat
    BY <2>1, <2>2
  <2>5. IsWriter(v)
    BY <2>2, <2>4 DEF IsWriter
  <2> QED BY <2>2, <2>3, <2>5
<1>8. order \in Seq(Requests) /\ IsInjective(order)
  BY DEF JobsInv
<1> HIDE DEF js, t, j, report, bad
<1>9. order' \in Seq(Requests) /\ IsInjective(order') /\ Trims(js, order, t)
  BY <1>1, <1>4, <1>8, TrimSound DEF t
<1>10. /\ jobs' = [q \in Requests |-> jobs'[q]]
       /\ \A q \in Requests : jobs'[q] = js[q] \/ (Finished(js[q]) /\ jobs'[q] = NoJob)
  BY <1>1, <1>4, <1>9 DEF Trims
<1>11. ASSUME NEW q \in Requests \ {r}
       PROVE  jobs'[q] = jobs[q] \/ (run[q].at = "done" /\ jobs'[q] = NoJob)
  BY <1>4, <1>10, FinishedDone
<1>12. jobs'[r] = report \/ jobs'[r] = NoJob
  BY <1>4, <1>10
<1>13. DOMAIN jobs'[r] = JobFields
  BY <1>5, <1>12 DEF NoJob, JobFields
<1>14. IsRun(j)
  BY <1>2, <1>6, <1>7 DEF IsRun
<1>15. JobFits(j, jobs'[r], seen'[r])
  <2>1. ~bad => Wrote(f) /\ seen[r] = w.written
    BY <1>2 DEF bad
  <2>2. w.ok \in Nat /\ w.total \in Nat
    BY <1>2 DEF IsRun, IsWriter
  <2>3. ~bad => j.todo = <<>> /\ w.ok = w.written /\ w.ok <= w.total
    BY <1>6, <2>1 DEF Wrote
  <2> HIDE DEF f, w
  <2>4. ~bad => report.ok = j.writer.written /\ seen[r] = report.ok /\ report.total >= report.ok
    BY <1>5, <1>7, <2>1, <2>2, <2>3
  <2> QED BY <1>1, <1>5, <1>6, <1>12, <2>3, <2>4 DEF JobFits
<1>16. closing' \in BOOLEAN
  BY <1>1 DEF JobsInv
<1>17. JobsInv' /\ run'[r] = j
  BY <1>1, <1>9, <1>10, <1>11, <1>13, <1>14, <1>15, <1>16, OneJob, Going
<1>18. Finished(js[r])
  BY <1>4, <1>5 DEF Finished
<1>19. run[r].failed => jobs'[r] = NoJob \/ jobs'[r].state = "failed"
  BY <1>5, <1>12 DEF bad
<1> QED BY <1>1, <1>4, <1>6, <1>9, <1>17, <1>18, <1>19

\* A job that is accepted: its goroutine starts and the table takes it.
LEMMA EnqueueStep ==
  ASSUME JobsInv, NEW r \in Requests, NEW files \in Inputs, Enqueue(r, files),
         run[r].at = "none", r \notin ToSet(order), UNCHANGED <<seen, closing>>
  PROVE  /\ JobsInv' /\ run'[r].at = "queued"
         /\ \E js, t, ord : /\ js = [q \in Requests |-> js[q]] /\ js[r].state = "queued"
                            /\ \A q \in Requests \ {r} : js[q] = jobs[q]
                            /\ ord = Append(order, r)
                            /\ jobs' = t.jobs /\ order' = t.order /\ Trims(js, ord, t)
<1> DEFINE job == [NoJob EXCEPT !.state = "queued"]
           js == [jobs EXCEPT ![r] = job]
           ord == Append(order, r)
           t == Trimmed(js, ord)
           several == Len(files) > 1
           j == [NoRun EXCEPT !.at = "queued", !.todo = files, !.several = several]
<1>1. jobs' = t.jobs /\ order' = t.order /\ Goes(r, j)
  BY DEF Enqueue, Goes
<1>2. /\ js[r] = job /\ js = [q \in Requests |-> js[q]]
      /\ \A q \in Requests \ {r} : js[q] = jobs[q]
  BY DEF JobsInv
<1>3. DOMAIN job = JobFields /\ job.state = "queued"
  BY DEF NoJob, JobFields
<1> HIDE DEF several
<1>4. /\ DOMAIN j = RunFields /\ j.at = "queued" /\ j.todo = files /\ j.expired = FALSE
      /\ j.failed = FALSE /\ j.writer = Writer
  BY DEF NoRun, RunFields
<1>5. ord \in Seq(Requests) /\ IsInjective(ord)
  <2>1. order \in Seq(Requests) /\ IsInjective(order) /\ Len(order) \in Nat
    BY DEF JobsInv
  <2>2. /\ ord \in Seq(Requests) /\ DOMAIN ord = 1 .. Len(order) + 1
        /\ \A i \in 1 .. Len(order) + 1 : ord[i] = IF i <= Len(order) THEN order[i] ELSE r
    BY <2>1
  <2>3. \A i, k \in 1 .. Len(order) : order[i] = order[k] => i = k
    BY <2>1 DEF IsInjective
  <2>4. \A i \in 1 .. Len(order) : order[i] # r
    BY <2>1 DEF ToSet
  <2> HIDE DEF ord
  <2>5. ASSUME NEW i \in 1 .. Len(order) + 1, NEW k \in 1 .. Len(order) + 1, ord[i] = ord[k]
        PROVE  i = k
    BY <2>1, <2>2, <2>3, <2>4, <2>5
  <2> QED BY <2>2, <2>5 DEF IsInjective
<1> HIDE DEF js, t, j, job, ord
<1>6. order' \in Seq(Requests) /\ IsInjective(order') /\ Trims(js, ord, t)
  BY <1>1, <1>2, <1>5, TrimSound DEF t
<1>7. /\ jobs' = [q \in Requests |-> jobs'[q]]
      /\ \A q \in Requests : jobs'[q] = js[q] \/ (Finished(js[q]) /\ jobs'[q] = NoJob)
  BY <1>1, <1>2, <1>6 DEF Trims
<1>8. ASSUME NEW q \in Requests \ {r}
      PROVE  jobs'[q] = jobs[q] \/ (run[q].at = "done" /\ jobs'[q] = NoJob)
  BY <1>2, <1>7, FinishedDone
<1>9. jobs'[r] = job
  BY <1>2, <1>3, <1>7 DEF Finished
<1>10. files \in Seq(File)
  BY InputsAssumption DEF File
<1>11. IsRun(j) /\ JobFits(j, jobs'[r], seen'[r])
  BY <1>3, <1>4, <1>9, <1>10, WriterStarts DEF IsRun, JobFits
<1>12. closing' \in BOOLEAN
  BY DEF JobsInv
<1>13. DOMAIN jobs'[r] = JobFields
  BY <1>3, <1>9
<1>14. JobsInv' /\ run'[r] = j
  BY <1>1, <1>6, <1>7, <1>8, <1>11, <1>12, <1>13, OneJob, Going
<1> QED BY <1>1, <1>2, <1>3, <1>4, <1>6, <1>14 DEF ord


-----------------------------------------------------------------------------
\* Slots.  A request that has not handed its file over has no job yet.

Holding == Before \ {"idle"}

ReqInv ==
  /\ limit \in Limits
  /\ req \in [Requests -> Before \cup {"submitted", "done"}]
  /\ \A r \in Requests : req[r] \in Before => run[r].at = "none"
  /\ \A r \in PathRequests : req[r] \in {"idle", "done"}

LEMMA MostSlots == \A l \in Limits : l <= Max(Limits) /\ l \in Nat /\ Max(Limits) \in Nat
<1>1. Max(Limits) \in Limits /\ \A l \in Limits : Max(Limits) >= l
  BY JobsAssumption DEF Max
<1> QED BY <1>1, JobsAssumption

LEMMA SetsFinite ==
  /\ IsFiniteSet(Requests) /\ IsFiniteSet(permits \cap Requests) /\ IsFiniteSet(Unfinished)
  /\ Cardinality(Unfinished) \in Nat
<1>1. IsFiniteSet(Requests)
  BY JobsAssumption DEF Requests
<1>2. IsFiniteSet(permits \cap Requests) /\ IsFiniteSet(Unfinished)
  BY <1>1, FS_Subset DEF Unfinished
<1> QED BY <1>1, <1>2, FS_CardinalityType

LEMMA PermitsFinite ==
  SlotsConserved => /\ permits \subseteq Uploads /\ IsFiniteSet(permits)
                    /\ Cardinality(permits) \in Nat
<1> SUFFICES ASSUME SlotsConserved PROVE /\ permits \subseteq Uploads /\ IsFiniteSet(permits)
                                         /\ Cardinality(permits) \in Nat
  OBVIOUS
<1>1. permits \subseteq Uploads
  BY DEF SlotsConserved
<1>2. permits \cap Requests = permits
  BY <1>1 DEF Requests
<1> QED BY <1>1, <1>2, SetsFinite, FS_CardinalityType

\* The request goes on and keeps its slot.
LEMMA SlotKept ==
  ASSUME ReqInv, SlotsConserved, NEW r \in Requests, NEW to \in Holding,
         req[r] \in Holding, req' = [req EXCEPT ![r] = to],
         UNCHANGED <<limit, permits, uploading, running, run>>
  PROVE  ReqInv' /\ SlotsConserved'
<1>1. ReqInv'
  BY DEF ReqInv, Holding, Before
<1>2. {q \in Uploads : req'[q] \in {"reserved", "staging", "ready", "leaving", "removed"}}
        = {q \in Uploads : req[q] \in {"reserved", "staging", "ready", "leaving", "removed"}}
  BY DEF ReqInv, Holding, Before, Requests
<1>3. Unfinished' = Unfinished
  BY DEF Unfinished
<1> QED BY <1>1, <1>2, <1>3 DEF SlotsConserved

LEMMA ReserveSlot ==
  ASSUME ReqInv, SlotsConserved, NEW r \in Requests, Reserve(r)
  PROVE  ReqInv' /\ SlotsConserved'
<1>1. req[r] = "idle" /\ r \in Uploads /\ UNCHANGED <<limit, running, run>>
  BY DEF Reserve
<1>2. Unfinished' = Unfinished
  BY <1>1 DEF Unfinished
<1>3. r \notin permits /\ IsFiniteSet(permits) /\ Cardinality(permits) \in Nat
  BY <1>1, PermitsFinite DEF SlotsConserved
<1>4. running \in Nat /\ uploading \in Nat
  BY PermitsFinite, SetsFinite DEF SlotsConserved
<1>5. CASE req' = [req EXCEPT ![r] = "done"] /\ UNCHANGED <<permits, uploading>>
  <2>1. ReqInv'
    BY <1>1, <1>5, JobsAssumption DEF ReqInv, Before
  <2>2. {q \in Uploads : req'[q] \in {"reserved", "staging", "ready", "leaving", "removed"}}
          = {q \in Uploads : req[q] \in {"reserved", "staging", "ready", "leaving", "removed"}}
    BY <1>1, <1>5 DEF ReqInv, Requests
  <2> QED BY <1>1, <1>2, <1>5, <2>1, <2>2 DEF SlotsConserved
<1>6. CASE /\ running + uploading < limit
           /\ req' = [req EXCEPT ![r] = "reserved"]
           /\ permits' = permits \cup {r}
           /\ uploading' = uploading + 1
  <2>1. ReqInv'
    BY <1>1, <1>6, JobsAssumption DEF ReqInv, Before
  <2>2. Cardinality(permits') = uploading'
    BY <1>3, <1>6, FS_AddElement DEF SlotsConserved
  <2>3. permits' = {q \in Uploads : req'[q] \in {"reserved", "staging", "ready", "leaving", "removed"}}
    BY <1>1, <1>6 DEF ReqInv, Requests, SlotsConserved
  <2>4. running' + uploading' <= Max(Limits)
    BY <1>1, <1>4, <1>6, MostSlots DEF ReqInv
  <2> QED BY <1>1, <1>2, <2>1, <2>2, <2>3, <2>4 DEF SlotsConserved
<1>7. limit \in Nat
  BY MostSlots DEF ReqInv
<1> QED BY <1>1, <1>4, <1>5, <1>6, <1>7 DEF Reserve

LEMMA LeaveSlot ==
  ASSUME ReqInv, SlotsConserved, NEW r \in Requests, Leave(r)
  PROVE  ReqInv' /\ SlotsConserved'
<1>1. /\ req[r] \in {"removed", "submitted"} /\ req' = [req EXCEPT ![r] = "done"]
      /\ permits' = permits \ {r} /\ UNCHANGED <<limit, running, run>>
      /\ uploading' = IF r \in permits /\ uploading > 0 THEN uploading - 1 ELSE uploading
  BY DEF Leave, ReleasePermit
<1>2. ReqInv'
  BY <1>1, JobsAssumption DEF ReqInv, Before
<1>3. Unfinished' = Unfinished
  BY <1>1 DEF Unfinished
<1>4. permits' = {q \in Uploads : req'[q] \in {"reserved", "staging", "ready", "leaving", "removed"}}
  BY <1>1 DEF ReqInv, Requests, SlotsConserved
<1>5. /\ IsFiniteSet(permits) /\ Cardinality(permits) \in Nat /\ uploading = Cardinality(permits)
      /\ running \in Nat /\ Max(Limits) \in Nat /\ running + uploading <= Max(Limits)
  BY PermitsFinite, SetsFinite, MostSlots DEF SlotsConserved, ReqInv
<1>6. r \in permits => uploading > 0
  BY <1>5, FS_EmptySet
<1>7. Cardinality(permits') = uploading'
  BY <1>1, <1>5, <1>6, FS_RemoveElement
<1>8. running' + uploading' <= Max(Limits)
  BY <1>1, <1>5, <1>6
<1>9. running' = Cardinality(Unfinished')
  BY <1>1, <1>3 DEF SlotsConserved
<1> QED BY <1>2, <1>4, <1>7, <1>8, <1>9 DEF SlotsConserved

\* A goroutine starts for a request that has decided.
LEMMA StartsJob ==
  ASSUME JobsInv, ReqInv, NEW r \in Requests, NEW files \in Inputs, Enqueue(r, files),
         NEW to \in {"submitted", "done"}, req' = [req EXCEPT ![r] = to], limit' = limit,
         r \in PathRequests => to = "done", run[r].at = "none", run'[r].at = "queued"
  PROVE  /\ ReqInv' /\ Unfinished' = Unfinished \cup {r} /\ r \notin Unfinished
         /\ running' = running + 1
<1>1. \A q \in Requests \ {r} : run'[q] = run[q]
  BY DEF Enqueue, JobsInv
<1>2. running' = running + 1
  BY DEF Enqueue
<1>3. Unfinished' = Unfinished \cup {r} /\ r \notin Unfinished
  BY <1>1 DEF Unfinished
<1>4. ReqInv'
  BY <1>1, JobsAssumption DEF ReqInv, Before
<1> QED BY <1>2, <1>3, <1>4

LEMMA SubmitUploadSlot ==
  ASSUME JobsInv, ReqInv, SlotsConserved, NEW r \in Requests, SubmitUpload(r),
         run'[r].at = "queued" \/ req' = [req EXCEPT ![r] = "leaving"]
  PROVE  ReqInv' /\ SlotsConserved'
<1>1. req[r] = "ready" /\ r \in Uploads
  BY DEF SubmitUpload
<1>2. CASE req' = [req EXCEPT ![r] = "leaving"] /\ UNCHANGED <<managerVars, run>>
  BY <1>1, <1>2, SlotKept DEF managerVars, Holding, Before
<1>3. CASE /\ r \in permits /\ req' = [req EXCEPT ![r] = "submitted"]
           /\ permits' = permits \ {r} /\ limit' = limit
           /\ uploading' = IF uploading > 0 THEN uploading - 1 ELSE uploading
           /\ \E files \in Inputs : Enqueue(r, files)
  <2>1. run[r].at = "none" /\ run'[r].at = "queued"
    <3>1. req'[r] = "submitted"
      BY <1>3 DEF ReqInv
    <3> QED BY <1>1, <3>1 DEF ReqInv, Before
  <2>2. r \notin PathRequests
    BY <1>1, JobsAssumption
  <2>3. /\ ReqInv' /\ Unfinished' = Unfinished \cup {r} /\ r \notin Unfinished
        /\ running' = running + 1
    BY <1>3, <2>1, <2>2, StartsJob
  <2>4. /\ IsFiniteSet(permits) /\ Cardinality(permits) \in Nat /\ uploading = Cardinality(permits)
        /\ running \in Nat /\ running = Cardinality(Unfinished) /\ IsFiniteSet(Unfinished)
        /\ running + uploading <= Max(Limits) /\ Max(Limits) \in Nat
    BY PermitsFinite, SetsFinite, MostSlots DEF SlotsConserved, ReqInv
  <2>5. uploading > 0
    BY <1>3, <2>4, FS_EmptySet
  <2>9. Cardinality(permits') = Cardinality(permits) - 1 /\ uploading' = uploading - 1
    BY <1>3, <2>4, <2>5, FS_RemoveElement
  <2>6. Cardinality(permits') = uploading' /\ running' + uploading' <= Max(Limits)
    BY <2>3, <2>4, <2>9
  <2>7. running' = Cardinality(Unfinished')
    BY <2>3, <2>4, FS_AddElement
  <2>8. permits' = {q \in Uploads : req'[q] \in {"reserved", "staging", "ready", "leaving", "removed"}}
    BY <1>1, <1>3 DEF ReqInv, Requests, SlotsConserved
  <2> QED BY <2>3, <2>6, <2>7, <2>8 DEF SlotsConserved
<1> QED BY <1>2, <1>3 DEF SubmitUpload

LEMMA SubmitPathSlot ==
  ASSUME JobsInv, ReqInv, SlotsConserved, NEW r \in Requests, SubmitPath(r),
         run'[r].at = "queued" \/ UNCHANGED run
  PROVE  ReqInv' /\ SlotsConserved'
<1>1. /\ req[r] = "idle" /\ r \in PathRequests /\ req' = [req EXCEPT ![r] = "done"]
      /\ UNCHANGED <<limit, permits, uploading>>
  BY DEF SubmitPath
<1>2. /\ running \in Nat /\ uploading \in Nat /\ limit \in Nat /\ limit <= Max(Limits)
      /\ Max(Limits) \in Nat /\ running = Cardinality(Unfinished) /\ IsFiniteSet(Unfinished)
  BY PermitsFinite, SetsFinite, MostSlots DEF SlotsConserved, ReqInv
<1>3. permits' = {q \in Uploads : req'[q] \in {"reserved", "staging", "ready", "leaving", "removed"}}
  BY <1>1, JobsAssumption DEF ReqInv, Requests, SlotsConserved
<1>4. CASE UNCHANGED <<running, run>>
  <2>1. ReqInv'
    BY <1>1, <1>4, JobsAssumption DEF ReqInv, Before
  <2>2. Unfinished' = Unfinished
    BY <1>4 DEF Unfinished
  <2> QED BY <1>1, <1>3, <1>4, <2>1, <2>2 DEF SlotsConserved
<1>5. CASE running + uploading < limit /\ \E files \in Inputs : Enqueue(r, files)
  <2>1. run[r].at = "none" /\ run'[r].at = "queued"
    <3>1. run[r].at = "none"
      BY <1>1 DEF ReqInv, Before
    <3>2. run'[r].at = "queued"
      BY <1>5 DEF Enqueue, JobsInv, NoRun
    <3> QED BY <3>1, <3>2
  <2>3. /\ ReqInv' /\ Unfinished' = Unfinished \cup {r} /\ r \notin Unfinished
        /\ running' = running + 1
    BY <1>1, <1>5, <2>1, StartsJob
  <2>4. running' = Cardinality(Unfinished')
    BY <1>2, <2>3, FS_AddElement
  <2>5. running' + uploading' <= Max(Limits)
    BY <1>1, <1>2, <1>5, <2>3
  <2> QED BY <1>1, <1>3, <2>3, <2>4, <2>5 DEF SlotsConserved
<1> QED BY <1>2, <1>4, <1>5 DEF SubmitPath

\* A job that goes on keeps its slot, one that returns gives it back.
LEMMA JobSlot ==
  ASSUME JobsInv, ReqInv, SlotsConserved, NEW r \in Requests,
         UNCHANGED <<limit, permits, uploading, req>>,
         \A q \in Requests \ {r} : run'[q] = run[q],
         \/ /\ (run[r].at \in Working /\ run'[r].at \in Working) \/ run'[r].at = run[r].at
            /\ running' = running
         \/ /\ run[r].at = "removed" /\ run'[r].at = "done"
            /\ running' = IF running > 0 THEN running - 1 ELSE running
  PROVE  ReqInv' /\ SlotsConserved'
<1>1. ReqInv'
  BY DEF ReqInv, Before, Working
<1>2. /\ running = Cardinality(Unfinished) /\ running \in Nat /\ IsFiniteSet(Unfinished)
      /\ uploading \in Nat /\ Max(Limits) \in Nat
  BY PermitsFinite, SetsFinite, MostSlots DEF SlotsConserved, ReqInv
<1>3. running' = Cardinality(Unfinished') /\ running' <= running /\ running' \in Nat
  <2>1. CASE /\ (run[r].at \in Working /\ run'[r].at \in Working) \/ run'[r].at = run[r].at
             /\ running' = running
    <3>1. Unfinished' = Unfinished
      BY <2>1 DEF Unfinished, Working
    <3> QED BY <1>2, <2>1, <3>1
  <2>2. CASE /\ run[r].at = "removed" /\ run'[r].at = "done"
             /\ running' = IF running > 0 THEN running - 1 ELSE running
    <3>1. r \in Unfinished /\ Unfinished' = Unfinished \ {r}
      BY <2>2 DEF Unfinished
    <3>2. running > 0
      BY <1>2, <3>1, FS_EmptySet
    <3>3. Cardinality(Unfinished \ {r}) = Cardinality(Unfinished) - 1
      BY <1>2, <3>1, FS_RemoveElement
    <3> QED BY <1>2, <2>2, <3>1, <3>2, <3>3
  <2> QED BY <2>1, <2>2
<1>4. running' + uploading' <= Max(Limits)
  <2>1. running + uploading <= Max(Limits) /\ uploading' = uploading
    BY DEF SlotsConserved
  <2> QED BY <1>2, <1>3, <2>1
<1> QED BY <1>1, <1>3, <1>4 DEF SlotsConserved


-----------------------------------------------------------------------------
\* The table again: with what the goroutines still do.

LEMMA MaxOf ==
  ASSUME NEW a \in Nat, NEW b \in Nat
  PROVE  Max({a, b}) = IF a >= b THEN a ELSE b
<1> DEFINE m == IF a >= b THEN a ELSE b
<1>1. m \in {a, b} /\ \A y \in {a, b} : m >= y
  OBVIOUS
<1>2. \A x \in {a, b} : (\A y \in {a, b} : x >= y) => x = m
  OBVIOUS
<1> HIDE DEF m
<1>3. (CHOOSE x \in {a, b} : \A y \in {a, b} : x >= y) = m
  BY <1>1, <1>2
<1> QED BY <1>3 DEF Max, m

TableInv ==
  /\ ToSet(order) = {r \in Requests : jobs[r] # NoJob}
  /\ Len(order) <= Max({MaxKeep, Cardinality(Unfinished)})

LEMMA TableTrimmed ==
  ASSUME NEW js, NEW ord \in Seq(Requests), NEW t, Trims(js, ord, t), IsInjective(ord),
         ToSet(ord) = {q \in Requests : js[q] # NoJob},
         NEW U \in SUBSET Requests, IsFiniteSet(U),
         \A q \in Requests : js[q] # NoJob /\ ~Finished(js[q]) => q \in U,
         Len(ord) <= Max({MaxKeep, Cardinality(U)}) + 1
  PROVE  /\ ToSet(t.order) = {q \in Requests : t.jobs[q] # NoJob}
         /\ Len(t.order) <= Max({MaxKeep, Cardinality(U)})
<1> DEFINE u == Cardinality(U)
           m == Max({MaxKeep, u})
<1>1. u \in Nat /\ MaxKeep \in Nat
  BY FS_CardinalityType, JobsAssumption
<1>2. m \in Nat /\ m >= u /\ m >= MaxKeep
  <2> HIDE DEF u
  <2>1. m = IF MaxKeep >= u THEN MaxKeep ELSE u
    BY <1>1, MaxOf
  <2> QED BY <1>1, <2>1
<1>3. Len(ord) \in Nat /\ Len(ord) <= m + 1
  OBVIOUS
<1>4. CASE t.jobs = js /\ t.order = ord /\ Len(ord) <= MaxKeep
  BY <1>1, <1>2, <1>3, <1>4
<1>5. CASE t.jobs = js /\ t.order = ord /\ \A q \in ToSet(ord) : ~Finished(js[q])
  <2>1. ToSet(ord) \subseteq U
    BY <1>5
  <2>2. ord \in Seq(U)
    <3>1. DOMAIN ord = 1 .. Len(ord)
      OBVIOUS
    <3>2. \A i \in 1 .. Len(ord) : ord[i] \in U
      BY <2>1, <3>1 DEF ToSet
    <3> QED BY <1>3, <3>2
  <2>3. Len(ord) <= u
    BY <2>2, NoMore
  <2> HIDE DEF m, u
  <2> QED BY <1>1, <1>2, <1>3, <1>5, <2>3 DEF m, u
<1>6. CASE \E x \in ToSet(ord) :
             /\ Len(t.order) = Len(ord) - 1 /\ ToSet(t.order) = ToSet(ord) \ {x}
             /\ t.jobs = [q \in Requests |-> IF q = x THEN NoJob ELSE js[q]]
  <2>1. PICK x \in ToSet(ord) :
             /\ Len(t.order) = Len(ord) - 1 /\ ToSet(t.order) = ToSet(ord) \ {x}
             /\ t.jobs = [q \in Requests |-> IF q = x THEN NoJob ELSE js[q]]
    BY <1>6
  <2>2. Len(t.order) <= m
    BY <1>2, <1>3, <2>1
  <2>3. ToSet(t.order) = {q \in Requests : t.jobs[q] # NoJob}
    BY <2>1
  <2> QED BY <2>2, <2>3
<1> QED BY <1>4, <1>5, <1>6 DEF Trims

LEMMA TableQuiet ==
  ASSUME TableInv, order' = order, Unfinished' = Unfinished,
         \A q \in Requests : jobs'[q] = NoJob <=> jobs[q] = NoJob
  PROVE  TableInv'
<1>1. {q \in Requests : jobs'[q] # NoJob} = {q \in Requests : jobs[q] # NoJob}
  OBVIOUS
<1> QED BY <1>1 DEF TableInv

LEMMA TableCompletes ==
  ASSUME JobsInv, TableInv, NEW r \in Requests, Complete(r)
  PROVE  TableInv'
<1>1. /\ JobsInv' /\ run[r].at = "removed" /\ run'[r].at = "done"
      /\ \A q \in Requests \ {r} : run'[q] = run[q]
  BY CompleteStep DEF Complete, Goes, JobsInv
<1>2. PICK js, t : /\ js = [q \in Requests |-> js[q]] /\ Finished(js[r])
                   /\ \A q \in Requests \ {r} : js[q] = jobs[q]
                   /\ jobs' = t.jobs /\ order' = t.order /\ Trims(js, order, t)
  BY CompleteStep
<1>3. r \in Unfinished /\ Unfinished' = Unfinished \ {r}
  BY <1>1 DEF Unfinished
<1> DEFINE U == Unfinished \ {r}
<1>4. /\ IsFiniteSet(U) /\ Cardinality(U) = Cardinality(Unfinished) - 1 /\ Cardinality(U) \in Nat
      /\ Cardinality(Unfinished) \in Nat
  BY <1>3, SetsFinite, FS_RemoveElement, FS_CardinalityType
<1>5. jobs[r] # NoJob /\ js[r] # NoJob
  BY <1>1, <1>2 DEF JobsInv, JobOK, JobFits, NoJob, Finished
<1>6. order \in Seq(Requests) /\ IsInjective(order) /\ ToSet(order) = {q \in Requests : js[q] # NoJob}
  BY <1>2, <1>5 DEF JobsInv, TableInv
<1>7. \A q \in Requests : js[q] # NoJob /\ ~Finished(js[q]) => q \in U
  <2>1. ASSUME NEW q \in Requests, jobs[q] # NoJob, ~Finished(jobs[q]) PROVE q \in Unfinished
    BY <2>1 DEF JobsInv, JobOK, JobFits, Finished, Unfinished, NoJob
  <2> QED BY <1>2, <2>1
<1>8. Len(order) <= Max({MaxKeep, Cardinality(U)}) + 1
  <2>1. Len(order) \in Nat /\ MaxKeep \in Nat
    BY <1>6, JobsAssumption
  <2>2. Len(order) <= Max({MaxKeep, Cardinality(Unfinished)})
    BY DEF TableInv
  <2> DEFINE u == Cardinality(Unfinished)
             v == Cardinality(U)
  <2>3. Max({MaxKeep, u}) = (IF MaxKeep >= u THEN MaxKeep ELSE u)
    BY <1>4, <2>1, MaxOf
  <2>4. Max({MaxKeep, v}) = (IF MaxKeep >= v THEN MaxKeep ELSE v)
    BY <1>4, <2>1, MaxOf
  <2>5. u \in Nat /\ v = u - 1 /\ Len(order) <= Max({MaxKeep, u})
    BY <1>4, <2>2
  <2> HIDE DEF u, v
  <2> QED BY <2>1, <2>3, <2>4, <2>5 DEF v
<1> HIDE DEF U
<1>9. U \in SUBSET Requests
  BY DEF U, Unfinished
<1>10. /\ ToSet(t.order) = {q \in Requests : t.jobs[q] # NoJob}
       /\ Len(t.order) <= Max({MaxKeep, Cardinality(U)})
  BY <1>2, <1>4, <1>6, <1>7, <1>8, <1>9, TableTrimmed
<1>11. Unfinished' = U
  BY <1>3 DEF U
<1>12. ToSet(order') = {q \in Requests : jobs'[q] # NoJob}
  BY <1>2, <1>10
<1>13. Len(order') <= Max({MaxKeep, Cardinality(Unfinished')})
  BY <1>2, <1>10, <1>11
<1> QED BY <1>12, <1>13, SMTT(30) DEF TableInv

LEMMA TableTakes ==
  ASSUME JobsInv, TableInv, NEW r \in Requests, NEW files \in Inputs, Enqueue(r, files),
         run[r].at = "none", UNCHANGED <<seen, closing>>
  PROVE  TableInv' /\ JobsInv' /\ run'[r].at = "queued"
<1>1. jobs[r] = NoJob /\ r \notin ToSet(order)
  BY DEF JobsInv, JobOK, JobFits, TableInv
<1>2. /\ JobsInv' /\ run'[r].at = "queued"
      /\ \A q \in Requests \ {r} : run'[q] = run[q]
  BY <1>1, EnqueueStep DEF Enqueue, JobsInv
<1>3. PICK js, t, ord :
         /\ js = [q \in Requests |-> js[q]] /\ js[r].state = "queued"
         /\ \A q \in Requests \ {r} : js[q] = jobs[q]
         /\ ord = Append(order, r)
         /\ jobs' = t.jobs /\ order' = t.order /\ Trims(js, ord, t)
  BY <1>1, EnqueueStep
<1>4. Unfinished' = Unfinished \cup {r} /\ r \notin Unfinished
  BY <1>2 DEF Unfinished
<1> DEFINE U == Unfinished \cup {r}
<1>5. /\ IsFiniteSet(U) /\ Cardinality(U) = Cardinality(Unfinished) + 1 /\ Cardinality(U) \in Nat
      /\ Cardinality(Unfinished) \in Nat
  BY <1>4, SetsFinite, FS_AddElement, FS_CardinalityType
<1>6. /\ ord \in Seq(Requests) /\ Len(ord) = Len(order) + 1 /\ Len(order) \in Nat
      /\ ToSet(ord) = ToSet(order) \cup {r} /\ IsInjective(ord)
  <2>1. order \in Seq(Requests) /\ IsInjective(order) /\ Len(order) \in Nat
    BY DEF JobsInv
  <2>2. /\ ord \in Seq(Requests) /\ Len(ord) = Len(order) + 1 /\ DOMAIN ord = 1 .. Len(order) + 1
        /\ \A i \in 1 .. Len(order) + 1 : ord[i] = IF i <= Len(order) THEN order[i] ELSE r
        /\ DOMAIN order = 1 .. Len(order)
    BY <1>3, <2>1
  <2>3. \A i, k \in 1 .. Len(order) : order[i] = order[k] => i = k
    BY <2>1 DEF IsInjective
  <2>4. \A i \in 1 .. Len(order) : order[i] # r
    BY <1>1, <2>1 DEF ToSet
  <2>5. ASSUME NEW i \in 1 .. Len(order) + 1, NEW k \in 1 .. Len(order) + 1, ord[i] = ord[k]
        PROVE  i = k
    BY <2>1, <2>2, <2>3, <2>4, <2>5
  <2>6. IsInjective(ord)
    BY <2>2, <2>5 DEF IsInjective
  <2>7. ToSet(ord) \subseteq ToSet(order) \cup {r}
    BY <2>1, <2>2 DEF ToSet
  <2>8. r \in ToSet(ord)
    <3>1. Len(order) + 1 \in DOMAIN ord /\ ord[Len(order) + 1] = r
      BY <2>1, <2>2
    <3> QED BY <3>1 DEF ToSet
  <2>9. ToSet(order) \subseteq ToSet(ord)
    <3>1. \A i \in DOMAIN order : i \in DOMAIN ord /\ ord[i] = order[i]
      BY <2>1, <2>2
    <3> QED BY <3>1 DEF ToSet
  <2> QED BY <2>1, <2>2, <2>6, <2>7, <2>8, <2>9
<1>7. ToSet(ord) = {q \in Requests : js[q] # NoJob}
  BY <1>1, <1>3, <1>6 DEF TableInv, NoJob
<1>8. \A q \in Requests : js[q] # NoJob /\ ~Finished(js[q]) => q \in U
  <2>1. ASSUME NEW q \in Requests, jobs[q] # NoJob, ~Finished(jobs[q]) PROVE q \in Unfinished
    BY <2>1 DEF JobsInv, JobOK, JobFits, Finished, Unfinished, NoJob
  <2> QED BY <1>3, <2>1
<1>9. Len(ord) <= Max({MaxKeep, Cardinality(U)}) + 1
  <2>1. MaxKeep \in Nat
    BY JobsAssumption
  <2>2. Len(order) <= Max({MaxKeep, Cardinality(Unfinished)})
    BY DEF TableInv
  <2> DEFINE u == Cardinality(Unfinished)
             v == Cardinality(U)
  <2>3. Max({MaxKeep, u}) = (IF MaxKeep >= u THEN MaxKeep ELSE u)
    BY <1>5, <2>1, MaxOf
  <2>4. Max({MaxKeep, v}) = (IF MaxKeep >= v THEN MaxKeep ELSE v)
    BY <1>5, <2>1, MaxOf
  <2>5. u \in Nat /\ v = u + 1 /\ Len(order) <= Max({MaxKeep, u})
    BY <1>5, <2>2
  <2> HIDE DEF u, v
  <2> QED BY <1>6, <2>1, <2>3, <2>4, <2>5 DEF v
<1>10. U \in SUBSET Requests
  BY DEF Unfinished
<1> HIDE DEF U
<1>11. /\ ToSet(t.order) = {q \in Requests : t.jobs[q] # NoJob}
       /\ Len(t.order) <= Max({MaxKeep, Cardinality(U)})
  BY <1>3, <1>5, <1>6, <1>7, <1>8, <1>9, <1>10, TableTrimmed
<1>12. Unfinished' = U
  BY <1>4 DEF U
<1>13. ToSet(order') = {q \in Requests : jobs'[q] # NoJob}
  BY <1>3, <1>11
<1>14. Len(order') <= Max({MaxKeep, Cardinality(Unfinished')})
  BY <1>3, <1>11, <1>12
<1> QED BY <1>2, <1>13, <1>14 DEF TableInv


-----------------------------------------------------------------------------
\* The files.

LEMMA StagedIs ==
  \A r, s : Staged(r, s).name = r /\ Staged(r, s).stage = s
  BY DEF Staged

\* A file nobody will remove: of an earlier life, or of a job that could not.
Left(r) ==
  /\ req[r] \in {"submitted", "done"}
  /\ \/ run[r].at = "none"
     \/ run[r].at = "removed" /\ run[r].failed
     \/ run[r].at = "done" /\ (jobs[r] = NoJob \/ jobs[r].state = "failed")

Owned(f) ==
  \/ f.stage = "part" /\ req[f.name] = "staging"
  \/ f.stage = "ready" /\ req[f.name] \in {"ready", "leaving"}
  \/ f.stage = "work" /\ run[f.name].at \in {"queued", "importing", "written", "listed", "ended"}
  \/ f \in litter /\ Left(f.name)

FilesInv ==
  /\ \A f \in disk : f = Staged(f.name, f.stage) /\ f.name \in Uploads /\ Owned(f)
  /\ \A r \in Uploads : run[r].at \in {"queued", "importing"} => Staged(r, "work") \in disk

LEMMA OwnedKept ==
  ASSUME NEW f, Owned(f), run'[f.name] = run[f.name], req'[f.name] = req[f.name],
         jobs'[f.name] = jobs[f.name] \/ jobs'[f.name] = NoJob, litter \subseteq litter'
  PROVE  Owned(f)'
<1>1. Left(f.name) => Left(f.name)'
  BY DEF Left
<1> QED BY <1>1 DEF Owned

\* Only the files of one request change hands.
LEMMA OneOwner ==
  ASSUME FilesInv, NEW r \in Requests, litter \subseteq litter',
         \A q \in Requests \ {r} :
            /\ run'[q] = run[q] /\ req'[q] = req[q]
            /\ jobs'[q] = jobs[q] \/ jobs'[q] = NoJob,
         \A f \in disk' : f.name = r \/ f \in disk,
         \A f \in disk : f.name = r \/ f \in disk',
         \A f \in disk' : f.name = r => f = Staged(r, f.stage) /\ r \in Uploads /\ Owned(f)',
         r \in Uploads /\ run'[r].at \in {"queued", "importing"} => Staged(r, "work") \in disk'
  PROVE  FilesInv'
<1>1. ASSUME NEW f \in disk'
      PROVE  f = Staged(f.name, f.stage) /\ f.name \in Uploads /\ Owned(f)'
  <2>1. CASE f.name = r
    BY <2>1
  <2>2. CASE f.name # r
    <3>1. f \in disk /\ f = Staged(f.name, f.stage) /\ f.name \in Uploads /\ Owned(f)
      BY <2>2 DEF FilesInv
    <3>2. f.name \in Requests \ {r}
      BY <2>2, <3>1 DEF Requests
    <3> QED BY <3>1, <3>2, OwnedKept
  <2> QED BY <2>1, <2>2
<1>2. ASSUME NEW q \in Uploads, run'[q].at \in {"queued", "importing"}
      PROVE  Staged(q, "work") \in disk'
  <2>1. CASE q = r
    BY <1>2, <2>1
  <2>2. CASE q # r
    <3>1. run'[q] = run[q]
      BY <2>2 DEF Requests
    <3>2. Staged(q, "work") \in disk /\ Staged(q, "work").name # r
      BY <1>2, <2>2, <3>1, StagedIs DEF FilesInv
    <3> QED BY <3>2
  <2> QED BY <2>1, <2>2
<1> QED BY <1>1, <1>2 DEF FilesInv

\* What a request that is not over yet has on the disk.
LEMMA OwnFiles ==
  ASSUME ReqInv, FilesInv, NEW r \in Requests, req[r] \in Before, NEW f \in disk, f.name = r
  PROVE  \/ f = Staged(r, "part") /\ req[r] = "staging"
         \/ f = Staged(r, "ready") /\ req[r] \in {"ready", "leaving"}
<1>1. f = Staged(r, f.stage) /\ Owned(f)
  BY DEF FilesInv
<1>2. run[r].at = "none" /\ req[r] \notin {"submitted", "done"}
  BY DEF ReqInv, Before
<1> QED BY <1>1, <1>2 DEF Owned, Left

\* The steps of a request that has no job yet.
LEMMA RequestFiles ==
  ASSUME ReqInv, FilesInv, NEW r \in Requests, UNCHANGED <<run, jobs, litter>>,
         Reserve(r) \/ Reject(r) \/ StageBegin(r) \/ StageEnd(r) \/ RemoveReady(r)
  PROVE  FilesInv'
<1>1. req[r] \in Before /\ run[r].at = "none"
  BY DEF Reserve, Reject, StageBegin, StageEnd, RemoveReady, ReqInv, Before
<1>2. /\ \A q \in Requests \ {r} : req'[q] = req[q]
      /\ req \in [Requests -> Before \cup {"submitted", "done"}]
  BY DEF Reserve, Reject, StageBegin, StageEnd, RemoveReady, ReqInv
<1>3. \A s : Staged(r, s).name = r /\ Staged(r, s).stage = s
  BY StagedIs
<1>4. r \in Uploads
  BY <1>1 DEF Reserve, Reject, StageBegin, StageEnd, RemoveReady, ReqInv, Requests
<1>5. ASSUME NEW f \in disk', f.name = r
      PROVE  f = Staged(r, f.stage) /\ Owned(f)'
  <2>1. CASE Reserve(r)
    BY <1>1, <1>5, <2>1, OwnFiles DEF Reserve
  <2>2. CASE Reject(r)
    <3>1. f = Staged(r, "ready") /\ req'[r] = "leaving"
      BY <1>1, <1>2, <1>5, <2>2, OwnFiles DEF Reject
    <3> QED BY <1>3, <1>5, <3>1 DEF Owned
  <2>3. CASE StageBegin(r)
    <3>1. f = Staged(r, "part") /\ req'[r] = "staging"
      BY <1>1, <1>2, <1>5, <2>3, OwnFiles DEF StageBegin
    <3> QED BY <1>3, <1>5, <3>1 DEF Owned
  <2>4. CASE StageEnd(r)
    <3>1. f = Staged(r, "ready") /\ req'[r] = "ready"
      BY <1>1, <1>2, <1>5, <2>4, OwnFiles DEF StageEnd, Files
    <3> QED BY <1>3, <1>5, <3>1 DEF Owned
  <2>5. CASE RemoveReady(r)
    BY <1>1, <1>5, <2>5, OwnFiles DEF RemoveReady
  <2> QED BY <2>1, <2>2, <2>3, <2>4, <2>5
<1>6. \A f \in disk' : f.name = r \/ f \in disk
  BY <1>3 DEF Reserve, Reject, StageBegin, StageEnd, RemoveReady, Files
<1>7. \A f \in disk : f.name = r \/ f \in disk'
  BY <1>3 DEF Reserve, Reject, StageBegin, StageEnd, RemoveReady, Files
<1>8. run'[r].at = "none" /\ \A q \in Requests \ {r} : run'[q] = run[q] /\ jobs'[q] = jobs[q]
  BY <1>1
<1> QED BY <1>2, <1>4, <1>5, <1>6, <1>7, <1>8, OneOwner

\* The disk of a job that goes on.
LEMMA JobFiles ==
  ASSUME FilesInv, NEW r \in Requests, UNCHANGED <<disk, req>>, litter' = litter,
         \A q \in Requests \ {r} :
            run'[q] = run[q] /\ (jobs'[q] = jobs[q] \/ jobs'[q] = NoJob),
         run[r].at \in Working \cup {"done"},
         \/ /\ run[r].at \in {"queued", "importing", "written", "listed"}
            /\ run'[r].at \in {"importing", "written", "listed", "ended"}
            /\ run'[r].at = "importing" => run[r].at \in {"queued", "importing"}
         \/ /\ run'[r].at = run[r].at /\ run'[r].failed = run[r].failed
            /\ run[r].at \in {"ended", "removed", "done"}
            /\ jobs'[r].state = jobs[r].state /\ (jobs'[r] = NoJob <=> jobs[r] = NoJob)
         \/ /\ run[r].at = "removed" /\ run'[r].at = "done"
            /\ run[r].failed => jobs'[r] = NoJob \/ jobs'[r].state = "failed"
  PROVE  FilesInv'
<1>1. ASSUME NEW f \in disk, f.name = r PROVE Owned(f)'
  <2>1. Owned(f)
    BY DEF FilesInv
  <2>2. CASE f.stage = "part" /\ req[r] = "staging"
    BY <1>1, <2>2 DEF Owned
  <2>3. CASE f.stage = "ready" /\ req[r] \in {"ready", "leaving"}
    BY <1>1, <2>3 DEF Owned
  <2>4. CASE f.stage = "work" /\ run[r].at \in {"queued", "importing", "written", "listed", "ended"}
    BY <1>1, <2>4 DEF Owned
  <2>5. CASE f \in litter /\ Left(r)
    <3>1. Left(r)'
      BY <2>5 DEF Left, Working
    <3> QED BY <1>1, <2>5, <3>1 DEF Owned
  <2> QED BY <1>1, <2>1, <2>2, <2>3, <2>4, <2>5 DEF Owned
<1>2. \A f \in disk : f.name = r => f = Staged(r, f.stage) /\ r \in Uploads
  BY DEF FilesInv
<1>3. r \in Uploads /\ run'[r].at \in {"queued", "importing"} => Staged(r, "work") \in disk'
  BY DEF FilesInv
<1> QED BY <1>1, <1>2, <1>3, OneOwner


LEMMA LeaveFiles ==
  ASSUME ReqInv, FilesInv, NEW r \in Requests, Leave(r)
  PROVE  FilesInv'
<1>1. /\ req[r] \in {"removed", "submitted"} /\ UNCHANGED <<run, jobs, disk, litter>>
      /\ req'[r] = "done" /\ \A q \in Requests \ {r} : req'[q] = req[q]
  BY DEF Leave, ReqInv
<1>2. ASSUME NEW f \in disk, f.name = r
      PROVE  f = Staged(r, f.stage) /\ r \in Uploads /\ Owned(f)'
  <2>1. CASE req[r] = "removed"
    BY <1>2, <2>1, OwnFiles DEF Before
  <2>2. CASE req[r] = "submitted"
    <3>1. f = Staged(r, f.stage) /\ r \in Uploads /\ Owned(f)
      BY <1>2 DEF FilesInv
    <3>2. Left(r) => Left(r)'
      BY <1>1 DEF Left
    <3> QED BY <1>1, <1>2, <2>2, <3>1, <3>2 DEF Owned
  <2> QED BY <1>1, <2>1, <2>2
<1>3. r \in Uploads /\ run'[r].at \in {"queued", "importing"} => Staged(r, "work") \in disk'
  BY <1>1 DEF FilesInv
<1> QED BY <1>1, <1>2, <1>3, OneOwner

\* A new job: what it trims has returned, and what it was given is on the disk.
LEMMA TakesOthers ==
  ASSUME JobsInv, TableInv, NEW r \in Requests, NEW files \in Inputs, Enqueue(r, files),
         run[r].at = "none", UNCHANGED <<seen, closing>>
  PROVE  \A q \in Requests \ {r} :
            run'[q] = run[q] /\ (jobs'[q] = jobs[q] \/ jobs'[q] = NoJob)
<1>1. jobs[r] = NoJob /\ r \notin ToSet(order)
  BY DEF JobsInv, JobOK, JobFits, TableInv
<1>2. PICK js, t, ord :
         /\ js = [q \in Requests |-> js[q]]
         /\ \A q \in Requests \ {r} : js[q] = jobs[q]
         /\ jobs' = t.jobs /\ Trims(js, ord, t)
  BY <1>1, EnqueueStep
<1>3. \A q \in Requests : jobs'[q] = js[q] \/ jobs'[q] = NoJob
  BY <1>2 DEF Trims
<1>4. \A q \in Requests \ {r} : run'[q] = run[q]
  BY DEF Enqueue, JobsInv
<1> QED BY <1>2, <1>3, <1>4

LEMMA SubmitUploadFiles ==
  ASSUME JobsInv, ReqInv, TableInv, FilesInv, NEW r \in Requests, SubmitUpload(r)
  PROVE  FilesInv'
<1>1. /\ req[r] = "ready" /\ r \in Uploads /\ UNCHANGED litter /\ run[r].at = "none"
      /\ \A q \in Requests \ {r} : req'[q] = req[q]
  BY DEF SubmitUpload, ReqInv, Before
<1>2. \A s : Staged(r, s).name = r /\ Staged(r, s).stage = s
  BY StagedIs
<1>3. CASE req' = [req EXCEPT ![r] = "leaving"] /\ UNCHANGED <<managerVars, disk, run>>
  <2>1. /\ req'[r] = "leaving" /\ run'[r].at = "none"
        /\ \A q \in Requests \ {r} : run'[q] = run[q] /\ jobs'[q] = jobs[q]
    BY <1>1, <1>3 DEF managerVars, ReqInv
  <2>2. ASSUME NEW f \in disk, f.name = r PROVE f = Staged(r, f.stage) /\ Owned(f)'
    <3>1. f = Staged(r, "ready")
      BY <1>1, <2>2, OwnFiles DEF Before
    <3> QED BY <1>2, <2>1, <2>2, <3>1 DEF Owned
  <2> QED BY <1>1, <1>3, <2>1, <2>2, OneOwner
<1>4. CASE /\ req' = [req EXCEPT ![r] = "submitted"]
           /\ disk' = (disk \ Files(r)) \cup {Staged(r, "work")}
           /\ UNCHANGED <<seen, closing>>
           /\ \E files \in Inputs : Enqueue(r, files)
  <2>1. run'[r].at = "queued"
    BY <1>1, <1>4, TableTakes
  <2>2. \A q \in Requests \ {r} : run'[q] = run[q] /\ (jobs'[q] = jobs[q] \/ jobs'[q] = NoJob)
    BY <1>1, <1>4, TakesOthers
  <2>3. ASSUME NEW f \in disk', f.name = r PROVE f = Staged(r, f.stage) /\ Owned(f)'
    <3>1. f = Staged(r, "work")
      BY <1>4, <2>3 DEF Files
    <3> QED BY <1>2, <2>1, <2>3, <3>1 DEF Owned
  <2>4. /\ \A f \in disk' : f.name = r \/ f \in disk
        /\ \A f \in disk : f.name = r \/ f \in disk'
        /\ Staged(r, "work") \in disk'
    BY <1>2, <1>4 DEF Files
  <2> QED BY <1>1, <2>2, <2>3, <2>4, OneOwner
<1> QED BY <1>3, <1>4 DEF SubmitUpload

LEMMA SubmitPathFiles ==
  ASSUME JobsInv, ReqInv, TableInv, FilesInv, NEW r \in Requests, SubmitPath(r)
  PROVE  FilesInv'
<1>1. /\ req[r] = "idle" /\ r \in PathRequests /\ UNCHANGED <<disk, litter>> /\ run[r].at = "none"
      /\ \A q \in Requests \ {r} : req'[q] = req[q]
      /\ r \notin Uploads
  BY JobsAssumption DEF SubmitPath, ReqInv, Before
<1>2. \A q \in Requests \ {r} : run'[q] = run[q] /\ (jobs'[q] = jobs[q] \/ jobs'[q] = NoJob)
  <2>1. CASE UNCHANGED <<jobs, run>>
    BY <2>1
  <2>2. CASE UNCHANGED <<seen, closing>> /\ \E files \in Inputs : Enqueue(r, files)
    BY <1>1, <2>2, TakesOthers
  <2> QED BY <2>1, <2>2 DEF SubmitPath
<1>3. \A f \in disk : f.name # r
  BY <1>1 DEF FilesInv
<1> QED BY <1>1, <1>2, <1>3, OneOwner

LEMMA RemoveWorkFiles ==
  ASSUME JobsInv, ReqInv, FilesInv, NEW r \in Requests, RemoveWork(r)
  PROVE  FilesInv'
<1>1. /\ run[r].at = "ended" /\ run'[r].at = "removed"
      /\ \/ disk' = disk \ {Staged(r, "work")} /\ UNCHANGED litter
         \/ UNCHANGED disk /\ litter' = litter \cup {Staged(r, "work")} /\ run'[r].failed
  BY RemoveWorkStep
<1>2. \A q \in Requests \ {r} : run'[q] = run[q] /\ req'[q] = req[q] /\ jobs'[q] = jobs[q]
  BY DEF RemoveWork, managerVars, Goes, JobsInv
<1>3. req[r] \in {"submitted", "done"} /\ req' = req
  BY <1>1 DEF ReqInv, Before, RemoveWork
<1>4. \A s : Staged(r, s).name = r /\ Staged(r, s).stage = s
  BY StagedIs
<1>5. ASSUME NEW f \in disk, f.name = r
      PROVE  f = Staged(r, "work") /\ r \in Uploads
  <2>1. f = Staged(r, f.stage) /\ Owned(f) /\ r \in Uploads
    BY <1>5 DEF FilesInv
  <2>2. ~Left(r)
    BY <1>1 DEF Left
  <2> QED BY <1>3, <1>5, <2>1, <2>2 DEF Owned
<1>6. CASE disk' = disk \ {Staged(r, "work")} /\ UNCHANGED litter
  BY <1>1, <1>2, <1>4, <1>5, <1>6, OneOwner
<1>7. CASE UNCHANGED disk /\ litter' = litter \cup {Staged(r, "work")} /\ run'[r].failed
  <2>1. Left(r)'
    BY <1>1, <1>3, <1>7 DEF Left
  <2>2. \A f \in disk' : f.name = r => f = Staged(r, f.stage) /\ r \in Uploads /\ Owned(f)'
    BY <1>4, <1>5, <1>7, <2>1 DEF Owned
  <2> QED BY <1>1, <1>2, <1>7, <2>2, OneOwner
<1> QED BY <1>1, <1>6, <1>7

\* A crash: what is young enough to stay is litter, and of a request that had begun.
LEMMA CrashFiles ==
  ASSUME ReqInv, FilesInv, Crash
  PROVE  FilesInv'
<1>1. disk' \subseteq disk /\ litter' = disk'
  BY DEF Crash
<1>2. \A r \in Requests : /\ run'[r].at = "none"
                          /\ req[r] # "idle" => req'[r] = "done"
  BY DEF Crash, NoRun
<1>3. ASSUME NEW f \in disk' PROVE Owned(f)'
  <2>1. f \in disk /\ f.name \in Uploads /\ Owned(f)
    BY <1>1 DEF FilesInv
  <2>2. f.name \in Requests
    BY <2>1 DEF Requests
  <2>3. req[f.name] # "idle"
    BY <2>1, <2>2, OwnFiles DEF Before
  <2>4. Left(f.name)'
    BY <1>2, <2>2, <2>3 DEF Left
  <2> QED BY <1>1, <2>4 DEF Owned
<1>4. \A r \in Uploads : run'[r].at = "none"
  BY <1>2 DEF Requests
<1> QED BY <1>1, <1>3, <1>4 DEF FilesInv



-----------------------------------------------------------------------------
\* All of it together.

Inv == JobsInv /\ ReqInv /\ SlotsConserved /\ TableInv /\ FilesInv

LEMMA InitInv == Init => Inv
<1> SUFFICES ASSUME Init PROVE Inv
  OBVIOUS
<1>1. JobsInv
  <2>1. \A r \in Requests : run[r] = NoRun /\ jobs[r] = NoJob
    BY DEF Init
  <2>2. /\ DOMAIN NoRun = RunFields /\ NoRun.at = "none" /\ NoRun.todo = <<>>
        /\ NoRun.expired = FALSE /\ NoRun.failed = FALSE /\ NoRun.writer = Writer
    BY DEF NoRun, RunFields
  <2>3. NoRun.todo \in Seq(File)
    BY <2>2
  <2>4. IsRun(NoRun) /\ DOMAIN NoJob = JobFields
    BY <2>2, <2>3, WriterStarts DEF IsRun, NoJob, JobFields
  <2>5. \A r \in Requests : JobOK(r)
    BY <2>1, <2>2, <2>4 DEF JobOK, JobFits
  <2>6. order \in Seq(Requests) /\ IsInjective(order)
    BY DEF Init, IsInjective
  <2>7. /\ closing \in BOOLEAN
        /\ run = [r \in Requests |-> run[r]]
        /\ jobs = [r \in Requests |-> jobs[r]]
        /\ seen = [r \in Requests |-> seen[r]]
    BY DEF Init
  <2> QED BY <2>5, <2>6, <2>7 DEF JobsInv
<1>2. \A r \in Requests : run[r].at = "none" /\ jobs[r] = NoJob /\ req[r] = "idle"
  BY DEF Init, NoRun
<1>3. ReqInv
  <2>1. limit \in Limits /\ req = [r \in Requests |-> "idle"]
    BY DEF Init
  <2>2. req \in [Requests -> Before \cup {"submitted", "done"}]
    BY <2>1 DEF Before
  <2> QED BY <1>2, <2>1, <2>2 DEF ReqInv, Requests
<1>4. Unfinished = {} /\ Cardinality(Unfinished) = 0
  BY <1>2, FS_EmptySet DEF Unfinished
<1>5. SlotsConserved
  <2>1. permits = {} /\ uploading = 0 /\ running = 0 /\ Cardinality(permits) = 0
    BY FS_EmptySet DEF Init
  <2>2. 0 <= Max(Limits)
    BY <1>3, MostSlots, JobsAssumption DEF ReqInv
  <2>3. permits = {r \in Uploads : req[r] \in {"reserved", "staging", "ready", "leaving", "removed"}}
    BY <1>2, <2>1 DEF Requests
  <2> QED BY <1>4, <2>1, <2>2, <2>3 DEF SlotsConserved
<1>6. TableInv
  <2>1. Len(order) = 0 /\ ToSet(order) = {}
    BY DEF Init, ToSet
  <2>2. Max({MaxKeep, 0}) \in Nat
    BY MaxOf, JobsAssumption
  <2>3. {r \in Requests : jobs[r] # NoJob} = {}
    BY <1>2
  <2>4. Len(order) <= Max({MaxKeep, Cardinality(Unfinished)})
    <3>1. Max({MaxKeep, Cardinality(Unfinished)}) = Max({MaxKeep, 0})
      BY <1>4
    <3> QED BY <2>1, <2>2, <3>1
  <2> QED BY <2>1, <2>3, <2>4 DEF TableInv
<1>7. FilesInv
  BY <1>2 DEF Init, FilesInv, Requests
<1> QED BY <1>1, <1>3, <1>5, <1>6, <1>7 DEF Inv

\* What touches neither the jobs nor the table.
LEMMA JobsAlone ==
  ASSUME JobsInv, TableInv, UNCHANGED <<order, jobs, run, seen>>, closing' \in BOOLEAN
  PROVE  JobsInv' /\ TableInv'
<1>1. Unfinished' = Unfinished
  BY DEF Unfinished
<1>2. JobsInv'
  BY DEF JobsInv, JobOK
<1>3. TableInv'
  BY <1>1, TableQuiet
<1> QED BY <1>2, <1>3

LEMMA RequestInv ==
  ASSUME Inv, NEW r \in Requests,
         Reserve(r) \/ Reject(r) \/ StageBegin(r) \/ StageEnd(r) \/ RemoveReady(r) \/ Leave(r)
  PROVE  Inv'
<1>1. UNCHANGED <<order, jobs, run, seen, litter>> /\ closing' = closing
  BY DEF Reserve, Reject, StageBegin, StageEnd, RemoveReady, Leave, managerVars
<1>2. JobsInv' /\ TableInv'
  <2>1. closing' \in BOOLEAN
    BY <1>1 DEF Inv, JobsInv
  <2> QED BY <1>1, <2>1, JobsAlone DEF Inv
<1>3. FilesInv'
  BY <1>1, RequestFiles, LeaveFiles DEF Inv
<1>4. ReqInv' /\ SlotsConserved'
  <2>1. CASE Reserve(r)
    BY <2>1, ReserveSlot DEF Inv
  <2>2. CASE Leave(r)
    BY <2>2, LeaveSlot DEF Inv
  <2>3. CASE Reject(r) \/ StageBegin(r) \/ StageEnd(r) \/ RemoveReady(r)
    <3>1. /\ req[r] \in Holding /\ UNCHANGED <<limit, permits, uploading, running, run>>
          /\ \E to \in Holding : req' = [req EXCEPT ![r] = to]
      BY <2>3 DEF Reject, StageBegin, StageEnd, RemoveReady, managerVars, Holding, Before
    <3> QED BY <3>1, SlotKept DEF Inv
  <2> QED BY <2>1, <2>2, <2>3
<1> QED BY <1>2, <1>3, <1>4 DEF Inv

LEMMA SubmitInv ==
  ASSUME Inv, NEW r \in Requests, SubmitUpload(r) \/ SubmitPath(r)
  PROVE  Inv'
<1>1. run[r].at = "none" /\ UNCHANGED seen /\ closing' = closing
  BY DEF SubmitUpload, SubmitPath, managerVars, Inv, ReqInv, Before
<1>2. FilesInv'
  BY SubmitUploadFiles, SubmitPathFiles DEF Inv
<1>3. CASE UNCHANGED <<order, jobs, run>>
  <2>1. JobsInv' /\ TableInv'
    BY <1>1, <1>3, JobsAlone DEF Inv, JobsInv
  <2>2. CASE SubmitUpload(r)
    <3>1. req' = [req EXCEPT ![r] = "leaving"] \/ \E files \in Inputs : Enqueue(r, files)
      BY <2>2 DEF SubmitUpload
    <3>2. ASSUME NEW files \in Inputs, Enqueue(r, files) PROVE run'[r].at = "queued"
      BY <1>1, <3>2, TableTakes DEF Inv
    <3>3. ReqInv' /\ SlotsConserved'
      BY <2>2, <3>1, <3>2, SubmitUploadSlot DEF Inv
    <3> QED BY <1>2, <2>1, <3>3 DEF Inv
  <2>3. CASE SubmitPath(r)
    BY <1>2, <1>3, <2>1, <2>3, SubmitPathSlot DEF Inv
  <2> QED BY <2>2, <2>3
<1>4. CASE \E files \in Inputs : Enqueue(r, files)
  <2>1. JobsInv' /\ TableInv' /\ run'[r].at = "queued"
    BY <1>1, <1>4, TableTakes DEF Inv
  <2>2. ReqInv' /\ SlotsConserved'
    BY <2>1, SubmitUploadSlot, SubmitPathSlot DEF Inv
  <2> QED BY <1>2, <2>1, <2>2 DEF Inv
<1> QED BY <1>3, <1>4 DEF SubmitUpload, SubmitPath, managerVars

\* A goroutine goes on: the table, the slots and the files stay as they are.
LEMMA Moves ==
  ASSUME Inv, NEW r \in Requests, JobsInv',
         UNCHANGED <<limit, permits, uploading, running, order, req, disk, litter>>,
         \A q \in Requests \ {r} : run'[q] = run[q] /\ jobs'[q] = jobs[q],
         jobs'[r] = NoJob <=> jobs[r] = NoJob,
         \/ /\ run[r].at \in {"queued", "importing", "written", "listed"}
            /\ run'[r].at \in {"importing", "written", "listed", "ended"}
            /\ run'[r].at = "importing" => run[r].at \in {"queued", "importing"}
         \/ /\ run'[r].at = run[r].at /\ run'[r].failed = run[r].failed
            /\ run[r].at \in {"ended", "removed", "done"} /\ jobs'[r].state = jobs[r].state
  PROVE  Inv'
<1>1. ReqInv' /\ SlotsConserved'
  BY JobSlot DEF Inv, Working
<1>2. Unfinished' = Unfinished
  BY DEF Unfinished
<1>3. TableInv'
  BY <1>2, TableQuiet DEF Inv
<1>4. FilesInv'
  BY JobFiles DEF Inv, Working
<1> QED BY <1>1, <1>3, <1>4 DEF Inv

LEMMA StartInv ==
  ASSUME Inv, NEW r \in Requests, Start(r)
  PROVE  Inv'
<1>1. JobsInv' /\ run[r].at = "queued" /\ run'[r].at = "importing"
  BY StartStep DEF Inv
<1>2. jobs[r] # NoJob /\ jobs'[r] # NoJob
  <2>1. JobFits(run[r], jobs[r], seen[r]) /\ JobFits(run'[r], jobs'[r], seen'[r])
    BY <1>1 DEF Inv, JobsInv, JobOK
  <2> QED BY <1>1, <2>1 DEF JobFits, NoJob
<1>3. /\ UNCHANGED <<limit, permits, uploading, running, order, req, disk, litter>>
      /\ \A q \in Requests \ {r} : run'[q] = run[q]
  BY DEF Start, Inv, JobsInv, Goes
<1>4. \A q \in Requests \ {r} : jobs'[q] = jobs[q]
  BY <1>2, Patching DEF Start, Inv
<1> QED BY <1>1, <1>2, <1>3, <1>4, Moves

LEMMA ImportInv ==
  ASSUME Inv, NEW r \in Requests,
         Expire(r) \/ TakeResult(r) \/ EndImport(r) \/ ListCatalog(r) \/ ReplaceIndex(r)
  PROVE  Inv'
<1>1. /\ JobsInv' /\ run[r].at \in {"importing", "written", "listed"}
      /\ run'[r].at \in {"importing", "written", "listed", "ended"}
      /\ run'[r].at = "importing" => run[r].at = "importing"
  <2>1. JobsInv
    BY DEF Inv
  <2>2. CASE Expire(r)
    BY <2>1, <2>2, ExpireStep
  <2>3. CASE TakeResult(r)
    BY <2>1, <2>3, TakeResultStep
  <2>4. CASE EndImport(r)
    BY <2>1, <2>4, EndImportStep
  <2>5. CASE ListCatalog(r)
    BY <2>1, <2>5, ListCatalogStep
  <2>6. CASE ReplaceIndex(r)
    BY <2>1, <2>6, ReplaceIndexStep
  <2> QED BY <2>2, <2>3, <2>4, <2>5, <2>6
<1>2. /\ UNCHANGED <<limit, permits, uploading, running, order, req, disk, litter, jobs>>
      /\ \E j : Goes(r, j)
  BY DEF Expire, TakeResult, EndImport, ListCatalog, ReplaceIndex, managerVars
<1>3. \A q \in Requests \ {r} : run'[q] = run[q]
  BY <1>2, Going DEF Inv
<1> QED BY <1>1, <1>2, <1>3, Moves

LEMMA StraggleInv ==
  ASSUME Inv, NEW r \in Requests, Straggle(r)
  PROVE  Inv'
<1>1. /\ JobsInv' /\ run[r].at \in {"ended", "removed", "done"} /\ run'[r].at = run[r].at
      /\ run'[r].failed = run[r].failed
      /\ jobs'[r].state = jobs[r].state /\ (jobs'[r] = NoJob <=> jobs[r] = NoJob)
      /\ \A q \in Requests \ {r} : jobs'[q] = jobs[q]
  BY StraggleStep DEF Inv
<1>2. /\ UNCHANGED <<limit, permits, uploading, running, order, req, disk, litter>>
      /\ \E j : Goes(r, j)
  BY DEF Straggle
<1>3. \A q \in Requests \ {r} : run'[q] = run[q]
  BY <1>2, Going DEF Inv
<1> QED BY <1>1, <1>2, <1>3, Moves

LEMMA RemoveWorkInv ==
  ASSUME Inv, NEW r \in Requests, RemoveWork(r)
  PROVE  Inv'
<1>1. JobsInv' /\ run[r].at = "ended" /\ run'[r].at = "removed"
  BY RemoveWorkStep DEF Inv
<1>2. /\ UNCHANGED <<limit, permits, uploading, running, order, req, jobs>>
      /\ \E j : Goes(r, j)
  BY DEF RemoveWork, managerVars
<1>3. \A q \in Requests \ {r} : run'[q] = run[q]
  BY <1>2, Going DEF Inv
<1>4. ReqInv' /\ SlotsConserved'
  BY <1>1, <1>2, <1>3, JobSlot DEF Inv, Working
<1>5. Unfinished' = Unfinished
  BY <1>1, <1>3 DEF Unfinished
<1>6. TableInv'
  BY <1>2, <1>5, TableQuiet DEF Inv
<1>7. FilesInv'
  BY RemoveWorkFiles DEF Inv
<1> QED BY <1>1, <1>4, <1>6, <1>7 DEF Inv

LEMMA CompleteInv ==
  ASSUME Inv, NEW r \in Requests, Complete(r)
  PROVE  Inv'
<1>1. /\ JobsInv' /\ run[r].at = "removed" /\ run'[r].at = "done"
      /\ run[r].failed => jobs'[r] = NoJob \/ jobs'[r].state = "failed"
      /\ \A q \in Requests \ {r} : jobs'[q] = jobs[q] \/ jobs'[q] = NoJob
  <2>1. PICK js, t : /\ \A q \in Requests \ {r} : js[q] = jobs[q]
                     /\ js = [q \in Requests |-> js[q]]
                     /\ jobs' = t.jobs /\ Trims(js, order, t)
    BY CompleteStep DEF Inv
  <2>2. \A q \in Requests : jobs'[q] = js[q] \/ jobs'[q] = NoJob
    BY <2>1 DEF Trims
  <2> QED BY <2>1, <2>2, CompleteStep DEF Inv
<1>2. /\ UNCHANGED <<limit, permits, uploading, req, disk, litter>>
      /\ running' = IF running > 0 THEN running - 1 ELSE running
      /\ \E j : Goes(r, j)
  BY DEF Complete
<1>3. \A q \in Requests \ {r} : run'[q] = run[q]
  BY <1>2, Going DEF Inv
<1>4. ReqInv' /\ SlotsConserved'
  BY <1>1, <1>2, <1>3, JobSlot DEF Inv
<1>5. TableInv'
  BY TableCompletes DEF Inv
<1>6. FilesInv'
  BY <1>1, <1>2, <1>3, JobFiles DEF Inv, Working
<1> QED BY <1>1, <1>4, <1>5, <1>6 DEF Inv

LEMMA ManagerInv ==
  ASSUME Inv, ApplyOptions \/ Close
  PROVE  Inv'
<1>1. /\ UNCHANGED <<permits, uploading, running, order, jobs, req, disk, litter, run, seen>>
      /\ limit' \in Limits /\ closing' \in BOOLEAN
  BY DEF ApplyOptions, Close, Inv, ReqInv, JobsInv
<1>2. JobsInv' /\ TableInv'
  BY <1>1, JobsAlone DEF Inv
<1>3. Unfinished' = Unfinished
  BY <1>1 DEF Unfinished
<1>4. ReqInv' /\ SlotsConserved'
  BY <1>1, <1>3 DEF Inv, ReqInv, SlotsConserved
<1>5. FilesInv'
  BY <1>1 DEF Inv, FilesInv, Owned, Left
<1> QED BY <1>2, <1>4, <1>5 DEF Inv

\* The process starts again with nothing but what is on the disk.
LEMMA CrashInv ==
  ASSUME Inv, Crash
  PROVE  Inv'
<1>1. JobsInv'
  <2>1. \A r \in Requests : run'[r] = NoRun /\ jobs'[r] = NoJob
    BY DEF Crash
  <2>2. /\ DOMAIN NoRun = RunFields /\ NoRun.at = "none" /\ NoRun.todo = <<>>
        /\ NoRun.expired = FALSE /\ NoRun.failed = FALSE /\ NoRun.writer = Writer
    BY DEF NoRun, RunFields
  <2>3. NoRun.todo \in Seq(File)
    BY <2>2
  <2>4. IsRun(NoRun) /\ DOMAIN NoJob = JobFields
    BY <2>2, <2>3, WriterStarts DEF IsRun, NoJob, JobFields
  <2>5. \A r \in Requests : JobOK(r)'
    BY <2>1, <2>2, <2>4 DEF JobOK, JobFits
  <2>6. order' \in Seq(Requests) /\ IsInjective(order')
    BY DEF Crash, IsInjective
  <2>7. /\ closing' \in BOOLEAN
        /\ run' = [r \in Requests |-> run'[r]]
        /\ jobs' = [r \in Requests |-> jobs'[r]]
        /\ seen' = [r \in Requests |-> seen'[r]]
    BY DEF Crash
  <2> QED BY <2>5, <2>6, <2>7 DEF JobsInv
<1>2. \A r \in Requests : run'[r].at = "none" /\ jobs'[r] = NoJob /\ req'[r] \in {"idle", "done"}
  BY DEF Crash, NoRun
<1>3. ReqInv'
  BY <1>2 DEF Crash, ReqInv, Before, Requests
<1>4. Unfinished' = {} /\ Cardinality(Unfinished') = 0
  BY <1>2, FS_EmptySet DEF Unfinished
<1>5. SlotsConserved'
  <2>1. permits' = {} /\ uploading' = 0 /\ running' = 0 /\ Cardinality(permits') = 0
    BY FS_EmptySet DEF Crash
  <2>2. 0 <= Max(Limits)
    BY <1>3, MostSlots, JobsAssumption DEF ReqInv
  <2>3. permits' = {r \in Uploads : req'[r] \in {"reserved", "staging", "ready", "leaving", "removed"}}
    BY <1>2, <2>1 DEF Requests
  <2> QED BY <1>4, <2>1, <2>2, <2>3 DEF SlotsConserved
<1>6. TableInv'
  <2>1. Len(order') = 0 /\ ToSet(order') = {}
    BY DEF Crash, ToSet
  <2>2. Max({MaxKeep, 0}) \in Nat
    BY MaxOf, JobsAssumption
  <2>3. {r \in Requests : jobs'[r] # NoJob} = {}
    BY <1>2
  <2>4. Len(order') <= Max({MaxKeep, Cardinality(Unfinished')})
    <3>1. Max({MaxKeep, Cardinality(Unfinished')}) = Max({MaxKeep, 0})
      BY <1>4
    <3> QED BY <2>1, <2>2, <3>1
  <2> QED BY <2>1, <2>3, <2>4 DEF TableInv
<1>7. FilesInv'
  BY CrashFiles DEF Inv
<1> QED BY <1>1, <1>3, <1>5, <1>6, <1>7 DEF Inv

LEMMA StepInv == Inv /\ [Next]_vars => Inv'
<1> SUFFICES ASSUME Inv, [Next]_vars PROVE Inv'
  OBVIOUS
<1>1. ASSUME NEW r \in Requests,
             Reserve(r) \/ Reject(r) \/ StageBegin(r) \/ StageEnd(r) \/ RemoveReady(r) \/ Leave(r)
      PROVE  Inv'
  BY <1>1, RequestInv
<1>2. ASSUME NEW r \in Requests, SubmitUpload(r) \/ SubmitPath(r)
      PROVE  Inv'
  BY <1>2, SubmitInv
<1>3. ASSUME NEW r \in Requests,
             \/ Start(r) \/ Expire(r) \/ TakeResult(r) \/ EndImport(r) \/ ListCatalog(r)
             \/ ReplaceIndex(r) \/ RemoveWork(r) \/ Complete(r) \/ Straggle(r)
      PROVE  Inv'
  BY <1>3, StartInv, ImportInv, StraggleInv, RemoveWorkInv, CompleteInv
<1>4. CASE ApplyOptions \/ Close \/ Crash
  BY <1>4, ManagerInv, CrashInv
<1>5. CASE UNCHANGED vars
  <2>1. JobsInv'
    BY <1>5 DEF vars, managerVars, Inv, JobsInv, JobOK
  <2>2. Unfinished' = Unfinished
    BY <1>5 DEF vars, Unfinished
  <2>3. ReqInv' /\ SlotsConserved' /\ TableInv'
    BY <1>5, <2>2 DEF vars, managerVars, Inv, ReqInv, SlotsConserved, TableInv
  <2>4. FilesInv'
    BY <1>5 DEF vars, managerVars, Inv, FilesInv, Owned, Left
  <2> QED BY <2>1, <2>3, <2>4 DEF Inv
<1> QED BY <1>1, <1>2, <1>3, <1>4, <1>5 DEF Next, RequestStep, JobStep

\* The invariant above holds of every reachable state: what the goroutine, the
\* report, the request, the slots, the table and the files have to do with one another.
THEOREM AlwaysInv == Spec => []Inv
<1> QED BY InitInv, StepInv, PTL DEF Spec

\* Every slot is held by an upload that is being read or a job that is not done, it
\* passes between the two without being lost or held twice (UploadPermit, submit,
\* complete), and there are never more than MaxConcurrentJobs allowed at most.
THEOREM SlotsAlwaysConserved == Spec => []SlotsConserved
<1>1. Inv => SlotsConserved
  BY DEF Inv
<1> QED BY <1>1, AlwaysInv, PTL

\* No staged file is forgotten: whatever fails, is rejected or dies, a file in the
\* staging directory has a request or a job that will remove it, or was left by an
\* earlier life or a removal that failed; and a job that reads its file finds it.
THEOREM FilesAlwaysOwned == Spec => []FilesOwned
<1>1. Inv => FilesOwned
  <2> SUFFICES ASSUME Inv PROVE FilesOwned
    OBVIOUS
  <2>1. \A f \in disk \ litter : Owned(f)
    BY DEF Inv, FilesInv
  <2>2. \A r \in Uploads : run[r].at \in {"queued", "importing"} => Staged(r, "work") \in disk
    BY DEF Inv, FilesInv
  <2> QED BY <2>1, <2>2 DEF FilesOwned, Owned
<1> QED BY <1>1, AlwaysInv, PTL

\* trimLocked never drops a job that is not done, the order and the table name the
\* same jobs, each once, and one removal a call is enough to keep the bound.
THEOREM TableAlwaysComplete == Spec => []TableComplete
<1>1. Inv => TableComplete
  <2> SUFFICES ASSUME Inv PROVE TableComplete
    OBVIOUS
  <2>1. \A r \in Unfinished : jobs[r].state \in {"queued", "running"}
    BY DEF Inv, JobsInv, JobOK, JobFits, Unfinished
  <2> QED BY <2>1 DEF Inv, JobsInv, TableInv, TableComplete
<1> QED BY <1>1, AlwaysInv, PTL

\* A job that complete reports as succeeded has every account it counts in the
\* catalog, and the rebuild of the index that followed listed the catalog with all
\* of them in it; its file is gone, and no worker it left behind can change what it
\* reports.  Which accounts the index then holds is not claimed.
THEOREM SuccessAlwaysTruthful == Spec => []SuccessTruthful
<1>1. Inv => SuccessTruthful
  <2> SUFFICES ASSUME Inv, NEW r \in Requests, jobs[r].state = "succeeded"
               PROVE  /\ jobs[r].ok = run[r].writer.written
                      /\ seen[r] = jobs[r].ok
                      /\ jobs[r].total >= jobs[r].ok
                      /\ Files(r) \cap disk = {}
    BY DEF SuccessTruthful
  <2>1. /\ run[r].at = "done" /\ jobs[r] # NoJob
        /\ jobs[r].ok = run[r].writer.written /\ seen[r] = jobs[r].ok
        /\ jobs[r].total >= jobs[r].ok
    BY DEF Inv, JobsInv, JobOK, JobFits, NoJob
  <2>2. req[r] \in {"submitted", "done"}
    BY <2>1 DEF Inv, ReqInv, Before
  <2>3. ASSUME NEW f \in disk, f.name = r PROVE FALSE
    <3>1. Owned(f)
      BY DEF Inv, FilesInv
    <3> QED BY <2>1, <2>2, <2>3, <3>1 DEF Owned, Left
  <2>4. Files(r) \cap disk = {}
    BY <2>3 DEF Files
  <2> QED BY <2>1, <2>4
<1> QED BY <1>1, AlwaysInv, PTL



-----------------------------------------------------------------------------
(* Settings.  An Apply that no other overlaps finds memory and components  *)
(* as it left them; two that overlap have both lost that claim (Solo).     *)

ApplyFields == {"pc", "in", "prev", "stage", "snap", "alone", "blind"}
Late == {"resize", "reload", "fill", "stages", "snap", "write"}

Good(s) == s \in Settled!Saved /\ s.hot > 0 /\ s.conc \in 0..MaxConc

\* What the last acknowledged PUT had saved is in s.
Acks(s) ==
  acked # NoFile =>
    s.hot = acked.hot /\ s.rest = acked.rest /\ (acked.conc # 0 => s.conc = acked.conc)

\* So it is in what the start applies, unless it could not read the file.
Restores(a) == a.blind \/ Acks(a.in)

\* An Apply under way, whatever the others do; boot: that of the start.
Own(a, boot) ==
  /\ DOMAIN a = ApplyFields /\ a.stage \in 1..4
  /\ a.pc \in {"load", "merge", "store", "idle", "ok", "error"} \cup Late
  /\ a.pc \in {"load", "merge", "store", "resize", "reload", "fill"} => a.stage = 1
  /\ a.pc = "load" => boot
  /\ boot => a.alone /\ a.pc # "idle"
  /\ a.pc = "merge" => a.in \in Settled!Saved /\ (boot => a.in.hot > 0)
  /\ a.pc \in {"store"} \cup Late =>
       Good(a.in) /\ (a.in.hint <=> (a.in.listen # current.listen))
  /\ a.pc = "write" => Good(a.snap)
  /\ boot /\ a.pc \in {"merge", "store"} \cup Late => Restores(a)

\* An Apply that is alone has in memory and in the components behind it what it came with.
Sync(a) ==
  a.alone /\ a.pc \in Late =>
    /\ mem = a.in
    /\ a.pc # "resize" => current.cap = a.in.hot
    /\ a.pc = "stages" => \A i \in 1..(a.stage - 1) : current.rest[i] = a.in.rest
    /\ a.pc = "stages" /\ a.stage > 2 => current.conc = a.in.conc
    /\ a.pc \in {"snap", "write"} =>
         current.conc = a.in.conc /\ \A i \in 1..4 : current.rest[i] = a.in.rest
    /\ a.pc = "write" => a.snap = a.in

\* Of two that overlap neither is alone, and neither is that of the start.
Solo ==
  \A c, d \in Settled!Callers :
    c # d /\ Settled!Active(c) /\ Settled!Active(d) => ~apply[c].alone /\ c # Boot /\ d # Boot

Stored ==
  /\ DOMAIN current = {"cap", "loaded", "conc", "listen", "rest"} /\ DOMAIN current.rest = 1..4
  /\ mem \in Settled!Saved /\ (mem.hot > 0 \/ apply[Boot].pc \in {"load", "merge", "store"})
  /\ (mem.hot > 0 => Good(mem))
  /\ file = NoFile \/ Good(file)
  /\ acked # NoFile => Good(acked) /\ file # NoFile /\ Acks(file)

Settles ==
  settled =>
    /\ mem.hot > 0 /\ Settled!SettledAgree
    /\ \A c \in Settled!Callers :
         Settled!Active(c) => c # Boot /\ apply[c].pc \in {"merge", "store"}

SettingsInv ==
  /\ apply = [c \in Settled!Callers |-> apply[c]]
  /\ \A c \in Settled!Callers : Own(apply[c], c = Boot) /\ Sync(apply[c])
  /\ Solo /\ Stored /\ Settles

LEMMA StagesAre ==
  /\ Len(Settled!Stages) = 4 /\ DOMAIN Settled!Stages = 1..4
  /\ Settled!Stages[1] # "http" /\ Settled!Stages[2] = "http" /\ Settled!Stages[3] # "http"
  /\ Settled!Stages[4] # "http"
  BY DEF Settled!Stages

\* The records an Apply is made of.
LEMMA SavedMade ==
  ASSUME NEW s, s \in Settled!Body \/ s \in Settled!Saved, NEW h \in BOOLEAN
  PROVE  /\ Settled!Hinted(s, h) \in Settled!Saved
         /\ Settled!Hinted(s, h).hot = s.hot /\ Settled!Hinted(s, h).conc = s.conc
         /\ Settled!Hinted(s, h).listen = s.listen /\ Settled!Hinted(s, h).rest = s.rest
         /\ Settled!Hinted(s, h).hint = h
  BY DEF Settled!Hinted, Settled!Body, Settled!Saved

LEMMA NoneMade ==
  LET n == Settled!None0
  IN  /\ DOMAIN n = ApplyFields /\ n.alone /\ n.stage = 1 /\ n.pc = "idle"
      /\ n.in \in Settled!Saved
  BY SavedMade, SettingsAssumption DEF Settled!None0, ApplyFields

LEMMA FilledMade ==
  ASSUME NEW s \in Settled!Saved
  PROVE  /\ Settled!Filled(s) \in Settled!Saved /\ Settled!Filled(s).hot > 0
         /\ s.hot > 0 => Settled!Filled(s).hot = s.hot
         /\ Settled!Filled(s).rest = s.rest
         /\ s.conc > 0 => Settled!Filled(s).conc = s.conc
<1>1. /\ s.hot \in Int /\ s.conc \in Int /\ s.listen \in Int
      /\ s.rest \in Int /\ s.badSSO \in BOOLEAN /\ s.hint \in BOOLEAN
      /\ DOMAIN s = {"hot", "conc", "listen", "rest", "badSSO", "hint"}
  BY DEF Settled!Saved
<1>2. Yaml.hot \in Int /\ Yaml.hot > 0 /\ Yaml.conc \in Int /\ Yaml.listen \in Int
  BY SettingsAssumption DEF Settled!Body
<1> DEFINE f == Settled!Filled(s)
<1>3. /\ DOMAIN f = {"hot", "conc", "listen", "rest", "badSSO", "hint"}
      /\ f = [x \in DOMAIN f |-> f[x]]
      /\ f.hot = (IF s.hot <= 0 THEN Yaml.hot ELSE s.hot)
      /\ f.conc = (IF s.conc <= 0 THEN Yaml.conc ELSE s.conc)
      /\ f.listen = (IF s.listen = 0 THEN Yaml.listen ELSE s.listen)
      /\ f.rest = s.rest /\ f.badSSO = s.badSSO /\ f.hint = s.hint
  BY <1>1 DEF Settled!Filled
<1> HIDE DEF f
<1>4. /\ f \in Settled!Saved /\ f.hot > 0 /\ (s.hot > 0 => f.hot = s.hot) /\ f.rest = s.rest
      /\ s.conc > 0 => f.conc = s.conc
  BY <1>1, <1>2, <1>3 DEF Settled!Saved
<1> QED BY <1>4 DEF f

LEMMA MergedMade ==
  ASSUME NEW s \in Settled!Saved, mem \in Settled!Saved, s.hot > 0 \/ mem.hot > 0
  PROVE  /\ Good(Settled!Merged(s))
         /\ Settled!Merged(s).hint <=> (Settled!Merged(s).listen # current.listen)
         /\ s.hot > 0 => Settled!Merged(s).hot = s.hot
         /\ Settled!Merged(s).rest = s.rest
         /\ s.conc \in 0..MaxConc => Settled!Merged(s).conc = s.conc
<1> DEFINE l == IF s.listen = 0 THEN mem.listen ELSE s.listen
           t == [s EXCEPT !.hot = IF @ <= 0 THEN mem.hot ELSE @,
                          !.conc = Settled!Clamped(@, MaxConc), !.listen = l]
           h == (l # current.listen)
<1>1. /\ s.hot \in Int /\ s.conc \in Int /\ s.listen \in Int /\ s.rest \in Int /\ s.badSSO \in BOOLEAN
      /\ DOMAIN s = {"hot", "conc", "listen", "rest", "badSSO", "hint"}
      /\ mem.hot \in Int /\ mem.listen \in Int
  BY DEF Settled!Saved
<1>2. /\ Settled!Clamped(s.conc, MaxConc) \in 0..MaxConc
      /\ s.conc \in 0..MaxConc => Settled!Clamped(s.conc, MaxConc) = s.conc
  BY <1>1, SettingsAssumption DEF Settled!Clamped
<1>3. l \in Int
  BY <1>1
<1>4. /\ t.hot = (IF s.hot <= 0 THEN mem.hot ELSE s.hot) /\ t.conc = Settled!Clamped(s.conc, MaxConc)
      /\ t.listen = l /\ t.rest = s.rest /\ t.badSSO = s.badSSO
  BY <1>1
<1>5. Settled!Merged(s) = Settled!Hinted(t, h)
  BY DEF Settled!Merged
<1>6. h \in BOOLEAN
  OBVIOUS
<1> HIDE DEF l, t
<1>7. /\ Settled!Merged(s) \in Settled!Saved
      /\ Settled!Merged(s).hot = t.hot /\ Settled!Merged(s).conc = t.conc
      /\ Settled!Merged(s).listen = t.listen /\ Settled!Merged(s).rest = t.rest
      /\ Settled!Merged(s).hint = h
  <2> DEFINE m == Settled!Merged(s)
  <2>1. m = [hot |-> t.hot, conc |-> t.conc, listen |-> t.listen, rest |-> t.rest,
             badSSO |-> t.badSSO, hint |-> h]
    BY <1>5 DEF Settled!Hinted
  <2>2. t.hot \in Int /\ t.conc \in Int
    BY <1>1, <1>2, <1>4, SettingsAssumption
  <2> HIDE DEF m
  <2>3. /\ m \in Settled!Saved /\ m.hot = t.hot /\ m.conc = t.conc
        /\ m.listen = t.listen /\ m.rest = t.rest /\ m.hint = h
    BY <2>1, <2>2, <1>1, <1>3, <1>4 DEF Settled!Saved
  <2> QED BY <2>3 DEF m
<1> HIDE DEF t
<1>8. Settled!Merged(s).hot > 0 /\ (s.hot > 0 => Settled!Merged(s).hot = s.hot)
  BY <1>1, <1>4, <1>7
<1>9. Good(Settled!Merged(s))
  BY <1>2, <1>4, <1>7, <1>8 DEF Good
<1>10. Settled!Merged(s).hint <=> (Settled!Merged(s).listen # current.listen)
  BY <1>4, <1>7
<1> QED BY <1>2, <1>4, <1>7, <1>8, <1>9, <1>10

\* One Apply moves.
MovesApply(c) == apply' = [d \in Settled!Callers |-> IF d = c THEN apply'[c] ELSE apply[d]]

LEMMA OthersKept ==
  ASSUME SettingsInv, NEW c \in Settled!Callers, Settled!Active(c), MovesApply(c),
         Settled!Active(c)' => apply'[c].alone = apply[c].alone,
         Own(apply[c], c = Boot)', Sync(apply[c])',
         current'.listen = current.listen
  PROVE  /\ apply' = [d \in Settled!Callers |-> apply'[d]]
         /\ \A d \in Settled!Callers : Own(apply[d], d = Boot)' /\ Sync(apply[d])'
         /\ Solo'
<1>1. \A d \in Settled!Callers : d # c => apply'[d] = apply[d]
  BY DEF MovesApply
<1>2. apply' = [d \in Settled!Callers |-> apply'[d]]
  BY DEF MovesApply
<1>3. ASSUME NEW d \in Settled!Callers, d # c PROVE (Own(apply[d], d = Boot) /\ Sync(apply[d]))'
  <2>1. Own(apply[d], d = Boot) /\ Sync(apply[d]) /\ apply'[d] = apply[d]
    BY <1>1, <1>3 DEF SettingsInv
  <2>2. apply[d].pc \in {"merge", "store"} \cup Late => ~apply[d].alone /\ d # Boot
    BY <1>3, <2>1 DEF SettingsInv, Solo, Settled!Active, Late
  <2>3. Sync(apply[d])'
    BY <2>1, <2>2 DEF Sync
  <2>4. Own(apply[d], d = Boot)'
    BY <2>1, <2>2 DEF Own
  <2> QED BY <2>3, <2>4
<1>4. Solo'
  <2> SUFFICES ASSUME NEW d \in Settled!Callers, NEW e \in Settled!Callers, d # e,
                      Settled!Active(d)', Settled!Active(e)'
               PROVE  (~apply[d].alone /\ d # Boot /\ e # Boot)'
    BY DEF Solo
  <2>1. \A x \in Settled!Callers : Settled!Active(x)' =>
          Settled!Active(x) /\ apply'[x].alone = apply[x].alone
    BY <1>1 DEF Settled!Active
  <2> QED BY <2>1 DEF SettingsInv, Solo
<1> QED BY <1>2, <1>3, <1>4

\* Apply goes on to its next section.
LEMMA Went ==
  ASSUME SettingsInv, NEW c \in Settled!Callers, NEW pc, apply' = Settled!Go(c, pc)
  PROVE  /\ MovesApply(c) /\ DOMAIN apply'[c] = ApplyFields /\ apply'[c].pc = pc
         /\ apply'[c].in = apply[c].in /\ apply'[c].prev = apply[c].prev
         /\ apply'[c].stage = apply[c].stage /\ apply'[c].snap = apply[c].snap
         /\ apply'[c].alone = apply[c].alone /\ apply'[c].blind = apply[c].blind
<1>1. DOMAIN apply[c] = ApplyFields /\ DOMAIN apply = Settled!Callers
  BY DEF SettingsInv, Own
<1>2. apply' = [apply EXCEPT ![c].pc = pc]
  BY DEF Settled!Go
<1>3. apply'[c] = [apply[c] EXCEPT !.pc = pc]
  BY <1>1, <1>2
<1>4. MovesApply(c)
  BY <1>1, <1>2, <1>3 DEF MovesApply
<1> QED BY <1>1, <1>3, <1>4 DEF ApplyFields

\* Apply ends.
LEMMA Ended ==
  ASSUME SettingsInv, NEW c \in Settled!Callers, NEW answer \in {"ok", "error"},
         apply' = Settled!End(c, answer)
  PROVE  /\ MovesApply(c) /\ DOMAIN apply'[c] = ApplyFields /\ apply'[c].pc = answer
         /\ apply'[c].stage = 1 /\ apply'[c].alone
         /\ Own(apply[c], c = Boot)' /\ Sync(apply[c])' /\ ~Settled!Active(c)'
<1>1. DOMAIN apply = Settled!Callers
  BY DEF SettingsInv
<1>2. apply'[c] = [Settled!None0 EXCEPT !.pc = answer] /\ MovesApply(c)
  BY <1>1 DEF Settled!End, MovesApply
<1>3. /\ DOMAIN apply'[c] = ApplyFields /\ apply'[c].pc = answer
      /\ apply'[c].stage = 1 /\ apply'[c].alone
  BY <1>2, NoneMade DEF ApplyFields
<1> HIDE DEF MovesApply
<1>4. apply'[c].pc \notin {"load", "merge", "store", "idle"} \cup Late
  BY <1>3 DEF Late
<1>5. Own(apply[c], c = Boot)'
  <2>1. apply'[c].stage \in 1..4
    BY <1>3
  <2>4. answer \in {"load", "merge", "store", "idle", "ok", "error"}
    OBVIOUS
  <2>2. apply'[c].pc \in {"load", "merge", "store", "idle", "ok", "error"} \cup Late
    BY <1>3, <2>4
  <2>3. apply'[c].pc # "write" /\ apply'[c].pc # "merge"
        /\ apply'[c].pc \notin {"store"} \cup Late /\ apply'[c].pc \notin {"merge", "store"} \cup Late
    BY <1>4 DEF Late
  <2> QED BY <1>3, <1>4, <2>1, <2>2, <2>3 DEF Own
<1>6. Sync(apply[c])' /\ ~Settled!Active(c)'
  BY <1>3, <1>4 DEF Sync, Settled!Active
<1> QED BY <1>2, <1>3, <1>5, <1>6

LEMMA SettingsStarts == Settled!Init => SettingsInv
<1> SUFFICES ASSUME Settled!Init PROVE SettingsInv
  OBVIOUS
<1>1. \A c \in Settled!Callers :
        /\ DOMAIN apply[c] = ApplyFields /\ apply[c].alone /\ apply[c].stage = 1
        /\ apply[c].pc = IF c = Boot THEN "load" ELSE "idle"
  BY NoneMade DEF Settled!Init, ApplyFields
<1>2. ASSUME NEW c \in Settled!Callers PROVE Own(apply[c], c = Boot) /\ Sync(apply[c])
  <2> DEFINE a == apply[c]
  <2>1. /\ a.pc \notin {"merge", "store"} \cup Late /\ a.pc # "merge" /\ a.pc # "write"
        /\ a.pc \notin {"store"} \cup Late
        /\ a.pc \in {"load", "merge", "store", "idle", "ok", "error"} \cup Late
        /\ a.pc = "load" => c = Boot
        /\ c = Boot => a.alone /\ a.pc # "idle"
    BY <1>1 DEF Late
  <2>3. DOMAIN a = ApplyFields /\ a.alone /\ a.stage = 1
    BY <1>1
  <2>2. Sync(a)
    BY <2>1 DEF Sync
  <2> HIDE DEF a
  <2>4. Own(a, c = Boot)
    BY <2>1, <2>3 DEF Own
  <2> QED BY <2>2, <2>4 DEF a
<1>3. Solo
  BY <1>1 DEF Solo, Settled!Active
<1>4. mem \in Settled!Saved /\ mem.hot = 0
  <2>1. mem = [hot |-> 0, conc |-> 0, listen |-> 0, rest |-> 0, badSSO |-> FALSE, hint |-> FALSE]
    BY DEF Settled!Init, Settled!Unset0, Settled!Hinted
  <2> QED BY <2>1 DEF Settled!Saved
<1>5. DOMAIN current = {"cap", "loaded", "conc", "listen", "rest"} /\ DOMAIN current.rest = 1..4
  BY StagesAre DEF Settled!Init, Settled!Started
<1>6. Stored
  <2>1. file = NoFile /\ acked = NoFile
    BY DEF Settled!Init
  <2>2. apply[Boot].pc = "load"
    BY <1>1 DEF Settled!Callers
  <2>3. ~(mem.hot > 0)
    BY <1>4
  <2> QED BY <1>4, <1>5, <2>1, <2>2, <2>3 DEF Stored
<1>7. apply = [c \in Settled!Callers |-> apply[c]] /\ Settles
  BY DEF Settled!Init, Settles
<1> QED BY <1>2, <1>3, <1>6, <1>7 DEF SettingsInv

\* What the caller of an action is known to have.
LEMMA InApply ==
  ASSUME SettingsInv, NEW c \in Settled!Callers,
         apply[c].pc \in {"load", "merge", "store"} \cup Late
  PROVE  /\ Settled!Active(c) /\ Own(apply[c], c = Boot) /\ Sync(apply[c]) /\ Stored
         /\ c # Boot => mem.hot > 0 /\ apply[Boot].pc \in {"ok", "error"}
         /\ apply[c].pc \in Late => ~settled
<1>1. Settled!Active(c)
  BY DEF Settled!Active, Late
<1>2. Boot \in Settled!Callers /\ Own(apply[Boot], TRUE)
  BY DEF SettingsInv, Settled!Callers
<1>3. ASSUME c # Boot PROVE mem.hot > 0 /\ apply[Boot].pc \in {"ok", "error"}
  <2>1. ~Settled!Active(Boot)
    BY <1>1, <1>2, <1>3 DEF SettingsInv, Solo
  <2>2. apply[Boot].pc \in {"ok", "error"}
    BY <1>2, <2>1 DEF Own, Settled!Active
  <2> QED BY <2>2 DEF SettingsInv, Stored
<1>4. apply[c].pc \in Late => ~settled
  BY <1>1 DEF SettingsInv, Settles, Late
<1> QED BY <1>1, <1>3, <1>4 DEF SettingsInv

LEMMA MergeInInv ==
  ASSUME SettingsInv, NEW c \in Settled!Callers, Settled!MergeIn(c)
  PROVE  SettingsInv'
<1>1. /\ apply[c].pc = "merge" /\ UNCHANGED <<mem, file, current, settled, acked>>
      /\ apply' = [apply EXCEPT ![c].pc = "store", ![c].in = Settled!Merged(@), ![c].prev = mem.hot]
  BY DEF Settled!MergeIn
<1>2. /\ Settled!Active(c) /\ Own(apply[c], c = Boot) /\ Stored
      /\ c # Boot => mem.hot > 0
  BY <1>1, InApply
<1>3. DOMAIN apply[c] = ApplyFields /\ DOMAIN apply = Settled!Callers
  BY <1>2 DEF SettingsInv, Own
<1>4. apply'[c] = [apply[c] EXCEPT !.pc = "store", !.in = Settled!Merged(apply[c].in), !.prev = mem.hot]
  BY <1>1, <1>3
<1>5. MovesApply(c)
  BY <1>1, <1>3, <1>4 DEF MovesApply
<1>6. /\ DOMAIN apply'[c] = ApplyFields /\ apply'[c].pc = "store"
      /\ apply'[c].in = Settled!Merged(apply[c].in)
      /\ apply'[c].stage = apply[c].stage /\ apply'[c].alone = apply[c].alone /\ apply'[c].blind = apply[c].blind
  BY <1>3, <1>4 DEF ApplyFields
<1>7. apply[c].in \in Settled!Saved /\ (c = Boot => apply[c].in.hot > 0 /\ Restores(apply[c]))
      /\ apply[c].stage = 1 /\ (c = Boot => apply[c].alone)
  BY <1>1, <1>2 DEF Own
<1>8. mem \in Settled!Saved /\ mem.hot \in Int /\ apply[c].in.hot \in Int
  BY <1>2, <1>7 DEF Stored, Settled!Saved
<1> DEFINE m == Settled!Merged(apply[c].in)
<1>9. /\ Good(m) /\ (m.hint <=> (m.listen # current.listen))
      /\ apply[c].in.hot > 0 => m.hot = apply[c].in.hot
      /\ m.rest = apply[c].in.rest
      /\ apply[c].in.conc \in 0..MaxConc => m.conc = apply[c].in.conc
  <2>1. apply[c].in.hot > 0 \/ mem.hot > 0
    BY <1>2, <1>7
  <2> QED BY <1>7, <1>8, <2>1, MergedMade
<1> HIDE DEF m
<1>10. c = Boot => apply[c].blind \/ Acks(m)
  <2>1. acked # NoFile => acked.conc \in 0..MaxConc
    BY <1>2 DEF Stored, Good
  <2> QED BY <1>7, <1>9, <2>1 DEF Restores, Acks
<1>11. Own(apply[c], c = Boot)'
  <2>1. apply'[c].in = m
    BY <1>6 DEF m
  <2>2. c = Boot => Restores(apply[c])'
    BY <1>1, <1>6, <1>10, <2>1 DEF Restores, Acks
  <2>3. (apply'[c].in.hint <=> (apply'[c].in.listen # current.listen)) /\ Good(apply'[c].in)
    BY <1>9, <2>1
  <2> QED BY <1>1, <1>6, <1>7, <2>2, <2>3 DEF Own, Late
<1>12. Sync(apply[c])'
  BY <1>6 DEF Sync, Late
<1>13. /\ apply' = [d \in Settled!Callers |-> apply'[d]]
       /\ \A d \in Settled!Callers : Own(apply[d], d = Boot)' /\ Sync(apply[d])'
       /\ Solo'
  BY <1>1, <1>2, <1>5, <1>6, <1>11, <1>12, OthersKept
<1>14. \A d \in Settled!Callers : d # c => apply'[d] = apply[d]
  BY <1>5 DEF MovesApply
<1>15. Stored'
  <2>1. mem.hot > 0 \/ apply'[Boot].pc \in {"load", "merge", "store"}
    BY <1>2, <1>6, <1>14 DEF Stored, Settled!Callers
  <2> QED BY <1>1, <1>2, <2>1 DEF Stored, Acks
<1>16. Settles'
  <2> SUFFICES ASSUME settled'
               PROVE  /\ (mem.hot > 0)' /\ Settled!SettledAgree'
                      /\ \A d \in Settled!Callers : Settled!Active(d)' =>
                           d # Boot /\ apply'[d].pc \in {"merge", "store"}
    BY DEF Settles
  <2>1. Settles /\ settled
    BY <1>1 DEF SettingsInv
  <2>2. Settled!SettledAgree' /\ mem'.hot > 0
    BY <1>1, <2>1 DEF Settles, Settled!SettledAgree
  <2>3. c # Boot
    BY <1>2, <2>1 DEF Settles
  <2>4. \A d \in Settled!Callers : d # c /\ Settled!Active(d)' => Settled!Active(d)
    BY <1>14 DEF Settled!Active
  <2> QED BY <1>6, <1>14, <2>1, <2>2, <2>3, <2>4 DEF Settles
<1> QED BY <1>13, <1>15, <1>16 DEF SettingsInv

LEMMA StoreInv ==
  ASSUME SettingsInv, NEW c \in Settled!Callers, Settled!Store(c)
  PROVE  SettingsInv'
<1>1. /\ apply[c].pc = "store" /\ UNCHANGED <<file, current, acked>> /\ mem' = apply[c].in
      /\ ~settled' /\ apply' = Settled!Go(c, "resize")
  BY DEF Settled!Store
<1>2. Settled!Active(c) /\ Own(apply[c], c = Boot) /\ Stored
  BY <1>1, InApply
<1>3. /\ MovesApply(c) /\ DOMAIN apply'[c] = ApplyFields /\ apply'[c].pc = "resize"
      /\ apply'[c].in = apply[c].in /\ apply'[c].stage = apply[c].stage
      /\ apply'[c].alone = apply[c].alone /\ apply'[c].blind = apply[c].blind
  BY <1>1, Went
<1>4. /\ Good(apply[c].in) /\ (apply[c].in.hint <=> (apply[c].in.listen # current.listen))
      /\ apply[c].stage = 1 /\ (c = Boot => apply[c].alone /\ Restores(apply[c]))
  BY <1>1, <1>2 DEF Own
<1>5. Own(apply[c], c = Boot)'
  <2>1. c = Boot => Restores(apply[c])'
    BY <1>1, <1>3, <1>4 DEF Restores, Acks
  <2>2. (apply'[c].in.hint <=> (apply'[c].in.listen # current'.listen)) /\ Good(apply'[c].in)
    BY <1>1, <1>3, <1>4
  <2> QED BY <1>3, <1>4, <2>1, <2>2 DEF Own, Late
<1>6. Sync(apply[c])'
  BY <1>1, <1>3 DEF Sync
<1>7. Stored'
  BY <1>1, <1>2, <1>4 DEF Stored, Good, Acks
<1>8. Settles'
  BY <1>1 DEF Settles
<1> QED BY <1>1, <1>2, <1>3, <1>5, <1>6, <1>7, <1>8, OthersKept DEF SettingsInv

\* An Apply behind its store that touches neither memory nor file.
LEMMA LateInv ==
  ASSUME SettingsInv, NEW c \in Settled!Callers, apply[c].pc \in Late,
         UNCHANGED <<mem, file, settled, acked>>, MovesApply(c),
         Settled!Active(c)' => apply'[c].alone = apply[c].alone,
         Own(apply[c], c = Boot)', Sync(apply[c])', current'.listen = current.listen,
         DOMAIN current' = DOMAIN current, DOMAIN current'.rest = DOMAIN current.rest
  PROVE  SettingsInv'
<1>1. Settled!Active(c) /\ Stored /\ ~settled
  BY InApply
<1>2. mem.hot > 0
  <2>1. c = Boot => mem.hot > 0
    BY <1>1 DEF Stored, Late
  <2> QED BY <2>1, InApply
<1>3. Stored'
  BY <1>1, <1>2 DEF Stored, Good, Acks
<1>4. Settles'
  BY <1>1 DEF Settles
<1> QED BY <1>1, <1>3, <1>4, OthersKept DEF SettingsInv

LEMMA ResizeInv ==
  ASSUME SettingsInv, NEW c \in Settled!Callers, Settled!ResizeHot(c)
  PROVE  SettingsInv'
<1>1. apply[c].pc = "resize" /\ UNCHANGED <<mem, file, settled, acked>>
  BY DEF Settled!ResizeHot
<1>2. apply[c].pc \in Late /\ Own(apply[c], c = Boot) /\ Sync(apply[c]) /\ Stored
  BY <1>1, InApply DEF Late
<1>3. /\ Good(apply[c].in) /\ (apply[c].in.hint <=> (apply[c].in.listen # current.listen))
      /\ apply[c].stage = 1 /\ (c = Boot => apply[c].alone /\ Restores(apply[c]))
      /\ apply[c].alone => mem = apply[c].in
  BY <1>1, <1>2 DEF Own, Sync
<1>4. PICK pc \in {"reload", "stages"} :
        /\ apply' = Settled!Go(c, pc)
        /\ \/ current' = [current EXCEPT !.cap = apply[c].in.hot]
           \/ current' = current /\ ~Settled!NeedResize(c)
  BY DEF Settled!ResizeHot
<1>5. /\ MovesApply(c) /\ DOMAIN apply'[c] = ApplyFields /\ apply'[c].pc = pc
      /\ apply'[c].in = apply[c].in /\ apply'[c].stage = 1
      /\ apply'[c].alone = apply[c].alone /\ apply'[c].blind = apply[c].blind
  BY <1>3, <1>4, Went
<1>6. /\ DOMAIN current' = DOMAIN current /\ current'.listen = current.listen
      /\ current'.cap = apply[c].in.hot /\ current'.rest = current.rest
  <2>1. CASE current' = [current EXCEPT !.cap = apply[c].in.hot]
    BY <1>2, <2>1 DEF Stored
  <2>2. CASE current' = current /\ ~Settled!NeedResize(c)
    BY <1>3, <2>2 DEF Good, Settled!NeedResize
  <2> QED BY <1>4, <2>1, <2>2
<1>7. Own(apply[c], c = Boot)'
  <2>1. c = Boot => Restores(apply[c])'
    BY <1>1, <1>3, <1>5 DEF Restores, Acks
  <2>2. (apply'[c].in.hint <=> (apply'[c].in.listen # current'.listen)) /\ Good(apply'[c].in)
    BY <1>3, <1>5, <1>6
  <2> QED BY <1>3, <1>5, <2>1, <2>2 DEF Own, Late
<1>8. Sync(apply[c])'
  BY <1>1, <1>3, <1>5, <1>6 DEF Sync
<1> QED BY <1>1, <1>2, <1>5, <1>6, <1>7, <1>8, LateInv

LEMMA ReloadInv ==
  ASSUME SettingsInv, NEW c \in Settled!Callers, Settled!Reload(c)
  PROVE  SettingsInv'
<1>1. /\ apply[c].pc = "reload" /\ UNCHANGED <<mem, file, settled, acked>>
      /\ current' = [current EXCEPT !.cap = apply[c].in.hot] /\ apply' = Settled!Go(c, "fill")
  BY DEF Settled!Reload
<1>2. apply[c].pc \in Late /\ Own(apply[c], c = Boot) /\ Sync(apply[c]) /\ Stored
  BY <1>1, InApply DEF Late
<1>3. /\ Good(apply[c].in) /\ (apply[c].in.hint <=> (apply[c].in.listen # current.listen))
      /\ apply[c].stage = 1 /\ (c = Boot => apply[c].alone /\ Restores(apply[c]))
      /\ apply[c].alone => mem = apply[c].in
  BY <1>1, <1>2 DEF Own, Sync
<1>4. /\ MovesApply(c) /\ DOMAIN apply'[c] = ApplyFields /\ apply'[c].pc = "fill"
      /\ apply'[c].in = apply[c].in /\ apply'[c].stage = 1
      /\ apply'[c].alone = apply[c].alone /\ apply'[c].blind = apply[c].blind
  BY <1>1, <1>3, Went
<1>5. /\ DOMAIN current' = DOMAIN current /\ current'.listen = current.listen
      /\ current'.cap = apply[c].in.hot /\ current'.rest = current.rest
  BY <1>1, <1>2 DEF Stored
<1>6. Own(apply[c], c = Boot)'
  <2>1. c = Boot => Restores(apply[c])'
    BY <1>1, <1>3, <1>4 DEF Restores, Acks
  <2>2. (apply'[c].in.hint <=> (apply'[c].in.listen # current'.listen)) /\ Good(apply'[c].in)
    BY <1>3, <1>4, <1>5
  <2> QED BY <1>3, <1>4, <2>1, <2>2 DEF Own, Late
<1>7. Sync(apply[c])'
  BY <1>1, <1>3, <1>4, <1>5 DEF Sync
<1> QED BY <1>1, <1>2, <1>4, <1>5, <1>6, <1>7, LateInv

LEMMA FillInv ==
  ASSUME SettingsInv, NEW c \in Settled!Callers, Settled!Fill(c)
  PROVE  SettingsInv'
<1>1. apply[c].pc = "fill" /\ UNCHANGED <<mem, file, settled, acked>>
  BY DEF Settled!Fill
<1>2. apply[c].pc \in Late /\ Own(apply[c], c = Boot) /\ Sync(apply[c]) /\ Stored
  BY <1>1, InApply DEF Late
<1>3. CASE current' = current /\ apply' = Settled!End(c, "error")
  <2>1. MovesApply(c) /\ Own(apply[c], c = Boot)' /\ Sync(apply[c])' /\ ~Settled!Active(c)'
    BY <1>3, Ended
  <2> QED BY <1>1, <1>2, <1>3, <2>1, LateInv
<1>4. CASE current' = [current EXCEPT !.loaded = current.cap] /\ apply' = Settled!Go(c, "stages")
  <2>1. /\ Good(apply[c].in) /\ (apply[c].in.hint <=> (apply[c].in.listen # current.listen))
        /\ apply[c].stage = 1 /\ (c = Boot => apply[c].alone /\ Restores(apply[c]))
        /\ apply[c].alone => mem = apply[c].in /\ current.cap = apply[c].in.hot
    BY <1>1, <1>2 DEF Own, Sync
  <2>2. /\ MovesApply(c) /\ DOMAIN apply'[c] = ApplyFields /\ apply'[c].pc = "stages"
        /\ apply'[c].in = apply[c].in /\ apply'[c].stage = 1
        /\ apply'[c].alone = apply[c].alone /\ apply'[c].blind = apply[c].blind
    BY <1>4, <2>1, Went
  <2>3. /\ DOMAIN current' = DOMAIN current /\ current'.listen = current.listen
        /\ current'.cap = current.cap /\ current'.rest = current.rest
    BY <1>2, <1>4 DEF Stored
  <2>4. Own(apply[c], c = Boot)'
    <3>1. c = Boot => Restores(apply[c])'
      BY <1>1, <2>1, <2>2 DEF Restores, Acks
    <3>2. (apply'[c].in.hint <=> (apply'[c].in.listen # current'.listen)) /\ Good(apply'[c].in)
      BY <2>1, <2>2, <2>3
    <3> QED BY <2>1, <2>2, <3>1, <3>2 DEF Own, Late
  <2>5. Sync(apply[c])'
    BY <1>1, <2>1, <2>2, <2>3 DEF Sync
  <2> QED BY <1>1, <1>2, <2>2, <2>3, <2>4, <2>5, LateInv
<1> QED BY <1>3, <1>4 DEF Settled!Fill

LEMMA StageInv ==
  ASSUME SettingsInv, NEW c \in Settled!Callers, Settled!ApplyStage(c)
  PROVE  SettingsInv'
<1>1. apply[c].pc = "stages" /\ UNCHANGED <<mem, file, settled, acked>>
  BY DEF Settled!ApplyStage
<1>2. apply[c].pc \in Late /\ Own(apply[c], c = Boot) /\ Sync(apply[c]) /\ Stored
  BY <1>1, InApply DEF Late
<1>3. CASE current' = current /\ apply' = Settled!End(c, "error")
  <2>1. MovesApply(c) /\ Own(apply[c], c = Boot)' /\ Sync(apply[c])' /\ ~Settled!Active(c)'
    BY <1>3, Ended
  <2> QED BY <1>1, <1>2, <1>3, <2>1, LateInv
<1> DEFINE i == apply[c].stage
           r == apply[c].in.rest
           n == IF Settled!Stages[i] = "http" THEN apply[c].in.conc ELSE current.conc
<1>4. CASE /\ current' = [current EXCEPT !.rest[i] = apply[c].in.rest,
                !.conc = IF Settled!Stages[i] = "http" THEN apply[c].in.conc ELSE @]
           /\ apply' = [apply EXCEPT
                ![c].stage = IF i < Len(Settled!Stages) THEN i + 1 ELSE i,
                ![c].pc = IF i < Len(Settled!Stages) THEN @ ELSE "snap"]
  <2>1. /\ Good(apply[c].in) /\ (apply[c].in.hint <=> (apply[c].in.listen # current.listen))
        /\ i \in 1..4 /\ (c = Boot => apply[c].alone /\ Restores(apply[c]))
        /\ apply[c].alone => /\ mem = apply[c].in /\ current.cap = apply[c].in.hot
                             /\ \A j \in 1..(i - 1) : current.rest[j] = r
                             /\ i > 2 => current.conc = apply[c].in.conc
    BY <1>1, <1>2 DEF Own, Sync
  <2>2. /\ DOMAIN current' = DOMAIN current /\ current'.listen = current.listen
        /\ current'.cap = current.cap /\ current'.conc = n
        /\ current'.rest = [current.rest EXCEPT ![i] = r]
    BY <1>2, <1>4 DEF Stored
  <2>3. /\ DOMAIN current'.rest = DOMAIN current.rest /\ current'.rest[i] = r
        /\ \A j \in 1..4 : j # i => current'.rest[j] = current.rest[j]
    BY <1>2, <2>1, <2>2 DEF Stored
  <2> DEFINE s == IF i < 4 THEN i + 1 ELSE i
             pc == IF i < 4 THEN "stages" ELSE "snap"
  <2>4. DOMAIN apply = Settled!Callers /\ DOMAIN apply[c] = ApplyFields
    BY <1>2 DEF SettingsInv, Own
  <2>5. apply'[c] = [apply[c] EXCEPT !.stage = s, !.pc = pc]
    BY <1>1, <1>4, <2>4, StagesAre
  <2>6. MovesApply(c)
    BY <1>4, <2>4, <2>5 DEF MovesApply
  <2>7. /\ DOMAIN apply'[c] = ApplyFields /\ apply'[c].pc = pc
        /\ apply'[c].in = apply[c].in /\ apply'[c].stage = s
        /\ apply'[c].alone = apply[c].alone /\ apply'[c].blind = apply[c].blind
    BY <2>4, <2>5 DEF ApplyFields
  <2>8. s \in 1..4 /\ pc \in {"stages", "snap"}
    BY <2>1
  <2>9. Own(apply[c], c = Boot)'
    <3> HIDE DEF s, pc
    <3>1. c = Boot => Restores(apply[c])'
      BY <1>1, <2>1, <2>7 DEF Restores, Acks
    <3>2. (apply'[c].in.hint <=> (apply'[c].in.listen # current'.listen)) /\ Good(apply'[c].in)
      BY <2>1, <2>2, <2>7
    <3> QED BY <2>1, <2>7, <2>8, <3>1, <3>2 DEF Own, Late
  <2>10. Sync(apply[c])'
    <3> SUFFICES ASSUME apply[c].alone
                 PROVE  Sync(apply[c])'
      BY <2>7 DEF Sync
    <3>1. mem' = apply'[c].in /\ current'.cap = apply'[c].in.hot
      BY <1>1, <2>1, <2>2, <2>7
    <3>2. i = 2 => n = apply[c].in.conc
      BY StagesAre
    <3>3. i > 2 => n = apply[c].in.conc
      BY <2>1, StagesAre
    <3>4. CASE i < 4
      <4>1. apply'[c].pc = "stages" /\ apply'[c].stage = i + 1
        BY <2>7, <3>4
      <4>2. \A j \in 1..i : current'.rest[j] = apply'[c].in.rest
        BY <2>1, <2>3, <2>7
      <4>3. i + 1 > 2 => current'.conc = apply'[c].in.conc
        BY <2>1, <2>2, <2>7, <3>2, <3>3
      <4>4. apply'[c].stage - 1 = i
        BY <2>1, <4>1
      <4> QED BY <3>1, <4>1, <4>2, <4>3, <4>4 DEF Sync
    <3>5. CASE ~(i < 4)
      <4>1. apply'[c].pc = "snap" /\ i = 4
        BY <2>1, <2>7, <3>5
      <4>2. \A j \in 1..4 : current'.rest[j] = apply'[c].in.rest
        BY <2>1, <2>3, <2>7, <4>1
      <4>3. current'.conc = apply'[c].in.conc
        BY <2>2, <2>7, <3>3, <4>1
      <4> QED BY <3>1, <4>1, <4>2, <4>3 DEF Sync
    <3> QED BY <3>4, <3>5
  <2> QED BY <1>1, <1>2, <2>2, <2>3, <2>6, <2>7, <2>9, <2>10, LateInv
<1> QED BY <1>3, <1>4 DEF Settled!ApplyStage

LEMMA SnapInv ==
  ASSUME SettingsInv, NEW c \in Settled!Callers, Settled!SnapMemory(c)
  PROVE  SettingsInv'
<1>1. /\ apply[c].pc = "snap" /\ UNCHANGED <<mem, file, current, settled, acked>>
      /\ apply' = [apply EXCEPT ![c].snap = mem, ![c].pc = "write"]
  BY DEF Settled!SnapMemory
<1>2. apply[c].pc \in Late /\ Own(apply[c], c = Boot) /\ Sync(apply[c]) /\ Stored
  BY <1>1, InApply DEF Late
<1>3. DOMAIN apply = Settled!Callers /\ DOMAIN apply[c] = ApplyFields
  BY <1>2 DEF SettingsInv, Own
<1>4. apply'[c] = [apply[c] EXCEPT !.snap = mem, !.pc = "write"]
  BY <1>1, <1>3
<1>5. MovesApply(c)
  BY <1>1, <1>3, <1>4 DEF MovesApply
<1>6. /\ DOMAIN apply'[c] = ApplyFields /\ apply'[c].pc = "write" /\ apply'[c].snap = mem
      /\ apply'[c].in = apply[c].in /\ apply'[c].stage = apply[c].stage
      /\ apply'[c].alone = apply[c].alone /\ apply'[c].blind = apply[c].blind
  BY <1>3, <1>4 DEF ApplyFields
<1>7. Good(mem)
  <2>1. mem.hot > 0
    BY <1>1, <1>2, InApply DEF Stored
  <2> QED BY <1>2, <2>1 DEF Stored
<1>8. /\ Good(apply[c].in) /\ (apply[c].in.hint <=> (apply[c].in.listen # current.listen))
      /\ apply[c].stage \in 1..4 /\ (c = Boot => apply[c].alone /\ Restores(apply[c]))
  BY <1>1, <1>2 DEF Own
<1>9. Own(apply[c], c = Boot)'
  <2>1. c = Boot => Restores(apply[c])'
    BY <1>1, <1>6, <1>8 DEF Restores, Acks
  <2>2. (apply'[c].in.hint <=> (apply'[c].in.listen # current'.listen)) /\ Good(apply'[c].in)
    BY <1>1, <1>6, <1>8
  <2> QED BY <1>6, <1>7, <1>8, <2>1, <2>2 DEF Own, Late
<1>10. Sync(apply[c])'
  BY <1>1, <1>2, <1>6 DEF Sync
<1> QED BY <1>1, <1>2, <1>5, <1>6, <1>9, <1>10, LateInv

LEMMA WriteInv ==
  ASSUME SettingsInv, NEW c \in Settled!Callers, Settled!WriteFile(c)
  PROVE  SettingsInv'
<1>1. apply[c].pc = "write" /\ UNCHANGED <<mem, current>>
  BY DEF Settled!WriteFile
<1>2. apply[c].pc \in Late /\ Own(apply[c], c = Boot) /\ Sync(apply[c]) /\ Stored
  BY <1>1, InApply DEF Late
<1>3. CASE UNCHANGED <<file, settled, acked>> /\ apply' = Settled!End(c, "error")
  <2>1. MovesApply(c) /\ Own(apply[c], c = Boot)' /\ Sync(apply[c])' /\ ~Settled!Active(c)'
    BY <1>3, Ended
  <2> QED BY <1>1, <1>2, <1>3, <2>1, LateInv
<1>4. CASE /\ file' = apply[c].snap /\ settled' = apply[c].alone
           /\ acked' = IF c = Boot THEN IF apply[c].blind THEN NoFile ELSE acked
                       ELSE IF apply[c].alone THEN file' ELSE NoFile
           /\ apply' = Settled!End(c, "ok")
  <2>1. MovesApply(c) /\ Own(apply[c], c = Boot)' /\ Sync(apply[c])' /\ ~Settled!Active(c)'
    BY <1>4, Ended
  <2>2. /\ apply' = [d \in Settled!Callers |-> apply'[d]]
        /\ \A d \in Settled!Callers : Own(apply[d], d = Boot)' /\ Sync(apply[d])'
        /\ Solo'
    BY <1>1, <1>2, <1>4, <2>1, InApply, OthersKept
  <2>3. /\ Good(apply[c].snap) /\ (c = Boot => apply[c].alone /\ Restores(apply[c]))
        /\ apply[c].in.hint <=> (apply[c].in.listen # current.listen)
        /\ apply[c].alone =>
             /\ mem = apply[c].in /\ apply[c].snap = apply[c].in
             /\ current.cap = apply[c].in.hot /\ current.conc = apply[c].in.conc
             /\ \A i \in 1..4 : current.rest[i] = apply[c].in.rest
    BY <1>1, <1>2 DEF Own, Sync, Late
  <2>4. file' # NoFile /\ Good(file') /\ mem.hot > 0
    <3>1. mem.hot > 0
      BY <1>1, <1>2, InApply DEF Stored
    <3> QED BY <1>4, <2>3, <3>1, SettingsAssumption DEF Good
  <2>5. Stored'
    <3>1. acked' # NoFile => Good(acked') /\ Acks(file)'
      <4>1. CASE c = Boot
        <5>1. acked # NoFile => Good(acked)
          BY <1>2 DEF Stored
        <5> QED BY <1>4, <2>3, <4>1, <5>1 DEF Restores, Acks
      <4>2. CASE c # Boot
        BY <1>4, <2>4, <4>2 DEF Acks
      <4> QED BY <4>1, <4>2
    <3> QED BY <1>1, <1>2, <2>4, <3>1 DEF Stored, Good
  <2>6. Settles'
    <3> SUFFICES ASSUME apply[c].alone
                 PROVE  /\ (mem.hot > 0)' /\ Settled!SettledAgree'
                        /\ \A d \in Settled!Callers : ~Settled!Active(d)'
      BY <1>4 DEF Settles
    <3>1. \A d \in Settled!Callers : ~Settled!Active(d)'
      <4>1. \A d \in Settled!Callers : d # c => apply'[d] = apply[d]
        BY <2>1 DEF MovesApply
      <4>2. \A d \in Settled!Callers : d # c => ~Settled!Active(d)
        BY <1>1, <1>2, InApply DEF SettingsInv, Solo
      <4> QED BY <2>1, <4>1, <4>2 DEF Settled!Active
    <3>2. Settled!SettledAgree'
      BY <1>1, <1>4, <2>3, StagesAre DEF Settled!SettledAgree
    <3> QED BY <1>1, <2>4, <3>1, <3>2
  <2> QED BY <2>2, <2>5, <2>6 DEF SettingsInv
<1> QED BY <1>3, <1>4 DEF Settled!WriteFile

\* The start goes on, with the file or without it.
LEMMA LoadedInv ==
  ASSUME SettingsInv, apply[Boot].pc = "load", UNCHANGED <<file, current, settled, acked>>,
         mem' = mem \/ (file # NoFile /\ mem' = file),
         NEW in \in Settled!Saved, in.hot > 0, NEW blind \in BOOLEAN, blind \/ Acks(in),
         Settled!StartWith(in, blind)
  PROVE  SettingsInv'
<1>1. apply' = [apply EXCEPT ![Boot].pc = "merge", ![Boot].in = in, ![Boot].blind = blind]
  BY DEF Settled!StartWith
<1>2. /\ Boot \in Settled!Callers /\ Settled!Active(Boot) /\ Own(apply[Boot], Boot = Boot) /\ Stored
  BY InApply DEF Settled!Callers
<1>5. DOMAIN apply[Boot] = ApplyFields /\ DOMAIN apply = Settled!Callers /\ apply[Boot].stage = 1
      /\ apply[Boot].alone
  BY <1>2 DEF SettingsInv, Own
<1>6. apply'[Boot] = [apply[Boot] EXCEPT !.pc = "merge", !.in = in, !.blind = blind]
  BY <1>1, <1>2, <1>5
<1>7. MovesApply(Boot)
  BY <1>1, <1>2, <1>5, <1>6 DEF MovesApply
<1>8. /\ DOMAIN apply'[Boot] = ApplyFields /\ apply'[Boot].pc = "merge" /\ apply'[Boot].in = in
      /\ apply'[Boot].blind = blind
      /\ apply'[Boot].stage = 1 /\ apply'[Boot].alone /\ apply[Boot].alone
  BY <1>5, <1>6 DEF ApplyFields
<1>9. Own(apply[Boot], Boot = Boot)'
  <2>1. Restores(apply[Boot])'
    BY <1>8 DEF Restores, Acks
  <2> QED BY <1>8, <2>1 DEF Own, Late
<1>10. Sync(apply[Boot])'
  BY <1>8 DEF Sync, Late
<1>11. /\ apply' = [d \in Settled!Callers |-> apply'[d]]
       /\ \A d \in Settled!Callers : Own(apply[d], d = Boot)' /\ Sync(apply[d])'
       /\ Solo'
  BY <1>2, <1>7, <1>8, <1>9, <1>10, OthersKept
<1>12. Stored'
  <2>1. mem' \in Settled!Saved /\ (mem'.hot > 0 => Good(mem'))
    BY <1>2 DEF Stored, Good
  <2> QED BY <1>2, <1>8, <2>1 DEF Stored, Good, Acks
<1>13. Settles'
  BY <1>2 DEF Settles, SettingsInv
<1> QED BY <1>11, <1>12, <1>13 DEF SettingsInv

LEMMA LoadInv ==
  ASSUME SettingsInv, Settled!LoadFile
  PROVE  SettingsInv'
<1>1. apply[Boot].pc = "load" /\ UNCHANGED <<file, current, settled, acked>>
  BY DEF Settled!LoadFile
<1>2. Stored
  BY DEF SettingsInv
<1>3. CASE file = NoFile
  <2>1. mem' = mem /\ Settled!StartWith(Settled!Hinted(Yaml, FALSE), FALSE)
    BY <1>3 DEF Settled!LoadFile
  <2>2. Settled!Hinted(Yaml, FALSE) \in Settled!Saved /\ Settled!Hinted(Yaml, FALSE).hot > 0
    BY SavedMade, SettingsAssumption
  <2>3. Acks(Settled!Hinted(Yaml, FALSE))
    BY <1>2, <1>3 DEF Stored, Acks
  <2> QED BY <1>1, <2>1, <2>2, <2>3, LoadedInv
<1>4. CASE file # NoFile
  <2>1. mem' = file /\ Settled!StartWith(Settled!Filled(file), FALSE)
    BY <1>4 DEF Settled!LoadFile
  <2>2. file \in Settled!Saved /\ file.hot > 0 /\ file.conc \in 0..MaxConc /\ (acked # NoFile => Acks(file))
    BY <1>2, <1>4 DEF Stored, Good
  <2>3. /\ Settled!Filled(file) \in Settled!Saved /\ Settled!Filled(file).hot > 0
        /\ Settled!Filled(file).hot = file.hot /\ Settled!Filled(file).rest = file.rest
        /\ file.conc > 0 => Settled!Filled(file).conc = file.conc
    BY <2>2, FilledMade
  <2>4. Acks(Settled!Filled(file))
    <3> SUFFICES ASSUME acked # NoFile
                 PROVE  /\ Settled!Filled(file).hot = acked.hot /\ Settled!Filled(file).rest = acked.rest
                        /\ acked.conc # 0 => Settled!Filled(file).conc = acked.conc
      BY DEF Acks
    <3>1. file.conc # 0 => file.conc > 0
      BY <2>2, SettingsAssumption
    <3> QED BY <2>2, <2>3, <3>1 DEF Acks
  <2> QED BY <1>1, <1>4, <2>1, <2>3, <2>4, LoadedInv
<1> QED BY <1>3, <1>4

LEMMA LoadFailsInv ==
  ASSUME SettingsInv, Settled!LoadFails
  PROVE  SettingsInv'
<1>1. apply[Boot].pc = "load" /\ UNCHANGED <<mem, file, current, settled, acked>>
  BY DEF Settled!LoadFails
<1>2. PICK in \in {Settled!Filled(mem), Settled!Hinted(Yaml, FALSE)} : Settled!StartWith(in, TRUE)
  BY DEF Settled!LoadFails
<1>3. mem \in Settled!Saved
  BY DEF SettingsInv, Stored
<1>4. in \in Settled!Saved /\ in.hot > 0
  <2>1. Settled!Filled(mem) \in Settled!Saved /\ Settled!Filled(mem).hot > 0
    BY <1>3, FilledMade
  <2>2. Settled!Hinted(Yaml, FALSE) \in Settled!Saved /\ Settled!Hinted(Yaml, FALSE).hot > 0
    BY SavedMade, SettingsAssumption
  <2> QED BY <1>2, <2>1, <2>2
<1> QED BY <1>1, <1>2, <1>4, LoadedInv

LEMMA BeginInv ==
  ASSUME SettingsInv, NEW p \in Puts, Settled!BeginPut(p)
  PROVE  SettingsInv'
<1>1. p \in Settled!Callers /\ p # Boot /\ Boot \in Settled!Callers
  BY SettingsAssumption DEF Settled!Callers
<1>2. /\ apply[p].pc = "idle" /\ ~Settled!Active(Boot)
      /\ UNCHANGED <<mem, file, current, settled, acked>>
  BY DEF Settled!BeginPut
<1> DEFINE others == {c \in Settled!Callers \ {p} : Settled!Active(c)}
<1>3. PICK body \in Bodies :
        apply' = [c \in Settled!Callers |->
          IF c = p THEN [Settled!None0 EXCEPT !.pc = "merge", !.in = Settled!Hinted(body, FALSE),
                                              !.alone = others = {}]
          ELSE IF c \in others THEN [apply[c] EXCEPT !.alone = FALSE]
          ELSE apply[c]]
  BY DEF Settled!BeginPut
<1>4. /\ apply'[p] = [Settled!None0 EXCEPT !.pc = "merge", !.in = Settled!Hinted(body, FALSE),
                                           !.alone = others = {}]
      /\ \A c \in others : apply'[c] = [apply[c] EXCEPT !.alone = FALSE]
      /\ \A c \in Settled!Callers \ ({p} \cup others) : apply'[c] = apply[c]
      /\ apply' = [c \in Settled!Callers |-> apply'[c]]
  BY <1>1, <1>3
<1>5. /\ DOMAIN apply'[p] = ApplyFields /\ apply'[p].pc = "merge" /\ apply'[p].stage = 1
      /\ apply'[p].in = Settled!Hinted(body, FALSE) /\ (apply'[p].alone <=> others = {})
  <2>1. PICK b \in BOOLEAN : b = (others = {})
    OBVIOUS
  <2>2. apply'[p] = [Settled!None0 EXCEPT !.pc = "merge", !.in = Settled!Hinted(body, FALSE), !.alone = b]
    BY <1>4, <2>1
  <2>3. DOMAIN Settled!None0 = ApplyFields /\ Settled!None0.stage = 1
    BY NoneMade
  <2> HIDE DEF others
  <2>4. /\ DOMAIN apply'[p] = ApplyFields /\ apply'[p].pc = "merge" /\ apply'[p].stage = 1
        /\ apply'[p].in = Settled!Hinted(body, FALSE) /\ apply'[p].alone = b
    BY <2>2, <2>3 DEF ApplyFields
  <2> QED BY <2>1, <2>4
<1>6. apply'[p].in \in Settled!Saved
  BY <1>5, SavedMade, SettingsAssumption
<1>7. (Own(apply[p], p = Boot) /\ Sync(apply[p]))'
  <2>1. Sync(apply[p])'
    BY <1>5 DEF Sync, Late
  <2>2. Own(apply[p], p = Boot)'
    <3>1. apply'[p].pc # "write" /\ apply'[p].pc # "load"
          /\ apply'[p].pc \notin {"store"} \cup Late
          /\ apply'[p].pc \in {"load", "merge", "store", "idle", "ok", "error"} \cup Late
      BY <1>5 DEF Late
    <3>2. DOMAIN apply'[p] = ApplyFields /\ apply'[p].stage = 1 /\ ~(p = Boot)
      BY <1>1, <1>5
    <3> QED BY <1>6, <3>1, <3>2 DEF Own
  <2> QED BY <2>1, <2>2
<1>8. ASSUME NEW c \in others
      PROVE  /\ (Own(apply[c], c = Boot) /\ Sync(apply[c]))'
             /\ apply'[c].pc = apply[c].pc /\ ~apply'[c].alone /\ c # Boot
  <2>1. Own(apply[c], c = Boot) /\ c # Boot
    BY <1>2 DEF SettingsInv
  <2>2. DOMAIN apply[c] = ApplyFields /\ apply'[c] = [apply[c] EXCEPT !.alone = FALSE]
    BY <1>4, <2>1 DEF Own
  <2>3. /\ DOMAIN apply'[c] = ApplyFields /\ apply'[c].pc = apply[c].pc
        /\ apply'[c].in = apply[c].in /\ apply'[c].stage = apply[c].stage
        /\ apply'[c].snap = apply[c].snap /\ ~apply'[c].alone
    BY <2>2 DEF ApplyFields
  <2>4. Sync(apply[c])'
    BY <2>3 DEF Sync
  <2>5. Own(apply[c], c = Boot)'
    BY <1>2, <2>1, <2>3 DEF Own, Late
  <2> QED BY <2>1, <2>3, <2>4, <2>5
<1>9. ASSUME NEW c \in Settled!Callers \ ({p} \cup others)
      PROVE  /\ (Own(apply[c], c = Boot) /\ Sync(apply[c]))' /\ ~Settled!Active(c)'
  <2>1. Own(apply[c], c = Boot) /\ Sync(apply[c]) /\ apply'[c] = apply[c] /\ ~Settled!Active(c)
    BY <1>4 DEF SettingsInv
  <2>2. ~Settled!Active(c)'
    BY <2>1 DEF Settled!Active
  <2>3. Sync(apply[c])'
    BY <1>2, <2>1 DEF Sync
  <2>4. Own(apply[c], c = Boot)'
    BY <1>2, <2>1 DEF Own, Restores, Acks
  <2> QED BY <2>2, <2>3, <2>4
<1>10. Solo'
  <2> SUFFICES ASSUME NEW c \in Settled!Callers, NEW d \in Settled!Callers, c # d,
                      Settled!Active(c)', Settled!Active(d)'
               PROVE  (~apply[c].alone /\ c # Boot /\ d # Boot)'
    BY DEF Solo
  <2>1. c \in {p} \cup others /\ d \in {p} \cup others
    BY <1>9
  <2>2. CASE c \in others
    BY <1>1, <1>8, <2>1, <2>2
  <2>3. CASE c = p
    <3>1. d \in others
      BY <2>1, <2>3
    <3> QED BY <1>1, <1>5, <1>8, <2>3, <3>1
  <2> QED BY <2>1, <2>2, <2>3
<1>11. Stored'
  <2>1. apply'[Boot].pc = apply[Boot].pc
    BY <1>1, <1>2, <1>4
  <2> QED BY <1>2, <2>1 DEF SettingsInv, Stored, Good, Acks
<1>12. Settles'
  <2> SUFFICES ASSUME settled'
               PROVE  /\ (mem.hot > 0)' /\ Settled!SettledAgree'
                      /\ \A d \in Settled!Callers : Settled!Active(d)' =>
                           d # Boot /\ apply'[d].pc \in {"merge", "store"}
    BY DEF Settles
  <2>1. Settles /\ settled
    BY <1>2 DEF SettingsInv
  <2>2. Settled!SettledAgree' /\ mem'.hot > 0
    BY <1>2, <2>1 DEF Settles, Settled!SettledAgree
  <2>3. \A d \in others : apply[d].pc \in {"merge", "store"}
    BY <2>1 DEF Settles
  <2> QED BY <1>1, <1>5, <1>8, <1>9, <2>2, <2>3
<1>13. \A c \in Settled!Callers : c = p \/ c \in others \/ c \in Settled!Callers \ ({p} \cup others)
  OBVIOUS
<1> QED BY <1>4, <1>7, <1>8, <1>9, <1>10, <1>11, <1>12, <1>13 DEF SettingsInv

LEMMA RestartsInv ==
  ASSUME SettingsInv, Settled!Crash
  PROVE  SettingsInv'
<1>1. /\ mem' = Settled!Unset0 /\ current' = Settled!Started /\ ~settled'
      /\ UNCHANGED <<file, acked>>
      /\ apply' = [c \in Settled!Callers |->
           IF c = Boot THEN [Settled!None0 EXCEPT !.pc = "load"]
           ELSE IF Settled!Active(c) THEN [Settled!None0 EXCEPT !.pc = "error"]
           ELSE apply[c]]
  BY DEF Settled!Crash
<1>2. apply' = [c \in Settled!Callers |-> apply'[c]]
  BY <1>1
<1>3. ASSUME NEW c \in Settled!Callers
      PROVE  /\ (Own(apply[c], c = Boot) /\ Sync(apply[c]))'
             /\ c # Boot => ~Settled!Active(c)'
             /\ c = Boot => apply'[c].pc = "load"
  <2>1. CASE c = Boot \/ Settled!Active(c)
    <3>1. PICK pc : /\ apply'[c] = [Settled!None0 EXCEPT !.pc = pc]
                    /\ pc = IF c = Boot THEN "load" ELSE "error"
      BY <1>1, <2>1
    <3>2. /\ DOMAIN apply'[c] = ApplyFields /\ apply'[c].pc = pc /\ apply'[c].stage = 1
          /\ apply'[c].alone
      BY <3>1, NoneMade DEF ApplyFields
    <3>3. Sync(apply[c])'
      BY <3>1, <3>2 DEF Sync, Late
    <3>4. Own(apply[c], c = Boot)'
      <4>1. CASE c = Boot
        BY <3>1, <3>2, <4>1 DEF Own, Late
      <4>2. CASE c # Boot
        BY <3>1, <3>2, <4>2 DEF Own, Late
      <4> QED BY <4>1, <4>2
    <3> QED BY <3>1, <3>2, <3>3, <3>4 DEF Settled!Active
  <2>2. CASE c # Boot /\ ~Settled!Active(c)
    <3>1. Own(apply[c], c = Boot) /\ apply'[c] = apply[c] /\ apply[c].pc \in {"idle", "ok", "error"}
      BY <1>1, <2>2 DEF SettingsInv, Settled!Active
    <3>2. Sync(apply[c])'
      BY <3>1 DEF Sync, Late
    <3>3. Own(apply[c], c = Boot)'
      BY <2>2, <3>1 DEF Own, Late
    <3> QED BY <2>2, <3>1, <3>2, <3>3 DEF Settled!Active
  <2> QED BY <2>1, <2>2
<1>4. Solo'
  BY <1>3 DEF Solo
<1>5. mem' \in Settled!Saved /\ ~(mem'.hot > 0)
  <2>1. mem' = [hot |-> 0, conc |-> 0, listen |-> 0, rest |-> 0, badSSO |-> FALSE, hint |-> FALSE]
    BY <1>1 DEF Settled!Unset0, Settled!Hinted
  <2> QED BY <2>1 DEF Settled!Saved
<1>6. DOMAIN current' = {"cap", "loaded", "conc", "listen", "rest"} /\ DOMAIN current'.rest = 1..4
  BY <1>1, StagesAre DEF Settled!Started
<1>7. Stored'
  <2>1. apply'[Boot].pc = "load"
    BY <1>3 DEF Settled!Callers
  <2> QED BY <1>1, <1>5, <1>6, <2>1 DEF SettingsInv, Stored, Good, Acks
<1>8. Settles'
  BY <1>1 DEF Settles
<1> QED BY <1>2, <1>3, <1>4, <1>7, <1>8 DEF SettingsInv

LEMMA SettingsStep == SettingsInv /\ [Settled!SettingsNext]_settingsVars => SettingsInv'
<1>1. SettingsInv /\ Settled!SettingsNext => SettingsInv'
  BY LoadInv, LoadFailsInv, RestartsInv, BeginInv, MergeInInv, StoreInv, ResizeInv, ReloadInv, FillInv,
     StageInv, SnapInv,
     WriteInv DEF Settled!SettingsNext
<1>2. SettingsInv /\ UNCHANGED settingsVars => SettingsInv'
  BY DEF settingsVars, SettingsInv, Own, Sync, Solo, Stored, Settles, Restores, Acks, Good,
         Settled!Active, Settled!SettledAgree
<1> QED BY <1>1, <1>2

\* After an Apply that nothing overlapped memory, file and components agree (Apply), and
\* what a PUT was told it had saved survives later failures and crashes (persist,
\* mergeSettingsDefaults) until a start that could not read the file has written over
\* it, for any PUTs, values and faults.
THEOREM SettingsAlwaysDurable == ConsoleSpec => []SettingsDurable
<1>1. ConsoleInit => SettingsInv
  BY SettingsStarts DEF ConsoleInit
<1>2. SettingsInv /\ [ConsoleNext]_consoleVars => SettingsInv'
  <2>1. [ConsoleNext]_consoleVars => [Settled!SettingsNext]_settingsVars
    BY DEF ConsoleNext, consoleVars, settingsVars
  <2> QED BY <2>1, SettingsStep
<1>3. SettingsInv => SettingsDurable
  BY DEF SettingsInv, Settles, Stored, Acks, SettingsDurable, Settled!SettledAgree, Settled!AckSurvives
<1> QED BY <1>1, <1>2, <1>3, PTL DEF ConsoleSpec

-----------------------------------------------------------------------------
(* The converter in the process.  A value that was fed has its result or a *)
(* worker that has still to bring it.                                      *)

HeldAt == {"gap", "approve", "poll"}
BusyAt == {"begin", "acquire", "backoff"} \cup HeldAt

WorkerOK(f) ==
  /\ DOMAIN f = {"pc", "job", "attempt", "polls"} /\ f.pc \in BusyAt \cup {"idle", "exit"}
  /\ f.pc \in BusyAt => f.job \in 1..Values

FeederOK(f) ==
  /\ DOMAIN f = {"pc", "next"} /\ f.pc \in {"feed", "wait", "drain", "ok", "error"}
  /\ f.next \in 1..(Values + 1)
  /\ f.pc = "feed" => f.next <= Values
  /\ f.pc \in {"wait", "ok"} => f.next = Values + 1

\* The value i of call c is converted, or a worker is at it.
Cared(c, i) ==
  \/ out[c][i] # "none"
  \/ \E w \in Flows : CallOf[w] = c /\ flow[w].pc \in BusyAt /\ flow[w].job = i

FlowInv ==
  /\ flow = [w \in Flows |-> flow[w]] /\ feed = [c \in Calls |-> feed[c]]
  /\ out = [c \in Calls |-> out[c]] /\ \A c \in Calls : out[c] = [i \in 1..Values |-> out[c][i]]
  /\ \A w \in Flows : WorkerOK(flow[w])
  /\ \A c \in Calls : FeederOK(feed[c]) /\ \A i \in 1..(feed[c].next - 1) : Cared(c, i)
  /\ \A w \in Flows : feed[CallOf[w]].pc \in {"ok", "error"} => flow[w].pc = "exit"
  /\ Local!PermitsExact

LEMMA LocalCardinality == \A S : Local!Cardinality(S) = Cardinality(S)
  BY DEF Local!Cardinality, Cardinality

\* The number of permits under a move of one worker.
LEMMA HoldersMove ==
  ASSUME Local!PermitsExact, NEW w \in Flows, \A v \in Flows : v # w => flow'[v] = flow[v],
         flow'[w].pc \in HeldAt =>
           IF flow[w].pc \in HeldAt THEN flowPermits' = flowPermits
           ELSE flowPermits < MaxPermits /\ flowPermits' = flowPermits + 1,
         flow'[w].pc \notin HeldAt =>
           flowPermits' = IF flow[w].pc \in HeldAt THEN flowPermits - 1 ELSE flowPermits
  PROVE  Local!PermitsExact'
<1> DEFINE H == Local!Holders
           G == Local!Holders'
<1>0. Local!PermitsExact' <=> flowPermits' = Cardinality(G) /\ flowPermits' <= MaxPermits
  BY LocalCardinality DEF Local!PermitsExact
<1>1. H \subseteq Flows /\ IsFiniteSet(H) /\ Cardinality(H) \in Nat
  BY ConverterAssumption, FS_Subset, FS_CardinalityType DEF Local!Holders
<1>2. flowPermits = Cardinality(H) /\ flowPermits <= MaxPermits /\ MaxPermits \in Nat
  BY LocalCardinality, ConverterAssumption DEF Local!PermitsExact
<1>3. (w \in H <=> flow[w].pc \in HeldAt) /\ (w \in G <=> flow'[w].pc \in HeldAt)
  BY DEF Local!Holders, HeldAt
<1>4. G \ {w} = H \ {w}
  BY DEF Local!Holders
<1> HIDE DEF H, G
<1>5. CASE w \in G /\ w \notin H
  <2>1. G = H \cup {w}
    BY <1>4, <1>5
  <2>2. Cardinality(G) = Cardinality(H) + 1
    BY <1>1, <1>5, <2>1, FS_AddElement
  <2> QED BY <1>0, <1>1, <1>2, <1>3, <1>5, <2>2
<1>6. CASE w \notin G /\ w \in H
  <2>1. G = H \ {w}
    BY <1>4, <1>6
  <2>2. Cardinality(G) = Cardinality(H) - 1
    BY <1>1, <1>6, <2>1, FS_RemoveElement
  <2> QED BY <1>0, <1>1, <1>2, <1>3, <1>6, <2>2
<1>7. CASE w \in G <=> w \in H
  <2>1. G = H
    BY <1>4, <1>7
  <2> QED BY <1>0, <1>1, <1>2, <1>3, <1>7, <2>1
<1> QED BY <1>5, <1>6, <1>7

\* A worker goes on with its value.
LEMMA GoesOnWith ==
  ASSUME FlowInv, NEW w \in Flows, UNCHANGED <<feed, out>>,
         flow[w].pc \in BusyAt, flow' = [v \in Flows |-> IF v = w THEN flow'[w] ELSE flow[v]],
         DOMAIN flow'[w] = {"pc", "job", "attempt", "polls"},
         flow'[w].pc \in BusyAt, flow'[w].job = flow[w].job,
         Local!PermitsExact'
  PROVE  FlowInv'
<1>1. \A v \in Flows : v # w => flow'[v] = flow[v]
  OBVIOUS
<1>2. flow' = [v \in Flows |-> flow'[v]]
  OBVIOUS
<1>3. \A v \in Flows : WorkerOK(flow[v])'
  BY <1>1 DEF FlowInv, WorkerOK
<1>4. \A c \in Calls, i \in 1..Values : Cared(c, i) => Cared(c, i)'
  <2> SUFFICES ASSUME NEW c \in Calls, NEW i \in 1..Values, out[c][i] = "none",
                      NEW v \in Flows, CallOf[v] = c, flow[v].pc \in BusyAt, flow[v].job = i
               PROVE  Cared(c, i)'
    BY DEF Cared
  <2>1. flow'[v].pc \in BusyAt /\ flow'[v].job = i
    BY <1>1
  <2> QED BY <2>1 DEF Cared
<1>5. \A c \in Calls : FeederOK(feed[c])' /\ \A i \in 1..(feed'[c].next - 1) : Cared(c, i)'
  <2> TAKE c \in Calls
  <2>1. FeederOK(feed[c])' /\ feed[c].next - 1 <= Values /\ feed[c].next \in Nat /\ feed'[c] = feed[c]
    BY ConverterAssumption DEF FlowInv, FeederOK
  <2>2. \A i \in 1..(feed[c].next - 1) : i \in 1..Values
    BY <2>1, ConverterAssumption
  <2> QED BY <1>4, <2>1, <2>2 DEF FlowInv
<1>6. \A v \in Flows : feed'[CallOf[v]].pc \in {"ok", "error"} => flow'[v].pc = "exit"
  <2>1. flow[w].pc # "exit"
    BY DEF BusyAt, HeldAt
  <2> QED BY <1>1, <2>1 DEF FlowInv
<1> QED BY <1>2, <1>3, <1>5, <1>6 DEF FlowInv

\* A worker has the result of its value.
LEMMA Finishes ==
  ASSUME FlowInv, NEW w \in Flows, UNCHANGED feed, flow[w].pc \in BusyAt,
         NEW result \in {"cred", "error"}, Local!Finish(w, result), Local!PermitsExact'
  PROVE  FlowInv'
<1> DEFINE c == CallOf[w]
           j == flow[w].job
<1>1. c \in Calls /\ j \in 1..Values /\ result # "none"
  BY ConverterAssumption DEF FlowInv, WorkerOK
<1>2. /\ out' = [out EXCEPT ![c][j] = result] /\ flow' = [flow EXCEPT ![w] = Local!Idle]
  BY DEF Local!Finish
<1>3. DOMAIN flow = Flows /\ DOMAIN out = Calls /\ \A d \in Calls : DOMAIN out[d] = 1..Values
  BY DEF FlowInv
<1>4. /\ \A v \in Flows : flow'[v] = IF v = w THEN Local!Idle ELSE flow[v]
      /\ flow' = [v \in Flows |-> flow'[v]]
  BY <1>2, <1>3
<1>5. /\ out' = [d \in Calls |-> out'[d]] /\ \A d \in Calls : out'[d] = [i \in 1..Values |-> out'[d][i]]
      /\ \A d \in Calls, i \in 1..Values : out'[d][i] = IF d = c /\ i = j THEN result ELSE out[d][i]
  <2>1. out' = [out EXCEPT ![c] = [out[c] EXCEPT ![j] = result]]
    BY <1>2
  <2>2. out'[c] = [out[c] EXCEPT ![j] = result] /\ \A d \in Calls : d # c => out'[d] = out[d]
    BY <1>1, <1>3, <2>1
  <2>3. out' = [d \in Calls |-> out'[d]]
    BY <1>3, <2>1
  <2>4. \A d \in Calls : out[d] = [i \in 1..Values |-> out[d][i]]
    BY DEF FlowInv
  <2>5. out'[c] = [i \in 1..Values |-> out'[c][i]]
    BY <1>1, <1>3, <2>2
  <2>6. \A i \in 1..Values : out'[c][i] = IF i = j THEN result ELSE out[c][i]
    BY <1>1, <1>3, <2>2
  <2> QED BY <2>2, <2>3, <2>4, <2>5, <2>6
<1>6. Local!Idle.pc = "idle" /\ DOMAIN Local!Idle = {"pc", "job", "attempt", "polls"}
  BY DEF Local!Idle
<1> HIDE DEF c, j
<1>7. \A v \in Flows : WorkerOK(flow[v])'
  BY <1>4, <1>6 DEF FlowInv, WorkerOK, BusyAt, HeldAt
<1>8. \A d \in Calls, i \in 1..Values : Cared(d, i) => Cared(d, i)'
  <2> SUFFICES ASSUME NEW d \in Calls, NEW i \in 1..Values, Cared(d, i), ~(d = c /\ i = j)
               PROVE  Cared(d, i)'
    BY <1>1, <1>5 DEF Cared
  <2>1. CASE out[d][i] # "none"
    BY <1>5, <2>1 DEF Cared
  <2>2. CASE \E v \in Flows : CallOf[v] = d /\ flow[v].pc \in BusyAt /\ flow[v].job = i
    <3>1. PICK v \in Flows : CallOf[v] = d /\ flow[v].pc \in BusyAt /\ flow[v].job = i
      BY <2>2
    <3>2. v # w
      BY <3>1 DEF c, j
    <3> QED BY <1>4, <3>1, <3>2 DEF Cared
  <2> QED BY <2>1, <2>2 DEF Cared
<1>9. \A d \in Calls : FeederOK(feed[d])' /\ \A i \in 1..(feed'[d].next - 1) : Cared(d, i)'
  <2> TAKE d \in Calls
  <2>1. FeederOK(feed[d])' /\ feed[d].next - 1 <= Values /\ feed[d].next \in Nat /\ feed'[d] = feed[d]
    BY ConverterAssumption DEF FlowInv, FeederOK
  <2>2. \A i \in 1..(feed[d].next - 1) : i \in 1..Values
    BY <2>1, ConverterAssumption
  <2> QED BY <1>8, <2>1, <2>2 DEF FlowInv
<1>10. \A v \in Flows : feed'[CallOf[v]].pc \in {"ok", "error"} => flow'[v].pc = "exit"
  <2>1. flow[w].pc # "exit"
    BY DEF BusyAt, HeldAt
  <2> QED BY <1>4, <2>1 DEF FlowInv
<1> QED BY <1>4, <1>5, <1>7, <1>9, <1>10 DEF FlowInv

LEMMA FlowStarts == Local!Init => FlowInv
<1> SUFFICES ASSUME Local!Init PROVE FlowInv
  OBVIOUS
<1>1. /\ \A c \in Calls : feed[c] = [pc |-> "feed", next |-> 1]
      /\ \A w \in Flows : flow[w] = Local!Idle
  BY DEF Local!Init
<1>2. /\ flow = [w \in Flows |-> flow[w]] /\ feed = [c \in Calls |-> feed[c]]
      /\ out = [c \in Calls |-> out[c]] /\ \A c \in Calls : out[c] = [i \in 1..Values |-> out[c][i]]
  BY DEF Local!Init
<1>3. \A w \in Flows : WorkerOK(flow[w])
  BY <1>1 DEF WorkerOK, Local!Idle, BusyAt, HeldAt
<1>4. \A c \in Calls : FeederOK(feed[c]) /\ \A i \in 1..(feed[c].next - 1) : Cared(c, i)
  <2> TAKE c \in Calls
  <2>1. feed[c].next - 1 = 0 /\ 1..0 = {}
    BY <1>1
  <2> QED BY <1>1, <2>1, ConverterAssumption DEF FeederOK
<1>5. \A w \in Flows : feed[CallOf[w]].pc \notin {"ok", "error"}
  BY <1>1, ConverterAssumption
<1>6. Local!PermitsExact
  <2>1. Local!Holders = {}
    BY <1>1 DEF Local!Holders, Local!Idle
  <2>2. Local!Cardinality(Local!Holders) = 0
    BY <2>1, LocalCardinality, FS_EmptySet
  <2> QED BY <2>2, ConverterAssumption DEF Local!PermitsExact, Local!Init
<1> QED BY <1>2, <1>3, <1>4, <1>5, <1>6 DEF FlowInv

\* A worker steps from one point of its value's flow to another.
LEMMA StepsTo ==
  ASSUME FlowInv, NEW w \in Flows, NEW p \in BusyAt, UNCHANGED <<feed, out>>,
         flow[w].pc \in BusyAt, flow' = Local!To(w, p),
         p \in HeldAt =>
           IF flow[w].pc \in HeldAt THEN flowPermits' = flowPermits
           ELSE flowPermits < MaxPermits /\ flowPermits' = flowPermits + 1,
         p \notin HeldAt =>
           flowPermits' = IF flow[w].pc \in HeldAt THEN flowPermits - 1 ELSE flowPermits
  PROVE  FlowInv'
<1>1. DOMAIN flow = Flows /\ DOMAIN flow[w] = {"pc", "job", "attempt", "polls"}
  BY DEF FlowInv, WorkerOK
<1>2. flow' = [flow EXCEPT ![w] = [flow[w] EXCEPT !.pc = p]]
  BY DEF Local!To
<1>3. flow'[w] = [flow[w] EXCEPT !.pc = p] /\ \A v \in Flows : v # w => flow'[v] = flow[v]
  BY <1>1, <1>2
<1>4. flow'[w].pc = p /\ flow'[w].job = flow[w].job /\ DOMAIN flow'[w] = DOMAIN flow[w]
  BY <1>1, <1>3
<1>5. flow' = [v \in Flows |-> IF v = w THEN flow'[w] ELSE flow[v]]
  BY <1>1, <1>2, <1>3
<1>6. Local!PermitsExact'
  <2>1. Local!PermitsExact /\ \A v \in Flows : v # w => flow'[v] = flow[v]
    BY <1>3 DEF FlowInv
  <2>2. /\ flow'[w].pc \in HeldAt =>
             IF flow[w].pc \in HeldAt THEN flowPermits' = flowPermits
             ELSE flowPermits < MaxPermits /\ flowPermits' = flowPermits + 1
        /\ flow'[w].pc \notin HeldAt =>
             flowPermits' = IF flow[w].pc \in HeldAt THEN flowPermits - 1 ELSE flowPermits
    BY <1>4
  <2> QED BY <2>1, <2>2, HoldersMove
<1> QED BY <1>1, <1>4, <1>5, <1>6, GoesOnWith

\* A worker that has its result holds no permit.
LEMMA FinishesFree ==
  ASSUME FlowInv, NEW w \in Flows, UNCHANGED feed, flow[w].pc \in BusyAt,
         NEW result \in {"cred", "error"}, Local!Finish(w, result),
         flowPermits' = IF flow[w].pc \in HeldAt THEN flowPermits - 1 ELSE flowPermits
  PROVE  FlowInv'
<1>1. DOMAIN flow = Flows /\ flow' = [flow EXCEPT ![w] = Local!Idle]
  BY DEF FlowInv, Local!Finish
<1>2. flow'[w].pc \notin HeldAt /\ \A v \in Flows : v # w => flow'[v] = flow[v]
  BY <1>1 DEF Local!Idle, HeldAt
<1>3. Local!PermitsExact'
  BY <1>2, HoldersMove DEF FlowInv
<1> QED BY <1>3, Finishes

LEMMA Fails ==
  ASSUME FlowInv, NEW w \in Flows, UNCHANGED feed, flow[w].pc \in BusyAt,
         NEW retriable \in BOOLEAN, Local!Failed(w, retriable),
         flowPermits' = IF flow[w].pc \in HeldAt THEN flowPermits - 1 ELSE flowPermits
  PROVE  FlowInv'
<1>1. (flow' = Local!To(w, "backoff") /\ UNCHANGED out) \/ Local!Finish(w, "error")
  BY DEF Local!Failed
<1>2. CASE flow' = Local!To(w, "backoff") /\ UNCHANGED out
  BY <1>2, StepsTo DEF BusyAt, HeldAt
<1>3. CASE Local!Finish(w, "error")
  BY <1>3, FinishesFree
<1> QED BY <1>1, <1>2, <1>3

LEMMA RequestCodeInv == ASSUME FlowInv, NEW w \in Flows, Local!RequestDeviceCode(w) PROVE FlowInv'
<1>1. flow[w].pc = "begin" /\ UNCHANGED <<feed, flowPermits>>
  BY DEF Local!RequestDeviceCode, Local!At
<1>2. flow[w].pc \in BusyAt /\ flow[w].pc \notin HeldAt
  BY <1>1 DEF BusyAt, HeldAt
<1>3. CASE Local!Finish(w, "error")
  BY <1>1, <1>2, <1>3, FinishesFree
<1>4. CASE flow' = Local!To(w, "acquire") /\ UNCHANGED out
  BY <1>1, <1>2, <1>4, StepsTo DEF BusyAt, HeldAt
<1>5. ASSUME NEW retriable \in BOOLEAN, Local!Failed(w, retriable) PROVE FlowInv'
  BY <1>1, <1>2, <1>5, Fails
<1> QED BY <1>3, <1>4, <1>5 DEF Local!RequestDeviceCode

LEMMA AcquireInv == ASSUME FlowInv, NEW w \in Flows, Local!AcquireFlow(w) PROVE FlowInv'
<1>1. flow[w].pc = "acquire" /\ UNCHANGED feed
  BY DEF Local!AcquireFlow, Local!At
<1>2. flow[w].pc \in BusyAt /\ flow[w].pc \notin HeldAt
  BY <1>1 DEF BusyAt, HeldAt
<1>3. CASE /\ flowPermits < MaxPermits /\ flowPermits' = flowPermits + 1
           /\ flow' = Local!To(w, IF recent THEN "gap" ELSE "approve") /\ UNCHANGED out
  <2>1. PICK p \in {"gap", "approve"} : flow' = Local!To(w, p)
    BY <1>3
  <2>2. p \in BusyAt /\ p \in HeldAt
    BY DEF BusyAt, HeldAt
  <2> QED BY <1>1, <1>2, <1>3, <2>1, <2>2, StepsTo
<1>4. CASE Local!Failed(w, FALSE) /\ UNCHANGED flowPermits
  BY <1>1, <1>2, <1>4, Fails
<1> QED BY <1>3, <1>4 DEF Local!AcquireFlow

LEMMA GapInv == ASSUME FlowInv, NEW w \in Flows, Local!WaitGap(w) PROVE FlowInv'
<1>1. flow[w].pc = "gap" /\ UNCHANGED feed
  BY DEF Local!WaitGap, Local!At
<1>2. flow[w].pc \in BusyAt /\ flow[w].pc \in HeldAt
  BY <1>1 DEF BusyAt, HeldAt
<1>3. CASE flow' = Local!To(w, "approve") /\ UNCHANGED <<out, flowPermits>>
  BY <1>1, <1>2, <1>3, StepsTo DEF BusyAt, HeldAt
<1>4. CASE Local!Failed(w, FALSE) /\ flowPermits' = flowPermits - 1
  BY <1>1, <1>2, <1>4, Fails
<1> QED BY <1>3, <1>4 DEF Local!WaitGap, Local!GiveUpGap

LEMMA ApproveInv == ASSUME FlowInv, NEW w \in Flows, Local!Approve(w) PROVE FlowInv'
<1>1. flow[w].pc = "approve" /\ UNCHANGED feed
  BY DEF Local!Approve, Local!At
<1>2. flow[w].pc \in BusyAt /\ flow[w].pc \in HeldAt
  BY <1>1 DEF BusyAt, HeldAt
<1>3. CASE flow' = Local!To(w, "poll") /\ UNCHANGED <<out, flowPermits>>
  BY <1>1, <1>2, <1>3, StepsTo DEF BusyAt, HeldAt
<1>4. ASSUME NEW retriable \in BOOLEAN, Local!Failed(w, retriable), Local!ReleaseFlow(w)
      PROVE  FlowInv'
  BY <1>1, <1>2, <1>4, Fails DEF Local!ReleaseFlow
<1> QED BY <1>3, <1>4 DEF Local!Approve

LEMMA PollInv == ASSUME FlowInv, NEW w \in Flows, Local!PollToken(w) PROVE FlowInv'
<1>1. flow[w].pc = "poll" /\ UNCHANGED feed
  BY DEF Local!PollToken, Local!At
<1>2. flow[w].pc \in BusyAt /\ flow[w].pc \in HeldAt
  BY <1>1 DEF BusyAt, HeldAt
<1>3. CASE Local!Finish(w, "cred") /\ Local!ReleaseFlow(w)
  BY <1>1, <1>2, <1>3, FinishesFree DEF Local!ReleaseFlow
<1>4. CASE /\ flow' = [flow EXCEPT ![w].polls = @ + 1]
           /\ UNCHANGED <<out, flowPermits>>
  <2>1. DOMAIN flow = Flows /\ DOMAIN flow[w] = {"pc", "job", "attempt", "polls"}
    BY DEF FlowInv, WorkerOK
  <2>2. flow' = [flow EXCEPT ![w] = [flow[w] EXCEPT !.polls = @ + 1]]
    BY <1>4
  <2>3. /\ flow'[w] = [flow[w] EXCEPT !.polls = @ + 1]
        /\ \A v \in Flows : v # w => flow'[v] = flow[v]
    BY <2>1, <2>2
  <2>4. flow'[w].pc = flow[w].pc /\ flow'[w].job = flow[w].job /\ DOMAIN flow'[w] = DOMAIN flow[w]
    BY <2>1, <2>3
  <2>5. flow' = [v \in Flows |-> IF v = w THEN flow'[w] ELSE flow[v]]
    BY <2>1, <2>2, <2>3
  <2>6. Local!PermitsExact'
    <3>1. Local!PermitsExact
      BY DEF FlowInv
    <3>2. flow'[w].pc \in HeldAt
      BY <1>2, <2>4
    <3> QED BY <1>2, <1>4, <2>3, <3>1, <3>2, HoldersMove
  <2> QED BY <1>1, <1>2, <1>4, <2>1, <2>4, <2>5, <2>6, GoesOnWith
<1>5. CASE Local!Failed(w, TRUE) /\ Local!ReleaseFlow(w)
  BY <1>1, <1>2, <1>5, Fails DEF Local!ReleaseFlow
<1> QED BY <1>3, <1>4, <1>5 DEF Local!PollToken

LEMMA BackoffInv == ASSUME FlowInv, NEW w \in Flows, Local!Backoff(w) PROVE FlowInv'
<1>1. flow[w].pc = "backoff" /\ UNCHANGED <<feed, flowPermits>>
  BY DEF Local!Backoff, Local!At
<1>2. flow[w].pc \in BusyAt /\ flow[w].pc \notin HeldAt
  BY <1>1 DEF BusyAt, HeldAt
<1>3. CASE Local!Finish(w, "error")
  BY <1>1, <1>2, <1>3, FinishesFree
<1>4. CASE /\ UNCHANGED out
           /\ flow' = [flow EXCEPT ![w] = [Local!Idle EXCEPT !.pc = "begin", !.job = flow[w].job,
                                                             !.attempt = flow[w].attempt + 1]]
  <2> DEFINE f == [Local!Idle EXCEPT !.pc = "begin", !.job = flow[w].job,
                                     !.attempt = flow[w].attempt + 1]
  <2>1. f.pc = "begin" /\ f.job = flow[w].job /\ DOMAIN f = {"pc", "job", "attempt", "polls"}
    BY DEF Local!Idle
  <2> HIDE DEF f
  <2>2. DOMAIN flow = Flows /\ flow' = [flow EXCEPT ![w] = f]
    BY <1>4 DEF FlowInv, f
  <2>3. /\ flow'[w] = f /\ \A v \in Flows : v # w => flow'[v] = flow[v]
        /\ flow' = [v \in Flows |-> IF v = w THEN flow'[w] ELSE flow[v]]
    BY <2>2
  <2>4. flow'[w].pc \in BusyAt /\ flow'[w].pc \notin HeldAt
    BY <2>1, <2>3 DEF BusyAt, HeldAt
  <2>5. Local!PermitsExact'
    <3>1. Local!PermitsExact
      BY DEF FlowInv
    <3> QED BY <1>1, <1>2, <2>3, <2>4, <3>1, HoldersMove
  <2> QED BY <1>1, <1>2, <1>4, <2>1, <2>3, <2>4, <2>5, GoesOnWith
<1> QED BY <1>3, <1>4 DEF Local!Backoff

\* The workers of a call change, not those at a value.
LEMMA CaredStays ==
  ASSUME NEW w \in Flows, flow[w].pc \notin BusyAt, UNCHANGED out,
         \A v \in Flows : v # w => flow'[v] = flow[v]
  PROVE  \A c, i : Cared(c, i) => Cared(c, i)'
<1> SUFFICES ASSUME NEW c, NEW i, out[c][i] = "none",
                    NEW v \in Flows, CallOf[v] = c, flow[v].pc \in BusyAt, flow[v].job = i
             PROVE  Cared(c, i)'
  BY DEF Cared
<1>1. flow'[v] = flow[v]
  OBVIOUS
<1> QED BY <1>1 DEF Cared

LEMMA ExitInv == ASSUME FlowInv, NEW w \in Flows, Local!Exit(w) PROVE FlowInv'
<1>1. flow[w].pc = "idle" /\ UNCHANGED <<feed, out, flowPermits>> /\ flow' = Local!To(w, "exit")
  BY DEF Local!Exit, Local!At
<1>2. DOMAIN flow = Flows /\ DOMAIN flow[w] = {"pc", "job", "attempt", "polls"}
  BY DEF FlowInv, WorkerOK
<1>3. flow' = [flow EXCEPT ![w] = [flow[w] EXCEPT !.pc = "exit"]]
  BY <1>1 DEF Local!To
<1>4. /\ flow'[w] = [flow[w] EXCEPT !.pc = "exit"] /\ \A v \in Flows : v # w => flow'[v] = flow[v]
      /\ flow' = [v \in Flows |-> flow'[v]]
  BY <1>2, <1>3
<1>5. flow'[w].pc = "exit" /\ DOMAIN flow'[w] = DOMAIN flow[w]
  BY <1>2, <1>4
<1>6. \A v \in Flows : WorkerOK(flow[v])'
  BY <1>2, <1>4, <1>5 DEF FlowInv, WorkerOK, BusyAt, HeldAt
<1>7. \A c, i : Cared(c, i) => Cared(c, i)'
  BY <1>1, <1>4, CaredStays DEF BusyAt, HeldAt
<1>8. \A c \in Calls : FeederOK(feed[c])' /\ \A i \in 1..(feed'[c].next - 1) : Cared(c, i)'
  BY <1>1, <1>7 DEF FlowInv, FeederOK
<1>9. \A v \in Flows : feed'[CallOf[v]].pc \in {"ok", "error"} => flow'[v].pc = "exit"
  BY <1>1, <1>4, <1>5 DEF FlowInv
<1>10. Local!PermitsExact'
  <2>1. Local!PermitsExact /\ flow'[w].pc \notin HeldAt /\ flow[w].pc \notin HeldAt
    BY <1>1, <1>5 DEF FlowInv, HeldAt
  <2> QED BY <1>1, <1>4, <2>1, HoldersMove
<1> QED BY <1>1, <1>4, <1>6, <1>8, <1>9, <1>10 DEF FlowInv

LEMMA FeedInv == ASSUME FlowInv, NEW c \in Calls, NEW w \in Flows, Local!Feed(c, w) PROVE FlowInv'
<1>1. /\ feed[c].pc = "feed" /\ CallOf[w] = c /\ flow[w].pc = "idle" /\ UNCHANGED <<out, flowPermits>>
  BY DEF Local!Feed, Local!At
<1>2. DOMAIN flow = Flows /\ DOMAIN feed = Calls /\ DOMAIN feed[c] = {"pc", "next"}
  BY DEF FlowInv, FeederOK
<1>3. PICK n \in 1..Values : n = feed[c].next
  BY <1>1, ConverterAssumption DEF FlowInv, FeederOK
<1>4. PICK p \in {"feed", "wait"} : p = (IF n = Values THEN "wait" ELSE "feed")
  OBVIOUS
<1> DEFINE f == [Local!Idle EXCEPT !.pc = "begin", !.job = n]
           g == [[feed[c] EXCEPT !.next = n + 1] EXCEPT !.pc = p]
<1>5. f.pc = "begin" /\ f.job = n /\ DOMAIN f = {"pc", "job", "attempt", "polls"}
  BY DEF Local!Idle
<1>6. g.pc = p /\ g.next = n + 1 /\ DOMAIN g = {"pc", "next"}
  BY <1>2
<1>7. flow' = [flow EXCEPT ![w] = f] /\ feed' = [feed EXCEPT ![c] = g]
  BY <1>1, <1>2, <1>3, <1>4 DEF Local!Feed
<1> HIDE DEF f, g
<1>8. /\ flow'[w] = f /\ \A v \in Flows : v # w => flow'[v] = flow[v]
      /\ flow' = [v \in Flows |-> flow'[v]]
  BY <1>2, <1>7
<1>9. /\ feed'[c] = g /\ \A d \in Calls : d # c => feed'[d] = feed[d]
      /\ feed' = [d \in Calls |-> feed'[d]]
  BY <1>2, <1>7
<1>10. \A v \in Flows : WorkerOK(flow[v])'
  BY <1>5, <1>8 DEF FlowInv, WorkerOK, BusyAt, HeldAt
<1>11. \A d, i : Cared(d, i) => Cared(d, i)'
  BY <1>1, <1>8, CaredStays DEF BusyAt, HeldAt
<1>12. Cared(c, n)'
  <2>1. flow'[w].pc \in BusyAt /\ flow'[w].job = n
    BY <1>5, <1>8 DEF BusyAt
  <2> QED BY <1>1, <2>1 DEF Cared
<1>13. \A d \in Calls : FeederOK(feed[d])' /\ \A i \in 1..(feed'[d].next - 1) : Cared(d, i)'
  <2> TAKE d \in Calls
  <2>1. CASE d = c
    <3>1. FeederOK(feed[c])'
      BY <1>4, <1>6, <1>9, ConverterAssumption DEF FeederOK
    <3>2. \A i \in 1..n : i = n \/ i \in 1..(n - 1)
      BY ConverterAssumption
    <3>3. feed'[c].next - 1 = n
      BY <1>6, <1>9
    <3>4. \A i \in 1..(n - 1) : Cared(c, i)
      BY <1>3 DEF FlowInv
    <3>5. \A i \in 1..n : Cared(c, i)'
      BY <1>11, <1>12, <3>2, <3>4
    <3> QED BY <2>1, <3>1, <3>3, <3>5
  <2>2. CASE d # c
    BY <1>9, <1>11, <2>2 DEF FlowInv, FeederOK
  <2> QED BY <2>1, <2>2
<1>14. \A v \in Flows : feed'[CallOf[v]].pc \in {"ok", "error"} => flow'[v].pc = "exit"
  <2> TAKE v \in Flows
  <2>1. feed'[c].pc \notin {"ok", "error"}
    BY <1>6, <1>9
  <2>2. CallOf[v] \in Calls
    BY ConverterAssumption
  <2>3. CASE CallOf[v] = c
    BY <2>1, <2>3
  <2>4. CASE CallOf[v] # c
    <3>1. v # w /\ feed'[CallOf[v]] = feed[CallOf[v]]
      BY <1>1, <1>9, <2>2, <2>4
    <3> QED BY <1>8, <3>1 DEF FlowInv
  <2> QED BY <2>3, <2>4
<1>15. Local!PermitsExact'
  <2>1. Local!PermitsExact /\ flow'[w].pc \notin HeldAt /\ flow[w].pc \notin HeldAt
    BY <1>1, <1>5, <1>8 DEF FlowInv, HeldAt
  <2> QED BY <1>1, <1>8, <2>1, HoldersMove
<1>16. /\ out' = [d \in Calls |-> out'[d]]
       /\ \A d \in Calls : out'[d] = [i \in 1..Values |-> out'[d][i]]
  BY <1>1 DEF FlowInv
<1> QED BY <1>8, <1>9, <1>10, <1>13, <1>14, <1>15, <1>16 DEF FlowInv

\* The feeder alone moves.
LEMMA FeederTo ==
  ASSUME FlowInv, NEW c \in Calls, NEW p \in {"drain", "ok", "error"},
         UNCHANGED <<flow, out, flowPermits>>, feed' = [feed EXCEPT ![c].pc = p],
         p = "ok" => feed[c].pc = "wait",
         p # "drain" => \A w \in Flows : CallOf[w] = c => flow[w].pc = "exit"
  PROVE  FlowInv'
<1>1. DOMAIN feed = Calls /\ DOMAIN feed[c] = {"pc", "next"}
  BY DEF FlowInv, FeederOK
<1>2. feed' = [feed EXCEPT ![c] = [feed[c] EXCEPT !.pc = p]]
  OBVIOUS
<1>3. /\ feed'[c] = [feed[c] EXCEPT !.pc = p] /\ \A d \in Calls : d # c => feed'[d] = feed[d]
      /\ feed' = [d \in Calls |-> feed'[d]]
  BY <1>1, <1>2
<1>4. feed'[c].pc = p /\ feed'[c].next = feed[c].next /\ DOMAIN feed'[c] = {"pc", "next"}
  BY <1>1, <1>3
<1>5. \A v \in Flows : WorkerOK(flow[v])'
  BY DEF FlowInv, WorkerOK
<1>6. \A d, i : Cared(d, i) => Cared(d, i)'
  BY DEF Cared
<1>7. \A d \in Calls : FeederOK(feed[d])' /\ \A i \in 1..(feed'[d].next - 1) : Cared(d, i)'
  <2> TAKE d \in Calls
  <2>1. FeederOK(feed[d]) /\ \A i \in 1..(feed[d].next - 1) : Cared(d, i)
    BY DEF FlowInv
  <2>2. CASE d = c
    BY <1>4, <1>6, <2>1, <2>2, ConverterAssumption DEF FeederOK
  <2>3. CASE d # c
    BY <1>3, <1>6, <2>1, <2>3 DEF FeederOK
  <2> QED BY <2>2, <2>3
<1>8. \A v \in Flows : feed'[CallOf[v]].pc \in {"ok", "error"} => flow'[v].pc = "exit"
  <2>1. \A v \in Flows : CallOf[v] \in Calls
    BY ConverterAssumption
  <2> QED BY <1>3, <1>4, <2>1 DEF FlowInv
<1>9. Local!PermitsExact'
  BY LocalCardinality DEF FlowInv, Local!PermitsExact, Local!Holders
<1>10. /\ flow' = [v \in Flows |-> flow'[v]] /\ out' = [d \in Calls |-> out'[d]]
       /\ \A d \in Calls : out'[d] = [i \in 1..Values |-> out'[d][i]]
  BY DEF FlowInv
<1> QED BY <1>3, <1>5, <1>7, <1>8, <1>9, <1>10 DEF FlowInv

LEMMA LeadInv == ASSUME FlowInv, NEW c \in Calls, Local!Lead(c) PROVE FlowInv'
<1>1. ASSUME NEW w \in Local!Team(c), Local!Feed(c, w) PROVE FlowInv'
  BY <1>1, FeedInv DEF Local!Team
<1>2. CASE Local!StopFeeding(c)
  BY <1>2, FeederTo DEF Local!StopFeeding
<1>3. CASE Local!Answer(c)
  <2> DEFINE p == IF feed[c].pc = "wait" THEN "ok" ELSE "error"
  <2>1. feed' = [feed EXCEPT ![c].pc = p] /\ UNCHANGED <<flow, out, flowPermits>>
    BY <1>3 DEF Local!Answer
  <2>2. \A w \in Flows : CallOf[w] = c => flow[w].pc = "exit"
    BY <1>3 DEF Local!Answer, Local!MayAnswer, Local!Team, Local!At
  <2>3. p \in {"drain", "ok", "error"} /\ (p = "ok" => feed[c].pc = "wait")
    OBVIOUS
  <2> HIDE DEF p
  <2> QED BY <2>1, <2>2, <2>3, FeederTo
<1> QED BY <1>1, <1>2, <1>3 DEF Local!Lead

LEMMA FlowRests == ASSUME FlowInv, UNCHANGED <<feed, flow, out, flowPermits>> PROVE FlowInv'
  BY DEF FlowInv, WorkerOK, FeederOK, Cared, Local!PermitsExact, Local!Holders

LEMMA FlowStep == FlowInv /\ [Local!FlowNext]_localVars => FlowInv'
<1>1. ASSUME FlowInv, NEW w \in Flows, Local!Work(w) PROVE FlowInv'
  BY <1>1, RequestCodeInv, AcquireInv, GapInv, ApproveInv, PollInv, BackoffInv, ExitInv DEF Local!Work
<1>2. ASSUME FlowInv, NEW c \in Calls, Local!Cancel(c) PROVE FlowInv'
  BY <1>2, FlowRests DEF Local!Cancel
<1>3. ASSUME FlowInv, Local!GapPasses \/ UNCHANGED localVars PROVE FlowInv'
  BY <1>3, FlowRests DEF Local!GapPasses, localVars
<1> QED BY <1>1, <1>2, <1>3, LeadInv DEF Local!FlowNext

LEMMA FlowSound == FlowInv => ConvertSound
<1> SUFFICES ASSUME FlowInv, NEW c \in Calls, feed[c].pc \in {"ok", "error"}
             PROVE  /\ \A w \in Local!Team(c) : flow[w].pc = "exit"
                    /\ feed[c].pc = "ok" => \A i \in 1..Values : out[c][i] # "none"
  BY DEF ConvertSound, Local!ConvertWhole, FlowInv
<1>1. \A w \in Flows : CallOf[w] = c => flow[w].pc = "exit"
  BY DEF FlowInv
<1>2. ASSUME feed[c].pc = "ok", NEW i \in 1..Values PROVE out[c][i] # "none"
  <2>1. feed[c].next = Values + 1
    BY <1>2 DEF FlowInv, FeederOK
  <2>2. i \in 1..(feed[c].next - 1)
    BY <2>1, ConverterAssumption
  <2>3. Cared(c, i)
    BY <2>2 DEF FlowInv
  <2> QED BY <1>1, <2>3 DEF Cared, BusyAt, HeldAt
<1> QED BY <1>1, <1>2 DEF Local!Team

\* The permits of the device flows are those of the flows under way and never more than
\* FlowConcurrency, and a Convert answers with no worker left and, when it succeeds, a
\* result for every value (device.go, Convert and convertOnce), for any number of calls,
\* workers, values, retries and permits, cancelled or not.
THEOREM ConvertAlwaysSound == ConsoleSpec => []ConvertSound
<1>1. ConsoleInit => FlowInv
  BY FlowStarts DEF ConsoleInit
<1>2. FlowInv /\ [ConsoleNext]_consoleVars => FlowInv'
  <2>1. [ConsoleNext]_consoleVars => [Local!FlowNext]_localVars
    BY DEF ConsoleNext, consoleVars, localVars
  <2> QED BY <2>1, FlowStep
<1> QED BY <1>1, <1>2, FlowSound, PTL DEF ConsoleSpec

-----------------------------------------------------------------------------
(* The converter behind a service.  The spans of the batches share no      *)
(* value and leave none out, and without an error each batch is to be      *)
(* sent, under way, or put where it belongs.                               *)

Landed(b) ==
  /\ Remote!Accepted(b, reply[b])
  /\ \A k \in 1..Remote!Size(b) : merged[Remote!Start(b) + k] = Remote!Converted(b, reply[b])[k]

RemoteInv ==
  /\ todo \subseteq Remote!Batches
  /\ DOMAIN sender = Senders /\ \A w \in Senders : sender[w] \in Remote!Batches \cup {0}
  /\ DOMAIN reply = Remote!Batches /\ \A b \in Remote!Batches : DOMAIN reply[b] \subseteq Nat \ {0}
  /\ failing \in BOOLEAN
  /\ ~failing => \A b \in Remote!Batches : b \in todo \/ (\E w \in Senders : sender[w] = b) \/ Landed(b)
  /\ ended = "ok" => ~failing /\ todo = {} /\ \A w \in Senders : sender[w] = 0

\* Where a batch starts, and that it ends within the values.
LEMMA SpanWithin ==
  ASSUME NEW b \in Remote!Batches
  PROVE  /\ b \in Nat \ {0} /\ Remote!Start(b) \in Nat /\ Remote!Size(b) \in Int
         /\ Remote!Size(b) <= MaxBatch /\ Remote!Start(b) + Remote!Size(b) <= Cookies
<1>1. b \in Nat \ {0}
  BY ConverterAssumption DEF Remote!Batches
<1>2. (b - 1) * MaxBatch \in Nat
  BY <1>1, ConverterAssumption
<1>3. Remote!Start(b) \in Nat
  BY <1>2 DEF Remote!Start
<1> QED BY <1>1, <1>3, ConverterAssumption DEF Remote!Size

\* No value is in two batches.
LEMMA SpansApart ==
  ASSUME NEW b \in Remote!Batches, NEW d \in Remote!Batches,
         NEW k \in 1..Remote!Size(b), NEW l \in 1..Remote!Size(d),
         Remote!Start(b) + k = Remote!Start(d) + l
  PROVE  b = d
<1>1. ASSUME NEW x \in Remote!Batches, NEW y \in Remote!Batches, x < y
      PROVE  Remote!Start(x) + MaxBatch <= Remote!Start(y)
  <2>1. x \in Nat \ {0} /\ y \in Nat \ {0} /\ MaxBatch \in Nat \ {0}
    BY SpanWithin, ConverterAssumption
  <2>2. \A m, n, c \in Nat : m + 1 <= n => m * c + c <= n * c
    <3> SUFFICES ASSUME NEW m \in Nat, NEW n \in Nat, NEW c \in Nat, m + 1 <= n
                 PROVE  m * c + c <= n * c
      OBVIOUS
    <3>1. PICK e \in Nat : n = (m + 1) + e
      <4>1. n - (m + 1) \in Nat /\ n = (m + 1) + (n - (m + 1))
        OBVIOUS
      <4> QED BY <4>1
    <3>2. e * c \in Nat /\ m * c \in Nat
      OBVIOUS
    <3>3. ((m + 1) + e) * c = (m * c + c) + e * c
      OBVIOUS
    <3> QED BY <3>1, <3>2, <3>3
  <2>3. x - 1 \in Nat /\ y - 1 \in Nat /\ (x - 1) + 1 <= y - 1
    BY <1>1, <2>1
  <2> HIDE DEF Remote!Start
  <2>4. (x - 1) * MaxBatch + MaxBatch <= (y - 1) * MaxBatch
    BY <2>1, <2>2, <2>3
  <2> QED BY <2>4 DEF Remote!Start
<1>2. /\ b \in Nat /\ d \in Nat /\ Remote!Start(b) \in Nat /\ Remote!Start(d) \in Nat
      /\ k \in 1..MaxBatch /\ l \in 1..MaxBatch /\ MaxBatch \in Nat
  BY SpanWithin, ConverterAssumption
<1>3. ~(b < d) /\ ~(d < b)
  BY <1>1, <1>2
<1> QED BY <1>2, <1>3

LEMMA BrokenPlace == DOMAIN Remote!Broken = 1..1
<1> DEFINE r == [index |-> -1, is |-> ""]
<1>1. \A x : DOMAIN <<x>> = 1..1
  OBVIOUS
<1> HIDE DEF r
<1>2. DOMAIN <<r>> = 1..1
  BY <1>1
<1> QED BY <1>2 DEF Remote!Broken, r

LEMMA Quotient ==
  ASSUME NEW n \in Nat, NEW c \in Nat \ {0}
  PROVE  \E q \in Nat : q = n \div c /\ q * c <= n /\ n < q * c + c
  OBVIOUS

\* Every value is in a batch.
LEMMA SpansAll ==
  ASSUME NEW v \in 1..Cookies
  PROVE  \E b \in Remote!Batches : \E k \in 1..Remote!Size(b) : v = Remote!Start(b) + k
<1>1. MaxBatch \in Nat \ {0} /\ Cookies \in Nat /\ v \in Nat /\ v - 1 \in Nat
  BY ConverterAssumption
<1>2. PICK q \in Nat : q * MaxBatch <= v - 1 /\ v - 1 < q * MaxBatch + MaxBatch
  BY <1>1, Quotient
<1>3. PICK n \in Nat : /\ n = (Cookies + MaxBatch - 1) \div MaxBatch
                      /\ Cookies + MaxBatch - 1 < n * MaxBatch + MaxBatch
  <2>1. Cookies + MaxBatch - 1 \in Nat
    BY <1>1
  <2> QED BY <1>1, <2>1, Quotient
<1>4. q * MaxBatch \in Nat /\ n * MaxBatch \in Nat
  BY <1>1
<1>5. q + 1 <= n
  <2>1. ASSUME n <= q PROVE n * MaxBatch <= q * MaxBatch
    <3>1. PICK e \in Nat : q = n + e
      <4>1. q - n \in Nat /\ q = n + (q - n)
        BY <2>1
      <4> QED BY <4>1
    <3>2. e * MaxBatch \in Nat /\ (n + e) * MaxBatch = n * MaxBatch + e * MaxBatch
      BY <1>1
    <3> QED BY <1>4, <3>1, <3>2
  <2> QED BY <1>1, <1>2, <1>3, <1>4, <2>1
<1>6. q + 1 \in Remote!Batches /\ Remote!Start(q + 1) = q * MaxBatch
  BY <1>3, <1>5 DEF Remote!Batches, Remote!Start
<1>7. v - q * MaxBatch \in 1..Remote!Size(q + 1)
  BY <1>1, <1>2, <1>4, <1>6 DEF Remote!Size
<1>8. v = Remote!Start(q + 1) + (v - q * MaxBatch)
  BY <1>1, <1>4, <1>6
<1> QED BY <1>6, <1>7, <1>8

LEMMA RemoteStarts == Remote!Init => RemoteInv
<1> SUFFICES ASSUME Remote!Init PROVE RemoteInv
  OBVIOUS
<1>1. \A b \in Remote!Batches : DOMAIN reply[b] \subseteq Nat \ {0}
  <2> TAKE b \in Remote!Batches
  <2>1. reply[b] = Remote!Broken
    BY DEF Remote!Init
  <2> QED BY <2>1, BrokenPlace
<1> QED BY <1>1 DEF Remote!Init, RemoteInv

LEMMA TakeInv == ASSUME RemoteInv, NEW w \in Senders, Remote!Take(w) PROVE RemoteInv'
<1>1. PICK b \in todo :
        /\ todo' = todo \ {b}
        /\ IF stopped THEN failing' = TRUE /\ UNCHANGED sender
           ELSE sender' = [sender EXCEPT ![w] = b] /\ UNCHANGED failing
  BY DEF Remote!Take
<1>2. sender[w] = 0 /\ ended = "" /\ UNCHANGED <<reply, merged, ended>>
  BY DEF Remote!Take
<1>3. b \in Remote!Batches
  BY DEF RemoteInv
<1>4. \A d \in Remote!Batches : Landed(d) => Landed(d)'
  BY <1>2 DEF Landed
<1>5. CASE failing'
  BY <1>1, <1>2, <1>3, <1>5 DEF RemoteInv
<1>6. CASE ~failing'
  <2>1. sender' = [sender EXCEPT ![w] = b] /\ ~failing /\ failing' \in BOOLEAN
    BY <1>1, <1>6 DEF RemoteInv
  <2>2. /\ DOMAIN sender' = Senders /\ sender'[w] = b
        /\ \A u \in Senders : u # w => sender'[u] = sender[u]
    BY <2>1 DEF RemoteInv
  <2>3. \A d \in Remote!Batches : d \in todo' \/ (\E u \in Senders : sender'[u] = d) \/ Landed(d)'
    <3> TAKE d \in Remote!Batches
    <3>1. CASE d \in todo
      BY <1>1, <2>2, <3>1
    <3>2. CASE \E u \in Senders : sender[u] = d
      <4>1. PICK u \in Senders : sender[u] = d
        BY <3>2
      <4>2. d # 0
        BY SpanWithin
      <4> QED BY <1>2, <2>2, <4>1, <4>2
    <3>3. CASE Landed(d)
      BY <1>4, <3>3
    <3> QED BY <2>1, <3>1, <3>2, <3>3 DEF RemoteInv
  <2> QED BY <1>1, <1>2, <1>3, <2>1, <2>2, <2>3 DEF RemoteInv
<1> QED BY <1>5, <1>6

LEMMA ReceiveInv == ASSUME RemoteInv, NEW w \in Senders, Remote!Receive(w) PROVE RemoteInv'
<1>1. PICK b \in Remote!Batches : b = sender[w]
  BY DEF RemoteInv, Remote!Receive
<1>2. PICK answer \in Remote!Answers \cup {Remote!Broken} :
        /\ reply' = [reply EXCEPT ![b] = answer]
        /\ IF Remote!Accepted(b, answer)
           THEN merged' = Remote!Merged(b, Remote!Converted(b, answer)) /\ UNCHANGED failing
           ELSE failing' = TRUE /\ UNCHANGED merged
  BY <1>1 DEF Remote!Receive
<1>3. b # 0 /\ sender' = [sender EXCEPT ![w] = 0] /\ UNCHANGED <<todo, ended>>
  BY <1>1 DEF Remote!Receive
<1>4. DOMAIN answer \subseteq Nat \ {0}
  <2>1. CASE answer \in Remote!Answers
    <3>1. PICK n \in 0..MaxBatch : answer \in [1..n -> Remote!Results]
      BY <2>1 DEF Remote!Answers
    <3> QED BY <3>1
  <2>2. CASE answer = Remote!Broken
    BY <2>2, BrokenPlace
  <2> QED BY <2>1, <2>2
<1>5. /\ DOMAIN reply' = Remote!Batches /\ reply'[b] = answer
      /\ \A d \in Remote!Batches : d # b => reply'[d] = reply[d]
  BY <1>2 DEF RemoteInv
<1>6. /\ DOMAIN sender' = Senders /\ sender'[w] = 0
      /\ \A u \in Senders : u # w => sender'[u] = sender[u]
  BY <1>3 DEF RemoteInv
<1>7. ended # "ok"
  BY <1>1, <1>3 DEF RemoteInv
<1>8. failing' \in BOOLEAN /\ (failing => failing')
  BY <1>2 DEF RemoteInv
<1>9. ASSUME ~failing', NEW d \in Remote!Batches
      PROVE  d \in todo' \/ (\E u \in Senders : sender'[u] = d) \/ Landed(d)'
  <2>1. /\ Remote!Accepted(b, answer) /\ ~failing
        /\ merged' = Remote!Merged(b, Remote!Converted(b, answer))
    BY <1>2, <1>8, <1>9
  <2>2. PICK data : data = Remote!Converted(b, answer)
    OBVIOUS
  <2>3. DOMAIN data = 1..Remote!Size(b)
    BY <2>2 DEF Remote!Converted
  <2>4. \A v \in 1..Cookies :
          merged'[v] = IF v - Remote!Start(b) \in DOMAIN data THEN data[v - Remote!Start(b)] ELSE merged[v]
    BY <2>1, <2>2 DEF Remote!Merged
  <2>5. \A e \in Remote!Batches : \A k \in 1..Remote!Size(e) : Remote!Start(e) + k \in 1..Cookies
    BY SpanWithin, ConverterAssumption
  <2>6. CASE d = b
    <3>1. \A k \in 1..Remote!Size(b) : merged'[Remote!Start(b) + k] = data[k]
      <4> TAKE k \in 1..Remote!Size(b)
      <4>1. (Remote!Start(b) + k) - Remote!Start(b) = k
        BY SpanWithin
      <4> QED BY <2>3, <2>4, <2>5, <4>1
    <3> QED BY <1>5, <2>1, <2>2, <2>6, <3>1 DEF Landed
  <2>7. CASE d # b /\ Landed(d)
    <3>1. ASSUME NEW k \in 1..Remote!Size(d)
          PROVE  merged'[Remote!Start(d) + k] = merged[Remote!Start(d) + k]
      <4>1. (Remote!Start(d) + k) - Remote!Start(b) \notin 1..Remote!Size(b)
        <5> SUFFICES ASSUME (Remote!Start(d) + k) - Remote!Start(b) \in 1..Remote!Size(b) PROVE FALSE
          OBVIOUS
        <5>1. PICK l \in 1..Remote!Size(b) : l = (Remote!Start(d) + k) - Remote!Start(b)
          OBVIOUS
        <5>2. Remote!Start(b) + l = Remote!Start(d) + k
          BY <5>1, SpanWithin
        <5> QED BY <2>7, <5>2, SpansApart
      <4> QED BY <2>3, <2>4, <2>5, <4>1
    <3> QED BY <1>5, <2>7, <3>1 DEF Landed
  <2>8. CASE d # b /\ ~Landed(d)
    BY <1>1, <1>3, <1>6, <2>1, <2>8 DEF RemoteInv
  <2> QED BY <2>6, <2>7, <2>8
<1> QED BY <1>3, <1>4, <1>5, <1>6, <1>7, <1>8, <1>9 DEF RemoteInv

LEMMA RemoteRests ==
  ASSUME RemoteInv, UNCHANGED <<todo, sender, reply, merged, failing>>,
         ended' = "ok" => ended = "ok" \/ (~failing /\ todo = {} /\ \A w \in Senders : sender[w] = 0)
  PROVE  RemoteInv'
  BY DEF RemoteInv, Landed

LEMMA RemoteStep == RemoteInv /\ [Remote!RemoteNext]_remoteVars => RemoteInv'
<1>1. ASSUME RemoteInv, Remote!Conclude PROVE RemoteInv'
  <2>1. failing \in BOOLEAN
    BY <1>1 DEF RemoteInv
  <2> QED BY <1>1, <2>1, RemoteRests DEF Remote!Conclude
<1>2. ASSUME RemoteInv, Remote!Stop \/ UNCHANGED remoteVars PROVE RemoteInv'
  BY <1>2, RemoteRests DEF Remote!Stop, remoteVars
<1> QED BY <1>1, <1>2, TakeInv, ReceiveInv DEF Remote!RemoteNext

LEMMA RemoteSound == RemoteInv => EachItsOwn
<1> SUFFICES ASSUME RemoteInv, ended = "ok"
             PROVE  /\ \A v \in 1..Cookies :
                         merged[v] = IF Remote!SaidGood(v) THEN v ELSE Remote!NoCred
                    /\ \A b \in Remote!Batches : \A i, j \in DOMAIN reply[b] :
                         reply[b][i].index = reply[b][j].index => i = j
  BY DEF EachItsOwn, Remote!EachItsOwn
<1>1. \A b \in Remote!Batches : Landed(b)
  BY SpanWithin DEF RemoteInv
<1>2. ASSUME NEW b \in Remote!Batches, NEW i \in DOMAIN reply[b], NEW j \in DOMAIN reply[b],
             reply[b][i].index = reply[b][j].index
      PROVE  i = j
  <2>1. i \in Int /\ j \in Int /\ i >= 1 /\ j >= 1
    BY DEF RemoteInv
  <2>2. ~(j \in 1..(i - 1)) /\ ~(i \in 1..(j - 1))
    BY <1>1, <1>2 DEF Landed, Remote!Accepted
  <2> QED BY <2>1, <2>2
<1>3. ASSUME NEW v \in 1..Cookies PROVE merged[v] = IF Remote!SaidGood(v) THEN v ELSE Remote!NoCred
  <2>0. PICK b \in Remote!Batches : \E k \in 1..Remote!Size(b) : v = Remote!Start(b) + k
    BY SpansAll
  <2>1. PICK k \in 1..Remote!Size(b) : v = Remote!Start(b) + k
    BY <2>0
  <2>2. merged[v] = IF \E i \in DOMAIN reply[b] : reply[b][i].index = k - 1 /\ reply[b][i].is = "cred"
                    THEN v ELSE Remote!NoCred
    BY <1>1, <2>1 DEF Landed, Remote!Converted
  <2>3. ASSUME NEW i \in DOMAIN reply[b], reply[b][i].index = k - 1, reply[b][i].is = "cred"
        PROVE  Remote!SaidGood(v)
    BY <2>1, <2>3, SpanWithin DEF Remote!SaidGood
  <2>4. ASSUME Remote!SaidGood(v)
        PROVE  \E i \in DOMAIN reply[b] : reply[b][i].index = k - 1 /\ reply[b][i].is = "cred"
    <3>1. PICK d \in Remote!Batches : \E i \in DOMAIN reply[d] :
            /\ Remote!Start(d) + reply[d][i].index + 1 = v
            /\ reply[d][i].index < Remote!Size(d)
            /\ reply[d][i].is = "cred"
      BY <2>4 DEF Remote!SaidGood
    <3>2. PICK i \in DOMAIN reply[d] : /\ Remote!Start(d) + reply[d][i].index + 1 = v
                                       /\ reply[d][i].is = "cred"
      BY <3>1
    <3>3. PICK n \in 0..(Remote!Size(d) - 1) : n = reply[d][i].index
      BY <1>1 DEF Landed, Remote!Accepted
    <3>4. n + 1 \in 1..Remote!Size(d) /\ Remote!Start(d) + (n + 1) = Remote!Start(b) + k
      BY <2>1, <3>2, <3>3, SpanWithin
    <3>5. d = b
      BY <3>4, SpansApart
    <3>6. n = k - 1
      BY <3>4, <3>5, SpanWithin
    <3> QED BY <3>2, <3>3, <3>5, <3>6
  <2> QED BY <2>2, <2>3, <2>4
<1> QED BY <1>2, <1>3

\* A successful Convert gives each value its own credential exactly if the service
\* converted it (client.go, Convert and convertBatch), for any number of values, batch
\* size and senders, whatever order batches and results come in.
THEOREM ConvertGivesEachItsOwn == ConsoleSpec => []EachItsOwn
<1>1. ConsoleInit => RemoteInv
  BY RemoteStarts DEF ConsoleInit
<1>2. RemoteInv /\ [ConsoleNext]_consoleVars => RemoteInv'
  <2>1. [ConsoleNext]_consoleVars => [Remote!RemoteNext]_remoteVars
    BY DEF ConsoleNext, consoleVars, remoteVars
  <2> QED BY <2>1, RemoteStep
<1> QED BY <1>1, <1>2, RemoteSound, PTL DEF ConsoleSpec

-----------------------------------------------------------------------------
(* The proxy pool.  A node the list does not have carries no health, and   *)
(* what a saved list has copied is among what it watched.                  *)

NodeOK(n) ==
  /\ DOMAIN n = {"in", "enabled", "fail", "until", "assigned"} /\ n.assigned \in Nat
  /\ n.in \/ Proxies!Health(n) = <<0, 0, 0>>

EditFields == {"pc", "body", "off", "todo", "clean", "was"}

\* An edit whatever the list does meanwhile.
EditOK(ed) ==
  /\ DOMAIN ed = EditFields /\ DOMAIN ed.clean = Urls /\ DOMAIN ed.was = Urls
  /\ \A u \in Urls : NodeOK(ed.clean[u])
  /\ ed.pc = "copy" =>
       /\ ed.todo \subseteq Urls /\ ed.body \subseteq Urls
       /\ \A u \in ed.body \ ed.todo : Proxies!Health(ed.clean[u]) \in ed.was[u]

Watches(ed) == ed.pc = "copy" => \A u \in Urls : Proxies!Health(nodes[u]) \in ed.was[u]

BinderOK(j) ==
  /\ DOMAIN j = {"pc", "todo", "url", "dry", "least"}
  /\ j.pc \in {"pick", "bind", "hot"} => j.todo \subseteq Accts /\ j.todo # {}

PoolInv ==
  /\ DOMAIN nodes = Urls /\ \A u \in Urls : NodeOK(nodes[u])
  /\ DOMAIN poolFile = Urls /\ \A u \in Urls : NodeOK(poolFile[u])
  /\ DOMAIN editor = Editors /\ \A e \in Editors : EditOK(editor[e]) /\ Watches(editor[e])
  /\ DOMAIN binder = Binders /\ \A b \in Binders : BinderOK(binder[b])

LEMMA ProxiesCardinality == \A S : Proxies!Cardinality(S) = Cardinality(S)
  BY DEF Proxies!Cardinality, Cardinality

LEMMA LeastThere ==
  ASSUME NEW T \in SUBSET Nat, T # {}
  PROVE  \E m \in T : \A y \in T : m <= y
  BY LeastNumber

\* A finite set of numbers has one with i smaller ones.
LEMMA NthThere ==
  ASSUME NEW n \in Nat, NEW S \in SUBSET (1..n), IsFiniteSet(S), NEW i \in Nat, i < Cardinality(S)
  PROVE  \E u \in S : Cardinality({v \in S : v < u}) = i
<1> DEFINE Below(k) == {v \in S : v < k}
           T == {k \in Nat : Cardinality(Below(k)) > i}
<1>1. \A k : IsFiniteSet(Below(k)) /\ Cardinality(Below(k)) \in Nat
  BY FS_Subset, FS_CardinalityType
<1>0. (\A v \in S : v \in Nat /\ v <= n /\ v >= 1) /\ \A k, v : v \in Below(k) <=> v \in S /\ v < k
  OBVIOUS
<1>2. Below(n + 1) = S
  <2> HIDE DEF Below
  <2>1. \A v \in S : v < n + 1
    BY <1>0
  <2> QED BY <1>0, <2>1
<1>3. n + 1 \in T
  BY <1>2
<1>4. PICK m \in T : \A k \in T : m <= k
  BY <1>3, LeastThere
<1>5. Below(0) = {}
  <2> HIDE DEF Below
  <2>1. \A v \in S : ~(v < 0)
    BY <1>0
  <2> QED BY <1>0, <2>1
<1>6. Cardinality(Below(0)) = 0
  BY <1>5, FS_EmptySet
<1>7. m \in Nat /\ m # 0 /\ Cardinality(Below(m)) > i
  BY <1>6
<1>8. m - 1 \in Nat /\ m - 1 \notin T
  BY <1>4, <1>7
<1>9. Cardinality(Below(m - 1)) <= i
  BY <1>1, <1>8
<1>10. m - 1 \in S
  <2> SUFFICES ASSUME m - 1 \notin S PROVE FALSE
    OBVIOUS
  <2> HIDE DEF Below
  <2>2. \A v \in S : v < m <=> v < m - 1
    <3> TAKE v \in S
    <3>1. v \in Nat /\ m \in Nat /\ v # m - 1
      BY <1>0, <1>7
    <3> QED BY <3>1
  <2>1. Below(m) = Below(m - 1)
    BY <1>0, <2>2
  <2> QED BY <1>1, <1>7, <1>9, <2>1
<1>11. Below(m) = Below(m - 1) \cup {m - 1} /\ m - 1 \notin Below(m - 1)
  <2> HIDE DEF Below
  <2>1. \A v \in S : v < m <=> v < m - 1 \/ v = m - 1
    <3> TAKE v \in S
    <3>1. v \in Nat /\ m \in Nat
      BY <1>0, <1>7
    <3> QED BY <3>1
  <2>2. ~(m - 1 < m - 1)
    BY <1>7
  <2>3. \A v : v \in Below(m) <=> v \in Below(m - 1) \/ v = m - 1
    BY <1>0, <1>10, <2>1
  <2> QED BY <1>0, <2>2, <2>3
<1>12. Cardinality(Below(m)) = Cardinality(Below(m - 1)) + 1
  <2> HIDE DEF Below
  <2> QED BY <1>1, <1>11, FS_AddElement
<1>13. Cardinality(Below(m - 1)) = i
  <2> HIDE DEF Below
  <2> QED BY <1>1, <1>7, <1>9, <1>12
<1> QED BY <1>10, <1>13

\* Pick gives a healthy node if there is one.
LEMMA ChosenHealthy ==
  ASSUME PoolInv, Proxies!Healthy # {}, NEW a \in Nat, NEW least
  PROVE  Proxies!Chosen(a, least) \in Proxies!Healthy
<1> DEFINE H == Proxies!Healthy
<1>1. H \subseteq Urls /\ \A u \in H : nodes[u].assigned \in Nat
  BY DEF Proxies!Healthy, PoolInv, NodeOK
<1>2. PICK n \in Nat : n = Cardinality(Urls) /\ Urls = 1..n
  BY ProxiesAssumption, FS_CardinalityType
<1>3. IsFiniteSet(H) /\ Cardinality(H) \in Nat /\ Cardinality(H) # 0
  BY <1>1, ProxiesAssumption, FS_Subset, FS_CardinalityType, FS_EmptySet
<1> HIDE DEF H
<1>4. \E u \in H : \A v \in H : \/ nodes[u].assigned < nodes[v].assigned
                                \/ nodes[u].assigned = nodes[v].assigned /\ u <= v
  <2> DEFINE T == {nodes[u].assigned : u \in H}
  <2>1. T \subseteq Nat /\ T # {}
    BY <1>1 DEF H
  <2>2. PICK m \in T : \A k \in T : m <= k
    BY <2>1, LeastThere
  <2>3. \A v \in H : m <= nodes[v].assigned
    BY <2>2
  <2> DEFINE L == {u \in H : nodes[u].assigned = m}
  <2>4. L \subseteq Nat /\ L # {}
    <3>1. PICK u \in H : m = nodes[u].assigned
      OBVIOUS
    <3>2. u \in L
      BY <3>1
    <3>3. H \subseteq Nat
      BY <1>1, <1>2 DEF H
    <3> QED BY <3>2, <3>3
  <2>5. PICK u \in L : \A v \in L : u <= v
    BY <2>4, LeastThere
  <2>6. ASSUME NEW v \in H
        PROVE  \/ nodes[u].assigned < nodes[v].assigned
               \/ nodes[u].assigned = nodes[v].assigned /\ u <= v
    BY <1>1, <2>1, <2>3, <2>5
  <2> QED BY <2>6
<1>5. \E u \in H : Cardinality({v \in H : v < u}) = a % Cardinality(H)
  <2>1. PICK i \in Nat : i = a % Cardinality(H) /\ i < Cardinality(H)
    BY <1>3
  <2>2. IsFiniteSet(H) /\ H \in SUBSET (1..n)
    BY <1>1, <1>2, <1>3 DEF H
  <2>3. \E u \in H : Cardinality({v \in H : v < u}) = i
    BY <2>1, <2>2, NthThere, ZenonT(40)
  <2> QED BY <2>1, <2>3
<1>6. CASE least
  BY <1>4, <1>6 DEF Proxies!Chosen, H
<1>7. CASE ~least
  <2>1. Proxies!Chosen(a, least) =
          CHOOSE u \in H : Cardinality({v \in H : v < u}) = a % Cardinality(H)
    BY <1>7, ProxiesCardinality DEF Proxies!Chosen, Proxies!Nth, H
  <2>2. (CHOOSE u \in H : Cardinality({v \in H : v < u}) = a % Cardinality(H)) \in H
    BY <1>5
  <2> QED BY <2>1, <2>2 DEF H
<1> QED BY <1>6, <1>7

\* What an edit has copied stays among what it watched.
LEMMA WatchedOK ==
  ASSUME NEW ed, EditOK(ed), NEW new, NEW x,
         x = [ed EXCEPT !.was = [u \in Urls |-> @[u] \cup {Proxies!Health(new[u])}]]
  PROVE  EditOK(x) /\ \A u \in Urls : Proxies!Health(new[u]) \in x.was[u]
<1> DEFINE W == [u \in Urls |-> ed.was[u] \cup {Proxies!Health(new[u])}]
<1>1. /\ DOMAIN x = EditFields /\ x.pc = ed.pc /\ x.body = ed.body /\ x.todo = ed.todo
      /\ x.clean = ed.clean /\ x.was = W
  BY DEF EditOK, EditFields
<1>2. DOMAIN W = Urls /\ \A u \in Urls : W[u] = ed.was[u] \cup {Proxies!Health(new[u])}
  OBVIOUS
<1> HIDE DEF W
<1>3. EditOK(x)
  BY <1>1, <1>2 DEF EditOK
<1> QED BY <1>1, <1>2, <1>3

\* The list changes: everyone who edits watches it.
LEMMA ChangeInv ==
  ASSUME PoolInv, NEW new, DOMAIN new = Urls, \A u \in Urls : NodeOK(new[u]),
         Proxies!Change(new), DOMAIN binder' = Binders, \A b \in Binders : BinderOK(binder'[b])
  PROVE  PoolInv'
<1>1. nodes' = new /\ (poolFile' = nodes' \/ UNCHANGED poolFile)
  BY DEF Proxies!Change, Proxies!Persist
<1>2. DOMAIN editor' = Editors
  BY DEF Proxies!Change
<1>3. ASSUME NEW e \in Editors PROVE EditOK(editor'[e]) /\ Watches(editor[e])'
  <2>1. CASE editor[e].pc = "idle"
    <3>1. editor'[e] = editor[e]
      BY <2>1 DEF Proxies!Change
    <3> QED BY <2>1, <3>1 DEF PoolInv, Watches
  <2>2. CASE editor[e].pc # "idle"
    <3>1. editor'[e] = [editor[e] EXCEPT
                          !.was = [u \in Urls |-> @[u] \cup {Proxies!Health(new[u])}]]
      BY <2>2 DEF Proxies!Change, Proxies!Watched
    <3>2. EditOK(editor[e])
      BY DEF PoolInv
    <3>3. EditOK(editor'[e]) /\ \A u \in Urls : Proxies!Health(new[u]) \in editor'[e].was[u]
      BY <3>1, <3>2, WatchedOK
    <3> QED BY <1>1, <3>3 DEF Watches
  <2> QED BY <2>1, <2>2
<1> QED BY <1>1, <1>2, <1>3 DEF PoolInv, NodeOK, BinderOK, EditOK

LEMMA FreshOK ==
  /\ NodeOK(Proxies!Gone) /\ Proxies!Health(Proxies!Gone) = <<0, 0, 0>>
  /\ \A on : NodeOK(Proxies!Fresh(on)) /\ Proxies!Health(Proxies!Fresh(on)) = <<0, 0, 0>>
  BY DEF Proxies!Gone, Proxies!Fresh, Proxies!Health, NodeOK

\* A node is taken over with its health.
LEMMA KeptOK ==
  ASSUME NEW u \in Urls, NodeOK(nodes[u]), NEW on
  PROVE  /\ NodeOK(Proxies!Kept(u, on))
         /\ Proxies!Health(Proxies!Kept(u, on)) = Proxies!Health(nodes[u])
<1>1. CASE nodes[u].in
  <2> DEFINE k == [nodes[u] EXCEPT !.enabled = on]
  <2>1. /\ DOMAIN k = {"in", "enabled", "fail", "until", "assigned"} /\ k.in = nodes[u].in
        /\ k.fail = nodes[u].fail /\ k.until = nodes[u].until /\ k.assigned = nodes[u].assigned
    BY DEF NodeOK
  <2>2. Proxies!Kept(u, on) = k
    BY <1>1 DEF Proxies!Kept
  <2> HIDE DEF k
  <2> QED BY <1>1, <2>1, <2>2 DEF NodeOK, Proxies!Health
<1>2. CASE ~nodes[u].in
  BY <1>2, FreshOK DEF Proxies!Kept, NodeOK
<1> QED BY <1>1, <1>2

LEMMA NoEditOK ==
  /\ EditOK(Proxies!NoEdit) /\ EditOK([Proxies!NoEdit EXCEPT !.pc = "done"])
  /\ Proxies!NoEdit.pc = "idle" /\ [Proxies!NoEdit EXCEPT !.pc = "done"].pc = "done"
<1> DEFINE C == [u \in Urls |-> Proxies!Gone]
           W == [u \in Urls |-> {}]
           x == Proxies!NoEdit
           y == [x EXCEPT !.pc = "done"]
<1>1. /\ DOMAIN C = Urls /\ DOMAIN W = Urls /\ \A u \in Urls : NodeOK(C[u])
  BY FreshOK
<1>2. x = [pc |-> "idle", body |-> {}, off |-> {}, todo |-> {}, clean |-> C, was |-> W]
  BY DEF Proxies!NoEdit
<1> HIDE DEF C, W, x
<1>3. DOMAIN x = EditFields /\ x.pc = "idle" /\ x.clean = C /\ x.was = W
  BY <1>2 DEF EditFields
<1>4. DOMAIN y = EditFields /\ y.pc = "done" /\ y.clean = C /\ y.was = W
  BY <1>3 DEF EditFields
<1> HIDE DEF y
<1>5. EditOK(x) /\ EditOK(y)
  BY <1>1, <1>3, <1>4 DEF EditOK
<1> QED BY <1>3, <1>4, <1>5 DEF x, y

\* One edit changes, the list and the jobs do not.
LEMMA EditorTo ==
  ASSUME PoolInv, NEW e \in Editors, UNCHANGED <<nodes, poolFile, binder>>,
         NEW x, editor' = [editor EXCEPT ![e] = x], EditOK(x), Watches(x)
  PROVE  PoolInv'
<1>1. DOMAIN editor' = Editors /\ \A d \in Editors : editor'[d] = IF d = e THEN x ELSE editor[d]
  BY DEF PoolInv
<1>2. \A d \in Editors : EditOK(editor'[d]) /\ Watches(editor[d])'
  BY <1>1 DEF PoolInv, Watches
<1> QED BY <1>1, <1>2 DEF PoolInv, NodeOK, BinderOK, EditOK

LEMMA BeginReplaceInv ==
  ASSUME PoolInv, NEW e \in Editors, Proxies!BeginReplace(e) PROVE PoolInv'
<1>1. PICK body \in SUBSET Urls, off \in SUBSET Urls :
        editor' = [editor EXCEPT ![e] = [Proxies!NoEdit EXCEPT
          !.pc = "copy", !.body = body, !.off = off, !.todo = body,
          !.was = [u \in Urls |-> {Proxies!Health(nodes[u])}]]]
  BY DEF Proxies!BeginReplace
<1> DEFINE W == [u \in Urls |-> {Proxies!Health(nodes[u])}]
           x == [Proxies!NoEdit EXCEPT !.pc = "copy", !.body = body, !.off = off, !.todo = body,
                                       !.was = W]
<1>2. DOMAIN W = Urls /\ \A u \in Urls : Proxies!Health(nodes[u]) \in W[u]
  OBVIOUS
<1> HIDE DEF W
<1>3. EditOK(Proxies!NoEdit)
  BY NoEditOK
<1>4. /\ DOMAIN x = EditFields /\ x.pc = "copy" /\ x.body = body /\ x.todo = body /\ x.was = W
      /\ x.clean = Proxies!NoEdit.clean
  BY <1>3 DEF EditOK, EditFields
<1>5. editor' = [editor EXCEPT ![e] = x] /\ UNCHANGED <<nodes, poolFile, binder>>
  BY <1>1 DEF W, Proxies!BeginReplace
<1> HIDE DEF x
<1>6. EditOK(x) /\ Watches(x)
  BY <1>2, <1>3, <1>4 DEF EditOK, Watches
<1> QED BY <1>5, <1>6, EditorTo

LEMMA CopyHealthInv ==
  ASSUME PoolInv, NEW e \in Editors, Proxies!CopyHealth(e) PROVE PoolInv'
<1>1. EditOK(editor[e]) /\ Watches(editor[e]) /\ editor[e].pc = "copy" /\ DOMAIN editor = Editors
  BY DEF PoolInv, Proxies!CopyHealth
<1>2. PICK u \in editor[e].todo :
        editor' = [editor EXCEPT ![e].todo = @ \ {u},
                                 ![e].clean[u] = Proxies!Kept(u, u \notin editor[e].off)]
  BY DEF Proxies!CopyHealth
<1>3. PICK k : k = Proxies!Kept(u, u \notin editor[e].off)
  OBVIOUS
<1>4. u \in Urls /\ DOMAIN editor[e].clean = Urls
  BY <1>1 DEF EditOK
<1>5. NodeOK(k) /\ Proxies!Health(k) = Proxies!Health(nodes[u])
  BY <1>3, <1>4, KeptOK DEF PoolInv
<1> DEFINE T == editor[e].todo \ {u}
           C == [editor[e].clean EXCEPT ![u] = k]
           x == [[editor[e] EXCEPT !.todo = T] EXCEPT !.clean = C]
<1>6. editor' = [editor EXCEPT ![e] = x] /\ UNCHANGED <<nodes, poolFile, binder>>
  <2>1. DOMAIN editor[e] = EditFields
    BY <1>1 DEF EditOK
  <2> QED BY <1>1, <1>2, <1>3, <2>1 DEF EditFields, Proxies!CopyHealth
<1>7. DOMAIN C = Urls /\ C[u] = k /\ \A v \in Urls : v # u => C[v] = editor[e].clean[v]
  BY <1>4
<1>8. \A v : v \in T <=> v \in editor[e].todo /\ v # u
  OBVIOUS
<1> HIDE DEF T, C
<1>9. /\ DOMAIN x = EditFields /\ x.pc = "copy" /\ x.body = editor[e].body /\ x.todo = T
      /\ x.was = editor[e].was /\ x.clean = C
  BY <1>1 DEF EditOK, EditFields
<1> HIDE DEF x
<1>10. Watches(x)
  BY <1>1, <1>9 DEF Watches
<1>11. EditOK(x)
  <2>1. DOMAIN x.was = Urls /\ x.todo \subseteq Urls /\ x.body \subseteq Urls
    BY <1>1, <1>8, <1>9 DEF EditOK
  <2>2. \A v \in Urls : NodeOK(C[v])
    BY <1>1, <1>5, <1>7 DEF EditOK
  <2>3. ASSUME NEW v \in x.body \ x.todo PROVE Proxies!Health(C[v]) \in x.was[v]
    <3>1. CASE v = u
      BY <1>1, <1>4, <1>5, <1>7, <1>9, <3>1 DEF Watches
    <3>2. CASE v # u
      BY <1>1, <1>7, <1>8, <1>9, <2>1, <3>2 DEF EditOK
    <3> QED BY <3>1, <3>2
  <2> QED BY <1>7, <1>9, <2>1, <2>2, <2>3 DEF EditOK
<1> QED BY <1>6, <1>10, <1>11, EditorTo

LEMMA ReplaceInv ==
  ASSUME PoolInv, NEW e \in Editors, Proxies!Replace(e) PROVE PoolInv'
<1>1. PICK new : new = editor[e].clean
  OBVIOUS
<1>2. /\ nodes' = new /\ (poolFile' = nodes' \/ UNCHANGED poolFile) /\ UNCHANGED binder
      /\ editor[e].pc = "copy"
  BY <1>1 DEF Proxies!Replace, Proxies!Persist
<1>3. DOMAIN new = Urls /\ \A u \in Urls : NodeOK(new[u])
  BY <1>1 DEF PoolInv, EditOK
<1>4. DOMAIN editor' = Editors
  BY DEF Proxies!Replace
<1>5. ASSUME NEW d \in Editors PROVE EditOK(editor'[d]) /\ Watches(editor[d])'
  <2>1. CASE d = e
    <3>1. editor'[d] = [Proxies!NoEdit EXCEPT !.pc = "done"]
      BY <2>1 DEF Proxies!Replace
    <3> QED BY <3>1, NoEditOK DEF Watches
  <2>2. CASE d # e /\ editor[d].pc = "copy"
    <3>1. editor'[d] = [editor[d] EXCEPT
                          !.was = [u \in Urls |-> @[u] \cup {Proxies!Health(new[u])}]]
      BY <1>2, <2>2 DEF Proxies!Replace, Proxies!Watched
    <3>2. EditOK(editor[d])
      BY DEF PoolInv
    <3>3. EditOK(editor'[d]) /\ \A u \in Urls : Proxies!Health(new[u]) \in editor'[d].was[u]
      BY <3>1, <3>2, WatchedOK
    <3> QED BY <1>2, <3>3 DEF Watches
  <2>3. CASE d # e /\ editor[d].pc # "copy"
    <3>1. editor'[d] = editor[d]
      BY <2>3 DEF Proxies!Replace
    <3> QED BY <2>3, <3>1 DEF PoolInv, Watches
  <2> QED BY <2>1, <2>2, <2>3
<1> QED BY <1>2, <1>3, <1>4, <1>5 DEF PoolInv, NodeOK, BinderOK, EditOK

LEMMA RestingOK == BinderOK(Proxies!Resting) /\ BinderOK([Proxies!Resting EXCEPT !.pc = "done"])
  BY DEF BinderOK, Proxies!Resting

\* The job goes on with the rows it has left.
LEMMA AfterOK == ASSUME NEW j, BinderOK(j), j.todo \subseteq Accts PROVE BinderOK(Proxies!After(j))
<1> DEFINE rest == j.todo \ {Proxies!FirstOf(j.todo)}
           x == [j EXCEPT !.todo = rest, !.url = NoProxy, !.pc = "pick"]
<1>1. CASE rest = {}
  BY <1>1, RestingOK DEF Proxies!After
<1>2. CASE rest # {}
  <2>1. Proxies!After(j) = x
    BY <1>2 DEF Proxies!After
  <2>2. rest \subseteq Accts
    OBVIOUS
  <2> HIDE DEF rest
  <2>3. DOMAIN x = {"pc", "todo", "url", "dry", "least"} /\ x.todo = rest
    BY DEF BinderOK
  <2> HIDE DEF x
  <2> QED BY <1>2, <2>1, <2>2, <2>3 DEF BinderOK
<1> QED BY <1>1, <1>2

\* One job changes, the list and the edits do not.
LEMMA BinderTo ==
  ASSUME PoolInv, NEW b \in Binders, UNCHANGED <<nodes, poolFile, editor>>,
         NEW x, binder' = [binder EXCEPT ![b] = x], BinderOK(x)
  PROVE  PoolInv'
<1>1. DOMAIN binder' = Binders /\ \A d \in Binders : binder'[d] = IF d = b THEN x ELSE binder[d]
  BY DEF PoolInv
<1>2. \A d \in Binders : BinderOK(binder'[d])
  BY <1>1 DEF PoolInv
<1> QED BY <1>1, <1>2 DEF PoolInv, NodeOK, BinderOK, EditOK, Watches

LEMMA ReadRowsInv == ASSUME PoolInv, NEW b \in Binders, Proxies!ReadRows(b) PROVE PoolInv'
<1>1. PICK rows \in SUBSET Proxies!Unbound, dry \in BOOLEAN, least \in BOOLEAN :
        /\ rows # {}
        /\ binder' = [binder EXCEPT ![b] = [pc |-> "pick", todo |-> rows, url |-> NoProxy,
                                            dry |-> dry, least |-> least]]
  BY DEF Proxies!ReadRows
<1> DEFINE x == [pc |-> "pick", todo |-> rows, url |-> NoProxy, dry |-> dry, least |-> least]
<1>2. BinderOK(x)
  BY <1>1 DEF BinderOK, Proxies!Unbound
<1>3. UNCHANGED <<nodes, poolFile, editor>>
  BY DEF Proxies!ReadRows
<1> HIDE DEF x
<1> QED BY <1>1, <1>2, <1>3, BinderTo DEF x

LEMMA FirstOfNat == ASSUME NEW S \in SUBSET Accts, S # {} PROVE Proxies!FirstOf(S) \in S
<1>1. \E a \in S : \A c \in S : a <= c
  BY LeastThere, ProxiesAssumption
<1> QED BY <1>1 DEF Proxies!FirstOf

LEMMA PickProxyInv == ASSUME PoolInv, NEW b \in Binders, Proxies!PickProxy(b) PROVE PoolInv'
<1>1. PICK job : job = binder[b]
  OBVIOUS
<1>2. BinderOK(job) /\ job.pc = "pick" /\ DOMAIN binder = Binders
  BY <1>1 DEF PoolInv, Proxies!PickProxy
<1>3. BinderOK(Proxies!After(job))
  BY <1>2, AfterOK DEF BinderOK
<1>4. CASE Proxies!Healthy = {}
  BY <1>1, <1>3, <1>4, BinderTo DEF Proxies!PickProxy
<1>5. CASE Proxies!Healthy # {}
  <2>1. PICK a \in Nat : a = Proxies!FirstOf(job.todo)
    BY <1>2, FirstOfNat, ProxiesAssumption DEF BinderOK
  <2>2. PICK u \in Proxies!Healthy : u = Proxies!Chosen(a, job.least)
    BY <1>5, ChosenHealthy
  <2> DEFINE n == [nodes[u] EXCEPT !.assigned = @ + 1]
             new == [nodes EXCEPT ![u] = n]
  <2>3. /\ Proxies!Change([nodes EXCEPT ![u].assigned = @ + 1])
        /\ binder' = IF job.dry THEN [binder EXCEPT ![b] = Proxies!After(job)]
                     ELSE [binder EXCEPT ![b].url = u, ![b].pc = "bind"]
    BY <1>1, <1>5, <2>1, <2>2 DEF Proxies!PickProxy
  <2>4. u \in Urls /\ nodes[u].in /\ NodeOK(nodes[u]) /\ DOMAIN nodes = Urls
    BY DEF PoolInv, Proxies!Healthy
  <2>5. NodeOK(n)
    BY <2>4 DEF NodeOK
  <2>6. Proxies!Change(new)
    BY <2>3
  <2> HIDE DEF n
  <2>7. DOMAIN new = Urls /\ \A v \in Urls : NodeOK(new[v])
    BY <2>4, <2>5 DEF PoolInv
  <2> HIDE DEF new
  <2>8. DOMAIN binder' = Binders /\ \A d \in Binders : BinderOK(binder'[d])
    <3>1. CASE job.dry
      <4>1. binder' = [binder EXCEPT ![b] = Proxies!After(job)]
        BY <2>3, <3>1
      <4> QED BY <1>2, <1>3, <4>1 DEF PoolInv
    <3>2. CASE ~job.dry
      <4> DEFINE x == [[binder[b] EXCEPT !.url = u] EXCEPT !.pc = "bind"]
      <4>1. binder' = [binder EXCEPT ![b] = x]
        <5>1. DOMAIN binder[b] = {"pc", "todo", "url", "dry", "least"}
          BY <1>1, <1>2 DEF BinderOK
        <5> QED BY <1>2, <2>3, <3>2, <5>1
      <4>2. DOMAIN x = {"pc", "todo", "url", "dry", "least"} /\ x.todo = job.todo
        BY <1>1, <1>2 DEF BinderOK
      <4> HIDE DEF x
      <4>3. BinderOK(x)
        BY <1>2, <4>2 DEF BinderOK
      <4> QED BY <1>2, <4>1, <4>3 DEF PoolInv
    <3> QED BY <3>1, <3>2
  <2> QED BY <2>6, <2>7, <2>8, ChangeInv
<1> QED BY <1>4, <1>5

LEMMA BindInv ==
  ASSUME PoolInv, NEW b \in Binders, Proxies!BindProxy(b) \/ Proxies!PromoteProxy(b) PROVE PoolInv'
<1>1. /\ UNCHANGED <<nodes, poolFile, editor>> /\ binder[b].pc \in {"bind", "hot"}
      /\ \/ binder' = [binder EXCEPT ![b] = Proxies!After(binder[b])]
         \/ binder' = [binder EXCEPT ![b].pc = "hot"]
  BY DEF Proxies!BindProxy, Proxies!PromoteProxy, PoolInv
<1>2. BinderOK(binder[b]) /\ binder[b].todo \subseteq Accts /\ binder[b].todo # {}
  BY <1>1 DEF PoolInv, BinderOK
<1>3. CASE binder' = [binder EXCEPT ![b] = Proxies!After(binder[b])]
  BY <1>1, <1>2, <1>3, AfterOK, BinderTo
<1>4. CASE binder' = [binder EXCEPT ![b].pc = "hot"]
  <2> DEFINE x == [binder[b] EXCEPT !.pc = "hot"]
  <2>1. DOMAIN x = {"pc", "todo", "url", "dry", "least"} /\ x.todo = binder[b].todo
    BY <1>2 DEF BinderOK
  <2>2. binder' = [binder EXCEPT ![b] = x]
    BY <1>4
  <2> HIDE DEF x
  <2>3. BinderOK(x)
    BY <1>2, <2>1 DEF BinderOK
  <2> QED BY <1>1, <2>2, <2>3, BinderTo
<1> QED BY <1>1, <1>3, <1>4

LEMMA MarkFailInv == ASSUME PoolInv, NEW u \in Urls, Proxies!MarkFail(u) PROVE PoolInv'
<1>1. NodeOK(nodes[u]) /\ nodes[u].in /\ DOMAIN nodes = Urls /\ UNCHANGED binder
  BY DEF PoolInv, Proxies!MarkFail
<1>2. PICK t : t = now + Proxies!Cooldown(nodes[u].fail + 1)
  OBVIOUS
<1> DEFINE n == [[nodes[u] EXCEPT !.fail = @ + 1] EXCEPT !.until = t]
           new == [nodes EXCEPT ![u] = n]
<1>3. Proxies!Change([nodes EXCEPT ![u].fail = @ + 1, ![u].until = t])
  BY <1>2 DEF Proxies!MarkFail
<1>4. [nodes EXCEPT ![u].fail = @ + 1, ![u].until = t] = new
  BY <1>1 DEF NodeOK
<1>5. Proxies!Change(new)
  BY <1>3, <1>4
<1>6. NodeOK(n)
  BY <1>1 DEF NodeOK
<1> HIDE DEF n
<1>7. DOMAIN new = Urls /\ \A v \in Urls : NodeOK(new[v])
  BY <1>1, <1>6 DEF PoolInv
<1> HIDE DEF new
<1>8. DOMAIN binder' = Binders /\ \A b \in Binders : BinderOK(binder'[b])
  BY <1>1 DEF PoolInv
<1> QED BY <1>5, <1>7, <1>8, ChangeInv

LEMMA RestartInv == ASSUME PoolInv, Proxies!Restart PROVE PoolInv'
<1>1. /\ nodes' = poolFile /\ UNCHANGED poolFile
      /\ DOMAIN binder' = Binders /\ DOMAIN editor' = Editors
      /\ \A b \in Binders : binder'[b] = [Proxies!Resting EXCEPT !.pc = "done"]
      /\ \A e \in Editors : editor'[e] = [Proxies!NoEdit EXCEPT !.pc = "done"]
  BY DEF Proxies!Restart
<1>2. \A b \in Binders : BinderOK(binder'[b])
  BY <1>1, RestingOK
<1>3. \A e \in Editors : EditOK(editor'[e]) /\ editor'[e].pc = "done"
  BY <1>1, NoEditOK
<1>4. \A e \in Editors : Watches(editor[e])'
  BY <1>3 DEF Watches
<1> QED BY <1>1, <1>2, <1>3, <1>4 DEF PoolInv, NodeOK, BinderOK, EditOK

LEMMA PoolStarts == Proxies!Init => PoolInv
<1> SUFFICES ASSUME Proxies!Init PROVE PoolInv
  OBVIOUS
<1>1. /\ \A u \in Urls : NodeOK(nodes[u]) /\ NodeOK(poolFile[u])
      /\ DOMAIN nodes = Urls /\ DOMAIN poolFile = Urls
  BY FreshOK DEF Proxies!Init
<1>2. DOMAIN editor = Editors /\ \A e \in Editors : EditOK(editor[e]) /\ Watches(editor[e])
  BY NoEditOK DEF Proxies!Init, Watches
<1>3. DOMAIN binder = Binders /\ \A b \in Binders : BinderOK(binder[b])
  BY RestingOK DEF Proxies!Init
<1> QED BY <1>1, <1>2, <1>3 DEF PoolInv

LEMMA PoolStep == PoolInv /\ [Proxies!PoolNext]_proxyVars => PoolInv'
<1>1. ASSUME PoolInv, Proxies!Tick \/ UNCHANGED proxyVars PROVE PoolInv'
  <2>1. UNCHANGED <<nodes, poolFile, editor, binder>>
    BY <1>1 DEF Proxies!Tick, proxyVars
  <2> QED BY <1>1, <2>1 DEF PoolInv, NodeOK, BinderOK, EditOK, Watches
<1> QED BY <1>1, BeginReplaceInv, CopyHealthInv, ReplaceInv, ReadRowsInv, PickProxyInv, BindInv,
           MarkFailInv, RestartInv DEF Proxies!PoolNext

\* Saving the list of proxies does not forgive a node (pool.go, ReplaceAll): the health a
\* node has after it is one it had while the list was being saved, for any list, editors,
\* binders, failures and restarts.
THEOREM HealthAlwaysKept == ConsoleSpec => HealthKept
<1>1. ConsoleInit => PoolInv
  BY PoolStarts DEF ConsoleInit
<1>2. PoolInv /\ [ConsoleNext]_consoleVars => PoolInv'
  <2>1. [ConsoleNext]_consoleVars => [Proxies!PoolNext]_proxyVars
    BY DEF ConsoleNext, consoleVars, proxyVars
  <2> QED BY <2>1, PoolStep
<1>3. PoolInv /\ [ConsoleNext]_consoleVars =>
        [\A e \in Editors : Proxies!Replace(e) => \A u \in editor[e].body :
           nodes[u].in => Proxies!Health(nodes'[u]) \in editor[e].was[u]]_(Proxies!poolVars)
  <2> SUFFICES ASSUME PoolInv, NEW e \in Editors, Proxies!Replace(e), NEW u \in editor[e].body
               PROVE  Proxies!Health(nodes'[u]) \in editor[e].was[u]
    OBVIOUS
  <2>1. editor[e].pc = "copy" /\ editor[e].todo = {} /\ nodes' = editor[e].clean
    BY DEF Proxies!Replace
  <2>2. EditOK(editor[e])
    BY DEF PoolInv
  <2> QED BY <2>1, <2>2 DEF EditOK
<1> QED BY <1>1, <1>2, <1>3, PTL DEF ConsoleSpec, HealthKept, Proxies!HealthKept

-----------------------------------------------------------------------------
(* The limit on the entries of an import (ImportDocuments).                *)

\* A set that has 0, and the successor of each of its numbers, has every number.
LEMMA Induction ==
  ASSUME NEW T \in SUBSET Nat, 0 \in T, \A n \in T : n + 1 \in T
  PROVE  T = Nat
<1> DEFINE Less == {q \in Nat \X Nat : q[1] < q[2]}
           Missed == Nat \ T
<1>1. IsWellFoundedOn(Less, Nat)
  BY NatLessThanWellFounded DEF OpToRel
<1>2. \A x, y \in Nat : <<y, x>> \in Less <=> y < x
  OBVIOUS
<1> HIDE DEF Less
<1>3. ASSUME Missed # {} PROVE FALSE
  <2>1. PICK x \in Missed : \A y \in Missed : ~(<<y, x>> \in Less)
    BY <1>1, <1>3, WFMin
  <2>2. x \in Nat /\ x # 0 /\ x - 1 \in Nat /\ x - 1 < x
    OBVIOUS
  <2>3. x - 1 \in T
    BY <1>2, <2>1, <2>2
  <2> QED BY <2>2, <2>3
<1> QED BY <1>3

\* f goes from base by the steps of F.
Folds(f, n, base, F) ==
  DOMAIN f = 0 .. n /\ f[0] = base /\ \A i \in 1 .. n : f[i] = F[<<f[i - 1], i>>]

\* There is a function of prefixes for every step that stays in a set.
LEMMA FoldExists ==
  ASSUME NEW S, NEW base \in S, NEW n \in Nat, NEW F \in [S \X (1 .. n) -> S]
  PROVE  \E f \in [0 .. n -> S] : Folds(f, n, base, F)
<1> DEFINE Some(m) == \E f \in [0 .. m -> S] : Folds(f, m, base, F)
           T == {m \in Nat : m <= n => Some(m)}
<1>1. Some(0)
  <2> DEFINE f == [i \in 0 .. 0 |-> base]
  <2>1. f \in [0 .. 0 -> S] /\ Folds(f, 0, base, F)
    BY DEF Folds
  <2> HIDE DEF f
  <2> QED BY <2>1
<1>2. ASSUME NEW m \in Nat, m + 1 <= n, Some(m) PROVE Some(m + 1)
  <2>1. PICK f \in [0 .. m -> S] : Folds(f, m, base, F)
    BY <1>2
  <2> DEFINE next == F[<<f[m], m + 1>>]
             g == [i \in 0 .. m + 1 |-> IF i = m + 1 THEN next ELSE f[i]]
  <2>2. f[m] \in S /\ m + 1 \in 1 .. n
    BY <1>2
  <2>3. next \in S
    BY <2>2
  <2> HIDE DEF next
  <2>4. g \in [0 .. m + 1 -> S] /\ DOMAIN g = 0 .. m + 1
    BY <2>3
  <2>5. (\A i \in 0 .. m : g[i] = f[i]) /\ g[m + 1] = next
    OBVIOUS
  <2> HIDE DEF g
  <2>6. ASSUME NEW i \in 1 .. m + 1 PROVE g[i] = F[<<g[i - 1], i>>]
    <3>1. CASE i = m + 1
      <4>1. g[i - 1] = f[m]
        BY <2>5, <3>1
      <4> QED BY <2>5, <3>1, <4>1 DEF next
    <3>2. CASE i # m + 1
      <4>1. i \in 1 .. m /\ i \in 0 .. m /\ i - 1 \in 0 .. m
        BY <3>2
      <4>2. f[i] = F[<<f[i - 1], i>>]
        BY <2>1, <4>1 DEF Folds
      <4> QED BY <2>5, <4>1, <4>2
    <3> QED BY <3>1, <3>2
  <2>7. g[0] = base
    BY <2>1, <2>5 DEF Folds
  <2>8. Folds(g, m + 1, base, F)
    BY <2>4, <2>6, <2>7 DEF Folds
  <2> QED BY <2>4, <2>8
<1> HIDE DEF Some
<1>3. 0 \in T /\ T \in SUBSET Nat
  BY <1>1
<1>4. ASSUME NEW m \in T PROVE m + 1 \in T
  BY <1>2
<1> HIDE DEF T
<1>5. T = Nat
  BY <1>3, <1>4, Induction
<1>6. Some(n)
  BY <1>5 DEF T
<1> QED BY <1>6 DEF Some

\* What holds at first and is kept by every step holds on all the way.
LEMMA Climbs ==
  ASSUME NEW n \in Nat, NEW G, NEW f, <<0, f[0]>> \in G,
         \A i \in 1 .. n : <<i - 1, f[i - 1]>> \in G => <<i, f[i]>> \in G
  PROVE  \A i \in 0 .. n : <<i, f[i]>> \in G
<1> DEFINE T == {m \in Nat : m <= n => <<m, f[m]>> \in G}
<1>1. 0 \in T /\ T \in SUBSET Nat
  OBVIOUS
<1>2. ASSUME NEW m \in T PROVE m + 1 \in T
  <2>1. CASE m + 1 <= n
    <3>1. m + 1 \in 1 .. n /\ (m + 1) - 1 = m /\ <<m, f[m]>> \in G
      BY <2>1
    <3> DEFINE k == m + 1
    <3>2. k \in 1 .. n /\ <<k - 1, f[k - 1]>> \in G
      BY <3>1
    <3> HIDE DEF k
    <3>3. <<k, f[k]>> \in G
      BY <3>2
    <3> QED BY <3>3 DEF k
  <2>2. CASE ~(m + 1 <= n)
    BY <2>2
  <2> QED BY <2>1, <2>2
<1> HIDE DEF T
<1>3. T = Nat
  BY <1>1, <1>2, Induction
<1> QED BY <1>3 DEF T

-----------------------------------------------------------------------------
(* Joining results.                                                        *)

Results == [ok : BOOLEAN, n : Nat]

LEMMA ResultsAre ==
  /\ Refused \in Results /\ ~Refused.ok /\ Refused.n = 0
  /\ \A n \in Nat : Parsed(n) \in Results /\ Parsed(n).ok /\ Parsed(n).n = n
  /\ \A r \in Results : r.ok \in BOOLEAN /\ r.n \in Nat
  BY DEF Refused, Parsed, Results

LEMMA JoinIs ==
  ASSUME NEW r \in Results, NEW s \in Results
  PROVE  /\ Join(r, s) \in Results
         /\ Join(r, s).ok <=> r.ok /\ s.ok
         /\ Join(r, s).ok => Join(r, s).n = r.n + s.n
         /\ ~Join(r, s).ok => Join(r, s).n = 0
  BY ResultsAre DEF Join

\* f joins the first of the results.
Joins(f, rs) ==
  /\ f \in [0 .. Len(rs) -> Results] /\ f[0] = Parsed(0)
  /\ \A i \in 1 .. Len(rs) : f[i] = Join(f[i - 1], rs[i])

LEMMA JoinAllIs ==
  ASSUME NEW rs, Len(rs) \in Nat, \A i \in 1 .. Len(rs) : rs[i] \in Results
  PROVE  \E f : Joins(f, rs) /\ JoinAll(rs) = f[Len(rs)]
<1> DEFINE n == Len(rs)
           F == [q \in Results \X (1 .. n) |-> Join(q[1], rs[q[2]])]
           Is(f) == f = [i \in 0 .. n |-> IF i = 0 THEN Parsed(0) ELSE Join(f[i - 1], rs[i])]
           f == CHOOSE f : Is(f)
<1>1. F \in [Results \X (1 .. n) -> Results]
  BY JoinIs
<1>2. \A r \in Results : \A i \in 1 .. n : F[<<r, i>>] = Join(r, rs[i])
  OBVIOUS
<1> HIDE DEF F
<1>3. Parsed(0) \in Results
  BY ResultsAre
<1>4. PICK g \in [0 .. n -> Results] : Folds(g, n, Parsed(0), F)
  BY <1>1, <1>3, FoldExists
<1>5. ASSUME NEW i \in 0 .. n PROVE g[i] = IF i = 0 THEN Parsed(0) ELSE Join(g[i - 1], rs[i])
  <2>1. i # 0 => i \in 1 .. n /\ i - 1 \in 0 .. n
    OBVIOUS
  <2> QED BY <1>2, <1>4, <2>1 DEF Folds
<1>6. Is(g)
  BY <1>5
<1>7. Is(f)
  BY <1>6
<1>8. JoinAll(rs) = f[n]
  BY DEF JoinAll
<1> HIDE DEF f
<1>9. \A i \in 0 .. n : f[i] = IF i = 0 THEN Parsed(0) ELSE Join(f[i - 1], rs[i])
  BY <1>7, Zenon
<1>10. DOMAIN f = 0 .. n /\ f = [i \in 0 .. n |-> f[i]]
  BY <1>7
<1> DEFINE G == {q \in Nat \X Results : TRUE}
<1>11. \A i \in 0 .. n : <<i, f[i]>> \in G
  <2>1. <<0, f[0]>> \in G
    BY <1>3, <1>9
  <2>2. ASSUME NEW i \in 1 .. n, <<i - 1, f[i - 1]>> \in G PROVE <<i, f[i]>> \in G
    <3>1. f[i - 1] \in Results /\ f[i] = Join(f[i - 1], rs[i])
      BY <1>9, <2>2
    <3> QED BY <3>1, JoinIs
  <2> HIDE DEF G
  <2> QED BY <2>1, <2>2, Climbs
<1>12. f \in [0 .. n -> Results]
  BY <1>10, <1>11
<1>13. Joins(f, rs)
  BY <1>9, <1>12 DEF Joins
<1> QED BY <1>8, <1>13

\* An entry that is good counts for one.
LEMMA EntryIs ==
  ASSUME NEW e
  PROVE  /\ ParseEntry(e) \in Results
         /\ ParseEntry(e).ok => ParseEntry(e).n = 1 /\ HasToken(e) /\ Decodes(e)
<1>1. 1 \in Nat
  OBVIOUS
<1>2. CASE Decodes(e) /\ HasToken(e) /\ ValidCPAType(e) /\ Normalizes(e)
  <2>1. ParseEntry(e) = Parsed(1)
    BY <1>2 DEF ParseEntry
  <2> QED BY <1>1, <1>2, <2>1, ResultsAre
<1>3. CASE ~(Decodes(e) /\ HasToken(e) /\ ValidCPAType(e) /\ Normalizes(e))
  <2>1. ParseEntry(e) = Refused
    BY <1>3 DEF ParseEntry
  <2> QED BY <2>1, ResultsAre
<1> QED BY <1>2, <1>3

\* Good results in a row: each was good, and so was what came before.
LEMMA JoinsBack ==
  ASSUME NEW rs, Len(rs) \in Nat, \A i \in 1 .. Len(rs) : rs[i] \in Results,
         NEW f, Joins(f, rs), NEW i \in 1 .. Len(rs), f[i].ok
  PROVE  /\ f[i - 1].ok /\ rs[i].ok /\ f[i].n = f[i - 1].n + rs[i].n
         /\ f[i - 1].n \in Nat /\ rs[i].n \in Nat
<1>1. i - 1 \in 0 .. Len(rs) /\ f[i - 1] \in Results /\ rs[i] \in Results
  BY DEF Joins
<1>2. f[i] = Join(f[i - 1], rs[i])
  BY DEF Joins
<1> QED BY <1>1, <1>2, JoinIs, ResultsAre

\* An array that is good has as many entries as it has items.
LEMMA ArrayIs ==
  ASSUME NEW items \in Seq(Entries)
  PROVE  /\ ParseArray(items) \in Results
         /\ ParseArray(items).ok => ParseArray(items).n = Len(items) /\ Len(items) > 0
<1> DEFINE n == Len(items)
           rs == [i \in 1 .. n |-> ParseEntry(items[i])]
<1>1. n \in Nat /\ (items = <<>> <=> n = 0)
  OBVIOUS
<1>2. CASE items = <<>>
  BY <1>2, ResultsAre DEF ParseArray
<1>3. CASE items # <<>>
  <2>1. ParseArray(items) = JoinAll(rs)
    BY <1>3 DEF ParseArray
  <2>2. Len(rs) = n /\ \A i \in 1 .. n : rs[i] = ParseEntry(items[i])
    BY <1>1
  <2>3. \A i \in 1 .. n : rs[i] \in Results /\ (rs[i].ok => rs[i].n = 1)
    BY <2>2, EntryIs
  <2> HIDE DEF rs, n
  <2>4. PICK f : Joins(f, rs) /\ JoinAll(rs) = f[n]
    BY <1>1, <2>2, <2>3, JoinAllIs
  <2> DEFINE G == {q \in Nat \X Results : q[2].ok => q[2].n = q[1]}
  <2>5. \A i \in 0 .. n : f[i] \in Results
    BY <2>2, <2>4 DEF Joins
  <2>6. f[0] = Parsed(0)
    BY <2>4 DEF Joins
  <2>7. <<0, f[0]>> \in G
    BY <2>6, ResultsAre
  <2>8. ASSUME NEW i \in 1 .. n, <<i - 1, f[i - 1]>> \in G PROVE <<i, f[i]>> \in G
    <3>1. i \in Nat /\ i \in 0 .. n /\ f[i] \in Results
      BY <1>1, <2>5
    <3>2. CASE f[i].ok
      <4>1. f[i - 1].ok /\ rs[i].ok /\ f[i].n = f[i - 1].n + rs[i].n
        BY <1>1, <2>2, <2>3, <2>4, <3>2, JoinsBack
      <4>2. f[i - 1].n = i - 1 /\ rs[i].n = 1
        BY <2>3, <2>8, <4>1
      <4> QED BY <3>1, <4>1, <4>2
    <3> QED BY <3>1, <3>2
  <2> HIDE DEF G
  <2>9. \A i \in 0 .. n : <<i, f[i]>> \in G
    BY <1>1, <2>7, <2>8, Climbs
  <2>10. f[n] \in Results /\ (f[n].ok => f[n].n = n)
    <3>1. n \in 0 .. n
      BY <1>1
    <3> QED BY <2>9, <3>1 DEF G
  <2> QED BY <1>1, <1>3, <2>1, <2>4, <2>10 DEF n
<1> QED BY <1>2, <1>3

OddMember(m) == m.is = "entry" /\ OddEntry(m.entry)

\* What a count may be of which the parsing will find found: it says that there are too
\* many, or at least what will be found; exactly that unless excused.
Counts(count, found, most, excused) ==
  /\ count = Beyond \/ (count \in Nat /\ found <= count /\ count <= most)
  /\ ~excused => IF count = Beyond THEN found > most ELSE count = found

\* A good member adds to the count as it adds to the entries.
LEMMA MemberCounts ==
  ASSUME NEW m \in Members, ParseMember(m).ok, NEW most \in Nat, NEW count \in 0 .. most
  PROVE  LET more == CountMember(count, m, most)
             r == ParseMember(m)
         IN  /\ r.n \in Nat
             /\ more = Beyond \/ (more \in count + r.n .. most)
             /\ ~OddMember(m) => IF more = Beyond THEN count + r.n > most ELSE more = count + r.n
<1> DEFINE more == CountMember(count, m, most)
           r == ParseMember(m)
<1>1. CASE IsList(m)
  <2>1. m.is = "array" /\ r = ParseArray(m.items)
    BY <1>1, ResultsAre DEF ParseMember
  <2>2. m.items \in Seq(Entries)
    BY <2>1 DEF Members
  <2>3. r.n = Len(m.items) /\ Len(m.items) \in Nat
    BY <2>1, <2>2, ArrayIs
  <2>4. more = IF Len(m.items) > most - count THEN Beyond ELSE count + Len(m.items)
    BY <1>1, <2>1 DEF CountMember
  <2> HIDE DEF more, r
  <2> QED BY <2>3, <2>4 DEF more, r, Beyond
<1>2. CASE ~IsList(m) /\ m.is # "entry"
  <2>1. r.n = 0 /\ more = count
    BY <1>2, ResultsAre DEF ParseMember, CountMember
  <2> QED BY <1>2, <2>1 DEF Beyond
<1>3. CASE ~IsList(m) /\ m.is = "entry"
  <2>1. Decodes(m.entry)
    BY <1>3, ResultsAre DEF ParseMember
  <2>2. CASE HasToken(m.entry)
    <3>1. r = ParseEntry(m.entry) /\ RawHasToken(m.entry)
      BY <1>3, <2>1, <2>2 DEF ParseMember, RawHasToken
    <3>2. r.n = 1
      BY <3>1, EntryIs
    <3>3. more = IF count + 1 > most THEN Beyond ELSE count + 1
      BY <1>3, <3>1 DEF CountMember
    <3> HIDE DEF more, r
    <3> QED BY <3>2, <3>3 DEF more, r, Beyond
  <2>3. CASE ~HasToken(m.entry)
    <3>1. r = Parsed(0) /\ (RawHasToken(m.entry) <=> OddMember(m))
      BY <1>3, <2>1, <2>3 DEF ParseMember, RawHasToken, OddMember, OddEntry
    <3>2. r.n = 0
      BY <3>1, ResultsAre
    <3>3. more = IF OddMember(m) THEN (IF count + 1 > most THEN Beyond ELSE count + 1) ELSE count
      BY <1>3, <3>1 DEF CountMember
    <3> HIDE DEF more, r
    <3> QED BY <3>2, <3>3 DEF more, r, Beyond
  <2> QED BY <2>2, <2>3
<1> QED BY <1>1, <1>2, <1>3

LEMMA MemberIs ==
  ASSUME NEW m \in Members
  PROVE  ParseMember(m) \in Results
<1>1. m.is = "array" => m.items \in Seq(Entries)
  BY DEF Members
<1>2. m.is = "array" => ParseArray(m.items) \in Results
  BY <1>1, ArrayIs
<1>3. m.is = "entry" => ParseEntry(m.entry) \in Results
  BY EntryIs
<1>4. ParseMember(m) \in {Refused, Parsed(0)} \/ (m.is = "array" /\ ParseMember(m) = ParseArray(m.items))
      \/ (m.is = "entry" /\ ParseMember(m) = ParseEntry(m.entry))
  BY DEF ParseMember
<1> QED BY <1>2, <1>3, <1>4, ResultsAre

\* c counts the first of the members.
CountsMembers(c, members, most) ==
  /\ c \in [0 .. Len(members) -> Int] /\ c[0] = 0
  /\ \A i \in 1 .. Len(members) : c[i] = CountNext(c[i - 1], members, i, most)

LEMMA CountNextTyped ==
  ASSUME NEW members \in Seq(Members), NEW i \in 1 .. Len(members), NEW most \in Nat, NEW count \in Int
  PROVE  CountNext(count, members, i, most) \in Int
<1>1. members[i] \in Members
  OBVIOUS
<1>2. members[i].is = "array" => Len(members[i].items) \in Int
  BY <1>1 DEF Members
<1>3. CountMember(count, members[i], most) \in Int
  BY <1>2 DEF CountMember, Beyond, Malformed
<1> QED BY <1>3 DEF CountNext, Beyond

LEMMA CountMapIs ==
  ASSUME NEW members \in Seq(Members), NEW most \in Nat
  PROVE  \E c : CountsMembers(c, members, most) /\ CountMap(members, most) = c[Len(members)]
<1> DEFINE n == Len(members)
           F == [q \in Int \X (1 .. n) |-> CountNext(q[1], members, q[2], most)]
           Is(c) == c = [i \in 0 .. n |-> IF i = 0 THEN 0 ELSE CountNext(c[i - 1], members, i, most)]
           c == CHOOSE c : Is(c)
<1>1. F \in [Int \X (1 .. n) -> Int]
  BY CountNextTyped
<1>2. \A r \in Int : \A i \in 1 .. n : F[<<r, i>>] = CountNext(r, members, i, most)
  OBVIOUS
<1> HIDE DEF F
<1>3. n \in Nat /\ 0 \in Int
  OBVIOUS
<1>4. PICK g \in [0 .. n -> Int] : Folds(g, n, 0, F)
  BY <1>1, <1>3, FoldExists
<1>5. ASSUME NEW i \in 0 .. n PROVE g[i] = IF i = 0 THEN 0 ELSE CountNext(g[i - 1], members, i, most)
  <2>1. i # 0 => i \in 1 .. n /\ i - 1 \in 0 .. n
    BY <1>3
  <2> HIDE DEF n
  <2> QED BY <1>2, <1>4, <2>1 DEF Folds
<1>6. Is(g)
  <2> HIDE DEF n
  <2> QED BY <1>5
<1>7. Is(c)
  BY <1>6
<1>8. CountMap(members, most) = c[n]
  BY DEF CountMap
<1> HIDE DEF c
<1>9. \A i \in 0 .. n : c[i] = IF i = 0 THEN 0 ELSE CountNext(c[i - 1], members, i, most)
  BY <1>7, Zenon
<1>10. DOMAIN c = 0 .. n /\ c = [i \in 0 .. n |-> c[i]]
  BY <1>7
<1> DEFINE G == {q \in Nat \X Int : TRUE}
<1>11. \A i \in 0 .. n : <<i, c[i]>> \in G
  <2>1. <<0, c[0]>> \in G
    BY <1>3, <1>9
  <2>2. ASSUME NEW i \in 1 .. n, <<i - 1, c[i - 1]>> \in G PROVE <<i, c[i]>> \in G
    <3>1. c[i - 1] \in Int /\ c[i] = CountNext(c[i - 1], members, i, most)
      BY <1>9, <2>2
    <3>2. CountNext(c[i - 1], members, i, most) \in Int
      BY <3>1, CountNextTyped
    <3>3. c[i] \in Int /\ i \in Nat
      BY <1>3, <3>1, <3>2
    <3> HIDE DEF n
    <3> QED BY <3>3
  <2> HIDE DEF G, n
  <2> QED BY <1>3, <2>1, <2>2, Climbs
<1>12. c \in [0 .. n -> Int]
  BY <1>10, <1>11
<1>13. CountsMembers(c, members, most)
  BY <1>9, <1>12 DEF CountsMembers
<1> QED BY <1>8, <1>13

\* One step of both passes over an object.
LEMMA CountsStep ==
  ASSUME NEW members \in Seq(Members), NEW i \in 1 .. Len(members), NEW most \in Nat, MaxWarnings \in Nat,
         ParseMember(members[i]).ok, NEW found \in Nat, NEW count \in Int, NEW excused,
         Counts(count, found, most, excused),
         ~excused => Len(members) <= MaxWarnings /\ ~OddMember(members[i])
  PROVE  Counts(CountNext(count, members, i, most), found + ParseMember(members[i]).n, most, excused)
<1> DEFINE m == members[i]
           r == ParseMember(m)
           more == CountNext(count, members, i, most)
<1>1. m \in Members /\ Len(members) \in Nat
  OBVIOUS
<1>2. r.n \in Nat
  BY <1>1, MemberIs, ResultsAre
<1>3. CASE count = Beyond
  <2>1. more = Beyond
    BY <1>3 DEF CountNext, Beyond
  <2> HIDE DEF more, r
  <2> QED BY <1>2, <1>3, <2>1 DEF Counts, r, more
<1>4. CASE count # Beyond
  <2>1. count \in 0 .. most /\ found <= count
    BY <1>4 DEF Counts
  <2>2. CASE i > most + MaxWarnings
    <3>1. more = Beyond
      BY <2>1, <2>2 DEF CountNext
    <3>2. excused
      <4> HIDE DEF more, r, m
      <4> QED BY <1>1, <2>2
    <3> HIDE DEF more
    <3> QED BY <3>1, <3>2 DEF Counts, more
  <2>3. CASE ~(i > most + MaxWarnings)
    <3>1. more = CountMember(count, m, most)
      BY <2>1, <2>3 DEF CountNext
    <3>2. /\ more = Beyond \/ (more \in count + r.n .. most)
          /\ ~OddMember(m) => IF more = Beyond THEN count + r.n > most ELSE more = count + r.n
      BY <1>1, <2>1, <3>1, MemberCounts
    <3>3. ~excused => count = found
      BY <1>4 DEF Counts
    <3> HIDE DEF more, r
    <3> QED BY <1>2, <2>1, <3>2, <3>3 DEF Counts, r, more
  <2> QED BY <2>2, <2>3
<1> QED BY <1>3, <1>4

MembersExcused(members) ==
  Len(members) > MaxWarnings \/ \E i \in DOMAIN members : OddMember(members[i])

\* An object whose members are good.
LEMMA MapCounts ==
  ASSUME NEW members \in Seq(Members), NEW most \in Nat, MaxWarnings \in Nat, ParseMembers(members).ok
  PROVE  /\ ParseMembers(members).n \in Nat
         /\ Counts(CountMap(members, most), ParseMembers(members).n, most, MembersExcused(members))
<1> DEFINE n == Len(members)
           rs == [i \in 1 .. n |-> ParseMember(members[i])]
           excused == MembersExcused(members)
<1>1. n \in Nat /\ Len(rs) = n /\ \A i \in 1 .. n : rs[i] = ParseMember(members[i]) /\ members[i] \in Members
  OBVIOUS
<1>2. \A i \in 1 .. n : rs[i] \in Results
  BY <1>1, MemberIs
<1>3. ParseMembers(members) = JoinAll(rs)
  BY DEF ParseMembers
<1>4. \A i \in 1 .. n : ~excused => n <= MaxWarnings /\ ~OddMember(members[i])
  BY <1>1 DEF MembersExcused
<1> HIDE DEF rs, excused
<1>5. PICK f : Joins(f, rs) /\ JoinAll(rs) = f[n]
  BY <1>1, <1>2, JoinAllIs
<1>6. PICK c : CountsMembers(c, members, most) /\ CountMap(members, most) = c[n]
  BY CountMapIs
<1> DEFINE h == [i \in 0 .. n |-> <<f[i], c[i]>>]
           G == {q \in Nat \X (Results \X Int) :
                   q[2][1].ok => Counts(q[2][2], q[2][1].n, most, excused)}
<1>7. \A i \in 0 .. n : f[i] \in Results /\ c[i] \in Int /\ h[i] = <<f[i], c[i]>>
  BY <1>1, <1>5, <1>6 DEF Joins, CountsMembers
<1>8. f[0] = Parsed(0) /\ c[0] = 0
  BY <1>5, <1>6 DEF Joins, CountsMembers
<1>9. Counts(0, 0, most, excused)
  BY DEF Counts, Beyond
<1>10. \A i \in 0 .. n : <<i, h[i]>> \in G <=> (f[i].ok => Counts(c[i], f[i].n, most, excused))
  BY <1>1, <1>7
<1> HIDE DEF G, h
<1>11. <<0, h[0]>> \in G
  <2>1. 0 \in 0 .. n /\ f[0].n = 0
    BY <1>1, <1>8, ResultsAre
  <2> HIDE DEF n
  <2> QED BY <1>8, <1>9, <1>10, <2>1
<1>12. ASSUME NEW i \in 1 .. n, <<i - 1, h[i - 1]>> \in G PROVE <<i, h[i]>> \in G
  <2>0. i \in 0 .. n /\ i - 1 \in 0 .. n
    BY <1>1
  <2>1. SUFFICES ASSUME f[i].ok PROVE Counts(c[i], f[i].n, most, excused)
    BY <1>10, <2>0
  <2>2. /\ f[i - 1].ok /\ rs[i].ok /\ f[i].n = f[i - 1].n + rs[i].n
        /\ f[i - 1].n \in Nat
    BY <1>1, <1>2, <1>5, <2>1, JoinsBack
  <2>3. Counts(c[i - 1], f[i - 1].n, most, excused)
    BY <1>10, <1>12, <2>0, <2>2
  <2>4. c[i] = CountNext(c[i - 1], members, i, most) /\ c[i - 1] \in Int
    BY <1>6, <1>7, <2>0 DEF CountsMembers
  <2>5. ParseMember(members[i]).ok /\ rs[i].n = ParseMember(members[i]).n
    BY <1>1, <2>2
  <2>6. Counts(CountNext(c[i - 1], members, i, most), f[i - 1].n + ParseMember(members[i]).n, most, excused)
    BY <1>4, <2>2, <2>3, <2>4, <2>5, CountsStep
  <2> QED BY <2>2, <2>4, <2>5, <2>6
<1>13. \A i \in 0 .. n : <<i, h[i]>> \in G
  <2> HIDE DEF n
  <2> QED BY <1>1, <1>11, <1>12, Climbs
<1>14. n \in 0 .. n
  BY <1>1
<1>15. f[n].ok => Counts(c[n], f[n].n, most, excused)
  BY <1>10, <1>13, <1>14
<1>16. f[n] \in Results /\ f[n].n \in Nat
  BY <1>7, <1>14, ResultsAre
<1> QED BY <1>3, <1>5, <1>6, <1>15, <1>16 DEF excused

\* A document that is good has entries, and is counted as they are.
LEMMA DocumentCounts ==
  ASSUME NEW d \in Documents, NEW most \in Nat \ {0}, MaxWarnings \in Nat, ParseDocument(d).ok
  PROVE  /\ ParseDocument(d).n \in Nat \ {0}
         /\ Counts(CountDocument(d, most), ParseDocument(d).n, most, Crowded(d) \/ Odd(d))
<1> DEFINE excused == Crowded(d) \/ Odd(d)
<1>1. CASE d.is = "array"
  <2>1. d.items \in Seq(Entries) /\ ParseDocument(d) = ParseArray(d.items)
    BY <1>1 DEF Documents, ParseDocument
  <2>2. ParseDocument(d).n = Len(d.items) /\ Len(d.items) \in Nat \ {0}
    BY <2>1, ArrayIs
  <2>3. CountDocument(d, most) = IF Len(d.items) > most THEN Beyond ELSE Len(d.items)
    BY <1>1 DEF CountDocument, CountArray
  <2> QED BY <2>2, <2>3 DEF Counts, Beyond
<1>2. CASE d.is # "array"
  <2>1. d.is = "object" /\ ParseDocument(d) = ParseObject(d)
    BY <1>2, ResultsAre DEF ParseDocument
  <2>2. d.members \in Seq(Members)
    BY <2>1 DEF Documents
  <2>3. Decodes(d.own)
    BY <2>1, ResultsAre DEF ParseObject
  <2>4. CASE HasToken(d.own)
    <3>1. ParseDocument(d) = ParseEntry(d.own) /\ CountDocument(d, most) = 1
      BY <2>1, <2>3, <2>4 DEF ParseObject, CountDocument
    <3>2. ParseDocument(d).n = 1
      BY <3>1, EntryIs
    <3> QED BY <3>1, <3>2 DEF Counts, Beyond
  <2>5. CASE ~HasToken(d.own)
    <3>1. CountDocument(d, most) = CountMap(d.members, most)
      BY <2>1, <2>3, <2>5 DEF CountDocument
    <3>2. ParseDocument(d) = ParseMembers(d.members) /\ ParseMembers(d.members).n # 0
      BY <2>1, <2>3, <2>5, ResultsAre DEF ParseObject
    <3>3. /\ ParseMembers(d.members).n \in Nat
          /\ Counts(CountMap(d.members, most), ParseMembers(d.members).n, most, MembersExcused(d.members))
      BY <2>2, <3>2, MapCounts
    <3>4. MembersExcused(d.members) <=> excused
      BY <2>1 DEF MembersExcused, Crowded, Odd, OddMember
    <3> HIDE DEF excused
    <3>5. Counts(CountMap(d.members, most), ParseMembers(d.members).n, most, excused)
      BY <3>3, <3>4 DEF Counts
    <3> QED BY <3>1, <3>2, <3>3, <3>5 DEF excused
  <2> QED BY <2>4, <2>5
<1> QED BY <1>1, <1>2

LEMMA DocumentIs ==
  ASSUME NEW d \in Documents
  PROVE  ParseDocument(d) \in Results
<1>1. CASE d.is = "array"
  <2>1. d.items \in Seq(Entries) /\ ParseDocument(d) = ParseArray(d.items)
    BY <1>1 DEF Documents, ParseDocument
  <2> QED BY <2>1, ArrayIs
<1>2. CASE d.is = "object"
  <2>1. d.members \in Seq(Members) /\ ParseDocument(d) = ParseObject(d)
    BY <1>2 DEF Documents, ParseDocument
  <2> DEFINE n == Len(d.members)
             rs == [i \in 1 .. n |-> ParseMember(d.members[i])]
  <2>2. n \in Nat /\ Len(rs) = n /\ \A i \in 1 .. n : rs[i] \in Results
    BY <2>1, MemberIs
  <2>3. ParseMembers(d.members) = JoinAll(rs)
    BY DEF ParseMembers
  <2> HIDE DEF rs, n
  <2>4. PICK f : Joins(f, rs) /\ JoinAll(rs) = f[n]
    BY <2>2, JoinAllIs
  <2>5. f[n] \in Results
    BY <2>2, <2>4 DEF Joins
  <2>6. ParseMembers(d.members) \in Results /\ ParseEntry(d.own) \in Results
    BY <2>3, <2>4, <2>5, EntryIs
  <2>7. ParseObject(d) \in {Refused, ParseEntry(d.own), ParseMembers(d.members)}
    BY DEF ParseObject
  <2> QED BY <2>1, <2>6, <2>7, ResultsAre
<1>3. CASE d.is \notin {"array", "object"}
  BY <1>3, ResultsAre DEF ParseDocument
<1> QED BY <1>1, <1>2, <1>3

\* c counts the first of the documents.
CountsDocuments(c, docs) ==
  /\ c \in [0 .. Len(docs) -> Int] /\ c[0] = 0
  /\ \A i \in 1 .. Len(docs) : c[i] = CountMore(c[i - 1], docs[i])

LEMMA CountDocumentTyped ==
  ASSUME NEW d \in Documents, NEW most \in Nat
  PROVE  CountDocument(d, most) \in Int
<1>1. CASE d.is = "array"
  <2>1. Len(d.items) \in Int
    BY <1>1 DEF Documents
  <2> QED BY <1>1, <2>1 DEF CountDocument, CountArray, Beyond
<1>2. CASE d.is = "object" /\ Decodes(d.own) /\ ~HasToken(d.own)
  <2>1. d.members \in Seq(Members)
    BY <1>2 DEF Documents
  <2>2. PICK c : CountsMembers(c, d.members, most) /\ CountMap(d.members, most) = c[Len(d.members)]
    BY <2>1, CountMapIs
  <2>3. c[Len(d.members)] \in Int
    BY <2>1, <2>2 DEF CountsMembers
  <2> QED BY <1>2, <2>2, <2>3 DEF CountDocument
<1>3. CASE d.is # "array" /\ ~(d.is = "object" /\ Decodes(d.own) /\ ~HasToken(d.own))
  BY <1>3 DEF CountDocument, Malformed
<1> QED BY <1>1, <1>2, <1>3

LEMMA CountMoreTyped ==
  ASSUME NEW d \in Documents, NEW total \in Int, EntryLimit \in Nat
  PROVE  CountMore(total, d) \in Int
<1>1. CASE total < 0 \/ EntryLimit - total <= 0
  BY <1>1 DEF CountMore, Beyond
<1>2. CASE ~(total < 0 \/ EntryLimit - total <= 0)
  <2>1. EntryLimit - total \in Nat
    BY <1>2
  <2> DEFINE n == CountDocument(d, EntryLimit - total)
  <2>2. n \in Int
    BY <2>1, CountDocumentTyped
  <2>3. CountMore(total, d) = IF n < 0 THEN n ELSE total + n
    BY <1>2 DEF CountMore
  <2> HIDE DEF n
  <2> QED BY <2>2, <2>3
<1> QED BY <1>1, <1>2

LEMMA CountFileIs ==
  ASSUME NEW docs \in Seq(Documents), EntryLimit \in Nat
  PROVE  \E c : CountsDocuments(c, docs) /\ CountFile(docs) = c[Len(docs)]
<1> DEFINE n == Len(docs)
           F == [q \in Int \X (1 .. n) |-> CountMore(q[1], docs[q[2]])]
           Is(c) == c = [i \in 0 .. n |-> IF i = 0 THEN 0 ELSE CountMore(c[i - 1], docs[i])]
           c == CHOOSE c : Is(c)
<1>0. \A i \in 1 .. n : docs[i] \in Documents
  OBVIOUS
<1>1. F \in [Int \X (1 .. n) -> Int]
  BY <1>0, CountMoreTyped
<1>2. \A r \in Int : \A i \in 1 .. n : F[<<r, i>>] = CountMore(r, docs[i])
  OBVIOUS
<1> HIDE DEF F
<1>3. n \in Nat /\ 0 \in Int
  OBVIOUS
<1>4. PICK g \in [0 .. n -> Int] : Folds(g, n, 0, F)
  BY <1>1, <1>3, FoldExists
<1>5. ASSUME NEW i \in 0 .. n PROVE g[i] = IF i = 0 THEN 0 ELSE CountMore(g[i - 1], docs[i])
  <2>1. i # 0 => i \in 1 .. n /\ i - 1 \in 0 .. n
    BY <1>3
  <2> HIDE DEF n
  <2> QED BY <1>2, <1>4, <2>1 DEF Folds
<1>6. Is(g)
  <2> HIDE DEF n
  <2> QED BY <1>5
<1>7. Is(c)
  BY <1>6
<1>8. CountFile(docs) = c[n]
  BY DEF CountFile
<1> HIDE DEF c
<1>9. \A i \in 0 .. n : c[i] = IF i = 0 THEN 0 ELSE CountMore(c[i - 1], docs[i])
  BY <1>7, Zenon
<1>10. DOMAIN c = 0 .. n /\ c = [i \in 0 .. n |-> c[i]]
  BY <1>7
<1> DEFINE G == {q \in Nat \X Int : TRUE}
<1>11. \A i \in 0 .. n : <<i, c[i]>> \in G
  <2>1. <<0, c[0]>> \in G
    BY <1>3, <1>9
  <2>2. ASSUME NEW i \in 1 .. n, <<i - 1, c[i - 1]>> \in G PROVE <<i, c[i]>> \in G
    <3>1. c[i - 1] \in Int /\ c[i] = CountMore(c[i - 1], docs[i])
      BY <1>9, <2>2
    <3>2. CountMore(c[i - 1], docs[i]) \in Int
      BY <1>0, <3>1, CountMoreTyped
    <3>3. c[i] \in Int /\ i \in Nat
      BY <1>3, <3>1, <3>2
    <3> HIDE DEF n
    <3> QED BY <3>3
  <2> HIDE DEF G, n
  <2> QED BY <1>3, <2>1, <2>2, Climbs
<1>12. c \in [0 .. n -> Int]
  BY <1>10, <1>11
<1>13. CountsDocuments(c, docs)
  BY <1>9, <1>12 DEF CountsDocuments
<1> QED BY <1>8, <1>13

\* One step of both passes over a file.
LEMMA FileStep ==
  ASSUME NEW d \in Documents, EntryLimit \in Nat, MaxWarnings \in Nat, ParseDocument(d).ok,
         NEW found \in Nat, NEW total \in Int, NEW excused, Counts(total, found, EntryLimit, excused),
         ~excused => ~(Crowded(d) \/ Odd(d))
  PROVE  Counts(CountMore(total, d), found + ParseDocument(d).n, EntryLimit, excused)
<1> DEFINE r == ParseDocument(d)
           more == CountMore(total, d)
<1>1. r.n \in Nat
  BY DocumentIs, ResultsAre
<1>2. CASE total = Beyond
  <2>1. more = Beyond
    BY <1>2 DEF CountMore, Beyond
  <2> HIDE DEF more, r
  <2> QED BY <1>1, <1>2, <2>1 DEF Counts, r, more
<1>3. CASE total # Beyond
  <2>1. total \in 0 .. EntryLimit /\ found <= total
    BY <1>3 DEF Counts
  <2>2. ~excused => total = found
    BY <1>3 DEF Counts
  <2>3. CASE EntryLimit - total <= 0
    <3>1. more = Beyond
      BY <2>1, <2>3 DEF CountMore
    <3>2. r.n \in Nat \ {0}
      <4>1. 1 \in Nat \ {0}
        OBVIOUS
      <4> QED BY <4>1, DocumentCounts
    <3> HIDE DEF more, r
    <3> QED BY <2>1, <2>2, <2>3, <3>1, <3>2 DEF Counts, r, more
  <2>4. CASE ~(EntryLimit - total <= 0)
    <3> DEFINE left == EntryLimit - total
               n == CountDocument(d, left)
    <3>1. left \in Nat \ {0}
      BY <2>1, <2>4
    <3>2. r.n \in Nat \ {0} /\ Counts(n, r.n, left, Crowded(d) \/ Odd(d))
      BY <3>1, DocumentCounts
    <3>3. more = IF n < 0 THEN n ELSE total + n
      BY <2>1, <2>4 DEF CountMore
    <3> HIDE DEF more, r, n
    <3> QED BY <2>1, <2>2, <2>4, <3>2, <3>3 DEF Counts, Beyond, r, more
  <2> QED BY <2>3, <2>4
<1> QED BY <1>2, <1>3

\* A file of credentials is let in exactly if it has no more entries than allowed, whatever its documents.
THEOREM CountAlwaysFits == \A docs \in Seq(Documents) : CountFits(docs)
<1> SUFFICES ASSUME NEW docs \in Seq(Documents), ParseFile(docs).ok
             PROVE  LET parse == ParseFile(docs)
                        count == CountFile(docs)
                    IN  /\ parse.n > EntryLimit => count = Beyond
                        /\ parse.n <= EntryLimit =>
                             count = parse.n \/ \E i \in DOMAIN docs : Crowded(docs[i]) \/ Odd(docs[i])
  BY DEF CountFits
<1> DEFINE n == Len(docs)
           rs == [i \in 1 .. n |-> ParseDocument(docs[i])]
           excused == \E i \in DOMAIN docs : Crowded(docs[i]) \/ Odd(docs[i])
<1>0. EntryLimit \in Nat /\ MaxWarnings \in Nat
  BY DocumentAssumption
<1>1. n \in Nat /\ Len(rs) = n /\ \A i \in 1 .. n : rs[i] = ParseDocument(docs[i]) /\ docs[i] \in Documents
  OBVIOUS
<1>2. \A i \in 1 .. n : rs[i] \in Results
  BY <1>1, DocumentIs
<1>3. ParseFile(docs) = JoinAll(rs)
  BY ResultsAre DEF ParseFile
<1>4. \A i \in 1 .. n : ~excused => ~(Crowded(docs[i]) \/ Odd(docs[i]))
  BY <1>1
<1> HIDE DEF rs, excused
<1>5. PICK f : Joins(f, rs) /\ JoinAll(rs) = f[n]
  BY <1>1, <1>2, JoinAllIs
<1>6. PICK c : CountsDocuments(c, docs) /\ CountFile(docs) = c[n]
  BY <1>0, CountFileIs
<1> DEFINE h == [i \in 0 .. n |-> <<f[i], c[i]>>]
           G == {q \in Nat \X (Results \X Int) :
                   q[2][1].ok => Counts(q[2][2], q[2][1].n, EntryLimit, excused)}
<1>7. \A i \in 0 .. n : f[i] \in Results /\ c[i] \in Int /\ h[i] = <<f[i], c[i]>>
  BY <1>1, <1>5, <1>6 DEF Joins, CountsDocuments
<1>8. f[0] = Parsed(0) /\ c[0] = 0
  BY <1>5, <1>6 DEF Joins, CountsDocuments
<1>9. Counts(0, 0, EntryLimit, excused)
  BY <1>0 DEF Counts, Beyond
<1>10. \A i \in 0 .. n : <<i, h[i]>> \in G <=> (f[i].ok => Counts(c[i], f[i].n, EntryLimit, excused))
  BY <1>1, <1>7
<1> HIDE DEF G, h
<1>11. <<0, h[0]>> \in G
  <2>1. 0 \in 0 .. n /\ f[0].n = 0
    BY <1>1, <1>8, ResultsAre
  <2> HIDE DEF n
  <2> QED BY <1>8, <1>9, <1>10, <2>1
<1>12. ASSUME NEW i \in 1 .. n, <<i - 1, h[i - 1]>> \in G PROVE <<i, h[i]>> \in G
  <2>0. i \in 0 .. n /\ i - 1 \in 0 .. n
    BY <1>1
  <2>1. SUFFICES ASSUME f[i].ok PROVE Counts(c[i], f[i].n, EntryLimit, excused)
    BY <1>10, <2>0
  <2>2. /\ f[i - 1].ok /\ rs[i].ok /\ f[i].n = f[i - 1].n + rs[i].n
        /\ f[i - 1].n \in Nat
    BY <1>1, <1>2, <1>5, <2>1, JoinsBack
  <2>3. Counts(c[i - 1], f[i - 1].n, EntryLimit, excused)
    BY <1>10, <1>12, <2>0, <2>2
  <2>4. c[i] = CountMore(c[i - 1], docs[i]) /\ c[i - 1] \in Int
    BY <1>6, <1>7, <2>0 DEF CountsDocuments
  <2>5. ParseDocument(docs[i]).ok /\ rs[i].n = ParseDocument(docs[i]).n /\ docs[i] \in Documents
    BY <1>1, <2>2
  <2>6. Counts(CountMore(c[i - 1], docs[i]), f[i - 1].n + ParseDocument(docs[i]).n, EntryLimit, excused)
    BY <1>0, <1>4, <2>2, <2>3, <2>4, <2>5, FileStep
  <2> QED BY <2>2, <2>4, <2>5, <2>6
<1>13. \A i \in 0 .. n : <<i, h[i]>> \in G
  <2> HIDE DEF n
  <2> QED BY <1>1, <1>11, <1>12, Climbs
<1>14. n \in 0 .. n
  BY <1>1
<1>15. f[n].ok => Counts(c[n], f[n].n, EntryLimit, excused)
  BY <1>10, <1>13, <1>14
<1>16. f[n] \in Results /\ f[n].n \in Nat
  BY <1>7, <1>14, ResultsAre
<1>17. Counts(CountFile(docs), ParseFile(docs).n, EntryLimit, excused) /\ ParseFile(docs).n \in Nat
  BY <1>3, <1>5, <1>6, <1>15, <1>16
<1>18. /\ ParseFile(docs).n > EntryLimit => CountFile(docs) = Beyond
       /\ ParseFile(docs).n <= EntryLimit => CountFile(docs) = ParseFile(docs).n \/ excused
  BY <1>0, <1>17 DEF Counts
<1> QED BY <1>18 DEF excused

\* Without a limit everything is collected; with one the same, or nothing if that is too much.
Fits(whole, capped, most) ==
  /\ whole \in Results /\ whole.ok /\ capped \in Results
  /\ capped = IF whole.n <= most THEN whole ELSE Refused

\* One value more.
LEMMA CollectedFits ==
  ASSUME NEW n \in Nat, NEW most \in Nat \ {0}
  PROVE  /\ Collected(n, 0) = Parsed(n + 1) /\ Collected(n, most) \in Results
         /\ n <= most => Fits(Collected(n, 0), Collected(n, most), most)
<1>1. Collected(n, 0) = Parsed(n + 1)
  BY DEF Collected
<1>2. Collected(n, most) = IF n >= most THEN Refused ELSE Parsed(n + 1)
  BY DEF Collected
<1>3. n + 1 \in Nat
  OBVIOUS
<1>4. Parsed(n + 1) \in Results /\ Parsed(n + 1).ok /\ Parsed(n + 1).n = n + 1 /\ Refused \in Results
  BY <1>3, ResultsAre
<1> QED BY <1>1, <1>2, <1>4 DEF Fits

LEMMA ParsedFits ==
  ASSUME NEW n \in Nat, NEW most \in Nat
  PROVE  /\ Parsed(n) \in Results /\ Parsed(n).ok /\ Parsed(n).n = n
         /\ n <= most => Fits(Parsed(n), Parsed(n), most)
  BY ResultsAre DEF Fits

-----------------------------------------------------------------------------
(* Lines.                                                                  *)

CollectsLines(c, lines, most) ==
  /\ c \in [0 .. Len(lines) -> Results] /\ c[0] = Parsed(0)
  /\ \A i \in 1 .. Len(lines) : c[i] = CollectLine(c[i - 1], lines[i], most)

LEMMA CollectLineTyped ==
  ASSUME NEW r \in Results, NEW line, NEW most \in Nat
  PROVE  CollectLine(r, line, most) \in Results
<1>1. r.n \in Nat /\ r.n + 1 \in Nat
  BY ResultsAre
<1>2. Collected(r.n, most) \in Results
  BY <1>1, ResultsAre DEF Collected
<1> QED BY <1>2 DEF CollectLine

LEMMA CollectLinesIs ==
  ASSUME NEW lines, Len(lines) \in Nat, NEW most \in Nat
  PROVE  \E c : CollectsLines(c, lines, most) /\ CollectLines(lines, most) = c[Len(lines)]
<1> DEFINE n == Len(lines)
           F == [q \in Results \X (1 .. n) |-> CollectLine(q[1], lines[q[2]], most)]
           Is(c) == c = [i \in 0 .. n |-> IF i = 0 THEN Parsed(0) ELSE CollectLine(c[i - 1], lines[i], most)]
           c == CHOOSE c : Is(c)
<1>1. F \in [Results \X (1 .. n) -> Results]
  BY CollectLineTyped
<1>2. \A r \in Results : \A i \in 1 .. n : F[<<r, i>>] = CollectLine(r, lines[i], most)
  OBVIOUS
<1> HIDE DEF F
<1>3. Parsed(0) \in Results
  BY ResultsAre
<1>4. PICK g \in [0 .. n -> Results] : Folds(g, n, Parsed(0), F)
  BY <1>1, <1>3, FoldExists
<1>5. ASSUME NEW i \in 0 .. n PROVE g[i] = IF i = 0 THEN Parsed(0) ELSE CollectLine(g[i - 1], lines[i], most)
  <2>1. i # 0 => i \in 1 .. n /\ i - 1 \in 0 .. n
    OBVIOUS
  <2> QED BY <1>2, <1>4, <2>1 DEF Folds
<1>6. Is(g)
  BY <1>5
<1>7. Is(c)
  BY <1>6
<1>8. CollectLines(lines, most) = c[n]
  BY DEF CollectLines
<1> HIDE DEF c
<1>9. \A i \in 0 .. n : c[i] = IF i = 0 THEN Parsed(0) ELSE CollectLine(c[i - 1], lines[i], most)
  BY <1>7, Zenon
<1>10. DOMAIN c = 0 .. n /\ c = [i \in 0 .. n |-> c[i]]
  BY <1>7
<1> DEFINE G == {q \in Nat \X Results : TRUE}
<1>11. \A i \in 0 .. n : <<i, c[i]>> \in G
  <2>1. <<0, c[0]>> \in G
    BY <1>3, <1>9
  <2>2. ASSUME NEW i \in 1 .. n, <<i - 1, c[i - 1]>> \in G PROVE <<i, c[i]>> \in G
    <3>1. c[i - 1] \in Results /\ c[i] = CollectLine(c[i - 1], lines[i], most)
      BY <1>9, <2>2
    <3>2. CollectLine(c[i - 1], lines[i], most) \in Results
      BY <3>1, CollectLineTyped
    <3> QED BY <3>1, <3>2
  <2> HIDE DEF G
  <2> QED BY <2>1, <2>2, Climbs
<1>12. c \in [0 .. n -> Results]
  BY <1>10, <1>11
<1>13. CollectsLines(c, lines, most)
  BY <1>9, <1>12 DEF CollectsLines
<1> QED BY <1>8, <1>13

LEMMA LineFits ==
  ASSUME NEW whole, NEW capped, NEW most \in Nat \ {0}, Fits(whole, capped, most), NEW line
  PROVE  Fits(CollectLine(whole, line, 0), CollectLine(capped, line, most), most)
<1>1. whole.n \in Nat
  BY ResultsAre DEF Fits
<1>2. CASE line # "value"
  BY <1>2 DEF CollectLine, Fits
<1>3. CASE line = "value" /\ capped.ok
  <2>1. capped = whole /\ whole.n <= most
    BY <1>3, ResultsAre DEF Fits
  <2>2. Fits(Collected(whole.n, 0), Collected(whole.n, most), most)
    BY <1>1, <2>1, CollectedFits
  <2> QED BY <1>3, <2>1, <2>2 DEF CollectLine
<1>4. CASE line = "value" /\ ~capped.ok
  <2>1. whole.ok /\ ~(whole.n <= most) /\ capped = Refused
    BY <1>4 DEF Fits
  <2>2. CollectLine(whole, line, 0) = Parsed(whole.n + 1) /\ CollectLine(capped, line, most) = Refused
    BY <1>1, <1>4, <2>1, CollectedFits DEF CollectLine
  <2>3. whole.n + 1 \in Nat
    BY <1>1
  <2>4. Parsed(whole.n + 1) \in Results /\ Parsed(whole.n + 1).ok /\ Parsed(whole.n + 1).n = whole.n + 1
    BY <2>3, ResultsAre
  <2> QED BY <1>1, <2>1, <2>2, <2>4, ResultsAre DEF Fits
<1> QED BY <1>2, <1>3, <1>4

LEMMA LinesFit ==
  ASSUME NEW lines, Len(lines) \in Nat, NEW most \in Nat \ {0}
  PROVE  Fits(CollectLines(lines, 0), CollectLines(lines, most), most)
<1> DEFINE n == Len(lines)
<1>1. PICK w : CollectsLines(w, lines, 0) /\ CollectLines(lines, 0) = w[n]
  BY CollectLinesIs
<1>2. PICK c : CollectsLines(c, lines, most) /\ CollectLines(lines, most) = c[n]
  BY CollectLinesIs
<1> DEFINE T == {m \in Nat : m <= n => Fits(w[m], c[m], most)}
<1>3. 0 \in T /\ T \in SUBSET Nat
  <2>1. w[0] = Parsed(0) /\ c[0] = Parsed(0)
    BY <1>1, <1>2 DEF CollectsLines
  <2>2. Fits(Parsed(0), Parsed(0), most)
    BY ParsedFits
  <2> QED BY <2>1, <2>2
<1>4. ASSUME NEW m \in T PROVE m + 1 \in T
  <2>1. CASE m + 1 <= n
    <3>1. Fits(w[m], c[m], most) /\ m + 1 \in 1 .. n /\ m + 1 - 1 = m
      BY <2>1
    <3>2. w[m + 1] = CollectLine(w[m], lines[m + 1], 0) /\ c[m + 1] = CollectLine(c[m], lines[m + 1], most)
      BY <1>1, <1>2, <3>1 DEF CollectsLines
    <3>3. Fits(w[m + 1], c[m + 1], most)
      BY <3>1, <3>2, LineFits
    <3> QED BY <3>3
  <2>2. CASE ~(m + 1 <= n)
    BY <2>2
  <2> QED BY <2>1, <2>2
<1> HIDE DEF T
<1>5. T = Nat
  BY <1>3, <1>4, Induction
<1>6. Fits(w[n], c[n], most)
  BY <1>5 DEF T
<1> QED BY <1>1, <1>2, <1>6

\* The i-th child of a container, after those before it left r.
Walk(inner, tree, r, i) ==
  IF ~r.ok \/ (tree.is = "object" /\ ~tree.children[i].sso) THEN r
  ELSE inner[tree.children[i].tree][r.n]

\* What collects the values of the trees of T.
Inner(inner, T) == inner \in [T -> [Nat -> Results]]

Walks(c, inner, tree, n) ==
  /\ c \in [0 .. Len(tree.children) -> Results] /\ c[0] = Parsed(n)
  /\ \A i \in 1 .. Len(tree.children) : c[i] = Walk(inner, tree, c[i - 1], i)

\* What a container holds.
LEMMA ContainerHas ==
  ASSUME NEW T, NEW tree \in Containers(T)
  PROVE  /\ tree.is \in {"array", "object"} /\ Len(tree.children) \in Nat
         /\ \A i \in 1 .. Len(tree.children) : tree.children[i].tree \in T
<1>1. tree.is \in {"array", "object"} /\ tree.children \in Seq([sso : BOOLEAN, tree : T])
  BY DEF Containers
<1>2. ASSUME NEW i \in 1 .. Len(tree.children) PROVE tree.children[i].tree \in T
  <2> DEFINE s == tree.children
             E == [sso : BOOLEAN, tree : T]
  <2>1. s \in Seq(E) /\ i \in 1 .. Len(s)
    BY <1>1
  <2>2. \A e \in E : e.tree \in T
    OBVIOUS
  <2> HIDE DEF s, E
  <2>3. s[i] \in E
    BY <2>1
  <2> QED BY <2>2, <2>3 DEF s
<1> QED BY <1>1, <1>2

LEMMA WalkTyped ==
  ASSUME NEW T, NEW inner, Inner(inner, T), NEW tree \in Containers(T),
         NEW i \in 1 .. Len(tree.children), NEW r \in Results
  PROVE  Walk(inner, tree, r, i) \in Results
<1>1. tree.children[i].tree \in T /\ r.n \in Nat
  BY ContainerHas, ResultsAre
<1>2. inner[tree.children[i].tree] \in [Nat -> Results]
  BY <1>1 DEF Inner
<1>3. inner[tree.children[i].tree][r.n] \in Results
  BY <1>1, <1>2
<1> QED BY <1>3 DEF Walk

LEMMA ChildrenIs ==
  ASSUME NEW T, NEW inner, Inner(inner, T), NEW tree \in Containers(T), NEW n \in Nat
  PROVE  \E c : Walks(c, inner, tree, n) /\ CollectChildren(inner, tree, n) = c[Len(tree.children)]
<1> DEFINE m == Len(tree.children)
           F == [q \in Results \X (1 .. m) |-> Walk(inner, tree, q[1], q[2])]
           Is(c) == c = [i \in 0 .. m |-> IF i = 0 THEN Parsed(n) ELSE Walk(inner, tree, c[i - 1], i)]
           c == CHOOSE c : Is(c)
<1>0. m \in Nat
  BY ContainerHas
<1>1. F \in [Results \X (1 .. m) -> Results]
  BY WalkTyped
<1>2. \A r \in Results : \A i \in 1 .. m : F[<<r, i>>] = Walk(inner, tree, r, i)
  OBVIOUS
<1> HIDE DEF F
<1>3. Parsed(n) \in Results
  BY ResultsAre
<1>4. PICK g \in [0 .. m -> Results] : Folds(g, m, Parsed(n), F)
  BY <1>0, <1>1, <1>3, FoldExists
<1>5. ASSUME NEW i \in 0 .. m PROVE g[i] = IF i = 0 THEN Parsed(n) ELSE Walk(inner, tree, g[i - 1], i)
  <2>1. i # 0 => i \in 1 .. m /\ i - 1 \in 0 .. m
    BY <1>0
  <2> QED BY <1>2, <1>4, <2>1 DEF Folds
<1>6. Is(g)
  BY <1>5
<1>7. Is(c)
  BY <1>6
<1>8. CollectChildren(inner, tree, n) = c[m]
  BY DEF CollectChildren, Walk
<1> HIDE DEF c
<1>9. \A i \in 0 .. m : c[i] = IF i = 0 THEN Parsed(n) ELSE Walk(inner, tree, c[i - 1], i)
  BY <1>7, Zenon
<1>10. DOMAIN c = 0 .. m /\ c = [i \in 0 .. m |-> c[i]]
  BY <1>7
<1> DEFINE G == {q \in Nat \X Results : TRUE}
<1>11. \A i \in 0 .. m : <<i, c[i]>> \in G
  <2>1. <<0, c[0]>> \in G
    BY <1>0, <1>3, <1>9
  <2>2. ASSUME NEW i \in 1 .. m, <<i - 1, c[i - 1]>> \in G PROVE <<i, c[i]>> \in G
    <3>1. c[i - 1] \in Results /\ c[i] = Walk(inner, tree, c[i - 1], i) /\ i \in Nat
      BY <1>0, <1>9, <2>2
    <3>2. Walk(inner, tree, c[i - 1], i) \in Results
      BY <3>1, WalkTyped
    <3> QED BY <3>1, <3>2
  <2> HIDE DEF G
  <2> QED BY <1>0, <2>1, <2>2, Climbs
<1>12. c \in [0 .. m -> Results]
  BY <1>10, <1>11
<1>13. Walks(c, inner, tree, n)
  BY <1>0, <1>9, <1>12 DEF Walks
<1> QED BY <1>8, <1>13

\* Two ways to collect the values of the trees of T from n on: without a limit, and with one.
Agree(whole, capped, T, most) ==
  /\ Inner(whole, T) /\ Inner(capped, T)
  /\ \A t \in T, n \in Nat : whole[t][n].ok /\ whole[t][n].n >= n
  /\ \A t \in T, n \in Nat : n <= most => Fits(whole[t][n], capped[t][n], most)

\* After every child: the whole walk has not failed nor lost a value, and the walks agree.
Abreast(w, c, n, most) ==
  w \in Results /\ w.ok /\ w.n >= n /\ (n <= most => Fits(w, c, most))

LEMMA WalkAbreast ==
  ASSUME NEW T, NEW most \in Nat, NEW whole, NEW capped, Agree(whole, capped, T, most),
         NEW tree \in Containers(T), NEW i \in 1 .. Len(tree.children), NEW n \in Nat,
         NEW w, NEW c, Abreast(w, c, n, most)
  PROVE  Abreast(Walk(whole, tree, w, i), Walk(capped, tree, c, i), n, most)
<1> DEFINE t == tree.children[i].tree
<1>1. t \in T /\ w.n \in Nat /\ w \in Results /\ w.ok
  BY ContainerHas, ResultsAre DEF Abreast
<1>2. CASE tree.is = "object" /\ ~tree.children[i].sso
  <2>1. Walk(whole, tree, w, i) = w /\ Walk(capped, tree, c, i) = c
    BY <1>2 DEF Walk
  <2> QED BY <2>1
<1>3. CASE ~(tree.is = "object" /\ ~tree.children[i].sso)
  <2> DEFINE v == whole[t][w.n]
  <2>1. Walk(whole, tree, w, i) = v
    BY <1>1, <1>3 DEF Walk
  <2>2. v \in Results /\ v.ok /\ v.n >= w.n
    <3>1. whole[t] \in [Nat -> Results]
      BY <1>1 DEF Agree, Inner
    <3> HIDE DEF t
    <3> QED BY <1>1, <3>1 DEF Agree
  <2>3. v.n \in Nat /\ v.n >= n
    BY <1>1, <2>2, ResultsAre DEF Abreast
  <2>4. ASSUME n <= most PROVE Fits(v, Walk(capped, tree, c, i), most)
    <3>1. c = (IF w.n <= most THEN w ELSE Refused) /\ c \in Results
      BY <2>4 DEF Abreast, Fits
    <3>2. CASE w.n <= most
      <4>1. c = w /\ Walk(capped, tree, c, i) = capped[t][w.n]
        BY <1>1, <1>3, <3>1, <3>2 DEF Walk
      <4> HIDE DEF t
      <4>2. Fits(whole[t][w.n], capped[t][w.n], most)
        BY <1>1, <3>2 DEF Agree
      <4> QED BY <4>1, <4>2
    <3>3. CASE ~(w.n <= most)
      <4>1. Walk(capped, tree, c, i) = Refused
        BY <3>1, <3>3, ResultsAre DEF Walk
      <4>2. ~(v.n <= most)
        BY <1>1, <2>2, <2>3, <3>3
      <4> HIDE DEF v
      <4> QED BY <2>2, <4>1, <4>2, ResultsAre DEF Fits
    <3> QED BY <3>2, <3>3
  <2> HIDE DEF v
  <2> QED BY <2>1, <2>2, <2>3, <2>4 DEF Abreast
<1> QED BY <1>2, <1>3

LEMMA ChildrenAbreast ==
  ASSUME NEW T, NEW most \in Nat, NEW whole, NEW capped, Agree(whole, capped, T, most),
         NEW tree \in Containers(T), NEW n \in Nat
  PROVE  Abreast(CollectChildren(whole, tree, n), CollectChildren(capped, tree, n), n, most)
<1> DEFINE m == Len(tree.children)
<1>1. m \in Nat
  BY ContainerHas
<1>2. Inner(whole, T) /\ Inner(capped, T)
  BY DEF Agree
<1>3. PICK w : Walks(w, whole, tree, n) /\ CollectChildren(whole, tree, n) = w[m]
  BY <1>2, ChildrenIs
<1>4. PICK c : Walks(c, capped, tree, n) /\ CollectChildren(capped, tree, n) = c[m]
  BY <1>2, ChildrenIs
<1> DEFINE S == {k \in Nat : k <= m => Abreast(w[k], c[k], n, most)}
<1>5. 0 \in S /\ S \in SUBSET Nat
  <2>1. w[0] = Parsed(n) /\ c[0] = Parsed(n)
    BY <1>3, <1>4 DEF Walks
  <2>2. Abreast(Parsed(n), Parsed(n), n, most)
    BY ParsedFits DEF Abreast
  <2> QED BY <2>1, <2>2
<1>6. ASSUME NEW k \in S PROVE k + 1 \in S
  <2>1. CASE k + 1 <= m
    <3>1. Abreast(w[k], c[k], n, most) /\ k + 1 \in 1 .. m /\ k + 1 - 1 = k
      BY <1>1, <2>1
    <3>2. w[k + 1] = Walk(whole, tree, w[k], k + 1) /\ c[k + 1] = Walk(capped, tree, c[k], k + 1)
      BY <1>3, <1>4, <3>1 DEF Walks
    <3>3. Abreast(w[k + 1], c[k + 1], n, most)
      BY <3>1, <3>2, WalkAbreast
    <3> QED BY <3>3
  <2>2. CASE ~(k + 1 <= m)
    BY <2>2
  <2> QED BY <2>1, <2>2
<1> HIDE DEF S
<1>7. S = Nat
  BY <1>5, <1>6, Induction
<1>8. Abreast(w[m], c[m], n, most)
  BY <1>1, <1>7 DEF S
<1> QED BY <1>3, <1>4, <1>8

\* A leaf is collected whatever there is below it.
LEMMA LeafValue ==
  ASSUME NEW tree \in Leaves, NEW n \in Nat, NEW most \in Nat, NEW inner
  PROVE  CollectValue(inner, tree, n, most) =
           IF tree.is = "string" /\ ~tree.blank THEN Collected(n, most) ELSE Parsed(n)
<1>1. CASE tree.is = "string"
  BY <1>1 DEF CollectValue
<1>2. CASE tree.is = "other"
  BY <1>2 DEF CollectValue
<1> QED BY <1>1, <1>2 DEF Leaves

LEMMA LeafAbreast ==
  ASSUME NEW tree \in Leaves, NEW n \in Nat, NEW most \in Nat \ {0}, NEW whole, NEW capped
  PROVE  /\ Abreast(CollectValue(whole, tree, n, 0), CollectValue(capped, tree, n, most), n, most)
         /\ CollectValue(capped, tree, n, most) \in Results
<1> DEFINE x == CollectValue(whole, tree, n, 0)
           y == CollectValue(capped, tree, n, most)
<1>1. CASE tree.is = "string" /\ ~tree.blank
  <2>1. x = Parsed(n + 1) /\ y = Collected(n, most) /\ x = Collected(n, 0)
    BY <1>1, LeafValue, CollectedFits
  <2>2. Parsed(n + 1) \in Results /\ Parsed(n + 1).ok /\ Parsed(n + 1).n = n + 1
    BY ResultsAre
  <2> HIDE DEF x, y
  <2> QED BY <2>1, <2>2, CollectedFits DEF Abreast, x, y
<1>2. CASE ~(tree.is = "string" /\ ~tree.blank)
  <2>1. x = Parsed(n) /\ y = Parsed(n)
    BY <1>2, LeafValue
  <2> HIDE DEF x, y
  <2> QED BY <2>1, ParsedFits DEF Abreast, x, y
<1> QED BY <1>1, <1>2

\* One layer more.
LEMMA ValueAbreast ==
  ASSUME NEW T, NEW most \in Nat \ {0}, NEW whole, NEW capped, Agree(whole, capped, T, most),
         NEW tree \in Leaves \cup Containers(T), NEW n \in Nat
  PROVE  /\ Abreast(CollectValue(whole, tree, n, 0), CollectValue(capped, tree, n, most), n, most)
         /\ CollectValue(capped, tree, n, most) \in Results
<1>1. CASE tree \in Leaves
  BY <1>1, LeafAbreast
<1>2. CASE tree \in Containers(T)
  <2>1. tree.is \in {"array", "object"}
    BY <1>2, ContainerHas
  <2>2. /\ CollectValue(whole, tree, n, 0) = CollectChildren(whole, tree, n)
        /\ CollectValue(capped, tree, n, most) = CollectChildren(capped, tree, n)
    BY <2>1 DEF CollectValue
  <2>3. Abreast(CollectChildren(whole, tree, n), CollectChildren(capped, tree, n), n, most)
    BY <1>2, ChildrenAbreast
  <2>4. CollectChildren(capped, tree, n) \in Results
    <3>1. Inner(capped, T)
      BY DEF Agree
    <3>2. PICK c : Walks(c, capped, tree, n) /\ CollectChildren(capped, tree, n) = c[Len(tree.children)]
      BY <1>2, <3>1, ChildrenIs
    <3>3. Len(tree.children) \in Nat
      BY <1>2, ContainerHas
    <3> QED BY <3>2, <3>3 DEF Walks
  <2> QED BY <2>2, <2>3, <2>4
<1> QED BY <1>1, <1>2

\* What collects the trees nested at most h deep, below what collects those of a level less.
Layer(below, h, most) == [t \in CookieTrees[h] |-> [n \in Nat |-> CollectValue(below, t, n, most)]]

Collects(c, most) == c = [h \in 0 .. MaxDepth |-> Layer(c[h - 1], h, most)]

LEMMA ValueTyped ==
  ASSUME NEW T, NEW inner, Inner(inner, T), NEW tree \in Leaves \cup Containers(T), NEW n \in Nat,
         NEW most \in Nat
  PROVE  CollectValue(inner, tree, n, most) \in Results
<1>1. CASE tree \in Leaves
  <2>1. CollectValue(inner, tree, n, most) \in {Collected(n, most), Parsed(n)}
    BY <1>1, LeafValue
  <2>2. Parsed(n) \in Results /\ Parsed(n + 1) \in Results /\ Refused \in Results
    BY ResultsAre
  <2>3. Collected(n, most) \in Results
    BY <2>2 DEF Collected
  <2> QED BY <2>1, <2>2, <2>3
<1>2. CASE tree \in Containers(T)
  <2>1. tree.is \in {"array", "object"} /\ Len(tree.children) \in Nat
    BY <1>2, ContainerHas
  <2>2. CollectValue(inner, tree, n, most) = CollectChildren(inner, tree, n)
    BY <2>1 DEF CollectValue
  <2>3. PICK c : Walks(c, inner, tree, n) /\ CollectChildren(inner, tree, n) = c[Len(tree.children)]
    BY <1>2, ChildrenIs
  <2> QED BY <2>1, <2>2, <2>3 DEF Walks
<1> QED BY <1>1, <1>2

\* The trees of a level are leaves, or hold trees of the level below.
LEMMA Levels ==
  /\ MaxDepth \in Nat
  /\ CookieTrees[0] \subseteq Leaves
  /\ \A h \in 1 .. MaxDepth : CookieTrees[h] \subseteq Leaves \cup Containers(CookieTrees[h - 1])
  BY DocumentAssumption

LEMMA LayerTyped ==
  ASSUME NEW h \in 1 .. MaxDepth, NEW below, Inner(below, CookieTrees[h - 1]), NEW most \in Nat
  PROVE  Inner(Layer(below, h, most), CookieTrees[h])
<1> DEFINE T == CookieTrees[h - 1]
           U == CookieTrees[h]
<1>1. U \subseteq Leaves \cup Containers(T) /\ Inner(below, T)
  BY Levels
<1> HIDE DEF T
<1>2. ASSUME NEW t \in U, NEW n \in Nat PROVE CollectValue(below, t, n, most) \in Results
  BY <1>1, <1>2, ValueTyped
<1> QED BY <1>2 DEF Layer, Inner

LEMMA BottomIs ==
  ASSUME NEW x, NEW y, NEW most \in Nat
  PROVE  /\ Layer(x, 0, most) = Layer(y, 0, most)
         /\ Inner(Layer(x, 0, most), CookieTrees[0])
<1>1. ASSUME NEW t \in CookieTrees[0], NEW n \in Nat
      PROVE  /\ CollectValue(x, t, n, most) = CollectValue(y, t, n, most)
             /\ CollectValue(x, t, n, most) \in Results
  <2>1. t \in Leaves
    BY Levels
  <2>2. /\ CollectValue(x, t, n, most) = CollectValue(y, t, n, most)
        /\ CollectValue(x, t, n, most) \in {Collected(n, most), Parsed(n)}
    BY <2>1, LeafValue
  <2>3. Parsed(n) \in Results /\ Parsed(n + 1) \in Results /\ Refused \in Results
    BY ResultsAre
  <2>4. Collected(n, most) \in Results
    BY <2>3 DEF Collected
  <2> QED BY <2>2, <2>3, <2>4
<1> QED BY <1>1 DEF Layer, Inner

LEMMA CollectsExists ==
  ASSUME NEW most \in Nat
  PROVE  \E c : Collects(c, most)
<1> DEFINE m == MaxDepth
           base == Layer(0, 0, most)
           I(h) == [CookieTrees[h] -> [Nat -> Results]]
           S == UNION {I(h) : h \in 0 .. m}
           Next1(s, i) == IF s \in I(i - 1) THEN Layer(s, i, most) ELSE base
           F == [q \in S \X (1 .. m) |-> Next1(q[1], q[2])]
<1>1. m \in Nat
  BY Levels
<1>2. base \in I(0)
  BY BottomIs DEF Inner
<1>3. ASSUME NEW s, NEW i \in 1 .. m, s \in I(i - 1) PROVE Layer(s, i, most) \in I(i)
  <2>1. Inner(s, CookieTrees[i - 1])
    BY <1>3 DEF Inner
  <2> QED BY <2>1, LayerTyped DEF Inner
<1> HIDE DEF base, I
<1>4. base \in S
  BY <1>1, <1>2
<1>5. ASSUME NEW s \in S, NEW i \in 1 .. m PROVE Next1(s, i) \in S
  <2>1. i \in 0 .. m
    BY <1>1
  <2> QED BY <1>3, <1>4, <2>1
<1>6. \A s, i : s \in I(i - 1) => Next1(s, i) = Layer(s, i, most)
  OBVIOUS
<1> HIDE DEF Next1
<1>7. F \in [S \X (1 .. m) -> S]
  BY <1>5
<1>8. \A s \in S : \A i \in 1 .. m : F[<<s, i>>] = Next1(s, i)
  OBVIOUS
<1>9. \A h \in 0 .. m : \A s \in I(h) : s \in S
  OBVIOUS
<1> HIDE DEF F, S, m
<1>10. PICK g \in [0 .. m -> S] : Folds(g, m, base, F)
  BY <1>1, <1>4, <1>7, FoldExists
<1> DEFINE T == {k \in Nat : k <= m => g[k] \in I(k)}
<1>11. 0 \in T /\ T \in SUBSET Nat
  BY <1>2, <1>10 DEF Folds
<1>12. ASSUME NEW i \in 1 .. m, g[i - 1] \in I(i - 1) PROVE g[i] = Layer(g[i - 1], i, most)
  <2>1. g[i] = F[<<g[i - 1], i>>] /\ g[i - 1] \in S
    BY <1>1, <1>10 DEF Folds
  <2> QED BY <1>6, <1>8, <1>12, <2>1
<1>13. ASSUME NEW k \in T PROVE k + 1 \in T
  <2>1. CASE k + 1 <= m
    <3> DEFINE j == k + 1
    <3>1. j \in 1 .. m /\ j - 1 = k /\ g[j - 1] \in I(j - 1)
      BY <1>1, <2>1
    <3> HIDE DEF j
    <3>2. g[j] \in I(j)
      BY <1>3, <1>12, <3>1
    <3> QED BY <3>2 DEF j
  <2>2. CASE ~(k + 1 <= m)
    BY <2>2
  <2> QED BY <2>1, <2>2
<1> HIDE DEF T
<1>14. T = Nat
  BY <1>11, <1>13, Induction
<1>15. ASSUME NEW h \in 0 .. m PROVE g[h] = Layer(g[h - 1], h, most)
  <2>1. CASE h = 0
    <3>1. g[0] = base
      BY <1>10 DEF Folds
    <3>2. base = Layer(g[0 - 1], 0, most)
      BY BottomIs DEF base
    <3> QED BY <2>1, <3>1, <3>2
  <2>2. CASE h # 0
    <3>1. h \in 1 .. m /\ h - 1 \in Nat /\ h - 1 <= m
      BY <1>1, <2>2
    <3>2. g[h - 1] \in I(h - 1)
      BY <1>14, <3>1 DEF T
    <3> QED BY <1>12, <3>1, <3>2
  <2> QED BY <2>1, <2>2
<1>16. Collects(g, most)
  BY <1>10, <1>15 DEF Collects, m
<1> QED BY <1>16

LEMMA CollectIs ==
  ASSUME NEW most \in Nat
  PROVE  \E c : Collects(c, most) /\ \A tree : Collect(tree, most) = c[MaxDepth][tree][0]
<1> DEFINE Is(c) == c = [h \in 0 .. MaxDepth |->
                           [t \in CookieTrees[h] |-> [n \in Nat |-> CollectValue(c[h - 1], t, n, most)]]]
           c == CHOOSE c : Is(c)
<1>1. PICK g : Collects(g, most)
  BY CollectsExists
<1>3. Is(g)
  BY <1>1, Zenon DEF Collects, Layer
<1>4. Is(c)
  BY <1>3
<1>5. \A tree : Collect(tree, most) = c[MaxDepth][tree][0]
  BY DEF Collect
<1> HIDE DEF c
<1>6. Collects(c, most)
  BY <1>4, Zenon DEF Collects, Layer
<1> QED BY <1>5, <1>6

\* At every depth the collection with a limit agrees with the one without.
LEMMA LayerAgrees ==
  ASSUME NEW h \in 1 .. MaxDepth, NEW most \in Nat \ {0}, NEW whole, NEW capped,
         Agree(whole, capped, CookieTrees[h - 1], most)
  PROVE  Agree(Layer(whole, h, 0), Layer(capped, h, most), CookieTrees[h], most)
<1> DEFINE T == CookieTrees[h - 1]
           U == CookieTrees[h]
           w == Layer(whole, h, 0)
           c == Layer(capped, h, most)
<1>1. U \subseteq Leaves \cup Containers(T) /\ Agree(whole, capped, T, most)
  BY Levels
<1> HIDE DEF T
<1>2. Inner(w, U) /\ Inner(c, U)
  BY LayerTyped DEF Agree
<1>3. ASSUME NEW t \in U, NEW n \in Nat PROVE Abreast(w[t][n], c[t][n], n, most)
  <2>1. Abreast(CollectValue(whole, t, n, 0), CollectValue(capped, t, n, most), n, most)
    BY <1>1, ValueAbreast
  <2> QED BY <2>1 DEF Layer
<1> HIDE DEF w, c
<1>4. Agree(w, c, U, most)
  BY <1>2, <1>3 DEF Agree, Abreast
<1> QED BY <1>4 DEF w, c

LEMMA BottomAgrees ==
  ASSUME NEW most \in Nat \ {0}, NEW x, NEW y
  PROVE  Agree(Layer(x, 0, 0), Layer(y, 0, most), CookieTrees[0], most)
<1> DEFINE U == CookieTrees[0]
           w == Layer(x, 0, 0)
           c == Layer(y, 0, most)
<1>1. Inner(w, U) /\ Inner(c, U)
  BY BottomIs
<1>2. ASSUME NEW t \in U, NEW n \in Nat PROVE Abreast(w[t][n], c[t][n], n, most)
  <2>1. t \in Leaves
    BY Levels
  <2>2. Abreast(CollectValue(x, t, n, 0), CollectValue(y, t, n, most), n, most)
    BY <2>1, LeafAbreast
  <2> QED BY <2>2 DEF Layer
<1> HIDE DEF w, c
<1>3. Agree(w, c, U, most)
  BY <1>1, <1>2 DEF Agree, Abreast
<1> QED BY <1>3 DEF w, c

LEMMA TreesFit ==
  ASSUME NEW tree \in CookieTrees[MaxDepth], NEW most \in Nat \ {0}
  PROVE  Fits(Collect(tree, 0), Collect(tree, most), most)
<1> DEFINE m == MaxDepth
<1>1. m \in Nat
  BY Levels
<1>2. PICK w : Collects(w, 0) /\ \A t : Collect(t, 0) = w[m][t][0]
  BY CollectIs
<1>3. PICK c : Collects(c, most) /\ \A t : Collect(t, most) = c[m][t][0]
  BY CollectIs
<1>4. \A h \in 0 .. m : w[h] = Layer(w[h - 1], h, 0) /\ c[h] = Layer(c[h - 1], h, most)
  BY <1>2, <1>3 DEF Collects
<1> DEFINE S == {k \in Nat : k <= m => Agree(w[k], c[k], CookieTrees[k], most)}
<1>5. 0 \in S /\ S \in SUBSET Nat
  <2>1. Agree(Layer(w[0 - 1], 0, 0), Layer(c[0 - 1], 0, most), CookieTrees[0], most)
    BY BottomAgrees
  <2>2. 0 \in 0 .. m
    BY <1>1
  <2>3. Agree(w[0], c[0], CookieTrees[0], most)
    BY <1>4, <2>1, <2>2
  <2> QED BY <2>3
<1>6. ASSUME NEW k \in S PROVE k + 1 \in S
  <2>1. CASE k + 1 <= m
    <3> DEFINE j == k + 1
    <3>1. j \in 1 .. m /\ j \in 0 .. m /\ Agree(w[j - 1], c[j - 1], CookieTrees[j - 1], most)
      BY <1>1, <2>1
    <3> HIDE DEF j
    <3>2. Agree(Layer(w[j - 1], j, 0), Layer(c[j - 1], j, most), CookieTrees[j], most)
      BY <3>1, LayerAgrees
    <3>3. Agree(w[j], c[j], CookieTrees[j], most)
      BY <1>4, <3>1, <3>2
    <3> QED BY <3>3 DEF j
  <2>2. CASE ~(k + 1 <= m)
    BY <2>2
  <2> QED BY <2>1, <2>2
<1> HIDE DEF S
<1>7. S = Nat
  BY <1>5, <1>6, Induction
<1>8. Agree(w[m], c[m], CookieTrees[m], most)
  BY <1>1, <1>7 DEF S
<1>9. Fits(w[m][tree][0], c[m][tree][0], most)
  BY <1>8 DEF Agree
<1> QED BY <1>2, <1>3, <1>9

\* A file of cookies that exists.
CookieFiles ==
  [kind : {"json"}, tree : CookieTrees[MaxDepth]] \cup [kind : {"text"}, lines : Seq(Lines)]

\* The cookies of a file are let in exactly if there are no more than the limit.
THEOREM CollectAlwaysFits ==
  \A given \in CookieFiles : CollectFits(given)
<1> SUFFICES ASSUME NEW given \in CookieFiles PROVE CollectFits(given)
  OBVIOUS
<1> DEFINE Of(most) == IF given.kind = "text" THEN CollectLines(given.lines, most) ELSE Collect(given.tree, most)
           whole == Of(0)
           capped == Of(EntryLimit)
<1>1. EntryLimit \in Nat \ {0}
  BY DocumentAssumption
<1>2. Fits(whole, capped, EntryLimit)
  <2>1. CASE given.kind = "text"
    <3>1. Len(given.lines) \in Nat
      BY <2>1 DEF CookieFiles
    <3>2. Fits(CollectLines(given.lines, 0), CollectLines(given.lines, EntryLimit), EntryLimit)
      BY <1>1, <3>1, LinesFit
    <3> QED BY <2>1, <3>2
  <2>2. CASE given.kind # "text"
    <3>1. given.tree \in CookieTrees[MaxDepth]
      BY <2>2 DEF CookieFiles
    <3>2. Fits(Collect(given.tree, 0), Collect(given.tree, EntryLimit), EntryLimit)
      BY <1>1, <3>1, TreesFit
    <3> QED BY <2>2, <3>2
  <2> QED BY <2>1, <2>2
<1>3. \A most : SsoValues(given, most) = IF Of(most).n = 0 THEN Refused ELSE Of(most)
  BY DEF SsoValues
<1>4. /\ SsoValues(given, 0) = IF whole.n = 0 THEN Refused ELSE whole
      /\ SsoValues(given, EntryLimit) = IF capped.n = 0 THEN Refused ELSE capped
  BY <1>3
<1> HIDE DEF Of, whole, capped
<1>5. whole.n \in Nat /\ 0 <= EntryLimit
  BY <1>1, <1>2, ResultsAre DEF Fits
<1>6. CASE whole.n = 0
  <2>1. capped = whole
    BY <1>2, <1>5, <1>6 DEF Fits
  <2> QED BY <1>4, <1>5, <1>6, <2>1, ResultsAre DEF CollectFits
<1>7. CASE whole.n # 0 /\ whole.n <= EntryLimit
  <2>1. capped = whole
    BY <1>2, <1>7 DEF Fits
  <2> QED BY <1>4, <1>7, <2>1 DEF CollectFits
<1>8. CASE ~(whole.n <= EntryLimit)
  <2>1. capped = Refused /\ whole.n # 0
    BY <1>2, <1>5, <1>8 DEF Fits
  <2> QED BY <1>4, <1>8, <2>1, ResultsAre DEF CollectFits
<1> QED BY <1>6, <1>7, <1>8

\* Every file is treated as its limit says.
THEOREM LimitAlwaysOK ==
  \A given \in ImportFile : LimitOK(given)
<1> SUFFICES ASSUME NEW given \in ImportFile PROVE LimitOK(given)
  OBVIOUS
<1>1. CASE given \in [kind : {"auth"}, docs : CredentialFiles]
  <2>1. given.kind = "auth" /\ given.docs \in Seq(Documents)
    BY <1>1, DocumentAssumption
  <2> QED BY <2>1, CountAlwaysFits DEF LimitOK
<1>2. CASE given \in [kind : {"json"}, tree : CookieTrees[MaxDepth]] \cup [kind : {"text"}, lines : TextFiles]
  <2>1. given.kind # "auth" /\ given \in CookieFiles
    BY <1>2, DocumentAssumption DEF CookieFiles
  <2> QED BY <2>1, CollectAlwaysFits DEF LimitOK
<1> QED BY <1>1, <1>2 DEF ImportFile

\* At "files" the document stays the file it was: an import is decided on the file as a
\* whole, however its entries are nested, counted or collected (parse.go of authimport and
\* of ssoimport).
THEOREM LimitsAlwaysExact == ConsoleSpec => []LimitsExact
<1> DEFINE FileThere == part = "files" => document \in ImportFile
<1>1. ConsoleInit => FileThere
  BY DEF ConsoleInit
<1>2. FileThere /\ [ConsoleNext]_consoleVars => FileThere'
  BY DEF ConsoleNext, consoleVars
<1>3. FileThere => LimitsExact
  BY LimitAlwaysOK DEF LimitsExact
<1> QED BY <1>1, <1>2, <1>3, PTL DEF ConsoleSpec
================================================================================
