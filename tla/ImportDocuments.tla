---------------------------- MODULE ImportDocuments ----------------------------
(***************************************************************************)
(* What an import file holds: documents of credentials                     *)
(* (internal/authimport/parse.go) or SSO cookies                           *)
(* (internal/ssoimport/parse.go), these in JSON or line by line.  The      *)
(* limit on entries is enforced in two ways: credentials are counted by a  *)
(* pass of its own before they are parsed, cookies while they are          *)
(* collected.                                                              *)
(*                                                                         *)
(* An entry says only which of its tokens are there, what decides its      *)
(* validity (broken: "field", a token of another JSON type, or "value", an *)
(* expiry or issuer that is refused), and whether a token is spelled with  *)
(* other capitals (odd), which one of the two passes reads.                *)
(***************************************************************************)
EXTENDS Integers, Sequences

CONSTANTS
  Entries,          \* entries: [key, access, refresh, type, cpa, broken, odd]
  MaxDepth,         \* bound on the nesting of JSON cookies
  CookieTrees,      \* CookieTrees[h]: JSON nested at most h deep
  CredentialFiles,  \* files of credentials, as sequences of documents
  TextFiles,        \* files of cookies, as sequences of lines
  EntryLimit,       \* the limit on entries
  MaxWarnings       \* maxImportWarnings

Refused == [ok |-> FALSE, n |-> 0]
Parsed(n) == [ok |-> TRUE, n |-> n]

\* Results side by side: one failure fails all.
Join(r, s) == IF r.ok /\ s.ok THEN Parsed(r.n + s.n) ELSE Refused

JoinAll(rs) ==
  LET joined[i \in 0 .. Len(rs)] == IF i = 0 THEN Parsed(0) ELSE Join(joined[i - 1], rs[i])
  IN  joined[Len(rs)]

-----------------------------------------------------------------------------
(* Parsing credentials.                                                    *)

HasToken(e) == e.key \/ e.access \/ e.refresh

\* The type is "xai" or nothing, and must be there for a CPA export.
ValidCPAType(e) ==
  /\ e.type \in {"", "xai"}
  /\ ~e.key /\ e.access /\ e.cpa => e.type = "xai"

\* decodeEntry: unknown fields are left out, a known one must have its type.
Decodes(e) == e.broken # "field"

\* normalizeEntry: the expiry can be read and the issuer is trusted.
Normalizes(e) == e.broken # "value"

ParseEntry(e) ==
  IF Decodes(e) /\ HasToken(e) /\ ValidCPAType(e) /\ Normalizes(e) THEN Parsed(1) ELSE Refused

\* An array must have entries and each must have a token.
ParseArray(items) ==
  IF items = <<>> THEN Refused ELSE JoinAll([i \in 1 .. Len(items) |-> ParseEntry(items[i])])

IsList(m) == m.name = "accounts"

ParseMember(m) ==
  IF IsList(m) THEN (IF m.is = "array" THEN ParseArray(m.items) ELSE Refused)
  ELSE IF m.is # "entry" THEN Parsed(0)                    \* a warning
  ELSE IF ~Decodes(m.entry) THEN Refused
  ELSE IF ~HasToken(m.entry) THEN Parsed(0)                \* a warning
  ELSE ParseEntry(m.entry)

ParseMembers(members) == JoinAll([i \in 1 .. Len(members) |-> ParseMember(members[i])])

\* An object with a token of its own is one entry, whatever else it holds.
ParseObject(d) ==
  IF ~Decodes(d.own) THEN Refused
  ELSE IF HasToken(d.own) THEN ParseEntry(d.own)
  ELSE IF ParseMembers(d.members).n = 0 THEN Refused
  ELSE ParseMembers(d.members)

ParseDocument(d) ==
  IF d.is = "array" THEN ParseArray(d.items)
  ELSE IF d.is = "object" THEN ParseObject(d)
  ELSE Refused

\* Several documents in a row must each be good.
ParseFile(docs) ==
  IF docs = <<>> THEN Refused ELSE JoinAll([i \in 1 .. Len(docs) |-> ParseDocument(docs[i])])

-----------------------------------------------------------------------------
(* Counting them.  Beyond stands for limit + 1, Malformed for an error.    *)

Beyond == -1
Malformed == -2

\* json.Unmarshal matches names whatever their capitals.
RawHasToken(e) == Decodes(e) /\ (HasToken(e) \/ e.odd)

CountArray(items, limit) == IF Len(items) > limit THEN Beyond ELSE Len(items)

\* Mutant: a list in an object has the whole limit to itself.
CountMember_WholeLimit(count, m, limit) ==
  IF IsList(m)
    THEN IF m.is # "array" THEN Malformed
         ELSE IF Len(m.items) > limit THEN Beyond ELSE count + Len(m.items)
    ELSE IF m.is = "entry" /\ RawHasToken(m.entry)
           THEN (IF count + 1 > limit THEN Beyond ELSE count + 1)
           ELSE count

\* One member more of an object that had count entries so far.
CountMember(count, m, limit) ==
  IF IsList(m)
    THEN IF m.is # "array" THEN Malformed
         ELSE IF Len(m.items) > limit - count THEN Beyond ELSE count + Len(m.items)
    ELSE IF m.is = "entry" /\ RawHasToken(m.entry)
           THEN (IF count + 1 > limit THEN Beyond ELSE count + 1)
           ELSE count

\* The i-th of them; those beyond the limit and the warnings kept are not looked at.
CountNext(count, members, i, limit) ==
  IF count < 0 THEN count
  ELSE IF i > limit + MaxWarnings THEN Beyond
  ELSE CountMember(count, members[i], limit)

CountMap(members, limit) ==
  LET counted[i \in 0 .. Len(members)] ==
        IF i = 0 THEN 0 ELSE CountNext(counted[i - 1], members, i, limit)
  IN  counted[Len(members)]

CountDocument(d, limit) ==
  IF d.is = "array" THEN CountArray(d.items, limit)
  ELSE IF d.is # "object" \/ ~Decodes(d.own) THEN Malformed
  ELSE IF HasToken(d.own) THEN 1
  ELSE CountMap(d.members, limit)

\* A document has what those before it left of the limit.
CountMore(total, d) ==
  IF total < 0 THEN total
  ELSE IF EntryLimit - total <= 0 THEN Beyond
  ELSE LET n == CountDocument(d, EntryLimit - total)
       IN  IF n < 0 THEN n ELSE total + n

CountFile(docs) ==
  LET counted[i \in 0 .. Len(docs)] == IF i = 0 THEN 0 ELSE CountMore(counted[i - 1], docs[i])
  IN  counted[Len(docs)]

-----------------------------------------------------------------------------
(* Collecting cookies.                                                     *)

\* One value more; no limit when it is 0.
Collected(n, limit) == IF limit > 0 /\ n >= limit THEN Refused ELSE Parsed(n + 1)

\* The children of a container one after the other, of an object the members named
\* like a cookie; inner[t][n] collects the values in t, after n others.
CollectChildren(inner, tree, n) ==
  LET walked[i \in 0 .. Len(tree.children)] ==
        IF i = 0 THEN Parsed(n)
        ELSE LET r == walked[i - 1]
                 child == tree.children[i]
             IN  IF ~r.ok \/ (tree.is = "object" /\ ~child.sso) THEN r
                 ELSE inner[child.tree][r.n]
  IN  walked[Len(tree.children)]

CollectValue(inner, tree, n, limit) ==
  CASE tree.is = "string" -> IF tree.blank THEN Parsed(n) ELSE Collected(n, limit)
    [] tree.is = "other" -> Parsed(n)
    [] tree.is \in {"array", "object"} -> CollectChildren(inner, tree, n)

\* Strings, of lists at any depth and of such members.
Collect(tree, limit) ==
  LET collect[h \in 0 .. MaxDepth] ==
        [t \in CookieTrees[h] |-> [n \in Nat |-> CollectValue(collect[h - 1], t, n, limit)]]
  IN  collect[MaxDepth][tree][0]

\* Lines of text: empty ones and comments are no values.
CollectLine(r, line, limit) == IF ~r.ok \/ line # "value" THEN r ELSE Collected(r.n, limit)

CollectLines(lines, limit) ==
  LET collected[i \in 0 .. Len(lines)] ==
        IF i = 0 THEN Parsed(0) ELSE CollectLine(collected[i - 1], lines[i], limit)
  IN  collected[Len(lines)]

\* ParseSSOValues: a file without any value is refused.
SsoValues(file, limit) ==
  LET r == IF file.kind = "text" THEN CollectLines(file.lines, limit) ELSE Collect(file.tree, limit)
  IN  IF r.n = 0 THEN Refused ELSE r

-----------------------------------------------------------------------------
(* Files.                                                                  *)

Members ==
  [name : {"accounts"}, is : {"array"}, items : Seq(Entries)]
    \cup [name : {"accounts"}, is : {"scalar"}]
    \cup [name : {"other"}, is : {"entry"}, entry : Entries]
    \cup [name : {"other"}, is : {"scalar"}]

Documents ==
  [is : {"array"}, items : Seq(Entries)]
    \cup [is : {"object"}, own : Entries, members : Seq(Members)]
    \cup [is : {"scalar"}]

Leaves == [is : {"string"}, blank : BOOLEAN] \cup [is : {"other"}]
Containers(S) == [is : {"array", "object"}, children : Seq([sso : BOOLEAN, tree : S])]

Lines == {"value", "blank", "comment"}

ImportFile ==
  [kind : {"auth"}, docs : CredentialFiles]
    \cup [kind : {"json"}, tree : CookieTrees[MaxDepth]]
    \cup [kind : {"text"}, lines : TextFiles]

ASSUME DocumentAssumption ==
  /\ CredentialFiles \subseteq Seq(Documents) /\ TextFiles \subseteq Seq(Lines)
  /\ MaxDepth \in Nat
  /\ CookieTrees[0] \subseteq Leaves
  /\ \A h \in 1 .. MaxDepth : CookieTrees[h] \subseteq Leaves \cup Containers(CookieTrees[h - 1])
  /\ EntryLimit \in Nat \ {0} /\ MaxWarnings \in Nat

-----------------------------------------------------------------------------

OddEntry(e) == e.odd /\ ~HasToken(e)

\* Members an entry count has no use for, beyond those that are warned of.
Crowded(d) == d.is = "object" /\ Len(d.members) > MaxWarnings

Odd(d) ==
  d.is = "object" /\ \E i \in DOMAIN d.members :
    d.members[i].is = "entry" /\ OddEntry(d.members[i].entry)

\* A good file of credentials is let in exactly if it has no more than EntryLimit.
\* Only for unknown members, many or in odd capitals, the count may refuse too much.
CountFits(docs) ==
  LET parse == ParseFile(docs)
      count == CountFile(docs)
  IN  parse.ok =>
        /\ parse.n > EntryLimit => count = Beyond
        /\ parse.n <= EntryLimit =>
             count = parse.n \/ \E i \in DOMAIN docs : Crowded(docs[i]) \/ Odd(docs[i])

\* A file of cookies is let in exactly if without a limit it has no more.
CollectFits(file) ==
  LET whole == SsoValues(file, 0)
  IN  SsoValues(file, EntryLimit) = IF whole.n <= EntryLimit THEN whole ELSE Refused

\* What is enforced before or while a file is read decides as the whole file would.
LimitOK(file) == IF file.kind = "auth" THEN CountFits(file.docs) ELSE CollectFits(file)
================================================================================
