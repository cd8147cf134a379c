------------------------------- MODULE MCConsole -------------------------------
(* TLC instance of Console.                                                 *)
EXTENDS Console, SequencesExt, TLC

CONSTANTS c1, c2, w1, w2, w3, MaxItems

\* One converter, two import files: two workers for the one, one for the other.
MCCallOf == (w1 :> c1) @@ (w2 :> c1) @@ (w3 :> c2)

MCYaml == [hot |-> 1, conc |-> 1, listen |-> 1, rest |-> 1, badSSO |-> FALSE]

\* A PUT with zeros, one beyond the bound and with another address, one whose
\* converter is refused.
MCBodies ==
  {[hot |-> 2, conc |-> 0, listen |-> 0, rest |-> 2, badSSO |-> FALSE],
   [hot |-> 0, conc |-> 3, listen |-> 2, rest |-> 3, badSSO |-> FALSE],
   [hot |-> 2, conc |-> 1, listen |-> 0, rest |-> 3, badSSO |-> TRUE]}

NoToken == [key |-> FALSE, access |-> FALSE, refresh |-> FALSE, type |-> "",
            cpa |-> FALSE, broken |-> "", odd |-> FALSE]

\* No token, a plain one, one in odd capitals, a CPA export without and with
\* its type, a field of another type, an expiry nobody can read.
MCEntries ==
  {NoToken, [NoToken EXCEPT !.key = TRUE], [NoToken EXCEPT !.odd = TRUE],
   [NoToken EXCEPT !.access = TRUE, !.cpa = TRUE],
   [NoToken EXCEPT !.access = TRUE, !.cpa = TRUE, !.type = "xai"],
   [NoToken EXCEPT !.broken = "field"],
   [NoToken EXCEPT !.refresh = TRUE, !.broken = "value"]}

\* Arrays, objects and files of at most MaxItems; of two documents in a row neither
\* is long.
UpTo(S) == BoundedSeq(S, MaxItems)

MCMembers ==
  [name : {"accounts"}, is : {"array"}, items : UpTo(Entries)]
    \cup [name : {"accounts"}, is : {"scalar"}]
    \cup [name : {"other"}, is : {"entry"}, entry : Entries]
    \cup [name : {"other"}, is : {"scalar"}]

MCDocuments ==
  [is : {"array"}, items : UpTo(Entries)]
    \cup [is : {"object"}, own : Entries, members : {<<>>}]
    \cup [is : {"object"}, own : {e \in Entries : ~HasToken(e) /\ Decodes(e)}, members : UpTo(MCMembers)]
    \cup [is : {"scalar"}]

Short(d) == (d.is = "array" => Len(d.items) < 2) /\ (d.is = "object" => Len(d.members) < 2)
ShortDocuments == {d \in MCDocuments : Short(d)}

MCCredentialFiles == {<<>>} \cup {<<d>> : d \in MCDocuments} \cup {<<d, f>> : d, f \in ShortDocuments}

\* Containers of leaves, and of one container of leaves.
MCCookieTrees ==
  LET of(S) == [is : {"array", "object"}, children : UpTo([sso : BOOLEAN, tree : S])]
      alone(S) == [is : {"array", "object"}, children : {<<c>> : c \in [sso : BOOLEAN, tree : S]}]
      flat == Leaves \cup of(Leaves)
  IN  [h \in 0 .. 2 |-> CASE h = 0 -> Leaves [] h = 1 -> flat [] h = 2 -> flat \cup alone(of(Leaves))]

MCTextFiles == BoundedSeq(Lines, MaxItems + 1)
================================================================================
