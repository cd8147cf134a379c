---------------------------- MODULE MCImportJobs -----------------------------
(* Two uploads and a request for files of the server compete for one or two   *)
(* slots; the table keeps one finished job; the process may die once.         *)
EXTENDS ImportJobs, TLC
CONSTANTS u1, u2, p1
MCUploads == {u1, u2}
MCPathRequests == {p1}
MCSymmetry == Permutations(MCUploads)
MCLimits == {1, 2}
MCInputs ==
  { << [format |-> "ndjson", entries |-> <<"a", "a">>] >>,
    << [format |-> "json", entries |-> <<"a", "b", Bad>>], [format |-> "sso", entries |-> <<"c">>] >> }
==============================================================================
