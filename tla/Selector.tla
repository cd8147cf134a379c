------------------------------ MODULE Selector ------------------------------
(***************************************************************************)
(* The account selector (internal/selector/selector.go) over its sticky    *)
(* table, with several picks at once.  A pick reads its configuration and  *)
(* the pointer to the table under one lock, looks its key up under the     *)
(* table's, reads the hot index once per account it considers, takes a     *)
(* turn of the round robin under a third lock and binds the key under the  *)
(* table's again: between any two of these the others run.                 *)
(*                                                                         *)
(* The hot index appears as the set of accounts it would call eligible.    *)
(***************************************************************************)
EXTENDS StickyLRU

CONSTANTS
    Pickers,    \* goroutines inside PickExcluding
    Priority,   \* account -> HotMeta.Priority (rises and falls with its score)
    Rank,       \* account -> its place in the order of ids
    Tried,      \* the exclusion sets a caller may pass
    Pow2K,      \* Config.Pow2K, candidates of one sample
    Jitter,     \* Config.JitterAmp
    CursorMod,  \* the cursor counts modulo this (a multiple of every layer's size)
    MaxPicks,   \* picks begun, a limit of the model
    MaxCalls    \* calls of everyone else, a limit of the model

ASSUME CursorAssumption ==
    /\ IsFiniteSet(Accounts) /\ CursorMod \in Nat \ {0}
    /\ \A n \in 1..Cardinality(Accounts) : CursorMod % n = 0
ASSUME RankAssumption ==
    /\ Priority \in [Accounts -> Int] /\ Rank \in [Accounts -> Int]
    /\ \A a, b \in Accounts : Rank[a] = Rank[b] => a = b

VARIABLES
    eligible,   \* accounts EligibleMeta accepts now
    strategy,   \* Config.Strategy
    cursor,     \* rrCursor
    begun,      \* picks begun so far
    calls,      \* calls of everyone else so far
    pick,       \* picker -> its pick
    turns       \* history: how often each member of a layer had its turn

selVars == <<eligible, strategy, cursor, begun, calls, pick, turns>>

NoKey == None   \* an empty sticky key

Strategies == {"stable_rr", "pow2_least_load"}

Idle == [pc |-> "idle", key |-> NoKey, strategy |-> "stable_rr", exclude |-> {},
         current |-> TRUE, primary |-> None, secondary |-> None,
         layer |-> {}, id |-> None, seen |-> {}, always |-> {}]

SelInit ==
    /\ Init
    /\ eligible = Accounts
    /\ strategy = "stable_rr"
    /\ cursor = 0
    /\ begun = 0
    /\ calls = 0
    /\ pick = [p \in Pickers |-> Idle]
    /\ turns = [layer |-> {}, count |-> [a \in Accounts |-> 0]]

At(p, pc) == pick[p].pc = pc

Step(p, next) == pick' = [pick EXCEPT ![p] = next]

\* What a pick returns stays readable until the next one: "done".
Return(p, a) ==
    Step(p, [pick[p] EXCEPT !.pc = "done", !.id = a, !.layer = {}, !.key = NoKey,
                            !.primary = None, !.secondary = None, !.current = TRUE])

-----------------------------------------------------------------------------
(* PickExcluding.                                                          *)

\* The configuration and the table, under s.mu.
Begin(p) ==
    /\ pick[p].pc \in {"idle", "done"}
    /\ begun < MaxPicks
    /\ begun' = begun + 1
    /\ \E k \in Keys \cup {NoKey}, tried \in Tried :
          pick' = [pick EXCEPT ![p] = [Idle EXCEPT
                !.pc = IF k = NoKey THEN "draw" ELSE "lookup", !.key = k,
                !.exclude = tried, !.strategy = strategy,
                !.seen = eligible, !.always = eligible]]
    /\ UNCHANGED <<vars, eligible, strategy, cursor, calls, turns>>

\* sticky.getPair.  A table that ApplyConfig has replaced meanwhile is still
\* read; all it can hold is a pair of distinct accounts, or nothing.
Lookup(p) ==
    /\ At(p, "lookup")
    /\ \/ /\ pick[p].current
          /\ LET k == pick[p].key
                 live == Bound(k) /\ ~Expired(k)
             IN  /\ GetPair(k) \/ (~Bound(k) /\ UNCHANGED vars)
                 /\ Step(p, [pick[p] EXCEPT
                        !.pc = IF live THEN "primary" ELSE "draw",
                        !.primary = IF live THEN entry[k].primary ELSE None,
                        !.secondary = IF live THEN entry[k].secondary ELSE None])
       \/ /\ ~pick[p].current
          /\ UNCHANGED vars
          /\ \/ Step(p, [pick[p] EXCEPT !.pc = "draw"])
             \/ \E a \in Accounts, b \in Accounts \cup {None} :
                   /\ a # b
                   /\ Step(p, [pick[p] EXCEPT !.pc = "primary", !.primary = a, !.secondary = b])
    /\ UNCHANGED <<eligible, strategy, cursor, begun, calls, turns>>

Usable(p, a) == a # None /\ a \notin pick[p].exclude /\ a \in eligible

CheckPrimary(p) ==
    /\ At(p, "primary")
    /\ IF Usable(p, pick[p].primary)
         THEN Return(p, pick[p].primary)
         ELSE Step(p, [pick[p] EXCEPT !.pc = "secondary"])
    /\ UNCHANGED <<vars, eligible, strategy, cursor, begun, calls, turns>>

\* Mutant: the fallback is trusted without asking the hot index.
CheckSecondary_Trusts(p) ==
    /\ At(p, "secondary")
    /\ IF pick[p].secondary \notin pick[p].exclude \cup {None}
         THEN Step(p, [pick[p] EXCEPT !.pc = "bind", !.id = pick[p].secondary])
         ELSE Step(p, [pick[p] EXCEPT !.pc = "draw"])
    /\ UNCHANGED <<vars, eligible, strategy, cursor, begun, calls, turns>>

CheckSecondary(p) ==
    /\ At(p, "secondary")
    /\ IF Usable(p, pick[p].secondary)
         THEN Step(p, [pick[p] EXCEPT !.pc = "bind", !.id = pick[p].secondary])
         ELSE Step(p, [pick[p] EXCEPT !.pc = "draw"])
    /\ UNCHANGED <<vars, eligible, strategy, cursor, begun, calls, turns>>

Candidates(p) == eligible \ pick[p].exclude

\* The accounts of the highest priority among C.
TopLayer(C) == {a \in C : \A b \in C : Priority[b] <= Priority[a]}

\* stableRRPick's reading of the index, or nothing to pick.
DrawLayer(p) ==
    /\ At(p, "draw")
    /\ pick[p].strategy = "stable_rr"
    /\ IF Candidates(p) = {}
         THEN Return(p, None)
         ELSE Step(p, [pick[p] EXCEPT !.pc = "turn", !.layer = TopLayer(Candidates(p))])
    /\ UNCHANGED <<vars, eligible, strategy, cursor, begun, calls, turns>>

\* cands[i] of a layer sorted by id.
Nth(layer, i) ==
    CHOOSE a \in layer : Cardinality({b \in layer : Rank[b] < Rank[a]}) = i

Least(count, layer) ==
    CHOOSE n \in {count[a] : a \in layer} : \A a \in layer : n <= count[a]

\* The history restarts with every other layer and counts from its least member.
Counted(layer, a) ==
    LET before == IF turns.layer = layer THEN turns.count ELSE [b \in Accounts |-> 0]
        after == [before EXCEPT ![a] = @ + 1]
    IN  [layer |-> layer,
         count |-> [b \in Accounts |->
                      IF b \in layer THEN after[b] - Least(after, layer) ELSE 0]]

\* Mutant: only a pick that binds a key moves the cursor on.
TakeTurn_WhenSticky(p) ==
    /\ At(p, "turn")
    /\ LET a == Nth(pick[p].layer, cursor % Cardinality(pick[p].layer))
       IN  /\ Step(p, [pick[p] EXCEPT !.pc = "bind", !.id = a])
           /\ turns' = Counted(pick[p].layer, a)
    /\ cursor' = IF pick[p].key = NoKey THEN cursor ELSE (cursor + 1) % CursorMod
    /\ UNCHANGED <<vars, eligible, strategy, begun, calls>>

\* The cursor, under rrMu.
TakeTurn(p) ==
    /\ At(p, "turn")
    /\ LET a == Nth(pick[p].layer, cursor % Cardinality(pick[p].layer))
       IN  /\ Step(p, [pick[p] EXCEPT !.pc = "bind", !.id = a])
           /\ turns' = Counted(pick[p].layer, a)
    /\ cursor' = (cursor + 1) % CursorMod
    /\ UNCHANGED <<vars, eligible, strategy, begun, calls>>

\* b scores more than a whatever the two samples of the jitter.
Outscores(b, a) ==
    IF Jitter = 0
      THEN \/ Priority[b] > Priority[a]
           \/ /\ Priority[b] = Priority[a]
              /\ Rank[b] < Rank[a]
      ELSE Priority[b] - Priority[a] >= 2 * Jitter

\* pow2Pick: SampleEligible returns K distinct candidates, or all there are.
DrawSample(p) ==
    /\ At(p, "draw")
    /\ pick[p].strategy = "pow2_least_load"
    /\ \/ Candidates(p) = {} /\ Return(p, None)
       \/ \E S \in SUBSET Candidates(p), a \in Candidates(p) :
             /\ \/ Cardinality(S) = Pow2K
                \/ Cardinality(S) < Pow2K /\ S = Candidates(p)
             /\ a \in S
             /\ \A b \in S : ~Outscores(b, a)
             /\ Step(p, [pick[p] EXCEPT !.pc = "bind", !.id = a])
    /\ UNCHANGED <<vars, eligible, strategy, cursor, begun, calls, turns>>

\* sticky.put of the account drawn, or of the secondary that takes over.
Bind(p) ==
    /\ At(p, "bind")
    /\ IF pick[p].key # NoKey /\ pick[p].current
         THEN Put(pick[p].key, pick[p].id)
         ELSE UNCHANGED vars
    /\ Return(p, pick[p].id)
    /\ UNCHANGED <<eligible, strategy, cursor, begun, calls, turns>>

-----------------------------------------------------------------------------
(* The callers of the other methods.                                       *)

Called == calls < MaxCalls /\ calls' = calls + 1

OthersUnchanged == UNCHANGED <<eligible, strategy, cursor, begun, pick, turns>>

\* A report or an administrator takes an account out of the eligible ones ...
Bar(a) ==
    /\ a \in eligible
    /\ Called
    /\ eligible' = eligible \ {a}
    /\ pick' = [p \in Pickers |-> [pick[p] EXCEPT !.always = @ \ {a}]]
    /\ UNCHANGED <<vars, strategy, cursor, begun, turns>>

\* ... and a cooldown runs out, or a success brings it back.
Recover(a) ==
    /\ a \notin eligible
    /\ Called
    /\ eligible' = eligible \cup {a}
    /\ pick' = [p \in Pickers |-> [pick[p] EXCEPT
                    !.seen = IF pick[p].pc \in {"idle", "done"} THEN @ ELSE @ \cup {a}]]
    /\ UNCHANGED <<vars, strategy, cursor, begun, turns>>

\* The release of a failed lease (lease.go): ClearStickyAccount, ClearStickyKey.
ClearStickyAccount(a) == DeleteAccount(a) /\ Called /\ OthersUnchanged

ClearStickyKey(k) == DeleteKey(k) /\ Called /\ OthersUnchanged

\* A worker repeats a binding of the cluster (worker/leaser.go).
BindSticky(k, a) == Put(k, a) /\ Called /\ OthersUnchanged

BindStickySecondary(k, a) == PutSecondary(k, a) /\ Called /\ OthersUnchanged

\* A changed capacity or TTL starts an empty table; picks under way keep the
\* old one, and what they bind in it is lost.
ApplyConfig ==
    /\ Called
    /\ strategy' \in Strategies
    /\ \/ UNCHANGED <<vars, pick>>
       \/ /\ entry' = [k \in Keys |-> Absent]
          /\ older' = {}
          /\ byAcct' = [a \in Accounts |-> {}]
          /\ pick' = [p \in Pickers |-> [pick[p] EXCEPT !.current = FALSE]]
          /\ UNCHANGED now
    /\ UNCHANGED <<eligible, cursor, begun, turns>>

SelNext ==
    \/ \E p \in Pickers :
          \/ Begin(p) \/ Lookup(p) \/ CheckPrimary(p) \/ CheckSecondary(p)
          \/ DrawLayer(p) \/ TakeTurn(p) \/ DrawSample(p) \/ Bind(p)
    \/ \E a \in Accounts : Bar(a) \/ Recover(a) \/ ClearStickyAccount(a)
    \/ \E k \in Keys : ClearStickyKey(k)
    \/ \E k \in Keys, a \in Accounts : BindSticky(k, a) \/ BindStickySecondary(k, a)
    \/ ApplyConfig
    \/ Tick /\ Called /\ OthersUnchanged

SelSpec == SelInit /\ [][SelNext]_<<vars, selVars>>

-----------------------------------------------------------------------------
(* Properties.                                                             *)

\* However stale the binding a pick has read, restored or is about to write,
\* it answers only with an account that was eligible at some moment of the
\* pick and that its caller has not tried, and gives up only when no untried
\* account was eligible the whole time.  (A pick may bind an account again
\* that ClearStickyAccount has just removed: that account is not answered
\* before it is eligible again.)
AnswersEligible ==
    \A p \in Pickers : At(p, "done") =>
        IF pick[p].id # None
          THEN pick[p].id \in pick[p].seen \ pick[p].exclude
          ELSE pick[p].always \subseteq pick[p].exclude

\* While the layer the picks draw from stays the same, concurrent picks share
\* it evenly: no account gets two turns more than another.
RoundRobinFair ==
    \A a, b \in turns.layer : turns.count[a] <= turns.count[b] + 1
=============================================================================
