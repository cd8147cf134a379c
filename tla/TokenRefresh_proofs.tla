------------------------ MODULE TokenRefresh_proofs ------------------------
(* Proofs about TokenRefresh, for any number of accounts, callers, faults   *)
(* and writes by others.                                                    *)
EXTENDS TokenRefresh, TLAPS

-----------------------------------------------------------------------------
(* Types.                                                                  *)

Row == [listed : BOOLEAN, rev : Nat, gen : Nat, rt : Nat, exp : Nat,
        active : BOOLEAN, cu : Nat, reborn : BOOLEAN]

Flight == [at : Places, leader : Callers \cup {"none"}, rev : Nat,
           mint : Tokens, cu : Nat, ret : Tokens, began : Nat]

FlightsOK ==
    /\ flight \in [Keys -> Flight]
    /\ \A k \in Keys : flight[k].at # "none" => flight[k].leader \in Callers
    /\ \A k \in Keys : flight[k].at \in Minted => flight[k].mint \in Issued

CallersOK ==
    /\ pc \in [Callers -> {"idle", "get", "do", "wait", "done"}]
    /\ key \in [Callers -> Keys \cup {NoKey}]
    /\ \A r \in Callers : pc[r] # "idle" => key[r] \in Keys
    /\ done \in [Callers -> BOOLEAN]
    /\ got \in [Callers -> Tokens]

RowsOK ==
    /\ now \in 0..MaxClock
    /\ row \in [Accounts -> Row]
    /\ issued \in [Accounts -> Nat]
    /\ valid \in [Accounts -> SUBSET Nat]
    /\ faults \in Nat
    /\ spent \in [Accounts -> Int]

QueuesOK ==
    /\ scan \subseteq Nat \X Accounts
    /\ jobs \in Seq(Accounts)

LEMMA TypeSplit == TypeOK <=> RowsOK /\ FlightsOK /\ CallersOK /\ QueuesOK
  BY DEF TypeOK, RowsOK, FlightsOK, CallersOK, QueuesOK, Row, Flight

LEMMA KeyParts ==
  ASSUME NEW k \in Keys
  PROVE  k[1] \in Kinds /\ k[2] \in Accounts /\ k = <<k[1], k[2]>>
  BY DEF Keys

LEMMA Singles ==
  /\ Failed \in Tokens
  /\ NoFlight \in Flight
  BY DEF Failed, Tokens, NoFlight, Flight, Places, NoGen

LEMMA FirstRowTyped == \A a \in Accounts : NewRow(a) \in Row
  BY ExpAssumption DEF NewRow, Row

LEMMA TypeInit == Init => TypeOK
<1> SUFFICES ASSUME Init PROVE RowsOK /\ FlightsOK /\ CallersOK /\ QueuesOK
  BY TypeSplit
<1>1. RowsOK
  BY LimitsAssumption, FirstRowTyped DEF Init, RowsOK
<1>2. FlightsOK
  BY Singles DEF Init, FlightsOK, NoFlight, Minted
<1>3. CallersOK
  BY Singles DEF Init, CallersOK
<1>4. QueuesOK
  BY DEF Init, QueuesOK
<1> QED BY <1>1, <1>2, <1>3, <1>4

\* The ways a flight is written.
LEMMA FlightWritten ==
  ASSUME NEW f \in Flight, NEW l \in Places, NEW t \in Tokens, NEW n \in Nat
  PROVE  /\ [f EXCEPT !.at = l] \in Flight
         /\ [f EXCEPT !.at = "done", !.ret = t] \in Flight
         /\ [f EXCEPT !.at = "mint", !.rev = n, !.mint = t] \in Flight
         /\ [f EXCEPT !.at = "persist", !.mint = t] \in Flight
         /\ [f EXCEPT !.at = "repersist", !.rev = n] \in Flight
         /\ [f EXCEPT !.at = "blame", !.cu = n] \in Flight
<1> "done" \in Places /\ "mint" \in Places /\ "persist" \in Places /\ "repersist" \in Places
    /\ "blame" \in Places
  BY DEF Places
<1>1. [f EXCEPT !.at = l] \in Flight
  BY DEF Flight
<1>2. [f EXCEPT !.at = "done", !.ret = t] \in Flight
  BY DEF Flight
<1>3. [f EXCEPT !.at = "mint", !.rev = n, !.mint = t] \in Flight
  BY DEF Flight
<1>4. [f EXCEPT !.at = "persist", !.mint = t] \in Flight
  BY DEF Flight
<1>5. [f EXCEPT !.at = "repersist", !.rev = n] \in Flight
  BY DEF Flight
<1>6. [f EXCEPT !.at = "blame", !.cu = n] \in Flight
  BY DEF Flight
<1> QED BY <1>1, <1>2, <1>3, <1>4, <1>5, <1>6

\* A step of one flight keeps them all typed when it keeps that one's leader.
LEMMA FlightMoved ==
  ASSUME FlightsOK, NEW k \in Keys, NEW g \in Flight, flight[k].at # "none",
         g.leader = flight[k].leader, g.at \in Minted => g.mint \in Issued,
         flight' = [flight EXCEPT ![k] = g]
  PROVE  FlightsOK'
  BY DEF FlightsOK

LEMMA GotoTyped ==
  ASSUME FlightsOK, NEW k \in Keys, NEW l \in Places, flight[k].at # "none", Goto(k, l),
         l \in Minted => flight[k].mint \in Issued
  PROVE  FlightsOK'
<1>1. flight[k] \in Flight
  BY DEF FlightsOK
<1> DEFINE g == [flight[k] EXCEPT !.at = l]
<1>2. g \in Flight /\ g.leader = flight[k].leader /\ g.at = l /\ g.mint = flight[k].mint
  BY <1>1 DEF Flight
<1>3. flight' = [flight EXCEPT ![k] = g]
  BY DEF Goto
<1> HIDE DEF g
<1> QED BY <1>2, <1>3, FlightMoved DEF Minted

LEMMA AnswerTyped ==
  ASSUME FlightsOK, NEW k \in Keys, NEW t \in Tokens, flight[k].at # "none", Answer(k, t)
  PROVE  FlightsOK'
<1>1. flight[k] \in Flight
  BY DEF FlightsOK
<1> DEFINE g == [flight[k] EXCEPT !.at = "done", !.ret = t]
<1>2. g \in Flight /\ g.leader = flight[k].leader /\ g.at = "done"
  BY <1>1 DEF Flight, Places
<1>3. flight' = [flight EXCEPT ![k] = g]
  BY DEF Answer
<1> HIDE DEF g
<1> QED BY <1>2, <1>3, FlightMoved DEF Minted

LEMMA ReturnTyped ==
  ASSUME CallersOK, NEW S, NEW t \in Tokens, Return(S, t), done' = done,
         \A r \in S \cap Callers : key[r] \in Keys
  PROVE  CallersOK'
  BY DEF CallersOK, Return

LEMMA TokensTyped ==
  ASSUME NEW w \in Row
  PROVE  TokensOf(w) \in Tokens
  BY DEF TokensOf, Row, Tokens

LEMMA IssueTyped ==
  ASSUME TypeOK, NEW k \in Keys, Accepted(k)
  PROVE  /\ Issue(k).tokens \in Tokens /\ Issue(k).tokens \in Issued
         /\ Issue(k).tokens.gen = issued[k[2]] + 1
         /\ Issue(k).tokens.exp = now + Life
         /\ Issue(k).valid \in SUBSET Nat
<1>0. k[2] \in Accounts
  BY KeyParts
<1>1. issued[k[2]] \in Nat /\ now \in Nat /\ valid[k[2]] \in SUBSET Nat /\ now + Life \in Nat
  BY <1>0, LifeAssumption, LimitsAssumption DEF TypeOK
<1>2. flight[k].mint.rt \in Nat
  BY <1>1 DEF Accepted
<1> QED BY <1>1, <1>2 DEF Issue, Tokens, Issued

LEMMA RowWritten ==
  ASSUME NEW w \in Row, NEW t \in Issued, NEW n \in Nat, NEW b \in BOOLEAN
  PROVE  /\ Updated(w, t) \in Row
         /\ Blamed(w, n) \in Row
         /\ [w EXCEPT !.rev = @ + 1, !.cu = n] \in Row
         /\ [w EXCEPT !.rev = @ + 1, !.cu = n, !.active = b] \in Row
         /\ [w EXCEPT !.rev = n, !.reborn = b] \in Row
         /\ [w EXCEPT !.listed = FALSE] \in Row
<1>0. w.rev + 1 \in Nat /\ t.exp \in Nat
  BY DEF Row, Issued
<1>1. \A v \in Nat, e \in Nat :
          [w EXCEPT !.rev = v, !.gen = t.gen, !.rt = t.rt, !.exp = e] \in Row
  BY DEF Row, Issued
<1>2. Updated(w, t) \in Row
  BY <1>0, <1>1 DEF Updated
<1>3. \A v \in Nat, c \in BOOLEAN : [w EXCEPT !.rev = v, !.cu = n, !.active = c] \in Row
  BY DEF Row
<1>4. (w.active /\ n < QuarantineAfter) \in BOOLEAN
  OBVIOUS
<1>5. Blamed(w, n) \in Row
  BY <1>0, <1>3, <1>4 DEF Blamed
<1>6. \A v \in Nat : [w EXCEPT !.rev = v, !.cu = n] \in Row
  BY DEF Row
<1>7. [w EXCEPT !.listed = FALSE] \in Row
  BY DEF Row
<1>8. [w EXCEPT !.rev = n, !.reborn = b] \in Row
  BY DEF Row
<1> QED BY <1>0, <1>2, <1>3, <1>5, <1>6, <1>7, <1>8

\* A step of the service or of others, by the part of the state it can disturb.
LEMMA TypeStep == TypeOK /\ [Next]_vars => TypeOK'
<1> SUFFICES ASSUME TypeOK, [Next]_vars PROVE TypeOK'
  OBVIOUS
<1> USE DEF rowvars, callvars, queuevars
<1>0. RowsOK /\ FlightsOK /\ CallersOK /\ QueuesOK
  BY TypeSplit
<1>s. ASSUME RowsOK', FlightsOK', CallersOK', QueuesOK' PROVE TypeOK'
  BY <1>s DEF TypeOK, RowsOK, FlightsOK, CallersOK, QueuesOK, Row, Flight
<1>r. ASSUME UNCHANGED <<now, row, issued, valid, faults, spent>> PROVE RowsOK'
  BY <1>0, <1>r DEF RowsOK
<1>f. ASSUME UNCHANGED flight PROVE FlightsOK'
  BY <1>0, <1>f DEF FlightsOK
<1>c. ASSUME UNCHANGED callvars PROVE CallersOK'
  BY <1>0, <1>c DEF CallersOK
<1>q. ASSUME UNCHANGED queuevars PROVE QueuesOK'
  BY <1>0, <1>q DEF QueuesOK
<1>k. ASSUME NEW k \in Keys
      PROVE  /\ k[2] \in Accounts /\ flight[k] \in Flight /\ row[k[2]] \in Row
             /\ flight[k].mint \in Tokens /\ flight[k].ret \in Tokens /\ flight[k].cu \in Nat
             /\ TokensOf(row[k[2]]) \in Tokens /\ row[k[2]].rev \in Nat /\ row[k[2]].cu + 1 \in Nat
  <2>1. k[2] \in Accounts
    BY KeyParts
  <2>2. flight[k] \in Flight /\ row[k[2]] \in Row
    BY <1>0, <2>1 DEF FlightsOK, RowsOK
  <2> QED BY <2>1, <2>2, TokensTyped DEF Flight, Row
<1>1. ASSUME NEW r \in Callers, NEW k \in Keys, Call(r, k) PROVE TypeOK'
  <2>1. CallersOK'
    BY <1>0, <1>1 DEF Call, CallersOK
  <2> QED BY <1>1, <2>1, <1>s, <1>r, <1>f, <1>q DEF Call
<1>2. ASSUME NEW r \in Callers, Take(r) PROVE TypeOK'
  <2>1. Head(jobs) \in Accounts /\ Tail(jobs) \in Seq(Accounts)
    BY <1>0, <1>2 DEF Take, QueuesOK
  <2>2. <<"ensure", Head(jobs)>> \in Keys
    BY <2>1 DEF Keys, Kinds
  <2>3. CallersOK'
    BY <1>0, <1>2, <2>2 DEF Take, CallersOK
  <2>4. QueuesOK'
    BY <1>0, <1>2, <2>1 DEF Take, QueuesOK
  <2> QED BY <1>2, <2>3, <2>4, <1>s, <1>r, <1>f DEF Take
<1>3. ASSUME NEW r \in Callers, Get(r) PROVE TypeOK'
  <2>1. key[r] \in Keys
    BY <1>0, <1>3 DEF Get, CallersOK
  <2>2. done' = done
    BY <1>3 DEF Get
  <2>3. ASSUME Return({r}, Failed) PROVE CallersOK'
    BY <1>0, <2>1, <2>2, <2>3, Singles, ReturnTyped
  <2>4. ASSUME Return({r}, TokensOf(row[key[r][2]])) PROVE CallersOK'
    BY <1>0, <2>1, <2>2, <2>4, <1>k, ReturnTyped
  <2>5. ASSUME pc' = [pc EXCEPT ![r] = "do"] /\ UNCHANGED <<key, got>> PROVE CallersOK'
    BY <1>0, <2>1, <2>2, <2>5 DEF CallersOK
  <2>6. CallersOK'
    BY <1>3, <2>3, <2>4, <2>5 DEF Get
  <2> QED BY <1>3, <2>6, <1>s, <1>r, <1>f, <1>q DEF Get
<1>4. ASSUME NEW r \in Callers, Do(r) PROVE TypeOK'
  <2>1. key[r] \in Keys /\ now \in Nat
    BY <1>0, <1>4, LimitsAssumption DEF Do, CallersOK, RowsOK
  <2>2. CallersOK'
    BY <1>0, <1>4, <2>1 DEF Do, CallersOK
  <2> DEFINE g == [NoFlight EXCEPT !.at = "read", !.leader = r, !.began = now]
  <2>3. g \in Flight /\ g.leader = r /\ g.at = "read"
    BY <2>1, Singles DEF Flight, Places
  <2>4. flight' = flight \/ flight' = [flight EXCEPT ![key[r]] = g]
    BY <1>4 DEF Do
  <2> HIDE DEF g
  <2>5. FlightsOK'
    <3>1. g.leader \in Callers /\ g.at \notin Minted
      BY <2>3 DEF Minted
    <3>2. CASE flight' = flight
      BY <1>0, <3>2 DEF FlightsOK
    <3>3. CASE flight' = [flight EXCEPT ![key[r]] = g]
      BY <1>0, <2>1, <2>3, <3>1, <3>3 DEF FlightsOK
    <3> QED BY <2>4, <3>2, <3>3
  <2> QED BY <1>4, <2>2, <2>5, <1>s, <1>r, <1>q DEF Do
<1>5. ASSUME NEW r \in Callers, Cancel(r) PROVE TypeOK'
  <2>1. CallersOK'
    BY <1>0, <1>5 DEF Cancel, CallersOK
  <2> QED BY <1>5, <2>1, <1>s, <1>r, <1>f, <1>q DEF Cancel
<1>6. ASSUME NEW k \in Keys, FlightStep(k) PROVE TypeOK'
  <2>p. /\ "done" \in Places /\ "fail" \in Places /\ "good" \in Places
        /\ "reread" \in Places /\ "mint" \in Places
    BY DEF Places
  <2>u. Unspent(k) \in [Accounts -> Int]
    BY <1>0, <1>k DEF Unspent, RowsOK
  <2>w. ASSUME flight[k].at \in {"persist", "repersist"}, Swap(k)
        PROVE  FlightsOK' /\ row' \in [Accounts -> Row] /\ spent' = spent
    <3>1. flight[k].mint \in Issued
      <4>1. \A j \in Keys : flight[j].at \in Minted => flight[j].mint \in Issued
        BY <1>0 DEF FlightsOK
      <4>2. flight[k].at \in Minted
        BY <2>w DEF Minted
      <4> QED BY <4>1, <4>2
    <3>2. Updated(row[k[2]], flight[k].mint) \in Row
      BY <1>k, <3>1, RowWritten
    <3>3. row' \in [Accounts -> Row]
      BY <1>0, <1>k, <2>w, <3>2 DEF Swap, RowsOK
    <3> QED BY <1>0, <2>w, <2>p, <3>1, <3>3, GotoTyped DEF Swap
  <2>1. ASSUME Read(k) PROVE TypeOK'
    <3>1. flight[k].at = "read" /\ UNCHANGED <<now, row, issued, valid, faults, spent>>
      BY <2>1 DEF Read
    <3>2. ASSUME Answer(k, Failed) \/ Answer(k, TokensOf(row[k[2]])) PROVE FlightsOK'
      BY <1>0, <1>k, <3>1, <3>2, Singles, AnswerTyped
    <3> DEFINE g == [flight[k] EXCEPT !.at = "mint", !.rev = row[k[2]].rev,
                                      !.mint = TokensOf(row[k[2]])]
    <3>3. ASSUME flight' = [flight EXCEPT ![k] = g] PROVE FlightsOK'
      <4>1. g \in Flight /\ g.leader = flight[k].leader /\ g.at = "mint"
        BY <1>k, <2>p DEF Flight
      <4> HIDE DEF g
      <4> QED BY <1>0, <3>1, <3>3, <4>1, FlightMoved DEF Minted
    <3>4. FlightsOK'
      BY <2>1, <3>2, <3>3 DEF Read
    <3> QED BY <2>1, <3>4, <1>s, <1>r, <1>c, <1>q DEF Read
  <2>2. ASSUME Mint(k) PROVE TypeOK'
    <3>1. Issue(k).tokens \in Tokens /\ Issue(k).tokens \in Issued
          /\ Issue(k).valid \in SUBSET Nat
      BY <2>2, IssueTyped DEF Mint
    <3> DEFINE g == [flight[k] EXCEPT !.at = "persist", !.mint = Issue(k).tokens]
    <3>2. g \in Flight /\ g.leader = flight[k].leader /\ g.mint = Issue(k).tokens
      BY <1>k, <3>1 DEF Flight, Places
    <3>3. flight' = [flight EXCEPT ![k] = g] /\ flight[k].at = "mint"
      BY <2>2 DEF Mint
    <3>4. FlightsOK'
      <4> HIDE DEF g
      <4> QED BY <1>0, <3>1, <3>2, <3>3, FlightMoved
    <3>5. RowsOK'
      BY <1>0, <1>k, <2>2, <3>1 DEF Mint, RowsOK
    <3> QED BY <2>2, <3>4, <3>5, <1>s, <1>c, <1>q DEF Mint
  <2>3. ASSUME MintRefused(k) PROVE TypeOK'
    <3>1. FlightsOK'
      BY <1>0, <2>3, <2>p, GotoTyped DEF MintRefused, Minted
    <3> QED BY <2>3, <3>1, <1>s, <1>r, <1>c, <1>q DEF MintRefused
  <2>4. ASSUME MintLost(k) PROVE TypeOK'
    <3>1. Issue(k).valid \in SUBSET Nat
      BY <2>4, IssueTyped DEF MintLost
    <3>2. FlightsOK'
      BY <1>0, <2>4, <2>p, GotoTyped DEF MintLost, Minted
    <3>3. faults' \in Nat
      BY <1>0, <2>4 DEF MintLost, RowsOK
    <3>4. issued' \in [Accounts -> Nat] /\ valid' \in [Accounts -> SUBSET Nat]
      BY <1>0, <1>k, <2>4, <3>1 DEF MintLost, RowsOK
    <3>5. RowsOK'
      BY <1>0, <2>4, <3>3, <3>4 DEF MintLost, RowsOK
    <3> QED BY <2>4, <3>2, <3>5, <1>s, <1>c, <1>q DEF MintLost
  <2>5. ASSUME Persist(k) PROVE TypeOK'
    <3>1. FlightsOK' /\ row' \in [Accounts -> Row] /\ spent' \in [Accounts -> Int]
      <4>1. CASE Swap(k)
        BY <1>0, <2>5, <2>w, <4>1 DEF Persist, RowsOK
      <4>2. CASE Goto(k, "reread") /\ UNCHANGED <<row, spent>>
        <5>1. flight[k].mint \in Issued
          BY <1>0, <2>5 DEF Persist, FlightsOK, Minted
        <5> QED BY <1>0, <2>5, <2>p, <4>2, <5>1, GotoTyped DEF Persist, RowsOK
      <4>3. CASE Goto(k, "fail") /\ spent' = Unspent(k) /\ UNCHANGED row
        BY <1>0, <2>5, <2>p, <2>u, <4>3, GotoTyped DEF Persist, RowsOK, Minted
      <4> QED BY <2>5, <4>1, <4>2, <4>3 DEF Persist
    <3>2. RowsOK'
      BY <1>0, <2>5, <3>1 DEF Persist, RowsOK
    <3> QED BY <2>5, <3>1, <3>2, <1>s, <1>c, <1>q DEF Persist
  <2>6. ASSUME Reread(k) PROVE TypeOK'
    <3>1. flight[k].at = "reread" /\ flight[k].mint \in Issued
      BY <1>0, <2>6 DEF Reread, FlightsOK, Minted
    <3>2. spent' \in [Accounts -> Int]
      BY <1>0, <2>6, <2>u DEF Reread, RowsOK
    <3>3. RowsOK'
      BY <1>0, <2>6, <3>2 DEF Reread, RowsOK
    <3>4. ASSUME Answer(k, Failed) \/ Answer(k, TokensOf(row[k[2]])) PROVE FlightsOK'
      BY <1>0, <1>k, <3>1, <3>4, Singles, AnswerTyped
    <3> DEFINE g == [flight[k] EXCEPT !.at = "repersist", !.rev = row[k[2]].rev]
    <3>5. ASSUME flight' = [flight EXCEPT ![k] = g] PROVE FlightsOK'
      <4>1. g \in Flight /\ g.leader = flight[k].leader /\ g.mint = flight[k].mint
        BY <1>k DEF Flight, Places
      <4> HIDE DEF g
      <4> QED BY <1>0, <3>1, <3>5, <4>1, FlightMoved
    <3>6. FlightsOK'
      BY <2>6, <3>4, <3>5 DEF Reread
    <3> QED BY <2>6, <3>3, <3>6, <1>s, <1>c, <1>q DEF Reread
  <2>7. ASSUME Repersist(k) PROVE TypeOK'
    <3>1. FlightsOK' /\ row' \in [Accounts -> Row] /\ spent' \in [Accounts -> Int]
      <4>1. CASE Swap(k)
        BY <1>0, <2>7, <2>w, <4>1 DEF Repersist, RowsOK
      <4>2. CASE Goto(k, "fail") /\ spent' = Unspent(k) /\ UNCHANGED row
        BY <1>0, <2>7, <2>p, <2>u, <4>2, GotoTyped DEF Repersist, RowsOK, Minted
      <4> QED BY <2>7, <4>1, <4>2 DEF Repersist
    <3>2. RowsOK'
      BY <1>0, <2>7, <3>1 DEF Repersist, RowsOK
    <3> QED BY <2>7, <3>1, <3>2, <1>s, <1>c, <1>q DEF Repersist
  <2>8. ASSUME Fail(k) PROVE TypeOK'
    <3>1. flight[k].at = "fail"
      BY <2>8 DEF Fail
    <3>2. ASSUME Answer(k, Failed) PROVE FlightsOK'
      BY <1>0, <3>1, <3>2, Singles, AnswerTyped
    <3> DEFINE g == [flight[k] EXCEPT !.at = "blame", !.cu = row[k[2]].cu + 1]
    <3>3. ASSUME flight' = [flight EXCEPT ![k] = g] PROVE FlightsOK'
      <4>1. g \in Flight /\ g.leader = flight[k].leader /\ g.at = "blame"
        BY <1>k DEF Flight, Places
      <4> HIDE DEF g
      <4> QED BY <1>0, <3>1, <3>3, <4>1, FlightMoved DEF Minted
    <3>4. FlightsOK'
      BY <2>8, <3>2, <3>3 DEF Fail
    <3> QED BY <2>8, <3>4, <1>s, <1>r, <1>c, <1>q DEF Fail
  <2>9. ASSUME Blame(k) PROVE TypeOK'
    <3>1. FlightsOK'
      BY <1>0, <2>9, Singles, AnswerTyped DEF Blame
    <3>2. Blamed(row[k[2]], flight[k].cu) \in Row
      <4>1. [gen |-> 0, rt |-> 0, exp |-> 0] \in Issued
        BY DEF Issued
      <4> QED BY <1>k, <4>1, RowWritten
    <3>3. RowsOK'
      BY <1>0, <1>k, <2>9, <3>2 DEF Blame, RowsOK
    <3> QED BY <2>9, <3>1, <3>3, <1>s, <1>c, <1>q DEF Blame
  <2>10. ASSUME Good(k) PROVE TypeOK'
    <3>1. FlightsOK'
      BY <1>0, <1>k, <2>10, AnswerTyped DEF Good
    <3> DEFINE w == [row[k[2]] EXCEPT !.rev = @ + 1, !.cu = 0]
    <3>2. w \in Row
      <4>1. [gen |-> 0, rt |-> 0, exp |-> 0] \in Issued
        BY DEF Issued
      <4> QED BY <1>k, <4>1, RowWritten
    <3>3. row' = row \/ row' = [row EXCEPT ![k[2]] = w]
      BY <2>10 DEF Good
    <3> HIDE DEF w
    <3>4. row' \in [Accounts -> Row]
      BY <1>0, <1>k, <3>2, <3>3 DEF RowsOK
    <3>5. RowsOK'
      BY <1>0, <2>10, <3>4 DEF Good, RowsOK
    <3> QED BY <2>10, <3>1, <3>5, <1>s, <1>c, <1>q DEF Good
  <2>11. ASSUME Finish(k) PROVE TypeOK'
    <3>1. FlightsOK'
      BY <1>0, <2>11, Singles DEF Finish, FlightsOK, NoFlight, Minted
    <3>2. \A r \in Waiting(k) \cap Callers : key[r] \in Keys
      BY DEF Waiting
    <3>3. CallersOK'
      BY <1>0, <1>k, <2>11, <3>2, ReturnTyped DEF Finish
    <3> QED BY <2>11, <3>1, <3>3, <1>s, <1>r, <1>q DEF Finish
  <2> QED BY <1>6, <2>1, <2>2, <2>3, <2>4, <2>5, <2>6, <2>7, <2>8, <2>9, <2>10, <2>11
          DEF FlightStep
<1>7. CASE ScanList
  <2>1. QueuesOK'
    BY <1>0, <1>7 DEF ScanList, Listing, QueuesOK, RowsOK, Row, Expiring
  <2> QED BY <1>7, <2>1, <1>s, <1>r, <1>f, <1>c DEF ScanList
<1>8. CASE ScanPush
  <2>1. QueuesOK'
    <3>1. CASE jobs' = jobs /\ scan' = {}
      BY <1>0, <3>1 DEF QueuesOK
    <3>2. ASSUME NEW p \in scan, jobs' = Append(jobs, p[2]), scan' = scan \ {p}
          PROVE QueuesOK'
      BY <1>0, <3>2 DEF QueuesOK
    <3> QED BY <1>8, <3>1, <3>2 DEF ScanPush
  <2> QED BY <1>8, <2>1, <1>s, <1>r, <1>f, <1>c DEF ScanPush
<1>9. ASSUME NEW a \in Accounts, Patch(a) \/ Import(a) \/ Delete(a) \/ Reimport(a) PROVE TypeOK'
  <2>0. [gen |-> 0, rt |-> 0, exp |-> 0] \in Issued /\ row[a] \in Row
    BY <1>0 DEF Issued, RowsOK
  <2>1. ASSUME Patch(a) PROVE row' \in [Accounts -> Row]
    <3>1. PICK cu \in {0, row[a].cu, row[a].cu + 1}, act \in BOOLEAN :
               row' = [row EXCEPT ![a].rev = @ + 1, ![a].cu = cu, ![a].active = act]
      BY <2>1 DEF Patch
    <3>2. cu \in Nat
      BY <2>0 DEF Row
    <3> DEFINE w == [row[a] EXCEPT !.rev = @ + 1, !.cu = cu, !.active = act]
    <3>3. w \in Row
      BY <2>0, <3>2, RowWritten, 0 \in Nat, [gen |-> 0, rt |-> 0, exp |-> 0] \in Issued
    <3>4. row' = [row EXCEPT ![a] = w]
      BY <3>1
    <3> HIDE DEF w
    <3> QED BY <1>0, <3>3, <3>4 DEF RowsOK
  <2>2. ASSUME Import(a)
        PROVE row' \in [Accounts -> Row] /\ issued' \in [Accounts -> Nat]
              /\ valid' \in [Accounts -> SUBSET Nat]
    <3> DEFINE g == issued[a] + 1
    <3>1. g \in Nat /\ now + Life \in Nat
      BY <1>0, LifeAssumption, LimitsAssumption DEF RowsOK
    <3>2. [gen |-> g, rt |-> g, exp |-> now + Life] \in Issued
      BY <3>1 DEF Issued
    <3>3. Updated(row[a], [gen |-> g, rt |-> g, exp |-> now + Life]) \in Row
      BY <2>0, <3>2, RowWritten, 0 \in Nat, TRUE \in BOOLEAN
    <3>4. /\ issued' = [issued EXCEPT ![a] = g]
          /\ valid' = [valid EXCEPT ![a] = valid[a] \cup {g}]
          /\ row' = [row EXCEPT ![a] = Updated(row[a], [gen |-> g, rt |-> g, exp |-> now + Life])]
      BY <2>2 DEF Import
    <3> HIDE DEF g
    <3> QED BY <1>0, <3>1, <3>3, <3>4 DEF RowsOK
  <2>3. ASSUME Delete(a) PROVE row' \in [Accounts -> Row]
    <3>1. [row[a] EXCEPT !.listed = FALSE] \in Row
      BY <2>0, RowWritten, 0 \in Nat, TRUE \in BOOLEAN
    <3>2. row' = [row EXCEPT ![a] = [row[a] EXCEPT !.listed = FALSE]]
      BY <2>3 DEF Delete
    <3> QED BY <1>0, <3>1, <3>2 DEF RowsOK
  <2>4. ASSUME Reimport(a)
        PROVE row' \in [Accounts -> Row] /\ issued' \in [Accounts -> Nat]
              /\ valid' \in [Accounts -> SUBSET Nat]
    <3> DEFINE g == issued[a] + 1
               t == [gen |-> g, rt |-> g, exp |-> now + Life]
               w == Updated(NewRow(a), t)
    <3>1. g \in Nat /\ now + Life \in Nat
      BY <1>0, LifeAssumption, LimitsAssumption DEF RowsOK
    <3>2. t \in Issued
      BY <3>1 DEF Issued
    <3>3. w \in Row
      BY <3>2, FirstRowTyped, RowWritten, 0 \in Nat, TRUE \in BOOLEAN
    <3>4. /\ issued' = [issued EXCEPT ![a] = g]
          /\ valid' = [valid EXCEPT ![a] = valid[a] \cup {g}]
          /\ row' = [row EXCEPT ![a] = [w EXCEPT !.rev = 1, !.reborn = TRUE]]
      BY <2>4 DEF Reimport
    <3> HIDE DEF w
    <3>5. [w EXCEPT !.rev = 1, !.reborn = TRUE] \in Row
      BY <2>0, <3>3, RowWritten, 1 \in Nat, TRUE \in BOOLEAN
    <3> HIDE DEF g
    <3> QED BY <1>0, <3>1, <3>4, <3>5 DEF RowsOK
  <2>5. RowsOK'
    BY <1>0, <1>9, <2>1, <2>2, <2>3, <2>4 DEF Patch, Import, Delete, Reimport, RowsOK
  <2>6. UNCHANGED <<flight, callvars, queuevars>>
    BY <1>9 DEF Patch, Import, Delete, Reimport
  <2> QED BY <2>5, <2>6, <1>s, <1>f, <1>c, <1>q
<1>10. CASE Tick
  <2>1. RowsOK'
    BY <1>0, <1>10, LimitsAssumption DEF Tick, RowsOK
  <2> QED BY <1>10, <2>1, <1>s, <1>f, <1>c, <1>q DEF Tick
<1>11. CASE UNCHANGED vars
  BY <1>0, <1>11, <1>s, <1>r, <1>f, <1>c, <1>q DEF vars
<1> QED
  BY <1>1, <1>2, <1>3, <1>4, <1>5, <1>6, <1>7, <1>8, <1>9, <1>10, <1>11 DEF Next

\* Every variable keeps its type, and a flight that is to store a token set
\* holds one the provider issued.
THEOREM TypeCorrect == Spec => []TypeOK
  BY TypeInit, TypeStep, PTL DEF Spec

-----------------------------------------------------------------------------
(* The store never goes back.                                              *)

\* Token sets of the provider outlive the model's clock, so what has gone
\* stale is the token set the account started with.
RowInv(a) ==
    /\ row[a].gen <= issued[a]
    /\ row[a].gen > 0 => row[a].exp > MaxClock

\* While the row has the revision a flight has read, it holds the token set the
\* flight has read, and a set minted since is newer.
FlightInv(k) ==
    LET f == flight[k]
        w == row[k[2]]
    IN  /\ f.rev <= w.rev
        /\ f.at \in Minted => /\ f.mint.gen \in 1..issued[k[2]]
                              /\ f.mint.exp > MaxClock
        /\ f.at \in {"persist", "repersist"} /\ f.rev = w.rev => w.gen < f.mint.gen

StoreInv ==
    /\ \A a \in Accounts : RowInv(a)
    /\ \A k \in Keys : FlightInv(k)

LEMMA StoreInit == Init => StoreInv
<1> SUFFICES ASSUME Init PROVE StoreInv
  OBVIOUS
<1>1. \A k \in Keys : k[2] \in Accounts
  BY KeyParts
<1> QED BY <1>1 DEF Init, StoreInv, RowInv, FlightInv, NewRow, NoFlight, Minted

\* A step that leaves flights alone keeps FlightInv when it raises the revision
\* of each row whose token set it changes.
LEMMA RowStep ==
  ASSUME TypeOK, StoreInv, NEW a \in Accounts, row'[a] \in Row, issued'[a] \in Nat,
         \A b \in Accounts \ {a} : row'[b] = row[b] /\ issued'[b] = issued[b],
         issued[a] <= issued'[a],
         \/ row'[a].gen = row[a].gen /\ row[a].rev <= row'[a].rev
         \/ row[a].rev < row'[a].rev,
         NEW k \in Keys, flight'[k] = flight[k]
  PROVE  FlightInv(k)'
<1>1. k[2] \in Accounts /\ row[k[2]] \in Row /\ issued[k[2]] \in Nat
  <2>1. k[2] \in Accounts
    BY KeyParts
  <2> QED BY <2>1 DEF TypeOK, Row
<1>2. flight[k] \in Flight
  BY DEF TypeOK, Flight
<1>3. FlightInv(k)
  BY DEF StoreInv
<1>4. CASE k[2] = a
  <2>1. row'[k[2]] \in Row /\ issued'[k[2]] \in Nat /\ issued[k[2]] <= issued'[k[2]]
    BY <1>4
  <2>2. flight[k].at \in Minted => flight[k].mint.gen \in Nat
    BY <1>3, <1>1 DEF FlightInv
  <2>3. flight[k].rev <= row'[k[2]].rev
    BY <1>1, <1>2, <1>3, <1>4, <2>1 DEF FlightInv, Row, Flight
  <2>4. flight[k].rev = row'[k[2]].rev => flight[k].rev = row[k[2]].rev
                                          /\ row'[k[2]].gen = row[k[2]].gen
    BY <1>1, <1>2, <1>3, <1>4, <2>1 DEF FlightInv, Row, Flight
  <2>5. flight[k].at \in Minted => flight[k].mint.gen \in 1..issued'[k[2]]
    BY <1>1, <1>3, <2>1, <2>2 DEF FlightInv
  <2> QED BY <1>3, <2>3, <2>4, <2>5 DEF FlightInv
<1>5. CASE k[2] # a
  BY <1>1, <1>3, <1>5 DEF FlightInv
<1> QED BY <1>4, <1>5

\* A step of flight k that leaves the rows alone.
LEMMA FlightStepAlone ==
  ASSUME StoreInv, NEW k \in Keys, FlightInv(k)', row' = row, issued' = issued,
         \A j \in Keys \ {k} : flight'[j] = flight[j]
  PROVE  StoreInv'
  BY DEF StoreInv, RowInv, FlightInv

LEMMA StoreStep ==
  ASSUME "reimport" \notin Others
  PROVE  TypeOK /\ TypeOK' /\ StoreInv /\ [Next]_vars =>
            StoreInv' /\ \A a \in Accounts : row'[a].gen >= row[a].gen
<1> SUFFICES ASSUME TypeOK, TypeOK', StoreInv, [Next]_vars
             PROVE  StoreInv' /\ \A a \in Accounts : row'[a].gen >= row[a].gen
  OBVIOUS
<1> DEFINE Kept == \A a \in Accounts : row'[a].gen >= row[a].gen
<1> USE DEF rowvars, callvars, queuevars
<1>a. /\ row \in [Accounts -> Row] /\ row' \in [Accounts -> Row]
      /\ issued \in [Accounts -> Nat] /\ issued' \in [Accounts -> Nat]
      /\ flight \in [Keys -> Flight] /\ flight' \in [Keys -> Flight]
      /\ now \in 0..MaxClock
  BY DEF TypeOK, Row, Flight
<1>b. \A a \in Accounts : RowInv(a)
  BY DEF StoreInv
<1>c. \A k \in Keys : FlightInv(k)
  BY DEF StoreInv
<1>d. now \in Nat /\ now <= MaxClock /\ now + Life > MaxClock
  BY <1>a, LifeAssumption, LimitsAssumption
<1>u. ASSUME UNCHANGED <<row, issued, flight>> PROVE StoreInv' /\ Kept
  BY <1>a, <1>b, <1>c, <1>u DEF StoreInv, RowInv, FlightInv, Row
<1>v. ASSUME UNCHANGED <<row, issued>> PROVE Kept
  BY <1>a, <1>v DEF Row
<1>1. ASSUME NEW r \in Callers, Do(r) PROVE StoreInv' /\ Kept
  <2>1. PICK k \in Keys : k = key[r]
    BY <1>1 DEF Do, TypeOK
  <2> DEFINE g == [NoFlight EXCEPT !.at = "read", !.leader = r, !.began = now]
  <2>2. flight' = flight \/ flight' = [flight EXCEPT ![k] = g]
    BY <1>1, <2>1 DEF Do
  <2>3. g.at = "read" /\ g.rev = 0
    BY DEF NoFlight
  <2>4. UNCHANGED <<row, issued>>
    BY <1>1 DEF Do
  <2> HIDE DEF g
  <2>5. CASE flight' = [flight EXCEPT ![k] = g]
    <3>1. flight'[k] = g /\ \A j \in Keys \ {k} : flight'[j] = flight[j]
      BY <1>a, <2>1, <2>5
    <3>2. row[k[2]].rev \in Nat
      BY <1>a, <2>1, KeyParts DEF Row
    <3>3. FlightInv(k)'
      BY <2>3, <2>4, <3>1, <3>2 DEF FlightInv, Minted
    <3> QED BY <1>v, <2>4, <3>1, <3>3, FlightStepAlone
  <2> QED BY <1>u, <2>2, <2>4, <2>5
<1>2. ASSUME NEW k \in Keys, FlightStep(k) PROVE StoreInv' /\ Kept
  <2> DEFINE a == k[2]
  <2>0. /\ a \in Accounts /\ row[a] \in Row /\ row'[a] \in Row /\ flight[k] \in Flight
        /\ issued[a] \in Nat /\ issued'[a] \in Nat
        /\ row[a].rev \in Nat /\ row[a].gen \in Nat /\ RowInv(a) /\ FlightInv(k)
        /\ flight[k].rev \in Nat
    BY <1>a, <1>b, <1>c, KeyParts DEF Row, Flight
  <2>g. ASSUME NEW l, Goto(k, l) PROVE
            /\ flight'[k].at = l /\ flight'[k].rev = flight[k].rev /\ flight'[k].mint = flight[k].mint
            /\ \A j \in Keys \ {k} : flight'[j] = flight[j]
    BY <1>a, <2>0, <2>g DEF Goto, Flight
  <2>t. ASSUME NEW t, Answer(k, t) PROVE
            /\ flight'[k].at = "done" /\ flight'[k].rev = flight[k].rev
            /\ \A j \in Keys \ {k} : flight'[j] = flight[j]
    BY <1>a, <2>0, <2>t DEF Answer, Flight
  <2>n. ASSUME flight'[k].at \notin Minted, flight'[k].rev <= row[a].rev, UNCHANGED <<row, issued>>,
               \A j \in Keys \ {k} : flight'[j] = flight[j]
        PROVE  StoreInv' /\ Kept
    <3>1. FlightInv(k)'
      BY <2>n DEF FlightInv, Minted
    <3> QED BY <1>v, <2>n, <3>1, FlightStepAlone
  <2>m. ASSUME flight'[k].rev = flight[k].rev, flight'[k].mint = flight[k].mint,
               flight[k].at \in Minted, flight'[k].at \notin {"persist", "repersist"},
               UNCHANGED <<row, issued>>, \A j \in Keys \ {k} : flight'[j] = flight[j]
        PROVE  StoreInv' /\ Kept
    <3>1. FlightInv(k)'
      BY <2>0, <2>m DEF FlightInv
    <3> QED BY <1>v, <2>m, <3>1, FlightStepAlone
  <2>w. ASSUME Swap(k), flight[k].at \in {"persist", "repersist"}, UNCHANGED issued
        PROVE  StoreInv' /\ Kept
    <3> DEFINE t == flight[k].mint
    <3>1. t \in Issued /\ t.gen <= issued[a] /\ t.exp > MaxClock /\ row[a].gen < t.gen
      <4>1. flight[k].at \in Minted /\ row[a].rev = flight[k].rev
        BY <2>w DEF Swap, Minted
      <4>2. t \in Issued
        BY <4>1 DEF TypeOK
      <4>3. t.gen \in 1..issued[a] /\ t.exp > MaxClock /\ row[a].gen < t.gen
        BY <2>0, <2>w, <4>1 DEF FlightInv
      <4> QED BY <2>0, <4>2, <4>3
    <3>2. row' = [row EXCEPT ![a] = Updated(row[a], t)]
      BY <2>w DEF Swap
    <3>3. row'[a] = Updated(row[a], t) /\ \A b \in Accounts \ {a} : row'[b] = row[b]
      BY <1>a, <2>0, <3>2
    <3>4. row'[a].rev = row[a].rev + 1 /\ row'[a].gen = t.gen /\ row'[a].exp = t.exp
      BY <2>0, <3>3 DEF Updated, Row
    <3>5. /\ flight'[k].at = "good" /\ flight'[k].rev = flight[k].rev
          /\ flight'[k].mint = flight[k].mint
          /\ \A j \in Keys \ {k} : flight'[j] = flight[j]
      BY <2>w, <2>g DEF Swap
    <3> HIDE DEF t
    <3>6. RowInv(a)'
      BY <2>0, <2>w, <3>1, <3>4 DEF RowInv
    <3>7. \A b \in Accounts : RowInv(b)'
      BY <1>b, <2>w, <3>3, <3>6 DEF RowInv
    <3>8. FlightInv(k)'
      BY <2>0, <2>w, <3>4, <3>5 DEF FlightInv, Minted
    <3>9. ASSUME NEW j \in Keys \ {k} PROVE FlightInv(j)'
      BY <2>0, <2>w, <3>3, <3>4, <3>5, RowStep
    <3>10. Kept
      BY <1>a, <2>0, <3>1, <3>3, <3>4 DEF Row, Issued
    <3> QED BY <3>7, <3>8, <3>9, <3>10 DEF StoreInv
  <2>b. ASSUME row'[a].rev = row[a].rev + 1, row'[a].gen = row[a].gen, row'[a].exp = row[a].exp,
               \A b \in Accounts \ {a} : row'[b] = row[b], UNCHANGED issued,
               flight'[k].at = "done", flight'[k].rev = flight[k].rev,
               \A j \in Keys \ {k} : flight'[j] = flight[j]
        PROVE  StoreInv' /\ Kept
    <3>1. \A b \in Accounts : RowInv(b)'
      BY <1>b, <2>b DEF RowInv
    <3>2. FlightInv(k)'
      BY <2>0, <2>b DEF FlightInv, Minted
    <3>3. ASSUME NEW j \in Keys \ {k} PROVE FlightInv(j)'
      BY <2>0, <2>b, RowStep
    <3>4. Kept
      BY <1>a, <2>0, <2>b DEF Row
    <3> QED BY <3>1, <3>2, <3>3, <3>4 DEF StoreInv
  <2>1. CASE Read(k)
    <3> DEFINE g == [flight[k] EXCEPT !.at = "mint", !.rev = row[k[2]].rev,
                                      !.mint = TokensOf(row[k[2]])]
    <3>1. CASE flight' = [flight EXCEPT ![k] = g]
      <4>1. flight'[k].at = "mint" /\ flight'[k].rev = row[a].rev
            /\ \A j \in Keys \ {k} : flight'[j] = flight[j]
        BY <1>a, <2>0, <3>1 DEF Flight
      <4> QED BY <2>0, <2>1, <2>n, <4>1 DEF Read, Minted
    <3>2. ASSUME NEW t, Answer(k, t) PROVE StoreInv' /\ Kept
      BY <2>0, <2>1, <2>n, <2>t, <3>2 DEF Read, Minted, FlightInv
    <3> QED BY <2>1, <3>1, <3>2 DEF Read
  <2>2. CASE Mint(k)
    <3> DEFINE t == Issue(k).tokens
    <3>1. t \in Issued /\ t.gen = issued[a] + 1 /\ t.exp = now + Life
      BY <2>2, IssueTyped DEF Mint
    <3>2. flight' = [flight EXCEPT ![k].at = "persist", ![k].mint = t]
      BY <2>2 DEF Mint
    <3> HIDE DEF t
    <3>3. /\ flight'[k].at = "persist" /\ flight'[k].rev = flight[k].rev /\ flight'[k].mint = t
          /\ \A j \in Keys \ {k} : flight'[j] = flight[j]
      BY <1>a, <2>0, <3>2 DEF Flight
    <3>4. issued'[a] = issued[a] + 1 /\ \A b \in Accounts \ {a} : issued'[b] = issued[b]
      BY <1>a, <2>0, <2>2 DEF Mint
    <3>5. UNCHANGED row
      BY <2>2 DEF Mint
    <3>6. \A b \in Accounts : RowInv(b)'
      BY <1>a, <1>b, <2>0, <3>4, <3>5 DEF RowInv, Row
    <3>7. FlightInv(k)'
      <4>1. t.gen \in 1..issued'[a] /\ t.exp > MaxClock /\ row[a].gen < t.gen
        BY <1>d, <2>0, <3>1, <3>4 DEF RowInv
      <4> QED BY <2>0, <3>3, <3>5, <4>1 DEF FlightInv
    <3>8. ASSUME NEW j \in Keys \ {k} PROVE FlightInv(j)'
      BY <2>0, <3>3, <3>4, <3>5, RowStep
    <3>9. Kept
      BY <1>a, <3>5 DEF Row
    <3> QED BY <3>6, <3>7, <3>8, <3>9 DEF StoreInv
  <2>3. CASE MintRefused(k)
    BY <2>0, <2>3, <2>g, <2>n DEF MintRefused, Minted, FlightInv
  <2>4. CASE MintLost(k)
    <3>1. /\ flight'[k].at = "fail" /\ flight'[k].rev = flight[k].rev
          /\ \A j \in Keys \ {k} : flight'[j] = flight[j]
      BY <2>4, <2>g DEF MintLost
    <3>2. CASE UNCHANGED <<issued, valid>>
      BY <2>0, <2>4, <2>n, <3>1, <3>2 DEF MintLost, Minted, FlightInv
    <3>3. CASE issued' = [issued EXCEPT ![a] = @ + 1]
      <4>1. issued'[a] = issued[a] + 1 /\ \A b \in Accounts \ {a} : issued'[b] = issued[b]
        BY <1>a, <2>0, <3>3
      <4>2. UNCHANGED row
        BY <2>4 DEF MintLost
      <4>3. \A b \in Accounts : RowInv(b)'
        BY <1>a, <1>b, <2>0, <4>1, <4>2 DEF RowInv, Row
      <4>4. FlightInv(k)'
        BY <2>0, <3>1, <4>2 DEF FlightInv, Minted
      <4>5. ASSUME NEW j \in Keys \ {k} PROVE FlightInv(j)'
        BY <2>0, <3>1, <4>1, <4>2, RowStep
      <4>6. Kept
        BY <1>a, <4>2 DEF Row
      <4> QED BY <4>3, <4>4, <4>5, <4>6 DEF StoreInv
    <3> QED BY <2>4, <3>2, <3>3 DEF MintLost
  <2>5. CASE Persist(k)
    <3>1. CASE Swap(k)
      BY <2>5, <2>w, <3>1 DEF Persist
    <3>2. CASE Goto(k, "reread") /\ UNCHANGED row
      BY <2>5, <2>g, <2>m, <3>2 DEF Persist, Minted
    <3>3. CASE Goto(k, "fail") /\ UNCHANGED row
      BY <2>0, <2>5, <2>g, <2>n, <3>3 DEF Persist, Minted, FlightInv
    <3> QED BY <2>5, <3>1, <3>2, <3>3 DEF Persist
  <2>6. CASE Reread(k)
    <3>1. ASSUME NEW t, Answer(k, t) PROVE StoreInv' /\ Kept
      BY <2>0, <2>6, <2>n, <2>t, <3>1 DEF Reread, Minted, FlightInv
    <3>2. CASE /\ row[a].listed /\ ~Fresh(a)
               /\ flight' = [flight EXCEPT ![k].at = "repersist", ![k].rev = row[a].rev]
      <4>1. /\ flight'[k].at = "repersist" /\ flight'[k].rev = row[a].rev
            /\ flight'[k].mint = flight[k].mint
            /\ \A j \in Keys \ {k} : flight'[j] = flight[j]
        BY <1>a, <2>0, <3>2 DEF Flight
      <4>2. UNCHANGED <<row, issued>> /\ flight[k].at = "reread"
        BY <2>6 DEF Reread
      <4>3. row[a].exp \in Nat /\ row[a].exp < now
        BY <2>0, <1>d, <3>2 DEF Fresh, Row
      <4>4. row[a].gen = 0
        BY <1>d, <2>0, <4>3, LimitsAssumption DEF RowInv
      <4>5. flight[k].mint.gen \in 1..issued[a] /\ flight[k].mint.exp > MaxClock
        BY <2>0, <4>2 DEF FlightInv, Minted
      <4>6. row[a].gen < flight[k].mint.gen
        BY <2>0, <4>4, <4>5
      <4>7. FlightInv(k)'
        BY <2>0, <4>1, <4>2, <4>5, <4>6 DEF FlightInv
      <4> QED BY <1>v, <4>1, <4>2, <4>7, FlightStepAlone
    <3> QED BY <2>6, <3>1, <3>2 DEF Reread
  <2>7. CASE Repersist(k)
    <3>1. CASE Swap(k)
      BY <2>7, <2>w, <3>1 DEF Repersist
    <3>2. CASE Goto(k, "fail") /\ UNCHANGED row
      BY <2>0, <2>7, <2>g, <2>n, <3>2 DEF Repersist, Minted, FlightInv
    <3> QED BY <2>7, <3>1, <3>2 DEF Repersist
  <2>8. CASE Fail(k)
    <3>1. ASSUME NEW t, Answer(k, t) PROVE StoreInv' /\ Kept
      BY <2>0, <2>8, <2>n, <2>t, <3>1 DEF Fail, Minted, FlightInv
    <3>2. CASE flight' = [flight EXCEPT ![k].at = "blame", ![k].cu = row[k[2]].cu + 1]
      <4>1. /\ flight'[k].at = "blame" /\ flight'[k].rev = flight[k].rev
            /\ \A j \in Keys \ {k} : flight'[j] = flight[j]
        BY <1>a, <2>0, <3>2 DEF Flight
      <4> QED BY <2>0, <2>8, <2>n, <4>1 DEF Fail, Minted, FlightInv
    <3> QED BY <2>8, <3>1, <3>2 DEF Fail
  <2>9. CASE Blame(k)
    <3>1. CASE row' = row
      BY <2>0, <2>9, <2>n, <2>t, <3>1 DEF Blame, Minted, FlightInv
    <3>2. CASE row' = [row EXCEPT ![a] = Blamed(row[a], flight[k].cu)]
      <4>1. row'[a] = Blamed(row[a], flight[k].cu) /\ \A b \in Accounts \ {a} : row'[b] = row[b]
        BY <1>a, <2>0, <3>2
      <4>2. row'[a].rev = row[a].rev + 1 /\ row'[a].gen = row[a].gen /\ row'[a].exp = row[a].exp
        BY <2>0, <4>1 DEF Blamed, Row
      <4> QED BY <2>9, <2>b, <2>t, <4>1, <4>2 DEF Blame
    <3> QED BY <2>9, <3>1, <3>2 DEF Blame
  <2>10. CASE Good(k)
    <3>1. CASE row' = row
      BY <2>0, <2>10, <2>n, <2>t, <3>1 DEF Good, Minted, FlightInv
    <3>2. CASE row' = [row EXCEPT ![a].rev = @ + 1, ![a].cu = 0]
      <4>1. /\ row'[a].rev = row[a].rev + 1 /\ row'[a].gen = row[a].gen /\ row'[a].exp = row[a].exp
            /\ \A b \in Accounts \ {a} : row'[b] = row[b]
        BY <1>a, <2>0, <3>2 DEF Row
      <4> QED BY <2>10, <2>b, <2>t, <4>1 DEF Good
    <3> QED BY <2>10, <3>1, <3>2 DEF Good
  <2>11. CASE Finish(k)
    <3>1. /\ flight'[k].at = "none" /\ flight'[k].rev = 0
          /\ \A j \in Keys \ {k} : flight'[j] = flight[j]
      BY <1>a, <2>11 DEF Finish, NoFlight
    <3> QED BY <2>0, <2>11, <2>n, <3>1 DEF Finish, Minted
  <2> QED BY <1>2, <2>1, <2>2, <2>3, <2>4, <2>5, <2>6, <2>7, <2>8, <2>9, <2>10, <2>11
          DEF FlightStep
<1>3. ASSUME NEW a \in Accounts, Patch(a) \/ Import(a) \/ Delete(a) PROVE StoreInv' /\ Kept
  <2>0. row[a] \in Row /\ row'[a] \in Row /\ issued[a] \in Nat /\ issued'[a] \in Nat /\ RowInv(a)
    BY <1>a, <1>b
  <2>1. UNCHANGED flight
    BY <1>3 DEF Patch, Import, Delete
  <2>2. /\ \A b \in Accounts \ {a} : row'[b] = row[b] /\ issued'[b] = issued[b]
        /\ row[a].gen <= row'[a].gen /\ issued[a] <= issued'[a] /\ RowInv(a)'
        /\ \/ row'[a].gen = row[a].gen /\ row[a].rev <= row'[a].rev
           \/ row[a].rev < row'[a].rev
    <3>1. CASE Patch(a)
      <4>1. PICK cu \in {0, row[a].cu, row[a].cu + 1}, act \in BOOLEAN :
                row' = [row EXCEPT ![a].rev = @ + 1, ![a].cu = cu, ![a].active = act]
        BY <3>1 DEF Patch
      <4>2. /\ row'[a].rev = row[a].rev + 1 /\ row'[a].gen = row[a].gen /\ row'[a].exp = row[a].exp
            /\ \A b \in Accounts \ {a} : row'[b] = row[b]
        BY <1>a, <2>0, <4>1 DEF Row
      <4>3. issued' = issued
        BY <3>1 DEF Patch
      <4> QED BY <2>0, <4>2, <4>3 DEF RowInv, Row
    <3>2. CASE Import(a)
      <4> DEFINE t == [gen |-> issued[a] + 1, rt |-> issued[a] + 1, exp |-> now + Life]
      <4>1. row' = [row EXCEPT ![a] = Updated(row[a], t)] /\ issued' = [issued EXCEPT ![a] = issued[a] + 1]
        BY <3>2 DEF Import
      <4>2. t.gen = issued[a] + 1 /\ t.exp = now + Life
        OBVIOUS
      <4> HIDE DEF t
      <4>3. /\ row'[a] = Updated(row[a], t) /\ issued'[a] = issued[a] + 1
            /\ \A b \in Accounts \ {a} : row'[b] = row[b] /\ issued'[b] = issued[b]
        BY <1>a, <4>1
      <4>4. row'[a].rev = row[a].rev + 1 /\ row'[a].gen = t.gen /\ row'[a].exp = t.exp
        BY <2>0, <4>3 DEF Updated, Row
      <4> QED BY <1>d, <2>0, <4>2, <4>3, <4>4 DEF RowInv, Row
    <3>3. CASE Delete(a)
      <4>1. /\ row'[a].rev = row[a].rev /\ row'[a].gen = row[a].gen /\ row'[a].exp = row[a].exp
            /\ \A b \in Accounts \ {a} : row'[b] = row[b]
        BY <1>a, <2>0, <3>3 DEF Delete, Row
      <4>2. issued' = issued
        BY <3>3 DEF Delete
      <4> QED BY <2>0, <4>1, <4>2 DEF RowInv, Row
    <3> QED BY <1>3, <3>1, <3>2, <3>3
  <2>3. \A b \in Accounts : RowInv(b)'
    BY <1>b, <2>2 DEF RowInv
  <2>4. ASSUME NEW k \in Keys PROVE FlightInv(k)'
    BY <2>0, <2>1, <2>2, RowStep
  <2>5. Kept
    BY <1>a, <2>2 DEF Row
  <2> QED BY <2>3, <2>4, <2>5 DEF StoreInv
<1>4. ASSUME UNCHANGED <<row, issued, flight>> PROVE StoreInv' /\ Kept
  BY <1>u, <1>4
<1> HIDE DEF Kept
<1>5. ASSUME NEW r \in Callers, NEW k \in Keys, Call(r, k) PROVE StoreInv' /\ Kept
  BY <1>4, <1>5 DEF Call
<1>6. ASSUME NEW r \in Callers, Take(r) \/ Get(r) \/ Cancel(r) PROVE StoreInv' /\ Kept
  BY <1>4, <1>6 DEF Take, Get, Cancel
<1>7. ASSUME ScanList \/ ScanPush \/ Tick \/ UNCHANGED vars PROVE StoreInv' /\ Kept
  BY <1>4, <1>7 DEF ScanList, ScanPush, Tick, vars
<1>8. StoreInv' /\ Kept
  BY <1>1, <1>2, <1>3, <1>5, <1>6, <1>7 DEF Next, Reimport
<1> QED BY <1>8 DEF Kept

\* No store of EnsureFresh, ForceRefresh or an import replaces a token set by
\* one the provider issued before it, as long as no deleted account comes back.
THEOREM TokensNeverRegress ==
  ASSUME "reimport" \notin Others
  PROVE  Spec => MonotoneTokens
<1>1. Spec => []TypeOK
  BY TypeCorrect
<1>2. TypeOK /\ TypeOK' /\ StoreInv /\ [Next]_vars =>
        StoreInv' /\ [\A a \in Accounts : row[a].reborn \/ row'[a].gen >= row[a].gen]_vars
  BY StoreStep
<1> QED BY <1>1, <1>2, StoreInit, PTL DEF Spec, MonotoneTokens
-----------------------------------------------------------------------------
(* One exchange serves everybody.                                          *)

\* The token set of the row outlives the model's clock.
Lasting(a) == row[a].exp > MaxClock

\* A flight began in the past, and what it minted or answers with was not stale then.
ServeFlight(k) ==
    LET f == flight[k]
    IN  /\ f.at # "none" => f.began <= now
        /\ f.at \in Minted => f.mint.exp >= f.began /\ f.mint.exp > MaxClock
        /\ f.at = "done" /\ f.ret # Failed => f.ret.exp >= f.began

\* The flight of EnsureFresh exchanges only while the row is stale, and once it has
\* bought something, either it still holds that or the row never gets stale again.
SpentOnce(a) ==
    LET f == flight[<<"ensure", a>>]
    IN  /\ spent[a] <= 1
        /\ spent[a] = 1 => Lasting(a) \/ f.at \in Minted
        /\ f.at = "mint" => spent[a] <= 0
        /\ f.at = "good" => Lasting(a)
        /\ f.at \in Minted \cup {"mint"} => row[a].exp < now \/ Lasting(a)

ServeInv == (\A k \in Keys : ServeFlight(k)) /\ (\A a \in Accounts : SpentOnce(a))

LEMMA ServeInit == Init => ServeInv
<1> SUFFICES ASSUME Init PROVE ServeInv
  OBVIOUS
<1>1. \A a \in Accounts : <<"ensure", a>> \in Keys
  BY DEF Keys, Kinds
<1>2. \A k \in Keys : flight[k].at = "none"
  BY DEF Init, NoFlight
<1>3. \A k \in Keys : ServeFlight(k)
  BY <1>2 DEF ServeFlight, Minted
<1>4. \A a \in Accounts : spent[a] = 0
  BY DEF Init
<1>5. ASSUME NEW a \in Accounts PROVE SpentOnce(a)
  <2>1. flight[<<"ensure", a>>].at = "none" /\ spent[a] = 0
    BY <1>1, <1>2, <1>4
  <2> QED BY <2>1 DEF SpentOnce, Minted
<1> QED BY <1>3, <1>5 DEF ServeInv

\* A step that changes the flights in K only, and no expiry but to a lasting one.
LEMMA ServeFrame ==
  ASSUME TypeOK, TypeOK', ServeInv, now <= now',
         \A a \in Accounts : row'[a].exp = row[a].exp \/ row'[a].exp > MaxClock,
         NEW K,
         \A j \in Keys : j \notin K => flight'[j] = flight[j],
         \A a \in Accounts : <<"ensure", a>> \notin K => spent'[a] = spent[a],
         \A j \in Keys : j \in K => ServeFlight(j)',
         \A a \in Accounts : <<"ensure", a>> \in K => SpentOnce(a)'
  PROVE  ServeInv'
<1>1. now \in Nat /\ now' \in Nat /\ MaxClock \in Nat /\ now <= MaxClock /\ now' <= MaxClock
  BY LimitsAssumption DEF TypeOK
<1>2. ASSUME NEW j \in Keys, j \notin K PROVE ServeFlight(j)'
  <2>1. flight[j].began \in Nat
    BY DEF TypeOK
  <2> QED BY <1>1, <1>2, <2>1 DEF ServeInv, ServeFlight
<1>3. ASSUME NEW a \in Accounts, <<"ensure", a>> \notin K PROVE SpentOnce(a)'
  <2>1. <<"ensure", a>> \in Keys
    BY DEF Keys, Kinds
  <2>2. flight'[<<"ensure", a>>] = flight[<<"ensure", a>>] /\ spent'[a] = spent[a]
    BY <1>3, <2>1
  <2>3. row[a].exp \in Nat /\ row'[a].exp \in Nat
    BY DEF TypeOK
  <2>4. Lasting(a) => Lasting(a)'
    BY DEF Lasting
  <2>5. row[a].exp < now => row'[a].exp < now' \/ Lasting(a)'
    BY <1>1, <2>3 DEF Lasting
  <2> QED BY <2>2, <2>4, <2>5 DEF ServeInv, SpentOnce
<1> QED BY <1>2, <1>3 DEF ServeInv

LEMMA ServeStep == TypeOK /\ TypeOK' /\ ServeInv /\ [Next]_vars => ServeInv'
<1> SUFFICES ASSUME TypeOK, TypeOK', ServeInv, [Next]_vars PROVE ServeInv'
  OBVIOUS
<1> USE DEF rowvars, callvars, queuevars
<1>a. /\ row \in [Accounts -> Row] /\ row' \in [Accounts -> Row]
      /\ flight \in [Keys -> Flight] /\ flight' \in [Keys -> Flight]
      /\ spent \in [Accounts -> Int] /\ now \in Nat /\ now <= MaxClock /\ MaxClock \in Nat
  BY LimitsAssumption DEF TypeOK, Row, Flight
<1>b. now + Life > MaxClock /\ now + Life >= now
  BY <1>a, LifeAssumption
<1>u. ASSUME UNCHANGED <<flight, spent>>, now <= now',
             \A a \in Accounts : row'[a].exp = row[a].exp \/ row'[a].exp > MaxClock
      PROVE  ServeInv'
  <2> DEFINE K == {}
  <2>1. \A j \in Keys : j \notin K => flight'[j] = flight[j]
    BY <1>u
  <2>2. \A a \in Accounts : <<"ensure", a>> \notin K => spent'[a] = spent[a]
    BY <1>u
  <2>3. \A j : j \notin K
    OBVIOUS
  <2> HIDE DEF K
  <2> QED BY <1>u, <2>1, <2>2, <2>3, ServeFrame
<1>r. ASSUME UNCHANGED <<now, row, flight, spent>> PROVE ServeInv'
  BY <1>a, <1>r, <1>u
<1>w. ASSUME NEW a \in Accounts, NEW w, row' = [row EXCEPT ![a] = w],
             w.exp = row[a].exp \/ w.exp > MaxClock, UNCHANGED <<now, flight, spent>>
      PROVE  ServeInv'
  BY <1>a, <1>u, <1>w
<1>1. ASSUME NEW r \in Callers, Do(r) PROVE ServeInv'
  <2>1. PICK k \in Keys : k = key[r]
    BY <1>1 DEF Do, TypeOK
  <2> DEFINE g == [NoFlight EXCEPT !.at = "read", !.leader = r, !.began = now]
  <2>2. flight' = flight \/ (flight[k].at = "none" /\ flight' = [flight EXCEPT ![k] = g])
    BY <1>1, <2>1 DEF Do
  <2>3. g.at = "read" /\ g.began = now
    BY DEF NoFlight
  <2>4. UNCHANGED <<row, now, spent>>
    BY <1>1 DEF Do
  <2> HIDE DEF g
  <2>5. CASE flight[k].at = "none" /\ flight' = [flight EXCEPT ![k] = g]
    <3>1. flight'[k] = g /\ \A j \in Keys \ {k} : flight'[j] = flight[j]
      BY <1>a, <2>5
    <3>2. ServeFlight(k)'
      BY <1>a, <2>3, <2>4, <3>1 DEF ServeFlight, Minted
    <3>3. ASSUME NEW a \in Accounts, <<"ensure", a>> \in {k} PROVE SpentOnce(a)'
      BY <2>3, <2>4, <2>5, <3>1, <3>3 DEF SpentOnce, ServeInv, Minted, Lasting
    <3> DEFINE K == {k}
    <3>4. \A j \in Keys : j \notin K => flight'[j] = flight[j]
      BY <3>1
    <3>5. \A j \in Keys : j \in K => ServeFlight(j)'
      BY <3>2
    <3>6. \A a \in Accounts : <<"ensure", a>> \in K => SpentOnce(a)'
      BY <3>3
    <3> HIDE DEF K
    <3> QED BY <1>a, <2>4, <3>4, <3>5, <3>6, ServeFrame
  <2> QED BY <1>r, <2>2, <2>4, <2>5
<1>2. ASSUME NEW k \in Keys, FlightStep(k) PROVE ServeInv'
  <2> DEFINE a == k[2]
             f == flight[k]
             ensures == k[1] = "ensure"
  <2>0. /\ a \in Accounts /\ row[a] \in Row /\ row'[a] \in Row /\ flight[k] \in Flight
        /\ row[a].exp \in Nat /\ f.began \in Nat /\ f.at \in Places /\ spent[a] \in Int
        /\ now' = now /\ k = <<k[1], a>> /\ ServeFlight(k)
        /\ f.at # "none"
    <3>1. now' = now /\ f.at # "none"
      BY <1>2 DEF FlightStep, Read, Mint, MintRefused, MintLost, Persist, Reread, Repersist, Fail,
                  Blame, Good, Finish
    <3>2. a \in Accounts /\ k = <<k[1], a>>
      BY KeyParts
    <3> QED BY <1>a, <3>1, <3>2 DEF Row, Flight, ServeInv
  <2>1. ensures => k = <<"ensure", a>> /\ SpentOnce(a)
    BY <2>0 DEF ServeInv
  <2>g. ASSUME NEW l, Goto(k, l) PROVE
            /\ flight'[k].at = l /\ flight'[k].began = f.began /\ flight'[k].mint = f.mint
            /\ \A j \in Keys \ {k} : flight'[j] = flight[j]
    BY <1>a, <2>0, <2>g DEF Goto, Flight
  <2>t. ASSUME NEW t, Answer(k, t) PROVE
            /\ flight'[k].at = "done" /\ flight'[k].began = f.began /\ flight'[k].ret = t
            /\ \A j \in Keys \ {k} : flight'[j] = flight[j]
    BY <1>a, <2>0, <2>t DEF Answer, Flight
  <2>s. ASSUME \A j \in Keys \ {k} : flight'[j] = flight[j],
               \A b \in Accounts : row'[b].exp = row[b].exp \/ row'[b].exp > MaxClock,
               spent' = spent \/ (ensures /\ \E n : spent' = [spent EXCEPT ![a] = n]),
               ServeFlight(k)', ensures => SpentOnce(a)'
        PROVE  ServeInv'
    <3> DEFINE K == {k}
    <3>1. \A j \in Keys : j \notin K => flight'[j] = flight[j]
      BY <2>s
    <3>2. \A j \in Keys : j \in K => ServeFlight(j)'
      BY <2>s
    <3>3. \A b \in Accounts : <<"ensure", b>> \in K => SpentOnce(b)'
      <4> SUFFICES ASSUME NEW b \in Accounts, <<"ensure", b>> \in K PROVE SpentOnce(b)'
        OBVIOUS
      <4>1. b = a /\ ensures
        BY <2>0
      <4> QED BY <2>s, <4>1
    <3>4. \A b \in Accounts : <<"ensure", b>> \notin K => spent'[b] = spent[b]
      <4> SUFFICES ASSUME NEW b \in Accounts, <<"ensure", b>> \notin K PROVE spent'[b] = spent[b]
        OBVIOUS
      <4>1. ~(ensures /\ b = a)
        BY <2>0
      <4> QED BY <1>a, <2>s, <4>1
    <3>5. now <= now'
      BY <1>a, <2>0
    <3>6. \A b \in Accounts : row'[b].exp = row[b].exp \/ row'[b].exp > MaxClock
      BY <2>s
    <3> HIDE DEF K, a, f, ensures
    <3> QED BY <3>1, <3>2, <3>3, <3>4, <3>5, <3>6, ServeFrame
  \* A step that stores nothing and mints nothing.
  <2>p. ASSUME \A j \in Keys \ {k} : flight'[j] = flight[j],
               \A b \in Accounts : row'[b].exp = row[b].exp, spent' = spent,
               flight'[k].began = f.began,
               flight'[k].at \notin Minted \cup {"mint"},
               flight'[k].at = "done" => flight'[k].ret = Failed \/ flight'[k].ret.exp >= f.began,
               ensures /\ spent[a] = 1 => Lasting(a)
        PROVE  ServeInv'
    <3>1. ServeFlight(k)'
      BY <2>0, <2>p DEF ServeFlight
    <3>2. ensures => SpentOnce(a)'
      BY <2>0, <2>1, <2>p DEF SpentOnce, Lasting, Minted
    <3> QED BY <2>p, <2>s, <3>1, <3>2
  \* What was minted is lost, or moves on unstored.
  <2>l. ASSUME \A j \in Keys \ {k} : flight'[j] = flight[j], row' = row, spent' = Unspent(k),
               f.at \in Minted, flight'[k].began = f.began,
               flight'[k].at = "fail" \/ (flight'[k].at = "done" /\ flight'[k].ret = Failed)
        PROVE  ServeInv'
    <3>1. ServeFlight(k)'
      BY <2>0, <2>l DEF ServeFlight, Minted
    <3>2. spent' = spent \/ (ensures /\ spent' = [spent EXCEPT ![a] = spent[a] - 1])
      BY <2>l DEF Unspent
    <3>3. ASSUME ensures PROVE SpentOnce(a)'
      <4>1. spent'[a] <= 0 /\ spent'[a] \in Int
        <5>1. spent' = [spent EXCEPT ![a] = spent[a] - 1]
          BY <2>l, <3>3 DEF Unspent
        <5>2. spent'[a] = spent[a] - 1
          BY <1>a, <2>0, <5>1
        <5>3. spent[a] <= 1
          BY <2>1, <3>3 DEF SpentOnce
        <5> QED BY <2>0, <5>2, <5>3
      <4>2. flight'[k].at \notin Minted \cup {"mint"}
        BY <2>l DEF Minted
      <4> QED BY <2>1, <3>3, <4>1, <4>2 DEF SpentOnce, Minted
    <3> QED BY <2>l, <2>s, <3>1, <3>2, <3>3
  \* The flight goes on with what it minted.
  <2>m. ASSUME \A j \in Keys \ {k} : flight'[j] = flight[j], UNCHANGED <<row, spent>>,
               f.at \in Minted, flight'[k].began = f.began, flight'[k].mint = f.mint,
               flight'[k].at \in {"reread", "repersist"}
        PROVE  ServeInv'
    <3>1. ServeFlight(k)'
      BY <2>0, <2>m DEF ServeFlight, Minted
    <3>2. ensures => SpentOnce(a)'
      BY <2>0, <2>1, <2>m DEF SpentOnce, Lasting, Minted
    <3> QED BY <2>m, <2>s, <3>1, <3>2
  <2>w. ASSUME Swap(k), f.at \in {"persist", "repersist"} PROVE ServeInv'
    <3>1. f.mint \in Issued /\ f.mint.exp > MaxClock /\ f.mint.exp >= f.began /\ f.at \in Minted
      BY <2>0, <2>w DEF TypeOK, ServeFlight, Minted
    <3>2. row'[a].exp = f.mint.exp /\ \A b \in Accounts \ {a} : row'[b] = row[b]
      <4> DEFINE t == f.mint
      <4>1. row' = [row EXCEPT ![a] = Updated(row[a], t)]
        BY <2>w DEF Swap
      <4>2. row'[a] = Updated(row[a], t) /\ \A b \in Accounts \ {a} : row'[b] = row[b]
        BY <1>a, <2>0, <4>1
      <4> HIDE DEF t
      <4>3. Updated(row[a], t).exp = t.exp
        BY <2>0 DEF Updated, Row
      <4> QED BY <4>2, <4>3 DEF t
    <3>3. /\ flight'[k].at = "good" /\ flight'[k].began = f.began /\ flight'[k].mint = f.mint
          /\ \A j \in Keys \ {k} : flight'[j] = flight[j]
      BY <2>w, <2>g DEF Swap
    <3>4. spent' = spent
      BY <2>w DEF Swap
    <3>5. Lasting(a)'
      BY <3>1, <3>2 DEF Lasting
    <3>6. ServeFlight(k)'
      BY <2>0, <3>1, <3>3 DEF ServeFlight, Minted
    <3>7. ensures => SpentOnce(a)'
      BY <2>1, <3>3, <3>4, <3>5 DEF SpentOnce, Minted
    <3>8. \A b \in Accounts : row'[b].exp = row[b].exp \/ row'[b].exp > MaxClock
      BY <3>1, <3>2
    <3> QED BY <2>s, <3>3, <3>4, <3>6, <3>7, <3>8
  <2>e. UNCHANGED row => \A b \in Accounts : row'[b].exp = row[b].exp
    OBVIOUS
  <2>2. CASE Read(k)
    <3>0. f.at = "read" /\ UNCHANGED <<row, spent>>
      BY <2>2 DEF Read
    <3>1. ensures /\ spent[a] = 1 => Lasting(a)
      BY <2>1, <3>0 DEF SpentOnce, Minted
    <3>2. ASSUME NEW t, Answer(k, t), t = Failed \/ (t = TokensOf(row[a]) /\ Fresh(a)) PROVE ServeInv'
      <4>1. t = Failed \/ t.exp >= f.began
        <5>1. TokensOf(row[a]).exp = row[a].exp
          BY DEF TokensOf
        <5> QED BY <1>a, <2>0, <3>2, <5>1 DEF Fresh, ServeFlight
      <4> QED BY <2>e, <2>p, <2>t, <3>0, <3>1, <3>2, <4>1 DEF Minted
    <3>3. CASE /\ ~(ensures /\ Fresh(a))
               /\ flight' = [flight EXCEPT ![k].at = "mint", ![k].rev = row[a].rev,
                                           ![k].mint = TokensOf(row[a])]
      <4>1. /\ flight'[k].at = "mint" /\ flight'[k].began = f.began
            /\ \A j \in Keys \ {k} : flight'[j] = flight[j]
        BY <1>a, <2>0, <3>3 DEF Flight
      <4>2. ServeFlight(k)'
        BY <2>0, <4>1 DEF ServeFlight, Minted
      <4>3. ASSUME ensures PROVE SpentOnce(a)'
        <5>1. row[a].exp < now
          BY <1>a, <2>0, <3>3, <4>3 DEF Fresh
        <5>2. ~Lasting(a)
          BY <1>a, <2>0, <5>1 DEF Lasting
        <5>3. spent[a] <= 0
          BY <2>0, <2>1, <3>1, <4>3, <5>2 DEF SpentOnce
        <5> QED BY <2>0, <2>1, <3>0, <4>1, <4>3, <5>1, <5>3 DEF SpentOnce, Minted
      <4> QED BY <2>s, <3>0, <4>1, <4>2, <4>3
    <3>4. \/ \E t : Answer(k, t) /\ (t = Failed \/ (t = TokensOf(row[a]) /\ Fresh(a)))
          \/ /\ ~(ensures /\ Fresh(a))
             /\ flight' = [flight EXCEPT ![k].at = "mint", ![k].rev = row[a].rev,
                                         ![k].mint = TokensOf(row[a])]
      BY <2>2 DEF Read
    <3> QED BY <3>2, <3>3, <3>4
  <2>3. CASE Mint(k)
    <3> DEFINE t == Issue(k).tokens
    <3>1. t \in Issued /\ t.exp = now + Life
      BY <2>3, IssueTyped DEF Mint
    <3>2. flight' = [flight EXCEPT ![k].at = "persist", ![k].mint = t]
      BY <2>3 DEF Mint
    <3> HIDE DEF t
    <3>3. /\ flight'[k].at = "persist" /\ flight'[k].began = f.began /\ flight'[k].mint = t
          /\ \A j \in Keys \ {k} : flight'[j] = flight[j]
      BY <1>a, <2>0, <3>2 DEF Flight
    <3>4. row' = row /\ f.at = "mint"
      BY <2>3 DEF Mint
    <3>5. ServeFlight(k)'
      <4>1. t.exp >= f.began /\ t.exp > MaxClock
        BY <1>a, <1>b, <2>0, <3>1 DEF ServeFlight, Issued
      <4> QED BY <2>0, <3>3, <4>1 DEF ServeFlight
    <3>6. ASSUME ensures PROVE SpentOnce(a)'
      <4>1. spent' = [spent EXCEPT ![a] = @ + 1]
        BY <2>3, <3>6 DEF Mint
      <4>2. spent'[a] = spent[a] + 1 /\ spent[a] <= 0
        BY <1>a, <2>0, <2>1, <3>4, <3>6, <4>1 DEF SpentOnce
      <4>3. spent'[a] <= 1
        BY <2>0, <4>2
      <4> QED BY <2>0, <2>1, <3>3, <3>4, <3>6, <4>3 DEF SpentOnce, Minted, Lasting
    <3>7. spent' = spent \/ (ensures /\ \E n : spent' = [spent EXCEPT ![a] = n])
      BY <2>3 DEF Mint
    <3> QED BY <2>s, <3>3, <3>4, <3>5, <3>6, <3>7
  <2>4. CASE MintRefused(k) \/ MintLost(k)
    <3>1. f.at = "mint" /\ UNCHANGED <<row, spent>> /\ Goto(k, "fail")
      BY <2>4 DEF MintRefused, MintLost
    <3>2. ensures /\ spent[a] = 1 => Lasting(a)
      BY <2>1, <3>1 DEF SpentOnce
    <3> QED BY <2>e, <2>g, <2>p, <3>1, <3>2 DEF Minted
  <2>5. CASE Persist(k) \/ Repersist(k)
    <3>1. f.at \in {"persist", "repersist"} /\ f.at \in Minted
      BY <2>5 DEF Persist, Repersist, Minted
    <3>2. \/ Swap(k)
          \/ Goto(k, "reread") /\ UNCHANGED <<row, spent>>
          \/ Goto(k, "fail") /\ spent' = Unspent(k) /\ UNCHANGED row
      BY <2>5 DEF Persist, Repersist
    <3>3. CASE Goto(k, "reread") /\ UNCHANGED <<row, spent>>
      BY <2>g, <2>m, <3>1, <3>3
    <3>4. CASE Goto(k, "fail") /\ spent' = Unspent(k) /\ UNCHANGED row
      BY <2>g, <2>l, <3>1, <3>4
    <3> QED BY <2>w, <3>1, <3>2, <3>3, <3>4
  <2>6. CASE Reread(k)
    <3>1. f.at = "reread" /\ f.at \in Minted /\ UNCHANGED row
      BY <2>6 DEF Reread, Minted
    <3>2. \/ Answer(k, Failed) /\ spent' = Unspent(k)
          \/ Fresh(a) /\ Answer(k, TokensOf(row[a])) /\ UNCHANGED spent
          \/ /\ flight' = [flight EXCEPT ![k].at = "repersist", ![k].rev = row[a].rev]
             /\ UNCHANGED spent
      BY <2>6 DEF Reread
    <3>3. CASE Answer(k, Failed) /\ spent' = Unspent(k)
      BY <2>l, <2>t, <3>1, <3>3
    <3>4. CASE Fresh(a) /\ Answer(k, TokensOf(row[a])) /\ UNCHANGED spent
      <4>1. TokensOf(row[a]).exp >= f.began
        <5>1. TokensOf(row[a]).exp = row[a].exp
          BY DEF TokensOf
        <5> QED BY <1>a, <2>0, <3>4, <5>1 DEF Fresh, ServeFlight
      <4>2. ensures => Lasting(a)
        BY <1>a, <2>0, <2>1, <3>1, <3>4 DEF Fresh, SpentOnce
      <4> QED BY <2>e, <2>p, <2>t, <3>1, <3>4, <4>1, <4>2 DEF Minted
    <3>5. CASE /\ flight' = [flight EXCEPT ![k].at = "repersist", ![k].rev = row[a].rev]
               /\ UNCHANGED spent
      <4>1. /\ flight'[k].at = "repersist" /\ flight'[k].began = f.began /\ flight'[k].mint = f.mint
            /\ \A j \in Keys \ {k} : flight'[j] = flight[j]
        BY <1>a, <2>0, <3>5 DEF Flight
      <4> QED BY <2>m, <3>1, <3>5, <4>1
    <3> QED BY <3>2, <3>3, <3>4, <3>5
  <2>7. CASE Fail(k)
    <3>1. f.at = "fail" /\ UNCHANGED <<row, spent>>
      BY <2>7 DEF Fail
    <3>2. ensures /\ spent[a] = 1 => Lasting(a)
      BY <2>1, <3>1 DEF SpentOnce, Minted
    <3>3. CASE Answer(k, Failed)
      BY <2>e, <2>p, <2>t, <3>1, <3>2, <3>3 DEF Minted
    <3>4. CASE flight' = [flight EXCEPT ![k].at = "blame", ![k].cu = row[a].cu + 1]
      <4>1. /\ flight'[k].at = "blame" /\ flight'[k].began = f.began
            /\ \A j \in Keys \ {k} : flight'[j] = flight[j]
        BY <1>a, <2>0, <3>4 DEF Flight
      <4> QED BY <2>e, <2>p, <3>1, <3>2, <4>1 DEF Minted
    <3> QED BY <2>7, <3>3, <3>4 DEF Fail
  <2>8. CASE Blame(k)
    <3>1. f.at = "blame" /\ UNCHANGED spent /\ Answer(k, Failed)
      BY <2>8 DEF Blame
    <3>2. ensures /\ spent[a] = 1 => Lasting(a)
      BY <2>1, <3>1 DEF SpentOnce, Minted
    <3>3. \A b \in Accounts : row'[b].exp = row[b].exp
      <4>1. row' = row \/ row' = [row EXCEPT ![a] = Blamed(row[a], f.cu)]
        BY <2>8 DEF Blame
      <4>2. Blamed(row[a], f.cu).exp = row[a].exp
        BY <2>0 DEF Blamed, Row
      <4> QED BY <1>a, <4>1, <4>2
    <3> QED BY <2>p, <2>t, <3>1, <3>2, <3>3 DEF Minted
  <2>9. CASE Good(k)
    <3>1. f.at = "good" /\ UNCHANGED spent /\ Answer(k, f.mint)
      BY <2>9 DEF Good
    <3>2. ensures /\ spent[a] = 1 => Lasting(a)
      BY <2>1, <3>1 DEF SpentOnce
    <3>3. \A b \in Accounts : row'[b].exp = row[b].exp
      <4>1. row' = row \/ row' = [row EXCEPT ![a] = [row[a] EXCEPT !.rev = @ + 1, !.cu = 0]]
        BY <2>9 DEF Good
      <4>2. [row[a] EXCEPT !.rev = @ + 1, !.cu = 0].exp = row[a].exp
        BY <2>0 DEF Row
      <4> QED BY <1>a, <4>1, <4>2
    <3>4. f.mint.exp >= f.began
      BY <2>0, <3>1 DEF ServeFlight, Minted
    <3> QED BY <2>p, <2>t, <3>1, <3>2, <3>3, <3>4 DEF Minted
  <2>10. CASE Finish(k)
    <3>1. f.at = "done" /\ UNCHANGED <<row, spent>> /\ flight' = [flight EXCEPT ![k] = NoFlight]
      BY <2>10 DEF Finish
    <3>2. flight'[k].at = "none" /\ \A j \in Keys \ {k} : flight'[j] = flight[j]
      BY <1>a, <2>0, <3>1 DEF NoFlight
    <3>3. ServeFlight(k)'
      BY <3>2 DEF ServeFlight, Minted
    <3>4. ensures => SpentOnce(a)'
      BY <2>0, <2>1, <3>1, <3>2 DEF SpentOnce, Minted, Lasting
    <3> QED BY <2>s, <3>1, <3>2, <3>3, <3>4
  <2> QED
    BY <1>2, <2>2, <2>3, <2>4, <2>5, <2>6, <2>7, <2>8, <2>9, <2>10 DEF FlightStep
<1>3. ASSUME NEW a \in Accounts, Patch(a) \/ Delete(a) PROVE ServeInv'
  <2>1. UNCHANGED <<now, flight, spent>>
    BY <1>3 DEF Patch, Delete
  <2>2. \A b \in Accounts : row'[b].exp = row[b].exp
    <3>1. CASE Patch(a)
      <4>1. PICK n, act : row' = [row EXCEPT ![a].rev = @ + 1, ![a].cu = n, ![a].active = act]
        BY <3>1 DEF Patch
      <4> DEFINE w == [row[a] EXCEPT !.rev = @ + 1, !.cu = n, !.active = act]
      <4>2. row' = [row EXCEPT ![a] = w]
        BY <1>a, <4>1
      <4>3. w.exp = row[a].exp
        BY <1>a DEF Row
      <4> HIDE DEF w
      <4> QED BY <1>a, <4>2, <4>3
    <3>2. CASE Delete(a)
      <4> DEFINE w == [row[a] EXCEPT !.listed = FALSE]
      <4>1. row' = [row EXCEPT ![a] = w]
        BY <3>2 DEF Delete
      <4>2. w.exp = row[a].exp
        BY <1>a DEF Row
      <4> HIDE DEF w
      <4> QED BY <1>a, <4>1, <4>2
    <3> QED BY <1>3, <3>1, <3>2
  <2> QED BY <1>a, <1>u, <2>1, <2>2
<1>4. ASSUME NEW a \in Accounts, Import(a) \/ Reimport(a) PROVE ServeInv'
  <2> DEFINE t == [gen |-> issued[a] + 1, rt |-> issued[a] + 1, exp |-> now + Life]
  <2>1. UNCHANGED <<now, flight, spent>>
    BY <1>4 DEF Import, Reimport
  <2>2. t.exp = now + Life
    OBVIOUS
  <2>3. \/ row' = [row EXCEPT ![a] = Updated(row[a], t)]
        \/ row' = [row EXCEPT ![a] = [Updated(NewRow(a), t) EXCEPT !.rev = 1, !.reborn = TRUE]]
    BY <1>4 DEF Import, Reimport
  <2> HIDE DEF t
  <2>4. Updated(row[a], t).exp = t.exp
    BY <1>a DEF Updated, Row
  <2>5. [Updated(NewRow(a), t) EXCEPT !.rev = 1, !.reborn = TRUE].exp = t.exp
    BY DEF Updated, NewRow
  <2>6. \A b \in Accounts : row'[b].exp = row[b].exp \/ row'[b].exp > MaxClock
    BY <1>a, <1>b, <2>2, <2>3, <2>4, <2>5
  <2> QED BY <1>a, <1>u, <2>1, <2>6
<1>5. CASE Tick
  BY <1>a, <1>5, <1>u DEF Tick
<1> QED
  BY <1>r, <1>1, <1>2, <1>3, <1>4, <1>5
     DEF Next, Call, Take, Get, Cancel, ScanList, ScanPush, vars

\* However many callers find an account stale, EnsureFresh exchanges its refresh token
\* once for all of them, and no flight of it answers with a token set that was stale when
\* it began, whatever leases, administrators and a ForceRefresh do to the row meanwhile.
THEOREM EnsureAlwaysServes == Spec => []EnsureServes
<1>1. ServeInv => EnsureServes
  <2> SUFFICES ASSUME ServeInv, NEW a \in Accounts
               PROVE  /\ spent[a] <= 1
                      /\ LET f == flight[<<"ensure", a>>]
                         IN  f.at = "done" /\ f.ret # Failed => f.ret.exp >= f.began
    BY DEF EnsureServes, EnsureMintsOnce, EnsureAnswersFresh
  <2>1. <<"ensure", a>> \in Keys
    BY DEF Keys, Kinds
  <2> QED BY <2>1 DEF ServeInv, ServeFlight, SpentOnce
<1>2. Spec => []TypeOK
  BY TypeCorrect
<1> QED
  BY <1>1, <1>2, ServeInit, ServeStep, PTL DEF Spec


=============================================================================
