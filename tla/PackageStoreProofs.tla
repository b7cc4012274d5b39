-------------------------- MODULE PackageStoreProofs --------------------------
(***************************************************************************)
(* Proofs about PackageStore for any number of people, packages and open   *)
(* requests.                                                               *)
(*                                                                         *)
(* The properties are not inductive by themselves: what a request does     *)
(* depends on what it was opened for, so the invariant adds Sent: a        *)
(* request that uses a package is for a package of its kind, and one that  *)
(* hands it over names somebody.  The rest is kept package by package      *)
(* (PackOK) and account by account (AccountOK).                            *)
(***************************************************************************)
EXTENDS PackageStore, FiniteSetTheorems, TLAPS

Sent(q) ==
  /\ q.op \in {"gift", "redeem", "open"} => q.by \in People
  /\ q.op \in {"grant", "gift"} => q.to \in People
  /\ q.op = "redeem" => q.pkg \in CreditPacks
  /\ q.op = "open" => q.pkg \in TeamPacks

PackOK(p) ==
  /\ spaces[p] = IF p \in TeamPacks /\ status[p] = "redeemed" THEN 1 ELSE 0
  /\ status[p] = "held" => (owner[p] = Nobody <=> email[p] # Nobody)
  /\ status[p] = "unissued" => owner[p] = Nobody

AccountOK(u) ==
  balance[u] = adjusted[u] + (IF u \in accounts THEN SignupCredits ELSE 0)
                           + PackCredits * Cardinality(Used(u))

AllSent == \A r \in Requests : Sent(req[r])
PacksOK == \A p \in Packages : PackOK(p)
AccountsOK == \A u \in People : AccountOK(u)
IInv == TypeOK /\ AllSent /\ PacksOK /\ AccountsOK

\* What the balance of a person rests on is the same after the step.
SameUse == \A p \in CreditPacks : status[p] = "redeemed" \/ status'[p] = "redeemed" =>
             status'[p] = status[p] /\ owner'[p] = owner[p]

LEMMA CountType == ASSUME NEW u \in People PROVE IsFiniteSet(Used(u)) /\ Cardinality(Used(u)) \in Nat
<1>1. Used(u) \subseteq CreditPacks
  BY DEF Used
<1> QED BY <1>1, PackageAssumption, FS_Subset, FS_CardinalityType

LEMMA InitIInv == Init => IInv
<1> SUFFICES ASSUME Init PROVE IInv
  OBVIOUS
<1>1. TypeOK
  BY DEF Init, TypeOK
<1>2. AllSent
  BY DEF Init, AllSent, Sent, None
<1>3. PacksOK
  BY DEF Init, PacksOK, PackOK
<1>4. ASSUME NEW u \in People PROVE AccountOK(u)
  <2>1. Used(u) = {}
    BY DEF Init, Used, Packages
  <2>2. Cardinality(Used(u)) = 0
    BY <2>1, FS_EmptySet
  <2> QED BY <2>2, CreditAssumption DEF Init, AccountOK
<1> QED BY <1>1, <1>2, <1>3, <1>4 DEF IInv, AccountsOK

LEMMA SameUsed ==
  ASSUME SameUse, NEW u \in People
  PROVE  Used(u)' = Used(u)
  BY DEF SameUse, Used

\* A step that uses no credit pack keeps the accounts whose numbers it leaves alone.
LEMMA AccountsKept ==
  ASSUME AccountsOK, SameUse, UNCHANGED people
  PROVE  AccountsOK'
<1> SUFFICES ASSUME NEW u \in People PROVE AccountOK(u)'
  BY DEF AccountsOK
<1>1. Used(u)' = Used(u)
  BY SameUsed
<1> QED BY <1>1 DEF AccountsOK, AccountOK, people

LEMMA AddType ==
  ASSUME TypeOK, NEW u \in People, NEW d \in Int, AddCredits(u, d)
  PROVE  /\ balance' \in [People -> Nat] /\ balance'[u] = balance[u] + d
         /\ \A v \in People \ {u} : balance'[v] = balance[v]
  BY DEF TypeOK, AddCredits

LEMMA ClaimStep ==
  ASSUME TypeOK, PacksOK, NEW u \in People, ClaimPending(u), UNCHANGED spaces
  PROVE  /\ owner' \in [Packages -> People \cup {Nobody}]
         /\ email' \in [Packages -> People \cup {Nobody}]
         /\ PacksOK' /\ SameUse
<1>1. /\ owner' \in [Packages -> People \cup {Nobody}]
      /\ email' \in [Packages -> People \cup {Nobody}]
  BY DEF ClaimPending, TypeOK
<1>2. ASSUME NEW p \in Packages PROVE PackOK(p)'
  BY <1>2, PackageAssumption DEF ClaimPending, PacksOK, PackOK, Waits, TypeOK
<1>3. SameUse
  BY DEF ClaimPending, SameUse, Waits, Packages
<1> QED BY <1>1, <1>2, <1>3 DEF PacksOK

LEMMA SignUpStep == ASSUME IInv, NEW u \in People, SignUp(u) PROVE IInv'
<1> USE DEF SignUp
<1>1. SignupCredits \in Int
  BY CreditAssumption
<1>2. /\ owner' \in [Packages -> People \cup {Nobody}]
      /\ email' \in [Packages -> People \cup {Nobody}]
      /\ PacksOK' /\ SameUse
  BY ClaimStep DEF IInv
<1>3. /\ balance' \in [People -> Nat] /\ balance'[u] = balance[u] + SignupCredits
      /\ \A v \in People \ {u} : balance'[v] = balance[v]
  BY <1>1, AddType DEF IInv
<1>4. TypeOK'
  BY <1>2, <1>3 DEF IInv, TypeOK, ClaimPending
<1>5. AllSent'
  BY DEF IInv, AllSent
<1>6. ASSUME NEW v \in People PROVE AccountOK(v)'
  <2>1. Used(v)' = Used(v)
    BY <1>2, SameUsed
  <2>2. PackCredits * Cardinality(Used(v)) \in Int
    BY CountType, CreditAssumption
  <2>3. adjusted[v] \in Int /\ balance[v] \in Int /\ adjusted' = adjusted
    BY DEF IInv, TypeOK
  <2>4. AccountOK(v)
    BY DEF IInv, AccountsOK
  <2>5. CASE v = u
    BY <1>3, <2>1, <2>2, <2>3, <2>4, <2>5, CreditAssumption DEF AccountOK
  <2>6. CASE v # u
    BY <1>3, <2>1, <2>3, <2>4, <2>6 DEF AccountOK
  <2> QED BY <2>5, <2>6
<1> QED BY <1>2, <1>4, <1>5, <1>6 DEF IInv, AccountsOK

LEMMA VisitStep == ASSUME IInv, NEW u \in People, Visit(u) PROVE IInv'
<1> USE DEF Visit
<1>1. /\ owner' \in [Packages -> People \cup {Nobody}]
      /\ email' \in [Packages -> People \cup {Nobody}]
      /\ PacksOK' /\ SameUse
  BY ClaimStep DEF IInv
<1>2. TypeOK'
  BY <1>1 DEF IInv, TypeOK, ClaimPending, people
<1>3. AllSent'
  BY DEF IInv, AllSent
<1>4. AccountsOK'
  BY <1>1, AccountsKept DEF IInv
<1> QED BY <1>1, <1>2, <1>3, <1>4 DEF IInv

LEMMA AdjustStep == ASSUME IInv, NEW u \in People, Adjust(u) PROVE IInv'
<1>1. PICK d \in Changes : AddCredits(u, d) /\ adjusted' = [adjusted EXCEPT ![u] = @ + d]
  BY DEF Adjust
<1>0. d \in Int
  BY CreditAssumption
<1>2. /\ balance' \in [People -> Nat] /\ balance'[u] = balance[u] + d
      /\ \A v \in People \ {u} : balance'[v] = balance[v]
  BY <1>0, <1>1, AddType DEF IInv
<1>3. TypeOK'
  <2>1. adjusted' \in [People -> Int]
    BY <1>0, <1>1 DEF IInv, TypeOK
  <2>2. adjusts' \in Nat /\ UNCHANGED <<accounts, rows, spaces, req>>
    BY DEF Adjust, IInv, TypeOK
  <2> QED BY <1>2, <2>1, <2>2 DEF IInv, TypeOK, rows
<1>4. AllSent' /\ PacksOK'
  BY DEF Adjust, IInv, AllSent, PacksOK, PackOK, rows
<1>5. SameUse
  BY DEF Adjust, rows, SameUse
<1>6. ASSUME NEW v \in People PROVE AccountOK(v)'
  <2>1. Used(v)' = Used(v)
    BY <1>5, SameUsed
  <2>2. PackCredits * Cardinality(Used(v)) \in Int
    BY CountType, CreditAssumption
  <2>3. adjusted[v] \in Int /\ balance[v] \in Int /\ accounts' = accounts
    BY DEF IInv, TypeOK, Adjust
  <2>4. AccountOK(v)
    BY DEF IInv, AccountsOK
  <2>5. adjusted'[v] = IF v = u THEN adjusted[v] + d ELSE adjusted[v]
    BY <1>0, <1>1 DEF IInv, TypeOK
  <2>6. CASE v = u
    BY <1>0, <1>2, <2>1, <2>2, <2>3, <2>4, <2>5, <2>6, CreditAssumption DEF AccountOK
  <2>7. CASE v # u
    BY <1>2, <2>1, <2>3, <2>4, <2>5, <2>7 DEF AccountOK
  <2> QED BY <2>6, <2>7
<1> QED BY <1>3, <1>4, <1>6 DEF IInv, AccountsOK

LEMMA AskStep ==
  ASSUME IInv, NEW r \in Requests, NEW op \in Ops, NEW by \in People \cup {Nobody},
         NEW p \in Packages, NEW to \in People \cup {Nobody}, Ask(r, op, by, p, to),
         Sent([op |-> op, by |-> by, pkg |-> p, to |-> to, known |-> to \in accounts])
  PROVE  IInv'
<1>1. TypeOK'
  BY DEF IInv, TypeOK, Ask, people, rows, Open
<1>2. AllSent'
  BY DEF IInv, TypeOK, AllSent, Ask
<1>3. PacksOK'
  BY DEF IInv, PacksOK, PackOK, Ask, rows
<1>4. SameUse
  BY DEF Ask, rows, SameUse
<1>5. AccountsOK'
  BY <1>4, AccountsKept DEF IInv, Ask
<1> QED BY <1>1, <1>2, <1>3, <1>5 DEF IInv

LEMMA CloseStep ==
  ASSUME IInv, NEW r \in Requests, Close(r)
  PROVE  req' \in [Requests -> Open \cup {None}] /\ AllSent'
  BY DEF IInv, TypeOK, AllSent, Close, None, Sent

LEMMA ReqType ==
  ASSUME IInv, NEW r \in Requests, req[r].op \in Ops
  PROVE  req[r] \in Open /\ Sent(req[r])
  BY DEF IInv, TypeOK, AllSent, None, Ops

LEMMA HandStep ==
  ASSUME IInv, NEW r \in Requests, req[r].op \in {"grant", "gift"},
         NEW p \in Packages, HandTo(p, req[r])
  PROVE  /\ owner' \in [Packages -> People \cup {Nobody}]
         /\ email' \in [Packages -> People \cup {Nobody}]
         /\ owner'[p] = Nobody <=> email'[p] # Nobody
         /\ \A o \in Packages \ {p} : owner'[o] = owner[o] /\ email'[o] = email[o]
<1>1. req[r] \in Open /\ req[r].to \in People
  BY ReqType DEF Ops, Sent
<1> QED BY <1>1, PackageAssumption DEF HandTo, IInv, TypeOK, Open

LEMMA GrantStep == ASSUME IInv, NEW r \in Requests, Grant(r) PROVE IInv'
<1> DEFINE p == req[r].pkg
<1>1. req[r].op = "grant" /\ p \in Packages
  BY ReqType DEF Grant, Open, Ops
<1>2. /\ owner' \in [Packages -> People \cup {Nobody}]
      /\ email' \in [Packages -> People \cup {Nobody}]
      /\ owner'[p] = Nobody <=> email'[p] # Nobody
      /\ \A o \in Packages \ {p} : owner'[o] = owner[o] /\ email'[o] = email[o]
  BY <1>1, HandStep DEF Grant
<1>3. req' \in [Requests -> Open \cup {None}] /\ AllSent'
  BY CloseStep DEF Grant
<1>4. TypeOK'
  BY <1>1, <1>2, <1>3 DEF IInv, TypeOK, Grant, people
<1>5. PacksOK'
  BY <1>1, <1>2 DEF IInv, TypeOK, PacksOK, PackOK, Grant
<1>6. SameUse
  BY <1>1, <1>2 DEF IInv, TypeOK, SameUse, Grant, Packages
<1>7. AccountsOK'
  BY <1>6, AccountsKept DEF IInv, Grant
<1> QED BY <1>3, <1>4, <1>5, <1>7 DEF IInv

LEMMA GiftStep == ASSUME IInv, NEW r \in Requests, Gift(r) PROVE IInv'
<1> DEFINE p == req[r].pkg
<1>1. req[r].op = "gift" /\ p \in Packages /\ req[r].by \in People
  BY ReqType DEF Gift, Open, Ops, Sent
<1>2. /\ owner' \in [Packages -> People \cup {Nobody}]
      /\ email' \in [Packages -> People \cup {Nobody}]
      /\ owner'[p] = Nobody <=> email'[p] # Nobody
      /\ \A o \in Packages \ {p} : owner'[o] = owner[o] /\ email'[o] = email[o]
  BY <1>1, HandStep DEF Gift
<1>3. req' \in [Requests -> Open \cup {None}] /\ AllSent'
  BY CloseStep DEF Gift
<1>4. TypeOK'
  BY <1>1, <1>2, <1>3 DEF IInv, TypeOK, Gift, people
<1>5. PacksOK'
  BY <1>1, <1>2 DEF IInv, TypeOK, PacksOK, PackOK, Gift, OwnedHeld
<1>6. SameUse
  BY <1>1, <1>2 DEF IInv, TypeOK, SameUse, Gift, OwnedHeld, Packages
<1>7. AccountsOK'
  BY <1>6, AccountsKept DEF IInv, Gift
<1> QED BY <1>3, <1>4, <1>5, <1>7 DEF IInv

\* The step that adds one to the packs somebody used adds their worth.
LEMMA RedeemStep == ASSUME IInv, NEW r \in Requests, Redeem(r) PROVE IInv'
<1> DEFINE p == req[r].pkg
           u == req[r].by
<1> USE DEF Redeem, RedeemIf
<1>1. /\ req[r].op = "redeem" /\ p \in CreditPacks /\ p \in Packages /\ u \in People
      /\ owner[p] = u /\ status[p] = "held" /\ p \notin TeamPacks
  BY ReqType, PackageAssumption DEF Ops, Sent, OwnedHeld, Packages
<1>2. /\ balance' \in [People -> Nat] /\ balance'[u] = balance[u] + PackCredits
      /\ \A v \in People \ {u} : balance'[v] = balance[v]
  <2>1. PackCredits \in Int
    BY CreditAssumption
  <2> QED BY <1>1, <2>1, AddType DEF IInv
<1>3. req' \in [Requests -> Open \cup {None}] /\ AllSent'
  BY CloseStep
<1>4. TypeOK'
  BY <1>1, <1>2, <1>3 DEF IInv, TypeOK
<1>5. PacksOK'
  BY <1>1 DEF IInv, TypeOK, PacksOK, PackOK
<1>6. ASSUME NEW v \in People PROVE AccountOK(v)'
  <2>1. adjusted[v] \in Int /\ balance[v] \in Int /\ adjusted' = adjusted /\ accounts' = accounts
    BY DEF IInv, TypeOK
  <2>2. AccountOK(v)
    BY DEF IInv, AccountsOK
  <2>3. CASE v = u
    <3>1. Used(v)' = Used(v) \cup {p} /\ p \notin Used(v)
      BY <1>1, <2>3 DEF IInv, TypeOK, Used, Packages
    <3>2. Cardinality(Used(v)') = Cardinality(Used(v)) + 1
      BY <3>1, CountType, FS_AddElement
    <3>3. PackCredits * (Cardinality(Used(v)) + 1) = PackCredits * Cardinality(Used(v)) + PackCredits
      BY CountType, CreditAssumption
    <3>4. PackCredits * Cardinality(Used(v)) \in Int
      BY CountType, CreditAssumption
    <3>5. Cardinality(Used(v))' = Cardinality(Used(v)')
      OBVIOUS
    <3> QED BY <1>2, <2>1, <2>2, <2>3, <3>2, <3>3, <3>4, <3>5, CreditAssumption DEF AccountOK
  <2>4. CASE v # u
    <3>1. Used(v)' = Used(v)
      BY <1>1, <2>4 DEF IInv, TypeOK, Used, Packages
    <3> QED BY <1>2, <2>1, <2>2, <2>4, <3>1 DEF AccountOK
  <2> QED BY <2>3, <2>4
<1> QED BY <1>3, <1>4, <1>5, <1>6 DEF IInv, AccountsOK

LEMMA OpenStep == ASSUME IInv, NEW r \in Requests, OpenSpace(r) PROVE IInv'
<1> DEFINE p == req[r].pkg
<1> USE DEF OpenSpace
<1>1. /\ req[r].op = "open" /\ p \in TeamPacks /\ p \in Packages
      /\ status[p] = "held" /\ p \notin CreditPacks
  BY ReqType, PackageAssumption DEF Ops, Sent, OwnedHeld, Packages
<1>2. req' \in [Requests -> Open \cup {None}] /\ AllSent'
  BY CloseStep
<1>3. TypeOK'
  BY <1>1, <1>2 DEF IInv, TypeOK, people
<1>4. PacksOK'
  BY <1>1 DEF IInv, TypeOK, PacksOK, PackOK
<1>5. SameUse
  BY <1>1 DEF IInv, TypeOK, SameUse, Packages
<1>6. AccountsOK'
  BY <1>5, AccountsKept DEF IInv
<1> QED BY <1>2, <1>3, <1>4, <1>6 DEF IInv

LEMMA RefuseStep == ASSUME IInv, NEW r \in Requests, Refuse(r) PROVE IInv'
<1>1. req' \in [Requests -> Open \cup {None}] /\ AllSent'
  BY CloseStep DEF Refuse
<1>2. TypeOK' /\ PacksOK' /\ SameUse
  BY <1>1 DEF IInv, TypeOK, PacksOK, PackOK, SameUse, Refuse, people, rows
<1>3. AccountsOK'
  BY <1>2, AccountsKept DEF IInv, Refuse
<1> QED BY <1>1, <1>2, <1>3 DEF IInv

LEMMA CancelStep ==
  ASSUME IInv, NEW u \in People, NEW p \in Packages, CancelGift(u, p) PROVE IInv'
<1> USE DEF CancelGift, TakeBack
<1>1. TypeOK' /\ AllSent'
  BY DEF IInv, TypeOK, AllSent, people
<1>2. PacksOK'
  BY PackageAssumption DEF IInv, TypeOK, PacksOK, PackOK
<1>3. SameUse
  BY DEF IInv, TypeOK, SameUse, Packages
<1>4. AccountsOK'
  BY <1>3, AccountsKept DEF IInv
<1> QED BY <1>1, <1>2, <1>4 DEF IInv

LEMMA RevokeStep == ASSUME IInv, NEW p \in Packages, Revoke(p) PROVE IInv'
<1> USE DEF Revoke
<1>1. TypeOK' /\ AllSent'
  BY DEF IInv, TypeOK, AllSent, people
<1>2. PacksOK'
  BY DEF IInv, TypeOK, PacksOK, PackOK
<1>3. SameUse
  BY DEF IInv, TypeOK, SameUse, Packages
<1>4. AccountsOK'
  BY <1>3, AccountsKept DEF IInv
<1> QED BY <1>1, <1>2, <1>4 DEF IInv

LEMMA StutterStep == ASSUME IInv, UNCHANGED vars PROVE IInv'
<1>1. TypeOK' /\ AllSent' /\ PacksOK' /\ SameUse /\ UNCHANGED people
  BY DEF vars, IInv, TypeOK, AllSent, PacksOK, PackOK, SameUse, people, rows
<1>2. AccountsOK'
  BY <1>1, AccountsKept DEF IInv
<1> QED BY <1>1, <1>2 DEF IInv

LEMMA NextIInv == IInv /\ [Next]_vars => IInv'
<1> SUFFICES ASSUME IInv, [Next]_vars PROVE IInv'
  OBVIOUS
<1>1. ASSUME NEW u \in People, SignUp(u) \/ Visit(u) \/ Adjust(u) PROVE IInv'
  BY <1>1, SignUpStep, VisitStep, AdjustStep
<1>2. ASSUME NEW r \in Requests, NEW p \in Packages, NEW to \in People, AskGrant(r, p, to) PROVE IInv'
  BY <1>2, AskStep DEF AskGrant, Ops, Sent
<1>3. ASSUME NEW r \in Requests, NEW p \in Packages, NEW u \in People, AskRedeem(r, u, p) PROVE IInv'
  BY <1>3, AskStep DEF AskRedeem, Ops, Sent
<1>4. ASSUME NEW r \in Requests, NEW p \in Packages, NEW u \in People, AskOpen(r, u, p) PROVE IInv'
  BY <1>4, AskStep DEF AskOpen, Ops, Sent
<1>5. ASSUME NEW r \in Requests, NEW p \in Packages, NEW u \in People, NEW to \in People,
             AskGift(r, u, p, to) PROVE IInv'
  BY <1>5, AskStep DEF AskGift, Ops, Sent
<1>6. ASSUME NEW r \in Requests, Answer(r) PROVE IInv'
  BY <1>6, GrantStep, GiftStep, RedeemStep, OpenStep, RefuseStep DEF Answer
<1>7. ASSUME NEW u \in People, NEW p \in Packages, CancelGift(u, p) PROVE IInv'
  BY <1>7, CancelStep
<1>8. ASSUME NEW p \in Packages, Revoke(p) PROVE IInv'
  BY <1>8, RevokeStep
<1>9. CASE UNCHANGED vars
  BY <1>9, StutterStep
<1> QED BY <1>1, <1>2, <1>3, <1>4, <1>5, <1>6, <1>7, <1>8, <1>9 DEF Next

THEOREM Invariance == Spec => []IInv
  BY InitIInv, NextIInv, PTL DEF Spec

\* Every variable keeps its type, the balance of everybody stays at or above zero.
THEOREM Typing == Spec => []TypeOK
<1>1. IInv => TypeOK
  BY DEF IInv
<1> QED BY <1>1, Invariance, PTL

\* However requests interleave, a TEAM package opens exactly one space when it is
\* used, and a package in somebody's hands has one holder (mark_redeemed, gift).
THEOREM UsedOnce == Spec => [](OneSpacePerPack /\ OneHolder)
<1>1. IInv => OneSpacePerPack /\ OneHolder
  BY DEF IInv, PacksOK, PackOK, OneSpacePerPack, OneHolder
<1> QED BY <1>1, Invariance, PTL

\* Every balance is the welcome credits, the other ledger entries and the worth of
\* the packs its owner used, whatever those are worth (redeem_credits).
THEOREM CreditsAccounted == Spec => []BalanceAccounted
<1>1. IInv => BalanceAccounted
  BY DEF IInv, AccountsOK, AccountOK, BalanceAccounted
<1> QED BY <1>1, Invariance, PTL

\* A used package stays used, and its owner's (mark_redeemed, revoke, cancel_gift).
THEOREM UseIsFinal == Spec => UsedForGood
<1> DEFINE Kept == \A p \in Packages : status[p] = "redeemed" =>
                     status'[p] = "redeemed" /\ owner'[p] = owner[p]
<1>1. ASSUME IInv, [Next]_vars PROVE Kept
  <2> SUFFICES ASSUME NEW p \in Packages, status[p] = "redeemed"
               PROVE  status'[p] = "redeemed" /\ owner'[p] = owner[p]
    OBVIOUS
  <2>2. ASSUME NEW u \in People, SignUp(u) \/ Visit(u) PROVE status'[p] = "redeemed" /\ owner'[p] = owner[p]
    BY <2>2 DEF SignUp, Visit, ClaimPending, Waits
  <2>3. ASSUME NEW u \in People, Adjust(u) PROVE UNCHANGED <<status, owner>>
    BY <2>3 DEF Adjust, rows
  <2>4. ASSUME NEW r \in Requests, NEW o \in Packages, NEW u \in People,
               AskGrant(r, o, u) \/ AskRedeem(r, u, o) \/ AskOpen(r, u, o)
                 \/ \E to \in People : AskGift(r, u, o, to)
        PROVE  UNCHANGED <<status, owner>>
    BY <2>4 DEF AskGrant, AskRedeem, AskOpen, AskGift, Ask, rows
  <2>5. ASSUME NEW r \in Requests, Answer(r) PROVE status'[p] = "redeemed" /\ owner'[p] = owner[p]
    <3>1. CASE Grant(r) \/ Gift(r)
      BY <1>1, <3>1 DEF Grant, Gift, HandTo, OwnedHeld, IInv, TypeOK
    <3>2. CASE Redeem(r) \/ OpenSpace(r)
      BY <1>1, <3>2 DEF Redeem, RedeemIf, OpenSpace, OwnedHeld, IInv, TypeOK
    <3>3. CASE Refuse(r)
      BY <3>3 DEF Refuse, rows
    <3> QED BY <2>5, <3>1, <3>2, <3>3 DEF Answer
  <2>6. ASSUME NEW u \in People, NEW o \in Packages, CancelGift(u, o)
        PROVE  status'[p] = "redeemed" /\ owner'[p] = owner[p]
    BY <1>1, <2>6 DEF CancelGift, TakeBack, IInv, TypeOK
  <2>7. ASSUME NEW o \in Packages, Revoke(o)
        PROVE  status'[p] = "redeemed" /\ owner'[p] = owner[p]
    BY <1>1, <2>7 DEF Revoke, IInv, TypeOK
  <2>8. CASE UNCHANGED vars
    BY <2>8 DEF vars, rows
  <2> QED BY <1>1, <2>2, <2>3, <2>4, <2>5, <2>6, <2>7, <2>8 DEF Next
<1>2. IInv /\ [Next]_vars => [Kept]_vars
  BY <1>1
<1> QED BY <1>2, Invariance, PTL DEF Spec, UsedForGood

\* A package leaves the hands of an account only by a gift of that account: the
\* taking back of an unclaimed gift never takes a claimed one, and no grant hands
\* over what somebody has (gift, cancel_gift, grant).
THEOREM HandsRespected == Spec => OnlyOwnHands
<1> DEFINE Given(p) == \E r \in Requests :
                         req[r].op = "gift" /\ req[r].by = owner[p] /\ req'[r] = None
           Kept == \A p \in Packages : owner[p] # Nobody /\ owner'[p] # owner[p] => Given(p)
<1>1. ASSUME IInv, [Next]_vars PROVE Kept
  <2> SUFFICES ASSUME NEW p \in Packages, owner[p] # Nobody, owner'[p] # owner[p]
               PROVE  Given(p)
    OBVIOUS
  <2>1. ASSUME NEW u \in People, SignUp(u) \/ Visit(u) PROVE FALSE
    BY <2>1 DEF SignUp, Visit, ClaimPending, Waits
  <2>2. ASSUME NEW u \in People, Adjust(u) PROVE FALSE
    BY <2>2 DEF Adjust, rows
  <2>3. ASSUME NEW r \in Requests, NEW o \in Packages, NEW u \in People,
               AskGrant(r, o, u) \/ AskRedeem(r, u, o) \/ AskOpen(r, u, o)
                 \/ \E to \in People : AskGift(r, u, o, to)
        PROVE  FALSE
    BY <2>3 DEF AskGrant, AskRedeem, AskOpen, AskGift, Ask, rows
  <2>4. ASSUME NEW r \in Requests, Answer(r) PROVE Given(p)
    <3>1. CASE Grant(r)
      <4>1. owner[req[r].pkg] = Nobody
        BY <1>1, <3>1 DEF Grant, IInv, TypeOK, PacksOK, PackOK, Open, None
      <4>2. req[r].pkg # p => owner'[p] = owner[p]
        BY <1>1, <3>1 DEF Grant, HandTo, IInv, TypeOK
      <4> QED BY <4>1, <4>2
    <3>2. CASE Gift(r)
      <4>1. req[r].pkg # p => owner'[p] = owner[p]
        BY <1>1, <3>2 DEF Gift, HandTo, IInv, TypeOK
      <4>2. req[r].op = "gift" /\ owner[req[r].pkg] = req[r].by /\ req'[r] = None
        BY <1>1, <3>2 DEF Gift, OwnedHeld, Close, IInv, TypeOK
      <4> QED BY <4>1, <4>2
    <3>3. CASE Redeem(r) \/ OpenSpace(r)
      BY <3>3 DEF Redeem, RedeemIf, OpenSpace
    <3>4. CASE Refuse(r)
      BY <3>4 DEF Refuse, rows
    <3> QED BY <2>4, <3>1, <3>2, <3>3, <3>4 DEF Answer
  <2>5. ASSUME NEW u \in People, NEW o \in Packages, CancelGift(u, o) PROVE FALSE
    BY <1>1, <2>5 DEF CancelGift, TakeBack, IInv, TypeOK
  <2>6. ASSUME NEW o \in Packages, Revoke(o) PROVE FALSE
    BY <2>6 DEF Revoke
  <2>7. CASE UNCHANGED vars
    BY <2>7 DEF vars, rows
  <2> QED BY <1>1, <2>1, <2>2, <2>3, <2>4, <2>5, <2>6, <2>7 DEF Next
<1>2. IInv /\ [Next]_vars => [Kept]_vars
  BY <1>1
<1> QED BY <1>2, Invariance, PTL DEF Spec, OnlyOwnHands
=============================================================================
