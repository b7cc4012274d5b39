----------------------------- MODULE PackageStore -----------------------------
(***************************************************************************)
(* The packages people hold until they use them (store_service.py), the    *)
(* sign-up that claims what waits for an email (UserRepository.create) and *)
(* the team space a TEAM package opens (team_service.create_space).        *)
(*                                                                         *)
(* A request that reads before it writes takes two steps, and requests     *)
(* interleave between them as READ COMMITTED transactions do: Ask reads,   *)
(* and the step that answers is one UPDATE with its WHERE, committed with  *)
(* what goes along with it.  A person stands for an email address and for  *)
(* the account of that address.                                            *)
(***************************************************************************)
EXTENDS Integers, FiniteSets

CONSTANTS People,
          CreditPacks,   \* packages that become balance
          TeamPacks,     \* packages that become a team space
          Requests,      \* requests open at the same time
          Nobody,        \* no person: NULL
          SignupCredits, \* SIGNUP_CREDITS
          PackCredits,   \* what a credit pack holds
          Changes,       \* what work and admins change a balance by
          MaxAdjusts     \* bound: how often they do

Packages == CreditPacks \cup TeamPacks

ASSUME PackageAssumption == /\ CreditPacks \cap TeamPacks = {} /\ IsFiniteSet(CreditPacks)
                            /\ Nobody \notin People
ASSUME CreditAssumption == /\ SignupCredits \in Nat /\ PackCredits \in Nat \ {0}
                           /\ Changes \subseteq Int
ASSUME BoundAssumption == MaxAdjusts \in Nat

VARIABLES accounts,  \* people who signed up
          balance,   \* User.credit_balance
          adjusted,  \* sum of the other ledger entries of a person
          adjusts,   \* how many there were
          status,    \* UserPackage.status, "unissued" without a row
          owner,     \* owner_user_id
          email,     \* owner_email
          giver,     \* gifted_from_user_id
          spaces,    \* how many team spaces were opened with the package
          req        \* open requests

people == <<accounts, balance, adjusted, adjusts>>
rows == <<status, owner, email, giver>>
vars == <<people, rows, spaces, req>>

Ops == {"grant", "gift", "redeem", "open"}
None == [op |-> "none"]
Open == [op : Ops, by : People \cup {Nobody}, pkg : Packages,
         to : People \cup {Nobody}, known : BOOLEAN]

Init ==
  /\ accounts = {}
  /\ balance = [u \in People |-> 0]
  /\ adjusted = [u \in People |-> 0] /\ adjusts = 0
  /\ status = [p \in Packages |-> "unissued"]
  /\ owner = [p \in Packages |-> Nobody]
  /\ email = [p \in Packages |-> Nobody]
  /\ giver = [p \in Packages |-> Nobody]
  /\ spaces = [p \in Packages |-> 0]
  /\ req = [r \in Requests |-> None]

\* An account and its credits; add_credits never goes below zero.
AddCredits(u, delta) ==
  /\ balance[u] + delta >= 0
  /\ balance' = [balance EXCEPT ![u] = @ + delta]

Waits(p) == status[p] = "held" /\ owner[p] = Nobody

\* claim_pending: one UPDATE over what waits for the email.
ClaimPending(u) ==
  LET claimed == {p \in Packages : Waits(p) /\ email[p] = u}
  IN  /\ owner' = [p \in Packages |-> IF p \in claimed THEN u ELSE owner[p]]
      /\ email' = [p \in Packages |-> IF p \in claimed THEN Nobody ELSE email[p]]
      /\ UNCHANGED <<status, giver>>

\* create: the row, the welcome credits and what waits, in one transaction.
SignUp(u) ==
  /\ u \notin accounts /\ accounts' = accounts \cup {u}
  /\ AddCredits(u, SignupCredits)
  /\ ClaimPending(u)
  /\ UNCHANGED <<adjusted, adjusts, spaces, req>>

\* Mutant: the store page shows what is held and claims nothing.
VisitOnly(u) == u \in accounts /\ UNCHANGED vars

\* store: opening the store claims again.
Visit(u) ==
  /\ u \in accounts /\ ClaimPending(u)
  /\ UNCHANGED <<people, spaces, req>>

\* Preparations, refunds and admin_adjust.
Adjust(u) ==
  /\ u \in accounts /\ adjusts < MaxAdjusts /\ adjusts' = adjusts + 1
  /\ \E delta \in Changes : /\ AddCredits(u, delta)
                            /\ adjusted' = [adjusted EXCEPT ![u] = @ + delta]
  /\ UNCHANGED <<accounts, rows, spaces, req>>

(***************************************************************************)
(* What a request reads.                                                   *)
(***************************************************************************)

Ask(r, op, by, p, to) ==
  /\ req[r] = None
  /\ req' = [req EXCEPT ![r] = [op |-> op, by |-> by, pkg |-> p, to |-> to,
                                known |-> to \in accounts]]
  /\ UNCHANGED <<people, rows, spaces>>

\* grant, grant_many: whether the address has an account.
AskGrant(r, p, to) == status[p] = "unissued" /\ Ask(r, "grant", Nobody, p, to)

\* _owned_held
OwnedHeld(u, p) == owner[p] = u /\ status[p] = "held"

AskGift(r, u, p, to) == u # to /\ OwnedHeld(u, p) /\ Ask(r, "gift", u, p, to)

AskRedeem(r, u, p) == p \in CreditPacks /\ OwnedHeld(u, p) /\ Ask(r, "redeem", u, p, Nobody)

AskOpen(r, u, p) == p \in TeamPacks /\ OwnedHeld(u, p) /\ Ask(r, "open", u, p, Nobody)

(***************************************************************************)
(* What it writes.                                                         *)
(***************************************************************************)

Close(r) == req' = [req EXCEPT ![r] = None]

\* The package goes to the account that was found, or waits for the address.
HandTo(p, q) ==
  /\ owner' = [owner EXCEPT ![p] = IF q.known THEN q.to ELSE Nobody]
  /\ email' = [email EXCEPT ![p] = IF q.known THEN Nobody ELSE q.to]

\* Every grant makes a new row: a row another grant made is not this one.
Grant(r) ==
  LET q == req[r]
  IN  /\ q.op = "grant" /\ status[q.pkg] = "unissued" /\ Close(r)
      /\ status' = [status EXCEPT ![q.pkg] = "held"]
      /\ HandTo(q.pkg, q)
      /\ UNCHANGED <<people, giver, spaces>>

\* gift
Gift(r) ==
  LET q == req[r]
  IN  /\ q.op = "gift" /\ OwnedHeld(q.by, q.pkg) /\ Close(r) /\ HandTo(q.pkg, q)
      /\ giver' = [giver EXCEPT ![q.pkg] = q.by]
      /\ UNCHANGED <<people, status, spaces>>

RedeemIf(r, mayRedeem) ==
  LET q == req[r]
  IN  /\ q.op = "redeem" /\ mayRedeem /\ Close(r)
      /\ status' = [status EXCEPT ![q.pkg] = "redeemed"]
      /\ AddCredits(q.by, PackCredits)
      /\ UNCHANGED <<accounts, adjusted, adjusts, owner, email, giver, spaces>>
\* Mutant: a double submit that read the package as held.
RedeemRead(r) == RedeemIf(r, TRUE)

\* redeem_credits: mark_redeemed and add_credits.
Redeem(r) == RedeemIf(r, OwnedHeld(req[r].by, req[r].pkg))

\* create_space: mark_redeemed and the TeamSpace row.
OpenSpace(r) ==
  LET q == req[r]
  IN  /\ q.op = "open" /\ OwnedHeld(q.by, q.pkg) /\ Close(r)
      /\ status' = [status EXCEPT ![q.pkg] = "redeemed"]
      /\ spaces' = [spaces EXCEPT ![q.pkg] = @ + 1]
      /\ UNCHANGED <<people, owner, email, giver>>

\* "This package was already used."  A grant that lost its row is no request.
Refuse(r) ==
  LET q == req[r]
  IN  /\ q # None
      /\ IF q.op = "grant" THEN status[q.pkg] # "unissued" ELSE ~OwnedHeld(q.by, q.pkg)
      /\ Close(r)
      /\ UNCHANGED <<people, rows, spaces>>

TakeBack(u, p, mayTake) ==
  /\ giver[p] = u /\ status[p] = "held" /\ mayTake
  /\ owner' = [owner EXCEPT ![p] = u]
  /\ email' = [email EXCEPT ![p] = Nobody]
  /\ UNCHANGED <<people, status, giver, spaces, req>>
\* Mutant: a claimed gift is taken back too.
TakeBackClaimed(u, p) == TakeBack(u, p, TRUE)

\* cancel_gift: nobody has claimed it yet.
CancelGift(u, p) == TakeBack(u, p, owner[p] = Nobody)

\* revoke
Revoke(p) ==
  /\ status[p] = "held" /\ status' = [status EXCEPT ![p] = "revoked"]
  /\ UNCHANGED <<people, owner, email, giver, spaces, req>>

Answer(r) == Grant(r) \/ Gift(r) \/ Redeem(r) \/ OpenSpace(r) \/ Refuse(r)

Next ==
  \/ \E u \in People : SignUp(u) \/ Visit(u) \/ Adjust(u)
  \/ \E r \in Requests, p \in Packages :
       \/ \E to \in People : AskGrant(r, p, to)
       \/ \E u \in People : \/ AskRedeem(r, u, p) \/ AskOpen(r, u, p)
                            \/ \E to \in People : AskGift(r, u, p, to)
  \/ \E r \in Requests : Answer(r)
  \/ \E u \in People, p \in Packages : CancelGift(u, p)
  \/ \E p \in Packages : Revoke(p)

Spec == Init /\ [][Next]_vars

\* People with an account open their store now and then.
FairSpec == Spec /\ \A u \in People : WF_vars(Visit(u))
-----------------------------------------------------------------------------
TypeOK ==
  /\ accounts \subseteq People
  /\ balance \in [People -> Nat] /\ adjusted \in [People -> Int] /\ adjusts \in Nat
  /\ status \in [Packages -> {"unissued", "held", "redeemed", "revoked"}]
  /\ owner \in [Packages -> People \cup {Nobody}]
  /\ email \in [Packages -> People \cup {Nobody}]
  /\ giver \in [Packages -> People \cup {Nobody}]
  /\ spaces \in [Packages -> Nat]
  /\ req \in [Requests -> Open \cup {None}]

Used(u) == {p \in CreditPacks : status[p] = "redeemed" /\ owner[p] = u}

\* The balance of a person is the welcome credits, the other ledger entries and
\* the packs that person used: no double submit, gift, taking back or revoking
\* that runs at the same time makes or destroys credits (redeem_credits).
BalanceAccounted ==
  \A u \in People :
    balance[u] = adjusted[u] + (IF u \in accounts THEN SignupCredits ELSE 0)
                             + PackCredits * Cardinality(Used(u))

\* "A TEAM package becomes one team space": every used TEAM package has opened
\* exactly one, and no other package any.
OneSpacePerPack ==
  \A p \in Packages : spaces[p] = IF p \in TeamPacks /\ status[p] = "redeemed" THEN 1 ELSE 0

\* A package in somebody's hands has one holder: an account, or the address it
\* waits for, never both and never neither.
OneHolder == \A p \in Packages : status[p] = "held" => (owner[p] = Nobody <=> email[p] # Nobody)

\* "Used packages already became credits or a team space": neither the status
\* nor the owner of a used package changes again.
UsedForGood == [][\A p \in Packages : status[p] = "redeemed" =>
                    status'[p] = "redeemed" /\ owner'[p] = owner[p]]_vars

\* A package leaves an account's hands only by a request of that account: taking
\* back an unclaimed gift never takes a claimed one (cancel_gift).
OnlyOwnHands ==
  [][\A p \in Packages : owner[p] # Nobody /\ owner'[p] # owner[p] =>
       \E r \in Requests : req[r].op = "gift" /\ req[r].by = owner[p] /\ req'[r] = None]_vars

\* A package that waits for the address of an account is in the account's hands,
\* used or revoked at last, even when the gift was looked up before the sign-up
\* and written after it.
WaitingIsClaimed ==
  \A p \in Packages, u \in People :
    (Waits(p) /\ email[p] = u /\ u \in accounts) ~> ~(Waits(p) /\ email[p] = u)
=============================================================================
