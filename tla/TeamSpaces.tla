------------------------------ MODULE TeamSpaces ------------------------------
(***************************************************************************)
(* Team spaces (team_service.py): invitations, membership, and the default *)
(* sharing a lead sets or pins for a member, which the member otherwise    *)
(* chooses (update_user_settings).  PackageStore has the package that pays *)
(* for a space.                                                            *)
(*                                                                         *)
(* A handler that reads rows, decides and flushes later takes two steps;   *)
(* between them other requests commit.  The flush writes a column only if  *)
(* its value differs from the one that was read, and the request fails as  *)
(* a whole when a row it updates or refers to is gone or already there.    *)
(* Handlers that are one statement on rows of the caller take one step.    *)
(* An invitation goes to one address; a person stands for the address and  *)
(* the account.                                                            *)
(***************************************************************************)
EXTENDS Integers, FiniteSets

CONSTANTS Accounts, Teams, Invites, Requests, NoAccount,
          ShareDefaults, \* SHARE_DEFAULTS
          NoScope,       \* NULL, or a field that is left out
          MaxPending     \* MAX_PENDING_INVITES

ASSUME TeamAssumption ==
  /\ MaxPending \in Nat \ {0} /\ NoAccount \notin Accounts /\ "none" \notin Teams
  /\ "private" \in ShareDefaults /\ NoScope \notin ShareDefaults

\* default_share_scope and default_share_locked
Policies == [scope : ShareDefaults \cup {NoScope}, lock : BOOLEAN]

VARIABLES lead,     \* owner of an open space, Nobody before and after
          closed,   \* spaces that were deleted
          default,  \* what people get when they join
          teamRows, \* TeamMember rows <<space, person>>
          teamPins, \* those with share_locked
          share,    \* User.job_share_default
          invites,  \* Invites -> where it leads, whom, and TeamInvite.status
          req       \* open requests

spaceVars == <<lead, closed, default>>
staffVars == <<teamRows, teamPins>>
allVars == <<spaceVars, staffVars, share, invites, req>>

Idle == [op |-> "none"]
Unsent == [space |-> "none", to |-> NoAccount, status |-> "unsent"]

TeamsInit ==
  /\ lead = [s \in Teams |-> NoAccount] /\ closed = {}
  /\ default = [s \in Teams |-> [scope |-> NoScope, lock |-> FALSE]]
  /\ teamRows = {} /\ teamPins = {}
  /\ share = [u \in Accounts |-> "private"]
  /\ invites = [i \in Invites |-> Unsent]
  /\ req = [r \in Requests |-> Idle]

Isopen(s) == lead[s] # NoAccount
Pending(s) == {i \in Invites : invites[i].space = s /\ invites[i].status = "pending"}
IsPinned(u) == \E s \in Teams : <<s, u>> \in teamPins

Begin(r, q) == /\ req[r] = Idle /\ req' = [req EXCEPT ![r] = q]
             /\ UNCHANGED <<spaceVars, staffVars, share, invites>>
Close(r) == req' = [req EXCEPT ![r] = Idle]
Fail(r) == Close(r) /\ UNCHANGED <<spaceVars, staffVars, share, invites>>

\* A column of a row is written when it differs from what was read.
WriteShare(q) ==
  share' = IF q.share = q.read THEN share ELSE [share EXCEPT ![q.who] = q.share]
Answered(i, status) == invites' = [invites EXCEPT ![i].status = status]

(***************************************************************************)
(* The lead.                                                               *)
(***************************************************************************)

\* create_space
CreateSpace(u, s) ==
  /\ ~Isopen(s) /\ s \notin closed /\ lead' = [lead EXCEPT ![s] = u]
  /\ UNCHANGED <<closed, default, staffVars, share, invites, req>>

\* update_space: a lock needs a scope; fields that are left out stay as read.
AskPolicy(r, s, d) ==
  /\ Isopen(s) /\ (d.lock => d.scope # NoScope)
  /\ Begin(r, [op |-> "policy", space |-> s, read |-> default[s], new |-> d])

Policy(r) ==
  LET q == req[r]
  IN  /\ q.op = "policy"
      /\ IF Isopen(q.space)
         THEN /\ default' = [default EXCEPT ![q.space] =
                              [f \in {"scope", "lock"} |-> IF q.new[f] = q.read[f] THEN @[f] ELSE q.new[f]]]
              /\ Close(r) /\ UNCHANGED <<lead, closed, staffVars, share, invites>>
         ELSE Fail(r)

\* delete_space: the rows go with it.
DeleteSpace(s) ==
  /\ Isopen(s) /\ lead' = [lead EXCEPT ![s] = NoAccount] /\ closed' = closed \cup {s}
  /\ teamRows' = {m \in teamRows : m[1] # s} /\ teamPins' = {m \in teamPins : m[1] # s}
  /\ invites' = [i \in Invites |-> IF invites[i].space = s
                                   THEN [invites[i] EXCEPT !.status = "gone"] ELSE invites[i]]
  /\ UNCHANGED <<default, share, req>>

AskInviteIf(r, s, u, mayInvite) ==
  /\ Isopen(s) /\ lead[s] # u /\ mayInvite
  /\ Begin(r, [op |-> "invite", space |-> s, who |-> u])
\* Mutant: open invitations are not skipped.
AskInviteTwice(r, s, u) ==
  AskInviteIf(r, s, u, <<s, u>> \notin teamRows /\ Cardinality(Pending(s)) < MaxPending)

\* invite: members and open invitations are skipped, and counted.
AskInvite(r, s, u) ==
  AskInviteIf(r, s, u, /\ <<s, u>> \notin teamRows
                       /\ \A i \in Pending(s) : invites[i].to # u
                       /\ Cardinality(Pending(s)) < MaxPending)

Invite(r) ==
  LET q == req[r]
  IN  /\ q.op = "invite"
      /\ IF Isopen(q.space)
         THEN /\ \E i \in Invites :
                   /\ invites[i] = Unsent
                   /\ invites' = [invites EXCEPT ![i] =
                                    [space |-> q.space, to |-> q.who, status |-> "pending"]]
              /\ Close(r) /\ UNCHANGED <<spaceVars, staffVars, share>>
         ELSE Fail(r)

\* revoke_invite
AskRevoke(r, i) ==
  /\ invites[i].status = "pending"
  /\ Begin(r, [op |-> "answer", invite |-> i, status |-> "revoked"])

\* remove_member by the lead and leave by the member: the same DELETE.
RemoveMember(s, u) ==
  /\ <<s, u>> \in teamRows
  /\ teamRows' = teamRows \ {<<s, u>>} /\ teamPins' = teamPins \ {<<s, u>>}
  /\ UNCHANGED <<spaceVars, share, invites, req>>

\* update_member_sharing: either field may be left out.
AskSharing(r, s, u, scope, lock) ==
  /\ <<s, u>> \in teamRows
  /\ Begin(r, [op |-> "sharing", space |-> s, who |-> u, read |-> share[u],
             share |-> IF scope = NoScope THEN share[u] ELSE scope,
             wasLocked |-> <<s, u>> \in teamPins, lock |-> lock])

Sharing(r) ==
  LET q == req[r] m == <<q.space, q.who>>
  IN  /\ q.op = "sharing"
      /\ IF q.lock # q.wasLocked /\ m \notin teamRows
         THEN Fail(r)
         ELSE /\ WriteShare(q)
              /\ teamPins' = IF q.lock = q.wasLocked THEN teamPins
                           ELSE IF q.lock THEN teamPins \cup {m} ELSE teamPins \ {m}
              /\ Close(r) /\ UNCHANGED <<spaceVars, teamRows, invites>>

(***************************************************************************)
(* The member.                                                             *)
(***************************************************************************)

\* Mutant: another team may have pinned the setting.
JoinSharePinned(u, s) == IF default[s].scope = NoScope THEN share[u] ELSE default[s].scope

\* A team that already pinned the setting keeps it.
JoinShare(u, s) ==
  IF default[s].scope = NoScope \/ IsPinned(u) THEN share[u] ELSE default[s].scope

\* respond_invite, accepting.
AskAcceptOf(r, u, i, mayAccept) ==
  LET s == invites[i].space
  IN  /\ mayAccept /\ invites[i] # Unsent /\ Isopen(s) /\ lead[s] # u
      /\ Begin(r, [op |-> "accept", invite |-> i, space |-> s, who |-> u,
                 member |-> <<s, u>> \in teamRows, read |-> share[u],
                 share |-> JoinShare(u, s),
                 lock |-> default[s].scope # NoScope /\ default[s].lock])
\* Mutants: the address is not compared; an invitation can be used again.
AskAcceptAnyone(r, u, i) == AskAcceptOf(r, u, i, invites[i].status = "pending")
AskAcceptAgain(r, u, i) ==
  AskAcceptOf(r, u, i, invites[i].to = u /\ invites[i].status \in {"pending", "accepted"})

AskAccept(r, u, i) ==
  AskAcceptOf(r, u, i, invites[i].to = u /\ invites[i].status = "pending")

JoinIf(r, mayJoin) ==
  LET q == req[r] m == <<q.space, q.who>>
  IN  /\ q.op = "accept"
      /\ IF q.member
         THEN IF Isopen(q.space)
              THEN /\ Answered(q.invite, "accepted") /\ Close(r)
                   /\ UNCHANGED <<spaceVars, staffVars, share>>
              ELSE Fail(r)
         ELSE IF mayJoin
              THEN /\ teamRows' = teamRows \cup {m}
                   /\ teamPins' = IF q.lock THEN teamPins \cup {m} ELSE teamPins
                   /\ WriteShare(q) /\ Answered(q.invite, "accepted") /\ Close(r)
                   /\ UNCHANGED spaceVars
              ELSE Fail(r)
\* Mutant: the member row does not refer to the space.
AcceptUnreferenced(r) == JoinIf(r, <<req[r].space, req[r].who>> \notin teamRows)

\* The space is referred to, and a person is in it once.
Accept(r) == JoinIf(r, Isopen(req[r].space) /\ <<req[r].space, req[r].who>> \notin teamRows)

AskDecline(r, u, i) ==
  /\ invites[i].to = u /\ invites[i].status = "pending"
  /\ Begin(r, [op |-> "answer", invite |-> i, status |-> "declined"])

\* Declined or revoked, whatever the invitation has become since.
Answer(r) ==
  LET q == req[r]
  IN  /\ q.op = "answer"
      /\ IF invites[q.invite].status = "gone"
         THEN Fail(r)
         ELSE /\ Answered(q.invite, q.status) /\ Close(r)
              /\ UNCHANGED <<spaceVars, staffVars, share>>

AskChooseIf(r, u, scope, mayChoose) ==
  /\ mayChoose
  /\ Begin(r, [op |-> "choose", who |-> u, read |-> share[u], share |-> scope])
\* Mutant: the profile does not ask whether a lead pinned the setting.
AskChooseFreely(r, u, scope) == AskChooseIf(r, u, scope, TRUE)

\* update_profile: "Your team lead manages your default sharing."
AskChoose(r, u, scope) == AskChooseIf(r, u, scope, IsPinned(u) => scope = share[u])

Choose(r) ==
  /\ req[r].op = "choose" /\ WriteShare(req[r]) /\ Close(r)
  /\ UNCHANGED <<spaceVars, staffVars, invites>>

TeamsNext ==
  \/ \E s \in Teams :
       \/ \E u \in Accounts : CreateSpace(u, s) \/ RemoveMember(s, u)
       \/ DeleteSpace(s)
  \/ \E r \in Requests, u \in Accounts :
       \/ \E s \in Teams : AskInvite(r, s, u)
       \/ \E s \in Teams, scope \in ShareDefaults \cup {NoScope}, lock \in BOOLEAN :
            AskSharing(r, s, u, scope, lock)
       \/ \E i \in Invites : AskAccept(r, u, i) \/ AskDecline(r, u, i)
       \/ \E scope \in ShareDefaults : AskChoose(r, u, scope)
  \/ \E r \in Requests : \/ \E s \in Teams, d \in Policies : AskPolicy(r, s, d)
                         \/ \E i \in Invites : AskRevoke(r, i)
                         \/ Policy(r) \/ Invite(r) \/ Sharing(r) \/ Accept(r) \/ Answer(r) \/ Choose(r)

TeamsSpec == TeamsInit /\ [][TeamsNext]_allVars
-----------------------------------------------------------------------------
Request ==
  [op : {"invite"}, space : Teams, who : Accounts]
  \cup [op : {"policy"}, space : Teams, read : Policies, new : Policies]
  \cup [op : {"answer"}, invite : Invites, status : {"revoked", "declined"}]
  \cup [op : {"choose"}, who : Accounts, read : ShareDefaults, share : ShareDefaults]
  \cup [op : {"sharing"}, space : Teams, who : Accounts, read : ShareDefaults, share : ShareDefaults,
        wasLocked : BOOLEAN, lock : BOOLEAN]
  \cup [op : {"accept"}, invite : Invites, space : Teams, who : Accounts,
        member : BOOLEAN, read : ShareDefaults, share : ShareDefaults, lock : BOOLEAN]

TeamsTypeOK ==
  /\ lead \in [Teams -> Accounts \cup {NoAccount}] /\ closed \subseteq Teams
  /\ default \in [Teams -> Policies]
  /\ teamRows \subseteq Teams \X Accounts /\ teamPins \subseteq Teams \X Accounts
  /\ share \in [Accounts -> ShareDefaults]
  /\ invites \in [Invites ->
       {Unsent} \cup [space : Teams, to : Accounts,
                     status : {"pending", "accepted", "declined", "revoked", "gone"}]]
  /\ req \in [Requests -> Request \cup {Idle}]

\* Closing a space releases its people, also those who are accepting or being
\* pinned at that moment: members and pins are those of open spaces, "the lead
\* is not a member row", and nobody is pinned by a team they are not on.
StaffOK == /\ teamPins \subseteq teamRows
           /\ \A m \in teamRows : Isopen(m[1]) /\ lead[m[1]] # m[2]

\* "They join by accepting", one request at a time: the invitation that lets
\* somebody into a space is to that space, for their own address, and still open.
JoinsByOpenInvite ==
  [][\A m \in teamRows' \ teamRows :
       \E i \in Invites : invites[i].space = m[1] /\ invites[i].to = m[2]
                         /\ invites[i].status = "pending" /\ invites'[i].status = "accepted"]_allVars

\* "Existing members and pending invites are skipped, not duplicated" (invite).
NoDoubleInvite ==
  \A s \in Teams : \A i, j \in Pending(s) : invites[i].to = invites[j].to => i = j

\* A pinned setting is changed by leads only, one request at a time: neither the
\* member's profile nor joining one more team touches it (update_user_settings,
\* respond_invite).
OnlyLeadsMovePins ==
  [][\A u \in Accounts : IsPinned(u) /\ share'[u] # share[u] =>
       \E r \in Requests : req[r].op = "sharing" /\ req[r].who = u /\ req'[r] = Idle]_allVars
=============================================================================
