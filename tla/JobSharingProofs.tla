--------------------------- MODULE JobSharingProofs ---------------------------
(***************************************************************************)
(* Proofs about JobSharing for any people, teams, shares and fan-outs, and *)
(* about TeamSpaces, where the teams come from, for any requests that      *)
(* interleave.                                                             *)
(*                                                                         *)
(* SightAgrees is a fact about every state in which a session that is used *)
(* has an author (BatchOK).  Who is asked for was read from what could see *)
(* the job, so what fan-outs and visits hold on to was reached (ReachOK).  *)
(* FanoutsMeet says nothing while a fan-out is under way; what it rests on *)
(* does: whoever wants the analysis is left out or has a fan-out coming,   *)
(* one that will read the grants again or has the person on its list       *)
(* (MeetOK), and those who have the job on the board without a grant came  *)
(* to it otherwise or were asked for (MissOK).                             *)
(*                                                                         *)
(* What a request of a team read may be stale when it writes.  Two things  *)
(* of it stay true: an invitation it answers was sent (Sent), and the      *)
(* space it joins was open and another's, and is so still or is closed for *)
(* good (Joining).  Where only one request is open at a time, the rest is  *)
(* still true as well, unless the space is gone (StillTrue).               *)
(***************************************************************************)
EXTENDS JobSharing, TeamSpaces, TLAPS

\* A session slot has an author once it was used, and public inventory has none.
BatchOK == /\ \A b \in Batches : batch[b].by = Nobody => batch[b] = NoBatch
           /\ owner = Nobody => Sessions = {}

\* Who may be asked for, now or by what a fan-out or a visit has read.
ReachOK == /\ Viewers \subseteq reached
           /\ \A p \in People : row[p] = "active" \/ analysis[p] # "none" => p \in reached
           /\ visit \subseteq reached
           /\ \A f \in Fans : fan[f].to \subseteq reached

\* Somebody with the job on the board was asked for, or came to it otherwise.
MissOK == /\ owner \in People => owner \in missed
          /\ \A p \in People : row[p] = "active" => p \in missed \/ analysis[p] # "none"
          /\ \A f \in Fans : fan[f].at # "ask" => fan[f].to = {}

\* A fan-out that will look again, or that has p on its list.
Coming(f, p) == fan[f].at \in {"text", "grants"} \/ p \in fan[f].to

MeetOK == owner # Nobody =>
            \A p \in People : Wants(p) => p \in missed \/ \E f \in Fans : Coming(f, p)

LockedType == locked \in [Spaces -> SUBSET People]

IInv == TypeOK /\ LockedType /\ BatchOK /\ ReachOK /\ MissOK /\ MeetOK

-----------------------------------------------------------------------------
\* Teammates are those who share a space.
LEMMA MatesShare ==
  \A p, q : q \in Mates(p) <=> q # p /\ \E s \in Spaces : {p, q} \subseteq Participants(s)
<1> SUFFICES ASSUME NEW p, NEW q
             PROVE  q \in Mates(p) <=> q # p /\ \E s \in Spaces : {p, q} \subseteq Participants(s)
  OBVIOUS
<1>1. q \in Mates(p) <=> q # p /\ \E s \in SpacesFor(p) : q \in Participants(s)
  BY DEF Mates
<1>2. \A s : s \in SpacesFor(p) <=> s \in Spaces /\ p \in Participants(s)
  BY DEF SpacesFor, Participants
<1> QED BY <1>1, <1>2

\* The check for many says what the clause says for one.
LEMMA ManySee ==
  ASSUME NEW C \in SUBSET People
  PROVE  CanSee(C) = Viewers \cap C
<1>1. CASE Sessions = {}
  BY <1>1, PeopleAssumption DEF CanSee, Viewers, Sees
<1>2. CASE \E b \in Sessions : batch[b].scope = "all"
  BY <1>2 DEF CanSee, Viewers, Sees, Grants
<1>3. CASE Sessions # {} /\ ~\E b \in Sessions : batch[b].scope = "all"
  <2> DEFINE Let(b) == CASE batch[b].scope = "team" -> Mates(batch[b].by)
                         [] batch[b].scope = "users" -> batch[b].to
                         [] OTHER -> {}
  <2>1. CanSee(C) = C \cap UNION ({{owner}} \cup {{batch[b].by} : b \in Sessions}
                                  \cup {Let(b) : b \in Sessions})
    BY <1>3 DEF CanSee
  <2>2. ASSUME NEW b \in Sessions, NEW p
        PROVE  Grants(b, p) <=> p = batch[b].by \/ p \in Let(b)
    BY <1>3, <2>2, MatesShare DEF Grants
  <2>3. ASSUME NEW p \in C PROVE Sees(p) <=> p = owner \/ \E b \in Sessions : Grants(b, p)
    BY <1>3 DEF Sees
  <2> HIDE DEF Let
  <2>4. ASSUME NEW p \in C PROVE p \in CanSee(C) <=> Sees(p)
    <3>1. p \in UNION ({{owner}} \cup {{batch[b].by} : b \in Sessions} \cup {Let(b) : b \in Sessions})
          <=> p = owner \/ \E b \in Sessions : p = batch[b].by \/ p \in Let(b)
      BY Zenon
    <3> QED BY <2>1, <2>2, <2>3, <3>1
  <2> QED BY <2>1, <2>4 DEF Viewers
<1> QED BY <1>1, <1>2, <1>3

LEMMA SightHolds == TypeOK /\ BatchOK => SightAgrees
<1> SUFFICES ASSUME TypeOK, BatchOK PROVE SightAgrees
  OBVIOUS
<1>1. \A C \in SUBSET People : CanSee(C) = Viewers \cap C
  BY ManySee
<1>2. owner = Nobody => Viewers = People
  BY DEF BatchOK, Viewers, Sees
<1>3. \A b \in Sessions : b \in Batches /\ batch[b].scope \in Scopes /\ batch[b].by \in People
                         /\ batch[b].to \subseteq People
  BY DEF TypeOK, Sessions
<1>4. owner \in People \cup {Nobody}
  BY PeopleAssumption DEF TypeOK
<1>5. \A p \in People : Sees(p) <=> \/ p = owner
                                    \/ Sessions = {} /\ owner = Nobody
                                    \/ \E b \in Sessions : Grants(b, p)
  BY DEF Sees
<1>6. Authors \subseteq Viewers /\ Named \subseteq Viewers
  BY <1>3, <1>5 DEF Authors, Named, Viewers, Grants
<1>7. ASSUME Widest = "all" PROVE Viewers = People
  <2>1. (Sessions = {} /\ owner = Nobody) \/ \E b \in Sessions : batch[b].scope = "all"
    BY <1>7 DEF Widest
  <2> QED BY <1>5, <2>1 DEF Viewers, Grants
<1>8. ASSUME Widest # "all"
      PROVE  /\ \A b \in Sessions : batch[b].scope # "all"
             /\ ~(Sessions = {} /\ owner = Nobody)
             /\ Widest # "team" => \A b \in Sessions : batch[b].scope # "team"
             /\ Widest \notin {"team", "users"} => \A b \in Sessions : batch[b].scope # "users"
  BY <1>8 DEF Widest
<1>9. ASSUME Widest # "all", NEW p \in Viewers
      PROVE  p \in Authors \cup Named \cup UNION {Mates(q) : q \in Authors}
  <2>1. p \in People /\ Sees(p)
    BY DEF Viewers
  <2>2. CASE p = owner
    BY <2>1, <2>2 DEF Authors
  <2>3. ASSUME NEW b \in Sessions, Grants(b, p)
        PROVE  p \in Authors \cup Named \cup UNION {Mates(q) : q \in Authors}
    <3>1. batch[b].by \in Authors
      BY <1>3 DEF Authors
    <3>2. CASE p = batch[b].by
      BY <3>1, <3>2
    <3>3. CASE batch[b].scope = "users" /\ p \in batch[b].to
      BY <3>3 DEF Named
    <3>4. CASE p # batch[b].by /\ \E s \in Spaces : {batch[b].by, p} \subseteq Participants(s)
      <4>1. p \in Mates(batch[b].by)
        BY <3>4, MatesShare
      <4> QED BY <3>1, <4>1
    <3> QED BY <1>8, <1>9, <2>3, <3>2, <3>3, <3>4 DEF Grants
  <2> QED BY <1>5, <1>8, <1>9, <2>1, <2>2, <2>3
<1>10. ASSUME Widest \notin {"all", "team"} PROVE Viewers \subseteq Authors \cup Named
  <2> SUFFICES ASSUME NEW p \in Viewers PROVE p \in Authors \cup Named
    OBVIOUS
  <2>1. p \in People /\ Sees(p)
    BY DEF Viewers
  <2>2. CASE p = owner
    BY <2>1, <2>2 DEF Authors
  <2>3. ASSUME NEW b \in Sessions, Grants(b, p) PROVE p \in Authors \cup Named
    BY <1>8, <1>10, <2>1, <2>3 DEF Grants, Authors, Named
  <2> QED BY <1>5, <1>8, <1>10, <2>1, <2>2, <2>3
<1>11. Widest \notin {"all", "team", "users"} => Named = {}
  BY <1>8 DEF Named
<1>12. Widest \in {"all", "team", "users", "private"}
  BY DEF Widest
<1>13. /\ Widest = "all" => Viewers = People
       /\ Widest = "team" => Viewers \subseteq Authors \cup Named \cup UNION {Mates(p) : p \in Authors}
       /\ Widest = "users" => Viewers = Authors \cup Named
       /\ Widest = "private" => Viewers = Authors
  BY <1>6, <1>7, <1>9, <1>10, <1>11
<1>14. (CASE Widest = "all" -> Viewers = People
         [] Widest = "team" -> Viewers \subseteq Authors \cup Named \cup UNION {Mates(p) : p \in Authors}
         [] Widest = "users" -> Viewers = Authors \cup Named
         [] Widest = "private" -> Viewers = Authors)
  BY <1>12, <1>13
<1> QED BY <1>1, <1>2, <1>14 DEF SightAgrees
-----------------------------------------------------------------------------
FanType == [at : {"none", "text", "grants", "ask"}, to : SUBSET People]

LEMMA LaunchFan ==
  ASSUME TypeOK, Launch
  PROVE  /\ fan' \in [Fans -> FanType]
         /\ \E f \in Fans : /\ fan[f] = NoFan /\ fan'[f] = [at |-> "text", to |-> {}]
                            /\ \A g \in Fans \ {f} : fan'[g] = fan[g]
<1>1. PICK f \in IdleFans : fan' = [fan EXCEPT ![f] = [at |-> "text", to |-> {}]]
  BY DEF Launch
<1>2. f \in Fans /\ fan[f] = NoFan
  BY DEF IdleFans
<1> QED BY <1>1, <1>2 DEF TypeOK, FanType

LEMMA FanAtFan ==
  ASSUME TypeOK, NEW f \in Fans, NEW S \in SUBSET People, FanAt(f, S)
  PROVE  /\ fan' \in [Fans -> FanType]
         /\ \A g \in Fans \ {f} : fan'[g] = fan[g]
         /\ fan'[f].to = S
         /\ S # {} => fan'[f].at = "ask"
         /\ S = {} => fan'[f].at = "none"
<1>1. CASE S = {}
  BY <1>1 DEF FanAt, TypeOK, FanType, NoFan
<1>2. CASE S # {}
  BY <1>2 DEF FanAt, TypeOK, FanType
<1> QED BY <1>1, <1>2

LEMMA EnqueueType ==
  ASSUME TypeOK, NEW p \in People, Enqueue(p)
  PROVE  /\ analysis' \in [People -> {"none", "asked", "scored"}]
         /\ analysis'[p] # "none"
         /\ \A q \in People : analysis'[q] = analysis[q] \/ (q = p /\ analysis[p] = "none")
  BY DEF Enqueue, TypeOK

\* What a step may do to who is left out and who was reached.
LEMMA HistoryType ==
  /\ \A S : missed \cup S \subseteq People => (Miss(S) => missed' \subseteq People)
  /\ reached \subseteq People /\ Reach => reached' \subseteq People
  BY DEF Miss, Reach, Viewers

TypeInv == TypeOK /\ LockedType

LEMMA TypeStep ==
  ASSUME TypeInv, BatchOK, [Next]_vars
  PROVE  TypeInv'
<1> USE DEF TypeInv
<1>t. fan \in [Fans -> FanType]
  BY DEF TypeOK, FanType
<1>a. ASSUME UNCHANGED <<owner, text, batch, members, locked, choice>>,
             row' \in [People -> {"none", "active", "hidden"}],
             analysis' \in [People -> {"none", "asked", "scored"}],
             fan' \in [Fans -> FanType], visit' \cup missed' \cup reached' \subseteq People
      PROVE  TypeInv'
  BY <1>a DEF TypeOK, LockedType, FanType
<1>1. CASE Extracted
  <2>1. fan' \in [Fans -> FanType]
    BY <1>1, LaunchFan DEF Extracted
  <2>2. analysis' \in [People -> {"none", "asked", "scored"}]
    BY <1>1 DEF Extracted, TypeOK
  <2>3. text' \in BOOLEAN
    BY <1>1 DEF Extracted
  <2> QED BY <1>1, <2>1, <2>2, <2>3 DEF Extracted, TypeOK, LockedType, FanType, teamVars
<1>2. ASSUME NEW b \in Batches, NEW p \in People, NEW scope \in Scopes, NEW to \in SUBSET People,
             (scope = "users") = (to # {}), SetBatch(b, p, scope, to)
      PROVE  TypeInv'
  <2>1. /\ UNCHANGED <<jobVars, doneVars, teamVars, visit, missed>>
        /\ batch' = [batch EXCEPT ![b] = [by |-> p, scope |-> scope, to |-> to]]
        /\ fan' = fan \/ Launch
    BY <1>2 DEF SetBatch
  <2>2. fan' \in [Fans -> FanType]
    BY <1>t, <2>1, LaunchFan
  <2>3. /\ batch' \in [Batches -> [by : People \cup {Nobody}, scope : Scopes, to : SUBSET People]]
        /\ \A c \in Batches : (batch'[c].scope = "users") = (batch'[c].to # {})
    BY <1>2, <2>1 DEF TypeOK
  <2>4. reached' \subseteq People
    BY <1>2, HistoryType DEF SetBatch, TypeOK
  <2> QED BY <2>1, <2>2, <2>3, <2>4 DEF TypeOK, LockedType, FanType, jobVars, doneVars, teamVars
<1>3. ASSUME NEW b \in Batches, NEW scope \in Scopes, NEW to \in SUBSET People,
             UpdateShare(b, scope, to) \/ \E p \in People : CreateBatch(b, p, scope, to)
      PROVE  TypeInv'
  <2>1. ASSUME UpdateShare(b, scope, to)
        PROVE  batch[b].by \in People /\ SetBatch(b, batch[b].by, scope, to)
               /\ (scope = "users") = (to # {})
    BY <2>1 DEF UpdateShare, TypeOK, BatchOK
  <2>2. ASSUME NEW p \in People, CreateBatch(b, p, scope, to)
        PROVE  SetBatch(b, p, scope, to) /\ (scope = "users") = (to # {})
    BY <2>2 DEF CreateBatch
  <2> QED BY <1>2, <1>3, <2>1, <2>2
<1>4. ASSUME NEW f \in Fans, ReadText(f) PROVE TypeInv'
  <2>1. fan' \in [Fans -> FanType]
    BY <1>t, <1>4 DEF ReadText, FanType, NoFan
  <2> QED BY <1>a, <1>4, <2>1 DEF ReadText, TypeOK, jobVars, doneVars, teamVars
<1>5. ASSUME NEW f \in Fans, ReadGrants(f) PROVE TypeInv'
  <2>1. PICK C \in Taken :
          /\ FanAt(f, (CanSee(C) \cap IF owner = Nobody THEN C ELSE Runners) \ Handled)
          /\ Miss(Candidates \ C)
    BY <1>5 DEF ReadGrants
  <2>2. C \in SUBSET Candidates /\ Candidates \subseteq People
    BY SettingsAssumption DEF Taken, Candidates
  <2>3. (CanSee(C) \cap IF owner = Nobody THEN C ELSE Runners) \ Handled \in SUBSET People
    BY <2>2, SettingsAssumption
  <2>4. fan' \in [Fans -> FanType]
    BY <2>1, <2>3, FanAtFan
  <2>5. missed' \subseteq People
    BY <2>1, <2>2 DEF Miss, TypeOK
  <2> QED BY <1>a, <1>5, <2>4, <2>5 DEF ReadGrants, TypeOK, jobVars, doneVars, teamVars
<1>6. ASSUME NEW f \in Fans, NEW p \in People, Ask(f, p) PROVE TypeInv'
  <2>1. fan' \in [Fans -> FanType]
    BY <1>t, <1>6, FanAtFan DEF Ask, FanType
  <2>2. analysis' \in [People -> {"none", "asked", "scored"}]
    BY <1>6, EnqueueType DEF Ask
  <2> QED BY <1>a, <1>6, <2>1, <2>2 DEF Ask, TypeOK, jobVars, doneVars, teamVars
<1>7. ASSUME NEW f \in Fans, NEW p \in People, Refuse(f, p) PROVE TypeInv'
  <2>1. fan' \in [Fans -> FanType]
    BY <1>t, <1>7, FanAtFan DEF Refuse, FanType
  <2> QED BY <1>a, <1>7, <2>1 DEF Refuse, Miss, TypeOK, jobVars, doneVars, teamVars
<1>8. ASSUME NEW f \in Fans, LoseFan(f) PROVE TypeInv'
  <2>1. fan' \in [Fans -> FanType]
    BY <1>8, FanAtFan DEF LoseFan
  <2> QED BY <1>a, <1>8, <2>1 DEF LoseFan, Miss, TypeOK, jobVars, doneVars, teamVars
<1>9. ASSUME NEW p \in People, List(p) \/ AskListed(p) \/ RefuseListed(p) PROVE TypeInv'
  <2>1. analysis' \in [People -> {"none", "asked", "scored"}]
    BY <1>9, EnqueueType DEF List, AskListed, RefuseListed, doneVars, TypeOK
  <2>2. visit' \subseteq People
    BY <1>9 DEF List, AskListed, RefuseListed, TypeOK
  <2> QED BY <1>a, <1>t, <1>9, <2>1, <2>2
          DEF List, AskListed, RefuseListed, TypeOK, jobVars, doneVars, teamVars
<1>10. ASSUME NEW p \in People, Score(p) PROVE TypeInv'
  BY <1>a, <1>t, <1>10 DEF Score, TypeOK, jobVars, teamVars
<1>11. ASSUME NEW p \in People, NoResult(p) PROVE TypeInv'
  BY <1>a, <1>t, <1>11 DEF NoResult, Miss, TypeOK, jobVars, teamVars
<1>12. ASSUME NEW p \in People, Submit(p) PROVE TypeInv'
  <2>1. analysis' \in [People -> {"none", "asked", "scored"}]
    BY <1>12, EnqueueType DEF Submit, TypeOK
  <2>2. missed' \subseteq People /\ reached' \subseteq People
    BY <1>12, HistoryType DEF Submit, Miss, TypeOK
  <2> QED BY <1>a, <1>t, <1>12, <2>1, <2>2 DEF Submit, TypeOK, jobVars, teamVars
<1>13. ASSUME NEW s \in Spaces, NEW p \in People, Join(s, p) PROVE TypeInv'
  <2>1. members' \in [Spaces -> SUBSET People]
    BY <1>13 DEF Join, TypeOK
  <2>2. \A z \in Spaces : members[z] \subseteq members'[z]
    BY <1>13 DEF Join, TypeOK
  <2>a. Participants(s) \cup {p} \subseteq People
    <3>1. Lead[s] \in People
      BY SettingsAssumption
    <3>2. members[s] \subseteq People
      BY DEF TypeOK
    <3> QED BY <3>1, <3>2 DEF Participants
  <2>3. missed' \subseteq People
    BY <1>13, <2>a DEF Join, Miss, TypeOK
  <2>4. reached' \subseteq People
    BY <1>13, HistoryType DEF Join, TypeOK
  <2> QED BY <1>13, <2>1, <2>2, <2>3, <2>4 DEF Join, TypeOK, LockedType, jobVars, doneVars
<1>14. ASSUME NEW s \in Spaces, NEW p \in People, Leave(s, p) PROVE TypeInv'
  BY <1>14 DEF Leave, TypeOK, LockedType, jobVars, doneVars
<1>15. ASSUME NEW s \in Spaces, NEW p \in People, NEW scope \in Defaults, Pin(s, p, scope)
       PROVE  TypeInv'
  BY <1>15 DEF Pin, TypeOK, LockedType, jobVars, doneVars
<1>16. CASE UNCHANGED vars
  BY <1>a, <1>t, <1>16 DEF vars, jobVars, doneVars, teamVars, TypeOK
<1> QED BY <1>1, <1>3, <1>4, <1>5, <1>6, <1>7, <1>8, <1>9, <1>10, <1>11, <1>12, <1>13, <1>14,
           <1>15, <1>16 DEF Next, FanStep
-----------------------------------------------------------------------------
LEMMA BatchStep ==
  ASSUME TypeInv, BatchOK, [Next]_vars
  PROVE  BatchOK'
<1> USE DEF TypeInv
<1>1. ASSUME UNCHANGED <<owner, batch>> PROVE BatchOK'
  BY <1>1 DEF BatchOK, Sessions
<1>2. ASSUME NEW b \in Batches, NEW p \in People, NEW scope \in Scopes, NEW to \in SUBSET People,
             owner # Nobody, SetBatch(b, p, scope, to)
      PROVE  BatchOK'
  <2>1. owner' = owner /\ batch' = [batch EXCEPT ![b] = [by |-> p, scope |-> scope, to |-> to]]
    BY <1>2 DEF SetBatch, jobVars
  <2>2. \A c \in Batches : batch'[c] = IF c = b THEN [by |-> p, scope |-> scope, to |-> to]
                                                ELSE batch[c]
    BY <2>1 DEF TypeOK
  <2> QED BY <1>2, <2>1, <2>2, PeopleAssumption DEF BatchOK
<1>3. ASSUME NEW b \in Batches, NEW scope \in Scopes, NEW to \in SUBSET People,
             UpdateShare(b, scope, to)
      PROVE  BatchOK'
  <2>1. batch[b].by \in People /\ b \in Sessions
    BY <1>3 DEF UpdateShare, TypeOK, BatchOK, Sessions
  <2>2. owner # Nobody
    BY <2>1 DEF BatchOK
  <2> QED BY <1>2, <1>3, <2>1, <2>2 DEF UpdateShare
<1>4. ASSUME NEW b \in Batches, NEW p \in People, NEW scope \in Scopes, NEW to \in SUBSET People,
             CreateBatch(b, p, scope, to)
      PROVE  BatchOK'
  <2>1. owner # Nobody
    BY <1>4 DEF CreateBatch, Attachable, BatchOK
  <2> QED BY <1>2, <1>4, <2>1 DEF CreateBatch
<1>5. CASE UNCHANGED vars
  BY <1>1, <1>5 DEF vars, jobVars
<1>6. Next => \/ UNCHANGED <<owner, batch>>
              \/ \E b \in Batches, scope \in Scopes, to \in SUBSET People :
                   UpdateShare(b, scope, to) \/ \E p \in People : CreateBatch(b, p, scope, to)
  BY DEF Next, Extracted, FanStep, ReadText, ReadGrants, Ask, Refuse, LoseFan, List, AskListed,
         RefuseListed, Score, NoResult, Submit, Join, Leave, Pin, jobVars
<1> QED BY <1>1, <1>3, <1>4, <1>5, <1>6

-----------------------------------------------------------------------------
\* What the clause depends on.
LEMMA SameSight ==
  ASSUME UNCHANGED <<owner, batch, members>>
  PROVE  /\ Viewers' = Viewers
         /\ \A p \in People : Sees(p)' <=> Sees(p)
BY DEF Viewers, Sees, Grants, Sessions, Participants

LEMMA ReachStep ==
  ASSUME TypeInv, ReachOK, MissOK, [Next]_vars
  PROVE  ReachOK'
<1> USE DEF TypeInv
<1>t. fan \in [Fans -> FanType]
  BY DEF TypeOK, FanType
\* Who may see the job stays, and nobody is asked for but those reached.
<1>a. ASSUME UNCHANGED <<owner, batch, members, reached>>,
             \A p \in People : row'[p] = "active" \/ analysis'[p] # "none" => p \in reached,
             visit' \subseteq reached,
             \A f \in Fans : fan'[f].to \subseteq reached
      PROVE  ReachOK'
  BY <1>a, SameSight DEF ReachOK
\* Reach adds what becomes visible.
<1>b. ASSUME Reach, visit' = visit, 
             \A f \in Fans : fan'[f].to = fan[f].to \/ fan'[f].to = {},
             \A p \in People : analysis'[p] # "none" => p \in reached \/ row'[p] = "active"
      PROVE  ReachOK'
  <2>1. reached \subseteq reached' /\ Viewers' \subseteq reached'
        /\ \A p \in People : row'[p] = "active" => p \in reached'
    BY <1>b DEF Reach
  <2> QED BY <1>b, <2>1 DEF ReachOK
<1>1. CASE Extracted
  <2>1. PICK known \in SUBSET {p \in Runners : row[p] = "active"} :
           analysis' = [p \in People |-> IF p \in known THEN "asked" ELSE analysis[p]]
    BY <1>1 DEF Extracted
  <2>2. \A p \in People : row'[p] = "active" \/ analysis'[p] # "none" => p \in reached
    BY <1>1, <2>1 DEF Extracted, ReachOK
  <2>3. \A f \in Fans : fan'[f].to \subseteq reached
    BY <1>1, LaunchFan DEF Extracted, ReachOK
  <2> QED BY <1>1, <1>a, <2>2, <2>3 DEF Extracted, ReachOK, teamVars
<1>2. ASSUME NEW b \in Batches, NEW p, NEW scope, NEW to, SetBatch(b, p, scope, to)
      PROVE  ReachOK'
  <2>1. \A f \in Fans : fan'[f].to = fan[f].to \/ fan'[f].to = {}
    BY <1>2, LaunchFan DEF SetBatch
  <2>2. Reach /\ visit' = visit /\ analysis' = analysis
    BY <1>2 DEF SetBatch, doneVars
  <2> QED BY <1>b, <2>1, <2>2 DEF ReachOK
<1>3. ASSUME NEW b \in Batches, NEW scope, NEW to,
             UpdateShare(b, scope, to) \/ \E p \in People : CreateBatch(b, p, scope, to)
      PROVE  ReachOK'
  BY <1>2, <1>3 DEF UpdateShare, CreateBatch
<1>4. ASSUME NEW f \in Fans, ReadText(f) PROVE ReachOK'
  <2>1. \A g \in Fans : fan'[g].to \subseteq reached
    BY <1>t, <1>4 DEF ReadText, NoFan, ReachOK, FanType
  <2> QED BY <1>a, <1>4, <2>1 DEF ReadText, ReachOK, jobVars, doneVars, teamVars
<1>5. ASSUME NEW f \in Fans, ReadGrants(f) PROVE ReachOK'
  <2>1. PICK C \in Taken :
          /\ FanAt(f, (CanSee(C) \cap IF owner = Nobody THEN C ELSE Runners) \ Handled)
          /\ Miss(Candidates \ C)
    BY <1>5 DEF ReadGrants
  <2> DEFINE S == (CanSee(C) \cap IF owner = Nobody THEN C ELSE Runners) \ Handled
  <2>2. C \in SUBSET People
    BY SettingsAssumption DEF Taken, Candidates
  <2>3. S \subseteq reached /\ S \in SUBSET People
    BY <2>2, ManySee DEF ReachOK
  <2>4. \A g \in Fans : fan'[g].to \subseteq reached
    <3> HIDE DEF S
    <3> QED BY <2>1, <2>3, FanAtFan DEF ReachOK, S
  <2> QED BY <1>a, <1>5, <2>4 DEF ReadGrants, ReachOK, jobVars, doneVars, teamVars
<1>6. ASSUME NEW f \in Fans, NEW p \in People, Ask(f, p) PROVE ReachOK'
  <2>1. \A g \in Fans : fan'[g].to \subseteq reached
    BY <1>t, <1>6, FanAtFan DEF Ask, FanType, ReachOK
  <2>2. \A q \in People : row'[q] = "active" \/ analysis'[q] # "none" => q \in reached
    BY <1>6, EnqueueType DEF Ask, ReachOK
  <2> QED BY <1>a, <1>6, <2>1, <2>2 DEF Ask, ReachOK, jobVars, teamVars
<1>7. ASSUME NEW f \in Fans, NEW p \in People, Refuse(f, p) PROVE ReachOK'
  <2>1. \A g \in Fans : fan'[g].to \subseteq reached
    BY <1>t, <1>7, FanAtFan DEF Refuse, FanType, ReachOK
  <2> QED BY <1>a, <1>7, <2>1 DEF Refuse, ReachOK, jobVars, doneVars, teamVars
<1>8. ASSUME NEW f \in Fans, LoseFan(f) PROVE ReachOK'
  <2>1. \A g \in Fans : fan'[g].to \subseteq reached
    BY <1>8, FanAtFan DEF LoseFan, ReachOK
  <2> QED BY <1>a, <1>8, <2>1 DEF LoseFan, ReachOK, jobVars, doneVars, teamVars
<1>9. ASSUME NEW p \in People, List(p) \/ AskListed(p) \/ RefuseListed(p) PROVE ReachOK'
  <2>1. UNCHANGED <<owner, batch, members, reached, row, fan>>
    BY <1>9 DEF List, AskListed, RefuseListed, jobVars, doneVars, teamVars
  <2>2. CASE List(p)
    <3>1. p \in reached
      BY <2>2 DEF List, Wants, ReachOK, Viewers
    <3> QED BY <1>a, <2>1, <2>2, <3>1 DEF List, ReachOK, doneVars
  <2>3. CASE AskListed(p)
    <3>1. \A q \in People : row'[q] = "active" \/ analysis'[q] # "none" => q \in reached
      BY <2>1, <2>3, EnqueueType DEF AskListed, ReachOK
    <3>2. visit' \subseteq reached
      BY <2>3 DEF AskListed, ReachOK
    <3> QED BY <1>a, <2>1, <3>1, <3>2 DEF ReachOK
  <2>4. CASE RefuseListed(p)
    BY <1>a, <2>1, <2>4 DEF RefuseListed, ReachOK, doneVars
  <2> QED BY <1>9, <2>2, <2>3, <2>4
<1>10. ASSUME NEW p \in People, Score(p) \/ NoResult(p) PROVE ReachOK'
  <2>1. \A q \in People : row'[q] = "active" \/ analysis'[q] # "none" => q \in reached
    BY <1>10 DEF Score, NoResult, ReachOK, TypeOK
  <2> QED BY <1>a, <1>10, <2>1 DEF Score, NoResult, ReachOK, jobVars, teamVars
<1>11. ASSUME NEW p \in People, Submit(p) PROVE ReachOK'
  <2>1. row'[p] = "active"
    BY <1>11 DEF Submit, TypeOK
  <2>2. \A q \in People : analysis'[q] # "none" => q \in reached \/ row'[q] = "active"
    BY <1>11, <2>1, EnqueueType DEF Submit, ReachOK
  <2> QED BY <1>b, <1>11, <2>2 DEF Submit
<1>12. ASSUME NEW s \in Spaces, NEW p \in People, Join(s, p) PROVE ReachOK'
  BY <1>b, <1>12 DEF Join, ReachOK, doneVars
<1>13. ASSUME NEW s \in Spaces, NEW p \in People, Leave(s, p) PROVE ReachOK'
  <2>1. \A z \in Spaces : members'[z] \subseteq members[z]
    BY <1>13 DEF Leave, TypeOK
  <2>2. UNCHANGED <<owner, batch>>
    BY <1>13 DEF Leave, jobVars
  <2>3. Viewers' \subseteq Viewers
    BY <2>1, <2>2 DEF Viewers, Sees, Grants, Sessions, Participants
  <2> QED BY <1>13, <2>3 DEF Leave, ReachOK, doneVars
<1>14. ASSUME NEW s \in Spaces, NEW p \in People, NEW scope \in Defaults, Pin(s, p, scope)
       PROVE  ReachOK'
  BY <1>a, <1>14 DEF Pin, ReachOK, jobVars, doneVars
<1>15. CASE UNCHANGED vars
  BY <1>a, <1>15 DEF vars, jobVars, doneVars, teamVars, ReachOK
<1> QED BY <1>1, <1>3, <1>4, <1>5, <1>6, <1>7, <1>8, <1>9, <1>10, <1>11, <1>12, <1>13, <1>14,
           <1>15 DEF Next, FanStep
-----------------------------------------------------------------------------
LEMMA MissStep ==
  ASSUME TypeInv, MissOK, [Next]_vars
  PROVE  MissOK'
<1> USE DEF TypeInv
<1>t. fan \in [Fans -> FanType]
  BY DEF TypeOK, FanType
\* Nobody comes to the job, and whoever was asked for stays so.
<1>a. ASSUME owner' = owner, missed \subseteq missed',
             \A p \in People : row'[p] = "active" =>
               p \in missed' \/ analysis'[p] # "none" \/ (row[p] = "active" /\ analysis[p] = "none"),
             \A f \in Fans : fan'[f].at # "ask" => fan'[f].to = {}
      PROVE  MissOK'
  BY <1>a DEF MissOK
<1>b. ASSUME NEW f \in Fans, NEW S \in SUBSET People, FanAt(f, S)
      PROVE  \A g \in Fans : fan'[g].at # "ask" => fan'[g].to = {}
  BY <1>b, FanAtFan DEF MissOK
<1>1. CASE Extracted
  <2>1. PICK known \in SUBSET {p \in Runners : row[p] = "active"} :
           analysis' = [p \in People |-> IF p \in known THEN "asked" ELSE analysis[p]]
    BY <1>1 DEF Extracted
  <2>2. \A f \in Fans : fan'[f].at # "ask" => fan'[f].to = {}
    BY <1>1, LaunchFan DEF Extracted, MissOK
  <2> QED BY <1>1, <1>a, <2>1, <2>2 DEF Extracted, MissOK
<1>2. ASSUME NEW b \in Batches, NEW p, NEW scope, NEW to, SetBatch(b, p, scope, to)
      PROVE  MissOK'
  <2>1. \A f \in Fans : fan'[f].at # "ask" => fan'[f].to = {}
    BY <1>2, LaunchFan DEF SetBatch, MissOK
  <2> QED BY <1>2, <1>a, <2>1 DEF SetBatch, MissOK, jobVars, doneVars
<1>3. ASSUME NEW b \in Batches, NEW scope, NEW to,
             UpdateShare(b, scope, to) \/ \E p \in People : CreateBatch(b, p, scope, to)
      PROVE  MissOK'
  BY <1>2, <1>3 DEF UpdateShare, CreateBatch
<1>4. ASSUME NEW f \in Fans, ReadText(f) PROVE MissOK'
  <2>1. \A g \in Fans : fan'[g].at # "ask" => fan'[g].to = {}
    BY <1>t, <1>4 DEF ReadText, NoFan, MissOK, FanType
  <2> QED BY <1>a, <1>4, <2>1 DEF ReadText, MissOK, jobVars, doneVars
<1>5. ASSUME NEW f \in Fans, ReadGrants(f) PROVE MissOK'
  <2>1. PICK C \in Taken :
          /\ FanAt(f, (CanSee(C) \cap IF owner = Nobody THEN C ELSE Runners) \ Handled)
          /\ Miss(Candidates \ C)
    BY <1>5 DEF ReadGrants
  <2>2. (CanSee(C) \cap IF owner = Nobody THEN C ELSE Runners) \ Handled \in SUBSET People
    BY SettingsAssumption DEF Taken, Candidates
  <2>3. \A g \in Fans : fan'[g].at # "ask" => fan'[g].to = {}
    BY <1>b, <2>1, <2>2
  <2> QED BY <1>a, <1>5, <2>1, <2>3 DEF ReadGrants, MissOK, Miss, jobVars, doneVars
<1>6. ASSUME NEW f \in Fans, NEW p \in People, Ask(f, p) PROVE MissOK'
  <2>1. fan[f].to \ {p} \in SUBSET People
    BY <1>t DEF FanType
  <2>2. \A g \in Fans : fan'[g].at # "ask" => fan'[g].to = {}
    BY <1>6, <1>b, <2>1 DEF Ask
  <2>3. \A q \in People : analysis[q] # "none" => analysis'[q] # "none"
    BY <1>6, EnqueueType DEF Ask
  <2> QED BY <1>a, <1>6, <2>2, <2>3 DEF Ask, MissOK, jobVars
<1>7. ASSUME NEW f \in Fans, NEW p \in People, Refuse(f, p) PROVE MissOK'
  <2>1. fan[f].to \ {p} \in SUBSET People
    BY <1>t DEF FanType
  <2>2. \A g \in Fans : fan'[g].at # "ask" => fan'[g].to = {}
    BY <1>7, <1>b, <2>1 DEF Refuse
  <2> QED BY <1>a, <1>7, <2>2 DEF Refuse, Miss, MissOK, jobVars, doneVars
<1>8. ASSUME NEW f \in Fans, LoseFan(f) PROVE MissOK'
  <2>1. \A g \in Fans : fan'[g].at # "ask" => fan'[g].to = {}
    BY <1>8, <1>b DEF LoseFan
  <2> QED BY <1>a, <1>8, <2>1 DEF LoseFan, Miss, MissOK, jobVars, doneVars
<1>9. ASSUME NEW p \in People, List(p) \/ AskListed(p) \/ RefuseListed(p) PROVE MissOK'
  <2>1. UNCHANGED <<owner, missed, row, fan>>
    BY <1>9 DEF List, AskListed, RefuseListed, jobVars, doneVars
  <2>2. \A q \in People : analysis[q] # "none" => analysis'[q] # "none"
    BY <1>9, EnqueueType DEF List, AskListed, RefuseListed, doneVars
  <2> QED BY <1>a, <2>1, <2>2 DEF MissOK
<1>10. ASSUME NEW p \in People, Score(p) \/ NoResult(p) PROVE MissOK'
  <2>1. UNCHANGED <<owner, fan>> /\ missed \subseteq missed'
    BY <1>10 DEF Score, NoResult, Miss, jobVars
  <2>2. \A q \in People : row'[q] = "active" =>
          q \in missed' \/ analysis'[q] # "none" \/ (row[q] = "active" /\ analysis[q] = "none")
    <3>1. CASE Score(p)
      <4>1. /\ missed' = missed /\ analysis'[p] = "scored"
            /\ \A q \in People \ {p} : row'[q] = row[q] /\ analysis'[q] = analysis[q]
        BY <3>1 DEF Score, TypeOK
      <4> QED BY <4>1 DEF MissOK
    <3>2. CASE NoResult(p)
      <4>1. /\ row' = row /\ missed' = missed \cup {p}
            /\ \A q \in People \ {p} : analysis'[q] = analysis[q]
        BY <3>2 DEF NoResult, Miss, TypeOK
      <4> QED BY <4>1 DEF MissOK
    <3> QED BY <1>10, <3>1, <3>2
  <2> QED BY <1>a, <2>1, <2>2 DEF MissOK
<1>11. ASSUME NEW p \in People, Submit(p) PROVE MissOK'
  <2>1. \A q \in People : analysis[q] # "none" => analysis'[q] # "none"
    BY <1>11, EnqueueType DEF Submit
  <2>2. \A q \in People : row'[q] = "active" => q \in missed' \/ row[q] = "active"
    BY <1>11 DEF Submit, Miss, TypeOK
  <2> QED BY <1>a, <1>11, <2>1, <2>2 DEF Submit, Miss, MissOK, jobVars
<1>12. ASSUME NEW s \in Spaces, NEW p \in People,
              Join(s, p) \/ Leave(s, p) \/ \E scope \in Defaults : Pin(s, p, scope)
       PROVE  MissOK'
  <2>1. UNCHANGED <<owner, row, analysis, fan>> /\ missed \subseteq missed'
    BY <1>12 DEF Join, Leave, Pin, Miss, jobVars, doneVars
  <2> QED BY <1>a, <2>1 DEF MissOK
<1>13. CASE UNCHANGED vars
  BY <1>a, <1>13 DEF vars, jobVars, doneVars, MissOK
<1> QED BY <1>1, <1>3, <1>4, <1>5, <1>6, <1>7, <1>8, <1>9, <1>10, <1>11, <1>12, <1>13
        DEF Next, FanStep
-----------------------------------------------------------------------------
\* Who had no fan-out to wait for and wants the analysis now is left out, and a
\* fan-out goes only when nobody waits for it.
LEMMA MeetStep ==
  ASSUME TypeInv, BatchOK, MissOK, MeetOK, [Next]_vars
  PROVE  MeetOK'
<1> USE DEF TypeInv
<1>t. fan \in [Fans -> FanType]
  BY DEF TypeOK, FanType
<1> SUFFICES ASSUME owner' # Nobody, NEW p \in People, Wants(p)'
             PROVE  p \in missed' \/ \E f \in Fans : Coming(f, p)'
  BY DEF MeetOK
<1> DEFINE Settled == p \in missed' \/ \E f \in Fans : Coming(f, p)'
<1>w. /\ text' /\ Sees(p)' /\ analysis'[p] = "none" /\ row'[p] # "hidden" /\ p \in Runners
  BY DEF Wants
<1>o. owner' = owner
  BY DEF Next, Extracted, FanStep, ReadText, ReadGrants, Ask, Refuse, LoseFan, List, AskListed,
         RefuseListed, Score, NoResult, Submit, Join, Leave, Pin, jobVars, vars,
         UpdateShare, CreateBatch, SetBatch
<1>l. ASSUME NEW f \in Fans, fan'[f] = [at |-> "text", to |-> {}] PROVE Settled
  BY <1>l DEF Coming
\* Who wanted it before is left out or waits for a fan-out that goes on.
<1>a. ASSUME Wants(p), missed \subseteq missed',
             \A f \in Fans : Coming(f, p) => Coming(f, p)' \/ p \in missed'
      PROVE  Settled
  BY <1>a, <1>o DEF MeetOK
<1>b. ASSUME UNCHANGED <<text, row, analysis, batch, members>> PROVE Wants(p)
  BY <1>b, <1>o, <1>w, SameSight DEF Wants
<1>1. CASE Extracted
  BY <1>1, <1>l, LaunchFan DEF Extracted
<1>2. ASSUME NEW b \in Batches, NEW q \in People, NEW scope \in Scopes, NEW to \in SUBSET People,
             (scope = "users") = (to # {}), row[q] = "active" \/ batch[b].by = q,
             SetBatch(b, q, scope, to)
      PROVE  Settled
  <2>0. UNCHANGED <<text, row, analysis, members, missed>>
    BY <1>2 DEF SetBatch, jobVars, doneVars, teamVars
  <2>1. CASE scope # "private"
    BY <1>2, <1>l, <2>1, LaunchFan DEF SetBatch
  <2>2. CASE scope = "private"
    <3>1. fan' = fan /\ batch' = [batch EXCEPT ![b] = [by |-> q, scope |-> scope, to |-> to]]
      BY <1>2, <2>2 DEF SetBatch
    <3>2. /\ batch'[b].by = q /\ batch'[b].scope = "private"
          /\ \A c \in Batches \ {b} : batch'[c] = batch[c]
      BY <2>2, <3>1 DEF TypeOK
    <3>3. CASE Sees(p)
      <4>1. Wants(p)
        BY <1>o, <1>w, <2>0, <3>3 DEF Wants
      <4> QED BY <1>a, <2>0, <3>1, <4>1 DEF Coming
    <3>4. CASE ~Sees(p)
      <4>1. PICK c \in Batches : batch'[c].by # Nobody /\ Grants(c, p)'
        BY <1>o, <1>w, <3>4 DEF Sees, Sessions
      <4>2. c = b
        BY <2>0, <3>2, <3>4, <4>1 DEF Sees, Sessions, Grants, Participants
      <4>3. p = q
        BY <3>2, <4>1, <4>2 DEF Grants
      <4>4. row[p] = "active"
        BY <1>2, <3>4, <4>3, PeopleAssumption DEF Sees, Sessions, Grants
      <4> QED BY <1>w, <2>0, <4>4 DEF MissOK
    <3> QED BY <3>3, <3>4
  <2> QED BY <2>1, <2>2
<1>3. ASSUME NEW b \in Batches, NEW scope \in Scopes, NEW to \in SUBSET People,
             UpdateShare(b, scope, to) \/ \E q \in People : CreateBatch(b, q, scope, to)
      PROVE  Settled
  <2>1. CASE UpdateShare(b, scope, to)
    <3>1. batch[b].by \in People
      BY <2>1 DEF UpdateShare, TypeOK, BatchOK
    <3> QED BY <1>2, <2>1, <3>1 DEF UpdateShare
  <2>2. ASSUME NEW q \in People, CreateBatch(b, q, scope, to) PROVE Settled
    BY <1>2, <2>2 DEF CreateBatch, Attachable
  <2> QED BY <1>3, <2>1, <2>2
<1>4. ASSUME NEW f \in Fans, ReadText(f) PROVE Settled
  <2>0. UNCHANGED <<text, row, analysis, batch, members, missed>>
    BY <1>4 DEF ReadText, jobVars, doneVars, teamVars
  <2>1. fan' = [fan EXCEPT ![f] = [at |-> "grants", to |-> {}]]
    BY <1>4, <1>w, <2>0 DEF ReadText
  <2>2. \A g \in Fans : Coming(g, p) => Coming(g, p)'
    BY <1>t, <2>1 DEF Coming, FanType
  <2> QED BY <1>a, <1>b, <2>0, <2>2
<1>5. ASSUME NEW f \in Fans, ReadGrants(f) PROVE Settled
  <2>0. UNCHANGED <<text, row, analysis, batch, members>>
    BY <1>5 DEF ReadGrants, jobVars, doneVars, teamVars
  <2>1. PICK C \in Taken :
          /\ FanAt(f, (CanSee(C) \cap IF owner = Nobody THEN C ELSE Runners) \ Handled)
          /\ Miss(Candidates \ C)
    BY <1>5 DEF ReadGrants
  <2>w. Wants(p)
    BY <1>b, <2>0
  <2>2. C \subseteq People /\ Candidates = People \ {owner}
    BY <1>o, SettingsAssumption DEF Taken, Candidates
  <2>3. FanAt(f, (CanSee(C) \cap Runners) \ Handled)
    BY <1>o, <2>1
  <2>4. (CanSee(C) \cap Runners) \ Handled \in SUBSET People
    BY SettingsAssumption
  <2>5. CASE p = owner
    BY <2>1, <2>5 DEF MissOK, Miss
  <2>6. CASE p # owner /\ p \notin C
    BY <2>1, <2>2, <2>6 DEF Miss
  <2>7. CASE p \in C
    <3>1. p \in CanSee(C)
      BY <2>2, <2>7, <2>w, ManySee DEF Wants, Viewers
    <3>2. p \in (CanSee(C) \cap Runners) \ Handled
      BY <1>w, <2>w, <3>1 DEF Handled, Wants
    <3>3. fan'[f].to = (CanSee(C) \cap Runners) \ Handled
      BY <2>3, <2>4, FanAtFan
    <3> QED BY <3>2, <3>3 DEF Coming
  <2> QED BY <2>5, <2>6, <2>7
<1>6. ASSUME NEW f \in Fans, NEW q \in People, Ask(f, q) PROVE Settled
  <2>0. UNCHANGED <<text, row, batch, members, missed>>
    BY <1>6 DEF Ask, jobVars, teamVars
  <2>1. q # p /\ analysis[p] = "none"
    BY <1>6, <1>w, EnqueueType DEF Ask
  <2>2. Wants(p)
    BY <1>o, <1>w, <2>0, <2>1, SameSight DEF Wants
  <2>3. fan[f].to \ {q} \in SUBSET People
    BY <1>t DEF FanType
  <2>4. /\ \A g \in Fans \ {f} : fan'[g] = fan[g]
        /\ fan'[f].to = fan[f].to \ {q}
        /\ fan[f].at = "ask"
    BY <1>6, <2>3, FanAtFan DEF Ask, MissOK
  <2> QED BY <1>a, <2>0, <2>1, <2>2, <2>4 DEF Coming
<1>7. ASSUME NEW f \in Fans, NEW q \in People, Refuse(f, q) PROVE Settled
  <2>0. UNCHANGED <<text, row, analysis, batch, members>> /\ missed' = missed \cup {q}
    BY <1>7 DEF Refuse, Miss, jobVars, doneVars, teamVars
  <2>1. fan[f].to \ {q} \in SUBSET People
    BY <1>t DEF FanType
  <2>2. /\ \A g \in Fans \ {f} : fan'[g] = fan[g]
        /\ fan'[f].to = fan[f].to \ {q}
        /\ fan[f].at = "ask"
    BY <1>7, <2>1, FanAtFan DEF Refuse, MissOK
  <2>3. \A g \in Fans : Coming(g, p) => Coming(g, p)' \/ p \in missed'
    BY <2>0, <2>2 DEF Coming
  <2> QED BY <1>a, <1>b, <2>0, <2>3
<1>8. ASSUME NEW f \in Fans, LoseFan(f) PROVE Settled
  BY <1>8 DEF LoseFan, Miss
<1>9. ASSUME NEW q \in People, List(q) \/ AskListed(q) \/ RefuseListed(q) PROVE Settled
  <2>0. UNCHANGED <<text, row, batch, members, missed, fan>>
    BY <1>9 DEF List, AskListed, RefuseListed, jobVars, doneVars, teamVars
  <2>1. analysis[p] = "none"
    BY <1>9, <1>w, EnqueueType DEF List, AskListed, RefuseListed, doneVars
  <2>2. Wants(p)
    BY <1>o, <1>w, <2>0, <2>1, SameSight DEF Wants
  <2> QED BY <1>a, <2>0, <2>2 DEF Coming
<1>10. ASSUME NEW q \in People, Score(q) PROVE Settled
  <2>0. UNCHANGED <<text, batch, members, missed, fan>>
    BY <1>10 DEF Score, jobVars, teamVars
  <2>1. analysis[p] = "none" /\ row'[p] = row[p]
    BY <1>10, <1>w DEF Score, TypeOK
  <2>2. Wants(p)
    BY <1>o, <1>w, <2>0, <2>1, SameSight DEF Wants
  <2> QED BY <1>a, <2>0, <2>2 DEF Coming
<1>11. ASSUME NEW q \in People, NoResult(q) PROVE Settled
  <2>0. UNCHANGED <<text, row, batch, members, fan>> /\ missed' = missed \cup {q}
    BY <1>11 DEF NoResult, Miss, jobVars, teamVars
  <2>1. CASE p = q
    BY <2>0, <2>1
  <2>2. CASE p # q
    <3>1. analysis[p] = "none"
      BY <1>11, <1>w, <2>2 DEF NoResult, TypeOK
    <3>2. Wants(p)
      BY <1>o, <1>w, <2>0, <3>1, SameSight DEF Wants
    <3> QED BY <1>a, <2>0, <3>2 DEF Coming
  <2> QED BY <2>1, <2>2
<1>12. ASSUME NEW q \in People, Submit(q) PROVE Settled
  <2>0. UNCHANGED <<text, batch, members, fan>> /\ missed' = missed \cup {q}
    BY <1>12 DEF Submit, Miss, jobVars, teamVars
  <2>1. CASE p = q
    BY <2>0, <2>1
  <2>2. CASE p # q
    <3>1. analysis[p] = "none" /\ row'[p] = row[p]
      BY <1>12, <1>w, <2>2, EnqueueType DEF Submit, TypeOK
    <3>2. Wants(p)
      BY <1>o, <1>w, <2>0, <3>1, SameSight DEF Wants
    <3> QED BY <1>a, <2>0, <3>2 DEF Coming
  <2> QED BY <2>1, <2>2
<1>13. ASSUME NEW s \in Spaces, NEW q \in People, Join(s, q) PROVE Settled
  <2>0. UNCHANGED <<text, row, analysis, batch, fan>>
        /\ missed' = missed \cup Participants(s) \cup {q}
        /\ members' = [members EXCEPT ![s] = @ \cup {q}]
    BY <1>13 DEF Join, Miss, jobVars, doneVars
  <2>1. /\ Participants(s)' = Participants(s) \cup {q}
        /\ \A z \in Spaces \ {s} : Participants(z)' = Participants(z)
    BY <2>0 DEF Participants, TypeOK
  <2>2. CASE Sees(p)
    <3>1. Wants(p)
      BY <1>o, <1>w, <2>0, <2>2 DEF Wants
    <3> QED BY <1>a, <2>0, <3>1 DEF Coming
  <2>3. CASE ~Sees(p)
    <3>1. PICK b \in Sessions : Grants(b, p)'
      BY <1>o, <1>w, <2>0, <2>3 DEF Sees, Sessions
    <3>2. ~Grants(b, p)
      BY <2>3 DEF Sees
    <3>3. PICK z \in Spaces : /\ {batch[b].by, p} \subseteq Participants(z)'
                              /\ ~({batch[b].by, p} \subseteq Participants(z))
      BY <2>0, <3>1, <3>2 DEF Grants
    <3>4. p \in Participants(s) \cup {q}
      BY <2>1, <3>3
    <3> QED BY <2>0, <3>4
  <2> QED BY <2>2, <2>3
<1>14. ASSUME NEW s \in Spaces, NEW q \in People, Leave(s, q) PROVE Settled
  <2>0. UNCHANGED <<text, row, analysis, batch, fan, missed>>
    BY <1>14 DEF Leave, jobVars, doneVars
  <2>1. \A z \in Spaces : members'[z] \subseteq members[z]
    BY <1>14 DEF Leave, TypeOK
  <2>2. Sees(p)
    BY <1>o, <1>w, <2>0, <2>1 DEF Sees, Grants, Sessions, Participants
  <2>3. Wants(p)
    BY <1>o, <1>w, <2>0, <2>2 DEF Wants
  <2> QED BY <1>a, <2>0, <2>3 DEF Coming
<1>15. ASSUME NEW s \in Spaces, NEW q \in People, NEW scope \in Defaults, Pin(s, q, scope)
       PROVE  Settled
  <2>0. UNCHANGED <<text, row, analysis, batch, members, fan, missed>>
    BY <1>15 DEF Pin, jobVars, doneVars
  <2> QED BY <1>a, <1>b, <2>0 DEF Coming
<1>16. CASE UNCHANGED vars
  <2>0. UNCHANGED <<text, row, analysis, batch, members, fan, missed>>
    BY <1>16 DEF vars, jobVars, doneVars, teamVars
  <2> QED BY <1>a, <1>b, <2>0 DEF Coming
<1> QED BY <1>1, <1>3, <1>4, <1>5, <1>6, <1>7, <1>8, <1>9, <1>10, <1>11, <1>12, <1>13, <1>14,
           <1>15, <1>16 DEF Next, FanStep
-----------------------------------------------------------------------------
LEMMA InitHolds == Init => IInv
<1> SUFFICES ASSUME Init PROVE IInv
  OBVIOUS
<1>0. owner \in People \cup {Nobody}
  BY PeopleAssumption DEF Init
<1>1. Sessions = {}
  BY DEF Init, Sessions, NoBatch
<1>2. TypeOK /\ LockedType
  <2>1. batch \in [Batches -> [by : People \cup {Nobody}, scope : Scopes, to : SUBSET People]]
        /\ \A b \in Batches : batch[b] = NoBatch
    BY DEF Init, NoBatch, Scopes
  <2>2. members \in [Spaces -> SUBSET People]
        /\ locked \in [Spaces -> SUBSET People] /\ \A s \in Spaces : locked[s] \subseteq members[s]
    BY SettingsAssumption DEF Init
  <2>3. fan \in [Fans -> [at : {"none", "text", "grants", "ask"}, to : SUBSET People]]
    BY DEF Init, NoFan
  <2> QED BY <2>1, <2>2, <2>3 DEF Init, TypeOK, LockedType, Viewers, Scopes, Defaults, NoBatch
<1>3. BatchOK
  BY <1>1 DEF Init, BatchOK
<1>4. ReachOK
  BY <1>0 DEF Init, ReachOK, Viewers, Sees, NoFan
<1>5. MissOK
  BY DEF Init, MissOK, NoFan
<1>6. MeetOK
  BY DEF Init, MeetOK, Wants
<1> QED BY <1>2, <1>3, <1>4, <1>5, <1>6 DEF IInv
-----------------------------------------------------------------------------
LEMMA NextInv == IInv /\ [Next]_vars => IInv'
<1> SUFFICES ASSUME IInv, [Next]_vars PROVE IInv'
  OBVIOUS
<1>1. TypeInv /\ BatchOK /\ ReachOK /\ MissOK /\ MeetOK
  BY DEF IInv, TypeInv
<1>2. TypeInv' /\ BatchOK' /\ ReachOK' /\ MissOK' /\ MeetOK'
  BY <1>1, TypeStep, BatchStep, ReachStep, MissStep, MeetStep
<1> QED BY <1>2 DEF IInv, TypeInv

LEMMA Invariance == Spec => []IInv
  BY InitHolds, NextInv, PTL DEF Spec

\* Rows, shares, teams and fan-outs keep their type (job_add_batches.py,
\* auto_prepare_service.py).
THEOREM Typing == Spec => []TypeOK
  BY Invariance, PTL DEF IInv

\* However a job is shared and teams change, the check for many and the map of
\* scopes say who sees it as the clause does (users_who_can_see_job,
\* job_visibility_map, job_share_visibility_clause).
THEOREM Sight == Spec => []SightAgrees
<1>1. IInv => SightAgrees
  BY SightHolds DEF IInv
<1> QED BY <1>1, Invariance, PTL

\* Nobody is scored who could never see the job and did not add it, whatever a
\* fan-out read before a share was taken back (fanout_auto_prepare_for_job).
THEOREM Reached == Spec => []OnlyReached
<1>1. IInv => OnlyReached
  BY DEF IInv, ReachOK, OnlyReached
<1> QED BY <1>1, Invariance, PTL

\* A share and a text that come at the same time miss nobody between them, in any
\* interleaving of any number of fan-outs (fanout_shared_batch, extract_job).
THEOREM Meeting == Spec => []FanoutsMeet
<1>1. ASSUME IInv PROVE FanoutsMeet
  <2>1. ASSUME NEW p \in People, NEW f \in Fans, fan[f] = NoFan PROVE ~Coming(f, p)
    BY <2>1 DEF Coming, NoFan
  <2> QED BY <1>1, <2>1 DEF IInv, MeetOK, FanoutsMeet
<1> QED BY <1>1, Invariance, PTL
-----------------------------------------------------------------------------
(* The teams. *)

Sent == \A r \in Requests :
          req[r].op \in {"answer", "accept"} => invites[req[r].invite] # Unsent

Joining == \A r \in Requests : req[r].op = "accept" =>
             /\ lead[req[r].space] # req[r].who
             /\ Isopen(req[r].space) \/ req[r].space \in closed

TeamInv == TeamsTypeOK /\ Sent /\ Joining

AnInvite == [space : Teams, to : Accounts,
             status : {"pending", "accepted", "declined", "revoked", "gone"}]

\* What requests of each kind hold.
LEMMA Fields ==
  ASSUME NEW q \in Request \cup {Idle}
  PROVE  /\ q.op = "invite" => q.space \in Teams /\ q.who \in Accounts
         /\ q.op = "policy" => q.space \in Teams /\ q.read \in Policies /\ q.new \in Policies
         /\ q.op = "answer" => q.invite \in Invites /\ q.status \in {"revoked", "declined"}
         /\ q.op = "choose" => q.who \in Accounts /\ q.share \in ShareDefaults
         /\ q.op = "sharing" => /\ q.space \in Teams /\ q.who \in Accounts /\ q.share \in ShareDefaults
                                /\ q.lock \in BOOLEAN
         /\ q.op = "accept" => /\ q.invite \in Invites /\ q.space \in Teams
                               /\ q.who \in Accounts /\ q.share \in ShareDefaults /\ q.lock \in BOOLEAN
  BY DEF Request, Idle

\* A request that is taken up changes nothing else.
LEMMA AskKeeps ==
  ASSUME TeamInv, NEW r \in Requests, NEW q \in Request, Begin(r, q),
         q.op \in {"answer", "accept"} => invites[q.invite] # Unsent,
         q.op = "accept" => lead[q.space] # q.who /\ Isopen(q.space)
  PROVE  TeamInv'
<1>1. req' \in [Requests -> Request \cup {Idle}]
  BY DEF Begin, TeamInv, TeamsTypeOK
<1>2. UNCHANGED <<lead, closed, default, teamRows, teamPins, share, invites>>
  BY DEF Begin, spaceVars, staffVars
<1>3. req' = [req EXCEPT ![r] = q] /\ req \in [Requests -> Request \cup {Idle}]
  BY DEF Begin, TeamInv, TeamsTypeOK
<1>4. TeamsTypeOK'
  BY <1>1, <1>2 DEF TeamInv, TeamsTypeOK
<1>5. Sent'
  BY <1>2, <1>3 DEF TeamInv, Sent
<1>6. Joining'
  BY <1>2, <1>3 DEF TeamInv, Joining, Isopen
<1> QED BY <1>4, <1>5, <1>6 DEF TeamInv

LEMMA CloseKeeps ==
  ASSUME TeamsTypeOK, NEW r \in Requests, Close(r)
  PROVE  /\ req' \in [Requests -> Request \cup {Idle}]
         /\ \A n \in Requests : req'[n] = req[n] \/ req'[n].op = "none"
  BY DEF Close, TeamsTypeOK, Idle

\* Requests that are still open hold what they held; invitations stay sent.
LEMMA SentKeeps ==
  ASSUME Sent, \A n \in Requests : req'[n] = req[n] \/ req'[n].op = "none",
         \A i : invites[i] # Unsent => invites'[i] # Unsent
  PROVE  Sent'
  BY DEF Sent

LEMMA JoiningKeeps ==
  ASSUME Joining, \A n \in Requests : req'[n] = req[n] \/ req'[n].op = "none",
         UNCHANGED <<lead, closed>>
  PROVE  Joining'
  BY DEF Joining, Isopen

LEMMA FailKeeps ==
  ASSUME TeamInv, NEW r \in Requests, Fail(r)
  PROVE  TeamInv'
<1>1. UNCHANGED <<lead, closed, default, teamRows, teamPins, share, invites>> /\ Close(r)
  BY DEF Fail, spaceVars, staffVars
<1>2. TeamsTypeOK'
  BY <1>1, CloseKeeps DEF TeamInv, TeamsTypeOK
<1>3. Sent' /\ Joining'
  BY <1>1, CloseKeeps, SentKeeps, JoiningKeeps DEF TeamInv
<1> QED BY <1>2, <1>3 DEF TeamInv
-----------------------------------------------------------------------------
LEMMA TeamInit == TeamsInit => TeamInv
<1> SUFFICES ASSUME TeamsInit PROVE TeamInv
  OBVIOUS
<1>1. TeamsTypeOK
  BY TeamAssumption DEF TeamsInit, TeamsTypeOK, Policies
<1>2. Sent /\ Joining
  BY DEF TeamsInit, Idle, Sent, Joining
<1> QED BY <1>1, <1>2 DEF TeamInv

LEMMA AnswerStep ==
  ASSUME TeamInv, NEW r \in Requests, NEW i \in Invites, NEW status \in {"revoked", "declined"},
         invites[i] # Unsent, Begin(r, [op |-> "answer", invite |-> i, status |-> status])
  PROVE  TeamInv'
<1> DEFINE q == [op |-> "answer", invite |-> i, status |-> status]
<1>1. q \in Request /\ Begin(r, q) /\ q.op = "answer" /\ q.invite = i
  BY DEF Request
<1> HIDE DEF q
<1> QED BY <1>1, AskKeeps

LEMMA AskStep ==
  ASSUME TeamInv, NEW r \in Requests, NEW u \in Accounts,
         \/ \E s \in Teams : AskInvite(r, s, u)
         \/ \E s \in Teams, scope \in ShareDefaults \cup {NoScope}, lock \in BOOLEAN :
              AskSharing(r, s, u, scope, lock)
         \/ \E i \in Invites : AskAccept(r, u, i) \/ AskDecline(r, u, i)
         \/ \E scope \in ShareDefaults : AskChoose(r, u, scope)
  PROVE  TeamInv'
<1>1. CASE \E s \in Teams : AskInvite(r, s, u)
  <2>1. PICK s \in Teams : AskInvite(r, s, u)
    BY <1>1
  <2> DEFINE q == [op |-> "invite", space |-> s, who |-> u]
  <2>2. q \in Request /\ Begin(r, q) /\ q.op = "invite"
    BY <2>1 DEF AskInvite, AskInviteIf, Request
  <2> HIDE DEF q
  <2> QED BY <2>2, AskKeeps
<1>2. CASE \E s \in Teams, scope \in ShareDefaults \cup {NoScope}, lock \in BOOLEAN :
             AskSharing(r, s, u, scope, lock)
  <2>1. PICK s \in Teams, scope \in ShareDefaults \cup {NoScope}, lock \in BOOLEAN :
          AskSharing(r, s, u, scope, lock)
    BY <1>2
  <2> DEFINE q == [op |-> "sharing", space |-> s, who |-> u, read |-> share[u],
                   share |-> IF scope = NoScope THEN share[u] ELSE scope,
                   wasLocked |-> <<s, u>> \in teamPins, lock |-> lock]
  <2>2. q \in [op : {"sharing"}, space : Teams, who : Accounts, read : ShareDefaults, share : ShareDefaults,
               wasLocked : BOOLEAN, lock : BOOLEAN]
    BY DEF TeamInv, TeamsTypeOK
  <2>3. q \in Request /\ Begin(r, q) /\ q.op = "sharing"
    BY <2>1, <2>2 DEF AskSharing, Request
  <2> HIDE DEF q
  <2> QED BY <2>3, AskKeeps
<1>3. ASSUME NEW i \in Invites, AskAccept(r, u, i) PROVE TeamInv'
  <2> DEFINE s == invites[i].space
             q == [op |-> "accept", invite |-> i, space |-> s, who |-> u,
                   member |-> <<s, u>> \in teamRows, read |-> share[u],
                   share |-> JoinShare(u, s),
                   lock |-> default[s].scope # NoScope /\ default[s].lock]
  <2>1. /\ invites[i] # Unsent /\ Isopen(s) /\ lead[s] # u /\ Begin(r, q)
    BY <1>3 DEF AskAccept, AskAcceptOf
  <2>2. s \in Teams
    BY <2>1 DEF TeamInv, TeamsTypeOK
  <2>3. JoinShare(u, s) \in ShareDefaults
    BY <2>2 DEF JoinShare, TeamInv, TeamsTypeOK, Policies
  <2>4. q \in [op : {"accept"}, invite : Invites, space : Teams, who : Accounts,
               member : BOOLEAN, read : ShareDefaults, share : ShareDefaults, lock : BOOLEAN]
    BY <2>2, <2>3 DEF TeamInv, TeamsTypeOK
  <2>5. q \in Request /\ q.op = "accept" /\ q.invite = i /\ q.space = s /\ q.who = u
    BY <2>4 DEF Request
  <2> HIDE DEF q, s
  <2> QED BY <2>1, <2>5, AskKeeps
<1>4. ASSUME NEW i \in Invites, AskDecline(r, u, i) PROVE TeamInv'
  <2>1. invites[i] # Unsent /\ Begin(r, [op |-> "answer", invite |-> i, status |-> "declined"])
    BY <1>4 DEF AskDecline, Unsent
  <2>2. "declined" \in {"revoked", "declined"}
    OBVIOUS
  <2> QED BY <2>1, <2>2, AnswerStep
<1>5. CASE \E scope \in ShareDefaults : AskChoose(r, u, scope)
  <2>1. PICK scope \in ShareDefaults : AskChoose(r, u, scope)
    BY <1>5
  <2> DEFINE q == [op |-> "choose", who |-> u, read |-> share[u], share |-> scope]
  <2>2. q \in Request /\ Begin(r, q) /\ q.op = "choose"
    BY <2>1 DEF AskChoose, AskChooseIf, Request, TeamInv, TeamsTypeOK
  <2> HIDE DEF q
  <2> QED BY <2>2, AskKeeps
<1> QED BY <1>1, <1>2, <1>3, <1>4, <1>5

LEMMA LeadStep ==
  ASSUME TeamInv, NEW r \in Requests,
         \/ \E s \in Teams, d \in Policies : AskPolicy(r, s, d)
         \/ \E i \in Invites : AskRevoke(r, i)
  PROVE  TeamInv'
<1>1. CASE \E s \in Teams, d \in Policies : AskPolicy(r, s, d)
  <2>1. PICK s \in Teams, d \in Policies : AskPolicy(r, s, d)
    BY <1>1
  <2> DEFINE q == [op |-> "policy", space |-> s, read |-> default[s], new |-> d]
  <2>2. q \in Request /\ Begin(r, q) /\ q.op = "policy"
    BY <2>1 DEF AskPolicy, Request, TeamInv, TeamsTypeOK
  <2> HIDE DEF q
  <2> QED BY <2>2, AskKeeps
<1>2. ASSUME NEW i \in Invites, AskRevoke(r, i) PROVE TeamInv'
  <2>1. invites[i] # Unsent /\ Begin(r, [op |-> "answer", invite |-> i, status |-> "revoked"])
    BY <1>2 DEF AskRevoke, Unsent
  <2>2. "revoked" \in {"revoked", "declined"}
    OBVIOUS
  <2> QED BY <2>1, <2>2, AnswerStep
<1> QED BY <1>1, <1>2
-----------------------------------------------------------------------------
\* An answer to an invitation that was sent keeps the table's type.
LEMMA AnswerType ==
  ASSUME TeamsTypeOK, NEW i \in Invites, invites[i] # Unsent,
         NEW status \in {"accepted", "declined", "revoked"}, Answered(i, status)
  PROVE  /\ invites' \in [Invites -> {Unsent} \cup AnInvite]
         /\ \A n : invites[n] # Unsent => invites'[n] # Unsent
<1>1. invites[i] \in AnInvite
  BY DEF TeamsTypeOK, AnInvite
<1>2. [invites[i] EXCEPT !.status = status] \in AnInvite
  BY <1>1 DEF AnInvite
<1>3. invites' = [invites EXCEPT ![i] = [invites[i] EXCEPT !.status = status]]
  BY DEF Answered
<1>4. \A x \in AnInvite : x # Unsent
  BY DEF AnInvite, Unsent
<1>5. invites \in [Invites -> {Unsent} \cup AnInvite]
  BY DEF TeamsTypeOK, AnInvite
<1> QED BY <1>2, <1>3, <1>4, <1>5

LEMMA WriteType ==
  ASSUME TeamsTypeOK, NEW q, q.who \in Accounts, q.share \in ShareDefaults, WriteShare(q)
  PROVE  share' \in [Accounts -> ShareDefaults]
  BY DEF TeamsTypeOK, WriteShare

LEMMA SpaceStep ==
  ASSUME TeamInv, NEW s \in Teams,
         \/ \E u \in Accounts : CreateSpace(u, s) \/ RemoveMember(s, u)
         \/ DeleteSpace(s)
  PROVE  TeamInv'
<1>1. ASSUME NEW u \in Accounts, CreateSpace(u, s) PROVE TeamInv'
  <2>1. /\ lead' = [lead EXCEPT ![s] = u] /\ lead[s] = NoAccount /\ s \notin closed
        /\ UNCHANGED <<closed, default, teamRows, teamPins, share, invites, req>>
    BY <1>1 DEF CreateSpace, Isopen, staffVars
  <2>2. TeamsTypeOK'
    BY <2>1 DEF TeamInv, TeamsTypeOK
  <2>3. Sent'
    BY <2>1 DEF TeamInv, Sent
  <2>4. ASSUME NEW r \in Requests, req'[r].op = "accept"
        PROVE  /\ lead'[req'[r].space] # req'[r].who
               /\ lead'[req'[r].space] # NoAccount \/ req'[r].space \in closed'
    <3> DEFINE q == req[r]
    <3>1. q \in Request \cup {Idle} /\ q.op = "accept" /\ req'[r] = q
      BY <2>1, <2>4 DEF TeamInv, TeamsTypeOK
    <3>2. q.space \in Teams /\ lead[q.space] # q.who
          /\ (lead[q.space] # NoAccount \/ q.space \in closed)
      BY <3>1, Fields DEF TeamInv, Joining, Isopen
    <3>3. q.space # s /\ lead'[q.space] = lead[q.space]
      BY <2>1, <3>2 DEF TeamInv, TeamsTypeOK
    <3> QED BY <2>1, <3>1, <3>2, <3>3 DEF Isopen
  <2>5. Joining'
    BY <2>4 DEF Joining, Isopen
  <2> QED BY <2>2, <2>3, <2>5 DEF TeamInv
<1>2. ASSUME NEW u \in Accounts, RemoveMember(s, u) PROVE TeamInv'
  <2>1. /\ teamRows' \subseteq teamRows /\ teamPins' \subseteq teamPins
        /\ UNCHANGED <<lead, closed, default, share, invites, req>>
    BY <1>2 DEF RemoveMember, spaceVars
  <2>2. TeamsTypeOK'
    BY <2>1 DEF TeamInv, TeamsTypeOK
  <2> QED BY <2>1, <2>2 DEF TeamInv, Sent, Joining, Isopen
<1>3. CASE DeleteSpace(s)
  <2>1. /\ lead' = [lead EXCEPT ![s] = NoAccount] /\ closed' = closed \cup {s}
        /\ teamRows' \subseteq teamRows /\ teamPins' \subseteq teamPins
        /\ UNCHANGED <<default, share, req>>
    BY <1>3 DEF DeleteSpace
  <2>2. ASSUME NEW i \in Invites
        PROVE  /\ invites'[i] \in {Unsent} \cup AnInvite
               /\ invites[i] # Unsent => invites'[i] # Unsent
    <3>1. invites'[i] = IF invites[i].space = s
                        THEN [invites[i] EXCEPT !.status = "gone"] ELSE invites[i]
      BY <1>3 DEF DeleteSpace
    <3>2. invites[i] = Unsent => invites[i].space # s
      BY TeamAssumption DEF Unsent
    <3>3. invites[i] \in {Unsent} \cup AnInvite
      BY DEF TeamInv, TeamsTypeOK, AnInvite
    <3>4. invites[i] \in AnInvite => [invites[i] EXCEPT !.status = "gone"] \in AnInvite
      BY DEF AnInvite
    <3>5. \A x \in AnInvite : x # Unsent
      BY DEF AnInvite, Unsent
    <3> QED BY <3>1, <3>2, <3>3, <3>4, <3>5
  <2>3. invites' \in [Invites -> {Unsent} \cup AnInvite]
    BY <1>3, <2>2 DEF DeleteSpace
  <2>4. TeamsTypeOK'
    BY <2>1, <2>3 DEF TeamInv, TeamsTypeOK, AnInvite
  <2>5. ASSUME NEW r \in Requests, req'[r].op \in {"answer", "accept"}
        PROVE  invites'[req'[r].invite] # Unsent
    <3>1. req[r].invite \in Invites
      BY <2>1, <2>5, Fields DEF TeamInv, TeamsTypeOK
    <3> QED BY <2>1, <2>2, <2>5, <3>1 DEF TeamInv, Sent
  <2>6. ASSUME NEW r \in Requests, req'[r].op = "accept"
        PROVE  /\ lead'[req'[r].space] # req'[r].who
               /\ lead'[req'[r].space] # NoAccount \/ req'[r].space \in closed'
    <3> DEFINE q == req[r]
    <3>1. q \in Request \cup {Idle} /\ q.op = "accept" /\ req'[r] = q
      BY <2>1, <2>6 DEF TeamInv, TeamsTypeOK
    <3>2. /\ q.space \in Teams /\ q.who \in Accounts /\ lead[q.space] # q.who
          /\ (lead[q.space] # NoAccount \/ q.space \in closed)
      BY <3>1, Fields DEF TeamInv, Joining, Isopen
    <3>3. lead'[q.space] = IF q.space = s THEN NoAccount ELSE lead[q.space]
      BY <2>1, <3>2 DEF TeamInv, TeamsTypeOK
    <3> QED BY <2>1, <3>1, <3>2, <3>3, TeamAssumption DEF Isopen
  <2>7. Sent' /\ Joining'
    BY <2>5, <2>6 DEF Sent, Joining, Isopen
  <2> QED BY <2>4, <2>7 DEF TeamInv
<1> QED BY <1>1, <1>2, <1>3

LEMMA RequestStep ==
  ASSUME TeamInv, NEW r \in Requests,
         \/ Policy(r) \/ Invite(r) \/ Sharing(r)
         \/ Accept(r) \/ Answer(r) \/ Choose(r)
  PROVE  TeamInv'
<1> DEFINE q == req[r]
<1>0. q \in Request \cup {Idle}
  BY DEF TeamInv, TeamsTypeOK
<1>1. CASE Fail(r)
  BY <1>1, FailKeeps
<1>2. ASSUME Close(r), UNCHANGED <<lead, closed>>, TeamsTypeOK',
             \A i : invites[i] # Unsent => invites'[i] # Unsent
      PROVE  TeamInv'
  BY <1>2, CloseKeeps, SentKeeps, JoiningKeeps DEF TeamInv
<1>3. CASE Policy(r) /\ ~Fail(r)
  <2>1. /\ q.op = "policy" /\ Close(r)
        /\ default' = [default EXCEPT ![q.space] =
             [f \in {"scope", "lock"} |-> IF q.new[f] = q.read[f] THEN @[f] ELSE q.new[f]]]
        /\ UNCHANGED <<lead, closed, teamRows, teamPins, share, invites>>
    BY <1>3 DEF Policy, staffVars
  <2>2. q.space \in Teams /\ q.new \in Policies /\ default[q.space] \in Policies
    BY <1>0, <2>1, Fields DEF TeamInv, TeamsTypeOK
  <2>3. [f \in {"scope", "lock"} |->
           IF q.new[f] = q.read[f] THEN default[q.space][f] ELSE q.new[f]] \in Policies
    BY <2>2 DEF Policies
  <2>4. default' \in [Teams -> Policies]
    BY <2>1, <2>2, <2>3 DEF TeamInv, TeamsTypeOK
  <2>5. TeamsTypeOK'
    BY <2>1, <2>4, CloseKeeps DEF TeamInv, TeamsTypeOK, AnInvite
  <2> QED BY <1>2, <2>1, <2>5
<1>4. CASE Invite(r) /\ ~Fail(r)
  <2>1. PICK i \in Invites :
          /\ q.op = "invite" /\ Close(r)
          /\ invites' = [invites EXCEPT ![i] =
               [space |-> q.space, to |-> q.who, status |-> "pending"]]
          /\ UNCHANGED <<lead, closed, default, teamRows, teamPins, share>>
    BY <1>4 DEF Invite, spaceVars, staffVars
  <2>2. [space |-> q.space, to |-> q.who, status |-> "pending"] \in AnInvite
    BY <1>0, <2>1, Fields DEF AnInvite
  <2>3. \A x \in AnInvite : x # Unsent
    BY DEF AnInvite, Unsent
  <2>4. invites' \in [Invites -> {Unsent} \cup AnInvite]
        /\ \A n : invites[n] # Unsent => invites'[n] # Unsent
    BY <2>1, <2>2, <2>3 DEF TeamInv, TeamsTypeOK, AnInvite
  <2>5. TeamsTypeOK'
    BY <2>1, <2>4, CloseKeeps DEF TeamInv, TeamsTypeOK, AnInvite
  <2> QED BY <1>2, <2>1, <2>4, <2>5
<1>5. CASE Sharing(r) /\ ~Fail(r)
  <2>1. /\ q.op = "sharing" /\ WriteShare(q) /\ Close(r)
        /\ teamPins' = IF q.lock = q.wasLocked THEN teamPins
                     ELSE IF q.lock THEN teamPins \cup {<<q.space, q.who>>}
                                    ELSE teamPins \ {<<q.space, q.who>>}
        /\ UNCHANGED <<lead, closed, default, teamRows, invites>>
    BY <1>5 DEF Sharing, spaceVars
  <2>2. q.space \in Teams /\ q.who \in Accounts /\ q.share \in ShareDefaults
    BY <1>0, <2>1, Fields
  <2>3. teamPins' \subseteq Teams \X Accounts
    BY <2>1, <2>2 DEF TeamInv, TeamsTypeOK
  <2>4. TeamsTypeOK'
    BY <2>1, <2>2, <2>3, CloseKeeps, WriteType DEF TeamInv, TeamsTypeOK, AnInvite
  <2> QED BY <1>2, <2>1, <2>4
<1>6. CASE Accept(r) /\ ~Fail(r)
  <2>1. /\ q.op = "accept" /\ Answered(q.invite, "accepted") /\ Close(r)
        /\ UNCHANGED <<lead, closed, default>>
        /\ \/ UNCHANGED <<teamRows, teamPins, share>>
           \/ /\ teamRows' = teamRows \cup {<<q.space, q.who>>}
              /\ teamPins' = IF q.lock THEN teamPins \cup {<<q.space, q.who>>} ELSE teamPins
              /\ WriteShare(q)
    BY <1>6 DEF Accept, JoinIf, spaceVars, staffVars
  <2>2. /\ q.space \in Teams /\ q.who \in Accounts /\ q.share \in ShareDefaults
        /\ q.invite \in Invites /\ invites[q.invite] # Unsent
    BY <1>0, <2>1, Fields DEF TeamInv, Sent
  <2>3. /\ invites' \in [Invites -> {Unsent} \cup AnInvite]
        /\ \A n : invites[n] # Unsent => invites'[n] # Unsent
    BY <2>1, <2>2, AnswerType DEF TeamInv
  <2>4. teamRows' \subseteq Teams \X Accounts /\ teamPins' \subseteq Teams \X Accounts
    BY <2>1, <2>2 DEF TeamInv, TeamsTypeOK
  <2>5. share' \in [Accounts -> ShareDefaults]
    BY <2>1, <2>2, WriteType DEF TeamInv, TeamsTypeOK
  <2>6. TeamsTypeOK'
    BY <2>1, <2>3, <2>4, <2>5, CloseKeeps DEF TeamInv, TeamsTypeOK, AnInvite
  <2> QED BY <1>2, <2>1, <2>3, <2>6
<1>7. CASE Answer(r) /\ ~Fail(r)
  <2>1. /\ q.op = "answer" /\ Answered(q.invite, q.status) /\ Close(r)
        /\ UNCHANGED <<lead, closed, default, teamRows, teamPins, share>>
    BY <1>7 DEF Answer, spaceVars, staffVars
  <2>2. /\ q.invite \in Invites /\ invites[q.invite] # Unsent
        /\ q.status \in {"accepted", "declined", "revoked"}
    BY <1>0, <2>1, Fields DEF TeamInv, Sent
  <2>3. /\ invites' \in [Invites -> {Unsent} \cup AnInvite]
        /\ \A n : invites[n] # Unsent => invites'[n] # Unsent
    BY <2>1, <2>2, AnswerType DEF TeamInv
  <2>4. TeamsTypeOK'
    BY <2>1, <2>3, CloseKeeps DEF TeamInv, TeamsTypeOK, AnInvite
  <2> QED BY <1>2, <2>1, <2>3, <2>4
<1>8. CASE Choose(r)
  <2>1. /\ q.op = "choose" /\ WriteShare(q) /\ Close(r)
        /\ UNCHANGED <<lead, closed, default, teamRows, teamPins, invites>>
    BY <1>8 DEF Choose, spaceVars, staffVars
  <2>2. q.who \in Accounts /\ q.share \in ShareDefaults
    BY <1>0, <2>1, Fields
  <2>3. TeamsTypeOK'
    BY <2>1, <2>2, CloseKeeps, WriteType DEF TeamInv, TeamsTypeOK, AnInvite
  <2> QED BY <1>2, <2>1, <2>3
<1> QED BY <1>1, <1>3, <1>4, <1>5, <1>6, <1>7, <1>8
-----------------------------------------------------------------------------
LEMMA TeamNext ==
  TeamInv /\ [TeamsNext]_allVars => TeamInv'
<1> SUFFICES ASSUME TeamInv, [TeamsNext]_allVars PROVE TeamInv'
  OBVIOUS
<1>1. CASE UNCHANGED allVars
  BY <1>1 DEF allVars, spaceVars, staffVars, TeamInv, TeamsTypeOK, Sent, Joining,
              Isopen
<1>2. CASE TeamsNext
  BY <1>2, SpaceStep, AskStep, LeadStep, RequestStep DEF TeamsNext
<1> QED BY <1>1, <1>2

LEMMA TeamInvariance ==
  TeamsSpec => []TeamInv
  BY TeamInit, TeamNext, PTL DEF TeamsSpec

\* The tables of spaces, people and invitations keep their type, whatever requests
\* read before others wrote (team_service.py).
THEOREM TeamTyping ==
  TeamsSpec => []TeamsTypeOK
  BY TeamInvariance, PTL DEF TeamInv
-----------------------------------------------------------------------------
\* Rows are added by Accept and Sharing only; a space is opened once.
LEMMA StaffKept ==
  ASSUME StaffOK, teamRows' \subseteq teamRows, teamPins' \subseteq teamPins \cap teamRows',
         UNCHANGED lead
  PROVE  StaffOK'
  BY DEF StaffOK, Isopen

LEMMA StaffStep ==
  ASSUME TeamInv, StaffOK, [TeamsNext]_allVars
  PROVE  StaffOK'
<1>1. CASE UNCHANGED <<lead, teamRows, teamPins>>
  BY <1>1 DEF StaffOK, Isopen
<1>2. ASSUME NEW u \in Accounts, NEW s \in Teams, CreateSpace(u, s) PROVE StaffOK'
  <2>1. /\ lead' = [lead EXCEPT ![s] = u] /\ lead[s] = NoAccount
        /\ UNCHANGED <<teamRows, teamPins>>
    BY <1>2 DEF CreateSpace, Isopen, staffVars
  <2>2. ASSUME NEW m \in teamRows PROVE lead'[m[1]] # NoAccount /\ lead'[m[1]] # m[2]
    BY <2>1 DEF StaffOK, Isopen, TeamInv, TeamsTypeOK
  <2> QED BY <2>1, <2>2 DEF StaffOK, Isopen
<1>3. ASSUME NEW s \in Teams, DeleteSpace(s) PROVE StaffOK'
  <2>1. /\ lead' = [lead EXCEPT ![s] = NoAccount]
        /\ teamRows' = {m \in teamRows : m[1] # s} /\ teamPins' = {m \in teamPins : m[1] # s}
    BY <1>3 DEF DeleteSpace
  <2>2. ASSUME NEW m \in teamRows' PROVE lead'[m[1]] # NoAccount /\ lead'[m[1]] # m[2]
    BY <2>1 DEF StaffOK, Isopen, TeamInv, TeamsTypeOK
  <2> QED BY <2>1, <2>2 DEF StaffOK, Isopen
<1>4. ASSUME NEW u \in Accounts, NEW s \in Teams, RemoveMember(s, u) PROVE StaffOK'
  BY <1>4, StaffKept DEF RemoveMember, spaceVars, StaffOK
<1>5. ASSUME NEW r \in Requests, Sharing(r) PROVE StaffOK'
  <2> DEFINE m == <<req[r].space, req[r].who>>
  <2>1. /\ UNCHANGED <<lead, teamRows>>
        /\ teamPins' \subseteq teamPins \/ (m \in teamRows /\ teamPins' = teamPins \cup {m})
    BY <1>5 DEF Sharing, Fail, spaceVars, staffVars
  <2> QED BY <2>1 DEF StaffOK, Isopen
<1>6. ASSUME NEW r \in Requests, Accept(r) PROVE StaffOK'
  <2> DEFINE m == <<req[r].space, req[r].who>>
  <2>1. CASE UNCHANGED <<lead, teamRows, teamPins>>
    BY <2>1, <1>1
  <2>2. CASE ~UNCHANGED <<lead, teamRows, teamPins>>
    <3>1. /\ req[r].op = "accept" /\ Isopen(req[r].space) /\ UNCHANGED lead
          /\ teamRows' = teamRows \cup {m} /\ teamPins' \subseteq teamPins \cup {m}
      BY <1>6, <2>2 DEF Accept, JoinIf, Fail, spaceVars, staffVars
    <3>2. lead[m[1]] # m[2] /\ Isopen(m[1])
      BY <3>1 DEF TeamInv, Joining
    <3> QED BY <3>1, <3>2 DEF StaffOK, Isopen
  <2> QED BY <2>1, <2>2
<1>7. ASSUME NEW r \in Requests, NEW q, Begin(r, q) PROVE StaffOK'
  BY <1>7, <1>1 DEF Begin, spaceVars, staffVars
<1>8. ASSUME NEW r \in Requests, NEW u \in Accounts,
             \/ \E s \in Teams : AskInvite(r, s, u)
             \/ \E s \in Teams, scope \in ShareDefaults \cup {NoScope}, lock \in BOOLEAN :
                  AskSharing(r, s, u, scope, lock)
             \/ \E i \in Invites : AskAccept(r, u, i) \/ AskDecline(r, u, i)
             \/ \E scope \in ShareDefaults : AskChoose(r, u, scope)
      PROVE  StaffOK'
  <2>1. PICK q : Begin(r, q)
    BY <1>8 DEF AskInvite, AskInviteIf, AskSharing, AskAccept,
                AskAcceptOf, AskDecline,
                AskChoose, AskChooseIf
  <2> QED BY <2>1, <1>7
<1>9. ASSUME NEW r \in Requests, (\E s \in Teams, d \in Policies : AskPolicy(r, s, d))
                                \/ \E i \in Invites : AskRevoke(r, i)
      PROVE  StaffOK'
  <2>1. PICK q : Begin(r, q)
    BY <1>9 DEF AskPolicy, AskRevoke
  <2> QED BY <2>1, <1>7
<1>10. ASSUME NEW r \in Requests, Policy(r) \/ Invite(r) \/ Answer(r) \/ Choose(r)
       PROVE  StaffOK'
  BY <1>10, <1>1 DEF Policy, Invite, Answer, Choose, Fail,
                     spaceVars, staffVars
<1>11. CASE UNCHANGED allVars
  BY <1>11, <1>1 DEF allVars, spaceVars, staffVars
<1> QED BY <1>2, <1>3, <1>4, <1>5, <1>6, <1>8, <1>9, <1>10, <1>11 DEF TeamsNext

\* However many requests interleave, the members and pins that are left belong to
\* open spaces, a pin is a member's, and a lead is not a member (respond_invite,
\* update_member_sharing, delete_space).
THEOREM Staff ==
  TeamsSpec => []StaffOK
<1>1. TeamsInit => StaffOK
  BY DEF TeamsInit, StaffOK
<1>2. TeamInv /\ StaffOK /\ [TeamsNext]_allVars => StaffOK'
  BY StaffStep
<1> QED BY <1>1, <1>2, TeamInvariance, PTL DEF TeamsSpec
-----------------------------------------------------------------------------
(* One request at a time, while spaces open and close around it. *)

OneRequest == \A r, q \in Requests : r = q

\* What request q read is still true of invitations, deleted spaces and pins,
\* unless its space is gone.
TrueYet(q, sent, gone, pins) ==
  /\ q.op = "invite" =>
       \A i \in Invites : ~(sent[i].space = q.space /\ sent[i].to = q.who /\ sent[i].status = "pending")
  /\ q.op = "accept" =>
       /\ sent[q.invite].space = q.space /\ sent[q.invite].to = q.who
       /\ sent[q.invite].status = "pending" \/ q.space \in gone
  /\ q.op \in {"accept", "choose"} /\ (\E s \in Teams : <<s, q.who>> \in pins) => q.share = q.read

StillTrue == \A r \in Requests : TrueYet(req[r], invites, closed, teamPins)

\* A space that was deleted stays so.
ClosedForGood == \A s \in closed : lead[s] = NoAccount

Promised == ClosedForGood /\ StillTrue /\ NoDoubleInvite

\* Invitations that are pending were so before.
LEMMA NoneInvited ==
  ASSUME NoDoubleInvite,
         \A i \in Invites : invites'[i].status = "pending" => invites'[i] = invites[i]
  PROVE  NoDoubleInvite'
  BY DEF NoDoubleInvite, Pending

\* The only request is answered.
LEMMA AllAnswered ==
  ASSUME OneRequest, TeamInv, NEW r \in Requests, Close(r)
  PROVE  StillTrue'
<1>1. \A n \in Requests : req'[n].op = "none"
  BY DEF OneRequest, Close, TeamInv, TeamsTypeOK, Idle
<1> QED BY <1>1 DEF StillTrue, TrueYet

LEMMA AskPromised ==
  ASSUME TeamInv, Promised, NEW r \in Requests, NEW q, Begin(r, q),
         TrueYet(q, invites, closed, teamPins)
  PROVE  Promised' /\ share' = share /\ teamRows' = teamRows
<1>1. /\ UNCHANGED <<lead, closed, teamRows, teamPins, share, invites>>
      /\ req' = [req EXCEPT ![r] = q]
  BY DEF Begin, spaceVars, staffVars
<1>2. \A n \in Requests : req'[n] = IF n = r THEN q ELSE req[n]
  BY <1>1 DEF TeamInv, TeamsTypeOK
<1>3. StillTrue'
  BY <1>1, <1>2 DEF Promised, StillTrue
<1>4. ClosedForGood' /\ NoDoubleInvite'
  BY <1>1, NoneInvited DEF Promised, ClosedForGood
<1> QED BY <1>1, <1>3, <1>4 DEF Promised

\* Every way to take up a request reads what its answer relies on.
LEMMA TakenUp ==
  ASSUME TeamInv, Promised, NEW r \in Requests,
         \/ \E u \in Accounts :
              \/ \E s \in Teams : AskInvite(r, s, u)
              \/ \E s \in Teams, scope \in ShareDefaults \cup {NoScope}, lock \in BOOLEAN :
                   AskSharing(r, s, u, scope, lock)
              \/ \E i \in Invites : AskAccept(r, u, i) \/ AskDecline(r, u, i)
              \/ \E scope \in ShareDefaults : AskChoose(r, u, scope)
         \/ \E s \in Teams, d \in Policies : AskPolicy(r, s, d)
         \/ \E i \in Invites : AskRevoke(r, i)
  PROVE  Promised' /\ share' = share /\ teamRows' = teamRows
<1>1. ASSUME NEW q, Begin(r, q), q.op \in {"sharing", "answer", "policy"}
      PROVE  Promised' /\ share' = share /\ teamRows' = teamRows
  BY <1>1, AskPromised DEF TrueYet
<1>2. ASSUME NEW s \in Teams, NEW u \in Accounts, AskInvite(r, s, u)
      PROVE  Promised' /\ share' = share /\ teamRows' = teamRows
  <2> DEFINE q == [op |-> "invite", space |-> s, who |-> u]
  <2>1. Begin(r, q) /\ \A i \in Pending(s) : invites[i].to # u
    BY <1>2 DEF AskInvite, AskInviteIf
  <2>2. TrueYet(q, invites, closed, teamPins)
    BY <2>1 DEF TrueYet, Pending
  <2> HIDE DEF q
  <2> QED BY <2>1, <2>2, AskPromised
<1>3. ASSUME NEW u \in Accounts, NEW i \in Invites, AskAccept(r, u, i)
      PROVE  Promised' /\ share' = share /\ teamRows' = teamRows
  <2> DEFINE s == invites[i].space
             q == [op |-> "accept", invite |-> i, space |-> s, who |-> u,
                   member |-> <<s, u>> \in teamRows, read |-> share[u],
                   share |-> JoinShare(u, s),
                   lock |-> default[s].scope # NoScope /\ default[s].lock]
  <2>1. Begin(r, q) /\ invites[i].to = u /\ invites[i].status = "pending"
    BY <1>3 DEF AskAccept, AskAcceptOf
  <2>2. IsPinned(u) => JoinShare(u, s) = share[u]
    BY DEF JoinShare
  <2>3. TrueYet(q, invites, closed, teamPins)
    BY <2>1, <2>2 DEF TrueYet, IsPinned
  <2> HIDE DEF q
  <2> QED BY <2>1, <2>3, AskPromised
<1>4. ASSUME NEW u \in Accounts, NEW scope \in ShareDefaults, AskChoose(r, u, scope)
      PROVE  Promised' /\ share' = share /\ teamRows' = teamRows
  <2> DEFINE q == [op |-> "choose", who |-> u, read |-> share[u], share |-> scope]
  <2>1. Begin(r, q) /\ (IsPinned(u) => scope = share[u])
    BY <1>4 DEF AskChoose, AskChooseIf
  <2>2. TrueYet(q, invites, closed, teamPins)
    BY <2>1 DEF TrueYet, IsPinned
  <2> HIDE DEF q
  <2> QED BY <2>1, <2>2, AskPromised
<1>5. ASSUME NEW u \in Accounts, NEW s \in Teams, NEW scope \in ShareDefaults \cup {NoScope},
             NEW lock \in BOOLEAN, AskSharing(r, s, u, scope, lock)
      PROVE  Promised' /\ share' = share /\ teamRows' = teamRows
  BY <1>1, <1>5 DEF AskSharing
<1>6. ASSUME NEW u \in Accounts, NEW i \in Invites, AskDecline(r, u, i) \/ AskRevoke(r, i)
      PROVE  Promised' /\ share' = share /\ teamRows' = teamRows
  BY <1>1, <1>6 DEF AskDecline, AskRevoke
<1>7. ASSUME NEW s \in Teams, NEW d \in Policies, AskPolicy(r, s, d)
      PROVE  Promised' /\ share' = share /\ teamRows' = teamRows
  BY <1>1, <1>7 DEF AskPolicy
<1>8. ASSUME NEW i \in Invites, AskRevoke(r, i)
      PROVE  Promised' /\ share' = share /\ teamRows' = teamRows
  BY <1>1, <1>8 DEF AskRevoke
<1> QED BY <1>2, <1>3, <1>4, <1>5, <1>6, <1>7, <1>8

LEMMA SpacesPromised ==
  ASSUME TeamInv, Promised, NEW s \in Teams,
         \/ \E u \in Accounts : CreateSpace(u, s) \/ RemoveMember(s, u)
         \/ DeleteSpace(s)
  PROVE  Promised' /\ share' = share /\ teamRows' \subseteq teamRows
<1>1. ASSUME NEW u \in Accounts, CreateSpace(u, s)
      PROVE  Promised' /\ share' = share /\ teamRows' \subseteq teamRows
  <2>1. /\ lead' = [lead EXCEPT ![s] = u] /\ s \notin closed
        /\ UNCHANGED <<closed, teamRows, teamPins, share, invites, req>>
    BY <1>1 DEF CreateSpace, staffVars
  <2>2. ClosedForGood'
    BY <2>1 DEF Promised, ClosedForGood, TeamInv, TeamsTypeOK
  <2> QED BY <2>1, <2>2, NoneInvited DEF Promised, StillTrue
<1>2. ASSUME NEW u \in Accounts, RemoveMember(s, u)
      PROVE  Promised' /\ share' = share /\ teamRows' \subseteq teamRows
  <2>1. /\ teamRows' \subseteq teamRows /\ teamPins' \subseteq teamPins
        /\ UNCHANGED <<lead, closed, share, invites, req>>
    BY <1>2 DEF RemoveMember, spaceVars
  <2>2. StillTrue'
    BY <2>1 DEF Promised, StillTrue, TrueYet
  <2> QED BY <2>1, <2>2, NoneInvited DEF Promised, ClosedForGood
<1>3. CASE DeleteSpace(s)
  <2>1. /\ lead' = [lead EXCEPT ![s] = NoAccount] /\ closed' = closed \cup {s}
        /\ teamRows' \subseteq teamRows /\ teamPins' \subseteq teamPins
        /\ invites' = [i \in Invites |-> IF invites[i].space = s
                         THEN [invites[i] EXCEPT !.status = "gone"] ELSE invites[i]]
        /\ UNCHANGED <<share, req>>
    BY <1>3 DEF DeleteSpace
  <2>2. ClosedForGood'
    BY <2>1 DEF Promised, ClosedForGood, TeamInv, TeamsTypeOK
  <2>3. ASSUME NEW i \in Invites
        PROVE  \/ invites'[i] = invites[i] /\ invites[i].space # s
               \/ /\ invites[i].space = s /\ invites'[i].space = s /\ invites'[i].to = invites[i].to
                  /\ invites'[i].status = "gone"
    <3>1. invites[i].space = s => invites[i] \in AnInvite
      BY TeamAssumption DEF TeamInv, TeamsTypeOK, AnInvite, Unsent
    <3>2. invites[i] \in AnInvite =>
            LET x == [invites[i] EXCEPT !.status = "gone"] IN
            x.space = invites[i].space /\ x.to = invites[i].to /\ x.status = "gone"
      BY DEF AnInvite
    <3> QED BY <2>1, <3>1, <3>2
  <2>4. NoDoubleInvite'
    BY <2>3, NoneInvited DEF Promised
  <2>5. ASSUME NEW r \in Requests PROVE TrueYet(req[r], invites', closed', teamPins')
    <3> DEFINE q == req[r]
    <3>1. TrueYet(q, invites, closed, teamPins) /\ q \in Request \cup {Idle}
      BY DEF Promised, StillTrue, TeamInv, TeamsTypeOK
    <3>2. q.op = "accept" => q.invite \in Invites
      BY <3>1, Fields
    <3> HIDE DEF q
    <3>3. q.op = "invite" => \A i \in Invites : ~(invites'[i].space = q.space /\ invites'[i].to = q.who
                                                  /\ invites'[i].status = "pending")
      BY <2>3, <3>1 DEF TrueYet
    <3>4. q.op = "accept" =>
            /\ invites'[q.invite].space = q.space /\ invites'[q.invite].to = q.who
            /\ invites'[q.invite].status = "pending" \/ q.space \in closed'
      BY <2>1, <2>3, <3>1, <3>2 DEF TrueYet
    <3>5. q.op \in {"accept", "choose"} /\ (\E t \in Teams : <<t, q.who>> \in teamPins') => q.share = q.read
      BY <2>1, <3>1 DEF TrueYet
    <3> QED BY <3>3, <3>4, <3>5 DEF TrueYet, q
  <2>6. StillTrue'
    BY <2>1, <2>5 DEF StillTrue
  <2> QED BY <2>1, <2>2, <2>4, <2>6 DEF Promised
<1> QED BY <1>1, <1>2, <1>3

\* What the answer to a request writes.
LEMMA AnswersPromised ==
  ASSUME OneRequest, TeamInv, Promised, NEW r \in Requests,
         \/ Policy(r) \/ Invite(r) \/ Sharing(r)
         \/ Accept(r) \/ Answer(r) \/ Choose(r)
  PROVE  /\ Promised'
         /\ teamRows' \subseteq teamRows \/
              /\ teamRows' = teamRows \cup {<<req[r].space, req[r].who>>}
              /\ invites[req[r].invite].space = req[r].space /\ invites[req[r].invite].to = req[r].who
              /\ invites[req[r].invite].status = "pending" /\ req[r].invite \in Invites
              /\ invites'[req[r].invite].status = "accepted"
         /\ \A u \in Accounts : IsPinned(u) /\ share'[u] # share[u] =>
              req[r].op = "sharing" /\ req[r].who = u /\ req'[r] = Idle
<1> DEFINE q == req[r]
<1>0. q \in Request \cup {Idle} /\ TrueYet(q, invites, closed, teamPins)
  BY DEF TeamInv, TeamsTypeOK, Promised, StillTrue
<1> DEFINE Quiet == teamRows' = teamRows /\ share' = share
           Same == \A i \in Invites : invites'[i].status = "pending" => invites'[i] = invites[i]
<1>1. Close(r) /\ UNCHANGED <<lead, closed>>
  BY DEF Policy, Invite, Sharing, Accept, JoinIf, Answer,
         Choose, Fail, spaceVars
<1>2. StillTrue' /\ ClosedForGood' /\ req'[r] = Idle
  BY <1>1, AllAnswered DEF Promised, ClosedForGood, Close, TeamInv, TeamsTypeOK
<1>3. ASSUME Same PROVE Promised'
  BY <1>2, <1>3, NoneInvited DEF Promised
<1>4. ASSUME NEW i \in Invites, NEW status \in {"accepted", "declined", "revoked"},
             invites[i] # Unsent, Answered(i, status)
      PROVE  Same /\ invites'[i].status = status
  <2>1. invites[i] \in AnInvite /\ invites' = [invites EXCEPT ![i] = [invites[i] EXCEPT !.status = status]]
    BY <1>4 DEF TeamInv, TeamsTypeOK, AnInvite, Answered
  <2>2. [invites[i] EXCEPT !.status = status].status = status
    BY <2>1 DEF AnInvite
  <2> QED BY <2>1, <2>2 DEF TeamInv, TeamsTypeOK
<1>5. ASSUME WriteShare(q), NEW u \in Accounts, share'[u] # share[u]
      PROVE  u = q.who /\ q.share # q.read
  BY <1>5 DEF WriteShare, TeamInv, TeamsTypeOK
<1>6. CASE Fail(r) \/ Policy(r)
  <2>1. Quiet /\ invites' = invites
    BY <1>6 DEF Policy, Fail, spaceVars, staffVars
  <2> QED BY <1>3, <2>1
<1>7. CASE Invite(r) /\ ~Fail(r)
  <2>1. PICK i \in Invites :
          /\ q.op = "invite" /\ invites[i] = Unsent
          /\ invites' = [invites EXCEPT ![i] = [space |-> q.space, to |-> q.who, status |-> "pending"]]
          /\ Quiet
    BY <1>7 DEF Invite, spaceVars, staffVars
  <2>2. \A n \in Invites : ~(invites[n].space = q.space /\ invites[n].to = q.who
                             /\ invites[n].status = "pending")
    BY <1>0, <2>1 DEF TrueYet
  <2>3. NoDoubleInvite'
    <3> SUFFICES ASSUME NEW m \in Invites, NEW n \in Invites, invites'[m].space = invites'[n].space,
                        invites'[m].status = "pending", invites'[n].status = "pending",
                        invites'[m].to = invites'[n].to
                 PROVE  m = n
      BY DEF NoDoubleInvite, Pending
    <3>1. \A k \in Invites : invites'[k] = IF k = i THEN [space |-> q.space, to |-> q.who, status |-> "pending"]
                                           ELSE invites[k]
      BY <2>1 DEF TeamInv, TeamsTypeOK
    <3>2. CASE m # i /\ n # i
      <4>1. /\ invites[m].space = invites[n].space /\ invites[m].to = invites[n].to
            /\ invites[m].status = "pending" /\ invites[n].status = "pending"
        BY <3>1, <3>2
      <4>2. invites[m].space \in Teams
        BY <4>1 DEF TeamInv, TeamsTypeOK, Unsent
      <4> QED BY <4>1, <4>2 DEF Promised, NoDoubleInvite, Pending
    <3>3. CASE m = i \/ n = i
      BY <2>2, <3>1, <3>3
    <3> QED BY <3>2, <3>3
  <2> QED BY <1>2, <2>1, <2>3 DEF Promised
<1>8. CASE Sharing(r) /\ ~Fail(r)
  <2>1. q.op = "sharing" /\ WriteShare(q) /\ teamRows' = teamRows /\ invites' = invites
    BY <1>8 DEF Sharing, spaceVars
  <2> QED BY <1>2, <1>3, <1>5, <2>1
<1>9. CASE Accept(r) /\ ~Fail(r)
  <2>1. /\ q.op = "accept" /\ Answered(q.invite, "accepted") /\ Isopen(q.space)
        /\ \/ Quiet
           \/ teamRows' = teamRows \cup {<<q.space, q.who>>} /\ WriteShare(q)
    BY <1>9 DEF Accept, JoinIf, spaceVars, staffVars
  <2>2. q.invite \in Invites /\ invites[q.invite] # Unsent /\ q.who \in Accounts
    BY <1>0, <2>1, Fields DEF TeamInv, Sent
  <2>3. Same /\ invites'[q.invite].status = "accepted"
    BY <1>4, <2>1, <2>2
  <2>4. q.space \notin closed
    BY <2>1 DEF Promised, ClosedForGood, Isopen
  <2>5. /\ invites[q.invite].space = q.space /\ invites[q.invite].to = q.who
        /\ invites[q.invite].status = "pending"
    BY <1>0, <2>1, <2>4 DEF TrueYet
  <2>6. \A u \in Accounts : share'[u] # share[u] => ~IsPinned(u)
    BY <1>0, <1>5, <2>1 DEF TrueYet, IsPinned
  <2> QED BY <1>3, <2>1, <2>2, <2>3, <2>5, <2>6
<1>10. CASE Answer(r) /\ ~Fail(r)
  <2>1. q.op = "answer" /\ Answered(q.invite, q.status) /\ Quiet
    BY <1>10 DEF Answer, spaceVars, staffVars
  <2>2. /\ q.invite \in Invites /\ invites[q.invite] # Unsent
        /\ q.status \in {"accepted", "declined", "revoked"}
    BY <1>0, <2>1, Fields DEF TeamInv, Sent
  <2> QED BY <1>3, <1>4, <2>1, <2>2
<1>11. CASE Choose(r)
  <2>1. q.op = "choose" /\ WriteShare(q) /\ teamRows' = teamRows /\ invites' = invites
    BY <1>11 DEF Choose, spaceVars, staffVars
  <2>2. \A u \in Accounts : share'[u] # share[u] => ~IsPinned(u)
    BY <1>0, <1>5, <2>1 DEF TrueYet, IsPinned
  <2> QED BY <1>3, <2>1, <2>2
<1> QED BY <1>6, <1>7, <1>8, <1>9, <1>10, <1>11

LEMMA PromisedStep ==
  ASSUME OneRequest, TeamInv, Promised, [TeamsNext]_allVars
  PROVE  /\ Promised'
         /\ \A m \in teamRows' \ teamRows :
              \E i \in Invites : /\ invites[i].space = m[1] /\ invites[i].to = m[2]
                                 /\ invites[i].status = "pending" /\ invites'[i].status = "accepted"
         /\ \A u \in Accounts : IsPinned(u) /\ share'[u] # share[u] =>
              \E r \in Requests : req[r].op = "sharing" /\ req[r].who = u /\ req'[r] = Idle
<1>1. CASE UNCHANGED allVars
  BY <1>1 DEF allVars, spaceVars, staffVars, Promised, ClosedForGood, StillTrue,
              NoDoubleInvite, Pending
<1>2. ASSUME NEW s \in Teams,
             (\E u \in Accounts : CreateSpace(u, s) \/ RemoveMember(s, u))
             \/ DeleteSpace(s)
      PROVE  Promised' /\ share' = share /\ teamRows' \subseteq teamRows
  BY <1>2, SpacesPromised
<1>3. ASSUME NEW r \in Requests,
             \/ \E u \in Accounts :
                  \/ \E s \in Teams : AskInvite(r, s, u)
                  \/ \E s \in Teams, scope \in ShareDefaults \cup {NoScope}, lock \in BOOLEAN :
                       AskSharing(r, s, u, scope, lock)
                  \/ \E i \in Invites : AskAccept(r, u, i) \/ AskDecline(r, u, i)
                  \/ \E scope \in ShareDefaults : AskChoose(r, u, scope)
             \/ \E s \in Teams, d \in Policies : AskPolicy(r, s, d)
             \/ \E i \in Invites : AskRevoke(r, i)
      PROVE  Promised' /\ share' = share /\ teamRows' = teamRows
  BY <1>3, TakenUp
<1>4. ASSUME NEW r \in Requests,
             \/ Policy(r) \/ Invite(r) \/ Sharing(r)
             \/ Accept(r) \/ Answer(r) \/ Choose(r)
      PROVE  /\ Promised'
             /\ \A m \in teamRows' \ teamRows :
                  \E i \in Invites : /\ invites[i].space = m[1] /\ invites[i].to = m[2]
                                     /\ invites[i].status = "pending" /\ invites'[i].status = "accepted"
             /\ \A u \in Accounts : IsPinned(u) /\ share'[u] # share[u] =>
                  req[r].op = "sharing" /\ req[r].who = u /\ req'[r] = Idle
  BY <1>4, AnswersPromised
<1> QED BY <1>1, <1>2, <1>3, <1>4 DEF TeamsNext

LEMMA PromisedAlways ==
  ASSUME OneRequest PROVE TeamsSpec => [](TeamInv /\ Promised)
<1>1. TeamsInit => Promised
  BY DEF TeamsInit, Promised, ClosedForGood, StillTrue, TrueYet, Idle, Unsent,
         NoDoubleInvite, Pending
<1>2. TeamInv /\ Promised /\ [TeamsNext]_allVars => Promised'
  BY PromisedStep
<1> QED BY <1>1, <1>2, TeamInvariance, PTL DEF TeamsSpec

\* One request at a time, an address has at most one open invitation to a space
\* (invite).
THEOREM InvitedOnce ==
  ASSUME OneRequest PROVE TeamsSpec => []NoDoubleInvite
<1>1. TeamInv /\ Promised => NoDoubleInvite
  BY DEF Promised
<1> QED BY <1>1, PromisedAlways, PTL

\* One request at a time, whoever joins a space was invited to it, and the
\* invitation was open (respond_invite), although the space may close meanwhile.
THEOREM JoinedByInvite ==
  ASSUME OneRequest PROVE TeamsSpec => JoinsByOpenInvite
<1> DEFINE Joins == \A m \in teamRows' \ teamRows :
                      \E i \in Invites : invites[i].space = m[1] /\ invites[i].to = m[2]
                                        /\ invites[i].status = "pending" /\ invites'[i].status = "accepted"
<1>1. TeamInv /\ Promised /\ [TeamsNext]_allVars => [Joins]_allVars
  BY PromisedStep
<1> QED BY <1>1, PromisedAlways, PTL DEF TeamsSpec, JoinsByOpenInvite

\* One request at a time, a pinned setting is changed by a lead's request only
\* (update_user_settings, respond_invite, update_member_sharing).
THEOREM PinsHold ==
  ASSUME OneRequest PROVE TeamsSpec => OnlyLeadsMovePins
<1> DEFINE Moves == \A u \in Accounts : IsPinned(u) /\ share'[u] # share[u] =>
                      \E r \in Requests : req[r].op = "sharing" /\ req[r].who = u /\ req'[r] = Idle
<1>1. TeamInv /\ Promised /\ [TeamsNext]_allVars => [Moves]_allVars
  BY PromisedStep
<1> QED BY <1>1, PromisedAlways, PTL DEF TeamsSpec, OnlyLeadsMovePins
=============================================================================
