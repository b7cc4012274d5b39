------------------------------ MODULE JobSharing ------------------------------
(***************************************************************************)
(* Who sees a job that people add, and for whom it is scored               *)
(* (app/services/job_add_batches.py, the fan-outs and the catch-up of      *)
(* app/services/auto_prepare_service.py, the share routes).                *)
(*                                                                         *)
(* One job.  Who added it owns it; everyone who has it on the board can    *)
(* record an add session (a batch) that grants it to others.  Fan-outs ask *)
(* for the analyses of those who see it: one when its text is extracted,   *)
(* one after every grant.  Each reads the text, then the grants, and none  *)
(* waits for another.  A share is one transaction on rows that only its    *)
(* author writes, one author's shares come one after the other, so it      *)
(* takes one step.                                                         *)
(*                                                                         *)
(* Analyses are AnalysisRequests, what they do to the board is JobBoard,   *)
(* teams are TeamSpaces: here each is the few steps that matter.           *)
(***************************************************************************)
EXTENDS Naturals, FiniteSets

CONSTANTS People, Nobody,
          Owners,     \* who may have added the job, Nobody for public inventory
          Runners,    \* people whose manual_submit_pipeline runs an analysis
          OptIns,     \* people with auto_prepare_match
          Batches, Spaces, Fans,
          Lead, Team, \* of each space: its lead, its members when the job is added
          FanLimit,   \* AUTO_PREPARE_FANOUT_MAX_USERS
          MaxShares,  \* bound: shares
          MaxMoves,   \* bound: submissions, and changes of teams and settings
          MaxFaults,  \* bound: refusals, lost fan-outs, analyses without a result
          MaxEvents   \* bound: all of these together

ASSUME PeopleAssumption == Nobody \notin People /\ Owners \subseteq People \cup {Nobody}
ASSUME SettingsAssumption ==
  /\ Runners \subseteq People /\ OptIns \subseteq People
  /\ Lead \in [Spaces -> People] /\ Team \in [Spaces -> SUBSET People]
  /\ \A s \in Spaces : Lead[s] \notin Team[s]

Scopes == {"private", "users", "team", "all"}
Defaults == Scopes \ {"users"}

VARIABLES owner,    \* job_owner_id of the job's raw_metadata
          text,     \* whether the extraction has its text
          row,      \* status of each person's user_job_status row
          analysis, \* of each person: none, asked for, or scored
          batch,    \* author, scope and recipients of each add session
          members,  \* of each space, without its lead
          locked,   \* members whose sharing the lead pinned
          choice,   \* job_share_default
          fan,      \* fan-outs under way: the step, and whom is left to ask for
          visit,    \* people whose catch-up has listed the job
          missed,   \* history: people whom a fault or the limit left out, or
                    \* who came to the job otherwise than by a share
          reached,  \* history: people who could see the job or submitted it
          used      \* bounded events so far

jobVars == <<owner, text>>
teamVars == <<members, locked, choice>>
doneVars == <<row, analysis>>
vars == <<jobVars, doneVars, batch, teamVars, fan, visit, missed, reached, used>>

NoBatch == [by |-> Nobody, scope |-> "private", to |-> {}]
NoFan == [at |-> "none", to |-> {}]
-----------------------------------------------------------------------------
(* Who sees the job, three times. *)

Sessions == {b \in Batches : batch[b].by # Nobody}
Participants(s) == members[s] \cup {Lead[s]}

\* job_share_visibility_clause and teammates_clause, for one viewer.
Grants(b, p) ==
  \/ batch[b].by = p \/ batch[b].scope = "all"
  \/ batch[b].scope = "team" /\ \E s \in Spaces : {batch[b].by, p} \subseteq Participants(s)
  \/ batch[b].scope = "users" /\ p \in batch[b].to
Sees(p) == \/ owner = p
           \/ \E b \in Sessions : Grants(b, p)
           \/ Sessions = {} /\ owner = Nobody
Viewers == {p \in People : Sees(p)}

\* Mutant: a lead belongs to no space.
SpacesAsMember(p) == {s \in Spaces : p \in members[s]}

\* space_ids_for, teammate_ids and users_who_can_see_job, for many.
SpacesFor(p) == {s \in Spaces : p = Lead[s] \/ p \in members[s]}

Mates(p) == (UNION {Participants(s) : s \in SpacesFor(p)}) \ {p}
CanSee(candidates) ==
  IF Sessions = {} THEN IF owner = Nobody THEN candidates ELSE {owner} \cap candidates
  ELSE IF \E b \in Sessions : batch[b].scope = "all" THEN candidates
  ELSE candidates \cap UNION ({{owner}} \cup {{batch[b].by} : b \in Sessions} \cup
         {CASE batch[b].scope = "team" -> Mates(batch[b].by)
            [] batch[b].scope = "users" -> batch[b].to
            [] OTHER -> {} : b \in Sessions})

\* job_visibility_map: the widest scope, and the people that `users` names.
Widest ==
  LET scopes == {batch[b].scope : b \in Sessions} IN
  IF scopes = {} THEN IF owner = Nobody THEN "all" ELSE "private"
  ELSE IF "all" \in scopes THEN "all"
  ELSE IF "team" \in scopes THEN "team"
  ELSE IF "users" \in scopes THEN "users" ELSE "private"
Named == UNION {batch[b].to : b \in {z \in Sessions : batch[z].scope = "users"}}
-----------------------------------------------------------------------------
Init ==
  /\ owner \in Owners /\ text = FALSE
  /\ row = [p \in People |-> IF p = owner THEN "active" ELSE "none"]
  /\ analysis = [p \in People |-> "none"]
  /\ batch = [b \in Batches |-> NoBatch]
  /\ members = Team /\ locked = [s \in Spaces |-> {}]
  /\ choice = [p \in People |-> "private"]
  /\ fan = [f \in Fans |-> NoFan] /\ visit = {}
  /\ missed = {owner} \cap People /\ reached = Viewers
  /\ used = [e \in {"shares", "moves", "faults"} |-> 0]

Use(e, bound) ==
  /\ used[e] < bound /\ used["shares"] + used["moves"] + used["faults"] < MaxEvents
  /\ used' = [used EXCEPT ![e] = @ + 1]
Reach == reached' = reached \cup Viewers' \cup {p \in People : row'[p] = "active"}
Miss(S) == missed' = missed \cup S
\* _enqueue_analyze: arq holds the id of one that is asked for.
Enqueue(p) == analysis' = [analysis EXCEPT ![p] = IF @ = "none" THEN "asked" ELSE @]

\* A new background task, its text still to be read.
IdleFans == {f \in Fans : fan[f] = NoFan}
Launch ==
  /\ IdleFans # {}
  /\ fan' = [fan EXCEPT ![CHOOSE f \in IdleFans : TRUE] = [at |-> "text", to |-> {}]]

\* extract_job has the text: those who submitted the job are analyzed, if the
\* chain still knows of them (ExtractChain), and the fan-out follows.
Extracted ==
  /\ ~text /\ text' = TRUE /\ Launch
  /\ \E known \in SUBSET {p \in Runners : row[p] = "active"} :
       analysis' = [p \in People |-> IF p \in known THEN "asked" ELSE analysis[p]]
  /\ UNCHANGED <<owner, row, batch, teamVars, visit, missed, used, reached>>

(***************************************************************************)
(* Add sessions: create_batch, record_job_add, update_share.               *)
(***************************************************************************)

\* locked_share_scope
Pinned(p) == \E s \in Spaces : p \in locked[s]

\* _jobs_for_batch.  Mutant: public inventory can be added, too.
AttachableAny(p) == row[p] = "active"
Attachable(p) == row[p] = "active" /\ (Sessions # {} \/ owner # Nobody)

\* Mutant: who is shared with later is not fanned out to.
SetBatchQuietly(b, p, scope, to) ==
  /\ Use("shares", MaxShares)
  /\ batch' = [batch EXCEPT ![b] = [by |-> p, scope |-> scope, to |-> to]]
  /\ IF scope # "private" /\ batch[b] = NoBatch THEN Launch ELSE UNCHANGED fan
  /\ UNCHANGED <<jobVars, doneVars, teamVars, visit, missed>>
  /\ Reach

\* The commit, and the fan-out of what is not private.
SetBatch(b, p, scope, to) ==
  /\ Use("shares", MaxShares)
  /\ batch' = [batch EXCEPT ![b] = [by |-> p, scope |-> scope, to |-> to]]
  /\ IF scope # "private" THEN Launch ELSE UNCHANGED fan
  /\ UNCHANGED <<jobVars, doneVars, teamVars, visit, missed>>
  /\ Reach

\* Without a choice of its own, or against a pin, an add takes the default.
CreateBatch(b, p, scope, to) ==
  /\ Sessions # Batches /\ b = (CHOOSE x \in Batches : x \notin Sessions) /\ Attachable(p)
  /\ scope = choice[p] \/ ~Pinned(p)
  /\ (scope = "users") = (to # {}) /\ p \notin to
  /\ SetBatch(b, p, scope, to)

\* Mutant: who was named before stays named.
UpdateKeepsPeople(b, scope, to) ==
  /\ batch[b] # NoBatch
  /\ Pinned(batch[b].by) => scope = choice[batch[b].by]
  /\ (scope = "users") = (to # {}) /\ batch[b].by \notin to
  /\ SetBatch(b, batch[b].by, scope, to \cup batch[b].to)

UpdateShare(b, scope, to) ==
  /\ batch[b] # NoBatch
  /\ Pinned(batch[b].by) => scope = choice[batch[b].by]
  /\ (scope = "users") = (to # {}) /\ batch[b].by \notin to
  /\ SetBatch(b, batch[b].by, scope, to)

(***************************************************************************)
(* Fan-outs: fanout_shared_batch, fanout_auto_prepare_for_job,             *)
(* _fanout_member_add.  Losing one is only logged.                         *)
(***************************************************************************)

FanAt(f, S) == fan' = [fan EXCEPT ![f] = IF S = {} THEN NoFan ELSE [at |-> "ask", to |-> S]]

\* "jd_not_ready": the fan-out of the extraction will come.
ReadText(f) ==
  /\ fan[f].at = "text"
  /\ fan' = [fan EXCEPT ![f] = IF text THEN [at |-> "grants", to |-> {}] ELSE NoFan]
  /\ UNCHANGED <<jobVars, doneVars, batch, teamVars, visit, missed, used, reached>>

Handled == {p \in People : analysis[p] = "scored" \/ row[p] = "hidden"}

\* A query without an order takes FanLimit of the people before it is known who
\* of them sees the job.
Candidates == IF owner = Nobody THEN OptIns ELSE People \ {owner}
Taken == {C \in SUBSET Candidates :
            IF Cardinality(Candidates) <= FanLimit THEN C = Candidates
                                                   ELSE Cardinality(C) = FanLimit}

\* Mutant: everyone who runs analyses is asked for.
ReadGrantsNot(f) ==
  /\ fan[f].at = "grants"
  /\ \E C \in Taken :
       /\ FanAt(f, (IF owner = Nobody THEN C ELSE C \cap Runners) \ Handled)
       /\ Miss(Candidates \ C)
  /\ UNCHANGED <<jobVars, doneVars, batch, teamVars, visit, used, reached>>

ReadGrants(f) ==
  /\ fan[f].at = "grants"
  /\ \E C \in Taken :
       /\ FanAt(f, (CanSee(C) \cap IF owner = Nobody THEN C ELSE Runners) \ Handled)
       /\ Miss(Candidates \ C)
  /\ UNCHANGED <<jobVars, doneVars, batch, teamVars, visit, used, reached>>

Ask(f, p) ==
  /\ p \in fan[f].to /\ FanAt(f, fan[f].to \ {p}) /\ Enqueue(p)
  /\ UNCHANGED <<jobVars, row, batch, teamVars, visit, missed, used, reached>>

\* A cap is reached, or Redis is away.
Refuse(f, p) ==
  /\ p \in fan[f].to /\ FanAt(f, fan[f].to \ {p}) /\ Miss({p})
  /\ Use("faults", MaxFaults)
  /\ UNCHANGED <<jobVars, doneVars, batch, teamVars, visit, reached>>

LoseFan(f) ==
  /\ fan[f] # NoFan /\ FanAt(f, {}) /\ Miss(People)
  /\ Use("faults", MaxFaults)
  /\ UNCHANGED <<jobVars, doneVars, batch, teamVars, visit, reached>>

(***************************************************************************)
(* catch_up_free_scores_on_visit.                                          *)
(***************************************************************************)

\* The analysis is still to come, by _missing_match_stmt.
Wants(p) ==
  /\ text /\ Sees(p) /\ analysis[p] = "none" /\ row[p] # "hidden"
  /\ owner = Nobody \/ p \in Runners

\* Mutant: only jobs that have a row are listed.
ListRowsOnly(p) ==
  /\ p \in OptIns \ visit /\ Wants(p) /\ row[p] = "active"
  /\ visit' = visit \cup {p}
  /\ UNCHANGED <<jobVars, doneVars, batch, teamVars, fan, missed, used, reached>>

List(p) ==
  /\ p \in OptIns \ visit /\ Wants(p) /\ visit' = visit \cup {p}
  /\ UNCHANGED <<jobVars, doneVars, batch, teamVars, fan, missed, used, reached>>

AskListed(p) ==
  /\ p \in visit /\ visit' = visit \ {p} /\ Enqueue(p)
  /\ UNCHANGED <<jobVars, row, batch, teamVars, fan, missed, used, reached>>

RefuseListed(p) ==
  /\ p \in visit /\ visit' = visit \ {p} /\ Use("faults", MaxFaults)
  /\ UNCHANGED <<jobVars, doneVars, batch, teamVars, fan, missed, reached>>

(***************************************************************************)
(* What happens around it.                                                 *)
(***************************************************************************)

\* The duplicate check shows the job, or hides it.
Score(p) ==
  /\ analysis[p] = "asked" /\ analysis' = [analysis EXCEPT ![p] = "scored"]
  /\ \E status \in {"active", "hidden"} : row' = [row EXCEPT ![p] = status]
  /\ UNCHANGED <<jobVars, batch, teamVars, fan, visit, missed, used, reached>>

NoResult(p) ==
  /\ analysis[p] = "asked" /\ analysis' = [analysis EXCEPT ![p] = "none"]
  /\ Miss({p}) /\ Use("faults", MaxFaults)
  /\ UNCHANGED <<jobVars, row, batch, teamVars, fan, visit, reached>>

\* submit_job of an address that is known: the person's own chain runs.
Submit(p) ==
  /\ row[p] = "none" /\ row' = [row EXCEPT ![p] = "active"]
  /\ IF text /\ p \in Runners THEN Enqueue(p) ELSE UNCHANGED analysis
  /\ Miss({p}) /\ Use("moves", MaxMoves)
  /\ UNCHANGED <<jobVars, batch, teamVars, fan, visit>>
  /\ Reach

\* respond_invite: nothing is fanned out to or from who joins.
Join(s, p) ==
  /\ p \notin Participants(s)
  /\ members' = [members EXCEPT ![s] = @ \cup {p}]
  /\ Miss(Participants(s) \cup {p}) /\ Use("moves", MaxMoves)
  /\ UNCHANGED <<jobVars, doneVars, batch, locked, choice, fan, visit>>
  /\ Reach

Leave(s, p) ==
  /\ p \in members[s]
  /\ members' = [members EXCEPT ![s] = @ \ {p}]
  /\ locked' = [locked EXCEPT ![s] = @ \ {p}]
  /\ Use("moves", MaxMoves)
  /\ UNCHANGED <<jobVars, doneVars, batch, choice, fan, visit, missed, reached>>

\* update_member_sharing
Pin(s, p, scope) ==
  /\ p \in members[s]
  /\ locked' = [locked EXCEPT ![s] = @ \cup {p}]
  /\ choice' = [choice EXCEPT ![p] = scope]
  /\ Use("moves", MaxMoves)
  /\ UNCHANGED <<jobVars, doneVars, batch, members, fan, visit, missed, reached>>

FanStep(f) == ReadText(f) \/ ReadGrants(f) \/ \E p \in People : Ask(f, p)

Next ==
  \/ Extracted
  \/ \E f \in Fans : FanStep(f) \/ LoseFan(f)
  \/ \E f \in Fans, p \in People : Refuse(f, p)
  \/ \E b \in Batches, scope \in Scopes, to \in SUBSET People :
       UpdateShare(b, scope, to) \/ \E p \in People : CreateBatch(b, p, scope, to)
  \/ \E p \in People : List(p) \/ AskListed(p) \/ RefuseListed(p)
  \/ \E p \in People : Score(p) \/ NoResult(p) \/ Submit(p)
  \/ \E s \in Spaces, p \in People :
       Join(s, p) \/ Leave(s, p) \/ \E scope \in Defaults : Pin(s, p, scope)

Spec == Init /\ [][Next]_vars

\* People open their page, which catches up.  No fan-out is counted on.
FairSpec ==
  /\ Spec
  /\ \A p \in People : WF_vars(List(p) \/ AskListed(p))
-----------------------------------------------------------------------------
TypeOK ==
  /\ owner \in Owners /\ text \in BOOLEAN
  /\ row \in [People -> {"none", "active", "hidden"}]
  /\ analysis \in [People -> {"none", "asked", "scored"}]
  /\ batch \in [Batches -> [by : People \cup {Nobody}, scope : Scopes, to : SUBSET People]]
  /\ \A b \in Batches : (batch[b].scope = "users") = (batch[b].to # {})
  /\ members \in [Spaces -> SUBSET People]
  /\ \A s \in Spaces : locked[s] \subseteq members[s]
  /\ choice \in [People -> Defaults]
  /\ fan \in [Fans -> [at : {"none", "text", "grants", "ask"}, to : SUBSET People]]
  /\ visit \cup missed \cup reached \subseteq People

Authors == ({owner} \cup {batch[b].by : b \in Sessions}) \cap People

\* "Subset of user_ids that job_share_visibility_clause lets see the job",
\* "Mirrors job_share_visibility_clause": the check for many and the map say
\* what the clause says, whoever shares and whatever becomes of the teams; and
\* no add session takes public inventory from anybody.
SightAgrees ==
  /\ \A C \in SUBSET People : CanSee(C) = Viewers \cap C
  /\ CASE Widest = "all" -> Viewers = People
       [] Widest = "team" ->
            Viewers \subseteq Authors \cup Named \cup UNION {Mates(p) : p \in Authors}
       [] Widest = "users" -> Viewers = Authors \cup Named
       [] Widest = "private" -> Viewers = Authors
  /\ owner = Nobody => Viewers = People

\* "Another person's private add is never scored for anyone else": who is asked
\* for could see the job at some time, or added it too, however shares and teams
\* change between what a fan-out reads and what it does.
OnlyReached == \A p \in People : analysis[p] # "none" => p \in reached

\* "Sharing an add later fans its jobs out to the people it now reaches": a
\* share that comes before the text and a text that comes before the share each
\* miss the other's half; when no fan-out is under way one of the two has asked
\* for everyone, but for those a fault, the limit or a team left out.
FanoutsMeet ==
  owner # Nobody /\ (\A f \in Fans : fan[f] = NoFan) =>
    \A p \in People : Wants(p) => p \in missed

\* "Opening the Jobs page runs a throttled catch-up of unscored visible jobs, so
\* nothing waits on a missed fan-out": those who opted in get it all the same.
CaughtUp == \A p \in OptIns : Wants(p) ~> ~Wants(p)
=============================================================================
