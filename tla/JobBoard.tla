------------------------------- MODULE JobBoard -------------------------------
(***************************************************************************)
(* What one user sees of the shared jobs: the rows of user_job_status.     *)
(* The duplicate check that saves an analysis (post_analysis_dedup.py)     *)
(* shows the job or hides it, and may hide another in its place; changed   *)
(* settings are applied to older jobs in the background                    *)
(* (dedup_rules_reconcile.py, min_match_score_reconcile.py,                *)
(* job_location_reconcile.py); the user hides jobs and brings them back.   *)
(*                                                                         *)
(* A session reads, decides and writes later, and writes whole rows        *)
(* whatever they say by then: it takes two steps.  Routes that are one     *)
(* statement take one.  The drain lock leaves one save at a time           *)
(* (SaveDrain).  The user has connected no mailbox, every posting is       *)
(* recent enough to be compared, no job is blocked, and a row names the    *)
(* job it was hidden for only where the two were compared.                 *)
(***************************************************************************)
EXTENDS Integers, Sequences, FiniteSets

CONSTANTS Jobs, Requests, None,
          Employer, Title, Url, \* of a job: resolve_employer_key, the normalized ones
          Quick,       \* jobs added by quick apply
          Aways,       \* what a list of countries excludes; {} for no list
          MaxScore,    \* bound: scores
          Minimums,    \* bound: minimums the user tries
          Overlap,     \* whether sessions of several actors overlap
          MaxSaves, MaxAsks, MaxLosses, \* bounds: analyses, requests, lost tasks
          MaxEvents    \* bound: analyses and requests together

ASSUME BoardAssumption ==
  /\ Quick \subseteq Jobs /\ {} \in Aways /\ \A A \in Aways : A \subseteq Jobs \ Quick
  /\ None \notin Jobs /\ MaxScore \in Nat
  /\ Minimums \subseteq Nat /\ Overlap \in BOOLEAN

VARIABLES row,      \* the user's row of a job: status, exclusion_type, duplicated_because_id
          score,    \* overall_score of its JobMatchResult
          applied,  \* jobs the user marked as applied
          prefs,    \* min_match_score, the two optional rules, the countries
          save,     \* the save in progress
          todo,     \* what a request and its background tasks have left to do
          returned, \* history: jobs back by the user's hand, or by another rule than the minimum
          used      \* bounded events so far

vars == <<row, score, applied, prefs, save, todo, returned, used>>

Row(status, why, because) == [status |-> status, why |-> why, because |-> because]
Shown == Row("active", None, None)
Hidden(why, because) == Row("duplicated", why, because)
NoSave == [at |-> "none"]

Init ==
  /\ row = [j \in Jobs |-> Row("none", None, None)]
  /\ score = [j \in Jobs |-> None] /\ applied = {}
  /\ prefs = [min |-> 0, applied |-> TRUE, comparison |-> TRUE, away |-> {}]
  /\ save = NoSave /\ todo = [r \in Requests |-> <<>>] /\ returned = {}
  /\ used = [e \in {"saves", "asks", "losses"} |-> 0]

Use(e, bound) ==
  /\ used[e] < bound /\ (e = "losses" \/ used["saves"] + used["asks"] < MaxEvents)
  /\ used' = [used EXCEPT ![e] = @ + 1]
Rest == save = NoSave /\ \A r \in Requests : todo[r] = <<>>
Free == Overlap \/ Rest

\* Mutant: jobs hidden by hand count as visible.
VisibleUnlessDuplicated(rows, j) == rows[j].status # "duplicated"
Visible(rows, j) == rows[j].status \in {"none", "active"}
Merge(rows, writes) == [j \in Jobs |-> IF j \in DOMAIN writes THEN writes[j] ELSE rows[j]]
HiddenAs(rows, whys) == {j \in Jobs : rows[j].status = "duplicated" /\ rows[j].why \in whys}

\* The highest scores among the jobs of S that have one.
Best(S) == {k \in S : score[k] # None /\ \A m \in S : score[m] = None \/ score[m] <= score[k]}
-----------------------------------------------------------------------------
(* The duplicate check, run_post_analysis_dedup. *)

\* Mutant: hidden jobs are compared too.
ActivesAnyStatus(j) == Jobs \ {j}
Actives(j) == {k \in Jobs \ {j} : row[k].status = "active"}
SameUrl(j) == {k \in Actives(j) : Url[k] = Url[j]}
Rivals(j) == {k \in Actives(j) : Employer[k] = Employer[j]}
Twins(j) == {k \in Rivals(j) : Title[k] = Title[j]}

Only(j, r) == [k \in {j} |-> r]
Supersede(j, k) == [i \in {j, k} |-> IF i = j THEN Shown ELSE Hidden("superseded", j)]

\* What comparing score s with the best rival does: the better job stays.
Compare(j, s) ==
  IF ~prefs.comparison \/ Best(Rivals(j)) = {} THEN {Only(j, Shown)}
  ELSE {IF s > score[k] THEN Supersede(j, k) ELSE Only(j, Hidden("lower_score", k)) :
          k \in Best(Rivals(j))}

\* The rows a save writes, by the first rule that applies.  unfit: the posting
\* requires a clearance, or is not one.
Decisions(j, s, unfit) ==
  IF j \in Quick THEN {Only(j, Shown)}
  ELSE IF unfit THEN {Only(j, Hidden("unfit", None))}
  ELSE IF s = 0 \/ s < prefs.min THEN {Only(j, Hidden("below_min", None))}
  ELSE IF j \in prefs.away THEN {Only(j, Hidden("outside", None))}
  ELSE IF SameUrl(j) # {} THEN {Only(j, Hidden("same_url", k)) : k \in SameUrl(j)}
  ELSE IF Twins(j) # {} THEN {Only(j, Hidden("similar", k)) : k \in Twins(j)}
  ELSE IF prefs.applied /\ Rivals(j) \cap applied # {} THEN {Only(j, Hidden("applied", None))}
  ELSE Compare(j, s)

SaveRead(j, s, unfit) ==
  /\ Free /\ save = NoSave /\ Use("saves", MaxSaves)
  /\ \E w \in Decisions(j, s, unfit) :
       save' = [at |-> "decided", job |-> j, score |-> s, rows |-> w]
  /\ UNCHANGED <<row, score, applied, prefs, todo, returned>>

\* The result is stored with the rows.
SaveWrite ==
  /\ save # NoSave /\ save' = NoSave
  /\ row' = Merge(row, save.rows)
  /\ score' = [score EXCEPT ![save.job] = save.score]
  /\ returned' = returned \ {save.job}
  /\ UNCHANGED <<applied, prefs, todo, used>>
-----------------------------------------------------------------------------
(* Applying settings to older jobs.  A task is a sequence of sessions.      *)

\* Mutant: a session that is done is not dropped.
SessionsKept(r, sessions) == todo' = [todo EXCEPT ![r] = sessions \o @]
Sessions(r, sessions) == todo' = [todo EXCEPT ![r] = sessions \o Tail(@)]
Decide(r, writes, back) ==
  /\ Sessions(r, <<[do |-> "write", rows |-> writes, back |-> back]>>)
  /\ UNCHANGED <<row, score, applied, prefs, save, returned, used>>
Turn(r, what) == todo[r] # <<>> /\ Head(todo[r]).do = what

\* reconcile_min_match_score_for_user, with the minimum the request was given.
\* Mutant: the job just below the minimum stays.
MinHideFarBelow(m) == {j \in Jobs : Visible(row, j) /\ score[j] # None /\ score[j] < m - 1}
MinHide(m) == {j \in Jobs : Visible(row, j) /\ score[j] # None /\ score[j] < m}
\* Mutant: the job that just reaches the minimum stays hidden.
MinBackAbove(m) == {j \in HiddenAs(row, {"below_min"}) :
                      m = 0 \/ (score[j] # None /\ score[j] > m)}
MinBack(m) == {j \in HiddenAs(row, {"below_min"}) :
                 m = 0 \/ (score[j] # None /\ score[j] >= m)}
ApplyMin(r) ==
  /\ Turn(r, "min")
  /\ LET m == Head(todo[r]).min IN
       Decide(r, [j \in MinHide(m) \cup MinBack(m) |->
                    IF j \in MinBack(m) THEN Shown ELSE Hidden("below_min", None)], {})

\* reconcile_dedup_rules_for_user: what rules that are off have hidden comes
\* back, then the rules that are on hide, each seeing what went before.
\* Mutant: those a better job superseded stay hidden.
RulesBackLowerOnly == HiddenAs(row, (IF prefs.applied THEN {} ELSE {"applied"}) \cup
                                    (IF prefs.comparison THEN {} ELSE {"lower_score"}))
RulesBack == HiddenAs(row, (IF prefs.applied THEN {} ELSE {"applied"}) \cup
                           (IF prefs.comparison THEN {} ELSE {"lower_score", "superseded"}))
AppliedHide(rows) ==
  {j \in Jobs \ applied : /\ prefs.applied /\ Visible(rows, j)
                          /\ \E a \in applied : Employer[a] = Employer[j]}
Group(rows, j) == {k \in Jobs : Visible(rows, k) /\ score[k] # None /\ Employer[k] = Employer[j]}

\* Every group of an employer keeps one of its best.
Winners(rows) ==
  {W \in SUBSET Jobs : \A j \in Jobs : Group(rows, j) # {} =>
     \E k \in Best(Group(rows, j)) : W \cap Group(rows, j) = {k}}
Losers(rows, W) == {j \in Jobs \ W : prefs.comparison /\ j \in Group(rows, j)}

ApplyRules(r) ==
  /\ Turn(r, "rules")
  /\ LET after == Merge(row, [j \in RulesBack |-> Shown])
         left  == Merge(after, [j \in AppliedHide(after) |-> Hidden("applied", None)])
     IN \E W \in Winners(left) :
          LET end == Merge(left, [j \in Losers(left, W) |->
                       Hidden("lower_score", CHOOSE k \in W \cap Group(left, j) : TRUE)])
              changed == {j \in Jobs : end[j] # row[j]}
          IN Decide(r, [j \in changed |-> end[j]], RulesBack)

\* reconcile_job_locations_for_user: one session reads the countries, one
\* brings back what they no longer exclude, one lists the visible jobs, and
\* the last hides those of the list that are excluded.
ReadCountries(r) ==
  /\ Turn(r, "where")
  /\ Sessions(r, <<[do |-> "back", away |-> prefs.away], [do |-> "scan", away |-> prefs.away]>>)
  /\ UNCHANGED <<row, score, applied, prefs, save, returned, used>>
LocationBack(r) ==
  /\ Turn(r, "back")
  /\ LET back == HiddenAs(row, {"outside"}) \ Head(todo[r]).away
     IN Decide(r, [j \in back |-> Shown], back)
ListVisible(r) ==
  /\ Turn(r, "scan")
  /\ Decide(r, [j \in {k \in Head(todo[r]).away : Visible(row, k)} |-> Hidden("outside", None)], {})

Write(r) ==
  /\ Turn(r, "write") /\ Sessions(r, <<>>)
  /\ row' = Merge(row, Head(todo[r]).rows)
  /\ returned' = (returned \ DOMAIN Head(todo[r]).rows) \cup
                 {j \in Head(todo[r]).back : row'[j] = Shown}
  /\ UNCHANGED <<score, applied, prefs, save, used>>

\* The API ends, or a task raises: the tasks behind it do not run.
Lose(r) ==
  /\ todo[r] # <<>> /\ Use("losses", MaxLosses)
  /\ todo' = [todo EXCEPT ![r] = <<>>]
  /\ UNCHANGED <<row, score, applied, prefs, save, returned>>

\* update_user_settings and schedule_job_rule_reconciles.
Prefs == [min : Minimums \cup {0}, applied : BOOLEAN, comparison : BOOLEAN, away : Aways]
TasksFor(p) ==
  (IF p.away # prefs.away THEN <<[do |-> "where"]>> ELSE <<>>) \o
  (IF p.min # prefs.min THEN <<[do |-> "min", min |-> p.min]>> ELSE <<>>) \o
  (IF p.applied # prefs.applied \/ p.comparison # prefs.comparison
     THEN <<[do |-> "rules"]>> ELSE <<>>)
ChangePrefs(r, p) ==
  /\ Free /\ todo[r] = <<>> /\ p # prefs /\ Use("asks", MaxAsks)
  /\ prefs' = p /\ todo' = [todo EXCEPT ![r] = TasksFor(p)]
  /\ UNCHANGED <<row, score, applied, save, returned>>

\* The routes that apply the settings once more.
Again(r, task) ==
  /\ Free /\ todo[r] = <<>> /\ Use("asks", MaxAsks)
  /\ todo' = [todo EXCEPT ![r] = <<task>>]
  /\ UNCHANGED <<row, score, applied, prefs, save, returned>>
-----------------------------------------------------------------------------
(* What the user does by hand. *)

Act(j, r, back) ==
  /\ Free /\ Use("asks", MaxAsks) /\ row' = [row EXCEPT ![j] = r]
  /\ returned' = IF back THEN returned \cup {j} ELSE returned \ {j}
  /\ UNCHANGED <<score, applied, prefs, save, todo>>

Submit(j) == row[j].status = "none" /\ Act(j, Shown, TRUE)
Hide(j) == Act(j, Row("manual_hidden", "manual", None), FALSE)
CallDuplicate(j) == Act(j, Hidden("manual", None), FALSE)
Restore(j) == Act(j, Shown, TRUE)
CallInvalid(j) ==
  row[j].status # "none" /\ Act(j, Row(row[j].status, "manual", None), j \in returned)
Forget(j) == row[j].status # "none" /\ Act(j, Row("none", None, None), TRUE)

Apply(j) ==
  /\ Free /\ Use("asks", MaxAsks)
  /\ applied' = (IF j \in applied THEN applied \ {j} ELSE applied \cup {j})
  /\ UNCHANGED <<row, score, prefs, save, todo, returned>>

\* Asking for a new analysis drops the result; a save brings the new one.
Rescore(j) ==
  /\ Free /\ score[j] # None /\ Use("asks", MaxAsks)
  /\ score' = [score EXCEPT ![j] = None]
  /\ UNCHANGED <<row, applied, prefs, save, todo, returned>>

ByHand(j) == Submit(j) \/ Hide(j) \/ CallDuplicate(j) \/ Restore(j) \/ CallInvalid(j) \/ Forget(j)
Task(r) == ApplyMin(r) \/ ApplyRules(r) \/ ReadCountries(r) \/ LocationBack(r) \/ ListVisible(r) \/ Write(r)

Next ==
  \/ \E j \in Jobs, s \in 0..MaxScore, unfit \in BOOLEAN : SaveRead(j, s, unfit)
  \/ SaveWrite
  \/ \E r \in Requests : Task(r) \/ Lose(r)
  \/ \E r \in Requests, p \in Prefs : ChangePrefs(r, p)
  \/ \E r \in Requests, task \in {[do |-> "where"], [do |-> "rules"], [do |-> "min", min |-> prefs.min]} :
       Again(r, task)
  \/ \E j \in Jobs : ByHand(j) \/ Apply(j) \/ Rescore(j)

Spec == Init /\ [][Next]_vars
-----------------------------------------------------------------------------
Statuses == {"none", "active", "duplicated", "manual_hidden"}
Whys == {"below_min", "outside", "same_url", "similar", "lower_score", "superseded",
         "applied", "unfit", "manual", None}
Rows == [status : Statuses, why : Whys, because : Jobs \cup {None}]
Scores == 0..MaxScore

TypeOK ==
  /\ row \in [Jobs -> Rows] /\ score \in [Jobs -> Scores \cup {None}]
  /\ applied \subseteq Jobs /\ returned \subseteq Jobs /\ prefs \in Prefs
  /\ save = NoSave \/ save.job \in DOMAIN save.rows
  /\ \A r \in Requests : Len(todo[r]) <= 4

\* No job is hidden for another that is hidden for it, directly or around: jobs
\* that were compared with each other never all disappear, whatever is analyzed
\* anew, restored or hidden in between.
NoHidingCircle ==
  \A S \in (SUBSET Jobs) \ {{}} :
    \E j \in S : ~(row[j].status = "duplicated" /\ row[j].because \in S)

\* "Restore/hide UJS rows to match effective optional dedup rules": when all
\* tasks have run, nothing stays hidden by a rule that is off, a minimum its
\* score reaches, or countries that include it.
HiddenByItsRule ==
  Rest /\ used["losses"] = 0 =>
    \A j \in Jobs : row[j].status = "duplicated" =>
      /\ row[j].why = "applied" => prefs.applied
      /\ row[j].why \in {"lower_score", "superseded"} => prefs.comparison
      /\ row[j].why = "below_min" /\ score[j] # None => score[j] = 0 \/ score[j] < prefs.min
      /\ row[j].why = "outside" => j \in prefs.away

\* "Without this a raised minimum leaves older low scorers on the Valid board":
\* a job below the minimum is on the board only if the user brought it back or
\* added it, or if another rule had hidden it and let it go.
LowScorersReturned ==
  Rest /\ used["losses"] = 0 =>
    \A j \in Jobs : Visible(row, j) /\ score[j] # None /\ score[j] < prefs.min =>
      j \in returned \cup Quick

\* "Only location-based auto-exclusions are touched - manual hides, dedup, and
\* score exclusions are left untouched": what the user hid comes back, or is
\* hidden for another reason, by the user's hand or its own analysis.
ManualHidesStay ==
  [][\A j \in Jobs : row[j].status = "manual_hidden" /\ row'[j].status # "manual_hidden" =>
       ByHand(j) \/ (SaveWrite /\ save.job = j)]_vars
=============================================================================
