---------------------------- MODULE JobBoardProofs ----------------------------
(***************************************************************************)
(* Proofs about the job board, for any number of jobs, requests and        *)
(* settings, and without the bounds of the runs.                           *)
(*                                                                         *)
(* TypeInv holds however sessions overlap: its core is the order of the    *)
(* queues, which bounds them.  Serial is for sessions that do not overlap: *)
(* one actor works at a time, with the settings there are, so what it      *)
(* decided is still true of the rows when it writes.  FitInv says how far  *)
(* the rows are behind the settings: whatever does not fit them is about   *)
(* to be rewritten, or the task that sees to it is still in the queue.     *)
(***************************************************************************)
EXTENDS JobBoard, SequenceTheorems, TLAPS

(* What holds however sessions overlap. *)

Kinds == {"where", "back", "scan", "min", "rules", "write"}
Rank(kind) == CASE kind = "scan" -> 1 [] kind = "min" -> 2 [] kind = "rules" -> 3 [] OTHER -> 0

\* The rows that a session has decided to write.
Partial == UNION {[D -> Rows] : D \in SUBSET Jobs}

Session == [do : {"where", "rules"}]
           \cup [do : {"min"}, min : Minimums \cup {0}]
           \cup [do : {"back", "scan"}, away : Aways]
           \cup [do : {"write"}, rows : Partial, back : SUBSET Jobs]
Decided == [at : {"decided"}, job : Jobs, score : Scores, rows : Partial]

\* A queue: what comes behind its head is in the order of the tasks, and a list
\* of the visible jobs comes after jobs were brought back.
Ordered(q) ==
  /\ \A i \in 2..Len(q) : q[i].do \in {"scan", "min", "rules"}
  /\ \A i, k \in 2..Len(q) : i < k => Rank(q[i].do) < Rank(q[k].do)
  /\ \A i \in 2..Len(q) : q[i].do = "scan" => q[1].do \in {"back", "write"}

QueuesOK == todo \in [Requests -> Seq(Session)] /\ \A r \in Requests : Ordered(todo[r])

SaveOK == /\ save = NoSave \/ save \in Decided
          /\ save # NoSave => save.job \in DOMAIN save.rows

UsedOK == used \in [{"saves", "asks", "losses"} -> Nat]

TypeInv == /\ row \in [Jobs -> Rows] /\ score \in [Jobs -> Scores \cup {None}]
           /\ applied \subseteq Jobs /\ returned \subseteq Jobs /\ prefs \in Prefs
           /\ SaveOK /\ QueuesOK /\ UsedOK

(* What holds where sessions do not overlap. *)

Busy(r) == todo[r] # <<>>
Writing(r) == Turn(r, "write")

Alone == /\ save # NoSave => \A r \in Requests : ~Busy(r)
         /\ \A q, r \in Requests : Busy(q) /\ Busy(r) => q = r

\* A queue works with the settings there are.
Current == \A r \in Requests : \A i \in 1..Len(todo[r]) :
             /\ todo[r][i].do = "min" => todo[r][i].min = prefs.min
             /\ todo[r][i].do \in {"back", "scan"} => todo[r][i].away = prefs.away

\* Rows w hide nobody for a job that is hidden with them, ...
Points(rows, w) == \A j \in DOMAIN w : w[j].status = "duplicated" /\ w[j].because \in Jobs =>
                     Merge(rows, w)[w[j].because].status # "duplicated"
\* ... and leave alone what the user hid by hand, outside S.
Spares(rows, w, S) == \A j \in DOMAIN w \ S : rows[j].status # "manual_hidden"
Apart(rows, w, S) == Points(rows, w) /\ Spares(rows, w, S)

WritesApart == /\ save # NoSave => Apart(row, save.rows, {save.job})
               /\ \A r \in Requests : Writing(r) => Apart(row, Head(todo[r]).rows, {})

\* A row w that fits the settings p, for a job with score s.
RuleFits(p, w) == w.status = "duplicated" =>
  /\ w.why = "applied" => p.applied
  /\ w.why \in {"lower_score", "superseded"} => p.comparison
AwayFits(p, j, w) == w.status = "duplicated" /\ w.why = "outside" => j \in p.away
MinFits(p, w, s) == w.status = "duplicated" /\ w.why = "below_min" /\ s # None =>
  s = 0 \/ s < p.min
LowFits(p, w, s) == w.status \in {"none", "active"} /\ s # None => s >= p.min

\* What the queues have left to do.
Ahead == {k \in Kinds : \E r \in Requests : \E i \in 1..Len(todo[r]) : todo[r][i].do = k}

\* It fits, or the task that sees to it is still to come.
Fits(p, ahead, j, w, s, back) ==
  /\ RuleFits(p, w) \/ "rules" \in ahead
  /\ AwayFits(p, j, w) \/ "where" \in ahead \/ "back" \in ahead
  /\ MinFits(p, w, s) \/ "min" \in ahead
  /\ LowFits(p, w, s) \/ back \/ j \in Quick \/ "min" \in ahead

Rewritten(j) == \E r \in Requests : Writing(r) /\ j \in DOMAIN Head(todo[r]).rows
RowsFit == \A j \in Jobs :
  Rewritten(j) \/ Fits(prefs, Ahead, j, row[j], score[j], j \in returned)
WriteFits(w, back) ==
  \A j \in DOMAIN w : Fits(prefs, Ahead, j, w[j], score[j], j \in back /\ w[j] = Shown)
WritesFit == \A r \in Requests : Writing(r) => WriteFits(Head(todo[r]).rows, Head(todo[r]).back)
SaveFits == save # NoSave =>
  \A j \in DOMAIN save.rows :
    LET w == save.rows[j] IN
    /\ RuleFits(prefs, w) /\ AwayFits(prefs, j, w)
    /\ IF j = save.job THEN MinFits(prefs, w, save.score) /\ (LowFits(prefs, w, save.score) \/ j \in Quick)
                       ELSE w.status = "duplicated" /\ w.why = "superseded"

FitInv == used["losses"] = 0 => RowsFit /\ WritesFit /\ SaveFits

Serial == Alone /\ Current /\ WritesApart /\ NoHidingCircle /\ FitInv
-----------------------------------------------------------------------------
(* Sequences. *)

LEMMA SwapHead ==
  ASSUME NEW S, NEW q \in Seq(S), q # <<>>, NEW x \in S
  PROVE  /\ <<x>> \o Tail(q) \in Seq(S)
         /\ Len(<<x>> \o Tail(q)) = Len(q) /\ Len(q) \in Nat \ {0}
         /\ (<<x>> \o Tail(q))[1] = x
         /\ \A i \in 2..Len(q) : (<<x>> \o Tail(q))[i] = q[i]
<1>1. Tail(q) \in Seq(S) /\ Len(Tail(q)) = Len(q) - 1 /\ Len(q) \in Nat \ {0}
  OBVIOUS
<1>2. \A i \in 1..(Len(q) - 1) : Tail(q)[i] = q[i + 1]
  OBVIOUS
<1> QED BY <1>1, <1>2

LEMMA DropHead ==
  ASSUME NEW S, NEW q \in Seq(S), q # <<>>
  PROVE  /\ <<>> \o Tail(q) \in Seq(S)
         /\ Len(<<>> \o Tail(q)) = Len(q) - 1 /\ Len(q) \in Nat \ {0}
         /\ \A i \in 1..(Len(q) - 1) : (<<>> \o Tail(q))[i] = q[i + 1]
<1>1. Tail(q) \in Seq(S) /\ Len(Tail(q)) = Len(q) - 1 /\ Len(q) \in Nat \ {0}
  OBVIOUS
<1>2. \A i \in 1..(Len(q) - 1) : Tail(q)[i] = q[i + 1]
  OBVIOUS
<1> QED BY <1>1, <1>2

LEMMA SplitHead ==
  ASSUME NEW S, NEW q \in Seq(S), q # <<>>, NEW x \in S, NEW y \in S
  PROVE  /\ <<x, y>> \o Tail(q) \in Seq(S)
         /\ Len(<<x, y>> \o Tail(q)) = Len(q) + 1 /\ Len(q) \in Nat \ {0}
         /\ (<<x, y>> \o Tail(q))[1] = x /\ (<<x, y>> \o Tail(q))[2] = y
         /\ \A i \in 2..Len(q) : (<<x, y>> \o Tail(q))[i + 1] = q[i]
<1>1. Tail(q) \in Seq(S) /\ Len(Tail(q)) = Len(q) - 1 /\ Len(q) \in Nat \ {0}
  OBVIOUS
<1>2. \A i \in 1..(Len(q) - 1) : Tail(q)[i] = q[i + 1]
  OBVIOUS
<1> QED BY <1>1, <1>2

LEMMA Concats ==
  ASSUME NEW S, NEW x \in S, NEW y \in S, NEW z \in S
  PROVE  <<x>> \o <<y>> = <<x, y>> /\ <<x, y>> \o <<z>> = <<x, y, z>>
<1>1. /\ <<x>> \in Seq(S) /\ <<y>> \in Seq(S) /\ <<z>> \in Seq(S)
      /\ <<x, y>> \in Seq(S) /\ <<x, y, z>> \in Seq(S)
  OBVIOUS
<1>2. /\ <<x>> \o <<y>> \in Seq(S) /\ Len(<<x>> \o <<y>>) = 2
      /\ \A i \in 1..2 : (<<x>> \o <<y>>)[i] = <<x, y>>[i]
  BY <1>1
<1>3. <<x>> \o <<y>> = <<x, y>>
  BY <1>1, <1>2, SeqEqual
<1>4. /\ <<x, y>> \o <<z>> \in Seq(S) /\ Len(<<x, y>> \o <<z>>) = 3
      /\ \A i \in 1..3 : (<<x, y>> \o <<z>>)[i] = <<x, y, z>>[i]
  BY <1>1
<1>5. <<x, y>> \o <<z>> = <<x, y, z>>
  BY <1>1, <1>4, SeqEqual
<1> QED BY <1>3, <1>5

\* The order keeps a queue short.
LEMMA FourAtMost ==
  ASSUME NEW q \in Seq(Session), Ordered(q)
  PROVE  Len(q) <= 4
<1> SUFFICES ASSUME Len(q) > 4 PROVE FALSE
  OBVIOUS
<1>1. Len(q) \in Nat /\ 2 \in 2..Len(q) /\ 3 \in 2..Len(q) /\ 4 \in 2..Len(q) /\ 5 \in 2..Len(q)
  OBVIOUS
<1>2. \A i \in {2, 3, 4, 5} : Rank(q[i].do) \in {1, 2, 3}
  BY <1>1 DEF Ordered, Rank
<1>3. Rank(q[2].do) < Rank(q[3].do) /\ Rank(q[3].do) < Rank(q[4].do) /\ Rank(q[4].do) < Rank(q[5].do)
  BY <1>1 DEF Ordered
<1> QED BY <1>2, <1>3

\* What a session makes of the queue of its request.
LEMMA WriteQueued ==
  ASSUME TypeInv, NEW r \in Requests, todo[r] # <<>>, NEW x \in Session, x.do = "write",
         Sessions(r, <<x>>)
  PROVE  /\ QueuesOK'
         /\ todo'[r] # <<>> /\ Head(todo'[r]) = x /\ Len(todo'[r]) = Len(todo[r])
         /\ todo'[r][1] = x /\ \A i \in 2..Len(todo[r]) : todo'[r][i] = todo[r][i]
         /\ \A q \in Requests \ {r} : todo'[q] = todo[q]
<1>1. todo[r] \in Seq(Session) /\ Ordered(todo[r]) /\ todo \in [Requests -> Seq(Session)]
  BY DEF TypeInv, QueuesOK
<1>2. todo' = [todo EXCEPT ![r] = <<x>> \o Tail(todo[r])]
  BY DEF Sessions
<1>3. todo'[r] = <<x>> \o Tail(todo[r]) /\ \A q \in Requests \ {r} : todo'[q] = todo[q]
  BY <1>1, <1>2
<1>4. /\ todo'[r] \in Seq(Session) /\ Len(todo'[r]) = Len(todo[r]) /\ Len(todo[r]) \in Nat \ {0}
      /\ todo'[r][1] = x /\ \A i \in 2..Len(todo[r]) : todo'[r][i] = todo[r][i]
  BY <1>1, <1>3, SwapHead
<1>5. todo' \in [Requests -> Seq(Session)]
  BY <1>1, <1>2, <1>3, <1>4
<1>6. Ordered(todo'[r])
  BY <1>1, <1>4 DEF Ordered
<1>7. todo'[r] # <<>> /\ Head(todo'[r]) = x
  BY <1>4
<1>8. QueuesOK'
  BY <1>3, <1>5, <1>6, <1>1 DEF QueuesOK, TypeInv
<1> QED BY <1>3, <1>4, <1>7, <1>8

LEMMA HeadDropped ==
  ASSUME TypeInv, NEW r \in Requests, todo[r] # <<>>, Sessions(r, <<>>)
  PROVE  /\ QueuesOK'
         /\ Len(todo[r]) \in Nat \ {0} /\ Len(todo'[r]) = Len(todo[r]) - 1
         /\ \A i \in 1..(Len(todo[r]) - 1) : todo'[r][i] = todo[r][i + 1]
         /\ \A q \in Requests \ {r} : todo'[q] = todo[q]
<1>1. todo[r] \in Seq(Session) /\ Ordered(todo[r]) /\ todo \in [Requests -> Seq(Session)]
  BY DEF TypeInv, QueuesOK
<1>2. todo' = [todo EXCEPT ![r] = <<>> \o Tail(todo[r])]
  BY DEF Sessions
<1>3. todo'[r] = <<>> \o Tail(todo[r]) /\ \A q \in Requests \ {r} : todo'[q] = todo[q]
  BY <1>1, <1>2
<1>4. /\ todo'[r] \in Seq(Session) /\ Len(todo'[r]) = Len(todo[r]) - 1 /\ Len(todo[r]) \in Nat \ {0}
      /\ \A i \in 1..(Len(todo[r]) - 1) : todo'[r][i] = todo[r][i + 1]
  BY <1>1, <1>3, DropHead
<1>5. todo' \in [Requests -> Seq(Session)]
  BY <1>1, <1>2, <1>3, <1>4
<1>6. Ordered(todo'[r])
  <2> DEFINE n == Len(todo[r])
  <2>1. \A i \in 2..(n - 1) : i + 1 \in 2..n /\ i \in 1..(n - 1)
    BY <1>4
  <2>2. \A i \in 2..(n - 1) : todo'[r][i].do \in {"scan", "min", "rules"}
    BY <1>1, <1>4, <2>1 DEF Ordered
  <2>3. \A i, k \in 2..(n - 1) : i < k => Rank(todo'[r][i].do) < Rank(todo'[r][k].do)
    BY <1>1, <1>4, <2>1 DEF Ordered
  <2>4. ASSUME NEW i \in 2..(n - 1) PROVE todo'[r][i].do # "scan"
    <3>1. i + 1 \in 2..n /\ 2 \in 2..n /\ 2 < i + 1
      BY <1>4, <2>1
    <3>2. todo[r][2].do \in {"scan", "min", "rules"} /\ Rank(todo[r][2].do) < Rank(todo[r][i + 1].do)
      BY <1>1, <3>1 DEF Ordered
    <3>3. todo[r][i + 1].do # "scan"
      BY <3>2 DEF Rank
    <3> QED BY <1>4, <2>1, <3>3
  <2> QED BY <1>4, <2>2, <2>3, <2>4 DEF Ordered
<1>7. QueuesOK'
  BY <1>3, <1>5, <1>6, <1>1 DEF QueuesOK, TypeInv
<1> QED BY <1>3, <1>4, <1>7

LEMMA LocationsQueued ==
  ASSUME TypeInv, NEW r \in Requests, Turn(r, "where"), NEW A \in Aways,
         Sessions(r, <<[do |-> "back", away |-> A], [do |-> "scan", away |-> A]>>)
  PROVE  /\ QueuesOK'
         /\ Len(todo[r]) \in Nat \ {0} /\ Len(todo'[r]) = Len(todo[r]) + 1
         /\ todo'[r][1] = [do |-> "back", away |-> A]
         /\ todo'[r][2] = [do |-> "scan", away |-> A]
         /\ \A i \in 2..Len(todo[r]) : todo'[r][i + 1] = todo[r][i]
         /\ \A q \in Requests \ {r} : todo'[q] = todo[q]
<1> DEFINE x == [do |-> "back", away |-> A]
           y == [do |-> "scan", away |-> A]
<1>0. x \in Session /\ y \in Session /\ x.do = "back" /\ y.do = "scan"
  BY DEF Session
<1> HIDE DEF x, y
<1>1. todo[r] \in Seq(Session) /\ Ordered(todo[r]) /\ todo \in [Requests -> Seq(Session)]
      /\ todo[r] # <<>> /\ todo[r][1].do = "where"
  BY DEF TypeInv, QueuesOK, Turn
<1>2. todo' = [todo EXCEPT ![r] = <<x, y>> \o Tail(todo[r])]
  BY DEF Sessions, x, y
<1>3. todo'[r] = <<x, y>> \o Tail(todo[r]) /\ \A q \in Requests \ {r} : todo'[q] = todo[q]
  BY <1>1, <1>2
<1>4. /\ todo'[r] \in Seq(Session) /\ Len(todo'[r]) = Len(todo[r]) + 1 /\ Len(todo[r]) \in Nat \ {0}
      /\ todo'[r][1] = x /\ todo'[r][2] = y
      /\ \A i \in 2..Len(todo[r]) : todo'[r][i + 1] = todo[r][i]
  BY <1>0, <1>1, <1>3, SplitHead
<1>5. todo' \in [Requests -> Seq(Session)]
  BY <1>1, <1>2, <1>3, <1>4
<1>6. Ordered(todo'[r])
  <2> DEFINE n == Len(todo[r])
  <2>1. \A i \in 2..n : todo[r][i].do \in {"min", "rules"}
    BY <1>1 DEF Ordered
  <2>2. \A i \in 2..(n + 1) : i = 2 \/ (i - 1 \in 2..n /\ todo'[r][i] = todo[r][i - 1])
    <3>1. ASSUME NEW i \in 2..(n + 1), i # 2 PROVE i - 1 \in 2..n /\ todo'[r][(i - 1) + 1] = todo[r][i - 1]
      BY <1>4, <3>1
    <3>2. \A i \in 2..(n + 1) : (i - 1) + 1 = i
      BY <1>4
    <3> QED BY <3>1, <3>2
  <2>3. \A i \in 2..(n + 1) : todo'[r][i].do \in {"scan", "min", "rules"} /\ (todo'[r][i].do = "scan" => i = 2)
    BY <1>0, <1>4, <2>1, <2>2
  <2>4. ASSUME NEW i \in 2..(n + 1), NEW k \in 2..(n + 1), i < k
        PROVE  Rank(todo'[r][i].do) < Rank(todo'[r][k].do)
    <3>1. k # 2 /\ k - 1 \in 2..n /\ todo'[r][k] = todo[r][k - 1]
      BY <1>4, <2>2, <2>4
    <3>2. CASE i = 2
      BY <1>0, <1>4, <2>1, <3>1, <3>2 DEF Rank
    <3>3. CASE i # 2
      <4>1. i - 1 \in 2..n /\ todo'[r][i] = todo[r][i - 1] /\ i - 1 < k - 1
        BY <1>4, <2>2, <2>4, <3>3
      <4> QED BY <1>1, <3>1, <4>1 DEF Ordered
    <3> QED BY <3>2, <3>3
  <2> QED BY <1>0, <1>4, <2>3, <2>4 DEF Ordered
<1>7. QueuesOK'
  BY <1>3, <1>5, <1>6, <1>1 DEF QueuesOK, TypeInv
<1> QED BY <1>3, <1>4, <1>7 DEF x, y

\* The tasks of a request are in the order of a queue, one for each setting that
\* changed.
LEMMA NewTasks ==
  ASSUME NEW p \in Prefs, prefs \in Prefs
  PROVE  /\ TasksFor(p) \in Seq(Session) /\ Ordered(TasksFor(p))
         /\ \A i \in 1..Len(TasksFor(p)) :
              /\ TasksFor(p)[i].do \in {"where", "min", "rules"}
              /\ TasksFor(p)[i].do = "min" => TasksFor(p)[i].min = p.min
         /\ p.away # prefs.away => \E i \in 1..Len(TasksFor(p)) : TasksFor(p)[i].do = "where"
         /\ p.min # prefs.min => \E i \in 1..Len(TasksFor(p)) : TasksFor(p)[i].do = "min"
         /\ p.applied # prefs.applied \/ p.comparison # prefs.comparison =>
              \E i \in 1..Len(TasksFor(p)) : TasksFor(p)[i].do = "rules"
<1> DEFINE w == [do |-> "where"]
           m == [do |-> "min", min |-> p.min]
           u == [do |-> "rules"]
           Good(q) == /\ q \in Seq(Session) /\ Ordered(q)
                      /\ \A i \in 1..Len(q) : /\ q[i].do \in {"where", "min", "rules"}
                                              /\ q[i].do = "min" => q[i].min = p.min
           Has(q, kind) == \E i \in 1..Len(q) : q[i].do = kind
<1>1. w \in Session /\ m \in Session /\ u \in Session
  BY DEF Session, Prefs
<1>2. w.do = "where" /\ m.do = "min" /\ m.min = p.min /\ u.do = "rules"
  OBVIOUS
<1> HIDE DEF w, m, u
<1>3. Good(<<>>)
  BY DEF Ordered
<1>4. ASSUME NEW x \in {w, m, u} PROVE Good(<<x>>) /\ Has(<<x>>, x.do)
  <2>1. <<x>> \in Seq(Session) /\ Len(<<x>>) = 1 /\ <<x>>[1] = x
    BY <1>1
  <2> QED BY <1>2, <2>1 DEF Ordered
<1>5. ASSUME NEW x \in {w, m}, NEW y \in {m, u}, x.do # y.do
      PROVE  Good(<<x, y>>) /\ Has(<<x, y>>, x.do) /\ Has(<<x, y>>, y.do)
  <2>1. <<x, y>> \in Seq(Session) /\ Len(<<x, y>>) = 2 /\ <<x, y>>[1] = x /\ <<x, y>>[2] = y
    BY <1>1
  <2> QED BY <1>2, <1>5, <2>1 DEF Ordered
<1>6. /\ Good(<<w, m, u>>) /\ Has(<<w, m, u>>, "where")
      /\ Has(<<w, m, u>>, "min") /\ Has(<<w, m, u>>, "rules")
  <2> DEFINE q == <<w, m, u>>
  <2>1. q \in Seq(Session) /\ Len(q) = 3 /\ q[1] = w /\ q[2] = m /\ q[3] = u
    BY <1>1
  <2> HIDE DEF q
  <2>2. \A i \in 2..3 : i = 2 \/ i = 3
    OBVIOUS
  <2>3. Ordered(q)
    BY <1>2, <2>1, <2>2 DEF Ordered, Rank
  <2>4. \A i \in 1..3 : i = 1 \/ i = 2 \/ i = 3
    OBVIOUS
  <2> QED BY <1>2, <2>1, <2>3, <2>4 DEF q
<1>7. TasksFor(p) = (IF p.away # prefs.away THEN <<w>> ELSE <<>>) \o
                    (IF p.min # prefs.min THEN <<m>> ELSE <<>>) \o
                    (IF p.applied # prefs.applied \/ p.comparison # prefs.comparison
                       THEN <<u>> ELSE <<>>)
  BY DEF TasksFor, w, m, u
<1>8. \/ TasksFor(p) = <<>> /\ p.away = prefs.away /\ p.min = prefs.min
                            /\ p.applied = prefs.applied /\ p.comparison = prefs.comparison
      \/ TasksFor(p) = <<w>> /\ p.min = prefs.min
                             /\ p.applied = prefs.applied /\ p.comparison = prefs.comparison
      \/ TasksFor(p) = <<m>> /\ p.away = prefs.away
                             /\ p.applied = prefs.applied /\ p.comparison = prefs.comparison
      \/ TasksFor(p) = <<u>> /\ p.away = prefs.away /\ p.min = prefs.min
      \/ TasksFor(p) = <<w, m>> /\ p.applied = prefs.applied /\ p.comparison = prefs.comparison
      \/ TasksFor(p) = <<w, u>> /\ p.min = prefs.min
      \/ TasksFor(p) = <<m, u>> /\ p.away = prefs.away
      \/ TasksFor(p) = <<w, m, u>>
  <2>1. /\ <<>> \o <<>> \o <<>> = <<>> /\ <<w>> \o <<>> \o <<>> = <<w>>
        /\ <<>> \o <<m>> \o <<>> = <<m>> /\ <<>> \o <<>> \o <<u>> = <<u>>
    OBVIOUS
  <2>2. <<w>> \o <<m>> = <<w, m>> /\ <<w>> \o <<u>> = <<w, u>> /\ <<m>> \o <<u>> = <<m, u>>
        /\ <<w, m>> \o <<u>> = <<w, m, u>>
    BY <1>1, Concats
  <2>3. <<w>> \o <<>> = <<w>> /\ <<>> \o <<m>> = <<m>> /\ <<w, m>> \o <<>> = <<w, m>>
    BY <1>1, ConcatEmptySeq
  <2> QED BY <1>7, <2>1, <2>2, <2>3
<1>9. Good(TasksFor(p))
  BY <1>2, <1>3, <1>4, <1>5, <1>6, <1>8
<1>10. /\ p.away # prefs.away => Has(TasksFor(p), "where")
       /\ p.min # prefs.min => Has(TasksFor(p), "min")
       /\ p.applied # prefs.applied \/ p.comparison # prefs.comparison => Has(TasksFor(p), "rules")
  BY <1>2, <1>3, <1>4, <1>5, <1>6, <1>8
<1> QED BY <1>9, <1>10

LEMMA OneTask ==
  ASSUME NEW x \in Session
  PROVE  <<x>> \in Seq(Session) /\ Ordered(<<x>>) /\ Len(<<x>>) = 1 /\ <<x>>[1] = x
  BY DEF Ordered
-----------------------------------------------------------------------------
(* Rows. *)

LEMMA PartialMeans ==
  ASSUME NEW w
  PROVE  w \in Partial <=> \E D \in SUBSET Jobs : w \in [D -> Rows]
  BY DEF Partial

LEMMA MergeRows ==
  ASSUME NEW rows \in [Jobs -> Rows], NEW w \in Partial
  PROVE  /\ Merge(rows, w) \in [Jobs -> Rows] /\ DOMAIN w \subseteq Jobs
         /\ \A j \in Jobs : Merge(rows, w)[j] = IF j \in DOMAIN w THEN w[j] ELSE rows[j]
         /\ \A j \in DOMAIN w : w[j] \in Rows
<1>1. PICK D \in SUBSET Jobs : w \in [D -> Rows]
  BY PartialMeans
<1> QED BY <1>1 DEF Merge

LEMMA RowValues ==
  /\ Shown \in Rows /\ Row("none", None, None) \in Rows /\ Row("manual_hidden", "manual", None) \in Rows
  /\ \A j \in Jobs : Hidden("superseded", j) \in Rows
  /\ \A why \in {"same_url", "similar", "lower_score"}, k \in Jobs : Hidden(why, k) \in Rows
  /\ \A why \in {"unfit", "below_min", "outside", "applied", "manual"} : Hidden(why, None) \in Rows
  BY DEF Shown, Hidden, Row, Rows, Statuses, Whys

LEMMA MinimumType == \A m \in Minimums \cup {0} : m \in Nat
<1>1. \A m \in Minimums : m \in Nat
  BY BoardAssumption
<1> QED BY <1>1

\* What the duplicate check decides, rule by rule.
LEMMA DecisionKinds ==
  ASSUME TypeInv, NEW j \in Jobs, NEW s \in Scores, NEW unfit \in BOOLEAN,
         NEW w \in Decisions(j, s, unfit)
  PROVE  \/ w = Only(j, Shown) /\ (j \in Quick \/ s >= prefs.min)
         \/ w = Only(j, Hidden("unfit", None))
         \/ w = Only(j, Hidden("below_min", None)) /\ (s = 0 \/ s < prefs.min)
         \/ w = Only(j, Hidden("outside", None)) /\ j \in prefs.away
         \/ w = Only(j, Hidden("applied", None)) /\ prefs.applied
         \/ \E k \in Actives(j) : \/ w = Only(j, Hidden("same_url", k))
                                  \/ w = Only(j, Hidden("similar", k))
                                  \/ w = Only(j, Hidden("lower_score", k)) /\ prefs.comparison
                                  \/ w = Supersede(j, k) /\ prefs.comparison /\ s >= prefs.min
<1>0. s \in Nat /\ prefs.min \in Nat
  <2>1. Minimums \subseteq Nat /\ MaxScore \in Nat
    BY BoardAssumption
  <2>2. prefs.min \in Minimums \cup {0}
    BY DEF TypeInv, Prefs
  <2>3. s \in Nat
    BY <2>1 DEF Scores
  <2> QED BY <2>2, <2>3, MinimumType
<1>1. CASE j \in Quick
  BY <1>1 DEF Decisions
<1>2. CASE j \notin Quick /\ unfit
  BY <1>2 DEF Decisions
<1>3. CASE j \notin Quick /\ ~unfit /\ (s = 0 \/ s < prefs.min)
  BY <1>3 DEF Decisions
<1> DEFINE Passes == j \notin Quick /\ ~unfit /\ ~(s = 0 \/ s < prefs.min)
<1>4. CASE Passes /\ j \in prefs.away
  BY <1>4 DEF Decisions
<1>5. CASE Passes /\ j \notin prefs.away /\ SameUrl(j) # {}
  BY <1>5 DEF Decisions, SameUrl
<1>6. CASE Passes /\ j \notin prefs.away /\ SameUrl(j) = {} /\ Twins(j) # {}
  BY <1>6 DEF Decisions, Twins, Rivals
<1>7. CASE Passes /\ j \notin prefs.away /\ SameUrl(j) = {} /\ Twins(j) = {}
           /\ prefs.applied /\ Rivals(j) \cap applied # {}
  BY <1>7 DEF Decisions
<1>8. CASE Passes /\ j \notin prefs.away /\ SameUrl(j) = {} /\ Twins(j) = {}
           /\ ~(prefs.applied /\ Rivals(j) \cap applied # {})
  <2>1. w \in Compare(j, s)
    BY <1>8 DEF Decisions
  <2>2. s >= prefs.min
    BY <1>0, <1>8
  <2>3. CASE ~prefs.comparison \/ Best(Rivals(j)) = {}
    BY <2>1, <2>2, <2>3 DEF Compare
  <2>4. CASE prefs.comparison /\ Best(Rivals(j)) # {}
    <3>1. PICK k \in Best(Rivals(j)) :
            w = IF s > score[k] THEN Supersede(j, k) ELSE Only(j, Hidden("lower_score", k))
      BY <2>1, <2>4 DEF Compare
    <3>2. k \in Actives(j)
      BY DEF Best, Rivals
    <3> QED BY <2>2, <2>4, <3>1, <3>2
  <2> QED BY <2>1, <2>3, <2>4 DEF TypeInv, Prefs
<1> QED BY <1>1, <1>2, <1>3, <1>4, <1>5, <1>6, <1>7, <1>8

LEMMA DecisionType ==
  ASSUME TypeInv, NEW j \in Jobs, NEW s \in Scores, NEW unfit \in BOOLEAN,
         NEW w \in Decisions(j, s, unfit)
  PROVE  w \in Partial /\ j \in DOMAIN w
<1>1. ASSUME NEW r \in Rows, w = Only(j, r) PROVE w \in Partial /\ j \in DOMAIN w
  <2>1. w \in [{j} -> Rows]
    BY <1>1 DEF Only
  <2> QED BY <2>1, PartialMeans
<1>2. ASSUME NEW k \in Jobs, w = Supersede(j, k) PROVE w \in Partial /\ j \in DOMAIN w
  <2>1. w \in [{j, k} -> Rows]
    BY <1>2, RowValues DEF Supersede
  <2> QED BY <2>1, PartialMeans
<1>3. \A k \in Actives(j) : k \in Jobs
  BY DEF Actives
<1> QED BY <1>1, <1>2, <1>3, RowValues, DecisionKinds
-----------------------------------------------------------------------------
(* What the tasks decide. *)

LEMMA AsPartial ==
  ASSUME NEW D \in SUBSET Jobs, NEW w \in [D -> Rows]
  PROVE  w \in Partial
  BY PartialMeans

LEMMA MinDecision ==
  ASSUME TypeInv, NEW r \in Requests, ApplyMin(r)
  PROVE  \E w \in Partial :
           LET m == Head(todo[r]).min IN
           /\ Turn(r, "min") /\ Decide(r, w, {})
           /\ DOMAIN w = MinHide(m) \cup MinBack(m)
           /\ \A j \in DOMAIN w : w[j] = IF j \in MinBack(m) THEN Shown
                                         ELSE Hidden("below_min", None)
<1> DEFINE m == Head(todo[r]).min
           w == [j \in MinHide(m) \cup MinBack(m) |->
                   IF j \in MinBack(m) THEN Shown ELSE Hidden("below_min", None)]
<1>1. Turn(r, "min") /\ Decide(r, w, {})
  BY DEF ApplyMin
<1>2. MinHide(m) \cup MinBack(m) \in SUBSET Jobs
  BY DEF MinHide, MinBack, HiddenAs
<1>3. w \in [MinHide(m) \cup MinBack(m) -> Rows]
  BY RowValues
<1>4. w \in Partial
  BY <1>2, <1>3, AsPartial
<1> QED BY <1>1, <1>4

\* Every job that the rules hide for another is left behind one that stays.
LEMMA RulesDecision ==
  ASSUME TypeInv, NEW r \in Requests, ApplyRules(r)
  PROVE  \E w \in Partial, end \in [Jobs -> Rows] :
           /\ Turn(r, "rules") /\ Decide(r, w, RulesBack)
           /\ DOMAIN w = {j \in Jobs : end[j] # row[j]} /\ \A j \in DOMAIN w : w[j] = end[j]
           /\ \A j \in Jobs :
                \/ end[j] = row[j] /\ j \notin RulesBack
                \/ end[j] = Shown /\ j \in RulesBack
                \/ /\ Visible(row, j) \/ j \in RulesBack
                   /\ \/ end[j] = Hidden("applied", None) /\ prefs.applied
                      \/ \E k \in Jobs : /\ end[j] = Hidden("lower_score", k) /\ prefs.comparison
                                         /\ Visible(end, k)
<1> DEFINE back == [j \in RulesBack |-> Shown]
           after == Merge(row, back)
           gone == [j \in AppliedHide(after) |-> Hidden("applied", None)]
           left == Merge(after, gone)
           Best1(W, j) == CHOOSE k \in W \cap Group(left, j) : TRUE
           lost(W) == [j \in Losers(left, W) |-> Hidden("lower_score", Best1(W, j))]
           end(W) == Merge(left, lost(W))
           changed(W) == {j \in Jobs : end(W)[j] # row[j]}
<1>1. PICK W \in Winners(left) : Decide(r, [j \in changed(W) |-> end(W)[j]], RulesBack)
  BY DEF ApplyRules
<1>2. Turn(r, "rules")
  BY DEF ApplyRules
<1>3. \A j \in Jobs : after[j] = IF j \in RulesBack THEN Shown ELSE row[j]
  BY DEF Merge
<1>4. \A j \in Jobs : left[j] = IF j \in AppliedHide(after) THEN Hidden("applied", None) ELSE after[j]
  BY DEF Merge
<1>5. \A j \in Jobs : end(W)[j] = IF j \in Losers(left, W)
                                  THEN Hidden("lower_score", Best1(W, j)) ELSE left[j]
  BY DEF Merge
<1> HIDE DEF after, left, end, back, gone, lost
<1>6. \A j \in AppliedHide(after) : prefs.applied /\ Visible(after, j)
  BY DEF AppliedHide
<1>7. ASSUME NEW j \in Losers(left, W)
      PROVE  /\ j \in Jobs /\ prefs.comparison /\ Visible(left, j)
             /\ Best1(W, j) \in Jobs /\ Visible(left, Best1(W, j)) /\ Best1(W, j) \notin Losers(left, W)
  <2>1. j \in Jobs /\ prefs.comparison /\ j \in Group(left, j)
    BY <1>7 DEF Losers
  <2>2. PICK k : W \cap Group(left, j) = {k}
    BY <1>1, <2>1 DEF Winners
  <2>3. Best1(W, j) \in W \cap Group(left, j)
    BY <2>2
  <2> QED BY <2>1, <2>3 DEF Group, Losers
<1>8. \A j \in Jobs : Visible(left, j) => left[j] = after[j] /\ Visible(after, j)
  BY <1>4 DEF Visible, Hidden, Row
<1>9. \A j \in Jobs : Visible(after, j) => Visible(row, j) \/ j \in RulesBack
  BY <1>3 DEF Visible
<1>10. ASSUME NEW j \in Jobs
       PROVE  /\ end(W)[j] \in Rows
              /\ \/ end(W)[j] = row[j] /\ j \notin RulesBack
                 \/ end(W)[j] = Shown /\ j \in RulesBack
                 \/ /\ Visible(row, j) \/ j \in RulesBack
                    /\ \/ end(W)[j] = Hidden("applied", None) /\ prefs.applied
                       \/ \E k \in Jobs : /\ end(W)[j] = Hidden("lower_score", k) /\ prefs.comparison
                                          /\ Visible(end(W), k)
  <2>1. CASE j \in Losers(left, W)
    <3>1. /\ end(W)[j] = Hidden("lower_score", Best1(W, j)) /\ prefs.comparison
          /\ Best1(W, j) \in Jobs /\ (Visible(row, j) \/ j \in RulesBack)
      BY <1>5, <1>7, <1>8, <1>9, <2>1
    <3>2. Visible(end(W), Best1(W, j))
      BY <1>5, <1>7, <2>1 DEF Visible
    <3> QED BY <3>1, <3>2, RowValues
  <2>2. CASE j \notin Losers(left, W) /\ j \in AppliedHide(after)
    BY <1>4, <1>5, <1>6, <1>9, <2>2, RowValues
  <2>3. CASE j \notin Losers(left, W) /\ j \notin AppliedHide(after)
    <3>1. row[j] \in Rows
      BY DEF TypeInv
    <3> QED BY <1>3, <1>4, <1>5, <2>3, <3>1, RowValues
  <2> QED BY <2>1, <2>2, <2>3
<1>11. end(W) \in [Jobs -> Rows]
  <2>1. end(W) = [j \in Jobs |-> end(W)[j]]
    BY DEF end, Merge
  <2> QED BY <1>10, <2>1
<1> DEFINE w == [j \in changed(W) |-> end(W)[j]]
<1>12. w \in Partial
  <2>1. changed(W) \in SUBSET Jobs /\ w \in [changed(W) -> Rows]
    BY <1>10
  <2> QED BY <2>1, AsPartial
<1>13. DOMAIN w = changed(W) /\ \A j \in DOMAIN w : w[j] = end(W)[j]
  OBVIOUS
<1> QED BY <1>1, <1>2, <1>10, <1>11, <1>12, <1>13

LEMMA BackDecision ==
  ASSUME TypeInv, NEW r \in Requests, LocationBack(r)
  PROVE  \E w \in Partial :
           LET back == HiddenAs(row, {"outside"}) \ Head(todo[r]).away IN
           /\ Turn(r, "back") /\ Decide(r, w, back) /\ back \subseteq Jobs
           /\ DOMAIN w = back /\ \A j \in back : w[j] = Shown
<1> DEFINE back == HiddenAs(row, {"outside"}) \ Head(todo[r]).away
           w == [j \in back |-> Shown]
<1>1. Turn(r, "back") /\ Decide(r, w, back)
  BY DEF LocationBack
<1>2. back \in SUBSET Jobs
  BY DEF HiddenAs
<1>3. w \in [back -> Rows]
  BY RowValues
<1> QED BY <1>1, <1>2, <1>3, AsPartial

LEMMA ScanDecision ==
  ASSUME TypeInv, NEW r \in Requests, ListVisible(r)
  PROVE  \E w \in Partial :
           /\ Turn(r, "scan") /\ Decide(r, w, {})
           /\ DOMAIN w = {j \in Head(todo[r]).away : Visible(row, j)}
           /\ \A j \in DOMAIN w : w[j] = Hidden("outside", None)
<1> DEFINE S == {j \in Head(todo[r]).away : Visible(row, j)}
           w == [j \in S |-> Hidden("outside", None)]
<1>1. Turn(r, "scan") /\ Decide(r, w, {})
  BY DEF ListVisible
<1>2. S \in SUBSET Jobs
  <2>1. todo[r] \in Seq(Session) /\ todo[r] # <<>>
    BY <1>1 DEF TypeInv, QueuesOK, Turn
  <2>2. Head(todo[r]) \in Session /\ Head(todo[r]).do = "scan"
    BY <1>1, <2>1 DEF Turn
  <2>3. Head(todo[r]).away \in Aways
    BY <2>2 DEF Session
  <2> QED BY <2>3, BoardAssumption
<1>3. w \in [S -> Rows]
  BY RowValues
<1> QED BY <1>1, <1>2, <1>3, AsPartial
-----------------------------------------------------------------------------
(* Types, and the order of the queues. *)

\* A session that decides leaves its rows at the head of the queue.
LEMMA Deciding ==
  ASSUME TypeInv, NEW r \in Requests, todo[r] # <<>>,
         NEW w \in Partial, NEW back \in SUBSET Jobs, Decide(r, w, back)
  PROVE  /\ TypeInv'
         /\ todo'[r] # <<>> /\ Head(todo'[r]) = [do |-> "write", rows |-> w, back |-> back]
         /\ Len(todo'[r]) = Len(todo[r]) /\ todo'[r][1].do = "write"
         /\ \A i \in 2..Len(todo[r]) : todo'[r][i] = todo[r][i]
         /\ \A q \in Requests \ {r} : todo'[q] = todo[q]
<1> DEFINE x == [do |-> "write", rows |-> w, back |-> back]
<1>1. x \in Session /\ x.do = "write"
  BY DEF Session
<1> HIDE DEF x
<1>2. Sessions(r, <<x>>) /\ UNCHANGED <<row, score, applied, prefs, save, returned, used>>
  BY DEF Decide, x
<1>3. /\ QueuesOK'
      /\ todo'[r] # <<>> /\ Head(todo'[r]) = x /\ Len(todo'[r]) = Len(todo[r])
      /\ todo'[r][1] = x /\ \A i \in 2..Len(todo[r]) : todo'[r][i] = todo[r][i]
      /\ \A q \in Requests \ {r} : todo'[q] = todo[q]
  BY <1>1, <1>2, WriteQueued
<1>4. TypeInv'
  BY <1>2, <1>3 DEF TypeInv, SaveOK, UsedOK, Decided
<1> QED BY <1>1, <1>3, <1>4 DEF x

\* The head of a queue, by what it is to do.
LEMMA HeadType ==
  ASSUME TypeInv, NEW r \in Requests, todo[r] # <<>>
  PROVE  /\ Head(todo[r]) \in Session /\ Head(todo[r]) = todo[r][1]
         /\ Len(todo[r]) \in Nat \ {0}
         /\ Turn(r, "write") => Head(todo[r]).rows \in Partial /\ Head(todo[r]).back \subseteq Jobs
<1>1. todo[r] \in Seq(Session)
  BY DEF TypeInv, QueuesOK
<1>2. Head(todo[r]) \in Session /\ Head(todo[r]) = todo[r][1] /\ Len(todo[r]) \in Nat \ {0}
  BY <1>1
<1>3. Turn(r, "write") => Head(todo[r]).rows \in Partial /\ Head(todo[r]).back \subseteq Jobs
  BY <1>2 DEF Turn, Session
<1> QED BY <1>2, <1>3

LEMMA WhatTasksDo ==
  ASSUME TypeInv, NEW r \in Requests, ApplyMin(r) \/ ApplyRules(r) \/ LocationBack(r) \/ ListVisible(r)
  PROVE  \E w \in Partial, back \in SUBSET Jobs : Decide(r, w, back) /\ todo[r] # <<>>
<1>1. RulesBack \in SUBSET Jobs /\ {} \in SUBSET Jobs
  BY DEF RulesBack, HiddenAs
<1>2. CASE ApplyMin(r)
  BY <1>1, <1>2, MinDecision DEF Turn
<1>3. CASE ApplyRules(r)
  BY <1>1, <1>3, RulesDecision DEF Turn
<1>4. CASE LocationBack(r)
  BY <1>4, BackDecision DEF Turn
<1>5. CASE ListVisible(r)
  BY <1>1, <1>5, ScanDecision DEF Turn
<1> QED BY <1>2, <1>3, <1>4, <1>5

LEMMA Events ==
  ASSUME UsedOK, NEW e \in {"saves", "asks", "losses"}, NEW bound, Use(e, bound)
  PROVE  /\ UsedOK' /\ used'["losses"] \in Nat
         /\ e = "losses" => used'["losses"] > 0
         /\ e # "losses" => used'["losses"] = used["losses"]
  BY DEF UsedOK, Use

\* A request that waits for nothing takes a queue.
LEMMA Queued ==
  ASSUME TypeInv, NEW r \in Requests, NEW q \in Seq(Session), Ordered(q),
         todo' = [todo EXCEPT ![r] = q]
  PROVE  QueuesOK' /\ todo'[r] = q /\ \A p \in Requests \ {r} : todo'[p] = todo[p]
<1>1. todo \in [Requests -> Seq(Session)] /\ \A p \in Requests : Ordered(todo[p])
  BY DEF TypeInv, QueuesOK
<1>2. todo' \in [Requests -> Seq(Session)] /\ todo'[r] = q /\ \A p \in Requests \ {r} : todo'[p] = todo[p]
  BY <1>1
<1> QED BY <1>1, <1>2 DEF QueuesOK

LEMMA ActType ==
  ASSUME TypeInv, NEW j \in Jobs, NEW x \in Rows, NEW b \in BOOLEAN, Act(j, x, b)
  PROVE  TypeInv' /\ used'["losses"] = used["losses"]
<1>1. UsedOK' /\ used'["losses"] = used["losses"]
  BY Events DEF Act, TypeInv
<1>2. row' \in [Jobs -> Rows] /\ returned' \subseteq Jobs
  BY DEF Act, TypeInv
<1> QED BY <1>1, <1>2 DEF TypeInv, SaveOK, QueuesOK, Act

\* What the user does by hand: a row goes to one of these, by one act.
LEMMA HandRows ==
  ASSUME TypeInv, NEW j \in Jobs, ByHand(j)
  PROVE  \E x \in Rows, b \in BOOLEAN :
           /\ Act(j, x, b)
           /\ \/ x = Shown /\ b
              \/ x = Row("none", None, None) /\ b
              \/ x = Row("manual_hidden", "manual", None)
              \/ x = Hidden("manual", None)
              \/ x = Row(row[j].status, "manual", None) /\ b = (j \in returned)
<1>1. row[j] \in Rows
  BY DEF TypeInv
<1>2. Row(row[j].status, "manual", None) \in Rows
  BY <1>1 DEF Row, Rows, Whys
<1>3. TRUE \in BOOLEAN /\ FALSE \in BOOLEAN /\ (j \in returned) \in BOOLEAN
  OBVIOUS
<1>4. CASE Submit(j)
  BY <1>3, <1>4, RowValues DEF Submit
<1>5. CASE Hide(j)
  BY <1>3, <1>5, RowValues DEF Hide
<1>6. CASE CallDuplicate(j)
  BY <1>3, <1>6, RowValues DEF CallDuplicate
<1>7. CASE Restore(j)
  BY <1>3, <1>7, RowValues DEF Restore
<1>8. CASE CallInvalid(j)
  BY <1>2, <1>3, <1>8 DEF CallInvalid
<1>9. CASE Forget(j)
  BY <1>3, <1>9, RowValues DEF Forget
<1> QED BY <1>4, <1>5, <1>6, <1>7, <1>8, <1>9 DEF ByHand

LEMMA InitType == Init => TypeInv
<1> SUFFICES ASSUME Init PROVE TypeInv
  OBVIOUS
<1>1. row \in [Jobs -> Rows] /\ score \in [Jobs -> Scores \cup {None}]
  BY RowValues DEF Init
<1>2. applied \subseteq Jobs /\ returned \subseteq Jobs /\ prefs \in Prefs
  BY BoardAssumption DEF Init, Prefs
<1>3. SaveOK /\ UsedOK
  BY DEF Init, SaveOK, UsedOK
<1>4. QueuesOK
  BY DEF Init, QueuesOK, Ordered
<1> QED BY <1>1, <1>2, <1>3, <1>4 DEF TypeInv

LEMMA TypeStep ==
  ASSUME TypeInv, [Next]_vars
  PROVE  TypeInv'
<1>1. ASSUME NEW j \in Jobs, NEW s \in 0..MaxScore, NEW unfit \in BOOLEAN, SaveRead(j, s, unfit)
      PROVE  TypeInv'
  <2>1. PICK w \in Decisions(j, s, unfit) : save' = [at |-> "decided", job |-> j, score |-> s, rows |-> w]
    BY <1>1 DEF SaveRead
  <2>2. w \in Partial /\ j \in DOMAIN w
    BY <2>1, DecisionType DEF Scores
  <2>3. SaveOK'
    BY <2>1, <2>2 DEF SaveOK, Decided, Scores
  <2>4. UsedOK'
    BY <1>1, Events DEF SaveRead, TypeInv
  <2> QED BY <1>1, <2>3, <2>4 DEF SaveRead, TypeInv, QueuesOK
<1>2. CASE SaveWrite
  <2>1. save \in Decided
    BY <1>2 DEF SaveWrite, TypeInv, SaveOK
  <2>2. row' \in [Jobs -> Rows]
    BY <1>2, <2>1, MergeRows DEF SaveWrite, TypeInv, Decided
  <2>3. score' \in [Jobs -> Scores \cup {None}]
    BY <1>2, <2>1 DEF SaveWrite, TypeInv, Decided
  <2> QED BY <1>2, <2>2, <2>3 DEF SaveWrite, TypeInv, SaveOK, QueuesOK, UsedOK
<1>3. ASSUME NEW r \in Requests, ApplyMin(r) \/ ApplyRules(r) \/ LocationBack(r) \/ ListVisible(r)
      PROVE  TypeInv'
  <2>1. PICK w \in Partial, back \in SUBSET Jobs : Decide(r, w, back) /\ todo[r] # <<>>
    BY <1>3, WhatTasksDo
  <2> QED BY <2>1, Deciding
<1>4. ASSUME NEW r \in Requests, ReadCountries(r) PROVE TypeInv'
  <2>1. prefs.away \in Aways
    BY DEF TypeInv, Prefs
  <2>2. QueuesOK'
    BY <1>4, <2>1, LocationsQueued DEF ReadCountries
  <2> QED BY <1>4, <2>2 DEF ReadCountries, TypeInv, SaveOK, UsedOK
<1>5. ASSUME NEW r \in Requests, Write(r) PROVE TypeInv'
  <2>1. todo[r] # <<>> /\ Turn(r, "write") /\ Sessions(r, <<>>)
    BY <1>5 DEF Write, Turn
  <2>2. Head(todo[r]).rows \in Partial /\ Head(todo[r]).back \subseteq Jobs
    BY <2>1, HeadType
  <2>3. QueuesOK'
    BY <2>1, HeadDropped
  <2>4. row' \in [Jobs -> Rows]
    BY <1>5, <2>2, MergeRows DEF Write, TypeInv
  <2>5. returned' \subseteq Jobs
    BY <1>5, <2>2 DEF Write, TypeInv
  <2> QED BY <1>5, <2>3, <2>4, <2>5 DEF Write, TypeInv, SaveOK, UsedOK
<1>6. ASSUME NEW r \in Requests, Lose(r) PROVE TypeInv'
  <2>1. <<>> \in Seq(Session) /\ Ordered(<<>>)
    BY DEF Ordered
  <2>2. QueuesOK'
    BY <1>6, <2>1, Queued DEF Lose
  <2>3. UsedOK'
    BY <1>6, Events DEF Lose, TypeInv
  <2> QED BY <1>6, <2>2, <2>3 DEF Lose, TypeInv, SaveOK
<1>7. ASSUME NEW r \in Requests, NEW p \in Prefs, ChangePrefs(r, p) PROVE TypeInv'
  <2>1. TasksFor(p) \in Seq(Session) /\ Ordered(TasksFor(p))
    BY NewTasks DEF TypeInv
  <2>2. QueuesOK'
    BY <1>7, <2>1, Queued DEF ChangePrefs
  <2>3. UsedOK'
    BY <1>7, Events DEF ChangePrefs, TypeInv
  <2> QED BY <1>7, <2>2, <2>3 DEF ChangePrefs, TypeInv, SaveOK
<1>8. ASSUME NEW r \in Requests,
             NEW task \in {[do |-> "where"], [do |-> "rules"], [do |-> "min", min |-> prefs.min]},
             Again(r, task)
      PROVE  TypeInv'
  <2>1. prefs.min \in Minimums \cup {0}
    BY DEF TypeInv, Prefs
  <2>2. task \in Session
    BY <2>1 DEF Session
  <2>3. QueuesOK'
    BY <1>8, <2>2, OneTask, Queued DEF Again
  <2>4. UsedOK'
    BY <1>8, Events DEF Again, TypeInv
  <2> QED BY <1>8, <2>3, <2>4 DEF Again, TypeInv, SaveOK
<1>9. ASSUME NEW j \in Jobs, ByHand(j) PROVE TypeInv'
  BY <1>9, HandRows, ActType
<1>10. ASSUME NEW j \in Jobs, Apply(j) PROVE TypeInv'
  <2>1. UsedOK'
    BY <1>10, Events DEF Apply, TypeInv
  <2> QED BY <1>10, <2>1 DEF Apply, TypeInv, SaveOK, QueuesOK
<1>11. ASSUME NEW j \in Jobs, Rescore(j) PROVE TypeInv'
  <2>1. UsedOK'
    BY <1>11, Events DEF Rescore, TypeInv
  <2>2. score' \in [Jobs -> Scores \cup {None}]
    BY <1>11 DEF Rescore, TypeInv
  <2> QED BY <1>11, <2>1, <2>2 DEF Rescore, TypeInv, SaveOK, QueuesOK
<1>12. CASE UNCHANGED vars
  BY <1>12 DEF vars, TypeInv, SaveOK, QueuesOK, UsedOK
<1> QED BY <1>1, <1>2, <1>3, <1>4, <1>5, <1>6, <1>7, <1>8, <1>9, <1>10, <1>11, <1>12 DEF Next, Task

\* The rows, the queues and the save in progress are what the code stores; a
\* queue never holds more than four sessions, however often it is added to.
THEOREM Typing == Spec => []TypeOK
<1>1. TypeInv => TypeOK
  <2> SUFFICES ASSUME TypeInv PROVE TypeOK
    OBVIOUS
  <2>1. \A r \in Requests : Len(todo[r]) <= 4
    BY FourAtMost DEF TypeInv, QueuesOK
  <2> QED BY <2>1 DEF TypeInv, SaveOK, TypeOK
<1>2. TypeInv /\ [Next]_vars => TypeInv'
  BY TypeStep
<1> QED BY <1>1, <1>2, InitType, PTL DEF Spec
-----------------------------------------------------------------------------
(* Sessions that do not overlap: what the tasks decide. *)

LEMMA NoneIsNoJob == None \notin Jobs
  BY BoardAssumption

\* Rows that hide nobody for a hidden job close no circle: a circle after them
\* has none of their jobs in it, so it was there before.
LEMMA NoNewCircle ==
  ASSUME TypeInv, NoHidingCircle, NEW w \in Partial, Points(row, w), row' = Merge(row, w)
  PROVE  NoHidingCircle'
<1> SUFFICES ASSUME NEW S \in SUBSET Jobs, S # {},
                    \A j \in S : row'[j].status = "duplicated" /\ row'[j].because \in S
             PROVE  FALSE
  BY DEF NoHidingCircle
<1>1. \A j \in Jobs : row'[j] = IF j \in DOMAIN w THEN w[j] ELSE row[j]
  BY MergeRows DEF TypeInv
<1>2. \A j \in S : j \notin DOMAIN w
  BY <1>1 DEF Points
<1>3. \A j \in S : row[j].status = "duplicated" /\ row[j].because \in S
  BY <1>1, <1>2
<1> QED BY <1>3 DEF NoHidingCircle

\* Where one request works, all others wait for nothing.
LEMMA OneBusy ==
  ASSUME Alone, NEW r \in Requests, Busy(r)
  PROVE  save = NoSave /\ \A q \in Requests \ {r} : todo[q] = <<>>
  BY DEF Alone, Busy

LEMMA DecideApart ==
  ASSUME TypeInv, Serial, NEW r \in Requests, todo[r] # <<>>,
         NEW w \in Partial, NEW back \in SUBSET Jobs, Decide(r, w, back), Apart(row, w, {})
  PROVE  Alone' /\ Current' /\ WritesApart' /\ NoHidingCircle'
<1>1. /\ todo'[r] # <<>> /\ Head(todo'[r]) = [do |-> "write", rows |-> w, back |-> back]
      /\ Len(todo'[r]) = Len(todo[r]) /\ todo'[r][1].do = "write"
      /\ \A i \in 2..Len(todo[r]) : todo'[r][i] = todo[r][i]
      /\ \A q \in Requests \ {r} : todo'[q] = todo[q]
  BY Deciding
<1>2. row' = row /\ prefs' = prefs /\ save' = save
  BY DEF Decide
<1>3. save = NoSave /\ \A q \in Requests \ {r} : todo[q] = <<>>
  BY OneBusy DEF Serial, Busy
<1>4. Len(todo[r]) \in Nat \ {0}
  BY HeadType
<1>5. Alone'
  BY <1>1, <1>2, <1>3 DEF Alone, Busy
<1>6. Current'
  <2> SUFFICES ASSUME NEW q \in Requests, NEW i \in 1..Len(todo'[q])
               PROVE  /\ todo'[q][i].do = "min" => todo'[q][i].min = prefs'.min
                      /\ todo'[q][i].do \in {"back", "scan"} => todo'[q][i].away = prefs'.away
    BY DEF Current
  <2>1. CASE q # r
    BY <1>1, <1>2, <2>1 DEF Serial, Current
  <2>2. CASE q = r /\ i = 1
    BY <1>1, <2>2
  <2>3. CASE q = r /\ i # 1
    <3>1. i \in 2..Len(todo[r]) /\ i \in 1..Len(todo[r])
      BY <1>1, <1>4, <2>3
    <3> QED BY <1>1, <1>2, <2>3, <3>1 DEF Serial, Current
  <2> QED BY <2>1, <2>2, <2>3
<1>7. WritesApart'
  <2> SUFFICES ASSUME NEW q \in Requests, Writing(q)'
               PROVE  Apart(row', Head(todo'[q]).rows, {})
    BY <1>2, <1>3 DEF WritesApart
  <2>1. q = r
    BY <1>1, <1>3 DEF Writing, Turn
  <2> QED BY <1>1, <1>2, <2>1
<1>8. NoHidingCircle'
  BY <1>2 DEF NoHidingCircle, Serial
<1> QED BY <1>5, <1>6, <1>7, <1>8

\* A decision fits when the rows that it leaves and those that it writes do.
LEMMA DecideFits ==
  ASSUME TypeInv, Serial, NEW kind \in Kinds \ {"write"}, NEW r \in Requests, Turn(r, kind),
         NEW w \in Partial, NEW back \in SUBSET Jobs, Decide(r, w, back),
         used["losses"] = 0 =>
           \A ahead : Ahead \ {kind} \subseteq ahead =>
             /\ \A j \in Jobs \ DOMAIN w :
                  Fits(prefs, Ahead, j, row[j], score[j], j \in returned) =>
                    Fits(prefs, ahead, j, row[j], score[j], j \in returned)
             /\ \A j \in DOMAIN w :
                  Fits(prefs, ahead, j, w[j], score[j], j \in back /\ w[j] = Shown)
  PROVE  FitInv'
<1> SUFFICES ASSUME used'["losses"] = 0 PROVE (RowsFit /\ WritesFit /\ SaveFits)'
  BY DEF FitInv
<1>0. todo[r] # <<>>
  BY DEF Turn
<1>1. /\ todo'[r] # <<>> /\ Head(todo'[r]) = [do |-> "write", rows |-> w, back |-> back]
      /\ Len(todo'[r]) = Len(todo[r]) /\ todo'[r][1].do = "write"
      /\ \A i \in 2..Len(todo[r]) : todo'[r][i] = todo[r][i]
      /\ \A q \in Requests \ {r} : todo'[q] = todo[q]
  BY <1>0, Deciding
<1>2. /\ row' = row /\ prefs' = prefs /\ save' = save /\ score' = score
      /\ returned' = returned /\ used' = used
  BY DEF Decide
<1>3. save = NoSave /\ \A q \in Requests \ {r} : todo[q] = <<>>
  BY <1>0, OneBusy DEF Serial, Busy
<1>4. Len(todo[r]) \in Nat \ {0} /\ todo[r][1].do = kind
  BY <1>0, HeadType DEF Turn
<1>5. Ahead \ {kind} \subseteq Ahead'
  <2> SUFFICES ASSUME NEW k \in Ahead, k # kind PROVE k \in Ahead'
    OBVIOUS
  <2>1. PICK q \in Requests : \E i \in 1..Len(todo[q]) : todo[q][i].do = k
    BY DEF Ahead
  <2>2. PICK i \in 1..Len(todo[q]) : todo[q][i].do = k
    BY <2>1
  <2>3. CASE q # r
    BY <1>1, <2>2, <2>3 DEF Ahead
  <2>4. CASE q = r
    <3>1. i \in 2..Len(todo[r]) /\ i \in 1..Len(todo'[r])
      BY <1>1, <1>4, <2>2, <2>4
    <3>2. todo'[r][i].do = k
      BY <1>1, <2>2, <2>4, <3>1
    <3> QED BY <3>1, <3>2 DEF Ahead
  <2> QED BY <2>3, <2>4
<1>6. \A j \in Jobs : Fits(prefs, Ahead, j, row[j], score[j], j \in returned)
  <2>1. ~ \E q \in Requests : Writing(q)
    BY <1>3 DEF Writing, Turn
  <2> QED BY <1>2, <2>1 DEF Serial, FitInv, RowsFit, Rewritten
<1>7. \A q \in Requests : Writing(q)' <=> q = r
  BY <1>1, <1>3 DEF Writing, Turn
<1>8. RowsFit'
  <2> SUFFICES ASSUME NEW j \in Jobs, ~Rewritten(j)'
               PROVE  Fits(prefs', Ahead', j, row'[j], score'[j], j \in returned')
    BY DEF RowsFit
  <2>1. j \notin DOMAIN w
    BY <1>1, <1>7 DEF Rewritten
  <2>2. Fits(prefs, Ahead', j, row[j], score[j], j \in returned)
    BY <1>2, <1>5, <1>6, <2>1
  <2> QED BY <1>2, <2>2
<1>9. WritesFit'
  <2>1. \A j \in DOMAIN w : Fits(prefs, Ahead', j, w[j], score[j], j \in back /\ w[j] = Shown)
    BY <1>2, <1>5
  <2>2. WriteFits(w, back)'
    BY <1>2, <2>1 DEF WriteFits
  <2>3. \A q \in Requests : Writing(q)' => Head(todo'[q]).rows = w /\ Head(todo'[q]).back = back
    BY <1>1, <1>7
  <2> QED BY <1>2, <2>1, <2>3 DEF WritesFit, WriteFits
<1>10. SaveFits'
  BY <1>2, <1>3 DEF SaveFits
<1> QED BY <1>8, <1>9, <1>10

\* What the head of a queue works with.
LEMMA CurrentHead ==
  ASSUME TypeInv, Serial, NEW r \in Requests, todo[r] # <<>>
  PROVE  /\ Head(todo[r]).do = "min" => Head(todo[r]).min = prefs.min
         /\ Head(todo[r]).do \in {"back", "scan"} => Head(todo[r]).away = prefs.away
<1>1. Head(todo[r]) = todo[r][1] /\ 1 \in 1..Len(todo[r])
  BY HeadType
<1> QED BY <1>1 DEF Serial, Current

LEMMA SettingTypes ==
  ASSUME TypeInv
  PROVE  prefs.min \in Nat /\ \A j \in Jobs : score[j] # None => score[j] \in Nat
<1>1. prefs.min \in Minimums \cup {0}
  BY DEF TypeInv, Prefs
<1>2. Scores \subseteq Nat
  BY BoardAssumption DEF Scores
<1> QED BY <1>1, <1>2, MinimumType DEF TypeInv

LEMMA MinSerial ==
  ASSUME TypeInv, Serial, NEW r \in Requests, ApplyMin(r)
  PROVE  Serial'
<1> DEFINE m == prefs.min
<1>1. PICK w \in Partial :
        /\ Turn(r, "min") /\ Decide(r, w, {})
        /\ DOMAIN w = MinHide(Head(todo[r]).min) \cup MinBack(Head(todo[r]).min)
        /\ \A j \in DOMAIN w : w[j] = IF j \in MinBack(Head(todo[r]).min) THEN Shown
                                      ELSE Hidden("below_min", None)
  BY MinDecision
<1>2. Head(todo[r]).min = m /\ todo[r] # <<>>
  BY <1>1, CurrentHead DEF Turn
<1>3. DOMAIN w = MinHide(m) \cup MinBack(m)
  BY <1>1, <1>2
<1>4. \A j \in DOMAIN w : \/ w[j] = Shown /\ j \in MinBack(m)
                          \/ w[j] = Hidden("below_min", None) /\ j \in MinHide(m)
  BY <1>1, <1>2, <1>3
<1>5. {} \in SUBSET Jobs
  OBVIOUS
<1>6. Apart(row, w, {})
  <2>1. Points(row, w)
    BY <1>4, NoneIsNoJob DEF Points, Shown, Hidden, Row
  <2>2. Spares(row, w, {})
    BY <1>3 DEF Spares, MinHide, MinBack, HiddenAs, Visible
  <2> QED BY <2>1, <2>2 DEF Apart
<1>7. FitInv'
  <2> SUFFICES ASSUME NEW ahead, Ahead \ {"min"} \subseteq ahead
               PROVE  /\ \A j \in Jobs \ DOMAIN w :
                           Fits(prefs, Ahead, j, row[j], score[j], j \in returned) =>
                             Fits(prefs, ahead, j, row[j], score[j], j \in returned)
                      /\ \A j \in DOMAIN w :
                           Fits(prefs, ahead, j, w[j], score[j], j \in {} /\ w[j] = Shown)
    <3>1. "min" \in Kinds \ {"write"}
      BY DEF Kinds
    <3> QED BY <1>1, <1>5, <3>1, DecideFits
  <2>1. m \in Nat /\ \A j \in Jobs : score[j] # None => score[j] \in Nat
    BY SettingTypes
  <2>2. ASSUME NEW j \in Jobs \ DOMAIN w
        PROVE  MinFits(prefs, row[j], score[j]) /\ LowFits(prefs, row[j], score[j])
    <3>1. j \notin MinHide(m) /\ j \notin MinBack(m)
      BY <1>3
    <3>2. MinFits(prefs, row[j], score[j])
      BY <2>1, <3>1 DEF MinFits, MinBack, HiddenAs
    <3>3. LowFits(prefs, row[j], score[j])
      BY <2>1, <3>1 DEF LowFits, MinHide, Visible
    <3> QED BY <3>2, <3>3
  <2>3. ASSUME NEW j \in DOMAIN w
        PROVE  /\ RuleFits(prefs, w[j]) /\ AwayFits(prefs, j, w[j])
               /\ MinFits(prefs, w[j], score[j]) /\ LowFits(prefs, w[j], score[j])
    <3>0. j \in Jobs
      BY <1>3 DEF MinHide, MinBack, HiddenAs
    <3>1. CASE w[j] = Shown /\ j \in MinBack(m)
      <4>1. score[j] # None => score[j] >= m
        BY <2>1, <3>0, <3>1 DEF MinBack
      <4> QED BY <3>1, <4>1 DEF RuleFits, AwayFits, MinFits, LowFits, Shown, Row
    <3>2. CASE w[j] = Hidden("below_min", None) /\ j \in MinHide(m)
      <4>1. score[j] < m
        BY <3>2 DEF MinHide
      <4> QED BY <3>2, <4>1 DEF RuleFits, AwayFits, MinFits, LowFits, Hidden, Row
    <3> QED BY <1>4, <3>1, <3>2
  <2>4. /\ "rules" \in Ahead => "rules" \in ahead
        /\ "where" \in Ahead => "where" \in ahead
        /\ "back" \in Ahead => "back" \in ahead
    OBVIOUS
  <2> QED BY <2>2, <2>3, <2>4 DEF Fits
<1> QED BY <1>1, <1>2, <1>5, <1>6, <1>7, DecideApart DEF Serial

LEMMA RulesSerial ==
  ASSUME TypeInv, Serial, NEW r \in Requests, ApplyRules(r)
  PROVE  Serial'
<1>1. PICK w \in Partial, end \in [Jobs -> Rows] :
        /\ Turn(r, "rules") /\ Decide(r, w, RulesBack)
        /\ DOMAIN w = {j \in Jobs : end[j] # row[j]} /\ \A j \in DOMAIN w : w[j] = end[j]
        /\ \A j \in Jobs :
             \/ end[j] = row[j] /\ j \notin RulesBack
             \/ end[j] = Shown /\ j \in RulesBack
             \/ /\ Visible(row, j) \/ j \in RulesBack
                /\ \/ end[j] = Hidden("applied", None) /\ prefs.applied
                   \/ \E k \in Jobs : /\ end[j] = Hidden("lower_score", k) /\ prefs.comparison
                                      /\ Visible(end, k)
  BY RulesDecision
<1>2. todo[r] # <<>> /\ RulesBack \in SUBSET Jobs
  BY <1>1 DEF Turn, RulesBack, HiddenAs
<1>3. \A j \in Jobs : Merge(row, w)[j] = end[j]
  <2>1. \A j \in Jobs : Merge(row, w)[j] = IF j \in DOMAIN w THEN w[j] ELSE row[j]
    BY MergeRows DEF TypeInv
  <2> QED BY <1>1, <2>1
<1>4. \A j \in RulesBack : row[j].status = "duplicated"
  BY DEF RulesBack, HiddenAs
<1>5. Apart(row, w, {})
  <2>1. ASSUME NEW j \in DOMAIN w, w[j].status = "duplicated", w[j].because \in Jobs
        PROVE  Merge(row, w)[w[j].because].status # "duplicated"
    <3>1. j \in Jobs /\ end[j] = w[j] /\ end[j] # row[j]
      BY <1>1
    <3>2. end[j] # Shown /\ end[j] # Hidden("applied", None)
      BY <2>1, <3>1, NoneIsNoJob DEF Shown, Hidden, Row
    <3>3. PICK k \in Jobs : end[j] = Hidden("lower_score", k) /\ Visible(end, k)
      BY <1>1, <3>1, <3>2
    <3>4. w[j].because = k /\ end[k].status # "duplicated"
      BY <3>1, <3>3 DEF Hidden, Row, Visible
    <3> QED BY <1>3, <3>4
  <2>2. ASSUME NEW j \in DOMAIN w PROVE row[j].status # "manual_hidden"
    <3>1. j \in Jobs /\ end[j] # row[j]
      BY <1>1
    <3>2. Visible(row, j) \/ j \in RulesBack
      BY <1>1, <3>1
    <3> QED BY <1>4, <3>2 DEF Visible
  <2> QED BY <2>1, <2>2 DEF Apart, Points, Spares
<1>6. FitInv'
  <2> SUFFICES ASSUME NEW ahead, Ahead \ {"rules"} \subseteq ahead
               PROVE  /\ \A j \in Jobs \ DOMAIN w :
                           Fits(prefs, Ahead, j, row[j], score[j], j \in returned) =>
                             Fits(prefs, ahead, j, row[j], score[j], j \in returned)
                      /\ \A j \in DOMAIN w :
                           Fits(prefs, ahead, j, w[j], score[j], j \in RulesBack /\ w[j] = Shown)
    <3>1. "rules" \in Kinds \ {"write"}
      BY DEF Kinds
    <3> QED BY <1>1, <1>2, <3>1, DecideFits
  <2>1. ASSUME NEW j \in Jobs \ DOMAIN w PROVE RuleFits(prefs, row[j])
    <3>1. end[j] = row[j]
      BY <1>1
    <3>2. CASE j \notin RulesBack
      BY <3>2 DEF RulesBack, HiddenAs, RuleFits
    <3>3. CASE j \in RulesBack
      <4>1. end[j] # Shown
        BY <1>4, <3>1, <3>3 DEF Shown, Row
      <4>2. \/ end[j] = Hidden("applied", None) /\ prefs.applied
            \/ \E k \in Jobs : end[j] = Hidden("lower_score", k) /\ prefs.comparison
        BY <1>1, <3>3, <4>1
      <4>3. CASE end[j] = Hidden("applied", None) /\ prefs.applied
        BY <3>1, <4>3 DEF RuleFits, Hidden, Row
      <4>4. ASSUME NEW k \in Jobs, end[j] = Hidden("lower_score", k), prefs.comparison
            PROVE  RuleFits(prefs, row[j])
        BY <3>1, <4>4 DEF RuleFits, Hidden, Row
      <4> QED BY <4>2, <4>3, <4>4
    <3> QED BY <3>2, <3>3
  <2>2. ASSUME NEW j \in DOMAIN w
        PROVE  /\ RuleFits(prefs, w[j]) /\ AwayFits(prefs, j, w[j]) /\ MinFits(prefs, w[j], score[j])
               /\ LowFits(prefs, w[j], score[j]) \/ (j \in RulesBack /\ w[j] = Shown)
    <3>1. j \in Jobs /\ end[j] = w[j] /\ end[j] # row[j]
      BY <1>1
    <3>2. CASE end[j] = Shown /\ j \in RulesBack
      BY <3>1, <3>2 DEF RuleFits, AwayFits, MinFits, Shown, Row
    <3>3. CASE end[j] = Hidden("applied", None) /\ prefs.applied
      BY <3>1, <3>3 DEF RuleFits, AwayFits, MinFits, LowFits, Hidden, Row
    <3>4. ASSUME NEW k \in Jobs, end[j] = Hidden("lower_score", k), prefs.comparison
          PROVE  /\ RuleFits(prefs, w[j]) /\ AwayFits(prefs, j, w[j]) /\ MinFits(prefs, w[j], score[j])
                 /\ LowFits(prefs, w[j], score[j])
      BY <3>1, <3>4 DEF RuleFits, AwayFits, MinFits, LowFits, Hidden, Row
    <3> QED BY <1>1, <3>1, <3>2, <3>3, <3>4
  <2>3. /\ "min" \in Ahead => "min" \in ahead
        /\ "where" \in Ahead => "where" \in ahead
        /\ "back" \in Ahead => "back" \in ahead
    OBVIOUS
  <2> QED BY <2>1, <2>2, <2>3 DEF Fits
<1> QED BY <1>1, <1>2, <1>5, <1>6, DecideApart DEF Serial

LEMMA BackSerial ==
  ASSUME TypeInv, Serial, NEW r \in Requests, LocationBack(r)
  PROVE  Serial'
<1> DEFINE back == HiddenAs(row, {"outside"}) \ prefs.away
<1>1. PICK w \in Partial :
        LET S == HiddenAs(row, {"outside"}) \ Head(todo[r]).away IN
        /\ Turn(r, "back") /\ Decide(r, w, S) /\ S \subseteq Jobs
        /\ DOMAIN w = S /\ \A j \in S : w[j] = Shown
  BY BackDecision
<1>2. Head(todo[r]).away = prefs.away /\ todo[r] # <<>>
  BY <1>1, CurrentHead DEF Turn
<1>3. /\ Turn(r, "back") /\ Decide(r, w, back) /\ back \in SUBSET Jobs
      /\ DOMAIN w = back /\ \A j \in back : w[j] = Shown
  BY <1>1, <1>2
<1>4. \A j \in back : row[j].status = "duplicated"
  BY DEF HiddenAs
<1>5. Apart(row, w, {})
  BY <1>3, <1>4 DEF Apart, Points, Spares, Shown, Row
<1>6. FitInv'
  <2> SUFFICES ASSUME NEW ahead, Ahead \ {"back"} \subseteq ahead
               PROVE  /\ \A j \in Jobs \ DOMAIN w :
                           Fits(prefs, Ahead, j, row[j], score[j], j \in returned) =>
                             Fits(prefs, ahead, j, row[j], score[j], j \in returned)
                      /\ \A j \in DOMAIN w :
                           Fits(prefs, ahead, j, w[j], score[j], j \in back /\ w[j] = Shown)
    <3>1. "back" \in Kinds \ {"write"}
      BY DEF Kinds
    <3> HIDE DEF back
    <3> QED BY <1>3, <3>1, DecideFits
  <2>1. ASSUME NEW j \in Jobs \ DOMAIN w PROVE AwayFits(prefs, j, row[j])
    BY <1>3 DEF AwayFits, HiddenAs
  <2>2. ASSUME NEW j \in DOMAIN w
        PROVE  /\ RuleFits(prefs, w[j]) /\ AwayFits(prefs, j, w[j]) /\ MinFits(prefs, w[j], score[j])
               /\ j \in back /\ w[j] = Shown
    BY <1>3 DEF RuleFits, AwayFits, MinFits, Shown, Row
  <2>3. /\ "min" \in Ahead => "min" \in ahead
        /\ "rules" \in Ahead => "rules" \in ahead
    OBVIOUS
  <2> QED BY <2>1, <2>2, <2>3 DEF Fits
<1> QED BY <1>2, <1>3, <1>5, <1>6, DecideApart DEF Serial

LEMMA ScanSerial ==
  ASSUME TypeInv, Serial, NEW r \in Requests, ListVisible(r)
  PROVE  Serial'
<1>1. PICK w \in Partial :
        /\ Turn(r, "scan") /\ Decide(r, w, {})
        /\ DOMAIN w = {j \in Head(todo[r]).away : Visible(row, j)}
        /\ \A j \in DOMAIN w : w[j] = Hidden("outside", None)
  BY ScanDecision
<1>2. Head(todo[r]).away = prefs.away /\ todo[r] # <<>> /\ {} \in SUBSET Jobs
  BY <1>1, CurrentHead DEF Turn
<1>3. Apart(row, w, {})
  <2>1. Points(row, w)
    BY <1>1, NoneIsNoJob DEF Points, Hidden, Row
  <2>2. Spares(row, w, {})
    BY <1>1 DEF Spares, Visible
  <2> QED BY <2>1, <2>2 DEF Apart
<1>4. FitInv'
  <2> SUFFICES ASSUME NEW ahead, Ahead \ {"scan"} \subseteq ahead
               PROVE  /\ \A j \in Jobs \ DOMAIN w :
                           Fits(prefs, Ahead, j, row[j], score[j], j \in returned) =>
                             Fits(prefs, ahead, j, row[j], score[j], j \in returned)
                      /\ \A j \in DOMAIN w :
                           Fits(prefs, ahead, j, w[j], score[j], j \in {} /\ w[j] = Shown)
    <3>1. "scan" \in Kinds \ {"write"}
      BY DEF Kinds
    <3> QED BY <1>1, <1>2, <3>1, DecideFits
  <2>1. ASSUME NEW j \in DOMAIN w
        PROVE  /\ RuleFits(prefs, w[j]) /\ AwayFits(prefs, j, w[j])
               /\ MinFits(prefs, w[j], score[j]) /\ LowFits(prefs, w[j], score[j])
    BY <1>1, <1>2 DEF RuleFits, AwayFits, MinFits, LowFits, Hidden, Row
  <2>2. /\ "min" \in Ahead => "min" \in ahead
        /\ "rules" \in Ahead => "rules" \in ahead
        /\ "where" \in Ahead => "where" \in ahead
        /\ "back" \in Ahead => "back" \in ahead
    OBVIOUS
  <2> QED BY <2>1, <2>2 DEF Fits
<1> QED BY <1>1, <1>2, <1>3, <1>4, DecideApart DEF Serial

LEMMA ReadSerial ==
  ASSUME TypeInv, Serial, NEW r \in Requests, ReadCountries(r)
  PROVE  Serial'
<1> DEFINE n == Len(todo[r])
<1>1. /\ Turn(r, "where") /\ todo[r] # <<>> /\ prefs.away \in Aways
      /\ Sessions(r, <<[do |-> "back", away |-> prefs.away], [do |-> "scan", away |-> prefs.away]>>)
      /\ row' = row /\ score' = score /\ prefs' = prefs /\ save' = save
      /\ returned' = returned /\ used' = used
  BY DEF ReadCountries, Turn, TypeInv, Prefs
<1>2. /\ n \in Nat \ {0} /\ Len(todo'[r]) = n + 1
      /\ todo'[r][1] = [do |-> "back", away |-> prefs.away]
      /\ todo'[r][2] = [do |-> "scan", away |-> prefs.away]
      /\ \A i \in 2..n : todo'[r][i + 1] = todo[r][i]
      /\ \A q \in Requests \ {r} : todo'[q] = todo[q]
      /\ QueuesOK'
  BY <1>1, LocationsQueued
<1>3. save = NoSave /\ \A q \in Requests \ {r} : todo[q] = <<>>
  BY <1>1, OneBusy DEF Serial, Busy
<1>4. todo[r][1].do = "where"
  BY <1>1, HeadType DEF Turn
<1>5. ~ \E q \in Requests : Writing(q)
  BY <1>1, <1>3 DEF Writing, Turn
<1>6. todo'[r] # <<>> /\ Head(todo'[r]) = todo'[r][1]
  BY <1>2 DEF QueuesOK
<1>7. ~ \E q \in Requests : Writing(q)'
  BY <1>2, <1>3, <1>6 DEF Writing, Turn
<1>8. Alone'
  BY <1>1, <1>2, <1>3 DEF Alone, Busy
<1>9. Current'
  <2> SUFFICES ASSUME NEW q \in Requests, NEW i \in 1..Len(todo'[q])
               PROVE  /\ todo'[q][i].do = "min" => todo'[q][i].min = prefs'.min
                      /\ todo'[q][i].do \in {"back", "scan"} => todo'[q][i].away = prefs'.away
    BY DEF Current
  <2>1. CASE q # r
    BY <1>1, <1>2, <2>1 DEF Serial, Current
  <2>2. CASE q = r /\ i \in {1, 2}
    BY <1>1, <1>2, <2>2
  <2>3. CASE q = r /\ i \notin {1, 2}
    <3>1. i - 1 \in 2..n /\ i - 1 \in 1..n /\ (i - 1) + 1 = i
      BY <1>2, <2>3
    <3>2. todo'[r][i] = todo[r][i - 1]
      BY <1>2, <3>1
    <3> QED BY <1>1, <2>3, <3>1, <3>2 DEF Serial, Current
  <2> QED BY <2>1, <2>2, <2>3
<1>10. WritesApart'
  BY <1>1, <1>3, <1>7 DEF WritesApart
<1>11. NoHidingCircle'
  BY <1>1 DEF NoHidingCircle, Serial
<1>12. "back" \in Ahead' /\ Ahead \ {"where"} \subseteq Ahead'
  <2>1. "back" \in Ahead'
    <3>1. 1 \in 1..Len(todo'[r]) /\ todo'[r][1].do = "back"
      BY <1>2
    <3> QED BY <3>1 DEF Ahead, Kinds
  <2> SUFFICES ASSUME NEW k \in Ahead, k # "where" PROVE k \in Ahead'
    BY <2>1
  <2>2. PICK q \in Requests : \E i \in 1..Len(todo[q]) : todo[q][i].do = k
    BY DEF Ahead
  <2>3. PICK i \in 1..Len(todo[q]) : todo[q][i].do = k
    BY <2>2
  <2>4. CASE q # r
    BY <1>2, <2>3, <2>4 DEF Ahead
  <2>5. CASE q = r
    <3>1. i \in 2..n /\ i + 1 \in 1..Len(todo'[r])
      BY <1>2, <1>4, <2>3, <2>5
    <3>2. todo'[r][i + 1].do = k
      BY <1>2, <2>3, <2>5, <3>1
    <3> QED BY <3>1, <3>2 DEF Ahead
  <2> QED BY <2>4, <2>5
<1>13. FitInv'
  <2> SUFFICES ASSUME used'["losses"] = 0 PROVE (RowsFit /\ WritesFit /\ SaveFits)'
    BY DEF FitInv
  <2>1. \A j \in Jobs : Fits(prefs, Ahead, j, row[j], score[j], j \in returned)
    BY <1>1, <1>5 DEF Serial, FitInv, RowsFit, Rewritten
  <2>2. \A j \in Jobs : Fits(prefs, Ahead', j, row[j], score[j], j \in returned)
    BY <1>12, <2>1 DEF Fits
  <2>3. RowsFit'
    BY <1>1, <2>2 DEF RowsFit
  <2>4. WritesFit' /\ SaveFits'
    BY <1>1, <1>3, <1>7 DEF WritesFit, SaveFits
  <2> QED BY <2>3, <2>4
<1> QED BY <1>8, <1>9, <1>10, <1>11, <1>13 DEF Serial

LEMMA WriteSerial ==
  ASSUME TypeInv, Serial, NEW r \in Requests, Write(r)
  PROVE  Serial'
<1> DEFINE n == Len(todo[r])
           w == Head(todo[r]).rows
           back == Head(todo[r]).back
<1>1. /\ Turn(r, "write") /\ todo[r] # <<>> /\ Sessions(r, <<>>)
      /\ row' = Merge(row, w) /\ score' = score /\ prefs' = prefs /\ save' = save
      /\ returned' = (returned \ DOMAIN w) \cup {j \in back : row'[j] = Shown}
      /\ used' = used
  BY DEF Write, Turn
<1>2. w \in Partial /\ back \subseteq Jobs /\ todo[r][1].do = "write"
  BY <1>1, HeadType DEF Turn
<1>3. /\ QueuesOK'
      /\ n \in Nat \ {0} /\ Len(todo'[r]) = n - 1
      /\ \A i \in 1..(n - 1) : todo'[r][i] = todo[r][i + 1]
      /\ \A q \in Requests \ {r} : todo'[q] = todo[q]
  BY <1>1, HeadDropped
<1>4. save = NoSave /\ \A q \in Requests \ {r} : todo[q] = <<>>
  BY <1>1, OneBusy DEF Serial, Busy
<1>5. \A i \in 1..(n - 1) : i + 1 \in 2..n /\ i + 1 \in 1..n
  BY <1>3
<1>6. ~ \E q \in Requests : Writing(q)'
  <2> SUFFICES ASSUME NEW q \in Requests, Writing(q)' PROVE FALSE
    OBVIOUS
  <2>1. q = r /\ todo'[r] # <<>> /\ Head(todo'[r]).do = "write"
    BY <1>3, <1>4 DEF Writing, Turn
  <2>2. Head(todo'[r]) = todo'[r][1] /\ 1 \in 1..(n - 1)
    BY <1>3, <2>1 DEF QueuesOK
  <2>3. todo'[r][1] = todo[r][2] /\ 2 \in 2..n
    BY <1>3, <1>5, <2>2
  <2>4. todo[r][2].do \in {"scan", "min", "rules"}
    BY <2>3 DEF TypeInv, QueuesOK, Ordered
  <2> QED BY <2>1, <2>2, <2>3, <2>4
<1>7. Writing(r) /\ Apart(row, w, {})
  BY <1>1 DEF Writing, Serial, WritesApart
<1> HIDE DEF w, back
<1>8. Alone'
  BY <1>1, <1>3, <1>4 DEF Alone, Busy
<1>9. Current'
  <2> SUFFICES ASSUME NEW q \in Requests, NEW i \in 1..Len(todo'[q])
               PROVE  /\ todo'[q][i].do = "min" => todo'[q][i].min = prefs'.min
                      /\ todo'[q][i].do \in {"back", "scan"} => todo'[q][i].away = prefs'.away
    BY DEF Current
  <2>1. CASE q # r
    BY <1>1, <1>3, <2>1 DEF Serial, Current
  <2>2. CASE q = r
    <3>1. i + 1 \in 1..n /\ todo'[r][i] = todo[r][i + 1]
      BY <1>3, <1>5, <2>2
    <3> QED BY <1>1, <2>2, <3>1 DEF Serial, Current
  <2> QED BY <2>1, <2>2
<1>10. WritesApart'
  BY <1>1, <1>4, <1>6 DEF WritesApart
<1>11. NoHidingCircle'
  BY <1>1, <1>2, <1>7, NoNewCircle DEF Serial, Apart
<1>12. Ahead \ {"write"} \subseteq Ahead'
  <2> SUFFICES ASSUME NEW k \in Ahead, k # "write" PROVE k \in Ahead'
    OBVIOUS
  <2>1. PICK q \in Requests : \E i \in 1..Len(todo[q]) : todo[q][i].do = k
    BY DEF Ahead
  <2>2. PICK i \in 1..Len(todo[q]) : todo[q][i].do = k
    BY <2>1
  <2>3. CASE q # r
    BY <1>3, <2>2, <2>3 DEF Ahead
  <2>4. CASE q = r
    <3>0. i # 1 /\ i \in 1..n
      BY <1>2, <2>2, <2>4
    <3>1. i - 1 \in 1..(n - 1) /\ (i - 1) + 1 = i /\ i - 1 \in 1..Len(todo'[r])
      BY <1>3, <3>0
    <3>2. todo'[r][i - 1] = todo[r][i]
      BY <1>3, <3>1
    <3> QED BY <2>2, <2>4, <3>1, <3>2 DEF Ahead
  <2> QED BY <2>3, <2>4
<1>13. FitInv'
  <2> SUFFICES ASSUME used'["losses"] = 0 PROVE (RowsFit /\ WritesFit /\ SaveFits)'
    BY DEF FitInv
  <2>1. ASSUME NEW j \in Jobs
        PROVE  Fits(prefs, Ahead, j, row'[j], score[j], j \in returned')
    <3>1. row'[j] = IF j \in DOMAIN w THEN w[j] ELSE row[j]
      BY <1>1, <1>2, MergeRows DEF TypeInv
    <3>2. CASE j \in DOMAIN w
      <4>1. Fits(prefs, Ahead, j, w[j], score[j], j \in back /\ w[j] = Shown)
        BY <1>1, <1>7, <3>2 DEF Serial, FitInv, WritesFit, WriteFits, w, back
      <4>2. j \in back /\ w[j] = Shown => j \in returned'
        BY <1>1, <3>1, <3>2
      <4> QED BY <3>1, <3>2, <4>1, <4>2 DEF Fits
    <3>3. CASE j \notin DOMAIN w
      <4>1. ~Rewritten(j)
        BY <1>4, <3>3 DEF Rewritten, Writing, Turn, w
      <4>2. Fits(prefs, Ahead, j, row[j], score[j], j \in returned)
        BY <1>1, <4>1 DEF Serial, FitInv, RowsFit
      <4>3. j \in returned => j \in returned'
        BY <1>1, <3>3
      <4> QED BY <3>1, <3>3, <4>2, <4>3 DEF Fits
    <3> QED BY <3>2, <3>3
  <2>2. /\ "rules" \in Ahead => "rules" \in Ahead'
        /\ "where" \in Ahead => "where" \in Ahead'
        /\ "back" \in Ahead => "back" \in Ahead'
        /\ "min" \in Ahead => "min" \in Ahead'
    BY <1>12
  <2>3. \A j \in Jobs : Fits(prefs, Ahead', j, row'[j], score[j], j \in returned')
    BY <2>1, <2>2 DEF Fits
  <2>4. RowsFit'
    BY <1>1, <2>3 DEF RowsFit
  <2>5. WritesFit' /\ SaveFits'
    BY <1>1, <1>4, <1>6 DEF WritesFit, SaveFits
  <2> QED BY <2>4, <2>5
<1> QED BY <1>8, <1>9, <1>10, <1>11, <1>13 DEF Serial

LEMMA LoseSerial ==
  ASSUME TypeInv, Serial, NEW r \in Requests, Lose(r)
  PROVE  Serial'
<1>1. /\ todo[r] # <<>> /\ todo' = [todo EXCEPT ![r] = <<>>] /\ todo \in [Requests -> Seq(Session)]
      /\ row' = row /\ prefs' = prefs /\ save' = save
  BY DEF Lose, TypeInv, QueuesOK
<1>0. used'["losses"] \in Nat /\ used'["losses"] > 0
  BY Events DEF Lose, TypeInv
<1>2. save = NoSave /\ \A q \in Requests \ {r} : todo[q] = <<>>
  BY <1>1, OneBusy DEF Serial, Busy
<1>3. \A q \in Requests : todo'[q] = <<>>
  BY <1>1, <1>2
<1>4. Alone' /\ WritesApart'
  BY <1>1, <1>2, <1>3 DEF Alone, Busy, WritesApart, Writing, Turn
<1>5. Current'
  BY <1>3 DEF Current
<1>6. NoHidingCircle'
  BY <1>1 DEF NoHidingCircle, Serial
<1>7. FitInv'
  BY <1>0 DEF FitInv
<1> QED BY <1>4, <1>5, <1>6, <1>7 DEF Serial
-----------------------------------------------------------------------------
(* Sessions that do not overlap: what begins when nothing is left to do. *)

LEMMA AtRest ==
  ASSUME Serial, Rest
  PROVE  /\ save = NoSave /\ \A r \in Requests : todo[r] = <<>>
         /\ Ahead = {}
         /\ used["losses"] = 0 =>
              \A j \in Jobs : Fits(prefs, {}, j, row[j], score[j], j \in returned)
<1>1. save = NoSave /\ \A r \in Requests : todo[r] = <<>>
  BY DEF Rest
<1>2. Ahead = {}
  BY <1>1 DEF Ahead
<1>3. \A j \in Jobs : ~Rewritten(j)
  BY <1>1 DEF Rewritten, Writing, Turn
<1> QED BY <1>1, <1>2, <1>3 DEF Serial, FitInv, RowsFit

\* A step that begins and ends at rest.
LEMMA StillAtRest ==
  ASSUME Serial, Rest, save' = save, todo' = todo, NoHidingCircle',
         used'["losses"] = 0 =>
           \A j \in Jobs : Fits(prefs', {}, j, row'[j], score'[j], j \in returned')
  PROVE  Serial'
<1>1. save' = NoSave /\ \A r \in Requests : todo'[r] = <<>>
  BY AtRest
<1>2. ~ \E r \in Requests : Writing(r)'
  BY <1>1 DEF Writing, Turn
<1>3. Ahead' = {}
  BY <1>1 DEF Ahead
<1>4. Alone' /\ Current' /\ WritesApart'
  BY <1>1, <1>2 DEF Alone, Busy, Current, WritesApart
<1>5. FitInv'
  BY <1>1, <1>2, <1>3 DEF FitInv, RowsFit, WritesFit, SaveFits
<1> QED BY <1>4, <1>5 DEF Serial

\* A request is given tasks, for the settings there will be.
LEMMA TasksSerial ==
  ASSUME TypeInv, Serial, Rest, NEW r \in Requests, NEW q \in Seq(Session),
         todo' = [todo EXCEPT ![r] = q],
         row' = row, score' = score, save' = save, returned' = returned,
         used'["losses"] = used["losses"],
         \A i \in 1..Len(q) : /\ q[i].do \in {"where", "min", "rules"}
                              /\ q[i].do = "min" => q[i].min = prefs'.min,
         Ordered(q),
         prefs.away # prefs'.away => \E i \in 1..Len(q) : q[i].do = "where",
         prefs.min # prefs'.min => \E i \in 1..Len(q) : q[i].do = "min",
         prefs.applied # prefs'.applied \/ prefs.comparison # prefs'.comparison =>
           \E i \in 1..Len(q) : q[i].do = "rules"
  PROVE  Serial'
<1>1. todo'[r] = q /\ \A p \in Requests \ {r} : todo'[p] = <<>>
  BY AtRest, Queued
<1>2. save' = NoSave
  BY AtRest
<1>3. ~ \E p \in Requests : Writing(p)'
  <2>1. q # <<>> => Head(q) = q[1] /\ 1 \in 1..Len(q)
    OBVIOUS
  <2> QED BY <1>1, <2>1 DEF Writing, Turn
<1>4. Alone' /\ WritesApart'
  BY <1>1, <1>2, <1>3 DEF Alone, Busy, WritesApart
<1>5. Current'
  BY <1>1 DEF Current
<1>6. NoHidingCircle'
  BY DEF NoHidingCircle, Serial
<1>7. /\ prefs.away # prefs'.away => "where" \in Ahead'
      /\ prefs.min # prefs'.min => "min" \in Ahead'
      /\ prefs.applied # prefs'.applied \/ prefs.comparison # prefs'.comparison => "rules" \in Ahead'
  BY <1>1 DEF Ahead, Kinds
<1>8. FitInv'
  <2> SUFFICES ASSUME used'["losses"] = 0 PROVE (RowsFit /\ WritesFit /\ SaveFits)'
    BY DEF FitInv
  <2>1. ASSUME NEW j \in Jobs
        PROVE  Fits(prefs', Ahead', j, row[j], score[j], j \in returned)
    <3>1. Fits(prefs, {}, j, row[j], score[j], j \in returned)
      BY AtRest
    <3>2. /\ RuleFits(prefs, row[j]) /\ AwayFits(prefs, j, row[j]) /\ MinFits(prefs, row[j], score[j])
          /\ LowFits(prefs, row[j], score[j]) \/ j \in returned \/ j \in Quick
      BY <3>1 DEF Fits
    <3>3. RuleFits(prefs', row[j]) \/ "rules" \in Ahead'
      BY <1>7, <3>2 DEF RuleFits
    <3>4. AwayFits(prefs', j, row[j]) \/ "where" \in Ahead'
      BY <1>7, <3>2 DEF AwayFits
    <3>5. /\ MinFits(prefs', row[j], score[j]) \/ "min" \in Ahead'
          /\ LowFits(prefs', row[j], score[j]) \/ j \in returned \/ j \in Quick \/ "min" \in Ahead'
      BY <1>7, <3>2 DEF MinFits, LowFits
    <3> QED BY <3>3, <3>4, <3>5 DEF Fits
  <2>2. RowsFit'
    BY <2>1 DEF RowsFit
  <2>3. WritesFit' /\ SaveFits'
    BY <1>2, <1>3 DEF WritesFit, SaveFits
  <2> QED BY <2>2, <2>3
<1> QED BY <1>4, <1>5, <1>6, <1>8 DEF Serial

LEMMA ChangeSerial ==
  ASSUME ~Overlap, TypeInv, Serial, NEW r \in Requests, NEW p \in Prefs, ChangePrefs(r, p)
  PROVE  Serial'
<1>1. /\ Rest /\ todo' = [todo EXCEPT ![r] = TasksFor(p)] /\ prefs' = p
      /\ row' = row /\ score' = score /\ save' = save /\ returned' = returned
  BY DEF ChangePrefs, Free
<1>2. used'["losses"] = used["losses"]
  BY Events DEF ChangePrefs, TypeInv
<1>3. prefs \in Prefs
  BY DEF TypeInv
<1> DEFINE q == TasksFor(p)
<1>4. /\ q \in Seq(Session) /\ Ordered(q)
      /\ \A i \in 1..Len(q) : /\ q[i].do \in {"where", "min", "rules"}
                              /\ q[i].do = "min" => q[i].min = p.min
      /\ p.away # prefs.away => \E i \in 1..Len(q) : q[i].do = "where"
      /\ p.min # prefs.min => \E i \in 1..Len(q) : q[i].do = "min"
      /\ p.applied # prefs.applied \/ p.comparison # prefs.comparison =>
           \E i \in 1..Len(q) : q[i].do = "rules"
  BY <1>3, NewTasks
<1> HIDE DEF q
<1>5. todo' = [todo EXCEPT ![r] = q]
  BY <1>1 DEF q
<1> QED BY <1>1, <1>2, <1>4, <1>5, TasksSerial

LEMMA AgainSerial ==
  ASSUME ~Overlap, TypeInv, Serial, NEW r \in Requests,
         NEW task \in {[do |-> "where"], [do |-> "rules"], [do |-> "min", min |-> prefs.min]},
         Again(r, task)
  PROVE  Serial'
<1>1. /\ Rest /\ todo' = [todo EXCEPT ![r] = <<task>>] /\ prefs' = prefs
      /\ row' = row /\ score' = score /\ save' = save /\ returned' = returned
  BY DEF Again, Free
<1>2. used'["losses"] = used["losses"]
  BY Events DEF Again, TypeInv
<1>3. prefs.min \in Minimums \cup {0}
  BY DEF TypeInv, Prefs
<1>4. task \in Session /\ task.do \in {"where", "min", "rules"} /\ (task.do = "min" => task.min = prefs.min)
  BY <1>3 DEF Session
<1> DEFINE q == <<task>>
<1>5. q \in Seq(Session) /\ Ordered(q) /\ Len(q) = 1 /\ q[1] = task
  BY <1>4, OneTask
<1> HIDE DEF q
<1>6. todo' = [todo EXCEPT ![r] = q]
  BY <1>1 DEF q
<1>7. \A i \in 1..Len(q) : /\ q[i].do \in {"where", "min", "rules"}
                           /\ q[i].do = "min" => q[i].min = prefs'.min
  BY <1>1, <1>4, <1>5
<1> QED BY <1>1, <1>2, <1>5, <1>6, <1>7, TasksSerial

LEMMA HandSerial ==
  ASSUME ~Overlap, TypeInv, Serial, NEW j \in Jobs, ByHand(j)
  PROVE  Serial'
<1>1. PICK x \in Rows, b \in BOOLEAN :
        /\ Act(j, x, b)
        /\ \/ x = Shown /\ b
           \/ x = Row("none", None, None) /\ b
           \/ x = Row("manual_hidden", "manual", None)
           \/ x = Hidden("manual", None)
           \/ x = Row(row[j].status, "manual", None) /\ b = (j \in returned)
  BY HandRows
<1>2. /\ Rest /\ row' = [row EXCEPT ![j] = x]
      /\ returned' = IF b THEN returned \cup {j} ELSE returned \ {j}
      /\ score' = score /\ prefs' = prefs /\ save' = save /\ todo' = todo
  BY <1>1 DEF Act, Free
<1>3. used'["losses"] = used["losses"]
  BY <1>1, ActType
<1>4. NoHidingCircle'
  <2> DEFINE w == Only(j, x)
  <2>1. w \in Partial /\ DOMAIN w = {j} /\ w[j] = x
    <3>1. w \in [{j} -> Rows] /\ {j} \in SUBSET Jobs
      BY DEF Only
    <3> QED BY <3>1, AsPartial DEF Only
  <2> HIDE DEF w
  <2>2. \A i \in Jobs : Merge(row, w)[i] = row'[i]
    BY <1>2, <2>1, MergeRows DEF TypeInv
  <2>3. row' \in [Jobs -> Rows] /\ Merge(row, w) \in [Jobs -> Rows]
    BY <1>2, <2>1, MergeRows DEF TypeInv
  <2>4. row' = Merge(row, w)
    BY <2>2, <2>3
  <2>5. x.because = None
    BY <1>1 DEF Shown, Hidden, Row
  <2>6. Points(row, w)
    BY <2>1, <2>5, NoneIsNoJob DEF Points
  <2> QED BY <2>1, <2>4, <2>6, NoNewCircle DEF Serial
<1>5. ASSUME used'["losses"] = 0, NEW i \in Jobs
      PROVE  Fits(prefs', {}, i, row'[i], score'[i], i \in returned')
  <2>1. Fits(prefs, {}, i, row[i], score[i], i \in returned)
    BY <1>2, <1>5, <1>3, AtRest
  <2>2. CASE i # j
    <3>1. row'[i] = row[i] /\ (i \in returned' <=> i \in returned)
      BY <1>2, <2>2 DEF TypeInv
    <3> QED BY <1>2, <2>1, <3>1 DEF Fits
  <2>3. CASE i = j
    <3>1. row'[j] = x /\ (b => j \in returned')
      BY <1>2 DEF TypeInv
    <3>2. CASE x = Shown /\ b
      BY <1>2, <2>3, <3>1, <3>2 DEF Fits, RuleFits, AwayFits, MinFits, Shown, Row
    <3>3. CASE x = Row("none", None, None) /\ b
      BY <1>2, <2>3, <3>1, <3>3 DEF Fits, RuleFits, AwayFits, MinFits, Row
    <3>4. CASE x = Row("manual_hidden", "manual", None)
      BY <1>2, <2>3, <3>1, <3>4 DEF Fits, RuleFits, AwayFits, MinFits, LowFits, Row
    <3>5. CASE x = Hidden("manual", None)
      BY <1>2, <2>3, <3>1, <3>5 DEF Fits, RuleFits, AwayFits, MinFits, LowFits, Hidden, Row
    <3>6. CASE x = Row(row[j].status, "manual", None) /\ b = (j \in returned)
      <4>1. x.status = row[j].status /\ x.why = "manual"
        BY <3>6 DEF Row
      <4>2. RuleFits(prefs, x) /\ AwayFits(prefs, j, x) /\ MinFits(prefs, x, score[j])
        BY <4>1 DEF RuleFits, AwayFits, MinFits
      <4>3. LowFits(prefs, row[j], score[j]) \/ j \in returned \/ j \in Quick
        BY <2>1, <2>3 DEF Fits
      <4>4. LowFits(prefs, x, score[j]) \/ j \in returned' \/ j \in Quick
        BY <3>1, <3>6, <4>1, <4>3 DEF LowFits
      <4> QED BY <1>2, <2>3, <3>1, <4>2, <4>4 DEF Fits
    <3> QED BY <1>1, <3>2, <3>3, <3>4, <3>5, <3>6
  <2> QED BY <2>2, <2>3
<1> QED BY <1>2, <1>4, <1>5, StillAtRest

LEMMA ApplySerial ==
  ASSUME ~Overlap, TypeInv, Serial, NEW j \in Jobs, Apply(j) \/ Rescore(j)
  PROVE  Serial'
<1>1. /\ Rest /\ row' = row /\ prefs' = prefs /\ save' = save /\ todo' = todo /\ returned' = returned
      /\ score' \in {score, [score EXCEPT ![j] = None]}
  BY DEF Apply, Rescore, Free
<1>2. used'["losses"] = used["losses"]
  BY Events DEF Apply, Rescore, TypeInv
<1>3. NoHidingCircle'
  BY <1>1 DEF NoHidingCircle, Serial
<1>4. ASSUME used'["losses"] = 0, NEW i \in Jobs
      PROVE  Fits(prefs', {}, i, row'[i], score'[i], i \in returned')
  <2>1. Fits(prefs, {}, i, row[i], score[i], i \in returned)
    BY <1>1, <1>2, <1>4, AtRest
  <2>2. score'[i] = score[i] \/ score'[i] = None
    BY <1>1 DEF TypeInv
  <2> QED BY <1>1, <2>1, <2>2 DEF Fits, MinFits, LowFits
<1> QED BY <1>1, <1>3, <1>4, StillAtRest

LEMMA SaveReadSerial ==
  ASSUME ~Overlap, TypeInv, Serial,
         NEW j \in Jobs, NEW s \in Scores, NEW unfit \in BOOLEAN, SaveRead(j, s, unfit)
  PROVE  Serial'
<1>1. PICK w \in Decisions(j, s, unfit) :
        save' = [at |-> "decided", job |-> j, score |-> s, rows |-> w]
  BY DEF SaveRead
<1>2. /\ Rest /\ row' = row /\ score' = score /\ prefs' = prefs /\ todo' = todo
      /\ returned' = returned
  BY DEF SaveRead, Free
<1>3. used'["losses"] = used["losses"]
  BY Events DEF SaveRead, TypeInv
<1>4. (\A r \in Requests : todo'[r] = <<>>) /\ Ahead' = {}
  BY <1>2, AtRest DEF Ahead
<1>5. ~ \E r \in Requests : Writing(r)'
  BY <1>4 DEF Writing, Turn
<1>6. Alone' /\ Current'
  BY <1>4 DEF Alone, Busy, Current
<1>7. NoHidingCircle'
  BY <1>2 DEF NoHidingCircle, Serial
<1>8. \A k \in Actives(j) : k \in Jobs \ {j} /\ row[k].status = "active"
  BY DEF Actives
<1> DEFINE Good == /\ Apart(row, w, {j})
                   /\ \A i \in DOMAIN w :
                        /\ RuleFits(prefs, w[i]) /\ AwayFits(prefs, i, w[i])
                        /\ IF i = j THEN MinFits(prefs, w[i], s) /\ (LowFits(prefs, w[i], s) \/ i \in Quick)
                                    ELSE w[i].status = "duplicated" /\ w[i].why = "superseded"
<1>9. Good
  <2> USE DEF Apart, Points, Spares, RuleFits, AwayFits, MinFits, LowFits
  <2>1. ASSUME NEW x, w = Only(j, x) PROVE DOMAIN w = {j} /\ w[j] = x
    BY <2>1 DEF Only
  <2>2. CASE w = Only(j, Shown) /\ (j \in Quick \/ s >= prefs.min)
    BY <2>1, <2>2 DEF Shown, Row
  <2>3. CASE w = Only(j, Hidden("unfit", None))
    BY <2>1, <2>3, NoneIsNoJob DEF Hidden, Row
  <2>4. CASE w = Only(j, Hidden("below_min", None)) /\ (s = 0 \/ s < prefs.min)
    BY <2>1, <2>4, NoneIsNoJob DEF Hidden, Row
  <2>5. CASE w = Only(j, Hidden("outside", None)) /\ j \in prefs.away
    BY <2>1, <2>5, NoneIsNoJob DEF Hidden, Row
  <2>6. CASE w = Only(j, Hidden("applied", None)) /\ prefs.applied
    BY <2>1, <2>6, NoneIsNoJob DEF Hidden, Row
  <2>7. ASSUME NEW k \in Actives(j), NEW why \in {"same_url", "similar", "lower_score"},
               w = Only(j, Hidden(why, k)), why = "lower_score" => prefs.comparison
        PROVE  Good
    <3>1. DOMAIN w = {j} /\ w[j].status = "duplicated" /\ w[j].why = why /\ w[j].because = k
      BY <2>1, <2>7 DEF Hidden, Row
    <3>2. w \in Partial
      BY DecisionType
    <3>3. Merge(row, w)[k].status = "active"
      BY <1>8, <3>1, <3>2, MergeRows DEF TypeInv
    <3> QED BY <2>7, <3>1, <3>3
  <2>8. ASSUME NEW k \in Actives(j), w = Supersede(j, k), prefs.comparison, s >= prefs.min
        PROVE  Good
    <3>1. /\ DOMAIN w = {j, k} /\ w[j].status = "active" /\ k # j
          /\ w[k].status = "duplicated" /\ w[k].why = "superseded" /\ w[k].because = j
      BY <1>8, <2>8 DEF Supersede, Shown, Hidden, Row
    <3>2. w \in Partial
      BY DecisionType
    <3>3. Merge(row, w)[j].status = "active"
      BY <3>1, <3>2, MergeRows DEF TypeInv
    <3> QED BY <1>8, <2>8, <3>1, <3>3
  <2> QED BY <2>2, <2>3, <2>4, <2>5, <2>6, <2>7, <2>8, DecisionKinds
<1>10. WritesApart'
  BY <1>1, <1>2, <1>5, <1>9 DEF WritesApart
<1>11. FitInv'
  <2> SUFFICES ASSUME used'["losses"] = 0 PROVE (RowsFit /\ WritesFit /\ SaveFits)'
    BY DEF FitInv
  <2>1. \A i \in Jobs : Fits(prefs, {}, i, row[i], score[i], i \in returned)
    BY <1>2, <1>3, AtRest
  <2>2. RowsFit' /\ WritesFit'
    BY <1>2, <1>4, <1>5, <2>1 DEF RowsFit, WritesFit
  <2>3. SaveFits'
    BY <1>1, <1>2, <1>9 DEF SaveFits
  <2> QED BY <2>2, <2>3
<1> QED BY <1>6, <1>7, <1>10, <1>11 DEF Serial

LEMMA SaveWriteSerial ==
  ASSUME TypeInv, Serial, SaveWrite
  PROVE  Serial'
<1> DEFINE w == save.rows
<1>1. /\ save # NoSave /\ save' = NoSave /\ row' = Merge(row, w)
      /\ score' = [score EXCEPT ![save.job] = save.score]
      /\ returned' = returned \ {save.job}
      /\ prefs' = prefs /\ todo' = todo /\ used' = used
  BY DEF SaveWrite
<1>2. w \in Partial /\ save.job \in Jobs /\ save.job \in DOMAIN w
  BY <1>1 DEF TypeInv, SaveOK, Decided
<1>3. \A r \in Requests : todo[r] = <<>> /\ todo'[r] = <<>>
  BY <1>1 DEF Serial, Alone, Busy
<1>4. ~ \E r \in Requests : Writing(r) \/ Writing(r)'
  BY <1>3 DEF Writing, Turn
<1>5. Ahead = {} /\ Ahead' = {}
  BY <1>3 DEF Ahead
<1>6. Alone' /\ Current' /\ WritesApart'
  BY <1>1, <1>3, <1>4 DEF Alone, Busy, Current, WritesApart
<1>7. Apart(row, w, {save.job})
  BY <1>1 DEF Serial, WritesApart
<1>8. NoHidingCircle'
  BY <1>1, <1>2, <1>7, NoNewCircle DEF Serial, Apart
<1>9. FitInv'
  <2> SUFFICES ASSUME used'["losses"] = 0 PROVE (RowsFit /\ WritesFit /\ SaveFits)'
    BY DEF FitInv
  <2>1. SaveFits /\ \A i \in Jobs : Fits(prefs, {}, i, row[i], score[i], i \in returned)
    BY <1>1, <1>4, <1>5 DEF Serial, FitInv, RowsFit, Rewritten
  <2>2. ASSUME NEW i \in Jobs
        PROVE  Fits(prefs, {}, i, row'[i], score'[i], i \in returned')
    <3>1. row'[i] = IF i \in DOMAIN w THEN w[i] ELSE row[i]
      BY <1>1, <1>2, MergeRows DEF TypeInv
    <3>2. CASE i = save.job
      <4>1. row'[i] = w[i] /\ score'[i] = save.score
        BY <1>1, <1>2, <3>1, <3>2 DEF TypeInv
      <4>2. /\ RuleFits(prefs, w[i]) /\ AwayFits(prefs, i, w[i])
            /\ MinFits(prefs, w[i], save.score) /\ (LowFits(prefs, w[i], save.score) \/ i \in Quick)
        BY <1>1, <1>2, <2>1, <3>2 DEF SaveFits
      <4> QED BY <4>1, <4>2 DEF Fits
    <3>3. CASE i # save.job /\ i \in DOMAIN w
      <4>1. row'[i] = w[i]
        BY <3>1, <3>3
      <4>2. RuleFits(prefs, w[i]) /\ w[i].status = "duplicated" /\ w[i].why = "superseded"
        BY <1>1, <2>1, <3>3 DEF SaveFits
      <4> QED BY <4>1, <4>2 DEF Fits, AwayFits, MinFits, LowFits
    <3>4. CASE i \notin DOMAIN w
      <4>1. row'[i] = row[i] /\ score'[i] = score[i] /\ (i \in returned' <=> i \in returned)
        BY <1>1, <1>2, <3>1, <3>4 DEF TypeInv
      <4> QED BY <2>1, <4>1 DEF Fits
    <3> QED BY <3>2, <3>3, <3>4
  <2>3. RowsFit'
    BY <1>1, <1>5, <2>2 DEF RowsFit
  <2>4. WritesFit' /\ SaveFits'
    BY <1>1, <1>4 DEF WritesFit, SaveFits
  <2> QED BY <2>3, <2>4
<1> QED BY <1>6, <1>8, <1>9 DEF Serial
-----------------------------------------------------------------------------
(* Sessions that do not overlap: the theorems. *)

LEMMA InitSerial == Init => Serial
<1> SUFFICES ASSUME Init PROVE Serial
  OBVIOUS
<1>1. save = NoSave /\ \A r \in Requests : todo[r] = <<>>
  BY DEF Init
<1>2. Alone /\ Current /\ WritesApart
  BY <1>1 DEF Alone, Busy, Current, WritesApart, Writing, Turn
<1>3. \A j \in Jobs : row[j].status = "none" /\ score[j] = None
  BY DEF Init, Row
<1>4. NoHidingCircle
  BY <1>3 DEF NoHidingCircle
<1>5. \A j \in Jobs : Fits(prefs, Ahead, j, row[j], score[j], j \in returned)
  BY <1>3 DEF Fits, RuleFits, AwayFits, MinFits, LowFits
<1>6. FitInv
  BY <1>1, <1>5 DEF FitInv, RowsFit, WritesFit, SaveFits, Writing, Turn
<1> QED BY <1>2, <1>4, <1>6 DEF Serial

LEMMA SerialStep ==
  ASSUME ~Overlap, TypeInv, Serial, [Next]_vars
  PROVE  Serial'
<1>1. ASSUME NEW j \in Jobs, NEW s \in 0..MaxScore, NEW unfit \in BOOLEAN, SaveRead(j, s, unfit)
      PROVE  Serial'
  BY <1>1, SaveReadSerial DEF Scores
<1>2. CASE SaveWrite
  BY <1>2, SaveWriteSerial
<1>3. ASSUME NEW r \in Requests, Task(r) PROVE Serial'
  BY <1>3, MinSerial, RulesSerial, ReadSerial, BackSerial, ScanSerial, WriteSerial DEF Task
<1>4. ASSUME NEW r \in Requests, Lose(r) PROVE Serial'
  BY <1>4, LoseSerial
<1>5. ASSUME NEW r \in Requests, NEW p \in Prefs, ChangePrefs(r, p) PROVE Serial'
  BY <1>5, ChangeSerial
<1>6. ASSUME NEW r \in Requests,
             NEW task \in {[do |-> "where"], [do |-> "rules"], [do |-> "min", min |-> prefs.min]},
             Again(r, task)
      PROVE  Serial'
  BY <1>6, AgainSerial
<1>7. ASSUME NEW j \in Jobs, ByHand(j) PROVE Serial'
  BY <1>7, HandSerial
<1>8. ASSUME NEW j \in Jobs, Apply(j) \/ Rescore(j) PROVE Serial'
  BY <1>8, ApplySerial
<1>9. CASE UNCHANGED vars
  <2> USE <1>9 DEF vars
  <2>1. Alone' /\ Current'
    BY DEF Serial, Alone, Busy, Current
  <2>2. WritesApart' /\ NoHidingCircle'
    BY DEF Serial, WritesApart, Writing, Turn, NoHidingCircle
  <2>3. FitInv'
    BY DEF Serial, FitInv, RowsFit, Rewritten, WritesFit, WriteFits, SaveFits, Writing, Turn, Ahead
  <2> QED BY <2>1, <2>2, <2>3 DEF Serial
<1> QED BY <1>1, <1>2, <1>3, <1>4, <1>5, <1>6, <1>7, <1>8, <1>9 DEF Next

LEMMA SerialAlways == ASSUME ~Overlap PROVE Spec => [](TypeInv /\ Serial)
<1>1. Init => TypeInv /\ Serial
  BY InitType, InitSerial
<1>2. TypeInv /\ Serial /\ [Next]_vars => (TypeInv /\ Serial)'
  BY TypeStep, SerialStep
<1> QED BY <1>1, <1>2, PTL DEF Spec

\* Jobs that were compared with each other never all disappear: the rows of a
\* session hide nobody for a job that is hidden by then.
THEOREM NoCircle == ASSUME ~Overlap PROVE Spec => []NoHidingCircle
<1>1. TypeInv /\ Serial => NoHidingCircle
  BY DEF Serial
<1> QED BY <1>1, SerialAlways, PTL

\* When all tasks have run, nothing stays hidden by a rule that is off, by a
\* minimum that its score reaches, or for a country that is not excluded.
THEOREM RulesAreKept == ASSUME ~Overlap PROVE Spec => []HiddenByItsRule
<1>1. TypeInv /\ Serial => HiddenByItsRule
  <2> SUFFICES ASSUME Serial, Rest, used["losses"] = 0,
                      NEW j \in Jobs, row[j].status = "duplicated"
               PROVE  /\ row[j].why = "applied" => prefs.applied
                      /\ row[j].why \in {"lower_score", "superseded"} => prefs.comparison
                      /\ row[j].why = "below_min" /\ score[j] # None => score[j] = 0 \/ score[j] < prefs.min
                      /\ row[j].why = "outside" => j \in prefs.away
    BY DEF HiddenByItsRule
  <2>1. Fits(prefs, {}, j, row[j], score[j], j \in returned)
    BY AtRest
  <2>2. RuleFits(prefs, row[j]) /\ AwayFits(prefs, j, row[j]) /\ MinFits(prefs, row[j], score[j])
    BY <2>1 DEF Fits
  <2> QED BY <2>2 DEF RuleFits, AwayFits, MinFits
<1> QED BY <1>1, SerialAlways, PTL

\* When all tasks have run, a job below the minimum is on the board only if the
\* user or another rule brought it back, or the user added it.
THEOREM MinimumIsKept == ASSUME ~Overlap PROVE Spec => []LowScorersReturned
<1>1. TypeInv /\ Serial => LowScorersReturned
  <2> SUFFICES ASSUME TypeInv, Serial, Rest, used["losses"] = 0,
                      NEW j \in Jobs, Visible(row, j), score[j] # None, score[j] < prefs.min
               PROVE  j \in returned \cup Quick
    BY DEF LowScorersReturned
  <2>1. LowFits(prefs, row[j], score[j]) \/ j \in returned \/ j \in Quick
    BY AtRest DEF Fits
  <2>2. ~LowFits(prefs, row[j], score[j])
    BY SettingTypes DEF LowFits, Visible
  <2> QED BY <2>1, <2>2
<1> QED BY <1>1, SerialAlways, PTL

\* What the user hid stays hidden until the user, or its own analysis, changes
\* it: no other save and no task writes its row.
THEOREM HidesStay == ASSUME ~Overlap PROVE Spec => ManualHidesStay
<1> DEFINE Stays == \A j \in Jobs : row[j].status = "manual_hidden" /\ row'[j].status # "manual_hidden" =>
                      ByHand(j) \/ (SaveWrite /\ save.job = j)
<1>1. ASSUME TypeInv, Serial, Next PROVE Stays
  <2> SUFFICES ASSUME NEW j \in Jobs, row[j].status = "manual_hidden", row'[j].status # "manual_hidden"
               PROVE  ByHand(j) \/ (SaveWrite /\ save.job = j)
    OBVIOUS
  <2>0. row' # row
    OBVIOUS
  <2>1. ASSUME NEW k \in Jobs, NEW s \in 0..MaxScore, NEW unfit \in BOOLEAN, SaveRead(k, s, unfit)
        PROVE  FALSE
    BY <2>0, <2>1 DEF SaveRead
  <2>2. CASE SaveWrite
    <3>1. save.rows \in Partial /\ save # NoSave /\ row' = Merge(row, save.rows)
      BY <1>1, <2>2 DEF SaveWrite, TypeInv, SaveOK, Decided
    <3>2. j \in DOMAIN save.rows
      BY <1>1, <3>1, MergeRows DEF TypeInv
    <3>3. Spares(row, save.rows, {save.job})
      BY <1>1, <3>1 DEF Serial, WritesApart, Apart
    <3> QED BY <2>2, <3>2, <3>3 DEF Spares
  <2>3. ASSUME NEW r \in Requests, Task(r) PROVE FALSE
    <3>1. ~(ApplyMin(r) \/ ApplyRules(r) \/ ReadCountries(r) \/ LocationBack(r) \/ ListVisible(r))
      BY <2>0 DEF ApplyMin, ApplyRules, ReadCountries, LocationBack, ListVisible, Decide
    <3>2. Turn(r, "write") /\ todo[r] # <<>> /\ row' = Merge(row, Head(todo[r]).rows)
      BY <2>3, <3>1 DEF Task, Write, Turn
    <3>3. Head(todo[r]).rows \in Partial
      BY <1>1, <3>2, HeadType
    <3>4. j \in DOMAIN Head(todo[r]).rows
      BY <1>1, <3>2, <3>3, MergeRows DEF TypeInv
    <3>5. Spares(row, Head(todo[r]).rows, {})
      BY <1>1, <3>2 DEF Serial, WritesApart, Writing, Apart
    <3> QED BY <3>4, <3>5 DEF Spares
  <2>4. ASSUME NEW r \in Requests, Lose(r) PROVE FALSE
    BY <2>0, <2>4 DEF Lose
  <2>5. ASSUME NEW r \in Requests, NEW p \in Prefs, ChangePrefs(r, p) PROVE FALSE
    BY <2>0, <2>5 DEF ChangePrefs
  <2>6. ASSUME NEW r \in Requests,
               NEW task \in {[do |-> "where"], [do |-> "rules"], [do |-> "min", min |-> prefs.min]},
               Again(r, task)
        PROVE  FALSE
    BY <2>0, <2>6 DEF Again
  <2>7. ASSUME NEW k \in Jobs, ByHand(k) PROVE k = j
    <3>1. PICK x \in Rows : row' = [row EXCEPT ![k] = x]
      BY <1>1, <2>7, HandRows DEF Act
    <3> QED BY <1>1, <3>1 DEF TypeInv
  <2>8. ASSUME NEW k \in Jobs, Apply(k) \/ Rescore(k) PROVE FALSE
    BY <2>0, <2>8 DEF Apply, Rescore
  <2> QED BY <1>1, <2>1, <2>2, <2>3, <2>4, <2>5, <2>6, <2>7, <2>8 DEF Next
<1>2. TypeInv /\ Serial /\ [Next]_vars => [Stays]_vars
  BY <1>1
<1> QED BY <1>2, SerialAlways, PTL DEF Spec, ManualHidesStay
=============================================================================
