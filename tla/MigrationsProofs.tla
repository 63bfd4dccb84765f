--------------------------- MODULE MigrationsProofs ---------------------------
(***************************************************************************)
(* What holds of the schema of Migrations, an instance of which Books      *)
(* keeps, for any names: whatever revisions are applied and taken back,    *)
(* the schema is what those that are applied make of it, save the labels a *)
(* downgrade leaves behind, whatever rows there are, and a user keeps the  *)
(* full name through the split and the join of 0004.                       *)
(*                                                                         *)
(* A script is a recursive function of its commands, so the first part     *)
(* says what a command does to a database that is given by its parts; then *)
(* each revision's script is walked, up and down; then the invariant.      *)
(***************************************************************************)
EXTENDS Books, Sequences, FiniteSetTheorems, WellFoundedInduction, TLAPS

--------------------------------------------------------------------------------
(* Induction over the natural numbers with a set for the predicate *)

\* A set of natural numbers that is not empty has a least one.
LEMMA LeastNatural ==
  ASSUME NEW S \in SUBSET Nat, S # {}
  PROVE  \E n \in S : \A m \in S : n <= m
<1> DEFINE R == OpToRel(<, Nat)
<1>1. IsWellFoundedOn(R, Nat)
  BY NatLessThanWellFounded
<1>2. \A m, n \in Nat : m < n => <<m, n>> \in R
  BY DEF OpToRel
<1> HIDE DEF R
<1>3. PICK n \in S : \A m \in S : <<m, n>> \notin R
  BY <1>1, WFMin
<1>4. ASSUME NEW m \in S PROVE n <= m
  <2>1. m \in Nat /\ n \in Nat
    OBVIOUS
  <2>2. ~(m < n)
    BY <1>2, <1>3, <2>1
  <2> QED BY <2>1, <2>2
<1> QED BY <1>4

\* A set that has zero and with each number the next has them all.
LEMMA InductionOnSet ==
  ASSUME NEW S, 0 \in S, \A n \in Nat : n \in S => n + 1 \in S
  PROVE  Nat \subseteq S
<1> SUFFICES ASSUME ~(Nat \subseteq S) PROVE FALSE
  OBVIOUS
<1>1. PICK n \in Nat \ S : \A m \in Nat \ S : n <= m
  BY LeastNatural
<1>2. n # 0 /\ n - 1 \in Nat /\ n - 1 \notin Nat \ S
  BY <1>1
<1> QED BY <1>1, <1>2

\* As far as n.
LEMMA InductionUpTo ==
  ASSUME NEW n \in Nat, NEW S, 0 \in S, \A i \in 0 .. n - 1 : i \in S => i + 1 \in S
  PROVE  0 .. n \subseteq S
<1> DEFINE T == {i \in Nat : i <= n => i \in S}
<1>1. 0 \in T
  OBVIOUS
<1>2. \A i \in Nat : i \in T => i + 1 \in T
  OBVIOUS
<1> HIDE DEF T
<1>3. Nat \subseteq T
  BY <1>1, <1>2, InductionOnSet
<1> USE DEF T
<1> QED BY <1>3

\* f is what the steps make of f0, and g is as long as it goes.
Follows(f, n, f0, step) == f[0] = f0 /\ \A i \in 0 .. n - 1 : f[i + 1] = step[<<i, f[i]>>]

\* A function that takes n steps is there.
LEMMA RecursionUpTo ==
  ASSUME NEW n \in Nat, NEW S, NEW f0 \in S, NEW step \in [Nat \X S -> S]
  PROVE  \E f \in [0 .. n -> S] : Follows(f, n, f0, step)
<1> DEFINE T == {k \in Nat : \E f \in [0 .. k -> S] : Follows(f, k, f0, step)}
<1>1. 0 \in T
  <2>1. [i \in 0 .. 0 |-> f0] \in [0 .. 0 -> S] /\ Follows([i \in 0 .. 0 |-> f0], 0, f0, step)
    BY DEF Follows
  <2> QED BY <2>1
<1>2. ASSUME NEW k \in Nat, k \in T PROVE k + 1 \in T
  <2>1. PICK f \in [0 .. k -> S] : Follows(f, k, f0, step)
    BY <1>2
  <2>2. step[<<k, f[k]>>] \in S
    OBVIOUS
  <2> DEFINE g == [i \in 0 .. k + 1 |-> IF i = k + 1 THEN step[<<k, f[k]>>] ELSE f[i]]
  <2>3. g \in [0 .. k + 1 -> S]
    BY <2>2
  <2>4. g[0] = f0
    BY <2>1 DEF Follows
  <2>5. ASSUME NEW i \in 0 .. k PROVE g[i + 1] = step[<<i, g[i]>>]
    <3>1. CASE i = k
      <4>1. g[k + 1] = step[<<k, f[k]>>] /\ g[k] = f[k] OBVIOUS
      <4> QED BY <3>1, <4>1
    <3>2. CASE i < k
      <4>1. i \in 0 .. k - 1 /\ i + 1 \in 0 .. k BY <3>2
      <4>2. f[i + 1] = step[<<i, f[i]>>] BY <2>1, <4>1 DEF Follows
      <4>3. g[i + 1] = f[i + 1] /\ g[i] = f[i] BY <4>1, <3>2
      <4> QED BY <4>2, <4>3
    <3> QED BY <3>1, <3>2
  <2> HIDE DEF g
  <2>6. Follows(g, k + 1, f0, step)
    BY <2>4, <2>5 DEF Follows
  <2> QED BY <2>3, <2>6
<1> HIDE DEF T
<1>3. Nat \subseteq T
  BY <1>1, <1>2, InductionOnSet
<1>4. n \in T
  BY <1>3
<1> QED BY <1>4 DEF T

--------------------------------------------------------------------------------
(* Scripts *)

\* The database after the first k commands of a script.
Upto(s, d) ==
  CHOOSE f : f = [i \in 0..Len(s) |-> IF i = 0 THEN d ELSE Schema!Execute(s[i], f[i - 1])]
UptoCommand(s, k, d) == Upto(s, d)[k]

\* Each command makes of the database what Execute does.
Walked(s, d) == \A k \in 1..Len(s) :
  UptoCommand(s, k, d) = Schema!Execute(s[k], UptoCommand(s, k - 1, d))

\* A script of any length is run command by command, from the database it is given.
LEMMA ScriptRuns ==
  ASSUME NEW s, Len(s) \in Nat, NEW d
  PROVE  /\ Schema!Run(s, d) = UptoCommand(s, Len(s), d)
         /\ UptoCommand(s, 0, d) = d
         /\ Walked(s, d)
<1> DEFINE n == Len(s)
           Does(f, k) == /\ f = [i \in 0..k |-> f[i]] /\ f[0] = d
                         /\ \A i \in 1..k : f[i] = Schema!Execute(s[i], f[i - 1])
           T == {k \in Nat : \E f : Does(f, k)}
<1>1. 0 \in T
  <2>1. Does([i \in 0..0 |-> d], 0) OBVIOUS
  <2> QED BY <2>1
<1>2. ASSUME NEW k \in Nat, k \in T PROVE k + 1 \in T
  <2>1. PICK f : Does(f, k) BY <1>2
  <2> DEFINE v == Schema!Execute(s[k + 1], f[k])
             g == [i \in 0..k + 1 |-> IF i = k + 1 THEN v ELSE f[i]]
  <2> HIDE DEF v
  <2>2. g[0] = d /\ g[k + 1] = v /\ g[k] = f[k] BY <2>1
  <2>3. ASSUME NEW i \in 1..k + 1 PROVE g[i] = Schema!Execute(s[i], g[i - 1])
    <3>1. CASE i = k + 1
      <4>1. i - 1 = k BY <3>1
      <4> HIDE DEF g
      <4> QED BY <4>1, <2>2, <3>1 DEF v
    <3>2. CASE i \in 1..k
      <4>1. g[i] = f[i] /\ g[i - 1] = f[i - 1] BY <3>2
      <4> HIDE DEF g
      <4> QED BY <4>1, <2>1, <3>2
    <3> QED BY <3>1, <3>2
  <2>4. g = [i \in 0..k + 1 |-> g[i]] OBVIOUS
  <2> HIDE DEF g
  <2>5. Does(g, k + 1) BY <2>2, <2>3, <2>4
  <2> HIDE DEF Does
  <2>6. \E h : Does(h, k + 1) BY <2>5
  <2> QED BY <2>6
<1> HIDE DEF T
<1>3. Nat \subseteq T BY <1>1, <1>2, InductionOnSet
<1>4. PICK f : Does(f, n)
  <2>1. n \in T BY <1>3
  <2> QED BY <2>1 DEF T
<1> DEFINE Is(g) == g = [i \in 0..Len(s) |-> IF i = 0 THEN d ELSE Schema!Execute(s[i], g[i - 1])]
<1>5. Is(f)
  <2>1. \A i \in 0..Len(s) : f[i] = IF i = 0 THEN d ELSE Schema!Execute(s[i], f[i - 1])
    BY <1>4
  <2> QED BY <2>1, <1>4
<1>6. Is(Upto(s, d))
  <2> HIDE DEF Is
  <2>1. \E g : Is(g) BY <1>5
  <2>2. Is(CHOOSE g : Is(g)) BY <2>1
  <2> QED BY <2>2 DEF Upto, Is
<1>7. Schema!Run(s, d) = Upto(s, d)[Len(s)] BY DEF Schema!Run, Upto
<1> HIDE DEF Is
<1>8. Upto(s, d)[0] = d /\ \A k \in 1..Len(s) :
    Upto(s, d)[k] = Schema!Execute(s[k], Upto(s, d)[k - 1])
  BY <1>6 DEF Is
<1> QED BY <1>7, <1>8 DEF UptoCommand, Walked

\* One command further.
LEMMA CommandRuns ==
  ASSUME NEW s, Len(s) \in Nat, NEW d, NEW k \in Nat, k < Len(s)
  PROVE  UptoCommand(s, k + 1, d) = Schema!Execute(s[k + 1], UptoCommand(s, k, d))
<1>1. k + 1 \in 1..Len(s) /\ (k + 1) - 1 = k OBVIOUS
<1>2. UptoCommand(s, k + 1, d) = Schema!Execute(s[k + 1], UptoCommand(s, (k + 1) - 1, d))
  <2>1. Walked(s, d) BY ScriptRuns
  <2> QED BY <2>1, <1>1 DEF Walked
<1> QED BY <1>1, <1>2

\* The same, for a script of n commands.
LEMMA CommandIs ==
  ASSUME NEW s, NEW n \in Nat, Len(s) = n, NEW d
  PROVE  \A k \in 1..n : UptoCommand(s, k, d) = Schema!Execute(s[k], UptoCommand(s, k - 1, d))
<1>1. Len(s) \in Nat OBVIOUS
<1>2. Walked(s, d) BY <1>1, ScriptRuns
<1> QED BY <1>2 DEF Walked

\* When the last command is done, so is the script, its length given by two bounds.
LEMMA ScriptEnds ==
  ASSUME NEW s, Len(s) \in Nat, NEW d, NEW n \in Nat, n <= Len(s), Len(s) <= n
  PROVE  Schema!Run(s, d) = UptoCommand(s, n, d)
<1>1. Len(s) = n OBVIOUS
<1> QED BY <1>1, ScriptRuns

\* Before the first command nothing is done.
LEMMA ScriptStarts ==
  ASSUME NEW s, Len(s) \in Nat, NEW d
  PROVE  UptoCommand(s, 0, d) = d
BY ScriptRuns

\* What is run after s goes on from where s stops.
LEMMA RunConcat ==
  ASSUME NEW S, NEW s \in Seq(S), NEW t \in Seq(S), NEW d
  PROVE  Schema!Run(s \o t, d) = Schema!Run(t, Schema!Run(s, d))
<1> DEFINE m == Len(s)
           n == Len(t)
           both == s \o t
<1>1. /\ m \in Nat /\ n \in Nat /\ Len(both) = m + n
      /\ \A k \in 1..m : both[k] = s[k]
      /\ \A k \in 1..n : both[m + k] = t[k]
  OBVIOUS
<1> HIDE DEF both
<1> DEFINE A == {k \in 0..m : UptoCommand(both, k, d) = UptoCommand(s, k, d)}
           B == {k \in 0..n : UptoCommand(both, m + k, d) = UptoCommand(t, k, Schema!Run(s, d))}
<1>2. 0 \in A BY <1>1, ScriptRuns
<1>3. ASSUME NEW k \in 0..m - 1, k \in A PROVE k + 1 \in A
  <2>1. k + 1 \in 1..m /\ k \in Nat /\ k < m /\ k < Len(both) /\ Len(both) \in Nat BY <1>1
  <2>2. UptoCommand(both, k + 1, d) = Schema!Execute(both[k + 1], UptoCommand(both, k, d))
    BY <2>1, CommandRuns
  <2>3. UptoCommand(s, k + 1, d) = Schema!Execute(s[k + 1], UptoCommand(s, k, d))
    BY <2>1, <1>1, CommandRuns
  <2>4. both[k + 1] = s[k + 1] BY <2>1, <1>1
  <2> QED BY <2>1, <2>2, <2>3, <2>4, <1>3
<1> HIDE DEF A
<1>4. 0..m \subseteq A BY <1>1, <1>2, <1>3, InductionUpTo
<1>5. UptoCommand(both, m, d) = Schema!Run(s, d)
  <2>1. m \in A BY <1>1, <1>4
  <2> QED BY <2>1, <1>1, ScriptRuns DEF A
<1>6. 0 \in B
  <2>1. m + 0 = m /\ 0 \in 0..n BY <1>1
  <2>2. UptoCommand(t, 0, Schema!Run(s, d)) = Schema!Run(s, d) BY <1>1, ScriptRuns
  <2> QED BY <2>1, <2>2, <1>5
<1>7. ASSUME NEW k \in 0..n - 1, k \in B PROVE k + 1 \in B
  <2>1. /\ k + 1 \in 1..n /\ k \in Nat /\ k < n /\ Len(both) \in Nat
        /\ m + k \in Nat /\ m + k < Len(both) /\ m + (k + 1) = (m + k) + 1 BY <1>1
  <2>2. UptoCommand(both, m + (k + 1), d)
          = Schema!Execute(both[m + (k + 1)], UptoCommand(both, m + k, d))
    <3>1. UptoCommand(both, (m + k) + 1, d)
            = Schema!Execute(both[(m + k) + 1], UptoCommand(both, m + k, d)) BY <2>1, CommandRuns
    <3> QED BY <3>1, <2>1
  <2>3. UptoCommand(t, k + 1, Schema!Run(s, d))
      = Schema!Execute(t[k + 1], UptoCommand(t, k, Schema!Run(s, d)))
    BY <2>1, <1>1, CommandRuns
  <2>4. both[m + (k + 1)] = t[k + 1] BY <2>1, <1>1
  <2> QED BY <2>1, <2>2, <2>3, <2>4, <1>7
<1> HIDE DEF B
<1>8. 0..n \subseteq B BY <1>1, <1>6, <1>7, InductionUpTo
<1>9. UptoCommand(both, m + n, d) = UptoCommand(t, n, Schema!Run(s, d))
  <2>1. n \in B BY <1>1, <1>8
  <2> QED BY <2>1 DEF B
<1>10. Schema!Run(both, d) = UptoCommand(both, m + n, d)
  <2>1. Len(both) \in Nat BY <1>1
  <2>2. Schema!Run(both, d) = UptoCommand(both, Len(both), d) BY <2>1, ScriptRuns
  <2> QED BY <2>2, <1>1
<1>11. Schema!Run(t, Schema!Run(s, d)) = UptoCommand(t, n, Schema!Run(s, d)) BY <1>1, ScriptRuns
<1> QED BY <1>9, <1>10, <1>11 DEF both

--------------------------------------------------------------------------------
(* Databases *)

\* The part of F that S asks for: the columns of a table come and go, what they are stays.
Cut(F, S) == [c \in S |-> F[c]]

\* A column more is one name more of F, its definition being F's,
LEMMA CutPut ==
  ASSUME NEW F, NEW S, NEW c
  PROVE  Schema!Put(Cut(F, S), c, F[c]) = Cut(F, S \cup {c})
BY DEF Schema!Put, Cut

\* a column less is one name less,
LEMMA CutWithout ==
  ASSUME NEW F, NEW S, NEW c
  PROVE  Schema!Without(Cut(F, S), c) = Cut(F, S \ {c})
BY DEF Schema!Without, Cut

\* and a column renamed is one name for another, if F has the same for both.
LEMMA CutRenamed ==
  ASSUME NEW F, NEW S, NEW x \in S, NEW y, y \notin S, F[x] = F[y]
  PROVE  Schema!Renamed(Cut(F, S), x, y) = Cut(F, (S \ {x}) \cup {y})
BY DEF Schema!Renamed, Schema!Put, Schema!Without, Cut

\* A database with all the tables, whose changes are to users, printers and print_jobs and
\* whose rows are in users and print_jobs.
TablesOf(U, P, J) == [
  users |-> U, materials |-> Schema!Material, printers |-> P, print_jobs |-> J,
  job_validations |-> Schema!JobValidation, notifications |-> Schema!Notification,
  collection_records |-> Schema!CollectionRecord, maintenance_logs |-> Schema!MaintenanceLog ]

RowsOf(X, Z) == [
  users |-> X, materials |-> {}, printers |-> {}, print_jobs |-> Z, job_validations |-> {},
  notifications |-> {}, collection_records |-> {}, maintenance_logs |-> {} ]

Base(T, R, Y, I, w) ==
  [tables |-> T, rows |-> R, types |-> Y, indexes |-> I, width |-> w, script |-> "runs"]

DbOf(U, X, P, J, Z, Y, I, w) == Base(TablesOf(U, P, J), RowsOf(X, Z), Y, I, w)

\* Each of the three tables that change is what was given, and changes alone.
LEMMA TablesOfAre ==
  ASSUME NEW U, NEW P, NEW J, NEW V
  PROVE  /\ TablesOf(U, P, J)["users"] = U /\ TablesOf(U, P, J)["printers"] = P
         /\ TablesOf(U, P, J)["print_jobs"] = J
         /\ "users" \in DOMAIN TablesOf(U, P, J) /\ "printers" \in DOMAIN TablesOf(U, P, J)
         /\ "print_jobs" \in DOMAIN TablesOf(U, P, J)
         /\ [TablesOf(U, P, J) EXCEPT !["users"] = V] = TablesOf(V, P, J)
         /\ [TablesOf(U, P, J) EXCEPT !["printers"] = V] = TablesOf(U, V, J)
         /\ [TablesOf(U, P, J) EXCEPT !["print_jobs"] = V] = TablesOf(U, P, V)
<1>1. /\ TablesOf(U, P, J)["users"] = U /\ TablesOf(U, P, J)["printers"] = P
      /\ TablesOf(U, P, J)["print_jobs"] = J
  BY DEF TablesOf
<1>2. /\ "users" \in DOMAIN TablesOf(U, P, J) /\ "printers" \in DOMAIN TablesOf(U, P, J)
      /\ "print_jobs" \in DOMAIN TablesOf(U, P, J)
  BY DEF TablesOf
<1>3. [TablesOf(U, P, J) EXCEPT !["users"] = V] = TablesOf(V, P, J)
  BY DEF TablesOf
<1>4. [TablesOf(U, P, J) EXCEPT !["printers"] = V] = TablesOf(U, V, J)
  BY DEF TablesOf
<1>5. [TablesOf(U, P, J) EXCEPT !["print_jobs"] = V] = TablesOf(U, P, V)
  BY DEF TablesOf
<1> QED BY <1>1, <1>2, <1>3, <1>4, <1>5

\* So are the rows; printers have none.
LEMMA RowsOfAre ==
  ASSUME NEW X, NEW Z, NEW V
  PROVE  /\ RowsOf(X, Z)["users"] = X /\ RowsOf(X, Z)["printers"] = {}
         /\ RowsOf(X, Z)["print_jobs"] = Z
         /\ "users" \in DOMAIN RowsOf(X, Z) /\ "printers" \in DOMAIN RowsOf(X, Z)
         /\ "print_jobs" \in DOMAIN RowsOf(X, Z)
         /\ [RowsOf(X, Z) EXCEPT !["users"] = V] = RowsOf(V, Z)
         /\ [RowsOf(X, Z) EXCEPT !["printers"] = {}] = RowsOf(X, Z)
         /\ [RowsOf(X, Z) EXCEPT !["print_jobs"] = V] = RowsOf(X, V)
<1>1. /\ RowsOf(X, Z)["users"] = X /\ RowsOf(X, Z)["printers"] = {}
      /\ RowsOf(X, Z)["print_jobs"] = Z
  BY DEF RowsOf
<1>2. /\ "users" \in DOMAIN RowsOf(X, Z) /\ "printers" \in DOMAIN RowsOf(X, Z)
      /\ "print_jobs" \in DOMAIN RowsOf(X, Z)
  BY DEF RowsOf
<1>3. [RowsOf(X, Z) EXCEPT !["users"] = V] = RowsOf(V, Z)
  BY DEF RowsOf
<1>4. [RowsOf(X, Z) EXCEPT !["printers"] = {}] = RowsOf(X, Z)
  BY DEF RowsOf
<1>5. [RowsOf(X, Z) EXCEPT !["print_jobs"] = V] = RowsOf(X, V)
  BY DEF RowsOf
<1> QED BY <1>1, <1>2, <1>3, <1>4, <1>5

\* Each part of a database changes alone: its tables,
LEMMA WithTables ==
  ASSUME NEW T, NEW R, NEW Y, NEW I, NEW w, NEW v
  PROVE  [Base(T, R, Y, I, w) EXCEPT !.tables = v] = Base(v, R, Y, I, w)
BY DEF Base

\* its rows,
LEMMA WithRows ==
  ASSUME NEW T, NEW R, NEW Y, NEW I, NEW w, NEW v
  PROVE  [Base(T, R, Y, I, w) EXCEPT !.rows = v] = Base(T, v, Y, I, w)
BY DEF Base

\* its types,
LEMMA WithTypes ==
  ASSUME NEW T, NEW R, NEW Y, NEW I, NEW w, NEW v
  PROVE  [Base(T, R, Y, I, w) EXCEPT !.types = v] = Base(T, R, v, I, w)
BY DEF Base

\* its indexes,
LEMMA WithIndexes ==
  ASSUME NEW T, NEW R, NEW Y, NEW I, NEW w, NEW v
  PROVE  [Base(T, R, Y, I, w) EXCEPT !.indexes = v] = Base(T, R, Y, v, w)
BY DEF Base

\* and the width of Alembic's column.
LEMMA WithWidth ==
  ASSUME NEW T, NEW R, NEW Y, NEW I, NEW w, NEW v
  PROVE  [Base(T, R, Y, I, w) EXCEPT !.width = v] = Base(T, R, Y, I, v)
BY DEF Base

\* What is done to one table and its rows.
LEMMA BaseReshaped ==
  ASSUME NEW T, NEW R, NEW Y, NEW I, NEW w, NEW t, NEW v, NEW s
  PROVE  Schema!Reshaped(Base(T, R, Y, I, w), t, v, s)
           = Base([T EXCEPT ![t] = v], [R EXCEPT ![t] = s], Y, I, w)
<1> DEFINE d == Base(T, R, Y, I, w)
           T2 == [T EXCEPT ![t] = v]
           R2 == [R EXCEPT ![t] = s]
<1>1. d.tables = T /\ d.rows = R BY DEF Base
<1>2. [d EXCEPT !.tables[t] = v, !.rows[t] = s] = [d EXCEPT !.tables = T2, !.rows = R2]
  BY <1>1
<1> HIDE DEF T2, R2
<1>3. [d EXCEPT !.tables = T2, !.rows = R2] = [[d EXCEPT !.tables = T2] EXCEPT !.rows = R2]
  OBVIOUS
<1>4. [[d EXCEPT !.tables = T2] EXCEPT !.rows = R2] = Base(T2, R2, Y, I, w)
  <2>1. [d EXCEPT !.tables = T2] = Base(T2, R, Y, I, w) BY WithTables
  <2>2. [Base(T2, R, Y, I, w) EXCEPT !.rows = R2] = Base(T2, R2, Y, I, w) BY WithRows
  <2> QED BY <2>1, <2>2
<1> QED BY <1>2, <1>3, <1>4 DEF T2, R2, Schema!Reshaped

Updated(S, c, rule) == {[r EXCEPT ![c] = Schema!ValueBy(rule, r)] : r \in S}

\* A command that can be run is run.
LEMMA Executed ==
  ASSUME NEW d, NEW k, d.script = "runs", Schema!Can(k, d)
  PROVE  Schema!Execute(k, d) = Schema!Do(k, d)
BY DEF Schema!Execute

\* And each part is what was given.
LEMMA BaseIs ==
  ASSUME NEW T, NEW R, NEW Y, NEW I, NEW w
  PROVE  /\ Base(T, R, Y, I, w).tables = T /\ Base(T, R, Y, I, w).rows = R
         /\ Base(T, R, Y, I, w).types = Y /\ Base(T, R, Y, I, w).indexes = I
         /\ Base(T, R, Y, I, w).width = w /\ Base(T, R, Y, I, w).script = "runs"
BY DEF Base

\* ADD COLUMN of one that is not there and is nullable or has a default is not refused.
LEMMA AddsColumn ==
  ASSUME NEW T, NEW R, NEW Y, NEW I, NEW w, NEW t \in DOMAIN T, t \in DOMAIN R,
         NEW c, c \notin DOMAIN T[t], NEW spec, spec.null \/ spec.default # Schema!NULL
  PROVE  Schema!Execute(Schema!AddColumn(t, c, spec), Base(T, R, Y, I, w))
           = Base([T EXCEPT ![t] = Schema!Put(T[t], c, spec)],
               [R EXCEPT ![t] = Schema!Added(R[t], c, spec.default)], Y, I, w)
<1> DEFINE d == Base(T, R, Y, I, w)
           k == Schema!AddColumn(t, c, spec)
<1>1. d.tables = T /\ d.rows = R /\ d.types = Y /\ d.indexes = I /\ d.script = "runs"
  BY BaseIs
<1>2. k.do = "add column" /\ k.table = t /\ k.column = c /\ k.spec = spec
  BY DEF Schema!AddColumn
<1> HIDE DEF d, k
<1>3. Schema!Can(k, d) BY <1>1, <1>2 DEF Schema!Can, Schema!Has
<1>4. Schema!Do(k, d) = Schema!Reshaped(d, t, Schema!Put(T[t], c, spec),
    Schema!Added(R[t], c, spec.default))
  BY <1>1, <1>2 DEF Schema!Do
<1>5. Schema!Execute(k, d) = Schema!Do(k, d) BY <1>1, <1>3, Executed
<1>6. Schema!Reshaped(d, t, Schema!Put(T[t], c, spec), Schema!Added(R[t], c, spec.default))
    = Base([T EXCEPT ![t] = Schema!Put(T[t], c, spec)],
        [R EXCEPT ![t] = Schema!Added(R[t], c, spec.default)], Y, I, w)
  BY BaseReshaped DEF d
<1> QED BY <1>4, <1>5, <1>6 DEF d, k

\* DROP COLUMN of one that is there is not refused.
LEMMA DropsColumn ==
  ASSUME NEW T, NEW R, NEW Y, NEW I, NEW w, NEW t \in DOMAIN T, t \in DOMAIN R,
         NEW c \in DOMAIN T[t]
  PROVE  Schema!Execute(Schema!DropColumn(t, c), Base(T, R, Y, I, w))
           = Base([T EXCEPT ![t] = Schema!Without(T[t], c)],
               [R EXCEPT ![t] = Schema!Dropped(R[t], c)], Y, I, w)
<1> DEFINE d == Base(T, R, Y, I, w)
           k == Schema!DropColumn(t, c)
<1>1. d.tables = T /\ d.rows = R /\ d.types = Y /\ d.indexes = I /\ d.script = "runs"
  BY BaseIs
<1>2. k.do = "drop column" /\ k.table = t /\ k.column = c
  BY DEF Schema!DropColumn
<1> HIDE DEF d, k
<1>3. Schema!Can(k, d) BY <1>1, <1>2 DEF Schema!Can, Schema!Has
<1>4. Schema!Do(k, d) = Schema!Reshaped(d, t, Schema!Without(T[t], c), Schema!Dropped(R[t], c))
  BY <1>1, <1>2 DEF Schema!Do
<1>5. Schema!Execute(k, d) = Schema!Do(k, d) BY <1>1, <1>3, Executed
<1>6. Schema!Reshaped(d, t, Schema!Without(T[t], c), Schema!Dropped(R[t], c))
    = Base([T EXCEPT ![t] = Schema!Without(T[t], c)], [R EXCEPT ![t] = Schema!Dropped(R[t], c)],
        Y, I, w)
  BY BaseReshaped DEF d
<1> QED BY <1>4, <1>5, <1>6 DEF d, k

\* RENAME COLUMN of one that is there, to a name that is free, is not refused.
LEMMA RenamesColumn ==
  ASSUME NEW T, NEW R, NEW Y, NEW I, NEW w, NEW t \in DOMAIN T, t \in DOMAIN R,
         NEW c \in DOMAIN T[t], NEW to, to \notin DOMAIN T[t]
  PROVE  Schema!Execute(Schema!Rename(t, c, to), Base(T, R, Y, I, w))
           = Base([T EXCEPT ![t] = Schema!Renamed(T[t], c, to)],
               [R EXCEPT ![t] = Schema!RenamedIn(R[t], c, to)], Y, I, w)
<1> DEFINE d == Base(T, R, Y, I, w)
           k == Schema!Rename(t, c, to)
<1>1. d.tables = T /\ d.rows = R /\ d.types = Y /\ d.indexes = I /\ d.script = "runs"
  BY BaseIs
<1>2. k.do = "rename" /\ k.table = t /\ k.column = c /\ k.to = to
  BY DEF Schema!Rename
<1> HIDE DEF d, k
<1>3. Schema!Can(k, d) BY <1>1, <1>2 DEF Schema!Can, Schema!Has
<1>4. Schema!Do(k, d) = Schema!Reshaped(d, t, Schema!Renamed(T[t], c, to),
    Schema!RenamedIn(R[t], c, to))
  BY <1>1, <1>2 DEF Schema!Do
<1>5. Schema!Execute(k, d) = Schema!Do(k, d) BY <1>1, <1>3, Executed
<1>6. Schema!Reshaped(d, t, Schema!Renamed(T[t], c, to), Schema!RenamedIn(R[t], c, to))
    = Base([T EXCEPT ![t] = Schema!Renamed(T[t], c, to)],
        [R EXCEPT ![t] = Schema!RenamedIn(R[t], c, to)], Y, I, w)
  BY BaseReshaped DEF d
<1> QED BY <1>4, <1>5, <1>6 DEF d, k

\* Nor is the renaming that asks first, if the column is there;
LEMMA RenamesColumnThere ==
  ASSUME NEW T, NEW R, NEW Y, NEW I, NEW w, NEW t \in DOMAIN T, t \in DOMAIN R,
         NEW c \in DOMAIN T[t], NEW to, to \notin DOMAIN T[t]
  PROVE  Schema!Execute(Schema!RenameIfThere(t, c, to), Base(T, R, Y, I, w))
           = Base([T EXCEPT ![t] = Schema!Renamed(T[t], c, to)],
               [R EXCEPT ![t] = Schema!RenamedIn(R[t], c, to)], Y, I, w)
<1> DEFINE d == Base(T, R, Y, I, w)
           k == Schema!RenameIfThere(t, c, to)
<1>1. d.tables = T /\ d.rows = R /\ d.types = Y /\ d.indexes = I /\ d.script = "runs"
  BY BaseIs
<1>2. k.do = "rename if there" /\ k.table = t /\ k.column = c /\ k.to = to
  BY DEF Schema!RenameIfThere
<1> HIDE DEF d, k
<1>3. Schema!Can(k, d) BY <1>1, <1>2 DEF Schema!Can, Schema!Has
<1>4. Schema!Do(k, d) = Schema!Reshaped(d, t, Schema!Renamed(T[t], c, to),
    Schema!RenamedIn(R[t], c, to))
  BY <1>1, <1>2 DEF Schema!Do, Schema!Has
<1>5. Schema!Execute(k, d) = Schema!Do(k, d) BY <1>1, <1>3, Executed
<1>6. Schema!Reshaped(d, t, Schema!Renamed(T[t], c, to), Schema!RenamedIn(R[t], c, to))
    = Base([T EXCEPT ![t] = Schema!Renamed(T[t], c, to)],
        [R EXCEPT ![t] = Schema!RenamedIn(R[t], c, to)], Y, I, w)
  BY BaseReshaped DEF d
<1> QED BY <1>4, <1>5, <1>6 DEF d, k

\* if it is not, nothing changes.
LEMMA RenamesNothing ==
  ASSUME NEW T, NEW R, NEW Y, NEW I, NEW w, NEW t \in DOMAIN T, t \in DOMAIN R,
         NEW c, c \notin DOMAIN T[t], NEW to
  PROVE  Schema!Execute(Schema!RenameIfThere(t, c, to), Base(T, R, Y, I, w))
           = Base(T, R, Y, I, w)
<1> DEFINE d == Base(T, R, Y, I, w)
           k == Schema!RenameIfThere(t, c, to)
<1>1. d.tables = T /\ d.rows = R /\ d.types = Y /\ d.indexes = I /\ d.script = "runs"
  BY BaseIs
<1>2. k.do = "rename if there" /\ k.table = t /\ k.column = c /\ k.to = to
  BY DEF Schema!RenameIfThere
<1> HIDE DEF d, k
<1>3. Schema!Can(k, d) BY <1>1, <1>2 DEF Schema!Can, Schema!Has
<1>4. Schema!Do(k, d) = d
  BY <1>1, <1>2 DEF Schema!Do, Schema!Has
<1>5. Schema!Execute(k, d) = Schema!Do(k, d) BY <1>1, <1>3, Executed
<1>6. d = Base(T, R, Y, I, w) BY DEF d
<1> QED BY <1>4, <1>5, <1>6 DEF d, k

NullSet(f, c, b) == [f EXCEPT ![c].null = b]
DefaultSet(f, c, v) == [f EXCEPT ![c].default = v]

\* NOT NULL may be set if no row has NULL, and be dropped always.
LEMMA SetsNull ==
  ASSUME NEW T, NEW R, NEW Y, NEW I, NEW w, NEW t \in DOMAIN T, t \in DOMAIN R,
         NEW c \in DOMAIN T[t], NEW b,
         b \/ \A r \in R[t] : r[c] # Schema!NULL
  PROVE  Schema!Execute(Schema!SetNull(t, c, b), Base(T, R, Y, I, w))
           = Base([T EXCEPT ![t] = NullSet(T[t], c, b)], R, Y, I, w)
<1> DEFINE d == Base(T, R, Y, I, w)
           k == Schema!SetNull(t, c, b)
<1>1. d.tables = T /\ d.rows = R /\ d.types = Y /\ d.indexes = I /\ d.script = "runs"
  BY BaseIs
<1>2. k.do = "set null" /\ k.table = t /\ k.column = c /\ k.null = b
  BY DEF Schema!SetNull
<1> HIDE DEF d, k
<1>3. Schema!Can(k, d) BY <1>1, <1>2 DEF Schema!Can, Schema!Has
<1>4. Schema!Do(k, d) = [d EXCEPT !.tables = [T EXCEPT ![t] = NullSet(T[t], c, b)]]
  BY <1>1, <1>2 DEF Schema!Do, NullSet, DefaultSet
<1>5. Schema!Execute(k, d) = Schema!Do(k, d) BY <1>1, <1>3, Executed
<1>6. [d EXCEPT !.tables = [T EXCEPT ![t] = NullSet(T[t], c, b)]]
    = Base([T EXCEPT ![t] = NullSet(T[t], c, b)], R, Y, I, w)
  <2> DEFINE v == [T EXCEPT ![t] = NullSet(T[t], c, b)]
  <2> HIDE DEF v
  <2>1. [d EXCEPT !.tables = v] = Base(v, R, Y, I, w) BY WithTables DEF d
  <2> QED BY <2>1 DEF v
<1> QED BY <1>4, <1>5, <1>6 DEF d, k

\* A default may be set that is a label of the column's type, if that has labels.
LEMMA SetsDefault ==
  ASSUME NEW T, NEW R, NEW Y, NEW I, NEW w, NEW t \in DOMAIN T, t \in DOMAIN R,
         NEW c \in DOMAIN T[t], NEW v,
         v = Schema!NULL \/ (T[t][c].type \in DOMAIN Y => Head(v) \in Y[T[t][c].type])
  PROVE  Schema!Execute(Schema!SetDefault(t, c, v), Base(T, R, Y, I, w))
           = Base([T EXCEPT ![t] = DefaultSet(T[t], c, v)], R, Y, I, w)
<1> DEFINE d == Base(T, R, Y, I, w)
           k == Schema!SetDefault(t, c, v)
<1>1. d.tables = T /\ d.rows = R /\ d.types = Y /\ d.indexes = I /\ d.script = "runs"
  BY BaseIs
<1>2. k.do = "set default" /\ k.table = t /\ k.column = c /\ k.default = v
  BY DEF Schema!SetDefault
<1> HIDE DEF d, k
<1>3. Schema!Can(k, d) BY <1>1, <1>2 DEF Schema!Can, Schema!Has, Schema!LabelThere
<1>4. Schema!Do(k, d) = [d EXCEPT !.tables = [T EXCEPT ![t] = DefaultSet(T[t], c, v)]]
  BY <1>1, <1>2 DEF Schema!Do, NullSet, DefaultSet
<1>5. Schema!Execute(k, d) = Schema!Do(k, d) BY <1>1, <1>3, Executed
<1>6. [d EXCEPT !.tables = [T EXCEPT ![t] = DefaultSet(T[t], c, v)]]
    = Base([T EXCEPT ![t] = DefaultSet(T[t], c, v)], R, Y, I, w)
  <2> DEFINE x == [T EXCEPT ![t] = DefaultSet(T[t], c, v)]
  <2> HIDE DEF x
  <2>1. [d EXCEPT !.tables = x] = Base(x, R, Y, I, w) BY WithTables DEF d
  <2> QED BY <2>1 DEF x
<1> QED BY <1>4, <1>5, <1>6 DEF d, k

\* UPDATE changes one column of every row.
LEMMA UpdatesRows ==
  ASSUME NEW T, NEW R, NEW Y, NEW I, NEW w, NEW t \in DOMAIN T, t \in DOMAIN R,
         NEW c \in DOMAIN T[t], NEW rule
  PROVE  Schema!Execute(Schema!Update(t, c, rule), Base(T, R, Y, I, w))
           = Base(T, [R EXCEPT ![t] = Updated(R[t], c, rule)], Y, I, w)
<1> DEFINE d == Base(T, R, Y, I, w)
           k == Schema!Update(t, c, rule)
<1>1. d.tables = T /\ d.rows = R /\ d.types = Y /\ d.indexes = I /\ d.script = "runs"
  BY BaseIs
<1>2. k.do = "update" /\ k.table = t /\ k.column = c /\ k.rule = rule
  BY DEF Schema!Update
<1> HIDE DEF d, k
<1>3. Schema!Can(k, d) BY <1>1, <1>2 DEF Schema!Can, Schema!Has
<1>4. Schema!Do(k, d) = [d EXCEPT !.rows = [R EXCEPT ![t] = Updated(R[t], c, rule)]]
  BY <1>1, <1>2 DEF Schema!Do, Updated
<1>5. Schema!Execute(k, d) = Schema!Do(k, d) BY <1>1, <1>3, Executed
<1>6. [d EXCEPT !.rows = [R EXCEPT ![t] = Updated(R[t], c, rule)]]
        = Base(T, [R EXCEPT ![t] = Updated(R[t], c, rule)], Y, I, w)
  <2> DEFINE v == [R EXCEPT ![t] = Updated(R[t], c, rule)]
  <2> HIDE DEF v
  <2>1. [d EXCEPT !.rows = v] = Base(T, v, Y, I, w) BY WithRows DEF d
  <2> QED BY <2>1 DEF v
<1> QED BY <1>4, <1>5, <1>6 DEF d, k

\* ADD VALUE IF NOT EXISTS leaves the label there, whether it was there or not.
LEMMA AddsLabel ==
  ASSUME NEW T, NEW R, NEW Y, NEW I, NEW w, NEW type, NEW label
  PROVE  Schema!Execute(Schema!AddLabel(type, label), Base(T, R, Y, I, w))
           = Base(T, R, [Y EXCEPT ![type] = Y[type] \cup {label}], I, w)
<1> DEFINE d == Base(T, R, Y, I, w)
           k == Schema!AddLabel(type, label)
<1>1. d.tables = T /\ d.rows = R /\ d.types = Y /\ d.indexes = I /\ d.script = "runs"
  BY BaseIs
<1>2. k.do = "add label" /\ k.type = type /\ k.label = label
  BY DEF Schema!AddLabel
<1> HIDE DEF d, k
<1>3. Schema!Can(k, d) BY <1>1, <1>2 DEF Schema!Can
<1>4. Schema!Do(k, d) = [d EXCEPT !.types = [Y EXCEPT ![type] = Y[type] \cup {label}]]
  BY <1>1, <1>2 DEF Schema!Do
<1>5. Schema!Execute(k, d) = Schema!Do(k, d) BY <1>1, <1>3, Executed
<1>6. [d EXCEPT !.types = [Y EXCEPT ![type] = Y[type] \cup {label}]]
    = Base(T, R, [Y EXCEPT ![type] = Y[type] \cup {label}], I, w)
  <2> DEFINE v == [Y EXCEPT ![type] = Y[type] \cup {label}]
  <2> HIDE DEF v
  <2>1. [d EXCEPT !.types = v] = Base(T, R, v, I, w) BY WithTypes DEF d
  <2> QED BY <2>1 DEF v
<1> QED BY <1>4, <1>5, <1>6 DEF d, k

\* The width of Alembic's column is what it is set to.
LEMMA Widens ==
  ASSUME NEW T, NEW R, NEW Y, NEW I, NEW w, NEW n
  PROVE  Schema!Execute(Schema!Widen(n), Base(T, R, Y, I, w))
           = Base(T, R, Y, I, n)
<1> DEFINE d == Base(T, R, Y, I, w)
           k == Schema!Widen(n)
<1>1. d.tables = T /\ d.rows = R /\ d.types = Y /\ d.indexes = I /\ d.script = "runs"
  BY BaseIs
<1>2. k.do = "widen" /\ k.width = n
  BY DEF Schema!Widen
<1> HIDE DEF d, k
<1>3. Schema!Can(k, d) BY <1>1, <1>2 DEF Schema!Can
<1>4. Schema!Do(k, d) = [d EXCEPT !.width = n]
  BY <1>1, <1>2 DEF Schema!Do
<1>5. Schema!Execute(k, d) = Schema!Do(k, d) BY <1>1, <1>3, Executed
<1>6. [d EXCEPT !.width = n] = Base(T, R, Y, I, n)
  <2> DEFINE v == n
  <2> HIDE DEF v
  <2>1. [d EXCEPT !.width = v] = Base(T, R, Y, I, v) BY WithWidth DEF d
  <2> QED BY <2>1 DEF v
<1> QED BY <1>4, <1>5, <1>6 DEF d, k

\* CREATE INDEX is not refused if the table and the columns are there and the index is not.
LEMMA CreatesIndex ==
  ASSUME NEW T, NEW R, NEW Y, NEW I, NEW w, NEW i, i \notin I, i[2] \in DOMAIN T,
         \A x \in Schema!ToSet(i[3]) : x \in DOMAIN T[i[2]]
  PROVE  Schema!Execute(Schema!CreateIndex(i), Base(T, R, Y, I, w))
           = Base(T, R, Y, I \cup {i}, w)
<1> DEFINE d == Base(T, R, Y, I, w)
           k == Schema!CreateIndex(i)
<1>1. d.tables = T /\ d.rows = R /\ d.types = Y /\ d.indexes = I /\ d.script = "runs"
  BY BaseIs
<1>2. k.do = "create index" /\ k.index = i
  BY DEF Schema!CreateIndex
<1> HIDE DEF d, k
<1>3. Schema!Can(k, d) BY <1>1, <1>2 DEF Schema!Can, Schema!Has
<1>4. Schema!Do(k, d) = [d EXCEPT !.indexes = I \cup {i}]
  BY <1>1, <1>2 DEF Schema!Do
<1>5. Schema!Execute(k, d) = Schema!Do(k, d) BY <1>1, <1>3, Executed
<1>6. [d EXCEPT !.indexes = I \cup {i}] = Base(T, R, Y, I \cup {i}, w)
  <2> DEFINE v == I \cup {i}
  <2> HIDE DEF v
  <2>1. [d EXCEPT !.indexes = v] = Base(T, R, Y, v, w) BY WithIndexes DEF d
  <2> QED BY <2>1 DEF v
<1> QED BY <1>4, <1>5, <1>6 DEF d, k

\* DROP INDEX is not refused if the index is there.
LEMMA DropsIndex ==
  ASSUME NEW T, NEW R, NEW Y, NEW I, NEW w, NEW i \in I
  PROVE  Schema!Execute(Schema!DropIndex(i), Base(T, R, Y, I, w))
           = Base(T, R, Y, I \ {i}, w)
<1> DEFINE d == Base(T, R, Y, I, w)
           k == Schema!DropIndex(i)
<1>1. d.tables = T /\ d.rows = R /\ d.types = Y /\ d.indexes = I /\ d.script = "runs"
  BY BaseIs
<1>2. k.do = "drop index" /\ k.index = i
  BY DEF Schema!DropIndex
<1> HIDE DEF d, k
<1>3. Schema!Can(k, d) BY <1>1, <1>2 DEF Schema!Can
<1>4. Schema!Do(k, d) = [d EXCEPT !.indexes = I \ {i}]
  BY <1>1, <1>2 DEF Schema!Do
<1>5. Schema!Execute(k, d) = Schema!Do(k, d) BY <1>1, <1>3, Executed
<1>6. [d EXCEPT !.indexes = I \ {i}] = Base(T, R, Y, I \ {i}, w)
  <2> DEFINE v == I \ {i}
  <2> HIDE DEF v
  <2>1. [d EXCEPT !.indexes = v] = Base(T, R, Y, v, w) BY WithIndexes DEF d
  <2> QED BY <2>1 DEF v
<1> QED BY <1>4, <1>5, <1>6 DEF d, k

\* CREATE TYPE is not refused if there is none of that name.
LEMMA CreatesType ==
  ASSUME NEW T, NEW R, NEW Y, NEW I, NEW w, NEW type, type \notin DOMAIN Y, NEW labels
  PROVE  Schema!Execute(Schema!CreateType(type, labels), Base(T, R, Y, I, w))
           = Base(T, R, Schema!Put(Y, type, labels), I, w)
<1> DEFINE d == Base(T, R, Y, I, w)
           k == Schema!CreateType(type, labels)
<1>1. d.tables = T /\ d.rows = R /\ d.types = Y /\ d.indexes = I /\ d.script = "runs"
  BY BaseIs
<1>2. k.do = "create type" /\ k.type = type /\ k.labels = labels
  BY DEF Schema!CreateType
<1> HIDE DEF d, k
<1>3. Schema!Can(k, d) BY <1>1, <1>2 DEF Schema!Can
<1>4. Schema!Do(k, d) = [d EXCEPT !.types = Schema!Put(Y, type, labels)]
  BY <1>1, <1>2 DEF Schema!Do
<1>5. Schema!Execute(k, d) = Schema!Do(k, d) BY <1>1, <1>3, Executed
<1>6. [d EXCEPT !.types = Schema!Put(Y, type, labels)]
    = Base(T, R, Schema!Put(Y, type, labels), I, w)
  <2> DEFINE v == Schema!Put(Y, type, labels)
  <2> HIDE DEF v
  <2>1. [d EXCEPT !.types = v] = Base(T, R, v, I, w) BY WithTypes DEF d
  <2> QED BY <2>1 DEF v
<1> QED BY <1>4, <1>5, <1>6 DEF d, k

\* DROP TYPE is not refused if no table is left to use it.
LEMMA DropsType ==
  ASSUME NEW T, NEW R, NEW Y, NEW I, NEW w, NEW type, DOMAIN T = {}
  PROVE  Schema!Execute(Schema!DropType(type), Base(T, R, Y, I, w))
           = Base(T, R, Schema!Without(Y, type), I, w)
<1> DEFINE d == Base(T, R, Y, I, w)
           k == Schema!DropType(type)
<1>1. d.tables = T /\ d.rows = R /\ d.types = Y /\ d.indexes = I /\ d.script = "runs"
  BY BaseIs
<1>2. k.do = "drop type" /\ k.type = type
  BY DEF Schema!DropType
<1> HIDE DEF d, k
<1>3. Schema!Can(k, d) BY <1>1, <1>2 DEF Schema!Can, Schema!UsesType
<1>4. Schema!Do(k, d) = [d EXCEPT !.types = Schema!Without(Y, type)]
  BY <1>1, <1>2 DEF Schema!Do
<1>5. Schema!Execute(k, d) = Schema!Do(k, d) BY <1>1, <1>3, Executed
<1>6. [d EXCEPT !.types = Schema!Without(Y, type)] = Base(T, R, Schema!Without(Y, type), I, w)
  <2> DEFINE v == Schema!Without(Y, type)
  <2> HIDE DEF v
  <2>1. [d EXCEPT !.types = v] = Base(T, R, v, I, w) BY WithTypes DEF d
  <2> QED BY <2>1 DEF v
<1> QED BY <1>4, <1>5, <1>6 DEF d, k

\* CREATE TABLE is not refused if the tables it refers to are there and it is not.
LEMMA CreatesTable ==
  ASSUME NEW T, NEW R, NEW Y, NEW I, NEW w, NEW t, t \notin DOMAIN T, NEW cols,
         \A x \in DOMAIN cols : cols[x].to \in DOMAIN T \cup {"none"}
  PROVE  Schema!Execute(Schema!CreateTable(t, cols), Base(T, R, Y, I, w))
           = Base(Schema!Put(T, t, cols), Schema!Put(R, t, {}), Y, I, w)
<1> DEFINE d == Base(T, R, Y, I, w)
           k == Schema!CreateTable(t, cols)
<1>1. d.tables = T /\ d.rows = R /\ d.types = Y /\ d.indexes = I /\ d.script = "runs"
  BY BaseIs
<1>2. k.do = "create table" /\ k.table = t /\ k.columns = cols
  BY DEF Schema!CreateTable
<1> HIDE DEF d, k
<1>3. Schema!Can(k, d) BY <1>1, <1>2 DEF Schema!Can
<1>4. Schema!Do(k, d) = [d EXCEPT !.tables = Schema!Put(T, t, cols), !.rows = Schema!Put(R, t, {})]
  BY <1>1, <1>2 DEF Schema!Do
<1>5. Schema!Execute(k, d) = Schema!Do(k, d) BY <1>1, <1>3, Executed
<1>6. [d EXCEPT !.tables = Schema!Put(T, t, cols), !.rows = Schema!Put(R, t, {})]
        = Base(Schema!Put(T, t, cols), Schema!Put(R, t, {}), Y, I, w)
  <2> DEFINE v == Schema!Put(T, t, cols)
             s == Schema!Put(R, t, {})
  <2> HIDE DEF v, s
  <2>1. [d EXCEPT !.tables = v, !.rows = s] = [[d EXCEPT !.tables = v] EXCEPT !.rows = s]
    OBVIOUS
  <2>2. [d EXCEPT !.tables = v] = Base(v, R, Y, I, w) BY WithTables DEF d
  <2>3. [Base(v, R, Y, I, w) EXCEPT !.rows = s] = Base(v, s, Y, I, w) BY WithRows
  <2> QED BY <2>1, <2>2, <2>3 DEF v, s
<1> QED BY <1>4, <1>5, <1>6 DEF d, k

\* DROP TABLE is not refused if no other table refers to it.
LEMMA DropsTable ==
  ASSUME NEW T, NEW R, NEW Y, NEW I, NEW w, NEW t \in DOMAIN T,
         \A o \in DOMAIN T \ {t} : \A x \in DOMAIN T[o] : T[o][x].to # t,
         \A i \in I : i[2] # t
  PROVE  Schema!Execute(Schema!DropTable(t), Base(T, R, Y, I, w))
           = Base(Schema!Without(T, t), Schema!Without(R, t), Y, I, w)
<1> DEFINE d == Base(T, R, Y, I, w)
           k == Schema!DropTable(t)
<1>1. d.tables = T /\ d.rows = R /\ d.types = Y /\ d.indexes = I /\ d.script = "runs"
  BY BaseIs
<1>2. k.do = "drop table" /\ k.table = t
  BY DEF Schema!DropTable
<1> HIDE DEF d, k
<1>3. Schema!Can(k, d) BY <1>1, <1>2 DEF Schema!Can
<1>4. Schema!Do(k, d) = [d EXCEPT !.tables = Schema!Without(T, t), !.rows = Schema!Without(R, t),
    !.indexes = {i \in I : i[2] # t}]
  BY <1>1, <1>2 DEF Schema!Do
<1>5. Schema!Execute(k, d) = Schema!Do(k, d) BY <1>1, <1>3, Executed
<1>6. [d EXCEPT !.tables = Schema!Without(T, t), !.rows = Schema!Without(R, t),
    !.indexes = {i \in I : i[2] # t}]
        = Base(Schema!Without(T, t), Schema!Without(R, t), Y, I, w)
  <2> DEFINE v == Schema!Without(T, t)
             s == Schema!Without(R, t)
  <2>0. {i \in I : i[2] # t} = I OBVIOUS
  <2> HIDE DEF v, s
  <2>1. [d EXCEPT !.tables = v, !.rows = s, !.indexes = I]
          = [[[d EXCEPT !.tables = v] EXCEPT !.rows = s] EXCEPT !.indexes = I]
    OBVIOUS
  <2>2. [d EXCEPT !.tables = v] = Base(v, R, Y, I, w) BY WithTables DEF d
  <2>3. [Base(v, R, Y, I, w) EXCEPT !.rows = s] = Base(v, s, Y, I, w) BY WithRows
  <2>4. [Base(v, s, Y, I, w) EXCEPT !.indexes = I] = Base(v, s, Y, I, w) BY WithIndexes
  <2> QED BY <2>0, <2>1, <2>2, <2>3, <2>4 DEF v, s
<1> QED BY <1>4, <1>5, <1>6 DEF d, k

TablesRelabelled(T, type, from, to) ==
  [t \in DOMAIN T |-> Schema!RelabelColumns(T[t], type, from, to)]
RowsRelabelled(R, T, type, from, to) ==
  [t \in DOMAIN R |-> Schema!RelabelRows(R[t], T[t], type, from, to)]
LabelsRelabelled(Y, type, from, to) == [Y EXCEPT ![type] = (Y[type] \ {from}) \cup {to}]

\* RENAME VALUE reaches the type, every default and every stored value.
LEMMA Relabels ==
  ASSUME NEW T, NEW R, NEW Y, NEW I, NEW w, NEW type, NEW from, NEW to,
         from \in Y[type], to \notin Y[type]
  PROVE  Schema!Execute(Schema!RenameLabel(type, from, to), Base(T, R, Y, I, w))
           = Base(TablesRelabelled(T, type, from, to), RowsRelabelled(R, T, type, from, to),
                  LabelsRelabelled(Y, type, from, to), I, w)
<1> DEFINE d == Base(T, R, Y, I, w)
           k == Schema!RenameLabel(type, from, to)
           u == TablesRelabelled(T, type, from, to)
           v == RowsRelabelled(R, T, type, from, to)
           y == LabelsRelabelled(Y, type, from, to)
<1>1. d.tables = T /\ d.rows = R /\ d.types = Y /\ d.indexes = I /\ d.script = "runs"
  BY BaseIs
<1>2. k.do = "rename label" /\ k.type = type /\ k.from = from /\ k.to = to
  BY DEF Schema!RenameLabel
<1> HIDE DEF d, k
<1>3. Schema!Can(k, d) BY <1>1, <1>2 DEF Schema!Can
<1>4. Schema!Do(k, d) = Schema!Relabel(d, type, from, to) BY <1>1, <1>2 DEF Schema!Do
<1>5. Schema!Execute(k, d) = Schema!Do(k, d) BY <1>1, <1>3, Executed
<1>6. Schema!Relabel(d, type, from, to) = [d EXCEPT !.types = y, !.tables = u, !.rows = v]
  BY <1>1 DEF Schema!Relabel, TablesRelabelled, RowsRelabelled, LabelsRelabelled
<1> HIDE DEF u, v, y
<1>7. [d EXCEPT !.types = y, !.tables = u, !.rows = v] = Base(u, v, y, I, w)
  <2>1. [d EXCEPT !.types = y, !.tables = u, !.rows = v]
          = [[[d EXCEPT !.types = y] EXCEPT !.tables = u] EXCEPT !.rows = v]
    OBVIOUS
  <2>2. [d EXCEPT !.types = y] = Base(T, R, y, I, w) BY WithTypes DEF d
  <2>3. [Base(T, R, y, I, w) EXCEPT !.tables = u] = Base(u, R, y, I, w) BY WithTables
  <2>4. [Base(u, R, y, I, w) EXCEPT !.rows = v] = Base(u, v, y, I, w) BY WithRows
  <2> QED BY <2>1, <2>2, <2>3, <2>4
<1> QED BY <1>4, <1>5, <1>6, <1>7 DEF d, k, u, v, y

--------------------------------------------------------------------------------
(* The same, on users, printers and print_jobs *)

\* On users: a column more,
LEMMA UsersGain ==
  ASSUME NEW U, NEW X, NEW P, NEW J, NEW Z, NEW Y, NEW I, NEW w,
         NEW c, c \notin DOMAIN U, NEW spec, spec.null \/ spec.default # Schema!NULL
  PROVE  Schema!Execute(Schema!AddColumn("users", c, spec), DbOf(U, X, P, J, Z, Y, I, w))
           = DbOf(Schema!Put(U, c, spec), Schema!Added(X, c, spec.default), P, J, Z, Y, I, w)
BY TablesOfAre, RowsOfAre, AddsColumn DEF DbOf

\* a column less,
LEMMA UsersLose ==
  ASSUME NEW U, NEW X, NEW P, NEW J, NEW Z, NEW Y, NEW I, NEW w,
         NEW c \in DOMAIN U
  PROVE  Schema!Execute(Schema!DropColumn("users", c), DbOf(U, X, P, J, Z, Y, I, w))
           = DbOf(Schema!Without(U, c), Schema!Dropped(X, c), P, J, Z, Y, I, w)
BY TablesOfAre, RowsOfAre, DropsColumn DEF DbOf

\* a column renamed that may not be there, and is,
LEMMA UsersRenameThere ==
  ASSUME NEW U, NEW X, NEW P, NEW J, NEW Z, NEW Y, NEW I, NEW w,
         NEW c \in DOMAIN U, NEW to, to \notin DOMAIN U
  PROVE  Schema!Execute(Schema!RenameIfThere("users", c, to), DbOf(U, X, P, J, Z, Y, I, w))
           = DbOf(Schema!Renamed(U, c, to), Schema!RenamedIn(X, c, to), P, J, Z, Y, I, w)
BY TablesOfAre, RowsOfAre, RenamesColumnThere DEF DbOf

\* or is not,
LEMMA UsersRenameNothing ==
  ASSUME NEW U, NEW X, NEW P, NEW J, NEW Z, NEW Y, NEW I, NEW w,
         NEW c, c \notin DOMAIN U, NEW to
  PROVE  Schema!Execute(Schema!RenameIfThere("users", c, to), DbOf(U, X, P, J, Z, Y, I, w))
           = DbOf(U, X, P, J, Z, Y, I, w)
BY TablesOfAre, RowsOfAre, RenamesNothing DEF DbOf

\* a column that may be NULL or may not,
LEMMA UsersSetNull ==
  ASSUME NEW U, NEW X, NEW P, NEW J, NEW Z, NEW Y, NEW I, NEW w,
         NEW c \in DOMAIN U, NEW b, b \/ \A r \in X : r[c] # Schema!NULL
  PROVE  Schema!Execute(Schema!SetNull("users", c, b), DbOf(U, X, P, J, Z, Y, I, w))
           = DbOf(NullSet(U, c, b), X, P, J, Z, Y, I, w)
<1> DEFINE T == TablesOf(U, P, J)
           R == RowsOf(X, Z)
<1>1. "users" \in DOMAIN T /\ "users" \in DOMAIN R /\ T["users"] = U /\ R["users"] = X
  BY TablesOfAre, RowsOfAre
<1>2. [T EXCEPT !["users"] = NullSet(U, c, b)] = TablesOf(NullSet(U, c, b), P, J) BY TablesOfAre
<1> HIDE DEF T, R
<1>3. Schema!Execute(Schema!SetNull("users", c, b), Base(T, R, Y, I, w))
        = Base([T EXCEPT !["users"] = NullSet(T["users"], c, b)], R, Y, I, w)
  BY <1>1, SetsNull
<1> QED BY <1>1, <1>2, <1>3 DEF DbOf, T, R

\* a column renamed,
LEMMA UsersRename ==
  ASSUME NEW U, NEW X, NEW P, NEW J, NEW Z, NEW Y, NEW I, NEW w,
         NEW c \in DOMAIN U, NEW to, to \notin DOMAIN U
  PROVE  Schema!Execute(Schema!Rename("users", c, to), DbOf(U, X, P, J, Z, Y, I, w))
           = DbOf(Schema!Renamed(U, c, to), Schema!RenamedIn(X, c, to), P, J, Z, Y, I, w)
BY TablesOfAre, RowsOfAre, RenamesColumn DEF DbOf

\* A default that is a label is one of its type.
LabelFits(v, type, Y) == v = Schema!NULL \/ (type \in DOMAIN Y => Head(v) \in Y[type])

\* a default,
LEMMA UsersSetDefault ==
  ASSUME NEW U, NEW X, NEW P, NEW J, NEW Z, NEW Y, NEW I, NEW w,
         NEW c \in DOMAIN U, NEW v, LabelFits(v, U[c].type, Y)
  PROVE  Schema!Execute(Schema!SetDefault("users", c, v), DbOf(U, X, P, J, Z, Y, I, w))
           = DbOf(DefaultSet(U, c, v), X, P, J, Z, Y, I, w)
<1> DEFINE T == TablesOf(U, P, J)
           R == RowsOf(X, Z)
<1>1. "users" \in DOMAIN T /\ "users" \in DOMAIN R /\ T["users"] = U /\ R["users"] = X
  BY TablesOfAre, RowsOfAre
<1>2. [T EXCEPT !["users"] = DefaultSet(U, c, v)] = TablesOf(DefaultSet(U, c, v), P, J)
  BY TablesOfAre
<1> HIDE DEF T, R
<1>3. Schema!Execute(Schema!SetDefault("users", c, v), Base(T, R, Y, I, w))
        = Base([T EXCEPT !["users"] = DefaultSet(T["users"], c, v)], R, Y, I, w)
  <2>1. v = Schema!NULL \/ (T["users"][c].type \in DOMAIN Y => Head(v) \in Y[T["users"][c].type])
    BY <1>1 DEF LabelFits
  <2>2. c \in DOMAIN T["users"] BY <1>1
  <2> QED BY <1>1, <2>1, <2>2, SetsDefault
<1> QED BY <1>1, <1>2, <1>3 DEF DbOf, T, R

\* and an UPDATE.
LEMMA UsersUpdate ==
  ASSUME NEW U, NEW X, NEW P, NEW J, NEW Z, NEW Y, NEW I, NEW w,
         NEW c \in DOMAIN U, NEW rule
  PROVE  Schema!Execute(Schema!Update("users", c, rule), DbOf(U, X, P, J, Z, Y, I, w))
           = DbOf(U, Updated(X, c, rule), P, J, Z, Y, I, w)
BY TablesOfAre, RowsOfAre, UpdatesRows DEF DbOf

\* On print_jobs: a column more,
LEMMA JobsGain ==
  ASSUME NEW U, NEW X, NEW P, NEW J, NEW Z, NEW Y, NEW I, NEW w,
         NEW c, c \notin DOMAIN J, NEW spec, spec.null \/ spec.default # Schema!NULL
  PROVE  Schema!Execute(Schema!AddColumn("print_jobs", c, spec), DbOf(U, X, P, J, Z, Y, I, w))
           = DbOf(U, X, P, Schema!Put(J, c, spec), Schema!Added(Z, c, spec.default), Y, I, w)
BY TablesOfAre, RowsOfAre, AddsColumn DEF DbOf

\* a column less,
LEMMA JobsLose ==
  ASSUME NEW U, NEW X, NEW P, NEW J, NEW Z, NEW Y, NEW I, NEW w,
         NEW c \in DOMAIN J
  PROVE  Schema!Execute(Schema!DropColumn("print_jobs", c), DbOf(U, X, P, J, Z, Y, I, w))
           = DbOf(U, X, P, Schema!Without(J, c), Schema!Dropped(Z, c), Y, I, w)
BY TablesOfAre, RowsOfAre, DropsColumn DEF DbOf

\* a column renamed that may not be there, and is,
LEMMA JobsRenameThere ==
  ASSUME NEW U, NEW X, NEW P, NEW J, NEW Z, NEW Y, NEW I, NEW w,
         NEW c \in DOMAIN J, NEW to, to \notin DOMAIN J
  PROVE  Schema!Execute(Schema!RenameIfThere("print_jobs", c, to), DbOf(U, X, P, J, Z, Y, I, w))
           = DbOf(U, X, P, Schema!Renamed(J, c, to), Schema!RenamedIn(Z, c, to), Y, I, w)
BY TablesOfAre, RowsOfAre, RenamesColumnThere DEF DbOf

\* or is not,
LEMMA JobsRenameNothing ==
  ASSUME NEW U, NEW X, NEW P, NEW J, NEW Z, NEW Y, NEW I, NEW w,
         NEW c, c \notin DOMAIN J, NEW to
  PROVE  Schema!Execute(Schema!RenameIfThere("print_jobs", c, to), DbOf(U, X, P, J, Z, Y, I, w))
           = DbOf(U, X, P, J, Z, Y, I, w)
BY TablesOfAre, RowsOfAre, RenamesNothing DEF DbOf

\* and a column that may be NULL or may not.
LEMMA JobsSetNull ==
  ASSUME NEW U, NEW X, NEW P, NEW J, NEW Z, NEW Y, NEW I, NEW w,
         NEW c \in DOMAIN J, NEW b, b \/ \A r \in Z : r[c] # Schema!NULL
  PROVE  Schema!Execute(Schema!SetNull("print_jobs", c, b), DbOf(U, X, P, J, Z, Y, I, w))
           = DbOf(U, X, P, NullSet(J, c, b), Z, Y, I, w)
<1> DEFINE T == TablesOf(U, P, J)
           R == RowsOf(X, Z)
<1>1. "print_jobs" \in DOMAIN T /\ "print_jobs" \in DOMAIN R /\ T["print_jobs"] = J
    /\ R["print_jobs"] = Z
  BY TablesOfAre, RowsOfAre
<1>2. [T EXCEPT !["print_jobs"] = NullSet(J, c, b)] = TablesOf(U, P, NullSet(J, c, b))
  BY TablesOfAre
<1> HIDE DEF T, R
<1>3. Schema!Execute(Schema!SetNull("print_jobs", c, b), Base(T, R, Y, I, w))
        = Base([T EXCEPT !["print_jobs"] = NullSet(T["print_jobs"], c, b)], R, Y, I, w)
  BY <1>1, SetsNull
<1> QED BY <1>1, <1>2, <1>3 DEF DbOf, T, R

\* On printers, of which there are no rows: a column more,
LEMMA PrintersGain ==
  ASSUME NEW U, NEW X, NEW P, NEW J, NEW Z, NEW Y, NEW I, NEW w,
         NEW c, c \notin DOMAIN P, NEW spec, spec.null \/ spec.default # Schema!NULL
  PROVE  Schema!Execute(Schema!AddColumn("printers", c, spec), DbOf(U, X, P, J, Z, Y, I, w))
           = DbOf(U, X, Schema!Put(P, c, spec), J, Z, Y, I, w)
BY TablesOfAre, RowsOfAre, AddsColumn DEF DbOf, Schema!Added

\* and a column less.
LEMMA PrintersLose ==
  ASSUME NEW U, NEW X, NEW P, NEW J, NEW Z, NEW Y, NEW I, NEW w,
         NEW c \in DOMAIN P
  PROVE  Schema!Execute(Schema!DropColumn("printers", c), DbOf(U, X, P, J, Z, Y, I, w))
           = DbOf(U, X, Schema!Without(P, c), J, Z, Y, I, w)
BY TablesOfAre, RowsOfAre, DropsColumn DEF DbOf, Schema!Dropped

--------------------------------------------------------------------------------
(* The columns *)

\* The kinds of columns the tables have, by what the commands ask of them.
LEMMA ColumnsAre ==
  /\ Schema!Id.type = "uuid" /\ ~Schema!Id.null /\ Schema!Id.default # Schema!NULL
      /\ Schema!Id.to = "none"
  /\ Schema!Text.type = "text" /\ ~Schema!Text.null /\ Schema!Text.default = Schema!NULL
      /\ Schema!Text.to = "none"
  /\ Schema!Now.type = "timestamptz" /\ ~Schema!Now.null /\ Schema!Now.default # Schema!NULL
      /\ Schema!Now.to = "none"
  /\ Schema!Unique(Schema!Text).type = "text" /\ ~Schema!Unique(Schema!Text).null
      /\ Schema!Unique(Schema!Text).to = "none"
  /\ Schema!Maybe(Schema!Text).type = "text" /\ Schema!Maybe(Schema!Text).null
      /\ Schema!Maybe(Schema!Text).default = Schema!NULL
  /\ Schema!Maybe(Schema!Text).to = "none"
  /\ Schema!Maybe(Schema!Time).type = "timestamptz" /\ Schema!Maybe(Schema!Time).null
      /\ Schema!Maybe(Schema!Time).default = Schema!NULL
  /\ Schema!Maybe(Schema!Time).to = "none"
BY DEF Schema!Id, Schema!Text, Schema!Now, Schema!Time, Schema!Unique, Schema!Maybe,
    Schema!Default, Schema!Col, Schema!NULL

\* The same, for a column of any type,
LEMMA ColumnsOf ==
  ASSUME NEW type
  PROVE  /\ Schema!Col(type).type = type /\ ~Schema!Col(type).null /\ Schema!Col(type).to = "none"
         /\ Schema!Maybe(Schema!Col(type)).type = type /\ Schema!Maybe(Schema!Col(type)).null
             /\ Schema!Maybe(Schema!Col(type)).to = "none"
         /\ Schema!Maybe(Schema!Col(type)).default = Schema!NULL
BY DEF Schema!Maybe, Schema!Col, Schema!NULL

\* of any type and default,
LEMMA DefaultsOf ==
  ASSUME NEW type, NEW label
  PROVE  /\ Schema!Default(Schema!Col(type), label).type = type
            /\ ~Schema!Default(Schema!Col(type), label).null
         /\ Schema!Default(Schema!Col(type), label).default = <<label>>
             /\ Schema!Default(Schema!Col(type), label).to = "none"
BY DEF Schema!Default, Schema!Col, Schema!NULL

\* and of a reference to any table.
LEMMA RefsOf ==
  ASSUME NEW t
  PROVE  /\ Schema!Ref(t).type = "uuid" /\ ~Schema!Ref(t).null
            /\ Schema!Ref(t).default = Schema!NULL /\ Schema!Ref(t).to = t
         /\ Schema!Maybe(Schema!Ref(t)).type = "uuid" /\ Schema!Maybe(Schema!Ref(t)).null
             /\ Schema!Maybe(Schema!Ref(t)).to = t
         /\ Schema!Unique(Schema!Ref(t)).type = "uuid" /\ ~Schema!Unique(Schema!Ref(t)).null
             /\ Schema!Unique(Schema!Ref(t)).to = t
BY DEF Schema!Maybe, Schema!Unique, Schema!Ref, Schema!Col, Schema!NULL

\* A table none of whose columns is of the type.
FreeOf(M, type) == M = [c \in DOMAIN M |-> M[c]] /\ \A c \in DOMAIN M : M[c].type # type

\* No table but users has a role.
LEMMA OthersAreFree ==
  /\ FreeOf(Schema!Material, "user_role") /\ FreeOf(Schema!JobValidation, "user_role")
  /\ FreeOf(Schema!Notification, "user_role") /\ FreeOf(Schema!CollectionRecord, "user_role")
  /\ FreeOf(Schema!MaintenanceLog, "user_role")
<1> USE ColumnsAre, ColumnsOf, DefaultsOf, RefsOf
<1>1. FreeOf(Schema!Material, "user_role") BY DEF FreeOf, Schema!Material
<1>2. FreeOf(Schema!JobValidation, "user_role")
  <2>1. Schema!Col("boolean").type = "boolean"
      /\ Schema!Col("check_type").type = "check_type" OBVIOUS
  <2> QED BY <2>1 DEF FreeOf, Schema!JobValidation
<1>3. FreeOf(Schema!Notification, "user_role") BY DEF FreeOf, Schema!Notification
<1>4. FreeOf(Schema!CollectionRecord, "user_role") BY DEF FreeOf, Schema!CollectionRecord
<1>5. FreeOf(Schema!MaintenanceLog, "user_role") BY DEF FreeOf, Schema!MaintenanceLog
<1> QED BY <1>1, <1>2, <1>3, <1>4, <1>5

\* Where no column is of the type, relabelling changes neither the columns
LEMMA FreeStays ==
  ASSUME NEW M, NEW type, FreeOf(M, type), NEW from, NEW to
  PROVE  Schema!RelabelColumns(M, type, from, to) = M
BY DEF FreeOf, Schema!RelabelColumns

\* Rows have the columns of their table.
RowsFit(S, M) == \A r \in S : r = [c \in DOMAIN r |-> r[c]] /\ DOMAIN r = DOMAIN M

\* nor the rows.
LEMMA RowsStay ==
  ASSUME NEW S, NEW M, NEW type, FreeOf(M, type), NEW from, NEW to,
         RowsFit(S, M)
  PROVE  Schema!RelabelRows(S, M, type, from, to) = S
<1>1. ASSUME NEW r \in S
      PROVE  [c \in DOMAIN r |-> IF M[c].type = type THEN Schema!RelabelValue(r[c], from, to)
          ELSE r[c]] = r
  BY DEF FreeOf, RowsFit
<1> QED BY <1>1 DEF Schema!RelabelRows

\* Of no rows none is relabelled.
LEMMA NoRowsStay ==
  ASSUME NEW M, NEW type, NEW from, NEW to
  PROVE  Schema!RelabelRows({}, M, type, from, to) = {}
BY DEF Schema!RelabelRows

\* So a label of user_role is renamed in users alone.
LEMMA UsersRelabel ==
  ASSUME NEW U, NEW X, NEW P, NEW J, NEW Z, NEW Y, NEW I, NEW w,
         FreeOf(P, "user_role"), FreeOf(J, "user_role"),
         RowsFit(Z, J),
         NEW from \in Y["user_role"], NEW to, to \notin Y["user_role"]
  PROVE  Schema!Execute(Schema!RenameLabel("user_role", from, to), DbOf(U, X, P, J, Z, Y, I, w))
           = DbOf(Schema!RelabelColumns(U, "user_role", from, to),
                  Schema!RelabelRows(X, U, "user_role", from, to), P, J, Z,
                  LabelsRelabelled(Y, "user_role", from, to), I, w)
<1> DEFINE T == TablesOf(U, P, J)
           R == RowsOf(X, Z)
           relabel(M) == Schema!RelabelColumns(M, "user_role", from, to)
           rows(S, M) == Schema!RelabelRows(S, M, "user_role", from, to)
           T2 == TablesRelabelled(T, "user_role", from, to)
           R2 == RowsRelabelled(R, T, "user_role", from, to)
           Y2 == LabelsRelabelled(Y, "user_role", from, to)
<1>1. Schema!Execute(Schema!RenameLabel("user_role", from, to), Base(T, R, Y, I, w))
    = Base(T2, R2, Y2, I, w)
  <2> HIDE DEF T, R
  <2>1. ASSUME NEW type, type = "user_role"
        PROVE  Schema!Execute(Schema!RenameLabel(type, from, to), Base(T, R, Y, I, w))
                 = Base(TablesRelabelled(T, type, from, to), RowsRelabelled(R, T, type, from, to),
                        LabelsRelabelled(Y, type, from, to), I, w)
    BY <2>1, Relabels
  <2> QED BY <2>1
<1>2. /\ relabel(P) = P /\ relabel(J) = J /\ relabel(Schema!Material) = Schema!Material
      /\ relabel(Schema!JobValidation) = Schema!JobValidation
          /\ relabel(Schema!Notification) = Schema!Notification
      /\ relabel(Schema!CollectionRecord) = Schema!CollectionRecord
          /\ relabel(Schema!MaintenanceLog) = Schema!MaintenanceLog
  BY FreeStays, OthersAreFree
<1>3. rows(Z, J) = Z /\ \A M : rows({}, M) = {} BY RowsStay, NoRowsStay
<1>4. T2 = TablesOf(relabel(U), P, J) BY <1>2 DEF TablesOf, TablesRelabelled, relabel
<1>5. R2 = RowsOf(rows(X, U), Z)
  <2>1. /\ T["users"] = U /\ T["print_jobs"] = J /\ DOMAIN R = DOMAIN RowsOf(rows(X, U), Z)
        /\ R["users"] = X /\ R["print_jobs"] = Z
        /\ \A t \in DOMAIN R \ {"users", "print_jobs"} : R[t] = {}
    BY DEF RowsOf, TablesOf
  <2>2. \A t \in DOMAIN R : rows(R[t], T[t]) = RowsOf(rows(X, U), Z)[t]
    <3> HIDE DEF T, R
    <3> QED BY <2>1, <1>3 DEF RowsOf
  <2>3. DOMAIN R2 = DOMAIN R /\ \A t \in DOMAIN R : R2[t] = rows(R[t], T[t])
    BY DEF RowsRelabelled
  <2>4. R2 = [t \in DOMAIN R2 |-> R2[t]] BY DEF RowsRelabelled
  <2>5. RowsOf(rows(X, U), Z) = [t \in DOMAIN RowsOf(rows(X, U), Z) |-> RowsOf(rows(X, U), Z)[t]]
    BY DEF RowsOf
  <2> HIDE DEF R2, T, R, rows
  <2> QED BY <2>1, <2>2, <2>3, <2>4, <2>5 \* RowsOf, TablesOf, RowsRelabelled, rows
<1> QED BY <1>1, <1>4, <1>5 DEF DbOf, relabel, rows

--------------------------------------------------------------------------------
(* A command over a list *)

\* A function on 1 .. n is a sequence of length n.
LEMMA FunctionIsList ==
  ASSUME NEW n \in Nat, NEW e, e = [i \in 1..n |-> e[i]], NEW S, \A i \in 1..n : e[i] \in S
  PROVE  e \in Seq(S) /\ Len(e) = n
OBVIOUS

\* The first k of a list.
Upto1(list, k) == {list[i] : i \in 1..k}

\* The list has the indexes of I, each once.
ListedIn(list, I) ==
  /\ \A i \in 1..Len(list) : list[i] \in I
  /\ \A x \in I : \E i \in 1..Len(list) : x = list[i]
  /\ \A i, j \in 1..Len(list) : list[i] = list[j] => i = j

\* A list that lists a set has listed all of it at its end.
LEMMA ListedAll ==
  ASSUME NEW list, NEW I, ListedIn(list, I)
  PROVE  Upto1(list, Len(list)) = I
BY DEF ListedIn, Upto1

\* The indexes of a list are on columns there are.
IndexesFit(list, T) ==
  \A i \in 1..Len(list) : /\ list[i][2] \in DOMAIN T
                          /\ \A x \in Schema!ToSet(list[i][3]) : x \in DOMAIN T[list[i][2]]

\* Indexes that fit and are not there are created one after the other,
LEMMA CreatesIndexes ==
  ASSUME NEW S, NEW list \in Seq(S), NEW T, NEW R, NEW Y, NEW I, NEW w,
         NEW K, ListedIn(list, K), K \cap I = {}, IndexesFit(list, T)
  PROVE  Schema!Run(Schema!Each(Schema!CreateIndex, list), Base(T, R, Y, I, w))
      = Base(T, R, Y, I \cup K, w)
<1> DEFINE n == Len(list)
           e == Schema!Each(Schema!CreateIndex, list)
           d == Base(T, R, Y, I, w)
           After(k) == Base(T, R, Y, I \cup Upto1(list, k), w)
           A == {k \in 0..n : UptoCommand(e, k, d) = After(k)}
<1>1. n \in Nat /\ e = [i \in 1..n |-> Schema!CreateIndex(list[i])] BY DEF Schema!Each
<1> HIDE DEF e
<1>2. Len(e) = n /\ \A i \in 1..n : e[i] = Schema!CreateIndex(list[i])
  <2>1. e = [i \in 1..n |-> e[i]] /\ \A i \in 1..n : e[i] = Schema!CreateIndex(list[i]) BY <1>1
  <2>2. \A i \in 1..n : e[i] \in {e[j] : j \in 1..n} OBVIOUS
  <2> QED BY <2>1, <2>2, <1>1, FunctionIsList
<1>3. 0 \in A
  <2>1. Upto1(list, 0) = {} BY DEF Upto1
  <2>2. I \cup Upto1(list, 0) = I BY <2>1
  <2>3. UptoCommand(e, 0, d) = d BY <1>1, <1>2, ScriptRuns
  <2>4. After(0) = d BY <2>2
  <2>5. 0 \in 0..n BY <1>1
  <2> HIDE DEF After
  <2> QED BY <2>3, <2>4, <2>5
<1>4. ASSUME NEW k \in 0..n - 1, k \in A PROVE k + 1 \in A
  <2>1. k \in Nat /\ k < n /\ k + 1 \in 1..n /\ k + 1 \in 0..n BY <1>1
  <2>2. UptoCommand(e, k + 1, d) = Schema!Execute(e[k + 1], After(k))
    BY <2>1, <1>1, <1>2, <1>4, CommandRuns
  <2> DEFINE i == list[k + 1]
             I2 == I \cup Upto1(list, k)
  <2>3. e[k + 1] = Schema!CreateIndex(i) BY <2>1, <1>2
  <2>4. i \notin I2
    <3>1. i \notin I BY <2>1 DEF ListedIn
    <3>2. ASSUME NEW j \in 1..k PROVE list[j] # i BY <2>1 DEF ListedIn
    <3> QED BY <3>1, <3>2 DEF Upto1
  <2>5. i[2] \in DOMAIN T /\ \A x \in Schema!ToSet(i[3]) : x \in DOMAIN T[i[2]]
    BY <2>1 DEF IndexesFit
  <2>6. I2 \cup {i} = I \cup Upto1(list, k + 1)
    <3>1. Upto1(list, k + 1) = Upto1(list, k) \cup {i} BY <2>1 DEF Upto1
    <3> QED BY <3>1
  <2> HIDE DEF i, I2
  <2>7. Schema!Execute(Schema!CreateIndex(i), Base(T, R, Y, I2, w)) = Base(T, R, Y, I2 \cup {i}, w)
    BY <2>4, <2>5, CreatesIndex
  <2> QED BY <2>1, <2>2, <2>3, <2>6, <2>7 DEF I2
<1> HIDE DEF A
<1>5. 0..n \subseteq A BY <1>1, <1>3, <1>4, InductionUpTo
<1>6. n \in A BY <1>1, <1>5
<1>7. Schema!Run(e, d) = UptoCommand(e, n, d) BY <1>1, <1>2, ScriptRuns
<1>8. Upto1(list, n) = K BY ListedAll
<1> QED BY <1>6, <1>7, <1>8 DEF A, e

\* and those that are there dropped.
LEMMA DropsIndexes ==
  ASSUME NEW S, NEW list \in Seq(S), NEW T, NEW R, NEW Y, NEW I, NEW w,
         NEW K, ListedIn(list, K), K \subseteq I
  PROVE  Schema!Run(Schema!Each(Schema!DropIndex, list), Base(T, R, Y, I, w))
      = Base(T, R, Y, I \ K, w)
<1> DEFINE n == Len(list)
           e == Schema!Each(Schema!DropIndex, list)
           d == Base(T, R, Y, I, w)
           After(k) == Base(T, R, Y, I \ Upto1(list, k), w)
           A == {k \in 0..n : UptoCommand(e, k, d) = After(k)}
<1>1. n \in Nat /\ e = [i \in 1..n |-> Schema!DropIndex(list[i])] BY DEF Schema!Each
<1> HIDE DEF e
<1>2. Len(e) = n /\ \A i \in 1..n : e[i] = Schema!DropIndex(list[i])
  <2>1. e = [i \in 1..n |-> e[i]] /\ \A i \in 1..n : e[i] = Schema!DropIndex(list[i]) BY <1>1
  <2>2. \A i \in 1..n : e[i] \in {e[j] : j \in 1..n} OBVIOUS
  <2> QED BY <2>1, <2>2, <1>1, FunctionIsList
<1>3. 0 \in A
  <2>1. Upto1(list, 0) = {} BY DEF Upto1
  <2>2. I \ Upto1(list, 0) = I BY <2>1
  <2>3. UptoCommand(e, 0, d) = d BY <1>1, <1>2, ScriptRuns
  <2>4. After(0) = d BY <2>2
  <2>5. 0 \in 0..n BY <1>1
  <2> HIDE DEF After
  <2> QED BY <2>3, <2>4, <2>5
<1>4. ASSUME NEW k \in 0..n - 1, k \in A PROVE k + 1 \in A
  <2>1. k \in Nat /\ k < n /\ k + 1 \in 1..n /\ k + 1 \in 0..n BY <1>1
  <2>2. UptoCommand(e, k + 1, d) = Schema!Execute(e[k + 1], After(k))
    BY <2>1, <1>1, <1>2, <1>4, CommandRuns
  <2> DEFINE i == list[k + 1]
             I2 == I \ Upto1(list, k)
  <2>3. e[k + 1] = Schema!DropIndex(i) BY <2>1, <1>2
  <2>4. i \in I2
    <3>1. i \in I BY <2>1 DEF ListedIn
    <3>2. ASSUME NEW j \in 1..k PROVE list[j] # i BY <2>1 DEF ListedIn
    <3> QED BY <3>1, <3>2 DEF Upto1
  <2>6. I2 \ {i} = I \ Upto1(list, k + 1)
    <3>1. Upto1(list, k + 1) = Upto1(list, k) \cup {i} BY <2>1 DEF Upto1
    <3> QED BY <3>1
  <2> HIDE DEF i, I2
  <2>7. Schema!Execute(Schema!DropIndex(i), Base(T, R, Y, I2, w)) = Base(T, R, Y, I2 \ {i}, w)
    BY <2>4, DropsIndex
  <2> QED BY <2>1, <2>2, <2>3, <2>6, <2>7 DEF I2
<1> HIDE DEF A
<1>5. 0..n \subseteq A BY <1>1, <1>3, <1>4, InductionUpTo
<1>6. n \in A BY <1>1, <1>5
<1>7. Schema!Run(e, d) = UptoCommand(e, n, d) BY <1>1, <1>2, ScriptRuns
<1>8. Upto1(list, n) = K BY ListedAll
<1> QED BY <1>6, <1>7, <1>8 DEF A, e

--------------------------------------------------------------------------------
(* The indexes *)

BaseIndexSet == {Schema!BaseIndexes[i] : i \in 1..8}
QueueIndexSet == {Schema!QueueIndexes[i] : i \in 1..6}

\* Read backwards a list lists the same.
LEMMA ReverseLists ==
  ASSUME NEW S, NEW list \in Seq(S), NEW I, ListedIn(list, I)
  PROVE  /\ Schema!Reverse(list) \in Seq(S) /\ Len(Schema!Reverse(list)) = Len(list)
         /\ ListedIn(Schema!Reverse(list), I)
<1> DEFINE n == Len(list)
           e == Schema!Reverse(list)
<1>1. n \in Nat /\ e = [i \in 1..n |-> list[(n - i) + 1]] BY DEF Schema!Reverse
<1>2. \A i \in 1..n : (n - i) + 1 \in 1..n /\ (n - ((n - i) + 1)) + 1 = i BY <1>1
<1> HIDE DEF e
<1>3. \A i \in 1..n : e[i] = list[(n - i) + 1] /\ e[i] \in S BY <1>1, <1>2
<1>4. e \in Seq(S) /\ Len(e) = n
  <2>1. e = [i \in 1..n |-> e[i]] BY <1>1
  <2> QED BY <2>1, <1>1, <1>3, FunctionIsList
<1>5. \A i \in 1..n : e[i] \in I BY <1>2, <1>3 DEF ListedIn
<1>6. ASSUME NEW x \in I PROVE \E i \in 1..n : x = e[i]
  <2>1. PICK j \in 1..n : x = list[j] BY DEF ListedIn
  <2>2. (n - j) + 1 \in 1..n /\ e[(n - j) + 1] = list[j] BY <1>2, <1>3
  <2> QED BY <2>1, <2>2
<1>7. ASSUME NEW i \in 1..n, NEW j \in 1..n, e[i] = e[j] PROVE i = j
  <2>1. (n - i) + 1 = (n - j) + 1 BY <1>2, <1>3, <1>7 DEF ListedIn
  <2> QED BY <2>1, <1>1
<1> QED BY <1>4, <1>5, <1>6, <1>7 DEF e, ListedIn

\* The baseline has eight indexes and revision 0002 six,
LEMMA IndexesAreListed ==
  /\ Schema!BaseIndexes \in Seq(BaseIndexSet) /\ Len(Schema!BaseIndexes) = 8
  /\ ListedIn(Schema!BaseIndexes, BaseIndexSet)
  /\ Schema!QueueIndexes \in Seq(QueueIndexSet) /\ Len(Schema!QueueIndexes) = 6
  /\ ListedIn(Schema!QueueIndexes, QueueIndexSet)
<1>1. Len(Schema!BaseIndexes) = 8 /\ Len(Schema!QueueIndexes) = 6
  BY DEF Schema!BaseIndexes, Schema!QueueIndexes
<1>2. Schema!BaseIndexes = [i \in 1..8 |-> Schema!BaseIndexes[i]]
    /\ Schema!QueueIndexes = [i \in 1..6 |-> Schema!QueueIndexes[i]]
  BY DEF Schema!BaseIndexes, Schema!QueueIndexes
<1>3. Schema!BaseIndexes \in Seq(BaseIndexSet) /\ Schema!QueueIndexes \in Seq(QueueIndexSet)
  BY <1>2, FunctionIsList DEF BaseIndexSet, QueueIndexSet
<1>4. \A i, j \in 1..8 : Schema!BaseIndexes[i][1] = Schema!BaseIndexes[j][1] => i = j
  BY DEF Schema!BaseIndexes
<1>5. \A i, j \in 1..6 : Schema!QueueIndexes[i][1] = Schema!QueueIndexes[j][1] => i = j
  BY DEF Schema!QueueIndexes
<1> QED BY <1>1, <1>3, <1>4, <1>5 DEF ListedIn, BaseIndexSet, QueueIndexSet

\* together those of the models, and none twice.
LEMMA IndexesAreModels ==
  BaseIndexSet \cup QueueIndexSet = Schema!ModelIndexes /\ BaseIndexSet \cap QueueIndexSet = {}
<1>1. BaseIndexSet = {Schema!BaseIndexes[1], Schema!BaseIndexes[2],
                      Schema!BaseIndexes[3], Schema!BaseIndexes[4],
                      Schema!BaseIndexes[5], Schema!BaseIndexes[6], Schema!BaseIndexes[7],
                          Schema!BaseIndexes[8]}
  BY DEF BaseIndexSet
<1>2. QueueIndexSet = {Schema!QueueIndexes[1], Schema!QueueIndexes[2],
                       Schema!QueueIndexes[3], Schema!QueueIndexes[4],
                       Schema!QueueIndexes[5], Schema!QueueIndexes[6]}
  BY DEF QueueIndexSet
<1>3. BaseIndexSet \cup QueueIndexSet = Schema!ModelIndexes
  BY <1>1, <1>2 DEF Schema!BaseIndexes, Schema!QueueIndexes, Schema!ModelIndexes
<1>4. \A x \in BaseIndexSet, y \in QueueIndexSet : x[1] # y[1]
  BY <1>1, <1>2 DEF Schema!BaseIndexes, Schema!QueueIndexes
<1> QED BY <1>3, <1>4

\* The columns of the baseline's indexes are there,
LEMMA BaseIndexesFit ==
  ASSUME NEW U, NEW P, NEW J, "user_id" \in DOMAIN J, "printer_id" \in DOMAIN J,
         "status" \in DOMAIN J, NEW i \in 1..8
  PROVE  /\ Schema!BaseIndexes[i][2] \in DOMAIN TablesOf(U, P, J)
         /\ \A x \in Schema!ToSet(Schema!BaseIndexes[i][3]) :
             x \in DOMAIN TablesOf(U, P, J)[Schema!BaseIndexes[i][2]]
<1> DEFINE b == Schema!BaseIndexes[i]
           T == TablesOf(U, P, J)
<1>1. /\ DOMAIN T = {"users", "materials", "printers", "print_jobs", "job_validations",
                     "notifications", "collection_records", "maintenance_logs"}
      /\ T["print_jobs"] = J /\ T["job_validations"] = Schema!JobValidation
      /\ T["notifications"] = Schema!Notification
          /\ T["collection_records"] = Schema!CollectionRecord
      /\ T["maintenance_logs"] = Schema!MaintenanceLog
  BY DEF TablesOf
<1>2. /\ "job_id" \in DOMAIN Schema!JobValidation /\ "user_id" \in DOMAIN Schema!Notification
      /\ "is_read" \in DOMAIN Schema!Notification /\ "job_id" \in DOMAIN Schema!CollectionRecord
      /\ "printer_id" \in DOMAIN Schema!MaintenanceLog
  BY DEF Schema!JobValidation, Schema!Notification, Schema!CollectionRecord, Schema!MaintenanceLog
<1> HIDE DEF T
<1>3. \/ b[2] = "print_jobs" /\ b[3] = <<"user_id">>
      \/ b[2] = "print_jobs" /\ b[3] = <<"printer_id">>
      \/ b[2] = "print_jobs" /\ b[3] = <<"status">>
      \/ b[2] = "job_validations" /\ b[3] = <<"job_id">>
      \/ b[2] = "notifications" /\ b[3] = <<"user_id">>
      \/ b[2] = "notifications" /\ b[3] = <<"user_id", "is_read">>
      \/ b[2] = "collection_records" /\ b[3] = <<"job_id">>
      \/ b[2] = "maintenance_logs" /\ b[3] = <<"printer_id">>
  BY DEF Schema!BaseIndexes
<1> HIDE DEF b
<1>4. b[2] \in DOMAIN T BY <1>1, <1>3
<1>5. \A x \in Schema!ToSet(b[3]) : x \in DOMAIN T[b[2]] BY <1>1, <1>2, <1>3 DEF Schema!ToSet
<1> QED BY <1>4, <1>5 DEF b, T

\* and those of 0002's.
LEMMA QueueIndexesFit ==
  ASSUME NEW U, NEW P, NEW J, "current_material_id" \in DOMAIN P, "material_id" \in DOMAIN J,
         "submitted_at" \in DOMAIN J, NEW i \in 1..6
  PROVE  /\ Schema!QueueIndexes[i][2] \in DOMAIN TablesOf(U, P, J)
         /\ \A x \in Schema!ToSet(Schema!QueueIndexes[i][3]) :
             x \in DOMAIN TablesOf(U, P, J)[Schema!QueueIndexes[i][2]]
<1> DEFINE b == Schema!QueueIndexes[i]
           T == TablesOf(U, P, J)
<1>1. /\ DOMAIN T = {"users", "materials", "printers", "print_jobs", "job_validations",
                     "notifications", "collection_records", "maintenance_logs"}
      /\ T["printers"] = P /\ T["print_jobs"] = J
      /\ T["notifications"] = Schema!Notification
          /\ T["collection_records"] = Schema!CollectionRecord
      /\ T["maintenance_logs"] = Schema!MaintenanceLog
  BY DEF TablesOf
<1>2. /\ "job_id" \in DOMAIN Schema!Notification /\ "farmer_id" \in DOMAIN Schema!CollectionRecord
      /\ "farmer_id" \in DOMAIN Schema!MaintenanceLog
  BY DEF Schema!Notification, Schema!CollectionRecord, Schema!MaintenanceLog
<1> HIDE DEF T
<1>3. \/ b[2] = "printers" /\ b[3] = <<"current_material_id">>
      \/ b[2] = "print_jobs" /\ b[3] = <<"material_id">>
      \/ b[2] = "notifications" /\ b[3] = <<"job_id">>
      \/ b[2] = "collection_records" /\ b[3] = <<"farmer_id">>
      \/ b[2] = "maintenance_logs" /\ b[3] = <<"farmer_id">>
      \/ b[2] = "print_jobs" /\ b[3] = <<"submitted_at">>
  BY DEF Schema!QueueIndexes
<1> HIDE DEF b
<1>4. b[2] \in DOMAIN T BY <1>1, <1>3
<1>5. \A x \in Schema!ToSet(b[3]) : x \in DOMAIN T[b[2]] BY <1>1, <1>2, <1>3 DEF Schema!ToSet
<1> QED BY <1>4, <1>5 DEF b, T

--------------------------------------------------------------------------------
(* The baseline *)

\* The types, of which the revisions change these three.
LabelsOf(roles, statuses, news) == [
  user_role |-> roles,
  printer_status |-> {"idle", "printing", "error", "offline", "maintenance"},
  job_status |-> statuses,
  check_type |-> {"printer_compatibility", "material_compatibility", "bed_size", "config"},
  notification_type |-> news ]

BaseRoles == {"student_staff", "farmer", "admin"}
BaseStatuses == {"submitted", "queued", "printing", "completed", "failed", "removed",
                 "ready_for_collection"}
BaseNews == {"job_started", "job_completed", "job_error", "ready_for_collection"}

BaseLabels == LabelsOf(BaseRoles, BaseStatuses, BaseNews)

NoBase(w) == Base(<<>>, <<>>, <<>>, {}, w)

\* No names of F are no table,
LEMMA CutNothing == ASSUME NEW F PROVE Cut(F, {}) = <<>>
BY DEF Cut

\* and all of them are F.
LEMMA CutAll == ASSUME NEW F, F = [c \in DOMAIN F |-> F[c]] PROVE Cut(F, DOMAIN F) = F
BY DEF Cut

\* What the columns of a table refer to.
Refer(M, names) == \A c \in DOMAIN M : M[c].to \in names \cup {"none"}

\* A column that refers to one of the names leaves a table that refers to no others.
LEMMA PutRefers ==
  ASSUME NEW M, NEW names, Refer(M, names), NEW c, NEW spec, spec.to \in names \cup {"none"}
  PROVE  Refer(Schema!Put(M, c, spec), names)
BY DEF Refer, Schema!Put

\* What the tables of the baseline refer to is there when they are created:
LEMMA BaseTablesRefer ==
  ASSUME NEW department
  PROVE  /\ Refer(Schema!BaseUsers(department), {}) /\ Refer(Schema!BaseMaterials, {})
         /\ Refer(Schema!BasePrinters, {"materials"})
         /\ Refer(Schema!BaseJobs(department), {"users", "printers", "materials"})
<1> USE ColumnsAre, ColumnsOf, DefaultsOf, RefsOf
<1>1. Refer(Schema!BaseUsers(department), {})
  <2> DEFINE M == [id |-> Schema!Id, email |-> Schema!Unique(Schema!Text), name |-> Schema!Text,
      student_staff_number |-> Schema!Text,
                   role |-> Schema!Default(Schema!Col("user_role"), "student_staff"),
                       auth_hash |-> Schema!Text,
                   created_at |-> Schema!Now ]
  <2>1. Refer(M, {}) BY DEF Refer
  <2> HIDE DEF M
  <2>2. Refer(Schema!Put(M, department, Schema!Maybe(Schema!Text)), {}) BY <2>1, PutRefers
  <2> QED BY <2>2 DEF Schema!BaseUsers, M
<1>2. Refer(Schema!BaseMaterials, {}) BY DEF Refer, Schema!BaseMaterials
<1>3. Refer(Schema!BasePrinters, {"materials"}) BY DEF Refer, Schema!BasePrinters
<1>4. Refer(Schema!BaseJobs(department), {"users", "printers", "materials"})
  <2> DEFINE names == {"users", "printers", "materials"}
             M == [id |-> Schema!Id, user_id |-> Schema!Ref("users"),
                 printer_id |-> Schema!Maybe(Schema!Ref("printers")),
                   material_id |-> Schema!Ref("materials"), gcode_path |-> Schema!Text,
                   status |-> Schema!Default(Schema!Col("job_status"), "submitted"),
                       queue_position |-> Schema!Maybe(Schema!Col("integer")),
                   est_duration_min |-> Schema!Maybe(Schema!Col("float")),
                       est_filament_g |-> Schema!Maybe(Schema!Col("float")),
                   actual_duration_min |-> Schema!Maybe(Schema!Col("float")),
                       actual_filament_g |-> Schema!Maybe(Schema!Col("float")),
                   submitted_at |-> Schema!Now, completed_at |-> Schema!Maybe(Schema!Time) ]
  <2>1. Refer(M, names) BY DEF Refer
  <2> HIDE DEF M
  <2>2. Refer(Schema!Put(M, department, Schema!Maybe(Schema!Text)), names) BY <2>1, PutRefers
  <2> QED BY <2>2 DEF Schema!BaseJobs, M
<1> QED BY <1>1, <1>2, <1>3, <1>4

\* also what the five that no revision changes do, which are the models' from the start.
LEMMA OthersRefer ==
  /\ Schema!BaseMaterials = Schema!Material /\ Schema!BaseValidations = Schema!JobValidation
  /\ Schema!BaseNotifications = Schema!Notification
      /\ Schema!BaseRecords = Schema!CollectionRecord /\ Schema!BaseLogs = Schema!MaintenanceLog
  /\ Refer(Schema!Material, {}) /\ Refer(Schema!JobValidation, {"print_jobs"})
  /\ Refer(Schema!Notification, {"users", "print_jobs"})
      /\ Refer(Schema!CollectionRecord, {"users", "print_jobs"})
  /\ Refer(Schema!MaintenanceLog, {"users", "printers"})
<1> USE ColumnsAre, ColumnsOf, DefaultsOf, RefsOf
<1>1. /\ Schema!BaseMaterials = Schema!Material /\ Schema!BaseValidations = Schema!JobValidation
      /\ Schema!BaseNotifications = Schema!Notification
          /\ Schema!BaseRecords = Schema!CollectionRecord
      /\ Schema!BaseLogs = Schema!MaintenanceLog
  BY DEF Schema!BaseMaterials, Schema!Material, Schema!BaseValidations, Schema!JobValidation,
      Schema!BaseNotifications, Schema!Notification,
         Schema!BaseRecords, Schema!CollectionRecord, Schema!BaseLogs, Schema!MaintenanceLog
<1>2. Refer(Schema!Material, {}) BY DEF Refer, Schema!Material
<1>3. Refer(Schema!JobValidation, {"print_jobs"}) BY DEF Refer, Schema!JobValidation
<1>4. Refer(Schema!Notification, {"users", "print_jobs"}) BY DEF Refer, Schema!Notification
<1>5. Refer(Schema!CollectionRecord, {"users", "print_jobs"}) BY DEF Refer, Schema!CollectionRecord
<1>6. Refer(Schema!MaintenanceLog, {"users", "printers"}) BY DEF Refer, Schema!MaintenanceLog
<1> QED BY <1>1, <1>2, <1>3, <1>4, <1>5, <1>6

--------------------------------------------------------------------------------
\* A table, or a type, that is new.
LEMMA TypeIsCreated ==
  ASSUME NEW T, NEW R, NEW F, NEW S, NEW I, NEW w, NEW type, type \notin S
  PROVE  Schema!Execute(Schema!CreateType(type, F[type]), Base(T, R, Cut(F, S), I, w))
           = Base(T, R, Cut(F, S \cup {type}), I, w)
<1>1. DOMAIN Cut(F, S) = S BY DEF Cut
<1> QED BY <1>1, CutPut, CreatesType

\* With no table left, a type of F is dropped.
LEMMA TypeIsDropped ==
  ASSUME NEW T, DOMAIN T = {}, NEW R, NEW F, NEW S, NEW I, NEW w, NEW type
  PROVE  Schema!Execute(Schema!DropType(type), Base(T, R, Cut(F, S), I, w))
           = Base(T, R, Cut(F, S \ {type}), I, w)
BY CutWithout, DropsType

\* The next table of F is created, empty,
LEMMA TableIsCreated ==
  ASSUME NEW F, NEW G, NEW S, NEW Y, NEW I, NEW w, NEW t, t \notin S, G[t] = {}, Refer(F[t], S)
  PROVE  Schema!Execute(Schema!CreateTable(t, F[t]), Base(Cut(F, S), Cut(G, S), Y, I, w))
           = Base(Cut(F, S \cup {t}), Cut(G, S \cup {t}), Y, I, w)
<1>1. DOMAIN Cut(F, S) = S BY DEF Cut
<1>2. Schema!Put(Cut(F, S), t, F[t]) = Cut(F, S \cup {t})
    /\ Schema!Put(Cut(G, S), t, {}) = Cut(G, S \cup {t})
  <2>1. Schema!Put(Cut(G, S), t, G[t]) = Cut(G, S \cup {t}) BY CutPut
  <2>2. Schema!Put(Cut(F, S), t, F[t]) = Cut(F, S \cup {t}) BY CutPut
  <2> QED BY <2>1, <2>2
<1>3. \A x \in DOMAIN F[t] : F[t][x].to \in DOMAIN Cut(F, S) \cup {"none"} BY <1>1 DEF Refer
<1> QED BY <1>1, <1>2, <1>3, CreatesTable

\* or the last of them dropped, if none that is left refers to it.
LEMMA TableIsDropped ==
  ASSUME NEW F, NEW G, NEW S, NEW Y, NEW w, NEW t \in S, t # "none",
         \A o \in S \ {t} : Refer(F[o], S \ {t})
  PROVE  Schema!Execute(Schema!DropTable(t), Base(Cut(F, S), Cut(G, S), Y, {}, w))
           = Base(Cut(F, S \ {t}), Cut(G, S \ {t}), Y, {}, w)
<1> DEFINE T == Cut(F, S)
           R == Cut(G, S)
<1>1. DOMAIN T = S /\ \A o \in S : T[o] = F[o] BY DEF Cut
<1>2. Schema!Without(T, t) = Cut(F, S \ {t}) /\ Schema!Without(R, t) = Cut(G, S \ {t})
  BY CutWithout
<1> HIDE DEF T, R
<1>3. \A o \in DOMAIN T \ {t} : \A x \in DOMAIN T[o] : T[o][x].to # t
  BY <1>1 DEF Refer
<1> QED BY <1>1, <1>2, <1>3, DropsTable DEF T, R

\* The five types of the baseline are created,
LEMMA BaseTypesRun ==
  ASSUME NEW T, NEW R, NEW w
  PROVE  Schema!Run(Schema!BaseTypes, Base(T, R, <<>>, {}, w)) = Base(T, R, BaseLabels, {}, w)
<1> DEFINE d == Base(T, R, <<>>, {}, w)
           F == BaseLabels
           After(S) == Base(T, R, Cut(F, S), {}, w)
<1>0. Len(Schema!BaseTypes) = 5 BY DEF Schema!BaseTypes
<1>1. /\ Len(Schema!BaseTypes) = 5
      /\ Schema!BaseTypes[1] = Schema!CreateType("user_role", F["user_role"])
      /\ Schema!BaseTypes[2] = Schema!CreateType("printer_status", F["printer_status"])
      /\ Schema!BaseTypes[3] = Schema!CreateType("job_status", F["job_status"])
      /\ Schema!BaseTypes[4] = Schema!CreateType("check_type", F["check_type"])
      /\ Schema!BaseTypes[5] = Schema!CreateType("notification_type", F["notification_type"])
  BY DEF Schema!BaseTypes, BaseLabels, LabelsOf, BaseRoles, BaseStatuses, BaseNews
<1>2. DOMAIN F = {"user_role", "printer_status", "job_status", "check_type", "notification_type"}
    /\ F = [c \in DOMAIN F |-> F[c]]
  BY DEF BaseLabels, LabelsOf
<1> HIDE DEF F
<1>3. UptoCommand(Schema!BaseTypes, 0, d) = After({}) BY <1>1, CutNothing, ScriptRuns
<1> DEFINE at(k) == UptoCommand(Schema!BaseTypes, k, d)
<1>c. \A k \in 1..5 : at(k) = Schema!Execute(Schema!BaseTypes[k], at(k - 1)) BY <1>0, CommandIs
<1>4. at(1) = After({"user_role"})
  <2>1. at(1) = Schema!Execute(Schema!BaseTypes[1], at(0)) BY <1>c
  <2>2. Schema!Execute(Schema!CreateType("user_role", F["user_role"]), After({}))
          = After({} \cup {"user_role"})
    BY TypeIsCreated
  <2>3. {} \cup {"user_role"} = {"user_role"} OBVIOUS
  <2> QED BY <1>1, <1>3, <2>1, <2>2, <2>3
<1>5. at(2) = After({"user_role", "printer_status"})
  <2>1. at(2) = Schema!Execute(Schema!BaseTypes[2], at(1)) BY <1>c
  <2>2. Schema!Execute(Schema!CreateType("printer_status", F["printer_status"]),
      After({"user_role"}))
          = After({"user_role"} \cup {"printer_status"})
    BY TypeIsCreated
  <2>3. {"user_role"} \cup {"printer_status"} = {"user_role", "printer_status"} OBVIOUS
  <2> QED BY <1>1, <1>4, <2>1, <2>2, <2>3
<1>6. at(3) = After({"user_role", "printer_status", "job_status"})
  <2>1. at(3) = Schema!Execute(Schema!BaseTypes[3], at(2)) BY <1>c
  <2>2. Schema!Execute(Schema!CreateType("job_status", F["job_status"]),
      After({"user_role", "printer_status"}))
          = After({"user_role", "printer_status"} \cup {"job_status"})
    BY TypeIsCreated
  <2>3. {"user_role", "printer_status"} \cup {"job_status"}
      = {"user_role", "printer_status", "job_status"} OBVIOUS
  <2> QED BY <1>1, <1>5, <2>1, <2>2, <2>3
<1>7. at(4) = After({"user_role", "printer_status", "job_status", "check_type"})
  <2>1. at(4) = Schema!Execute(Schema!BaseTypes[4], at(3)) BY <1>c
  <2>2. Schema!Execute(Schema!CreateType("check_type", F["check_type"]),
      After({"user_role", "printer_status", "job_status"}))
          = After({"user_role", "printer_status", "job_status"} \cup {"check_type"})
    BY TypeIsCreated
  <2>3. {"user_role", "printer_status", "job_status"} \cup {"check_type"}
      = {"user_role", "printer_status", "job_status", "check_type"} OBVIOUS
  <2> QED BY <1>1, <1>6, <2>1, <2>2, <2>3
<1>8. at(5) = After({"user_role", "printer_status", "job_status", "check_type",
    "notification_type"})
  <2>1. at(5) = Schema!Execute(Schema!BaseTypes[5], at(4)) BY <1>c
  <2>2. Schema!Execute(Schema!CreateType("notification_type", F["notification_type"]),
      After({"user_role", "printer_status", "job_status", "check_type"}))
          = After({"user_role", "printer_status", "job_status",
              "check_type"} \cup {"notification_type"})
    BY TypeIsCreated
  <2>3. {"user_role", "printer_status", "job_status", "check_type"} \cup {"notification_type"}
      = {"user_role", "printer_status", "job_status", "check_type", "notification_type"} OBVIOUS
  <2> QED BY <1>1, <1>7, <2>1, <2>2, <2>3
<1>9. After(DOMAIN F) = Base(T, R, F, {}, w) BY <1>2, CutAll
<1>10. Schema!Run(Schema!BaseTypes, d) = at(5)
  <2> HIDE DEF d
  <2>1. Len(Schema!BaseTypes) \in Nat /\ 5 \in Nat /\ 5 <= Len(Schema!BaseTypes)
      /\ Len(Schema!BaseTypes) <= 5
    BY <1>0
  <2> QED BY <2>1, ScriptEnds
<1> QED BY <1>2, <1>8, <1>9, <1>10 DEF F

\* The tables as the baseline makes them.
BaseTablesOf(department) ==
  TablesOf(Schema!BaseUsers(department), Schema!BasePrinters, Schema!BaseJobs(department))

\* and its eight tables.
LEMMA BaseTablesRun ==
  ASSUME NEW department, NEW Y, NEW w
  PROVE  Schema!Run(Schema!BaseTables(department), Base(<<>>, <<>>, Y, {}, w))
           = Base(BaseTablesOf(department), RowsOf({}, {}), Y, {}, w)
<1> DEFINE s == Schema!BaseTables(department)
           d == Base(<<>>, <<>>, Y, {}, w)
           F == BaseTablesOf(department)
           G == RowsOf({}, {})
           After(S) == Base(Cut(F, S), Cut(G, S), Y, {}, w)
           at(k) == UptoCommand(s, k, d)
<1>0. Len(s) = 8 BY DEF Schema!BaseTables
<1>c. \A k \in 1..8 : at(k) = Schema!Execute(s[k], at(k - 1))
  <2> HIDE DEF s, d
  <2> QED BY <1>0, CommandIs
<1>1. /\ s[1] = Schema!CreateTable("users", F["users"])
      /\ s[2] = Schema!CreateTable("materials", F["materials"])
      /\ s[3] = Schema!CreateTable("printers", F["printers"])
      /\ s[4] = Schema!CreateTable("print_jobs", F["print_jobs"])
      /\ s[5] = Schema!CreateTable("job_validations", F["job_validations"])
      /\ s[6] = Schema!CreateTable("notifications", F["notifications"])
      /\ s[7] = Schema!CreateTable("collection_records", F["collection_records"])
      /\ s[8] = Schema!CreateTable("maintenance_logs", F["maintenance_logs"])
  BY OthersRefer DEF Schema!BaseTables, BaseTablesOf, TablesOf
<1>2. /\ DOMAIN F = {"users", "materials", "printers", "print_jobs", "job_validations",
         "notifications", "collection_records", "maintenance_logs"}
      /\ F = [c \in DOMAIN F |-> F[c]] /\ G = [c \in DOMAIN F |-> G[c]]
      /\ \A t \in DOMAIN F : G[t] = {}
  BY DEF BaseTablesOf, TablesOf, RowsOf
<1>3. /\ Refer(F["users"], {}) /\ Refer(F["materials"], {}) /\ Refer(F["printers"], {"materials"})
      /\ Refer(F["print_jobs"], {"users", "printers", "materials"})
      /\ Refer(F["job_validations"], {"print_jobs"})
      /\ Refer(F["notifications"], {"users", "print_jobs"})
      /\ Refer(F["collection_records"], {"users", "print_jobs"})
      /\ Refer(F["maintenance_logs"], {"users", "printers"})
  BY OthersRefer, BaseTablesRefer DEF BaseTablesOf, TablesOf
<1> HIDE DEF F, G, s, d
<1>4. at(0) = After({}) BY <1>0, CutNothing, ScriptStarts DEF d
<1>5. at(1) = After({"users"})
  <2>1. at(1) = Schema!Execute(s[1], at(0)) BY <1>c
  <2>2. Refer(F["users"], {}) /\ G["users"] = {} BY <1>2, <1>3 DEF Refer
  <2>3. Schema!Execute(Schema!CreateTable("users", F["users"]), After({}))
          = After({} \cup {"users"})
    BY <2>2, TableIsCreated
  <2>4. {} \cup {"users"} = {"users"} OBVIOUS
  <2> QED BY <1>1, <1>4, <2>1, <2>3, <2>4
<1>6. at(2) = After({"users", "materials"})
  <2>1. at(2) = Schema!Execute(s[2], at(1)) BY <1>c
  <2>2. Refer(F["materials"], {"users"}) /\ G["materials"] = {} BY <1>2, <1>3 DEF Refer
  <2>3. Schema!Execute(Schema!CreateTable("materials", F["materials"]), After({"users"}))
          = After({"users"} \cup {"materials"})
    BY <2>2, TableIsCreated
  <2>4. {"users"} \cup {"materials"} = {"users", "materials"} OBVIOUS
  <2> QED BY <1>1, <1>5, <2>1, <2>3, <2>4
<1>7. at(3) = After({"users", "materials", "printers"})
  <2>1. at(3) = Schema!Execute(s[3], at(2)) BY <1>c
  <2>2. Refer(F["printers"], {"users", "materials"}) /\ G["printers"] = {} BY <1>2, <1>3 DEF Refer
  <2>3. Schema!Execute(Schema!CreateTable("printers", F["printers"]), After({"users", "materials"}))
          = After({"users", "materials"} \cup {"printers"})
    BY <2>2, TableIsCreated
  <2>4. {"users", "materials"} \cup {"printers"} = {"users", "materials", "printers"} OBVIOUS
  <2> QED BY <1>1, <1>6, <2>1, <2>3, <2>4
<1>8. at(4) = After({"users", "materials", "printers", "print_jobs"})
  <2>1. at(4) = Schema!Execute(s[4], at(3)) BY <1>c
  <2>2. Refer(F["print_jobs"], {"users", "materials", "printers"}) /\ G["print_jobs"] = {}
    BY <1>2, <1>3 DEF Refer
  <2>3. Schema!Execute(Schema!CreateTable("print_jobs", F["print_jobs"]),
      After({"users", "materials", "printers"}))
          = After({"users", "materials", "printers"} \cup {"print_jobs"})
    BY <2>2, TableIsCreated
  <2>4. {"users", "materials", "printers"} \cup {"print_jobs"}
      = {"users", "materials", "printers", "print_jobs"} OBVIOUS
  <2> QED BY <1>1, <1>7, <2>1, <2>3, <2>4
<1>9. at(5) = After({"users", "materials", "printers", "print_jobs", "job_validations"})
  <2>1. at(5) = Schema!Execute(s[5], at(4)) BY <1>c
  <2>2. Refer(F["job_validations"], {"users", "materials", "printers", "print_jobs"})
      /\ G["job_validations"] = {}
    BY <1>2, <1>3 DEF Refer
  <2>3. Schema!Execute(Schema!CreateTable("job_validations", F["job_validations"]),
      After({"users", "materials", "printers", "print_jobs"}))
          = After({"users", "materials", "printers", "print_jobs"} \cup {"job_validations"})
    BY <2>2, TableIsCreated
  <2>4. {"users", "materials", "printers", "print_jobs"} \cup {"job_validations"}
      = {"users", "materials", "printers", "print_jobs", "job_validations"} OBVIOUS
  <2> QED BY <1>1, <1>8, <2>1, <2>3, <2>4
<1>10. at(6) = After({"users", "materials", "printers", "print_jobs", "job_validations",
    "notifications"})
  <2>1. at(6) = Schema!Execute(s[6], at(5)) BY <1>c
  <2>2. Refer(F["notifications"], {"users", "materials", "printers", "print_jobs",
      "job_validations"}) /\ G["notifications"] = {}
    BY <1>2, <1>3 DEF Refer
  <2>3. Schema!Execute(Schema!CreateTable("notifications", F["notifications"]),
      After({"users", "materials", "printers", "print_jobs", "job_validations"}))
          = After({"users", "materials", "printers", "print_jobs",
              "job_validations"} \cup {"notifications"})
    BY <2>2, TableIsCreated
  <2>4. {"users", "materials", "printers", "print_jobs", "job_validations"} \cup {"notifications"}
      = {"users", "materials", "printers", "print_jobs", "job_validations", "notifications"} OBVIOUS
  <2> QED BY <1>1, <1>9, <2>1, <2>3, <2>4
<1>11. at(7) = After({"users", "materials", "printers", "print_jobs", "job_validations",
    "notifications", "collection_records"})
  <2>1. at(7) = Schema!Execute(s[7], at(6)) BY <1>c
  <2>2. Refer(F["collection_records"], {"users", "materials", "printers", "print_jobs",
      "job_validations", "notifications"}) /\ G["collection_records"] = {}
    BY <1>2, <1>3 DEF Refer
  <2>3. Schema!Execute(Schema!CreateTable("collection_records", F["collection_records"]),
      After({"users", "materials", "printers", "print_jobs", "job_validations", "notifications"}))
          = After({"users", "materials", "printers", "print_jobs", "job_validations",
              "notifications"} \cup {"collection_records"})
    BY <2>2, TableIsCreated
  <2>4. {"users", "materials", "printers", "print_jobs", "job_validations",
      "notifications"} \cup {"collection_records"}
          = {"users", "materials", "printers", "print_jobs", "job_validations", "notifications",
              "collection_records"} OBVIOUS
  <2> QED BY <1>1, <1>10, <2>1, <2>3, <2>4
<1>12. at(8) = After({"users", "materials", "printers", "print_jobs", "job_validations",
    "notifications", "collection_records", "maintenance_logs"})
  <2>1. at(8) = Schema!Execute(s[8], at(7)) BY <1>c
  <2>2. Refer(F["maintenance_logs"], {"users", "materials", "printers", "print_jobs",
      "job_validations", "notifications", "collection_records"}) /\ G["maintenance_logs"] = {}
    BY <1>2, <1>3 DEF Refer
  <2>3. Schema!Execute(Schema!CreateTable("maintenance_logs", F["maintenance_logs"]),
      After({"users", "materials", "printers", "print_jobs", "job_validations", "notifications",
          "collection_records"}))
          = After({"users", "materials", "printers", "print_jobs", "job_validations",
              "notifications", "collection_records"} \cup {"maintenance_logs"})
    BY <2>2, TableIsCreated
  <2>4. {"users", "materials", "printers", "print_jobs", "job_validations", "notifications",
      "collection_records"} \cup {"maintenance_logs"}
          = {"users", "materials", "printers", "print_jobs", "job_validations", "notifications",
              "collection_records", "maintenance_logs"} OBVIOUS
  <2> QED BY <1>1, <1>11, <2>1, <2>3, <2>4
<1>13. After(DOMAIN F) = Base(F, G, Y, {}, w)
  <2>1. Cut(F, DOMAIN F) = F BY <1>2, CutAll
  <2>2. Cut(G, DOMAIN F) = G BY <1>2 DEF Cut
  <2> QED BY <2>1, <2>2
<1>14. Schema!Run(s, d) = at(8)
  <2>1. Len(s) \in Nat /\ 8 \in Nat /\ 8 <= Len(s) /\ Len(s) <= 8 BY <1>0
  <2> QED BY <2>1, ScriptEnds
<1> QED BY <1>2, <1>12, <1>13, <1>14 DEF F, G, s, d

\* The eight tables are dropped, each after those that refer to it,
LEMMA TablesDropRun ==
  ASSUME NEW U, NEW P, NEW J, NEW X, NEW Z, NEW Y, NEW w, NEW s, Len(s) = 8,
         Refer(U, {}), Refer(P, {"materials"}), Refer(J, {"users", "printers", "materials"}),
         s[1] = Schema!DropTable("maintenance_logs"),
         s[2] = Schema!DropTable("collection_records"),
         s[3] = Schema!DropTable("notifications"),
         s[4] = Schema!DropTable("job_validations"),
         s[5] = Schema!DropTable("print_jobs"),
         s[6] = Schema!DropTable("printers"),
         s[7] = Schema!DropTable("materials"),
         s[8] = Schema!DropTable("users")
  PROVE  Schema!Run(s, DbOf(U, X, P, J, Z, Y, {}, w)) = Base(<<>>, <<>>, Y, {}, w)
<1> DEFINE d == DbOf(U, X, P, J, Z, Y, {}, w)
           F == TablesOf(U, P, J)
           G == RowsOf(X, Z)
           After(S) == Base(Cut(F, S), Cut(G, S), Y, {}, w)
           at(k) == UptoCommand(s, k, d)
<1>1. Len(s) \in Nat OBVIOUS
<1>c. \A k \in 1..8 : at(k) = Schema!Execute(s[k], at(k - 1))
  <2> HIDE DEF d
  <2> QED BY CommandIs
<1>2. /\ DOMAIN F = {"users", "materials", "printers", "print_jobs", "job_validations",
         "notifications", "collection_records", "maintenance_logs"}
      /\ F = [c \in DOMAIN F |-> F[c]] /\ G = [c \in DOMAIN F |-> G[c]]
  BY DEF TablesOf, RowsOf
<1>3. /\ Refer(F["users"], {}) /\ Refer(F["materials"], {}) /\ Refer(F["printers"], {"materials"})
      /\ Refer(F["print_jobs"], {"users", "printers", "materials"})
      /\ Refer(F["job_validations"], {"print_jobs"})
      /\ Refer(F["notifications"], {"users", "print_jobs"})
      /\ Refer(F["collection_records"], {"users", "print_jobs"})
      /\ Refer(F["maintenance_logs"], {"users", "printers"})
  BY OthersRefer DEF TablesOf
<1>4. at(0) = After({"users", "materials", "printers", "print_jobs", "job_validations",
    "notifications", "collection_records", "maintenance_logs"})
  <2>1. Cut(F, DOMAIN F) = F BY <1>2, CutAll
  <2>2. Cut(G, DOMAIN F) = G BY <1>2 DEF Cut
  <2>3. at(0) = d BY ScriptStarts
  <2> HIDE DEF F, G
  <2> QED BY <1>2, <2>1, <2>2, <2>3 DEF d, DbOf, F, G
<1> HIDE DEF F, G, d
<1>5. at(1) = After({"users", "materials", "printers", "print_jobs", "job_validations",
    "notifications", "collection_records"})
  <2>1. at(1) = Schema!Execute(s[1], at(0)) BY <1>c
  <2>2. {"users", "materials", "printers", "print_jobs", "job_validations", "notifications",
      "collection_records", "maintenance_logs"} \ {"maintenance_logs"}
          = {"users", "materials", "printers", "print_jobs", "job_validations", "notifications",
              "collection_records"} OBVIOUS
  <2>3. \A o \in {"users", "materials", "printers", "print_jobs", "job_validations",
      "notifications", "collection_records"} :
          Refer(F[o], {"users", "materials", "printers", "print_jobs", "job_validations",
              "notifications", "collection_records"})
    BY <1>3 DEF Refer
  <2>4. Schema!Execute(Schema!DropTable("maintenance_logs"),
      After({"users", "materials", "printers", "print_jobs", "job_validations", "notifications",
          "collection_records", "maintenance_logs"}))
              = After({"users", "materials", "printers", "print_jobs", "job_validations",
                  "notifications", "collection_records", "maintenance_logs"} \ {"maintenance_logs"})
    BY <2>2, <2>3, TableIsDropped
  <2> QED BY <1>4, <2>1, <2>2, <2>4
<1>6. at(2) = After({"users", "materials", "printers", "print_jobs", "job_validations",
    "notifications"})
  <2>1. at(2) = Schema!Execute(s[2], at(1)) BY <1>c
  <2>2. {"users", "materials", "printers", "print_jobs", "job_validations", "notifications",
      "collection_records"} \ {"collection_records"}
          = {"users", "materials", "printers", "print_jobs", "job_validations",
              "notifications"} OBVIOUS
  <2>3. \A o \in {"users", "materials", "printers", "print_jobs", "job_validations",
      "notifications"} : Refer(F[o], {"users", "materials", "printers", "print_jobs",
          "job_validations", "notifications"})
    BY <1>3 DEF Refer
  <2>4. Schema!Execute(Schema!DropTable("collection_records"),
      After({"users", "materials", "printers", "print_jobs", "job_validations", "notifications",
          "collection_records"})) = After({"users", "materials", "printers", "print_jobs",
              "job_validations", "notifications", "collection_records"} \ {"collection_records"})
    BY <2>2, <2>3, TableIsDropped
  <2> QED BY <1>5, <2>1, <2>2, <2>4
<1>7. at(3) = After({"users", "materials", "printers", "print_jobs", "job_validations"})
  <2>1. at(3) = Schema!Execute(s[3], at(2)) BY <1>c
  <2>2. {"users", "materials", "printers", "print_jobs", "job_validations",
      "notifications"} \ {"notifications"} = {"users", "materials", "printers", "print_jobs",
          "job_validations"} OBVIOUS
  <2>3. \A o \in {"users", "materials", "printers", "print_jobs", "job_validations"} :
      Refer(F[o], {"users", "materials", "printers", "print_jobs", "job_validations"})
    BY <1>3 DEF Refer
  <2>4. Schema!Execute(Schema!DropTable("notifications"),
      After({"users", "materials", "printers", "print_jobs", "job_validations", "notifications"}))
          = After({"users", "materials", "printers", "print_jobs", "job_validations",
              "notifications"} \ {"notifications"})
    BY <2>2, <2>3, TableIsDropped
  <2> QED BY <1>6, <2>1, <2>2, <2>4
<1>8. at(4) = After({"users", "materials", "printers", "print_jobs"})
  <2>1. at(4) = Schema!Execute(s[4], at(3)) BY <1>c
  <2>2. {"users", "materials", "printers", "print_jobs", "job_validations"} \ {"job_validations"}
      = {"users", "materials", "printers", "print_jobs"} OBVIOUS
  <2>3. \A o \in {"users", "materials", "printers", "print_jobs"} :
      Refer(F[o], {"users", "materials", "printers", "print_jobs"})
    BY <1>3 DEF Refer
  <2>4. Schema!Execute(Schema!DropTable("job_validations"),
      After({"users", "materials", "printers", "print_jobs", "job_validations"}))
          = After({"users", "materials", "printers", "print_jobs",
              "job_validations"} \ {"job_validations"})
    BY <2>2, <2>3, TableIsDropped
  <2> QED BY <1>7, <2>1, <2>2, <2>4
<1>9. at(5) = After({"users", "materials", "printers"})
  <2>1. at(5) = Schema!Execute(s[5], at(4)) BY <1>c
  <2>2. {"users", "materials", "printers", "print_jobs"} \ {"print_jobs"}
      = {"users", "materials", "printers"} OBVIOUS
  <2>3. \A o \in {"users", "materials", "printers"} :
      Refer(F[o], {"users", "materials", "printers"})
    BY <1>3 DEF Refer
  <2>4. Schema!Execute(Schema!DropTable("print_jobs"),
      After({"users", "materials", "printers", "print_jobs"}))
          = After({"users", "materials", "printers", "print_jobs"} \ {"print_jobs"})
    BY <2>2, <2>3, TableIsDropped
  <2> QED BY <1>8, <2>1, <2>2, <2>4
<1>10. at(6) = After({"users", "materials"})
  <2>1. at(6) = Schema!Execute(s[6], at(5)) BY <1>c
  <2>2. {"users", "materials", "printers"} \ {"printers"} = {"users", "materials"} OBVIOUS
  <2>3. \A o \in {"users", "materials"} : Refer(F[o], {"users", "materials"})
    BY <1>3 DEF Refer
  <2>4. Schema!Execute(Schema!DropTable("printers"), After({"users", "materials", "printers"}))
      = After({"users", "materials", "printers"} \ {"printers"})
    BY <2>2, <2>3, TableIsDropped
  <2> QED BY <1>9, <2>1, <2>2, <2>4
<1>11. at(7) = After({"users"})
  <2>1. at(7) = Schema!Execute(s[7], at(6)) BY <1>c
  <2>2. {"users", "materials"} \ {"materials"} = {"users"} OBVIOUS
  <2>3. \A o \in {"users"} : Refer(F[o], {"users"})
    BY <1>3 DEF Refer
  <2>4. Schema!Execute(Schema!DropTable("materials"), After({"users", "materials"}))
      = After({"users", "materials"} \ {"materials"})
    BY <2>2, <2>3, TableIsDropped
  <2> QED BY <1>10, <2>1, <2>2, <2>4
<1>12. at(8) = After({})
  <2>1. at(8) = Schema!Execute(s[8], at(7)) BY <1>c
  <2>2. {"users"} \ {"users"} = {} OBVIOUS
  <2>3. \A o \in {} : Refer(F[o], {})
    BY <1>3 DEF Refer
  <2>4. Schema!Execute(Schema!DropTable("users"), After({"users"})) = After({"users"} \ {"users"})
    BY <2>2, <2>3, TableIsDropped
  <2> QED BY <1>11, <2>1, <2>2, <2>4
<1>13. After({}) = Base(<<>>, <<>>, Y, {}, w) BY CutNothing
<1>14. Schema!Run(s, d) = at(8)
  <2>1. Len(s) \in Nat /\ 8 \in Nat /\ 8 <= Len(s) /\ Len(s) <= 8 OBVIOUS
  <2> QED BY <2>1, ScriptEnds
<1> QED BY <1>12, <1>13, <1>14 DEF d

\* and then the five types.
LEMMA TypesDropRun ==
  ASSUME NEW Y, NEW w, NEW s, Len(s) = 5, Y = [c \in DOMAIN Y |-> Y[c]],
         DOMAIN Y = {"user_role", "printer_status", "job_status", "check_type",
             "notification_type"},
         s[1] = Schema!DropType("notification_type"),
         s[2] = Schema!DropType("check_type"),
         s[3] = Schema!DropType("job_status"),
         s[4] = Schema!DropType("printer_status"),
         s[5] = Schema!DropType("user_role")
  PROVE  Schema!Run(s, Base(<<>>, <<>>, Y, {}, w)) = NoBase(w)
<1> DEFINE d == Base(<<>>, <<>>, Y, {}, w)
           After(S) == Base(<<>>, <<>>, Cut(Y, S), {}, w)
           at(k) == UptoCommand(s, k, d)
<1>1. Len(s) \in Nat OBVIOUS
<1>c. \A k \in 1..5 : at(k) = Schema!Execute(s[k], at(k - 1))
  <2> HIDE DEF d
  <2> QED BY CommandIs
<1>2. DOMAIN <<>> = {} OBVIOUS
<1>3. at(0) = After({"user_role", "printer_status", "job_status", "check_type",
    "notification_type"})
  <2>1. Cut(Y, DOMAIN Y) = Y BY CutAll
  <2>2. at(0) = d BY ScriptStarts
  <2> QED BY <2>1, <2>2
<1> HIDE DEF d
<1>4. at(1) = After({"user_role", "printer_status", "job_status", "check_type"})
  <2>1. at(1) = Schema!Execute(s[1], at(0)) BY <1>c
  <2>2. {"user_role", "printer_status", "job_status", "check_type",
      "notification_type"} \ {"notification_type"}
          = {"user_role", "printer_status", "job_status", "check_type"} OBVIOUS
  <2>3. Schema!Execute(Schema!DropType("notification_type"),
      After({"user_role", "printer_status", "job_status", "check_type", "notification_type"}))
          = After({"user_role", "printer_status", "job_status", "check_type",
              "notification_type"} \ {"notification_type"})
    BY <1>2, TypeIsDropped
  <2> QED BY <1>3, <2>1, <2>2, <2>3
<1>5. at(2) = After({"user_role", "printer_status", "job_status"})
  <2>1. at(2) = Schema!Execute(s[2], at(1)) BY <1>c
  <2>2. {"user_role", "printer_status", "job_status", "check_type"} \ {"check_type"}
      = {"user_role", "printer_status", "job_status"} OBVIOUS
  <2>3. Schema!Execute(Schema!DropType("check_type"),
      After({"user_role", "printer_status", "job_status", "check_type"}))
          = After({"user_role", "printer_status", "job_status", "check_type"} \ {"check_type"})
    BY <1>2, TypeIsDropped
  <2> QED BY <1>4, <2>1, <2>2, <2>3
<1>6. at(3) = After({"user_role", "printer_status"})
  <2>1. at(3) = Schema!Execute(s[3], at(2)) BY <1>c
  <2>2. {"user_role", "printer_status", "job_status"} \ {"job_status"}
      = {"user_role", "printer_status"} OBVIOUS
  <2>3. Schema!Execute(Schema!DropType("job_status"),
      After({"user_role", "printer_status", "job_status"}))
          = After({"user_role", "printer_status", "job_status"} \ {"job_status"})
    BY <1>2, TypeIsDropped
  <2> QED BY <1>5, <2>1, <2>2, <2>3
<1>7. at(4) = After({"user_role"})
  <2>1. at(4) = Schema!Execute(s[4], at(3)) BY <1>c
  <2>2. {"user_role", "printer_status"} \ {"printer_status"} = {"user_role"} OBVIOUS
  <2>3. Schema!Execute(Schema!DropType("printer_status"), After({"user_role", "printer_status"}))
      = After({"user_role", "printer_status"} \ {"printer_status"})
    BY <1>2, TypeIsDropped
  <2> QED BY <1>6, <2>1, <2>2, <2>3
<1>8. at(5) = After({})
  <2>1. at(5) = Schema!Execute(s[5], at(4)) BY <1>c
  <2>2. {"user_role"} \ {"user_role"} = {} OBVIOUS
  <2>3. Schema!Execute(Schema!DropType("user_role"), After({"user_role"}))
      = After({"user_role"} \ {"user_role"})
    BY <1>2, TypeIsDropped
  <2> QED BY <1>7, <2>1, <2>2, <2>3
<1>9. After({}) = NoBase(w) BY CutNothing DEF NoBase
<1>10. Schema!Run(s, d) = at(5)
  <2>1. Len(s) \in Nat /\ 5 \in Nat /\ 5 <= Len(s) /\ Len(s) <= 5 OBVIOUS
  <2> QED BY <2>1, ScriptEnds
<1> QED BY <1>8, <1>9, <1>10 DEF d

\* Three scripts in a row are run one after the other.
LEMMA RunThree ==
  ASSUME NEW A, NEW a \in Seq(A), NEW B, NEW b \in Seq(B), NEW C, NEW c \in Seq(C), NEW d
  PROVE  Schema!Run(a \o b \o c, d) = Schema!Run(c, Schema!Run(b, Schema!Run(a, d)))
<1> DEFINE S == A \cup B \cup C
<1>1. a \in Seq(S) /\ b \in Seq(S) /\ c \in Seq(S) OBVIOUS
<1> HIDE DEF S
<1>2. a \o b \in Seq(S) BY <1>1
<1>3. Schema!Run((a \o b) \o c, d) = Schema!Run(c, Schema!Run(a \o b, d))
  <2> DEFINE ab == a \o b
  <2> HIDE DEF ab
  <2>1. ab \in Seq(S) BY <1>2 DEF ab
  <2>2. Schema!Run(ab \o c, d) = Schema!Run(c, Schema!Run(ab, d)) BY <1>1, <2>1, RunConcat
  <2> QED BY <2>2 DEF ab
<1>4. Schema!Run(a \o b, d) = Schema!Run(b, Schema!Run(a, d)) BY <1>1, RunConcat
<1> QED BY <1>3, <1>4

\* A function on 1 .. n is a sequence of its values.
LEMMA ListIsSeq ==
  ASSUME NEW n \in Nat, NEW e, e = [i \in 1..n |-> e[i]]
  PROVE  e \in Seq({e[i] : i \in 1..n})
BY FunctionIsList

\* upgrade of 0001 is not refused on an empty database, whatever the width.
LEMMA BaselineRuns ==
  ASSUME NEW department, NEW w
  PROVE  Schema!Run(Schema!Baseline(department), NoBase(w))
           = Base(BaseTablesOf(department), RowsOf({}, {}), BaseLabels, BaseIndexSet, w)
<1> DEFINE T == BaseTablesOf(department)
           R == RowsOf({}, {})
           J == Schema!BaseJobs(department)
           mk == Schema!Each(Schema!CreateIndex, Schema!BaseIndexes)
           tb == Schema!BaseTables(department)
<1>1. Schema!Run(Schema!BaseTypes, NoBase(w)) = Base(<<>>, <<>>, BaseLabels, {}, w)
  BY BaseTypesRun DEF NoBase
<1>2. Schema!Run(tb, Base(<<>>, <<>>, BaseLabels, {}, w)) = Base(T, R, BaseLabels, {}, w)
  BY BaseTablesRun
<1>3. Schema!Run(mk, Base(T, R, BaseLabels, {}, w)) = Base(T, R, BaseLabels, BaseIndexSet, w)
  <2>1. /\ "user_id" \in DOMAIN J /\ "printer_id" \in DOMAIN J /\ "status" \in DOMAIN J
    BY DEF Schema!BaseJobs, Schema!Put
  <2>2. IndexesFit(Schema!BaseIndexes, T)
    <3> HIDE DEF J
    <3> QED BY <2>1, BaseIndexesFit, IndexesAreListed DEF BaseTablesOf, J, IndexesFit
  <2> HIDE DEF T, R
  <2>3. Schema!Run(mk, Base(T, R, BaseLabels, {}, w))
      = Base(T, R, BaseLabels, {} \cup BaseIndexSet, w)
    BY <2>2, IndexesAreListed, CreatesIndexes
  <2>4. {} \cup BaseIndexSet = BaseIndexSet OBVIOUS
  <2> QED BY <2>3, <2>4
<1>4. Schema!BaseTypes \in Seq({Schema!BaseTypes[i] : i \in 1..5})
  <2>1. Schema!BaseTypes = [i \in 1..5 |-> Schema!BaseTypes[i]] BY DEF Schema!BaseTypes
  <2> QED BY <2>1, ListIsSeq
<1>5. tb \in Seq({tb[i] : i \in 1..8})
  <2>1. tb = [i \in 1..8 |-> tb[i]] BY DEF Schema!BaseTables
  <2> QED BY <2>1, ListIsSeq
<1>6. mk \in Seq({mk[i] : i \in 1..8})
  <2>1. mk = [i \in 1..8 |-> mk[i]] BY IndexesAreListed DEF Schema!Each
  <2> QED BY <2>1, ListIsSeq
<1>7. Schema!Run(Schema!BaseTypes \o tb \o mk, NoBase(w))
    = Schema!Run(mk, Schema!Run(tb, Schema!Run(Schema!BaseTypes, NoBase(w))))
  <2> HIDE DEF tb, mk
  <2> QED BY <1>4, <1>5, <1>6, RunThree
<1> QED BY <1>1, <1>2, <1>3, <1>7 DEF Schema!Baseline

\* downgrade of 0001 leaves an empty database, whatever the labels.
LEMMA DropBaselineRuns ==
  ASSUME NEW U, NEW P, NEW J, NEW X, NEW Z, NEW w, NEW roles, NEW statuses, NEW news,
         Refer(U, {}), Refer(P, {"materials"}), Refer(J, {"users", "printers", "materials"})
  PROVE  Schema!Run(Schema!DropBaseline,
             DbOf(U, X, P, J, Z, LabelsOf(roles, statuses, news), BaseIndexSet, w)) = NoBase(w)
<1> DEFINE Y == LabelsOf(roles, statuses, news)
           tables == <<"maintenance_logs", "collection_records", "notifications",
                       "job_validations", "print_jobs", "printers", "materials", "users">>
           types == <<"notification_type", "check_type", "job_status", "printer_status",
                      "user_role">>
           ix == Schema!Each(Schema!DropIndex, Schema!Reverse(Schema!BaseIndexes))
           tb == Schema!Each(Schema!DropTable, tables)
           ty == Schema!Each(Schema!DropType, types)
           d == DbOf(U, X, P, J, Z, Y, BaseIndexSet, w)
<1>1. Schema!Run(ix, d) = DbOf(U, X, P, J, Z, Y, {}, w)
  <2> DEFINE list == Schema!Reverse(Schema!BaseIndexes)
             T == TablesOf(U, P, J)
             R == RowsOf(X, Z)
  <2>1. list \in Seq(BaseIndexSet) /\ Len(list) = 8 /\ ListedIn(list, BaseIndexSet)
    BY IndexesAreListed, ReverseLists
  <2> HIDE DEF list, T, R, Y
  <2>2. Schema!Run(Schema!Each(Schema!DropIndex, list), Base(T, R, Y, BaseIndexSet, w))
          = Base(T, R, Y, BaseIndexSet \ BaseIndexSet, w)
    BY <2>1, DropsIndexes
  <2>3. BaseIndexSet \ BaseIndexSet = {} OBVIOUS
  <2> QED BY <2>2, <2>3 DEF DbOf, T, R, list
<1>2. Schema!Run(tb, DbOf(U, X, P, J, Z, Y, {}, w)) = Base(<<>>, <<>>, Y, {}, w)
  <2>1. /\ Len(tb) = 8 /\ tb[1] = Schema!DropTable("maintenance_logs")
           /\ tb[2] = Schema!DropTable("collection_records")
        /\ tb[3] = Schema!DropTable("notifications") /\ tb[4] = Schema!DropTable("job_validations")
        /\ tb[5] = Schema!DropTable("print_jobs") /\ tb[6] = Schema!DropTable("printers")
        /\ tb[7] = Schema!DropTable("materials") /\ tb[8] = Schema!DropTable("users")
    BY DEF Schema!Each
  <2> HIDE DEF tb, Y
  <2> QED BY <2>1, TablesDropRun
<1>3. Schema!Run(ty, Base(<<>>, <<>>, Y, {}, w)) = NoBase(w)
  <2>1. /\ Len(ty) = 5 /\ ty[1] = Schema!DropType("notification_type")
           /\ ty[2] = Schema!DropType("check_type")
        /\ ty[3] = Schema!DropType("job_status") /\ ty[4] = Schema!DropType("printer_status")
        /\ ty[5] = Schema!DropType("user_role")
    BY DEF Schema!Each
  <2>2. Y = [c \in DOMAIN Y |-> Y[c]] /\ DOMAIN Y = {"user_role", "printer_status", "job_status",
                                                     "check_type", "notification_type"}
    BY DEF LabelsOf
  <2> HIDE DEF ty, Y
  <2> QED BY <2>1, <2>2, TypesDropRun
<1>4. ix \in Seq({ix[i] : i \in 1..8})
  <2>1. Len(Schema!Reverse(Schema!BaseIndexes)) = 8
      /\ Schema!Reverse(Schema!BaseIndexes) \in Seq(BaseIndexSet)
    BY IndexesAreListed, ReverseLists
  <2>2. ix = [i \in 1..8 |-> ix[i]] BY <2>1 DEF Schema!Each
  <2> QED BY <2>2, ListIsSeq
<1>5. tb \in Seq({tb[i] : i \in 1..8})
  <2>1. tb = [i \in 1..8 |-> tb[i]] BY DEF Schema!Each
  <2> QED BY <2>1, ListIsSeq
<1>6. ty \in Seq({ty[i] : i \in 1..5})
  <2>1. ty = [i \in 1..5 |-> ty[i]] BY DEF Schema!Each
  <2> QED BY <2>1, ListIsSeq
<1>7. Schema!Run(ix \o tb \o ty, d) = Schema!Run(ty, Schema!Run(tb, Schema!Run(ix, d)))
  <2> HIDE DEF ix, tb, ty, d
  <2> QED BY <1>4, <1>5, <1>6, RunThree
<1>8. Schema!DropBaseline = ix \o tb \o ty BY DEF Schema!DropBaseline
<1> QED BY <1>1, <1>2, <1>3, <1>7, <1>8

--------------------------------------------------------------------------------
(* What the revisions applied make of the database *)

JobColumns(a, department) ==
  {"id", "user_id", "printer_id", "material_id", "gcode_path", "status", "est_duration_min",
   "est_filament_g", "actual_duration_min", "actual_filament_g", "submitted_at",
   "completed_at", department}
  \cup (IF "0002" \in a THEN {} ELSE {"queue_position"})
  \cup (IF Schema!Timing \in a THEN {"started_at", "est_start_at", "est_completion_at"} ELSE {})
  \cup (IF Schema!Upload \in a THEN {"original_filename"} ELSE {})
  \cup (IF "0006" \in a THEN {"printer_job_id"} ELSE {})
  \cup (IF "0008" \in a THEN {"paused_at"} ELSE {})

\* Every column a job ever has.  Only what is said of its material changes.
JobSpecs(a) ==
  [c \in DOMAIN Schema!PrintJob \cup {"queue_position", "unit_code"} |->
     IF c = "queue_position" THEN Schema!Maybe(Schema!Col("integer"))
     ELSE IF c = "unit_code" THEN Schema!Maybe(Schema!Text)
     ELSE IF c = "material_id" /\ Schema!Upload \notin a THEN Schema!Ref("materials")
     ELSE Schema!PrintJob[c]]

JobTable(a, department) == Cut(JobSpecs(a), JobColumns(a, department))
UserTable(a, department) == IF "0004" \in a THEN Schema!User ELSE Schema!BaseUsers(department)
PrinterTable(a) == IF "0006" \in a THEN Schema!Printer ELSE Schema!BasePrinters

Roles(a) == IF "0004" \in a THEN {"student", "farmer", "admin"} ELSE BaseRoles
IndexesOf(a) == IF "0002" \in a THEN Schema!ModelIndexes ELSE BaseIndexSet

\* Labels stay when their revision is taken back.
StatusesOf(a, statuses) ==
  /\ statuses \in {BaseStatuses, BaseStatuses \cup {"pending_selection"}}
  /\ Schema!Upload \in a => "pending_selection" \in statuses
NewsOf(a, news) ==
  /\ BaseNews \subseteq news
  /\ news \subseteq BaseNews \cup {"job_paused", "job_resumed", "job_submitted"}
  /\ "0008" \in a => {"job_paused", "job_resumed"} \subseteq news
  /\ "0009" \in a => "job_submitted" \in news

WidthOf(a, w) == w = 255 \/ (w = Schema!VersionWidth /\ a \subseteq {"0001"})

\* A row has the columns of its table, and a value where it has to have one.
RowOk(M, r) ==
  r = [c \in DOMAIN M |-> r[c]] /\ \A c \in DOMAIN M : r[c] # Schema!NULL \/ M[c].null

Names == Seq(Schema!Words) \ {<<>>}
NamesOk(r) ==
  IF "name" \in DOMAIN r THEN r.name \in Names ELSE r.first_name \in Names /\ r.last_name \in Names
UserRowsOk(X, M) == \A r \in X : RowOk(M, r) /\ NamesOk(r)

\* A job that waits for a selection has no material yet.
PendingOk(r) == r.status = <<"pending_selection">> => r.material_id = Schema!NULL
JobRowsOk(Z, M) == \A r \in Z : RowOk(M, r) /\ PendingOk(r)

SchemaOf(d, a, department) ==
  LET X == d.rows["users"]
      Z == d.rows["print_jobs"]
      statuses == d.types["job_status"]
      news == d.types["notification_type"]
  IN /\ d = DbOf(UserTable(a, department), X, PrinterTable(a), JobTable(a, department), Z,
                 LabelsOf(Roles(a), statuses, news), IndexesOf(a), d.width)
     /\ "0003" \in a => department = "department"
     /\ StatusesOf(a, statuses) /\ NewsOf(a, news) /\ WidthOf(a, d.width)
     /\ UserRowsOk(X, UserTable(a, department)) /\ JobRowsOk(Z, JobTable(a, department))

\* What is applied is closed under what it revises.
Closed(a) == a \subseteq Schema!Revisions /\ \A r \in a : Schema!DownRevisions[r] \subseteq a

DepartmentNames == {"department", "unit_code"}

SchemaIInv ==
  /\ Closed(applied) /\ refused \subseteq {"up", "down"} \X Schema!Revisions
  /\ \/ applied = {} /\ \E w \in {Schema!VersionWidth, 255} : db = NoBase(w)
     \/ "0001" \in applied /\ \E department \in DepartmentNames : SchemaOf(db, applied, department)

--------------------------------------------------------------------------------
(* Scripts of a few commands *)

\* A script of no command,
LEMMA RunsNone ==
  ASSUME NEW d
  PROVE  Schema!Run(<<>>, d) = d
<1> DEFINE s == <<>>
<1>1. Len(s) \in Nat /\ 0 \in Nat /\ 0 <= Len(s) /\ Len(s) <= 0 OBVIOUS
<1> HIDE DEF s
<1>2. Schema!Run(s, d) = UptoCommand(s, 0, d) BY <1>1, ScriptEnds
<1>3. UptoCommand(s, 0, d) = d BY <1>1, ScriptStarts
<1> QED BY <1>2, <1>3 DEF s

\* of one,
LEMMA RunsOne ==
  ASSUME NEW s, Len(s) = 1, NEW d
  PROVE  Schema!Run(s, d) = Schema!Execute(s[1], d)
<1>1. Len(s) \in Nat /\ 1 \in Nat /\ 1 <= Len(s) /\ Len(s) <= 1 OBVIOUS
<1>2. \A k \in 1..1 : UptoCommand(s, k, d) = Schema!Execute(s[k], UptoCommand(s, k - 1, d))
  BY CommandIs
<1>3. UptoCommand(s, 0, d) = d BY <1>1, ScriptStarts
<1>4. Schema!Run(s, d) = UptoCommand(s, 1, d) BY <1>1, ScriptEnds
<1>5. UptoCommand(s, 1, d) = Schema!Execute(s[1], UptoCommand(s, 0, d)) BY <1>2
<1> QED BY <1>3, <1>4, <1>5

\* two,
LEMMA RunsTwo ==
  ASSUME NEW s, Len(s) = 2, NEW d
  PROVE  Schema!Run(s, d) = Schema!Execute(s[2], Schema!Execute(s[1], d))
<1>1. Len(s) \in Nat /\ 2 \in Nat /\ 2 <= Len(s) /\ Len(s) <= 2 OBVIOUS
<1>2. \A k \in 1..2 : UptoCommand(s, k, d) = Schema!Execute(s[k], UptoCommand(s, k - 1, d))
  BY CommandIs
<1>3. UptoCommand(s, 0, d) = d BY <1>1, ScriptStarts
<1>4. Schema!Run(s, d) = UptoCommand(s, 2, d) BY <1>1, ScriptEnds
<1>5. UptoCommand(s, 1, d) = Schema!Execute(s[1], UptoCommand(s, 0, d)) BY <1>2
<1>6. UptoCommand(s, 2, d) = Schema!Execute(s[2], UptoCommand(s, 1, d)) BY <1>2
<1> QED BY <1>3, <1>4, <1>5, <1>6

\* three
LEMMA RunsThree ==
  ASSUME NEW s, Len(s) = 3, NEW d
  PROVE  Schema!Run(s, d) = Schema!Execute(s[3], Schema!Execute(s[2], Schema!Execute(s[1], d)))
<1>1. Len(s) \in Nat /\ 3 \in Nat /\ 3 <= Len(s) /\ Len(s) <= 3 OBVIOUS
<1>2. \A k \in 1..3 : UptoCommand(s, k, d) = Schema!Execute(s[k], UptoCommand(s, k - 1, d))
  BY CommandIs
<1>3. UptoCommand(s, 0, d) = d BY <1>1, ScriptStarts
<1>4. Schema!Run(s, d) = UptoCommand(s, 3, d) BY <1>1, ScriptEnds
<1>5. UptoCommand(s, 1, d) = Schema!Execute(s[1], UptoCommand(s, 0, d)) BY <1>2
<1>6. UptoCommand(s, 2, d) = Schema!Execute(s[2], UptoCommand(s, 1, d)) BY <1>2
<1>7. UptoCommand(s, 3, d) = Schema!Execute(s[3], UptoCommand(s, 2, d)) BY <1>2
<1> QED BY <1>3, <1>4, <1>5, <1>6, <1>7

\* and four.
LEMMA RunsFour ==
  ASSUME NEW s, Len(s) = 4, NEW d
  PROVE  Schema!Run(s, d) = Schema!Execute(s[4],
      Schema!Execute(s[3], Schema!Execute(s[2], Schema!Execute(s[1], d))))
<1>1. Len(s) \in Nat /\ 4 \in Nat /\ 4 <= Len(s) /\ Len(s) <= 4 OBVIOUS
<1>2. \A k \in 1..4 : UptoCommand(s, k, d) = Schema!Execute(s[k], UptoCommand(s, k - 1, d))
  BY CommandIs
<1>3. UptoCommand(s, 0, d) = d BY <1>1, ScriptStarts
<1>4. Schema!Run(s, d) = UptoCommand(s, 4, d) BY <1>1, ScriptEnds
<1>5. UptoCommand(s, 1, d) = Schema!Execute(s[1], UptoCommand(s, 0, d)) BY <1>2
<1>6. UptoCommand(s, 2, d) = Schema!Execute(s[2], UptoCommand(s, 1, d)) BY <1>2
<1>7. UptoCommand(s, 3, d) = Schema!Execute(s[3], UptoCommand(s, 2, d)) BY <1>2
<1>8. UptoCommand(s, 4, d) = Schema!Execute(s[4], UptoCommand(s, 3, d)) BY <1>2
<1> QED BY <1>3, <1>4, <1>5, <1>6, <1>7, <1>8

--------------------------------------------------------------------------------
(* Rows *)

\* A row that fits its table fits it with a column more that has a value or may be NULL,
LEMMA RowGains ==
  ASSUME NEW M, NEW r, RowOk(M, r), NEW c, c \notin DOMAIN M, NEW spec, NEW v,
         v # Schema!NULL \/ spec.null
  PROVE  RowOk(Schema!Put(M, c, spec), Schema!Put(r, c, v))
BY DEF RowOk, Schema!Put

\* with a column less,
LEMMA RowLoses ==
  ASSUME NEW M, NEW r, RowOk(M, r), NEW c
  PROVE  RowOk(Schema!Without(M, c), Schema!Without(r, c))
BY DEF RowOk, Schema!Without

\* with a column renamed,
LEMMA RowRenames ==
  ASSUME NEW M, NEW r, RowOk(M, r), NEW x \in DOMAIN M, NEW y, y \notin DOMAIN M
  PROVE  RowOk(Schema!Renamed(M, x, y), Schema!Renamed(r, x, y))
<1>1. M[x].null \/ r[x] # Schema!NULL BY DEF RowOk
<1>2. RowOk(Schema!Without(M, x), Schema!Without(r, x)) BY RowLoses
<1>3. y \notin DOMAIN Schema!Without(M, x) BY DEF Schema!Without
<1>4. RowOk(Schema!Put(Schema!Without(M, x), y, M[x]), Schema!Put(Schema!Without(r, x), y, r[x]))
  BY <1>1, <1>2, <1>3, RowGains
<1> QED BY <1>4 DEF Schema!Renamed

\* What a row has depends on which columns there are and on which may be NULL.
LEMMA RowStays ==
  ASSUME NEW M, NEW r, RowOk(M, r), NEW N, DOMAIN N = DOMAIN M,
         \A c \in DOMAIN M : M[c].null => N[c].null \/ r[c] # Schema!NULL
  PROVE  RowOk(N, r)
BY DEF RowOk

\* with another value where it has to have one,
LEMMA RowUpdates ==
  ASSUME NEW M, NEW r, RowOk(M, r), NEW c \in DOMAIN M, NEW v, v # Schema!NULL \/ M[c].null
  PROVE  RowOk(M, [r EXCEPT ![c] = v])
BY DEF RowOk

RowRelabelled(M, r, type, from, to) ==
  [c \in DOMAIN r |-> IF M[c].type = type THEN Schema!RelabelValue(r[c], from, to) ELSE r[c]]

\* and with other labels.
LEMMA RowRelabels ==
  ASSUME NEW M, NEW r, RowOk(M, r), NEW type, NEW from, NEW to
  PROVE  RowOk(M, RowRelabelled(M, r, type, from, to))
<1> DEFINE s == [c \in DOMAIN r |-> IF M[c].type = type THEN Schema!RelabelValue(r[c], from, to)
    ELSE r[c]]
<1>1. s = [c \in DOMAIN M |-> s[c]] BY DEF RowOk
<1>2. ASSUME NEW x \in DOMAIN M PROVE s[x] # Schema!NULL \/ M[x].null
  <2>1. r[x] # Schema!NULL \/ M[x].null BY DEF RowOk
  <2>2. CASE r[x] # Schema!NULL
    <3>1. <<to>> # Schema!NULL BY DEF Schema!NULL
    <3>2. s[x] # Schema!NULL BY <2>2, <3>1 DEF Schema!RelabelValue, RowOk
    <3> QED BY <3>2
  <2> QED BY <2>1, <2>2
<1> HIDE DEF s
<1>3. RowOk(M, s) BY <1>1, <1>2 DEF RowOk
<1> QED BY <1>3 DEF RowRelabelled, s

--------------------------------------------------------------------------------
(* The jobs' table *)

\* The columns that say whether a job waits for a selection.
Awaits == {"status", "material_id"}

\* The jobs fit their table with a column more,
LEMMA JobRowsGain ==
  ASSUME NEW Z, NEW M, JobRowsOk(Z, M), Awaits \subseteq DOMAIN M, NEW c, c \notin DOMAIN M,
         NEW spec, spec.null \/ spec.default # Schema!NULL
  PROVE  JobRowsOk(Schema!Added(Z, c, spec.default), Schema!Put(M, c, spec))
<1> DEFINE v == spec.default
<1>1. ASSUME NEW r \in Z PROVE RowOk(Schema!Put(M, c, spec), Schema!Put(r, c, v))
    /\ PendingOk(Schema!Put(r, c, v))
  <2>1. RowOk(M, r) /\ PendingOk(r) BY <1>1 DEF JobRowsOk
  <2>2. RowOk(Schema!Put(M, c, spec), Schema!Put(r, c, v)) BY <2>1, RowGains
  <2>3. PendingOk(Schema!Put(r, c, v)) BY <2>1 DEF PendingOk, Schema!Put, RowOk, Awaits
  <2> QED BY <2>2, <2>3
<1> QED BY <1>1 DEF JobRowsOk, Schema!Added

\* with one less, if it does not say whether they wait,
LEMMA JobRowsLose ==
  ASSUME NEW Z, NEW M, JobRowsOk(Z, M), Awaits \subseteq DOMAIN M, NEW c, c \notin Awaits
  PROVE  JobRowsOk(Schema!Dropped(Z, c), Schema!Without(M, c))
<1>1. ASSUME NEW r \in Z PROVE RowOk(Schema!Without(M, c), Schema!Without(r, c))
    /\ PendingOk(Schema!Without(r, c))
  <2>1. RowOk(M, r) /\ PendingOk(r) BY <1>1 DEF JobRowsOk
  <2>2. RowOk(Schema!Without(M, c), Schema!Without(r, c)) BY <2>1, RowLoses
  <2>3. PendingOk(Schema!Without(r, c)) BY <2>1 DEF PendingOk, Schema!Without, RowOk, Awaits
  <2> QED BY <2>2, <2>3
<1> QED BY <1>1 DEF JobRowsOk, Schema!Dropped

\* and with one renamed that does not either.
LEMMA JobRowsRename ==
  ASSUME NEW Z, NEW M, JobRowsOk(Z, M), Awaits \subseteq DOMAIN M, NEW x \in DOMAIN M,
         x \notin Awaits, NEW y, y \notin DOMAIN M
  PROVE  JobRowsOk(Schema!RenamedIn(Z, x, y), Schema!Renamed(M, x, y))
<1>1. ASSUME NEW r \in Z PROVE RowOk(Schema!Renamed(M, x, y), Schema!Renamed(r, x, y))
    /\ PendingOk(Schema!Renamed(r, x, y))
  <2>1. RowOk(M, r) /\ PendingOk(r) BY <1>1 DEF JobRowsOk
  <2>2. RowOk(Schema!Renamed(M, x, y), Schema!Renamed(r, x, y)) BY <2>1, RowRenames
  <2>3. PendingOk(Schema!Renamed(r, x, y))
    BY <2>1 DEF PendingOk, Schema!Renamed, Schema!Put, Schema!Without, RowOk, Awaits
  <2> QED BY <2>2, <2>3
<1> QED BY <1>1 DEF JobRowsOk, Schema!RenamedIn

\* They have the columns of their table.
LEMMA JobRowsFit ==
  ASSUME NEW Z, NEW M, JobRowsOk(Z, M)
  PROVE  RowsFit(Z, M)
BY DEF JobRowsOk, RowOk, RowsFit

\* One column of a job, from those it ever has.
LEMMA JobColumnComes ==
  ASSUME NEW U, NEW X, NEW P, NEW Z, NEW Y, NEW I, NEW w, NEW F, NEW S, Awaits \subseteq S,
         NEW c, c \notin S, F[c].null, F[c].default = Schema!NULL, JobRowsOk(Z, Cut(F, S))
  PROVE  /\ Schema!Execute(Schema!AddColumn("print_jobs", c, F[c]),
            DbOf(U, X, P, Cut(F, S), Z, Y, I, w))
              = DbOf(U, X, P, Cut(F, S \cup {c}), Schema!Added(Z, c, Schema!NULL), Y, I, w)
         /\ JobRowsOk(Schema!Added(Z, c, Schema!NULL), Cut(F, S \cup {c}))
<1> DEFINE M == Cut(F, S)
           spec == F[c]
<1>1. DOMAIN M = S BY DEF Cut
<1>2. Schema!Put(M, c, F[c]) = Cut(F, S \cup {c}) BY CutPut
<1> HIDE DEF M
<1>3. Schema!Execute(Schema!AddColumn("print_jobs", c, spec), DbOf(U, X, P, M, Z, Y, I, w))
        = DbOf(U, X, P, Schema!Put(M, c, spec), Schema!Added(Z, c, spec.default), Y, I, w)
  <2> HIDE DEF spec
  <2>1. c \notin DOMAIN M BY <1>1
  <2>2. spec.null BY DEF spec
  <2> QED BY <2>1, <2>2, JobsGain
<1>4. JobRowsOk(Schema!Added(Z, c, spec.default), Schema!Put(M, c, spec))
  <2>1. c \notin DOMAIN M /\ Awaits \subseteq DOMAIN M BY <1>1
  <2>2. spec.null BY DEF spec
  <2>3. JobRowsOk(Z, M) BY DEF M
  <2> HIDE DEF spec
  <2> QED BY <2>1, <2>2, <2>3, JobRowsGain
<1> QED BY <1>2, <1>3, <1>4 DEF M

\* A column of print_jobs is dropped, and the rows still fit,
LEMMA JobColumnGoes ==
  ASSUME NEW U, NEW X, NEW P, NEW Z, NEW Y, NEW I, NEW w, NEW F, NEW S, Awaits \subseteq S,
         NEW c \in S, c \notin Awaits, JobRowsOk(Z, Cut(F, S))
  PROVE  /\ Schema!Execute(Schema!DropColumn("print_jobs", c), DbOf(U, X, P, Cut(F, S), Z, Y, I, w))
              = DbOf(U, X, P, Cut(F, S \ {c}), Schema!Dropped(Z, c), Y, I, w)
         /\ JobRowsOk(Schema!Dropped(Z, c), Cut(F, S \ {c}))
<1> DEFINE M == Cut(F, S)
<1>1. DOMAIN M = S BY DEF Cut
<1>2. Schema!Without(M, c) = Cut(F, S \ {c}) BY CutWithout
<1>3. JobRowsOk(Z, M) OBVIOUS
<1> HIDE DEF M
<1>4. Schema!Execute(Schema!DropColumn("print_jobs", c), DbOf(U, X, P, M, Z, Y, I, w))
        = DbOf(U, X, P, Schema!Without(M, c), Schema!Dropped(Z, c), Y, I, w)
  BY <1>1, JobsLose
<1>5. JobRowsOk(Schema!Dropped(Z, c), Schema!Without(M, c)) BY <1>1, <1>3, JobRowsLose
<1> QED BY <1>2, <1>4, <1>5 DEF M

\* or renamed.
LEMMA JobColumnMoves ==
  ASSUME NEW U, NEW X, NEW P, NEW Z, NEW Y, NEW I, NEW w, NEW F, NEW S, Awaits \subseteq S,
         NEW x \in S, x \notin Awaits, NEW y, y \notin S, F[x] = F[y], JobRowsOk(Z, Cut(F, S))
  PROVE  /\ Schema!Execute(Schema!RenameIfThere("print_jobs", x, y),
            DbOf(U, X, P, Cut(F, S), Z, Y, I, w))
              = DbOf(U, X, P, Cut(F, (S \ {x}) \cup {y}), Schema!RenamedIn(Z, x, y), Y, I, w)
         /\ JobRowsOk(Schema!RenamedIn(Z, x, y), Cut(F, (S \ {x}) \cup {y}))
<1> DEFINE M == Cut(F, S)
<1>1. DOMAIN M = S BY DEF Cut
<1>2. Schema!Renamed(M, x, y) = Cut(F, (S \ {x}) \cup {y}) BY CutRenamed
<1>3. JobRowsOk(Z, M) OBVIOUS
<1> HIDE DEF M
<1>4. Schema!Execute(Schema!RenameIfThere("print_jobs", x, y), DbOf(U, X, P, M, Z, Y, I, w))
        = DbOf(U, X, P, Schema!Renamed(M, x, y), Schema!RenamedIn(Z, x, y), Y, I, w)
  BY <1>1, JobsRenameThere
<1>5. JobRowsOk(Schema!RenamedIn(Z, x, y), Schema!Renamed(M, x, y)) BY <1>1, <1>3, JobRowsRename
<1> QED BY <1>2, <1>4, <1>5 DEF M

\* What a job has at all times, and its column for the department.
JobCore ==
  {"id", "user_id", "printer_id", "material_id", "gcode_path", "status", "est_duration_min",
   "est_filament_g", "actual_duration_min", "actual_filament_g", "submitted_at", "completed_at"}

\* Which columns print_jobs has, and since which revision.
LEMMA JobColumnsAre ==
  ASSUME NEW a, NEW department
  PROVE  \A c : c \in JobColumns(a, department) <=>
           \/ c \in JobCore \/ c = department
           \/ c = "queue_position" /\ "0002" \notin a
           \/ c \in {"started_at", "est_start_at", "est_completion_at"} /\ Schema!Timing \in a
           \/ c = "original_filename" /\ Schema!Upload \in a
           \/ c = "printer_job_id" /\ "0006" \in a
           \/ c = "paused_at" /\ "0008" \in a
BY DEF JobColumns, JobCore

\* The columns that are always there are none of those that come and go.
LEMMA JobCoreIs ==
  ASSUME NEW department \in DepartmentNames
  PROVE  /\ Awaits \subseteq JobCore /\ department \notin JobCore
         /\ JobCore \cap {"queue_position", "started_at", "est_start_at", "est_completion_at",
                          "original_filename", "printer_job_id", "paused_at"} = {}
         /\ department \notin {"queue_position", "started_at", "est_start_at", "est_completion_at",
                               "original_filename", "printer_job_id", "paused_at"}
BY DEF Awaits, JobCore, DepartmentNames

\* How the columns that come and go are defined.
LEMMA JobSpecsAre ==
  ASSUME NEW a
  PROVE  /\ JobSpecs(a)["queue_position"] = Schema!Maybe(Schema!Col("integer"))
         /\ JobSpecs(a)["unit_code"] = Schema!Maybe(Schema!Text)
             /\ JobSpecs(a)["department"] = Schema!Maybe(Schema!Text)
         /\ JobSpecs(a)["started_at"] = Schema!Maybe(Schema!Time)
             /\ JobSpecs(a)["est_start_at"] = Schema!Maybe(Schema!Time)
         /\ JobSpecs(a)["est_completion_at"] = Schema!Maybe(Schema!Time)
         /\ JobSpecs(a)["original_filename"] = Schema!Maybe(Schema!Text)
         /\ JobSpecs(a)["printer_job_id"] = Schema!Maybe(Schema!Col("integer"))
         /\ JobSpecs(a)["paused_at"] = Schema!Maybe(Schema!Time)
         /\ JobSpecs(a)["status"] = Schema!Default(Schema!Col("job_status"), "submitted")
         /\ JobSpecs(a)["material_id"] = IF Schema!Upload \in a
             THEN Schema!Maybe(Schema!Ref("materials")) ELSE Schema!Ref("materials")
<1>1. /\ JobSpecs(a)["queue_position"] = Schema!Maybe(Schema!Col("integer"))
      /\ JobSpecs(a)["unit_code"] = Schema!Maybe(Schema!Text)
          /\ JobSpecs(a)["department"] = Schema!Maybe(Schema!Text)
  BY DEF JobSpecs, Schema!PrintJob
<1>2. /\ JobSpecs(a)["started_at"] = Schema!Maybe(Schema!Time)
         /\ JobSpecs(a)["est_start_at"] = Schema!Maybe(Schema!Time)
      /\ JobSpecs(a)["est_completion_at"] = Schema!Maybe(Schema!Time)
      /\ JobSpecs(a)["original_filename"] = Schema!Maybe(Schema!Text)
  BY DEF JobSpecs, Schema!PrintJob
<1>3. /\ JobSpecs(a)["printer_job_id"] = Schema!Maybe(Schema!Col("integer"))
      /\ JobSpecs(a)["paused_at"] = Schema!Maybe(Schema!Time)
      /\ JobSpecs(a)["status"] = Schema!Default(Schema!Col("job_status"), "submitted")
  BY DEF JobSpecs, Schema!PrintJob
<1>4. JobSpecs(a)["material_id"] = IF Schema!Upload \in a
    THEN Schema!Maybe(Schema!Ref("materials")) ELSE Schema!Ref("materials")
  BY DEF JobSpecs, Schema!PrintJob
<1> QED BY <1>1, <1>2, <1>3, <1>4

\* A time that may be NULL has no default.
LEMMA TimeIs == Schema!Maybe(Schema!Time).null /\ Schema!Maybe(Schema!Time).default = Schema!NULL
BY DEF Schema!Maybe, Schema!Time, Schema!Col, Schema!NULL

\* The columns that come and go.
LEMMA JobSpecsCome ==
  ASSUME NEW a, NEW c \in {"queue_position", "started_at", "est_start_at", "est_completion_at",
                           "original_filename", "printer_job_id", "paused_at"}
  PROVE  JobSpecs(a)[c].null /\ JobSpecs(a)[c].default = Schema!NULL
BY JobSpecsAre, TimeIs, ColumnsAre, ColumnsOf

\* Definitions change with the revision of uploads alone.
LEMMA JobSpecsStay ==
  ASSUME NEW a, NEW b, Schema!Upload \in a <=> Schema!Upload \in b
  PROVE  JobSpecs(a) = JobSpecs(b)
BY DEF JobSpecs

\* The ten revisions are different.
LEMMA RevisionsAre ==
  /\ Schema!Revisions = {"0001", "0002", "0003", "0004", Schema!Timing, Schema!Upload, "0006",
      "0007", "0008", "0009"}
  /\ Schema!Timing \notin {"0001", "0002", "0003", "0004", "0006", "0007", "0008", "0009"}
  /\ Schema!Upload \notin {"0001", "0002", "0003", "0004", "0006", "0007", "0008", "0009"}
  /\ Schema!Timing # Schema!Upload
BY DEF Schema!Revisions, Schema!Timing, Schema!Upload

\* 0002 takes queue_position away,
LEMMA QueuePositionGoes ==
  ASSUME NEW a, "0002" \notin a, NEW department \in DepartmentNames
  PROVE  /\ "queue_position" \in JobColumns(a, department)
         /\ JobColumns(a, department) \ {"queue_position"} = JobColumns(a \cup {"0002"}, department)
BY JobColumnsAre, JobCoreIs, RevisionsAre

\* and its downgrade brings it back.
LEMMA QueuePositionComes ==
  ASSUME NEW a, "0002" \in a, NEW department \in DepartmentNames
  PROVE  /\ "queue_position" \notin JobColumns(a, department)
         /\ JobColumns(a, department) \cup {"queue_position"} = JobColumns(a \ {"0002"}, department)
BY JobColumnsAre, JobCoreIs, RevisionsAre

\* 0005 of the timing brings three times,
LEMMA TimesCome ==
  ASSUME NEW a, Schema!Timing \notin a, NEW department \in DepartmentNames
  PROVE  /\ "started_at" \notin JobColumns(a, department)
         /\ "est_start_at" \notin JobColumns(a, department) \cup {"started_at"}
         /\ "est_completion_at" \notin JobColumns(a,
             department) \cup {"started_at"} \cup {"est_start_at"}
         /\ JobColumns(a, department) \cup {"started_at"} \cup {"est_start_at"}
              \cup {"est_completion_at"}
              = JobColumns(a \cup {Schema!Timing}, department)
<1>1. /\ "started_at" \notin JobColumns(a, department)
      /\ "est_start_at" \notin JobColumns(a, department) \cup {"started_at"}
      /\ "est_completion_at" \notin JobColumns(a,
          department) \cup {"started_at"} \cup {"est_start_at"}
  BY JobColumnsAre, JobCoreIs, RevisionsAre
<1>2. JobColumns(a, department) \cup {"started_at"} \cup {"est_start_at"} \cup {"est_completion_at"}
        = JobColumns(a \cup {Schema!Timing}, department)
  BY JobColumnsAre, JobCoreIs, RevisionsAre
<1> QED BY <1>1, <1>2

\* and its downgrade takes them away.
LEMMA TimesGo ==
  ASSUME NEW a, Schema!Timing \in a, NEW department \in DepartmentNames
  PROVE  /\ "est_completion_at" \in JobColumns(a, department)
         /\ "est_start_at" \in JobColumns(a, department) \ {"est_completion_at"}
         /\ "started_at" \in (JobColumns(a, department) \ {"est_completion_at"}) \ {"est_start_at"}
         /\ ((JobColumns(a, department) \ {"est_completion_at"}) \ {"est_start_at"})
              \ {"started_at"}
              = JobColumns(a \ {Schema!Timing}, department)
<1>1. /\ "est_completion_at" \in JobColumns(a, department)
      /\ "est_start_at" \in JobColumns(a, department) \ {"est_completion_at"}
      /\ "started_at" \in (JobColumns(a, department) \ {"est_completion_at"}) \ {"est_start_at"}
  BY JobColumnsAre, JobCoreIs, RevisionsAre
<1>2. ((JobColumns(a, department) \ {"est_completion_at"}) \ {"est_start_at"}) \ {"started_at"}
        = JobColumns(a \ {Schema!Timing}, department)
  BY JobColumnsAre, JobCoreIs, RevisionsAre
<1> QED BY <1>1, <1>2

\* 0005 of the uploads brings original_filename,
LEMMA FilenameComes ==
  ASSUME NEW a, Schema!Upload \notin a, NEW department \in DepartmentNames
  PROVE  /\ "original_filename" \notin JobColumns(a, department)
         /\ JobColumns(a, department) \cup {"original_filename"}
             = JobColumns(a \cup {Schema!Upload}, department)
BY JobColumnsAre, JobCoreIs, RevisionsAre

\* and its downgrade takes it away.
LEMMA FilenameGoes ==
  ASSUME NEW a, Schema!Upload \in a, NEW department \in DepartmentNames
  PROVE  /\ "original_filename" \in JobColumns(a, department)
         /\ JobColumns(a, department) \ {"original_filename"}
             = JobColumns(a \ {Schema!Upload}, department)
BY JobColumnsAre, JobCoreIs, RevisionsAre

\* 0006 brings printer_job_id,
LEMMA PrinterJobComes ==
  ASSUME NEW a, "0006" \notin a, NEW department \in DepartmentNames
  PROVE  /\ "printer_job_id" \notin JobColumns(a, department)
         /\ JobColumns(a, department) \cup {"printer_job_id"}
             = JobColumns(a \cup {"0006"}, department)
BY JobColumnsAre, JobCoreIs, RevisionsAre

\* and its downgrade takes it away.
LEMMA PrinterJobGoes ==
  ASSUME NEW a, "0006" \in a, NEW department \in DepartmentNames
  PROVE  /\ "printer_job_id" \in JobColumns(a, department)
         /\ JobColumns(a, department) \ {"printer_job_id"} = JobColumns(a \ {"0006"}, department)
BY JobColumnsAre, JobCoreIs, RevisionsAre

\* 0008 brings paused_at,
LEMMA PauseComes ==
  ASSUME NEW a, "0008" \notin a, NEW department \in DepartmentNames
  PROVE  /\ "paused_at" \notin JobColumns(a, department)
         /\ JobColumns(a, department) \cup {"paused_at"} = JobColumns(a \cup {"0008"}, department)
BY JobColumnsAre, JobCoreIs, RevisionsAre

\* and its downgrade takes it away.
LEMMA PauseGoes ==
  ASSUME NEW a, "0008" \in a, NEW department \in DepartmentNames
  PROVE  /\ "paused_at" \in JobColumns(a, department)
         /\ JobColumns(a, department) \ {"paused_at"} = JobColumns(a \ {"0008"}, department)
BY JobColumnsAre, JobCoreIs, RevisionsAre

\* The other revisions leave print_jobs its columns,
LEMMA ColumnsStay ==
  ASSUME NEW a, NEW department, NEW r \in {"0001", "0003", "0004", "0007", "0009"}
  PROVE  /\ JobColumns(a \cup {r}, department) = JobColumns(a, department)
         /\ JobColumns(a \ {r}, department) = JobColumns(a, department)
<1>1. r # "0002" /\ r # Schema!Timing /\ r # Schema!Upload /\ r # "0006" /\ r # "0008"
  BY RevisionsAre
<1>2. JobColumns(a \cup {r}, department) = JobColumns(a, department) BY <1>1, JobColumnsAre
<1> DEFINE b == a \ {r}
<1>3. /\ "0002" \in b <=> "0002" \in a
      /\ Schema!Timing \in b <=> Schema!Timing \in a
      /\ Schema!Upload \in b <=> Schema!Upload \in a
      /\ "0006" \in b <=> "0006" \in a
      /\ "0008" \in b <=> "0008" \in a
  BY <1>1
<1> HIDE DEF b
<1>4. JobColumns(b, department) = JobColumns(a, department) BY <1>3 DEF JobColumns
<1> QED BY <1>2, <1>4 DEF b

\* but for the name of the department.
LEMMA DepartmentMoves ==
  ASSUME NEW a, NEW x \in DepartmentNames, NEW y \in DepartmentNames, x # y
  PROVE  /\ x \in JobColumns(a, x) /\ y \notin JobColumns(a, x)
         /\ (JobColumns(a, x) \ {x}) \cup {y} = JobColumns(a, y)
BY JobColumnsAre, JobCoreIs

\* Status and material are always there.
LEMMA AwaitsThere ==
  ASSUME NEW a, NEW department
  PROVE  Awaits \subseteq JobColumns(a, department)
BY DEF JobColumns, Awaits

--------------------------------------------------------------------------------
(* One revision up or down *)

\* The database of the revisions a, from what varies in it.
SchemaDb(X, Z, statuses, news, w, a, department) ==
  DbOf(UserTable(a, department), X, PrinterTable(a), JobTable(a, department), Z,
       LabelsOf(Roles(a), statuses, news), IndexesOf(a), w)

SchemaParts(X, Z, statuses, news, w, a, department) ==
  /\ "0003" \in a => department = "department"
  /\ StatusesOf(a, statuses) /\ NewsOf(a, news) /\ WidthOf(a, w)
  /\ UserRowsOk(X, UserTable(a, department)) /\ JobRowsOk(Z, JobTable(a, department))

\* The database of some rows, labels, width and revisions has these.
LEMMA SchemaDbIs ==
  ASSUME NEW X, NEW Z, NEW statuses, NEW news, NEW w, NEW a, NEW department
  PROVE  LET d == SchemaDb(X, Z, statuses, news, w, a, department)
         IN /\ d.rows["users"] = X /\ d.rows["print_jobs"] = Z /\ d.types["job_status"] = statuses
            /\ d.types["notification_type"] = news /\ d.width = w /\ d.script = "runs"
<1> DEFINE Y == LabelsOf(Roles(a), statuses, news)
           U == UserTable(a, department)
           P == PrinterTable(a)
           J == JobTable(a, department)
           I == IndexesOf(a)
           d == Base(TablesOf(U, P, J), RowsOf(X, Z), Y, I, w)
<1>1. d = SchemaDb(X, Z, statuses, news, w, a, department) BY DEF SchemaDb, DbOf
<1>2. Y["job_status"] = statuses /\ Y["notification_type"] = news BY DEF LabelsOf
<1> HIDE DEF Y, U, P, J, I
<1>3. /\ d.rows = RowsOf(X, Z) /\ d.types = Y /\ d.width = w /\ d.script = "runs"
  BY BaseIs
<1>4. d.rows["users"] = X /\ d.rows["print_jobs"] = Z BY <1>3, RowsOfAre
<1> HIDE DEF d
<1> QED BY <1>1, <1>2, <1>3, <1>4

\* If they fit, it is one that the revisions allow,
LEMMA SchemaMade ==
  ASSUME NEW X, NEW Z, NEW statuses, NEW news, NEW w, NEW a, NEW department,
         SchemaParts(X, Z, statuses, news, w, a, department)
  PROVE  SchemaOf(SchemaDb(X, Z, statuses, news, w, a, department), a, department)
<1> DEFINE d == SchemaDb(X, Z, statuses, news, w, a, department)
<1>1. /\ d.rows["users"] = X /\ d.rows["print_jobs"] = Z /\ d.types["job_status"] = statuses
      /\ d.types["notification_type"] = news /\ d.width = w
  BY SchemaDbIs
<1>2. d = DbOf(UserTable(a, department), X, PrinterTable(a), JobTable(a, department), Z,
               LabelsOf(Roles(a), statuses, news), IndexesOf(a), w)
  BY DEF SchemaDb
<1> HIDE DEF d
<1>3. SchemaOf(d, a, department) BY <1>1, <1>2 DEF SchemaOf, SchemaParts
<1> QED BY <1>3 DEF d

\* and every one that they allow is of this form.
LEMMA SchemaTaken ==
  ASSUME NEW d, NEW a, NEW department, SchemaOf(d, a, department)
  PROVE  LET X == d.rows["users"]
             Z == d.rows["print_jobs"]
             statuses == d.types["job_status"]
             news == d.types["notification_type"]
         IN /\ d = SchemaDb(X, Z, statuses, news, d.width, a, department)
            /\ SchemaParts(X, Z, statuses, news, d.width, a, department)
BY DEF SchemaOf, SchemaDb, SchemaParts

\* No user loses the full name.
NamesKept(X, S) == \A r \in X : \E s \in S : Schema!FullName(s) = Schema!FullName(r)

\* Who is left alone keeps the name.
LEMMA NamesStay == ASSUME NEW X PROVE NamesKept(X, X)
BY DEF NamesKept

\* The script takes the database d to one of the revisions b.
GoesTo(script, d, b) ==
  /\ Schema!Run(script, d).script = "runs"
  /\ \E department \in DepartmentNames : SchemaOf(Schema!Run(script, d), b, department)
  /\ NamesKept(d.rows["users"], Schema!Run(script, d).rows["users"])

\* A script goes where it leads, if what it leads to fits and keeps the names.
LEMMA TakesThere ==
  ASSUME NEW X, NEW Z, NEW statuses, NEW news, NEW w, NEW a, NEW department,
         NEW X2, NEW Z2, NEW statuses2, NEW news2, NEW w2, NEW b,
             NEW department2 \in DepartmentNames,
         NEW script,
         Schema!Run(script, SchemaDb(X, Z, statuses, news, w, a, department))
           = SchemaDb(X2, Z2, statuses2, news2, w2, b, department2),
         SchemaParts(X2, Z2, statuses2, news2, w2, b, department2),
         NamesKept(X, X2)
  PROVE  GoesTo(script, SchemaDb(X, Z, statuses, news, w, a, department), b)
<1> DEFINE d == SchemaDb(X, Z, statuses, news, w, a, department)
           e == SchemaDb(X2, Z2, statuses2, news2, w2, b, department2)
<1>1. Schema!Run(script, d) = e OBVIOUS
<1>2. SchemaOf(e, b, department2) BY SchemaMade
<1>3. e.rows["users"] = X2 /\ e.script = "runs" BY SchemaDbIs
<1>4. d.rows["users"] = X BY SchemaDbIs
<1> HIDE DEF d, e
<1>5. GoesTo(script, d, b) BY <1>1, <1>2, <1>3, <1>4 DEF GoesTo
<1> QED BY <1>5 DEF d

\* Nothing else of the schema depends on these revisions.
LEMMA PartsStay ==
  ASSUME NEW a, NEW b, NEW department,
         "0002" \in b <=> "0002" \in a, "0004" \in b <=> "0004" \in a, "0006" \in b <=> "0006" \in a
  PROVE  /\ UserTable(b, department) = UserTable(a, department) /\ Roles(b) = Roles(a)
         /\ PrinterTable(b) = PrinterTable(a) /\ IndexesOf(b) = IndexesOf(a)
BY DEF UserTable, Roles, PrinterTable, IndexesOf

\* A kind of notification more,
LEMMA NewsComes ==
  ASSUME NEW U, NEW X, NEW P, NEW J, NEW Z, NEW I, NEW w, NEW roles, NEW statuses, NEW news,
      NEW label
  PROVE  Schema!Execute(Schema!AddLabel("notification_type", label),
                 DbOf(U, X, P, J, Z, LabelsOf(roles, statuses, news), I, w))
           = DbOf(U, X, P, J, Z, LabelsOf(roles, statuses, news \cup {label}), I, w)
<1> DEFINE Y == LabelsOf(roles, statuses, news)
           T == TablesOf(U, P, J)
           R == RowsOf(X, Z)
           more == news \cup {label}
           Y2 == [Y EXCEPT !["notification_type"] = Y["notification_type"] \cup {label}]
<1>1. Y["notification_type"] = news BY DEF LabelsOf
<1>2. [Y EXCEPT !["notification_type"] = more] = LabelsOf(roles, statuses, more)
  <2> HIDE DEF more
  <2> QED BY DEF LabelsOf
<1> HIDE DEF Y, T, R
<1>3. Schema!Execute(Schema!AddLabel("notification_type", label), Base(T, R, Y, I, w))
    = Base(T, R, Y2, I, w)
  BY AddsLabel
<1>4. Y2 = [Y EXCEPT !["notification_type"] = more] BY <1>1
<1> HIDE DEF Y2
<1> QED BY <1>2, <1>3, <1>4 DEF DbOf, Y, T, R

\* and a status more.
LEMMA StatusComes ==
  ASSUME NEW U, NEW X, NEW P, NEW J, NEW Z, NEW I, NEW w, NEW roles, NEW statuses, NEW news,
      NEW label
  PROVE  Schema!Execute(Schema!AddLabel("job_status", label),
                 DbOf(U, X, P, J, Z, LabelsOf(roles, statuses, news), I, w))
           = DbOf(U, X, P, J, Z, LabelsOf(roles, statuses \cup {label}, news), I, w)
<1> DEFINE Y == LabelsOf(roles, statuses, news)
           T == TablesOf(U, P, J)
           R == RowsOf(X, Z)
           more == statuses \cup {label}
           Y2 == [Y EXCEPT !["job_status"] = Y["job_status"] \cup {label}]
<1>1. Y["job_status"] = statuses BY DEF LabelsOf
<1>2. [Y EXCEPT !["job_status"] = more] = LabelsOf(roles, more, news)
  <2> HIDE DEF more
  <2> QED BY DEF LabelsOf
<1> HIDE DEF Y, T, R
<1>3. Schema!Execute(Schema!AddLabel("job_status", label), Base(T, R, Y, I, w))
    = Base(T, R, Y2, I, w)
  BY AddsLabel
<1>4. Y2 = [Y EXCEPT !["job_status"] = more] BY <1>1
<1> HIDE DEF Y2
<1> QED BY <1>2, <1>3, <1>4 DEF DbOf, Y, T, R

\* upgrade of 0008,
LEMMA PauseUp ==
  ASSUME NEW X, NEW Z, NEW statuses, NEW news, NEW w, NEW a, NEW department \in DepartmentNames,
         SchemaParts(X, Z, statuses, news, w, a, department), "0008" \notin a, "0004" \in a
  PROVE  GoesTo(Schema!AddPause, SchemaDb(X, Z, statuses, news, w, a, department), a \cup {"0008"})
<1> DEFINE b == a \cup {"0008"}
           U == UserTable(a, department)
           P == PrinterTable(a)
           F == JobSpecs(a)
           S == JobColumns(a, department)
           I == IndexesOf(a)
           news1 == news \cup {"job_paused"}
           news2 == news1 \cup {"job_resumed"}
           Y(n) == LabelsOf(Roles(a), statuses, n)
           Z2 == Schema!Added(Z, "paused_at", Schema!NULL)
           d == DbOf(U, X, P, Cut(F, S), Z, Y(news), I, w)
           d1 == DbOf(U, X, P, Cut(F, S), Z, Y(news1), I, w)
           d2 == DbOf(U, X, P, Cut(F, S), Z, Y(news2), I, w)
           d3 == DbOf(U, X, P, Cut(F, S \cup {"paused_at"}), Z2, Y(news2), I, w)
<1>1. d = SchemaDb(X, Z, statuses, news, w, a, department) BY DEF SchemaDb, JobTable
<1>2. Schema!Execute(Schema!AddLabel("notification_type", "job_paused"), d) = d1
  <2> HIDE DEF F, S, U, P, I
  <2> QED BY NewsComes
<1>3. Schema!Execute(Schema!AddLabel("notification_type", "job_resumed"), d1) = d2
  <2> HIDE DEF F, S, U, P, I, news1
  <2> QED BY NewsComes
<1>4. "paused_at" \notin S /\ S \cup {"paused_at"} = JobColumns(b, department) BY PauseComes
<1>5. /\ Schema!Execute(Schema!AddColumn("print_jobs", "paused_at", F["paused_at"]), d2) = d3
      /\ JobRowsOk(Z2, Cut(F, S \cup {"paused_at"}))
  <2>1. F["paused_at"].null /\ F["paused_at"].default = Schema!NULL BY JobSpecsCome
  <2>2. JobRowsOk(Z, Cut(F, S)) BY DEF SchemaParts, JobTable
  <2>3. Awaits \subseteq S BY AwaitsThere
  <2> HIDE DEF F, S, U, P, I, Y
  <2> QED BY <1>4, <2>1, <2>2, <2>3, JobColumnComes
<1>6. F["paused_at"] = Schema!Maybe(Schema!Time) BY JobSpecsAre
<1>7. Len(Schema!AddPause) = 3 /\ Schema!AddPause[1]
    = Schema!AddLabel("notification_type", "job_paused")
      /\ Schema!AddPause[2] = Schema!AddLabel("notification_type", "job_resumed")
      /\ Schema!AddPause[3] = Schema!AddColumn("print_jobs", "paused_at", Schema!Maybe(Schema!Time))
  BY DEF Schema!AddPause, Schema!AddJobColumn
<1>8. Schema!Run(Schema!AddPause, d) = d3
  <2> HIDE DEF F, d, d1, d2, d3
  <2> QED BY <1>2, <1>3, <1>5, <1>6, <1>7, RunsThree
<1>9. d3 = SchemaDb(X, Z2, statuses, news2, w, b, department)
  <2>1. JobSpecs(b) = JobSpecs(a) BY RevisionsAre, JobSpecsStay
  <2>2. /\ UserTable(b, department) = U /\ Roles(b) = Roles(a)
        /\ PrinterTable(b) = P /\ IndexesOf(b) = I
    BY PartsStay
  <2> HIDE DEF U, P, F, S, I, Z2, b
  <2> QED BY <1>4, <2>1, <2>2 DEF SchemaDb, JobTable, F
<1>10. SchemaParts(X, Z2, statuses, news2, w, b, department)
  <2>1. JobSpecs(b) = JobSpecs(a) BY RevisionsAre, JobSpecsStay
  <2>2. UserTable(b, department) = U BY PartsStay
  <2>3. StatusesOf(b, statuses) BY RevisionsAre DEF StatusesOf, SchemaParts
  <2>4. NewsOf(b, news2) BY DEF NewsOf, SchemaParts
  <2>5. WidthOf(b, w) BY DEF WidthOf, SchemaParts
  <2>6. JobRowsOk(Z2, JobTable(b, department)) BY <1>4, <1>5, <2>1 DEF JobTable
  <2>7. UserRowsOk(X, UserTable(b, department)) BY <2>2 DEF SchemaParts
  <2>8. "0003" \in b => department = "department" BY DEF SchemaParts
  <2> HIDE DEF b, news2, Z2
  <2> QED BY <2>3, <2>4, <2>5, <2>6, <2>7, <2>8 DEF SchemaParts
<1>11. Schema!Run(Schema!AddPause, SchemaDb(X, Z, statuses, news, w, a, department))
         = SchemaDb(X, Z2, statuses, news2, w, b, department)
  BY <1>1, <1>8, <1>9
<1> HIDE DEF b, Z2, news2
<1> QED BY <1>10, <1>11, NamesStay, TakesThere DEF b

\* and its downgrade, which leaves the labels.
LEMMA PauseDown ==
  ASSUME NEW X, NEW Z, NEW statuses, NEW news, NEW w, NEW a, NEW department \in DepartmentNames,
         SchemaParts(X, Z, statuses, news, w, a, department), "0008" \in a
  PROVE  GoesTo(Schema!DropPause, SchemaDb(X, Z, statuses, news, w, a, department), a \ {"0008"})
<1> DEFINE b == a \ {"0008"}
           U == UserTable(a, department)
           P == PrinterTable(a)
           F == JobSpecs(a)
           S == JobColumns(a, department)
           I == IndexesOf(a)
           Y == LabelsOf(Roles(a), statuses, news)
           Z2 == Schema!Dropped(Z, "paused_at")
           d == DbOf(U, X, P, Cut(F, S), Z, Y, I, w)
           d1 == DbOf(U, X, P, Cut(F, S \ {"paused_at"}), Z2, Y, I, w)
<1>1. d = SchemaDb(X, Z, statuses, news, w, a, department) BY DEF SchemaDb, JobTable
<1>2. "paused_at" \in S /\ S \ {"paused_at"} = JobColumns(b, department) BY PauseGoes
<1>3. /\ Schema!Execute(Schema!DropColumn("print_jobs", "paused_at"), d) = d1
      /\ JobRowsOk(Z2, Cut(F, S \ {"paused_at"}))
  <2>1. JobRowsOk(Z, Cut(F, S)) BY DEF SchemaParts, JobTable
  <2>2. Awaits \subseteq S /\ "paused_at" \notin Awaits BY AwaitsThere DEF Awaits
  <2> HIDE DEF F, S, U, P, I, Y
  <2> QED BY <1>2, <2>1, <2>2, JobColumnGoes
<1>4. Len(Schema!DropPause) = 1 /\ Schema!DropPause[1]
    = Schema!DropColumn("print_jobs", "paused_at")
  BY DEF Schema!DropPause, Schema!DropJobColumn
<1>5. Schema!Run(Schema!DropPause, d) = d1
  <2> HIDE DEF d, d1
  <2> QED BY <1>3, <1>4, RunsOne
<1>6. JobSpecs(b) = F BY RevisionsAre, JobSpecsStay
<1>7. /\ UserTable(b, department) = U /\ Roles(b) = Roles(a)
      /\ PrinterTable(b) = P /\ IndexesOf(b) = I
  BY PartsStay
<1>8. d1 = SchemaDb(X, Z2, statuses, news, w, b, department)
  <2> HIDE DEF U, P, F, S, I, Z2, b
  <2> QED BY <1>2, <1>6, <1>7 DEF SchemaDb, JobTable
<1>9. SchemaParts(X, Z2, statuses, news, w, b, department)
  <2>1. StatusesOf(b, statuses) BY DEF StatusesOf, SchemaParts
  <2>2. NewsOf(b, news) BY DEF NewsOf, SchemaParts
  <2>3. WidthOf(b, w) BY DEF WidthOf, SchemaParts
  <2>4. JobRowsOk(Z2, JobTable(b, department)) BY <1>2, <1>3, <1>6 DEF JobTable
  <2>5. UserRowsOk(X, UserTable(b, department)) BY <1>7 DEF SchemaParts
  <2>6. "0003" \in b => department = "department" BY DEF SchemaParts
  <2> HIDE DEF b, Z2
  <2> QED BY <2>1, <2>2, <2>3, <2>4, <2>5, <2>6 DEF SchemaParts
<1>10. Schema!Run(Schema!DropPause, SchemaDb(X, Z, statuses, news, w, a, department))
         = SchemaDb(X, Z2, statuses, news, w, b, department)
  BY <1>1, <1>5, <1>8
<1> HIDE DEF b, Z2
<1> QED BY <1>9, <1>10, NamesStay, TakesThere DEF b

\* upgrade of 0009, whose downgrade is empty.
LEMMA SubmittedUp ==
  ASSUME NEW X, NEW Z, NEW statuses, NEW news, NEW w, NEW a, NEW department \in DepartmentNames,
         SchemaParts(X, Z, statuses, news, w, a, department), "0004" \in a
  PROVE  GoesTo(Schema!AddSubmitted, SchemaDb(X, Z, statuses, news, w, a, department),
      a \cup {"0009"})
<1> DEFINE b == a \cup {"0009"}
           U == UserTable(a, department)
           P == PrinterTable(a)
           J == JobTable(a, department)
           I == IndexesOf(a)
           news1 == news \cup {"job_submitted"}
           d == DbOf(U, X, P, J, Z, LabelsOf(Roles(a), statuses, news), I, w)
           d1 == DbOf(U, X, P, J, Z, LabelsOf(Roles(a), statuses, news1), I, w)
<1>1. d = SchemaDb(X, Z, statuses, news, w, a, department) BY DEF SchemaDb
<1>2. Schema!Execute(Schema!AddLabel("notification_type", "job_submitted"), d) = d1
  <2> HIDE DEF J, U, P, I
  <2> QED BY NewsComes
<1>3. Len(Schema!AddSubmitted) = 1 /\ Schema!AddSubmitted[1]
    = Schema!AddLabel("notification_type", "job_submitted")
  BY DEF Schema!AddSubmitted
<1>4. Schema!Run(Schema!AddSubmitted, d) = d1
  <2> HIDE DEF d, d1
  <2> QED BY <1>2, <1>3, RunsOne
<1>5. JobTable(b, department) = J
  <2>1. JobSpecs(b) = JobSpecs(a) BY RevisionsAre, JobSpecsStay
  <2>2. JobColumns(b, department) = JobColumns(a, department) BY ColumnsStay
  <2> QED BY <2>1, <2>2 DEF JobTable
<1>6. /\ UserTable(b, department) = U /\ Roles(b) = Roles(a)
      /\ PrinterTable(b) = P /\ IndexesOf(b) = I
  BY PartsStay
<1>7. d1 = SchemaDb(X, Z, statuses, news1, w, b, department)
  <2> HIDE DEF U, P, J, I, b, news1
  <2> QED BY <1>5, <1>6 DEF SchemaDb
<1>8. SchemaParts(X, Z, statuses, news1, w, b, department)
  <2>1. StatusesOf(b, statuses) BY RevisionsAre DEF StatusesOf, SchemaParts
  <2>2. NewsOf(b, news1) BY DEF NewsOf, SchemaParts
  <2>3. WidthOf(b, w) BY DEF WidthOf, SchemaParts
  <2>4. JobRowsOk(Z, JobTable(b, department)) BY <1>5 DEF SchemaParts
  <2>5. UserRowsOk(X, UserTable(b, department)) BY <1>6 DEF SchemaParts
  <2>6. "0003" \in b => department = "department" BY DEF SchemaParts
  <2> HIDE DEF b, news1
  <2> QED BY <2>1, <2>2, <2>3, <2>4, <2>5, <2>6 DEF SchemaParts
<1>9. Schema!Run(Schema!AddSubmitted, SchemaDb(X, Z, statuses, news, w, a, department))
        = SchemaDb(X, Z, statuses, news1, w, b, department)
  BY <1>1, <1>4, <1>7
<1> HIDE DEF b, news1
<1> QED BY <1>8, <1>9, NamesStay, TakesThere DEF b

\* The revisions that merge, and what is not taken back of the labels.
LabelsStay(a, b, r) ==
  r \in {"0007", "0009"} /\ b \in {a \ {r}, a \cup {r}} /\ (r = "0009" => b = a \ {r})

\* A revision with nothing to do, where the labels there are still fit.
LEMMA NothingTakes ==
  ASSUME NEW X, NEW Z, NEW statuses, NEW news, NEW w, NEW a, NEW department \in DepartmentNames,
         SchemaParts(X, Z, statuses, news, w, a, department), "0004" \in a,
         NEW r, NEW b, LabelsStay(a, b, r)
  PROVE  GoesTo(<<>>, SchemaDb(X, Z, statuses, news, w, a, department), b)
<1> DEFINE d == SchemaDb(X, Z, statuses, news, w, a, department)
<1>0. r # "0002" /\ r # Schema!Timing /\ r # Schema!Upload /\ r # "0006" /\ r # "0008"
    /\ r # "0004" /\ r # "0003"
  BY RevisionsAre DEF LabelsStay
<1>a. /\ "0002" \in b <=> "0002" \in a
      /\ Schema!Timing \in b <=> Schema!Timing \in a
      /\ Schema!Upload \in b <=> Schema!Upload \in a
      /\ "0006" \in b <=> "0006" \in a
      /\ "0008" \in b <=> "0008" \in a
      /\ "0004" \in b <=> "0004" \in a
      /\ "0003" \in b <=> "0003" \in a
  BY <1>0 DEF LabelsStay
<1>b. "0009" \in b => "0009" \in a BY DEF LabelsStay
<1>1. Schema!Run(<<>>, d) = d
  <2> HIDE DEF d
  <2> QED BY RunsNone
<1>2. JobTable(b, department) = JobTable(a, department)
  <2>1. JobSpecs(b) = JobSpecs(a) BY <1>a, JobSpecsStay
  <2>2. JobColumns(b, department) = JobColumns(a, department) BY <1>a DEF JobColumns
  <2> QED BY <2>1, <2>2 DEF JobTable
<1>3. /\ UserTable(b, department) = UserTable(a, department) /\ Roles(b) = Roles(a)
      /\ PrinterTable(b) = PrinterTable(a) /\ IndexesOf(b) = IndexesOf(a)
  BY <1>a, PartsStay
<1>4. d = SchemaDb(X, Z, statuses, news, w, b, department)
  BY <1>2, <1>3 DEF SchemaDb
<1>5. SchemaParts(X, Z, statuses, news, w, b, department)
  <2>1. StatusesOf(b, statuses) BY <1>a DEF StatusesOf, SchemaParts
  <2>2. NewsOf(b, news) BY <1>a, <1>b DEF NewsOf, SchemaParts
  <2>3. WidthOf(b, w)
    <3>1. w = 255 BY DEF WidthOf, SchemaParts
    <3> QED BY <3>1 DEF WidthOf
  <2>4. JobRowsOk(Z, JobTable(b, department)) BY <1>2 DEF SchemaParts
  <2>5. UserRowsOk(X, UserTable(b, department)) BY <1>3 DEF SchemaParts
  <2>6. "0003" \in b => department = "department" BY <1>a DEF SchemaParts
  <2> QED BY <2>1, <2>2, <2>3, <2>4, <2>5, <2>6 DEF SchemaParts
<1>6. Schema!Run(<<>>, SchemaDb(X, Z, statuses, news, w, a, department))
        = SchemaDb(X, Z, statuses, news, w, b, department)
  BY <1>1, <1>4
<1> QED BY <1>5, <1>6, NamesStay, TakesThere

\* upgrade of 0005 of the timing,
LEMMA TimingUp ==
  ASSUME NEW X, NEW Z, NEW statuses, NEW news, NEW w, NEW a, NEW department \in DepartmentNames,
         SchemaParts(X, Z, statuses, news, w, a, department), Schema!Timing \notin a, "0004" \in a
  PROVE  GoesTo(Schema!AddTiming, SchemaDb(X, Z, statuses, news, w, a, department),
      a \cup {Schema!Timing})
<1> DEFINE b == a \cup {Schema!Timing}
           U == UserTable(a, department)
           P == PrinterTable(a)
           F == JobSpecs(a)
           S == JobColumns(a, department)
           S1 == S \cup {"started_at"}
           S2 == S1 \cup {"est_start_at"}
           S3 == S2 \cup {"est_completion_at"}
           I == IndexesOf(a)
           Y == LabelsOf(Roles(a), statuses, news)
           Z1 == Schema!Added(Z, "started_at", Schema!NULL)
           Z2 == Schema!Added(Z1, "est_start_at", Schema!NULL)
           Z9 == Schema!Added(Z2, "est_completion_at", Schema!NULL)
           d == DbOf(U, X, P, Cut(F, S), Z, Y, I, w)
           d1 == DbOf(U, X, P, Cut(F, S1), Z1, Y, I, w)
           d2 == DbOf(U, X, P, Cut(F, S2), Z2, Y, I, w)
           d3 == DbOf(U, X, P, Cut(F, S3), Z9, Y, I, w)
<1>1. d = SchemaDb(X, Z, statuses, news, w, a, department) BY DEF SchemaDb, JobTable
<1>2. /\ "started_at" \notin S /\ "est_start_at" \notin S1 /\ "est_completion_at" \notin S2
      /\ S3 = JobColumns(b, department)
  BY TimesCome
<1>3. /\ F["started_at"].null /\ F["started_at"].default = Schema!NULL
      /\ F["est_start_at"].null /\ F["est_start_at"].default = Schema!NULL
      /\ F["est_completion_at"].null /\ F["est_completion_at"].default = Schema!NULL
  BY JobSpecsCome
<1>4. Awaits \subseteq S /\ Awaits \subseteq S1 /\ Awaits \subseteq S2
  <2>1. Awaits \subseteq S BY AwaitsThere
  <2> HIDE DEF S
  <2> QED BY <2>1
<1>5. JobRowsOk(Z, Cut(F, S)) BY DEF SchemaParts, JobTable
<1>6. /\ Schema!Execute(Schema!AddColumn("print_jobs", "started_at", F["started_at"]), d) = d1
      /\ JobRowsOk(Z1, Cut(F, S1))
  <2> HIDE DEF F, S, U, P, I, Y
  <2> QED BY <1>2, <1>3, <1>4, <1>5, JobColumnComes
<1>7. /\ Schema!Execute(Schema!AddColumn("print_jobs", "est_start_at", F["est_start_at"]), d1) = d2
      /\ JobRowsOk(Z2, Cut(F, S2))
  <2> HIDE DEF F, S1, U, P, I, Y, Z1
  <2> QED BY <1>2, <1>3, <1>4, <1>6, JobColumnComes
<1>8. /\ Schema!Execute(Schema!AddColumn("print_jobs", "est_completion_at",
         F["est_completion_at"]), d2) = d3
      /\ JobRowsOk(Z9, Cut(F, S3))
  <2> HIDE DEF F, S2, U, P, I, Y, Z2
  <2> QED BY <1>2, <1>3, <1>4, <1>7, JobColumnComes
<1>9. /\ F["started_at"] = Schema!Maybe(Schema!Time)
         /\ F["est_start_at"] = Schema!Maybe(Schema!Time)
      /\ F["est_completion_at"] = Schema!Maybe(Schema!Time)
  BY JobSpecsAre
<1>10. /\ Len(Schema!AddTiming) = 3 /\ Schema!AddTiming[1]
          = Schema!AddColumn("print_jobs", "started_at", Schema!Maybe(Schema!Time))
       /\ Schema!AddTiming[2] = Schema!AddColumn("print_jobs", "est_start_at",
           Schema!Maybe(Schema!Time))
       /\ Schema!AddTiming[3] = Schema!AddColumn("print_jobs", "est_completion_at",
           Schema!Maybe(Schema!Time))
  BY DEF Schema!AddTiming, Schema!AddJobColumn, Schema!Each, Schema!TimingColumns
<1>11. Schema!Run(Schema!AddTiming, d) = d3
  <2> HIDE DEF F, d, d1, d2, d3
  <2> QED BY <1>6, <1>7, <1>8, <1>9, <1>10, RunsThree
<1>12. JobSpecs(b) = F BY RevisionsAre, JobSpecsStay
<1>13. /\ UserTable(b, department) = U /\ Roles(b) = Roles(a)
       /\ PrinterTable(b) = P /\ IndexesOf(b) = I
  BY RevisionsAre, PartsStay
<1>14. d3 = SchemaDb(X, Z9, statuses, news, w, b, department)
  <2> HIDE DEF U, P, F, S3, I, Z9, b
  <2> QED BY <1>2, <1>12, <1>13 DEF SchemaDb, JobTable
<1>15. SchemaParts(X, Z9, statuses, news, w, b, department)
  <2>1. StatusesOf(b, statuses) BY RevisionsAre DEF StatusesOf, SchemaParts
  <2>2. NewsOf(b, news) BY RevisionsAre DEF NewsOf, SchemaParts
  <2>3. WidthOf(b, w) BY DEF WidthOf, SchemaParts
  <2>4. JobRowsOk(Z9, JobTable(b, department)) BY <1>2, <1>8, <1>12 DEF JobTable
  <2>5. UserRowsOk(X, UserTable(b, department)) BY <1>13 DEF SchemaParts
  <2>6. "0003" \in b => department = "department" BY RevisionsAre DEF SchemaParts
  <2> HIDE DEF b, Z9
  <2> QED BY <2>1, <2>2, <2>3, <2>4, <2>5, <2>6 DEF SchemaParts
<1>16. Schema!Run(Schema!AddTiming, SchemaDb(X, Z, statuses, news, w, a, department))
         = SchemaDb(X, Z9, statuses, news, w, b, department)
  BY <1>1, <1>11, <1>14
<1> HIDE DEF b, Z9
<1> QED BY <1>15, <1>16, NamesStay, TakesThere DEF b

\* and its downgrade.
LEMMA TimingDown ==
  ASSUME NEW X, NEW Z, NEW statuses, NEW news, NEW w, NEW a, NEW department \in DepartmentNames,
         SchemaParts(X, Z, statuses, news, w, a, department), Schema!Timing \in a
  PROVE  GoesTo(Schema!DropTiming, SchemaDb(X, Z, statuses, news, w, a, department),
      a \ {Schema!Timing})
<1> DEFINE b == a \ {Schema!Timing}
           U == UserTable(a, department)
           P == PrinterTable(a)
           F == JobSpecs(a)
           S == JobColumns(a, department)
           S1 == S \ {"est_completion_at"}
           S2 == S1 \ {"est_start_at"}
           S3 == S2 \ {"started_at"}
           I == IndexesOf(a)
           Y == LabelsOf(Roles(a), statuses, news)
           Z1 == Schema!Dropped(Z, "est_completion_at")
           Z2 == Schema!Dropped(Z1, "est_start_at")
           Z9 == Schema!Dropped(Z2, "started_at")
           d == DbOf(U, X, P, Cut(F, S), Z, Y, I, w)
           d1 == DbOf(U, X, P, Cut(F, S1), Z1, Y, I, w)
           d2 == DbOf(U, X, P, Cut(F, S2), Z2, Y, I, w)
           d3 == DbOf(U, X, P, Cut(F, S3), Z9, Y, I, w)
<1>1. d = SchemaDb(X, Z, statuses, news, w, a, department) BY DEF SchemaDb, JobTable
<1>2. /\ "est_completion_at" \in S /\ "est_start_at" \in S1 /\ "started_at" \in S2
      /\ S3 = JobColumns(b, department)
  BY TimesGo
<1>3. "est_completion_at" \notin Awaits /\ "est_start_at" \notin Awaits
    /\ "started_at" \notin Awaits
  BY DEF Awaits
<1>4. Awaits \subseteq S /\ Awaits \subseteq S1 /\ Awaits \subseteq S2
  <2>1. Awaits \subseteq S BY AwaitsThere
  <2> HIDE DEF S
  <2> QED BY <2>1, <1>3
<1>5. JobRowsOk(Z, Cut(F, S)) BY DEF SchemaParts, JobTable
<1>6. /\ Schema!Execute(Schema!DropColumn("print_jobs", "est_completion_at"), d) = d1
      /\ JobRowsOk(Z1, Cut(F, S1))
  <2> HIDE DEF F, S, U, P, I, Y
  <2> QED BY <1>2, <1>3, <1>4, <1>5, JobColumnGoes
<1>7. /\ Schema!Execute(Schema!DropColumn("print_jobs", "est_start_at"), d1) = d2
      /\ JobRowsOk(Z2, Cut(F, S2))
  <2> HIDE DEF F, S1, U, P, I, Y, Z1
  <2> QED BY <1>2, <1>3, <1>4, <1>6, JobColumnGoes
<1>8. /\ Schema!Execute(Schema!DropColumn("print_jobs", "started_at"), d2) = d3
      /\ JobRowsOk(Z9, Cut(F, S3))
  <2> HIDE DEF F, S2, U, P, I, Y, Z2
  <2> QED BY <1>2, <1>3, <1>4, <1>7, JobColumnGoes
<1>10. /\ Len(Schema!DropTiming) = 3 /\ Schema!DropTiming[1]
          = Schema!DropColumn("print_jobs", "est_completion_at")
       /\ Schema!DropTiming[2] = Schema!DropColumn("print_jobs", "est_start_at")
       /\ Schema!DropTiming[3] = Schema!DropColumn("print_jobs", "started_at")
  <2>1. Schema!Reverse(Schema!TimingColumns) = <<"est_completion_at", "est_start_at", "started_at">>
    BY DEF Schema!TimingColumns, Schema!Reverse
  <2>2. Schema!DropTiming = Schema!Each(Schema!DropJobColumn,
      <<"est_completion_at", "est_start_at", "started_at">>)
    BY <2>1 DEF Schema!DropTiming
  <2> QED BY <2>2 DEF Schema!DropJobColumn, Schema!Each
<1>11. Schema!Run(Schema!DropTiming, d) = d3
  <2> HIDE DEF d, d1, d2, d3
  <2> QED BY <1>6, <1>7, <1>8, <1>10, RunsThree
<1>12. JobSpecs(b) = F BY RevisionsAre, JobSpecsStay
<1>13. /\ UserTable(b, department) = U /\ Roles(b) = Roles(a)
       /\ PrinterTable(b) = P /\ IndexesOf(b) = I
  BY RevisionsAre, PartsStay
<1>14. d3 = SchemaDb(X, Z9, statuses, news, w, b, department)
  <2> HIDE DEF U, P, F, S3, I, Z9, b
  <2> QED BY <1>2, <1>12, <1>13 DEF SchemaDb, JobTable
<1>15. SchemaParts(X, Z9, statuses, news, w, b, department)
  <2>1. StatusesOf(b, statuses) BY RevisionsAre DEF StatusesOf, SchemaParts
  <2>2. NewsOf(b, news) BY RevisionsAre DEF NewsOf, SchemaParts
  <2>3. WidthOf(b, w) BY DEF WidthOf, SchemaParts
  <2>4. JobRowsOk(Z9, JobTable(b, department)) BY <1>2, <1>8, <1>12 DEF JobTable
  <2>5. UserRowsOk(X, UserTable(b, department)) BY <1>13 DEF SchemaParts
  <2>6. "0003" \in b => department = "department" BY RevisionsAre DEF SchemaParts
  <2> HIDE DEF b, Z9
  <2> QED BY <2>1, <2>2, <2>3, <2>4, <2>5, <2>6 DEF SchemaParts
<1>16. Schema!Run(Schema!DropTiming, SchemaDb(X, Z, statuses, news, w, a, department))
         = SchemaDb(X, Z9, statuses, news, w, b, department)
  BY <1>1, <1>11, <1>14
<1> HIDE DEF b, Z9
<1> QED BY <1>15, <1>16, NamesStay, TakesThere DEF b

\* A field set back is as it was.
LEMMA ThereAndBack ==
  ASSUME NEW m, NEW n \in DOMAIN m, NEW u, NEW v, m = [c \in DOMAIN m |-> m[c]], m[n] = v
  PROVE  [[m EXCEPT ![n] = u] EXCEPT ![n] = v] = m
OBVIOUS

\* So is a reference that may be NULL, and then may not,
LEMMA RefMaybe ==
  ASSUME NEW t
  PROVE  [Schema!Maybe(Schema!Ref(t)) EXCEPT !.null = FALSE] = Schema!Ref(t)
<1> DEFINE m == Schema!Ref(t)
           no == FALSE
           yes == TRUE
<1>1. m = [c \in DOMAIN m |-> m[c]] /\ "null" \in DOMAIN m BY DEF Schema!Ref, Schema!Col
<1>2. m["null"] = no BY DEF Schema!Ref, Schema!Col
<1> HIDE DEF m, yes, no
<1>3. [[m EXCEPT !["null"] = yes] EXCEPT !["null"] = no] = m BY <1>1, <1>2, ThereAndBack
<1> QED BY <1>3 DEF m, yes, no, Schema!Maybe

\* and a text.
LEMMA TextMaybe == [Schema!Maybe(Schema!Text) EXCEPT !.null = FALSE] = Schema!Text
<1> DEFINE m == Schema!Text
           no == FALSE
           yes == TRUE
<1>1. m = [c \in DOMAIN m |-> m[c]] /\ "null" \in DOMAIN m BY DEF Schema!Text, Schema!Col
<1>2. m["null"] = no BY DEF Schema!Text, Schema!Col
<1> HIDE DEF m, yes, no
<1>3. [[m EXCEPT !["null"] = yes] EXCEPT !["null"] = no] = m BY <1>1, <1>2, ThereAndBack
<1> QED BY <1>3 DEF m, yes, no, Schema!Maybe

JobNames == DOMAIN Schema!PrintJob \cup {"queue_position", "unit_code"}

\* No revision has a column that is not among the jobs' names.
LEMMA JobColumnsKnown ==
  ASSUME NEW a, NEW department \in DepartmentNames
  PROVE  JobColumns(a, department) \subseteq JobNames
<1>1. department \in JobNames BY DEF DepartmentNames, JobNames, Schema!PrintJob
<1>2. JobCore \subseteq JobNames BY DEF JobCore, JobNames, Schema!PrintJob
<1>3. {"queue_position", "started_at", "est_start_at", "est_completion_at", "original_filename",
       "printer_job_id", "paused_at"} \subseteq JobNames
  BY DEF JobNames, Schema!PrintJob
<1> QED BY <1>1, <1>2, <1>3, JobColumnsAre

\* The definitions differ in the material alone,
LEMMA OnlyMaterialDiffers ==
  ASSUME NEW a, NEW b, NEW c \in JobNames, c # "material_id"
  PROVE  JobSpecs(a)[c] = JobSpecs(b)[c]
BY DEF JobSpecs, JobNames

\* What the revision of uploads makes of the jobs' material.
LEMMA MaterialIs ==
  ASSUME NEW a, NEW b, Schema!Upload \notin a, Schema!Upload \in b, NEW S \in SUBSET JobNames,
      "material_id" \in S
  PROVE  /\ NullSet(Cut(JobSpecs(a), S), "material_id", TRUE) = Cut(JobSpecs(b), S)
         /\ NullSet(Cut(JobSpecs(b), S), "material_id", FALSE) = Cut(JobSpecs(a), S)
<1>1. \A c \in S : c # "material_id" => JobSpecs(a)[c] = JobSpecs(b)[c]
  BY OnlyMaterialDiffers
<1>2. /\ [Schema!Ref("materials") EXCEPT !.null = TRUE] = Schema!Maybe(Schema!Ref("materials"))
      /\ [Schema!Maybe(Schema!Ref("materials")) EXCEPT !.null = FALSE] = Schema!Ref("materials")
  <2>1. [Schema!Ref("materials") EXCEPT !.null = TRUE] = Schema!Maybe(Schema!Ref("materials"))
    BY DEF Schema!Maybe
  <2> QED BY <2>1, RefMaybe
<1>3. /\ JobSpecs(a)["material_id"] = Schema!Ref("materials")
      /\ JobSpecs(b)["material_id"] = Schema!Maybe(Schema!Ref("materials"))
  BY JobSpecsAre
<1> DEFINE A == JobSpecs(a)
           B == JobSpecs(b)
<1> HIDE DEF A, B
<1>4. NullSet(Cut(A, S), "material_id", TRUE) = Cut(B, S)
  BY <1>1, <1>2, <1>3 DEF NullSet, Cut, A, B
<1>5. NullSet(Cut(B, S), "material_id", FALSE) = Cut(A, S)
  BY <1>1, <1>2, <1>3 DEF NullSet, Cut, A, B
<1> QED BY <1>4, <1>5 DEF A, B

\* so the rows fit both if each job has one.
LEMMA MaterialRows ==
  ASSUME NEW a, NEW b, Schema!Upload \notin a, Schema!Upload \in b, NEW S \in SUBSET JobNames,
      "material_id" \in S, NEW Z
  PROVE  /\ JobRowsOk(Z, Cut(JobSpecs(a), S)) => JobRowsOk(Z, Cut(JobSpecs(b), S))
         /\ JobRowsOk(Z, Cut(JobSpecs(b), S)) /\ (\A r \in Z : r.material_id # Schema!NULL)
              => JobRowsOk(Z, Cut(JobSpecs(a), S))
<1> DEFINE M == Cut(JobSpecs(a), S)
           N == Cut(JobSpecs(b), S)
<1>1. \A c \in S : c # "material_id" => JobSpecs(a)[c] = JobSpecs(b)[c]
  BY OnlyMaterialDiffers
<1>2. JobSpecs(b)["material_id"].null BY JobSpecsAre, RefsOf
<1>3. /\ DOMAIN M = S /\ DOMAIN N = S
      /\ \A c \in S : M[c].null => N[c].null
      /\ \A c \in S : N[c].null => M[c].null \/ c = "material_id"
  BY <1>1, <1>2 DEF Cut
<1> HIDE DEF M, N
<1>4. JobRowsOk(Z, M) => JobRowsOk(Z, N)
  BY <1>3, RowStays DEF JobRowsOk
<1>5. JobRowsOk(Z, N) /\ (\A r \in Z : r.material_id # Schema!NULL) => JobRowsOk(Z, M)
  BY <1>3, RowStays DEF JobRowsOk
<1> QED BY <1>4, <1>5 DEF M, N

\* upgrade of 0005 of the uploads: a job need not have a material.
LEMMA UploadUp ==
  ASSUME NEW X, NEW Z, NEW statuses, NEW news, NEW w, NEW a, NEW department \in DepartmentNames,
         SchemaParts(X, Z, statuses, news, w, a, department), Schema!Upload \notin a, "0004" \in a
  PROVE  GoesTo(Schema!AddUpload, SchemaDb(X, Z, statuses, news, w, a, department),
      a \cup {Schema!Upload})
<1> DEFINE b == a \cup {Schema!Upload}
           U == UserTable(a, department)
           P == PrinterTable(a)
           F == JobSpecs(a)
           G == JobSpecs(b)
           S == JobColumns(a, department)
           S1 == S \cup {"original_filename"}
           I == IndexesOf(a)
           more == statuses \cup {"pending_selection"}
           Y == LabelsOf(Roles(a), more, news)
           Z1 == Schema!Added(Z, "original_filename", Schema!NULL)
           d == DbOf(U, X, P, Cut(F, S), Z, LabelsOf(Roles(a), statuses, news), I, w)
           d1 == DbOf(U, X, P, Cut(F, S), Z, Y, I, w)
           d2 == DbOf(U, X, P, Cut(G, S), Z, Y, I, w)
           d3 == DbOf(U, X, P, Cut(G, S1), Z1, Y, I, w)
<1>1. d = SchemaDb(X, Z, statuses, news, w, a, department) BY DEF SchemaDb, JobTable
<1>2. "original_filename" \notin S /\ S1 = JobColumns(b, department) BY FilenameComes
<1>3. Schema!Execute(Schema!AddLabel("job_status", "pending_selection"), d) = d1
  <2> HIDE DEF F, S, U, P, I
  <2> QED BY StatusComes
<1>4. Awaits \subseteq S /\ "material_id" \in S /\ S \subseteq JobNames
  BY AwaitsThere, JobColumnsKnown DEF Awaits
<1>5. /\ NullSet(Cut(F, S), "material_id", TRUE) = Cut(G, S)
      /\ JobRowsOk(Z, Cut(F, S)) => JobRowsOk(Z, Cut(G, S))
  <2> HIDE DEF S
  <2>1. S \in SUBSET JobNames /\ Schema!Upload \in b BY <1>4
  <2> HIDE DEF b
  <2>2. NullSet(Cut(F, S), "material_id", TRUE) = Cut(G, S) BY <1>4, <2>1, MaterialIs
  <2>3. JobRowsOk(Z, Cut(F, S)) => JobRowsOk(Z, Cut(G, S)) BY <1>4, <2>1, MaterialRows
  <2> QED BY <2>2, <2>3
<1>6. JobRowsOk(Z, Cut(F, S)) BY DEF SchemaParts, JobTable
<1>7. Schema!Execute(Schema!SetNull("print_jobs", "material_id", TRUE), d1) = d2
  <2> DEFINE M == Cut(F, S)
  <2>1. "material_id" \in DOMAIN M BY <1>4 DEF Cut
  <2>2. NullSet(M, "material_id", TRUE) = Cut(G, S) BY <1>5
  <2> DEFINE yes == TRUE
  <2>3. yes \/ \A r \in Z : r["material_id"] # Schema!NULL OBVIOUS
  <2> HIDE DEF M, U, P, I, Y, G, S, yes
  <2>4. Schema!Execute(Schema!SetNull("print_jobs", "material_id", yes),
      DbOf(U, X, P, M, Z, Y, I, w))
          = DbOf(U, X, P, NullSet(M, "material_id", yes), Z, Y, I, w)
    BY <2>1, <2>3, JobsSetNull
  <2> QED BY <2>2, <2>4 DEF M, yes
<1>8. G["original_filename"].null /\ G["original_filename"].default = Schema!NULL
      /\ G["original_filename"] = Schema!Maybe(Schema!Text)
  BY JobSpecsCome, JobSpecsAre
<1>9. /\ Schema!Execute(Schema!AddColumn("print_jobs", "original_filename",
         G["original_filename"]), d2) = d3
      /\ JobRowsOk(Z1, Cut(G, S1))
  <2> HIDE DEF G, S, U, P, I, Y
  <2> QED BY <1>2, <1>4, <1>5, <1>6, <1>8, JobColumnComes
<1>10. /\ Len(Schema!AddUpload) = 3 /\ Schema!AddUpload[1]
          = Schema!AddLabel("job_status", "pending_selection")
       /\ Schema!AddUpload[2] = Schema!SetNull("print_jobs", "material_id", TRUE)
       /\ Schema!AddUpload[3] = Schema!AddColumn("print_jobs", "original_filename",
           Schema!Maybe(Schema!Text))
  BY DEF Schema!AddUpload
<1>11. Schema!Run(Schema!AddUpload, d) = d3
  <2> DEFINE k == Schema!SetNull("print_jobs", "material_id", TRUE)
  <2>1. Schema!Execute(k, d1) = d2 /\ Schema!AddUpload[2] = k BY <1>7, <1>10
  <2>2. /\ Len(Schema!AddUpload) = 3 /\ Schema!AddUpload[1]
           = Schema!AddLabel("job_status", "pending_selection")
        /\ Schema!AddUpload[3] = Schema!AddColumn("print_jobs", "original_filename",
            G["original_filename"])
    BY <1>8, <1>10
  <2>3. Schema!Execute(Schema!AddColumn("print_jobs", "original_filename",
      G["original_filename"]), d2) = d3
    BY <1>9
  <2> HIDE DEF G, d, d1, d2, d3, k
  <2> QED BY <2>1, <2>2, <2>3, <1>3, RunsThree
<1>13. /\ UserTable(b, department) = U /\ Roles(b) = Roles(a)
       /\ PrinterTable(b) = P /\ IndexesOf(b) = I
  BY RevisionsAre, PartsStay
<1>14. d3 = SchemaDb(X, Z1, more, news, w, b, department)
  <2> HIDE DEF U, P, S1, I, Z1, b, more
  <2> QED BY <1>2, <1>13 DEF SchemaDb, JobTable
<1>15. SchemaParts(X, Z1, more, news, w, b, department)
  <2>1. StatusesOf(b, more) BY DEF StatusesOf, SchemaParts
  <2>2. NewsOf(b, news) BY RevisionsAre DEF NewsOf, SchemaParts
  <2>3. WidthOf(b, w) BY DEF WidthOf, SchemaParts
  <2>4. JobRowsOk(Z1, JobTable(b, department)) BY <1>2, <1>9 DEF JobTable
  <2>5. UserRowsOk(X, UserTable(b, department)) BY <1>13 DEF SchemaParts
  <2>6. "0003" \in b => department = "department" BY RevisionsAre DEF SchemaParts
  <2> HIDE DEF b, Z1, more
  <2> QED BY <2>1, <2>2, <2>3, <2>4, <2>5, <2>6 DEF SchemaParts
<1>16. Schema!Run(Schema!AddUpload, SchemaDb(X, Z, statuses, news, w, a, department))
         = SchemaDb(X, Z1, more, news, w, b, department)
  BY <1>1, <1>11, <1>14
<1> HIDE DEF b, Z1, more
<1> QED BY <1>15, <1>16, NamesStay, TakesThere DEF b

\* The one that may be refused: a job without a material does not let the column be
\* NOT NULL again.
LEMMA UploadDown ==
  ASSUME NEW X, NEW Z, NEW statuses, NEW news, NEW w, NEW a, NEW department \in DepartmentNames,
         SchemaParts(X, Z, statuses, news, w, a, department), Schema!Upload \in a,
         \A r \in Z : r.material_id # Schema!NULL
  PROVE  GoesTo(Schema!DropUpload, SchemaDb(X, Z, statuses, news, w, a, department),
      a \ {Schema!Upload})
<1> DEFINE b == a \ {Schema!Upload}
           U == UserTable(a, department)
           P == PrinterTable(a)
           F == JobSpecs(a)
           G == JobSpecs(b)
           S == JobColumns(a, department)
           S1 == S \ {"original_filename"}
           I == IndexesOf(a)
           Y == LabelsOf(Roles(a), statuses, news)
           Z1 == Schema!Dropped(Z, "original_filename")
           d == DbOf(U, X, P, Cut(F, S), Z, Y, I, w)
           d1 == DbOf(U, X, P, Cut(F, S1), Z1, Y, I, w)
           d2 == DbOf(U, X, P, Cut(G, S1), Z1, Y, I, w)
<1>1. d = SchemaDb(X, Z, statuses, news, w, a, department) BY DEF SchemaDb, JobTable
<1>2. "original_filename" \in S /\ S1 = JobColumns(b, department) BY FilenameGoes
<1>3. "original_filename" \notin Awaits /\ "material_id" \in Awaits BY DEF Awaits
<1>4. Awaits \subseteq S /\ Awaits \subseteq S1 /\ S1 \subseteq JobNames
  <2>1. Awaits \subseteq S /\ S \subseteq JobNames BY AwaitsThere, JobColumnsKnown
  <2> HIDE DEF S
  <2> QED BY <2>1, <1>3
<1>5. JobRowsOk(Z, Cut(F, S)) BY DEF SchemaParts, JobTable
<1>6. /\ Schema!Execute(Schema!DropColumn("print_jobs", "original_filename"), d) = d1
      /\ JobRowsOk(Z1, Cut(F, S1))
  <2>1. "original_filename" \in S /\ "original_filename" \notin Awaits /\ Awaits \subseteq S
    BY <1>2, <1>3, <1>4
  <2> HIDE DEF F, S, U, P, I, Y
  <2> QED BY <2>1, <1>5, JobColumnGoes
<1>7. \A r \in Z1 : r.material_id # Schema!NULL
  <2> SUFFICES ASSUME NEW q \in Z PROVE Schema!Without(q,
      "original_filename")["material_id"] # Schema!NULL
    BY DEF Schema!Dropped
  <2>1. DOMAIN q = S BY <1>5 DEF JobRowsOk, RowOk, Cut
  <2>2. "material_id" \in DOMAIN q BY <2>1, <1>3, <1>4
  <2> QED BY <2>2 DEF Schema!Without
<1>8. /\ NullSet(Cut(F, S1), "material_id", FALSE) = Cut(G, S1)
      /\ JobRowsOk(Z1, Cut(G, S1))
  <2> HIDE DEF S, Z1
  <2>1. S1 \in SUBSET JobNames /\ "material_id" \in S1 /\ Schema!Upload \notin b BY <1>3, <1>4
  <2> HIDE DEF b, S1
  <2>2. NullSet(Cut(F, S1), "material_id", FALSE) = Cut(G, S1) BY <2>1, MaterialIs
  <2>3. JobRowsOk(Z1, Cut(G, S1)) BY <1>6, <1>7, <2>1, MaterialRows
  <2> QED BY <2>2, <2>3
<1>9. Schema!Execute(Schema!SetNull("print_jobs", "material_id", FALSE), d1) = d2
  <2> DEFINE M == Cut(F, S1)
  <2>1. "material_id" \in DOMAIN M BY <1>3, <1>4 DEF Cut
  <2>2. NullSet(M, "material_id", FALSE) = Cut(G, S1) BY <1>8
  <2> DEFINE no == FALSE
  <2> HIDE DEF M, U, P, I, Y, G, S1, Z1, no
  <2>3. Schema!Execute(Schema!SetNull("print_jobs", "material_id", no),
      DbOf(U, X, P, M, Z1, Y, I, w))
          = DbOf(U, X, P, NullSet(M, "material_id", no), Z1, Y, I, w)
    BY <1>7, <2>1, JobsSetNull
  <2> QED BY <2>2, <2>3 DEF M, no
<1>10. /\ Len(Schema!DropUpload) = 2 /\ Schema!DropUpload[1]
          = Schema!DropColumn("print_jobs", "original_filename")
       /\ Schema!DropUpload[2] = Schema!SetNull("print_jobs", "material_id", FALSE)
  BY DEF Schema!DropUpload
<1>11. Schema!Run(Schema!DropUpload, d) = d2
  <2> DEFINE k == Schema!SetNull("print_jobs", "material_id", FALSE)
  <2>1. Schema!Execute(k, d1) = d2 /\ Schema!DropUpload[2] = k BY <1>9, <1>10
  <2> HIDE DEF d, d1, d2, k
  <2> QED BY <2>1, <1>6, <1>10, RunsTwo
<1>13. /\ UserTable(b, department) = U /\ Roles(b) = Roles(a)
       /\ PrinterTable(b) = P /\ IndexesOf(b) = I
  BY RevisionsAre, PartsStay
<1>14. d2 = SchemaDb(X, Z1, statuses, news, w, b, department)
  <2> HIDE DEF U, P, S1, I, Z1, b
  <2> QED BY <1>2, <1>13 DEF SchemaDb, JobTable
<1>15. SchemaParts(X, Z1, statuses, news, w, b, department)
  <2>1. StatusesOf(b, statuses) BY DEF StatusesOf, SchemaParts
  <2>2. NewsOf(b, news) BY RevisionsAre DEF NewsOf, SchemaParts
  <2>3. WidthOf(b, w) BY DEF WidthOf, SchemaParts
  <2>4. JobRowsOk(Z1, JobTable(b, department)) BY <1>2, <1>8 DEF JobTable
  <2>5. UserRowsOk(X, UserTable(b, department)) BY <1>13 DEF SchemaParts
  <2>6. "0003" \in b => department = "department" BY RevisionsAre DEF SchemaParts
  <2> HIDE DEF b, Z1
  <2> QED BY <2>1, <2>2, <2>3, <2>4, <2>5, <2>6 DEF SchemaParts
<1>16. Schema!Run(Schema!DropUpload, SchemaDb(X, Z, statuses, news, w, a, department))
         = SchemaDb(X, Z1, statuses, news, w, b, department)
  BY <1>1, <1>11, <1>14
<1> HIDE DEF b, Z1
<1> QED BY <1>15, <1>16, NamesStay, TakesThere DEF b

\* NOT NULL is refused while a row has NULL,
LEMMA StaysNullable ==
  ASSUME NEW T, NEW R, NEW Y, NEW I, NEW w, NEW t, NEW c, \E r \in R[t] : r[c] = Schema!NULL
  PROVE  Schema!Execute(Schema!SetNull(t, c, FALSE), Base(T, R, Y, I, w)).script = "stopped"
<1> DEFINE k == Schema!SetNull(t, c, FALSE)
           d == Base(T, R, Y, I, w)
<1>1. k.do = "set null" /\ k.table = t /\ k.column = c /\ k.null = FALSE BY DEF Schema!SetNull
<1>2. d.rows = R BY BaseIs
<1>3. [d EXCEPT !.script = "stopped"].script = "stopped" BY DEF Base
<1> HIDE DEF k, d
<1>4. ~Schema!Can(k, d) BY <1>1, <1>2 DEF Schema!Can
<1>5. Schema!Execute(k, d) = [d EXCEPT !.script = "stopped"] BY <1>4 DEF Schema!Execute
<1>6. Schema!Execute(k, d).script = "stopped" BY <1>3, <1>5
<1> QED BY <1>6 DEF k, d

\* and so is the downgrade while a job has no material.
LEMMA UploadRefused ==
  ASSUME NEW X, NEW Z, NEW statuses, NEW news, NEW w, NEW a, NEW department \in DepartmentNames,
         SchemaParts(X, Z, statuses, news, w, a, department), Schema!Upload \in a,
         \E r \in Z : r.material_id = Schema!NULL
  PROVE  Schema!Run(Schema!DropUpload, SchemaDb(X, Z, statuses, news, w, a,
      department)).script # "runs"
<1> DEFINE U == UserTable(a, department)
           P == PrinterTable(a)
           F == JobSpecs(a)
           S == JobColumns(a, department)
           S1 == S \ {"original_filename"}
           I == IndexesOf(a)
           Y == LabelsOf(Roles(a), statuses, news)
           Z1 == Schema!Dropped(Z, "original_filename")
           d == DbOf(U, X, P, Cut(F, S), Z, Y, I, w)
           d1 == DbOf(U, X, P, Cut(F, S1), Z1, Y, I, w)
<1>1. d = SchemaDb(X, Z, statuses, news, w, a, department) BY DEF SchemaDb, JobTable
<1>2. "original_filename" \in S /\ Awaits \subseteq S BY FilenameGoes, AwaitsThere
<1>3. "original_filename" \notin Awaits /\ "material_id" \in Awaits BY DEF Awaits
<1>5. JobRowsOk(Z, Cut(F, S)) BY DEF SchemaParts, JobTable
<1>6. Schema!Execute(Schema!DropColumn("print_jobs", "original_filename"), d) = d1
  <2> HIDE DEF F, S, U, P, I, Y
  <2> QED BY <1>2, <1>3, <1>5, JobColumnGoes
<1>7. \E r \in Z1 : r["material_id"] = Schema!NULL
  <2>1. PICK q \in Z : q.material_id = Schema!NULL OBVIOUS
  <2>2. DOMAIN q = S BY <1>5 DEF JobRowsOk, RowOk, Cut
  <2>3. "material_id" \in DOMAIN q BY <2>2, <1>2, <1>3
  <2>4. Schema!Without(q, "original_filename")["material_id"] = Schema!NULL
    BY <2>1, <2>3 DEF Schema!Without
  <2> QED BY <2>4 DEF Schema!Dropped
<1> DEFINE k == Schema!SetNull("print_jobs", "material_id", FALSE)
           R == RowsOf(X, Z1)
           T == TablesOf(U, P, Cut(F, S1))
<1>8. Schema!Execute(k, d1).script = "stopped"
  <2>1. \E r \in R["print_jobs"] : r["material_id"] = Schema!NULL BY <1>7, RowsOfAre
  <2> HIDE DEF R, Y, I, T
  <2>2. Schema!Execute(Schema!SetNull("print_jobs", "material_id", FALSE),
      Base(T, R, Y, I, w)).script = "stopped"
    BY <2>1, StaysNullable
  <2> QED BY <2>2 DEF DbOf, R, T
<1>10. /\ Len(Schema!DropUpload) = 2 /\ Schema!DropUpload[1]
          = Schema!DropColumn("print_jobs", "original_filename")
       /\ Schema!DropUpload[2] = k
  BY DEF Schema!DropUpload
<1>11. Schema!Run(Schema!DropUpload, d).script = "stopped"
  <2> HIDE DEF d, d1, k
  <2> QED BY <1>6, <1>8, <1>10, RunsTwo
<1> QED BY <1>1, <1>11

\* The models' printers are the baseline's with three columns more.
LEMMA PrintersAre ==
  LET S == DOMAIN Schema!BasePrinters
  IN /\ Schema!BasePrinters = Cut(Schema!Printer, S)
     /\ Schema!Printer = Cut(Schema!Printer,
         ((S \cup {"prusalink_url"}) \cup {"prusalink_username"})
                                 \cup {"prusalink_password"})
     /\ "prusalink_url" \notin S /\ "prusalink_username" \notin S /\ "prusalink_password" \notin S
     /\ Schema!Printer["prusalink_url"] = Schema!Maybe(Schema!Text)
         /\ Schema!Printer["prusalink_username"] = Schema!Maybe(Schema!Text)
     /\ Schema!Printer["prusalink_password"] = Schema!Maybe(Schema!Text)
     /\ "current_material_id" \in S
<1> DEFINE S == DOMAIN Schema!BasePrinters
           N == ((S \cup {"prusalink_url"}) \cup {"prusalink_username"}) \cup {"prusalink_password"}
<1>1. Schema!BasePrinters = Cut(Schema!Printer, S) BY DEF Schema!BasePrinters, Schema!Printer, Cut
<1>2. DOMAIN Schema!Printer = N BY DEF Schema!BasePrinters, Schema!Printer
<1>3. Schema!Printer = [c \in DOMAIN Schema!Printer |-> Schema!Printer[c]] BY DEF Schema!Printer
<1>4. Cut(Schema!Printer, DOMAIN Schema!Printer) = Schema!Printer BY <1>3, CutAll
<1>5. /\ "prusalink_url" \notin S /\ "prusalink_username" \notin S /\ "prusalink_password" \notin S
      /\ "current_material_id" \in S
  BY DEF Schema!BasePrinters
<1>6. /\ Schema!Printer["prusalink_url"] = Schema!Maybe(Schema!Text)
         /\ Schema!Printer["prusalink_username"] = Schema!Maybe(Schema!Text)
      /\ Schema!Printer["prusalink_password"] = Schema!Maybe(Schema!Text)
  BY DEF Schema!Printer
<1> QED BY <1>1, <1>2, <1>4, <1>5, <1>6

\* Such a column comes
LEMMA PrinterColumnComes ==
  ASSUME NEW U, NEW X, NEW J, NEW Z, NEW Y, NEW I, NEW w, NEW F, NEW S, NEW c, c \notin S,
         F[c] = Schema!Maybe(Schema!Text)
  PROVE  Schema!Execute(Schema!AddColumn("printers", c, Schema!Maybe(Schema!Text)),
      DbOf(U, X, Cut(F, S), J, Z, Y, I, w))
           = DbOf(U, X, Cut(F, S \cup {c}), J, Z, Y, I, w)
<1> DEFINE M == Cut(F, S)
           spec == Schema!Maybe(Schema!Text)
<1>1. DOMAIN M = S BY DEF Cut
<1>2. Schema!Put(M, c, spec) = Cut(F, S \cup {c})
  <2>1. Schema!Put(Cut(F, S), c, F[c]) = Cut(F, S \cup {c}) BY CutPut
  <2>2. F[c] = spec OBVIOUS
  <2> HIDE DEF spec
  <2> QED BY <2>1, <2>2
<1>3. spec.null BY ColumnsAre
<1> HIDE DEF M, spec
<1>4. Schema!Execute(Schema!AddColumn("printers", c, spec), DbOf(U, X, M, J, Z, Y, I, w))
        = DbOf(U, X, Schema!Put(M, c, spec), J, Z, Y, I, w)
  BY <1>1, <1>3, PrintersGain
<1> QED BY <1>2, <1>4 DEF M, spec

\* and goes.
LEMMA PrinterColumnGoes ==
  ASSUME NEW U, NEW X, NEW J, NEW Z, NEW Y, NEW I, NEW w, NEW F, NEW S, NEW c \in S
  PROVE  Schema!Execute(Schema!DropColumn("printers", c), DbOf(U, X, Cut(F, S), J, Z, Y, I, w))
           = DbOf(U, X, Cut(F, S \ {c}), J, Z, Y, I, w)
<1> DEFINE M == Cut(F, S)
<1>1. DOMAIN M = S BY DEF Cut
<1>2. Schema!Without(M, c) = Cut(F, S \ {c}) BY CutWithout
<1> HIDE DEF M
<1>3. Schema!Execute(Schema!DropColumn("printers", c), DbOf(U, X, M, J, Z, Y, I, w))
        = DbOf(U, X, Schema!Without(M, c), J, Z, Y, I, w)
  BY <1>1, PrintersLose
<1> QED BY <1>2, <1>3 DEF M

\* Where the elements of two sequences are in their concatenation;
LEMMA Joins ==
  ASSUME NEW S, NEW s \in Seq(S), NEW t \in Seq(S)
  PROVE  /\ Len(s) \in Nat /\ Len(t) \in Nat /\ Len(s \o t) = Len(s) + Len(t)
         /\ \A i \in 1..Len(s) : (s \o t)[i] = s[i]
         /\ \A i \in 1..Len(t) : (s \o t)[Len(s) + i] = t[i]
<1> DEFINE m == Len(s)
           n == Len(t)
           both == s \o t
<1>1. /\ m \in Nat /\ n \in Nat /\ Len(both) = m + n
      /\ \A k \in 1..m : both[k] = s[k]
      /\ \A k \in 1..n : both[m + k] = t[k]
  OBVIOUS
<1> QED BY <1>1

\* of three and one,
LEMMA ThreeAndOne ==
  ASSUME NEW S, NEW s \in Seq(S), NEW t \in Seq(S), 3 <= Len(s), Len(s) <= 3, 1 <= Len(t),
      Len(t) <= 1
  PROVE  /\ Len(s \o t) = 4 /\ (s \o t)[1] = s[1] /\ (s \o t)[2] = s[2] /\ (s \o t)[3] = s[3]
         /\ (s \o t)[4] = t[1]
<1> DEFINE u == s \o t
<1>1. /\ Len(u) = Len(s) + Len(t)
      /\ \A i \in 1..Len(s) : u[i] = s[i]
      /\ \A i \in 1..Len(t) : u[Len(s) + i] = t[i]
  BY Joins
<1>0. Len(s) \in Nat /\ Len(t) \in Nat BY Joins
<1> HIDE DEF u
<1>2. u[3 + 1] = t[1] BY <1>0, <1>1
<1>3. u[1] = s[1] /\ u[2] = s[2] /\ u[3] = s[3] /\ Len(u) = 4 BY <1>0, <1>1
<1> QED BY <1>2, <1>3 DEF u

\* and of one and three.
LEMMA OneAndThree ==
  ASSUME NEW S, NEW s \in Seq(S), NEW t \in Seq(S), 1 <= Len(s), Len(s) <= 1, 3 <= Len(t),
      Len(t) <= 3
  PROVE  /\ Len(s \o t) = 4 /\ (s \o t)[1] = s[1] /\ (s \o t)[2] = t[1] /\ (s \o t)[3] = t[2]
         /\ (s \o t)[4] = t[3]
<1> DEFINE u == s \o t
<1>1. /\ Len(u) = Len(s) + Len(t)
      /\ \A i \in 1..Len(s) : u[i] = s[i]
      /\ \A i \in 1..Len(t) : u[Len(s) + i] = t[i]
  BY Joins
<1>0. Len(s) \in Nat /\ Len(t) \in Nat BY Joins
<1> HIDE DEF u
<1>2. u[1 + 1] = t[1] /\ u[1 + 2] = t[2] /\ u[1 + 3] = t[3] BY <1>0, <1>1
<1>3. u[1] = s[1] /\ Len(u) = 4 BY <1>0, <1>1
<1> QED BY <1>2, <1>3 DEF u

\* upgrade of 0006,
LEMMA PrusaLinkUp ==
  ASSUME NEW X, NEW Z, NEW statuses, NEW news, NEW w, NEW a, NEW department \in DepartmentNames,
         SchemaParts(X, Z, statuses, news, w, a, department), "0006" \notin a, "0004" \in a
  PROVE  GoesTo(Schema!AddPrusaLink, SchemaDb(X, Z, statuses, news, w, a, department),
      a \cup {"0006"})
<1> DEFINE b == a \cup {"0006"}
           U == UserTable(a, department)
           L == DOMAIN Schema!BasePrinters
           L1 == L \cup {"prusalink_url"}
           L2 == L1 \cup {"prusalink_username"}
           L3 == L2 \cup {"prusalink_password"}
           F == JobSpecs(a)
           S == JobColumns(a, department)
           S1 == S \cup {"printer_job_id"}
           J == Cut(F, S)
           I == IndexesOf(a)
           Y == LabelsOf(Roles(a), statuses, news)
           Z1 == Schema!Added(Z, "printer_job_id", Schema!NULL)
           d == DbOf(U, X, Cut(Schema!Printer, L), J, Z, Y, I, w)
           d1 == DbOf(U, X, Cut(Schema!Printer, L1), J, Z, Y, I, w)
           d2 == DbOf(U, X, Cut(Schema!Printer, L2), J, Z, Y, I, w)
           d3 == DbOf(U, X, Cut(Schema!Printer, L3), J, Z, Y, I, w)
           d4 == DbOf(U, X, Schema!Printer, Cut(F, S1), Z1, Y, I, w)
<1>0. /\ Schema!BasePrinters = Cut(Schema!Printer, L) /\ Schema!Printer = Cut(Schema!Printer, L3)
      /\ "prusalink_url" \notin L /\ "prusalink_username" \notin L1
          /\ "prusalink_password" \notin L2
      /\ Schema!Printer["prusalink_url"] = Schema!Maybe(Schema!Text)
          /\ Schema!Printer["prusalink_username"] = Schema!Maybe(Schema!Text)
      /\ Schema!Printer["prusalink_password"] = Schema!Maybe(Schema!Text)
  <2> HIDE DEF L
  <2> QED BY PrintersAre DEF L
<1>1. d = SchemaDb(X, Z, statuses, news, w, a, department)
  <2>1. PrinterTable(a) = Schema!BasePrinters BY DEF PrinterTable
  <2> QED BY <1>0, <2>1 DEF SchemaDb, JobTable
<1>2. Schema!Execute(Schema!AddColumn("printers", "prusalink_url", Schema!Maybe(Schema!Text)), d)
    = d1
  <2> HIDE DEF U, L, J, Y, I
  <2> QED BY <1>0, PrinterColumnComes
<1>3. Schema!Execute(Schema!AddColumn("printers", "prusalink_username",
    Schema!Maybe(Schema!Text)), d1) = d2
  <2> HIDE DEF U, L1, J, Y, I
  <2> QED BY <1>0, PrinterColumnComes
<1>4. Schema!Execute(Schema!AddColumn("printers", "prusalink_password",
    Schema!Maybe(Schema!Text)), d2) = d3
  <2> HIDE DEF U, L2, J, Y, I
  <2> QED BY <1>0, PrinterColumnComes
<1>5. "printer_job_id" \notin S /\ S1 = JobColumns(b, department) BY PrinterJobComes
<1>6. /\ Schema!Execute(Schema!AddColumn("print_jobs", "printer_job_id", F["printer_job_id"]), d3)
         = d4
      /\ JobRowsOk(Z1, Cut(F, S1))
  <2>1. F["printer_job_id"].null /\ F["printer_job_id"].default = Schema!NULL BY JobSpecsCome
  <2>2. JobRowsOk(Z, Cut(F, S)) BY DEF SchemaParts, JobTable
  <2>3. Awaits \subseteq S BY AwaitsThere
  <2>4. d3 = DbOf(U, X, Schema!Printer, Cut(F, S), Z, Y, I, w) BY <1>0
  <2> HIDE DEF F, S, U, L3, I, Y, d3
  <2> QED BY <1>5, <2>1, <2>2, <2>3, <2>4, JobColumnComes
<1>7. F["printer_job_id"] = Schema!Maybe(Schema!Col("integer")) BY JobSpecsAre
<1>10. /\ Len(Schema!AddPrusaLink) = 4
       /\ Schema!AddPrusaLink[1] = Schema!AddColumn("printers", "prusalink_url",
           Schema!Maybe(Schema!Text))
       /\ Schema!AddPrusaLink[2] = Schema!AddColumn("printers", "prusalink_username",
           Schema!Maybe(Schema!Text))
       /\ Schema!AddPrusaLink[3] = Schema!AddColumn("printers", "prusalink_password",
           Schema!Maybe(Schema!Text))
       /\ Schema!AddPrusaLink[4] = Schema!AddColumn("print_jobs", "printer_job_id",
           Schema!Maybe(Schema!Col("integer")))
  <2> DEFINE s == Schema!Each(Schema!AddPrinterColumn, Schema!LinkColumns)
             c == Schema!AddColumn("print_jobs", "printer_job_id",
                 Schema!Maybe(Schema!Col("integer")))
             A == {s[1], s[2], s[3], c}
  <2>1. /\ s[1] = Schema!AddColumn("printers", "prusalink_url", Schema!Maybe(Schema!Text))
        /\ s[2] = Schema!AddColumn("printers", "prusalink_username", Schema!Maybe(Schema!Text))
        /\ s[3] = Schema!AddColumn("printers", "prusalink_password", Schema!Maybe(Schema!Text))
        /\ s = [i \in 1..3 |-> s[i]]
    BY DEF Schema!AddPrinterColumn, Schema!Each, Schema!LinkColumns
  <2>2. Schema!AddPrusaLink = s \o <<c>> BY DEF Schema!AddPrusaLink
  <2> HIDE DEF s, c
  <2>3. s \in Seq(A) /\ Len(s) = 3
    <3>1. \A i \in 1..3 : s[i] \in A OBVIOUS
    <3> HIDE DEF A
    <3> QED BY <2>1, <3>1, FunctionIsList
  <2>4. <<c>> \in Seq(A) /\ Len(<<c>>) = 1 /\ <<c>>[1] = c OBVIOUS
  <2> HIDE DEF A
  <2>5. 3 <= Len(s) /\ Len(s) <= 3 /\ 1 <= Len(<<c>>) /\ Len(<<c>>) <= 1 BY <2>3, <2>4
  <2>6. /\ Len(s \o <<c>>) = 4 /\ (s \o <<c>>)[1] = s[1] /\ (s \o <<c>>)[2] = s[2]
        /\ (s \o <<c>>)[3] = s[3] /\ (s \o <<c>>)[4] = <<c>>[1]
    <3> DEFINE t == <<c>>
    <3>1. s \in Seq(A) /\ t \in Seq(A) BY <2>3, <2>4
    <3>2. 3 <= Len(s) /\ Len(s) <= 3 /\ 1 <= Len(t) /\ Len(t) <= 1 BY <2>5
    <3> HIDE DEF t
    <3>3. /\ Len(s \o t) = 4 /\ (s \o t)[1] = s[1] /\ (s \o t)[2] = s[2]
          /\ (s \o t)[3] = s[3] /\ (s \o t)[4] = t[1]
      BY <3>1, <3>2, ThreeAndOne
    <3> QED BY <3>3 DEF t
  <2> QED BY <2>1, <2>2, <2>4, <2>6 DEF c
<1>11. Schema!Run(Schema!AddPrusaLink, d) = d4
  <2> HIDE DEF F, d, d1, d2, d3, d4
  <2> QED BY <1>2, <1>3, <1>4, <1>6, <1>7, <1>10, RunsFour
<1>12. JobSpecs(b) = F BY RevisionsAre, JobSpecsStay
<1>13. /\ UserTable(b, department) = U /\ Roles(b) = Roles(a)
       /\ PrinterTable(b) = Schema!Printer /\ IndexesOf(b) = I
  BY DEF UserTable, Roles, PrinterTable, IndexesOf
<1>14. d4 = SchemaDb(X, Z1, statuses, news, w, b, department)
  <2> HIDE DEF U, F, S1, I, Z1, b
  <2> QED BY <1>5, <1>12, <1>13 DEF SchemaDb, JobTable
<1>15. SchemaParts(X, Z1, statuses, news, w, b, department)
  <2>1. StatusesOf(b, statuses) BY RevisionsAre DEF StatusesOf, SchemaParts
  <2>2. NewsOf(b, news) BY RevisionsAre DEF NewsOf, SchemaParts
  <2>3. WidthOf(b, w) BY DEF WidthOf, SchemaParts
  <2>4. JobRowsOk(Z1, JobTable(b, department)) BY <1>5, <1>6, <1>12 DEF JobTable
  <2>5. UserRowsOk(X, UserTable(b, department)) BY <1>13 DEF SchemaParts
  <2>6. "0003" \in b => department = "department" BY RevisionsAre DEF SchemaParts
  <2> HIDE DEF b, Z1
  <2> QED BY <2>1, <2>2, <2>3, <2>4, <2>5, <2>6 DEF SchemaParts
<1>16. Schema!Run(Schema!AddPrusaLink, SchemaDb(X, Z, statuses, news, w, a, department))
         = SchemaDb(X, Z1, statuses, news, w, b, department)
  BY <1>1, <1>11, <1>14
<1> HIDE DEF b, Z1
<1> QED BY <1>15, <1>16, NamesStay, TakesThere DEF b

\* and its downgrade.
LEMMA PrusaLinkDown ==
  ASSUME NEW X, NEW Z, NEW statuses, NEW news, NEW w, NEW a, NEW department \in DepartmentNames,
         SchemaParts(X, Z, statuses, news, w, a, department), "0006" \in a
  PROVE  GoesTo(Schema!DropPrusaLink, SchemaDb(X, Z, statuses, news, w, a, department),
      a \ {"0006"})
<1> DEFINE b == a \ {"0006"}
           U == UserTable(a, department)
           L == DOMAIN Schema!BasePrinters
           L3 == ((L \cup {"prusalink_url"}) \cup {"prusalink_username"})
                   \cup {"prusalink_password"}
           L2 == L3 \ {"prusalink_password"}
           L1 == L2 \ {"prusalink_username"}
           L0 == L1 \ {"prusalink_url"}
           F == JobSpecs(a)
           S == JobColumns(a, department)
           S1 == S \ {"printer_job_id"}
           J == Cut(F, S1)
           I == IndexesOf(a)
           Y == LabelsOf(Roles(a), statuses, news)
           Z1 == Schema!Dropped(Z, "printer_job_id")
           d == DbOf(U, X, Schema!Printer, Cut(F, S), Z, Y, I, w)
           d1 == DbOf(U, X, Cut(Schema!Printer, L3), J, Z1, Y, I, w)
           d2 == DbOf(U, X, Cut(Schema!Printer, L2), J, Z1, Y, I, w)
           d3 == DbOf(U, X, Cut(Schema!Printer, L1), J, Z1, Y, I, w)
           d4 == DbOf(U, X, Cut(Schema!Printer, L0), J, Z1, Y, I, w)
<1>0. /\ Schema!BasePrinters = Cut(Schema!Printer, L0) /\ Schema!Printer = Cut(Schema!Printer, L3)
      /\ "prusalink_url" \in L1 /\ "prusalink_username" \in L2 /\ "prusalink_password" \in L3
  <2>1. /\ "prusalink_url" \notin L /\ "prusalink_username" \notin L
           /\ "prusalink_password" \notin L
        /\ Schema!BasePrinters = Cut(Schema!Printer, L) /\ Schema!Printer = Cut(Schema!Printer, L3)
    BY PrintersAre
  <2> HIDE DEF L
  <2>2. L0 = L BY <2>1
  <2> QED BY <2>1, <2>2
<1>1. d = SchemaDb(X, Z, statuses, news, w, a, department)
  BY DEF SchemaDb, JobTable, PrinterTable
<1>2. "printer_job_id" \in S /\ S1 = JobColumns(b, department) BY PrinterJobGoes
<1>3. /\ Schema!Execute(Schema!DropColumn("print_jobs", "printer_job_id"), d) = d1
      /\ JobRowsOk(Z1, Cut(F, S1))
  <2>1. JobRowsOk(Z, Cut(F, S)) BY DEF SchemaParts, JobTable
  <2>2. Awaits \subseteq S /\ "printer_job_id" \notin Awaits BY AwaitsThere DEF Awaits
  <2>3. d1 = DbOf(U, X, Schema!Printer, J, Z1, Y, I, w) BY <1>0
  <2> HIDE DEF F, S, U, L3, I, Y, d1
  <2> QED BY <1>2, <2>1, <2>2, <2>3, JobColumnGoes
<1>4. Schema!Execute(Schema!DropColumn("printers", "prusalink_password"), d1) = d2
  <2> HIDE DEF U, L3, J, Y, I, Z1
  <2> QED BY <1>0, PrinterColumnGoes
<1>5. Schema!Execute(Schema!DropColumn("printers", "prusalink_username"), d2) = d3
  <2> HIDE DEF U, L2, J, Y, I, Z1
  <2> QED BY <1>0, PrinterColumnGoes
<1>6. Schema!Execute(Schema!DropColumn("printers", "prusalink_url"), d3) = d4
  <2> HIDE DEF U, L1, J, Y, I, Z1
  <2> QED BY <1>0, PrinterColumnGoes
<1>10. /\ Len(Schema!DropPrusaLink) = 4
       /\ Schema!DropPrusaLink[1] = Schema!DropColumn("print_jobs", "printer_job_id")
       /\ Schema!DropPrusaLink[2] = Schema!DropColumn("printers", "prusalink_password")
       /\ Schema!DropPrusaLink[3] = Schema!DropColumn("printers", "prusalink_username")
       /\ Schema!DropPrusaLink[4] = Schema!DropColumn("printers", "prusalink_url")
  <2> DEFINE names == <<"prusalink_password", "prusalink_username", "prusalink_url">>
             t == Schema!Each(Schema!DropPrinterColumn, names)
             c == Schema!DropColumn("print_jobs", "printer_job_id")
             A == {t[1], t[2], t[3], c}
  <2>1. /\ t[1] = Schema!DropColumn("printers", "prusalink_password")
        /\ t[2] = Schema!DropColumn("printers", "prusalink_username")
        /\ t[3] = Schema!DropColumn("printers", "prusalink_url")
        /\ t = [i \in 1..3 |-> t[i]]
    BY DEF Schema!DropPrinterColumn, Schema!Each
  <2>2. Schema!DropPrusaLink = <<c>> \o t
    <3>1. Schema!Reverse(Schema!LinkColumns) = names BY DEF Schema!LinkColumns, Schema!Reverse
    <3> QED BY <3>1 DEF Schema!DropPrusaLink, Schema!DropJobColumn
  <2> HIDE DEF t, c
  <2>3. t \in Seq(A) /\ Len(t) = 3
    <3>1. \A i \in 1..3 : t[i] \in A OBVIOUS
    <3> HIDE DEF A
    <3> QED BY <2>1, <3>1, FunctionIsList
  <2>4. <<c>> \in Seq(A) /\ Len(<<c>>) = 1 /\ <<c>>[1] = c OBVIOUS
  <2> HIDE DEF A
  <2>5. 3 <= Len(t) /\ Len(t) <= 3 /\ 1 <= Len(<<c>>) /\ Len(<<c>>) <= 1 BY <2>3, <2>4
  <2>6. /\ Len(<<c>> \o t) = 4 /\ (<<c>> \o t)[1] = <<c>>[1] /\ (<<c>> \o t)[2] = t[1]
        /\ (<<c>> \o t)[3] = t[2] /\ (<<c>> \o t)[4] = t[3]
    <3> DEFINE s == <<c>>
    <3>1. s \in Seq(A) /\ t \in Seq(A) BY <2>3, <2>4
    <3>2. 1 <= Len(s) /\ Len(s) <= 1 /\ 3 <= Len(t) /\ Len(t) <= 3 BY <2>5
    <3> HIDE DEF s
    <3>3. /\ Len(s \o t) = 4 /\ (s \o t)[1] = s[1] /\ (s \o t)[2] = t[1]
          /\ (s \o t)[3] = t[2] /\ (s \o t)[4] = t[3]
      BY <3>1, <3>2, OneAndThree
    <3> QED BY <3>3 DEF s
  <2> QED BY <2>1, <2>2, <2>4, <2>6 DEF c
<1>11. Schema!Run(Schema!DropPrusaLink, d) = d4
  <2> HIDE DEF d, d1, d2, d3, d4
  <2> QED BY <1>3, <1>4, <1>5, <1>6, <1>10, RunsFour
<1>12. JobSpecs(b) = F BY RevisionsAre, JobSpecsStay
<1>13. /\ UserTable(b, department) = U /\ Roles(b) = Roles(a)
       /\ PrinterTable(b) = Schema!BasePrinters /\ IndexesOf(b) = I
  BY DEF UserTable, Roles, PrinterTable, IndexesOf
<1>14. d4 = SchemaDb(X, Z1, statuses, news, w, b, department)
  <2> HIDE DEF U, F, S1, I, Z1, b, L0
  <2> QED BY <1>0, <1>2, <1>12, <1>13 DEF SchemaDb, JobTable
<1>15. SchemaParts(X, Z1, statuses, news, w, b, department)
  <2>1. StatusesOf(b, statuses) BY RevisionsAre DEF StatusesOf, SchemaParts
  <2>2. NewsOf(b, news) BY RevisionsAre DEF NewsOf, SchemaParts
  <2>3. WidthOf(b, w) BY DEF WidthOf, SchemaParts
  <2>4. JobRowsOk(Z1, JobTable(b, department)) BY <1>2, <1>3, <1>12 DEF JobTable
  <2>5. UserRowsOk(X, UserTable(b, department)) BY <1>13 DEF SchemaParts
  <2>6. "0003" \in b => department = "department" BY RevisionsAre DEF SchemaParts
  <2> HIDE DEF b, Z1
  <2> QED BY <2>1, <2>2, <2>3, <2>4, <2>5, <2>6 DEF SchemaParts
<1>16. Schema!Run(Schema!DropPrusaLink, SchemaDb(X, Z, statuses, news, w, a, department))
         = SchemaDb(X, Z1, statuses, news, w, b, department)
  BY <1>1, <1>11, <1>14
<1> HIDE DEF b, Z1
<1> QED BY <1>15, <1>16, NamesStay, TakesThere DEF b

\* A column renamed that was put there last is one put there by the other name.
LEMMA PutAway ==
  ASSUME NEW M, NEW x, x \notin DOMAIN M, M = [c \in DOMAIN M |-> M[c]], NEW v, NEW y, y # x,
         y \notin DOMAIN M
  PROVE  /\ Schema!Renamed(Schema!Put(M, x, v), x, y) = Schema!Put(M, y, v)
         /\ x \in DOMAIN Schema!Put(M, x, v) /\ y \notin DOMAIN Schema!Put(M, x, v)
BY DEF Schema!Renamed, Schema!Put, Schema!Without

\* So renaming the department makes one baseline's users the other's.
LEMMA DepartmentRenamed ==
  ASSUME NEW x \in DepartmentNames, NEW y \in DepartmentNames, x # y
  PROVE  /\ Schema!Renamed(Schema!BaseUsers(x), x, y) = Schema!BaseUsers(y)
         /\ x \in DOMAIN Schema!BaseUsers(x) /\ y \notin DOMAIN Schema!BaseUsers(x)
         /\ "name" \in DOMAIN Schema!BaseUsers(x)
<1> DEFINE M == [
      id |-> Schema!Id, email |-> Schema!Unique(Schema!Text), name |-> Schema!Text,
          student_staff_number |-> Schema!Text,
      role |-> Schema!Default(Schema!Col("user_role"), "student_staff"), auth_hash |-> Schema!Text,
      created_at |-> Schema!Now ]
<1>1. /\ DOMAIN M = {"id", "email", "name", "student_staff_number", "role", "auth_hash",
         "created_at"}
      /\ M = [c \in DOMAIN M |-> M[c]]
  OBVIOUS
<1>2. x \notin DOMAIN M /\ y \notin DOMAIN M /\ "name" \in DOMAIN M
  <2> HIDE DEF M
  <2> QED BY <1>1 DEF DepartmentNames
<1>3. Schema!BaseUsers(x) = Schema!Put(M, x, Schema!Maybe(Schema!Text))
    /\ Schema!BaseUsers(y) = Schema!Put(M, y, Schema!Maybe(Schema!Text))
  BY DEF Schema!BaseUsers
<1> HIDE DEF M
<1>4. "name" \in DOMAIN Schema!Put(M, x, Schema!Maybe(Schema!Text)) BY <1>2 DEF Schema!Put
<1> QED BY <1>1, <1>2, <1>3, <1>4, PutAway

\* The column for the users' department is renamed.
LEMMA UsersMove ==
  ASSUME NEW X, NEW P, NEW J, NEW Z, NEW Y, NEW I, NEW w,
         NEW x \in DepartmentNames, NEW y \in DepartmentNames, x # y,
             UserRowsOk(X, Schema!BaseUsers(x))
  PROVE  /\ Schema!Execute(Schema!RenameIfThere("users", x, y),
            DbOf(Schema!BaseUsers(x), X, P, J, Z, Y, I, w))
              = DbOf(Schema!BaseUsers(y), Schema!RenamedIn(X, x, y), P, J, Z, Y, I, w)
         /\ UserRowsOk(Schema!RenamedIn(X, x, y), Schema!BaseUsers(y))
         /\ NamesKept(X, Schema!RenamedIn(X, x, y))
<1> DEFINE U == Schema!BaseUsers(x)
           V == Schema!BaseUsers(y)
<1>1. /\ Schema!Renamed(U, x, y) = V /\ x \in DOMAIN U /\ y \notin DOMAIN U /\ "name" \in DOMAIN U
  BY DepartmentRenamed
<1>2. UserRowsOk(X, U) OBVIOUS
<1> HIDE DEF U, V
<1>3. Schema!Execute(Schema!RenameIfThere("users", x, y), DbOf(U, X, P, J, Z, Y, I, w))
        = DbOf(V, Schema!RenamedIn(X, x, y), P, J, Z, Y, I, w)
  <2>1. Schema!Execute(Schema!RenameIfThere("users", x, y), DbOf(U, X, P, J, Z, Y, I, w))
          = DbOf(Schema!Renamed(U, x, y), Schema!RenamedIn(X, x, y), P, J, Z, Y, I, w)
    BY <1>1, UsersRenameThere
  <2> QED BY <2>1, <1>1
<1>4. ASSUME NEW r \in X
      PROVE  RowOk(V, Schema!Renamed(r, x, y)) /\ NamesOk(Schema!Renamed(r, x, y))
             /\ Schema!FullName(Schema!Renamed(r, x, y)) = Schema!FullName(r)
  <2>1. RowOk(U, r) /\ NamesOk(r) BY <1>2 DEF UserRowsOk
  <2>2. RowOk(Schema!Renamed(U, x, y), Schema!Renamed(r, x, y)) BY <1>1, <2>1, RowRenames
  <2>3. DOMAIN r = DOMAIN U BY <2>1 DEF RowOk
  <2>4. "name" \in DOMAIN r /\ "name" # x /\ "name" # y BY <1>1, <2>3 DEF DepartmentNames
  <2>5. "name" \in DOMAIN Schema!Renamed(r, x, y) /\ Schema!Renamed(r, x, y)["name"] = r["name"]
    BY <2>4 DEF Schema!Renamed, Schema!Put, Schema!Without
  <2>6. NamesOk(Schema!Renamed(r, x, y)) BY <2>1, <2>4, <2>5 DEF NamesOk
  <2>7. Schema!FullName(Schema!Renamed(r, x, y)) = Schema!FullName(r)
    BY <2>4, <2>5 DEF Schema!FullName
  <2> QED BY <2>2, <2>6, <2>7, <1>1
<1>5. UserRowsOk(Schema!RenamedIn(X, x, y), V) BY <1>4 DEF UserRowsOk, Schema!RenamedIn
<1>6. NamesKept(X, Schema!RenamedIn(X, x, y)) BY <1>4 DEF NamesKept, Schema!RenamedIn
<1> QED BY <1>3, <1>5, <1>6 DEF U, V

\* Where 0003 leads to.
Leads(a, b, y) ==
  (\A r \in Schema!Revisions \ {"0003"} : r \in b <=> r \in a) /\ ("0003" \in b => y = "department")

\* The two commands of 0003, from a database that has the column x.
LEMMA DepartmentTakes ==
  ASSUME NEW X, NEW Z, NEW statuses, NEW news, NEW w, NEW a, NEW x \in DepartmentNames,
         NEW y \in DepartmentNames, x # y, NEW script, Len(script) = 2,
         script[1] = Schema!RenameIfThere("users", x, y),
             script[2] = Schema!RenameIfThere("print_jobs", x, y),
         SchemaParts(X, Z, statuses, news, w, a, x), "0004" \notin a, "0002" \in a,
         NEW b, Leads(a, b, y)
  PROVE  GoesTo(script, SchemaDb(X, Z, statuses, news, w, a, x), b)
<1> DEFINE U == Schema!BaseUsers(x)
           V == Schema!BaseUsers(y)
           P == PrinterTable(a)
           F == JobSpecs(a)
           S == JobColumns(a, x)
           S1 == (S \ {x}) \cup {y}
           I == IndexesOf(a)
           Y == LabelsOf(Roles(a), statuses, news)
           X1 == Schema!RenamedIn(X, x, y)
           Z1 == Schema!RenamedIn(Z, x, y)
           d == DbOf(U, X, P, Cut(F, S), Z, Y, I, w)
           d1 == DbOf(V, X1, P, Cut(F, S), Z, Y, I, w)
           d2 == DbOf(V, X1, P, Cut(F, S1), Z1, Y, I, w)
<1>1. d = SchemaDb(X, Z, statuses, news, w, a, x)
  BY DEF SchemaDb, JobTable, UserTable
<1>a. /\ "0002" \in b <=> "0002" \in a
      /\ Schema!Timing \in b <=> Schema!Timing \in a
      /\ Schema!Upload \in b <=> Schema!Upload \in a
      /\ "0006" \in b <=> "0006" \in a
      /\ "0008" \in b <=> "0008" \in a
      /\ "0004" \in b <=> "0004" \in a
      /\ "0009" \in b <=> "0009" \in a
  BY RevisionsAre DEF Leads
<1>2. /\ Schema!Execute(Schema!RenameIfThere("users", x, y), d) = d1
      /\ UserRowsOk(X1, V) /\ NamesKept(X, X1)
  <2>1. UserRowsOk(X, Schema!BaseUsers(x)) BY DEF SchemaParts, UserTable
  <2> DEFINE J == Cut(F, S)
  <2> HIDE DEF P, I, Y, J
  <2>2. /\ Schema!Execute(Schema!RenameIfThere("users", x, y),
           DbOf(Schema!BaseUsers(x), X, P, J, Z, Y, I, w))
             = DbOf(Schema!BaseUsers(y), Schema!RenamedIn(X, x, y), P, J, Z, Y, I, w)
        /\ UserRowsOk(Schema!RenamedIn(X, x, y), Schema!BaseUsers(y))
        /\ NamesKept(X, Schema!RenamedIn(X, x, y))
    BY <2>1, UsersMove
  <2> QED BY <2>2 DEF J
<1>3. x \in S /\ y \notin S /\ S1 = JobColumns(a, y) BY DepartmentMoves
<1>4. /\ Schema!Execute(Schema!RenameIfThere("print_jobs", x, y), d1) = d2
      /\ JobRowsOk(Z1, Cut(F, S1))
  <2>1. F[x] = F[y] BY JobSpecsAre DEF DepartmentNames
  <2>2. JobRowsOk(Z, Cut(F, S)) BY DEF SchemaParts, JobTable
  <2>3. Awaits \subseteq S /\ x \notin Awaits BY AwaitsThere DEF Awaits, DepartmentNames
  <2> HIDE DEF F, S, V, P, I, Y, X1
  <2> QED BY <1>3, <2>1, <2>2, <2>3, JobColumnMoves
<1>5. Schema!Run(script, d) = d2
  <2> HIDE DEF d, d1, d2
  <2> QED BY <1>2, <1>4, RunsTwo
<1>6. JobSpecs(b) = F BY <1>a, JobSpecsStay
<1>7. JobColumns(b, y) = S1 BY <1>3, <1>a DEF JobColumns
<1>8. /\ UserTable(b, y) = V /\ Roles(b) = Roles(a)
      /\ PrinterTable(b) = P /\ IndexesOf(b) = I
  BY <1>a DEF UserTable, Roles, PrinterTable, IndexesOf
<1>9. d2 = SchemaDb(X1, Z1, statuses, news, w, b, y)
  <2> HIDE DEF V, F, S1, I, Z1, X1, P
  <2> QED BY <1>6, <1>7, <1>8 DEF SchemaDb, JobTable
<1>10. SchemaParts(X1, Z1, statuses, news, w, b, y)
  <2>1. StatusesOf(b, statuses) BY <1>a DEF StatusesOf, SchemaParts
  <2>2. NewsOf(b, news) BY <1>a DEF NewsOf, SchemaParts
  <2>3. WidthOf(b, w)
    <3>1. w = 255 BY DEF WidthOf, SchemaParts
    <3> QED BY <3>1 DEF WidthOf
  <2>4. JobRowsOk(Z1, JobTable(b, y)) BY <1>4, <1>6, <1>7 DEF JobTable
  <2>5. UserRowsOk(X1, UserTable(b, y)) BY <1>2, <1>8
  <2> HIDE DEF Z1, X1
  <2>6. "0003" \in b => y = "department" BY DEF Leads
  <2> QED BY <2>1, <2>2, <2>3, <2>4, <2>5, <2>6 DEF SchemaParts
<1>11. Schema!Run(script, SchemaDb(X, Z, statuses, news, w, a, x))
         = SchemaDb(X1, Z1, statuses, news, w, b, y)
  BY <1>1, <1>5, <1>9
<1> HIDE DEF X1, Z1
<1> QED BY <1>2, <1>10, <1>11, TakesThere

\* upgrade of 0003, on a database of either kind,
LEMMA DepartmentUp ==
  ASSUME NEW X, NEW Z, NEW statuses, NEW news, NEW w, NEW a, NEW department \in DepartmentNames,
         SchemaParts(X, Z, statuses, news, w, a, department), "0002" \in a, "0004" \notin a
  PROVE  GoesTo(Schema!ToDepartment, SchemaDb(X, Z, statuses, news, w, a, department),
      a \cup {"0003"})
<1> DEFINE b == a \cup {"0003"}
<1>1. /\ Len(Schema!ToDepartment) = 2 /\ Schema!ToDepartment[1]
         = Schema!RenameIfThere("users", "unit_code", "department")
      /\ Schema!ToDepartment[2] = Schema!RenameIfThere("print_jobs", "unit_code", "department")
  BY DEF Schema!ToDepartment
<1>2. CASE department = "unit_code"
  <2> DEFINE x == "unit_code"
             y == "department"
  <2>1. x \in DepartmentNames /\ y \in DepartmentNames /\ x # y BY DEF DepartmentNames
  <2>2. /\ Schema!ToDepartment[1] = Schema!RenameIfThere("users", x, y)
        /\ Schema!ToDepartment[2] = Schema!RenameIfThere("print_jobs", x, y)
    BY <1>1
  <2>3. Leads(a, b, y) BY DEF Leads
  <2>a. Len(Schema!ToDepartment) = 2 BY <1>1
  <2>4. department = x BY <1>2
  <2> HIDE DEF x, y, b
  <2>5. SchemaParts(X, Z, statuses, news, w, a, x) BY <2>4
  <2>6. GoesTo(Schema!ToDepartment, SchemaDb(X, Z, statuses, news, w, a, x), b)
    BY <2>a, <2>1, <2>2, <2>3, <2>5, DepartmentTakes
  <2> QED BY <2>4, <2>6 DEF b
<1>3. CASE department = "department"
  <2> DEFINE d == SchemaDb(X, Z, statuses, news, w, a, department)
             U == Schema!BaseUsers(department)
             P == PrinterTable(a)
             J == JobTable(a, department)
             Y == LabelsOf(Roles(a), statuses, news)
             I == IndexesOf(a)
  <2>1. d = DbOf(U, X, P, J, Z, Y, I, w) BY DEF SchemaDb, UserTable
  <2>2. "unit_code" \notin DOMAIN U
    BY <1>3, DepartmentRenamed DEF DepartmentNames
  <2>3. "unit_code" \notin DOMAIN J
    <3>1. "unit_code" \notin JobColumns(a, department)
      BY <1>3, DepartmentMoves DEF DepartmentNames
    <3> QED BY <3>1 DEF JobTable, Cut
  <2> HIDE DEF U, P, J, Y, I
  <2>4. Schema!Execute(Schema!RenameIfThere("users", "unit_code", "department"),
      DbOf(U, X, P, J, Z, Y, I, w))
          = DbOf(U, X, P, J, Z, Y, I, w)
    BY <2>2, UsersRenameNothing
  <2>5. Schema!Execute(Schema!RenameIfThere("print_jobs", "unit_code", "department"),
      DbOf(U, X, P, J, Z, Y, I, w))
          = DbOf(U, X, P, J, Z, Y, I, w)
    BY <2>3, JobsRenameNothing
  <2> HIDE DEF d
  <2>6. Schema!Run(Schema!ToDepartment, d) = d BY <1>1, <2>1, <2>4, <2>5, RunsTwo
  <2>7. JobTable(b, department) = JobTable(a, department)
    <3>1. JobSpecs(b) = JobSpecs(a) BY RevisionsAre, JobSpecsStay
    <3>2. JobColumns(b, department) = JobColumns(a, department) BY ColumnsStay
    <3> QED BY <3>1, <3>2 DEF JobTable
  <2>8. /\ UserTable(b, department) = UserTable(a, department) /\ Roles(b) = Roles(a)
        /\ PrinterTable(b) = PrinterTable(a) /\ IndexesOf(b) = IndexesOf(a)
    BY PartsStay
  <2>9. d = SchemaDb(X, Z, statuses, news, w, b, department)
    <3> HIDE DEF b
    <3> QED BY <2>7, <2>8 DEF SchemaDb, d
  <2>10. SchemaParts(X, Z, statuses, news, w, b, department)
    <3>1. StatusesOf(b, statuses) BY RevisionsAre DEF StatusesOf, SchemaParts
    <3>2. NewsOf(b, news) BY DEF NewsOf, SchemaParts
    <3>3. WidthOf(b, w) BY DEF WidthOf, SchemaParts
    <3>4. JobRowsOk(Z, JobTable(b, department)) BY <2>7 DEF SchemaParts
    <3>5. UserRowsOk(X, UserTable(b, department)) BY <2>8 DEF SchemaParts
    <3> HIDE DEF b
    <3> QED BY <3>1, <3>2, <3>3, <3>4, <3>5, <1>3 DEF SchemaParts
  <2>11. Schema!Run(Schema!ToDepartment, SchemaDb(X, Z, statuses, news, w, a, department))
           = SchemaDb(X, Z, statuses, news, w, b, department)
    BY <2>6, <2>9 DEF d
  <2> HIDE DEF b
  <2> QED BY <2>10, <2>11, NamesStay, TakesThere DEF b
<1> QED BY <1>2, <1>3 DEF DepartmentNames

\* and its downgrade, which ends at unit_code for both.
LEMMA DepartmentDown ==
  ASSUME NEW X, NEW Z, NEW statuses, NEW news, NEW w, NEW a, NEW department \in DepartmentNames,
         SchemaParts(X, Z, statuses, news, w, a, department), "0003" \in a, "0002" \in a,
         "0004" \notin a
  PROVE  GoesTo(Schema!ToUnitCode, SchemaDb(X, Z, statuses, news, w, a, department), a \ {"0003"})
<1> DEFINE b == a \ {"0003"}
           y == "unit_code"
           x == "department"
<1>1. /\ Len(Schema!ToUnitCode) = 2 /\ Schema!ToUnitCode[1] = Schema!RenameIfThere("users", x, y)
      /\ Schema!ToUnitCode[2] = Schema!RenameIfThere("print_jobs", x, y)
  BY DEF Schema!ToUnitCode
<1>2. x \in DepartmentNames /\ y \in DepartmentNames /\ x # y BY DEF DepartmentNames
<1>3. Leads(a, b, y) BY DEF Leads
<1>4. department = x BY DEF SchemaParts
<1> HIDE DEF x, y, b
<1>5. SchemaParts(X, Z, statuses, news, w, a, x) BY <1>4
<1>6. GoesTo(Schema!ToUnitCode, SchemaDb(X, Z, statuses, news, w, a, x), b)
  BY <1>1, <1>2, <1>3, <1>5, DepartmentTakes
<1> QED BY <1>4, <1>6 DEF b

\* upgrade of 0002, which widens Alembic's column first,
LEMMA QueueUp ==
  ASSUME NEW X, NEW Z, NEW statuses, NEW news, NEW w, NEW a, NEW department \in DepartmentNames,
         SchemaParts(X, Z, statuses, news, w, a, department), "0002" \notin a
  PROVE  GoesTo(Schema!AddQueueIndexes, SchemaDb(X, Z, statuses, news, w, a, department),
      a \cup {"0002"})
<1> DEFINE b == a \cup {"0002"}
           U == UserTable(a, department)
           P == PrinterTable(a)
           F == JobSpecs(a)
           S == JobColumns(a, department)
           S1 == S \ {"queue_position"}
           J == Cut(F, S)
           T == TablesOf(U, P, J)
           R == RowsOf(X, Z)
           Y == LabelsOf(Roles(a), statuses, news)
           Z1 == Schema!Dropped(Z, "queue_position")
           d == DbOf(U, X, P, J, Z, Y, BaseIndexSet, w)
           d1 == DbOf(U, X, P, J, Z, Y, BaseIndexSet, 255)
           d2 == DbOf(U, X, P, J, Z, Y, Schema!ModelIndexes, 255)
           d3 == DbOf(U, X, P, Cut(F, S1), Z1, Y, Schema!ModelIndexes, 255)
           one == <<Schema!Widen(255)>>
           mk == Schema!Each(Schema!CreateIndex, Schema!QueueIndexes)
           last == <<Schema!DropColumn("print_jobs", "queue_position")>>
<1>1. d = SchemaDb(X, Z, statuses, news, w, a, department)
  BY DEF SchemaDb, JobTable, IndexesOf
<1>2. Schema!Run(one, d) = d1
  <2>1. Schema!Execute(Schema!Widen(255), Base(T, R, Y, BaseIndexSet, w))
      = Base(T, R, Y, BaseIndexSet, 255)
    <3> HIDE DEF T, R, Y
    <3> QED BY Widens
  <2>2. Len(one) = 1 /\ one[1] = Schema!Widen(255) OBVIOUS
  <2>3. Schema!Execute(one[1], d) = d1 BY <2>1, <2>2 DEF DbOf
  <2> HIDE DEF one, d, d1
  <2> QED BY <2>2, <2>3, RunsOne
<1>3. Schema!Run(mk, d1) = d2
  <2>1. "current_material_id" \in DOMAIN P
    <3>1. CASE "0006" \in a BY <3>1 DEF PrinterTable, Schema!Printer
    <3>2. CASE "0006" \notin a BY <3>2 DEF PrinterTable, Schema!BasePrinters
    <3> QED BY <3>1, <3>2
  <2>2. "material_id" \in DOMAIN J /\ "submitted_at" \in DOMAIN J
    BY JobColumnsAre DEF Cut, JobCore
  <2> HIDE DEF P, J, U
  <2>3. \A i \in 1..6 : /\ Schema!QueueIndexes[i][2] \in DOMAIN T
                        /\ \A x \in Schema!ToSet(Schema!QueueIndexes[i][3]) :
                            x \in DOMAIN T[Schema!QueueIndexes[i][2]]
    BY <2>1, <2>2, QueueIndexesFit
  <2>4. IndexesFit(Schema!QueueIndexes, T) BY <2>3, IndexesAreListed DEF IndexesFit
  <2> HIDE DEF T, R, Y
  <2>5. QueueIndexSet \cap BaseIndexSet = {}
      /\ BaseIndexSet \cup QueueIndexSet = Schema!ModelIndexes
    BY IndexesAreModels
  <2>6. Schema!Run(mk, Base(T, R, Y, BaseIndexSet, 255))
      = Base(T, R, Y, BaseIndexSet \cup QueueIndexSet, 255)
    <3>1. Schema!QueueIndexes \in Seq(QueueIndexSet) /\ ListedIn(Schema!QueueIndexes, QueueIndexSet)
      BY IndexesAreListed
    <3>2. QueueIndexSet \cap BaseIndexSet = {} BY <2>5
    <3> QED BY <2>4, <3>1, <3>2, CreatesIndexes
  <2> QED BY <2>5, <2>6 DEF DbOf, T, R
<1>4. "queue_position" \in S /\ S1 = JobColumns(b, department) BY QueuePositionGoes
<1>5. /\ Schema!Execute(Schema!DropColumn("print_jobs", "queue_position"), d2) = d3
      /\ JobRowsOk(Z1, Cut(F, S1))
  <2>1. JobRowsOk(Z, Cut(F, S)) BY DEF SchemaParts, JobTable
  <2>2. Awaits \subseteq S /\ "queue_position" \notin Awaits BY AwaitsThere DEF Awaits
  <2> HIDE DEF F, S, U, P, Y
  <2> QED BY <1>4, <2>1, <2>2, JobColumnGoes
<1>6. Schema!Run(last, d2) = d3
  <2>1. Len(last) = 1 /\ last[1] = Schema!DropColumn("print_jobs", "queue_position") OBVIOUS
  <2> HIDE DEF last, d2, d3
  <2> QED BY <1>5, <2>1, RunsOne
<1>7. Schema!Run(Schema!AddQueueIndexes, d) = d3
  <2>1. Schema!AddQueueIndexes = one \o mk \o last BY DEF Schema!AddQueueIndexes
  <2>2. one \in Seq({one[1]}) /\ last \in Seq({last[1]}) OBVIOUS
  <2>3. mk \in Seq({mk[i] : i \in 1..6})
    <3>1. mk = [i \in 1..6 |-> mk[i]] BY IndexesAreListed DEF Schema!Each
    <3> HIDE DEF mk
    <3> QED BY <3>1, ListIsSeq
  <2> HIDE DEF one, mk, last, d, d1, d2, d3
  <2>4. Schema!Run(one \o mk \o last, d) = Schema!Run(last, Schema!Run(mk, Schema!Run(one, d)))
    BY <2>2, <2>3, RunThree
  <2> QED BY <2>1, <2>4, <1>2, <1>3, <1>6
<1>8. JobSpecs(b) = F BY RevisionsAre, JobSpecsStay
<1>9. /\ UserTable(b, department) = U /\ Roles(b) = Roles(a)
      /\ PrinterTable(b) = P /\ IndexesOf(b) = Schema!ModelIndexes
  BY DEF UserTable, Roles, PrinterTable, IndexesOf
<1>10. d3 = SchemaDb(X, Z1, statuses, news, 255, b, department)
  <2> HIDE DEF U, F, S1, P, Z1, b
  <2> QED BY <1>4, <1>8, <1>9 DEF SchemaDb, JobTable
<1>11. SchemaParts(X, Z1, statuses, news, 255, b, department)
  <2>1. StatusesOf(b, statuses) BY RevisionsAre DEF StatusesOf, SchemaParts
  <2>2. NewsOf(b, news) BY DEF NewsOf, SchemaParts
  <2>3. WidthOf(b, 255) BY DEF WidthOf
  <2>4. JobRowsOk(Z1, JobTable(b, department)) BY <1>4, <1>5, <1>8 DEF JobTable
  <2>5. UserRowsOk(X, UserTable(b, department)) BY <1>9 DEF SchemaParts
  <2>6. "0003" \in b => department = "department" BY DEF SchemaParts
  <2> HIDE DEF b, Z1
  <2> QED BY <2>1, <2>2, <2>3, <2>4, <2>5, <2>6 DEF SchemaParts
<1>12. Schema!Run(Schema!AddQueueIndexes, SchemaDb(X, Z, statuses, news, w, a, department))
         = SchemaDb(X, Z1, statuses, news, 255, b, department)
  BY <1>1, <1>7, <1>10
<1> HIDE DEF b, Z1
<1> QED BY <1>11, <1>12, NamesStay, TakesThere DEF b

\* and its downgrade.
LEMMA QueueDown ==
  ASSUME NEW X, NEW Z, NEW statuses, NEW news, NEW w, NEW a, NEW department \in DepartmentNames,
         SchemaParts(X, Z, statuses, news, w, a, department), "0002" \in a
  PROVE  GoesTo(Schema!DropQueueIndexes, SchemaDb(X, Z, statuses, news, w, a, department),
      a \ {"0002"})
<1> DEFINE b == a \ {"0002"}
           U == UserTable(a, department)
           P == PrinterTable(a)
           F == JobSpecs(a)
           S == JobColumns(a, department)
           S1 == S \cup {"queue_position"}
           Y == LabelsOf(Roles(a), statuses, news)
           Z1 == Schema!Added(Z, "queue_position", Schema!NULL)
           T == TablesOf(U, P, Cut(F, S1))
           R == RowsOf(X, Z1)
           d == DbOf(U, X, P, Cut(F, S), Z, Y, Schema!ModelIndexes, w)
           d1 == DbOf(U, X, P, Cut(F, S1), Z1, Y, Schema!ModelIndexes, w)
           d2 == DbOf(U, X, P, Cut(F, S1), Z1, Y, BaseIndexSet, w)
           one == <<Schema!AddColumn("print_jobs", "queue_position",
               Schema!Maybe(Schema!Col("integer")))>>
           list == Schema!Reverse(Schema!QueueIndexes)
           ix == Schema!Each(Schema!DropIndex, list)
<1>1. d = SchemaDb(X, Z, statuses, news, w, a, department)
  BY DEF SchemaDb, JobTable, IndexesOf
<1>2. "queue_position" \notin S /\ S1 = JobColumns(b, department) BY QueuePositionComes
<1>3. /\ Schema!Execute(Schema!AddColumn("print_jobs", "queue_position", F["queue_position"]), d)
         = d1
      /\ JobRowsOk(Z1, Cut(F, S1))
  <2>1. F["queue_position"].null /\ F["queue_position"].default = Schema!NULL BY JobSpecsCome
  <2>2. JobRowsOk(Z, Cut(F, S)) BY DEF SchemaParts, JobTable
  <2>3. Awaits \subseteq S BY AwaitsThere
  <2> HIDE DEF F, S, U, P, Y
  <2> QED BY <1>2, <2>1, <2>2, <2>3, JobColumnComes
<1>4. Schema!Run(one, d) = d1
  <2>1. Len(one) = 1 /\ one[1] = Schema!AddColumn("print_jobs", "queue_position",
      Schema!Maybe(Schema!Col("integer")))
    OBVIOUS
  <2>2. F["queue_position"] = Schema!Maybe(Schema!Col("integer")) BY JobSpecsAre
  <2> HIDE DEF one, d, d1, F
  <2> QED BY <1>3, <2>1, <2>2, RunsOne
<1>5. list \in Seq(QueueIndexSet) /\ Len(list) = 6 /\ ListedIn(list, QueueIndexSet)
  BY IndexesAreListed, ReverseLists
<1>6. Schema!Run(ix, d1) = d2
  <2>1. QueueIndexSet \subseteq Schema!ModelIndexes
      /\ Schema!ModelIndexes \ QueueIndexSet = BaseIndexSet
    BY IndexesAreModels
  <2> HIDE DEF list, T, R, Y
  <2>2. Schema!Run(Schema!Each(Schema!DropIndex, list), Base(T, R, Y, Schema!ModelIndexes, w))
          = Base(T, R, Y, Schema!ModelIndexes \ QueueIndexSet, w)
    BY <1>5, <2>1, DropsIndexes
  <2> QED BY <2>1, <2>2 DEF DbOf, T, R, list
<1>7. Schema!Run(Schema!DropQueueIndexes, d) = d2
  <2>1. Schema!DropQueueIndexes = one \o ix BY DEF Schema!DropQueueIndexes
  <2> DEFINE A == {one[1]} \cup {ix[i] : i \in 1..6}
  <2>2. one \in Seq(A) OBVIOUS
  <2>3. ix \in Seq(A)
    <3>1. ix = [i \in 1..6 |-> ix[i]] BY <1>5 DEF Schema!Each
    <3>2. \A i \in 1..6 : ix[i] \in A OBVIOUS
    <3> HIDE DEF ix, A
    <3> QED BY <3>1, <3>2, FunctionIsList
  <2> HIDE DEF one, ix, d, d1, d2, A
  <2>4. Schema!Run(one \o ix, d) = Schema!Run(ix, Schema!Run(one, d)) BY <2>2, <2>3, RunConcat
  <2> QED BY <2>1, <2>4, <1>4, <1>6
<1>8. JobSpecs(b) = F BY RevisionsAre, JobSpecsStay
<1>9. /\ UserTable(b, department) = U /\ Roles(b) = Roles(a)
      /\ PrinterTable(b) = P /\ IndexesOf(b) = BaseIndexSet
  BY DEF UserTable, Roles, PrinterTable, IndexesOf
<1>10. d2 = SchemaDb(X, Z1, statuses, news, w, b, department)
  <2> HIDE DEF U, F, S1, P, Z1, b
  <2> QED BY <1>2, <1>8, <1>9 DEF SchemaDb, JobTable
<1>11. SchemaParts(X, Z1, statuses, news, w, b, department)
  <2>1. StatusesOf(b, statuses) BY RevisionsAre DEF StatusesOf, SchemaParts
  <2>2. NewsOf(b, news) BY DEF NewsOf, SchemaParts
  <2>3. WidthOf(b, w) BY DEF WidthOf, SchemaParts
  <2>4. JobRowsOk(Z1, JobTable(b, department)) BY <1>2, <1>3, <1>8 DEF JobTable
  <2>5. UserRowsOk(X, UserTable(b, department)) BY <1>9 DEF SchemaParts
  <2>6. "0003" \in b => department = "department" BY DEF SchemaParts
  <2> HIDE DEF b, Z1
  <2> QED BY <2>1, <2>2, <2>3, <2>4, <2>5, <2>6 DEF SchemaParts
<1>12. Schema!Run(Schema!DropQueueIndexes, SchemaDb(X, Z, statuses, news, w, a, department))
         = SchemaDb(X, Z1, statuses, news, w, b, department)
  BY <1>1, <1>7, <1>10
<1> HIDE DEF b, Z1
<1> QED BY <1>11, <1>12, NamesStay, TakesThere DEF b

\* With the baseline alone print_jobs is the baseline's.
LEMMA BaseJobsAre ==
  ASSUME NEW department \in DepartmentNames
  PROVE  JobTable({"0001"}, department) = Schema!BaseJobs(department)
<1> DEFINE a == {"0001"}
           F == JobSpecs(a)
           S == JobColumns(a, department)
           B == Schema!BaseJobs(department)
<1>1. \A c : c \in S <=> c \in JobCore \/ c = department \/ c = "queue_position"
  BY RevisionsAre DEF JobColumns, JobCore
<1>2. DOMAIN B = S
  BY <1>1 DEF Schema!BaseJobs, Schema!Put, JobCore
<1>3. B = [c \in DOMAIN B |-> B[c]] BY DEF Schema!BaseJobs, Schema!Put
<1>4. ASSUME NEW c \in S PROVE F[c] = B[c]
  <2>1. CASE c = department
    <3>1. F[department] = Schema!Maybe(Schema!Text) BY JobSpecsAre DEF DepartmentNames
    <3>2. B[department] = Schema!Maybe(Schema!Text) BY DEF Schema!BaseJobs, Schema!Put
    <3> QED BY <2>1, <3>1, <3>2
  <2>2. CASE c # department
    <3>1. Schema!Upload \notin a BY RevisionsAre
    <3>2. c \in JobCore \cup {"queue_position"} BY <1>1, <2>2
    <3>3. F[c] = B[c]
      BY <2>2, <3>1, <3>2 DEF JobSpecs, Schema!PrintJob, Schema!BaseJobs, Schema!Put, JobCore
    <3> QED BY <3>3
  <2> QED BY <2>1, <2>2
<1> HIDE DEF F, S, B
<1>5. Cut(F, S) = B BY <1>2, <1>3, <1>4 DEF Cut
<1> QED BY <1>5 DEF JobTable, F, S, B

\* What the baseline makes of an empty database.
LEMMA BaselineIs ==
  ASSUME NEW department \in DepartmentNames, NEW w, w = 255 \/ w = Schema!VersionWidth
  PROVE  /\ Schema!Run(Schema!Baseline(department), NoBase(w))
              = SchemaDb({}, {}, BaseStatuses, BaseNews, w, {"0001"}, department)
         /\ SchemaParts({}, {}, BaseStatuses, BaseNews, w, {"0001"}, department)
<1> DEFINE a == {"0001"}
<1>1. /\ UserTable(a, department) = Schema!BaseUsers(department)
         /\ PrinterTable(a) = Schema!BasePrinters
      /\ Roles(a) = BaseRoles /\ IndexesOf(a) = BaseIndexSet
  BY DEF UserTable, PrinterTable, Roles, IndexesOf
<1>2. JobTable(a, department) = Schema!BaseJobs(department) BY BaseJobsAre
<1> HIDE DEF a
<1>3. Schema!Run(Schema!Baseline(department), NoBase(w))
        = SchemaDb({}, {}, BaseStatuses, BaseNews, w, a, department)
  BY <1>1, <1>2, BaselineRuns DEF SchemaDb, DbOf, BaseTablesOf, BaseLabels
<1>4. SchemaParts({}, {}, BaseStatuses, BaseNews, w, a, department)
  <2>1. StatusesOf(a, BaseStatuses) BY RevisionsAre DEF StatusesOf, a
  <2>2. NewsOf(a, BaseNews) BY DEF NewsOf, a
  <2>3. WidthOf(a, w) BY DEF WidthOf, a
  <2>4. "0003" \notin a BY DEF a
  <2> QED BY <2>1, <2>2, <2>3, <2>4 DEF SchemaParts, UserRowsOk, JobRowsOk
<1> QED BY <1>3, <1>4 DEF a

\* downgrade of 0001 leaves an empty database, whatever was in it.
LEMMA BaselineDown ==
  ASSUME NEW X, NEW Z, NEW statuses, NEW news, NEW w, NEW department \in DepartmentNames
  PROVE  Schema!Run(Schema!DropBaseline, SchemaDb(X, Z, statuses, news, w, {"0001"}, department))
      = NoBase(w)
<1> DEFINE a == {"0001"}
<1>1. /\ UserTable(a, department) = Schema!BaseUsers(department)
         /\ PrinterTable(a) = Schema!BasePrinters
      /\ IndexesOf(a) = BaseIndexSet
  BY DEF UserTable, PrinterTable, IndexesOf
<1>2. JobTable(a, department) = Schema!BaseJobs(department) BY BaseJobsAre
<1>3. /\ Refer(Schema!BaseUsers(department), {}) /\ Refer(Schema!BasePrinters, {"materials"})
      /\ Refer(Schema!BaseJobs(department), {"users", "printers", "materials"})
  BY BaseTablesRefer
<1> HIDE DEF a
<1>4. Schema!Run(Schema!DropBaseline, DbOf(Schema!BaseUsers(department), X, Schema!BasePrinters,
    Schema!BaseJobs(department), Z,
            LabelsOf(Roles(a), statuses, news), BaseIndexSet, w)) = NoBase(w)
  BY <1>3, DropBaselineRuns
<1> QED BY <1>1, <1>2, <1>4 DEF SchemaDb, a

--------------------------------------------------------------------------------
(* The users' columns between two names and three *)

NumberNames == {"student_number", "student_staff_number"}

UserColumns == {"id", "email", "department", "created_at", "role", "first_name", "last_name",
                "name", "auth_hash"} \cup NumberNames
UserSpecs(role, f, l, m, n, h) ==
  [c \in UserColumns |->
     IF c = "role" THEN role ELSE IF c = "first_name" THEN f ELSE IF c = "last_name" THEN l
     ELSE IF c = "name" THEN m ELSE IF c \in NumberNames THEN n ELSE IF c = "auth_hash" THEN h
     ELSE Schema!User[c]]
UserStage(S, role, f, l, m, n, h) == Cut(UserSpecs(role, f, l, m, n, h), S)

BaseUserNames == {"id", "email", "name", "student_staff_number", "role", "auth_hash",
                  "created_at", "department"}
UserNames == {"id", "email", "first_name", "last_name", "student_number", "role", "department",
              "created_at"}

\* The baseline's users are the first stage and the models' the last.
LEMMA UserStages ==
  ASSUME NEW f, NEW l, NEW m, NEW h
  PROVE  /\ Schema!BaseUsers("department") = UserStage(BaseUserNames,
              Schema!Default(Schema!Col("user_role"), "student_staff"), f, l, Schema!Text,
                  Schema!Text, Schema!Text)
         /\ Schema!User = UserStage(UserNames,
              Schema!Default(Schema!Col("user_role"), "student"), Schema!Text, Schema!Text, m,
                  Schema!Maybe(Schema!Text), h)
<1>1. Schema!BaseUsers("department") = UserStage(BaseUserNames,
              Schema!Default(Schema!Col("user_role"), "student_staff"), f, l, Schema!Text,
                  Schema!Text, Schema!Text)
  BY DEF Schema!BaseUsers, UserStage, UserSpecs, Cut, Schema!Put, BaseUserNames, Schema!User,
      NumberNames, UserColumns
<1>2. Schema!User = UserStage(UserNames,
              Schema!Default(Schema!Col("user_role"), "student"), Schema!Text, Schema!Text, m,
                  Schema!Maybe(Schema!Text), h)
  BY DEF UserStage, UserSpecs, Cut, UserNames, Schema!User, NumberNames, UserColumns
<1> QED BY <1>1, <1>2

\* A stage has the columns and the definitions that it is given.
LEMMA StageIs ==
  ASSUME NEW S, NEW role, NEW f, NEW l, NEW m, NEW n, NEW h
  PROVE  /\ DOMAIN UserStage(S, role, f, l, m, n, h) = S
         /\ "role" \in S => UserStage(S, role, f, l, m, n, h)["role"] = role
         /\ "first_name" \in S => UserStage(S, role, f, l, m, n, h)["first_name"] = f
         /\ "last_name" \in S => UserStage(S, role, f, l, m, n, h)["last_name"] = l
         /\ "name" \in S => UserStage(S, role, f, l, m, n, h)["name"] = m
         /\ \A c \in NumberNames : c \in S => UserStage(S, role, f, l, m, n, h)[c] = n
         /\ "auth_hash" \in S => UserStage(S, role, f, l, m, n, h)["auth_hash"] = h
BY DEF UserStage, UserSpecs, Cut, NumberNames, UserColumns

\* One column changes.
LEMMA NullSetIs ==
  ASSUME NEW S, NEW A, NEW B, A = [x \in S |-> A[x]], B = [x \in S |-> B[x]], NEW c \in S, NEW v,
         B[c] = [A[c] EXCEPT !.null = v], \A x \in S : x # c => A[x] = B[x]
  PROVE  NullSet(A, c, v) = B
BY DEF NullSet

\* A default is set if that is all that differs.
LEMMA DefaultSetIs ==
  ASSUME NEW S, NEW A, NEW B, A = [x \in S |-> A[x]], B = [x \in S |-> B[x]], NEW c \in S, NEW v,
         B[c] = [A[c] EXCEPT !.default = v], \A x \in S : x # c => A[x] = B[x]
  PROVE  DefaultSet(A, c, v) = B
BY DEF DefaultSet

\* A stage with another default of the role,
LEMMA RoleDefaults ==
  ASSUME NEW S, NEW role, NEW f, NEW l, NEW m, NEW n, NEW h, "role" \in S, S \subseteq UserColumns,
         NEW v
  PROVE  DefaultSet(UserStage(S, role, f, l, m, n, h), "role", v)
           = UserStage(S, [role EXCEPT !.default = v], f, l, m, n, h)
<1> DEFINE g == [role EXCEPT !.default = v]
           A == UserStage(S, role, f, l, m, n, h)
           B == UserStage(S, g, f, l, m, n, h)
<1>1. A["role"] = role /\ B["role"] = g BY StageIs
<1>2. \A x \in S : x # "role" => A[x] = B[x] BY DEF UserStage, UserSpecs, Cut
<1>3. A = [x \in S |-> A[x]] /\ B = [x \in S |-> B[x]] BY DEF UserStage, Cut
<1> HIDE DEF A, B
<1>4. DefaultSet(A, "role", v) = B BY <1>1, <1>2, <1>3, DefaultSetIs
<1> QED BY <1>4 DEF A, B

\* or of the hash,
LEMMA HashDefaults ==
  ASSUME NEW S, NEW role, NEW f, NEW l, NEW m, NEW n, NEW h, "auth_hash" \in S,
      S \subseteq UserColumns,
         NEW v
  PROVE  DefaultSet(UserStage(S, role, f, l, m, n, h), "auth_hash", v)
           = UserStage(S, role, f, l, m, n, [h EXCEPT !.default = v])
<1> DEFINE g == [h EXCEPT !.default = v]
           A == UserStage(S, role, f, l, m, n, h)
           B == UserStage(S, role, f, l, m, n, g)
<1>1. A["auth_hash"] = h /\ B["auth_hash"] = g BY StageIs
<1>2. \A x \in S : x # "auth_hash" => A[x] = B[x] BY DEF UserStage, UserSpecs, Cut
<1>3. A = [x \in S |-> A[x]] /\ B = [x \in S |-> B[x]] BY DEF UserStage, Cut
<1> HIDE DEF A, B
<1>4. DefaultSet(A, "auth_hash", v) = B BY <1>1, <1>2, <1>3, DefaultSetIs
<1> QED BY <1>4 DEF A, B

\* one whose first name may be NULL or may not,
LEMMA FirstNameNulls ==
  ASSUME NEW S, NEW role, NEW f, NEW l, NEW m, NEW n, NEW h, "first_name" \in S,
      S \subseteq UserColumns,
         NEW v
  PROVE  NullSet(UserStage(S, role, f, l, m, n, h), "first_name", v)
           = UserStage(S, role, [f EXCEPT !.null = v], l, m, n, h)
<1> DEFINE g == [f EXCEPT !.null = v]
           A == UserStage(S, role, f, l, m, n, h)
           B == UserStage(S, role, g, l, m, n, h)
<1>1. A["first_name"] = f /\ B["first_name"] = g BY StageIs
<1>2. \A x \in S : x # "first_name" => A[x] = B[x] BY DEF UserStage, UserSpecs, Cut
<1>3. A = [x \in S |-> A[x]] /\ B = [x \in S |-> B[x]] BY DEF UserStage, Cut
<1> HIDE DEF A, B
<1>4. NullSet(A, "first_name", v) = B BY <1>1, <1>2, <1>3, NullSetIs
<1> QED BY <1>4 DEF A, B

\* last name,
LEMMA LastNameNulls ==
  ASSUME NEW S, NEW role, NEW f, NEW l, NEW m, NEW n, NEW h, "last_name" \in S,
      S \subseteq UserColumns,
         NEW v
  PROVE  NullSet(UserStage(S, role, f, l, m, n, h), "last_name", v)
           = UserStage(S, role, f, [l EXCEPT !.null = v], m, n, h)
<1> DEFINE g == [l EXCEPT !.null = v]
           A == UserStage(S, role, f, l, m, n, h)
           B == UserStage(S, role, f, g, m, n, h)
<1>1. A["last_name"] = l /\ B["last_name"] = g BY StageIs
<1>2. \A x \in S : x # "last_name" => A[x] = B[x] BY DEF UserStage, UserSpecs, Cut
<1>3. A = [x \in S |-> A[x]] /\ B = [x \in S |-> B[x]] BY DEF UserStage, Cut
<1> HIDE DEF A, B
<1>4. NullSet(A, "last_name", v) = B BY <1>1, <1>2, <1>3, NullSetIs
<1> QED BY <1>4 DEF A, B

\* name
LEMMA NameNulls ==
  ASSUME NEW S, NEW role, NEW f, NEW l, NEW m, NEW n, NEW h, "name" \in S, S \subseteq UserColumns,
         NEW v
  PROVE  NullSet(UserStage(S, role, f, l, m, n, h), "name", v)
           = UserStage(S, role, f, l, [m EXCEPT !.null = v], n, h)
<1> DEFINE g == [m EXCEPT !.null = v]
           A == UserStage(S, role, f, l, m, n, h)
           B == UserStage(S, role, f, l, g, n, h)
<1>1. A["name"] = m /\ B["name"] = g BY StageIs
<1>2. \A x \in S : x # "name" => A[x] = B[x] BY DEF UserStage, UserSpecs, Cut
<1>3. A = [x \in S |-> A[x]] /\ B = [x \in S |-> B[x]] BY DEF UserStage, Cut
<1> HIDE DEF A, B
<1>4. NullSet(A, "name", v) = B BY <1>1, <1>2, <1>3, NullSetIs
<1> QED BY <1>4 DEF A, B

\* or number, by either of its names;
LEMMA NumberNulls ==
  ASSUME NEW S, NEW role, NEW f, NEW l, NEW m, NEW n, NEW h, NEW v, S \subseteq UserColumns,
         NEW c \in NumberNames, c \in S, \A x \in NumberNames : x \in S => x = c
  PROVE  NullSet(UserStage(S, role, f, l, m, n, h), c, v)
           = UserStage(S, role, f, l, m, [n EXCEPT !.null = v], h)
<1> DEFINE g == [n EXCEPT !.null = v]
           A == UserStage(S, role, f, l, m, n, h)
           B == UserStage(S, role, f, l, m, g, h)
<1>1. A[c] = n /\ B[c] = g BY StageIs
<1>2. ASSUME NEW x \in S, x # c PROVE A[x] = B[x]
  <2>1. x \notin NumberNames BY <1>2
  <2> QED BY <2>1 DEF UserStage, UserSpecs, Cut
<1>3. A = [x \in S |-> A[x]] /\ B = [x \in S |-> B[x]] BY DEF UserStage, Cut
<1> HIDE DEF A, B
<1>4. NullSet(A, c, v) = B BY <1>1, <1>2, <1>3, NullSetIs
<1> QED BY <1>4 DEF A, B

\* one with a first name more,
LEMMA FirstNameComes ==
  ASSUME NEW S, NEW role, NEW f, NEW l, NEW m, NEW n, NEW h
  PROVE  Schema!Put(UserStage(S, role, f, l, m, n, h), "first_name", f)
           = UserStage(S \cup {"first_name"}, role, f, l, m, n, h)
<1> DEFINE F == UserSpecs(role, f, l, m, n, h)
<1>1. F["first_name"] = f BY DEF UserSpecs, NumberNames, UserColumns
<1> HIDE DEF F
<1>2. Schema!Put(Cut(F, S), "first_name", F["first_name"]) = Cut(F, S \cup {"first_name"}) BY CutPut
<1> QED BY <1>1, <1>2 DEF UserStage, F

\* a last name,
LEMMA LastNameComes ==
  ASSUME NEW S, NEW role, NEW f, NEW l, NEW m, NEW n, NEW h
  PROVE  Schema!Put(UserStage(S, role, f, l, m, n, h), "last_name", l)
           = UserStage(S \cup {"last_name"}, role, f, l, m, n, h)
<1> DEFINE F == UserSpecs(role, f, l, m, n, h)
<1>1. F["last_name"] = l BY DEF UserSpecs, NumberNames, UserColumns
<1> HIDE DEF F
<1>2. Schema!Put(Cut(F, S), "last_name", F["last_name"]) = Cut(F, S \cup {"last_name"}) BY CutPut
<1> QED BY <1>1, <1>2 DEF UserStage, F

\* a name
LEMMA NameComes ==
  ASSUME NEW S, NEW role, NEW f, NEW l, NEW m, NEW n, NEW h
  PROVE  Schema!Put(UserStage(S, role, f, l, m, n, h), "name", m)
           = UserStage(S \cup {"name"}, role, f, l, m, n, h)
<1> DEFINE F == UserSpecs(role, f, l, m, n, h)
<1>1. F["name"] = m BY DEF UserSpecs, NumberNames, UserColumns
<1> HIDE DEF F
<1>2. Schema!Put(Cut(F, S), "name", F["name"]) = Cut(F, S \cup {"name"}) BY CutPut
<1> QED BY <1>1, <1>2 DEF UserStage, F

\* or a hash;
LEMMA HashComes ==
  ASSUME NEW S, NEW role, NEW f, NEW l, NEW m, NEW n, NEW h
  PROVE  Schema!Put(UserStage(S, role, f, l, m, n, h), "auth_hash", h)
           = UserStage(S \cup {"auth_hash"}, role, f, l, m, n, h)
<1> DEFINE F == UserSpecs(role, f, l, m, n, h)
<1>1. F["auth_hash"] = h BY DEF UserSpecs, NumberNames, UserColumns
<1> HIDE DEF F
<1>2. Schema!Put(Cut(F, S), "auth_hash", F["auth_hash"]) = Cut(F, S \cup {"auth_hash"}) BY CutPut
<1> QED BY <1>1, <1>2 DEF UserStage, F

\* one with a column less,
LEMMA StageLoses ==
  ASSUME NEW S, NEW role, NEW f, NEW l, NEW m, NEW n, NEW h, NEW c
  PROVE  Schema!Without(UserStage(S, role, f, l, m, n, h), c)
      = UserStage(S \ {c}, role, f, l, m, n, h)
BY CutWithout DEF UserStage

\* one with the number renamed,
LEMMA StageRenames ==
  ASSUME NEW S, NEW role, NEW f, NEW l, NEW m, NEW n, NEW h,
         NEW x \in NumberNames, NEW y \in NumberNames, x \in S, y \notin S
  PROVE  Schema!Renamed(UserStage(S, role, f, l, m, n, h), x, y)
           = UserStage((S \ {x}) \cup {y}, role, f, l, m, n, h)
<1> DEFINE F == UserSpecs(role, f, l, m, n, h)
<1>1. F[x] = F[y] BY DEF UserSpecs, NumberNames, UserColumns
<1> HIDE DEF F
<1> QED BY <1>1, CutRenamed DEF UserStage, F

\* and one whose role has no default, which relabelling leaves alone.
LEMMA StageRelabels ==
  ASSUME NEW S, NEW role, NEW f, NEW l, NEW m, NEW n, NEW h, NEW from, NEW to,
         S \subseteq UserColumns, role.default = Schema!NULL,
             role = [c \in DOMAIN role |-> role[c]],
         f.type = "text", l.type = "text", m.type = "text", n.type = "text", h.type = "text"
  PROVE  Schema!RelabelColumns(UserStage(S, role, f, l, m, n, h), "user_role", from, to)
           = UserStage(S, role, f, l, m, n, h)
<1> DEFINE A == UserStage(S, role, f, l, m, n, h)
<1>1. A = [x \in S |-> A[x]] /\ DOMAIN A = S BY DEF UserStage, Cut
<1>2. ASSUME NEW x \in S, x # "role" PROVE A[x].type # "user_role"
  <2>1. A[x] = UserSpecs(role, f, l, m, n, h)[x] /\ x \in UserColumns BY DEF UserStage, Cut
  <2>2. A[x] \in {f, l, m, n, h} \cup {Schema!User["id"], Schema!User["email"],
      Schema!User["department"],
                                       Schema!User["created_at"]}
    BY <1>2, <2>1 DEF UserSpecs, UserColumns
  <2>3. /\ Schema!User["id"] = Schema!Id /\ Schema!User["email"] = Schema!Unique(Schema!Text)
           /\ Schema!User["department"] = Schema!Maybe(Schema!Text)
        /\ Schema!User["created_at"] = Schema!Now
    BY DEF Schema!User
  <2> HIDE DEF A
  <2> QED BY <2>2, <2>3, ColumnsAre
<1>3. "role" \in S => A["role"] = role BY StageIs
<1>4. [role EXCEPT !.default = Schema!RelabelValue(@, from, to)] = role
  <2>1. Schema!RelabelValue(Schema!NULL, from, to) = Schema!NULL
    BY DEF Schema!RelabelValue, Schema!NULL
  <2> QED BY <2>1
<1> HIDE DEF A
<1>5. ASSUME NEW x \in S
      PROVE  (IF A[x].type = "user_role" THEN [A[x] EXCEPT !.default
          = Schema!RelabelValue(@, from, to)]
              ELSE A[x]) = A[x]
  BY <1>2, <1>3, <1>4
<1> QED BY <1>1, <1>5 DEF Schema!RelabelColumns, A

--------------------------------------------------------------------------------
(* The users' rows between two names and three *)

\* A user's name, and the two it is split into.
FullOf(r) == IF "name" \in DOMAIN r THEN r.name ELSE Schema!Joined(r.first_name, r.last_name)
FirstOf(r) == IF "name" \in DOMAIN r THEN Schema!FirstWord(r.name) ELSE r.first_name
LastOf(r) == IF "name" \in DOMAIN r THEN Schema!OtherWords(r.name) ELSE r.last_name

\* What user r should come to have in column c.
Worth(c, r, v) ==
  IF c = "name" THEN v = FullOf(r)
  ELSE IF c = "first_name" THEN v = FirstOf(r)
  ELSE IF c = "last_name" THEN v = LastOf(r)
  ELSE v # Schema!NULL

\* Row s is what a script has made of user r, with the columns K as they should be.
Stage(K, M, r, s) ==
  RowOk(M, s) /\ K \subseteq DOMAIN M /\ \A c \in K : Worth(c, r, s[c])

Traced(K, M, X, S) ==
  /\ \A s \in S : \E r \in X : Stage(K, M, r, s)
  /\ \A r \in X : \E s \in S : Stage(K, M, r, s)

\* The empty text is a name of one word, the empty one.
LEMMA EmptyIs == Len(Schema!Empty) = 1 /\ Schema!Empty[1] = "" /\ Schema!Empty \in Names
<1>1. ASSUME NEW S, NEW e \in S
      PROVE  Len(<<e>>) = 1 /\ <<e>>[1] = e /\ <<e>> \in Seq(S) /\ <<e>> # <<>>
  OBVIOUS
<1>2. "" \in Schema!Words BY DEF Schema!Words
<1>3. Len(<<"">>) = 1 /\ <<"">>[1] = "" /\ <<"">> \in Seq(Schema!Words) /\ <<"">> # <<>>
  BY <1>1, <1>2
<1> QED BY <1>3 DEF Schema!Empty, Names

\* A name of several words is the first and the others.
LEMMA WordsAre ==
  ASSUME NEW n, Len(n) # 1
  PROVE  Schema!FirstWord(n) = <<Head(n)>> /\ Schema!OtherWords(n) = Tail(n)
BY DEF Schema!FirstWord, Schema!OtherWords

\* The first word alone.
LEMMA FirstOnly ==
  ASSUME NEW S, NEW n \in Seq(S), Len(n) >= 2
  PROVE  SubSeq(n, 1, 1) = <<n[1]>>
<1>1. Len(SubSeq(n, 1, 1)) = 1 /\ SubSeq(n, 1, 1)[1] = n[1] /\ SubSeq(n, 1, 1) \in Seq(S) OBVIOUS
<1> DEFINE t == SubSeq(n, 1, 1)
<1>2. t \in Seq(S) /\ Len(t) = 1 /\ t[1] = n[1] BY <1>1
<1> HIDE DEF t
<1>3. t = <<t[1]>> BY <1>2
<1> QED BY <1>2, <1>3 DEF t

\* A sequence is its first element and the rest.
LEMMA TailIs ==
  ASSUME NEW S, NEW n \in Seq(S), n # <<>>, NEW k \in Nat, k = Len(n)
  PROVE  /\ k >= 1 /\ Tail(n) \in Seq(S) /\ Len(Tail(n)) = k - 1 /\ <<Head(n)>> \in Seq(S)
         /\ <<Head(n)>> \o Tail(n) = n /\ Head(n) = n[1]
         /\ k = 2 => Tail(n)[1] = n[2]
OBVIOUS

\* A name of two words or more, of which the second may be empty.
LEMMA NameSplits ==
  ASSUME NEW n \in Names, Len(n) # 1
  PROVE  /\ Schema!FirstWord(n) \in Names /\ Schema!OtherWords(n) \in Names
         /\ Schema!Trimmed(Schema!Joined(Schema!FirstWord(n), Schema!OtherWords(n)))
             = Schema!Trimmed(n)
<1> DEFINE k == Len(n)
           t == Tail(n)
           m == Len(t)
           h == <<Head(n)>>
<1>1. n \in Seq(Schema!Words) /\ n # <<>> /\ k \in Nat BY DEF Names
<1>2. /\ k >= 1 /\ t \in Seq(Schema!Words) /\ m = k - 1 /\ h \in Seq(Schema!Words)
      /\ h \o t = n /\ Head(n) = n[1]
      /\ k = 2 => t[1] = n[2]
  BY <1>1, TailIs
<1>3. Schema!FirstWord(n) = h /\ Schema!OtherWords(n) = t BY WordsAre
<1>4. k # 1 OBVIOUS
<1>5. h # <<>> /\ h = <<n[1]>> BY <1>2
<1> HIDE DEF k, m, h
<1>6. k >= 2 /\ m # 0 BY <1>1, <1>2, <1>4
<1>7. t # <<>>
  <2>1. Len(<<>>) = 0 OBVIOUS
  <2> QED BY <1>6, <2>1 DEF m
<1> HIDE DEF t
<1>8. Schema!FirstWord(n) \in Names /\ Schema!OtherWords(n) \in Names
  BY <1>2, <1>3, <1>5, <1>7 DEF Names
<1>9. CASE t # Schema!Empty
  <2>1. Schema!Joined(h, t) = n BY <1>2, <1>9 DEF Schema!Joined
  <2> QED BY <1>3, <1>8, <2>1
<1>10. CASE t = Schema!Empty
  <2>1. Schema!Joined(h, t) = h BY <1>10 DEF Schema!Joined
  <2>2. m = 1 /\ t[1] = "" BY <1>10, EmptyIs DEF m
  <2>3. k = 2
    <3>1. k \in Nat /\ m = k - 1 /\ m = 1 BY <1>1, <1>2, <2>2
    <3> QED BY <3>1
  <2>4. n[2] = "" BY <1>2, <2>2, <2>3
  <2>5. Schema!Trimmed(n) = SubSeq(n, 1, 1)
    <3>1. Schema!Trimmed(n) = SubSeq(n, 1, k - 1)
      <4>1. k > 1 BY <2>3
      <4>2. n[k] = "" BY <2>3, <2>4
      <4> QED BY <4>1, <4>2 DEF Schema!Trimmed, k
    <3>2. k - 1 = 1 BY <2>3
    <3> QED BY <3>1, <3>2
  <2>6. SubSeq(n, 1, 1) = <<n[1]>>
    <3>1. Len(n) >= 2 BY <1>6 DEF k
    <3> QED BY <3>1, <1>1, FirstOnly
  <2>7. Schema!Trimmed(h) = h
    <3>1. Len(h) = 1 BY DEF h
    <3>2. ~(Len(h) > 1) BY <3>1
    <3> QED BY <3>2 DEF Schema!Trimmed
  <2> QED BY <1>3, <1>5, <1>8, <2>1, <2>5, <2>6, <2>7
<1> QED BY <1>9, <1>10

\* What is split off a name are names, and joined they are the name again, trimmed.
LEMMA NamesMade ==
  ASSUME NEW n \in Names
  PROVE  /\ Schema!FirstWord(n) \in Names /\ Schema!OtherWords(n) \in Names
         /\ Schema!Trimmed(Schema!Joined(Schema!FirstWord(n), Schema!OtherWords(n)))
             = Schema!Trimmed(n)
<1>1. CASE Len(n) = 1
  <2>1. Schema!FirstWord(n) = n /\ Schema!OtherWords(n) = Schema!Empty
    BY <1>1 DEF Schema!FirstWord, Schema!OtherWords
  <2> QED BY <2>1, EmptyIs DEF Schema!Joined
<1>2. CASE Len(n) # 1 BY <1>2, NameSplits
<1> QED BY <1>1, <1>2

\* Two names joined are a name.
LEMMA JoinedNames ==
  ASSUME NEW f \in Names, NEW l \in Names
  PROVE  Schema!Joined(f, l) \in Names
<1>1. f \o l \in Seq(Schema!Words) /\ Len(f \o l) = Len(f) + Len(l) /\ Len(f) >= 1 /\ Len(l) \in Nat
  BY DEF Names
<1>2. f \o l # <<>> BY <1>1
<1> QED BY <1>1, <1>2 DEF Names, Schema!Joined

\* No name is NULL.
LEMMA NamesAreSomething == ASSUME NEW n \in Names PROVE n # Schema!NULL
BY DEF Names, Schema!NULL

\* However a user's name is stored, it has a full one, a first and a last.
LEMMA WorthIsName ==
  ASSUME NEW r, NamesOk(r)
  PROVE  FullOf(r) \in Names /\ FirstOf(r) \in Names /\ LastOf(r) \in Names
BY NamesMade, JoinedNames DEF NamesOk, FullOf, FirstOf, LastOf

\* A row on its way from r stays so with a column more,
LEMMA StagesAdd ==
  ASSUME NEW K, NEW M, NEW r, NEW s, Stage(K, M, r, s), NEW c, c \notin DOMAIN M, NEW spec, NEW v,
         v # Schema!NULL \/ spec.null
  PROVE  Stage(K, Schema!Put(M, c, spec), r, Schema!Put(s, c, v))
<1>1. RowOk(Schema!Put(M, c, spec), Schema!Put(s, c, v)) BY RowGains DEF Stage
<1>2. K \subseteq DOMAIN M /\ c \notin K /\ DOMAIN s = DOMAIN M BY DEF Stage, RowOk
<1>3. DOMAIN Schema!Put(M, c, spec) = DOMAIN M \cup {c} /\ \A x \in K :
    Schema!Put(s, c, v)[x] = s[x]
  BY <1>2 DEF Schema!Put
<1> QED BY <1>1, <1>2, <1>3 DEF Stage

\* with one less,
LEMMA StagesDrop ==
  ASSUME NEW K, NEW M, NEW r, NEW s, Stage(K, M, r, s), NEW c
  PROVE  Stage(K \ {c}, Schema!Without(M, c), r, Schema!Without(s, c))
<1>1. RowOk(Schema!Without(M, c), Schema!Without(s, c)) BY RowLoses DEF Stage
<1>2. K \subseteq DOMAIN M /\ DOMAIN s = DOMAIN M BY DEF Stage, RowOk
<1>3. DOMAIN Schema!Without(M, c) = DOMAIN M \ {c} /\ \A x \in K \ {c} :
    Schema!Without(s, c)[x] = s[x]
  BY <1>2 DEF Schema!Without
<1> QED BY <1>1, <1>2, <1>3 DEF Stage

\* with one renamed that is not traced,
LEMMA StagesRename ==
  ASSUME NEW K, NEW M, NEW r, NEW s, Stage(K, M, r, s), NEW x \in DOMAIN M, x \notin K,
         NEW y, y \notin DOMAIN M
  PROVE  Stage(K, Schema!Renamed(M, x, y), r, Schema!Renamed(s, x, y))
<1>1. RowOk(Schema!Renamed(M, x, y), Schema!Renamed(s, x, y)) BY RowRenames DEF Stage
<1>2. K \subseteq DOMAIN M /\ DOMAIN s = DOMAIN M BY DEF Stage, RowOk
<1>3. /\ DOMAIN Schema!Renamed(M, x, y) = (DOMAIN M \ {x}) \cup {y}
      /\ \A c \in K : Schema!Renamed(s, x, y)[c] = s[c]
  BY <1>2 DEF Schema!Renamed, Schema!Put, Schema!Without
<1> QED BY <1>1, <1>2, <1>3 DEF Stage

\* A column becomes as it should be.
LEMMA StagesUpdate ==
  ASSUME NEW K, NEW M, NEW r, NEW s, Stage(K, M, r, s), NEW c \in DOMAIN M, NEW v,
         v # Schema!NULL \/ M[c].null, Worth(c, r, v)
  PROVE  Stage(K \cup {c}, M, r, [s EXCEPT ![c] = v])
<1>1. RowOk(M, [s EXCEPT ![c] = v]) BY RowUpdates DEF Stage
<1>2. K \subseteq DOMAIN M /\ DOMAIN s = DOMAIN M BY DEF Stage, RowOk
<1>3. /\ [s EXCEPT ![c] = v][c] = v
      /\ \A x \in K : x # c => [s EXCEPT ![c] = v][x] = s[x]
  BY <1>2
<1> DEFINE u == [s EXCEPT ![c] = v]
<1> HIDE DEF u
<1>4. u[c] = v /\ \A x \in K : x # c => u[x] = s[x] BY <1>3 DEF u
<1>5. RowOk(M, u) BY <1>1 DEF u
<1>6. \A x \in K \cup {c} : Worth(x, r, u[x]) BY <1>4 DEF Stage
<1> QED BY <1>2, <1>5, <1>6 DEF Stage, u

\* Columns may be forgotten, and the table may be less strict.
LEMMA StagesStay ==
  ASSUME NEW K, NEW M, NEW r, NEW s, Stage(K, M, r, s), NEW L, L \subseteq K,
         NEW N, DOMAIN N = DOMAIN M, \A c \in DOMAIN M : M[c].null =>
             N[c].null \/ s[c] # Schema!NULL
  PROVE  Stage(L, N, r, s)
<1>1. RowOk(N, s) BY RowStays DEF Stage
<1> QED BY <1>1 DEF Stage

\* and relabelled where it is not traced.
LEMMA StagesRelabel ==
  ASSUME NEW K, NEW M, NEW r, NEW s, Stage(K, M, r, s), NEW type, NEW from, NEW to,
         \A c \in K : M[c].type # type
  PROVE  Stage(K, M, r, RowRelabelled(M, s, type, from, to))
<1> DEFINE u == RowRelabelled(M, s, type, from, to)
<1>1. RowOk(M, u) BY RowRelabels DEF Stage
<1>2. K \subseteq DOMAIN M /\ DOMAIN s = DOMAIN M BY DEF Stage, RowOk
<1>3. \A c \in K : u[c] = s[c] BY <1>2 DEF RowRelabelled
<1> HIDE DEF u
<1>4. Stage(K, M, r, u) BY <1>1, <1>3 DEF Stage
<1> QED BY <1>4 DEF u

\* So do all rows together: a column more,
LEMMA TracedAdds ==
  ASSUME NEW K, NEW M, NEW X, NEW S, Traced(K, M, X, S), NEW c, c \notin DOMAIN M, NEW spec,
         spec.default # Schema!NULL \/ spec.null
  PROVE  Traced(K, Schema!Put(M, c, spec), X, Schema!Added(S, c, spec.default))
<1>1. ASSUME NEW r, NEW s, Stage(K, M, r, s)
      PROVE  Stage(K, Schema!Put(M, c, spec), r, Schema!Put(s, c, spec.default))
  BY <1>1, StagesAdd
<1> QED BY <1>1 DEF Traced, Schema!Added

\* one less,
LEMMA TracedDrops ==
  ASSUME NEW K, NEW M, NEW X, NEW S, Traced(K, M, X, S), NEW c
  PROVE  Traced(K \ {c}, Schema!Without(M, c), X, Schema!Dropped(S, c))
<1>1. ASSUME NEW r, NEW s, Stage(K, M, r, s)
      PROVE  Stage(K \ {c}, Schema!Without(M, c), r, Schema!Without(s, c))
  BY <1>1, StagesDrop
<1> QED BY <1>1 DEF Traced, Schema!Dropped

\* one renamed,
LEMMA TracedRenames ==
  ASSUME NEW K, NEW M, NEW X, NEW S, Traced(K, M, X, S), NEW x \in DOMAIN M, x \notin K,
         NEW y, y \notin DOMAIN M
  PROVE  Traced(K, Schema!Renamed(M, x, y), X, Schema!RenamedIn(S, x, y))
<1>1. ASSUME NEW r, NEW s, Stage(K, M, r, s)
      PROVE  Stage(K, Schema!Renamed(M, x, y), r, Schema!Renamed(s, x, y))
  BY <1>1, StagesRename
<1> QED BY <1>1 DEF Traced, Schema!RenamedIn

\* The rule gives the column what it should have.
RuleFits(K, M, X, S, c, rule) ==
  \A r \in X, s \in S :
    Stage(K, M, r, s) => Schema!ValueBy(rule, s) # Schema!NULL
        /\ Worth(c, r, Schema!ValueBy(rule, s))

RowUpdated(s, c, rule) == [s EXCEPT ![c] = Schema!ValueBy(rule, s)]

\* one updated, which is traced from then on if the rule fits,
LEMMA TracedUpdates ==
  ASSUME NEW K, NEW M, NEW X, NEW S, Traced(K, M, X, S), NEW c \in DOMAIN M, NEW rule,
         RuleFits(K, M, X, S, c, rule)
  PROVE  Traced(K \cup {c}, M, X, Updated(S, c, rule))
<1>1. ASSUME NEW r \in X, NEW s \in S, Stage(K, M, r, s)
      PROVE  Stage(K \cup {c}, M, r, RowUpdated(s, c, rule))
  <2>1. Schema!ValueBy(rule, s) # Schema!NULL /\ Worth(c, r, Schema!ValueBy(rule, s))
    BY <1>1 DEF RuleFits
  <2> QED BY <1>1, <2>1, StagesUpdate DEF RowUpdated
<1>2. Updated(S, c, rule) = {RowUpdated(s, c, rule) : s \in S} BY DEF Updated, RowUpdated
<1> QED BY <1>1, <1>2 DEF Traced

\* fewer traced, in columns that ask for less.
LEMMA TracedStays ==
  ASSUME NEW K, NEW M, NEW X, NEW S, Traced(K, M, X, S), NEW L, L \subseteq K,
         NEW N, DOMAIN N = DOMAIN M, \A c \in DOMAIN M : M[c].null => N[c].null
  PROVE  Traced(L, N, X, S)
<1>1. ASSUME NEW r, NEW s, Stage(K, M, r, s)
      PROVE  Stage(L, N, r, s)
  BY <1>1, StagesStay
<1> QED BY <1>1 DEF Traced

\* A column that is as it should be is never NULL.
LEMMA WorthIsSomething ==
  ASSUME NEW c, NEW r, NamesOk(r), NEW v, Worth(c, r, v)
  PROVE  v # Schema!NULL
BY WorthIsName, NamesAreSomething DEF Worth

\* What is traced is not NULL,
LEMMA TracedIsStrict ==
  ASSUME NEW K, NEW M, NEW X, NEW S, Traced(K, M, X, S), NEW c \in K, \A r \in X : NamesOk(r)
  PROVE  \A s \in S : s[c] # Schema!NULL
BY WorthIsSomething DEF Traced, Stage

\* so NOT NULL may be set there.
LEMMA TracedStricter ==
  ASSUME NEW K, NEW M, NEW X, NEW S, Traced(K, M, X, S), NEW c \in K, \A r \in X : NamesOk(r),
         NEW N, DOMAIN N = DOMAIN M, \A x \in DOMAIN M : M[x].null => N[x].null \/ x = c
  PROVE  Traced(K, N, X, S)
<1>1. ASSUME NEW r \in X, NEW s \in S, Stage(K, M, r, s)
      PROVE  Stage(K, N, r, s)
  <2>1. s[c] # Schema!NULL BY TracedIsStrict
  <2>2. \A x \in DOMAIN M : M[x].null => N[x].null \/ s[x] # Schema!NULL BY <2>1
  <2>3. K \subseteq K OBVIOUS
  <2> QED BY <1>1, <2>2, <2>3, StagesStay
<1> QED BY <1>1 DEF Traced

\* And relabelling leaves what is traced.
LEMMA TracedRelabels ==
  ASSUME NEW K, NEW M, NEW X, NEW S, Traced(K, M, X, S), NEW type, NEW from, NEW to,
         \A c \in K : M[c].type # type
  PROVE  Traced(K, M, X, Schema!RelabelRows(S, M, type, from, to))
<1>1. ASSUME NEW r, NEW s, Stage(K, M, r, s)
      PROVE  Stage(K, M, r, RowRelabelled(M, s, type, from, to))
  BY <1>1, StagesRelabel
<1>2. Schema!RelabelRows(S, M, type, from, to) = {RowRelabelled(M, s, type, from, to) : s \in S}
  BY DEF Schema!RelabelRows, RowRelabelled
<1> QED BY <1>1, <1>2 DEF Traced

\* Before a script: the names are where they are.
LEMMA TracedStarts ==
  ASSUME NEW M, NEW X, UserRowsOk(X, M)
  PROVE  /\ "name" \in DOMAIN M => Traced({"name"}, M, X, X)
         /\ {"first_name", "last_name"} \subseteq DOMAIN M /\ "name" \notin DOMAIN M
              => Traced({"first_name", "last_name"}, M, X, X)
<1>1. ASSUME NEW r \in X PROVE RowOk(M, r) /\ DOMAIN r = DOMAIN M BY DEF UserRowsOk, RowOk
<1>2. ASSUME NEW r \in X, "name" \in DOMAIN M PROVE Stage({"name"}, M, r, r)
  BY <1>1, <1>2 DEF Stage, Worth, FullOf
<1>3. ASSUME NEW r \in X, "name" \notin DOMAIN M, {"first_name", "last_name"} \subseteq DOMAIN M
      PROVE Stage({"first_name", "last_name"}, M, r, r)
  BY <1>1, <1>3 DEF Stage, Worth, FirstOf, LastOf
<1> QED BY <1>2, <1>3 DEF Traced

\* After one: the names are sound and the full name is kept.
LEMMA TracedEndsSplit ==
  ASSUME NEW M, NEW X, NEW S, \A r \in X : NamesOk(r), Traced({"first_name", "last_name"}, M, X, S),
         "name" \notin DOMAIN M, \A r \in X : "name" \in DOMAIN r
  PROVE  UserRowsOk(S, M) /\ NamesKept(X, S)
<1>1. ASSUME NEW r \in X, NEW s \in S, Stage({"first_name", "last_name"}, M, r, s)
      PROVE  RowOk(M, s) /\ NamesOk(s) /\ Schema!FullName(s) = Schema!FullName(r)
  <2>1. /\ RowOk(M, s) /\ s.first_name = Schema!FirstWord(r.name)
           /\ s.last_name = Schema!OtherWords(r.name)
        /\ "name" \notin DOMAIN s
    BY <1>1 DEF Stage, Worth, FirstOf, LastOf, RowOk
  <2>2. r.name \in Names BY DEF NamesOk
  <2>3. NamesOk(s) BY <2>1, <2>2, NamesMade DEF NamesOk
  <2>4. Schema!FullName(s) = Schema!Trimmed(Schema!Joined(Schema!FirstWord(r.name),
      Schema!OtherWords(r.name)))
    BY <2>1 DEF Schema!FullName
  <2>5. Schema!FullName(r) = Schema!Trimmed(r.name) BY DEF Schema!FullName
  <2> QED BY <2>1, <2>2, <2>3, <2>4, <2>5, NamesMade
<1> QED BY <1>1 DEF Traced, UserRowsOk, NamesKept

\* With the name traced, the rows fit the users of one name, who have kept theirs.
LEMMA TracedEndsJoined ==
  ASSUME NEW M, NEW X, NEW S, \A r \in X : NamesOk(r), Traced({"name"}, M, X, S),
         "name" \in DOMAIN M, \A r \in X : "name" \notin DOMAIN r
  PROVE  UserRowsOk(S, M) /\ NamesKept(X, S)
<1>1. ASSUME NEW r \in X, NEW s \in S, Stage({"name"}, M, r, s)
      PROVE  RowOk(M, s) /\ NamesOk(s) /\ Schema!FullName(s) = Schema!FullName(r)
  <2>1. RowOk(M, s) /\ s.name = Schema!Joined(r.first_name, r.last_name) /\ "name" \in DOMAIN s
    BY <1>1 DEF Stage, Worth, FullOf, RowOk
  <2>2. r.first_name \in Names /\ r.last_name \in Names BY DEF NamesOk
  <2>3. NamesOk(s) BY <2>1, <2>2, JoinedNames DEF NamesOk
  <2>4. Schema!FullName(s) = Schema!FullName(r) BY <2>1 DEF Schema!FullName
  <2> QED BY <2>1, <2>3, <2>4
<1> QED BY <1>1 DEF Traced, UserRowsOk, NamesKept

\* The three rules of 0004 make what is traced: the first word, the others, and both joined.
LEMMA RulesFit ==
  ASSUME NEW K, NEW M, NEW X, NEW S, \A r \in X : NamesOk(r)
  PROVE  /\ "name" \in K /\ (\A r \in X : "name" \in DOMAIN r)
              => RuleFits(K, M, X, S, "first_name", "first word")
         /\ "name" \in K /\ (\A r \in X : "name" \in DOMAIN r)
              => RuleFits(K, M, X, S, "last_name", "other words")
         /\ {"first_name", "last_name"} \subseteq K /\ (\A r \in X : "name" \notin DOMAIN r)
              => RuleFits(K, M, X, S, "name", "joined")
         /\ RuleFits(K, M, X, S, "student_number", "or empty")
<1>1. ASSUME NEW s
      PROVE  /\ Schema!ValueBy("first word", s) = Schema!FirstWord(s.name)
             /\ Schema!ValueBy("other words", s) = Schema!OtherWords(s.name)
             /\ Schema!ValueBy("joined", s) = Schema!Joined(s.first_name, s.last_name)
             /\ Schema!ValueBy("or empty", s) # Schema!NULL
  <2>1. Schema!Empty # Schema!NULL BY EmptyIs, NamesAreSomething
  <2> QED BY <2>1 DEF Schema!ValueBy
<1>2. ASSUME NEW r \in X, NEW s \in S, Stage(K, M, r, s), "name" \in K, "name" \in DOMAIN r
      PROVE  /\ Schema!ValueBy("first word", s) # Schema!NULL
                /\ Worth("first_name", r, Schema!ValueBy("first word", s))
             /\ Schema!ValueBy("other words", s) # Schema!NULL
                 /\ Worth("last_name", r, Schema!ValueBy("other words", s))
  <2>1. s.name = r.name BY <1>2 DEF Stage, Worth, FullOf
  <2>2. r.name \in Names BY <1>2 DEF NamesOk
  <2>3. Schema!FirstWord(s.name) # Schema!NULL /\ Schema!OtherWords(s.name) # Schema!NULL
    BY <2>1, <2>2, NamesMade, NamesAreSomething
  <2> QED BY <1>1, <1>2, <2>1, <2>3 DEF Worth, FirstOf, LastOf
<1>3. ASSUME NEW r \in X, NEW s \in S, Stage(K, M, r, s), {"first_name", "last_name"} \subseteq K,
             "name" \notin DOMAIN r
      PROVE  Schema!ValueBy("joined", s) # Schema!NULL
          /\ Worth("name", r, Schema!ValueBy("joined", s))
  <2>1. s.first_name = r.first_name /\ s.last_name = r.last_name
    BY <1>3 DEF Stage, Worth, FirstOf, LastOf
  <2>2. Schema!Joined(r.first_name, r.last_name) \in Names BY <1>3, JoinedNames DEF NamesOk
  <2> QED BY <1>1, <1>3, <2>1, <2>2, NamesAreSomething DEF Worth, FullOf
<1>4. ASSUME NEW r, NEW s
      PROVE  Schema!ValueBy("or empty", s) # Schema!NULL
          /\ Worth("student_number", r, Schema!ValueBy("or empty", s))
  BY <1>1 DEF Worth
<1> QED BY <1>2, <1>3, <1>4 DEF RuleFits

--------------------------------------------------------------------------------
(* A database whose users are on the way *)

\* The rest of it is p, j, z, i and w; its users come from X, with columns U.
Holds(d, K, U, X, Y, e) ==
  \E S : d = DbOf(U, S, e.p, e.j, e.z, Y, e.i, e.w) /\ Traced(K, U, X, S)

\* The database with such users takes a column more,
LEMMA HoldsAdds ==
  ASSUME NEW d, NEW K, NEW U, NEW X, NEW Y, NEW e, Holds(d, K, U, X, Y, e),
         NEW c, c \notin DOMAIN U, NEW spec, spec.null \/ spec.default # Schema!NULL
  PROVE  Holds(Schema!Execute(Schema!AddColumn("users", c, spec), d), K, Schema!Put(U, c, spec),
      X, Y, e)
<1>1. PICK S : d = DbOf(U, S, e.p, e.j, e.z, Y, e.i, e.w) /\ Traced(K, U, X, S) BY DEF Holds
<1>2. Schema!Execute(Schema!AddColumn("users", c, spec), DbOf(U, S, e.p, e.j, e.z, Y, e.i, e.w))
        = DbOf(Schema!Put(U, c, spec), Schema!Added(S, c, spec.default), e.p, e.j, e.z, Y, e.i, e.w)
  BY UsersGain
<1>3. Traced(K, Schema!Put(U, c, spec), X, Schema!Added(S, c, spec.default)) BY <1>1, TracedAdds
<1> QED BY <1>1, <1>2, <1>3 DEF Holds

\* one less,
LEMMA HoldsDrops ==
  ASSUME NEW d, NEW K, NEW U, NEW X, NEW Y, NEW e, Holds(d, K, U, X, Y, e), NEW c \in DOMAIN U
  PROVE  Holds(Schema!Execute(Schema!DropColumn("users", c), d), K \ {c}, Schema!Without(U, c), X,
      Y, e)
<1>1. PICK S : d = DbOf(U, S, e.p, e.j, e.z, Y, e.i, e.w) /\ Traced(K, U, X, S) BY DEF Holds
<1>2. Schema!Execute(Schema!DropColumn("users", c), DbOf(U, S, e.p, e.j, e.z, Y, e.i, e.w))
        = DbOf(Schema!Without(U, c), Schema!Dropped(S, c), e.p, e.j, e.z, Y, e.i, e.w)
  BY UsersLose
<1>3. Traced(K \ {c}, Schema!Without(U, c), X, Schema!Dropped(S, c)) BY <1>1, TracedDrops
<1> QED BY <1>1, <1>2, <1>3 DEF Holds

\* one renamed,
LEMMA HoldsRenames ==
  ASSUME NEW d, NEW K, NEW U, NEW X, NEW Y, NEW e, Holds(d, K, U, X, Y, e),
         NEW x \in DOMAIN U, x \notin K, NEW y, y \notin DOMAIN U
  PROVE  Holds(Schema!Execute(Schema!Rename("users", x, y), d), K, Schema!Renamed(U, x, y), X, Y, e)
<1>1. PICK S : d = DbOf(U, S, e.p, e.j, e.z, Y, e.i, e.w) /\ Traced(K, U, X, S) BY DEF Holds
<1>2. Schema!Execute(Schema!Rename("users", x, y), DbOf(U, S, e.p, e.j, e.z, Y, e.i, e.w))
        = DbOf(Schema!Renamed(U, x, y), Schema!RenamedIn(S, x, y), e.p, e.j, e.z, Y, e.i, e.w)
  BY UsersRename
<1>3. Traced(K, Schema!Renamed(U, x, y), X, Schema!RenamedIn(S, x, y)) BY <1>1, TracedRenames
<1> QED BY <1>1, <1>2, <1>3 DEF Holds

\* an UPDATE,
LEMMA HoldsUpdates ==
  ASSUME NEW d, NEW K, NEW U, NEW X, NEW Y, NEW e, Holds(d, K, U, X, Y, e),
         NEW c \in DOMAIN U, NEW rule, \A S : RuleFits(K, U, X, S, c, rule)
  PROVE  Holds(Schema!Execute(Schema!Update("users", c, rule), d), K \cup {c}, U, X, Y, e)
<1>1. PICK S : d = DbOf(U, S, e.p, e.j, e.z, Y, e.i, e.w) /\ Traced(K, U, X, S) BY DEF Holds
<1>2. Schema!Execute(Schema!Update("users", c, rule), DbOf(U, S, e.p, e.j, e.z, Y, e.i, e.w))
        = DbOf(U, Updated(S, c, rule), e.p, e.j, e.z, Y, e.i, e.w)
  BY UsersUpdate
<1>3. Traced(K \cup {c}, U, X, Updated(S, c, rule)) BY <1>1, TracedUpdates
<1> QED BY <1>1, <1>2, <1>3 DEF Holds

\* NULL allowed,
LEMMA HoldsNullable ==
  ASSUME NEW d, NEW K, NEW U, NEW X, NEW Y, NEW e, Holds(d, K, U, X, Y, e),
         NEW c \in DOMAIN U, "null" \in DOMAIN U[c]
  PROVE  Holds(Schema!Execute(Schema!SetNull("users", c, TRUE), d), K, NullSet(U, c, TRUE), X, Y, e)
<1> DEFINE yes == TRUE
           N == NullSet(U, c, yes)
<1>1. PICK S : d = DbOf(U, S, e.p, e.j, e.z, Y, e.i, e.w) /\ Traced(K, U, X, S) BY DEF Holds
<1>2. yes \/ \A r \in S : r[c] # Schema!NULL OBVIOUS
<1>3. DOMAIN N = DOMAIN U /\ \A x \in DOMAIN U : U[x].null => N[x].null BY DEF NullSet
<1> HIDE DEF yes, N
<1>4. Schema!Execute(Schema!SetNull("users", c, yes), DbOf(U, S, e.p, e.j, e.z, Y, e.i, e.w))
        = DbOf(NullSet(U, c, yes), S, e.p, e.j, e.z, Y, e.i, e.w)
  BY <1>2, UsersSetNull
<1>5. Traced(K, N, X, S)
  <2>1. K \subseteq K OBVIOUS
  <2> QED BY <1>1, <1>3, <2>1, TracedStays
<1>6. Holds(Schema!Execute(Schema!SetNull("users", c, yes), d), K, N, X, Y, e)
  BY <1>1, <1>4, <1>5 DEF Holds, N
<1> QED BY <1>6 DEF yes, N

\* NOT NULL where the column is traced,
LEMMA HoldsStrict ==
  ASSUME NEW d, NEW K, NEW U, NEW X, NEW Y, NEW e, Holds(d, K, U, X, Y, e),
         NEW c \in DOMAIN U, c \in K, \A r \in X : NamesOk(r)
  PROVE  Holds(Schema!Execute(Schema!SetNull("users", c, FALSE), d), K, NullSet(U, c, FALSE), X,
      Y, e)
<1> DEFINE no == FALSE
           N == NullSet(U, c, no)
<1>1. PICK S : d = DbOf(U, S, e.p, e.j, e.z, Y, e.i, e.w) /\ Traced(K, U, X, S) BY DEF Holds
<1>2. no \/ \A r \in S : r[c] # Schema!NULL
  <2>1. \A r \in S : r[c] # Schema!NULL BY <1>1, TracedIsStrict
  <2> QED BY <2>1
<1>3. DOMAIN N = DOMAIN U /\ \A x \in DOMAIN U : U[x].null => N[x].null \/ x = c BY DEF NullSet
<1> HIDE DEF no, N
<1>4. Schema!Execute(Schema!SetNull("users", c, no), DbOf(U, S, e.p, e.j, e.z, Y, e.i, e.w))
        = DbOf(NullSet(U, c, no), S, e.p, e.j, e.z, Y, e.i, e.w)
  BY <1>2, UsersSetNull
<1>5. Traced(K, N, X, S) BY <1>1, <1>3, TracedStricter
<1>6. Holds(Schema!Execute(Schema!SetNull("users", c, no), d), K, N, X, Y, e)
  BY <1>1, <1>4, <1>5 DEF Holds, N
<1> QED BY <1>6 DEF no, N

\* and a default.
LEMMA HoldsDefaults ==
  ASSUME NEW d, NEW K, NEW U, NEW X, NEW Y, NEW e, Holds(d, K, U, X, Y, e),
         NEW c \in DOMAIN U, "null" \in DOMAIN U[c], NEW v,
         LabelFits(v, U[c].type, Y)
  PROVE  Holds(Schema!Execute(Schema!SetDefault("users", c, v), d), K, DefaultSet(U, c, v), X, Y, e)
<1> DEFINE N == DefaultSet(U, c, v)
<1>1. PICK S : d = DbOf(U, S, e.p, e.j, e.z, Y, e.i, e.w) /\ Traced(K, U, X, S) BY DEF Holds
<1>3. DOMAIN N = DOMAIN U /\ \A x \in DOMAIN U : U[x].null => N[x].null BY DEF DefaultSet
<1>4. Schema!Execute(Schema!SetDefault("users", c, v), DbOf(U, S, e.p, e.j, e.z, Y, e.i, e.w))
        = DbOf(N, S, e.p, e.j, e.z, Y, e.i, e.w)
  <2> DEFINE P == e.p
             J == e.j
             Z == e.z
             I == e.i
             w == e.w
  <2> HIDE DEF P, J, Z, I, w
  <2>2. Schema!Execute(Schema!SetDefault("users", c, v), DbOf(U, S, P, J, Z, Y, I, w))
          = DbOf(DefaultSet(U, c, v), S, P, J, Z, Y, I, w)
    BY UsersSetDefault
  <2> QED BY <2>2 DEF P, J, Z, I, w
<1> HIDE DEF N
<1>5. Traced(K, N, X, S)
  <2>1. K \subseteq K OBVIOUS
  <2> QED BY <1>1, <1>3, <2>1, TracedStays
<1>6. Holds(Schema!Execute(Schema!SetDefault("users", c, v), d), K, N, X, Y, e)
  BY <1>1, <1>4, <1>5 DEF Holds
<1> QED BY <1>6 DEF N

\* The label of a role is renamed where no default is one.
LEMMA HoldsRelabels ==
  ASSUME NEW d, NEW K, NEW U, NEW X, NEW Y, NEW e, Holds(d, K, U, X, Y, e),
         FreeOf(e.p, "user_role"), FreeOf(e.j, "user_role"), RowsFit(e.z, e.j),
         NEW from \in Y["user_role"], NEW to, to \notin Y["user_role"],
         Schema!RelabelColumns(U, "user_role", from, to) = U, \A c \in K : U[c].type # "user_role"
  PROVE  Holds(Schema!Execute(Schema!RenameLabel("user_role", from, to), d), K, U, X,
               LabelsRelabelled(Y, "user_role", from, to), e)
<1> DEFINE type == "user_role"
<1>1. PICK S : d = DbOf(U, S, e.p, e.j, e.z, Y, e.i, e.w) /\ Traced(K, U, X, S) BY DEF Holds
<1> DEFINE P == e.p
           J == e.j
           Z == e.z
           V == Schema!RelabelRows(S, U, "user_role", from, to)
<1>2. Schema!Execute(Schema!RenameLabel("user_role", from, to), DbOf(U, S, P, J, Z, Y, e.i, e.w))
        = DbOf(Schema!RelabelColumns(U, "user_role", from, to), V, P, J, Z,
               LabelsRelabelled(Y, "user_role", from, to), e.i, e.w)
  <2>1. FreeOf(P, "user_role") /\ FreeOf(J, "user_role") /\ RowsFit(Z, J) OBVIOUS
  <2> HIDE DEF P, J, Z
  <2> QED BY <2>1, UsersRelabel
<1>3. Traced(K, U, X, V)
  <2> HIDE DEF type
  <2>1. \A c \in K : U[c].type # type BY DEF type
  <2>2. Traced(K, U, X, Schema!RelabelRows(S, U, type, from, to)) BY <1>1, <2>1, TracedRelabels
  <2> QED BY <2>2 DEF type
<1> HIDE DEF V
<1> QED BY <1>1, <1>2, <1>3 DEF Holds

--------------------------------------------------------------------------------
(* Revision 0004: a user's name becomes two, and student_staff student *)

\* The role's default is dropped, relabelled and set again.
LEMMA RolesAre ==
  /\ [Schema!Default(Schema!Col("user_role"), "student_staff") EXCEPT !.default = Schema!NULL]
      = Schema!Col("user_role")
  /\ [Schema!Default(Schema!Col("user_role"), "student") EXCEPT !.default = Schema!NULL]
      = Schema!Col("user_role")
  /\ [Schema!Col("user_role") EXCEPT !.default = <<"student">>]
      = Schema!Default(Schema!Col("user_role"), "student")
  /\ [Schema!Col("user_role") EXCEPT !.default = <<"student_staff">>]
       = Schema!Default(Schema!Col("user_role"), "student_staff")
  /\ Schema!Col("user_role").default = Schema!NULL /\ Schema!Col("user_role").type = "user_role"
  /\ Schema!Default(Schema!Col("user_role"), "student").type = "user_role"
  /\ Schema!Default(Schema!Col("user_role"), "student_staff").type = "user_role"
  /\ Schema!Col("user_role") = [c \in DOMAIN Schema!Col("user_role") |-> Schema!Col("user_role")[c]]
  /\ "null" \in DOMAIN Schema!Col("user_role")
  /\ "null" \in DOMAIN Schema!Default(Schema!Col("user_role"), "student")
  /\ "null" \in DOMAIN Schema!Default(Schema!Col("user_role"), "student_staff")
<1> DEFINE n == Schema!Col("user_role")
<1>1. n.default = Schema!NULL /\ n.type = "user_role" /\ n = [c \in DOMAIN n |-> n[c]]
      /\ "null" \in DOMAIN n /\ "default" \in DOMAIN n
  BY DEF Schema!Col, Schema!NULL
<1> HIDE DEF n
<1>2. ASSUME NEW v
      PROVE  [n EXCEPT !.default = v].type = "user_role"
          /\ "null" \in DOMAIN [n EXCEPT !.default = v]
  BY <1>1
<1>3. ASSUME NEW v PROVE [[n EXCEPT !.default = v] EXCEPT !.default = Schema!NULL] = n
  <2>1. [[n EXCEPT !.default = v] EXCEPT !.default = Schema!NULL]
      = [n EXCEPT !.default = Schema!NULL] OBVIOUS
  <2>2. [n EXCEPT !.default = Schema!NULL] = n
    <3> DEFINE u == Schema!NULL
    <3>1. n.default = u BY <1>1
    <3> HIDE DEF u
    <3>2. [n EXCEPT !.default = u] = n BY <1>1, <3>1
    <3> QED BY <3>2 DEF u
  <2> QED BY <2>1, <2>2
<1>4. ASSUME NEW x
      PROVE  /\ [Schema!Default(n, x) EXCEPT !.default = Schema!NULL] = n
                /\ Schema!Default(n, x).type = "user_role"
             /\ "null" \in DOMAIN Schema!Default(n, x)
                 /\ [n EXCEPT !.default = <<x>>] = Schema!Default(n, x)
  BY <1>2, <1>3 DEF Schema!Default
<1> QED BY <1>1, <1>4 DEF n

\* Texts that may be NULL or have a default, and back.
LEMMA TextsAre ==
  /\ Schema!Text.type = "text" /\ Schema!Maybe(Schema!Text).type = "text"
  /\ [Schema!Text EXCEPT !.null = TRUE] = Schema!Maybe(Schema!Text)
      /\ [Schema!Maybe(Schema!Text) EXCEPT !.null = FALSE] = Schema!Text
  /\ "null" \in DOMAIN Schema!Text /\ "null" \in DOMAIN Schema!Maybe(Schema!Text)
  /\ [[Schema!Text EXCEPT !.default = Schema!Empty] EXCEPT !.default = Schema!NULL] = Schema!Text
  /\ "null" \in DOMAIN [Schema!Text EXCEPT !.default = Schema!Empty]
  /\ [Schema!Text EXCEPT !.default = Schema!Empty].type = "text"
  /\ [Schema!Text EXCEPT !.default = Schema!Empty].default = Schema!Empty
BY TextMaybe DEF Schema!Text, Schema!Maybe, Schema!Col, Schema!NULL

\* Printers and jobs have no role.
LEMMA TablesAreFree ==
  ASSUME NEW a, NEW department \in DepartmentNames
  PROVE  FreeOf(PrinterTable(a), "user_role") /\ FreeOf(JobTable(a, department), "user_role")
<1> USE ColumnsAre, ColumnsOf, DefaultsOf, RefsOf
<1>1. FreeOf(Schema!Printer, "user_role") BY DEF FreeOf, Schema!Printer
<1>2. FreeOf(Schema!BasePrinters, "user_role") BY DEF FreeOf, Schema!BasePrinters
<1>3. FreeOf(PrinterTable(a), "user_role") BY <1>1, <1>2 DEF PrinterTable
<1>4. \A c \in DOMAIN Schema!PrintJob : Schema!PrintJob[c].type # "user_role" BY DEF Schema!PrintJob
<1>5. JobColumns(a, department) \subseteq JobNames BY JobColumnsKnown
<1>6. \A c \in JobNames : JobSpecs(a)[c].type # "user_role"
  <2>1. Schema!Maybe(Schema!Col("integer")).type # "user_role"
      /\ Schema!Maybe(Schema!Text).type # "user_role"
        /\ Schema!Ref("materials").type # "user_role"
    OBVIOUS
  <2> QED BY <1>4, <2>1 DEF JobSpecs, JobNames
<1>7. FreeOf(JobTable(a, department), "user_role")
  BY <1>5, <1>6 DEF FreeOf, JobTable, Cut
<1> QED BY <1>3, <1>7

\* A renamed role is one label for another.
LEMMA RoleLabels ==
  ASSUME NEW roles, NEW statuses, NEW news, NEW from, NEW to
  PROVE  /\ LabelsRelabelled(LabelsOf(roles, statuses, news), "user_role", from, to)
              = LabelsOf((roles \ {from}) \cup {to}, statuses, news)
         /\ LabelsOf(roles, statuses, news)["user_role"] = roles
BY DEF LabelsRelabelled, LabelsOf

\* What is traced may be forgotten.
LEMMA HoldsLess ==
  ASSUME NEW d, NEW K, NEW U, NEW X, NEW Y, NEW e, Holds(d, K, U, X, Y, e), NEW L, L \subseteq K
  PROVE  Holds(d, L, U, X, Y, e)
<1>1. PICK S : d = DbOf(U, S, e.p, e.j, e.z, Y, e.i, e.w) /\ Traced(K, U, X, S) BY DEF Holds
<1>2. Traced(L, U, X, S) BY <1>1, TracedStays
<1> QED BY <1>1, <1>2 DEF Holds

\* The users get two names, and the one of the two they had goes.
LEMMA ProfilesRun ==
  ASSUME NEW d, NEW X, NEW e, NEW statuses, NEW news, UserRowsOk(X, Schema!BaseUsers("department")),
         Holds(d, {"name"}, Schema!BaseUsers("department"), X,
             LabelsOf(BaseRoles, statuses, news), e),
         FreeOf(e.p, "user_role"), FreeOf(e.j, "user_role"), RowsFit(e.z, e.j)
  PROVE  Holds(Schema!Run(Schema!ToProfiles, d), {"first_name", "last_name"}, Schema!User, X,
               LabelsOf({"student", "farmer", "admin"}, statuses, news), e)
<1> DEFINE role1 == Schema!Default(Schema!Col("user_role"), "student")
           role2 == Schema!Default(Schema!Col("user_role"), "student_staff")
           none == Schema!Col("user_role")
           maybe == Schema!Maybe(Schema!Text)
           blank == [Schema!Text EXCEPT !.default = Schema!Empty]
           S0 == BaseUserNames
           S1 == S0 \cup {"first_name"}
           S2 == S1 \cup {"last_name"}
           S3 == S2 \ {"name"}
           S4 == (S3 \ {"student_staff_number"}) \cup {"student_number"}
           S5 == S4 \ {"auth_hash"}
           U0 == UserStage(S0, role2, maybe, maybe, Schema!Text, Schema!Text, Schema!Text)
           U1 == UserStage(S0, none, maybe, maybe, Schema!Text, Schema!Text, Schema!Text)
           U2 == UserStage(S0, role1, maybe, maybe, Schema!Text, Schema!Text, Schema!Text)
           U3 == UserStage(S1, role1, maybe, maybe, Schema!Text, Schema!Text, Schema!Text)
           U4 == UserStage(S2, role1, maybe, maybe, Schema!Text, Schema!Text, Schema!Text)
           U5 == UserStage(S2, role1, Schema!Text, maybe, Schema!Text, Schema!Text, Schema!Text)
           U6 == UserStage(S2, role1, Schema!Text, Schema!Text, Schema!Text, Schema!Text,
               Schema!Text)
           U7 == UserStage(S3, role1, Schema!Text, Schema!Text, Schema!Text, Schema!Text,
               Schema!Text)
           U8 == UserStage(S3, role1, Schema!Text, Schema!Text, Schema!Text, maybe, Schema!Text)
           U9 == UserStage(S4, role1, Schema!Text, Schema!Text, Schema!Text, maybe, Schema!Text)
           U10 == UserStage(S5, role1, Schema!Text, Schema!Text, Schema!Text, maybe, Schema!Text)
           K0 == {"name"}
           K1 == {"name", "first_name"}
           K2 == {"name", "first_name", "last_name"}
           K3 == {"first_name", "last_name"}
           Y == LabelsOf(BaseRoles, statuses, news)
           Z == LabelsOf({"student", "farmer", "admin"}, statuses, news)
           at(k) == UptoCommand(Schema!ToProfiles, k, d)
<1>n. Len(Schema!ToProfiles) = 13 BY DEF Schema!ToProfiles
<1>a. \A k \in 1..13 : at(k) = Schema!Execute(Schema!ToProfiles[k], at(k - 1)) BY <1>n, CommandIs
<1>b. at(0) = d /\ Schema!Run(Schema!ToProfiles, d) = at(13)
  <2>1. Len(Schema!ToProfiles) \in Nat /\ 13 \in Nat /\ 13 <= Len(Schema!ToProfiles)
      /\ Len(Schema!ToProfiles) <= 13
    BY <1>n
  <2> QED BY <2>1, ScriptStarts, ScriptEnds
<1>c. /\ Schema!ToProfiles[1] = Schema!SetDefault("users", "role", Schema!NULL)
      /\ Schema!ToProfiles[2] = Schema!RenameLabel("user_role", "student_staff", "student")
      /\ Schema!ToProfiles[3] = Schema!SetDefault("users", "role", <<"student">>)
      /\ Schema!ToProfiles[4] = Schema!AddColumn("users", "first_name", Schema!Maybe(Schema!Text))
      /\ Schema!ToProfiles[5] = Schema!AddColumn("users", "last_name", Schema!Maybe(Schema!Text))
      /\ Schema!ToProfiles[6] = Schema!Update("users", "first_name", "first word")
      /\ Schema!ToProfiles[7] = Schema!Update("users", "last_name", "other words")
      /\ Schema!ToProfiles[8] = Schema!SetNull("users", "first_name", FALSE)
      /\ Schema!ToProfiles[9] = Schema!SetNull("users", "last_name", FALSE)
      /\ Schema!ToProfiles[10] = Schema!DropColumn("users", "name")
      /\ Schema!ToProfiles[11] = Schema!SetNull("users", "student_staff_number", TRUE)
      /\ Schema!ToProfiles[12] = Schema!Rename("users", "student_staff_number", "student_number")
      /\ Schema!ToProfiles[13] = Schema!DropColumn("users", "auth_hash")
  BY DEF Schema!ToProfiles
<1> HIDE DEF at
<1>e. /\ at(1) = Schema!Execute(Schema!SetDefault("users", "role", Schema!NULL), at(0))
      /\ at(2) = Schema!Execute(Schema!RenameLabel("user_role", "student_staff", "student"), at(1))
      /\ at(3) = Schema!Execute(Schema!SetDefault("users", "role", <<"student">>), at(2))
      /\ at(4) = Schema!Execute(Schema!AddColumn("users", "first_name",
          Schema!Maybe(Schema!Text)), at(3))
      /\ at(5) = Schema!Execute(Schema!AddColumn("users", "last_name", Schema!Maybe(Schema!Text)),
          at(4))
      /\ at(6) = Schema!Execute(Schema!Update("users", "first_name", "first word"), at(5))
      /\ at(7) = Schema!Execute(Schema!Update("users", "last_name", "other words"), at(6))
      /\ at(8) = Schema!Execute(Schema!SetNull("users", "first_name", FALSE), at(7))
      /\ at(9) = Schema!Execute(Schema!SetNull("users", "last_name", FALSE), at(8))
      /\ at(10) = Schema!Execute(Schema!DropColumn("users", "name"), at(9))
      /\ at(11) = Schema!Execute(Schema!SetNull("users", "student_staff_number", TRUE), at(10))
      /\ at(12) = Schema!Execute(Schema!Rename("users", "student_staff_number", "student_number"),
          at(11))
      /\ at(13) = Schema!Execute(Schema!DropColumn("users", "auth_hash"), at(12))
  <2>1. at(1) = Schema!Execute(Schema!SetDefault("users", "role", Schema!NULL), at(0))
    <3>1. at(1) = Schema!Execute(Schema!ToProfiles[1], at(0)) BY <1>a
    <3> QED BY <3>1, <1>c
  <2>2. at(2) = Schema!Execute(Schema!RenameLabel("user_role", "student_staff", "student"), at(1))
    <3>1. at(2) = Schema!Execute(Schema!ToProfiles[2], at(1)) BY <1>a
    <3> QED BY <3>1, <1>c
  <2>3. at(3) = Schema!Execute(Schema!SetDefault("users", "role", <<"student">>), at(2))
    <3>1. at(3) = Schema!Execute(Schema!ToProfiles[3], at(2)) BY <1>a
    <3> QED BY <3>1, <1>c
  <2>4. at(4) = Schema!Execute(Schema!AddColumn("users", "first_name", Schema!Maybe(Schema!Text)),
      at(3))
    <3>1. at(4) = Schema!Execute(Schema!ToProfiles[4], at(3)) BY <1>a
    <3> QED BY <3>1, <1>c
  <2>5. at(5) = Schema!Execute(Schema!AddColumn("users", "last_name", Schema!Maybe(Schema!Text)),
      at(4))
    <3>1. at(5) = Schema!Execute(Schema!ToProfiles[5], at(4)) BY <1>a
    <3> QED BY <3>1, <1>c
  <2>6. at(6) = Schema!Execute(Schema!Update("users", "first_name", "first word"), at(5))
    <3>1. at(6) = Schema!Execute(Schema!ToProfiles[6], at(5)) BY <1>a
    <3> QED BY <3>1, <1>c
  <2>7. at(7) = Schema!Execute(Schema!Update("users", "last_name", "other words"), at(6))
    <3>1. at(7) = Schema!Execute(Schema!ToProfiles[7], at(6)) BY <1>a
    <3> QED BY <3>1, <1>c
  <2>8. at(8) = Schema!Execute(Schema!SetNull("users", "first_name", FALSE), at(7))
    <3>1. at(8) = Schema!Execute(Schema!ToProfiles[8], at(7)) BY <1>a
    <3> QED BY <3>1, <1>c
  <2>9. at(9) = Schema!Execute(Schema!SetNull("users", "last_name", FALSE), at(8))
    <3>1. at(9) = Schema!Execute(Schema!ToProfiles[9], at(8)) BY <1>a
    <3> QED BY <3>1, <1>c
  <2>10. at(10) = Schema!Execute(Schema!DropColumn("users", "name"), at(9))
    <3>1. at(10) = Schema!Execute(Schema!ToProfiles[10], at(9)) BY <1>a
    <3> QED BY <3>1, <1>c
  <2>11. at(11) = Schema!Execute(Schema!SetNull("users", "student_staff_number", TRUE), at(10))
    <3>1. at(11) = Schema!Execute(Schema!ToProfiles[11], at(10)) BY <1>a
    <3> QED BY <3>1, <1>c
  <2>12. at(12) = Schema!Execute(Schema!Rename("users", "student_staff_number", "student_number"),
      at(11))
    <3>1. at(12) = Schema!Execute(Schema!ToProfiles[12], at(11)) BY <1>a
    <3> QED BY <3>1, <1>c
  <2>13. at(13) = Schema!Execute(Schema!DropColumn("users", "auth_hash"), at(12))
    <3>1. at(13) = Schema!Execute(Schema!ToProfiles[13], at(12)) BY <1>a
    <3> QED BY <3>1, <1>c
  <2> QED BY <2>1, <2>2, <2>3, <2>4, <2>5, <2>6, <2>7, <2>8, <2>9, <2>10, <2>11, <2>12, <2>13
<1>f. /\ S0 \subseteq UserColumns /\ S1 \subseteq UserColumns /\ S2 \subseteq UserColumns
      /\ S3 \subseteq UserColumns /\ S4 \subseteq UserColumns
      /\ "role" \in S0 /\ "name" \in S0 /\ "first_name" \notin S0 /\ "last_name" \notin S1
      /\ "first_name" \in S2 /\ "last_name" \in S2 /\ "name" \in S2
      /\ "student_staff_number" \in S3 /\ "student_number" \notin S3
      /\ \A x \in NumberNames : x \in S3 => x = "student_staff_number"
      /\ "auth_hash" \in S4 /\ S5 = UserNames
  BY DEF BaseUserNames, UserNames, NumberNames, UserColumns
<1>g. /\ role1.type = "user_role" /\ role2.type = "user_role" /\ none.type = "user_role"
      /\ [role1 EXCEPT !.default = Schema!NULL] = none
          /\ [role2 EXCEPT !.default = Schema!NULL] = none
      /\ [none EXCEPT !.default = <<"student">>] = role1
          /\ [none EXCEPT !.default = <<"student_staff">>] = role2
      /\ none.default = Schema!NULL /\ none = [c \in DOMAIN none |-> none[c]]
      /\ "null" \in DOMAIN none /\ "null" \in DOMAIN role1 /\ "null" \in DOMAIN role2
  BY RolesAre
<1>h. /\ Schema!Text.type = "text" /\ maybe.type = "text" /\ blank.type = "text"
      /\ [Schema!Text EXCEPT !.null = TRUE] = maybe /\ [maybe EXCEPT !.null = FALSE] = Schema!Text
      /\ "null" \in DOMAIN Schema!Text /\ "null" \in DOMAIN maybe /\ "null" \in DOMAIN blank
      /\ [blank EXCEPT !.default = Schema!NULL] = Schema!Text
      /\ maybe.null /\ blank.default # Schema!NULL
  <2>1. maybe.null BY ColumnsAre
  <2>2. blank.default # Schema!NULL
    <3>1. Schema!Empty # Schema!NULL BY EmptyIs, NamesAreSomething
    <3> QED BY <3>1, TextsAre
  <2> QED BY <2>1, <2>2, TextsAre
<1>i. \A r \in X : NamesOk(r) BY DEF UserRowsOk
<1>j. \A r \in X : "name" \in DOMAIN r
  <2>1. "name" \in DOMAIN Schema!BaseUsers("department") BY DEF Schema!BaseUsers, Schema!Put
  <2> QED BY <2>1 DEF UserRowsOk, RowOk
<1>k. /\ DOMAIN U0 = S0
      /\ DOMAIN U1 = S0
      /\ DOMAIN U2 = S0
      /\ DOMAIN U3 = S1
      /\ DOMAIN U4 = S2
      /\ DOMAIN U5 = S2
      /\ DOMAIN U6 = S2
      /\ DOMAIN U7 = S3
      /\ DOMAIN U8 = S3
      /\ DOMAIN U9 = S4
      /\ DOMAIN U10 = S5
  BY StageIs
<1> HIDE DEF role1, role2, none, maybe, blank, S0, S1, S2, S3, S4, S5
<1>0. Holds(at(0), K0, U0, X, Y, e)
  <2>1. Schema!BaseUsers("department") = U0
    BY UserStages DEF role1, role2, maybe, S0
  <2> QED BY <2>1, <1>b
<1> HIDE DEF Y, Z, U0, U1, U2, U3, U4, U5, U6, U7, U8, U9, U10, K0, K1, K2, K3
<1>1. Holds(at(1), K0, U1, X, Y, e)
  <2>1. Holds(Schema!Execute(Schema!SetDefault("users", "role", Schema!NULL), at(0)), K0,
      DefaultSet(U0, "role", Schema!NULL), X, Y, e)
    <3>1. "role" \in DOMAIN U0 /\ U0["role"] = role2 BY <1>f, <1>k, StageIs DEF U0
    <3>2. "null" \in DOMAIN U0["role"] BY <3>1, <1>g, <1>h
    <3>3. LabelFits(Schema!NULL, U0["role"].type, Y) BY DEF LabelFits
    <3> QED BY <1>0, <3>1, <3>2, <3>3, HoldsDefaults
  <2>2. DefaultSet(U0, "role", Schema!NULL) = U1
    <3>1. [role2 EXCEPT !.default = Schema!NULL] = none BY <1>g, <1>h
    <3> DEFINE x == Schema!NULL
    <3> HIDE DEF x
    <3>2. [role2 EXCEPT !.default = x] = none BY <3>1 DEF x
    <3>3. DefaultSet(U0, "role", x) = U1 BY <1>f, <3>2, RoleDefaults DEF U0, U1
    <3> QED BY <3>3 DEF x
  <2> QED BY <2>1, <2>2, <1>e
<1>2. Holds(at(2), K0, U1, X, Z, e)
  <2>1. Schema!RelabelColumns(U1, "user_role", "student_staff", "student") = U1
    BY <1>f, <1>g, <1>h, StageRelabels DEF U1
  <2>2. \A c \in K0 : U1[c].type # "user_role"
    <3>1. U1["name"] = Schema!Text /\ Schema!Text.type # "user_role" BY <1>f, <1>h, StageIs DEF U1
    <3> QED BY <3>1 DEF K0
  <2>3. "student_staff" \in Y["user_role"] /\ "student" \notin Y["user_role"]
    <3>1. Y["user_role"] = BaseRoles BY RoleLabels DEF Y
    <3> QED BY <3>1 DEF BaseRoles
  <2>4. LabelsRelabelled(Y, "user_role", "student_staff", "student") = Z
    <3>1. (BaseRoles \ {"student_staff"}) \cup {"student"} = {"student", "farmer", "admin"}
      BY DEF BaseRoles
    <3> QED BY <3>1, RoleLabels DEF Y, Z
  <2>5. Holds(Schema!Execute(Schema!RenameLabel("user_role", "student_staff", "student"), at(1)),
      K0, U1, X,
             LabelsRelabelled(Y, "user_role", "student_staff", "student"), e)
    BY <1>1, <2>1, <2>2, <2>3, HoldsRelabels
  <2> QED BY <2>4, <2>5, <1>e
<1>3. Holds(at(3), K0, U2, X, Z, e)
  <2>1. Holds(Schema!Execute(Schema!SetDefault("users", "role", <<"student">>), at(2)), K0,
      DefaultSet(U1, "role", <<"student">>), X, Z, e)
    <3>1. "role" \in DOMAIN U1 /\ U1["role"] = none BY <1>f, <1>k, StageIs DEF U1
    <3>2. "null" \in DOMAIN U1["role"] BY <3>1, <1>g, <1>h
    <3>3. LabelFits(<<"student">>, U1["role"].type, Z)
      <4>1. Z["user_role"] = {"student", "farmer", "admin"} BY RoleLabels DEF Z
      <4>2. Head(<<"student">>) = "student" OBVIOUS
      <4>3. Head(<<"student">>) \in Z["user_role"] BY <4>1, <4>2 DEF BaseRoles
      <4> QED BY <4>3, <3>1, <1>g DEF LabelFits
    <3> QED BY <1>2, <3>1, <3>2, <3>3, HoldsDefaults
  <2>2. DefaultSet(U1, "role", <<"student">>) = U2
    <3>1. [none EXCEPT !.default = <<"student">>] = role1 BY <1>g, <1>h
    <3> DEFINE x == <<"student">>
    <3> HIDE DEF x
    <3>2. [none EXCEPT !.default = x] = role1 BY <3>1 DEF x
    <3>3. DefaultSet(U1, "role", x) = U2 BY <1>f, <3>2, RoleDefaults DEF U1, U2
    <3> QED BY <3>3 DEF x
  <2> QED BY <2>1, <2>2, <1>e
<1>4. Holds(at(4), K0, U3, X, Z, e)
  <2>1. Holds(Schema!Execute(Schema!AddColumn("users", "first_name", maybe), at(3)), K0,
      Schema!Put(U2, "first_name", maybe), X, Z, e)
    <3>1. "first_name" \notin DOMAIN U2 BY <1>f, <1>k
    <3>2. maybe.null \/ maybe.default # Schema!NULL BY <1>h
    <3> QED BY <1>3, <3>1, <3>2, HoldsAdds
  <2>2. Schema!Put(U2, "first_name", maybe) = U3 BY FirstNameComes DEF U2, U3, S1, S2, S3, S4, S5
  <2>3. at(4) = Schema!Execute(Schema!AddColumn("users", "first_name", maybe), at(3))
    BY <1>e DEF maybe, blank
  <2> QED BY <2>1, <2>2, <2>3
<1>5. Holds(at(5), K0, U4, X, Z, e)
  <2>1. Holds(Schema!Execute(Schema!AddColumn("users", "last_name", maybe), at(4)), K0,
      Schema!Put(U3, "last_name", maybe), X, Z, e)
    <3>1. "last_name" \notin DOMAIN U3 BY <1>f, <1>k
    <3>2. maybe.null \/ maybe.default # Schema!NULL BY <1>h
    <3> QED BY <1>4, <3>1, <3>2, HoldsAdds
  <2>2. Schema!Put(U3, "last_name", maybe) = U4 BY LastNameComes DEF U3, U4, S1, S2, S3, S4, S5
  <2>3. at(5) = Schema!Execute(Schema!AddColumn("users", "last_name", maybe), at(4))
    BY <1>e DEF maybe, blank
  <2> QED BY <2>1, <2>2, <2>3
<1>6. Holds(at(6), K1, U4, X, Z, e)
  <2>1. Holds(Schema!Execute(Schema!Update("users", "first_name", "first word"), at(5)),
      K0 \cup {"first_name"}, U4, X, Z, e)
    <3>1. "first_name" \in DOMAIN U4 BY <1>f, <1>k
    <3>2. \A S : RuleFits(K0, U4, X, S, "first_name", "first word") BY <1>i, <1>j, RulesFit DEF K0
    <3> QED BY <1>5, <3>1, <3>2, HoldsUpdates
  <2>2. K0 \cup {"first_name"} = K1 BY DEF K0, K1
  <2> QED BY <2>1, <2>2, <1>e
<1>7. Holds(at(7), K2, U4, X, Z, e)
  <2>1. Holds(Schema!Execute(Schema!Update("users", "last_name", "other words"), at(6)),
      K1 \cup {"last_name"}, U4, X, Z, e)
    <3>1. "last_name" \in DOMAIN U4 BY <1>f, <1>k
    <3>2. \A S : RuleFits(K1, U4, X, S, "last_name", "other words") BY <1>i, <1>j, RulesFit DEF K1
    <3> QED BY <1>6, <3>1, <3>2, HoldsUpdates
  <2>2. K1 \cup {"last_name"} = K2 BY DEF K1, K2
  <2> QED BY <2>1, <2>2, <1>e
<1>8. Holds(at(8), K2, U5, X, Z, e)
  <2>1. Holds(Schema!Execute(Schema!SetNull("users", "first_name", FALSE), at(7)), K2,
      NullSet(U4, "first_name", FALSE), X, Z, e)
    <3>1. "first_name" \in DOMAIN U4 BY <1>f, <1>k
    <3>2. "first_name" \in K2 BY DEF K2
    <3> QED BY <1>7, <3>1, <3>2, <1>i, HoldsStrict
  <2>2. NullSet(U4, "first_name", FALSE) = U5
    <3> DEFINE no == FALSE
    <3>1. [maybe EXCEPT !.null = no] = Schema!Text BY <1>h
    <3> HIDE DEF no
    <3>2. NullSet(U4, "first_name", no) = U5 BY <1>f, <3>1, FirstNameNulls DEF U4, U5
    <3> QED BY <3>2 DEF no
  <2> QED BY <2>1, <2>2, <1>e
<1>9. Holds(at(9), K2, U6, X, Z, e)
  <2>1. Holds(Schema!Execute(Schema!SetNull("users", "last_name", FALSE), at(8)), K2,
      NullSet(U5, "last_name", FALSE), X, Z, e)
    <3>1. "last_name" \in DOMAIN U5 BY <1>f, <1>k
    <3>2. "last_name" \in K2 BY DEF K2
    <3> QED BY <1>8, <3>1, <3>2, <1>i, HoldsStrict
  <2>2. NullSet(U5, "last_name", FALSE) = U6
    <3> DEFINE no == FALSE
    <3>1. [maybe EXCEPT !.null = no] = Schema!Text BY <1>h
    <3> HIDE DEF no
    <3>2. NullSet(U5, "last_name", no) = U6 BY <1>f, <3>1, LastNameNulls DEF U5, U6
    <3> QED BY <3>2 DEF no
  <2> QED BY <2>1, <2>2, <1>e
<1>10. Holds(at(10), K3, U7, X, Z, e)
  <2>1. Holds(Schema!Execute(Schema!DropColumn("users", "name"), at(9)), K2 \ {"name"},
      Schema!Without(U6, "name"), X, Z, e)
    <3>1. "name" \in DOMAIN U6 BY <1>f, <1>k
    <3> QED BY <1>9, <3>1, HoldsDrops
  <2>2. Schema!Without(U6, "name") = U7 BY StageLoses DEF U6, U7, S1, S2, S3, S4, S5
  <2>3. K2 \ {"name"} = K3 BY DEF K2, K3
  <2> QED BY <2>1, <2>2, <2>3, <1>e
<1>11. Holds(at(11), K3, U8, X, Z, e)
  <2>1. Holds(Schema!Execute(Schema!SetNull("users", "student_staff_number", TRUE), at(10)), K3,
      NullSet(U7, "student_staff_number", TRUE), X, Z, e)
    <3>1. "student_staff_number" \in DOMAIN U7 BY <1>f, <1>k
    <3>2. U7["student_staff_number"] = Schema!Text BY <1>f, StageIs DEF U7, NumberNames
    <3>3. "null" \in DOMAIN U7["student_staff_number"] BY <1>h, <3>2
    <3> QED BY <1>10, <3>1, <3>3, HoldsNullable
  <2>2. NullSet(U7, "student_staff_number", TRUE) = U8
    <3> DEFINE yes == TRUE
    <3>1. [Schema!Text EXCEPT !.null = yes] = maybe BY <1>h
    <3> HIDE DEF yes
    <3>2. "student_staff_number" \in NumberNames BY DEF NumberNames
    <3>3. NullSet(U7, "student_staff_number", yes) = U8 BY <1>f, <3>1, <3>2, NumberNulls DEF U7, U8
    <3> QED BY <3>3 DEF yes
  <2> QED BY <2>1, <2>2, <1>e
<1>12. Holds(at(12), K3, U9, X, Z, e)
  <2>1. Holds(Schema!Execute(Schema!Rename("users", "student_staff_number", "student_number"),
      at(11)), K3, Schema!Renamed(U8, "student_staff_number", "student_number"), X, Z, e)
    <3>1. "student_staff_number" \in DOMAIN U8 /\ "student_number" \notin DOMAIN U8 BY <1>f, <1>k
    <3>2. "student_staff_number" \notin K3 BY DEF K3
    <3> QED BY <1>11, <3>1, <3>2, HoldsRenames
  <2>2. Schema!Renamed(U8, "student_staff_number", "student_number") = U9
    <3>1. "student_staff_number" \in NumberNames /\ "student_number" \in NumberNames
      BY DEF NumberNames
    <3> QED BY <1>f, <3>1, StageRenames DEF U8, U9, S1, S2, S3, S4, S5
  <2> QED BY <2>1, <2>2, <1>e
<1>13. Holds(at(13), K3, U10, X, Z, e)
  <2>1. Holds(Schema!Execute(Schema!DropColumn("users", "auth_hash"), at(12)), K3 \ {"auth_hash"},
      Schema!Without(U9, "auth_hash"), X, Z, e)
    <3>1. "auth_hash" \in DOMAIN U9 BY <1>f, <1>k
    <3> QED BY <1>12, <3>1, HoldsDrops
  <2>2. Schema!Without(U9, "auth_hash") = U10 BY StageLoses DEF U9, U10, S1, S2, S3, S4, S5
  <2>3. K3 \ {"auth_hash"} = K3 BY DEF K3, K3
  <2> QED BY <2>1, <2>2, <2>3, <1>e
<1>m. U10 = Schema!User
  BY UserStages, <1>f DEF U10, role1, role2, maybe
<1> QED BY <1>13, <1>b, <1>m DEF Z, K3

\* And back: the two names are joined.
LEMMA NamesRun ==
  ASSUME NEW d, NEW X, NEW e, NEW statuses, NEW news, UserRowsOk(X, Schema!User),
         Holds(d, {"first_name", "last_name"}, Schema!User, X,
             LabelsOf({"student", "farmer", "admin"}, statuses, news), e),
         FreeOf(e.p, "user_role"), FreeOf(e.j, "user_role"), RowsFit(e.z, e.j)
  PROVE  Holds(Schema!Run(Schema!FromProfiles, d), {"name"}, Schema!BaseUsers("department"), X,
               LabelsOf(BaseRoles, statuses, news), e)
<1> DEFINE role1 == Schema!Default(Schema!Col("user_role"), "student")
           role2 == Schema!Default(Schema!Col("user_role"), "student_staff")
           none == Schema!Col("user_role")
           maybe == Schema!Maybe(Schema!Text)
           blank == [Schema!Text EXCEPT !.default = Schema!Empty]
           S0 == UserNames
           S1 == S0 \cup {"auth_hash"}
           S2 == (S1 \ {"student_number"}) \cup {"student_staff_number"}
           S3 == S2 \cup {"name"}
           S4 == S3 \ {"last_name"}
           S5 == S4 \ {"first_name"}
           U0 == UserStage(S0, role1, Schema!Text, Schema!Text, maybe, maybe, blank)
           U1 == UserStage(S1, role1, Schema!Text, Schema!Text, maybe, maybe, blank)
           U2 == UserStage(S1, role1, Schema!Text, Schema!Text, maybe, maybe, Schema!Text)
           U3 == UserStage(S1, role1, Schema!Text, Schema!Text, maybe, Schema!Text, Schema!Text)
           U4 == UserStage(S2, role1, Schema!Text, Schema!Text, maybe, Schema!Text, Schema!Text)
           U5 == UserStage(S3, role1, Schema!Text, Schema!Text, maybe, Schema!Text, Schema!Text)
           U6 == UserStage(S3, role1, Schema!Text, Schema!Text, Schema!Text, Schema!Text,
               Schema!Text)
           U7 == UserStage(S4, role1, Schema!Text, Schema!Text, Schema!Text, Schema!Text,
               Schema!Text)
           U8 == UserStage(S5, role1, Schema!Text, Schema!Text, Schema!Text, Schema!Text,
               Schema!Text)
           U9 == UserStage(S5, none, Schema!Text, Schema!Text, Schema!Text, Schema!Text,
               Schema!Text)
           U10 == UserStage(S5, role2, Schema!Text, Schema!Text, Schema!Text, Schema!Text,
               Schema!Text)
           K0 == {"first_name", "last_name"}
           K1 == {"first_name", "last_name", "student_number"}
           K2 == {"first_name", "last_name", "name"}
           K3 == {"first_name", "name"}
           K4 == {"name"}
           Y == LabelsOf({"student", "farmer", "admin"}, statuses, news)
           Z == LabelsOf(BaseRoles, statuses, news)
           at(k) == UptoCommand(Schema!FromProfiles, k, d)
<1>n. Len(Schema!FromProfiles) = 13 BY DEF Schema!FromProfiles
<1>a. \A k \in 1..13 : at(k) = Schema!Execute(Schema!FromProfiles[k], at(k - 1)) BY <1>n, CommandIs
<1>b. at(0) = d /\ Schema!Run(Schema!FromProfiles, d) = at(13)
  <2>1. Len(Schema!FromProfiles) \in Nat /\ 13 \in Nat /\ 13 <= Len(Schema!FromProfiles)
      /\ Len(Schema!FromProfiles) <= 13
    BY <1>n
  <2> QED BY <2>1, ScriptStarts, ScriptEnds
<1>c. /\ Schema!FromProfiles[1] = Schema!AddColumn("users", "auth_hash",
         [Schema!Text EXCEPT !.default = Schema!Empty])
      /\ Schema!FromProfiles[2] = Schema!SetDefault("users", "auth_hash", Schema!NULL)
      /\ Schema!FromProfiles[3] = Schema!Update("users", "student_number", "or empty")
      /\ Schema!FromProfiles[4] = Schema!SetNull("users", "student_number", FALSE)
      /\ Schema!FromProfiles[5] = Schema!Rename("users", "student_number", "student_staff_number")
      /\ Schema!FromProfiles[6] = Schema!AddColumn("users", "name", Schema!Maybe(Schema!Text))
      /\ Schema!FromProfiles[7] = Schema!Update("users", "name", "joined")
      /\ Schema!FromProfiles[8] = Schema!SetNull("users", "name", FALSE)
      /\ Schema!FromProfiles[9] = Schema!DropColumn("users", "last_name")
      /\ Schema!FromProfiles[10] = Schema!DropColumn("users", "first_name")
      /\ Schema!FromProfiles[11] = Schema!SetDefault("users", "role", Schema!NULL)
      /\ Schema!FromProfiles[12] = Schema!RenameLabel("user_role", "student", "student_staff")
      /\ Schema!FromProfiles[13] = Schema!SetDefault("users", "role", <<"student_staff">>)
  BY DEF Schema!FromProfiles
<1> HIDE DEF at
<1>e. /\ at(1) = Schema!Execute(Schema!AddColumn("users", "auth_hash",
         [Schema!Text EXCEPT !.default = Schema!Empty]), at(0))
      /\ at(2) = Schema!Execute(Schema!SetDefault("users", "auth_hash", Schema!NULL), at(1))
      /\ at(3) = Schema!Execute(Schema!Update("users", "student_number", "or empty"), at(2))
      /\ at(4) = Schema!Execute(Schema!SetNull("users", "student_number", FALSE), at(3))
      /\ at(5) = Schema!Execute(Schema!Rename("users", "student_number", "student_staff_number"),
          at(4))
      /\ at(6) = Schema!Execute(Schema!AddColumn("users", "name", Schema!Maybe(Schema!Text)), at(5))
      /\ at(7) = Schema!Execute(Schema!Update("users", "name", "joined"), at(6))
      /\ at(8) = Schema!Execute(Schema!SetNull("users", "name", FALSE), at(7))
      /\ at(9) = Schema!Execute(Schema!DropColumn("users", "last_name"), at(8))
      /\ at(10) = Schema!Execute(Schema!DropColumn("users", "first_name"), at(9))
      /\ at(11) = Schema!Execute(Schema!SetDefault("users", "role", Schema!NULL), at(10))
      /\ at(12) = Schema!Execute(Schema!RenameLabel("user_role", "student", "student_staff"),
          at(11))
      /\ at(13) = Schema!Execute(Schema!SetDefault("users", "role", <<"student_staff">>), at(12))
  <2>1. at(1) = Schema!Execute(Schema!AddColumn("users", "auth_hash",
      [Schema!Text EXCEPT !.default = Schema!Empty]), at(0))
    <3>1. at(1) = Schema!Execute(Schema!FromProfiles[1], at(0)) BY <1>a
    <3> QED BY <3>1, <1>c
  <2>2. at(2) = Schema!Execute(Schema!SetDefault("users", "auth_hash", Schema!NULL), at(1))
    <3>1. at(2) = Schema!Execute(Schema!FromProfiles[2], at(1)) BY <1>a
    <3> QED BY <3>1, <1>c
  <2>3. at(3) = Schema!Execute(Schema!Update("users", "student_number", "or empty"), at(2))
    <3>1. at(3) = Schema!Execute(Schema!FromProfiles[3], at(2)) BY <1>a
    <3> QED BY <3>1, <1>c
  <2>4. at(4) = Schema!Execute(Schema!SetNull("users", "student_number", FALSE), at(3))
    <3>1. at(4) = Schema!Execute(Schema!FromProfiles[4], at(3)) BY <1>a
    <3> QED BY <3>1, <1>c
  <2>5. at(5) = Schema!Execute(Schema!Rename("users", "student_number", "student_staff_number"),
      at(4))
    <3>1. at(5) = Schema!Execute(Schema!FromProfiles[5], at(4)) BY <1>a
    <3> QED BY <3>1, <1>c
  <2>6. at(6) = Schema!Execute(Schema!AddColumn("users", "name", Schema!Maybe(Schema!Text)), at(5))
    <3>1. at(6) = Schema!Execute(Schema!FromProfiles[6], at(5)) BY <1>a
    <3> QED BY <3>1, <1>c
  <2>7. at(7) = Schema!Execute(Schema!Update("users", "name", "joined"), at(6))
    <3>1. at(7) = Schema!Execute(Schema!FromProfiles[7], at(6)) BY <1>a
    <3> QED BY <3>1, <1>c
  <2>8. at(8) = Schema!Execute(Schema!SetNull("users", "name", FALSE), at(7))
    <3>1. at(8) = Schema!Execute(Schema!FromProfiles[8], at(7)) BY <1>a
    <3> QED BY <3>1, <1>c
  <2>9. at(9) = Schema!Execute(Schema!DropColumn("users", "last_name"), at(8))
    <3>1. at(9) = Schema!Execute(Schema!FromProfiles[9], at(8)) BY <1>a
    <3> QED BY <3>1, <1>c
  <2>10. at(10) = Schema!Execute(Schema!DropColumn("users", "first_name"), at(9))
    <3>1. at(10) = Schema!Execute(Schema!FromProfiles[10], at(9)) BY <1>a
    <3> QED BY <3>1, <1>c
  <2>11. at(11) = Schema!Execute(Schema!SetDefault("users", "role", Schema!NULL), at(10))
    <3>1. at(11) = Schema!Execute(Schema!FromProfiles[11], at(10)) BY <1>a
    <3> QED BY <3>1, <1>c
  <2>12. at(12) = Schema!Execute(Schema!RenameLabel("user_role", "student", "student_staff"),
      at(11))
    <3>1. at(12) = Schema!Execute(Schema!FromProfiles[12], at(11)) BY <1>a
    <3> QED BY <3>1, <1>c
  <2>13. at(13) = Schema!Execute(Schema!SetDefault("users", "role", <<"student_staff">>), at(12))
    <3>1. at(13) = Schema!Execute(Schema!FromProfiles[13], at(12)) BY <1>a
    <3> QED BY <3>1, <1>c
  <2> QED BY <2>1, <2>2, <2>3, <2>4, <2>5, <2>6, <2>7, <2>8, <2>9, <2>10, <2>11, <2>12, <2>13
<1>f. /\ S0 \subseteq UserColumns /\ S1 \subseteq UserColumns /\ S2 \subseteq UserColumns
      /\ S3 \subseteq UserColumns /\ S4 \subseteq UserColumns /\ S5 \subseteq UserColumns
      /\ "auth_hash" \notin S0 /\ "auth_hash" \in S1
      /\ "student_number" \in S1 /\ "student_staff_number" \notin S1
      /\ \A x \in NumberNames : x \in S1 => x = "student_number"
      /\ "name" \notin S2 /\ "name" \in S3 /\ "last_name" \in S3 /\ "first_name" \in S4
      /\ "role" \in S5 /\ "name" \in S5 /\ S5 = BaseUserNames
  BY DEF BaseUserNames, UserNames, NumberNames, UserColumns
<1>g. /\ role1.type = "user_role" /\ role2.type = "user_role" /\ none.type = "user_role"
      /\ [role1 EXCEPT !.default = Schema!NULL] = none
          /\ [role2 EXCEPT !.default = Schema!NULL] = none
      /\ [none EXCEPT !.default = <<"student">>] = role1
          /\ [none EXCEPT !.default = <<"student_staff">>] = role2
      /\ none.default = Schema!NULL /\ none = [c \in DOMAIN none |-> none[c]]
      /\ "null" \in DOMAIN none /\ "null" \in DOMAIN role1 /\ "null" \in DOMAIN role2
  BY RolesAre
<1>h. /\ Schema!Text.type = "text" /\ maybe.type = "text" /\ blank.type = "text"
      /\ [Schema!Text EXCEPT !.null = TRUE] = maybe /\ [maybe EXCEPT !.null = FALSE] = Schema!Text
      /\ "null" \in DOMAIN Schema!Text /\ "null" \in DOMAIN maybe /\ "null" \in DOMAIN blank
      /\ [blank EXCEPT !.default = Schema!NULL] = Schema!Text
      /\ maybe.null /\ blank.default # Schema!NULL
  <2>1. maybe.null BY ColumnsAre
  <2>2. blank.default # Schema!NULL
    <3>1. Schema!Empty # Schema!NULL BY EmptyIs, NamesAreSomething
    <3> QED BY <3>1, TextsAre
  <2> QED BY <2>1, <2>2, TextsAre
<1>i. \A r \in X : NamesOk(r) BY DEF UserRowsOk
<1>j. \A r \in X : "name" \notin DOMAIN r
  <2>1. "name" \notin DOMAIN Schema!User BY DEF Schema!User
  <2> QED BY <2>1 DEF UserRowsOk, RowOk
<1>k. /\ DOMAIN U0 = S0
      /\ DOMAIN U1 = S1
      /\ DOMAIN U2 = S1
      /\ DOMAIN U3 = S1
      /\ DOMAIN U4 = S2
      /\ DOMAIN U5 = S3
      /\ DOMAIN U6 = S3
      /\ DOMAIN U7 = S4
      /\ DOMAIN U8 = S5
      /\ DOMAIN U9 = S5
      /\ DOMAIN U10 = S5
  BY StageIs
<1> HIDE DEF role1, role2, none, maybe, blank, S0, S1, S2, S3, S4, S5
<1>0. Holds(at(0), K0, U0, X, Y, e)
  <2>1. Schema!User = U0
    BY UserStages DEF role1, role2, maybe, S0
  <2> QED BY <2>1, <1>b
<1> HIDE DEF Y, Z, U0, U1, U2, U3, U4, U5, U6, U7, U8, U9, U10, K0, K1, K2, K3, K4
<1>1. Holds(at(1), K0, U1, X, Y, e)
  <2>1. Holds(Schema!Execute(Schema!AddColumn("users", "auth_hash", blank), at(0)), K0,
      Schema!Put(U0, "auth_hash", blank), X, Y, e)
    <3>1. "auth_hash" \notin DOMAIN U0 BY <1>f, <1>k
    <3>2. blank.null \/ blank.default # Schema!NULL BY <1>h
    <3> QED BY <1>0, <3>1, <3>2, HoldsAdds
  <2>2. Schema!Put(U0, "auth_hash", blank) = U1 BY HashComes DEF U0, U1, S1, S2, S3, S4, S5
  <2>3. at(1) = Schema!Execute(Schema!AddColumn("users", "auth_hash", blank), at(0))
    BY <1>e DEF maybe, blank
  <2> QED BY <2>1, <2>2, <2>3
<1>2. Holds(at(2), K0, U2, X, Y, e)
  <2>1. Holds(Schema!Execute(Schema!SetDefault("users", "auth_hash", Schema!NULL), at(1)), K0,
      DefaultSet(U1, "auth_hash", Schema!NULL), X, Y, e)
    <3>1. "auth_hash" \in DOMAIN U1 /\ U1["auth_hash"] = blank BY <1>f, <1>k, StageIs DEF U1
    <3>2. "null" \in DOMAIN U1["auth_hash"] BY <3>1, <1>g, <1>h
    <3>3. LabelFits(Schema!NULL, U1["auth_hash"].type, Y) BY DEF LabelFits
    <3> QED BY <1>1, <3>1, <3>2, <3>3, HoldsDefaults
  <2>2. DefaultSet(U1, "auth_hash", Schema!NULL) = U2
    <3>1. [blank EXCEPT !.default = Schema!NULL] = Schema!Text BY <1>g, <1>h
    <3> DEFINE x == Schema!NULL
    <3> HIDE DEF x
    <3>2. [blank EXCEPT !.default = x] = Schema!Text BY <3>1 DEF x
    <3>3. DefaultSet(U1, "auth_hash", x) = U2 BY <1>f, <3>2, HashDefaults DEF U1, U2
    <3> QED BY <3>3 DEF x
  <2> QED BY <2>1, <2>2, <1>e
<1>3. Holds(at(3), K1, U2, X, Y, e)
  <2>1. Holds(Schema!Execute(Schema!Update("users", "student_number", "or empty"), at(2)),
      K0 \cup {"student_number"}, U2, X, Y, e)
    <3>1. "student_number" \in DOMAIN U2 BY <1>f, <1>k
    <3>2. \A S : RuleFits(K0, U2, X, S, "student_number", "or empty") BY <1>i, <1>j, RulesFit DEF K0
    <3> QED BY <1>2, <3>1, <3>2, HoldsUpdates
  <2>2. K0 \cup {"student_number"} = K1 BY DEF K0, K1
  <2> QED BY <2>1, <2>2, <1>e
<1>4. Holds(at(4), K1, U3, X, Y, e)
  <2>1. Holds(Schema!Execute(Schema!SetNull("users", "student_number", FALSE), at(3)), K1,
      NullSet(U2, "student_number", FALSE), X, Y, e)
    <3>1. "student_number" \in DOMAIN U2 BY <1>f, <1>k
    <3>2. "student_number" \in K1 BY DEF K1
    <3> QED BY <1>3, <3>1, <3>2, <1>i, HoldsStrict
  <2>2. NullSet(U2, "student_number", FALSE) = U3
    <3> DEFINE no == FALSE
    <3>1. [maybe EXCEPT !.null = no] = Schema!Text BY <1>h
    <3> HIDE DEF no
    <3>2. "student_number" \in NumberNames BY DEF NumberNames
    <3>3. NullSet(U2, "student_number", no) = U3 BY <1>f, <3>1, <3>2, NumberNulls DEF U2, U3
    <3> QED BY <3>3 DEF no
  <2> QED BY <2>1, <2>2, <1>e
<1>5. Holds(at(5), K0, U4, X, Y, e)
  <2>1. Holds(at(4), K0, U3, X, Y, e)
    <3>1. K0 \subseteq K1 BY DEF K1, K0
    <3> QED BY <1>4, <3>1, HoldsLess
  <2>2. Holds(Schema!Execute(Schema!Rename("users", "student_number", "student_staff_number"),
      at(4)), K0, Schema!Renamed(U3, "student_number", "student_staff_number"), X, Y, e)
    <3>1. "student_number" \in DOMAIN U3 /\ "student_staff_number" \notin DOMAIN U3 BY <1>f, <1>k
    <3>2. "student_number" \notin K0 BY DEF K0
    <3> QED BY <2>1, <3>1, <3>2, HoldsRenames
  <2>3. Schema!Renamed(U3, "student_number", "student_staff_number") = U4
    <3>1. "student_number" \in NumberNames /\ "student_staff_number" \in NumberNames
      BY DEF NumberNames
    <3> QED BY <1>f, <3>1, StageRenames DEF U3, U4, S1, S2, S3, S4, S5
  <2> QED BY <2>2, <2>3, <1>e
<1>6. Holds(at(6), K0, U5, X, Y, e)
  <2>1. Holds(Schema!Execute(Schema!AddColumn("users", "name", maybe), at(5)), K0,
      Schema!Put(U4, "name", maybe), X, Y, e)
    <3>1. "name" \notin DOMAIN U4 BY <1>f, <1>k
    <3>2. maybe.null \/ maybe.default # Schema!NULL BY <1>h
    <3> QED BY <1>5, <3>1, <3>2, HoldsAdds
  <2>2. Schema!Put(U4, "name", maybe) = U5 BY NameComes DEF U4, U5, S1, S2, S3, S4, S5
  <2>3. at(6) = Schema!Execute(Schema!AddColumn("users", "name", maybe), at(5))
    BY <1>e DEF maybe, blank
  <2> QED BY <2>1, <2>2, <2>3
<1>7. Holds(at(7), K2, U5, X, Y, e)
  <2>1. Holds(Schema!Execute(Schema!Update("users", "name", "joined"), at(6)), K0 \cup {"name"},
      U5, X, Y, e)
    <3>1. "name" \in DOMAIN U5 BY <1>f, <1>k
    <3>2. \A S : RuleFits(K0, U5, X, S, "name", "joined") BY <1>i, <1>j, RulesFit DEF K0
    <3> QED BY <1>6, <3>1, <3>2, HoldsUpdates
  <2>2. K0 \cup {"name"} = K2 BY DEF K0, K2
  <2> QED BY <2>1, <2>2, <1>e
<1>8. Holds(at(8), K2, U6, X, Y, e)
  <2>1. Holds(Schema!Execute(Schema!SetNull("users", "name", FALSE), at(7)), K2,
      NullSet(U5, "name", FALSE), X, Y, e)
    <3>1. "name" \in DOMAIN U5 BY <1>f, <1>k
    <3>2. "name" \in K2 BY DEF K2
    <3> QED BY <1>7, <3>1, <3>2, <1>i, HoldsStrict
  <2>2. NullSet(U5, "name", FALSE) = U6
    <3> DEFINE no == FALSE
    <3>1. [maybe EXCEPT !.null = no] = Schema!Text BY <1>h
    <3> HIDE DEF no
    <3>2. NullSet(U5, "name", no) = U6 BY <1>f, <3>1, NameNulls DEF U5, U6
    <3> QED BY <3>2 DEF no
  <2> QED BY <2>1, <2>2, <1>e
<1>9. Holds(at(9), K3, U7, X, Y, e)
  <2>1. Holds(Schema!Execute(Schema!DropColumn("users", "last_name"), at(8)), K2 \ {"last_name"},
      Schema!Without(U6, "last_name"), X, Y, e)
    <3>1. "last_name" \in DOMAIN U6 BY <1>f, <1>k
    <3> QED BY <1>8, <3>1, HoldsDrops
  <2>2. Schema!Without(U6, "last_name") = U7 BY StageLoses DEF U6, U7, S1, S2, S3, S4, S5
  <2>3. K2 \ {"last_name"} = K3 BY DEF K2, K3
  <2> QED BY <2>1, <2>2, <2>3, <1>e
<1>10. Holds(at(10), K4, U8, X, Y, e)
  <2>1. Holds(Schema!Execute(Schema!DropColumn("users", "first_name"), at(9)),
      K3 \ {"first_name"}, Schema!Without(U7, "first_name"), X, Y, e)
    <3>1. "first_name" \in DOMAIN U7 BY <1>f, <1>k
    <3> QED BY <1>9, <3>1, HoldsDrops
  <2>2. Schema!Without(U7, "first_name") = U8 BY StageLoses DEF U7, U8, S1, S2, S3, S4, S5
  <2>3. K3 \ {"first_name"} = K4 BY DEF K3, K4
  <2> QED BY <2>1, <2>2, <2>3, <1>e
<1>11. Holds(at(11), K4, U9, X, Y, e)
  <2>1. Holds(Schema!Execute(Schema!SetDefault("users", "role", Schema!NULL), at(10)), K4,
      DefaultSet(U8, "role", Schema!NULL), X, Y, e)
    <3>1. "role" \in DOMAIN U8 /\ U8["role"] = role1 BY <1>f, <1>k, StageIs DEF U8
    <3>2. "null" \in DOMAIN U8["role"] BY <3>1, <1>g, <1>h
    <3>3. LabelFits(Schema!NULL, U8["role"].type, Y) BY DEF LabelFits
    <3> QED BY <1>10, <3>1, <3>2, <3>3, HoldsDefaults
  <2>2. DefaultSet(U8, "role", Schema!NULL) = U9
    <3>1. [role1 EXCEPT !.default = Schema!NULL] = none BY <1>g, <1>h
    <3> DEFINE x == Schema!NULL
    <3> HIDE DEF x
    <3>2. [role1 EXCEPT !.default = x] = none BY <3>1 DEF x
    <3>3. DefaultSet(U8, "role", x) = U9 BY <1>f, <3>2, RoleDefaults DEF U8, U9
    <3> QED BY <3>3 DEF x
  <2> QED BY <2>1, <2>2, <1>e
<1>12. Holds(at(12), K4, U9, X, Z, e)
  <2>1. Schema!RelabelColumns(U9, "user_role", "student", "student_staff") = U9
    BY <1>f, <1>g, <1>h, StageRelabels DEF U9
  <2>2. \A c \in K4 : U9[c].type # "user_role"
    <3>1. U9["name"] = Schema!Text /\ Schema!Text.type # "user_role" BY <1>f, <1>h, StageIs DEF U9
    <3> QED BY <3>1 DEF K4
  <2>3. "student" \in Y["user_role"] /\ "student_staff" \notin Y["user_role"]
    <3>1. Y["user_role"] = {"student", "farmer", "admin"} BY RoleLabels DEF Y
    <3> QED BY <3>1 DEF BaseRoles
  <2>4. LabelsRelabelled(Y, "user_role", "student", "student_staff") = Z
    <3>1. ({"student", "farmer", "admin"} \ {"student"}) \cup {"student_staff"} = BaseRoles
      BY DEF BaseRoles
    <3> QED BY <3>1, RoleLabels DEF Y, Z
  <2>5. Holds(Schema!Execute(Schema!RenameLabel("user_role", "student", "student_staff"), at(11)),
      K4, U9, X,
             LabelsRelabelled(Y, "user_role", "student", "student_staff"), e)
    BY <1>11, <2>1, <2>2, <2>3, HoldsRelabels
  <2> QED BY <2>4, <2>5, <1>e
<1>13. Holds(at(13), K4, U10, X, Z, e)
  <2>1. Holds(Schema!Execute(Schema!SetDefault("users", "role", <<"student_staff">>), at(12)), K4,
      DefaultSet(U9, "role", <<"student_staff">>), X, Z, e)
    <3>1. "role" \in DOMAIN U9 /\ U9["role"] = none BY <1>f, <1>k, StageIs DEF U9
    <3>2. "null" \in DOMAIN U9["role"] BY <3>1, <1>g, <1>h
    <3>3. LabelFits(<<"student_staff">>, U9["role"].type, Z)
      <4>1. Z["user_role"] = BaseRoles BY RoleLabels DEF Z
      <4>2. Head(<<"student_staff">>) = "student_staff" OBVIOUS
      <4>3. Head(<<"student_staff">>) \in Z["user_role"] BY <4>1, <4>2 DEF BaseRoles
      <4> QED BY <4>3, <3>1, <1>g DEF LabelFits
    <3> QED BY <1>12, <3>1, <3>2, <3>3, HoldsDefaults
  <2>2. DefaultSet(U9, "role", <<"student_staff">>) = U10
    <3>1. [none EXCEPT !.default = <<"student_staff">>] = role2 BY <1>g, <1>h
    <3> DEFINE x == <<"student_staff">>
    <3> HIDE DEF x
    <3>2. [none EXCEPT !.default = x] = role2 BY <3>1 DEF x
    <3>3. DefaultSet(U9, "role", x) = U10 BY <1>f, <3>2, RoleDefaults DEF U9, U10
    <3> QED BY <3>3 DEF x
  <2> QED BY <2>1, <2>2, <1>e
<1>m. U10 = Schema!BaseUsers("department")
  BY UserStages, <1>f DEF U10, role1, role2, maybe
<1> QED BY <1>13, <1>b, <1>m DEF Z, K4

--------------------------------------------------------------------------------
(* The revision that splits the names, and the rest of the plan *)

\* The users' table changes and nothing else does.
ProfilesMove(a, b) == \A r \in Schema!Revisions \ {"0004"} : r \in b <=> r \in a

\* 0004 changes users and the roles, and nothing else.
LEMMA ProfilesParts ==
  ASSUME NEW X, NEW Z, NEW statuses, NEW news, NEW w, NEW a, NEW department \in DepartmentNames,
         SchemaParts(X, Z, statuses, news, w, a, department), "0002" \in a,
         NEW b, ProfilesMove(a, b)
  PROVE  /\ JobTable(b, department) = JobTable(a, department)
         /\ PrinterTable(b) = PrinterTable(a) /\ IndexesOf(b) = IndexesOf(a)
         /\ \A S : UserRowsOk(S, UserTable(b, department))
                     => SchemaParts(S, Z, statuses, news, w, b, department)
<1>1. /\ "0002" \in b <=> "0002" \in a
      /\ Schema!Timing \in b <=> Schema!Timing \in a
      /\ Schema!Upload \in b <=> Schema!Upload \in a
      /\ "0003" \in b <=> "0003" \in a
      /\ "0006" \in b <=> "0006" \in a
      /\ "0008" \in b <=> "0008" \in a
      /\ "0009" \in b <=> "0009" \in a
  BY RevisionsAre DEF ProfilesMove
<1>2. JobTable(b, department) = JobTable(a, department)
  <2>1. JobSpecs(b) = JobSpecs(a) BY <1>1, JobSpecsStay
  <2>2. JobColumns(b, department) = JobColumns(a, department) BY <1>1 DEF JobColumns
  <2> QED BY <2>1, <2>2 DEF JobTable
<1>3. PrinterTable(b) = PrinterTable(a) /\ IndexesOf(b) = IndexesOf(a)
  BY <1>1 DEF PrinterTable, IndexesOf
<1>4. ASSUME NEW S, UserRowsOk(S, UserTable(b, department))
      PROVE  SchemaParts(S, Z, statuses, news, w, b, department)
  <2>1. StatusesOf(b, statuses) BY <1>1 DEF StatusesOf, SchemaParts
  <2>2. NewsOf(b, news) BY <1>1 DEF NewsOf, SchemaParts
  <2>3. WidthOf(b, w)
    <3>1. w = 255 BY DEF WidthOf, SchemaParts
    <3> QED BY <3>1 DEF WidthOf
  <2>4. JobRowsOk(Z, JobTable(b, department)) BY <1>2 DEF SchemaParts
  <2>6. "0003" \in b => department = "department" BY <1>1 DEF SchemaParts
  <2> QED BY <2>1, <2>2, <2>3, <2>4, <2>6, <1>4 DEF SchemaParts
<1> QED BY <1>2, <1>3, <1>4

\* What the users' scripts need of the rest of the database.
LEMMA RestIs ==
  ASSUME NEW X, NEW Z, NEW statuses, NEW news, NEW w, NEW a, NEW department \in DepartmentNames,
         SchemaParts(X, Z, statuses, news, w, a, department),
         NEW K, Traced(K, UserTable(a, department), X, X)
  PROVE  LET e == [p |-> PrinterTable(a), j |-> JobTable(a, department), z |-> Z,
                   i |-> IndexesOf(a), w |-> w]
         IN /\ Holds(SchemaDb(X, Z, statuses, news, w, a, department), K, UserTable(a, department),
                     X, LabelsOf(Roles(a), statuses, news), e)
            /\ FreeOf(e.p, "user_role") /\ FreeOf(e.j, "user_role") /\ RowsFit(e.z, e.j)
            /\ e.p = PrinterTable(a) /\ e.j = JobTable(a, department) /\ e.z = Z
            /\ e.i = IndexesOf(a) /\ e.w = w
<1> DEFINE P == PrinterTable(a)
           J == JobTable(a, department)
           I == IndexesOf(a)
           U == UserTable(a, department)
           Y == LabelsOf(Roles(a), statuses, news)
           e == [p |-> P, j |-> J, z |-> Z, i |-> I, w |-> w]
<1>1. FreeOf(P, "user_role") /\ FreeOf(J, "user_role") BY TablesAreFree
<1>2. RowsFit(Z, J) BY JobRowsFit DEF SchemaParts
<1>3. SchemaDb(X, Z, statuses, news, w, a, department) = DbOf(U, X, P, J, Z, Y, I, w)
  BY DEF SchemaDb
<1> HIDE DEF P, J, I, U, Y
<1>4. e.p = P /\ e.j = J /\ e.z = Z /\ e.i = I /\ e.w = w OBVIOUS
<1> HIDE DEF e
<1>5. DbOf(U, X, P, J, Z, Y, I, w) = DbOf(U, X, e.p, e.j, e.z, Y, e.i, e.w) BY <1>4
<1>6. Traced(K, U, X, X) BY DEF U
<1>7. Holds(SchemaDb(X, Z, statuses, news, w, a, department), K, U, X, Y, e)
  BY <1>3, <1>5, <1>6 DEF Holds
<1> QED BY <1>1, <1>2, <1>4, <1>7 DEF e, P, J, I, U, Y

\* upgrade of 0004: names are split,
LEMMA ProfilesUp ==
  ASSUME NEW X, NEW Z, NEW statuses, NEW news, NEW w, NEW a, NEW department \in DepartmentNames,
         SchemaParts(X, Z, statuses, news, w, a, department), "0002" \in a, "0003" \in a,
         "0004" \notin a
  PROVE  GoesTo(Schema!ToProfiles, SchemaDb(X, Z, statuses, news, w, a, department),
      a \cup {"0004"})
<1> DEFINE b == a \cup {"0004"}
           K == {"first_name", "last_name"}
           e == [p |-> PrinterTable(a), j |-> JobTable(a, department), z |-> Z,
                 i |-> IndexesOf(a), w |-> w]
           d == SchemaDb(X, Z, statuses, news, w, a, department)
           Y == LabelsOf(Roles(a), statuses, news)
           Y2 == LabelsOf(Roles(b), statuses, news)
<1>1. department = "department" BY DEF SchemaParts
<1>2. /\ UserTable(a, department) = Schema!BaseUsers("department")
         /\ UserTable(b, department) = Schema!User
      /\ Roles(a) = BaseRoles /\ Roles(b) = {"student", "farmer", "admin"}
  BY <1>1 DEF UserTable, Roles
<1>3. UserRowsOk(X, Schema!BaseUsers("department")) BY <1>2 DEF SchemaParts
<1>4. "name" \in DOMAIN Schema!BaseUsers("department") BY DEF Schema!BaseUsers, Schema!Put
<1>5. Traced({"name"}, UserTable(a, department), X, X) BY <1>2, <1>3, <1>4, TracedStarts
<1>6. /\ Holds(d, {"name"}, UserTable(a, department), X, Y, e)
      /\ FreeOf(e.p, "user_role") /\ FreeOf(e.j, "user_role") /\ RowsFit(e.z, e.j)
      /\ e.p = PrinterTable(a) /\ e.j = JobTable(a, department) /\ e.z = Z
      /\ e.i = IndexesOf(a) /\ e.w = w
  BY <1>5, RestIs
<1>7. ProfilesMove(a, b) BY DEF ProfilesMove
<1> HIDE DEF d, e, b
<1>8. Holds(Schema!Run(Schema!ToProfiles, d), K, Schema!User, X, Y2, e)
  <2>1. Holds(d, {"name"}, Schema!BaseUsers("department"), X, LabelsOf(BaseRoles, statuses, news),
      e)
    BY <1>2, <1>6
  <2>2. Holds(Schema!Run(Schema!ToProfiles, d), {"first_name", "last_name"}, Schema!User, X,
              LabelsOf({"student", "farmer", "admin"}, statuses, news), e)
    BY <2>1, <1>3, <1>6, ProfilesRun
  <2> QED BY <2>2, <1>2
<1>9. PICK S : /\ Schema!Run(Schema!ToProfiles, d)
                  = DbOf(Schema!User, S, e.p, e.j, e.z, Y2, e.i, e.w)
               /\ Traced(K, Schema!User, X, S)
  BY <1>8 DEF Holds
<1>10. /\ JobTable(b, department) = JobTable(a, department)
       /\ PrinterTable(b) = PrinterTable(a) /\ IndexesOf(b) = IndexesOf(a)
       /\ \A Q : UserRowsOk(Q, UserTable(b, department))
                   => SchemaParts(Q, Z, statuses, news, w, b, department)
  BY <1>7, ProfilesParts
<1>12. Schema!Run(Schema!ToProfiles, d) = SchemaDb(S, Z, statuses, news, w, b, department)
  <2> HIDE DEF Y2
  <2>1. DbOf(Schema!User, S, e.p, e.j, e.z, Y2, e.i, e.w)
          = DbOf(UserTable(b, department), S, PrinterTable(b), JobTable(b, department), Z, Y2,
                 IndexesOf(b), w)
    BY <1>2, <1>6, <1>10
  <2> QED BY <1>9, <2>1 DEF SchemaDb, Y2
<1>13. UserRowsOk(S, Schema!User) /\ NamesKept(X, S)
  <2>1. \A r \in X : NamesOk(r) /\ "name" \in DOMAIN r
    BY <1>3, <1>4 DEF UserRowsOk, RowOk
  <2>2. "name" \notin DOMAIN Schema!User BY DEF Schema!User
  <2> QED BY <2>1, <2>2, <1>9, TracedEndsSplit
<1>14. SchemaParts(S, Z, statuses, news, w, b, department) BY <1>2, <1>10, <1>13
<1>15. GoesTo(Schema!ToProfiles, SchemaDb(X, Z, statuses, news, w, a, department), b)
  BY <1>12, <1>13, <1>14, TakesThere DEF d
<1> QED BY <1>15 DEF b

\* and its downgrade: names are joined.
LEMMA ProfilesDown ==
  ASSUME NEW X, NEW Z, NEW statuses, NEW news, NEW w, NEW a, NEW department \in DepartmentNames,
         SchemaParts(X, Z, statuses, news, w, a, department), "0002" \in a, "0003" \in a,
         "0004" \in a
  PROVE  GoesTo(Schema!FromProfiles, SchemaDb(X, Z, statuses, news, w, a, department), a \ {"0004"})
<1> DEFINE b == a \ {"0004"}
           K == {"first_name", "last_name"}
           e == [p |-> PrinterTable(a), j |-> JobTable(a, department), z |-> Z,
                 i |-> IndexesOf(a), w |-> w]
           d == SchemaDb(X, Z, statuses, news, w, a, department)
           Y == LabelsOf(Roles(a), statuses, news)
           Y2 == LabelsOf(Roles(b), statuses, news)
           V == Schema!BaseUsers("department")
<1>1. department = "department" BY DEF SchemaParts
<1>2. /\ UserTable(a, department) = Schema!User /\ UserTable(b, department) = V
      /\ Roles(a) = {"student", "farmer", "admin"} /\ Roles(b) = BaseRoles
  BY <1>1 DEF UserTable, Roles
<1>3. UserRowsOk(X, Schema!User) BY <1>2 DEF SchemaParts
<1>4. "name" \notin DOMAIN Schema!User /\ {"first_name", "last_name"} \subseteq DOMAIN Schema!User
  BY DEF Schema!User
<1>5. Traced(K, UserTable(a, department), X, X) BY <1>2, <1>3, <1>4, TracedStarts
<1> HIDE DEF K
<1>6. /\ Holds(d, K, UserTable(a, department), X, Y, e)
      /\ FreeOf(e.p, "user_role") /\ FreeOf(e.j, "user_role") /\ RowsFit(e.z, e.j)
      /\ e.p = PrinterTable(a) /\ e.j = JobTable(a, department) /\ e.z = Z
      /\ e.i = IndexesOf(a) /\ e.w = w
  BY <1>5, RestIs
<1>7. ProfilesMove(a, b) BY DEF ProfilesMove
<1>a. "name" \in DOMAIN V BY DEF Schema!BaseUsers, Schema!Put
<1> HIDE DEF d, e, b, V
<1>8. Holds(Schema!Run(Schema!FromProfiles, d), {"name"}, V, X, Y2, e)
  <2>1. Holds(d, {"first_name", "last_name"}, Schema!User, X,
              LabelsOf({"student", "farmer", "admin"}, statuses, news), e)
    BY <1>2, <1>6 DEF K
  <2>2. Holds(Schema!Run(Schema!FromProfiles, d), {"name"}, Schema!BaseUsers("department"), X,
              LabelsOf(BaseRoles, statuses, news), e)
    BY <2>1, <1>3, <1>6, NamesRun
  <2> QED BY <2>2, <1>2 DEF V
<1>9. PICK S : /\ Schema!Run(Schema!FromProfiles, d) = DbOf(V, S, e.p, e.j, e.z, Y2, e.i, e.w)
               /\ Traced({"name"}, V, X, S)
  BY <1>8 DEF Holds
<1>10. /\ JobTable(b, department) = JobTable(a, department)
       /\ PrinterTable(b) = PrinterTable(a) /\ IndexesOf(b) = IndexesOf(a)
       /\ \A Q : UserRowsOk(Q, UserTable(b, department))
                   => SchemaParts(Q, Z, statuses, news, w, b, department)
  BY <1>7, ProfilesParts
<1>12. Schema!Run(Schema!FromProfiles, d) = SchemaDb(S, Z, statuses, news, w, b, department)
  <2> HIDE DEF Y2
  <2>1. DbOf(V, S, e.p, e.j, e.z, Y2, e.i, e.w)
          = DbOf(UserTable(b, department), S, PrinterTable(b), JobTable(b, department), Z, Y2,
                 IndexesOf(b), w)
    BY <1>2, <1>6, <1>10
  <2> QED BY <1>9, <2>1 DEF SchemaDb, Y2
<1>13. UserRowsOk(S, V) /\ NamesKept(X, S)
  <2>1. \A r \in X : NamesOk(r) /\ "name" \notin DOMAIN r
    BY <1>3, <1>4 DEF UserRowsOk, RowOk
  <2> QED BY <2>1, <1>a, <1>9, TracedEndsJoined
<1>14. SchemaParts(S, Z, statuses, news, w, b, department) BY <1>2, <1>10, <1>13
<1>15. GoesTo(Schema!FromProfiles, SchemaDb(X, Z, statuses, news, w, a, department), b)
  BY <1>12, <1>13, <1>14, TakesThere DEF d
<1> QED BY <1>15 DEF b

--------------------------------------------------------------------------------
(* Any revision up or down *)

\* What each revision revises,
LEMMA Lookups ==
  /\ Schema!DownRevisions["0001"] = {} /\ Schema!DownRevisions["0002"] = {"0001"}
  /\ Schema!DownRevisions["0003"] = {"0002"} /\ Schema!DownRevisions["0004"] = {"0003"}
  /\ Schema!DownRevisions[Schema!Timing] = {"0004"}
      /\ Schema!DownRevisions[Schema!Upload] = {"0004"}
  /\ Schema!DownRevisions["0006"] = {Schema!Timing}
      /\ Schema!DownRevisions["0007"] = {"0006", Schema!Upload}
  /\ Schema!DownRevisions["0008"] = {"0007"} /\ Schema!DownRevisions["0009"] = {"0008"}
BY DEF Schema!DownRevisions, Schema!Revisions, Schema!Timing, Schema!Upload

\* and its scripts.
LEMMA Scripts ==
  /\ Schema!Up["0001"] = Schema!Baseline("department") /\ Schema!Up["0002"] = Schema!AddQueueIndexes
  /\ Schema!Up["0003"] = Schema!ToDepartment /\ Schema!Up["0004"] = Schema!ToProfiles
  /\ Schema!Up[Schema!Timing] = Schema!AddTiming /\ Schema!Up[Schema!Upload] = Schema!AddUpload
      /\ Schema!Up["0006"] = Schema!AddPrusaLink
  /\ Schema!Up["0007"] = <<>> /\ Schema!Up["0008"] = Schema!AddPause
      /\ Schema!Up["0009"] = Schema!AddSubmitted
  /\ Schema!Down["0001"] = Schema!DropBaseline /\ Schema!Down["0002"] = Schema!DropQueueIndexes
  /\ Schema!Down["0003"] = Schema!ToUnitCode /\ Schema!Down["0004"] = Schema!FromProfiles
  /\ Schema!Down[Schema!Timing] = Schema!DropTiming
      /\ Schema!Down[Schema!Upload] = Schema!DropUpload
          /\ Schema!Down["0006"] = Schema!DropPrusaLink
  /\ Schema!Down["0007"] = <<>> /\ Schema!Down["0008"] = Schema!DropPause
      /\ Schema!Down["0009"] = <<>>
<1>1. /\ Schema!Up["0001"] = Schema!Baseline("department")
         /\ Schema!Up["0002"] = Schema!AddQueueIndexes
      /\ Schema!Up["0003"] = Schema!ToDepartment /\ Schema!Up["0004"] = Schema!ToProfiles
      /\ Schema!Up[Schema!Timing] = Schema!AddTiming
          /\ Schema!Up[Schema!Upload] = Schema!AddUpload /\ Schema!Up["0006"] = Schema!AddPrusaLink
      /\ Schema!Up["0007"] = <<>> /\ Schema!Up["0008"] = Schema!AddPause
          /\ Schema!Up["0009"] = Schema!AddSubmitted
  BY DEF Schema!Up, Schema!Revisions, Schema!Timing, Schema!Upload
<1>2. /\ Schema!Down["0001"] = Schema!DropBaseline /\ Schema!Down["0002"] = Schema!DropQueueIndexes
      /\ Schema!Down["0003"] = Schema!ToUnitCode /\ Schema!Down["0004"] = Schema!FromProfiles
      /\ Schema!Down[Schema!Timing] = Schema!DropTiming
          /\ Schema!Down[Schema!Upload] = Schema!DropUpload
              /\ Schema!Down["0006"] = Schema!DropPrusaLink
      /\ Schema!Down["0007"] = <<>> /\ Schema!Down["0008"] = Schema!DropPause
          /\ Schema!Down["0009"] = <<>>
  BY DEF Schema!Down, Schema!Revisions, Schema!Timing, Schema!Upload
<1> QED BY <1>1, <1>2

\* What is applied along with a revision.
LEMMA Below ==
  ASSUME NEW a, Closed(a)
  PROVE  /\ a # {} => "0001" \in a
         /\ "0002" \in a => "0001" \in a
         /\ "0003" \in a => "0002" \in a /\ "0001" \in a
         /\ "0004" \in a => "0003" \in a /\ "0002" \in a /\ "0001" \in a
         /\ a \cap {Schema!Timing, Schema!Upload, "0006", "0007", "0008", "0009"} # {} =>
             "0004" \in a
<1>1. /\ "0002" \in a => "0001" \in a
      /\ "0003" \in a => "0002" \in a
      /\ "0004" \in a => "0003" \in a
      /\ Schema!Timing \in a => "0004" \in a
      /\ Schema!Upload \in a => "0004" \in a
      /\ "0006" \in a => Schema!Timing \in a
      /\ "0007" \in a => "0006" \in a
      /\ "0008" \in a => "0007" \in a
      /\ "0009" \in a => "0008" \in a
  BY Lookups DEF Closed
<1>2. a \subseteq Schema!Revisions BY DEF Closed
<1> QED BY <1>1, <1>2, RevisionsAre

\* A revision whose down_revisions are applied may be,
LEMMA ClosedGrows ==
  ASSUME NEW a, Closed(a), NEW r \in Schema!Revisions, Schema!DownRevisions[r] \subseteq a
  PROVE  Closed(a \cup {r})
BY DEF Closed

\* and one that no other revises may be taken back.
LEMMA ClosedShrinks ==
  ASSUME NEW a, Closed(a), NEW r \in Schema!Heads(a)
  PROVE  Closed(a \ {r})
BY DEF Closed, Schema!Heads

\* Every identifier fits in the column, as wide as it is when it comes.
LEMMA IdentifiersFit ==
  ASSUME NEW d, NEW b, b \subseteq Schema!Revisions, WidthOf(b, d.width)
  PROVE  Schema!Fits(d, b)
<1>1. /\ Schema!IdLength["0001"] = 29 /\ Schema!IdLength["0002"] = 38
         /\ Schema!IdLength["0003"] = 35
      /\ Schema!IdLength["0004"] = 38 /\ Schema!IdLength[Schema!Timing] = 23
          /\ Schema!IdLength[Schema!Upload] = 40
      /\ Schema!IdLength["0006"] = 35 /\ Schema!IdLength["0007"] = 23
          /\ Schema!IdLength["0008"] = 28
      /\ Schema!IdLength["0009"] = 32
  BY DEF Schema!IdLength, Schema!Revisions, Schema!Timing, Schema!Upload
<1>2. \A r \in Schema!Revisions : Schema!IdLength[r] \in Nat /\ Schema!IdLength[r] <= 255
  BY <1>1, RevisionsAre
<1>3. Schema!Heads(b) \subseteq b BY DEF Schema!Heads
<1>4. CASE d.width = 255 BY <1>2, <1>3, <1>4 DEF Schema!Fits
<1>5. CASE d.width # 255
  <2>1. d.width = 32 /\ b \subseteq {"0001"} BY <1>5 DEF WidthOf, Schema!VersionWidth
  <2>2. \A r \in Schema!Heads(b) : Schema!IdLength[r] = 29 BY <2>1, <1>1, <1>3
  <2> QED BY <2>1, <2>2 DEF Schema!Fits
<1> QED BY <1>4, <1>5

\* From a database with the baseline, every other revision goes through.
LEMMA UpGoes ==
  ASSUME NEW d, NEW a, Closed(a), "0001" \in a,
         NEW department \in DepartmentNames, SchemaOf(d, a, department),
         NEW r \in Schema!Revisions, r \notin a, Schema!DownRevisions[r] \subseteq a
  PROVE  GoesTo(Schema!Up[r], d, a \cup {r})
<1> DEFINE X == d.rows["users"]
           Z == d.rows["print_jobs"]
           statuses == d.types["job_status"]
           news == d.types["notification_type"]
           w == d.width
           e == SchemaDb(X, Z, statuses, news, w, a, department)
<1>1. d = e /\ SchemaParts(X, Z, statuses, news, w, a, department) BY SchemaTaken
<1> HIDE DEF X, Z, statuses, news, w
<1>2. r \in {"0002", "0003", "0004", Schema!Timing, Schema!Upload, "0006", "0007", "0008", "0009"}
  BY RevisionsAre
<1>3. GoesTo(Schema!Up[r], e, a \cup {r})
  <2>1. CASE r = "0002"
    <3>1. "0002" \notin a BY <2>1
    <3>2. GoesTo(Schema!AddQueueIndexes, e, a \cup {"0002"}) BY <1>1, <3>1, QueueUp
    <3> QED BY <2>1, <3>2, Scripts
  <2>2. CASE r = "0003"
    <3>1. "0002" \in a /\ "0004" \notin a BY <2>2, Lookups, Below
    <3>2. GoesTo(Schema!ToDepartment, e, a \cup {"0003"}) BY <1>1, <3>1, DepartmentUp
    <3> QED BY <2>2, <3>2, Scripts
  <2>3. CASE r = "0004"
    <3>1. "0003" \in a /\ "0002" \in a /\ "0004" \notin a BY <2>3, Lookups, Below
    <3>2. GoesTo(Schema!ToProfiles, e, a \cup {"0004"}) BY <1>1, <3>1, ProfilesUp
    <3> QED BY <2>3, <3>2, Scripts
  <2>4. CASE r = Schema!Timing
    <3>1. "0004" \in a /\ Schema!Timing \notin a BY <2>4, Lookups
    <3>2. GoesTo(Schema!AddTiming, e, a \cup {Schema!Timing}) BY <1>1, <3>1, TimingUp
    <3> QED BY <2>4, <3>2, Scripts
  <2>5. CASE r = Schema!Upload
    <3>1. "0004" \in a /\ Schema!Upload \notin a BY <2>5, Lookups
    <3>2. GoesTo(Schema!AddUpload, e, a \cup {Schema!Upload}) BY <1>1, <3>1, UploadUp
    <3> QED BY <2>5, <3>2, Scripts
  <2>6. CASE r = "0006"
    <3>1. "0004" \in a /\ "0006" \notin a BY <2>6, Lookups, Below
    <3>2. GoesTo(Schema!AddPrusaLink, e, a \cup {"0006"}) BY <1>1, <3>1, PrusaLinkUp
    <3> QED BY <2>6, <3>2, Scripts
  <2>7. CASE r = "0007"
    <3>1. "0004" \in a BY <2>7, Lookups, Below
    <3>2. GoesTo(<<>>, e, a \cup {"0007"})
      <4> DEFINE q == "0007"
                 b == a \cup {q}
      <4>1. LabelsStay(a, b, q) BY DEF LabelsStay
      <4> HIDE DEF q, b
      <4>2. GoesTo(<<>>, e, b) BY <1>1, <3>1, <4>1, NothingTakes
      <4> QED BY <4>2 DEF q, b
    <3> QED BY <2>7, <3>2, Scripts
  <2>8. CASE r = "0008"
    <3>1. "0004" \in a /\ "0008" \notin a BY <2>8, Lookups, Below
    <3>2. GoesTo(Schema!AddPause, e, a \cup {"0008"}) BY <1>1, <3>1, PauseUp
    <3> QED BY <2>8, <3>2, Scripts
  <2>9. CASE r = "0009"
    <3>1. "0004" \in a BY <2>9, Lookups, Below
    <3>2. GoesTo(Schema!AddSubmitted, e, a \cup {"0009"}) BY <1>1, <3>1, SubmittedUp
    <3> QED BY <2>9, <3>2, Scripts
  <2> QED BY <1>2, <2>1, <2>2, <2>3, <2>4, <2>5, <2>6, <2>7, <2>8, <2>9
<1> QED BY <1>1, <1>3

\* Every downgrade but 0001's goes through, or is that of uploads with a job without material.
LEMMA DownGoes ==
  ASSUME NEW d, NEW a, Closed(a),
         NEW department \in DepartmentNames, SchemaOf(d, a, department),
         NEW r \in Schema!Heads(a), r # "0001"
  PROVE  \/ GoesTo(Schema!Down[r], d, a \ {r})
         \/ /\ r = Schema!Upload /\ \E q \in d.rows["print_jobs"] : q.material_id = Schema!NULL
            /\ Schema!Run(Schema!Down[r], d).script # "runs"
<1> DEFINE X == d.rows["users"]
           Z == d.rows["print_jobs"]
           statuses == d.types["job_status"]
           news == d.types["notification_type"]
           w == d.width
           e == SchemaDb(X, Z, statuses, news, w, a, department)
<1>1. d = e /\ SchemaParts(X, Z, statuses, news, w, a, department) BY SchemaTaken
<1>z. Z = d.rows["print_jobs"] OBVIOUS
<1> HIDE DEF X, Z, statuses, news, w
<1>2. r \in {"0002", "0003", "0004", Schema!Timing, Schema!Upload, "0006", "0007", "0008", "0009"}
  BY RevisionsAre DEF Schema!Heads, Closed
<1>a. r \in a /\ \A s \in a : r \notin Schema!DownRevisions[s] BY DEF Schema!Heads
<1>b. r = Schema!Upload \/ GoesTo(Schema!Down[r], e, a \ {r})
  <2>1. CASE r = "0002"
    <3>1. "0002" \in a BY <2>1, <1>a
    <3>2. GoesTo(Schema!DropQueueIndexes, e, a \ {"0002"}) BY <1>1, <3>1, QueueDown
    <3> QED BY <2>1, <3>2, Scripts
  <2>2. CASE r = "0003"
    <3>1. "0003" \in a /\ "0002" \in a /\ "0004" \notin a BY <2>2, <1>a, Lookups, Below
    <3>2. GoesTo(Schema!ToUnitCode, e, a \ {"0003"}) BY <1>1, <3>1, DepartmentDown
    <3> QED BY <2>2, <3>2, Scripts
  <2>3. CASE r = "0004"
    <3>1. "0003" \in a /\ "0002" \in a /\ "0004" \in a BY <2>3, <1>a, Below
    <3>2. GoesTo(Schema!FromProfiles, e, a \ {"0004"}) BY <1>1, <3>1, ProfilesDown
    <3> QED BY <2>3, <3>2, Scripts
  <2>4. CASE r = Schema!Timing
    <3>1. Schema!Timing \in a BY <2>4, <1>a
    <3>2. GoesTo(Schema!DropTiming, e, a \ {Schema!Timing}) BY <1>1, <3>1, TimingDown
    <3> QED BY <2>4, <3>2, Scripts
  <2>6. CASE r = "0006"
    <3>1. "0006" \in a BY <2>6, <1>a
    <3>2. GoesTo(Schema!DropPrusaLink, e, a \ {"0006"}) BY <1>1, <3>1, PrusaLinkDown
    <3> QED BY <2>6, <3>2, Scripts
  <2>7. CASE r \in {"0007", "0009"}
    <3>1. "0004" \in a BY <2>7, <1>a, Below
    <3>2. GoesTo(<<>>, e, a \ {r})
      <4> DEFINE b == a \ {r}
      <4>1. LabelsStay(a, b, r) BY <2>7 DEF LabelsStay
      <4> HIDE DEF b
      <4>2. GoesTo(<<>>, e, b) BY <1>1, <2>7, <3>1, <4>1, NothingTakes
      <4> QED BY <4>2 DEF b
    <3> QED BY <2>7, <3>2, Scripts
  <2>8. CASE r = "0008"
    <3>1. "0008" \in a BY <2>8, <1>a
    <3>2. GoesTo(Schema!DropPause, e, a \ {"0008"}) BY <1>1, <3>1, PauseDown
    <3> QED BY <2>8, <3>2, Scripts
  <2> QED BY <1>2, <2>1, <2>2, <2>3, <2>4, <2>6, <2>7, <2>8
<1>c. ASSUME r = Schema!Upload
      PROVE  \/ GoesTo(Schema!DropUpload, e, a \ {Schema!Upload})
             \/ /\ \E q \in Z : q.material_id = Schema!NULL
                /\ Schema!Run(Schema!DropUpload, e).script # "runs"
  <2>1. Schema!Upload \in a BY <1>a, <1>c
  <2>2. CASE \A q \in Z : q.material_id # Schema!NULL BY <1>1, <2>1, <2>2, UploadDown
  <2>3. CASE \E q \in Z : q.material_id = Schema!NULL BY <1>1, <2>1, <2>3, UploadRefused
  <2> QED BY <2>2, <2>3
<1> HIDE DEF e
<1> QED BY <1>1, <1>b, <1>c, <1>z, Scripts

--------------------------------------------------------------------------------
(* The rows of the program and of the database before Alembic *)

\* A new row fits its table if what is given does, the rest being defaults.
LEMMA RowIsOk ==
  ASSUME NEW d, NEW t, NEW M, d.tables[t] = M, NEW given,
         \A c \in DOMAIN given : given[c] # Schema!NULL \/ M[c].null
  PROVE  /\ RowOk(M, Schema!Row(d, t, given)) /\ DOMAIN Schema!Row(d, t, given) = DOMAIN M
         /\ \A c \in DOMAIN M \cap DOMAIN given : Schema!Row(d, t, given)[c] = given[c]
<1> DEFINE q == Schema!Row(d, t, given)
<1>1. Schema!Some # Schema!NULL BY DEF Schema!Some, Schema!NULL
<1>2. q = [c \in DOMAIN M |->
            IF c \in DOMAIN given THEN given[c]
            ELSE IF M[c].default # Schema!NULL THEN M[c].default
            ELSE IF M[c].null THEN Schema!NULL ELSE Schema!Some]
  BY DEF Schema!Row
<1> HIDE DEF q
<1>3. DOMAIN q = DOMAIN M /\ q = [c \in DOMAIN M |-> q[c]] BY <1>2
<1>4. \A c \in DOMAIN M \cap DOMAIN given : q[c] = given[c] BY <1>2
<1>5. \A c \in DOMAIN M : q[c] # Schema!NULL \/ M[c].null BY <1>1, <1>2
<1> QED BY <1>3, <1>4, <1>5 DEF RowOk, q

UsersSet(d, S) == [d EXCEPT !.rows["users"] = S]
JobsSet(d, S) == [d EXCEPT !.rows["print_jobs"] = S]

\* Other users,
LEMMA UsersAreSet ==
  ASSUME NEW U, NEW X, NEW P, NEW J, NEW Z, NEW Y, NEW I, NEW w, NEW S
  PROVE  UsersSet(DbOf(U, X, P, J, Z, Y, I, w), S) = DbOf(U, S, P, J, Z, Y, I, w)
<1> DEFINE T == TablesOf(U, P, J)
           R == RowsOf(X, Z)
           R2 == [R EXCEPT !["users"] = S]
<1>1. R2 = RowsOf(S, Z) BY RowsOfAre
<1> HIDE DEF T, R
<1>2. UsersSet(Base(T, R, Y, I, w), S) = Base(T, R2, Y, I, w)
  <2> DEFINE d == Base(T, R, Y, I, w)
  <2>1. d.rows = R BY BaseIs
  <2>2. UsersSet(d, S) = [d EXCEPT !.rows = R2] BY <2>1 DEF UsersSet
  <2> HIDE DEF R2
  <2>3. [d EXCEPT !.rows = R2] = Base(T, R2, Y, I, w) BY WithRows
  <2> QED BY <2>2, <2>3
<1> HIDE DEF R2
<1> QED BY <1>1, <1>2 DEF DbOf, T, R

\* or other jobs, and all else as it was:
LEMMA JobsAreSet ==
  ASSUME NEW U, NEW X, NEW P, NEW J, NEW Z, NEW Y, NEW I, NEW w, NEW S
  PROVE  JobsSet(DbOf(U, X, P, J, Z, Y, I, w), S) = DbOf(U, X, P, J, S, Y, I, w)
<1> DEFINE T == TablesOf(U, P, J)
           R == RowsOf(X, Z)
           R2 == [R EXCEPT !["print_jobs"] = S]
<1>1. R2 = RowsOf(X, S) BY RowsOfAre
<1> HIDE DEF T, R
<1>2. JobsSet(Base(T, R, Y, I, w), S) = Base(T, R2, Y, I, w)
  <2> DEFINE d == Base(T, R, Y, I, w)
  <2>1. d.rows = R BY BaseIs
  <2>2. JobsSet(d, S) = [d EXCEPT !.rows = R2] BY <2>1 DEF JobsSet
  <2> HIDE DEF R2
  <2>3. [d EXCEPT !.rows = R2] = Base(T, R2, Y, I, w) BY WithRows
  <2> QED BY <2>2, <2>3
<1> HIDE DEF R2
<1> QED BY <1>1, <1>2 DEF DbOf, T, R

\* so is a user written,
LEMMA UserRowIs ==
  ASSUME NEW U, NEW X, NEW P, NEW J, NEW Z, NEW Y, NEW I, NEW w, NEW given
  PROVE  Schema!WithRow(DbOf(U, X, P, J, Z, Y, I, w), "users", given)
           = DbOf(U, {Schema!Row(DbOf(U, X, P, J, Z, Y, I, w), "users", given)}, P, J, Z, Y, I, w)
<1> DEFINE d == DbOf(U, X, P, J, Z, Y, I, w)
           S == {Schema!Row(d, "users", given)}
<1>1. Schema!WithRow(d, "users", given) = UsersSet(d, S) BY DEF Schema!WithRow, UsersSet
<1> HIDE DEF S
<1>2. UsersSet(d, S) = DbOf(U, S, P, J, Z, Y, I, w) BY UsersAreSet
<1> QED BY <1>1, <1>2 DEF S

\* and a job.
LEMMA JobRowIs ==
  ASSUME NEW U, NEW X, NEW P, NEW J, NEW Z, NEW Y, NEW I, NEW w, NEW given
  PROVE  Schema!WithRow(DbOf(U, X, P, J, Z, Y, I, w), "print_jobs", given)
           = DbOf(U, X, P, J, {Schema!Row(DbOf(U, X, P, J, Z, Y, I, w), "print_jobs", given)}, Y,
               I, w)
<1> DEFINE d == DbOf(U, X, P, J, Z, Y, I, w)
           S == {Schema!Row(d, "print_jobs", given)}
<1>1. Schema!WithRow(d, "print_jobs", given) = JobsSet(d, S) BY DEF Schema!WithRow, JobsSet
<1> HIDE DEF S
<1>2. JobsSet(d, S) = DbOf(U, X, P, J, S, Y, I, w) BY JobsAreSet
<1> QED BY <1>1, <1>2 DEF S

\* The tables that rows are written to.
LEMMA TablesOfDb ==
  ASSUME NEW U, NEW X, NEW P, NEW J, NEW Z, NEW Y, NEW I, NEW w
  PROVE  /\ DbOf(U, X, P, J, Z, Y, I, w).tables["users"] = U
         /\ DbOf(U, X, P, J, Z, Y, I, w).tables["print_jobs"] = J
BY TablesOfAre, BaseIs DEF DbOf

\* A user, or a job, is added to a sound database.
LEMMA UserComes ==
  ASSUME NEW d, NEW a, NEW department, SchemaOf(d, a, department), NEW given,
         \A c \in DOMAIN given : given[c] # Schema!NULL \/ UserTable(a, department)[c].null,
         NamesOk(Schema!Row(d, "users", given))
  PROVE  /\ SchemaOf(Schema!WithRow(d, "users", given), a, department)
         /\ Schema!WithRow(d, "users", given).rows["print_jobs"] = d.rows["print_jobs"]
<1> DEFINE X == d.rows["users"]
           Z == d.rows["print_jobs"]
           statuses == d.types["job_status"]
           news == d.types["notification_type"]
           w == d.width
           S == {Schema!Row(d, "users", given)}
           U == UserTable(a, department)
           P == PrinterTable(a)
           J == JobTable(a, department)
           Y == LabelsOf(Roles(a), statuses, news)
           I == IndexesOf(a)
<1>1. d = DbOf(U, X, P, J, Z, Y, I, w) /\ SchemaParts(X, Z, statuses, news, w, a, department)
  BY SchemaTaken DEF SchemaDb
<1> HIDE DEF X, Z, statuses, news, w, U, P, J, I
<1>2. Schema!WithRow(d, "users", given) = DbOf(U, S, P, J, Z, Y, I, w) /\ d.tables["users"] = U
  <2> HIDE DEF Y
  <2> DEFINE D == DbOf(U, X, P, J, Z, Y, I, w)
  <2>1. Schema!WithRow(D, "users", given)
      = DbOf(U, {Schema!Row(D, "users", given)}, P, J, Z, Y, I, w) /\ D.tables["users"] = U
    BY UserRowIs, TablesOfDb
  <2>2. d = D BY <1>1
  <2> HIDE DEF D
  <2> QED BY <2>1, <2>2
<1>3. RowOk(U, Schema!Row(d, "users", given)) BY <1>2, RowIsOk DEF U
<1>4. UserRowsOk(S, U) BY <1>3 DEF UserRowsOk
<1>5. SchemaParts(S, Z, statuses, news, w, a, department) BY <1>1, <1>4 DEF SchemaParts, U
<1>6. Schema!WithRow(d, "users", given) = SchemaDb(S, Z, statuses, news, w, a, department)
  BY <1>2 DEF SchemaDb, U, P, J, I
<1> HIDE DEF S
<1>7. SchemaOf(SchemaDb(S, Z, statuses, news, w, a, department), a, department)
  BY <1>5, SchemaMade
<1>8. SchemaDb(S, Z, statuses, news, w, a, department).rows["print_jobs"] = Z BY SchemaDbIs
<1> QED BY <1>6, <1>7, <1>8 DEF Z

\* A job that fits may be written where the schema is what the revisions make of it.
LEMMA JobComes ==
  ASSUME NEW d, NEW a, NEW department, SchemaOf(d, a, department), NEW given,
         \A c \in DOMAIN given : given[c] # Schema!NULL \/ JobTable(a, department)[c].null,
         PendingOk(Schema!Row(d, "print_jobs", given))
  PROVE  /\ SchemaOf(Schema!WithRow(d, "print_jobs", given), a, department)
         /\ Schema!WithRow(d, "print_jobs", given).rows["users"] = d.rows["users"]
<1> DEFINE X == d.rows["users"]
           Z == d.rows["print_jobs"]
           statuses == d.types["job_status"]
           news == d.types["notification_type"]
           w == d.width
           S == {Schema!Row(d, "print_jobs", given)}
           U == UserTable(a, department)
           P == PrinterTable(a)
           J == JobTable(a, department)
           Y == LabelsOf(Roles(a), statuses, news)
           I == IndexesOf(a)
<1>1. d = DbOf(U, X, P, J, Z, Y, I, w) /\ SchemaParts(X, Z, statuses, news, w, a, department)
  BY SchemaTaken DEF SchemaDb
<1> HIDE DEF X, Z, statuses, news, w, U, P, J, I
<1>2. Schema!WithRow(d, "print_jobs", given) = DbOf(U, X, P, J, S, Y, I, w)
    /\ d.tables["print_jobs"] = J
  <2> HIDE DEF Y
  <2> DEFINE D == DbOf(U, X, P, J, Z, Y, I, w)
  <2>1. Schema!WithRow(D, "print_jobs", given)
      = DbOf(U, X, P, J, {Schema!Row(D, "print_jobs", given)}, Y, I, w)
          /\ D.tables["print_jobs"] = J
    BY JobRowIs, TablesOfDb
  <2>2. d = D BY <1>1
  <2> HIDE DEF D
  <2> QED BY <2>1, <2>2
<1>3. RowOk(J, Schema!Row(d, "print_jobs", given)) BY <1>2, RowIsOk DEF J
<1>4. JobRowsOk(S, J) BY <1>3 DEF JobRowsOk
<1>5. SchemaParts(X, S, statuses, news, w, a, department) BY <1>1, <1>4 DEF SchemaParts, J
<1>6. Schema!WithRow(d, "print_jobs", given) = SchemaDb(X, S, statuses, news, w, a, department)
  BY <1>2 DEF SchemaDb, U, P, J, I
<1> HIDE DEF S
<1>7. SchemaOf(SchemaDb(X, S, statuses, news, w, a, department), a, department)
  BY <1>5, SchemaMade
<1>8. SchemaDb(X, S, statuses, news, w, a, department).rows["users"] = X BY SchemaDbIs
<1> QED BY <1>6, <1>7, <1>8 DEF X

\* The constants' names are names.
LEMMA NamesAreGiven ==
  ASSUME Schema!MigrationsAssumption
  PROVE  FirstNames \subseteq Names /\ LastNames \subseteq Names /\ LiveNames \subseteq Names
BY DEF Schema!MigrationsAssumption, Names

\* At the head the tables are the models'.
LEMMA AllApplied ==
  ASSUME NEW department \in DepartmentNames
  PROVE  /\ UserTable(Schema!Revisions, department) = Schema!User
         /\ JobTable(Schema!Revisions, department)["material_id"].null
         /\ "status" \in DOMAIN JobTable(Schema!Revisions, department)
         /\ "material_id" \in DOMAIN JobTable(Schema!Revisions, department)
         /\ PrinterTable(Schema!Revisions) = Schema!Printer
             /\ Roles(Schema!Revisions) = {"student", "farmer", "admin"}
         /\ IndexesOf(Schema!Revisions) = Schema!ModelIndexes
<1> DEFINE a == Schema!Revisions
           F == JobSpecs(a)
           S == JobColumns(a, department)
<1>1. "0002" \in a /\ "0004" \in a /\ "0006" \in a /\ Schema!Upload \in a BY RevisionsAre
<1>2. "status" \in S /\ "material_id" \in S BY AwaitsThere DEF Awaits
<1>3. F["material_id"].null
  <2>1. F["material_id"] = Schema!Maybe(Schema!Ref("materials")) BY <1>1, JobSpecsAre
  <2> QED BY <2>1, RefsOf
<1> HIDE DEF F, S
<1>4. /\ Cut(F, S)["material_id"].null
      /\ "status" \in DOMAIN Cut(F, S) /\ "material_id" \in DOMAIN Cut(F, S)
  BY <1>2, <1>3 DEF Cut
<1> QED BY <1>1, <1>4 DEF UserTable, PrinterTable, Roles, IndexesOf, JobTable, F, S

\* The program's users fit,
LEMMA SignedUp ==
  ASSUME Schema!MigrationsAssumption, NEW d, NEW department \in DepartmentNames,
         SchemaOf(d, Schema!Revisions, department),
         NEW first \in FirstNames, NEW last \in LastNames, NEW number \in {Schema!NULL, Schema!Some}
  PROVE  SchemaOf(Schema!WithRow(d, "users", [first_name |-> first, last_name |-> last,
                                       student_number |-> number]), Schema!Revisions, department)
<1> DEFINE given == [first_name |-> first, last_name |-> last, student_number |-> number]
           q == Schema!Row(d, "users", given)
<1>1. DOMAIN given = {"first_name", "last_name", "student_number"} OBVIOUS
<1>2. first # Schema!NULL /\ last # Schema!NULL /\ first \in Names /\ last \in Names
  BY NamesAreGiven, NamesAreSomething
<1>3. Schema!User["student_number"].null
  <2>1. Schema!User["student_number"] = Schema!Maybe(Schema!Text) BY DEF Schema!User
  <2> QED BY <2>1, ColumnsAre
<1>4. \A c \in DOMAIN given : given[c] # Schema!NULL \/ Schema!User[c].null BY <1>2, <1>3
<1>5. UserTable(Schema!Revisions, department) = Schema!User BY AllApplied
<1>6. d.tables["users"] = Schema!User
  <2>1. d = SchemaDb(d.rows["users"], d.rows["print_jobs"], d.types["job_status"],
                     d.types["notification_type"], d.width, Schema!Revisions, department)
    BY SchemaTaken
  <2>2. \A X, Z, s, n, w : SchemaDb(X, Z, s, n, w, Schema!Revisions, department).tables["users"]
      = Schema!User
    BY <1>5, TablesOfDb DEF SchemaDb
  <2> QED BY <2>1, <2>2
<1>a. given["first_name"] = first /\ given["last_name"] = last OBVIOUS
<1> HIDE DEF given
<1>7. /\ DOMAIN q = DOMAIN Schema!User
      /\ \A c \in DOMAIN Schema!User \cap DOMAIN given : q[c] = given[c]
  BY <1>4, <1>6, RowIsOk
<1>8. NamesOk(q)
  <2>1. "name" \notin DOMAIN Schema!User /\ "first_name" \in DOMAIN Schema!User
      /\ "last_name" \in DOMAIN Schema!User
    BY DEF Schema!User
  <2>2. q["first_name"] = first /\ q["last_name"] = last BY <1>1, <1>7, <1>a, <2>1
  <2> QED BY <1>2, <1>7, <2>1, <2>2 DEF NamesOk
<1>9. SchemaOf(Schema!WithRow(d, "users", given), Schema!Revisions, department)
  BY <1>4, <1>5, <1>8, UserComes
<1> QED BY <1>9 DEF given

\* and so do its jobs, uploaded or submitted.
LEMMA Submitted ==
  ASSUME NEW d, NEW department \in DepartmentNames, SchemaOf(d, Schema!Revisions, department),
         NEW job \in {[status |-> <<"pending_selection">>, material_id |-> Schema!NULL],
                      [status |-> <<"queued">>, material_id |-> Schema!Some]}
  PROVE  /\ SchemaOf(Schema!WithRow(d, "print_jobs", job), Schema!Revisions, department)
         /\ Schema!WithRow(d, "print_jobs", job).rows["users"] = d.rows["users"]
<1> DEFINE q == Schema!Row(d, "print_jobs", job)
           J == JobTable(Schema!Revisions, department)
<1>1. /\ DOMAIN job = {"status", "material_id"}
      /\ job["status"] # Schema!NULL
      /\ job["status"] = <<"pending_selection">> => job["material_id"] = Schema!NULL
  BY DEF Schema!NULL
<1>2. J["material_id"].null /\ "status" \in DOMAIN J /\ "material_id" \in DOMAIN J BY AllApplied
<1>3. \A c \in DOMAIN job : job[c] # Schema!NULL \/ J[c].null BY <1>1, <1>2
<1>4. d.tables["print_jobs"] = J
  <2>1. d = SchemaDb(d.rows["users"], d.rows["print_jobs"], d.types["job_status"],
                     d.types["notification_type"], d.width, Schema!Revisions, department)
    BY SchemaTaken
  <2>2. \A X, Z, s, n, w : SchemaDb(X, Z, s, n, w, Schema!Revisions,
      department).tables["print_jobs"] = J
    BY TablesOfDb DEF SchemaDb
  <2> QED BY <2>1, <2>2
<1>5. \A c \in DOMAIN J \cap DOMAIN job : q[c] = job[c] BY <1>3, <1>4, RowIsOk
<1>6. q["status"] = job["status"] /\ q["material_id"] = job["material_id"] BY <1>1, <1>2, <1>5
<1>7. PendingOk(q) BY <1>1, <1>6 DEF PendingOk
<1> QED BY <1>3, <1>7, JobComes

--------------------------------------------------------------------------------
(* The invariant of the schema *)

\* The database before Alembic, of either kind, is one with the baseline applied.
LEMMA LiveIs ==
  ASSUME Schema!MigrationsAssumption, NEW department \in DepartmentNames, NEW name \in LiveNames
  PROVE  SchemaOf(Schema!LiveDatabase(department, name), {"0001"}, department)
<1> DEFINE a == {"0001"}
           d == Schema!Run(Schema!Baseline(department), Schema!EmptyDatabase)
           user == [name |-> name]
           job == [status |-> <<"queued">>]
           d1 == Schema!WithRow(d, "users", user)
           J == JobTable(a, department)
<1>1. Schema!EmptyDatabase = NoBase(Schema!VersionWidth) BY DEF Schema!EmptyDatabase, NoBase, Base
<1>2. SchemaOf(d, a, department)
  <2> DEFINE w == Schema!VersionWidth
  <2>1. w = 255 \/ w = Schema!VersionWidth OBVIOUS
  <2> HIDE DEF w
  <2>2. /\ Schema!Run(Schema!Baseline(department), NoBase(w))
             = SchemaDb({}, {}, BaseStatuses, BaseNews, w, a, department)
        /\ SchemaParts({}, {}, BaseStatuses, BaseNews, w, a, department)
    BY <2>1, BaselineIs
  <2>3. SchemaOf(SchemaDb({}, {}, BaseStatuses, BaseNews, w, a, department), a, department)
    <3> DEFINE none == {}
    <3>1. SchemaParts(none, none, BaseStatuses, BaseNews, w, a, department) BY <2>2
    <3> HIDE DEF none, a
    <3>2. SchemaOf(SchemaDb(none, none, BaseStatuses, BaseNews, w, a, department), a, department)
      BY <3>1, SchemaMade
    <3> QED BY <3>2 DEF none, a
  <2> QED BY <1>1, <2>2, <2>3 DEF w
<1>3. UserTable(a, department) = Schema!BaseUsers(department) BY DEF UserTable
<1>4. Schema!LiveDatabase(department, name) = Schema!WithRow(d1, "print_jobs", job)
  BY DEF Schema!LiveDatabase
<1>5. name # Schema!NULL /\ name \in Names BY NamesAreGiven, NamesAreSomething
<1>6. /\ DOMAIN user = {"name"} /\ user["name"] = name
      /\ DOMAIN job = {"status"} /\ job["status"] # Schema!NULL
      /\ job["status"] # <<"pending_selection">>
  BY DEF Schema!NULL
<1> HIDE DEF d, user, job
<1>7. d.tables["users"] = Schema!BaseUsers(department)
  <2>1. d = SchemaDb(d.rows["users"], d.rows["print_jobs"], d.types["job_status"],
                     d.types["notification_type"], d.width, a, department)
    BY <1>2, SchemaTaken
  <2>2. \A X, Z, s, n, w : SchemaDb(X, Z, s, n, w, a, department).tables["users"]
                             = Schema!BaseUsers(department)
    BY <1>3, TablesOfDb DEF SchemaDb
  <2> QED BY <2>1, <2>2
<1>8. \A c \in DOMAIN user : user[c] # Schema!NULL \/ Schema!BaseUsers(department)[c].null
  BY <1>5, <1>6
<1>9. NamesOk(Schema!Row(d, "users", user))
  <2> DEFINE q == Schema!Row(d, "users", user)
  <2>1. /\ DOMAIN q = DOMAIN Schema!BaseUsers(department)
        /\ \A c \in DOMAIN Schema!BaseUsers(department) \cap DOMAIN user : q[c] = user[c]
    BY <1>7, <1>8, RowIsOk
  <2>2. "name" \in DOMAIN Schema!BaseUsers(department) BY DEF Schema!BaseUsers, Schema!Put
  <2>3. q["name"] = name /\ "name" \in DOMAIN q BY <2>1, <2>2, <1>6
  <2> QED BY <2>3, <1>5 DEF NamesOk
<1>10. SchemaOf(d1, a, department) BY <1>2, <1>3, <1>8, <1>9, UserComes
<1> HIDE DEF d1
<1>11. d1.tables["print_jobs"] = J
  <2>1. d1 = SchemaDb(d1.rows["users"], d1.rows["print_jobs"], d1.types["job_status"],
                      d1.types["notification_type"], d1.width, a, department)
    BY <1>10, SchemaTaken
  <2>2. \A X, Z, s, n, w : SchemaDb(X, Z, s, n, w, a, department).tables["print_jobs"] = J
    BY TablesOfDb DEF SchemaDb
  <2> QED BY <2>1, <2>2
<1>12. \A c \in DOMAIN job : job[c] # Schema!NULL \/ J[c].null BY <1>6
<1>13. PendingOk(Schema!Row(d1, "print_jobs", job))
  <2>1. \A c \in DOMAIN J \cap DOMAIN job : Schema!Row(d1, "print_jobs", job)[c] = job[c]
    BY <1>11, <1>12, RowIsOk
  <2>2. "status" \in DOMAIN J BY AwaitsThere DEF Awaits, JobTable, Cut
  <2> QED BY <2>1, <2>2, <1>6 DEF PendingOk
<1> QED BY <1>4, <1>10, <1>12, <1>13, JobComes

\* The invariant holds at first,
LEMMA SchemaInits ==
  ASSUME Schema!MigrationsAssumption, Schema!Init
  PROVE  SchemaIInv
<1>1. refused \subseteq {"up", "down"} \X Schema!Revisions BY DEF Schema!Init
<1>2. CASE db = Schema!EmptyDatabase /\ applied = {}
  <2>1. db = NoBase(Schema!VersionWidth) BY <1>2 DEF Schema!EmptyDatabase, NoBase, Base
  <2>2. Closed(applied) BY <1>2 DEF Closed
  <2> QED BY <1>1, <1>2, <2>1, <2>2 DEF SchemaIInv
<1>3. CASE /\ applied = {"0001"}
           /\ \E department \in {"department", "unit_code"}, name \in LiveNames :
                db = Schema!LiveDatabase(department, name)
  <2>1. PICK department \in DepartmentNames, name \in LiveNames :
          db = Schema!LiveDatabase(department, name)
    BY <1>3 DEF DepartmentNames
  <2>2. SchemaOf(db, applied, department) BY <1>3, <2>1, LiveIs
  <2>3. Closed(applied) BY <1>3, Lookups, RevisionsAre DEF Closed
  <2> QED BY <1>1, <1>3, <2>2, <2>3 DEF SchemaIInv
<1> QED BY <1>2, <1>3 DEF Schema!Init

\* An upgrade is never refused, and every user keeps the name.
LEMMA UpgradeGoes ==
  ASSUME SchemaIInv, NEW r \in Schema!Revisions, Schema!Upgrade(r)
  PROVE  /\ SchemaIInv' /\ refused' = refused
         /\ applied # {} => NamesKept(db.rows["users"], db'.rows["users"])
<1> DEFINE d == Schema!Run(Schema!Up[r], db)
           b == applied \cup {r}
<1>1. Closed(applied) /\ refused \subseteq {"up", "down"} \X Schema!Revisions BY DEF SchemaIInv
<1>2. r \notin applied /\ Schema!DownRevisions[r] \subseteq applied BY DEF Schema!Upgrade
<1>3. Closed(b) BY <1>1, <1>2, ClosedGrows
<1>4. /\ d.script = "runs" /\ (\E department \in DepartmentNames : SchemaOf(d, b, department))
      /\ "0001" \in b /\ (applied # {} => NamesKept(db.rows["users"], d.rows["users"]))
  <2>1. CASE "0001" \in applied
    <3>1. applied # {} BY <2>1
    <3>2. PICK department \in DepartmentNames : SchemaOf(db, applied, department)
      BY <2>1 DEF SchemaIInv
    <3>3. GoesTo(Schema!Up[r], db, b) BY <1>1, <1>2, <2>1, <3>2, UpGoes
    <3> QED BY <2>1, <3>3 DEF GoesTo
  <2>2. CASE "0001" \notin applied
    <3>1. PICK w \in {Schema!VersionWidth, 255} : db = NoBase(w) BY <2>2 DEF SchemaIInv
    <3>2. applied = {} BY <2>2 DEF SchemaIInv
    <3>3. r = "0001" BY <1>2, <3>2, Lookups, RevisionsAre
    <3>4. b = {"0001"} BY <3>2, <3>3
    <3> DEFINE x == "department"
               none == {}
    <3>5. x \in DepartmentNames BY DEF DepartmentNames
    <3>6. d = Schema!Run(Schema!Baseline(x), NoBase(w)) BY <3>1, <3>3, Scripts
    <3> HIDE DEF x
    <3>7. /\ d = SchemaDb(none, none, BaseStatuses, BaseNews, w, b, x)
          /\ SchemaParts(none, none, BaseStatuses, BaseNews, w, b, x)
      BY <3>1, <3>4, <3>5, <3>6, BaselineIs
    <3> HIDE DEF none, b, d
    <3>8. SchemaOf(d, b, x) BY <3>7, SchemaMade
    <3>9. d.script = "runs" BY <3>7, SchemaDbIs
    <3> QED BY <3>2, <3>4, <3>5, <3>8, <3>9
  <2> QED BY <2>1, <2>2
<1> HIDE DEF d, b
<1>5. Schema!Fits(d, b)
  <2>1. WidthOf(b, d.width) BY <1>4 DEF SchemaOf
  <2> QED BY <1>3, <2>1, IdentifiersFit DEF Closed
<1>6. db' = d /\ applied' = b /\ refused' = refused BY <1>4, <1>5 DEF Schema!Upgrade, d, b
<1>7. SchemaIInv' BY <1>1, <1>3, <1>4, <1>6 DEF SchemaIInv
<1> QED BY <1>4, <1>6, <1>7

\* A downgrade is refused for a job without a material alone, and every user keeps the name.
LEMMA DowngradeGoes ==
  ASSUME SchemaIInv, NEW r \in Schema!Revisions, Schema!Downgrade(r)
  PROVE  /\ SchemaIInv'
         /\ \/ refused' = refused
            \/ /\ refused' = refused \cup {<<"down", Schema!Upload>>}
               /\ \E q \in db.rows["print_jobs"] : q.material_id = Schema!NULL
         /\ applied' # {} => NamesKept(db.rows["users"], db'.rows["users"])
<1> DEFINE d == Schema!Run(Schema!Down[r], db)
           b == applied \ {r}
<1>1. Closed(applied) /\ refused \subseteq {"up", "down"} \X Schema!Revisions BY DEF SchemaIInv
<1>2. r \in Schema!Heads(applied) BY DEF Schema!Downgrade
<1>3. Closed(b) BY <1>1, <1>2, ClosedShrinks
<1>a. r \in applied BY <1>2 DEF Schema!Heads
<1>b. "0001" \in applied BY <1>1, <1>a, Below
<1>4. PICK department \in DepartmentNames : SchemaOf(db, applied, department)
  BY <1>b DEF SchemaIInv
<1>5. CASE r = "0001"
  <2>1. applied = {"0001"}
    <3>1. "0002" \notin applied BY <1>2, <1>5, Lookups DEF Schema!Heads
    <3>2. "0003" \notin applied /\ "0004" \notin applied BY <3>1, <1>1, Below
    <3>3. applied \cap {Schema!Timing, Schema!Upload, "0006", "0007", "0008", "0009"} = {}
      BY <3>2, <1>1, Below
    <3>4. applied \subseteq Schema!Revisions BY <1>1 DEF Closed
    <3> HIDE DEF d, b
    <3> QED BY <3>1, <3>2, <3>3, <3>4, <1>b, RevisionsAre
  <2> DEFINE X == db.rows["users"]
             Z == db.rows["print_jobs"]
             statuses == db.types["job_status"]
             news == db.types["notification_type"]
             w == db.width
  <2>2. /\ db = SchemaDb(X, Z, statuses, news, w, {"0001"}, department)
        /\ SchemaParts(X, Z, statuses, news, w, {"0001"}, department)
    BY <1>4, <2>1, SchemaTaken
  <2> HIDE DEF X, Z, statuses, news, w
  <2>3. Schema!Run(Schema!DropBaseline, SchemaDb(X, Z, statuses, news, w, {"0001"}, department))
      = NoBase(w)
    BY BaselineDown
  <2>4. d = NoBase(w) BY <1>5, <2>2, <2>3, Scripts
  <2>5. d.script = "runs" /\ d.width = w BY <2>4, BaseIs DEF NoBase
  <2>6. w \in {Schema!VersionWidth, 255} BY <2>2 DEF SchemaParts, WidthOf
  <2>7. b = {} BY <1>5, <2>1
  <2>8. Schema!Fits(d, b)
    <3>1. WidthOf(b, d.width) BY <2>5, <2>6, <2>7 DEF WidthOf
    <3> HIDE DEF d, b
    <3> QED BY <3>1, <1>3, IdentifiersFit DEF Closed
  <2>9. db' = d /\ applied' = b /\ refused' = refused BY <2>5, <2>8 DEF Schema!Downgrade
  <2> HIDE DEF d, b
  <2>10. SchemaIInv' BY <1>1, <1>3, <2>4, <2>6, <2>7, <2>9 DEF SchemaIInv
  <2> QED BY <2>7, <2>9, <2>10
<1>6. CASE r # "0001" /\ GoesTo(Schema!Down[r], db, b)
  <2>1. /\ d.script = "runs" /\ (\E x \in DepartmentNames : SchemaOf(d, b, x))
        /\ NamesKept(db.rows["users"], d.rows["users"])
    BY <1>6 DEF GoesTo
  <2>2. "0001" \in b BY <1>6, <1>b
  <2> HIDE DEF d, b
  <2>3. Schema!Fits(d, b)
    <3>1. WidthOf(b, d.width) BY <2>1 DEF SchemaOf
    <3> QED BY <1>3, <3>1, IdentifiersFit DEF Closed
  <2>4. db' = d /\ applied' = b /\ refused' = refused BY <2>1, <2>3 DEF Schema!Downgrade, d, b
  <2>5. SchemaIInv' BY <1>1, <1>3, <2>1, <2>2, <2>4 DEF SchemaIInv
  <2> QED BY <2>1, <2>4, <2>5
<1>7. CASE /\ r = Schema!Upload /\ \E q \in db.rows["print_jobs"] : q.material_id = Schema!NULL
           /\ d.script # "runs"
  <2> HIDE DEF b
  <2>1. db' = db /\ applied' = applied /\ refused' = refused \cup {<<"down", r>>}
    BY <1>7 DEF Schema!Downgrade
  <2>2. refused' \subseteq {"up", "down"} \X Schema!Revisions BY <1>1, <2>1
  <2>3. SchemaIInv' BY <1>1, <1>4, <1>b, <2>1, <2>2 DEF SchemaIInv
  <2> QED BY <1>7, <2>1, <2>3, NamesStay
<1> QED BY <1>1, <1>2, <1>4, <1>5, <1>6, <1>7, DownGoes

\* after what the program writes,
LEMMA ProgramRuns ==
  ASSUME Schema!MigrationsAssumption, SchemaIInv, Schema!SignsUp \/ Schema!Submits
  PROVE  SchemaIInv' /\ refused' = refused /\ NamesKept(db.rows["users"], db'.rows["users"])
<1>1. applied = Schema!Revisions /\ applied' = applied /\ refused' = refused
  BY DEF Schema!SignsUp, Schema!Submits
<1>2. "0001" \in applied BY <1>1, RevisionsAre
<1>3. PICK department \in DepartmentNames : SchemaOf(db, Schema!Revisions, department)
  BY <1>1, <1>2 DEF SchemaIInv
<1>4. /\ SchemaOf(db', Schema!Revisions, department)
      /\ NamesKept(db.rows["users"], db'.rows["users"])
  <2>1. CASE Schema!SignsUp
    <3>1. db.rows["users"] = {} BY <2>1 DEF Schema!SignsUp
    <3>2. PICK first \in FirstNames, last \in LastNames, number \in {Schema!NULL, Schema!Some} :
            db' = Schema!WithRow(db, "users", [first_name |-> first, last_name |-> last,
                                        student_number |-> number])
      BY <2>1 DEF Schema!SignsUp
    <3>3. SchemaOf(db', Schema!Revisions, department) BY <1>3, <3>2, SignedUp
    <3> QED BY <3>1, <3>3 DEF NamesKept
  <2>2. CASE Schema!Submits
    <3>1. PICK job \in {[status |-> <<"pending_selection">>, material_id |-> Schema!NULL],
                        [status |-> <<"queued">>, material_id |-> Schema!Some]} :
            db' = Schema!WithRow(db, "print_jobs", job)
      BY <2>2 DEF Schema!Submits
    <3>2. SchemaOf(db', Schema!Revisions, department) /\ db'.rows["users"] = db.rows["users"]
      BY <1>3, <3>1, Submitted
    <3> QED BY <3>2, NamesStay
  <2> QED BY <2>1, <2>2
<1> QED BY <1>1, <1>2, <1>3, <1>4 DEF SchemaIInv

\* and after each revision up and down; none fails but the one, and the names are kept.
LEMMA SchemaSteps ==
  ASSUME Schema!MigrationsAssumption, SchemaIInv, [Schema!Next]_Schema!vars
  PROVE  SchemaIInv' /\ Schema!RefusedOnlyForUploads /\ Schema!NamesSurvive
<1>1. CASE \E r \in Schema!Revisions : Schema!Upgrade(r)
  <2>1. /\ SchemaIInv' /\ refused' = refused
        /\ applied # {} => NamesKept(db.rows["users"], db'.rows["users"])
    BY <1>1, UpgradeGoes
  <2> QED BY <2>1 DEF Schema!RefusedOnlyForUploads, Schema!NamesSurvive, NamesKept
<1>2. CASE \E r \in Schema!Revisions : Schema!Downgrade(r)
  <2>1. /\ SchemaIInv'
        /\ \/ refused' = refused
           \/ /\ refused' = refused \cup {<<"down", Schema!Upload>>}
              /\ \E q \in db.rows["print_jobs"] : q.material_id = Schema!NULL
        /\ applied' # {} => NamesKept(db.rows["users"], db'.rows["users"])
    BY <1>2, DowngradeGoes
  <2> QED BY <2>1 DEF Schema!RefusedOnlyForUploads, Schema!NamesSurvive, NamesKept
<1>3. CASE Schema!SignsUp \/ Schema!Submits
  <2>1. SchemaIInv' /\ refused' = refused /\ NamesKept(db.rows["users"], db'.rows["users"])
    BY <1>3, ProgramRuns
  <2> QED BY <2>1 DEF Schema!RefusedOnlyForUploads, Schema!NamesSurvive, NamesKept
<1>4. CASE Schema!vars' = Schema!vars
  <2>1. db' = db /\ applied' = applied /\ refused' = refused BY <1>4 DEF Schema!vars
  <2>2. SchemaIInv' BY <2>1 DEF SchemaIInv
  <2> QED BY <2>1, <2>2 DEF Schema!RefusedOnlyForUploads, Schema!NamesSurvive
<1>5. Schema!Next => (\E r \in Schema!Revisions : Schema!Upgrade(r))
    \/ (\E r \in Schema!Revisions : Schema!Downgrade(r))
                 \/ Schema!SignsUp \/ Schema!Submits
  BY DEF Schema!Next
<1>6. Schema!Next \/ Schema!vars' = Schema!vars OBVIOUS
<1> QED BY <1>1, <1>2, <1>3, <1>4, <1>5, <1>6

--------------------------------------------------------------------------------
(* What the invariant says of the schema *)

\* At the head the jobs' table is the model's.
LEMMA JobsAreModels == JobTable(Schema!Revisions, "department") = Schema!PrintJob
<1> DEFINE a == Schema!Revisions
           F == JobSpecs(a)
           S == JobColumns(a, "department")
<1>1. /\ "0002" \in a /\ Schema!Timing \in a /\ Schema!Upload \in a /\ "0006" \in a /\ "0008" \in a
  BY RevisionsAre
<1> HIDE DEF a
<1>2. S = DOMAIN Schema!PrintJob BY <1>1 DEF JobColumns, Schema!PrintJob
<1>3. Schema!PrintJob = [c \in DOMAIN Schema!PrintJob |-> Schema!PrintJob[c]] BY DEF Schema!PrintJob
<1>4. "queue_position" \notin DOMAIN Schema!PrintJob /\ "unit_code" \notin DOMAIN Schema!PrintJob
  BY DEF Schema!PrintJob
<1>5. \A c \in DOMAIN Schema!PrintJob : F[c] = Schema!PrintJob[c] BY <1>1, <1>4 DEF JobSpecs
<1> HIDE DEF F, S
<1>6. Cut(F, S) = Schema!PrintJob BY <1>2, <1>3, <1>5 DEF Cut
<1> QED BY <1>6 DEF JobTable, F, S, a

\* With all revisions applied, every label is there and no other.
LEMMA LabelsAreModels ==
  ASSUME NEW statuses, NEW news, StatusesOf(Schema!Revisions, statuses),
      NewsOf(Schema!Revisions, news)
  PROVE  LabelsOf({"student", "farmer", "admin"}, statuses, news) = Schema!ModelTypes
<1>1. Schema!Upload \in Schema!Revisions /\ "0008" \in Schema!Revisions
    /\ "0009" \in Schema!Revisions
  BY RevisionsAre
<1>2. statuses = BaseStatuses \cup {"pending_selection"}
  <2>1. "pending_selection" \notin BaseStatuses BY DEF BaseStatuses
  <2> QED BY <1>1, <2>1 DEF StatusesOf
<1>3. news = BaseNews \cup {"job_paused", "job_resumed", "job_submitted"} BY <1>1 DEF NewsOf
<1>4. /\ statuses = {"pending_selection", "submitted", "queued", "printing", "completed",
                     "failed", "removed", "ready_for_collection"}
      /\ news = {"job_submitted", "job_started", "job_completed", "job_error",
                 "ready_for_collection", "job_paused", "job_resumed"}
  BY <1>2, <1>3 DEF BaseStatuses, BaseNews
<1> QED BY <1>4 DEF LabelsOf, Schema!ModelTypes

\* The invariant gives the type invariant,
LEMMA SchemaIsTyped == ASSUME SchemaIInv PROVE Schema!TypeOK
<1>1. Closed(applied) /\ refused \subseteq {"up", "down"} \X Schema!Revisions BY DEF SchemaIInv
<1>2. /\ db.script = "runs" /\ DOMAIN db.rows = DOMAIN db.tables
      /\ \A t \in DOMAIN db.tables : \A r \in db.rows[t] : RowOk(db.tables[t], r)
  <2>1. CASE \E w \in {Schema!VersionWidth, 255} : db = NoBase(w)
    <3>1. db.script = "runs" /\ db.rows = <<>> /\ db.tables = <<>> BY <2>1, BaseIs DEF NoBase
    <3>2. DOMAIN <<>> = {} OBVIOUS
    <3> QED BY <3>1, <3>2
  <2>2. CASE \E department \in DepartmentNames : SchemaOf(db, applied, department)
    <3>1. PICK department \in DepartmentNames : SchemaOf(db, applied, department) BY <2>2
    <3> DEFINE X == db.rows["users"]
               Z == db.rows["print_jobs"]
               U == UserTable(applied, department)
               P == PrinterTable(applied)
               J == JobTable(applied, department)
               T == TablesOf(U, P, J)
               R == RowsOf(X, Z)
    <3>2. db.tables = T /\ db.rows = R /\ db.script = "runs"
      BY <3>1, BaseIs DEF SchemaOf, DbOf
    <3>3. UserRowsOk(X, U) /\ JobRowsOk(Z, J) BY <3>1 DEF SchemaOf
    <3> HIDE DEF X, Z, U, P, J
    <3>4. DOMAIN T = DOMAIN R BY DEF TablesOf, RowsOf
    <3>5. ASSUME NEW t \in DOMAIN T, NEW r \in R[t] PROVE RowOk(T[t], r)
      <4>1. /\ t \in {"users", "print_jobs"} \/ R[t] = {}
            /\ R["users"] = X /\ R["print_jobs"] = Z /\ T["users"] = U /\ T["print_jobs"] = J
        BY DEF TablesOf, RowsOf
      <4> HIDE DEF T, R
      <4>2. CASE t = "users" BY <4>1, <4>2, <3>3, <3>5 DEF UserRowsOk
      <4>3. CASE t = "print_jobs" BY <4>1, <4>3, <3>3, <3>5 DEF JobRowsOk
      <4> QED BY <4>1, <4>2, <4>3, <3>5
    <3> HIDE DEF T, R
    <3> QED BY <3>2, <3>4, <3>5
  <2> QED BY <2>1, <2>2 DEF SchemaIInv
<1> QED BY <1>1, <1>2 DEF Schema!TypeOK, Closed, RowOk

\* the models' schema at the head,
LEMMA SchemaIsAtHead == ASSUME SchemaIInv PROVE Schema!HeadIsModels
<1> SUFFICES ASSUME applied = Schema!Revisions
             PROVE  db.tables = Schema!Models /\ db.types = Schema!ModelTypes
                 /\ db.indexes = Schema!ModelIndexes
  BY DEF Schema!HeadIsModels
<1>1. "0001" \in applied /\ "0003" \in applied BY RevisionsAre
<1>2. PICK department \in DepartmentNames : SchemaOf(db, applied, department)
  BY <1>1 DEF SchemaIInv
<1> DEFINE X == db.rows["users"]
           Z == db.rows["print_jobs"]
           statuses == db.types["job_status"]
           news == db.types["notification_type"]
           w == db.width
           Y == LabelsOf(Roles(applied), statuses, news)
           U == UserTable(applied, department)
           P == PrinterTable(applied)
           J == JobTable(applied, department)
           I == IndexesOf(applied)
<1>3. /\ db = DbOf(U, X, P, J, Z, Y, I, w) /\ department = "department"
      /\ StatusesOf(applied, statuses) /\ NewsOf(applied, news)
  BY <1>1, <1>2 DEF SchemaOf
<1> HIDE DEF X, Z, statuses, news, w
<1>4. U = Schema!User /\ P = Schema!Printer /\ Roles(applied) = {"student", "farmer", "admin"}
    /\ I = Schema!ModelIndexes
  BY AllApplied
<1>5. J = Schema!PrintJob BY <1>3, JobsAreModels
<1>6. Y = Schema!ModelTypes BY <1>3, <1>4, LabelsAreModels
<1> HIDE DEF U, P, J, Y, I
<1>7. db.tables = TablesOf(U, P, J) /\ db.types = Y /\ db.indexes = I BY <1>3, BaseIs DEF DbOf
<1>8. TablesOf(Schema!User, Schema!Printer, Schema!PrintJob) = Schema!Models
  BY DEF TablesOf, Schema!Models
<1> QED BY <1>4, <1>5, <1>6, <1>7, <1>8

\* and no status that the revisions do not know.
LEMMA StatusesAreKnown == ASSUME SchemaIInv PROVE Schema!StatusesFitTheRevisions
<1> SUFFICES ASSUME Schema!Upload \notin applied, applied # {}, NEW r \in db.rows["print_jobs"],
                    r.status = <<"pending_selection">>
             PROVE  FALSE
  BY DEF Schema!StatusesFitTheRevisions
<1>1. PICK department \in DepartmentNames : SchemaOf(db, applied, department) BY DEF SchemaIInv
<1> DEFINE J == JobTable(applied, department)
<1>2. RowOk(J, r) /\ PendingOk(r) BY <1>1 DEF SchemaOf, JobRowsOk
<1>3. "material_id" \in DOMAIN J /\ J["material_id"] = Schema!Ref("materials")
  <2>1. JobSpecs(applied)["material_id"] = Schema!Ref("materials") BY JobSpecsAre
  <2>2. "material_id" \in JobColumns(applied, department) BY AwaitsThere DEF Awaits
  <2> QED BY <2>1, <2>2 DEF JobTable, Cut
<1>4. ~Schema!Ref("materials").null BY RefsOf
<1>5. r["material_id"] # Schema!NULL BY <1>2, <1>3, <1>4 DEF RowOk
<1> QED BY <1>2, <1>5 DEF PendingOk
================================================================================
