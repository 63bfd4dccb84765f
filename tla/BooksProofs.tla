------------------------------ MODULE BooksProofs ------------------------------
(***************************************************************************)
(* Theorems about the books kept of the farm: the filament of the mock     *)
(* printer's spools, for any toolheads, files, weights and size of a       *)
(* spool; the queue page's plan, for any jobs, printers, users and         *)
(* durations; what the reports and the statistics show, for any table and  *)
(* filter; and the schema, of which MigrationsProofs has the lemmas, for   *)
(* any names.                                                              *)
(***************************************************************************)
EXTENDS MigrationsProofs

\* One weight of several tools is never found valid, whatever the stock.
ValidNamesOneTool ==
    \A f \in Files : kept[f] = "valid" => PerTool(f) \/ Cardinality(UsedTools[f]) <= 1

IInv == TypeOK /\ ValidNamesOneTool

\* The stock accounted for, and enough of it.
Accounts == NeverRunsDry /\ StockAddsUp

-------------------------------------------------------------------------------
(***************************************************************************)
(* Finite sets: their subsets, their images, and the sum of what a         *)
(* function is on them, which counts a unit at a time.                     *)
(***************************************************************************)
\* As many things have at most as many images.
LEMMA ImageIsFinite ==
  ASSUME NEW S, IsFiniteSet(S), NEW f
  PROVE  IsFiniteSet({f[x] : x \in S})
<1> DEFINE g == [x \in S |-> f[x]]
<1>1. g \in Surjection(S, {f[x] : x \in S}) BY DEF Surjection
<1> HIDE DEF g
<1> QED BY <1>1, FS_Surjection

\* A set of subsets of a finite set has them all if it has each whose parts without one
\* element it has.
LEMMA InductionOnSubsets ==
  ASSUME NEW K, IsFiniteSet(K), NEW P,
         \A T \in SUBSET K : (\A x \in T : T \ {x} \in P) => T \in P
  PROVE  SUBSET K \subseteq P
<1> DEFINE S == {n \in Nat : \A T \in SUBSET K : Cardinality(T) = n => T \in P}
<1>1. \A T \in SUBSET K : IsFiniteSet(T) /\ Cardinality(T) \in Nat
  BY FS_Subset, FS_CardinalityType
<1>2. 0 \in S
  <2>1. \A T \in SUBSET K : Cardinality(T) = 0 => T = {} BY <1>1, FS_EmptySet
  <2> QED BY <2>1
<1>3. ASSUME NEW n \in Nat, n \in S PROVE n + 1 \in S
  <2>1. ASSUME NEW T \in SUBSET K, Cardinality(T) = n + 1 PROVE T \in P
    <3>1. ASSUME NEW x \in T PROVE T \ {x} \in P
      <4>1. Cardinality(T \ {x}) = n BY <1>1, <2>1, FS_RemoveElement
      <4> QED BY <1>3, <4>1
    <3> QED BY <3>1
  <2> QED BY <2>1
<1> HIDE DEF S
<1>4. Nat \subseteq S BY <1>2, <1>3, InductionOnSet
<1> QED BY <1>1, <1>4 DEF S

\* The sum of f over S, counted: a unit for each one that f has at an element of S.
Units(f, S) == {u \in S \X Nat : u[2] < f[u[1]]}
SumOf(f, S) == Cardinality(Units(f, S))

LEMMA UnitsOfOne ==
  ASSUME NEW x, NEW n \in Nat
  PROVE  IsFiniteSet({x} \X (0 .. n - 1)) /\ Cardinality({x} \X (0 .. n - 1)) = n
<1> DEFINE I == 0 .. n - 1
<1>1. IsFiniteSet(I) /\ Cardinality(I) = n
  <2>1. 0 \in Int /\ n - 1 \in Int OBVIOUS
  <2>2. IsFiniteSet(I) /\ Cardinality(I) = IF 0 > n - 1 THEN 0 ELSE n - 1 - 0 + 1
    BY <2>1, FS_Interval
  <2> QED BY <2>2
<1>2. IsFiniteSet({x}) /\ Cardinality({x}) = 1 BY FS_Singleton
<1> HIDE DEF I
<1>3. IsFiniteSet({x} \X I) /\ Cardinality({x} \X I) = Cardinality({x}) * Cardinality(I)
  BY <1>1, <1>2, FS_Product
<1>4. Cardinality({x} \X I) = n BY <1>1, <1>2, <1>3
<1> QED BY <1>3, <1>4 DEF I

LEMMA UnitsFinite ==
  ASSUME NEW S, IsFiniteSet(S), NEW f, \A x \in S : f[x] \in Nat
  PROVE  IsFiniteSet(Units(f, S)) /\ SumOf(f, S) \in Nat
<1> DEFINE P == {T \in SUBSET S : IsFiniteSet(Units(f, T))}
<1>1. ASSUME NEW T \in SUBSET S, \A x \in T : T \ {x} \in P PROVE T \in P
  <2>1. CASE T = {}
    <3>1. Units(f, T) = {} BY <2>1 DEF Units
    <3> QED BY <3>1, FS_EmptySet
  <2>2. CASE T # {}
    <3>1. PICK x \in T : TRUE BY <2>2
    <3>2. Units(f, T) = Units(f, T \ {x}) \cup ({x} \X (0 .. f[x] - 1))
      <4>1. f[x] \in Nat OBVIOUS
      <4> QED BY <4>1 DEF Units
    <3>3. IsFiniteSet({x} \X (0 .. f[x] - 1)) BY UnitsOfOne
    <3>4. IsFiniteSet(Units(f, T \ {x})) BY <1>1
    <3> HIDE DEF P
    <3>5. IsFiniteSet(Units(f, T \ {x}) \cup ({x} \X (0 .. f[x] - 1))) BY <3>3, <3>4, FS_Union
    <3>6. IsFiniteSet(Units(f, T)) BY <3>2, <3>5
    <3> QED BY <3>6 DEF P
  <2> QED BY <2>1, <2>2
<1> HIDE DEF P
<1>2. S \in P BY <1>1, InductionOnSubsets
<1> QED BY <1>2, FS_CardinalityType DEF P, SumOf

\* Over two sets without a common element the sums add up.
LEMMA SumOfUnion ==
  ASSUME NEW S, NEW T, IsFiniteSet(S), IsFiniteSet(T), S \cap T = {},
         NEW f, \A x \in S \cup T : f[x] \in Nat
  PROVE  SumOf(f, S \cup T) = SumOf(f, S) + SumOf(f, T)
<1>1. Units(f, S \cup T) = Units(f, S) \cup Units(f, T) /\ Units(f, S) \cap Units(f, T) = {}
  BY DEF Units
<1>2. IsFiniteSet(Units(f, S)) /\ IsFiniteSet(Units(f, T)) BY UnitsFinite
<1>3. SumOf(f, S) \in Nat /\ SumOf(f, T) \in Nat BY UnitsFinite
<1>4. Cardinality(Units(f, S) \cap Units(f, T)) = 0 BY <1>1, FS_EmptySet
<1>5. Cardinality(Units(f, S) \cup Units(f, T)) =
        Cardinality(Units(f, S)) + Cardinality(Units(f, T))
        - Cardinality(Units(f, S) \cap Units(f, T))
  BY <1>2, FS_Union
<1>6. Cardinality(Units(f, S)) \in Nat /\ Cardinality(Units(f, T)) \in Nat BY <1>3 DEF SumOf
<1>7. Cardinality(Units(f, S) \cup Units(f, T)) = Cardinality(Units(f, S)) + Cardinality(Units(f, T))
  BY <1>4, <1>5, <1>6
<1> QED BY <1>1, <1>7 DEF SumOf

LEMMA SumOfNone ==
  ASSUME NEW f PROVE SumOf(f, {}) = 0
<1>1. Units(f, {}) = {} BY DEF Units
<1> QED BY <1>1, FS_EmptySet DEF SumOf

LEMMA SumOfOne ==
  ASSUME NEW f, NEW x, f[x] \in Nat PROVE SumOf(f, {x}) = f[x]
<1>1. Units(f, {x}) = {x} \X (0 .. f[x] - 1) BY DEF Units
<1>2. Cardinality({x} \X (0 .. f[x] - 1)) = f[x] BY UnitsOfOne
<1> QED BY <1>1, <1>2 DEF SumOf

LEMMA SumOfMore ==
  ASSUME NEW S, IsFiniteSet(S), NEW x \in S, NEW f, \A y \in S : f[y] \in Nat
  PROVE  SumOf(f, S) = f[x] + SumOf(f, S \ {x})
<1>1. SumOf(f, {x}) = f[x] BY SumOfOne
<1>2. IsFiniteSet({x}) /\ IsFiniteSet(S \ {x}) BY FS_Singleton, FS_Subset
<1>3. ({x} \cup (S \ {x})) = S /\ ({x} \cap (S \ {x})) = {} OBVIOUS
<1>4. \A y \in ({x} \cup (S \ {x})) : f[y] \in Nat BY <1>3
<1> HIDE DEF SumOf
<1> QED BY <1>1, <1>2, <1>3, <1>4, SumOfUnion

\* Only what f is on the set counts.
LEMMA SumOfSame ==
  ASSUME NEW S, NEW f, NEW g, \A x \in S : f[x] = g[x] PROVE SumOf(f, S) = SumOf(g, S)
<1>1. Units(f, S) = Units(g, S) BY DEF Units
<1> QED BY <1>1 DEF SumOf

\* A sum of ones counts, and of zeros nothing.
LEMMA SumOfOnes ==
  ASSUME NEW S, NEW f, \A x \in S : f[x] \in {0, 1}, IsFiniteSet(S)
  PROVE  SumOf(f, S) = Cardinality({x \in S : f[x] = 1})
<1> DEFINE T == {x \in S : f[x] = 1}
<1>1. Units(f, S) = T \X {0} BY DEF Units
<1>2. IsFiniteSet(T) /\ IsFiniteSet({0}) /\ Cardinality({0}) = 1 BY FS_Subset, FS_Singleton
<1>3. Cardinality(T) \in Nat BY <1>2, FS_CardinalityType
<1> HIDE DEF T
<1>4. Cardinality(T \X {0}) = Cardinality(T) BY <1>2, <1>3, FS_Product
<1> QED BY <1>1, <1>4 DEF SumOf, T

\* The part of S whose key is k.
Having(key, k, S) == {x \in S : key[x] = k}

\* A set that is sorted by a key: the sums of the parts are the sum of the whole.
LEMMA SumOfParts ==
  ASSUME NEW S, IsFiniteSet(S), NEW f, \A x \in S : f[x] \in Nat,
         NEW K, IsFiniteSet(K), NEW key, \A x \in S : key[x] \in K,
         NEW g, \A k \in K : g[k] = SumOf(f, Having(key, k, S))
  PROVE  SumOf(g, K) = SumOf(f, S)
<1> USE DEF Having
<1> DEFINE Part(T) == {x \in S : key[x] \in T}
           P == {T \in SUBSET K : SumOf(g, T) = SumOf(f, Part(T))}
<1>1. \A T : IsFiniteSet({x \in S : key[x] = T}) BY FS_Subset
<1>2. \A k \in K : g[k] \in Nat BY <1>1, UnitsFinite
<1>3. ASSUME NEW T \in SUBSET K, \A k \in T : T \ {k} \in P PROVE T \in P
  <2>1. CASE T = {}
    <3>1. Part(T) = {} BY <2>1
    <3> QED BY <2>1, <3>1, SumOfNone
  <2>2. CASE T # {}
    <3>1. PICK k \in T : TRUE BY <2>2
    <3>2. IsFiniteSet(T) BY FS_Subset
    <3>3. SumOf(g, T) = g[k] + SumOf(g, T \ {k})
      BY <1>2, <3>2, SumOfMore
    <3>4. SumOf(g, T \ {k}) = SumOf(f, Part(T \ {k})) BY <1>3
    <3>5. /\ Part(T) = {x \in S : key[x] = k} \cup Part(T \ {k})
          /\ {x \in S : key[x] = k} \cap Part(T \ {k}) = {}
      BY <3>1
    <3>6. IsFiniteSet({x \in S : key[x] = k}) /\ IsFiniteSet(Part(T \ {k})) BY FS_Subset
    <3>7. SumOf(f, Part(T)) = SumOf(f, {x \in S : key[x] = k}) + SumOf(f, Part(T \ {k}))
      <4> DEFINE A == {x \in S : key[x] = k}
                 B == Part(T \ {k})
      <4>1. A \cap B = {} /\ Part(T) = A \cup B /\ IsFiniteSet(A) /\ IsFiniteSet(B) BY <3>5, <3>6
      <4>2. \A x \in A \cup B : f[x] \in Nat OBVIOUS
      <4> HIDE DEF A, B, Part
      <4>3. SumOf(f, A \cup B) = SumOf(f, A) + SumOf(f, B) BY <4>1, <4>2, SumOfUnion
      <4> QED BY <4>1, <4>3 DEF A, B
    <3> QED BY <3>3, <3>4, <3>7
  <2> QED BY <2>1, <2>2
<1> HIDE DEF P
<1>4. K \in P BY <1>3, InductionOnSubsets
<1>5. Part(K) = S OBVIOUS
<1> QED BY <1>4, <1>5 DEF P

--------------------------------------------------------------------------------
LEMMA NeedsType ==
  ASSUME NEW f \in Files
  PROVE  Needs(f) \in [Slots -> 0..Full] /\ Takes(f) \in [Slots -> 0..Full]
<1>1. CASE PerTool(f)
  <2>1. Weight[f].each \in [Slots -> 0..Full]
    BY <1>1, SpoolsAssumption DEF PerTool
  <2> QED BY <1>1, <2>1 DEF Needs, Takes
<1>2. CASE ~PerTool(f)
  <2>1. Weight[f].all \in 0..Full
    BY <1>2, SpoolsAssumption DEF PerTool
  <2> DEFINE slot == IF UsedTools[f] = {} THEN 0 ELSE CHOOSE t \in UsedTools[f] : TRUE
  <2>2. slot \in Slots
    BY SpoolsAssumption
  <2>3. Needs(f) = [Nothing EXCEPT ![slot] = Weight[f].all]
    BY <1>2 DEF Needs
  <2>4. Nothing \in [Slots -> 0..Full]
    BY SpoolsAssumption DEF Nothing
  <2> HIDE DEF slot
  <2> QED BY <1>2, <2>1, <2>2, <2>3, <2>4 DEF Takes
<1> QED BY <1>1, <1>2

LEMMA LessType ==
  ASSUME NEW a \in 0..Full, NEW b \in 0..Full
  PROVE  Less(a, b) \in 0..Full
BY SpoolsAssumption DEF Less

LEMMA ValidateType ==
  ASSUME IInv, NEW f \in Files, Validate(f)
  PROVE  /\ kept' \in [Files -> Results]
         /\ ValidNamesOneTool'
         /\ kept'[f] = "valid" => Fits(f)
<1>1. kept \in [Files -> Results]
  BY DEF IInv, TypeOK
<1>2. kept' \in [Files -> Results] /\ (kept'[f] = "valid" => Fits(f))
  BY <1>1 DEF Validate, Results
<1>3. ASSUME NEW g \in Files, kept'[g] = "valid"
      PROVE  PerTool(g) \/ Cardinality(UsedTools[g]) <= 1
  <2>1. CASE g = f BY <1>2, <1>3, <2>1 DEF Fits
  <2>2. CASE g # f BY <1>1, <1>3, <2>2 DEF Validate, IInv, ValidNamesOneTool
  <2> QED BY <2>1, <2>2
<1>4. ValidNamesOneTool'
  BY <1>3 DEF ValidNamesOneTool, PerTool
<1> QED BY <1>2, <1>4

\* What handle_upload does, for a file just stored or stored before.
LEMMA UploadedType ==
  ASSUME IInv, NEW f \in Files, NEW print \in BOOLEAN, Uploaded(f, print),
         print => running = {}, f \in stored', stored' \subseteq Files, stored \subseteq stored'
  PROVE  IInv'
<1>1. /\ kept' \in [Files -> Results] /\ ValidNamesOneTool'
      /\ UNCHANGED <<remaining, recorded, taken, forced>>
  BY ValidateType DEF Uploaded, history
<1>2. running' \in {{}} \cup {{g} : g \in stored'} /\ using' \in [Slots -> 0..Full]
  <2>1. CASE running' = {f} /\ using' = Takes(f)
    BY <2>1, NeedsType
  <2>2. CASE UNCHANGED <<running, using>>
    BY <2>2 DEF IInv, TypeOK
  <2> QED BY <2>1, <2>2 DEF Uploaded, Start
<1> QED BY <1>1, <1>2 DEF IInv, TypeOK

LEMMA InvInit == Init => IInv
<1> SUFFICES ASSUME Init PROVE IInv
  OBVIOUS
<1>1. TypeOK
  <2>1. {using, recorded, taken} \subseteq [Slots -> 0..Full]
    BY SpoolsAssumption DEF Init, Nothing
  <2>2. remaining \in [Slots -> {Untracked} \cup 0..Full] /\ kept \in [Files -> Results]
    BY SpoolsAssumption DEF Init, Results
  <2>3. forced \in BOOLEAN /\ stored \subseteq Files /\ running = {}
    BY DEF Init
  <2> QED BY <2>1, <2>2, <2>3 DEF TypeOK
<1>2. ValidNamesOneTool
  BY DEF Init, ValidNamesOneTool
<1> QED BY <1>1, <1>2 DEF IInv

LEMMA InvNext == IInv /\ [Next]_vars => IInv'
<1> SUFFICES ASSUME IInv, [Next]_vars PROVE IInv'
  OBVIOUS
<1>1. ASSUME NEW f \in Files, StartPrint(f) PROVE IInv'
  <2>1. f \in stored' /\ stored' \subseteq Files /\ stored \subseteq stored'
    BY <1>1 DEF StartPrint, IInv, TypeOK
  <2> QED BY <1>1, <2>1, UploadedType DEF StartPrint
<1>2. ASSUME NEW f \in Files, StartCommand(f) PROVE IInv'
  <2>1. kept' \in [Files -> Results] /\ ValidNamesOneTool'
    <3>1. CASE Validate(f) BY <3>1, ValidateType
    <3>2. CASE UNCHANGED kept
      BY <3>2 DEF IInv, TypeOK, ValidNamesOneTool, PerTool
    <3> QED BY <1>2, <3>1, <3>2 DEF StartCommand
  <2>2. running' \in {{}} \cup {{g} : g \in stored} /\ using' \in [Slots -> 0..Full]
    BY <1>2, NeedsType DEF StartCommand, Start, IInv, TypeOK
  <2> QED BY <1>2, <2>1, <2>2 DEF StartCommand, IInv, TypeOK, history
<1>3. ASSUME NEW f \in Files, Revalidate(f) PROVE IInv'
  <2>1. kept' \in [Files -> Results] /\ ValidNamesOneTool'
    BY <1>3, ValidateType DEF Revalidate
  <2> QED BY <1>3, <2>1 DEF Revalidate, IInv, TypeOK, history
<1>4. ASSUME NEW f \in Files, NEW print \in BOOLEAN, Upload(f, print) PROVE IInv'
  <2>1. f \in stored' /\ stored' \subseteq Files /\ stored \subseteq stored'
    BY <1>4 DEF Upload, IInv, TypeOK
  <2> QED BY <1>4, <2>1, UploadedType DEF Upload
<1>5. ASSUME NEW s \in Slots, NEW g \in 0..Full, UpdateConsumables(s, g) PROVE IInv'
  <2>1. {recorded', taken'} \subseteq [Slots -> 0..Full]
    BY <1>5, SpoolsAssumption DEF UpdateConsumables, IInv, TypeOK
  <2>2. remaining' \in [Slots -> {Untracked} \cup 0..Full]
    BY <1>5 DEF UpdateConsumables, IInv, TypeOK
  <2> QED BY <1>5, <2>1, <2>2 DEF UpdateConsumables, IInv, TypeOK, ValidNamesOneTool, PerTool
<1>6. ASSUME Finish PROVE IInv'
  <2>1. remaining' \in [Slots -> {Untracked} \cup 0..Full]
    BY <1>6, LessType DEF Finish, IInv, TypeOK, Untracked
  <2>2. {using', taken', recorded'} \subseteq [Slots -> 0..Full]
    BY <1>6, SpoolsAssumption DEF Finish, Nothing, IInv, TypeOK
  <2> QED BY <1>6, <2>1, <2>2 DEF Finish, IInv, TypeOK, ValidNamesOneTool, PerTool
<1>7. ASSUME Stop PROVE IInv'
  <2>1. using' \in [Slots -> 0..Full]
    BY <1>7, SpoolsAssumption DEF Stop, Nothing
  <2> QED BY <1>7, <2>1 DEF Stop, IInv, TypeOK, ValidNamesOneTool, PerTool, history
<1>8. CASE UNCHANGED vars
  BY <1>8 DEF vars, history, IInv, TypeOK, ValidNamesOneTool, PerTool
<1> QED
  BY <1>1, <1>2, <1>3, <1>4, <1>5, <1>6, <1>7, <1>8 DEF Next

THEOREM Invariant == Spec => []IInv
BY InvInit, InvNext, PTL DEF Spec

\* The state has its type: in particular no spool is left below nothing.
THEOREM TypeCorrect == Spec => []TypeOK
<1>1. IInv => TypeOK
  BY DEF IInv
<1> QED BY <1>1, Invariant, PTL
--------------------------------------------------------------------------------
LEMMA NothingIsEnough ==
  ASSUME TypeOK PROVE Enough(Nothing)
BY SpoolsAssumption DEF TypeOK, Enough, Nothing, Untracked

LEMMA TakesAtMostNeeds ==
  ASSUME TypeOK, NEW f \in Files, Enough(Needs(f))
  PROVE  Enough(Takes(f))
BY NothingIsEnough DEF Takes

\* A start that was just checked, and nothing recorded on the way.
LEMMA StartAccounts ==
  ASSUME IInv, Accounts, NEW f \in Files, Validate(f),
         UNCHANGED <<remaining, recorded, taken>>, ~forced, ~forced',
         \/ kept'[f] = "valid" /\ Start(f)
         \/ UNCHANGED <<running, using>>
  PROVE  Accounts'
<1>1. NeverRunsDry'
  <2>1. CASE kept'[f] = "valid" /\ Start(f)
    <3>1. Enough(Takes(f))
      BY <2>1, ValidateType, TakesAtMostNeeds DEF Fits, IInv
    <3> QED BY <2>1, <3>1 DEF Start, NeverRunsDry, Enough
  <2>2. CASE UNCHANGED <<running, using>>
    BY <2>2 DEF Accounts, NeverRunsDry, Enough
  <2> QED BY <2>1, <2>2
<1>2. StockAddsUp'
  BY DEF Accounts, StockAddsUp
<1> QED BY <1>1, <1>2 DEF Accounts

LEMMA AccountsInit == Init => Accounts
BY SpoolsAssumption DEF Init, Accounts, NeverRunsDry, StockAddsUp, Nothing

LEMMA AccountsNext ==
  ASSUME IInv, Accounts, [Next]_vars
  PROVE  Accounts'
<1>0. CASE forced'
  BY <1>0 DEF Accounts, NeverRunsDry, StockAddsUp
<1> SUFFICES ASSUME ~forced' PROVE Accounts'
  BY <1>0
<1>a. ~forced
  BY DEF Next, StartPrint, StartCommand, Upload, Uploaded, Revalidate, UpdateConsumables, Finish,
     Stop, vars, history, IInv, TypeOK
<1>b. ASSUME NEW f \in Files, StartCommand(f) PROVE Accounts'
  <2>1. kept[f] # "valid"
    BY <1>b DEF StartCommand, IInv, TypeOK
  <2>2. CASE Validate(f)
    BY <1>a, <1>b, <2>2, StartAccounts DEF StartCommand
  <2>3. CASE UNCHANGED kept
    BY <1>a, <1>b, <2>1, <2>3 DEF StartCommand, Accounts, NeverRunsDry, StockAddsUp, Enough
  <2> QED BY <1>b, <2>2, <2>3 DEF StartCommand
<1>1. ASSUME NEW f \in Files, NEW print \in BOOLEAN, Uploaded(f, print) PROVE Accounts'
  BY <1>a, <1>1, StartAccounts DEF Uploaded, history
<1>2. ASSUME NEW f \in Files, Revalidate(f) PROVE Accounts'
  BY <1>a, <1>2, StartAccounts DEF Revalidate, history
<1>3. ASSUME NEW s \in Slots, NEW g \in 0..Full, UpdateConsumables(s, g) PROVE Accounts'
  <2>1. running' = {}
    BY <1>3 DEF UpdateConsumables, IInv, TypeOK
  <2>2. ASSUME NEW t \in Slots, remaining'[t] # Untracked
        PROVE  remaining'[t] + taken'[t] = recorded'[t]
    <3>1. /\ remaining \in [Slots -> {Untracked} \cup 0..Full]
          /\ recorded \in [Slots -> 0..Full] /\ taken \in [Slots -> 0..Full]
      BY DEF IInv, TypeOK
    <3>2. CASE t = s
      <4>1. remaining'[t] = g /\ recorded'[t] = g /\ taken'[t] = 0
        BY <1>3, <3>1, <3>2 DEF UpdateConsumables
      <4> QED BY <4>1, SpoolsAssumption
    <3>3. CASE t # s
      BY <1>a, <1>3, <2>2, <3>1, <3>3 DEF UpdateConsumables, Accounts, StockAddsUp
    <3> QED BY <3>2, <3>3
  <2> QED BY <2>1, <2>2 DEF Accounts, NeverRunsDry, StockAddsUp
<1>4. ASSUME Finish PROVE Accounts'
  <2>1. ASSUME NEW s \in Slots, remaining'[s] # Untracked
        PROVE  remaining'[s] + taken'[s] = recorded'[s]
    <3>1. /\ remaining[s] \in 0..Full /\ using[s] \in 0..Full
          /\ recorded[s] \in 0..Full /\ taken[s] \in 0..Full
      BY <1>4, <2>1 DEF Finish, IInv, TypeOK
    <3>2. using[s] <= remaining[s] /\ remaining[s] + taken[s] = recorded[s]
      BY <1>a, <1>4, <3>1, SpoolsAssumption
         DEF Finish, Accounts, NeverRunsDry, StockAddsUp, Enough, Untracked
    <3>3. /\ remaining'[s] = Less(remaining[s], using[s])
          /\ taken'[s] = IF taken[s] + using[s] > recorded[s] THEN recorded[s]
                         ELSE taken[s] + using[s]
          /\ recorded' = recorded
      BY <1>4, <3>1, SpoolsAssumption DEF Finish, Untracked
    <3>4. /\ remaining[s] \in Nat /\ using[s] \in Nat
          /\ recorded[s] \in Nat /\ taken[s] \in Nat
      BY <3>1, SpoolsAssumption
    <3>5. remaining'[s] = remaining[s] - using[s]
      <4>1. Less(remaining[s], using[s]) = remaining[s] - using[s] BY <3>2, <3>4 DEF Less
      <4> QED BY <3>3, <4>1
    <3>6. taken'[s] = taken[s] + using[s]
      <4>1. ~(taken[s] + using[s] > recorded[s]) BY <3>2, <3>4
      <4> QED BY <3>3, <4>1
    <3> QED BY <3>2, <3>3, <3>4, <3>5, <3>6
  <2> QED BY <1>4, <2>1 DEF Finish, Accounts, NeverRunsDry, StockAddsUp
<1>5. ASSUME Stop PROVE Accounts'
  BY <1>a, <1>5 DEF Stop, history, Accounts, NeverRunsDry, StockAddsUp
<1>6. CASE UNCHANGED vars
  BY <1>a, <1>6 DEF vars, history, Accounts, NeverRunsDry, StockAddsUp, Enough
<1> QED
  BY <1>b, <1>1, <1>2, <1>3, <1>4, <1>5, <1>6 DEF Next, StartPrint, Upload

\* Unless a START_PRINT command takes an old result or a spool is changed during a
\* print, a print that is started has filament to its end.
THEOREM NeverDry == Spec => []NeverRunsDry
<1>1. IInv /\ Accounts /\ [Next]_vars => Accounts'
  BY AccountsNext
<1>2. Accounts => NeverRunsDry
  BY DEF Accounts
<1> QED BY AccountsInit, Invariant, <1>1, <1>2, PTL DEF Spec

\* Till then what is left on a tracked spool and what the finished prints took of it
\* add up to what was recorded: no print takes more, less or twice.
THEOREM StockAccountedFor == Spec => []StockAddsUp
<1>1. IInv /\ Accounts /\ [Next]_vars => Accounts'
  BY AccountsNext
<1>2. Accounts => StockAddsUp
  BY DEF Accounts
<1> QED BY AccountsInit, Invariant, <1>1, <1>2, PTL DEF Spec

--------------------------------------------------------------------------------
LEMMA ValidTakesNeeds ==
  ASSUME NEW f \in Files, NamesATool(f), PerTool(f) \/ Cardinality(UsedTools[f]) <= 1
  PROVE  Takes(f) = Needs(f)
<1>1. CASE PerTool(f)
  BY <1>1 DEF Takes
<1>2. CASE ~PerTool(f)
  <2>1. UsedTools[f] # {} /\ Cardinality(UsedTools[f]) <= 1
    BY <1>2 DEF NamesATool
  <2>2. IsFiniteSet(UsedTools[f])
    BY SpoolsAssumption, FS_Subset
  <2>3. Cardinality(UsedTools[f]) = 1
    BY <2>1, <2>2, FS_EmptySet, FS_CardinalityType
  <2> QED BY <2>3 DEF Takes
<1> QED BY <1>1, <1>2

LEMMA TakesInv ==
  ASSUME IInv, IInv', TakesWhatItNeeds, [Next]_vars
  PROVE  TakesWhatItNeeds'
<1> SUFFICES ASSUME NEW f \in running', NamesATool(f) PROVE using' = Needs(f)
  BY DEF TakesWhatItNeeds, NamesATool, Needs, PerTool, Nothing
<1>0. f \in Files
  BY DEF IInv, TypeOK
<1>1. CASE UNCHANGED <<running, using>>
  BY <1>1 DEF TakesWhatItNeeds
<1>2. CASE kept'[f] = "valid" /\ Start(f)
  <2>1. PerTool(f) \/ Cardinality(UsedTools[f]) <= 1
    BY <1>0, <1>2 DEF IInv, ValidNamesOneTool, PerTool
  <2> QED BY <1>0, <1>2, <2>1, ValidTakesNeeds DEF Start
<1>3. CASE running' = {}
  BY <1>3
<1>4. ASSUME NEW g \in Files, kept'[g] = "valid", Start(g) PROVE using' = Needs(f)
  BY <1>2, <1>4 DEF Start
<1> QED
  BY <1>1, <1>3, <1>4 DEF Next, StartPrint, StartCommand, Upload, Uploaded, Revalidate,
     UpdateConsumables, Finish, Stop, vars

\* Of a file that has one weight for all its tools and names a tool, and of one
\* with a weight of each, the filament that was checked is the filament taken,
\* whatever is recorded meanwhile and however the print is started.
THEOREM TakesItsNeed == Spec => []TakesWhatItNeeds
<1>1. Init => TakesWhatItNeeds
  BY DEF Init, TakesWhatItNeeds
<1>2. IInv /\ IInv' /\ TakesWhatItNeeds /\ [Next]_vars => TakesWhatItNeeds'
  BY TakesInv
<1> QED BY <1>1, <1>2, Invariant, PTL DEF Spec

\* All of it together: what is recorded, checked, taken and left goes together.
THEOREM FilamentAccountedFor == Spec => []FilamentAddsUp
BY TypeCorrect, NeverDry, StockAccountedFor, TakesItsNeed, PTL DEF FilamentAddsUp

-------------------------------------------------------------------------------
(***************************************************************************)
(* The queue page's plan.                                                  *)
(***************************************************************************)
Estimates ==
  {Queue!Nothing} \cup {e \in [start : Nat, completion : Nat] : e.start < e.completion}
Records ==
  [status : {"none", "queued", "printing", "done"}, printer : Printers \cup {Anywhere},
   owner : Users, duration : Nat, started : Nat, est : Estimates]

\* A table the schedule is computed for: what prints has begun, and is alone on its printer.
TableOK(t) ==
  /\ t \in [Queue!Jobs -> Records]
  /\ \A j \in Queue!Jobs : t[j].status = "printing" => t[j].printer \in Printers /\ t[j].started <= now
  /\ \A j, k \in Queue!Jobs :
       t[j].status = "printing" /\ t[k].status = "printing" /\ t[j].printer = t[k].printer => j = k

LEMMA SameFinite ==
  /\ \A S : Queue!IsFiniteSet(S) <=> IsFiniteSet(S)
  /\ \A S : Queue!Cardinality(S) = Cardinality(S)
BY DEF Queue!IsFiniteSet, IsFiniteSet, Queue!Cardinality, Cardinality

LEMMA NothingIsNot ==
  ASSUME NEW e \in Estimates PROVE e # Queue!Nothing <=> e.start # -1
BY DEF Estimates, Queue!Nothing

LEMMA DurationIsPositive ==
  ASSUME NEW r \in Records PROVE Queue!Duration(r) \in Nat /\ Queue!Duration(r) > 0
BY DEF Records, Queue!Duration, Queue!DEFAULT_DURATION

LEMMA RunsOn ==
  ASSUME now \in Nat, NEW r \in Records, r.started <= now
  PROVE  /\ Queue!Runs(r) \in Estimates /\ Queue!Runs(r) # Queue!Nothing
         /\ Queue!Runs(r).start = r.started /\ Queue!Runs(r).completion >= now
         /\ Queue!Runs(r).completion \in Nat
<1> DEFINE end == r.started + Queue!Duration(r)
<1>1. r.started \in Nat /\ Queue!Duration(r) \in Nat /\ Queue!Duration(r) > 0
  BY DurationIsPositive DEF Records
<1>2. end \in Nat /\ r.started < end BY <1>1
<1>3. Queue!Runs(r) =
        [start |-> r.started, completion |-> IF end < now THEN now + 5 * 60 ELSE end]
  BY DEF Queue!Runs, Queue!OVERRUN_GRACE
<1> HIDE DEF end
<1> QED BY <1>1, <1>2, <1>3 DEF Estimates, Queue!Nothing

\* A printer is free when what prints on it ends, and now if nothing does.
LEMMA FreeAfterItsPrint ==
  ASSUME now \in Nat, NEW t, TableOK(t), NEW p \in Printers
  PROVE  /\ Queue!FreeAt(t, p) \in Nat /\ Queue!FreeAt(t, p) >= now
         /\ \A k \in Queue!Jobs : t[k].status = "printing" /\ t[k].printer = p =>
              Queue!FreeAt(t, p) = Queue!Runs(t[k]).completion
         /\ Queue!FreeAt(t, p) # now =>
              \E k \in Queue!Jobs : t[k].status = "printing" /\ t[k].printer = p
<1> DEFINE its == {k \in Queue!Jobs : t[k].status = "printing" /\ t[k].printer = p}
           ends == {Queue!Runs(t[j]).completion : j \in its}
           Latest(x) == x \in ends \cup {now} /\ \A s \in ends \cup {now} : s <= x
<1>1. Queue!FreeAt(t, p) = CHOOSE x \in ends \cup {now} : \A s \in ends \cup {now} : s <= x
  BY DEF Queue!FreeAt
<1>2. \A k \in its : Queue!Runs(t[k]).completion \in Nat /\ Queue!Runs(t[k]).completion >= now
  BY RunsOn DEF TableOK
<1>3. \A j, k \in its : j = k BY DEF TableOK
<1>4. CASE its = {}
  <2>1. ends = {} BY <1>4
  <2> HIDE DEF ends, its
  <2>2. Latest(now) BY <2>1
  <2>3. \A x \in ends \cup {now} : (\A s \in ends \cup {now} : s <= x) => x = now BY <2>1
  <2>4. Queue!FreeAt(t, p) = now BY <1>1, <2>2, <2>3
  <2> QED BY <1>4, <2>4 DEF its
<1>5. ASSUME NEW k \in its
      PROVE  Queue!FreeAt(t, p) = Queue!Runs(t[k]).completion
  <2> DEFINE e == Queue!Runs(t[k]).completion
  <2>1. ends = {e} BY <1>3, <1>5
  <2>2. e \in Nat /\ e >= now BY <1>2, <1>5
  <2> HIDE DEF e, ends, its
  <2>3. \A s \in ends \cup {now} : s <= e BY <2>1, <2>2
  <2>4. \A x \in ends \cup {now} : (\A s \in ends \cup {now} : s <= x) => x = e BY <2>1, <2>2
  <2>5. e \in ends \cup {now} BY <2>1
  <2>6. Queue!FreeAt(t, p) = e BY <1>1, <2>3, <2>4, <2>5
  <2> QED BY <2>6 DEF e
<1> QED BY <1>2, <1>4, <1>5

\* Every printer has a place in the order.
LEMMA OrderHasAll ==
  ASSUME Queue!QueueAssumption, NEW order \in Queue!Orders, NEW p \in Printers
  PROVE  \E i \in DOMAIN order : order[i] = p
<1> DEFINE n == Cardinality(Printers)
<1>1. IsFiniteSet(Printers) /\ n \in Nat /\ Queue!Cardinality(Printers) = n
  BY SameFinite, FS_CardinalityType DEF Queue!QueueAssumption
<1>2. order \in [1..n -> Printers] /\ \A i, k \in 1..n : order[i] = order[k] => i = k
  BY <1>1 DEF Queue!Orders
<1> HIDE DEF n
<1>3. IsFiniteSet(1..n) /\ Cardinality(1..n) = n
  BY <1>1, FS_Interval
<1>4. order \in Injection(1..n, Printers)
  BY <1>2 DEF Injection, IsInjective
<1> DEFINE hit == {order[i] : i \in 1..n}
<1>5. hit \subseteq Printers BY <1>2
<1>6. order \in Bijection(1..n, hit)
  BY <1>2 DEF Bijection, Injection, Surjection, IsInjective
<1>7. Cardinality(hit) = n
  BY <1>3, <1>6, FS_Bijection DEF ExistsBijection
<1>8. hit = Printers
  BY <1>1, <1>5, <1>7, FS_Subset DEF n
<1> QED BY <1>2, <1>8

\* Of the printers that are up one is first free, if any is up.
LEMMA SomeIsFirst ==
  ASSUME Queue!QueueAssumption, NEW order \in Queue!Orders, down \subseteq Printers, down # Printers,
         NEW free \in [Printers -> Nat]
  PROVE  \E i \in Queue!Up(order) : \A k \in Queue!Up(order) :
           \/ free[order[i]] < free[order[k]]
           \/ free[order[i]] = free[order[k]] /\ i <= k
<1> DEFINE U == Queue!Up(order)
           times == {free[order[i]] : i \in U}
<1>1. DOMAIN order \subseteq Nat /\ \A i \in DOMAIN order : order[i] \in Printers
  BY SameFinite, FS_CardinalityType DEF Queue!QueueAssumption, Queue!Orders
<1>2. U # {} /\ U \subseteq Nat /\ \A i \in U : order[i] \in Printers
  BY <1>1, OrderHasAll DEF Queue!Up
<1> HIDE DEF U
<1>3. times \in SUBSET Nat /\ times # {} BY <1>2
<1>4. PICK m \in times : \A x \in times : m <= x BY <1>3, LeastNatural
<1> DEFINE E == {i \in U : free[order[i]] = m}
<1>5. E \in SUBSET Nat /\ E # {} BY <1>2, <1>4
<1>6. PICK i \in E : \A k \in E : i <= k BY <1>5, LeastNatural
<1>7. \A k \in U : free[order[k]] \in Nat /\ m <= free[order[k]] BY <1>2, <1>4
<1>8. m \in Nat BY <1>3, <1>4
<1>9. \A k \in U : free[order[i]] < free[order[k]] \/ (free[order[i]] = free[order[k]] /\ i <= k)
  BY <1>6, <1>7, <1>8
<1> QED BY <1>6, <1>9 DEF U

State == [free : [Printers -> Nat], plan : [Queue!Jobs -> Estimates]]

\* The job is put on p.
PutOn(t, s, j, p) ==
  [free |-> [s.free EXCEPT ![p] = s.free[p] + Queue!Duration(t[j])],
   plan |-> [s.plan EXCEPT ![j] = [start |-> s.free[p], completion |-> s.free[p] + Queue!Duration(t[j])]]]

\* A job is put on its printer, else on one that is up and is free first; else it has no place.
LEMMA PlaceOf ==
  ASSUME Queue!QueueAssumption, NEW t, TableOK(t), NEW j \in Queue!Jobs, NEW s \in State,
         NEW order \in Queue!Orders, down \subseteq Printers
  PROVE  \/ t[j].printer = Anywhere /\ down = Printers /\ Queue!Place(t, s, j, order) = s
         \/ \E p \in Printers :
              /\ Queue!Place(t, s, j, order) = PutOn(t, s, j, p)
              /\ t[j].printer # Anywhere => p = t[j].printer
              /\ t[j].printer = Anywhere =>
                   p \notin down /\ \A q \in Printers \ down : s.free[p] <= s.free[q]
<1> DEFINE chosen == Queue!Chosen(t[j], s.free, order)
           p == CHOOSE q \in chosen : TRUE
<1>1. Queue!Place(t, s, j, order) = IF chosen = {} THEN s ELSE PutOn(t, s, j, p)
  BY DEF Queue!Place, PutOn
<1>2. t[j].printer \in Printers \cup {Anywhere} BY DEF TableOK, Records
<1>3. s.free \in [Printers -> Nat] BY DEF State
<1>4. CASE t[j].printer # Anywhere
  <2>1. chosen = {t[j].printer} BY <1>4 DEF Queue!Chosen
  <2>2. p = t[j].printer BY <2>1
  <2> QED BY <1>1, <1>2, <1>4, <2>1, <2>2
<1>5. CASE t[j].printer = Anywhere
  <2> DEFINE First(i) ==
             \A k \in Queue!Up(order) :
               \/ s.free[order[i]] < s.free[order[k]]
               \/ s.free[order[i]] = s.free[order[k]] /\ i <= k
  <2>1. chosen = {order[i] : i \in {k \in Queue!Up(order) : First(k)}}
    BY <1>5 DEF Queue!Chosen
  <2>2. \A i \in DOMAIN order : order[i] \in Printers BY DEF Queue!Orders
  <2>3. CASE down = Printers
    <3>1. Queue!Up(order) = {} BY <2>2, <2>3 DEF Queue!Up
    <3>2. chosen = {} BY <2>1, <3>1
    <3> QED BY <1>1, <1>5, <2>3, <3>2
  <2>4. CASE down # Printers
    <3>1. PICK i \in Queue!Up(order) : First(i) BY <1>3, <2>4, SomeIsFirst
    <3>2. chosen # {} BY <2>1, <3>1
    <3> HIDE DEF chosen
    <3>3. p \in chosen BY <3>2
    <3>4. PICK m \in Queue!Up(order) : First(m) /\ p = order[m] BY <2>1, <3>3
    <3>5. p \in Printers /\ p \notin down BY <2>2, <3>4 DEF Queue!Up
    <3> HIDE DEF p
    <3>6. ASSUME NEW q \in Printers \ down PROVE s.free[p] <= s.free[q]
      <4>1. PICK k \in Queue!Up(order) : order[k] = q BY OrderHasAll DEF Queue!Up
      <4>2. s.free[order[m]] < s.free[order[k]] \/ s.free[order[m]] = s.free[order[k]]
        BY <3>4, <4>1
      <4>3. s.free[p] \in Nat /\ s.free[q] \in Nat BY <1>3, <3>5
      <4> QED BY <3>4, <4>1, <4>2, <4>3
    <3> QED BY <1>1, <1>5, <3>2, <3>5, <3>6
  <2> QED BY <2>3, <2>4
<1> QED BY <1>4, <1>5

-------------------------------------------------------------------------------
\* What is known once the first i jobs have been placed.
Planned(s) == {k \in Queue!Jobs : s.plan[k] # Queue!Nothing}
Waits(t, k, i) == t[k].status = "queued" /\ k <= i
Homeless(r) == r.printer = Anywhere /\ down = Printers

\* Who has an estimate, and from when.
WhoIsPlanned(t, i, s) ==
  /\ \A k \in Queue!Jobs : t[k].status = "printing" => s.plan[k] = Queue!Runs(t[k])
  /\ \A k \in Queue!Jobs : Waits(t, k, i) => (s.plan[k] = Queue!Nothing <=> Homeless(t[k]))
  /\ \A k \in Queue!Jobs : t[k].status # "printing" /\ ~Waits(t, k, i) => s.plan[k] = Queue!Nothing
  /\ \A k \in Planned(s) : t[k].status = "queued" =>
       s.plan[k].start >= now /\ s.plan[k].completion = s.plan[k].start + Queue!Duration(t[k])

\* A printer is free after all that is planned on it, in order.
OneByOne(t, s) ==
  /\ \A k \in Planned(s) : t[k].printer # Anywhere => s.plan[k].completion <= s.free[t[k].printer]
  /\ \A k, l \in Planned(s) :
       /\ t[k].printer = t[l].printer /\ t[l].printer # Anywhere /\ t[l].status = "queued"
       /\ t[k].status = "printing" \/ (t[k].status = "queued" /\ k < l)
       => s.plan[k].completion <= s.plan[l].start

\* A printer that is not free yet has its last job, and no job is the last of two.
LastOnes(t, s, last) ==
  \A p \in Printers : s.free[p] # now =>
    /\ last[p] \in Planned(s) /\ s.plan[last[p]].completion = s.free[p]
    /\ t[last[p]].printer \in {p, Anywhere}
    /\ \A q \in Printers : s.free[q] # now /\ last[p] = last[q] => p = q

MayPrecede(t, l, k) ==
  /\ t[l].status = "printing" \/ l < k
  /\ t[k].printer # Anywhere => t[l].printer \in {t[k].printer, Anywhere}

\* What does not start now starts when another ends, and if any printer can take it when
\* every printer that is up has something to end then or later.
Busily(t, s) ==
  \A k \in Planned(s) : t[k].status = "queued" /\ s.plan[k].start > now =>
    /\ \E l \in Planned(s) : s.plan[l].completion = s.plan[k].start /\ MayPrecede(t, l, k)
    /\ t[k].printer = Anywhere =>
         \E S \in SUBSET (Planned(s) \ {k}) :
           /\ Cardinality(S) = Cardinality(Printers \ down)
           /\ \A l \in S : s.plan[l].completion >= s.plan[k].start

Sched(t, i, s) ==
  /\ s \in State /\ \A p \in Printers : s.free[p] >= now
  /\ WhoIsPlanned(t, i, s) /\ OneByOne(t, s) /\ Busily(t, s)
  /\ \E last \in [Printers -> Queue!Jobs \cup {0}] : LastOnes(t, s, last)

\* What prints, before anything that waits is placed.
AtFirst(t) ==
  [free |-> [p \in Printers |-> Queue!FreeAt(t, p)],
   plan |-> [k \in Queue!Jobs |-> IF t[k].status = "printing" THEN Queue!Runs(t[k]) ELSE Queue!Nothing]]

LEMMA FirstIsSched ==
  ASSUME Queue!QueueAssumption, now \in Nat, NEW t, TableOK(t)
  PROVE  Sched(t, 0, AtFirst(t))
<1> DEFINE s == AtFirst(t)
           Prints(k) == t[k].status = "printing"
<1>1. \A k \in Queue!Jobs : Prints(k) =>
        /\ Queue!Runs(t[k]) \in Estimates /\ Queue!Runs(t[k]) # Queue!Nothing
        /\ t[k].printer \in Printers
  BY RunsOn DEF TableOK
<1>2. s \in State
  BY <1>1, FreeAfterItsPrint DEF AtFirst, State, Estimates
<1>3. \A p \in Printers : s.free[p] = Queue!FreeAt(t, p)
  BY DEF AtFirst
<1>4. \A k \in Queue!Jobs : s.plan[k] = IF Prints(k) THEN Queue!Runs(t[k]) ELSE Queue!Nothing
  BY DEF AtFirst
<1> HIDE DEF s
<1>5. \A k \in Queue!Jobs : k \in Planned(s) <=> Prints(k)
  BY <1>1, <1>4 DEF Planned
<1>6. \A k \in Queue!Jobs : k \in Nat /\ k # 0 /\ ~(k <= 0)
  BY DEF Queue!QueueAssumption, Queue!Jobs
<1>7. WhoIsPlanned(t, 0, s)
  BY <1>4, <1>5, <1>6 DEF WhoIsPlanned, Waits, Planned
<1>8. OneByOne(t, s)
  <2>1. ASSUME NEW k \in Queue!Jobs, Prints(k)
        PROVE  s.plan[k].completion \in Nat /\ s.plan[k].completion <= s.free[t[k].printer]
    <3>1. s.free[t[k].printer] = Queue!Runs(t[k]).completion
      BY <1>1, <1>3, <2>1, FreeAfterItsPrint
    <3>2. Queue!Runs(t[k]).completion \in Nat BY <2>1, RunsOn DEF TableOK
    <3> QED BY <1>4, <2>1, <3>1, <3>2
  <2> QED BY <1>5, <2>1 DEF OneByOne, Planned
<1>9. Busily(t, s)
  BY <1>5 DEF Busily, Planned
<1>10. \E last \in [Printers -> Queue!Jobs \cup {0}] : LastOnes(t, s, last)
  <2> DEFINE On(p, k) == k \in Queue!Jobs /\ Prints(k) /\ t[k].printer = p
             last == [p \in Printers |-> IF s.free[p] # now THEN CHOOSE k \in Queue!Jobs : On(p, k) ELSE 0]
  <2>1. ASSUME NEW p \in Printers, s.free[p] # now
        PROVE  On(p, last[p]) /\ s.plan[last[p]].completion = s.free[p]
    <3>1. \E k \in Queue!Jobs : On(p, k) BY <1>3, <2>1, FreeAfterItsPrint
    <3>2. last[p] = CHOOSE k \in Queue!Jobs : On(p, k) BY <2>1
    <3>3. On(p, last[p]) BY <3>1, <3>2
    <3> HIDE DEF last
    <3>4. s.free[p] = Queue!Runs(t[last[p]]).completion BY <1>3, <3>3, FreeAfterItsPrint
    <3> QED BY <1>4, <3>3, <3>4
  <2>2. last \in [Printers -> Queue!Jobs \cup {0}] BY <2>1
  <2> HIDE DEF last
  <2>3. LastOnes(t, s, last) BY <1>5, <2>1 DEF LastOnes
  <2> QED BY <2>2, <2>3
<1>11. \A p \in Printers : s.free[p] >= now
  BY <1>3, FreeAfterItsPrint
<1> QED BY <1>2, <1>7, <1>8, <1>9, <1>10, <1>11 DEF Sched, s

\* A step that places nothing.
LEMMA SkipIsSched ==
  ASSUME Queue!QueueAssumption, now \in Nat, NEW t, TableOK(t), NEW i \in Nat, i + 1 \in Queue!Jobs,
         NEW s, Sched(t, i, s), t[i + 1].status = "queued" => Homeless(t[i + 1])
  PROVE  Sched(t, i + 1, s)
<1>1. \A k \in Queue!Jobs : k \in Nat /\ (k <= i + 1 <=> k <= i \/ k = i + 1)
  BY DEF Queue!QueueAssumption, Queue!Jobs
<1>2. t[i + 1].status = "queued" => s.plan[i + 1] = Queue!Nothing
  BY DEF Sched, WhoIsPlanned, Waits
<1>3. WhoIsPlanned(t, i + 1, s)
  BY <1>1, <1>2 DEF Sched, WhoIsPlanned, Waits
<1> QED BY <1>3 DEF Sched

\* What putting the next job on a printer that can take it changes.
LEMMA PutOnDoes ==
  ASSUME Queue!QueueAssumption, now \in Nat, NEW t, TableOK(t), NEW i \in Nat, i + 1 \in Queue!Jobs,
         NEW s, Sched(t, i, s), t[i + 1].status = "queued", NEW p \in Printers
  PROVE  LET r == PutOn(t, s, i + 1, p) IN
         /\ r \in State
         /\ \A k \in Queue!Jobs : k # i + 1 => r.plan[k] = s.plan[k]
         /\ s.plan[i + 1] = Queue!Nothing /\ r.plan[i + 1] # Queue!Nothing
         /\ r.plan[i + 1].start = s.free[p] /\ r.plan[i + 1].completion = r.free[p]
         /\ r.free[p] = s.free[p] + Queue!Duration(t[i + 1])
         /\ r.free[p] > s.free[p] /\ \A q \in Printers : q # p => r.free[q] = s.free[q]
         /\ Planned(r) = Planned(s) \cup {i + 1} /\ i + 1 \notin Planned(s)
<1> DEFINE r == PutOn(t, s, i + 1, p)
           d == Queue!Duration(t[i + 1])
           e == [start |-> s.free[p], completion |-> s.free[p] + d]
<1>1. d \in Nat /\ d > 0
  BY DurationIsPositive DEF TableOK
<1>2. s.free \in [Printers -> Nat] /\ s.plan \in [Queue!Jobs -> Estimates]
  BY DEF Sched, State
<1>3. r = [free |-> [s.free EXCEPT ![p] = s.free[p] + d], plan |-> [s.plan EXCEPT ![i + 1] = e]]
  BY DEF PutOn
<1> HIDE DEF d, r
<1>4. e \in Estimates /\ e # Queue!Nothing
  BY <1>1, <1>2 DEF Estimates, Queue!Nothing
<1>5. s.plan[i + 1] = Queue!Nothing
  BY DEF Sched, WhoIsPlanned, Waits
<1>6. r \in State
  BY <1>1, <1>2, <1>3, <1>4 DEF State
<1>7. /\ \A k \in Queue!Jobs : k # i + 1 => r.plan[k] = s.plan[k]
      /\ r.plan[i + 1] = e
  BY <1>2, <1>3
<1>8. r.free[p] = s.free[p] + d /\ \A q \in Printers : q # p => r.free[q] = s.free[q]
  BY <1>2, <1>3
<1>9. Planned(r) = Planned(s) \cup {i + 1} /\ i + 1 \notin Planned(s)
  BY <1>4, <1>5, <1>7 DEF Planned
<1>10. r.free[p] > s.free[p]
  BY <1>1, <1>2, <1>8
<1> QED BY <1>4, <1>5, <1>6, <1>7, <1>8, <1>9, <1>10 DEF r, d

\* As many jobs as printers are up end when p is free or later, if they are free no sooner.
LEMMA OneForEach ==
  ASSUME Queue!QueueAssumption, now \in Nat, NEW s \in State, NEW t,
         NEW last \in [Printers -> Queue!Jobs \cup {0}],
         LastOnes(t, s, last), \A q \in Printers : s.free[q] >= now, NEW p \in Printers \ down, s.free[p] > now,
         \A q \in Printers \ down : s.free[p] <= s.free[q]
  PROVE  \E S \in SUBSET Planned(s) :
           /\ Cardinality(S) = Cardinality(Printers \ down)
           /\ \A l \in S : s.plan[l].completion >= s.free[p]
<1> DEFINE up == Printers \ down
           S == {last[q] : q \in up}
<1>1. \A q \in up : s.free[q] \in Nat /\ s.free[q] # now
  BY DEF State
<1>2. \A q \in up : last[q] \in Planned(s) /\ s.plan[last[q]].completion = s.free[q]
  BY <1>1 DEF LastOnes
<1>3. \A q1, q2 \in up : last[q1] = last[q2] => q1 = q2
  BY <1>1 DEF LastOnes
<1> DEFINE f == [q \in up |-> last[q]]
<1>4. f \in Bijection(up, S)
  BY <1>3 DEF Bijection, Injection, Surjection, IsInjective
<1>5. IsFiniteSet(up)
  BY SameFinite, FS_Subset DEF Queue!QueueAssumption
<1>6. Cardinality(S) = Cardinality(up)
  BY <1>4, <1>5, FS_Bijection DEF ExistsBijection
<1>7. S \in SUBSET Planned(s) BY <1>2
<1>8. \A l \in S : s.plan[l].completion >= s.free[p] BY <1>1, <1>2
<1> HIDE DEF S, up
<1>9. Cardinality(S) = Cardinality(Printers \ down) BY <1>6 DEF up
<1> QED BY <1>7, <1>8, <1>9

LEMMA PutOnIsSched ==
  ASSUME Queue!QueueAssumption, now \in Nat, NEW t, TableOK(t), NEW i \in Nat, i + 1 \in Queue!Jobs,
         NEW s, Sched(t, i, s), t[i + 1].status = "queued", NEW p \in Printers,
         t[i + 1].printer # Anywhere => p = t[i + 1].printer,
         t[i + 1].printer = Anywhere =>
           p \notin down /\ \A q \in Printers \ down : s.free[p] <= s.free[q]
  PROVE  Sched(t, i + 1, PutOn(t, s, i + 1, p))
<1> DEFINE j == i + 1
           r == PutOn(t, s, i + 1, p)
<1>1. /\ r \in State
      /\ \A k \in Queue!Jobs : k # j => r.plan[k] = s.plan[k]
      /\ s.plan[j] = Queue!Nothing /\ r.plan[j] # Queue!Nothing
      /\ r.plan[j].start = s.free[p] /\ r.plan[j].completion = r.free[p]
      /\ r.free[p] = s.free[p] + Queue!Duration(t[j])
      /\ r.free[p] > s.free[p] /\ \A q \in Printers : q # p => r.free[q] = s.free[q]
      /\ Planned(r) = Planned(s) \cup {j} /\ j \notin Planned(s)
  BY PutOnDoes
<1> HIDE DEF r
<1>2. \A k \in Queue!Jobs : k \in Nat /\ (k <= i + 1 <=> k <= i \/ k = i + 1)
  BY DEF Queue!QueueAssumption, Queue!Jobs
<1>3. /\ s \in State /\ \A q \in Printers : s.free[q] >= now
      /\ WhoIsPlanned(t, i, s) /\ OneByOne(t, s) /\ Busily(t, s)
  BY DEF Sched
<1>4. /\ \A q \in Printers : s.free[q] \in Nat /\ r.free[q] \in Nat /\ s.free[q] <= r.free[q]
      /\ \A q \in Printers : r.free[q] >= now
      /\ \A k \in Planned(r) : r.plan[k].start \in Nat /\ r.plan[k].completion \in Nat
      /\ Planned(s) \subseteq Queue!Jobs
  <2>1. \A k \in Planned(r) : r.plan[k].start \in Nat /\ r.plan[k].completion \in Nat
    BY <1>1 DEF Planned, State, Estimates
  <2>2. \A q \in Printers : s.free[q] \in Nat /\ r.free[q] \in Nat
    BY <1>1, <1>3 DEF State
  <2>3. \A q \in Printers : s.free[q] <= r.free[q]
    BY <1>1, <2>2
  <2>4. \A q \in Printers : r.free[q] >= now
    BY <1>3, <2>2, <2>3
  <2> QED BY <2>1, <2>2, <2>3, <2>4 DEF Planned
<1>5. ~Homeless(t[j])
  BY DEF Homeless
<1>6. WhoIsPlanned(t, i + 1, r)
  <2>1. ASSUME NEW k \in Queue!Jobs
        PROVE  /\ t[k].status = "printing" => r.plan[k] = Queue!Runs(t[k])
               /\ Waits(t, k, i + 1) => (r.plan[k] = Queue!Nothing <=> Homeless(t[k]))
               /\ t[k].status # "printing" /\ ~Waits(t, k, i + 1) => r.plan[k] = Queue!Nothing
               /\ t[k].status = "queued" /\ k \in Planned(r) =>
                    r.plan[k].start >= now /\ r.plan[k].completion = r.plan[k].start + Queue!Duration(t[k])
    <3>1. CASE k = j
      BY <1>1, <1>2, <1>3, <1>5, <3>1 DEF Waits
    <3>2. CASE k # j
      BY <1>1, <1>2, <1>3, <3>2 DEF Waits, WhoIsPlanned
    <3> QED BY <3>1, <3>2
  <2> QED BY <2>1, <1>1 DEF WhoIsPlanned, Planned
<1>7. OneByOne(t, r)
  <2>1. ASSUME NEW k \in Planned(r), t[k].printer # Anywhere
        PROVE  /\ k # j /\ t[k].printer \in Printers => r.plan[k].completion <= s.free[t[k].printer]
               /\ t[k].printer \in Printers
               /\ r.plan[k].completion <= r.free[t[k].printer]
    <3>1. t[k].printer \in Printers
      BY <2>1 DEF TableOK, Records, Planned
    <3>2. CASE k = j BY <1>1, <1>4, <2>1, <3>1, <3>2
    <3>3. CASE k # j
      <4>1. k \in Planned(s) /\ r.plan[k] = s.plan[k] BY <1>1, <1>4, <3>3
      <4>2. r.plan[k].completion <= s.free[t[k].printer]
        BY <1>3, <2>1, <4>1 DEF OneByOne
      <4> QED BY <1>4, <2>1, <3>1, <4>2
    <3> QED BY <3>2, <3>3
  <2>2. ASSUME NEW k \in Planned(r), NEW l \in Planned(r),
               t[k].printer = t[l].printer, t[l].printer # Anywhere, t[l].status = "queued",
               t[k].status = "printing" \/ (t[k].status = "queued" /\ k < l)
        PROVE  r.plan[k].completion <= r.plan[l].start
    <3>1. k \in Queue!Jobs /\ l \in Queue!Jobs BY DEF Planned
    <3>2. \A m \in Planned(s) : t[m].status = "queued" => m <= i
      BY <1>3, <1>4 DEF WhoIsPlanned, Waits, Planned
    <3>3. CASE l = j
      <4>1. k # j BY <1>2, <2>2, <3>1, <3>3
      <4>2. t[l].printer = p BY <2>2, <3>3
      <4> QED BY <1>1, <2>1, <2>2, <3>3, <4>1, <4>2
    <3>4. CASE l # j
      <4>1. l \in Planned(s) BY <1>1, <3>4
      <4>2. l <= i BY <3>2, <4>1, <2>2
      <4>3. k # j BY <1>2, <2>2, <3>1, <4>2
      <4>4. k \in Planned(s) BY <1>1, <4>3
      <4>5. s.plan[k].completion <= s.plan[l].start
        BY <1>3, <2>2, <4>1, <4>4 DEF OneByOne
      <4> QED BY <1>1, <3>1, <3>4, <4>3, <4>5
    <3> QED BY <3>3, <3>4
  <2> QED BY <2>1, <2>2 DEF OneByOne
<1>8. PICK last \in [Printers -> Queue!Jobs \cup {0}] : LastOnes(t, s, last)
  BY DEF Sched
<1>9. \E newLast \in [Printers -> Queue!Jobs \cup {0}] : LastOnes(t, r, newLast)
  <2> DEFINE newLast == [last EXCEPT ![p] = j]
  <2>1. newLast \in [Printers -> Queue!Jobs \cup {0}] OBVIOUS
  <2>2. newLast[p] = j /\ \A q \in Printers : q # p => newLast[q] = last[q] OBVIOUS
  <2> HIDE DEF newLast
  <2>3. ASSUME NEW q \in Printers, r.free[q] # now
        PROVE  /\ newLast[q] \in Planned(r) /\ r.plan[newLast[q]].completion = r.free[q]
               /\ t[newLast[q]].printer \in {q, Anywhere}
               /\ q # p => newLast[q] \in Planned(s) /\ s.free[q] # now
    <3>1. CASE q = p BY <1>1, <2>2, <3>1
    <3>2. CASE q # p
      <4>1. newLast[q] = last[q] /\ r.free[q] = s.free[q] BY <1>1, <2>2, <3>2
      <4>2. /\ last[q] \in Planned(s) /\ s.plan[last[q]].completion = s.free[q]
            /\ t[last[q]].printer \in {q, Anywhere}
        BY <1>8, <2>3, <4>1 DEF LastOnes
      <4> QED BY <1>1, <1>4, <2>3, <4>1, <4>2
    <3> QED BY <3>1, <3>2
  <2>4. ASSUME NEW q1 \in Printers, NEW q2 \in Printers, r.free[q1] # now, r.free[q2] # now,
               newLast[q1] = newLast[q2]
        PROVE  q1 = q2
    <3>1. (q1 = p <=> q2 = p) BY <1>1, <2>2, <2>3, <2>4
    <3>2. q1 # p => last[q1] = last[q2] /\ s.free[q1] # now /\ s.free[q2] # now
      BY <2>2, <2>3, <2>4, <3>1
    <3> QED BY <1>8, <3>1, <3>2 DEF LastOnes
  <2>5. LastOnes(t, r, newLast) BY <2>3, <2>4 DEF LastOnes
  <2> QED BY <2>1, <2>5
<1>10. Busily(t, r)
  <2>1. ASSUME NEW k \in Planned(r), t[k].status = "queued", r.plan[k].start > now
        PROVE  /\ \E l \in Planned(r) : r.plan[l].completion = r.plan[k].start /\ MayPrecede(t, l, k)
               /\ t[k].printer = Anywhere =>
                    \E S \in SUBSET (Planned(r) \ {k}) :
                      /\ Cardinality(S) = Cardinality(Printers \ down)
                      /\ \A l \in S : r.plan[l].completion >= r.plan[k].start
    <3>0. \A l \in Planned(s) : l \in Planned(r) /\ r.plan[l] = s.plan[l] /\ l # j BY <1>1, <1>4
    <3>1. CASE k = j
      <4>1. s.free[p] > now BY <1>1, <2>1, <3>1
      <4>2. /\ last[p] \in Planned(s) /\ s.plan[last[p]].completion = s.free[p]
            /\ t[last[p]].printer \in {p, Anywhere}
        BY <1>4, <1>8, <4>1 DEF LastOnes
      <4>5. MayPrecede(t, last[p], j)
        <5>1. \A m \in Planned(s) : t[m].status = "printing" \/ m <= i
          BY <1>3, <1>4 DEF WhoIsPlanned, Waits, Planned
        <5>2. last[p] \in Nat BY <1>2, <1>4, <4>2
        <5> QED BY <4>2, <5>1, <5>2 DEF MayPrecede
      <4>3. \E l \in Planned(r) : r.plan[l].completion = r.plan[k].start /\ MayPrecede(t, l, k)
        BY <1>1, <3>0, <3>1, <4>2, <4>5
      <4>4. ASSUME t[j].printer = Anywhere
            PROVE  \E S \in SUBSET (Planned(r) \ {k}) :
                      /\ Cardinality(S) = Cardinality(Printers \ down)
                      /\ \A l \in S : r.plan[l].completion >= r.plan[k].start
        <5>1. p \in Printers \ down /\ \A q \in Printers \ down : s.free[p] <= s.free[q]
          BY <4>4
        <5>2. PICK S \in SUBSET Planned(s) :
                /\ Cardinality(S) = Cardinality(Printers \ down)
                /\ \A l \in S : s.plan[l].completion >= s.free[p]
          BY <1>3, <1>8, <4>1, <5>1, OneForEach
        <5>3. S \in SUBSET (Planned(r) \ {k}) BY <3>0, <3>1
        <5>4. \A l \in S : r.plan[l].completion >= r.plan[k].start BY <1>1, <3>0, <3>1, <5>2
        <5> QED BY <5>2, <5>3, <5>4
      <4> QED BY <3>1, <4>3, <4>4
    <3>2. CASE k # j
      <4>1. k \in Planned(s) /\ r.plan[k] = s.plan[k] BY <1>1, <1>4, <3>2
      <4>2. /\ \E l \in Planned(s) : s.plan[l].completion = s.plan[k].start /\ MayPrecede(t, l, k)
            /\ t[k].printer = Anywhere =>
                 \E S \in SUBSET (Planned(s) \ {k}) :
                   /\ Cardinality(S) = Cardinality(Printers \ down)
                   /\ \A l \in S : s.plan[l].completion >= s.plan[k].start
        BY <1>3, <2>1, <4>1 DEF Busily
      <4>3. \E l \in Planned(r) : r.plan[l].completion = r.plan[k].start /\ MayPrecede(t, l, k)
        BY <3>0, <4>1, <4>2
      <4>4. ASSUME t[k].printer = Anywhere
            PROVE  \E S \in SUBSET (Planned(r) \ {k}) :
                      /\ Cardinality(S) = Cardinality(Printers \ down)
                      /\ \A l \in S : r.plan[l].completion >= r.plan[k].start
        <5>1. PICK S \in SUBSET (Planned(s) \ {k}) :
                   /\ Cardinality(S) = Cardinality(Printers \ down)
                   /\ \A l \in S : s.plan[l].completion >= s.plan[k].start
          BY <4>2, <4>4
        <5>2. \A l \in S : l \in Planned(s) /\ l # k BY <5>1
        <5>3. S \in SUBSET (Planned(r) \ {k}) BY <3>0, <5>2
        <5>4. \A l \in S : r.plan[l].completion >= r.plan[k].start BY <3>0, <4>1, <5>1, <5>2
        <5> QED BY <5>1, <5>3, <5>4
      <4> QED BY <4>3, <4>4
    <3> QED BY <3>1, <3>2
  <2> QED BY <2>1 DEF Busily
<1> QED BY <1>1, <1>4, <1>6, <1>7, <1>9, <1>10 DEF Sched, r

\* compute_queue_schedule gives such a plan.
LEMMA PlanIsSched ==
  ASSUME Queue!QueueAssumption, now \in Nat, down \subseteq Printers, NEW t, TableOK(t),
         NEW order \in Queue!Orders
  PROVE  \E s : Sched(t, NumJobs, s) /\ s.plan = Queue!compute_queue_schedule(t, order)
<1> DEFINE next(i, s) == IF i + 1 \in Queue!Jobs /\ s \in State /\ t[i + 1].status = "queued"
                           THEN Queue!Place(t, s, i + 1, order) ELSE s
           step == [x \in Nat \X State |-> next(x[1], x[2])]
           Is(g) == g = [j \in 0..NumJobs |->
                           IF j = 0 THEN AtFirst(t)
                           ELSE IF t[j].status = "queued" THEN Queue!Place(t, g[j - 1], j, order)
                           ELSE g[j - 1]]
           upTo == CHOOSE g : Is(g)
<1>1. NumJobs \in Nat /\ Queue!Jobs = 1..NumJobs
  BY DEF Queue!QueueAssumption, Queue!Jobs
<1>2. AtFirst(t) \in State
  BY FirstIsSched DEF Sched
<1>3. ASSUME NEW j \in Queue!Jobs, NEW s \in State
      PROVE  Queue!Place(t, s, j, order) \in State
  <2>1. CASE Queue!Place(t, s, j, order) = s BY <2>1
  <2>2. ASSUME NEW p \in Printers, Queue!Place(t, s, j, order) = PutOn(t, s, j, p)
        PROVE  Queue!Place(t, s, j, order) \in State
    <3> DEFINE d == Queue!Duration(t[j])
    <3>1. d \in Nat /\ d > 0 BY DurationIsPositive DEF TableOK
    <3> HIDE DEF d
    <3>2. s.free[p] \in Nat BY DEF State
    <3>3. [start |-> s.free[p], completion |-> s.free[p] + d] \in Estimates
      BY <3>1, <3>2 DEF Estimates
    <3>4. PutOn(t, s, j, p) \in State BY <3>1, <3>2, <3>3 DEF PutOn, State, d
    <3> QED BY <2>2, <3>4
  <2> QED BY <2>1, <2>2, PlaceOf
<1>4. step \in [Nat \X State -> State]
  BY <1>3
<1>5. \A i \in Nat, s \in State : step[<<i, s>>] = next(i, s)
  OBVIOUS
<1> HIDE DEF step
<1>6. PICK e \in [0..NumJobs -> State] : Follows(e, NumJobs, AtFirst(t), step)
  BY <1>1, <1>2, <1>4, RecursionUpTo
<1>7. Is(e)
  <2>1. e[0] = AtFirst(t) BY <1>6 DEF Follows
  <2>2. ASSUME NEW j \in 1..NumJobs
        PROVE  e[j] = IF t[j].status = "queued" THEN Queue!Place(t, e[j - 1], j, order) ELSE e[j - 1]
    <3>1. j - 1 \in 0..NumJobs - 1 /\ (j - 1) + 1 = j /\ j - 1 \in Nat BY <1>1
    <3>2. e[j] = step[<<j - 1, e[j - 1]>>] BY <1>6, <3>1 DEF Follows
    <3>3. e[j - 1] \in State BY <1>1, <1>6, <3>1
    <3>4. e[j] = next(j - 1, e[j - 1]) BY <1>5, <3>1, <3>2, <3>3
    <3> QED BY <1>1, <3>1, <3>3, <3>4
  <2> QED BY <2>1, <2>2, <1>1
<1>8. Is(upTo)
  BY <1>7
<1>9. Queue!compute_queue_schedule(t, order) = upTo[NumJobs].plan
  BY DEF Queue!compute_queue_schedule, AtFirst
<1> HIDE DEF upTo
<1>10. upTo[0] = AtFirst(t) /\ \A j \in 1..NumJobs :
         upTo[j] = IF t[j].status = "queued" THEN Queue!Place(t, upTo[j - 1], j, order) ELSE upTo[j - 1]
  BY <1>1, <1>8
<1> HIDE DEF Is
<1> DEFINE T == {i \in 0..NumJobs : Sched(t, i, upTo[i])}
<1>11. 0 \in T
  BY <1>1, <1>10, FirstIsSched
<1>12. ASSUME NEW i \in 0..NumJobs - 1, i \in T PROVE i + 1 \in T
  <2>1. i \in Nat /\ i + 1 \in Queue!Jobs /\ i + 1 \in 0..NumJobs /\ (i + 1) - 1 = i BY <1>1
  <2>2. Sched(t, i, upTo[i]) /\ upTo[i] \in State BY <1>12 DEF Sched
  <2>3. upTo[i + 1] = IF t[i + 1].status = "queued" THEN Queue!Place(t, upTo[i], i + 1, order)
                      ELSE upTo[i]
    BY <1>1, <1>10, <2>1
  <2>4. Sched(t, i + 1, upTo[i + 1])
    <3>1. CASE t[i + 1].status # "queued" BY <2>1, <2>2, <2>3, <3>1, SkipIsSched
    <3>2. CASE t[i + 1].status = "queued"
      <4>1. CASE t[i + 1].printer = Anywhere /\ down = Printers
                 /\ Queue!Place(t, upTo[i], i + 1, order) = upTo[i]
        BY <2>1, <2>2, <2>3, <3>2, <4>1, SkipIsSched DEF Homeless
      <4>2. ASSUME NEW p \in Printers,
                   Queue!Place(t, upTo[i], i + 1, order) = PutOn(t, upTo[i], i + 1, p),
                   t[i + 1].printer # Anywhere => p = t[i + 1].printer,
                   t[i + 1].printer = Anywhere =>
                     p \notin down /\ \A q \in Printers \ down : upTo[i].free[p] <= upTo[i].free[q]
            PROVE  Sched(t, i + 1, upTo[i + 1])
        BY <2>1, <2>2, <2>3, <3>2, <4>2, PutOnIsSched
      <4> QED BY <2>1, <2>2, <4>1, <4>2, PlaceOf
    <3> QED BY <3>1, <3>2
  <2> QED BY <2>1, <2>4
<1> HIDE DEF T
<1>13. 0..NumJobs \subseteq T BY <1>1, <1>11, <1>12, InductionUpTo
<1>14. Sched(t, NumJobs, upTo[NumJobs]) BY <1>1, <1>13 DEF T
<1> QED BY <1>9, <1>14

-------------------------------------------------------------------------------
\* What is always so of the table.
PlanInv ==
  /\ TableOK(jobs) /\ down \subseteq Printers /\ now \in 0..MaxTime /\ page.at \in Nat

\* refresh_queue_estimates: who is active has the estimate of the plan, the rest stays.
LEMMA RefreshedIsPlanned ==
  ASSUME Queue!QueueAssumption, now \in Nat, down \subseteq Printers, NEW t, TableOK(t),
         NEW order \in Queue!Orders
  PROVE  \E s :
           /\ Sched(t, NumJobs, s)
           /\ \A j \in Queue!Jobs :
                /\ t[j].status \in {"queued", "printing"} =>
                     Queue!Refreshed(t, order)[j] = [t[j] EXCEPT !.est = s.plan[j]]
                /\ t[j].status \notin {"queued", "printing"} => Queue!Refreshed(t, order)[j] = t[j]
           /\ TableOK(Queue!Refreshed(t, order))
<1>1. PICK s : Sched(t, NumJobs, s) /\ s.plan = Queue!compute_queue_schedule(t, order)
  BY PlanIsSched
<1> DEFINE r == Queue!Refreshed(t, order)
<1>2. r = [j \in Queue!Jobs |-> IF t[j].status \in {"queued", "printing"}
                                  THEN [t[j] EXCEPT !.est = s.plan[j]] ELSE t[j]]
  BY <1>1 DEF Queue!Refreshed
<1> HIDE DEF r
<1>3. ASSUME NEW j \in Queue!Jobs
      PROVE  /\ r[j] \in Records /\ r[j].status = t[j].status
             /\ r[j].printer = t[j].printer /\ r[j].started = t[j].started
  <2>1. t[j] \in Records BY DEF TableOK
  <2>2. s.plan[j] \in Estimates BY <1>1 DEF Sched, State
  <2>3. [t[j] EXCEPT !.est = s.plan[j]] \in Records BY <2>1, <2>2 DEF Records
  <2>4. CASE t[j].status \in {"queued", "printing"}
    <3>1. r[j] = [t[j] EXCEPT !.est = s.plan[j]] BY <1>2, <2>4
    <3> QED BY <2>1, <2>3, <3>1 DEF Records
  <2>5. CASE t[j].status \notin {"queued", "printing"} BY <1>2, <2>1, <2>5
  <2> QED BY <2>4, <2>5
<1>4. TableOK(r)
  BY <1>2, <1>3 DEF TableOK
<1> QED BY <1>1, <1>2, <1>4 DEF r

LEMMA PlanInvInit ==
  ASSUME Queue!QueueAssumption, Queue!Init
  PROVE  PlanInv
<1>1. (CHOOSE u \in Users : TRUE) \in Users BY DEF Queue!QueueAssumption
<1>2. Queue!Nothing \in Estimates BY DEF Estimates
<1> DEFINE first == [status |-> "none", printer |-> Anywhere, owner |-> CHOOSE u \in Users : TRUE,
                     duration |-> 0, started |-> 0, est |-> Queue!Nothing]
<1>3. first \in Records /\ first.status = "none" BY <1>1, <1>2 DEF Records
<1>4. jobs = [j \in Queue!Jobs |-> first] BY DEF Queue!Init
<1> HIDE DEF first
<1>5. TableOK(jobs) BY <1>3, <1>4 DEF TableOK
<1>6. page.at = 0 /\ down = {} /\ now = 0 /\ MaxTime \in Nat
  BY DEF Queue!Init, Queue!NoPage, Queue!QueueAssumption
<1> QED BY <1>5, <1>6 DEF PlanInv

LEMMA PlanInvStep ==
  ASSUME Queue!QueueAssumption, PlanInv, [Queue!Next]_Queue!vars
  PROVE  PlanInv'
<1>0. /\ now \in Nat /\ MaxTime \in Nat /\ TICK \in Nat /\ NumJobs \in Nat
      /\ TableOK(jobs) /\ down \subseteq Printers /\ page.at \in Nat
  BY DEF PlanInv, Queue!QueueAssumption
<1>1. ASSUME NEW u \in Users, Queue!get_print_queue(u) PROVE PlanInv'
  <2>1. PICK order \in Queue!Orders : jobs' = Queue!Refreshed(jobs, order) /\ page'.at = now
    BY <1>1 DEF Queue!get_print_queue
  <2>2. TableOK(jobs') BY <1>0, <2>1, RefreshedIsPlanned
  <2>3. now' = now /\ down' = down BY <1>1 DEF Queue!get_print_queue
  <2> QED BY <1>0, <2>1, <2>2, <2>3 DEF PlanInv, TableOK
<1>2. CASE Queue!Submit
  <2>1. PICK j \in Queue!With("none"), p \in Places, u \in Users \ Staff, d \in Durations,
             order \in Queue!Orders :
          /\ \A k \in Queue!With("none") : j <= k
          /\ p \notin down /\ (punctual => p # Anywhere)
          /\ jobs' = Queue!Refreshed([jobs EXCEPT ![j].status = "queued", ![j].printer = p,
                                         ![j].owner = u, ![j].duration = d], order)
    BY <1>2 DEF Queue!Submit
  <2> DEFINE t == [jobs EXCEPT ![j].status = "queued", ![j].printer = p,
                                         ![j].owner = u, ![j].duration = d]
  <2>2. jobs \in [Queue!Jobs -> Records] /\ j \in Queue!Jobs /\ jobs[j] \in Records
    BY <1>0 DEF TableOK, Queue!With
  <2>3. t = [jobs EXCEPT ![j] = [jobs[j] EXCEPT !.status = "queued", !.printer = p,
                                                !.owner = u, !.duration = d]]
    BY <2>2
  <2>4. p \in Printers \cup {Anywhere} /\ d \in Nat BY DEF Queue!QueueAssumption
  <2>5. [jobs[j] EXCEPT !.status = "queued", !.printer = p, !.owner = u, !.duration = d] \in Records
    BY <2>2, <2>4 DEF Records
  <2>6. t \in [Queue!Jobs -> Records] /\ t[j].status = "queued"
        /\ \A k \in Queue!Jobs : k # j => t[k] = jobs[k]
    BY <2>2, <2>3, <2>5 DEF Records
  <2>7. jobs' = Queue!Refreshed(t, order) BY <2>1
  <2> HIDE DEF t
  <2>8. TableOK(t) BY <1>0, <2>6 DEF TableOK
  <2>9. TableOK(jobs') BY <1>0, <2>7, <2>8, RefreshedIsPlanned
  <2>10. now' = now /\ down' = down /\ page'.at = 0 BY <1>2 DEF Queue!Submit, Queue!NoPage
  <2> QED BY <1>0, <2>9, <2>10 DEF PlanInv, TableOK
<1>3. CASE Queue!Starts
  <2>0. PICK p \in Printers \ down : ~Queue!Busy(p) /\ \E j \in Queue!FirstOf(p) :
          jobs' = [jobs EXCEPT ![j].status = "printing", ![j].started = now]
    BY <1>3 DEF Queue!Starts
  <2>1. PICK j \in Queue!FirstOf(p) :
          ~Queue!Busy(p) /\ jobs' = [jobs EXCEPT ![j].status = "printing", ![j].started = now]
    BY <2>0
  <2>2. jobs \in [Queue!Jobs -> Records] /\ j \in Queue!Jobs /\ jobs[j] \in Records /\ jobs[j].printer = p
    BY <1>0, <2>1 DEF TableOK, Queue!With, Queue!FirstOf
  <2> DEFINE b == [jobs[j] EXCEPT !.status = "printing", !.started = now]
  <2>3. jobs' = [jobs EXCEPT ![j] = b] BY <2>1, <2>2
  <2>4. b \in Records /\ b.printer = p /\ b.started = now BY <1>0, <2>2 DEF Records
  <2> HIDE DEF b
  <2>5. /\ jobs' \in [Queue!Jobs -> Records] /\ jobs'[j] = b
        /\ \A k \in Queue!Jobs : k # j => jobs'[k] = jobs[k]
    BY <2>2, <2>3, <2>4
  <2>6. \A k \in Queue!Jobs : jobs[k].status = "printing" => jobs[k].printer # p
    BY <2>1 DEF Queue!Busy, Queue!With
  <2>7. TableOK(jobs') BY <1>0, <2>4, <2>5, <2>6 DEF TableOK
  <2>10. now' = now /\ down' = down /\ page'.at = 0 BY <1>3 DEF Queue!Starts, Queue!NoPage
  <2> QED BY <1>0, <2>7, <2>10 DEF PlanInv, TableOK
<1>4. CASE Queue!Ends
  <2>1. PICK j \in Queue!With("printing") : jobs' = [jobs EXCEPT ![j].status = "done"]
    BY <1>4 DEF Queue!Ends
  <2>2. jobs \in [Queue!Jobs -> Records] /\ j \in Queue!Jobs /\ jobs[j] \in Records
    BY <1>0, <2>1 DEF TableOK, Queue!With
  <2> DEFINE b == [jobs[j] EXCEPT !.status = "done"]
  <2>3. jobs' = [jobs EXCEPT ![j] = b] BY <2>1, <2>2
  <2>4. b \in Records /\ b.status = "done" BY <2>2 DEF Records
  <2> HIDE DEF b
  <2>5. /\ jobs' \in [Queue!Jobs -> Records] /\ jobs'[j] = b
        /\ \A k \in Queue!Jobs : k # j => jobs'[k] = jobs[k]
    BY <2>2, <2>3, <2>4
  <2>7. TableOK(jobs') BY <1>0, <2>4, <2>5 DEF TableOK
  <2>10. now' = now /\ down' = down /\ page'.at = 0 BY <1>4 DEF Queue!Ends, Queue!NoPage
  <2> QED BY <1>0, <2>7, <2>10 DEF PlanInv, TableOK
<1>5. CASE Queue!PrinterStatus
  BY <1>0, <1>5 DEF Queue!PrinterStatus, PlanInv, TableOK, Queue!NoPage
<1>6. CASE Queue!Tick
  <2>1. now' \in 0..MaxTime /\ now <= now' BY <1>0, <1>6 DEF Queue!Tick
  <2>2. \A j \in Queue!Jobs : jobs[j].started \in Nat BY <1>0 DEF TableOK, Records
  <2>3. jobs' = jobs /\ down' = down /\ page'.at = 0 BY <1>6 DEF Queue!Tick, Queue!NoPage
  <2>4. \A j \in Queue!Jobs : jobs[j].status = "printing" => jobs[j].started <= now'
    BY <1>0, <2>1, <2>2 DEF TableOK
  <2>5. TableOK(jobs)' BY <1>0, <2>3, <2>4 DEF TableOK
  <2> QED BY <1>0, <2>1, <2>3, <2>5 DEF PlanInv
<1>7. CASE UNCHANGED Queue!vars
  BY <1>7 DEF Queue!vars, PlanInv, TableOK
<1> QED BY <1>1, <1>2, <1>3, <1>4, <1>5, <1>6, <1>7 DEF Queue!Next

-------------------------------------------------------------------------------
\* What the page shows: of the jobs that it shows, the plan.
Shows(p, s) ==
  /\ DOMAIN p.tiles \subseteq {k \in Queue!Jobs : jobs[k].status \in {"queued", "printing"}}
  /\ p.by \in Staff => \A k \in Queue!Jobs : jobs[k].status \in {"queued", "printing"} => k \in DOMAIN p.tiles
  /\ \A k \in DOMAIN p.tiles :
       /\ p.tiles[k].status = jobs[k].status /\ p.tiles[k].printer = jobs[k].printer
       /\ p.tiles[k].start = s.plan[k].start /\ p.tiles[k].completion = s.plan[k].completion
  /\ p.at = now /\ p.down = down

LEMMA TileShows ==
  ASSUME NEW r
  PROVE  /\ Queue!Tile(r).status = r.status /\ Queue!Tile(r).printer = r.printer
         /\ Queue!Tile(r).start = r.est.start /\ Queue!Tile(r).completion = r.est.completion
BY DEF Queue!Tile

LEMMA PageShows ==
  ASSUME Queue!QueueAssumption, PlanInv, NEW u \in Users, Queue!get_print_queue(u)
  PROVE  \E s : Sched(jobs, NumJobs, s) /\ Shows(page', s)
<1>1. PICK order \in Queue!Orders :
        /\ jobs' = Queue!Refreshed(jobs, order)
        /\ page' = [at |-> now, by |-> u, down |-> down,
                tiles |-> [j \in {k \in Queue!With("queued") \cup Queue!With("printing") :
                                    u \in Staff \/ jobs[k].owner = u} |-> Queue!Tile(jobs'[j])]]
  BY DEF Queue!get_print_queue
<1>2. now \in Nat /\ TableOK(jobs) /\ down \subseteq Printers
  BY DEF PlanInv, Queue!QueueAssumption
<1>3. PICK s :
        /\ Sched(jobs, NumJobs, s)
        /\ \A j \in Queue!Jobs : jobs[j].status \in {"queued", "printing"} =>
             jobs'[j] = [jobs[j] EXCEPT !.est = s.plan[j]]
  <2>1. PICK s :
          /\ Sched(jobs, NumJobs, s)
          /\ \A j \in Queue!Jobs :
                /\ jobs[j].status \in {"queued", "printing"} =>
                     Queue!Refreshed(jobs, order)[j] = [jobs[j] EXCEPT !.est = s.plan[j]]
                /\ jobs[j].status \notin {"queued", "printing"} => Queue!Refreshed(jobs, order)[j] = jobs[j]
    BY <1>2, RefreshedIsPlanned
  <2> QED BY <1>1, <2>1
<1> DEFINE D == {k \in Queue!With("queued") \cup Queue!With("printing") : u \in Staff \/ jobs[k].owner = u}
<1>4. \A k : k \in D <=> /\ k \in Queue!Jobs /\ jobs[k].status \in {"queued", "printing"}
                         /\ u \in Staff \/ jobs[k].owner = u
  BY DEF Queue!With
<1>5. DOMAIN page'.tiles = D /\ page'.at = now /\ page'.by = u /\ page'.down = down
      /\ \A k \in D : page'.tiles[k] = Queue!Tile(jobs'[k])
  BY <1>1
<1> HIDE DEF D
<1>6. ASSUME NEW k \in D
      PROVE  /\ page'.tiles[k].status = jobs[k].status /\ page'.tiles[k].printer = jobs[k].printer
             /\ page'.tiles[k].start = s.plan[k].start /\ page'.tiles[k].completion = s.plan[k].completion
  <2>1. jobs[k] \in Records BY <1>2, <1>4 DEF TableOK
  <2>2. jobs'[k] = [jobs[k] EXCEPT !.est = s.plan[k]] BY <1>3, <1>4
  <2>3. /\ jobs'[k].status = jobs[k].status /\ jobs'[k].printer = jobs[k].printer
        /\ jobs'[k].est = s.plan[k]
    BY <2>1, <2>2 DEF Records
  <2> QED BY <1>5, <2>3, TileShows
<1>7. Shows(page', s)
  BY <1>4, <1>5, <1>6 DEF Shows
<1> QED BY <1>3, <1>7

LEMMA PageIsSound ==
  ASSUME Queue!QueueAssumption, PlanInv, NEW s, Sched(jobs, NumJobs, s), Shows(page', s)
  PROVE  (Queue!OneAtATimeInOrder /\ Queue!NothingInThePast /\ Queue!NoIdlePlan /\ Queue!NoStaleEstimate)'
<1> DEFINE D == DOMAIN page'.tiles
           planned == {j \in D : page'.tiles[j].start # -1}
<1>1. /\ now \in Nat /\ TableOK(jobs) /\ s \in State
      /\ WhoIsPlanned(jobs, NumJobs, s) /\ OneByOne(jobs, s) /\ Busily(jobs, s)
  BY DEF PlanInv, Sched, Queue!QueueAssumption
<1>2. D \subseteq Queue!Jobs /\ \A k \in D : jobs[k].status \in {"queued", "printing"}
  BY DEF Shows
<1>3. \A k \in Queue!Jobs : s.plan[k] \in Estimates /\ (s.plan[k] # Queue!Nothing <=> s.plan[k].start # -1)
  BY <1>1, NothingIsNot DEF State
<1>4. \A k \in D : /\ page'.tiles[k].status = jobs[k].status /\ page'.tiles[k].printer = jobs[k].printer
                   /\ page'.tiles[k].start = s.plan[k].start /\ page'.tiles[k].completion = s.plan[k].completion
  BY DEF Shows
<1>5. \A k : k \in planned <=> k \in D /\ k \in Planned(s)
  BY <1>2, <1>3, <1>4 DEF Planned
<1>6. page'.at = now /\ page'.down = down
  BY DEF Shows
<1>7. \A k \in Queue!Jobs : k <= NumJobs
  BY DEF Queue!Jobs, Queue!QueueAssumption
<1>8. Queue!Tiles' = D /\ Queue!Planned' = planned
  BY DEF Queue!Tiles, Queue!Planned
<1> HIDE DEF D, planned
<1>9. Queue!OneAtATimeInOrder'
  <2>1. ASSUME NEW j \in planned, NEW k \in planned,
               page'.tiles[j].printer = page'.tiles[k].printer, page'.tiles[j].printer # Anywhere,
               page'.tiles[k].status = "queued",
               page'.tiles[j].status = "printing" \/ (page'.tiles[j].status = "queued" /\ j < k)
        PROVE  page'.tiles[j].completion <= page'.tiles[k].start
    <3>1. j \in D /\ k \in D /\ j \in Planned(s) /\ k \in Planned(s) BY <1>5
    <3>2. s.plan[j].completion <= s.plan[k].start
      BY <1>1, <1>4, <2>1, <3>1 DEF OneByOne
    <3> QED BY <1>4, <3>1, <3>2
  <2> QED BY <1>8, <2>1 DEF Queue!OneAtATimeInOrder
<1>10. Queue!NothingInThePast'
  <2>1. ASSUME NEW j \in planned
        PROVE  /\ page'.tiles[j].completion >= page'.at
               /\ page'.tiles[j].status = "queued" => page'.tiles[j].start >= page'.at
    <3>1. j \in D /\ j \in Planned(s) /\ j \in Queue!Jobs BY <1>2, <1>5
    <3>2. s.plan[j].start \in Nat /\ s.plan[j].completion \in Nat /\ s.plan[j].start < s.plan[j].completion
      BY <1>3, <3>1 DEF Planned, Estimates
    <3>3. CASE jobs[j].status = "queued"
      <4>1. s.plan[j].start >= now BY <1>1, <3>1, <3>3 DEF WhoIsPlanned
      <4> QED BY <1>1, <1>4, <1>6, <3>1, <3>2, <4>1
    <3>4. CASE jobs[j].status = "printing"
      <4>1. s.plan[j] = Queue!Runs(jobs[j]) BY <1>1, <3>1, <3>4 DEF WhoIsPlanned
      <4>2. s.plan[j].completion >= now BY <1>1, <3>1, <3>4, <4>1, RunsOn DEF TableOK
      <4> QED BY <1>4, <1>6, <3>1, <3>4, <4>2
    <3> QED BY <1>2, <3>1, <3>3, <3>4
  <2> QED BY <1>8, <2>1 DEF Queue!NothingInThePast
<1>11. Queue!NoIdlePlan'
  <2> SUFFICES ASSUME page'.by \in Staff, NEW j \in planned,
                      page'.tiles[j].status = "queued", page'.tiles[j].start > page'.at
               PROVE  /\ \E k \in planned : page'.tiles[k].completion = page'.tiles[j].start
                      /\ page'.tiles[j].printer = Anywhere =>
                           \E S \in SUBSET (planned \ {j}) :
                             /\ Queue!Cardinality(S) = Queue!Cardinality(Printers \ page'.down)
                             /\ \A k \in S : page'.tiles[k].completion >= page'.tiles[j].start
    BY <1>8 DEF Queue!NoIdlePlan
  <2>1. j \in D /\ j \in Planned(s) BY <1>5
  <2>2. \A k \in Planned(s) : k \in planned
    <3>1. \A k \in Planned(s) : k \in Queue!Jobs /\ jobs[k].status \in {"queued", "printing"}
      BY <1>1 DEF WhoIsPlanned, Planned, Waits
    <3> QED BY <1>5, <3>1 DEF Shows, D
  <2>3. \A k \in Planned(s) : page'.tiles[k].completion = s.plan[k].completion
    BY <1>4, <1>5, <2>2
  <2>4. /\ jobs[j].status = "queued" /\ s.plan[j].start > now
        /\ page'.tiles[j].start = s.plan[j].start /\ page'.tiles[j].printer = jobs[j].printer
    BY <1>4, <1>6, <2>1
  <2>5. /\ \E l \in Planned(s) : s.plan[l].completion = s.plan[j].start
        /\ jobs[j].printer = Anywhere =>
             \E S \in SUBSET (Planned(s) \ {j}) :
               /\ Cardinality(S) = Cardinality(Printers \ down)
               /\ \A l \in S : s.plan[l].completion >= s.plan[j].start
    BY <1>1, <2>1, <2>4 DEF Busily
  <2>6. \E k \in planned : page'.tiles[k].completion = page'.tiles[j].start
    BY <2>2, <2>3, <2>4, <2>5
  <2>7. ASSUME jobs[j].printer = Anywhere
        PROVE  \E S \in SUBSET (planned \ {j}) :
                 /\ Queue!Cardinality(S) = Queue!Cardinality(Printers \ page'.down)
                 /\ \A k \in S : page'.tiles[k].completion >= page'.tiles[j].start
    <3>1. PICK S \in SUBSET (Planned(s) \ {j}) :
               /\ Cardinality(S) = Cardinality(Printers \ down)
               /\ \A l \in S : s.plan[l].completion >= s.plan[j].start
      BY <2>5, <2>7
    <3>2. S \in SUBSET (planned \ {j}) BY <2>2
    <3>3. Queue!Cardinality(S) = Queue!Cardinality(Printers \ page'.down)
      BY <1>6, <3>1, SameFinite
    <3>4. \A k \in S : page'.tiles[k].completion >= page'.tiles[j].start
      BY <2>3, <2>4, <3>1
    <3> QED BY <3>2, <3>3, <3>4
  <2> QED BY <2>4, <2>6, <2>7
<1>12. Queue!NoStaleEstimate'
  <2>1. ASSUME NEW j \in D
        PROVE  page'.tiles[j].start = -1 <=>
                 page'.tiles[j].printer = Anywhere /\ page'.tiles[j].status = "queued" /\ page'.down = Printers
    <3>1. j \in Queue!Jobs /\ j <= NumJobs BY <1>2, <1>7
    <3>2. CASE jobs[j].status = "queued"
      <4>1. s.plan[j] = Queue!Nothing <=> Homeless(jobs[j])
        BY <1>1, <3>1, <3>2 DEF WhoIsPlanned, Waits
      <4> QED BY <1>3, <1>4, <1>6, <3>1, <3>2, <4>1 DEF Homeless
    <3>3. CASE jobs[j].status = "printing"
      <4>1. s.plan[j] = Queue!Runs(jobs[j]) BY <1>1, <3>1, <3>3 DEF WhoIsPlanned
      <4>2. s.plan[j] # Queue!Nothing BY <1>1, <3>1, <3>3, <4>1, RunsOn DEF TableOK
      <4> QED BY <1>3, <1>4, <3>1, <3>3, <4>2
    <3> QED BY <1>2, <3>2, <3>3
  <2> QED BY <1>8, <2>1 DEF Queue!NoStaleEstimate
<1> QED BY <1>9, <1>10, <1>11, <1>12

PageIsRight ==
  Queue!OneAtATimeInOrder /\ Queue!NothingInThePast /\ Queue!NoIdlePlan /\ Queue!NoStaleEstimate

\* Before anybody has looked, and when something has changed since, there is no page.
LEMMA NoPageIsRight ==
  ASSUME page = Queue!NoPage
  PROVE  PageIsRight
<1>0. page.tiles = <<>>
  BY DEF Queue!NoPage
<1>1. DOMAIN page.tiles = {}
  BY <1>0
<1>2. Queue!Planned = {} /\ Queue!Tiles = {}
  BY <1>1 DEF Queue!Planned, Queue!Tiles
<1> QED BY <1>2 DEF PageIsRight, Queue!OneAtATimeInOrder, Queue!NothingInThePast, Queue!NoIdlePlan,
                    Queue!NoStaleEstimate

LEMMA PageStep ==
  ASSUME Queue!QueueAssumption, PlanInv, PageIsRight, [Queue!Next]_Queue!vars
  PROVE  PageIsRight'
<1>1. ASSUME NEW u \in Users, Queue!get_print_queue(u) PROVE PageIsRight'
  <2>1. PICK s : Sched(jobs, NumJobs, s) /\ Shows(page', s) BY <1>1, PageShows
  <2> QED BY <2>1, PageIsSound DEF PageIsRight
<1>2. ASSUME page' = Queue!NoPage PROVE PageIsRight'
  <2>1. (page = Queue!NoPage)' BY <1>2 DEF Queue!NoPage
  <2> QED BY <2>1, NoPageIsRight, PTL
<1>3. CASE UNCHANGED Queue!vars
  <2>1. page' = page BY <1>3 DEF Queue!vars
  <2>2. Queue!Planned' = Queue!Planned /\ Queue!Tiles' = Queue!Tiles
    BY <2>1 DEF Queue!Planned, Queue!Tiles
  <2>3. Queue!OneAtATimeInOrder' <=> Queue!OneAtATimeInOrder
    BY <2>1, <2>2 DEF Queue!OneAtATimeInOrder
  <2>4. Queue!NothingInThePast' <=> Queue!NothingInThePast
    BY <2>1, <2>2 DEF Queue!NothingInThePast
  <2>5. Queue!NoIdlePlan' <=> Queue!NoIdlePlan
    BY <2>1, <2>2 DEF Queue!NoIdlePlan
  <2>6. Queue!NoStaleEstimate' <=> Queue!NoStaleEstimate
    BY <2>1, <2>2 DEF Queue!NoStaleEstimate
  <2> QED BY <2>3, <2>4, <2>5, <2>6 DEF PageIsRight
<1>4. CASE Queue!Submit BY <1>2, <1>4 DEF Queue!Submit
<1>5. CASE Queue!Starts BY <1>2, <1>5 DEF Queue!Starts
<1>6. CASE Queue!Ends BY <1>2, <1>6 DEF Queue!Ends
<1>7. CASE Queue!PrinterStatus BY <1>2, <1>7 DEF Queue!PrinterStatus
<1>8. CASE Queue!Tick BY <1>2, <1>8 DEF Queue!Tick
<1> QED BY <1>1, <1>3, <1>4, <1>5, <1>6, <1>7, <1>8 DEF Queue!Next

LEMMA DurationsAreClose ==
  ASSUME NEW d \in Nat PROVE Queue!IsClose(d)
<1> DEFINE f == Queue!_format_duration(d)
<1>1. CASE d < 3600
  <2>1. f.h = 0 /\ f.m = d \div 60 /\ f.s = d % 60 BY <1>1 DEF Queue!_format_duration
  <2> HIDE DEF f
  <2>2. d = 60 * (d \div 60) + (d % 60) /\ d \div 60 \in Nat /\ d % 60 \in Nat OBVIOUS
  <2>3. d - (3600 * f.h + 60 * f.m + f.s) = 0 BY <2>1, <2>2
  <2> QED BY <2>3 DEF Queue!IsClose, f
<1>2. CASE ~(d < 3600)
  <2> DEFINE s == d % 3600
             q == s \div 60
             r == s % 60
             m == IF r < 30 \/ (r = 30 /\ q % 2 = 0) THEN q ELSE q + 1
  <2>1. f.h = d \div 3600 /\ f.m = m /\ f.s = 0
    BY <1>2 DEF Queue!_format_duration, Queue!RoundMinutes
  <2>2. d = 3600 * (d \div 3600) + s /\ d \div 3600 \in Nat /\ s \in Nat OBVIOUS
  <2> HIDE DEF s, f
  <2>3. s = 60 * q + r /\ q \in Nat /\ r \in 0..59 BY <2>2
  <2> HIDE DEF q, r
  <2>4. s - 60 * m \in -30..30 BY <2>2, <2>3
  <2>5. m \in Nat BY <2>3
  <2> HIDE DEF m
  <2>6. d - (3600 * f.h + 60 * f.m + f.s) = s - 60 * m BY <2>1, <2>2, <2>5
  <2> QED BY <1>2, <2>4, <2>6 DEF Queue!IsClose, f
<1> QED BY <1>1, <1>2

\* A page of the queue is right, whoever looks.
LEMMA PlanIsSoundThen ==
  ASSUME PlanInv, PageIsRight
  PROVE  /\ Queue!TypeOK /\ Queue!OneAtATimeInOrder /\ Queue!NothingInThePast /\ Queue!NoIdlePlan
         /\ Queue!NoStaleEstimate /\ Queue!ShownIsClose
<1>1. Queue!TypeOK
  <2>1. ASSUME NEW j \in Queue!Jobs
        PROVE  /\ jobs[j].status \in {"none", "queued", "printing", "done"}
               /\ jobs[j].printer \in Printers \cup {Anywhere} /\ jobs[j].owner \in Users
               /\ jobs[j].est = Queue!Nothing \/ jobs[j].est.start < jobs[j].est.completion
    <3>1. jobs[j] \in Records BY DEF PlanInv, TableOK
    <3> QED BY <3>1 DEF Records, Estimates
  <2> QED BY <2>1 DEF PlanInv, Queue!TypeOK
<1>2. Queue!ShownIsClose
  <2> DEFINE shown == 0 .. 3 * 3600
  <2>1. shown \subseteq Nat OBVIOUS
  <2>2. Queue!ShownIsClose <=> \A d \in shown : Queue!IsClose(d) BY DEF Queue!ShownIsClose
  <2> HIDE DEF shown
  <2> QED BY <2>1, <2>2, DurationsAreClose
<1> QED BY <1>1, <1>2 DEF PageIsRight

-------------------------------------------------------------------------------
(***************************************************************************)
(* A punctual farm of jobs with printers of their own.                     *)
(***************************************************************************)
\* l is done before k on the printer of k.
Ahead(t, l, k) ==
  /\ t[l].printer = t[k].printer
  /\ t[l].status = "printing" \/ (t[l].status = "queued" /\ l < k)

\* k starts as soon as what is ahead of it has ended, and takes its time.
InTurn(t, e, k) ==
  /\ e[k].start \in Nat /\ e[k].start >= now /\ e[k].completion = e[k].start + Queue!Duration(t[k])
  /\ \A l \in Queue!Jobs : Ahead(t, l, k) => e[l].completion <= e[k].start
  /\ e[k].start = now \/ \E l \in Queue!Jobs : Ahead(t, l, k) /\ e[l].completion = e[k].start

Ests(t) == [j \in Queue!Jobs |-> t[j].est]

\* All but the jobs of N, which come last, keep to their estimates.
Settled(t, N) ==
  /\ down = {}
  /\ \A j \in Queue!Jobs : t[j].status # "none" => t[j].printer \in Printers
  /\ \A j, k \in Queue!Jobs : t[j].status = "none" /\ j < k => t[k].status = "none"
  /\ \A j \in Queue!Jobs : t[j].status = "none" => t[j].est = Queue!Nothing
  /\ \A j \in Queue!Jobs : t[j].status = "printing" =>
       /\ t[j].est.start = t[j].started
       /\ t[j].est.completion = t[j].started + Queue!Duration(t[j])
       /\ now <= t[j].started + Queue!Duration(t[j])
  /\ \A j \in Queue!Jobs : t[j].status = "queued" /\ j \notin N => InTurn(t, Ests(t), j)
  /\ \A j \in Queue!Jobs, k \in N : t[j].status = "queued" /\ j \notin N => j < k

Punct == PlanInv /\ Settled(jobs, {})

\* There is one way only to take turns.
LEMMA TurnsAreUnique ==
  ASSUME now \in Nat, NumJobs \in Nat, NEW t, NEW K \in SUBSET Queue!Jobs,
         \A k \in Queue!Jobs : Queue!Duration(t[k]) \in Nat,
         NEW e \in [Queue!Jobs -> Estimates], NEW f \in [Queue!Jobs -> Estimates],
         \A k \in K, l \in Queue!Jobs : Ahead(t, l, k) => l \in K \/ e[l] = f[l],
         \A k \in K, l \in Queue!Jobs : Ahead(t, l, k) /\ l \in K => l < k,
         \A k \in K : InTurn(t, e, k) /\ InTurn(t, f, k)
  PROVE  \A k \in K : e[k] = f[k]
<1> DEFINE bad == {k \in K : e[k] # f[k]}
<1> SUFFICES ASSUME bad # {} PROVE FALSE
  OBVIOUS
<1>0. Queue!Jobs \subseteq Nat BY DEF Queue!Jobs
<1>1. bad \in SUBSET Nat BY <1>0
<1>2. PICK k \in bad : \A l \in bad : k <= l BY <1>1, LeastNatural
<1>3. k \in K /\ k \in Queue!Jobs /\ e[k] # f[k] OBVIOUS
<1>4. ASSUME NEW l \in Queue!Jobs, Ahead(t, l, k) PROVE e[l] = f[l]
  <2>1. l \in K => l < k BY <1>3, <1>4
  <2>2. l \notin bad BY <1>1, <1>2, <2>1
  <2> QED BY <1>3, <1>4, <2>2
<1> HIDE DEF bad
<1>5. InTurn(t, e, k) /\ InTurn(t, f, k) BY <1>3
<1>6. e[k].start \in Nat /\ f[k].start \in Nat BY <1>5 DEF InTurn
<1>7. e[k].start <= f[k].start
  <2>1. CASE e[k].start = now BY <1>5, <2>1 DEF InTurn
  <2>2. ASSUME NEW l \in Queue!Jobs, Ahead(t, l, k), e[l].completion = e[k].start
        PROVE  e[k].start <= f[k].start
    BY <1>4, <1>5, <2>2 DEF InTurn
  <2> QED BY <1>5, <2>1, <2>2 DEF InTurn
<1>8. f[k].start <= e[k].start
  <2>1. CASE f[k].start = now BY <1>5, <2>1 DEF InTurn
  <2>2. ASSUME NEW l \in Queue!Jobs, Ahead(t, l, k), f[l].completion = f[k].start
        PROVE  f[k].start <= e[k].start
    BY <1>4, <1>5, <2>2 DEF InTurn
  <2> QED BY <1>5, <2>1, <2>2 DEF InTurn
<1>9. e[k].start = f[k].start /\ e[k].completion = f[k].completion
  BY <1>5, <1>6, <1>7, <1>8 DEF InTurn
<1>10. e[k] \in Estimates /\ f[k] \in Estimates BY <1>3
<1>11. e[k] = f[k] BY <1>6, <1>9, <1>10 DEF Estimates, Queue!Nothing
<1> QED BY <1>3, <1>11

\* The plan lets every job take its turn.
LEMMA PlanTakesTurns ==
  ASSUME Queue!QueueAssumption, now \in Nat, NEW t, TableOK(t), NEW N, Settled(t, N),
         NEW s, Sched(t, NumJobs, s)
  PROVE  /\ \A k \in Queue!Jobs : t[k].status = "queued" => InTurn(t, s.plan, k)
         /\ \A k \in Queue!Jobs : t[k].status = "printing" => s.plan[k] = t[k].est
<1>1. /\ s \in State /\ WhoIsPlanned(t, NumJobs, s) /\ OneByOne(t, s) /\ Busily(t, s)
      /\ NumJobs \in Nat /\ Anywhere \notin Printers
  BY DEF Sched, Queue!QueueAssumption
<1>2. \A k \in Queue!Jobs : k \in Nat /\ k <= NumJobs /\ s.plan[k] \in Estimates
  BY <1>1 DEF Queue!Jobs, State
<1>3. \A k \in Queue!Jobs : t[k].status # "none" => t[k].printer \in Printers
  BY DEF Settled
<1>4. \A k \in Queue!Jobs : t[k].status = "queued" => k \in Planned(s)
  BY <1>1, <1>2, <1>3 DEF WhoIsPlanned, Waits, Homeless, Planned
<1>5. ASSUME NEW k \in Queue!Jobs, t[k].status = "printing"
      PROVE  s.plan[k] = t[k].est /\ k \in Planned(s)
  <2>1. s.plan[k] = Queue!Runs(t[k]) BY <1>1, <1>5 DEF WhoIsPlanned
  <2>2. t[k] \in Records /\ t[k].started \in Nat /\ Queue!Duration(t[k]) \in Nat /\ t[k].started <= now
    BY <1>5, DurationIsPositive DEF TableOK, Records
  <2>3. /\ t[k].est.start = t[k].started
        /\ t[k].est.completion = t[k].started + Queue!Duration(t[k])
        /\ now <= t[k].started + Queue!Duration(t[k])
    BY <1>5 DEF Settled
  <2>4. Queue!Runs(t[k]) =
          [start |-> t[k].started, completion |-> t[k].started + Queue!Duration(t[k])]
    BY <2>2, <2>3 DEF Queue!Runs
  <2>5. t[k].est \in Estimates BY <2>2 DEF Records
  <2>6. t[k].est = [start |-> t[k].started, completion |-> t[k].started + Queue!Duration(t[k])]
    BY <2>3, <2>5 DEF Estimates, Queue!Nothing
  <2>7. Queue!Runs(t[k]) # Queue!Nothing BY <2>2, RunsOn
  <2> QED BY <2>1, <2>4, <2>6, <2>7 DEF Planned
<1>6. ASSUME NEW k \in Queue!Jobs, t[k].status = "queued"
      PROVE  InTurn(t, s.plan, k)
  <2>1. k \in Planned(s) /\ t[k].printer \in Printers /\ t[k].printer # Anywhere
    BY <1>1, <1>3, <1>4, <1>6
  <2>2. /\ s.plan[k].start \in Nat /\ s.plan[k].start >= now
        /\ s.plan[k].completion = s.plan[k].start + Queue!Duration(t[k])
    BY <1>1, <1>2, <1>6, <2>1 DEF WhoIsPlanned, Planned, Estimates
  <2>3. ASSUME NEW l \in Queue!Jobs, Ahead(t, l, k) PROVE s.plan[l].completion <= s.plan[k].start
    <3>1. l \in Planned(s) BY <1>4, <1>5, <2>3 DEF Ahead
    <3> QED BY <1>1, <1>6, <2>1, <2>3, <3>1 DEF OneByOne, Ahead
  <2>4. ASSUME s.plan[k].start # now
        PROVE  \E l \in Queue!Jobs : Ahead(t, l, k) /\ s.plan[l].completion = s.plan[k].start
    <3>1. s.plan[k].start > now BY <2>2, <2>4
    <3>2. PICK l \in Planned(s) : s.plan[l].completion = s.plan[k].start /\ MayPrecede(t, l, k)
      BY <1>1, <1>6, <2>1, <3>1 DEF Busily
    <3>3. l \in Queue!Jobs /\ t[l].status \in {"queued", "printing"}
      BY <1>1 DEF WhoIsPlanned, Waits, Planned
    <3>4. t[l].printer = t[k].printer BY <1>1, <1>3, <2>1, <3>2, <3>3 DEF MayPrecede
    <3> QED BY <3>2, <3>3, <3>4 DEF MayPrecede, Ahead
  <2> QED BY <2>2, <2>3, <2>4 DEF InTurn
<1> QED BY <1>5, <1>6

\* A refresh leaves every estimate that there was, and makes those of N.
LEMMA RefreshedKeeps ==
  ASSUME Queue!QueueAssumption, now \in Nat, down \subseteq Printers, NEW t, TableOK(t),
         NEW N, Settled(t, N), NEW order \in Queue!Orders
  PROVE  LET r == Queue!Refreshed(t, order) IN
         /\ TableOK(r) /\ Settled(r, {})
         /\ \A j \in Queue!Jobs : j \notin N => r[j] = t[j]
<1>1. PICK s :
           /\ Sched(t, NumJobs, s)
           /\ \A j \in Queue!Jobs :
                /\ t[j].status \in {"queued", "printing"} =>
                     Queue!Refreshed(t, order)[j] = [t[j] EXCEPT !.est = s.plan[j]]
                /\ t[j].status \notin {"queued", "printing"} => Queue!Refreshed(t, order)[j] = t[j]
           /\ TableOK(Queue!Refreshed(t, order))
  BY RefreshedIsPlanned
<1> DEFINE r == Queue!Refreshed(t, order)
           K == {k \in Queue!Jobs : t[k].status = "queued" /\ k \notin N}
<1>2. /\ \A k \in Queue!Jobs : t[k].status = "queued" => InTurn(t, s.plan, k)
      /\ \A k \in Queue!Jobs : t[k].status = "printing" => s.plan[k] = t[k].est
  BY <1>1, PlanTakesTurns
<1>3. \A j \in Queue!Jobs :
        /\ t[j].status \in {"queued", "printing"} => r[j] = [t[j] EXCEPT !.est = s.plan[j]]
        /\ t[j].status \notin {"queued", "printing"} => r[j] = t[j]
  BY <1>1
<1>4. TableOK(r) BY <1>1
<1> HIDE DEF r
<1>5. t \in [Queue!Jobs -> Records] /\ NumJobs \in Nat /\ Queue!Jobs \subseteq Nat
      /\ s.plan \in [Queue!Jobs -> Estimates]
  BY <1>1 DEF TableOK, Sched, State, Queue!QueueAssumption, Queue!Jobs
<1>6. \A k \in Queue!Jobs : Queue!Duration(t[k]) \in Nat
  BY <1>5, DurationIsPositive
<1>7. \A k \in Queue!Jobs : t[k].status = "printing" => s.plan[k] = Ests(t)[k]
  BY <1>2 DEF Ests
<1>8. Ests(t) \in [Queue!Jobs -> Estimates]
  BY <1>5 DEF Ests, Records
<1>9. \A k \in K : Ests(t)[k] = s.plan[k]
  <2>1. \A k \in K, l \in Queue!Jobs : Ahead(t, l, k) => l \in K \/ Ests(t)[l] = s.plan[l]
    <3>1. ASSUME NEW k \in K, NEW l \in Queue!Jobs, Ahead(t, l, k), l \in N, t[l].status = "queued"
          PROVE  FALSE
      <4>1. k < l BY <3>1 DEF Settled
      <4>2. l < k BY <3>1 DEF Ahead
      <4> QED BY <1>5, <4>1, <4>2
    <3> QED BY <1>7, <3>1 DEF Ahead
  <2>2. \A k \in K, l \in Queue!Jobs : Ahead(t, l, k) /\ l \in K => l < k
    BY DEF Ahead
  <2>3. \A k \in K : InTurn(t, Ests(t), k) /\ InTurn(t, s.plan, k)
    BY <1>2 DEF Settled
  <2>4. K \in SUBSET Queue!Jobs OBVIOUS
  <2> HIDE DEF K
  <2> QED BY <1>5, <1>6, <1>8, <2>1, <2>2, <2>3, <2>4, TurnsAreUnique
<1>10. ASSUME NEW j \in Queue!Jobs
       PROVE  /\ r[j].status = t[j].status /\ r[j].printer = t[j].printer
              /\ r[j].started = t[j].started /\ r[j].duration = t[j].duration
              /\ t[j].status \in {"queued", "printing"} => r[j].est = s.plan[j]
              /\ j \notin N => r[j] = t[j]
  <2>1. t[j] \in Records BY <1>5
  <2>2. CASE t[j].status \notin {"queued", "printing"} BY <1>3, <2>2
  <2>3. CASE t[j].status \in {"queued", "printing"}
    <3>1. r[j] = [t[j] EXCEPT !.est = s.plan[j]] BY <1>3, <2>3
    <3>2. j \notin N => s.plan[j] = t[j].est BY <1>2, <1>9, <2>3 DEF Ests
    <3> QED BY <2>1, <3>1, <3>2 DEF Records
  <2> QED BY <2>2, <2>3
<1>11. \A j \in Queue!Jobs : Queue!Duration(r[j]) = Queue!Duration(t[j])
  BY <1>10 DEF Queue!Duration
<1>12. ASSUME NEW k \in Queue!Jobs, r[k].status = "queued"
       PROVE  InTurn(r, Ests(r), k)
  <2>1. InTurn(t, s.plan, k) BY <1>2, <1>10, <1>12
  <2>2. \A l \in Queue!Jobs : Ahead(r, l, k) <=> Ahead(t, l, k) BY <1>10 DEF Ahead
  <2>3. \A l \in Queue!Jobs : Ahead(t, l, k) => Ests(r)[l] = s.plan[l] BY <1>10 DEF Ahead, Ests
  <2>4. Ests(r)[k] = s.plan[k] BY <1>10, <1>12 DEF Ests
  <2> QED BY <1>11, <2>1, <2>2, <2>3, <2>4 DEF InTurn
<1>13. Settled(r, {})
  <2>1. \A j \in Queue!Jobs : t[j].status = "none" => r[j] = t[j] BY <1>3
  <2>2. \A j \in Queue!Jobs : t[j].status = "printing" => r[j].est = t[j].est BY <1>2, <1>10
  <2>3. /\ down = {}
        /\ \A j \in Queue!Jobs : r[j].status # "none" => r[j].printer \in Printers
        /\ \A j, k \in Queue!Jobs : r[j].status = "none" /\ j < k => r[k].status = "none"
        /\ \A j \in Queue!Jobs : r[j].status = "none" => r[j].est = Queue!Nothing
    BY <1>10, <2>1 DEF Settled
  <2>4. \A j \in Queue!Jobs : r[j].status = "printing" =>
          /\ r[j].est.start = r[j].started
          /\ r[j].est.completion = r[j].started + Queue!Duration(r[j])
          /\ now <= r[j].started + Queue!Duration(r[j])
    BY <1>10, <1>11, <2>2 DEF Settled
  <2> QED BY <1>12, <2>3, <2>4 DEF Settled
<1> QED BY <1>4, <1>10, <1>13 DEF r

LEMMA PunctInit ==
  ASSUME Queue!QueueAssumption, Queue!Init
  PROVE  Punct
<1>1. \A j \in Queue!Jobs : jobs[j].status = "none" /\ jobs[j].est = Queue!Nothing
  BY DEF Queue!Init
<1>2. down = {} BY DEF Queue!Init
<1>3. Settled(jobs, {}) BY <1>1, <1>2 DEF Settled
<1> QED BY <1>3, PlanInvInit DEF Punct

\* An estimate is kept by every step of such a farm.
LEMMA PunctStep ==
  ASSUME Queue!QueueAssumption, punctual, Punct, [Queue!Next]_Queue!vars
  PROVE  Settled(jobs, {})' /\ Queue!PromisesKept
<1>0. /\ now \in Nat /\ MaxTime \in Nat /\ TICK \in Nat /\ NumJobs \in Nat
      /\ TableOK(jobs) /\ down \subseteq Printers /\ Settled(jobs, {})
      /\ jobs \in [Queue!Jobs -> Records] /\ Queue!Jobs \subseteq Nat
  BY DEF Punct, PlanInv, TableOK, Queue!QueueAssumption, Queue!Jobs
<1>1. ASSUME NEW u \in Users, Queue!get_print_queue(u)
      PROVE  Settled(jobs, {})' /\ Queue!PromisesKept
  <2>1. PICK order \in Queue!Orders : jobs' = Queue!Refreshed(jobs, order)
    BY <1>1 DEF Queue!get_print_queue
  <2>2. Settled(jobs', {}) /\ \A j \in Queue!Jobs : jobs'[j] = jobs[j]
    BY <1>0, <2>1, RefreshedKeeps
  <2>3. now' = now /\ down' = down BY <1>1 DEF Queue!get_print_queue
  <2>4. Settled(jobs, {})' BY <2>2, <2>3 DEF Settled, InTurn, Ahead, Ests
  <2> QED BY <2>2, <2>4 DEF Queue!PromisesKept
<1>2. CASE Queue!Submit
  <2>1. PICK j \in Queue!With("none"), p \in Places, u \in Users \ Staff, d \in Durations,
             order \in Queue!Orders :
          /\ \A k \in Queue!With("none") : j <= k
          /\ p \notin down /\ (punctual => p # Anywhere)
          /\ jobs' = Queue!Refreshed([jobs EXCEPT ![j].status = "queued", ![j].printer = p,
                                         ![j].owner = u, ![j].duration = d], order)
    BY <1>2 DEF Queue!Submit
  <2> DEFINE t == [jobs EXCEPT ![j].status = "queued", ![j].printer = p,
                                         ![j].owner = u, ![j].duration = d]
  <2>2. j \in Queue!Jobs /\ jobs[j] \in Records /\ jobs[j].status = "none"
    BY <1>0 DEF Queue!With
  <2>3. t = [jobs EXCEPT ![j] = [jobs[j] EXCEPT !.status = "queued", !.printer = p,
                                                !.owner = u, !.duration = d]]
    BY <1>0, <2>2
  <2>4. p \in Printers \cup {Anywhere} /\ d \in Nat BY DEF Queue!QueueAssumption
  <2>4a. p \in Printers BY <2>1, <2>4
  <2>5. [jobs[j] EXCEPT !.status = "queued", !.printer = p, !.owner = u, !.duration = d] \in Records
    BY <2>2, <2>4 DEF Records
  <2>6. t \in [Queue!Jobs -> Records] /\ t[j].status = "queued" /\ t[j].printer = p
        /\ \A k \in Queue!Jobs : k # j => t[k] = jobs[k]
    BY <1>0, <2>2, <2>3, <2>5 DEF Records
  <2>7. jobs' = Queue!Refreshed(t, order) BY <2>1
  <2> HIDE DEF t
  <2>8. TableOK(t) BY <1>0, <2>6 DEF TableOK
  <2>9. \A k \in Queue!Jobs : jobs[k].status = "none" => j <= k BY <2>1 DEF Queue!With
  <2>10. \A k \in Queue!Jobs : j < k => jobs[k].status = "none" BY <1>0, <2>2 DEF Settled
  <2>11. ASSUME NEW k \in Queue!Jobs, t[k].status = "queued", k # j PROVE InTurn(t, Ests(t), k) /\ k < j
    <3>1. jobs[k].status = "queued" /\ t[k] = jobs[k] BY <2>6, <2>11
    <3>2. k < j BY <1>0, <2>2, <2>10, <2>11, <3>1
    <3>3. InTurn(jobs, Ests(jobs), k) BY <1>0, <3>1 DEF Settled
    <3>4. \A l \in Queue!Jobs : Ahead(t, l, k) <=> Ahead(jobs, l, k)
      <4>1. ~Ahead(t, j, k) /\ ~Ahead(jobs, j, k) BY <1>0, <2>2, <2>6, <3>2 DEF Ahead
      <4>2. \A l \in Queue!Jobs : l # j => (Ahead(t, l, k) <=> Ahead(jobs, l, k))
        BY <2>6, <3>1 DEF Ahead
      <4> QED BY <4>1, <4>2
    <3>5. \A l \in Queue!Jobs : Ahead(t, l, k) => Ests(t)[l] = Ests(jobs)[l]
      <4>1. ~Ahead(t, j, k) BY <1>0, <2>2, <2>6, <3>2 DEF Ahead
      <4> QED BY <2>6, <4>1 DEF Ests
    <3>6. Ests(t)[k] = Ests(jobs)[k] BY <3>1 DEF Ests
    <3> QED BY <3>1, <3>2, <3>3, <3>4, <3>5, <3>6 DEF InTurn
  <2>12. Settled(t, {j})
    <3>1. \A k \in Queue!Jobs : t[k].status # "none" => t[k].printer \in Printers
      BY <1>0, <2>4a, <2>6 DEF Settled
    <3>2. \A k, l \in Queue!Jobs : t[k].status = "none" /\ k < l => t[l].status = "none"
      <4>1. ASSUME NEW k \in Queue!Jobs, NEW l \in Queue!Jobs, t[k].status = "none", k < l
            PROVE  t[l].status = "none"
        <5>1. k # j /\ jobs[k].status = "none" BY <2>6, <4>1
        <5>2. j <= k BY <2>9, <5>1
        <5>3. l # j BY <1>0, <2>2, <4>1, <5>2
        <5> QED BY <1>0, <2>6, <4>1, <5>1, <5>3 DEF Settled
      <4> QED BY <4>1
    <3>3. \A k \in Queue!Jobs : t[k].status = "none" => t[k].est = Queue!Nothing
      BY <1>0, <2>6 DEF Settled
    <3>4. \A k \in Queue!Jobs : t[k].status = "printing" =>
             /\ t[k].est.start = t[k].started
             /\ t[k].est.completion = t[k].started + Queue!Duration(t[k])
             /\ now <= t[k].started + Queue!Duration(t[k])
      BY <1>0, <2>6 DEF Settled
    <3>5. down = {} BY <1>0 DEF Settled
    <3> QED BY <2>11, <3>1, <3>2, <3>3, <3>4, <3>5 DEF Settled
  <2>13. Settled(jobs', {}) /\ \A k \in Queue!Jobs : k # j => jobs'[k] = jobs[k]
    BY <1>0, <2>6, <2>7, <2>8, <2>12, RefreshedKeeps
  <2>14. now' = now /\ down' = down BY <1>2 DEF Queue!Submit
  <2>15. Settled(jobs, {})' BY <2>13, <2>14 DEF Settled, InTurn, Ahead, Ests
  <2>16. jobs[j].est = Queue!Nothing BY <1>0, <2>2 DEF Settled
  <2> QED BY <2>13, <2>15, <2>16 DEF Queue!PromisesKept
<1>3. CASE Queue!Starts
  <2>0. PICK p \in Printers \ down : ~Queue!Busy(p) /\ \E j \in Queue!FirstOf(p) :
          jobs' = [jobs EXCEPT ![j].status = "printing", ![j].started = now]
    BY <1>3 DEF Queue!Starts
  <2>1. PICK j \in Queue!FirstOf(p) :
          jobs' = [jobs EXCEPT ![j].status = "printing", ![j].started = now]
    BY <2>0
  <2>2. /\ j \in Queue!Jobs /\ jobs[j] \in Records /\ jobs[j].printer = p /\ jobs[j].status = "queued"
        /\ \A k \in Queue!Jobs : jobs[k].status = "queued" /\ jobs[k].printer = p => j <= k
    BY <1>0, <2>1 DEF Queue!With, Queue!FirstOf
  <2> DEFINE b == [jobs[j] EXCEPT !.status = "printing", !.started = now]
  <2>3. jobs' = [jobs EXCEPT ![j] = b] BY <1>0, <2>1, <2>2
  <2>4. /\ b.printer = p /\ b.started = now /\ b.status = "printing" /\ b.est = jobs[j].est
        /\ b.duration = jobs[j].duration
    BY <2>2 DEF Records
  <2> HIDE DEF b
  <2>5. jobs'[j] = b /\ \A k \in Queue!Jobs : k # j => jobs'[k] = jobs[k]
    BY <1>0, <2>2, <2>3
  <2>6. now' = now /\ down' = down BY <1>3 DEF Queue!Starts
  <2>7. \A k \in Queue!Jobs : jobs[k].status = "printing" => jobs[k].printer # p
    BY <2>0 DEF Queue!Busy, Queue!With
  <2>8. InTurn(jobs, Ests(jobs), j) BY <1>0, <2>2 DEF Settled
  <2>9. \A l \in Queue!Jobs : ~Ahead(jobs, l, j) BY <1>0, <2>2, <2>7 DEF Ahead
  <2>10. jobs[j].est.start = now /\ jobs[j].est.completion = now + Queue!Duration(jobs[j])
    BY <2>2, <2>8, <2>9 DEF InTurn, Ests
  <2>11. \A k \in Queue!Jobs : /\ jobs'[k].est = jobs[k].est /\ jobs'[k].printer = jobs[k].printer
                               /\ Queue!Duration(jobs'[k]) = Queue!Duration(jobs[k])
    BY <2>2, <2>4, <2>5 DEF Queue!Duration
  <2>12. ASSUME NEW k \in Queue!Jobs, jobs'[k].status = "queued" PROVE InTurn(jobs', Ests(jobs'), k)
    <3>1. k # j /\ jobs[k].status = "queued" BY <2>4, <2>5, <2>12
    <3>2. InTurn(jobs, Ests(jobs), k) BY <1>0, <3>1 DEF Settled
    <3>3. Ahead(jobs', j, k) <=> Ahead(jobs, j, k)
      BY <1>0, <2>2, <2>4, <2>5, <3>1 DEF Ahead
    <3>4. \A l \in Queue!Jobs : Ahead(jobs', l, k) <=> Ahead(jobs, l, k)
      BY <2>5, <3>1, <3>3 DEF Ahead
    <3>5. \A l \in Queue!Jobs : Ests(jobs')[l] = Ests(jobs)[l] BY <2>11 DEF Ests
    <3> QED BY <2>11, <3>2, <3>4, <3>5 DEF InTurn
  <2>13. \A k \in Queue!Jobs : jobs'[k].status = "printing" =>
             /\ jobs'[k].est.start = jobs'[k].started
             /\ jobs'[k].est.completion = jobs'[k].started + Queue!Duration(jobs'[k])
             /\ now <= jobs'[k].started + Queue!Duration(jobs'[k])
    <3>1. ASSUME NEW k \in Queue!Jobs, k # j, jobs'[k].status = "printing"
          PROVE  /\ jobs'[k].est.start = jobs'[k].started
                 /\ jobs'[k].est.completion = jobs'[k].started + Queue!Duration(jobs'[k])
                 /\ now <= jobs'[k].started + Queue!Duration(jobs'[k])
      BY <1>0, <2>5, <3>1 DEF Settled
    <3>2. Queue!Duration(jobs[j]) \in Nat BY <2>2, DurationIsPositive
    <3>3. jobs'[j].started = now BY <2>4, <2>5
    <3> QED BY <1>0, <2>10, <2>11, <3>1, <3>2, <3>3
  <2>14. Settled(jobs', {})
    BY <1>0, <2>2, <2>4, <2>5, <2>12, <2>13 DEF Settled
  <2>15. Settled(jobs, {})' BY <2>6, <2>14 DEF Settled, InTurn, Ahead, Ests
  <2> QED BY <2>11, <2>15 DEF Queue!PromisesKept
<1>4. CASE Queue!Ends
  <2>1. PICK j \in Queue!With("printing") :
          Queue!OnTime(j) /\ jobs' = [jobs EXCEPT ![j].status = "done"]
    BY <1>4 DEF Queue!Ends
  <2>2. j \in Queue!Jobs /\ jobs[j] \in Records /\ jobs[j].status = "printing"
    BY <1>0 DEF Queue!With
  <2> DEFINE b == [jobs[j] EXCEPT !.status = "done"]
  <2>3. jobs' = [jobs EXCEPT ![j] = b] BY <1>0, <2>1, <2>2
  <2>4. b.status = "done" /\ b.est = jobs[j].est /\ b.printer = jobs[j].printer
        /\ b.duration = jobs[j].duration
    BY <2>2 DEF Records
  <2> HIDE DEF b
  <2>5. jobs'[j] = b /\ \A k \in Queue!Jobs : k # j => jobs'[k] = jobs[k]
    BY <1>0, <2>2, <2>3
  <2>6. now' = now /\ down' = down BY <1>4 DEF Queue!Ends
  <2>7. jobs[j].est.completion = now
    BY <1>0, <2>1, <2>2 DEF Settled, Queue!OnTime
  <2>11. \A k \in Queue!Jobs : /\ jobs'[k].est = jobs[k].est /\ jobs'[k].printer = jobs[k].printer
                               /\ Queue!Duration(jobs'[k]) = Queue!Duration(jobs[k])
    BY <2>2, <2>4, <2>5 DEF Queue!Duration
  <2>12. ASSUME NEW k \in Queue!Jobs, jobs'[k].status = "queued" PROVE InTurn(jobs', Ests(jobs'), k)
    <3>1. k # j /\ jobs[k].status = "queued" BY <2>4, <2>5, <2>12
    <3>2. InTurn(jobs, Ests(jobs), k) BY <1>0, <3>1 DEF Settled
    <3>3. \A l \in Queue!Jobs : Ahead(jobs', l, k) <=> Ahead(jobs, l, k) /\ l # j
      BY <2>4, <2>5, <3>1 DEF Ahead
    <3>4. \A l \in Queue!Jobs : Ests(jobs')[l] = Ests(jobs)[l] BY <2>11 DEF Ests
    <3>5. Ests(jobs)[j].completion = now BY <2>2, <2>7 DEF Ests
    <3>6. Ests(jobs)[k].start = now \/
            \E l \in Queue!Jobs : Ahead(jobs', l, k) /\ Ests(jobs)[l].completion = Ests(jobs)[k].start
      BY <3>2, <3>3, <3>5 DEF InTurn
    <3> QED BY <2>11, <3>2, <3>3, <3>4, <3>6 DEF InTurn
  <2>14. Settled(jobs', {})
    <3>1. \A k \in Queue!Jobs : jobs'[k].status # "none" => jobs'[k].printer \in Printers
      BY <1>0, <2>2, <2>5, <2>11 DEF Settled
    <3>2. \A k, l \in Queue!Jobs : jobs'[k].status = "none" /\ k < l => jobs'[l].status = "none"
      BY <1>0, <2>2, <2>4, <2>5 DEF Settled
    <3>3. \A k \in Queue!Jobs : jobs'[k].status = "none" => jobs'[k].est = Queue!Nothing
      BY <1>0, <2>4, <2>5 DEF Settled
    <3>4. \A k \in Queue!Jobs : jobs'[k].status = "printing" =>
             /\ jobs'[k].est.start = jobs'[k].started
             /\ jobs'[k].est.completion = jobs'[k].started + Queue!Duration(jobs'[k])
             /\ now <= jobs'[k].started + Queue!Duration(jobs'[k])
      BY <1>0, <2>4, <2>5 DEF Settled
    <3> QED BY <1>0, <2>12, <3>1, <3>2, <3>3, <3>4 DEF Settled
  <2>15. Settled(jobs, {})' BY <2>6, <2>14 DEF Settled, InTurn, Ahead, Ests
  <2> QED BY <2>11, <2>15 DEF Queue!PromisesKept
<1>5. CASE Queue!PrinterStatus
  BY <1>5 DEF Queue!PrinterStatus
<1>6. CASE Queue!Tick
  <2>1. /\ now' = now + TICK /\ jobs' = jobs /\ down' = down
        /\ \A j \in Queue!With("printing") : now' <= jobs[j].started + Queue!Duration(jobs[j])
        /\ \A p \in Printers : Queue!Busy(p) \/ Queue!FirstOf(p) = {}
    BY <1>6 DEF Queue!Tick
  <2>2. now' \in Nat /\ now <= now' BY <1>0, <2>1
  <2>3. \A j \in Queue!Jobs : jobs[j].status = "printing" =>
          now' <= jobs[j].started + Queue!Duration(jobs[j])
    BY <2>1 DEF Queue!With
  <2>4. ASSUME NEW k \in Queue!Jobs, jobs[k].status = "queued" PROVE InTurn(jobs, Ests(jobs), k)'
    <3>1. InTurn(jobs, Ests(jobs), k) BY <1>0, <2>4 DEF Settled
    <3> DEFINE p == jobs[k].printer
               its == {l \in Queue!Jobs : jobs[l].status = "queued" /\ jobs[l].printer = p}
    <3>2. p \in Printers BY <1>0, <2>4 DEF Settled
    <3>3. Queue!FirstOf(p) # {}
      <4>1. its \in SUBSET Nat /\ its # {} BY <1>0, <2>4
      <4>2. PICK l \in its : \A m \in its : l <= m BY <4>1, LeastNatural
      <4>3. l \in Queue!FirstOf(p) BY <4>2 DEF Queue!FirstOf, Queue!With
      <4> QED BY <4>3
    <3>4. PICK l \in Queue!Jobs : jobs[l].status = "printing" /\ jobs[l].printer = p
      BY <2>1, <3>2, <3>3 DEF Queue!Busy, Queue!With
    <3>5. Ahead(jobs, l, k) BY <3>4 DEF Ahead
    <3>6. jobs[l] \in Records /\ Queue!Duration(jobs[l]) \in Nat /\ jobs[l].started \in Nat
      BY <1>0, DurationIsPositive DEF Records
    <3>7. Ests(jobs)[l].completion = jobs[l].started + Queue!Duration(jobs[l])
      BY <1>0, <3>4 DEF Settled, Ests
    <3>8. now' <= Ests(jobs)[l].completion /\ Ests(jobs)[l].completion \in Nat
      BY <2>3, <3>4, <3>6, <3>7
    <3>9. Ests(jobs)[k].start \in Nat /\ Ests(jobs)[k].start >= now'
          /\ Ests(jobs)[l].completion <= Ests(jobs)[k].start
      BY <2>2, <3>1, <3>5, <3>8 DEF InTurn
    <3>10. Ests(jobs)[k].start = now => Ests(jobs)[l].completion = Ests(jobs)[k].start
      BY <1>0, <2>2, <3>8, <3>9
    <3>11. \E m \in Queue!Jobs : Ahead(jobs, m, k) /\ Ests(jobs)[m].completion = Ests(jobs)[k].start
      BY <3>1, <3>5, <3>10 DEF InTurn
    <3>12. /\ Ests(jobs)[k].start \in Nat /\ Ests(jobs)[k].start >= now'
           /\ Ests(jobs)[k].completion = Ests(jobs)[k].start + Queue!Duration(jobs[k])
           /\ \A m \in Queue!Jobs : Ahead(jobs, m, k) => Ests(jobs)[m].completion <= Ests(jobs)[k].start
      BY <3>1, <3>9 DEF InTurn
    <3> QED BY <2>1, <3>11, <3>12 DEF InTurn, Ahead, Ests
  <2>5. Settled(jobs, {})'
    <3>1. \A j \in Queue!Jobs : jobs'[j].status = "queued" => InTurn(jobs, Ests(jobs), j)'
      BY <2>1, <2>4
    <3> QED BY <1>0, <2>1, <2>3, <3>1 DEF Settled
  <2> QED BY <2>1, <2>5 DEF Queue!PromisesKept
<1>7. CASE UNCHANGED Queue!vars
  <2>1. jobs' = jobs /\ down' = down /\ now' = now BY <1>7 DEF Queue!vars
  <2>2. \A j \in Queue!Jobs : InTurn(jobs, Ests(jobs), j) => InTurn(jobs, Ests(jobs), j)'
    BY <2>1 DEF InTurn, Ahead, Ests
  <2>3. Settled(jobs, {})' BY <1>0, <2>1, <2>2 DEF Settled
  <2> QED BY <2>1, <2>3 DEF Queue!PromisesKept
<1> QED BY <1>1, <1>2, <1>3, <1>4, <1>5, <1>6, <1>7 DEF Queue!Next

LEMMA PunctualStays == ASSUME [Queue!Next]_Queue!vars PROVE punctual' = punctual
BY DEF Queue!Next, Queue!get_print_queue, Queue!Submit, Queue!Starts, Queue!Ends,
       Queue!PrinterStatus, Queue!Tick, Queue!vars

--------------------------------------------------------------------------------
(***************************************************************************)
(* The queue a report shows.                                               *)
(***************************************************************************)
\* How many jobs wait for p or print there.
QueueOf(p) ==
  Report!Cardinality({j \in Report!With(table, {"submitted", "queued", "printing"}) : j.printer = p})

QueueShown ==
  Report!Shown => \A p \in Machines : answers.printers[p].queue_length = QueueOf(p)

LEMMA ReportStep ==
  ASSUME QueueShown, [Report!Next]_Report!vars
  PROVE  QueueShown' /\ Report!QueueIsLive
<1>1. ASSUME NEW f \in Filters, Report!Apply(f), table' = table
      PROVE  QueueShown' /\ Report!QueueIsLive
  <2>1. answers'.printers = Report!get_printer_report(f)
    BY <1>1 DEF Report!Apply
  <2>2. \A p \in Machines : Report!get_printer_report(f)[p].queue_length = QueueOf(p)
    BY DEF Report!get_printer_report, QueueOf, Report!_ACTIVE
  <2>3. \A p \in Machines : answers'.printers[p].queue_length = QueueOf(p)
    BY <2>1, <2>2
  <2>4. \A p : QueueOf(p)' = QueueOf(p)
    BY <1>1 DEF QueueOf, Report!With
  <2> QED BY <2>3, <2>4 DEF QueueShown, Report!QueueIsLive
<1>2. CASE UNCHANGED Report!vars
  BY <1>2 DEF Report!vars, QueueShown, Report!Shown, Report!QueueIsLive, QueueOf, Report!With
<1> QED BY <1>1, <1>2 DEF Report!Next

--------------------------------------------------------------------------------
(***************************************************************************)
(* What the reports add up.  A sum over the rows of a table is taken as    *)
(* the sum over the jobs behind the rows: every job is in one part.        *)
(***************************************************************************)
\* The library's sum of a function, which takes an element at a time, is the sum.
LEMMA SumFunctionIs ==
  ASSUME NEW f, IsFiniteSet(DOMAIN f), \A x \in DOMAIN f : f[x] \in Nat
  PROVE  Report!SumFunction(f) = SumOf(f, DOMAIN f)
<1> DEFINE D == DOMAIN f
           Is(g) == g = [s \in SUBSET D |->
                           IF s = {} THEN 0
                           ELSE f[CHOOSE x \in s : TRUE] + g[s \ {CHOOSE x \in s : TRUE}]]
           sums == [s \in SUBSET D |-> SumOf(f, s)]
<1>1. Is(sums)
  <2>1. ASSUME NEW s \in SUBSET D, s # {}
        PROVE  SumOf(f, s) = f[CHOOSE x \in s : TRUE] + SumOf(f, s \ {CHOOSE x \in s : TRUE})
    <3>1. (CHOOSE x \in s : TRUE) \in s BY <2>1
    <3>2. IsFiniteSet(s) BY FS_Subset
    <3>3. \A y \in s : f[y] \in Nat OBVIOUS
    <3> QED BY <3>1, <3>2, <3>3, SumOfMore
  <2>2. SumOf(f, {}) = 0 BY SumOfNone
  <2>3. \A s \in SUBSET D : s \ {CHOOSE x \in s : TRUE} \in SUBSET D OBVIOUS
  <2> QED BY <2>1, <2>2, <2>3
<1>2. ASSUME NEW g, Is(g) PROVE g[D] = SumOf(f, D)
  <2> DEFINE P == {s \in SUBSET D : g[s] = SumOf(f, s)}
  <2>1. ASSUME NEW s \in SUBSET D, \A x \in s : s \ {x} \in P PROVE s \in P
    <3>1. CASE s = {}
      <4>1. g[s] = 0 BY <1>2, <3>1
      <4> QED BY <3>1, <4>1, SumOfNone
    <3>2. CASE s # {}
      <4> DEFINE x == CHOOSE x \in s : TRUE
      <4>1. x \in s BY <3>2
      <4>2. g[s] = f[x] + g[s \ {x}] BY <1>2, <3>2
      <4>3. sums[s] = f[x] + sums[s \ {x}] BY <1>1, <3>2
      <4>4. sums[s] = SumOf(f, s) /\ sums[s \ {x}] = SumOf(f, s \ {x}) OBVIOUS
      <4>5. g[s \ {x}] = SumOf(f, s \ {x}) BY <2>1, <4>1
      <4> QED BY <4>2, <4>3, <4>4, <4>5
    <3> QED BY <3>1, <3>2
  <2>a. IsFiniteSet(D) OBVIOUS
  <2> HIDE DEF P, Is, D, sums
  <2>b. \A s \in SUBSET D : (\A x \in s : s \ {x} \in P) => s \in P BY <2>1
  <2>2. SUBSET D \subseteq P BY <2>a, <2>b, InductionOnSubsets
  <2>3. D \in P BY <2>2
  <2> QED BY <2>3 DEF P
<1>3. Is(CHOOSE g : Is(g))
  <2> HIDE DEF Is, sums
  <2> QED BY <1>1
<1>4. (CHOOSE g : Is(g))[D] = SumOf(f, D)
  <2> HIDE DEF Is
  <2> QED BY <1>2, <1>3
<1>5. Report!SumFunction(f) = (CHOOSE g : Is(g))[D]
  BY DEF Report!SumFunction, Report!SumFunctionOnSet, Report!FoldFunctionOnSet, Report!MapThenFoldSet
<1> QED BY <1>4, <1>5

LEMMA ReportCounts == \A S : Report!Cardinality(S) = Cardinality(S)
BY DEF Report!Cardinality, Cardinality

LEMMA ReportFinite == \A S : Report!IsFiniteSet(S) <=> IsFiniteSet(S)
BY DEF Report!IsFiniteSet, IsFiniteSet

\* As SumOfParts, in the words of the reports: what is added up over the parts, and how many
\* there are of a kind in them.
LEMMA TotalOfParts ==
  ASSUME NEW S, IsFiniteSet(S), NEW f, \A x \in S : f[x] \in Nat,
         NEW K, IsFiniteSet(K), NEW key, \A x \in S : key[x] \in K,
         NEW g, DOMAIN g = K,
         \A k \in K : g[k] = Report!SumFunction([x \in Having(key, k, S) |-> f[x]])
  PROVE  Report!SumFunction(g) = Report!SumFunction([x \in S |-> f[x]])
<1>1. ASSUME NEW T \in SUBSET S
      PROVE  Report!SumFunction([x \in T |-> f[x]]) = SumOf(f, T) /\ SumOf(f, T) \in Nat
  <2> DEFINE h == [x \in T |-> f[x]]
  <2>1. IsFiniteSet(T) /\ DOMAIN h = T /\ \A x \in T : h[x] = f[x] /\ f[x] \in Nat
    BY FS_Subset
  <2> HIDE DEF h
  <2>2. Report!SumFunction(h) = SumOf(h, T) BY <2>1, SumFunctionIs
  <2>3. SumOf(h, T) = SumOf(f, T) BY <2>1, SumOfSame
  <2>4. SumOf(f, T) \in Nat BY <2>1, UnitsFinite
  <2> QED BY <2>2, <2>3, <2>4 DEF h
<1>2. \A k \in K : Having(key, k, S) \in SUBSET S BY DEF Having
<1>3. \A k \in K : g[k] = SumOf(f, Having(key, k, S)) /\ g[k] \in Nat
  BY <1>1, <1>2
<1>4. Report!SumFunction(g) = SumOf(g, K) BY <1>3, SumFunctionIs
<1>5. SumOf(g, K) = SumOf(f, S)
  <2>1. \A k \in K : g[k] = SumOf(f, Having(key, k, S)) BY <1>3
  <2> QED BY <2>1, SumOfParts
<1> QED BY <1>1, <1>4, <1>5

\* How many of S are of a kind.
Count(S, Q) == Cardinality(S \cap Q)

LEMMA CountOfParts ==
  ASSUME NEW S, IsFiniteSet(S), NEW Q,
         NEW K, IsFiniteSet(K), NEW key, \A x \in S : key[x] \in K,
         NEW g, DOMAIN g = K, \A k \in K : g[k] = Count(Having(key, k, S), Q)
  PROVE  Report!SumFunction(g) = Count(S, Q)
<1> DEFINE f == [x \in S |-> IF x \in Q THEN 1 ELSE 0]
<1>1. \A x \in S : f[x] \in {0, 1} /\ f[x] \in Nat /\ (f[x] = 1 <=> x \in Q) OBVIOUS
<1> HIDE DEF f
<1>2. ASSUME NEW T \in SUBSET S
      PROVE  SumOf(f, T) = Count(T, Q) /\ SumOf(f, T) \in Nat
  <2>1. IsFiniteSet(T) /\ \A x \in T : f[x] \in {0, 1} /\ f[x] \in Nat BY <1>1, FS_Subset
  <2>2. SumOf(f, T) = Cardinality({x \in T : f[x] = 1}) BY <2>1, SumOfOnes
  <2>3. {x \in T : f[x] = 1} = T \cap Q BY <1>1
  <2>4. SumOf(f, T) \in Nat BY <2>1, UnitsFinite
  <2> QED BY <2>2, <2>3, <2>4 DEF Count
<1>3. \A k \in K : g[k] = SumOf(f, Having(key, k, S)) /\ g[k] \in Nat
  <2>1. \A k \in K : Having(key, k, S) \in SUBSET S BY DEF Having
  <2> QED BY <1>2, <2>1
<1>4. Report!SumFunction(g) = SumOf(g, K) BY <1>3, SumFunctionIs
<1>5. SumOf(g, K) = SumOf(f, S)
  <2>1. \A k \in K : g[k] = SumOf(f, Having(key, k, S)) BY <1>3
  <2>2. \A x \in S : f[x] \in Nat BY <1>1
  <2> QED BY <2>1, <2>2, SumOfParts
<1> QED BY <1>2, <1>4, <1>5

LEMMA Divides ==
  ASSUME NEW a \in Nat, NEW b \in Nat, b # 0
  PROVE  LET q == a \div b IN q \in Nat /\ b * q <= a /\ a < b * q + b
OBVIOUS

\* What is rounded is within a half of what it was.
LEMMA Rounds ==
  ASSUME NEW a \in Nat, NEW b \in Nat, b # 0
  PROVE  LET r == Report!RoundDiv(a, b) IN
         r \in Nat /\ 2 * (b * r) - 2 * a <= b /\ 2 * a - 2 * (b * r) <= b
<1> DEFINE q == a \div b
<1>1. q \in Nat /\ b * q <= a /\ a < b * q + b BY Divides
<1>2. Report!RoundDiv(a, b) = IF 2 * (a - b * q) < b \/ (2 * (a - b * q) = b /\ q % 2 = 0) THEN q ELSE q + 1
  BY DEF Report!RoundDiv
<1> HIDE DEF q
<1>3. b * (q + 1) = b * q + b BY <1>1
<1>4. b * q \in Nat BY <1>1
<1>5. CASE Report!RoundDiv(a, b) = q
  <2>1. 2 * (a - b * q) <= b BY <1>1, <1>2, <1>4, <1>5
  <2> QED BY <1>1, <1>4, <1>5, <2>1
<1>6. CASE Report!RoundDiv(a, b) = q + 1 /\ ~ 2 * (a - b * q) < b
  <2> QED BY <1>1, <1>3, <1>4, <1>6
<1> QED BY <1>2, <1>5, <1>6

\* Rounding keeps the order: of two different numbers the smaller is never rounded above the other.
LEMMA RoundsUp ==
  ASSUME NEW a \in Nat, NEW d \in Nat, a <= d, NEW b \in Nat, b # 0
  PROVE  Report!RoundDiv(a, b) <= Report!RoundDiv(d, b)
<1> DEFINE r == Report!RoundDiv(a, b)  s == Report!RoundDiv(d, b)
<1>1. /\ r \in Nat /\ 2 * (b * r) - 2 * a <= b
      /\ s \in Nat /\ 2 * d - 2 * (b * s) <= b
  BY Rounds
<1> HIDE DEF r, s
<1>2. CASE a = d BY <1>1, <1>2 DEF r, s
<1>3. CASE a < d
  <2>1. b * r \in Nat /\ b * s \in Nat BY <1>1
  <2>2. 2 * (b * r) - 2 * (b * s) < 2 * b BY <1>1, <1>3, <2>1
  <2>3. b * r < b * s + b BY <2>1, <2>2
  <2>4. ASSUME s < r PROVE FALSE
    <3>1. PICK n \in Nat : r = s + 1 + n BY <1>1, <2>4
    <3>2. b * r = b * s + b + b * n BY <1>1, <3>1
    <3>3. b * n \in Nat BY <3>1
    <3> QED BY <2>1, <2>3, <3>2, <3>3
  <2> QED BY <1>1, <2>4 DEF r, s
<1> QED BY <1>2, <1>3

\* What is added up of rows that are each near their part is near the whole.
LEMMA SumsStayNear ==
  ASSUME NEW K, IsFiniteSet(K), NEW g, \A k \in K : g[k] \in Nat,
         NEW h, \A k \in K : h[k] \in Nat, NEW b \in Nat, NEW c \in Nat,
         \A k \in K : /\ 2 * (b * g[k]) - 2 * (c * h[k]) <= b
                      /\ 2 * (c * h[k]) - 2 * (b * g[k]) <= b
  PROVE  /\ 2 * (b * SumOf(g, K)) - 2 * (c * SumOf(h, K)) <= b * Cardinality(K)
         /\ 2 * (c * SumOf(h, K)) - 2 * (b * SumOf(g, K)) <= b * Cardinality(K)
<1> DEFINE Near(T) == /\ 2 * (b * SumOf(g, T)) - 2 * (c * SumOf(h, T)) <= b * Cardinality(T)
                      /\ 2 * (c * SumOf(h, T)) - 2 * (b * SumOf(g, T)) <= b * Cardinality(T)
           P == {T \in SUBSET K : Near(T)}
<1>1. ASSUME NEW T \in SUBSET K, \A x \in T : T \ {x} \in P PROVE T \in P
  <2>1. CASE T = {}
    <3>1. SumOf(g, T) = 0 /\ SumOf(h, T) = 0 BY <2>1, SumOfNone
    <3>2. Cardinality(T) = 0 BY <2>1, FS_EmptySet
    <3> QED BY <3>1, <3>2
  <2>2. CASE T # {}
    <3>1. PICK x \in T : TRUE BY <2>2
    <3> DEFINE R == T \ {x}
    <3>2. IsFiniteSet(T) /\ IsFiniteSet(R) BY FS_Subset
    <3>3. SumOf(g, T) = g[x] + SumOf(g, R) BY <3>2, SumOfMore
    <3>4. SumOf(h, T) = h[x] + SumOf(h, R) BY <3>2, SumOfMore
    <3>5. SumOf(g, R) \in Nat BY <3>2, UnitsFinite
    <3>6. SumOf(h, R) \in Nat BY <3>2, UnitsFinite
    <3>7. Cardinality(R) = Cardinality(T) - 1 /\ Cardinality(T) \in Nat /\ Cardinality(R) \in Nat
      BY <3>2, FS_RemoveElement, FS_CardinalityType
    <3>8. Near(R) BY <1>1
    <3>9. g[x] \in Nat /\ h[x] \in Nat
          /\ 2 * (b * g[x]) - 2 * (c * h[x]) <= b /\ 2 * (c * h[x]) - 2 * (b * g[x]) <= b
      OBVIOUS
    <3> DEFINE G == SumOf(g, R)  H == SumOf(h, R)  n == Cardinality(R)
    <3>10. G \in Nat /\ H \in Nat /\ n \in Nat BY <3>5, <3>6, <3>7
    <3>11. 2 * (b * G) - 2 * (c * H) <= b * n /\ 2 * (c * H) - 2 * (b * G) <= b * n BY <3>8
    <3>12. Cardinality(T) = n + 1 BY <3>7
    <3> HIDE DEF G, H, n, R
    <3>13. b * (g[x] + G) = b * g[x] + b * G /\ c * (h[x] + H) = c * h[x] + c * H
           /\ b * (n + 1) = b * n + b
      BY <3>9, <3>10
    <3>14. /\ b * g[x] \in Nat /\ b * G \in Nat /\ c * h[x] \in Nat /\ c * H \in Nat /\ b * n \in Nat
      BY <3>9, <3>10
    <3>15. /\ 2 * (b * (g[x] + G)) - 2 * (c * (h[x] + H)) <= b * (n + 1)
           /\ 2 * (c * (h[x] + H)) - 2 * (b * (g[x] + G)) <= b * (n + 1)
      BY <3>9, <3>11, <3>13, <3>14
    <3>16. SumOf(g, T) = g[x] + G /\ SumOf(h, T) = h[x] + H BY <3>3, <3>4 DEF G, H
    <3>17. Near(T) BY <3>12, <3>15, <3>16
    <3> QED BY <3>17
  <2> QED BY <2>1, <2>2
<1> HIDE DEF P
<1>2. K \in P BY <1>1, InductionOnSubsets
<1> QED BY <1>2 DEF P

\* What has a factor in common compares without it.
LEMMA Cancel ==
  ASSUME NEW b \in Nat, b # 0, NEW x \in Int, NEW y \in Int, b * x <= b * y
  PROVE  x <= y
<1> SUFFICES ASSUME y < x PROVE FALSE OBVIOUS
<1>1. PICK n \in Nat : x = y + 1 + n BY x - y - 1 \in Nat
<1>2. b * x = b * y + b + b * n BY <1>1
<1>3. b * n \in Nat /\ b * y \in Int BY <1>1
<1> QED BY <1>2, <1>3

\* Rounded rows add up to the rounded whole, but for half a unit a row and one for the whole; or
\* to m of them, when the whole is rounded to finer units, m of them to a row's.
LEMMA RoundedRows ==
  ASSUME NEW K, IsFiniteSet(K), NEW h, \A k \in K : h[k] \in Nat,
         NEW b \in Nat, b # 0, NEW c \in Nat, NEW m \in Nat,
         NEW g, \A k \in K : g[k] = Report!RoundDiv(c * h[k], b)
  PROVE  /\ SumOf(g, K) \in Nat /\ \A k \in K : g[k] \in Nat
         /\ Report!HalvesApart(m * SumOf(g, K), Report!RoundDiv(m * (c * SumOf(h, K)), b),
                               m * Cardinality(K) + 1)
<1> DEFINE G == SumOf(g, K)  H == SumOf(h, K)  n == Cardinality(K)
           r == Report!RoundDiv(m * (c * H), b)
<1>1. ASSUME NEW k \in K
      PROVE  g[k] \in Nat /\ 2 * (b * g[k]) - 2 * (c * h[k]) <= b
             /\ 2 * (c * h[k]) - 2 * (b * g[k]) <= b
  <2>1. c * h[k] \in Nat OBVIOUS
  <2> QED BY <2>1, Rounds
<1>2. G \in Nat /\ H \in Nat /\ n \in Nat BY <1>1, UnitsFinite, FS_CardinalityType
<1>3. 2 * (b * G) - 2 * (c * H) <= b * n /\ 2 * (c * H) - 2 * (b * G) <= b * n
  BY <1>1, SumsStayNear
<1>4. r \in Nat /\ 2 * (b * r) - 2 * (m * (c * H)) <= b /\ 2 * (m * (c * H)) - 2 * (b * r) <= b
  <2>1. m * (c * H) \in Nat BY <1>2
  <2> QED BY <2>1, Rounds
<1> HIDE DEF G, H, n, r
<1> DEFINE B == b * G  C == c * H  N == b * n
<1>5. B \in Nat /\ C \in Nat /\ N \in Nat BY <1>2
<1>6. 2 * B - 2 * C <= N /\ 2 * C - 2 * B <= N BY <1>3
<1>7. 2 * (m * B) - 2 * (m * C) <= m * N /\ 2 * (m * C) - 2 * (m * B) <= m * N
  <2>1. \A x \in Nat : x \in Nat /\ m * x \in Nat OBVIOUS
  <2>2. PICK u \in Nat : 2 * B - 2 * C + u = N
    <3> HIDE DEF B, C, N
    <3> QED BY <1>5, <1>6, N - (2 * B - 2 * C) \in Nat
  <2>3. PICK v \in Nat : 2 * C - 2 * B + v = N
    <3> HIDE DEF B, C, N
    <3> QED BY <1>5, <1>6, N - (2 * C - 2 * B) \in Nat
  <2> HIDE DEF B, C, N
  <2>4. m * (2 * B - 2 * C + u) = 2 * (m * B) - 2 * (m * C) + m * u
        /\ m * (2 * C - 2 * B + v) = 2 * (m * C) - 2 * (m * B) + m * v
    BY <1>5, <2>2, <2>3
  <2>5. m * u \in Nat /\ m * v \in Nat /\ m * B \in Nat /\ m * C \in Nat BY <1>5, <2>2, <2>3
  <2> QED BY <2>2, <2>3, <2>4, <2>5
<1>8. b * r \in Nat /\ m * B \in Nat /\ m * C \in Nat /\ m * N \in Nat BY <1>4, <1>5
<1>9. 2 * (m * B) - 2 * (b * r) <= m * N + b /\ 2 * (b * r) - 2 * (m * B) <= m * N + b
  <2> HIDE DEF B, N
  <2>1. m * C = m * (c * H) OBVIOUS
  <2> HIDE DEF C
  <2> QED BY <1>4, <1>7, <1>8, <2>1
<1>10. m * B = b * (m * G) /\ m * N = b * (m * n) BY <1>2
<1> HIDE DEF B, C, N
<1>11. m * G \in Nat /\ m * n \in Nat BY <1>2
<1> DEFINE X == m * G  Y == m * n
<1>12. 2 * (b * X) - 2 * (b * r) <= b * Y + b /\ 2 * (b * r) - 2 * (b * X) <= b * Y + b
  BY <1>9, <1>10
<1>13. X \in Nat /\ Y \in Nat BY <1>11
<1> HIDE DEF X, Y
<1>14. b * (2 * (X - r)) = 2 * (b * X) - 2 * (b * r) /\ b * (2 * (r - X)) = 2 * (b * r) - 2 * (b * X)
       /\ b * (Y + 1) = b * Y + b
  BY <1>4, <1>13
<1>15. b * (2 * (X - r)) <= b * (Y + 1) /\ b * (2 * (r - X)) <= b * (Y + 1)
  BY <1>12, <1>14
<1>16. 2 * (X - r) <= Y + 1 /\ 2 * (r - X) <= Y + 1
  <2>1. 2 * (X - r) \in Int /\ 2 * (r - X) \in Int /\ Y + 1 \in Int BY <1>4, <1>13
  <2> QED BY <1>15, <2>1, Cancel
<1>17. Report!HalvesApart(X, r, Y + 1) BY <1>16 DEF Report!HalvesApart
<1> QED BY <1>1, <1>2, <1>17 DEF X, Y, G, H, n, r

\* What is added up over a part of a table.
PartSum(f, T) == Report!SumFunction([x \in T |-> f[x]])

\* A column of a report whose parts are added up and then rounded.
LEMMA ColumnRounds ==
  ASSUME NEW S, IsFiniteSet(S), NEW f, \A x \in S : f[x] \in Nat,
         NEW K, IsFiniteSet(K), NEW key, \A x \in S : key[x] \in K,
         NEW b \in Nat, b # 0, NEW c \in Nat, NEW m \in Nat, NEW g, DOMAIN g = K,
         \A k \in K : g[k] = Report!RoundDiv(c * PartSum(f, Having(key, k, S)), b)
  PROVE  Report!HalvesApart(m * Report!SumFunction(g),
           Report!RoundDiv(m * (c * PartSum(f, S)), b), m * Cardinality(K) + 1)
<1> DEFINE h == [k \in K |-> SumOf(f, Having(key, k, S))]
<1>1. ASSUME NEW T \in SUBSET S
      PROVE  PartSum(f, T) = SumOf(f, T) /\ SumOf(f, T) \in Nat
  <2> DEFINE t == [x \in T |-> f[x]]
  <2>1. IsFiniteSet(T) /\ DOMAIN t = T /\ \A x \in T : t[x] = f[x] /\ f[x] \in Nat
    BY FS_Subset
  <2> HIDE DEF t
  <2>2. Report!SumFunction(t) = SumOf(t, T) BY <2>1, SumFunctionIs
  <2>3. SumOf(t, T) = SumOf(f, T) BY <2>1, SumOfSame
  <2>4. SumOf(f, T) \in Nat BY <2>1, UnitsFinite
  <2> QED BY <2>2, <2>3, <2>4 DEF t, PartSum
<1>2. \A k \in K : Having(key, k, S) \in SUBSET S BY DEF Having
<1>3. \A k \in K : h[k] \in Nat /\ h[k] = SumOf(f, Having(key, k, S))
                   /\ g[k] = Report!RoundDiv(c * h[k], b)
  BY <1>1, <1>2
<1> HIDE DEF h
<1>4. SumOf(h, K) = SumOf(f, S) BY <1>3, SumOfParts
<1>5. /\ SumOf(g, K) \in Nat /\ \A k \in K : g[k] \in Nat
      /\ Report!HalvesApart(m * SumOf(g, K), Report!RoundDiv(m * (c * SumOf(h, K)), b),
                            m * Cardinality(K) + 1)
  BY <1>3, RoundedRows
<1>6. Report!SumFunction(g) = SumOf(g, K) BY <1>5, SumFunctionIs
<1>7. PartSum(f, S) = SumOf(f, S) BY <1>1
<1> QED BY <1>4, <1>5, <1>6, <1>7

LEMMA PartsAddUp ==
  ASSUME NEW T, IsFiniteSet(T), NEW f, \A x \in T : f[x] \in Nat
  PROVE  PartSum(f, T) \in Nat
<1> DEFINE t == [x \in T |-> f[x]]
<1>1. DOMAIN t = T /\ \A x \in T : t[x] \in Nat OBVIOUS
<1> HIDE DEF t
<1>2. Report!SumFunction(t) = SumOf(t, T) BY <1>1, SumFunctionIs
<1>3. SumOf(t, T) \in Nat BY <1>1, UnitsFinite
<1> QED BY <1>2, <1>3 DEF t, PartSum

LEMMA ColumnAddsUp ==
  ASSUME NEW S, IsFiniteSet(S), NEW f, \A x \in S : f[x] \in Nat,
         NEW K, IsFiniteSet(K), NEW key,
         NEW b \in Nat, b # 0, NEW c \in Nat, NEW g, DOMAIN g = K,
         \A k \in K : g[k] = Report!RoundDiv(c * PartSum(f, Having(key, k, S)), b)
  PROVE  Report!SumFunction(g) \in Nat /\ PartSum(f, S) \in Nat
<1>1. ASSUME NEW T \in SUBSET S PROVE PartSum(f, T) \in Nat
  BY FS_Subset, PartsAddUp
<1>2. ASSUME NEW k \in K PROVE g[k] \in Nat
  <2>1. Having(key, k, S) \in SUBSET S BY DEF Having
  <2> DEFINE n == PartSum(f, Having(key, k, S))
  <2>2. n \in Nat BY <1>1, <2>1
  <2>3. g[k] = Report!RoundDiv(c * n, b) OBVIOUS
  <2> HIDE DEF n
  <2>4. c * n \in Nat BY <2>2
  <2> QED BY <2>3, <2>4, Rounds
<1>3. Report!SumFunction(g) = SumOf(g, K) BY <1>2, SumFunctionIs
<1>4. SumOf(g, K) \in Nat BY <1>2, UnitsFinite
<1> QED BY <1>1, <1>3, <1>4

\* Every job of a table, and every part of one, can be added up.
LEMMA JobsAddUp ==
  ASSUME Report!ReportsAssumption, NEW j \in Report!Jobs
  PROVE  /\ Report!Dur(j) \in Nat /\ Report!Fil(j) \in Nat /\ Report!Cost(j) \in Nat
         /\ j.actual_duration \in Nat
<1>1. Report!Dur(j) \in Nat /\ Report!Fil(j) \in Nat /\ j.actual_duration \in Nat
  BY DEF Report!Jobs, Report!Dur, Report!Fil
<1>2. ASSUME NEW n \in Nat PROVE Report!calculate_print_cost(n) \in Nat
  <2>1. 60 * Grain \in Nat /\ 60 * Grain # 0 BY DEF Report!ReportsAssumption
  <2> DEFINE hour == 60 * Grain
  <2> HIDE DEF hour
  <2>2. hour \in Nat /\ hour # 0 BY <2>1 DEF hour
  <2>3. CASE n > hour
    <3>1. 50 * (n - hour) \in Nat BY <2>2, <2>3
    <3>2. Report!RoundDiv(50 * (n - hour), hour) \in Nat BY <2>2, <3>1, Rounds
    <3> QED BY <2>2, <2>3, <3>2 DEF Report!calculate_print_cost, hour
  <2>4. CASE n <= hour BY <2>2, <2>4 DEF Report!calculate_print_cost, hour
  <2> QED BY <2>2, <2>3, <2>4
<1> QED BY <1>1, <1>2 DEF Report!Cost

\* A part of a table and what is added up over it.
LEMMA PartIs ==
  ASSUME NEW S, IsFiniteSet(S), S \subseteq Report!Jobs, NEW T \in SUBSET S
  PROVE  /\ IsFiniteSet(T) /\ T \subseteq Report!Jobs
         /\ Report!Total(T, Report!Fil) = Report!SumFunction([j \in T |-> [x \in S |-> Report!Fil(x)][j]])
         /\ Report!Total(T, Report!Dur) = Report!SumFunction([j \in T |-> [x \in S |-> Report!Dur(x)][j]])
         /\ Report!Total(T, Report!Cost) = Report!SumFunction([j \in T |-> [x \in S |-> Report!Cost(x)][j]])
<1>1. IsFiniteSet(T) BY FS_Subset
<1>2. [j \in T |-> Report!Fil(j)] = [j \in T |-> [x \in S |-> Report!Fil(x)][j]] OBVIOUS
<1>3. [j \in T |-> Report!Cost(j)] = [j \in T |-> [x \in S |-> Report!Cost(x)][j]] OBVIOUS
<1>4. [j \in T |-> Report!Dur(j)] = [j \in T |-> [x \in S |-> Report!Dur(x)][j]] OBVIOUS
<1> QED BY <1>1, <1>2, <1>3, <1>4 DEF Report!Total

\* Two kinds without a common job: how many there are of either.
LEMMA TwoKinds ==
  ASSUME NEW S, IsFiniteSet(S), NEW A, NEW B, A \cap B = {}
  PROVE  Cardinality(S \cap A) + Cardinality(S \cap B) = Cardinality(S \cap (A \cup B))
<1> DEFINE SA == S \cap A  SB == S \cap B
<1>1. IsFiniteSet(SA) /\ IsFiniteSet(SB) BY FS_Subset
<1>2. S \cap (A \cup B) = SA \cup SB /\ SA \cap SB = {} OBVIOUS
<1>3. Cardinality(SA) \in Nat /\ Cardinality(SB) \in Nat BY <1>1, FS_CardinalityType
<1> HIDE DEF SA, SB
<1>4. Cardinality(SA \cup SB) = Cardinality(SA) + Cardinality(SB) - Cardinality(SA \cap SB)
  BY <1>1, FS_Union
<1>5. Cardinality(SA \cap SB) = 0 BY <1>2, FS_EmptySet
<1>6. Cardinality(SA \cup SB) = Cardinality(SA) + Cardinality(SB) BY <1>3, <1>4, <1>5
<1> QED BY <1>2, <1>6 DEF SA, SB

Done == {j \in Report!Jobs : j.status \in Report!_COMPLETED}
Failed == {j \in Report!Jobs : j.status = "failed"}

LEMMA DoneIs ==
  ASSUME NEW S, IsFiniteSet(S), S \subseteq Report!Jobs
  PROVE  /\ Report!Cardinality(Report!With(S, Report!_COMPLETED)) = Cardinality(S \cap Done)
         /\ Report!Cardinality(Report!With(S, {"failed"})) = Cardinality(S \cap Failed)
         /\ Report!Cardinality(Report!With(S, Report!_COMPLETED))
              + Report!Cardinality(Report!With(S, {"failed"}))
              = Cardinality(S \cap (Done \cup Failed))
<1>1. Report!With(S, Report!_COMPLETED) = S \cap Done BY DEF Report!With, Done
<1>2. Report!With(S, {"failed"}) = S \cap Failed BY DEF Report!With, Failed
<1>3. Done \cap Failed = {} BY DEF Done, Failed, Report!_COMPLETED
<1> HIDE DEF Done, Failed
<1>4. Cardinality(S \cap Done) + Cardinality(S \cap Failed) = Cardinality(S \cap (Done \cup Failed))
  BY <1>3, TwoKinds
<1> QED BY <1>1, <1>2, <1>4, ReportCounts

\* A report with a row for every part: its columns add up to the whole.
LEMMA RowsAddUp ==
  ASSUME Report!ReportsAssumption, NEW S, IsFiniteSet(S), S \subseteq Report!Jobs,
         NEW K, IsFiniteSet(K), NEW key, \A j \in S : key[j] \in K,
         NEW report, DOMAIN report = K,
         \A k \in K : report[k] = Report!Row(Having(key, k, S))
  PROVE  /\ Report!SumOver(report, Report!RowTotal) = Report!Cardinality(S)
         /\ Report!HalvesApart(Report!SumOver(report, Report!RowFilament), Report!Grams(S),
                               Cardinality(DOMAIN report) + 1)
         /\ Report!HalvesApart(Report!SumOver(report, Report!RowHours), Report!Hours(S),
                               Cardinality(DOMAIN report) + 1)
         /\ Report!SumOver(report, Report!RowDone) =
              Report!Cardinality(Report!With(S, Report!_COMPLETED))
                + Report!Cardinality(Report!With(S, {"failed"}))
<1> DEFINE fil == [x \in S |-> Report!Fil(x)]
           dur == [x \in S |-> Report!Dur(x)]
<1>1. ASSUME NEW k \in K
      PROVE  /\ report[k].total_jobs = Cardinality(Having(key, k, S))
             /\ report[k].filament =
                  Report!RoundDiv(100 * PartSum(fil, Having(key, k, S)), Grain)
             /\ report[k].hours =
                  Report!RoundDiv(100 * PartSum(dur, Having(key, k, S)), 60 * Grain)
             /\ report[k].completed_jobs + report[k].failed_jobs =
                  Cardinality(Having(key, k, S) \cap (Done \cup Failed))
  <2> DEFINE T == Having(key, k, S)
  <2>1. T \in SUBSET S BY DEF Having
  <2>2. report[k] = Report!Row(T) OBVIOUS
  <2> HIDE DEF T
  <2>3. IsFiniteSet(T) /\ T \subseteq Report!Jobs
        /\ Report!Total(T, Report!Fil) = PartSum(fil, T)
        /\ Report!Total(T, Report!Dur) = PartSum(dur, T)
    BY <2>1, PartIs DEF PartSum
  <2>4. report[k].total_jobs = Cardinality(T) BY <2>2, ReportCounts DEF Report!Row
  <2>5. /\ report[k].filament =
            Report!RoundDiv(100 * PartSum(fil, T), Grain)
        /\ report[k].hours =
            Report!RoundDiv(100 * PartSum(dur, T), 60 * Grain)
    BY <2>2, <2>3 DEF Report!Row, Report!Grams, Report!Hours
  <2>6. report[k].completed_jobs + report[k].failed_jobs = Cardinality(T \cap (Done \cup Failed))
    <3>1. Report!Cardinality(Report!With(T, Report!_COMPLETED))
           + Report!Cardinality(Report!With(T, {"failed"})) = Cardinality(T \cap (Done \cup Failed))
      BY <2>3, DoneIs
    <3>2. report[k].completed_jobs = Report!Cardinality(Report!With(T, Report!_COMPLETED))
          /\ report[k].failed_jobs = Report!Cardinality(Report!With(T, {"failed"}))
      BY <2>2 DEF Report!Row
    <3> QED BY <3>1, <3>2
  <2> QED BY <2>4, <2>5, <2>6 DEF T
<1>2. Report!SumOver(report, Report!RowTotal) = Report!Cardinality(S)
  <2> DEFINE g == [k \in K |-> report[k].total_jobs]
  <2>1. Report!SumOver(report, Report!RowTotal) = Report!SumFunction(g)
    BY DEF Report!SumOver, Report!Total, Report!RowTotal
  <2>2. \A k \in K : Having(key, k, S) \cap S = Having(key, k, S) BY DEF Having
  <2>3. DOMAIN g = K /\ \A k \in K : g[k] = Count(Having(key, k, S), S) BY <1>1, <2>2 DEF Count
  <2>4. S \cap S = S OBVIOUS
  <2> HIDE DEF g, fil
  <2>5. Report!SumFunction(g) = Count(S, S) BY <2>3, CountOfParts
  <2> QED BY <2>1, <2>4, <2>5, ReportCounts DEF Count
<1>3. Report!HalvesApart(Report!SumOver(report, Report!RowFilament), Report!Grams(S),
                         Cardinality(DOMAIN report) + 1)
  <2> DEFINE g == [k \in K |-> report[k].filament]
  <2>1. Report!SumOver(report, Report!RowFilament) = Report!SumFunction(g)
    BY DEF Report!SumOver, Report!Total, Report!RowFilament
  <2>2. DOMAIN g = K
        /\ \A k \in K : g[k] = Report!RoundDiv(
              100 * PartSum(fil, Having(key, k, S)), Grain)
    BY <1>1
  <2>3. \A x \in S : fil[x] \in Nat BY JobsAddUp
  <2>4. Report!Total(S, Report!Fil) = PartSum(fil, S) BY PartIs DEF PartSum
  <2>5. Grain \in Nat /\ Grain # 0 BY DEF Report!ReportsAssumption
  <2> DEFINE b == Grain
  <2> HIDE DEF fil, g, b
  <2>6. Report!HalvesApart(1 * Report!SumFunction(g),
          Report!RoundDiv(1 * (100 * PartSum(fil, S)), b),
          1 * Cardinality(K) + 1)
    <3>1. b \in Nat /\ b # 0 BY <2>5 DEF b
    <3>2. \A k \in K : g[k] = Report!RoundDiv(
              100 * PartSum(fil, Having(key, k, S)), b)
      BY <2>2 DEF b
    <3>3. 1 \in Nat /\ 100 \in Nat OBVIOUS
    <3>4. DOMAIN g = K BY <2>2
    <3> QED BY <2>3, <3>1, <3>2, <3>3, <3>4, ColumnRounds
  <2>7. /\ Report!SumFunction(g) \in Nat /\ PartSum(fil, S) \in Nat
        /\ Cardinality(K) \in Nat
    <3>1. b \in Nat /\ b # 0 /\ 100 \in Nat BY <2>5 DEF b
    <3>2. \A k \in K : g[k] = Report!RoundDiv(100 * PartSum(fil, Having(key, k, S)), b)
      BY <2>2 DEF b
    <3>3. DOMAIN g = K BY <2>2
    <3>4. Report!SumFunction(g) \in Nat /\ PartSum(fil, S) \in Nat
      BY <2>3, <3>1, <3>2, <3>3, ColumnAddsUp
    <3> QED BY <3>4, FS_CardinalityType
  <2>8. 1 * Report!SumFunction(g) = Report!SumFunction(g) /\ 1 * Cardinality(K) = Cardinality(K)
        /\ 1 * (100 * PartSum(fil, S))
             = 100 * PartSum(fil, S)
    BY <2>7
  <2>9. Report!Grams(S) = Report!RoundDiv(100 * PartSum(fil, S), b)
    BY <2>4 DEF Report!Grams, b
  <2> QED BY <2>1, <2>6, <2>8, <2>9
<1>5. Report!HalvesApart(Report!SumOver(report, Report!RowHours), Report!Hours(S),
                         Cardinality(DOMAIN report) + 1)
  <2> DEFINE g == [k \in K |-> report[k].hours]
  <2>1. Report!SumOver(report, Report!RowHours) = Report!SumFunction(g)
    BY DEF Report!SumOver, Report!Total, Report!RowHours
  <2>2. DOMAIN g = K
        /\ \A k \in K : g[k] = Report!RoundDiv(
              100 * PartSum(dur, Having(key, k, S)), (60 * Grain))
    BY <1>1
  <2>3. \A x \in S : dur[x] \in Nat BY JobsAddUp
  <2>4. Report!Total(S, Report!Dur) = PartSum(dur, S) BY PartIs DEF PartSum
  <2>5. (60 * Grain) \in Nat /\ (60 * Grain) # 0 BY DEF Report!ReportsAssumption
  <2> DEFINE b == (60 * Grain)
  <2> HIDE DEF dur, g, b
  <2>6. Report!HalvesApart(1 * Report!SumFunction(g),
          Report!RoundDiv(1 * (100 * PartSum(dur, S)), b),
          1 * Cardinality(K) + 1)
    <3>1. b \in Nat /\ b # 0 BY <2>5 DEF b
    <3>2. \A k \in K : g[k] = Report!RoundDiv(
              100 * PartSum(dur, Having(key, k, S)), b)
      BY <2>2 DEF b
    <3>3. 1 \in Nat /\ 100 \in Nat OBVIOUS
    <3>4. DOMAIN g = K BY <2>2
    <3> QED BY <2>3, <3>1, <3>2, <3>3, <3>4, ColumnRounds
  <2>7. /\ Report!SumFunction(g) \in Nat /\ PartSum(dur, S) \in Nat
        /\ Cardinality(K) \in Nat
    <3>1. b \in Nat /\ b # 0 /\ 100 \in Nat BY <2>5 DEF b
    <3>2. \A k \in K : g[k] = Report!RoundDiv(100 * PartSum(dur, Having(key, k, S)), b)
      BY <2>2 DEF b
    <3>3. DOMAIN g = K BY <2>2
    <3>4. Report!SumFunction(g) \in Nat /\ PartSum(dur, S) \in Nat
      BY <2>3, <3>1, <3>2, <3>3, ColumnAddsUp
    <3> QED BY <3>4, FS_CardinalityType
  <2>8. 1 * Report!SumFunction(g) = Report!SumFunction(g) /\ 1 * Cardinality(K) = Cardinality(K)
        /\ 1 * (100 * PartSum(dur, S))
             = 100 * PartSum(dur, S)
    BY <2>7
  <2>9. Report!Hours(S) = Report!RoundDiv(100 * PartSum(dur, S), b)
    BY <2>4 DEF Report!Hours, b
  <2> QED BY <2>1, <2>6, <2>8, <2>9
<1>4. Report!SumOver(report, Report!RowDone) = Cardinality(S \cap (Done \cup Failed))
  <2> DEFINE g == [k \in K |-> report[k].completed_jobs + report[k].failed_jobs]
  <2>1. Report!SumOver(report, Report!RowDone) = Report!SumFunction(g)
    BY DEF Report!SumOver, Report!Total, Report!RowDone
  <2>2. DOMAIN g = K /\ \A k \in K : g[k] = Cardinality(Having(key, k, S) \cap (Done \cup Failed))
    BY <1>1
  <2> DEFINE Q == Done \cup Failed
  <2>3. \A k \in K : g[k] = Count(Having(key, k, S), Q) BY <2>2 DEF Count
  <2>4. DOMAIN g = K OBVIOUS
  <2> HIDE DEF g, fil, Q
  <2>5. Report!SumFunction(g) = Count(S, Q) BY <2>3, <2>4, CountOfParts
  <2> QED BY <2>1, <2>5 DEF Q, Count
<1> QED BY <1>2, <1>3, <1>4, <1>5, DoneIs


PageOf(f) ==
  [filter |-> f,
   usage |-> Report!get_overall_usage(f), printers |-> Report!get_printer_report(f),
   materials |-> Report!get_material_report(f), users |-> Report!get_user_report(f),
   departments |-> Report!get_department_report(f),
   statistics |-> Report!get_farm_statistics,
   history |-> [u \in Submitters |-> Report!get_print_history(u, TRUE)]]

\* What the page shows is of the table as it is.
ReportIInv ==
  /\ table \in Tables
  /\ answers = [filter |-> None] \/ \E f \in Filters : answers = PageOf(f)

LEMMA TableIs ==
  ASSUME Report!ReportsAssumption, table \in Tables
  PROVE  /\ IsFiniteSet(table) /\ table \subseteq Report!Jobs
         /\ \A f : Report!Selected(f) \in SUBSET table /\ IsFiniteSet(Report!Selected(f))
                  /\ Report!Selected(f) \subseteq Report!Jobs
<1>1. IsFiniteSet(table) /\ table \subseteq Report!Jobs
  BY ReportFinite DEF Report!ReportsAssumption
<1>2. \A f : Report!Selected(f) \in SUBSET table BY DEF Report!Selected
<1>3. \A f : IsFiniteSet(Report!Selected(f)) BY <1>1, <1>2, FS_Subset
<1> QED BY <1>1, <1>2, <1>3

LEMMA RowsOfUsers ==
  ASSUME Report!ReportsAssumption, NEW S, IsFiniteSet(S), S \subseteq Report!Jobs,
         NEW report, DOMAIN report = {j.user : j \in S},
         \A u \in DOMAIN report : report[u] = Report!Row({j \in S : j.user = u})
  PROVE  /\ Report!SumOver(report, Report!RowTotal) = Report!Cardinality(S)
         /\ Report!HalvesApart(Report!SumOver(report, Report!RowFilament), Report!Grams(S),
                               Cardinality(DOMAIN report) + 1)
         /\ Report!HalvesApart(Report!SumOver(report, Report!RowHours), Report!Hours(S),
                               Cardinality(DOMAIN report) + 1)
         /\ Report!SumOver(report, Report!RowDone) =
              Report!Cardinality(Report!With(S, Report!_COMPLETED))
                + Report!Cardinality(Report!With(S, {"failed"}))
<1> DEFINE key == [j \in S |-> j.user]
           K == {key[j] : j \in S}
<1>1. \A j \in S : key[j] \in K OBVIOUS
<1>2. IsFiniteSet(K)
  <2> HIDE DEF key
  <2> QED BY ImageIsFinite
<1>3. DOMAIN report = K OBVIOUS
<1>4. \A k \in K : report[k] = Report!Row(Having(key, k, S))
  <2>1. \A k : {j \in S : j.user = k} = Having(key, k, S) BY DEF Having
  <2> QED BY <1>3, <2>1
<1> HIDE DEF key, K
<1> QED BY <1>1, <1>2, <1>3, <1>4, RowsAddUp

LEMMA RowsOfDepartments ==
  ASSUME Report!ReportsAssumption, NEW S, IsFiniteSet(S), S \subseteq Report!Jobs,
         NEW report, DOMAIN report = {Report!DepartmentOf(j) : j \in S},
         \A d \in DOMAIN report : report[d] = Report!Row({j \in S : Report!DepartmentOf(j) = d})
  PROVE  /\ Report!SumOver(report, Report!RowTotal) = Report!Cardinality(S)
         /\ Report!HalvesApart(Report!SumOver(report, Report!RowFilament), Report!Grams(S),
                               Cardinality(DOMAIN report) + 1)
         /\ Report!HalvesApart(Report!SumOver(report, Report!RowHours), Report!Hours(S),
                               Cardinality(DOMAIN report) + 1)
         /\ Report!SumOver(report, Report!RowDone) =
              Report!Cardinality(Report!With(S, Report!_COMPLETED))
                + Report!Cardinality(Report!With(S, {"failed"}))
<1> DEFINE key == [j \in S |-> Report!DepartmentOf(j)]
           K == {key[j] : j \in S}
<1>1. \A j \in S : key[j] \in K OBVIOUS
<1>2. IsFiniteSet(K)
  <2> HIDE DEF key
  <2> QED BY ImageIsFinite
<1>3. DOMAIN report = K OBVIOUS
<1>4. \A k \in K : report[k] = Report!Row(Having(key, k, S))
  <2>1. \A k : {j \in S : Report!DepartmentOf(j) = k} = Having(key, k, S) BY DEF Having
  <2> QED BY <1>3, <2>1
<1> HIDE DEF key, K
<1> QED BY <1>1, <1>2, <1>3, <1>4, RowsAddUp

LEMMA RowCounts == \A A : Report!Row(A).total_jobs = Cardinality(A)
BY ReportCounts DEF Report!Row

\* The printers' rows have the jobs that have a printer.
LEMMA RowsOfPrinters ==
  ASSUME Report!ReportsAssumption, NEW S, IsFiniteSet(S), S \subseteq Report!Jobs,
         NEW report, DOMAIN report = Machines,
         \A p \in Machines : report[p].row = Report!Row({j \in S : j.printer = p})
  PROVE  Report!SumOver(report, LAMBDA r : r.row.total_jobs)
           + Report!Cardinality({j \in S : j.printer = None}) = Report!Cardinality(S)
<1> DEFINE T == {j \in S : j.printer \in Machines}
           N == {j \in S : j.printer = None}
           key == [j \in T |-> j.printer]
           g == [p \in Machines |-> report[p].row.total_jobs]
<1>1. Report!SumOver(report, LAMBDA r : r.row.total_jobs) = Report!SumFunction(g)
  BY DEF Report!SumOver, Report!Total
<1>2. DOMAIN g = Machines /\ IsFiniteSet(Machines) /\ IsFiniteSet(T) /\ IsFiniteSet(N)
      /\ \A j \in T : key[j] \in Machines
  BY FS_Subset, ReportFinite DEF Report!ReportsAssumption
<1>3. ASSUME NEW p \in Machines PROVE g[p] = Count(Having(key, p, T), T)
  <2>1. {j \in S : j.printer = p} = Having(key, p, T) \cap T BY DEF Having
  <2>2. g[p] = Cardinality({j \in S : j.printer = p}) BY RowCounts
  <2> QED BY <2>1, <2>2 DEF Count
<1>4. S = T \cup N /\ T \cap N = {}
  BY DEF Report!Jobs, Report!ReportsAssumption
<1> HIDE DEF g, key, T
<1>5. Report!SumFunction(g) = Count(T, T) BY <1>2, <1>3, CountOfParts
<1>6. T \cap T = T OBVIOUS
<1>7. Report!SumFunction(g) = Cardinality(T) BY <1>5, <1>6 DEF Count
<1>8. Cardinality(T) \in Nat /\ Cardinality(N) \in Nat /\ Cardinality(T \cap N) = 0
  BY <1>2, <1>4, FS_CardinalityType, FS_EmptySet
<1>9. Cardinality(T \cup N) = Cardinality(T) + Cardinality(N) - Cardinality(T \cap N)
  BY <1>2, FS_Union
<1>10. Cardinality(T \cup N) = Cardinality(T) + Cardinality(N) BY <1>8, <1>9
<1> QED BY <1>1, <1>4, <1>7, <1>10, ReportCounts

LEMMA TabsDoAgree ==
  ASSUME Report!ReportsAssumption, table \in Tables, NEW f \in Filters, answers = PageOf(f)
  PROVE  Report!TabsAgree
<1> DEFINE S == Report!Selected(f)
<1>1. IsFiniteSet(S) /\ S \subseteq Report!Jobs BY TableIs
<1>2. /\ answers.usage = Report!get_overall_usage(f) /\ answers.users = Report!get_user_report(f)
      /\ answers.departments = Report!get_department_report(f)
      /\ answers.printers = Report!get_printer_report(f) /\ answers.filter = f
  BY DEF PageOf
<1>3. /\ answers.usage.total_jobs = Report!Cardinality(S)
      /\ answers.usage.filament = Report!Grams(S) /\ answers.usage.hours = Report!Hours(S)
      /\ answers.usage.completed_jobs = Report!Cardinality(Report!With(S, Report!_COMPLETED))
      /\ answers.usage.failed_jobs = Report!Cardinality(Report!With(S, {"failed"}))
  BY <1>2 DEF Report!get_overall_usage
<1>4. /\ DOMAIN answers.users = {j.user : j \in S}
      /\ \A u \in DOMAIN answers.users : answers.users[u] = Report!Row({j \in S : j.user = u})
  BY <1>2 DEF Report!get_user_report
<1>5. /\ DOMAIN answers.departments = {Report!DepartmentOf(j) : j \in S}
      /\ \A d \in DOMAIN answers.departments :
           answers.departments[d] = Report!Row({j \in S : Report!DepartmentOf(j) = d})
  BY <1>2 DEF Report!get_department_report
<1>6. DOMAIN answers.printers = Machines
      /\ \A p \in Machines : answers.printers[p].row = Report!Row({j \in S : j.printer = p})
  BY <1>2 DEF Report!get_printer_report
<1>7. Report!Selected(answers.filter) = S BY <1>2
<1> HIDE DEF S
<1>8. Report!SumOver(answers.printers, LAMBDA r : r.row.total_jobs)
        + Report!Cardinality({j \in S : j.printer = None}) = answers.usage.total_jobs
  BY <1>1, <1>3, <1>6, RowsOfPrinters
<1>9. ASSUME NEW report \in {answers.users, answers.departments}
      PROVE  /\ Report!SumOver(report, Report!RowTotal) = answers.usage.total_jobs
             /\ Report!HalvesApart(Report!SumOver(report, Report!RowFilament), answers.usage.filament,
                                   Cardinality(DOMAIN report) + 1)
             /\ Report!HalvesApart(Report!SumOver(report, Report!RowHours), answers.usage.hours,
                                   Cardinality(DOMAIN report) + 1)
             /\ Report!SumOver(report, Report!RowDone)
                  = answers.usage.completed_jobs + answers.usage.failed_jobs
  <2>1. CASE report = answers.users
    <3>1. /\ DOMAIN report = {j.user : j \in S}
          /\ \A u \in DOMAIN report : report[u] = Report!Row({j \in S : j.user = u})
      BY <1>4, <2>1
    <3>2. /\ Report!SumOver(report, Report!RowTotal) = Report!Cardinality(S)
          /\ Report!HalvesApart(Report!SumOver(report, Report!RowFilament), Report!Grams(S),
                                Cardinality(DOMAIN report) + 1)
          /\ Report!HalvesApart(Report!SumOver(report, Report!RowHours), Report!Hours(S),
                                Cardinality(DOMAIN report) + 1)
          /\ Report!SumOver(report, Report!RowDone) =
               Report!Cardinality(Report!With(S, Report!_COMPLETED))
                 + Report!Cardinality(Report!With(S, {"failed"}))
      BY <1>1, <3>1, RowsOfUsers
    <3> QED BY <1>3, <3>2
  <2>2. CASE report = answers.departments
    <3>1. /\ DOMAIN report = {Report!DepartmentOf(j) : j \in S}
          /\ \A d \in DOMAIN report : report[d] = Report!Row({j \in S : Report!DepartmentOf(j) = d})
      BY <1>5, <2>2
    <3>2. /\ Report!SumOver(report, Report!RowTotal) = Report!Cardinality(S)
          /\ Report!HalvesApart(Report!SumOver(report, Report!RowFilament), Report!Grams(S),
                                Cardinality(DOMAIN report) + 1)
          /\ Report!HalvesApart(Report!SumOver(report, Report!RowHours), Report!Hours(S),
                                Cardinality(DOMAIN report) + 1)
          /\ Report!SumOver(report, Report!RowDone) =
               Report!Cardinality(Report!With(S, Report!_COMPLETED))
                 + Report!Cardinality(Report!With(S, {"failed"}))
      BY <1>1, <3>1, RowsOfDepartments
    <3> QED BY <1>3, <3>2
  <2> QED BY <2>1, <2>2
<1> QED BY <1>7, <1>8, <1>9, ReportCounts DEF Report!TabsAgree


\* What is counted by a key.
LEMMA CountsAddUp ==
  ASSUME NEW S, IsFiniteSet(S), NEW K, IsFiniteSet(K), NEW key, \A j \in S : key[j] \in K,
         NEW g, DOMAIN g = K, \A k \in K : g[k] = Cardinality(Having(key, k, S))
  PROVE  Report!SumFunction(g) = Cardinality(S)
<1>1. \A k \in K : Having(key, k, S) \cap S = Having(key, k, S) BY DEF Having
<1>2. \A k \in K : g[k] = Count(Having(key, k, S), S) BY <1>1 DEF Count
<1>3. Report!SumFunction(g) = Count(S, S) BY <1>2, CountOfParts
<1>4. S \cap S = S OBVIOUS
<1> QED BY <1>3, <1>4 DEF Count

\* SumOver of what is not a record sums the function itself.
LEMMA SumOverItself ==
  ASSUME NEW g
  PROVE  Report!SumOver(g, LAMBDA n : n) = Report!SumFunction([k \in DOMAIN g |-> g[k]])
BY DEF Report!SumOver, Report!Total

\* The jobs of a label are those of the card with its name.
LEMMA LabelsAreCards ==
  ASSUME NEW S, S \subseteq Report!Jobs
  PROVE  /\ {j \in S : Report!Label(j.status) = "completed"} = Report!With(S, Report!_COMPLETED)
         /\ {j \in S : Report!Label(j.status) = "active"} = Report!With(S, Report!_ACTIVE)
         /\ {j \in S : Report!Label(j.status) = "cancelled"} = Report!With(S, Report!_CANCELLED)
         /\ {j \in S : Report!Label(j.status) = "failed"} = Report!With(S, {"failed"})
<1>1. \A s \in Report!Statuses :
        /\ Report!Label(s) = "completed" <=> s \in Report!_COMPLETED
        /\ Report!Label(s) = "active" <=> s \in Report!_ACTIVE
        /\ Report!Label(s) = "cancelled" <=> s \in Report!_CANCELLED
        /\ Report!Label(s) = "failed" <=> s \in {"failed"}
  BY DEF Report!Statuses, Report!Label, Report!_COMPLETED, Report!_ACTIVE, Report!_CANCELLED
<1>2. \A j \in S : j.status \in Report!Statuses BY DEF Report!Jobs
<1> QED BY <1>1, <1>2 DEF Report!With

LEMMA ChartsDoAgree ==
  ASSUME Report!ReportsAssumption, table \in Tables, NEW f \in Filters, answers = PageOf(f)
  PROVE  Report!ChartsAgree
<1> DEFINE S == Report!Selected(f)
           all == answers.usage
           day == [j \in S |-> j.day]
           D == {day[j] : j \in S}
           label == [j \in S |-> Report!Label(j.status)]
           L == {label[j] : j \in S}
           fil == [x \in S |-> Report!Fil(x)]
           Slice(l) == IF l \in DOMAIN all.breakdown THEN all.breakdown[l] ELSE 0
<1>1. IsFiniteSet(S) /\ S \subseteq Report!Jobs BY TableIs
<1>2. all = Report!get_overall_usage(f) /\ answers.materials = Report!get_material_report(f)
  BY DEF PageOf
<1>3. /\ all.total_jobs = Cardinality(S)
      /\ all.filament = Report!Grams(S)
      /\ all.completed_jobs = Cardinality(Report!With(S, Report!_COMPLETED))
      /\ all.failed_jobs = Cardinality(Report!With(S, {"failed"}))
      /\ all.cancelled_jobs = Cardinality(Report!With(S, Report!_CANCELLED))
      /\ all.active_queued_jobs = Cardinality(Report!With(S, Report!_ACTIVE))
  BY <1>2, ReportCounts DEF Report!get_overall_usage
<1>4. DOMAIN all.jobs_over_time = D
      /\ \A d \in D : all.jobs_over_time[d] = Cardinality({j \in S : j.day = d})
  BY <1>2, ReportCounts DEF Report!get_overall_usage, Report!Days
<1>5. DOMAIN all.breakdown = L
      /\ \A l \in L : all.breakdown[l] = Cardinality({j \in S : Report!Label(j.status) = l})
  BY <1>2, ReportCounts DEF Report!get_overall_usage
<1>6. DOMAIN answers.materials.over_time = D
      /\ \A d \in D : answers.materials.over_time[d] =
                        Report!RoundDiv(Report!Total({j \in S : j.day = d}, Report!Fil), Grain)
  BY <1>2 DEF Report!get_material_report, Report!Days
<1>7. \A k : {j \in S : j.day = k} = Having(day, k, S)
             /\ {j \in S : Report!Label(j.status) = k} = Having(label, k, S)
  BY DEF Having
<1>8. /\ \A j \in S : day[j] \in D /\ label[j] \in L
      /\ \A j \in S : label[j] = Report!Label(j.status)
  OBVIOUS
<1>9. \A x \in S : fil[x] \in Nat BY <1>1, JobsAddUp
<1>10. Report!Total(S, Report!Fil) = Report!SumFunction([x \in S |-> fil[x]])
      /\ \A T \in SUBSET S : Report!Total(T, Report!Fil) = Report!SumFunction([x \in T |-> fil[x]])
  BY <1>1, PartIs
<1> HIDE DEF S, day, label, fil
<1>11. IsFiniteSet(D) /\ IsFiniteSet(L) BY <1>1, ImageIsFinite
<1>12. \A k : Having(day, k, S) \in SUBSET S BY DEF Having
<1>13. L = {Report!Label(j.status) : j \in S} BY <1>8
<1> HIDE DEF D, L
<1>14. Report!SumOver(all.jobs_over_time, LAMBDA n : n) = all.total_jobs
  <2> DEFINE g == [d \in DOMAIN all.jobs_over_time |-> all.jobs_over_time[d]]
  <2>1. DOMAIN g = D /\ \A d \in D : g[d] = Cardinality(Having(day, d, S)) BY <1>4, <1>7
  <2>2. Report!SumOver(all.jobs_over_time, LAMBDA n : n) = Report!SumFunction(g)
    BY SumOverItself
  <2> HIDE DEF g, all
  <2>3. Report!SumFunction(g) = Cardinality(S) BY <1>1, <1>8, <1>11, <2>1, CountsAddUp
  <2> QED BY <1>3, <2>2, <2>3
<1>15. Report!SumOver(all.breakdown, LAMBDA n : n) = all.total_jobs
  <2> DEFINE g == [l \in DOMAIN all.breakdown |-> all.breakdown[l]]
  <2>1. DOMAIN g = L /\ \A l \in L : g[l] = Cardinality(Having(label, l, S)) BY <1>5, <1>7
  <2>2. Report!SumOver(all.breakdown, LAMBDA n : n) = Report!SumFunction(g)
    BY SumOverItself
  <2> HIDE DEF g, all
  <2>3. Report!SumFunction(g) = Cardinality(S) BY <1>1, <1>8, <1>11, <2>1, CountsAddUp
  <2> QED BY <1>3, <2>2, <2>3
<1>16. Report!HalvesApart(100 * Report!SumOver(answers.materials.over_time, LAMBDA g : g),
         all.filament, 100 * Cardinality(DOMAIN answers.materials.over_time) + 1)
  <2> DEFINE g == [d \in DOMAIN answers.materials.over_time |-> answers.materials.over_time[d]]
             whole == PartSum(fil, S)
  <2>1. DOMAIN g = D
        /\ \A d \in D : g[d] =
             Report!RoundDiv(PartSum(fil, Having(day, d, S)), Grain)
    BY <1>6, <1>7, <1>10, <1>12 DEF PartSum
  <2>2. Report!SumOver(answers.materials.over_time, LAMBDA n : n) = Report!SumFunction(g)
    BY SumOverItself
  <2>3. Grain \in Nat /\ Grain # 0 BY DEF Report!ReportsAssumption
  <2> HIDE DEF g, all, whole
  <2>4. ASSUME NEW d \in D
        PROVE  1 * PartSum(fil, Having(day, d, S)) = PartSum(fil, Having(day, d, S))
    <3>1. IsFiniteSet(Having(day, d, S)) /\ \A x \in Having(day, d, S) : fil[x] \in Nat
      BY <1>1, <1>9, <1>12, FS_Subset
    <3>2. PartSum(fil, Having(day, d, S)) \in Nat BY <3>1, PartsAddUp
    <3> QED BY <3>2
  <2>5. \A d \in D : g[d] =
          Report!RoundDiv(1 * PartSum(fil, Having(day, d, S)), Grain)
    BY <2>1, <2>4
  <2>6. 1 \in Nat /\ 100 \in Nat /\ DOMAIN g = D BY <2>1
  <2>7. Report!HalvesApart(100 * Report!SumFunction(g), Report!RoundDiv(100 * (1 * whole), Grain),
                           100 * Cardinality(D) + 1)
    BY <1>1, <1>8, <1>9, <1>11, <2>3, <2>5, <2>6, ColumnRounds DEF whole
  <2>8. whole \in Nat BY <1>1, <1>9, PartsAddUp DEF whole
  <2>9. all.filament = Report!RoundDiv(100 * whole, Grain)
    BY <1>3, <1>10 DEF Report!Grams, whole, PartSum
  <2>10. 1 * whole = whole BY <2>8
  <2> QED BY <1>6, <2>2, <2>7, <2>9, <2>10
<1>17. \A l : Slice(l) = Cardinality({j \in S : Report!Label(j.status) = l})
  <2>1. ASSUME NEW l, l \notin L PROVE {j \in S : Report!Label(j.status) = l} = {}
    BY <1>13, <2>1
  <2>2. Cardinality({}) = 0 BY FS_EmptySet
  <2> HIDE DEF all
  <2> QED BY <1>5, <2>1, <2>2
<1> HIDE DEF Slice
<1>18. /\ Slice("completed") = all.completed_jobs /\ Slice("active") = all.active_queued_jobs
       /\ Slice("cancelled") = all.cancelled_jobs /\ Slice("failed") = all.failed_jobs
  BY <1>1, <1>3, <1>17, LabelsAreCards
<1> QED BY <1>14, <1>15, <1>16, <1>18, ReportCounts DEF Report!ChartsAgree, Slice


LEMMA DaysDoPartition ==
  ASSUME Report!ReportsAssumption, table \in Tables, NEW f \in Filters, answers = PageOf(f)
  PROVE  Report!DaysPartition
<1> SUFFICES ASSUME f.from = None, f.to = None
             PROVE  Report!Total(Report!Days(table),
                       LAMBDA d : Report!Cardinality(Report!Selected([f EXCEPT !.from = d, !.to = d])))
                      = Report!Cardinality(Report!Selected(f))
  BY DEF Report!DaysPartition, PageOf, Report!get_overall_usage
<1> DEFINE S == Report!Selected(f)
           day == [j \in table |-> j.day]
           D == {day[j] : j \in table}
           g == [d \in D |-> Report!Cardinality(Report!Selected([f EXCEPT !.from = d, !.to = d]))]
<1>1. IsFiniteSet(table) /\ table \subseteq Report!Jobs /\ IsFiniteSet(S) /\ S \subseteq table
  BY TableIs
<1>2. Report!Days(table) = D BY DEF Report!Days
<1>3. \A j \in table : j.day \in Nat /\ j.day # None /\ day[j] = j.day
  BY <1>1 DEF Report!Jobs, Report!ReportsAssumption
<1>4. ASSUME NEW d \in D
      PROVE  Report!Selected([f EXCEPT !.from = d, !.to = d]) = Having(day, d, S)
  <2> DEFINE h == [f EXCEPT !.from = d, !.to = d]
  <2>1. f \in [from : Nat \cup {None}, to : Nat \cup {None},
               printer : Machines \cup {None}, department : Departments \cup {None},
               status : Report!Statuses \cup {None}]
    BY DEF Report!ReportsAssumption
  <2>2. /\ h.from = d /\ h.to = d /\ h.printer = f.printer /\ h.department = f.department
        /\ h.status = f.status
    BY <2>1
  <2>3. d \in Nat /\ d # None BY <1>3
  <2> HIDE DEF h, D
  <2>4. \A j \in table : (h.from = None \/ j.day >= h.from) /\ (h.to = None \/ j.day <= h.to) <=> day[j] = d
    BY <1>3, <2>2, <2>3
  <2>5. Report!Selected(h) = {j \in table : day[j] = d
                                /\ (f.printer = None \/ j.printer = f.printer)
                                /\ (f.department = None \/ j.department = f.department)
                                /\ (f.status = None \/ j.status = f.status)}
    BY <2>2, <2>4 DEF Report!Selected
  <2>6. Having(day, d, S) = {j \in table : day[j] = d
                                /\ (f.printer = None \/ j.printer = f.printer)
                                /\ (f.department = None \/ j.department = f.department)
                                /\ (f.status = None \/ j.status = f.status)}
    BY DEF Having, Report!Selected
  <2> QED BY <2>5, <2>6 DEF h
<1>5. Report!Total(Report!Days(table),
         LAMBDA d : Report!Cardinality(Report!Selected([f EXCEPT !.from = d, !.to = d])))
        = Report!SumFunction(g)
  BY <1>2 DEF Report!Total
<1>6. DOMAIN g = D /\ \A d \in D : g[d] = Cardinality(Having(day, d, S))
  BY <1>4, ReportCounts
<1>7. \A j \in S : day[j] \in D BY <1>1
<1> HIDE DEF day
<1>8. IsFiniteSet(D) BY <1>1, ImageIsFinite
<1> HIDE DEF g, D, S
<1>9. Report!SumFunction(g) = Cardinality(S) BY <1>1, <1>6, <1>7, <1>8, CountsAddUp
<1> QED BY <1>5, <1>9, ReportCounts DEF S

LEMMA ActualDoesCount ==
  ASSUME NEW f, answers = PageOf(f)
  PROVE  Report!ActualCounts
<1> SUFFICES ASSUME \A j \in table : j.actual_duration # 0
             PROVE  answers.statistics.hours
                      = Report!RoundDiv(100 * Report!Total(table, LAMBDA j : j.actual_duration), 60 * Grain)
  BY DEF Report!ActualCounts
<1>1. answers.statistics.hours = Report!RoundDiv(100 * Report!Total(table, Report!Dur), 60 * Grain)
  BY DEF PageOf, Report!get_farm_statistics, Report!Hours
<1>2. [j \in table |-> Report!Dur(j)] = [j \in table |-> j.actual_duration]
  BY DEF Report!Dur
<1>3. Report!Total(table, Report!Dur) = Report!Total(table, LAMBDA j : j.actual_duration)
  BY <1>2 DEF Report!Total
<1> QED BY <1>1, <1>3

\* calculate_print_cost: two prices, by the parts there are of an hour.
LEMMA PricesGrow ==
  ASSUME Report!ReportsAssumption, NEW m \in Nat, NEW n \in Nat, m <= n
  PROVE  LET c == Report!calculate_print_cost(m)  d == Report!calculate_print_cost(n)
         IN  c <= d /\ (m > 0 => 60 * Grain * (d - c) <= 50 * (n - m) + 60 * Grain)
<1> DEFINE h == 60 * Grain
           r(k) == Report!RoundDiv(50 * (k - h), h)
           cost(k) == Report!calculate_print_cost(k)
<1>1. h \in Nat /\ h # 0 BY DEF Report!ReportsAssumption
<1>2. \A k \in Nat : cost(k) = IF k <= 0 THEN 0 ELSE IF k <= h THEN 200 ELSE 200 + r(k)
  BY DEF Report!calculate_print_cost
<1> SUFFICES cost(m) <= cost(n) /\ (m > 0 => h * (cost(n) - cost(m)) <= 50 * (n - m) + h)
  OBVIOUS
<1> HIDE DEF h, cost
<1>3. ASSUME NEW k \in Nat, k > h
      PROVE  /\ 50 * (k - h) \in Nat /\ r(k) \in Nat
             /\ 2 * (h * r(k)) - 2 * (50 * (k - h)) <= h
             /\ 2 * (50 * (k - h)) - 2 * (h * r(k)) <= h
  <2>1. 50 * (k - h) \in Nat BY <1>1, <1>3
  <2> QED BY <1>1, <2>1, Rounds
<1>4. CASE n <= h
  <2>1. cost(m) <= cost(n) BY <1>1, <1>2, <1>4
  <2>2. m > 0 => cost(n) = 200 /\ cost(m) = 200 BY <1>1, <1>2, <1>4
  <2>3. m > 0 => h * (cost(n) - cost(m)) = 0 BY <1>1, <2>2
  <2> QED BY <1>1, <2>1, <2>3
<1>5. CASE m <= h /\ n > h
  <2>1. r(n) \in Nat /\ 2 * (h * r(n)) - 2 * (50 * (n - h)) <= h BY <1>3, <1>5
  <2>2. cost(n) = 200 + r(n) BY <1>1, <1>2, <1>5
  <2>3. cost(m) \in {0, 200} /\ (m > 0 => cost(m) = 200) BY <1>1, <1>2, <1>5
  <2> HIDE DEF r
  <2>4. cost(m) <= cost(n) BY <2>1, <2>2, <2>3
  <2>5. m > 0 => h * (cost(n) - cost(m)) = h * r(n) BY <1>1, <2>1, <2>2, <2>3
  <2>6. h * r(n) \in Nat BY <1>1, <2>1
  <2>7. h * r(n) <= 50 * (n - m) + h BY <1>1, <1>5, <2>1, <2>6
  <2> QED BY <2>4, <2>5, <2>7
<1>6. CASE m > h
  <2>1. n > h BY <1>1, <1>6
  <2>2. /\ r(n) \in Nat /\ 2 * (h * r(n)) - 2 * (50 * (n - h)) <= h
        /\ r(m) \in Nat /\ 2 * (50 * (m - h)) - 2 * (h * r(m)) <= h
    BY <1>3, <1>6, <2>1
  <2>3. r(m) <= r(n)
    <3>1. 50 * (m - h) \in Nat /\ 50 * (n - h) \in Nat BY <1>3, <1>6, <2>1
    <3>2. 50 * (m - h) <= 50 * (n - h) BY <1>1, <1>6
    <3> QED BY <1>1, <3>1, <3>2, RoundsUp
  <2>4. cost(m) = 200 + r(m) /\ cost(n) = 200 + r(n) BY <1>1, <1>2, <1>6, <2>1
  <2> HIDE DEF r
  <2>5. h * (cost(n) - cost(m)) = h * r(n) - h * r(m) BY <1>1, <2>2, <2>4
  <2>6. h * r(n) \in Nat /\ h * r(m) \in Nat BY <1>1, <2>2
  <2>7. h * r(n) - h * r(m) <= 50 * (n - m) + h BY <1>1, <1>6, <2>1, <2>2, <2>6
  <2> QED BY <2>2, <2>3, <2>4, <2>5, <2>7
<1> QED BY <1>1, <1>4, <1>5, <1>6

LEMMA PricesAreProRated ==
  ASSUME Report!ReportsAssumption, table \in Tables
  PROVE  Report!PriceIsProRated
<1>1. \A j \in table : Report!Dur(j) \in Nat BY TableIs, JobsAddUp
<1>2. ASSUME NEW j \in table, NEW k \in table, Report!Dur(j) <= Report!Dur(k)
      PROVE  /\ Report!Cost(j) <= Report!Cost(k)
             /\ 0 < Report!Dur(j) =>
                  60 * Grain * (Report!Cost(k) - Report!Cost(j))
                    <= 50 * (Report!Dur(k) - Report!Dur(j)) + 60 * Grain
  BY <1>1, <1>2, PricesGrow DEF Report!Cost
<1> QED BY <1>2 DEF Report!PriceIsProRated


\* A sum is the same when its terms are kept under other keys.
LEMMA Rekeyed ==
  ASSUME NEW A, IsFiniteSet(A), NEW g, DOMAIN g = A, \A j \in A : g[j] \in Nat,
         NEW H, IsFiniteSet(H), NEW f, NEW key, NEW entry,
         \A h \in H : f[h] \in Nat /\ key[h] \in A,
         \A j \in A : Having(key, j, H) = {entry[j]} /\ f[entry[j]] = g[j]
  PROVE  Report!SumFunction(g) = Report!SumFunction([h \in H |-> f[h]])
<1>1. ASSUME NEW j \in A
      PROVE  g[j] = Report!SumFunction([h \in Having(key, j, H) |-> f[h]])
  <2> DEFINE p == [h \in Having(key, j, H) |-> f[h]]
  <2>1. Having(key, j, H) = {entry[j]} /\ f[entry[j]] = g[j] /\ g[j] \in Nat OBVIOUS
  <2>2. DOMAIN p = {entry[j]} /\ p[entry[j]] = g[j] BY <2>1
  <2>3. IsFiniteSet({entry[j]}) BY FS_Singleton
  <2> HIDE DEF p
  <2>4. \A x \in DOMAIN p : p[x] \in Nat BY <2>1, <2>2
  <2>5. Report!SumFunction(p) = SumOf(p, {entry[j]}) BY <2>2, <2>3, <2>4, SumFunctionIs
  <2>6. SumOf(p, {entry[j]}) = p[entry[j]] BY <2>1, <2>2, SumOfOne
  <2> QED BY <2>2, <2>5, <2>6 DEF p
<1> QED BY <1>1, TotalOfParts

\* What a history charges for some jobs is what they cost together.
LEMMA HistoryCharges ==
  ASSUME NEW A, IsFiniteSet(A), NEW cost, \A j \in A : cost[j] \in Nat
  PROVE  Report!Total({[job |-> j, cost |-> cost[j]] : j \in A}, LAMBDA h : h.cost)
           = Report!SumFunction([j \in A |-> cost[j]])
<1> DEFINE entry == [j \in A |-> [job |-> j, cost |-> cost[j]]]
           H == {entry[j] : j \in A}
           f == [h \in H |-> h.cost]
           key == [h \in H |-> h.job]
           g == [j \in A |-> cost[j]]
<1>1. {[job |-> j, cost |-> cost[j]] : j \in A} = H OBVIOUS
<1>2. IsFiniteSet(H)
  <2> HIDE DEF entry
  <2> QED BY ImageIsFinite
<1>3. \A h \in H : f[h] \in Nat /\ key[h] \in A OBVIOUS
<1>4. \A j \in A : entry[j] \in H /\ key[entry[j]] = j /\ f[entry[j]] = g[j] /\ g[j] \in Nat
  OBVIOUS
<1>5. \A h \in H : h = entry[key[h]] OBVIOUS
<1>6. Report!Total(H, LAMBDA h : h.cost) = Report!SumFunction([h \in H |-> f[h]])
  BY DEF Report!Total
<1>7. DOMAIN g = A OBVIOUS
<1> HIDE DEF f, key, g, H, entry
<1>8. \A j \in A : Having(key, j, H) = {entry[j]}
  BY <1>4, <1>5 DEF Having
<1>9. Report!SumFunction(g) = Report!SumFunction([h \in H |-> f[h]])
  BY <1>2, <1>3, <1>4, <1>7, <1>8, Rekeyed
<1> QED BY <1>1, <1>6, <1>9 DEF g

LEMMA RevenueIsCharged ==
  ASSUME Report!ReportsAssumption, table \in Tables, NEW f \in Filters, answers = PageOf(f)
  PROVE  Report!RevenueIsWhatIsCharged
<1> DEFINE C == Report!With(table, Report!Charged)
           cost == [j \in C |-> Report!Cost(j)]
           dept == [j \in C |-> Report!DepartmentOf(j)]
           D == {dept[j] : j \in C}
           user == [j \in C |-> j.user]
           stat == answers.statistics
<1>1. C \in SUBSET table BY DEF Report!With
<1>2. IsFiniteSet(C) /\ C \subseteq Report!Jobs
  BY <1>1, TableIs, FS_Subset
<1>3. stat = Report!get_farm_statistics
      /\ answers.history = [u \in Submitters |-> Report!get_print_history(u, TRUE)]
  BY DEF PageOf
<1>4. stat.revenue = Report!Total(C, Report!Cost) BY <1>3 DEF Report!get_farm_statistics
<1>5. DOMAIN stat.departments = D
      /\ \A d \in D : stat.departments[d].revenue =
           Report!Total({j \in C : Report!DepartmentOf(j) = d}, Report!Cost)
  BY <1>3 DEF Report!get_farm_statistics
<1>6. \A T \in SUBSET C : Report!Total(T, Report!Cost) = Report!SumFunction([j \in T |-> cost[j]])
  BY <1>2, PartIs
<1>7. \A j \in C : /\ cost[j] \in Nat /\ cost[j] = Report!Cost(j)
                    /\ dept[j] \in D /\ user[j] \in Submitters /\ user[j] = j.user
  BY <1>2, JobsAddUp DEF Report!Jobs
<1>8. \A d : {j \in C : Report!DepartmentOf(j) = d} = Having(dept, d, C)
             /\ Having(dept, d, C) \in SUBSET C
  BY DEF Having
<1>9. \A u : Having(user, u, C) = {j \in C : j.user = u} /\ Having(user, u, C) \in SUBSET C
  BY DEF Having
<1>10. ASSUME NEW u \in Submitters
       PROVE  {h \in answers.history[u] : h.job.status # "failed"}
                = {[job |-> j, cost |-> cost[j]] : j \in Having(user, u, C)}
  <2>1. answers.history[u] = {[job |-> j, cost |-> Report!Cost(j)] :
                                j \in {k \in Report!With(table, Report!Finished) : k.user = u}}
    BY <1>3 DEF Report!get_print_history, Report!Cost
  <2>2. \A j : j \in C <=> j \in Report!With(table, Report!Finished) /\ j.status # "failed"
    BY DEF Report!With, Report!Charged, Report!Finished, Report!_COMPLETED
  <2> HIDE DEF C, user
  <2>3. \A j \in Having(user, u, C) : cost[j] = Report!Cost(j) /\ j \in C BY <1>7, <1>9
  <2> HIDE DEF cost
  <2>4. \A j : j \in Having(user, u, C) <=>
                 j \in Report!With(table, Report!Finished) /\ j.status # "failed" /\ j.user = u
    BY <1>9, <2>2
  <2> QED BY <2>1, <2>3, <2>4
<1> HIDE DEF C, cost, dept, user
<1>11. IsFiniteSet(D) BY <1>2, ImageIsFinite
<1> HIDE DEF D, stat
<1>12. Report!SumOver(stat.departments, LAMBDA d : d.revenue) = stat.revenue
  <2> DEFINE g == [d \in D |-> stat.departments[d].revenue]
  <2>1. Report!SumOver(stat.departments, LAMBDA d : d.revenue) = Report!SumFunction(g)
    BY <1>5 DEF Report!SumOver, Report!Total
  <2>2. DOMAIN g = D
        /\ \A d \in D : g[d] = Report!SumFunction([x \in Having(dept, d, C) |-> cost[x]])
    BY <1>5, <1>6, <1>8
  <2> HIDE DEF g
  <2>3. Report!SumFunction(g) = Report!SumFunction([x \in C |-> cost[x]])
    BY <1>2, <1>7, <1>11, <2>2, TotalOfParts
  <2> QED BY <1>4, <1>6, <2>1, <2>3
<1>13. Report!Total(Submitters,
          LAMBDA u : Report!Total({h \in answers.history[u] : h.job.status # "failed"},
                                  LAMBDA h : h.cost)) = stat.revenue
  <2> DEFINE H(u) == {h \in answers.history[u] : h.job.status # "failed"}
             g == [u \in Submitters |-> Report!Total(H(u), LAMBDA h : h.cost)]
  <2>1. Report!Total(Submitters, LAMBDA u : Report!Total(H(u), LAMBDA h : h.cost))
          = Report!SumFunction(g)
    BY DEF Report!Total
  <2>2. ASSUME NEW u \in Submitters
        PROVE  g[u] = Report!SumFunction([x \in Having(user, u, C) |-> cost[x]])
    <3> DEFINE A == Having(user, u, C)
    <3>1. IsFiniteSet(A) /\ \A j \in A : cost[j] \in Nat BY <1>2, <1>7, <1>9, FS_Subset
    <3>2. H(u) = {[job |-> j, cost |-> cost[j]] : j \in A} BY <1>10
    <3>3. g[u] = Report!Total(H(u), LAMBDA h : h.cost) OBVIOUS
    <3> HIDE DEF A, H, g
    <3>4. Report!Total({[job |-> j, cost |-> cost[j]] : j \in A}, LAMBDA h : h.cost)
            = Report!SumFunction([j \in A |-> cost[j]])
      BY <3>1, HistoryCharges
    <3> QED BY <3>2, <3>3, <3>4 DEF A
  <2>3. DOMAIN g = Submitters /\ IsFiniteSet(Submitters)
    BY ReportFinite DEF Report!ReportsAssumption
  <2>4. Report!SumFunction(g) = Report!SumFunction([x \in C |-> cost[x]])
    <3> HIDE DEF g
    <3> QED BY <1>2, <1>7, <2>2, <2>3, TotalOfParts
  <2> HIDE DEF g
  <2> QED BY <1>4, <1>6, <2>1, <2>4
<1> QED BY <1>12, <1>13 DEF Report!RevenueIsWhatIsCharged, stat

LEMMA ReportInit == Report!Init => ReportIInv
  BY DEF Report!Init, ReportIInv

LEMMA AnswersStep ==
  ASSUME ReportIInv, [Report!Next]_Report!vars
  PROVE  ReportIInv'
<1>1. ASSUME NEW f \in Filters, Report!Apply(f), table' = table
      PROVE  ReportIInv'
  <2>1. answers' = PageOf(f) BY <1>1 DEF Report!Apply, PageOf
  <2>2. PageOf(f)' = PageOf(f)
    BY <1>1
       DEF PageOf, Report!get_overall_usage, Report!get_printer_report, Report!get_material_report,
           Report!get_user_report, Report!get_department_report, Report!get_farm_statistics,
           Report!get_print_history, Report!Selected
  <2>3. answers' = PageOf(f)' BY <2>1, <2>2
  <2> QED BY <1>1, <2>3 DEF ReportIInv
<1>2. CASE UNCHANGED Report!vars
  <2>1. table' = table /\ answers' = answers BY <1>2 DEF Report!vars
  <2>2. \A f : PageOf(f)' = PageOf(f)
    BY <2>1
       DEF PageOf, Report!get_overall_usage, Report!get_printer_report, Report!get_material_report,
           Report!get_user_report, Report!get_department_report, Report!get_farm_statistics,
           Report!get_print_history, Report!Selected
  <2> QED BY <2>1, <2>2 DEF ReportIInv
<1> QED BY <1>1, <1>2 DEF Report!Next

\* What the page shows agrees with itself, and before it shows anything too.
LEMMA PageAgrees ==
  ASSUME Report!ReportsAssumption, ReportIInv
  PROVE  /\ Report!TabsAgree /\ Report!ChartsAgree /\ Report!DaysPartition
         /\ Report!ActualCounts /\ Report!RevenueIsWhatIsCharged /\ Report!PriceIsProRated
<1>1. Report!PriceIsProRated BY PricesAreProRated DEF ReportIInv
<1>2. CASE answers = [filter |-> None]
  <2>1. ~Report!Shown BY <1>2 DEF Report!Shown
  <2> QED BY <1>1, <2>1
    DEF Report!TabsAgree, Report!ChartsAgree, Report!DaysPartition, Report!ActualCounts,
        Report!RevenueIsWhatIsCharged
<1>3. ASSUME NEW f \in Filters, answers = PageOf(f)
      PROVE  /\ Report!TabsAgree /\ Report!ChartsAgree /\ Report!DaysPartition
             /\ Report!ActualCounts /\ Report!RevenueIsWhatIsCharged
  <2>1. table \in Tables BY DEF ReportIInv
  <2>2. Report!TabsAgree BY <1>3, <2>1, TabsDoAgree
  <2>3. Report!ChartsAgree BY <1>3, <2>1, ChartsDoAgree
  <2>4. Report!DaysPartition BY <1>3, <2>1, DaysDoPartition
  <2>5. Report!ActualCounts BY <1>3, ActualDoesCount
  <2>6. Report!RevenueIsWhatIsCharged BY <1>3, <2>1, RevenueIsCharged
  <2> QED BY <2>2, <2>3, <2>4, <2>5, <2>6
<1> QED BY <1>1, <1>2, <1>3 DEF ReportIInv

--------------------------------------------------------------------------------
(***************************************************************************)
(* The books side by side: while one is kept, its own invariant holds.     *)
(***************************************************************************)
BooksIInv ==
  /\ book = "plan" => PlanInv /\ PageIsRight /\ (punctual => Punct)
  /\ book = "reports" => QueueShown /\ ReportIInv
  /\ book = "schema" => SchemaIInv

\* A step is one of the book that is kept, and another never is.
LEMMA OneBookSteps ==
  ASSUME [BooksNext]_booksVars
  PROVE  /\ book' = book
         /\ book = "plan" => [Queue!Next]_Queue!vars
         /\ book = "reports" => [Report!Next]_Report!vars
         /\ book = "schema" => [Schema!Next]_Schema!vars
<1>1. /\ Queue!vars = planVars /\ Queue!vars' = planVars'
      /\ Report!vars = reportVars /\ Report!vars' = reportVars'
      /\ Schema!vars = schemaVars /\ Schema!vars' = schemaVars'
  BY DEF Queue!vars, planVars, Report!vars, reportVars, Schema!vars, schemaVars
<1> QED BY <1>1 DEF BooksNext, MovesFilament, Plans, Answers, Revises, booksVars

\* The spools of the books are the spools: what is proved of Spec holds of BooksSpec.
LEMMA BooksKeepSpools == BooksSpec => Spec
<1>1. BooksInit => Init BY DEF BooksInit
<1>2. [BooksNext]_booksVars => [Next]_vars
  BY DEF BooksNext, MovesFilament, Plans, Answers, Revises, booksVars
<1> QED BY <1>1, <1>2, PTL DEF BooksSpec, Spec

THEOREM BooksInvariant == BooksSpec => []BooksIInv
<1>1. BooksInit => BooksIInv
  <2>1. book = "plan" /\ Queue!Init => BooksIInv
    BY BooksAssumption, PlanInvInit, NoPageIsRight, PunctInit DEF Queue!Init, BooksIInv
  <2>2. book = "reports" /\ Report!Init => BooksIInv
    BY ReportInit DEF Report!Init, BooksIInv, QueueShown, Report!Shown
  <2>3. book = "schema" /\ Schema!Init => BooksIInv
    BY BooksAssumption, SchemaInits DEF BooksIInv
  <2>4. book \notin {"plan", "reports", "schema"} => BooksIInv BY DEF BooksIInv
  <2> QED BY <2>1, <2>2, <2>3, <2>4 DEF BooksInit
<1>2. BooksIInv /\ [BooksNext]_booksVars => BooksIInv'
  <2> SUFFICES ASSUME BooksIInv, [BooksNext]_booksVars PROVE BooksIInv'
    OBVIOUS
  <2>1. CASE book = "plan"
    <3>1. [Queue!Next]_Queue!vars /\ PlanInv /\ PageIsRight /\ (punctual => Punct)
      BY <2>1, OneBookSteps DEF BooksIInv
    <3>2. PlanInv' /\ PageIsRight' BY <3>1, BooksAssumption, PlanInvStep, PageStep
    <3>3. punctual' = punctual BY <3>1, PunctualStays
    <3>4. punctual => Punct' BY <3>1, <3>2, BooksAssumption, PunctStep DEF Punct
    <3> QED BY <2>1, <3>2, <3>3, <3>4, OneBookSteps DEF BooksIInv
  <2>2. CASE book = "reports"
    BY <2>2, OneBookSteps, ReportStep, AnswersStep DEF BooksIInv
  <2>3. CASE book = "schema"
    BY <2>3, OneBookSteps, BooksAssumption, SchemaSteps DEF BooksIInv
  <2>4. CASE book \notin {"plan", "reports", "schema"}
    BY <2>4, OneBookSteps DEF BooksIInv
  <2> QED BY <2>1, <2>2, <2>3, <2>4
<1> QED BY <1>1, <1>2, PTL DEF BooksSpec

\* get_print_queue, compute_queue_schedule: on every page of the queue, for any number of jobs
\* and printers and whatever is late or down, a printer has one print at a time, in the order
\* of submission; nothing that waits starts, and nothing at all ends, before the page is made;
\* no printer that is up is planned to stand idle while a job could run on it; a job has no
\* estimate just if no printer can be found for it; and every duration of any length is
\* shown within half a minute.
THEOREM QueuePageIsSound == BooksSpec => []PlanIsSound
<1>1. BooksIInv => PlanIsSound
  BY PlanIsSoundThen DEF BooksIInv, PlanIsSound
<1> QED BY <1>1, BooksInvariant, PTL

\* refresh_queue_estimates in a farm that is punctual and gives every job a printer when it is
\* submitted: for any number of jobs and printers and any durations, no estimate ever changes
\* from the submission of the job to its end, whatever is submitted, starts or ends, and
\* whoever looks: the plan's order is the dispatcher's.
THEOREM PromisesAreKept == BooksSpec => PromisesKept
<1>1. BooksIInv /\ [BooksNext]_booksVars =>
        [/\ book = "plan" => Queue!PromisesKept
         /\ book = "reports" => Report!QueueIsLive]_booksVars
  <2> SUFFICES ASSUME BooksIInv, [BooksNext]_booksVars
               PROVE  /\ book = "plan" => Queue!PromisesKept
                      /\ book = "reports" => Report!QueueIsLive
    OBVIOUS
  <2>1. CASE book = "plan"
    <3>1. CASE punctual
      BY <2>1, <3>1, OneBookSteps, BooksAssumption, PunctStep DEF BooksIInv
    <3>2. CASE ~punctual
      BY <3>2, <2>1 DEF Queue!PromisesKept
    <3> QED BY <2>1, <3>1, <3>2
  <2>2. CASE book = "reports"
    BY <2>2, OneBookSteps, ReportStep DEF BooksIInv
  <2> QED BY <2>1, <2>2
<1> QED BY <1>1, BooksInvariant, PTL DEF BooksSpec, PromisesKept

\* report_service, job_service and pricing_service, which add up the same jobs in several
\* places: for any table of jobs and any filter, the users' and the departments' tabs have the
\* jobs, the finished ones and the filament of the overall report, and the printers' tab those
\* that have a printer; both charts add up to the cards; single days make up the whole; the
\* actual time counts; the revenue is the departments' and what the students are charged; and
\* prices grow with the time and do not jump.
THEOREM ReportsDoAgree == BooksSpec => []ReportsAgree
<1>1. BooksIInv => ReportsAgree
  BY BooksAssumption, PageAgrees DEF BooksIInv, ReportsAgree
<1> QED BY <1>1, BooksInvariant, PTL

\* The revisions of alembic/versions, applied and taken back in any order their down_revisions
\* allow, on an empty database or the one from before Alembic, with a user of any name and a
\* job written at the head: every row has the columns of its table and no NULL where none may be; with all
\* of them applied the tables, the types and the indexes are those the models describe; and
\* no job has a status that the revisions applied do not know.
THEOREM SchemaSound == BooksSpec => []SchemaIsSound
<1>1. BooksIInv => SchemaIsSound
  BY SchemaIsTyped, SchemaIsAtHead, StatusesAreKnown DEF BooksIInv, SchemaIsSound
<1> QED BY <1>1, BooksInvariant, PTL

\* upgrade and downgrade of the same revisions: none fails but the downgrade of uploads while
\* a job has no material, and what takes a user's name, of any number of words, apart or puts
\* it together leaves the user with the full name there was, but for a space at its end.
THEOREM DataSurvives == BooksSpec => RevisionsKeepTheData
<1>1. BooksIInv /\ [BooksNext]_booksVars =>
        [book = "schema" => Schema!RefusedOnlyForUploads /\ Schema!NamesSurvive]_booksVars
  BY OneBookSteps, BooksAssumption, SchemaSteps DEF BooksIInv
<1> QED BY <1>1, BooksInvariant, PTL DEF BooksSpec, RevisionsKeepTheData
================================================================================
