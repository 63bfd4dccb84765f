----------------------------- MODULE RequestsProofs -----------------------------
(***************************************************************************)
(* What the provider's accounts, the profiles and the requests keep to one *)
(* another, for any addresses, clients, settings, number of starts and     *)
(* either adapter; what the help chat lets pass, for any conversations and *)
(* clients, any limit and any window; and what the inbox shows and who     *)
(* reads, for any notifications, owners, pages and loads under way.        *)
(***************************************************************************)
EXTENDS Portal, SequenceTheorems, FiniteSetTheorems, WellFoundedInduction, TLAPS

AccountSet == [email : Emails, id : Nat, confirmed : BOOLEAN, complete : BOOLEAN]
ProfileSet == [id : Nat, email : Emails, role : Roles]
SessionSteps == {"profile", "insert", "reload"}
Requests ==
  {Idle} \cup [step : {"register"}, email : Emails, session : {<<>>}]
         \cup [step : SessionSteps, email : Emails, session : AccountSet]

Shape ==
  /\ accounts \subseteq AccountSet /\ users \subseteq ProfileSet
  /\ nextId \in Nat /\ starts \in Nat
  /\ req \in [Clients -> Requests] /\ answer = [c \in Clients |-> answer[c]]

\* Nobody has two accounts or two profiles, and a profile and an account that share the
\* address or the id share both.
OnePerson ==
  /\ \A a, b \in accounts : (a.email = b.email \/ a.id = b.id) => a = b
  /\ \A u, v \in users : (u.email = v.email \/ u.id = v.id) => u = v
  /\ \A a \in accounts, u \in users :
       a.email = u.email \/ a.id = u.id => a.email = u.email /\ a.id = u.id /\ a.confirmed

\* The next id is nobody's.
Fresh == (\A a \in accounts : a.id < nextId) /\ (\A u \in users : u.id < nextId)

\* What a request read before is still so: whoever signs in has a confirmed account, whoever
\* signs up has no profile unless the account is there as well, and a profile that was in
\* the way of another still is.
TrueOf(r) ==
  /\ r.step \in SessionSteps =>
       \E a \in accounts : a.id = r.session.id /\ a.email = r.email /\ a.confirmed
  /\ r.step = "register" => RowOf(r.email) = {} \/ AccountOf(r.email) # {}
  /\ r.step = "reload" => Row(r.session.id) # {}
StillSo == \A c \in Clients : TrueOf(req[c])

IInv == Shape /\ OnePerson /\ Fresh /\ StillSo

-------------------------------------------------------------------------------
(* Induction over 0 .. n, and functions defined by recursion over it. *)

\* Induction as far as n, with a set for the predicate.
LEMMA InductionUpTo ==
  ASSUME NEW n \in Nat, NEW S, 0 \in S, \A i \in 0 .. n - 1 : i \in S => i + 1 \in S
  PROVE  0 .. n \subseteq S
<1> DEFINE R == OpToRel(<, Nat)
           T == (0 .. n) \ S
<1> SUFFICES ASSUME T # {} PROVE FALSE
  OBVIOUS
<1>1. IsWellFoundedOn(R, Nat) BY NatLessThanWellFounded
<1>2. \A k, m \in Nat : k < m => <<k, m>> \in R BY DEF OpToRel
<1>3. T \subseteq Nat OBVIOUS
<1> HIDE DEF R
<1>4. PICK m \in T : \A k \in T : <<k, m>> \notin R
  <2> HIDE DEF T
  <2> QED BY <1>1, <1>3, WFMin
<1>5. m \in 0 .. n /\ m \notin S /\ m # 0 BY <1>4
<1>6. m - 1 \in 0 .. n - 1 /\ m - 1 \in Nat /\ m - 1 < m /\ (m - 1) + 1 = m BY <1>5
<1>7. m - 1 \in S
  <2>1. <<m - 1, m>> \in R BY <1>2, <1>5, <1>6
  <2>2. m - 1 \notin T
    <3> HIDE DEF T
    <3> QED BY <1>4, <2>1
  <2> QED BY <1>6, <2>2
<1> QED BY <1>5, <1>6, <1>7

\* f is what the steps make of f0, and goes as far as n.
Follows(f, n, f0, step) == f[0] = f0 /\ \A i \in 0 .. n - 1 : f[i + 1] = step[<<i, f[i]>>]

\* A function that takes n steps is there.
LEMMA RecursionUpTo ==
  ASSUME NEW n \in Nat, NEW S, NEW f0 \in S, NEW step \in [Nat \X S -> S]
  PROVE  \E f \in [0 .. n -> S] : Follows(f, n, f0, step)
<1> DEFINE T == {k \in Nat : \E f \in [0 .. k -> S] : Follows(f, k, f0, step)}
<1>1. 0 \in T
  <2>1. [i \in 0 .. 0 |-> f0] \in [0 .. 0 -> S] /\ Follows([i \in 0 .. 0 |-> f0], 0, f0, step)
    BY DEF Follows
  <2> QED BY <2>1
<1>2. ASSUME NEW k \in 0 .. n - 1, k \in T PROVE k + 1 \in T
  <2>1. PICK f \in [0 .. k -> S] : Follows(f, k, f0, step) BY <1>2
  <2> DEFINE g == [i \in 0 .. k + 1 |-> IF i = k + 1 THEN step[<<k, f[k]>>] ELSE f[i]]
  <2>2. g \in [0 .. k + 1 -> S]
    <3>1. step[<<k, f[k]>>] \in S OBVIOUS
    <3> QED BY <3>1
  <2>3. g[0] = f0 BY <2>1 DEF Follows
  <2>4. ASSUME NEW i \in 0 .. k PROVE g[i + 1] = step[<<i, g[i]>>]
    <3>1. CASE i = k
      <4>1. g[k + 1] = step[<<k, f[k]>>] /\ g[k] = f[k] OBVIOUS
      <4> QED BY <3>1, <4>1
    <3>2. CASE i < k
      <4>1. i \in 0 .. k - 1 /\ i + 1 \in 0 .. k BY <3>2
      <4>2. f[i + 1] = step[<<i, f[i]>>] BY <2>1, <4>1 DEF Follows
      <4>3. g[i + 1] = f[i + 1] /\ g[i] = f[i] BY <4>1, <3>2
      <4> QED BY <4>2, <4>3
    <3> QED BY <3>1, <3>2
  <2> HIDE DEF g
  <2>5. Follows(g, k + 1, f0, step) BY <2>3, <2>4 DEF Follows
  <2> QED BY <2>2, <2>5
<1> HIDE DEF T
<1>3. 0 .. n \subseteq T BY <1>1, <1>2, InductionUpTo
<1>4. n \in T BY <1>3
<1> QED BY <1>4 DEF T

-------------------------------------------------------------------------------
(* Seeding *)

LEMMA EntriesArePeople ==
  ASSUME NEW list \in Seq(People)
  PROVE  /\ Entries(list) \subseteq People
         /\ \A x, y \in Entries(list) : x.email = y.email => x = y
         /\ IsFiniteSet(Entries(list))
<1> DEFINE Firsts == {j \in 1..Len(list) : \A k \in 1..(j - 1) : list[k].email # list[j].email}
<1>1. \A i \in 1..Len(list) : list[i] \in People
  OBVIOUS
<1>2. Entries(list) = {list[i] : i \in Firsts}
  BY DEF Entries
<1>3. \A i, j \in Firsts : list[i].email = list[j].email => i = j
  <2> SUFFICES ASSUME NEW i \in Firsts, NEW j \in Firsts, list[i].email = list[j].email, i < j
               PROVE FALSE
    OBVIOUS
  <2> QED OBVIOUS
<1>4. IsFiniteSet(Firsts)
  <2>1. IsFiniteSet(1..Len(list))
    BY FS_Interval
  <2> QED BY <2>1, FS_Subset
<1>5. IsFiniteSet({list[i] : i \in Firsts})
  <2> DEFINE f == [i \in Firsts |-> list[i]]
  <2>1. f \in Surjection(Firsts, {list[i] : i \in Firsts})
    BY DEF Surjection
  <2> QED BY <1>4, <2>1, FS_Surjection
<1> QED BY <1>1, <1>2, <1>3, <1>5

\* What a seeding that stops half-way has registered.
LEMMA PrefixEntries ==
  ASSUME NEW list \in Seq(People), NEW n \in 0..Len(list)
  PROVE  SubSeq(list, 1, n) \in Seq(People) /\ Entries(SubSeq(list, 1, n)) \subseteq Entries(list)
<1> DEFINE s == SubSeq(list, 1, n)
<1>1. s \in Seq(People) /\ Len(s) = n /\ \A i \in 1..n : s[i] = list[i]
  OBVIOUS
<1> HIDE DEF s
<1>2. ASSUME NEW i \in 1..n, \A k \in 1..(i - 1) : s[k].email # s[i].email
      PROVE  s[i] \in Entries(list)
  <2>1. \A k \in 1..(i - 1) : s[k] = list[k]
    BY <1>1
  <2>2. i \in {j \in 1..Len(list) : \A k \in 1..(j - 1) : list[k].email # list[j].email}
    BY <1>1, <1>2, <2>1
  <2> QED BY <1>1, <2>2 DEF Entries
<1>3. Entries(s) \subseteq Entries(list)
  BY <1>1, <1>2 DEF Entries
<1> QED BY <1>1, <1>3 DEF s

\* The ids a seeding gives are the profiles', or nobody's.
LEMMA SeedIdsFit ==
  ASSUME Shape, OnePerson, Fresh, NEW list \in Seq(People),
         NEW ids \in [Emails -> 1..MaxIds], SeedIds(list, ids)
  PROVE  /\ Cardinality(NewEntries(list)) \in Nat
         /\ \A x \in Entries(list) :
              /\ ids[x.email] \in Nat /\ ids[x.email] < nextId + Cardinality(NewEntries(list))
              /\ \A u \in users : ids[x.email] = u.id <=> x.email = u.email
         /\ \A x, y \in Entries(list) : ids[x.email] = ids[y.email] => x = y
<1> USE BoundsAssumption
<1>1. /\ Entries(list) \subseteq People
      /\ \A x, y \in Entries(list) : x.email = y.email => x = y
  BY EntriesArePeople
<1>2. Cardinality(NewEntries(list)) \in Nat
  <2>1. NewEntries(list) \subseteq Entries(list)
    BY DEF NewEntries
  <2> QED BY <2>1, EntriesArePeople, FS_Subset, FS_CardinalityType
<1>3. \A x \in Entries(list) : ids[x.email] \in Nat
  BY <1>1 DEF People
<1>4. ASSUME NEW x \in Entries(list)
      PROVE  /\ ids[x.email] < nextId + Cardinality(NewEntries(list))
             /\ \A u \in users : ids[x.email] = u.id <=> x.email = u.email
  <2>1. CASE RowOf(x.email) # {}
    <3>1. PICK w \in RowOf(x.email) : ids[x.email] = w.id
      BY <2>1 DEF SeedIds
    <3>2. w \in users /\ w.email = x.email
      BY <3>1 DEF RowOf
    <3>3. w.id < nextId
      BY <3>2 DEF Fresh
    <3> QED BY <1>2, <1>3, <3>1, <3>2, <3>3 DEF OnePerson, Shape
  <2>2. CASE RowOf(x.email) = {}
    <3>1. ids[x.email] \in nextId..(nextId + Cardinality(NewEntries(list)) - 1)
      BY <2>2 DEF SeedIds
    <3>2. \A u \in users : u.id \in Nat /\ u.id < nextId /\ u.email # x.email
      BY <2>2 DEF Shape, ProfileSet, Fresh, RowOf
    <3> QED BY <1>2, <1>3, <3>1, <3>2 DEF Shape
  <2> QED BY <2>1, <2>2
<1> QED BY <1>1, <1>2, <1>3, <1>4 DEF SeedIds

\* A seeding that is committed.
LEMMA SeedingKeeps ==
  ASSUME Shape, OnePerson, Fresh, NEW list \in Seq(People),
         NEW ids \in [Emails -> 1..MaxIds], SeedIds(list, ids),
         accounts' = SeedAccounts(list, ids), users' = SeedRows(list, ids),
         nextId' = nextId + Cardinality(NewEntries(list))
  PROVE  /\ accounts' \subseteq AccountSet /\ users' \subseteq ProfileSet /\ nextId' \in Nat
         /\ OnePerson' /\ Fresh'
<1> DEFINE E == Entries(list)
           Kept == {u \in users : \A x \in E : x.email # u.email}
<1>1. E \subseteq People /\ \A x, y \in E : x.email = y.email => x = y
  BY EntriesArePeople
<1>2. /\ Cardinality(NewEntries(list)) \in Nat
      /\ \A x \in E : /\ ids[x.email] \in Nat /\ ids[x.email] < nextId'
                      /\ \A u \in users : ids[x.email] = u.id <=> x.email = u.email
      /\ \A x, y \in E : ids[x.email] = ids[y.email] => x = y
  BY SeedIdsFit
<1>3. \A a \in accounts' : \E x \in E :
        a = [email |-> x.email, id |-> ids[x.email], confirmed |-> TRUE, complete |-> FALSE]
  BY DEF SeedAccounts
<1>4. \A u \in users' : u \in Kept \/ \E x \in E : u = [id |-> ids[x.email], email |-> x.email, role |-> x.role]
  BY DEF SeedRows
<1> HIDE DEF E
<1>5. accounts' \subseteq AccountSet /\ nextId' \in Nat /\ nextId <= nextId'
  <2>1. \A x \in E :
          [email |-> x.email, id |-> ids[x.email], confirmed |-> TRUE, complete |-> FALSE] \in AccountSet
    BY <1>1, <1>2 DEF AccountSet, People
  <2>2. nextId' \in Nat /\ nextId <= nextId'
    BY <1>2 DEF Shape
  <2> QED BY <1>3, <2>1, <2>2
<1>6. users' \subseteq ProfileSet
  BY <1>1, <1>2, <1>4 DEF ProfileSet, Shape, People
<1>7. \A a, b \in accounts' : (a.email = b.email \/ a.id = b.id) => a = b
  <2> SUFFICES ASSUME NEW a \in accounts', NEW b \in accounts', a.email = b.email \/ a.id = b.id
               PROVE  a = b
    OBVIOUS
  <2>1. PICK x \in E :
          a = [email |-> x.email, id |-> ids[x.email], confirmed |-> TRUE, complete |-> FALSE]
    BY <1>3
  <2>2. PICK y \in E :
          b = [email |-> y.email, id |-> ids[y.email], confirmed |-> TRUE, complete |-> FALSE]
    BY <1>3
  <2>3. x = y
    BY <1>1, <1>2, <2>1, <2>2
  <2> QED BY <2>1, <2>2, <2>3
<1>8. \A u, v \in users' : (u.email = v.email \/ u.id = v.id) => u = v
  BY <1>1, <1>2, <1>4 DEF OnePerson
<1>9. \A a \in accounts', u \in users' :
        a.email = u.email \/ a.id = u.id => a.email = u.email /\ a.id = u.id /\ a.confirmed
  <2> SUFFICES ASSUME NEW a \in accounts', NEW u \in users', a.email = u.email \/ a.id = u.id
               PROVE  a.email = u.email /\ a.id = u.id /\ a.confirmed
    OBVIOUS
  <2>1. PICK x \in E :
          a = [email |-> x.email, id |-> ids[x.email], confirmed |-> TRUE, complete |-> FALSE]
    BY <1>3
  <2>2. CASE u \in Kept
    BY <1>2, <2>1, <2>2
  <2>3. ASSUME NEW y \in E, u = [id |-> ids[y.email], email |-> y.email, role |-> y.role]
        PROVE  a.email = u.email /\ a.id = u.id /\ a.confirmed
    <3>1. x = y
      BY <1>1, <1>2, <2>1, <2>3
    <3> QED BY <2>1, <2>3, <3>1
  <2> QED BY <1>4, <2>2, <2>3
<1>10. Fresh'
  <2>1. \A a \in accounts' : a.id < nextId'
    BY <1>2, <1>3
  <2>2. \A u \in users' : u.id < nextId'
    BY <1>2, <1>4, <1>5 DEF Fresh, Shape, ProfileSet
  <2> QED BY <2>1, <2>2 DEF Fresh
<1> QED BY <1>5, <1>6, <1>7, <1>8, <1>9, <1>10 DEF OnePerson

\* One that fails has registered the first of the accounts, and no row is changed.
LEMMA HalfSeedingKeeps ==
  ASSUME Shape, OnePerson, Fresh, NEW list \in Seq(People),
         NEW ids \in [Emails -> 1..MaxIds], SeedIds(list, ids), NEW n \in 0..Len(list),
         accounts' = SeedAccounts(SubSeq(list, 1, n), ids), users' = users,
         nextId' = nextId + Cardinality(NewEntries(list))
  PROVE  /\ accounts' \subseteq AccountSet /\ users' \subseteq ProfileSet /\ nextId' \in Nat
         /\ OnePerson' /\ Fresh'
<1> DEFINE E == Entries(list)
<1>1. E \subseteq People /\ \A x, y \in E : x.email = y.email => x = y
  BY EntriesArePeople
<1>2. /\ Cardinality(NewEntries(list)) \in Nat
      /\ \A x \in E : /\ ids[x.email] \in Nat /\ ids[x.email] < nextId'
                      /\ \A u \in users : ids[x.email] = u.id <=> x.email = u.email
      /\ \A x, y \in E : ids[x.email] = ids[y.email] => x = y
  BY SeedIdsFit
<1>3. \A a \in accounts' : \E x \in E :
        a = [email |-> x.email, id |-> ids[x.email], confirmed |-> TRUE, complete |-> FALSE]
  BY PrefixEntries DEF SeedAccounts
<1> HIDE DEF E
<1>4. accounts' \subseteq AccountSet /\ nextId' \in Nat /\ nextId <= nextId'
  <2>1. \A x \in E :
          [email |-> x.email, id |-> ids[x.email], confirmed |-> TRUE, complete |-> FALSE] \in AccountSet
    BY <1>1, <1>2 DEF AccountSet, People
  <2>2. nextId' \in Nat /\ nextId <= nextId'
    BY <1>2 DEF Shape
  <2> QED BY <1>3, <2>1, <2>2
<1>5. \A a, b \in accounts' : (a.email = b.email \/ a.id = b.id) => a = b
  <2> SUFFICES ASSUME NEW a \in accounts', NEW b \in accounts', a.email = b.email \/ a.id = b.id
               PROVE  a = b
    OBVIOUS
  <2>1. PICK x \in E :
          a = [email |-> x.email, id |-> ids[x.email], confirmed |-> TRUE, complete |-> FALSE]
    BY <1>3
  <2>2. PICK y \in E :
          b = [email |-> y.email, id |-> ids[y.email], confirmed |-> TRUE, complete |-> FALSE]
    BY <1>3
  <2>3. x = y
    BY <1>1, <1>2, <2>1, <2>2
  <2> QED BY <2>1, <2>2, <2>3
<1>6. \A a \in accounts', u \in users' :
        a.email = u.email \/ a.id = u.id => a.email = u.email /\ a.id = u.id /\ a.confirmed
  BY <1>2, <1>3
<1>7. Fresh'
  BY <1>2, <1>3, <1>4 DEF Fresh, Shape, ProfileSet
<1> QED BY <1>4, <1>5, <1>6, <1>7 DEF OnePerson, Shape

-------------------------------------------------------------------------------
(* The first state and the starts *)

LEMMA InitHolds == Init => IInv
<1> SUFFICES ASSUME Init PROVE IInv
  OBVIOUS
<1> USE StaffAssumption
<1>1. PICK order \in [Staff -> 1..Cardinality(Staff)] :
        /\ \A x, y \in Staff : order[x] = order[y] => x = y
        /\ users = {[id |-> order[x], email |-> x.email, role |-> x.role] : x \in Staff}
        /\ accounts = IF adapter = "fake" THEN {} ELSE
             {[email |-> x.email, id |-> order[x], confirmed |-> TRUE, complete |-> FALSE] : x \in Staff}
  BY DEF Init
<1>2. Cardinality(Staff) \in Nat
  BY FS_CardinalityType
<1>3. \A x \in Staff : order[x] \in Nat /\ order[x] < nextId /\ x.email \in Emails /\ x.role \in Roles
  BY <1>1, <1>2 DEF Init, People
<1>4. \A a \in accounts : \E x \in Staff :
        a = [email |-> x.email, id |-> order[x], confirmed |-> TRUE, complete |-> FALSE]
  BY <1>1
<1>5. \A u \in users : \E x \in Staff : u = [id |-> order[x], email |-> x.email, role |-> x.role]
  BY <1>1
<1>6. accounts \subseteq AccountSet
  <2>1. \A x \in Staff :
          [email |-> x.email, id |-> order[x], confirmed |-> TRUE, complete |-> FALSE] \in AccountSet
    BY <1>3 DEF AccountSet
  <2> QED BY <1>4, <2>1
<1>7. users \subseteq ProfileSet
  <2>1. \A x \in Staff : [id |-> order[x], email |-> x.email, role |-> x.role] \in ProfileSet
    BY <1>3 DEF ProfileSet
  <2> QED BY <1>5, <2>1
<1>8. Shape
  <2>1. nextId \in Nat /\ starts \in Nat
    BY <1>2 DEF Init
  <2>2. req \in [Clients -> Requests] /\ answer = [c \in Clients |-> answer[c]]
    BY DEF Init, Requests
  <2> QED BY <1>6, <1>7, <2>1, <2>2 DEF Shape
<1>9. \A a, b \in accounts : (a.email = b.email \/ a.id = b.id) => a = b
  <2> SUFFICES ASSUME NEW a \in accounts, NEW b \in accounts, a.email = b.email \/ a.id = b.id
               PROVE  a = b
    OBVIOUS
  <2>1. PICK x \in Staff :
          a = [email |-> x.email, id |-> order[x], confirmed |-> TRUE, complete |-> FALSE]
    BY <1>4
  <2>2. PICK y \in Staff :
          b = [email |-> y.email, id |-> order[y], confirmed |-> TRUE, complete |-> FALSE]
    BY <1>4
  <2>3. x = y
    BY <1>1, <2>1, <2>2
  <2> QED BY <2>1, <2>2, <2>3
<1>10. \A u, v \in users : (u.email = v.email \/ u.id = v.id) => u = v
  BY <1>1, <1>5
<1>11. \A a \in accounts, u \in users :
         a.email = u.email \/ a.id = u.id => a.email = u.email /\ a.id = u.id /\ a.confirmed
  BY <1>1, <1>4, <1>5
<1>12. Fresh
  BY <1>3, <1>4, <1>5 DEF Fresh
<1>13. StillSo
  BY DEF Init, StillSo, TrueOf, Idle, SessionSteps
<1> QED BY <1>8, <1>9, <1>10, <1>11, <1>12, <1>13 DEF IInv, OnePerson

LEMMA StartKeeps == IInv /\ Start => IInv'
<1> SUFFICES ASSUME IInv, Start PROVE IInv'
  OBVIOUS
<1>1. req' = [c \in Clients |-> Idle] /\ answer' = answer /\ starts' = starts + 1
  BY DEF Start
<1>2. StillSo'
  BY <1>1 DEF StillSo, TrueOf, Idle, SessionSteps
<1>3. starts' \in Nat /\ req' \in [Clients -> Requests] /\ answer' = [c \in Clients |-> answer'[c]]
  BY <1>1 DEF IInv, Shape, Requests
<1>4. CASE adapter = "fake"
  <2>1. PICK list \in Listings, ids \in [Emails -> 1..MaxIds] :
          /\ SeedIds(list, ids)
          /\ nextId' = nextId + Cardinality(NewEntries(list))
          /\ \/ accounts' = SeedAccounts(list, ids) /\ users' = SeedRows(list, ids)
             \/ \E n \in 0..Len(list) : accounts' = SeedAccounts(SubSeq(list, 1, n), ids) /\ users' = users
    BY <1>4 DEF Start, Seeds
  <2>2. list \in Seq(People)
    BY ListingsAssumption
  <2>3. /\ accounts' \subseteq AccountSet /\ users' \subseteq ProfileSet /\ nextId' \in Nat
        /\ OnePerson' /\ Fresh'
    <3>1. CASE accounts' = SeedAccounts(list, ids) /\ users' = SeedRows(list, ids)
      BY <2>1, <2>2, <3>1, SeedingKeeps DEF IInv
    <3>2. ASSUME NEW n \in 0..Len(list), accounts' = SeedAccounts(SubSeq(list, 1, n), ids), users' = users
          PROVE  /\ accounts' \subseteq AccountSet /\ users' \subseteq ProfileSet /\ nextId' \in Nat
                 /\ OnePerson' /\ Fresh'
      BY <2>1, <2>2, <3>2, HalfSeedingKeeps DEF IInv
    <3> QED BY <2>1, <3>1, <3>2
  <2> QED BY <1>2, <1>3, <2>3 DEF IInv, Shape
<1>5. CASE adapter # "fake"
  <2>1. UNCHANGED <<accounts, users, nextId>>
    BY <1>5 DEF Start
  <2> QED BY <1>2, <1>3, <2>1 DEF IInv, Shape, OnePerson, Fresh
<1> QED BY <1>4, <1>5

-------------------------------------------------------------------------------
(* The requests *)

\* No account goes, though it may be confirmed, and no profile goes; a new profile is of
\* someone who has an account.
Grows ==
  /\ \A a \in accounts :
       \E b \in accounts' : b.email = a.email /\ b.id = a.id /\ (a.confirmed => b.confirmed)
  /\ users \subseteq users'
  /\ \A u \in users' \ users : \E a \in accounts : a.email = u.email

\* Then what the other requests have read is still so.
LEMMA OthersGoOn ==
  ASSUME IInv, Grows, NEW c \in Clients, NEW r \in Requests, req' = [req EXCEPT ![c] = r],
         TrueOf(r)'
  PROVE  StillSo' /\ req' \in [Clients -> Requests]
<1>1. ASSUME NEW q \in Requests, TrueOf(q) PROVE TrueOf(q)'
  <2>1. q.step \in SessionSteps =>
          \E a \in accounts' : a.id = q.session.id /\ a.email = q.email /\ a.confirmed
    BY <1>1 DEF TrueOf, Grows
  <2>2. q.step = "register" =>
          (\A u \in users' : u.email # q.email) \/ \E a \in accounts' : a.email = q.email
    <3>1. CASE \E a \in accounts : a.email = q.email
      BY <3>1 DEF Grows
    <3>2. CASE \A a \in accounts : a.email # q.email
      <4>1. q.step = "register" => \A u \in users : u.email # q.email
        BY <1>1, <3>2 DEF TrueOf, RowOf, AccountOf
      <4> QED BY <3>2, <4>1 DEF Grows
    <3> QED BY <3>1, <3>2
  <2>3. q.step = "reload" => \E u \in users' : u.id = q.session.id
    BY <1>1 DEF TrueOf, Row, Grows
  <2> QED BY <2>1, <2>2, <2>3 DEF TrueOf, AccountOf, Row, RowOf
<1>2. req'[c] = r /\ req' \in [Clients -> Requests]
  BY DEF IInv, Shape
<1>3. \A d \in Clients : d # c => req'[d] = req[d] /\ req[d] \in Requests /\ TrueOf(req[d])
  BY DEF IInv, Shape, StillSo
<1> QED BY <1>1, <1>2, <1>3 DEF StillSo

\* An answer ends its request.
LEMMA AnswersKeep ==
  ASSUME IInv, Grows, NEW c \in Clients, NEW op, NEW e, NEW code, Answers(c, op, e, code)
  PROVE  StillSo' /\ req' \in [Clients -> Requests] /\ answer' = [d \in Clients |-> answer'[d]]
<1>1. TrueOf(Idle)'
  BY DEF TrueOf, Idle, SessionSteps
<1>2. Idle \in Requests
  BY DEF Requests
<1>3. answer' = [d \in Clients |-> answer'[d]]
  BY DEF Answers, IInv, Shape
<1> QED BY <1>1, <1>2, <1>3, OthersGoOn DEF Answers

\* Steps that change neither accounts nor profiles.
LEMMA QuietKeeps ==
  ASSUME IInv, UNCHANGED store, StillSo', req' \in [Clients -> Requests],
         answer' = [d \in Clients |-> answer'[d]]
  PROVE  IInv'
BY DEF IInv, Shape, OnePerson, Fresh, store

LEMMA StandsStill ==
  ASSUME IInv, UNCHANGED <<accounts, users>>
  PROVE  Grows
BY DEF Grows

LEMMA SignupKeeps == ASSUME IInv, NEW c \in Clients, StudentSignup(c) PROVE IInv'
<1>1. PICK e \in Emails : signup_student(c, e)
  BY DEF StudentSignup
<1>2. Grows /\ UNCHANGED store
  BY StandsStill DEF StudentSignup, store
<1>3. CASE \E code : Answers(c, "sign up", e, code)
  BY <1>2, <1>3, AnswersKeep, QuietKeeps
<1>4. CASE RowOf(e) = {} /\ Continues(c, "register", e, <<>>)
  <2> DEFINE r == [step |-> "register", email |-> e, session |-> <<>>]
  <2>1. r \in Requests /\ req' = [req EXCEPT ![c] = r] /\ answer' = answer
    BY <1>4 DEF Requests, Continues
  <2>2. TrueOf(r)'
    BY <1>2, <1>4 DEF TrueOf, SessionSteps, store, RowOf
  <2> QED BY <1>2, <2>1, <2>2, OthersGoOn, QuietKeeps DEF IInv, Shape
<1> QED BY <1>1, <1>3, <1>4 DEF signup_student

\* An account is made only for an address that has neither account nor profile.
LEMMA RegisterKeeps == ASSUME IInv, NEW c \in Clients, Register(c) PROVE IInv'
<1> DEFINE e == req[c].email
<1>1. req[c].step = "register" /\ UNCHANGED <<adapter, tokens, users, listing, starts, seeded, given>>
  BY DEF Register
<1>2. e \in Emails
  BY <1>1 DEF IInv, Shape, Requests, Idle, SessionSteps
<1>3. CASE UNCHANGED <<accounts, nextId>> /\ \E code : Answers(c, "sign up", e, code)
  BY <1>1, <1>3, StandsStill, AnswersKeep, QuietKeeps DEF store, given
<1>4. CASE AccountOf(e) = {} /\ Creates(e) /\ \E code : Answers(c, "sign up", e, code)
  <2> DEFINE n == [email |-> e, id |-> nextId, confirmed |-> FALSE, complete |-> TRUE]
  <2>1. accounts' = accounts \cup {n} /\ nextId' = nextId + 1
    BY <1>4 DEF Creates
  <2>2. Grows
    BY <1>1, <2>1 DEF Grows
  <2>3. n \in AccountSet /\ nextId' \in Nat /\ starts' \in Nat
    BY <1>1, <1>2, <2>1 DEF AccountSet, IInv, Shape
  <2>4. (\A a \in accounts : a.email # e) /\ (\A u \in users : u.email # e)
    BY <1>1, <1>4 DEF IInv, StillSo, TrueOf, AccountOf, RowOf
  <2>5. (\A a \in accounts : a.id # nextId) /\ (\A u \in users : u.id # nextId)
    BY DEF IInv, Fresh, Shape, AccountSet, ProfileSet
  <2>6. OnePerson'
    <3>1. \A a, b \in accounts' : (a.email = b.email \/ a.id = b.id) => a = b
      <4>1. n.email = e /\ n.id = nextId
        OBVIOUS
      <4>2. \A a, b \in accounts : (a.email = b.email \/ a.id = b.id) => a = b
        BY DEF IInv, OnePerson
      <4> HIDE DEF n, e
      <4> QED BY <2>1, <2>4, <2>5, <4>1, <4>2
    <3>2. \A a \in accounts', u \in users' :
            a.email = u.email \/ a.id = u.id => a.email = u.email /\ a.id = u.id /\ a.confirmed
      BY <1>1, <2>1, <2>4, <2>5 DEF IInv, OnePerson
    <3> QED BY <1>1, <3>1, <3>2 DEF IInv, OnePerson
  <2>7. Fresh'
    BY <1>1, <2>1 DEF IInv, Fresh, Shape, AccountSet, ProfileSet
  <2>8. StillSo' /\ req' \in [Clients -> Requests] /\ answer' = [d \in Clients |-> answer'[d]]
    BY <1>4, <2>2, AnswersKeep
  <2> QED BY <1>1, <2>1, <2>3, <2>6, <2>7, <2>8 DEF IInv, Shape
<1>5. CASE adapter = "fake"
  BY <1>3, <1>4, <1>5 DEF Register, FakeRegister
<1>6. CASE adapter # "fake"
  BY <1>3, <1>4, <1>6 DEF Register, SupabaseRegister
<1> QED BY <1>5, <1>6

\* A confirmation changes nothing else about an account.
LEMMA ConfirmingKeeps ==
  ASSUME IInv, NEW e, Confirms(e), UNCHANGED <<tokens, users, nextId, listing, starts, seeded>>
  PROVE  /\ accounts' \subseteq AccountSet /\ OnePerson' /\ Fresh' /\ Grows
<1>1. \A b \in accounts' : \E a \in accounts : b = IF a.email = e THEN [a EXCEPT !.confirmed = TRUE] ELSE a
  BY DEF Confirms
<1>2. \A a \in accounts :
        \E b \in accounts' : b.email = a.email /\ b.id = a.id /\ (a.confirmed => b.confirmed)
  <2> SUFFICES ASSUME NEW a \in accounts
               PROVE  \E b \in accounts' : b.email = a.email /\ b.id = a.id /\ (a.confirmed => b.confirmed)
    OBVIOUS
  <2> DEFINE b == IF a.email = e THEN [a EXCEPT !.confirmed = TRUE] ELSE a
  <2>1. b \in accounts'
    BY DEF Confirms
  <2>2. b.email = a.email /\ b.id = a.id /\ (a.confirmed => b.confirmed)
    BY DEF IInv, Shape, AccountSet
  <2> HIDE DEF b
  <2> QED BY <2>1, <2>2
<1>3. ASSUME NEW b \in accounts'
      PROVE  /\ b \in AccountSet
             /\ \E a \in accounts : b.email = a.email /\ b.id = a.id /\ (a.confirmed => b.confirmed)
  <2>1. PICK a \in accounts : b = IF a.email = e THEN [a EXCEPT !.confirmed = TRUE] ELSE a
    BY <1>1
  <2> QED BY <2>1 DEF IInv, Shape, AccountSet
<1>4. Grows
  BY <1>2 DEF Grows
<1>5. ASSUME NEW a \in accounts', NEW b \in accounts', a.email = b.email \/ a.id = b.id
      PROVE  a = b
  <2>1. PICK x \in accounts : a = IF x.email = e THEN [x EXCEPT !.confirmed = TRUE] ELSE x
    BY <1>1
  <2>2. PICK y \in accounts : b = IF y.email = e THEN [y EXCEPT !.confirmed = TRUE] ELSE y
    BY <1>1
  <2>3. x.email = a.email /\ x.id = a.id /\ y.email = b.email /\ y.id = b.id
    BY <2>1, <2>2 DEF IInv, Shape, AccountSet
  <2>4. x = y
    BY <1>5, <2>3 DEF IInv, OnePerson
  <2> QED BY <2>1, <2>2, <2>4
<1>6. \A a \in accounts', u \in users' :
        a.email = u.email \/ a.id = u.id => a.email = u.email /\ a.id = u.id /\ a.confirmed
  <2> SUFFICES ASSUME NEW a \in accounts', NEW u \in users, a.email = u.email \/ a.id = u.id
               PROVE  a.email = u.email /\ a.id = u.id /\ a.confirmed
    OBVIOUS
  <2>1. PICK x \in accounts : a.email = x.email /\ a.id = x.id /\ (x.confirmed => a.confirmed)
    BY <1>3
  <2> QED BY <2>1 DEF IInv, OnePerson
<1>7. Fresh'
  BY <1>3 DEF IInv, Fresh
<1> QED BY <1>3, <1>4, <1>5, <1>6, <1>7 DEF IInv, OnePerson

LEMMA ConfirmKeeps ==
  ASSUME IInv, NEW c \in Clients, confirm_email(c) \/ verify_signup_code(c)
  PROVE  IInv'
<1>1. UNCHANGED <<adapter, tokens, users, nextId, listing, starts, seeded, given>>
  BY DEF confirm_email, verify_signup_code
<1>2. PICK e \in Emails :
        \/ Confirms(e) /\ \E code : Answers(c, "confirm", e, code)
        \/ UNCHANGED accounts /\ \E code : Answers(c, "confirm", e, code)
  BY DEF confirm_email, verify_signup_code, FakeLink, SupabaseLink, FakeCode, SupabaseCode, Refused
<1>3. CASE Confirms(e)
  BY <1>1, <1>2, <1>3, ConfirmingKeeps, AnswersKeep, StandsStill DEF IInv, Shape
<1>4. CASE UNCHANGED accounts
  BY <1>1, <1>2, <1>4, StandsStill, AnswersKeep, QuietKeeps DEF store, given
<1> QED BY <1>2, <1>3, <1>4

LEMMA ResendKeeps == ASSUME IInv, NEW c \in Clients, resend_signup_code(c) PROVE IInv'
<1>1. Grows /\ UNCHANGED store
  BY StandsStill DEF resend_signup_code, store
<1>2. \E e, code : Answers(c, "resend", e, code)
  BY DEF resend_signup_code, FakeResend, SupabaseResend
<1> QED BY <1>1, <1>2, AnswersKeep, QuietKeeps

\* The account of a session has an address and an id, and the request is well formed.
LEMMA Session ==
  ASSUME IInv, NEW c \in Clients, req[c].step \in SessionSteps
  PROVE  /\ req[c].email \in Emails /\ req[c].session \in AccountSet
         /\ \E a \in accounts : a.id = req[c].session.id /\ a.email = req[c].email /\ a.confirmed
BY DEF IInv, Shape, Requests, Idle, SessionSteps, StillSo, TrueOf

LEMMA SignInKeeps == ASSUME IInv, NEW c \in Clients, SignIn(c) PROVE IInv'
<1>1. UNCHANGED <<adapter, accounts, users, nextId, listing, starts, seeded, given>> /\ Grows
  BY StandsStill DEF SignIn
<1>2. CASE \E e, code : Answers(c, "sign in", e, code)
  BY <1>1, <1>2, AnswersKeep DEF IInv, Shape, OnePerson, Fresh
<1>3. ASSUME NEW a \in accounts, a.confirmed, Issues(c, a) PROVE IInv'
  <2> DEFINE r == [step |-> "profile", email |-> a.email, session |-> a]
  <2>1. r \in Requests /\ req' = [req EXCEPT ![c] = r] /\ answer' = answer
    BY <1>3 DEF Requests, Issues, Continues, SessionSteps, IInv, Shape, AccountSet
  <2>2. TrueOf(r)'
    BY <1>1, <1>3 DEF TrueOf
  <2> QED BY <1>1, <2>1, <2>2, OthersGoOn DEF IInv, Shape, OnePerson, Fresh
<1> QED BY <1>2, <1>3 DEF SignIn, SupabaseSignIn, FakeSignIn, AccountOf

LEMMA ReadsKeeps == ASSUME IInv, NEW c \in Clients, ReadsProfile(c) PROVE IInv'
<1> DEFINE e == req[c].email  s == req[c].session
<1>1. req[c].step \in SessionSteps /\ UNCHANGED store /\ Grows
  BY StandsStill DEF ReadsProfile, SessionSteps, store
<1>2. CASE \E code : Answers(c, "sign in", e, code)
  BY <1>1, <1>2, AnswersKeep, QuietKeeps
<1>3. CASE Continues(c, "insert", e, s)
  <2> DEFINE r == [step |-> "insert", email |-> e, session |-> s]
  <2>1. r \in Requests /\ req' = [req EXCEPT ![c] = r] /\ answer' = answer
    BY <1>1, <1>3, Session DEF Requests, Continues, SessionSteps
  <2>2. TrueOf([step |-> "insert", email |-> e, session |-> s])
    BY <1>1, Session DEF TrueOf
  <2>3. StillSo' /\ req' \in [Clients -> Requests]
    <3>1. PICK q : q = r
      OBVIOUS
    <3>2. TrueOf(q)'
      BY <1>1, <2>2, <3>1 DEF TrueOf, store, Row, RowOf, AccountOf
    <3> QED BY <1>1, <2>1, <3>1, <3>2, OthersGoOn
  <2> QED BY <1>1, <2>1, <2>3, QuietKeeps DEF IInv, Shape
<1> QED BY <1>2, <1>3 DEF ReadsProfile

\* A profile that is in the way is the account's own.
LEMMA InTheWay ==
  ASSUME IInv, NEW c \in Clients, req[c].step \in SessionSteps,
         ~Unique(req[c].session.id, req[c].email)
  PROVE  Row(req[c].session.id) # {}
BY Session DEF Unique, Row, RowOf, IInv, OnePerson

LEMMA CommitKeeps == ASSUME IInv, NEW c \in Clients, CommitsProfile(c) PROVE IInv'
<1> DEFINE e == req[c].email  s == req[c].session
<1>1. req[c].step \in SessionSteps /\ UNCHANGED <<adapter, accounts, tokens, nextId, listing, starts, seeded, given>>
  BY DEF CommitsProfile, SessionSteps
<1>2. PICK a \in accounts : a.id = s.id /\ a.email = e /\ a.confirmed
  BY <1>1, Session
<1>3. CASE Unique(s.id, e) /\ users' = users \cup {[id |-> s.id, email |-> e, role |-> "student"]}
             /\ Answers(c, "sign in", e, "ok")
  <2> DEFINE n == [id |-> s.id, email |-> e, role |-> "student"]
  <2>1. n \in ProfileSet /\ n.id = s.id /\ n.email = e
    BY <1>1, Session DEF ProfileSet, AccountSet, Roles
  <2>2. users' = users \cup {n}
    BY <1>3
  <2>3. \A u \in users : u.id # s.id /\ u.email # e
    BY <1>3 DEF Unique, Row, RowOf
  <2> HIDE DEF n
  <2>4. Grows
    BY <1>1, <1>2, <2>1, <2>2 DEF Grows
  <2>5. \A u, v \in users' : (u.email = v.email \/ u.id = v.id) => u = v
    BY <2>1, <2>2, <2>3 DEF IInv, OnePerson
  <2>6. \A b \in accounts, u \in users' :
          b.email = u.email \/ b.id = u.id => b.email = u.email /\ b.id = u.id /\ b.confirmed
    BY <1>2, <2>1, <2>2 DEF IInv, OnePerson
  <2>7. Fresh'
    BY <1>1, <1>2, <2>1, <2>2 DEF IInv, Fresh
  <2>8. StillSo' /\ req' \in [Clients -> Requests] /\ answer' = [d \in Clients |-> answer'[d]]
    BY <1>3, <2>4, AnswersKeep
  <2> QED BY <1>1, <2>1, <2>2, <2>5, <2>6, <2>7, <2>8 DEF IInv, Shape, OnePerson
<1>4. CASE ~Unique(s.id, e) /\ Continues(c, "reload", e, s) /\ UNCHANGED users
  <2> DEFINE r == [step |-> "reload", email |-> e, session |-> s]
  <2>1. r \in Requests /\ req' = [req EXCEPT ![c] = r] /\ answer' = answer
    BY <1>1, <1>4, Session DEF Requests, Continues, SessionSteps
  <2>2. Grows /\ UNCHANGED store
    BY <1>1, <1>4, StandsStill DEF store, given
  <2>3. TrueOf(r)
    BY <1>1, <1>2, <1>4, InTheWay DEF TrueOf
  <2>4. PICK q : q = r
    OBVIOUS
  <2>5. TrueOf(q)'
    BY <2>2, <2>3, <2>4 DEF TrueOf, store, Row, RowOf, AccountOf
  <2> QED BY <2>1, <2>2, <2>4, <2>5, OthersGoOn, QuietKeeps DEF IInv, Shape
<1> QED BY <1>3, <1>4 DEF CommitsProfile

LEMMA ReloadKeeps == ASSUME IInv, NEW c \in Clients, ReloadsProfile(c) PROVE IInv'
<1>1. Grows /\ UNCHANGED store
  BY StandsStill DEF ReloadsProfile, store
<1> QED BY <1>1, AnswersKeep, QuietKeeps DEF ReloadsProfile

LEMMA AsksKeeps == ASSUME IInv, NEW c \in Clients, Asks(c) PROVE IInv'
<1>1. Grows /\ UNCHANGED store
  BY StandsStill DEF Asks, store
<1>2. CASE \E code : Answers(c, "ask", "", code)
  BY <1>1, <1>2, AnswersKeep, QuietKeeps
<1>3. ASSUME NEW x, req' = req, answer' = [answer EXCEPT ![c] = x] PROVE IInv'
  <2>1. answer' = [d \in Clients |-> answer'[d]]
    BY <1>3 DEF IInv, Shape
  <2>2. StillSo'
    BY <1>1, <1>3 DEF IInv, StillSo, TrueOf, Row, RowOf, AccountOf, store
  <2> QED BY <1>1, <1>3, <2>1, <2>2, QuietKeeps DEF IInv, Shape
<1> QED BY <1>2, <1>3 DEF Asks

LEMMA NothingElse ==
  ASSUME IInv, UNCHANGED <<accounts, users, nextId, starts, req, answer>>
  PROVE  IInv'
BY DEF IInv, Shape, OnePerson, Fresh, StillSo, TrueOf, Row, RowOf, AccountOf

\* What is done by hand: a profile gets another role and stays the same otherwise.
LEMMA PromotionIs ==
  ASSUME IInv, Promote
  PROVE  \E u \in users, p \in ProfileSet : \E g :
           /\ p.id = u.id /\ p.email = u.email /\ p.role # "student"
           /\ g.email = u.email /\ g.role = p.role /\ g.start = starts
           /\ users' = (users \ {u}) \cup {p} /\ granted' = granted \cup {g}
           /\ promotions' = promotions + 1
           /\ UNCHANGED <<adapter, accounts, tokens, nextId, listing, starts, seeded, req, answer>>
<1>1. PICK u \in users, role \in {"farmer", "admin"} :
        /\ users' = (users \ {u}) \cup {[u EXCEPT !.role = role]}
        /\ granted' = granted \cup Grants({[email |-> u.email, role |-> role]}, starts)
  BY DEF Promote
<1> DEFINE p == [u EXCEPT !.role = role]
           x == [email |-> u.email, role |-> role]
           g == [email |-> u.email, role |-> role, start |-> starts]
<1>2. p \in ProfileSet /\ p.id = u.id /\ p.email = u.email /\ p.role = role /\ role # "student"
  BY DEF IInv, Shape, ProfileSet, Roles
<1>3. x.email = u.email /\ x.role = role /\ g.email = u.email /\ g.role = role /\ g.start = starts
  OBVIOUS
<1>4. Grants({x}, starts) = {g}
  <2>1. {y \in {x} : y.role # "student"} = {x} BY <1>2, <1>3
  <2>2. [email |-> x.email, role |-> x.role, start |-> starts] = g BY <1>3
  <2> QED BY <2>1, <2>2 DEF Grants
<1>5. users' = (users \ {u}) \cup {p} /\ granted' = granted \cup {g} BY <1>1, <1>4
<1> HIDE DEF p, g, x
<1> QED BY <1>2, <1>3, <1>5 DEF Promote

LEMMA PromoteKeeps == ASSUME IInv, Promote PROVE IInv'
<1>1. PICK u \in users, p \in ProfileSet :
        /\ p.id = u.id /\ p.email = u.email /\ users' = (users \ {u}) \cup {p}
        /\ UNCHANGED <<adapter, accounts, tokens, nextId, listing, starts, seeded, req, answer>>
  BY PromotionIs
<1>3. \A v \in users' : \E w \in users : w.id = v.id /\ w.email = v.email
  BY <1>1
<1>4. \A w \in users : \E v \in users' : v.id = w.id /\ v.email = w.email
  BY <1>1
<1>5. users' \subseteq ProfileSet BY <1>1 DEF IInv, Shape
<1>6. \A v, w \in users' : (v.email = w.email \/ v.id = w.id) => v = w
  BY <1>1 DEF IInv, OnePerson
<1>7. OnePerson'
  BY <1>1, <1>3, <1>6 DEF IInv, OnePerson
<1>8. Fresh' BY <1>1, <1>3 DEF IInv, Fresh
<1>9. \A e : RowOf(e) = {} <=> RowOf(e)' = {}
  BY <1>3, <1>4 DEF RowOf
<1>10. \A id : Row(id) = {} <=> Row(id)' = {}
  BY <1>3, <1>4 DEF Row
<1>11. ASSUME NEW r, TrueOf(r) PROVE TrueOf(r)'
  BY <1>1, <1>9, <1>10, <1>11 DEF TrueOf, AccountOf
<1>12. StillSo' BY <1>1, <1>11 DEF IInv, StillSo
<1> QED BY <1>1, <1>5, <1>7, <1>8, <1>12 DEF IInv, Shape

\* The inductive invariant holds of every behaviour.
THEOREM Invariant == Spec => []IInv
<1>1. IInv /\ [Next]_vars => IInv'
  <2> SUFFICES ASSUME IInv, [Next]_vars PROVE IInv'
    OBVIOUS
  <2>1. CASE Start
    BY <2>1, StartKeeps
  <2>2. CASE TokenExpires \/ UNCHANGED vars
    BY <2>2, NothingElse DEF TokenExpires, vars
  <2>3. ASSUME NEW c \in Clients, StudentSignup(c) \/ Register(c) PROVE IInv'
    BY <2>3, SignupKeeps, RegisterKeeps
  <2>4. ASSUME NEW c \in Clients, confirm_email(c) \/ verify_signup_code(c) \/ resend_signup_code(c)
        PROVE  IInv'
    BY <2>4, ConfirmKeeps, ResendKeeps
  <2>5. ASSUME NEW c \in Clients, SignIn(c) \/ ReadsProfile(c) \/ CommitsProfile(c) \/ ReloadsProfile(c)
        PROVE  IInv'
    BY <2>5, SignInKeeps, ReadsKeeps, CommitKeeps, ReloadKeeps
  <2>6. ASSUME NEW c \in Clients, Asks(c) PROVE IInv'
    BY <2>6, AsksKeeps
  <2>7. CASE Promote
    BY <2>7, PromoteKeeps
  <2> QED BY <2>1, <2>2, <2>3, <2>4, <2>5, <2>6, <2>7 DEF Next
<1> QED BY <1>1, InitHolds, PTL DEF Spec

\* A profile is its account's: an address that has both has one id for them.
THEOREM ProfilesAreTheirs == Spec => []ProfileIsItsAccounts
<1>1. IInv => ProfileIsItsAccounts
  BY DEF IInv, OnePerson, ProfileIsItsAccounts
<1> QED BY <1>1, Invariant, PTL

-------------------------------------------------------------------------------
(* Profiles stay *)

\* What the requests do to the profiles: at most one more.
LEMMA RequestsAddProfiles ==
  ASSUME IInv, [Next]_vars, ~Start, ~Promote
  PROVE  users \subseteq users' /\ starts' = starts /\ granted' = granted /\ promotions' = promotions
<1>1. ASSUME NEW c \in Clients, CommitsProfile(c) 
      PROVE  users \subseteq users' /\ starts' = starts /\ granted' = granted /\ promotions' = promotions
  BY <1>1 DEF CommitsProfile, given
<1>2. ASSUME NEW c \in Clients,
             \/ StudentSignup(c) \/ resend_signup_code(c) \/ ReadsProfile(c) \/ ReloadsProfile(c) \/ Asks(c)
      PROVE  users' = users /\ starts' = starts /\ granted' = granted /\ promotions' = promotions
  BY <1>2 DEF StudentSignup, resend_signup_code, ReadsProfile, ReloadsProfile, Asks, store
<1>3. ASSUME NEW c \in Clients,
             Register(c) \/ confirm_email(c) \/ verify_signup_code(c) \/ SignIn(c)
      PROVE  users' = users /\ starts' = starts /\ granted' = granted /\ promotions' = promotions
  BY <1>3 DEF Register, confirm_email, verify_signup_code, SignIn, given
<1>4. CASE TokenExpires \/ UNCHANGED vars
  BY <1>4 DEF TokenExpires, vars, given
<1> QED BY <1>1, <1>2, <1>3, <1>4 DEF Next

\* A start keeps every profile's id and address.
LEMMA StartKeepsProfiles ==
  ASSUME IInv, Start, NEW u \in users
  PROVE  starts' # starts /\ \E v \in users' : v.id = u.id /\ v.email = u.email
<1>1. starts' # starts
  BY DEF Start, IInv, Shape
<1>2. CASE users' = users
  BY <1>1, <1>2
<1>3. CASE users' # users
  <2>1. PICK list \in Listings, ids \in [Emails -> 1..MaxIds] :
          SeedIds(list, ids) /\ users' = SeedRows(list, ids)
    BY <1>3 DEF Start, Seeds
  <2>2. list \in Seq(People)
    BY ListingsAssumption
  <2>3. CASE \A x \in Entries(list) : x.email # u.email
    BY <1>1, <2>1, <2>3 DEF SeedRows
  <2>4. ASSUME NEW x \in Entries(list), x.email = u.email
        PROVE  \E v \in users' : v.id = u.id /\ v.email = u.email
    <3>1. [id |-> ids[x.email], email |-> x.email, role |-> x.role] \in users'
      BY <2>1 DEF SeedRows
    <3>2. ids[x.email] = u.id
      BY <2>1, <2>2, <2>4, SeedIdsFit DEF IInv
    <3> QED BY <2>4, <3>1, <3>2
  <2> QED BY <1>1, <2>3, <2>4
<1> QED BY <1>2, <1>3

\* The count of roles given by hand is a number.
LEMMA PromotionsCounted == Spec => [](promotions \in Nat)
<1>1. Init => promotions \in Nat BY DEF Init
<1>2. IInv /\ promotions \in Nat /\ [Next]_vars => (promotions \in Nat)'
  <2> SUFFICES ASSUME IInv, promotions \in Nat, [Next]_vars PROVE promotions' \in Nat OBVIOUS
  <2>1. CASE Start BY <2>1 DEF Start
  <2>2. CASE Promote BY <2>2 DEF Promote
  <2>3. CASE ~Start /\ ~Promote BY <2>3, RequestsAddProfiles
  <2> QED BY <2>1, <2>2, <2>3
<1> QED BY <1>1, <1>2, Invariant, PTL DEF Spec

\* No request, no start and no hand takes a profile away, and only a start or a hand changes
\* its role.
THEOREM ProfilesRemain == Spec => ProfilesStay
<1>1. IInv /\ promotions \in Nat /\ [Next]_vars =>
        \A u \in users : \E v \in users' :
          /\ v.id = u.id /\ v.email = u.email
          /\ v.role # u.role => starts' # starts \/ promotions' # promotions
  <2> SUFFICES ASSUME IInv, promotions \in Nat, [Next]_vars, NEW u \in users
               PROVE  \E v \in users' : v.id = u.id /\ v.email = u.email
                        /\ (v.role # u.role => starts' # starts \/ promotions' # promotions)
    OBVIOUS
  <2>1. CASE Start BY <2>1, StartKeepsProfiles
  <2>2. CASE Promote
    <3>1. PICK w \in users, p \in ProfileSet :
            /\ p.id = w.id /\ p.email = w.email /\ users' = (users \ {w}) \cup {p}
            /\ promotions' = promotions + 1
      BY <2>2, PromotionIs
    <3>2. promotions' # promotions BY <3>1
    <3> QED BY <3>1, <3>2
  <2>3. CASE ~Start /\ ~Promote BY <2>3, RequestsAddProfiles
  <2> QED BY <2>1, <2>2, <2>3
<1>2. IInv /\ promotions \in Nat /\ [Next]_vars =>
        [\A u \in users : \E v \in users' :
          /\ v.id = u.id /\ v.email = u.email
          /\ v.role # u.role => starts' # starts \/ promotions' # promotions]_vars
  BY <1>1
<1> QED BY <1>2, Invariant, PromotionsCounted, PTL DEF Spec, ProfilesStay

-------------------------------------------------------------------------------
(* Two first sign-ins at once *)

NoConflict == \A c \in Clients : answer[c].op = "sign in" => answer[c].code # "conflict"

\* An answer that is no conflict of a sign-in.
LEMMA AnswersWell ==
  ASSUME IInv, NoConflict, NEW c \in Clients, NEW op, NEW e, NEW code, Answers(c, op, e, code),
         op = "sign in" => code # "conflict"
  PROVE  NoConflict'
BY DEF Answers, NoConflict, IInv, Shape

\* A sign-in that finds another's profile in the way finds its own: it is never answered
\* with a conflict.
THEOREM SecondSignIn == Spec => []SecondSignInSucceeds
<1>1. Init => NoConflict
  <2>1. NoAnswer.op # "sign in"
    BY DEF NoAnswer
  <2> QED BY <2>1 DEF Init, NoConflict
<1>2. IInv /\ NoConflict /\ [Next]_vars => NoConflict'
  <2> SUFFICES ASSUME IInv, NoConflict, [Next]_vars PROVE NoConflict'
    OBVIOUS
  <2>1. ASSUME answer' = answer PROVE NoConflict'
    BY <2>1 DEF NoConflict
  <2>2. CASE Start \/ TokenExpires \/ Promote \/ UNCHANGED vars
    BY <2>1, <2>2 DEF Start, TokenExpires, Promote, vars
  <2>3. ASSUME NEW c \in Clients, StudentSignup(c) \/ Register(c) PROVE NoConflict'
    <3>1. (\E e, code : Answers(c, "sign up", e, code)) \/ answer' = answer
      BY <2>3 DEF StudentSignup, signup_student, Continues, Register, FakeRegister, SupabaseRegister
    <3> QED BY <2>1, <3>1, AnswersWell
  <2>4. ASSUME NEW c \in Clients, confirm_email(c) \/ verify_signup_code(c) \/ resend_signup_code(c)
        PROVE  NoConflict'
    <3>1. \E op \in {"confirm", "resend"} : \E e, code : Answers(c, op, e, code)
      BY <2>4 DEF confirm_email, verify_signup_code, resend_signup_code, FakeLink, SupabaseLink,
                  FakeCode, SupabaseCode, FakeResend, SupabaseResend, Refused
    <3> QED BY <3>1, AnswersWell
  <2>5. ASSUME NEW c \in Clients, SignIn(c) \/ ReadsProfile(c) \/ CommitsProfile(c) PROVE NoConflict'
    <3> DEFINE Other == {"ok", "unauthorized", "bad request", "metadata missing"}
    <3>1. CASE SignIn(c)
      <4>1. answer' = answer \/ \E e : \E code \in Other : Answers(c, "sign in", e, code)
        BY <3>1 DEF SignIn, SupabaseSignIn, FakeSignIn, Issues, Continues
      <4> QED BY <2>1, <4>1, AnswersWell
    <3>2. CASE ReadsProfile(c)
      <4>1. answer' = answer \/ \E e : \E code \in Other : Answers(c, "sign in", e, code)
        BY <3>2 DEF ReadsProfile, Continues
      <4> QED BY <2>1, <4>1, AnswersWell
    <3>3. CASE CommitsProfile(c)
      <4>1. answer' = answer \/ \E e : \E code \in Other : Answers(c, "sign in", e, code)
        BY <3>3 DEF CommitsProfile, Continues
      <4> QED BY <2>1, <4>1, AnswersWell
    <3> QED BY <2>5, <3>1, <3>2, <3>3
  <2>6. ASSUME NEW c \in Clients, ReloadsProfile(c) PROVE NoConflict'
    <3>1. Row(req[c].session.id) # {}
      BY <2>6 DEF ReloadsProfile, IInv, StillSo, TrueOf
    <3>2. \E e : Answers(c, "sign in", e, "ok")
      BY <2>6, <3>1 DEF ReloadsProfile
    <3> QED BY <3>2, AnswersWell
  <2>7. ASSUME NEW c \in Clients, Asks(c) PROVE NoConflict'
    <3>1. CASE \E code : Answers(c, "ask", "", code)
      BY <3>1, AnswersWell
    <3>2. CASE \E x : x.op = "ask" /\ answer' = [answer EXCEPT ![c] = x]
      BY <3>2 DEF NoConflict, IInv, Shape
    <3> QED BY <2>7, <3>1, <3>2 DEF Asks
  <2> QED BY <2>2, <2>3, <2>4, <2>5, <2>6, <2>7 DEF Next
<1>3. NoConflict => SecondSignInSucceeds
  BY DEF NoConflict, SecondSignInSucceeds
<1> QED BY <1>1, <1>2, <1>3, Invariant, PTL DEF Spec

-------------------------------------------------------------------------------
(* Demo accounts and staff *)

\* What the requests do to the accounts: none goes, none is given to somebody's profile.
LEMMA RequestsKeepAccounts ==
  ASSUME IInv, [Next]_vars, ~Start
  PROVE  /\ listing' = listing /\ seeded' = seeded
         /\ \A a \in accounts :
              \E b \in accounts' : b.email = a.email /\ b.id = a.id /\ (a.confirmed => b.confirmed)
         /\ \A b \in accounts', u \in users : b.id = u.id => \E a \in accounts : a.id = u.id
<1> DEFINE Stay ==
      /\ listing' = listing /\ seeded' = seeded
      /\ \A a \in accounts :
           \E b \in accounts' : b.email = a.email /\ b.id = a.id /\ (a.confirmed => b.confirmed)
      /\ \A b \in accounts', u \in users : b.id = u.id => \E a \in accounts : a.id = u.id
<1>1. ASSUME UNCHANGED <<accounts, listing, seeded>> PROVE Stay
  BY <1>1
<1>2. ASSUME NEW c \in Clients,
             \/ StudentSignup(c) \/ resend_signup_code(c) \/ ReadsProfile(c) \/ ReloadsProfile(c)
             \/ Asks(c) \/ SignIn(c) \/ CommitsProfile(c)
      PROVE  Stay
  BY <1>1, <1>2 DEF StudentSignup, resend_signup_code, ReadsProfile, ReloadsProfile, Asks, SignIn,
                    CommitsProfile, store
<1>3. ASSUME NEW c \in Clients, Register(c) PROVE Stay
  <2>1. CASE UNCHANGED accounts
    BY <1>1, <1>3, <2>1 DEF Register
  <2>2. CASE \E e : Creates(e)
    <3>1. PICK n : n.id = nextId /\ accounts' = accounts \cup {n}
      BY <2>2 DEF Creates
    <3>2. \A u \in users : u.id # nextId
      BY DEF IInv, Fresh, Shape, ProfileSet
    <3>3. listing' = listing /\ seeded' = seeded
      BY <1>3 DEF Register
    <3> QED BY <3>1, <3>2, <3>3
  <2> QED BY <1>3, <2>1, <2>2 DEF Register, FakeRegister, SupabaseRegister
<1>4. ASSUME NEW c \in Clients, confirm_email(c) \/ verify_signup_code(c) PROVE Stay
  <2>1. UNCHANGED <<tokens, users, nextId, listing, starts, seeded>>
    BY <1>4 DEF confirm_email, verify_signup_code
  <2>2. UNCHANGED accounts \/ \E e : Confirms(e)
    BY <1>4 DEF confirm_email, verify_signup_code, FakeLink, SupabaseLink, FakeCode, SupabaseCode, Refused
  <2>3. ASSUME NEW e, Confirms(e) PROVE Stay
    <3>1. accounts' \subseteq AccountSet /\ OnePerson' /\ Grows
      BY <2>1, <2>3, ConfirmingKeeps
    <3>2. \A b \in accounts' : \E a \in accounts : b = IF a.email = e THEN [a EXCEPT !.confirmed = TRUE] ELSE a
      BY <2>3 DEF Confirms
    <3>3. \A b \in accounts' : \E a \in accounts : b.id = a.id
      BY <3>2 DEF IInv, Shape, AccountSet
    <3> QED BY <2>1, <3>1, <3>3 DEF Grows
  <2> QED BY <1>1, <2>1, <2>2, <2>3
<1>5. CASE TokenExpires \/ Promote \/ UNCHANGED vars
  BY <1>1, <1>5 DEF TokenExpires, Promote, vars
<1> QED BY <1>2, <1>3, <1>4, <1>5 DEF Next

\* The adapter is for good.
LEMMA AdapterStays == ASSUME [Next]_vars PROVE adapter' = adapter
<1>1. ASSUME NEW c \in Clients, \/ StudentSignup(c) \/ resend_signup_code(c) \/ ReadsProfile(c)
                                \/ ReloadsProfile(c) \/ Asks(c)
      PROVE  adapter' = adapter
  BY <1>1 DEF StudentSignup, resend_signup_code, ReadsProfile, ReloadsProfile, Asks, store
<1>2. ASSUME NEW c \in Clients, \/ Register(c) \/ confirm_email(c) \/ verify_signup_code(c)
                                \/ SignIn(c) \/ CommitsProfile(c)
      PROVE  adapter' = adapter
  BY <1>2 DEF Register, confirm_email, verify_signup_code, SignIn, CommitsProfile
<1>3. CASE Start \/ TokenExpires \/ Promote \/ UNCHANGED vars
  BY <1>3 DEF Start, TokenExpires, Promote, vars
<1> QED BY <1>1, <1>2, <1>3 DEF Next

\* Unless the latest seeding failed, every account it has made can sign in, and finds the
\* profile with the account's id.
THEOREM DemoReady == Spec => []DemoAccountsAreReady
<1> DEFINE ReadyFor(x) == \E a \in accounts, u \in users :
             a.email = x.email /\ a.confirmed /\ u.id = a.id /\ u.email = x.email
           Sown == adapter = "fake" /\ seeded => \A x \in Entries(listing) : ReadyFor(x)
<1>1. Init => Sown
  BY DEF Init, Entries
<1>2. IInv /\ Sown /\ [Next]_vars => Sown'
  <2> SUFFICES ASSUME IInv, Sown, [Next]_vars, adapter = "fake", seeded'
               PROVE  (\A x \in Entries(listing) : ReadyFor(x))'
    BY AdapterStays
  <2>1. CASE Start
    <3>1. PICK list \in Listings, ids \in [Emails -> 1..MaxIds] :
            listing' = list /\ accounts' = SeedAccounts(list, ids) /\ users' = SeedRows(list, ids)
      BY <2>1 DEF Start, Seeds
    <3>2. ASSUME NEW x \in Entries(list)
          PROVE  \E a \in accounts', u \in users' :
                   a.email = x.email /\ a.confirmed /\ u.id = a.id /\ u.email = x.email
      <4> DEFINE a == [email |-> x.email, id |-> ids[x.email], confirmed |-> TRUE, complete |-> FALSE]
                 u == [id |-> ids[x.email], email |-> x.email, role |-> x.role]
      <4>1. a \in accounts' /\ u \in users'
        BY <3>1, <3>2 DEF SeedAccounts, SeedRows
      <4>2. a.email = x.email /\ a.confirmed /\ u.id = a.id /\ u.email = x.email
        OBVIOUS
      <4> HIDE DEF a, u
      <4> QED BY <4>1, <4>2
    <3>3. Entries(listing)' = Entries(list)
      BY <3>1 DEF Entries
    <3> QED BY <3>2, <3>3
  <2>2. CASE ~Start
    <3>1. Entries(listing)' = Entries(listing) /\ seeded
      <4>1. listing' = listing /\ seeded
        BY <2>2, RequestsKeepAccounts
      <4> QED BY <4>1 DEF Entries
    <3>2. ASSUME NEW x \in Entries(listing)
          PROVE  \E a \in accounts', u \in users' :
                   a.email = x.email /\ a.confirmed /\ u.id = a.id /\ u.email = x.email
      <4>1. PICK a \in accounts, u \in users :
              a.email = x.email /\ a.confirmed /\ u.id = a.id /\ u.email = x.email
        BY <3>1, <3>2
      <4>2. PICK b \in accounts' : b.email = a.email /\ b.id = a.id /\ b.confirmed
        BY <2>2, <4>1, RequestsKeepAccounts
      <4>3. \E v \in users' : v.id = u.id /\ v.email = u.email
        <5>1. CASE Promote
          <6>1. PICK w \in users, p \in ProfileSet :
                  p.id = w.id /\ p.email = w.email /\ users' = (users \ {w}) \cup {p}
            BY <5>1, PromotionIs
          <6> QED BY <6>1
        <5>2. CASE ~Promote
          BY <2>2, <5>2, RequestsAddProfiles
        <5> QED BY <5>1, <5>2
      <4> QED BY <4>1, <4>2, <4>3
    <3> QED BY <3>1, <3>2
  <2> QED BY <2>1, <2>2
<1>3. Sown => DemoAccountsAreReady
  BY DEF DemoAccountsAreReady, AccountOf
<1> QED BY <1>1, <1>2, <1>3, Invariant, PTL DEF Spec

\* Every role above student was given, and a token is of an account.
RolesAreGiven ==
  /\ \A u \in users : u.role # "student" => \E x \in granted : x.email = u.email /\ x.role = u.role
  /\ \A id \in tokens : \E a \in accounts : a.id = id

\* Whoever has an account of the fake's and a role above student is listed or was promoted
\* since the start.
AccountsAreListed ==
  adapter = "fake" => \A u \in users, a \in accounts : a.id = u.id /\ u.role # "student" =>
    \/ \E x \in Entries(listing) : x.email = u.email
    \/ \E x \in granted : x.email = u.email /\ x.start = starts

\* The profiles a request adds are students', and a new token is of an account.
LEMMA RequestsGiveNothing ==
  ASSUME IInv, [Next]_vars, ~Start, ~Promote
  PROVE  /\ \A u \in users' \ users : u.role = "student"
         /\ \A id \in tokens' \ tokens : \E a \in accounts : a.id = id
<1>1. ASSUME NEW c \in Clients, CommitsProfile(c)
      PROVE  (\A u \in users' \ users : u.role = "student") /\ tokens' = tokens
  <2>1. users' = users \/ \E n : n.role = "student" /\ users' = users \cup {n}
    BY <1>1 DEF CommitsProfile
  <2>2. tokens' = tokens
    BY <1>1 DEF CommitsProfile
  <2> QED BY <2>1, <2>2
<1>2. ASSUME NEW c \in Clients, SignIn(c)
      PROVE  users' = users /\ \A id \in tokens' \ tokens : \E a \in accounts : a.id = id
  BY <1>2 DEF SignIn, SupabaseSignIn, FakeSignIn, Issues, AccountOf
<1>3. ASSUME NEW c \in Clients,
             \/ StudentSignup(c) \/ resend_signup_code(c) \/ ReadsProfile(c) \/ ReloadsProfile(c) \/ Asks(c)
      PROVE  users' = users /\ tokens' = tokens
  BY <1>3 DEF StudentSignup, resend_signup_code, ReadsProfile, ReloadsProfile, Asks, store
<1>4. ASSUME NEW c \in Clients, Register(c) \/ confirm_email(c) \/ verify_signup_code(c)
      PROVE  users' = users /\ tokens' = tokens
  BY <1>4 DEF Register, confirm_email, verify_signup_code
<1>5. CASE TokenExpires \/ UNCHANGED vars
  BY <1>5 DEF TokenExpires, vars
<1> QED BY <1>1, <1>2, <1>3, <1>4, <1>5 DEF Next

\* Only a request with a token is told "ok" for asking, and its role permits what it asks.
LEMMA AskedWithAToken ==
  ASSUME IInv, [Next]_vars, NEW c \in Clients, answer'[c] # answer[c],
         answer'[c].op = "ask", answer'[c].code = "ok"
  PROVE  /\ UNCHANGED store
         /\ \E id \in tokens, u \in users :
              u.id = id /\ answer'[c].email = u.email /\ Permits(answer'[c].allowed, u.role)
<1>1. \A d \in Clients : \A op, e, code : Answers(d, op, e, code) => op = "ask" /\ code = "ok"
  <2> SUFFICES ASSUME NEW d \in Clients, NEW op, NEW e, NEW code, Answers(d, op, e, code)
               PROVE  op = "ask" /\ code = "ok"
    OBVIOUS
  <2> QED BY DEF Answers, IInv, Shape
<1>2. ~Start /\ ~TokenExpires /\ ~Promote /\ ~UNCHANGED vars
  BY DEF Start, TokenExpires, Promote, vars
<1>3. ASSUME NEW d \in Clients PROVE ~StudentSignup(d) /\ ~Register(d)
  <2>1. \A e, code : ~Answers(d, "sign up", e, code)
    <3>1. "sign up" # "ask"
      OBVIOUS
    <3> QED BY ONLY <1>1, <1>3, <3>1
  <2> QED BY <2>1 DEF StudentSignup, signup_student, Continues, Register, FakeRegister, SupabaseRegister
<1>4. ASSUME NEW d \in Clients
      PROVE  ~confirm_email(d) /\ ~verify_signup_code(d) /\ ~resend_signup_code(d)
  <2>1. ~\E e, code : Answers(d, "confirm", e, code) \/ Answers(d, "resend", e, code)
    BY <1>1
  <2> QED BY <2>1 DEF confirm_email, verify_signup_code, resend_signup_code, FakeLink, SupabaseLink,
                      FakeCode, SupabaseCode, FakeResend, SupabaseResend, Refused
<1>5. ASSUME NEW d \in Clients
      PROVE  ~SignIn(d) /\ ~ReadsProfile(d) /\ ~CommitsProfile(d) /\ ~ReloadsProfile(d)
  <2>1. \A e, code : ~Answers(d, "sign in", e, code)
    <3>1. "sign in" # "ask"
      OBVIOUS
    <3> QED BY ONLY <1>1, <1>5, <3>1
  <2>2. ~(answer' = answer)
    OBVIOUS
  <2> QED BY <2>1, <2>2 DEF SignIn, SupabaseSignIn, FakeSignIn, Issues, Continues, ReadsProfile,
                            CommitsProfile, ReloadsProfile
<1>6. Next /\ ~Start /\ ~TokenExpires /\ ~Promote
  BY <1>2
<1>7. \E d \in Clients : Asks(d)
  BY <1>3, <1>4, <1>5, <1>6 DEF Next
<1>8. PICK d \in Clients : Asks(d)
  BY <1>7
<1>9. PICK id \in 1..(nextId - 1) : \E allowed \in Guards : \E u \in Holder(id) :
        answer' = [answer EXCEPT ![d] =
          [op |-> "ask", email |-> u.email, role |-> u.role, allowed |-> allowed,
           code |-> IF Permits(allowed, u.role) THEN "ok" ELSE "forbidden"]]
  <2>1. "unauthorized" # "ok" /\ "bad request" # "ok"
    OBVIOUS
  <2>2. ~Answers(d, "ask", "", "unauthorized") /\ ~Answers(d, "ask", "", "bad request")
    BY <1>1, <2>1
  <2> QED BY ONLY <1>8, <2>2 DEF Asks
<1>10. PICK allowed \in Guards, u \in Holder(id) :
        answer' = [answer EXCEPT ![d] =
          [op |-> "ask", email |-> u.email, role |-> u.role, allowed |-> allowed,
           code |-> IF Permits(allowed, u.role) THEN "ok" ELSE "forbidden"]]
  BY <1>9
<1>11. c = d
  BY <1>10 DEF IInv, Shape
<1>12. answer'[c] = [op |-> "ask", email |-> u.email, role |-> u.role, allowed |-> allowed,
                    code |-> IF Permits(allowed, u.role) THEN "ok" ELSE "forbidden"]
  BY <1>10, <1>11 DEF IInv, Shape
<1>13. Permits(allowed, u.role) /\ answer'[c].email = u.email /\ answer'[c].allowed = allowed
  BY <1>12
<1>14. u \in users /\ u.id = id /\ id \in tokens
  BY <1>10 DEF Holder, Row
<1> QED BY <1>8, <1>13, <1>14 DEF Asks

LEMMA RolesStayGiven ==
  ASSUME IInv, RolesAreGiven, AccountsAreListed, [Next]_vars
  PROVE  RolesAreGiven' /\ AccountsAreListed'
<1>0. adapter' = adapter BY AdapterStays
<1>1. CASE Start /\ adapter = "fake"
  <2>1. PICK list \in Listings, ids \in [Emails -> 1..MaxIds] :
          /\ listing' = list /\ tokens' = {}
          /\ \/ accounts' = SeedAccounts(list, ids) /\ users' = SeedRows(list, ids)
                /\ granted' = granted \cup Grants(Entries(list), starts')
             \/ users' = users /\ granted' = granted
                /\ \E n \in 0..Len(list) : accounts' = SeedAccounts(SubSeq(list, 1, n), ids)
    BY <1>1 DEF Start, Seeds
  <2>2. list \in Seq(People) BY ListingsAssumption
  <2>3. \A x \in Entries(list) : x.role # "student" =>
          [email |-> x.email, role |-> x.role, start |-> starts'] \in Grants(Entries(list), starts')
    BY DEF Grants
  <2>4. ASSUME NEW u \in users', u.role # "student"
        PROVE  \E x \in granted' : x.email = u.email /\ x.role = u.role
    <3>1. CASE u \in users BY <2>1, <2>4, <3>1 DEF RolesAreGiven
    <3>2. CASE u \notin users
      <4>1. users' = SeedRows(list, ids) /\ granted' = granted \cup Grants(Entries(list), starts')
        BY <2>1, <3>2
      <4>2. PICK x \in Entries(list) : u = [id |-> ids[x.email], email |-> x.email, role |-> x.role]
        BY <3>2, <4>1 DEF SeedRows
      <4>3. u.email = x.email /\ u.role = x.role BY <4>2
      <4>4. [email |-> x.email, role |-> x.role, start |-> starts'] \in granted'
        BY <2>3, <2>4, <4>1, <4>3
      <4> QED BY <4>3, <4>4
    <3> QED BY <3>1, <3>2
  <2>5. ASSUME NEW a \in accounts' PROVE \E x \in Entries(list) : x.email = a.email
    <3>1. CASE accounts' = SeedAccounts(list, ids)
      BY <3>1 DEF SeedAccounts
    <3>2. ASSUME NEW n \in 0..Len(list), accounts' = SeedAccounts(SubSeq(list, 1, n), ids)
          PROVE  \E x \in Entries(list) : x.email = a.email
      <4>1. \E x \in Entries(SubSeq(list, 1, n)) : x.email = a.email
        BY <3>2 DEF SeedAccounts
      <4> QED BY <2>2, <4>1, PrefixEntries
    <3> QED BY <2>1, <3>1, <3>2
  <2>6. ASSUME NEW u \in users', NEW a \in accounts', a.id = u.id
        PROVE  \E x \in Entries(list) : x.email = u.email
    <3>1. IInv' BY <1>1, StartKeeps
    <3>2. a.email = u.email BY <2>6, <3>1 DEF IInv, OnePerson
    <3> QED BY <2>5, <3>2
  <2>7. Entries(listing)' = Entries(list) BY <2>1 DEF Entries
  <2>8. RolesAreGiven' BY <2>1, <2>4 DEF RolesAreGiven
  <2>9. AccountsAreListed' BY <2>6, <2>7 DEF AccountsAreListed
  <2> QED BY <2>8, <2>9
<1>2. CASE Start /\ adapter # "fake"
  <2>1. UNCHANGED <<accounts, tokens, users, granted>> BY <1>2 DEF Start
  <2> QED BY <1>0, <1>2, <2>1 DEF RolesAreGiven, AccountsAreListed
<1>3. CASE Promote
  <2>0. PICK u \in users, p \in ProfileSet : \E g :
          /\ p.id = u.id /\ p.email = u.email /\ p.role # "student"
          /\ g.email = u.email /\ g.role = p.role /\ g.start = starts
          /\ users' = (users \ {u}) \cup {p} /\ granted' = granted \cup {g}
          /\ UNCHANGED <<accounts, tokens, listing, starts>>
    BY <1>3, PromotionIs
  <2>1. PICK g :
          /\ p.id = u.id /\ p.email = u.email /\ p.role # "student"
          /\ g.email = u.email /\ g.role = p.role /\ g.start = starts
          /\ users' = (users \ {u}) \cup {p} /\ granted' = granted \cup {g}
          /\ UNCHANGED <<accounts, tokens, listing, starts>>
    BY <2>0
  <2>4. RolesAreGiven' BY <2>1 DEF RolesAreGiven
  <2>5. Entries(listing)' = Entries(listing) BY <2>1 DEF Entries
  <2>6. ASSUME adapter = "fake", NEW v \in users', NEW a \in accounts', a.id = v.id, v.role # "student"
        PROVE  \/ \E x \in Entries(listing) : x.email = v.email
               \/ \E x \in granted' : x.email = v.email /\ x.start = starts'
    <3>1. CASE v = p BY <2>1, <3>1
    <3>2. CASE v # p
      <4>1. v \in users /\ a \in accounts BY <2>1, <3>2
      <4> QED BY <2>1, <2>6, <4>1 DEF AccountsAreListed
    <3> QED BY <3>1, <3>2
  <2>7. AccountsAreListed' BY <1>0, <2>5, <2>6 DEF AccountsAreListed
  <2> QED BY <2>4, <2>7
<1>4. CASE ~Start /\ ~Promote
  <2>1. /\ users \subseteq users' /\ starts' = starts /\ granted' = granted
        /\ \A u \in users' \ users : u.role = "student"
        /\ \A id \in tokens' \ tokens : \E a \in accounts : a.id = id
    BY <1>4, RequestsAddProfiles, RequestsGiveNothing
  <2>2. /\ listing' = listing
        /\ \A a \in accounts : \E b \in accounts' : b.id = a.id
        /\ \A b \in accounts', u \in users : b.id = u.id => \E a \in accounts : a.id = u.id
    BY <1>4, RequestsKeepAccounts
  <2>3. Entries(listing)' = Entries(listing) BY <2>2 DEF Entries
  <2>4. RolesAreGiven' BY <2>1, <2>2 DEF RolesAreGiven
  <2>5. ASSUME adapter = "fake", NEW v \in users', NEW b \in accounts', b.id = v.id, v.role # "student"
        PROVE  \/ \E x \in Entries(listing) : x.email = v.email
               \/ \E x \in granted' : x.email = v.email /\ x.start = starts'
    <3>1. v \in users BY <2>1, <2>5
    <3>2. PICK a \in accounts : a.id = v.id BY <2>2, <2>5, <3>1
    <3> QED BY <2>1, <2>5, <3>1, <3>2 DEF AccountsAreListed
  <2>6. AccountsAreListed' BY <1>0, <2>3, <2>5 DEF AccountsAreListed
  <2> QED BY <2>4, <2>6
<1> QED BY <1>1, <1>2, <1>3, <1>4

LEMMA RolesFirstGiven == Init => RolesAreGiven /\ AccountsAreListed
<1> SUFFICES ASSUME Init PROVE RolesAreGiven /\ AccountsAreListed OBVIOUS
<1>1. PICK order : users = {[id |-> order[x], email |-> x.email, role |-> x.role] : x \in Staff}
  BY DEF Init
<1>2. ASSUME NEW u \in users, u.role # "student"
      PROVE  \E x \in granted : x.email = u.email /\ x.role = u.role
  <2>1. PICK x \in Staff : u = [id |-> order[x], email |-> x.email, role |-> x.role] BY <1>1
  <2>2. u.email = x.email /\ u.role = x.role BY <2>1
  <2>3. [email |-> x.email, role |-> x.role, start |-> 0] \in Grants(Staff, 0)
    BY <1>2, <2>2 DEF Grants
  <2> QED BY <2>2, <2>3 DEF Init
<1>3. adapter = "fake" => accounts = {} BY DEF Init
<1> QED BY <1>2, <1>3 DEF Init, RolesAreGiven, AccountsAreListed

LEMMA GivenAndListed == Spec => [](RolesAreGiven /\ AccountsAreListed)
BY RolesFirstGiven, RolesStayGiven, Invariant, PTL DEF Spec

\* Whoever is let in where students are not was given a role that may, and with the fake is
\* listed now or was promoted since the start, over any sequence of sign-ups, sign-ins,
\* promotions and starts with other settings, failed seedings included.
THEOREM StaffListed == Spec => StaffAreListed
<1>1. IInv /\ RolesAreGiven /\ AccountsAreListed /\ [Next]_vars =>
        \A c \in Clients :
          answer'[c] # answer[c] /\ answer'[c].op = "ask" /\ answer'[c].code = "ok"
            /\ "student" \notin answer'[c].allowed
          => /\ \E x \in granted : x.email = answer'[c].email /\ Permits(answer'[c].allowed, x.role)
             /\ adapter = "fake" =>
                  \/ \E x \in Entries(listing) : x.email = answer'[c].email
                  \/ \E x \in granted : x.email = answer'[c].email /\ x.start = starts
  <2> SUFFICES ASSUME IInv, RolesAreGiven, AccountsAreListed, [Next]_vars, NEW c \in Clients,
                      answer'[c] # answer[c], answer'[c].op = "ask", answer'[c].code = "ok",
                      "student" \notin answer'[c].allowed
               PROVE  /\ \E x \in granted : x.email = answer'[c].email /\ Permits(answer'[c].allowed, x.role)
                      /\ adapter = "fake" =>
                           \/ \E x \in Entries(listing) : x.email = answer'[c].email
                           \/ \E x \in granted : x.email = answer'[c].email /\ x.start = starts
    OBVIOUS
  <2>1. PICK id \in tokens, u \in users :
          u.id = id /\ answer'[c].email = u.email /\ Permits(answer'[c].allowed, u.role)
    BY AskedWithAToken
  <2>2. u.role # "student"
    BY <2>1 DEF Permits
  <2>3. \E x \in granted : x.email = u.email /\ x.role = u.role
    BY <2>1, <2>2 DEF RolesAreGiven
  <2>4. PICK a \in accounts : a.id = u.id
    BY <2>1 DEF RolesAreGiven
  <2>5. adapter = "fake" => \/ \E x \in Entries(listing) : x.email = u.email
                            \/ \E x \in granted : x.email = u.email /\ x.start = starts
    BY <2>2, <2>4 DEF AccountsAreListed
  <2> QED BY <2>1, <2>3, <2>5
<1>2. IInv /\ RolesAreGiven /\ AccountsAreListed /\ [Next]_vars =>
        [\A c \in Clients :
          answer'[c] # answer[c] /\ answer'[c].op = "ask" /\ answer'[c].code = "ok"
            /\ "student" \notin answer'[c].allowed
          => /\ \E x \in granted : x.email = answer'[c].email /\ Permits(answer'[c].allowed, x.role)
             /\ adapter = "fake" =>
                  \/ \E x \in Entries(listing) : x.email = answer'[c].email
                  \/ \E x \in granted : x.email = answer'[c].email /\ x.start = starts]_vars
  BY <1>1
<1> QED BY <1>2, GivenAndListed, Invariant, PTL DEF Spec, StaffAreListed

-------------------------------------------------------------------------------
(* Within the bounds, and in order of rank *)

\* Ids that are somebody's are from 1 up to the bound.
Bounded ==
  /\ nextId <= MaxIds + 1 /\ 1 <= nextId
  /\ (\A a \in accounts : 1 <= a.id) /\ (\A u \in users : 1 <= u.id)
  /\ tokens \subseteq 1..MaxIds /\ seeded \in BOOLEAN

\* As many new ids as new entries, all different and none above the bound: they leave the
\* next one within it.
LEMMA SeedingFits ==
  ASSUME IInv, Bounded, NEW list \in Seq(People), NEW ids \in [Emails -> 1..MaxIds], SeedIds(list, ids)
  PROVE  nextId + Cardinality(NewEntries(list)) <= MaxIds + 1
<1> USE BoundsAssumption
<1> DEFINE new == NewEntries(list)
           k == Cardinality(new)
           rest == nextId..MaxIds
           idOf == [x \in new |-> ids[x.email]]
<1>1. nextId \in Nat BY DEF IInv, Shape
<1>2. new \subseteq Entries(list) BY DEF NewEntries
<1>3. IsFiniteSet(new) /\ k \in Nat
  BY <1>2, EntriesArePeople, FS_Subset, FS_CardinalityType
<1>4. \A x, y \in Entries(list) : ids[x.email] = ids[y.email] => x = y
  BY SeedIdsFit DEF IInv
<1>5. ASSUME NEW x \in new PROVE ids[x.email] \in rest
  <2>1. x \in Entries(list) /\ RowOf(x.email) = {} BY DEF NewEntries
  <2>2. ids[x.email] \in nextId..(nextId + k - 1) BY <2>1 DEF SeedIds
  <2>3. ids[x.email] \in 1..MaxIds BY <2>1, EntriesArePeople DEF People
  <2> QED BY <1>1, <1>3, <2>2, <2>3
<1>6. CASE new = {}
  <2>1. k = 0 BY <1>6, FS_EmptySet
  <2> QED BY <1>1, <2>1 DEF Bounded
<1>7. CASE new # {}
  <2>1. nextId <= MaxIds BY <1>1, <1>5, <1>7
  <2>2. IsFiniteSet(rest) /\ Cardinality(rest) = MaxIds - nextId + 1
    BY <1>1, <2>1, FS_Interval
  <2>3. idOf \in [new -> rest] BY <1>5
  <2>4. \A x, y \in new : x # y => idOf[x] # idOf[y] BY <1>2, <1>4
  <2> HIDE DEF idOf, rest, new
  <2>5. ~(Cardinality(rest) < Cardinality(new)) BY <1>3, <2>2, <2>3, <2>4, FS_PigeonHole
  <2>6. ~(Cardinality(rest) < k) BY <2>5
  <2> QED BY <1>1, <1>3, <2>2, <2>6 DEF new
<1> QED BY <1>6, <1>7

\* Ids stay within the bounds.
LEMMA BoundsKept == Spec => []Bounded
<1> USE BoundsAssumption
<1>1. Init => Bounded
  <2> SUFFICES ASSUME Init PROVE Bounded OBVIOUS
  <2>1. Cardinality(Staff) \in Nat BY StaffAssumption, FS_CardinalityType
  <2> QED BY <2>1 DEF Init, Bounded
<1>2. IInv /\ Bounded /\ [Next]_vars => Bounded'
  <2> SUFFICES ASSUME IInv, Bounded, [Next]_vars PROVE Bounded' OBVIOUS
  <2>0. nextId \in Nat /\ (\A a \in accounts : a.id \in Nat) /\ accounts \subseteq AccountSet
    BY DEF IInv, Shape, AccountSet
  <2>1. CASE Start /\ adapter = "fake"
    <3>1. PICK list \in Listings, ids \in [Emails -> 1..MaxIds] :
            /\ SeedIds(list, ids) /\ tokens' = {} /\ seeded' \in BOOLEAN
            /\ nextId' = nextId + Cardinality(NewEntries(list))
            /\ \/ accounts' = SeedAccounts(list, ids) /\ users' = SeedRows(list, ids)
               \/ \E n \in 0..Len(list) :
                    accounts' = SeedAccounts(SubSeq(list, 1, n), ids) /\ users' = users
      BY <2>1 DEF Start, Seeds
    <3>2. list \in Seq(People) BY ListingsAssumption
    <3>3. Cardinality(NewEntries(list)) \in Nat /\ nextId' <= MaxIds + 1
      BY <3>1, <3>2, SeedIdsFit, SeedingFits DEF IInv
    <3>4. ASSUME NEW l \in Seq(People), NEW x \in Entries(l) PROVE 1 <= ids[x.email]
      <4>1. x.email \in Emails BY EntriesArePeople DEF People
      <4>2. ids[x.email] \in 1..MaxIds BY <4>1
      <4> QED BY <4>2
    <3>5. \A n \in 0..Len(list) : SubSeq(list, 1, n) \in Seq(People)
      BY <3>2
    <3>6. \A l \in Seq(People) : \A a \in SeedAccounts(l, ids) : 1 <= a.id
      BY <3>4 DEF SeedAccounts
    <3>7. \A u \in SeedRows(list, ids) : 1 <= u.id
      BY <3>2, <3>4 DEF SeedRows, Bounded
    <3>8. \A a \in accounts' : 1 <= a.id
      BY <3>1, <3>2, <3>5, <3>6
    <3>9. \A u \in users' : 1 <= u.id
      BY <3>1, <3>7 DEF Bounded
    <3>10. 1 <= nextId'
      BY <2>0, <3>1, <3>3 DEF Bounded
    <3> QED BY <3>1, <3>3, <3>8, <3>9, <3>10 DEF Bounded
  <2>2. CASE Start /\ adapter # "fake"
    BY <2>2 DEF Start, Bounded
  <2>3. ASSUME NEW c \in Clients, Register(c) PROVE Bounded'
    <3>1. UNCHANGED <<users, tokens, seeded>> BY <2>3 DEF Register
    <3>2. UNCHANGED <<accounts, nextId>> \/ \E e : Creates(e)
      BY <2>3 DEF Register, FakeRegister, SupabaseRegister
    <3> QED BY <2>0, <3>1, <3>2 DEF Bounded, Creates
  <2>4. ASSUME NEW c \in Clients, confirm_email(c) \/ verify_signup_code(c) PROVE Bounded'
    <3>1. UNCHANGED <<users, tokens, nextId, seeded>>
      BY <2>4 DEF confirm_email, verify_signup_code
    <3>2. UNCHANGED accounts \/ \E e : Confirms(e)
      BY <2>4 DEF confirm_email, verify_signup_code, FakeLink, SupabaseLink, FakeCode, SupabaseCode, Refused
    <3>3. \A a \in accounts : [a EXCEPT !.confirmed = TRUE].id = a.id
      BY <2>0 DEF AccountSet
    <3> QED BY <3>1, <3>2, <3>3 DEF Bounded, Confirms
  <2>5. ASSUME NEW c \in Clients, SignIn(c) PROVE Bounded'
    <3>1. \A a \in accounts : a.id \in 1..MaxIds BY <2>0 DEF Bounded, IInv, Fresh
    <3>2. UNCHANGED <<accounts, users, nextId, seeded>> BY <2>5 DEF SignIn
    <3>3. tokens' = tokens \/ \E a \in accounts : tokens' = tokens \cup {a.id}
      BY <2>5 DEF SignIn, SupabaseSignIn, FakeSignIn, Issues, AccountOf
    <3> QED BY <3>1, <3>2, <3>3 DEF Bounded
  <2>6. ASSUME NEW c \in Clients, CommitsProfile(c) PROVE Bounded'
    <3>1. \E a \in accounts : a.id = req[c].session.id
      BY <2>6 DEF CommitsProfile, IInv, StillSo, TrueOf, SessionSteps
    <3>2. users' = users \/ \E n : n.id = req[c].session.id /\ users' = users \cup {n}
      BY <2>6 DEF CommitsProfile
    <3>3. UNCHANGED <<accounts, tokens, nextId, seeded>> BY <2>6 DEF CommitsProfile
    <3> QED BY <3>1, <3>2, <3>3 DEF Bounded
  <2>7. ASSUME NEW c \in Clients,
               StudentSignup(c) \/ resend_signup_code(c) \/ ReadsProfile(c) \/ ReloadsProfile(c) \/ Asks(c)
        PROVE  Bounded'
    BY <2>7 DEF StudentSignup, resend_signup_code, ReadsProfile, ReloadsProfile, Asks, store, Bounded
  <2>8. CASE TokenExpires \/ UNCHANGED vars
    BY <2>8 DEF TokenExpires, vars, Bounded
  <2>9. CASE Promote
    <3>1. PICK w \in users, p \in ProfileSet :
            /\ p.id = w.id /\ users' = (users \ {w}) \cup {p}
            /\ UNCHANGED <<accounts, tokens, nextId, seeded>>
      BY <2>9, PromotionIs
    <3> QED BY <3>1 DEF Bounded, ProfileSet
  <2> QED BY <2>1, <2>2, <2>3, <2>4, <2>5, <2>6, <2>7, <2>8, <2>9 DEF Next
<1> QED BY <1>1, <1>2, Invariant, PTL DEF Spec

\* A request for what a role may do is answered by the role, and a role above student was
\* given.
AnsweredByRole == \A c \in Clients :
  answer[c].op = "ask" /\ answer[c].code \in {"ok", "forbidden"} =>
    \E u \in ProfileSet :
      /\ answer[c].role = u.role /\ answer[c].email = u.email /\ answer[c].allowed \in Guards
      /\ answer[c].code = "ok" <=> Permits(answer[c].allowed, u.role)
      /\ u.role # "student" => \E x \in granted : x.email = u.email /\ x.role = u.role

\* An answer to something else.
LEMMA OtherAnswers ==
  ASSUME IInv, AnsweredByRole, NEW c \in Clients, NEW op, NEW e, NEW code, Answers(c, op, e, code),
         op # "ask" \/ code \notin {"ok", "forbidden"}, granted \subseteq granted'
  PROVE  AnsweredByRole'
<1>1. /\ answer = [d \in Clients |-> answer[d]]
      /\ answer' = [answer EXCEPT ![c] = [op |-> op, email |-> e, code |-> code]]
  BY DEF Answers, IInv, Shape
<1>2. answer'[c].op = op /\ answer'[c].code = code /\ \A d \in Clients : d # c => answer'[d] = answer[d]
  BY <1>1
<1> QED BY <1>2 DEF AnsweredByRole

\* What was given stays so.
LEMMA GrantsStay == ASSUME IInv, [Next]_vars PROVE granted \subseteq granted'
<1>1. CASE Start BY <1>1 DEF Start, Seeds
<1>2. CASE Promote BY <1>2, PromotionIs
<1>3. CASE ~Start /\ ~Promote BY <1>3, RequestsAddProfiles
<1> QED BY <1>1, <1>2, <1>3

LEMMA RolesKept == Spec => []AnsweredByRole
<1>1. Init => AnsweredByRole
  <2>1. NoAnswer.op # "ask" BY DEF NoAnswer
  <2> QED BY <2>1 DEF Init, AnsweredByRole
<1>2. IInv /\ RolesAreGiven /\ AnsweredByRole /\ [Next]_vars => AnsweredByRole'
  <2> SUFFICES ASSUME IInv, RolesAreGiven, AnsweredByRole, [Next]_vars PROVE AnsweredByRole'
    OBVIOUS
  <2>0. granted \subseteq granted' BY GrantsStay
  <2>2. ASSUME answer' = answer PROVE AnsweredByRole'
    BY <2>0, <2>2 DEF AnsweredByRole
  <2>3. CASE Start \/ TokenExpires \/ Promote \/ UNCHANGED vars
    <3>1. answer' = answer BY <2>3 DEF Start, TokenExpires, Promote, vars
    <3> QED BY <2>2, <3>1
  <2>4. ASSUME NEW c \in Clients, StudentSignup(c) \/ Register(c) PROVE AnsweredByRole'
    <3>1. (\E e, code : Answers(c, "sign up", e, code)) \/ answer' = answer
      BY <2>4 DEF StudentSignup, signup_student, Continues, Register, FakeRegister, SupabaseRegister
    <3> QED BY <2>2, <3>1, <2>0, OtherAnswers
  <2>5. ASSUME NEW c \in Clients, confirm_email(c) \/ verify_signup_code(c) \/ resend_signup_code(c)
        PROVE  AnsweredByRole'
    <3>1. \E op \in {"confirm", "resend"} : \E e, code : Answers(c, op, e, code)
      BY <2>5 DEF confirm_email, verify_signup_code, resend_signup_code, FakeLink, SupabaseLink,
                  FakeCode, SupabaseCode, FakeResend, SupabaseResend, Refused
    <3> QED BY <3>1, <2>0, OtherAnswers
  <2>6. ASSUME NEW c \in Clients, SignIn(c) \/ ReadsProfile(c) \/ CommitsProfile(c) \/ ReloadsProfile(c)
        PROVE  AnsweredByRole'
    <3>1. answer' = answer \/ \E e, code : Answers(c, "sign in", e, code)
      BY <2>6 DEF SignIn, SupabaseSignIn, FakeSignIn, Issues, Continues, ReadsProfile, CommitsProfile,
                  ReloadsProfile
    <3> QED BY <2>2, <3>1, <2>0, OtherAnswers
  <2>7. ASSUME NEW c \in Clients, Asks(c) PROVE AnsweredByRole'
    <3>1. CASE \E code \in {"unauthorized", "bad request"} : Answers(c, "ask", "", code)
      BY <3>1, <2>0, OtherAnswers
    <3>2. ASSUME NEW u \in users, NEW allowed \in Guards,
                 answer' = [answer EXCEPT ![c] =
                   [op |-> "ask", email |-> u.email, role |-> u.role, allowed |-> allowed,
                    code |-> IF Permits(allowed, u.role) THEN "ok" ELSE "forbidden"]]
          PROVE  AnsweredByRole'
      <4>1. answer'[c] = [op |-> "ask", email |-> u.email, role |-> u.role, allowed |-> allowed,
                          code |-> IF Permits(allowed, u.role) THEN "ok" ELSE "forbidden"]
        BY <3>2 DEF IInv, Shape
      <4>2. \A d \in Clients : d # c => answer'[d] = answer[d]
        BY <3>2 DEF IInv, Shape
      <4>3. u \in ProfileSet BY DEF IInv, Shape
      <4>4. /\ answer'[c].role = u.role /\ answer'[c].email = u.email /\ answer'[c].allowed = allowed
            /\ answer'[c].code = "ok" <=> Permits(allowed, u.role)
        BY <4>1
      <4>5. u.role # "student" => \E x \in granted : x.email = u.email /\ x.role = u.role
        BY DEF RolesAreGiven
      <4> QED BY <2>0, <4>2, <4>3, <4>4, <4>5 DEF AnsweredByRole
    <3> QED BY <2>7, <3>1, <3>2 DEF Asks, Holder, Row
  <2> QED BY <2>3, <2>4, <2>5, <2>6, <2>7 DEF Next
<1> QED BY <1>1, <1>2, GivenAndListed, Invariant, PTL DEF Spec

\* What is permitted to a role is permitted to those above it.
LEMMA PermitsUpwards ==
  ASSUME NEW allowed \in Guards, NEW low \in Roles, NEW high \in Roles,
         Permits(allowed, low), ~Permits(allowed, high)
  PROVE  Rank[low] > Rank[high]
BY DEF Guards, Roles, Permits, Rank

\* A profile is its account's, of two who ask the same it is never the one of the higher
\* role who is turned away, and at the service only who was staff or promoted gets in.
THEOREM AccountsFit == Spec => []ServiceFits
<1>1. IInv /\ Bounded => TypeOK
  <2> SUFFICES ASSUME IInv, Bounded PROVE TypeOK OBVIOUS
  <2> USE BoundsAssumption
  <2>1. accounts \subseteq [email : Emails, id : 1..MaxIds, confirmed : BOOLEAN, complete : BOOLEAN]
    BY DEF IInv, Shape, AccountSet, Fresh, Bounded
  <2>2. users \subseteq [id : 1..MaxIds, email : Emails, role : Roles]
    BY DEF IInv, Shape, ProfileSet, Fresh, Bounded
  <2>3. \A c \in Clients : req[c].step \in {"idle", "register", "profile", "insert", "reload"}
    BY DEF IInv, Shape, Requests, Idle, SessionSteps
  <2>4. nextId \in 1..(MaxIds + 1) BY DEF IInv, Shape, Bounded
  <2> QED BY <2>1, <2>2, <2>3, <2>4 DEF TypeOK, IInv, OnePerson, Bounded
<1>2. AnsweredByRole => HierarchyHolds
  <2> SUFFICES ASSUME AnsweredByRole, NEW c \in Clients, NEW d \in Clients,
                      Asked(c, "ok"), Asked(d, "forbidden"), answer[c].allowed = answer[d].allowed
               PROVE  Rank[answer[c].role] > Rank[answer[d].role]
    BY DEF HierarchyHolds
  <2>1. PICK u \in ProfileSet : /\ answer[c].role = u.role /\ answer[c].allowed \in Guards
                                /\ answer[c].code = "ok" <=> Permits(answer[c].allowed, u.role)
    BY DEF AnsweredByRole, Asked
  <2>2. PICK v \in ProfileSet : /\ answer[d].role = v.role
                                /\ answer[d].code = "ok" <=> Permits(answer[d].allowed, v.role)
    BY DEF AnsweredByRole, Asked
  <2>3. u.role \in Roles /\ v.role \in Roles BY DEF ProfileSet
  <2>4. Permits(answer[c].allowed, u.role) /\ ~Permits(answer[c].allowed, v.role)
    BY <2>1, <2>2 DEF Asked
  <2> QED BY <2>1, <2>2, <2>3, <2>4, PermitsUpwards
<1>3. AnsweredByRole => OnlyStaffGetIn
  <2> SUFFICES ASSUME AnsweredByRole, adapter = "supabase", NEW c \in Clients, Asked(c, "ok"),
                      "student" \notin answer[c].allowed
               PROVE  \E x \in granted :
                        x.email = answer[c].email /\ Permits(answer[c].allowed, x.role)
    BY DEF OnlyStaffGetIn
  <2>1. PICK u \in ProfileSet : /\ answer[c].email = u.email /\ Permits(answer[c].allowed, u.role)
                                /\ u.role # "student" => \E x \in granted : x.email = u.email /\ x.role = u.role
    BY DEF AnsweredByRole, Asked
  <2>2. u.role # "student" BY <2>1 DEF Permits
  <2> QED BY <2>1, <2>2
<1>4. ServiceFits <=> TypeOK /\ ProfileIsItsAccounts /\ HierarchyHolds /\ OnlyStaffGetIn
  BY DEF ServiceFits
<1> QED BY <1>1, <1>2, <1>3, <1>4, Invariant, ProfilesAreTheirs, BoundsKept, RolesKept, PTL

-------------------------------------------------------------------------------
(***************************************************************************)
(* The help chat.                                                          *)
(***************************************************************************)
Steps == {"idle", "open", "asking"} \cup Help!Ended
Calls == [pc : Steps, client : Addresses, body : Help!Bodies \cup {Help!NoBody}]
Admissions == [chat : Chats, client : Addresses, time : Nat]

HelpShape ==
  /\ now \in Nat /\ now <= MaxTime
  /\ requests \in [Addresses -> Seq(Nat)]
  /\ reference \in [readable : BOOLEAN, cached : BOOLEAN]
  /\ chat \in [Chats -> Calls] /\ open \subseteq Chats
  /\ admitted \subseteq Admissions /\ IsFiniteSet(admitted)
  /\ \A a \in admitted : a.time <= now

\* The calls of c that were let pass since t, and the latest times that are kept.
Since(c, t) == {a \in admitted : a.client = c /\ a.time >= t}

\* The first k times of s are before t, the others are not.
Splits(s, t, k) ==
  k \in 0 .. Len(s) /\ \A i \in 1 .. Len(s) : IF i <= k THEN s[i] < t ELSE s[i] >= t

LEMMA Dropped ==
  ASSUME NEW s \in Seq(Nat), NEW k \in 0 .. Len(s)
  PROVE  LET q == SubSeq(s, k + 1, Len(s))
         IN  q \in Seq(Nat) /\ Len(q) = Len(s) - k /\ \A i \in 1 .. Len(q) : q[i] = s[i + k]
<1> DEFINE n == Len(s)  q == SubSeq(s, k + 1, n)
<1>1. n \in Nat /\ k + 1 \in Int /\ \A i \in k + 1 .. n : s[i] \in Nat
  OBVIOUS
<1>2. q \in Seq(Nat) /\ Len(q) = IF k + 1 <= n THEN n - (k + 1) + 1 ELSE 0
  BY <1>1, SubSeqProperties
<1>3. Len(q) = n - k BY <1>1, <1>2
<1>4. \A i \in 1 .. n - (k + 1) + 1 : q[i] = s[k + 1 + i - 1]
  BY <1>1, SubSeqProperties
<1> HIDE DEF q, n
<1>5. ASSUME NEW i \in 1 .. Len(q) PROVE q[i] = s[i + k]
  <2>1. i \in 1 .. n - (k + 1) + 1 /\ k + 1 + i - 1 = i + k BY <1>1, <1>3
  <2> QED BY <1>4, <2>1
<1> QED BY <1>2, <1>3, <1>5 DEF q, n

LEMMA DroppedSplits ==
  ASSUME NEW s \in Seq(Nat), NEW k \in 0 .. Len(s), NEW t \in Nat, NEW m, Splits(s, t, m),
         \A i \in 1 .. k : s[i] < t
  PROVE  k <= m /\ Splits(SubSeq(s, k + 1, Len(s)), t, m - k)
<1> DEFINE q == SubSeq(s, k + 1, Len(s))
<1>1. q \in Seq(Nat) /\ Len(q) = Len(s) - k /\ \A i \in 1 .. Len(q) : q[i] = s[i + k]
  BY Dropped
<1>2. m \in 0 .. Len(s) /\ Len(s) \in Nat
  BY DEF Splits
<1>3. k <= m
  <2> SUFFICES ASSUME k > m PROVE FALSE BY <1>2
  <2>1. k \in 1 .. Len(s) BY <1>2
  <2>2. s[k] < t BY <2>1
  <2>3. s[k] >= t /\ s[k] \in Nat BY <1>2, <2>1 DEF Splits
  <2> QED BY <2>2, <2>3
<1> HIDE DEF q
<1>4. ASSUME NEW i \in 1 .. Len(q) PROVE IF i <= m - k THEN q[i] < t ELSE q[i] >= t
  <2>1. i + k \in 1 .. Len(s) /\ (i <= m - k <=> i + k <= m) BY <1>1, <1>2
  <2> QED BY <1>1, <2>1 DEF Splits
<1>5. m - k \in 0 .. Len(q) BY <1>1, <1>2, <1>3
<1> QED BY <1>3, <1>4, <1>5 DEF Splits, q

LEMMA AppendedSplits ==
  ASSUME NEW s \in Seq(Nat), NEW t \in Nat, NEW m, Splits(s, t, m), NEW e \in Nat, e >= t
  PROVE  Splits(Append(s, e), t, m) /\ Len(Append(s, e)) = Len(s) + 1
<1>1. /\ Len(Append(s, e)) = Len(s) + 1 /\ Len(s) \in Nat
      /\ \A i \in 1 .. Len(s) : Append(s, e)[i] = s[i]
      /\ Append(s, e)[Len(s) + 1] = e
  BY AppendProperties
<1>2. m \in 0 .. Len(s) BY DEF Splits
<1>3. ASSUME NEW i \in 1 .. Len(s) + 1
      PROVE  IF i <= m THEN Append(s, e)[i] < t ELSE Append(s, e)[i] >= t
  <2>1. CASE i <= Len(s) BY <1>1, <2>1 DEF Splits
  <2>2. CASE i = Len(s) + 1 BY <1>1, <1>2, <2>2
  <2> QED BY <1>1, <2>1, <2>2
<1> QED BY <1>1, <1>2, <1>3 DEF Splits

\* The times before t are the first k; the others are those of the calls since t.
Before(c, t, k) ==
  Splits(requests[c], t, k) /\ Cardinality(Since(c, t)) = Len(requests[c]) - k

\* For every time in the window.
KeepsTheWindow ==
  \A c \in Addresses : \A t \in 0 .. now :
    t + WINDOW > now => \E k \in 0 .. Len(requests[c]) : Before(c, t, k)

AddressesOK == \A c \in Addresses :
  /\ Len(requests[c]) <= MAX_REQUESTS
  /\ \A i \in 1 .. Len(requests[c]) : requests[c][i] <= now

\* A call that was let pass has been checked, and one that was checked and let through was
\* let pass.
Passed ==
  /\ \A a \in admitted : chat[a.chat].pc \notin {"idle", "open"}
  /\ \A r \in Chats : chat[r].pc \in {"asking", "answered"} =>
       (\E a \in admitted : a.chat = r) /\ Help!Verdict(chat[r].body) = "asking"
  /\ \A r \in Chats : chat[r].pc # "idle" => chat[r].body \in Help!Bodies

\* The instance counts as the library does.
LEMMA SameCount == \A S : Help!Cardinality(S) = Cardinality(S)
BY DEF Help!Cardinality, Cardinality

HelpIInv == HelpShape /\ KeepsTheWindow /\ AddressesOK /\ Passed /\ Help!AtMostMaxPerWindow

LEMMA HelpInit == ASSUME Help!HelpAssumption, Help!Init PROVE HelpIInv
<1> USE DEF Help!HelpAssumption, Help!Init
<1>1. HelpShape
  <2>1. chat \in [Chats -> Calls]
    BY DEF Calls, Steps, Help!Ended
  <2>2. reference \in [readable : BOOLEAN, cached : BOOLEAN] 
    OBVIOUS
  <2>3. requests \in [Addresses -> Seq(Nat)] OBVIOUS
  <2>4. now \in Nat /\ now <= MaxTime OBVIOUS
  <2> QED BY <2>1, <2>2, <2>3, <2>4, FS_EmptySet DEF HelpShape
<1>2. KeepsTheWindow
  <2>1. \A c, t : Since(c, t) = {} BY DEF Since
  <2>2. \A c \in Addresses : \A t : Splits(requests[c], t, 0) /\ Len(requests[c]) = 0 BY DEF Splits
  <2>3. ASSUME NEW c \in Addresses, NEW t PROVE 0 \in 0 .. Len(requests[c]) /\ Before(c, t, 0)
    <3>1. Since(c, t) = {} /\ Splits(requests[c], t, 0) /\ Len(requests[c]) = 0 BY <2>1, <2>2
    <3>2. Cardinality({}) = 0 BY FS_EmptySet
    <3> QED BY <3>1, <3>2 DEF Before
  <2> QED BY <2>3 DEF KeepsTheWindow
<1>3. Help!AtMostMaxPerWindow
  <2> SUFFICES ASSUME NEW c \in Addresses, NEW t \in 0 .. now PROVE Help!Cardinality(Help!InWindow(c, t)) <= MAX_REQUESTS
    BY DEF Help!AtMostMaxPerWindow
  <2>1. Help!InWindow(c, t) = {} BY DEF Help!InWindow
  <2>2. Help!Cardinality({}) = 0 BY SameCount, FS_EmptySet
  <2> QED BY <2>1, <2>2
<1>4. AddressesOK BY DEF AddressesOK
<1>5. Passed BY DEF Passed
<1> QED BY <1>1, <1>2, <1>3, <1>4, <1>5 DEF HelpIInv

\* In terms of the library's Cardinality.
LEMMA AtMost ==
  Help!AtMostMaxPerWindow <=>
    \A c \in Addresses : \A t \in 0 .. now : Cardinality(Help!InWindow(c, t)) <= MAX_REQUESTS
BY SameCount DEF Help!AtMostMaxPerWindow

\* What popleft leaves is the calls of the last window.
LEMMA AgedIsTheWindow ==
  ASSUME Help!HelpAssumption, HelpIInv, NEW c \in Addresses
  PROVE  \E k \in 0 .. Len(requests[c]) :
           /\ Help!Aged(c) = SubSeq(requests[c], k + 1, Len(requests[c]))
           /\ \A i \in 1 .. k : requests[c][i] + WINDOW <= now
           /\ Cardinality(Help!InWindow(c, now)) = Len(requests[c]) - k
<1> USE DEF Help!HelpAssumption
<1> DEFINE s == requests[c]  n == Len(s)
           kept == {i \in 1 .. n : \E k \in 1 .. i : s[k] + WINDOW > now}
           Split(k) == /\ \A i \in 1 .. n : IF i <= k THEN s[i] + WINDOW <= now
                                                     ELSE s[i] + WINDOW > now
                       /\ Cardinality(Help!InWindow(c, now)) = n - k
<1>1. s \in Seq(Nat) /\ n \in Nat /\ (\A i \in 1 .. n : s[i] \in Nat /\ s[i] <= now) /\ now \in Nat
  BY DEF HelpIInv, HelpShape, AddressesOK
<1>2. PICK k \in 0 .. n : Split(k)
  <2>1. CASE WINDOW = 0
    <3>1. Help!InWindow(c, now) = {}
      BY <2>1 DEF Help!InWindow, HelpIInv, HelpShape, Admissions
    <3>2. Cardinality(Help!InWindow(c, now)) = n - n BY <1>1, <3>1, FS_EmptySet
    <3>3. \A i \in 1 .. n : i <= n /\ s[i] + WINDOW <= now BY <1>1, <2>1
    <3> HIDE DEF kept, n, s
    <3>4. Split(n) BY <3>2, <3>3
    <3> QED BY <1>1, <3>4
  <2>2. CASE WINDOW > 0
    <3> DEFINE t == IF now + 1 >= WINDOW THEN now + 1 - WINDOW ELSE 0
    <3>1. t \in 0 .. now /\ t + WINDOW > now /\ (now >= t + WINDOW - 1 \/ t = 0) BY <1>1, <2>2
    <3> HIDE DEF kept, t
    <3>2. PICK k \in 0 .. n : Before(c, t, k)
      BY <3>1 DEF HelpIInv, KeepsTheWindow
    <3>3. Help!InWindow(c, now) = Since(c, t)
      BY <1>1, <3>1 DEF Help!InWindow, Since, HelpIInv, HelpShape, Admissions
    <3>4. \A i \in 1 .. n : (i <= k => s[i] < t) /\ (i > k => s[i] >= t)
      BY <1>1, <3>2 DEF Before, Splits
    <3>5. \A i \in 1 .. n : (i <= k => s[i] + WINDOW <= now) /\ (i > k => s[i] + WINDOW > now)
      BY <1>1, <3>1, <3>4
    <3>6. Cardinality(Help!InWindow(c, now)) = n - k BY <3>2, <3>3 DEF Before
    <3>7. Split(k)
      <4>1. \A i \in 1 .. n : IF i <= k THEN s[i] + WINDOW <= now ELSE s[i] + WINDOW > now
        BY <1>1, <3>5
      <4> QED BY <3>6, <4>1
    <3> QED BY <3>7
  <2> QED BY <2>1, <2>2
<1>3. kept = k + 1 .. n
  <2>1. \A i \in 1 .. n : IF i <= k THEN s[i] + WINDOW <= now ELSE s[i] + WINDOW > now
    BY <1>2
  <2> HIDE DEF s, n, Split
  <2>2. ASSUME NEW i \in 1 .. n, i <= k PROVE i \notin kept
    <3>1. \A j \in 1 .. i : j \in 1 .. n /\ j <= k BY <1>1, <2>2
    <3>2. \A j \in 1 .. i : s[j] \in Nat /\ s[j] + WINDOW <= now BY <1>1, <2>1, <3>1
    <3>3. \A j \in 1 .. i : ~(s[j] + WINDOW > now) BY <1>1, <3>2
    <3> QED BY <3>3
  <2>3. ASSUME NEW i \in 1 .. n, i > k PROVE i \in kept
    <3>1. s[i] + WINDOW > now /\ i \in 1 .. i BY <1>1, <2>1, <2>3
    <3> QED BY <3>1
  <2>4. kept \subseteq 1 .. n /\ k + 1 .. n = {i \in 1 .. n : i > k} BY <1>1
  <2>5. \A i \in 1 .. n : i > k \/ i <= k BY <1>1
  <2> HIDE DEF kept
  <2>6. kept = {i \in 1 .. n : i > k} BY <2>2, <2>3, <2>4, <2>5
  <2> QED BY <2>4, <2>6
<1>4. Help!Cardinality(kept) = n - k
  <2>1. n - (k + 1) + 1 = n - k /\ (k + 1 > n => n - k = 0) BY <1>1
  <2>2. Cardinality(k + 1 .. n) = n - k
    BY <1>1, <2>1, FS_Interval
  <2> QED BY <1>3, <2>2, SameCount
<1>5. Help!Aged(c) = SubSeq(s, k + 1, n)
  <2>1. n - (n - k) + 1 = k + 1 BY <1>1
  <2> QED BY <1>4, <2>1 DEF Help!Aged
<1>6. \A i \in 1 .. k : s[i] + WINDOW <= now
  BY <1>1, <1>2
<1> QED BY <1>2, <1>5, <1>6

\* A step that lets no call pass and takes no time keeps what is said of the limiter.
LEMMA LimiterUntouched ==
  ASSUME HelpIInv, UNCHANGED <<now, requests, admitted>>
  PROVE  KeepsTheWindow' /\ AddressesOK' /\ Help!AtMostMaxPerWindow'
<1>1. \A c, t : Since(c, t)' = Since(c, t) BY DEF Since
<1>2. \A c, t : Help!InWindow(c, t)' = Help!InWindow(c, t) BY DEF Help!InWindow
<1>3. KeepsTheWindow' BY <1>1 DEF HelpIInv, KeepsTheWindow, Before
<1>4. Help!AtMostMaxPerWindow' BY <1>2 DEF HelpIInv, Help!AtMostMaxPerWindow
<1>5. AddressesOK' BY DEF HelpIInv, AddressesOK
<1> QED BY <1>3, <1>4, <1>5

\* The clock goes on: of the calls of the window some fall out of it.
LEMMA TickKeepsTheWindow ==
  ASSUME Help!HelpAssumption, HelpIInv, Help!Tick
  PROVE  KeepsTheWindow' /\ AddressesOK' /\ Help!AtMostMaxPerWindow'
<1> USE DEF Help!HelpAssumption, Help!Tick
<1>0. now \in Nat /\ (\A a \in admitted : a.time \in Nat /\ a.time <= now)
  BY DEF HelpIInv, HelpShape, Admissions
<1>1. \A c, t : Since(c, t)' = Since(c, t) BY DEF Since
<1>2. \A c, t : Help!InWindow(c, t)' = Help!InWindow(c, t) BY DEF Help!InWindow
<1>3. ASSUME NEW c \in Addresses
      PROVE  Len(requests[c]) \in Nat /\ \A i \in 1 .. Len(requests[c]) : requests[c][i] \in Nat /\ requests[c][i] <= now
  BY <1>3 DEF HelpIInv, HelpShape, AddressesOK
<1>4. AddressesOK' BY <1>0, <1>3 DEF HelpIInv, AddressesOK
<1>5. ASSUME NEW c \in Addresses, NEW t \in 0 .. now + 1, t + WINDOW > now + 1
      PROVE  \E k \in 0 .. Len(requests[c]) : Before(c, t, k)
  <2>1. CASE t <= now
    BY <1>0, <1>5, <2>1 DEF HelpIInv, KeepsTheWindow
  <2>2. CASE t = now + 1
    <3>1. Since(c, t) = {} BY <1>0, <2>2 DEF Since
    <3>2. Splits(requests[c], t, Len(requests[c]))
      BY <1>0, <1>3, <2>2 DEF Splits
    <3>3. Before(c, t, Len(requests[c]))
      BY <1>3, <3>1, <3>2, FS_EmptySet DEF Before
    <3> QED BY <1>3, <3>3
  <2> QED BY <1>0, <2>1, <2>2
<1>6. KeepsTheWindow' BY <1>1, <1>5 DEF KeepsTheWindow, Before
<1>7. ASSUME NEW c \in Addresses, NEW t \in 0 .. now + 1
      PROVE  Cardinality(Help!InWindow(c, t)) <= MAX_REQUESTS
  <2>1. CASE t <= now BY <1>0, <2>1, AtMost DEF HelpIInv
  <2>2. CASE t = now + 1
    <3>1. Help!InWindow(c, t) \subseteq Help!InWindow(c, now)
      BY <1>0, <2>2 DEF Help!InWindow
    <3>2. Help!InWindow(c, now) \subseteq admitted BY DEF Help!InWindow
    <3>3. Cardinality(Help!InWindow(c, now)) <= MAX_REQUESTS
      BY <1>0, AtMost DEF HelpIInv
    <3>4. IsFiniteSet(Help!InWindow(c, now)) BY <3>2, FS_Subset DEF HelpIInv, HelpShape
    <3>5. /\ Cardinality(Help!InWindow(c, t)) <= Cardinality(Help!InWindow(c, now))
          /\ IsFiniteSet(Help!InWindow(c, t))
      BY <3>1, <3>4, FS_Subset
    <3> QED BY <3>3, <3>4, <3>5, FS_CardinalityType
  <2> QED BY <1>0, <2>1, <2>2
<1>8. Help!AtMostMaxPerWindow'
  BY <1>2, <1>7, SameCount DEF Help!AtMostMaxPerWindow
<1> QED BY <1>4, <1>6, <1>8

\* A call that is let pass is the latest of its window, and there was room for it.
LEMMA CheckKeepsTheWindow ==
  ASSUME Help!HelpAssumption, HelpIInv, NEW r \in Chats, Help!Check(r)
  PROVE  /\ KeepsTheWindow' /\ AddressesOK' /\ Help!AtMostMaxPerWindow'
         /\ requests' \in [Addresses -> Seq(Nat)]
<1> USE DEF Help!HelpAssumption
<1>0. PICK c \in Addresses : c = chat[r].client
  BY DEF HelpIInv, HelpShape, Calls
<1> DEFINE s == requests[c]  n == Len(s)
           x == [chat |-> r, client |-> c, time |-> now]
           aged == Help!Aged(c)  fits == Help!WithinLimit(c)
           new == IF fits THEN Append(aged, now) ELSE aged
<1>1. /\ now \in Nat /\ (\A a \in admitted : a \in Admissions /\ a.time <= now)
      /\ s \in Seq(Nat) /\ n \in Nat /\ n <= MAX_REQUESTS
      /\ requests \in [Addresses -> Seq(Nat)] /\ IsFiniteSet(admitted)
      /\ \A i \in 1 .. n : s[i] \in Nat /\ s[i] <= now
  BY DEF HelpIInv, HelpShape, AddressesOK
<1>2. /\ chat[r].pc = "open" /\ now' = now
      /\ requests' = [requests EXCEPT ![c] = new]
      /\ admitted' = IF fits THEN admitted \cup {x} ELSE admitted
  BY <1>0 DEF Help!Check, Help!At, Help!Counted
<1>3. x \notin admitted
  BY <1>2 DEF HelpIInv, Passed
<1>4. PICK k \in 0 .. n :
        /\ aged = SubSeq(s, k + 1, n)
        /\ \A i \in 1 .. k : s[i] + WINDOW <= now
        /\ Cardinality(Help!InWindow(c, now)) = n - k
  BY <1>1, AgedIsTheWindow
<1>5. /\ aged \in Seq(Nat) /\ Len(aged) = n - k
      /\ \A i \in 1 .. Len(aged) : aged[i] = s[i + k]
  BY <1>1, <1>4, Dropped
<1>6. fits <=> Cardinality(Help!InWindow(c, now)) < MAX_REQUESTS
  BY <1>4, <1>5 DEF Help!WithinLimit
<1> HIDE DEF aged, fits
<1>7. \A i \in 1 .. Len(aged) : aged[i] <= now
  <2>1. \A i \in 1 .. Len(aged) : i + k \in 1 .. n BY <1>1, <1>5
  <2> QED BY <1>1, <1>5, <2>1
<1>8. /\ new \in Seq(Nat) /\ Len(new) <= MAX_REQUESTS
      /\ \A i \in 1 .. Len(new) : new[i] <= now
  <2>1. CASE fits
    <3>1. /\ new \in Seq(Nat) /\ Len(new) = Len(aged) + 1 /\ new[Len(aged) + 1] = now
          /\ \A i \in 1 .. Len(aged) : new[i] = aged[i]
      BY <1>1, <1>5, <2>1, AppendProperties
    <3>0. Len(aged) \in Nat BY <1>5, LenProperties
    <3>2. \A i \in 1 .. Len(aged) + 1 : i \in 1 .. Len(aged) \/ i = Len(aged) + 1
      BY <3>0
    <3>3. Len(new) <= MAX_REQUESTS BY <1>1, <1>4, <1>5, <1>6, <2>1, <3>1
    <3>4. \A i \in 1 .. Len(new) : new[i] <= now BY <1>1, <1>7, <3>1, <3>2
    <3> QED BY <3>1, <3>3, <3>4
  <2>2. CASE ~fits
    <3>1. new = aged BY <2>2
    <3>2. Len(aged) <= MAX_REQUESTS
      <4>1. Len(aged) = n - k BY <1>5
      <4>2. n - k <= n BY <1>1
      <4> HIDE DEF n
      <4> QED BY <1>1, <4>1, <4>2
    <3> HIDE DEF new
    <3> QED BY <1>5, <1>7, <3>1, <3>2
  <2> QED BY <2>1, <2>2
<1>9. requests' \in [Addresses -> Seq(Nat)] /\ requests'[c] = new
      /\ \A d \in Addresses : d # c => requests'[d] = requests[d]
  <2> HIDE DEF new
  <2> QED BY <1>1, <1>2, <1>8
<1>10. AddressesOK'
  <2> HIDE DEF new
  <2> QED BY <1>2, <1>8, <1>9 DEF AddressesOK, HelpIInv
<1>11. ASSUME NEW d \in Addresses, NEW t \in 0 .. now
       PROVE  Since(d, t)' = IF fits /\ d = c THEN Since(d, t) \cup {x} ELSE Since(d, t)
  BY <1>1, <1>2 DEF Since
<1>12. KeepsTheWindow'
  <2> SUFFICES ASSUME NEW d \in Addresses, NEW t \in 0 .. now, t + WINDOW > now
               PROVE  \E m \in 0 .. Len(requests'[d]) : Before(d, t, m)'
    BY <1>2 DEF KeepsTheWindow
  <2>1. PICK m \in 0 .. Len(requests[d]) : Before(d, t, m)
    BY DEF HelpIInv, KeepsTheWindow
  <2>2. CASE d # c
    <3>1. Since(d, t)' = Since(d, t) BY <1>11, <2>2
    <3>2. requests'[d] = requests[d] BY <1>9, <2>2
    <3> QED BY <2>1, <3>1, <3>2 DEF Before
  <2>3. CASE d = c
    <3>1. Splits(s, t, m) /\ Cardinality(Since(c, t)) = n - m /\ m \in 0 .. n
      BY <2>1, <2>3 DEF Before
    <3>2. \A i \in 1 .. k : s[i] < t BY <1>1, <1>4
    <3>3. k <= m /\ Splits(aged, t, m - k)
      <4>1. t \in Nat /\ Splits(s, t, m) BY <1>1, <3>1
      <4>2. k <= m /\ Splits(SubSeq(s, k + 1, Len(s)), t, m - k)
        <5> HIDE DEF s
        <5> QED BY <1>1, <3>1, <3>2, <4>1, DroppedSplits DEF s
      <4> QED BY <1>4, <4>2
    <3>4. Splits(new, t, m - k) /\ Len(new) = IF fits THEN Len(aged) + 1 ELSE Len(aged)
      <4>1. CASE fits
        <5>1. t \in Nat /\ now \in Nat /\ now >= t BY <1>1
        <5>2. Splits(Append(aged, now), t, m - k) /\ Len(Append(aged, now)) = Len(aged) + 1
          BY <1>5, <3>3, <5>1, AppendedSplits
        <5> QED BY <4>1, <5>2
      <4>2. CASE ~fits BY <3>3, <4>2
      <4> QED BY <4>1, <4>2
    <3>5. IsFiniteSet(Since(c, t)) /\ x \notin Since(c, t)
      BY <1>1, <1>3, FS_Subset DEF Since
    <3>6. Since(c, t)' = IF fits THEN Since(c, t) \cup {x} ELSE Since(c, t)
      BY <1>11, <2>3
    <3> HIDE DEF x, new
    <3>7. Cardinality(Since(c, t)') = IF fits THEN n - m + 1 ELSE n - m
      BY <3>1, <3>5, <3>6, FS_AddElement
    <3>8. Cardinality(Since(c, t)') = Len(new) - (m - k)
      BY <1>1, <1>5, <3>1, <3>4, <3>7
    <3>9. Before(c, t, m - k)' BY <1>9, <3>4, <3>8 DEF Before
    <3>10. m - k \in 0 .. Len(requests'[c]) BY <1>9, <3>4 DEF Splits
    <3> QED BY <2>3, <3>9, <3>10
  <2> QED BY <2>2, <2>3
<1>13. Help!AtMostMaxPerWindow'
  <2> SUFFICES ASSUME NEW d \in Addresses, NEW t \in 0 .. now
               PROVE  Cardinality(Help!InWindow(d, t)') <= MAX_REQUESTS
    BY <1>2, SameCount DEF Help!AtMostMaxPerWindow
  <2>1. Cardinality(Help!InWindow(d, t)) <= MAX_REQUESTS
    BY AtMost DEF HelpIInv
  <2>2. CASE fits /\ d = c /\ t = now
    <3>1. Help!InWindow(d, t) \subseteq admitted BY DEF Help!InWindow
    <3>2. IsFiniteSet(Help!InWindow(d, t)) /\ x \notin Help!InWindow(d, t)
      BY <1>1, <1>3, <3>1, FS_Subset
    <3>3. Help!InWindow(d, t)' = IF WINDOW > 0 THEN Help!InWindow(d, t) \cup {x} ELSE Help!InWindow(d, t)
      BY <1>1, <1>2, <2>2 DEF Help!InWindow
    <3>4. Cardinality(Help!InWindow(d, t)) + 1 <= MAX_REQUESTS
      BY <1>1, <1>4, <1>6, <2>2
    <3>5. Cardinality(Help!InWindow(d, t) \cup {x}) = Cardinality(Help!InWindow(d, t)) + 1
      BY <3>2, FS_AddElement
    <3> QED BY <2>1, <3>3, <3>4, <3>5
  <2>3. CASE ~(fits /\ d = c /\ t = now)
    <3>1. Help!InWindow(d, t)' = Help!InWindow(d, t)
      BY <1>1, <1>2, <2>3 DEF Help!InWindow
    <3> QED BY <2>1, <3>1
  <2> QED BY <2>2, <2>3
<1> QED BY <1>9, <1>10, <1>12, <1>13

\* What the other steps keep of the shape and of the order of a call's steps.
LEMMA HelpShapeKept ==
  ASSUME Help!HelpAssumption, HelpIInv, Help!Next
  PROVE  HelpShape' /\ Passed'
<1> USE DEF Help!HelpAssumption
<1>0. /\ now \in Nat /\ now <= MaxTime
      /\ requests \in [Addresses -> Seq(Nat)]
      /\ reference \in [readable : BOOLEAN, cached : BOOLEAN]
      /\ chat \in [Chats -> Calls] /\ open \subseteq Chats
      /\ admitted \subseteq Admissions /\ IsFiniteSet(admitted)
      /\ \A a \in admitted : a.time \in Nat /\ a.time <= now /\ a.chat \in Chats
  BY DEF HelpIInv, HelpShape, Admissions
<1>0p. Passed BY DEF HelpIInv
<1>1. ASSUME NEW r \in Chats, Help!Receive(r) PROVE HelpShape' /\ Passed'
  <2>0. PICK body \in Help!Bodies :
          chat[r].pc = "idle" /\ chat' = [chat EXCEPT ![r].pc = "open", ![r].body = body]
    BY <1>1 DEF Help!Receive
  <2>1. open' = open \cup {r} /\ UNCHANGED <<now, requests, reference, admitted>>
    BY <1>1 DEF Help!Receive
  <2>2. /\ chat' \in [Chats -> Calls] /\ chat'[r].pc = "open" /\ chat'[r].body = body
        /\ \A q \in Chats : q # r => chat'[q] = chat[q]
    BY <1>0, <2>0 DEF Calls, Steps
  <2>3. HelpShape' BY <1>0, <2>1, <2>2 DEF HelpShape
  <2>4. \A a \in admitted : a.chat # r BY <1>0p, <2>0 DEF Passed
  <2>5. Passed' BY <1>0, <1>0p, <2>1, <2>2, <2>4 DEF Passed
  <2> QED BY <2>3, <2>5
<1>2. ASSUME NEW r \in Chats, Help!Check(r) PROVE HelpShape' /\ Passed'
  <2>0. PICK c \in Addresses : c = chat[r].client BY <1>0 DEF Calls
  <2> DEFINE x == [chat |-> r, client |-> c, time |-> now]
             fits == Help!WithinLimit(c)
             verdict == IF fits THEN Help!Verdict(chat[r].body) ELSE "limited"
             to == IF verdict = "asking" /\ ~Help!Loads THEN "unavailable" ELSE verdict
  <2>1. /\ chat[r].pc = "open" /\ UNCHANGED <<now, open>>
        /\ admitted' = IF fits THEN admitted \cup {x} ELSE admitted
        /\ chat' = [chat EXCEPT ![r].pc = to]
        /\ reference' = [reference EXCEPT !.cached = @ \/ (verdict = "asking" /\ Help!Loads)]
    BY <1>2, <2>0 DEF Help!Check, Help!At, Help!Counted
  <2>2. requests' \in [Addresses -> Seq(Nat)] BY <1>2, CheckKeepsTheWindow
  <2>3. Help!Verdict(chat[r].body) \in {"bad request", "refused", "asking"}
    BY DEF Help!Verdict
  <2> HIDE DEF fits
  <2>4. to \in {"bad request", "refused", "asking", "unavailable", "limited"}
    BY <2>3
  <2>5. to = "asking" => fits /\ Help!Verdict(chat[r].body) = "asking"
    OBVIOUS
  <2>6. reference' \in [readable : BOOLEAN, cached : BOOLEAN]
    <3> HIDE DEF verdict
    <3> QED BY <1>0, <2>1
  <2> HIDE DEF to, verdict
  <2>7. /\ chat' \in [Chats -> Calls] /\ chat'[r].pc = to /\ chat'[r].body = chat[r].body
        /\ \A q \in Chats : q # r => chat'[q] = chat[q]
    BY <1>0, <2>1, <2>4 DEF Calls, Steps, Help!Ended
  <2>8. admitted' \subseteq Admissions /\ IsFiniteSet(admitted')
        /\ \A a \in admitted' : a.time <= now
    <3>1. x \in Admissions /\ x.time <= now BY <1>0, <2>0 DEF Admissions
    <3> HIDE DEF x
    <3>2. IsFiniteSet(admitted \cup {x}) BY <1>0, FS_AddElement
    <3> QED BY <1>0, <2>1, <3>1, <3>2
  <2>9. HelpShape' BY <1>0, <2>1, <2>2, <2>6, <2>7, <2>8 DEF HelpShape
  <2>10. Passed'
    <3>1. \A a \in admitted' : chat'[a.chat].pc \notin {"idle", "open"}
      <4> SUFFICES ASSUME NEW a \in admitted' PROVE chat'[a.chat].pc \notin {"idle", "open"}
        OBVIOUS
      <4>1. CASE a.chat = r BY <2>4, <2>7, <4>1
      <4>2. CASE a.chat # r
        <5>1. a \in admitted /\ a.chat \in Chats BY <1>0, <2>1, <4>2
        <5> QED BY <1>0p, <2>7, <4>2, <5>1 DEF Passed
      <4> QED BY <4>1, <4>2
    <3>2. ASSUME NEW q \in Chats, chat'[q].pc \in {"asking", "answered"}
          PROVE  (\E a \in admitted' : a.chat = q) /\ Help!Verdict(chat'[q].body) = "asking"
      <4>1. CASE q = r
        <5>1. fits /\ Help!Verdict(chat[r].body) = "asking"
          BY <2>4, <2>5, <2>7, <3>2, <4>1
        <5>2. x \in admitted' /\ x.chat = r BY <2>1, <5>1
        <5> QED BY <2>7, <4>1, <5>1, <5>2
      <4>2. CASE q # r
        <5>1. chat'[q] = chat[q] BY <2>7, <4>2
        <5>2. (\E a \in admitted : a.chat = q) /\ Help!Verdict(chat[q].body) = "asking"
          BY <1>0p, <3>2, <5>1 DEF Passed
        <5> QED BY <2>1, <5>1, <5>2
      <4> QED BY <4>1, <4>2
    <3>3. \A q \in Chats : chat'[q].pc # "idle" => chat'[q].body \in Help!Bodies
      BY <1>0p, <2>1, <2>7 DEF Passed
    <3> QED BY <3>1, <3>2, <3>3 DEF Passed
  <2> QED BY <2>9, <2>10
<1>3. ASSUME NEW r \in Chats, Help!Reply(r) PROVE HelpShape' /\ Passed'
  <2>0. PICK to \in {"answered", "unavailable"} :
          chat[r].pc = "asking" /\ chat' = [chat EXCEPT ![r].pc = to]
    BY <1>3 DEF Help!Reply, Help!At
  <2>1. UNCHANGED <<now, requests, reference, open, admitted>> BY <1>3 DEF Help!Reply
  <2>2. /\ chat' \in [Chats -> Calls] /\ chat'[r].pc = to /\ chat'[r].body = chat[r].body
        /\ \A q \in Chats : q # r => chat'[q] = chat[q]
    BY <1>0, <2>0 DEF Calls, Steps, Help!Ended
  <2>3. HelpShape' BY <1>0, <2>1, <2>2 DEF HelpShape
  <2>4. \A a \in admitted : chat'[a.chat].pc \notin {"idle", "open"}
    BY <1>0, <1>0p, <2>0, <2>2 DEF Passed
  <2>5. Passed' BY <1>0, <1>0p, <2>0, <2>1, <2>2, <2>4 DEF Passed
  <2> QED BY <2>3, <2>5
<1>4. ASSUME NEW r \in Chats, Help!Close(r) PROVE HelpShape' /\ Passed'
  BY <1>0, <1>0p, <1>4 DEF Help!Close, HelpShape, Passed
<1>5. CASE Help!Tick
  <2>1. now' \in Nat /\ now' <= MaxTime /\ \A a \in admitted : a.time <= now'
    BY <1>0, <1>5 DEF Help!Tick
  <2>2. HelpShape' BY <1>0, <1>5, <2>1 DEF Help!Tick, HelpShape
  <2> QED BY <1>0p, <1>5, <2>2 DEF Help!Tick, Passed
<1>6. CASE Help!Edit
  BY <1>0, <1>0p, <1>6 DEF Help!Edit, HelpShape, Passed
<1> QED BY <1>1, <1>2, <1>3, <1>4, <1>5, <1>6 DEF Help!Next

\* The limiter's record, the checks and the calls under way stay in step.
LEMMA HelpKept ==
  ASSUME Help!HelpAssumption
  PROVE  HelpIInv /\ [Help!Next]_Help!vars => HelpIInv'
<1> SUFFICES ASSUME HelpIInv, [Help!Next]_Help!vars PROVE HelpIInv' OBVIOUS
<1>1. ASSUME NEW r \in Chats, Help!Check(r) PROVE HelpIInv'
  <2>1. Help!Next BY <1>1 DEF Help!Next
  <2> QED BY <1>1, <2>1, HelpShapeKept, CheckKeepsTheWindow DEF HelpIInv
<1>2. CASE Help!Tick
  <2>1. Help!Next BY <1>2 DEF Help!Next
  <2> QED BY <1>2, <2>1, HelpShapeKept, TickKeepsTheWindow DEF HelpIInv
<1>3. CASE Help!Edit \/ \E r \in Chats : Help!Receive(r) \/ Help!Reply(r) \/ Help!Close(r)
  <2>1. Help!Next BY <1>3 DEF Help!Next
  <2>2. UNCHANGED <<now, requests, admitted>>
    BY <1>3 DEF Help!Edit, Help!Receive, Help!Reply, Help!Close
  <2> QED BY <2>1, <2>2, HelpShapeKept, LimiterUntouched DEF HelpIInv
<1>4. CASE UNCHANGED Help!vars
  <2>1. UNCHANGED <<now, requests, admitted, chat, open, reference>> BY <1>4 DEF Help!vars
  <2>2. HelpShape' /\ Passed' BY <2>1 DEF HelpIInv, HelpShape, Passed
  <2> QED BY <2>1, <2>2, LimiterUntouched DEF HelpIInv
<1> QED BY <1>1, <1>2, <1>3, <1>4 DEF Help!Next

\* What was let pass and checked is within the caps and plain.
LEMMA AskingIsPlain ==
  ASSUME Help!HelpAssumption, NEW body \in Help!Bodies, Help!Verdict(body) = "asking"
  PROVE  body.message = "plain" /\ body.history \in Help!BoundedSeq({"plain"}, MAX_HISTORY)
<1> USE DEF Help!HelpAssumption
<1> DEFINE h == body.history
<1>1. body.message \in Says /\ h \in Help!BoundedSeq(Says, MAX_HISTORY + 1)
  BY DEF Help!Bodies
<1>2. PICK n \in 0 .. MAX_HISTORY + 1 : h \in [1 .. n -> Says]
  BY <1>1 DEF Help!BoundedSeq, Help!SeqOf
<1>3. Len(h) = n BY <1>2
<1>4. Help!MessageOk(body) /\ Help!HistoryOk(body) /\ "secret" \notin Help!AllTexts(body)
  BY DEF Help!Verdict
<1>5. body.message = "plain" BY <1>1, <1>4 DEF Help!MessageOk, Help!AllTexts
<1>6. n <= MAX_HISTORY /\ \A i \in 1 .. n : h[i] = "plain"
  BY <1>2, <1>3, <1>4 DEF Help!HistoryOk, Help!AllTexts
<1>7. n \in 0 .. MAX_HISTORY /\ h \in [1 .. n -> {"plain"}] BY <1>2, <1>6
<1>8. h \in Help!BoundedSeq({"plain"}, MAX_HISTORY) BY <1>7 DEF Help!BoundedSeq, Help!SeqOf
<1> QED BY <1>5, <1>8

LEMMA PassedIsPlain ==
  ASSUME Help!HelpAssumption, HelpIInv
  PROVE  Help!ProviderSeesNoSecret
BY AskingIsPlain DEF HelpIInv, HelpShape, Passed, Help!ProviderSeesNoSecret

LEMMA HelpTypes == ASSUME Help!HelpAssumption, HelpIInv PROVE Help!TypeOK
<1> USE DEF Help!HelpAssumption
<1>1. now \in 0 .. MaxTime BY DEF HelpIInv, HelpShape
<1>2. ASSUME NEW c \in Addresses
      PROVE  Len(requests[c]) <= MAX_REQUESTS /\ requests[c] \in Seq(0 .. now)
  <2>1. /\ requests[c] \in Seq(Nat) /\ Len(requests[c]) <= MAX_REQUESTS /\ now \in Nat
        /\ \A i \in 1 .. Len(requests[c]) : requests[c][i] <= now
    BY DEF HelpIInv, HelpShape, AddressesOK
  <2>2. \A i \in 1 .. Len(requests[c]) : requests[c][i] \in 0 .. now
    BY <2>1, ElementOfSeq
  <2>3. requests[c] \in [1 .. Len(requests[c]) -> 0 .. now] /\ Len(requests[c]) \in Nat
    BY <2>1, <2>2
  <2> QED BY <2>1, <2>3, IsASeq
<1>3. \A r \in Chats : /\ chat[r].pc \in {"idle", "open", "asking"} \cup Help!Ended
                       /\ chat[r].client \in Addresses
                       /\ chat[r].body \in Help!Bodies \cup {Help!NoBody}
  BY DEF HelpIInv, HelpShape, Calls, Steps
<1>4. \A a \in admitted : a.client \in Addresses /\ a.time \in 0 .. now /\ a.chat \in Chats
  BY DEF HelpIInv, HelpShape, Admissions
<1>5. reference \in [readable : BOOLEAN, cached : BOOLEAN] /\ open \subseteq Chats
  BY DEF HelpIInv, HelpShape
<1> QED BY <1>1, <1>2, <1>3, <1>4, <1>5 DEF Help!TypeOK

\* Turned away only when the last window is full of the client's own calls.
LEMMA LimitedWhenFull ==
  ASSUME Help!HelpAssumption, HelpIInv, [Help!Next]_Help!vars, NEW r \in Chats,
         chat[r].pc = "open", chat'[r].pc = "limited"
  PROVE  Cardinality(Help!InWindow(chat[r].client, now)) = MAX_REQUESTS
<1> USE DEF Help!HelpAssumption
<1>1. PICK c \in Addresses : c = chat[r].client BY DEF HelpIInv, HelpShape, Calls
<1>2. /\ chat \in [Chats -> Calls] /\ requests[c] \in Seq(Nat) /\ Len(requests[c]) <= MAX_REQUESTS
  BY DEF HelpIInv, HelpShape, AddressesOK
<1>3. Help!Check(r)
  <2>1. ASSUME NEW q \in Chats, Help!Check(q), q # r PROVE FALSE
    BY <1>2, <2>1 DEF Help!Check, Help!At
  <2>2. ASSUME NEW q \in Chats, Help!Receive(q) PROVE FALSE
    BY <1>2, <2>2 DEF Help!Receive, Calls
  <2>3. ASSUME NEW q \in Chats, Help!Reply(q) PROVE FALSE
    BY <1>2, <2>3 DEF Help!Reply, Help!At, Calls
  <2>4. CASE UNCHANGED chat BY <2>4
  <2> QED BY <2>1, <2>2, <2>3, <2>4 DEF Help!Next, Help!Close, Help!Tick, Help!Edit, Help!vars
<1>4. ~Help!WithinLimit(c)
  <2>1. Help!Verdict(chat[r].body) \in {"bad request", "refused", "asking"} BY DEF Help!Verdict
  <2>2. chat'[r].pc # "limited" \/ ~Help!WithinLimit(c)
    BY <1>1, <1>2, <1>3, <2>1 DEF Help!Check, Help!At, Calls
  <2> QED BY <2>2
<1>5. PICK k \in 0 .. Len(requests[c]) :
        /\ Help!Aged(c) = SubSeq(requests[c], k + 1, Len(requests[c]))
        /\ Cardinality(Help!InWindow(c, now)) = Len(requests[c]) - k
  BY AgedIsTheWindow
<1>6. Len(Help!Aged(c)) = Len(requests[c]) - k BY <1>2, <1>5, Dropped
<1>7. ~(Len(Help!Aged(c)) < MAX_REQUESTS) BY <1>4 DEF Help!WithinLimit
<1> QED BY <1>1, <1>2, <1>5, <1>6, <1>7

-------------------------------------------------------------------------------
(***************************************************************************)
(* The inbox.                                                              *)
(***************************************************************************)

\* p lists the places up to m that s has members of S at, the last first.
Lists(p, s, S, m) ==
  /\ \A a \in 1 .. Len(p) : p[a] <= m /\ s[p[a]] \in S
  /\ \A a, b \in 1 .. Len(p) : a < b => p[b] < p[a]
  /\ \A i \in 1 .. m : s[i] \in S => \E a \in 1 .. Len(p) : p[a] = i

LEMMA OneMoreFirst ==
  ASSUME NEW n \in Nat, NEW p \in Seq(1 .. n), NEW s, NEW S, NEW m \in 0 .. n - 1, Lists(p, s, S, m)
  PROVE  /\ s[m + 1] \in S => Lists(<<m + 1>> \o p, s, S, m + 1)
         /\ s[m + 1] \notin S => Lists(p, s, S, m + 1)
<1> DEFINE q == <<m + 1>> \o p
<1>1. Len(p) \in Nat /\ m \in Nat /\ m + 1 \in 1 .. n /\ \A a \in 1 .. Len(p) : p[a] \in 1 .. n
  OBVIOUS
<1>2. Len(q) = Len(p) + 1 /\ \A a \in 1 .. Len(q) : q[a] = IF a = 1 THEN m + 1 ELSE p[a - 1]
  <2>1. <<m + 1>> \in Seq(1 .. n) /\ Len(<<m + 1>>) = 1 BY <1>1
  <2>2. Len(q) = 1 + Len(p) /\ \A a \in 1 .. 1 + Len(p) :
          q[a] = IF a <= 1 THEN <<m + 1>>[a] ELSE p[a - 1]
    BY <1>1, <2>1, ConcatProperties
  <2> QED BY <1>1, <2>2
<1> HIDE DEF q
<1>3. ASSUME s[m + 1] \in S PROVE Lists(q, s, S, m + 1)
  <2>0. \A a \in 1 .. Len(p) : p[a] \in Int /\ p[a] < m + 1 /\ s[p[a]] \in S
    BY <1>1 DEF Lists
  <2>1. ASSUME NEW a \in 1 .. Len(q) PROVE q[a] <= m + 1 /\ s[q[a]] \in S
    <3>1. CASE a = 1 BY <1>1, <1>2, <1>3, <3>1
    <3>2. CASE a # 1
      <4>1. a - 1 \in 1 .. Len(p) /\ q[a] = p[a - 1] BY <1>1, <1>2, <3>2
      <4> QED BY <1>1, <2>0, <4>1
    <3> QED BY <3>1, <3>2
  <2>2. ASSUME NEW a \in 1 .. Len(q), NEW b \in 1 .. Len(q), a < b PROVE q[b] < q[a]
    <3>1. b - 1 \in 1 .. Len(p) /\ q[b] = p[b - 1] BY <1>1, <1>2, <2>2
    <3>2. CASE a = 1
      <4>1. q[a] = m + 1 BY <1>2, <3>2
      <4> QED BY <2>0, <3>1, <4>1
    <3>3. CASE a # 1
      <4>1. a - 1 \in 1 .. Len(p) /\ q[a] = p[a - 1] /\ a - 1 < b - 1 BY <1>1, <1>2, <2>2, <3>3
      <4> QED BY <3>1, <4>1 DEF Lists
    <3> QED BY <3>2, <3>3
  <2>3. ASSUME NEW i \in 1 .. m + 1, s[i] \in S PROVE \E a \in 1 .. Len(q) : q[a] = i
    <3>1. CASE i = m + 1 BY <1>1, <1>2, <3>1
    <3>2. CASE i # m + 1
      <4>1. PICK a \in 1 .. Len(p) : p[a] = i BY <1>1, <2>3, <3>2 DEF Lists
      <4>2. a + 1 \in 1 .. Len(q) /\ q[a + 1] = p[a] BY <1>1, <1>2, <4>1
      <4> QED BY <4>1, <4>2
    <3> QED BY <3>1, <3>2
  <2> QED BY <2>1, <2>2, <2>3 DEF Lists
<1>4. ASSUME s[m + 1] \notin S PROVE Lists(p, s, S, m + 1)
  <2>1. \A i \in 1 .. m + 1 : s[i] \in S => i \in 1 .. m BY <1>1, <1>4
  <2>2. \A a \in 1 .. Len(p) : p[a] <= m + 1 BY <1>1 DEF Lists
  <2> QED BY <2>1, <2>2 DEF Lists
<1> QED BY <1>3, <1>4 DEF q

\* The newest are all of them, in order.
LEMMA NewestLists ==
  ASSUME NEW s, NEW n \in Nat, n = Len(s), NEW S
  PROVE  Bell!Newest(s, S) \in Seq(1 .. n) /\ Lists(Bell!Newest(s, S), s, S, n)
<1> DEFINE Places == Seq(1 .. n)
           step == [p \in Nat \X Places |->
                      IF p[1] < n /\ s[p[1] + 1] \in S THEN <<p[1] + 1>> \o p[2] ELSE p[2]]
           Is(g) == g = [i \in 0 .. n |-> IF i = 0 THEN <<>> ELSE
                                          IF s[i] \in S THEN <<i>> \o g[i - 1] ELSE g[i - 1]]
<1>1. ASSUME NEW i \in 0 .. n - 1, NEW v \in Places PROVE <<i + 1>> \o v \in Places
  <2>1. <<i + 1>> \in Places BY <1>1
  <2> QED BY <2>1
<1>2. step \in [Nat \X Places -> Places]
  <2>1. ASSUME NEW i \in Nat, NEW v \in Places
        PROVE  (IF i < n /\ s[i + 1] \in S THEN <<i + 1>> \o v ELSE v) \in Places
    <3>1. i < n => i \in 0 .. n - 1 BY <2>1
    <3> QED BY <1>1, <3>1
  <2> HIDE DEF Places
  <2> QED BY <2>1
<1>3. \A i \in Nat, v \in Places : i < n =>
        step[<<i, v>>] = IF s[i + 1] \in S THEN <<i + 1>> \o v ELSE v
  <2> HIDE DEF Places
  <2> QED OBVIOUS
<1>4. <<>> \in Places OBVIOUS
<1> HIDE DEF step, Places
<1>5. PICK e \in [0 .. n -> Places] : Follows(e, n, <<>>, step)
  BY <1>2, <1>4, RecursionUpTo
<1>6. Is(e)
  <2>1. ASSUME NEW i \in 0 .. n
        PROVE  e[i] = IF i = 0 THEN <<>> ELSE IF s[i] \in S THEN <<i>> \o e[i - 1] ELSE e[i - 1]
    <3>1. CASE i = 0 BY <1>5, <3>1 DEF Follows
    <3>2. CASE i # 0
      <4>1. i - 1 \in 0 .. n - 1 /\ i - 1 \in Nat /\ i - 1 < n /\ (i - 1) + 1 = i BY <3>2
      <4>2. e[i - 1] \in Places /\ e[i] = step[<<i - 1, e[i - 1]>>] BY <1>5, <4>1 DEF Follows
      <4> QED BY <1>3, <3>2, <4>1, <4>2
    <3> QED BY <3>1, <3>2
  <2> QED BY <1>5, <2>1
<1> DEFINE at == CHOOSE g : Is(g)
<1>7. Is(at) BY <1>6
<1>8. Bell!Newest(s, S) = at[n] BY DEF Bell!Newest
<1>9. at[0] = <<>> /\ \A i \in 0 .. n - 1 :
        at[i + 1] = IF s[i + 1] \in S THEN <<i + 1>> \o at[i] ELSE at[i]
  <2>1. \A i \in 0 .. n : at[i] = IF i = 0 THEN <<>> ELSE
                                  IF s[i] \in S THEN <<i>> \o at[i - 1] ELSE at[i - 1]
    BY <1>7
  <2>2. \A i \in 0 .. n - 1 : i + 1 \in 0 .. n /\ i + 1 # 0 /\ (i + 1) - 1 = i /\ 0 \in 0 .. n
    OBVIOUS
  <2> HIDE DEF at
  <2>3. 0 \in 0 .. n OBVIOUS
  <2> QED BY <2>1, <2>2, <2>3
<1> HIDE DEF at, Is
<1> DEFINE T == {i \in 0 .. n : at[i] \in Places /\ Lists(at[i], s, S, i)}
<1>10. 0 \in T BY <1>4, <1>9 DEF Lists
<1>11. ASSUME NEW i \in 0 .. n - 1, i \in T PROVE i + 1 \in T
  <2>1. at[i] \in Seq(1 .. n) /\ Lists(at[i], s, S, i) BY <1>11 DEF Places
  <2>2. CASE s[i + 1] \in S
    <3>1. at[i + 1] = <<i + 1>> \o at[i] BY <1>9, <2>2
    <3>2. at[i + 1] \in Places BY <1>1, <1>11, <3>1
    <3>3. Lists(at[i + 1], s, S, i + 1) BY <2>1, <2>2, <3>1, OneMoreFirst
    <3> QED BY <3>2, <3>3
  <2>3. CASE s[i + 1] \notin S
    <3>1. at[i + 1] = at[i] BY <1>9, <2>3
    <3>2. Lists(at[i + 1], s, S, i + 1) BY <2>1, <2>3, <3>1, OneMoreFirst
    <3> QED BY <1>11, <3>1, <3>2
  <2> QED BY <2>2, <2>3
<1>12. n \in T
  <2> HIDE DEF T
  <2>1. 0 .. n \subseteq T BY <1>10, <1>11, InductionUpTo
  <2> QED BY <2>1
<1> QED BY <1>8, <1>12 DEF Places
Rows == [note : Notes, read : BOOLEAN]

\* What the list's load and the count's can be answered.
AnswersTo(x) ==
  {<<>>} \cup {<<a>> : a \in IF x = "list" THEN Seq(Rows) ELSE {Bell!Cardinality(S) : S \in SUBSET Notes}}
LoadsOf(x) == [answer : AnswersTo(x), overtaken : BOOLEAN]

InboxShape ==
  /\ begun \in Seq(Notes) /\ \A i, j \in 1 .. Len(begun) : begun[i] = begun[j] => i = j
  /\ sent \subseteq {begun[i] : i \in 1 .. Len(begun)} /\ read \subseteq sent
  /\ loads = [x \in Bell!Resources |-> loads[x]] /\ shown = [x \in Bell!Resources |-> shown[x]]
  /\ \A x \in Bell!Resources : /\ loads[x] \in Seq(LoadsOf(x)) /\ Len(loads[x]) <= MaxLoads
                               /\ shown[x] \in AnswersTo(x)
  /\ click \in [at : {"idle", "one", "all", "update", "served"}, rows : SUBSET Bell!Mine(Reader)]
  /\ fails \in 0 .. MaxFails

\* A page of the reader's, in order, at most as it is.
OwnPage(p) ==
  /\ Len(p) <= PageSize
  /\ \A i \in 1 .. Len(p) : p[i].note \in Bell!Mine(Reader) /\ (p[i].read => p[i].note \in read)
  /\ \A i, j \in 1 .. Len(p) : i < j =>
       \E k, l \in 1 .. Len(begun) : l < k /\ p[i].note = begun[k] /\ p[j].note = begun[l]

OwnAnswer(x, a) == x = "list" /\ a # <<>> => OwnPage(a[1])

\* The answers on their way and the one shown are such pages.
OwnAnswers == \A x \in Bell!Resources :
  /\ OwnAnswer(x, shown[x])
  /\ \A i \in 1 .. Len(loads[x]) : OwnAnswer(x, loads[x][i].answer)

InboxIInv == InboxShape /\ OwnAnswers

\* The page that a list is answered with.
LEMMA ResultIsOwn ==
  ASSUME Bell!InboxAssumption, InboxShape, NEW x \in Bell!Resources
  PROVE  Bell!Result(x) \in AnswersTo(x) /\ OwnAnswer(x, Bell!Result(x))
<1>1. CASE x = "count"
  <2>1. Bell!Unread(Reader) \in SUBSET Notes
    BY DEF InboxShape, Bell!Unread, Bell!Mine
  <2>2. Bell!Result(x) = <<Bell!Cardinality(Bell!Unread(Reader))>>
    BY <1>1 DEF Bell!Result
  <2> QED BY <1>1, <2>1, <2>2 DEF AnswersTo, OwnAnswer
<1>2. CASE x = "list"
  <2> DEFINE n == Len(begun)
             mine == Bell!Newest(begun, Bell!Mine(Reader))
             m == IF Len(mine) < PageSize THEN Len(mine) ELSE PageSize
             p == Bell!Page(Reader)
  <2>1. n \in Nat /\ begun \in Seq(Notes) /\ \A i \in 1 .. n : begun[i] \in Notes
    BY DEF InboxShape
  <2>2. mine \in Seq(1 .. n) /\ Lists(mine, begun, Bell!Mine(Reader), n)
    BY <2>1, NewestLists
  <2>3. p = [i \in 1 .. m |-> [note |-> begun[mine[i]], read |-> begun[mine[i]] \in read]]
    BY DEF Bell!Page
  <2> HIDE DEF n, mine, p
  <2>4. Len(mine) \in Nat /\ PageSize \in Nat /\ m \in Nat /\ m <= Len(mine) /\ m <= PageSize
    BY <2>2 DEF Bell!InboxAssumption
  <2> HIDE DEF m
  <2>5. ASSUME NEW i \in 1 .. m
        PROVE  i \in 1 .. Len(mine) /\ mine[i] \in 1 .. n /\ begun[mine[i]] \in Bell!Mine(Reader)
    <3>1. i \in 1 .. Len(mine) BY <2>4
    <3>2. mine[i] \in 1 .. n BY <2>2, <3>1, ElementOfSeq
    <3>3. begun[mine[i]] \in Bell!Mine(Reader) BY <2>2, <3>1 DEF Lists
    <3> QED BY <3>1, <3>2, <3>3
  <2>6. p \in [1 .. m -> Rows] BY <2>1, <2>3, <2>5 DEF Rows
  <2>7. p \in Seq(Rows) /\ Len(p) = m BY <2>4, <2>6, IsASeq
  <2>8. \A i \in 1 .. m : p[i].note = begun[mine[i]] /\ (p[i].read => p[i].note \in read)
    BY <2>3
  <2>9. ASSUME NEW i \in 1 .. m, NEW j \in 1 .. m, i < j
        PROVE  \E k, l \in 1 .. n : l < k /\ p[i].note = begun[k] /\ p[j].note = begun[l]
    BY <2>2, <2>5, <2>8, <2>9 DEF Lists
  <2>10. OwnPage(p) BY <2>4, <2>5, <2>7, <2>8, <2>9 DEF OwnPage, n
  <2>11. Bell!Result(x) = <<p>> BY <1>2 DEF Bell!Result, p
  <2> QED BY <1>2, <2>7, <2>10, <2>11 DEF AnswersTo, OwnAnswer
<1> QED BY <1>1, <1>2 DEF Bell!Resources

\* More is written, committed and read: a page stays a page.
LEMMA PageStays ==
  ASSUME NEW x, NEW a \in AnswersTo(x), OwnAnswer(x, a), Len(begun) \in Nat, Len(begun') \in Nat,
         Len(begun) <= Len(begun'), \A i \in 1 .. Len(begun) : begun'[i] = begun[i],
         sent \subseteq sent', read \subseteq read'
  PROVE  OwnAnswer(x, a)'
BY DEF OwnAnswer, OwnPage, Bell!Mine

\* Nothing new is written; a step leaves the answers, or the list's is new.
LEMMA AnswersStay ==
  ASSUME Bell!InboxAssumption, InboxIInv, UNCHANGED <<begun, sent>>, read \subseteq read',
         \A x \in Bell!Resources :
           /\ loads'[x] \in Seq(LoadsOf(x))
           /\ shown'[x] = shown[x] \/ \E i \in 1 .. Len(loads[x]) : shown'[x] = loads[x][i].answer
           /\ \A i \in 1 .. Len(loads'[x]) :
                \/ loads'[x][i].answer \in {<<>>, Bell!Result(x)}
                \/ \E j \in 1 .. Len(loads[x]) : loads'[x][i].answer = loads[x][j].answer
  PROVE  OwnAnswers'
<1>1. ASSUME NEW x \in Bell!Resources, NEW a,
             \/ a \in {<<>>, shown[x], Bell!Result(x)}
             \/ \E j \in 1 .. Len(loads[x]) : a = loads[x][j].answer
      PROVE  OwnAnswer(x, a)'
  <2>1. a \in AnswersTo(x) /\ OwnAnswer(x, a)
    <3>1. CASE a = <<>> BY <3>1 DEF AnswersTo, OwnAnswer
    <3>2. CASE a = shown[x] BY <3>2 DEF InboxIInv, InboxShape, OwnAnswers
    <3>3. CASE a = Bell!Result(x) BY <3>3, ResultIsOwn DEF InboxIInv
    <3>4. ASSUME NEW j \in 1 .. Len(loads[x]), a = loads[x][j].answer
          PROVE  a \in AnswersTo(x) /\ OwnAnswer(x, a)
      <4>1. loads[x][j] \in LoadsOf(x) BY DEF InboxIInv, InboxShape
      <4> QED BY <3>4, <4>1 DEF LoadsOf, InboxIInv, OwnAnswers
    <3> QED BY <1>1, <3>1, <3>2, <3>3, <3>4
  <2>2. Len(begun) \in Nat BY DEF InboxIInv, InboxShape
  <2> QED BY <2>1, <2>2, PageStays
<1>2. ASSUME NEW x \in Bell!Resources PROVE OwnAnswer(x, shown[x])'
  <2>1. PICK a : a = shown'[x] OBVIOUS
  <2>2. OwnAnswer(x, a)' BY <1>1, <2>1
  <2> QED BY <2>1, <2>2
<1>3. ASSUME NEW x \in Bell!Resources, NEW i \in 1 .. Len(loads'[x])
      PROVE  OwnAnswer(x, loads[x][i].answer)'
  <2>1. PICK a : a = loads'[x][i].answer OBVIOUS
  <2>2. a \in {<<>>, Bell!Result(x)} \/ \E j \in 1 .. Len(loads[x]) : a = loads[x][j].answer
    BY <2>1
  <2>3. OwnAnswer(x, a)' BY <1>1, <2>2
  <2> QED BY <2>1, <2>3
<1> QED BY <1>2, <1>3 DEF OwnAnswers
LEMMA OneRemoved ==
  ASSUME NEW S, NEW s \in Seq(S), NEW i \in 1 .. Len(s)
  PROVE  /\ Bell!RemoveAt(s, i) \in Seq(S) /\ Len(Bell!RemoveAt(s, i)) = Len(s) - 1
         /\ \A k \in 1 .. Len(Bell!RemoveAt(s, i)) : \E j \in 1 .. Len(s) : Bell!RemoveAt(s, i)[k] = s[j]
<1> DEFINE n == Len(s)  a == SubSeq(s, 1, i - 1)  b == SubSeq(s, i + 1, n)
<1>1. n \in Nat /\ i \in 1 .. n /\ \A k \in 1 .. n : s[k] \in S OBVIOUS
<1>2. /\ a \in Seq(S) /\ Len(a) = i - 1 /\ \A k \in 1 .. i - 1 : a[k] = s[k]
  <2>1. /\ a \in Seq(S) /\ Len(a) = IF 1 <= i - 1 THEN i - 1 - 1 + 1 ELSE 0
        /\ \A k \in 1 .. i - 1 - 1 + 1 : a[k] = s[1 + k - 1]
    BY <1>1, SubSeqProperties
  <2>2. \A k \in 1 .. i - 1 : k \in 1 .. i - 1 - 1 + 1 /\ 1 + k - 1 = k BY <1>1
  <2> QED BY <1>1, <2>1, <2>2
<1>3. /\ b \in Seq(S) /\ Len(b) = n - i /\ \A k \in 1 .. n - i : b[k] = s[k + i]
  <2>1. /\ b \in Seq(S) /\ Len(b) = IF i + 1 <= n THEN n - (i + 1) + 1 ELSE 0
        /\ \A k \in 1 .. n - (i + 1) + 1 : b[k] = s[i + 1 + k - 1]
    BY <1>1, SubSeqProperties
  <2>2. \A k \in 1 .. n - i : k \in 1 .. n - (i + 1) + 1 /\ i + 1 + k - 1 = k + i BY <1>1
  <2> QED BY <1>1, <2>1, <2>2
<1> HIDE DEF a, b, n
<1>4. a \o b \in Seq(S) /\ Len(a \o b) = n - 1
      /\ \A k \in 1 .. n - 1 : (a \o b)[k] = IF k <= i - 1 THEN a[k] ELSE b[k - (i - 1)]
  <2>1. /\ a \o b \in Seq(S) /\ Len(a \o b) = Len(a) + Len(b)
        /\ \A k \in 1 .. Len(a) + Len(b) : (a \o b)[k] = IF k <= Len(a) THEN a[k] ELSE b[k - Len(a)]
    BY <1>2, <1>3, ConcatProperties
  <2>2. Len(a) + Len(b) = n - 1 BY <1>1, <1>2, <1>3
  <2> QED BY <1>2, <2>1, <2>2
<1>5. ASSUME NEW k \in 1 .. n - 1 PROVE \E j \in 1 .. n : (a \o b)[k] = s[j]
  <2>1. CASE k <= i - 1
    <3>1. k \in 1 .. n /\ k \in 1 .. i - 1 BY <1>1, <2>1
    <3> QED BY <1>2, <1>4, <2>1, <3>1
  <2>2. CASE ~(k <= i - 1)
    <3>1. k - (i - 1) \in 1 .. n - i /\ (k - (i - 1)) + i \in 1 .. n BY <1>1, <2>2
    <3> QED BY <1>3, <1>4, <2>2, <3>1
  <2> QED BY <2>1, <2>2
<1>6. Bell!RemoveAt(s, i) = a \o b BY DEF Bell!RemoveAt, a, b, n
<1> QED BY <1>4, <1>5, <1>6 DEF n

\* Steps that leave what is written as it is and the answers as the lemma above says.
LEMMA InboxInit == ASSUME Bell!InboxAssumption, Bell!Init PROVE InboxIInv
<1> USE DEF Bell!InboxAssumption
<1>1. begun \in Seq(Notes) /\ Len(begun) = 0 BY DEF Bell!Init
<1>2. \A x \in Bell!Resources :
        /\ loads[x] = <<>> /\ shown[x] = <<>> /\ Len(loads[x]) = 0 /\ loads[x] \in Seq(LoadsOf(x))
  BY DEF Bell!Init
<1>3. click \in [at : {"idle", "one", "all", "update", "served"}, rows : SUBSET Bell!Mine(Reader)]
  BY DEF Bell!Init, Bell!Idle
<1>4. InboxShape BY <1>1, <1>2, <1>3 DEF Bell!Init, InboxShape, AnswersTo
<1> QED BY <1>2, <1>4 DEF InboxIInv, OwnAnswers, OwnAnswer

\* A notification is written or committed.
LEMMA WritingKeeps ==
  ASSUME Bell!InboxAssumption, InboxIInv, NEW n \in Notes, Bell!Begin(n) \/ Bell!Commit(n)
  PROVE  InboxIInv'
<1>1. UNCHANGED <<read, loads, shown, click, fails>> /\ sent \subseteq sent'
  BY DEF Bell!Begin, Bell!Commit
<1>2. begun \in Seq(Notes) /\ Len(begun) \in Nat BY DEF InboxIInv, InboxShape
<1>3. /\ begun' \in Seq(Notes) /\ Len(begun') \in Nat /\ Len(begun) <= Len(begun')
      /\ \A i \in 1 .. Len(begun) : begun'[i] = begun[i]
      /\ \A i, j \in 1 .. Len(begun') : begun'[i] = begun'[j] => i = j
      /\ sent' \subseteq {begun'[i] : i \in 1 .. Len(begun')}
  <2>1. CASE Bell!Begin(n)
    <3>1. begun' = Append(begun, n) /\ sent' = sent /\ \A i \in 1 .. Len(begun) : begun[i] # n
      BY <2>1, <1>2 DEF Bell!Begin, Bell!Range
    <3>2. /\ begun' \in Seq(Notes) /\ Len(begun') = Len(begun) + 1
          /\ \A i \in 1 .. Len(begun) : begun'[i] = begun[i]
          /\ begun'[Len(begun) + 1] = n
      BY <1>2, <3>1, AppendProperties
    <3>3. ASSUME NEW i \in 1 .. Len(begun'), NEW j \in 1 .. Len(begun'), begun'[i] = begun'[j]
          PROVE  i = j
      <4>1. \A k \in 1 .. Len(begun') : k \in 1 .. Len(begun) \/ k = Len(begun) + 1
        BY <1>2, <3>2
      <4> QED BY <3>1, <3>2, <3>3, <4>1 DEF InboxIInv, InboxShape
    <3>4. 1 .. Len(begun) \subseteq 1 .. Len(begun') BY <1>2, <3>2
    <3>5. ASSUME NEW m \in sent' PROVE \E i \in 1 .. Len(begun') : m = begun'[i]
      <4>1. \E i \in 1 .. Len(begun) : m = begun[i] BY <3>1, <3>5 DEF InboxIInv, InboxShape
      <4> QED BY <3>2, <3>4, <4>1
    <3> QED BY <1>2, <3>2, <3>3, <3>5
  <2>2. CASE Bell!Commit(n)
    <3>1. begun' = begun /\ sent' = sent \cup {n} /\ n \in {begun[i] : i \in 1 .. Len(begun)}
      BY <2>2, <1>2 DEF Bell!Commit, Bell!Range
    <3> QED BY <1>2, <3>1 DEF InboxIInv, InboxShape
  <2> QED BY <2>1, <2>2
<1>4. click' \in [at : {"idle", "one", "all", "update", "served"}, rows : SUBSET Bell!Mine(Reader)']
  BY <1>1 DEF InboxIInv, InboxShape, Bell!Mine
<1>5. InboxShape' BY <1>1, <1>3, <1>4 DEF InboxIInv, InboxShape
<1>6. ASSUME NEW x, NEW a \in AnswersTo(x), OwnAnswer(x, a) PROVE OwnAnswer(x, a)'
  BY <1>1, <1>2, <1>3, <1>6, PageStays
<1>7. ASSUME NEW x \in Bell!Resources
      PROVE  /\ OwnAnswer(x, shown[x])'
             /\ \A i \in 1 .. Len(loads'[x]) : OwnAnswer(x, loads[x][i].answer)'
  <2>1. PICK a : a = shown[x] OBVIOUS
  <2>2. OwnAnswer(x, a)' BY <1>6, <2>1 DEF InboxIInv, InboxShape, OwnAnswers
  <2>3. ASSUME NEW i \in 1 .. Len(loads[x]) PROVE OwnAnswer(x, loads[x][i].answer)'
    <3>1. PICK b : b = loads[x][i].answer OBVIOUS
    <3>2. loads[x][i] \in LoadsOf(x) BY DEF InboxIInv, InboxShape
    <3>3. OwnAnswer(x, b)' BY <1>6, <3>1, <3>2 DEF InboxIInv, OwnAnswers, LoadsOf
    <3> QED BY <1>1, <3>1, <3>3
  <2> QED BY <1>1, <2>1, <2>2, <2>3
<1> QED BY <1>5, <1>7 DEF InboxIInv, OwnAnswers
Clicks == [at : {"idle", "one", "all", "update", "served"}, rows : SUBSET Bell!Mine(Reader)]

\* The loads of a resource go on, end, begin or are answered.
GoesOn(x) ==
  /\ loads'[x] \in Seq(LoadsOf(x)) /\ Len(loads'[x]) <= MaxLoads
  /\ \A i \in 1 .. Len(loads'[x]) :
       \/ loads'[x][i].answer \in {<<>>, Bell!Result(x)}
       \/ \E j \in 1 .. Len(loads[x]) : loads'[x][i].answer = loads[x][j].answer

\* A step that writes nothing.
LEMMA GoingOnKeeps ==
  ASSUME Bell!InboxAssumption, InboxIInv, UNCHANGED <<begun, sent>>, read \subseteq read',
         read' \subseteq sent, loads' = [x \in Bell!Resources |-> loads'[x]],
         shown' = [x \in Bell!Resources |-> shown'[x]],
         \A x \in Bell!Resources :
           /\ GoesOn(x)
           /\ shown'[x] = shown[x] \/ \E i \in 1 .. Len(loads[x]) : shown'[x] = loads[x][i].answer,
         click' \in Clicks, fails' \in 0 .. MaxFails
  PROVE  InboxIInv'
<1>1. OwnAnswers' BY AnswersStay DEF GoesOn
<1>2. \A x \in Bell!Resources : \A i \in 1 .. Len(loads[x]) : loads[x][i].answer \in AnswersTo(x)
  <2>1. \A x \in Bell!Resources : \A i \in 1 .. Len(loads[x]) : loads[x][i] \in LoadsOf(x)
    BY DEF InboxIInv, InboxShape
  <2> QED BY <2>1 DEF LoadsOf
<1>3. \A x \in Bell!Resources : shown'[x] \in AnswersTo(x)
  BY <1>2 DEF InboxIInv, InboxShape
<1>4. click' \in [at : {"idle", "one", "all", "update", "served"}, rows : SUBSET Bell!Mine(Reader)']
  BY DEF Clicks, Bell!Mine
<1>5. InboxShape' BY <1>3, <1>4 DEF InboxIInv, InboxShape, GoesOn
<1> QED BY <1>1, <1>5 DEF InboxIInv

\* The loads of a resource are left alone.
LEMMA Alone ==
  ASSUME InboxIInv, NEW x \in Bell!Resources, loads'[x] = loads[x] PROVE GoesOn(x)
BY DEF InboxIInv, InboxShape, GoesOn

\* One more load.
LEMMA OneMoreLoad ==
  ASSUME Bell!InboxAssumption, InboxIInv, NEW x \in Bell!Resources, Len(loads[x]) < MaxLoads,
         loads'[x] = Append(loads[x], Bell!Loading)
  PROVE  GoesOn(x)
<1>1. Bell!Loading \in LoadsOf(x) /\ Bell!Loading.answer = <<>>
  BY DEF Bell!Loading, LoadsOf, AnswersTo
<1>2. loads[x] \in Seq(LoadsOf(x)) /\ Len(loads[x]) \in Nat /\ MaxLoads \in Nat
  BY DEF InboxIInv, InboxShape, Bell!InboxAssumption
<1>3. /\ loads'[x] \in Seq(LoadsOf(x)) /\ Len(loads'[x]) = Len(loads[x]) + 1
      /\ \A i \in 1 .. Len(loads[x]) : loads'[x][i] = loads[x][i]
      /\ loads'[x][Len(loads[x]) + 1] = Bell!Loading
  BY <1>1, <1>2, AppendProperties
<1>4. \A i \in 1 .. Len(loads'[x]) : i \in 1 .. Len(loads[x]) \/ i = Len(loads[x]) + 1
  BY <1>2, <1>3
<1> QED BY <1>1, <1>2, <1>3, <1>4 DEF GoesOn

\* The server answers a load.
LEMMA AnswerKeeps ==
  ASSUME Bell!InboxAssumption, InboxIInv, NEW x \in Bell!Resources, NEW i, Bell!Answer(x, i)
  PROVE  \A y \in Bell!Resources : GoesOn(y)
<1>1. /\ loads = [y \in Bell!Resources |-> loads[y]] /\ i \in 1 .. Len(loads[x])
      /\ loads[x] \in Seq(LoadsOf(x)) /\ Len(loads[x]) \in Nat /\ Len(loads[x]) <= MaxLoads
  BY DEF InboxIInv, InboxShape, Bell!Answer
<1>2. loads' = [loads EXCEPT ![x] = [loads[x] EXCEPT ![i] = [loads[x][i] EXCEPT !.answer = Bell!Result(x)]]]
  BY DEF Bell!Answer
<1>3. loads[x][i] \in LoadsOf(x) BY <1>1
<1>4. Bell!Result(x) \in AnswersTo(x) BY ResultIsOwn DEF InboxIInv
<1>5. [loads[x][i] EXCEPT !.answer = Bell!Result(x)] \in LoadsOf(x) BY <1>3, <1>4 DEF LoadsOf
<1>6. [loads[x][i] EXCEPT !.answer = Bell!Result(x)].answer = Bell!Result(x) BY <1>3 DEF LoadsOf
<1> DEFINE new == [loads[x][i] EXCEPT !.answer = Bell!Result(x)]
<1> HIDE DEF new
<1>7. loads'[x] = [loads[x] EXCEPT ![i] = new] /\ \A y \in Bell!Resources : y # x => loads'[y] = loads[y]
  BY <1>1, <1>2 DEF new
<1>8. loads'[x] \in Seq(LoadsOf(x)) /\ Len(loads'[x]) = Len(loads[x])
  BY <1>1, <1>5, <1>7 DEF new
<1>9. \A k \in 1 .. Len(loads'[x]) : loads'[x][k] = IF k = i THEN new ELSE loads[x][k]
  BY <1>1, <1>7, <1>8
<1>10. GoesOn(x) BY <1>1, <1>6, <1>8, <1>9 DEF GoesOn, new
<1> QED BY <1>7, <1>10, Alone

\* A load is over, and those before it are out of date.
LEMMA FinishKeeps ==
  ASSUME Bell!InboxAssumption, InboxIInv, NEW x \in Bell!Resources, NEW i \in 1 .. Len(loads[x]),
         Bell!Finish(x, i)
  PROVE  \A y \in Bell!Resources : GoesOn(y)
<1> DEFINE s == loads[x]
           t == Bell!Overtaken(s, i)
<1>1. /\ loads = [y \in Bell!Resources |-> loads[y]]
      /\ s \in Seq(LoadsOf(x)) /\ Len(s) \in Nat /\ DOMAIN s = 1 .. Len(s) /\ Len(s) <= MaxLoads
      /\ MaxLoads \in Nat
  BY DEF InboxIInv, InboxShape, Bell!InboxAssumption
<1>2. loads' = [loads EXCEPT ![x] = Bell!RemoveAt(t, i)] BY DEF Bell!Finish
<1>3. ASSUME NEW k \in 1 .. Len(s)
      PROVE  [s[k] EXCEPT !.overtaken = @ \/ k < i] \in LoadsOf(x)
             /\ [s[k] EXCEPT !.overtaken = @ \/ k < i].answer = s[k].answer
  <2>1. s[k] \in LoadsOf(x) BY <1>1
  <2>2. (s[k].overtaken \/ k < i) \in BOOLEAN BY <2>1 DEF LoadsOf
  <2> QED BY <2>1, <2>2 DEF LoadsOf
<1>4. t \in [1 .. Len(s) -> LoadsOf(x)] /\ \A k \in 1 .. Len(s) : t[k].answer = s[k].answer
  BY <1>1, <1>3 DEF Bell!Overtaken
<1>5. t \in Seq(LoadsOf(x)) /\ Len(t) = Len(s) BY <1>1, <1>4, IsASeq
<1> HIDE DEF t
<1>6. /\ Bell!RemoveAt(t, i) \in Seq(LoadsOf(x)) /\ Len(Bell!RemoveAt(t, i)) = Len(s) - 1
      /\ \A k \in 1 .. Len(Bell!RemoveAt(t, i)) : \E j \in 1 .. Len(s) : Bell!RemoveAt(t, i)[k] = t[j]
  BY <1>5, OneRemoved
<1>7. loads'[x] = Bell!RemoveAt(t, i) /\ \A y \in Bell!Resources : y # x => loads'[y] = loads[y]
  BY <1>1, <1>2
<1>8. Len(loads'[x]) <= MaxLoads BY <1>1, <1>6, <1>7
<1>9. \A k \in 1 .. Len(loads'[x]) : \E j \in 1 .. Len(s) : loads'[x][k].answer = s[j].answer
  BY <1>4, <1>6, <1>7
<1>10. GoesOn(x) BY <1>6, <1>7, <1>8, <1>9 DEF GoesOn
<1> QED BY <1>7, <1>10, Alone

LEMMA FailingKeeps ==
  ASSUME Bell!InboxAssumption, InboxIInv, NEW x \in Bell!Resources, NEW i, Bell!LoadFails(x, i)
  PROVE  \A y \in Bell!Resources : GoesOn(y)
<1>1. /\ loads = [y \in Bell!Resources |-> loads[y]] /\ i \in 1 .. Len(loads[x])
      /\ loads[x] \in Seq(LoadsOf(x)) /\ Len(loads[x]) \in Nat /\ Len(loads[x]) <= MaxLoads
      /\ MaxLoads \in Nat
  BY DEF InboxIInv, InboxShape, Bell!InboxAssumption, Bell!LoadFails
<1>2. loads'[x] = Bell!RemoveAt(loads[x], i) /\ \A y \in Bell!Resources : y # x => loads'[y] = loads[y]
  BY <1>1 DEF Bell!LoadFails
<1>3. /\ loads'[x] \in Seq(LoadsOf(x)) /\ Len(loads'[x]) = Len(loads[x]) - 1
      /\ \A k \in 1 .. Len(loads'[x]) : \E j \in 1 .. Len(loads[x]) : loads'[x][k] = loads[x][j]
  <2> DEFINE S == LoadsOf(x)  s == loads[x]
  <2>1. s \in Seq(S) /\ i \in 1 .. Len(s) /\ loads'[x] = Bell!RemoveAt(s, i) BY <1>1, <1>2
  <2> HIDE DEF S, s
  <2>2. /\ Bell!RemoveAt(s, i) \in Seq(S) /\ Len(Bell!RemoveAt(s, i)) = Len(s) - 1
        /\ \A k \in 1 .. Len(Bell!RemoveAt(s, i)) : \E j \in 1 .. Len(s) : Bell!RemoveAt(s, i)[k] = s[j]
    BY <2>1, OneRemoved
  <2> QED BY <2>1, <2>2 DEF S, s
<1>4. GoesOn(x)
  <2>1. Len(loads'[x]) <= MaxLoads BY <1>1, <1>3
  <2> QED BY <1>3, <2>1 DEF GoesOn
<1> QED BY <1>2, <1>4, Alone
\* What a step writes is read by whoever asked for it, if it is theirs.
LEMMA MarkedIsMine ==
  ASSUME InboxIInv, NEW u, NEW n
  PROVE  read \subseteq Bell!Marked(u, n) /\ Bell!Marked(u, n) \subseteq sent
BY DEF InboxIInv, InboxShape, Bell!Marked, Bell!Mine

\* The page and the clicks.
LEMMA ShownIsMine ==
  ASSUME InboxIInv, NEW n \in Bell!ShownUnread PROVE n \in Bell!Mine(Reader)
<1>1. PICK page \in Bell!Range(shown["list"]) : \E r \in Bell!Range(page) : n = r.note
  BY DEF Bell!ShownUnread
<1>2. "list" \in Bell!Resources BY DEF Bell!Resources
<1>3. shown["list"] \in AnswersTo("list") /\ OwnAnswer("list", shown["list"])
  BY <1>2 DEF InboxIInv, InboxShape, OwnAnswers
<1>4. shown["list"] # <<>> BY <1>1 DEF Bell!Range
<1>5. PICK p \in Seq(Rows) : shown["list"] = <<p>> BY <1>3, <1>4 DEF AnswersTo
<1>6. page = p /\ DOMAIN p = 1 .. Len(p) BY <1>1, <1>5 DEF Bell!Range
<1>7. OwnPage(p) BY <1>3, <1>5 DEF OwnAnswer
<1>8. \E i \in 1 .. Len(p) : n = p[i].note BY <1>1, <1>6 DEF Bell!Range
<1> QED BY <1>7, <1>8 DEF OwnPage

\* Steps that leave the loads and what is shown.
LEMMA ActingKeeps ==
  ASSUME Bell!InboxAssumption, InboxIInv, UNCHANGED <<begun, sent, loads, shown>>,
         read \subseteq read', read' \subseteq sent, click' \in Clicks, fails' \in 0 .. MaxFails
  PROVE  InboxIInv'
<1>1. \A x \in Bell!Resources : GoesOn(x) BY Alone
<1>2. loads' = [x \in Bell!Resources |-> loads'[x]] /\ shown' = [x \in Bell!Resources |-> shown'[x]]
  BY DEF InboxIInv, InboxShape
<1> QED BY <1>1, <1>2, GoingOnKeeps

LEMMA LoadingKeeps ==
  ASSUME Bell!InboxAssumption, InboxIInv, NEW x \in Bell!Resources, Bell!Load(x) PROVE InboxIInv'
<1> USE DEF Bell!InboxAssumption
<1>1. /\ read \subseteq sent /\ click \in Clicks /\ fails \in 0 .. MaxFails
      /\ loads = [y \in Bell!Resources |-> loads[y]] /\ shown = [y \in Bell!Resources |-> shown[y]]
  BY DEF InboxIInv, InboxShape, Clicks
<1>2. CASE Bell!Poll(x)
  <2>1. \A y \in Bell!Resources :
          loads'[y] = IF y = x THEN Append(loads[x], Bell!Loading) ELSE loads[y]
    BY <1>1, <1>2 DEF Bell!Poll
  <2>2. \A y \in Bell!Resources : GoesOn(y) BY <1>2, <2>1, OneMoreLoad, Alone DEF Bell!Poll
  <2>3. loads' = [y \in Bell!Resources |-> loads'[y]] BY <1>1, <1>2 DEF Bell!Poll
  <2>4. UNCHANGED <<begun, sent, read, shown, click, fails>> BY <1>2 DEF Bell!Poll
  <2> QED BY <1>1, <2>2, <2>3, <2>4, GoingOnKeeps
<1>3. ASSUME NEW i, Bell!Answer(x, i) PROVE InboxIInv'
  <2>1. UNCHANGED <<begun, sent, read, shown, click, fails>> BY <1>3 DEF Bell!Answer
  <2>2. loads' = [y \in Bell!Resources |-> loads'[y]] BY <1>1, <1>3 DEF Bell!Answer
  <2> QED BY <1>1, <1>3, <2>1, <2>2, AnswerKeeps, GoingOnKeeps
<1>4. ASSUME NEW i, Bell!Receive(x, i) PROVE InboxIInv'
  <2>1. UNCHANGED <<begun, sent, read, click, fails>> BY <1>4 DEF Bell!Receive
  <2>2. loads' = [y \in Bell!Resources |-> loads'[y]] BY <1>1, <1>4 DEF Bell!Receive, Bell!Finish
  <2>3. i \in 1 .. Len(loads[x]) BY <1>4 DEF Bell!Receive, InboxIInv, InboxShape
  <2>4. /\ shown' = [y \in Bell!Resources |-> shown'[y]]
        /\ \A y \in Bell!Resources :
             shown'[y] = shown[y] \/ \E k \in 1 .. Len(loads[y]) : shown'[y] = loads[y][k].answer
    BY <1>1, <1>4, <2>3 DEF Bell!Receive
  <2>5. \A y \in Bell!Resources : GoesOn(y) BY <1>4, <2>3, FinishKeeps DEF Bell!Receive
  <2> QED BY <1>1, <2>1, <2>2, <2>4, <2>5, GoingOnKeeps
<1>5. ASSUME NEW i, Bell!LoadFails(x, i) PROVE InboxIInv'
  <2>1. UNCHANGED <<begun, sent, read, shown, click>> /\ fails' \in 0 .. MaxFails
    BY <1>1, <1>5 DEF Bell!LoadFails
  <2>2. loads' = [y \in Bell!Resources |-> loads'[y]] BY <1>1, <1>5 DEF Bell!LoadFails
  <2> QED BY <1>1, <1>5, <2>1, <2>2, FailingKeeps, GoingOnKeeps
<1> QED BY <1>2, <1>3, <1>4, <1>5 DEF Bell!Load

LEMMA ActKeeps ==
  ASSUME Bell!InboxAssumption, InboxIInv, Bell!Act PROVE InboxIInv'
<1> USE DEF Bell!InboxAssumption
<1>1. /\ read \subseteq sent /\ click \in Clicks /\ fails \in 0 .. MaxFails
      /\ loads = [y \in Bell!Resources |-> loads[y]] /\ shown = [y \in Bell!Resources |-> shown[y]]
  BY DEF InboxIInv, InboxShape, Clicks
<1>2. Bell!Idle \in Clicks /\ [at |-> "served", rows |-> {}] \in Clicks
      /\ [at |-> "all", rows |-> {}] \in Clicks
  BY DEF Clicks, Bell!Idle
<1>3. ASSUME NEW n \in Notes, Bell!ClickOne(n) PROVE InboxIInv'
  <2>1. [at |-> "one", rows |-> {n}] \in Clicks
    BY <1>3, ShownIsMine DEF Clicks, Bell!ClickOne
  <2> QED BY <1>1, <1>3, <2>1, ActingKeeps DEF Bell!ClickOne
<1>4. ASSUME NEW n \in Notes, Bell!ServeOne(n) PROVE InboxIInv'
  BY <1>1, <1>2, <1>4, MarkedIsMine, ActingKeeps DEF Bell!ServeOne
<1>5. CASE Bell!ClickAll
  BY <1>1, <1>2, <1>5, ActingKeeps DEF Bell!ClickAll
<1>6. CASE Bell!UpdateAll
  <2>1. [at |-> "update", rows |-> Bell!Unread(Reader)] \in Clicks
    BY DEF Clicks, Bell!Unread
  <2> QED BY <1>1, <1>6, <2>1, ActingKeeps DEF Bell!UpdateAll
<1>7. CASE Bell!CommitAll
  <2>1. click.rows \subseteq sent BY <1>1 DEF Clicks, Bell!Mine
  <2> QED BY <1>1, <1>2, <1>7, <2>1, ActingKeeps DEF Bell!CommitAll
<1>8. CASE Bell!Clicked
  <2>1. /\ UNCHANGED <<begun, sent, read, shown, fails>> /\ click' = Bell!Idle
        /\ loads' = [x \in Bell!Resources |->
             IF Len(loads[x]) < MaxLoads THEN Append(loads[x], Bell!Loading) ELSE loads[x]]
    BY <1>8 DEF Bell!Clicked, Bell!Announce
  <2>2. \A x \in Bell!Resources : GoesOn(x) BY <2>1, OneMoreLoad, Alone
  <2>3. loads' = [x \in Bell!Resources |-> loads'[x]] BY <2>1
  <2> QED BY <1>1, <1>2, <2>1, <2>2, <2>3, GoingOnKeeps
<1>9. CASE Bell!ClickFails
  BY <1>1, <1>2, <1>9, ActingKeeps DEF Bell!ClickFails
<1> QED BY <1>3, <1>4, <1>5, <1>6, <1>7, <1>8, <1>9 DEF Bell!Act

\* The notifications, the loads and the clicks fit one another.
LEMMA InboxKept ==
  ASSUME Bell!InboxAssumption
  PROVE  InboxIInv /\ [Bell!Next]_Bell!vars => InboxIInv'
<1> SUFFICES ASSUME InboxIInv, [Bell!Next]_Bell!vars PROVE InboxIInv' OBVIOUS
<1>1. CASE Bell!Write BY <1>1, WritingKeeps DEF Bell!Write
<1>2. ASSUME NEW u \in Users, NEW n \in Notes, Bell!CallMarkRead(u, n) PROVE InboxIInv'
  <2>1. click \in Clicks /\ fails \in 0 .. MaxFails BY DEF InboxIInv, InboxShape, Clicks
  <2> QED BY <1>2, <2>1, MarkedIsMine, ActingKeeps DEF Bell!CallMarkRead
<1>3. CASE \E x \in Bell!Resources : Bell!Load(x) BY <1>3, LoadingKeeps
<1>4. CASE Bell!Act BY <1>4, ActKeeps
<1>5. CASE UNCHANGED Bell!vars
  <2>1. click \in Clicks /\ fails \in 0 .. MaxFails /\ read \subseteq sent
    BY DEF InboxIInv, InboxShape, Clicks
  <2> QED BY <1>5, <2>1, ActingKeeps DEF Bell!vars
<1> QED BY <1>1, <1>2, <1>3, <1>4, <1>5 DEF Bell!Next

\* The page that is shown is the reader's own, newest first, as many as fit, and calls read
\* only what is; so does what is on its way.
LEMMA InboxShowsItsOwn ==
  ASSUME Bell!InboxAssumption PROVE InboxIInv => Bell!TypeOK /\ Bell!ShowsItsOwn
<1>1. InboxIInv => Bell!TypeOK
  <2> SUFFICES ASSUME InboxIInv PROVE Bell!TypeOK OBVIOUS
  <2>1. Bell!Range(begun) \subseteq Notes /\ Bell!IsInjective(begun) /\ sent \subseteq Bell!Range(begun)
    <3>1. /\ DOMAIN begun = 1 .. Len(begun) /\ \A i \in 1 .. Len(begun) : begun[i] \in Notes
          /\ \A i, j \in 1 .. Len(begun) : begun[i] = begun[j] => i = j
          /\ sent \subseteq {begun[i] : i \in 1 .. Len(begun)}
      BY DEF InboxIInv, InboxShape
    <3> QED BY <3>1 DEF Bell!Range, Bell!IsInjective
  <2>2. ASSUME NEW x \in Bell!Resources PROVE Len(loads[x]) <= MaxLoads /\ Len(shown[x]) <= 1
    <3>1. Len(loads[x]) <= MaxLoads /\ shown[x] \in AnswersTo(x) BY DEF InboxIInv, InboxShape
    <3>2. shown[x] = <<>> \/ \E a : shown[x] = <<a>> BY <3>1 DEF AnswersTo
    <3>3. Len(shown[x]) <= 1
      <4>1. CASE shown[x] = <<>> BY <4>1
      <4>2. ASSUME NEW a, shown[x] = <<a>> PROVE Len(shown[x]) <= 1
        <5>1. Len(<<a>>) = 1 OBVIOUS
        <5> QED BY <4>2, <5>1
      <4> QED BY <3>2, <4>1, <4>2
    <3> QED BY <3>1, <3>3
  <2>3. click.at \in {"idle", "one", "all", "update", "served"} /\ click.rows \subseteq sent
    BY DEF InboxIInv, InboxShape, Bell!Mine
  <2> QED BY <2>1, <2>2, <2>3 DEF Bell!TypeOK, InboxIInv, InboxShape
<1>2. InboxIInv => Bell!ShowsItsOwn
  <2> SUFFICES ASSUME InboxIInv, NEW page \in Bell!Range(shown["list"])
               PROVE  /\ Len(page) <= PageSize
                      /\ \A row \in Bell!Range(page) :
                           row.note \in Bell!Mine(Reader) /\ (row.read => row.note \in read)
                      /\ \A i, j \in DOMAIN page : i < j =>
                           \E k, l \in DOMAIN begun :
                             l < k /\ page[i].note = begun[k] /\ page[j].note = begun[l]
    BY DEF Bell!ShowsItsOwn
  <2>1. "list" \in Bell!Resources BY DEF Bell!Resources
  <2>2. /\ shown["list"] \in AnswersTo("list") /\ OwnAnswer("list", shown["list"])
        /\ DOMAIN begun = 1 .. Len(begun)
    BY <2>1 DEF InboxIInv, InboxShape, OwnAnswers
  <2>3. shown["list"] # <<>> BY DEF Bell!Range
  <2>4. PICK p \in Seq(Rows) : shown["list"] = <<p>> BY <2>2, <2>3 DEF AnswersTo
  <2>5. page = p /\ DOMAIN p = 1 .. Len(p) BY <2>4 DEF Bell!Range
  <2>6. OwnPage(p) BY <2>2, <2>4 DEF OwnAnswer
  <2>7. /\ Len(p) <= PageSize
        /\ \A i \in 1 .. Len(p) : p[i].note \in Bell!Mine(Reader) /\ (p[i].read => p[i].note \in read)
        /\ \A i, j \in DOMAIN p : i < j =>
             \E k, l \in DOMAIN begun : l < k /\ p[i].note = begun[k] /\ p[j].note = begun[l]
    <3>1. \A i, j \in 1 .. Len(p) : i < j =>
            \E k, l \in 1 .. Len(begun) : l < k /\ p[i].note = begun[k] /\ p[j].note = begun[l]
      BY <2>6 DEF OwnPage
    <3>2. ASSUME NEW i \in DOMAIN p, NEW j \in DOMAIN p, i < j
          PROVE  \E k, l \in DOMAIN begun : l < k /\ p[i].note = begun[k] /\ p[j].note = begun[l]
      <4>1. i \in 1 .. Len(p) /\ j \in 1 .. Len(p) BY <2>5
      <4>2. PICK k \in 1 .. Len(begun), l \in 1 .. Len(begun) :
              l < k /\ p[i].note = begun[k] /\ p[j].note = begun[l]
        BY <3>1, <3>2, <4>1
      <4>3. k \in DOMAIN begun /\ l \in DOMAIN begun BY <2>2
      <4> QED BY <4>2, <4>3
    <3> QED BY <2>6, <3>2 DEF OwnPage
  <2>8. \A row \in Bell!Range(p) : \E i \in 1 .. Len(p) : row = p[i]
    BY <2>5 DEF Bell!Range
  <2>9. \A row \in Bell!Range(p) : row.note \in Bell!Mine(Reader) /\ (row.read => row.note \in read)
    BY <2>7, <2>8
  <2> QED BY <2>5, <2>7, <2>9
<1> QED BY <1>1, <1>2

LEMMA OnlyOwnersRead ==
  ASSUME Bell!InboxAssumption, InboxIInv, [Bell!Next]_Bell!vars PROVE Bell!OnlyTheOwnerReads
<1> SUFFICES ASSUME NEW m \in read' \ read PROVE (Owner[m] = Reader) = (click' # click)
  BY DEF Bell!OnlyTheOwnerReads
<1>1. ASSUME NEW u \in Users, NEW n \in Notes, Bell!CallMarkRead(u, n)
      PROVE  Owner[m] # Reader /\ click' = click
  BY <1>1 DEF Bell!CallMarkRead, Bell!Marked, Bell!Mine
<1>2. ASSUME NEW n \in Notes, Bell!ServeOne(n) PROVE Owner[m] = Reader /\ click' # click
  BY <1>2 DEF Bell!ServeOne, Bell!Marked, Bell!Mine
<1>3. CASE Bell!CommitAll
  <2>1. click.rows \subseteq Bell!Mine(Reader) BY DEF InboxIInv, InboxShape
  <2>2. Owner[m] = Reader BY <1>3, <2>1 DEF Bell!CommitAll, Bell!Mine
  <2>3. click' # click BY <1>3 DEF Bell!CommitAll
  <2> QED BY <2>2, <2>3
<1>4. CASE \/ UNCHANGED Bell!vars \/ Bell!Write \/ \E x \in Bell!Resources : Bell!Load(x)
           \/ \E n \in Notes : Bell!ClickOne(n)
           \/ Bell!ClickAll \/ Bell!UpdateAll \/ Bell!Clicked \/ Bell!ClickFails
  <2>1. read' = read
    BY <1>4 DEF Bell!vars, Bell!Write, Bell!Begin, Bell!Commit, Bell!Load, Bell!Poll, Bell!Answer,
                Bell!Receive, Bell!LoadFails, Bell!ClickOne, Bell!ClickAll, Bell!UpdateAll,
                Bell!Clicked, Bell!ClickFails
  <2> QED BY <2>1
<1> QED BY <1>1, <1>2, <1>3, <1>4 DEF Bell!Next, Bell!Act

-------------------------------------------------------------------------------
(***************************************************************************)
(* The portal: while one of them is asked, its own invariant holds.        *)
(***************************************************************************)
PortalIInv ==
  /\ served = "help" => HelpIInv
  /\ served = "inbox" => InboxIInv

\* A step of the portal is one of the part that is asked, and another is never asked.
LEMMA OnePartSteps ==
  ASSUME [PortalNext]_portalVars
  PROVE  /\ served' = served
         /\ served = "help" => [Help!Next]_Help!vars
         /\ served = "inbox" => [Bell!Next]_Bell!vars
<1>1. Help!vars = chatVars /\ Bell!vars = inboxVars
  BY DEF Help!vars, Bell!vars, chatVars, inboxVars
<1>2. Help!vars' = chatVars' /\ Bell!vars' = inboxVars'
  BY DEF Help!vars, Bell!vars, chatVars, inboxVars
<1> QED
  BY <1>1, <1>2 DEF PortalNext, AsksForAccess, AsksForHelp, LooksAtInbox, portalVars

\* The accounts of the portal are Accounts: what is proved of Spec holds of PortalSpec.
LEMMA PortalKeepsAccounts == PortalSpec => Spec
<1>1. PortalInit => Init BY DEF PortalInit
<1>2. [PortalNext]_portalVars => [Next]_vars
  BY DEF PortalNext, AsksForAccess, AsksForHelp, LooksAtInbox, portalVars
<1> QED BY <1>1, <1>2, PTL DEF PortalSpec, Spec

THEOREM PortalInvariant == PortalSpec => []PortalIInv
<1>1. PortalInit => PortalIInv
  <2>1. served = "help" /\ Help!Init => PortalIInv BY PortalAssumption, HelpInit DEF PortalIInv
  <2>2. served = "inbox" /\ Bell!Init => PortalIInv BY PortalAssumption, InboxInit DEF PortalIInv
  <2>3. served = "accounts" => PortalIInv BY DEF PortalIInv
  <2> QED BY <2>1, <2>2, <2>3 DEF PortalInit
<1>2. PortalIInv /\ [PortalNext]_portalVars => PortalIInv'
  <2> SUFFICES ASSUME PortalIInv, [PortalNext]_portalVars PROVE PortalIInv'
    OBVIOUS
  <2> QED BY PortalAssumption, OnePartSteps, HelpKept, InboxKept DEF PortalIInv
<1> QED BY <1>1, <1>2, PTL DEF PortalSpec

\* No stretch as long as the window lets more calls of a client pass than the limit, what
\* reaches the provider passed the checks, all of it, and the page shows the reader's own
\* notifications, newest first as far as they fit.
THEOREM NothingGetsThrough == PortalSpec => []NothingSlipsThrough
<1>1. PortalIInv => NothingSlipsThrough
  <2>1. HelpIInv => Help!NothingSlipsThrough
    BY PortalAssumption, HelpTypes, PassedIsPlain DEF Help!NothingSlipsThrough, HelpIInv
  <2> QED BY <2>1, PortalAssumption, InboxShowsItsOwn DEF PortalIInv, NothingSlipsThrough
<1> QED BY <1>1, PortalInvariant, PTL

\* Nobody pays for another: a client is turned away only for calls of its own, and a
\* notification is read only by its owner, through a request that was under way.
THEOREM EachOnTheirOwn == PortalSpec => EveryoneOnTheirOwn
<1>1. PortalIInv /\ [PortalNext]_portalVars =>
        [/\ served = "help" => Help!LimitedForItsOwnCalls
         /\ served = "inbox" => Bell!OnlyTheOwnerReads]_portalVars
  <2> SUFFICES ASSUME PortalIInv, [PortalNext]_portalVars
               PROVE  /\ served = "help" => Help!LimitedForItsOwnCalls
                      /\ served = "inbox" => Bell!OnlyTheOwnerReads
    OBVIOUS
  <2>1. CASE served = "help"
    <3>1. HelpIInv /\ [Help!Next]_Help!vars BY <2>1, OnePartSteps DEF PortalIInv
    <3>2. ASSUME NEW r \in Chats, chat[r].pc = "open", chat'[r].pc = "limited"
          PROVE  Help!Cardinality(Help!InWindow(chat[r].client, now)) = MAX_REQUESTS
      BY <3>1, <3>2, PortalAssumption, LimitedWhenFull, SameCount
    <3> QED BY <2>1, <3>2 DEF Help!LimitedForItsOwnCalls
  <2>2. CASE served = "inbox"
    <3>1. InboxIInv /\ [Bell!Next]_Bell!vars BY <2>2, OnePartSteps DEF PortalIInv
    <3> QED BY <2>2, <3>1, PortalAssumption, OnlyOwnersRead
  <2> QED BY <2>1, <2>2
<1> QED BY <1>1, PortalInvariant, PTL DEF PortalSpec, EveryoneOnTheirOwn
===============================================================================
