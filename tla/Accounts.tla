------------------------------- MODULE Accounts -------------------------------
(***************************************************************************)
(* Who may use the farm: sign-up, confirmation, sign-in and the profile    *)
(* that the first sign-in creates (auth_service.py, api/v1/auth.py), the   *)
(* roles (api/deps.py), the accounts seeded at every start                 *)
(* (demo_accounts.py), over either adapter: "supabase", a service that     *)
(* outlives the backend and may fail to answer, or "fake", whose accounts  *)
(* and tokens are lost at a restart while the profiles in the database     *)
(* are not.  Whoever runs the farm may also change a role in the table by  *)
(* hand ("Promote an existing account", testing.md).                       *)
(*                                                                         *)
(* An e-mail address stands for all its spellings: every entry point strips *)
(* and lowers it.  A token names its account, as the fake's does.  Passwords *)
(* are right; a wrong one is one more way to be unauthorized.               *)
(***************************************************************************)
EXTENDS Naturals, FiniteSets, Sequences

CONSTANTS
  Emails, Students,  \* the addresses, and those that match STUDENT_EMAIL_RE
  Clients,           \* requests in flight at once
  Adapters,          \* the adapters settings.auth_adapter may choose
  Listings,          \* the values DEMO_ACCOUNTS has at the starts: sequences of [email, role]
  Staff,             \* profiles that were there before: a set of [email, role]
  MaxIds, MaxStarts, MaxPromotions  \* bounds: account ids, starts of the backend, roles by hand

ASSUME StudentsAssumption == Students \subseteq Emails
ASSUME AdaptersAssumption == Adapters \subseteq {"fake", "supabase"}

Roles == {"student", "farmer", "admin"}
People == [email : Emails, role : Roles]

ASSUME ListingsAssumption == Listings \subseteq Seq(People)
ASSUME StaffAssumption ==
  /\ IsFiniteSet(Staff) /\ Staff \subseteq People
  /\ \A x, y \in Staff : x.email = y.email => x = y
ASSUME BoundsAssumption ==
  MaxIds \in Nat /\ MaxStarts \in Nat /\ MaxPromotions \in Nat /\ Cardinality(Staff) <= MaxIds

VARIABLES
  adapter,   \* the one the settings choose, at every start
  accounts,  \* the provider's: [email, id, confirmed, complete], complete if it has sign-up metadata
  tokens,    \* account ids with a token that is good
  users,     \* the users table: [id, email, role]
  nextId,    \* the next id that is nobody's
  listing,   \* DEMO_ACCOUNTS at the latest start
  starts,    \* how often the backend has started
  seeded,    \* history: the latest start has seeded all it was to
  granted,   \* history: the roles above student given so far: [email, role, start]
  promotions,  \* how many roles were given by hand
  req,       \* per client: the request in flight, what it has read, and its step
  answer     \* per client: its latest answer

given == <<granted, promotions>>
store == <<adapter, accounts, tokens, users, nextId, listing, starts, seeded, granted, promotions>>
vars == <<adapter, accounts, tokens, users, nextId, listing, starts, seeded, granted, promotions,
          req, answer>>

\* A role every student has is not given.
Grants(people, start) ==
  {[email |-> x.email, role |-> x.role, start |-> start] : x \in {y \in people : y.role # "student"}}

Idle == [step |-> "idle"]
NoAnswer == [op |-> "none"]
AccountOf(e) == {a \in accounts : a.email = e}
Row(id) == {u \in users : u.id = id}
RowOf(e) == {u \in users : u.email = e}

Answers(c, op, e, code) ==
  /\ answer' = [answer EXCEPT ![c] = [op |-> op, email |-> e, code |-> code]]
  /\ req' = [req EXCEPT ![c] = Idle]

Continues(c, step, e, session) ==
  /\ req' = [req EXCEPT ![c] = [step |-> step, email |-> e, session |-> session]]
  /\ UNCHANGED answer

-----------------------------------------------------------------------------
(***************************************************************************)
(* Seeding.  Of two entries for one address the first counts: the second   *)
(* is already registered.                                                  *)
(***************************************************************************)
Entries(list) ==
  {list[i] : i \in {j \in 1..Len(list) : \A k \in 1..(j - 1) : list[k].email # list[j].email}}

NewEntries(list) == {x \in Entries(list) : RowOf(x.email) = {}}

\* The id a seeded account gets: its profile's, else one that is nobody's.
SeedIds(list, ids) ==
  /\ \A x, y \in Entries(list) : ids[x.email] = ids[y.email] => x.email = y.email
  /\ \A x \in Entries(list) :
       IF RowOf(x.email) # {} THEN \E u \in RowOf(x.email) : ids[x.email] = u.id
                              ELSE ids[x.email] \in nextId..(nextId + Cardinality(NewEntries(list)) - 1)

SeedRows(list, ids) ==
  {u \in users : \A x \in Entries(list) : x.email # u.email}
    \cup {[id |-> ids[x.email], email |-> x.email, role |-> x.role] : x \in Entries(list)}

\* Mutant: a seeded account still has to be confirmed.
SeedAccountsUnconfirmed(list, ids) ==
  {[email |-> x.email, id |-> ids[x.email], confirmed |-> FALSE, complete |-> FALSE] :
     x \in Entries(list)}

\* seed_user, for the entries up to n: a confirmed account without metadata.
SeedAccounts(list, ids) ==
  {[email |-> x.email, id |-> ids[x.email], confirmed |-> TRUE, complete |-> FALSE] :
     x \in Entries(list)}

\* seed_demo_accounts registers one by one and commits once; lifespan goes on when it
\* fails, with the accounts registered so far and no row changed.
Seeds(list) ==
  \E ids \in [Emails -> 1..MaxIds] :
    /\ SeedIds(list, ids)
    /\ \A e \in Emails : (\A x \in Entries(list) : x.email # e) => ids[e] = 1
    /\ \/ accounts' = SeedAccounts(list, ids) /\ users' = SeedRows(list, ids) /\ seeded' = TRUE
          /\ granted' = granted \cup Grants(Entries(list), starts')
       \/ UNCHANGED <<users, granted>> /\ seeded' = FALSE
          /\ \E n \in 0..Len(list) : accounts' = SeedAccounts(SubSeq(list, 1, n), ids)

\* Mutant: the tokens of the process before are still good.
StartTrusting ==
  /\ UNCHANGED <<adapter, promotions, tokens>> /\ starts < MaxStarts /\ starts' = starts + 1
  /\ req' = [c \in Clients |-> Idle] /\ UNCHANGED answer
  /\ \E list \in Listings :
       /\ listing' = list
       /\ IF adapter = "fake"
            THEN Seeds(list) /\ nextId' = nextId + Cardinality(NewEntries(list))
            ELSE UNCHANGED <<accounts, users, nextId, seeded, granted>>

\* The process ends and starts again: the requests in flight get no answer.
Start ==
  /\ UNCHANGED <<adapter, promotions>> /\ starts < MaxStarts /\ starts' = starts + 1
  /\ req' = [c \in Clients |-> Idle] /\ UNCHANGED answer
  /\ \E list \in Listings :
       /\ listing' = list
       /\ IF adapter = "fake"
            THEN /\ tokens' = {} /\ Seeds(list)
                 /\ nextId' = nextId + Cardinality(NewEntries(list))
            ELSE UNCHANGED <<accounts, tokens, users, nextId, seeded, granted>>

\* Staff were entered by hand: their accounts have no sign-up metadata.
Init ==
  /\ adapter \in Adapters
  /\ \E order \in [Staff -> 1..Cardinality(Staff)] :
       /\ \A x, y \in Staff : order[x] = order[y] => x = y
       /\ users = {[id |-> order[x], email |-> x.email, role |-> x.role] : x \in Staff}
       /\ accounts = IF adapter = "fake" THEN {} ELSE
            {[email |-> x.email, id |-> order[x], confirmed |-> TRUE, complete |-> FALSE] : x \in Staff}
  /\ tokens = {} /\ nextId = Cardinality(Staff) + 1 /\ listing = <<>> /\ starts = 0 /\ seeded = TRUE
  /\ granted = Grants(Staff, 0) /\ promotions = 0
  /\ req = [c \in Clients |-> Idle] /\ answer = [c \in Clients |-> NoAnswer]

\* "Change a role directly in the database": update users set role = .. where email = ..
Promote ==
  /\ starts > 0 /\ promotions < MaxPromotions /\ promotions' = promotions + 1
  /\ \E u \in users, role \in {"farmer", "admin"} :
       /\ users' = (users \ {u}) \cup {[u EXCEPT !.role = role]}
       /\ granted' = granted \cup Grants({[email |-> u.email, role |-> role]}, starts)
  /\ UNCHANGED <<adapter, accounts, tokens, nextId, listing, starts, seeded, req, answer>>

-----------------------------------------------------------------------------
(***************************************************************************)
(* Sign-up: the table is read, then the provider is asked.                 *)
(***************************************************************************)
Ready(c) == starts > 0 /\ req[c] = Idle

\* Mutant: the table is not asked.
signup_student_anyway(c, e) ==
  IF e \notin Students THEN Answers(c, "sign up", e, "bad request")
                       ELSE Continues(c, "register", e, <<>>)

signup_student(c, e) ==
  IF e \notin Students THEN Answers(c, "sign up", e, "bad request")
  ELSE IF RowOf(e) # {} THEN Answers(c, "sign up", e, "conflict")
  ELSE Continues(c, "register", e, <<>>)

StudentSignup(c) ==
  /\ Ready(c) /\ \E e \in Emails : signup_student(c, e)
  /\ UNCHANGED store

Creates(e) ==
  /\ nextId <= MaxIds /\ nextId' = nextId + 1
  /\ accounts' = accounts \cup {[email |-> e, id |-> nextId, confirmed |-> FALSE, complete |-> TRUE]}

FakeRegister(c, e) ==
  IF AccountOf(e) # {}
    THEN Answers(c, "sign up", e, "conflict") /\ UNCHANGED <<accounts, nextId>>
    ELSE Creates(e) /\ Answers(c, "sign up", e, "pending")

\* The service takes it, or says the account exists, or limits its e-mails, or fails; on a
\* timeout it may have taken it.  An account that exists is left as it is.
SupabaseRegister(c, e) ==
  \/ AccountOf(e) = {} /\ Creates(e)
     /\ \E code \in {"pending", "bad request"} : Answers(c, "sign up", e, code)
  \/ \E code \in {"bad request"} \cup (IF AccountOf(e) # {} THEN {"conflict", "pending"} ELSE {}) :
       Answers(c, "sign up", e, code) /\ UNCHANGED <<accounts, nextId>>

Register(c) ==
  /\ req[c].step = "register"
  /\ IF adapter = "fake" THEN FakeRegister(c, req[c].email) ELSE SupabaseRegister(c, req[c].email)
  /\ UNCHANGED <<adapter, tokens, users, listing, starts, seeded, given>>

-----------------------------------------------------------------------------
(***************************************************************************)
(* Confirmation, by the link or by the code, and another e-mail.           *)
(***************************************************************************)
Confirms(e) ==
  accounts' = {IF a.email = e THEN [a EXCEPT !.confirmed = TRUE] ELSE a : a \in accounts}

Refused(c, op, e, code) == Answers(c, op, e, code) /\ UNCHANGED accounts

\* The fake's link may be used again; only register issues one.
FakeLink(c, e) ==
  IF \E a \in AccountOf(e) : a.complete
    THEN Confirms(e) /\ Answers(c, "confirm", e, "ok")
    ELSE Refused(c, "confirm", e, "unauthorized")

SupabaseLink(c, e) ==
  \/ AccountOf(e) # {} /\ Confirms(e)
     /\ \E code \in {"ok", "bad request"} : Answers(c, "confirm", e, code)
  \/ \E code \in {"unauthorized", "bad request"} : Refused(c, "confirm", e, code)

confirm_email(c) ==
  /\ Ready(c) /\ \E e \in Emails : IF adapter = "fake" THEN FakeLink(c, e) ELSE SupabaseLink(c, e)
  /\ UNCHANGED <<adapter, tokens, users, nextId, listing, starts, seeded, given>>

\* The code is good once.
FakeCode(c, e) ==
  IF \E a \in AccountOf(e) : ~a.confirmed
    THEN Confirms(e) /\ Answers(c, "confirm", e, "ok")
    ELSE Refused(c, "confirm", e, "unauthorized")

SupabaseCode(c, e) ==
  \/ (\E a \in AccountOf(e) : ~a.confirmed) /\ Confirms(e)
     /\ \E code \in {"ok", "bad request"} : Answers(c, "confirm", e, code)
  \/ \E code \in {"unauthorized", "bad request"} : Refused(c, "confirm", e, code)

verify_signup_code(c) ==
  /\ Ready(c) /\ \E e \in Emails : IF adapter = "fake" THEN FakeCode(c, e) ELSE SupabaseCode(c, e)
  /\ UNCHANGED <<adapter, tokens, users, nextId, listing, starts, seeded, given>>

FakeResend(c, e) ==
  Answers(c, "resend", e, IF \E a \in AccountOf(e) : ~a.confirmed THEN "ok" ELSE "unauthorized")

SupabaseResend(c, e) == \E code \in {"ok", "bad request"} : Answers(c, "resend", e, code)

resend_signup_code(c) ==
  /\ Ready(c) /\ \E e \in Emails : IF adapter = "fake" THEN FakeResend(c, e) ELSE SupabaseResend(c, e)
  /\ UNCHANGED store

-----------------------------------------------------------------------------
(***************************************************************************)
(* Sign-in: the provider, the profile, and on the first one a new profile. *)
(***************************************************************************)
Issues(c, a) ==
  /\ tokens' = tokens \cup {a.id}
  /\ Continues(c, "profile", a.email, a)

FakeSignIn(c, e) ==
  \/ \E a \in AccountOf(e) : a.confirmed /\ Issues(c, a)
  \/ (\A a \in AccountOf(e) : ~a.confirmed)
     /\ Answers(c, "sign in", e, "unauthorized") /\ UNCHANGED tokens

SupabaseSignIn(c, e) ==
  FakeSignIn(c, e) \/ (Answers(c, "sign in", e, "bad request") /\ UNCHANGED tokens)

SignIn(c) ==
  /\ Ready(c)
  /\ \E e \in Emails : IF adapter = "fake" THEN FakeSignIn(c, e) ELSE SupabaseSignIn(c, e)
  /\ UNCHANGED <<adapter, accounts, users, nextId, listing, starts, seeded, given>>

\* sign_in reads the profile; a student's is made from the metadata of the account.
ReadsProfile(c) ==
  /\ req[c].step = "profile"
  /\ LET e == req[c].email  s == req[c].session IN
     IF Row(s.id) # {} THEN Answers(c, "sign in", e, "ok")
     ELSE IF e \notin Students THEN Answers(c, "sign in", e, "unauthorized")
     ELSE IF ~s.complete THEN Answers(c, "sign in", e, "metadata missing")
     ELSE Continues(c, "insert", e, s)
  /\ UNCHANGED store

\* users_pkey and users_email_key.
Unique(id, e) == Row(id) = {} /\ RowOf(e) = {}

CommitsProfile(c) ==
  /\ req[c].step = "insert"
  /\ LET e == req[c].email  s == req[c].session IN
     IF Unique(s.id, e)
       THEN /\ users' = users \cup {[id |-> s.id, email |-> e, role |-> "student"]}
            /\ Answers(c, "sign in", e, "ok")
       ELSE Continues(c, "reload", e, s) /\ UNCHANGED users
  /\ UNCHANGED <<adapter, accounts, tokens, nextId, listing, starts, seeded, given>>

\* Mutant: whoever comes second is refused.
ReloadsNothing(c) ==
  /\ req[c].step = "reload" /\ Answers(c, "sign in", req[c].email, "conflict")
  /\ UNCHANGED store

\* After the rollback: another request has made it.
ReloadsProfile(c) ==
  /\ req[c].step = "reload"
  /\ LET e == req[c].email IN
     Answers(c, "sign in", e, IF Row(req[c].session.id) # {} THEN "ok" ELSE "conflict")
  /\ UNCHANGED store

-----------------------------------------------------------------------------
(***************************************************************************)
(* A request with a token.                                                 *)
(***************************************************************************)
\* Mutant: an administrator is let in where farmers are, and nowhere else.
PermitsNarrowly(allowed, role) ==
  \/ role \in allowed
  \/ role = "admin" /\ "farmer" \in allowed
  \/ role = "farmer" /\ "student" \in allowed

\* require_roles.
Permits(allowed, role) ==
  \/ role \in allowed
  \/ role = "admin" /\ allowed \cap {"farmer", "student"} # {}
  \/ role = "farmer" /\ "student" \in allowed

Guards == {{"farmer"}, {"admin"}, {"student"}}   \* require_farmer, _admin, _submitter

\* validate_token: the fake knows its tokens, and the service may fail to answer.
Holder(id) == IF id \in tokens THEN Row(id) ELSE {}

\* A token the client still has is good, or was: the provider has forgotten it.
Asks(c) ==
  /\ Ready(c)
  /\ \E id \in 1..(nextId - 1), allowed \in Guards :
       \/ Holder(id) = {} /\ Answers(c, "ask", "", "unauthorized")
       \/ \E u \in Holder(id) :
            /\ req' = req
            /\ answer' = [answer EXCEPT ![c] =
                 [op |-> "ask", email |-> u.email, role |-> u.role, allowed |-> allowed,
                  code |-> IF Permits(allowed, u.role) THEN "ok" ELSE "forbidden"]]
       \/ adapter = "supabase" /\ Answers(c, "ask", "", "bad request")
  /\ UNCHANGED store

\* The service's tokens run out.
TokenExpires ==
  /\ adapter = "supabase" /\ \E id \in tokens : tokens' = tokens \ {id}
  /\ UNCHANGED <<adapter, accounts, users, nextId, listing, starts, seeded, given, req, answer>>

Next ==
  \/ Start \/ TokenExpires \/ Promote
  \/ \E c \in Clients :
       \/ StudentSignup(c) \/ Register(c)
       \/ confirm_email(c) \/ verify_signup_code(c) \/ resend_signup_code(c)
       \/ SignIn(c) \/ ReadsProfile(c) \/ CommitsProfile(c) \/ ReloadsProfile(c)
       \/ Asks(c)

Spec == Init /\ [][Next]_vars

-----------------------------------------------------------------------------
(***************************************************************************)
(* Properties.                                                             *)
(***************************************************************************)
\* The accounts, the profiles and the requests have their types, and no two rows or
\* accounts share an id or an address.
TypeOK ==
  /\ accounts \subseteq [email : Emails, id : 1..MaxIds, confirmed : BOOLEAN, complete : BOOLEAN]
  /\ users \subseteq [id : 1..MaxIds, email : Emails, role : Roles]
  /\ \A a, b \in accounts : (a.email = b.email \/ a.id = b.id) => a = b
  /\ \A u, v \in users : (u.email = v.email \/ u.id = v.id) => u = v
  /\ seeded \in BOOLEAN /\ tokens \subseteq 1..MaxIds /\ nextId \in 1..(MaxIds + 1)
  /\ \A c \in Clients :
       req[c].step \in {"idle", "register", "profile", "insert", "reload"}

\* A profile is its account's: where an address has both they have one id, and the account
\* was confirmed.  So a start that registers the demo accounts again keeps the job history
\* of each (demo_accounts.py), and sign-up never makes a second person of somebody.
ProfileIsItsAccounts ==
  \A a \in accounts, u \in users : a.email = u.email => a.id = u.id /\ a.confirmed

\* Two first sign-ins at once: the one that comes second gets the profile of the first, so
\* a sign-in of a confirmed account is never answered with a conflict
\* (_create_student_profile_from_session).
SecondSignInSucceeds ==
  \A c \in Clients : answer[c] # NoAnswer /\ answer[c].op = "sign in" => answer[c].code # "conflict"

\* Every account a start has seeded can sign in and finds the profile of its address, with
\* the id and so the job history it had, whatever was in the table before, whichever earlier
\* seeding failed and whoever is signing up (seed_demo_accounts).  Which role the profile has
\* is RolesAreKept's question.
DemoAccountsAreReady ==
  adapter = "fake" /\ seeded =>
    \A x \in Entries(listing) : \E a \in AccountOf(x.email), u \in users :
      a.confirmed /\ u.id = a.id /\ u.email = x.email

\* "If a listed email already has a saved profile, it is reused, and its role and job history
\* are kept" (testing.md): no start changes the role of a profile that was saved.
RolesAreKept ==
  [][starts' # starts => \A u \in users, v \in users' : u.id = v.id => u.role = v.role]_vars

\* Whoever is let in where students are not was given a role that may: by the settings of
\* some start, by hand, or before; no sequence of sign-ups, sign-ins and starts makes one.
\* And with the fake a start shuts out whom its settings leave out: a farmer's token and
\* account are of this start, listed now or, after it, promoted by hand.
StaffAreListed ==
  [][\A c \in Clients :
       answer'[c] # answer[c] /\ answer'[c].op = "ask" /\ answer'[c].code = "ok"
         /\ "student" \notin answer'[c].allowed
       => /\ \E x \in granted : x.email = answer'[c].email /\ Permits(answer'[c].allowed, x.role)
          /\ adapter = "fake" =>
               \/ \E x \in Entries(listing) : x.email = answer'[c].email
               \/ \E x \in granted : x.email = answer'[c].email /\ x.start = starts]_vars

\* A profile is for good: no request and no start takes one away, changes its id or address,
\* and only a start or somebody's hand changes its role.
ProfilesStay ==
  [][\A u \in users : \E v \in users' :
       /\ v.id = u.id /\ v.email = u.email
       /\ v.role # u.role => starts' # starts \/ promotions' # promotions]_vars

\* "Capability hierarchy on the same profile: Admin > Farmer > submit" (deps.py): of two who
\* ask the same, it is never the one of the higher role who is turned away.
Rank == [student |-> 1, farmer |-> 2, admin |-> 3]
Asked(c, code) == answer[c] # NoAnswer /\ answer[c].op = "ask" /\ answer[c].code = code
HierarchyHolds ==
  \A c, d \in Clients :
    Asked(c, "ok") /\ Asked(d, "forbidden") /\ answer[c].allowed = answer[d].allowed
      => Rank[answer[c].role] > Rank[answer[d].role]

\* At a service, which seeds nobody, whoever is let in where students are not was staff
\* before or promoted by hand, to a role that may.
OnlyStaffGetIn ==
  adapter = "supabase" =>
    \A c \in Clients : Asked(c, "ok") /\ "student" \notin answer[c].allowed =>
      \E x \in granted : x.email = answer[c].email /\ Permits(answer[c].allowed, x.role)
=============================================================================
