------------------------------ MODULE MCRequests ------------------------------
(***************************************************************************)
(* A small portal: a student and a farmer, three calls at the help chat's  *)
(* limit of two, and a reader with two notifications on a page of two.     *)
(***************************************************************************)
EXTENDS Portal, TLC

CONSTANTS stu, far, a1, a2, c1, c2, r1, r2, r3, n1, n2, n3

BothEmails == {stu, far}
BothUsers == {a1, a2}
UsersAlike == Permutations(BothUsers)
OneStudent == {stu}
Entry(e, r) == [email |-> e, role |-> r]

\* No accounts, both, and the student as a farmer twice.
ThreeListings ==
    {<<>>, <<Entry(stu, "student"), Entry(far, "farmer")>>,
     <<Entry(stu, "farmer"), Entry(stu, "admin")>>}

\* An administrator was there before.
OneAdmin == {Entry(far, "admin")}

\* The third notification is someone else's.
MCOwner == [n \in {n1, n2, n3} |-> IF n = n3 THEN "other" ELSE "reader"]

\* Who is not asked has one state, and addresses and calls are alike: at most the third
\* call is another client's.
MCInit ==
    /\ PortalInit
    /\ served # "accounts" => adapter = "fake"
    /\ served = "help" => chat[r1].client = c1 /\ chat[r2].client = c1

\* It is the student who is made a farmer by hand, once.
MCPromotion ==
    promotions' # promotions => [email |-> stu, role |-> "farmer", start |-> starts] \in granted'

\* A service seeds nobody and its ids are few; one of the conversations is of any
\* kind, and the clock goes on for long only when it is not.
MCNext ==
    /\ PortalNext /\ MCPromotion
    /\ adapter = "supabase" => listing' = <<>> /\ nextId' <= 3
    /\ served = "help" => /\ \A r \in {r2, r3} : chat'[r].body = Help!NoBody
                          /\ chat'[r1].body # Help!NoBody => now' <= 1

MCSpec == MCInit /\ [][MCNext]_portalVars
==============================================================================
