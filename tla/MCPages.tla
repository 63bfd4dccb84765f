------------------------------- MODULE MCPages -------------------------------
(***************************************************************************)
(* What one browser tab shows, side by side: the upload page, the help     *)
(* chat with its limiter, and the inbox with its bell.  They share no      *)
(* state: a behaviour is that of one of them.                              *)
(***************************************************************************)
EXTENDS UploadPage

CONSTANTS a, b, bad, photo, p, q, c1, r1, r2, n1

\* Two files that fit different places; the validator refuses a third, and a fourth
\* has another extension.
MCFits == [f \in {a, b} |-> IF f = a THEN {p} ELSE {q}]

VARIABLES
    tab,                                                    \* the one that is open
    now, requests, reference, chat, clients, admitted,      \* HelpChat
    begun, sent, read, loads, shown, click, fails           \* Inbox

chatVars == <<now, requests, reference, chat, clients, admitted>>
inboxVars == <<begun, sent, read, loads, shown, click, fails>>
mcvars == <<tab, chatVars, inboxVars, vars>>

\* Two calls, the second of which may be over the limit.
Talk == INSTANCE HelpChat WITH
    open <- clients, Chats <- {r1, r2}, Clients <- {c1}, MAX_REQUESTS <- 1, WINDOW <- 1,
    MAX_HISTORY <- 0, Says <- {"plain", "empty"}, MaxTime <- 1

\* One notification, and loads that overtake one another.
Bell == INSTANCE Inbox WITH
    Notes <- {n1}, Users <- {"reader", "other"}, Reader <- "reader", PageSize <- 1,
    Owner <- [n \in {n1} |-> "reader"], MaxLoads <- 2, MaxFails <- 1

ASSUME ChatAssumption == Talk!HelpAssumption
ASSUME InboxesAssumption == Bell!InboxAssumption

NoChat ==
    /\ now = "" /\ requests = "" /\ reference = "" /\ chat = "" /\ clients = "" /\ admitted = ""
NoInbox ==
    /\ begun = "" /\ sent = "" /\ read = "" /\ loads = "" /\ shown = "" /\ click = "" /\ fails = ""

MCInit ==
    \/ tab = "upload" /\ Init /\ NoChat /\ NoInbox
    \/ tab = "talk" /\ Init /\ Talk!Init /\ NoInbox
    \/ tab = "bell" /\ Init /\ NoChat /\ Bell!Init

Uploads == tab = "upload" /\ Next /\ UNCHANGED <<tab, chatVars, inboxVars>>
Asks == tab = "talk" /\ Talk!Next /\ UNCHANGED <<tab, vars, inboxVars>>
Rings == tab = "bell" /\ Bell!Next /\ UNCHANGED <<tab, vars, chatVars>>

MCNext == Uploads \/ Asks \/ Rings

\* The fairness of UploadPage, HelpChat and Inbox, each for its own tab.
UploadFairness ==
    /\ WF_mcvars(tab = "upload" /\ (\E x \in checks : Checked(x) \/ CheckFails(x))
                 /\ UNCHANGED <<tab, chatVars, inboxVars>>)
    /\ WF_mcvars(tab = "upload" /\ (Serve \/ SubmitFails) /\ UNCHANGED <<tab, chatVars, inboxVars>>)
    /\ WF_mcvars(tab = "upload" /\ Served /\ UNCHANGED <<tab, chatVars, inboxVars>>)

TalkFairness == \A r \in {r1, r2} :
    /\ WF_mcvars(tab = "talk" /\ Talk!Check(r) /\ UNCHANGED <<tab, vars, inboxVars>>)
    /\ WF_mcvars(tab = "talk" /\ Talk!Reply(r) /\ UNCHANGED <<tab, vars, inboxVars>>)
    /\ WF_mcvars(tab = "talk" /\ Talk!Close(r) /\ UNCHANGED <<tab, vars, inboxVars>>)

BellFairness ==
    LET Rung(A) == tab = "bell" /\ A /\ UNCHANGED <<tab, vars, chatVars>> IN
    /\ WF_mcvars(Rung(Bell!Commit(n1)))
    /\ \A x \in {"list", "count"} :
        /\ WF_mcvars(Rung(Bell!Poll(x)))
        /\ WF_mcvars(Rung(\E i \in 1..2 : Bell!Answer(x, i)))
        /\ WF_mcvars(Rung(Bell!Receive(x, 1)))
    /\ WF_mcvars(Rung(Bell!UpdateAll)) /\ WF_mcvars(Rung(Bell!CommitAll))
    /\ WF_mcvars(Rung(Bell!ServeOne(n1))) /\ WF_mcvars(Rung(Bell!Clicked))

MCSpec ==
    MCInit /\ [][MCNext]_mcvars /\ UploadFairness /\ TalkFairness /\ BellFairness

------------------------------------------------------------------------------
(* What each promises, while its tab is open *)

\* Every call of the chat ends with its HTTP client closed.
ClientsAreClosed == \A r \in {r1, r2} :
    tab = "talk" /\ chat[r].pc = "open"
        ~> tab = "talk" /\ chat[r].pc \in Talk!Ended /\ r \notin clients

\* A click in the inbox ends and the buttons work again.
ClicksEnd == tab = "bell" /\ click # Bell!Idle ~> tab = "bell" /\ click = Bell!Idle

\* Whatever was picked, asked or clicked ends, and so does what was opened for it: a
\* check and a submission, a call and its HTTP client, a click.
NothingHangs == NeverStuck /\ ClientsAreClosed /\ ClicksEnd

\* Once nothing new comes the list and the badge show what is in the database.
Settles == tab = "bell" ~> [](/\ tab = "bell"
                             /\ Bell!TypeOK
                             /\ shown["list"] = Bell!Result("list")
                             /\ shown["count"] = Bell!Result("count"))
==============================================================================
