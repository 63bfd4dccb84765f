--------------------------------- MODULE Portal --------------------------------
(***************************************************************************)
(* What anyone may ask of the API, side by side: the accounts, over either *)
(* adapter; the public help chat; and the notifications of a reader.  They *)
(* share no state: a behaviour is that of one of them.                     *)
(***************************************************************************)
EXTENDS Accounts

CONSTANTS
    Chats, Addresses, MAX_REQUESTS, WINDOW, MAX_HISTORY, Says, MaxTime,     \* HelpChat
    Notes, Users, Owner, Reader, PageSize, MaxLoads, MaxFails               \* Inbox

VARIABLES
    served,                                             \* the one that is asked
    now, requests, reference, chat, open, admitted,     \* HelpChat
    begun, sent, read, loads, shown, click, fails       \* Inbox

Help == INSTANCE HelpChat WITH Clients <- Addresses
Bell == INSTANCE Inbox

\* What they assume of their constants.
ASSUME PortalAssumption == Help!HelpAssumption /\ Bell!InboxAssumption

chatVars == <<now, requests, reference, chat, open, admitted>>
inboxVars == <<begun, sent, read, loads, shown, click, fails>>
portalVars == <<served, chatVars, inboxVars, vars>>

NoChat ==
    now = "" /\ requests = "" /\ reference = "" /\ chat = "" /\ open = "" /\ admitted = ""
NoInbox ==
    /\ begun = "" /\ sent = "" /\ read = "" /\ loads = "" /\ shown = "" /\ click = ""
    /\ fails = ""

PortalInit ==
    \/ served = "accounts" /\ Init /\ NoChat /\ NoInbox
    \/ served = "help" /\ Init /\ Help!Init /\ NoInbox
    \/ served = "inbox" /\ Init /\ NoChat /\ Bell!Init

AsksForAccess == served = "accounts" /\ Next /\ UNCHANGED <<served, chatVars, inboxVars>>
AsksForHelp == served = "help" /\ Help!Next /\ UNCHANGED <<served, vars, inboxVars>>
LooksAtInbox == served = "inbox" /\ Bell!Next /\ UNCHANGED <<served, vars, chatVars>>

PortalNext == AsksForAccess \/ AsksForHelp \/ LooksAtInbox

PortalSpec == PortalInit /\ [][PortalNext]_portalVars

--------------------------------------------------------------------------------
(* What each promises, while it is asked *)

\* A profile is its account's and brings no role nobody gave, also at a service that
\* outlives the backend and may fail to answer between the account and the profile; of
\* two who ask the same it is never the one of the higher role who is turned away.
ServiceFits == TypeOK /\ ProfileIsItsAccounts /\ HierarchyHolds /\ OnlyStaffGetIn

\* No stretch as long as the window lets more calls of a client pass than the limit, what
\* reaches the provider passed the checks, all of it, and the page shows the reader's
\* notifications, newest first as far as they fit.
NothingSlipsThrough ==
    /\ served = "help" => Help!NothingSlipsThrough
    /\ served = "inbox" => Bell!TypeOK /\ Bell!ShowsItsOwn

\* Nobody pays for another: a client is turned away only for calls of its own, and a
\* notification is read only by its owner, through a request that was under way.
EveryoneOnTheirOwn == [][
    /\ served = "help" => Help!LimitedForItsOwnCalls
    /\ served = "inbox" => Bell!OnlyTheOwnerReads]_portalVars
================================================================================
