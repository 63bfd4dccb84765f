--------------------------------- MODULE Inbox ---------------------------------
(***************************************************************************)
(* Notifications: the rows that the poller, a submission and a collection  *)
(* write, the API over them (notification_service) and the page and bell   *)
(* of one signed-in user, which load the list and the unread count every   *)
(* few seconds (usePolled), whatever loads are still on their way.         *)
(***************************************************************************)
EXTENDS Naturals, FiniteSets, SequencesExt

CONSTANTS
    Notes,      \* notifications that may be written
    Users,
    Owner,      \* the user a notification is for
    Reader,     \* the user whose page and bell are open
    PageSize,   \* the list's limit
    MaxLoads,   \* bound: loads of one resource under way at a time
    MaxFails    \* bound: loads and clicks that fail

\* What the constants are.
InboxAssumption ==
    /\ Owner \in [Notes -> Users] /\ PageSize \in Nat /\ MaxLoads \in Nat /\ MaxFails \in Nat

Resources == {"list", "count"}
Idle == [at |-> "idle", rows |-> {}]

VARIABLES
    begun,      \* notifications in the order of sent_at
    sent,       \* those committed
    read,       \* those read
    loads,      \* of each resource, the loads under way in the order they started
    shown,      \* what the page and the bell show: <<>> before the first answer
    click,      \* the action under way; the buttons are disabled meanwhile
    fails       \* loads and clicks that have failed

vars == <<begun, sent, read, loads, shown, click, fails>>

-------------------------------------------------------------------------------
(* The API *)

Mine(u) == {n \in sent : Owner[n] = u}
Unread(u) == Mine(u) \ read

\* The places in s of the members of S, the last first.
Newest(s, S) ==
    LET at[i \in 0..Len(s)] ==
            IF i = 0 THEN <<>> ELSE IF s[i] \in S THEN <<i>> \o at[i - 1] ELSE at[i - 1]
    IN  at[Len(s)]

\* list_notifications: newest first by sent_at, as many as fit.
Page(u) ==
    LET mine == Newest(begun, Mine(u))
    IN  [i \in 1..(IF Len(mine) < PageSize THEN Len(mine) ELSE PageSize) |->
            [note |-> begun[mine[i]], read |-> begun[mine[i]] \in read]]

Result(x) == IF x = "list" THEN <<Page(Reader)>> ELSE <<Cardinality(Unread(Reader))>>

\* Mutant: the owner is not asked for.
MarkedByAnyone(u, n) == read \cup {n}

\* Another user's notification is not found.
Marked(u, n) == IF n \in Mine(u) THEN read \cup {n} ELSE read

-------------------------------------------------------------------------------
Init ==
    /\ begun = <<>> /\ sent = {} /\ read = {}
    /\ loads = [x \in Resources |-> <<>>]
    /\ shown = [x \in Resources |-> <<>>]
    /\ click = Idle
    /\ fails = 0

\* sent_at is the clock as the writer read it, some time before its commit.
Begin(n) ==
    /\ n \notin Range(begun)
    /\ begun' = Append(begun, n)
    /\ UNCHANGED <<sent, read, loads, shown, click, fails>>

Commit(n) ==
    /\ n \in Range(begun) \ sent
    /\ sent' = sent \cup {n}
    /\ UNCHANGED <<begun, read, loads, shown, click, fails>>

\* Another client of the API, with any id.
CallMarkRead(u, n) ==
    /\ u # Reader
    /\ read' = Marked(u, n)
    /\ UNCHANGED <<begun, sent, loads, shown, click, fails>>

Loading == [answer |-> <<>>, overtaken |-> FALSE]

\* Mutant: nothing is loaded again.
PollOnce(x) ==
    /\ Len(loads[x]) < MaxLoads /\ shown[x] = <<>>
    /\ loads' = [loads EXCEPT ![x] = Append(@, Loading)]
    /\ UNCHANGED <<begun, sent, read, shown, click, fails>>

Poll(x) ==
    /\ Len(loads[x]) < MaxLoads
    /\ loads' = [loads EXCEPT ![x] = Append(@, Loading)]
    /\ UNCHANGED <<begun, sent, read, shown, click, fails>>

Answer(x, i) ==
    /\ i \in DOMAIN loads[x] /\ loads[x][i].answer = <<>>
    /\ loads' = [loads EXCEPT ![x][i].answer = Result(x)]
    /\ UNCHANGED <<begun, sent, read, shown, click, fails>>

Overtaken(s, i) == [k \in DOMAIN s |-> [s[k] EXCEPT !.overtaken = @ \/ k < i]]

\* The load is over; the loads that started before it are now out of date.
Finish(x, i) == loads' = [loads EXCEPT ![x] = RemoveAt(Overtaken(@, i), i)]

Receive(x, i) ==
    /\ i \in DOMAIN loads[x] /\ loads[x][i].answer # <<>>
    /\ shown' = [shown EXCEPT ![x] = loads[x][i].answer]
    /\ Finish(x, i)
    /\ UNCHANGED <<begun, sent, read, click, fails>>

\* A load that fails leaves what is shown, and overtakes nothing.
LoadFails(x, i) ==
    /\ fails < MaxFails /\ i \in DOMAIN loads[x]
    /\ loads' = [loads EXCEPT ![x] = RemoveAt(@, i)]
    /\ fails' = fails + 1
    /\ UNCHANGED <<begun, sent, read, shown, click>>

-------------------------------------------------------------------------------
(* The page *)

ShownUnread == UNION {{row.note : row \in {r \in Range(page) : ~r.read}} : page \in Range(shown["list"])}

ClickOne(n) ==
    /\ click = Idle /\ n \in ShownUnread
    /\ click' = [at |-> "one", rows |-> {n}]
    /\ UNCHANGED <<begun, sent, read, loads, shown, fails>>

ClickAll ==
    /\ click = Idle /\ ShownUnread # {}
    /\ click' = [at |-> "all", rows |-> {}]
    /\ UNCHANGED <<begun, sent, read, loads, shown, fails>>

ServeOne(n) ==
    /\ click = [at |-> "one", rows |-> {n}]
    /\ read' = Marked(Reader, n)
    /\ click' = [at |-> "served", rows |-> {}]
    /\ UNCHANGED <<begun, sent, loads, shown, fails>>

\* mark_all_read's UPDATE takes the rows committed when it starts.
UpdateAll ==
    /\ click.at = "all"
    /\ click' = [at |-> "update", rows |-> Unread(Reader)]
    /\ UNCHANGED <<begun, sent, read, loads, shown, fails>>

CommitAll ==
    /\ click.at = "update"
    /\ read' = read \cup click.rows
    /\ click' = [at |-> "served", rows |-> {}]
    /\ UNCHANGED <<begun, sent, loads, shown, fails>>

\* The page and the bell both load again, as far as the bound allows.
Announce ==
    loads' = [x \in Resources |->
        IF Len(loads[x]) < MaxLoads THEN Append(loads[x], Loading) ELSE loads[x]]

Clicked ==
    /\ click.at = "served"
    /\ Announce
    /\ click' = Idle
    /\ UNCHANGED <<begun, sent, read, shown, fails>>

\* The request or its answer is lost.
ClickFails ==
    /\ fails < MaxFails /\ click.at \in {"one", "all", "served"}
    /\ click' = Idle
    /\ fails' = fails + 1
    /\ UNCHANGED <<begun, sent, read, loads, shown>>

-------------------------------------------------------------------------------
Write == \E n \in Notes : Begin(n) \/ Commit(n)
Load(x) == Poll(x) \/ \E i \in 1..MaxLoads : Answer(x, i) \/ Receive(x, i) \/ LoadFails(x, i)
Act == (\E n \in Notes : ClickOne(n) \/ ServeOne(n)) \/ ClickAll \/ UpdateAll \/ CommitAll \/ Clicked \/ ClickFails

Next ==
    \/ Write
    \/ \E u \in Users, n \in Notes : CallMarkRead(u, n)
    \/ \E x \in Resources : Load(x)
    \/ Act

Spec == Init /\ [][Next]_vars

\* The timer fires, the server answers, the browser runs what it received.
Fairness ==
    /\ WF_vars(\E n \in Notes : Commit(n))
    /\ \A x \in Resources :
        /\ WF_vars(Poll(x))
        /\ WF_vars(\E i \in 1..MaxLoads : Answer(x, i))
        /\ WF_vars(Receive(x, 1))
    /\ WF_vars(UpdateAll) /\ WF_vars(CommitAll)
    /\ WF_vars(\E n \in Notes : ServeOne(n))
    /\ WF_vars(Clicked)

FairSpec == Spec /\ Fairness

-------------------------------------------------------------------------------
(* Properties *)

TypeOK ==
    /\ Range(begun) \subseteq Notes /\ IsInjective(begun)
    /\ sent \subseteq Range(begun) /\ read \subseteq sent
    /\ \A x \in Resources : Len(loads[x]) <= MaxLoads /\ Len(shown[x]) <= 1
    /\ click.at \in {"idle", "one", "all", "update", "served"} /\ click.rows \subseteq sent
    /\ fails \in 0..MaxFails

\* A step of mark_read or mark_all_read: whatever ids anyone sends, a notification is read
\* only by its owner, through a request that was under way.
OnlyTheOwnerReads ==
    \A n \in read' \ read : (Owner[n] = Reader) = (click' # click)

\* What the page shows unread was there, is the reader's, and came in the order
\* of sent_at, though it may be older than what is in the database.
ShowsItsOwn ==
    \A page \in Range(shown["list"]) :
        /\ Len(page) <= PageSize
        /\ \A row \in Range(page) : row.note \in Mine(Reader) /\ (row.read => row.note \in read)
        /\ \A i, j \in DOMAIN page : i < j =>
               \E k, l \in DOMAIN begun : l < k /\ page[i].note = begun[k] /\ page[j].note = begun[l]

\* live-notifications: "New messages appear here automatically", and so does the
\* badge: late and lost answers, and clicks, leave nothing stale behind.
Settles == <>[](shown["list"] = Result("list") /\ shown["count"] = Result("count"))

\* run: the click ends and the buttons work again.
ClicksEnd == click # Idle ~> click = Idle
================================================================================
