------------------------------- MODULE HelpChat -------------------------------
(***************************************************************************)
(* The public help chat: one route anyone may call, a limiter of calls per *)
(* client address, the checks of a conversation, and the provider that     *)
(* answers it while other calls are served (api/v1/help.py,                *)
(* services/help_service.py, adapters/help/anthropic.py).                  *)
(*                                                                         *)
(* The clock counts the units the limiter's window is given in.  A text is *)
(* what the checks tell apart.  Nothing is awaited between the limiter's   *)
(* lock and the call of the provider, so Check is one step.                *)
(***************************************************************************)
EXTENDS Naturals, Sequences, SequencesExt, FiniteSets

CONSTANTS
    Chats,          \* calls of the route
    Clients,        \* addresses they come from
    MAX_REQUESTS,   \* help_rate_limit_requests
    WINDOW,         \* help_rate_limit_window_seconds
    MAX_HISTORY,    \* help_max_history_messages
    Says,           \* the texts that are tried
    MaxTime         \* bound of the clock

HelpAssumption ==
    /\ MAX_REQUESTS \in Nat /\ WINDOW \in Nat /\ MAX_HISTORY \in Nat /\ MaxTime \in Nat
    /\ Says \subseteq {"plain", "secret", "empty", "long"}

Bodies == [message : Says, history : BoundedSeq(Says, MAX_HISTORY + 1)]
NoBody == [message |-> "plain", history |-> <<>>]

VARIABLES
    now,        \* time.monotonic
    requests,   \* _requests: the times of each client's calls that still count
    reference,  \* the help document: can it be read, and is it cached
    chat,       \* each call: how far it is, whose it is, what it says
    open,       \* calls whose HTTP client is open
    admitted    \* history: the calls the limiter let pass, with their times

vars == <<now, requests, reference, chat, open, admitted>>

Ended == {"answered", "refused", "bad request", "limited", "unavailable"}

TypeOK ==
    /\ now \in 0 .. MaxTime
    /\ \A c \in Clients :
        Len(requests[c]) <= MAX_REQUESTS /\ requests[c] \in Seq(0 .. now)
    /\ reference \in [readable : BOOLEAN, cached : BOOLEAN]
    /\ \A r \in Chats :
        /\ chat[r].pc \in {"idle", "open", "asking"} \cup Ended
        /\ chat[r].client \in Clients /\ chat[r].body \in Bodies \cup {NoBody}
    /\ open \subseteq Chats
    /\ \A a \in admitted : a.client \in Clients /\ a.time \in 0 .. now /\ a.chat \in Chats

Init ==
    /\ now = 0
    /\ requests = [c \in Clients |-> <<>>]
    /\ reference \in [readable : BOOLEAN, cached : {FALSE}]
    /\ chat \in [Chats -> [pc : {"idle"}, client : Clients, body : {NoBody}]]
    /\ open = {}
    /\ admitted = {}

At(r, from, to) == chat[r].pc = from /\ chat' = [chat EXCEPT ![r].pc = to]

-------------------------------------------------------------------------------
(* The limiter *)

\* popleft while the oldest is a window or more ago.
Aged(c) ==
    LET kept == {i \in 1 .. Len(requests[c]) :
                   \E k \in 1 .. i : requests[c][k] + WINDOW > now}
    IN  SubSeq(requests[c], Len(requests[c]) - Cardinality(kept) + 1, Len(requests[c]))

\* Mutant: one call too many.
WithinLimitOffByOne(c) == Len(Aged(c)) <= MAX_REQUESTS
WithinLimit(c) == Len(Aged(c)) < MAX_REQUESTS

\* A call that is turned away does not count.
Counted(r) ==
    LET c == chat[r].client
    IN  IF WithinLimit(c)
        THEN /\ requests' = [requests EXCEPT ![c] = Append(Aged(c), now)]
             /\ admitted' = admitted \cup {[chat |-> r, client |-> c, time |-> now]}
        ELSE /\ requests' = [requests EXCEPT ![c] = Aged(c)]
             /\ UNCHANGED admitted

-------------------------------------------------------------------------------
(* The checks of a conversation, in the order of answer_help_question *)

MessageOk(body) == body.message \notin {"empty", "long"}
HistoryOk(body) ==
    /\ Len(body.history) <= MAX_HISTORY
    /\ \A i \in 1 .. Len(body.history) : body.history[i] \notin {"empty", "long"}
AllTexts(body) == {body.message} \cup {body.history[i] : i \in 1 .. Len(body.history)}

Verdict(body) ==
    CASE ~MessageOk(body) \/ ~HistoryOk(body) -> "bad request"
      [] MessageOk(body) /\ HistoryOk(body) /\ "secret" \in AllTexts(body) -> "refused"
      [] OTHER -> "asking"

\* load_help_document: what was read once is kept, a failure is not.
Loads == reference.cached \/ reference.readable

-------------------------------------------------------------------------------
(* A call *)

\* get_help_provider opens its HTTP client before the limiter is asked.
Receive(r) ==
    /\ \E body \in Bodies :
        /\ chat[r].pc = "idle"
        /\ chat' = [chat EXCEPT ![r].pc = "open", ![r].body = body]
    /\ open' = open \cup {r}
    /\ UNCHANGED <<now, requests, reference, admitted>>

Check(r) ==
    LET verdict == IF WithinLimit(chat[r].client) THEN Verdict(chat[r].body) ELSE "limited"
    IN  /\ Counted(r)
        /\ At(r, "open", IF verdict = "asking" /\ ~Loads THEN "unavailable" ELSE verdict)
        /\ reference' = [reference EXCEPT !.cached = @ \/ (verdict = "asking" /\ Loads)]
        /\ UNCHANGED <<now, open>>

\* The provider answers, refuses, times out, or there is no key to call it with.
Reply(r) ==
    /\ \E reply \in {"answered", "unavailable"} : At(r, "asking", reply)
    /\ UNCHANGED <<now, requests, reference, open, admitted>>

MayClose(r) == chat[r].pc \in Ended

\* The dependency's finally.
Close(r) ==
    /\ MayClose(r) /\ r \in open
    /\ open' = open \ {r}
    /\ UNCHANGED <<now, requests, reference, chat, admitted>>

Tick ==
    /\ now < MaxTime
    /\ now' = now + 1
    /\ UNCHANGED <<requests, reference, chat, open, admitted>>

\* The document is put there, or taken away.
Edit ==
    /\ reference' = [reference EXCEPT !.readable = ~@]
    /\ UNCHANGED <<now, requests, chat, open, admitted>>

Next ==
    \/ \E r \in Chats : Receive(r) \/ Check(r) \/ Reply(r) \/ Close(r)
    \/ Tick
    \/ Edit

Spec == Init /\ [][Next]_vars

\* The event loop runs what is ready; the provider's call has a timeout.
Fairness == \A r \in Chats : WF_vars(Check(r)) /\ WF_vars(Reply(r)) /\ WF_vars(Close(r))
FairSpec == Spec /\ Fairness

-------------------------------------------------------------------------------
(* Properties *)

InWindow(c, t) == {a \in admitted : a.client = c /\ a.time <= t /\ a.time + WINDOW > t}

\* However a client spreads its calls, no stretch of time as long as the window
\* lets more of them pass than the limit.
AtMostMaxPerWindow ==
    \A c \in Clients : \A t \in 0 .. now : Cardinality(InWindow(c, t)) <= MAX_REQUESTS

\* A step: a client is turned away only for its own calls of the last window that were
\* let pass: not for calls that were turned away, nor for anybody else's.
LimitedForItsOwnCalls ==
    \A r \in Chats : chat[r].pc = "open" /\ chat'[r].pc = "limited" =>
        Cardinality(InWindow(chat[r].client, now)) = MAX_REQUESTS

\* What reaches the provider was let pass, is within the caps and holds nothing
\* that looks like a secret, neither in the question nor in what came before.
ProviderSeesNoSecret ==
    \A r \in Chats : chat[r].pc \in {"asking", "answered"} =>
        /\ \E a \in admitted : a.chat = r
        /\ chat[r].body.message = "plain"
        /\ chat[r].body.history \in BoundedSeq({"plain"}, MAX_HISTORY)

\* What both of them promise of every call.
NothingSlipsThrough == TypeOK /\ AtMostMaxPerWindow /\ ProviderSeesNoSecret

\* Every call ends, and the HTTP client it opened is closed, also when the call
\* was turned away before the provider was needed.
ClientsAreClosed == \A r \in Chats : chat[r].pc = "open" ~> chat[r].pc \in Ended /\ r \notin open
================================================================================
