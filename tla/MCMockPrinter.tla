---------------------------- MODULE MCMockPrinter ----------------------------
(***************************************************************************)
(* Instances of MockCallers: one caller that makes requests of any kind    *)
(* or plain ones, or two whose requests interleave.                        *)
(***************************************************************************)
EXTENDS MockCallers

CONSTANTS c1, c2

BothClients == {c1, c2}

\* The one caller is c1; of two, neither pauses nor stores a file only.
Restricted ==
    IF alone
    THEN req'[c2] = NoRequest
    ELSE /\ \A c \in BothClients : req'[c].op \notin {"store", "status", "pause", "resume"}
         /\ \A c \in BothClients :
              job_ids < MaxNumber - 1 \/ req'[c].op # "print" \/ req[c].op = "print"
         /\ ~Fault

MCNext == CallersNext /\ Restricted

\* FairSpec's fairness: no restriction is on a thread.
MCSpec ==
    /\ CallersInit /\ [][MCNext]_callersVars
    /\ \A r \in Runs : WF_callersVars(ThreadStep(r) /\ UNCHANGED <<alone, plain>>)
==============================================================================
