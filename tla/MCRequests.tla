------------------------------ MODULE MCRequests ------------------------------
(* Small instances of WebSession and of Titles: in a behaviour either calls    *)
(* are made in a session of the web client, or requests about titles.          *)
EXTENDS WebSession, Titles

CONSTANTS t1, t2, p1, p2, c1, r1, r2, r3

VARIABLE part

MCInit ==
  /\ Init /\ TitleInit
  /\ \/ part = "titles"
     \/ part = "session" /\ bill[p1].accrual = 1

MCNext ==
  /\ part' = part
  /\ \/ part = "session" /\ Next /\ UNCHANGED titleVars
     \/ part = "titles" /\ TitleNext /\ UNCHANGED vars

\* The fairness of WebSession!FairSpec and of Titles!FairTitleSpec.
MCSpec ==
  /\ MCInit /\ [][MCNext]_<<part, vars, titleVars>>
  /\ \A c \in Calls : WF_vars(Reply(c))
  /\ \A t \in Tabs : WF_vars(Settle(t))
  /\ \A r \in Requests : WF_titleVars(Statement(r)) /\ WF_titleVars(Deadlock(r))
=============================================================================
