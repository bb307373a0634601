----------------------------- MODULE RemoteCall -----------------------------
(***************************************************************************)
(* What the client library promises of rpc() and sendRaw() (clipsclient.h  *)
(* calls it "Performs a RPC call ... to execute a command and synchronously*)
(* awaits for the response to arrive"): a command is executed once at most,*)
(* after it was given and in its turn; rpc() returns the result of this    *)
(* execution, or gives up after an abort.  A result nobody waits for is    *)
(* forgotten: this loses one that is made before its rpc() waits.          *)
(***************************************************************************)
EXTENDS Naturals

CONSTANTS Callers,
          NULL        \* no command, no result

VARIABLES connected,
          aborted,    \* the calls were aborted
          place,      \* per caller: "idle", "sending" (sendRaw()), "calling" or "waiting" (rpc())
          calls,      \* per caller: how many calls it began
          command,    \* per caller: the command of its latest call
          returned,   \* per caller: the result its latest call returned
          open,       \* the commands given and not executed
          results,    \* the results not returned
          watches     \* what the server makes: its changes of the watches

vars == <<connected, aborted, place, calls, command, returned, open, results, watches>>

Init ==
    /\ connected = TRUE /\ aborted = FALSE
    /\ place = [t \in Callers |-> "idle"]
    /\ calls = [t \in Callers |-> 0]
    /\ command = [t \in Callers |-> NULL]
    /\ returned = [t \in Callers |-> NULL]
    /\ open = {} /\ results = {} /\ watches = 0

Begin(t) ==
    /\ place[t] = "idle"
    /\ \E c \in {"raw", "watch"}, p \in {"sending", "calling"} :
          LET new == [by |-> t, n |-> calls[t] + 1, cmd |-> c]
          IN  /\ command' = [command EXCEPT ![t] = new]
              /\ open' = open \cup {new}
              /\ place' = [place EXCEPT ![t] = p]
    /\ calls' = [calls EXCEPT ![t] = @ + 1]
    /\ returned' = [returned EXCEPT ![t] = NULL]
    /\ UNCHANGED <<connected, aborted, results, watches>>

\* A command is lost with the connection only.
Lose(c) ==
    /\ ~connected
    /\ open' = open \ {c}
    /\ UNCHANGED <<connected, aborted, place, calls, command, returned, results, watches>>

\* sendRaw() does not wait.
Sent(t) ==
    /\ place[t] = "sending"
    /\ place' = [place EXCEPT ![t] = "idle"]
    /\ \/ open' = open
       \/ ~connected /\ open' = open \ {command[t]}
    /\ UNCHANGED <<connected, aborted, calls, command, returned, results, watches>>

Wait(t) ==
    /\ place[t] = "calling"
    /\ place' = [place EXCEPT ![t] = "waiting"]
    /\ UNCHANGED <<connected, aborted, calls, command, returned, open, results, watches>>

\* The commands of a caller are executed in the order they were given.
Execute(c) ==
    /\ connected
    /\ \A d \in open : d.by = c.by => c.n <= d.n
    /\ open' = open \ {c}
    /\ watches' = IF c.cmd = "watch" THEN watches + 1 ELSE watches
    /\ results' = results \cup {[rq |-> c, watches |-> watches']}
    /\ UNCHANGED <<connected, aborted, place, calls, command, returned>>

\* rpc() returns the result of its own command.
Return(t) ==
    /\ place[t] = "waiting"
    /\ \E r \in results :
          /\ r.rq = command[t]
          /\ returned' = [returned EXCEPT ![t] = r]
          /\ results' = results \ {r}
    /\ place' = [place EXCEPT ![t] = "idle"]
    /\ UNCHANGED <<connected, aborted, calls, command, open, watches>>

GiveUp(t) ==
    /\ place[t] = "waiting" /\ aborted
    /\ place' = [place EXCEPT ![t] = "idle"]
    /\ UNCHANGED <<connected, aborted, calls, command, returned, open, results, watches>>

\* A result that somebody waits for is not forgotten before the abort.
Forget ==
    /\ results' \in SUBSET results
    /\ \A r \in results \ results' :
          aborted \/ \A t \in Callers : place[t] = "waiting" => command[t] # r.rq
    /\ UNCHANGED <<connected, aborted, place, calls, command, returned, open, watches>>

Abort ==
    /\ ~aborted /\ aborted' = TRUE
    /\ results' \in SUBSET results
    /\ UNCHANGED <<connected, place, calls, command, returned, open, watches>>

Disconnect ==
    /\ connected' = FALSE
    /\ open' \in SUBSET open
    /\ results' \in SUBSET results
    /\ results' # results => aborted
    /\ UNCHANGED <<aborted, place, calls, command, returned, watches>>

Next ==
    \/ \E t \in Callers : Begin(t) \/ Sent(t) \/ Wait(t) \/ Return(t) \/ GiveUp(t)
    \/ \E c \in open : Lose(c) \/ Execute(c)
    \/ Forget \/ Abort \/ Disconnect

Spec == Init /\ [][Next]_vars
=============================================================================
