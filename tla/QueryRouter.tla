---------------------------- MODULE QueryRouter ----------------------------
(***************************************************************************)
(* Capturing the output of a query (queryrouter.cpp, clips::query()) on    *)
(* the router list of CLIPS (router.c).                                    *)
(*                                                                         *)
(* The server thread executes requests one after the other; CLIPS prints   *)
(* while it executes one.  A print looks for the first active router; the  *)
(* print function of the query router prints the string again, with the    *)
(* list changed in between, so that each of these steps is an action.      *)
(* Logical names are those the query router captures; the router of the    *)
(* terminal ("fileio") knows all of them, other routers know none.         *)
(***************************************************************************)
EXTENDS Naturals, Sequences

CONSTANTS MaxRequests,  \* bound: requests executed
          MaxPrints     \* bound: strings printed in all

ASSUME RouterConstants ==
    MaxRequests \in Nat /\ MaxPrints \in Nat

VARIABLES routers,    \* ListOfRouters
          registered, \* QueryRouter::registered
          enabled,    \* QueryRouter::enabled
          buffer,     \* QueryRouter::buffer, the strings captured
          screen,     \* strings printed on the terminal
          printing,   \* PrintCLIPS(): "no", "find" a router, "return" from it
          depth,      \* calls of printFunction() under way
          executing,  \* "no", "query" or "raw"
          request,    \* number of the request under way, or of the last one
          printed,    \* per string printed: the request that printed it
          results     \* per request: what the query returned

vars == <<routers, registered, enabled, buffer, screen, printing, depth, executing, request,
          printed, results>>

Strings == 1 .. MaxPrints
NoResult == [done |-> FALSE, success |-> FALSE, output |-> <<>>]

Router == [name : {"query", "fileio"}, active : BOOLEAN]

TypeOK ==
    /\ routers \in Seq(Router) /\ Len(routers) <= request + 1
    /\ registered \in BOOLEAN /\ enabled \in BOOLEAN
    /\ buffer \in Seq(Strings) /\ screen \in Seq(Strings)
    /\ printing \in {"no", "find", "return"} /\ depth \in 0 .. 2
    /\ executing \in {"no", "query", "raw"}
    /\ request \in 0 .. MaxRequests
    /\ printed \in Seq(1 .. MaxRequests)
    /\ results \in [1 .. MaxRequests ->
                      [done : BOOLEAN, success : BOOLEAN, output : Seq(Strings)]]

Init ==
    /\ routers = << [name |-> "fileio", active |-> TRUE] >>
    /\ registered = FALSE /\ enabled = FALSE
    /\ buffer = <<>> /\ screen = <<>>
    /\ printing = "no" /\ depth = 0
    /\ executing = "no"
    /\ request = 0
    /\ printed = <<>>
    /\ results = [i \in 1 .. MaxRequests |-> NoResult]

-----------------------------------------------------------------------------
(* The router list.                                                        *)

NewRouter == [name |-> "query", active |-> TRUE]

\* Mutant: a router for input and one for output.
AddTwo(rs) == <<NewRouter, NewRouter>> \o rs
\* AddRouter(): active, and above the routers of the same or a lower priority,
\* which all others are.
AddRouter(rs) == <<NewRouter>> \o rs

\* Mutant of the two below: nothing changes.
Keep(rs) == rs
\* Mutant: every router steps aside, that of the terminal too.
DeactivateAll(rs) == [i \in DOMAIN rs |-> [rs[i] EXCEPT !.active = FALSE]]

\* ActivateRouter() and DeactivateRouter() look for the name and find the first one.
IsFirst(rs, i) == rs[i].name = "query" /\ \A j \in 1 .. i - 1 : rs[j].name # "query"
SetFirst(rs, a) ==
    [i \in DOMAIN rs |-> IF IsFirst(rs, i) THEN [rs[i] EXCEPT !.active = a] ELSE rs[i]]
Activate(rs)   == SetFirst(rs, TRUE)
Deactivate(rs) == SetFirst(rs, FALSE)

\* The router PrintCLIPS() finds: no active one is above it.
Finds(name) ==
    \E i \in DOMAIN routers :
        /\ routers[i].name = name /\ routers[i].active
        /\ \A j \in 1 .. i - 1 : ~routers[j].active

-----------------------------------------------------------------------------
(* The query router.                                                       *)

\* enable() registers a router whenever it was disabled: registerR() leaves
\* registered FALSE.
Enable ==
    IF enabled
    THEN UNCHANGED <<routers, registered, enabled>>
    ELSE /\ routers' = Activate(IF registered THEN routers ELSE AddRouter(routers))
         /\ enabled' = TRUE
         /\ UNCHANGED registered

\* disable()
Disable ==
    /\ routers' = IF enabled THEN Deactivate(routers) ELSE routers
    /\ enabled' = FALSE
    /\ UNCHANGED registered

\* read() clears the buffer.
AfterRead(b) == <<>>

-----------------------------------------------------------------------------
(* PrintCLIPS() and the print functions it calls.                          *)

PrintString ==
    /\ executing # "no" /\ printing = "no" /\ Len(printed) < MaxPrints
    /\ printed' = Append(printed, request)
    /\ printing' = "find"
    /\ UNCHANGED <<routers, registered, enabled, buffer, screen, depth, executing, request, results>>

\* printFunction() keeps the string, steps aside and prints it again; disabled, it
\* prints it again as it is.  A second call within the first finds what the first
\* one found and goes on for ever (bound: no third call is made).
PrintFunction ==
    /\ printing = "find" /\ Finds("query") /\ depth < 2
    /\ depth' = depth + 1
    /\ IF enabled
       THEN buffer' = Append(buffer, Len(printed)) /\ routers' = Deactivate(routers)
       ELSE UNCHANGED <<buffer, routers>>
    /\ UNCHANGED <<registered, enabled, screen, printing, executing, request, printed, results>>

\* The terminal prints the string; nobody does if no active router is found.
PrintFile ==
    /\ printing = "find" /\ ~Finds("query")
    /\ screen' = IF Finds("fileio") THEN Append(screen, Len(printed)) ELSE screen
    /\ printing' = "return"
    /\ UNCHANGED <<routers, registered, enabled, buffer, depth, executing, request, printed, results>>

\* The inner PrintCLIPS() returns into printFunction(), the outer one to CLIPS.
PrintReturn ==
    /\ printing = "return"
    /\ IF depth = 0
       THEN printing' = "no" /\ UNCHANGED <<depth, routers>>
       ELSE /\ depth' = depth - 1
            /\ routers' = IF enabled THEN Activate(routers) ELSE routers
            /\ UNCHANGED printing
    /\ UNCHANGED <<registered, enabled, buffer, screen, executing, request, printed, results>>

-----------------------------------------------------------------------------
(* Requests.                                                               *)

NewRequest ==
    /\ executing = "no" /\ request < MaxRequests
    /\ request' = request + 1
    /\ UNCHANGED <<buffer, screen, printing, depth, printed, results>>

\* clips::query(): capture, then execute the query.
Query == NewRequest /\ Enable /\ executing' = "query"

\* A malformed one is rejected at once, with the router enabled.
RejectQuery == NewRequest /\ Enable /\ UNCHANGED executing

\* Any other request that CLIPS executes.
Raw ==
    /\ NewRequest
    /\ executing' = "raw"
    /\ UNCHANGED <<routers, registered, enabled>>

\* The rules ran, the output is read and the router disabled; the caller learns
\* whether any rule fired.
FinishQuery ==
    /\ executing = "query" /\ printing = "no"
    /\ \E steps \in {0, 1} :
          results' = [results EXCEPT ![request] =
                        [done |-> TRUE, success |-> steps > 0, output |-> buffer]]
    /\ buffer' = AfterRead(buffer)
    /\ Disable
    /\ executing' = "no"
    /\ UNCHANGED <<screen, printing, depth, request, printed>>

FinishRaw ==
    /\ executing = "raw" /\ printing = "no"
    /\ executing' = "no"
    /\ UNCHANGED <<routers, registered, enabled, buffer, screen, printing, depth, request, printed, results>>

Next ==
    \/ Query \/ RejectQuery \/ Raw \/ FinishQuery \/ FinishRaw
    \/ PrintString \/ PrintFunction \/ PrintFile \/ PrintReturn

Spec == Init /\ [][Next]_vars
-----------------------------------------------------------------------------
(* Properties                                                              *)

\* However many routers of the same name pile up in the list, printFunction() is
\* never called by its own print, which would go on for ever: never two of them are
\* active, nor one while capture is disabled.
PrintReturns == depth < 2

\* Whatever is printed reaches the terminal, once and in order, through routers that
\* come and go: each time CLIPS looks for one, the list leads to the terminal in the
\* end (PrintCLIPS(), printFunction()).
NothingSwallowed == printing = "no" => screen = [i \in DOMAIN printed |-> i]

\* A query returns all it printed, in order and once, whatever was executed before
\* it; strings that an earlier request left in the buffer may precede its own.
QueryReturnsItsOutput ==
    \A n \in 1 .. MaxRequests :
        results[n].done =>
            LET out == results[n].output
            IN  /\ \A i, j \in DOMAIN out : i < j => out[i] < out[j]
                /\ \A s \in DOMAIN printed : printed[s] = n => \E i \in DOMAIN out : out[i] = s
=============================================================================
