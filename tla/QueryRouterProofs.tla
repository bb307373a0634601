-------------------------- MODULE QueryRouterProofs --------------------------
(***************************************************************************)
(* Proofs about QueryRouter, for any number of requests and strings.       *)
(*                                                                         *)
(* What carries them: the router of the terminal stays at the end of the   *)
(* list, active; of the query routers above it only the topmost is ever    *)
(* active, and it is active exactly while capture is enabled and no print  *)
(* of printFunction() is under way, however many of them registerR() has   *)
(* left there.                                                             *)
(***************************************************************************)
EXTENDS QueryRouter, SequenceTheorems, TLAPS

USE RouterConstants

\* The terminal behind any number of query routers.
Shaped(rs) ==
    /\ Len(rs) > 0 /\ rs[Len(rs)] = [name |-> "fileio", active |-> TRUE]
    /\ \A i \in 1 .. Len(rs) - 1 : rs[i].name = "query"

\* The topmost query router is active if c holds, and no other is.
TopActive(rs, c) ==
    /\ \A i \in 1 .. Len(rs) - 1 : rs[i].active => i = 1 /\ c
    /\ c => Len(rs) > 1 /\ rs[1].active

Capturing == enabled /\ depth = 0

ListInv == Shaped(routers) /\ TopActive(routers, Capturing)

Executing ==
    /\ executing # "no" => request > 0
    /\ executing = "query" => enabled
    /\ ~registered

Printing ==
    /\ depth = 1 => enabled /\ printing # "no" /\ Len(routers) > 1
    /\ printing # "no" => executing # "no" /\ Len(printed) > 0
    /\ Len(printed) <= MaxPrints

\* Strings that have reached the terminal and the query router.
Shown    == IF printing = "find" THEN Len(printed) - 1 ELSE Len(printed)
Captured == IF printing = "find" /\ depth = 0 THEN Len(printed) - 1 ELSE Len(printed)

OnScreen == screen = [i \in 1 .. Shown |-> i]

Ascending(out) == \A i, j \in DOMAIN out : i < j => out[i] < out[j]
HoldsAll(out, n) == \A s \in 1 .. Captured : printed[s] = n => \E i \in DOMAIN out : out[i] = s

\* The buffer holds what the query under way printed so far.
Buffered ==
    /\ Ascending(buffer)
    /\ \A i \in DOMAIN buffer : buffer[i] <= Captured
    /\ executing = "query" => HoldsAll(buffer, request)

\* The requests that are done print no more.
PastIsPast ==
    /\ \A s \in DOMAIN printed : printed[s] <= request
    /\ \A n \in 1 .. MaxRequests :
          results[n].done => n <= request /\ (executing # "no" => n < request)

IInv ==
    /\ TypeOK /\ ListInv /\ Executing /\ Printing /\ OnScreen /\ Buffered /\ PastIsPast
    /\ PrintReturns /\ QueryReturnsItsOutput

-----------------------------------------------------------------------------
(* The operators of the router list.                                       *)

\* An index that is not the last one.
LEMMA BelowTheLast ==
    ASSUME NEW n \in Nat, NEW i \in 1 .. n, i # n
    PROVE  i \in 1 .. n - 1 /\ n > 1
OBVIOUS

\* A sequence with an element in front.
LEMMA InFront ==
    ASSUME NEW S, NEW x \in S, NEW s \in Seq(S)
    PROVE  LET r == <<x>> \o s
           IN  /\ r \in Seq(S) /\ Len(r) = Len(s) + 1 /\ Len(s) \in Nat
               /\ DOMAIN r = 1 .. Len(s) + 1 /\ r[1] = x
               /\ \A i \in 2 .. Len(s) + 1 : r[i] = s[i - 1]
<1>1. Len(<<x>>) = 1 /\ <<x>>[1] = x /\ <<x>> \in Seq(S) /\ Len(s) \in Nat
  OBVIOUS
<1>2. (<<x>> \o s) \in Seq(S) /\ Len(<<x>> \o s) = Len(s) + 1
  BY <1>1, ConcatProperties
<1>3. \A i \in 1 .. Len(s) + 1 : (<<x>> \o s)[i] = IF i <= 1 THEN x ELSE s[i - 1]
  BY <1>1, ConcatProperties
<1>4. (<<x>> \o s)[1] = x /\ \A i \in 2 .. Len(s) + 1 : (<<x>> \o s)[i] = s[i - 1]
  BY <1>1, <1>3
<1> QED BY <1>1, <1>2, <1>4, LenProperties

\* A new router goes in front of the others, active.
LEMMA AddRouterShape ==
    ASSUME NEW rs \in Seq(Router), Shaped(rs), TopActive(rs, FALSE)
    PROVE  LET r == AddRouter(rs)
           IN  r \in Seq(Router) /\ Len(r) = Len(rs) + 1 /\ Shaped(r) /\ TopActive(r, TRUE)
<1> DEFINE r == AddRouter(rs)
<1>1. NewRouter \in Router
  BY DEF NewRouter, Router
<1>2. /\ r \in Seq(Router) /\ Len(r) = Len(rs) + 1 /\ Len(rs) \in Nat
      /\ DOMAIN r = 1 .. Len(rs) + 1 /\ r[1] = NewRouter
      /\ \A i \in 2 .. Len(rs) + 1 : r[i] = rs[i - 1]
  BY <1>1, InFront DEF AddRouter
<1> HIDE DEF r
<1>3. r[Len(r)] = rs[Len(rs)] /\ Len(rs) > 0
  <2>1. Len(rs) > 0 /\ Len(rs) + 1 \in 2 .. Len(rs) + 1
    BY <1>2 DEF Shaped
  <2> QED BY <1>2, <2>1
<1>4. ASSUME NEW i \in 1 .. Len(r) - 1
      PROVE  r[i].name = "query" /\ (r[i].active <=> i = 1)
  <2>1. CASE i = 1
    BY <1>2, <2>1 DEF NewRouter
  <2>2. CASE i # 1
    <3>1. i \in 2 .. Len(rs) + 1 /\ i - 1 \in 1 .. Len(rs) - 1
      BY <1>2, <2>2
    <3> QED BY <1>2, <2>2, <3>1 DEF Shaped, TopActive
  <2> QED BY <2>1, <2>2
<1>5. 1 \in 1 .. Len(r) - 1
  BY <1>2, <1>3
<1> QED BY <1>2, <1>3, <1>4, <1>5 DEF Shaped, TopActive, r

\* Activating and deactivating change the topmost router only.
LEMMA SetFirstShape ==
    ASSUME NEW rs \in Seq(Router), Shaped(rs), NEW a \in BOOLEAN, NEW c, TopActive(rs, c)
    PROVE  LET r == SetFirst(rs, a)
           IN  /\ r \in Seq(Router) /\ Len(r) = Len(rs) /\ Shaped(r)
               /\ Len(rs) > 1 => TopActive(r, a)
               /\ ~a => TopActive(r, FALSE)
<1> DEFINE r == SetFirst(rs, a)
           On(x) == [x EXCEPT !.active = a]
<1>1. Len(rs) \in Nat /\ DOMAIN rs = 1 .. Len(rs) /\ \A i \in 1 .. Len(rs) : rs[i] \in Router
  BY LenProperties, ElementOfSeq
<1>2. \A x \in Router : On(x) \in Router /\ On(x).name = x.name /\ On(x).active = a
  BY DEF Router
<1>3. \A i \in 1 .. Len(rs) : r[i] = IF IsFirst(rs, i) THEN On(rs[i]) ELSE rs[i]
  BY <1>1 DEF SetFirst
<1>4. r \in Seq(Router) /\ Len(r) = Len(rs) /\ DOMAIN r = 1 .. Len(rs)
  <2>1. r = [i \in 1 .. Len(rs) |-> IF IsFirst(rs, i) THEN On(rs[i]) ELSE rs[i]]
    BY <1>1 DEF SetFirst
  <2>2. \A i \in 1 .. Len(rs) : (IF IsFirst(rs, i) THEN On(rs[i]) ELSE rs[i]) \in Router
    BY <1>1, <1>2
  <2> HIDE DEF r, On
  <2>3. r \in [1 .. Len(rs) -> Router]
    BY <2>1, <2>2
  <2> QED BY <1>1, <2>3
<1>5. \A i \in 1 .. Len(rs) : IsFirst(rs, i) => i = 1 /\ Len(rs) > 1
  <2> SUFFICES ASSUME NEW i \in 1 .. Len(rs), IsFirst(rs, i) PROVE i = 1 /\ Len(rs) > 1
    OBVIOUS
  <2>1. i # Len(rs)
    BY DEF IsFirst, Shaped
  <2>2. i \in 1 .. Len(rs) - 1 /\ Len(rs) > 1
    BY <1>1, <2>1, BelowTheLast
  <2>3. i # 1 => rs[1].name = "query" /\ 1 \in 1 .. i - 1
    BY <1>1, <2>2 DEF Shaped
  <2> QED BY <2>2, <2>3 DEF IsFirst
<1>6. Len(rs) > 1 => IsFirst(rs, 1)
  BY <1>1 DEF IsFirst, Shaped
<1> HIDE DEF r, On
<1>7. r[Len(r)] = rs[Len(rs)]
  <2>1. Len(rs) \in 1 .. Len(rs)
    BY <1>1 DEF Shaped
  <2>2. ~IsFirst(rs, Len(rs))
    BY DEF IsFirst, Shaped
  <2> QED BY <1>3, <1>4, <2>1, <2>2
<1>8. ASSUME NEW i \in 1 .. Len(rs) - 1
      PROVE  r[i].name = "query" /\ (r[i].active => i = 1 /\ a)
  <2>1. i \in 1 .. Len(rs) /\ rs[i] \in Router /\ rs[i].name = "query" /\ Len(rs) > 1
    BY <1>1 DEF Shaped
  <2>2. CASE i = 1
    BY <1>2, <1>3, <1>6, <2>1, <2>2
  <2>3. CASE i # 1
    <3>1. r[i] = rs[i] /\ ~rs[i].active
      BY <1>3, <1>5, <2>1, <2>3 DEF TopActive
    <3> QED BY <2>1, <3>1
  <2> QED BY <2>2, <2>3
<1>9. Shaped(r)
  BY <1>4, <1>7, <1>8 DEF Shaped
<1>10. Len(rs) > 1 => r[1].active = a
  BY <1>1, <1>2, <1>3, <1>6
<1>11. Len(rs) > 1 => TopActive(r, a)
  BY <1>4, <1>8, <1>10 DEF TopActive
<1>12. ~a => TopActive(r, FALSE)
  BY <1>4, <1>8 DEF TopActive
<1> QED BY <1>4, <1>9, <1>11, <1>12 DEF r

\* What PrintCLIPS() finds: the query router while it captures, else the terminal.
LEMMA WhatIsFound ==
    ASSUME routers \in Seq(Router), ListInv
    PROVE  /\ Finds("query") <=> Capturing
           /\ ~Capturing => Finds("fileio")
<1>1. Len(routers) \in Nat /\ DOMAIN routers = 1 .. Len(routers) /\ Len(routers) > 0
  BY LenProperties DEF ListInv, Shaped
<1>2. ASSUME Finds("query") PROVE Capturing
  <2>1. PICK i \in DOMAIN routers : routers[i].name = "query" /\ routers[i].active
    BY <1>2 DEF Finds
  <2>2. i # Len(routers)
    BY <2>1 DEF ListInv, Shaped
  <2>3. i \in 1 .. Len(routers) - 1
    BY <1>1, <2>2
  <2> QED BY <2>1, <2>3 DEF ListInv, TopActive
<1>3. ASSUME Capturing PROVE Finds("query")
  <2>1. Len(routers) > 1 /\ routers[1].active
    BY <1>3 DEF ListInv, TopActive
  <2>2. 1 \in DOMAIN routers /\ routers[1].name = "query" /\ 1 .. 1 - 1 = {}
    BY <1>1, <2>1 DEF ListInv, Shaped
  <2> QED BY <2>1, <2>2 DEF Finds
<1>4. ASSUME ~Capturing PROVE Finds("fileio")
  <2>1. Len(routers) \in DOMAIN routers /\ routers[Len(routers)].name = "fileio"
        /\ routers[Len(routers)].active
    BY <1>1 DEF ListInv, Shaped
  <2>2. \A j \in 1 .. Len(routers) - 1 : ~routers[j].active
    BY <1>4 DEF ListInv, TopActive
  <2> QED BY <2>1, <2>2 DEF Finds
<1> QED BY <1>2, <1>3, <1>4

-----------------------------------------------------------------------------
(* The operations.                                                         *)

\* enable(): the topmost router is active, and no other.
LEMMA EnableKeeps ==
    ASSUME IInv, NewRequest, Enable
    PROVE  /\ ListInv' /\ enabled' /\ enabled' \in BOOLEAN
           /\ routers' \in Seq(Router) /\ Len(routers') <= request' + 1
           /\ registered' = registered
<1>1. /\ routers \in Seq(Router) /\ Len(routers) <= request + 1 /\ request' = request + 1
      /\ request \in Nat /\ Len(routers) \in Nat /\ depth' = depth
      /\ executing = "no"
  BY LenProperties DEF IInv, TypeOK, NewRequest
<1>2. depth = 0
  BY <1>1 DEF IInv, TypeOK, Printing, PrintReturns
<1>3. CASE enabled
  BY <1>1, <1>3 DEF Enable, IInv, ListInv, Capturing
<1>4. CASE ~enabled
  <2> DEFINE rs == AddRouter(routers)
  <2>1. routers' = SetFirst(rs, TRUE) /\ enabled' = TRUE /\ registered' = registered
    BY <1>4 DEF Enable, IInv, Executing, Activate
  <2>2. Shaped(routers) /\ TopActive(routers, FALSE)
    BY <1>4 DEF IInv, ListInv, Capturing, TopActive
  <2>3. rs \in Seq(Router) /\ Len(rs) = Len(routers) + 1 /\ Shaped(rs) /\ TopActive(rs, TRUE)
    BY <1>1, <2>2, AddRouterShape
  <2>4. Len(rs) > 1
    BY <1>1, <2>2, <2>3 DEF Shaped
  <2> HIDE DEF rs
  <2>5. /\ routers' \in Seq(Router) /\ Len(routers') = Len(rs) /\ Shaped(routers')
        /\ TopActive(routers', TRUE)
    BY <2>1, <2>3, <2>4, SetFirstShape
  <2>6. Capturing' = TRUE
    BY <1>1, <1>2, <2>1 DEF Capturing
  <2>7. ListInv'
    BY <2>5, <2>6 DEF ListInv
  <2>8. Len(routers') <= request' + 1
    BY <1>1, <2>3, <2>5
  <2> QED BY <2>1, <2>5, <2>7, <2>8
<1> QED BY <1>3, <1>4

\* What Query, RejectQuery and Raw have in common.
LEMMA RequestKeeps ==
    ASSUME IInv, NewRequest, ListInv', routers' \in Seq(Router), Len(routers') <= request' + 1,
           enabled' \in BOOLEAN, executing' \in {"no", "query", "raw"}, executing' = "query" => enabled',
           registered' = registered
    PROVE  IInv'
<1>1. /\ request' = request + 1 /\ request \in Nat /\ request' \in 0 .. MaxRequests
      /\ executing = "no" /\ printing = "no" /\ depth = 0
      /\ UNCHANGED <<buffer, screen, printing, depth, printed, results>>
  BY DEF IInv, TypeOK, NewRequest, Printing, PrintReturns
<1>2. TypeOK'
  BY <1>1 DEF IInv, TypeOK
<1>3. Executing' /\ Printing'
  BY <1>1 DEF IInv, Executing, Printing
<1>4. \A s \in DOMAIN printed : printed[s] \in Nat /\ printed[s] <= request
  BY DEF IInv, TypeOK, PastIsPast
<1>5. Captured' = Captured /\ Captured = Len(printed) /\ Shown' = Shown
  BY <1>1 DEF Captured, Shown
<1>6. OnScreen'
  BY <1>1, <1>5 DEF IInv, OnScreen
<1>7. Buffered'
  <2>1. HoldsAll(buffer, request)'
    <3>1. 1 .. Captured = DOMAIN printed
      BY <1>5, LenProperties DEF IInv, TypeOK
    <3> QED BY <1>1, <1>4, <1>5, <3>1 DEF HoldsAll
  <2> QED BY <1>1, <1>5, <2>1 DEF IInv, Buffered, Ascending
<1>8. PastIsPast'
  BY <1>1, <1>4 DEF IInv, PastIsPast
<1>9. PrintReturns' /\ QueryReturnsItsOutput'
  BY <1>1 DEF IInv, PrintReturns, QueryReturnsItsOutput
<1> QED BY <1>2, <1>3, <1>6, <1>7, <1>8, <1>9 DEF IInv

\* A request that is not a query, which leaves capture as it is.
LEMMA RawKeeps ==
    ASSUME IInv, Raw
    PROVE  IInv'
<1>1. /\ Len(routers) \in Nat /\ Len(routers) <= request + 1 /\ request' = request + 1
      /\ request \in Nat /\ depth' = depth
  BY LenProperties DEF Raw, NewRequest, IInv, TypeOK
<1>2. routers' \in Seq(Router) /\ Len(routers') <= request' + 1 /\ enabled' \in BOOLEAN
  BY <1>1 DEF Raw, IInv, TypeOK
<1>3. ListInv'
  BY <1>1 DEF Raw, IInv, ListInv, Capturing
<1> QED BY <1>2, <1>3, RequestKeeps DEF Raw

\* Printing a string begins: nothing has it yet.
LEMMA PrintStringKeeps ==
    ASSUME IInv, PrintString
    PROVE  IInv'
<1> DEFINE n == Len(printed)
<1>1. /\ UNCHANGED <<routers, registered, enabled, buffer, screen, depth, executing, request, results>>
      /\ printing = "no" /\ printing' = "find" /\ executing # "no" /\ depth = 0
      /\ printed' = Append(printed, request) /\ n < MaxPrints
  BY DEF PrintString, IInv, Printing, TypeOK, PrintReturns
<1>2. n \in Nat /\ request \in 1 .. MaxRequests /\ printed \in Seq(1 .. MaxRequests)
      /\ DOMAIN printed = 1 .. n
  BY <1>1, LenProperties DEF IInv, TypeOK, Executing
<1>3. /\ printed' \in Seq(1 .. MaxRequests) /\ Len(printed') = n + 1 /\ DOMAIN printed' = 1 .. n + 1
      /\ printed'[n + 1] = request /\ \A s \in 1 .. n : printed'[s] = printed[s]
  BY <1>1, <1>2, AppendProperties
<1>4. Shown = n /\ Captured = n
  BY <1>1 DEF Shown, Captured
<1> HIDE DEF n
<1>5. Shown' = n /\ Captured' = n
  BY <1>1, <1>2, <1>3 DEF Shown, Captured
<1>6. TypeOK'
  BY <1>1, <1>3 DEF IInv, TypeOK
<1>7. ListInv' /\ Executing' /\ PrintReturns'
  BY <1>1 DEF IInv, ListInv, Capturing, Executing, PrintReturns
<1>8. Printing'
  BY <1>1, <1>2, <1>3 DEF Printing
<1>9. OnScreen'
  BY <1>1, <1>4, <1>5 DEF IInv, OnScreen
<1>10. Buffered'
  BY <1>1, <1>3, <1>4, <1>5 DEF IInv, Buffered, Ascending, HoldsAll
<1>11. PastIsPast'
  <2>1. \A s \in 1 .. n + 1 : s \in 1 .. n \/ s = n + 1
    BY <1>2
  <2>2. request <= request
    BY <1>2
  <2> QED BY <1>1, <1>2, <1>3, <2>1, <2>2 DEF IInv, PastIsPast
<1>12. QueryReturnsItsOutput'
  <2>1. ASSUME NEW k \in 1 .. MaxRequests, results[k].done, NEW s \in DOMAIN printed', printed'[s] = k
        PROVE  s \in DOMAIN printed /\ printed[s] = k
    <3>1. k < request
      BY <1>1, <2>1 DEF IInv, PastIsPast
    <3>2. s # n + 1
      BY <1>2, <1>3, <2>1, <3>1
    <3>3. s \in 1 .. n
      BY <1>2, <1>3, <3>2
    <3> QED BY <1>2, <1>3, <2>1, <3>3
  <2>2. ASSUME NEW k \in 1 .. MaxRequests, results[k].done
        PROVE  LET out == results[k].output
               IN  /\ \A i, j \in DOMAIN out : i < j => out[i] < out[j]
                   /\ \A s \in DOMAIN printed : printed[s] = k => \E i \in DOMAIN out : out[i] = s
    BY <2>2 DEF IInv, QueryReturnsItsOutput
  <2>3. results' = results
    BY <1>1
  <2> QED BY <2>1, <2>2, <2>3 DEF QueryReturnsItsOutput
<1> QED BY <1>6, <1>7, <1>8, <1>9, <1>10, <1>11, <1>12 DEF IInv

\* The query router keeps the string and steps aside.
LEMMA PrintFunctionKeeps ==
    ASSUME IInv, PrintFunction
    PROVE  IInv'
<1> DEFINE n == Len(printed)
<1>1. enabled /\ depth = 0
  BY WhatIsFound DEF PrintFunction, IInv, TypeOK, Capturing
<1>2. /\ UNCHANGED <<registered, enabled, screen, printing, executing, request, printed, results>>
      /\ printing = "find" /\ depth' = 1
      /\ buffer' = Append(buffer, n) /\ routers' = SetFirst(routers, FALSE)
  BY <1>1 DEF PrintFunction, Deactivate
<1>3. /\ routers \in Seq(Router) /\ n \in Nat /\ n > 0 /\ buffer \in Seq(Strings)
      /\ executing # "no" /\ DOMAIN printed = 1 .. n
  BY <1>2, LenProperties DEF IInv, TypeOK, Printing
<1>4. n \in Strings
  BY <1>3 DEF IInv, Printing, Strings
<1>5. Len(routers) > 1
  BY <1>1 DEF IInv, ListInv, TopActive, Capturing
<1>6. /\ routers' \in Seq(Router) /\ Len(routers') = Len(routers) /\ Shaped(routers')
      /\ TopActive(routers', FALSE)
  BY <1>1, <1>2, <1>3, SetFirstShape DEF IInv, ListInv
<1>7. ListInv' /\ Executing' /\ Printing' /\ PrintReturns' /\ PastIsPast' /\ QueryReturnsItsOutput'
  <2>1. ~Capturing'
    BY <1>2 DEF Capturing
  <2>2. ListInv'
    BY <1>6, <2>1 DEF ListInv, TopActive
  <2>3. Printing'
    BY <1>1, <1>2, <1>3, <1>5, <1>6 DEF IInv, Printing
  <2>4. Executing' /\ PrintReturns'
    BY <1>2 DEF IInv, Executing, PrintReturns
  <2>5. PastIsPast' /\ QueryReturnsItsOutput'
    BY <1>2 DEF IInv, PastIsPast, QueryReturnsItsOutput
  <2> QED BY <2>2, <2>3, <2>4, <2>5
<1>8. Captured = n - 1 /\ Captured' = n /\ Shown' = Shown
  BY <1>1, <1>2 DEF Captured, Shown
<1> HIDE DEF n
<1>9. TypeOK'
  <2>1. buffer' \in Seq(Strings)
    BY <1>2, <1>3, <1>4, AppendProperties
  <2>2. Len(routers') <= request' + 1 /\ depth' \in 0 .. 2
    <3>1. Len(routers) <= request + 1
      BY DEF IInv, TypeOK
    <3>2. Len(routers') = Len(routers) /\ request' = request /\ depth' = 1
      BY <1>2, <1>6
    <3> QED BY <3>1, <3>2
  <2> QED BY <1>2, <1>6, <2>1, <2>2 DEF IInv, TypeOK
<1>10. OnScreen'
  BY <1>2, <1>8 DEF IInv, OnScreen
<1>11. PICK m \in Nat : /\ DOMAIN buffer = 1 .. m /\ DOMAIN buffer' = 1 .. m + 1
                        /\ \A i \in 1 .. m : buffer'[i] = buffer[i] /\ buffer[i] \in Nat
                        /\ buffer'[m + 1] = n
  <2>1. /\ Len(buffer) \in Nat /\ DOMAIN buffer = 1 .. Len(buffer)
        /\ DOMAIN buffer' = 1 .. Len(buffer) + 1
        /\ \A i \in 1 .. Len(buffer) : buffer'[i] = buffer[i] /\ buffer[i] \in Strings
        /\ buffer'[Len(buffer) + 1] = n
    BY <1>2, <1>3, <1>4, AppendProperties
  <2>2. Strings \subseteq Nat
    BY DEF Strings
  <2> QED BY <2>1, <2>2
<1>12. Ascending(buffer) /\ \A i \in DOMAIN buffer : buffer[i] <= n - 1
  BY <1>8 DEF IInv, Buffered
<1>13. \A i \in DOMAIN buffer' : buffer'[i] <= n
  <2> SUFFICES ASSUME NEW i \in 1 .. m + 1 PROVE buffer'[i] <= n
    BY <1>11
  <2>1. CASE i = m + 1
    BY <1>3, <1>11, <2>1
  <2>2. CASE i # m + 1
    <3>1. i \in 1 .. m
      BY <2>2
    <3>2. buffer[i] \in Nat /\ buffer[i] <= n - 1 /\ buffer'[i] = buffer[i]
      BY <1>11, <1>12, <3>1
    <3> QED BY <1>3, <3>2
  <2> QED BY <2>1, <2>2
<1>14. Ascending(buffer)'
  <2> SUFFICES ASSUME NEW i \in 1 .. m + 1, NEW j \in 1 .. m + 1, i < j
               PROVE  buffer'[i] < buffer'[j]
    BY <1>11 DEF Ascending
  <2>1. i \in 1 .. m
    OBVIOUS
  <2>2. buffer'[i] = buffer[i] /\ buffer[i] \in Nat /\ buffer[i] <= n - 1 /\ i \in DOMAIN buffer
    BY <1>11, <1>12, <2>1
  <2>3. CASE j = m + 1
    BY <1>3, <1>11, <2>2, <2>3
  <2>4. CASE j # m + 1
    <3>1. j \in 1 .. m
      BY <2>4
    <3>2. buffer'[j] = buffer[j] /\ j \in DOMAIN buffer
      BY <1>11, <3>1
    <3> QED BY <1>12, <2>2, <3>2 DEF Ascending
  <2> QED BY <2>3, <2>4
<1>15. ASSUME executing = "query", NEW s \in 1 .. n, printed[s] = request
       PROVE  \E k \in DOMAIN buffer' : buffer'[k] = s
  <2>1. CASE s = n
    BY <1>11, <2>1
  <2>2. CASE s # n
    <3>1. s \in 1 .. n - 1
      BY <1>3, <2>2
    <3>2. PICK k \in DOMAIN buffer : buffer[k] = s
      BY <1>8, <1>15, <3>1 DEF IInv, Buffered, HoldsAll
    <3> QED BY <1>11, <3>2
  <2> QED BY <2>1, <2>2
<1>16. Buffered'
  BY <1>2, <1>8, <1>13, <1>14, <1>15 DEF Buffered, HoldsAll
<1> QED BY <1>7, <1>9, <1>10, <1>16 DEF IInv

\* The terminal has the string: no query router is in its way any more, and one that
\* captures has kept it.
LEMMA PrintFileKeeps ==
    ASSUME IInv, PrintFile
    PROVE  IInv'
<1> DEFINE n == Len(printed)
<1>1. ~Capturing /\ Finds("fileio")
  BY WhatIsFound DEF PrintFile, IInv, TypeOK
<1>2. /\ UNCHANGED <<routers, registered, enabled, buffer, depth, executing, request, printed, results>>
      /\ printing = "find" /\ printing' = "return" /\ screen' = Append(screen, n)
  BY <1>1 DEF PrintFile
<1>3. /\ n \in Nat /\ n > 0 /\ n \in Strings /\ screen \in Seq(Strings)
      /\ executing # "no" /\ screen = [i \in 1 .. n - 1 |-> i]
  BY <1>2, LenProperties DEF IInv, TypeOK, Printing, Strings, OnScreen, Shown
<1>4. Captured' = n /\ Shown' = n
  BY <1>2 DEF Captured, Shown
<1>5. executing = "query" => Captured = n
  BY <1>1 DEF Captured, Capturing, IInv, Executing
<1>6. Captured \in Nat /\ Captured <= n
  BY <1>3 DEF Captured
<1> HIDE DEF n
<1>7. screen' \in Seq(Strings) /\ OnScreen'
  <2>1. Len(screen) = n - 1
    BY <1>3
  <2>2. screen' \in Seq(Strings) /\ DOMAIN screen' = 1 .. n
        /\ \A i \in 1 .. n : screen'[i] = IF i = n THEN n ELSE screen[i]
    BY <1>2, <1>3, <2>1, AppendProperties
  <2>3. ASSUME NEW i \in 1 .. n PROVE screen'[i] = i
    <3>1. CASE i = n
      BY <2>2, <3>1
    <3>2. CASE i # n
      <4>1. i \in 1 .. n - 1
        BY <1>3, <3>2, BelowTheLast
      <4> QED BY <1>3, <2>2, <3>2, <4>1
    <3> QED BY <3>1, <3>2
  <2>4. screen' = [i \in 1 .. n |-> i]
    BY <2>2, <2>3
  <2> QED BY <1>4, <2>2, <2>4 DEF OnScreen
<1>8. TypeOK'
  BY <1>2, <1>7 DEF IInv, TypeOK
<1>9. ListInv' /\ Executing' /\ Printing' /\ PrintReturns' /\ PastIsPast' /\ QueryReturnsItsOutput'
  BY <1>2, <1>3 DEF IInv, ListInv, Capturing, Executing, Printing, PrintReturns, PastIsPast,
                     QueryReturnsItsOutput
<1>10. Buffered'
  <2>1. \A i \in DOMAIN buffer : buffer[i] \in Nat /\ buffer[i] <= Captured
    BY DEF IInv, TypeOK, Buffered, Strings
  <2>2. \A i \in DOMAIN buffer : buffer[i] <= n
    BY <1>3, <1>6, <2>1
  <2>3. executing = "query" => HoldsAll(buffer, request)'
    BY <1>2, <1>4, <1>5 DEF IInv, Buffered, HoldsAll
  <2> QED BY <1>2, <1>4, <2>2, <2>3 DEF IInv, Buffered, Ascending
<1> QED BY <1>7, <1>8, <1>9, <1>10 DEF IInv

\* Behind the string the query router is back in place.
LEMMA PrintReturnKeeps ==
    ASSUME IInv, PrintReturn
    PROVE  IInv'
<1>1. /\ UNCHANGED <<registered, enabled, buffer, screen, executing, request, printed, results>>
      /\ printing = "return" /\ depth \in {0, 1} /\ Len(printed) > 0 /\ executing # "no"
  BY DEF PrintReturn, IInv, TypeOK, PrintReturns, Printing
<1>2. /\ depth' = 0 /\ printing' \in {"no", "return"}
      /\ depth = 0 => printing' = "no" /\ routers' = routers
      /\ depth = 1 => enabled /\ printing' = printing /\ routers' = SetFirst(routers, TRUE)
  <2>1. CASE depth = 0
    BY <1>1, <2>1 DEF PrintReturn
  <2>2. CASE depth = 1
    <3>1. enabled = TRUE
      BY <2>2 DEF IInv, Printing, TypeOK
    <3>2. depth' = depth - 1 /\ routers' = Activate(routers) /\ printing' = printing
      BY <2>2, <3>1 DEF PrintReturn
    <3> QED BY <1>1, <2>2, <3>1, <3>2 DEF Activate
  <2> QED BY <1>1, <2>1, <2>2
<1>3. Shown' = Shown /\ Captured' = Captured
  BY <1>1, <1>2 DEF Shown, Captured
<1>4. routers' \in Seq(Router) /\ Len(routers') = Len(routers) /\ ListInv'
  <2>1. CASE depth = 0
    BY <1>1, <1>2, <2>1 DEF IInv, TypeOK, ListInv, Capturing
  <2>2. CASE depth = 1
    <3>1. Shaped(routers) /\ TopActive(routers, FALSE) /\ routers \in Seq(Router)
      BY <2>2 DEF IInv, ListInv, Capturing, TypeOK, TopActive
    <3>2. Len(routers) > 1
      BY <1>2, <2>2 DEF IInv, Printing
    <3>3. /\ routers' \in Seq(Router) /\ Len(routers') = Len(routers) /\ Shaped(routers')
          /\ TopActive(routers', TRUE)
      BY <1>2, <2>2, <3>1, <3>2, SetFirstShape
    <3>4. Capturing' = TRUE
      BY <1>1, <1>2, <2>2 DEF Capturing, IInv, TypeOK
    <3> QED BY <3>3, <3>4 DEF ListInv
  <2> QED BY <1>1, <2>1, <2>2
<1>5. TypeOK'
  BY <1>1, <1>2, <1>4 DEF IInv, TypeOK
<1>6. Executing' /\ Printing' /\ PrintReturns' /\ PastIsPast' /\ QueryReturnsItsOutput' /\ OnScreen'
  <2>1. Executing' /\ Printing' /\ PrintReturns'
    BY <1>1, <1>2 DEF IInv, Executing, Printing, PrintReturns
  <2>2. PastIsPast' /\ QueryReturnsItsOutput' /\ OnScreen'
    BY <1>1, <1>3 DEF IInv, PastIsPast, QueryReturnsItsOutput, OnScreen
  <2> QED BY <2>1, <2>2
<1>7. Buffered'
  BY <1>1, <1>3 DEF IInv, Buffered, Ascending, HoldsAll
<1> QED BY <1>4, <1>5, <1>6, <1>7 DEF IInv

\* The query ends with all it printed.
LEMMA FinishKeeps ==
    ASSUME IInv, FinishQuery
    PROVE  IInv'
<1>1. /\ UNCHANGED <<registered, screen, printing, depth, request, printed>>
      /\ executing = "query" /\ executing' = "no" /\ buffer' = <<>>
      /\ enabled' = FALSE /\ routers' = SetFirst(routers, FALSE) /\ printing = "no" /\ depth = 0
      /\ request \in 1 .. MaxRequests
  BY DEF FinishQuery, Disable, Deactivate, AfterRead, IInv, Executing, Printing, PrintReturns, TypeOK
<1>2. /\ routers' \in Seq(Router) /\ Len(routers') = Len(routers) /\ Shaped(routers')
      /\ TopActive(routers', FALSE)
  BY <1>1, SetFirstShape DEF IInv, TypeOK, ListInv
<1>3. Captured = Len(printed) /\ Captured' = Captured /\ Shown' = Shown
  BY <1>1 DEF Captured, Shown
<1>4. ListInv'
  <2>1. ~Capturing'
    BY <1>1 DEF Capturing
  <2> QED BY <1>2, <2>1 DEF ListInv, TopActive
<1>5. PICK b \in BOOLEAN :
          results' = [results EXCEPT ![request] = [done |-> TRUE, success |-> b, output |-> buffer]]
  <2>1. PICK steps \in {0, 1} :
            results' = [results EXCEPT ![request] =
                          [done |-> TRUE, success |-> steps > 0, output |-> buffer]]
    BY DEF FinishQuery
  <2>2. (steps > 0) \in BOOLEAN
    OBVIOUS
  <2> QED BY <2>1, <2>2, Zenon
<1>6. TypeOK'
  <2> DEFINE Result == [done : BOOLEAN, success : BOOLEAN, output : Seq(Strings)]
             x == [done |-> TRUE, success |-> b, output |-> buffer]
  <2>0. x \in Result
    BY DEF IInv, TypeOK
  <2> HIDE DEF x
  <2>1. results' \in [1 .. MaxRequests -> Result]
    <3>1. results \in [1 .. MaxRequests -> Result] /\ results' = [results EXCEPT ![request] = x]
      BY <1>5 DEF IInv, TypeOK, x
    <3> HIDE DEF Result
    <3> QED BY <2>0, <3>1
  <2> HIDE DEF Result
  <2>2. buffer' \in Seq(Strings) /\ enabled' \in BOOLEAN
    BY <1>1, EmptySeq
  <2> QED BY <1>1, <1>2, <2>1, <2>2 DEF IInv, TypeOK, Result
<1>7. Executing' /\ Printing' /\ Buffered'
  BY <1>1 DEF IInv, Executing, Printing, Buffered, Ascending
<1>8. /\ results'[request].output = buffer /\ results'[request].done
      /\ \A n \in 1 .. MaxRequests : n # request => results'[n] = results[n]
  BY <1>1, <1>5 DEF IInv, TypeOK
<1>9. PastIsPast'
  BY <1>1, <1>8 DEF IInv, PastIsPast
<1>10. PrintReturns' /\ OnScreen'
  BY <1>1, <1>3 DEF IInv, PrintReturns, OnScreen
<1>11. QueryReturnsItsOutput'
  <2>1. Ascending(buffer) /\ HoldsAll(buffer, request)
    BY <1>1 DEF IInv, Buffered
  <2>2. DOMAIN printed = 1 .. Captured
    BY <1>3, LenProperties DEF IInv, TypeOK
  <2> QED BY <1>1, <1>8, <2>1, <2>2 DEF IInv, QueryReturnsItsOutput, Ascending, HoldsAll
<1> QED BY <1>4, <1>6, <1>7, <1>9, <1>10, <1>11 DEF IInv

LEMMA NextKeeps == IInv /\ [Next]_vars => IInv'
<1> SUFFICES ASSUME IInv, [Next]_vars PROVE IInv'
  OBVIOUS
<1>1. CASE Query \/ RejectQuery
  <2>1. NewRequest /\ Enable /\ executing' \in {"no", "query"}
    BY <1>1 DEF Query, RejectQuery, NewRequest
  <2> QED BY <2>1, EnableKeeps, RequestKeeps
<1>2. CASE Raw
  BY <1>2, RawKeeps
<1>3. CASE PrintString
  BY <1>3, PrintStringKeeps
<1>4. CASE PrintFunction
  BY <1>4, PrintFunctionKeeps
<1>5. CASE PrintFile
  BY <1>5, PrintFileKeeps
<1>6. CASE PrintReturn
  BY <1>6, PrintReturnKeeps
<1>7. CASE FinishQuery
  BY <1>7, FinishKeeps
<1>8. CASE FinishRaw
  <2>1. /\ executing = "raw" /\ executing' = "no" /\ printing = "no" /\ depth = 0
        /\ UNCHANGED <<routers, registered, enabled, buffer, screen, printing, depth, request,
                       printed, results>>
    BY <1>8 DEF FinishRaw, IInv, Printing, PrintReturns, TypeOK
  <2>2. TypeOK'
    BY <2>1 DEF IInv, TypeOK
  <2>3. ListInv' /\ Executing' /\ Printing' /\ OnScreen'
    BY <2>1 DEF IInv, ListInv, Capturing, Executing, Printing, OnScreen, Shown
  <2>4. Buffered'
    BY <2>1 DEF IInv, Buffered, Ascending, Captured
  <2>5. PastIsPast' /\ PrintReturns' /\ QueryReturnsItsOutput'
    BY <2>1 DEF IInv, PastIsPast, PrintReturns, QueryReturnsItsOutput
  <2> QED BY <2>2, <2>3, <2>4, <2>5 DEF IInv
<1>9. CASE UNCHANGED vars
  BY <1>9 DEF vars, IInv, TypeOK, ListInv, Capturing, Executing, Printing, OnScreen, Shown, Buffered,
              Captured, Ascending, HoldsAll, PastIsPast, PrintReturns, QueryReturnsItsOutput
<1> QED BY <1>1, <1>2, <1>3, <1>4, <1>5, <1>6, <1>7, <1>8, <1>9 DEF Next

LEMMA Invariance == Spec => []IInv
<1>1. Init => IInv
  <2> SUFFICES ASSUME Init PROVE IInv
    OBVIOUS
  <2>1. routers \in Seq(Router) /\ Len(routers) = 1 /\ routers[1] = [name |-> "fileio", active |-> TRUE]
    <3>1. [name |-> "fileio", active |-> TRUE] \in Router
      BY DEF Router
    <3> QED BY <3>1 DEF Init
  <2>2. /\ registered = FALSE /\ enabled = FALSE /\ printing = "no" /\ depth = 0 /\ executing = "no"
        /\ buffer = <<>> /\ screen = <<>> /\ printed = <<>> /\ request = 0
    BY DEF Init
  <2>3. TypeOK
    <3>1. NoResult \in [done : BOOLEAN, success : BOOLEAN, output : Seq(Strings)]
      BY DEF NoResult
    <3>2. results \in [1 .. MaxRequests ->
                         [done : BOOLEAN, success : BOOLEAN, output : Seq(Strings)]]
      BY <3>1 DEF Init
    <3>3. buffer \in Seq(Strings) /\ screen \in Seq(Strings) /\ printed \in Seq(1 .. MaxRequests)
      BY <2>2, EmptySeq
    <3>4. Len(routers) <= request + 1 /\ request \in 0 .. MaxRequests /\ depth \in 0 .. 2
      BY <2>1, <2>2
    <3> QED BY <2>1, <2>2, <3>2, <3>3, <3>4 DEF TypeOK
  <2>4. ListInv
    BY <2>1, <2>2 DEF ListInv, Shaped, TopActive, Capturing
  <2>5. Executing /\ Printing /\ PrintReturns /\ Buffered /\ OnScreen
    BY <2>2 DEF Executing, Printing, PrintReturns, Buffered, Ascending, OnScreen, Shown
  <2>6. PastIsPast /\ QueryReturnsItsOutput
    BY DEF Init, PastIsPast, QueryReturnsItsOutput, NoResult
  <2> QED BY <2>3, <2>4, <2>5, <2>6 DEF IInv
<1> QED BY <1>1, NextKeeps, PTL DEF Spec

-----------------------------------------------------------------------------
\* The router list, the buffer and the results stay well typed: the list holds at
\* most one query router per request.
THEOREM TypeCorrect == Spec => []TypeOK
BY Invariance, PTL DEF IInv

\* Every print returns, however many routers of one name are in the list.
THEOREM PrintsReturn == Spec => []PrintReturns
BY Invariance, PTL DEF IInv

\* Whatever routers enable(), disable() and printFunction() put in front of the
\* terminal and activate, each print finds its way to it and is shown once, in order.
THEOREM TerminalShowsAll == Spec => []NothingSwallowed
<1>1. IInv => NothingSwallowed
  <2> SUFFICES ASSUME IInv, printing = "no" PROVE screen = [i \in DOMAIN printed |-> i]
    BY DEF NothingSwallowed
  <2>1. Shown = Len(printed) /\ DOMAIN printed = 1 .. Len(printed)
    BY LenProperties DEF Shown, IInv, TypeOK
  <2> QED BY <2>1 DEF IInv, OnScreen
<1> QED BY <1>1, Invariance, PTL

\* A query returns what it printed: nothing is lost between enabling and reading.
THEOREM QueriesReturnTheirOutput == Spec => []QueryReturnsItsOutput
BY Invariance, PTL DEF IInv
=============================================================================
