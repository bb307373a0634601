----------------------------- MODULE JoinNetwork -----------------------------
(***************************************************************************)
(* The join network of the CLIPS 6.0 engine: how a rule is compiled into   *)
(* joins that are shared with the rules before it (rulebld.c), how a fact  *)
(* that is asserted is driven through them (factmch.c, drive.c), how one   *)
(* that is retracted is taken out again (retract.c), how a rule defined    *)
(* while there are facts is brought up to date (incrrset.c) and how one is *)
(* removed (ruledlt.c).                                                    *)
(*                                                                         *)
(* A fact is a tuple of strings, its relation first.  A pattern is such a  *)
(* tuple in which a field may be a variable, each at most once.  The       *)
(* conditional elements of a rule are patterns, negated patterns and       *)
(* negated groups, nested at will; the first of a rule and of a group is   *)
(* a pattern, as CLIPS puts (initial-fact) there when it is not.  Slots,   *)
(* multifields, test and logical CEs, objects and salience are left out:   *)
(* what is on the agenda is the set of partial matches that have an        *)
(* activation.                                                             *)
(***************************************************************************)
EXTENDS Naturals, Sequences, FiniteSets, SequencesExt, TLC

CONSTANTS Facts,      \* the facts that may be asserted
          Rules,      \* the rules that may be defined
          LHS,        \* the conditional elements of each rule
          Variables,  \* the strings that are variables
          NoRule

VARIABLES rete,       \* the pattern and join networks and their memories
          wm,         \* the fact list, oldest first
          lastJoin    \* the last join of each rule, 0 while it is not defined

vars == <<rete, wm, lastJoin>>

------------------------------------------------------------------------------
(* Conditional elements, and the flat list rulebld.c works on.             *)

Pat(p)    == [kind |-> "pattern", pattern |-> p, ces |-> <<>>]
Not(p)    == [kind |-> "not", pattern |-> p, ces |-> <<>>]
NotAnd(s) == [kind |-> "notand", pattern |-> <<>>, ces |-> s]

(* The patterns in order, with the not/and depth at which each begins and  *)
(* the depth that is left after it.                                        *)
RECURSIVE NandDepths(_, _)
NandDepths(ces, d) ==
  IF ces = <<>> THEN <<>>
  ELSE LET c == Head(ces)
           group == NandDepths(c.ces, d + 1)
       IN  (IF c.kind = "notand"
              THEN [group EXCEPT ![Len(group)].endDepth = d]
              ELSE <<[pattern |-> c.pattern, negated |-> c.kind = "not",
                      beginDepth |-> d, endDepth |-> d]>>)
           \o NandDepths(Tail(ces), d)

(* The pattern node that tests the constants of a pattern, and the join    *)
(* expression that compares its variables with those of the patterns       *)
(* before it in scope: a set of <<position, field there, field here>>.     *)
KeyOf(p)       == [i \in DOMAIN p |-> IF p[i] \in Variables THEN "_" ELSE p[i]]
Accepts(k, f)  == Len(k) = Len(f) /\ \A i \in DOMAIN k : k[i] \in {"_", f[i]}
NetworkTest(scope, p) ==
  { t \in UNION { {k} \X (DOMAIN scope[k]) \X (DOMAIN p) : k \in DOMAIN scope } :
      p[t[3]] \in Variables /\ scope[t[1]][t[2]] = p[t[3]] }

------------------------------------------------------------------------------
(* Partial matches.  A cell of one is a fact, the pseudo-fact of a not CE  *)
(* that is satisfied, or what blocks a not CE.  "blocked" is counterf,     *)
(* "act" says that the match has an activation.                            *)

Fact(f)      == <<"fact", f>>
Nid(j, b)    == <<"nid", j, b>>
Blocker(ref) == <<"blocker", ref>>
PM(b, blocked, act) == [b |-> b, blocked |-> blocked, act |-> act]

IsNot(s, j)     == s.joins[j].negated \/ s.joins[j].right # 0
Activates(s, j) == s.joins[j].rule # NoRule

(* A partial match is a structure with an address: its reference stays the *)
(* same when the slot of its own not CE is overwritten.                    *)
Prefix(s, j, pm) == IF IsNot(s, j) THEN Front(pm.b) ELSE pm.b
BetaRef(s, j, pm) == <<"beta", j, Prefix(s, j, pm)>>
Opposite(s, j) == IF s.joins[j].right # 0 THEN s.beta[s.joins[j].right]
                                          ELSE s.alpha[s.joins[j].key]
OppositeRef(s, j, rhs) ==
  IF s.joins[j].right # 0 THEN BetaRef(s, s.joins[j].right, rhs) ELSE rhs.b[1]

(* EvaluateJoinExpression, and the comparison of a nand join, which has no *)
(* expression: the match from the right extends the one from the left.     *)
Consistent(s, j, b, rhs) ==
  IF s.joins[j].right # 0 THEN IsPrefix(b, rhs.b)
  ELSE \A t \in s.joins[j].test : b[t[1]][2][t[2]] = rhs.b[1][2][t[3]]

(* During an incremental reset only the joins of the new rule are driven.  *)
Skipped(s, j) == s.inc /\ ~s.joins[j].init

Each(s, seq, Op(_, _)) == FoldLeft(Op, s, seq)
Indices(seq) == [i \in DOMAIN seq |-> i]

------------------------------------------------------------------------------
(* drive.c and retract.c                                                   *)

RECURSIVE DriveLHS(_, _, _), DriveRHS(_, _, _, _),
          PosEntryRetract(_, _, _, _, _), NegEntryRetract(_, _, _, _)

(* A match that is new in join j goes on to the joins below it.            *)
SendDown(s, pm, j) ==
  IF s.joins[j].up # 0
    THEN DriveRHS(s, pm, BetaRef(s, j, pm), s.joins[j].up)
    ELSE Each(s, s.joins[j].next, LAMBDA z, k : DriveLHS(z, pm, k))

(* A match of a positive join is stored, activated and sent down.          *)
PPDrive(s, b, j) ==
  LET pm == PM(b, FALSE, Activates(s, j))
  IN  SendDown([s EXCEPT !.beta[j] = <<pm>> \o @], pm, j)

(* The not CE of match i of join j is satisfied.                           *)
Satisfied(s, j, i) ==
  LET b == Front(s.beta[j][i].b) IN PM(Append(b, Nid(j, b)), FALSE, Activates(s, j))

PNLDrive(s, j, i) ==
  LET pm == Satisfied(s, j, i) IN SendDown([s EXCEPT !.beta[j][i] = pm], pm, j)

(* The not CE of match i of join j, satisfied until now, is blocked.       *)
PNRDrive(s, j, i, ref) ==
  LET pm  == s.beta[j][i]
      off == [s EXCEPT !.beta[j][i].blocked = TRUE, !.beta[j][i].act = FALSE]
      below ==
        IF s.joins[j].up # 0
          THEN NegEntryRetract(off, s.joins[j].up, BetaRef(s, j, pm), FALSE)
          ELSE Each(off, s.joins[j].next, LAMBDA z, k :
                 PosEntryRetract(z, k, Last(pm.b), s.joins[j].depth, FALSE))
  IN  IF pm.blocked THEN s
      ELSE [below EXCEPT !.beta[j][i].b[s.joins[j].depth] = Blocker(ref)]

DriveLHS(s, pm, j) ==
  LET opposite == Opposite(s, j)
      hit == SelectInSeq(opposite, LAMBDA rhs : Consistent(s, j, pm.b, rhs))
      new == PM(Append(pm.b, Blocker(IF hit = 0 THEN <<>>
                               ELSE OppositeRef(s, j, opposite[hit]))), TRUE, FALSE)
      stored == [s EXCEPT !.beta[j] = <<new>> \o @]
  IN  IF Skipped(s, j) THEN s
      ELSE IF ~IsNot(s, j)
        THEN Each(s, opposite, LAMBDA z, rhs :
               IF Consistent(z, j, pm.b, rhs) THEN PPDrive(z, pm.b \o rhs.b, j) ELSE z)
      ELSE IF hit = 0 THEN PNLDrive(stored, j, 1) ELSE stored

DriveRHS(s, rhs, ref, j) ==
  IF Skipped(s, j) THEN s
  ELSE IF s.joins[j].last = 0 THEN PPDrive(s, rhs.b, j)
  ELSE IF IsNot(s, j)
    THEN Each(s, Indices(s.beta[j]), LAMBDA z, i :
           IF Consistent(z, j, Front(z.beta[j][i].b), rhs)
             THEN PNRDrive(z, j, i, ref) ELSE z)
  ELSE Each(s, s.beta[s.joins[j].last], LAMBDA z, lhs :
         IF ~lhs.blocked /\ Consistent(z, j, lhs.b, rhs)
           THEN PPDrive(z, lhs.b \o rhs.b, j) ELSE z)

(* The matches of join j that hold the given item at the given position    *)
(* are removed from it and from the joins below.                           *)
PosEntryRetract(s, j, cell, position, duringRetract) ==
  LET Holds(pm) == /\ ~(pm.blocked /\ position = Len(pm.b))
                   /\ pm.b[position] = cell
      deleted == SelectSeq(s.beta[j], Holds)
      rest == [s EXCEPT !.beta[j] = SelectSeq(@, LAMBDA pm : ~Holds(pm))]
  IN  IF deleted = <<>> THEN s
      ELSE IF s.joins[j].up # 0
        THEN Each(rest, deleted, LAMBDA z, pm :
               NegEntryRetract(z, s.joins[j].up, BetaRef(s, j, pm), duringRetract))
        ELSE Each(rest, s.joins[j].next, LAMBDA z, k :
               PosEntryRetract(z, k, cell, position, duringRetract))

\* Mutant: the search skips one too many.
FindAfterNext(s, j, b, ref) ==
  LET after == SelectInSeq(Opposite(s, j), LAMBDA rhs : OppositeRef(s, j, rhs) = ref)
  IN  SelectInSubSeq(Opposite(s, j), after + 2, Len(Opposite(s, j)),
                     LAMBDA rhs : ~rhs.blocked /\ Consistent(s, j, b, rhs))

(* The first match after the given one that blocks match b of join j.  The *)
(* search goes on where it was in an alpha memory, and starts over in the  *)
(* beta memory of a join.                                                  *)
FindNextConflictingAlphaMatch(s, j, b, ref) ==
  LET after == IF s.joins[j].right # 0 THEN 0
               ELSE SelectInSeq(Opposite(s, j), LAMBDA rhs : rhs.b[1] = ref)
  IN  SelectInSubSeq(Opposite(s, j), after + 1, Len(Opposite(s, j)),
                     LAMBDA rhs : ~rhs.blocked /\ Consistent(s, j, b, rhs))

(* The match ref from the right is gone: what it blocked in join j gets    *)
(* another blocker or is satisfied.  A match that is satisfied while a     *)
(* fact is being retracted is driven to the joins below when that is done. *)
NegEntryRetract(s, j, ref, duringRetract) ==
  LET Unblock(z, i) ==
        LET pm == Satisfied(z, j, i)
            on == [z EXCEPT !.beta[j][i] = pm]
        IN  IF duringRetract /\ s.joins[j].up = 0
              THEN [on EXCEPT !.pending = <<[join |-> j, pm |-> pm]>> \o @]
              ELSE SendDown(on, pm, j)
      Step(z, i) ==
        LET pm   == z.beta[j][i]
            next == FindNextConflictingAlphaMatch(z, j, Front(pm.b), ref)
        IN  IF ~(pm.blocked /\ Last(pm.b) = Blocker(ref)) THEN z
            ELSE IF next = 0 THEN Unblock(z, i)
            ELSE [z EXCEPT !.beta[j][i].b[Len(pm.b)] =
                             Blocker(OppositeRef(z, j, Opposite(z, j)[next]))]
  IN  Each(s, Indices(s.beta[j]), Step)

(* The entries hold a pointer to the match: it is driven as it is now.     *)
DriveRetractions(s) ==
  LET Now(z, e) ==
        LET i == SelectInSeq(z.beta[e.join], LAMBDA pm :
                   BetaRef(z, e.join, pm) = BetaRef(z, e.join, e.pm))
        IN  IF i = 0 THEN e.pm ELSE z.beta[e.join][i]
      Entry(z, e) == Each(z, z.joins[e.join].next, LAMBDA y, k : DriveLHS(y, Now(y, e), k))
  IN  [Each(s, s.pending, Entry) EXCEPT !.pending = <<>>]

\* Mutant: one join of each pattern only.
RetractFirst(s, f) ==
  Each(s, s.list[f], LAMBDA z, k :
    LET j == Head(z.entry[k])
    IN  IF z.joins[j].negated THEN z ELSE PosEntryRetract(z, j, Fact(f), z.joins[j].depth, TRUE))

(* The patterns the fact matched, first in the joins it is matched by, ... *)
RetractPositive(s, f) ==
  Each(s, s.list[f], LAMBDA z, k :
    Each(z, z.entry[k], LAMBDA y, j :
      IF y.joins[j].negated THEN y
      ELSE PosEntryRetract(y, j, Fact(f), y.joins[j].depth, TRUE)))

(* ... then in those it blocks, before it leaves the alpha memory.         *)
RetractNegative(s, f) ==
  LET Negative(z, k) == Each(z, z.entry[k], LAMBDA y, j :
        IF y.joins[j].negated THEN NegEntryRetract(y, j, Fact(f), TRUE) ELSE y)
      Forget(z, k) == [z EXCEPT !.alpha[k] = SelectSeq(@, LAMBDA pm : pm.b[1] # Fact(f))]
  IN  Each(s, s.list[f], LAMBDA z, k : Forget(Negative(z, k), k))

NetworkRetract(s, f) ==
  [DriveRetractions(RetractNegative(RetractPositive(s, f), f)) EXCEPT !.list[f] = <<>>]

(* factmch.c: the fact is compared with the pattern nodes in nodes.        *)
FactPatternMatch(s, f, nodes) ==
  LET pm == PM(<<Fact(f)>>, FALSE, FALSE)
      ProcessFactAlphaMatch(z, k) ==
        Each([z EXCEPT !.alpha[k] = Append(@, pm), !.list[f] = <<k>> \o @],
             z.entry[k], LAMBDA y, j : DriveRHS(y, pm, Fact(f), j))
  IN  Each(s, SelectSeq(s.keys, LAMBDA k : k \in nodes /\ Accepts(k, f)),
           ProcessFactAlphaMatch)

------------------------------------------------------------------------------
(* rulebld.c: the joins of a rule.  c is the state of constructJoins: the  *)
(* last join, whether joins may still be shared, the current depth, the    *)
(* joins to reconnect to and the patterns bound at each position.          *)

NewId(s) == Min((1..Cardinality(DOMAIN s.joins) + 1) \ DOMAIN s.joins)

FindPatternNode(s, k) ==
  IF k \in DOMAIN s.alpha THEN s
  ELSE [s EXCEPT !.keys = <<k>> \o @, !.alpha = @ @@ (k :> <<>>),
                 !.entry = @ @@ (k :> <<>>), !.fresh = @ \union {k}]

CreateNewJoin(s, k, test, negated, last, right) ==
  LET id == NewId(s)
      linked == [s EXCEPT !.joins = @ @@ (id :>
                   [key |-> k, test |-> test, negated |-> negated, last |-> last,
                    right |-> right, next |-> <<>>, up |-> 0, rule |-> NoRule,
                    depth |-> IF last = 0 THEN 1 ELSE s.joins[last].depth + 1,
                    init |-> TRUE]),
                          !.beta = @ @@ (id :> <<>>)]
      below == IF last = 0 THEN linked
               ELSE [linked EXCEPT !.joins[last].next = <<id>> \o @]
  IN  IF right # 0 THEN [below EXCEPT !.joins[right].up = id]
                   ELSE [below EXCEPT !.entry[k] = <<id>> \o @]

(* The first join in the list of joins below j, or the one it enters from  *)
(* the right.                                                              *)
NextLevel(s, j) == IF s.joins[j].up # 0 THEN s.joins[j].up
                   ELSE IF s.joins[j].next = <<>> THEN 0 ELSE Head(s.joins[j].next)

(* The join reached from j over the joins from the right that close the    *)
(* groups from depth d down to endDepth, 0 when they are not the same.     *)
RECURSIVE Closing(_, _, _, _, _)
Closing(s, j, d, endDepth, reconnect) ==
  IF d = endDepth THEN j
  ELSE LET n == NextLevel(s, j)
       IN  IF n = 0 \/ s.joins[n].right = 0 \/ s.joins[n].last # reconnect[d - 1] THEN 0
           ELSE Closing(s, n, d - 1, endDepth, reconnect)

TestJoinForReuse(c, j, ce, test, lastIteration) ==
  LET s == c.s
      end == Closing(s, j, ce.beginDepth, ce.endDepth, c.reconnect)
  IN  /\ (s.joins[j].last = 0) = (c.last = 0)
      /\ s.joins[j].negated = ce.negated
      /\ s.joins[j].test = test
      /\ end # 0
      /\ lastIteration => s.joins[end].rule = NoRule /\ s.beta[end] = <<>>
      /\ ~lastIteration => s.joins[end].up = 0

(* The groups that end with a pattern are closed, innermost first.         *)
RECURSIVE CloseGroups(_, _)
CloseGroups(c, endDepth) ==
  IF c.depth = endDepth THEN c
  ELSE LET below == NextLevel(c.s, c.last)
           share == c.reuse /\ below # 0
           back  == c.reconnect[c.depth - 1]
           s == IF share THEN c.s ELSE CreateNewJoin(c.s, <<>>, {}, FALSE, back, c.last)
       IN  CloseGroups([c EXCEPT !.s = s, !.reuse = share, !.depth = @ - 1,
                                 !.last = IF share THEN below ELSE NewId(c.s),
                                 !.reconnect = SubSeq(@, 1, c.depth - 2),
                                 !.scope = Append(SubSeq(@, 1, c.s.joins[back].depth), <<>>)],
                       endDepth)

AddPattern(c0, ce, lastIteration) ==
  LET k == KeyOf(ce.pattern)
      c == [c0 EXCEPT !.s = FindPatternNode(@, k), !.depth = ce.beginDepth,
                      !.reconnect = @ \o [i \in 1..(ce.beginDepth - c0.depth) |-> c0.last]]
      test == NetworkTest(c.scope, ce.pattern)
      listOfJoins == IF c.last = 0 THEN c.s.entry[k] ELSE c.s.joins[c.last].next
      i == SelectInSeq(listOfJoins, LAMBDA j :
             c.s.joins[j].key = k /\ TestJoinForReuse(c, j, ce, test, lastIteration))
      share == c.reuse /\ i # 0
      s == IF share THEN c.s ELSE CreateNewJoin(c.s, k, test, ce.negated, c.last, 0)
  IN  CloseGroups([c EXCEPT !.s = s, !.reuse = share,
                            !.last = IF share THEN listOfJoins[i] ELSE NewId(c.s),
                            !.scope = Append(@, IF ce.negated THEN <<>> ELSE ce.pattern)],
                  ce.endDepth)

ConstructJoins(s, r) ==
  LET ces == NandDepths(LHS[r], 1)
  IN  Each([s |-> s, last |-> 0, reuse |-> TRUE, depth |-> 1, reconnect |-> <<>>,
            scope |-> <<>>],
           Indices(ces), LAMBDA c, i : AddPattern(c, ces[i], i = Len(ces)))

------------------------------------------------------------------------------
(* incrrset.c: a new rule meets the facts there are.                       *)

GetPreviousJoin(s, j) == IF s.joins[j].right # 0 THEN s.joins[j].right ELSE s.joins[j].last

RECURSIVE JoinsOf(_, _)
JoinsOf(s, j) == IF j = 0 THEN <<>> ELSE <<j>> \o JoinsOf(s, GetPreviousJoin(s, j))

PrimeJoin(s, j) ==
  IF s.joins[j].last = 0
    THEN Each(s, s.alpha[s.joins[j].key], LAMBDA z, pm : DriveRHS(z, pm, pm.b[1], j))
  ELSE IF s.beta[j] # <<>> THEN s
  ELSE Each(s, s.beta[s.joins[j].last], LAMBDA z, pm : DriveLHS(z, pm, j))

\* Mutant: a new join below a shared one is not brought up to date.
PrimableFirst(s, j) == s.joins[j].init /\ s.joins[j].last = 0 /\ s.joins[j].key \notin s.fresh

Primable(s, j) == /\ s.joins[j].init
                  /\ IF s.joins[j].last = 0 THEN s.joins[j].key \notin s.fresh
                     ELSE ~s.joins[s.joins[j].last].init

IncrementalReset(s, r, last, facts) ==
  LET chain  == JoinsOf(s, last)
      primed == Each([s EXCEPT !.inc = TRUE], chain, LAMBDA z, j :
                  IF Primable(z, j) THEN PrimeJoin(z, j) ELSE z)
      filtered == Each(primed, facts, LAMBDA z, f : FactPatternMatch(z, f, z.fresh))
      marked == { chain[i] : i \in { n \in DOMAIN chain : s.joins[chain[n]].right = 0 } }
  IN  [filtered EXCEPT !.inc = FALSE, !.fresh = {},
                       !.joins = [j \in DOMAIN @ |->
                         IF j \in marked THEN [@[j] EXCEPT !.init = FALSE] ELSE @[j]]]

------------------------------------------------------------------------------
(* ruledlt.c: the joins only a removed rule used, from the last one up.    *)

Without(f, x) == [y \in DOMAIN f \ {x} |-> f[y]]

DetachPattern(s, k) ==
  IF s.entry[k] # <<>> THEN s
  ELSE [s EXCEPT !.keys = Remove(@, k), !.alpha = Without(@, k), !.entry = Without(@, k),
                 !.list = [f \in DOMAIN @ |-> Remove(@[f], k)]]

\* Mutant: the join above keeps its link.
RemoveLinked(s, j) ==
  LET jn == s.joins[j]
      unlinked == IF jn.right # 0 THEN [s EXCEPT !.joins[jn.right].up = 0]
                  ELSE DetachPattern([s EXCEPT !.entry[jn.key] = Remove(@, j)], jn.key)
  IN  [unlinked EXCEPT !.joins = Without(@, j), !.beta = Without(@, j)]

RemoveJoin(s, j) ==
  LET jn == s.joins[j]
      unlinked == IF jn.right # 0 THEN [s EXCEPT !.joins[jn.right].up = 0]
                  ELSE DetachPattern([s EXCEPT !.entry[jn.key] = Remove(@, j)], jn.key)
      above == IF jn.last = 0 THEN unlinked
               ELSE [unlinked EXCEPT !.joins[jn.last].next = Remove(@, j)]
  IN  [above EXCEPT !.joins = Without(@, j), !.beta = Without(@, j)]

RECURSIVE DetachJoins(_, _)
DetachJoins(s, j) ==
  IF j = 0 \/ s.joins[j].rule # NoRule \/ NextLevel(s, j) # 0 THEN s
  ELSE DetachJoins(RemoveJoin(s, j), GetPreviousJoin(s, j))

------------------------------------------------------------------------------
Defined == { r \in Rules : lastJoin[r] # 0 }

Init ==
  /\ rete = [joins |-> <<>>, keys |-> <<>>, entry |-> <<>>, alpha |-> <<>>, beta |-> <<>>,
             list |-> [f \in Facts |-> <<>>], pending |-> <<>>, fresh |-> {}, inc |-> FALSE]
  /\ wm = <<>>
  /\ lastJoin = [r \in Rules |-> 0]

AssertFact(f) ==
  /\ f \notin Range(wm)
  /\ wm' = Append(wm, f)
  /\ rete' = FactPatternMatch(rete, f, DOMAIN rete.alpha)
  /\ UNCHANGED lastJoin

RetractFact(f) ==
  /\ f \in Range(wm)
  /\ wm' = Remove(wm, f)
  /\ rete' = NetworkRetract(rete, f)
  /\ UNCHANGED lastJoin

Defrule(r) ==
  /\ r \notin Defined
  /\ LET c == ConstructJoins(rete, r)
     IN  /\ lastJoin' = [lastJoin EXCEPT ![r] = c.last]
         /\ rete' = IncrementalReset([c.s EXCEPT !.joins[c.last].rule = r], r, c.last, wm)
  /\ UNCHANGED wm

Undefrule(r) ==
  /\ r \in Defined
  /\ lastJoin' = [lastJoin EXCEPT ![r] = 0]
  /\ rete' = LET off == [rete EXCEPT !.joins[lastJoin[r]].rule = NoRule,
                          !.beta[lastJoin[r]] = [i \in DOMAIN @ |-> [@[i] EXCEPT !.act = FALSE]]]
             IN  DetachJoins(off, lastJoin[r])
  /\ UNCHANGED wm

Next == \/ \E f \in Facts : AssertFact(f) \/ RetractFact(f)
        \/ \E r \in Rules : Defrule(r) \/ Undefrule(r)

Spec == Init /\ [][Next]_vars

------------------------------------------------------------------------------
(* What a rule's LHS means, told from the facts alone.                     *)

NoFact == <<>>

(* The bindings of a match of the pattern, given those before it.          *)
Fits(p, f, env) ==
  /\ Len(p) = Len(f)
  /\ \A i \in DOMAIN p :
       f[i] = IF p[i] \notin Variables THEN p[i]
              ELSE IF p[i] \in DOMAIN env THEN env[p[i]] ELSE f[i]
Bind(p, f, env) == env @@ [v \in Range(p) \intersect Variables |->
                             f[CHOOSE i \in DOMAIN p : p[i] = v]]

RECURSIVE MatchesOf(_, _, _)
MatchesOf(ces, env, facts) ==
  IF ces = <<>> THEN {<<>>}
  ELSE LET c == Head(ces)
           fits == { f \in facts : Fits(c.pattern, f, env) }
           rest(e) == MatchesOf(Tail(ces), e, facts)
           absent == \/ c.kind = "not" /\ fits = {}
                     \/ c.kind = "notand" /\ MatchesOf(c.ces, env, facts) = {}
       IN  IF c.kind = "pattern"
             THEN UNION { { <<f>> \o m : m \in rest(Bind(c.pattern, f, env)) } : f \in fits }
           ELSE IF absent THEN { <<NoFact>> \o m : m \in rest(env) } ELSE {}

FactsOf(b) == [i \in DOMAIN b |-> IF b[i][1] = "fact" THEN b[i][2] ELSE NoFact]
Activations(r) == SelectSeq(rete.beta[lastJoin[r]], LAMBDA pm : pm.act)

(* The networks are linked both ways, every join stands below those it was *)
(* built on, and nothing is left over between two commands.                *)
TypeOK ==
  /\ wm \in Seq(Facts) /\ lastJoin \in [Rules -> {0} \union DOMAIN rete.joins]
  /\ DOMAIN rete.beta = DOMAIN rete.joins
  /\ DOMAIN rete.alpha = Range(rete.keys) /\ DOMAIN rete.entry = Range(rete.keys)
  /\ rete.pending = <<>> /\ rete.fresh = {} /\ ~rete.inc
  /\ \A j \in DOMAIN rete.joins :
       LET jn == rete.joins[j]
       IN  /\ Range(jn.next) = { k \in DOMAIN rete.joins : rete.joins[k].last = j }
           /\ jn.up # 0 => rete.joins[jn.up].right = j
           /\ jn.right = 0 => j \in Range(rete.entry[jn.key])
           /\ jn.rule # NoRule => lastJoin[jn.rule] = j

(* A rule is on the agenda once for every way its LHS holds in the facts,  *)
(* whatever order the facts and the rules came, went and were shared in.   *)
ActivationsAreMatches ==
  \A r \in Defined :
    /\ { FactsOf(Activations(r)[i].b) : i \in DOMAIN Activations(r) }
         = MatchesOf(LHS[r], <<>>, Range(wm))
    /\ Len(Activations(r)) = Cardinality(MatchesOf(LHS[r], <<>>, Range(wm)))

(* Every match that waits at a not CE is blocked by an item that is still  *)
(* there and does block it, the first such one of its alpha memory: the    *)
(* search for the next one starts behind it.                               *)
BlockersHold ==
  \A j \in DOMAIN rete.joins : IsNot(rete, j) => \A i \in DOMAIN rete.beta[j] :
    LET pm == rete.beta[j][i]
        opposite == Opposite(rete, j)
        hits == { n \in DOMAIN opposite : ~opposite[n].blocked
                                 /\ Consistent(rete, j, Front(pm.b), opposite[n]) }
    IN  /\ pm.blocked <=> hits # {}
        /\ pm.blocked => \E n \in hits :
             /\ Last(pm.b) = Blocker(OppositeRef(rete, j, opposite[n]))
             /\ rete.joins[j].right = 0 => n = Min(hits)

(* No partial match holds a fact that was retracted.                       *)
NoDeletedFact ==
  \A j \in DOMAIN rete.joins : \A i \in DOMAIN rete.beta[j] :
    \A n \in DOMAIN rete.beta[j][i].b :
      rete.beta[j][i].b[n][1] = "fact" => rete.beta[j][i].b[n][2] \in Range(wm)

==============================================================================
