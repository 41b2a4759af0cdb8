------------------------------ MODULE Routing ------------------------------
(***************************************************************************)
(* The cost router (crates/divan-daemon/src/router.rs): the rules, and the *)
(* agent they pick for a task.  An agent id is its rank among the ids.     *)
(*                                                                         *)
(* A condition is the set of what satisfies it.  A match condition that is *)
(* left out accepts everything; a preference or an exclusion that is left  *)
(* out accepts nothing.                                                    *)
(***************************************************************************)
EXTENDS Integers, FiniteSets, FiniteSetsExt

CONSTANTS
  Agents,         \* agent ids
  Unregistered    \* the card of an agent without one

\* Number 0 is nobody.
ASSUME AgentsAssumption == Agents \subseteq Nat \ {0} /\ IsFiniteSet(Agents)

CostClasses == 1 .. 5
Tools == {"claude", "codex", "copilot", "agy", "opencode"}
TaskKinds == {"plan", "research", "implement", "test", "review", "analyze", "report"}
Capabilities == {"read", "write", "spawn", "kill", "delegate", "broadcast"}

Card == [tool : Tools, cost : CostClasses, skills : SUBSET {"implement", "test", "review"},
         multiTurn : BOOLEAN, caps : SUBSET Capabilities]

ASSUME CardAssumption == Unregistered \notin Card

\* The cost classes an operator and a number stand for.
CostMatches(op, n) ==
  {v \in CostClasses : \/ op = "<=" /\ v <= n
                       \/ op = ">=" /\ v >= n
                       \/ op = "<" /\ v < n
                       \/ op = ">" /\ v > n
                       \/ op = "=" /\ v = n}

\* `match: {}`, without preferences and exclusions.
AnyTask == [kinds |-> TaskKinds, multiTurn |-> BOOLEAN,
            cost |-> {}, skills |-> {}, otherVendor |-> FALSE,
            noTools |-> {}, noTurns |-> {}]

\* DEFAULT_RULES_YAML, which is what the daemon runs with.
Rules ==
  << [AnyTask EXCEPT !.kinds = {"test"}, !.cost = CostMatches("<=", 2)],
     [AnyTask EXCEPT !.kinds = {"review"}, !.skills = {"review"}, !.otherVendor = TRUE],
     [AnyTask EXCEPT !.kinds = {"plan"}, !.cost = CostMatches(">=", 4)],
     [AnyTask EXCEPT !.multiTurn = {TRUE}, !.noTools = {"agy"}] >>

\* The rules that apply to a task [kind, multiTurn].
Matched(task) ==
  {i \in DOMAIN Rules : task.kind \in Rules[i].kinds /\ task.multiTurn \in Rules[i].multiTurn}

\* The hard filters: turns first, then the exclusions of the rules.
Eligible(card, task, candidates) ==
  {c \in candidates :
     /\ task.multiTurn => card[c].multiTurn
     /\ \A i \in Matched(task) :
          card[c].tool \notin Rules[i].noTools /\ card[c].multiTurn \notin Rules[i].noTurns}

\* What one rule is worth to an agent.  author is a card, or Unregistered.
\* Mutant: another vendor counts no more than a skill.
PointsEven(rule, c, author) ==
  (IF c.cost \in rule.cost THEN 2 ELSE 0)
  + (IF c.skills \cap rule.skills # {} THEN 2 ELSE 0)
  + (IF ~ rule.otherVendor \/ author = Unregistered THEN 0
     ELSE IF c.tool # author.tool THEN 1 ELSE -1)
Points(rule, c, author) ==
  (IF c.cost \in rule.cost THEN 2 ELSE 0)
  + (IF c.skills \cap rule.skills # {} THEN 2 ELSE 0)
  + (IF ~ rule.otherVendor \/ author = Unregistered THEN 0
     ELSE IF c.tool # author.tool THEN 3 ELSE -3)

Score(c, task, author) ==
  MapThenSumSet(LAMBDA i : Points(Rules[i], c, author), Matched(task))

\* The order of max_by: score, then turns, then the cheaper, then the smaller id.
Outranks(card, task, author, a, b) ==
  LET sa == Score(card[a], task, author)
      sb == Score(card[b], task, author)
  IN  \/ sa > sb
      \/ sa = sb /\ \/ card[a].multiTurn /\ ~ card[b].multiTurn
                    \/ /\ card[a].multiTurn = card[b].multiTurn
                       /\ \/ card[a].cost < card[b].cost
                          \/ card[a].cost = card[b].cost /\ a < b

\* CostRouter::pick: the winner, or nobody if no candidate is eligible.
Pick(card, task, candidates, author) ==
  LET pool == Eligible(card, task, candidates)
  IN  {a \in pool : \A b \in pool \ {a} : Outranks(card, task, author, a, b)}
=============================================================================
