--------------------------- MODULE AdmissionProofs ---------------------------
(***************************************************************************)
(* The properties of Admission, for any agents and cards, any runs and     *)
(* clients, any working directory and names of worktrees.                  *)
(***************************************************************************)
EXTENDS Admission, SequenceTheorems, FiniteSetTheorems, WellFoundedInduction, TLAPS

-----------------------------------------------------------------------------
(* The score of a reviewer.                                                *)

ReviewRule == [AnyTask EXCEPT !.kinds = {"review"}, !.skills = {"review"}, !.otherVendor = TRUE]

\* Of the rules only one is about reviews,
LEMMA ReviewRules ==
  /\ Matched(ReviewTask) = {2} /\ Rules[2] = ReviewRule
  /\ ReviewRule.cost = {} /\ ReviewRule.skills = {"review"} /\ ReviewRule.otherVendor = TRUE
  /\ ReviewRule.noTools = {} /\ ReviewRule.noTurns = {}
<1>1. /\ DOMAIN Rules = 1 .. 4 /\ Rules[2] = ReviewRule
      /\ Rules[1].kinds = {"test"} /\ Rules[2].kinds = {"review"} /\ Rules[3].kinds = {"plan"}
      /\ Rules[4].multiTurn = {TRUE} /\ Rules[2].multiTurn = BOOLEAN
  <2>1. PICK a : a = AnyTask
    OBVIOUS
  <2>2. PICK x : x = [a EXCEPT !.kinds = {"test"}, !.cost = CostMatches("<=", 2)]
    OBVIOUS
  <2>3. PICK y : y = [a EXCEPT !.kinds = {"plan"}, !.cost = CostMatches(">=", 4)]
    OBVIOUS
  <2>4. PICK z : z = [a EXCEPT !.multiTurn = {TRUE}, !.noTools = {"agy"}]
    OBVIOUS
  <2>5. Rules = <<x, ReviewRule, y, z>>
    BY <2>1, <2>2, <2>3, <2>4 DEF Rules, ReviewRule
  <2>6. /\ x.kinds = {"test"} /\ y.kinds = {"plan"} /\ z.multiTurn = {TRUE}
        /\ ReviewRule.kinds = {"review"} /\ ReviewRule.multiTurn = BOOLEAN
    BY <2>1, <2>2, <2>3, <2>4 DEF ReviewRule, AnyTask
  <2>7. DOMAIN <<x, ReviewRule, y, z>> = 1 .. 4
    OBVIOUS
  <2>8. /\ <<x, ReviewRule, y, z>>[1] = x /\ <<x, ReviewRule, y, z>>[2] = ReviewRule
        /\ <<x, ReviewRule, y, z>>[3] = y /\ <<x, ReviewRule, y, z>>[4] = z
    OBVIOUS
  <2> QED BY <2>5, <2>6, <2>7, <2>8
<1>2. ReviewTask.kind = "review" /\ ReviewTask.multiTurn = FALSE
  BY DEF ReviewTask
<1>3. 1 .. 4 = {1, 2, 3, 4}
  OBVIOUS
<1>4. FALSE \notin {TRUE} /\ FALSE \in BOOLEAN
  OBVIOUS
<1>5. Matched(ReviewTask) = {2}
  BY <1>1, <1>2, <1>3, <1>4 DEF Matched
<1>6. /\ ReviewRule.cost = {} /\ ReviewRule.skills = {"review"} /\ ReviewRule.otherVendor = TRUE
      /\ ReviewRule.noTools = {} /\ ReviewRule.noTurns = {}
  BY DEF ReviewRule, AnyTask
<1> QED BY <1>1, <1>5, <1>6

\* and the sum over it is what it is worth.
LEMMA ReviewScore ==
  ASSUME NEW c, NEW author
  PROVE  Score(c, ReviewTask, author) = Points(ReviewRule, c, author) + 0
<1> DEFINE f(i) == Points(Rules[i], c, author)
           IsSum(g) == g = [s \in SUBSET {2} |->
                              IF s = {} THEN 0
                              ELSE LET x == CHOOSE x \in s : TRUE IN f(x) + g[s \ {x}]]
           sum == CHOOSE iter : iter = [s \in SUBSET {2} |->
                              IF s = {} THEN 0
                              ELSE LET x == CHOOSE x \in s : TRUE IN f(x) + iter[s \ {x}]]
           h == [s \in SUBSET {2} |-> IF s = {} THEN 0 ELSE f(2) + 0]
<1>1. Score(c, ReviewTask, author) = sum[{2}]
  BY ReviewRules DEF Score, MapThenSumSet, MapThenFoldSet
<1>2. (CHOOSE x \in {2} : TRUE) = 2 /\ {2} \ {2} = {}
  OBVIOUS
<1>3. \A s \in SUBSET {2} : s = {} \/ s = {2}
  OBVIOUS
<1>4. IsSum(h)
  <2>1. ASSUME NEW s \in SUBSET {2}
        PROVE  h[s] = IF s = {} THEN 0
                      ELSE LET x == CHOOSE x \in s : TRUE IN f(x) + h[s \ {x}]
    <3>1. h[{}] = 0
      OBVIOUS
    <3>2. CASE s = {}
      BY <3>1, <3>2
    <3>3. CASE s = {2}
      <4>1. h[s] = f(2) + 0
        BY <3>3
      <4> HIDE DEF f, h
      <4> QED BY <1>2, <3>1, <3>3, <4>1
    <3> QED BY <1>3, <3>2, <3>3
  <2>2. h = [s \in SUBSET {2} |-> h[s]]
    OBVIOUS
  <2> HIDE DEF f, h
  <2> QED BY <2>1, <2>2
<1>5. IsSum(sum)
  <2> HIDE DEF h, f
  <2> QED BY <1>4
<1>6. sum[{2}] = f(2) + sum[{}] /\ sum[{}] = 0
  <2> HIDE DEF sum, f
  <2>1. \A s \in SUBSET {2} :
          sum[s] = IF s = {} THEN 0 ELSE LET x == CHOOSE x \in s : TRUE IN f(x) + sum[s \ {x}]
    BY <1>5
  <2>2. {} \in SUBSET {2} /\ {2} \in SUBSET {2} /\ {2} # {}
    OBVIOUS
  <2> QED BY <1>2, <2>1, <2>2
<1> HIDE DEF sum
<1> QED BY <1>1, <1>6, ReviewRules

Vendor(w, a) ==
  IF CardOf(w) = Unregistered THEN 0 ELSE IF card[a].tool # CardOf(w).tool THEN 3 ELSE -3
Skill(a) == IF "review" \in card[a].skills THEN 2 ELSE 0

LEMMA ReviewPoints ==
  ASSUME NEW w, NEW a
  PROVE  /\ Score(card[a], ReviewTask, CardOf(w)) = Skill(a) + Vendor(w, a)
         /\ Score(card[a], ReviewTask, CardOf(w)) \in Int
<1>1. Points(ReviewRule, card[a], CardOf(w)) = 0 + Skill(a) + Vendor(w, a)
  <2>1. card[a].cost \notin ReviewRule.cost
    BY ReviewRules
  <2>2. card[a].skills \cap ReviewRule.skills # {} <=> "review" \in card[a].skills
    BY ReviewRules
  <2> QED BY <2>1, <2>2, ReviewRules DEF Points, Skill, Vendor
<1>2. Skill(a) \in Int /\ Vendor(w, a) \in Int
  BY DEF Skill, Vendor
<1>3. PICK s, v : s = Skill(a) /\ v = Vendor(w, a)
  OBVIOUS
<1>4. Score(card[a], ReviewTask, CardOf(w)) = Points(ReviewRule, card[a], CardOf(w)) + 0
  BY ReviewScore
<1> QED BY <1>1, <1>2, <1>3, <1>4

-----------------------------------------------------------------------------
(* The order of reviewers.                                                 *)

Cards == [Agents -> Card \cup {Unregistered}]

LEMMA RegisteredAre ==
  ASSUME card \in Cards, NEW a \in Registered
  PROVE  /\ a \in Agents /\ a \in Nat \ {0} /\ card[a] \in Card /\ CardOf(a) = card[a]
         /\ card[a].cost \in CostClasses /\ card[a].multiTurn \in BOOLEAN /\ card[a].tool \in Tools
<1>1. a \in Agents /\ card[a] # Unregistered
  BY DEF Registered
<1>2. card[a] \in Card
  BY <1>1 DEF Cards
<1> QED BY <1>1, <1>2, AgentsAssumption DEF CardOf, Card

LEMMA AllEligible ==
  ASSUME NEW C
  PROVE  Eligible(card, ReviewTask, C) = C
<1>1. ReviewTask.multiTurn = FALSE
  BY DEF ReviewTask
<1>2. \A i \in Matched(ReviewTask) : Rules[i].noTools = {} /\ Rules[i].noTurns = {}
  BY ReviewRules
<1> QED BY <1>1, <1>2 DEF Eligible

Worth(w, a) == Skill(a) + Vendor(w, a)
Turns(a) == IF card[a].multiTurn THEN 1 ELSE 0

\* The order of max_by, by four numbers.
Above(w, a, b) ==
  \/ Worth(w, a) > Worth(w, b)
  \/ Worth(w, a) = Worth(w, b) /\ Turns(a) > Turns(b)
  \/ Worth(w, a) = Worth(w, b) /\ Turns(a) = Turns(b) /\ card[a].cost < card[b].cost
  \/ Worth(w, a) = Worth(w, b) /\ Turns(a) = Turns(b) /\ card[a].cost = card[b].cost /\ a < b

LEMMA Numbers ==
  ASSUME card \in Cards, NEW w, NEW a \in Registered
  PROVE  Worth(w, a) \in Int /\ Turns(a) \in Int /\ card[a].cost \in Int /\ a \in Int
<1>1. Skill(a) \in Int /\ Vendor(w, a) \in Int
  BY DEF Skill, Vendor
<1>2. card[a].cost \in CostClasses /\ a \in Nat
  BY RegisteredAre
<1> QED BY <1>1, <1>2 DEF Worth, Turns, CostClasses

LEMMA RankIs ==
  ASSUME card \in Cards, NEW w, NEW a \in Registered, NEW b \in Registered
  PROVE  Outranks(card, ReviewTask, CardOf(w), a, b) <=> Above(w, a, b)
<1>1. PICK x, y : x = Worth(w, a) /\ y = Worth(w, b)
  OBVIOUS
<1>2. /\ Score(card[a], ReviewTask, CardOf(w)) = x
      /\ Score(card[b], ReviewTask, CardOf(w)) = y
  BY <1>1, ReviewPoints DEF Worth
<1>3. card[a].multiTurn /\ ~ card[b].multiTurn <=> Turns(a) > Turns(b)
  BY DEF Turns
<1>4. card[a].multiTurn = card[b].multiTurn <=> Turns(a) = Turns(b)
  <2>1. card[a].multiTurn \in BOOLEAN /\ card[b].multiTurn \in BOOLEAN
    BY RegisteredAre
  <2>2. Turns(a) = Turns(b) <=> (card[a].multiTurn <=> card[b].multiTurn)
    BY DEF Turns
  <2>3. (card[a].multiTurn <=> card[b].multiTurn) <=> card[a].multiTurn = card[b].multiTurn
    BY <2>1
  <2> QED BY <2>2, <2>3
<1>5. Outranks(card, ReviewTask, CardOf(w), a, b) <=>
        \/ x > y
        \/ x = y /\ \/ Turns(a) > Turns(b)
                    \/ /\ Turns(a) = Turns(b)
                       /\ \/ card[a].cost < card[b].cost
                          \/ card[a].cost = card[b].cost /\ a < b
  BY <1>2, <1>3, <1>4 DEF Outranks
<1> QED BY <1>1, <1>5 DEF Above

\* It is a strict order in which any two agents compare.
LEMMA AboveOrder ==
  ASSUME card \in Cards, NEW w, NEW a \in Registered, NEW b \in Registered
  PROVE  /\ ~ (Above(w, a, b) /\ Above(w, b, a))
         /\ a # b => Above(w, a, b) \/ Above(w, b, a)
<1>1. /\ Worth(w, a) \in Int /\ Turns(a) \in Int /\ card[a].cost \in Int /\ a \in Int
      /\ Worth(w, b) \in Int /\ Turns(b) \in Int /\ card[b].cost \in Int /\ b \in Int
  BY Numbers
<1> QED BY <1>1 DEF Above

LEMMA AboveTransitive ==
  ASSUME card \in Cards, NEW w, NEW a \in Registered, NEW b \in Registered, NEW c \in Registered,
         Above(w, a, b), Above(w, b, c)
  PROVE  Above(w, a, c)
<1>1. /\ Worth(w, a) \in Int /\ Turns(a) \in Int /\ card[a].cost \in Int /\ a \in Int
      /\ Worth(w, b) \in Int /\ Turns(b) \in Int /\ card[b].cost \in Int /\ b \in Int
      /\ Worth(w, c) \in Int /\ Turns(c) \in Int /\ card[c].cost \in Int /\ c \in Int
  BY Numbers
<1> QED BY <1>1 DEF Above

LEMMA PickIs ==
  ASSUME card \in Cards, NEW w, NEW C \in SUBSET Registered
  PROVE  Pick(card, ReviewTask, C, CardOf(w)) = {a \in C : \A b \in C \ {a} : Above(w, a, b)}
<1>1. Eligible(card, ReviewTask, C) = C
  BY AllEligible
<1>2. \A a, b \in C : Outranks(card, ReviewTask, CardOf(w), a, b) <=> Above(w, a, b)
  BY RankIs
<1> QED BY <1>1, <1>2 DEF Pick

\* At most one is picked,
LEMMA PickUnique ==
  ASSUME card \in Cards, NEW w, NEW C \in SUBSET Registered,
         NEW a \in Pick(card, ReviewTask, C, CardOf(w))
  PROVE  a \in C /\ Pick(card, ReviewTask, C, CardOf(w)) = {a}
<1>1. Pick(card, ReviewTask, C, CardOf(w)) = {c \in C : \A b \in C \ {c} : Above(w, c, b)}
  BY PickIs
<1>2. a \in C /\ \A b \in C \ {a} : Above(w, a, b)
  BY <1>1
<1>3. ASSUME NEW b \in Pick(card, ReviewTask, C, CardOf(w)), b # a PROVE FALSE
  <2>1. b \in C /\ Above(w, a, b) /\ Above(w, b, a)
    BY <1>1, <1>2, <1>3
  <2> QED BY <1>2, <2>1, AboveOrder
<1> QED BY <1>2, <1>3

\* A set of numbers has a least one.
LEMMA LeastNumber ==
  ASSUME NEW T \in SUBSET Nat, T # {}
  PROVE  \E n \in T : \A m \in T : n <= m
<1> DEFINE R == OpToRel(<, Nat)
<1>1. IsWellFoundedOn(R, Nat)
  BY NatLessThanWellFounded
<1>2. \A x, y \in Nat : x < y => <<x, y>> \in R
  BY DEF OpToRel
<1> HIDE DEF R
<1>3. PICK n \in T : \A m \in T : ~ (<<m, n>> \in R)
  BY <1>1, WFMin
<1>4. ASSUME NEW m \in T PROVE n <= m
  <2>1. n \in Nat /\ m \in Nat
    OBVIOUS
  <2>2. ~ (m < n)
    BY <1>2, <1>3, <2>1, Zenon
  <2> QED BY <2>1, <2>2
<1> QED BY <1>4

\* and somebody is picked whenever there is somebody: agents are finitely many.
LEMMA SomebodyAbove ==
  ASSUME card \in Cards, NEW w, NEW C \in SUBSET Registered, C # {}
  PROVE  \E a \in C : \A b \in C \ {a} : Above(w, a, b)
<1> DEFINE Topped(S) == \E a \in S : \A b \in S \ {a} : Above(w, a, b)
           T == {n \in Nat : \E S \in SUBSET C : S # {} /\ Cardinality(S) = n /\ ~ Topped(S)}
<1> SUFFICES ASSUME ~ Topped(C) PROVE FALSE
  OBVIOUS
<1>0. ASSUME NEW S \in SUBSET C PROVE IsFiniteSet(S) /\ Cardinality(S) \in Nat
  <2>1. S \subseteq Agents
    BY DEF Registered
  <2>2. IsFiniteSet(S)
    BY <2>1, AgentsAssumption, FS_Subset
  <2> QED BY <2>2, FS_CardinalityType
<1>1. Cardinality(C) \in T
  BY <1>0
<1>2. PICK n \in T : \A m \in T : n <= m
  BY <1>1, LeastNumber
<1>3. PICK S \in SUBSET C : S # {} /\ Cardinality(S) = n /\ ~ Topped(S)
  OBVIOUS
<1>4. PICK x \in S : TRUE
  BY <1>3
<1>5. Cardinality(S \ {x}) = n - 1 /\ n \in Nat
  <2>1. IsFiniteSet(S)
    BY <1>0
  <2> QED BY <1>3, <1>4, <2>1, FS_RemoveElement
<1>6. CASE S \ {x} = {}
  BY <1>3, <1>4, <1>6
<1>7. CASE S \ {x} # {}
  <2>1. n - 1 \in Nat /\ ~ (n <= n - 1)
    <3>1. Cardinality(S \ {x}) \in Nat
      BY <1>0
    <3> QED BY <1>5, <3>1
  <2>2. Topped(S \ {x})
    <3>1. n - 1 \notin T
      BY <1>2, <2>1
    <3>2. S \ {x} \in SUBSET C
      OBVIOUS
    <3> QED BY <1>5, <1>7, <2>1, <3>1, <3>2
  <2>3. PICK a \in S \ {x} : \A b \in (S \ {x}) \ {a} : Above(w, a, b)
    BY <2>2
  <2>4. a \in Registered /\ x \in Registered /\ a # x
    OBVIOUS
  <2>5. CASE Above(w, a, x)
    <3>1. \A b \in S \ {a} : Above(w, a, b)
      BY <2>3, <2>5
    <3> QED BY <1>3, <2>3, <3>1
  <2>6. CASE Above(w, x, a)
    <3>1. ASSUME NEW b \in S \ {x} PROVE Above(w, x, b)
      <4>1. b \in Registered
        OBVIOUS
      <4>2. CASE b = a
        BY <2>6, <4>2
      <4>3. CASE b # a
        <5>1. Above(w, a, b)
          BY <2>3, <4>3
        <5> QED BY <2>4, <2>6, <4>1, <5>1, AboveTransitive
      <4> QED BY <4>2, <4>3
    <3> QED BY <1>3, <1>4, <3>1
  <2> QED BY <2>4, <2>5, <2>6, AboveOrder
<1> QED BY <1>6, <1>7

\* CostRouter::pick finds exactly one reviewer in every registry with a candidate, whatever
\* the cards: a run with somebody to ask, and the cards at hand, never falls back to its
\* default reviewer.
THEOREM OneReviewer ==
  ASSUME card \in Cards, NEW w, NEW C \in SUBSET Registered, C # {}
  PROVE  \E a \in C : Pick(card, ReviewTask, C, CardOf(w)) = {a}
<1>1. PICK a \in C : \A b \in C \ {a} : Above(w, a, b)
  BY SomebodyAbove
<1>2. a \in Pick(card, ReviewTask, C, CardOf(w))
  BY <1>1, PickIs
<1> QED BY <1>2, PickUnique

-----------------------------------------------------------------------------
(* ReviewerIsBest.                                                         *)

LEMMA ReviewerTypes ==
  ASSUME TypeOK
  PROVE  /\ card \in Cards /\ \A w : Candidates(w) \in SUBSET Registered
         /\ \A r \in Runs : /\ run[r].writer \in Agents \cup {0}
                            /\ run[r].reviewer \in Agents \cup {0} /\ run[r].routed \in BOOLEAN
                            /\ run[r].stamp \in Stamps \cup {0} /\ run[r].part \in {"impl", "review"}
BY DEF TypeOK, Cards, Candidates

\* To be above somebody in the numbers is to be preferred: another vendor is worth more
\* than a skill, and what counts only among equals is compared only among equals.
LEMMA AboveIsPreferred ==
  ASSUME card \in Cards, NEW w, NEW a \in Registered, NEW b \in Registered, Above(w, a, b)
  PROVE  Preferred(w, a, b)
<1> DEFINE other(c) == CardOf(w) # Unregistered /\ card[c].tool # CardOf(w).tool
           skilled(c) == "review" \in card[c].skills
<1>1. /\ Vendor(w, a) \in {3, 0, -3} /\ Vendor(w, b) \in {3, 0, -3}
      /\ CardOf(w) = Unregistered => Vendor(w, a) = 0 /\ Vendor(w, b) = 0
      /\ CardOf(w) # Unregistered => Vendor(w, a) # 0 /\ Vendor(w, b) # 0
      /\ Vendor(w, a) = 3 <=> other(a)
      /\ Vendor(w, b) = 3 <=> other(b)
  BY DEF Vendor
<1>2. /\ Skill(a) = (IF skilled(a) THEN 2 ELSE 0) /\ Skill(b) = (IF skilled(b) THEN 2 ELSE 0)
  BY DEF Skill
<1>3. /\ Turns(a) = (IF card[a].multiTurn THEN 1 ELSE 0)
      /\ Turns(b) = (IF card[b].multiTurn THEN 1 ELSE 0)
  BY DEF Turns
<1>4. PICK ca, cb \in Int : ca = card[a].cost /\ cb = card[b].cost
  BY Numbers
<1>5. PICK va, vb \in Int : va = Vendor(w, a) /\ vb = Vendor(w, b)
  BY <1>1
<1>6. PICK sa, sb \in Int : sa = Skill(a) /\ sb = Skill(b)
  BY <1>2
<1>7. Worth(w, a) = sa + va /\ Worth(w, b) = sb + vb
  BY <1>5, <1>6 DEF Worth
<1>8. a \in Int /\ b \in Int
  BY Numbers
<1>9. \/ va > vb
      \/ va = vb /\ sa > sb
      \/ va = vb /\ sa = sb /\ Turns(a) > Turns(b)
      \/ va = vb /\ sa = sb /\ Turns(a) = Turns(b) /\ (ca < cb \/ (ca = cb /\ a < b))
  <2>1. sa \in {0, 2} /\ sb \in {0, 2}
    BY <1>2, <1>6
  <2>2. (va = 0 /\ vb = 0) \/ (va \in {3, -3} /\ vb \in {3, -3})
    <3>1. CASE CardOf(w) = Unregistered
      BY <1>5, <3>1 DEF Vendor
    <3>2. CASE CardOf(w) # Unregistered
      <4>1. va \in {3, -3}
        BY <1>5, <3>2 DEF Vendor
      <4>2. vb \in {3, -3}
        BY <1>5, <3>2 DEF Vendor
      <4> QED BY <4>1, <4>2
    <3> QED BY <3>1, <3>2
  <2>3. \/ sa + va > sb + vb
        \/ sa + va = sb + vb /\ \/ Turns(a) > Turns(b)
                                \/ Turns(a) = Turns(b) /\ (ca < cb \/ (ca = cb /\ a < b))
    <3>1. PICK x, y : x = Worth(w, a) /\ y = Worth(w, b)
      OBVIOUS
    <3>2. \/ x > y
          \/ x = y /\ \/ Turns(a) > Turns(b)
                      \/ Turns(a) = Turns(b) /\ (ca < cb \/ (ca = cb /\ a < b))
      BY <1>4, <3>1 DEF Above
    <3> QED BY <1>7, <3>1, <3>2
  <2>4. sa + va > sb + vb => va > vb \/ (va = vb /\ sa > sb)
    BY <2>1, <2>2
  <2>5. sa + va = sb + vb => va = vb /\ sa = sb
    BY <2>1, <2>2
  <2> QED BY <2>3, <2>4, <2>5
<1>10. (va = vb <=> (other(a) <=> other(b))) /\ (va > vb => other(a) /\ ~ other(b))
  BY <1>1, <1>5
<1>11. (sa = sb <=> (skilled(a) <=> skilled(b))) /\ (sa > sb => skilled(a) /\ ~ skilled(b))
  BY <1>2, <1>6
<1>12. /\ Turns(a) = Turns(b) <=> (card[a].multiTurn <=> card[b].multiTurn)
       /\ Turns(a) > Turns(b) => card[a].multiTurn /\ ~ card[b].multiTurn
  BY <1>3
<1> QED BY <1>4, <1>9, <1>10, <1>11, <1>12 DEF Preferred

LEMMA BestReviewer ==
  ASSUME TypeOK, ChoiceInv
  PROVE  ReviewerIsBest
<1> SUFFICES ASSUME NEW r \in Runs, run[r].at # "idle", run[r].listed,
                    Registered \ {run[r].writer} # {}
             PROVE  /\ run[r].reviewer \in Registered \ {run[r].writer}
                    /\ \A c \in Registered \ {run[r].writer, run[r].reviewer} :
                         Preferred(run[r].writer, run[r].reviewer, c)
  BY DEF ReviewerIsBest
<1>0. PICK w, v : w = run[r].writer /\ v = run[r].reviewer
  OBVIOUS
<1>1. card \in Cards /\ Candidates(w) \in SUBSET Registered
  BY ReviewerTypes
<1>2. Candidates(w) = Registered \ {w}
  BY DEF Candidates
<1>3. Eligible(card, ReviewTask, Candidates(w)) # {}
  BY <1>0, <1>2, AllEligible
<1>4. v \in Pick(card, ReviewTask, Candidates(w), CardOf(w))
  BY <1>0, <1>3 DEF ChoiceInv
<1>5. v \in Candidates(w) /\ \A c \in Candidates(w) \ {v} : Above(w, v, c)
  BY <1>1, <1>4, PickIs
<1>6. ASSUME NEW c \in Candidates(w) \ {v} PROVE Preferred(w, v, c)
  BY <1>1, <1>2, <1>5, AboveIsPreferred
<1> QED BY <1>0, <1>2, <1>5, <1>6

-----------------------------------------------------------------------------
(* ExplainAgrees.                                                          *)

LEMMA BeforeAntisymmetric ==
  ASSUME NEW t \in TaskIds, NEW u \in TaskIds, Before(t, u)
  PROVE  ~ Before(u, t)
<1>1. t[1] \in Prefix /\ t[2] \in Int /\ u[1] \in Prefix /\ u[2] \in Int
  BY MaxStampAssumption DEF TaskIds, Stamps
<1>2. Rank[t[1]] \in Int /\ Rank[u[1]] \in Int
  BY <1>1 DEF Rank, Prefix
<1> QED BY <1>1, <1>2 DEF Before

LEMMA FirstIs ==
  ASSUME NEW S \in SUBSET TaskIds, NEW t \in S, \A u \in S \ {t} : Before(t, u)
  PROVE  First(S) = t
<1>1. First(S) \in S /\ \A u \in S \ {First(S)} : Before(First(S), u)
  BY DEF First
<1> QED BY <1>1, BeforeAntisymmetric

\* The explanation goes through the same rules with the same candidates.
LEMMA SameAnswer ==
  ASSUME TypeOK, ChoiceInv, OwnRowsInv
  PROVE  ExplainAgrees
<1> SUFFICES ASSUME NEW r \in Runs, run[r].routed, run[r].stamp # 0,
                    db[<<"impl", run[r].stamp>>].assignee = run[r].writer,
                    \A t \in Rows \ {<<"impl", run[r].stamp>>} :
                      db[t].trace = run[r].stamp /\ KindOf(t) = "implement"
                      => Before(<<"impl", run[r].stamp>>, t)
             PROVE  Explain(<<"review", run[r].stamp>>) = {run[r].reviewer}
  BY DEF ExplainAgrees
<1>0. PICK s, w, v : s = run[r].stamp /\ w = run[r].writer /\ v = run[r].reviewer
  OBVIOUS
<1>1. PICK i, t : i = <<"impl", s>> /\ t = <<"review", s>>
  OBVIOUS
<1>2. s \in Stamps /\ i \in TaskIds /\ t \in TaskIds
  <2>1. s \in Stamps
    BY <1>0, ReviewerTypes
  <2> QED BY <1>1, <2>1 DEF TaskIds, Prefix
<1>3. i \in Rows /\ db[i].trace = s /\ t \in Rows /\ db[t].trace = s
  BY <1>0, <1>1 DEF OwnRowsInv
<1>4. run[r].at # "idle"
  BY <1>0 DEF OwnRowsInv
<1>5. w \in Agents /\ v \in Pick(card, ReviewTask, Candidates(w), CardOf(w))
  BY <1>0, <1>4 DEF ChoiceInv
<1>6. KindOf(i) = "implement" /\ KindOf(t) = "review"
  BY <1>1 DEF KindOf
<1>7. PICK S : S = {u \in Rows : db[u].trace = db[t].trace /\ KindOf(u) = "implement"}
  OBVIOUS
<1>8. First(S) = i /\ S # {}
  <2>1. S \in SUBSET TaskIds /\ i \in S
    BY <1>3, <1>6, <1>7 DEF Rows
  <2>2. \A u \in S \ {i} : Before(i, u)
    BY <1>0, <1>1, <1>3, <1>7
  <2> QED BY <2>1, <2>2, FirstIs
<1>9. Author(t) = w /\ w \in Registered
  <2>1. db[i].assignee = w
    BY <1>0, <1>1
  <2>2. db[i].assignee \in Registered \cup {0}
    BY <1>2 DEF TypeOK
  <2>3. w # 0
    BY <1>5, AgentsAssumption
  <2>4. w \in Registered
    BY <2>1, <2>2, <2>3
  <2> QED BY <1>7, <1>8, <2>1, <2>4 DEF Author
<1>10. [kind |-> KindOf(t), multiTurn |-> ~ OneShot(KindOf(t))] = ReviewTask
  BY <1>6 DEF OneShot, ReviewTask
<1>11. Explain(t) = Pick(card, ReviewTask, Candidates(w), CardOf(w))
  BY <1>9, <1>10 DEF Explain, Candidates
<1>12. card \in Cards /\ Candidates(w) \in SUBSET Registered
  BY ReviewerTypes
<1>13. Pick(card, ReviewTask, Candidates(w), CardOf(w)) = {v}
  BY <1>5, <1>12, PickUnique
<1> QED BY <1>0, <1>1, <1>11, <1>13

-----------------------------------------------------------------------------
(* The inductive invariant.                                                *)

Row == [state : TaskState \cup {"absent"}, assignee : Registered \cup {0},
        worktree : Stamps \cup {0}, trace : Stamps \cup {0}]
RunAt == {"idle", "create", "assign", "claim", "spawn", "session", "over"}
Run == [at : RunAt, part : {"impl", "review"}, writer : Agents \cup {0},
        reviewer : Agents \cup {0}, listed : BOOLEAN, routed : BOOLEAN,
        now : Stamps \cup {0}, stamp : Stamps \cup {0}]
OpRec == [at : {"idle", "assign", "move"}, task : TaskIds \cup {NoTask},
          claims : BOOLEAN, next : TaskState]

LEMMA TypeIs ==
  TypeOK <=> /\ card \in Cards /\ clock \in Stamps
             /\ db \in [TaskIds -> Row] /\ run \in [Runs -> Run] /\ op \in [Clients -> OpRec]
             /\ \A c \in Clients : op[c].at # "idle" => op[c].task \in TaskIds
BY DEF TypeOK, Cards, Row, Run, RunAt, OpRec

\* The table keeps its rows, and what a run is known by.
Keeps(T) ==
  \A t \in Rows : /\ t \in Rows' /\ db'[t].trace = db[t].trace
                  /\ t \notin T => db'[t].worktree = db[t].worktree

LEMMA StateChange ==
  ASSUME TypeOK, card' = card, NEW t \in TaskIds, NEW to \in TaskState,
         db' = [db EXCEPT ![t].state = to]
  PROVE  db' \in [TaskIds -> Row'] /\ Keeps({})
<1>1. db \in [TaskIds -> Row] /\ Row' = Row
  BY TypeIs DEF Row, Registered
<1>2. to # "absent" /\ to \in TaskState \cup {"absent"}
  BY DEF TaskState
<1>3. db[t] \in Row /\ [db[t] EXCEPT !.state = to] \in Row
  <2>1. PICK x : x = db[t]
    OBVIOUS
  <2>2. x \in Row
    BY <1>1, <2>1
  <2>3. [x EXCEPT !.state = to] \in Row
    BY <1>2, <2>2 DEF Row
  <2> QED BY <2>1, <2>2, <2>3
<1>4. \A u \in TaskIds : db'[u] = IF u = t THEN [db[t] EXCEPT !.state = to] ELSE db[u]
  BY <1>1
<1>5. \A u \in TaskIds : db'[u] \in Row
  BY <1>1, <1>3, <1>4
<1>6. db' = [u \in TaskIds |-> db'[u]]
  BY <1>1
<1>7. db' \in [TaskIds -> Row]
  BY <1>5, <1>6
<1>8. /\ [db[t] EXCEPT !.state = to].state = to
      /\ [db[t] EXCEPT !.state = to].trace = db[t].trace
      /\ [db[t] EXCEPT !.state = to].worktree = db[t].worktree
  BY <1>3 DEF Row
<1>9. Keeps({})
  <2> SUFFICES ASSUME NEW u \in Rows
               PROVE  /\ u \in TaskIds /\ db'[u].state # "absent" /\ db'[u].trace = db[u].trace
                      /\ db'[u].worktree = db[u].worktree
    BY DEF Keeps, Rows
  <2>1. u \in TaskIds /\ db[u].state # "absent"
    BY DEF Rows
  <2> QED BY <1>2, <1>4, <1>8, <2>1
<1> QED BY <1>1, <1>7, <1>9

LEMMA AssigneeChange ==
  ASSUME TypeOK, card' = card, NEW t \in TaskIds, NEW a \in Registered,
         db' = [db EXCEPT ![t].assignee = a]
  PROVE  db' \in [TaskIds -> Row'] /\ Keeps({})
<1>1. db \in [TaskIds -> Row] /\ Row' = Row
  BY TypeIs DEF Row, Registered
<1>3. db[t] \in Row /\ [db[t] EXCEPT !.assignee = a] \in Row
  <2>1. PICK x : x = db[t]
    OBVIOUS
  <2>2. x \in Row
    BY <1>1, <2>1
  <2>3. [x EXCEPT !.assignee = a] \in Row
    BY <2>2 DEF Row
  <2> QED BY <2>1, <2>2, <2>3
<1>4. \A u \in TaskIds : db'[u] = IF u = t THEN [db[t] EXCEPT !.assignee = a] ELSE db[u]
  BY <1>1
<1>5. \A u \in TaskIds : db'[u] \in Row
  BY <1>1, <1>3, <1>4
<1>6. db' = [u \in TaskIds |-> db'[u]]
  BY <1>1
<1>7. db' \in [TaskIds -> Row]
  BY <1>5, <1>6
<1>8. /\ [db[t] EXCEPT !.assignee = a].state = db[t].state
      /\ [db[t] EXCEPT !.assignee = a].trace = db[t].trace
      /\ [db[t] EXCEPT !.assignee = a].worktree = db[t].worktree
  BY <1>3 DEF Row
<1>9. Keeps({})
  <2> SUFFICES ASSUME NEW u \in Rows
               PROVE  /\ u \in TaskIds /\ db'[u].state # "absent" /\ db'[u].trace = db[u].trace
                      /\ db'[u].worktree = db[u].worktree
    BY DEF Keeps, Rows
  <2>1. u \in TaskIds /\ db[u].state # "absent"
    BY DEF Rows
  <2> QED BY <1>4, <1>8, <2>1
<1> QED BY <1>1, <1>7, <1>9

LEMMA HandedOut ==
  ASSUME TypeOK, card' = card, NEW t \in TaskIds, NEW a \in Registered, NEW s \in Stamps,
         db' = [db EXCEPT ![t].assignee = a, ![t].worktree = s]
  PROVE  db' \in [TaskIds -> Row'] /\ Keeps({t}) /\ db'[t].worktree = s
<1>1. db \in [TaskIds -> Row] /\ Row' = Row
  BY TypeIs DEF Row, Registered
<1>2. PICK e : e = [db[t] EXCEPT !.assignee = a, !.worktree = s]
  OBVIOUS
<1>3. /\ e \in Row /\ e.state = db[t].state /\ e.trace = db[t].trace /\ e.worktree = s
  <2>1. PICK x : x = db[t]
    OBVIOUS
  <2>2. x \in Row
    BY <1>1, <2>1
  <2>3. e = [x EXCEPT !.assignee = a, !.worktree = s]
    BY <1>2, <2>1
  <2> QED BY <2>1, <2>2, <2>3 DEF Row
<1>4. \A u \in TaskIds : db'[u] = IF u = t THEN e ELSE db[u]
  BY <1>1, <1>2
<1>5. \A u \in TaskIds : db'[u] \in Row
  BY <1>1, <1>3, <1>4
<1>6. db' = [u \in TaskIds |-> db'[u]]
  BY <1>1
<1>7. db' \in [TaskIds -> Row]
  BY <1>5, <1>6
<1>9. Keeps({t})
  <2> SUFFICES ASSUME NEW u \in Rows
               PROVE  /\ u \in TaskIds /\ db'[u].state # "absent" /\ db'[u].trace = db[u].trace
                      /\ u \notin {t} => db'[u].worktree = db[u].worktree
    BY DEF Keeps, Rows
  <2>1. u \in TaskIds /\ db[u].state # "absent"
    BY DEF Rows
  <2> QED BY <1>3, <1>4, <2>1
<1> QED BY <1>1, <1>3, <1>4, <1>7, <1>9

\* A new row takes the place of an absent one.
LEMMA NewRow ==
  ASSUME NEW s \in Stamps
  PROVE  Opened(s) \in Row /\ Opened(s).state = "open" /\ Opened(s).trace = s
<1>1. Absent \in Row
  BY DEF Absent, Row
<1>2. PICK x \in Row : x = Absent
  BY <1>1
<1>3. Opened(s) = [x EXCEPT !.state = "open", !.trace = s]
  BY <1>2 DEF Opened
<1> QED BY <1>2, <1>3 DEF Row, TaskState

\* What one run does leaves the rows of the others alone.
LEMMA OwnRowsStep ==
  ASSUME TypeOK, OwnRowsInv, NEW r \in Runs,
         \A q \in Runs \ {r} : run'[q] = run[q],
         run'[r].stamp = run[r].stamp, run'[r].at = "create" => run'[r].now # 0,
         Keeps({<<"impl", run[r].stamp>>, <<"review", run[r].stamp>>}),
         run'[r].at \in {"assign", "claim", "spawn", "session"} => run[r].stamp # 0,
         run'[r].at \in {"idle", "create"} => run[r].stamp = 0,
         run'[r].at \in {"claim", "spawn", "session"} =>
           db'[<<run'[r].part, run[r].stamp>>].worktree = run[r].stamp
  PROVE  OwnRowsInv'
<1>1. \A q \in Runs : run'[q].stamp = run[q].stamp
  OBVIOUS
<1>2. ASSUME NEW q \in Runs, run[q].stamp # 0,
             NEW t \in {<<"impl", run[q].stamp>>, <<"review", run[q].stamp>>}
      PROVE  t \in Rows' /\ db'[t].trace = run[q].stamp
  <2>1. t \in Rows /\ db[t].trace = run[q].stamp
    BY <1>2 DEF OwnRowsInv
  <2> QED BY <2>1 DEF Keeps
<1>3. ASSUME NEW q \in Runs \ {r}, run[q].at \in {"claim", "spawn", "session"}
      PROVE  db'[Own(q)].worktree = run[q].stamp
  <2>1. run[q].stamp # 0 /\ db[Own(q)].worktree = run[q].stamp
    BY <1>3 DEF OwnRowsInv
  <2>2. Own(q) \in {<<"impl", run[q].stamp>>, <<"review", run[q].stamp>>}
    BY ReviewerTypes DEF Own
  <2>3. Own(q) \in Rows
    BY <2>1, <2>2 DEF OwnRowsInv
  <2>4. run[q].stamp # run[r].stamp
    BY <2>1 DEF OwnRowsInv
  <2>5. Own(q) \notin {<<"impl", run[r].stamp>>, <<"review", run[r].stamp>>}
    BY <2>2, <2>4
  <2> QED BY <2>1, <2>3, <2>5 DEF Keeps
<1>4. ASSUME NEW q \in Runs
      PROVE  /\ run'[q].at \in {"assign", "claim", "spawn", "session"} => run[q].stamp # 0
             /\ run'[q].at \in {"idle", "create"} => run[q].stamp = 0
             /\ run'[q].at = "create" => run'[q].now # 0
             /\ run'[q].at \in {"claim", "spawn", "session"} =>
                  db'[<<run'[q].part, run[q].stamp>>].worktree = run[q].stamp
  <2>1. CASE q = r
    BY <2>1
  <2>2. CASE q # r
    <3>1. run'[q] = run[q]
      BY <2>2
    <3>2. run[q].at \in {"claim", "spawn", "session"} => db'[Own(q)].worktree = run[q].stamp
      BY <1>3, <2>2
    <3>3. /\ run[q].at \in {"assign", "claim", "spawn", "session"} => run[q].stamp # 0
          /\ run[q].at \in {"idle", "create"} => run[q].stamp = 0
          /\ run[q].at = "create" => run[q].now # 0
      BY DEF OwnRowsInv
    <3> QED BY <3>1, <3>2, <3>3 DEF Own
  <2> QED BY <2>1, <2>2
<1>5. \A p, q \in Runs : run[p].stamp # 0 /\ run[p].stamp = run[q].stamp => p = q
  BY DEF OwnRowsInv
<1> QED BY <1>1, <1>2, <1>4, <1>5 DEF OwnRowsInv, Own

\* A run changes where it is and what it works on, not what was chosen for it.
LEMMA ChoiceKept ==
  ASSUME ChoiceInv, card' = card,
         \A q \in Runs : /\ run'[q].writer = run[q].writer /\ run'[q].reviewer = run[q].reviewer
                         /\ run'[q].routed = run[q].routed /\ run'[q].listed = run[q].listed
                         /\ run'[q].at # "idle" => run[q].at # "idle"
  PROVE  ChoiceInv'
<1> SUFFICES ASSUME NEW q \in Runs, run'[q].at # "idle"
             PROVE  (/\ run[q].writer \in Agents
                     /\ IF run[q].routed
                        THEN run[q].reviewer \in Pick(card, ReviewTask, Candidates(run[q].writer),
                                                      CardOf(run[q].writer))
                        ELSE run[q].listed => Eligible(card, ReviewTask, Candidates(run[q].writer)) = {})'
  BY DEF ChoiceInv
<1>1. PICK w, v, b, l : /\ w = run[q].writer /\ v = run[q].reviewer
                       /\ b = run[q].routed /\ l = run[q].listed
  OBVIOUS
<1>2. /\ w \in Agents
      /\ IF b THEN v \in Pick(card, ReviewTask, Candidates(w), CardOf(w))
         ELSE l => Eligible(card, ReviewTask, Candidates(w)) = {}
  BY <1>1 DEF ChoiceInv
<1>3. run'[q].writer = w /\ run'[q].reviewer = v /\ run'[q].routed = b /\ run'[q].listed = l
  BY <1>1
<1>4. Candidates(run[q].writer)' = Candidates(w) /\ CardOf(run[q].writer)' = CardOf(w)
  BY <1>3 DEF Candidates, CardOf, Registered
<1> QED BY <1>2, <1>3, <1>4

\* The steps that leave the runs alone.
LEMMA RunsStand ==
  ASSUME Inductive, UNCHANGED <<card, run>>, clock' \in Stamps, db' \in [TaskIds -> Row'],
         Keeps({}), op' \in [Clients -> OpRec],
         \A c \in Clients : op'[c].at # "idle" => op'[c].task \in TaskIds
  PROVE  Inductive'
<1> USE DEF Inductive
<1>1. TypeOK'
  <2>1. card \in Cards /\ run \in [Runs -> Run]
    BY TypeIs
  <2>2. /\ card' \in Cards /\ clock' \in Stamps /\ db' \in [TaskIds -> Row'] /\ run' \in [Runs -> Run]
        /\ op' \in [Clients -> OpRec] /\ \A c \in Clients : op'[c].at # "idle" => op'[c].task \in TaskIds
    BY <2>1
  <2> QED BY <2>2 DEF TypeOK, Cards, Row, Run, RunAt, OpRec
<1>2. ChoiceInv'
  BY ChoiceKept
<1>3. OwnRowsInv'
  <2>1. ASSUME NEW r \in Runs PROVE OwnRowsInv'
    <3>1. Keeps({<<"impl", run[r].stamp>>, <<"review", run[r].stamp>>})
      BY DEF Keeps
    <3>2. /\ run[r].at \in {"assign", "claim", "spawn", "session"} => run[r].stamp # 0
          /\ run[r].at \in {"idle", "create"} => run[r].stamp = 0
          /\ run[r].at = "create" => run[r].now # 0
      BY DEF OwnRowsInv
    <3>3. run[r].at \in {"claim", "spawn", "session"} =>
            db'[<<run[r].part, run[r].stamp>>].worktree = run[r].stamp
      <4> SUFFICES ASSUME run[r].at \in {"claim", "spawn", "session"}
                   PROVE  db'[Own(r)].worktree = run[r].stamp
        BY DEF Own
      <4>1. run[r].stamp # 0 /\ db[Own(r)].worktree = run[r].stamp
        BY DEF OwnRowsInv
      <4>2. Own(r) \in {<<"impl", run[r].stamp>>, <<"review", run[r].stamp>>}
        BY ReviewerTypes DEF Own
      <4>3. Own(r) \in Rows
        BY <4>1, <4>2 DEF OwnRowsInv
      <4> QED BY <4>1, <4>3 DEF Keeps
    <3> QED BY <3>1, <3>2, <3>3, OwnRowsStep
  <2>2. CASE Runs = {}
    BY <2>2 DEF OwnRowsInv
  <2> QED BY <2>1, <2>2
<1> QED BY <1>1, <1>2, <1>3

\* A step of one run.
LEMMA RunSteps ==
  ASSUME Inductive, UNCHANGED <<card, clock, op>>, NEW r \in Runs, NEW e \in Run,
         run' = [run EXCEPT ![r] = e], db' \in [TaskIds -> Row'],
         Keeps({<<"impl", run[r].stamp>>, <<"review", run[r].stamp>>}),
         e.writer = run[r].writer, e.reviewer = run[r].reviewer, e.routed = run[r].routed,
         e.listed = run[r].listed, e.now = run[r].now,
         e.stamp = run[r].stamp, e.at \notin {"idle", "create"}, run[r].at # "idle",
         e.at \in {"assign", "claim", "spawn", "session"} => run[r].stamp # 0,
         e.at \in {"claim", "spawn", "session"} =>
           db'[<<e.part, run[r].stamp>>].worktree = run[r].stamp
  PROVE  Inductive'
<1> USE DEF Inductive
<1>1. /\ card \in Cards /\ clock \in Stamps /\ run \in [Runs -> Run] /\ op \in [Clients -> OpRec]
      /\ \A c \in Clients : op[c].at # "idle" => op[c].task \in TaskIds
  BY TypeIs
<1>2. run'[r] = e /\ \A q \in Runs \ {r} : run'[q] = run[q]
  BY <1>1
<1>3. run' \in [Runs -> Run]
  BY <1>1
<1>4. TypeOK'
  <2>1. /\ card' \in Cards /\ clock' \in Stamps /\ db' \in [TaskIds -> Row'] /\ run' \in [Runs -> Run]
        /\ op' \in [Clients -> OpRec] /\ \A c \in Clients : op'[c].at # "idle" => op'[c].task \in TaskIds
    BY <1>1, <1>3
  <2> QED BY <2>1 DEF TypeOK, Cards, Row, Run, RunAt, OpRec
<1>5. \A q \in Runs : /\ run'[q].writer = run[q].writer /\ run'[q].reviewer = run[q].reviewer
                      /\ run'[q].routed = run[q].routed /\ run'[q].listed = run[q].listed
                      /\ run'[q].at # "idle" => run[q].at # "idle"
  BY <1>2
<1>6. ChoiceInv'
  BY <1>5, ChoiceKept
<1>7. OwnRowsInv'
  BY <1>2, OwnRowsStep
<1> QED BY <1>4, <1>6, <1>7

-----------------------------------------------------------------------------
(* The steps.                                                              *)

LEMMA InitInductive == Init => Inductive
<1> SUFFICES ASSUME Init PROVE Inductive
  OBVIOUS
<1>1. card \in Cards
  BY AdmissionAssumption DEF Init, Cards
<1>2. NoRun \in Run /\ NoRun.at = "idle" /\ NoRun.stamp = 0
  BY DEF NoRun, Run, RunAt
<1>3. NoOp \in OpRec /\ NoOp.at = "idle"
  BY DEF NoOp, OpRec, TaskState
<1>4. Absent \in Row
  BY DEF Absent, Row
<1>5. TypeOK
  <2>1. clock \in Stamps
    BY MaxStampAssumption DEF Init, Stamps
  <2>2. db \in [TaskIds -> Row] /\ run \in [Runs -> Run] /\ op \in [Clients -> OpRec]
    BY <1>2, <1>3, <1>4 DEF Init
  <2>3. \A c \in Clients : op[c].at = "idle"
    BY <1>3 DEF Init
  <2> QED BY <1>1, <2>1, <2>2, <2>3, TypeIs
<1>6. \A r \in Runs : run[r].at = "idle" /\ run[r].stamp = 0
  BY <1>2 DEF Init
<1> QED BY <1>5, <1>6 DEF Inductive, ChoiceInv, OwnRowsInv

LEMMA SameTable ==
  ASSUME TypeOK, UNCHANGED <<card, db>>
  PROVE  db' \in [TaskIds -> Row'] /\ \A T : Keeps(T)
<1>1. db \in [TaskIds -> Row] /\ Row' = Row /\ Rows' = Rows
  BY TypeIs DEF Row, Registered, Rows
<1> QED BY <1>1 DEF Keeps

LEMMA KeepsMore ==
  ASSUME NEW T, NEW U, T \subseteq U, Keeps(T)
  PROVE  Keeps(U)
BY DEF Keeps

LEMMA TickInductive ==
  ASSUME Inductive, Tick
  PROVE  Inductive'
<1>1. UNCHANGED <<card, db, run, op>> /\ clock' \in Stamps
  BY MaxStampAssumption DEF Tick, Inductive, TypeOK, Stamps
<1>2. db' \in [TaskIds -> Row'] /\ Keeps({})
  BY <1>1, SameTable DEF Inductive
<1> QED BY <1>1, <1>2, RunsStand, TypeIs DEF Inductive

\* What a run does between its start and its end, apart from the creation of its rows.
LEMMA OwnIs ==
  ASSUME Inductive, NEW r \in Runs, run[r].at \in {"assign", "claim", "spawn", "session"}
  PROVE  /\ run[r].stamp # 0 /\ run[r].stamp \in Stamps /\ Own(r) \in TaskIds /\ Own(r) \in Rows
         /\ Own(r) \in {<<"impl", run[r].stamp>>, <<"review", run[r].stamp>>}
<1>1. run[r].stamp # 0
  BY DEF Inductive, OwnRowsInv
<1>2. run[r].part \in {"impl", "review"} /\ run[r].stamp \in Stamps
  BY <1>1, ReviewerTypes DEF Inductive
<1>3. Own(r) \in {<<"impl", run[r].stamp>>, <<"review", run[r].stamp>>}
  BY <1>2 DEF Own
<1> QED BY <1>1, <1>2, <1>3 DEF Inductive, OwnRowsInv, Rows

\* The records a step of a run leaves.
LEMMA Moves ==
  ASSUME Inductive, NEW r \in Runs, NEW at \in RunAt
  PROVE  \E e \in Run : /\ e = [run[r] EXCEPT !.at = at]
                        /\ e.writer = run[r].writer /\ e.reviewer = run[r].reviewer
                        /\ e.routed = run[r].routed /\ e.listed = run[r].listed
                        /\ e.now = run[r].now /\ e.stamp = run[r].stamp
                        /\ e.part = run[r].part /\ e.at = at
<1>1. PICK x \in Run : x = run[r]
  BY TypeIs DEF Inductive
<1>2. PICK e : e = [x EXCEPT !.at = at]
  OBVIOUS
<1>3. e \in Run
  BY <1>2 DEF Run
<1>4. /\ e.writer = x.writer /\ e.reviewer = x.reviewer /\ e.routed = x.routed
      /\ e.listed = x.listed /\ e.now = x.now /\ e.stamp = x.stamp /\ e.part = x.part /\ e.at = at
  BY <1>2 DEF Run
<1> QED BY <1>1, <1>2, <1>3, <1>4

LEMMA BreakInductive ==
  ASSUME Inductive, NEW r \in Runs, Break(r)
  PROVE  Inductive'
<1>1. PICK e \in Run : /\ e = [run[r] EXCEPT !.at = "over"]
                       /\ e.writer = run[r].writer /\ e.reviewer = run[r].reviewer
                       /\ e.routed = run[r].routed /\ e.listed = run[r].listed
                       /\ e.now = run[r].now /\ e.stamp = run[r].stamp
                       /\ e.part = run[r].part /\ e.at = "over"
  BY Moves DEF RunAt
<1>2. run' = [run EXCEPT ![r] = e]
  BY <1>1, TypeIs DEF Break, Inductive
<1>3. db' \in [TaskIds -> Row'] /\ Keeps({<<"impl", run[r].stamp>>, <<"review", run[r].stamp>>})
  BY SameTable DEF Break, Inductive
<1>4. UNCHANGED <<card, clock, op>> /\ run[r].at # "idle"
  BY DEF Break
<1> QED BY <1>1, <1>2, <1>3, <1>4, RunSteps

\* A step of the session's task that changes its state, or nothing, and then where the run is.
LEMMA StateStep ==
  ASSUME Inductive, UNCHANGED <<card, clock, op>>, NEW r \in Runs, NEW at \in RunAt,
         run[r].at \in {"claim", "spawn", "session"},
         at \in {"spawn", "session", "over"},
         run' = [run EXCEPT ![r].at = at],
         db' = db \/ \E to \in TaskState : db' = [db EXCEPT ![Own(r)].state = to]
  PROVE  Inductive'
<1>1. PICK e \in Run : /\ e = [run[r] EXCEPT !.at = at]
                       /\ e.writer = run[r].writer /\ e.reviewer = run[r].reviewer
                       /\ e.routed = run[r].routed /\ e.listed = run[r].listed
                       /\ e.now = run[r].now /\ e.stamp = run[r].stamp
                       /\ e.part = run[r].part /\ e.at = at
  BY Moves
<1>2. run' = [run EXCEPT ![r] = e]
  BY <1>1, TypeIs DEF Inductive
<1>3. /\ run[r].stamp # 0 /\ Own(r) \in TaskIds /\ Own(r) \in Rows
  BY OwnIs
<1>4. db' \in [TaskIds -> Row'] /\ Keeps({})
  <2>1. CASE db' = db
    BY <2>1, SameTable DEF Inductive
  <2>2. ASSUME NEW to \in TaskState, db' = [db EXCEPT ![Own(r)].state = to]
        PROVE  db' \in [TaskIds -> Row'] /\ Keeps({})
    BY <1>3, <2>2, StateChange DEF Inductive
  <2> QED BY <2>1, <2>2
<1>5. Keeps({<<"impl", run[r].stamp>>, <<"review", run[r].stamp>>})
  BY <1>4, KeepsMore
<1>6. db'[<<e.part, run[r].stamp>>].worktree = run[r].stamp
  <2>1. db[Own(r)].worktree = run[r].stamp
    BY DEF Inductive, OwnRowsInv
  <2>2. db'[Own(r)].worktree = run[r].stamp
    BY <1>3, <1>4, <2>1 DEF Keeps
  <2> QED BY <1>1, <2>2 DEF Own
<1>7. run[r].at # "idle" /\ e.at # "idle" /\ e.at # "create"
  BY <1>1
<1> QED BY <1>1, <1>2, <1>3, <1>4, <1>5, <1>6, <1>7, RunSteps

LEMMA MoveInductive ==
  ASSUME Inductive, NEW r \in Runs, Move(r)
  PROVE  Inductive'
<1>1. PICK to \in TaskState : to = IF run[r].at = "claim" THEN "claimed" ELSE "working"
  BY DEF TaskState
<1>2. CASE CanTransition(db[Own(r)].state, to)
  <2>1. PICK at \in {"spawn", "session"} : at = IF run[r].at = "claim" THEN "spawn" ELSE "session"
    OBVIOUS
  <2>2. run' = [run EXCEPT ![r].at = at] /\ db' = [db EXCEPT ![Own(r)].state = to]
    BY <1>1, <1>2, <2>1 DEF Move
  <2>3. at \in RunAt /\ UNCHANGED <<card, clock, op>> /\ run[r].at \in {"claim", "spawn", "session"}
    BY <2>1 DEF RunAt, Move
  <2> QED BY <2>1, <2>2, <2>3, StateStep
<1>3. CASE ~ CanTransition(db[Own(r)].state, to)
  <2>1. run' = [run EXCEPT ![r].at = "over"] /\ db' = db
    BY <1>1, <1>3 DEF Move
  <2>2. "over" \in RunAt /\ UNCHANGED <<card, clock, op>> /\ run[r].at \in {"claim", "spawn", "session"}
    BY DEF RunAt, Move
  <2> QED BY <2>1, <2>2, StateStep
<1> QED BY <1>2, <1>3

LEMMA FailInductive ==
  ASSUME Inductive, NEW r \in Runs, Fail(r)
  PROVE  Inductive'
<1>1. run' = [run EXCEPT ![r].at = "over"]
  BY DEF Fail
<1>2. "over" \in RunAt /\ UNCHANGED <<card, clock, op>> /\ run[r].at \in {"claim", "spawn", "session"}
  BY DEF RunAt, Fail, InSession
<1>3. db' = db \/ db' = [db EXCEPT ![Own(r)].state = "failed"]
  BY DEF Fail
<1>4. "failed" \in TaskState
  BY DEF TaskState
<1> QED BY <1>1, <1>2, <1>3, <1>4, StateStep

LEMMA SucceedInductive ==
  ASSUME Inductive, NEW r \in Runs, Succeed(r)
  PROVE  Inductive'
<1>0. UNCHANGED <<card, clock, op>> /\ run[r].at = "session"
  BY DEF Succeed, InSession
<1>1. CASE CanTransition(db[Own(r)].state, "done")
  <2>1. PICK at \in {"assign", "over"} : at = IF run[r].part = "impl" THEN "assign" ELSE "over"
    OBVIOUS
  <2>2. PICK x \in Run : x = run[r]
    BY TypeIs DEF Inductive
  <2>3. PICK e : e = [x EXCEPT !.at = at, !.part = "review"]
    OBVIOUS
  <2>4. /\ e \in Run /\ e.writer = run[r].writer /\ e.reviewer = run[r].reviewer
        /\ e.routed = run[r].routed /\ e.listed = run[r].listed /\ e.now = run[r].now
        /\ e.stamp = run[r].stamp /\ e.at = at
    BY <2>1, <2>2, <2>3 DEF Run, RunAt
  <2>5. run' = [run EXCEPT ![r] = e]
    BY <1>0, <1>1, <2>1, <2>2, <2>3, TypeIs DEF Succeed, Inductive
  <2>6. db' = [db EXCEPT ![Own(r)].state = "done"]
    BY <1>1 DEF Succeed
  <2>7. run[r].stamp # 0 /\ Own(r) \in TaskIds
    BY <1>0, OwnIs
  <2>8. db' \in [TaskIds -> Row'] /\ Keeps({})
    BY <1>0, <2>6, <2>7, StateChange DEF Inductive, TaskState
  <2>9. Keeps({<<"impl", run[r].stamp>>, <<"review", run[r].stamp>>})
    BY <2>8, KeepsMore
  <2>10. run[r].at # "idle" /\ e.at \in {"assign", "over"}
    BY <1>0, <2>1, <2>4
  <2> QED BY <1>0, <2>4, <2>5, <2>7, <2>8, <2>9, <2>10, RunSteps
<1>2. CASE ~ CanTransition(db[Own(r)].state, "done")
  <2>1. run' = [run EXCEPT ![r].at = "over"] /\ db' = db
    BY <1>2 DEF Succeed
  <2>2. "over" \in RunAt
    BY DEF RunAt
  <2> QED BY <1>0, <2>1, <2>2, StateStep
<1> QED BY <1>1, <1>2

LEMMA AssignInductive ==
  ASSUME Inductive, NEW r \in Runs, Assign(r)
  PROVE  Inductive'
<1>0. UNCHANGED <<card, clock, op>> /\ run[r].at = "assign"
  BY DEF Assign
<1>1. /\ run[r].stamp # 0 /\ run[r].stamp \in Stamps /\ Own(r) \in TaskIds
      /\ Own(r) \in {<<"impl", run[r].stamp>>, <<"review", run[r].stamp>>}
  BY <1>0, OwnIs
<1>2. CASE AgentOf(r) \in Registered
  <2>1. PICK e \in Run : /\ e = [run[r] EXCEPT !.at = "claim"]
                         /\ e.writer = run[r].writer /\ e.reviewer = run[r].reviewer
                         /\ e.routed = run[r].routed /\ e.listed = run[r].listed
                         /\ e.now = run[r].now /\ e.stamp = run[r].stamp
                         /\ e.part = run[r].part /\ e.at = "claim"
    BY Moves DEF RunAt
  <2>2. run' = [run EXCEPT ![r] = e]
    BY <1>2, <2>1, TypeIs DEF Assign, Inductive
  <2>3. PICK a \in Registered : a = AgentOf(r)
    BY <1>2
  <2>4. db' = [db EXCEPT ![Own(r)].assignee = a, ![Own(r)].worktree = run[r].stamp]
    BY <1>2, <2>3 DEF Assign
  <2>5. db' \in [TaskIds -> Row'] /\ Keeps({Own(r)}) /\ db'[Own(r)].worktree = run[r].stamp
    BY <1>0, <1>1, <2>4, HandedOut DEF Inductive
  <2>6. Keeps({<<"impl", run[r].stamp>>, <<"review", run[r].stamp>>})
    BY <1>1, <2>5, KeepsMore
  <2>7. db'[<<e.part, run[r].stamp>>].worktree = run[r].stamp
    BY <2>1, <2>5 DEF Own
  <2> QED BY <1>0, <1>1, <2>1, <2>2, <2>5, <2>6, <2>7, RunSteps
<1>3. CASE AgentOf(r) \notin Registered
  <2>1. PICK e \in Run : /\ e = [run[r] EXCEPT !.at = "over"]
                         /\ e.writer = run[r].writer /\ e.reviewer = run[r].reviewer
                         /\ e.routed = run[r].routed /\ e.listed = run[r].listed
                         /\ e.now = run[r].now /\ e.stamp = run[r].stamp
                         /\ e.part = run[r].part /\ e.at = "over"
    BY Moves DEF RunAt
  <2>2. run' = [run EXCEPT ![r] = e] /\ db' = db
    BY <1>3, <2>1, TypeIs DEF Assign, Inductive
  <2>3. db' \in [TaskIds -> Row'] /\ Keeps({<<"impl", run[r].stamp>>, <<"review", run[r].stamp>>})
    BY <1>0, <2>2, SameTable DEF Inductive
  <2> QED BY <1>0, <2>1, <2>2, <2>3, RunSteps
<1> QED BY <1>2, <1>3

\* The rows of a run are new: whoever has a row of this millisecond has the implement task.
LEMMA CreateInductive ==
  ASSUME Inductive, NEW r \in Runs, Create(r)
  PROVE  Inductive'
<1>0. /\ UNCHANGED <<card, clock, op>> /\ run[r].at = "create" /\ run[r].stamp = 0
      /\ run[r].now # 0
  BY DEF Create, Inductive, OwnRowsInv
<1>n. PICK now \in Stamps : now = run[r].now /\ now # 0
  <2>1. run[r].now \in Stamps \cup {0}
    BY TypeIs DEF Inductive, Run
  <2> QED BY <1>0, <2>1
<1>1. CASE <<"impl", now>> \in Rows
  <2>1. PICK e \in Run : /\ e = [run[r] EXCEPT !.at = "over"]
                         /\ e.writer = run[r].writer /\ e.reviewer = run[r].reviewer
                         /\ e.routed = run[r].routed /\ e.listed = run[r].listed
                         /\ e.now = run[r].now /\ e.stamp = run[r].stamp
                         /\ e.part = run[r].part /\ e.at = "over"
    BY Moves DEF RunAt
  <2>2. run' = [run EXCEPT ![r] = e] /\ db' = db
    BY <1>n, <1>1, <2>1, TypeIs DEF Create, Inductive
  <2>3. db' \in [TaskIds -> Row'] /\ Keeps({<<"impl", run[r].stamp>>, <<"review", run[r].stamp>>})
    BY <1>0, <2>2, SameTable DEF Inductive
  <2> QED BY <1>0, <2>1, <2>2, <2>3, RunSteps
<1>2. CASE <<"impl", now>> \notin Rows
  <2>1. PICK x \in Run : x = run[r]
    BY TypeIs DEF Inductive
  <2>2. PICK e : e = [x EXCEPT !.at = "assign", !.stamp = now]
    OBVIOUS
  <2>3. clock \in Stamps /\ now # 0 /\ run \in [Runs -> Run] /\ db \in [TaskIds -> Row]
    BY <1>n, TypeIs DEF Inductive
  <2>4. /\ e \in Run /\ e.writer = x.writer /\ e.reviewer = x.reviewer
        /\ e.routed = x.routed /\ e.listed = x.listed /\ e.stamp = now /\ e.at = "assign"
    BY <2>2, <2>3 DEF Run, RunAt
  <2>5. run' = [run EXCEPT ![r] = e]
    BY <1>n, <1>2, <2>1, <2>2, <2>3 DEF Create
  <2>6. run'[r] = e /\ run' \in [Runs -> Run] /\ \A q \in Runs \ {r} : run'[q] = run[q]
    BY <2>3, <2>4, <2>5
  <2>7. PICK N : N = {<<"impl", now>>, <<"review", now>>}
    OBVIOUS
  <2>8. db' = [t \in TaskIds |-> IF t \in N THEN Opened(now) ELSE db[t]]
    BY <1>n, <1>2, <2>7 DEF Create
  <2>9. Row' = Row /\ N \subseteq TaskIds
    BY <1>0, <2>3, <2>7 DEF Row, Registered, TaskIds, Prefix
  <2>10. Opened(now) \in Row /\ Opened(now).state # "absent" /\ Opened(now).trace = now
    BY <2>3, NewRow
  <2>11. db' \in [TaskIds -> Row']
    BY <2>3, <2>8, <2>9, <2>10
  <2>12. \A t \in N : t \in Rows' /\ db'[t].trace = now
    BY <2>8, <2>9, <2>10 DEF Rows
  <2>13. \A t \in Rows \ N : t \in Rows' /\ db'[t] = db[t]
    BY <2>8 DEF Rows
  <2>14. TypeOK'
    <3>1. /\ card' \in Cards /\ clock' \in Stamps /\ op' \in [Clients -> OpRec]
          /\ \A c \in Clients : op'[c].at # "idle" => op'[c].task \in TaskIds
      BY <1>0, TypeIs DEF Inductive
    <3> QED BY <2>6, <2>11, <3>1 DEF TypeOK, Cards, Row, Run, RunAt, OpRec
  <2>15. ChoiceInv'
    <3>1. \A q \in Runs : /\ run'[q].writer = run[q].writer /\ run'[q].reviewer = run[q].reviewer
                          /\ run'[q].routed = run[q].routed /\ run'[q].listed = run[q].listed
                          /\ run'[q].at # "idle" => run[q].at # "idle"
      BY <1>0, <2>1, <2>4, <2>6
    <3> QED BY <1>0, <3>1, ChoiceKept DEF Inductive
  <2>16. ASSUME NEW q \in Runs, run[q].stamp # 0
         PROVE  /\ run[q].stamp # now /\ q # r
                /\ <<"impl", run[q].stamp>> \in Rows \ N /\ <<"review", run[q].stamp>> \in Rows \ N
    <3>1. <<"impl", run[q].stamp>> \in Rows /\ <<"review", run[q].stamp>> \in Rows
      BY <2>16 DEF Inductive, OwnRowsInv
    <3>2. run[q].stamp # now
      BY <1>2, <3>1
    <3> QED BY <1>0, <2>7, <2>16, <3>1, <3>2
  <2>17. ASSUME NEW q \in Runs
         PROVE  /\ run'[q].stamp # 0 =>
                     \A t \in {<<"impl", run'[q].stamp>>, <<"review", run'[q].stamp>>} :
                       t \in Rows' /\ db'[t].trace = run'[q].stamp
                /\ run'[q].at \in {"assign", "claim", "spawn", "session"} => run'[q].stamp # 0
                /\ run'[q].at \in {"idle", "create"} => run'[q].stamp = 0
                /\ run'[q].at = "create" => run'[q].now # 0
                /\ run'[q].at \in {"claim", "spawn", "session"} =>
                     db'[<<run'[q].part, run'[q].stamp>>].worktree = run'[q].stamp
    <3>1. CASE q = r
      BY <2>3, <2>4, <2>6, <2>7, <2>12, <3>1
    <3>2. CASE q # r
      <4>1. run'[q] = run[q]
        BY <2>6, <3>2
      <4>2. /\ run[q].at \in {"assign", "claim", "spawn", "session"} => run[q].stamp # 0
            /\ run[q].at \in {"idle", "create"} => run[q].stamp = 0
            /\ run[q].at = "create" => run[q].now # 0
        BY DEF Inductive, OwnRowsInv
      <4>3. run[q].stamp # 0 =>
              \A t \in {<<"impl", run[q].stamp>>, <<"review", run[q].stamp>>} :
                t \in Rows' /\ db'[t].trace = run[q].stamp
        <5> SUFFICES ASSUME run[q].stamp # 0,
                            NEW t \in {<<"impl", run[q].stamp>>, <<"review", run[q].stamp>>}
                     PROVE  t \in Rows' /\ db'[t].trace = run[q].stamp
          OBVIOUS
        <5>1. t \in Rows \ N /\ db[t].trace = run[q].stamp
          BY <2>16 DEF Inductive, OwnRowsInv
        <5> QED BY <2>13, <5>1
      <4>4. run[q].at \in {"claim", "spawn", "session"} =>
              db'[<<run[q].part, run[q].stamp>>].worktree = run[q].stamp
        <5> SUFFICES ASSUME run[q].at \in {"claim", "spawn", "session"}
                     PROVE  db'[Own(q)].worktree = run[q].stamp
          BY DEF Own
        <5>1. run[q].stamp # 0 /\ Own(q) \in {<<"impl", run[q].stamp>>, <<"review", run[q].stamp>>}
          BY OwnIs
        <5>2. Own(q) \in Rows \ N
          BY <2>16, <5>1
        <5>3. db[Own(q)].worktree = run[q].stamp
          BY DEF Inductive, OwnRowsInv
        <5> QED BY <2>13, <5>2, <5>3
      <4> QED BY <4>1, <4>2, <4>3, <4>4
    <3> QED BY <3>1, <3>2
  <2>18. ASSUME NEW p \in Runs, NEW q \in Runs, run'[p].stamp # 0, run'[p].stamp = run'[q].stamp
         PROVE  p = q
    <3>1. \A o \in Runs : run'[o].stamp = IF o = r THEN now ELSE run[o].stamp
      BY <2>4, <2>6
    <3>2. run[p].stamp # 0 /\ run[p].stamp = run[q].stamp => p = q
      BY DEF Inductive, OwnRowsInv
    <3> QED BY <2>16, <2>18, <3>1, <3>2
  <2>19. OwnRowsInv'
    BY <2>17, <2>18 DEF OwnRowsInv, Own
  <2> QED BY <2>14, <2>15, <2>19 DEF Inductive
<1> QED BY <1>1, <1>2

LEMMA StartInductive ==
  ASSUME Inductive, NEW r \in Runs, NEW w \in Agents, NEW default \in Agents, Start(r, w, default)
  PROVE  Inductive'
<1>0. UNCHANGED <<card, db, clock, op>> /\ run[r].at = "idle" /\ run[r].stamp = 0
  BY DEF Start, Inductive, OwnRowsInv
<1>k. PICK l \in BOOLEAN :
        LET picked == IF l THEN Pick(card, ReviewTask, Candidates(w), CardOf(w)) ELSE {} IN
        \E v \in IF l /\ Eligible(card, ReviewTask, Candidates(w)) # {} THEN picked ELSE {default} :
          run' = [run EXCEPT ![r] = [NoRun EXCEPT !.at = "create", !.writer = w, !.reviewer = v,
                                                  !.listed = l, !.routed = v \in picked,
                                                  !.now = clock]]
  BY DEF Start
<1>1. PICK picked :
        picked = IF l THEN Pick(card, ReviewTask, Candidates(w), CardOf(w)) ELSE {}
  OBVIOUS
<1>2. PICK pool : pool = Eligible(card, ReviewTask, Candidates(w))
  OBVIOUS
<1>3. PICK v \in IF l /\ pool # {} THEN picked ELSE {default} :
        run' = [run EXCEPT ![r] = [NoRun EXCEPT !.at = "create", !.writer = w, !.reviewer = v,
                                                !.listed = l, !.routed = v \in picked,
                                                !.now = clock]]
  BY <1>k, <1>1, <1>2
<1>4. picked \subseteq pool /\ pool \subseteq Agents
  BY <1>1, <1>2 DEF Pick, Eligible, Candidates, Registered
<1>5. v \in Agents /\ IF v \in picked THEN l ELSE l => pool = {}
  BY <1>1, <1>3, <1>4
<1>6. PICK b \in BOOLEAN : b = (v \in picked)
  <2>1. (v \in picked) \in BOOLEAN
    OBVIOUS
  <2> QED BY <2>1, Zenon
<1>7. PICK x \in Run : x = NoRun
  BY DEF NoRun, Run, RunAt
<1>8. PICK e : e = [x EXCEPT !.at = "create", !.writer = w, !.reviewer = v, !.listed = l, !.routed = b,
                          !.now = clock]
  OBVIOUS
<1>9. /\ e \in Run /\ e.at = "create" /\ e.writer = w /\ e.reviewer = v /\ e.routed = b
      /\ e.stamp = 0 /\ e.listed = l /\ e.now = clock /\ clock \in Stamps /\ clock # 0
  <2>1. x.stamp = 0
    BY <1>7 DEF NoRun
  <2>2. clock \in Stamps /\ clock # 0
    BY MaxStampAssumption, TypeIs DEF Inductive, Stamps
  <2>3. e \in Run
    BY <1>5, <1>8, <2>2 DEF Run, RunAt
  <2>4. /\ e.at = "create" /\ e.writer = w /\ e.reviewer = v /\ e.routed = b
        /\ e.listed = l /\ e.now = clock /\ e.stamp = x.stamp
    BY <1>8 DEF Run
  <2> QED BY <2>1, <2>2, <2>3, <2>4
<1>10. run \in [Runs -> Run] /\ db \in [TaskIds -> Row]
  BY TypeIs DEF Inductive
<1>11. run' = [run EXCEPT ![r] = e] /\ run'[r] = e /\ run' \in [Runs -> Run]
       /\ \A q \in Runs \ {r} : run'[q] = run[q]
  <2>1. run' = [run EXCEPT ![r] = e]
    BY <1>3, <1>6, <1>7, <1>8
  <2> QED BY <1>9, <1>10, <2>1
<1>12. db' \in [TaskIds -> Row'] /\ \A T : Keeps(T)
  BY <1>0, SameTable DEF Inductive
<1>13. TypeOK'
  <2>1. /\ card' \in Cards /\ clock' \in Stamps /\ op' \in [Clients -> OpRec]
        /\ \A c \in Clients : op'[c].at # "idle" => op'[c].task \in TaskIds
    BY <1>0, TypeIs DEF Inductive
  <2> QED BY <1>11, <1>12, <2>1 DEF TypeOK, Cards, Row, Run, RunAt, OpRec
<1>14. ChoiceInv'
  <2> SUFFICES ASSUME NEW q \in Runs, run'[q].at # "idle"
               PROVE  (/\ run[q].writer \in Agents
                       /\ IF run[q].routed
                          THEN run[q].reviewer \in Pick(card, ReviewTask, Candidates(run[q].writer),
                                                        CardOf(run[q].writer))
                          ELSE run[q].listed => Eligible(card, ReviewTask, Candidates(run[q].writer)) = {})'
    BY DEF ChoiceInv
  <2>1. CASE q = r
    <3>1. run'[q].writer = w /\ run'[q].reviewer = v /\ run'[q].routed = b /\ run'[q].listed = l
      BY <1>9, <1>11, <2>1
    <3>2. Candidates(run[q].writer)' = Candidates(w) /\ CardOf(run[q].writer)' = CardOf(w)
      BY <1>0, <3>1 DEF Candidates, CardOf, Registered
    <3>3. IF b THEN v \in Pick(card, ReviewTask, Candidates(w), CardOf(w)) ELSE l => pool = {}
      BY <1>1, <1>5, <1>6
    <3> QED BY <1>0, <1>1, <1>2, <3>1, <3>2, <3>3
  <2>2. CASE q # r
    <3>1. run'[q] = run[q]
      BY <1>11, <2>2
    <3>2. PICK p, g, d, k : /\ p = run[q].writer /\ g = run[q].reviewer
                            /\ d = run[q].routed /\ k = run[q].listed
      OBVIOUS
    <3>3. /\ p \in Agents
          /\ IF d THEN g \in Pick(card, ReviewTask, Candidates(p), CardOf(p))
             ELSE k => Eligible(card, ReviewTask, Candidates(p)) = {}
      BY <3>1, <3>2 DEF Inductive, ChoiceInv
    <3>4. run'[q].writer = p /\ run'[q].reviewer = g /\ run'[q].routed = d /\ run'[q].listed = k
      BY <3>1, <3>2
    <3>5. Candidates(run[q].writer)' = Candidates(p) /\ CardOf(run[q].writer)' = CardOf(p)
      BY <1>0, <3>4 DEF Candidates, CardOf, Registered
    <3> QED BY <1>0, <3>3, <3>4, <3>5
  <2> QED BY <2>1, <2>2
<1>15. OwnRowsInv'
  <2>1. run'[r].stamp = run[r].stamp /\ run'[r].at = "create" /\ run'[r].now # 0
    BY <1>0, <1>9, <1>11
  <2> QED BY <1>0, <1>11, <1>12, <2>1, OwnRowsStep DEF Inductive
<1> QED BY <1>13, <1>14, <1>15 DEF Inductive

LEMMA DelegateInductive ==
  ASSUME Inductive, NEW c \in Clients, NEW trace \in 1 .. clock, Delegate(c, trace)
  PROVE  Inductive'
<1>0. UNCHANGED <<card, clock, run, op>>
  BY DEF Delegate
<1>1. PICK t : t = <<"deleg", clock>>
  OBVIOUS
<1>2. t \in TaskIds /\ trace \in Stamps /\ t \notin Rows
  <2>1. clock \in Stamps
    BY TypeIs DEF Inductive
  <2>2. trace \in Stamps
    BY <2>1, MaxStampAssumption DEF Stamps
  <2> QED BY <1>1, <2>1, <2>2 DEF TaskIds, Prefix, Delegate
<1>3. Opened(trace) \in Row
  BY <1>2, NewRow
<1>4. db' = [db EXCEPT ![t] = Opened(trace)]
  BY <1>1 DEF Delegate
<1>5. db \in [TaskIds -> Row] /\ Row' = Row
  BY <1>0, TypeIs DEF Inductive, Row, Registered
<1>6. db' \in [TaskIds -> Row'] /\ \A u \in TaskIds \ {t} : db'[u] = db[u]
  BY <1>3, <1>4, <1>5
<1>7. Keeps({})
  BY <1>2, <1>6 DEF Keeps, Rows
<1>8. /\ clock' \in Stamps /\ op' \in [Clients -> OpRec]
      /\ \A d \in Clients : op'[d].at # "idle" => op'[d].task \in TaskIds
  BY <1>0, TypeIs DEF Inductive
<1> QED BY <1>0, <1>6, <1>7, <1>8, RunsStand

\* A step of a client's connection, and what it does to the table.
LEMMA OpSteps ==
  ASSUME Inductive, UNCHANGED <<card, clock, run>>, NEW c \in Clients, NEW e \in OpRec,
         e.at # "idle" => e.task \in TaskIds,
         op' = [op EXCEPT ![c] = e], db' \in [TaskIds -> Row'], Keeps({})
  PROVE  Inductive'
<1>1. /\ clock \in Stamps /\ op \in [Clients -> OpRec]
      /\ \A d \in Clients : op[d].at # "idle" => op[d].task \in TaskIds
  BY TypeIs DEF Inductive
<1>2. op' \in [Clients -> OpRec] /\ op'[c] = e /\ \A d \in Clients \ {c} : op'[d] = op[d]
  BY <1>1
<1>3. \A d \in Clients : op'[d].at # "idle" => op'[d].task \in TaskIds
  BY <1>1, <1>2
<1> QED BY <1>1, <1>2, <1>3, RunsStand

LEMMA NoOpIs == NoOp \in OpRec /\ NoOp.at = "idle"
BY DEF NoOp, OpRec, TaskState

\* What is first in a set of rows is one of them: the numbers the order compares.
Weight(t) == 4 * t[2] + Rank[t[1]]

LEMMA WeightOrder ==
  ASSUME NEW t \in TaskIds, NEW u \in TaskIds
  PROVE  /\ Weight(t) \in Nat
         /\ Weight(t) <= Weight(u) /\ t # u => Before(t, u)
<1>1. PICK p \in Prefix, s \in Nat : t = <<p, s>>
  BY MaxStampAssumption DEF TaskIds, Stamps
<1>2. PICK o \in Prefix, v \in Nat : u = <<o, v>>
  BY MaxStampAssumption DEF TaskIds, Stamps
<1>3. /\ Rank[p] \in 1 .. 4 /\ Rank[o] \in 1 .. 4
      /\ Rank[p] = Rank[o] => p = o
  BY DEF Rank, Prefix
<1>4. PICK x, y \in 1 .. 4 : x = Rank[p] /\ y = Rank[o]
  BY <1>3
<1>5. Weight(t) = 4 * s + x /\ Weight(u) = 4 * v + y
  BY <1>1, <1>2, <1>4 DEF Weight
<1>6. Before(t, u) <=> s < v \/ (s = v /\ x < y)
  BY <1>1, <1>2, <1>4 DEF Before
<1>7. t # u => s # v \/ x # y
  BY <1>1, <1>2, <1>3, <1>4
<1>8. 4 * s + x <= 4 * v + y => s < v \/ (s = v /\ x <= y)
  OBVIOUS
<1>9. 4 * s + x \in Nat
  OBVIOUS
<1> QED BY <1>5, <1>6, <1>7, <1>8, <1>9

LEMMA FirstIn ==
  ASSUME NEW S \in SUBSET TaskIds, S # {}
  PROVE  First(S) \in S
<1> DEFINE T == {Weight(t) : t \in S}
<1>1. T \in SUBSET Nat /\ T # {}
  BY WeightOrder
<1>2. PICK n \in T : \A m \in T : n <= m
  BY <1>1, LeastNumber
<1>3. PICK t \in S : n = Weight(t)
  OBVIOUS
<1>4. \A u \in S \ {t} : Before(t, u)
  BY <1>2, <1>3, WeightOrder
<1> QED BY <1>4, FirstIs

LEMMA ClaimListInductive ==
  ASSUME Inductive, NEW c \in Clients, NEW kinds \in KindFilters, ClaimList(c, kinds)
  PROVE  Inductive'
<1>0. UNCHANGED <<card, db, clock, run>>
  BY DEF ClaimList
<1>1. PICK open : open = {t \in Rows : db[t].state = "open" /\ KindOf(t) \in kinds}
  OBVIOUS
<1>2. PICK t : t = First(open)
  OBVIOUS
<1>3. open # {} /\ open \in SUBSET TaskIds
  BY <1>1 DEF ClaimList, Rows
<1>4. t \in TaskIds
  BY <1>2, <1>3, FirstIn
<1>5. PICK e : e = [at |-> "assign", task |-> t, claims |-> TRUE, next |-> "claimed"]
  OBVIOUS
<1>6. e \in OpRec /\ e.task = t
  BY <1>4, <1>5 DEF OpRec, TaskState
<1>7. op' = [op EXCEPT ![c] = e]
  BY <1>1, <1>2, <1>5 DEF ClaimList
<1>8. db' \in [TaskIds -> Row'] /\ Keeps({})
  BY <1>0, SameTable DEF Inductive
<1> QED BY <1>0, <1>4, <1>6, <1>7, <1>8, OpSteps

LEMMA ClaimAssignInductive ==
  ASSUME Inductive, NEW c \in Clients, ClaimAssign(c)
  PROVE  Inductive'
<1>0. UNCHANGED <<card, clock, run>> /\ op[c].at = "assign"
  BY DEF ClaimAssign
<1>1. PICK x \in OpRec : x = op[c]
  BY TypeIs DEF Inductive
<1>2. x.task \in TaskIds
  BY <1>0, <1>1, TypeIs DEF Inductive
<1>3. CASE SpeaksFor[c] \in Registered
  <2>1. PICK a \in Registered : a = SpeaksFor[c]
    BY <1>3
  <2>2. db' = [db EXCEPT ![x.task].assignee = a]
    BY <1>1, <1>3, <2>1 DEF ClaimAssign
  <2>3. PICK e : e = [x EXCEPT !.at = "move"]
    OBVIOUS
  <2>4. e \in OpRec /\ e.task = x.task
    BY <2>3 DEF OpRec
  <2>5. op' = [op EXCEPT ![c] = e]
    BY <1>1, <1>3, <2>3 DEF ClaimAssign
  <2>6. db' \in [TaskIds -> Row'] /\ Keeps({})
    BY <1>0, <1>2, <2>2, AssigneeChange DEF Inductive
  <2> QED BY <1>0, <1>2, <2>4, <2>5, <2>6, OpSteps
<1>4. CASE SpeaksFor[c] \notin Registered
  <2>1. op' = [op EXCEPT ![c] = NoOp] /\ db' = db
    BY <1>4 DEF ClaimAssign
  <2>2. db' \in [TaskIds -> Row'] /\ Keeps({})
    BY <1>0, <2>1, SameTable DEF Inductive
  <2> QED BY <1>0, <2>1, <2>2, NoOpIs, OpSteps
<1> QED BY <1>3, <1>4

LEMMA CompleteInductive ==
  ASSUME Inductive, NEW c \in Clients, NEW t \in TaskIds, Complete(c, t)
  PROVE  Inductive'
<1>0. UNCHANGED <<card, db, clock, run>>
  BY DEF Complete
<1>1. PICK next \in TaskState : next = CASE db[t].state = "open" -> "claimed"
                                         [] db[t].state = "claimed" -> "working"
                                         [] OTHER -> "done"
  BY DEF TaskState
<1>2. PICK e : e = [at |-> "move", task |-> t, claims |-> FALSE, next |-> next]
  OBVIOUS
<1>3. e \in OpRec /\ e.task = t
  BY <1>2 DEF OpRec
<1>4. op' = [op EXCEPT ![c] = e]
  BY <1>1, <1>2 DEF Complete
<1>5. db' \in [TaskIds -> Row'] /\ Keeps({})
  BY <1>0, SameTable DEF Inductive
<1> QED BY <1>0, <1>3, <1>4, <1>5, OpSteps

LEMMA ClientMoveInductive ==
  ASSUME Inductive, NEW c \in Clients, ClientMove(c)
  PROVE  Inductive'
<1>0. UNCHANGED <<card, clock, run>> /\ op[c].at = "move"
  BY DEF ClientMove
<1>1. PICK x \in OpRec : x = op[c]
  BY TypeIs DEF Inductive
<1>2. x.task \in TaskIds /\ x.next \in TaskState
  BY <1>0, <1>1, TypeIs DEF Inductive, OpRec
<1>3. db' \in [TaskIds -> Row'] /\ Keeps({})
  <2>1. CASE CanTransition(db[x.task].state, x.next)
    <3>1. db' = [db EXCEPT ![x.task].state = x.next]
      BY <1>1, <2>1 DEF ClientMove
    <3> QED BY <1>0, <1>2, <3>1, StateChange DEF Inductive
  <2>2. CASE ~ CanTransition(db[x.task].state, x.next)
    <3>1. db' = db
      BY <1>1, <2>2 DEF ClientMove
    <3> QED BY <1>0, <3>1, SameTable DEF Inductive
  <2> QED BY <2>1, <2>2
<1>4. \E e \in OpRec : op' = [op EXCEPT ![c] = e] /\ (e.at # "idle" => e.task \in TaskIds)
  <2>1. CASE CanTransition(db[x.task].state, x.next) /\ ~ x.claims /\ x.next # "done"
    <3>1. PICK n \in TaskState : n = IF x.next = "claimed" THEN "working" ELSE "done"
      BY DEF TaskState
    <3>2. PICK e : e = [x EXCEPT !.next = n]
      OBVIOUS
    <3>3. e \in OpRec /\ e.task = x.task
      BY <3>2 DEF OpRec
    <3>4. op' = [op EXCEPT ![c] = e]
      BY <1>1, <2>1, <3>1, <3>2 DEF ClientMove
    <3> QED BY <1>2, <3>3, <3>4
  <2>2. CASE ~ (CanTransition(db[x.task].state, x.next) /\ ~ x.claims /\ x.next # "done")
    <3>1. op' = [op EXCEPT ![c] = NoOp]
      BY <1>1, <2>2 DEF ClientMove
    <3> QED BY <3>1, NoOpIs
  <2> QED BY <2>1, <2>2
<1> QED BY <1>0, <1>3, <1>4, OpSteps

LEMMA StepInductive ==
  ASSUME Inductive, [Next]_vars
  PROVE  Inductive'
<1>1. CASE UNCHANGED vars
  <2>1. UNCHANGED <<card, db, clock, run, op>>
    BY <1>1 DEF vars
  <2>2. db' \in [TaskIds -> Row'] /\ Keeps({})
    BY <2>1, SameTable DEF Inductive
  <2> QED BY <2>1, <2>2, RunsStand, TypeIs DEF Inductive
<1>2. CASE Tick
  BY <1>2, TickInductive
<1>3. ASSUME NEW r \in Runs, RunNext(r)
      PROVE  Inductive'
  <2>1. ASSUME NEW q \in Requests, Start(r, q[1], q[2])
        PROVE  Inductive'
    <3>1. q[1] \in Agents /\ q[2] \in Agents
      BY AdmissionAssumption
    <3> QED BY <2>1, <3>1, StartInductive
  <2> QED BY <1>3, <2>1, CreateInductive, BreakInductive, AssignInductive, MoveInductive,
             SucceedInductive, FailInductive DEF RunNext
<1>4. ASSUME NEW c \in Clients, ClientNext(c)
      PROVE  Inductive'
  BY <1>4, DelegateInductive, CompleteInductive, ClaimListInductive, ClaimAssignInductive,
     ClientMoveInductive DEF ClientNext
<1> QED BY <1>1, <1>2, <1>3, <1>4 DEF Next

\* What the three answers rest on: the reviewer of a run is what the router answered to the
\* cards as they still are, and a run's rows are its own whatever clients do to them.
THEOREM AdmissionInductive == Spec => []Inductive
<1> QED BY InitInductive, StepInductive, PTL DEF Spec

\* Rows, runs and connections are of their types; a connection that is serving a request
\* serves it for a task that may exist.
THEOREM AdmissionTypes == Spec => []TypeOK
<1>1. Inductive => TypeOK
  BY DEF Inductive
<1> QED BY <1>1, AdmissionInductive, PTL

\* The reviewer of a run that could read the cards is the one to prefer, in the order the
\* comment in CostRouter::pick gives, in every registry: the weights 2 and 3 of the router
\* add up to that order.
THEOREM BestReviewers == Spec => []ReviewerIsBest
<1>1. Inductive => ReviewerIsBest
  BY BestReviewer DEF Inductive
<1> QED BY <1>1, AdmissionInductive, PTL

\* What `divan router explain` answers about a review task is the agent that reviews it, as
\* long as the first implement task of its trace is the run's and still assigned to its writer.
THEOREM ExplainIsRight == Spec => []ExplainAgrees
<1>1. Inductive => ExplainAgrees
  BY SameAnswer DEF Inductive
<1> QED BY <1>1, AdmissionInductive, PTL

-----------------------------------------------------------------------------
(* Sequences and paths.                                                    *)

\* Induction over sequences: a set that has the empty one and is closed under Append.
LEMMA SeqInduction ==
  ASSUME NEW X, NEW G, <<>> \in G,
         \A s \in Seq(X) : \A x \in X : s \in G => Append(s, x) \in G
  PROVE  Seq(X) \subseteq G
<1> DEFINE T == {n \in Nat : \E s \in Seq(X) : Len(s) = n /\ s \notin G}
<1> SUFFICES ASSUME NEW u \in Seq(X), u \notin G PROVE FALSE
  OBVIOUS
<1>1. Len(u) \in T
  BY LenProperties
<1>2. PICK n \in T : \A m \in T : n <= m
  BY <1>1, LeastNumber
<1>3. PICK s \in Seq(X) : Len(s) = n /\ s \notin G
  OBVIOUS
<1>4. s # <<>>
  BY <1>3
<1>5. PICK t \in Seq(X), x \in X : s = Append(t, x)
  BY <1>4, SequenceEmptyOrAppend
<1>6. Len(t) \in Nat /\ Len(s) = Len(t) + 1
  BY <1>5, AppendProperties, LenProperties
<1>7. Len(t) \notin T
  BY <1>2, <1>3, <1>6
<1>8. t \in G
  BY <1>6, <1>7
<1> QED BY <1>3, <1>5, <1>8

LEMMA ConcatAppend ==
  ASSUME NEW X, NEW s \in Seq(X), NEW t \in Seq(X), NEW x \in X
  PROVE  s \o Append(t, x) = Append(s \o t, x)
<1>1. PICK e : e = <<x>>
  OBVIOUS
<1>2. e \in Seq(X)
  BY <1>1
<1>3. Append(t, x) = t \o e
  BY <1>1, AppendIsConcat
<1>4. PICK c : c = s \o t
  OBVIOUS
<1>5. c \in Seq(X)
  BY <1>4, ConcatProperties
<1>6. Append(c, x) = c \o e
  BY <1>1, <1>5, AppendIsConcat
<1>7. (s \o t) \o e = s \o (t \o e)
  BY <1>2, ConcatAssociative
<1> QED BY <1>3, <1>4, <1>6, <1>7

\* One component of LexicalNormalize.
Stepped(t, x) ==
  CASE x = "."  -> t
    [] x = ".." -> IF t = << >> THEN << >> ELSE Front(t)
    [] OTHER    -> Append(t, x)

\* The function in its definition.
IsWalk(f, s) ==
  f = [n \in 0 .. Len(s) |-> IF n = 0 THEN << >> ELSE Stepped(f[n - 1], s[n])]

LEMMA WalkAt ==
  ASSUME NEW f, NEW s, IsWalk(f, s), NEW n \in 0 .. Len(s)
  PROVE  f[n] = IF n = 0 THEN << >> ELSE Stepped(f[n - 1], s[n])
BY DEF IsWalk

\* It exists,
LEMMA WalkExists ==
  ASSUME NEW X
  PROVE  \A s \in Seq(X) : \E f : IsWalk(f, s)
<1> DEFINE G == {s \in Seq(X) : \E f : IsWalk(f, s)}
<1>1. <<>> \in G
  <2>1. IsWalk([n \in 0 .. 0 |-> <<>>], <<>>)
    <3>1. 0 .. Len(<<>>) = 0 .. 0 /\ \A n \in 0 .. 0 : n = 0
      OBVIOUS
    <3> QED BY <3>1 DEF IsWalk
  <2> QED BY <2>1
<1>2. ASSUME NEW s \in Seq(X), NEW x \in X, s \in G PROVE Append(s, x) \in G
  <2>1. PICK f : IsWalk(f, s)
    BY <1>2
  <2>2. PICK t : t = Append(s, x)
    OBVIOUS
  <2>3. PICK m : m = Len(s) + 1
    OBVIOUS
  <2>4. /\ t \in Seq(X) /\ Len(t) = m /\ t[m] = x /\ Len(s) = m - 1 /\ m \in Nat \ {0}
        /\ \A i \in 1 .. m - 1 : t[i] = s[i]
    BY <2>2, <2>3, AppendProperties, LenProperties
  <2> DEFINE g == [n \in 0 .. m |-> IF n < m THEN f[n] ELSE Stepped(f[m - 1], x)]
  <2>5. ASSUME NEW n \in 0 .. m
        PROVE  g[n] = IF n = 0 THEN <<>> ELSE Stepped(g[n - 1], t[n])
    <3>1. CASE n = m
      <4>1. m - 1 \in 0 .. m /\ m - 1 < m /\ ~ (m < m) /\ m # 0
        BY <2>4
      <4>2. g[m - 1] = f[m - 1] /\ g[m] = Stepped(f[m - 1], x)
        BY <4>1, <2>4
      <4> HIDE DEF g
      <4> QED BY <3>1, <4>1, <4>2, <2>4
    <3>2. CASE n # m
      <4>1. n < m /\ n \in 0 .. Len(s) /\ (n # 0 => n - 1 \in 0 .. m /\ n - 1 < m /\ n \in 1 .. m - 1)
        BY <3>2, <2>4
      <4>2. g[n] = f[n] /\ (n # 0 => g[n - 1] = f[n - 1] /\ t[n] = s[n])
        BY <4>1, <2>4
      <4>3. f[n] = IF n = 0 THEN <<>> ELSE Stepped(f[n - 1], s[n])
        BY <2>1, <4>1, WalkAt
      <4> HIDE DEF g
      <4> QED BY <4>2, <4>3
    <3> QED BY <3>1, <3>2
  <2>6. g = [n \in 0 .. m |-> g[n]]
    OBVIOUS
  <2> HIDE DEF g
  <2>7. IsWalk(g, t)
    BY <2>4, <2>5, <2>6 DEF IsWalk
  <2> QED BY <2>2, <2>4, <2>7
<1>3. Seq(X) \subseteq G
  <2> HIDE DEF G
  <2> QED BY <1>1, <1>2, SeqInduction
<1> QED BY <1>3

\* and is what LexicalNormalize reads its result from.
LEMMA NormalizeIs ==
  ASSUME NEW X, NEW s \in Seq(X)
  PROVE  \E f : IsWalk(f, s) /\ LexicalNormalize(s) = f[Len(s)]
<1> DEFINE g == CHOOSE out : out = [n \in 0 .. Len(s) |->
                  IF n = 0 THEN << >>
                  ELSE CASE s[n] = "."  -> out[n - 1]
                         [] s[n] = ".." -> IF out[n - 1] = << >> THEN << >> ELSE Front(out[n - 1])
                         [] OTHER       -> Append(out[n - 1], s[n])]
<1>1. \E f : IsWalk(f, s)
  BY WalkExists
<1>2. IsWalk(g, s)
  BY <1>1 DEF IsWalk, Stepped
<1>3. LexicalNormalize(s) = g[Len(s)]
  BY DEF LexicalNormalize
<1> QED BY <1>2, <1>3

LEMMA NormalizeEmpty == LexicalNormalize(<<>>) = <<>>
<1>1. PICK f : IsWalk(f, <<>>) /\ LexicalNormalize(<<>>) = f[Len(<<>>)]
  <2>1. <<>> \in Seq({})
    BY EmptySeq
  <2> QED BY <2>1, NormalizeIs
<1>2. Len(<<>>) = 0 /\ 0 \in 0 .. Len(<<>>)
  OBVIOUS
<1>3. f[0] = <<>>
  BY <1>1, <1>2, WalkAt
<1> QED BY <1>1, <1>2, <1>3

LEMMA NormalizeAppend ==
  ASSUME NEW X, NEW s \in Seq(X), NEW x \in X
  PROVE  LexicalNormalize(Append(s, x)) = Stepped(LexicalNormalize(s), x)
<1>1. PICK t : t = Append(s, x)
  OBVIOUS
<1>2. PICK m : m = Len(s) + 1
  OBVIOUS
<1>3. /\ t \in Seq(X) /\ Len(t) = m /\ t[m] = x /\ Len(s) = m - 1 /\ m \in Nat \ {0}
      /\ \A i \in 1 .. m - 1 : t[i] = s[i]
  BY <1>1, <1>2, AppendProperties, LenProperties
<1>4. PICK f : IsWalk(f, s) /\ LexicalNormalize(s) = f[m - 1]
  BY <1>3, NormalizeIs
<1>5. PICK g : IsWalk(g, t) /\ LexicalNormalize(t) = g[m]
  BY <1>3, NormalizeIs
<1>6. \A n \in 0 .. m - 1 : f[n] = g[n]
  <2> DEFINE T == {n \in 0 .. m - 1 : f[n] # g[n]}
  <2> SUFFICES ASSUME T # {} PROVE FALSE
    OBVIOUS
  <2>1. T \in SUBSET Nat
    BY <1>3
  <2>2. PICK n \in T : \A k \in T : n <= k
    BY <2>1, LeastNumber
  <2>3. n \in 0 .. Len(s) /\ n \in 0 .. Len(t) /\ f[n] # g[n] /\ n \in Nat
    BY <1>3
  <2>4. /\ f[n] = IF n = 0 THEN <<>> ELSE Stepped(f[n - 1], s[n])
        /\ g[n] = IF n = 0 THEN <<>> ELSE Stepped(g[n - 1], t[n])
    BY <1>4, <1>5, <2>3, WalkAt
  <2>5. n # 0 => f[n - 1] = g[n - 1] /\ s[n] = t[n]
    <3>1. ASSUME n # 0 PROVE n - 1 \in 0 .. m - 1 /\ ~ (n <= n - 1) /\ n \in 1 .. m - 1
      BY <3>1, <2>3, <1>3
    <3> QED BY <3>1, <2>2, <1>3
  <2> QED BY <2>3, <2>4, <2>5
<1>7. m \in 0 .. Len(t) /\ m # 0 /\ m - 1 \in 0 .. m - 1
  BY <1>3
<1>8. g[m] = Stepped(g[m - 1], x)
  BY <1>3, <1>5, <1>7, WalkAt
<1> QED BY <1>1, <1>4, <1>5, <1>6, <1>7, <1>8

\* What a path may consist of.
Comps == Plain \cup {".", ".."}

LEMMA PlainIs ==
  /\ Plain \subseteq Comps /\ "." \in Comps /\ ".." \in Comps
  /\ ".divan" \in Plain /\ "worktrees" \in Plain /\ "file" \in Plain
  /\ "." \notin Plain /\ ".." \notin Plain
  /\ \A s \in Seq(Plain) : s \in Seq(Comps)
<1>1. Plain \subseteq Comps
  BY DEF Comps
<1>2. \A s \in Seq(Plain) : s \in Seq(Comps)
  BY <1>1, SeqMonotonic
<1> QED BY <1>1, <1>2, CwdAssumption, AdmissionAssumption DEF Comps

\* What follows a path and consists of names is kept,
LEMMA NamesKept ==
  ASSUME NEW s \in Seq(Comps), LexicalNormalize(s) \in Seq(Plain)
  PROVE  \A p \in Seq(Plain) : LexicalNormalize(s \o p) = LexicalNormalize(s) \o p
<1> DEFINE G == {p \in Seq(Plain) : LexicalNormalize(s \o p) = LexicalNormalize(s) \o p}
<1>1. <<>> \in G
  <2>1. s \o <<>> = s /\ LexicalNormalize(s) \o <<>> = LexicalNormalize(s) /\ <<>> \in Seq(Plain)
    BY ConcatEmptySeq, EmptySeq
  <2> QED BY <2>1
<1>2. ASSUME NEW p \in Seq(Plain), NEW x \in Plain, p \in G PROVE Append(p, x) \in G
  <2>1. PICK n : n = LexicalNormalize(s)
    OBVIOUS
  <2>2. PICK sp : sp = s \o p
    OBVIOUS
  <2>3. p \in Seq(Comps) /\ x \in Comps
    BY PlainIs
  <2>4. sp \in Seq(Comps)
    BY <2>2, <2>3, ConcatProperties
  <2>5. s \o Append(p, x) = Append(sp, x)
    BY <2>2, <2>3, ConcatAppend
  <2>6. LexicalNormalize(Append(sp, x)) = Stepped(LexicalNormalize(sp), x)
    BY <2>3, <2>4, NormalizeAppend
  <2>7. LexicalNormalize(sp) = n \o p
    BY <1>2, <2>1, <2>2
  <2>8. x # "." /\ x # ".."
    BY PlainIs
  <2>9. \A t : Stepped(t, x) = Append(t, x)
    BY <2>8 DEF Stepped
  <2>10. n \o Append(p, x) = Append(n \o p, x)
    BY <2>1, ConcatAppend
  <2>11. Append(p, x) \in Seq(Plain)
    BY AppendProperties
  <2> QED BY <2>1, <2>5, <2>6, <2>7, <2>9, <2>10, <2>11
<1>3. Seq(Plain) \subseteq G
  <2> HIDE DEF G
  <2> QED BY <1>1, <1>2, SeqInduction
<1> QED BY <1>3

LEMMA NamesNormal ==
  ASSUME NEW p \in Seq(Plain)
  PROVE  LexicalNormalize(p) = p
<1>1. LexicalNormalize(<<>>) \in Seq(Plain) /\ <<>> \in Seq(Comps)
  BY NormalizeEmpty, EmptySeq
<1>2. LexicalNormalize(<<>> \o p) = LexicalNormalize(<<>>) \o p
  BY <1>1, NamesKept
<1>3. <<>> \o p = p
  BY ConcatEmptySeq
<1> QED BY <1>2, <1>3, NormalizeEmpty

\* and what follows as many ".." as a path has names begins at the root.
LEMMA UpIs ==
  ASSUME NEW n \in Nat
  PROVE  Up(n) \in Seq({".."}) /\ Len(Up(n)) = n
BY DEF Up

LEMMA UpsRemove ==
  ASSUME NEW s \in Seq(Comps), LexicalNormalize(s) \in Seq(Plain)
  PROVE  \A u \in Seq({".."}) :
           /\ LexicalNormalize(s \o u) \in Seq(Plain)
           /\ \/ LexicalNormalize(s \o u) = <<>>
              \/ Len(LexicalNormalize(s \o u)) + Len(u) <= Len(LexicalNormalize(s))
<1>0. PICK L \in Nat : L = Len(LexicalNormalize(s))
  BY LenProperties
<1> DEFINE G == {u \in Seq({".."}) :
                   /\ LexicalNormalize(s \o u) \in Seq(Plain)
                   /\ \/ LexicalNormalize(s \o u) = <<>>
                      \/ Len(LexicalNormalize(s \o u)) + Len(u) <= L}
<1>1. <<>> \in G
  <2>1. s \o <<>> = s /\ <<>> \in Seq({".."}) /\ Len(<<>>) = 0
    BY ConcatEmptySeq, EmptySeq
  <2> QED BY <1>0, <2>1
<1>2. ASSUME NEW u \in Seq({".."}), NEW x \in {".."}, u \in G PROVE Append(u, x) \in G
  <2>1. u \in Seq(Comps) /\ x \in Comps /\ x = ".."
    BY PlainIs, SeqMonotonic
  <2>2. PICK su : su = s \o u
    OBVIOUS
  <2>3. su \in Seq(Comps)
    BY <2>1, <2>2, ConcatProperties
  <2>4. s \o Append(u, x) = Append(su, x)
    BY <2>1, <2>2, ConcatAppend
  <2>5. PICK t \in Seq(Plain) : t = LexicalNormalize(su)
    BY <1>2, <2>2
  <2>6. LexicalNormalize(Append(su, x)) = Stepped(t, x)
    BY <2>1, <2>3, <2>5, NormalizeAppend
  <2>7. Stepped(t, x) = IF t = <<>> THEN <<>> ELSE Front(t)
    BY <2>1 DEF Stepped
  <2>8. Append(u, x) \in Seq({".."}) /\ Len(Append(u, x)) = Len(u) + 1 /\ Len(u) \in Nat
    BY AppendProperties, LenProperties
  <2>9. CASE t = <<>>
    <3>1. LexicalNormalize(s \o Append(u, x)) = <<>> /\ <<>> \in Seq(Plain)
      BY <2>4, <2>6, <2>7, <2>9, EmptySeq
    <3> QED BY <2>8, <3>1
  <2>10. CASE t # <<>>
    <3>1. PICK f \in Seq(Plain), y \in Plain : t = Append(f, y)
      BY <2>10, SequenceEmptyOrAppend
    <3>2. Len(t) = Len(f) + 1 /\ Len(f) \in Nat
      BY <3>1, AppendProperties, LenProperties
    <3>3. Front(t) \in Seq(Plain) /\ Len(Front(t)) = Len(f)
      <4>1. Len(t) - 1 = Len(f) /\ 1 \in Int /\ Len(f) \in Int
        BY <3>2
      <4>2. \A i \in 1 .. Len(f) : t[i] \in Plain
        BY <3>2, ElementOfSeq
      <4>3. SubSeq(t, 1, Len(f)) \in Seq(Plain) /\ Len(SubSeq(t, 1, Len(f))) = IF 1 <= Len(f) THEN Len(f) - 1 + 1 ELSE 0
        BY <4>1, <4>2, SubSeqProperties
      <4> QED BY <3>2, <4>1, <4>3 DEF Front
    <3>4. Len(t) + Len(u) <= L
      BY <1>2, <2>2, <2>5, <2>10
    <3>5. Len(Front(t)) + (Len(u) + 1) <= L
      BY <2>8, <3>2, <3>3, <3>4
    <3>6. LexicalNormalize(s \o Append(u, x)) = Front(t)
      BY <2>4, <2>6, <2>7, <2>10
    <3> QED BY <2>8, <3>3, <3>5, <3>6
  <2> QED BY <2>9, <2>10
<1>3. Seq({".."}) \subseteq G
  <2> HIDE DEF G
  <2> QED BY <1>1, <1>2, SeqInduction
<1> QED BY <1>0, <1>3

LEMMA FromTheRoot ==
  ASSUME NEW s \in Seq(Plain), NEW n \in Nat, n >= Len(s), NEW p \in Seq(Plain)
  PROVE  LexicalNormalize((s \o Up(n)) \o p) = p
<1>1. s \in Seq(Comps) /\ LexicalNormalize(s) = s /\ Up(n) \in Seq({".."}) /\ Len(Up(n)) = n
      /\ Up(n) \in Seq(Comps)
  BY PlainIs, NamesNormal, UpIs, SeqMonotonic
<1>2. PICK m : m = s \o Up(n)
  OBVIOUS
<1>3. m \in Seq(Comps)
  BY <1>1, <1>2, ConcatProperties
<1>4. LexicalNormalize(m) = <<>>
  <2>1. LexicalNormalize(m) \in Seq(Plain) /\
        (LexicalNormalize(m) = <<>> \/ Len(LexicalNormalize(m)) + n <= Len(s))
    BY <1>1, <1>2, UpsRemove
  <2>2. PICK k : k = LexicalNormalize(m)
    OBVIOUS
  <2>3. Len(k) \in Nat /\ Len(s) \in Nat /\ (k # <<>> => Len(k) # 0)
    BY <2>1, <2>2, LenProperties, EmptySeq
  <2> QED BY <2>1, <2>2, <2>3
<1>5. LexicalNormalize(m \o p) = <<>> \o p
  BY <1>3, <1>4, NamesKept, EmptySeq
<1> QED BY <1>2, <1>5, ConcatEmptySeq

-----------------------------------------------------------------------------
(* BoundaryHolds.                                                          *)

LEMMA PlacesArePlain ==
  /\ \A s \in Stamps : /\ WorktreePath(s).comps \in Seq(Plain)
                       /\ WorktreeDir(s) = Cwd \o WorktreePath(s).comps
                       /\ WorktreeDir(s) \in Seq(Plain)
  /\ \A loc \in Locations : loc \in Seq(Plain)
<1>1. ASSUME NEW s \in Stamps
      PROVE  /\ WorktreePath(s).comps = <<".divan", "worktrees", DirName[s]>>
             /\ WorktreePath(s).comps \in Seq(Plain)
  <2>1. DirName[s] \in Plain
    BY AdmissionAssumption
  <2>2. PICK d \in Plain, n \in Plain, w \in Plain :
          d = DirName[s] /\ n = ".divan" /\ w = "worktrees"
    BY <2>1, PlainIs
  <2>3. <<n, w, d>> \in Seq(Plain)
    OBVIOUS
  <2> QED BY <2>2, <2>3 DEF WorktreePath
<1>2. ASSUME NEW s \in Stamps
      PROVE  /\ WorktreeDir(s) = Cwd \o WorktreePath(s).comps
             /\ WorktreeDir(s) \in Seq(Plain)
  <2>1. PICK c \in Seq(Plain) : c = WorktreePath(s).comps
    BY <1>1
  <2>2. WorktreeDir(s) = Cwd \o c
    BY <1>1, <2>1 DEF WorktreeDir
  <2>3. Cwd \o c \in Seq(Plain)
    BY CwdAssumption, ConcatProperties
  <2> QED BY <2>1, <2>2, <2>3
<1>3. ASSUME NEW loc \in Locations PROVE loc \in Seq(Plain)
  <2>1. PICK dir \in {Cwd} \cup {WorktreeDir(s) : s \in Stamps} : loc = dir \o <<"file">>
    BY DEF Locations
  <2>2. dir \in Seq(Plain)
    BY <1>2, CwdAssumption
  <2>3. PICK f : f = <<"file">>
    OBVIOUS
  <2>4. f \in Seq(Plain)
    <3>1. PICK x \in Plain : x = "file"
      BY PlainIs
    <3> QED BY <2>3, <3>1
  <2>5. dir \o f \in Seq(Plain)
    BY <2>2, <2>4, ConcatProperties
  <2> QED BY <2>1, <2>3, <2>5
<1> QED BY <1>1, <1>2, <1>3

\* A path in front of another is the first part of it.
LEMMA PrefixIs ==
  ASSUME NEW X, NEW s \in Seq(X), NEW t \in Seq(X), IsPrefix(s, t)
  PROVE  /\ SubSeq(t, Len(s) + 1, Len(t)) \in Seq(X)
         /\ t = s \o SubSeq(t, Len(s) + 1, Len(t))
<1>1. PICK n, m \in Nat : n = Len(s) /\ m = Len(t)
  BY LenProperties
<1>2. n <= m /\ SubSeq(s, 1, n) = SubSeq(t, 1, n)
  BY <1>1 DEF IsPrefix
<1>3. SubSeq(s, 1, n) = s /\ SubSeq(t, 1, m) = t
  BY <1>1, SubSeqFull
<1>4. 1 \in 1 .. m + 1 /\ n \in 1 - 1 .. m /\ m \in n .. m
  BY <1>2
<1>5. SubSeq(t, 1, n) \o SubSeq(t, n + 1, m) = SubSeq(t, 1, m)
  BY <1>1, <1>4, ConcatAdjacentSubSeq
<1>6. SubSeq(t, n + 1, m) \in Seq(X)
  <2>1. \A i \in n + 1 .. m : t[i] \in X
    BY <1>1, ElementOfSeq
  <2> QED BY <2>1, SubSeqProperties
<1> QED BY <1>1, <1>2, <1>3, <1>5, <1>6

\* However a path to a place is spelled, the policy takes it for that place.
LEMMA SpellingsMean ==
  ASSUME NEW s \in Stamps, NEW loc \in Seq(Plain), NEW path \in Spellings(s, loc)
  PROVE  LexicalNormalize(IF path.abs THEN path.comps ELSE WorktreeDir(s) \o path.comps) = loc
<1>1. PICK wt \in Seq(Plain) : wt = WorktreeDir(s)
  BY PlacesArePlain
<1>2. PICK n \in Nat : n = Len(wt)
  BY LenProperties
<1>3. PICK u, v : u = Up(n) /\ v = Up(n + 1)
  OBVIOUS
<1>4. u \in Seq(Comps) /\ v \in Seq(Comps) /\ wt \in Seq(Comps) /\ loc \in Seq(Comps)
  <2>1. {".."} \subseteq Comps
    BY PlainIs
  <2>2. u \in Seq({".."}) /\ v \in Seq({".."})
    BY <1>3, UpIs
  <2>3. u \in Seq(Comps) /\ v \in Seq(Comps)
    BY <2>1, <2>2, SeqMonotonic
  <2> QED BY <2>3, PlainIs
<1>5. \/ path = [abs |-> TRUE, comps |-> loc]
      \/ path = [abs |-> TRUE, comps |-> (wt \o u) \o loc]
      \/ path = [abs |-> FALSE, comps |-> v \o loc]
      \/ /\ IsPrefix(wt, loc)
         /\ path = [abs |-> FALSE, comps |-> <<".">> \o SubSeq(loc, n + 1, Len(loc))]
  BY <1>1, <1>2, <1>3 DEF Spellings
<1>6. CASE path = [abs |-> TRUE, comps |-> loc]
  <2>1. path.abs = TRUE /\ path.comps = loc
    BY <1>6
  <2> QED BY <2>1, NamesNormal
<1>7. CASE path = [abs |-> TRUE, comps |-> (wt \o u) \o loc]
  <2>1. path.abs = TRUE /\ path.comps = (wt \o u) \o loc
    BY <1>7
  <2>2. LexicalNormalize((wt \o Up(n)) \o loc) = loc
    BY <1>2, FromTheRoot
  <2> QED BY <1>3, <2>1, <2>2
<1>8. CASE path = [abs |-> FALSE, comps |-> v \o loc]
  <2>1. path.abs = FALSE /\ path.comps = v \o loc
    BY <1>8
  <2>2. n + 1 \in Nat /\ n + 1 >= Len(wt)
    BY <1>2
  <2>3. LexicalNormalize((wt \o Up(n + 1)) \o loc) = loc
    BY <2>2, FromTheRoot
  <2>4. wt \o (v \o loc) = (wt \o v) \o loc
    BY <1>4, ConcatAssociative
  <2> QED BY <1>1, <1>3, <2>1, <2>3, <2>4
<1>9. CASE /\ IsPrefix(wt, loc)
           /\ path = [abs |-> FALSE, comps |-> <<".">> \o SubSeq(loc, n + 1, Len(loc))]
  <2>1. PICK rest \in Seq(Plain) : rest = SubSeq(loc, n + 1, Len(loc)) /\ loc = wt \o rest
    BY <1>2, <1>9, PrefixIs
  <2>2. PICK dot, d : dot = <<".">> /\ d = "."
    OBVIOUS
  <2>3. path.abs = FALSE /\ path.comps = dot \o rest
    BY <1>9, <2>1, <2>2
  <2>4. d \in Comps /\ dot = <<d>> /\ dot \in Seq(Comps) /\ rest \in Seq(Comps)
    <3>1. d \in Comps /\ dot = <<d>> /\ rest \in Seq(Comps)
      BY <2>2, PlainIs
    <3> QED BY <3>1
  <2>5. PICK wd : wd = wt \o dot
    OBVIOUS
  <2>6. wd = Append(wt, d) /\ wd \in Seq(Comps)
    BY <1>4, <2>4, <2>5, AppendIsConcat, AppendProperties
  <2>7. LexicalNormalize(wd) = wt
    <3>1. LexicalNormalize(Append(wt, d)) = Stepped(LexicalNormalize(wt), d)
      BY <1>4, <2>4, NormalizeAppend
    <3>2. \A t : Stepped(t, d) = t
      BY <2>2 DEF Stepped
    <3> QED BY <2>6, <3>1, <3>2, NamesNormal
  <2>8. LexicalNormalize(wd \o rest) = wt \o rest
    <3>1. LexicalNormalize(wd) \in Seq(Plain)
      BY <2>7
    <3> QED BY <2>6, <2>7, <3>1, NamesKept
  <2>9. wt \o (dot \o rest) = wd \o rest
    BY <1>4, <2>4, <2>5, ConcatAssociative
  <2> QED BY <1>1, <2>1, <2>3, <2>8, <2>9
<1> QED BY <1>5, <1>6, <1>7, <1>8, <1>9

LEMMA BoundaryIsHome ==
  ASSUME TypeOK, OwnRowsInv
  PROVE  BoundaryHolds
<1> SUFFICES ASSUME NEW r \in Runs,
                    InSession(r), db[Own(r)].state = "working", db[Own(r)].assignee = AgentOf(r),
                    \A t \in Rows \ {Own(r)} :
                      db[t].assignee = AgentOf(r) /\ db[t].worktree # 0 /\ db[t].state = "working"
                      => Before(Own(r), t),
                    NEW loc \in Locations, NEW path \in Spellings(run[r].stamp, loc)
             PROVE  HookAllows(AgentOf(r), path) <=>
                      HasCap(card, AgentOf(r), "write") /\ IsPrefix(WorktreeDir(run[r].stamp), loc)
  BY DEF BoundaryHolds
<1>1. PICK s, a, o : s = run[r].stamp /\ a = AgentOf(r) /\ o = Own(r)
  OBVIOUS
<1>2. s # 0 /\ s \in Stamps /\ o \in Rows /\ db[o].worktree = s
  <2>1. run[r].at = "session"
    BY DEF InSession
  <2>2. s # 0 /\ db[o].worktree = s
    BY <1>1, <2>1 DEF OwnRowsInv
  <2>3. s \in Stamps /\ o \in {<<"impl", s>>, <<"review", s>>}
    BY <1>1, <2>2, ReviewerTypes DEF Own
  <2> QED BY <1>1, <2>2, <2>3 DEF OwnRowsInv
<1>3. o \in AtWork(a) /\ AtWork(a) \in SUBSET TaskIds /\ \A t \in AtWork(a) \ {o} : Before(o, t)
  BY <1>1, <1>2 DEF AtWork, Rows
<1>4. db[First(AtWork(a))].worktree = s /\ AtWork(a) # {}
  BY <1>2, <1>3, FirstIs
<1>5. HookAllows(a, path) <=> CheckWrite(card, a, path, WorktreePath(s))
  BY <1>3, <1>4 DEF HookAllows
<1>6. PICK wt \in Seq(Plain) : wt = WorktreeDir(s) /\ wt = Cwd \o WorktreePath(s).comps
  BY <1>2, PlacesArePlain
<1>7. LexicalAbs(WorktreePath(s)) = wt
  <2>1. WorktreePath(s).abs = FALSE
    BY DEF WorktreePath
  <2> QED BY <1>6, <2>1, NamesNormal DEF LexicalAbs
<1>8. LexicalNormalize(IF path.abs THEN path.comps ELSE wt \o path.comps) = loc
  BY <1>1, <1>2, <1>6, PlacesArePlain, SpellingsMean
<1>9. PathWithin(path, WorktreePath(s)) <=> IsPrefix(wt, loc)
  BY <1>7, <1>8 DEF PathWithin
<1> QED BY <1>1, <1>5, <1>6, <1>9 DEF CheckWrite

\* While a session's task is the oldest one its agent is at work on, what the pre-tool-use
\* hook answers to it is whether the agent may write and the place is in the session's
\* worktree, for each of the four spellings of a path of any length and for worktrees of any
\* name.  A session whose agent is at work on an older task has no such promise.
THEOREM BoundaryIsKept == Spec => []BoundaryHolds
<1>1. Inductive => BoundaryHolds
  BY BoundaryIsHome DEF Inductive
<1> QED BY <1>1, AdmissionInductive, PTL
=============================================================================
