----------------------------- MODULE PlayProofs -----------------------------
(***************************************************************************)
(* Proofs about Play, for games of any length, any number of visits and    *)
(* any values of the points: types, that every report is of a finished     *)
(* game, and that all reports of a game are worth the same.                *)
(***************************************************************************)
EXTENDS PlayWords, WellFoundedInduction, FiniteSetTheorems, SequenceTheorems, TLAPS
-----------------------------------------------------------------------------
(***************************************************************************)
(* Words and scores.  A guess wins exactly when it is the solution: what   *)
(* lets Play know a guess by "right" and "wrong".  And what the server     *)
(* pays for a list of guesses, as it grows.                                *)
(***************************************************************************)

\* Whatever the pool of yellow letters, a letter is a hit where the words agree
\* and only there (evaluateGuess, scoring.js).
LEMMA HitWhereSame ==
    ASSUME NEW g, NEW s, NEW i \in 1 .. Len(g)
    PROVE  evaluateGuess(g, s)[i] = "hit" <=> g[i] = s[i]
  BY DEF evaluateGuess, Same

\* All letters are hits if and only if the guess is the solution (evaluateGuess
\* and isWin, scoring.js, against the comparison of words in scoring.go).
THEOREM WinIsSolution ==
    ASSUME NEW Letter, NEW g \in Seq(Letter), NEW s \in Seq(Letter),
           Len(g) = Len(s), Len(g) > 0
    PROVE  isWin(evaluateGuess(g, s)) <=> g = s
<1> DEFINE e == evaluateGuess(g, s)
<1>1. e = [i \in 1 .. Len(g) |-> e[i]]
  BY DEF evaluateGuess
<1>2. Len(e) = Len(g)
  BY <1>1
<1>3. isWin(e) <=> \A i \in 1 .. Len(g) : e[i] = "hit"
  BY <1>2 DEF isWin
<1>4. isWin(e) <=> \A i \in 1 .. Len(g) : g[i] = s[i]
  BY <1>3, HitWhereSame
<1>5. (\A i \in 1 .. Len(g) : g[i] = s[i]) <=> g = s
  OBVIOUS
<1>6. QED
  BY <1>4, <1>5
-----------------------------------------------------------------------------
\* A set of numbers that is not empty has a least one.
LEMMA LeastOf ==
    ASSUME NEW S, S \subseteq Nat, S # {}
    PROVE  \E i \in S : \A j \in S : i <= j
<1>1. PICK i \in S : \A j \in S : ~ (<< j, i >> \in OpToRel(<, Nat))
  BY NatLessThanWellFounded, WFMin
<1>2. ASSUME NEW j \in S PROVE i <= j
  <2>1. i \in Nat /\ j \in Nat
    OBVIOUS
  <2>2. ~ (j < i)
    BY <1>1, <2>1 DEF OpToRel
  <2>3. QED
    BY <2>1, <2>2
<1>3. QED
  BY <1>2

\* A guess that solves a list has a first one before it.
LEMMA FirstSolving ==
    ASSUME NEW word, NEW W, NEW g \in Seq(W), MaxGuesses \in Nat, Solving(word, g) # {}
    PROVE  \E i \in Solving(word, g) : \A j \in Solving(word, g) : i <= j
<1>1. Solving(word, g) \subseteq Nat
  BY DEF Solving, Considered
<1>2. QED
  BY <1>1, LeastOf

\* The score is that of the first solving guess, whichever way it is found.
LEMMA ScoreOfFirst ==
    ASSUME NEW word, NEW W, NEW g \in Seq(W), NEW i \in Solving(word, g),
           \A j \in Solving(word, g) : i <= j
    PROVE  Score(word, g) = [score |-> Points(i), won |-> TRUE]
<1> DEFINE S     == Solving(word, g)
           first == CHOOSE k \in S : \A j \in S : k <= j
<1>1. S \subseteq Int
  BY DEF Solving, Considered
<1>2. first \in S /\ \A j \in S : first <= j
  OBVIOUS
<1>3. first = i
  BY <1>1, <1>2
<1>4. Score(word, g) = [score |-> Points(first), won |-> TRUE]
  BY DEF Score
<1>5. QED
  BY <1>3, <1>4

\* A score is a number of points.
LEMMA ScoreType ==
    ASSUME NEW word, NEW W, NEW g \in Seq(W),
           MaxGuesses \in Nat, scoreFirstSolve \in Nat, scorePerGuess \in Nat
    PROVE  Score(word, g).score \in Nat /\ Score(word, g).won \in BOOLEAN
<1>1. CASE Solving(word, g) = {}
  BY <1>1 DEF Score
<1>2. CASE Solving(word, g) # {}
  <2>1. PICK i \in Solving(word, g) : \A j \in Solving(word, g) : i <= j
    BY <1>2, FirstSolving
  <2>2. Score(word, g) = [score |-> Points(i), won |-> TRUE]
    BY <2>1, ScoreOfFirst
  <2>3. i \in Int
    BY DEF Solving, Considered
  <2>4. (i - 1) * scorePerGuess \in Int
    BY <2>3
  <2>5. Points(i) \in Nat
    BY <2>4 DEF Points
  <2>6. QED
    BY <2>2, <2>5
<1>3. QED
  BY <1>1, <1>2

\* A list that is solved, or as long as a game, keeps its score however it grows
\* (Score in scoring.go; the reports of one game in WordleScene.js).
LEMMA DecidedScoreStays ==
    ASSUME NEW word, NEW W, NEW g \in Seq(W), NEW h \in Seq(W), MaxGuesses \in Nat,
           Len(g) <= Len(h), \A i \in 1 .. Len(g) : g[i] = h[i],
           Score(word, g).won \/ Len(g) >= MaxGuesses
    PROVE  Score(word, h) = Score(word, g)
<1> DEFINE S == Solving(word, g)
           T == Solving(word, h)
<1>1. Len(g) \in Nat /\ Len(h) \in Nat /\ DOMAIN g = 1 .. Len(g) /\ DOMAIN h = 1 .. Len(h)
  OBVIOUS
<1>2. S \subseteq T /\ \A j \in T : j <= Len(g) => j \in S
  BY <1>1 DEF Solving, Considered
<1>3. CASE S # {}
  <2>1. PICK i \in S : \A j \in S : i <= j
    BY <1>3, FirstSolving
  <2>2. i \in T /\ i <= Len(g) /\ i \in Int
    BY <1>1, <1>2 DEF Solving, Considered
  <2>3. ASSUME NEW j \in T PROVE i <= j
    <3>1. j \in Int
      BY <1>1 DEF Solving, Considered
    <3>2. CASE j <= Len(g)
      BY <1>2, <2>1, <3>2
    <3>3. CASE j > Len(g)
      BY <1>1, <2>2, <3>1, <3>3
    <3>4. QED
      BY <1>1, <3>1, <3>2, <3>3
  <2>4. QED
    BY <2>1, <2>2, <2>3, ScoreOfFirst
<1>4. CASE S = {}
  <2>1. ~ Score(word, g).won
    BY <1>4 DEF Score
  <2>2. Len(g) >= MaxGuesses
    BY <2>1
  <2>3. T = {}
    BY <1>1, <1>2, <1>4, <2>2 DEF Solving, Considered
  <2>4. QED
    BY <1>4, <2>3 DEF Score
<1>5. QED
  BY <1>3, <1>4
-----------------------------------------------------------------------------
(***************************************************************************)
(* The two loops of evaluateGuess follow the rule of the game, and the loop*)
(* of score() finds what the server finds.  A loop is a recursive function:*)
(* a closed form of it solves its equation, and the first place where      *)
(* another solution differs cannot be.                                     *)
(***************************************************************************)

\* The letters c that earlier letters of the guess asked for.
Taken(g, s, c, i) == {j \in 1 .. i - 1 : Takes(g, s, c, j)}

\* What is left of the pool of c before letter i.
Left(g, s, c, i) ==
    IF Cardinality(Taken(g, s, c, i)) >= Unhit(g, s, c) THEN 0
    ELSE Unhit(g, s, c) - Cardinality(Taken(g, s, c, i))

\* Pools and letters taken are counted.
LEMMA PoolsCounted ==
    ASSUME NEW Letter, NEW g \in Seq(Letter), NEW s \in Seq(Letter), NEW c
    PROVE  /\ Unhit(g, s, c) \in Nat
           /\ \A i \in 1 .. Len(g) + 1 :
                 IsFiniteSet(Taken(g, s, c, i)) /\ Cardinality(Taken(g, s, c, i)) \in Nat
<1>1. IsFiniteSet(DOMAIN s)
  BY FS_Interval
<1>2. IsFiniteSet({i \in DOMAIN s : s[i] = c /\ ~Same(g, s, i)})
  BY <1>1, FS_Subset
<1>3. ASSUME NEW i \in 1 .. Len(g) + 1
      PROVE  IsFiniteSet(Taken(g, s, c, i)) /\ Cardinality(Taken(g, s, c, i)) \in Nat
  <2>1. IsFiniteSet(1 .. i - 1)
    BY FS_Interval
  <2>2. Taken(g, s, c, i) \subseteq 1 .. i - 1
    BY DEF Taken
  <2>3. IsFiniteSet(Taken(g, s, c, i))
    BY <2>1, <2>2, FS_Subset
  <2>4. QED
    BY <2>3, FS_CardinalityType
<1>4. QED
  BY <1>2, <1>3, FS_CardinalityType DEF Unhit

\* One letter takes one or none.
LEMMA TakenGrows ==
    ASSUME NEW Letter, NEW g \in Seq(Letter), NEW s \in Seq(Letter), NEW c,
           NEW i \in 1 .. Len(g)
    PROVE  Cardinality(Taken(g, s, c, i + 1)) =
             IF Takes(g, s, c, i) THEN Cardinality(Taken(g, s, c, i)) + 1
             ELSE Cardinality(Taken(g, s, c, i))
<1>1. i \in 1 .. Len(g) + 1 /\ i \in Nat /\ Len(g) \in Nat
  OBVIOUS
<1>2. 1 .. (i + 1) - 1 = (1 .. i - 1) \cup {i}
  BY <1>1
<1>3. Taken(g, s, c, i + 1) = IF Takes(g, s, c, i) THEN Taken(g, s, c, i) \cup {i}
                              ELSE Taken(g, s, c, i)
  BY <1>2 DEF Taken
<1>4. i \notin Taken(g, s, c, i)
  BY <1>1 DEF Taken
<1>5. IsFiniteSet(Taken(g, s, c, i))
  BY <1>1, PoolsCounted
<1>6. QED
  BY <1>3, <1>4, <1>5, FS_AddElement

\* The equation of the second loop of evaluateGuess.
Pool(g, s, c, left) ==
    left = [i \in 1 .. Len(g) + 1 |->
              IF i = 1 THEN Unhit(g, s, c)
              ELSE IF Takes(g, s, c, i - 1) /\ left[i-1] > 0
                   THEN left[i-1] - 1 ELSE left[i-1]]

\* Left solves it.
LEMMA LeftIsPool ==
    ASSUME NEW Letter, NEW g \in Seq(Letter), NEW s \in Seq(Letter), NEW c
    PROVE  Pool(g, s, c, [i \in 1 .. Len(g) + 1 |-> Left(g, s, c, i)])
<1> DEFINE h == [i \in 1 .. Len(g) + 1 |-> Left(g, s, c, i)]
<1>1. Len(g) \in Nat /\ Unhit(g, s, c) \in Nat
  BY PoolsCounted
<1>2. Left(g, s, c, 1) = Unhit(g, s, c)
  <2>1. Taken(g, s, c, 1) = {}
    BY DEF Taken
  <2>2. Cardinality(Taken(g, s, c, 1)) = 0
    BY <2>1, FS_EmptySet
  <2>3. QED
    BY <1>1, <2>2 DEF Left
<1>3. ASSUME NEW i \in 1 .. Len(g) + 1, i # 1
      PROVE  Left(g, s, c, i) = IF Takes(g, s, c, i - 1) /\ h[i-1] > 0
                                THEN h[i-1] - 1 ELSE h[i-1]
  <2>1. i - 1 \in 1 .. Len(g) /\ i - 1 \in 1 .. Len(g) + 1 /\ (i - 1) + 1 = i
    BY <1>1, <1>3
  <2>2. h[i-1] = Left(g, s, c, i - 1)
    BY <2>1
  <2>3. Cardinality(Taken(g, s, c, i)) =
          IF Takes(g, s, c, i - 1) THEN Cardinality(Taken(g, s, c, i - 1)) + 1
          ELSE Cardinality(Taken(g, s, c, i - 1))
    <3>1. Cardinality(Taken(g, s, c, (i - 1) + 1)) =
            IF Takes(g, s, c, i - 1) THEN Cardinality(Taken(g, s, c, i - 1)) + 1
            ELSE Cardinality(Taken(g, s, c, i - 1))
      BY <2>1, TakenGrows
    <3>2. QED
      BY <2>1, <3>1
  <2>4. Cardinality(Taken(g, s, c, i - 1)) \in Nat
    BY <2>1, PoolsCounted
  <2> HIDE DEF h
  <2>5. QED
    BY <1>1, <2>2, <2>3, <2>4 DEF Left
<1>4. h = [i \in 1 .. Len(g) + 1 |->
             IF i = 1 THEN Unhit(g, s, c)
             ELSE IF Takes(g, s, c, i - 1) /\ h[i-1] > 0 THEN h[i-1] - 1 ELSE h[i-1]]
  BY <1>2, <1>3
<1>5. QED
  BY <1>4 DEF Pool

\* Nothing else does.
LEMMA PoolIsLeft ==
    ASSUME NEW Letter, NEW g \in Seq(Letter), NEW s \in Seq(Letter), NEW c,
           NEW left, Pool(g, s, c, left)
    PROVE  \A i \in 1 .. Len(g) + 1 : left[i] = Left(g, s, c, i)
<1> DEFINE h == [i \in 1 .. Len(g) + 1 |-> Left(g, s, c, i)]
           B == {i \in 1 .. Len(g) + 1 : left[i] # h[i]}
<1>1. Pool(g, s, c, h)
  BY LeftIsPool
<1> HIDE DEF h
<1>2. SUFFICES B = {}
  BY DEF h
<1>3. SUFFICES ASSUME B # {} PROVE FALSE
  OBVIOUS
<1>4. Len(g) \in Nat /\ B \subseteq Nat
  OBVIOUS
<1>5. PICK i \in B : \A j \in B : i <= j
  BY <1>3, <1>4, LeastOf
<1>6. left[1] = h[1]
  BY <1>1, <1>4 DEF Pool
<1>7. i - 1 \in 1 .. Len(g) + 1 /\ i # 1 /\ i - 1 < i
  BY <1>4, <1>5, <1>6
<1>8. left[i-1] = h[i-1]
  BY <1>5, <1>7
<1>9. left[i] = h[i]
  <2>1. i \in 1 .. Len(g) + 1
    OBVIOUS
  <2>2. left[i] = IF Takes(g, s, c, i - 1) /\ left[i-1] > 0 THEN left[i-1] - 1 ELSE left[i-1]
    BY <1>7, <2>1 DEF Pool
  <2>3. h[i] = IF Takes(g, s, c, i - 1) /\ h[i-1] > 0 THEN h[i-1] - 1 ELSE h[i-1]
    BY <1>1, <1>7, <2>1 DEF Pool
  <2>4. QED
    BY <1>8, <2>2, <2>3
<1>10. QED
  BY <1>9

\* The loop leaves what the count says.
LEMMA RemainingIsLeft ==
    ASSUME NEW Letter, NEW g \in Seq(Letter), NEW s \in Seq(Letter), NEW c,
           NEW i \in 1 .. Len(g) + 1
    PROVE  Remaining(g, s, c)[i] = Left(g, s, c, i)
<1>1. Remaining(g, s, c) = CHOOSE left : Pool(g, s, c, left)
  BY DEF Remaining, Pool
<1>2. Pool(g, s, c, [k \in 1 .. Len(g) + 1 |-> Left(g, s, c, k)])
  BY LeftIsPool
<1>3. Pool(g, s, c, Remaining(g, s, c))
  BY <1>1, <1>2
<1>4. QED
  BY <1>3, PoolIsLeft

\* A letter of the guess is yellow exactly if it is among the first that the pool
\* has room for.
LEMMA AskedIsTaken ==
    ASSUME NEW Letter, NEW g \in Seq(Letter), NEW s \in Seq(Letter),
           NEW i \in 1 .. Len(g), g[i] # s[i]
    PROVE  Remaining(g, s, g[i])[i] > 0 <=>
             Cardinality(Asked(g, s, i)) <= Cardinality(Unplaced(g, s, i))
<1> DEFINE c == g[i]
<1>1. i \in 1 .. Len(g) + 1 /\ Len(g) \in Nat
  OBVIOUS
<1>2. Remaining(g, s, c)[i] = Left(g, s, c, i)
  BY <1>1, RemainingIsLeft
<1>3. Unhit(g, s, c) = Cardinality(Unplaced(g, s, i))
  BY DEF Unhit, Unplaced, Same
<1>4. Asked(g, s, i) = Taken(g, s, c, i + 1)
  BY <1>1 DEF Asked, Taken, Takes, Same
<1>5. Takes(g, s, c, i)
  BY DEF Takes, Same
<1>6. Cardinality(Asked(g, s, i)) = Cardinality(Taken(g, s, c, i)) + 1
  BY <1>4, <1>5, TakenGrows
<1>7. Cardinality(Taken(g, s, c, i)) \in Nat /\ Unhit(g, s, c) \in Nat
  BY <1>1, PoolsCounted
<1>8. Left(g, s, c, i) > 0 <=> Cardinality(Taken(g, s, c, i)) + 1 <= Unhit(g, s, c)
  BY <1>7 DEF Left
<1>9. QED
  BY <1>2, <1>3, <1>6, <1>8

\* The loops of evaluateGuess colour every guess as the rule of the game says, for
\* words of any length over any alphabet, with letters that repeat in either
\* (evaluateGuess, scoring.js:9-41).
THEOREM ColoursAreRight ==
    ASSUME NEW Letter, NEW g \in Seq(Letter), NEW s \in Seq(Letter)
    PROVE  evaluateGuess(g, s) = Feedback(g, s)
<1>1. ASSUME NEW i \in 1 .. Len(g)
      PROVE  (IF Same(g, s, i) THEN "hit"
              ELSE IF Remaining(g, s, g[i])[i] > 0 THEN "present" ELSE "miss")
             = CASE g[i] = s[i] -> "hit"
                 [] g[i] # s[i] /\ Cardinality(Asked(g, s, i)) <= Cardinality(Unplaced(g, s, i))
                      -> "present"
                 [] OTHER -> "miss"
  <2>1. CASE g[i] = s[i]
    BY <2>1 DEF Same
  <2>2. CASE g[i] # s[i]
    BY <2>2, AskedIsTaken DEF Same
  <2>3. QED
    BY <2>1, <2>2
<1>2. QED
  BY <1>1 DEF evaluateGuess, Feedback
-----------------------------------------------------------------------------
\* The solving guesses from the i-th on, and the score of the first of them.
Found(w, g, i) == {j \in Solving(w, g) : j >= i}

ScoreFrom(w, g, i) ==
    IF Found(w, g, i) = {} THEN [score |-> 0, won |-> FALSE]
    ELSE LET first == CHOOSE j \in Found(w, g, i) : \A k \in Found(w, g, i) : j <= k
         IN  [score |-> Points(first), won |-> TRUE]

\* The equation of the loop of score().
Loop(g, w, from) ==
    from = [i \in 1 .. Len(g) + 1 |->
              IF i \notin Looked(g) THEN [score |-> 0, won |-> FALSE]
              ELSE IF g[i] = w
                   THEN [score |-> IF (i - 1) * scorePerGuess > scoreFirstSolve THEN 0
                                   ELSE scoreFirstSolve - (i - 1) * scorePerGuess,
                         won   |-> TRUE]
                   ELSE from[i+1]]

\* What the loop computes at a place, from what it computes at the next one.
LEMMA ScoreFromStep ==
    ASSUME NEW W, NEW g \in Seq(W), NEW w, NEW i \in 1 .. Len(g) + 1
    PROVE  /\ i \notin Looked(g) => ScoreFrom(w, g, i) = [score |-> 0, won |-> FALSE]
           /\ i \in Looked(g) /\ g[i] = w =>
                ScoreFrom(w, g, i) =
                  [score |-> IF (i - 1) * scorePerGuess > scoreFirstSolve THEN 0
                             ELSE scoreFirstSolve - (i - 1) * scorePerGuess,
                   won   |-> TRUE]
           /\ i \in Looked(g) /\ g[i] # w => ScoreFrom(w, g, i) = ScoreFrom(w, g, i + 1)
<1>1. Len(g) \in Nat /\ i \in Nat /\ MaxGuesses \in Nat /\ DOMAIN g = 1 .. Len(g)
      /\ scorePerGuess \in Nat /\ scoreFirstSolve \in Nat
  BY PlayAssumption
<1>2. i \in Looked(g) <=> i <= Len(g) /\ i <= MaxGuesses
  BY <1>1 DEF Looked
<1>3. \A j : j \in Solving(w, g) <=> j \in 1 .. Len(g) /\ j <= MaxGuesses /\ g[j] = w
  BY <1>1 DEF Solving, Considered
<1>4. ASSUME i \notin Looked(g) PROVE ScoreFrom(w, g, i) = [score |-> 0, won |-> FALSE]
  <2>1. Found(w, g, i) = {}
    BY <1>1, <1>2, <1>3, <1>4 DEF Found
  <2>2. QED
    BY <2>1 DEF ScoreFrom
<1>5. ASSUME i \in Looked(g), g[i] = w
      PROVE  ScoreFrom(w, g, i) =
               [score |-> IF (i - 1) * scorePerGuess > scoreFirstSolve THEN 0
                          ELSE scoreFirstSolve - (i - 1) * scorePerGuess,
                won   |-> TRUE]
  <2> DEFINE first == CHOOSE j \in Found(w, g, i) : \A k \in Found(w, g, i) : j <= k
             p     == (i - 1) * scorePerGuess
  <2>1. i \in Found(w, g, i) /\ \A k \in Found(w, g, i) : k \in Int /\ i <= k
    BY <1>1, <1>2, <1>3, <1>5 DEF Found
  <2>2. first \in Found(w, g, i) /\ \A k \in Found(w, g, i) : first <= k
    BY <2>1
  <2>3. first = i
    BY <1>1, <2>1, <2>2
  <2>4. ScoreFrom(w, g, i) = [score |-> Points(i), won |-> TRUE]
    <3>1. ScoreFrom(w, g, i) = [score |-> Points(first), won |-> TRUE]
      BY <2>1 DEF ScoreFrom
    <3>2. QED
      BY <2>3, <3>1
  <2>5. p \in Int
    BY <1>1
  <2>6. Points(i) = IF scoreFirstSolve - p < 0 THEN 0 ELSE scoreFirstSolve - p
    BY DEF Points
  <2> HIDE DEF p
  <2>7. Points(i) = IF p > scoreFirstSolve THEN 0 ELSE scoreFirstSolve - p
    BY <1>1, <2>5, <2>6
  <2>8. QED
    BY <2>4, <2>7 DEF p
<1>6. ASSUME i \in Looked(g), g[i] # w PROVE ScoreFrom(w, g, i) = ScoreFrom(w, g, i + 1)
  <2>1. Found(w, g, i) = Found(w, g, i + 1)
    BY <1>1, <1>3, <1>6 DEF Found
  <2>2. QED
    BY <2>1 DEF ScoreFrom
<1>7. QED
  BY <1>4, <1>5, <1>6

\* ScoreFrom solves the equation.
LEMMA ScoreFromIsLoop ==
    ASSUME NEW W, NEW g \in Seq(W), NEW w
    PROVE  Loop(g, w, [i \in 1 .. Len(g) + 1 |-> ScoreFrom(w, g, i)])
<1> DEFINE h == [i \in 1 .. Len(g) + 1 |-> ScoreFrom(w, g, i)]
<1>1. ASSUME NEW i \in 1 .. Len(g) + 1
      PROVE  ScoreFrom(w, g, i) =
               IF i \notin Looked(g) THEN [score |-> 0, won |-> FALSE]
               ELSE IF g[i] = w
                    THEN [score |-> IF (i - 1) * scorePerGuess > scoreFirstSolve THEN 0
                                    ELSE scoreFirstSolve - (i - 1) * scorePerGuess,
                          won   |-> TRUE]
                    ELSE h[i+1]
  <2>1. i \in Looked(g) => h[i+1] = ScoreFrom(w, g, i + 1)
    BY DEF Looked
  <2> HIDE DEF h
  <2>2. QED
    BY <2>1, ScoreFromStep
<1>2. QED
  BY <1>1 DEF Loop

\* Nothing else does.
LEMMA LoopIsScoreFrom ==
    ASSUME NEW W, NEW g \in Seq(W), NEW w, NEW from, Loop(g, w, from)
    PROVE  \A i \in 1 .. Len(g) + 1 : from[i] = ScoreFrom(w, g, i)
<1> DEFINE n == Len(g) + 1
           h == [i \in 1 .. n |-> ScoreFrom(w, g, i)]
           B == {k \in 0 .. n - 1 : from[n - k] # h[n - k]}
<1>1. Loop(g, w, h)
  BY ScoreFromIsLoop
<1>2. n \in Nat /\ Looked(g) \subseteq 1 .. n - 1
  BY DEF Looked
<1>3. SUFFICES B = {}
  <2>1. ASSUME NEW i \in 1 .. n PROVE from[i] = h[i]
    <3>1. n - i \in 0 .. n - 1 /\ n - (n - i) = i
      BY <1>2
    <3>2. QED
      BY <1>3, <3>1
  <2>2. QED
    BY <2>1
<1> HIDE DEF h
<1>4. SUFFICES ASSUME B # {} PROVE FALSE
  OBVIOUS
<1>5. B \subseteq Nat
  BY <1>2
<1>6. PICK k \in B : \A j \in B : k <= j
  BY <1>4, <1>5, LeastOf
<1>7. PICK i \in 1 .. n : i = n - k /\ from[i] # h[i]
  BY <1>2, <1>6
<1>8. /\ from[i] = IF i \notin Looked(g) THEN [score |-> 0, won |-> FALSE]
                   ELSE IF g[i] = w
                        THEN [score |-> IF (i - 1) * scorePerGuess > scoreFirstSolve THEN 0
                                        ELSE scoreFirstSolve - (i - 1) * scorePerGuess,
                              won   |-> TRUE]
                        ELSE from[i+1]
      /\ h[i] = IF i \notin Looked(g) THEN [score |-> 0, won |-> FALSE]
                ELSE IF g[i] = w
                     THEN [score |-> IF (i - 1) * scorePerGuess > scoreFirstSolve THEN 0
                                     ELSE scoreFirstSolve - (i - 1) * scorePerGuess,
                           won   |-> TRUE]
                     ELSE h[i+1]
  BY <1>1, Zenon DEF Loop
<1>9. i \in Looked(g) /\ from[i+1] # h[i+1]
  BY <1>7, <1>8
<1>10. k - 1 \in 0 .. n - 1 /\ n - (k - 1) = i + 1
  BY <1>2, <1>7, <1>9
<1>11. k - 1 \in B
  BY <1>9, <1>10
<1>12. QED
  BY <1>2, <1>6, <1>10, <1>11

\* The client's loop over a list of guesses finds the score the server gives, for
\* any list and any points (score, scoring.js:56-75; Score, scoring.go).
THEOREM ScoresAgree ==
    ASSUME NEW W, NEW g \in Seq(W), NEW w
    PROVE  score(g, w) = Score(w, g)
<1> DEFINE loop == CHOOSE from : Loop(g, w, from)
<1>1. score(g, w) = loop[1]
  BY DEF score, Loop
<1>2. Loop(g, w, loop)
  <2>1. Loop(g, w, [i \in 1 .. Len(g) + 1 |-> ScoreFrom(w, g, i)])
    BY ScoreFromIsLoop
  <2>2. QED
    BY <2>1
<1> HIDE DEF loop
<1>3. 1 \in 1 .. Len(g) + 1
  OBVIOUS
<1>4. loop[1] = ScoreFrom(w, g, 1)
  BY <1>2, <1>3, LoopIsScoreFrom
<1>5. Found(w, g, 1) = Solving(w, g)
  BY DEF Found, Solving, Considered
<1>6. ScoreFrom(w, g, 1) = Score(w, g)
  BY <1>5 DEF ScoreFrom, Score
<1>7. QED
  BY <1>1, <1>4, <1>6
-----------------------------------------------------------------------------

\* A list of guesses is worth some points.
LEMMA WorthType == ASSUME NEW g \in Seq(Guess) PROVE Worth(g) \in Nat
<1>1. MaxGuesses \in Nat /\ scoreFirstSolve \in Nat /\ scorePerGuess \in Nat
  BY PlayAssumption
<1>2. QED
  BY <1>1, ScoreType DEF Worth

\* A finished list keeps its worth however it grows.
LEMMA DecidedGrows ==
    ASSUME NEW g \in Seq(Guess), NEW h \in Seq(Guess), Grows(g, h), Decided(g)
    PROVE  Worth(g) = Worth(h)
<1>1. MaxGuesses \in Nat
  BY PlayAssumption
<1>2. QED
  BY <1>1, DecidedScoreStays DEF Grows, Decided, Worth

\* A list grows into itself and, guess by guess, into a longer one.
LEMMA GrowsOrder ==
    /\ \A g \in Seq(Guess) : Grows(g, g)
    /\ \A g, h \in Seq(Guess), w \in Guess : Grows(g, h) => Grows(g, Append(h, w))
<1>1. ASSUME NEW g \in Seq(Guess), NEW h \in Seq(Guess), NEW w \in Guess, Grows(g, h)
      PROVE  Grows(g, Append(h, w))
  <2>1. Len(Append(h, w)) = Len(h) + 1 /\ \A i \in 1 .. Len(h) : Append(h, w)[i] = h[i]
    OBVIOUS
  <2>2. QED
    BY <1>1, <2>1 DEF Grows
<1>2. QED
  BY <1>1 DEF Grows

\* A row that wins is among the rows that count.
LEMMA WinIsDecided ==
    ASSUME NEW g \in Seq(Guess), NEW i \in 1 .. Len(g), i <= MaxGuesses, g[i] = "right"
    PROVE  Decided(g)
<1>1. i \in Solving("right", g)
  BY DEF Solving, Considered
<1>2. QED
  BY <1>1 DEF Decided, Score

\* A sequence with one element replaced.
LEMMA UpdateType ==
    ASSUME NEW S, NEW s \in Seq(S), NEW i, NEW e \in S
    PROVE  [s EXCEPT ![i] = e] \in Seq(S)
<1>1. s \in [1 .. Len(s) -> S] /\ Len(s) \in Nat
  OBVIOUS
<1>2. [s EXCEPT ![i] = e] \in [1 .. Len(s) -> S]
  BY <1>1, Zenon
<1>3. QED
  BY <1>1, <1>2, SeqDef

-----------------------------------------------------------------------------
(* Types *)

\* The initial state is well-typed.
LEMMA TypeInit == Init => TypeOK
  BY PlayAssumption DEF Init, TypeOK, Visits

\* A game after a row has flipped is a game.
LEMMA FlipType ==
    ASSUME NEW g \in Game, NEW f \in BOOLEAN
    PROVE  [g EXCEPT !.flipped = @ + 1, !.finished = f] \in Game
<1> DEFINE h == [g EXCEPT !.flipped = @ + 1, !.finished = f]
<1>1. g.guesses \in Seq(Guess) /\ g.flipped + 1 \in Nat
  BY DEF Game
<1>2. DOMAIN h = {"guesses", "flipped", "finished"}
  BY DEF Game
<1>3. h.guesses = g.guesses /\ h.flipped = g.flipped + 1
  BY DEF Game
<1>4. h.finished = f
  BY Zenon DEF Game
<1>5. h = [x \in {"guesses", "flipped", "finished"} |-> h[x]]
  BY <1>2
<1> HIDE DEF h
<1>6. QED
  BY <1>1, <1>3, <1>4, <1>5 DEF Game

\* A report whose handler has moved on.
Moved(r, c, l) == [r EXCEPT !.pos = c, !.lost = l]
CanMove(c, l)  == c \in Boards \cup {"storing", "answering"} /\ l \in BOOLEAN

\* It is a report, in nothing else changed.
LEMMA MoveType ==
    ASSUME NEW r \in Post, NEW c, NEW l, CanMove(c, l), NEW q, q = Moved(r, c, l)
    PROVE  /\ q \in Post /\ q.pos = c /\ q.lost = l
           /\ q.by = r.by /\ q.of = r.of /\ q.guesses = r.guesses
           /\ q.dated = r.dated /\ q.answer = r.answer
<1> DEFINE F == {"by", "of", "guesses", "dated", "pos", "lost", "answer"}
<1>0. q = [r EXCEPT !.pos = c, !.lost = l]
  BY DEF Moved
<1>1. DOMAIN q = F
  BY <1>0 DEF Post
<1>2. q.pos = c /\ q.by = r.by /\ q.of = r.of /\ q.guesses = r.guesses /\ q.answer = r.answer
  BY <1>0 DEF Post
<1>3. q.lost = l /\ q.dated = r.dated
  BY <1>0, Zenon DEF Post
<1>4. q = [x \in F |-> q[x]]
  BY <1>0, <1>1
<1>5. r.by \in Visits /\ r.of \in Visits /\ r.guesses \in Seq(Guess)
      /\ r.answer \in {"none", "ok", "failed"}
  BY DEF Post
<1>6. r.dated \in BOOLEAN
  BY Zenon DEF Post
<1>7. q \in Post
  BY <1>2, <1>3, <1>4, <1>5, <1>6 DEF Post, CanMove
<1>8. QED
  BY <1>2, <1>3, <1>7

\* One report moves on, the others stay.
LEMMA OneMoves ==
    ASSUME NEW s \in Seq(Post), NEW p \in DOMAIN s, NEW c, NEW l, CanMove(c, l),
           NEW t, t = [s EXCEPT ![p] = Moved(s[p], c, l)]
    PROVE  /\ t \in Seq(Post) /\ DOMAIN t = DOMAIN s
           /\ t[p].pos = c /\ t[p].lost = l
           /\ \A q \in DOMAIN s : q # p => t[q] = s[q]
           /\ \A q \in DOMAIN s :
                 /\ t[q].by = s[q].by /\ t[q].of = s[q].of /\ t[q].guesses = s[q].guesses
                 /\ t[q].dated = s[q].dated /\ t[q].answer = s[q].answer
<1>0. PICK r : r = Moved(s[p], c, l)
  OBVIOUS
<1>1. s[p] \in Post
  OBVIOUS
<1>2. /\ r \in Post /\ r.pos = c /\ r.lost = l
      /\ r.by = s[p].by /\ r.of = s[p].of /\ r.guesses = s[p].guesses
      /\ r.dated = s[p].dated /\ r.answer = s[p].answer
  BY <1>0, <1>1, MoveType
<1>3. t = [s EXCEPT ![p] = r]
  BY <1>0
<1>4. t \in Seq(Post)
  BY <1>2, <1>3, UpdateType
<1>5. DOMAIN t = DOMAIN s /\ t[p] = r /\ \A q \in DOMAIN s : q # p => t[q] = s[q]
  BY <1>3
<1>6. QED
  BY <1>2, <1>4, <1>5

\* What storing a report does to the reports.
LEMMA StoreMoves ==
    ASSUME posts \in Seq(Post), NEW p, StoreAttempt(p)
    PROVE  /\ posts' \in Seq(Post) /\ DOMAIN posts' = DOMAIN posts
           /\ posts'[p].pos \in {"daily", "answering"}
           /\ posts'[p].pos = "answering" => ~ (Worth(posts[p].guesses) > 0)
           /\ \A q \in DOMAIN posts : q # p => posts'[q] = posts[q]
           /\ \A q \in DOMAIN posts :
                 /\ posts'[q].by = posts[q].by /\ posts'[q].of = posts[q].of
                 /\ posts'[q].guesses = posts[q].guesses
                 /\ posts'[q].dated = posts[q].dated /\ posts'[q].answer = posts[q].answer
<1> DEFINE c == IF Worth(posts[p].guesses) > 0 THEN "daily" ELSE "answering"
           r == posts[p]
<1>1. p \in DOMAIN posts /\ r \in Post
  BY DEF StoreAttempt
<1>2. c \in {"daily", "answering"} /\ (c = "answering" => ~ (Worth(posts[p].guesses) > 0))
  OBVIOUS
<1>3. r.lost \in BOOLEAN /\ [r EXCEPT !.pos = c] = [r EXCEPT !.pos = c, !.lost = r.lost]
  BY <1>1 DEF Post
<1>4. posts' = [posts EXCEPT ![p] = [r EXCEPT !.pos = c]]
  BY DEF StoreAttempt
<1> HIDE DEF c
<1>5. posts' = [posts EXCEPT ![p] = Moved(posts[p], c, posts[p].lost)]
  BY <1>3, <1>4 DEF Moved
<1>6. CanMove(c, posts[p].lost)
  BY <1>2, <1>3 DEF Boards, CanMove
<1>7. /\ posts' \in Seq(Post) /\ DOMAIN posts' = DOMAIN posts /\ posts'[p].pos = c
      /\ \A q \in DOMAIN posts : q # p => posts'[q] = posts[q]
      /\ \A q \in DOMAIN posts :
            /\ posts'[q].by = posts[q].by /\ posts'[q].of = posts[q].of
            /\ posts'[q].guesses = posts[q].guesses
            /\ posts'[q].dated = posts[q].dated /\ posts'[q].answer = posts[q].answer
  BY <1>1, <1>5, <1>6, OneMoves
<1>8. QED
  BY <1>2, <1>7, Zenon

\* What a submission does to the reports.
LEMMA SubmitMoves ==
    ASSUME posts \in Seq(Post), NEW p, NEW taken \in BOOLEAN, SubmitScore(p, taken)
    PROVE  /\ posts' \in Seq(Post) /\ DOMAIN posts' = DOMAIN posts
           /\ posts'[p].pos = After(posts[p].pos)
           /\ ~posts'[p].lost => taken /\ ~posts[p].lost
           /\ \A q \in DOMAIN posts : q # p => posts'[q] = posts[q]
           /\ \A q \in DOMAIN posts :
                 /\ posts'[q].by = posts[q].by /\ posts'[q].of = posts[q].of
                 /\ posts'[q].guesses = posts[q].guesses
                 /\ posts'[q].dated = posts[q].dated /\ posts'[q].answer = posts[q].answer
<1> DEFINE c == After(posts[p].pos)
           l == posts[p].lost \/ ~taken
<1>1. p \in DOMAIN posts
  BY DEF SubmitScore
<1>2. CanMove(c, l)
  BY DEF After, Boards, CanMove
<1>3. posts' = [posts EXCEPT ![p] = Moved(posts[p], c, l)]
  BY <1>1 DEF SubmitScore, Moved
<1>4. ~l => taken /\ ~posts[p].lost
  OBVIOUS
<1> HIDE DEF c, l
<1>5. /\ posts' \in Seq(Post) /\ DOMAIN posts' = DOMAIN posts
      /\ posts'[p].pos = c /\ posts'[p].lost = l
      /\ \A q \in DOMAIN posts : q # p => posts'[q] = posts[q]
      /\ \A q \in DOMAIN posts :
            /\ posts'[q].by = posts[q].by /\ posts'[q].of = posts[q].of
            /\ posts'[q].guesses = posts[q].guesses
            /\ posts'[q].dated = posts[q].dated /\ posts'[q].answer = posts[q].answer
  BY <1>1, <1>2, <1>3, OneMoves
<1>6. QED
  BY <1>4, <1>5, Zenon DEF c

\* Every step keeps the types.
LEMMA TypeStep == TypeOK /\ [Next]_vars => TypeOK'
<1> SUFFICES ASSUME TypeOK, [Next]_vars PROVE TypeOK'
  OBVIOUS
<1> USE DEF runnerVars, hudVars, serverVars
<1>1. CASE Visit
  BY <1>1, PlayAssumption DEF Visit, TypeOK, Visits
<1>2. CASE Leave
  <2>1. visits \in Nat
    BY PlayAssumption DEF TypeOK
  <2>2. here' \in 0 .. visits
    BY <1>2, <2>1 DEF Leave
  <2>3. game' \in [Visits -> Game \cup {None}]
    BY <1>2 DEF Leave, TypeOK
  <2>4. dead' \subseteq Visits
    <3>1. here \in Visits
      BY <1>2, PlayAssumption DEF Leave, TypeOK, Visits
    <3>2. QED
      BY <1>2, <3>1 DEF Leave, TypeOK
  <2>5. QED
    BY <1>2, <2>2, <2>3, <2>4 DEF Leave, TypeOK
<1>3. CASE Reload
  BY <1>3, PlayAssumption DEF Reload, TypeOK, Begun, Visits
<1>4. ASSUME NEW v \in Visits, VariantLoads(v) \/ PuzzleArrives(v) PROVE TypeOK'
  BY <1>4 DEF VariantLoads, PuzzleArrives, TypeOK
<1>5a. ASSUME NEW v \in Visits, ResumeRead(v) PROVE TypeOK'
  <2>1. (IF stored = None THEN << >> ELSE stored) \in Seq(Guess)
    BY DEF TypeOK
  <2>2. QED
    BY <1>5a, <2>1 DEF ResumeRead, TypeOK
<1>5b. ASSUME NEW v \in Visits, PhaserArrives(v) PROVE TypeOK'
  BY <1>5b DEF PhaserArrives, TypeOK
<1>5. ASSUME NEW v \in Visits, SceneStarts(v) PROVE TypeOK'
  <2>1. resume[v] \in Seq(Guess)
    BY DEF TypeOK
  <2>2. [guesses |-> resume[v], flipped |-> Len(resume[v]), finished |-> Over(resume[v])] \in Game
    BY <2>1 DEF Game, Over
  <2>3. QED
    BY <1>5, <2>2 DEF SceneStarts, TypeOK
<1>6. ASSUME NEW v \in Visits, StartFails(v) PROVE TypeOK'
  BY <1>6 DEF StartFails, TypeOK
<1>7. ASSUME NEW v \in Visits, RowFlipped(v) PROVE TypeOK'
  <2> DEFINE g == game[v]
             won == g.guesses[Row(v)] = "right"
             r == [by |-> here, of |-> v, guesses |-> Reported(g),
                   dated |-> at[here] \notin {"variant", "puzzle"},
                   pos |-> "storing", lost |-> FALSE, answer |-> "none"]
  <2>1. g \in Game
    BY <1>7 DEF RowFlipped, Flips, TypeOK
  <2>2. game' \in [Visits -> Game \cup {None}]
    <3> DEFINE ends == won \/ LostNow(g)
               h == [g EXCEPT !.flipped = @ + 1, !.finished = @ \/ ends]
    <3>1. h \in Game
      <4> DEFINE f == g.finished \/ ends
      <4>1. f \in BOOLEAN
        OBVIOUS
      <4> HIDE DEF f
      <4>2. [g EXCEPT !.flipped = @ + 1, !.finished = f] \in Game
        BY <2>1, <4>1, FlipType
      <4>3. QED
        BY <4>2, Zenon DEF f
    <3>2. game' = [game EXCEPT ![v] = h]
      BY <1>7 DEF RowFlipped, TypeOK
    <3> HIDE DEF h
    <3>3. QED
      BY <3>1, <3>2 DEF TypeOK
  <2>3. here # 0 => r \in Post
    BY <2>1, PlayAssumption DEF TypeOK, Post, Game, Visits, Reported
  <2>4. posts' \in Seq(Post)
    <3>1. posts' = posts \/ (here # 0 /\ posts' = Append(posts, r))
      BY <1>7 DEF RowFlipped
    <3>2. posts \in Seq(Post)
      BY DEF TypeOK
    <3> HIDE DEF r
    <3>3. QED
      BY <2>3, <3>1, <3>2
  <2>5. result' \in [Visits -> Outcome \cup {None}]
    BY <1>7 DEF RowFlipped, TypeOK, Outcome
  <2>6. QED
    BY <1>7, <2>2, <2>4, <2>5 DEF RowFlipped, TypeOK
<1>8. ASSUME NEW vs, NEW w \in Guess, Enter(vs, w), vs \subseteq Visits PROVE TypeOK'
  <2> DEFINE takers == {v \in vs : Accepts(v)}
  <2>1. game' \in [Visits -> Game \cup {None}]
    <3>1. ASSUME NEW v \in takers PROVE [game[v] EXCEPT !.guesses = Append(@, w)] \in Game
      <4>1. game[v] \in Game
        BY <1>8 DEF Accepts, TypeOK
      <4>2. game[v].guesses \in Seq(Guess)
        BY <4>1 DEF Game
      <4>3. Append(game[v].guesses, w) \in Seq(Guess)
        BY <4>2
      <4>4. QED
        BY <4>1, <4>3 DEF Game
    <3>2. QED
      BY <1>8, <3>1 DEF Enter, TypeOK
  <2>2. Cardinality(takers) \in Nat
    <3>1. IsFiniteSet(Visits)
      BY FS_Interval, PlayAssumption DEF Visits
    <3>2. IsFiniteSet(takers)
      BY <1>8, <3>1, FS_Subset
    <3>3. QED
      BY <3>2, FS_CardinalityType
  <2>3. used' \in [Visits -> Nat]
    <3> DEFINE n == Cardinality(takers)
    <3>1. used' = IF HudMounted THEN [used EXCEPT ![here] = @ + n] ELSE used
      BY <1>8 DEF Enter
    <3>2. n \in Nat /\ used \in [Visits -> Nat]
      BY <2>2 DEF TypeOK
    <3>3. \A v \in Visits : used[v] + n \in Nat
      BY <3>2
    <3> HIDE DEF n
    <3>4. QED
      BY <3>1, <3>2, <3>3
  <2>4. QED
    BY <1>8, <2>1, <2>3 DEF Enter, TypeOK
<1>9. ASSUME NEW p \in PostIds, StoreAttempt(p) PROVE TypeOK'
  <2>1. posts[p] \in Post /\ posts \in Seq(Post)
    BY <1>9 DEF StoreAttempt, TypeOK
  <2>2. posts' \in Seq(Post)
    BY <1>9, <2>1, StoreMoves
  <2>3. posts[p].guesses \in Seq(Guess)
    BY <2>1 DEF Post
  <2>4. QED
    BY <1>9, <2>2, <2>3 DEF StoreAttempt, TypeOK
<1>9a. ASSUME NEW p \in PostIds, NEW taken \in BOOLEAN, SubmitScore(p, taken) PROVE TypeOK'
  <2>1. posts[p] \in Post /\ posts \in Seq(Post)
    BY <1>9a DEF SubmitScore, TypeOK
  <2>2. posts' \in Seq(Post)
    BY <1>9a, <2>1, SubmitMoves
  <2>3. Worth(posts[p].guesses) \in Nat
    <3>1. posts[p].guesses \in Seq(Guess)
      BY <2>1 DEF Post
    <3>2. QED
      BY <3>1, WorthType
  <2>4. best' \in [Boards -> Nat]
    BY <1>9a, <2>3 DEF SubmitScore, TypeOK
  <2>5. QED
    BY <1>9a, <2>2, <2>4 DEF SubmitScore, TypeOK
<1>10. ASSUME NEW p \in PostIds, NEW how \in {"ok", "failed"}, Answered(p, how) PROVE TypeOK'
  <2>1. posts[p] \in Post
    BY <1>10 DEF Answered, TypeOK
  <2>2. posts' \in Seq(Post)
    <3> DEFINE q == [posts[p] EXCEPT !.answer = how]
    <3>1. q \in Post
      BY <2>1 DEF Post
    <3>2. posts' = [posts EXCEPT ![p] = q] /\ posts \in Seq(Post)
      BY <1>10 DEF Answered, TypeOK
    <3> HIDE DEF q
    <3>3. QED
      BY <3>1, <3>2, UpdateType
  <2>3. QED
    BY <1>10, <2>2 DEF Answered, TypeOK
<1>11. CASE UNCHANGED vars
  BY <1>11 DEF vars, TypeOK
<1>12. Running \subseteq Visits /\ \A v \in Visits : {v} \subseteq Visits
  BY DEF Running
<1>13. QED
  BY <1>1, <1>2, <1>3, <1>4, <1>5a, <1>5b, <1>5, <1>6, <1>7, <1>8, <1>9, <1>9a, <1>10, <1>11,
     <1>12 DEF Next

-----------------------------------------------------------------------------
(* Reports *)

\* Nothing is reported at first.
LEMMA IInvInit == Init => IInv
<1>1. SUFFICES ASSUME Init PROVE IInv
  OBVIOUS
<1>2. DOMAIN posts = {}
  BY <1>1 DEF Init
<1>3. QED
  BY <1>1, <1>2, TypeInit DEF Init, IInv, Unvisited, Started, Decides, OneGrows

\* What is reported, and of which game, never changes; a step that starts no
\* game and enters no guess can only take games away.
LEMMA OnlyLess ==
    ASSUME IInv, TypeOK', Unvisited',
           \A v \in Visits : at[v] = "started" => at'[v] = "started",
           \A v \in Visits : game'[v] # None =>
               /\ at'[v] = "started"
               /\ at[v] = "started" =>
                     game[v] # None /\ game'[v].guesses = game[v].guesses,
           DOMAIN posts' = DOMAIN posts,
           \A p \in DOMAIN posts : /\ posts'[p].of = posts[p].of
                                   /\ posts'[p].guesses = posts[p].guesses
    PROVE  IInv'
<1>1. Started'
  BY DEF Started
<1>2. ASSUME NEW p \in DOMAIN posts PROVE ReportDecides(posts[p])'
  <2>1. ReportDecides(posts[p])
    BY DEF IInv, Decides
  <2>2. posts[p] \in Post
    BY DEF IInv, TypeOK
  <2>3. posts[p].of \in Visits
    BY <2>2 DEF Post
  <2>4. QED
    BY <2>1, <2>3 DEF ReportDecides
<1>3. Decides'
  BY <1>2 DEF Decides
<1>4. OneGrows'
  BY DEF IInv, OneGrows
<1>5. QED
  BY <1>1, <1>3, <1>4 DEF IInv

\* Guesses are added at the end of the games that take them.
LEMMA EnterKeeps ==
    ASSUME IInv, TypeOK', NEW vs, NEW w \in Guess, vs \subseteq Visits, Enter(vs, w)
    PROVE  IInv'
<1>1. ASSUME NEW v \in Visits, game'[v] # None
      PROVE  /\ game[v] # None
             /\ \/ game'[v].guesses = game[v].guesses
                \/ game'[v].guesses = Append(game[v].guesses, w)
  <2>1. game'[v] = game[v]
        \/ (Accepts(v) /\ game'[v] = [game[v] EXCEPT !.guesses = Append(@, w)])
    BY <1>1 DEF Enter
  <2>2. CASE game'[v] = game[v]
    BY <1>1, <2>2
  <2>3. CASE Accepts(v) /\ game'[v] = [game[v] EXCEPT !.guesses = Append(@, w)]
    <3>1. game[v] # None
      BY <2>3 DEF Accepts
    <3>2. game[v] \in Game
      BY <3>1 DEF IInv, TypeOK
    <3>3. game'[v].guesses = Append(game[v].guesses, w)
      BY <2>3, <3>2 DEF Game
    <3>4. QED
      BY <3>1, <3>3
  <2>4. QED
    BY <2>1, <2>2, <2>3
<1>2. at' = at /\ posts' = posts /\ visits' = visits
  BY DEF Enter, runnerVars
<1>3. Started'
  BY <1>1, <1>2 DEF IInv, Started
<1>4. ASSUME NEW p \in DOMAIN posts PROVE ReportDecides(posts[p])'
  <2> DEFINE r == posts[p]
  <2>1. ReportDecides(r)
    BY DEF IInv, Decides
  <2>2. r.of \in Visits /\ r.guesses \in Seq(Guess)
    <3>1. posts[p] \in Post
      BY DEF IInv, TypeOK
    <3>2. QED
      BY <3>1 DEF Post
  <2>3. ASSUME game'[r.of] # None PROVE Grows(r.guesses, game'[r.of].guesses)
    <3>1. game[r.of] # None
      BY <1>1, <2>2, <2>3
    <3>2. game[r.of].guesses \in Seq(Guess)
      BY <2>2, <3>1 DEF IInv, TypeOK, Game
    <3>3. Grows(r.guesses, game[r.of].guesses)
      BY <2>1, <3>1 DEF ReportDecides
    <3>4. Grows(r.guesses, Append(game[r.of].guesses, w))
      BY <2>2, <3>2, <3>3, GrowsOrder
    <3>5. QED
      BY <1>1, <2>2, <2>3, <3>3, <3>4
  <2>4. QED
    BY <1>2, <2>1, <2>3 DEF ReportDecides
<1>5. Decides'
  BY <1>2, <1>4 DEF Decides
<1>6. OneGrows'
  BY <1>2 DEF IInv, OneGrows
<1>7. QED
  BY <1>2, <1>3, <1>5, <1>6 DEF IInv, Unvisited

\* The list of a row that ends its game is decided, and is the longest so far.
LEMMA RowKeeps ==
    ASSUME IInv, TypeOK', NEW v \in Visits, RowFlipped(v)
    PROVE  IInv'
<1> DEFINE g == game[v]
<1>0. PICK r : r = [by |-> here, of |-> v, guesses |-> g.guesses,
                   dated |-> at[here] \notin {"variant", "puzzle"},
                   pos |-> "storing", lost |-> FALSE, answer |-> "none"]
  OBVIOUS
<1>1. g # None /\ g \in Game /\ at[v] = "started"
  BY DEF RowFlipped, Flips, IInv, Started, TypeOK
<1>2. g.guesses \in Seq(Guess) /\ Row(v) \in Nat /\ Row(v) >= 1
  BY <1>1 DEF Game, Row
<1>3. at' = at /\ Unvisited'
  BY DEF RowFlipped, runnerVars, IInv, Unvisited
<1>4. ASSUME NEW u \in Visits, game'[u] # None
      PROVE  game[u] # None /\ game'[u].guesses = game[u].guesses
  <2> DEFINE h == [g EXCEPT !.flipped = @ + 1,
                            !.finished = @ \/ g.guesses[Row(v)] = "right" \/ LostNow(g)]
  <2>1. game' = [game EXCEPT ![v] = h]
    BY DEF RowFlipped
  <2>2. h.guesses = g.guesses
    BY <1>1 DEF Game
  <2> HIDE DEF h
  <2>3. QED
    BY <1>1, <1>4, <2>1, <2>2 DEF IInv, TypeOK
<1>5. Started'
  BY <1>3, <1>4 DEF IInv, Started
<1>6. ASSUME NEW p \in DOMAIN posts
      PROVE  ReportDecides(posts[p]) /\ posts[p].of \in Visits /\ posts[p].guesses \in Seq(Guess)
  <2>1. posts[p] \in Post
    BY DEF IInv, TypeOK
  <2>2. QED
    BY <2>1 DEF IInv, Decides, Post
<1>7. CASE posts' = posts
  <2>1. Decides'
    BY <1>3, <1>4, <1>6, <1>7 DEF Decides, ReportDecides
  <2>2. OneGrows'
    BY <1>7 DEF IInv, OneGrows
  <2>3. QED
    BY <1>3, <1>5, <2>1, <2>2 DEF IInv
<1>8. CASE posts' = Append(posts, r) /\ (g.guesses[Row(v)] = "right" \/ LostNow(g))
  <2>0. PICK n : n = Len(posts)
    OBVIOUS
  <2>1. posts \in Seq(Post) /\ n \in Nat /\ DOMAIN posts = 1 .. n
    BY <2>0 DEF IInv, TypeOK
  <2>2. /\ DOMAIN posts' = 1 .. n + 1
        /\ \A p \in 1 .. n : posts'[p] = posts[p]
        /\ posts'[n+1] = r
    BY <1>8, <2>1
  <2>3. Decided(g.guesses)
    <3>1. CASE LostNow(g)
      BY <3>1 DEF LostNow, Decided
    <3>2. CASE g.guesses[Row(v)] = "right"
      <4>1. Row(v) \in 1 .. Len(g.guesses) /\ Row(v) <= MaxGuesses
        BY <1>2 DEF RowFlipped, Flips
      <4>2. QED
        BY <1>2, <3>2, <4>1, WinIsDecided
    <3>3. QED
      BY <1>8, <3>1, <3>2
  <2>4. r.of = v /\ r.guesses = g.guesses
    BY <1>0
  <2>5. ReportDecides(r)'
    BY <1>1, <1>2, <1>3, <1>4, <2>3, <2>4, GrowsOrder DEF ReportDecides
  <2>6. ASSUME NEW p \in 1 .. n PROVE ReportDecides(posts[p])'
    <3>1. ReportDecides(posts[p]) /\ posts[p].of \in Visits
      BY <1>6, <2>1
    <3>2. posts'[p] = posts[p]
      BY <2>2
    <3>3. QED
      BY <1>3, <1>4, <3>1, <3>2 DEF ReportDecides
  <2>7. Decides'
    <3>1. ReportDecides(posts[n+1])'
      BY <2>2, <2>5 DEF ReportDecides
    <3>2. ASSUME NEW p \in 1 .. n + 1 PROVE ReportDecides(posts[p])'
      <4>1. p \in 1 .. n \/ p = n + 1
        BY <2>1
      <4>2. QED
        BY <2>6, <3>1, <4>1
    <3>3. QED
      BY <2>2, <3>2 DEF Decides
  <2>8. ASSUME NEW p \in 1 .. n + 1, NEW q \in 1 .. n + 1, p <= q, posts'[p].of = posts'[q].of
        PROVE  Grows(posts'[p].guesses, posts'[q].guesses)
    <3>1. CASE q # n + 1
      <4>1. p \in 1 .. n /\ q \in 1 .. n
        BY <2>1, <2>8, <3>1
      <4>2. QED
        BY <2>1, <2>2, <2>8, <4>1 DEF IInv, OneGrows
    <3>2. CASE q = n + 1 /\ p = n + 1
      BY <1>2, <2>2, <2>4, <3>2, GrowsOrder
    <3>3. CASE q = n + 1 /\ p # n + 1
      <4>1. p \in DOMAIN posts
        BY <2>1, <3>3
      <4>2. posts[p].of = v
        BY <2>1, <2>2, <2>4, <2>8, <3>3, <4>1
      <4>3. Grows(posts[p].guesses, g.guesses)
        BY <1>1, <1>6, <4>1, <4>2 DEF ReportDecides
      <4>4. QED
        BY <2>1, <2>2, <2>4, <3>3, <4>1, <4>3
    <3>4. QED
      BY <3>1, <3>2, <3>3
  <2>9. OneGrows'
    BY <2>2, <2>8 DEF OneGrows
  <2>10. QED
    BY <1>3, <1>5, <2>7, <2>9 DEF IInv
<1>9. QED
  BY <1>0, <1>7, <1>8 DEF RowFlipped, Reported
-----------------------------------------------------------------------------
\* Every step keeps the invariant.
LEMMA IInvStep == IInv /\ [Next]_vars => IInv'
<1> SUFFICES ASSUME IInv, [Next]_vars PROVE IInv'
  OBVIOUS
<1>0. TypeOK'
  BY TypeStep DEF IInv
<1> USE DEF runnerVars, hudVars, serverVars
<1>t. /\ visits \in Nat /\ at \in [Visits -> {"away", "variant", "puzzle", "resume", "phaser",
                                               "booting", "started"}]
      /\ game \in [Visits -> Game \cup {None}] /\ posts \in Seq(Post)
      /\ Unvisited /\ Started
  BY PlayAssumption DEF IInv, TypeOK
<1>1. CASE Visit
  <2>1. Unvisited'
    <3>1. at' = [at EXCEPT ![visits + 1] = "variant"] /\ visits' = visits + 1
      BY <1>1 DEF Visit
    <3>2. ASSUME NEW v \in Visits, v > visits + 1 PROVE at'[v] = "away"
      <4>1. v \in Nat /\ v > visits /\ v # visits + 1
        BY <1>t, <3>2, PlayAssumption DEF Visits
      <4>2. QED
        BY <1>t, <3>1, <4>1 DEF Unvisited
    <3>3. QED
      BY <3>1, <3>2 DEF Unvisited
  <2>2. at[visits + 1] = "away" /\ at' = [at EXCEPT ![visits + 1] = "variant"]
    BY <1>1, <1>t, PlayAssumption DEF Visit, Unvisited, Visits
  <2>3. QED
    BY <1>0, <1>1, <1>t, <2>1, <2>2, OnlyLess DEF Visit, Started
<1>2. CASE Leave
  BY <1>0, <1>2, <1>t, OnlyLess DEF Leave, Unvisited, Started
<1>3. CASE Reload
  BY <1>0, <1>3, <1>t, OnlyLess DEF Reload, Unvisited, Started
<1>4. ASSUME NEW v \in Visits, VariantLoads(v) \/ PuzzleArrives(v) PROVE IInv'
  <2>1. Unvisited'
    BY <1>4, <1>t DEF VariantLoads, PuzzleArrives, Awaits, Unvisited
  <2>2. QED
    BY <1>0, <1>4, <1>t, <2>1, OnlyLess DEF VariantLoads, PuzzleArrives, Awaits, Started
<1>5a. ASSUME NEW v \in Visits, ResumeRead(v) PROVE IInv'
  <2>1. Unvisited'
    BY <1>5a, <1>t DEF ResumeRead, Awaits, Unvisited
  <2>2. QED
    BY <1>0, <1>5a, <1>t, <2>1, OnlyLess DEF ResumeRead, Awaits, Started
<1>5b. ASSUME NEW v \in Visits, PhaserArrives(v) PROVE IInv'
  <2>1. Unvisited'
    BY <1>5b, <1>t DEF PhaserArrives, Awaits, Unvisited
  <2>2. QED
    BY <1>0, <1>5b, <1>t, <2>1, OnlyLess DEF PhaserArrives, Awaits, Started
<1>5. ASSUME NEW v \in Visits, SceneStarts(v) PROVE IInv'
  <2>1. at[v] = "booting" /\ at' = [at EXCEPT ![v] = "started"]
        /\ \A u \in Visits : u # v => game'[u] = game[u]
    BY <1>5, <1>t DEF SceneStarts, Awaits
  <2>2. Unvisited'
    BY <1>5, <1>t, <2>1 DEF SceneStarts, Unvisited
  <2>3. QED
    BY <1>0, <1>5, <1>t, <2>1, <2>2, OnlyLess DEF SceneStarts, Started
<1>6. ASSUME NEW v \in Visits, StartFails(v) PROVE IInv'
  BY <1>0, <1>6, <1>t, OnlyLess DEF StartFails, Unvisited, Started
<1>7. ASSUME NEW v \in Visits, RowFlipped(v) PROVE IInv'
  BY <1>0, <1>7, RowKeeps
<1>8. ASSUME NEW vs, NEW w \in Guess, Enter(vs, w), vs \subseteq Visits PROVE IInv'
  BY <1>0, <1>8, EnterKeeps
<1>9. ASSUME NEW p \in PostIds, StoreAttempt(p) PROVE IInv'
  <2>1. DOMAIN posts' = DOMAIN posts
        /\ \A q \in DOMAIN posts : posts'[q].of = posts[q].of /\ posts'[q].guesses = posts[q].guesses
    BY <1>9, <1>t, StoreMoves
  <2>2. QED
    BY <1>0, <1>9, <1>t, <2>1, OnlyLess DEF StoreAttempt, Unvisited, Started
<1>9a. ASSUME NEW p \in PostIds, NEW taken \in BOOLEAN, SubmitScore(p, taken) PROVE IInv'
  <2>1. DOMAIN posts' = DOMAIN posts
        /\ \A q \in DOMAIN posts : posts'[q].of = posts[q].of /\ posts'[q].guesses = posts[q].guesses
    BY <1>9a, <1>t, SubmitMoves
  <2>2. QED
    BY <1>0, <1>9a, <1>t, <2>1, OnlyLess DEF SubmitScore, Unvisited, Started
<1>10. ASSUME NEW p \in PostIds, NEW how, Answered(p, how) PROVE IInv'
  <2>1. posts' = [posts EXCEPT ![p].answer = how] /\ posts[p] \in Post
    BY <1>10, <1>t DEF Answered
  <2>2. \A q \in DOMAIN posts : posts'[q].of = posts[q].of /\ posts'[q].guesses = posts[q].guesses
    BY <1>t, <2>1 DEF Post
  <2>3. QED
    BY <1>0, <1>10, <1>t, <2>1, <2>2, OnlyLess DEF Answered, Unvisited, Started
<1>11. CASE UNCHANGED vars
  BY <1>0, <1>11, <1>t, OnlyLess DEF vars, Unvisited, Started
<1>12. Running \subseteq Visits /\ \A v \in Visits : {v} \subseteq Visits
  BY DEF Running
<1>13. QED
  BY <1>1, <1>2, <1>3, <1>4, <1>5a, <1>5b, <1>5, <1>6, <1>7, <1>8, <1>9, <1>9a, <1>10, <1>11,
     <1>12 DEF Next

\* Reports decide their games, and later reports continue earlier ones (submitGuess
\* and flipRow, WordleScene.js).
THEOREM InductiveInvariant == Spec => []IInv
  BY IInvInit, IInvStep, PTL DEF Spec

\* The state of a player's visits is always well-typed (GameRunner.svelte,
\* WordleScene.js, WordleHud.svelte).
THEOREM PlayTypeCorrect == Spec => []TypeOK
<1>1. IInv => TypeOK
  BY DEF IInv
<1>2. QED
  BY <1>1, InductiveInvariant, PTL

\* Every list a runner posts is of a finished game, however fast the guesses
\* came (submitGuess and flipRow, WordleScene.js; finalize, scoring.go).
THEOREM ReportsFinal == Spec => []ReportsAreFinal
<1>1. IInv => ReportsAreFinal
  BY DEF IInv, Decides, ReportDecides, ReportsAreFinal
<1>2. QED
  BY <1>1, InductiveInvariant, PTL

\* All reports of a game are worth the same, in whatever order they are stored
\* (submitGuess, WordleScene.js; Score, scoring.go).
THEOREM ReportsAlike == Spec => []ReportsWorthTheSame
<1>1. ASSUME IInv PROVE ReportsWorthTheSame
  <2>1. ASSUME NEW p \in DOMAIN posts, NEW q \in DOMAIN posts, posts[p].of = posts[q].of, p <= q
        PROVE  Worth(posts[p].guesses) = Worth(posts[q].guesses)
    <3>1. posts[p] \in Post /\ posts[q] \in Post
      BY <1>1 DEF IInv, TypeOK
    <3>2. posts[p].guesses \in Seq(Guess) /\ posts[q].guesses \in Seq(Guess)
      BY <3>1 DEF Post
    <3>3. Grows(posts[p].guesses, posts[q].guesses) /\ Decided(posts[p].guesses)
      BY <1>1, <2>1 DEF IInv, OneGrows, Decides, ReportDecides
    <3>4. QED
      BY <3>2, <3>3, DecidedGrows
  <2>2. \A p, q \in DOMAIN posts : p <= q \/ q <= p
    BY <1>1 DEF IInv, TypeOK
  <2>3. QED
    BY <2>1, <2>2 DEF ReportsWorthTheSame
<1>2. QED
  BY <1>1, InductiveInvariant, PTL

-----------------------------------------------------------------------------
(* What was stored and paid *)

\* A win is decided, and worth something when every solve pays.
LEMMA WonPays ==
    ASSUME NEW g \in Seq(Guess), Score("right", g).won, EverySolvePays
    PROVE  Worth(g) > 0
<1>1. Solving("right", g) # {}
  BY DEF Score
<1>2. PICK i \in Solving("right", g) : \A j \in Solving("right", g) : i <= j
  BY <1>1, FirstSolving, PlayAssumption
<1>3. i \in 1 .. MaxGuesses
  BY PlayAssumption DEF Solving, Considered
<1>4. Score("right", g) = [score |-> Points(i), won |-> TRUE]
  BY <1>2, ScoreOfFirst
<1>5. QED
  BY <1>3, <1>4 DEF Worth, EverySolvePays

\* A row that wins makes a list that wins.
LEMMA WinIsWon ==
    ASSUME NEW g \in Seq(Guess), NEW i \in 1 .. Len(g), i <= MaxGuesses, g[i] = "right"
    PROVE  Score("right", g).won
<1>1. i \in Solving("right", g)
  BY DEF Solving, Considered
<1>2. QED
  BY <1>1 DEF Score

\* What the server takes for decided the scene takes for over.
LEMMA DecidedIsOver == ASSUME NEW g \in Seq(Guess), Decided(g) PROVE Over(g)
<1>1. CASE Len(g) >= MaxGuesses
  BY <1>1 DEF Over
<1>2. CASE Score("right", g).won
  <2>1. Solving("right", g) # {}
    BY <1>2 DEF Score
  <2>2. QED
    BY <2>1 DEF Solving, Considered, Over, Won
<1>3. QED
  BY <1>1, <1>2 DEF Decided

\* Nothing is stored at first.
LEMMA PaidInit == Init => PaidInv
<1>1. SUFFICES ASSUME Init PROVE PaidInv
  OBVIOUS
<1>2. DOMAIN posts = {} /\ \A v \in Visits : result[v] # "won"
  BY <1>1, NoOutcomeAssumption DEF Init, Outcome
<1>3. QED
  BY <1>1, <1>2 DEF Init, PaidInv, PassedArePaid, WinsAreReported, StoredIsOver

\* Steps that store nothing, post nothing and show no outcome.
LEMMA PaidUnchanged == ASSUME PaidInv, UNCHANGED << posts, result, serverVars >> PROVE PaidInv'
  BY DEF PaidInv, PassedArePaid, Passed, WinsAreReported, StoredIsOver, serverVars

\* A win that is shown is posted in the same step.
LEMMA PaidRow ==
    ASSUME IInv, PaidInv, NEW v \in Visits, RowFlipped(v)
    PROVE  PaidInv'
<1> DEFINE g    == game[v]
           won  == g.guesses[Row(v)] = "right"
           ends == won \/ LostNow(g)
<1>0. PICK r : r = [by |-> here, of |-> v, guesses |-> g.guesses,
                   dated |-> at[here] \notin {"variant", "puzzle"},
                   pos |-> "storing", lost |-> FALSE, answer |-> "none"]
  OBVIOUS
<1>1. g \in Game /\ g.guesses \in Seq(Guess)
  BY DEF RowFlipped, Flips, IInv, TypeOK, Game
<1>2. won => Score("right", g.guesses).won
  <2>1. Row(v) \in 1 .. Len(g.guesses) /\ Row(v) <= MaxGuesses
    BY <1>1 DEF RowFlipped, Flips, Row, Game
  <2>2. QED
    BY <1>1, <2>1, WinIsWon
<1>3. UNCHANGED << stored, best >>
  BY DEF RowFlipped, serverVars
<1>4. PICK n \in Nat : n = Len(posts) /\ DOMAIN posts = 1 .. n
  BY DEF IInv, TypeOK
<1>5. \/ posts' = posts /\ ~ (ends /\ here # 0)
      \/ posts' = Append(posts, r) /\ here # 0
  BY <1>0 DEF RowFlipped, Reported
<1>6. /\ DOMAIN posts \subseteq DOMAIN posts' /\ \A p \in DOMAIN posts : posts'[p] = posts[p]
      /\ \A p \in DOMAIN posts' : p \in DOMAIN posts \/ posts'[p] = r
      /\ ends /\ here # 0 => \E p \in DOMAIN posts' : posts'[p] = r
  <2>1. CASE posts' = posts /\ ~ (ends /\ here # 0)
    BY <2>1
  <2>2. CASE posts' = Append(posts, r) /\ here # 0
    <3>1. posts \in Seq(Post)
      BY DEF IInv, TypeOK
    <3>2. /\ DOMAIN posts' = 1 .. n + 1 /\ posts'[n + 1] = r
          /\ \A p \in 1 .. n : posts'[p] = posts[p]
      BY <1>4, <2>2, <3>1
    <3>3. QED
      BY <1>4, <3>2
  <2>3. QED
    BY <1>5, <2>1, <2>2
<1>7. r.by = here /\ r.guesses = g.guesses /\ r.pos = "storing" /\ r.answer = "none"
  BY <1>0
<1>8. PassedArePaid'
  BY <1>3, <1>6, <1>7 DEF PaidInv, PassedArePaid, Passed, Worth
<1>9. WinsAreReported'
  <2> SUFFICES ASSUME NEW u \in Visits, result'[u] = "won"
               PROVE  \E p \in DOMAIN posts' :
                         posts'[p].by = u /\ Score("right", posts'[p].guesses).won
    BY DEF WinsAreReported
  <2>1. CASE result[u] = "won"
    BY <1>6, <2>1 DEF PaidInv, WinsAreReported
  <2>2. CASE result[u] # "won"
    <3>1. u = here /\ here # 0 /\ won
      BY <2>2 DEF RowFlipped, HudMounted, IInv, TypeOK
    <3>2. PICK p \in DOMAIN posts' : posts'[p] = r
      BY <1>6, <3>1
    <3>3. QED
      BY <1>2, <1>7, <3>1, <3>2
  <2>3. QED
    BY <2>1, <2>2
<1>10. QED
  BY <1>3, <1>8, <1>9 DEF PaidInv, StoredIsOver

\* Reports are of lists worth something, known to be over.
LEMMA ReportWorth ==
    ASSUME IInv, NEW p \in DOMAIN posts
    PROVE  /\ posts[p].guesses \in Seq(Guess) /\ Worth(posts[p].guesses) \in Nat
           /\ Decided(posts[p].guesses)
<1>1. posts[p] \in Post
  BY DEF IInv, TypeOK
<1>2. QED
  BY <1>1, WorthType DEF Post, IInv, Decides, ReportDecides

\* What the server stores is over, and what is worth nothing needs no board.
LEMMA PaidStore ==
    ASSUME IInv, PaidInv, NEW p \in PostIds, StoreAttempt(p)
    PROVE  PaidInv'
<1>1. posts \in Seq(Post) /\ p \in DOMAIN posts /\ best \in [Boards -> Nat] /\ best' = best
      /\ stored' = posts[p].guesses /\ result' = result /\ posts[p].pos = "storing"
  BY DEF StoreAttempt, hudVars, IInv, TypeOK
<1>2. /\ DOMAIN posts' = DOMAIN posts
      /\ posts'[p].pos \in {"daily", "answering"}
      /\ posts'[p].pos = "answering" => ~ (Worth(posts[p].guesses) > 0)
      /\ \A q \in DOMAIN posts : q # p => posts'[q] = posts[q]
      /\ \A q \in DOMAIN posts : /\ posts'[q].by = posts[q].by
                                 /\ posts'[q].guesses = posts[q].guesses
                                 /\ posts'[q].answer = posts[q].answer
  BY <1>1, StoreMoves
<1>3. ASSUME NEW q \in DOMAIN posts
      PROVE  /\ ~posts'[q].lost => \A b \in Passed(posts'[q]) : best[b] >= Worth(posts'[q].guesses)
             /\ posts'[q].answer = "ok" => posts'[q].pos = "answering"
  <2>1. CASE q # p
    BY <1>2, <2>1 DEF PaidInv, PassedArePaid
  <2>2. CASE q = p
    <3>1. posts'[p].answer # "ok"
      BY <1>1, <1>2 DEF PaidInv, PassedArePaid
    <3>2. Worth(posts'[p].guesses) = Worth(posts[p].guesses) /\ Worth(posts[p].guesses) \in Nat
      BY <1>1, <1>2, ReportWorth
    <3>3. CASE posts'[p].pos = "daily"
      BY <2>2, <3>1, <3>3 DEF Passed
    <3>4. CASE posts'[p].pos = "answering"
      <4>1. Passed(posts'[p]) = Boards
        BY <3>4 DEF Passed
      <4>2. \A b \in Boards : best[b] >= Worth(posts'[p].guesses)
        BY <1>1, <1>2, <3>2, <3>4
      <4>3. QED
        BY <2>2, <3>1, <4>1, <4>2
    <3>5. QED
      BY <1>2, <3>3, <3>4
  <2>3. QED
    BY <2>1, <2>2
<1>4. PassedArePaid'
  BY <1>1, <1>2, <1>3 DEF PassedArePaid, Passed, Worth
<1>5. WinsAreReported'
  BY <1>1, <1>2 DEF PaidInv, WinsAreReported
<1>6. StoredIsOver'
  BY <1>1, ReportWorth, DecidedIsOver DEF StoredIsOver, Over, Won
<1>7. QED
  BY <1>4, <1>5, <1>6 DEF PaidInv

\* A submission that is taken pays on its board, and boards only grow.
LEMMA PaidSubmit ==
    ASSUME IInv, PaidInv, NEW p \in PostIds, NEW taken \in BOOLEAN, SubmitScore(p, taken)
    PROVE  PaidInv'
<1>1. posts \in Seq(Post) /\ p \in DOMAIN posts /\ best \in [Boards -> Nat]
      /\ stored' = stored /\ result' = result /\ posts[p].pos \in Boards
  BY DEF SubmitScore, hudVars, IInv, TypeOK
<1>2. /\ DOMAIN posts' = DOMAIN posts
      /\ posts'[p].pos = After(posts[p].pos)
      /\ ~posts'[p].lost => taken /\ ~posts[p].lost
      /\ \A q \in DOMAIN posts : q # p => posts'[q] = posts[q]
      /\ \A q \in DOMAIN posts : /\ posts'[q].by = posts[q].by
                                 /\ posts'[q].guesses = posts[q].guesses
                                 /\ posts'[q].answer = posts[q].answer
  BY <1>1, SubmitMoves
<1>3. Worth(posts[p].guesses) \in Nat
  BY <1>1, ReportWorth
<1>4. /\ best' \in [Boards -> Nat]
      /\ \A b \in Boards : best'[b] >= best[b]
      /\ taken => best'[posts[p].pos] >= Worth(posts[p].guesses)
  <2> DEFINE w == Worth(posts[p].guesses)
             board == posts[p].pos
  <2>1. \/ best' = best /\ (taken => ~ (w > best[board]))
        \/ best' = [best EXCEPT ![board] = w] /\ w > best[board]
    BY DEF SubmitScore
  <2> HIDE DEF w
  <2>2. w \in Nat /\ board \in Boards
    BY <1>1, <1>3 DEF w
  <2> HIDE DEF board
  <2>3. /\ best' \in [Boards -> Nat] /\ \A b \in Boards : best'[b] >= best[b]
        /\ taken => best'[board] >= w
    <3>1. CASE best' = best /\ (taken => ~ (w > best[board]))
      BY <1>1, <2>2, <3>1
    <3>2. CASE best' = [best EXCEPT ![board] = w] /\ w > best[board]
      BY <1>1, <2>2, <3>2
    <3>3. QED
      BY <2>1, <3>1, <3>2
  <2>4. QED
    BY <2>3 DEF w, board
<1>5. ASSUME NEW q \in DOMAIN posts
      PROVE  /\ ~posts'[q].lost => \A b \in Passed(posts'[q]) : best'[b] >= Worth(posts'[q].guesses)
             /\ posts'[q].answer = "ok" => posts'[q].pos = "answering"
  <2>0. /\ ~posts[q].lost => \A b \in Passed(posts[q]) : best[b] >= Worth(posts[q].guesses)
        /\ posts[q].answer = "ok" => posts[q].pos = "answering"
        /\ Worth(posts'[q].guesses) = Worth(posts[q].guesses) /\ Worth(posts[q].guesses) \in Nat
        /\ \A b \in Passed(posts[q]) : b \in Boards
    BY <1>2, ReportWorth DEF PaidInv, PassedArePaid, Passed, Boards
  <2>1. ~posts[q].lost => \A b \in Passed(posts[q]) : best'[b] >= Worth(posts[q].guesses)
    BY <1>1, <1>4, <2>0
  <2>2. CASE q # p
    BY <1>2, <2>0, <2>1, <2>2
  <2>3. CASE q = p
    <3>1. posts'[p].answer # "ok"
      BY <1>1, <1>2, <2>0, <2>3 DEF Boards
    <3>2. Passed(posts'[p]) \subseteq Passed(posts[p]) \cup {posts[p].pos}
      BY <1>1, <1>2 DEF Passed, After, Boards
    <3>3. ASSUME ~posts'[p].lost, NEW b \in Passed(posts'[p])
          PROVE  best'[b] >= Worth(posts[p].guesses)
      BY <1>2, <1>4, <2>1, <2>3, <3>2, <3>3
    <3>4. QED
      BY <2>0, <2>3, <3>1, <3>3
  <2>4. QED
    BY <2>2, <2>3
<1>6. PassedArePaid'
  BY <1>1, <1>2, <1>5 DEF PassedArePaid, Passed, Worth
<1>7. WinsAreReported'
  BY <1>1, <1>2 DEF PaidInv, WinsAreReported
<1>8. QED
  BY <1>1, <1>6, <1>7 DEF PaidInv, StoredIsOver

\* An answer is "ok" only at the end of a handler.
LEMMA PaidAnswered ==
    ASSUME IInv, PaidInv, NEW p \in PostIds, NEW how \in {"ok", "failed"}, Answered(p, how)
    PROVE  PaidInv'
<1>1. posts \in Seq(Post) /\ posts[p] \in Post /\ p \in DOMAIN posts
  BY DEF Answered, IInv, TypeOK
<1>2. /\ posts' = [posts EXCEPT ![p].answer = how] /\ (how = "ok" => posts[p].pos = "answering")
      /\ UNCHANGED << result, stored, best >>
  BY DEF Answered, hudVars, serverVars
<1>3. /\ DOMAIN posts' = DOMAIN posts
      /\ \A q \in DOMAIN posts :
           /\ posts'[q].by = posts[q].by /\ posts'[q].guesses = posts[q].guesses
           /\ posts'[q].pos = posts[q].pos /\ posts'[q].lost = posts[q].lost
           /\ posts'[q].answer = IF q = p THEN how ELSE posts[q].answer
  <2>1. \A q \in DOMAIN posts : posts[q] \in Post
    BY <1>1
  <2>2. QED
    BY <1>1, <1>2, <2>1 DEF Post
<1>4. QED
  BY <1>2, <1>3 DEF PaidInv, PassedArePaid, Passed, WinsAreReported, StoredIsOver, Worth

\* Every step keeps it.
LEMMA PaidStep == IInv /\ PaidInv /\ [Next]_vars => PaidInv'
<1> SUFFICES ASSUME IInv, PaidInv, [Next]_vars PROVE PaidInv'
  OBVIOUS
<1>1. CASE Visit \/ Leave \/ Reload
  BY <1>1, PaidUnchanged DEF Visit, Leave, Reload, hudVars
<1>2. ASSUME NEW v \in Visits, VariantLoads(v) \/ PuzzleArrives(v) \/ ResumeRead(v)
                                 \/ PhaserArrives(v) \/ SceneStarts(v) \/ StartFails(v)
      PROVE  PaidInv'
  BY <1>2, PaidUnchanged
     DEF VariantLoads, PuzzleArrives, ResumeRead, PhaserArrives, SceneStarts, StartFails, hudVars
<1>3. ASSUME NEW vs, NEW w \in Guess, Enter(vs, w) PROVE PaidInv'
  BY <1>3, PaidUnchanged DEF Enter
<1>4. CASE UNCHANGED vars
  BY <1>4, PaidUnchanged DEF vars, hudVars
<1>5. QED
  BY <1>1, <1>2, <1>3, <1>4, PaidRow, PaidStore, PaidSubmit, PaidAnswered DEF Next

\* What is stored is over and paid, and what is shown as won was reported.
THEOREM PaidInvariant == Spec => []PaidInv
  BY PaidInit, PaidStep, InductiveInvariant, PTL DEF Spec

\* The points of scoring.go pay every solve: "six guesses for a
\* win is still positive".
LEMMA CodePays ==
    ASSUME MaxGuesses = 6, scoreFirstSolve = 100, scorePerGuess = 15
    PROVE  EverySolvePays
<1>1. ASSUME NEW i \in 1 .. 6 PROVE 100 - (i - 1) * 15 > 0
  OBVIOUS
<1>2. QED
  BY <1>1 DEF EverySolvePays, Points

\* With points for every solve, as in the code, a player who was shown a win and
\* whose reports of that visit were all answered has points for it on both boards,
\* unless one of those reports lost a submission (WordleHud.svelte, GameRunner.svelte,
\* attempts.go:84-89).
THEOREM WinsArePaid == ASSUME EverySolvePays PROVE Spec => []ShownWinIsPaid
<1>1. ASSUME IInv, PaidInv PROVE ShownWinIsPaid
  <2> SUFFICES ASSUME NEW v \in Visits, result[v] = "won",
                      \A p \in DOMAIN posts :
                          posts[p].by = v => posts[p].answer = "ok" /\ ~posts[p].lost,
                      NEW b \in Boards
               PROVE  best[b] > 0
    BY DEF ShownWinIsPaid
  <2>1. PICK p \in DOMAIN posts : posts[p].by = v /\ Score("right", posts[p].guesses).won
    BY <1>1 DEF PaidInv, WinsAreReported
  <2>2. posts[p].guesses \in Seq(Guess) /\ best[b] \in Nat
    <3>1. posts[p] \in Post
      BY <1>1 DEF IInv, TypeOK
    <3>2. QED
      BY <1>1, <3>1 DEF Post, IInv, TypeOK
  <2>3. Worth(posts[p].guesses) > 0 /\ Worth(posts[p].guesses) \in Nat
    BY <2>1, <2>2, WonPays, WorthType
  <2>4. best[b] >= Worth(posts[p].guesses)
    BY <1>1, <2>1 DEF PaidInv, PassedArePaid, Passed
  <2>5. QED
    BY <2>2, <2>3, <2>4
<1>2. QED
  BY <1>1, InductiveInvariant, PaidInvariant, PTL
-----------------------------------------------------------------------------
\* With a finished attempt stored and nothing under way, no step reports or stores
\* anything.
LEMMA QuietStep ==
    ASSUME IInv, PaidInv, [Next]_vars, stored # None, Quiet
    PROVE  stored' = stored /\ Quiet'
<1> USE DEF runnerVars, hudVars, serverVars
<1>1. \A v \in Visits : game[v] # None => game[v].finished /\ ~Flips(v)
  BY DEF Quiet, Running
<1>a. \A v \in Visits : ToStart(v) => Over(resume[v])
  BY DEF Quiet
<1>2. CASE Visit \/ Leave \/ Reload
  <2>1. UNCHANGED << posts, serverVars, resume >>
        /\ \A v \in Visits : game'[v] = game[v] \/ game'[v] = None
    BY <1>2 DEF Visit, Leave, Reload, IInv, TypeOK
  <2>2. ASSUME NEW v \in Visits PROVE ToStart(v)' => ToStart(v)
    <3>1. CASE Visit
      BY <3>1 DEF Visit, ToStart, IInv, TypeOK
    <3>2. CASE Leave
      BY <3>2 DEF Leave, ToStart
    <3>3. CASE Reload
      <4>1. at' = at /\ dead' = 1 .. visits
        BY <3>3 DEF Reload, Begun
      <4>2. v > visits => at[v] = "away"
        BY DEF IInv, Unvisited
      <4>3. v \in Nat /\ visits \in Nat /\ v >= 1
        BY PlayAssumption DEF IInv, TypeOK, Visits
      <4>4. QED
        BY <4>1, <4>2, <4>3 DEF ToStart
    <3>4. QED
      BY <1>2, <3>1, <3>2, <3>3
  <2>3. QED
    BY <1>1, <1>a, <2>1, <2>2 DEF Quiet, Running, Flips, Row, Over, Won
<1>3. ASSUME NEW v \in Visits, VariantLoads(v) \/ PuzzleArrives(v) \/ StartFails(v)
      PROVE  stored' = stored /\ Quiet'
  <2>1. UNCHANGED << posts, serverVars, resume, game >>
    BY <1>3 DEF VariantLoads, PuzzleArrives, StartFails
  <2>2. ASSUME NEW u \in Visits PROVE ToStart(u)' => ToStart(u)
    BY <1>3 DEF VariantLoads, PuzzleArrives, StartFails, ToStart, IInv, TypeOK
  <2>3. QED
    BY <1>1, <1>a, <2>1, <2>2 DEF Quiet, Running, Flips, Row, Over, Won
<1>b. ASSUME NEW v \in Visits, ResumeRead(v) PROVE stored' = stored /\ Quiet'
  <2>1. UNCHANGED << posts, serverVars, game, dead >> /\ Over(stored)
        /\ resume' = [resume EXCEPT ![v] = stored]
    BY <1>b DEF ResumeRead, PaidInv, StoredIsOver
  <2>2. ASSUME NEW u \in Visits, ToStart(u)' PROVE Over(resume'[u])
    BY <1>a, <1>b, <2>1, <2>2 DEF ResumeRead, ToStart, IInv, TypeOK
  <2>3. QED
    BY <1>1, <2>1, <2>2 DEF Quiet, Running, Flips, Row, Over, Won
<1>c. ASSUME NEW v \in Visits, PhaserArrives(v) PROVE stored' = stored /\ Quiet'
  <2>1. UNCHANGED << posts, serverVars, resume, game >>
    BY <1>c DEF PhaserArrives
  <2>2. ASSUME NEW u \in Visits PROVE ToStart(u)' => ToStart(u)
    BY <1>c DEF PhaserArrives, Awaits, ToStart, IInv, TypeOK
  <2>3. QED
    BY <1>1, <1>a, <2>1, <2>2 DEF Quiet, Running, Flips, Row, Over, Won
<1>4. ASSUME NEW v \in Visits, SceneStarts(v) PROVE stored' = stored /\ Quiet'
  <2> DEFINE read == resume[v]
  <2>1. /\ UNCHANGED << posts, serverVars, resume >> /\ read \in Seq(Guess) /\ Over(read)
        /\ game' = [game EXCEPT ![v] = [guesses |-> read, flipped |-> Len(read),
                                        finished |-> Over(read)]]
    BY <1>4, <1>a DEF SceneStarts, Awaits, ToStart, IInv, TypeOK
  <2>2. game'[v].finished /\ ~Flips(v)'
    <3>1. game'[v] = [guesses |-> read, flipped |-> Len(read), finished |-> Over(read)]
      BY <2>1 DEF IInv, TypeOK
    <3>2. Len(read) \in Nat
      BY <2>1
    <3> HIDE DEF read
    <3>3. QED
      BY <2>1, <3>1, <3>2 DEF Flips, Row
  <2>3. \A u \in Visits : u # v => game'[u] = game[u]
    BY <2>1 DEF IInv, TypeOK
  <2>4. ASSUME NEW u \in Visits PROVE ToStart(u)' => ToStart(u)
    BY <1>4 DEF SceneStarts, ToStart, IInv, TypeOK
  <2>5. QED
    BY <1>1, <1>a, <2>1, <2>2, <2>3, <2>4 DEF Quiet, Running, Flips, Row, Over, Won
<1>5. ASSUME NEW v \in Visits, RowFlipped(v) PROVE FALSE
  BY <1>1, <1>5 DEF RowFlipped, Flips
<1>6. ASSUME NEW vs, vs \subseteq Visits, NEW w \in Guess, Enter(vs, w) PROVE FALSE
  BY <1>1, <1>6 DEF Enter, Accepts
<1>7. ASSUME NEW p \in PostIds, StoreAttempt(p) PROVE FALSE
  BY <1>7 DEF StoreAttempt, Quiet
<1>7a. ASSUME NEW p \in PostIds, NEW taken \in BOOLEAN, SubmitScore(p, taken)
       PROVE  stored' = stored /\ Quiet'
  <2>1. UNCHANGED << game, stored, at, dead, resume >> /\ p \in DOMAIN posts
        /\ posts[p].pos \in Boards /\ posts \in Seq(Post)
    BY <1>7a DEF SubmitScore, IInv, TypeOK
  <2>2. /\ DOMAIN posts' = DOMAIN posts /\ posts'[p].pos = After(posts[p].pos)
        /\ \A q \in DOMAIN posts : q # p => posts'[q] = posts[q]
    BY <1>7a, <2>1, SubmitMoves
  <2>3. posts'[p].pos # "storing"
    BY <2>2 DEF After
  <2>4. \A q \in DOMAIN posts' : posts'[q].dated => posts'[q].pos # "storing"
    BY <2>2, <2>3 DEF Quiet
  <2>5. QED
    BY <1>1, <1>a, <2>1, <2>4 DEF Quiet, Running, Flips, Row, ToStart, Over, Won
<1>8. ASSUME NEW p \in PostIds, NEW how, Answered(p, how) PROVE stored' = stored /\ Quiet'
  <2>1. posts \in Seq(Post) /\ posts' = [posts EXCEPT ![p].answer = how]
        /\ UNCHANGED << game, stored, at, dead, resume >>
    BY <1>8 DEF Answered, IInv, TypeOK
  <2>2. DOMAIN posts' = DOMAIN posts
        /\ \A q \in DOMAIN posts : posts'[q].dated = posts[q].dated
                                   /\ posts'[q].pos = posts[q].pos
    <3>1. \A q \in DOMAIN posts : posts[q] \in Post
      BY <2>1
    <3>2. QED
      BY <2>1, <3>1 DEF Post
  <2>3. QED
    BY <2>1, <2>2 DEF Quiet, Running, Flips, Row, ToStart, Over, Won
<1>9. CASE UNCHANGED vars
  BY <1>9 DEF vars, Quiet, Running, Flips, Row, ToStart, Over, Won
<1>10. Running \subseteq Visits /\ \A v \in Visits : {v} \subseteq Visits
  BY DEF Running
<1>11. QED
  BY <1>2, <1>3, <1>b, <1>c, <1>4, <1>5, <1>6, <1>7, <1>7a, <1>8, <1>9, <1>10 DEF Next

\* A finished attempt that is stored stays as it is while nothing is under way that
\* began before: no report to be stored, no game unfinished, and none still to start
\* from an earlier read (GameRunner.svelte startGame, WordleScene.js init, attempts.go
\* mine).
THEOREM StoredStays == Spec => StoredAttemptStays
<1>1. ASSUME IInv, PaidInv, [Next]_vars
      PROVE  [stored # None /\ Quiet => stored' = stored /\ Quiet']_vars
  BY <1>1, QuietStep
<1>2. QED
  BY <1>1, InductiveInvariant, PaidInvariant, PTL DEF Spec, StoredAttemptStays
-----------------------------------------------------------------------------
(* Games and words *)

\* Every word is coloured right and wins exactly if it is the solution.
LEMMA NoneMiscoloured == Miscoloured = {}
<1> SUFFICES ASSUME NEW p \in Words \X Words, p \in Miscoloured PROVE FALSE
  BY DEF Miscoloured
<1>1. PICK g \in Words, s \in Words : g = p[1] /\ s = p[2]
  OBVIOUS
<1>2. g \in Seq(Letters) /\ s \in Seq(Letters) /\ Len(g) = WordLength /\ Len(s) = WordLength
  BY WordsAssumption, SeqDef DEF Words
<1>3. evaluateGuess(g, s) = Feedback(g, s) /\ (isWin(evaluateGuess(g, s)) <=> g = s)
  BY <1>2, WordsAssumption, ColoursAreRight, WinIsSolution
<1>4. isWin(evaluateGuess(g, s)) \in BOOLEAN /\ (g = s) \in BOOLEAN
  BY DEF isWin
<1>5. isWin(evaluateGuess(g, s)) = (g = s)
  BY <1>3, <1>4
<1>6. evaluateGuess(g, s) # Feedback(g, s) \/ isWin(evaluateGuess(g, s)) # (g = s)
  BY <1>1, Zenon DEF Miscoloured
<1>7. QED
  BY <1>3, <1>5, <1>6

\* For words of any length over any alphabet: no row of a game is coloured wrong
\* (scoring.js:9-52).
THEOREM RowsColouredRight == Spec => []FeedbackIsRight
<1>1. FeedbackIsRight
  BY NoneMiscoloured DEF FeedbackIsRight, MiscolouredKinds
<1>2. QED
  BY <1>1, PTL

\* The client's preview of a game's score is what the server will give, for games of
\* any length (scoring.js:56-75, scoring.go).
THEOREM PreviewMirrors == Spec => []ScoreMirrors
<1>1. ASSUME TypeOK PROVE ScoreMirrors
  <2> SUFFICES ASSUME NEW v \in Running
               PROVE  score(game[v].guesses, "right") = Score("right", game[v].guesses)
    BY DEF ScoreMirrors
  <2>1. game[v].guesses \in Seq(Guess)
    BY <1>1 DEF Running, TypeOK, Game
  <2>2. QED
    BY <2>1, ScoresAgree
<1>2. QED
  BY <1>1, PlayTypeCorrect, PTL
=============================================================================
