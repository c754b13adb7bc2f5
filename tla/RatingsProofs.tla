---------------------------- MODULE RatingsProofs ----------------------------
(***************************************************************************)
(* Proofs about ContestRatings, for any users, contests, calls and late    *)
(* changes, and about RatingHub, for any streams, broadcasts, capacity and *)
(* number of changes.                                                      *)
(*                                                                         *)
(* Ratings: the calls interleave only through rows they lock, so what a    *)
(* transaction sees of the users it has written stays true until it        *)
(* commits (GivenOK); a call that overlaps no other computes from what is  *)
(* committed when it commits (AloneOK).  calculateELO is arithmetic over a *)
(* sum of expectations, of which only the bounds matter.                   *)
(***************************************************************************)
EXTENDS ContestRatings, RatingHub, Sums, SequenceTheorems, TLAPS

\* expectedScore is a probability: Expected counts it in Scale parts.
ExpectedOK == \A a, b \in Nat : Expected(a, b) \in 0..Scale

RatedRows == [rank : Nat \ {0}, before : Nat, after : Nat]

\* A function on some of the users with values in R.
ListOf(f, R) == DOMAIN f \subseteq Users /\ \A u \in DOMAIN f : f[u] \in R

-----------------------------------------------------------------------------
\* The arithmetic of calculateELO.

LEMMA Cancel ==
    ASSUME NEW a \in Int, NEW b \in Int, NEW d \in Nat \ {0}, d * a < d * b + d
    PROVE  a <= b
<1> SUFFICES ASSUME a > b PROVE FALSE
  OBVIOUS
<1>1. PICK n \in Nat : a = (b + 1) + n
  <2>1. a - (b + 1) \in Nat /\ a = (b + 1) + (a - (b + 1))
    OBVIOUS
  <2> QED
    BY <2>1
<1>2. d * a = d * b + d + d * n
  BY <1>1
<1>3. d * n \in Nat /\ d * a \in Int /\ d * b \in Int
  BY <1>1
<1> QED
  BY <1>2, <1>3

LEMMA Quotient ==
    ASSUME NEW a \in Int, NEW d \in Nat \ {0}
    PROVE  /\ a \div d \in Int
           /\ d * (a \div d) <= a /\ a < d * (a \div d) + d
BY SMT

LEMMA DivMono ==
    ASSUME NEW a \in Int, NEW b \in Int, NEW d \in Nat \ {0}, a <= b
    PROVE  a \div d <= b \div d
<1> DEFINE q == a \div d
           r == b \div d
<1>1. q \in Int /\ r \in Int /\ d * q <= a /\ b < d * r + d
  BY Quotient
<1>2. q <= r
  <2> HIDE DEF q, r
  <2>1. d * q \in Int /\ d * r \in Int
    BY <1>1
  <2>2. d * q < d * r + d
    BY <1>1, <2>1
  <2> QED
    BY <1>1, <2>2, Cancel
<1> QED
  BY <1>2

LEMMA RoundedNat ==
    ASSUME NEW x \in Int, NEW y \in Nat \ {0}
    PROVE  Rounded(x, y) \in Nat
<1>1. CASE x < 0
  BY <1>1 DEF Rounded
<1>2. CASE x >= 0
  <2>1. 2 * x + y \in Nat /\ 2 * y \in Nat \ {0}
    BY <1>2
  <2> DEFINE a == 2 * x + y
             d == 2 * y
             q == a \div d
  <2>2. a \in Nat /\ d \in Nat \ {0} /\ q \in Int /\ a < d * q + d
    <3>1. a \in Int /\ a \in Nat /\ d \in Nat \ {0}
      BY <2>1
    <3> HIDE DEF a, d
    <3>2. q \in Int /\ a < d * q + d
      BY <3>1, Quotient
    <3> QED
      BY <3>1, <3>2
  <2>3. q \in Nat
    <3> HIDE DEF a, d, q
    <3>1. d * 0 < d * q + d
      <4>1. d * q \in Int /\ d * 0 = 0
        BY <2>2
      <4> QED
        BY <2>2, <4>1
    <3>2. 0 <= q
      BY <2>2, <3>1, Cancel
    <3> QED
      BY <2>2, <3>2
  <2> QED
    BY <1>2, <2>3 DEF Rounded
<1> QED
  BY <1>1, <1>2

LEMMA RoundedMono ==
    ASSUME NEW x \in Int, NEW z \in Int, NEW y \in Nat \ {0}, x <= z
    PROVE  Rounded(x, y) <= Rounded(z, y)
<1>1. Rounded(x, y) \in Nat /\ Rounded(z, y) \in Nat
  BY RoundedNat
<1>2. CASE x < 0
  BY <1>1, <1>2 DEF Rounded
<1>3. CASE x >= 0
  <2>1. /\ 2 * x + y \in Int /\ 2 * z + y \in Int /\ 2 * y \in Nat \ {0}
        /\ 2 * x + y <= 2 * z + y
    OBVIOUS
  <2>2. (2 * x + y) \div (2 * y) <= (2 * z + y) \div (2 * y)
    BY <2>1, DivMono
  <2> QED
    BY <1>3, <2>2 DEF Rounded
<1> QED
  BY <1>2, <1>3

\* A rating that gains nothing stays what it is.
LEMMA RoundedKeeps ==
    ASSUME NEW b \in Nat, NEW x \in Int, NEW y \in Nat \ {0}, b * y <= x
    PROVE  b <= Rounded(x, y)
<1> DEFINE a == 2 * x + y
           d == 2 * y
           q == a \div d
<1>1. b * y \in Nat
  OBVIOUS
<1>2. ~ (x < 0) /\ a \in Int /\ d \in Nat \ {0}
  BY <1>1
<1>3. q \in Int /\ a < d * q + d
  BY <1>2, Quotient
<1>4. d * b <= a
  <2>1. d * b = 2 * (b * y)
    OBVIOUS
  <2> QED
    BY <1>1, <2>1
<1>5. b <= q
  <2> HIDE DEF a, d, q
  <2>1. d * b \in Int /\ d * q \in Int
    BY <1>2, <1>3
  <2>2. d * b < d * q + d
    BY <1>2, <1>3, <1>4, <2>1
  <2> QED
    BY <1>2, <1>3, <2>2, Cancel
<1> QED
  BY <1>2, <1>5 DEF Rounded

-----------------------------------------------------------------------------
LEMMA KFactorNat == ASSUME NEW r \in Nat PROVE KFactor(r) \in Nat \ {0}
BY DEF KFactor

\* Nobody is expected to beat a negative number of opponents, and who has the rating of
\* another faces the same odds.
LEMMA BeatenBounds ==
    ASSUME ExpectedOK, NEW before, ListOf(before, Nat), NEW u \in DOMAIN before
    PROVE  Beaten(u, before) \in Nat /\ Beaten(u, before) >= Scale
<1> DEFINE f == [v \in DOMAIN before |-> Expected(before[v], before[u])]
           D == DOMAIN before \ {u}
<1>1. IsFiniteSet(D)
  BY RatingsAssumption, FS_Subset DEF ListOf
<1>2. \A v \in D : f[v] \in Nat
  BY DEF ExpectedOK, ListOf
<1>3. SumFunctionOnSet(f, D) \in Nat
  <2> HIDE DEF f, D
  <2> QED
    BY <1>1, <1>2, SumNat
<1> HIDE DEF f, D
<1>4. Beaten(u, before) = Scale + SumFunctionOnSet(f, D)
  BY DEF Beaten, f, D
<1> QED
  BY <1>3, <1>4, RatingsAssumption

LEMMA BeatenSame ==
    ASSUME ExpectedOK, NEW before, ListOf(before, Nat),
           NEW u \in DOMAIN before, NEW v \in DOMAIN before, before[u] = before[v]
    PROVE  Beaten(u, before) = Beaten(v, before)
<1> DEFINE f == [w \in DOMAIN before |-> Expected(before[w], before[u])]
           D == DOMAIN before
<1>1. IsFiniteSet(D)
  BY RatingsAssumption, FS_Subset DEF ListOf
<1>2. \A w \in D : f[w] \in Int
  BY DEF ExpectedOK, ListOf
<1>3. f[u] = f[v] /\ u \in D /\ v \in D
  OBVIOUS
<1>4. /\ Beaten(u, before) = Scale + SumFunctionOnSet(f, D \ {u})
      /\ Beaten(v, before) = Scale + SumFunctionOnSet(f, D \ {v})
  BY DEF Beaten
<1> HIDE DEF f, D
<1>5. /\ SumFunctionOnSet(f, D) = f[u] + SumFunctionOnSet(f, D \ {u})
      /\ SumFunctionOnSet(f, D) = f[v] + SumFunctionOnSet(f, D \ {v})
  BY <1>1, <1>2, <1>3, SumRemove
<1>6. /\ SumFunctionOnSet(f, D \ {u}) \in Int /\ SumFunctionOnSet(f, D \ {v}) \in Int
      /\ f[u] \in Int
  <2>1. IsFiniteSet(D \ {u}) /\ IsFiniteSet(D \ {v})
    BY <1>1, FS_RemoveElement
  <2> QED
    BY <1>2, <1>3, <2>1, SumInt
<1> DEFINE a == SumFunctionOnSet(f, D \ {u})
           b == SumFunctionOnSet(f, D \ {v})
<1>7. a \in Int /\ b \in Int /\ f[u] + a = f[u] + b
  BY <1>3, <1>5, <1>6
<1>8. a = b
  <2> HIDE DEF a, b
  <2> QED
    BY <1>6, <1>7
<1> QED
  BY <1>4, <1>8

\* What calculateELO adds to a rating, in parts of a unit.
Gain(u, before, rank) == KFactor(before[u]) * (Beaten(u, before) - Scale * rank[u])
Unit(before) == Cardinality(DOMAIN before) * Scale

LEMMA UnitPositive ==
    ASSUME NEW before, ListOf(before, Nat), DOMAIN before # {}
    PROVE  Unit(before) \in Nat \ {0}
<1>1. IsFiniteSet(DOMAIN before)
  BY RatingsAssumption, FS_Subset DEF ListOf
<1>2. Cardinality(DOMAIN before) \in Nat /\ Cardinality(DOMAIN before) # 0
  BY <1>1, FS_CardinalityType, FS_EmptySet
<1> DEFINE n == Cardinality(DOMAIN before)
<1>3. n \in Nat \ {0} /\ Scale \in Nat \ {0}
  BY <1>2, RatingsAssumption
<1>4. n * Scale \in Nat \ {0}
  <2> HIDE DEF n
  <2> QED
    BY <1>3
<1> QED
  BY <1>4 DEF Unit

LEMMA GainInt ==
    ASSUME ExpectedOK, NEW before, ListOf(before, Nat), NEW rank, ListOf(rank, Nat \ {0}),
           NEW u \in DOMAIN before, DOMAIN rank = DOMAIN before
    PROVE  Gain(u, before, rank) \in Int
<1>1. Beaten(u, before) \in Nat /\ KFactor(before[u]) \in Nat /\ rank[u] \in Nat
  BY BeatenBounds, KFactorNat DEF ListOf
<1> QED
  BY <1>1, RatingsAssumption DEF Gain

LEMMA NewRatingIs ==
    ASSUME NEW before, NEW rank, NEW u
    PROVE  NewRating(u, before, rank) =
              Rounded(before[u] * Unit(before) + Gain(u, before, rank), Unit(before))
BY DEF NewRating, Unit, Gain

LEMMA NewRatingNat ==
    ASSUME ExpectedOK, NEW before, ListOf(before, Nat), NEW rank, ListOf(rank, Nat \ {0}),
           NEW u \in DOMAIN before, DOMAIN rank = DOMAIN before
    PROVE  NewRating(u, before, rank) \in Nat
<1>1. Gain(u, before, rank) \in Int /\ Unit(before) \in Nat \ {0} /\ before[u] \in Nat
  BY GainInt, UnitPositive DEF ListOf
<1>2. before[u] * Unit(before) + Gain(u, before, rank) \in Int
  BY <1>1
<1> QED
  BY <1>1, <1>2, NewRatingIs, RoundedNat

\* The first of a contest does not lose rating.
LEMMA FirstKeeps ==
    ASSUME ExpectedOK, NEW before, ListOf(before, Nat), NEW rank, ListOf(rank, Nat \ {0}),
           NEW u \in DOMAIN before, DOMAIN rank = DOMAIN before, rank[u] = 1
    PROVE  NewRating(u, before, rank) >= before[u]
<1>1. /\ Beaten(u, before) \in Nat /\ Beaten(u, before) >= Scale
      /\ KFactor(before[u]) \in Nat \ {0} /\ before[u] \in Nat /\ Scale \in Nat
  BY BeatenBounds, KFactorNat, RatingsAssumption DEF ListOf
<1>2. Unit(before) \in Nat \ {0}
  BY UnitPositive
<1>3. Gain(u, before, rank) \in Nat
  <2>1. Beaten(u, before) - Scale * rank[u] \in Nat
    BY <1>1
  <2> QED
    BY <1>1, <2>1 DEF Gain
<1> DEFINE y == Unit(before)
           x == before[u] * y + Gain(u, before, rank)
<1>4. x \in Int /\ before[u] * y <= x
  <2>1. before[u] * y \in Int
    BY <1>1, <1>2
  <2> QED
    BY <1>3, <2>1
<1>5. before[u] <= Rounded(x, y)
  <2>1. y \in Nat \ {0}
    BY <1>2
  <2> HIDE DEF x, y
  <2> QED
    BY <1>1, <1>4, <2>1, RoundedKeeps
<1>6. NewRating(u, before, rank) \in Nat
  BY NewRatingNat
<1> QED
  BY <1>1, <1>5, <1>6, NewRatingIs

\* Of two who started equal, the better rank gains at least as much.
LEMMA BetterGains ==
    ASSUME ExpectedOK, NEW before, ListOf(before, Nat), NEW rank, ListOf(rank, Nat \ {0}),
           NEW u \in DOMAIN before, NEW v \in DOMAIN before, DOMAIN rank = DOMAIN before,
           before[v] = before[u], rank[v] >= rank[u]
    PROVE  NewRating(v, before, rank) <= NewRating(u, before, rank)
<1> DEFINE b == Beaten(u, before)
           K == KFactor(before[u])
           y == Unit(before)
           gu == Gain(u, before, rank)
           gv == Gain(v, before, rank)
<1>1. /\ b \in Nat /\ Beaten(v, before) = b /\ K \in Nat /\ y \in Nat \ {0}
      /\ rank[u] \in Nat /\ rank[v] \in Nat /\ Scale \in Nat /\ before[u] \in Nat
  BY BeatenBounds, BeatenSame, KFactorNat, UnitPositive, RatingsAssumption DEF ListOf
<1>2. gu = K * (b - Scale * rank[u]) /\ gv = K * (b - Scale * rank[v])
  BY <1>1 DEF Gain
<1>3. gu \in Int /\ gv \in Int
  BY GainInt
<1>4. gv <= gu
  <2> HIDE DEF b, K, gu, gv
  <2>1. PICK n \in Nat : rank[v] = rank[u] + n
    <3>1. rank[v] - rank[u] \in Nat /\ rank[v] = rank[u] + (rank[v] - rank[u])
      BY <1>1
    <3> QED
      BY <3>1
  <2>2. b - Scale * rank[v] = (b - Scale * rank[u]) - Scale * n
    BY <1>1, <2>1
  <2>3. gv = gu - K * (Scale * n)
    BY <1>1, <1>2, <2>1, <2>2
  <2>4. K * (Scale * n) \in Nat
    BY <1>1, <2>1
  <2> QED
    BY <1>3, <2>3, <2>4
<1>5. /\ before[u] * y + gu \in Int /\ before[u] * y + gv \in Int
      /\ before[u] * y + gv <= before[u] * y + gu
  <2>1. before[u] * y \in Int
    BY <1>1
  <2> HIDE DEF y, gu, gv
  <2> QED
    BY <1>3, <1>4, <2>1
<1>6. Rounded(before[u] * y + gv, y) <= Rounded(before[u] * y + gu, y)
  <2> HIDE DEF y, gu, gv
  <2> QED
    BY <1>1, <1>5, RoundedMono
<1> QED
  BY <1>6, NewRatingIs

-----------------------------------------------------------------------------
\* The first never loses rating, and of two who started equal the better rank ends no lower.
Ordered(new) ==
    /\ \A u \in DOMAIN new : new[u].rank = 1 => new[u].after >= new[u].before
    /\ \A u, v \in DOMAIN new :
          new[v].before = new[u].before /\ new[v].rank >= new[u].rank
          => new[v].after <= new[u].after

LEMMA RanksPositive ==
    ASSUME NEW list, ListOf(list, Nat)
    PROVE  DOMAIN Ranks(list) = DOMAIN list /\ ListOf(Ranks(list), Nat \ {0})
<1>1. ASSUME NEW u \in DOMAIN list
      PROVE  1 + Cardinality({v \in DOMAIN list : list[v] > list[u]}) \in Nat \ {0}
  <2> DEFINE S == {v \in DOMAIN list : list[v] > list[u]}
  <2>1. IsFiniteSet(DOMAIN list)
    BY RatingsAssumption, FS_Subset DEF ListOf
  <2>2. S \in SUBSET DOMAIN list
    OBVIOUS
  <2> HIDE DEF S
  <2>3. Cardinality(S) \in Nat
    BY <2>1, <2>2, FS_Subset, FS_CardinalityType
  <2>4. 1 + Cardinality(S) \in Nat \ {0}
    BY <2>3
  <2> QED
    BY <2>4 DEF S
<1> QED
  BY <1>1 DEF Ranks, ListOf

LEMMA ResultsOK ==
    ASSUME ExpectedOK, NEW list, ListOf(list, Nat),
           NEW before, DOMAIN before = DOMAIN list, ListOf(before, Nat)
    PROVE  /\ DOMAIN Results(list, before) = DOMAIN list
           /\ \A u \in DOMAIN list : Results(list, before)[u].before = before[u]
           /\ ListOf(Results(list, before), RatedRows)
           /\ Ordered(Results(list, before))
<1> DEFINE rank == Ranks(list)
           new == Results(list, before)
<1>1. DOMAIN rank = DOMAIN before /\ ListOf(rank, Nat \ {0})
  BY RanksPositive
<1>2. /\ DOMAIN new = DOMAIN list
      /\ \A u \in DOMAIN list :
            new[u] = [rank |-> rank[u], before |-> before[u], after |-> NewRating(u, before, rank)]
  BY DEF Results
<1> HIDE DEF rank, new
<1>3. \A u \in DOMAIN list : NewRating(u, before, rank) \in Nat
  BY <1>1, NewRatingNat
<1>4. \A u \in DOMAIN list : new[u] \in RatedRows
  BY <1>1, <1>2, <1>3 DEF RatedRows, ListOf
<1>5. Ordered(new)
  <2>1. ASSUME NEW u \in DOMAIN new, new[u].rank = 1 PROVE new[u].after >= new[u].before
    BY <1>1, <1>2, <2>1, FirstKeeps
  <2>2. ASSUME NEW u \in DOMAIN new, NEW v \in DOMAIN new,
               new[v].before = new[u].before, new[v].rank >= new[u].rank
        PROVE  new[v].after <= new[u].after
    BY <1>1, <1>2, <2>2, BetterGains
  <2> QED
    BY <2>1, <2>2 DEF Ordered
<1> QED
  BY <1>2, <1>4, <1>5 DEF ListOf, new

-----------------------------------------------------------------------------
\* The order of the contests.

LEMMA EarlierOrder ==
    ASSUME NEW c \in Contests, NEW d \in Contests
    PROVE  /\ c # d => Earlier(c, d) \/ Earlier(d, c)
           /\ ~ (Earlier(c, d) /\ Earlier(d, c))
           /\ \A e \in Contests : Earlier(c, d) /\ Earlier(d, e) => Earlier(c, e)
<1>1. \A e \in Contests : e \in Nat /\ EndTime[e] \in Nat
  BY RatingsAssumption
<1> QED
  BY <1>1 DEF Earlier

LastIn(c, S) == c \in S /\ \A d \in S \ {c} : Earlier(d, c)

LEMMA LastExists ==
    ASSUME NEW S, S \subseteq Contests, S # {}
    PROVE  \E c \in S : LastIn(c, S)
<1> DEFINE Bad == {T \in SUBSET S : T # {} /\ ~ \E c \in T : LastIn(c, T)}
<1>1. SUFFICES ASSUME Bad # {} PROVE FALSE
  OBVIOUS
<1>2. Bad \subseteq SUBSET S /\ IsFiniteSet(S)
  BY RatingsAssumption, FS_Subset
<1>3. PICK T \in Bad : \A U \in SUBSET T : U # T => U \notin Bad
  <2> HIDE DEF Bad
  <2> QED
    BY <1>1, <1>2, MinimalSubset
<1>4. PICK c \in T : TRUE
  OBVIOUS
<1>5. T \subseteq Contests /\ c \in Contests
  OBVIOUS
<1>6. T # {c}
  BY DEF LastIn
<1>7. PICK m \in T \ {c} : LastIn(m, T \ {c})
  <2>1. T \ {c} \in SUBSET T /\ T \ {c} # T /\ T \ {c} # {} /\ T \ {c} \in SUBSET S
    BY <1>4, <1>6
  <2> QED
    BY <1>3, <2>1
<1>8. CASE Earlier(c, m)
  BY <1>3, <1>7, <1>8 DEF LastIn
<1>9. CASE Earlier(m, c)
  <2>1. \A d \in T \ {c} : Earlier(d, c)
    BY <1>5, <1>7, <1>9, EarlierOrder DEF LastIn
  <2> QED
    BY <1>3, <1>4, <2>1 DEF LastIn
<1> QED
  BY <1>5, <1>7, <1>8, <1>9, EarlierOrder

LEMMA LastOfIs ==
    ASSUME NEW S, S \subseteq Contests, S # {}
    PROVE  LastOf(S) \in S /\ \A d \in S \ {LastOf(S)} : Earlier(d, LastOf(S))
BY LastExists, Zenon DEF LastOf, LastIn

LEMMA LastOfUnique ==
    ASSUME NEW S, S \subseteq Contests, NEW c \in S, \A d \in S \ {c} : Earlier(d, c)
    PROVE  LastOf(S) = c
<1>1. LastOf(S) \in S /\ \A d \in S \ {LastOf(S)} : Earlier(d, LastOf(S))
  BY LastOfIs
<1> QED
  BY <1>1, EarlierOrder

LEMMA LatestNat ==
    ASSUME NEW u \in Users, NEW S, S \subseteq Contests, NEW rows,
           \A c \in S : rows[c][u].after \in Nat
    PROVE  Latest(u, S, rows) \in Nat
BY LastOfIs DEF Latest, Initial

-----------------------------------------------------------------------------
PCs == {"idle", "check", "status", "read", "clear", "tx"}
Lists(R) == UNION {[S -> R] : S \in SUBSET Users}
CallRows == [pc : PCs, handler : Handlers, contest : Contests \cup {0},
             mark : BOOLEAN, alone : BOOLEAN,
             new : Lists(RatedRows), done : SUBSET Users, cleared : SUBSET Users,
             given : Lists(Nat)]

\* A call has a contest once it has begun, results once it has computed them, and rows
\* that it wrote while it is in its transaction; users follow when all are written.
StageOK(x) ==
    /\ x.pc # "idle" => x.contest \in Contests
    /\ x.pc \notin {"clear", "tx"} => DOMAIN x.new = {}
    /\ x.pc # "tx" => x.done = {} /\ x.cleared = {}
    /\ x.done \subseteq DOMAIN x.new
    /\ DOMAIN x.given \subseteq DOMAIN x.new
    /\ DOMAIN x.given # {} => x.done = DOMAIN x.new

CallsOK ==
    /\ call \in [Calls -> CallRows]
    /\ \A k \in Calls : StageOK(call[k])
    /\ \A k \in Calls : call[k].cleared \subseteq everBanned

LEMMA ListFacts ==
    ASSUME NEW R, NEW f \in Lists(R)
    PROVE  ListOf(f, R)
BY DEF Lists, ListOf

LEMMA NewRow ==
    ASSUME NEW f \in Lists(RatedRows), NEW u \in DOMAIN f
    PROVE  /\ u \in Users /\ f[u] \in RatedRows /\ f[u] \in RowType
           /\ f[u].rank \in Nat \ {0} /\ f[u].before \in Nat /\ f[u].after \in Nat
<1>1. u \in Users /\ f[u] \in RatedRows
  BY ListFacts DEF ListOf
<1> QED
  BY <1>1 DEF RatedRows, RowType

LEMMA ListMade ==
    ASSUME NEW R, NEW S \in SUBSET Users, NEW f \in [S -> R]
    PROVE  f \in Lists(R)
BY DEF Lists

LEMMA NoList == ASSUME NEW R PROVE <<>> \in Lists(R) /\ DOMAIN <<>> = {}
<1>1. <<>> \in [{} -> R]
  OBVIOUS
<1> QED
  BY <1>1 DEF Lists

LEMMA IdleOK == Idle \in CallRows /\ StageOK(Idle) /\ Idle.cleared = {} /\ Idle.pc = "idle"
<1>1. Idle \in CallRows
  BY NoList DEF Idle, CallRows, PCs, Handlers
<1> QED
  BY <1>1, NoList DEF Idle, StageOK

\* The step of a call that takes it to x.
LEMMA CallStep ==
    ASSUME CallsOK, NEW k \in Calls, NEW x \in CallRows, StageOK(x),
           call' = [call EXCEPT ![k] = x], everBanned' = everBanned,
           x.cleared \subseteq everBanned
    PROVE  CallsOK'
<1>1. call' \in [Calls -> CallRows] /\ \A j \in Calls : call'[j] = IF j = k THEN x ELSE call[j]
  BY DEF CallsOK
<1> QED
  BY <1>1 DEF CallsOK

LEMMA BeforeNat ==
    ASSUME TypeOK, NEW u \in Users, NEW c \in Contests, NEW rerun
    PROVE  Before(u, c, rerun) \in Nat
<1>1. \A d \in Contests : row[d][u] \in RowType
  BY DEF TypeOK
<1>2. row[c][u].before \in Nat \cup {NoRow}
  BY <1>1 DEF RowType
<1> DEFINE S == {d \in Counting(u, row, status) : Earlier(d, c)}
<1>3. S \subseteq Contests /\ \A d \in S : row[d][u].after \in Nat
  BY <1>1 DEF Counting, RowType
<1> HIDE DEF S
<1>4. Latest(u, S, row) \in Nat
  BY <1>3, LatestNat
<1> QED
  BY <1>2, <1>4 DEF Before, S

\* The transaction of a call sees rows of the right types.
LEMMA RowsTyped ==
    ASSUME TypeOK, CallsOK, NEW k \in Calls, call[k].pc = "tx"
    PROVE  /\ Rows(k) \in [Contests -> [Users -> RowType]]
           /\ \A c \in Contests, u \in Users : Rows(k)[c][u] =
                 IF c # call[k].contest THEN row[c][u]
                 ELSE IF u \in call[k].done THEN call[k].new[u]
                 ELSE IF u \in call[k].cleared THEN Unrated ELSE row[c][u]
           /\ Status(k) \in [Contests -> {"upcoming", "finalized"}]
           /\ \A c \in Contests : Status(k)[c] =
                 IF c = call[k].contest /\ call[k].mark THEN "finalized" ELSE status[c]
<1> DEFINE x == call[k]
           line == [u \in Users |-> IF u \in x.done THEN x.new[u]
                                    ELSE IF u \in x.cleared THEN Unrated
                                    ELSE row[x.contest][u]]
<1>1. x \in CallRows /\ StageOK(x) /\ x.contest \in Contests
  BY DEF CallsOK, StageOK
<1>2. row \in [Contests -> [Users -> RowType]]
      /\ status \in [Contests -> {"upcoming", "finalized"}]
  BY DEF TypeOK
<1>3. Unrated \in RowType
  BY DEF Unrated, RowType
<1>4. \A u \in x.done : x.new[u] \in RowType
  <2>1. x.new \in Lists(RatedRows) /\ x.done \subseteq DOMAIN x.new
    BY <1>1 DEF CallRows, StageOK
  <2> QED
    BY <2>1, NewRow
<1>5. line \in [Users -> RowType]
  BY <1>1, <1>2, <1>3, <1>4
<1>6. Rows(k) = [row EXCEPT ![x.contest] = line]
  BY <1>2 DEF Rows
<1>7. Status(k) = [status EXCEPT ![x.contest] = IF x.mark THEN "finalized" ELSE status[x.contest]]
  BY <1>2 DEF Status
<1> HIDE DEF line
<1>8. Rows(k) \in [Contests -> [Users -> RowType]]
  BY <1>1, <1>2, <1>5, <1>6
<1>9. \A c \in Contests, u \in Users :
         Rows(k)[c][u] = IF c = x.contest THEN line[u] ELSE row[c][u]
  BY <1>1, <1>2, <1>6
<1>10. Status(k) \in [Contests -> {"upcoming", "finalized"}]
  BY <1>1, <1>2, <1>7
<1>11. \A c \in Contests : Status(k)[c] = IF c = x.contest /\ x.mark THEN "finalized" ELSE status[c]
  BY <1>1, <1>2, <1>7
<1> QED
  BY <1>8, <1>9, <1>10, <1>11 DEF line

LEMMA NewUserRatingNat ==
    ASSUME TypeOK, CallsOK, NEW k \in Calls, call[k].pc = "tx", NEW u \in DOMAIN call[k].new
    PROVE  u \in Users /\ NewUserRating(k, u) \in Nat
<1> DEFINE S == Counting(u, Rows(k), Status(k))
<1>1. u \in Users /\ call[k].new[u].after \in Nat
  <2>1. call[k].new \in Lists(RatedRows)
    BY DEF CallsOK, CallRows
  <2> QED
    BY <2>1, NewRow
<1>2. Rows(k) \in [Contests -> [Users -> RowType]]
  BY RowsTyped
<1>3. S \subseteq Contests /\ \A c \in S : Rows(k)[c][u].after \in Nat
  BY <1>1, <1>2 DEF Counting, RowType
<1> HIDE DEF S
<1>4. S # {} => Rows(k)[LastOf(S)][u].after \in Nat
  BY <1>3, LastOfIs
<1> QED
  BY <1>1, <1>4 DEF NewUserRating, S

\* The participants whom Read finds get results.
LEMMA ReadResults ==
    ASSUME ExpectedOK, TypeOK, NEW c \in Contests, NEW rerun,
           NEW parts, parts = {u \in Users \ banned : score[c][u] # NoRow},
           NEW new, new = Results([u \in parts |-> score[c][u]],
                                  [u \in parts |-> Before(u, c, rerun)])
    PROVE  /\ new \in Lists(RatedRows) /\ DOMAIN new = parts
           /\ \A u \in parts : new[u].before = Before(u, c, rerun)
           /\ Ordered(new)
<1> DEFINE list == [u \in parts |-> score[c][u]]
           before == [u \in parts |-> Before(u, c, rerun)]
<1>1. parts \subseteq Users /\ \A u \in parts : score[c][u] \in Nat
  BY DEF TypeOK
<1>2. ListOf(list, Nat) /\ ListOf(before, Nat) /\ DOMAIN list = parts /\ DOMAIN before = parts
  BY <1>1, BeforeNat DEF ListOf
<1>3. \A u \in parts : before[u] = Before(u, c, rerun)
  OBVIOUS
<1>4. new = Results(list, before)
  OBVIOUS
<1> HIDE DEF list, before
<1>5. /\ DOMAIN new = parts /\ ListOf(new, RatedRows) /\ Ordered(new)
      /\ \A u \in parts : new[u].before = before[u]
  <2>1. DOMAIN before = DOMAIN list
    BY <1>2
  <2>2. /\ DOMAIN Results(list, before) = DOMAIN list
        /\ \A u \in DOMAIN list : Results(list, before)[u].before = before[u]
        /\ ListOf(Results(list, before), RatedRows)
        /\ Ordered(Results(list, before))
    BY <1>2, <2>1, ResultsOK
  <2> QED
    BY <1>2, <1>4, <2>2
<1>6. new \in [parts -> RatedRows]
  <2>1. new = [u \in parts |-> new[u]]
    BY <1>2, <1>4 DEF Results
  <2> QED
    BY <1>5, <2>1 DEF ListOf
<1> QED
  BY <1>1, <1>3, <1>5, <1>6, ListMade

-----------------------------------------------------------------------------
\* Each step of a call is one of these changes.

LEMMA BeginCall ==
    ASSUME CallsOK, NEW k \in Calls, Begin(k)
    PROVE  CallsOK'
<1>1. PICK h \in Handlers, c \in Contests :
        call' = [j \in Calls |->
                  IF j # k THEN [call[j] EXCEPT !.alone = FALSE]
                  ELSE [Idle EXCEPT !.pc = IF h = "rerun" THEN "read" ELSE "check",
                                    !.handler = h, !.contest = c,
                                    !.mark = status[c] # "finalized",
                                    !.alone = \A i \in Calls \ {k} : call[i] = Idle]]
  BY DEF Begin
<1> DEFINE x == [Idle EXCEPT !.pc = IF h = "rerun" THEN "read" ELSE "check",
                             !.handler = h, !.contest = c,
                             !.mark = status[c] # "finalized",
                             !.alone = \A i \in Calls \ {k} : call[i] = Idle]
<1>2. x \in CallRows /\ StageOK(x) /\ x.cleared = {}
  <2>1. /\ x.pc \in {"read", "check"} /\ x.handler = h /\ x.contest = c
        /\ x.new = <<>> /\ x.done = {} /\ x.cleared = {} /\ x.given = <<>>
    BY DEF Idle
  <2>2. x \in CallRows
    BY NoList DEF Idle, CallRows, PCs
  <2> HIDE DEF x
  <2> QED
    BY <2>1, <2>2, NoList DEF StageOK
<1>3. ASSUME NEW j \in Calls
      PROVE  LET y == [call[j] EXCEPT !.alone = FALSE] IN
             y \in CallRows /\ StageOK(y) /\ y.cleared = call[j].cleared
  <2>1. call[j] \in CallRows /\ StageOK(call[j])
    BY DEF CallsOK
  <2> QED
    BY <2>1 DEF CallRows, StageOK
<1>4. /\ call' \in [Calls -> CallRows]
      /\ \A j \in Calls : call'[j] = IF j = k THEN x ELSE [call[j] EXCEPT !.alone = FALSE]
  <2> HIDE DEF x
  <2> QED
    BY <1>1, <1>2, <1>3 DEF x
<1> HIDE DEF x
<1>5. everBanned' = everBanned
  BY DEF Begin, history
<1> QED
  BY <1>2, <1>3, <1>4, <1>5 DEF CallsOK

LEMMA CheckCall ==
    ASSUME CallsOK, NEW k \in Calls, CheckApplied(k)
    PROVE  /\ CallsOK'
           /\ \E x \in CallRows : /\ call' = [call EXCEPT ![k] = x]
                                  /\ x = Idle \/ x = [call[k] EXCEPT !.pc = "status"]
                                     \/ /\ x = [call[k] EXCEPT !.pc = "read"]
                                        /\ \A u \in Users : row[call[k].contest][u].after = NoRow
<1> DEFINE applied == \E u \in Users : row[call[k].contest][u].after # NoRow
           r == [call[k] EXCEPT !.pc = "read"]
           s == [call[k] EXCEPT !.pc = "status"]
<1>1. call[k] \in CallRows /\ StageOK(call[k]) /\ call[k].pc = "check"
  BY DEF CallsOK, CheckApplied
<1>2. r \in CallRows /\ StageOK(r) /\ r.cleared = {}
  BY <1>1 DEF CallRows, PCs, StageOK
<1>3. s \in CallRows /\ StageOK(s) /\ s.cleared = {}
  BY <1>1 DEF CallRows, PCs, StageOK
<1>4. /\ ~applied => call' = [call EXCEPT ![k] = r]
      /\ applied /\ call[k].handler = "admin" => call' = [call EXCEPT ![k] = s]
      /\ applied /\ call[k].handler # "admin" => call' = [call EXCEPT ![k] = Idle]
  BY DEF CheckApplied, CallsOK
<1>5. everBanned' = everBanned
  BY DEF CheckApplied, history
<1>6. CASE ~applied
  BY <1>2, <1>4, <1>5, <1>6, CallStep
<1>7. CASE applied /\ call[k].handler = "admin"
  BY <1>3, <1>4, <1>5, <1>7, CallStep
<1>8. CASE applied /\ call[k].handler # "admin"
  BY IdleOK, <1>4, <1>5, <1>8, CallStep
<1> QED
  BY <1>6, <1>7, <1>8

\* SetStatus, Commit and Abort end a call.
LEMMA EndCall ==
    ASSUME CallsOK, NEW k \in Calls, call' = [call EXCEPT ![k] = Idle], everBanned' = everBanned
    PROVE  CallsOK'
BY IdleOK, CallStep

LEMMA ReadCall ==
    ASSUME ExpectedOK, TypeOK, CallsOK, NEW k \in Calls, Read(k)
    PROVE  /\ CallsOK'
           /\ \E new \in Lists(RatedRows) :
                 /\ call' = [call EXCEPT ![k] = [call[k] EXCEPT !.pc = "clear", !.new = new]]
                 /\ DOMAIN new = {u \in Users \ banned : score[call[k].contest][u] # NoRow}
                 /\ \A u \in DOMAIN new : new[u].before =
                       Before(u, call[k].contest, call[k].handler = "rerun")
                 /\ Ordered(new)
<1> DEFINE c == call[k].contest
           rerun == call[k].handler = "rerun"
           parts == {u \in Users \ banned : score[c][u] # NoRow}
           new == Results([u \in parts |-> score[c][u]], [u \in parts |-> Before(u, c, rerun)])
           x == [call[k] EXCEPT !.pc = "clear", !.new = new]
<1>1. call[k] \in CallRows /\ StageOK(call[k]) /\ call[k].pc = "read" /\ c \in Contests
  BY DEF CallsOK, Read, StageOK
<1>2. /\ new \in Lists(RatedRows) /\ DOMAIN new = parts
      /\ \A u \in parts : new[u].before = Before(u, c, rerun)
      /\ Ordered(new)
  BY <1>1, ReadResults
<1>3. call' = [call EXCEPT ![k] = x]
  BY DEF Read, CallsOK
<1>4. x \in CallRows /\ StageOK(x) /\ x.cleared = {}
  <2> HIDE DEF new
  <2> QED
    BY <1>1, <1>2 DEF CallRows, PCs, StageOK
<1>5. everBanned' = everBanned
  BY DEF Read, history
<1>6. CallsOK'
  <2> HIDE DEF x
  <2> QED
    BY <1>3, <1>4, <1>5, CallStep
<1> HIDE DEF new
<1> QED
  BY <1>2, <1>3, <1>6

LEMMA ClearCall ==
    ASSUME TypeOK, CallsOK, NEW k \in Calls, Clear(k)
    PROVE  /\ CallsOK'
           /\ \E out \in SUBSET everBanned : /\ out \subseteq Users
                 /\ call' = [call EXCEPT ![k] = [call[k] EXCEPT !.pc = "tx", !.cleared = out]]
<1> DEFINE out == {u \in banned : score[call[k].contest][u] # NoRow}
           x == [call[k] EXCEPT !.pc = "tx", !.cleared = out]
<1>1. call[k] \in CallRows /\ StageOK(call[k]) /\ call[k].pc = "clear"
  BY DEF CallsOK, Clear
<1>2. out \subseteq everBanned /\ out \subseteq Users
  BY DEF TypeOK
<1>3. call' = [call EXCEPT ![k] = x]
  BY DEF Clear, CallsOK
<1>4. x \in CallRows /\ StageOK(x) /\ x.cleared \subseteq everBanned
  <2> HIDE DEF out
  <2> QED
    BY <1>1, <1>2 DEF CallRows, PCs, StageOK
<1>5. everBanned' = everBanned
  BY DEF Clear, history
<1>6. CallsOK'
  <2> HIDE DEF x
  <2> QED
    BY <1>3, <1>4, <1>5, CallStep
<1> HIDE DEF out
<1> QED
  BY <1>2, <1>3, <1>6

LEMMA WriteCall ==
    ASSUME CallsOK, NEW k \in Calls, Write(k)
    PROVE  /\ CallsOK'
           /\ DOMAIN call[k].given = {}
           /\ \E u \in DOMAIN call[k].new :
                 /\ call' = [call EXCEPT ![k] = [call[k] EXCEPT !.done = call[k].done \cup {u}]]
                 /\ UserFree(k, u)
<1>1. PICK u \in NextOf(k, call[k].done) :
        /\ UserFree(k, u)
        /\ call' = [call EXCEPT ![k].done = call[k].done \cup {u}]
  BY DEF Write
<1> DEFINE x == [call[k] EXCEPT !.done = call[k].done \cup {u}]
<1>2. call[k] \in CallRows /\ StageOK(call[k]) /\ call[k].pc = "tx"
  BY DEF CallsOK, Write
<1>3. u \in DOMAIN call[k].new /\ u \notin call[k].done /\ u \in Users
  <2>1. u \in DOMAIN call[k].new /\ u \notin call[k].done
    BY DEF NextOf
  <2>2. call[k].new \in Lists(RatedRows)
    BY <1>2 DEF CallRows
  <2> QED
    BY <2>1, <2>2, NewRow
<1>4. DOMAIN call[k].given = {}
  BY <1>2, <1>3 DEF StageOK
<1>5. call' = [call EXCEPT ![k] = x]
  BY <1>1 DEF CallsOK
<1>6. x \in CallRows /\ StageOK(x) /\ x.cleared = call[k].cleared
  BY <1>2, <1>3, <1>4 DEF CallRows, StageOK
<1>7. everBanned' = everBanned /\ call[k].cleared \subseteq everBanned
  BY DEF Write, history, CallsOK
<1>8. CallsOK'
  <2> HIDE DEF x
  <2> QED
    BY <1>5, <1>6, <1>7, CallStep
<1> QED
  BY <1>1, <1>3, <1>4, <1>5, <1>8

LEMMA RecomputeCall ==
    ASSUME TypeOK, CallsOK, NEW k \in Calls, Recompute(k)
    PROVE  /\ CallsOK'
           /\ \E u \in DOMAIN call[k].new, given \in Lists(Nat) :
                 /\ call' = [call EXCEPT ![k] = [call[k] EXCEPT !.given = given]]
                 /\ DOMAIN given = DOMAIN call[k].given \cup {u}
                 /\ \A v \in DOMAIN given : given[v] = IF v = u THEN NewUserRating(k, u)
                                                       ELSE call[k].given[v]
<1>1. PICK u \in NextOf(k, DOMAIN call[k].given) :
        call' = [call EXCEPT ![k].given =
                   [v \in DOMAIN call[k].given \cup {u} |->
                       IF v = u THEN NewUserRating(k, u) ELSE call[k].given[v]]]
  BY DEF Recompute
<1> DEFINE given == [v \in DOMAIN call[k].given \cup {u} |->
                        IF v = u THEN NewUserRating(k, u) ELSE call[k].given[v]]
           x == [call[k] EXCEPT !.given = given]
<1>2. call[k] \in CallRows /\ StageOK(call[k]) /\ call[k].pc = "tx"
      /\ call[k].done = DOMAIN call[k].new
  BY DEF CallsOK, Recompute, Written
<1>3. u \in DOMAIN call[k].new /\ u \in Users
  <2>1. u \in DOMAIN call[k].new
    BY DEF NextOf
  <2>2. call[k].new \in Lists(RatedRows)
    BY <1>2 DEF CallRows
  <2> QED
    BY <2>1, <2>2, NewRow
<1>4. NewUserRating(k, u) \in Nat
  BY <1>2, <1>3, NewUserRatingNat
<1>5. DOMAIN call[k].given \subseteq Users /\ \A v \in DOMAIN call[k].given : call[k].given[v] \in Nat
  <2>1. call[k].given \in Lists(Nat)
    BY <1>2 DEF CallRows
  <2> QED
    BY <2>1, ListFacts DEF ListOf
<1>6. given \in Lists(Nat)
  <2>1. given \in [DOMAIN call[k].given \cup {u} -> Nat]
    BY <1>4, <1>5
  <2>2. DOMAIN call[k].given \cup {u} \in SUBSET Users
    BY <1>3, <1>5
  <2> HIDE DEF given
  <2> QED
    BY <2>1, <2>2, ListMade
<1>7. /\ DOMAIN given = DOMAIN call[k].given \cup {u}
      /\ \A v \in DOMAIN given : given[v] = IF v = u THEN NewUserRating(k, u) ELSE call[k].given[v]
  OBVIOUS
<1>8. call' = [call EXCEPT ![k] = x]
  BY <1>1 DEF CallsOK
<1> HIDE DEF given
<1>9. x \in CallRows /\ StageOK(x) /\ x.cleared = call[k].cleared
  BY <1>2, <1>3, <1>6, <1>7 DEF CallRows, StageOK
<1>10. everBanned' = everBanned /\ call[k].cleared \subseteq everBanned
  BY DEF Recompute, history, CallsOK
<1>11. CallsOK'
  <2> HIDE DEF x
  <2> QED
    BY <1>8, <1>9, <1>10, CallStep
<1> QED
  BY <1>3, <1>6, <1>7, <1>8, <1>11

\* What a commit leaves.
LEMMA CommitIs ==
    ASSUME TypeOK, CallsOK, NEW k \in Calls, Commit(k)
    PROVE  LET x == call[k] IN
           /\ x \in CallRows /\ StageOK(x) /\ x.pc = "tx" /\ x.contest \in Contests
           /\ x.done = DOMAIN x.new /\ DOMAIN x.given = DOMAIN x.new /\ DOMAIN x.new \subseteq Users
           /\ row' = Rows(k) /\ status' = Status(k)
           /\ row' \in [Contests -> [Users -> RowType]]
           /\ status' \in [Contests -> {"upcoming", "finalized"}]
           /\ \A c \in Contests, u \in Users : row'[c][u] =
                 IF c # x.contest THEN row[c][u]
                 ELSE IF u \in DOMAIN x.new THEN x.new[u]
                 ELSE IF u \in x.cleared THEN Unrated ELSE row[c][u]
           /\ \A c \in Contests : status'[c] =
                 IF c = x.contest /\ x.mark THEN "finalized" ELSE status[c]
           /\ \A u \in Users : rating'[u] = IF u \in DOMAIN x.new THEN x.given[u] ELSE rating[u]
           /\ rating' \in [Users -> Nat]
           /\ call' = [call EXCEPT ![k] = Idle]
           /\ UNCHANGED <<clock, score, banned, everBanned>>
<1> DEFINE x == call[k]
<1>1. x \in CallRows /\ StageOK(x) /\ x.pc = "tx" /\ x.contest \in Contests
  BY DEF CallsOK, Commit, Written, StageOK
<1>2. x.done = DOMAIN x.new /\ DOMAIN x.given = DOMAIN x.new
  BY DEF Commit, Written
<1>3. /\ row' = Rows(k) /\ status' = Status(k) /\ call' = [call EXCEPT ![k] = Idle]
      /\ rating' = [u \in Users |-> IF u \in DOMAIN x.given THEN x.given[u] ELSE rating[u]]
      /\ UNCHANGED <<clock, score, banned, everBanned>>
  BY DEF Commit
<1>4. DOMAIN x.new \subseteq Users /\ \A u \in DOMAIN x.given : x.given[u] \in Nat
  <2>1. x.given \in Lists(Nat) /\ x.new \in Lists(RatedRows)
    BY <1>1 DEF CallRows
  <2> QED
    BY <2>1, ListFacts DEF ListOf
<1>5. rating' \in [Users -> Nat]
  BY <1>3, <1>4 DEF TypeOK
<1>6. /\ row' \in [Contests -> [Users -> RowType]]
      /\ status' \in [Contests -> {"upcoming", "finalized"}]
  BY <1>1, <1>3, RowsTyped
<1>7. \A c \in Contests, u \in Users : row'[c][u] =
         IF c # x.contest THEN row[c][u]
         ELSE IF u \in DOMAIN x.new THEN x.new[u]
         ELSE IF u \in x.cleared THEN Unrated ELSE row[c][u]
  BY <1>1, <1>2, <1>3, RowsTyped
<1>8. \A c \in Contests : status'[c] = IF c = x.contest /\ x.mark THEN "finalized" ELSE status[c]
  BY <1>1, <1>3, RowsTyped
<1>9. \A u \in Users : rating'[u] = IF u \in DOMAIN x.new THEN x.given[u] ELSE rating[u]
  BY <1>2, <1>3
<1> HIDE DEF x
<1> QED
  BY <1>1, <1>2, <1>3, <1>4, <1>5, <1>6, <1>7, <1>8, <1>9 DEF x

LEMMA LandIs ==
    ASSUME TypeOK, NEW x \in Late, Land(x[1], x[2], x[3])
    PROVE  /\ score' \in [Contests -> [Users -> Nat \cup {NoRow}]]
           /\ \A c \in Contests, u \in Users : score[c][u] # NoRow => score'[c][u] # NoRow
           /\ UNCHANGED <<clock, status, row, rating, banned, call, history>>
<1> DEFINE c == x[1]
           u == x[2]
           s == x[3]
<1>1. c \in Contests /\ u \in Users /\ s \in Nat /\ NoRow \notin Nat
  BY RatingsAssumption
<1>2. score' = [score EXCEPT ![c][u] = s] /\ UNCHANGED <<clock, status, row, rating, banned, call, history>>
  BY DEF Land
<1>3. score \in [Contests -> [Users -> Nat \cup {NoRow}]]
  BY DEF TypeOK
<1> HIDE DEF c, u, s
<1>4. /\ score' \in [Contests -> [Users -> Nat \cup {NoRow}]]
      /\ \A d \in Contests, v \in Users :
            score'[d][v] = IF d = c /\ v = u THEN s ELSE score[d][v]
  BY <1>1, <1>2, <1>3
<1> QED
  BY <1>1, <1>2, <1>4

LEMMA TypesStep ==
    ASSUME ExpectedOK, TypeOK, CallsOK, [Next]_vars
    PROVE  TypeOK' /\ CallsOK'
<1> USE DEF history
<1>1. ASSUME NEW k \in Calls, Begin(k) PROVE TypeOK' /\ CallsOK'
  BY <1>1, BeginCall DEF Begin, TypeOK
<1>2. ASSUME NEW k \in Calls, CheckApplied(k) PROVE TypeOK' /\ CallsOK'
  BY <1>2, CheckCall DEF CheckApplied, TypeOK
<1>3. ASSUME NEW k \in Calls, SetStatus(k) PROVE TypeOK' /\ CallsOK'
  BY <1>3, EndCall DEF SetStatus, TypeOK
<1>4. ASSUME NEW k \in Calls, Read(k) PROVE TypeOK' /\ CallsOK'
  <2>1. UNCHANGED <<clock, status, score, row, rating, banned, history>>
    BY <1>4 DEF Read
  <2> QED
    BY <1>4, <2>1, ReadCall DEF TypeOK
<1>5. ASSUME NEW k \in Calls, Clear(k) PROVE TypeOK' /\ CallsOK'
  BY <1>5, ClearCall DEF Clear, TypeOK
<1>6. ASSUME NEW k \in Calls, Write(k) PROVE TypeOK' /\ CallsOK'
  BY <1>6, WriteCall DEF Write, TypeOK
<1>7. ASSUME NEW k \in Calls, Recompute(k) PROVE TypeOK' /\ CallsOK'
  <2>1. UNCHANGED <<clock, status, score, row, rating, banned, history>>
    BY <1>7 DEF Recompute
  <2> QED
    BY <1>7, <2>1, RecomputeCall DEF TypeOK
<1>8. ASSUME NEW k \in Calls, Commit(k) PROVE TypeOK' /\ CallsOK'
  <2>1. /\ row' \in [Contests -> [Users -> RowType]]
        /\ status' \in [Contests -> {"upcoming", "finalized"}]
        /\ rating' \in [Users -> Nat] /\ call' = [call EXCEPT ![k] = Idle]
        /\ UNCHANGED <<clock, score, banned, everBanned>>
    BY <1>8, CommitIs
  <2> QED
    BY <2>1, EndCall DEF TypeOK
<1>9. ASSUME NEW k \in Calls, Abort(k) PROVE TypeOK' /\ CallsOK'
  BY <1>9, EndCall DEF Abort, TypeOK
<1>10. ASSUME NEW x \in Late, Land(x[1], x[2], x[3]) PROVE TypeOK' /\ CallsOK'
  BY <1>10, LandIs DEF TypeOK, CallsOK
<1>11. ASSUME NEW u \in Bannable, Ban(u) \/ Unban(u) PROVE TypeOK' /\ CallsOK'
  BY <1>11, RatingsAssumption DEF Ban, Unban, TypeOK, CallsOK
<1>12. CASE Tick
  BY <1>12 DEF Tick, TypeOK, CallsOK
<1>13. CASE UNCHANGED vars
  BY <1>13 DEF vars, TypeOK, CallsOK
<1> QED
  BY <1>1, <1>2, <1>3, <1>4, <1>5, <1>6, <1>7, <1>8, <1>9, <1>10, <1>11, <1>12, <1>13
  DEF Next, Apply

LEMMA InitTypes == Init => TypeOK /\ CallsOK
<1> SUFFICES ASSUME Init PROVE TypeOK /\ CallsOK
  OBVIOUS
<1>1. TypeOK
  BY RatingsAssumption DEF Init, TypeOK, RowType, Unrated, Initial
<1>2. CallsOK
  BY IdleOK DEF Init, CallsOK
<1> QED
  BY <1>1, <1>2

\* Ratings stay natural numbers, and the rest of the types, however the calls interleave:
\* no rounding and no sum of calculateELO leaves its range.
THEOREM RatingsTypes ==
    ASSUME ExpectedOK
    PROVE  Spec => []TypeOK
<1>1. Init => TypeOK /\ CallsOK
  BY InitTypes
<1>2. TypeOK /\ CallsOK /\ [Next]_vars => TypeOK' /\ CallsOK'
  BY TypesStep
<1> QED
  BY <1>1, <1>2, PTL DEF Spec

-----------------------------------------------------------------------------
\* No two transactions have written the same row of users.
LocksOK == \A j, k \in Calls : j # k => call[j].done \cap call[k].done = {}

\* A call that does not finalize found its contest finalized.
MarkOK ==
    \A k \in Calls : call[k].pc # "idle" /\ ~call[k].mark => status[call[k].contest] = "finalized"

\* Results are those of participants, in the order of their ranks.
ResultsInv ==
    \A k \in Calls : /\ Ordered(call[k].new)
                     /\ \A u \in DOMAIN call[k].new : score[call[k].contest][u] # NoRow

\* A row is rated as a whole; then its user takes part and its contest is finalized.
RatedOK ==
    \A c \in Contests, u \in Users :
        IF row[c][u].after = NoRow THEN row[c][u].before = NoRow
        ELSE /\ row[c][u] \in RatedRows
             /\ status[c] = "finalized" /\ score[c][u] # NoRow

\* What a step does to call j: the contest, the mark and the results stay; or the call
\* is over or begins and has no results; or it reads them.
Stays(j) ==
    /\ call'[j].pc # "idle" => call[j].pc # "idle"
    /\ call'[j].contest = call[j].contest /\ call'[j].mark = call[j].mark
    /\ call'[j].new = call[j].new
Fresh(j) ==
    /\ DOMAIN call'[j].new = {}
    /\ call'[j].pc # "idle" => call'[j].mark = (status[call'[j].contest] # "finalized")
Reads(j) ==
    /\ call[j].pc # "idle"
    /\ call'[j].contest = call[j].contest /\ call'[j].mark = call[j].mark
    /\ Ordered(call'[j].new)
    /\ \A u \in DOMAIN call'[j].new : score[call[j].contest][u] # NoRow

\* The rows of users that are locked: no step but a write adds one.
Unlocks(j) == call'[j].done \subseteq call[j].done

LEMMA OtherCall ==
    ASSUME CallsOK, NEW k \in Calls, NEW j \in Calls, j # k, NEW x, call' = [call EXCEPT ![k] = x]
    PROVE  call'[j] = call[j] /\ Stays(j) /\ Unlocks(j)
BY DEF CallsOK, Stays, Unlocks

LEMMA OwnCall ==
    ASSUME CallsOK, NEW k \in Calls, NEW x, call' = [call EXCEPT ![k] = x]
    PROVE  call'[k] = x
BY DEF CallsOK

LEMMA IdleFresh ==
    ASSUME CallsOK, NEW k \in Calls, call' = [call EXCEPT ![k] = Idle]
    PROVE  Fresh(k) /\ Unlocks(k)
<1>1. call'[k] = Idle
  BY OwnCall
<1> QED
  BY <1>1, NoList DEF Fresh, Unlocks, Idle

LEMMA BeginIs ==
    ASSUME CallsOK, NEW k \in Calls, Begin(k)
    PROVE  /\ \A j \in Calls \ {k} : /\ call'[j] = [call[j] EXCEPT !.alone = FALSE]
                                     /\ Stays(j) /\ Unlocks(j)
           /\ Fresh(k) /\ Unlocks(k)
           /\ call'[k].pc \in {"check", "read"} /\ call'[k].contest \in Contests
           /\ call'[k].pc = "read" => call'[k].handler = "rerun"
           /\ call'[k].alone => \A i \in Calls \ {k} : call[i] = Idle
           /\ call'[k].given = <<>> /\ call'[k].done = {}
<1>1. PICK h \in Handlers, c \in Contests :
        call' = [j \in Calls |->
                  IF j # k THEN [call[j] EXCEPT !.alone = FALSE]
                  ELSE [Idle EXCEPT !.pc = IF h = "rerun" THEN "read" ELSE "check",
                                    !.handler = h, !.contest = c,
                                    !.mark = status[c] # "finalized",
                                    !.alone = \A i \in Calls \ {k} : call[i] = Idle]]
  BY DEF Begin
<1>2. ASSUME NEW j \in Calls \ {k}
      PROVE  call'[j] = [call[j] EXCEPT !.alone = FALSE] /\ Stays(j) /\ Unlocks(j)
  <2>1. call'[j] = [call[j] EXCEPT !.alone = FALSE]
    BY <1>1
  <2>2. call[j] \in CallRows
    BY DEF CallsOK
  <2>3. /\ call'[j].pc = call[j].pc /\ call'[j].contest = call[j].contest
        /\ call'[j].mark = call[j].mark /\ call'[j].new = call[j].new
        /\ call'[j].done = call[j].done
    BY <2>1, <2>2 DEF CallRows
  <2> QED
    BY <2>1, <2>3 DEF Stays, Unlocks
<1> DEFINE x == [Idle EXCEPT !.pc = IF h = "rerun" THEN "read" ELSE "check",
                             !.handler = h, !.contest = c,
                             !.mark = status[c] # "finalized",
                             !.alone = \A i \in Calls \ {k} : call[i] = Idle]
<1>3. call'[k] = x
  BY <1>1
<1>4. /\ x.pc = IF h = "rerun" THEN "read" ELSE "check"
      /\ x.handler = h /\ x.contest = c
      /\ x.new = <<>> /\ x.done = {} /\ x.given = <<>>
  BY DEF Idle
<1>5. x.mark = (status[c] # "finalized") /\ x.alone = (\A i \in Calls \ {k} : call[i] = Idle)
  BY DEF Idle
<1> HIDE DEF x
<1>6. Fresh(k) /\ Unlocks(k)
  BY <1>3, <1>4, <1>5, NoList DEF Fresh, Unlocks
<1>7. /\ call'[k].pc \in {"check", "read"} /\ call'[k].contest \in Contests
      /\ call'[k].pc = "read" => call'[k].handler = "rerun"
      /\ call'[k].given = <<>> /\ call'[k].done = {}
  BY <1>3, <1>4
<1>8. call'[k].alone => \A i \in Calls \ {k} : call[i] = Idle
  BY <1>3, <1>5
<1> QED
  BY <1>2, <1>6, <1>7, <1>8

LEMMA CallChange ==
    ASSUME ExpectedOK, TypeOK, CallsOK, [Next]_vars, NEW j \in Calls
    PROVE  /\ Stays(j) \/ Fresh(j) \/ Reads(j)
           /\ Unlocks(j) \/ Write(j)
<1>1. ASSUME NEW k \in Calls, Begin(k)
      PROVE  (Stays(j) \/ Fresh(j)) /\ Unlocks(j)
  BY <1>1, BeginIs
<1>2. ASSUME NEW k \in Calls, CheckApplied(k)
      PROVE  (Stays(j) \/ Fresh(j)) /\ Unlocks(j)
  <2>1. PICK x \in CallRows :
          /\ call' = [call EXCEPT ![k] = x]
          /\ x = Idle \/ x = [call[k] EXCEPT !.pc = "status"] \/ x = [call[k] EXCEPT !.pc = "read"]
    BY <1>2, CheckCall
  <2>2. CASE j # k
    BY <2>1, <2>2, OtherCall
  <2>3. CASE j = k /\ x = Idle
    BY <2>1, <2>3, IdleFresh
  <2>4. CASE j = k /\ x # Idle
    <3>1. call'[j] = x /\ call[j] \in CallRows /\ call[j].pc = "check"
      BY <1>2, <2>1, <2>4, OwnCall DEF CallsOK, CheckApplied
    <3> QED
      BY <2>1, <2>4, <3>1 DEF Stays, Unlocks, CallRows
  <2> QED
    BY <2>2, <2>3, <2>4
<1>3. ASSUME NEW k \in Calls, call' = [call EXCEPT ![k] = Idle]
      PROVE  (Stays(j) \/ Fresh(j)) /\ Unlocks(j)
  BY <1>3, OtherCall, IdleFresh
<1>4. ASSUME NEW k \in Calls, Read(k)
      PROVE  (Stays(j) \/ Reads(j)) /\ Unlocks(j)
  <2>1. PICK new \in Lists(RatedRows) :
          /\ call' = [call EXCEPT ![k] = [call[k] EXCEPT !.pc = "clear", !.new = new]]
          /\ DOMAIN new = {u \in Users \ banned : score[call[k].contest][u] # NoRow}
          /\ Ordered(new)
    BY <1>4, ReadCall
  <2>2. CASE j # k
    BY <2>1, <2>2, OtherCall
  <2>3. CASE j = k
    <3>1. /\ call'[j] = [call[j] EXCEPT !.pc = "clear", !.new = new]
          /\ call[j] \in CallRows /\ call[j].pc = "read"
      BY <1>4, <2>1, <2>3, OwnCall DEF CallsOK, Read
    <3>2. /\ call'[j].new = new /\ call'[j].contest = call[j].contest
          /\ call'[j].mark = call[j].mark /\ call'[j].done = call[j].done
      BY <3>1 DEF CallRows
    <3> QED
      BY <2>1, <2>3, <3>1, <3>2 DEF Reads, Unlocks
  <2> QED
    BY <2>2, <2>3
<1>5. ASSUME NEW k \in Calls, Clear(k)
      PROVE  Stays(j) /\ Unlocks(j)
  <2>1. PICK out \in SUBSET everBanned :
          call' = [call EXCEPT ![k] = [call[k] EXCEPT !.pc = "tx", !.cleared = out]]
    BY <1>5, ClearCall
  <2>2. CASE j # k
    BY <2>1, <2>2, OtherCall
  <2>3. CASE j = k
    <3>1. /\ call'[j] = [call[j] EXCEPT !.pc = "tx", !.cleared = out]
          /\ call[j] \in CallRows /\ call[j].pc = "clear"
      BY <1>5, <2>1, <2>3, OwnCall DEF CallsOK, Clear
    <3> QED
      BY <3>1 DEF Stays, Unlocks, CallRows
  <2> QED
    BY <2>2, <2>3
<1>6. ASSUME NEW k \in Calls, Write(k)
      PROVE  Stays(j) /\ (j # k => Unlocks(j))
  <2>1. PICK u \in DOMAIN call[k].new :
          call' = [call EXCEPT ![k] = [call[k] EXCEPT !.done = call[k].done \cup {u}]]
    BY <1>6, WriteCall
  <2>2. CASE j # k
    BY <2>1, <2>2, OtherCall
  <2>3. CASE j = k
    <3>1. /\ call'[j] = [call[j] EXCEPT !.done = call[j].done \cup {u}]
          /\ call[j] \in CallRows
      BY <2>1, <2>3, OwnCall DEF CallsOK
    <3> QED
      BY <2>3, <3>1 DEF Stays, CallRows
  <2> QED
    BY <2>2, <2>3
<1>7. ASSUME NEW k \in Calls, Recompute(k)
      PROVE  Stays(j) /\ Unlocks(j)
  <2>1. PICK given \in Lists(Nat) :
          call' = [call EXCEPT ![k] = [call[k] EXCEPT !.given = given]]
    BY <1>7, RecomputeCall
  <2>2. CASE j # k
    BY <2>1, <2>2, OtherCall
  <2>3. CASE j = k
    <3>1. /\ call'[j] = [call[j] EXCEPT !.given = given]
          /\ call[j] \in CallRows
      BY <2>1, <2>3, OwnCall DEF CallsOK
    <3> QED
      BY <3>1 DEF Stays, Unlocks, CallRows
  <2> QED
    BY <2>2, <2>3
<1>8. ASSUME call' = call
      PROVE  Stays(j) /\ Unlocks(j)
  BY <1>8 DEF Stays, Unlocks
<1>9. ASSUME NEW k \in Calls, SetStatus(k) \/ Commit(k) \/ Abort(k)
      PROVE  call' = [call EXCEPT ![k] = Idle]
  BY <1>9 DEF SetStatus, Commit, Abort
<1>10. ASSUME \/ \E x \in Late : Land(x[1], x[2], x[3])
              \/ \E u \in Bannable : Ban(u) \/ Unban(u)
              \/ Tick \/ UNCHANGED vars
       PROVE  call' = call
  BY <1>10 DEF Land, Ban, Unban, Tick, vars
<1> QED
  BY <1>1, <1>2, <1>3, <1>4, <1>5, <1>6, <1>7, <1>8, <1>9, <1>10 DEF Next, Apply

LEMMA StatusAndScoreGrow ==
    ASSUME TypeOK, CallsOK, [Next]_vars, NEW c \in Contests
    PROVE  /\ status[c] = "finalized" => status'[c] = "finalized"
           /\ \A u \in Users : score[c][u] # NoRow => score'[c][u] # NoRow
<1>1. ASSUME NEW k \in Calls, Commit(k)
      PROVE  (status[c] = "finalized" => status'[c] = "finalized") /\ score' = score
  BY <1>1, CommitIs
<1>2. ASSUME NEW k \in Calls, SetStatus(k)
      PROVE  (status[c] = "finalized" => status'[c] = "finalized") /\ score' = score
  BY <1>2 DEF SetStatus, TypeOK
<1>3. ASSUME NEW x \in Late, Land(x[1], x[2], x[3])
      PROVE  status' = status /\ \A u \in Users : score[c][u] # NoRow => score'[c][u] # NoRow
  BY <1>3, LandIs
<1>4. ASSUME \/ \E k \in Calls : \/ Begin(k) \/ CheckApplied(k) \/ Read(k) \/ Clear(k)
                                 \/ Write(k) \/ Recompute(k) \/ Abort(k)
             \/ \E u \in Bannable : Ban(u) \/ Unban(u)
             \/ Tick \/ UNCHANGED vars
      PROVE  status' = status /\ score' = score
  BY <1>4 DEF Begin, CheckApplied, Read, Clear, Write, Recompute, Abort, Ban, Unban, Tick, vars
<1> QED
  BY <1>1, <1>2, <1>3, <1>4 DEF Next, Apply

LEMMA LocksStep ==
    ASSUME ExpectedOK, TypeOK, CallsOK, LocksOK, [Next]_vars
    PROVE  LocksOK'
<1> SUFFICES ASSUME NEW i \in Calls, NEW j \in Calls, i # j
             PROVE  call'[i].done \cap call'[j].done = {}
  BY DEF LocksOK
<1>1. call[i].done \cap call[j].done = {}
  BY DEF LocksOK
<1>2. ASSUME NEW k \in Calls, Write(k)
      PROVE  call'[i].done \cap call'[j].done = {}
  <2>1. PICK u \in DOMAIN call[k].new :
          /\ call' = [call EXCEPT ![k] = [call[k] EXCEPT !.done = call[k].done \cup {u}]]
          /\ UserFree(k, u)
    BY <1>2, WriteCall
  <2>2. \A h \in Calls : call[h] \in CallRows
    BY DEF CallsOK
  <2>3. \A h \in Calls : call'[h].done = IF h = k THEN call[k].done \cup {u} ELSE call[h].done
    BY <2>1, <2>2 DEF CallsOK, CallRows
  <2>4. \A h \in Calls \ {k} : u \notin call[h].done
    BY <2>1 DEF UserFree, UserLocks
  <2> QED
    BY <1>1, <2>3, <2>4
<1>3. CASE Unlocks(i) /\ Unlocks(j)
  BY <1>1, <1>3 DEF Unlocks
<1> QED
  BY <1>2, <1>3, CallChange

LEMMA MarkStep ==
    ASSUME ExpectedOK, TypeOK, CallsOK, MarkOK, [Next]_vars
    PROVE  MarkOK'
<1> SUFFICES ASSUME NEW k \in Calls, call'[k].pc # "idle", ~call'[k].mark
             PROVE  status'[call'[k].contest] = "finalized"
  BY DEF MarkOK
<1>1. call'[k].contest \in Contests
  BY TypesStep DEF CallsOK, StageOK
<1>2. status[call'[k].contest] = "finalized"
  <2>1. CASE Stays(k)
    BY <2>1 DEF Stays, MarkOK
  <2>2. CASE Fresh(k)
    BY <2>2 DEF Fresh
  <2>3. CASE Reads(k)
    BY <2>3 DEF Reads, MarkOK
  <2> QED
    BY <2>1, <2>2, <2>3, CallChange
<1> QED
  BY <1>1, <1>2, StatusAndScoreGrow

LEMMA ResultsStep ==
    ASSUME ExpectedOK, TypeOK, CallsOK, ResultsInv, [Next]_vars
    PROVE  ResultsInv'
<1> SUFFICES ASSUME NEW k \in Calls
             PROVE  /\ Ordered(call'[k].new)
                    /\ \A u \in DOMAIN call'[k].new : score'[call'[k].contest][u] # NoRow
  BY DEF ResultsInv, Ordered
<1>1. call'[k].new \in Lists(RatedRows) /\ StageOK(call'[k])
  BY TypesStep DEF CallsOK, CallRows, StageOK
<1>2. DOMAIN call'[k].new # {} => call'[k].contest \in Contests
  BY <1>1 DEF StageOK
<1>3. \A u \in DOMAIN call'[k].new : u \in Users
  BY <1>1, NewRow
<1>4. /\ Ordered(call'[k].new)
      /\ \A u \in DOMAIN call'[k].new : score[call'[k].contest][u] # NoRow
  <2>1. CASE Stays(k)
    BY <2>1 DEF Stays, ResultsInv
  <2>2. CASE Fresh(k)
    BY <2>2 DEF Fresh, Ordered
  <2>3. CASE Reads(k)
    BY <2>3 DEF Reads
  <2> QED
    BY <2>1, <2>2, <2>3, CallChange
<1> QED
  BY <1>2, <1>3, <1>4, StatusAndScoreGrow

\* Only a commit changes the rows or the profiles.
LEMMA RowsChange ==
    ASSUME [Next]_vars
    PROVE  \/ UNCHANGED <<row, rating, order, alone>>
           \/ \E k \in Calls : Commit(k)
BY DEF Next, Apply, Begin, CheckApplied, SetStatus, Read, Clear, Write, Recompute, Abort,
       Land, Ban, Unban, Tick, vars, history

LEMMA RatedStep ==
    ASSUME ExpectedOK, TypeOK, CallsOK, MarkOK, ResultsInv, RatedOK, [Next]_vars
    PROVE  RatedOK'
<1> SUFFICES ASSUME NEW c \in Contests, NEW u \in Users
             PROVE  IF row'[c][u].after = NoRow THEN row'[c][u].before = NoRow
                    ELSE /\ row'[c][u] \in RatedRows
                         /\ status'[c] = "finalized" /\ score'[c][u] # NoRow
  BY DEF RatedOK
<1>1. IF row[c][u].after = NoRow THEN row[c][u].before = NoRow
      ELSE /\ row[c][u] \in RatedRows
           /\ status[c] = "finalized" /\ score[c][u] # NoRow
  BY DEF RatedOK
<1>2. /\ status[c] = "finalized" => status'[c] = "finalized"
      /\ score[c][u] # NoRow => score'[c][u] # NoRow
  BY StatusAndScoreGrow
<1>3. CASE row'[c][u] = row[c][u]
  BY <1>1, <1>2, <1>3
<1>4. ASSUME NEW k \in Calls, Commit(k), row'[c][u] # row[c][u]
      PROVE  IF row'[c][u].after = NoRow THEN row'[c][u].before = NoRow
             ELSE /\ row'[c][u] \in RatedRows
                  /\ status'[c] = "finalized" /\ score'[c][u] # NoRow
  <2>1. /\ call[k] \in CallRows /\ call[k].pc = "tx" /\ c = call[k].contest
        /\ row'[c][u] = IF u \in DOMAIN call[k].new THEN call[k].new[u] ELSE Unrated
        /\ status'[c] = IF call[k].mark THEN "finalized" ELSE status[c]
        /\ score' = score
    BY <1>4, CommitIs
  <2>2. CASE u \in DOMAIN call[k].new
    <3>1. row'[c][u] \in RatedRows
      BY <2>1, <2>2, NewRow DEF CallRows
    <3>2. row'[c][u].after # NoRow
      BY <3>1, RatingsAssumption DEF RatedRows
    <3>3. score[c][u] # NoRow
      BY <2>1, <2>2 DEF ResultsInv
    <3>4. status'[c] = "finalized"
      BY <2>1 DEF MarkOK
    <3> QED
      BY <2>1, <3>1, <3>2, <3>3, <3>4
  <2>3. CASE u \notin DOMAIN call[k].new
    BY <2>1, <2>3 DEF Unrated
  <2> QED
    BY <2>2, <2>3
<1> QED
  BY <1>3, <1>4, RowsChange

-----------------------------------------------------------------------------
\* The contests that rated u, and what the last of them gave.
RatedIn(u, rows) == {c \in Contests : rows[c][u].after # NoRow}
Newest(u, rows) == Latest(u, RatedIn(u, rows), rows)

\* What a call has given to a user is the last rating that its transaction sees.
GivenOK ==
    \A k \in Calls : \A u \in DOMAIN call[k].given \ everBanned :
        call[k].given[u] = Newest(u, Rows(k))

LEMMA NewestSame ==
    ASSUME NEW u, NEW rows, NEW next, \A c \in Contests : rows[c][u] = next[c][u]
    PROVE  Newest(u, rows) = Newest(u, next)
<1>1. RatedIn(u, rows) = RatedIn(u, next)
  BY DEF RatedIn
<1>2. RatedIn(u, rows) # {} => LastOf(RatedIn(u, rows)) \in Contests
  BY LastOfIs DEF RatedIn
<1> QED
  BY <1>1, <1>2 DEF Newest, Latest

\* All rated rows count: their contests are finalized.
LEMMA CountingIsRated ==
    ASSUME RatedOK, NEW u \in Users
    PROVE  Counting(u, row, status) = RatedIn(u, row)
BY DEF Counting, RatedIn, RatedOK

LEMMA CountingInCall ==
    ASSUME TypeOK, CallsOK, MarkOK, RatedOK, NEW k \in Calls, call[k].pc = "tx", NEW u \in Users
    PROVE  Counting(u, Rows(k), Status(k)) = RatedIn(u, Rows(k))
<1>1. ASSUME NEW c \in Contests, Rows(k)[c][u].after # NoRow
      PROVE  Status(k)[c] = "finalized"
  <2>1. CASE c = call[k].contest
    <3>1. Status(k)[c] = IF call[k].mark THEN "finalized" ELSE status[c]
      BY <2>1, RowsTyped
    <3> QED
      BY <2>1, <3>1 DEF MarkOK
  <2>2. CASE c # call[k].contest
    <3>1. Status(k)[c] = status[c] /\ Rows(k)[c][u] = row[c][u]
      BY <2>2, RowsTyped
    <3> QED
      BY <1>1, <3>1 DEF RatedOK
  <2> QED
    BY <2>1, <2>2
<1> QED
  BY <1>1 DEF Counting, RatedIn

LEMMA NewUserRatingIsNewest ==
    ASSUME TypeOK, CallsOK, MarkOK, RatedOK, NEW k \in Calls, call[k].pc = "tx",
           NEW u \in DOMAIN call[k].new, call[k].done = DOMAIN call[k].new
    PROVE  NewUserRating(k, u) = Newest(u, Rows(k))
<1>1. call[k] \in CallRows /\ call[k].contest \in Contests
  BY DEF CallsOK, StageOK
<1>2. u \in Users /\ call[k].new[u].after \in Nat
  BY <1>1, NewRow DEF CallRows
<1>3. Rows(k)[call[k].contest][u] = call[k].new[u]
  BY <1>1, <1>2, RowsTyped
<1>4. call[k].contest \in RatedIn(u, Rows(k))
  BY <1>1, <1>2, <1>3, RatingsAssumption DEF RatedIn
<1>5. Counting(u, Rows(k), Status(k)) = RatedIn(u, Rows(k))
  BY <1>2, CountingInCall
<1> QED
  BY <1>4, <1>5 DEF NewUserRating, Newest, Latest

\* What the transactions see, row by row.
RowsSeen ==
    \A k \in Calls, c \in Contests, u \in Users : call[k].pc = "tx" =>
        Rows(k)[c][u] = IF c # call[k].contest THEN row[c][u]
                        ELSE IF u \in call[k].done THEN call[k].new[u]
                        ELSE IF u \in call[k].cleared THEN Unrated ELSE row[c][u]

LEMMA RowsAreSeen == TypeOK /\ CallsOK => RowsSeen
BY RowsTyped DEF RowsSeen

LEMMA RowsSeenNext == ExpectedOK /\ TypeOK /\ CallsOK /\ [Next]_vars => RowsSeen'
<1>1. ExpectedOK /\ TypeOK /\ CallsOK /\ [Next]_vars => TypeOK' /\ CallsOK'
  BY TypesStep
<1> QED
  BY <1>1, RowsAreSeen, PTL

LEMMA GivenInTx ==
    ASSUME CallsOK, NEW k \in Calls, DOMAIN call[k].given # {}
    PROVE  call[k].pc = "tx" /\ call[k].done = DOMAIN call[k].new
BY DEF CallsOK, StageOK

\* A call that the step does not concern keeps what it gave: nobody else writes the rows
\* of its users.
LEMMA GivenKept ==
    ASSUME ExpectedOK, TypeOK, CallsOK, LocksOK, GivenOK, [Next]_vars, NEW k \in Calls,
           /\ call'[k].contest = call[k].contest /\ call'[k].done = call[k].done
           /\ call'[k].cleared = call[k].cleared /\ call'[k].new = call[k].new
           /\ call'[k].pc = call[k].pc,
           ~Commit(k), NEW u \in DOMAIN call[k].new \ everBanned, u \in call[k].done
    PROVE  call[k].pc = "tx" /\ Newest(u, Rows(k)') = Newest(u, Rows(k))
<1>1. call[k].pc = "tx" /\ u \in Users
  BY NewRow DEF CallsOK, CallRows, StageOK
<1>2. TypeOK' /\ CallsOK'
  BY TypesStep
<1>3. \A c \in Contests : row'[c][u] = row[c][u]
  <2>1. CASE row' = row
    BY <2>1
  <2>2. ASSUME NEW j \in Calls, Commit(j)
        PROVE  \A c \in Contests : row'[c][u] = row[c][u]
    <3>1. j # k /\ call[j].done \cap call[k].done = {}
      BY <2>2 DEF LocksOK
    <3>2. /\ call[j].done = DOMAIN call[j].new
          /\ \A c \in Contests, v \in Users : row'[c][v] =
                 IF c # call[j].contest THEN row[c][v]
                 ELSE IF v \in DOMAIN call[j].new THEN call[j].new[v]
                 ELSE IF v \in call[j].cleared THEN Unrated ELSE row[c][v]
      BY <2>2, CommitIs
    <3>3. u \notin call[j].cleared
      BY DEF CallsOK
    <3> QED
      BY <1>1, <3>1, <3>2, <3>3
  <2> QED
    BY <2>1, <2>2, RowsChange
<1>4. \A c \in Contests : Rows(k)[c][u] =
         IF c # call[k].contest THEN row[c][u]
         ELSE IF u \in call[k].done THEN call[k].new[u]
         ELSE IF u \in call[k].cleared THEN Unrated ELSE row[c][u]
  BY <1>1, RowsAreSeen DEF RowsSeen
<1>5. \A c \in Contests : Rows(k)'[c][u] =
         IF c # call'[k].contest THEN row'[c][u]
         ELSE IF u \in call'[k].done THEN call'[k].new[u]
         ELSE IF u \in call'[k].cleared THEN Unrated ELSE row'[c][u]
  BY <1>1, RowsSeenNext DEF RowsSeen
<1>6. \A c \in Contests : Rows(k)[c][u] = Rows(k)'[c][u]
  BY <1>3, <1>4, <1>5
<1> QED
  BY <1>1, <1>6, NewestSame

LEMMA GivenStep ==
    ASSUME ExpectedOK, TypeOK, CallsOK, LocksOK, MarkOK, RatedOK, GivenOK, [Next]_vars
    PROVE  GivenOK'
<1> SUFFICES ASSUME NEW k \in Calls, NEW u \in DOMAIN call'[k].given, u \notin everBanned'
             PROVE  call'[k].given[u] = Newest(u, Rows(k)')
  BY DEF GivenOK, Newest, Latest, RatedIn
<1>0. /\ call[k] \in CallRows /\ StageOK(call[k])
      /\ everBanned \subseteq everBanned'
  <2>1. everBanned \subseteq everBanned'
    BY DEF Next, Apply, Begin, CheckApplied, SetStatus, Read, Clear, Write, Recompute, Commit,
           Abort, Land, Ban, Unban, Tick, vars, history
  <2> QED
    BY <2>1 DEF CallsOK
<1> DEFINE Same == /\ call'[k].contest = call[k].contest /\ call'[k].done = call[k].done
                   /\ call'[k].cleared = call[k].cleared /\ call'[k].new = call[k].new
                   /\ call'[k].pc = call[k].pc
\* The call gave this already.
<1>1. ASSUME Same, call'[k].given = call[k].given, ~Commit(k)
      PROVE  call'[k].given[u] = Newest(u, Rows(k)')
  <2>1. u \in DOMAIN call[k].given /\ u \notin everBanned
    BY <1>0, <1>1
  <2>2. u \in DOMAIN call[k].new /\ u \in call[k].done
    BY <1>0, <2>1 DEF StageOK
  <2>3. Newest(u, Rows(k)') = Newest(u, Rows(k))
    BY <1>1, <2>1, <2>2, GivenKept
  <2> QED
    BY <1>1, <2>1, <2>3 DEF GivenOK
<1>2. ASSUME NEW j \in Calls, j # k, NEW x, call' = [call EXCEPT ![j] = x], ~Commit(k)
      PROVE  call'[k].given[u] = Newest(u, Rows(k)')
  <2>1. call'[k] = call[k]
    BY <1>2, OtherCall
  <2> QED
    BY <1>1, <1>2, <2>1
<1>3. ASSUME call' = [call EXCEPT ![k] = Idle]
      PROVE  FALSE
  <2>1. call'[k] = Idle
    BY <1>3, OwnCall
  <2>2. DOMAIN <<>> = {}
    OBVIOUS
  <2> QED
    BY <2>1, <2>2 DEF Idle
<1>4. ASSUME call[k].pc # "tx"
      PROVE  DOMAIN call[k].given = {}
  BY <1>4, GivenInTx
<1>5. ~Commit(k)
  <2>1. Commit(k) => call' = [call EXCEPT ![k] = Idle]
    BY DEF Commit
  <2> QED
    BY <1>3, <2>1
<1>6. ASSUME NEW j \in Calls, Begin(j)
      PROVE  call'[k].given[u] = Newest(u, Rows(k)')
  <2>1. j # k
    <3>1. DOMAIN <<>> = {}
      OBVIOUS
    <3> QED
      BY <1>6, <3>1, BeginIs
  <2>2. call'[k] = [call[k] EXCEPT !.alone = FALSE]
    BY <1>6, <2>1, BeginIs
  <2>3. Same /\ call'[k].given = call[k].given
    BY <1>0, <2>2 DEF CallRows
  <2> QED
    BY <1>1, <1>5, <2>3
<1>7. ASSUME NEW j \in Calls, CheckApplied(j)
      PROVE  call'[k].given[u] = Newest(u, Rows(k)')
  <2>1. PICK x \in CallRows :
          /\ call' = [call EXCEPT ![j] = x]
          /\ x = Idle \/ x = [call[j] EXCEPT !.pc = "status"] \/ x = [call[j] EXCEPT !.pc = "read"]
    BY <1>7, CheckCall
  <2>2. CASE j = k
    <3>1. call'[k] = x /\ call[k].pc = "check"
      BY <1>7, <2>1, <2>2, OwnCall DEF CheckApplied
    <3>2. x # Idle
      BY <1>3, <2>1, <2>2
    <3>3. call'[k].given = call[k].given
      BY <1>0, <2>1, <2>2, <3>1, <3>2 DEF CallRows
    <3> QED
      BY <1>4, <3>1, <3>3
  <2> QED
    BY <1>2, <1>5, <2>1, <2>2
<1>8. ASSUME NEW j \in Calls, Read(j)
      PROVE  call'[k].given[u] = Newest(u, Rows(k)')
  <2>1. PICK new \in Lists(RatedRows) :
          call' = [call EXCEPT ![j] = [call[j] EXCEPT !.pc = "clear", !.new = new]]
    BY <1>8, ReadCall
  <2>2. CASE j = k
    <3>1. call'[k] = [call[k] EXCEPT !.pc = "clear", !.new = new] /\ call[k].pc = "read"
      BY <1>8, <2>1, <2>2, OwnCall DEF Read
    <3>2. call'[k].given = call[k].given
      BY <1>0, <3>1 DEF CallRows
    <3> QED
      BY <1>4, <3>1, <3>2
  <2> QED
    BY <1>2, <1>5, <2>1, <2>2
<1>9. ASSUME NEW j \in Calls, Clear(j)
      PROVE  call'[k].given[u] = Newest(u, Rows(k)')
  <2>1. PICK out \in SUBSET everBanned :
          call' = [call EXCEPT ![j] = [call[j] EXCEPT !.pc = "tx", !.cleared = out]]
    BY <1>9, ClearCall
  <2>2. CASE j = k
    <3>1. call'[k] = [call[k] EXCEPT !.pc = "tx", !.cleared = out] /\ call[k].pc = "clear"
      BY <1>9, <2>1, <2>2, OwnCall DEF Clear
    <3>2. call'[k].given = call[k].given
      BY <1>0, <3>1 DEF CallRows
    <3> QED
      BY <1>4, <3>1, <3>2
  <2> QED
    BY <1>2, <1>5, <2>1, <2>2
<1>10. ASSUME NEW j \in Calls, Write(j)
       PROVE  call'[k].given[u] = Newest(u, Rows(k)')
  <2>1. DOMAIN call[j].given = {}
    BY <1>10, WriteCall
  <2>2. PICK v \in DOMAIN call[j].new :
          call' = [call EXCEPT ![j] = [call[j] EXCEPT !.done = call[j].done \cup {v}]]
    BY <1>10, WriteCall
  <2>3. CASE j = k
    <3>1. call'[k] = [call[k] EXCEPT !.done = call[k].done \cup {v}]
      BY <2>2, <2>3, OwnCall
    <3>2. call'[k].given = call[k].given
      BY <1>0, <3>1 DEF CallRows
    <3> QED
      BY <2>1, <2>3, <3>2
  <2> QED
    BY <1>2, <1>5, <2>2, <2>3
<1>11. ASSUME NEW j \in Calls, Recompute(j)
       PROVE  call'[k].given[u] = Newest(u, Rows(k)')
  <2>1. PICK v \in DOMAIN call[j].new : \E given \in Lists(Nat) :
          /\ call' = [call EXCEPT ![j] = [call[j] EXCEPT !.given = given]]
          /\ DOMAIN given = DOMAIN call[j].given \cup {v}
          /\ \A w \in DOMAIN given : given[w] = IF w = v THEN NewUserRating(j, v)
                                                ELSE call[j].given[w]
    BY <1>11, RecomputeCall
  <2>2. PICK given \in Lists(Nat) :
          /\ call' = [call EXCEPT ![j] = [call[j] EXCEPT !.given = given]]
          /\ DOMAIN given = DOMAIN call[j].given \cup {v}
          /\ \A w \in DOMAIN given : given[w] = IF w = v THEN NewUserRating(j, v)
                                                ELSE call[j].given[w]
    BY <2>1
  <2>3. CASE j = k
    <3>1. call'[k] = [call[k] EXCEPT !.given = given]
      BY <2>2, <2>3, OwnCall
    <3>2. Same /\ call'[k].given = given
      BY <1>0, <3>1 DEF CallRows
    <3>3. call[k].pc = "tx" /\ call[k].done = DOMAIN call[k].new
      BY <1>11, <2>3 DEF Recompute, Written
    <3>4. u \in DOMAIN call[k].new
      BY <1>0, <2>2, <2>3, <3>2 DEF StageOK
    <3>5. u \notin everBanned
      BY <1>0
    <3>6. Newest(u, Rows(k)') = Newest(u, Rows(k))
      BY <1>5, <3>2, <3>3, <3>4, <3>5, GivenKept
    <3>7. CASE u = v
      BY <2>2, <2>3, <3>2, <3>3, <3>4, <3>6, <3>7, NewUserRatingIsNewest
    <3>8. CASE u # v
      <4>1. u \in DOMAIN call[k].given /\ given[u] = call[k].given[u]
        BY <2>2, <2>3, <3>2, <3>8
      <4> QED
        BY <3>2, <3>5, <3>6, <4>1 DEF GivenOK
    <3> QED
      BY <3>7, <3>8
  <2> QED
    BY <1>2, <1>5, <2>2, <2>3
<1>12. ASSUME NEW j \in Calls, SetStatus(j) \/ Commit(j) \/ Abort(j)
       PROVE  call'[k].given[u] = Newest(u, Rows(k)')
  <2>1. call' = [call EXCEPT ![j] = Idle]
    BY <1>12 DEF SetStatus, Commit, Abort
  <2> QED
    BY <1>2, <1>3, <1>5, <2>1
<1>13. ASSUME \/ \E x \in Late : Land(x[1], x[2], x[3])
              \/ \E v \in Bannable : Ban(v) \/ Unban(v)
              \/ Tick \/ UNCHANGED vars
       PROVE  call'[k].given[u] = Newest(u, Rows(k)')
  <2>1. call' = call
    BY <1>13 DEF Land, Ban, Unban, Tick, vars
  <2> QED
    BY <1>1, <1>5, <2>1
<1> QED
  BY <1>6, <1>7, <1>8, <1>9, <1>10, <1>11, <1>12, <1>13 DEF Next, Apply

-----------------------------------------------------------------------------
\* Who was never banned has on the profile what the last rated contest gave.
ProfileOK == \A u \in Users \ everBanned : rating[u] = Newest(u, row)

LEMMA BannedGrows == ASSUME [Next]_vars PROVE everBanned \subseteq everBanned'
BY DEF Next, Apply, Begin, CheckApplied, SetStatus, Read, Clear, Write, Recompute, Commit,
       Abort, Land, Ban, Unban, Tick, vars, history

\* A commit concerns one contest; a user who was never banned gets a rating there or
\* keeps what there was.
LEMMA CommitRows ==
    ASSUME TypeOK, CallsOK, NEW k \in Calls, Commit(k), NEW u \in Users \ everBanned
    PROVE  /\ call[k].contest \in Contests /\ call[k].new \in Lists(RatedRows)
           /\ \A c \in Contests : row'[c][u] =
                 IF c = call[k].contest /\ u \in DOMAIN call[k].new THEN call[k].new[u]
                 ELSE row[c][u]
<1>1. u \notin call[k].cleared /\ call[k] \in CallRows
  BY DEF CallsOK
<1> QED
  BY <1>1, CommitIs DEF CallRows

LEMMA ProfileStep ==
    ASSUME ExpectedOK, TypeOK, CallsOK, GivenOK, ProfileOK, [Next]_vars
    PROVE  ProfileOK'
<1> SUFFICES ASSUME NEW u \in Users, u \notin everBanned'
             PROVE  rating'[u] = Newest(u, row')
  BY DEF ProfileOK, Newest, Latest, RatedIn
<1>1. u \notin everBanned
  BY BannedGrows
<1>2. rating[u] = Newest(u, row)
  BY <1>1 DEF ProfileOK
<1>3. CASE row' = row /\ rating' = rating
  BY <1>2, <1>3
<1>4. ASSUME NEW k \in Calls, Commit(k)
      PROVE  rating'[u] = Newest(u, row')
  <2>1. /\ row' = Rows(k) /\ DOMAIN call[k].given = DOMAIN call[k].new
        /\ rating'[u] = IF u \in DOMAIN call[k].new THEN call[k].given[u] ELSE rating[u]
    BY <1>4, CommitIs
  <2>2. CASE u \in DOMAIN call[k].new
    BY <1>1, <2>1, <2>2 DEF GivenOK
  <2>3. CASE u \notin DOMAIN call[k].new
    <3>1. \A c \in Contests : row[c][u] = row'[c][u]
      BY <1>1, <1>4, <2>3, CommitRows
    <3>2. Newest(u, row) = Newest(u, row')
      BY <3>1, NewestSame
    <3> QED
      BY <1>2, <2>1, <2>3, <3>2
  <2> QED
    BY <2>2, <2>3
<1> QED
  BY <1>3, <1>4, RowsChange

-----------------------------------------------------------------------------
\* The rating that the rows give a user before a contest.
Prior(u, c, rows) == Latest(u, {d \in RatedIn(u, rows) : Earlier(d, c)}, rows)
Reading(x) == x.pc = "read" /\ x.handler # "rerun"
Computed(x) == x.pc \in {"clear", "tx"}

\* What call x found or computed agrees with the rows, for those not in out.
Agrees(x, rows, out) ==
    /\ Reading(x) => \A u \in Users : rows[x.contest][u].before = NoRow
    /\ Computed(x) => \A u \in DOMAIN x.new : x.new[u].before = Prior(u, x.contest, rows)
    /\ Computed(x) => \A u \in Users \ out :
                         rows[x.contest][u].after # NoRow => u \in DOMAIN x.new

\* A call that overlaps no other agrees with what is committed until it commits.
AloneOK ==
    \A k \in Calls : call[k].alone = TRUE =>
        /\ \A j \in Calls \ {k} : call[j] = Idle
        /\ Agrees(call[k], row, everBanned)

LEMMA AgreesKept ==
    ASSUME NEW x, NEW y, NEW rows, NEW out, NEW more, out \subseteq more, Agrees(x, rows, out),
           y.contest = x.contest, y.new = x.new,
           Reading(y) => Reading(x), Computed(y) => Computed(x)
    PROVE  Agrees(y, rows, more)
BY DEF Agrees

LEMMA AloneStep ==
    ASSUME ExpectedOK, TypeOK, CallsOK, RatedOK, AloneOK, [Next]_vars
    PROVE  AloneOK'
<1> DEFINE Goal(k) == /\ \A j \in Calls \ {k} : call'[j] = Idle
                      /\ Agrees(call'[k], row', everBanned')
<1> SUFFICES ASSUME NEW k \in Calls, call'[k].alone = TRUE
             PROVE  Goal(k)
  BY DEF AloneOK
<1>0. everBanned \subseteq everBanned'
  BY BannedGrows
<1>1. call[k] \in CallRows /\ StageOK(call[k]) /\ Idle.alone = FALSE /\ Idle.pc = "idle"
  BY DEF CallsOK, Idle
\* Nobody else moves once k is alone, and k ends without being alone.
<1>2. ASSUME NEW j \in Calls, NEW x, call' = [call EXCEPT ![j] = x], call[j].pc # "idle"
      PROVE  /\ j = k /\ call'[k] = x /\ x # Idle
             /\ \A i \in Calls \ {k} : call'[i] = call[i]
  <2>1. call'[j] = x /\ \A i \in Calls \ {j} : call'[i] = call[i]
    BY <1>2 DEF CallsOK
  <2>2. j = k
    BY <1>1, <1>2, <2>1 DEF AloneOK
  <2> QED
    BY <1>1, <2>1, <2>2
<1>3. ASSUME NEW j \in Calls, Begin(j)
      PROVE  Goal(k)
  <2>1. j = k
    <3>1. ASSUME j # k PROVE FALSE
      <4>1. call'[k] = [call[k] EXCEPT !.alone = FALSE]
        BY <1>3, <3>1, BeginIs
      <4> QED
        BY <1>1, <4>1 DEF CallRows
    <3> QED
      BY <3>1
  <2>2. \A i \in Calls \ {k} : call[i] = Idle
    BY <1>3, <2>1, BeginIs
  <2>3. ASSUME NEW i \in Calls \ {k} PROVE call'[i] = Idle
    <3>1. call'[i] = [Idle EXCEPT !.alone = FALSE]
      BY <1>3, <2>1, <2>2, BeginIs
    <3> QED
      BY <3>1 DEF Idle
  <2>4. ~Reading(call'[k]) /\ ~Computed(call'[k])
    BY <1>3, <2>1, BeginIs DEF Reading, Computed
  <2> QED
    BY <2>3, <2>4 DEF Agrees
<1>4. ASSUME NEW j \in Calls, CheckApplied(j)
      PROVE  Goal(k)
  <2>1. PICK x \in CallRows :
          /\ call' = [call EXCEPT ![j] = x]
          /\ x = Idle \/ x = [call[j] EXCEPT !.pc = "status"]
             \/ /\ x = [call[j] EXCEPT !.pc = "read"]
                /\ \A u \in Users : row[call[j].contest][u].after = NoRow
    BY <1>4, CheckCall
  <2>2. call[j].pc = "check" /\ row' = row
    BY <1>4 DEF CheckApplied
  <2>3. j = k /\ call'[k] = x /\ x # Idle /\ \A i \in Calls \ {k} : call'[i] = call[i]
    BY <1>2, <2>1, <2>2
  <2>4. call'[k].contest = call[k].contest /\ call'[k].alone = call[k].alone /\ ~Computed(call'[k])
    BY <1>1, <2>1, <2>3 DEF CallRows, Computed
  <2>5. Reading(call'[k]) => \A u \in Users : row[call[k].contest][u].after = NoRow
    BY <1>1, <2>1, <2>3 DEF CallRows, Reading
  <2>6. Reading(call'[k]) => \A u \in Users : row'[call'[k].contest][u].before = NoRow
    <3>1. call[k].contest \in Contests
      BY <1>1, <2>2, <2>3 DEF StageOK
    <3> QED
      BY <2>2, <2>4, <2>5, <3>1 DEF RatedOK
  <2>7. \A i \in Calls \ {k} : call'[i] = Idle
    BY <2>3, <2>4 DEF AloneOK
  <2> QED
    BY <2>4, <2>6, <2>7 DEF Agrees
<1>5. ASSUME NEW j \in Calls, Read(j)
      PROVE  Goal(k)
  <2> DEFINE c == call[j].contest
  <2>1. PICK new \in Lists(RatedRows) :
          /\ call' = [call EXCEPT ![j] = [call[j] EXCEPT !.pc = "clear", !.new = new]]
          /\ DOMAIN new = {u \in Users \ banned : score[c][u] # NoRow}
          /\ \A u \in DOMAIN new : new[u].before = Before(u, c, call[j].handler = "rerun")
    BY <1>5, ReadCall
  <2>2. call[j].pc = "read" /\ row' = row /\ everBanned' = everBanned
    BY <1>5 DEF Read, history
  <2>3. /\ j = k /\ call'[k] = [call[k] EXCEPT !.pc = "clear", !.new = new]
        /\ \A i \in Calls \ {k} : call'[i] = call[i]
    BY <1>2, <2>1, <2>2
  <2>4. /\ call'[k].contest = c /\ call'[k].alone = call[k].alone /\ call'[k].pc = "clear"
        /\ call'[k].new = new /\ c \in Contests
    BY <1>1, <2>2, <2>3 DEF CallRows, StageOK
  <2>5. \A i \in Calls \ {k} : call'[i] = Idle
    BY <2>3, <2>4 DEF AloneOK
  <2>6. Reading(call[k]) => \A u \in Users : row[c][u].before = NoRow
    BY <2>3, <2>4 DEF AloneOK, Agrees
  <2>7. ASSUME NEW u \in DOMAIN new PROVE new[u].before = Prior(u, c, row)
    <3>1. u \in Users
      BY NewRow
    <3>2. Counting(u, row, status) = RatedIn(u, row)
      BY <3>1, CountingIsRated
    <3>3. call[j].handler # "rerun" => row[c][u].before = NoRow
      BY <2>2, <2>3, <2>6, <3>1 DEF Reading
    <3>4. Before(u, c, call[j].handler = "rerun") = Prior(u, c, row)
      BY <3>2, <3>3 DEF Before, Prior
    <3> QED
      BY <2>1, <3>4
  <2>8. ASSUME NEW u \in Users \ everBanned, row[c][u].after # NoRow
        PROVE  u \in DOMAIN new
    BY <2>1, <2>4, <2>8 DEF RatedOK, TypeOK
  <2>9. ~Reading(call'[k])
    BY <2>4 DEF Reading
  <2> HIDE DEF c
  <2> QED
    BY <2>2, <2>4, <2>5, <2>7, <2>8, <2>9 DEF Agrees
<1>6. ASSUME NEW j \in Calls, Clear(j)
      PROVE  Goal(k)
  <2>1. PICK out \in SUBSET everBanned :
          call' = [call EXCEPT ![j] = [call[j] EXCEPT !.pc = "tx", !.cleared = out]]
    BY <1>6, ClearCall
  <2>2. call[j].pc = "clear" /\ row' = row
    BY <1>6 DEF Clear
  <2>3. /\ j = k /\ call'[k] = [call[k] EXCEPT !.pc = "tx", !.cleared = out]
        /\ \A i \in Calls \ {k} : call'[i] = call[i]
    BY <1>2, <2>1, <2>2
  <2>4. /\ call'[k].contest = call[k].contest /\ call'[k].alone = call[k].alone
        /\ call'[k].new = call[k].new /\ call'[k].pc = "tx"
    BY <1>1, <2>3 DEF CallRows
  <2>5. \A i \in Calls \ {k} : call'[i] = Idle
    BY <2>3, <2>4 DEF AloneOK
  <2>6. Agrees(call[k], row, everBanned)
    BY <2>4 DEF AloneOK
  <2>7. Agrees(call'[k], row, everBanned')
    BY <1>0, <2>2, <2>3, <2>4, <2>6, AgreesKept DEF Reading, Computed
  <2> QED
    BY <2>2, <2>5, <2>7
<1>7. ASSUME NEW j \in Calls, Write(j)
      PROVE  Goal(k)
  <2>1. PICK u \in DOMAIN call[j].new :
          call' = [call EXCEPT ![j] = [call[j] EXCEPT !.done = call[j].done \cup {u}]]
    BY <1>7, WriteCall
  <2>2. call[j].pc = "tx" /\ row' = row
    BY <1>7 DEF Write
  <2>3. /\ j = k /\ call'[k] = [call[k] EXCEPT !.done = call[k].done \cup {u}]
        /\ \A i \in Calls \ {k} : call'[i] = call[i]
    BY <1>2, <2>1, <2>2
  <2>4. /\ call'[k].contest = call[k].contest /\ call'[k].alone = call[k].alone
        /\ call'[k].new = call[k].new /\ call'[k].pc = "tx"
    BY <1>1, <2>2, <2>3 DEF CallRows
  <2>5. \A i \in Calls \ {k} : call'[i] = Idle
    BY <2>3, <2>4 DEF AloneOK
  <2>6. Agrees(call[k], row, everBanned)
    BY <2>4 DEF AloneOK
  <2>7. Agrees(call'[k], row, everBanned')
    BY <1>0, <2>2, <2>3, <2>4, <2>6, AgreesKept DEF Reading, Computed
  <2> QED
    BY <2>2, <2>5, <2>7
<1>8. ASSUME NEW j \in Calls, Recompute(j)
      PROVE  Goal(k)
  <2>1. PICK given \in Lists(Nat) :
          call' = [call EXCEPT ![j] = [call[j] EXCEPT !.given = given]]
    BY <1>8, RecomputeCall
  <2>2. call[j].pc = "tx" /\ row' = row
    BY <1>8 DEF Recompute, Written
  <2>3. /\ j = k /\ call'[k] = [call[k] EXCEPT !.given = given]
        /\ \A i \in Calls \ {k} : call'[i] = call[i]
    BY <1>2, <2>1, <2>2
  <2>4. /\ call'[k].contest = call[k].contest /\ call'[k].alone = call[k].alone
        /\ call'[k].new = call[k].new /\ call'[k].pc = "tx"
    BY <1>1, <2>2, <2>3 DEF CallRows
  <2>5. \A i \in Calls \ {k} : call'[i] = Idle
    BY <2>3, <2>4 DEF AloneOK
  <2>6. Agrees(call[k], row, everBanned)
    BY <2>4 DEF AloneOK
  <2>7. Agrees(call'[k], row, everBanned')
    BY <1>0, <2>2, <2>3, <2>4, <2>6, AgreesKept DEF Reading, Computed
  <2> QED
    BY <2>2, <2>5, <2>7
<1>9. ASSUME NEW j \in Calls, SetStatus(j) \/ Commit(j) \/ Abort(j)
      PROVE  Goal(k)
  <2>1. call' = [call EXCEPT ![j] = Idle] /\ call[j].pc # "idle"
    BY <1>9 DEF SetStatus, Commit, Abort, Written
  <2> QED
    BY <1>2, <2>1
<1>10. ASSUME \/ \E x \in Late : Land(x[1], x[2], x[3])
              \/ \E v \in Bannable : Ban(v) \/ Unban(v)
              \/ Tick \/ UNCHANGED vars
       PROVE  Goal(k)
  <2>1. call' = call /\ row' = row
    BY <1>10 DEF Land, Ban, Unban, Tick, vars
  <2>2. \A i \in Calls \ {k} : call'[i] = Idle
    BY <2>1 DEF AloneOK
  <2>3. Agrees(call[k], row, everBanned)
    BY <2>1 DEF AloneOK
  <2>4. Agrees(call[k], row, everBanned')
    BY <1>0, <2>3, AgreesKept
  <2> QED
    BY <2>1, <2>2, <2>4
<1> QED
  BY <1>3, <1>4, <1>5, <1>6, <1>7, <1>8, <1>9, <1>10 DEF Next, Apply

-----------------------------------------------------------------------------
\* What is on record of a contest whose last call overlapped no other.

\* The row of u in c follows from the contest before it, when that was applied first.
Chained(u, c, rows, pairs) ==
    LET S == {d \in RatedIn(u, rows) : Earlier(d, c)} IN
    rows[c][u].after # NoRow =>
        /\ S = {} => rows[c][u].before = Initial
        /\ S # {} /\ <<LastOf(S), c>> \in pairs => rows[c][u].before = rows[LastOf(S)][u].after

ChainOK == \A u \in Users \ everBanned, c \in alone : Chained(u, c, row, order)

\* The first of a contest did not lose; of two who started equal the better rank is no lower.
FirstOK ==
    \A c \in Contests, u \in Users :
        row[c][u].after # NoRow /\ row[c][u].rank = 1 => row[c][u].after >= row[c][u].before
EqualOK ==
    \A c \in alone : \A u, v \in Users \ everBanned :
        /\ row[c][u].after # NoRow /\ row[c][v].after # NoRow
        /\ row[c][v].before = row[c][u].before /\ row[c][v].rank >= row[c][u].rank
        => row[c][v].after <= row[c][u].after

HistoryOK == alone \subseteq Contests

\* The commit of a call that was alone rates every user who has or had a row there.
LEMMA AloneCommits ==
    ASSUME TypeOK, CallsOK, AloneOK, NEW k \in Calls, Commit(k), call[k].alone = TRUE,
           NEW u \in Users \ everBanned, row'[call[k].contest][u].after # NoRow
    PROVE  /\ u \in DOMAIN call[k].new /\ row'[call[k].contest][u] = call[k].new[u]
           /\ call[k].new[u].before = Prior(u, call[k].contest, row)
<1> DEFINE c == call[k].contest
<1>1. Computed(call[k])
  BY DEF Commit, Written, Computed
<1>2. /\ \A v \in DOMAIN call[k].new : call[k].new[v].before = Prior(v, c, row)
      /\ \A v \in Users \ everBanned : row[c][v].after # NoRow => v \in DOMAIN call[k].new
  BY <1>1 DEF AloneOK, Agrees
<1>3. c \in Contests /\ row'[c][u] = IF u \in DOMAIN call[k].new THEN call[k].new[u] ELSE row[c][u]
  BY CommitRows
<1> QED
  BY <1>2, <1>3

LEMMA CommitHistory ==
    ASSUME TypeOK, CallsOK, NEW k \in Calls, Commit(k)
    PROVE  /\ everBanned' = everBanned
           /\ \A c \in alone' : c \in alone \/ (c = call[k].contest /\ call[k].alone = TRUE)
           /\ call[k].contest \in alone' => call[k].alone = TRUE
           /\ \A c, d : <<d, c>> \in order' /\ c # call[k].contest
                        => <<d, c>> \in order /\ d # call[k].contest
<1>1. call[k].alone \in BOOLEAN
  BY DEF CallsOK, CallRows
<1>2. /\ alone' = IF call[k].alone THEN alone \cup {call[k].contest} ELSE alone \ {call[k].contest}
      /\ order' = {x \in order : x[1] # call[k].contest}
                  \cup {<<d, call[k].contest>> : d \in Contests \ {call[k].contest}}
      /\ everBanned' = everBanned
  BY DEF Commit
<1> DEFINE e == call[k].contest
<1>3. ASSUME NEW c, NEW d, <<d, c>> \in order', c # e
      PROVE  <<d, c>> \in order /\ d # e
  <2>1. ~ \E b \in Contests \ {e} : <<d, c>> = <<b, e>>
    BY <1>3
  <2>2. <<d, c>> \in {x \in order : x[1] # e}
    BY <1>2, <1>3, <2>1
  <2>3. <<d, c>> \in order /\ <<d, c>>[1] # e
    BY <2>2
  <2> HIDE DEF e
  <2> QED
    BY <2>3
<1>4. /\ \A c \in alone' : c \in alone \/ (c = e /\ call[k].alone = TRUE)
      /\ e \in alone' => call[k].alone = TRUE
  <2> HIDE DEF e
  <2>1. alone' = IF call[k].alone THEN alone \cup {e} ELSE alone \ {e}
    BY <1>2 DEF e
  <2> QED
    BY <1>1, <2>1
<1> QED
  BY <1>2, <1>3, <1>4

LEMMA HistoryStep ==
    ASSUME TypeOK, CallsOK, HistoryOK, [Next]_vars
    PROVE  HistoryOK'
<1>1. ASSUME NEW k \in Calls, Commit(k) PROVE HistoryOK'
  <2>1. call[k].contest \in Contests
    BY <1>1, CommitIs
  <2>2. \A c \in alone' : c \in alone \/ c = call[k].contest
    BY <1>1, CommitHistory
  <2> QED
    BY <2>1, <2>2 DEF HistoryOK
<1> QED
  BY <1>1, RowsChange DEF HistoryOK

\* A rated row stays rated, so the contest before another one can only become a later one.
LEMMA ChainedElsewhere ==
    ASSUME NEW u, NEW e \in Contests, NEW c \in Contests, c # e,
           NEW rows, NEW next, NEW pairs, NEW more,
           \A d \in Contests \ {e} : next[d][u] = rows[d][u],
           rows[e][u].after # NoRow => next[e][u].after # NoRow,
           \A d : <<d, c>> \in more => <<d, c>> \in pairs /\ d # e,
           Chained(u, c, rows, pairs)
    PROVE  Chained(u, c, next, more)
<1> DEFINE S == {d \in RatedIn(u, rows) : Earlier(d, c)}
           T == {d \in RatedIn(u, next) : Earlier(d, c)}
<1>1. S \subseteq T /\ T \subseteq Contests /\ \A d \in T \ {e} : d \in S
  BY DEF RatedIn
<1>2. rows[c][u].after # NoRow =>
        /\ S = {} => rows[c][u].before = Initial
        /\ S # {} /\ <<LastOf(S), c>> \in pairs => rows[c][u].before = rows[LastOf(S)][u].after
  BY DEF Chained
<1>3. next[c][u] = rows[c][u]
  OBVIOUS
<1> HIDE DEF S, T
<1>4. T = {} => S = {}
  BY <1>1
<1>5. ASSUME T # {}, <<LastOf(T), c>> \in more
      PROVE  S # {} /\ LastOf(S) = LastOf(T) /\ <<LastOf(S), c>> \in pairs
             /\ next[LastOf(T)][u] = rows[LastOf(T)][u]
  <2>1. LastOf(T) \in T /\ \A d \in T \ {LastOf(T)} : Earlier(d, LastOf(T))
    BY <1>1, <1>5, LastOfIs
  <2>2. <<LastOf(T), c>> \in pairs /\ LastOf(T) # e
    BY <1>5
  <2>3. LastOf(T) \in S /\ \A d \in S \ {LastOf(T)} : Earlier(d, LastOf(T))
    BY <1>1, <2>1, <2>2
  <2>4. S \subseteq Contests
    BY <1>1
  <2>5. LastOf(S) = LastOf(T)
    BY <2>3, <2>4, LastOfUnique
  <2> QED
    BY <1>1, <2>1, <2>2, <2>3, <2>5
<1>6. next[c][u].after # NoRow =>
        /\ T = {} => next[c][u].before = Initial
        /\ T # {} /\ <<LastOf(T), c>> \in more => next[c][u].before = next[LastOf(T)][u].after
  BY <1>2, <1>3, <1>4, <1>5
<1> QED
  BY <1>6 DEF Chained, T

LEMMA ChainStep ==
    ASSUME ExpectedOK, TypeOK, CallsOK, AloneOK, HistoryOK, ChainOK, [Next]_vars
    PROVE  ChainOK'
<1> SUFFICES ASSUME NEW u \in Users \ everBanned', NEW c \in alone'
             PROVE  Chained(u, c, row', order')
  BY DEF ChainOK
<1>1. u \in Users \ everBanned
  BY BannedGrows
<1>2. CASE UNCHANGED <<row, order, alone>>
  BY <1>1, <1>2 DEF ChainOK
<1>3. ASSUME NEW k \in Calls, Commit(k)
      PROVE  Chained(u, c, row', order')
  <2> DEFINE e == call[k].contest
  <2>1. /\ e \in Contests /\ call[k].new \in Lists(RatedRows)
        /\ \A d \in Contests : row'[d][u] =
              IF d = e /\ u \in DOMAIN call[k].new THEN call[k].new[u] ELSE row[d][u]
    BY <1>1, <1>3, CommitRows
  <2>2. CASE c # e
    <3>1. c \in alone /\ c \in Contests
      BY <1>3, <2>2, CommitHistory DEF HistoryOK
    <3>2. Chained(u, c, row, order)
      BY <1>1, <3>1 DEF ChainOK
    <3>3. \A d \in Contests \ {e} : row'[d][u] = row[d][u]
      BY <2>1
    <3>4. row[e][u].after # NoRow => row'[e][u].after # NoRow
      <4>1. u \in DOMAIN call[k].new => call[k].new[u].after # NoRow
        BY <2>1, NewRow, RatingsAssumption
      <4> QED
        BY <2>1, <4>1
    <3>5. \A d : <<d, c>> \in order' => <<d, c>> \in order /\ d # e
      BY <1>3, <2>2, CommitHistory
    <3> HIDE DEF e
    <3> QED
      BY <2>1, <2>2, <3>1, <3>2, <3>3, <3>4, <3>5, ChainedElsewhere
  <2>3. CASE c = e
    <3>1. call[k].alone = TRUE
      BY <1>3, <2>3, CommitHistory
    <3> DEFINE S == {d \in RatedIn(u, row) : Earlier(d, e)}
               T == {d \in RatedIn(u, row') : Earlier(d, e)}
    <3>2. \A d \in Contests : Earlier(d, e) => d # e
      BY <2>1, EarlierOrder
    <3>3. S = T
      BY <2>1, <3>2 DEF RatedIn
    <3>4. S # {} => row'[LastOf(S)][u] = row[LastOf(S)][u]
      <4>1. S \subseteq Contests
        BY DEF RatedIn
      <4>2. S # {} => LastOf(S) \in S
        BY <4>1, LastOfIs
      <4> QED
        BY <2>1, <3>2, <4>1, <4>2
    <3>5. row'[e][u].after # NoRow => row'[e][u].before = Prior(u, e, row)
      BY <1>1, <1>3, <3>1, AloneCommits
    <3>6. Prior(u, e, row) = IF S = {} THEN Initial ELSE row[LastOf(S)][u].after
      BY DEF Prior, Latest
    <3> HIDE DEF e, S
    <3>7. row'[c][u].after # NoRow =>
            /\ S = {} => row'[c][u].before = Initial
            /\ S # {} => row'[c][u].before = row'[LastOf(S)][u].after
      BY <2>3, <3>4, <3>5, <3>6
    <3> QED
      BY <2>3, <3>3, <3>7 DEF Chained
  <2> QED
    BY <2>2, <2>3
<1> QED
  BY <1>2, <1>3, RowsChange

LEMMA FirstStep ==
    ASSUME TypeOK, CallsOK, ResultsInv, FirstOK, [Next]_vars
    PROVE  FirstOK'
<1> SUFFICES ASSUME NEW c \in Contests, NEW u \in Users,
                    row'[c][u].after # NoRow, row'[c][u].rank = 1
             PROVE  row'[c][u].after >= row'[c][u].before
  BY DEF FirstOK
<1>1. CASE row'[c][u] = row[c][u]
  BY <1>1 DEF FirstOK
<1>2. ASSUME NEW k \in Calls, Commit(k), row'[c][u] # row[c][u]
      PROVE  row'[c][u].after >= row'[c][u].before
  <2>1. row'[c][u] = IF u \in DOMAIN call[k].new THEN call[k].new[u] ELSE Unrated
    BY <1>2, CommitIs
  <2>2. u \in DOMAIN call[k].new
    BY <2>1 DEF Unrated
  <2> QED
    BY <2>1, <2>2 DEF ResultsInv, Ordered
<1> QED
  BY <1>1, <1>2, RowsChange

LEMMA EqualStep ==
    ASSUME ExpectedOK, TypeOK, CallsOK, ResultsInv, AloneOK, HistoryOK, EqualOK, [Next]_vars
    PROVE  EqualOK'
<1> SUFFICES ASSUME NEW c \in alone', NEW u \in Users \ everBanned', NEW v \in Users \ everBanned',
                    row'[c][u].after # NoRow, row'[c][v].after # NoRow,
                    row'[c][v].before = row'[c][u].before, row'[c][v].rank >= row'[c][u].rank
             PROVE  row'[c][v].after <= row'[c][u].after
  BY DEF EqualOK
<1>1. u \in Users \ everBanned /\ v \in Users \ everBanned
  BY BannedGrows
<1>2. CASE UNCHANGED <<row, order, alone>>
  BY <1>1, <1>2 DEF EqualOK
<1>3. ASSUME NEW k \in Calls, Commit(k)
      PROVE  row'[c][v].after <= row'[c][u].after
  <2>1. CASE c = call[k].contest
    <3>1. call[k].alone = TRUE
      BY <1>3, <2>1, CommitHistory
    <3>2. /\ u \in DOMAIN call[k].new /\ row'[c][u] = call[k].new[u]
          /\ v \in DOMAIN call[k].new /\ row'[c][v] = call[k].new[v]
      BY <1>1, <1>3, <2>1, <3>1, AloneCommits
    <3> QED
      BY <3>2 DEF ResultsInv, Ordered
  <2>2. CASE c # call[k].contest
    <3>1. c \in alone /\ c \in Contests
      BY <1>3, <2>2, CommitHistory DEF HistoryOK
    <3>2. row'[c][u] = row[c][u] /\ row'[c][v] = row[c][v]
      BY <1>1, <1>3, <2>2, <3>1, CommitRows
    <3> QED
      BY <1>1, <3>1, <3>2 DEF EqualOK
  <2> QED
    BY <2>1, <2>2
<1> QED
  BY <1>2, <1>3, RowsChange

-----------------------------------------------------------------------------
\* The inductive invariant.
RatingsInv ==
    /\ TypeOK /\ CallsOK /\ LocksOK /\ MarkOK /\ ResultsInv /\ RatedOK
    /\ GivenOK /\ ProfileOK /\ AloneOK
    /\ HistoryOK /\ ChainOK /\ FirstOK /\ EqualOK

LEMMA RatingsInvInit == Init => RatingsInv
<1> SUFFICES ASSUME Init PROVE RatingsInv
  OBVIOUS
<1>1. TypeOK /\ CallsOK
  BY InitTypes
<1>2. /\ \A k \in Calls : call[k] = Idle
      /\ row = [c \in Contests |-> [u \in Users |-> Unrated]]
      /\ rating = [u \in Users |-> Initial] /\ alone = {}
  BY DEF Init
<1>3. DOMAIN <<>> = {}
  OBVIOUS
<1>4. LocksOK /\ MarkOK /\ ResultsInv /\ GivenOK /\ AloneOK
  BY <1>2, <1>3 DEF LocksOK, MarkOK, ResultsInv, Ordered, GivenOK, AloneOK, Idle
<1>5. \A c \in Contests, u \in Users : row[c][u].after = NoRow /\ row[c][u].before = NoRow
  BY <1>2 DEF Unrated
<1>6. RatedOK /\ FirstOK
  BY <1>5 DEF RatedOK, FirstOK
<1>7. \A u \in Users : RatedIn(u, row) = {}
  BY <1>5 DEF RatedIn
<1>8. ProfileOK
  BY <1>2, <1>7 DEF ProfileOK, Newest, Latest
<1>9. HistoryOK /\ ChainOK /\ EqualOK
  BY <1>2 DEF HistoryOK, ChainOK, EqualOK
<1> QED
  BY <1>1, <1>4, <1>6, <1>8, <1>9 DEF RatingsInv

LEMMA RatingsInvStep == ExpectedOK /\ RatingsInv /\ [Next]_vars => RatingsInv'
<1> SUFFICES ASSUME ExpectedOK, RatingsInv, [Next]_vars PROVE RatingsInv'
  OBVIOUS
<1> USE DEF RatingsInv
<1>1. TypeOK' /\ CallsOK'
  BY TypesStep
<1>2. LocksOK' /\ MarkOK'
  BY LocksStep, MarkStep
<1>3. ResultsInv' /\ RatedOK'
  BY ResultsStep, RatedStep
<1>4. GivenOK' /\ ProfileOK'
  BY GivenStep, ProfileStep
<1>5. AloneOK' /\ HistoryOK'
  BY AloneStep, HistoryStep
<1>6. ChainOK' /\ FirstOK' /\ EqualOK'
  BY ChainStep, FirstStep, EqualStep
<1> QED
  BY <1>1, <1>2, <1>3, <1>4, <1>5, <1>6

\* Finalizing, rerunning and the late changes take the rows they write with row locks in
\* one transaction (admin_contests.go): what the calls hold, what they have written and
\* what is committed fit together in every state.
THEOREM RatingsInvariant ==
    ASSUME ExpectedOK
    PROVE  Spec => []RatingsInv
BY RatingsInvInit, RatingsInvStep, PTL DEF Spec

\* The rating on the profile of a user who was never banned is the one of the last of
\* the rated contests he took part in, in the order of the contests, for any number of
\* calls that finalize or rerun contests in any order.
THEOREM RatingIsLatestHolds ==
    ASSUME ExpectedOK
    PROVE  Spec => []RatingIsLatest
<1>1. RatingsInv => RatingIsLatest
  BY CountingIsRated DEF RatingsInv, ProfileOK, RatingIsLatest, Newest
<1> QED
  BY <1>1, RatingsInvariant, PTL

\* A contest that was rated while no other call was under way started each of its users
\* from the rating that the contest before it gave him, or from the initial one.
THEOREM ChainLinkedHolds ==
    ASSUME ExpectedOK
    PROVE  Spec => []ChainLinked
<1>1. RatingsInv => ChainLinked
  BY CountingIsRated DEF RatingsInv, ChainOK, Chained, ChainLinked
<1> QED
  BY <1>1, RatingsInvariant, PTL

\* calculateELO (contests.go:212): the first of a contest never loses rating, and of two
\* users who started equal the one of the better rank does not end below the other,
\* whatever the table of expectations says and however the results are rounded.
THEOREM BetterRankHolds ==
    ASSUME ExpectedOK
    PROVE  Spec => []BetterRankBetterRating
<1>1. RatingsInv => BetterRankBetterRating
  BY DEF RatingsInv, FirstOK, EqualOK, BetterRankBetterRating
<1> QED
  BY <1>1, RatingsInvariant, PTL

-----------------------------------------------------------------------------
(* The hub: types, no send on a closed channel, no missed predictions. *)

\* Which channels are in the map, and which are closed.
MapInv ==
    /\ \A s \in Streams : stream[s] \in {"initial", "loop", "unlocking"} => s \in clients
    /\ \A s \in closed : stream[s] = "returned"
    /\ \A s \in clients : stream[s] # "returned"
    /\ \A t \in Readers : task[t].rest \subseteq clients

\* The newest predictions are on their way to s in goroutine t.
Carries(t, s) ==
    \/ task[t].pc = "predict"
    \/ task[t].pc = "broadcast" /\ task[t].data = version
    \/ task[t].pc = "sending" /\ task[t].data = version /\ s \in task[t].rest

InQueue(s) == \E i \in 1..Len(queue[s]) : queue[s][i] = version

\* A stream in its loop has the newest predictions, or they wait in its channel, or
\* they are on their way, or its channel was full.
OnItsWay ==
    \A s \in Streams \ dropped :
        stream[s] = "loop" /\ version > 0 =>
            version \in seen[s] \/ InQueue(s) \/ \E t \in Broadcasts : Carries(t, s)

TaskRows == [pc : {"done", "predict", "broadcast", "sending"}, data : Nat, rest : SUBSET Streams]

HubInv == HubTypeOK /\ MapInv /\ OnItsWay

-----------------------------------------------------------------------------
LEMMA InitHubTypes == HubInit => HubTypeOK
<1>1. <<>> \in Seq(Nat) /\ Len(<<>>) = 0
  OBVIOUS
<1>2. ASSUME HubInit PROVE \A s \in Streams : queue[s] = <<>>
  BY <1>2 DEF HubInit
<1>3. ASSUME HubInit PROVE queue \in [Streams -> Seq(Nat)] /\ \A s \in Streams : Len(queue[s]) <= Capacity
  BY <1>1, <1>2, <1>3, HubAssumption DEF HubInit
<1> QED
  BY <1>3 DEF HubInit, HubTypeOK, Done, Steps

LEMMA NextHubTypes == HubTypeOK /\ [HubNext]_hubVars => HubTypeOK'
<1> SUFFICES ASSUME HubTypeOK, [HubNext]_hubVars PROVE HubTypeOK'
  OBVIOUS
<1> USE HubAssumption
<1>1. ASSUME NEW t \in Broadcasts, Change(t) PROVE HubTypeOK'
  <2>1. task' = [task EXCEPT ![t].pc = "predict"] /\ version' \in Nat
    BY <1>1 DEF Change, HubTypeOK
  <2>2. task' \in [Broadcasts -> TaskRows]
    BY <2>1 DEF HubTypeOK, TaskRows
  <2> QED
    BY <1>1, <2>1, <2>2 DEF Change, HubTypeOK, TaskRows
<1>2. ASSUME NEW t \in Broadcasts, Predict(t) PROVE HubTypeOK'
  BY <1>2 DEF Predict, HubTypeOK
<1>3. ASSUME NEW t \in Broadcasts, Broadcast(t) PROVE HubTypeOK'
  BY <1>3 DEF Broadcast, HubTypeOK
<1>4. ASSUME NEW t \in Broadcasts, Send(t) PROVE HubTypeOK'
  <2>1. PICK s \in task[t].rest :
          /\ task' = [task EXCEPT ![t].rest = @ \ {s}]
          /\ queue' = IF Room(s) THEN [queue EXCEPT ![s] = Append(@, task[t].data)] ELSE queue
          /\ dropped' = IF Room(s) THEN dropped ELSE dropped \cup {s}
    BY <1>4 DEF Send
  <2>2. s \in Streams /\ task[t].data \in Nat
    BY DEF HubTypeOK
  <2>3. queue' \in [Streams -> Seq(Nat)] /\ \A u \in Streams : Len(queue'[u]) <= Capacity
    <3>1. queue \in [Streams -> Seq(Nat)] /\ queue[s] \in Seq(Nat) /\ Len(queue[s]) \in Nat
      BY <2>2 DEF HubTypeOK
    <3>2. /\ Append(queue[s], task[t].data) \in Seq(Nat)
          /\ Len(Append(queue[s], task[t].data)) = Len(queue[s]) + 1
      BY <2>2, <3>1
    <3>3. CASE Room(s)
      <4>1. queue' = [queue EXCEPT ![s] = Append(queue[s], task[t].data)]
        BY <2>1, <3>3
      <4>2. Len(queue[s]) + 1 <= Capacity
        BY <3>1, <3>3 DEF Room
      <4>3. \A u \in Streams : queue'[u] = IF u = s THEN Append(queue[s], task[t].data) ELSE queue[u]
        BY <3>1, <4>1
      <4> QED
        BY <2>2, <3>1, <3>2, <4>1, <4>2, <4>3 DEF HubTypeOK
    <3> QED
      BY <2>1, <3>1, <3>3 DEF HubTypeOK
  <2>4. task' \in [Broadcasts -> TaskRows]
    BY <2>1 DEF HubTypeOK, TaskRows
  <2>5. dropped' \subseteq Streams
    BY <2>1, <2>2 DEF HubTypeOK
  <2>6. UNCHANGED <<version, clients, closed, stream, gone, seen>>
    BY <1>4 DEF Send
  <2> QED
    BY <2>3, <2>4, <2>5, <2>6 DEF HubTypeOK, TaskRows
<1>5. ASSUME NEW t \in Broadcasts, Finish(t) PROVE HubTypeOK'
  BY <1>5 DEF Finish, HubTypeOK, Done
<1>6. ASSUME NEW s \in Streams, Open(s) PROVE HubTypeOK'
  BY <1>6 DEF Open, To, Steps, HubTypeOK
<1>7. ASSUME NEW s \in Streams, Subscribe(s) PROVE HubTypeOK'
  BY <1>7 DEF Subscribe, To, Steps, HubTypeOK
<1>8. ASSUME NEW s \in Streams, ShowInitial(s) PROVE HubTypeOK'
  BY <1>8 DEF ShowInitial, Snapshot, To, Steps, HubTypeOK
<1>9. ASSUME NEW s \in Streams, Receive(s) PROVE HubTypeOK'
  <2>1. queue[s] \in Seq(Nat) /\ queue[s] # <<>>
    BY <1>9 DEF Receive, HubTypeOK
  <2>2. Head(queue[s]) \in Nat /\ Tail(queue[s]) \in Seq(Nat)
        /\ Len(Tail(queue[s])) = Len(queue[s]) - 1
    BY <2>1, HeadTailProperties
  <2> QED
    BY <1>9, <2>2 DEF Receive, HubTypeOK
<1>10. ASSUME NEW s \in Streams, Disconnect(s) PROVE HubTypeOK'
  BY <1>10 DEF Disconnect, HubTypeOK
<1>11. ASSUME NEW s \in Streams, Leave(s) PROVE HubTypeOK'
  BY <1>11 DEF Leave, To, Steps, HubTypeOK
<1>12. ASSUME NEW s \in Streams, Unsubscribe(s) PROVE HubTypeOK'
  BY <1>12 DEF Unsubscribe, To, Steps, HubTypeOK
<1>13. ASSUME NEW t \in Broadcasts, PredictFails(t) PROVE HubTypeOK'
  BY <1>13 DEF PredictFails, HubTypeOK, Done
<1>14. ASSUME NEW s \in Streams, ShowInitialFails(s) PROVE HubTypeOK'
  BY <1>14 DEF ShowInitialFails, To, Steps, HubTypeOK
<1>15. CASE UNCHANGED hubVars
  BY <1>15 DEF hubVars, HubTypeOK
<1> QED
  BY <1>1, <1>2, <1>3, <1>4, <1>5, <1>6, <1>7, <1>8, <1>9, <1>10, <1>11, <1>12, <1>13,
     <1>14, <1>15
  DEF HubNext, Goroutine, Handler

\* The hub has the right types, and no channel holds more than its capacity.
THEOREM HubTypes == HubSpec => []HubTypeOK
<1> QED
  BY InitHubTypes, NextHubTypes, PTL DEF HubSpec

-----------------------------------------------------------------------------
LEMMA NextMap == HubTypeOK /\ MapInv /\ [HubNext]_hubVars => MapInv'
<1> SUFFICES ASSUME HubTypeOK, MapInv, [HubNext]_hubVars PROVE MapInv'
  OBVIOUS
<1> USE DEF MapInv, Readers
<1>1. ASSUME NEW t \in Broadcasts, Change(t) PROVE MapInv'
  BY <1>1 DEF Change, HubTypeOK, Done
<1>2. ASSUME NEW t \in Broadcasts, Predict(t) PROVE MapInv'
  BY <1>2 DEF Predict, HubTypeOK
<1>3. ASSUME NEW t \in Broadcasts, Broadcast(t) PROVE MapInv'
  BY <1>3 DEF Broadcast, HubTypeOK
<1>4. ASSUME NEW t \in Broadcasts, Send(t) PROVE MapInv'
  <2>1. PICK s \in task[t].rest : task' = [task EXCEPT ![t].rest = @ \ {s}]
    BY <1>4 DEF Send
  <2> QED
    BY <1>4, <2>1 DEF Send, HubTypeOK
<1>5. ASSUME NEW t \in Broadcasts, Finish(t) PROVE MapInv'
  BY <1>5 DEF Finish, HubTypeOK, Done
<1>6. ASSUME NEW s \in Streams, Open(s) PROVE MapInv'
  BY <1>6 DEF Open, To, HubTypeOK
<1>7. ASSUME NEW s \in Streams, Subscribe(s) PROVE MapInv'
  BY <1>7 DEF Subscribe, To, HubTypeOK
<1>8. ASSUME NEW s \in Streams, ShowInitial(s) PROVE MapInv'
  BY <1>8 DEF ShowInitial, To, HubTypeOK
<1>9. ASSUME NEW s \in Streams, Receive(s) PROVE MapInv'
  BY <1>9 DEF Receive, HubTypeOK
<1>10. ASSUME NEW s \in Streams, Disconnect(s) PROVE MapInv'
  BY <1>10 DEF Disconnect, HubTypeOK
<1>11. ASSUME NEW s \in Streams, Leave(s) PROVE MapInv'
  BY <1>11 DEF Leave, To, HubTypeOK
<1>12. ASSUME NEW s \in Streams, Unsubscribe(s) PROVE MapInv'
  <2>1. \A t \in Broadcasts : task[t].pc # "sending"
    BY <1>12 DEF Unsubscribe, MayWrite
  <2> QED
    BY <1>12, <2>1 DEF Unsubscribe, To, HubTypeOK
<1>13. ASSUME NEW t \in Broadcasts, PredictFails(t) PROVE MapInv'
  BY <1>13 DEF PredictFails, HubTypeOK, Done
<1>14. ASSUME NEW s \in Streams, ShowInitialFails(s) PROVE MapInv'
  BY <1>14 DEF ShowInitialFails, To, Steps, HubTypeOK
<1>15. CASE UNCHANGED hubVars
  BY <1>15 DEF hubVars
<1> QED
  BY <1>1, <1>2, <1>3, <1>4, <1>5, <1>6, <1>7, <1>8, <1>9, <1>10, <1>11, <1>12, <1>13,
     <1>14, <1>15
  DEF HubNext, Goroutine, Handler

LEMMA InitMap == HubInit => MapInv
BY DEF HubInit, MapInv, Readers, Done

\* No broadcast sends on a closed channel, however many streams come and go.
THEOREM NoSendOnClosedHolds == HubSpec => []NoSendOnClosed
<1>1. HubTypeOK /\ MapInv => NoSendOnClosed
  BY DEF HubTypeOK, MapInv, Readers, NoSendOnClosed
<1> QED
  BY <1>1, InitHubTypes, NextHubTypes, InitMap, NextMap, PTL DEF HubSpec

-----------------------------------------------------------------------------
LEMMA NextOnItsWay == HubInv /\ [HubNext]_hubVars => OnItsWay'
<1> SUFFICES ASSUME HubInv, [HubNext]_hubVars,
                    NEW s \in Streams \ dropped', stream'[s] = "loop", version' > 0
             PROVE  \/ version' \in seen'[s]
                    \/ InQueue(s)'
                    \/ \E t \in Broadcasts : Carries(t, s)'
  BY DEF OnItsWay
<1> USE DEF HubInv
<1>0. /\ s \in Streams /\ version \in Nat
      /\ queue[s] \in Seq(Nat) /\ Len(queue[s]) \in Nat
  BY DEF HubTypeOK
<1>a. ASSUME s \notin dropped, stream[s] = "loop", version > 0
      PROVE  version \in seen[s] \/ InQueue(s) \/ \E t \in Broadcasts : Carries(t, s)
  BY <1>a DEF OnItsWay
<1>1. ASSUME NEW t \in Broadcasts, Change(t) PROVE Carries(t, s)'
  BY <1>1 DEF Change, Carries, HubTypeOK
<1>2. ASSUME NEW t \in Broadcasts, Predict(t) PROVE Carries(t, s)'
  BY <1>2 DEF Predict, Carries, HubTypeOK
<1>3. ASSUME NEW t \in Broadcasts, Broadcast(t)
      PROVE  version' \in seen'[s] \/ InQueue(s)' \/ \E u \in Broadcasts : Carries(u, s)'
  <2>1. s \notin dropped /\ stream[s] = "loop" /\ version > 0
    BY <1>3 DEF Broadcast
  <2>2. \A u \in Broadcasts : Carries(u, s) => Carries(u, s)'
    BY <1>3, <2>1 DEF Broadcast, Carries, HubTypeOK, MapInv
  <2>3. InQueue(s) => InQueue(s)'
    BY <1>3 DEF Broadcast, InQueue
  <2> QED
    BY <1>3, <1>a, <2>1, <2>2, <2>3 DEF Broadcast
<1>4. ASSUME NEW t \in Broadcasts, Send(t)
      PROVE  version' \in seen'[s] \/ InQueue(s)' \/ \E u \in Broadcasts : Carries(u, s)'
  <2>1. PICK v \in task[t].rest :
          /\ task' = [task EXCEPT ![t].rest = @ \ {v}]
          /\ queue' = IF Room(v) THEN [queue EXCEPT ![v] = Append(@, task[t].data)] ELSE queue
          /\ dropped' = IF Room(v) THEN dropped ELSE dropped \cup {v}
    BY <1>4 DEF Send
  <2>2. s \notin dropped /\ stream[s] = "loop" /\ version > 0 /\ version' = version
        /\ seen' = seen /\ task[t].pc = "sending"
    BY <1>4, <2>1 DEF Send
  <2>3. InQueue(s) => InQueue(s)'
    <3> SUFFICES ASSUME InQueue(s) PROVE InQueue(s)'
      OBVIOUS
    <3>1. PICK i \in 1..Len(queue[s]) : queue[s][i] = version
      BY DEF InQueue
    <3>2. queue'[s] = queue[s] \/ queue'[s] = Append(queue[s], task[t].data)
      BY <1>0, <2>1 DEF HubTypeOK
    <3>3. i \in 1..Len(queue'[s]) /\ queue'[s][i] = version
      BY <1>0, <3>1, <3>2
    <3> QED
      BY <2>2, <3>3 DEF InQueue
  <2>4. ASSUME NEW u \in Broadcasts, Carries(u, s), u # t \/ v # s PROVE Carries(u, s)'
    BY <2>1, <2>2, <2>4 DEF Carries, HubTypeOK
  <2>5. ASSUME Carries(t, s), v = s PROVE InQueue(s)'
    <3>1. task[t].data = version
      BY <2>2, <2>5 DEF Carries
    <3>2. queue' = [queue EXCEPT ![s] = Append(queue[s], version)]
      BY <2>1, <2>5, <3>1
    <3>3. queue'[s] = Append(queue[s], version)
      BY <1>0, <3>2 DEF HubTypeOK
    <3>4. Len(queue'[s]) = Len(queue[s]) + 1 /\ queue'[s][Len(queue[s]) + 1] = version
      BY <1>0, <3>3
    <3> QED
      BY <1>0, <2>2, <3>4 DEF InQueue
  <2> QED
    BY <1>a, <2>2, <2>3, <2>4, <2>5
<1>5. ASSUME NEW t \in Broadcasts, Finish(t)
      PROVE  version' \in seen'[s] \/ InQueue(s)' \/ \E u \in Broadcasts : Carries(u, s)'
  <2>1. s \notin dropped /\ stream[s] = "loop" /\ version > 0
    BY <1>5 DEF Finish
  <2>2. \A u \in Broadcasts : Carries(u, s) => Carries(u, s)'
    BY <1>5 DEF Finish, Carries, HubTypeOK, Done
  <2>3. InQueue(s) => InQueue(s)'
    BY <1>5 DEF Finish, InQueue
  <2> QED
    BY <1>5, <1>a, <2>1, <2>2, <2>3 DEF Finish
<1>6. ASSUME UNCHANGED <<version, queue, task, dropped>>, seen' = seen, stream[s] = "loop"
      PROVE  version' \in seen'[s] \/ InQueue(s)' \/ \E u \in Broadcasts : Carries(u, s)'
  <2>1. \A u \in Broadcasts : Carries(u, s) => Carries(u, s)'
    BY <1>6 DEF Carries
  <2>2. InQueue(s) => InQueue(s)'
    BY <1>6 DEF InQueue
  <2> QED
    BY <1>6, <1>a, <2>1, <2>2
<1>7. ASSUME NEW u \in Streams, ShowInitial(u)
      PROVE  version' \in seen'[s] \/ InQueue(s)' \/ \E t \in Broadcasts : Carries(t, s)'
  <2>1. CASE u = s
    BY <1>7, <2>1 DEF ShowInitial, Snapshot, To, HubTypeOK
  <2>2. CASE u # s
    <3>1. stream[s] = "loop" /\ seen'[s] = seen[s] /\ s \notin dropped /\ version > 0
      BY <1>7, <2>2 DEF ShowInitial, Snapshot, To, HubTypeOK
    <3>2. \A t \in Broadcasts : Carries(t, s) => Carries(t, s)'
      BY <1>7 DEF ShowInitial, Carries
    <3>3. InQueue(s) => InQueue(s)'
      BY <1>7 DEF ShowInitial, InQueue
    <3> QED
      BY <1>7, <1>a, <3>1, <3>2, <3>3 DEF ShowInitial
  <2> QED
    BY <2>1, <2>2
<1>8. ASSUME NEW u \in Streams, Receive(u)
      PROVE  version' \in seen'[s] \/ InQueue(s)' \/ \E t \in Broadcasts : Carries(t, s)'
  <2>1. stream[s] = "loop" /\ s \notin dropped /\ version > 0 /\ version' = version
    BY <1>8 DEF Receive
  <2>2. \A t \in Broadcasts : Carries(t, s) => Carries(t, s)'
    BY <1>8 DEF Receive, Carries
  <2>3. version \in seen[s] => version' \in seen'[s]
    BY <1>8 DEF Receive, HubTypeOK
  <2>4. InQueue(s) => InQueue(s)' \/ version' \in seen'[s]
    <3>1. CASE u # s
      BY <1>8, <3>1 DEF Receive, InQueue, HubTypeOK
    <3>2. CASE u = s
      <4> SUFFICES ASSUME InQueue(s) PROVE InQueue(s)' \/ version' \in seen'[s]
        OBVIOUS
      <4>1. PICK i \in 1..Len(queue[s]) : queue[s][i] = version
        BY DEF InQueue
      <4>2. /\ queue[s] # <<>> /\ queue'[s] = Tail(queue[s])
            /\ seen'[s] = seen[s] \cup {Head(queue[s])}
        BY <1>8, <3>2 DEF Receive, HubTypeOK
      <4>3. CASE i = 1
        BY <1>0, <2>1, <4>1, <4>2, <4>3
      <4>4. CASE i # 1
        <5>1. i - 1 \in 1..Len(Tail(queue[s])) /\ Tail(queue[s])[i - 1] = queue[s][i]
          BY <1>0, <4>1, <4>2, <4>4
        <5> QED
          BY <2>1, <4>1, <4>2, <5>1 DEF InQueue
      <4> QED
        BY <4>3, <4>4
    <3> QED
      BY <3>1, <3>2
  <2> QED
    BY <1>a, <2>1, <2>2, <2>3, <2>4
<1>9. ASSUME NEW u \in Streams, Open(u) \/ Subscribe(u) \/ Leave(u) \/ Unsubscribe(u)
      PROVE  version' \in seen'[s] \/ InQueue(s)' \/ \E t \in Broadcasts : Carries(t, s)'
  <2>1. UNCHANGED <<version, queue, task, dropped>> /\ seen' = seen
    BY <1>9 DEF Open, Subscribe, Leave, Unsubscribe
  <2>2. stream[s] = "loop"
    BY <1>9 DEF Open, Subscribe, Leave, Unsubscribe, To, HubTypeOK
  <2> QED
    BY <1>6, <2>1, <2>2
<1>10. ASSUME NEW u \in Streams, Disconnect(u)
       PROVE  version' \in seen'[s] \/ InQueue(s)' \/ \E t \in Broadcasts : Carries(t, s)'
  BY <1>6, <1>10 DEF Disconnect
<1>11. CASE UNCHANGED hubVars
  BY <1>6, <1>11 DEF hubVars
<1>12. ASSUME NEW t \in Broadcasts, PredictFails(t) PROVE FALSE
  BY <1>12 DEF PredictFails
<1>13. ASSUME NEW u \in Streams, ShowInitialFails(u)
       PROVE  version' \in seen'[s] \/ InQueue(s)' \/ \E t \in Broadcasts : Carries(t, s)'
  <2>1. u # s
    BY <1>13 DEF ShowInitialFails
  <2>2. stream[s] = "loop" /\ s \notin dropped /\ version > 0
    BY <1>13, <2>1 DEF ShowInitialFails, To, HubTypeOK
  <2>3. \A t \in Broadcasts : Carries(t, s) => Carries(t, s)'
    BY <1>13 DEF ShowInitialFails, Carries
  <2>4. InQueue(s) => InQueue(s)'
    BY <1>13 DEF ShowInitialFails, InQueue
  <2> QED
    BY <1>13, <1>a, <2>2, <2>3, <2>4 DEF ShowInitialFails
<1> QED
  BY <1>1, <1>2, <1>3, <1>4, <1>5, <1>7, <1>8, <1>9, <1>10, <1>11, <1>12, <1>13 DEF HubNext, Goroutine, Handler

LEMMA InitOnItsWay == HubInit => OnItsWay
BY DEF HubInit, OnItsWay

\* The newest predictions reach every stream that keeps up.
THEOREM NewestIsSeenHolds == HubSpec => []NewestIsSeen
<1>1. HubInv => NewestIsSeen
  <2> SUFFICES ASSUME HubInv, \A t \in Broadcasts : task[t] = Done, NEW s \in Streams \ dropped,
                      stream[s] = "loop", queue[s] = <<>>, version > 0
               PROVE  version \in seen[s]
    BY DEF NewestIsSeen
  <2>1. ~InQueue(s)
    BY DEF InQueue
  <2>2. \A t \in Broadcasts : ~Carries(t, s)
    BY DEF Carries, Done
  <2> QED
    BY <2>1, <2>2 DEF HubInv, OnItsWay
<1>2. HubInit => HubInv
  BY InitHubTypes, InitMap, InitOnItsWay DEF HubInv
<1>3. HubInv /\ [HubNext]_hubVars => HubInv'
  BY NextHubTypes, NextMap, NextOnItsWay DEF HubInv
<1> QED
  BY <1>1, <1>2, <1>3, PTL DEF HubSpec
=============================================================================
