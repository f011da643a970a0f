----------------------------- MODULE PayloadProofs -----------------------------
(***************************************************************************)
(* The verdict on a payload (PayloadValidation) is right for every list,   *)
(* account and payload.  By induction along the payload, the simulated     *)
(* nonces and balances are what the listed entries so far leave of the     *)
(* accounts.                                                               *)
(***************************************************************************)
EXTENDS PayloadValidation, InductionProofs

(* What is simulated: the nonce and the balance of every account. *)
Sim == [nonce : [Address -> Nat], balance : [Address -> Nat], ok : BOOLEAN]

(* Simulate for a given list. *)
StepOf(listed, e, sim) ==
    IF e.hash \notin listed \/ e.from = Absent THEN sim
    ELSE IF e.nonce # Absent /\ e.nonce # sim.nonce[e.from] THEN [sim EXCEPT !.ok = FALSE]
    ELSE [sim EXCEPT
            !.ok = /\ @
                   /\ e.gas # Absent => e.gas <= ENGINE_BLOCK_GAS_LIMIT
                   /\ Priced(e) => RequiredWei(e) <= sim.balance[e.from],
            !.balance[e.from] = IF Priced(e) /\ RequiredWei(e) <= @
                                  THEN @ - RequiredWei(e) ELSE @,
            !.nonce[e.from] = IF e.nonce = Absent THEN @ ELSE @ + 1]

(* The cost of an entry that gives all of its fields. *)
LEMMA WeiTyped == ASSUME NEW x \in Entry, Priced(x) PROVE RequiredWei(x) \in Nat
<1>1. x.gas \in Nat /\ x.price \in Nat /\ x.value \in Nat
  BY RequestAssumption DEF Priced, Entry, Maybe
<1> QED BY <1>1 DEF RequiredWei

(* What simulating one entry leaves: nothing changes for an entry that is  *)
(* not listed or has no sender; a wrong nonce only fails the payload.      *)
LEMMA StepEffect ==
    ASSUME NEW listed, NEW e \in Entry, NEW sim \in Sim
    PROVE  LET r == StepOf(listed, e, sim)
               a == e.from
               skip == e.hash \notin listed \/ a = Absent
               gap  == e.nonce # Absent /\ e.nonce # sim.nonce[a]
               pays == Priced(e) => RequiredWei(e) <= sim.balance[a]
               fits == e.gas # Absent => e.gas <= ENGINE_BLOCK_GAS_LIMIT
           IN  /\ r \in Sim
               /\ skip => r = sim
               /\ ~ skip => a \in Address /\ (r.ok <=> sim.ok /\ ~ gap /\ fits /\ pays)
               /\ ~ skip /\ ~ gap =>
                    /\ r.nonce   = [sim.nonce EXCEPT ![a] = IF e.nonce = Absent THEN @ ELSE @ + 1]
                    /\ r.balance = [sim.balance EXCEPT ![a] =
                                      IF Priced(e) /\ RequiredWei(e) <= @ THEN @ - RequiredWei(e) ELSE @]
<1> DEFINE r == StepOf(listed, e, sim)
           a == e.from
           skip == e.hash \notin listed \/ a = Absent
           gap  == e.nonce # Absent /\ e.nonce # sim.nonce[a]
           pays == Priced(e) => RequiredWei(e) <= sim.balance[a]
           fits == e.gas # Absent => e.gas <= ENGINE_BLOCK_GAS_LIMIT
           nonce   == [sim.nonce EXCEPT ![a] = IF e.nonce = Absent THEN @ ELSE @ + 1]
           balance == [sim.balance EXCEPT ![a] =
                         IF Priced(e) /\ RequiredWei(e) <= @ THEN @ - RequiredWei(e) ELSE @]
<1>1. CASE skip
  <2>1. r = sim BY <1>1 DEF StepOf
  <2> QED BY <1>1, <2>1
<1>2. CASE ~ skip /\ gap
  <2>1. r = [sim EXCEPT !.ok = FALSE] BY <1>2 DEF StepOf
  <2>2. a \in Address BY <1>2 DEF Entry, Maybe
  <2>3. r \in Sim /\ r.ok = FALSE BY Zenon, <2>1 DEF Sim
  <2> QED BY <1>2, <2>2, <2>3
<1>3. CASE ~ skip /\ ~ gap
  <2>1. a \in Address BY <1>3 DEF Entry, Maybe
  <2>2. r = [sim EXCEPT !.ok = /\ @
                               /\ e.gas # Absent => e.gas <= ENGINE_BLOCK_GAS_LIMIT
                               /\ Priced(e) => RequiredWei(e) <= sim.balance[e.from],
            !.balance[e.from] = IF Priced(e) /\ RequiredWei(e) <= @
                                  THEN @ - RequiredWei(e) ELSE @,
            !.nonce[e.from] = IF e.nonce = Absent THEN @ ELSE @ + 1]
    BY <1>3 DEF StepOf
  <2>3. sim = [nonce |-> sim.nonce, balance |-> sim.balance, ok |-> sim.ok]
    BY DEF Sim
  <2>4. r = [nonce |-> nonce, balance |-> balance, ok |-> sim.ok /\ fits /\ pays]
    BY Zenon, <2>2, <2>3
  <2>5. /\ sim.nonce \in [Address -> Nat] /\ sim.balance \in [Address -> Nat] /\ sim.ok \in BOOLEAN
    BY DEF Sim
  <2>6. nonce \in [Address -> Nat] BY <2>1, <2>5
  <2>7. balance \in [Address -> Nat]
    <3>1. Priced(e) => RequiredWei(e) \in Nat BY WeiTyped
    <3> QED BY <2>1, <2>5, <3>1
  <2>8. r \in Sim
    <3> HIDE DEF nonce, balance, fits, pays, r
    <3> QED BY <2>4, <2>5, <2>6, <2>7 DEF Sim
  <2>9. r.nonce = nonce /\ r.balance = balance /\ (r.ok <=> sim.ok /\ fits /\ pays)
    <3> HIDE DEF nonce, balance, fits, pays, r
    <3> QED BY Zenon, <2>4, <2>5
  <2> HIDE DEF r, skip, gap, fits, pays, nonce, balance
  <2>10. /\ r \in Sim /\ (skip => r = sim)
         /\ ~ skip => a \in Address /\ (r.ok <=> sim.ok /\ ~ gap /\ fits /\ pays)
         /\ ~ skip /\ ~ gap => r.nonce = nonce /\ r.balance = balance
    BY <1>3, <2>1, <2>8, <2>9
  <2> QED BY <2>10 DEF r, skip, gap, fits, pays, nonce, balance
<1> QED BY <1>1, <1>2, <1>3

-----------------------------------------------------------------------------
IsReplay(listed, q, g) ==
    g = [s \in SUBSET DOMAIN q |->
            IF s = {} THEN StartSim ELSE StepOf(listed, q[Max(s)], g[s \ {Max(s)}])]

Replay(listed, q) == (CHOOSE g : IsReplay(listed, q, g))[DOMAIN q]

(* The simulation of the payload is that fold. *)
LEMMA SimulatedIsReplay == Simulated = Replay(RequiredSet, payload_entries)
BY DEF Simulated, FoldLeft, MapThenFoldSet, Replay, IsReplay, Simulate, StepOf

(* The start is a simulation state. *)
LEMMA StartTyped == StartSim \in Sim
BY RequestAssumption DEF StartSim, Sim

(* The recursive function behind the simulation exists. *)
LEMMA ReplayExists ==
    ASSUME NEW listed, NEW q \in Seq(Entry)
    PROVE  \E g : IsReplay(listed, q, g)
<1> DEFINE S    == DOMAIN q
           ch   == [s \in SUBSET S |-> Max(s)]
           step == [p \in S \X Sim |-> StepOf(listed, q[p[1]], p[2])]
<1>1. S = 1..Len(q) /\ Len(q) \in Nat /\ IsFiniteSet(S)
  BY FirstFinite
<1>2. \A s \in SUBSET S : s # {} => ch[s] \in s
  BY <1>1, MaxPosition
<1>3. step \in [S \X Sim -> Sim]
  <2>1. ASSUME NEW p \in S \X Sim PROVE StepOf(listed, q[p[1]], p[2]) \in Sim
    <3>1. q[p[1]] \in Entry /\ p[2] \in Sim BY <1>1
    <3> QED BY Zenon, <3>1, StepEffect
  <2> QED BY <2>1
<1>4. PICK g \in [SUBSET S -> Sim] : IsFold(S, ch, step, StartSim, g)
  <2> HIDE DEF ch, step, S
  <2> QED BY Zenon, <1>1, <1>2, <1>3, StartTyped, FoldExists
<1>5. IsReplay(listed, q, g)
  <2>1. ASSUME NEW s \in SUBSET S, s # {}
        PROVE  g[s] = StepOf(listed, q[Max(s)], g[s \ {Max(s)}])
    <3>1. g[s] = step[<<ch[s], g[s \ {ch[s]}]>>] BY Zenon, <1>4, <2>1 DEF IsFold
    <3>2. Max(s) \in S /\ s \ {Max(s)} \in SUBSET S /\ ch[s] = Max(s) BY Zenon, <1>2, <2>1
    <3> HIDE DEF S
    <3>3. <<Max(s), g[s \ {Max(s)}]>> \in S \X Sim BY <3>2
    <3> QED BY <3>1, <3>2, <3>3
  <2>2. g[{}] = StartSim BY <1>4 DEF IsFold
  <2>3. \A s \in SUBSET S : g[s] = IF s = {} THEN StartSim ELSE StepOf(listed, q[Max(s)], g[s \ {Max(s)}])
    BY Zenon, <2>1, <2>2
  <2> QED BY <2>3 DEF IsReplay
<1> QED BY <1>5

(* It takes the entries one by one, in payload order. *)
LEMMA ReplayInOrder ==
    ASSUME NEW listed, NEW q \in Seq(Entry), NEW g, IsReplay(listed, q, g)
    PROVE  /\ g[1..0] = StartSim
           /\ \A k \in Nat : k + 1 <= Len(q) => g[1..(k + 1)] = StepOf(listed, q[k + 1], g[1..k])
<1>1. DOMAIN q = 1..Len(q) /\ Len(q) \in Nat /\ 1..0 = {} OBVIOUS
<1>2. g[{}] = StartSim BY DEF IsReplay
<1>3. ASSUME NEW k \in Nat, k + 1 <= Len(q)
      PROVE  g[1..(k + 1)] = StepOf(listed, q[k + 1], g[1..k])
  <2> DEFINE s == 1..(k + 1)
  <2>1. s \in SUBSET DOMAIN q /\ s # {} /\ k + 1 \in s
    <3>1. k + 1 \in s OBVIOUS
    <3>2. \A x \in s : x \in 1..Len(q) BY <1>1, <1>3
    <3> HIDE DEF s
    <3> QED BY <1>1, <3>1, <3>2
  <2>2. g[s] = StepOf(listed, q[Max(s)], g[s \ {Max(s)}]) BY Zenon, <2>1 DEF IsReplay
  <2>3. Max(s) = k + 1
    <3>1. k + 1 \in Nat /\ s \in SUBSET (1..(k + 1)) OBVIOUS
    <3>2. Max(s) \in s /\ \A x \in s : x <= Max(s)
      <4> HIDE DEF s
      <4> QED BY <2>1, <3>1, MaxPosition
    <3>3. Max(s) \in Nat /\ Max(s) <= k + 1 /\ k + 1 <= Max(s)
      <4> DEFINE m == Max(s)
      <4> HIDE DEF m
      <4>1. m \in 1..(k + 1) /\ k + 1 <= m BY <2>1, <3>2 DEF m
      <4>2. m \in Nat /\ m <= k + 1 /\ k + 1 <= m BY <4>1
      <4> QED BY <4>2 DEF m
    <3> QED BY <3>3
  <2>4. s \ {k + 1} = 1..k OBVIOUS
  <2> QED BY Zenon, <2>2, <2>3, <2>4
<1> QED BY <1>1, <1>2, <1>3

(* Replaying nothing leaves the start. *)
LEMMA ReplayNothing == ASSUME NEW listed PROVE Replay(listed, <<>>) = StartSim
<1> DEFINE g == CHOOSE g : IsReplay(listed, <<>>, g)
<1>1. <<>> \in Seq(Entry) /\ DOMAIN <<>> = 1..0 OBVIOUS
<1>2. IsReplay(listed, <<>>, g) BY Zenon, <1>1, ReplayExists
<1>3. g[1..0] = StartSim
  <2> HIDE DEF g
  <2> QED BY Zenon, <1>1, <1>2, ReplayInOrder
<1> QED BY <1>1, <1>3 DEF Replay

(* Replaying one more entry simulates that entry last. *)
LEMMA ReplayAppend ==
    ASSUME NEW listed, NEW q \in Seq(Entry), NEW e \in Entry
    PROVE  Replay(listed, Append(q, e)) = StepOf(listed, e, Replay(listed, q))
<1> DEFINE r == Append(q, e)
           g == CHOOSE g : IsReplay(listed, q, g)
           h == CHOOSE h : IsReplay(listed, r, h)
           P == {k \in Nat : k <= Len(q) => h[1..k] = g[1..k]}
<1>1. /\ r \in Seq(Entry) /\ Len(q) \in Nat /\ Len(r) = Len(q) + 1
      /\ DOMAIN q = 1..Len(q) /\ DOMAIN r = 1..(Len(q) + 1)
      /\ \A k \in 1..Len(q) : r[k] = q[k]
      /\ r[Len(q) + 1] = e
  OBVIOUS
<1> HIDE DEF r
<1>2. IsReplay(listed, q, g) /\ IsReplay(listed, r, h) BY Zenon, <1>1, ReplayExists
<1> HIDE DEF g, h
<1>3. /\ g[1..0] = StartSim /\ h[1..0] = StartSim
      /\ \A k \in Nat : k + 1 <= Len(q) => g[1..(k + 1)] = StepOf(listed, q[k + 1], g[1..k])
      /\ \A k \in Nat : k + 1 <= Len(r) => h[1..(k + 1)] = StepOf(listed, r[k + 1], h[1..k])
  BY <1>1, <1>2, ReplayInOrder
<1>4. 0 \in P BY <1>3
<1>5. ASSUME NEW k \in Nat, k \in P PROVE k + 1 \in P
  <2>1. SUFFICES ASSUME k + 1 <= Len(q) PROVE h[1..(k + 1)] = g[1..(k + 1)]
    OBVIOUS
  <2>2. h[1..k] = g[1..k] BY <1>1, <1>5, <2>1
  <2>3. k + 1 <= Len(r) /\ r[k + 1] = q[k + 1] BY <1>1, <2>1
  <2> QED BY <1>3, <2>1, <2>2, <2>3
<1>6. Len(q) \in P
  <2> HIDE DEF P
  <2> QED BY <1>1, <1>4, <1>5, NaturalInduction
<1>7. h[1..Len(q)] = g[1..Len(q)] BY <1>1, <1>6
<1>8. h[1..(Len(q) + 1)] = StepOf(listed, e, g[1..Len(q)])
  BY <1>1, <1>3, <1>7
<1> QED BY <1>1, <1>8 DEF Replay, r, g, h

-----------------------------------------------------------------------------
(* What the listed transactions of a sender come to, for a given payload. *)

ListedIn(listed, q, a) == {i \in DOMAIN q : q[i].hash \in listed /\ q[i].from = a}
Numbered(q, T)         == {i \in T : q[i].nonce # Absent}
PaidIn(q, T)           == {i \in T : Priced(q[i])}
SpentOn(q, T)          == MapThenSumSet(LAMBDA i : RequiredWei(q[i]), T)

NoncesOf(listed, q, a) == Cardinality(Numbered(q, ListedIn(listed, q, a)))
SpentIn(listed, q, a)  == SpentOn(q, PaidIn(q, ListedIn(listed, q, a)))

(* The sum of prices is a sum of the kind InductionProofs is about. *)
LEMMA SpentIsSum ==
    ASSUME NEW q, NEW S, IsFiniteSet(S), NEW f \in [S -> Nat], NEW T \in SUBSET S,
           \A i \in T : f[i] = RequiredWei(q[i])
    PROVE  SpentOn(q, T) = SumOf(f, T)
<1> DEFINE Is(g) == g = [s \in SUBSET T |->
                            IF s = {} THEN 0 ELSE RequiredWei(q[Pick(s)]) + g[s \ {Pick(s)}]]
<1>1. SpentOn(q, T) = (CHOOSE g : Is(g))[T]
  BY DEF SpentOn, MapThenSumSet, MapThenFoldSet, Pick
<1>2. \A s \in SUBSET T : s # {} => Pick(s) \in T /\ f[Pick(s)] = RequiredWei(q[Pick(s)])
  BY DEF Pick
<1>3. ASSUME NEW g PROVE Is(g) <=> IsSum(f, T, g)
  <2>1. [s \in SUBSET T |-> IF s = {} THEN 0 ELSE RequiredWei(q[Pick(s)]) + g[s \ {Pick(s)}]]
          = [s \in SUBSET T |-> IF s = {} THEN 0 ELSE f[Pick(s)] + g[s \ {Pick(s)}]]
    BY <1>2
  <2> QED BY <2>1 DEF IsSum
<1>4. \E g : IsSum(f, T, g)
  <2> DEFINE fT == [x \in T |-> f[x]]
  <2>1. fT \in [T -> Nat] /\ IsFiniteSet(T) BY FS_Subset
  <2>2. PICK k \in [SUBSET T -> Nat] : IsSum(fT, T, k) BY Zenon, <2>1, SumExists
  <2>3. \A s \in SUBSET T : k[s] = IF s = {} THEN 0 ELSE f[Pick(s)] + k[s \ {Pick(s)}]
    BY Zenon, <1>2, <2>2 DEF IsSum
  <2> QED BY Zenon, <2>3 DEF IsSum
<1>5. IsSum(f, T, CHOOSE g : Is(g))
  <2> HIDE DEF Is
  <2>1. \E g : Is(g) BY <1>3, <1>4
  <2>2. Is(CHOOSE g : Is(g)) BY <2>1
  <2> QED BY <1>3, <2>2
<1> HIDE DEF Is
<1> QED BY <1>1, <1>5, AnySum

(* One more entry: its position joins the listed entries of its sender. *)
Grown(listed, q, e, a) ==
    LET r == Append(q, e)
        n == Len(q)
        L == ListedIn(listed, q, a)
    IN  /\ L \subseteq 1..n /\ IsFiniteSet(L) /\ r[n + 1] = e
        /\ \A i \in L : r[i] = q[i] /\ i <= n /\ i \in Nat
        /\ ListedIn(listed, r, a) = IF e.hash \in listed /\ e.from = a THEN L \cup {n + 1} ELSE L

(* Appending an entry adds its position to those of its sender, if it is   *)
(* listed, and to no others.                                               *)
LEMMA OneMore ==
    ASSUME NEW listed, NEW q \in Seq(Entry), NEW e \in Entry, NEW a \in Address
    PROVE  Grown(listed, q, e, a)
<1> DEFINE r == Append(q, e)
           n == Len(q)
           L == ListedIn(listed, q, a)
           M == ListedIn(listed, r, a)
<1>1. /\ n \in Nat /\ DOMAIN q = 1..n /\ DOMAIN r = 1..(n + 1) /\ r[n + 1] = e
      /\ \A i \in 1..n : r[i] = q[i]
  OBVIOUS
<1>2. L \subseteq 1..n /\ IsFiniteSet(L)
  <2>1. L \subseteq 1..n BY <1>1 DEF ListedIn
  <2>2. IsFiniteSet(1..n)
    <3> HIDE DEF n
    <3> QED BY <1>1, FirstFinite
  <2> QED BY <2>1, <2>2, FS_Subset
<1>3. \A i \in L : r[i] = q[i] /\ i <= n /\ i \in Nat BY <1>1, <1>2
<1>4. \A i : i \in M <=> i \in L \/ (i = n + 1 /\ e.hash \in listed /\ e.from = a)
  <2>1. \A i : i \in 1..(n + 1) <=> i \in 1..n \/ i = n + 1 BY <1>1
  <2> QED BY <1>1, <2>1 DEF ListedIn
<1>5. M = IF e.hash \in listed /\ e.from = a THEN L \cup {n + 1} ELSE L
  BY Zenon, <1>4
<1> QED BY <1>1, <1>2, <1>3, <1>5 DEF Grown

(* The number of the sender's nonces. *)
LEMMA NumberedGrows ==
    ASSUME NEW listed, NEW q \in Seq(Entry), NEW e \in Entry, NEW a \in Address
    PROVE  /\ NoncesOf(listed, q, a) \in Nat
           /\ NoncesOf(listed, Append(q, e), a)
                = NoncesOf(listed, q, a)
                    + (IF e.hash \in listed /\ e.from = a /\ e.nonce # Absent THEN 1 ELSE 0)
<1> DEFINE r == Append(q, e)
           n == Len(q)
           L == ListedIn(listed, q, a)
           M == ListedIn(listed, r, a)
           new == e.hash \in listed /\ e.from = a
<1>0. n \in Nat OBVIOUS
<1>1. /\ L \subseteq 1..n /\ IsFiniteSet(L) /\ r[n + 1] = e
      /\ \A i \in L : r[i] = q[i] /\ i <= n /\ i \in Nat
      /\ M = IF new THEN L \cup {n + 1} ELSE L
  <2>1. Grown(listed, q, e, a) BY OneMore
  <2> QED BY <2>1, Zenon DEF Grown
<1> HIDE DEF n, r, L, M
<1>2. Numbered(q, L) \subseteq L BY DEF Numbered
<1>3. IsFiniteSet(Numbered(q, L)) /\ Cardinality(Numbered(q, L)) \in Nat
  BY <1>1, <1>2, FS_Subset, FS_CardinalityType
<1>4. n + 1 \notin Numbered(q, L) BY <1>0, <1>1, <1>2
<1>5. Numbered(r, M) = IF new /\ e.nonce # Absent THEN Numbered(q, L) \cup {n + 1} ELSE Numbered(q, L)
  <2> HIDE DEF new
  <2>1. Numbered(r, L) = Numbered(q, L) BY Zenon, <1>1 DEF Numbered
  <2>2. Numbered(r, L \cup {n + 1}) = IF e.nonce # Absent THEN Numbered(r, L) \cup {n + 1} ELSE Numbered(r, L)
    BY <1>1 DEF Numbered
  <2> QED BY <1>1, <2>1, <2>2
<1>6. Cardinality(Numbered(q, L) \cup {n + 1}) = Cardinality(Numbered(q, L)) + 1
  BY Zenon, <1>3, <1>4, FS_AddElement
<1> QED BY <1>3, <1>5, <1>6 DEF NoncesOf, L, M, r

(* The sender's spending. *)
LEMMA SpendingGrows ==
    ASSUME NEW listed, NEW q \in Seq(Entry), NEW e \in Entry, NEW a \in Address
    PROVE  /\ SpentIn(listed, q, a) \in Nat
           /\ SpentIn(listed, Append(q, e), a)
                = SpentIn(listed, q, a)
                    + (IF e.hash \in listed /\ e.from = a /\ Priced(e) THEN RequiredWei(e) ELSE 0)
<1> DEFINE r == Append(q, e)
           n == Len(q)
           L == ListedIn(listed, q, a)
           M == ListedIn(listed, r, a)
           new == e.hash \in listed /\ e.from = a
           S == 1..(n + 1)
           f == [i \in S |-> IF Priced(r[i]) THEN RequiredWei(r[i]) ELSE 0]
           T == PaidIn(q, L)
<1>0. n \in Nat /\ r \in Seq(Entry) /\ DOMAIN r = S BY DEF S
<1>1. /\ L \subseteq 1..n /\ IsFiniteSet(L) /\ r[n + 1] = e
      /\ \A i \in L : r[i] = q[i] /\ i <= n /\ i \in Nat
      /\ M = IF new THEN L \cup {n + 1} ELSE L
  <2>1. Grown(listed, q, e, a) BY OneMore
  <2> QED BY <2>1, Zenon DEF Grown
<1>2. \A x \in Entry : Priced(x) => RequiredWei(x) \in Nat
  BY WeiTyped
<1> HIDE DEF r, L, M
<1>3. f \in [S -> Nat]
  <2>1. \A i \in S : r[i] \in Entry BY <1>0
  <2> HIDE DEF S
  <2> QED BY <1>2, <2>1
<1>4. IsFiniteSet(S) BY <1>0, FirstFinite
<1>5. L \in SUBSET S /\ n + 1 \in S BY <1>0, <1>1
<1>6. T \in SUBSET S /\ n + 1 \notin T
  <2>1. T \subseteq L BY DEF PaidIn
  <2> HIDE DEF T, S
  <2> QED BY <1>0, <1>1, <1>5, <2>1
<1>7. PaidIn(r, M) = IF new /\ Priced(e) THEN T \cup {n + 1} ELSE T
  <2> HIDE DEF new, n
  <2>1. PaidIn(r, L) = T BY Zenon, <1>1 DEF PaidIn
  <2>2. PaidIn(r, L \cup {n + 1}) = IF Priced(e) THEN PaidIn(r, L) \cup {n + 1} ELSE PaidIn(r, L)
    BY <1>1 DEF PaidIn
  <2> HIDE DEF T
  <2> QED BY <1>1, <2>1, <2>2
<1>8. /\ \A i \in T : f[i] = RequiredWei(q[i]) /\ f[i] = RequiredWei(r[i])
      /\ Priced(e) => f[n + 1] = RequiredWei(r[n + 1])
  <2>1. \A i \in T : i \in S /\ Priced(r[i]) /\ r[i] = q[i] BY <1>1, <1>5 DEF PaidIn
  <2> HIDE DEF S, T, n
  <2> QED BY <1>1, <1>5, <2>1
<1> HIDE DEF f, S, T, n
<1>9. SpentOn(q, T) = SumOf(f, T) /\ SpentOn(r, T) = SumOf(f, T)
  <2>1. SpentOn(q, T) = SumOf(f, T) BY <1>3, <1>4, <1>6, <1>8, SpentIsSum
  <2>2. SpentOn(r, T) = SumOf(f, T) BY <1>3, <1>4, <1>6, <1>8, SpentIsSum
  <2> QED BY <2>1, <2>2
<1>10. SumOf(f, T) \in Nat BY <1>3, <1>4, <1>6, SumLaws
<1>11. CASE new /\ Priced(e)
  <2> DEFINE U == T \cup {n + 1}
  <2>1. U \in SUBSET S /\ n + 1 \in U /\ U \ {n + 1} = T BY <1>5, <1>6
  <2>2. \A i \in U : f[i] = RequiredWei(r[i]) BY <1>8, <1>11
  <2> HIDE DEF U
  <2>3. SpentOn(r, U) = SumOf(f, U) BY <1>3, <1>4, <2>1, <2>2, SpentIsSum
  <2>4. SumOf(f, U) = f[n + 1] + SumOf(f, T) BY <1>3, <1>4, <2>1, SumLaws
  <2>5. f[n + 1] = RequiredWei(e) /\ RequiredWei(e) \in Nat BY <1>1, <1>2, <1>8, <1>11
  <2>6. PaidIn(r, M) = U BY <1>7, <1>11 DEF U
  <2> QED BY <1>9, <1>10, <1>11, <2>3, <2>4, <2>5, <2>6 DEF T, SpentIn, L, M, r
<1>12. CASE ~ (new /\ Priced(e))
  BY <1>7, <1>9, <1>10, <1>12 DEF T, SpentIn, L, M, r
<1> QED BY <1>11, <1>12

-----------------------------------------------------------------------------
(* What a list demands, for a given payload: the definitions of            *)
(* PayloadValidation with the list and the payload as arguments.           *)

NonceRuns(listed, q, a, i) ==
    q[i].nonce # Absent =>
        q[i].nonce = account_nonce[a]
            + Cardinality({j \in ListedIn(listed, q, a) : j < i /\ q[j].nonce # Absent})

GasOk(e) == e.gas # Absent => e.gas <= ENGINE_BLOCK_GAS_LIMIT

KeptBy(listed, q, a) ==
    /\ \A i \in ListedIn(listed, q, a) : NonceRuns(listed, q, a, i) /\ GasOk(q[i])
    /\ SpentIn(listed, q, a) <= account_balance[a]

(* A sender whose listed transactions are in order stays so when a         *)
(* transaction is added exactly if that transaction has the next nonce,    *)
(* fits the block and is paid for by what is left.                         *)
LEMMA KeptByGrows ==
    ASSUME NEW listed, NEW q \in Seq(Entry), NEW e \in Entry, NEW a \in Address
    PROVE  KeptBy(listed, Append(q, e), a) <=>
             /\ KeptBy(listed, q, a)
             /\ e.hash \in listed /\ e.from = a =>
                  /\ e.nonce # Absent => e.nonce = account_nonce[a] + NoncesOf(listed, q, a)
                  /\ GasOk(e)
                  /\ Priced(e) => SpentIn(listed, q, a) + RequiredWei(e) <= account_balance[a]
<1> DEFINE r == Append(q, e)
           n == Len(q)
           L == ListedIn(listed, q, a)
           M == ListedIn(listed, r, a)
           new == e.hash \in listed /\ e.from = a
<1>0. n \in Nat OBVIOUS
<1>1. /\ L \subseteq 1..n /\ IsFiniteSet(L) /\ r[n + 1] = e
      /\ \A i \in L : r[i] = q[i] /\ i <= n /\ i \in Nat
      /\ M = IF new THEN L \cup {n + 1} ELSE L
  <2>1. Grown(listed, q, e, a) BY OneMore
  <2> QED BY <2>1, Zenon DEF Grown
<1> HIDE DEF r, n, L, M
<1>2. ASSUME NEW i \in L PROVE NonceRuns(listed, r, a, i) <=> NonceRuns(listed, q, a, i)
  <2>1. {j \in M : j < i /\ r[j].nonce # Absent} = {j \in L : j < i /\ q[j].nonce # Absent}
    <3>1. ~ (n + 1 < i)
      <4>1. i <= n /\ i \in Nat BY Zenon, <1>1, <1>2
      <4> QED BY <1>0, <4>1
    <3>2. \A j : j \in M => j \in L \/ j = n + 1 BY <1>1
    <3>3. \A j \in L : j \in M /\ r[j] = q[j] BY <1>1
    <3> QED BY <3>1, <3>2, <3>3
  <2> QED BY Zenon, <1>1, <1>2, <2>1 DEF NonceRuns, L, M
<1>3. ASSUME new
      PROVE  NonceRuns(listed, r, a, n + 1)
               <=> (e.nonce # Absent => e.nonce = account_nonce[a] + NoncesOf(listed, q, a))
  <2>1. {j \in M : j < n + 1 /\ r[j].nonce # Absent} = Numbered(q, L)
    <3>1. \A j \in L : j < n + 1 /\ r[j] = q[j] BY <1>0, <1>1
    <3>2. ~ (n + 1 < n + 1) BY <1>0
    <3> QED BY Zenon, <1>1, <1>3, <3>1, <3>2 DEF Numbered
  <2> QED BY Zenon, <1>1, <2>1 DEF NonceRuns, NoncesOf, L, M
<1>4. (\A i \in M : NonceRuns(listed, r, a, i) /\ GasOk(r[i])) <=>
        /\ \A i \in L : NonceRuns(listed, q, a, i) /\ GasOk(q[i])
        /\ new => /\ e.nonce # Absent => e.nonce = account_nonce[a] + NoncesOf(listed, q, a)
                  /\ GasOk(e)
  <2>1. CASE new
    <3>1. (\A i \in M : NonceRuns(listed, r, a, i) /\ GasOk(r[i])) <=>
            /\ \A i \in L : NonceRuns(listed, r, a, i) /\ GasOk(r[i])
            /\ NonceRuns(listed, r, a, n + 1) /\ GasOk(r[n + 1])
      BY Zenon, <1>1, <2>1
    <3> QED BY <1>1, <1>2, <1>3, <2>1, <3>1
  <2>2. CASE ~ new
    BY <1>1, <1>2, <2>2
  <2> QED BY <2>1, <2>2
<1>5. /\ SpentIn(listed, q, a) \in Nat
      /\ SpentIn(listed, r, a) = SpentIn(listed, q, a) + (IF new /\ Priced(e) THEN RequiredWei(e) ELSE 0)
  BY SpendingGrows DEF r
<1>6. Priced(e) => RequiredWei(e) \in Nat BY WeiTyped
<1>7. account_balance[a] \in Nat BY RequestAssumption
<1>8. SpentIn(listed, r, a) <= account_balance[a] <=>
        /\ SpentIn(listed, q, a) <= account_balance[a]
        /\ new /\ Priced(e) => SpentIn(listed, q, a) + RequiredWei(e) <= account_balance[a]
  BY <1>5, <1>6, <1>7
<1> QED BY <1>4, <1>8, Zenon DEF KeptBy, L, M, r

(* The simulation fails exactly when some sender's transactions are out of *)
(* order, and else holds what the senders are left with.                   *)
Exact(listed, q) ==
    LET sim == Replay(listed, q)
    IN  /\ sim \in Sim
        /\ sim.ok <=> \A a \in Address : KeptBy(listed, q, a)
        /\ sim.ok => \A a \in Address :
              /\ sim.nonce[a] = account_nonce[a] + NoncesOf(listed, q, a)
              /\ sim.balance[a] + SpentIn(listed, q, a) = account_balance[a]

(* An empty payload leaves every account as it is. *)
LEMMA ExactAtFirst == ASSUME NEW listed PROVE Exact(listed, <<>>)
<1>1. Replay(listed, <<>>) = StartSim BY ReplayNothing
<1>2. ASSUME NEW a \in Address
      PROVE  /\ ListedIn(listed, <<>>, a) = {}
             /\ NoncesOf(listed, <<>>, a) = 0
             /\ SpentIn(listed, <<>>, a) = 0
  <2>1. ListedIn(listed, <<>>, a) = {} BY DEF ListedIn
  <2>2. Numbered(<<>>, {}) = {} /\ PaidIn(<<>>, {}) = {} BY DEF Numbered, PaidIn
  <2>3. NoncesOf(listed, <<>>, a) = 0 BY Zenon, <2>1, <2>2, FS_EmptySet DEF NoncesOf
  <2>4. SpentOn(<<>>, {}) = 0
    <3> DEFINE f == [i \in {} |-> 0]
    <3>1. f \in [{} -> Nat] /\ IsFiniteSet({}) BY FS_EmptySet
    <3>2. {} \in SUBSET {} /\ \A i \in {} : f[i] = RequiredWei(<<>>[i]) OBVIOUS
    <3> HIDE DEF f
    <3>3. SpentOn(<<>>, {}) = SumOf(f, {}) BY Zenon, <3>1, <3>2, SpentIsSum
    <3> QED BY Zenon, <3>1, <3>3, SumLaws
  <2>5. SpentIn(listed, <<>>, a) = 0 BY Zenon, <2>1, <2>2, <2>4 DEF SpentIn
  <2> QED BY <2>1, <2>3, <2>5
<1>3. /\ StartSim \in Sim /\ StartSim.ok = TRUE
      /\ StartSim.nonce = account_nonce /\ StartSim.balance = account_balance
  BY StartTyped DEF StartSim
<1>4. \A a \in Address : account_nonce[a] \in Nat /\ account_balance[a] \in Nat
  BY RequestAssumption
<1>5. \A a \in Address : KeptBy(listed, <<>>, a)
  BY <1>2, <1>4 DEF KeptBy
<1>6. \A a \in Address : /\ account_nonce[a] = account_nonce[a] + NoncesOf(listed, <<>>, a)
                         /\ account_balance[a] + SpentIn(listed, <<>>, a) = account_balance[a]
  BY <1>2, <1>4
<1> QED BY <1>1, <1>3, <1>5, <1>6 DEF Exact

(* Simulating one more entry keeps it so. *)
LEMMA ExactGrows ==
    ASSUME NEW listed, NEW q \in Seq(Entry), NEW e \in Entry, Exact(listed, q)
    PROVE  Exact(listed, Append(q, e))
<1> DEFINE r   == Append(q, e)
           old == Replay(listed, q)
           sim == Replay(listed, r)
           b   == e.from
           skip == e.hash \notin listed \/ b = Absent
           gap  == e.nonce # Absent /\ e.nonce # old.nonce[b]
           pays == Priced(e) => RequiredWei(e) <= old.balance[b]
<1>1. sim = StepOf(listed, e, old) BY ReplayAppend
<1>2. /\ old \in Sim
      /\ old.ok <=> \A a \in Address : KeptBy(listed, q, a)
      /\ old.ok => \A a \in Address :
            /\ old.nonce[a] = account_nonce[a] + NoncesOf(listed, q, a)
            /\ old.balance[a] + SpentIn(listed, q, a) = account_balance[a]
  BY Zenon DEF Exact
<1> HIDE DEF sim, old, r
<1>3. /\ sim \in Sim
      /\ skip => sim = old
      /\ ~ skip => b \in Address /\ (sim.ok <=> old.ok /\ ~ gap /\ GasOk(e) /\ pays)
      /\ ~ skip /\ ~ gap =>
           /\ sim.nonce   = [old.nonce EXCEPT ![b] = IF e.nonce = Absent THEN @ ELSE @ + 1]
           /\ sim.balance = [old.balance EXCEPT ![b] =
                               IF Priced(e) /\ RequiredWei(e) <= @ THEN @ - RequiredWei(e) ELSE @]
  BY <1>1, <1>2, StepEffect DEF GasOk
<1>4. /\ old.nonce \in [Address -> Nat] /\ old.balance \in [Address -> Nat]
      /\ Absent \notin Address
      /\ Priced(e) => RequiredWei(e) \in Nat
  BY <1>2, RequestAssumption, WeiTyped DEF Sim
<1>5. ASSUME NEW a \in Address
      PROVE  /\ NoncesOf(listed, q, a) \in Nat /\ SpentIn(listed, q, a) \in Nat
             /\ account_nonce[a] \in Nat /\ account_balance[a] \in Nat
             /\ NoncesOf(listed, r, a) = NoncesOf(listed, q, a)
                  + (IF e.hash \in listed /\ e.from = a /\ e.nonce # Absent THEN 1 ELSE 0)
             /\ SpentIn(listed, r, a) = SpentIn(listed, q, a)
                  + (IF e.hash \in listed /\ e.from = a /\ Priced(e) THEN RequiredWei(e) ELSE 0)
  BY NumberedGrows, SpendingGrows, RequestAssumption DEF r
<1>6. ASSUME NEW a \in Address
      PROVE  KeptBy(listed, r, a) <=>
               /\ KeptBy(listed, q, a)
               /\ e.hash \in listed /\ e.from = a =>
                    /\ e.nonce # Absent => e.nonce = account_nonce[a] + NoncesOf(listed, q, a)
                    /\ GasOk(e)
                    /\ Priced(e) => SpentIn(listed, q, a) + RequiredWei(e) <= account_balance[a]
  BY KeptByGrows DEF r
<1>7. CASE skip
  <2>1. \A a \in Address : ~ (e.hash \in listed /\ e.from = a) BY <1>4, <1>7
  <2>2. \A a \in Address : KeptBy(listed, r, a) <=> KeptBy(listed, q, a) BY <1>6, <2>1
  <2>3. \A a \in Address : /\ NoncesOf(listed, r, a) = NoncesOf(listed, q, a)
                           /\ SpentIn(listed, r, a) = SpentIn(listed, q, a)
    BY <1>5, <2>1
  <2>4. sim = old BY <1>3, <1>7
  <2> QED BY <1>2, <2>2, <2>3, <2>4, Zenon DEF Exact, sim, r
<1>8. CASE ~ skip
  <2>1. b \in Address BY <1>3, <1>8
  <2>2. ASSUME old.ok
        PROVE  /\ ~ gap <=> (e.nonce # Absent => e.nonce = account_nonce[b] + NoncesOf(listed, q, b))
               /\ pays <=> (Priced(e) => SpentIn(listed, q, b) + RequiredWei(e) <= account_balance[b])
    <3>1. /\ old.nonce[b] = account_nonce[b] + NoncesOf(listed, q, b)
          /\ old.balance[b] + SpentIn(listed, q, b) = account_balance[b]
      BY <1>2, <2>1, <2>2
    <3>2. old.balance[b] \in Nat BY <1>4, <2>1
    <3> QED BY <1>4, <1>5, <2>1, <3>1, <3>2
  <2>3. sim.ok <=> \A a \in Address : KeptBy(listed, r, a)
    <3>1. sim.ok <=> old.ok /\ ~ gap /\ GasOk(e) /\ pays BY <1>3, <1>8
    <3>2. (\A a \in Address : KeptBy(listed, r, a)) <=>
            /\ \A a \in Address : KeptBy(listed, q, a)
            /\ e.nonce # Absent => e.nonce = account_nonce[b] + NoncesOf(listed, q, b)
            /\ GasOk(e)
            /\ Priced(e) => SpentIn(listed, q, b) + RequiredWei(e) <= account_balance[b]
      <4>1. \A a \in Address : (e.hash \in listed /\ e.from = a) <=> a = b BY <1>8
      <4> QED BY <1>6, <2>1, <4>1
    <3> HIDE DEF gap, pays
    <3> QED BY <1>2, <2>2, <3>1, <3>2
  <2>4. ASSUME sim.ok, NEW a \in Address
        PROVE  /\ sim.nonce[a] = account_nonce[a] + NoncesOf(listed, r, a)
               /\ sim.balance[a] + SpentIn(listed, r, a) = account_balance[a]
    <3>1. old.ok /\ ~ gap /\ pays BY <1>3, <1>8, <2>4
    <3>2. /\ old.nonce[a] = account_nonce[a] + NoncesOf(listed, q, a)
          /\ old.balance[a] + SpentIn(listed, q, a) = account_balance[a]
      BY <1>2, <3>1
    <3>3. /\ sim.nonce   = [old.nonce EXCEPT ![b] = IF e.nonce = Absent THEN @ ELSE @ + 1]
          /\ sim.balance = [old.balance EXCEPT ![b] =
                              IF Priced(e) /\ RequiredWei(e) <= @ THEN @ - RequiredWei(e) ELSE @]
      BY <1>3, <1>8, <3>1
    <3>4. old.nonce[a] \in Nat /\ old.balance[a] \in Nat BY <1>4
    <3>5. CASE a = b
      <4>1. sim.nonce[a] = IF e.nonce = Absent THEN old.nonce[a] ELSE old.nonce[a] + 1
        BY <1>4, <3>3, <3>5
      <4>2. sim.balance[a] = IF Priced(e) THEN old.balance[a] - RequiredWei(e) ELSE old.balance[a]
        BY <1>4, <3>1, <3>3, <3>5
      <4>3. e.hash \in listed /\ e.from = a BY <1>8, <3>5
      <4> QED BY <1>4, <1>5, <3>2, <3>4, <4>1, <4>2, <4>3
    <3>6. CASE a # b
      <4>1. sim.nonce[a] = old.nonce[a] /\ sim.balance[a] = old.balance[a]
        BY <1>4, <3>3, <3>6
      <4> QED BY <1>5, <3>2, <3>6, <4>1
    <3> QED BY <3>5, <3>6
  <2> QED BY <1>3, <2>3, <2>4, Zenon DEF Exact, sim, r
<1> QED BY <1>7, <1>8

-----------------------------------------------------------------------------
(* The payload is made of entries, and its simulation is exact. *)
RequestInv ==
    /\ payload_entries \in Seq(Entry)
    /\ Exact(RequiredSet, payload_entries)

(* An empty payload is simulated exactly. *)
LEMMA RequestInitially == RequestInit => RequestInv
BY ExactAtFirst DEF RequestInit, RequestInv

(* So is one that grows. *)
LEMMA RequestStep == RequestInv /\ [RequestNext]_requestVars => RequestInv'
<1> SUFFICES ASSUME RequestInv, [RequestNext]_requestVars PROVE RequestInv'
  OBVIOUS
<1>1. CASE UNCHANGED requestVars
  <2>1. RequiredSet' = RequiredSet /\ payload_entries' = payload_entries
    BY <1>1 DEF requestVars, RequiredSet
  <2> QED BY <2>1 DEF RequestInv
<1>2. ASSUME NEW e \in PayloadEntry, AddEntry(e) PROVE RequestInv'
  <2>1. RequiredSet' = RequiredSet /\ payload_entries' = Append(payload_entries, e)
    BY <1>2 DEF AddEntry, RequiredSet
  <2>2. e \in Entry BY RequestAssumption
  <2>3. payload_entries' \in Seq(Entry) BY <2>1, <2>2 DEF RequestInv
  <2>4. Exact(RequiredSet, Append(payload_entries, e)) BY <2>2, ExactGrows DEF RequestInv
  <2> QED BY <2>1, <2>3, <2>4 DEF RequestInv
<1> QED BY <1>1, <1>2 DEF RequestNext

(* The verdict follows. *)
LEMMA ExactIsValid == RequestInv => ValidExactly
<1> SUFFICES ASSUME RequestInv PROVE ValidExactly
  OBVIOUS
<1> DEFINE q == payload_entries
           kept == \A a \in Address : KeptBy(RequiredSet, q, a)
           gas  == \A a \in Address : \A i \in Listed(a) : GasOk(q[i])
<1>1. Simulated.ok <=> kept
  BY SimulatedIsReplay DEF RequestInv, Exact
<1>2. \A a \in Address : Listed(a) = ListedIn(RequiredSet, q, a)
  BY DEF Listed, ListedIn, Positions
<1>3. NoncesConsecutive <=> \A a \in Address : \A i \in Listed(a) : NonceRuns(RequiredSet, q, a, i)
  BY <1>2 DEF NoncesConsecutive, NonceRuns
<1>4. Affordable <=> \A a \in Address : SpentIn(RequiredSet, q, a) <= account_balance[a]
  BY Zenon, <1>2 DEF Affordable, Spent, SpentIn, SpentOn, PaidIn
<1>5. kept <=> NoncesConsecutive /\ Affordable /\ gas
  BY <1>2, <1>3, <1>4 DEF KeptBy
<1>6. GasInLimit <=> gas /\ GasFits
  BY DEF GasInLimit, GasOk
<1> HIDE DEF kept, gas
<1> QED BY <1>1, <1>5, <1>6 DEF ValidExactly, Verdict, NothingMissing, FrozenHere

(* For any list, any accounts and any payload, however long and whatever   *)
(* fields are absent, newPayload answers VALID exactly when the list is    *)
(* kept.                                                                   *)
THEOREM ValidExactlyHolds == RequestSpec => []ValidExactly
BY RequestInitially, RequestStep, ExactIsValid, PTL DEF RequestSpec

===============================================================================
