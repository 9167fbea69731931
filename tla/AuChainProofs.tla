--------------------------- MODULE AuChainProofs ---------------------------
(***************************************************************************)
(* What following length fields comes to, for every stream: the two        *)
(* recursive definitions of AuFramer unfolded, and what chaining back from *)
(* a major sync (framer.rs:326-406) leaves in the queue. And on which      *)
(* streams the numbers come out right.                                     *)
(***************************************************************************)
EXTENDS AuFramerProofs, FiniteSetTheorems, WellFoundedInduction

\* Of some numbers one is the least.
LEMMA LeastNumber ==
    ASSUME NEW T, T \subseteq Nat, T # {}
    PROVE  \E x \in T : \A y \in T : x <= y
<1>1. \E x \in T : \A y \in T : ~(<<y, x>> \in OpToRel(<, Nat))
  BY NatLessThanWellFounded, WFMin
<1>2. PICK x \in T : \A y \in T : ~(<<y, x>> \in OpToRel(<, Nat))
  BY <1>1
<1>3. ASSUME NEW y \in T PROVE x <= y
  <2>1. <<y, x>> \in Nat \X Nat /\ <<y, x>>[1] = y /\ <<y, x>>[2] = x
    OBVIOUS
  <2>2. ~(y < x)
    BY <1>2, <2>1, Zenon DEF OpToRel
  <2>3. QED BY <2>2, SMT
<1>4. QED BY <1>3

\* Of some numbers up to n one is the greatest.
LEMMA GreatestNumber ==
    ASSUME NEW n \in Nat, NEW T, T \subseteq 0..n, T # {}
    PROVE  \E x \in T : \A y \in T : y <= x
<1>1. \A x \in T : n - x \in Nat /\ x \in Nat
  BY SMT
<1>2. {n - x : x \in T} \subseteq Nat /\ {n - x : x \in T} # {}
  BY <1>1, Zenon
<1>3. PICK z \in {n - x : x \in T} : \A y \in {n - x : x \in T} : z <= y
  BY <1>2, LeastNumber, Zenon
<1>4. PICK x \in T : z = n - x
  BY <1>3, Zenon
<1>5. ASSUME NEW y \in T PROVE y <= x
  <2>1. n - x <= n - y
    BY <1>3, <1>4, Zenon
  <2>2. QED BY <1>1, <2>1, SMT
<1>6. QED BY <1>5

-----------------------------------------------------------------------------
\* The length field at q leads to p.
Hop(q, p) == Header(q).len >= MinAuLen /\ q + Header(q).len = p

-----------------------------------------------------------------------------
(* Hops forward: the recursion has a solution, the least set closed under  *)
(* hops, and so what is chosen is one.                                     *)

HopStep(f, from, to) ==
    [p \in from..to |-> \/ p = from
                        \/ \E q \in from..p - 1 : /\ Header(q).len >= MinAuLen
                                                  /\ q + Header(q).len = p
                                                  /\ f[q]]

LEMMA HopsChosen ==
    \A from, to : HopsFrom(from, to) =
        {p \in from..to : (CHOOSE f : f = HopStep(f, from, to))[p]}
  BY Zenon DEF HopsFrom, HopStep

Closed(S, from, to) ==
    /\ from \in S
    /\ \A p \in from..to : (\E q \in from..p - 1 : Hop(q, p) /\ q \in S) => p \in S

Reach(from, to) ==
    {p \in from..to : \A S \in SUBSET (from..to) : Closed(S, from, to) => p \in S}

LEMMA ReachUnfold ==
    ASSUME NEW from, NEW to, from \in from..to, NEW p \in from..to
    PROVE  p \in Reach(from, to) <=>
               \/ p = from
               \/ \E q \in from..p - 1 : Hop(q, p) /\ q \in Reach(from, to)
<1> DEFINE R == Reach(from, to)
<1>1. R \subseteq from..to /\ from \in R
  BY Zenon DEF Reach, Closed
<1>2. ASSUME NEW q \in from..p - 1, Hop(q, p), q \in R PROVE p \in R
  BY <1>2, Zenon DEF Reach, Closed
<1>3. ASSUME p \in R, p # from, ~\E q \in from..p - 1 : Hop(q, p) /\ q \in R
      PROVE  FALSE
  <2> DEFINE S == R \ {p}
  <2>1. S \in SUBSET (from..to) /\ from \in S /\ p \notin S
    BY <1>1, <1>3, Zenon
  <2>2. ASSUME NEW r \in from..to, NEW q \in from..r - 1, Hop(q, r), q \in S
        PROVE  r \in S
    <3>1. q \in R
      BY <2>2, Zenon
    <3>2. r \in R
      BY <2>2, <3>1, Zenon DEF Reach, Closed
    <3>3. r # p
      BY <1>3, <2>2, <3>1, Zenon
    <3>4. QED BY <3>2, <3>3, Zenon
  <2>3. Closed(S, from, to)
    BY <2>1, <2>2, Zenon DEF Closed
  <2>4. QED BY <1>3, <2>1, <2>3, Zenon DEF Reach
<1>4. QED BY <1>1, <1>2, <1>3, Zenon

\* Predicates are equal when they hold of the same.
LEMMA BooleanFunctions ==
    ASSUME NEW D, NEW A \in [D -> BOOLEAN], NEW B \in [D -> BOOLEAN],
           \A x \in D : A[x] <=> B[x]
    PROVE  A = B
<1>1. \A x \in D : A[x] \in BOOLEAN /\ B[x] \in BOOLEAN
  BY Zenon
<1>2. \A x \in D : A[x] = B[x]
  BY <1>1, Zenon
<1>3. QED BY <1>2, SMT

\* HopsFrom satisfies its recursion.
LEMMA HopsUnfold ==
    ASSUME NEW from \in Nat, NEW to \in Nat, from <= to, NEW p \in from..to
    PROVE  p \in HopsFrom(from, to) <=>
               \/ p = from
               \/ \E q \in from..p - 1 : Hop(q, p) /\ q \in HopsFrom(from, to)
<1> DEFINE F == [r \in from..to |-> r \in Reach(from, to)]
           C == CHOOSE f : f = HopStep(f, from, to)
<1>0. from \in from..to
  BY SMT
<1>1. F = HopStep(F, from, to)
  <2>1. ASSUME NEW r \in from..to
        PROVE  F[r] <=> HopStep(F, from, to)[r]
    <3>1. \A q \in Reach(from, to) : q \in from..to
      BY Zenon DEF Reach
    <3>2. ASSUME NEW q \in from..r - 1 PROVE q \in from..to
      BY SMT
    <3>3. \A q \in from..r - 1 : F[q] <=> q \in Reach(from, to)
      BY <3>2, Zenon
    <3>4. (r \in Reach(from, to)) <=> (\/ r = from
                                       \/ \E q \in from..r - 1 : Hop(q, r) /\ F[q])
      BY <1>0, <3>3, ReachUnfold, Zenon
    <3>5. F[r] <=> r \in Reach(from, to)
      BY Zenon
    <3> HIDE DEF F
    <3>6. QED BY <3>4, <3>5, Zenon DEF HopStep, Hop
  <2>2. F \in [from..to -> BOOLEAN] /\ HopStep(F, from, to) \in [from..to -> BOOLEAN]
    BY SMT DEF HopStep
  <2> HIDE DEF F
  <2>3. QED BY <2>1, <2>2, BooleanFunctions, Zenon
<1>2. C = HopStep(C, from, to)
  BY <1>1, Zenon
<1>3. HopsFrom(from, to) = {r \in from..to : C[r]}
  BY HopsChosen, Zenon
<1> HIDE DEF C
<1>4. C[p] <=> (p = from \/ \E q \in from..p - 1 : Hop(q, p) /\ C[q])
  BY <1>2, Zenon DEF HopStep, Hop
<1>5. \A q \in from..p - 1 : q \in from..to
  BY SMT
<1>6. QED BY <1>3, <1>4, <1>5, Zenon

-----------------------------------------------------------------------------
(* Chains: here the solution is the greatest set whose links lead on.      *)

\* The reading at p is a link of a chain that ends at `sync`.
Link(p, sync, subs) ==
    /\ (sync - p) % AuAlign = 0
    /\ Header(p).len >= MinAuLen /\ p + Header(p).len <= sync
    /\ ~Header(p).sync
    /\ Header(p).dir[subs] <= Header(p).len /\ subs \in Header(p).pass

ChainStep(f, from, sync, subs) ==
    [p \in from..sync - 1 |->
        LET h == Header(p) IN
        /\ (sync - p) % AuAlign = 0
        /\ h.len >= MinAuLen /\ p + h.len <= sync
        /\ ~h.sync
        /\ h.dir[subs] <= h.len /\ subs \in h.pass
        /\ p + h.len < sync => f[p + h.len]]

LEMMA ChainChosen ==
    \A from, sync, subs : ChainStarts(from, sync, subs) =
        {p \in from..sync - 1 : (CHOOSE f : f = ChainStep(f, from, sync, subs))[p]}
  BY Zenon DEF ChainStarts, ChainStep

LeadsOn(S, sync, subs) ==
    \A p \in S : /\ Link(p, sync, subs)
                 /\ p + Header(p).len < sync => p + Header(p).len \in S

Chained(from, sync, subs) ==
    {p \in from..sync - 1 : \E S \in SUBSET (from..sync - 1) : p \in S /\ LeadsOn(S, sync, subs)}

LEMMA ChainedUnfold ==
    ASSUME NEW from, NEW sync, NEW subs, NEW p \in from..sync - 1
    PROVE  p \in Chained(from, sync, subs) <=>
               /\ Link(p, sync, subs)
               /\ p + Header(p).len < sync => p + Header(p).len \in Chained(from, sync, subs)
<1> DEFINE R == Chained(from, sync, subs)
           next == p + Header(p).len
<1>1. ASSUME p \in R PROVE Link(p, sync, subs) /\ (next < sync => next \in R)
  <2>1. PICK S \in SUBSET (from..sync - 1) : p \in S /\ LeadsOn(S, sync, subs)
    BY <1>1, Zenon DEF Chained
  <2>2. Link(p, sync, subs) /\ (next < sync => next \in S)
    BY <2>1, Zenon DEF LeadsOn
  <2> HIDE DEF next
  <2>3. next \in S => next \in R
    BY <2>1, Zenon DEF Chained
  <2>4. QED BY <2>2, <2>3, Zenon
<1>2. ASSUME Link(p, sync, subs), next < sync => next \in R PROVE p \in R
  <2>1. CASE ~(next < sync)
    <3>1. {p} \in SUBSET (from..sync - 1) /\ p \in {p} /\ LeadsOn({p}, sync, subs)
      BY <1>2, <2>1, Zenon DEF LeadsOn
    <3>2. QED BY <3>1, Zenon DEF Chained
  <2>2. CASE next \in R
    <3>1. PICK S \in SUBSET (from..sync - 1) : next \in S /\ LeadsOn(S, sync, subs)
      BY <2>2, Zenon DEF Chained
    <3>2. S \cup {p} \in SUBSET (from..sync - 1) /\ p \in S \cup {p}
      BY Zenon
    <3>3. LeadsOn(S \cup {p}, sync, subs)
      BY <1>2, <3>1, Zenon DEF LeadsOn
    <3>4. QED BY <3>2, <3>3, Zenon DEF Chained
  <2>3. QED BY <1>2, <2>1, <2>2, Zenon
<1>3. QED BY <1>1, <1>2, Zenon

\* ChainStarts satisfies its recursion.
LEMMA ChainUnfold ==
    ASSUME NEW from \in Nat, NEW sync \in Nat, NEW subs, NEW p \in from..sync - 1,
           \A q \in from..sync - 1 : Header(q).len \in Nat
    PROVE  p \in ChainStarts(from, sync, subs) <=>
               /\ Link(p, sync, subs)
               /\ p + Header(p).len < sync => p + Header(p).len \in ChainStarts(from, sync, subs)
<1> DEFINE D == from..sync - 1
           F == [r \in D |-> r \in Chained(from, sync, subs)]
           C == CHOOSE f : f = ChainStep(f, from, sync, subs)
<1>1. ASSUME NEW r \in D, Link(r, sync, subs), r + Header(r).len < sync
      PROVE  r + Header(r).len \in D
  BY <1>1, FramerConstants, SMT DEF Link
<1>2. F = ChainStep(F, from, sync, subs)
  <2>1. ASSUME NEW r \in D
        PROVE  F[r] <=> ChainStep(F, from, sync, subs)[r]
    <3> DEFINE next == r + Header(r).len
    <3>1. F[r] <=> r \in Chained(from, sync, subs)
      BY Zenon
    <3>2. r \in Chained(from, sync, subs) <=>
              Link(r, sync, subs) /\ (next < sync => next \in Chained(from, sync, subs))
      BY ChainedUnfold, Zenon
    <3>3. Link(r, sync, subs) /\ next < sync => (F[next] <=> next \in Chained(from, sync, subs))
      BY <1>1, Zenon
    <3>4. ChainStep(F, from, sync, subs)[r] <=> Link(r, sync, subs) /\ (next < sync => F[next])
      <4> HIDE DEF F
      <4>1. QED BY Zenon DEF ChainStep, Link
    <3> HIDE DEF F, next
    <3>5. QED BY <3>1, <3>2, <3>3, <3>4, Zenon
  <2>2. F \in [D -> BOOLEAN] /\ ChainStep(F, from, sync, subs) \in [D -> BOOLEAN]
    BY SMT DEF ChainStep
  <2> HIDE DEF F
  <2>3. QED BY <2>1, <2>2, BooleanFunctions, Zenon
<1>3. C = ChainStep(C, from, sync, subs)
  BY <1>2, Zenon
<1>4. ChainStarts(from, sync, subs) = {r \in D : C[r]}
  BY ChainChosen, Zenon
<1> HIDE DEF C
<1>5. C[p] <=> Link(p, sync, subs) /\ (p + Header(p).len < sync => C[p + Header(p).len])
  BY <1>3, Zenon DEF ChainStep, Link
<1>6. QED BY <1>1, <1>4, <1>5, Zenon

-----------------------------------------------------------------------------
(* Hops are a path: what is reached is reached one after the other.        *)

LEMMA HopsApart ==
    ASSUME NEW from \in Nat, NEW to \in Nat, from <= to,
           \A q \in from..to - 1 : Header(q).len \in Nat,
           NEW p \in HopsFrom(from, to), NEW q \in HopsFrom(from, to), p < q
    PROVE  /\ Header(p).len >= MinAuLen /\ p + Header(p).len <= q
           /\ p + Header(p).len \in HopsFrom(from, to)
<1> DEFINE H == HopsFrom(from, to)
           Bad(e, d) == d < e /\ ~(Header(d).len >= MinAuLen /\ d + Header(d).len <= e)
           T == {e \in H : \E d \in H : Bad(e, d)}
<1>1. H \subseteq from..to /\ H \subseteq Nat
  BY HopsWithin, SMT
<1>2. T = {}
  <2> SUFFICES ASSUME T # {} PROVE FALSE
    BY Zenon
  <2>1. PICK e \in T : \A x \in T : e <= x
    BY <1>1, LeastNumber, Zenon
  <2>2. PICK d \in H : Bad(e, d)
    BY <2>1, Zenon
  <2>3. e \in H /\ e \in from..to /\ d \in from..to /\ d < e /\ e # from /\ from <= d
    BY <1>1, <2>1, <2>2, SMT
  <2>4. PICK c \in from..e - 1 : Hop(c, e) /\ c \in H
    BY <2>3, HopsUnfold, Zenon
  <2>5. c \in Nat /\ d \in Nat /\ e \in Nat /\ c < e /\ d < e
    BY <2>3, <2>4, SMT
  <2>6. c \notin T /\ d \notin T
    BY <2>1, <2>5, SMT
  <2>7. Header(c).len \in Nat /\ Header(d).len \in Nat /\ c + Header(c).len = e
    <3>1. c \in from..to - 1 /\ d \in from..to - 1
      BY <2>3, <2>4, SMT
    <3>2. QED BY <2>4, <3>1, Zenon DEF Hop
  <2>8. CASE d < c
    <3>1. ~Bad(c, d)
      BY <2>2, <2>4, <2>6, Zenon
    <3>2. QED BY <2>2, <2>5, <2>7, <2>8, <3>1, SMT
  <2>9. CASE d = c
    BY <2>2, <2>4, <2>5, <2>7, <2>9, SMT DEF Hop
  <2>10. CASE c < d
    <3>1. ~Bad(d, c)
      BY <2>2, <2>4, <2>6, Zenon
    <3>2. QED BY <2>5, <2>7, <2>10, <3>1, SMT
  <2>11. QED BY <2>5, <2>8, <2>9, <2>10, SMT
<1>3. ~Bad(q, p)
  BY <1>2, Zenon
<1>4. Header(p).len >= MinAuLen /\ p + Header(p).len <= q
  BY <1>3
<1>5. p + Header(p).len \in from..to /\ p \in from..(p + Header(p).len) - 1
  <2>1. p \in from..to - 1 /\ q \in from..to
    BY <1>1, SMT
  <2>2. Header(p).len \in Nat
    BY <2>1
  <2>3. QED BY <1>4, <2>1, <2>2, FramerConstants, SMT
<1>6. p + Header(p).len \in H
  <2>1. Hop(p, p + Header(p).len)
    BY <1>4, Zenon DEF Hop
  <2>2. QED BY <1>5, <2>1, HopsUnfold, Zenon
<1>7. QED BY <1>4, <1>6

\* From the start of a chain hops stay on it.
LEMMA HopsInChain ==
    ASSUME NEW from \in Nat, NEW sync \in Nat, from <= sync, NEW subs,
           \A q \in from..sync - 1 : Header(q).len \in Nat,
           NEW first \in ChainStarts(from, sync, subs) \cup {sync}
    PROVE  HopsFrom(first, sync) \subseteq ChainStarts(from, sync, subs) \cup {sync}
<1> DEFINE H == HopsFrom(first, sync)
           G == ChainStarts(from, sync, subs)
<1>1. first \in Nat /\ from <= first /\ first <= sync
  BY ChainWithin, SMT
<1>2. H \subseteq first..sync /\ H \subseteq Nat
  BY <1>1, HopsWithin, SMT
<1> SUFFICES ASSUME H \ (G \cup {sync}) # {} PROVE FALSE
  BY Zenon
<1>3. PICK p \in H \ (G \cup {sync}) : \A x \in H \ (G \cup {sync}) : p <= x
  BY <1>2, LeastNumber, Zenon
<1>4. p \in first..sync /\ p # first /\ p # sync /\ p \notin G /\ p \in Nat
  BY <1>2, <1>3, Zenon
<1>5. PICK q \in first..p - 1 : Hop(q, p) /\ q \in H
  BY <1>1, <1>3, <1>4, HopsUnfold, Zenon
<1>6. q \in Nat /\ q < p /\ q # sync /\ p < sync
  BY <1>1, <1>4, <1>5, SMT
<1>7. q \in G
  BY <1>3, <1>4, <1>5, <1>6, SMT
<1>8. q \in from..sync - 1 /\ q + Header(q).len = p
  BY <1>5, <1>7, ChainWithin, Zenon DEF Hop
<1>9. p \in G
  BY <1>6, <1>7, <1>8, ChainUnfold, Zenon
<1>10. QED BY <1>4, <1>9, Zenon

\* From the start of a chain hops lead onto its end.
LEMMA ChainReaches ==
    ASSUME NEW from \in Nat, NEW sync \in Nat, from <= sync, NEW subs,
           \A q \in from..sync - 1 : Header(q).len \in Nat,
           NEW first \in ChainStarts(from, sync, subs) \cup {sync}
    PROVE  sync \in HopsFrom(first, sync)
<1> DEFINE H == HopsFrom(first, sync)
           G == ChainStarts(from, sync, subs)
<1>1. first \in Nat /\ from <= first /\ first <= sync
  BY ChainWithin, SMT
<1>2. H \subseteq first..sync /\ H \subseteq 0..sync /\ H \subseteq Nat
  BY <1>1, HopsWithin, SMT
<1>3. first \in H
  <2>1. first \in first..sync
    BY <1>1, SMT
  <2>2. QED BY <1>1, <2>1, HopsUnfold, Zenon
<1>4. H \subseteq G \cup {sync}
  BY HopsInChain, Zenon
<1>5. PICK p \in H : \A x \in H : x <= p
  BY <1>2, <1>3, GreatestNumber, Zenon
<1>6. CASE p # sync
  <2>1. p \in G /\ p \in from..sync - 1 /\ p \in Nat
    BY <1>2, <1>4, <1>5, <1>6, ChainWithin, Zenon
  <2>2. Link(p, sync, subs) /\ Header(p).len \in Nat
    BY <2>1, ChainUnfold, Zenon
  <2>3. /\ p + Header(p).len \in first..sync /\ p \in first..(p + Header(p).len) - 1
        /\ p < p + Header(p).len
    BY <1>1, <1>2, <1>5, <2>1, <2>2, FramerConstants, SMT DEF Link
  <2>4. Hop(p, p + Header(p).len)
    BY <2>2, Zenon DEF Hop, Link
  <2>5. p + Header(p).len \in H
    BY <1>1, <1>5, <2>3, <2>4, HopsUnfold, Zenon
  <2>6. p + Header(p).len <= p
    BY <1>5, <2>5, Zenon
  <2>7. QED BY <2>1, <2>2, <2>3, <2>6, SMT
<1>7. QED BY <1>5, <1>6, Zenon

-----------------------------------------------------------------------------
(* A path: from each offset in it the length field leads onto the next.    *)

Path(S) ==
    \A p, q \in S : p < q => /\ Header(p).len >= MinAuLen /\ p + Header(p).len <= q
                             /\ p + Header(p).len \in S

\* Two paths that meet are one.
LEMMA PathsJoin ==
    ASSUME NEW A, NEW B, NEW m \in A \cap B, A \subseteq Nat, B \subseteq Nat,
           \A a \in A : a <= m, \A b \in B : m <= b, Path(A), Path(B)
    PROVE  Path(A \cup B)
<1> SUFFICES ASSUME NEW p \in A \cup B, NEW q \in A \cup B, p < q
             PROVE  /\ Header(p).len >= MinAuLen /\ p + Header(p).len <= q
                    /\ p + Header(p).len \in A \cup B
  BY Zenon DEF Path
<1>1. p \in Nat /\ q \in Nat /\ m \in Nat
  BY Zenon
<1>2. CASE p \in B
  <2>1. q \in B
    <3>1. CASE q \in A
      BY <1>1, <1>2, <3>1
    <3>2. QED BY <3>1, Zenon
  <2>2. QED BY <1>2, <2>1, Zenon DEF Path
<1>3. CASE p \in A /\ p \notin B
  <2>1. p < m
    BY <1>1, <1>3
  <2>2. /\ Header(p).len >= MinAuLen /\ p + Header(p).len <= m
        /\ p + Header(p).len \in A
    BY <1>3, <2>1, Zenon DEF Path
  <2>3. CASE q \in A
    BY <1>3, <2>3, Zenon DEF Path
  <2>4. CASE q \in B
    <3>1. m <= q /\ p + Header(p).len \in Nat
      BY <2>2, <2>4, Zenon
    <3>2. p + Header(p).len <= q
      BY <1>1, <2>2, <3>1
    <3>3. QED BY <2>2, <3>2, Zenon
  <2>5. QED BY <2>3, <2>4, Zenon
<1>4. QED BY <1>2, <1>3, Zenon

\* What is left of a path without its first offset is a path.
LEMMA PathAfter ==
    ASSUME NEW S, S \subseteq Nat, Path(S), NEW f, \A p \in S : f <= p,
           \A p, q \in S : p < q => Header(p).len \in Nat
    PROVE  Path(S \ {f})
<1> SUFFICES ASSUME NEW p \in S \ {f}, NEW q \in S \ {f}, p < q
             PROVE  /\ Header(p).len >= MinAuLen /\ p + Header(p).len <= q
                    /\ p + Header(p).len \in S \ {f}
  BY Zenon DEF Path
<1>1. /\ Header(p).len >= MinAuLen /\ p + Header(p).len <= q /\ p + Header(p).len \in S
  BY Zenon DEF Path
<1>2. p \in Nat /\ Header(p).len \in Nat /\ f <= p
  BY Zenon
<1>3. p + Header(p).len # f
  <2>1. p \in Nat /\ Header(p).len > 0
    BY <1>1, <1>2, FramerConstants
  <2>2. SUFFICES ASSUME p + Header(p).len = f PROVE FALSE
    OBVIOUS
  <2>3. QED BY <1>2, <2>1, <2>2
<1>4. QED BY <1>1, <1>3, Zenon

\* Hops are a path.
LEMMA HopsArePath ==
    ASSUME NEW from \in Nat, NEW to \in Nat, from <= to,
           \A q \in from..to - 1 : Header(q).len \in Nat
    PROVE  Path(HopsFrom(from, to)) /\ HopsFrom(from, to) \subseteq Nat
<1>1. Path(HopsFrom(from, to))
  BY HopsApart, Zenon DEF Path
<1>2. from..to \subseteq Nat
  BY SMT
<1>3. QED BY <1>1, <1>2, HopsWithin, Zenon

-----------------------------------------------------------------------------
(* The queue leads onto a major sync that passes its checks.               *)

\* SyncProven, at a stream offset.
Proven(p) ==
    /\ p < pushed
    /\ Header(p).len > MsiEnd /\ pushed - p >= Header(p).len
    /\ Header(p).subs \in Header(p).pass

Later(p) == {e \in queued : e > p}

Leading ==
    \A p \in {consumed} \cup queued :
        IF Later(p) = {}
        THEN Proven(p) /\ Header(p).sync /\ Header(p).subs = substreams
        ELSE IsLeast(p + Header(p).len, Later(p))

\* Length fields of what has been pushed are numbers.
LEMMA PushedType ==
    ASSUME IInv, NEW p \in Nat, p < pushed
    PROVE  Header(p).len \in Nat
<1>1. stream.bytes \in Seq(Reading) /\ pushed <= Len(stream.bytes) /\ pushed \in Nat
  BY StreamsAreReadings DEF IInv, TypeOK, InBounds
<1>2. p < Len(stream.bytes)
  BY <1>1
<1>3. Header(p) \in Reading
  BY <1>2, HeaderType DEF IInv, TypeOK
<1>4. QED BY <1>3, FramerConstants DEF Reading

LEMMA ProvenAt ==
    ASSUME NEW p \in Nat, drained \in Nat, pushed \in Nat,
           p < pushed => Header(p).len \in Nat
    PROVE  /\ Proven(p) => SyncProven(p - drained)
           /\ p < pushed /\ SyncProven(p - drained) => Proven(p)
<1>1. drained + (p - drained) = p
  BY SMT
<1>2. At(p - drained) = Header(p)
  BY <1>1, Zenon DEF At
<1>3. Left(p - drained) = pushed - p
  BY SMT DEF Left, BufLen
<1>4. QED BY <1>2, <1>3, Zenon DEF Proven, SyncProven

LEMMA LeadingLeads == IInv /\ Leading => SkipsLeadToSync
<1> SUFFICES ASSUME IInv, Leading, NEW p \in {consumed} \cup queued
             PROVE  IF Later(p) = {}
                    THEN SyncProven(p - drained) /\ Header(p).subs = substreams
                    ELSE IsLeast(p + Header(p).len, Later(p))
  BY Zenon DEF SkipsLeadToSync, Later
<1>1. p \in Nat /\ drained \in Nat /\ pushed \in Nat
  BY DEF IInv, TypeOK
<1>2. p < pushed => Header(p).len \in Nat
  BY <1>1, PushedType, Zenon
<1>3. CASE Later(p) = {}
  BY <1>1, <1>2, <1>3, ProvenAt, Zenon DEF Leading
<1>4. QED BY <1>3, Zenon DEF Leading

\* At the end of the queue stands an access unit that passes the checks of one
\* in the chain.
LEMMA LeadsToValid ==
    ASSUME IInv, Leading, queued = {}
    PROVE  AuValid(cursor) /\ At(cursor).sync /\ ~AuInvalid(cursor)
<1>1. /\ cursor \in Nat /\ consumed = drained + cursor /\ consumed \in Nat
      /\ drained \in Nat /\ pushed \in Nat
  BY DEF IInv, TypeOK, InBounds
<1>2. Proven(consumed) /\ Header(consumed).sync
  <2>1. Later(consumed) = {}
    BY Zenon DEF Later
  <2>2. QED BY <2>1, Zenon DEF Leading
<1>3. At(cursor) = Header(consumed) /\ Left(cursor) = pushed - consumed
  <2>1. At(cursor) = Header(consumed)
    BY <1>1, Zenon DEF At
  <2>2. Left(cursor) = pushed - consumed
    BY <1>1 DEF Left, BufLen
  <2>3. QED BY <2>1, <2>2
<1>4. Header(consumed).len \in Nat
  BY <1>1, <1>2, PushedType, Zenon DEF Proven
<1> DEFINE h == Header(consumed)
<1>5. /\ h.len > MsiEnd /\ pushed - consumed >= h.len /\ h.subs \in h.pass /\ h.sync
      /\ h.len \in Nat
  BY <1>2, <1>4, Zenon DEF Proven
<1> HIDE DEF h
<1>6. h.len >= MinAuLen /\ pushed - consumed >= MinAuLen /\ ~(h.len < MinAuLen)
      /\ ~(h.len <= MsiEnd)
  BY <1>1, <1>5, FramerConstants
<1>7. At(cursor) = h /\ Left(cursor) = pushed - consumed
  BY <1>3, Zenon DEF h
<1>8. AuValid(cursor)
  BY <1>5, <1>6, <1>7, Zenon DEF AuValid, SyncProven
<1>9. ~SyncRefuted(cursor)
  BY <1>5, <1>6, <1>7, Zenon DEF SyncRefuted
<1>10. ~AuInvalid(cursor)
  BY <1>5, <1>6, <1>7, <1>9, Zenon DEF AuInvalid
<1>11. QED BY <1>5, <1>7, <1>8, <1>10, Zenon

LEMMA PushLeads ==
    ASSUME IInv, Leading, NEW n \in Nat, Push(n)
    PROVE  Leading'
<1>1. /\ UNCHANGED <<stream, consumed, queued, substreams>> /\ pushed' = pushed + n
      /\ pushed \in Nat
  BY DEF Push, IInv, TypeOK
<1>2. ASSUME NEW p \in {consumed} \cup queued, Proven(p) PROVE Proven(p)'
  <2>1. /\ p \in Nat /\ p < pushed /\ Header(p).len > MsiEnd
        /\ pushed - p >= Header(p).len /\ Header(p).subs \in Header(p).pass
    BY <1>2 DEF IInv, TypeOK, Proven
  <2>2. Header(p).len \in Nat
    BY <2>1, PushedType, Zenon
  <2>3. Header(p)' = Header(p)
    BY <1>1, Zenon DEF Header
  <2>4. p < pushed' /\ pushed' - p >= Header(p).len
    BY <1>1, <2>1, <2>2
  <2>5. QED BY <2>1, <2>3, <2>4, Zenon DEF Proven
<1>3. ASSUME NEW p PROVE Header(p)' = Header(p) /\ Later(p)' = Later(p)
  BY <1>1, Zenon DEF Header, Later
<1>4. ASSUME NEW p \in {consumed} \cup queued
      PROVE  (IF Later(p) = {}
              THEN Proven(p) /\ Header(p).sync /\ Header(p).subs = substreams
              ELSE IsLeast(p + Header(p).len, Later(p)))'
  <2>1. IF Later(p) = {}
        THEN Proven(p) /\ Header(p).sync /\ Header(p).subs = substreams
        ELSE IsLeast(p + Header(p).len, Later(p))
    BY <1>4, Zenon DEF Leading
  <2>2. CASE Later(p) = {}
    <3>1. Proven(p) /\ Header(p).sync /\ Header(p).subs = substreams
      BY <2>1, <2>2, Zenon
    <3>2. Proven(p)' /\ (Header(p).sync)' /\ (Header(p).subs = substreams)' /\ Later(p)' = {}
      BY <1>1, <1>2, <1>3, <2>2, <3>1, Zenon
    <3>3. QED BY <3>2, Zenon
  <2>3. CASE Later(p) # {}
    BY <1>3, <2>1, <2>3, Zenon
  <2>4. QED BY <2>2, <2>3, Zenon
<1>5. QED BY <1>1, <1>4, Zenon DEF Leading

\* What does not touch the queue leaves it as it was.
LEMMA LeadingStays ==
    ASSUME Leading, UNCHANGED <<stream, pushed, consumed, queued, substreams>>
    PROVE  Leading'
  BY Zenon DEF Leading, Later, Proven, Header, IsLeast

\* Reporting the first of the queue leaves the rest as it was.
LEMMA NextQueuedLeads ==
    ASSUME IInv, Leading, NextQueued
    PROVE  Leading'
<1>1. PICK end \in queued :
          /\ IsLeast(end, queued)
          /\ Report("Skipped", consumed, end - consumed, ordinal, FALSE, 0)
          /\ queued' = queued \ {end}
  BY DEF NextQueued
<1>2. UNCHANGED <<stream, pushed, drained, substreams>>
  BY DEF NextQueued
<1>3. consumed' = end /\ end \in Nat /\ queued \subseteq Nat
  BY <1>1 DEF Report, IInv, TypeOK
<1>4. {consumed'} \cup queued' = queued
  BY <1>1, <1>3, Zenon
<1>5. ASSUME NEW p \in queued
      PROVE  Later(p)' = Later(p) /\ Header(p)' = Header(p) /\ Proven(p)' = Proven(p)
  <2>1. ~(end > p)
    BY <1>1, <1>3 DEF IsLeast
  <2>2. Later(p)' = Later(p)
    BY <1>1, <2>1, Zenon DEF Later
  <2>3. Header(p)' = Header(p) /\ Proven(p)' = Proven(p)
    BY <1>2, Zenon DEF Header, Proven
  <2>4. QED BY <2>2, <2>3
<1>6. ASSUME NEW p \in queued
      PROVE  (IF Later(p) = {}
              THEN Proven(p) /\ Header(p).sync /\ Header(p).subs = substreams
              ELSE IsLeast(p + Header(p).len, Later(p)))'
  <2>1. IF Later(p) = {}
        THEN Proven(p) /\ Header(p).sync /\ Header(p).subs = substreams
        ELSE IsLeast(p + Header(p).len, Later(p))
    BY Zenon DEF Leading
  <2>2. CASE Later(p) = {}
    BY <1>2, <1>5, <2>1, <2>2, Zenon
  <2>3. CASE Later(p) # {}
    BY <1>5, <2>1, <2>3, Zenon
  <2>4. QED BY <2>2, <2>3, Zenon
<1>7. QED BY <1>4, <1>6, Zenon DEF Leading

\* A path that ends at `sync`.
PathOnto(S, sync) ==
    /\ S \subseteq Nat /\ Path(S) /\ sync \in S
    /\ \A p \in S : p <= sync

LeadsIn(S, p, sync) ==
    LET later == {e \in S : e > p}
    IN  IF p = sync THEN later = {}
        ELSE later # {} /\ IsLeast(p + Header(p).len, later)

LEMMA PathLeads ==
    ASSUME NEW S, NEW sync, PathOnto(S, sync), NEW p \in S,
           \A q \in S : q < sync => Header(q).len \in Nat
    PROVE  LeadsIn(S, p, sync)
<1> DEFINE later == {e \in S : e > p}
<1>0. S \subseteq Nat /\ Path(S) /\ sync \in S /\ \A q \in S : q <= sync
  BY Zenon DEF PathOnto
<1>1. p \in Nat /\ sync \in Nat /\ p <= sync
  BY <1>0, Zenon
<1>2. CASE p = sync
  <2>1. ASSUME NEW e \in later PROVE FALSE
    <3>1. e \in Nat /\ e <= sync /\ e > p
      BY <1>0, Zenon
    <3>2. QED BY <1>1, <1>2, <3>1
  <2>2. QED BY <1>2, <2>1, Zenon DEF LeadsIn
<1>3. CASE p # sync
  <2>1. p < sync
    BY <1>1, <1>3
  <2>2. sync \in later
    BY <1>0, <1>1, <2>1
  <2>3. /\ Header(p).len >= MinAuLen /\ p + Header(p).len \in S
        /\ Header(p).len \in Nat
    BY <1>0, <2>1, Zenon DEF Path
  <2>4. p + Header(p).len > p
    BY <1>1, <2>3, FramerConstants
  <2>5. \A e \in later : p < e
    <3>1. ASSUME NEW e \in later PROVE p < e
      <4>1. e \in Nat /\ e > p
        BY <1>0, Zenon
      <4>2. QED BY <4>1, <1>1
    <3>2. QED BY <3>1
  <2>6. \A e \in later : p + Header(p).len <= e
    BY <1>0, <2>5, Zenon DEF Path
  <2>7. QED BY <1>3, <2>2, <2>3, <2>4, <2>6, Zenon DEF IsLeast, LeadsIn
<1>4. QED BY <1>2, <1>3, Zenon

\* What is found between the damage and the major sync: one path, which ends
\* at the major sync.
Between(from, first, sync, whole) ==
    ((IF whole THEN HopsFrom(from, first) ELSE {}) \cup HopsFrom(first, sync))
        \ {IF whole THEN from ELSE first}

LEMMA RecoveredPath ==
    ASSUME NEW from \in Nat, NEW sync \in Nat, NEW first \in from..sync, NEW subs,
           \A q \in from..sync - 1 : Header(q).len \in Nat,
           first \in ChainStarts(from, sync, subs) \cup {sync},
           NEW whole \in BOOLEAN, whole => first \in HopsFrom(from, first),
           (IF whole THEN from ELSE first) < sync
    PROVE  PathOnto(Between(from, first, sync, whole), sync)
<1> DEFINE start == IF whole THEN from ELSE first
           S == Between(from, first, sync, whole)
           L == HopsFrom(from, first)
           H == HopsFrom(first, sync)
           W == (IF whole THEN L ELSE {}) \cup H
<1>1. /\ first \in Nat /\ from <= first /\ first <= sync /\ from <= sync
      /\ from..first \subseteq Nat /\ first..sync \subseteq Nat
  BY SMT
<1>2. /\ \A q \in from..first - 1 : Header(q).len \in Nat
      /\ \A q \in first..sync - 1 : Header(q).len \in Nat
  <2>1. ASSUME NEW q \in from..first - 1 PROVE q \in from..sync - 1
    BY SMT
  <2>2. ASSUME NEW q \in first..sync - 1 PROVE q \in from..sync - 1
    BY SMT
  <2>3. QED BY <2>1, <2>2, Zenon
<1>3. Path(L) /\ L \subseteq Nat /\ Path(H) /\ H \subseteq Nat
  BY <1>1, <1>2, HopsArePath, Zenon
<1>4. L \subseteq from..first /\ H \subseteq first..sync
  BY HopsWithin, Zenon
<1>5. /\ \A p \in L : from <= p /\ p <= first
      /\ \A p \in H : first <= p /\ p <= sync
  BY <1>1, <1>4, SMT
<1>6. first \in H /\ sync \in H
  <2>1. first \in first..sync
    BY SMT
  <2>2. first \in H
    BY <1>1, <2>1, HopsUnfold, Zenon
  <2>3. sync \in H
    BY <1>1, ChainReaches, Zenon
  <2>4. QED BY <2>2, <2>3
<1>7. /\ Path(W) /\ W \subseteq Nat /\ sync \in W
      /\ \A p \in W : start <= p /\ p <= sync /\ from <= p
  <2>1. CASE whole
    <3>1. first \in L \cap H /\ W = L \cup H /\ start = from
      BY <1>6, <2>1, Zenon
    <3>2. Path(L \cup H)
      <4> HIDE DEF L, H, W
      <4>1. QED BY <1>3, <1>5, <3>1, PathsJoin, Zenon
    <3>3. \A p \in L \cup H : from <= p /\ p <= sync
      <4> HIDE DEF L, H, W
      <4>1. QED BY <1>1, <1>3, <1>5
    <3>4. QED BY <1>3, <1>6, <3>1, <3>2, <3>3, Zenon
  <2>2. CASE ~whole
    <3>1. W = H /\ start = first
      BY <2>2, Zenon
    <3>2. \A p \in H : from <= p
      <4> HIDE DEF L, H, W
      <4>1. QED BY <1>1, <1>3, <1>5
    <3>3. QED BY <1>3, <1>5, <1>6, <3>1, <3>2, Zenon
  <2>3. QED BY <2>1, <2>2, Zenon
<1>8. S = W \ {start}
  BY Zenon DEF Between
<1>9. start < sync
  OBVIOUS
<1>10. start = from \/ start = first
  BY Zenon
<1> HIDE DEF W, L, H, S, start
<1>11. \A p, q \in W : p < q => Header(p).len \in Nat
  <2>1. ASSUME NEW p \in W, NEW q \in W, p < q PROVE p \in from..sync - 1
    <3>1. p \in Nat /\ q \in Nat /\ from <= p /\ q <= sync
      BY <1>7, Zenon
    <3>2. QED BY <2>1, <3>1
  <2>2. QED BY <2>1, Zenon
<1>12. Path(W \ {start})
  BY <1>7, <1>11, PathAfter, Zenon
<1>13. start # sync
  BY <1>1, <1>9, <1>10
<1>14. QED BY <1>7, <1>8, <1>12, <1>13, Zenon DEF PathOnto, S

\* A search that ends reports the major sync itself, or the first of what was
\* found between the damage and it.
LEMMA ResyncLeads ==
    ASSUME IInv, SeekFound
    PROVE  \/ last'.kind = "Au" /\ last'.major /\ queued' = {}
           \/ last'.kind = "Skipped" /\ Leading'
<1>1. PICK c \in SyncCandidates : SyncProven(c) /\ Resync(c)
  BY DEF SeekFound
<1>2. Searching /\ UNCHANGED <<stream, pushed, drained>>
  BY DEF SeekFound
<1>3. /\ c \in Nat /\ cursor <= c /\ c < BufLen
      /\ drained \in Nat /\ cursor \in Nat /\ consumed \in Nat /\ pushed \in Nat
      /\ consumed = drained + cursor
  BY <1>1, <1>2, CandidatesWithin DEF IInv, TypeOK, InBounds
<1> DEFINE sync == drained + c
           subs == At(c).subs
<1>4. sync \in Nat /\ consumed <= sync /\ sync < pushed
  BY <1>3 DEF BufLen
<1>5. PICK first \in consumed..sync :
        LET fragment == first - consumed
            lead     == HopsFrom(consumed, first)
            whole    == fragment > 0 /\ first \in lead
            lost     == IF whole THEN 0 ELSE fragment
            guess    == lost > 0 /\ (Damaged \/ lost > MaxAuLen)
            from     == consumed + lost
            ends     == ((IF whole THEN lead ELSE {}) \cup HopsFrom(first, sync))
                            \ {from}
            number   == ordinal + IF guess THEN Larger(1, Estimate(lost)) ELSE 0
        IN  /\ IsLeast(first, ChainStarts(consumed, sync, subs) \cup {sync})
            /\ substreams' = subs
            /\ \/ /\ from = sync
                  /\ Report("Au", from, At(c).len, number, TRUE, lost)
                  /\ queued' = {}
               \/ \E end \in ends :
                     /\ from < sync /\ IsLeast(end, ends)
                     /\ Report("Skipped", from, end - from, number, FALSE, lost)
                     /\ queued' = ends \ {end}
  BY <1>1, Zenon DEF Resync
<1> DEFINE fragment == first - consumed
           lead     == HopsFrom(consumed, first)
           whole    == fragment > 0 /\ first \in lead
           lost     == IF whole THEN 0 ELSE fragment
           guess    == lost > 0 /\ (Damaged \/ lost > MaxAuLen)
           from     == consumed + lost
           ends     == ((IF whole THEN lead ELSE {}) \cup HopsFrom(first, sync))
                            \ {from}
           number   == ordinal + IF guess THEN Larger(1, Estimate(lost)) ELSE 0
<1>6. \/ /\ from = sync
         /\ Report("Au", from, At(c).len, number, TRUE, lost)
         /\ queued' = {}
      \/ \E end \in ends :
            /\ from < sync /\ IsLeast(end, ends)
            /\ Report("Skipped", from, end - from, number, FALSE, lost)
            /\ queued' = ends \ {end}
  BY <1>5, Zenon
<1>7. /\ first \in ChainStarts(consumed, sync, subs) \cup {sync} /\ substreams' = subs
      /\ first \in consumed..sync
  BY <1>5, Zenon DEF IsLeast
<1>8. /\ whole \in BOOLEAN /\ (whole => first \in lead)
      /\ from = IF whole THEN consumed ELSE first
      /\ lost \in Nat
  <2>1. first \in Nat /\ first - consumed \in Nat /\ consumed + (first - consumed) = first
        /\ consumed + 0 = consumed /\ 0 \in Nat
    BY <1>3, <1>4, <1>7
  <2>2. QED BY <2>1, Zenon
<1>9. \A q \in consumed..sync - 1 : Header(q).len \in Nat
  <2>1. ASSUME NEW q \in consumed..sync - 1 PROVE Header(q).len \in Nat
    <3>1. q \in Nat /\ q < pushed
      BY <1>3, <1>4
    <3>2. QED BY <3>1, PushedType, Zenon
  <2>2. QED BY <2>1
<1>10. /\ Header(sync) = At(c) /\ At(c).sync
       /\ Proven(sync) /\ Header(sync).subs = subs
  <2>1. Header(sync) = At(c)
    BY Zenon DEF At
  <2>2. At(c).sync
    BY <1>1, Zenon DEF SyncCandidates
  <2>3. sync - drained = c
    BY <1>3
  <2>4. Header(sync).len \in Nat
    BY <1>4, PushedType, Zenon
  <2> HIDE DEF sync
  <2>5. Proven(sync)
    BY <1>1, <1>3, <1>4, <2>3, <2>4, ProvenAt, Zenon
  <2>6. QED BY <2>1, <2>2, <2>5, Zenon
<1> HIDE DEF sync, subs, fragment, lead, whole, lost, guess, from, ends, number
<1>11. CASE /\ from = sync
            /\ Report("Au", from, At(c).len, number, TRUE, lost)
            /\ queued' = {}
  <2>1. last' = [kind |-> "Au", offset |-> from, len |-> At(c).len,
                 ordinal |-> number, major |-> TRUE]
    BY <1>11, Zenon DEF Report
  <2>2. last'.kind = "Au" /\ last'.major = TRUE
    BY <2>1
  <2>3. QED BY <1>11, <2>2, Zenon
<1>12. ASSUME NEW end \in ends, from < sync, IsLeast(end, ends),
              Report("Skipped", from, end - from, number, FALSE, lost),
              queued' = ends \ {end}
       PROVE  last'.kind = "Skipped" /\ Leading'
  <2>1. last'.kind = "Skipped"
    BY <1>12 DEF Report
  <2>2. PathOnto(ends, sync)
    <3>1. ends = Between(consumed, first, sync, whole)
      BY <1>8, Zenon DEF ends, lead, Between
    <3>2. whole => first \in HopsFrom(consumed, first)
      BY <1>8, Zenon DEF lead
    <3>3. consumed \in Nat /\ sync \in Nat /\ first \in consumed..sync /\ from < sync
      BY <1>3, <1>4, <1>7, <1>12
    <3>4. first \in ChainStarts(consumed, sync, subs) \cup {sync} /\ whole \in BOOLEAN
      BY <1>7, <1>8
    <3>5. (IF whole THEN consumed ELSE first) < sync
      BY <1>8, <3>3, Zenon
    <3>6. QED BY <1>9, <3>1, <3>2, <3>3, <3>4, <3>5, RecoveredPath, Zenon
  <2>3. end \in Nat /\ from \in Nat /\ consumed \in Nat /\ from = consumed + lost
    <3>1. from = consumed + lost
      BY Zenon DEF from
    <3>2. end \in Nat
      BY <1>12, <2>2, Zenon DEF PathOnto
    <3>3. QED BY <1>3, <1>8, <3>1, <3>2
  <2>4. consumed' = end
    <3>1. consumed' = consumed + lost + (end - from)
      BY <1>12, Zenon DEF Report
    <3>2. QED BY <1>8, <2>3, <3>1
  <2>5. {consumed'} \cup queued' = ends
    BY <1>12, <2>4, Zenon
  <2>6. ASSUME NEW p \in ends
        PROVE  /\ Header(p)' = Header(p) /\ Proven(p)' = Proven(p)
               /\ Later(p)' = {e \in ends : e > p}
    <3>1. end \in Nat /\ p \in Nat /\ end <= p
      BY <1>12, <2>2, Zenon DEF IsLeast, PathOnto
    <3>2. ~(end > p)
      BY <3>1
    <3>3. Later(p)' = {e \in ends : e > p}
      BY <1>12, <3>2, Zenon DEF Later
    <3>4. QED BY <1>2, <3>3, Zenon DEF Header, Proven
  <2>7. ASSUME NEW p \in ends
        PROVE  (IF Later(p) = {}
                THEN Proven(p) /\ Header(p).sync /\ Header(p).subs = substreams
                ELSE IsLeast(p + Header(p).len, Later(p)))'
    <3>1. ASSUME NEW q \in ends, q < sync PROVE Header(q).len \in Nat
      <4>1. q \in Nat /\ q < pushed
        <5>1. q \in Nat /\ sync \in Nat /\ pushed \in Nat /\ sync < pushed
          BY <1>3, <1>4, <2>2, Zenon DEF PathOnto
        <5>2. QED BY <3>1, <5>1
      <4>2. QED BY <4>1, PushedType, Zenon
    <3>2. IF p = sync THEN Later(p)' = {}
          ELSE Later(p)' # {} /\ IsLeast(p + Header(p).len, Later(p)')
      <4>1. \A q \in ends : q < sync => Header(q).len \in Nat
        BY <3>1, Zenon
      <4>2. LeadsIn(ends, p, sync)
        BY <2>2, <4>1, PathLeads, Zenon
      <4>3. QED BY <2>6, <4>2, Zenon DEF LeadsIn
    <3>3. CASE p = sync
      <4>1. Proven(p)' /\ (Header(p).sync)' /\ (Header(p).subs = substreams)' /\ Later(p)' = {}
        BY <1>7, <1>10, <2>6, <3>2, <3>3, Zenon
      <4>2. QED BY <4>1, Zenon
    <3>4. CASE p # sync
      <4>1. Later(p)' # {} /\ IsLeast(p + Header(p)'.len, Later(p)')
        BY <2>6, <3>2, <3>4, Zenon
      <4>2. QED BY <4>1, Zenon DEF IsLeast
    <3>5. QED BY <3>3, <3>4, Zenon
  <2>8. Leading'
    BY <2>5, <2>7, Zenon DEF Leading
  <2>9. QED BY <2>1, <2>8
<1>13. QED BY <1>6, <1>11, <1>12, Zenon

-----------------------------------------------------------------------------
(* The theorem.                                                            *)

LInv == IInv /\ (queued # {} \/ last.kind = "Skipped" => Leading)

LEMMA LeadingKept == LInv /\ [Next]_vars => LInv'
<1> SUFFICES ASSUME LInv, [Next]_vars PROVE LInv'
  OBVIOUS
<1>1. IInv /\ IInv'
  BY StepKept DEF LInv
<1>2. ASSUME queued' = {}, last'.kind # "Skipped" PROVE LInv'
  BY <1>1, <1>2, Zenon DEF LInv
<1>3. Fresh.kind # "Skipped" /\ NeedData.kind # "Skipped" /\ "Au" # "Skipped"
  BY DEF Fresh, NeedData
<1>4. CASE \E n \in 1..Len(stream.bytes) : Push(n)
  <2>1. PICK n \in 1..Len(stream.bytes) : Push(n)
    BY <1>4
  <2>2. n \in Nat
    BY SMT
  <2>3. queued' = queued /\ last' = Fresh
    BY <2>1, Zenon DEF Push
  <2>4. CASE queued = {}
    BY <1>2, <1>3, <2>3, <2>4, Zenon
  <2>5. CASE queued # {}
    BY <1>1, <2>1, <2>2, <2>5, PushLeads, Zenon DEF LInv
  <2>6. QED BY <2>4, <2>5
<1>5. CASE NextQueued
  <2>1. queued # {}
    BY <1>5 DEF NextQueued
  <2>2. QED BY <1>1, <1>5, <2>1, NextQueuedLeads, Zenon DEF LInv
<1>6. CASE NextLocked
  <2>1. queued' = {}
    BY <1>6 DEF NextLocked
  <2>2. last'.kind = "Au"
    BY <1>6 DEF NextLocked, Report
  <2>3. QED BY <1>2, <1>3, <2>1, <2>2
<1>7. CASE NextStarved
  <2>1. queued' = {} /\ last' = NeedData
    BY <1>7, Zenon DEF NextStarved
  <2>2. QED BY <1>2, <1>3, <2>1
<1>8. CASE SeekNothing
  <2>1. queued' = {} /\ last' = NeedData
    BY <1>8, Zenon DEF SeekNothing, Searching
  <2>2. QED BY <1>2, <1>3, <2>1
<1>9. CASE SeekUndecided
  <2>1. queued' = {} /\ last' = NeedData
    BY <1>9, Zenon DEF SeekUndecided, Searching
  <2>2. QED BY <1>2, <1>3, <2>1
<1>10. CASE SeekFound
  <2>1. CASE last'.kind = "Au" /\ queued' = {}
    BY <1>2, <1>3, <2>1
  <2>2. CASE Leading'
    BY <1>1, <2>2, Zenon DEF LInv
  <2>3. QED BY <1>1, <1>10, <2>1, <2>2, ResyncLeads, Zenon
<1>11. CASE Reset
  <2>1. queued' = {} /\ last' = Fresh
    BY <1>11, Zenon DEF Reset, ClearBuffer
  <2>2. QED BY <1>2, <1>3, <2>1
<1>12. CASE UNCHANGED vars
  <2>1. UNCHANGED <<stream, pushed, consumed, queued, substreams, last>>
    BY <1>12, Zenon DEF vars
  <2>2. Leading => Leading'
    BY <2>1, LeadingStays, Zenon
  <2>3. QED BY <1>1, <2>1, <2>2, Zenon DEF LInv
<1>13. QED
  BY <1>4, <1>5, <1>6, <1>7, <1>8, <1>9, <1>10, <1>11, <1>12, Zenon DEF Next, NextCall

\* The access units recovered by chaining back are what the length fields say,
\* and behind the last of them stands a major sync that passes its checks
\* (framer.rs:326-406).
THEOREM SkipsLead == Spec => []SkipsLeadToSync
<1>1. Init => LInv
  <2>1. ASSUME Init PROVE queued = {} /\ last.kind # "Skipped"
    BY <2>1 DEF Init, Fresh
  <2>2. QED BY <2>1, InitHolds, Zenon DEF LInv
<1>2. LInv /\ [Next]_vars => LInv'
  BY LeadingKept
<1>3. LInv => SkipsLeadToSync
  BY LeadingLeads, Zenon DEF LInv, SkipsLeadToSync
<1>4. QED BY <1>1, <1>2, <1>3, PTL DEF Spec

-----------------------------------------------------------------------------
(* Numbers are exact, on streams whose damage shows.                       *)

Before(o) == {x \in stream.starts : x < o}

\* While nothing is flagged the next number is that of the access unit at the
\* cursor, if one passes there, and what is queued are all the next ones.
Exact ==
    ~estimated =>
        /\ ordinal = Cardinality(Before(consumed))
        /\ IF state = "Locked" \/ afterDamage
           THEN NotMistaken(stream, consumed)
           ELSE consumed = 0
        /\ queued # {} => consumed \in stream.starts
        /\ queued \subseteq stream.starts
        /\ \A e \in queued, x \in stream.starts : consumed < x /\ x < e => x \in queued

LEMMA StartsType ==
    ASSUME stream \in Streams
    PROVE  stream.starts \subseteq Nat /\ Len(stream.bytes) \in Nat
<1>1. stream.bytes \in Seq(Reading) /\ stream.starts \subseteq Nat
  BY StreamsAreReadings
<1>2. Len(stream.bytes) \in Nat
  BY <1>1
<1>3. QED BY <1>1, <1>2

\* From one access unit to the next the count goes up by one.
LEMMA CountNext ==
    ASSUME stream \in Streams, NEW o \in stream.starts, NEW e \in Nat, o < e,
           NoneBefore(stream, o, e)
    PROVE  Cardinality(Before(e)) = Cardinality(Before(o)) + 1
<1>1. stream.starts \subseteq Nat /\ o \in Nat
  BY StartsType
<1>2. \A x \in stream.starts : x < e <=> (x < o \/ x = o)
  BY <1>1 DEF NoneBefore
<1>3. Before(e) = Before(o) \cup {o} /\ o \notin Before(o)
  BY <1>1, <1>2 DEF Before
<1>4. IsFiniteSet(Before(o))
  <2>1. Before(o) \subseteq 0..o - 1
    BY <1>1 DEF Before
  <2>2. IsFiniteSet(0..o - 1)
    BY <1>1, FS_Interval
  <2>3. QED BY <2>1, <2>2, FS_Subset, Zenon
<1>5. QED BY <1>3, <1>4, FS_AddElement, Zenon

LEMMA CountNone ==
    ASSUME stream \in Streams
    PROVE  Before(0) = {} /\ Cardinality({}) = 0
<1>1. stream.starts \subseteq Nat
  BY StartsType
<1>2. Before(0) = {}
  BY <1>1 DEF Before
<1>3. QED BY <1>2, FS_EmptySet

LEMMA PassedOn ==
    ASSUME DamageShows, stream \in Streams, NEW o \in stream.starts, o < Len(stream.bytes),
           NEW k \in SubstreamCounts, Passing(Header(o), k)
    PROVE  /\ NotMistaken(stream, o + Header(o).len)
           /\ NoneBefore(stream, o, o + Header(o).len)
  BY Zenon DEF DamageShows, Header

LEMMA LinkPasses ==
    ASSUME NEW p, NEW sync, NEW subs, Link(p, sync, subs)
    PROVE  Passing(Header(p), subs)
  BY Zenon DEF Link, Passing

LEMMA ProvesPasses ==
    ASSUME NEW o, NEW k, Proves(stream, o), Header(o).len \in Nat
    PROVE  Passing(Header(o), k)
<1>1. Header(o).sync /\ Header(o).len > MsiEnd /\ Header(o).subs \in Header(o).pass
  BY Zenon DEF Proves, Header
<1>2. Header(o).len >= MinAuLen
  BY <1>1, FramerConstants
<1>3. QED BY <1>1, <1>2, Zenon DEF Passing

\* From an access unit that chains onto a major sync length fields lead from one
\* access unit to the next.
LEMMA HopsStart ==
    ASSUME DamageShows, stream \in Streams, NEW from \in Nat, NEW sync \in Nat,
           from <= sync, sync < Len(stream.bytes), NEW subs \in SubstreamCounts,
           \A q \in from..sync - 1 : Header(q).len \in Nat,
           NEW first \in ChainStarts(from, sync, subs) \cup {sync},
           first \in stream.starts, sync \in stream.starts
    PROVE  \A h \in HopsFrom(first, sync) :
               /\ h \in stream.starts
               /\ h < sync => NoneBefore(stream, h, h + Header(h).len)
<1> DEFINE H == HopsFrom(first, sync)
           G == ChainStarts(from, sync, subs)
<1>1. /\ first \in Nat /\ from <= first /\ first <= sync
      /\ \A h \in H : h \in Nat /\ h <= sync
  BY ChainWithin, HopsWithin, SMT
<1>2. H \subseteq G \cup {sync}
  BY HopsInChain, Zenon
<1>3. \A h \in H : h # sync => Passing(Header(h), subs)
  <2>1. ASSUME NEW h \in H, h # sync PROVE Passing(Header(h), subs)
    <3>1. h \in G /\ h \in from..sync - 1
      BY <1>2, <2>1, ChainWithin, Zenon
    <3>2. QED BY <3>1, ChainUnfold, LinkPasses, Zenon
  <2>2. QED BY <2>1, Zenon
<1>4. ASSUME NEW h \in H, h \in stream.starts, h < sync
      PROVE  /\ NotMistaken(stream, h + Header(h).len)
             /\ NoneBefore(stream, h, h + Header(h).len)
  <2>1. h # sync /\ h < Len(stream.bytes)
    <3>1. h \in Nat /\ Len(stream.bytes) \in Nat
      BY <1>1, StartsType, Zenon
    <3>2. QED BY <1>4, <3>1
  <2>2. QED BY <1>3, <1>4, <2>1, PassedOn, Zenon
<1>5. H \subseteq stream.starts
  <2> SUFFICES ASSUME H \ stream.starts # {} PROVE FALSE
    BY Zenon
  <2>1. H \ stream.starts \subseteq Nat
    BY <1>1, Zenon
  <2>2. PICK p \in H \ stream.starts : \A x \in H \ stream.starts : p <= x
    BY <2>1, LeastNumber, Zenon
  <2>3. p \in first..sync /\ p # first /\ p # sync /\ p \in Nat
    BY <1>1, <2>2, HopsWithin, Zenon
  <2>4. PICK q \in first..p - 1 : Hop(q, p) /\ q \in H
    BY <1>1, <2>2, <2>3, HopsUnfold, Zenon
  <2>5. q \in Nat /\ q < p /\ q < sync /\ p < Len(stream.bytes)
    <3>1. Len(stream.bytes) \in Nat
      BY StartsType
    <3>2. QED BY <1>1, <2>3, <2>4, <3>1
  <2>6. q \in stream.starts
    <3>1. ~(p <= q)
      BY <2>3, <2>5
    <3>2. QED BY <2>2, <2>4, <3>1, Zenon
  <2>7. NotMistaken(stream, p)
    BY <1>4, <2>4, <2>5, <2>6, Zenon DEF Hop
  <2>8. Passing(stream.bytes[p + 1], subs)
    BY <1>3, <2>2, <2>3, Zenon DEF Header
  <2>9. p \in stream.starts
    BY <2>5, <2>7, <2>8, Zenon DEF NotMistaken
  <2>10. QED BY <2>2, <2>9, Zenon
<1>6. QED BY <1>4, <1>5, Zenon

\* And there are no others up to the major sync.
LEMMA StartsAreHops ==
    ASSUME DamageShows, stream \in Streams, NEW from \in Nat, NEW sync \in Nat,
           from <= sync, sync < Len(stream.bytes), NEW subs \in SubstreamCounts,
           \A q \in from..sync - 1 : Header(q).len \in Nat,
           NEW first \in ChainStarts(from, sync, subs) \cup {sync},
           first \in stream.starts, sync \in stream.starts,
           NEW x \in stream.starts, first <= x, x <= sync
    PROVE  x \in HopsFrom(first, sync)
<1> DEFINE H == HopsFrom(first, sync)
           T == {h \in H : h <= x}
<1>1. /\ first \in Nat /\ from <= first /\ first <= sync /\ x \in Nat
      /\ \A h \in H : h \in Nat /\ h <= sync /\ first <= h
  BY ChainWithin, HopsWithin, StartsType, SMT
<1>2. first \in T
  <2>1. first \in first..sync
    BY <1>1
  <2>2. first \in H
    BY <1>1, <2>1, HopsUnfold, Zenon
  <2>3. QED BY <2>2
<1>3. T \subseteq 0..x
  BY <1>1
<1>4. PICK h \in T : \A y \in T : y <= h
  <2> HIDE DEF T
  <2>1. T # {}
    BY <1>2, Zenon
  <2>2. QED BY <1>1, <1>3, <2>1, GreatestNumber, Zenon
<1>5. h \in H /\ h <= x /\ h \in Nat
  BY <1>1, <1>4, Zenon
<1>6. CASE h # x
  <2>1. h < x /\ h < sync
    BY <1>1, <1>5, <1>6
  <2>2. sync \in H
    BY ChainReaches, Zenon
  <2>3. \A q \in first..sync - 1 : Header(q).len \in Nat
    <3>1. ASSUME NEW q \in first..sync - 1 PROVE q \in from..sync - 1
      BY <1>1
    <3>2. QED BY <3>1, Zenon
  <2>4. Header(h).len >= MinAuLen /\ h + Header(h).len \in H /\ Header(h).len \in Nat
    <3>1. h \in first..sync - 1
      BY <1>1, <1>5, <2>1
    <3>2. QED BY <1>1, <1>5, <2>1, <2>2, <2>3, <3>1, HopsApart, Zenon
  <2>5. NoneBefore(stream, h, h + Header(h).len)
    BY <1>5, <2>1, HopsStart, Zenon
  <2>6. h + Header(h).len <= x
    BY <2>1, <2>5, Zenon DEF NoneBefore
  <2>7. h + Header(h).len <= h
    BY <1>4, <2>4, <2>6, Zenon
  <2>8. QED BY <1>5, <2>4, <2>7, FramerConstants
<1>7. QED BY <1>5, <1>6, Zenon

\* Before anything was framed, chaining back from the first major sync that checks
\* finds the first access unit, or one that length fields lead to from the start.
LEMMA FrontFound ==
    ASSUME DamageShows, stream \in Streams, NEW sync \in Nat, sync < Len(stream.bytes),
           Proves(stream, sync), \A o \in 0..sync - 1 : ~Proves(stream, o),
           \A q \in 0..sync - 1 : Header(q).len \in Nat,
           NEW first, IsLeast(first, ChainStarts(0, sync, Header(sync).subs) \cup {sync})
    PROVE  /\ first \in stream.starts /\ first \in 0..sync
           /\ \/ Before(first) = {}
              \/ first > 0 /\ first \in HopsFrom(0, first)
<1> DEFINE subs   == Header(sync).subs
           G      == ChainStarts(0, sync, subs)
           before == {p \in stream.starts : p < sync}
<1>1. stream.starts \subseteq Nat /\ Len(stream.bytes) \in Nat
  BY StartsType
<1>2. sync \in stream.starts /\ Opens(stream, sync)
  <2>1. sync \in 0..Len(stream.bytes) - 1
    BY <1>1
  <2>2. QED BY <2>1, Zenon DEF DamageShows
<1>3. G \in SUBSET (0..sync - 1)
  BY ChainWithin, Zenon
<1>4. \A p \in 0..sync - 1 :
          p \in G <=> Link(p, sync, subs) /\ (p + Header(p).len < sync => p + Header(p).len \in G)
  BY ChainUnfold, Zenon
<1>5. \A p : LinkIn(stream, p, sync, subs) <=> Link(p, sync, subs)
  BY Zenon DEF LinkIn, Link, Header
<1>6. ChainIn(stream, G, sync, subs)
  BY <1>3, <1>4, <1>5, Zenon DEF ChainIn, Header
<1>7. /\ \A p \in before : Leads(stream, p)
      /\ \/ \A p \in before : Link(p, sync, subs)
         \/ 0 \in stream.starts /\ G \subseteq stream.starts
  BY <1>2, <1>3, <1>5, <1>6, Zenon DEF Opens, Header
<1>8. /\ first \in G \cup {sync} /\ \A y \in G \cup {sync} : first <= y
      /\ first \in Nat /\ first <= sync
  <2>1. first \in G \cup {sync} /\ \A y \in G \cup {sync} : first <= y
    BY Zenon DEF IsLeast
  <2> HIDE DEF G
  <2>2. QED BY <1>3, <2>1
<1>9. \A p \in before : /\ p \in Nat /\ p \in 0..sync - 1 /\ Header(p).len \in Nat
                        /\ Header(p).len > 0 /\ p + Header(p).len \in stream.starts
                        /\ p + Header(p).len \in Nat /\ p + Header(p).len <= sync
                        /\ \A x \in stream.starts : p < x => p + Header(p).len <= x
  <2>1. ASSUME NEW p \in before
        PROVE  /\ p \in Nat /\ p \in 0..sync - 1 /\ Header(p).len \in Nat
               /\ Header(p).len > 0 /\ p + Header(p).len \in stream.starts
               /\ p + Header(p).len \in Nat /\ p + Header(p).len <= sync
               /\ \A x \in stream.starts : p < x => p + Header(p).len <= x
    <3>1. p \in Nat /\ p \in 0..sync - 1 /\ p < sync
      BY <1>1
    <3>2. Header(p).len \in Nat
      BY <3>1
    <3>3. /\ Header(p).len >= MinAuLen /\ p + Header(p).len \in stream.starts
          /\ \A x \in stream.starts : p < x => p + Header(p).len <= x
      BY <1>7, Zenon DEF Leads, NoneBefore, Header
    <3>4. Header(p).len > 0 /\ p + Header(p).len \in Nat
      BY <3>1, <3>2, <3>3, FramerConstants
    <3>5. p + Header(p).len <= sync
      BY <1>2, <3>1, <3>3, Zenon
    <3>6. QED BY <3>1, <3>2, <3>3, <3>4, <3>5, Zenon
  <2>2. QED BY <2>1, Zenon
<1> HIDE DEF G, subs
<1>10. CASE \A p \in before : Link(p, sync, subs)
  <2>1. before \subseteq G
    <3> SUFFICES ASSUME before \ G # {} PROVE FALSE
      BY Zenon
    <3>1. before \ G \subseteq 0..sync
      BY <1>9
    <3>2. PICK p \in before \ G : \A x \in before \ G : x <= p
      BY <3>1, GreatestNumber, Zenon
    <3>3. /\ p \in Nat /\ Header(p).len \in Nat /\ Header(p).len > 0
          /\ p + Header(p).len \in stream.starts /\ p \in 0..sync - 1
      BY <1>9, <3>2, Zenon
    <3>4. ~(p + Header(p).len <= p)
      BY <3>3
    <3>5. p + Header(p).len < sync => p + Header(p).len \in G
      BY <3>2, <3>3, <3>4, Zenon
    <3>6. p \in G
      BY <1>4, <1>10, <3>2, <3>3, <3>5, Zenon
    <3>7. QED BY <3>2, <3>6, Zenon
  <2>2. \E x \in stream.starts : x <= first
    <3>1. CASE first = sync
      BY <1>2, <1>8, <3>1
    <3>2. CASE first \in G
      BY <1>2, <1>3, <1>6, <3>2, Zenon DEF Opens, subs, Header
    <3>3. QED BY <1>8, <3>1, <3>2, Zenon
  <2>3. \A x \in stream.starts : first <= x
    <3>1. ASSUME NEW x \in stream.starts PROVE first <= x
      <4>1. x < sync \/ ~(x < sync)
        OBVIOUS
      <4>2. CASE x < sync
        BY <1>8, <2>1, <4>2, Zenon
      <4>3. CASE ~(x < sync)
        BY <1>1, <1>8, <4>3
      <4>4. QED BY <4>1, <4>2, <4>3
    <3>2. QED BY <3>1
  <2>4. first \in stream.starts
    <3>1. PICK x \in stream.starts : x <= first
      BY <2>2
    <3>2. first <= x /\ x \in Nat
      BY <1>1, <2>3, Zenon
    <3>3. x = first
      BY <1>8, <3>1, <3>2
    <3>4. QED BY <3>3, Zenon
  <2>5. Before(first) = {}
    <3>1. ASSUME NEW x \in stream.starts, x < first PROVE FALSE
      <4>1. first <= x /\ x \in Nat
        BY <1>1, <2>3, Zenon
      <4>2. QED BY <1>8, <3>1, <4>1
    <3>2. QED BY <3>1, Zenon DEF Before
  <2>6. first \in 0..sync
    BY <1>8
  <2>7. QED BY <2>4, <2>5, <2>6, Zenon
<1>11. CASE 0 \in stream.starts /\ G \subseteq stream.starts
  <2>1. first \in stream.starts /\ first \in 0..sync
    BY <1>2, <1>8, <1>11
  <2>2. CASE first = 0
    <3>1. Before(first) = {}
      BY <2>2, CountNone, Zenon
    <3>2. QED BY <2>1, <3>1, Zenon
  <2>3. CASE first # 0
    <3> DEFINE H == HopsFrom(0, first)
               T == {x \in stream.starts : x <= first /\ x \notin H}
    <3>1. first > 0 /\ 0 \in 0..first /\ 0 \in Nat /\ 0 <= first
      BY <1>8, <2>3
    <3>2. 0 \in H
      BY <1>8, <3>1, HopsUnfold, Zenon
    <3>3. T = {}
      <4> SUFFICES ASSUME T # {} PROVE FALSE
        BY Zenon
      <4>1. PICK x \in T : \A y \in T : x <= y
        BY <1>1, LeastNumber, Zenon
      <4>2. x \in stream.starts /\ x \in Nat /\ x <= first /\ x \notin H
        BY <1>1, <4>1, Zenon
      <4>3. x # 0 /\ x > 0
        <5>1. x # 0
          BY <3>2, <4>2, Zenon
        <5>2. QED BY <4>2, <5>1
      <4> DEFINE W == {y \in stream.starts : y < x}
      <4>4. W \subseteq 0..x /\ 0 \in W
        BY <1>1, <1>11, <4>2, <4>3
      <4>5. PICK w \in W : \A y \in W : y <= w
        <5> HIDE DEF W
        <5>1. QED BY <4>2, <4>4, GreatestNumber, Zenon
      <4>6. w \in stream.starts /\ w < x /\ w \in Nat
        BY <1>1, <4>5, Zenon
      <4>7. w <= first /\ w < sync /\ ~(x <= w)
        BY <1>8, <4>2, <4>6
      <4>8. w \in H
        BY <4>1, <4>6, <4>7, Zenon
      <4>9. /\ Header(w).len \in Nat /\ Header(w).len > 0
            /\ w + Header(w).len \in stream.starts /\ w + Header(w).len <= x
            /\ w + Header(w).len \in Nat
        BY <1>9, <4>2, <4>6, <4>7, Zenon
      <4>10. w + Header(w).len = x
        <5>1. ~(w + Header(w).len <= w)
          BY <4>6, <4>9
        <5>2. ~(w + Header(w).len < x)
          BY <4>5, <4>9, <5>1, Zenon
        <5>3. QED BY <4>2, <4>9, <5>2
      <4>11. Hop(w, x)
        <5>1. Leads(stream, w)
          BY <1>7, <4>6, <4>7, Zenon
        <5>2. QED BY <4>10, <5>1, Zenon DEF Hop, Leads, Header
      <4>12. w \in 0..x - 1 /\ x \in 0..first
        BY <4>2, <4>6
      <4>13. x \in H
        BY <1>8, <3>1, <4>8, <4>11, <4>12, HopsUnfold, Zenon
      <4>14. QED BY <4>2, <4>13, Zenon
    <3>4. first \in H
      <4>1. first <= first
        BY <1>8
      <4>2. QED BY <2>1, <3>3, <4>1, Zenon
    <3>5. QED BY <2>1, <3>1, <3>4, Zenon
  <2>4. QED BY <2>2, <2>3
<1>12. QED BY <1>7, <1>10, <1>11, Zenon

-----------------------------------------------------------------------------
(* One lemma for each call that reports.                                   *)

\* An access unit that passes its checks at the cursor.
LEMMA LockedExact ==
    ASSUME IInv, DamageShows, Exact, NextLocked
    PROVE  Exact' /\ OrdinalsExact'
<1> SUFFICES ASSUME ~estimated'
             PROVE  Exact' /\ OrdinalsExact'
  BY Zenon DEF Exact, OrdinalsExact
<1>1. /\ queued = {} /\ queued' = {} /\ state = "Locked" /\ state' = "Locked"
      /\ AuValid(cursor) /\ stream' = stream /\ ~estimated
      /\ Report("Au", consumed, At(cursor).len, ordinal, At(cursor).sync, 0)
  BY Zenon DEF NextLocked
<1>2. /\ stream \in Streams /\ substreams \in SubstreamCounts
      /\ cursor \in Nat /\ drained \in Nat /\ consumed \in Nat /\ pushed \in Nat
      /\ ordinal \in Nat
      /\ consumed = drained + cursor /\ pushed <= Len(stream.bytes)
  BY DEF IInv, TypeOK, InBounds
<1>3. At(cursor) = Header(consumed)
  BY <1>2, Zenon DEF At
<1>4. Left(cursor) >= MinAuLen
  BY <1>1, Zenon DEF AuValid
<1>5. Len(stream.bytes) \in Nat /\ consumed < pushed /\ consumed < Len(stream.bytes)
  <2>1. Len(stream.bytes) \in Nat
    BY <1>2, StartsType
  <2>2. QED BY <1>2, <1>4, <2>1, FramerConstants DEF Left, BufLen
<1>6. Passing(Header(consumed), substreams)
  BY <1>1, <1>3, Zenon DEF AuValid, SyncProven, Passing
<1>7. consumed \in stream.starts
  BY <1>1, <1>2, <1>5, <1>6, Zenon DEF Exact, NotMistaken, Header
<1> DEFINE e == consumed + Header(consumed).len
<1>8. NotMistaken(stream, e) /\ NoneBefore(stream, consumed, e)
  BY <1>2, <1>5, <1>6, <1>7, PassedOn, Zenon
<1>9. Header(consumed).len \in Nat /\ e \in Nat /\ consumed < e
  <2>1. Header(consumed).len \in Nat
    BY <1>2, <1>5, PushedType, Zenon
  <2>2. Header(consumed).len >= MinAuLen
    BY <1>6, Zenon DEF Passing
  <2>3. QED BY <1>2, <2>1, <2>2, FramerConstants
<1> HIDE DEF e
<1>10. Cardinality(Before(e)) = Cardinality(Before(consumed)) + 1
  BY <1>2, <1>7, <1>8, <1>9, CountNext, Zenon
<1>11. ordinal = Cardinality(Before(consumed))
  BY <1>1, Zenon DEF Exact
<1>12. consumed' = e /\ ordinal' = ordinal + 1
  <2>1. consumed' = consumed + 0 + Header(consumed).len /\ ordinal' = ordinal + 1
    BY <1>1, <1>3, Zenon DEF Report
  <2>2. QED BY <1>2, <1>9, <2>1 DEF e
<1>13. \A o : Before(o)' = Before(o) /\ NotMistaken(stream, o)' = NotMistaken(stream, o)
  BY <1>1, Zenon DEF Before, NotMistaken, Passing
<1>14. Exact'
  <2>1. ordinal' = Cardinality(Before(consumed'))
    BY <1>10, <1>11, <1>12, Zenon
  <2>2. QED
    BY <1>1, <1>8, <1>12, <1>13, <2>1, Zenon DEF Exact, Before, NotMistaken, Passing
<1>15. last'.offset = consumed /\ last'.ordinal = ordinal
  BY <1>1 DEF Report
<1>16. OrdinalsExact'
  BY <1>1, <1>7, <1>11, <1>15, Zenon DEF OrdinalsExact, Before
<1>17. QED BY <1>14, <1>16

\* The next of those recovered.
LEMMA QueuedExact ==
    ASSUME IInv, Exact, NextQueued
    PROVE  Exact' /\ OrdinalsExact'
<1> SUFFICES ASSUME ~estimated'
             PROVE  Exact' /\ OrdinalsExact'
  BY Zenon DEF Exact, OrdinalsExact
<1>1. PICK end \in queued :
          /\ IsLeast(end, queued)
          /\ Report("Skipped", consumed, end - consumed, ordinal, FALSE, 0)
          /\ queued' = queued \ {end}
  BY DEF NextQueued
<1>2. UNCHANGED <<stream, state, estimated, afterDamage>>
  BY DEF NextQueued
<1>3. /\ stream \in Streams /\ consumed \in Nat /\ ordinal \in Nat
      /\ queued \subseteq Nat /\ end \in Nat /\ consumed < end
  BY <1>1 DEF IInv, TypeOK, InBounds
<1>4. /\ ordinal = Cardinality(Before(consumed)) /\ consumed \in stream.starts
      /\ queued \subseteq stream.starts
      /\ \A e \in queued, x \in stream.starts : consumed < x /\ x < e => x \in queued
  BY <1>1, <1>2, Zenon DEF Exact
<1>5. stream.starts \subseteq Nat
  BY <1>3, StartsType
<1>6. NoneBefore(stream, consumed, end)
  <2>1. ASSUME NEW x \in stream.starts, consumed < x PROVE end <= x
    <3>1. ~(x < end) => end <= x
      BY <1>3, <1>5
    <3>2. x < end => end <= x
      BY <1>1, <1>4, <2>1, Zenon DEF IsLeast
    <3>3. QED BY <3>1, <3>2
  <2>2. QED BY <2>1, Zenon DEF NoneBefore
<1>7. Cardinality(Before(end)) = Cardinality(Before(consumed)) + 1
  BY <1>3, <1>4, <1>6, CountNext, Zenon
<1>8. consumed' = end /\ ordinal' = ordinal + 1
  <2>1. consumed' = consumed + 0 + (end - consumed) /\ ordinal' = ordinal + 1
    BY <1>1, Zenon DEF Report
  <2>2. QED BY <1>3, <2>1
<1>9. \A o : Before(o)' = Before(o)
  BY <1>2, Zenon DEF Before
<1>10. end \in stream.starts /\ queued' \subseteq stream.starts
  BY <1>1, <1>4
<1>11. state' = "Locked"
  BY <1>1, <1>2 DEF IInv, TypeOK, SearchKnowsDamage
<1>12. \A e \in queued', x \in stream.starts : end < x /\ x < e => x \in queued'
  <2>1. ASSUME NEW e \in queued', NEW x \in stream.starts, end < x, x < e
        PROVE  x \in queued'
    <3>1. consumed < x /\ x # end /\ e \in queued
      BY <1>1, <1>3, <1>5, <2>1
    <3>2. QED BY <1>1, <1>4, <2>1, <3>1, Zenon
  <2>2. QED BY <2>1, Zenon
<1>13. Exact'
  <2>1. ordinal' = Cardinality(Before(consumed'))
    BY <1>4, <1>7, <1>8, Zenon
  <2>2. ordinal' = Cardinality(Before(consumed))'
    BY <1>2, <2>1, Zenon DEF Before
  <2>3. NotMistaken(stream, consumed)'
    BY <1>2, <1>8, <1>10, Zenon DEF NotMistaken
  <2>4. QED BY <1>2, <1>8, <1>10, <1>11, <1>12, <2>2, <2>3, Zenon DEF Exact
<1>14. last'.offset = consumed /\ last'.ordinal = ordinal
  BY <1>1 DEF Report
<1>15. OrdinalsExact'
  BY <1>2, <1>4, <1>14, Zenon DEF OrdinalsExact, Before
<1>16. QED BY <1>13, <1>15

\* What a search recovers without a guess begins with the access unit numbered next.
LEMMA FoundFrom ==
    ASSUME IInv, DamageShows, Scanned, Exact, ~estimated, Searching,
           NEW c \in SyncCandidates, IsLeast(c, SyncCandidates), SyncProven(c),
           NEW first,
           IsLeast(first, ChainStarts(consumed, drained + c, At(c).subs) \cup {drained + c}),
           ~(first - consumed > 0 /\ first \in HopsFrom(consumed, first)),
           first - consumed > 0 => ~Damaged
    PROVE  /\ first \in stream.starts /\ drained + c \in stream.starts
           /\ ordinal = Cardinality(Before(first))
<1> DEFINE sync == drained + c
           subs == At(c).subs
<1>1. /\ c \in Nat /\ cursor <= c /\ c < BufLen
      /\ drained \in Nat /\ cursor \in Nat /\ consumed \in Nat /\ pushed \in Nat
      /\ stream \in Streams /\ consumed = drained + cursor /\ pushed <= Len(stream.bytes)
  BY CandidatesWithin DEF IInv, TypeOK, InBounds
<1>2. /\ sync \in Nat /\ consumed <= sync /\ sync < pushed /\ sync < Len(stream.bytes)
      /\ sync \in 0..Len(stream.bytes) - 1
  <2>1. Len(stream.bytes) \in Nat
    BY <1>1, StartsType
  <2>2. QED BY <1>1, <2>1 DEF BufLen
<1>3. At(c) = Header(sync)
  BY Zenon DEF At
<1>4. \A q \in 0..sync : Header(q).len \in Nat
  <2>1. ASSUME NEW q \in 0..sync PROVE Header(q).len \in Nat
    <3>1. q \in Nat /\ q < pushed
      BY <1>1, <1>2
    <3>2. QED BY <3>1, PushedType, Zenon
  <2>2. QED BY <2>1
<1>5. Proves(stream, sync)
  BY <1>3, Zenon DEF SyncCandidates, SyncProven, Proves, Header
<1>6. sync \in stream.starts
  BY <1>1, <1>2, <1>5, Zenon DEF DamageShows
<1>7. ordinal = Cardinality(Before(consumed))
  BY Zenon DEF Exact
<1> HIDE DEF sync
<1>8. CASE Damaged
  <2>1. first \in Nat /\ consumed <= first /\ ~(first - consumed > 0)
    <3>1. first \in consumed..sync - 1 \/ first = sync
      BY ChainWithin, Zenon DEF IsLeast, sync
    <3>2. QED BY <1>1, <1>2, <1>8, <3>1
  <2>2. first = consumed
    BY <1>1, <2>1
  <2>3. first = sync \/ first \in stream.starts
    <3>1. CASE first \in ChainStarts(consumed, sync, subs)
      <4>1. first \in consumed..sync - 1 /\ \A q \in consumed..sync - 1 : Header(q).len \in Nat
        <5>1. \A q \in consumed..sync - 1 : q \in 0..sync
          BY <1>1, <1>2
        <5>2. QED BY <1>4, <3>1, <5>1, ChainWithin, Zenon
      <4>2. Link(first, sync, subs)
        BY <1>1, <1>2, <3>1, <4>1, ChainUnfold, Zenon
      <4>3. Passing(Header(first), subs)
        BY <4>2, LinkPasses, Zenon
      <4>4. subs \in SubstreamCounts
        <5>1. At(c) \in Reading
          BY <1>1, AtType, Zenon DEF IInv
        <5>2. QED BY <5>1 DEF Reading
      <4>5. NotMistaken(stream, consumed)
        <5>1. state = "Locked" \/ afterDamage
          BY <1>8 DEF Damaged, IInv, TypeOK
        <5>2. QED BY <5>1, Zenon DEF Exact
      <4>6. consumed < Len(stream.bytes)
        BY <1>1, <1>2, <2>2, <4>1
      <4>7. QED BY <2>2, <4>3, <4>4, <4>5, <4>6, Zenon DEF NotMistaken, Header
    <3>2. QED BY <3>1, Zenon DEF IsLeast, sync
  <2>4. QED BY <1>6, <1>7, <2>2, <2>3, Zenon DEF sync
<1>9. CASE ~Damaged
  <2>1. consumed = 0
    <3>1. state = "Seeking" /\ ~afterDamage
      BY <1>9, Zenon DEF Damaged
    <3>2. state # "Locked"
      BY <3>1
    <3>3. QED BY <3>1, <3>2, Zenon DEF Exact
  <2>2. \A o \in 0..sync - 1 : ~Proves(stream, o)
    <3>1. \A o \in consumed..drained + c - 1 : ~Proves(stream, o)
      BY LeastFirst, Zenon
    <3>2. drained + c - 1 = sync - 1
      BY <1>1 DEF sync
    <3>3. QED BY <2>1, <3>1, <3>2, Zenon
  <2>3. \A q \in 0..sync - 1 : Header(q).len \in Nat
    <3>1. \A q \in 0..sync - 1 : q \in 0..sync
      BY <1>2
    <3>2. QED BY <1>4, <3>1, Zenon
  <2>4. IsLeast(first, ChainStarts(0, sync, Header(sync).subs) \cup {sync})
    BY <1>3, <2>1, Zenon DEF sync
  <2>5. /\ first \in stream.starts /\ first \in 0..sync
        /\ \/ Before(first) = {}
           \/ first > 0 /\ first \in HopsFrom(0, first)
    BY <1>1, <1>2, <1>5, <2>2, <2>3, <2>4, FrontFound, Zenon
  <2>6. first > 0 => first - consumed > 0
    BY <1>2, <2>1, <2>5
  <2>7. Before(first) = {}
    BY <2>1, <2>5, <2>6, Zenon
  <2>8. Before(consumed) = {}
    BY <1>1, <2>1, CountNone, Zenon
  <2>9. QED BY <1>6, <1>7, <2>5, <2>7, <2>8, Zenon DEF sync
<1>10. QED BY <1>8, <1>9

\* The access units in front of a major sync that length fields lead onto it.
LEMMA FoundExact ==
    ASSUME IInv, DamageShows, Scanned, Exact, SeekFound
    PROVE  Exact' /\ OrdinalsExact'
<1> SUFFICES ASSUME ~estimated'
             PROVE  Exact' /\ OrdinalsExact'
  BY Zenon DEF Exact, OrdinalsExact
<1>1. PICK c \in SyncCandidates : IsLeast(c, SyncCandidates) /\ SyncProven(c) /\ Resync(c)
  BY DEF SeekFound
<1>2. Searching /\ state' = "Locked" /\ UNCHANGED <<stream, pushed, drained>>
  BY DEF SeekFound
<1>3. /\ c \in Nat /\ cursor <= c /\ c < BufLen
      /\ drained \in Nat /\ cursor \in Nat /\ consumed \in Nat /\ pushed \in Nat
      /\ ordinal \in Nat
      /\ stream \in Streams /\ consumed = drained + cursor /\ pushed <= Len(stream.bytes)
  BY <1>1, <1>2, CandidatesWithin DEF IInv, TypeOK, InBounds
<1> DEFINE sync == drained + c
           subs == At(c).subs
<1>4. /\ sync \in Nat /\ consumed <= sync /\ sync < pushed /\ sync < Len(stream.bytes)
  <2>1. Len(stream.bytes) \in Nat
    BY <1>3, StartsType
  <2>2. QED BY <1>3, <2>1 DEF BufLen
<1>5. PICK first \in consumed..sync :
        LET fragment == first - consumed
            lead     == HopsFrom(consumed, first)
            whole    == fragment > 0 /\ first \in lead
            lost     == IF whole THEN 0 ELSE fragment
            guess    == lost > 0 /\ (Damaged \/ lost > MaxAuLen)
            from     == consumed + lost
            ends     == ((IF whole THEN lead ELSE {}) \cup HopsFrom(first, sync))
                            \ {from}
            number   == ordinal + IF guess THEN Larger(1, Estimate(lost)) ELSE 0
        IN  /\ IsLeast(first, ChainStarts(consumed, sync, subs) \cup {sync})
            /\ estimated' = (estimated \/ whole \/ guess)
            /\ \/ /\ from = sync
                  /\ Report("Au", from, At(c).len, number, TRUE, lost)
                  /\ queued' = {}
               \/ \E end \in ends :
                     /\ from < sync /\ IsLeast(end, ends)
                     /\ Report("Skipped", from, end - from, number, FALSE, lost)
                     /\ queued' = ends \ {end}
  BY <1>1, Zenon DEF Resync
<1> DEFINE lost == first - consumed
           ends == HopsFrom(first, sync) \ {first}
<1>6. /\ ~estimated
      /\ ~(first - consumed > 0 /\ first \in HopsFrom(consumed, first))
      /\ ~(first - consumed > 0 /\ Damaged)
      /\ IsLeast(first, ChainStarts(consumed, sync, subs) \cup {sync})
  BY <1>5, Zenon
<1>7. /\ first \in Nat /\ consumed <= first /\ first <= sync
      /\ lost \in Nat /\ consumed + lost = first /\ ordinal + 0 = ordinal
  BY <1>3, <1>4
<1>8. \/ /\ first = sync
         /\ Report("Au", first, At(c).len, ordinal, TRUE, lost)
         /\ queued' = {}
      \/ \E end \in ends :
            /\ first < sync /\ IsLeast(end, ends)
            /\ Report("Skipped", first, end - first, ordinal, FALSE, lost)
            /\ queued' = ends \ {end}
  <2>1. {} \cup HopsFrom(first, sync) = HopsFrom(first, sync)
    OBVIOUS
  <2>2. QED BY <1>5, <1>6, <1>7, <2>1, Zenon
<1>9. first \in stream.starts /\ sync \in stream.starts /\ ordinal = Cardinality(Before(first))
  BY <1>1, <1>2, <1>6, FoundFrom, Zenon
<1>10. /\ subs \in SubstreamCounts /\ At(c) = Header(sync)
       /\ first \in ChainStarts(consumed, sync, subs) \cup {sync}
  <2>1. At(c) \in Reading
    BY <1>3, AtType, Zenon DEF IInv
  <2>2. subs \in SubstreamCounts
    BY <2>1 DEF Reading
  <2>3. QED BY <1>6, <2>2, Zenon DEF At, IsLeast
<1>11. \A q \in consumed..sync : Header(q).len \in Nat
  <2>1. ASSUME NEW q \in consumed..sync PROVE Header(q).len \in Nat
    <3>1. q \in Nat /\ q < pushed
      BY <1>3, <1>4
    <3>2. QED BY <3>1, PushedType, Zenon
  <2>2. QED BY <2>1
<1> HIDE DEF sync, subs, ends, lost
<1>12. CASE /\ first = sync
            /\ Report("Au", first, At(c).len, ordinal, TRUE, lost)
            /\ queued' = {}
  <2> DEFINE e == sync + Header(sync).len
  <2>1. Header(sync).len \in Nat /\ Proves(stream, sync)
    <3>1. sync \in consumed..sync
      BY <1>3, <1>4
    <3>2. Proves(stream, sync)
      BY <1>1, <1>10, Zenon DEF SyncCandidates, SyncProven, Proves, Header
    <3>3. QED BY <1>11, <3>1, <3>2, Zenon
  <2>2. Passing(Header(sync), subs)
    BY <2>1, ProvesPasses, Zenon
  <2>3. NotMistaken(stream, e) /\ NoneBefore(stream, sync, e)
    BY <1>3, <1>4, <1>9, <1>10, <2>2, PassedOn, Zenon
  <2>4. e \in Nat /\ sync < e
    <3>1. Header(sync).len >= MinAuLen
      BY <2>2, Zenon DEF Passing
    <3>2. QED BY <1>4, <2>1, <3>1, FramerConstants
  <2> HIDE DEF e
  <2>5. Cardinality(Before(e)) = Cardinality(Before(sync)) + 1
    BY <1>3, <1>9, <2>3, <2>4, CountNext, Zenon
  <2>6. consumed' = e /\ ordinal' = ordinal + 1
    <3>1. consumed' = consumed + lost + Header(sync).len /\ ordinal' = ordinal + 1
      BY <1>10, <1>12, Zenon DEF Report
    <3>2. consumed + lost = sync
      BY <1>7, <1>12, Zenon
    <3>3. QED BY <3>1, <3>2, Zenon DEF e
  <2>7. ordinal' = Cardinality(Before(consumed))'
    <3>1. ordinal' = Cardinality(Before(consumed'))
      BY <1>9, <1>12, <2>5, <2>6, Zenon
    <3>2. QED BY <1>2, <3>1, Zenon DEF Before
  <2>8. NotMistaken(stream, consumed)'
    BY <1>2, <2>3, <2>6, Zenon DEF NotMistaken, Passing
  <2>9. queued' = {} /\ queued' \subseteq stream'.starts
    BY <1>12
  <2>10. Exact'
    BY <1>2, <2>7, <2>8, <2>9, Zenon DEF Exact
  <2>11. last'.offset = first /\ last'.ordinal = ordinal
    BY <1>12 DEF Report
  <2>12. OrdinalsExact'
    BY <1>2, <1>9, <2>11, Zenon DEF OrdinalsExact, Before
  <2>13. QED BY <2>10, <2>12
<1>13. ASSUME NEW end \in ends, first < sync, IsLeast(end, ends),
              Report("Skipped", first, end - first, ordinal, FALSE, lost),
              queued' = ends \ {end}
       PROVE  Exact' /\ OrdinalsExact'
  <2>1. \A q \in consumed..sync - 1 : Header(q).len \in Nat
    <3>1. \A q \in consumed..sync - 1 : q \in consumed..sync
      BY <1>3, <1>4
    <3>2. QED BY <1>11, <3>1, Zenon
  <2>2. \A h \in HopsFrom(first, sync) : h \in stream.starts
    BY <1>3, <1>4, <1>9, <1>10, <2>1, HopsStart, Zenon
  <2>3. ends \subseteq stream.starts
    BY <2>2, Zenon DEF ends
  <2>4. \A h \in ends : h \in Nat /\ first < h /\ h <= sync
    <3>1. \A h \in ends : h \in first..sync /\ h # first
      BY HopsWithin, Zenon DEF ends
    <3>2. QED BY <1>4, <1>7, <3>1
  <2>5. stream.starts \subseteq Nat
    BY <1>3, StartsType
  <2>6. \A x \in stream.starts : first < x /\ x <= sync => x \in ends
    <3>1. ASSUME NEW x \in stream.starts, first < x, x <= sync PROVE x \in ends
      <4>1. first <= x /\ x # first
        BY <1>7, <2>5, <3>1
      <4>2. x \in HopsFrom(first, sync)
        BY <1>3, <1>4, <1>9, <1>10, <2>1, <3>1, <4>1, StartsAreHops, Zenon
      <4>3. QED BY <4>1, <4>2, Zenon DEF ends
    <3>2. QED BY <3>1, Zenon
  <2>7. NoneBefore(stream, first, end)
    <3>1. ASSUME NEW x \in stream.starts, first < x PROVE end <= x
      <4>1. x <= sync => end <= x
        BY <1>13, <2>6, <3>1, Zenon DEF IsLeast
      <4>2. ~(x <= sync) => end <= x
        BY <1>4, <2>4, <2>5
      <4>3. QED BY <4>1, <4>2
    <3>2. QED BY <3>1, Zenon DEF NoneBefore
  <2>8. end \in Nat /\ first < end /\ end \in stream.starts
    BY <2>3, <2>4
  <2>9. Cardinality(Before(end)) = Cardinality(Before(first)) + 1
    BY <1>3, <1>9, <2>7, <2>8, CountNext, Zenon
  <2>10. consumed' = end /\ ordinal' = ordinal + 1
    <3>1. consumed' = consumed + lost + (end - first) /\ ordinal' = ordinal + 1
      BY <1>13, Zenon DEF Report
    <3>2. QED BY <1>7, <2>8, <3>1
  <2>11. ordinal' = Cardinality(Before(consumed))'
    <3>1. ordinal' = Cardinality(Before(consumed'))
      BY <1>9, <2>9, <2>10, Zenon
    <3>2. QED BY <1>2, <3>1, Zenon DEF Before
  <2>12. NotMistaken(stream, consumed)'
    BY <1>2, <2>8, <2>10, Zenon DEF NotMistaken
  <2>13. queued' \subseteq stream.starts /\ consumed' \in stream'.starts
    BY <1>2, <1>13, <2>3, <2>8, <2>10
  <2>14. \A e \in queued', x \in stream.starts : end < x /\ x < e => x \in queued'
    <3>1. ASSUME NEW e \in queued', NEW x \in stream.starts, end < x, x < e
          PROVE  x \in queued'
      <4>1. e \in ends
        BY <1>13, <3>1
      <4>2. first < x /\ x <= sync /\ x # end
        BY <1>4, <1>7, <2>4, <2>5, <2>8, <3>1, <4>1
      <4>3. QED BY <1>13, <2>6, <4>2, Zenon
    <3>2. QED BY <3>1, Zenon
  <2>15. Exact'
    BY <1>2, <2>10, <2>11, <2>12, <2>13, <2>14, Zenon DEF Exact
  <2>16. last'.offset = first /\ last'.ordinal = ordinal
    BY <1>13 DEF Report
  <2>17. OrdinalsExact'
    BY <1>2, <1>9, <2>16, Zenon DEF OrdinalsExact, Before
  <2>18. QED BY <2>15, <2>17
<1>14. QED BY <1>8, <1>12, <1>13, Zenon

-----------------------------------------------------------------------------
(* A search that is not over, and the theorem.                             *)

\* The failed access unit, or the start of the stream, stays at the cursor.
LEMMA SearchExact ==
    ASSUME IInv, Exact, SeekNothing \/ SeekUndecided
    PROVE  Exact'
<1> SUFFICES ASSUME ~estimated' PROVE Exact'
  BY Zenon DEF Exact
<1>1. /\ Searching /\ state' = "Seeking" /\ afterDamage' = Damaged
      /\ UNCHANGED <<stream, consumed, queued, ordinal, estimated>>
  BY Zenon DEF SeekNothing, SeekUndecided
<1>2. queued = {}
  BY <1>1, SearchStart, Zenon
<1>3. /\ ordinal = Cardinality(Before(consumed))
      /\ IF state = "Locked" \/ afterDamage
         THEN NotMistaken(stream, consumed)
         ELSE consumed = 0
  BY <1>1, Zenon DEF Exact
<1>4. afterDamage' <=> state = "Locked" \/ afterDamage
  BY <1>1 DEF Damaged, IInv, TypeOK
<1>5. IF afterDamage' THEN NotMistaken(stream, consumed)' ELSE consumed' = 0
  BY <1>1, <1>3, <1>4, Zenon DEF NotMistaken, Passing
<1>6. ordinal' = Cardinality(Before(consumed))'
  BY <1>1, <1>3, Zenon DEF Before
<1>7. state' # "Locked"
  BY <1>1
<1>8. queued' = {} /\ queued' \subseteq stream'.starts
  BY <1>1, <1>2
<1>9. QED BY <1>5, <1>6, <1>7, <1>8, Zenon DEF Exact

LEMMA ExactSame ==
    ASSUME UNCHANGED <<stream, consumed, state, afterDamage, queued, ordinal, estimated>>, Exact
    PROVE  Exact'
  BY Zenon DEF Exact, Before, NotMistaken, Passing

\* Where nothing has been consumed nothing has been counted.
LEMMA ExactAtStart ==
    ASSUME stream \in Streams, consumed = 0, ordinal = 0, state = "Seeking",
           afterDamage = FALSE, queued = {}
    PROVE  Exact
<1>1. ordinal = Cardinality(Before(consumed))
  BY CountNone, Zenon
<1>2. state # "Locked" /\ queued \subseteq stream.starts
  OBVIOUS
<1>3. QED BY <1>1, <1>2, Zenon DEF Exact

AtStart ==
    /\ stream \in Streams /\ consumed = 0 /\ ordinal = 0
    /\ state = "Seeking" /\ afterDamage = FALSE /\ queued = {}

EInv == IInv /\ Scanned /\ Exact /\ OrdinalsExact

LEMMA ExactKept ==
    ASSUME DamageShows, EInv, [Next]_vars
    PROVE  OrdinalsExact' /\ (AtStart' \/ Exact')
<1> USE DEF EInv
<1>1. CASE \E n \in 1..Len(stream.bytes) : Push(n)
  <2>1. /\ UNCHANGED <<stream, consumed, state, afterDamage, queued, ordinal, estimated>>
        /\ last' = Fresh
    BY <1>1, Zenon DEF Push
  <2>2. ~Reported'
    BY <2>1 DEF Fresh, Reported
  <2>3. QED BY <2>1, <2>2, ExactSame, Zenon DEF OrdinalsExact
<1>2. CASE Reset
  <2>1. /\ stream' \in Streams /\ consumed' = 0 /\ ordinal' = 0
        /\ state' = "Seeking" /\ afterDamage' = FALSE /\ queued' = {}
        /\ last' = Fresh
    BY <1>2, StreamsAreReadings DEF Reset, ClearBuffer
  <2>2. ~Reported'
    BY <2>1 DEF Fresh, Reported
  <2>3. AtStart'
    BY <2>1 DEF AtStart
  <2>4. QED BY <2>2, <2>3, Zenon DEF OrdinalsExact
<1>3. CASE NextQueued
  BY <1>3, QueuedExact, Zenon
<1>4. CASE NextLocked
  BY <1>4, LockedExact, Zenon
<1>5. CASE NextStarved
  <2>1. /\ UNCHANGED <<stream, consumed, state, afterDamage, queued, ordinal, estimated>>
        /\ last' = NeedData
    BY <1>5, Zenon DEF NextStarved
  <2>2. ~Reported'
    BY <2>1 DEF NeedData, Reported
  <2>3. QED BY <2>1, <2>2, ExactSame, Zenon DEF OrdinalsExact
<1>6. CASE SeekNothing \/ SeekUndecided
  <2>1. Exact'
    BY <1>6, SearchExact, Zenon
  <2>2. last' = NeedData
    BY <1>6, Zenon DEF SeekNothing, SeekUndecided
  <2>3. ~Reported'
    BY <2>2 DEF NeedData, Reported
  <2>4. QED BY <2>1, <2>3, Zenon DEF OrdinalsExact
<1>7. CASE SeekFound
  BY <1>7, FoundExact, Zenon
<1>8. CASE UNCHANGED vars
  <2>1. UNCHANGED <<stream, consumed, state, afterDamage, queued, ordinal, estimated, last>>
    BY <1>8, Zenon DEF vars
  <2>2. Exact'
    BY <2>1, ExactSame, Zenon
  <2>3. OrdinalsExact'
    BY <2>1, Zenon DEF OrdinalsExact, Reported
  <2>4. QED BY <2>2, <2>3
<1>9. QED
  BY <1>1, <1>2, <1>3, <1>4, <1>5, <1>6, <1>7, <1>8, Zenon DEF Next, NextCall

\* Unless it is flagged a number is the number of access units in front
\* (framer.rs:243-451), on streams whose damage shows in the checks.
THEOREM NumbersExact == DamageShows /\ Spec => []OrdinalsExact
<1> SUFFICES ASSUME DamageShows PROVE Spec => []OrdinalsExact
  OBVIOUS
<1>1. AtStart => Exact
  BY ExactAtStart, Zenon DEF AtStart
<1>2. Init => AtStart /\ OrdinalsExact
  <2> SUFFICES ASSUME Init PROVE AtStart /\ OrdinalsExact
    OBVIOUS
  <2>1. ~Reported
    BY DEF Init, Fresh, Reported
  <2>2. QED BY <2>1 DEF Init, AtStart, OrdinalsExact
<1>3. IInv /\ Scanned /\ Exact /\ OrdinalsExact /\ [Next]_vars
          => OrdinalsExact' /\ (AtStart' \/ Exact')
  BY ExactKept, Zenon DEF EInv
<1>4. QED
  BY <1>1, <1>2, <1>3, ScannedStart, ScannedKept, Invariance, PTL DEF Spec
=============================================================================
