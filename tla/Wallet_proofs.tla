--------------------------- MODULE Wallet_proofs ---------------------------
(***************************************************************************)
(* However many wallets there are, and wherever a save is cut short, the   *)
(* two files of a wallet are of one piece when nobody is at work on it,    *)
(* and they behave like one entry of Vault.                                *)
(***************************************************************************)
EXTENDS Wallet, FiniteSetTheorems, SequenceTheorems, WellFoundedInduction, TLAPS

\* A set of numbers that is not empty has a least one.
LEMMA LeastNumber ==
  ASSUME NEW T \in SUBSET Nat, T # {}
  PROVE  \E x \in T : \A y \in T : x <= y
<1> DEFINE R == {ss \in Nat \X Nat : ss[1] < ss[2]}
<1>1. IsWellFoundedOn(R, Nat)
  BY NatLessThanWellFounded, Zenon DEF OpToRel
<1>2. \E x \in T : \A y \in T : ~(<<y, x>> \in R)
  <2> HIDE DEF R
  <2>1. T \subseteq Nat
    OBVIOUS
  <2> QED
    BY <1>1, <2>1, WFMin
<1>3. \A x, y \in Nat : y < x => <<y, x>> \in R
  OBVIOUS
<1> HIDE DEF R
<1>4. PICK x \in T : \A y \in T : ~(<<y, x>> \in R)
  BY <1>2
<1>5. ASSUME NEW y \in T PROVE x <= y
  <2>1. x \in Nat /\ y \in Nat
    BY <1>4
  <2>2. ~(y < x)
    BY <2>1, <1>3, <1>4
  <2> QED
    BY <2>1, <2>2
<1> QED
  BY <1>4, <1>5

\* What the i-th of a set of rows is.
LEMMA NthFacts ==
  ASSUME NEW n \in Nat, NEW K \in SUBSET (1..n), NEW i \in 1..Cardinality(K)
  PROVE  Nth(K, i) \in K /\ Cardinality(K \cap 1..Nth(K, i)) = i
<1> DEFINE c(k) == Cardinality(K \cap 1..k)
           T == {k \in Nat : c(k) >= i}
<1>1. IsFiniteSet(K) /\ \A k \in Nat : IsFiniteSet(K \cap 1..k) /\ c(k) \in Nat
  <2>1. IsFiniteSet(1..n)
    BY FS_Interval
  <2>2. ASSUME NEW L \in SUBSET (1..n) PROVE IsFiniteSet(L) /\ Cardinality(L) \in Nat
    BY <2>1, FS_Subset, FS_CardinalityType
  <2> QED
    BY <2>2
<1>2. n \in T
  <2>1. K \cap 1..n = K
    OBVIOUS
  <2>2. Cardinality(K) \in Nat
    BY <1>1, FS_CardinalityType
  <2> QED
    BY <2>1, <2>2
<1>3. PICK m \in T : \A y \in T : m <= y
  <2>1. T \in SUBSET Nat /\ T # {}
    BY <1>2
  <2> HIDE DEF T
  <2> QED
    BY <2>1, LeastNumber
<1>4. m \in Nat /\ m # 0 /\ c(m) >= i
  <2>1. K \cap 1..0 = {}
    OBVIOUS
  <2>2. c(0) = 0
    BY <2>1, FS_EmptySet
  <2>3. i > 0
    BY <1>1, FS_CardinalityType
  <2> QED
    BY <2>2, <2>3
<1>5. m - 1 \in Nat /\ c(m - 1) < i
  <2>1. m - 1 \in Nat /\ m - 1 \notin T
    BY <1>3, <1>4
  <2>2. i \in Nat /\ c(m - 1) \in Nat
    BY <1>1, <2>1, FS_CardinalityType
  <2> QED
    BY <2>1, <2>2
<1>6. m \in K
  <2>1. m \notin K => K \cap 1..m = K \cap 1..(m - 1)
    BY <1>4
  <2> HIDE DEF T
  <2>2. i \in Nat /\ c(m - 1) \in Nat /\ c(m) \in Nat
    BY <1>1, <1>4, <1>5, FS_CardinalityType
  <2> QED
    BY <2>1, <2>2, <1>4, <1>5
<1>7. c(m) = i
  <2>1. K \cap 1..m = (K \cap 1..(m - 1)) \cup {m} /\ m \notin K \cap 1..(m - 1)
    BY <1>4, <1>6
  <2>2. c(m) = c(m - 1) + 1
    <3>1. IsFiniteSet(K \cap 1..(m - 1))
      BY <1>1, <1>5
    <3> QED
      BY <2>1, <3>1, FS_AddElement
  <2>3. i \in Nat /\ c(m - 1) \in Nat
    BY <1>1, <1>5, FS_CardinalityType
  <2> QED
    BY <2>2, <2>3, <1>4, <1>5
<1> QED
  <2>1. \E k \in K : Cardinality(K \cap 1..k) = i
    BY <1>6, <1>7
  <2> QED
    BY <2>1, Zenon DEF Nth

\* A set of rows can be counted.
LEMMA RowsFacts ==
  ASSUME NEW n \in Nat, NEW K \in SUBSET (1..n)
  PROVE  IsFiniteSet(K) /\ Cardinality(K) \in Nat /\ Cardinality(K) <= n
<1>1. IsFiniteSet(1..n) /\ Cardinality(1..n) = n
  BY FS_Interval
<1> QED
  BY <1>1, FS_Subset, FS_CardinalityType

\* The rows are numbered in order.
LEMMA NthOrder ==
  ASSUME NEW n \in Nat, NEW K \in SUBSET (1..n)
  PROVE  \A i, j \in 1..Cardinality(K) : i < j => Nth(K, i) < Nth(K, j)
<1>1. \A i \in 1..Cardinality(K) : Nth(K, i) \in K /\ Cardinality(K \cap 1..Nth(K, i)) = i
  BY NthFacts
<1>2. SUFFICES ASSUME NEW i \in 1..Cardinality(K), NEW j \in 1..Cardinality(K), i < j
               PROVE  Nth(K, i) < Nth(K, j)
  OBVIOUS
<1> DEFINE x == Nth(K, i)
           y == Nth(K, j)
<1>3. x \in 1..n /\ y \in 1..n
  BY <1>1
<1>4. SUFFICES ASSUME ~(x < y) PROVE FALSE
  OBVIOUS
<1>5. y <= x
  <2> HIDE DEF x, y
  <2> QED
    BY <1>3, <1>4
<1>6. K \cap 1..y \subseteq K \cap 1..x
  <2> HIDE DEF x, y
  <2> QED
    BY <1>3, <1>5
<1>7. IsFiniteSet(K \cap 1..Nth(K, i))
  <2>1. K \cap 1..Nth(K, i) \in SUBSET (1..n)
    OBVIOUS
  <2> QED
    BY <2>1, RowsFacts
<1>8. Cardinality(K \cap 1..y) <= Cardinality(K \cap 1..x)
  BY <1>6, <1>7, FS_Subset
<1>9. j <= i
  BY <1>1, <1>8, <1>2
<1>10. Cardinality(K) \in Nat
  BY RowsFacts
<1> QED
  BY <1>9, <1>10, <1>2

\* Deleting rows leaves the others, in order.
LEMMA WithoutFacts ==
  ASSUME NEW S, NEW l \in Seq(S), NEW I
  PROVE  /\ Without(l, I) \in Seq(S)
         /\ Len(Without(l, I)) <= Len(l)
         /\ V!Fewer(l, Without(l, I))
<1> DEFINE n == Len(l)
           K == DOMAIN l \ I
           c == Cardinality(K)
<1>1. n \in Nat /\ DOMAIN l = 1..n /\ K \in SUBSET (1..n) /\ l \in [1..n -> S]
  BY LenProperties
<1>2. c \in Nat /\ c <= n
  BY <1>1, RowsFacts
<1>3. \A i \in 1..c : Nth(K, i) \in K
  BY <1>1, NthFacts
<1>4. \A i, j \in 1..c : i < j => Nth(K, i) < Nth(K, j)
  BY <1>1, NthOrder
<1>5. Without(l, I) = [i \in 1..c |-> l[Nth(K, i)]]
  BY DEF Without
<1> HIDE DEF n, K, c
<1>6. K \subseteq 1..n
  BY <1>1
<1>7. Without(l, I) \in [1..c -> S]
  BY <1>1, <1>3, <1>5, <1>6
<1>8. Without(l, I) \in Seq(S) /\ Len(Without(l, I)) = c
  BY <1>7, <1>2, IsASeq, LenProperties
<1>9. V!Fewer(l, Without(l, I))
  <2> DEFINE f == [i \in 1..c |-> Nth(K, i)]
  <2>1. DOMAIN Without(l, I) = 1..c
    BY <1>5
  <2>2. f \in [1..c -> 1..n]
    BY <1>3, <1>6
  <2>3. \A i, j \in 1..c : i < j => f[i] < f[j]
    BY <1>4
  <2>4. \A i \in 1..c : Without(l, I)[i] = l[f[i]]
    BY <1>5
  <2> HIDE DEF f
  <2> QED
    BY <2>1, <2>2, <2>3, <2>4, <1>1 DEF V!Fewer
<1> QED
  BY <1>2, <1>8, <1>9 DEF n
----------------------------------------------------------------------------
\* None and Torn are nothing else.
LEMMA NoneFacts ==
  /\ None \notin Contents /\ None \notin Stashes /\ None \notin Wallets /\ None \notin Accounts
  /\ Torn \notin Contents /\ Torn \notin Stashes /\ None # Torn /\ None \notin Runs
  BY WalletAssumption, FilesAssumption, RunAssumption, Zenon

\* What the types say of the files and of an operation under way.
LEMMA TypeFacts ==
  ASSUME TypeOK
  PROVE  /\ body \in [Wallets -> Contents \cup {None, Torn}]
         /\ stash \in [Wallets -> Stashes \cup {None, Torn}]
         /\ run \in [Actors -> Runs \cup {None}] /\ plat \in Plats /\ plat \in Nat
         /\ made \in Nat /\ harm \in Nat /\ broken \subseteq Wallets /\ shown \in Seq(Accounts)
         /\ \A a \in Actors : run[a] # None => run[a] \in Runs
  BY WalletAssumption DEF TypeOK, Plats

\* What the types say of the parts of an operation.
LEMMA RunFacts ==
  ASSUME NEW r \in Runs
  PROVE  /\ r.w \in Wallets /\ r.pin \in PINs /\ r.turn \in 1..3 /\ r.list \in Seq(Accounts)
         /\ r.got \in Contents \cup {None, Torn} /\ r.seal \in Plats \cup {None}
         /\ r = [op |-> r.op, w |-> r.w, pin |-> r.pin, new |-> r.new, pc |-> r.pc, turn |-> r.turn,
                 got |-> r.got, list |-> r.list, seal |-> r.seal]
  BY DEF Runs

\* Where an operation may be.
Labels ==
  {"readBody", "readStash", "open", "write", "openStash", "writeStash", "removeBody", "removeStash"}

\* q is r at l, after turn t began, with g and k in hand and the new stash under s.
Later(r, q, l, t, g, k, s) ==
  /\ q.op = r.op /\ q.w = r.w /\ q.pin = r.pin /\ q.new = r.new
  /\ q.pc = l /\ q.turn = t /\ q.got = g /\ q.list = k /\ q.seal = s

\* The others stay where they are.
OnlyMoves(a) ==
  /\ run' \in [Actors -> Runs \cup {None}]
  /\ \A b \in Actors \ {a} : run'[b] = run[b]

\* An operation that gets on is still one.
LEMMA RunPc ==
  ASSUME NEW a \in Actors, run \in [Actors -> Runs \cup {None}], run[a] \in Runs,
         NEW l \in Labels, run' = [run EXCEPT ![a].pc = l]
  PROVE  /\ OnlyMoves(a) /\ run'[a] \in Runs
         /\ Later(run[a], run'[a], l, run[a].turn, run[a].got, run[a].list, run[a].seal)
<1>1. run'[a] \in Runs
  BY DEF Runs, Labels
<1>2. Later(run[a], run'[a], l, run[a].turn, run[a].got, run[a].list, run[a].seal)
  BY DEF Runs, Later
<1> QED
  BY <1>1, <1>2 DEF OnlyMoves

\* The same when it has read the body.
LEMMA RunGot ==
  ASSUME NEW a \in Actors, run \in [Actors -> Runs \cup {None}], run[a] \in Runs,
         NEW l \in Labels, NEW g \in Contents \cup {None, Torn},
         run' = [run EXCEPT ![a].pc = l, ![a].got = g]
  PROVE  /\ OnlyMoves(a) /\ run'[a] \in Runs
         /\ Later(run[a], run'[a], l, run[a].turn, g, run[a].list, run[a].seal)
<1>1. run'[a] \in Runs
  BY DEF Runs, Labels
<1>2. Later(run[a], run'[a], l, run[a].turn, g, run[a].list, run[a].seal)
  BY DEF Runs, Later
<1> QED
  BY <1>1, <1>2 DEF OnlyMoves

\* The same when it has made the header.
LEMMA RunSeal ==
  ASSUME NEW a \in Actors, run \in [Actors -> Runs \cup {None}], run[a] \in Runs,
         NEW l \in Labels, NEW s \in Plats,
         run' = [run EXCEPT ![a].pc = l, ![a].seal = s]
  PROVE  /\ OnlyMoves(a) /\ run'[a] \in Runs
         /\ Later(run[a], run'[a], l, run[a].turn, run[a].got, run[a].list, s)
<1>1. run'[a] \in Runs
  BY DEF Runs, Labels
<1>2. Later(run[a], run'[a], l, run[a].turn, run[a].got, run[a].list, s)
  BY DEF Runs, Later
<1> QED
  BY <1>1, <1>2 DEF OnlyMoves

\* The same when another turn begins.
LEMMA RunTurn ==
  ASSUME NEW a \in Actors, run \in [Actors -> Runs \cup {None}], run[a] \in Runs,
         NEW l \in Labels, NEW k \in Seq(Accounts), run[a].turn < 3,
         run' = [run EXCEPT ![a].pc = l, ![a].turn = @ + 1, ![a].list = k]
  PROVE  /\ OnlyMoves(a) /\ run'[a] \in Runs
         /\ Later(run[a], run'[a], l, run[a].turn + 1, run[a].got, k, run[a].seal)
<1>1. run'[a] \in Runs
  BY DEF Runs, Labels
<1>2. Later(run[a], run'[a], l, run[a].turn + 1, run[a].got, k, run[a].seal)
  BY DEF Runs, Later
<1> QED
  BY <1>1, <1>2 DEF OnlyMoves

\* An operation that is over is none.
LEMMA RunEnds ==
  ASSUME NEW a \in Actors, run \in [Actors -> Runs \cup {None}], run' = [run EXCEPT ![a] = None]
  PROVE  OnlyMoves(a) /\ run'[a] = None
  BY DEF OnlyMoves

\* What a save writes is a wallet, and with the limit on what it had in hand no longer than
\* one may get.
LEMMA TargetFacts ==
  ASSUME NEW r \in Runs, r.got \in Contents,
         r.op = "store" => r.new \in Accounts, r.op = "repin" => r.new \in PINs
  PROVE  /\ Target(r) \in Contents /\ Target(r).key = r.got.key
         /\ MaxCreds \in Nat /\ Len(r.got.creds) \in Nat
         /\ (/\ Len(r.got.creds) <= MaxCreds
             /\ r.op = "store" => Len(r.got.creds) < MaxCreds
             /\ Deletes(r) => r.got.creds = r.list) => Len(Target(r).creds) <= MaxCreds
<1> USE WalletAssumption
<1>1. r.got.creds \in Seq(Accounts) /\ r.got.key \in Keys /\ r.got.pin \in PINs /\ r.list \in Seq(Accounts)
      /\ r.got = [key |-> r.got.key, pin |-> r.got.pin, creds |-> r.got.creds]
  BY RunFacts DEF Contents
<1>2. Len(r.got.creds) \in Nat
  BY <1>1
<1>3. CASE r.op = "store"
  <2>1. Target(r) = [r.got EXCEPT !.creds = Append(r.got.creds, r.new)]
    BY <1>3 DEF Target, Deletes
  <2>2. Append(r.got.creds, r.new) \in Seq(Accounts) /\ Len(Append(r.got.creds, r.new)) = Len(r.got.creds) + 1
    BY <1>1, <1>3
  <2>3. Target(r) = [key |-> r.got.key, pin |-> r.got.pin, creds |-> Append(r.got.creds, r.new)]
    BY <1>1, <2>1
  <2>4. Target(r) \in Contents /\ Target(r).key = r.got.key
    BY <1>1, <2>2, <2>3 DEF Contents
  <2>5. Len(Target(r).creds) = Len(r.got.creds) + 1
    BY <2>2, <2>3
  <2> QED
    BY <1>2, <1>3, <2>4, <2>5
<1>4. CASE r.op = "repin"
  <2>1. Target(r) = [r.got EXCEPT !.pin = r.new]
    BY <1>4 DEF Target, Deletes
  <2> QED
    BY <1>1, <1>2, <1>4, <2>1 DEF Contents
<1>5. CASE Deletes(r)
  <2>1. Target(r) = [r.got EXCEPT !.creds = Without(r.list, r.new)]
    BY <1>5 DEF Target, Deletes
  <2>2. Without(r.list, r.new) \in Seq(Accounts) /\ Len(Without(r.list, r.new)) <= Len(r.list)
    BY <1>1, WithoutFacts
  <2>3. Len(Without(r.list, r.new)) \in Nat /\ Len(r.list) \in Nat
    BY <1>1, <2>2
  <2> QED
    BY <1>1, <1>2, <1>5, <2>1, <2>2, <2>3 DEF Contents
<1>6. CASE r.op # "store" /\ r.op # "repin" /\ ~Deletes(r)
  BY <1>1, <1>2, <1>6 DEF Target
<1> QED
  BY <1>3, <1>4, <1>5, <1>6
----------------------------------------------------------------------------
\* No files, no operation.
LEMMA InitWalletInv == Init => WalletInv
<1> SUFFICES ASSUME Init PROVE WalletInv
  OBVIOUS
<1> USE NoneFacts, WalletAssumption
<1>1. /\ \A w \in Wallets : body[w] = None /\ stash[w] = None
      /\ \A a \in Actors : run[a] = None
  BY DEF Init
<1>2. TypeOK
  <2>1. /\ body \in [Wallets -> Contents \cup {None, Torn}]
        /\ stash \in [Wallets -> Stashes \cup {None, Torn}]
        /\ run \in [Actors -> Runs \cup {None}] /\ broken \subseteq Wallets
    BY DEF Init
  <2>2. plat \in Plats /\ made \in 0..MaxKeys /\ harm \in 0..MaxHarm
    BY DEF Init, Plats
  <2>3. shown \in Seq(Accounts)
    BY EmptySeq DEF Init
  <2>4. \A w \in Wallets : body[w] \in Contents => Len(body[w].creds) <= MaxCreds
    BY <1>1
  <2> QED
    BY <2>1, <2>2, <2>3, <2>4 DEF TypeOK
<1>3. RunFits /\ Alone /\ InHand
  BY <1>1 DEF RunFits, Alone, InHand
<1>4. Settled
  BY <1>1 DEF Settled, OnePiece
<1>5. Usable
  BY DEF Init, Usable
<1> QED
  BY <1>2, <1>3, <1>4, <1>5 DEF WalletInv

\* An operation that runs on the wallet of one that saves is not between the two files.
LEMMA NotBetween ==
  ASSUME WalletInv, NEW a \in Actors, NEW b \in Actors, a # b, run[a] # None, run[b] # None,
         run[a].w = run[b].w, Saves(run[a])
  PROVE  ~Saves(run[b]) /\ run[b].pc \notin Between
<1>1. ~Saves(run[b])
  BY DEF WalletInv, Alone
<1>2. Fits(b, run[b])
  BY DEF WalletInv, RunFits
<1>3. run[b].op \in {"validate", "manage"}
  BY <1>1 DEF Saves, Reading
<1> QED
  BY <1>1, <1>2, <1>3 DEF Fits, Reading, Between

\* A step of one actor keeps the invariant when it keeps the actor's own part of it: the others
\* do not depend on what it may write.
LEMMA StepKeeps ==
  ASSUME WalletInv, TypeOK', Usable', NEW a \in Actors, NEW w0 \in Wallets, run[a] # None, run[a].w = w0,
         \A b \in Actors \ {a} : run'[b] = run[b],
         plat' = plat,
         \A w \in Wallets \ {w0} :
            body'[w] = body[w] /\ stash'[w] = stash[w] /\ (w \in broken' <=> w \in broken),
         Saves(run[a]) \/ UNCHANGED <<body, stash, broken>>,
         run'[a] # None => run'[a].w = w0 /\ run'[a].op = run[a].op,
         (run[a] # None => Fits(a, run[a]) /\ (Saves(run[a]) => Holds(run[a])))',
         (w0 \notin broken /\ ~Busy(w0) => OnePiece(w0))'
  PROVE  WalletInv'
<1> USE NoneFacts
<1>1. RunFits'
  <2> SUFFICES ASSUME NEW b \in Actors, run'[b] # None PROVE Fits(b, run[b])'
    BY DEF RunFits
  <2>1. CASE b = a
    BY <2>1
  <2>2. CASE b # a
    <3>1. run'[b] = run[b] /\ Fits(b, run[b])
      BY <2>2 DEF WalletInv, RunFits
    <3> QED
      BY <3>1 DEF Fits
  <2> QED
    BY <2>1, <2>2
<1>2. Alone'
  BY DEF WalletInv, Alone, Saves
<1>3. InHand'
  <2> SUFFICES ASSUME NEW b \in Actors, run'[b] # None, Saves(run[b])' PROVE Holds(run[b])'
    BY DEF InHand
  <2>1. CASE b = a
    BY <2>1
  <2>2. CASE b # a
    <3>1. run'[b] = run[b] /\ run[b] # None /\ Saves(run[b]) /\ Holds(run[b]) /\ run[b].w \in Wallets
      BY <2>2, TypeFacts, RunFacts DEF WalletInv, InHand, Saves
    <3>2. /\ body'[run[b].w] = body[run[b].w] /\ stash'[run[b].w] = stash[run[b].w]
          /\ (run[b].w \in broken' <=> run[b].w \in broken)
      <4>1. CASE run[b].w # w0
        BY <3>1, <4>1
      <4>2. CASE run[b].w = w0
        BY <3>1, <4>2, <2>2, NotBetween
      <4> QED
        BY <4>1, <4>2
    <3> QED
      BY <3>1, <3>2 DEF Holds, Deletes, Target
  <2> QED
    BY <2>1, <2>2
<1>4. Settled'
  <2> SUFFICES ASSUME NEW w \in Wallets, (w \notin broken /\ ~Busy(w))' PROVE OnePiece(w)'
    BY DEF Settled
  <2>1. CASE w = w0
    BY <2>1
  <2>2. CASE w # w0
    <3>1. body'[w] = body[w] /\ stash'[w] = stash[w] /\ w \notin broken
      BY <2>2
    <3>2. ~Busy(w)
      BY <2>2 DEF Busy
    <3>3. OnePiece(w)
      BY <3>1, <3>2 DEF WalletInv, Settled
    <3> QED
      BY <3>1, <3>3 DEF OnePiece
  <2> QED
    BY <2>1, <2>2
<1> QED
  BY <1>1, <1>2, <1>3, <1>4 DEF WalletInv

\* What the invariant says of one operation under way.
LEMMA Before ==
  ASSUME WalletInv, NEW a \in Actors, run[a] # None
  PROVE  /\ TypeOK /\ run[a] \in Runs /\ run[a].w \in Wallets /\ run \in [Actors -> Runs \cup {None}]
         /\ Fits(a, run[a]) /\ (Saves(run[a]) => Holds(run[a]))
  BY TypeFacts, RunFacts DEF WalletInv, RunFits, InHand

\* A step that writes no file and counts nothing keeps the types.
LEMMA QuietTypes ==
  ASSUME TypeOK, run' \in [Actors -> Runs \cup {None}], shown' \in Seq(Accounts),
         UNCHANGED <<body, stash, plat, made, harm, broken>>
  PROVE  TypeOK'
  BY DEF TypeOK

\* A step that writes no file, of an actor that is not between the two, leaves them as they are.
LEMMA QuietPiece ==
  ASSUME WalletInv, NEW a \in Actors, run[a] # None, run[a].pc \notin Between, OnlyMoves(a),
         run'[a] # None => run'[a].pc \notin Between,
         NEW w0 \in Wallets, UNCHANGED <<body, stash, broken>>
  PROVE  (w0 \notin broken /\ ~Busy(w0) => OnePiece(w0))'
<1> SUFFICES ASSUME w0 \notin broken', ~Busy(w0)' PROVE OnePiece(w0)'
  OBVIOUS
<1>1. ~Busy(w0)
  BY DEF Busy, OnlyMoves
<1>2. OnePiece(w0)
  BY <1>1 DEF WalletInv, Settled
<1> QED
  BY <1>2 DEF OnePiece

\* An operation that ends without having written anything, or fails, harms nothing.
LEMMA QuietEnd ==
  ASSUME WalletInv, NEW a \in Actors, run[a] # None, run[a].pc \notin Between,
         NEW ok, Ends(a, ok), ok = FALSE \/ run[a].op \in Reading,
         shown' \in Seq(Accounts), UNCHANGED <<body, stash, plat, made, harm, broken>>
  PROVE  WalletInv'
<1>1. run[a] \in Runs /\ run[a].w \in Wallets /\ TypeOK /\ run \in [Actors -> Runs \cup {None}]
  BY Before
<1>2. OnlyMoves(a) /\ run'[a] = None
  BY <1>1, RunEnds DEF Ends
<1>3. TypeOK'
  BY <1>1, <1>2, QuietTypes DEF OnlyMoves
<1>4. Usable'
  BY DEF Usable, Ends
<1>5. PICK w \in Wallets : w = run[a].w
  BY <1>1
<1>6. (w \notin broken /\ ~Busy(w) => OnePiece(w))'
  BY <1>2, QuietPiece
<1> QED
  BY <1>2, <1>3, <1>4, <1>5, <1>6, StepKeeps DEF OnlyMoves

\* ReadBody: what it read is what is there.
LEMMA ReadBodyKeeps ==
  ASSUME WalletInv, NEW a \in Actors, ReadBody(a)
  PROVE  WalletInv'
<1> USE NoneFacts
<1>1. run[a] # None /\ run[a].pc = "readBody" /\ run[a].pc \notin Between
  BY DEF ReadBody, At, Between
<1>2. UNCHANGED <<body, stash, plat, made, harm, broken, shown>>
  BY DEF ReadBody, Files, Rest
<1>3. /\ TypeOK /\ run[a] \in Runs /\ run[a].w \in Wallets /\ run \in [Actors -> Runs \cup {None}]
      /\ Fits(a, run[a]) /\ (Saves(run[a]) => Holds(run[a]))
  BY <1>1, Before
<1>4. shown' \in Seq(Accounts)
  BY <1>2, <1>3 DEF TypeOK
<1>5. CASE ~Exists(run[a].w)
  BY <1>1, <1>2, <1>4, <1>5, QuietEnd DEF ReadBody
<1>6. CASE Exists(run[a].w)
  <2> DEFINE g == body[run[a].w]
  <2>1. run' = [run EXCEPT ![a].pc = "readStash", ![a].got = g] /\ done' = None
    BY <1>6 DEF ReadBody
  <2>2. g \in Contents \cup {None, Torn} /\ "readStash" \in Labels
    BY <1>3 DEF TypeOK, Labels
  <2> HIDE DEF g
  <2>3. /\ OnlyMoves(a) /\ run'[a] \in Runs
        /\ Later(run[a], run'[a], "readStash", run[a].turn, g, run[a].list, run[a].seal)
    BY <1>3, <2>1, <2>2, RunGot
  <2>4. TypeOK'
    BY <1>2, <1>3, <1>4, <2>3, QuietTypes DEF OnlyMoves
  <2>5. Usable'
    BY <2>1 DEF Usable
  <2>6. Fits(a, run[a])'
    BY <1>1, <1>2, <1>3, <2>3 DEF Fits, Later, Turns
  <2>7. Saves(run[a])' => Holds(run[a])'
    <3> SUFFICES ASSUME Saves(run[a])' PROVE Holds(run[a])'
      OBVIOUS
    <3>1. Holds(run[a])
      BY <1>3, <2>3 DEF Later, Saves
    <3> QED
      BY <3>1, <1>1, <1>2, <2>3 DEF Holds, Later, Deletes, g
  <2>8. PICK w \in Wallets : w = run[a].w
    BY <1>3
  <2>9. (w \notin broken /\ ~Busy(w) => OnePiece(w))'
    BY <1>1, <1>2, <2>3, QuietPiece DEF Later, Between
  <2> QED
    BY <1>1, <1>2, <2>3, <2>4, <2>5, <2>6, <2>7, <2>8, <2>9, StepKeeps DEF OnlyMoves, Later
<1> QED
  BY <1>5, <1>6

\* ReadStash: a wallet that opened is a wallet, and what the save will write fits.
LEMMA ReadStashKeeps ==
  ASSUME WalletInv, NEW a \in Actors, ReadStash(a)
  PROVE  WalletInv'
<1> USE NoneFacts
<1>1. run[a] # None /\ run[a].pc = "readStash" /\ run[a].pc \notin Between
  BY DEF ReadStash, At, Between
<1>2. UNCHANGED <<body, stash, plat, made, harm, broken, shown>>
  BY DEF ReadStash, Files, Rest
<1>3. /\ TypeOK /\ run[a] \in Runs /\ run[a].w \in Wallets /\ run \in [Actors -> Runs \cup {None}]
      /\ Fits(a, run[a]) /\ (Saves(run[a]) => Holds(run[a]))
  BY <1>1, Before
<1>4. shown' \in Seq(Accounts)
  BY <1>2, <1>3 DEF TypeOK
<1>5. CASE Ends(a, FALSE)
  BY <1>1, <1>2, <1>4, <1>5, QuietEnd
<1>6. CASE ~Saves(run[a]) /\ Ends(a, TRUE)
  <2>1. run[a].op \in Reading
    BY <1>6 DEF Saves
  <2> QED
    BY <1>1, <1>2, <1>4, <1>6, <2>1, QuietEnd
<1>7. CASE Opens(a, run[a]) /\ Saves(run[a]) /\ Goes(a, "open")
  <2>1. run' = [run EXCEPT ![a].pc = "open"] /\ done' = None
    BY <1>7 DEF Goes
  <2>2. "open" \in Labels
    BY DEF Labels
  <2>3. /\ OnlyMoves(a) /\ run'[a] \in Runs
        /\ Later(run[a], run'[a], "open", run[a].turn, run[a].got, run[a].list, run[a].seal)
    BY <1>3, <2>1, <2>2, RunPc
  <2>4. TypeOK'
    BY <1>2, <1>3, <1>4, <2>3, QuietTypes DEF OnlyMoves
  <2>5. Usable'
    BY <2>1 DEF Usable
  <2>6. run[a].got \in Contents /\ run[a].op \notin {"generate", "erase", "remove"}
    BY <1>1, <1>3, <1>7, RunFacts DEF Opens, Fits
  <2>7. Fits(a, run[a])'
    BY <1>1, <1>2, <1>3, <1>7, <2>3, <2>6 DEF Fits, Later, Turns, Saves
  <2>8. /\ run[a].got = body[run[a].w]
        /\ run[a].op = "store" => Len(run[a].got.creds) < MaxCreds
        /\ Deletes(run[a]) => run[a].got.creds = run[a].list
        /\ Len(run[a].got.creds) <= MaxCreds
    BY <1>1, <1>3, <1>7, <2>6 DEF Holds, TypeOK
  <2>9. Len(Target(run[a]).creds) <= MaxCreds
    BY <1>3, <2>6, <2>8, TargetFacts DEF Fits
  <2>10. Target(run[a])' = Target(run[a])
    BY <2>3 DEF Target, Later, Deletes
  <2>11. Holds(run[a])'
    BY <1>2, <2>3, <2>6, <2>8, <2>9, <2>10 DEF Holds, Later, Deletes
  <2>12. PICK w \in Wallets : w = run[a].w
    BY <1>3
  <2>13. (w \notin broken /\ ~Busy(w) => OnePiece(w))'
    BY <1>1, <1>2, <2>3, QuietPiece DEF Later, Between
  <2> QED
    BY <1>1, <1>2, <2>3, <2>4, <2>5, <2>7, <2>11, <2>12, <2>13, StepKeeps DEF OnlyMoves, Later
<1> QED
  BY <1>5, <1>6, <1>7 DEF ReadStash

\* Open: the file is empty, and whoever opened it will write it.
LEMMA OpenKeeps ==
  ASSUME WalletInv, NEW a \in Actors, Open(a)
  PROVE  WalletInv'
<1> USE NoneFacts
<1>1. run[a] # None /\ run[a].pc = "open" /\ run[a].pc \notin Between
  BY DEF Open, At, Between
<1>2. UNCHANGED <<stash, plat, made, harm, broken, shown>>
  BY DEF Open, Rest
<1>3. /\ TypeOK /\ run[a] \in Runs /\ run[a].w \in Wallets /\ run \in [Actors -> Runs \cup {None}]
      /\ Fits(a, run[a]) /\ (Saves(run[a]) => Holds(run[a]))
  BY <1>1, Before
<1>4. shown' \in Seq(Accounts) /\ plat \in Plats
  BY <1>2, <1>3 DEF TypeOK
<1>5. CASE Ends(a, FALSE) /\ UNCHANGED body
  BY <1>1, <1>2, <1>4, <1>5, QuietEnd
<1>6. CASE /\ run' = [run EXCEPT ![a].pc = "write", ![a].seal = plat]
           /\ body' = [body EXCEPT ![run[a].w] = Torn] /\ done' = None
  <2>1. "write" \in Labels
    BY DEF Labels
  <2>2. /\ OnlyMoves(a) /\ run'[a] \in Runs
        /\ Later(run[a], run'[a], "write", run[a].turn, run[a].got, run[a].list, plat)
    BY <1>3, <1>4, <1>6, <2>1, RunSeal
  <2>3. PICK w \in Wallets : w = run[a].w
    BY <1>3
  <2>4. body' = [body EXCEPT ![w] = Torn]
    BY <1>6, <2>3
  <2>5. body' \in [Wallets -> Contents \cup {None, Torn}] /\ body'[w] = Torn
        /\ \A v \in Wallets \ {w} : body'[v] = body[v]
    BY <1>3, <2>4 DEF TypeOK
  <2>6. TypeOK'
    BY <1>2, <1>3, <2>2, <2>5 DEF OnlyMoves, TypeOK
  <2>7. Usable'
    BY <1>6 DEF Usable
  <2>8. Saves(run[a])
    BY <1>1, <1>3 DEF Fits, Saves
  <2>9. Fits(a, run[a])'
    BY <1>1, <1>2, <1>3, <2>2 DEF Fits, Later, Turns
  <2>10. Target(run[a])' = Target(run[a])
    BY <2>2 DEF Target, Later, Deletes
  <2>11. Holds(run[a])'
    BY <1>1, <1>3, <2>2, <2>3, <2>5, <2>8, <2>10 DEF Holds, Later
  <2>12. (w \notin broken /\ ~Busy(w) => OnePiece(w))'
    BY <2>2, <2>3 DEF Later, Busy, Between
  <2> QED
    BY <1>1, <1>2, <2>2, <2>3, <2>5, <2>6, <2>7, <2>8, <2>9, <2>11, <2>12, StepKeeps
        DEF OnlyMoves, Later
<1> QED
  BY <1>5, <1>6 DEF Open

\* Write: the file that was emptied gets what the save is for.
LEMMA WriteKeeps ==
  ASSUME WalletInv, NEW a \in Actors, Write(a)
  PROVE  WalletInv'
<1> USE NoneFacts
<1>1. run[a] # None /\ run[a].pc = "write"
  BY DEF Write, At
<1>2. UNCHANGED <<stash, plat, made, harm, broken, shown>>
  BY DEF Write, Rest
<1>3. /\ TypeOK /\ run[a] \in Runs /\ run[a].w \in Wallets /\ run \in [Actors -> Runs \cup {None}]
      /\ Fits(a, run[a]) /\ (Saves(run[a]) => Holds(run[a]))
  BY <1>1, Before
<1>4. Saves(run[a])
  BY <1>1, <1>3 DEF Fits, Saves
<1>5. PICK w \in Wallets : w = run[a].w
  BY <1>3
<1>6. body' = [body EXCEPT ![w] = Target(run[a])]
  BY <1>1, <1>3, <1>4, <1>5 DEF Write, Written, Holds
<1>7. Target(run[a]) \in Contents /\ Len(Target(run[a]).creds) <= MaxCreds
  BY <1>1, <1>3, <1>4, TargetFacts DEF Fits, Holds
<1>8. body' \in [Wallets -> Contents \cup {None, Torn}] /\ body'[w] = Target(run[a])
      /\ \A v \in Wallets \ {w} : body'[v] = body[v]
  BY <1>3, <1>6, <1>7 DEF TypeOK
<1>9. run' = [run EXCEPT ![a].pc = "openStash"] /\ done' = None /\ "openStash" \in Labels
  BY DEF Write, Goes, Labels
<1>10. /\ OnlyMoves(a) /\ run'[a] \in Runs
       /\ Later(run[a], run'[a], "openStash", run[a].turn, run[a].got, run[a].list, run[a].seal)
  BY <1>3, <1>9, RunPc
<1>11. TypeOK'
  <2>1. \A v \in Wallets : body'[v] \in Contents => Len(body'[v].creds) <= MaxCreds
    BY <1>3, <1>7, <1>8 DEF TypeOK
  <2> QED
    BY <1>2, <1>3, <1>8, <1>10, <2>1 DEF OnlyMoves, TypeOK
<1>12. Usable'
  BY <1>9 DEF Usable
<1>13. Fits(a, run[a])'
  BY <1>1, <1>2, <1>3, <1>10 DEF Fits, Later, Turns
<1>14. Target(run[a])' = Target(run[a])
  BY <1>10 DEF Target, Later, Deletes
<1>15. Holds(run[a])'
  BY <1>5, <1>7, <1>8, <1>10, <1>14 DEF Holds, Later
<1>16. (w \notin broken /\ ~Busy(w) => OnePiece(w))'
  BY <1>5, <1>10 DEF Later, Busy, Between
<1> QED
  BY <1>1, <1>2, <1>4, <1>5, <1>8, <1>10, <1>11, <1>12, <1>13, <1>15, <1>16, StepKeeps
      DEF OnlyMoves, Later

\* OpenStash: the other file is empty.
LEMMA OpenStashKeeps ==
  ASSUME WalletInv, NEW a \in Actors, OpenStash(a)
  PROVE  WalletInv'
<1> USE NoneFacts
<1>1. run[a] # None /\ run[a].pc = "openStash"
  BY DEF OpenStash, At
<1>2. UNCHANGED <<body, plat, made, harm, broken, shown>>
  BY DEF OpenStash, Rest
<1>3. /\ TypeOK /\ run[a] \in Runs /\ run[a].w \in Wallets /\ run \in [Actors -> Runs \cup {None}]
      /\ Fits(a, run[a]) /\ (Saves(run[a]) => Holds(run[a]))
  BY <1>1, Before
<1>4. Saves(run[a])
  BY <1>1, <1>3 DEF Fits, Saves
<1>5. PICK w \in Wallets : w = run[a].w
  BY <1>3
<1>6. stash' = [stash EXCEPT ![w] = Torn]
  BY <1>5 DEF OpenStash
<1>7. stash' \in [Wallets -> Stashes \cup {None, Torn}] /\ stash'[w] = Torn
      /\ \A v \in Wallets \ {w} : stash'[v] = stash[v]
  BY <1>3, <1>6 DEF TypeOK
<1>8. run' = [run EXCEPT ![a].pc = "writeStash"] /\ done' = None /\ "writeStash" \in Labels
  BY DEF OpenStash, Goes, Labels
<1>9. /\ OnlyMoves(a) /\ run'[a] \in Runs
      /\ Later(run[a], run'[a], "writeStash", run[a].turn, run[a].got, run[a].list, run[a].seal)
  BY <1>3, <1>8, RunPc
<1>10. TypeOK'
  BY <1>2, <1>3, <1>7, <1>9 DEF OnlyMoves, TypeOK
<1>11. Usable'
  BY <1>8 DEF Usable
<1>12. Fits(a, run[a])'
  BY <1>1, <1>2, <1>3, <1>9 DEF Fits, Later, Turns
<1>13. Target(run[a])' = Target(run[a])
  BY <1>9 DEF Target, Later, Deletes
<1>14. body[run[a].w] = Target(run[a]) /\ Len(Target(run[a]).creds) <= MaxCreds
  BY <1>1, <1>3, <1>4 DEF Holds
<1>15. Holds(run[a])'
  BY <1>2, <1>5, <1>7, <1>9, <1>13, <1>14 DEF Holds, Later
<1>16. (w \notin broken /\ ~Busy(w) => OnePiece(w))'
  BY <1>5, <1>9 DEF Later, Busy, Between
<1> QED
  BY <1>1, <1>2, <1>4, <1>5, <1>7, <1>9, <1>10, <1>11, <1>12, <1>15, <1>16, StepKeeps
      DEF OnlyMoves, Later

\* WriteStash: the two files are of one piece again, and an operation that goes on has in hand
\* what they hold.
LEMMA WriteStashKeeps ==
  ASSUME WalletInv, NEW a \in Actors, WriteStash(a)
  PROVE  WalletInv'
<1> USE NoneFacts
<1>1. run[a] # None /\ run[a].pc = "writeStash"
  BY DEF WriteStash, At
<1>2. UNCHANGED <<body, plat, made, harm>> /\ broken' = broken \ {run[a].w} /\ shown' = Shows(run[a])
  BY DEF WriteStash
<1>3. /\ TypeOK /\ run[a] \in Runs /\ run[a].w \in Wallets /\ run \in [Actors -> Runs \cup {None}]
      /\ Fits(a, run[a]) /\ (Saves(run[a]) => Holds(run[a]))
  BY <1>1, Before
<1>4. Saves(run[a])
  BY <1>1, <1>3 DEF Fits, Saves
<1>5. PICK w \in Wallets : w = run[a].w
  BY <1>3
<1>6. /\ body[w] = Target(run[a]) /\ stash[w] = Torn /\ run[a].seal = plat
      /\ run[a].got \in Contents /\ Len(Target(run[a]).creds) <= MaxCreds
  BY <1>1, <1>3, <1>4, <1>5 DEF Holds, Fits
<1>7. Target(run[a]) \in Contents
  BY <1>3, <1>6, TargetFacts DEF Fits
<1> DEFINE x == [pin |-> Target(run[a]).pin, plat |-> plat]
<1>8. stash' = [stash EXCEPT ![w] = x]
  BY <1>5, <1>6 DEF WriteStash, Written
<1>9. x \in Stashes
  BY <1>3, <1>7 DEF Stashes, Contents, TypeOK
<1>10. x.pin = Target(run[a]).pin
  OBVIOUS
<1> HIDE DEF x
<1>11. stash' \in [Wallets -> Stashes \cup {None, Torn}] /\ stash'[w] = x
       /\ \A v \in Wallets \ {w} : stash'[v] = stash[v]
  BY <1>3, <1>8, <1>9 DEF TypeOK
<1>12. shown' \in Seq(Accounts)
  <2>1. run[a].got.creds \in Seq(Accounts) /\ <<>> \in Seq(Accounts) /\ shown \in Seq(Accounts)
    BY <1>3, <1>6, EmptySeq DEF Contents, TypeOK
  <2>2. Shows(run[a]) \in {run[a].got.creds, <<>>, shown}
    <3>1. CASE run[a].op = "list" \/ (run[a].op = "delete" /\ run[a].turn = 3)
      BY <3>1 DEF Shows
    <3>2. CASE run[a].op = "repin"
      BY <3>2 DEF Shows
    <3>3. CASE ~(run[a].op = "list" \/ (run[a].op = "delete" /\ run[a].turn = 3)) /\ run[a].op # "repin"
      BY <3>3 DEF Shows
    <3> QED
      BY <3>1, <3>2, <3>3
  <2> QED
    BY <1>2, <2>1, <2>2
<1>13. /\ broken' \subseteq Wallets /\ w \notin broken'
       /\ \A v \in Wallets \ {w} : v \in broken' <=> v \in broken
  BY <1>2, <1>3, <1>5 DEF TypeOK
<1>14. OnePiece(w)'
  BY <1>2, <1>6, <1>7, <1>9, <1>10, <1>11 DEF OnePiece
<1>15. CASE Ends(a, run[a].turn = Turns(run[a]))
  <2>1. OnlyMoves(a) /\ run'[a] = None
    BY <1>3, <1>15, RunEnds DEF Ends
  <2>2. TypeOK'
    BY <1>2, <1>3, <1>11, <1>12, <1>13, <2>1 DEF OnlyMoves, TypeOK
  <2>3. Usable'
    <3>1. done'.w = w
      BY <1>5, <1>15 DEF Ends
    <3> QED
      BY <1>2, <1>6, <1>7, <1>11, <3>1 DEF Usable, x
  <2> QED
    BY <1>1, <1>2, <1>4, <1>5, <1>11, <1>13, <1>14, <2>1, <2>2, <2>3, StepKeeps DEF OnlyMoves
<1>16. CASE /\ run[a].turn < Turns(run[a])
            /\ run' = [run EXCEPT ![a].pc = "readBody", ![a].turn = @ + 1, ![a].list = run[a].got.creds]
            /\ done' = None
  <2>1. run[a].op \in {"delete", "prune"} /\ run[a].turn \in 1..3
    BY <1>3, <1>16, RunFacts DEF Turns
  <2>2. run[a].turn < 3 /\ run[a].turn + 1 <= Turns(run[a])
    BY <1>16, <2>1 DEF Turns
  <2>3. "readBody" \in Labels /\ run[a].got.creds \in Seq(Accounts)
    BY <1>6 DEF Labels, Contents
  <2>4. /\ OnlyMoves(a) /\ run'[a] \in Runs
        /\ Later(run[a], run'[a], "readBody", run[a].turn + 1, run[a].got, run[a].got.creds, run[a].seal)
    BY <1>3, <1>16, <2>2, <2>3, RunTurn
  <2>5. TypeOK'
    BY <1>2, <1>3, <1>11, <1>12, <1>13, <2>4 DEF OnlyMoves, TypeOK
  <2>6. Usable'
    BY <1>16 DEF Usable
  <2>7. Fits(a, run[a])'
    BY <1>3, <2>1, <2>2, <2>4 DEF Fits, Later, Turns
  <2>8. Deletes(run[a])' => body'[w].creds = run'[a].list
    <3> SUFFICES ASSUME Deletes(run[a])' PROVE body'[w].creds = run'[a].list
      OBVIOUS
    <3>1. run[a].turn = 1
      BY <2>1, <2>4 DEF Deletes, Later
    <3>2. Target(run[a]) = run[a].got
      BY <3>1, <2>1 DEF Target, Deletes
    <3> QED
      BY <3>2, <1>2, <1>6, <2>4 DEF Later
  <2>9. Holds(run[a])'
    BY <1>5, <2>1, <2>4, <2>8 DEF Holds, Later
  <2> QED
    BY <1>1, <1>2, <1>4, <1>5, <1>11, <1>13, <1>14, <2>4, <2>5, <2>6, <2>7, <2>9, StepKeeps
        DEF OnlyMoves, Later
<1> QED
  BY <1>15, <1>16 DEF WriteStash, NextTurn

\* A step that cuts a save or a deletion short, or a deletion that is over, leaves a wallet that
\* is either broken or gone.
LEMMA CutKeeps ==
  ASSUME WalletInv, NEW a \in Actors, run[a] # None, NEW w \in Wallets, w = run[a].w, Saves(run[a]),
         NEW ok, Ends(a, ok), ok = FALSE \/ run[a].op \in {"erase", "remove"},
         shown' = shown, UNCHANGED <<body, plat, made>>, harm' \in 0..MaxHarm,
         stash' \in [Wallets -> Stashes \cup {None, Torn}], broken' \subseteq Wallets,
         \A v \in Wallets \ {w} : stash'[v] = stash[v] /\ (v \in broken' <=> v \in broken),
         w \in broken' \/ (body[w] = None /\ stash'[w] = None)
  PROVE  WalletInv'
<1> USE NoneFacts
<1>1. run[a] \in Runs /\ TypeOK /\ run \in [Actors -> Runs \cup {None}]
  BY Before
<1>2. OnlyMoves(a) /\ run'[a] = None
  BY <1>1, RunEnds DEF Ends
<1>3. TypeOK'
  BY <1>1, <1>2 DEF OnlyMoves, TypeOK
<1>4. Usable'
  BY DEF Usable, Ends
<1>5. (w \notin broken /\ ~Busy(w) => OnePiece(w))'
  BY DEF OnePiece
<1> QED
  BY <1>2, <1>3, <1>4, <1>5, StepKeeps DEF OnlyMoves

\* SaveFails: the wallet is broken from then on.
LEMMA SaveFailsKeeps ==
  ASSUME WalletInv, NEW a \in Actors, SaveFails(a)
  PROVE  WalletInv'
<1>1. run[a] # None /\ run[a].pc \in {"write", "openStash", "writeStash"}
  BY DEF SaveFails, At
<1>2. TypeOK /\ run[a] \in Runs /\ run[a].w \in Wallets /\ Fits(a, run[a])
  BY <1>1, Before
<1>3. Saves(run[a])
  BY <1>1, <1>2 DEF Fits, Saves
<1>4. UNCHANGED <<body, stash, plat, made, shown>> /\ Ends(a, FALSE) /\ broken' = broken \cup {run[a].w}
  BY DEF SaveFails, Files
<1>5. harm' \in 0..MaxHarm
  BY <1>2, WalletAssumption DEF SaveFails, TypeOK
<1>6. PICK w \in Wallets : w = run[a].w
  BY <1>2
<1>7. /\ stash' \in [Wallets -> Stashes \cup {None, Torn}] /\ broken' \subseteq Wallets
      /\ \A v \in Wallets \ {w} : stash'[v] = stash[v] /\ (v \in broken' <=> v \in broken)
      /\ w \in broken'
  BY <1>2, <1>4, <1>6 DEF TypeOK
<1> QED
  BY <1>1, <1>3, <1>4, <1>5, <1>6, <1>7, CutKeeps

\* RemoveBody: only the deletion that goes on may have left the stash alone.
LEMMA RemoveBodyKeeps ==
  ASSUME WalletInv, NEW a \in Actors, RemoveBody(a)
  PROVE  WalletInv'
<1> USE NoneFacts
<1>1. run[a] # None /\ run[a].pc = "removeBody" /\ run[a].pc \notin Between
  BY DEF RemoveBody, At, Between
<1>2. UNCHANGED <<stash, plat, made, shown>>
  BY DEF RemoveBody
<1>3. /\ TypeOK /\ run[a] \in Runs /\ run[a].w \in Wallets /\ run \in [Actors -> Runs \cup {None}]
      /\ Fits(a, run[a]) /\ (Saves(run[a]) => Holds(run[a]))
  BY <1>1, Before
<1>4. run[a].op \in {"erase", "remove"} /\ Saves(run[a])
  BY <1>1, <1>3 DEF Fits, Saves, Reading
<1>5. PICK w \in Wallets : w = run[a].w
  BY <1>3
<1>6. harm' \in 0..MaxHarm
  <2>1. harm' = harm \/ (harm < MaxHarm /\ harm' = harm + 1)
    BY Zenon DEF RemoveBody
  <2> QED
    BY <1>3, <2>1, WalletAssumption DEF TypeOK
<1>7. CASE /\ Goes(a, "removeStash") /\ body' \in [Wallets -> Contents \cup {None, Torn}]
           /\ body'[w] \in {body[w], None}
           /\ broken' \subseteq Wallets /\ (w \notin broken' => body'[w] = None)
           /\ \A v \in Wallets \ {w} : body'[v] = body[v] /\ (v \in broken' <=> v \in broken)
  <2>1. run' = [run EXCEPT ![a].pc = "removeStash"] /\ done' = None /\ "removeStash" \in Labels
    BY <1>7 DEF Goes, Labels
  <2>2. /\ OnlyMoves(a) /\ run'[a] \in Runs
        /\ Later(run[a], run'[a], "removeStash", run[a].turn, run[a].got, run[a].list, run[a].seal)
    BY <1>3, <2>1, RunPc
  <2>3. \A v \in Wallets : body'[v] \in Contents => Len(body'[v].creds) <= MaxCreds
    BY <1>3, <1>7 DEF TypeOK
  <2>4. TypeOK'
    BY <1>2, <1>3, <1>6, <1>7, <2>2, <2>3 DEF OnlyMoves, TypeOK
  <2>5. Usable'
    BY <2>1 DEF Usable
  <2>6. Fits(a, run[a])'
    BY <1>3, <1>4, <2>2 DEF Fits, Later, Turns
  <2>7. Holds(run[a])'
    BY <1>5, <1>7, <2>2 DEF Holds, Later
  <2>8. (w \notin broken /\ ~Busy(w) => OnePiece(w))'
    BY <1>5, <2>2 DEF Later, Busy, Between
  <2> QED
    BY <1>1, <1>2, <1>4, <1>5, <1>7, <2>2, <2>4, <2>5, <2>6, <2>7, <2>8, StepKeeps
        DEF OnlyMoves, Later
<1>8. CASE body[run[a].w] # None /\ body' = [body EXCEPT ![run[a].w] = None] /\ Goes(a, "removeStash")
           /\ UNCHANGED <<harm, broken>>
  BY <1>3, <1>5, <1>7, <1>8 DEF TypeOK
<1>9. CASE /\ body[run[a].w] = None /\ UNCHANGED <<body, harm, broken>>
           /\ run[a].op # "erase" /\ Goes(a, "removeStash")
  BY <1>3, <1>5, <1>7, <1>9 DEF TypeOK
<1>10. CASE body' = body /\ broken' = broken /\ Ends(a, FALSE)
  <2>1. OnlyMoves(a) /\ run'[a] = None
    BY <1>3, <1>10, RunEnds DEF Ends
  <2>2. TypeOK'
    BY <1>2, <1>3, <1>6, <1>10, <2>1 DEF OnlyMoves, TypeOK
  <2>3. Usable'
    BY <1>10 DEF Usable, Ends
  <2>4. (w \notin broken /\ ~Busy(w) => OnePiece(w))'
    BY <1>1, <1>2, <1>10, <2>1, QuietPiece
  <2> QED
    BY <1>1, <1>2, <1>5, <1>10, <2>1, <2>2, <2>3, <2>4, StepKeeps DEF OnlyMoves
<1>11. CASE body' = body /\ Goes(a, "removeStash") /\ broken' = broken \cup {run[a].w}
  BY <1>3, <1>5, <1>7, <1>11 DEF TypeOK
<1> QED
  BY <1>8, <1>9, <1>10, <1>11 DEF RemoveBody

\* RemoveStash: the wallet is gone, or broken.
LEMMA RemoveStashKeeps ==
  ASSUME WalletInv, NEW a \in Actors, RemoveStash(a)
  PROVE  WalletInv'
<1> USE NoneFacts
<1>1. run[a] # None /\ run[a].pc = "removeStash"
  BY DEF RemoveStash, At
<1>2. UNCHANGED <<body, plat, made, shown>>
  BY DEF RemoveStash
<1>3. /\ TypeOK /\ run[a] \in Runs /\ run[a].w \in Wallets /\ run \in [Actors -> Runs \cup {None}]
      /\ Fits(a, run[a]) /\ (Saves(run[a]) => Holds(run[a]))
  BY <1>1, Before
<1>4. run[a].op \in {"erase", "remove"} /\ Saves(run[a])
  BY <1>1, <1>3 DEF Fits, Saves, Reading
<1>5. PICK w \in Wallets : w = run[a].w
  BY <1>3
<1>6. w \notin broken => body[w] = None
  BY <1>1, <1>3, <1>4, <1>5 DEF Holds
<1>7. harm' \in 0..MaxHarm
  <2>1. harm' = harm \/ (harm < MaxHarm /\ harm' = harm + 1)
    BY Zenon DEF RemoveStash
  <2> QED
    BY <1>3, <2>1, WalletAssumption DEF TypeOK
<1>8. CASE /\ stash' = [stash EXCEPT ![run[a].w] = None] /\ Ends(a, body[run[a].w] = None)
           /\ broken' = IF body[run[a].w] = None THEN broken \ {run[a].w} ELSE broken
  <2>1. /\ stash' \in [Wallets -> Stashes \cup {None, Torn}] /\ stash'[w] = None
        /\ \A v \in Wallets \ {w} : stash'[v] = stash[v]
    BY <1>3, <1>5, <1>8 DEF TypeOK
  <2>2. /\ broken' \subseteq Wallets /\ \A v \in Wallets \ {w} : v \in broken' <=> v \in broken
        /\ w \in broken' \/ body[w] = None
    BY <1>3, <1>5, <1>6, <1>8 DEF TypeOK
  <2> QED
    BY <1>1, <1>2, <1>4, <1>5, <1>7, <1>8, <2>1, <2>2, CutKeeps
<1>9. CASE stash' = stash /\ Ends(a, FALSE) /\ broken' = broken \cup {run[a].w}
  <2>1. /\ stash' \in [Wallets -> Stashes \cup {None, Torn}] /\ broken' \subseteq Wallets /\ w \in broken'
        /\ \A v \in Wallets \ {w} : stash'[v] = stash[v] /\ (v \in broken' <=> v \in broken)
    BY <1>3, <1>5, <1>9 DEF TypeOK
  <2> QED
    BY <1>1, <1>2, <1>4, <1>5, <1>7, <1>9, <2>1, CutKeeps
<1> QED
  BY <1>8, <1>9 DEF RemoveStash

\* Begin: an operation starts with nothing in hand; one that stores finds room.
LEMMA BeginKeeps ==
  ASSUME WalletInv, NEW a \in Actors, NEW op \in Ops[a], NEW w \in Wallets, NEW p \in PINs,
         NEW new \in Accounts \cup PINs \cup {None} \cup SUBSET Nat, Begin(a, op, w, p, new),
         op = "store" => new \in Accounts /\ Room(w), op = "repin" => new \in PINs,
         op = "generate" => body[w] = None /\ made < MaxKeys
  PROVE  WalletInv'
<1> USE NoneFacts
<1>1. run[a] = None /\ Apart(op, w) /\ done' = None
  BY DEF Begin
<1>2. UNCHANGED <<body, stash, plat, shown, harm, broken>>
  BY DEF Begin
<1> DEFINE g == IF op = "generate" THEN [key |-> made + 1, pin |-> p, creds |-> <<>>] ELSE None
           r == [op |-> op, w |-> w, pin |-> p, new |-> new, pc |-> First(op), turn |-> 1,
                 got |-> g, list |-> <<>>, seal |-> None]
<1>3. TypeOK /\ run' = [run EXCEPT ![a] = r]
  BY DEF Begin, WalletInv
<1>4. /\ made' \in 0..MaxKeys /\ g \in Contents \cup {None}
      /\ op = "generate" => g \in Contents /\ g.creds = <<>>
  <2>1. made \in Nat /\ made <= MaxKeys /\ MaxKeys \in Nat
    BY <1>3, WalletAssumption DEF TypeOK
  <2>2. CASE op = "generate"
    <3>1. made' = made + 1 /\ made + 1 \in Keys /\ <<>> \in Seq(Accounts)
      BY <2>1, <2>2, EmptySeq DEF Begin, Keys
    <3>2. g = [key |-> made + 1, pin |-> p, creds |-> <<>>]
      BY <2>2
    <3> HIDE DEF g
    <3>3. g \in Contents /\ g.creds = <<>>
      BY <3>1, <3>2 DEF Contents
    <3>4. made' \in 0..MaxKeys
      BY <2>1, <2>2, <3>1
    <3> QED
      BY <3>3, <3>4
  <2>3. CASE op # "generate"
    BY <1>3, <2>1, <2>3 DEF Begin, TypeOK
  <2> QED
    BY <2>2, <2>3
<1>5. First(op) = IF op = "generate" THEN "open"
                  ELSE IF op \in {"erase", "remove"} THEN "removeBody" ELSE "readBody"
  BY DEF First
<1>6. op \in Ops["request"] \cup Ops["app"]
  BY DEF Actors
<1> HIDE DEF g
<1>7. r \in Runs
  <2>1. First(op) \in {"open", "removeBody", "readBody"} /\ <<>> \in Seq(Accounts)
    BY <1>5, EmptySeq
  <2> QED
    BY <1>4, <1>6, <2>1 DEF Runs
<1>8. /\ r.op = op /\ r.w = w /\ r.new = new /\ r.pc = First(op) /\ r.turn = 1 /\ r.got = g /\ r.list = <<>>
      /\ r # None
  <2>1. r.op = op /\ r.w = w /\ r.new = new /\ r.pc = First(op) /\ r.turn = 1 /\ r.got = g /\ r.list = <<>>
    OBVIOUS
  <2> QED
    BY <1>7, <2>1
<1> HIDE DEF r
<1>9. run' \in [Actors -> Runs \cup {None}] /\ run'[a] = r /\ \A b \in Actors \ {a} : run'[b] = run[b]
  BY <1>3, <1>7 DEF TypeOK
<1>10. /\ run'[a].op = op /\ run'[a].w = w /\ run'[a].new = new /\ run'[a].pc = First(op)
       /\ run'[a].turn = 1 /\ run'[a].got = g
  BY <1>8, <1>9
<1>11. TypeOK'
  BY <1>2, <1>3, <1>4, <1>9 DEF TypeOK
<1>12. RunFits'
  <2> SUFFICES ASSUME NEW b \in Actors, run'[b] # None PROVE Fits(b, run[b])'
    BY DEF RunFits
  <2>1. CASE b = a
    <3>1. Turns(run[a])' >= 1
      BY DEF Turns
    <3>2. op = "generate" => op \notin Reading
      BY DEF Reading
    <3>3. Fits(a, run[a])'
      BY <1>4, <1>5, <1>10, <3>1, <3>2 DEF Fits
    <3> QED
      BY <2>1, <3>3
  <2>2. CASE b # a
    <3>1. run'[b] = run[b] /\ Fits(b, run[b])
      BY <1>9, <2>2 DEF WalletInv, RunFits
    <3> QED
      BY <3>1, <1>2 DEF Fits
  <2> QED
    BY <2>1, <2>2
<1>13. Alone'
  <2>1. \A b \in Actors \ {a} : run[b] # None /\ run[b].w = w /\ Saves(run[b]) => op \in Reading
    BY <1>1 DEF Apart, Saves
  <2> QED
    BY <1>8, <1>9, <2>1 DEF WalletInv, Alone, Saves
<1>14. InHand'
  <2> SUFFICES ASSUME NEW b \in Actors, run'[b] # None, Saves(run[b])' PROVE Holds(run[b])'
    BY DEF InHand
  <2>1. CASE b = a
    <3>1. ~Deletes(run[a])'
      BY <1>10 DEF Deletes
    <3>2. op = "generate" => Target(run[a])' = g /\ Len(g.creds) <= MaxCreds
      <4>1. op = "generate" => Target(run[a])' = g
        BY <1>10, <3>1 DEF Target
      <4>2. op = "generate" => Len(g.creds) = 0
        BY <1>4
      <4> QED
        BY <4>1, <4>2, WalletAssumption
    <3>3. op = "store" => (body[w] \in Contents => Len(body[w].creds) < MaxCreds)
      BY DEF Room
    <3>4. Holds(run[a])'
      BY <1>2, <1>4, <1>5, <1>10, <3>1, <3>2, <3>3 DEF Holds
    <3> QED
      BY <2>1, <3>4
  <2>2. CASE b # a
    <3>1. run'[b] = run[b] /\ run[b] # None /\ Saves(run[b]) /\ Holds(run[b])
      BY <1>9, <2>2 DEF WalletInv, InHand, Saves
    <3> QED
      BY <3>1, <1>2 DEF Holds, Deletes, Target
  <2> QED
    BY <2>1, <2>2
<1>15. Settled'
  <2> SUFFICES ASSUME NEW v \in Wallets, (v \notin broken /\ ~Busy(v))' PROVE OnePiece(v)'
    BY DEF Settled
  <2>1. ~Busy(v)
    BY <1>1, <1>9 DEF Busy
  <2>2. OnePiece(v)
    BY <1>2, <2>1 DEF WalletInv, Settled
  <2> QED
    BY <1>2, <2>2 DEF OnePiece
<1> QED
  BY <1>1, <1>11, <1>12, <1>13, <1>14, <1>15 DEF WalletInv, Usable

\* The actions by which an operation starts.
LEMMA StartKeeps == WalletInv /\ Start => WalletInv'
<1> SUFFICES ASSUME WalletInv, NEW w \in Wallets, NEW p \in PINs,
                    \/ ValidatePin(w, p) \/ UpdatePasskey(w, p)
                    \/ LoadCredentials(w, p) \/ LoadPasskey(w, p) \/ UpdatePin(w, p)
                    \/ DeleteCredential(w, p) \/ DeleteCredentials(w, p)
                    \/ GeneratePasskey(w, p) \/ ErasePasskey(w, p) \/ RemovePasskey(w, p) \/ ManageCreds(w, p)
             PROVE  WalletInv'
  BY DEF Start
<1>1. /\ "request" \in Actors /\ "app" \in Actors
      /\ "validate" \in Ops["request"] /\ "store" \in Ops["request"]
      /\ \A op \in {"list", "cache", "repin", "delete", "prune", "generate", "erase", "remove", "manage"} :
            op \in Ops["app"]
  BY DEF Actors, Ops
<1>2. CASE ValidatePin(w, p)
  BY <1>1, <1>2, BeginKeeps DEF ValidatePin
<1>3. CASE UpdatePasskey(w, p)
  BY <1>1, <1>3, BeginKeeps DEF UpdatePasskey
<1>4. CASE LoadCredentials(w, p)
  BY <1>1, <1>4, BeginKeeps DEF LoadCredentials
<1>5. CASE LoadPasskey(w, p)
  BY <1>1, <1>5, BeginKeeps DEF LoadPasskey
<1>6. CASE UpdatePin(w, p)
  BY <1>1, <1>6, BeginKeeps DEF UpdatePin
<1>7. shown \in Seq(Accounts)
  BY DEF WalletInv, TypeOK
<1>8. DOMAIN shown \in SUBSET Nat
  BY <1>7
<1>9. CASE DeleteCredential(w, p)
  <2>1. PICK x \in DOMAIN shown : Begin("app", "delete", w, p, {x})
    BY <1>9 DEF DeleteCredential
  <2>2. {x} \in SUBSET Nat
    BY <1>8
  <2> QED
    BY <1>1, <2>1, <2>2, BeginKeeps
<1>10. CASE DeleteCredentials(w, p)
  <2>1. PICK x \in SUBSET DOMAIN shown : Begin("app", "prune", w, p, x)
    BY <1>10 DEF DeleteCredentials
  <2>2. x \in SUBSET Nat
    BY <1>8
  <2> QED
    BY <1>1, <2>1, <2>2, BeginKeeps
<1>11. CASE GeneratePasskey(w, p)
  BY <1>1, <1>11, BeginKeeps DEF GeneratePasskey
<1>12. CASE ErasePasskey(w, p)
  BY <1>1, <1>12, BeginKeeps DEF ErasePasskey
<1>13. CASE RemovePasskey(w, p)
  BY <1>1, <1>13, BeginKeeps DEF RemovePasskey
<1>14. CASE ManageCreds(w, p)
  BY <1>1, <1>14, BeginKeeps DEF ManageCreds
<1> QED
  BY <1>2, <1>3, <1>4, <1>5, <1>6, <1>9, <1>10, <1>11, <1>12, <1>13, <1>14

\* Crash: what was between its two files is broken.
LEMMA CrashKeeps == WalletInv /\ Crash => WalletInv'
<1> SUFFICES ASSUME WalletInv, Crash PROVE WalletInv'
  OBVIOUS
<1> USE NoneFacts
<1>1. TypeOK /\ UNCHANGED <<body, stash, plat, made>> /\ done' = None /\ shown' = <<>>
  BY DEF WalletInv, Crash, Files
<1>2. \A a \in Actors : run'[a] = None
  BY DEF Crash
<1>3. /\ broken \subseteq broken'
      /\ \A a \in Actors : run[a] # None /\ run[a].pc \in Between => run[a].w \in broken'
  BY DEF Crash, At, Between
<1>4. TypeOK'
  <2>1. broken' \subseteq Wallets
    <3>1. \A a \in Actors : run[a] # None => run[a].w \in Wallets
      BY <1>1, TypeFacts, RunFacts
    <3> QED
      BY <1>1, <3>1 DEF Crash, At, TypeOK
  <2>2. harm' \in 0..MaxHarm
    BY <1>1, WalletAssumption DEF Crash, TypeOK
  <2>3. run' \in [Actors -> Runs \cup {None}]
    BY DEF Crash
  <2>4. shown' \in Seq(Accounts)
    BY <1>1, EmptySeq
  <2> QED
    BY <1>1, <2>1, <2>2, <2>3, <2>4 DEF TypeOK
<1>5. (RunFits /\ Alone /\ InHand)'
  BY <1>2 DEF RunFits, Alone, InHand
<1>6. Settled'
  <2> SUFFICES ASSUME NEW w \in Wallets, (w \notin broken /\ ~Busy(w))' PROVE OnePiece(w)'
    BY DEF Settled
  <2>1. w \notin broken /\ ~Busy(w)
    BY <1>3 DEF Busy
  <2>2. OnePiece(w)
    BY <2>1 DEF WalletInv, Settled
  <2> QED
    BY <1>1, <2>2 DEF OnePiece
<1> QED
  BY <1>1, <1>4, <1>5, <1>6 DEF WalletInv, Usable

\* ReplacePlatform: no save has a header under the old key.
LEMMA ReplacePlatformKeeps == WalletInv /\ ReplacePlatform => WalletInv'
<1> SUFFICES ASSUME WalletInv, ReplacePlatform PROVE WalletInv'
  OBVIOUS
<1> USE NoneFacts
<1>1. UNCHANGED <<body, stash, made, run, shown, harm, broken>> /\ done' = None
  BY DEF ReplacePlatform, Files
<1>2. TypeOK'
  <2>1. plat' \in Plats
    BY WalletAssumption DEF ReplacePlatform, WalletInv, TypeOK, Plats
  <2> QED
    BY <1>1, <2>1 DEF WalletInv, TypeOK
<1>3. \A a \in Actors : run[a] # None => run[a].op \in Reading
  BY DEF ReplacePlatform, Actors, Saves
<1>4. RunFits'
  BY <1>1, <1>3 DEF WalletInv, RunFits, Fits, Turns
<1>5. (Alone /\ InHand)'
  BY <1>1, <1>3 DEF WalletInv, Alone, InHand, Saves
<1>6. Settled'
  BY <1>1 DEF WalletInv, Settled, Busy, OnePiece
<1> QED
  BY <1>1, <1>2, <1>4, <1>5, <1>6 DEF WalletInv, Usable

\* Every step keeps the invariant.
LEMMA NextWalletInv == WalletInv /\ [Next]_vars => WalletInv'
<1> SUFFICES ASSUME WalletInv, [Next]_vars PROVE WalletInv'
  OBVIOUS
<1>1. CASE Start
  BY <1>1, StartKeeps
<1>2. ASSUME NEW a \in Actors, Step(a) PROVE WalletInv'
  BY <1>2, ReadBodyKeeps, ReadStashKeeps, OpenKeeps, WriteKeeps, OpenStashKeeps, WriteStashKeeps,
     SaveFailsKeeps, RemoveBodyKeeps, RemoveStashKeeps DEF Step
<1>3. CASE Crash
  BY <1>3, CrashKeeps
<1>4. CASE ReplacePlatform
  BY <1>4, ReplacePlatformKeeps
<1>5. CASE UNCHANGED vars
  <2>1. UNCHANGED <<body, stash, plat, made, run, shown, harm, broken, done>>
    BY <1>5 DEF vars
  <2>2. TypeOK'
    BY <2>1 DEF WalletInv, TypeOK
  <2>3. RunFits' /\ Alone'
    BY <2>1 DEF WalletInv, RunFits, Fits, Turns, Alone, Saves
  <2>4. InHand'
    <3> SUFFICES ASSUME NEW a \in Actors, run'[a] # None, Saves(run[a])' PROVE Holds(run[a])'
      BY DEF InHand
    <3>1. run'[a] = run[a] /\ Holds(run[a])
      BY <2>1 DEF WalletInv, InHand, Saves
    <3> QED
      BY <2>1, <3>1 DEF Holds, Deletes, Target
  <2>5. Settled' /\ Usable'
    BY <2>1 DEF WalletInv, Settled, Busy, OnePiece, Usable
  <2> QED
    BY <2>2, <2>3, <2>4, <2>5 DEF WalletInv
<1> QED
  BY <1>1, <1>2, <1>3, <1>4, <1>5 DEF Next

\* The inductive invariant holds always.
THEOREM Invariance == Spec => []WalletInv
<1>1. Init => WalletInv
  BY InitWalletInv
<1>2. WalletInv /\ [Next]_vars => WalletInv'
  BY NextWalletInv
<1> QED
  BY <1>1, <1>2, PTL DEF Spec

\* However requests and the application take turns, and wherever a save is cut short: a wallet
\* that nobody is working on and whose last save or deletion was not cut short has two whole
\* files of one PIN, or none.
THEOREM FilesTheorem == Spec => []FilesAgree
<1>1. WalletInv => FilesAgree
  BY DEF WalletInv, Settled, FilesAgree, Idle, Busy
<1> QED
  BY <1>1, Invariance, PTL

\* Whoever was just told that a wallet was saved can open it by the PIN protocol, under the
\* platform key in force.
THEOREM UsableTheorem == Spec => []Usable
<1>1. WalletInv => Usable
  BY DEF WalletInv
<1> QED
  BY <1>1, Invariance, PTL
----------------------------------------------------------------------------
(* The two files of a wallet behave like one entry of Vault. *)

\* Actor a has emptied the file of w and has not written it yet.
Writes(a, w) == At(a, "write") /\ run[a].w = w

\* What the abstract state is in terms of the files.
VaultMeans ==
  /\ vault = [w \in Wallets |-> vault[w]] /\ saving \subseteq Wallets
  /\ \A w \in Wallets :
        /\ body[w] \in Contents => vault[w] = body[w] /\ w \notin saving
        /\ \A a \in Actors : Writes(a, w) => vault[w] = Target(run[a]) /\ w \in saving /\ body[w] = Torn
        /\ (\A a \in Actors : ~Writes(a, w)) =>
              w \notin saving /\ (body[w] \notin Contents => vault[w] = None)

\* By the invariant it means just that: there is one writer at most.
LEMMA VaultMeaning == WalletInv => VaultMeans
<1> SUFFICES ASSUME WalletInv PROVE VaultMeans
  OBVIOUS
<1> USE NoneFacts
<1>1. vault = [w \in Wallets |-> vault[w]] /\ saving \subseteq Wallets
      /\ \A w \in Wallets : vault[w] = VaultOf(w) /\ (w \in saving <=> Writer(w) # {})
  BY DEF vault, saving
<1>2. ASSUME NEW w \in Wallets, NEW a \in Actors, Writes(a, w)
      PROVE  /\ body[w] = Torn /\ w \in saving /\ Writer(w) = {a}
  <2>1. run[a] # None /\ run[a].pc = "write" /\ run[a].w = w
    BY <1>2 DEF Writes, At
  <2>2. Fits(a, run[a]) /\ (Saves(run[a]) => Holds(run[a]))
    BY <2>1, Before
  <2>3. Saves(run[a])
    BY <2>1, <2>2 DEF Fits, Saves
  <2>4. body[w] = Torn
    BY <2>1, <2>2, <2>3 DEF Holds
  <2>5. a \in Writer(w)
    BY <1>2 DEF Writer, Writes
  <2>6. ASSUME NEW b \in Writer(w) PROVE b = a
    <3>1. b \in Actors /\ run[b] # None /\ run[b].pc = "write" /\ run[b].w = w
      BY DEF Writer, At
    <3>2. b # a => run[b].pc \notin Between
      BY <2>1, <2>3, <3>1, NotBetween
    <3> QED
      BY <3>1, <3>2 DEF Between
  <2> QED
    BY <1>1, <2>4, <2>5, <2>6
<1>3. ASSUME NEW w \in Wallets, NEW a \in Actors, Writes(a, w)
      PROVE  vault[w] = Target(run[a])
  <2>1. body[w] = Torn /\ Writer(w) = {a} /\ Writer(w) # {}
    BY <1>2, <1>3
  <2>2. (CHOOSE x \in Writer(w) : TRUE) = a
    BY <2>1
  <2>3. VaultOf(w) = Target(run[CHOOSE x \in Writer(w) : TRUE])
    BY <2>1 DEF VaultOf
  <2> QED
    BY <1>1, <2>2, <2>3
<1>4. ASSUME NEW w \in Wallets, body[w] \in Contents
      PROVE  vault[w] = body[w] /\ w \notin saving
  <2>1. Writer(w) = {}
    BY <1>2, <1>4 DEF Writer, Writes
  <2> QED
    BY <1>1, <1>4, <2>1 DEF VaultOf
<1>5. ASSUME NEW w \in Wallets, \A a \in Actors : ~Writes(a, w)
      PROVE  w \notin saving /\ (body[w] \notin Contents => vault[w] = None)
  <2>1. Writer(w) = {}
    BY <1>5 DEF Writer, Writes
  <2> QED
    BY <1>1, <2>1 DEF VaultOf
<1> QED
  BY <1>1, <1>2, <1>3, <1>4, <1>5 DEF VaultMeans

\* A wallet whose body and whose writers stay is the same entry.
LEMMA VaultStays ==
  ASSUME VaultMeans, VaultMeans', NEW w \in Wallets, body'[w] = body[w],
         \A a \in Actors : /\ Writes(a, w)' <=> Writes(a, w)
                           /\ Writes(a, w) => run'[a] = run[a]
  PROVE  vault'[w] = vault[w] /\ (w \in saving' <=> w \in saving)
<1>1. CASE body[w] \in Contents
  BY <1>1 DEF VaultMeans
<1>2. ASSUME NEW a \in Actors, Writes(a, w)
      PROVE  vault'[w] = vault[w] /\ (w \in saving' <=> w \in saving)
  <2>1. vault'[w] = Target(run[a])' /\ w \in saving' /\ vault[w] = Target(run[a]) /\ w \in saving
    BY <1>2 DEF VaultMeans
  <2>2. Target(run[a])' = Target(run[a])
    BY <1>2 DEF Target, Deletes
  <2> QED
    BY <2>1, <2>2
<1>3. CASE body[w] \notin Contents /\ \A a \in Actors : ~Writes(a, w)
  BY <1>3 DEF VaultMeans
<1> QED
  BY <1>1, <1>2, <1>3

\* Nothing happened to any entry.
LEMMA VaultStutter ==
  ASSUME VaultMeans, VaultMeans',
         \A w \in Wallets : vault'[w] = vault[w] /\ (w \in saving' <=> w \in saving)
  PROVE  UNCHANGED V!vvars
<1>1. vault' = vault
  BY DEF VaultMeans
<1>2. saving' = saving
  BY DEF VaultMeans
<1> QED
  BY <1>1, <1>2 DEF V!vvars

\* A step of one actor concerns no other wallet.
LEMMA OthersStay ==
  ASSUME VaultMeans, VaultMeans', NEW a \in Actors, NEW w0 \in Wallets, OnlyMoves(a),
         run[a] # None => run[a].w = w0, run'[a] # None => run'[a].w = w0,
         NEW w \in Wallets, w # w0, body'[w] = body[w]
  PROVE  vault'[w] = vault[w] /\ (w \in saving' <=> w \in saving)
<1>1. \A b \in Actors : /\ Writes(b, w)' <=> Writes(b, w)
                        /\ Writes(b, w) => run'[b] = run[b]
  BY DEF Writes, At, OnlyMoves
<1> QED
  BY <1>1, VaultStays

\* A step that writes no body, of an actor that has emptied none and empties none, is none of Vault.
LEMMA QuietVault ==
  ASSUME VaultMeans, VaultMeans', NEW a \in Actors, OnlyMoves(a), UNCHANGED body,
         run[a] # None => run[a].pc # "write", run'[a] # None => run'[a].pc # "write"
  PROVE  UNCHANGED V!vvars
<1>1. ASSUME NEW w \in Wallets PROVE vault'[w] = vault[w] /\ (w \in saving' <=> w \in saving)
  <2>1. \A b \in Actors : /\ Writes(b, w)' <=> Writes(b, w)
                          /\ Writes(b, w) => run'[b] = run[b]
    BY DEF Writes, At, OnlyMoves
  <2> QED
    BY <2>1, VaultStays
<1> QED
  BY <1>1, VaultStutter

\* What a save writes is what Vault allows of what it had in hand.
LEMMA SavedFacts ==
  ASSUME NEW r \in Runs, r.got \in Contents,
         r.op = "store" => r.new \in Accounts, r.op = "repin" => r.new \in PINs,
         Deletes(r) => r.got.creds = r.list
  PROVE  V!Saved(r.got, Target(r))
<1> USE NoneFacts
<1>1. r.got.creds \in Seq(Accounts) /\ r.list \in Seq(Accounts) /\ r.got # None
      /\ r.got = [key |-> r.got.key, pin |-> r.got.pin, creds |-> r.got.creds]
  BY RunFacts DEF Contents
<1>2. CASE r.op = "store"
  <2>1. Target(r) = [r.got EXCEPT !.creds = Append(r.got.creds, r.new)]
    BY <1>2 DEF Target, Deletes
  <2>2. Target(r).key = r.got.key /\ Target(r).pin = r.got.pin /\ Target(r).creds = Append(r.got.creds, r.new)
    BY <1>1, <2>1
  <2> QED
    BY <1>1, <1>2, <2>2 DEF V!Saved
<1>3. CASE r.op = "repin"
  <2>1. Target(r) = [r.got EXCEPT !.pin = r.new]
    BY <1>3 DEF Target, Deletes
  <2>2. Target(r).key = r.got.key /\ Target(r).creds = r.got.creds
    BY <1>1, <2>1
  <2> QED
    BY <1>1, <2>2 DEF V!Saved
<1>4. CASE Deletes(r)
  <2>1. Target(r) = [r.got EXCEPT !.creds = Without(r.list, r.new)]
    BY <1>4 DEF Target, Deletes
  <2>2. Target(r).key = r.got.key /\ Target(r).pin = r.got.pin /\ Target(r).creds = Without(r.list, r.new)
    BY <1>1, <2>1
  <2>3. V!Fewer(r.got.creds, Target(r).creds)
    BY <1>1, <1>4, <2>2, WithoutFacts
  <2> QED
    BY <1>1, <2>2, <2>3 DEF V!Saved
<1>5. CASE r.op # "store" /\ r.op # "repin" /\ ~Deletes(r)
  <2>1. Target(r) = r.got
    BY <1>5 DEF Target
  <2> QED
    BY <1>1, <2>1 DEF V!Saved
<1> QED
  BY <1>2, <1>3, <1>4, <1>5

\* Open: the entry becomes what will be written.
LEMMA OpenSaves ==
  ASSUME WalletInv, VaultMeans, VaultMeans', NEW a \in Actors, Open(a)
  PROVE  [V!VNext]_(V!vvars)
<1> USE NoneFacts
<1>1. run[a] # None /\ run[a].pc = "open"
  BY DEF Open, At
<1>2. /\ TypeOK /\ run[a] \in Runs /\ run[a].w \in Wallets /\ run \in [Actors -> Runs \cup {None}]
      /\ Fits(a, run[a]) /\ (Saves(run[a]) => Holds(run[a]))
  BY <1>1, Before
<1>3. CASE Ends(a, FALSE) /\ UNCHANGED body
  <2>1. OnlyMoves(a) /\ run'[a] = None
    BY <1>2, <1>3, RunEnds DEF Ends
  <2>2. UNCHANGED V!vvars
    BY <1>1, <1>3, <2>1, QuietVault
  <2> QED
    BY <2>2
<1>4. CASE /\ run' = [run EXCEPT ![a].pc = "write", ![a].seal = plat]
           /\ body' = [body EXCEPT ![run[a].w] = Torn]
  <2>1. "write" \in Labels /\ plat \in Plats
    BY <1>2 DEF Labels, TypeOK
  <2>2. /\ OnlyMoves(a) /\ run'[a] \in Runs
        /\ Later(run[a], run'[a], "write", run[a].turn, run[a].got, run[a].list, plat)
    BY <1>2, <1>4, <2>1, RunSeal
  <2>3. PICK w \in Wallets : w = run[a].w
    BY <1>2
  <2>4. \A v \in Wallets \ {w} : body'[v] = body[v]
    BY <1>2, <1>4, <2>3 DEF TypeOK
  <2>5. \A v \in Wallets \ {w} : vault'[v] = vault[v] /\ (v \in saving' <=> v \in saving)
    BY <2>2, <2>3, <2>4, OthersStay DEF Later
  <2>6. Target(run[a])' = Target(run[a])
    BY <2>2 DEF Target, Later, Deletes
  <2>7. Writes(a, w)'
    BY <2>2, <2>3 DEF Writes, At, Later
  <2>8. vault'[w] = Target(run[a]) /\ w \in saving'
    BY <2>6, <2>7 DEF VaultMeans
  <2>9. /\ run[a].got \in Contents /\ Saves(run[a]) /\ Holds(run[a])
        /\ run[a].op = "store" => run[a].new \in Accounts
        /\ run[a].op = "repin" => run[a].new \in PINs
    BY <1>1, <1>2 DEF Fits, Saves
  <2>10. Target(run[a]) \in Contents
    BY <1>2, <2>9, TargetFacts
  <2>11. V!Saved(vault[w], Target(run[a]))
    <3>1. CASE run[a].op = "generate"
      <4>1. body[w] = None /\ run[a].got.creds = <<>>
        BY <1>1, <2>3, <2>9, <3>1 DEF Holds
      <4>2. vault[w] = None
        BY <4>1 DEF VaultMeans
      <4>3. Target(run[a]) = run[a].got
        BY <3>1 DEF Target, Deletes
      <4> QED
        BY <4>1, <4>2, <4>3 DEF V!Saved
    <3>2. CASE run[a].op # "generate"
      <4>1. body[w] = run[a].got /\ (Deletes(run[a]) => run[a].got.creds = run[a].list)
        BY <1>1, <2>3, <2>9, <3>2 DEF Holds
      <4>2. vault[w] = run[a].got
        BY <2>9, <4>1 DEF VaultMeans
      <4> QED
        BY <1>2, <2>9, <4>1, <4>2, SavedFacts
    <3> QED
      BY <3>1, <3>2
  <2>12. vault' = [vault EXCEPT ![w] = vault'[w]]
    BY <2>5 DEF VaultMeans
  <2>13. saving' = saving \cup {w}
    BY <2>5, <2>8 DEF VaultMeans
  <2>14. V!Save(w)
    BY <2>8, <2>10, <2>11, <2>12, <2>13 DEF V!Save
  <2> QED
    BY <2>14 DEF V!VNext
<1> QED
  BY <1>3, <1>4 DEF Open

\* Write: the save is over, as far as the body goes.
LEMMA WriteSettles ==
  ASSUME WalletInv, VaultMeans, VaultMeans', NEW a \in Actors, Write(a)
  PROVE  [V!VNext]_(V!vvars)
<1> USE NoneFacts
<1>1. run[a] # None /\ run[a].pc = "write"
  BY DEF Write, At
<1>2. /\ TypeOK /\ run[a] \in Runs /\ run[a].w \in Wallets /\ run \in [Actors -> Runs \cup {None}]
      /\ Fits(a, run[a]) /\ (Saves(run[a]) => Holds(run[a]))
  BY <1>1, Before
<1>3. PICK w \in Wallets : w = run[a].w
  BY <1>2
<1>4. Writes(a, w)
  BY <1>1, <1>3 DEF Writes, At
<1>5. body[w] = Torn /\ vault[w] = Target(run[a]) /\ w \in saving
  BY <1>4 DEF VaultMeans
<1>6. body' = [body EXCEPT ![w] = Target(run[a])]
  BY <1>3, <1>5 DEF Write, Written
<1>7. Target(run[a]) \in Contents
  BY <1>1, <1>2, TargetFacts DEF Fits
<1>8. body'[w] = Target(run[a]) /\ \A v \in Wallets \ {w} : body'[v] = body[v]
  BY <1>2, <1>6 DEF TypeOK
<1>9. vault'[w] = vault[w] /\ w \notin saving'
  BY <1>5, <1>7, <1>8 DEF VaultMeans
<1>10. run' = [run EXCEPT ![a].pc = "openStash"] /\ "openStash" \in Labels
  BY DEF Write, Goes, Labels
<1>11. /\ OnlyMoves(a) /\ run'[a] \in Runs
       /\ Later(run[a], run'[a], "openStash", run[a].turn, run[a].got, run[a].list, run[a].seal)
  BY <1>2, <1>10, RunPc
<1>12. \A v \in Wallets \ {w} : vault'[v] = vault[v] /\ (v \in saving' <=> v \in saving)
  BY <1>3, <1>8, <1>11, OthersStay DEF Later
<1>13. UNCHANGED vault /\ saving' = saving \ {w}
  BY <1>9, <1>12 DEF VaultMeans
<1>14. V!Settle(w)
  BY <1>5, <1>13 DEF V!Settle
<1> QED
  BY <1>14 DEF V!VNext

\* SaveFails: when the body had been emptied, the entry is lost.
LEMMA SaveFailsLoses ==
  ASSUME WalletInv, VaultMeans, VaultMeans', NEW a \in Actors, SaveFails(a)
  PROVE  [V!VNext]_(V!vvars)
<1> USE NoneFacts
<1>1. run[a] # None /\ UNCHANGED body
  BY DEF SaveFails, At, Files
<1>2. run[a] \in Runs /\ run[a].w \in Wallets /\ run \in [Actors -> Runs \cup {None}]
  BY <1>1, Before
<1>3. OnlyMoves(a) /\ run'[a] = None
  BY <1>2, RunEnds DEF SaveFails, Ends
<1>4. CASE run[a].pc # "write"
  <2>1. UNCHANGED V!vvars
    BY <1>1, <1>3, <1>4, QuietVault
  <2> QED
    BY <2>1
<1>5. CASE run[a].pc = "write"
  <2>1. PICK w \in Wallets : w = run[a].w
    BY <1>2
  <2>2. Writes(a, w)
    BY <1>1, <1>5, <2>1 DEF Writes, At
  <2>3. body[w] = Torn /\ w \in saving
    BY <2>2 DEF VaultMeans
  <2>4. \A b \in Actors : ~Writes(b, w)'
    <3> SUFFICES ASSUME NEW b \in Actors, Writes(b, w)' PROVE FALSE
      OBVIOUS
    <3>1. b # a /\ Writes(b, w)
      BY <1>3 DEF Writes, At, OnlyMoves
    <3>2. Saves(run[a])
      BY <1>1, <1>5, Before DEF Fits, Saves
    <3> QED
      BY <1>1, <2>1, <3>1, <3>2, NotBetween DEF Writes, At, Between
  <2>5. vault'[w] = None /\ w \notin saving'
    BY <1>1, <2>3, <2>4 DEF VaultMeans
  <2>6. \A v \in Wallets \ {w} : vault'[v] = vault[v] /\ (v \in saving' <=> v \in saving)
    BY <1>1, <1>3, <2>1, OthersStay
  <2>7. vault' = [v \in Wallets |-> IF v \in {w} THEN None ELSE vault[v]]
    BY <2>5, <2>6 DEF VaultMeans
  <2>8. saving' = saving \ {w} /\ {w} \in SUBSET saving
    BY <2>3, <2>5, <2>6 DEF VaultMeans
  <2>9. V!Lose({w})
    BY <2>7, <2>8 DEF V!Lose
  <2> QED
    BY <2>8, <2>9 DEF V!VNext
<1> QED
  BY <1>4, <1>5

\* RemoveBody: the entry is erased, or nothing happened to it.
LEMMA RemoveBodyErases ==
  ASSUME WalletInv, VaultMeans, VaultMeans', NEW a \in Actors, RemoveBody(a)
  PROVE  [V!VNext]_(V!vvars)
<1> USE NoneFacts
<1>1. run[a] # None /\ run[a].pc = "removeBody"
  BY DEF RemoveBody, At
<1>2. TypeOK /\ run[a] \in Runs /\ run[a].w \in Wallets /\ run \in [Actors -> Runs \cup {None}]
  BY <1>1, Before
<1>3. PICK w \in Wallets : w = run[a].w
  BY <1>2
<1>4. /\ body' = body \/ body' = [body EXCEPT ![w] = None]
      /\ Ends(a, FALSE) \/ Goes(a, "removeStash")
  BY <1>3 DEF RemoveBody
<1>5. OnlyMoves(a) /\ (run'[a] # None => run'[a].w = w /\ run'[a].pc = "removeStash")
  <2>1. CASE Ends(a, FALSE)
    BY <1>2, <2>1, RunEnds DEF Ends
  <2>2. CASE Goes(a, "removeStash")
    <3>1. run' = [run EXCEPT ![a].pc = "removeStash"] /\ "removeStash" \in Labels
      BY <2>2 DEF Goes, Labels
    <3> QED
      BY <1>2, <1>3, <3>1, RunPc DEF Later
  <2> QED
    BY <1>4, <2>1, <2>2
<1>6. CASE body' = body
  <2>1. UNCHANGED V!vvars
    BY <1>1, <1>5, <1>6, QuietVault
  <2> QED
    BY <2>1
<1>7. CASE body' = [body EXCEPT ![w] = None]
  <2>1. body'[w] = None /\ \A v \in Wallets \ {w} : body'[v] = body[v]
    BY <1>2, <1>7 DEF TypeOK
  <2>2. vault'[w] = None /\ w \notin saving'
    BY <2>1 DEF VaultMeans
  <2>3. w \notin saving
    <3>1. Saves(run[a])
      BY <1>1, Before DEF Fits, Saves, Reading
    <3>2. \A b \in Actors : ~Writes(b, w)
      BY <1>1, <1>3, <3>1, NotBetween DEF Writes, At, Between
    <3> QED
      BY <3>2 DEF VaultMeans
  <2>4. \A v \in Wallets \ {w} : vault'[v] = vault[v] /\ (v \in saving' <=> v \in saving)
    BY <1>3, <1>5, <2>1, OthersStay
  <2>5. vault' = [vault EXCEPT ![w] = None] /\ saving' = saving
    BY <2>2, <2>3, <2>4 DEF VaultMeans
  <2>6. V!Erase(w)
    BY <2>5 DEF V!Erase
  <2> QED
    BY <2>6 DEF V!VNext
<1> QED
  BY <1>4, <1>6, <1>7

\* Crash: every entry that is being saved is lost.
LEMMA CrashLoses ==
  ASSUME WalletInv, VaultMeans, VaultMeans', Crash
  PROVE  [V!VNext]_(V!vvars)
<1> USE NoneFacts
<1>1. UNCHANGED body /\ \A a \in Actors : run'[a] = None
  BY DEF Crash, Files
<1>2. \A w \in Wallets, a \in Actors : ~Writes(a, w)'
  BY <1>1 DEF Writes, At
<1>3. saving' = {}
  BY <1>2 DEF VaultMeans
<1>4. ASSUME NEW w \in saving PROVE vault'[w] = None
  <2>1. w \in Wallets /\ \E a \in Actors : Writes(a, w)
    BY DEF VaultMeans
  <2>2. body[w] = Torn
    BY <2>1 DEF VaultMeans
  <2> QED
    BY <1>1, <1>2, <2>1, <2>2 DEF VaultMeans
<1>5. ASSUME NEW w \in Wallets \ saving PROVE vault'[w] = vault[w]
  <2>1. \A a \in Actors : ~Writes(a, w)
    BY DEF VaultMeans
  <2> QED
    BY <1>1, <1>2, <2>1, VaultStays
<1>6. vault' = [w \in Wallets |-> IF w \in saving THEN None ELSE vault[w]]
  BY <1>4, <1>5 DEF VaultMeans
<1>7. V!Lose(saving)
  BY <1>3, <1>6 DEF V!Lose
<1> QED
  BY <1>7 DEF V!VNext

\* The steps that touch no body.
LEMMA OthersStutter ==
  ASSUME WalletInv, VaultMeans, VaultMeans', NEW a \in Actors,
         ReadBody(a) \/ ReadStash(a) \/ OpenStash(a) \/ WriteStash(a) \/ RemoveStash(a)
  PROVE  UNCHANGED V!vvars
<1> USE NoneFacts
<1>1. run[a] # None /\ run[a].pc # "write" /\ UNCHANGED body
  BY DEF ReadBody, ReadStash, OpenStash, WriteStash, RemoveStash, At, Files
<1>2. TypeOK /\ run[a] \in Runs /\ run[a].w \in Wallets /\ run \in [Actors -> Runs \cup {None}]
  BY <1>1, Before
<1>3. ASSUME NEW ok, Ends(a, ok) PROVE UNCHANGED V!vvars
  <2>1. OnlyMoves(a) /\ run'[a] = None
    BY <1>2, <1>3, RunEnds DEF Ends
  <2> QED
    BY <1>1, <2>1, QuietVault
<1>4. ASSUME NEW l \in Labels \ {"write"}, Goes(a, l) PROVE UNCHANGED V!vvars
  <2>1. OnlyMoves(a) /\ run'[a].pc = l
    BY <1>2, <1>4, RunPc DEF Goes, Later
  <2> QED
    BY <1>1, <2>1, QuietVault
<1>5. /\ "readStash" \in Labels \ {"write"} /\ "open" \in Labels \ {"write"}
      /\ "writeStash" \in Labels \ {"write"} /\ "readBody" \in Labels \ {"write"}
  BY DEF Labels
<1>6. CASE ReadBody(a)
  <2>1. CASE Exists(run[a].w)
    <3>1. run' = [run EXCEPT ![a].pc = "readStash", ![a].got = body[run[a].w]]
      BY <1>6, <2>1 DEF ReadBody
    <3>2. body[run[a].w] \in Contents \cup {None, Torn}
      BY <1>2 DEF TypeOK
    <3>3. OnlyMoves(a) /\ run'[a].pc = "readStash"
      BY <1>2, <1>5, <3>1, <3>2, RunGot DEF Later
    <3> QED
      BY <1>1, <3>3, QuietVault
  <2>2. CASE ~Exists(run[a].w)
    BY <1>3, <1>6, <2>2 DEF ReadBody
  <2> QED
    BY <2>1, <2>2
<1>7. CASE ReadStash(a)
  BY <1>3, <1>4, <1>5, <1>7 DEF ReadStash
<1>8. CASE OpenStash(a)
  BY <1>4, <1>5, <1>8 DEF OpenStash
<1>9. CASE WriteStash(a)
  <2>1. CASE Ends(a, run[a].turn = Turns(run[a]))
    BY <1>3, <2>1
  <2>2. CASE /\ run[a].turn < Turns(run[a])
             /\ run' = [run EXCEPT ![a].pc = "readBody", ![a].turn = @ + 1, ![a].list = run[a].got.creds]
    <3>1. run[a].turn < 3
      BY <1>2, <2>2, RunFacts DEF Turns
    <3>2. run[a].got \in Contents
      BY <1>1, <1>9, Before DEF Fits, WriteStash, At
    <3>3. run[a].got.creds \in Seq(Accounts)
      BY <3>2 DEF Contents
    <3>4. OnlyMoves(a) /\ run'[a].pc = "readBody"
      BY <1>2, <1>5, <2>2, <3>1, <3>3, RunTurn DEF Later
    <3> QED
      BY <1>1, <3>4, QuietVault
  <2> QED
    BY <1>9, <2>1, <2>2 DEF WriteStash, NextTurn
<1>10. CASE RemoveStash(a)
  BY <1>3, <1>10 DEF RemoveStash
<1> QED
  BY <1>6, <1>7, <1>8, <1>9, <1>10

\* An operation that begins, a new platform key: nothing of Vault's.
LEMMA BeginStutters ==
  ASSUME WalletInv, VaultMeans, VaultMeans', Start \/ ReplacePlatform
  PROVE  UNCHANGED V!vvars
<1> USE NoneFacts
<1>1. CASE Start
  <2>1. \E a \in Actors : \E op, w, p, new : Begin(a, op, w, p, new)
    <3>1. PICK w \in Wallets, p \in PINs :
             \/ ValidatePin(w, p) \/ UpdatePasskey(w, p)
             \/ LoadCredentials(w, p) \/ LoadPasskey(w, p) \/ UpdatePin(w, p)
             \/ DeleteCredential(w, p) \/ DeleteCredentials(w, p)
             \/ GeneratePasskey(w, p) \/ ErasePasskey(w, p) \/ RemovePasskey(w, p) \/ ManageCreds(w, p)
      BY <1>1 DEF Start
    <3>2. "request" \in Actors /\ "app" \in Actors
      BY DEF Actors
    <3>3. CASE ValidatePin(w, p) \/ UpdatePasskey(w, p)
      BY <3>2, <3>3, Zenon DEF ValidatePin, UpdatePasskey
    <3>4. CASE LoadCredentials(w, p) \/ LoadPasskey(w, p) \/ UpdatePin(w, p)
      BY <3>2, <3>4, Zenon DEF LoadCredentials, LoadPasskey, UpdatePin
    <3>5. CASE DeleteCredential(w, p) \/ DeleteCredentials(w, p)
      BY <3>2, <3>5, Zenon DEF DeleteCredential, DeleteCredentials
    <3>6. CASE GeneratePasskey(w, p) \/ ErasePasskey(w, p) \/ RemovePasskey(w, p) \/ ManageCreds(w, p)
      BY <3>2, <3>6, Zenon DEF GeneratePasskey, ErasePasskey, RemovePasskey, ManageCreds
    <3> QED
      BY <3>1, <3>3, <3>4, <3>5, <3>6
  <2>2. PICK a \in Actors : \E op, w, p, new : Begin(a, op, w, p, new)
    BY <2>1, Zenon
  <2>3. PICK op, w, p, new : Begin(a, op, w, p, new)
    BY <2>2, Zenon
  <2>4. run[a] = None /\ UNCHANGED body
    BY <2>3 DEF Begin
  <2>5. run'[a].pc = First(op) /\ \A b \in Actors \ {a} : run'[b] = run[b]
    BY <2>3 DEF Begin, WalletInv, TypeOK
  <2>6. First(op) # "write"
    BY DEF First
  <2>7. ASSUME NEW v \in Wallets PROVE vault'[v] = vault[v] /\ (v \in saving' <=> v \in saving)
    <3>1. \A b \in Actors : /\ Writes(b, v)' <=> Writes(b, v)
                            /\ Writes(b, v) => run'[b] = run[b]
      BY <2>4, <2>5, <2>6 DEF Writes, At
    <3> QED
      BY <2>4, <3>1, VaultStays
  <2> QED
    BY <2>7, VaultStutter
<1>2. CASE ReplacePlatform
  <2>1. UNCHANGED <<body, run>>
    BY <1>2 DEF ReplacePlatform, Files
  <2>2. ASSUME NEW v \in Wallets PROVE vault'[v] = vault[v] /\ (v \in saving' <=> v \in saving)
    BY <2>1, VaultStays DEF Writes, At
  <2> QED
    BY <2>2, VaultStutter
<1> QED
  BY <1>1, <1>2

\* Every step is one of Vault, or none.
LEMMA NextVault ==
  ASSUME WalletInv, VaultMeans, VaultMeans', [Next]_vars
  PROVE  [V!VNext]_(V!vvars)
<1>1. CASE Start \/ ReplacePlatform
  BY <1>1, BeginStutters
<1>2. ASSUME NEW a \in Actors, Step(a) PROVE [V!VNext]_(V!vvars)
  BY <1>2, OpenSaves, WriteSettles, SaveFailsLoses, RemoveBodyErases, OthersStutter DEF Step
<1>3. CASE Crash
  BY <1>3, CrashLoses
<1>4. CASE UNCHANGED vars
  <2>1. UNCHANGED <<body, run>>
    BY <1>4 DEF vars
  <2>2. ASSUME NEW v \in Wallets PROVE vault'[v] = vault[v] /\ (v \in saving' <=> v \in saving)
    BY <2>1, VaultStays DEF Writes, At
  <2>3. UNCHANGED V!vvars
    BY <2>2, VaultStutter
  <2> QED
    BY <2>3
<1> QED
  BY <1>1, <1>2, <1>3, <1>4 DEF Next

\* The two files of a wallet, written one after the other and cut short anywhere, behave like one
\* entry of Vault: the key never changes, credentials come one at a time and go without disturbing
\* the others, and only a failed save or a deletion makes the wallet vanish.
THEOREM VaultRefinement == Spec => VaultSpec
<1>1. Init => V!VInit
  <2> SUFFICES ASSUME Init PROVE V!VInit
    OBVIOUS
  <2>1. VaultMeans
    BY InitWalletInv, VaultMeaning
  <2>2. \A w \in Wallets : body[w] = None
    BY DEF Init
  <2>3. \A w \in Wallets, a \in Actors : ~Writes(a, w)
    BY DEF Init, Writes, At
  <2>4. saving = {} /\ \A w \in Wallets : vault[w] = None
    BY <2>1, <2>2, <2>3, NoneFacts DEF VaultMeans
  <2>5. vault = [w \in Wallets |-> None]
    BY <2>1, <2>4 DEF VaultMeans
  <2> QED
    BY <2>4, <2>5 DEF V!VInit
<1>2. WalletInv => VaultMeans
  BY VaultMeaning
<1>3. WalletInv /\ VaultMeans /\ VaultMeans' /\ [Next]_vars => [V!VNext]_(V!vvars)
  BY NextVault
<1>4. Spec => []WalletInv
  BY Invariance
<1> QED
  BY <1>1, <1>2, <1>3, <1>4, PTL DEF Spec, VaultSpec, V!VSpec

=============================================================================
