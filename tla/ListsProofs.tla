----------------------------- MODULE ListsProofs ----------------------------
(***************************************************************************)
(* The lists the client keeps by inserting, filtering and sorting, proved  *)
(* for every instance: the transaction history with its paged views, the   *)
(* trading pairs of the wallet, the order book and its price levels, and   *)
(* what the history and the trade page make of a transaction.  They rest   *)
(* on what filtering an array keeps and on sums over finite sets.          *)
(***************************************************************************)
EXTENDS TransactionHistory, Market, FiniteSetTheorems, WellFoundedInduction, TLAPS

LEMMA Induction ==
  ASSUME NEW T, 0 \in T, \A n \in Nat : n \in T => n + 1 \in T
  PROVE  Nat \subseteq T
<1> SUFFICES ASSUME Nat \ T # {} PROVE FALSE
  OBVIOUS
<1> DEFINE R == OpToRel(<, Nat)
<1>1. PICK x \in Nat \ T : \A y \in Nat \ T : ~ (<<y, x>> \in R)
  <2> HIDE DEF R
  <2>1. IsWellFoundedOn(R, Nat)
    BY NatLessThanWellFounded DEF R
  <2> QED
    BY <2>1, WFMin
<1>2. x # 0 /\ x - 1 \in Nat
  OBVIOUS
<1>3. x - 1 \in T
  <2>1. <<x - 1, x>> \in R
    BY <1>2 DEF OpToRel
  <2> QED
    BY <1>1, <1>2, <2>1
<1> QED
  BY <1>2, <1>3

-----------------------------------------------------------------------------
(***************************************************************************)
(* Keep.  Its recursive function exists: Kept(f, s, K, m) says that f is   *)
(* what is kept of the first 0 to m elements of s.                         *)
(***************************************************************************)
Kept(f, s, K, m) ==
  f = [n \in 0..m |-> IF n = 0 THEN <<>>
                      ELSE IF s[n] \in K THEN Append(f[n - 1], s[n]) ELSE f[n - 1]]

LEMMA KeptSteps ==
  ASSUME NEW f, NEW s, NEW K, NEW m \in Nat, Kept(f, s, K, m)
  PROVE  /\ f[0] = <<>>
         /\ \A n \in Nat : n + 1 <= m =>
              f[n + 1] = IF s[n + 1] \in K THEN Append(f[n], s[n + 1]) ELSE f[n]
<1>1. ASSUME NEW k \in 0..m
      PROVE  f[k] = IF k = 0 THEN <<>>
                    ELSE IF s[k] \in K THEN Append(f[k - 1], s[k]) ELSE f[k - 1]
  <2> DEFINE F == [n \in 0..m |-> IF n = 0 THEN <<>>
                                   ELSE IF s[n] \in K THEN Append(f[n - 1], s[n]) ELSE f[n - 1]]
  <2>1. F[k] = IF k = 0 THEN <<>>
               ELSE IF s[k] \in K THEN Append(f[k - 1], s[k]) ELSE f[k - 1]
    OBVIOUS
  <2>2. f = F
    BY DEF Kept
  <2> HIDE DEF F
  <2> QED
    BY <2>1, <2>2
<1>2. 0 \in 0..m
  OBVIOUS
<1>3. ASSUME NEW n \in Nat, n + 1 <= m
      PROVE  f[n + 1] = IF s[n + 1] \in K THEN Append(f[n], s[n + 1]) ELSE f[n]
  <2>1. PICK k \in 0..m : k = n + 1
    BY <1>3
  <2>2. k # 0 /\ k - 1 = n
    BY <2>1
  <2>3. f[k] = IF s[k] \in K THEN Append(f[n], s[k]) ELSE f[n]
    BY <1>1, <2>2
  <2> QED
    BY <2>1, <2>3
<1> QED
  BY <1>1, <1>2, <1>3

LEMMA KeptTo ==
  ASSUME NEW s, NEW K, NEW m \in Nat
  PROVE  \E f : Kept(f, s, K, m)
<1> DEFINE T == {k \in Nat : \E f : Kept(f, s, K, k)}
<1>1. 0 \in T
  <2> DEFINE f == [n \in 0..0 |-> <<>>]
  <2>1. Kept(f, s, K, 0)
    BY DEF Kept
  <2> QED
    BY <2>1
<1>2. ASSUME NEW k \in Nat, k \in T
      PROVE  k + 1 \in T
  <2>1. PICK f : Kept(f, s, K, k)
    BY <1>2
  <2> DEFINE more == IF s[k + 1] \in K THEN Append(f[k], s[k + 1]) ELSE f[k]
             h == [n \in 0..k + 1 |-> IF n = k + 1 THEN more ELSE f[n]]
             step(n) == IF n = 0 THEN <<>>
                        ELSE IF s[n] \in K THEN Append(h[n - 1], s[n]) ELSE h[n - 1]
  <2>2. ASSUME NEW n \in 0..k + 1
        PROVE  h[n] = step(n)
    <3>1. CASE n = k + 1
      <4>1. h[n] = more /\ n - 1 = k /\ h[n - 1] = f[k] /\ n # 0
        BY <3>1
      <4> HIDE DEF h
      <4> QED
        BY <3>1, <4>1
    <3>2. CASE n = 0
      BY <2>1, <3>2 DEF Kept
    <3>3. CASE n # k + 1 /\ n # 0
      <4>1. n \in 0..k /\ n - 1 \in 0..k
        BY <3>3
      <4>2. h[n] = f[n] /\ h[n - 1] = f[n - 1]
        BY <4>1
      <4> HIDE DEF h
      <4> QED
        BY <2>1, <3>3, <4>1, <4>2 DEF Kept
    <3> QED
      BY <3>1, <3>2, <3>3
  <2>3. h = [n \in 0..k + 1 |-> h[n]]
    OBVIOUS
  <2> HIDE DEF h
  <2>4. Kept(h, s, K, k + 1)
    BY <2>2, <2>3 DEF Kept
  <2> QED
    BY <2>4
<1> HIDE DEF T
<1>3. m \in T
  BY <1>1, <1>2, Induction
<1> QED
  BY <1>3 DEF T

LEMMA Keeps ==
  ASSUME NEW s, NEW K, Len(s) \in Nat
  PROVE  \E f : Kept(f, s, K, Len(s)) /\ Keep(s, K) = f[Len(s)]
<1> DEFINE L == Len(s)
           r == CHOOSE f : Kept(f, s, K, L)
<1>1. Kept(r, s, K, L)
  BY KeptTo, Zenon
<1>2. Keep(s, K) = r[L]
  BY Zenon DEF Keep, Kept
<1> QED
  BY <1>1, <1>2, Zenon

(* An element that is not wanted, put in front, changes nothing. *)
LEMMA KeepLater ==
  ASSUME NEW S, NEW s \in Seq(S), NEW t \in S, NEW K, t \notin K
  PROVE  Keep(<<t>> \o s, K) = Keep(s, K)
<1> DEFINE u == <<t>> \o s
           L == Len(s)
<1>1. /\ L \in Nat /\ Len(u) = L + 1 /\ u[1] = t
      /\ \A n \in 1..L : u[n + 1] = s[n]
  OBVIOUS
<1>2. PICK f : Kept(f, s, K, L) /\ Keep(s, K) = f[L]
  BY <1>1, Keeps
<1> HIDE DEF u, L
<1>3. PICK g : Kept(g, u, K, L + 1) /\ Keep(u, K) = g[L + 1]
  BY <1>1, Keeps
<1> DEFINE T == {n \in Nat : n <= L => g[n + 1] = f[n]}
<1>4. /\ f[0] = <<>> /\ g[0] = <<>>
      /\ \A n \in Nat : n + 1 <= L =>
           f[n + 1] = IF s[n + 1] \in K THEN Append(f[n], s[n + 1]) ELSE f[n]
      /\ \A n \in Nat : n + 1 <= L + 1 =>
           g[n + 1] = IF u[n + 1] \in K THEN Append(g[n], u[n + 1]) ELSE g[n]
  BY <1>1, <1>2, <1>3, KeptSteps
<1>5. 0 \in T
  <2>1. g[0 + 1] = IF u[0 + 1] \in K THEN Append(g[0], u[0 + 1]) ELSE g[0]
    BY <1>1, <1>4
  <2> QED
    BY <1>1, <1>4, <2>1
<1>6. ASSUME NEW n \in Nat, n \in T
      PROVE  n + 1 \in T
  <2> SUFFICES ASSUME n + 1 <= L PROVE g[n + 1 + 1] = f[n + 1]
    OBVIOUS
  <2>1. f[n + 1] = IF s[n + 1] \in K THEN Append(f[n], s[n + 1]) ELSE f[n]
    BY <1>4
  <2>2. PICK k \in Nat : k = n + 1
    OBVIOUS
  <2>3. g[k + 1] = IF u[k + 1] \in K THEN Append(g[k], u[k + 1]) ELSE g[k]
    BY <1>1, <1>4, <2>2
  <2>4. g[k] = f[n] /\ u[k + 1] = s[k]
    BY <1>1, <1>6, <2>2
  <2> QED
    BY <2>1, <2>2, <2>3, <2>4
<1> HIDE DEF T
<1>7. L \in T
  BY <1>1, <1>5, <1>6, Induction
<1> QED
  BY <1>1, <1>2, <1>3, <1>7 DEF T, u

(* What is kept are the wanted elements, in the order they were in. *)
KeepsOrder(k, s, K, R, n) ==
  /\ \A e : (\E i \in DOMAIN k : k[i] = e) <=> e \in K /\ \E i \in 1..n : s[i] = e
  /\ \A i, j \in DOMAIN k : i < j => <<k[i], k[j]>> \in R

LEMMA KeepInOrder ==
  ASSUME NEW S, NEW s \in Seq(S), NEW K, NEW R,
         \A i, j \in DOMAIN s : i < j => <<s[i], s[j]>> \in R
  PROVE  Keep(s, K) \in Seq(S) /\ KeepsOrder(Keep(s, K), s, K, R, Len(s))
<1> DEFINE L == Len(s)
<1>1. L \in Nat /\ DOMAIN s = 1..L /\ \A n \in 1..L : s[n] \in S
  OBVIOUS
<1>2. PICK f : Kept(f, s, K, L) /\ Keep(s, K) = f[L]
  BY <1>1, Keeps
<1> HIDE DEF L
<1>3. /\ f[0] = <<>>
      /\ \A n \in Nat : n + 1 <= L =>
           f[n + 1] = IF s[n + 1] \in K THEN Append(f[n], s[n + 1]) ELSE f[n]
  BY <1>1, <1>2, KeptSteps
<1> DEFINE T == {n \in Nat : n <= L => f[n] \in Seq(S) /\ KeepsOrder(f[n], s, K, R, n)}
<1>4. 0 \in T
  <2>1. f[0] = <<>>
    BY <1>3
  <2>2. <<>> \in Seq(S) /\ KeepsOrder(<<>>, s, K, R, 0)
    BY DEF KeepsOrder
  <2> QED
    BY <2>1, <2>2
<1>5. ASSUME NEW n \in Nat, n \in T
      PROVE  n + 1 \in T
  <2> SUFFICES ASSUME n + 1 <= L
               PROVE  f[n + 1] \in Seq(S) /\ KeepsOrder(f[n + 1], s, K, R, n + 1)
    OBVIOUS
  <2> DEFINE a == f[n]
             b == f[n + 1]
             e == s[n + 1]
  <2>1. n + 1 \in 1..L /\ n + 1 \in 0..L /\ n + 1 # 0 /\ n + 1 - 1 = n /\ n <= L
    BY <1>1
  <2>2. b = IF e \in K THEN Append(a, e) ELSE a
    BY <1>3
  <2>3. a \in Seq(S) /\ KeepsOrder(a, s, K, R, n) /\ e \in S
    BY <1>1, <1>5, <2>1
  <2>4. \A i \in 1..n : <<s[i], e>> \in R
    BY <1>1, <2>1
  <2>5. \A x : (\E i \in 1..n + 1 : s[i] = x) <=> x = e \/ \E i \in 1..n : s[i] = x
    <3>1. 1..n + 1 = 1..n \cup {n + 1}
      OBVIOUS
    <3> QED
      BY <3>1
  <2> HIDE DEF a, b, e
  <2>6. CASE e \notin K
    BY <2>2, <2>3, <2>5, <2>6 DEF KeepsOrder, a, b
  <2>7. CASE e \in K
    <3>1. b = Append(a, e)
      BY <2>2, <2>7
    <3>2. /\ b \in Seq(S) /\ Len(a) \in Nat /\ DOMAIN a = 1..Len(a) /\ DOMAIN b = 1..Len(a) + 1
          /\ b[Len(a) + 1] = e /\ \A i \in 1..Len(a) : b[i] = a[i]
      <4>1. a \in Seq(S) /\ e \in S
        BY <2>3
      <4>2. Len(a) \in Nat /\ DOMAIN a = 1..Len(a)
        BY <4>1
      <4>3. b \in Seq(S)
        BY <3>1, <4>1
      <4>4. /\ Len(b) = Len(a) + 1 /\ b[Len(a) + 1] = e
            /\ \A i \in 1..Len(a) : b[i] = a[i]
        BY <3>1, <4>1, <4>2
      <4> QED
        BY <4>2, <4>3, <4>4
    <3>3. \A x : (\E i \in DOMAIN b : b[i] = x) <=> x \in K /\ \E i \in 1..n + 1 : s[i] = x
      <4>1. \A x : (\E i \in DOMAIN b : b[i] = x) <=> x = e \/ \E i \in DOMAIN a : a[i] = x
        <5>1. Len(a) + 1 \in DOMAIN b /\ \A i \in DOMAIN a : i \in DOMAIN b
          BY <3>2
        <5>2. \A i \in DOMAIN b : i = Len(a) + 1 \/ i \in DOMAIN a
          BY <3>2
        <5> QED
          BY <3>2, <5>1, <5>2, Zenon
      <4> QED
        BY <2>3, <2>5, <2>7, <4>1 DEF KeepsOrder
    <3>4. ASSUME NEW i \in DOMAIN b, NEW j \in DOMAIN b, i < j
          PROVE  <<b[i], b[j]>> \in R
      <4>1. CASE j = Len(a) + 1
        <5>1. i \in DOMAIN a /\ b[i] = a[i] /\ b[j] = e
          BY <3>2, <3>4, <4>1
        <5>2. \E k \in 1..n : s[k] = a[i]
          BY <2>3, <5>1 DEF KeepsOrder
        <5> QED
          BY <2>4, <5>1, <5>2
      <4>2. CASE j # Len(a) + 1
        <5>1. i \in DOMAIN a /\ j \in DOMAIN a /\ b[i] = a[i] /\ b[j] = a[j]
          BY <3>2, <3>4, <4>2
        <5> QED
          BY <2>3, <3>4, <5>1 DEF KeepsOrder
      <4> QED
        BY <4>1, <4>2
    <3> QED
      BY <3>2, <3>3, <3>4 DEF KeepsOrder, b
  <2> QED
    BY <2>6, <2>7
<1> HIDE DEF T
<1>6. L \in T
  BY <1>1, <1>4, <1>5, Induction
<1> QED
  BY <1>1, <1>2, <1>6 DEF T, L
-----------------------------------------------------------------------------
(***************************************************************************)
(* The inductive invariant.  While nothing has raced, the service rests,   *)
(* with nothing but events on the wire, or the one call of the view is     *)
(* under way, on the server, answered or refused, with nothing else on the *)
(* wire.                                                                   *)
(***************************************************************************)
Down(top, n) == [i \in 1..n |-> top + 1 - i]
Coming(top, n) == [i \in 1..n |-> [kind |-> "tx", tx |-> top - n + i]]

Loaded(top) ==
  /\ Len(history) \in 0..top /\ history = Down(top, Len(history))
  /\ allLoaded => Len(history) = top

IsView(v) == v = [reader |-> v.reader, page |-> v.page, rows |-> v.rows]
OfView(call) == call.view = views /\ call.reader = view.reader /\ call.page = view.page
Shows(v, h) ==
  LET rows == Filtered(v.reader, h)
  IN  Reaches(rows, v.page) => v.rows = PageOf(rows, v.page)

Resting ==
  /\ asked = {} /\ Len(wire) \in 0..ledger /\ wire = Coming(ledger, Len(wire))
  /\ Loaded(ledger - Len(wire)) /\ (~missed => Shows(view, history))
Asking ==
  /\ wire = <<>> /\ ~allLoaded /\ Loaded(ledger)
  /\ \E q \in asked : asked = {q} /\ q.offset = Len(history) /\ OfView(q.call)
Answered ==
  /\ asked = {} /\ ~allLoaded /\ Loaded(ledger)
  /\ Len(wire) = 1 /\ wire = <<wire[1]>> /\ wire[1].kind = "page" /\ OfView(wire[1].call)
  /\ LET rows == wire[1].rows
     IN  /\ Len(rows) \in 0..ledger - Len(history)
         /\ rows = Down(ledger - Len(history), Len(rows))
         /\ Len(rows) = 0 => Len(history) = ledger
Refused ==
  /\ asked = {} /\ Loaded(ledger)
  /\ \E m : wire = <<m>> /\ m.kind = "refusal" /\ OfView(m.call)

Unraced ==
  /\ ledger \in Nat /\ allLoaded \in BOOLEAN /\ IsView(view)
  /\ Resting \/ Asking \/ Answered \/ Refused
HistoryInv == raced \/ Unraced

-----------------------------------------------------------------------------
(* Sequences that count down, and the events to come. *)
LEMMA SameSeq ==
  ASSUME NEW S, NEW s \in Seq(S), NEW t \in Seq(S), Len(s) = Len(t),
         \A i \in 1..Len(s) : s[i] = t[i]
  PROVE  s = t
OBVIOUS

LEMMA JoinIs ==
  ASSUME NEW s \in Seq(Int), NEW t \in Seq(Int)
  PROVE  /\ s \o t \in Seq(Int) /\ Len(s \o t) = Len(s) + Len(t)
         /\ \A i \in 1..Len(s) : (s \o t)[i] = s[i]
         /\ \A i \in 1..Len(t) : (s \o t)[Len(s) + i] = t[i]
OBVIOUS

LEMMA DownIs ==
  ASSUME NEW top \in Int, NEW n \in Nat
  PROVE  /\ Down(top, n) \in Seq(Int) /\ Len(Down(top, n)) = n
         /\ \A i \in 1..n : Down(top, n)[i] = top + 1 - i
BY DEF Down

LEMMA DownJoins ==
  ASSUME NEW top \in Int, NEW n \in Nat, NEW m \in Nat
  PROVE  Down(top, n) \o Down(top - n, m) = Down(top, n + m)
<1> DEFINE s == Down(top, n)
           t == Down(top - n, m)
           u == Down(top, n + m)
<1>1. /\ s \in Seq(Int) /\ Len(s) = n /\ \A i \in 1..n : s[i] = top + 1 - i
      /\ t \in Seq(Int) /\ Len(t) = m /\ \A i \in 1..m : t[i] = top - n + 1 - i
      /\ u \in Seq(Int) /\ Len(u) = n + m /\ \A i \in 1..n + m : u[i] = top + 1 - i
  BY DownIs
<1> HIDE DEF s, t, u
<1>2. /\ s \o t \in Seq(Int) /\ Len(s \o t) = n + m
      /\ \A i \in 1..n : (s \o t)[i] = s[i]
      /\ \A i \in 1..m : (s \o t)[n + i] = t[i]
  <2>1. s \in Seq(Int) /\ t \in Seq(Int) /\ Len(s) = n /\ Len(t) = m
    BY <1>1
  <2>2. /\ s \o t \in Seq(Int) /\ Len(s \o t) = Len(s) + Len(t)
        /\ \A i \in 1..Len(s) : (s \o t)[i] = s[i]
        /\ \A i \in 1..Len(t) : (s \o t)[Len(s) + i] = t[i]
    BY <2>1, JoinIs, Zenon
  <2> QED
    BY <2>1, <2>2
<1>3. ASSUME NEW i \in 1..n + m PROVE (s \o t)[i] = u[i]
  <2>1. CASE i <= n
    <3>1. i \in 1..n
      BY <2>1
    <3> QED
      BY <1>1, <1>2, <3>1
  <2>2. CASE i > n
    <3>1. PICK j \in 1..m : i = n + j
      <4>1. i - n \in 1..m /\ i = n + (i - n)
        BY <2>2
      <4> QED
        BY <4>1
    <3>2. (s \o t)[i] = t[j] /\ t[j] = top - n + 1 - j
      BY <1>1, <1>2, <3>1
    <3>3. u[i] = top + 1 - i
      BY <1>1
    <3>4. top - n + 1 - j = top + 1 - i
      BY <3>1
    <3> QED
      BY <3>2, <3>3, <3>4, Zenon
  <2>3. i <= n \/ i > n
    OBVIOUS
  <2> QED
    BY <2>1, <2>2, <2>3, Zenon
<1>4. s \o t = u
  BY <1>1, <1>2, <1>3, SameSeq
<1> QED
  BY <1>4 DEF s, t, u

LEMMA DownHead ==
  ASSUME NEW top \in Int, NEW n \in Nat
  PROVE  <<top + 1>> \o Down(top, n) = Down(top + 1, n + 1)
<1>1. PICK x \in Int : x = top + 1
  OBVIOUS
<1>2. Down(x, 1) = <<x>>
  <2> DEFINE s == Down(x, 1)
  <2>1. s \in Seq(Int) /\ Len(s) = 1 /\ \A i \in 1..1 : s[i] = x + 1 - i
    BY DownIs
  <2> HIDE DEF s
  <2>2. <<x>> \in Seq(Int) /\ Len(<<x>>) = 1 /\ <<x>>[1] = x /\ x + 1 - 1 = x
    OBVIOUS
  <2>3. s = <<x>>
    BY <2>1, <2>2, SameSeq
  <2> QED
    BY <2>3 DEF s
<1>3. Down(x, 1) \o Down(x - 1, n) = Down(x, 1 + n)
  BY DownJoins
<1>4. x - 1 = top /\ 1 + n = n + 1
  BY <1>1
<1> QED
  BY <1>1, <1>2, <1>3, <1>4

LEMMA DownPart ==
  ASSUME NEW l \in Nat, NEW k \in 0..l, NEW e \in k..l
  PROVE  SubSeq(Down(l, l), k + 1, e) = Down(l - k, e - k)
<1> DEFINE s == Down(l, l)
           t == Down(l - k, e - k)
           u == SubSeq(s, k + 1, e)
<1>1. /\ s \in Seq(Int) /\ Len(s) = l /\ \A i \in 1..l : s[i] = l + 1 - i
      /\ t \in Seq(Int) /\ Len(t) = e - k /\ \A i \in 1..e - k : t[i] = l - k + 1 - i
  <2>1. l - k \in Int /\ e - k \in Nat /\ l \in Int
    OBVIOUS
  <2>2. s \in Seq(Int) /\ Len(s) = l /\ \A i \in 1..l : s[i] = l + 1 - i
    BY DownIs
  <2>3. t \in Seq(Int) /\ Len(t) = e - k /\ \A i \in 1..e - k : t[i] = l - k + 1 - i
    BY <2>1, DownIs
  <2> QED
    BY <2>2, <2>3
<1> HIDE DEF s, t
<1>2. /\ Len(u) = e - k /\ \A i \in 1..e - k : u[i] = s[i + k]
      /\ u \in Seq(Int)
  <2>1. l \in Nat /\ k \in Nat /\ e \in Nat /\ k <= e /\ e <= l
    OBVIOUS
  <2>2. u \in Seq(Int) /\ Len(u) = e - k
    BY <1>1, <2>1
  <2>3. \A i \in 1..e - k : u[i] = s[i + k]
    BY <1>1, <2>1
  <2> QED
    BY <2>2, <2>3
<1> HIDE DEF u
<1>3. \A i \in 1..e - k : u[i] = t[i]
  BY <1>1, <1>2
<1>4. u = t
  BY <1>1, <1>2, <1>3, SameSeq
<1> QED
  BY <1>4 DEF s, t, u

LEMMA ComingIs ==
  ASSUME NEW top \in Int, NEW n \in Nat
  PROVE  /\ Coming(top, n) \in Seq([kind : {"tx"}, tx : Int]) /\ Len(Coming(top, n)) = n
         /\ \A i \in 1..n : Coming(top, n)[i] = [kind |-> "tx", tx |-> top - n + i]
BY DEF Coming

LEMMA ComingNone ==
  ASSUME NEW top \in Int
  PROVE  Coming(top, 0) = <<>>
<1>1. 0 \in Nat
  OBVIOUS
<1>2. Coming(top, 0) \in Seq([kind : {"tx"}, tx : Int]) /\ Len(Coming(top, 0)) = 0
  BY <1>1, ComingIs, Zenon
<1> QED
  BY <1>2

LEMMA ComingMore ==
  ASSUME NEW top \in Int, NEW n \in Nat
  PROVE  Append(Coming(top, n), [kind |-> "tx", tx |-> top + 1]) = Coming(top + 1, n + 1)
<1> DEFINE M == [kind : {"tx"}, tx : Int]
           m == [kind |-> "tx", tx |-> top + 1]
           s == Coming(top, n)
           t == Append(s, m)
           u == Coming(top + 1, n + 1)
<1>1. /\ s \in Seq(M) /\ Len(s) = n /\ \A i \in 1..n : s[i] = [kind |-> "tx", tx |-> top - n + i]
      /\ u \in Seq(M) /\ Len(u) = n + 1
      /\ \A i \in 1..n + 1 : u[i] = [kind |-> "tx", tx |-> top + 1 - (n + 1) + i]
      /\ m \in M
  BY ComingIs
<1> HIDE DEF s, u
<1>2. u[n + 1] = m /\ \A i \in 1..n : u[i] = s[i]
  BY <1>1
<1> HIDE DEF m, M
<1>3. t \in Seq(M) /\ Len(t) = n + 1 /\ t[n + 1] = m /\ \A i \in 1..n : t[i] = s[i]
  BY <1>1
<1>4. \A i \in 1..n + 1 : t[i] = u[i]
  BY <1>2, <1>3
<1> HIDE DEF t
<1>5. t = u
  BY <1>1, <1>3, <1>4, SameSeq
<1> QED
  BY <1>5 DEF s, t, u, m

LEMMA ComingLess ==
  ASSUME NEW top \in Int, NEW n \in Nat \ {0}
  PROVE  /\ Tail(Coming(top, n)) = Coming(top, n - 1)
         /\ Head(Coming(top, n)) = [kind |-> "tx", tx |-> top - n + 1]
<1> DEFINE M == [kind : {"tx"}, tx : Int]
           s == Coming(top, n)
           t == Tail(s)
           u == Coming(top, n - 1)
<1>1. PICK m \in Nat : m = n - 1
  OBVIOUS
<1>2. /\ s \in Seq(M) /\ Len(s) = n /\ \A i \in 1..n : s[i] = [kind |-> "tx", tx |-> top - n + i]
      /\ u \in Seq(M) /\ Len(u) = m /\ \A i \in 1..m : u[i] = [kind |-> "tx", tx |-> top - m + i]
  BY <1>1, ComingIs
<1> HIDE DEF s, u
<1>3. Head(s) = [kind |-> "tx", tx |-> top - n + 1]
  BY <1>2
<1>4. ASSUME NEW i \in 1..m PROVE s[i + 1] = u[i]
  <2>1. i + 1 \in 1..n /\ top - n + (i + 1) = top - m + i
    BY <1>1
  <2>2. s[i + 1] = [kind |-> "tx", tx |-> top - n + (i + 1)]
    BY <1>2, <2>1
  <2>3. u[i] = [kind |-> "tx", tx |-> top - m + i]
    BY <1>2
  <2> QED
    BY <2>1, <2>2, <2>3
<1> HIDE DEF M
<1>5. t \in Seq(M) /\ Len(t) = m /\ \A i \in 1..m : t[i] = s[i + 1]
  BY <1>1, <1>2
<1> HIDE DEF t
<1>6. t = u
  BY <1>2, <1>4, <1>5, SameSeq
<1> QED
  BY <1>3, <1>6 DEF s, t, u

-----------------------------------------------------------------------------
(* When a call or an event is under way. *)
LEMMA OutWhen ==
  ASSUME NEW w, NEW S, w \in Seq(S)
  PROVE  /\ Outstanding(asked, w) = {} => asked = {} /\ \A i \in DOMAIN w : w[i].kind = "tx"
         /\ Events(w) = {} => \A i \in DOMAIN w : w[i].kind # "tx"
<1>1. ASSUME asked # {} PROVE Outstanding(asked, w) # {}
  BY <1>1 DEF Outstanding
<1>2. ASSUME NEW i \in DOMAIN w, w[i].kind # "tx" PROVE Outstanding(asked, w) # {}
  <2>1. w[i] \in {n \in Range(w) : n.kind # "tx"}
    BY <1>2 DEF Range
  <2>2. w[i].call \in Outstanding(asked, w)
    BY <2>1, Zenon DEF Outstanding
  <2> QED
    BY <2>2
<1>3. ASSUME NEW i \in DOMAIN w, w[i].kind = "tx" PROVE Events(w) # {}
  <2>1. w[i] \in Events(w)
    BY <1>3 DEF Events, Range
  <2> QED
    BY <2>1
<1> QED
  BY <1>1, <1>2, <1>3

LEMMA QuietWhen ==
  ASSUME Unraced, Outstanding(asked, wire) = {}
  PROVE  Resting
<1>1. CASE Asking
  <2>1. asked # {}
    BY <1>1 DEF Asking
  <2> QED
    BY <2>1 DEF Outstanding
<1>2. CASE Answered
  <2>1. Len(wire) = 1 /\ wire = <<wire[1]>> /\ wire[1].kind = "page"
    BY <1>2 DEF Answered
  <2>2. PICK m : m = wire[1]
    OBVIOUS
  <2>3. m \in {m} /\ wire = <<m>>
    BY <2>1, <2>2
  <2>4. wire \in Seq({m}) /\ 1 \in DOMAIN wire
    BY <2>3
  <2> QED
    BY <2>1, <2>4, OutWhen
<1>3. CASE Refused
  <2>1. PICK m : wire = <<m>> /\ m.kind = "refusal"
    BY <1>3 DEF Refused
  <2>2. wire \in Seq({m}) /\ 1 \in DOMAIN wire /\ wire[1] = m
    BY <2>1
  <2> QED
    BY <2>1, <2>2, OutWhen
<1> QED
  BY <1>1, <1>2, <1>3 DEF Unraced

LEMMA NoEvents ==
  ASSUME NEW top \in Int, NEW n \in Nat, Events(Coming(top, n)) = {}
  PROVE  n = 0 /\ Coming(top, n) = <<>>
<1> DEFINE w == Coming(top, n)
<1>1. /\ w \in Seq([kind : {"tx"}, tx : Int]) /\ Len(w) = n
      /\ \A i \in 1..n : w[i] = [kind |-> "tx", tx |-> top - n + i]
  BY ComingIs
<1>2. \A i \in 1..n : w[i].kind = "tx"
  BY <1>1
<1>3. \A i \in DOMAIN w : w[i].kind # "tx"
  BY <1>1, OutWhen
<1> HIDE DEF w
<1>4. n = 0
  BY <1>1, <1>2, <1>3
<1>5. w = <<>>
  BY <1>1, <1>4
<1> QED
  BY <1>4, <1>5 DEF w

(* getPage, when nothing else is under way: the view shows its page, or its *)
(* call is the one that is.                                                 *)
LEMMA PageAsked ==
  ASSUME NEW call, NEW v, NEW h, NEW all \in BOOLEAN,
         GetPage(call, v, h, all, {}), IsView(v),
         call.view = views', call.reader = v.reader, call.page = v.page,
         history' = h, allLoaded' = all, wire' = <<>>, ledger' \in Nat,
         Loaded(ledger)'
  PROVE  Unraced'
<1> DEFINE rows == Filtered(call.reader, h)
           short == ~all /\ Len(rows) < (call.page + 1) * PerPage
<1>1. /\ asked' = IF short THEN {[call |-> call, offset |-> Len(h)]} ELSE {}
      /\ view' = IF ~short /\ Reaches(rows, call.page)
                 THEN [v EXCEPT !.rows = PageOf(rows, call.page)]
                 ELSE v
  BY DEF GetPage, Offset
<1>2. v = [reader |-> v.reader, page |-> v.page, rows |-> v.rows]
  BY DEF IsView
<1>3. CASE short
  <2>1. asked' = {[call |-> call, offset |-> Len(h)]} /\ view' = v /\ ~all
    BY <1>1, <1>3
  <2>2. Asking'
    BY <2>1 DEF Asking, OfView
  <2> QED
    BY <2>1, <2>2 DEF Unraced, IsView
<1>4. CASE ~short
  <2> DEFINE p == PageOf(rows, call.page)
  <2>1. asked' = {} /\ view' = IF Reaches(rows, call.page) THEN [v EXCEPT !.rows = p] ELSE v
    BY <1>1, <1>4
  <2> HIDE DEF p, rows
  <2>2. /\ view' = [reader |-> v.reader, page |-> v.page, rows |-> view'.rows]
        /\ Reaches(rows, call.page) => view'.rows = p
    BY <1>2, <2>1
  <2>3. view'.reader = v.reader /\ view'.page = v.page
    BY <2>2
  <2>4. Shows(view, history)'
    BY <2>2, <2>3 DEF Shows, rows, p
  <2>5. Coming(ledger', 0) = <<>> /\ Len(<<>>) = 0 /\ ledger' - 0 = ledger'
    <3>1. PICK t \in Nat : t = ledger'
      OBVIOUS
    <3>2. t \in Int /\ t - 0 = t
      OBVIOUS
    <3>3. Coming(t, 0) = <<>>
      BY <3>2, ComingNone, Zenon
    <3> QED
      BY <3>1, <3>2, <3>3
  <2>6. Resting'
    BY <2>1, <2>4, <2>5 DEF Resting
  <2>7. IsView(view)'
    BY <2>2, <2>3 DEF IsView
  <2> QED
    BY <2>6, <2>7 DEF Unraced
<1> QED
  BY <1>3, <1>4

-----------------------------------------------------------------------------
(* The steps. *)
LEMMA Refreshed ==
  ASSUME NEW v, NEW n \in Nat, Refresh(v, history', wire'), IsView(v), ~raced',
         asked = {}, allLoaded \in BOOLEAN, allLoaded' = allLoaded,
         ledger' \in Nat, wire' = Coming(ledger', n), Loaded(ledger - n)'
  PROVE  Unraced'
<1> DEFINE out == Outstanding(asked, wire')
           free == {i \in 1..Cardinality(out) + 1 : \A c \in out : c.id # i}
           call == [id |-> Min(free), view |-> views', reader |-> v.reader, page |-> v.page]
<1>1. Events(wire') = {}
  BY DEF Refresh
<1>2. GetPage(call, v, history', allLoaded, {})
  BY DEF Refresh
<1>3. n = 0 /\ wire' = <<>>
  BY <1>1, NoEvents
<1>4. call.view = views' /\ call.reader = v.reader /\ call.page = v.page
  OBVIOUS
<1> HIDE DEF call, free, out
<1>5. Loaded(ledger)'
  <2>1. PICK l \in Nat : l = ledger'
    OBVIOUS
  <2>2. l - n = l
    BY <1>3
  <2> QED
    BY <2>1, <2>2 DEF Loaded
<1> QED
  BY <1>2, <1>3, <1>4, <1>5, PageAsked

LEMMA CallMade ==
  ASSUME Unraced, ~raced', NEW v, IsView(v), Refresh(v, history, wire),
         UNCHANGED <<ledger, history, allLoaded, wire>>
  PROVE  Unraced'
<1>1. Outstanding(asked, wire) = {}
  BY DEF Refresh
<1>2. Resting
  BY <1>1, QuietWhen
<1>3. PICK n \in Nat : n = Len(wire)
  BY <1>2 DEF Resting, Unraced
<1>4. /\ asked = {} /\ wire = Coming(ledger, n) /\ Loaded(ledger - n)
      /\ ledger \in Nat /\ allLoaded \in BOOLEAN
  BY <1>2, <1>3 DEF Resting, Unraced
<1>5. Loaded(ledger - n)'
  BY <1>4 DEF Loaded
<1>6. Refresh(v, history', wire')
  OBVIOUS
<1>7. wire' = Coming(ledger', n) /\ ledger' \in Nat /\ allLoaded' = allLoaded
  BY <1>4
<1> QED
  BY <1>4, <1>5, <1>6, <1>7, Refreshed

LEMMA OpenViewKeeps ==
  ASSUME Unraced, ~raced', NEW r \in Reader, OpenView(r)
  PROVE  Unraced'
<1>1. IsView(NewView(r))
  BY DEF IsView, NewView
<1> QED
  BY <1>1, CallMade DEF OpenView

LEMMA TurnKeeps ==
  ASSUME Unraced, ~raced', NEW page, Turn(page)
  PROVE  Unraced'
<1> DEFINE v == [view EXCEPT !.page = page]
<1>1. IsView(v)
  BY DEF IsView, Unraced
<1>2. Refresh(v, history, wire) /\ UNCHANGED <<ledger, history, allLoaded, wire>>
  BY DEF Turn
<1> HIDE DEF v
<1> QED
  BY <1>1, <1>2, CallMade

LEMMA PublishKeeps ==
  ASSUME Unraced, ~raced', Publish
  PROVE  Unraced'
<1>1. Outstanding(asked, wire) = {}
  BY DEF Publish
<1>2. Resting
  BY <1>1, QuietWhen
<1>3. PICK n \in Nat : n = Len(wire)
  BY <1>2 DEF Resting, Unraced
<1>4. /\ n <= ledger /\ wire = Coming(ledger, n) /\ Loaded(ledger - n)
      /\ ledger \in Nat /\ allLoaded \in BOOLEAN /\ asked = {}
  BY <1>2, <1>3 DEF Resting, Unraced
<1>5. /\ ledger' = ledger + 1 /\ asked' = {} /\ history' = history /\ allLoaded' = allLoaded
      /\ view' = view /\ wire' = Append(wire, [kind |-> "tx", tx |-> ledger + 1])
  BY <1>4 DEF Publish
<1>6. wire' = Coming(ledger', n + 1)
  <2>1. ledger \in Int
    BY <1>4
  <2>2. Append(Coming(ledger, n), [kind |-> "tx", tx |-> ledger + 1]) = Coming(ledger + 1, n + 1)
    BY <2>1, ComingMore
  <2> QED
    BY <1>4, <1>5, <2>2, Zenon
<1>7. Len(wire') = n + 1 /\ n + 1 \in 0..ledger'
  <2>1. ledger' \in Int /\ n + 1 \in Nat
    BY <1>4, <1>5
  <2>2. Len(Coming(ledger', n + 1)) = n + 1
    BY <2>1, ComingIs
  <2> QED
    BY <1>4, <1>5, <1>6, <2>2
<1>8. Loaded(ledger - Len(wire))'
  <2>1. ledger' - Len(wire') = ledger - n
    BY <1>4, <1>5, <1>7
  <2> QED
    BY <1>4, <1>5, <2>1 DEF Loaded
<1>9. (~missed => Shows(view, history))'
  <2>1. missed' = missed
    BY DEF Publish
  <2> QED
    BY <1>2, <1>5, <2>1 DEF Resting, Shows
<1>10. Resting'
  BY <1>5, <1>6, <1>7, <1>8, <1>9 DEF Resting
<1> QED
  BY <1>4, <1>5, <1>10 DEF Unraced, IsView

LEMMA AnswerKeeps ==
  ASSUME Unraced, ~raced', NEW q \in asked, Answer(q)
  PROVE  Unraced'
<1>1. Asking
  BY DEF Unraced, Resting, Answered, Refused
<1>2. PICK k \in Nat : k = Len(history)
  BY <1>1 DEF Asking, Loaded, Unraced
<1>3. /\ asked = {q} /\ q.offset = k /\ OfView(q.call) /\ wire = <<>> /\ ~allLoaded
      /\ ledger \in Nat /\ k \in 0..ledger /\ Loaded(ledger) /\ IsView(view)
  BY <1>1, <1>2 DEF Asking, Loaded, Unraced
<1> DEFINE end == IF k + PerPage < ledger THEN k + PerPage ELSE ledger
<1>4. PICK e \in k..ledger : e = end /\ (e = k => k = ledger)
  <2>1. end \in k..ledger /\ (end = k => k = ledger)
    BY <1>3, HistoryAssumption
  <2> QED
    BY <2>1
<1> DEFINE rows == SubSeq(Down(ledger, ledger), k + 1, e)
           m == [kind |-> "page", call |-> q.call, rows |-> rows]
<1>5. asked' = {} /\ wire' = <<m>> /\ UNCHANGED <<ledger, history, allLoaded, view, views>>
  <2>1. wire' = Append(wire, m)
    BY <1>3, <1>4 DEF Answer, Down
  <2>2. asked' = {} /\ UNCHANGED <<ledger, history, allLoaded, view, views>>
    BY <1>3 DEF Answer
  <2> HIDE DEF m
  <2>3. wire' = <<m>>
    BY <1>3, <2>1
  <2> QED
    BY <2>2, <2>3
<1>6. rows = Down(ledger - k, e - k) /\ Len(rows) = e - k
  <2>1. rows = Down(ledger - k, e - k)
    BY <1>3, DownPart
  <2>2. ledger - k \in Int /\ e - k \in Nat
    BY <1>3
  <2>3. Len(Down(ledger - k, e - k)) = e - k
    BY <2>2, DownIs
  <2> QED
    BY <2>1, <2>3
<1> HIDE DEF rows
<1>7. Len(rows) \in 0..ledger - k /\ (Len(rows) = 0 => k = ledger)
  <2>1. PICK n \in Int : n = Len(rows) /\ n = e - k
    BY <1>3, <1>4, <1>6
  <2>2. n \in 0..ledger - k /\ (n = 0 => k = ledger)
    BY <1>3, <1>4, <2>1
  <2> QED
    BY <2>1, <2>2
<1>8. Len(wire') = 1 /\ wire' = <<wire'[1]>> /\ wire'[1] = m
  BY <1>5
<1>9. wire'[1].kind = "page" /\ wire'[1].call = q.call /\ wire'[1].rows = rows
  BY <1>8
<1>10. Loaded(ledger)' /\ OfView(q.call)'
  BY <1>3, <1>5 DEF Loaded, OfView
<1>11. rows = Down(ledger - k, Len(rows))
  BY <1>6
<1> HIDE DEF m
<1>12. Answered'
  <2>1. asked' = {} /\ ~allLoaded' /\ ledger' = ledger /\ Len(history') = k
    BY <1>2, <1>3, <1>5
  <2>2. OfView(wire[1].call)'
    BY <1>9, <1>10 DEF OfView
  <2> QED
    BY <1>7, <1>8, <1>9, <1>10, <1>11, <2>1, <2>2 DEF Answered
<1> QED
  BY <1>3, <1>5, <1>12 DEF Unraced, IsView

LEMMA RefuseKeeps ==
  ASSUME Unraced, ~raced', NEW q \in asked, Refuse(q)
  PROVE  Unraced'
<1>1. Asking
  BY DEF Unraced, Resting, Answered, Refused
<1>2. /\ asked = {q} /\ OfView(q.call) /\ wire = <<>> /\ Loaded(ledger)
      /\ ledger \in Nat /\ allLoaded \in BOOLEAN /\ IsView(view)
  BY <1>1 DEF Asking, Unraced
<1> DEFINE m == [kind |-> "refusal", call |-> q.call]
<1>3. /\ asked' = {} /\ wire' = Append(wire, m)
      /\ UNCHANGED <<ledger, history, allLoaded, view, views>>
  BY <1>2 DEF Refuse
<1>4. m.kind = "refusal" /\ m.call = q.call
  OBVIOUS
<1> HIDE DEF m
<1>5. wire' = <<m>>
  BY <1>2, <1>3
<1>6. Loaded(ledger)' /\ OfView(m.call)'
  BY <1>2, <1>3, <1>4 DEF Loaded, OfView
<1>7. Refused'
  BY <1>3, <1>4, <1>5, <1>6 DEF Refused, OfView
<1> QED
  BY <1>2, <1>3, <1>7 DEF Unraced, IsView

(* What heads the wire tells which call, or none, is under way. *)
LEMMA EventRests ==
  ASSUME Unraced, wire # <<>>, Head(wire).kind = "tx"
  PROVE  Resting
<1>1. ~Asking
  BY DEF Asking
<1>2. ASSUME Answered PROVE FALSE
  <2>1. PICK m : wire = <<m>> /\ m.kind = "page"
    BY <1>2 DEF Answered
  <2>2. Head(wire) = m
    BY <2>1
  <2> QED
    BY <2>1, <2>2
<1>3. ASSUME Refused PROVE FALSE
  <2>1. PICK m : wire = <<m>> /\ m.kind = "refusal"
    BY <1>3 DEF Refused
  <2>2. Head(wire) = m
    BY <2>1
  <2> QED
    BY <2>1, <2>2
<1> QED
  BY <1>1, <1>2, <1>3 DEF Unraced

LEMMA NotAtRest ==
  ASSUME Unraced, wire # <<>>, Head(wire).kind # "tx"
  PROVE  ~Resting /\ ~Asking
<1>1. ~Asking
  BY DEF Asking
<1>2. ASSUME Resting PROVE FALSE
  <2>1. PICK n \in Nat : n = Len(wire)
    BY <1>2 DEF Resting, Unraced
  <2>2. wire = Coming(ledger, n) /\ ledger \in Int
    BY <1>2, <2>1 DEF Resting, Unraced
  <2>3. wire \in Seq([kind : {"tx"}, tx : Int])
    BY <2>2, ComingIs
  <2>4. n # 0
    BY <2>1, <2>3
  <2>5. Head(wire) = [kind |-> "tx", tx |-> ledger - n + 1]
    BY <2>2, <2>4, ComingLess
  <2> QED
    BY <2>5
<1> QED
  BY <1>1, <1>2

LEMMA PageAnswers ==
  ASSUME Unraced, wire # <<>>, Head(wire).kind = "page"
  PROVE  Answered
<1>1. ASSUME Refused PROVE FALSE
  <2>1. PICK m : wire = <<m>> /\ m.kind = "refusal"
    BY <1>1 DEF Refused
  <2>2. Head(wire) = m
    BY <2>1
  <2> QED
    BY <2>1, <2>2
<1> QED
  BY <1>1, NotAtRest DEF Unraced

LEMMA RefusalRefuses ==
  ASSUME Unraced, wire # <<>>, Head(wire).kind = "refusal"
  PROVE  Refused
<1>1. ASSUME Answered PROVE FALSE
  <2>1. PICK m : wire = <<m>> /\ m.kind = "page"
    BY <1>1 DEF Answered
  <2>2. Head(wire) = m
    BY <2>1
  <2> QED
    BY <2>1, <2>2
<1> QED
  BY <1>1, NotAtRest DEF Unraced

LEMMA ReceiveEventKeeps ==
  ASSUME Unraced, ~raced', ReceiveEvent
  PROVE  Unraced'
<1>1. Resting
  BY EventRests DEF ReceiveEvent
<1>2. PICK n \in Nat : n = Len(wire)
  BY <1>1 DEF Resting, Unraced
<1>3. PICK k \in Nat : k = Len(history)
  BY <1>1, <1>2 DEF Resting, Loaded, Unraced
<1>4. PICK l \in Nat : l = ledger
  BY DEF Unraced
<1>5. /\ n \in 0..l /\ wire = Coming(l, n) /\ asked = {} /\ k \in 0..l - n
      /\ history = Down(l - n, k) /\ (allLoaded => k = l - n) /\ allLoaded \in BOOLEAN
      /\ (~missed => Shows(view, history)) /\ IsView(view)
  BY <1>1, <1>2, <1>3, <1>4 DEF Resting, Loaded, Unraced
<1>6. n # 0
  <2>1. l \in Int
    OBVIOUS
  <2>2. Coming(l, n) \in Seq([kind : {"tx"}, tx : Int]) /\ Len(Coming(l, n)) = n
    BY <2>1, ComingIs
  <2>3. wire # <<>>
    BY DEF ReceiveEvent
  <2> QED
    BY <1>5, <2>2, <2>3
<1>7. PICK t \in Int : t = l - n + 1
  OBVIOUS
<1>8. Head(wire).tx = t /\ wire' = Coming(l, n - 1)
  <2>1. l \in Int /\ n \in Nat \ {0}
    BY <1>6
  <2>2. /\ Tail(Coming(l, n)) = Coming(l, n - 1)
        /\ Head(Coming(l, n)) = [kind |-> "tx", tx |-> l - n + 1]
    BY <2>1, ComingLess, Zenon
  <2> QED
    BY <1>5, <1>7, <2>2 DEF ReceiveEvent
<1>9. history' = Down(t, k + 1)
  <2>1. PICK b \in Int : b = l - n
    OBVIOUS
  <2>2. <<b + 1>> \o Down(b, k) = Down(b + 1, k + 1)
    BY DownHead
  <2>3. b + 1 = t
    BY <1>7, <2>1
  <2> QED
    BY <1>5, <1>8, <2>1, <2>2, <2>3 DEF ReceiveEvent
<1>10. Len(history') = k + 1 /\ history \in Seq(Int)
  <2>1. k + 1 \in Nat /\ l - n \in Int
    OBVIOUS
  <2> QED
    BY <1>5, <1>9, <2>1, DownIs
<1>11. ledger' = l /\ allLoaded' = allLoaded /\ l - (n - 1) = t /\ n - 1 \in Nat /\ n - 1 \in 0..l
  BY <1>4, <1>5, <1>6, <1>7 DEF ReceiveEvent
<1>12. Loaded(ledger - (n - 1))'
  <2>1. k + 1 \in 0..t /\ (allLoaded => k + 1 = t)
    BY <1>5, <1>7
  <2> QED
    BY <1>9, <1>10, <1>11, <2>1 DEF Loaded
<1>13. CASE t \in Passes[view.reader]
  <2>1. Refresh(view, history', wire')
    BY <1>8, <1>13 DEF ReceiveEvent
  <2> QED
    BY <1>5, <1>8, <1>11, <1>12, <2>1, Refreshed
<1>14. CASE t \notin Passes[view.reader]
  <2>1. asked' = {} /\ view' = view /\ missed' = missed /\ history' = <<t>> \o history
    BY <1>5, <1>8, <1>14 DEF ReceiveEvent
  <2>2. Filtered(view.reader, history') = Filtered(view.reader, history)
    BY <1>10, <1>14, <2>1, KeepLater DEF Filtered
  <2>3. (~missed => Shows(view, history))'
    BY <1>5, <2>1, <2>2 DEF Shows
  <2>4. Len(wire') = n - 1
    <3>1. l \in Int
      OBVIOUS
    <3> QED
      BY <1>8, <1>11, <3>1, ComingIs
  <2>5. Resting'
    BY <1>8, <1>11, <1>12, <2>1, <2>3, <2>4 DEF Resting
  <2> QED
    BY <1>5, <1>11, <2>1, <2>5 DEF Unraced, IsView
<1> QED
  BY <1>13, <1>14

LEMMA ReceivePageKeeps ==
  ASSUME Unraced, ~raced', ReceivePage
  PROVE  Unraced'
<1>1. Answered
  BY PageAnswers DEF ReceivePage
<1>2. PICK m : m = wire[1]
  OBVIOUS
<1>3. PICK k \in Nat : k = Len(history)
  BY <1>1 DEF Answered, Loaded, Unraced
<1>4. PICK l \in Nat : l = ledger
  BY DEF Unraced
<1>5. /\ wire = <<m>> /\ asked = {} /\ ~allLoaded /\ OfView(m.call) /\ IsView(view)
      /\ k \in 0..l /\ history = Down(l, k)
      /\ Len(m.rows) \in 0..l - k /\ m.rows = Down(l - k, Len(m.rows))
      /\ Len(m.rows) = 0 => k = l
  BY <1>1, <1>2, <1>3, <1>4 DEF Answered, Loaded, Unraced
<1>6. PICK j \in Nat : j = Len(m.rows)
  BY <1>5
<1>7. Head(wire) = m /\ Tail(wire) = <<>>
  BY <1>5
<1>8. /\ history' = history \o m.rows /\ allLoaded' = (allLoaded \/ m.rows = <<>>)
      /\ wire' = <<>> /\ ledger' = l /\ views' = views
      /\ GetPage(m.call, view, history', allLoaded', {})
  BY <1>4, <1>5, <1>7 DEF ReceivePage
<1>9. history' = Down(l, k + j)
  <2>1. l \in Int
    OBVIOUS
  <2>2. Down(l, k) \o Down(l - k, j) = Down(l, k + j)
    BY <2>1, DownJoins
  <2> QED
    BY <1>5, <1>6, <1>8, <2>2
<1>10. Len(history') = k + j /\ k + j \in 0..l
  <2>1. l \in Int /\ k + j \in Nat /\ k + j \in 0..l
    BY <1>5, <1>6
  <2> QED
    BY <1>9, <2>1, DownIs
<1>11. allLoaded' \in BOOLEAN /\ (allLoaded' => k + j = l)
  <2>1. allLoaded' = (m.rows = <<>>)
    BY <1>5, <1>8
  <2>2. m.rows = <<>> => k + j = l
    BY <1>5, <1>6
  <2> QED
    BY <2>1, <2>2, Zenon
<1>12. Loaded(ledger)'
  BY <1>8, <1>9, <1>10, <1>11 DEF Loaded
<1>13. m.call.view = views' /\ m.call.reader = view.reader /\ m.call.page = view.page
  BY <1>5, <1>8 DEF OfView
<1> QED
  BY <1>5, <1>8, <1>11, <1>12, <1>13, PageAsked

(* A refused call leaves history and view as they are, and the view to its  *)
(* next call.                                                               *)
LEMMA ReceiveRefusalKeeps ==
  ASSUME Unraced, ~raced', ReceiveRefusal
  PROVE  Unraced'
<1>1. Refused
  BY RefusalRefuses DEF ReceiveRefusal
<1>2. PICK m : wire = <<m>> /\ OfView(m.call)
  BY <1>1 DEF Refused
<1>3. Head(wire) = m /\ Tail(wire) = <<>>
  BY <1>2
<1>4. /\ asked = {} /\ Loaded(ledger) /\ ledger \in Nat /\ allLoaded \in BOOLEAN /\ IsView(view)
  BY <1>1 DEF Refused, Unraced
<1>5. /\ wire' = <<>> /\ missed' = (missed \/ m.call.view = views)
      /\ UNCHANGED <<ledger, history, allLoaded, asked, view, views>>
  BY <1>3 DEF ReceiveRefusal
<1>6. missed'
  BY <1>2, <1>5 DEF OfView
<1>7. PICK l \in Nat : l = ledger
  BY <1>4
<1>8. Coming(l, 0) = <<>> /\ Len(<<>>) = 0 /\ l - 0 = l
  <2>1. l \in Int /\ l - 0 = l
    OBVIOUS
  <2>2. Coming(l, 0) = <<>>
    BY <2>1, ComingNone, Zenon
  <2> QED
    BY <2>1, <2>2
<1>9. Loaded(ledger)'
  BY <1>4, <1>5 DEF Loaded
<1>10. Resting'
  BY <1>4, <1>5, <1>6, <1>7, <1>8, <1>9 DEF Resting
<1> QED
  BY <1>4, <1>5, <1>10 DEF Unraced, IsView

LEMMA HistoryStep ==
  ASSUME Unraced, ~raced', [Next]_vars
  PROVE  Unraced'
<1>1. CASE \E r \in Reader : OpenView(r)
  BY <1>1, OpenViewKeeps
<1>2. CASE NextPage
  BY <1>2, TurnKeeps, Zenon DEF NextPage
<1>3. CASE PreviousPage
  BY <1>3, TurnKeeps, Zenon DEF PreviousPage
<1>4. CASE Publish
  BY <1>4, PublishKeeps
<1>5. CASE \E q \in asked : Answer(q) \/ Refuse(q)
  BY <1>5, AnswerKeeps, RefuseKeeps
<1>6. CASE ReceiveEvent
  BY <1>6, ReceiveEventKeeps
<1>7. CASE ReceivePage
  BY <1>7, ReceivePageKeeps
<1>8. CASE ReceiveRefusal
  BY <1>8, ReceiveRefusalKeeps
<1>9. CASE UNCHANGED vars
  BY <1>9 DEF vars, Unraced, Resting, Asking, Answered, Refused, Loaded, IsView, OfView, Shows
<1> QED
  BY <1>1, <1>2, <1>3, <1>4, <1>5, <1>6, <1>7, <1>8, <1>9, Zenon DEF Next

LEMMA RacedStays ==
  ASSUME [Next]_vars, ~raced'
  PROVE  ~raced
<1>1. ASSUME NEW v, NEW h, NEW w, Refresh(v, h, w) PROVE ~raced
  BY <1>1, Zenon DEF Refresh
<1>2. ASSUME NEW page, Turn(page) PROVE ~raced
  BY <1>1, <1>2 DEF Turn
<1>3. CASE \E r \in Reader : OpenView(r)
  BY <1>1, <1>3 DEF OpenView
<1>4. CASE NextPage \/ PreviousPage
  BY <1>2, <1>4, Zenon DEF NextPage, PreviousPage
<1>5. CASE Publish
  BY <1>5, Zenon DEF Publish
<1>6. CASE ReceiveEvent
  BY <1>1, <1>6, Zenon DEF ReceiveEvent
<1>7. CASE ReceivePage \/ ReceiveRefusal \/ (\E q \in asked : Answer(q) \/ Refuse(q)) \/ UNCHANGED vars
  BY <1>7 DEF ReceivePage, ReceiveRefusal, Answer, Refuse, vars
<1> QED
  BY <1>3, <1>4, <1>5, <1>6, <1>7, Zenon DEF Next

LEMMA HistoryStarts ==
  ASSUME Init
  PROVE  Unraced
<1>1. PICK r \in Reader :
        /\ view = NewView(r)
        /\ asked = {[call |-> [id |-> 1, view |-> 1, reader |-> r, page |-> 1], offset |-> 0]}
  BY DEF Init
<1>2. /\ ledger \in Nat /\ history = <<>> /\ allLoaded = FALSE /\ wire = <<>> /\ views = 1
      /\ Len(history) = 0
  BY DEF Init, Tx
<1>3. IsView(view) /\ view.reader = r /\ view.page = 1
  BY <1>1 DEF IsView, NewView
<1>4. Down(ledger, 0) = <<>>
  <2>1. Down(ledger, 0) \in Seq(Int) /\ Len(Down(ledger, 0)) = 0
    BY <1>2, DownIs
  <2> QED
    BY <2>1
<1>5. Loaded(ledger)
  BY <1>2, <1>4 DEF Loaded
<1>6. Asking
  BY <1>1, <1>2, <1>3, <1>5 DEF Asking, OfView
<1> QED
  BY <1>2, <1>3, <1>6 DEF Unraced

(* While nothing races, the history is the top of the ledger as far as the  *)
(* wire has brought it, and at most the one call of the open view is under  *)
(* way: the invariant behind the two theorems that follow.                  *)
THEOREM HistoryHolds == Spec => []HistoryInv
<1>1. Init => HistoryInv
  BY HistoryStarts DEF HistoryInv
<1>2. HistoryInv /\ [Next]_vars => HistoryInv'
  BY HistoryStep, RacedStays DEF HistoryInv
<1> QED
  BY <1>1, <1>2, PTL DEF Spec

(* As long as no call or event has overlapped a call, the array of          *)
(* transactions has no gap and no double, and has the first one when it is  *)
(* said to be loaded to the end (transaction-history-service.js 36-114).    *)
THEOREM HistoryComplete == Spec => []HistoryIsComplete
<1>1. HistoryInv => HistoryIsComplete
  <2> SUFFICES ASSUME Unraced PROVE HistoryIsComplete
    BY DEF HistoryInv, HistoryIsComplete
  <2>1. PICK top \in Int : Loaded(top)
    <3>1. CASE Resting
      <4>1. Len(wire) \in Int /\ ledger \in Int
        BY <3>1 DEF Resting, Unraced
      <4>2. ledger - Len(wire) \in Int
        BY <4>1
      <4> QED
        BY <3>1, <4>2 DEF Resting
    <3>2. CASE Asking \/ Answered \/ Refused
      BY <3>2 DEF Asking, Answered, Refused, Unraced
    <3> QED
      BY <3>1, <3>2 DEF Unraced
  <2>2. PICK k \in Nat : k = Len(history)
    BY <2>1 DEF Loaded
  <2>3. history = Down(top, k) /\ (allLoaded => k = top)
    BY <2>1, <2>2 DEF Loaded
  <2>4. history \in Seq(Int) /\ \A i \in 1..k : history[i] = top + 1 - i
    BY <2>3, DownIs
  <2>5. \A i \in 1..Len(history) - 1 : history[i] = history[i + 1] + 1
    <3>1. ASSUME NEW i \in 1..k - 1 PROVE history[i] = history[i + 1] + 1
      <4>1. PICK n \in 1..k : n = i + 1
        OBVIOUS
      <4>2. i \in 1..k
        OBVIOUS
      <4>3. history[i] = top + 1 - i /\ history[n] = top + 1 - n
        BY <2>4, <4>2
      <4> QED
        BY <4>1, <4>3
    <3> QED
      BY <2>2, <3>1
  <2>6. ASSUME allLoaded, history # <<>> PROVE Last(history) = 1
    <3>1. k # 0
      BY <2>2, <2>4, <2>6
    <3>2. history[k] = 1
      <4>1. k \in 1..k /\ history[k] = top + 1 - k
        BY <2>4, <3>1
      <4> QED
        BY <2>3, <2>6, <4>1
    <3> QED
      BY <2>2, <3>2 DEF Last
  <2> QED
    BY <2>5, <2>6 DEF HistoryIsComplete
<1> QED
  BY <1>1, HistoryHolds, PTL

(* Under the same condition, a view with nothing under way, whose last call *)
(* was not refused, shows the page it stands at                             *)
(* (transaction-history-controller.js, trade-history-controller.js).        *)
THEOREM ViewCurrent == Spec => []ViewIsCurrent
<1>1. HistoryInv => ViewIsCurrent
  <2> SUFFICES ASSUME Unraced, ~missed, Outstanding(asked, wire) = {} PROVE Shows(view, history)
    BY DEF HistoryInv, ViewIsCurrent, Shows
  <2>1. Resting
    BY QuietWhen
  <2> QED
    BY <2>1 DEF Resting
<1> QED
  BY <1>1, HistoryHolds, PTL

-----------------------------------------------------------------------------
(***************************************************************************)
(* The wallet's pairs.  ByUse is FavoritesAreByUse's order and membership  *)
(* of a list, by a clock; Directed, of one pair, why its direction is the  *)
(* one its codes were traded in last.                                      *)
(***************************************************************************)
ByUse(favs, since) ==
  /\ \A i, j \in DOMAIN favs : i < j => since[favs[i]] > since[favs[j]]
  /\ \A p \in Pair : (\E i \in DOMAIN favs : favs[i] = p) <=> since[p] > 0

Two(p) == {Codes(p)[1], Codes(p)[2]}
Used == {Codes(p) : p \in Pair}

Directed(p) ==
  LET c == Codes(p)
      u == usedAs[Two(p)]
  IN  IF u = NoPair THEN c \notin DOMAIN priorities
      ELSE u \in {c, Invert(c)} /\ c \in DOMAIN priorities /\ priorities[c] = u[1]

PairsTyped ==
  /\ favorites \in Seq(Pair) /\ touches \in Nat /\ touched \in [Pair -> 0..touches]
  /\ favorite \in Pair \cup {NoPair} /\ chosen \in Pair \cup {NoPair}
  /\ current \in Pair \cup {NoPair} /\ subscribing \in BOOLEAN
  /\ usedAs \in [{Two(p) : p \in Pair} -> Used \cup {NoPair}]

PairsInv ==
  /\ PairsTyped
  /\ ByUse(favorites, touched)
  /\ favorite # NoPair => IsFavorite(favorite)
  /\ \A p \in Pair : Directed(p)

LEMMA PairsShow == PairsInv => FavoritesAreByUse /\ DirectionAsUsed
<1> SUFFICES ASSUME PairsInv PROVE FavoritesAreByUse /\ DirectionAsUsed
  OBVIOUS
<1>1. DOMAIN favorites = 1..Len(favorites)
  BY DEF PairsInv, PairsTyped
<1>2. FavoritesAreByUse
  BY <1>1 DEF PairsInv, FavoritesAreByUse, ByUse, IsFavorite, Contains
<1>3. ASSUME NEW p \in Pair
      PROVE  Normalize(Codes(p)) = IF usedAs[Two(p)] = NoPair THEN Codes(p) ELSE usedAs[Two(p)]
  <2> DEFINE c == Codes(p)
             u == usedAs[Two(p)]
  <2>1. IF u = NoPair THEN c \notin DOMAIN priorities
        ELSE u \in {c, Invert(c)} /\ c \in DOMAIN priorities /\ priorities[c] = u[1]
    BY DEF PairsInv, Directed
  <2>2. c = <<c[1], c[2]>> /\ Invert(c) = <<c[2], c[1]>>
    BY DEF Codes, Invert
  <2> HIDE DEF c, u
  <2>3. CASE u = NoPair
    BY <2>1, <2>3 DEF Normalize, c, u
  <2>4. CASE u = c /\ u # NoPair
    BY <2>1, <2>4 DEF Normalize, c, u
  <2>5. CASE u = Invert(c) /\ u # NoPair
    <3>1. priorities[c] = c[2] /\ c \in DOMAIN priorities
      BY <2>1, <2>2, <2>5
    <3>2. c[1] = c[2] => c = Invert(c)
      BY <2>2
    <3>3. Normalize(c) = Invert(c)
      BY <3>1, <3>2 DEF Normalize
    <3> QED
      BY <2>5, <3>3 DEF c, u
  <2> QED
    BY <2>1, <2>3, <2>4, <2>5
<1>4. DirectionAsUsed
  BY <1>3, Zenon DEF DirectionAsUsed, Two
<1> QED
  BY <1>2, <1>4

(* What stays of a list when p leaves it. *)
LEMMA Left ==
  ASSUME NEW favs \in Seq(Pair), NEW since \in [Pair -> Nat], NEW p \in Pair, ByUse(favs, since)
  PROVE  LET rest == Keep(favs, Pair \ {p}) IN
         /\ rest \in Seq(Pair)
         /\ \A i, j \in DOMAIN rest : i < j => since[rest[i]] > since[rest[j]]
         /\ \A q \in Pair : (\E i \in DOMAIN rest : rest[i] = q) <=> q # p /\ since[q] > 0
<1> DEFINE R == {d \in Pair \X Pair : since[d[1]] > since[d[2]]}
           K == Pair \ {p}
           rest == Keep(favs, K)
<1>1. \A i, j \in DOMAIN favs : i < j => <<favs[i], favs[j]>> \in R
  <2>1. \A i \in DOMAIN favs : favs[i] \in Pair
    OBVIOUS
  <2> QED
    BY <2>1 DEF ByUse
<1>2. \A a, b : <<a, b>> \in R => since[a] > since[b]
  OBVIOUS
<1>3. \A q \in Pair : q \in K <=> q # p
  OBVIOUS
<1> HIDE DEF R, K
<1>4. rest \in Seq(Pair) /\ KeepsOrder(rest, favs, K, R, Len(favs))
  BY <1>1, KeepInOrder
<1> HIDE DEF rest
<1>5. DOMAIN favs = 1..Len(favs)
  OBVIOUS
<1>6. \A i, j \in DOMAIN rest : i < j => since[rest[i]] > since[rest[j]]
  BY <1>2, <1>4 DEF KeepsOrder
<1>7. \A q \in Pair : (\E i \in DOMAIN rest : rest[i] = q) <=> q # p /\ since[q] > 0
  BY <1>3, <1>4, <1>5 DEF KeepsOrder, ByUse
<1> QED
  BY <1>4, <1>6, <1>7 DEF rest, K

(* A pair put in front of a list it is not in, and used last. *)
LEMMA OnTop ==
  ASSUME NEW rest \in Seq(Pair), NEW n \in Nat, NEW since \in [Pair -> 0..n], NEW p \in Pair,
         \A i, j \in DOMAIN rest : i < j => since[rest[i]] > since[rest[j]],
         \A q \in Pair : (\E i \in DOMAIN rest : rest[i] = q) <=> q # p /\ since[q] > 0
  PROVE  /\ <<p>> \o rest \in Seq(Pair)
         /\ ByUse(<<p>> \o rest, [since EXCEPT ![p] = n + 1])
<1> DEFINE favs == <<p>> \o rest
           now == [since EXCEPT ![p] = n + 1]
<1>1. /\ now[p] = n + 1 /\ \A q \in Pair : q # p => now[q] = since[q]
      /\ \A q \in Pair : since[q] \in 0..n /\ now[q] \in Nat
  OBVIOUS
<1>2. PICK l \in Nat : l = Len(rest) /\ DOMAIN rest = 1..l /\ \A i \in 1..l : rest[i] \in Pair
  OBVIOUS
<1>3. /\ favs \in Seq(Pair) /\ DOMAIN favs = 1..l + 1 /\ favs[1] = p
      /\ \A i \in 1..l + 1 : i > 1 => i - 1 \in 1..l /\ favs[i] = rest[i - 1]
  <2>1. favs \in Seq(Pair) /\ Len(favs) = l + 1 /\ favs[1] = p
    BY <1>2
  <2>2. ASSUME NEW i \in 1..l + 1, i > 1 PROVE i - 1 \in 1..l /\ favs[i] = rest[i - 1]
    BY <1>2, <2>2
  <2> QED
    BY <2>1, <2>2
<1> HIDE DEF favs, now
<1>4. \A i \in 1..l : rest[i] # p
  BY <1>2
<1>5. ASSUME NEW i \in DOMAIN favs, NEW j \in DOMAIN favs, i < j
      PROVE  now[favs[i]] > now[favs[j]]
  <2>1. PICK b \in 1..l : b = j - 1 /\ favs[j] = rest[b] /\ now[favs[j]] = since[rest[b]]
    <3>1. j > 1 /\ j \in 1..l + 1
      BY <1>3, <1>5
    <3>2. j - 1 \in 1..l /\ favs[j] = rest[j - 1]
      BY <1>3, <3>1
    <3> QED
      BY <1>1, <1>2, <1>4, <3>2
  <2>2. CASE i = 1
    <3>1. since[rest[b]] \in 0..n
      BY <1>1, <1>2
    <3>2. now[favs[i]] = n + 1
      BY <1>1, <1>3, <2>2
    <3> QED
      BY <2>1, <3>1, <3>2
  <2>3. CASE i # 1
    <3>1. PICK a \in 1..l : a = i - 1 /\ favs[i] = rest[a] /\ now[favs[i]] = since[rest[a]]
      <4>1. i > 1 /\ i \in 1..l + 1
        BY <1>3, <2>3
      <4>2. i - 1 \in 1..l /\ favs[i] = rest[i - 1]
        BY <1>3, <4>1
      <4> QED
        BY <1>1, <1>2, <1>4, <4>2
    <3>2. a < b
      <4>1. i \in 1..l + 1 /\ j \in 1..l + 1
        BY <1>3
      <4> QED
        BY <1>5, <2>1, <3>1, <4>1
    <3> QED
      BY <1>2, <2>1, <3>1, <3>2
  <2> QED
    BY <2>2, <2>3
<1>6. ASSUME NEW q \in Pair
      PROVE  (\E i \in DOMAIN favs : favs[i] = q) <=> now[q] > 0
  <2>1. CASE q = p
    <3>1. now[q] > 0
      BY <1>1, <2>1
    <3>2. 1 \in DOMAIN favs /\ favs[1] = q
      BY <1>3, <2>1
    <3> QED
      BY <3>1, <3>2, Zenon
  <2>2. CASE q # p
    <3>1. (\E i \in DOMAIN favs : favs[i] = q) <=> \E i \in DOMAIN rest : rest[i] = q
      <4>1. ASSUME NEW i \in DOMAIN favs, favs[i] = q PROVE \E h \in DOMAIN rest : rest[h] = q
        <5>1. i > 1 /\ i \in 1..l + 1
          BY <1>3, <2>2, <4>1
        <5> QED
          BY <1>2, <1>3, <4>1, <5>1
      <4>2. ASSUME NEW h \in DOMAIN rest, rest[h] = q PROVE \E i \in DOMAIN favs : favs[i] = q
        <5>1. PICK i \in 1..l + 1 : i = h + 1 /\ i > 1
          BY <1>2
        <5>2. i - 1 = h
          BY <1>2, <5>1
        <5>3. favs[i] = rest[h]
          BY <1>3, <5>1, <5>2
        <5> QED
          BY <1>3, <4>2, <5>3
      <4> QED
        BY <4>1, <4>2
    <3> QED
      BY <1>1, <2>2, <3>1
  <2> QED
    BY <2>1, <2>2
<1> QED
  BY <1>3, <1>5, <1>6 DEF ByUse, favs, now

LEMMA PairsStart == PairsInit => PairsInv
<1> SUFFICES ASSUME PairsInit PROVE PairsInv
  OBVIOUS
<1> DEFINE at(p) == CHOOSE i \in DOMAIN Favorites0 : Favorites0[i] = p
<1>1. PICK n \in Nat : n = Len(Favorites0)
  BY PairsAssumption
<1>2. /\ favorites = Favorites0 /\ touches = n /\ DOMAIN Favorites0 = 1..n
      /\ favorites \in Seq(Pair) /\ \A i \in 1..n : Favorites0[i] \in Pair
      /\ \A i, j \in 1..n : Favorites0[i] = Favorites0[j] => i = j
  BY <1>1, PairsAssumption DEF PairsInit, IsInjective
<1>3. /\ touched = [p \in Pair |-> IF Contains(Favorites0, p) THEN n + 1 - at(p) ELSE 0]
      /\ \A p \in Pair : Contains(Favorites0, p) <=> \E i \in 1..n : Favorites0[i] = p
  BY <1>1 DEF PairsInit, Contains
<1>4. \A i \in 1..n : at(Favorites0[i]) = i
  BY <1>2
<1> HIDE DEF at
<1>5. \A i \in 1..n : touched[Favorites0[i]] = n + 1 - i
  BY <1>2, <1>3, <1>4
<1>6. \A p \in Pair : (\A i \in 1..n : Favorites0[i] # p) => touched[p] = 0
  BY <1>3
<1>7. touched \in [Pair -> 0..touches]
  <2>1. ASSUME NEW p \in Pair PROVE touched[p] \in 0..n
    <3>1. CASE \E i \in 1..n : Favorites0[i] = p
      BY <1>5, <3>1
    <3>2. CASE \A i \in 1..n : Favorites0[i] # p
      BY <1>6, <3>2
    <3> QED
      BY <3>1, <3>2
  <2>2. touched = [p \in Pair |-> touched[p]]
    BY <1>3
  <2> QED
    BY <1>2, <2>1, <2>2
<1>8. ByUse(favorites, touched)
  <2>1. ASSUME NEW i \in 1..n, NEW j \in 1..n, i < j
        PROVE  touched[Favorites0[i]] > touched[Favorites0[j]]
    BY <1>5, <2>1
  <2>2. \A p \in Pair : (\E i \in 1..n : Favorites0[i] = p) <=> touched[p] > 0
    <3>1. \A i \in 1..n : touched[Favorites0[i]] > 0
      BY <1>5
    <3>2. ~ (0 > 0)
      OBVIOUS
    <3> QED
      BY <1>6, <3>1, <3>2
  <2> QED
    BY <1>2, <2>1, <2>2 DEF ByUse
<1>9. /\ chosen = favorite /\ current = favorite /\ (favorite # NoPair => IsFavorite(favorite))
      /\ favorite \in Pair \cup {NoPair}
  <2>1. favorite = LastUsedFavorite(Favorites0) /\ chosen = favorite /\ current = favorite
    BY DEF PairsInit
  <2>2. CASE Favorites0 = <<>>
    BY <2>1, <2>2 DEF LastUsedFavorite
  <2>3. CASE Favorites0 # <<>>
    <3>1. 1 \in 1..n
      BY <1>1, <1>2, <2>3
    <3>2. favorite = Favorites0[1]
      BY <2>1, <2>3 DEF LastUsedFavorite
    <3> QED
      BY <1>1, <1>2, <2>1, <3>1, <3>2 DEF IsFavorite, Contains
  <2> QED
    BY <2>2, <2>3
<1>10. /\ usedAs = [two \in {Two(p) : p \in Pair} |-> NoPair]
       /\ priorities = <<>>
  BY DEF PairsInit, Two
<1>11. \A p \in Pair : Directed(p)
  <2>1. ASSUME NEW p \in Pair PROVE Directed(p)
    <3>1. usedAs[Two(p)] = NoPair
      BY <1>10
    <3>2. Codes(p) \notin DOMAIN priorities
      <4>1. DOMAIN priorities = {}
        BY <1>10
      <4> QED
        BY <4>1
    <3> QED
      BY <3>1, <3>2 DEF Directed
  <2> QED
    BY <2>1
<1>12. PairsTyped
  <2>1. subscribing \in BOOLEAN
    BY DEF PairsInit
  <2> QED
    BY <1>1, <1>2, <1>7, <1>9, <1>10, <2>1 DEF PairsTyped
<1> QED
  BY <1>8, <1>9, <1>11, <1>12 DEF PairsInv

(* The steps that leave the favorites or the directions alone. *)
LEMMA SameFavorites ==
  ASSUME PairsInv, Tick, UNCHANGED <<favorites, touched>>
  PROVE  /\ favorites' \in Seq(Pair) /\ touches' \in Nat /\ touched' \in [Pair -> 0..touches']
         /\ ByUse(favorites', touched')
<1>1. 0..touches \subseteq 0..touches' /\ touches' \in Nat
  BY DEF Tick, PairsInv, PairsTyped
<1>2. touched \in [Pair -> 0..touches]
  BY DEF PairsInv, PairsTyped
<1>3. touched \in [Pair -> 0..touches']
  <2> DEFINE S == 0..touches
             T == 0..touches'
  <2>1. S \subseteq T /\ touched \in [Pair -> S]
    BY <1>1, <1>2
  <2> HIDE DEF S, T
  <2>2. touched \in [Pair -> T]
    BY <2>1
  <2> QED
    BY <2>2 DEF T
<1> QED
  BY <1>1, <1>3 DEF PairsInv, PairsTyped

LEMMA SameDirections ==
  ASSUME PairsInv, UNCHANGED <<priorities, usedAs>>
  PROVE  /\ usedAs' \in [{Two(p) : p \in Pair} -> Used \cup {NoPair}]
         /\ \A p \in Pair : Directed(p)'
BY DEF PairsInv, PairsTyped, Directed

(* A pair used in a direction: both orders of its codes are noted. *)
LEMMA UseDirects ==
  ASSUME PairsInv, NEW q \in Pair,
         priorities' = PrioritiesWith(Codes(q)),
         usedAs' = [usedAs EXCEPT ![{Codes(q)[1], Codes(q)[2]}] = Codes(q)]
  PROVE  /\ usedAs' \in [{Two(p) : p \in Pair} -> Used \cup {NoPair}]
         /\ \A p \in Pair : Directed(p)'
<1> DEFINE d == Codes(q)
           All == {Two(p) : p \in Pair}
<1>1. /\ usedAs \in [All -> Used \cup {NoPair}] /\ usedAs' = [usedAs EXCEPT ![Two(q)] = d]
      /\ d \in Used /\ d # NoPair
  BY PairsAssumption DEF PairsInv, PairsTyped, Two, Used
<1>2. usedAs' \in [All -> Used \cup {NoPair}]
  BY <1>1
<1>3. ASSUME NEW p \in Pair PROVE Directed(p)'
  <2> DEFINE c == Codes(p)
  <2>1. Two(p) \in All /\ Two(q) \in All
    OBVIOUS
  <2>2. /\ DOMAIN priorities' = DOMAIN priorities \cup {d, Invert(d)}
        /\ \A k \in DOMAIN priorities \cup {d, Invert(d)} :
             priorities'[k] = IF k \in {d, Invert(d)} THEN d[1] ELSE priorities[k]
    BY DEF PrioritiesWith
  <2>3. /\ c = <<c[1], c[2]>> /\ d = <<d[1], d[2]>> /\ Two(p) = {c[1], c[2]} /\ Two(q) = {d[1], d[2]}
        /\ Invert(d) = <<d[2], d[1]>> /\ Invert(c) = <<c[2], c[1]>>
    BY DEF Codes, Two, Invert
  <2> HIDE DEF All, c, d
  <2>4. CASE Two(p) = Two(q)
    <3>1. c = d \/ c = Invert(d)
      <4>1. \/ c[1] = d[1] /\ c[2] = d[2]
            \/ c[1] = d[2] /\ c[2] = d[1]
        BY <2>3, <2>4
      <4> QED
        BY <2>3, <4>1
    <3>2. d \in {c, Invert(c)}
      BY <2>3, <3>1
    <3>3. usedAs'[Two(p)] = d
      BY <1>1, <2>1, <2>4
    <3>4. c \in DOMAIN priorities' /\ priorities'[c] = d[1]
      BY <2>2, <3>1
    <3> QED
      BY <1>1, <3>2, <3>3, <3>4 DEF Directed, c
  <2>5. CASE Two(p) # Two(q)
    <3>1. c \notin {d, Invert(d)}
      BY <2>3, <2>5
    <3>2. usedAs'[Two(p)] = usedAs[Two(p)]
      BY <1>1, <2>1, <2>5
    <3>3. /\ c \in DOMAIN priorities' <=> c \in DOMAIN priorities
          /\ c \in DOMAIN priorities => priorities'[c] = priorities[c]
      BY <2>2, <3>1
    <3>4. Directed(p)
      BY DEF PairsInv
    <3> QED
      BY <3>2, <3>3, <3>4 DEF Directed, c
  <2> QED
    BY <2>4, <2>5
<1> QED
  BY <1>2, <1>3

LEMMA FavoriteIs ==
  ASSUME PairsInv, NEW p
  PROVE  IsFavorite(p) <=> \E i \in DOMAIN favorites : favorites[i] = p
<1>1. DOMAIN favorites = 1..Len(favorites)
  BY DEF PairsInv, PairsTyped
<1> QED
  BY <1>1 DEF IsFavorite, Contains

LEMMA FavoriteThen ==
  ASSUME NEW p, favorites' \in Seq(Pair), NEW i \in DOMAIN favorites', favorites'[i] = p
  PROVE  IsFavorite(p)'
<1>1. i \in 1..Len(favorites')
  OBVIOUS
<1> QED
  BY <1>1 DEF IsFavorite, Contains

(* A pair saved or used comes to the top. *)
LEMMA TopKeeps ==
  ASSUME PairsInv, Tick, NEW p \in Pair,
         touched' = Touch(p),
         favorites' = <<p>> \o (IF IsFavorite(p) THEN Others(p) ELSE favorites)
  PROVE  /\ favorites' \in Seq(Pair) /\ touches' \in Nat /\ touched' \in [Pair -> 0..touches']
         /\ ByUse(favorites', touched')
         /\ \A q : IsFavorite(q) => IsFavorite(q)'
         /\ IsFavorite(p)'
<1>1. PICK n \in Nat : n = touches
  BY DEF PairsInv, PairsTyped
<1>2. /\ touches' = n + 1 /\ touched \in [Pair -> 0..n] /\ touched \in [Pair -> Nat]
      /\ touched' = [touched EXCEPT ![p] = n + 1] /\ favorites \in Seq(Pair)
      /\ ByUse(favorites, touched)
  <2>1. touched \in [Pair -> 0..n] /\ favorites \in Seq(Pair)
    BY <1>1 DEF PairsInv, PairsTyped
  <2>2. touched \in [Pair -> Nat]
    BY <2>1
  <2> QED
    BY <1>1, <2>1, <2>2 DEF PairsInv, Tick, Touch
<1>3. touched' \in [Pair -> 0..n + 1]
  BY <1>2
<1> DEFINE rest == IF IsFavorite(p) THEN Others(p) ELSE favorites
           Ordered(r) ==
             /\ r \in Seq(Pair)
             /\ \A i, j \in DOMAIN r : i < j => touched[r[i]] > touched[r[j]]
             /\ \A q \in Pair : (\E i \in DOMAIN r : r[i] = q) <=> q # p /\ touched[q] > 0
<1>4. Ordered(rest)
  <2>1. Ordered(Others(p))
    BY <1>2, Left DEF Others
  <2>2. ASSUME ~IsFavorite(p) PROVE Ordered(favorites)
    <3>1. \A i \in DOMAIN favorites : favorites[i] # p
      BY <2>2, FavoriteIs
    <3> QED
      BY <1>2, <3>1 DEF ByUse
  <2> HIDE DEF Ordered
  <2> QED
    BY <2>1, <2>2
<1> HIDE DEF rest
<1>5. <<p>> \o rest \in Seq(Pair) /\ ByUse(<<p>> \o rest, [touched EXCEPT ![p] = n + 1])
  BY <1>2, <1>4, OnTop
<1>6. favorites' \in Seq(Pair) /\ ByUse(favorites', touched')
  BY <1>2, <1>5 DEF rest
<1>7. ASSUME NEW q \in Pair, q = p \/ IsFavorite(q) PROVE IsFavorite(q)'
  <2>1. q = p \/ touched[q] > 0
    BY <1>2, <1>7, FavoriteIs DEF ByUse
  <2>2. touched'[q] > 0
    BY <1>2, <2>1
  <2>3. PICK i \in DOMAIN favorites' : favorites'[i] = q
    BY <1>6, <2>2 DEF ByUse
  <2> QED
    BY <1>6, <2>3, FavoriteThen
<1>8. \A q : IsFavorite(q) => q \in Pair
  BY <1>2, FavoriteIs
<1> QED
  BY <1>2, <1>3, <1>6, <1>7, <1>8

LEMMA RecordUseKeeps ==
  ASSUME PairsInv, Tick, current \in Pair, RecordUse(current), UNCHANGED <<favorite, chosen, current, subscribing>>
  PROVE  PairsInv'
<1>1. /\ usedAs' \in [{Two(p) : p \in Pair} -> Used \cup {NoPair}]
      /\ \A p \in Pair : Directed(p)'
  BY UseDirects DEF RecordUse
<1>2. /\ favorites' \in Seq(Pair) /\ touches' \in Nat /\ touched' \in [Pair -> 0..touches']
      /\ ByUse(favorites', touched')
      /\ \A q : IsFavorite(q) => IsFavorite(q)'
  <2>1. CASE IsFavorite(current)
    <3>1. favorites' = <<current>> \o Others(current) /\ touched' = Touch(current)
      BY <2>1 DEF RecordUse, MovedToTop
    <3> QED
      BY <2>1, <3>1, TopKeeps
  <2>2. CASE ~IsFavorite(current)
    <3>1. UNCHANGED <<favorites, touched>>
      BY <2>2 DEF RecordUse, MovedToTop
    <3>2. \A q : IsFavorite(q) => IsFavorite(q)'
      BY <3>1 DEF IsFavorite
    <3> QED
      BY <3>1, <3>2, SameFavorites
  <2> QED
    BY <2>1, <2>2
<1>3. favorite # NoPair => IsFavorite(favorite)
  BY DEF PairsInv
<1>4. favorite' # NoPair => IsFavorite(favorite)'
  <2>1. favorite # NoPair => IsFavorite(favorite)'
    BY <1>2, <1>3
  <2> QED
    BY <1>3, <2>1 DEF IsFavorite
<1>5. /\ favorite' \in Pair \cup {NoPair} /\ chosen' \in Pair \cup {NoPair}
      /\ current' \in Pair \cup {NoPair} /\ subscribing' \in BOOLEAN
  BY DEF PairsInv, PairsTyped
<1> QED
  BY <1>1, <1>2, <1>4, <1>5 DEF PairsInv, PairsTyped

(* The favorite that is chosen is the one used last. *)
LEMMA LastUsedIs ==
  ASSUME NEW favs \in Seq(Pair), LastUsedFavorite(favs) # NoPair
  PROVE  1 \in DOMAIN favs /\ favs[1] = LastUsedFavorite(favs) /\ favs[1] \in Pair
<1>1. favs # <<>>
  BY DEF LastUsedFavorite
<1> QED
  BY <1>1 DEF LastUsedFavorite

LEMMA ChooseKeeps ==
  ASSUME favorites' \in Seq(Pair), ChooseLastUsed(favorites')
  PROVE  /\ favorite' # NoPair => IsFavorite(favorite)'
         /\ favorite' \in Pair \cup {NoPair} /\ chosen' \in Pair \cup {NoPair}
<1>1. chosen' = favorite' /\ favorite' = LastUsedFavorite(favorites')
  BY DEF ChooseLastUsed
<1>2. ASSUME favorite' # NoPair PROVE IsFavorite(favorite)' /\ favorite' \in Pair
  <2>1. 1 \in DOMAIN favorites' /\ favorites'[1] = favorite' /\ favorites'[1] \in Pair
    BY <1>1, <1>2, LastUsedIs
  <2>2. 1 \in 1..Len(favorites')
    BY <2>1
  <2> QED
    BY <2>1, <2>2 DEF IsFavorite, Contains
<1> QED
  BY <1>1, <1>2

LEMMA OpenKeeps ==
  ASSUME favorites' \in Seq(Pair), OpenLastUsed(favorites')
  PROVE  current' \in Pair \cup {NoPair} /\ subscribing' \in BOOLEAN
<1>1. subscribing' \in BOOLEAN
  BY DEF OpenLastUsed
<1>2. current' \in Pair \cup {NoPair}
  BY LastUsedIs DEF OpenLastUsed
<1> QED
  BY <1>1, <1>2

(* The order book follows the form, or stays. *)
LEMMA FollowKeeps ==
  ASSUME PairsInv, NEW p \in Pair \cup {NoPair},
         SetCurrentOrderBook(p) \/ UNCHANGED <<current, subscribing>>
  PROVE  current' \in Pair \cup {NoPair} /\ subscribing' \in BOOLEAN
<1>1. current \in Pair \cup {NoPair} /\ subscribing \in BOOLEAN
  BY DEF PairsInv, PairsTyped
<1>2. CASE UNCHANGED <<current, subscribing>>
  BY <1>1, <1>2
<1>3. CASE current' = p /\ subscribing' = (p # NoPair)
  <2>1. subscribing' \in BOOLEAN
    BY <1>3
  <2> QED
    BY <1>3, <2>1
<1> QED
  BY <1>2, <1>3 DEF SetCurrentOrderBook

LEMMA DeleteKeeps ==
  ASSUME PairsInv, Tick, DeleteFavoritePair
  PROVE  PairsInv'
<1>1. PICK n \in Nat : n = touches
  BY DEF PairsInv, PairsTyped
<1>2. PICK p \in Pair : p = favorite
  BY DEF DeleteFavoritePair, PairsInv, PairsTyped
<1>3. /\ touches' = n + 1 /\ touched \in [Pair -> 0..n] /\ touched \in [Pair -> Nat]
      /\ touched' = [touched EXCEPT ![p] = 0] /\ favorites \in Seq(Pair)
      /\ ByUse(favorites, touched) /\ favorites' = Others(p)
  <2>1. touched \in [Pair -> 0..n] /\ favorites \in Seq(Pair)
    BY <1>1 DEF PairsInv, PairsTyped
  <2>2. touched \in [Pair -> Nat]
    BY <2>1
  <2> QED
    BY <1>1, <1>2, <2>1, <2>2 DEF PairsInv, Tick, DeleteFavoritePair
<1>4. touched' \in [Pair -> 0..n + 1]
  BY <1>3
<1> DEFINE rest == Others(p)
<1>5. /\ rest \in Seq(Pair)
      /\ \A i, j \in DOMAIN rest : i < j => touched[rest[i]] > touched[rest[j]]
      /\ \A q \in Pair : (\E i \in DOMAIN rest : rest[i] = q) <=> q # p /\ touched[q] > 0
  BY <1>3, Left DEF Others
<1>6. ByUse(rest, touched')
  <2> HIDE DEF rest
  <2>1. \A i \in DOMAIN rest : rest[i] \in Pair /\ rest[i] # p
    BY <1>5
  <2>2. \A q \in Pair : q # p => touched'[q] = touched[q]
    BY <1>3
  <2>3. touched'[p] = 0 /\ ~ (0 > 0)
    BY <1>3
  <2>4. \A i, j \in DOMAIN rest : i < j => touched'[rest[i]] > touched'[rest[j]]
    BY <1>5, <2>1, <2>2
  <2>5. \A q \in Pair : (\E i \in DOMAIN rest : rest[i] = q) <=> touched'[q] > 0
    BY <1>5, <2>2, <2>3
  <2> QED
    BY <2>4, <2>5 DEF ByUse
<1>7. favorites' \in Seq(Pair) /\ ByUse(favorites', touched')
  BY <1>3, <1>5, <1>6
<1>8. /\ favorite' # NoPair => IsFavorite(favorite)'
      /\ favorite' \in Pair \cup {NoPair} /\ chosen' \in Pair \cup {NoPair}
      /\ current' \in Pair \cup {NoPair} /\ subscribing' \in BOOLEAN
  <2>1. ChooseLastUsed(favorites') /\ (OpenLastUsed(favorites') \/ UNCHANGED <<current, subscribing>>)
    BY DEF DeleteFavoritePair
  <2>2. current' \in Pair \cup {NoPair} /\ subscribing' \in BOOLEAN
    <3>1. CASE OpenLastUsed(favorites')
      BY <1>7, <3>1, OpenKeeps
    <3>2. CASE UNCHANGED <<current, subscribing>>
      BY <3>2, FollowKeeps
    <3> QED
      BY <2>1, <3>1, <3>2
  <2> QED
    BY <1>7, <2>1, <2>2, ChooseKeeps
<1>9. /\ usedAs' \in [{Two(q) : q \in Pair} -> Used \cup {NoPair}]
      /\ \A q \in Pair : Directed(q)'
  BY SameDirections DEF DeleteFavoritePair
<1> QED
  BY <1>3, <1>4, <1>7, <1>8, <1>9 DEF PairsInv, PairsTyped

LEMMA AddKeeps ==
  ASSUME PairsInv, Tick, AddFavoritePair
  PROVE  PairsInv'
<1>1. PICK p \in Pair : p = current
  BY DEF AddFavoritePair, PairsInv, PairsTyped
<1>2. /\ ~IsFavorite(p) /\ favorites' = <<p>> \o favorites /\ touched' = Touch(p)
      /\ favorite' = p /\ chosen' = p /\ UNCHANGED <<current, subscribing>>
  BY <1>1 DEF AddFavoritePair
<1>3. /\ favorites' \in Seq(Pair) /\ touches' \in Nat /\ touched' \in [Pair -> 0..touches']
      /\ ByUse(favorites', touched') /\ IsFavorite(p)'
  BY <1>2, TopKeeps
<1>4. /\ usedAs' \in [{Two(q) : q \in Pair} -> Used \cup {NoPair}]
      /\ \A q \in Pair : Directed(q)'
  BY SameDirections DEF AddFavoritePair
<1>5. IsFavorite(favorite)'
  BY <1>2, <1>3 DEF IsFavorite
<1>6. current' \in Pair \cup {NoPair} /\ subscribing' \in BOOLEAN
  BY <1>2, FollowKeeps
<1> QED
  BY <1>2, <1>3, <1>4, <1>5, <1>6 DEF PairsInv, PairsTyped

(* The steps that only fill in the form. *)
LEMMA FillsInKeeps ==
  ASSUME PairsInv, Tick, UNCHANGED <<favorites, priorities, touched, usedAs>>,
         favorite' # NoPair => IsFavorite(favorite)',
         favorite' \in Pair \cup {NoPair}, chosen' \in Pair \cup {NoPair},
         current' \in Pair \cup {NoPair}, subscribing' \in BOOLEAN
  PROVE  PairsInv'
BY SameFavorites, SameDirections DEF PairsInv, PairsTyped

LEMMA UserKeeps ==
  ASSUME PairsInv, UserStep
  PROVE  PairsInv'
<1>1. Tick
  BY DEF UserStep
<1>2. ASSUME NEW p \in Pair \cup {NoPair}, PickPair(p) PROVE PairsInv'
  <2>1. /\ favorite' = NoPair /\ chosen' = p /\ SetCurrentOrderBook(p)
        /\ UNCHANGED <<favorites, priorities, touched, usedAs>>
    BY <1>2 DEF PickPair
  <2>2. current' \in Pair \cup {NoPair} /\ subscribing' \in BOOLEAN
    BY <2>1, FollowKeeps
  <2> QED
    BY <1>1, <2>1, <2>2, FillsInKeeps
<1>3. ASSUME NEW p \in Pair, SetFavorite(p) PROVE PairsInv'
  <2>1. /\ IsFavorite(favorite)' /\ favorite' = p /\ chosen' = p
        /\ SetCurrentOrderBook(p) \/ UNCHANGED <<current, subscribing>>
        /\ UNCHANGED <<favorites, priorities, touched, usedAs>>
    BY <1>3 DEF SetFavorite, IsFavorite
  <2>2. current' \in Pair \cup {NoPair} /\ subscribing' \in BOOLEAN
    BY <2>1, FollowKeeps
  <2> QED
    BY <1>1, <2>1, <2>2, FillsInKeeps
<1>4. CASE ClearForm
  <2>1. /\ favorite' = NoPair /\ chosen' = NoPair /\ SetCurrentOrderBook(NoPair)
        /\ UNCHANGED <<favorites, priorities, touched, usedAs>>
    BY <1>4 DEF ClearForm
  <2>2. current' \in Pair \cup {NoPair} /\ subscribing' \in BOOLEAN
    BY <2>1, FollowKeeps
  <2> QED
    BY <1>1, <2>1, <2>2, FillsInKeeps
<1>5. CASE ResetForm
  <2>1. /\ favorites' \in Seq(Pair) /\ ChooseLastUsed(favorites') /\ OpenLastUsed(favorites')
        /\ UNCHANGED <<favorites, priorities, touched, usedAs>>
    BY <1>5 DEF ResetForm, PairsInv, PairsTyped
  <2> QED
    BY <1>1, <2>1, ChooseKeeps, OpenKeeps, FillsInKeeps
<1>6. CASE AddFavoritePair
  BY <1>1, <1>6, AddKeeps
<1>7. CASE DeleteFavoritePair
  BY <1>1, <1>7, DeleteKeeps
<1> QED
  BY <1>2, <1>3, <1>4, <1>5, <1>6, <1>7 DEF UserStep

LEMMA MarketStep ==
  ASSUME PairsInv, [MarketNext]_marketVars
  PROVE  PairsInv'
<1>1. CASE UNCHANGED pairVars
  BY <1>1 DEF pairVars, PairsInv, PairsTyped, Directed, IsFavorite
<1>2. CASE Choose
  BY <1>2, UserKeeps DEF Choose
<1>3. ASSUME NEW terms \in Orders, SubmitOffer(terms) PROVE PairsInv'
  <2>1. /\ current \in Pair /\ RecordUse(current) /\ Tick /\ UNCHANGED <<favorite, chosen, current, subscribing>>
    BY <1>3 DEF SubmitOffer, PairsInv, PairsTyped
  <2> QED
    BY <2>1, RecordUseKeeps
<1>6. CASE Subscribed
  <2>1. /\ UNCHANGED <<favorites, priorities, favorite, chosen, current, touched, usedAs, touches>>
        /\ subscribing' = FALSE
    BY <1>6 DEF Subscribed
  <2> QED
    BY <2>1 DEF PairsInv, PairsTyped, Directed, IsFavorite
<1>4. ASSUME MarketNext, ~Choose, ~Subscribed, \A terms \in Orders : ~SubmitOffer(terms)
      PROVE  UNCHANGED pairVars
  BY <1>4, Zenon DEF MarketNext, MyOffer, PeerOffers, PeerPays, Cancel
<1>5. (UNCHANGED marketVars) => UNCHANGED pairVars
  BY DEF marketVars
<1> QED
  BY <1>1, <1>2, <1>3, <1>4, <1>5, <1>6

(* What the wallet keeps of its pairs is in order and in step with what the *)
(* user did, through every step of the page and of the market.              *)
THEOREM PairsHold == MarketSpec => []PairsInv
<1>1. MarketInit => PairsInv
  BY PairsStart DEF MarketInit
<1>2. PairsInv /\ [MarketNext]_marketVars => PairsInv'
  BY MarketStep
<1> QED
  BY <1>1, <1>2, PTL DEF MarketSpec

(* The favorites are the pairs saved and not deleted, each once, the one    *)
(* used last first (favorite-trades-controller.js).                         *)
THEOREM FavoritesByUse == MarketSpec => []FavoritesAreByUse
<1>1. PairsInv => FavoritesAreByUse
  BY PairsShow
<1> QED
  BY <1>1, PairsHold, PTL

(* Two currencies are shown in the direction their codes were traded in     *)
(* last (currency-pair-service.js).                                         *)
THEOREM DirectionUsed == MarketSpec => []DirectionAsUsed
<1>1. PairsInv => DirectionAsUsed
  BY PairsShow
<1> QED
  BY <1>1, PairsHold, PTL

-----------------------------------------------------------------------------
(***************************************************************************)
(* Finite sets: induction on them, and the sum of a function on one.       *)
(***************************************************************************)
LEMMA SmallerFirst ==
  ASSUME NEW S, IsFiniteSet(S), NEW W,
         \A T \in SUBSET S : (\A U \in SUBSET T : U # T => U \in W) => T \in W
  PROVE  S \in W
<1> SUFFICES ASSUME S \notin W PROVE FALSE
  OBVIOUS
<1> DEFINE R == StrictSubsetOrdering(S)
           V == (SUBSET S) \ W
<1>1. IsWellFoundedOn(R, SUBSET S)
  <2>1. IsWellFoundedOn(R, FiniteSubsetsOf(S))
    BY FS_StrictSubsetOrderingWellFounded, Zenon
  <2>2. FiniteSubsetsOf(S) = SUBSET S
    BY FS_FiniteSubsetsOfFinite, Zenon
  <2> QED
    BY <2>1, <2>2, Zenon
<1>2. V \subseteq SUBSET S /\ V # {}
  OBVIOUS
<1>3. PICK T \in V : \A U \in V : ~ (<<U, T>> \in R)
  <2> HIDE DEF R, V
  <2> QED
    BY <1>1, <1>2, WFMin
<1>4. ASSUME NEW U \in SUBSET T, U # T
      PROVE  U \in W
  BY <1>3, <1>4 DEF StrictSubsetOrdering
<1> QED
  BY <1>3, <1>4

(* Element by element. *)
LEMMA OneMore ==
  ASSUME NEW S, IsFiniteSet(S), NEW W, {} \in W,
         \A T \in SUBSET S : \A x \in S \ T : T \in W => T \cup {x} \in W
  PROVE  S \in W
<1>1. ASSUME NEW T \in SUBSET S, \A U \in SUBSET T : U # T => U \in W
      PROVE  T \in W
  <2>1. CASE T = {}
    BY <2>1
  <2>2. CASE T # {}
    <3>1. PICK x \in T : TRUE
      BY <2>2
    <3>2. T \ {x} \in W /\ x \in S \ (T \ {x}) /\ (T \ {x}) \cup {x} = T
      BY <1>1, <3>1
    <3> QED
      BY <3>2
  <2> QED
    BY <2>1, <2>2
<1> QED
  BY <1>1, SmallerFirst

(* SumFunctionOnSet.  Its recursive function exists: Sums(g, f, S) says     *)
(* that g is the sum of f on each part of S.                                *)
Sums(g, f, S) ==
  g = [s \in SUBSET S |-> IF s = {} THEN 0
                          ELSE LET x == CHOOSE x \in s : TRUE IN f[x] + g[s \ {x}]]

LEMMA SumsAt ==
  ASSUME NEW g, NEW f, NEW S, Sums(g, f, S), NEW s \in SUBSET S
  PROVE  g[s] = IF s = {} THEN 0
                ELSE LET x == CHOOSE x \in s : TRUE IN f[x] + g[s \ {x}]
<1> DEFINE G == [t \in SUBSET S |-> IF t = {} THEN 0
                          ELSE LET x == CHOOSE x \in t : TRUE IN f[x] + g[t \ {x}]]
<1>1. G[s] = IF s = {} THEN 0
             ELSE LET x == CHOOSE x \in s : TRUE IN f[x] + g[s \ {x}]
  OBVIOUS
<1>2. g = G
  BY DEF Sums
<1> HIDE DEF G
<1> QED
  BY <1>1, <1>2

AnyOf(s) == CHOOSE x \in s : TRUE

LEMMA AnyIsOf ==
  ASSUME NEW s, s # {}
  PROVE  AnyOf(s) \in s
BY DEF AnyOf

LEMMA SumsTake ==
  ASSUME NEW g, NEW f, NEW S, Sums(g, f, S), NEW s \in SUBSET S, s # {}
  PROVE  g[s] = f[AnyOf(s)] + g[s \ {AnyOf(s)}]
BY SumsAt DEF AnyOf

LEMMA SumsAgree ==
  ASSUME NEW f, NEW S, NEW T, NEW g, NEW h, Sums(g, f, S), Sums(h, f, T),
         IsFiniteSet(T), T \subseteq S
  PROVE  g[T] = h[T]
<1> DEFINE W == {s \in SUBSET T : g[s] = h[s]}
<1>1. ASSUME NEW s \in SUBSET T, \A u \in SUBSET s : u # s => u \in W
      PROVE  s \in W
  <2>1. CASE s = {}
    BY <2>1, SumsAt
  <2>2. CASE s # {}
    <3>1. PICK x \in s : x = AnyOf(s)
      BY <2>2, AnyIsOf
    <3>2. g[s] = f[x] + g[s \ {x}]
      BY <2>2, <3>1, SumsTake
    <3>3. h[s] = f[x] + h[s \ {x}]
      BY <2>2, <3>1, SumsTake
    <3>4. s \ {x} \in SUBSET s /\ s \ {x} # s
      BY <3>1
    <3>5. g[s \ {x}] = h[s \ {x}]
      BY <1>1, <3>4
    <3> QED
      BY <3>2, <3>3, <3>5
  <2> QED
    BY <2>1, <2>2
<1> HIDE DEF W
<1>2. T \in W
  BY <1>1, SmallerFirst
<1> QED
  BY <1>2 DEF W

LEMMA SumsExist ==
  ASSUME NEW f, NEW S, IsFiniteSet(S)
  PROVE  \E g : Sums(g, f, S)
<1> DEFINE W == {T \in SUBSET S : \E g : Sums(g, f, T)}
<1>1. ASSUME NEW T \in SUBSET S, \A U \in SUBSET T : U # T => U \in W
      PROVE  T \in W
  <2> DEFINE of(s) == CHOOSE g : Sums(g, f, s)
             x(s) == CHOOSE x \in s : TRUE
             rest(s) == of(s \ {x(s)})[s \ {x(s)}]
             h == [s \in SUBSET T |-> IF s = {} THEN 0 ELSE f[x(s)] + rest(s)]
  <2>1. ASSUME NEW s \in SUBSET T, s # T
        PROVE  Sums(of(s), f, s)
    <3>1. \E g : Sums(g, f, s)
      BY <1>1, <2>1
    <3> QED
      BY <3>1, Zenon
  <2>2. ASSUME NEW s \in SUBSET T, s # {}
        PROVE  rest(s) = h[s \ {x(s)}]
    <3> DEFINE t == s \ {x(s)}
    <3>1. t \in SUBSET T /\ t # T /\ IsFiniteSet(t) /\ t # s
      BY <2>2, FS_Subset
    <3>2. CASE t = {}
      <4>1. of(t)[t] = 0
        <5>1. Sums(of(t), f, t)
          BY <2>1, <3>1
        <5> QED
          BY <5>1, <3>2, SumsAt
      <4> QED
        BY <4>1, <3>2, <3>1
    <3>3. CASE t # {}
      <4>1. h[t] = f[x(t)] + rest(t)
        BY <3>1, <3>3
      <4>2. Sums(of(t), f, t) /\ t \in SUBSET t
        BY <2>1, <3>1
      <4>3. of(t)[t] = f[x(t)] + of(t)[t \ {x(t)}]
        BY <4>2, <3>3, SumsAt
      <4>4. t \ {x(t)} \in SUBSET T /\ t \ {x(t)} # T /\ IsFiniteSet(t \ {x(t)}) /\ t \ {x(t)} \subseteq t
        BY <3>1, FS_Subset
      <4>5. Sums(of(t \ {x(t)}), f, t \ {x(t)})
        BY <2>1, <4>4
      <4>6. of(t)[t \ {x(t)}] = of(t \ {x(t)})[t \ {x(t)}]
        <5>1. PICK u : u = t \ {x(t)}
          OBVIOUS
        <5>2. PICK g : g = of(t)
          OBVIOUS
        <5>3. PICK k : k = of(u)
          OBVIOUS
        <5>4. Sums(g, f, t) /\ Sums(k, f, u) /\ IsFiniteSet(u) /\ u \subseteq t
          BY <4>2, <4>4, <4>5, <5>1, <5>2, <5>3
        <5>5. g[u] = k[u]
          BY <5>4, SumsAgree
        <5> QED
          BY <5>1, <5>2, <5>3, <5>5
      <4> QED
        BY <4>1, <4>3, <4>6
    <3> QED
      BY <3>2, <3>3
  <2> DEFINE H == [s \in SUBSET T |-> IF s = {} THEN 0
                          ELSE LET y == CHOOSE y \in s : TRUE IN f[y] + h[s \ {y}]]
  <2>3. ASSUME NEW s \in SUBSET T
        PROVE  h[s] = H[s]
    <3>1. h[s] = IF s = {} THEN 0 ELSE f[x(s)] + rest(s)
      OBVIOUS
    <3> HIDE DEF h, rest
    <3> QED
      BY <2>2, <3>1
  <2>4. h = H
    <3>1. h = [s \in SUBSET T |-> h[s]] /\ H = [s \in SUBSET T |-> H[s]]
      OBVIOUS
    <3> HIDE DEF h, H
    <3> QED
      BY <2>3, <3>1
  <2>5. Sums(h, f, T)
    BY <2>4 DEF Sums
  <2> QED
    BY <2>5
<1> HIDE DEF W
<1>2. S \in W
  BY <1>1, SmallerFirst
<1> QED
  BY <1>2 DEF W

LEMMA SumIs ==
  ASSUME NEW f, NEW S, IsFiniteSet(S)
  PROVE  \E g : Sums(g, f, S) /\ SumFunctionOnSet(f, S) = g[S]
<1> DEFINE r == CHOOSE g : Sums(g, f, S)
<1>1. Sums(r, f, S)
  BY SumsExist, Zenon
<1>2. SumFunctionOnSet(f, S) = r[S]
  BY DEF SumFunctionOnSet, FoldFunctionOnSet, MapThenFoldSet, Sums
<1> QED
  BY <1>1, <1>2, Zenon

LEMMA SumNone ==
  ASSUME NEW f
  PROVE  SumFunctionOnSet(f, {}) = 0
<1>1. PICK g : Sums(g, f, {}) /\ SumFunctionOnSet(f, {}) = g[{}]
  BY SumIs, FS_EmptySet
<1> QED
  BY <1>1, SumsAt

LEMMA SumChosen ==
  ASSUME NEW f, NEW S, IsFiniteSet(S), S # {}
  PROVE  LET x == CHOOSE x \in S : TRUE
         IN  SumFunctionOnSet(f, S) = f[x] + SumFunctionOnSet(f, S \ {x})
<1> DEFINE x == CHOOSE x \in S : TRUE
           T == S \ {x}
<1>1. IsFiniteSet(T) /\ T \subseteq S
  BY FS_Subset
<1> HIDE DEF T
<1>2. PICK g : Sums(g, f, S) /\ SumFunctionOnSet(f, S) = g[S]
  BY SumIs
<1>3. PICK h : Sums(h, f, T) /\ SumFunctionOnSet(f, T) = h[T]
  BY SumIs, <1>1
<1>4. g[T] = h[T]
  BY <1>1, <1>2, <1>3, SumsAgree
<1>5. g[S] = f[x] + g[T]
  <2>1. S \in SUBSET S
    OBVIOUS
  <2> QED
    BY <2>1, <1>2, SumsAt DEF T
<1> QED
  BY <1>2, <1>3, <1>4, <1>5 DEF T

LEMMA SumType ==
  ASSUME NEW f, NEW S, IsFiniteSet(S), \A x \in S : f[x] \in Int
  PROVE  SumFunctionOnSet(f, S) \in Int
<1> DEFINE W == {T \in SUBSET S : SumFunctionOnSet(f, T) \in Int}
<1>1. ASSUME NEW T \in SUBSET S, \A U \in SUBSET T : U # T => U \in W
      PROVE  T \in W
  <2>1. CASE T = {}
    BY <2>1, SumNone
  <2>2. CASE T # {}
    <3> DEFINE x == CHOOSE x \in T : TRUE
               U == T \ {x}
    <3>1. x \in T /\ U \in SUBSET T /\ U # T /\ IsFiniteSet(T)
      BY <2>2, FS_Subset
    <3>2. SumFunctionOnSet(f, T) = f[x] + SumFunctionOnSet(f, U)
      BY <2>2, <3>1, SumChosen
    <3>3. SumFunctionOnSet(f, U) \in Int /\ f[x] \in Int
      BY <3>1, <1>1
    <3> QED
      BY <3>2, <3>3
  <2> QED
    BY <2>1, <2>2
<1> HIDE DEF W
<1>2. S \in W
  BY <1>1, SmallerFirst
<1> QED
  BY <1>2 DEF W

(* Whichever element is taken out first. *)
LEMMA SumOut ==
  ASSUME NEW f, NEW S, IsFiniteSet(S), \A x \in S : f[x] \in Int, NEW a \in S
  PROVE  SumFunctionOnSet(f, S) = f[a] + SumFunctionOnSet(f, S \ {a})
<1> DEFINE W == {T \in SUBSET S : \A b \in T :
                   SumFunctionOnSet(f, T) = f[b] + SumFunctionOnSet(f, T \ {b})}
<1>1. ASSUME NEW T \in SUBSET S, \A U \in SUBSET T : U # T => U \in W
      PROVE  T \in W
  <2> SUFFICES ASSUME NEW b \in T
               PROVE  SumFunctionOnSet(f, T) = f[b] + SumFunctionOnSet(f, T \ {b})
    OBVIOUS
  <2> DEFINE x == CHOOSE x \in T : TRUE
  <2>1. x \in T /\ IsFiniteSet(T)
    BY FS_Subset
  <2>2. SumFunctionOnSet(f, T) = f[x] + SumFunctionOnSet(f, T \ {x})
    BY <2>1, SumChosen
  <2> HIDE DEF x
  <2>3. CASE x = b
    BY <2>2, <2>3
  <2>4. CASE x # b
    <3>1. T \ {x} \in W /\ T \ {b} \in W /\ b \in T \ {x} /\ x \in T \ {b}
      BY <1>1, <2>1, <2>4
    <3> DEFINE U == (T \ {x}) \ {b}
    <3>2. (T \ {b}) \ {x} = U /\ IsFiniteSet(U)
      BY <2>1, FS_Subset
    <3>3. SumFunctionOnSet(f, T \ {x}) = f[b] + SumFunctionOnSet(f, U)
      BY <3>1
    <3>4. SumFunctionOnSet(f, T \ {b}) = f[x] + SumFunctionOnSet(f, U)
      BY <3>1, <3>2
    <3>5. SumFunctionOnSet(f, U) \in Int /\ f[x] \in Int /\ f[b] \in Int
      BY <3>2, <2>1, SumType
    <3> HIDE DEF U, W
    <3> QED
      BY <2>2, <3>3, <3>4, <3>5
  <2> QED
    BY <2>3, <2>4
<1> HIDE DEF W
<1>2. S \in W
  BY <1>1, SmallerFirst
<1> QED
  BY <1>2 DEF W

LEMMA SumMore ==
  ASSUME NEW f, NEW S, IsFiniteSet(S), NEW a, a \notin S, \A x \in S \cup {a} : f[x] \in Int
  PROVE  SumFunctionOnSet(f, S \cup {a}) = f[a] + SumFunctionOnSet(f, S)
<1>1. (S \cup {a}) \ {a} = S /\ IsFiniteSet(S \cup {a}) /\ a \in S \cup {a}
  BY FS_AddElement
<1> QED
  BY <1>1, SumOut

LEMMA SumOne ==
  ASSUME NEW f, NEW a, f[a] \in Int
  PROVE  SumFunctionOnSet(f, {a}) = f[a]
<1>1. {} \cup {a} = {a} /\ IsFiniteSet({})
  BY FS_EmptySet
<1>2. SumFunctionOnSet(f, {} \cup {a}) = f[a] + SumFunctionOnSet(f, {})
  BY <1>1, SumMore
<1> QED
  BY <1>1, <1>2, SumNone

(* A sum over other names of the same terms. *)
LEMMA SumRenamed ==
  ASSUME NEW f, NEW g, NEW S, IsFiniteSet(S), NEW T, NEW h,
         \A x \in S : h[x] \in T /\ f[x] \in Int /\ g[h[x]] = f[x],
         \A x, y \in S : h[x] = h[y] => x = y,
         \A t \in T : \E x \in S : h[x] = t
  PROVE  IsFiniteSet(T) /\ SumFunctionOnSet(f, S) = SumFunctionOnSet(g, T)
<1> DEFINE of(A) == {h[x] : x \in A}
           W == {A \in SUBSET S : /\ IsFiniteSet(of(A))
                                  /\ SumFunctionOnSet(f, A) = SumFunctionOnSet(g, of(A))}
<1>1. {} \in W
  <2>1. of({}) = {}
    OBVIOUS
  <2> QED
    BY <2>1, SumNone, FS_EmptySet
<1>2. ASSUME NEW A \in SUBSET S, NEW x \in S \ A, A \in W
      PROVE  A \cup {x} \in W
  <2>1. of(A \cup {x}) = of(A) \cup {h[x]}
    OBVIOUS
  <2>2. h[x] \notin of(A)
    OBVIOUS
  <2>3. IsFiniteSet(A) /\ \A y \in A \cup {x} : f[y] \in Int
    BY FS_Subset
  <2>4. \A t \in of(A) \cup {h[x]} : g[t] \in Int
    OBVIOUS
  <2>5. IsFiniteSet(of(A)) /\ SumFunctionOnSet(f, A) = SumFunctionOnSet(g, of(A))
    BY <1>2
  <2>6. SumFunctionOnSet(f, A \cup {x}) = f[x] + SumFunctionOnSet(f, A)
    BY <2>3, SumMore
  <2>7. SumFunctionOnSet(g, of(A) \cup {h[x]}) = g[h[x]] + SumFunctionOnSet(g, of(A))
    <3> HIDE DEF of
    <3> QED
      BY <2>2, <2>4, <2>5, SumMore
  <2>8. IsFiniteSet(of(A) \cup {h[x]}) /\ g[h[x]] = f[x]
    BY <2>5, FS_AddElement
  <2> HIDE DEF of
  <2> QED
    BY <2>1, <2>5, <2>6, <2>7, <2>8
<1>3. of(S) = T
  OBVIOUS
<1> HIDE DEF W
<1>4. S \in W
  BY <1>1, <1>2, OneMore
<1> QED
  BY <1>3, <1>4 DEF W

LEMMA SumSame ==
  ASSUME NEW f, NEW g, NEW S, IsFiniteSet(S), \A x \in S : f[x] \in Int /\ g[x] = f[x]
  PROVE  SumFunctionOnSet(f, S) = SumFunctionOnSet(g, S)
<1> DEFINE h == [x \in S |-> x]
<1>1. \A x \in S : h[x] \in S /\ f[x] \in Int /\ g[h[x]] = f[x]
  OBVIOUS
<1>2. \A x, y \in S : h[x] = h[y] => x = y
  OBVIOUS
<1>3. \A t \in S : \E x \in S : h[x] = t
  OBVIOUS
<1> HIDE DEF h
<1> QED
  BY <1>1, <1>2, <1>3, SumRenamed

LEMMA SumJoined ==
  ASSUME NEW f, NEW S, NEW T, IsFiniteSet(S), IsFiniteSet(T), S \cap T = {},
         \A x \in S \cup T : f[x] \in Int
  PROVE  SumFunctionOnSet(f, S \cup T) = SumFunctionOnSet(f, S) + SumFunctionOnSet(f, T)
<1> DEFINE W == {A \in SUBSET T : SumFunctionOnSet(f, S \cup A)
                                    = SumFunctionOnSet(f, S) + SumFunctionOnSet(f, A)}
<1>1. SumFunctionOnSet(f, S) \in Int
  BY SumType
<1>2. {} \in W
  <2>1. S \cup {} = S
    OBVIOUS
  <2> QED
    BY <1>1, <2>1, SumNone
<1>3. ASSUME NEW A \in SUBSET T, NEW x \in T \ A, A \in W
      PROVE  A \cup {x} \in W
  <2>1. S \cup (A \cup {x}) = (S \cup A) \cup {x} /\ x \notin S \cup A
    OBVIOUS
  <2>2. IsFiniteSet(A) /\ IsFiniteSet(S \cup A)
    BY FS_Subset, FS_Union
  <2>3. SumFunctionOnSet(f, A \cup {x}) = f[x] + SumFunctionOnSet(f, A)
    BY <2>2, SumMore
  <2>4. SumFunctionOnSet(f, (S \cup A) \cup {x}) = f[x] + SumFunctionOnSet(f, S \cup A)
    BY <2>1, <2>2, SumMore
  <2>5. SumFunctionOnSet(f, A) \in Int /\ f[x] \in Int
    BY <2>2, SumType
  <2>6. SumFunctionOnSet(f, S \cup A) = SumFunctionOnSet(f, S) + SumFunctionOnSet(f, A)
    BY <1>3
  <2>7. SumFunctionOnSet(f, S \cup (A \cup {x}))
          = SumFunctionOnSet(f, S) + SumFunctionOnSet(f, A \cup {x})
    <3>1. SumFunctionOnSet(f, S \cup (A \cup {x})) = SumFunctionOnSet(f, (S \cup A) \cup {x})
      BY <2>1
    <3> QED
      BY <1>1, <3>1, <2>3, <2>4, <2>5, <2>6
  <2> QED
    BY <2>7
<1> HIDE DEF W
<1>4. T \in W
  BY <1>2, <1>3, OneMore
<1> QED
  BY <1>4 DEF W

LEMMA SumOfZeros ==
  ASSUME NEW f, NEW S, IsFiniteSet(S), \A x \in S : f[x] = 0
  PROVE  SumFunctionOnSet(f, S) = 0
<1> DEFINE W == {A \in SUBSET S : SumFunctionOnSet(f, A) = 0}
<1>1. {} \in W
  BY SumNone
<1>2. ASSUME NEW A \in SUBSET S, NEW x \in S \ A, A \in W
      PROVE  A \cup {x} \in W
  <2>1. IsFiniteSet(A) /\ \A y \in A \cup {x} : f[y] \in Int
    BY FS_Subset
  <2>2. SumFunctionOnSet(f, A \cup {x}) = f[x] + SumFunctionOnSet(f, A)
    BY <2>1, SumMore
  <2> QED
    BY <1>2, <2>2
<1> HIDE DEF W
<1>3. S \in W
  BY <1>1, <1>2, OneMore
<1> QED
  BY <1>3 DEF W

(* Terms that are nothing do not count. *)
LEMMA SumSupported ==
  ASSUME NEW f, NEW S, IsFiniteSet(S), NEW A \in SUBSET S,
         \A x \in A : f[x] \in Int, \A x \in S \ A : f[x] = 0
  PROVE  SumFunctionOnSet(f, S) = SumFunctionOnSet(f, A)
<1> DEFINE B == S \ A
<1>1. IsFiniteSet(A) /\ IsFiniteSet(B)
  BY FS_Subset
<1>2. S = A \cup B /\ A \cap B = {} /\ \A x \in A \cup B : f[x] \in Int
  OBVIOUS
<1>3. \A x \in B : f[x] = 0
  OBVIOUS
<1> HIDE DEF B
<1>4. SumFunctionOnSet(f, B) = 0
  BY <1>1, <1>3, SumOfZeros
<1>5. SumFunctionOnSet(f, A) \in Int
  BY <1>1, SumType
<1>6. SumFunctionOnSet(f, A \cup B) = SumFunctionOnSet(f, A) + SumFunctionOnSet(f, B)
  BY <1>1, <1>2, SumJoined
<1>7. SumFunctionOnSet(f, S) = SumFunctionOnSet(f, A \cup B)
  BY <1>2
<1> QED
  BY <1>4, <1>5, <1>6, <1>7

(* A sum by kinds: h names the kind of each term, part the terms of a kind. *)
ByKind(f, S, h, K, g, part, U) ==
  /\ IsFiniteSet(S) /\ IsFiniteSet(K)
  /\ \A x \in S : f[x] \in Int
  /\ \A k \in K : g[k] = SumFunctionOnSet(f, part[k])
  /\ \A k \in K : \A x : x \in part[k] <=> x \in S /\ h[x] = k
  /\ \A x : x \in U <=> x \in S /\ h[x] \in K

LEMMA SumByKind ==
  ASSUME NEW f, NEW S, NEW h, NEW K, NEW g, NEW part, NEW U, ByKind(f, S, h, K, g, part, U)
  PROVE  SumFunctionOnSet(g, K) = SumFunctionOnSet(f, U)
<1> USE DEF ByKind
<1> DEFINE of(A) == {x \in S : h[x] \in A}
           W == {A \in SUBSET K : SumFunctionOnSet(g, A) = SumFunctionOnSet(f, of(A))}
<1>1. {} \in W
  <2>1. of({}) = {}
    OBVIOUS
  <2> QED
    BY <2>1, SumNone
<1>2. ASSUME NEW k \in K
      PROVE  g[k] \in Int
  <2>1. part[k] \subseteq S
    OBVIOUS
  <2>2. IsFiniteSet(part[k]) /\ \A x \in part[k] : f[x] \in Int
    BY <2>1, FS_Subset
  <2> QED
    BY <2>2, SumType
<1>3. ASSUME NEW A \in SUBSET K, NEW k \in K \ A, A \in W
      PROVE  A \cup {k} \in W
  <2> DEFINE B == part[k]
  <2>1. of(A \cup {k}) = B \cup of(A) /\ B \cap of(A) = {}
    OBVIOUS
  <2>2. IsFiniteSet(A) /\ IsFiniteSet(of(A)) /\ IsFiniteSet(B)
    <3>1. of(A) \subseteq S /\ B \subseteq S
      OBVIOUS
    <3> QED
      BY <3>1, FS_Subset
  <2>3. \A x \in B \cup of(A) : f[x] \in Int
    OBVIOUS
  <2>4. g[k] = SumFunctionOnSet(f, B)
    OBVIOUS
  <2>5. SumFunctionOnSet(g, A \cup {k}) = g[k] + SumFunctionOnSet(g, A)
    BY <1>2, <2>2, SumMore
  <2>6. SumFunctionOnSet(g, A) = SumFunctionOnSet(f, of(A))
    BY <1>3
  <2> HIDE DEF of, B
  <2>7. SumFunctionOnSet(f, B \cup of(A)) = SumFunctionOnSet(f, B) + SumFunctionOnSet(f, of(A))
    BY <2>1, <2>2, <2>3, SumJoined
  <2> QED
    BY <2>1, <2>4, <2>5, <2>6, <2>7
<1>4. of(K) = U
  OBVIOUS
<1> HIDE DEF W, of
<1>5. K \in W
  BY <1>1, <1>3, OneMore
<1> QED
  BY <1>4, <1>5 DEF W

-----------------------------------------------------------------------------
(***************************************************************************)
(* Divisibility, and prices: ratios in lowest terms.                       *)
(***************************************************************************)
LEMMA Scaled ==
  ASSUME NEW a \in Int, NEW b \in Int, NEW k \in Int, k > 0
  PROVE  /\ a < b <=> a * k < b * k
         /\ a = b <=> a * k = b * k
<1>1. ASSUME NEW x \in Int, NEW y \in Int, x < y
      PROVE  x * k < y * k
  <2>1. PICK z \in Int : z = y - x
    OBVIOUS
  <2>2. z > 0
    BY <1>1, <2>1
  <2>3. z * k > 0
    BY <2>2
  <2>4. z * k = y * k - x * k
    BY <2>1
  <2> QED
    BY <2>3, <2>4
<1>2. a < b => a * k < b * k
  BY <1>1
<1>3. b < a => b * k < a * k
  BY <1>1
<1>4. a * k \in Int /\ b * k \in Int
  OBVIOUS
<1> QED
  BY <1>2, <1>3, <1>4

LEMMA DividesIs ==
  ASSUME NEW d \in Int, d > 0, NEW n \in Int
  PROVE  /\ Divides(d, n) <=> \E q \in Int : q * d = n
         /\ Divides(d, n) => (n \div d) \in Int /\ (n \div d) * d = n
<1>1. /\ (n \div d) \in Int /\ (n % d) \in Int
      /\ 0 <= n % d /\ n % d < d
      /\ n = d * (n \div d) + (n % d)
  OBVIOUS
<1>2. ASSUME NEW q \in Int, q * d = n
      PROVE  n % d = 0
  <2>1. PICK r \in Int : r = n % d
    BY <1>1
  <2>2. PICK k \in Int : k = n \div d
    BY <1>1
  <2>3. n = d * k + r /\ 0 <= r /\ r < d
    BY <1>1, <2>1, <2>2
  <2>4. PICK e \in Int : e = q - k
    OBVIOUS
  <2>5. e * d = r
    <3>1. e * d = q * d - k * d
      BY <2>4
    <3>2. d * k = k * d
      OBVIOUS
    <3> QED
      BY <3>1, <3>2, <1>2, <2>3
  <2>6. ~ (e >= 1)
    <3> SUFFICES ASSUME e >= 1 PROVE FALSE
      OBVIOUS
    <3>1. e = 1 \/ 1 < e
      OBVIOUS
    <3>2. 1 * d < e * d \/ e * d = d
      BY <3>1, Scaled
    <3> QED
      BY <3>2, <2>3, <2>5
  <2>7. ~ (e <= -1)
    <3> SUFFICES ASSUME e < 0 PROVE FALSE
      OBVIOUS
    <3>1. e * d < 0 * d
      BY Scaled
    <3> QED
      BY <3>1, <2>3, <2>5
  <2> QED
    BY <2>1, <2>5, <2>6, <2>7
<1>3. ASSUME n % d = 0
      PROVE  (n \div d) * d = n
  BY <1>1, <1>3
<1> QED
  BY <1>1, <1>2, <1>3 DEF Divides

LEMMA LeastOf ==
  ASSUME NEW T, T \subseteq Nat, T # {}
  PROVE  \E x \in T : \A y \in T : x <= y
<1> DEFINE R == OpToRel(<, Nat)
<1>1. PICK x \in T : \A y \in T : ~ (<<y, x>> \in R)
  <2> HIDE DEF R
  <2>1. IsWellFoundedOn(R, Nat)
    BY NatLessThanWellFounded DEF R
  <2> QED
    BY <2>1, WFMin
<1>2. ASSUME NEW y \in T
      PROVE  x <= y
  <2>1. x \in Nat /\ y \in Nat
    OBVIOUS
  <2>2. ~ (y < x)
    BY <1>1, <2>1 DEF OpToRel
  <2> QED
    BY <2>1, <2>2
<1> QED
  BY <1>2

(* The lowest terms of a ratio. *)
LEMMA DenominatorIs ==
  ASSUME NEW c \in Int, c > 0, NEW b \in Int, b > 0
  PROVE  LET d == Denominator(c, b)
         IN  /\ d \in Int /\ d > 0 /\ d <= b /\ Divides(b, d * c)
             /\ \A e \in Int : e > 0 /\ Divides(b, e * c) => d <= e
<1>1. b \in Terms(c, b)
  <2>1. c * b = b * c /\ b * c \in Int /\ b \in 1..b
    OBVIOUS
  <2>2. Divides(b, b * c)
    BY <2>1, DividesIs
  <2> QED
    BY <2>1, <2>2 DEF Terms
<1>2. Terms(c, b) \subseteq Nat
  BY DEF Terms
<1>3. \E d \in Terms(c, b) : \A e \in Terms(c, b) : d <= e
  BY <1>1, <1>2, LeastOf
<1> DEFINE d == Denominator(c, b)
<1>4. d \in Terms(c, b) /\ \A e \in Terms(c, b) : d <= e
  BY <1>3 DEF Denominator
<1> HIDE DEF d
<1>5. d \in Int /\ d > 0 /\ d <= b /\ Divides(b, d * c)
  BY <1>4 DEF Terms
<1>6. ASSUME NEW e \in Int, e > 0, Divides(b, e * c)
      PROVE  d <= e
  <2>1. CASE e <= b
    <3>1. e \in Terms(c, b)
      BY <1>6, <2>1 DEF Terms
    <3> QED
      BY <3>1, <1>4
  <2>2. CASE ~ (e <= b)
    BY <1>5, <1>6, <2>2
  <2> QED
    BY <2>1, <2>2
<1> QED
  BY <1>5, <1>6 DEF d

(* A ratio's price is a ratio in the same proportion. *)
LEMMA PriceIs ==
  ASSUME NEW c \in Int, c > 0, NEW b \in Int, b > 0
  PROVE  LET p == Price(c, b)
         IN  /\ p = <<p[1], p[2]>> /\ p[1] \in Int /\ p[2] \in Int /\ p[2] > 0
             /\ p[2] = Denominator(c, b) /\ p[1] * b = p[2] * c
<1>1. PICK d \in Int : d = Denominator(c, b)
  BY DenominatorIs
<1>2. d > 0 /\ Divides(b, d * c)
  BY <1>1, DenominatorIs
<1>3. PICK n \in Int : n = d * c
  OBVIOUS
<1>4. (n \div b) \in Int /\ (n \div b) * b = n
  BY <1>2, <1>3, DividesIs
<1>5. Price(c, b) = <<n \div b, d>>
  BY <1>1, <1>3 DEF Price
<1> QED
  BY <1>1, <1>2, <1>3, <1>4, <1>5

(* Offers of one ratio have one price. *)
LEMMA DividesToo ==
  ASSUME NEW c \in Int, c > 0, NEW b \in Int, b > 0,
         NEW c2 \in Int, c2 > 0, NEW b2 \in Int, b2 > 0, c * b2 = c2 * b,
         NEW e \in Int, Divides(b, e * c)
  PROVE  Divides(b2, e * c2)
<1>1. e * c \in Int /\ e * c2 \in Int
  OBVIOUS
<1>2. PICK q \in Int : q * b = e * c
  BY <1>1, DividesIs
<1>3. (q * b2) * c = (e * c2) * c
  <2>1. (q * b2) * c = q * (c * b2)
    OBVIOUS
  <2>2. q * (c2 * b) = (q * b) * c2
    OBVIOUS
  <2>3. (e * c) * c2 = (e * c2) * c
    OBVIOUS
  <2> QED
    BY <1>2, <2>1, <2>2, <2>3
<1>4. q * b2 = e * c2
  <2>1. PICK x \in Int : x = q * b2
    OBVIOUS
  <2>2. PICK y \in Int : y = e * c2
    OBVIOUS
  <2>3. x * c = y * c
    BY <1>3, <2>1, <2>2
  <2>4. x = y
    BY <2>3, Scaled
  <2> QED
    BY <2>1, <2>2, <2>4
<1> QED
  BY <1>1, <1>4, DividesIs

LEMMA PriceOfRatio ==
  ASSUME NEW c \in Int, c > 0, NEW b \in Int, b > 0,
         NEW c2 \in Int, c2 > 0, NEW b2 \in Int, b2 > 0, c * b2 = c2 * b
  PROVE  Price(c, b) = Price(c2, b2)
<1>1. PICK d \in Int : d = Denominator(c, b)
  BY DenominatorIs
<1>2. PICK d2 \in Int : d2 = Denominator(c2, b2)
  BY DenominatorIs
<1>3. /\ d > 0 /\ Divides(b, d * c) /\ \A e \in Int : e > 0 /\ Divides(b, e * c) => d <= e
      /\ d2 > 0 /\ Divides(b2, d2 * c2)
      /\ \A e \in Int : e > 0 /\ Divides(b2, e * c2) => d2 <= e
  BY <1>1, <1>2, DenominatorIs
<1>4. Divides(b2, d * c2)
  BY <1>3, DividesToo
<1>5. c2 * b = c * b2
  OBVIOUS
<1>6. Divides(b, d2 * c)
  BY <1>3, <1>5, DividesToo
<1>7. d = d2
  BY <1>3, <1>4, <1>6
<1> DEFINE p == Price(c, b)
           q == Price(c2, b2)
<1>8. /\ p = <<p[1], p[2]>> /\ p[1] \in Int /\ p[2] = d /\ p[1] * b = d * c
      /\ q = <<q[1], q[2]>> /\ q[1] \in Int /\ q[2] = d /\ q[1] * b2 = d * c2
  <2>1. /\ p = <<p[1], p[2]>> /\ p[1] \in Int /\ p[2] = Denominator(c, b)
        /\ p[1] * b = p[2] * c
    BY PriceIs, Zenon
  <2>2. /\ q = <<q[1], q[2]>> /\ q[1] \in Int /\ q[2] = Denominator(c2, b2)
        /\ q[1] * b2 = q[2] * c2
    BY PriceIs, Zenon
  <2> HIDE DEF p, q
  <2> QED
    BY <1>1, <1>2, <1>7, <2>1, <2>2
<1> HIDE DEF p, q
<1>9. PICK m \in Int : m = p[1]
  BY <1>8
<1>10. PICK n \in Int : n = q[1]
  BY <1>8
<1>11. m = n
  <2>1. m * b = d * c /\ n * b2 = d * c2
    BY <1>8, <1>9, <1>10
  <2>2. (m * b2) * b = (m * b) * b2
    OBVIOUS
  <2>3. (d * c) * b2 = d * (c * b2)
    OBVIOUS
  <2>4. d * (c2 * b) = (d * c2) * b
    OBVIOUS
  <2>5. (m * b2) * b = (n * b2) * b
    BY <2>1, <2>2, <2>3, <2>4
  <2>6. PICK x \in Int : x = m * b2
    OBVIOUS
  <2>7. PICK y \in Int : y = n * b2
    OBVIOUS
  <2>8. x = y
    BY <2>5, <2>6, <2>7, Scaled
  <2>9. m * b2 = n * b2
    BY <2>6, <2>7, <2>8
  <2> QED
    BY <2>9, Scaled
<1> QED
  BY <1>8, <1>9, <1>10, <1>11 DEF p, q

(* Prices are ordered. *)
LEMMA BelowIs ==
  ASSUME NEW c \in Int, c > 0, NEW b \in Int, b > 0,
         NEW c2 \in Int, c2 > 0, NEW b2 \in Int, b2 > 0
  PROVE  \/ Price(c, b) = Price(c2, b2)
         \/ Below(Price(c, b), Price(c2, b2))
         \/ Below(Price(c2, b2), Price(c, b))
<1>1. PICK p : p = Price(c, b)
  OBVIOUS
<1>2. PICK q : q = Price(c2, b2)
  OBVIOUS
<1>3. p[1] \in Int /\ p[2] \in Int /\ p[2] > 0 /\ p[1] * b = p[2] * c
  BY <1>1, PriceIs
<1>4. q[1] \in Int /\ q[2] \in Int /\ q[2] > 0 /\ q[1] * b2 = q[2] * c2
  BY <1>2, PriceIs
<1>5. PICK m \in Int, d \in Int : m = p[1] /\ d = p[2]
  BY <1>3
<1>6. PICK n \in Int, e \in Int : n = q[1] /\ e = q[2]
  BY <1>4
<1>7. d > 0 /\ m * b = d * c /\ e > 0 /\ n * b2 = e * c2
  BY <1>3, <1>4, <1>5, <1>6
<1>8. ASSUME m * e = n * d
      PROVE  p = q
  <2>1. PICK k \in Int : k = d * e
    OBVIOUS
  <2>2. k > 0
    BY <1>7, <2>1
  <2>3. ((m * e) * b) * b2 = ((n * d) * b) * b2
    BY <1>8
  <2>4. ((m * e) * b) * b2 = (m * b) * (e * b2) /\ ((n * d) * b) * b2 = (n * b2) * (d * b)
    OBVIOUS
  <2>5. (d * c) * (e * b2) = (e * c2) * (d * b)
    BY <1>7, <2>3, <2>4
  <2>6. (d * c) * (e * b2) = (c * b2) * (d * e) /\ (e * c2) * (d * b) = (c2 * b) * (d * e)
    OBVIOUS
  <2>7. PICK x \in Int : x = c * b2
    OBVIOUS
  <2>8. PICK y \in Int : y = c2 * b
    OBVIOUS
  <2>9. x * k = y * k
    BY <2>1, <2>5, <2>6, <2>7, <2>8
  <2>10. x = y
    BY <2>2, <2>9, Scaled
  <2>11. c * b2 = c2 * b
    BY <2>7, <2>8, <2>10
  <2> QED
    BY <1>1, <1>2, <2>11, PriceOfRatio
<1>9. m * e = n * d \/ m * e < n * d \/ n * d < m * e
  OBVIOUS
<1> QED
  BY <1>1, <1>2, <1>5, <1>6, <1>8, <1>9 DEF Below

LEMMA BelowOnward ==
  ASSUME NEW p, p[1] \in Int, p[2] \in Int, p[2] > 0,
         NEW q, q[1] \in Int, q[2] \in Int, q[2] > 0,
         NEW r, r[1] \in Int, r[2] \in Int, r[2] > 0, Below(p, q), Below(q, r)
  PROVE  Below(p, r)
<1>1. PICK a \in Int, b \in Int : a = p[1] /\ b = p[2]
  OBVIOUS
<1>2. PICK c \in Int, d \in Int : c = q[1] /\ d = q[2]
  OBVIOUS
<1>3. PICK e \in Int, f \in Int : e = r[1] /\ f = r[2]
  OBVIOUS
<1>4. a * d < c * b /\ c * f < e * d /\ b > 0 /\ d > 0 /\ f > 0
  BY <1>1, <1>2, <1>3 DEF Below
<1>5. (a * d) * f < (c * b) * f
  <2>1. PICK x \in Int : x = a * d
    OBVIOUS
  <2>2. PICK y \in Int : y = c * b
    OBVIOUS
  <2>3. x * f < y * f
    BY <1>4, <2>1, <2>2, Scaled
  <2> QED
    BY <2>1, <2>2, <2>3
<1>6. (c * f) * b < (e * d) * b
  <2>1. PICK x \in Int : x = c * f
    OBVIOUS
  <2>2. PICK y \in Int : y = e * d
    OBVIOUS
  <2>3. x * b < y * b
    BY <1>4, <2>1, <2>2, Scaled
  <2> QED
    BY <2>1, <2>2, <2>3
<1>7. (c * b) * f = (c * f) * b
  OBVIOUS
<1>8. (a * f) * d < (e * b) * d
  <2>1. (a * d) * f = (a * f) * d /\ (e * d) * b = (e * b) * d
    OBVIOUS
  <2>2. (a * d) * f \in Int /\ (c * b) * f \in Int /\ (e * d) * b \in Int
    OBVIOUS
  <2> QED
    BY <1>5, <1>6, <1>7, <2>1, <2>2
<1>9. a * f < e * b
  <2>1. PICK x \in Int : x = a * f
    OBVIOUS
  <2>2. PICK y \in Int : y = e * b
    OBVIOUS
  <2>3. x * d < y * d
    BY <1>8, <2>1, <2>2
  <2>4. x < y
    BY <1>4, <2>3, Scaled
  <2> QED
    BY <2>1, <2>2, <2>4
<1> QED
  BY <1>1, <1>3, <1>9 DEF Below

LEMMA BelowOneWay ==
  ASSUME NEW p, p[1] \in Int, p[2] \in Int, NEW q, q[1] \in Int, q[2] \in Int, Below(p, q)
  PROVE  ~ Below(q, p) /\ p # q
<1>1. p[1] * q[2] \in Int /\ q[1] * p[2] \in Int
  OBVIOUS
<1> QED
  BY <1>1 DEF Below

-----------------------------------------------------------------------------
(***************************************************************************)
(* The price levels of a list of offers: one a price, ranked, with what is *)
(* offered at the price and at it or better.                               *)
(***************************************************************************)
(* A list of the elements of a set, each once. *)
ListsAll(s, S) ==
  /\ s \in Seq(S)
  /\ \A i, j \in DOMAIN s : i < j => s[i] # s[j]
  /\ \A x \in S : \E i \in DOMAIN s : s[i] = x

LEMMA SetListed ==
  ASSUME NEW S, IsFiniteSet(S)
  PROVE  ListsAll(SetToSeq(S), S)
<1> DEFINE n == Cardinality(S)
           s == SetToSeq(S)
<1>1. n \in Nat /\ ExistsBijection(1..n, S)
  BY FS_CardinalityType
<1>2. PICK f \in Bijection(1..n, S) : TRUE
  BY <1>1 DEF ExistsBijection
<1>3. f \in [1..n -> S] /\ IsInjective(f)
  BY <1>2 DEF Bijection, Injection
<1>4. s \in [1..n -> S] /\ IsInjective(s)
  BY <1>3 DEF SetToSeq
<1>5. s \in Injection(1..n, S)
  BY <1>4 DEF Injection
<1>6. s \in Surjection(1..n, S)
  <2>1. IsFiniteSet(1..n) /\ Cardinality(1..n) = n
    BY <1>1, FS_Interval
  <2> QED
    BY <1>5, <2>1, FS_Injection
<1> HIDE DEF s, n
<1>7. s \in Seq(S) /\ DOMAIN s = 1..n
  BY <1>1, <1>4
<1>8. \A i, j \in DOMAIN s : i < j => s[i] # s[j]
  <2> SUFFICES ASSUME NEW i \in 1..n, NEW j \in 1..n, i < j, s[i] = s[j] PROVE FALSE
    BY <1>7
  <2>1. i = j
    BY <1>4, <1>7 DEF IsInjective
  <2> QED
    BY <2>1, <1>1
<1> QED
  BY <1>6, <1>7, <1>8 DEF Surjection, ListsAll, s

LEMMA KeptListed ==
  ASSUME NEW S, NEW s, ListsAll(s, S), NEW K
  PROVE  ListsAll(Keep(s, K), S \cap K)
<1> DEFINE R == {e \in S \X S : e[1] # e[2]}
           k == Keep(s, K)
<1>1. s \in Seq(S) /\ \A i, j \in DOMAIN s : i < j => <<s[i], s[j]>> \in R
  BY DEF ListsAll
<1> HIDE DEF R
<1>2. k \in Seq(S) /\ KeepsOrder(k, s, K, R, Len(s))
  BY <1>1, KeepInOrder
<1> HIDE DEF k
<1>3. \A e : (\E i \in DOMAIN k : k[i] = e) <=> e \in K /\ \E i \in 1..Len(s) : s[i] = e
  BY <1>2 DEF KeepsOrder
<1>4. 1..Len(s) = DOMAIN s
  BY <1>1
<1>5. \A i \in DOMAIN k : k[i] \in S \cap K
  BY <1>1, <1>2, <1>3, <1>4
<1>6. k \in Seq(S \cap K)
  <2>1. DOMAIN k = 1..Len(k) /\ Len(k) \in Nat /\ k = [i \in 1..Len(k) |-> k[i]]
    BY <1>2
  <2> QED
    BY <1>5, <2>1
<1>7. \A i, j \in DOMAIN k : i < j => k[i] # k[j]
  BY <1>2 DEF KeepsOrder, R
<1>8. \A x \in S \cap K : \E i \in DOMAIN k : k[i] = x
  BY <1>3, <1>4 DEF ListsAll
<1> QED
  BY <1>6, <1>7, <1>8 DEF ListsAll, k

LEMMA BothListed ==
  ASSUME NEW S, NEW s, ListsAll(s, S), NEW T, NEW t, ListsAll(t, T), S \cap T = {}
  PROVE  ListsAll(s \o t, S \cup T)
<1> DEFINE u == s \o t
<1>1. s \in Seq(S \cup T) /\ t \in Seq(S \cup T) /\ s \in Seq(S) /\ t \in Seq(T)
  BY DEF ListsAll
<1>2. PICK m \in Nat, n \in Nat : m = Len(s) /\ n = Len(t)
  BY <1>1
<1>3. /\ u \in Seq(S \cup T) /\ DOMAIN u = 1..m + n /\ DOMAIN s = 1..m /\ DOMAIN t = 1..n
      /\ \A i \in 1..m : u[i] = s[i] /\ s[i] \in S
      /\ \A i \in 1..n : u[m + i] = t[i] /\ t[i] \in T
  BY <1>1, <1>2
<1> HIDE DEF u
<1>4. ASSUME NEW i \in Int, 1 <= i, i <= m + n
      PROVE  \/ i <= m /\ i \in 1..m
             \/ m < i /\ i - m \in 1..n /\ u[i] = t[i - m]
  <2>1. CASE i <= m
    BY <1>4, <2>1
  <2>2. CASE m < i
    <3>1. i - m \in 1..n
      BY <1>4, <2>2
    <3>2. u[m + (i - m)] = t[i - m]
      BY <1>3, <3>1
    <3>3. m + (i - m) = i
      OBVIOUS
    <3> QED
      BY <2>2, <3>1, <3>2, <3>3
  <2> QED
    BY <2>1, <2>2
<1>5. ASSUME NEW i \in DOMAIN u, NEW j \in DOMAIN u, i < j
      PROVE  u[i] # u[j]
  <2>1. i \in Int /\ 1 <= i /\ i <= m + n /\ j \in Int /\ 1 <= j /\ j <= m + n
    BY <1>3
  <2>2. CASE j <= m
    <3>1. i \in DOMAIN s /\ j \in DOMAIN s /\ u[i] = s[i] /\ u[j] = s[j]
      BY <1>3, <1>5, <2>1, <2>2
    <3> QED
      BY <3>1, <1>5 DEF ListsAll
  <2>3. CASE i <= m /\ m < j
    <3>1. j - m \in 1..n /\ u[j] = t[j - m] /\ i \in 1..m
      BY <1>4, <2>1, <2>3
    <3>2. u[i] \in S /\ u[j] \in T
      BY <1>3, <3>1
    <3> QED
      BY <3>2
  <2>4. CASE m < i
    <3>0. m < j
      BY <1>5, <2>1, <2>4
    <3>1. i - m \in 1..n /\ u[i] = t[i - m]
      BY <1>4, <2>1, <2>4
    <3>2. j - m \in 1..n /\ u[j] = t[j - m]
      BY <1>4, <2>1, <3>0
    <3>3. i - m < j - m
      BY <2>1, <1>5
    <3> QED
      BY <1>3, <3>1, <3>2, <3>3 DEF ListsAll
  <2> QED
    BY <2>1, <2>2, <2>3, <2>4
<1>6. ASSUME NEW x \in S \cup T
      PROVE  \E i \in DOMAIN u : u[i] = x
  <2>1. CASE x \in S
    <3>1. PICK i \in DOMAIN s : s[i] = x
      BY <2>1 DEF ListsAll
    <3>2. i \in DOMAIN u /\ u[i] = x
      BY <1>3, <3>1
    <3> QED
      BY <3>2
  <2>2. CASE x \in T
    <3>1. PICK i \in DOMAIN t : t[i] = x
      BY <2>2 DEF ListsAll
    <3>2. m + i \in DOMAIN u /\ u[m + i] = x
      BY <1>3, <3>1
    <3> QED
      BY <3>2
  <2> QED
    BY <2>1, <2>2
<1> QED
  BY <1>3, <1>5, <1>6 DEF ListsAll, u

-----------------------------------------------------------------------------
(* Levels with distinct prices are sorted by rank. *)
Before(p, q, ascending) == IF ascending THEN Below(p, q) ELSE Below(q, p)

Ranked(levels) ==
  /\ \A l \in levels : l.price[1] \in Int /\ l.price[2] \in Int /\ l.price[2] > 0
  /\ \A l, m \in levels : l = m \/ Below(l.price, m.price) \/ Below(m.price, l.price)

LEMMA BetterIs ==
  ASSUME NEW L, IsFiniteSet(L), Ranked(L), NEW asc \in BOOLEAN, NEW l \in L
  PROVE  /\ Better(L, l, asc) = {m \in L : Before(m.price, l.price, asc)}
         /\ IsFiniteSet(Better(L, l, asc))
         /\ Cardinality(Better(L, l, asc)) \in 0..Cardinality(L) - 1
         /\ \A m \in Better(L, l, asc) :
              Cardinality(Better(L, m, asc)) < Cardinality(Better(L, l, asc))
<1>1. \A m \in L : Better(L, m, asc) = {k \in L : Before(k.price, m.price, asc)}
  BY DEF Better, Before
<1>2. \A m \in L : m \notin Better(L, m, asc)
  BY BelowOneWay DEF Better, Ranked
<1>3. \A m \in L : IsFiniteSet(Better(L, m, asc)) /\ Cardinality(Better(L, m, asc)) \in Nat
  <2> SUFFICES ASSUME NEW m \in L
               PROVE  IsFiniteSet(Better(L, m, asc)) /\ Cardinality(Better(L, m, asc)) \in Nat
    OBVIOUS
  <2>1. Better(L, m, asc) \subseteq L
    BY DEF Better
  <2> QED
    BY <2>1, FS_Subset, FS_CardinalityType
<1>4. Cardinality(Better(L, l, asc)) \in 0..Cardinality(L) - 1
  <2>1. Better(L, l, asc) \subseteq L /\ Better(L, l, asc) # L
    BY <1>2 DEF Better
  <2>2. Cardinality(L) \in Nat
    BY FS_CardinalityType
  <2>3. Cardinality(Better(L, l, asc)) <= Cardinality(L) /\ Cardinality(Better(L, l, asc)) # Cardinality(L)
    BY <2>1, FS_Subset
  <2> QED
    BY <1>3, <2>2, <2>3
<1>5. ASSUME NEW m \in Better(L, l, asc)
      PROVE  Cardinality(Better(L, m, asc)) < Cardinality(Better(L, l, asc))
  <2>1. m \in L
    BY DEF Better
  <2>2. Better(L, m, asc) \subseteq Better(L, l, asc)
    <3> SUFFICES ASSUME NEW k \in L, Before(k.price, m.price, asc)
                 PROVE  Before(k.price, l.price, asc)
      BY <1>1, <2>1
    <3>1. Before(m.price, l.price, asc)
      BY <1>1
    <3> QED
      BY <2>1, <3>1, BelowOnward DEF Before, Ranked
  <2>3. Better(L, m, asc) # Better(L, l, asc)
    BY <1>2, <2>1
  <2>4. Cardinality(Better(L, m, asc)) <= Cardinality(Better(L, l, asc))
        /\ Cardinality(Better(L, m, asc)) # Cardinality(Better(L, l, asc))
    BY <1>3, <2>2, <2>3, FS_Subset
  <2> QED
    BY <1>3, <2>1, <2>4
<1> QED
  BY <1>1, <1>3, <1>4, <1>5

LEMMA LevelsSorted ==
  ASSUME NEW L, IsFiniteSet(L), Ranked(L), NEW asc \in BOOLEAN
  PROVE  LET s == SortedLevels(L, asc)
             n == Cardinality(L)
         IN  /\ n \in Nat /\ s = [i \in 1..n |-> s[i]]
             /\ \A i \in 1..n : s[i] \in L
             /\ \A l \in L : \E i \in 1..n : s[i] = l
             /\ \A i, j \in 1..n : i < j => Before(s[i].price, s[j].price, asc)
<1>1. PICK n \in Nat : n = Cardinality(L)
  BY FS_CardinalityType
<1> DEFINE rank == [l \in L |-> Cardinality(Better(L, l, asc))]
           s == SortedLevels(L, asc)
<1>2. \A l \in L : rank[l] \in 0..n - 1 /\ rank[l] = Cardinality(Better(L, l, asc))
  BY <1>1, BetterIs
<1>3. \A l, m \in L : Before(m.price, l.price, asc) => rank[m] < rank[l]
  <2> SUFFICES ASSUME NEW l \in L, NEW m \in L, Before(m.price, l.price, asc)
               PROVE  rank[m] < rank[l]
    OBVIOUS
  <2>1. m \in Better(L, l, asc)
    BY BetterIs
  <2> QED
    BY <2>1, BetterIs
<1>4. \A l, m \in L : l = m \/ Before(m.price, l.price, asc) \/ Before(l.price, m.price, asc)
  BY DEF Ranked, Before
<1> HIDE DEF rank
<1>5. \A l, m \in L : rank[l] = rank[m] => l = m
  BY <1>2, <1>3, <1>4
<1>6. \A i \in 0..n - 1 : \E l \in L : rank[l] = i
  <2>1. rank \in Injection(L, 0..n - 1)
    <3>1. rank \in [L -> 0..n - 1]
      BY <1>2 DEF rank
    <3> QED
      BY <3>1, <1>5 DEF Injection, IsInjective
  <2>2. IsFiniteSet(0..n - 1) /\ Cardinality(0..n - 1) = n
    BY FS_Interval
  <2>3. rank \in Surjection(L, 0..n - 1)
    BY <1>1, <2>1, <2>2, FS_Injection
  <2> QED
    BY <2>3 DEF Surjection
<1>7. ASSUME NEW i \in 1..n
      PROVE  s[i] \in L /\ rank[s[i]] = i - 1
  <2>1. s[i] = CHOOSE l \in L : Cardinality(Better(L, l, asc)) = i - 1
    BY <1>1 DEF SortedLevels
  <2>2. i - 1 \in 0..n - 1
    OBVIOUS
  <2>3. \E l \in L : Cardinality(Better(L, l, asc)) = i - 1
    BY <1>2, <1>6, <2>2
  <2> HIDE DEF s
  <2> QED
    BY <1>2, <2>1, <2>3
<1>8. s = [i \in 1..n |-> s[i]]
  BY <1>1 DEF SortedLevels
<1> HIDE DEF s
<1>9. ASSUME NEW l \in L
      PROVE  \E i \in 1..n : s[i] = l
  <2>1. PICK r \in 0..n - 1 : r = rank[l]
    BY <1>2
  <2>2. r + 1 \in 1..n /\ (r + 1) - 1 = r
    BY <1>1
  <2>3. s[r + 1] \in L /\ rank[s[r + 1]] = r
    BY <1>7, <2>2
  <2>4. s[r + 1] = l
    BY <1>5, <2>1, <2>3
  <2> QED
    BY <2>2, <2>4
<1>10. ASSUME NEW i \in 1..n, NEW j \in 1..n, i < j
       PROVE  Before(s[i].price, s[j].price, asc)
  <2>1. s[i] \in L /\ s[j] \in L /\ rank[s[i]] < rank[s[j]]
    BY <1>7, <1>10
  <2>2. rank[s[i]] \in Int /\ rank[s[j]] \in Int
    BY <1>2, <2>1
  <2>3. ~ (rank[s[j]] < rank[s[i]]) /\ rank[s[i]] # rank[s[j]]
    BY <2>1, <2>2
  <2>4. s[i] # s[j] /\ ~ Before(s[j].price, s[i].price, asc)
    BY <2>1, <2>3, <1>3
  <2> QED
    BY <1>4, <2>1, <2>4
<1> QED
  BY <1>1, <1>7, <1>8, <1>9, <1>10 DEF s

LEMMA FriendlyIs ==
  ASSUME NEW o, o.gets.value \in Int, o.gets.value > 0, o.pays.value \in Int, o.pays.value > 0,
         NEW pair
  PROVE  LET f == Friendly(o, pair)
         IN  /\ f.base \in Int /\ f.base > 0 /\ f.counter \in Int /\ f.counter > 0
             /\ f.price = Price(f.counter, f.base)
BY DEF Friendly

(* Offers of positive amounts, of whatever pair. *)
Positive(S) ==
  \A o \in S : /\ o.gets.value \in Int /\ o.gets.value > 0
               /\ o.pays.value \in Int /\ o.pays.value > 0

PricesOf(S, pair) == {Friendly(o, pair).price : o \in S}
BaseOf(S, pair) == [o \in S |-> Friendly(o, pair).base]
AtPrice(S, pair, p) == {o \in S : Friendly(o, pair).price = p}
LevelAt(S, pair, p) == [price |-> p, amount |-> SumFunctionOnSet(BaseOf(S, pair), AtPrice(S, pair, p))]

(* A level takes in all the offers of its price, whatever their order. *)
LEMMA Merged ==
  ASSUME NEW S, IsFiniteSet(S), Positive(S), NEW pair, NEW list, ListsAll(list, S)
  PROVE  MergedLevels(list, pair) = {LevelAt(S, pair, p) : p \in PricesOf(S, pair)}
<1> DEFINE friendly == [i \in DOMAIN list |-> Friendly(list[i], pair)]
           base == [i \in DOMAIN list |-> friendly[i].base]
           at(p) == {i \in DOMAIN list : friendly[i].price = p}
           P == {friendly[i].price : i \in DOMAIN list}
<1>1. /\ \A i \in DOMAIN list : list[i] \in S
      /\ \A o \in S : \E i \in DOMAIN list : list[i] = o
      /\ \A i, j \in DOMAIN list : list[i] = list[j] => i = j
  <2>1. list \in Seq(S) /\ DOMAIN list = 1..Len(list) /\ Len(list) \in Nat
    BY DEF ListsAll
  <2>2. ASSUME NEW i \in DOMAIN list, NEW j \in DOMAIN list, list[i] = list[j]
        PROVE  i = j
    <3>1. i \in Int /\ j \in Int /\ ~ (i < j) /\ ~ (j < i)
      BY <2>1, <2>2 DEF ListsAll
    <3> QED
      BY <3>1
  <2> QED
    BY <2>1, <2>2 DEF ListsAll
<1>2. P = PricesOf(S, pair)
  BY <1>1 DEF PricesOf
<1>3. IsFiniteSet(DOMAIN list)
  <2>1. DOMAIN list = 1..Len(list) /\ Len(list) \in Nat
    BY DEF ListsAll
  <2> QED
    BY <2>1, FS_Interval
<1>4. ASSUME NEW p \in P
      PROVE  SumFunctionOnSet(base, at(p)) = LevelAt(S, pair, p).amount
  <2> DEFINE A == at(p)
             T == AtPrice(S, pair, p)
             g == BaseOf(S, pair)
  <2>1. IsFiniteSet(A)
    BY <1>3, FS_Subset
  <2>2. \A x \in A : list[x] \in T /\ base[x] \in Int /\ g[list[x]] = base[x]
    <3> SUFFICES ASSUME NEW x \in A
                 PROVE  list[x] \in T /\ base[x] \in Int /\ g[list[x]] = base[x]
      OBVIOUS
    <3>1. x \in DOMAIN list /\ Friendly(list[x], pair).price = p /\ list[x] \in S
          /\ base[x] = Friendly(list[x], pair).base
      BY <1>1
    <3>2. Friendly(list[x], pair).base \in Int
      BY <3>1, FriendlyIs DEF Positive
    <3> HIDE DEF base
    <3> QED
      BY <3>1, <3>2 DEF AtPrice, BaseOf
  <2>3. \A x, y \in A : list[x] = list[y] => x = y
    BY <1>1
  <2>4. \A t \in T : \E x \in A : list[x] = t
    BY <1>1 DEF AtPrice
  <2> HIDE DEF A, T, g, base
  <2>5. SumFunctionOnSet(base, A) = SumFunctionOnSet(g, T)
    BY <2>1, <2>2, <2>3, <2>4, SumRenamed
  <2> QED
    BY <2>5 DEF A, T, g, LevelAt
<1>5. \A p : LevelAt(S, pair, p).price = p
      /\ LevelAt(S, pair, p) = [price |-> p, amount |-> LevelAt(S, pair, p).amount]
  BY DEF LevelAt
<1>6. MergedLevels(list, pair) = {[price |-> p, amount |-> SumFunctionOnSet(base, at(p))] : p \in P}
  BY DEF MergedLevels
<1> HIDE DEF P, at, base
<1>7. \A p \in P : [price |-> p, amount |-> SumFunctionOnSet(base, at(p))] = LevelAt(S, pair, p)
  BY <1>4, <1>5
<1> QED
  BY <1>2, <1>6, <1>7

LEMMA LevelsRanked ==
  ASSUME NEW S, IsFiniteSet(S), Positive(S), NEW pair
  PROVE  LET L == {LevelAt(S, pair, p) : p \in PricesOf(S, pair)}
         IN  IsFiniteSet(L) /\ Ranked(L)
<1> DEFINE L == {LevelAt(S, pair, p) : p \in PricesOf(S, pair)}
           h == [o \in S |-> LevelAt(S, pair, Friendly(o, pair).price)]
<1>1. h \in Surjection(S, L)
  BY DEF Surjection, PricesOf
<1>2. IsFiniteSet(L)
  <2> HIDE DEF h, L
  <2> QED
    BY <1>1, FS_Surjection
<1>3. ASSUME NEW l \in L
      PROVE  \E o \in S : l = LevelAt(S, pair, l.price) /\ l.price = Friendly(o, pair).price
  BY DEF PricesOf, LevelAt
<1>4. ASSUME NEW o \in S
      PROVE  \E c \in Int, b \in Int : c > 0 /\ b > 0 /\ Friendly(o, pair).price = Price(c, b)
  BY FriendlyIs DEF Positive
<1> HIDE DEF L
<1>5. ASSUME NEW l \in L
      PROVE  /\ l = LevelAt(S, pair, l.price)
             /\ \E c \in Int, b \in Int : c > 0 /\ b > 0 /\ l.price = Price(c, b)
  BY <1>3, <1>4
<1>6. ASSUME NEW l \in L
      PROVE  l.price[1] \in Int /\ l.price[2] \in Int /\ l.price[2] > 0
  BY <1>5, PriceIs
<1>7. ASSUME NEW l \in L, NEW m \in L
      PROVE  l = m \/ Below(l.price, m.price) \/ Below(m.price, l.price)
  <2>1. PICK c \in Int, b \in Int : c > 0 /\ b > 0 /\ l.price = Price(c, b)
    BY <1>5
  <2>2. PICK c2 \in Int, b2 \in Int : c2 > 0 /\ b2 > 0 /\ m.price = Price(c2, b2)
    BY <1>5
  <2>3. l.price = m.price \/ Below(l.price, m.price) \/ Below(m.price, l.price)
    BY <2>1, <2>2, BelowIs
  <2> QED
    BY <1>5, <2>3
<1> QED
  BY <1>2, <1>6, <1>7 DEF L, Ranked

(* What PriceLevels makes of the offers in S. *)
LevelsShow(levels, S, pair, ascending) ==
  LET base == BaseOf(S, pair)
  IN  /\ {levels[i].price : i \in DOMAIN levels} = PricesOf(S, pair)
      /\ \A i, j \in DOMAIN levels : i < j => Before(levels[i].price, levels[j].price, ascending)
      /\ \A i \in DOMAIN levels :
           LET p == levels[i].price IN
           /\ levels[i].amount = SumFunctionOnSet(base, AtPrice(S, pair, p))
           /\ levels[i].depth =
                SumFunctionOnSet(base, {o \in S : \/ Friendly(o, pair).price = p
                                                  \/ Before(Friendly(o, pair).price, p, ascending)})

(* The levels of a list are those of the set of offers it lists. *)
LEMMA LevelsAre ==
  ASSUME NEW S, IsFiniteSet(S), Positive(S), NEW pair, NEW list, ListsAll(list, S), NEW type
  PROVE  LevelsShow(PriceLevels(type, list, pair), S, pair, type = "asks")
<1> DEFINE L == MergedLevels(list, pair)
           asc == type = "asks"
           s == SortedLevels(L, asc)
           n == Cardinality(L)
           base == BaseOf(S, pair)
           price(o) == Friendly(o, pair).price
<1>0. asc \in BOOLEAN
  OBVIOUS
<1>1. L = {LevelAt(S, pair, p) : p \in PricesOf(S, pair)}
  BY Merged
<1>2. IsFiniteSet(L) /\ Ranked(L)
  BY <1>1, LevelsRanked
<1> HIDE DEF L, asc
<1>3. /\ n \in Nat /\ s = [i \in 1..n |-> s[i]]
      /\ \A i \in 1..n : s[i] \in L
      /\ \A l \in L : \E i \in 1..n : s[i] = l
      /\ \A i, j \in 1..n : i < j => Before(s[i].price, s[j].price, asc)
  BY <1>0, <1>2, LevelsSorted, Zenon
<1> DEFINE amount == [i \in DOMAIN s |-> s[i].amount]
           levels == WithDepths(s)
<1> HIDE DEF s, n
<1>4. DOMAIN s = 1..n
  BY <1>3
<1>5. /\ DOMAIN levels = 1..n
      /\ \A i \in 1..n : /\ levels[i].price = s[i].price /\ levels[i].amount = s[i].amount
                         /\ levels[i].depth = SumFunctionOnSet(amount, 1..i)
  BY <1>4 DEF WithDepths
<1>6. \A i \in 1..n : /\ s[i].price \in PricesOf(S, pair)
                      /\ s[i].amount = SumFunctionOnSet(base, AtPrice(S, pair, s[i].price))
  <2> SUFFICES ASSUME NEW i \in 1..n
               PROVE  /\ s[i].price \in PricesOf(S, pair)
                      /\ s[i].amount = SumFunctionOnSet(base, AtPrice(S, pair, s[i].price))
    OBVIOUS
  <2>1. PICK p \in PricesOf(S, pair) : s[i] = LevelAt(S, pair, p)
    BY <1>1, <1>3
  <2> QED
    BY <2>1 DEF LevelAt
<1>7. \A p \in PricesOf(S, pair) : \E i \in 1..n : s[i].price = p
  <2> SUFFICES ASSUME NEW p \in PricesOf(S, pair)
               PROVE  \E i \in 1..n : s[i].price = p
    OBVIOUS
  <2>1. LevelAt(S, pair, p) \in L /\ LevelAt(S, pair, p).price = p
    BY <1>1 DEF LevelAt
  <2> QED
    BY <2>1, <1>3
<1>8. \A i, j \in 1..n : s[i].price = s[j].price => i = j
  <2> SUFFICES ASSUME NEW i \in 1..n, NEW j \in 1..n, s[i].price = s[j].price, i # j
               PROVE  FALSE
    OBVIOUS
  <2>1. i \in Int /\ j \in Int /\ (i < j \/ j < i)
    BY <1>3
  <2>2. Before(s[i].price, s[j].price, asc) \/ Before(s[j].price, s[i].price, asc)
    BY <1>3, <2>1
  <2>3. Below(s[i].price, s[j].price) \/ Below(s[j].price, s[i].price)
    BY <2>2 DEF Before
  <2>4. \A k \in 1..n : s[k].price[1] \in Int /\ s[k].price[2] \in Int
    BY <1>2, <1>3 DEF Ranked
  <2>5. PICK p : p = s[i].price
    OBVIOUS
  <2>6. Below(p, p) /\ p[1] \in Int /\ p[2] \in Int
    BY <2>3, <2>4, <2>5
  <2> QED
    BY <2>6, BelowOneWay
<1>9. \A o \in S : base[o] \in Int
  BY FriendlyIs DEF BaseOf, Positive
<1> HIDE DEF amount, levels, base
<1>10. ASSUME NEW i \in 1..n
       PROVE  SumFunctionOnSet(amount, 1..i) =
                SumFunctionOnSet(base, {o \in S : price(o) = s[i].price \/ Before(price(o), s[i].price, asc)})
  <2> DEFINE h == [o \in S |-> CHOOSE k \in 1..n : s[k].price = price(o)]
             K == 1..i
  <2>1. \A o \in S : h[o] \in 1..n /\ s[h[o]].price = price(o)
    BY <1>7 DEF PricesOf
  <2> HIDE DEF h
  <2>2. ASSUME NEW k \in 1..n
        PROVE  {o \in S : h[o] = k} = AtPrice(S, pair, s[k].price)
    BY <1>8, <2>1 DEF AtPrice
  <2>3. K \subseteq 1..n /\ IsFiniteSet(K)
    <3>1. i \in Int /\ i <= n /\ n \in Int
      BY <1>3
    <3> QED
      BY <3>1, FS_Interval
  <2> DEFINE part == [k \in K |-> {o \in S : h[o] = k}]
             U == {o \in S : h[o] \in K}
  <2>4. /\ \A k \in K : amount[k] = SumFunctionOnSet(base, part[k])
        /\ \A k \in K : \A x : x \in part[k] <=> x \in S /\ h[x] = k
        /\ \A x : x \in U <=> x \in S /\ h[x] \in K
    <3>1. \A k \in K : amount[k] = SumFunctionOnSet(base, part[k])
      BY <1>4, <1>6, <2>2, <2>3 DEF amount
    <3> QED
      BY <3>1
  <2>5. {o \in S : h[o] \in K} = {o \in S : price(o) = s[i].price \/ Before(price(o), s[i].price, asc)}
    <3> SUFFICES ASSUME NEW o \in S
                 PROVE  h[o] \in K <=> price(o) = s[i].price \/ Before(price(o), s[i].price, asc)
      OBVIOUS
    <3>1. PICK k \in 1..n : k = h[o]
      BY <2>1
    <3>2. s[k].price = price(o)
      BY <2>1, <3>1
    <3>3. k \in Int /\ i \in Int /\ 1 <= k
      BY <1>3
    <3>4. CASE k < i
      <4>1. Before(s[k].price, s[i].price, asc)
        BY <1>3, <3>4
      <4> QED
        BY <3>1, <3>2, <3>3, <3>4, <4>1
    <3>5. CASE k = i
      BY <3>1, <3>2, <3>3, <3>5
    <3>6. CASE i < k
      <4>1. Before(s[i].price, s[k].price, asc)
        BY <1>3, <3>6
      <4>2. s[i].price[1] \in Int /\ s[i].price[2] \in Int /\ s[k].price[1] \in Int /\ s[k].price[2] \in Int
        BY <1>2, <1>3 DEF Ranked
      <4>3. ~ Before(s[k].price, s[i].price, asc) /\ s[k].price # s[i].price
        BY <4>1, <4>2, BelowOneWay DEF Before
      <4>4. ~ (k \in K)
        BY <3>3, <3>6
      <4> QED
        BY <3>1, <3>2, <4>3, <4>4
    <3> QED
      BY <3>3, <3>4, <3>5, <3>6
  <2> HIDE DEF K, part, U
  <2>6. SumFunctionOnSet(amount, K) = SumFunctionOnSet(base, U)
    <3>1. ByKind(base, S, h, K, amount, part, U)
      BY <1>9, <2>3, <2>4 DEF ByKind
    <3> QED
      BY <3>1, SumByKind
  <2> QED
    BY <2>5, <2>6 DEF K, U
<1>11. levels = PriceLevels(type, list, pair)
  BY DEF PriceLevels, levels, s, L, asc
<1>12. {levels[i].price : i \in DOMAIN levels} = PricesOf(S, pair)
  BY <1>5, <1>6, <1>7
<1>13. \A i, j \in DOMAIN levels : i < j => Before(levels[i].price, levels[j].price, asc)
  BY <1>3, <1>5
<1>14. ASSUME NEW i \in DOMAIN levels
       PROVE  LET p == levels[i].price IN
           /\ levels[i].amount = SumFunctionOnSet(base, AtPrice(S, pair, p))
           /\ levels[i].depth =
                SumFunctionOnSet(base, {o \in S : price(o) = p \/ Before(price(o), p, asc)})
  BY <1>5, <1>6, <1>10
<1> QED
  BY <1>11, <1>12, <1>13, <1>14 DEF LevelsShow, base, asc

-----------------------------------------------------------------------------
(***************************************************************************)
(* The ledger of Market, and the book the client keeps of one pair.        *)
(* MarketInv is inductive: amounts never fall below nothing, an offer is   *)
(* named once by an account and a sequence number already used, and what   *)
(* the book lists on each side is the set of the ledger's offers there.    *)
(***************************************************************************)
(* What is in the ledger, and in the book the client keeps of it. *)
Stands(o) ==
  /\ o = [account |-> o.account, sequence |-> o.sequence, gets |-> o.gets, pays |-> o.pays]
  /\ o.account \in Account /\ AmountsOf(o) \in Offered
  /\ o.sequence \in 1..sequence[o.account]

LedgerInv ==
  /\ balance \in [Account -> [Currency -> Nat]] /\ sequence \in [Account -> Nat]
  /\ lines = LinesAfter(balance)
  /\ IsFiniteSet(offers) /\ \A o \in offers : Stands(o)
  /\ \A o, x \in offers : OfferAt(o) = OfferAt(x) => o = x

Seen(role, pair) == {o \in offers : OfferRole(o, pair) = role}

BookInv ==
  current # NoPair /\ ~subscribing =>
    /\ ListsAll(book.bids, Seen("bid", current))
    /\ ListsAll(book.asks, Seen("ask", current))

MarketInv == LedgerInv /\ BookInv /\ order \in Orders \cup {NoOrder}

LEMMA OfferedIs ==
  ASSUME NEW o, AmountsOf(o) \in Offered
  PROVE  /\ o.gets.cur \in Currency /\ o.pays.cur \in Currency /\ o.gets.cur # o.pays.cur
         /\ o.gets.value \in Int /\ o.gets.value > 0 /\ o.pays.value \in Int /\ o.pays.value > 0
         /\ o.gets = [cur |-> o.gets.cur, value |-> o.gets.value]
         /\ o.pays = [cur |-> o.pays.cur, value |-> o.pays.value]
BY DEF AmountsOf, Offered

LEMMA OfferedWhen ==
  ASSUME NEW g \in Currency, NEW q \in Currency, g # q,
         NEW m \in Int, m > 0, NEW n \in Int, n > 0
  PROVE  [gets |-> [cur |-> g, value |-> m], pays |-> [cur |-> q, value |-> n]] \in Offered
BY DEF Offered

(* A transaction of a does one of two things.  It exchanges nothing, makes  *)
(* at most one offer and removes at most one; or it takes k of an offer x   *)
(* for p, at x's price, and what is left of x either stands or goes, and    *)
(* then the rest of a's own may stand.                                      *)
IsNew(o, a) ==
  /\ o = [account |-> a, sequence |-> sequence[a] + 1, gets |-> o.gets, pays |-> o.pays]
  /\ AmountsOf(o) \in Offered

Idle(a, ok, bal, put, gone) ==
  /\ bal = balance /\ ok \in BOOLEAN
  /\ put = {} \/ \E o : put = {o} /\ IsNew(o, a)
  /\ gone = {} \/ \E x \in offers : gone = {x}
  /\ ~ok => put = {} /\ gone = {}

Deal(x, a, k, p) ==
  /\ x.account # a /\ k > 0 /\ p > 0 /\ k <= x.gets.value
  /\ p * x.gets.value = x.pays.value * k
  /\ k <= Spendable(x.account, x.gets.cur) /\ p <= Spendable(a, x.pays.cur)

Flow(x, k, p, c) == IF c = x.gets.cur THEN k ELSE IF c = x.pays.cur THEN -p ELSE 0

Traded(x, a, k, p) ==
  [b \in Account |-> [c \in Currency |->
     balance[b][c] + (IF b = a THEN Flow(x, k, p, c) ELSE -Flow(x, k, p, c))]]

Struck(x, a, k, p, bal, put, gone) ==
  /\ Deal(x, a, k, p) /\ bal = Traded(x, a, k, p)
  /\ LET left == Less(x, p, k)
     IN  \/ put = {left} /\ gone = {} /\ k < x.gets.value
         \/ gone = {left} /\ (put = {} \/ \E o : put = {o} /\ IsNew(o, a))

Move(type, a, ok, bal, put, gone) ==
  /\ type \in {"OfferCreate", "OfferCancel", "Payment"}
  /\ a \in Account /\ balance[a][Str] > Fee
  /\ \/ Idle(a, ok, bal, put, gone)
     \/ ok = TRUE /\ \E x \in offers, k \in Int, p \in Int : Struck(x, a, k, p, bal, put, gone)

-----------------------------------------------------------------------------
(* Only the balance of a in c differs, by n. *)
Credited(new, bal, a, c, n) ==
  \A b \in Account, d \in Currency : new[b][d] = bal[b][d] + (IF b = a /\ d = c THEN n ELSE 0)

LEMMA PayIs ==
  ASSUME NEW bal \in [Account -> [Currency -> Int]], NEW a \in Account, NEW c \in Currency,
         NEW n \in Int
  PROVE  /\ Pay(bal, a, c, n) \in [Account -> [Currency -> Int]]
         /\ Credited(Pay(bal, a, c, n), bal, a, c, n)
<1> DEFINE new == [bal EXCEPT ![a][c] = @ + n]
<1>1. bal[a] \in [Currency -> Int] /\ bal[a][c] + n \in Int
  OBVIOUS
<1>2. new = [b \in Account |-> IF b = a THEN [bal[a] EXCEPT ![c] = @ + n] ELSE bal[b]]
  OBVIOUS
<1>3. \A b \in Account : new[b] = IF b = a THEN [bal[a] EXCEPT ![c] = @ + n] ELSE bal[b]
  BY <1>2
<1>4. \A d \in Currency : [bal[a] EXCEPT ![c] = @ + n][d] = IF d = c THEN bal[a][c] + n ELSE bal[a][d]
  BY <1>1
<1>5. [bal[a] EXCEPT ![c] = @ + n] \in [Currency -> Int]
  BY <1>1
<1> HIDE DEF new
<1>6. ASSUME NEW b \in Account, NEW d \in Currency
      PROVE  new[b][d] = bal[b][d] + (IF b = a /\ d = c THEN n ELSE 0)
  <2>1. bal[b][d] \in Int
    OBVIOUS
  <2> QED
    BY <1>3, <1>4, <2>1
<1>7. \A b \in Account : new[b] \in [Currency -> Int]
  BY <1>3, <1>5
<1>8. new \in [Account -> [Currency -> Int]]
  BY <1>2, <1>7 DEF new
<1> QED
  BY <1>6, <1>8 DEF Pay, new, Credited

LEMMA ExchangeIs ==
  ASSUME LedgerInv, NEW x \in offers, NEW a \in Account, x.account # a, NEW k \in Int,
         Cost(x, k) \in Int
  PROVE  Exchange(x, a, k) = Traded(x, a, k, Cost(x, k))
<1>1. PICK p \in Int, n \in Int, m \in Int : p = Cost(x, k) /\ n = -k /\ m = -p
  OBVIOUS
<1>2. Stands(x) /\ balance \in [Account -> [Currency -> Nat]]
  BY DEF LedgerInv
<1>3. PICK g \in Currency, q \in Currency, s \in Account :
        g = x.gets.cur /\ q = x.pays.cur /\ s = x.account /\ g # q /\ s # a
  BY <1>2, OfferedIs DEF Stands
<1>4. balance \in [Account -> [Currency -> Int]]
  BY <1>2
<1>5. PICK b1 : b1 = Pay(balance, a, g, k)
  OBVIOUS
<1>6. Credited(b1, balance, a, g, k) /\ b1 \in [Account -> [Currency -> Int]]
  BY <1>4, <1>5, PayIs
<1>7. PICK b2 : b2 = Pay(b1, s, g, n)
  OBVIOUS
<1>8. Credited(b2, b1, s, g, n) /\ b2 \in [Account -> [Currency -> Int]]
  BY <1>6, <1>7, PayIs
<1>9. PICK b3 : b3 = Pay(b2, a, q, m)
  OBVIOUS
<1>10. Credited(b3, b2, a, q, m) /\ b3 \in [Account -> [Currency -> Int]]
  BY <1>8, <1>9, PayIs
<1>11. PICK b4 : b4 = Pay(b3, s, q, p)
  OBVIOUS
<1>12. Credited(b4, b3, s, q, p) /\ b4 \in [Account -> [Currency -> Int]]
  BY <1>10, <1>11, PayIs
<1>13. Exchange(x, a, k) = b4
  BY <1>1, <1>3, <1>5, <1>7, <1>9, <1>11 DEF Exchange
<1>14. PICK t : t = Traded(x, a, k, p)
  OBVIOUS
<1>15. ASSUME NEW b \in Account, NEW d \in Currency
       PROVE  b4[b][d] = t[b][d]
  <2>1. PICK y \in Int : y = balance[b][d]
    BY <1>4
  <2>2. t[b][d] = y + (IF b = a THEN Flow(x, k, p, d) ELSE -Flow(x, k, p, d))
    BY <1>14, <2>1 DEF Traded
  <2>3. Flow(x, k, p, d) = IF d = g THEN k ELSE IF d = q THEN -p ELSE 0
    BY <1>3 DEF Flow
  <2>4. b = a \/ b = s
    BY <1>3 DEF Account
  <2>5. b4[b][d] = (((y + (IF b = a /\ d = g THEN k ELSE 0)) + (IF b = s /\ d = g THEN -k ELSE 0))
                      + (IF b = a /\ d = q THEN -p ELSE 0)) + (IF b = s /\ d = q THEN p ELSE 0)
    BY <1>1, <1>6, <1>8, <1>10, <1>12, <2>1 DEF Credited
  <2> QED
    BY <1>3, <2>2, <2>3, <2>4, <2>5
<1>16. t = [b \in Account |-> [d \in Currency |-> t[b][d]]]
  BY <1>14 DEF Traded
<1>17. b4 = [b \in Account |-> [d \in Currency |-> b4[b][d]]]
  BY <1>12
<1>18. b4 = t
  BY <1>15, <1>16, <1>17
<1> QED
  BY <1>1, <1>13, <1>14, <1>18

(* What can be taken is paid for at the price, and both can pay. *)
LEMMA TakeIs ==
  ASSUME LedgerInv, NEW x \in offers, NEW a \in Account, x.account # a, NEW n \in Int,
         NEW k \in CanTake(x, a, n), k # 0
  PROVE  k \in Int /\ k <= n /\ Cost(x, k) \in Int /\ Deal(x, a, k, Cost(x, k))
<1>1. k \in Int /\ 0 < k /\ k <= n
  BY DEF CanTake
<1>2. Stands(x)
  BY DEF LedgerInv
<1>3. x.gets.value \in Int /\ x.gets.value > 0 /\ x.pays.value \in Int /\ x.pays.value > 0
  BY <1>2, OfferedIs DEF Stands
<1>4. PICK v \in Int, w \in Int : v = x.gets.value /\ w = x.pays.value
  BY <1>3
<1>5. v > 0 /\ w > 0
  BY <1>3, <1>4
<1>6. Divides(v, w * k) /\ k <= v /\ Cost(x, k) = (w * k) \div v
      /\ k <= Spendable(x.account, x.gets.cur) /\ Cost(x, k) <= Spendable(a, x.pays.cur)
  BY <1>4 DEF CanTake, Cost
<1>7. w * k \in Int
  BY <1>1
<1>8. PICK p \in Int : p = Cost(x, k) /\ p * v = w * k
  BY <1>5, <1>6, <1>7, DividesIs
<1>9. p > 0
  <2>1. w * k > 0
    BY <1>1, <1>5
  <2>2. p <= 0 => p * v <= 0
    BY <1>5
  <2> QED
    BY <1>8, <2>1, <2>2
<1> QED
  BY <1>1, <1>4, <1>6, <1>8, <1>9 DEF Deal

LEMMA GreatestOf ==
  ASSUME NEW n \in Int, NEW T, T \subseteq 0..n, T # {}
  PROVE  \E x \in T : \A y \in T : y <= x
<1> DEFINE D == {n - y : y \in T}
<1>1. D \subseteq Nat /\ D # {}
  <2>1. ASSUME NEW y \in T PROVE n - y \in Nat
    <3>1. y \in Int /\ y <= n
      OBVIOUS
    <3> QED
      BY <3>1
  <2> QED
    BY <2>1
<1>2. PICK d \in D : \A e \in D : d <= e
  <2> HIDE DEF D
  <2> QED
    BY <1>1, LeastOf
<1>3. PICK x \in T : d = n - x
  OBVIOUS
<1>4. ASSUME NEW y \in T
      PROVE  y <= x
  <2>1. n - y \in D
    OBVIOUS
  <2>2. d <= n - y
    BY <1>2, <2>1
  <2> QED
    BY <1>3, <2>2
<1> QED
  BY <1>4

LEMMA OrderIs ==
  ASSUME NEW a \in Account, NEW terms \in Offered
  PROVE  IsNew(Order(a, terms), a)
<1>1. AmountsOf(Order(a, terms)) = terms
  BY DEF AmountsOf, Order, Offered
<1> QED
  BY <1>1 DEF IsNew, Order

(* The rest of an order is a new offer, or nothing. *)
LEMMA RestIs ==
  ASSUME NEW o, NEW a, IsNew(o, a), NEW k \in Int, NEW bal
  PROVE  \/ Rests(Remainder(o, k), bal) = {}
         \/ \E r : Rests(Remainder(o, k), bal) = {r} /\ IsNew(r, a)
<1> DEFINE r == Remainder(o, k)
<1>1. /\ o.gets.cur \in Currency /\ o.pays.cur \in Currency /\ o.gets.cur # o.pays.cur
      /\ o.gets.value \in Int /\ o.pays.value \in Int /\ o.pays.value > 0
      /\ o.gets = [cur |-> o.gets.cur, value |-> o.gets.value]
      /\ o.pays = [cur |-> o.pays.cur, value |-> o.pays.value]
  BY OfferedIs DEF IsNew
<1>2. PICK m \in Int : m = (o.gets.value * (o.pays.value - k)) \div o.pays.value
  <2>1. PICK v \in Int, w \in Int, d \in Int : v = o.gets.value /\ w = o.pays.value /\ d = w - k
    BY <1>1
  <2>2. v * d \in Int /\ w > 0
    BY <1>1, <2>1
  <2>3. ((v * d) \div w) \in Int
    BY <2>2
  <2> QED
    BY <2>1, <2>3
<1>3. o = [account |-> a, sequence |-> sequence[a] + 1, gets |-> o.gets, pays |-> o.pays]
  BY DEF IsNew
<1>4. /\ r = [account |-> a, sequence |-> sequence[a] + 1, gets |-> r.gets, pays |-> r.pays]
      /\ r.gets = [cur |-> o.gets.cur, value |-> m]
      /\ r.pays = [cur |-> o.pays.cur, value |-> o.pays.value - k]
  <2>1. PICK g, q : g = o.gets /\ q = o.pays
    OBVIOUS
  <2>2. o = [account |-> a, sequence |-> sequence[a] + 1, gets |-> g, pays |-> q]
    BY <1>3, <2>1
  <2>3. r = [account |-> a, sequence |-> sequence[a] + 1,
             gets |-> [g EXCEPT !.value = m], pays |-> [q EXCEPT !.value = @ - k]]
    <3>1. PICK e : e = [account |-> a, sequence |-> sequence[a] + 1, gets |-> g, pays |-> q]
      OBVIOUS
    <3>2. r = [o EXCEPT !.pays.value = @ - k, !.gets.value = m]
      BY <1>2 DEF Remainder
    <3>3. r = [e EXCEPT !.pays.value = @ - k, !.gets.value = m]
      BY <2>2, <3>1, <3>2
    <3> QED
      BY <3>1, <3>3
  <2>4. [g EXCEPT !.value = m] = [cur |-> g.cur, value |-> m]
        /\ [q EXCEPT !.value = @ - k] = [cur |-> q.cur, value |-> q.value - k]
    <3>1. g = [cur |-> g.cur, value |-> g.value] /\ q = [cur |-> q.cur, value |-> q.value]
      BY <1>1, <2>1
    <3> QED
      BY <3>1
  <2> QED
    BY <2>1, <2>3, <2>4
<1> HIDE DEF r
<1>5. CASE r.pays.value > 0 /\ r.gets.value > 0
  <2>1. AmountsOf(r) \in Offered
    BY <1>1, <1>2, <1>4, <1>5, OfferedWhen DEF AmountsOf
  <2>2. IsNew(r, a)
    BY <1>4, <2>1 DEF IsNew
  <2>3. Rests(r, bal) = {} \/ Rests(r, bal) = {r}
    BY DEF Rests
  <2> QED
    BY <2>2, <2>3 DEF r
<1>6. CASE ~ (r.pays.value > 0 /\ r.gets.value > 0)
  BY <1>6 DEF Rests, r
<1> QED
  BY <1>5, <1>6

(* Every transaction is a move. *)
Moves ==
  \E type, a, ok, bal, put, gone :
    Move(type, a, ok, bal, put, gone) /\ Apply(type, a, ok, bal, put, gone)

LEMMA MovesBy ==
  ASSUME NEW type, NEW a, NEW ok, NEW bal, NEW put, NEW gone,
         Move(type, a, ok, bal, put, gone), Apply(type, a, ok, bal, put, gone)
  PROVE  Moves
BY Zenon DEF Moves

LEMMA TakeMoves ==
  ASSUME LedgerInv, NEW x \in offers, NEW a \in Account, x.account # a, balance[a][Str] > Fee,
         NEW n \in Int, NEW k \in CanTake(x, a, n), k # 0,
         NEW type \in {"OfferCreate", "Payment"}, NEW bal, NEW put, NEW gone,
         bal = Exchange(x, a, k),
         \/ put = {Taken(x, k)} /\ gone = {} /\ Taken(x, k).gets.value # 0
         \/ gone = {Taken(x, k)} /\ (put = {} \/ \E o : put = {o} /\ IsNew(o, a))
  PROVE  Move(type, a, TRUE, bal, put, gone)
<1>1. k \in Int /\ Cost(x, k) \in Int /\ Deal(x, a, k, Cost(x, k))
  BY TakeIs
<1>2. bal = Traded(x, a, k, Cost(x, k))
  BY <1>1, ExchangeIs
<1>3. Taken(x, k) = Less(x, Cost(x, k), k)
  BY DEF Taken
<1>4. Taken(x, k).gets.value # 0 => k < x.gets.value
  <2>1. Stands(x)
    BY DEF LedgerInv
  <2>2. /\ x.gets = [cur |-> x.gets.cur, value |-> x.gets.value] /\ x.gets.value \in Int
        /\ x = [account |-> x.account, sequence |-> x.sequence, gets |-> x.gets, pays |-> x.pays]
    BY <2>1, OfferedIs DEF Stands
  <2>3. Taken(x, k).gets.value = x.gets.value - k
    BY <2>2 DEF Taken, Less
  <2>4. k <= x.gets.value
    BY <1>1 DEF Deal
  <2> QED
    BY <1>1, <2>2, <2>3, <2>4
<1>5. Struck(x, a, k, Cost(x, k), bal, put, gone)
  BY <1>1, <1>2, <1>3, <1>4 DEF Struck
<1> QED
  BY <1>1, <1>5 DEF Move

LEMMA CreateMoves ==
  ASSUME LedgerInv, NEW a \in Account, balance[a][Str] > Fee, NEW terms \in Offered,
         CreateOffer(Order(a, terms))
  PROVE  Moves
<1>1. PICK o : o = Order(a, terms)
  OBVIOUS
<1>2. o.account = a /\ IsNew(o, a) /\ CreateOffer(o)
  BY <1>1, OrderIs DEF Order
<1>3. PICK bal : bal = balance
  OBVIOUS
<1>4. CASE Apply("OfferCreate", o.account, FALSE, balance, {}, {})
  <2>1. Apply("OfferCreate", a, FALSE, bal, {}, {})
    BY <1>2, <1>3, <1>4
  <2>2. Move("OfferCreate", a, FALSE, bal, {}, {})
    BY <1>3 DEF Move, Idle
  <2> QED
    BY <2>1, <2>2, MovesBy
<1>5. CASE Apply("OfferCreate", o.account, TRUE, balance, {o}, {})
  <2>1. Apply("OfferCreate", a, TRUE, bal, {o}, {})
    BY <1>2, <1>3, <1>5
  <2>2. Move("OfferCreate", a, TRUE, bal, {o}, {})
    BY <1>2, <1>3 DEF Move, Idle
  <2> QED
    BY <2>1, <2>2, MovesBy
<1>6. ASSUME NEW x \in Meets(o), Apply("OfferCreate", o.account, TRUE, balance, {o}, {x})
      PROVE  Moves
  <2>1. Apply("OfferCreate", a, TRUE, bal, {o}, {x})
    BY <1>2, <1>3, <1>6
  <2>2. x \in offers
    BY DEF Meets
  <2>3. Move("OfferCreate", a, TRUE, bal, {o}, {x})
    BY <1>2, <1>3, <2>2 DEF Move, Idle
  <2> QED
    BY <2>1, <2>3, MovesBy
<1>7. ASSUME NEW x \in Meets(o), x.account # a, Spendable(x.account, x.gets.cur) > 0,
             Spendable(a, o.gets.cur) > 0,
             LET k == CHOOSE n \in CanTake(x, a, o.pays.value) :
                        \A m \in CanTake(x, a, o.pays.value) : m <= n
             IN  k > 0 /\ TakePart(o, x, k)
      PROVE  Moves
  <2>1. x \in offers /\ x.gets.cur = o.pays.cur /\ x.pays.cur = o.gets.cur
    BY DEF Meets
  <2>2. PICK n \in Int : n = o.pays.value /\ n > 0
    BY <1>2, OfferedIs DEF IsNew
  <2>3. 0 \in CanTake(x, a, n)
    <3>1. Stands(x)
      BY <2>1 DEF LedgerInv
    <3>2. PICK v \in Int, w \in Int : v = x.gets.value /\ w = x.pays.value /\ v > 0
      BY <3>1, OfferedIs DEF Stands
    <3>3. w * 0 = 0 /\ 0 * v = 0
      OBVIOUS
    <3>4. Divides(v, 0) /\ (0 \div v) \in Int /\ (0 \div v) * v = 0
      BY <3>2, <3>3, DividesIs
    <3>5. PICK d \in Int : d = 0 \div v
      BY <3>4
    <3>6. d * v = 0 * v
      BY <3>3, <3>4, <3>5
    <3>7. d = 0
      BY <3>2, <3>6, Scaled
    <3>8. Divides(x.gets.value, x.pays.value * 0) /\ Cost(x, 0) = 0
      BY <3>2, <3>3, <3>4, <3>5, <3>7 DEF Cost
    <3>9. 0 <= Spendable(x.account, x.gets.cur) /\ 0 <= Spendable(a, x.pays.cur)
      <4>1. balance \in [Account -> [Currency -> Nat]] /\ x.account \in Account
            /\ x.gets.cur \in Currency /\ x.pays.cur \in Currency
        BY <3>1, OfferedIs DEF LedgerInv, Stands
      <4>2. Spendable(x.account, x.gets.cur) \in Int /\ Spendable(a, x.pays.cur) \in Int
        BY <4>1 DEF Spendable, Fee
      <4> QED
        BY <1>7, <2>1, <4>2
    <3> QED
      BY <2>2, <3>2, <3>8, <3>9 DEF CanTake
  <2>4. CanTake(x, a, n) \subseteq 0..n
    BY DEF CanTake
  <2>5. \E k \in CanTake(x, a, n) : \A m \in CanTake(x, a, n) : m <= k
    BY <2>2, <2>3, <2>4, GreatestOf
  <2>6. PICK k \in CanTake(x, a, n) : k > 0 /\ TakePart(o, x, k)
    BY <1>7, <2>2, <2>5
  <2>7. k \in Int /\ k # 0
    BY <2>4, <2>6
  <2>8. PICK b : b = Exchange(x, a, k)
    OBVIOUS
  <2>9. PICK ends \in BOOLEAN : ends = (Taken(x, k).gets.value = 0 \/ b[x.account][x.gets.cur] = 0)
    OBVIOUS
  <2>10. PICK put : put = IF ends THEN Rests(Remainder(o, k), b) ELSE {Taken(x, k)}
    OBVIOUS
  <2>11. PICK gone : gone = IF ends THEN {Taken(x, k)} ELSE {}
    OBVIOUS
  <2>12. Apply("OfferCreate", a, TRUE, b, put, gone)
    BY <1>2, <2>6, <2>8, <2>9, <2>10, <2>11 DEF TakePart
  <2>13. \/ put = {Taken(x, k)} /\ gone = {} /\ Taken(x, k).gets.value # 0
         \/ gone = {Taken(x, k)} /\ (put = {} \/ \E r : put = {r} /\ IsNew(r, a))
    <3>1. Rests(Remainder(o, k), b) = {} \/ \E r : Rests(Remainder(o, k), b) = {r} /\ IsNew(r, a)
      BY <1>2, <2>7, RestIs
    <3>2. CASE ends
      BY <2>10, <2>11, <3>1, <3>2
    <3>3. CASE ~ends
      BY <2>9, <2>10, <2>11, <3>3
    <3> QED
      BY <3>2, <3>3
  <2>14. Move("OfferCreate", a, TRUE, b, put, gone)
    BY <1>7, <2>1, <2>7, <2>8, <2>13, TakeMoves
  <2> QED
    BY <2>12, <2>14, MovesBy
<1>8. CASE Spendable(a, o.gets.cur) <= 0
  BY <1>2, <1>4, <1>8 DEF CreateOffer
<1>9. CASE ~ (Spendable(a, o.gets.cur) <= 0)
  <2>1. Spendable(a, o.gets.cur) > 0
    <3>1. balance[a][o.gets.cur] \in Int
      <4>1. o.gets.cur \in Currency
        BY <1>2, OfferedIs DEF IsNew
      <4>2. balance \in [Account -> [Currency -> Nat]]
        BY DEF LedgerInv
      <4> QED
        BY <4>1, <4>2
    <3> QED
      BY <1>9, <3>1 DEF Spendable, Fee
  <2>2. CASE Meets(o) = {} /\ Apply("OfferCreate", o.account, TRUE, balance, {o}, {})
    BY <1>5, <2>2
  <2>3. ASSUME NEW x \in Meets(o),
               IF x.account = o.account \/ Spendable(x.account, x.gets.cur) <= 0
               THEN Apply("OfferCreate", o.account, TRUE, balance, {o}, {x})
               ELSE LET k == CHOOSE n \in CanTake(x, o.account, o.pays.value) :
                               \A m \in CanTake(x, o.account, o.pays.value) : m <= n
                    IN  k > 0 /\ TakePart(o, x, k)
        PROVE  Moves
    <3>1. CASE x.account = o.account \/ Spendable(x.account, x.gets.cur) <= 0
      BY <1>6, <2>3, <3>1
    <3>2. CASE ~ (x.account = o.account \/ Spendable(x.account, x.gets.cur) <= 0)
      <4>1. Spendable(x.account, x.gets.cur) > 0
        <5>1. x \in offers
          BY DEF Meets
        <5>2. Stands(x) /\ balance \in [Account -> [Currency -> Nat]]
          BY <5>1 DEF LedgerInv
        <5>3. balance[x.account][x.gets.cur] \in Int
          <6>1. x.gets.cur \in Currency /\ x.account \in Account
            BY <5>2, OfferedIs DEF Stands
          <6> QED
            BY <5>2, <6>1
        <5> QED
          BY <3>2, <5>3 DEF Spendable, Fee
      <4>2. LET k == CHOOSE n \in CanTake(x, a, o.pays.value) :
                        \A m \in CanTake(x, a, o.pays.value) : m <= n
            IN  k > 0 /\ TakePart(o, x, k)
        BY <1>2, <2>3, <3>2
      <4> QED
        BY <1>2, <1>7, <2>1, <3>2, <4>1, <4>2
    <3> QED
      BY <3>1, <3>2
  <2> QED
    BY <1>2, <1>9, <2>2, <2>3 DEF CreateOffer
<1> QED
  BY <1>8, <1>9

(* The balances after a move and its fee. *)
LEMMA PaidIs ==
  ASSUME LedgerInv, NEW type, NEW a, NEW ok, NEW bal, NEW put, NEW gone,
         Move(type, a, ok, bal, put, gone)
  PROVE  /\ bal \in [Account -> [Currency -> Int]]
         /\ Pay(bal, a, Str, -Fee) \in [Account -> [Currency -> Nat]]
         /\ Credited(Pay(bal, a, Str, -Fee), bal, a, Str, -Fee)
<1>1. balance \in [Account -> [Currency -> Nat]] /\ a \in Account /\ balance[a][Str] > 1
  BY DEF LedgerInv, Move, Fee
<1>2. Str \in Currency /\ -Fee \in Int /\ Fee = 1
  BY MarketAssumption DEF Fee
<1>3. ASSUME bal \in [Account -> [Currency -> Int]],
             \A b \in Account, d \in Currency :
               bal[b][d] - (IF b = a /\ d = Str THEN 1 ELSE 0) >= 0
      PROVE  /\ bal \in [Account -> [Currency -> Int]]
             /\ Pay(bal, a, Str, -Fee) \in [Account -> [Currency -> Nat]]
             /\ Credited(Pay(bal, a, Str, -Fee), bal, a, Str, -Fee)
  <2>1. PICK new : new = Pay(bal, a, Str, -Fee)
    OBVIOUS
  <2>2. new \in [Account -> [Currency -> Int]] /\ Credited(new, bal, a, Str, -Fee)
    BY <1>1, <1>2, <1>3, <2>1, PayIs
  <2>3. ASSUME NEW b \in Account, NEW d \in Currency
        PROVE  new[b][d] \in Nat
    <3>1. new[b][d] = bal[b][d] + (IF b = a /\ d = Str THEN -1 ELSE 0)
      BY <1>2, <2>2 DEF Credited
    <3>2. bal[b][d] \in Int /\ bal[b][d] - (IF b = a /\ d = Str THEN 1 ELSE 0) >= 0
      BY <1>3
    <3> QED
      BY <3>1, <3>2
  <2>4. new \in [Account -> [Currency -> Nat]]
    BY <2>2, <2>3
  <2> QED
    BY <1>3, <2>1, <2>2, <2>4
<1>4. CASE Idle(a, ok, bal, put, gone)
  <2>1. bal = balance
    BY <1>4 DEF Idle
  <2>2. ASSUME NEW b \in Account, NEW d \in Currency
        PROVE  bal[b][d] - (IF b = a /\ d = Str THEN 1 ELSE 0) >= 0
    <3>1. bal[b][d] \in Int /\ bal[b][d] >= 0
      BY <1>1, <2>1
    <3> QED
      BY <1>1, <2>1, <3>1
  <2> QED
    BY <1>1, <1>3, <2>1, <2>2
<1>5. ASSUME NEW x \in offers, NEW k \in Int, NEW p \in Int, Struck(x, a, k, p, bal, put, gone)
      PROVE  /\ bal \in [Account -> [Currency -> Int]]
             /\ Pay(bal, a, Str, -Fee) \in [Account -> [Currency -> Nat]]
             /\ Credited(Pay(bal, a, Str, -Fee), bal, a, Str, -Fee)
  <2>1. bal = Traded(x, a, k, p) /\ Deal(x, a, k, p) /\ Stands(x)
    BY <1>5 DEF Struck, LedgerInv
  <2>2. PICK g \in Currency, q \in Currency, s \in Account :
          g = x.gets.cur /\ q = x.pays.cur /\ s = x.account /\ g # q
    BY <2>1, OfferedIs DEF Stands
  <2>3. /\ s # a /\ k > 0 /\ p > 0
        /\ k <= balance[s][g] - (IF g = Str THEN 1 ELSE 0)
        /\ p <= balance[a][q] - (IF q = Str THEN 1 ELSE 0)
    <3>1. balance[s][g] \in Int /\ balance[a][q] \in Int
      BY <1>1
    <3> QED
      BY <2>1, <2>2, <3>1, <1>2 DEF Deal, Spendable
  <2>4. ASSUME NEW b \in Account, NEW d \in Currency
        PROVE  /\ bal[b][d] \in Int
               /\ bal[b][d] - (IF b = a /\ d = Str THEN 1 ELSE 0) >= 0
    <3>1. PICK n \in Int : n = balance[b][d] /\ n >= 0
      BY <1>1
    <3>2. bal[b][d] = n + (IF b = a THEN Flow(x, k, p, d) ELSE -Flow(x, k, p, d))
      BY <2>1, <3>1 DEF Traded
    <3>3. Flow(x, k, p, d) = IF d = g THEN k ELSE IF d = q THEN -p ELSE 0
      BY <2>2 DEF Flow
    <3>4. b = a \/ b = s
      BY <1>1, <2>2, <2>3 DEF Account
    <3>5. CASE b = a
      <4>1. bal[b][d] = n + (IF d = g THEN k ELSE IF d = q THEN -p ELSE 0)
        BY <3>2, <3>3, <3>5
      <4>2. d = Str => n > 1
        BY <1>1, <3>1, <3>5
      <4>3. d = q => p <= n - (IF q = Str THEN 1 ELSE 0)
        BY <2>3, <3>1, <3>5
      <4> QED
        BY <2>2, <2>3, <3>1, <4>1, <4>2, <4>3
    <3>6. CASE b = s
      <4>1. bal[b][d] = n - (IF d = g THEN k ELSE IF d = q THEN -p ELSE 0)
        BY <2>3, <3>2, <3>3, <3>6
      <4>2. d = g => k <= n
        BY <2>3, <3>1, <3>6
      <4> QED
        BY <2>2, <2>3, <3>1, <3>6, <4>1, <4>2
    <3> QED
      BY <3>4, <3>5, <3>6
  <2>5. bal = [b \in Account |-> [d \in Currency |-> bal[b][d]]]
    BY <2>1 DEF Traded
  <2>6. bal \in [Account -> [Currency -> Int]]
    BY <2>4, <2>5
  <2> QED
    BY <1>3, <2>4, <2>6
<1> QED
  BY <1>4, <1>5 DEF Move

(* An offer of which p was paid for k. *)
LEMMA LessIs ==
  ASSUME LedgerInv, NEW x \in offers, NEW k \in Int, NEW p \in Int
  PROVE  /\ Less(x, p, k) = [account |-> x.account, sequence |-> x.sequence,
                             gets |-> [cur |-> x.gets.cur, value |-> x.gets.value - k],
                             pays |-> [cur |-> x.pays.cur, value |-> x.pays.value - p]]
         /\ x.account \in Account /\ x.gets.cur \in Currency /\ x.pays.cur \in Currency
         /\ x.gets.cur # x.pays.cur /\ x.gets.value \in Int /\ x.gets.value > 0
         /\ x.pays.value \in Int /\ x.pays.value > 0
         /\ x.sequence \in Int /\ 1 <= x.sequence /\ x.sequence <= sequence[x.account]
<1>1. Stands(x) /\ sequence[x.account] \in Int
  BY DEF LedgerInv, Stands
<1>2. /\ x.gets.cur \in Currency /\ x.pays.cur \in Currency /\ x.gets.cur # x.pays.cur
      /\ x.gets.value \in Int /\ x.gets.value > 0 /\ x.pays.value \in Int /\ x.pays.value > 0
      /\ x.gets = [cur |-> x.gets.cur, value |-> x.gets.value]
      /\ x.pays = [cur |-> x.pays.cur, value |-> x.pays.value]
  BY <1>1, OfferedIs DEF Stands
<1>3. PICK g, q : g = x.gets /\ q = x.pays
  OBVIOUS
<1>4. PICK e : e = [account |-> x.account, sequence |-> x.sequence, gets |-> g, pays |-> q]
  OBVIOUS
<1>5. x = e
  BY <1>1, <1>3, <1>4 DEF Stands
<1>6. Less(x, p, k) = [e EXCEPT !.gets.value = @ - k, !.pays.value = @ - p]
  BY <1>5 DEF Less
<1>7. Less(x, p, k) = [account |-> x.account, sequence |-> x.sequence,
                       gets |-> [g EXCEPT !.value = @ - k], pays |-> [q EXCEPT !.value = @ - p]]
  BY <1>4, <1>6
<1>8. [g EXCEPT !.value = @ - k] = [cur |-> x.gets.cur, value |-> x.gets.value - k]
  BY <1>2, <1>3
<1>9. [q EXCEPT !.value = @ - p] = [cur |-> x.pays.cur, value |-> x.pays.value - p]
  BY <1>2, <1>3
<1>10. x.account \in Account /\ x.sequence \in 1..sequence[x.account]
  BY <1>1 DEF Stands
<1> QED
  BY <1>1, <1>2, <1>7, <1>8, <1>9, <1>10

(* What a move puts and removes, by the offers' names. *)
IsOfferOf(o) ==
  o = [account |-> o.account, sequence |-> o.sequence, gets |-> o.gets, pays |-> o.pays]
SameOffer(o, x) ==
  OfferAt(o) = OfferAt(x) => o.gets.cur = x.gets.cur /\ o.pays.cur = x.pays.cur
MayStand(o, a) ==
  /\ o.account \in Account /\ AmountsOf(o) \in Offered
  /\ o.sequence \in Int /\ 1 <= o.sequence
  /\ o.sequence <= sequence[o.account] + (IF o.account = a THEN 1 ELSE 0)

Marked(a, put, gone) ==
  /\ IsFiniteSet(put) /\ IsFiniteSet(gone)
  /\ \A o \in put \cup gone : IsOfferOf(o)
  /\ \A o \in put \cup gone : \A x \in offers : SameOffer(x, o)
  /\ \A o \in put : \A x \in gone : OfferAt(o) # OfferAt(x)
  /\ \A o \in put : \A x \in put : OfferAt(o) = OfferAt(x) => o = x
  /\ \A o \in put : MayStand(o, a)
  /\ \A o \in gone : \E x \in offers : OfferAt(x) = OfferAt(o)

LEMMA NewMarks ==
  ASSUME LedgerInv, NEW a \in Account, NEW o, IsNew(o, a)
  PROVE  /\ IsOfferOf(o) /\ MayStand(o, a)
         /\ \A x \in offers : OfferAt(o) # OfferAt(x)
<1>1. sequence[a] \in Int /\ sequence[a] >= 0
  BY DEF LedgerInv
<1>2. /\ o.account = a /\ o.sequence = sequence[a] + 1 /\ AmountsOf(o) \in Offered
      /\ IsOfferOf(o)
  BY DEF IsNew, IsOfferOf
<1>3. MayStand(o, a)
  BY <1>1, <1>2 DEF MayStand
<1>4. ASSUME NEW x \in offers, OfferAt(o) = OfferAt(x) PROVE FALSE
  <2>1. o.account = x.account /\ o.sequence = x.sequence
    BY <1>4 DEF OfferAt
  <2>2. x.sequence <= sequence[x.account]
    <3>1. Stands(x)
      BY DEF LedgerInv
    <3>2. x.account \in Account /\ x.sequence \in 1..sequence[x.account]
      BY <3>1 DEF Stands
    <3> QED
      BY <3>2, <1>1, <1>2, <2>1
  <2> QED
    BY <1>1, <1>2, <2>1, <2>2
<1> QED
  BY <1>2, <1>3, <1>4

LEMMA MoveMarks ==
  ASSUME LedgerInv, NEW type, NEW a, NEW ok, NEW bal, NEW put, NEW gone,
         Move(type, a, ok, bal, put, gone)
  PROVE  Marked(a, put, gone)
<1>1. a \in Account
  BY DEF Move
<1>2. \A x \in offers : IsOfferOf(x)
  BY DEF LedgerInv, Stands, IsOfferOf
<1>3. \A x, y \in offers : OfferAt(x) = OfferAt(y) => x = y
  BY DEF LedgerInv
<1>4. ASSUME NEW S, S = {} \/ \E e : S = {e}
      PROVE  IsFiniteSet(S)
  <2>1. CASE S = {}
    BY <2>1, FS_EmptySet
  <2>2. CASE \E e : S = {e}
    <3>1. PICK e : S = {e}
      BY <2>2
    <3>2. IsFiniteSet({e})
      BY FS_Singleton
    <3> QED
      BY <3>1, <3>2
  <2> QED
    BY <1>4, <2>1, <2>2
<1>5. CASE Idle(a, ok, bal, put, gone)
  <2>1. /\ put = {} \/ \E o : put = {o} /\ IsNew(o, a)
        /\ gone = {} \/ \E x \in offers : gone = {x}
    BY <1>5 DEF Idle
  <2>2. \A o \in put : IsOfferOf(o) /\ MayStand(o, a) /\ \A x \in offers : OfferAt(o) # OfferAt(x)
    BY <1>1, <2>1, NewMarks
  <2>3. gone \subseteq offers
    BY <2>1
  <2>4. \A o \in gone : \A x \in offers : SameOffer(x, o)
    BY <1>3, <2>3 DEF SameOffer
  <2>5. \A o \in put : \A x \in offers : SameOffer(x, o)
    BY <2>2 DEF SameOffer
  <2>6. IsFiniteSet(put) /\ IsFiniteSet(gone)
    BY <1>4, <2>1
  <2>7. \A o \in put : \A x \in put : OfferAt(o) = OfferAt(x) => o = x
    BY <2>1
  <2> QED
    BY <1>2, <2>2, <2>3, <2>4, <2>5, <2>6, <2>7 DEF Marked
<1>6. ASSUME NEW x \in offers, NEW k \in Int, NEW p \in Int, Struck(x, a, k, p, bal, put, gone)
      PROVE  Marked(a, put, gone)
  <2>1. PICK left : left = Less(x, p, k)
    OBVIOUS
  <2>2. /\ left = [account |-> x.account, sequence |-> x.sequence,
                   gets |-> [cur |-> x.gets.cur, value |-> x.gets.value - k],
                   pays |-> [cur |-> x.pays.cur, value |-> x.pays.value - p]]
        /\ x.account \in Account /\ x.gets.cur \in Currency /\ x.pays.cur \in Currency
        /\ x.gets.cur # x.pays.cur /\ x.gets.value \in Int /\ x.gets.value > 0
        /\ x.pays.value \in Int /\ x.pays.value > 0
        /\ x.sequence \in Int /\ 1 <= x.sequence /\ x.sequence <= sequence[x.account]
    BY <2>1, LessIs
  <2>3. IsOfferOf(left) /\ OfferAt(left) = OfferAt(x)
    BY <2>2 DEF IsOfferOf, OfferAt
  <2>4. \A y \in offers : SameOffer(y, left)
    <3>1. left.gets.cur = x.gets.cur /\ left.pays.cur = x.pays.cur
      BY <2>2
    <3> QED
      BY <1>3, <2>3, <3>1 DEF SameOffer
  <2>5. CASE put = {left} /\ gone = {} /\ k < x.gets.value
    <3>1. PICK v \in Int, w \in Int : v = x.gets.value /\ w = x.pays.value
      BY <2>2
    <3>2. p * v = w * k /\ k < v /\ w > 0 /\ v > 0
      BY <1>6, <2>2, <2>5, <3>1 DEF Struck, Deal
    <3>3. p < w
      <4>1. k * w < v * w
        BY <3>2, Scaled
      <4>2. p * v < w * v
        BY <3>2, <4>1
      <4> QED
        BY <3>2, <4>2, Scaled
    <3>4. AmountsOf(left) \in Offered
      <4>1. PICK m \in Int, n \in Int : m = v - k /\ n = w - p
        OBVIOUS
      <4>2. m > 0 /\ n > 0
        BY <3>2, <3>3, <4>1
      <4>3. AmountsOf(left) = [gets |-> [cur |-> x.gets.cur, value |-> m],
                               pays |-> [cur |-> x.pays.cur, value |-> n]]
        BY <2>2, <3>1, <4>1 DEF AmountsOf
      <4> QED
        BY <2>2, <4>2, <4>3, OfferedWhen
    <3>5. MayStand(left, a)
      <4>1. sequence[x.account] \in Int
        BY <2>2 DEF LedgerInv
      <4>2. left.account = x.account /\ left.sequence = x.sequence
        BY <2>2
      <4> QED
        BY <2>2, <3>4, <4>1, <4>2 DEF MayStand
    <3>6. IsFiniteSet(put) /\ IsFiniteSet(gone)
      BY <1>4, <2>5
    <3> QED
      BY <2>3, <2>4, <2>5, <3>5, <3>6 DEF Marked
  <2>6. CASE gone = {left} /\ (put = {} \/ \E o : put = {o} /\ IsNew(o, a))
    <3>1. \A o \in put : IsOfferOf(o) /\ MayStand(o, a) /\ \A y \in offers : OfferAt(o) # OfferAt(y)
      BY <1>1, <2>6, NewMarks
    <3>2. IsFiniteSet(put) /\ IsFiniteSet(gone)
      BY <1>4, <2>6
    <3>3. \A o \in put : \A y \in offers : SameOffer(y, o)
      BY <3>1 DEF SameOffer
    <3>4. \A o \in put : OfferAt(o) # OfferAt(left)
      BY <2>3, <3>1
    <3>5. \A o \in put : \A y \in put : OfferAt(o) = OfferAt(y) => o = y
      BY <2>6
    <3> QED
      BY <2>3, <2>4, <2>6, <3>1, <3>2, <3>3, <3>4, <3>5 DEF Marked
  <2> QED
    BY <1>6, <2>1, <2>5, <2>6 DEF Struck
<1> QED
  BY <1>5, <1>6 DEF Move

LEMMA PaysMoves ==
  ASSUME LedgerInv, NEW x \in offers, PeerPays(x)
  PROVE  Moves
<1>1. PICK k \in CanTake(x, Peer, x.gets.value) \ {0} :
        LET left == Taken(x, k)
            bal  == Exchange(x, Peer, k)
            ends == left.gets.value = 0 \/ bal[Me][x.gets.cur] = 0
        IN  Apply("Payment", Peer, TRUE, bal, IF ends THEN {} ELSE {left},
                  IF ends THEN {left} ELSE {})
  BY DEF PeerPays
<1>2. k \in CanTake(x, Peer, x.gets.value) /\ k # 0
  OBVIOUS
<1>3. x.account # Peer /\ Peer \in Account /\ balance[Peer][Str] > Fee
  BY MarketAssumption DEF PeerPays, CanSend, Account
<1>4. PICK n \in Int : n = x.gets.value
  <2>1. Stands(x)
    BY DEF LedgerInv
  <2> QED
    BY <2>1, OfferedIs DEF Stands
<1>5. PICK b : b = Exchange(x, Peer, k)
  OBVIOUS
<1>6. PICK ends \in BOOLEAN : ends = (Taken(x, k).gets.value = 0 \/ b[Me][x.gets.cur] = 0)
  OBVIOUS
<1>7. PICK put : put = IF ends THEN {} ELSE {Taken(x, k)}
  OBVIOUS
<1>8. PICK gone : gone = IF ends THEN {Taken(x, k)} ELSE {}
  OBVIOUS
<1>9. Apply("Payment", Peer, TRUE, b, put, gone)
  BY <1>1, <1>5, <1>6, <1>7, <1>8
<1>10. \/ put = {Taken(x, k)} /\ gone = {} /\ Taken(x, k).gets.value # 0
       \/ gone = {Taken(x, k)} /\ (put = {} \/ \E r : put = {r} /\ IsNew(r, Peer))
  BY <1>6, <1>7, <1>8
<1>11. Move("Payment", Peer, TRUE, b, put, gone)
  BY <1>2, <1>3, <1>4, <1>5, <1>10, TakeMoves
<1> QED
  BY <1>9, <1>11, MovesBy

LEMMA CancelMoves ==
  ASSUME LedgerInv, NEW x \in offers, Cancel(x)
  PROVE  Moves
<1>1. PICK a \in Account : a = x.account
  BY DEF LedgerInv, Stands
<1>2. PICK bal, gone : bal = balance /\ gone = {x}
  OBVIOUS
<1>3. balance[a][Str] > Fee /\ Apply("OfferCancel", a, TRUE, bal, {}, gone)
  BY <1>1, <1>2 DEF Cancel, CanSend
<1>4. Move("OfferCancel", a, TRUE, bal, {}, gone)
  BY <1>2, <1>3 DEF Move, Idle
<1> QED
  BY <1>3, <1>4, MovesBy

(* A step is a move, or leaves the ledger and the last transaction alone. *)
LEMMA StepsAre ==
  ASSUME MarketInv, MarketNext
  PROVE  \/ Moves /\ UNCHANGED pairVars /\ order' \in {order, NoOrder}
         \/ Choose
         \/ Subscribed
         \/ \E terms \in Orders : SubmitOffer(terms)
<1>1. LedgerInv
  BY DEF MarketInv
<1>2. ASSUME NEW terms \in Offered, NEW a \in Account, CanSend(a), CreateOffer(Order(a, terms))
      PROVE  Moves
  BY <1>1, <1>2, CreateMoves DEF CanSend
<1>3. Me \in Account /\ Peer \in Account /\ Orders \subseteq Offered
  BY MarketAssumption DEF Account
<1>4. CASE MyOffer
  <2>1. order \in Offered
    BY <1>3, <1>4 DEF MyOffer, MarketInv
  <2> QED
    BY <1>2, <1>3, <1>4, <2>1 DEF MyOffer
<1>5. ASSUME NEW terms \in Orders, PeerOffers(terms)
      PROVE  Moves /\ UNCHANGED pairVars /\ order' \in {order, NoOrder}
  BY <1>2, <1>3, <1>5 DEF PeerOffers
<1>6. ASSUME NEW x \in offers, PeerPays(x)
      PROVE  Moves /\ UNCHANGED pairVars /\ order' \in {order, NoOrder}
  BY <1>1, <1>6, PaysMoves DEF PeerPays
<1>7. ASSUME NEW x \in offers, Cancel(x)
      PROVE  Moves /\ UNCHANGED pairVars /\ order' \in {order, NoOrder}
  BY <1>1, <1>7, CancelMoves DEF Cancel
<1> QED
  BY <1>4, <1>5, <1>6, <1>7 DEF MarketNext

(* The metadata says which offers were put and which went. *)
LEMMA NodesOfOffers ==
  ASSUME NEW a, NEW bal, NEW put, NEW gone, NEW nodes, nodes = Nodes(a, bal, put, gone), NEW n
  PROVE  n \in nodes /\ IsOffer(n) <=> n \in OfferNodes(put, gone)
<1>1. ASSUME n \in OfferNodes(put, gone) PROVE IsOffer(n)
  BY <1>1 DEF OfferNodes, OfferNode, IsOffer
<1>2. ASSUME NEW b PROVE ~ IsOffer(AccountNode(b, bal))
  BY DEF AccountNode, IsOffer
<1>3. ASSUME NEW l, NEW after PROVE ~ IsOffer(LineNode(l, bal, after))
  BY DEF LineNode, IsOffer
<1> QED
  BY <1>1, <1>2, <1>3 DEF Nodes

ToOffer(n) == [account |-> n.account, sequence |-> n.sequence, gets |-> n.final.gets, pays |-> n.final.pays]

LEMMA NodeSaysOffer ==
  ASSUME NEW o, IsOfferOf(o), NEW diff, NEW was
  PROVE  ToOffer(OfferNode(o, diff, was)) = o /\ OfferNode(o, diff, was).diff = diff
BY DEF IsOfferOf, ToOffer, OfferNode, AmountsOf

(* The client reads them as they are. *)
LEMMA OffersSaid ==
  ASSUME NEW a, NEW bal, NEW put, NEW gone, NEW nodes, nodes = Nodes(a, bal, put, gone),
         NEW who, Marked(who, put, gone)
  PROVE  /\ OffersAffected(nodes, "Created") \cup OffersAffected(nodes, "Modified") = put
         /\ OffersAffected(nodes, "Deleted") = gone
<1> DEFINE was(o) == CHOOSE x \in offers : OfferAt(x) = OfferAt(o)
           isNew(o) == \A x \in offers : OfferAt(x) # OfferAt(o)
<1>1. \A diff : OffersAffected(nodes, diff) =
                  {ToOffer(n) : n \in {x \in nodes : IsOffer(x) /\ x.diff = diff}}
  BY DEF OffersAffected, ToOffer
<1>2. \A n : n \in nodes /\ IsOffer(n) <=> n \in OfferNodes(put, gone)
  BY NodesOfOffers
<1>3. ASSUME NEW n
      PROVE  n \in OfferNodes(put, gone) <=>
               \/ \E o \in put : isNew(o) /\ n = OfferNode(o, "Created", o)
               \/ \E o \in put : ~isNew(o) /\ n = OfferNode(o, "Modified", was(o))
               \/ \E o \in gone : n = OfferNode(o, "Deleted", was(o))
  BY Zenon DEF OfferNodes
<1>4. \A o \in put \cup gone : IsOfferOf(o)
  BY DEF Marked
<1>5. ASSUME NEW o \in put \cup gone, NEW diff, NEW w
      PROVE  ToOffer(OfferNode(o, diff, w)) = o /\ OfferNode(o, diff, w).diff = diff
  BY <1>4, NodeSaysOffer
<1> DEFINE said(diff) == {n \in nodes : IsOffer(n) /\ n.diff = diff}
<1>6. ASSUME NEW n
      PROVE  /\ n \in said("Created") <=> \E o \in put : isNew(o) /\ n = OfferNode(o, "Created", o)
             /\ n \in said("Modified") <=> \E o \in put : ~isNew(o) /\ n = OfferNode(o, "Modified", was(o))
             /\ n \in said("Deleted") <=> \E o \in gone : n = OfferNode(o, "Deleted", was(o))
  <2> HIDE DEF was, isNew
  <2>1. \A diff : n \in said(diff) <=> n \in OfferNodes(put, gone) /\ n.diff = diff
    BY <1>2
  <2>2. "Created" # "Modified" /\ "Created" # "Deleted" /\ "Modified" # "Deleted"
    OBVIOUS
  <2> HIDE DEF said
  <2> QED
    BY <1>3, <1>5, <2>1, <2>2
<1>7. \A diff : OffersAffected(nodes, diff) = {ToOffer(n) : n \in said(diff)}
  BY <1>1
<1> HIDE DEF was, isNew, said
<1>8. OffersAffected(nodes, "Created") = {o \in put : isNew(o)}
  <2>1. ASSUME NEW o PROVE o \in {ToOffer(n) : n \in said("Created")} <=> o \in put /\ isNew(o)
    BY <1>5, <1>6
  <2> QED
    BY <1>7, <2>1
<1>9. OffersAffected(nodes, "Modified") = {o \in put : ~isNew(o)}
  <2>1. ASSUME NEW o PROVE o \in {ToOffer(n) : n \in said("Modified")} <=> o \in put /\ ~isNew(o)
    BY <1>5, <1>6
  <2> QED
    BY <1>7, <2>1
<1>10. OffersAffected(nodes, "Deleted") = gone
  <2>1. ASSUME NEW o PROVE o \in {ToOffer(n) : n \in said("Deleted")} <=> o \in gone
    BY <1>5, <1>6
  <2> QED
    BY <1>7, <2>1
<1> QED
  BY <1>8, <1>9, <1>10

(* A move keeps the ledger in order. *)
LEMMA LedgerMoves ==
  ASSUME LedgerInv, NEW type, NEW a, NEW ok, NEW bal, NEW put, NEW gone,
         Move(type, a, ok, bal, put, gone), Apply(type, a, ok, bal, put, gone)
  PROVE  LedgerInv'
<1> DEFINE names == {OfferAt(o) : o \in put \cup gone}
<1>1. PICK paid : paid = Pay(bal, a, Str, -Fee)
  OBVIOUS
<1>2. /\ balance' = paid /\ lines' = LinesAfter(paid)
      /\ offers' = {o \in offers : OfferAt(o) \notin names} \cup put
      /\ sequence' = [sequence EXCEPT ![a] = @ + 1]
  BY <1>1 DEF Apply
<1>3. balance' \in [Account -> [Currency -> Nat]]
  BY <1>1, <1>2, PaidIs
<1>4. a \in Account /\ sequence \in [Account -> Nat]
  BY DEF Move, LedgerInv
<1>5. sequence' \in [Account -> Nat]
  BY <1>2, <1>4
<1>6. lines' = LinesAfter(balance')
  BY <1>2
<1>7. Marked(a, put, gone)
  BY MoveMarks
<1>8. IsFiniteSet(offers')
  <2>1. IsFiniteSet({o \in offers : OfferAt(o) \notin names})
    BY FS_Subset DEF LedgerInv
  <2> HIDE DEF names
  <2> QED
    BY <1>2, <1>7, <2>1, FS_Union DEF Marked
<1>9. ASSUME NEW o \in offers' PROVE Stands(o)'
  <2>1. CASE o \in offers
    <3>1. Stands(o)
      BY <2>1 DEF LedgerInv
    <3>2. o.sequence \in 1..sequence[o.account] /\ o.account \in Account
      BY <3>1 DEF Stands
    <3>3. sequence'[o.account] \in Nat /\ sequence[o.account] \in Nat /\ sequence'[o.account] >= sequence[o.account]
      BY <1>2, <1>4, <3>2
    <3>4. o.sequence \in 1..sequence'[o.account]
      BY <3>2, <3>3
    <3> QED
      BY <3>1, <3>4 DEF Stands
  <2>2. CASE o \in put
    <3>1. IsOfferOf(o) /\ MayStand(o, a)
      BY <1>7, <2>2 DEF Marked
    <3>2. o.account \in Account /\ o.sequence \in Int /\ 1 <= o.sequence
          /\ o.sequence <= sequence[o.account] + (IF o.account = a THEN 1 ELSE 0)
      BY <3>1 DEF MayStand
    <3>3. sequence'[o.account] \in Nat
          /\ sequence'[o.account] = sequence[o.account] + (IF o.account = a THEN 1 ELSE 0)
      BY <1>2, <1>4, <3>2
    <3>4. o.sequence \in 1..sequence'[o.account]
      BY <3>2, <3>3
    <3> QED
      BY <3>1, <3>4 DEF Stands, IsOfferOf, MayStand
  <2> QED
    BY <1>2, <2>1, <2>2
<1>10. ASSUME NEW o \in offers', NEW x \in offers', OfferAt(o) = OfferAt(x) PROVE o = x
  <2>1. \A y \in put : OfferAt(y) \in names
    OBVIOUS
  <2> HIDE DEF names
  <2>2. (o \in offers /\ OfferAt(o) \notin names) \/ o \in put
    BY <1>2
  <2>3. (x \in offers /\ OfferAt(x) \notin names) \/ x \in put
    BY <1>2
  <2>4. o \in put /\ x \in put => o = x
    BY <1>7, <1>10 DEF Marked
  <2> QED
    BY <1>10, <2>1, <2>2, <2>3, <2>4 DEF LedgerInv
<1> QED
  BY <1>3, <1>5, <1>6, <1>8, <1>9, <1>10 DEF LedgerInv

-----------------------------------------------------------------------------
(* The book overwrites and removes by name; the name tells the side. *)
Untouched(S, U) == {o \in S : \A x \in U : OfferAt(o) # OfferAt(x)}

LEMMA WithoutLists ==
  ASSUME NEW S, NEW list, ListsAll(list, S), NEW U
  PROVE  ListsAll(Without(list, U), Untouched(S, U))
<1>1. Range(list) = S
  BY DEF ListsAll, Range
<1>2. PICK K : K = {x \in Range(list) : \A o \in U : OfferAt(x) # OfferAt(o)}
  OBVIOUS
<1>3. ListsAll(Keep(list, K), S \cap K)
  BY KeptListed
<1>4. Untouched(S, U) = S \cap K
  BY <1>1, <1>2 DEF Untouched
<1>5. Without(list, U) = Keep(list, K)
  BY <1>2 DEF Without
<1> QED
  BY <1>3, <1>4, <1>5

LEMMA IngestedLists ==
  ASSUME NEW S, NEW list, ListsAll(list, S), NEW P, IsFiniteSet(P), NEW G,
         \A o \in P : \A x \in G : OfferAt(o) # OfferAt(x)
  PROVE  ListsAll(Without(OverwriteOffers(list, P), G), Untouched(S, P \cup G) \cup P)
<1>1. ListsAll(Without(list, P), Untouched(S, P))
  BY WithoutLists
<1>2. ListsAll(SetToSeq(P), P)
  BY SetListed
<1>3. Untouched(S, P) \cap P = {}
  BY DEF Untouched
<1>4. ListsAll(OverwriteOffers(list, P), Untouched(S, P) \cup P)
  BY <1>1, <1>2, <1>3, BothListed DEF OverwriteOffers
<1>5. ListsAll(Without(OverwriteOffers(list, P), G), Untouched(Untouched(S, P) \cup P, G))
  BY <1>4, WithoutLists
<1>6. Untouched(Untouched(S, P) \cup P, G) = Untouched(S, P \cup G) \cup P
  BY DEF Untouched
<1> QED
  BY <1>5, <1>6

OfA(role, pair, U) == {o \in U : OfferRole(o, pair) = role}

LEMMA SideKept ==
  ASSUME LedgerInv, NEW a, NEW put, NEW gone, Marked(a, put, gone),
         NEW role, NEW pair, NEW list, ListsAll(list, Seen(role, pair)),
         offers' = Untouched(offers, put \cup gone) \cup put
  PROVE  ListsAll(Without(OverwriteOffers(list, OfA(role, pair, put)), OfA(role, pair, gone)),
                  {o \in offers' : OfferRole(o, pair) = role})
<1>1. PICK P, G : P = OfA(role, pair, put) /\ G = OfA(role, pair, gone)
  OBVIOUS
<1>2. P \subseteq put /\ G \subseteq gone
  BY <1>1 DEF OfA
<1>3. IsFiniteSet(P)
  BY <1>2, FS_Subset DEF Marked
<1>4. \A o \in P : \A x \in G : OfferAt(o) # OfferAt(x)
  BY <1>2 DEF Marked
<1>5. PICK S : S = Seen(role, pair)
  OBVIOUS
<1>6. ListsAll(Without(OverwriteOffers(list, P), G), Untouched(S, P \cup G) \cup P)
  BY <1>3, <1>4, <1>5, IngestedLists
<1>7. ASSUME NEW o \in offers, NEW x \in put \cup gone, OfferAt(o) = OfferAt(x)
      PROVE  OfferRole(x, pair) = OfferRole(o, pair)
  <2>1. SameOffer(o, x)
    BY DEF Marked
  <2> QED
    BY <1>7, <2>1 DEF SameOffer, OfferRole
<1>8. \A o : o \in S <=> o \in offers /\ OfferRole(o, pair) = role
  BY <1>5 DEF Seen
<1>9. /\ \A o : o \in P <=> o \in put /\ OfferRole(o, pair) = role
      /\ \A o : o \in G <=> o \in gone /\ OfferRole(o, pair) = role
  BY <1>1 DEF OfA
<1>10. \A o : o \in {y \in offers' : OfferRole(y, pair) = role} <=> o \in Untouched(S, P \cup G) \cup P
  <2>1. ASSUME NEW o
        PROVE  o \in offers' /\ OfferRole(o, pair) = role <=> o \in Untouched(S, P \cup G) \cup P
    <3>1. o \in offers' <=> (o \in offers /\ \A x \in put \cup gone : OfferAt(o) # OfferAt(x)) \/ o \in put
      BY DEF Untouched
    <3>2. o \in Untouched(S, P \cup G) <=> o \in S /\ \A x \in P \cup G : OfferAt(o) # OfferAt(x)
      BY DEF Untouched
    <3> QED
      BY <1>7, <1>8, <1>9, <3>1, <3>2
  <2> QED
    BY <2>1
<1>11. {o \in offers' : OfferRole(o, pair) = role} = Untouched(S, P \cup G) \cup P
  BY <1>10
<1> QED
  BY <1>1, <1>6, <1>11

(* So the book lists the offers as they are after the move. *)
LEMMA BookMoves ==
  ASSUME LedgerInv, BookInv, NEW type, NEW a, NEW ok, NEW bal, NEW put, NEW gone,
         Move(type, a, ok, bal, put, gone), Apply(type, a, ok, bal, put, gone), UNCHANGED pairVars
  PROVE  BookInv'
<1>1. current' = current /\ subscribing' = subscribing
  BY DEF pairVars
<1> SUFFICES ASSUME current # NoPair, ~subscribing
             PROVE  /\ ListsAll(book'.bids, {o \in offers' : OfferRole(o, current) = "bid"})
                    /\ ListsAll(book'.asks, {o \in offers' : OfferRole(o, current) = "ask"})
  BY <1>1 DEF BookInv, Seen
<1>2. PICK nodes : nodes = Nodes(a, Pay(bal, a, Str, -Fee), put, gone)
  OBVIOUS
<1>3. Marked(a, put, gone)
  BY MoveMarks
<1>4. /\ OffersAffected(nodes, "Created") \cup OffersAffected(nodes, "Modified") = put
      /\ OffersAffected(nodes, "Deleted") = gone
  BY <1>2, <1>3, OffersSaid
<1>5. book' = IngestOffers(book, nodes, current)
  BY <1>2, Zenon DEF Apply
<1>6. /\ book'.bids = Without(OverwriteOffers(book.bids, OfA("bid", current, put)), OfA("bid", current, gone))
      /\ book'.asks = Without(OverwriteOffers(book.asks, OfA("ask", current, put)), OfA("ask", current, gone))
  BY <1>4, <1>5 DEF IngestOffers, OfA
<1>7. offers' = Untouched(offers, put \cup gone) \cup put
  <2>1. offers' = {o \in offers : OfferAt(o) \notin {OfferAt(x) : x \in put \cup gone}} \cup put
    BY DEF Apply
  <2> QED
    BY <2>1 DEF Untouched
<1>8. ListsAll(book.bids, Seen("bid", current)) /\ ListsAll(book.asks, Seen("ask", current))
  BY DEF BookInv
<1>9. PICK pair : pair = current
  OBVIOUS
<1>10. ASSUME NEW role, NEW list, ListsAll(list, Seen(role, pair))
       PROVE  ListsAll(Without(OverwriteOffers(list, OfA(role, pair, put)), OfA(role, pair, gone)),
                       {o \in offers' : OfferRole(o, pair) = role})
  BY <1>3, <1>7, <1>10, SideKept
<1> QED
  BY <1>6, <1>8, <1>9, <1>10

LEMMA SnapshotLists ==
  ASSUME IsFiniteSet(offers), NEW pair, NEW role
  PROVE  ListsAll(OfRole(role, pair), Seen(role, pair))
<1>1. IsFiniteSet(Seen(role, pair))
  BY FS_Subset DEF Seen
<1> QED
  BY <1>1, SetListed DEF OfRole, Seen

(* A book that is no longer being subscribed to was current before.         *)
LEMMA StaysCurrent ==
  ASSUME UserStep, current' # NoPair, ~subscribing'
  PROVE  current' = current /\ ~subscribing
<1>1. ASSUME NEW p, SetCurrentOrderBook(p) PROVE UNCHANGED <<current, subscribing>>
  BY <1>1 DEF SetCurrentOrderBook
<1>2. \A favs : ~OpenLastUsed(favs)
  BY DEF OpenLastUsed
<1>3. UNCHANGED <<current, subscribing>>
  BY <1>1, <1>2, Zenon
     DEF UserStep, PickPair, SetFavorite, ClearForm, ResetForm, AddFavoritePair, DeleteFavoritePair
<1> QED
  BY <1>3

LEMMA MarketBegins ==
  ASSUME MarketInit
  PROVE  MarketInv
<1>1. /\ balance = Balance0 /\ lines = LinesAfter(Balance0) /\ offers = Offers0
      /\ sequence = [a \in Account |-> Cardinality({o \in Offers0 : o.account = a})]
      /\ order = NoOrder /\ subscribing = (current # NoPair)
  BY DEF MarketInit, PairsInit
<1>2. IsFiniteSet(offers) /\ balance \in [Account -> [Currency -> Nat]]
  BY <1>1, MarketAssumption
<1>3. ASSUME NEW a \in Account PROVE sequence[a] \in Nat
  <2>1. IsFiniteSet({o \in Offers0 : o.account = a})
    BY MarketAssumption, FS_Subset
  <2> QED
    BY <1>1, <2>1, FS_CardinalityType
<1>4. sequence \in [Account -> Nat]
  <2>1. sequence = [a \in Account |-> sequence[a]]
    BY <1>1
  <2> QED
    BY <1>3, <2>1
<1>5. ASSUME NEW o \in offers PROVE Stands(o)
  <2>1. /\ o = [account |-> o.account, sequence |-> o.sequence, gets |-> o.gets, pays |-> o.pays]
        /\ o.account \in Account /\ [gets |-> o.gets, pays |-> o.pays] \in Offered
        /\ o.sequence \in 1..Cardinality({x \in Offers0 : x.account = o.account})
    BY <1>1, MarketAssumption
  <2> QED
    BY <1>1, <2>1 DEF Stands, AmountsOf
<1>6. \A o, x \in offers : OfferAt(o) = OfferAt(x) => o = x
  BY <1>1, MarketAssumption
<1>7. LedgerInv
  BY <1>1, <1>2, <1>4, <1>5, <1>6 DEF LedgerInv
<1>8. BookInv
  BY <1>1 DEF BookInv
<1> QED
  BY <1>1, <1>7, <1>8 DEF MarketInv

LEMMA MarketKept ==
  ASSUME MarketInv, [MarketNext]_marketVars
  PROVE  MarketInv'
<1>1. LedgerInv /\ BookInv /\ order \in Orders \cup {NoOrder}
  BY DEF MarketInv
<1>2. ASSUME UNCHANGED ledgerVars PROVE LedgerInv'
  <2>1. balance' = balance /\ lines' = lines /\ offers' = offers /\ sequence' = sequence
    BY <1>2 DEF ledgerVars
  <2>2. ASSUME NEW o, Stands(o) PROVE Stands(o)'
    BY <2>1, <2>2 DEF Stands
  <2>3. \A o \in offers' : Stands(o)'
    BY <1>1, <2>1, <2>2 DEF LedgerInv
  <2> QED
    BY <1>1, <2>1, <2>3 DEF LedgerInv
<1>3. CASE UNCHANGED marketVars
  <2>1. LedgerInv'
    BY <1>2, <1>3 DEF marketVars
  <2>2. /\ current' = current /\ subscribing' = subscribing /\ book' = book
        /\ offers' = offers /\ order' = order
    BY <1>3 DEF marketVars, pairVars, ledgerVars
  <2>3. BookInv'
    BY <1>1, <2>2 DEF BookInv, Seen
  <2> QED
    BY <1>1, <2>1, <2>2, <2>3 DEF MarketInv
<1>4. CASE Choose
  <2>1. UNCHANGED ledgerVars /\ order' = order
    BY <1>4 DEF Choose
  <2>2. offers' = offers
    BY <2>1 DEF ledgerVars
  <2>3. BookInv'
    <3> SUFFICES ASSUME current' # NoPair, ~subscribing'
                 PROVE  BookInv'
      BY DEF BookInv
    <3>1. current' = current /\ ~subscribing
      BY <1>4, StaysCurrent DEF Choose
    <3>2. book' = book
      BY <1>4 DEF Choose
    <3> QED
      BY <1>1, <2>2, <3>1, <3>2 DEF BookInv, Seen
  <2> QED
    BY <1>1, <1>2, <2>1, <2>3 DEF MarketInv
<1>5. ASSUME NEW terms \in Orders, SubmitOffer(terms)
      PROVE  MarketInv'
  <2>1. /\ UNCHANGED ledgerVars /\ order' = terms
        /\ current' = current /\ subscribing' = subscribing /\ book' = book
    BY <1>5 DEF SubmitOffer
  <2>2. offers' = offers
    BY <2>1 DEF ledgerVars
  <2>3. BookInv'
    BY <1>1, <2>1, <2>2 DEF BookInv, Seen
  <2> QED
    BY <1>2, <2>1, <2>3 DEF MarketInv
<1>6. CASE Moves /\ UNCHANGED pairVars /\ order' \in {order, NoOrder}
  <2>1. PICK type, a, ok, bal, put, gone :
          Move(type, a, ok, bal, put, gone) /\ Apply(type, a, ok, bal, put, gone)
    BY <1>6 DEF Moves
  <2>2. LedgerInv'
    BY <1>1, <2>1, LedgerMoves
  <2>3. BookInv'
    BY <1>1, <1>6, <2>1, BookMoves
  <2> QED
    BY <1>1, <1>6, <2>2, <2>3 DEF MarketInv
<1>7. CASE Subscribed
  <2>1. UNCHANGED ledgerVars /\ order' = order /\ current' = current /\ book' = Snapshot(current)
    BY <1>7 DEF Subscribed
  <2>2. offers' = offers
    BY <2>1 DEF ledgerVars
  <2>3. book'.bids = OfRole("bid", current) /\ book'.asks = OfRole("ask", current)
    BY <2>1 DEF Snapshot
  <2>4. /\ ListsAll(OfRole("bid", current), Seen("bid", current))
        /\ ListsAll(OfRole("ask", current), Seen("ask", current))
    BY <1>1, SnapshotLists DEF LedgerInv
  <2>5. BookInv'
    BY <2>1, <2>2, <2>3, <2>4 DEF BookInv, Seen
  <2> QED
    BY <1>1, <1>2, <2>1, <2>5 DEF MarketInv
<1> QED
  BY <1>3, <1>4, <1>5, <1>6, <1>7, StepsAre

(* Every balance is an amount, the trust lines are those the balances and   *)
(* the trust call for, an offer in the ledger has a name of its own and     *)
(* positive amounts of two currencies, and the book kept of the current     *)
(* pair, once it is subscribed to, lists, each once, just the ledger's      *)
(* offers on either side.                                                   *)
THEOREM MarketHolds == MarketSpec => []MarketInv
<1>1. MarketInit => MarketInv
  BY MarketBegins
<1>2. MarketInv /\ [MarketNext]_marketVars => MarketInv'
  BY MarketKept
<1> QED
  BY <1>1, <1>2, PTL DEF MarketSpec

(* What LevelsAreTheBook says of one side. *)
ShownLevels(levels, role, pair) ==
  LET seen   == {o \in offers : OfferRole(o, pair) = role}
      price(o) == Friendly(o, pair).price
      base   == [o \in seen |-> Friendly(o, pair).base]
      better(p, q) == IF role = "ask" THEN Below(p, q) ELSE Below(q, p)
  IN  /\ {levels[i].price : i \in DOMAIN levels} = {price(o) : o \in seen}
      /\ \A i, j \in DOMAIN levels : i < j => better(levels[i].price, levels[j].price)
      /\ \A i \in DOMAIN levels :
           LET p == levels[i].price IN
           /\ levels[i].amount = SumFunctionOnSet(base, {o \in seen : price(o) = p})
           /\ levels[i].depth =
                SumFunctionOnSet(base, {o \in seen : price(o) = p \/ better(price(o), p)})

LEMMA LevelsOfSide ==
  ASSUME LedgerInv, NEW role, NEW pair, NEW list, ListsAll(list, Seen(role, pair)),
         NEW type, type = "asks" <=> role = "ask"
  PROVE  ShownLevels(PriceLevels(type, list, pair), role, pair)
<1>1. PICK S : S = Seen(role, pair)
  OBVIOUS
<1>2. IsFiniteSet(S)
  BY <1>1, FS_Subset DEF LedgerInv, Seen
<1>3. Positive(S)
  <2>1. ASSUME NEW o \in S
        PROVE  /\ o.gets.value \in Int /\ o.gets.value > 0
               /\ o.pays.value \in Int /\ o.pays.value > 0
    <3>1. Stands(o)
      BY <1>1 DEF Seen, LedgerInv
    <3> QED
      BY <3>1, OfferedIs DEF Stands
  <2> QED
    BY <2>1 DEF Positive
<1>4. LevelsShow(PriceLevels(type, list, pair), S, pair, type = "asks")
  BY <1>1, <1>2, <1>3, LevelsAre
<1>5. S = {o \in offers : OfferRole(o, pair) = role}
  BY <1>1 DEF Seen
<1> QED
  BY <1>4, <1>5 DEF LevelsShow, ShownLevels, BaseOf, PricesOf, AtPrice, Before

LEMMA LevelsFollow ==
  ASSUME MarketInv
  PROVE  LevelsAreTheBook
<1> SUFFICES ASSUME current # NoPair, ~subscribing PROVE LevelsAreTheBook
  BY DEF LevelsAreTheBook
<1>1. LedgerInv /\ ListsAll(book.bids, Seen("bid", current)) /\ ListsAll(book.asks, Seen("ask", current))
  BY DEF MarketInv, BookInv
<1>2. PICK bids, asks : /\ bids = PriceLevels("bids", book.bids, current)
                        /\ asks = PriceLevels("asks", book.asks, current)
  OBVIOUS
<1>3. ShownLevels(bids, "bid", current)
  BY <1>1, <1>2, LevelsOfSide
<1>4. ShownLevels(asks, "ask", current)
  BY <1>1, <1>2, LevelsOfSide
<1>5. ASSUME NEW side \in {<<"bid", bids>>, <<"ask", asks>>}
      PROVE  ShownLevels(side[2], side[1], current)
  BY <1>3, <1>4
<1>6. \A side \in {<<"bid", bids>>, <<"ask", asks>>} : ShownLevels(side[2], side[1], current)
  BY <1>5
<1>7. \A side \in {<<"bid", PriceLevels("bids", book.bids, current)>>,
                   <<"ask", PriceLevels("asks", book.asks, current)>>} :
        ShownLevels(side[2], side[1], current)
  BY <1>2, <1>6
<1> QED
  BY <1>7, Zenon DEF LevelsAreTheBook, ShownLevels

(* The price levels shown of the current pair are those of the offers in    *)
(* the ledger, through offers made, taken, removed and cancelled: one level *)
(* a price, the best first, with its amount and its depth.                  *)
THEOREM LevelsTrue == MarketSpec => []LevelsAreTheBook
BY MarketHolds, LevelsFollow, PTL

-----------------------------------------------------------------------------
(***************************************************************************)
(* The account's nodes, one a currency, and its gain in each.              *)
(***************************************************************************)
(* The account's own node for a currency, where the metadata has one. *)
HasNode(c, a, paid, put, gone) ==
  IF c = Str THEN Touched(Me, a, paid, LinesAfter(paid), put, gone) ELSE paid[Me][c] # balance[Me][c]

NodeOf(c, paid) ==
  IF c = Str THEN AccountNode(Me, paid) ELSE LineNode(<<Me, c>>, paid, LinesAfter(paid))

IsHolding(n) == n.account = Me /\ ~ IsOffer(n)

LEMMA NodeOfIs ==
  ASSUME NEW c \in Currency, NEW paid
  PROVE  /\ NodeOf(c, paid).account = Me /\ ~ IsOffer(NodeOf(c, paid))
         /\ CodeOf(NodeOf(c, paid)) = Code[c]
         /\ c = Str => /\ NodeOf(c, paid).entry = "AccountRoot"
                       /\ NodeOf(c, paid).prev = balance[Me][c] /\ NodeOf(c, paid).final = paid[Me][c]
         /\ c # Str => /\ NodeOf(c, paid).entry = "RippleState" /\ NodeOf(c, paid).index = <<Me, c>>
                       /\ NodeOf(c, paid).prev = Raw(Me, balance[Me][c])
                       /\ NodeOf(c, paid).final = Raw(Me, paid[Me][c])
                       /\ NodeOf(c, paid).diff \in {"Created", "Deleted", "Modified"}
<1>1. Code[Str] = StrCode
  BY MarketAssumption
<1>2. CASE c = Str
  BY <1>1, <1>2 DEF NodeOf, AccountNode, IsOffer, CodeOf
<1>3. CASE c # Str
  <2>1. PICK after : after = LinesAfter(paid)
    OBVIOUS
  <2>2. PICK diff \in {"Created", "Deleted", "Modified"} :
          diff = IF <<Me, c>> \notin lines THEN "Created"
                 ELSE IF <<Me, c>> \notin after THEN "Deleted" ELSE "Modified"
    OBVIOUS
  <2>3. NodeOf(c, paid) = [entry |-> "RippleState", account |-> Me, index |-> <<Me, c>>, code |-> Code[c],
                           diff |-> diff, prev |-> Raw(Me, balance[Me][c]), final |-> Raw(Me, paid[Me][c])]
    BY <1>3, <2>1, <2>2 DEF NodeOf, LineNode
  <2> QED
    BY <1>3, <2>3 DEF IsOffer, CodeOf
<1> QED
  BY <1>2, <1>3

LEMMA NodesApart ==
  ASSUME NEW c \in Currency, NEW d \in Currency, NEW paid, NodeOf(c, paid) = NodeOf(d, paid)
  PROVE  c = d
<1>1. \A e \in Currency : e = Str => NodeOf(e, paid).entry = "AccountRoot"
  BY NodeOfIs
<1>2. \A e \in Currency : e # Str => NodeOf(e, paid).entry = "RippleState"
  BY NodeOfIs
<1>3. \A e \in Currency : e # Str => NodeOf(e, paid).index = <<Me, e>>
  BY NodeOfIs
<1> QED
  BY <1>1, <1>2, <1>3

LEMMA MyNodes ==
  ASSUME LedgerInv, NEW paid \in [Account -> [Currency -> Nat]], NEW a, NEW put, NEW gone,
         NEW nodes, nodes = Nodes(a, paid, put, gone), NEW n
  PROVE  n \in nodes /\ IsHolding(n) <=>
           \E c \in Currency : HasNode(c, a, paid, put, gone) /\ n = NodeOf(c, paid)
<1>1. PICK after : after = LinesAfter(paid)
  OBVIOUS
<1>2. Me \in Account /\ Str \in Currency
  BY MarketAssumption DEF Account
<1>3. lines \subseteq Account \X (Currency \ {Str}) /\ after \subseteq Account \X (Currency \ {Str})
  BY <1>1, MarketAssumption DEF LedgerInv, LinesAfter
<1>4. ASSUME NEW c \in Currency \ {Str}, paid[Me][c] # balance[Me][c]
      PROVE  <<Me, c>> \in lines \cup after
  <2>1. paid[Me][c] \in Nat /\ balance[Me][c] \in Nat
    BY <1>2 DEF LedgerInv
  <2>2. paid[Me][c] > 0 \/ balance[Me][c] > 0
    BY <1>4, <2>1
  <2> QED
    BY <1>1, <1>2, <2>2 DEF LedgerInv, LinesAfter
<1>5. n \in nodes <=>
        \/ n \in OfferNodes(put, gone)
        \/ \E b \in Account : Touched(b, a, paid, after, put, gone) /\ n = AccountNode(b, paid)
        \/ \E l \in lines \cup after : paid[l[1]][l[2]] # balance[l[1]][l[2]] /\ n = LineNode(l, paid, after)
  BY <1>1, Zenon DEF Nodes
<1>6. n \in OfferNodes(put, gone) => IsOffer(n)
  BY NodesOfOffers
<1>7. \A b : AccountNode(b, paid).account = b /\ ~ IsOffer(AccountNode(b, paid))
  BY DEF AccountNode, IsOffer
<1>8. \A l : LineNode(l, paid, after).account = l[1] /\ ~ IsOffer(LineNode(l, paid, after))
  BY DEF LineNode, IsOffer
<1>9. NodeOf(Str, paid) = AccountNode(Me, paid)
  BY DEF NodeOf
<1>10. \A c \in Currency \ {Str} : NodeOf(c, paid) = LineNode(<<Me, c>>, paid, after)
  BY <1>1 DEF NodeOf
<1>11. ASSUME n \in nodes, IsHolding(n)
       PROVE  \E c \in Currency : HasNode(c, a, paid, put, gone) /\ n = NodeOf(c, paid)
  <2>1. n.account = Me /\ ~ IsOffer(n)
    BY <1>11 DEF IsHolding
  <2>2. ASSUME NEW b \in Account, Touched(b, a, paid, after, put, gone), n = AccountNode(b, paid)
        PROVE  \E c \in Currency : HasNode(c, a, paid, put, gone) /\ n = NodeOf(c, paid)
    <3>1. b = Me
      BY <1>7, <2>1, <2>2
    <3>2. HasNode(Str, a, paid, put, gone)
      BY <1>1, <2>2, <3>1 DEF HasNode
    <3> QED
      BY <1>2, <1>9, <2>2, <3>1, <3>2
  <2>3. ASSUME NEW l \in lines \cup after, paid[l[1]][l[2]] # balance[l[1]][l[2]], n = LineNode(l, paid, after)
        PROVE  \E c \in Currency : HasNode(c, a, paid, put, gone) /\ n = NodeOf(c, paid)
    <3>1. PICK c \in Currency \ {Str} : l = <<Me, c>>
      BY <1>3, <1>8, <2>1, <2>3
    <3>2. HasNode(c, a, paid, put, gone)
      BY <2>3, <3>1 DEF HasNode
    <3>3. n = NodeOf(c, paid)
      BY <1>10, <2>3, <3>1
    <3> QED
      BY <3>2, <3>3
  <2> QED
    BY <1>5, <1>6, <1>11, <2>1, <2>2, <2>3
<1>12. ASSUME NEW c \in Currency, HasNode(c, a, paid, put, gone), n = NodeOf(c, paid)
       PROVE  n \in nodes /\ IsHolding(n)
  <2>1. IsHolding(n)
    BY <1>12, NodeOfIs DEF IsHolding
  <2>2. CASE c = Str
    <3>1. Touched(Me, a, paid, after, put, gone)
      BY <1>1, <1>12, <2>2 DEF HasNode
    <3> QED
      BY <1>2, <1>5, <1>9, <1>12, <2>1, <2>2, <3>1
  <2>3. CASE c # Str
    <3>1. paid[Me][c] # balance[Me][c]
      BY <1>12, <2>3 DEF HasNode
    <3>2. PICK l \in lines \cup after : l = <<Me, c>>
      BY <1>4, <2>3, <3>1
    <3>3. paid[l[1]][l[2]] # balance[l[1]][l[2]] /\ n = LineNode(l, paid, after)
      BY <1>10, <1>12, <2>3, <3>1, <3>2
    <3> QED
      BY <1>5, <2>1, <3>3
  <2> QED
    BY <2>2, <2>3
<1> QED
  BY <1>11, <1>12

(* What is summed over the account's nodes of a code is summed over the     *)
(* currencies of that code.                                                 *)
OfCode(code) == {c \in Currency : Code[c] = code}

LEMMA SumByNodes ==
  ASSUME LedgerInv, NEW paid \in [Account -> [Currency -> Nat]], NEW a, NEW put, NEW gone,
         NEW nodes, nodes = Nodes(a, paid, put, gone),
         NEW v, NEW w, NEW code, NEW N, \A n : n \in N <=> n \in nodes /\ IsHolding(n) /\ CodeOf(n) = code,
         \A c \in OfCode(code) : w[c] \in Int,
         \A c \in OfCode(code) : HasNode(c, a, paid, put, gone) => v[NodeOf(c, paid)] = w[c],
         \A c \in OfCode(code) : ~ HasNode(c, a, paid, put, gone) => w[c] = 0
  PROVE  SumFunctionOnSet(w, OfCode(code)) = SumFunctionOnSet(v, N)
<1>1. PICK S : S = OfCode(code)
  OBVIOUS
<1>2. PICK A : A = {c \in S : HasNode(c, a, paid, put, gone)}
  OBVIOUS
<1>3. PICK h : h = [c \in A |-> NodeOf(c, paid)]
  OBVIOUS
<1>4. IsFiniteSet(S) /\ S \subseteq Currency /\ A \in SUBSET S
  <2>1. S \subseteq Currency /\ A \in SUBSET S
    BY <1>1, <1>2 DEF OfCode
  <2> QED
    BY <2>1, MarketAssumption, FS_Subset
<1>5. \A c \in A : w[c] \in Int
  BY <1>1, <1>2
<1>6. \A c \in S \ A : w[c] = 0
  BY <1>1, <1>2
<1>7. SumFunctionOnSet(w, S) = SumFunctionOnSet(w, A)
  BY <1>4, <1>5, <1>6, SumSupported
<1>8. \A c \in A : h[c] = NodeOf(c, paid)
  BY <1>3
<1>9. ASSUME NEW c \in A PROVE h[c] \in N /\ w[c] \in Int /\ v[h[c]] = w[c]
  <2>1. c \in Currency /\ Code[c] = code /\ HasNode(c, a, paid, put, gone)
    BY <1>1, <1>2 DEF OfCode
  <2>2. h[c] \in nodes /\ IsHolding(h[c])
    <3>1. PICK n : n = h[c]
      OBVIOUS
    <3>2. \E d \in Currency : HasNode(d, a, paid, put, gone) /\ n = NodeOf(d, paid)
      BY <1>8, <2>1, <3>1
    <3>3. n \in nodes /\ IsHolding(n)
      BY <3>2, MyNodes
    <3> QED
      BY <3>1, <3>3
  <2>3. CodeOf(h[c]) = code
    BY <1>8, <2>1, NodeOfIs
  <2> QED
    BY <1>1, <1>2, <1>5, <1>8, <2>1, <2>2, <2>3
<1>10. ASSUME NEW c \in A, NEW d \in A, h[c] = h[d] PROVE c = d
  BY <1>4, <1>8, <1>10, NodesApart
<1>11. ASSUME NEW n \in N PROVE \E c \in A : h[c] = n
  <2>1. n \in nodes /\ IsHolding(n) /\ CodeOf(n) = code
    OBVIOUS
  <2>2. PICK c \in Currency : HasNode(c, a, paid, put, gone) /\ n = NodeOf(c, paid)
    BY <2>1, MyNodes
  <2>3. Code[c] = code
    BY <2>1, <2>2, NodeOfIs
  <2>4. c \in A
    BY <1>1, <1>2, <2>2, <2>3 DEF OfCode
  <2> QED
    BY <1>8, <2>2, <2>4
<1>12. IsFiniteSet(A)
  BY <1>4, FS_Subset
<1>13. SumFunctionOnSet(w, A) = SumFunctionOnSet(v, N)
  BY <1>9, <1>10, <1>11, <1>12, SumRenamed
<1> QED
  BY <1>1, <1>7, <1>13

(* What a move did to the account's balances, and what its nodes say. *)
GainBy(gain, paid, a) ==
  \A c \in Currency : /\ gain[c] \in Int
                      /\ gain[c] = (paid[Me][c] - balance[Me][c]) + (IF a = Me /\ c = Str THEN 1 ELSE 0)

NodesSay(gain, paid, a, put, gone) ==
  \A c \in Currency : ~ HasNode(c, a, paid, put, gone) => gain[c] = 0

IsOutcome(l, type, a, ok, bal, put, gone) ==
  /\ l.type = type
  /\ l.tx = [type |-> type, account |-> a, fee |-> Fee, ok |-> ok,
             nodes |-> Nodes(a, Pay(bal, a, Str, -Fee), put, gone)]
  /\ l.mine <=> \E n \in Nodes(a, Pay(bal, a, Str, -Fee), put, gone) : n.account = Me
  /\ l.gain = [c \in Currency |-> bal[Me][c] - balance[Me][c]]
  /\ l.mine => l.trade = Trade(l.tx, Directions)

LEMMA OutcomeIs ==
  ASSUME NEW type, NEW a, NEW ok, NEW bal, NEW put, NEW gone, Apply(type, a, ok, bal, put, gone)
  PROVE  IsOutcome(last', type, a, ok, bal, put, gone)
<1>1. PICK nodes : nodes = Nodes(a, Pay(bal, a, Str, -Fee), put, gone)
  OBVIOUS
<1>2. PICK mine \in BOOLEAN : mine <=> \E n \in nodes : n.account = Me
  OBVIOUS
<1>3. PICK tx : tx = [type |-> type, account |-> a, fee |-> Fee, ok |-> ok, nodes |-> nodes]
  OBVIOUS
<1>4. PICK gain : gain = [c \in Currency |-> bal[Me][c] - balance[Me][c]]
  OBVIOUS
<1>5. PICK trade : trade = IF mine THEN Trade(tx, Directions) ELSE [shown |-> "no"]
  OBVIOUS
<1>6. last' = [type |-> type, tx |-> tx, mine |-> mine, gain |-> gain, trade |-> trade]
  <2>1. mine = \E n \in nodes : n.account = Me
    BY <1>2
  <2> QED
    BY <1>1, <1>3, <1>4, <1>5, <2>1 DEF Apply
<1> QED
  BY <1>1, <1>2, <1>3, <1>4, <1>5, <1>6 DEF IsOutcome

LEMMA GainIs ==
  ASSUME LedgerInv, NEW type, NEW a, NEW ok, NEW bal, NEW put, NEW gone,
         Move(type, a, ok, bal, put, gone),
         NEW gain, gain = [c \in Currency |-> bal[Me][c] - balance[Me][c]],
         NEW paid, paid = Pay(bal, a, Str, -Fee)
  PROVE  GainBy(gain, paid, a) /\ NodesSay(gain, paid, a, put, gone)
<1>1. /\ bal \in [Account -> [Currency -> Int]] /\ Credited(paid, bal, a, Str, -Fee)
      /\ paid \in [Account -> [Currency -> Nat]]
  BY PaidIs
<1>2. balance \in [Account -> [Currency -> Nat]] /\ Me \in Account /\ Fee = 1 /\ a \in Account
  BY MarketAssumption DEF LedgerInv, Account, Fee, Move
<1>3. ASSUME NEW c \in Currency
      PROVE  /\ gain[c] \in Int
             /\ gain[c] = (paid[Me][c] - balance[Me][c]) + (IF a = Me /\ c = Str THEN 1 ELSE 0)
             /\ ~ HasNode(c, a, paid, put, gone) => gain[c] = 0
  <2>1. PICK m \in Int, n \in Int, p \in Int : m = balance[Me][c] /\ n = bal[Me][c] /\ p = paid[Me][c]
    BY <1>1, <1>2
  <2>2. gain[c] = n - m
    BY <2>1
  <2>3. p = n + (IF a = Me /\ c = Str THEN -1 ELSE 0)
    BY <1>1, <1>2, <2>1 DEF Credited
  <2>4. ~ HasNode(c, a, paid, put, gone) => p = m /\ ~ (a = Me /\ c = Str)
    BY <2>1 DEF HasNode, Touched
  <2> QED
    BY <2>1, <2>2, <2>3, <2>4
<1> QED
  BY <1>3 DEF GainBy, NodesSay

-----------------------------------------------------------------------------
(***************************************************************************)
(* The trades: the changes shown are the account's gains by code, and they *)
(* are of no code, of one, or of one gained and one given.                 *)
(***************************************************************************)
GainIn(gain, code) == SumFunctionOnSet(gain, OfCode(code))

Readable(nodes) == \A n \in nodes : ~ Unreadable(n) /\ ~ CreatesLine(n)

(* The changes that are counted, the fee included. *)
Counts(ch, w, paid, a, put, gone) ==
  /\ ch = [code \in DOMAIN ch |-> ch[code]]
  /\ \A code : code \in DOMAIN ch <=>
                 \E c \in Currency : HasNode(c, a, paid, put, gone) /\ Code[c] = code
  /\ \A code \in DOMAIN ch : ch[code] = GainIn(w, code)

(* The account's nodes are those of the currencies that have one. *)
HoldingsAre(nodes, a, paid, put, gone) ==
  \A n : n \in nodes /\ IsHolding(n) <=>
            \E c \in Currency : HasNode(c, a, paid, put, gone) /\ n = NodeOf(c, paid)

LEMMA HoldingsHold ==
  ASSUME LedgerInv, NEW paid \in [Account -> [Currency -> Nat]], NEW a, NEW put, NEW gone,
         NEW nodes, nodes = Nodes(a, paid, put, gone)
  PROVE  HoldingsAre(nodes, a, paid, put, gone)
BY MyNodes DEF HoldingsAre

LEMMA ChangesCounted ==
  ASSUME LedgerInv, NEW paid \in [Account -> [Currency -> Nat]], NEW a, NEW put, NEW gone,
         NEW nodes, nodes = Nodes(a, paid, put, gone), Readable(nodes),
         NEW w, \A c \in Currency : w[c] = paid[Me][c] - balance[Me][c]
  PROVE  Counts(BalanceChanges(nodes), w, paid, a, put, gone)
<1>0. HoldingsAre(nodes, a, paid, put, gone)
  BY HoldingsHold
<1>1. PICK counted : counted = {n \in nodes : Counted(n)}
  OBVIOUS
<1>2. PICK change : change = [n \in counted |-> ChangeIn(n)]
  OBVIOUS
<1>3. PICK ch : ch = BalanceChanges(nodes)
  OBVIOUS
<1>4. ch = [c \in {CodeOf(n) : n \in counted} |->
              SumFunctionOnSet(change, {n \in counted : CodeOf(n) = c})]
  BY <1>1, <1>2, <1>3 DEF BalanceChanges
<1>5. Me \in Account
  BY DEF Account
<1>6. ASSUME NEW n \in nodes PROVE n \in counted <=> IsHolding(n)
  <2>1. ~ Unreadable(n) /\ ~ CreatesLine(n)
    BY DEF Readable
  <2>2. ASSUME IsHolding(n) PROVE n.entry \in {"AccountRoot", "RippleState"} /\ n.account = Me
    <3>1. PICK c \in Currency : n = NodeOf(c, paid)
      BY <1>0, <2>2 DEF HoldingsAre
    <3> QED
      BY <2>2, <3>1, NodeOfIs DEF IsHolding
  <2>3. Counted(n) <=> n.account = Me /\ n.entry \in {"AccountRoot", "RippleState"}
    BY <2>1 DEF Counted, CreatesLine
  <2>4. n.account = Me /\ n.entry \in {"AccountRoot", "RippleState"} => IsHolding(n)
    BY DEF IsHolding, IsOffer
  <2> QED
    BY <1>1, <2>2, <2>3, <2>4
<1>7. \A n : n \in counted <=> n \in nodes /\ IsHolding(n)
  BY <1>1, <1>6
<1>8. ASSUME NEW n
      PROVE  n \in counted <=> \E c \in Currency : HasNode(c, a, paid, put, gone) /\ n = NodeOf(c, paid)
  <2>1. n \in nodes /\ IsHolding(n) <=>
          \E c \in Currency : HasNode(c, a, paid, put, gone) /\ n = NodeOf(c, paid)
    BY <1>0 DEF HoldingsAre
  <2> QED
    BY <1>7, <2>1
<1>9. ASSUME NEW code
      PROVE  code \in DOMAIN ch <=> \E c \in Currency : HasNode(c, a, paid, put, gone) /\ Code[c] = code
  <2>1. code \in DOMAIN ch <=> \E n \in counted : CodeOf(n) = code
    BY <1>4
  <2>2. \A c \in Currency : CodeOf(NodeOf(c, paid)) = Code[c]
    BY NodeOfIs
  <2> QED
    BY <1>8, <2>1, <2>2
<1>10. ASSUME NEW code \in DOMAIN ch
       PROVE  ch[code] = GainIn(w, code)
  <2>1. PICK N : N = {n \in counted : CodeOf(n) = code}
    OBVIOUS
  <2>2. ch[code] = SumFunctionOnSet(change, N)
    BY <1>4, <2>1
  <2>3. \A n : n \in N <=> n \in nodes /\ IsHolding(n) /\ CodeOf(n) = code
    BY <1>7, <2>1
  <2>4. ASSUME NEW c \in OfCode(code)
        PROVE  /\ w[c] \in Int
               /\ HasNode(c, a, paid, put, gone) => change[NodeOf(c, paid)] = w[c]
               /\ ~ HasNode(c, a, paid, put, gone) => w[c] = 0
    <3>1. c \in Currency
      BY DEF OfCode
    <3>2. PICK m \in Int, p \in Int : m = balance[Me][c] /\ p = paid[Me][c]
      BY <1>5, <3>1 DEF LedgerInv
    <3>3. w[c] = p - m
      BY <3>1, <3>2
    <3>4. ~ HasNode(c, a, paid, put, gone) => p = m
      BY <3>2 DEF HasNode, Touched
    <3>5. ASSUME HasNode(c, a, paid, put, gone)
          PROVE  change[NodeOf(c, paid)] = p - m
      <4>1. PICK n : n = NodeOf(c, paid)
        OBVIOUS
      <4>2. n \in counted
        BY <1>8, <3>1, <3>5, <4>1
      <4>3. change[n] = ChangeIn(n)
        BY <1>2, <4>2
      <4>4. ~ Unreadable(n) /\ ~ CreatesLine(n)
        BY <1>7, <4>2 DEF Readable
      <4>5. CASE c = Str
        <5>1. n.entry = "AccountRoot" /\ n.prev = m /\ n.final = p
          BY <3>1, <3>2, <4>1, <4>5, NodeOfIs
        <5> QED
          BY <4>1, <4>3, <5>1 DEF ChangeIn
      <4>6. CASE c # Str
        <5>1. n.entry = "RippleState" /\ n.prev = Raw(Me, m) /\ n.final = Raw(Me, p)
              /\ n.diff \in {"Created", "Deleted", "Modified"} /\ n.account = Me
          BY <3>1, <3>2, <4>1, <4>6, NodeOfIs
        <5>2. n.diff = "Modified"
          BY <4>4, <5>1 DEF Unreadable, CreatesLine
        <5>3. ChangeIn(n) = p - m
          BY <5>1, <5>2 DEF ChangeIn, Raw
        <5> QED
          BY <4>1, <4>3, <5>3
      <4> QED
        BY <4>5, <4>6
    <3> QED
      BY <3>3, <3>4, <3>5
  <2>5. SumFunctionOnSet(w, OfCode(code)) = SumFunctionOnSet(change, N)
    <3>1. \A c \in OfCode(code) : w[c] \in Int
      BY <2>4
    <3>2. \A c \in OfCode(code) : HasNode(c, a, paid, put, gone) => change[NodeOf(c, paid)] = w[c]
      BY <2>4
    <3>3. \A c \in OfCode(code) : ~ HasNode(c, a, paid, put, gone) => w[c] = 0
      BY <2>4
    <3> QED
      BY <2>3, <3>1, <3>2, <3>3, SumByNodes
  <2> QED
    BY <2>2, <2>5 DEF GainIn
<1>11. ch = [code \in DOMAIN ch |-> ch[code]]
  BY <1>4
<1> QED
  BY <1>3, <1>9, <1>10, <1>11 DEF Counts

-----------------------------------------------------------------------------
(* What is shown of them: the account's gains, code by code. *)
ShowsGains(ch, gain) ==
  /\ \A code \in DOMAIN ch : ch[code] = GainIn(gain, code)
  /\ \A code : code \notin DOMAIN ch => GainIn(gain, code) = 0
  /\ \A code \in DOMAIN ch : \E c \in Currency : Code[c] = code /\ gain[c] # 0

LEMMA GainType ==
  ASSUME NEW gain, \A c \in Currency : gain[c] \in Int, NEW code
  PROVE  /\ IsFiniteSet(OfCode(code)) /\ GainIn(gain, code) \in Int
         /\ (\A c \in OfCode(code) : gain[c] = 0) => GainIn(gain, code) = 0
<1>1. PICK S : S = OfCode(code)
  OBVIOUS
<1>2. IsFiniteSet(S) /\ S \subseteq Currency
  BY <1>1, MarketAssumption, FS_Subset DEF OfCode
<1>3. \A c \in S : gain[c] \in Int
  BY <1>2
<1>4. SumFunctionOnSet(gain, S) \in Int
  BY <1>2, <1>3, SumType
<1>5. (\A c \in S : gain[c] = 0) => SumFunctionOnSet(gain, S) = 0
  BY <1>2, SumOfZeros
<1> QED
  BY <1>1, <1>2, <1>4, <1>5 DEF GainIn

(* The fee is one of STR. *)
LEMMA FeeAdded ==
  ASSUME NEW gain, NEW w, \A c \in Currency : w[c] \in Int,
         \A c \in Currency : gain[c] = w[c] + (IF c = Str THEN 1 ELSE 0), NEW code
  PROVE  GainIn(gain, code) = GainIn(w, code) + (IF code = StrCode THEN 1 ELSE 0)
<1>1. PICK S : S = OfCode(code)
  OBVIOUS
<1>2. IsFiniteSet(S) /\ S \subseteq Currency
  BY <1>1, MarketAssumption, FS_Subset DEF OfCode
<1>3. Str \in S <=> code = StrCode
  BY <1>1, MarketAssumption DEF OfCode
<1>4. \A c \in S : w[c] \in Int /\ gain[c] \in Int
  <2>1. ASSUME NEW c \in S PROVE w[c] \in Int /\ gain[c] \in Int
    <3>1. w[c] \in Int /\ gain[c] = w[c] + (IF c = Str THEN 1 ELSE 0)
      BY <1>2
    <3> QED
      BY <3>1
  <2> QED
    BY <2>1
<1>5. SumFunctionOnSet(w, S) \in Int
  BY <1>2, <1>4, SumType
<1>6. CASE Str \notin S
  <2>1. \A c \in S : w[c] \in Int /\ gain[c] = w[c]
    <3>1. ASSUME NEW c \in S PROVE gain[c] = w[c]
      <4>1. w[c] \in Int /\ gain[c] = w[c] + (IF c = Str THEN 1 ELSE 0) /\ c # Str
        BY <1>2, <1>6
      <4> QED
        BY <4>1
    <3> QED
      BY <1>4, <3>1
  <2>2. SumFunctionOnSet(w, S) = SumFunctionOnSet(gain, S)
    BY <1>2, <2>1, SumSame
  <2> QED
    BY <1>1, <1>3, <1>5, <1>6, <2>2 DEF GainIn
<1>7. CASE Str \in S
  <2>1. PICK T : T = S \ {Str}
    OBVIOUS
  <2>2. IsFiniteSet(T)
    BY <1>2, <2>1, FS_Subset
  <2>3. SumFunctionOnSet(w, S) = w[Str] + SumFunctionOnSet(w, T)
    BY <1>2, <1>4, <1>7, <2>1, SumOut
  <2>4. SumFunctionOnSet(gain, S) = gain[Str] + SumFunctionOnSet(gain, T)
    BY <1>2, <1>4, <1>7, <2>1, SumOut
  <2>5. \A c \in T : w[c] \in Int /\ gain[c] = w[c]
    <3>1. ASSUME NEW c \in T PROVE w[c] \in Int /\ gain[c] = w[c]
      <4>1. w[c] \in Int /\ gain[c] = w[c] + (IF c = Str THEN 1 ELSE 0) /\ c # Str
        BY <1>2, <2>1
      <4> QED
        BY <4>1
    <3> QED
      BY <3>1
  <2>6. SumFunctionOnSet(w, T) = SumFunctionOnSet(gain, T)
    BY <2>2, <2>5, SumSame
  <2>7. gain[Str] = w[Str] + 1 /\ w[Str] \in Int
    BY <1>2, <1>7
  <2>8. SumFunctionOnSet(w, T) \in Int
    BY <2>2, <2>5, SumType
  <2> QED
    BY <1>1, <1>3, <1>7, <2>3, <2>4, <2>6, <2>7, <2>8 DEF GainIn
<1> QED
  BY <1>6, <1>7

(* The balances change in no currency, or in two that were exchanged. *)
Shaped(gain, u, v) ==
  /\ u \in Currency /\ v \in Currency /\ u # v /\ gain[u] > 0 /\ gain[v] < 0
  /\ \A c \in Currency : c # u /\ c # v => gain[c] = 0

LEMMA GainShape ==
  ASSUME LedgerInv, NEW type, NEW a, NEW ok, NEW bal, NEW put, NEW gone,
         Move(type, a, ok, bal, put, gone),
         NEW gain, \A c \in Currency : gain[c] = bal[Me][c] - balance[Me][c]
  PROVE  (\A c \in Currency : gain[c] = 0) \/ \E u, v : Shaped(gain, u, v)
<1>1. \A c \in Currency : balance[Me][c] \in Int
  BY DEF LedgerInv, Account
<1>2. CASE bal = balance
  BY <1>1, <1>2
<1>3. ASSUME NEW x \in offers, NEW k \in Int, NEW p \in Int, Struck(x, a, k, p, bal, put, gone)
      PROVE  \E u, v : Shaped(gain, u, v)
  <2>1. bal = Traded(x, a, k, p) /\ k > 0 /\ p > 0
    BY <1>3 DEF Struck, Deal
  <2>2. PICK g \in Currency, q \in Currency : g = x.gets.cur /\ q = x.pays.cur /\ g # q
    BY LessIs
  <2>3. ASSUME NEW c \in Currency
        PROVE  gain[c] = IF a = Me THEN IF c = g THEN k ELSE IF c = q THEN -p ELSE 0
                         ELSE IF c = g THEN -k ELSE IF c = q THEN p ELSE 0
    <3>1. PICK m \in Int, d \in Int : m = balance[Me][c] /\ d = Flow(x, k, p, c)
      BY <1>1 DEF Flow
    <3>2. bal[Me][c] = m + (IF Me = a THEN d ELSE -d)
      BY <2>1, <3>1 DEF Traded, Account
    <3>3. d = IF c = g THEN k ELSE IF c = q THEN -p ELSE 0
      BY <2>2, <3>1 DEF Flow
    <3> QED
      BY <3>1, <3>2, <3>3
  <2>4. CASE a = Me
    BY <2>1, <2>2, <2>3, <2>4 DEF Shaped
  <2>5. CASE a # Me
    <3>1. Shaped(gain, q, g)
      BY <2>1, <2>2, <2>3, <2>5 DEF Shaped
    <3> QED
      BY <3>1
  <2> QED
    BY <2>4, <2>5
<1> QED
  BY <1>2, <1>3 DEF Move, Idle

LEMMA OneGain ==
  ASSUME NEW gain, \A c \in Currency : gain[c] \in Int, NEW u \in Currency, NEW code, Code[u] = code,
         \A c \in OfCode(code) : c # u => gain[c] = 0
  PROVE  GainIn(gain, code) = gain[u]
<1>1. PICK S : S = OfCode(code)
  OBVIOUS
<1>2. IsFiniteSet(S) /\ u \in S
  BY <1>1, GainType DEF OfCode
<1>3. PICK A \in SUBSET S : A = {u}
  BY <1>2
<1>4. \A c \in A : gain[c] \in Int
  BY <1>3
<1>5. \A c \in S \ A : gain[c] = 0
  BY <1>1, <1>3
<1>6. SumFunctionOnSet(gain, S) = SumFunctionOnSet(gain, A)
  BY <1>2, <1>4, <1>5, SumSupported
<1>7. SumFunctionOnSet(gain, {u}) = gain[u]
  BY SumOne
<1> QED
  BY <1>1, <1>3, <1>6, <1>7 DEF GainIn

(* So they are of one code at most, or of one gained and one given. *)
Opposed(ch, gain, U, V) ==
  /\ U \in AllCodes /\ V \in AllCodes /\ U # V
  /\ GainIn(gain, U) > 0 /\ GainIn(gain, V) < 0
  /\ \A code : code \in DOMAIN ch <=> code = U \/ code = V

LEMMA ShownShape ==
  ASSUME NEW gain, \A c \in Currency : gain[c] \in Int,
         (\A c \in Currency : gain[c] = 0) \/ \E u, v : Shaped(gain, u, v),
         NEW ch, ShowsGains(ch, gain)
  PROVE  \/ \E C : DOMAIN ch \subseteq {C}
         \/ \E U, V : Opposed(ch, gain, U, V)
<1>1. \A code \in DOMAIN ch : \E c \in Currency : Code[c] = code /\ gain[c] # 0
  BY DEF ShowsGains
<1>2. CASE \A c \in Currency : gain[c] = 0
  BY <1>1, <1>2
<1>3. ASSUME NEW u, NEW v, Shaped(gain, u, v)
      PROVE  (\E C : DOMAIN ch \subseteq {C}) \/ \E U, V : Opposed(ch, gain, U, V)
  <2>1. /\ u \in Currency /\ v \in Currency /\ u # v /\ gain[u] > 0 /\ gain[v] < 0
        /\ \A c \in Currency : c # u /\ c # v => gain[c] = 0
    BY <1>3 DEF Shaped
  <2>2. PICK U, V : U = Code[u] /\ V = Code[v]
    OBVIOUS
  <2>3. \A code \in DOMAIN ch : code = U \/ code = V
    BY <1>1, <2>1, <2>2
  <2>4. CASE U = V
    BY <2>3, <2>4
  <2>5. CASE U # V
    <3>1. \A c \in OfCode(U) : c # u => gain[c] = 0
      BY <2>1, <2>2, <2>5 DEF OfCode
    <3>2. \A c \in OfCode(V) : c # v => gain[c] = 0
      BY <2>1, <2>2, <2>5 DEF OfCode
    <3>3. GainIn(gain, U) = gain[u] /\ GainIn(gain, V) = gain[v]
      BY <2>1, <2>2, <3>1, <3>2, OneGain
    <3>4. gain[u] \in Int /\ gain[v] \in Int
      BY <2>1
    <3>5. GainIn(gain, U) # 0 /\ GainIn(gain, V) # 0
      BY <2>1, <3>3, <3>4
    <3>6. U \in DOMAIN ch /\ V \in DOMAIN ch
      BY <3>5 DEF ShowsGains
    <3>7. U \in AllCodes /\ V \in AllCodes
      BY <2>1, <2>2 DEF AllCodes
    <3>8. Opposed(ch, gain, U, V)
      BY <2>1, <2>3, <2>5, <3>3, <3>6, <3>7 DEF Opposed
    <3> QED
      BY <3>8
  <2> QED
    BY <2>4, <2>5
<1> QED
  BY <1>2, <1>3

-----------------------------------------------------------------------------
LEMMA ShowsThem ==
  ASSUME LedgerInv, NEW a \in Account, NEW paid \in [Account -> [Currency -> Nat]], NEW put, NEW gone,
         NEW nodes, nodes = Nodes(a, paid, put, gone), Readable(nodes),
         NEW gain, GainBy(gain, paid, a), NodesSay(gain, paid, a, put, gone),
         NEW tx, tx.nodes = nodes, tx.account = a, tx.fee = 1, tx.ok = TRUE, tx.type = "OfferCreate"
  PROVE  ShowsGains(ChangesShown(tx), gain)
<1>1. PICK w : w = [c \in Currency |-> paid[Me][c] - balance[Me][c]]
  OBVIOUS
<1>2. PICK ch0 : ch0 = BalanceChanges(nodes)
  OBVIOUS
<1>3. \A c \in Currency : w[c] = paid[Me][c] - balance[Me][c]
  BY <1>1
<1>4. Counts(ch0, w, paid, a, put, gone)
  BY <1>2, <1>3, ChangesCounted
<1>5. \A c \in Currency : w[c] \in Int /\ paid[Me][c] \in Int /\ balance[Me][c] \in Int
  BY <1>1 DEF LedgerInv, Account
<1>6. \A c \in Currency : gain[c] \in Int /\ gain[c] = w[c] + (IF a = Me /\ c = Str THEN 1 ELSE 0)
  BY <1>3 DEF GainBy
<1>7. \A code : GainIn(gain, code) \in Int /\ GainIn(w, code) \in Int
  BY <1>5, <1>6, GainType
<1>8. ASSUME NEW c \in Currency, HasNode(c, a, paid, put, gone), a = Me => c # Str
      PROVE  gain[c] # 0
  <2>1. paid[Me][c] # balance[Me][c]
    <3>1. CASE c # Str
      BY <1>8, <3>1 DEF HasNode
    <3>2. CASE c = Str
      <4>1. PICK n : n = NodeOf(c, paid)
        OBVIOUS
      <4>2. n \in nodes
        <5>1. HoldingsAre(nodes, a, paid, put, gone)
          BY HoldingsHold
        <5> QED
          BY <1>8, <4>1, <5>1 DEF HoldingsAre
      <4>3. n.entry = "AccountRoot" /\ n.account = Me /\ n.prev = balance[Me][c] /\ n.final = paid[Me][c]
        BY <3>2, <4>1, NodeOfIs
      <4>4. ~ Unreadable(n)
        BY <4>2 DEF Readable
      <4> QED
        BY <4>3, <4>4 DEF Unreadable, Changed
    <3> QED
      BY <3>1, <3>2
  <2>2. PICK m \in Int, p \in Int : m = balance[Me][c] /\ p = paid[Me][c]
    BY <1>5
  <2>3. gain[c] = p - m
    <3>1. w[c] = p - m
      BY <1>3, <2>2
    <3>2. gain[c] = w[c] + 0
      BY <1>6, <1>8
    <3> QED
      BY <3>1, <3>2
  <2> QED
    BY <2>1, <2>2, <2>3
<1>9. \A code : code \in DOMAIN ch0 <=>
                  \E c \in Currency : HasNode(c, a, paid, put, gone) /\ Code[c] = code
  BY <1>4 DEF Counts
<1>10. \A code \in DOMAIN ch0 : ch0[code] = GainIn(w, code)
  BY <1>4 DEF Counts
<1>11. ASSUME NEW code, code \notin DOMAIN ch0
       PROVE  GainIn(gain, code) = 0
  <2>1. ASSUME NEW c \in OfCode(code) PROVE gain[c] = 0
    <3>1. c \in Currency /\ Code[c] = code
      BY DEF OfCode
    <3>2. ~ HasNode(c, a, paid, put, gone)
      BY <1>9, <1>11, <3>1
    <3> QED
      BY <3>1, <3>2 DEF NodesSay
  <2>2. \A c \in Currency : gain[c] \in Int
    BY <1>6
  <2> QED
    BY <2>1, <2>2, GainType
<1>12. CASE a # Me
  <2>1. ChangesShown(tx) = ch0
    BY <1>2, <1>12 DEF ChangesShown, TradeType
  <2>2. \A c \in Currency : w[c] = gain[c] /\ gain[c] \in Int
    BY <1>5, <1>6, <1>12
  <2>3. ASSUME NEW code PROVE GainIn(w, code) = GainIn(gain, code)
    <3>1. PICK S : S = OfCode(code)
      OBVIOUS
    <3>2. IsFiniteSet(S) /\ \A c \in S : gain[c] \in Int /\ w[c] = gain[c]
      BY <2>2, <3>1, GainType DEF OfCode
    <3> QED
      BY <3>1, <3>2, SumSame DEF GainIn
  <2>4. ASSUME NEW code \in DOMAIN ch0 PROVE \E c \in Currency : Code[c] = code /\ gain[c] # 0
    BY <1>8, <1>9, <1>12
  <2> QED
    BY <1>10, <1>11, <2>1, <2>3, <2>4 DEF ShowsGains
<1>13. CASE a = Me
  <2>1. ChangesShown(tx) = WithoutFee(ch0, 1)
    BY <1>2, <1>13 DEF ChangesShown, TradeType
  <2>2. HasNode(Str, a, paid, put, gone)
    BY <1>13 DEF HasNode, Touched
  <2>3. StrCode \in DOMAIN ch0
    BY <1>9, <2>2, MarketAssumption
  <2>4. PICK net : net = [ch0 EXCEPT ![StrCode] = @ + 1]
    OBVIOUS
  <2>5. ch0 = [code \in DOMAIN ch0 |-> ch0[code]]
    BY <1>4 DEF Counts
  <2>6. \A code : GainIn(gain, code) = GainIn(w, code) + (IF code = StrCode THEN 1 ELSE 0)
    <3>1. \A c \in Currency : w[c] \in Int
      BY <1>5
    <3>2. \A c \in Currency : gain[c] = w[c] + (IF c = Str THEN 1 ELSE 0)
      BY <1>6, <1>13
    <3> QED
      BY <3>1, <3>2, FeeAdded
  <2>7. DOMAIN net = DOMAIN ch0 /\ \A code \in DOMAIN ch0 : net[code] = GainIn(gain, code)
    <3>1. DOMAIN net = DOMAIN ch0
      BY <2>4, <2>5
    <3>2. ASSUME NEW code \in DOMAIN ch0 PROVE net[code] = GainIn(gain, code)
      <4>1. net[code] = IF code = StrCode THEN ch0[code] + 1 ELSE ch0[code]
        BY <2>3, <2>4, <2>5
      <4>2. ch0[code] = GainIn(w, code) /\ GainIn(w, code) \in Int
        BY <1>7, <1>10
      <4> QED
        BY <2>6, <4>1, <4>2
    <3> QED
      BY <3>1, <3>2
  <2>8. ASSUME NEW code \in DOMAIN ch0, code # StrCode \/ GainIn(gain, code) # 0
        PROVE  \E c \in Currency : Code[c] = code /\ gain[c] # 0
    <3>1. CASE GainIn(gain, code) # 0
      <4>1. \A c \in Currency : gain[c] \in Int
        BY <1>6
      <4>2. \E c \in OfCode(code) : gain[c] # 0
        BY <3>1, <4>1, GainType
      <4> QED
        BY <4>2 DEF OfCode
    <3>2. CASE code # StrCode
      <4>1. PICK c \in Currency : HasNode(c, a, paid, put, gone) /\ Code[c] = code
        BY <1>9
      <4>2. c # Str
        BY <3>2, <4>1, MarketAssumption
      <4> QED
        BY <1>8, <4>1, <4>2
    <3> QED
      BY <2>8, <3>1, <3>2
  <2>9. PICK ch : ch = ChangesShown(tx)
    OBVIOUS
  <2>10. ch = IF net[StrCode] = 0 THEN [c \in DOMAIN net \ {StrCode} |-> net[c]] ELSE net
    BY <2>1, <2>4, <2>9 DEF WithoutFee
  <2>11. CASE net[StrCode] = 0
    <3>1. DOMAIN ch = DOMAIN ch0 \ {StrCode} /\ \A code \in DOMAIN ch : ch[code] = net[code]
      BY <2>7, <2>10, <2>11
    <3>2. GainIn(gain, StrCode) = 0
      BY <2>3, <2>7, <2>11
    <3> QED
      BY <1>11, <2>7, <2>8, <2>9, <3>1, <3>2 DEF ShowsGains
  <2>12. CASE net[StrCode] # 0
    <3>1. ch = net
      BY <2>10, <2>12
    <3>2. GainIn(gain, StrCode) # 0
      BY <2>3, <2>7, <2>12
    <3> QED
      BY <1>11, <2>7, <2>8, <2>9, <3>1, <3>2 DEF ShowsGains
  <2> QED
    BY <2>11, <2>12
<1> QED
  BY <1>12, <1>13

LEMMA DirectionsAre ==
  ASSUME NEW U \in AllCodes, NEW V \in AllCodes
  PROVE  Directions[<<U, V>>] \in {<<U, V>>, <<V, U>>}
<1>1. PICK c : c = <<U, V>>
  OBVIOUS
<1>2. c \in AllCodes \X AllCodes
  BY <1>1
<1>3. Directions[c] = Normalize(c)
  BY <1>2 DEF Directions
<1>4. Normalize(c) \in {c, Invert(c)}
  BY DEF Normalize
<1>5. Invert(c) = <<V, U>>
  BY <1>1 DEF Invert
<1> QED
  BY <1>1, <1>3, <1>4, <1>5

(* A purchase or sale of m of U for n of V. *)
TradeSays(t, U, V, m, n) ==
  /\ \/ t.operation = "buy" /\ t.pair = <<U, V>> /\ t.base = m /\ t.counter = n
     \/ t.operation = "sell" /\ t.pair = <<V, U>> /\ t.base = n /\ t.counter = m
  /\ t.price[1] * t.base = t.price[2] * t.counter

LEMMA FriendlySays ==
  ASSUME NEW U, NEW V, U # V, NEW m \in Int, m > 0, NEW n \in Int, n > 0,
         NEW pair \in {<<U, V>>, <<V, U>>}
  PROVE  TradeSays(Friendly([pays |-> Amount(U, m), gets |-> Amount(V, n)], pair), U, V, m, n)
<1>1. PICK o : o = [pays |-> Amount(U, m), gets |-> Amount(V, n)]
  OBVIOUS
<1>2. o.pays.cur = U /\ o.pays.value = m /\ o.gets.cur = V /\ o.gets.value = n
  BY <1>1 DEF Amount
<1>3. PICK t : t = Friendly(o, pair)
  OBVIOUS
<1>4. t.base \in Int /\ t.base > 0 /\ t.counter \in Int /\ t.counter > 0
      /\ t.price = Price(t.counter, t.base)
  BY <1>2, <1>3, FriendlyIs
<1>5. t.price[1] * t.base = t.price[2] * t.counter
  BY <1>4, PriceIs
<1>6. CASE pair = <<U, V>>
  <2>1. OfferRole(o, pair) = "bid"
    BY <1>2, <1>6 DEF OfferRole
  <2>2. t.operation = "buy" /\ t.pair = <<U, V>> /\ t.base = m /\ t.counter = n
    BY <1>2, <1>3, <1>6, <2>1 DEF Friendly
  <2> QED
    BY <1>1, <1>3, <1>5, <2>2 DEF TradeSays
<1>7. CASE pair = <<V, U>>
  <2>1. OfferRole(o, pair) # "bid"
    <3>1. <<U, V>> # <<V, U>>
      OBVIOUS
    <3> QED
      BY <1>2, <1>7, <3>1 DEF OfferRole
  <2>2. t.operation = "sell" /\ t.pair = <<V, U>> /\ t.base = n /\ t.counter = m
    BY <1>2, <1>3, <1>7, <2>1 DEF Friendly
  <2> QED
    BY <1>1, <1>3, <1>5, <2>2 DEF TradeSays
<1> QED
  BY <1>6, <1>7

(* What the trade page makes of a readable transaction. *)
LEMMA TradeIs ==
  ASSUME NEW tx, tx.ok = TRUE, tx.type = "OfferCreate", Readable(tx.nodes),
         NEW gain, \A c \in Currency : gain[c] \in Int,
         NEW ch, ch = ChangesShown(tx), ShowsGains(ch, gain)
  PROVE  /\ (\E C : DOMAIN ch \subseteq {C}) => Trade(tx, Directions).shown # "trade"
         /\ \A U, V : Opposed(ch, gain, U, V) =>
              /\ Trade(tx, Directions).shown = "trade"
              /\ TradeSays(Trade(tx, Directions).trade, U, V, GainIn(gain, U), -GainIn(gain, V))
<1>1. PICK gained, given : gained = {c \in DOMAIN ch : ch[c] > 0} /\ given = DOMAIN ch \ gained
  OBVIOUS
<1>2. PICK pays, gets : pays = (CHOOSE c \in gained : TRUE) /\ gets = (CHOOSE c \in given : TRUE)
  OBVIOUS
<1>3. PICK dir : dir = Directions
  OBVIOUS
<1>4. PICK trade : trade = Friendly([pays |-> Amount(pays, ch[pays]), gets |-> Amount(gets, -ch[gets])],
                                    dir[<<pays, gets>>])
  OBVIOUS
<1>5. TradeType(tx) # "NOT_TRADE" /\ ~ \E n \in tx.nodes : Unreadable(n)
  BY DEF TradeType, Readable
<1>6. \/ (gained = {} \/ given = {}) /\ Trade(tx, dir).shown # "trade"
      \/ gained # {} /\ given # {} /\ Trade(tx, dir) = [shown |-> "trade", trade |-> trade]
  <2>1. Trade(tx, dir) =
          CASE TradeType(tx) = "OFFER_CREATE" /\ DOMAIN ch = {} -> [shown |-> "no"]
            [] gained = {} \/ given = {} -> [shown |-> "throws"]
            [] OTHER -> [shown |-> "trade", trade |-> trade]
    BY <1>1, <1>2, <1>4, <1>5 DEF Trade
  <2>2. CASE gained = {} \/ given = {}
    <3>1. Trade(tx, dir) = [shown |-> "no"] \/ Trade(tx, dir) = [shown |-> "throws"]
      BY <2>1, <2>2
    <3> QED
      BY <2>2, <3>1
  <2>3. CASE gained # {} /\ given # {}
    <3>1. DOMAIN ch # {}
      BY <1>1, <2>3
    <3> QED
      BY <2>1, <2>3, <3>1
  <2> QED
    BY <2>2, <2>3
<1>7. ASSUME NEW C, DOMAIN ch \subseteq {C}
      PROVE  Trade(tx, dir).shown # "trade"
  <2>1. gained = {} \/ given = {}
    BY <1>1, <1>7
  <2> QED
    BY <1>6, <2>1
<1>8. ASSUME NEW U, NEW V, Opposed(ch, gain, U, V)
      PROVE  /\ Trade(tx, dir).shown = "trade"
             /\ TradeSays(Trade(tx, dir).trade, U, V, GainIn(gain, U), -GainIn(gain, V))
  <2>1. /\ U \in AllCodes /\ V \in AllCodes /\ U # V /\ GainIn(gain, U) > 0 /\ GainIn(gain, V) < 0
        /\ \A code : code \in DOMAIN ch <=> code = U \/ code = V
    BY <1>8 DEF Opposed
  <2>2. PICK m \in Int, n \in Int : m = GainIn(gain, U) /\ n = -GainIn(gain, V)
    BY GainType
  <2>3. GainIn(gain, V) \in Int
    BY GainType
  <2>4. m > 0 /\ n > 0
    BY <2>1, <2>2, <2>3
  <2>5. ch[U] = m /\ ch[V] = GainIn(gain, V) /\ -ch[V] = n
    BY <2>1, <2>2 DEF ShowsGains
  <2>6. gained = {U} /\ given = {V}
    <3>1. ~ (ch[V] > 0)
      BY <2>1, <2>3, <2>5
    <3>2. gained = {U}
      BY <1>1, <2>1, <2>4, <2>5, <3>1
    <3>3. given = {V}
      BY <1>1, <2>1, <3>2
    <3> QED
      BY <3>2, <3>3
  <2>7. pays = U /\ gets = V
    BY <1>2, <2>6
  <2>8. PICK pair : pair = dir[<<U, V>>] /\ pair \in {<<U, V>>, <<V, U>>}
    BY <1>3, <2>1, DirectionsAre
  <2>9. trade = Friendly([pays |-> Amount(U, m), gets |-> Amount(V, n)], pair)
    BY <1>4, <2>5, <2>7, <2>8
  <2>10. TradeSays(trade, U, V, m, n)
    BY <2>1, <2>4, <2>8, <2>9, FriendlySays
  <2>11. Trade(tx, dir) = [shown |-> "trade", trade |-> trade]
    BY <1>6, <2>6
  <2> QED
    BY <2>2, <2>10, <2>11
<1> QED
  BY <1>3, <1>7, <1>8

-----------------------------------------------------------------------------
(* What TradesAreExchanges says of an outcome l. *)
TradeAddsUp(l) ==
  /\ l.type = "OfferCreate" /\ l.tx.ok /\ l.mine
  /\ \A n \in l.tx.nodes : ~Unreadable(n) /\ ~CreatesLine(n)
  =>
    LET gainOf(code) == SumFunctionOnSet(l.gain, {c \in Currency : Code[c] = code})
        gained == {c \in AllCodes : gainOf(c) > 0}
        given  == {c \in AllCodes : gainOf(c) < 0}
    IN  /\ (l.trade.shown = "trade") <=> (gained # {} /\ given # {})
        /\ l.trade.shown = "trade" =>
             LET t == l.trade.trade
                 sign == IF t.operation = "buy" THEN 1 ELSE -1
             IN  /\ gainOf(t.pair[1]) = sign * t.base
                 /\ gainOf(t.pair[2]) = -sign * t.counter
                 /\ t.price[1] * t.base = t.price[2] * t.counter

LEMMA OutcomeTx ==
  ASSUME NEW type, NEW a, NEW ok, NEW bal, NEW put, NEW gone,
         NEW l, IsOutcome(l, type, a, ok, bal, put, gone)
  PROVE  /\ l.tx.account = a /\ l.tx.fee = 1 /\ l.tx.ok = ok /\ l.tx.type = l.type
         /\ l.tx.nodes = Nodes(a, Pay(bal, a, Str, -Fee), put, gone)
<1>1. PICK nodes : nodes = Nodes(a, Pay(bal, a, Str, -Fee), put, gone)
  OBVIOUS
<1>2. l.tx = [type |-> type, account |-> a, fee |-> 1, ok |-> ok, nodes |-> nodes] /\ l.type = type
  BY <1>1 DEF IsOutcome, Fee
<1> QED
  BY <1>1, <1>2

LEMMA TradesFollow ==
  ASSUME LedgerInv, NEW type, NEW a, NEW ok, NEW bal, NEW put, NEW gone,
         Move(type, a, ok, bal, put, gone), NEW l, IsOutcome(l, type, a, ok, bal, put, gone)
  PROVE  TradeAddsUp(l)
<1>0. l.tx.ok = ok
  BY OutcomeTx
<1> DEFINE gainOf(code) == SumFunctionOnSet(l.gain, {c \in Currency : Code[c] = code})
           gained == {c \in AllCodes : gainOf(c) > 0}
           given  == {c \in AllCodes : gainOf(c) < 0}
           t == l.trade.trade
           sign == IF t.operation = "buy" THEN 1 ELSE -1
<1> SUFFICES ASSUME l.type = "OfferCreate", l.tx.ok, l.mine,
                    \A n \in l.tx.nodes : ~Unreadable(n) /\ ~CreatesLine(n)
             PROVE  /\ (l.trade.shown = "trade") <=> (gained # {} /\ given # {})
                    /\ l.trade.shown = "trade" =>
                         /\ gainOf(t.pair[1]) = sign * t.base
                         /\ gainOf(t.pair[2]) = -sign * t.counter
                         /\ t.price[1] * t.base = t.price[2] * t.counter
  BY Zenon DEF TradeAddsUp
<1>1. PICK paid, nodes : paid = Pay(bal, a, Str, -Fee) /\ nodes = Nodes(a, paid, put, gone)
  OBVIOUS
<1>2. PICK tx : tx = l.tx
  OBVIOUS
<1>3. tx.account = a /\ tx.fee = 1 /\ tx.ok = ok /\ tx.nodes = nodes /\ tx.type = "OfferCreate"
      /\ l.trade = Trade(tx, Directions)
  <2>1. l.tx.account = a /\ l.tx.fee = 1 /\ l.tx.type = l.type
        /\ l.tx.nodes = Nodes(a, Pay(bal, a, Str, -Fee), put, gone)
    BY OutcomeTx
  <2>2. l.tx.ok = ok
    BY <1>0
  <2>3. l.trade = Trade(l.tx, Directions)
    BY Zenon DEF IsOutcome
  <2> QED
    BY <1>1, <1>2, <2>1, <2>2, <2>3, Zenon
<1>4. PICK gain : gain = [c \in Currency |-> bal[Me][c] - balance[Me][c]] /\ l.gain = gain
  BY DEF IsOutcome
<1>5. GainBy(gain, paid, a) /\ NodesSay(gain, paid, a, put, gone)
  BY <1>1, <1>4, GainIs
<1>6. paid \in [Account -> [Currency -> Nat]] /\ a \in Account
  BY <1>1, PaidIs DEF Move
<1>7. ok = TRUE
  <2>1. ok \in BOOLEAN
    BY DEF Move, Idle
  <2> QED
    BY <1>2, <1>3, <2>1
<1>8. Readable(nodes)
  BY <1>2, <1>3 DEF Readable
<1>9. PICK ch : ch = ChangesShown(tx)
  OBVIOUS
<1>10. ShowsGains(ch, gain)
  BY <1>1, <1>3, <1>5, <1>6, <1>7, <1>8, <1>9, ShowsThem
<1>11. \A c \in Currency : gain[c] \in Int
  BY <1>5 DEF GainBy
<1>12. \A c \in Currency : gain[c] = bal[Me][c] - balance[Me][c]
  BY <1>4
<1>13. (\A c \in Currency : gain[c] = 0) \/ \E u, v : Shaped(gain, u, v)
  BY <1>12, GainShape
<1>14. (\E C : DOMAIN ch \subseteq {C}) \/ \E U, V : Opposed(ch, gain, U, V)
  BY <1>10, <1>11, <1>13, ShownShape
<1>15. \A code : gainOf(code) = GainIn(gain, code)
  BY <1>4 DEF GainIn, OfCode
<1> HIDE DEF gainOf
<1>16. PICK trade : trade = l.trade
  OBVIOUS
<1>17. ASSUME NEW C, DOMAIN ch \subseteq {C}
       PROVE  trade.shown # "trade" /\ (gained = {} \/ given = {})
  <2>1. trade.shown # "trade"
    BY <1>3, <1>7, <1>8, <1>9, <1>10, <1>11, <1>16, <1>17, TradeIs
  <2>2. \A code : code \notin DOMAIN ch => GainIn(gain, code) = 0
    BY <1>10 DEF ShowsGains
  <2>3. \A code : GainIn(gain, code) # 0 => code = C
    BY <1>17, <2>2
  <2>4. gained # {} => GainIn(gain, C) > 0
    BY <1>15, <2>3
  <2>5. given # {} => GainIn(gain, C) < 0
    BY <1>15, <2>3
  <2>6. GainIn(gain, C) \in Int
    BY <1>11, GainType
  <2> QED
    BY <2>1, <2>4, <2>5, <2>6
<1>18. ASSUME NEW U, NEW V, Opposed(ch, gain, U, V)
       PROVE  /\ trade.shown = "trade" /\ gained # {} /\ given # {}
              /\ TradeSays(trade.trade, U, V, GainIn(gain, U), -GainIn(gain, V))
  <2>1. U \in AllCodes /\ V \in AllCodes /\ GainIn(gain, U) > 0 /\ GainIn(gain, V) < 0
    BY <1>18 DEF Opposed
  <2>2. gained # {} /\ given # {}
    BY <1>15, <2>1
  <2> QED
    BY <1>3, <1>7, <1>8, <1>9, <1>10, <1>11, <1>16, <1>18, <2>2, TradeIs
<1>19. CASE \E C : DOMAIN ch \subseteq {C}
  BY <1>16, <1>17, <1>19
<1>20. ASSUME NEW U, NEW V, Opposed(ch, gain, U, V)
       PROVE  /\ (l.trade.shown = "trade") <=> (gained # {} /\ given # {})
              /\ gainOf(t.pair[1]) = sign * t.base
              /\ gainOf(t.pair[2]) = -sign * t.counter
              /\ t.price[1] * t.base = t.price[2] * t.counter
  <2>1. l.trade.shown = "trade" /\ gained # {} /\ given # {}
        /\ TradeSays(t, U, V, GainIn(gain, U), -GainIn(gain, V))
    BY <1>16, <1>18, <1>20
  <2>2. PICK m \in Int, n \in Int : m = GainIn(gain, U) /\ n = GainIn(gain, V)
    BY <1>11, GainType
  <2>3. gainOf(U) = m /\ gainOf(V) = n
    BY <1>15, <2>2
  <2>4. TradeSays(t, U, V, m, -n)
    BY <2>1, <2>2
  <2> HIDE DEF gained, given, t
  <2>5. gainOf(t.pair[1]) = sign * t.base /\ gainOf(t.pair[2]) = -sign * t.counter
    <3>1. CASE t.operation = "buy" /\ t.pair = <<U, V>> /\ t.base = m /\ t.counter = -n
      <4>1. sign = 1 /\ t.pair[1] = U /\ t.pair[2] = V
        BY <3>1
      <4> QED
        BY <2>2, <2>3, <3>1, <4>1
    <3>2. CASE t.operation = "sell" /\ t.pair = <<V, U>> /\ t.base = -n /\ t.counter = m
      <4>1. sign = -1 /\ t.pair[1] = V /\ t.pair[2] = U
        BY <3>2
      <4> QED
        BY <2>2, <2>3, <3>2, <4>1
    <3> QED
      BY <2>4, <3>1, <3>2 DEF TradeSays
  <2>6. t.price[1] * t.base = t.price[2] * t.counter
    BY <2>4 DEF TradeSays
  <2> QED
    BY <2>1, <2>5, <2>6
<1> QED
  BY <1>14, <1>19, <1>20

-----------------------------------------------------------------------------
(* What is known of the last transaction. *)
LEMMA TradesBegin ==
  ASSUME MarketInit
  PROVE  TradesAreExchanges
<1>1. last.type = "none"
  BY DEF MarketInit, NoTx
<1> QED
  BY <1>1 DEF TradesAreExchanges

LEMMA TradesKept ==
  ASSUME MarketInv, TradesAreExchanges, [MarketNext]_marketVars
  PROVE  TradesAreExchanges'
<1>1. LedgerInv
  BY DEF MarketInv
<1>2. TradeAddsUp(last)
  BY Zenon DEF TradesAreExchanges, TradeAddsUp, GainOf
<1>3. TradeAddsUp(last')
  <2>1. ASSUME last' = last PROVE TradeAddsUp(last')
    BY <1>2, <2>1
  <2>2. CASE UNCHANGED marketVars
    BY <2>1, <2>2 DEF marketVars
  <2>3. CASE Choose
    BY <2>1, <2>3 DEF Choose
  <2>4. CASE Subscribed
    BY <2>1, <2>4 DEF Subscribed
  <2>5. ASSUME NEW terms \in Orders, SubmitOffer(terms) PROVE TradeAddsUp(last')
    BY <2>1, <2>5 DEF SubmitOffer
  <2>6. CASE Moves
    <3>1. PICK type, a, ok, bal, put, gone :
            Move(type, a, ok, bal, put, gone) /\ Apply(type, a, ok, bal, put, gone)
      BY <2>6 DEF Moves
    <3>2. PICK l : l = last'
      OBVIOUS
    <3>3. IsOutcome(l, type, a, ok, bal, put, gone)
      BY <3>1, <3>2, OutcomeIs
    <3>4. TradeAddsUp(l)
      BY <1>1, <3>1, <3>3, TradesFollow
    <3> QED
      BY <3>2, <3>4
  <2> QED
    BY <2>2, <2>3, <2>4, <2>5, <2>6, StepsAre
<1>4. TradesAreExchanges' <=> TradeAddsUp(last')
  BY Zenon DEF TradesAreExchanges, TradeAddsUp, GainOf
<1> QED
  BY <1>3, <1>4

(* Of an offer of the account, or another's that took one of the account's, *)
(* the trade page shows a trade exactly when the account gained something   *)
(* and gave something, and then those amounts, the fee apart, at the price  *)
(* paid -- wherever the metadata is of the kinds it reads.                  *)
THEOREM TradesTrue == MarketSpec => []TradesAreExchanges
<1>1. MarketInit => TradesAreExchanges
  BY TradesBegin
<1>2. MarketInv /\ TradesAreExchanges /\ [MarketNext]_marketVars => TradesAreExchanges'
  BY TradesKept
<1> QED
  BY <1>1, <1>2, MarketHolds, PTL DEF MarketSpec

=============================================================================
