---------------------------- MODULE LedgerProofs ----------------------------
(***************************************************************************)
(* What the client keeps of the ledger, proved for every instance.         *)
(* Gateways: none is left pending without work, and one that is added has  *)
(* its trust lines, however batches overlap.  The trading page: the books, *)
(* the subscriptions and the account's offers are the ledger's once all    *)
(* that is on its way has come; the form shows the last offer's result.    *)
(***************************************************************************)
EXTENDS Gateways, TradingForm, FiniteSetTheorems, WellFoundedInduction, TLAPS

(* A job that will set the status of gateway d of wallet w. *)
Works(js, w, d) == \E j \in js : j.domain = d /\ j.kind = w[d] /\ j.mine
AllWork(js, w) == \A d \in Domain : StatusOf(w, d) \in Kind => Works(js, w, d)

LEMMA HasWork == PendingHasWork <=> load # "done" \/ AllWork(jobs, wallet)
BY DEF PendingHasWork, AllWork, Works, Pending

LEMMA HasWorkNext == PendingHasWork' <=> load' # "done" \/ AllWork(jobs', wallet')
BY DEF PendingHasWork, AllWork, Works, Pending

(* A batch takes up every pending gateway, whichever it was called for. *)
LEMMA SyncWorks ==
  ASSUME NEW w, NEW js, SyncTrustlines(w, js)
  PROVE  AllWork(jobs', w)
<1> SUFFICES ASSUME NEW d \in Domain, StatusOf(w, d) \in Kind
             PROVE  Works(jobs', w, d)
  BY DEF AllWork
<1>1. d \in DOMAIN w /\ w[d] \in Kind
  BY DEF StatusOf, Kind
<1>2. [batch |-> batches + 1, kind |-> w[d], domain |-> d, mine |-> TRUE,
       todo |-> CurrenciesOf[d]] \in jobs'
  BY <1>1 DEF SyncTrustlines, BatchJobs
<1> QED
  BY <1>2 DEF Works

(* What happens to one gateway leaves the others their work. *)
LEMMA OthersWork ==
  ASSUME NEW w, NEW js, NEW ws, NEW ks, NEW d,
         AllWork(js, w),
         StatusOf(ws, d) \notin Kind,
         \A e \in Domain \ {d} : StatusOf(ws, e) = StatusOf(w, e),
         \A j \in js : j.domain # d => j \in ks
  PROVE  AllWork(ks, ws)
<1> SUFFICES ASSUME NEW e \in Domain, StatusOf(ws, e) \in Kind
             PROVE  Works(ks, ws, e)
  BY DEF AllWork
<1>1. e # d /\ StatusOf(w, e) = StatusOf(ws, e)
  OBVIOUS
<1>2. w[e] = ws[e]
  BY <1>1 DEF StatusOf, Kind
<1>3. PICK j \in js : j.domain = e /\ j.kind = w[e] /\ j.mine
  BY <1>1 DEF AllWork, Works
<1> QED
  BY <1>1, <1>2, <1>3 DEF Works

LEMMA SetStatus ==
  ASSUME NEW w, NEW d, NEW s
  PROVE  /\ StatusOf(With(w, d, s), d) = s
         /\ \A e : e # d => StatusOf(With(w, d, s), e) = StatusOf(w, e)
BY DEF StatusOf, With

LEMMA UnsetStatus ==
  ASSUME NEW w, NEW d
  PROVE  /\ StatusOf(WithoutGateway(w, d), d) = "none"
         /\ \A e : e # d => StatusOf(WithoutGateway(w, d), e) = StatusOf(w, e)
BY DEF StatusOf, WithoutGateway

LEMMA DetachOthers ==
  ASSUME NEW js, NEW d
  PROVE  \A j \in js : j.domain # d => j \in Detach(js, d)
BY DEF Detach

-----------------------------------------------------------------------------
LEMMA ThroughWorks ==
  ASSUME AllWork(jobs, wallet), NEW j \in jobs, Through(j)
  PROVE  AllWork(jobs', wallet')
<1>1. CASE AddedGateway(j)
  <2>1. jobs' = jobs \ {j}
    BY <1>1 DEF AddedGateway, Settle
  <2>2. StatusOf(wallet', j.domain) \notin Kind
    <3>1. CASE j.domain \in DOMAIN wallet
      BY <1>1, <3>1, SetStatus DEF AddedGateway, Settle, Kind
    <3>2. CASE j.domain \notin DOMAIN wallet
      BY <1>1, <3>2 DEF AddedGateway, Settle, StatusOf, Kind
    <3> QED
      BY <3>1, <3>2
  <2>3. \A e \in Domain \ {j.domain} : StatusOf(wallet', e) = StatusOf(wallet, e)
    BY <1>1, SetStatus DEF AddedGateway, Settle
  <2> QED
    BY <2>1, <2>2, <2>3, OthersWork
<1>2. CASE RemovedGateway(j)
  <2>1. \A k \in jobs : k.domain # j.domain => k \in jobs'
    BY <1>2, DetachOthers DEF RemovedGateway, Settle
  <2>2. StatusOf(wallet', j.domain) \notin Kind
    BY <1>2, UnsetStatus DEF RemovedGateway, Settle, Kind
  <2>3. \A e \in Domain \ {j.domain} : StatusOf(wallet', e) = StatusOf(wallet, e)
    BY <1>2, UnsetStatus DEF RemovedGateway, Settle
  <2> QED
    BY <2>1, <2>2, <2>3, OthersWork
<1> QED
  BY <1>1, <1>2 DEF Through

(* A failed job marks the gateway it captured; if that is no longer the     *)
(* wallet's, another job is its work.                                       *)
LEMMA FailureWorks ==
  ASSUME AllWork(jobs, wallet), NEW j \in jobs, GatewayFailed(j)
  PROVE  AllWork(jobs', wallet')
<1>1. jobs' = jobs \ {j}
  BY DEF GatewayFailed, Settle
<1>2. CASE j.mine
  <2>1. PICK s \in {"add_failed", "removal_failed"} : wallet' = With(wallet, j.domain, s)
    BY <1>2 DEF GatewayFailed, Settle
  <2>2. StatusOf(wallet', j.domain) \notin Kind
    BY <2>1, SetStatus DEF Kind
  <2>3. \A e \in Domain \ {j.domain} : StatusOf(wallet', e) = StatusOf(wallet, e)
    BY <2>1, SetStatus
  <2> QED
    BY <1>1, <2>2, <2>3, OthersWork
<1>3. CASE ~j.mine
  <2>1. wallet' = wallet
    BY <1>3 DEF GatewayFailed, Settle
  <2> QED
    BY <1>1, <1>3, <2>1 DEF AllWork, Works
<1> QED
  BY <1>2, <1>3

LEMMA SucceedWorks ==
  ASSUME AllWork(jobs, wallet), NEW j \in jobs, NEW t, Succeed(j, t)
  PROVE  AllWork(jobs', wallet')
<1>1. CASE j.todo = {t.currency}
  BY <1>1, ThroughWorks DEF Succeed
<1>2. CASE j.todo # {t.currency}
  <2> DEFINE k == [j EXCEPT !.todo = @ \ {t.currency}]
  <2>1. wallet' = wallet /\ jobs' = (jobs \ {j}) \cup {k}
    BY <1>2 DEF Succeed
  <2>2. ASSUME NEW d \in Domain, Works(jobs, wallet, d)
        PROVE  Works(jobs', wallet, d)
    <3>1. PICK i \in jobs : i.domain = d /\ i.kind = wallet[d] /\ i.mine
      BY <2>2 DEF Works
    <3>2. CASE i # j
      BY <2>1, <3>1, <3>2 DEF Works
    <3>3. CASE i = j
      <4>1. k.domain = j.domain /\ k.kind = j.kind /\ k.mine = j.mine
        OBVIOUS
      <4> QED
        BY <2>1, <3>1, <3>3, <4>1 DEF Works
    <3> QED
      BY <3>2, <3>3
  <2> QED
    BY <2>1, <2>2 DEF AllWork
<1> QED
  BY <1>1, <1>2

LEMMA ForceRemoveWorks ==
  ASSUME AllWork(jobs, wallet), NEW d \in Domain, ForceRemove(d)
  PROVE  AllWork(jobs', wallet')
<1>1. wallet' = WithoutGateway(wallet, d) /\ jobs' = Detach(jobs, d)
  BY DEF ForceRemove
<1>2. StatusOf(wallet', d) \notin Kind
  BY <1>1, UnsetStatus DEF Kind
<1>3. \A e \in Domain \ {d} : StatusOf(wallet', e) = StatusOf(wallet, e)
  BY <1>1, UnsetStatus
<1>4. \A j \in jobs : j.domain # d => j \in jobs'
  BY <1>1, DetachOthers
<1> QED
  BY <1>2, <1>3, <1>4, OthersWork

-----------------------------------------------------------------------------
LEMMA InitHasWork == Init => PendingHasWork
BY DEF Init, PendingHasWork

LEMMA NextHasWork ==
  ASSUME PendingHasWork, [Next]_vars
  PROVE  PendingHasWork'
<1>1. CASE UNCHANGED vars
  BY <1>1 DEF vars, PendingHasWork, Pending
<1>2. ASSUME NEW d \in Domain, Add(d) \/ Remove(d)
      PROVE  PendingHasWork'
  <2>1. \E js : SyncTrustlines(wallet', js)
    BY <1>2 DEF Add, Remove
  <2> QED
    BY <2>1, SyncWorks, HasWorkNext
<1>3. ASSUME NEW d \in Domain, ForceRemove(d)
      PROVE  PendingHasWork'
  <2>1. load' = load
    BY <1>3 DEF ForceRemove
  <2> QED
    BY <1>3, <2>1, ForceRemoveWorks, HasWork, HasWorkNext
<1>4. CASE SaveElsewhere
  BY <1>4 DEF SaveElsewhere, PendingHasWork, Pending
<1>5. CASE LoadAccount
  <2>1. SyncTrustlines(wallet, jobs) /\ wallet' = wallet
    BY <1>5 DEF LoadAccount
  <2> QED
    BY <2>1, SyncWorks, HasWorkNext
<1>6. CASE LoadFails
  BY <1>6 DEF LoadFails, PendingHasWork
<1>7. CASE TrustSet
  <2>1. load' = load /\ \/ UNCHANGED <<wallet, jobs>>
                        \/ \E j \in jobs : Succeed(j, Head(txq))
    BY <1>7 DEF TrustSet, JobOf
  <2> QED
    BY <2>1, SucceedWorks, HasWork, HasWorkNext
<1>8. CASE TrustSetFails
  <2>1. load' = load /\ \/ UNCHANGED <<wallet, jobs>>
                        \/ \E j \in jobs : GatewayFailed(j)
    BY <1>8 DEF TrustSetFails, JobOf
  <2> QED
    BY <2>1, FailureWorks, HasWork, HasWorkNext
<1>9. CASE Reload
  BY <1>9 DEF Reload, PendingHasWork
<1> QED
  BY <1>1, <1>2, <1>3, <1>4, <1>5, <1>6, <1>7, <1>8, <1>9 DEF Next

(* Batches overlap, settle each other's gateways and are forgotten by       *)
(* reloads: a gateway that is pending has a job of its own object that will *)
(* set its status, or the account's load still starts one (gateways-        *)
(* service.js 21-130).                                                      *)
THEOREM WorkUnderWay == Spec => []PendingHasWork
<1>1. PendingHasWork /\ [Next]_vars => PendingHasWork'
  BY NextHasWork
<1> QED
  BY InitHasWork, <1>1, PTL DEF Spec

-----------------------------------------------------------------------------
(***************************************************************************)
(* Sequences without repetition, and how a set is put in order.            *)
(***************************************************************************)
Elements(q) == {q[i] : i \in DOMAIN q}
Distinct(q) == \A i, k \in DOMAIN q : q[i] = q[k] => i = k
Sorted(q) == \A i, k \in DOMAIN q : i < k => q[i].batch <= q[k].batch

(* SetToSeq lists a finite set, each element once. *)
LEMMA InOrder ==
  ASSUME NEW S, IsFiniteSet(S)
  PROVE  LET s == SeqExt!SetToSeq(S)
         IN  s \in Seq(S) /\ Elements(s) = S /\ Distinct(s)
<1> DEFINE n == Cardinality(S)
           s == SeqExt!SetToSeq(S)
<1>1. n \in Nat /\ ExistsBijection(1..n, S)
  BY FS_CardinalityType
<1>2. PICK f \in Bijection(1..n, S) : TRUE
  BY <1>1 DEF ExistsBijection
<1>3. f \in [1..n -> S] /\ SeqExt!IsInjective(f)
  BY <1>2 DEF Bijection, Injection, IsInjective, SeqExt!IsInjective
<1>4. s \in [1..n -> S] /\ SeqExt!IsInjective(s)
  <2>1. SeqExt!Cardinality(S) = Cardinality(S)
    BY DEF SeqExt!Cardinality, Cardinality
  <2> QED
    BY <1>3, <2>1 DEF SeqExt!SetToSeq
<1>5. s \in Injection(1..n, S)
  BY <1>4 DEF Injection, IsInjective, SeqExt!IsInjective
<1>6. s \in Surjection(1..n, S)
  <2>1. IsFiniteSet(1..n) /\ Cardinality(1..n) = n
    BY <1>1, FS_Interval
  <2> QED
    BY <1>5, <2>1, FS_Injection
<1> QED
  BY <1>1, <1>4, <1>6 DEF Surjection, SeqExt!IsInjective, Elements, Distinct

LEMMA Joined ==
  ASSUME NEW S, NEW q \in Seq(S), NEW r \in Seq(S),
         Distinct(q), Distinct(r), Elements(q) \cap Elements(r) = {}
  PROVE  /\ q \o r \in Seq(S) /\ Distinct(q \o r)
         /\ Elements(q \o r) = Elements(q) \cup Elements(r)
<1>1. /\ Len(q) \in Nat /\ Len(r) \in Nat /\ q \o r \in Seq(S)
      /\ DOMAIN q = 1..Len(q) /\ DOMAIN r = 1..Len(r)
      /\ DOMAIN (q \o r) = 1..Len(q) + Len(r)
      /\ \A i \in 1..Len(q) + Len(r) : (q \o r)[i] = IF i <= Len(q) THEN q[i] ELSE r[i - Len(q)]
  OBVIOUS
<1>2. Distinct(q \o r)
  <2> SUFFICES ASSUME NEW i \in 1..Len(q) + Len(r), NEW k \in 1..Len(q) + Len(r),
                      (q \o r)[i] = (q \o r)[k]
               PROVE  i = k
    BY <1>1 DEF Distinct
  <2>1. CASE i <= Len(q) /\ k <= Len(q)
    BY <1>1, <2>1 DEF Distinct
  <2>2. CASE i > Len(q) /\ k > Len(q)
    <3>1. r[i - Len(q)] = r[k - Len(q)] /\ i - Len(q) \in DOMAIN r /\ k - Len(q) \in DOMAIN r
      BY <1>1, <2>2
    <3> QED
      BY <1>1, <3>1 DEF Distinct
  <2>3. CASE i <= Len(q) /\ k > Len(q)
    <3>1. q[i] = r[k - Len(q)] /\ i \in DOMAIN q /\ k - Len(q) \in DOMAIN r
      BY <1>1, <2>3
    <3> QED
      BY <3>1 DEF Elements
  <2>4. CASE i > Len(q) /\ k <= Len(q)
    <3>1. r[i - Len(q)] = q[k] /\ k \in DOMAIN q /\ i - Len(q) \in DOMAIN r
      BY <1>1, <2>4
    <3> QED
      BY <3>1 DEF Elements
  <2> QED
    BY <1>1, <2>1, <2>2, <2>3, <2>4
<1>3. Elements(q \o r) \subseteq Elements(q) \cup Elements(r)
  <2> SUFFICES ASSUME NEW i \in 1..Len(q) + Len(r)
               PROVE  (q \o r)[i] \in Elements(q) \cup Elements(r)
    BY <1>1 DEF Elements
  <2>1. CASE i <= Len(q)
    BY <1>1, <2>1 DEF Elements
  <2>2. CASE i > Len(q)
    <3>1. (q \o r)[i] = r[i - Len(q)] /\ i - Len(q) \in DOMAIN r
      BY <1>1, <2>2
    <3> QED
      BY <3>1 DEF Elements
  <2> QED
    BY <1>1, <2>1, <2>2
<1>4. Elements(q) \subseteq Elements(q \o r)
  BY <1>1 DEF Elements
<1>5. Elements(r) \subseteq Elements(q \o r)
  <2> SUFFICES ASSUME NEW i \in DOMAIN r PROVE r[i] \in Elements(q \o r)
    BY DEF Elements
  <2>1. i + Len(q) \in DOMAIN (q \o r) /\ (q \o r)[i + Len(q)] = r[i]
    BY <1>1
  <2> QED
    BY <2>1 DEF Elements
<1> QED
  BY <1>1, <1>2, <1>3, <1>4, <1>5

LEMMA JoinedSorted ==
  ASSUME NEW S, NEW q \in Seq(S), NEW r \in Seq(S), NEW b \in Nat, Sorted(q),
         \A t \in S : t.batch \in Nat,
         \A t \in Elements(q) : t.batch <= b, \A t \in Elements(r) : t.batch = b
  PROVE  Sorted(q \o r)
<1>1. /\ Len(q) \in Nat /\ Len(r) \in Nat
      /\ DOMAIN q = 1..Len(q) /\ DOMAIN r = 1..Len(r)
      /\ DOMAIN (q \o r) = 1..Len(q) + Len(r)
      /\ \A i \in 1..Len(q) + Len(r) : (q \o r)[i] = IF i <= Len(q) THEN q[i] ELSE r[i - Len(q)]
  OBVIOUS
<1> SUFFICES ASSUME NEW i \in 1..Len(q) + Len(r), NEW k \in 1..Len(q) + Len(r), i < k
             PROVE  (q \o r)[i].batch <= (q \o r)[k].batch
  BY <1>1 DEF Sorted
<1>2. CASE k <= Len(q)
  BY <1>1, <1>2 DEF Sorted
<1>3. CASE k > Len(q)
  <2>1. (q \o r)[k].batch = b
    <3>1. (q \o r)[k] = r[k - Len(q)] /\ k - Len(q) \in DOMAIN r
      BY <1>1, <1>3
    <3> QED
      BY <3>1 DEF Elements
  <2>2. (q \o r)[i].batch <= b
    <3>1. CASE i <= Len(q)
      BY <1>1, <3>1 DEF Elements
    <3>2. CASE i > Len(q)
      <4>1. (q \o r)[i] = r[i - Len(q)] /\ i - Len(q) \in DOMAIN r
        BY <1>1, <3>2
      <4> QED
        BY <4>1 DEF Elements
    <3> QED
      BY <1>1, <3>1, <3>2
  <2> QED
    BY <2>1, <2>2
<1> QED
  BY <1>1, <1>2, <1>3

(* The first element of such a sequence, and what is left. *)
LEMMA FirstOut ==
  ASSUME NEW S, NEW q \in Seq(S), q # <<>>, Distinct(q), Sorted(q),
         \A t \in S : t.batch \in Nat
  PROVE  /\ Head(q) \in Elements(q) /\ Tail(q) \in Seq(S)
         /\ Elements(Tail(q)) = Elements(q) \ {Head(q)}
         /\ Distinct(Tail(q)) /\ Sorted(Tail(q))
         /\ \A t \in Elements(q) : Head(q).batch <= t.batch
<1>1. /\ Len(q) \in Nat \ {0} /\ DOMAIN q = 1..Len(q) /\ Head(q) = q[1]
      /\ Tail(q) \in Seq(S) /\ DOMAIN Tail(q) = 1..Len(q) - 1
      /\ \A i \in 1..Len(q) - 1 : Tail(q)[i] = q[i + 1]
  OBVIOUS
<1>2. Elements(Tail(q)) = Elements(q) \ {Head(q)}
  <2>1. ASSUME NEW i \in DOMAIN Tail(q)
        PROVE  Tail(q)[i] \in Elements(q) \ {Head(q)}
    <3>1. Tail(q)[i] = q[i + 1] /\ i + 1 \in DOMAIN q /\ 1 \in DOMAIN q /\ i + 1 # 1
      BY <1>1
    <3> QED
      BY <1>1, <3>1 DEF Elements, Distinct
  <2>2. ASSUME NEW i \in DOMAIN q, q[i] # Head(q)
        PROVE  q[i] \in Elements(Tail(q))
    <3>1. i - 1 \in DOMAIN Tail(q) /\ Tail(q)[i - 1] = q[i]
      BY <1>1, <2>2
    <3> QED
      BY <3>1 DEF Elements
  <2> QED
    BY <2>1, <2>2 DEF Elements
<1>3. Distinct(Tail(q))
  BY <1>1 DEF Distinct
<1>4. Sorted(Tail(q))
  <2> SUFFICES ASSUME NEW i \in DOMAIN Tail(q), NEW k \in DOMAIN Tail(q), i < k
               PROVE  Tail(q)[i].batch <= Tail(q)[k].batch
    BY DEF Sorted
  <2>1. /\ i + 1 \in DOMAIN q /\ k + 1 \in DOMAIN q /\ i + 1 < k + 1
        /\ Tail(q)[i] = q[i + 1] /\ Tail(q)[k] = q[k + 1]
    BY <1>1
  <2> QED
    BY <2>1 DEF Sorted
<1>5. ASSUME NEW t \in Elements(q)
      PROVE  Head(q).batch <= t.batch
  <2>1. PICK i \in DOMAIN q : t = q[i]
    BY DEF Elements
  <2>2. CASE i = 1
    <3>1. q[1] \in S
      BY <1>1
    <3> QED
      BY <1>1, <2>1, <2>2, <3>1
  <2>3. CASE i # 1
    <3>1. 1 \in DOMAIN q /\ 1 < i
      BY <1>1, <2>3
    <3> QED
      BY <1>1, <2>1, <3>1 DEF Sorted
  <2> QED
    BY <2>2, <2>3
<1>6. Head(q) \in Elements(q)
  <2>1. 1 \in DOMAIN q
    BY <1>1
  <2> QED
    BY <1>1, <2>1 DEF Elements
<1> QED
  BY <1>1, <1>2, <1>3, <1>4, <1>5, <1>6

LEMMA FirstSome ==
  ASSUME NEW S, NEW q \in Seq(S), NEW n \in 0..Len(q), Distinct(q), Sorted(q)
  PROVE  LET r == SubSeq(q, 1, n) IN
         /\ r \in Seq(S) /\ Distinct(r) /\ Sorted(r) /\ Elements(r) \subseteq Elements(q)
<1> DEFINE r == SubSeq(q, 1, n)
<1>1. /\ Len(q) \in Nat /\ DOMAIN q = 1..Len(q) /\ r \in Seq(S) /\ DOMAIN r = 1..n
      /\ \A i \in 1..n : r[i] = q[i]
  OBVIOUS
<1> HIDE DEF r
<1>2. Distinct(r)
  BY <1>1 DEF Distinct
<1>3. Sorted(r)
  BY <1>1 DEF Sorted
<1>4. Elements(r) \subseteq Elements(q)
  BY <1>1 DEF Elements
<1> QED
  BY <1>1, <1>2, <1>3, <1>4 DEF r


-----------------------------------------------------------------------------
(***************************************************************************)
(* The invariant, over the jobs js, the transactions Q that are queued,    *)
(* the wallet w, the trust lines tr and the gateways ls lost track of.     *)
(***************************************************************************)
Tx == {t \in [batch : Nat, kind : Kind, domain : Domain, currency : Currency] :
         t.currency \in CurrenciesOf[t.domain]}
Lines == {tr \in [Domain -> SUBSET Currency] : \A d \in Domain : tr[d] \subseteq CurrenciesOf[d]}
Queued == Elements(txq)
TxOf(j, c) == [batch |-> j.batch, kind |-> j.kind, domain |-> j.domain, currency |-> c]

QueueOK == /\ txq \in Seq(Tx) /\ Distinct(txq) /\ Sorted(txq)
           /\ \A t \in Queued : t.batch \in 1..batches

CountOK == /\ batches \in Nat /\ ops \in 0..MaxOps /\ reloads \in 0..MaxReloads
           /\ load \in {"waiting", "done", "failed"}
           /\ batches <= ops + reloads + (IF load = "waiting" THEN 0 ELSE 1)

JobsOK(js, b) ==
  /\ js \subseteq [batch : 1..b, kind : Kind, domain : Domain, mine : BOOLEAN,
                   todo : SUBSET Currency]
  /\ \A j, k \in js : j.batch = k.batch /\ j.domain = k.domain => j = k

(* The currencies to do are those whose transactions are queued; the first  *)
(* results come when nothing of an earlier batch is queued any more.        *)
Doing(j, Q, tr) ==
  /\ j.todo # {} /\ j.todo \subseteq CurrenciesOf[j.domain]
  /\ \A c \in CurrenciesOf[j.domain] : c \in j.todo <=> TxOf(j, c) \in Q
  /\ \A t \in Q : t.batch = j.batch /\ t.domain = j.domain => t.kind = j.kind
  /\ j.todo # CurrenciesOf[j.domain] => \A t \in Q : j.batch <= t.batch
  /\ j.kind = "adding" => CurrenciesOf[j.domain] \ j.todo \subseteq tr[j.domain]
AllDoing(js, Q, tr) == \A j \in js : Doing(j, Q, tr)

(* Whose object the job has captured: the wallet's, or one replaced by a    *)
(* gateway that a later batch has taken up or (before it has) is pending.   *)
MineOK(js, w) == \A j \in js : j.mine => j.domain \in DOMAIN w
Later(j, Q) == \E t \in Q : t.domain = j.domain /\ j.batch < t.batch
LaterOK(js, Q, w) ==
  \A j \in js : ~j.mine /\ j.domain \in DOMAIN w => Later(j, Q)
SoonOK(js, Q, w) ==
  \A j \in js : ~j.mine /\ j.domain \in DOMAIN w => Later(j, Q) \/ w[j.domain] \in Kind

(* What is queued for a gateway that has a job belongs to one, or an        *)
(* earlier batch than one.                                                  *)
LastOK(js, Q) ==
  \A j \in js : \A t \in Q : t.domain = j.domain =>
    \E k \in js : k.domain = j.domain /\ t.batch <= k.batch

About(Q, d) == \E t \in Q : t.domain = d
HasJob(js, d) == \E j \in js : j.domain = d
Added(js, Q, w, tr, d) ==
  StatusOf(w, d) = "added" => /\ About(Q, d) => HasJob(js, d)
                              /\ ~About(Q, d) => tr[d] = CurrenciesOf[d]
AddedOK(js, Q, w, tr, ls) == \A d \in Domain \ ls : Added(js, Q, w, tr, d)

LinesOK(js, b, Q, w, tr, ls) ==
  /\ JobsOK(js, b) /\ AllDoing(js, Q, tr) /\ MineOK(js, w)
  /\ LaterOK(js, Q, w) /\ LastOK(js, Q) /\ AddedOK(js, Q, w, tr, ls)

IInv == /\ wallet \in Wallets /\ saved \in Wallets /\ trust \in Lines /\ lost \subseteq Domain
        /\ QueueOK /\ CountOK
        /\ LinesOK(jobs, batches, Queued, wallet, trust, lost)

-----------------------------------------------------------------------------
NewTxs(w, b) == {t \in Tx : t.batch = b /\ t.domain \in DOMAIN w /\ t.kind = w[t.domain]}

LEMMA FiniteTxs ==
  ASSUME NEW w \in Wallets, NEW b, NEW kind
  PROVE  IsFiniteSet(BatchTxs(kind, w, b))
<1>1. IsFiniteSet({CurrenciesOf[d] : d \in Domain})
  <2> DEFINE f == [d \in Domain |-> CurrenciesOf[d]]
  <2>1. f \in Surjection(Domain, {CurrenciesOf[d] : d \in Domain})
    BY DEF Surjection
  <2> QED
    BY <2>1, FS_Surjection, GatewaysAssumption
<1>2. IsFiniteSet(Currency)
  BY <1>1, FS_UNION, GatewaysAssumption DEF Currency
<1>3. IsFiniteSet(Domain \X Currency)
  BY <1>2, FS_Product, GatewaysAssumption
<1> DEFINE T == BatchTxs(kind, w, b)
           g == [t \in T |-> <<t.domain, t.currency>>]
<1>4. g \in [T -> Domain \X Currency]
  BY DEF BatchTxs, Wallets
<1>5. \A s, t \in T : g[s] = g[t] => s = t
  BY DEF BatchTxs
<1> HIDE DEF g
<1>6. g \in Injection(T, Domain \X Currency)
  BY <1>4, <1>5 DEF Injection, IsInjective
<1> QED
  BY <1>3, <1>6, FS_Injection

LEMMA SyncEffect ==
  ASSUME NEW w \in Wallets, NEW js, batches \in Nat, QueueOK, SyncTrustlines(w, js)
  PROVE  \/ /\ \A d \in DOMAIN w : w[d] \notin Kind
            /\ jobs' = js /\ txq' = txq /\ batches' = batches
         \/ /\ batches' = batches + 1 /\ jobs' = js \cup BatchJobs(w, batches + 1)
            /\ txq' \in Seq(Tx) /\ Distinct(txq') /\ Sorted(txq')
            /\ Queued' = Queued \cup NewTxs(w, batches + 1)
<1>1. CASE \A d \in DOMAIN w : w[d] \notin Kind
  BY <1>1 DEF SyncTrustlines
<1>2. CASE ~\A d \in DOMAIN w : w[d] \notin Kind
  <2> DEFINE b == batches + 1
             R == BatchTxs("removing", w, b)
             A == BatchTxs("adding", w, b)
             r == SeqExt!SetToSeq(R)
             a == SeqExt!SetToSeq(A)
  <2>2. /\ batches' = b /\ txq' = txq \o r \o a
        /\ jobs' = js \cup BatchJobs(w, b)
    BY <1>2 DEF SyncTrustlines
  <2>4. r \in Seq(R) /\ Elements(r) = R /\ Distinct(r) /\ a \in Seq(A) /\ Elements(a) = A /\ Distinct(a)
    BY FiniteTxs, InOrder
  <2> HIDE DEF r, a
  <2>5. R \subseteq Tx /\ A \subseteq Tx /\ R \cap A = {} /\ R \cup A = NewTxs(w, b)
        /\ \A t \in R \cup A : t.batch = b
    BY DEF BatchTxs, NewTxs, Tx, Kind, Wallets
  <2> HIDE DEF R, A
  <2>6. r \in Seq(Tx) /\ a \in Seq(Tx)
    BY <2>4, <2>5
  <2>7. Queued \cap R = {} /\ Queued \cap A = {}
    BY <2>5 DEF QueueOK
  <2>8. /\ txq \o r \in Seq(Tx) /\ Distinct(txq \o r)
        /\ Elements(txq \o r) = Queued \cup R
    BY <2>4, <2>6, <2>7, Joined DEF QueueOK, Queued
  <2>9. (Queued \cup R) \cap A = {}
    BY <2>5, <2>7
  <2>10. /\ txq' \in Seq(Tx) /\ Distinct(txq')
         /\ Elements(txq') = Queued \cup R \cup A
    <3> DEFINE q == txq \o r
    <3>1. q \in Seq(Tx) /\ Distinct(q) /\ Elements(q) \cap Elements(a) = {}
      BY <2>4, <2>8, <2>9
    <3>2. Elements(q) = Queued \cup R /\ txq' = q \o a
      BY <2>2, <2>8
    <3> HIDE DEF q
    <3> QED
      BY <2>4, <2>6, <3>1, <3>2, Joined
  <2>11. \A t \in Tx : t.batch \in Nat
    BY DEF Tx
  <2>12. b \in Nat /\ \A t \in Queued : t.batch <= b
    BY DEF QueueOK
  <2>13. Sorted(txq \o r)
    BY <2>4, <2>5, <2>6, <2>11, <2>12, JoinedSorted DEF QueueOK, Queued
  <2>14. \A t \in Elements(txq \o r) : t.batch <= b
    BY <2>5, <2>8, <2>12
  <2>15. Sorted(txq')
    BY <2>2, <2>4, <2>5, <2>6, <2>8, <2>11, <2>12, <2>13, <2>14, JoinedSorted
  <2> QED
    BY <2>2, <2>5, <2>10, <2>15 DEF Queued
<1> QED
  BY <1>1, <1>2

-----------------------------------------------------------------------------
(* A batch is started: what it adds is of a number of its own. *)
LEMMA SyncKeeps ==
  ASSUME NEW w \in Wallets, NEW js, NEW tr, NEW ls, batches \in Nat,
         QueueOK, SyncTrustlines(w, js),
         JobsOK(js, batches), AllDoing(js, Queued, tr), MineOK(js, w),
         SoonOK(js, Queued, w), LastOK(js, Queued), AddedOK(js, Queued, w, tr, ls)
  PROVE  /\ QueueOK' /\ batches' \in {batches, batches + 1}
         /\ LinesOK(jobs', batches', Queued', w, tr, ls)
<1>1. CASE /\ \A d \in DOMAIN w : w[d] \notin Kind
           /\ jobs' = js /\ txq' = txq /\ batches' = batches
  <2>1. LaterOK(js, Queued, w)
    BY <1>1 DEF SoonOK, LaterOK
  <2>2. Queued' = Queued
    BY <1>1 DEF Queued
  <2>3. QueueOK'
    BY <1>1, <2>2 DEF QueueOK
  <2> QED
    BY <1>1, <2>1, <2>2, <2>3 DEF LinesOK
<1>2. CASE /\ batches' = batches + 1 /\ jobs' = js \cup BatchJobs(w, batches + 1)
           /\ txq' \in Seq(Tx) /\ Distinct(txq') /\ Sorted(txq')
           /\ Queued' = Queued \cup NewTxs(w, batches + 1)
  <2> DEFINE b == batches + 1
             J == BatchJobs(w, b)
             T == NewTxs(w, b)
  <2>1. /\ jobs' = js \cup J /\ Queued' = Queued \cup T /\ b \in Nat /\ batches' = b
        /\ DOMAIN w \subseteq Domain
    BY <1>2 DEF Wallets
  <2>2. \A j \in J : /\ j.batch = b /\ j.domain \in DOMAIN w /\ j.kind = w[j.domain]
                     /\ j.kind \in Kind /\ j.mine = TRUE
                     /\ j.todo = CurrenciesOf[j.domain]
    BY DEF BatchJobs
  <2>3. ASSUME NEW d \in DOMAIN w, w[d] \in Kind
        PROVE  \E j \in J : j.domain = d
    <3> DEFINE j == [batch |-> b, kind |-> w[d], domain |-> d, mine |-> TRUE,
                     todo |-> CurrenciesOf[d]]
    <3>1. j \in J
      BY <2>3 DEF BatchJobs
    <3> QED
      BY <3>1
  <2>4. \A t \in T : /\ t \in Tx /\ t.batch = b /\ t.domain \in DOMAIN w
                     /\ t.kind = w[t.domain]
    BY DEF NewTxs
  <2>5. \A d \in Domain : \A c \in CurrenciesOf[d] :
          d \in DOMAIN w /\ w[d] \in Kind =>
            [batch |-> b, kind |-> w[d], domain |-> d, currency |-> c] \in T
    BY <2>1 DEF NewTxs, Tx, Currency
  <2>6. \A j \in js : j.batch \in 1..batches /\ j.domain \in Domain /\ j.todo \subseteq Currency
    BY DEF JobsOK
  <2>7. \A t \in Queued : t.batch \in 1..batches
    BY DEF QueueOK
  <2>8. QueueOK'
    <3>1. \A t \in Queued' : t.batch \in 1..b
      BY <2>1, <2>4, <2>7
    <3> QED
      BY <1>2, <3>1 DEF QueueOK
  <2>9. JobsOK(jobs', b)
    <3>1. J \subseteq [batch : 1..b, kind : Kind, domain : Domain, mine : BOOLEAN,
                       todo : SUBSET Currency]
      <4> SUFFICES ASSUME NEW d \in DOMAIN w, w[d] \in Kind
                   PROVE  [batch |-> b, kind |-> w[d], domain |-> d, mine |-> TRUE,
                           todo |-> CurrenciesOf[d]]
                            \in [batch : 1..b, kind : Kind, domain : Domain, mine : BOOLEAN,
                                todo : SUBSET Currency]
        BY DEF BatchJobs
      <4>1. d \in Domain /\ b \in 1..b /\ CurrenciesOf[d] \subseteq Currency
        BY <2>1 DEF Currency
      <4> QED
        BY <4>1
    <3>2. js \subseteq [batch : 1..b, kind : Kind, domain : Domain, mine : BOOLEAN,
                        todo : SUBSET Currency]
      BY DEF JobsOK
    <3>3. \A j, k \in J : j.domain = k.domain => j = k
      <4>1. \A j \in J : j = [batch |-> b, kind |-> w[j.domain], domain |-> j.domain,
                             mine |-> TRUE, todo |-> CurrenciesOf[j.domain]]
        BY DEF BatchJobs
      <4> HIDE DEF J
      <4> QED
        BY <4>1
    <3>4. \A j \in js, k \in J : j.batch # k.batch
      BY <2>2, <2>6
    <3> HIDE DEF J
    <3> QED
      BY <2>1, <3>1, <3>2, <3>3, <3>4 DEF JobsOK
  <2> HIDE DEF J, T
  <2>10. AllDoing(jobs', Queued', tr)
    <3>1. ASSUME NEW j \in js
          PROVE  Doing(j, Queued', tr)
      <4>1. Doing(j, Queued, tr)
        BY DEF AllDoing
      <4>2. \A t \in T : t.batch # j.batch /\ j.batch <= t.batch
        BY <2>4, <2>6
      <4>3. \A c : TxOf(j, c) \notin T
        BY <4>2 DEF TxOf
      <4> QED
        BY <2>1, <4>1, <4>2, <4>3 DEF Doing
    <3>2. ASSUME NEW j \in J
          PROVE  Doing(j, Queued', tr)
      <4>1. j.domain \in Domain /\ j.domain \in DOMAIN w /\ w[j.domain] \in Kind /\ j.batch = b
        BY <2>1, <2>2
      <4>2. j.todo # {} /\ j.todo = CurrenciesOf[j.domain]
        BY <2>2, <4>1, GatewaysAssumption
      <4>3. \A c \in CurrenciesOf[j.domain] : TxOf(j, c) \in T
        BY <2>2, <2>5, <4>1 DEF TxOf
      <4>4. \A t \in Queued : t.batch # j.batch
        BY <2>7, <4>1
      <4> QED
        BY <2>1, <2>2, <2>4, <4>1, <4>2, <4>3, <4>4 DEF Doing
    <3> QED
      BY <2>1, <3>1, <3>2 DEF AllDoing
  <2>11. MineOK(jobs', w)
    BY <2>1, <2>2 DEF MineOK
  <2>12. LaterOK(jobs', Queued', w)
    <3> SUFFICES ASSUME NEW j \in jobs', ~j.mine, j.domain \in DOMAIN w
                 PROVE  Later(j, Queued')
      BY DEF LaterOK
    <3>1. j \in js
      BY <2>1, <2>2
    <3>2. CASE Later(j, Queued)
      BY <2>1, <3>2 DEF Later
    <3>3. CASE w[j.domain] \in Kind
      <4>1. j.domain \in Domain /\ j.batch < b
        BY <2>1, <2>6, <3>1
      <4>2. PICK c : c \in CurrenciesOf[j.domain]
        BY <4>1, GatewaysAssumption
      <4> DEFINE t == [batch |-> b, kind |-> w[j.domain], domain |-> j.domain, currency |-> c]
      <4>3. t \in T
        BY <2>5, <3>3, <4>1, <4>2
      <4>4. t.domain = j.domain /\ j.batch < t.batch
        BY <4>1
      <4> QED
        BY <2>1, <4>3, <4>4 DEF Later
    <3> QED
      BY <3>1, <3>2, <3>3 DEF SoonOK
  <2>13. LastOK(jobs', Queued')
    <3> SUFFICES ASSUME NEW j \in jobs', NEW t \in Queued', t.domain = j.domain
                 PROVE  \E k \in jobs' : k.domain = j.domain /\ t.batch <= k.batch
      BY DEF LastOK
    <3>1. CASE j \in js /\ t \in Queued
      BY <2>1, <3>1 DEF LastOK
    <3>2. CASE j \in J /\ t \in Queued
      BY <2>1, <2>2, <2>7, <3>2
    <3>3. CASE t \in T
      <4>1. w[t.domain] \in Kind /\ t.batch = b
        BY <2>4, <3>3 DEF Tx
      <4>2. PICK k \in J : k.domain = t.domain
        BY <2>3, <2>4, <3>3, <4>1
      <4> QED
        BY <2>1, <2>2, <4>1, <4>2
    <3> QED
      BY <2>1, <3>1, <3>2, <3>3
  <2>14. AddedOK(jobs', Queued', w, tr, ls)
    <3> SUFFICES ASSUME NEW d \in Domain \ ls, StatusOf(w, d) = "added"
                 PROVE  /\ About(Queued', d) => HasJob(jobs', d)
                        /\ ~About(Queued', d) => tr[d] = CurrenciesOf[d]
      BY DEF AddedOK, Added
    <3>1. \A t \in T : t.domain # d
      BY <2>4 DEF StatusOf, Tx, Kind
    <3>2. About(Queued', d) <=> About(Queued, d)
      BY <2>1, <3>1 DEF About
    <3>3. HasJob(js, d) => HasJob(jobs', d)
      BY <2>1 DEF HasJob
    <3> QED
      BY <3>2, <3>3 DEF AddedOK, Added
  <2> QED
    BY <2>1, <2>8, <2>9, <2>10, <2>11, <2>12, <2>13, <2>14 DEF LinesOK
<1> QED
  BY <1>1, <1>2, SyncEffect

-----------------------------------------------------------------------------
(***************************************************************************)
(* A result: the first transaction t leaves the queue, and tr becomes the  *)
(* trust lines.                                                            *)
(***************************************************************************)
Result(t, tr) ==
  /\ t \in Queued /\ Queued' = Queued \ {t}
  /\ \A s \in Queued : t.batch <= s.batch
  /\ tr \in Lines
  /\ \A d \in Domain : d # t.domain => tr[d] = trust[d]
  /\ t.kind = "adding" => trust[t.domain] \subseteq tr[t.domain]

(* No job is of an earlier batch: its own transactions would come first. *)
LEMMA NoneBefore ==
  ASSUME IInv, NEW t, NEW tr, Result(t, tr), NEW j \in jobs
  PROVE  /\ t \in Tx /\ t.batch \in Nat /\ j.batch \in Nat /\ j.domain \in Domain
         /\ t.batch <= j.batch
         /\ j \notin JobOf(t) => j.batch # t.batch \/ j.domain # t.domain
<1>1. t \in Tx /\ Queued \subseteq Tx
  BY DEF Result, IInv, QueueOK, Elements, Queued
<1>2. j \in [batch : 1..batches, kind : Kind, domain : Domain, mine : BOOLEAN,
             todo : SUBSET Currency] /\ batches \in Nat
  BY DEF IInv, LinesOK, JobsOK, CountOK
<1>3. PICK c \in j.todo : TxOf(j, c) \in Queued
  BY DEF IInv, LinesOK, AllDoing, Doing
<1>4. t.batch <= TxOf(j, c).batch
  BY <1>3 DEF Result
<1> QED
  BY <1>1, <1>2, <1>4 DEF TxOf, JobOf, Tx

(* The job that a transaction is of has it to do. *)
LEMMA OwnJob ==
  ASSUME IInv, NEW t, NEW tr, Result(t, tr), NEW j \in JobOf(t)
  PROVE  /\ j \in jobs /\ j.batch = t.batch /\ j.domain = t.domain /\ j.kind = t.kind
         /\ t = TxOf(j, t.currency) /\ t.currency \in j.todo
         /\ \A s \in Queued : s.batch = j.batch /\ s.domain = j.domain =>
              s = TxOf(j, s.currency) /\ s.currency \in j.todo
         /\ \A k \in jobs \ {j} : k.domain = j.domain => j.batch < k.batch
<1>1. j \in jobs /\ j.batch = t.batch /\ j.domain = t.domain
  BY DEF JobOf
<1>2. Doing(j, Queued, trust)
  BY <1>1 DEF IInv, LinesOK, AllDoing
<1>3. \A s \in Queued : s.batch = j.batch /\ s.domain = j.domain =>
        s = TxOf(j, s.currency) /\ s.currency \in j.todo
  <2> SUFFICES ASSUME NEW s \in Queued, s.batch = j.batch, s.domain = j.domain
               PROVE  s = TxOf(j, s.currency) /\ s.currency \in j.todo
    OBVIOUS
  <2>1. s \in Tx /\ s.kind = j.kind
    BY <1>2 DEF Doing, IInv, QueueOK, Elements, Queued
  <2>2. s = TxOf(j, s.currency)
    BY <2>1 DEF Tx, TxOf
  <2>3. s.currency \in CurrenciesOf[j.domain]
    BY <2>1 DEF Tx
  <2> QED
    BY <1>2, <2>2, <2>3 DEF Doing
<1>4. ASSUME NEW k \in jobs \ {j}, k.domain = j.domain
      PROVE  j.batch < k.batch
  <2>1. k.batch # j.batch
    BY <1>1, <1>4 DEF IInv, LinesOK, JobsOK
  <2>2. t.batch <= k.batch /\ t.batch \in Nat /\ k.batch \in Nat
    BY NoneBefore
  <2> QED
    BY <1>1, <2>1, <2>2
<1>5. t \in Queued /\ t.kind = j.kind
  BY <1>1, <1>2 DEF Result, Doing
<1> QED
  BY <1>1, <1>3, <1>4, <1>5

(* The jobs it is not of go on as they did. *)
LEMMA OthersDoing ==
  ASSUME IInv, NEW t, NEW tr, Result(t, tr), NEW j \in jobs, j \notin JobOf(t)
  PROVE  Doing(j, Queued', tr)
<1>1. Doing(j, Queued, trust) /\ Queued' = Queued \ {t}
  BY DEF IInv, LinesOK, AllDoing, Result
<1>2. \A c : TxOf(j, c) # t
  BY DEF TxOf, JobOf
<1>3. t.batch < j.batch \/ j.domain # t.domain
  BY NoneBefore
<1>4. j.kind = "adding" => CurrenciesOf[j.domain] \ j.todo \subseteq tr[j.domain]
  <2>1. CASE j.domain # t.domain
    <3>1. tr[j.domain] = trust[j.domain]
      BY <2>1, NoneBefore DEF Result
    <3> QED
      BY <1>1, <3>1 DEF Doing
  <2>2. CASE t.batch < j.batch
    <3>1. j.todo = CurrenciesOf[j.domain]
      <4>1. t \in Queued /\ t.batch \in Nat /\ j.batch \in Nat
        BY NoneBefore DEF Result
      <4> QED
        BY <1>1, <2>2, <4>1 DEF Doing
    <3> QED
      BY <3>1
  <2> QED
    BY <1>3, <2>1, <2>2
<1> QED
  BY <1>1, <1>2, <1>4 DEF Doing

LEMMA StillLater ==
  ASSUME IInv, NEW t, NEW tr, Result(t, tr), NEW j \in jobs, Later(j, Queued)
  PROVE  Later(j, Queued')
<1>1. PICK s \in Queued : s.domain = j.domain /\ j.batch < s.batch
  BY DEF Later
<1>2. s # t
  <2>1. t.batch <= j.batch /\ t.batch \in Nat /\ j.batch \in Nat
    BY NoneBefore
  <2> QED
    BY <1>1, <2>1
<1> QED
  BY <1>1, <1>2 DEF Result, Later

LEMMA StillAdded ==
  ASSUME IInv, NEW t, NEW tr, Result(t, tr), NEW js, NEW w, NEW d \in Domain \ lost,
         d # t.domain, StatusOf(w, d) = StatusOf(wallet, d),
         \A j \in jobs : j.domain = d => j \in js \/ [j EXCEPT !.mine = FALSE] \in js
  PROVE  Added(js, Queued', w, tr, d)
<1>1. Added(jobs, Queued, wallet, trust, d)
  BY DEF IInv, LinesOK, AddedOK
<1>2. tr[d] = trust[d]
  BY DEF Result
<1>3. About(Queued', d) <=> About(Queued, d)
  BY DEF Result, About
<1>4. HasJob(jobs, d) => HasJob(js, d)
  <2> SUFFICES ASSUME NEW j \in jobs, j.domain = d
               PROVE  \E k \in js : k.domain = d
    BY DEF HasJob
  <2>1. [j EXCEPT !.mine = FALSE].domain = d
    OBVIOUS
  <2> QED
    BY <2>1
<1> QED
  BY <1>1, <1>2, <1>3, <1>4 DEF Added

(* A result that no job waits for. *)
LEMMA NobodysResult ==
  ASSUME IInv, NEW t, NEW tr, Result(t, tr), JobOf(t) = {}
  PROVE  LinesOK(jobs, batches, Queued', wallet, tr, lost)
<1>1. AllDoing(jobs, Queued', tr)
  BY OthersDoing DEF AllDoing
<1>2. LaterOK(jobs, Queued', wallet)
  BY StillLater DEF IInv, LinesOK, LaterOK
<1>3. LastOK(jobs, Queued')
  BY DEF IInv, LinesOK, LastOK, Result
<1>4. ASSUME NEW d \in Domain \ lost
      PROVE  Added(jobs, Queued', wallet, tr, d)
  <2>1. CASE d # t.domain
    BY <2>1, StillAdded
  <2>2. CASE d = t.domain
    <3> SUFFICES ASSUME StatusOf(wallet, d) = "added"
                 PROVE  HasJob(jobs, d) /\ About(Queued', d)
      BY DEF Added
    <3>1. About(Queued, d)
      BY <2>2 DEF About, Result
    <3>2. PICK j \in jobs : j.domain = d
      BY <3>1 DEF IInv, LinesOK, AddedOK, Added, HasJob
    <3>3. PICK c \in j.todo : TxOf(j, c) \in Queued'
      BY OthersDoing DEF Doing
    <3>4. TxOf(j, c).domain = d
      BY <3>2 DEF TxOf
    <3> QED
      BY <3>2, <3>3, <3>4 DEF HasJob, About
  <2> QED
    BY <2>1, <2>2
<1> QED
  BY <1>1, <1>2, <1>3, <1>4 DEF IInv, LinesOK, AddedOK

-----------------------------------------------------------------------------
(* Jobs whose gateway object is the wallet's no longer, or another. *)
LEMMA DetachShape ==
  ASSUME NEW b, NEW js, JobsOK(js, b), NEW d
  PROVE  /\ \A k \in Detach(js, d) : \E j \in js :
              /\ k = [j EXCEPT !.mine = k.mine] /\ k.mine \in BOOLEAN
              /\ k.batch = j.batch /\ k.kind = j.kind /\ k.domain = j.domain /\ k.todo = j.todo
              /\ k.domain = d => ~k.mine
              /\ k.domain # d => k = j
         /\ \A j \in js : \E k \in Detach(js, d) : k.domain = j.domain /\ k.batch = j.batch
         /\ \A j \in js : j.domain = d => [j EXCEPT !.mine = FALSE] \in Detach(js, d)
         /\ \A j \in js : j.domain # d => j \in Detach(js, d)
<1>1. \A j \in js : j \in [batch : 1..b, kind : Kind, domain : Domain, mine : BOOLEAN,
                           todo : SUBSET Currency]
  BY DEF JobsOK
<1>2. ASSUME NEW k \in Detach(js, d)
      PROVE  \E j \in js :
              /\ k = [j EXCEPT !.mine = k.mine] /\ k.mine \in BOOLEAN
              /\ k.batch = j.batch /\ k.kind = j.kind /\ k.domain = j.domain /\ k.todo = j.todo
              /\ k.domain = d => ~k.mine
              /\ k.domain # d => k = j
  <2>1. PICK j \in js : k = IF j.domain = d THEN [j EXCEPT !.mine = FALSE] ELSE j
    BY DEF Detach
  <2> QED
    BY <1>1, <2>1
<1>3. \A j \in js : j.domain = d => [j EXCEPT !.mine = FALSE] \in Detach(js, d)
  BY DEF Detach
<1>4. \A j \in js : j.domain # d => j \in Detach(js, d)
  BY DEF Detach
<1>5. ASSUME NEW j \in js
      PROVE  \E k \in Detach(js, d) : k.domain = j.domain /\ k.batch = j.batch
  <2>1. [j EXCEPT !.mine = FALSE].domain = j.domain /\ [j EXCEPT !.mine = FALSE].batch = j.batch
    OBVIOUS
  <2> QED
    BY <1>3, <1>4, <2>1
<1> QED
  BY <1>2, <1>3, <1>4, <1>5

LEMMA DetachKeeps ==
  ASSUME NEW b, NEW js, JobsOK(js, b), NEW d, NEW Q, NEW tr,
         AllDoing(js, Q, tr), LastOK(js, Q)
  PROVE  /\ JobsOK(Detach(js, d), b) /\ AllDoing(Detach(js, d), Q, tr)
         /\ LastOK(Detach(js, d), Q)
<1> DEFINE D == Detach(js, d)
<1>1. /\ \A k \in D : \E j \in js :
           /\ k = [j EXCEPT !.mine = k.mine] /\ k.mine \in BOOLEAN
           /\ k.batch = j.batch /\ k.kind = j.kind /\ k.domain = j.domain /\ k.todo = j.todo
           /\ k.domain = d => ~k.mine
           /\ k.domain # d => k = j
      /\ \A j \in js : \E k \in D : k.domain = j.domain /\ k.batch = j.batch
  BY DetachShape
<1> HIDE DEF D
<1>2. JobsOK(D, b)
  <2>1. D \subseteq [batch : 1..b, kind : Kind, domain : Domain, mine : BOOLEAN,
                     todo : SUBSET Currency]
    <3> SUFFICES ASSUME NEW k \in D
                 PROVE  k \in [batch : 1..b, kind : Kind, domain : Domain, mine : BOOLEAN,
                               todo : SUBSET Currency]
      OBVIOUS
    <3>1. PICK j \in js : k = [j EXCEPT !.mine = k.mine] /\ k.mine \in BOOLEAN
      BY <1>1
    <3>2. j \in [batch : 1..b, kind : Kind, domain : Domain, mine : BOOLEAN,
                 todo : SUBSET Currency]
      BY DEF JobsOK
    <3> QED
      BY <3>1, <3>2
  <2>2. ASSUME NEW k \in D, NEW l \in D, k.batch = l.batch, k.domain = l.domain
        PROVE  k = l
    <3>1. PICK i \in js : /\ k = [i EXCEPT !.mine = k.mine] /\ k.batch = i.batch
                          /\ k.domain = i.domain /\ (k.domain = d => ~k.mine)
                          /\ k.mine \in BOOLEAN /\ (k.domain # d => k = i)
      BY <1>1
    <3>2. PICK j \in js : /\ l = [j EXCEPT !.mine = l.mine] /\ l.batch = j.batch
                          /\ l.domain = j.domain /\ (l.domain = d => ~l.mine)
                          /\ l.mine \in BOOLEAN /\ (l.domain # d => l = j)
      BY <1>1
    <3>3. i = j
      <4>1. i.batch = j.batch /\ i.domain = j.domain
        BY <2>2, <3>1, <3>2
      <4> QED
        BY <4>1 DEF JobsOK
    <3>4. CASE k.domain = d
      <4>1. k.mine = l.mine
        BY <2>2, <3>1, <3>2, <3>4
      <4> QED
        BY <3>1, <3>2, <3>3, <4>1
    <3>5. CASE k.domain # d
      BY <2>2, <3>1, <3>2, <3>3, <3>5
    <3> QED
      BY <3>4, <3>5
  <2> QED
    BY <2>1, <2>2 DEF JobsOK
<1>3. ASSUME NEW k \in D
      PROVE  Doing(k, Q, tr)
  <2>1. PICK j \in js : k.batch = j.batch /\ k.kind = j.kind /\ k.domain = j.domain /\ k.todo = j.todo
    BY <1>1
  <2>2. Doing(j, Q, tr) /\ \A c : TxOf(k, c) = TxOf(j, c)
    BY <2>1 DEF AllDoing, TxOf
  <2> QED
    BY <2>1, <2>2 DEF Doing
<1>4. LastOK(D, Q)
  <2> SUFFICES ASSUME NEW k \in D, NEW t \in Q, t.domain = k.domain
               PROVE  \E l \in D : l.domain = k.domain /\ t.batch <= l.batch
    BY DEF LastOK
  <2>1. PICK j \in js : k.domain = j.domain
    BY <1>1
  <2>2. PICK i \in js : i.domain = k.domain /\ t.batch <= i.batch
    BY <2>1 DEF LastOK
  <2> QED
    BY <1>1, <2>2
<1> QED
  BY <1>2, <1>3, <1>4 DEF AllDoing, D

LEMMA DetachMine ==
  ASSUME NEW b, NEW js, JobsOK(js, b), NEW d, NEW w, MineOK(js, w), NEW v,
         DOMAIN w \ {d} \subseteq DOMAIN v
  PROVE  MineOK(Detach(js, d), v)
<1> SUFFICES ASSUME NEW k \in Detach(js, d), k.mine
             PROVE  k.domain \in DOMAIN v
  BY DEF MineOK
<1>1. PICK j \in js : (k.domain = d => ~k.mine) /\ (k.domain # d => k = j)
  BY DetachShape
<1> QED
  BY <1>1 DEF MineOK

(* Statuses of the wallet. *)
LEMMA WithWallet ==
  ASSUME NEW w \in Wallets, NEW d \in Domain, NEW s \in Status
  PROVE  With(w, d, s) \in Wallets /\ DOMAIN With(w, d, s) = DOMAIN w \cup {d}
<1>1. PICK ds \in SUBSET Domain : w \in [ds -> Status]
  BY DEF Wallets
<1>2. With(w, d, s) \in [ds \cup {d} -> Status] /\ ds \cup {d} \in SUBSET Domain
  BY <1>1 DEF With
<1> QED
  BY <1>1, <1>2 DEF Wallets

LEMMA WithoutWallet ==
  ASSUME NEW w \in Wallets, NEW d
  PROVE  WithoutGateway(w, d) \in Wallets /\ DOMAIN WithoutGateway(w, d) = DOMAIN w \ {d}
<1>1. PICK ds \in SUBSET Domain : w \in [ds -> Status]
  BY DEF Wallets
<1>2. WithoutGateway(w, d) \in [ds \ {d} -> Status] /\ ds \ {d} \in SUBSET Domain
  BY <1>1 DEF WithoutGateway
<1> QED
  BY <1>1, <1>2 DEF Wallets

-----------------------------------------------------------------------------
(* A job that is done, or failed, leaves the others as they should be. *)
LEMMA OneSettled ==
  ASSUME IInv, NEW t, NEW tr, Result(t, tr), NEW j \in JobOf(t)
  PROVE  /\ JobsOK(jobs \ {j}, batches) /\ AllDoing(jobs \ {j}, Queued', tr)
         /\ LastOK(jobs \ {j}, Queued') /\ MineOK(jobs \ {j}, wallet)
         /\ LaterOK(jobs \ {j}, Queued', wallet)
<1>1. JobsOK(jobs \ {j}, batches) /\ MineOK(jobs \ {j}, wallet)
  BY DEF IInv, LinesOK, JobsOK, MineOK
<1>2. ASSUME NEW k \in jobs \ {j}
      PROVE  Doing(k, Queued', tr)
  <2>1. k \notin JobOf(t)
    BY OwnJob DEF JobOf, IInv, LinesOK, JobsOK
  <2> QED
    BY <2>1, OthersDoing
<1>3. ASSUME NEW k \in jobs \ {j}, NEW s \in Queued', s.domain = k.domain
      PROVE  \E l \in jobs \ {j} : l.domain = k.domain /\ s.batch <= l.batch
  <2>1. PICK l \in jobs : l.domain = k.domain /\ s.batch <= l.batch
    BY <1>3 DEF IInv, LinesOK, LastOK, Result
  <2>2. CASE l # j
    BY <2>1, <2>2
  <2>3. CASE l = j
    <3>1. j.batch < k.batch
      BY <2>1, <2>3, OwnJob
    <3>2. j.batch \in Nat /\ k.batch \in Nat /\ s.batch \in Nat
      <4>1. s \in Tx
        BY DEF Result, IInv, QueueOK, Elements, Queued
      <4> QED
        BY <4>1, NoneBefore, OwnJob DEF Tx
    <3>3. s.batch <= k.batch
      BY <2>1, <2>3, <3>1, <3>2
    <3> QED
      BY <3>3
  <2> QED
    BY <2>2, <2>3
<1>4. LaterOK(jobs \ {j}, Queued', wallet)
  BY StillLater DEF IInv, LinesOK, LaterOK
<1> QED
  BY <1>1, <1>2, <1>3, <1>4 DEF AllDoing, LastOK

(* A later transaction of the gateway has a job that is not the one settled. *)
LEMMA OthersHaveJob ==
  ASSUME IInv, NEW t, NEW tr, Result(t, tr), NEW j \in JobOf(t),
         NEW s \in Queued, s.domain = j.domain, j.batch < s.batch
  PROVE  HasJob(jobs \ {j}, j.domain)
<1>1. PICK k \in jobs : k.domain = j.domain /\ s.batch <= k.batch
  BY OwnJob DEF IInv, LinesOK, LastOK
<1>2. s \in Tx /\ j.batch \in Nat /\ k.batch \in Nat
  BY NoneBefore, OwnJob DEF IInv, QueueOK, Elements, Queued
<1>3. k # j
  BY <1>1, <1>2 DEF Tx
<1> QED
  BY <1>1, <1>3 DEF HasJob

LEMMA AddedKeeps ==
  ASSUME IInv, NEW t, NEW tr, Result(t, tr), NEW j \in JobOf(t),
         j.todo = {t.currency}, j.kind = "adding", t.currency \in tr[t.domain],
         AddedGateway(j)
  PROVE  LinesOK(jobs', batches, Queued', wallet', tr, lost) /\ wallet' \in Wallets
<1> DEFINE d == j.domain
<1>1. /\ j \in jobs /\ j.batch = t.batch /\ d = t.domain /\ d \in Domain
      /\ j.kind = t.kind
  BY OwnJob, NoneBefore
<1>2. /\ jobs' = jobs \ {j}
      /\ wallet' = IF d \in DOMAIN wallet THEN With(wallet, d, "added") ELSE wallet
  BY DEF AddedGateway, Settle
<1>3. wallet' \in Wallets /\ DOMAIN wallet' = DOMAIN wallet
  BY <1>1, <1>2, WithWallet DEF IInv, Status
<1>4. \A e : e # d => StatusOf(wallet', e) = StatusOf(wallet, e)
  BY <1>2, SetStatus
<1>5. tr[d] = CurrenciesOf[d]
  <2>1. CurrenciesOf[d] \ j.todo \subseteq trust[d]
    BY <1>1 DEF IInv, LinesOK, AllDoing, Doing
  <2>2. trust[d] \subseteq tr[d] /\ tr[d] \subseteq CurrenciesOf[d]
    BY <1>1 DEF Result, Lines
  <2> QED
    BY <1>1, <2>1, <2>2
<1>6. ASSUME NEW s \in Queued', s.domain = d
      PROVE  HasJob(jobs', d)
  <2>1. s \in Queued /\ s # t
    BY <1>6 DEF Result
  <2>2. s.batch # j.batch
    BY <1>6, <2>1, OwnJob
  <2>3. t.batch <= s.batch /\ s.batch \in Nat /\ j.batch \in Nat
    <3>1. s \in Tx
      BY <2>1 DEF IInv, QueueOK, Elements, Queued
    <3> QED
      BY <2>1, <3>1, <1>1, NoneBefore DEF Result, Tx
  <2>4. j.batch < s.batch
    BY <1>1, <2>2, <2>3
  <2> QED
    BY <1>2, <1>6, <2>1, <2>4, OthersHaveJob
<1>7. ASSUME NEW e \in Domain \ lost
      PROVE  Added(jobs', Queued', wallet', tr, e)
  <2>1. CASE e = d
    BY <1>5, <1>6, <2>1 DEF Added, About
  <2>2. CASE e # d
    BY <1>1, <1>2, <1>4, <2>2, StillAdded
  <2> QED
    BY <2>1, <2>2
<1>8. MineOK(jobs', wallet') /\ LaterOK(jobs', Queued', wallet')
  BY <1>2, <1>3, OneSettled DEF MineOK, LaterOK
<1> QED
  BY <1>2, <1>3, <1>7, <1>8, OneSettled DEF LinesOK, AddedOK

LEMMA RemovedKeeps ==
  ASSUME IInv, NEW t, NEW tr, Result(t, tr), NEW j \in JobOf(t), RemovedGateway(j)
  PROVE  LinesOK(jobs', batches, Queued', wallet', tr, lost) /\ wallet' \in Wallets
<1> DEFINE d == j.domain
           R == jobs \ {j}
<1>1. j \in jobs /\ d = t.domain /\ d \in Domain
  BY OwnJob, NoneBefore
<1>2. jobs' = Detach(R, d) /\ wallet' = WithoutGateway(wallet, d)
  BY DEF RemovedGateway, Settle
<1>3. wallet' \in Wallets /\ DOMAIN wallet' = DOMAIN wallet \ {d}
  BY <1>2, WithoutWallet DEF IInv
<1>4. \A e : e # d => StatusOf(wallet', e) = StatusOf(wallet, e)
  BY <1>2, UnsetStatus
<1>5. /\ JobsOK(R, batches) /\ AllDoing(R, Queued', tr) /\ LastOK(R, Queued')
      /\ MineOK(R, wallet) /\ LaterOK(R, Queued', wallet)
  BY OneSettled
<1> HIDE DEF R
<1>6. JobsOK(jobs', batches) /\ AllDoing(jobs', Queued', tr) /\ LastOK(jobs', Queued')
  BY <1>2, <1>5, DetachKeeps
<1>7. MineOK(jobs', wallet')
  BY <1>2, <1>3, <1>5, DetachMine
<1>8. LaterOK(jobs', Queued', wallet')
  <2> SUFFICES ASSUME NEW k \in jobs', ~k.mine, k.domain \in DOMAIN wallet'
               PROVE  Later(k, Queued')
    BY DEF LaterOK
  <2>1. PICK i \in R : k.domain # d => k = i
    BY <1>2, <1>5, DetachShape
  <2> QED
    BY <1>3, <1>5, <2>1 DEF LaterOK
<1>9. ASSUME NEW e \in Domain \ lost
      PROVE  Added(jobs', Queued', wallet', tr, e)
  <2>1. CASE e = d
    BY <1>2, <2>1, UnsetStatus DEF Added
  <2>2. CASE e # d
    <3>1. \A k \in jobs : k.domain = e => k \in jobs'
      <4>1. \A k \in R : k.domain # d => k \in jobs'
        BY <1>2 DEF Detach
      <4> QED
        BY <2>2, <4>1 DEF R
    <3> QED
      BY <1>1, <1>4, <2>2, <3>1, StillAdded
  <2> QED
    BY <2>1, <2>2
<1> QED
  BY <1>3, <1>6, <1>7, <1>8, <1>9 DEF LinesOK, AddedOK

LEMMA PartKeeps ==
  ASSUME IInv, NEW t, NEW tr, Result(t, tr), NEW j \in JobOf(t),
         j.kind = "adding" => t.currency \in tr[t.domain],
         j.todo # {t.currency},
         jobs' = (jobs \ {j}) \cup {[j EXCEPT !.todo = @ \ {t.currency}]}
  PROVE  LinesOK(jobs', batches, Queued', wallet, tr, lost)
<1> DEFINE d == j.domain
           R == jobs \ {j}
           i == [j EXCEPT !.todo = @ \ {t.currency}]
<1>1. /\ j \in jobs /\ j.batch = t.batch /\ d = t.domain /\ d \in Domain /\ j.kind = t.kind
      /\ t = TxOf(j, t.currency) /\ t.currency \in j.todo
  BY OwnJob, NoneBefore
<1>2. j \in [batch : 1..batches, kind : Kind, domain : Domain, mine : BOOLEAN,
             todo : SUBSET Currency]
  BY <1>1 DEF IInv, LinesOK, JobsOK
<1>3. /\ i \in [batch : 1..batches, kind : Kind, domain : Domain, mine : BOOLEAN,
                todo : SUBSET Currency]
      /\ i.batch = j.batch /\ i.kind = j.kind /\ i.domain = d /\ i.mine = j.mine
      /\ i.todo = j.todo \ {t.currency}
  BY <1>2
<1>4. jobs' = R \cup {i}
  OBVIOUS
<1>5. /\ JobsOK(R, batches) /\ AllDoing(R, Queued', tr) /\ LastOK(R, Queued')
      /\ MineOK(R, wallet) /\ LaterOK(R, Queued', wallet)
  BY OneSettled
<1>6. \A k \in R : k.batch # i.batch \/ k.domain # i.domain
  BY <1>1, <1>3 DEF IInv, LinesOK, JobsOK
<1> HIDE DEF i, R
<1>7. JobsOK(jobs', batches)
  BY <1>3, <1>4, <1>5, <1>6 DEF JobsOK
<1>8. Doing(i, Queued', tr)
  <2>1. Doing(j, Queued, trust) /\ \A c : TxOf(i, c) = TxOf(j, c)
    BY <1>1, <1>3 DEF IInv, LinesOK, AllDoing, TxOf
  <2>2. Queued' = Queued \ {t}
    BY DEF Result
  <2>3. i.todo # {} /\ i.todo \subseteq CurrenciesOf[d]
    BY <1>1, <1>3, <2>1 DEF Doing
  <2>4. ASSUME NEW c \in CurrenciesOf[d]
        PROVE  c \in i.todo <=> TxOf(i, c) \in Queued'
    <3>1. TxOf(j, c) = t <=> c = t.currency
      BY <1>1 DEF TxOf
    <3> QED
      BY <1>3, <2>1, <2>2, <3>1 DEF Doing
  <2>5. \A s \in Queued' : s.batch = i.batch /\ s.domain = i.domain => s.kind = i.kind
    BY <1>3, <2>1, <2>2 DEF Doing
  <2>6. \A s \in Queued' : i.batch <= s.batch
    BY <1>1, <1>3, <2>2 DEF Result
  <2>7. i.kind = "adding" => CurrenciesOf[d] \ i.todo \subseteq tr[d]
    <3> SUFFICES ASSUME i.kind = "adding"
                 PROVE  CurrenciesOf[d] \ i.todo \subseteq tr[d]
      OBVIOUS
    <3>1. CurrenciesOf[d] \ j.todo \subseteq trust[d]
      BY <1>3, <2>1 DEF Doing
    <3>2. trust[d] \subseteq tr[d] /\ t.currency \in tr[d]
      BY <1>1, <1>3 DEF Result
    <3> QED
      BY <1>3, <3>1, <3>2
  <2> QED
    BY <1>3, <2>3, <2>4, <2>5, <2>6, <2>7 DEF Doing
<1>9. AllDoing(jobs', Queued', tr)
  BY <1>4, <1>5, <1>8 DEF AllDoing
<1>10. MineOK(jobs', wallet)
  <2>1. MineOK(jobs, wallet)
    BY DEF IInv, LinesOK
  <2> QED
    BY <1>1, <1>3, <1>4, <1>5, <2>1 DEF MineOK
<1>11. LaterOK(jobs', Queued', wallet)
  <2>1. ~i.mine /\ i.domain \in DOMAIN wallet => Later(i, Queued')
    <3>1. ~j.mine /\ d \in DOMAIN wallet => Later(j, Queued')
      BY <1>1, StillLater DEF IInv, LinesOK, LaterOK
    <3> QED
      BY <1>3, <3>1 DEF Later
  <2> QED
    BY <1>4, <1>5, <2>1 DEF LaterOK
<1>12. LastOK(jobs', Queued')
  <2> SUFFICES ASSUME NEW k \in jobs', NEW s \in Queued', s.domain = k.domain
               PROVE  \E l \in jobs' : l.domain = k.domain /\ s.batch <= l.batch
    BY DEF LastOK
  <2>1. s \in Queued /\ \E m \in jobs : m.domain = k.domain
    BY <1>1, <1>3, <1>4 DEF Result, R
  <2>2. PICK l \in jobs : l.domain = k.domain /\ s.batch <= l.batch
    BY <2>1 DEF IInv, LinesOK, LastOK
  <2>3. l = j \/ l \in R
    BY DEF R
  <2> QED
    BY <1>3, <1>4, <2>2, <2>3
<1>13. ASSUME NEW e \in Domain \ lost
       PROVE  Added(jobs', Queued', wallet, tr, e)
  <2>1. CASE e = d
    <3>1. PICK c : c \in i.todo /\ TxOf(i, c) \in Queued'
      BY <1>8 DEF Doing
    <3>2. TxOf(i, c).domain = e
      BY <1>3, <2>1 DEF TxOf
    <3> QED
      BY <1>3, <1>4, <2>1, <3>1, <3>2 DEF Added, About, HasJob
  <2>2. CASE e # d
    <3>1. \A k \in jobs : k.domain = e => k \in jobs'
      BY <1>4, <2>2 DEF R
    <3> QED
      BY <1>1, <2>2, <3>1, StillAdded
  <2> QED
    BY <2>1, <2>2
<1> QED
  BY <1>7, <1>9, <1>10, <1>11, <1>12, <1>13 DEF LinesOK, AddedOK

(* A job fails; that of a gateway replaced has a later one behind it. *)
LEMMA FailedKeeps ==
  ASSUME IInv, NEW t, NEW tr, Result(t, tr), NEW j \in JobOf(t), GatewayFailed(j)
  PROVE  LinesOK(jobs', batches, Queued', wallet', tr, lost) /\ wallet' \in Wallets
<1> DEFINE d == j.domain
<1>1. j \in jobs /\ d = t.domain /\ d \in Domain
  BY OwnJob, NoneBefore
<1>2. jobs' = jobs \ {j}
  BY DEF GatewayFailed, Settle
<1>3. /\ wallet' \in Wallets /\ DOMAIN wallet' = DOMAIN wallet
      /\ \A e : e # d => StatusOf(wallet', e) = StatusOf(wallet, e)
      /\ j.mine => StatusOf(wallet', d) # "added"
      /\ ~j.mine => wallet' = wallet
  <2>1. CASE j.mine
    <3>1. d \in DOMAIN wallet
      BY <1>1, <2>1 DEF IInv, LinesOK, MineOK
    <3>2. PICK s \in {"add_failed", "removal_failed"} : wallet' = With(wallet, d, s)
      BY <2>1 DEF GatewayFailed, Settle
    <3> QED
      <4>1. wallet \in Wallets /\ s \in Status /\ s # "added"
        BY DEF IInv, Status
      <4>2. wallet' \in Wallets /\ DOMAIN wallet' = DOMAIN wallet
        <5> HIDE DEF d
        <5>1. With(wallet, d, s) \in Wallets /\ DOMAIN With(wallet, d, s) = DOMAIN wallet \cup {d}
          BY <1>1, <4>1, WithWallet
        <5> QED
          BY <3>1, <3>2, <5>1
      <4>3. /\ \A e : e # d => StatusOf(wallet', e) = StatusOf(wallet, e)
            /\ StatusOf(wallet', d) = s
        BY <3>2, SetStatus
      <4> QED
        BY <2>1, <4>1, <4>2, <4>3
  <2>2. CASE ~j.mine
    <3>1. wallet' = wallet
      BY <2>2 DEF GatewayFailed, Settle
    <3> QED
      BY <2>2, <3>1 DEF IInv
  <2> QED
    BY <2>1, <2>2
<1>4. MineOK(jobs', wallet') /\ LaterOK(jobs', Queued', wallet')
  BY <1>2, <1>3, OneSettled DEF MineOK, LaterOK
<1>5. ASSUME NEW e \in Domain \ lost
      PROVE  Added(jobs', Queued', wallet', tr, e)
  <2>1. CASE e = d /\ j.mine
    BY <1>3, <2>1 DEF Added
  <2>2. CASE e = d /\ ~j.mine /\ d \notin DOMAIN wallet
    BY <1>3, <2>2 DEF Added, StatusOf
  <2>3. CASE e = d /\ ~j.mine /\ d \in DOMAIN wallet
    <3>1. Later(j, Queued) /\ Later(j, Queued')
      BY <1>1, <2>3, StillLater DEF IInv, LinesOK, LaterOK
    <3>2. HasJob(jobs', d)
      BY <1>2, <3>1, OthersHaveJob DEF Later
    <3>3. About(Queued', d)
      BY <3>1 DEF Later, About
    <3> QED
      BY <2>3, <3>2, <3>3 DEF Added
  <2>4. CASE e # d
    BY <1>1, <1>2, <1>3, <2>4, StillAdded
  <2> QED
    BY <2>1, <2>2, <2>3, <2>4
<1> QED
  BY <1>2, <1>3, <1>4, <1>5, OneSettled DEF LinesOK, AddedOK

-----------------------------------------------------------------------------
LEMMA InitLines == Init => IInv
<1> SUFFICES ASSUME Init PROVE IInv
  OBVIOUS
<1>1. <<>> \in Wallets
  <2>1. <<>> \in [{} -> Status]
    OBVIOUS
  <2> QED
    BY <2>1 DEF Wallets
<1>2. trust \in Lines
  BY DEF Init, Lines
<1>3. Queued = {} /\ QueueOK
  BY DEF Init, Queued, QueueOK, Elements, Distinct, Sorted
<1>4. CountOK
  BY GatewaysAssumption DEF Init, CountOK
<1>5. LinesOK(jobs, batches, Queued, wallet, trust, lost)
  BY DEF Init, LinesOK, JobsOK, AllDoing, MineOK, LaterOK, LastOK, AddedOK, Added, StatusOf
<1> QED
  BY <1>1, <1>2, <1>3, <1>4, <1>5 DEF Init, IInv

LEMMA OneMoreOperation ==
  ASSUME CountOK, Operate, batches' \in {batches, batches + 1}, UNCHANGED <<load, reloads>>
  PROVE  CountOK'
BY GatewaysAssumption DEF CountOK, Operate

(* The user's operations, and the load of the account: batches start. *)
LEMMA BatchKeeps ==
  ASSUME IInv, NEW js, SyncTrustlines(wallet', js),
         wallet' \in Wallets, saved' \in Wallets, trust' = trust, lost' = lost,
         batches' \in {batches, batches + 1} => CountOK',
         JobsOK(js, batches), AllDoing(js, Queued, trust), MineOK(js, wallet'),
         SoonOK(js, Queued, wallet'), LastOK(js, Queued),
         AddedOK(js, Queued, wallet', trust, lost)
  PROVE  IInv'
<1>1. PICK v \in Wallets : v = wallet'
  OBVIOUS
<1>2. /\ QueueOK' /\ batches' \in {batches, batches + 1}
      /\ LinesOK(jobs', batches', Queued', v, trust, lost)
  BY <1>1, SyncKeeps DEF IInv, CountOK
<1>3. LinesOK(jobs, batches, Queued, wallet, trust, lost)'
  BY <1>1, <1>2
<1> QED
  BY <1>2, <1>3 DEF IInv

LEMMA AddKeeps ==
  ASSUME IInv, NEW d \in Domain, Add(d)
  PROVE  IInv'
<1> DEFINE js == Detach(jobs, d)
<1>1. wallet' = With(wallet, d, "adding") /\ SyncTrustlines(wallet', js)
  BY DEF Add
<1>2. wallet' \in Wallets /\ DOMAIN wallet' = DOMAIN wallet \cup {d}
  BY <1>1, WithWallet DEF IInv, Status
<1>3. StatusOf(wallet', d) = "adding" /\ \A e : e # d => StatusOf(wallet', e) = StatusOf(wallet, e)
  BY <1>1, SetStatus
<1>4. /\ JobsOK(jobs, batches) /\ AllDoing(jobs, Queued, trust) /\ MineOK(jobs, wallet)
      /\ LaterOK(jobs, Queued, wallet) /\ LastOK(jobs, Queued)
      /\ AddedOK(jobs, Queued, wallet, trust, lost)
  BY DEF IInv, LinesOK
<1>5. JobsOK(js, batches) /\ AllDoing(js, Queued, trust) /\ LastOK(js, Queued)
  BY <1>4, DetachKeeps
<1>6. MineOK(js, wallet')
  BY <1>2, <1>4, DetachMine
<1>7. SoonOK(js, Queued, wallet')
  <2> SUFFICES ASSUME NEW k \in js, ~k.mine, k.domain \in DOMAIN wallet'
               PROVE  Later(k, Queued) \/ wallet'[k.domain] \in Kind
    BY DEF SoonOK
  <2>1. CASE k.domain = d
    BY <1>2, <1>3, <2>1 DEF StatusOf, Kind
  <2>2. CASE k.domain # d
    <3>1. k \in jobs
      BY <1>4, <2>2, DetachShape
    <3> QED
      BY <1>2, <1>4, <2>2, <3>1 DEF LaterOK
  <2> QED
    BY <2>1, <2>2
<1>8. AddedOK(js, Queued, wallet', trust, lost)
  <2> SUFFICES ASSUME NEW e \in Domain \ lost
               PROVE  Added(js, Queued, wallet', trust, e)
    BY DEF AddedOK
  <2>1. CASE e = d
    BY <1>3, <2>1 DEF Added
  <2>2. CASE e # d
    <3>1. HasJob(jobs, e) => HasJob(js, e)
      BY <2>2 DEF HasJob, Detach
    <3> QED
      BY <1>3, <1>4, <2>2, <3>1 DEF AddedOK, Added
  <2> QED
    BY <2>1, <2>2
<1>9. batches' \in {batches, batches + 1} => CountOK'
  BY OneMoreOperation DEF IInv, Add
<1>10. saved' \in Wallets /\ trust' = trust /\ lost' = lost
  BY DEF Add, IInv
<1> HIDE DEF js
<1> QED
  BY <1>1, <1>2, <1>5, <1>6, <1>7, <1>8, <1>9, <1>10, BatchKeeps

LEMMA RemoveKeeps ==
  ASSUME IInv, NEW d \in Domain, Remove(d)
  PROVE  IInv'
<1>1. wallet' = With(wallet, d, "removing") /\ SyncTrustlines(wallet', jobs) /\ d \in DOMAIN wallet
  BY DEF Remove
<1>2. wallet' \in Wallets /\ DOMAIN wallet' = DOMAIN wallet
  BY <1>1, WithWallet DEF IInv, Status
<1>3. StatusOf(wallet', d) = "removing" /\ \A e : e # d => StatusOf(wallet', e) = StatusOf(wallet, e)
  BY <1>1, SetStatus
<1>4. /\ JobsOK(jobs, batches) /\ AllDoing(jobs, Queued, trust) /\ MineOK(jobs, wallet)
      /\ LaterOK(jobs, Queued, wallet) /\ LastOK(jobs, Queued)
      /\ AddedOK(jobs, Queued, wallet, trust, lost)
  BY DEF IInv, LinesOK
<1>5. MineOK(jobs, wallet') /\ SoonOK(jobs, Queued, wallet')
  BY <1>2, <1>4 DEF MineOK, LaterOK, SoonOK
<1>6. AddedOK(jobs, Queued, wallet', trust, lost)
  <2> SUFFICES ASSUME NEW e \in Domain \ lost
               PROVE  Added(jobs, Queued, wallet', trust, e)
    BY DEF AddedOK
  <2>1. CASE e = d
    BY <1>3, <2>1 DEF Added
  <2>2. CASE e # d
    BY <1>3, <1>4, <2>2 DEF AddedOK, Added
  <2> QED
    BY <2>1, <2>2
<1>7. batches' \in {batches, batches + 1} => CountOK'
  BY OneMoreOperation DEF IInv, Remove
<1>8. saved' \in Wallets /\ trust' = trust /\ lost' = lost
  BY DEF Remove, IInv
<1> QED
  BY <1>1, <1>2, <1>4, <1>5, <1>6, <1>7, <1>8, BatchKeeps

LEMMA ForceRemoveKeeps ==
  ASSUME IInv, NEW d \in Domain, ForceRemove(d)
  PROVE  IInv'
<1>1. /\ wallet' = WithoutGateway(wallet, d) /\ jobs' = Detach(jobs, d)
      /\ saved' \in {wallet', saved}
      /\ UNCHANGED <<txq, trust, load, batches, reloads, lost>>
  BY DEF ForceRemove, SyncWallet
<1>2. wallet' \in Wallets /\ DOMAIN wallet' = DOMAIN wallet \ {d}
  BY <1>1, WithoutWallet DEF IInv
<1>3. StatusOf(wallet', d) = "none" /\ \A e : e # d => StatusOf(wallet', e) = StatusOf(wallet, e)
  BY <1>1, UnsetStatus
<1>4. /\ JobsOK(jobs, batches) /\ AllDoing(jobs, Queued, trust) /\ MineOK(jobs, wallet)
      /\ LaterOK(jobs, Queued, wallet) /\ LastOK(jobs, Queued)
      /\ AddedOK(jobs, Queued, wallet, trust, lost)
  BY DEF IInv, LinesOK
<1>5. JobsOK(jobs', batches) /\ AllDoing(jobs', Queued, trust) /\ LastOK(jobs', Queued)
  BY <1>1, <1>4, DetachKeeps
<1>6. MineOK(jobs', wallet')
  BY <1>1, <1>2, <1>4, DetachMine
<1>7. LaterOK(jobs', Queued, wallet')
  <2> SUFFICES ASSUME NEW k \in jobs', ~k.mine, k.domain \in DOMAIN wallet'
               PROVE  Later(k, Queued)
    BY DEF LaterOK
  <2>1. k \in jobs
    BY <1>1, <1>2, <1>4, DetachShape
  <2> QED
    BY <1>2, <1>4, <2>1 DEF LaterOK
<1>8. AddedOK(jobs', Queued, wallet', trust, lost)
  <2> SUFFICES ASSUME NEW e \in Domain \ lost
               PROVE  Added(jobs', Queued, wallet', trust, e)
    BY DEF AddedOK
  <2>1. CASE e = d
    BY <1>3, <2>1 DEF Added
  <2>2. CASE e # d
    <3>1. HasJob(jobs, e) => HasJob(jobs', e)
      BY <1>1, <2>2 DEF HasJob, Detach
    <3> QED
      BY <1>3, <1>4, <2>2, <3>1 DEF AddedOK, Added
  <2> QED
    BY <2>1, <2>2
<1>9. Queued' = Queued /\ QueueOK'
  BY <1>1 DEF IInv, QueueOK, Queued
<1>10. CountOK'
  BY OneMoreOperation DEF IInv, ForceRemove
<1>11. LinesOK(jobs, batches, Queued, wallet, trust, lost)'
  BY <1>1, <1>5, <1>6, <1>7, <1>8, <1>9 DEF LinesOK
<1> QED
  BY <1>1, <1>2, <1>9, <1>10, <1>11 DEF IInv

LEMMA LoadAccountKeeps ==
  ASSUME IInv, LoadAccount
  PROVE  IInv'
<1>1. /\ wallet' = wallet /\ SyncTrustlines(wallet', jobs)
      /\ saved' = saved /\ trust' = trust /\ lost' = lost
  BY DEF LoadAccount
<1>2. batches' \in {batches, batches + 1} => CountOK'
  BY DEF IInv, CountOK, LoadAccount
<1>3. SoonOK(jobs, Queued, wallet)
  BY DEF IInv, LinesOK, LaterOK, SoonOK
<1>4. /\ JobsOK(jobs, batches) /\ AllDoing(jobs, Queued, trust) /\ MineOK(jobs, wallet')
      /\ LastOK(jobs, Queued) /\ AddedOK(jobs, Queued, wallet', trust, lost)
      /\ SoonOK(jobs, Queued, wallet') /\ wallet' \in Wallets /\ saved' \in Wallets
  BY <1>1, <1>3 DEF IInv, LinesOK
<1> QED
  BY <1>1, <1>2, <1>4, BatchKeeps

(* The results. *)
LEMMA OutOfQueue ==
  ASSUME IInv, txq # <<>>, txq' = Tail(txq), UNCHANGED batches, trust' \in Lines,
         \A d \in Domain : d # Head(txq).domain => trust'[d] = trust[d],
         Head(txq).kind = "adding" => trust[Head(txq).domain] \subseteq trust'[Head(txq).domain]
  PROVE  Result(Head(txq), trust') /\ QueueOK' /\ Queued' \subseteq Queued
<1>1. /\ txq \in Seq(Tx) /\ Distinct(txq) /\ Sorted(txq) /\ \A t \in Queued : t.batch \in 1..batches
  BY DEF IInv, QueueOK
<1>2. \A t \in Tx : t.batch \in Nat
  BY DEF Tx
<1>3. /\ Head(txq) \in Elements(txq) /\ Tail(txq) \in Seq(Tx)
      /\ Elements(Tail(txq)) = Elements(txq) \ {Head(txq)}
      /\ Distinct(Tail(txq)) /\ Sorted(Tail(txq))
      /\ \A t \in Elements(txq) : Head(txq).batch <= t.batch
  BY <1>1, <1>2, FirstOut
<1>4. Queued' = Queued \ {Head(txq)}
  BY <1>3 DEF Queued
<1> QED
  BY <1>1, <1>3, <1>4 DEF Result, QueueOK, Queued

LEMMA SettledSaves ==
  ASSUME IInv, NEW j, NEW w, NEW js, Settle(j, w, js), wallet' \in Wallets
  PROVE  saved' \in Wallets
BY DEF Settle, SyncWallet, IInv

LEMMA TrustSetKeeps ==
  ASSUME IInv, TrustSet
  PROVE  IInv'
<1> DEFINE t == Head(txq)
<1>1. /\ txq # <<>> /\ txq' = Tail(txq) /\ UNCHANGED <<load, batches, ops, reloads, lost>>
      /\ trust' = [trust EXCEPT ![t.domain] =
                     IF t.kind = "adding" THEN @ \cup {t.currency} ELSE @ \ {t.currency}]
      /\ \/ JobOf(t) = {} /\ UNCHANGED <<wallet, saved, jobs>>
         \/ \E j \in JobOf(t) : Succeed(j, t)
  BY DEF TrustSet
<1>2. t \in Tx
  <2>1. txq \in Seq(Tx)
    BY DEF IInv, QueueOK
  <2> QED
    BY <1>1, <2>1
<1> HIDE DEF t
<1>3. /\ t.domain \in Domain /\ t.currency \in CurrenciesOf[t.domain] /\ t.currency \in Currency
      /\ trust \in Lines /\ trust \in [Domain -> SUBSET Currency]
  BY <1>2 DEF Tx, IInv, Lines
<1>4. /\ trust' \in Lines
      /\ \A d \in Domain : d # t.domain => trust'[d] = trust[d]
      /\ t.kind = "adding" => trust[t.domain] \subseteq trust'[t.domain]
      /\ t.kind = "adding" => t.currency \in trust'[t.domain]
  BY <1>1, <1>3 DEF Lines
<1>5. Result(t, trust') /\ QueueOK'
  BY <1>1, <1>4, OutOfQueue DEF t
<1>6. CountOK'
  BY <1>1 DEF IInv, CountOK
<1>7. PICK tr : tr = trust'
  OBVIOUS
<1>8. LinesOK(jobs', batches, Queued', wallet', tr, lost) /\ wallet' \in Wallets /\ saved' \in Wallets
  <2>1. CASE JobOf(t) = {} /\ UNCHANGED <<wallet, saved, jobs>>
    <3>1. LinesOK(jobs, batches, Queued', wallet, tr, lost)
      BY <1>5, <1>7, <2>1, NobodysResult
    <3> QED
      BY <2>1, <3>1 DEF IInv
  <2>2. ASSUME NEW j \in JobOf(t), Succeed(j, t)
        PROVE  /\ LinesOK(jobs', batches, Queued', wallet', tr, lost)
               /\ wallet' \in Wallets /\ saved' \in Wallets
    <3>1. Result(t, tr) /\ (t.kind = "adding" => t.currency \in tr[t.domain]) /\ j.kind = t.kind
      BY <1>4, <1>5, <1>7, OwnJob
    <3>2. CASE j.todo = {t.currency} /\ j.kind = "adding" /\ AddedGateway(j)
      BY <3>1, <3>2, AddedKeeps, SettledSaves DEF AddedGateway
    <3>3. CASE RemovedGateway(j)
      BY <3>1, <3>3, RemovedKeeps, SettledSaves DEF RemovedGateway
    <3>4. CASE /\ j.todo # {t.currency} /\ UNCHANGED <<wallet, saved>>
               /\ jobs' = (jobs \ {j}) \cup {[j EXCEPT !.todo = @ \ {t.currency}]}
      <4>1. LinesOK(jobs', batches, Queued', wallet, tr, lost)
        BY <3>1, <3>4, PartKeeps
      <4> QED
        BY <3>4, <4>1 DEF IInv
    <3> QED
      BY <2>2, <3>2, <3>3, <3>4 DEF Succeed, Through
  <2> QED
    BY <1>1, <2>1, <2>2
<1>9. LinesOK(jobs, batches, Queued, wallet, trust, lost)'
  BY <1>1, <1>7, <1>8
<1> QED
  BY <1>1, <1>4, <1>5, <1>6, <1>8, <1>9 DEF IInv

LEMMA TrustSetFailsKeeps ==
  ASSUME IInv, TrustSetFails
  PROVE  IInv'
<1> DEFINE t == Head(txq)
<1>1. /\ txq # <<>> /\ txq' = Tail(txq) /\ UNCHANGED <<trust, load, batches, ops, reloads, lost>>
      /\ \/ JobOf(t) = {} /\ UNCHANGED <<wallet, saved, jobs>>
         \/ \E j \in JobOf(t) : GatewayFailed(j)
  BY DEF TrustSetFails
<1> HIDE DEF t
<1>2. Result(t, trust) /\ QueueOK'
  <2>1. trust' \in Lines
    BY <1>1 DEF IInv
  <2> QED
    BY <1>1, <2>1, OutOfQueue DEF t
<1>3. CountOK'
  BY <1>1 DEF IInv, CountOK
<1>4. LinesOK(jobs', batches, Queued', wallet', trust, lost) /\ wallet' \in Wallets /\ saved' \in Wallets
  <2>1. CASE JobOf(t) = {} /\ UNCHANGED <<wallet, saved, jobs>>
    BY <1>2, <2>1, NobodysResult DEF IInv
  <2>2. ASSUME NEW j \in JobOf(t), GatewayFailed(j)
        PROVE  /\ LinesOK(jobs', batches, Queued', wallet', trust, lost)
               /\ wallet' \in Wallets /\ saved' \in Wallets
    BY <1>2, <2>2, FailedKeeps, SettledSaves DEF GatewayFailed
  <2> QED
    BY <1>1, <2>1, <2>2
<1>5. LinesOK(jobs, batches, Queued, wallet, trust, lost)'
  BY <1>1, <1>4
<1> QED
  BY <1>1, <1>2, <1>3, <1>4, <1>5 DEF IInv

(* Of the page's state only the saved wallet is left: a gateway whose       *)
(* status it tells has no job under way, or is lost track of.               *)
LEMMA ReloadKeeps ==
  ASSUME IInv, Reload
  PROVE  IInv'
<1>1. /\ wallet' = saved /\ saved' = saved /\ jobs' = {} /\ load' = "waiting"
      /\ reloads < MaxReloads /\ reloads' = reloads + 1 /\ UNCHANGED <<trust, batches, ops>>
      /\ lost' = lost \cup {d \in Domain :
            \/ StatusOf(saved, d) # StatusOf(wallet, d)
            \/ \E j \in jobs : j.domain = d /\ StatusOf(saved, d) # j.kind}
  BY DEF Reload
<1>2. PICK n \in 0..Len(txq) : txq' = SubSeq(txq, 1, n)
  BY DEF Reload
<1>3. QueueOK' /\ Queued' \subseteq Queued
  <2>1. txq \in Seq(Tx) /\ Distinct(txq) /\ Sorted(txq) /\ \A t \in Queued : t.batch \in 1..batches
    BY DEF IInv, QueueOK
  <2>2. /\ SubSeq(txq, 1, n) \in Seq(Tx) /\ Distinct(SubSeq(txq, 1, n))
        /\ Sorted(SubSeq(txq, 1, n)) /\ Elements(SubSeq(txq, 1, n)) \subseteq Elements(txq)
    BY <2>1, FirstSome
  <2> QED
    BY <1>1, <1>2, <2>1, <2>2 DEF QueueOK, Queued
<1>4. CountOK'
  BY <1>1, GatewaysAssumption DEF IInv, CountOK
<1>5. ASSUME NEW d \in Domain \ lost'
      PROVE  Added(jobs', Queued', wallet', trust, d)
  <2> SUFFICES ASSUME StatusOf(saved, d) = "added"
               PROVE  ~About(Queued', d) /\ trust[d] = CurrenciesOf[d]
    BY <1>1 DEF Added
  <2>1. d \in Domain \ lost /\ StatusOf(wallet, d) = "added"
        /\ \A j \in jobs : j.domain = d => j.kind = "added"
    BY <1>1
  <2>2. Added(jobs, Queued, wallet, trust, d)
    BY <2>1 DEF IInv, LinesOK, AddedOK
  <2>3. ~HasJob(jobs, d)
    BY <2>1 DEF HasJob, IInv, LinesOK, JobsOK, Kind
  <2> QED
    BY <1>3, <2>1, <2>2, <2>3 DEF Added, About
<1>6. LinesOK(jobs, batches, Queued, wallet, trust, lost)'
  BY <1>1, <1>5 DEF LinesOK, JobsOK, AllDoing, MineOK, LaterOK, LastOK, AddedOK
<1>7. lost' \subseteq Domain
  BY <1>1 DEF IInv
<1> QED
  BY <1>1, <1>3, <1>4, <1>6, <1>7 DEF IInv

LEMMA NextLines == IInv /\ [Next]_vars => IInv'
<1> SUFFICES ASSUME IInv, [Next]_vars
             PROVE  IInv'
  OBVIOUS
<1>1. CASE UNCHANGED vars
  <2>1. Queued' = Queued
    BY <1>1 DEF vars, Queued
  <2> QED
    BY <1>1, <2>1 DEF vars, IInv, QueueOK, CountOK
<1>2. CASE SaveElsewhere
  <2>1. Queued' = Queued
    BY <1>2 DEF SaveElsewhere, Queued
  <2> QED
    BY <1>2, <2>1 DEF SaveElsewhere, IInv, QueueOK, CountOK
<1>3. CASE LoadFails
  <2>1. Queued' = Queued
    BY <1>3 DEF LoadFails, Queued
  <2>2. CountOK'
    BY <1>3 DEF LoadFails, IInv, CountOK
  <2> QED
    BY <1>3, <2>1, <2>2 DEF LoadFails, IInv, QueueOK
<1> QED
  BY <1>1, <1>2, <1>3, AddKeeps, RemoveKeeps, ForceRemoveKeeps, LoadAccountKeeps,
     TrustSetKeeps, TrustSetFailsKeeps, ReloadKeeps DEF Next

(* The transactions queued, the jobs and the wallet stay in step: a job has *)
(* to do just what is queued for it, and what is queued for a gateway added *)
(* has a job that will say how it went (gateways-service.js 33-130).        *)
THEOREM Trustlines == Spec => []IInv
<1>1. IInv /\ [Next]_vars => IInv'
  BY NextLines
<1> QED
  BY InitLines, <1>1, PTL DEF Spec

LEMMA InvTyped == IInv => TypeOK
<1> SUFFICES ASSUME IInv PROVE TypeOK
  OBVIOUS
<1>1. batches \in 0..MaxOps + MaxReloads + 1
  BY GatewaysAssumption DEF IInv, CountOK
<1>2. jobs \subseteq Job
  <2>1. 1..batches \subseteq 1..MaxOps + MaxReloads + 1
    BY <1>1, GatewaysAssumption
  <2> QED
    BY <2>1 DEF IInv, LinesOK, JobsOK, Job
<1>3. ASSUME NEW i \in DOMAIN txq
      PROVE  txq[i].domain \in Domain /\ txq[i].kind \in Kind
             /\ txq[i].currency \in CurrenciesOf[txq[i].domain]
  <2>1. txq[i] \in Tx
    BY DEF IInv, QueueOK
  <2> QED
    BY <2>1 DEF Tx
<1>4. \A j, k \in jobs : j.batch = k.batch /\ j.domain = k.domain => j = k
  BY DEF IInv, LinesOK, JobsOK
<1> QED
  BY <1>1, <1>2, <1>3, <1>4 DEF TypeOK, IInv, CountOK, Lines

(* The types, and that a batch has at most one job of a gateway: the record *)
(* of a job names it.                                                       *)
THEOREM GatewaysTypes == Spec => []TypeOK
<1> QED
  BY Trustlines, InvTyped, PTL

LEMMA InvAdded == IInv => AddedIsTrusted
<1> SUFFICES ASSUME IInv, NEW d \in Domain \ lost, StatusOf(wallet, d) = "added",
                    \A i \in DOMAIN txq : txq[i].domain # d
             PROVE  trust[d] = CurrenciesOf[d]
  BY DEF AddedIsTrusted
<1>1. ~About(Queued, d)
  BY DEF About, Queued, Elements
<1> QED
  BY <1>1 DEF IInv, LinesOK, AddedOK, Added

(* A gateway the wallet lists as added has all its trust lines, once        *)
(* nothing of it is queued, however batches overlap and transactions fail;  *)
(* save those whose work a reload has forgotten (gateways-service.js        *)
(* 33-130).                                                                 *)
THEOREM TrustlinesSet == Spec => []AddedIsTrusted
<1> QED
  BY Trustlines, InvAdded, PTL

-----------------------------------------------------------------------------
(***************************************************************************)
(* The trading page.  First what a fold of effects, one after the other,   *)
(* comes to: States(s, effects) are the values it passes through.          *)
(***************************************************************************)
Effects(S) == Seq([S -> S])

LEMMA Induction ==
  ASSUME NEW T, 0 \in T, \A n \in Nat : n \in T => n + 1 \in T
  PROVE  Nat \subseteq T
<1> SUFFICES ASSUME Nat \ T # {} PROVE FALSE
  OBVIOUS
<1> DEFINE R == OpToRel(<, Nat)
<1>1. PICK x \in Nat \ T : \A y \in Nat \ T : ~ (<<y, x>> \in R)
  <2> HIDE DEF R
  <2>1. IsWellFoundedOn(R, Nat)
    BY NatLessThanWellFounded DEF R
  <2> QED
    BY <2>1, WFMin
<1>2. x # 0 /\ x - 1 \in Nat
  OBVIOUS
<1>3. x - 1 \in T
  <2>1. <<x - 1, x>> \in R
    BY <1>2 DEF OpToRel
  <2> QED
    BY <1>1, <1>2, <2>1
<1> QED
  BY <1>2, <1>3

Follows(f, s, g, k) == f[0] = s /\ \A n \in 1..k : f[n] = g[n][f[n - 1]]

LEMMA StatesFollow ==
  ASSUME NEW S, NEW s \in S, NEW g \in Effects(S)
  PROVE  States(s, g) \in [0..Len(g) -> S] /\ Follows(States(s, g), s, g, Len(g))
<1> DEFINE L == Len(g)
           T == {k \in Nat : k <= L => \E f \in [0..k -> S] : Follows(f, s, g, k)}
<1>1. L \in Nat /\ \A n \in 1..L : g[n] \in [S -> S]
  BY DEF Effects
<1> HIDE DEF L
<1>2. 0 \in T
  <2> DEFINE f == [n \in 0..0 |-> s]
  <2>1. f \in [0..0 -> S] /\ Follows(f, s, g, 0)
    BY DEF Follows
  <2> QED
    BY <2>1
<1>3. ASSUME NEW k \in Nat, k \in T
      PROVE  k + 1 \in T
  <2> SUFFICES ASSUME k + 1 <= L
               PROVE  \E f \in [0..k + 1 -> S] : Follows(f, s, g, k + 1)
    OBVIOUS
  <2>1. PICK f \in [0..k -> S] : Follows(f, s, g, k)
    BY <1>1, <1>3
  <2> DEFINE h == [n \in 0..k + 1 |-> IF n = k + 1 THEN g[k + 1][f[k]] ELSE f[n]]
  <2>2. g[k + 1] \in [S -> S] /\ f[k] \in S
    BY <1>1
  <2>3. h \in [0..k + 1 -> S]
    BY <2>2
  <2>4. h[0] = s
    BY <2>1 DEF Follows
  <2>5. ASSUME NEW n \in 1..k + 1
        PROVE  h[n] = g[n][h[n - 1]]
    <3>1. CASE n = k + 1
      BY <3>1
    <3>2. CASE n # k + 1
      <4>1. n \in 1..k /\ n - 1 \in 0..k /\ n \in 0..k
        BY <3>2
      <4>2. h[n] = f[n] /\ h[n - 1] = f[n - 1]
        BY <4>1
      <4> QED
        BY <2>1, <4>1, <4>2 DEF Follows
    <3> QED
      BY <3>1, <3>2
  <2> QED
    BY <2>3, <2>4, <2>5 DEF Follows
<1>4. L \in T
  <2> HIDE DEF T
  <2> QED
    BY <1>1, <1>2, <1>3, Induction
<1>5. PICK f \in [0..L -> S] : Follows(f, s, g, L)
  BY <1>1, <1>4
<1>6. f = [n \in 0..L |-> IF n = 0 THEN s ELSE g[n][f[n - 1]]]
  <2>1. \A n \in 0..L : f[n] = IF n = 0 THEN s ELSE g[n][f[n - 1]]
    BY <1>1, <1>5 DEF Follows
  <2> QED
    BY <2>1
<1>7. States(s, g) = [n \in 0..L |-> IF n = 0 THEN s ELSE g[n][States(s, g)[n - 1]]]
  BY <1>6, Zenon DEF States, L
<1> DEFINE r == States(s, g)
<1> HIDE DEF r
<1>8. r = [n \in 0..L |-> IF n = 0 THEN s ELSE g[n][r[n - 1]]]
  BY <1>7 DEF r
<1>9. Follows(r, s, g, L)
  BY <1>1, <1>8 DEF Follows
<1>10. \A n \in 0..L : r[n] \in S
  <2> DEFINE U == {n \in Nat : n <= L => r[n] \in S}
  <2>1. 0 \in U
    BY <1>1, <1>9 DEF Follows
  <2>2. ASSUME NEW n \in Nat, n \in U
        PROVE  n + 1 \in U
    <3> SUFFICES ASSUME n + 1 <= L PROVE r[n + 1] \in S
      OBVIOUS
    <3>1. n + 1 \in 1..L /\ n <= L /\ (n + 1) - 1 = n
      BY <1>1
    <3>2. r[n] \in S /\ g[n + 1] \in [S -> S]
      BY <1>1, <2>2, <3>1
    <3>3. r[n + 1] = g[n + 1][r[n]]
      BY <1>9, <3>1 DEF Follows
    <3> QED
      BY <3>2, <3>3
  <2> HIDE DEF U
  <2>3. Nat \subseteq U
    BY <2>1, <2>2, Induction
  <2> QED
    BY <1>1, <2>3 DEF U
<1> QED
  BY <1>8, <1>9, <1>10 DEF r, L

LEMMA SameStates ==
  ASSUME NEW S, NEW s \in S, NEW t \in S, NEW g \in Effects(S), NEW h \in Effects(S),
         NEW i \in Nat, NEW m \in Nat, m + i <= Len(g), m <= Len(h),
         States(s, g)[i] = States(t, h)[0],
         \A n \in 1..m : g[n + i] = h[n]
  PROVE  States(s, g)[m + i] = States(t, h)[m]
<1> DEFINE a == States(s, g)
           b == States(t, h)
           T == {n \in Nat : n <= m => a[n + i] = b[n]}
<1>1. Follows(a, s, g, Len(g)) /\ Follows(b, t, h, Len(h))
  BY StatesFollow
<1>2. Len(g) \in Nat /\ Len(h) \in Nat
  BY DEF Effects
<1>3. 0 \in T
  OBVIOUS
<1> HIDE DEF a, b
<1>4. ASSUME NEW n \in Nat, n \in T
      PROVE  n + 1 \in T
  <2> SUFFICES ASSUME n + 1 <= m PROVE a[n + 1 + i] = b[n + 1]
    OBVIOUS
  <2> DEFINE k == n + 1 + i
  <2>1. k \in 1..Len(g) /\ n + 1 \in 1..Len(h) /\ n + 1 \in 1..m
        /\ k - 1 = n + i /\ n + 1 - 1 = n
    BY <1>2
  <2>2. a[n + i] = b[n]
    BY <1>4
  <2>3. g[k] = h[n + 1]
    BY <2>1
  <2> HIDE DEF k
  <2>4. a[k] = g[k][a[k - 1]] /\ b[n + 1] = h[n + 1][b[n]]
    BY <1>1, <2>1 DEF Follows
  <2> QED
    BY <2>1, <2>2, <2>3, <2>4 DEF k
<1> HIDE DEF T
<1>5. m \in T
  BY <1>3, <1>4, Induction
<1> QED
  BY <1>5 DEF T, a, b

LEMMA InTimeType ==
  ASSUME NEW S, NEW s \in S, NEW g \in Effects(S)
  PROVE  InTime(s, g) \in S
<1>1. States(s, g) \in [0..Len(g) -> S]
  BY StatesFollow
<1>2. Len(g) \in 0..Len(g)
  BY DEF Effects
<1> QED
  BY <1>1, <1>2 DEF InTime

LEMMA InTimeNothing ==
  ASSUME NEW S, NEW s \in S
  PROVE  InTime(s, <<>>) = s
<1>1. <<>> \in Effects(S) /\ Len(<<>>) = 0
  BY DEF Effects
<1>2. Follows(States(s, <<>>), s, <<>>, 0)
  BY <1>1, StatesFollow
<1> QED
  BY <1>1, <1>2 DEF InTime, Follows

(* One more at the end. *)
LEMMA InTimeAppend ==
  ASSUME NEW S, NEW s \in S, NEW g \in Effects(S), NEW e \in [S -> S]
  PROVE  InTime(s, Append(g, e)) = e[InTime(s, g)]
<1> DEFINE h == Append(g, e)
           L == Len(g)
<1>1. /\ h \in Effects(S) /\ L \in Nat /\ Len(h) = L + 1 /\ h[L + 1] = e
      /\ \A n \in 1..L : h[n] = g[n]
  BY DEF Effects
<1> HIDE DEF h
<1>2. /\ Follows(States(s, h), s, h, L + 1) /\ Follows(States(s, g), s, g, L)
  BY <1>1, StatesFollow
<1>3. States(s, h)[0] = States(s, g)[0]
  BY <1>2 DEF Follows
<1>4. States(s, h)[L] = States(s, g)[L]
  <2>1. \A n \in 1..L : h[n + 0] = g[n]
    BY <1>1
  <2>2. L + 0 <= Len(h) /\ L <= Len(g) /\ 0 \in Nat /\ L \in Nat /\ L + 0 = L
    BY <1>1
  <2>3. States(s, h)[L + 0] = States(s, g)[L]
    <3>1. s \in S /\ h \in Effects(S) /\ g \in Effects(S)
      BY <1>1
    <3> HIDE DEF L
    <3> QED
      BY <1>3, <2>1, <2>2, <3>1, SameStates, SMTT(30)
  <2> QED
    BY <2>2, <2>3
<1>5. States(s, h)[L + 1] = h[L + 1][States(s, h)[L]]
  <2>1. L + 1 \in 1..L + 1 /\ L + 1 - 1 = L
    BY <1>1
  <2> QED
    BY <1>2, <2>1 DEF Follows
<1> QED
  BY <1>1, <1>4, <1>5 DEF InTime, h

(* The first has come. *)
LEMMA InTimeTail ==
  ASSUME NEW S, NEW s \in S, NEW g \in Effects(S), g # <<>>
  PROVE  InTime(s, g) = InTime(g[1][s], Tail(g)) /\ g[1][s] \in S
<1> DEFINE h == Tail(g)
           t == g[1][s]
           M == Len(g) - 1
<1>1. /\ h \in Effects(S) /\ M \in Nat /\ Len(g) = M + 1 /\ Len(h) = M
      /\ \A n \in 1..M : g[n + 1] = h[n]
      /\ g[1] \in [S -> S] /\ t \in S
  <2>1. Len(g) \in Nat \ {0} /\ Tail(g) \in Seq([S -> S]) /\ Len(Tail(g)) = Len(g) - 1
    BY DEF Effects
  <2>2. g[1] \in [S -> S]
    BY <2>1 DEF Effects
  <2>3. \A n \in 1..M : Tail(g)[n] = g[n + 1]
    BY <2>1 DEF Effects
  <2> QED
    BY <2>1, <2>2, <2>3 DEF Effects
<1> HIDE DEF h, t, M
<1>2. Follows(States(s, g), s, g, Len(g)) /\ Follows(States(t, h), t, h, Len(h))
  BY <1>1, StatesFollow
<1>3. States(s, g)[1] = States(t, h)[0]
  <2>1. 1 \in 1..Len(g) /\ 1 - 1 = 0
    BY <1>1
  <2> QED
    BY <1>2, <2>1 DEF Follows, t
<1>4. States(s, g)[M + 1] = States(t, h)[M]
  <2> SUFFICES ASSUME NEW i \in Nat, i = 1
               PROVE  States(s, g)[M + i] = States(t, h)[M]
    OBVIOUS
  <2>1. /\ M + i <= Len(g) /\ M <= Len(h) /\ States(s, g)[i] = States(t, h)[0]
        /\ \A n \in 1..M : g[n + i] = h[n]
        /\ M \in Nat /\ h \in Effects(S) /\ t \in S
    BY <1>1, <1>3
  <2> QED
    BY <2>1, SameStates
<1> QED
  BY <1>1, <1>4 DEF InTime, h, t

(* More to begin with is no less in the end. *)
LEMMA InTimeMonotone ==
  ASSUME NEW U, NEW s \in SUBSET U, NEW t \in SUBSET U, s \subseteq t,
         NEW g \in Effects(SUBSET U),
         \A n \in 1..Len(g) : \A x, y \in SUBSET U : x \subseteq y => g[n][x] \subseteq g[n][y]
  PROVE  InTime(s, g) \subseteq InTime(t, g)
<1> DEFINE a == States(s, g)
           b == States(t, g)
           L == Len(g)
           T == {n \in Nat : n <= L => a[n] \subseteq b[n]}
<1>1. /\ Follows(a, s, g, L) /\ Follows(b, t, g, L) /\ L \in Nat
      /\ a \in [0..L -> SUBSET U] /\ b \in [0..L -> SUBSET U]
  <2>1. L \in Nat
    BY DEF Effects
  <2> QED
    BY <2>1, StatesFollow
<1> HIDE DEF a, b
<1>2. 0 \in T
  BY <1>1 DEF Follows
<1>3. ASSUME NEW n \in Nat, n \in T
      PROVE  n + 1 \in T
  <2> SUFFICES ASSUME n + 1 <= L PROVE a[n + 1] \subseteq b[n + 1]
    OBVIOUS
  <2>1. n + 1 \in 1..L /\ n + 1 - 1 = n /\ n \in 0..L /\ a[n] \subseteq b[n]
    BY <1>1, <1>3
  <2>2. a[n + 1] = g[n + 1][a[n]] /\ b[n + 1] = g[n + 1][b[n]]
    BY <1>1, <2>1 DEF Follows
  <2>3. a[n] \in SUBSET U /\ b[n] \in SUBSET U
    BY <1>1, <2>1
  <2> QED
    BY <2>1, <2>2, <2>3
<1> HIDE DEF T
<1>4. L \in T
  BY <1>1, <1>2, <1>3, Induction
<1> QED
  BY <1>1, <1>4 DEF T, InTime, a, b

-----------------------------------------------------------------------------
(***************************************************************************)
(* The effects of a queue of messages, by a table F of what each message   *)
(* does to a state of S.                                                   *)
(***************************************************************************)
Table(M, S) == [M -> [S -> S]]
Looked(F, q) == [i \in DOMAIN q |-> F[q[i]]]
After(s, F, q) == InTime(s, Looked(F, q))

LEMMA LookedUp ==
  ASSUME NEW M, NEW S, NEW F \in Table(M, S), NEW q \in Seq(M)
  PROVE  Looked(F, q) \in Effects(S) /\ Len(Looked(F, q)) = Len(q)
<1>1. DOMAIN q = 1..Len(q) /\ Len(q) \in Nat /\ \A i \in 1..Len(q) : q[i] \in M
  OBVIOUS
<1>2. Looked(F, q) \in [1..Len(q) -> [S -> S]]
  BY <1>1 DEF Looked, Table
<1> QED
  BY <1>1, <1>2 DEF Effects

LEMMA AfterType ==
  ASSUME NEW M, NEW S, NEW F \in Table(M, S), NEW q \in Seq(M), NEW s \in S
  PROVE  After(s, F, q) \in S
BY LookedUp, InTimeType DEF After

LEMMA AfterNothing ==
  ASSUME NEW M, NEW S, NEW F \in Table(M, S), NEW s \in S
  PROVE  After(s, F, <<>>) = s
<1>1. Looked(F, <<>>) = <<>>
  BY DEF Looked
<1> QED
  BY <1>1, InTimeNothing DEF After

LEMMA AfterOneMore ==
  ASSUME NEW M, NEW S, NEW F \in Table(M, S), NEW q \in Seq(M), NEW s \in S, NEW m \in M
  PROVE  After(s, F, Append(q, m)) = F[m][After(s, F, q)]
<1>1. Looked(F, q) \in Effects(S) /\ F[m] \in [S -> S]
  BY LookedUp DEF Table
<1>2. Looked(F, Append(q, m)) = Append(Looked(F, q), F[m])
  <2> DEFINE a == Looked(F, Append(q, m))
             b == Append(Looked(F, q), F[m])
             L == Len(q)
  <2>1. /\ L \in Nat /\ DOMAIN q = 1..L /\ DOMAIN Append(q, m) = 1..L + 1
        /\ \A i \in 1..L + 1 : Append(q, m)[i] = IF i = L + 1 THEN m ELSE q[i]
    OBVIOUS
  <2>2. Looked(F, q) \in Seq([S -> S]) /\ Len(Looked(F, q)) = L
    <3>1. Looked(F, q) \in Effects(S) /\ Len(Looked(F, q)) = Len(q)
      BY LookedUp
    <3> QED
      BY <3>1 DEF Effects
  <2>3. b \in Seq([S -> S]) /\ Len(b) = L + 1
        /\ \A i \in 1..L + 1 : b[i] = IF i = L + 1 THEN F[m] ELSE Looked(F, q)[i]
    BY <1>1, <2>1, <2>2
  <2>4. a = [i \in 1..L + 1 |-> F[Append(q, m)[i]]]
    BY <2>1 DEF Looked
  <2>5. \A i \in 1..L : Looked(F, q)[i] = F[q[i]]
    BY <2>1 DEF Looked
  <2> HIDE DEF a, b, L
  <2>6. b = [i \in 1..L + 1 |-> b[i]]
    BY <2>3
  <2>7. \A i \in 1..L + 1 : b[i] = F[Append(q, m)[i]]
    BY <2>1, <2>3, <2>5
  <2>8. a = b
    BY <2>4, <2>6, <2>7
  <2> QED
    BY <2>8 DEF a, b
<1> QED
  BY <1>1, <1>2, InTimeAppend DEF After

LEMMA AfterFirst ==
  ASSUME NEW M, NEW S, NEW F \in Table(M, S), NEW q \in Seq(M), NEW s \in S, q # <<>>
  PROVE  /\ Head(q) \in M /\ Tail(q) \in Seq(M) /\ F[Head(q)][s] \in S
         /\ After(s, F, q) = After(F[Head(q)][s], F, Tail(q))
<1>1. /\ Len(q) \in Nat \ {0} /\ DOMAIN q = 1..Len(q) /\ Head(q) = q[1] /\ q[1] \in M
      /\ Tail(q) \in Seq(M) /\ DOMAIN Tail(q) = 1..Len(q) - 1
      /\ \A i \in 1..Len(q) - 1 : Tail(q)[i] = q[i + 1]
  OBVIOUS
<1> DEFINE g == Looked(F, q)
<1>2. g \in Effects(S) /\ Len(g) = Len(q) /\ g[1] = F[q[1]]
  BY <1>1, LookedUp DEF Looked
<1>3. g # <<>>
  BY <1>1, <1>2
<1>4. Looked(F, Tail(q)) = Tail(g)
  <2>1. g \in Seq([S -> S])
    BY <1>2 DEF Effects
  <2> DEFINE a == Looked(F, Tail(q))
             b == Tail(g)
  <2>2. b \in Seq([S -> S]) /\ Len(b) = Len(q) - 1 /\ \A i \in 1..Len(q) - 1 : b[i] = g[i + 1]
    BY <1>1, <1>2, <1>3, <2>1
  <2>3. a = [i \in 1..Len(q) - 1 |-> F[Tail(q)[i]]]
    BY <1>1 DEF Looked
  <2>4. \A i \in 1..Len(q) - 1 : g[i + 1] = F[q[i + 1]]
    BY <1>1 DEF Looked
  <2> HIDE DEF a, b, g
  <2>5. b = [i \in 1..Len(q) - 1 |-> b[i]]
    BY <1>1, <2>2
  <2>6. \A i \in 1..Len(q) - 1 : b[i] = F[Tail(q)[i]]
    BY <1>1, <2>2, <2>4
  <2>7. a = b
    BY <2>3, <2>5, <2>6
  <2> QED
    BY <2>7 DEF a, b
<1> HIDE DEF g
<1>5. InTime(s, g) = InTime(g[1][s], Tail(g)) /\ g[1][s] \in S
  BY <1>2, <1>3, InTimeTail
<1> QED
  BY <1>1, <1>2, <1>4, <1>5 DEF After, g

Monotone(F, M, U) ==
  \A m \in M : \A x, y \in SUBSET U : x \subseteq y => F[m][x] \subseteq F[m][y]

LEMMA AfterMonotone ==
  ASSUME NEW M, NEW U, NEW F \in Table(M, SUBSET U), Monotone(F, M, U), NEW q \in Seq(M),
         NEW s \in SUBSET U, NEW t \in SUBSET U, s \subseteq t
  PROVE  After(s, F, q) \subseteq After(t, F, q)
<1> DEFINE g == Looked(F, q)
<1>1. g \in Effects(SUBSET U) /\ Len(g) = Len(q)
  BY LookedUp
<1>2. \A n \in 1..Len(q) : g[n] = F[q[n]] /\ q[n] \in M
  BY DEF Looked
<1> HIDE DEF g
<1>3. \A n \in 1..Len(g) : \A x, y \in SUBSET U : x \subseteq y => g[n][x] \subseteq g[n][y]
  BY <1>1, <1>2 DEF Monotone
<1>4. InTime(s, g) \subseteq InTime(t, g)
  BY <1>1, <1>3, InTimeMonotone
<1> QED
  BY <1>4 DEF After, g

-----------------------------------------------------------------------------
(***************************************************************************)
(* Requests and messages, and what they do.                                *)
(***************************************************************************)
Transactions ==
  [type : {"create", "cancel"}, mine : BOOLEAN, offer : Offer,
   nodes : UNION {[os -> {Whole, Partial, Gone}] : os \in SUBSET Offer}]
Request == [op : {"subscribe", "unsubscribe"}, pair : Pair, visit : Nat]
             \cup [op : {"account_offers"}, pair : {NoPair}, visit : Nat]
Snapshots == [kind : {"snapshot"}, pair : Pair, offers : SUBSET Entry, visit : Nat]
Refusals == [kind : {"refused"}, visit : Nat]
Listings == [kind : {"offers"}, offers : SUBSET Entry, visit : Nat]
News == [kind : {"tx"}, tx : Transactions]
Message == Snapshots \cup Refusals \cup Listings \cup News

(* A subscription asked for or answered is of a pair in D. *)
Asks(D) == {q \in Request : q.op = "subscribe" => q.pair \in D}
Tells(D) == {m \in Message : m.kind = "snapshot" => m.pair \in D}

TradingTyped ==
  /\ stage \in [Offer -> Unborn..Gone]
  /\ subs \subseteq Pair
  /\ up \in Seq(Asks(DOMAIN books)) /\ down \in Seq(Tells(DOMAIN books))
  /\ DOMAIN books \subseteq Pair /\ books \in [DOMAIN books -> SUBSET Entry]
  /\ current \in DOMAIN books \cup {NoPair} /\ formPair \in Pair \cup {NoPair}
  /\ loading \in BOOLEAN /\ (loading => current # NoPair)
  /\ visit \in 1..MaxVisits /\ changes \in 0..MaxChanges
  /\ myOffers \subseteq Entry /\ left \subseteq Pair /\ selfCrossed \subseteq Mine
  /\ kept \subseteq Pair /\ unlisted \in BOOLEAN

LEMMA Queues ==
  ASSUME NEW D, NEW E, D \subseteq E
  PROVE  /\ Seq(Asks(D)) \subseteq Seq(Asks(E)) /\ Seq(Tells(D)) \subseteq Seq(Tells(E))
         /\ Seq(Asks(D)) \subseteq Seq(Request) /\ Seq(Tells(D)) \subseteq Seq(Message)
<1>1. Asks(D) \subseteq Asks(E) /\ Asks(D) \subseteq Request
  BY DEF Asks
<1>2. Tells(D) \subseteq Tells(E) /\ Tells(D) \subseteq Message
  BY DEF Tells
<1>3. ASSUME NEW S, NEW T, S \subseteq T PROVE Seq(S) \subseteq Seq(T)
  BY <1>3
<1> QED
  BY <1>1, <1>2, <1>3, Zenon

LEMMA QueuesTyped ==
  ASSUME TradingTyped
  PROVE  up \in Seq(Request) /\ down \in Seq(Message)
BY Queues DEF TradingTyped

LEMMA Stages == /\ Standing = {Whole, Partial} /\ Gone \notin Standing /\ Unborn \notin Standing
                /\ Unborn..Gone = {Unborn, Whole, Partial, Gone}
                /\ Whole # Partial /\ Unborn # Gone
BY DEF Standing, Unborn, Whole, Partial, Gone

LEMMA MessageKinds ==
  ASSUME NEW m \in Message
  PROVE  /\ m.kind = "snapshot" => m.pair \in Pair /\ m.offers \in SUBSET Entry
         /\ m.kind = "offers" => m.offers \in SUBSET Entry
         /\ m.kind = "tx" => m.tx \in Transactions
         /\ m.kind \in {"snapshot", "refused", "offers", "tx"}
BY DEF Message, Snapshots, Refusals, Listings, News

LEMMA NodeStages ==
  ASSUME NEW tx \in Transactions
  PROVE  /\ Affected(tx) \subseteq Offer /\ tx.offer \in Offer
         /\ \A o \in Affected(tx) : tx.nodes[o] \in {Whole, Partial, Gone}
         /\ \A o \in Affected(tx) : tx.nodes[o] # Gone => <<o, tx.nodes[o]>> \in Entry
<1>1. PICK os \in SUBSET Offer : tx.nodes \in [os -> {Whole, Partial, Gone}]
  BY DEF Transactions
<1> QED
  BY <1>1, Stages DEF Transactions, Affected, Entry

BookTable(p) == [m \in Message |-> OnBook(m, p)]
SubsTable == [q \in Request |-> OnSubs(q)]
ListTable(v) == [m \in Message |-> OnMyOffers(m, v)]

LEMMA IngestType ==
  ASSUME NEW tx \in Transactions, NEW entries \in SUBSET Entry, NEW p
  PROVE  Ingest(entries, tx, p) \in SUBSET Entry
BY NodeStages DEF Ingest

LEMMA MyOffersType ==
  ASSUME NEW tx \in Transactions, NEW list \in SUBSET Entry
  PROVE  MyOffersAfter(list, tx) \in SUBSET Entry
<1>1. <<tx.offer, Whole>> \in Entry
  BY NodeStages, Stages DEF Entry
<1> QED
  BY <1>1, NodeStages DEF MyOffersAfter, Without

LEMMA BookTableType ==
  ASSUME NEW p
  PROVE  BookTable(p) \in Table(Message, SUBSET Entry)
<1> SUFFICES ASSUME NEW m \in Message
             PROVE  OnBook(m, p) \in [SUBSET Entry -> SUBSET Entry]
  BY DEF BookTable, Table
<1> SUFFICES ASSUME NEW es \in SUBSET Entry
             PROVE  (CASE m.kind = "snapshot" /\ m.pair = p -> m.offers
                       [] m.kind = "tx" -> Ingest(es, m.tx, p)
                       [] OTHER -> es) \in SUBSET Entry
  BY DEF OnBook
<1>1. m.kind = "tx" => Ingest(es, m.tx, p) \in SUBSET Entry
  BY MessageKinds, IngestType
<1> QED
  BY <1>1, MessageKinds

LEMMA SubsTableType == SubsTable \in Table(Request, SUBSET Pair)
<1> SUFFICES ASSUME NEW q \in Request
             PROVE  OnSubs(q) \in [SUBSET Pair -> SUBSET Pair]
  BY DEF SubsTable, Table
<1>1. q.op \in {"subscribe", "unsubscribe"} => q.pair \in Pair
  BY DEF Request
<1> QED
  BY <1>1 DEF OnSubs

LEMMA ListTableType ==
  ASSUME NEW v
  PROVE  ListTable(v) \in Table(Message, SUBSET Entry)
<1> SUFFICES ASSUME NEW m \in Message
             PROVE  OnMyOffers(m, v) \in [SUBSET Entry -> SUBSET Entry]
  BY DEF ListTable, Table
<1> SUFFICES ASSUME NEW es \in SUBSET Entry
             PROVE  (CASE m.kind = "tx" -> MyOffersAfter(es, m.tx)
                       [] m.kind = "offers" /\ m.visit = v -> m.offers
                       [] OTHER -> es) \in SUBSET Entry
  BY DEF OnMyOffers
<1>1. m.kind = "tx" => MyOffersAfter(es, m.tx) \in SUBSET Entry
  BY MessageKinds, MyOffersType
<1> QED
  BY <1>1, MessageKinds

LEMMA InTimeAre ==
  ASSUME TradingTyped
  PROVE  /\ \A p : BookInTime(p) = After(books[p], BookTable(p), down)
         /\ SubsInTime = After(subs \ kept, SubsTable, up)
         /\ OffersInTime = After(myOffers, ListTable(visit), down)
<1>1. \A i \in DOMAIN down : down[i] \in Message
  BY QueuesTyped
<1>2. \A i \in DOMAIN up : up[i] \in Request
  BY QueuesTyped
<1>3. ASSUME NEW p PROVE BookInTime(p) = After(books[p], BookTable(p), down)
  <2>1. [i \in DOMAIN down |-> OnBook(down[i], p)] = Looked(BookTable(p), down)
    BY <1>1 DEF Looked, BookTable
  <2> QED
    BY <2>1 DEF BookInTime, After
<1>4. SubsInTime = After(subs \ kept, SubsTable, up)
  <2>1. [i \in DOMAIN up |-> OnSubs(up[i])] = Looked(SubsTable, up)
    BY <1>2 DEF Looked, SubsTable
  <2> QED
    BY <2>1 DEF SubsInTime, After
<1>5. OffersInTime = After(myOffers, ListTable(visit), down)
  <2>1. [i \in DOMAIN down |-> OnMyOffers(down[i], visit)] = Looked(ListTable(visit), down)
    BY <1>1 DEF Looked, ListTable
  <2> QED
    BY <2>1 DEF OffersInTime, After
<1> QED
  BY <1>3, <1>4, <1>5

LEMMA InTimeAreNext ==
  ASSUME TradingTyped'
  PROVE  /\ \A p : BookInTime(p)' = After(books'[p], BookTable(p), down')
         /\ SubsInTime' = After(subs' \ kept', SubsTable, up')
         /\ OffersInTime' = After(myOffers', ListTable(visit'), down')
<1>1. down' \in Seq(Message) /\ up' \in Seq(Request)
  BY Queues DEF TradingTyped
<1>2. /\ \A i \in DOMAIN down' : down'[i] \in Message
      /\ \A i \in DOMAIN up' : up'[i] \in Request
  BY <1>1
<1>3. ASSUME NEW p PROVE BookInTime(p)' = After(books'[p], BookTable(p), down')
  <2>1. [i \in DOMAIN down' |-> OnBook(down'[i], p)] = Looked(BookTable(p), down')
    BY <1>2 DEF Looked, BookTable
  <2> QED
    BY <2>1 DEF BookInTime, After
<1>4. SubsInTime' = After(subs' \ kept', SubsTable, up')
  <2>1. [i \in DOMAIN up' |-> OnSubs(up'[i])] = Looked(SubsTable, up')
    BY <1>2 DEF Looked, SubsTable
  <2> QED
    BY <2>1 DEF SubsInTime, After
<1>5. OffersInTime' = After(myOffers', ListTable(visit'), down')
  <2>1. [i \in DOMAIN down' |-> OnMyOffers(down'[i], visit')] = Looked(ListTable(visit'), down')
    BY <1>2 DEF Looked, ListTable
  <2> QED
    BY <2>1 DEF OffersInTime, After
<1> QED
  BY <1>3, <1>4, <1>5

-----------------------------------------------------------------------------
LEMMA LiveType ==
  ASSUME NEW p
  PROVE  Live(p) \in SUBSET Entry /\ LiveOfMine \in SUBSET Entry
BY DEF Live, LiveOfMine

LEMMA InitTyped == TradingInit => TradingTyped
<1> SUFFICES ASSUME TradingInit PROVE TradingTyped
  OBVIOUS
<1>1. up \in Seq(Asks({})) /\ down \in Seq(Tells({}))
  <2>1. [op |-> "account_offers", pair |-> NoPair, visit |-> 1] \in Asks({})
    BY DEF Asks, Request
  <2> QED
    BY <2>1 DEF TradingInit
<1>2. stage \in [Offer -> Unborn..Gone]
  BY Stages DEF TradingInit
<1>3. 1 \in 1..MaxVisits /\ 0 \in 0..MaxChanges
  BY TradingAssumption
<1>4. DOMAIN books = {} /\ books \in [{} -> SUBSET Entry]
  BY DEF TradingInit
<1> QED
  BY <1>1, <1>2, <1>3, <1>4 DEF TradingInit, TradingTyped

(* The books there are when one is asked for. *)
LEMMA BookAsked ==
  ASSUME TradingTyped, NEW p \in Pair \cup {NoPair}
  PROVE  /\ WithBook(p) \in [DOMAIN books \cup ({p} \ {NoPair}) -> SUBSET Entry]
         /\ \A q \in DOMAIN books : WithBook(p)[q] = books[q]
BY TradingAssumption DEF TradingTyped, WithBook

(* Slip-free setCurrentOrderBook: what it does, by what was current. *)
LEMMA BookChanges ==
  ASSUME TradingTyped, NEW p \in Pair \cup {NoPair}, SetCurrentOrderBook(p)
  PROVE  \/ UNCHANGED <<up, books, current, loading>>
         \/ /\ current' = p /\ p # current /\ books' = WithBook(p) /\ loading' = (p # NoPair)
            /\ \/ current = NoPair /\ p # NoPair /\ up' = Append(up, Ask("subscribe", p))
               \/ current # NoPair /\ p = NoPair /\ up' = Append(up, Ask("unsubscribe", current))
               \/ /\ current # NoPair /\ p # NoPair
                  /\ up' = Append(Append(up, Ask("unsubscribe", current)), Ask("subscribe", p))
<1>1. CASE loading \/ p = current
  BY <1>1 DEF SetCurrentOrderBook
<1>2. CASE ~(loading \/ p = current)
  <2>1. /\ up' = up \o (IF current = NoPair THEN <<>> ELSE <<Ask("unsubscribe", current)>>)
                    \o (IF p = NoPair THEN <<>> ELSE <<Ask("subscribe", p)>>)
        /\ current' = p /\ p # current /\ books' = WithBook(p) /\ loading' = (p # NoPair)
    BY <1>2 DEF SetCurrentOrderBook
  <2> DEFINE u == Ask("unsubscribe", current)
             s == Ask("subscribe", p)
  <2>2. up \in Seq(Request)
    BY QueuesTyped
  <2>3. current \in Pair \cup {NoPair}
    BY DEF TradingTyped
  <2>4. current # NoPair => u \in Request
    BY <2>3 DEF Request, Ask, TradingTyped
  <2>5. p # NoPair => s \in Request
    BY DEF Request, Ask, TradingTyped
  <2> HIDE DEF u, s
  <2>6. CASE current = NoPair
    <3>1. up' = up \o <<>> \o <<s>>
      BY <2>1, <2>6 DEF s
    <3>2. up' = Append(up, s)
      BY <2>1, <2>2, <2>5, <2>6, <3>1
    <3> QED
      BY <2>1, <2>6, <3>2 DEF s
  <2>7. CASE current # NoPair /\ p = NoPair
    <3>1. up' = up \o <<u>> \o <<>>
      BY <2>1, <2>7 DEF u
    <3>2. up' = Append(up, u)
      BY <2>2, <2>4, <2>7, <3>1
    <3> QED
      BY <2>1, <2>7, <3>2 DEF u
  <2>8. CASE current # NoPair /\ p # NoPair
    <3>1. up' = up \o <<u>> \o <<s>>
      BY <2>1, <2>8 DEF u, s
    <3>2. up \o <<u>> = Append(up, u) /\ Append(up, u) \in Seq(Request)
      BY <2>2, <2>4, <2>8
    <3>3. Append(up, u) \o <<s>> = Append(Append(up, u), s)
      BY <2>5, <2>8, <3>2
    <3> QED
      BY <2>1, <2>8, <3>1, <3>2, <3>3 DEF u, s
  <2> QED
    BY <2>6, <2>7, <2>8
<1> QED
  BY <1>1, <1>2

-----------------------------------------------------------------------------
(* The types are kept, action by action. *)
LEMMA Longer ==
  ASSUME NEW M, NEW q \in Seq(M), NEW m \in M
  PROVE  Append(q, m) \in Seq(M)
OBVIOUS

LEMMA AskedRequests ==
  ASSUME TradingTyped, NEW p \in Pair
  PROVE  /\ Ask("subscribe", p) \in Request /\ Ask("unsubscribe", p) \in Request
         /\ \A D : Ask("unsubscribe", p) \in Asks(D) /\ (p \in D => Ask("subscribe", p) \in Asks(D))
BY DEF Request, Ask, Asks, TradingTyped

LEMMA ChangePairTyped ==
  ASSUME TradingTyped, NEW p \in Pair \cup {NoPair}, ChangePair(p)
  PROVE  /\ TradingTyped'
         /\ \A q \in DOMAIN books : q \in DOMAIN books' /\ books'[q] = books[q]
<1>1. /\ changes < MaxChanges /\ changes' = changes + 1 /\ formPair' = p /\ SetCurrentOrderBook(p)
      /\ UNCHANGED <<stage, subs, down, visit, myOffers, left, selfCrossed, refusalVars>>
  BY DEF ChangePair
<1>2. changes' \in 0..MaxChanges
  BY <1>1, TradingAssumption DEF TradingTyped
<1>3. CASE UNCHANGED <<up, books, current, loading>>
  <2>1. TradingTyped'
    BY <1>1, <1>2, <1>3 DEF TradingTyped, refusalVars
  <2> QED
    BY <1>3, <2>1
<1>4. CASE /\ current' = p /\ p # current /\ books' = WithBook(p) /\ loading' = (p # NoPair)
           /\ \/ current = NoPair /\ p # NoPair /\ up' = Append(up, Ask("subscribe", p))
              \/ current # NoPair /\ p = NoPair /\ up' = Append(up, Ask("unsubscribe", current))
              \/ /\ current # NoPair /\ p # NoPair
                 /\ up' = Append(Append(up, Ask("unsubscribe", current)), Ask("subscribe", p))
  <2>1. /\ books' \in [DOMAIN books \cup ({p} \ {NoPair}) -> SUBSET Entry]
        /\ \A q \in DOMAIN books : books'[q] = books[q]
    BY <1>4, BookAsked
  <2>2. /\ books' \in [DOMAIN books' -> SUBSET Entry] /\ DOMAIN books' \subseteq Pair
        /\ DOMAIN books \subseteq DOMAIN books'
        /\ p # NoPair => p \in DOMAIN books'
    BY <2>1 DEF TradingTyped
  <2>3. current # NoPair => current \in Pair
    BY DEF TradingTyped
  <2> DEFINE D == DOMAIN books'
  <2>4. up' \in Seq(Asks(D)) /\ down' \in Seq(Tells(D))
    <3>1. up \in Seq(Asks(D)) /\ down \in Seq(Tells(D))
      BY <2>2, Queues DEF TradingTyped
    <3>2. p # NoPair => Ask("subscribe", p) \in Asks(D)
      BY <2>2, AskedRequests
    <3>3. current # NoPair => Ask("unsubscribe", current) \in Asks(D)
      BY <2>3, AskedRequests
    <3> HIDE DEF D
    <3>4. CASE current = NoPair /\ p # NoPair /\ up' = Append(up, Ask("subscribe", p))
      BY <1>1, <3>1, <3>2, <3>4, Longer
    <3>5. CASE current # NoPair /\ p = NoPair /\ up' = Append(up, Ask("unsubscribe", current))
      BY <1>1, <3>1, <3>3, <3>5, Longer
    <3>6. CASE /\ current # NoPair /\ p # NoPair
               /\ up' = Append(Append(up, Ask("unsubscribe", current)), Ask("subscribe", p))
      <4>1. Append(up, Ask("unsubscribe", current)) \in Seq(Asks(D))
        BY <3>1, <3>3, <3>6, Longer
      <4> QED
        BY <1>1, <3>1, <3>2, <3>6, <4>1, Longer
    <3> QED
      BY <1>4, <3>4, <3>5, <3>6
  <2>5. current' \in DOMAIN books' \cup {NoPair} /\ formPair' \in Pair \cup {NoPair}
    BY <1>1, <1>4, <2>2
  <2>6. TradingTyped'
    BY <1>1, <1>2, <1>4, <2>2, <2>4, <2>5 DEF TradingTyped, refusalVars
  <2> QED
    BY <2>1, <2>2, <2>6
<1> QED
  BY <1>1, <1>3, <1>4, BookChanges

LEMMA OpenTyped ==
  ASSUME TradingTyped, OpenPageAgain
  PROVE  TradingTyped'
<1> DEFINE q == [op |-> "account_offers", pair |-> NoPair, visit |-> visit + 1]
<1>1. visit \in Nat /\ visit + 1 \in 1..MaxVisits
  BY TradingAssumption DEF OpenPageAgain, TradingTyped
<1>2. q \in Asks(DOMAIN books)
  BY <1>1 DEF Asks, Request
<1>3. up' \in Seq(Asks(DOMAIN books))
  <2>1. up' = Append(up, q) /\ up \in Seq(Asks(DOMAIN books))
    BY DEF OpenPageAgain, TradingTyped
  <2> HIDE DEF q
  <2> QED
    BY <1>2, <2>1
<1>4. left' \subseteq Pair
  BY DEF OpenPageAgain, TradingTyped
<1> HIDE DEF q
<1> QED
  BY <1>1, <1>3, <1>4 DEF OpenPageAgain, TradingTyped, refusalVars

LEMMA TakeUpTyped ==
  ASSUME TradingTyped, TakeUp
  PROVE  /\ TradingTyped' /\ Head(up) \in Request
         /\ Head(up).op = "subscribe" => Head(up).pair \in DOMAIN books
<1> DEFINE q == Head(up)
           D == DOMAIN books
<1>1. /\ up # <<>> /\ up \in Seq(Asks(D)) /\ up' = Tail(up) /\ down \in Seq(Tells(D))
      /\ UNCHANGED <<stage, bookVars, myOffers, selfCrossed>>
  BY DEF TakeUp, TradingTyped
<1>2. up' \in Seq(Asks(D)) /\ q \in Asks(D)
  BY <1>1
<1>3. /\ q \in Request /\ q.visit \in Nat /\ (q.op \in {"subscribe", "unsubscribe"} => q.pair \in Pair)
      /\ q.op = "subscribe" => q.pair \in D
  BY <1>2 DEF Request, Asks
<1>4. subs' \subseteq Pair /\ (down' = down \/ \E m \in Tells(D) : down' = Append(down, m))
  <2>1. CASE /\ q.op = "subscribe" /\ subs' = subs \cup {q.pair}
             /\ down' = Append(down, [kind |-> "snapshot", pair |-> q.pair,
                                      offers |-> Live(q.pair), visit |-> q.visit])
    <3> DEFINE m == [kind |-> "snapshot", pair |-> q.pair,
                     offers |-> Live(q.pair), visit |-> q.visit]
    <3>1. m \in Snapshots /\ m.pair \in D
      BY <1>3, <2>1, LiveType DEF Snapshots
    <3> QED
      BY <1>3, <2>1, <3>1 DEF TradingTyped, Message, Tells
  <2>2. CASE /\ q.op = "subscribe" /\ subs' = subs
             /\ down' = Append(down, [kind |-> "refused", visit |-> q.visit])
    <3> DEFINE m == [kind |-> "refused", visit |-> q.visit]
    <3>1. m \in Refusals /\ m.kind # "snapshot"
      BY <1>3 DEF Refusals
    <3> QED
      BY <2>2, <3>1 DEF TradingTyped, Message, Tells
  <2>3. CASE subs' \subseteq subs /\ down' = down
    BY <2>3 DEF TradingTyped
  <2>4. CASE /\ q.op = "account_offers" /\ subs' = subs
             /\ down' = Append(down, [kind |-> "offers", offers |-> LiveOfMine, visit |-> q.visit])
    <3> DEFINE m == [kind |-> "offers", offers |-> LiveOfMine, visit |-> q.visit]
    <3>1. m \in Listings /\ m.kind # "snapshot"
      BY <1>3, LiveType DEF Listings
    <3> QED
      BY <2>4, <3>1 DEF TradingTyped, Message, Tells
  <2> QED
    BY <2>1, <2>2, <2>3, <2>4 DEF TakeUp
<1>5. down' \in Seq(Tells(D))
  BY <1>1, <1>4, Longer
<1>6. kept' \subseteq Pair /\ unlisted' \in BOOLEAN
  BY <1>3 DEF TakeUp, TradingTyped, refusalVars
<1> HIDE DEF q
<1>7. TradingTyped'
  BY <1>1, <1>2, <1>4, <1>5, <1>6 DEF TradingTyped, bookVars
<1> QED
  BY <1>3, <1>7 DEF q

(* What the ledger publishes. *)
WellFormed(tx) ==
  /\ tx \in Transactions
  /\ tx.mine <=> tx.offer \in Mine
  /\ tx.type = "cancel" => Affected(tx) = {tx.offer} /\ tx.nodes[tx.offer] = Gone
  /\ tx.type = "create" => /\ stage[tx.offer] = Unborn
                           /\ tx.offer \in Affected(tx) => tx.nodes[tx.offer] \in Standing
                           /\ \A x \in Affected(tx) \ {tx.offer} : stage[x] \in Standing
                           /\ tx.mine => \A x \in (Affected(tx) \cap Mine) \ {tx.offer} : tx.nodes[x] = Gone

LEMMA PublishTyped ==
  ASSUME TradingTyped, NEW tx, WellFormed(tx), Publish(tx)
  PROVE  TradingTyped'
<1>1. /\ stage' = [o \in Offer |-> IF o \in Affected(tx) THEN tx.nodes[o]
                                   ELSE IF o = tx.offer THEN Gone ELSE stage[o]]
      /\ down' = IF Heard(tx) THEN Append(down, [kind |-> "tx", tx |-> tx]) ELSE down
      /\ UNCHANGED <<subs, up, bookVars, myOffers, refusalVars>>
      /\ selfCrossed' \subseteq selfCrossed \cup Mine
  BY DEF Publish
<1>2. [kind |-> "tx", tx |-> tx] \in Tells(DOMAIN books)
  BY DEF Message, News, WellFormed, Tells
<1>3. down' \in Seq(Tells(DOMAIN books))
  <2> DEFINE m == [kind |-> "tx", tx |-> tx]
  <2>1. m \in Tells(DOMAIN books) /\ down \in Seq(Tells(DOMAIN books))
    BY <1>2 DEF TradingTyped
  <2>2. down' = down \/ down' = Append(down, m)
    BY <1>1
  <2> HIDE DEF m
  <2> QED
    BY <2>1, <2>2, Longer
<1>4. stage' \in [Offer -> Unborn..Gone]
  BY <1>1, NodeStages, Stages DEF WellFormed, TradingTyped
<1> QED
  BY <1>1, <1>3, <1>4 DEF TradingTyped, bookVars, refusalVars

LEMMA DeliveryTyped ==
  ASSUME TradingTyped, Delivery
  PROVE  /\ TradingTyped' /\ down # <<>> /\ down' = Tail(down) /\ Head(down) \in Message
         /\ DOMAIN books' = DOMAIN books
         /\ UNCHANGED <<stage, subs, up, formPair, current, visit, changes, left, selfCrossed, refusalVars>>
<1> DEFINE m == Head(down)
<1>1. /\ down # <<>> /\ down' = Tail(down) /\ down \in Seq(Tells(DOMAIN books))
      /\ UNCHANGED <<stage, subs, up, formPair, current, visit, changes, left, selfCrossed, refusalVars>>
  BY DEF Delivery, ReceiveSnapshot, ReceiveRefusal, ReceiveOffers, ReceiveTransaction, bookVars, TradingTyped
<1>2. /\ m \in Message /\ down' \in Seq(Tells(DOMAIN books)) /\ (m.kind = "snapshot" => m.pair \in DOMAIN books)
  <2>1. m \in Tells(DOMAIN books) /\ down' \in Seq(Tells(DOMAIN books))
    BY <1>1
  <2> QED
    BY <2>1 DEF Tells
<1>3. /\ DOMAIN books' = DOMAIN books /\ books' \in [DOMAIN books -> SUBSET Entry]
      /\ loading' \in BOOLEAN /\ (loading' => loading) /\ myOffers' \subseteq Entry
  <2>1. CASE ReceiveSnapshot
    BY <1>2, <2>1, MessageKinds DEF ReceiveSnapshot, TradingTyped
  <2>2. CASE ReceiveRefusal
    BY <2>2 DEF ReceiveRefusal, TradingTyped
  <2>3. CASE ReceiveOffers
    BY <1>2, <2>3, MessageKinds DEF ReceiveOffers, TradingTyped, bookVars
  <2>4. CASE ReceiveTransaction
    <3>1. /\ m.tx \in Transactions /\ loading' = loading
          /\ books' = [p \in DOMAIN books |-> Ingest(books[p], m.tx, p)]
          /\ myOffers' = MyOffersAfter(myOffers, m.tx)
      BY <1>2, <2>4, MessageKinds DEF ReceiveTransaction
    <3>2. \A p \in DOMAIN books : Ingest(books[p], m.tx, p) \in SUBSET Entry
      BY <3>1, IngestType DEF TradingTyped
    <3>3. myOffers' \in SUBSET Entry
      BY <3>1, MyOffersType DEF TradingTyped
    <3> QED
      BY <3>1, <3>2, <3>3 DEF TradingTyped
  <2> QED
    BY <2>1, <2>2, <2>3, <2>4 DEF Delivery
<1> HIDE DEF m
<1> QED
  BY <1>1, <1>2, <1>3 DEF TradingTyped, refusalVars, m

(* Every step of the ledger publishes one such transaction. *)
LEMMA TransactionBuilt ==
  ASSUME NEW type \in {"create", "cancel"}, NEW o \in Offer, NEW os \in SUBSET Offer,
         NEW nodes \in [os -> {Whole, Partial, Gone}], NEW tx, tx = Transaction(type, o, nodes)
  PROVE  /\ tx \in Transactions /\ tx.type = type /\ (tx.mine <=> o \in Mine)
         /\ tx.offer = o /\ tx.nodes = nodes /\ Affected(tx) = os
<1>1. (o \in Mine) \in BOOLEAN
  OBVIOUS
<1>2. tx.nodes = nodes /\ DOMAIN nodes = os
  BY DEF Transaction
<1>3. tx \in Transactions
  BY <1>1, Zenon DEF Transaction, Transactions
<1> QED
  BY <1>2, <1>3 DEF Transaction, Affected

LEMMA LedgerPublishes ==
  ASSUME TradingTyped, Ledger
  PROVE  \E tx : WellFormed(tx) /\ Publish(tx)
<1>2. ASSUME NEW o \in Offer, PlaceOffer(o)
      PROVE  \E tx : WellFormed(tx) /\ Publish(tx)
  <2> DEFINE n == [x \in {o} |-> Whole]
  <2>1. {o} \in SUBSET Offer /\ n \in [{o} -> {Whole, Partial, Gone}] /\ n[o] = Whole
    OBVIOUS
  <2>2. stage[o] = Unborn /\ Publish(Transaction("create", o, n))
    BY <1>2 DEF PlaceOffer
  <2> HIDE DEF n
  <2> DEFINE tx == Transaction("create", o, n)
  <2>3. /\ tx \in Transactions /\ tx.type = "create" /\ (tx.mine <=> o \in Mine)
        /\ tx.offer = o /\ tx.nodes = n /\ Affected(tx) = {o}
    BY <2>1, TransactionBuilt
  <2> HIDE DEF tx
  <2>4. WellFormed(tx)
    BY <2>1, <2>2, <2>3, Stages DEF WellFormed
  <2> QED
    BY <2>2, <2>4 DEF tx
<1>3. ASSUME NEW o \in Offer, CancelOffer(o)
      PROVE  \E tx : WellFormed(tx) /\ Publish(tx)
  <2> DEFINE n == [x \in {o} |-> Gone]
  <2>1. {o} \in SUBSET Offer /\ n \in [{o} -> {Whole, Partial, Gone}] /\ n[o] = Gone
    OBVIOUS
  <2>2. Publish(Transaction("cancel", o, n))
    BY <1>3 DEF CancelOffer
  <2> HIDE DEF n
  <2> DEFINE tx == Transaction("cancel", o, n)
  <2>3. /\ tx \in Transactions /\ tx.type = "cancel" /\ (tx.mine <=> o \in Mine)
        /\ tx.offer = o /\ tx.nodes = n /\ Affected(tx) = {o}
    BY <2>1, TransactionBuilt
  <2> HIDE DEF tx
  <2>4. WellFormed(tx)
    BY <2>1, <2>3, Stages DEF WellFormed
  <2> QED
    BY <2>2, <2>4 DEF tx
<1>4. ASSUME NEW o \in Offer, NEW x \in Offer, PlaceCrossing(o, x)
      PROVE  \E tx : WellFormed(tx) /\ Publish(tx)
  <2>1. stage[o] = Unborn /\ stage[x] \in Standing /\ x # o
    BY <1>4, Stages DEF PlaceCrossing
  <2>2. ASSUME NEW s \in Standing, NEW t \in {Whole, Partial, Gone},
               Publish(Transaction("create", o, [y \in {o, x} |-> IF y = o THEN s ELSE t])),
               {o, x} \subseteq Mine => t = Gone
        PROVE  \E tx : WellFormed(tx) /\ Publish(tx)
    <3> DEFINE n == [y \in {o, x} |-> IF y = o THEN s ELSE t]
    <3>1. {o, x} \in SUBSET Offer /\ n \in [{o, x} -> {Whole, Partial, Gone}] /\ n[o] = s /\ n[x] = t
      BY <2>1, Stages
    <3> HIDE DEF n
    <3> DEFINE tx == Transaction("create", o, n)
    <3>2. /\ tx \in Transactions /\ tx.type = "create" /\ (tx.mine <=> o \in Mine)
          /\ tx.offer = o /\ tx.nodes = n /\ Affected(tx) = {o, x}
      BY <3>1, TransactionBuilt
    <3>3. Publish(tx)
      BY <2>2 DEF n
    <3> HIDE DEF tx
    <3>4. WellFormed(tx)
      BY <2>1, <2>2, <3>1, <3>2, Stages DEF WellFormed
    <3> QED
      BY <3>3, <3>4
  <2>3. ASSUME NEW t \in {Whole, Partial, Gone}, Publish(Transaction("create", o, [y \in {x} |-> t])),
               {o, x} \subseteq Mine => t = Gone
        PROVE  \E tx : WellFormed(tx) /\ Publish(tx)
    <3> DEFINE n == [y \in {x} |-> t]
    <3>1. {x} \in SUBSET Offer /\ n \in [{x} -> {Whole, Partial, Gone}] /\ n[x] = t
      OBVIOUS
    <3> HIDE DEF n
    <3> DEFINE tx == Transaction("create", o, n)
    <3>2. /\ tx \in Transactions /\ tx.type = "create" /\ (tx.mine <=> o \in Mine)
          /\ tx.offer = o /\ tx.nodes = n /\ Affected(tx) = {x}
      BY <3>1, TransactionBuilt
    <3>3. Publish(tx)
      BY <2>3 DEF n
    <3> HIDE DEF tx
    <3>4. WellFormed(tx)
      BY <2>1, <2>3, <3>1, <3>2, Stages DEF WellFormed
    <3> QED
      BY <3>3, <3>4
  <2> QED
    BY <1>4, <2>2, <2>3, Stages DEF PlaceCrossing
<1> QED
  BY <1>2, <1>3, <1>4 DEF Ledger

-----------------------------------------------------------------------------
(***************************************************************************)
(* BooksFollowLedger.                                                      *)
(***************************************************************************)
(* A book that agrees with the ledger and ingests a transaction agrees with *)
(* the ledger after it.                                                     *)
LEMMA IngestIsLive ==
  ASSUME TradingTyped, NEW tx, WellFormed(tx), Publish(tx), NEW p
  PROVE  Ingest(Live(p), tx, p) = Live(p)'
<1> DEFINE hit == {o \in Affected(tx) : PairOf[o] = p}
           rest == {e \in Live(p) : e[1] \notin hit}
           put == {<<o, tx.nodes[o]>> : o \in {h \in hit : tx.nodes[h] # Gone}}
<1>1. Ingest(Live(p), tx, p) = rest \cup put
  BY DEF Ingest
<1>2. /\ \A o \in Affected(tx) : o \in Offer /\ stage'[o] = tx.nodes[o]
      /\ \A o \in Offer \ Affected(tx) : o # tx.offer => stage'[o] = stage[o]
      /\ tx.offer \notin Affected(tx) => stage[tx.offer] = Unborn /\ stage'[tx.offer] = Gone
  BY NodeStages DEF WellFormed, Publish, Transactions
<1>3. \A o \in Affected(tx) : tx.nodes[o] # Gone => <<o, tx.nodes[o]>> \in Entry
  BY NodeStages DEF WellFormed
<1>4. ASSUME NEW e \in Entry
      PROVE  e \in Live(p)' <=> e \in rest \cup put
  <2>1. /\ e = <<e[1], e[2]>> /\ e[1] \in Offer /\ e[2] \in Standing
        /\ e \in Live(p)' <=> PairOf[e[1]] = p /\ stage'[e[1]] = e[2]
        /\ e \in Live(p) <=> PairOf[e[1]] = p /\ stage[e[1]] = e[2]
    BY DEF Entry, Live
  <2>2. CASE e[1] \in hit
    <3>1. e \in put <=> e[2] = tx.nodes[e[1]]
      BY <2>1, <2>2, Stages
    <3> QED
      BY <1>2, <2>1, <2>2, <3>1
  <2>3. CASE e[1] \notin hit
    <3>1. e \notin put /\ (e \in rest <=> e \in Live(p))
      BY <2>3
    <3> QED
      BY <1>2, <2>1, <2>3, <3>1, Stages
  <2> QED
    BY <2>2, <2>3
<1>5. rest \cup put \subseteq Entry /\ Live(p)' \subseteq Entry
  BY <1>3 DEF Live
<1> HIDE DEF rest, put
<1> QED
  BY <1>1, <1>4, <1>5

LEMMA PublishKeepsBooks ==
  ASSUME TradingTyped, BooksFollowLedger, NEW tx, WellFormed(tx), Publish(tx)
  PROVE  BooksFollowLedger'
<1>1. TradingTyped'
  BY PublishTyped
<1>2. subs' = subs /\ books' = books
  BY DEF Publish, bookVars
<1> SUFFICES ASSUME NEW p \in subs
             PROVE  p \in DOMAIN books' /\ BookInTime(p)' = Live(p)'
  BY <1>2 DEF BooksFollowLedger
<1>3. p \in DOMAIN books /\ books[p] \in SUBSET Entry /\ After(books[p], BookTable(p), down) = Live(p)
  BY InTimeAre DEF BooksFollowLedger, TradingTyped
<1>4. BookInTime(p)' = After(books[p], BookTable(p), down')
  BY <1>1, <1>2, InTimeAreNext
<1>5. CASE Heard(tx)
  <2> DEFINE m == [kind |-> "tx", tx |-> tx]
  <2>1. m \in Message /\ m.kind = "tx" /\ m.tx = tx
    BY DEF Message, News, WellFormed
  <2>2. down' = Append(down, m)
    BY <1>5 DEF Publish
  <2>3. BookTable(p)[m][Live(p)] = Ingest(Live(p), tx, p)
    BY <2>1, LiveType DEF BookTable, OnBook
  <2> HIDE DEF m
  <2>4. After(books[p], BookTable(p), down') = BookTable(p)[m][Live(p)]
    BY <1>3, <2>1, <2>2, QueuesTyped, BookTableType, AfterOneMore
  <2> QED
    BY <1>2, <1>3, <1>4, <2>3, <2>4, IngestIsLive
<1>6. CASE ~Heard(tx)
  <2>1. down' = down
    BY <1>6 DEF Publish
  <2>2. {o \in Affected(tx) : PairOf[o] = p} = {}
    BY <1>6 DEF Heard
  <2>3. Ingest(Live(p), tx, p) = Live(p)
    BY <2>2 DEF Ingest
  <2> QED
    BY <1>2, <1>3, <1>4, <2>1, <2>3, IngestIsLive
<1> QED
  BY <1>5, <1>6

(* A message that is not about the book of p does nothing to it. *)
LEMMA OtherMessages ==
  ASSUME NEW p, NEW m \in Message, m.kind # "tx", m.kind = "snapshot" => m.pair # p,
         NEW es \in SUBSET Entry
  PROVE  BookTable(p)[m][es] = es
BY DEF BookTable, OnBook

LEMMA TakeUpKeepsBooks ==
  ASSUME TradingTyped, BooksFollowLedger, TakeUp
  PROVE  BooksFollowLedger'
<1> DEFINE q == Head(up)
<1>1. /\ TradingTyped' /\ q \in Request /\ (q.op = "subscribe" => q.pair \in DOMAIN books)
      /\ q.visit \in Nat /\ books' = books /\ stage' = stage
  BY TakeUpTyped DEF TakeUp, bookVars, Request
<1> SUFFICES ASSUME NEW p \in subs'
             PROVE  p \in DOMAIN books /\ After(books[p], BookTable(p), down') = Live(p)
  BY <1>1, InTimeAreNext DEF BooksFollowLedger, Live
<1>2. ASSUME p \in subs
      PROVE  p \in DOMAIN books /\ After(books[p], BookTable(p), down) = Live(p)
  BY <1>2, InTimeAre DEF BooksFollowLedger
<1>3. ASSUME p \in DOMAIN books, NEW m \in Message, down' = Append(down, m)
      PROVE  /\ After(books[p], BookTable(p), down') = BookTable(p)[m][After(books[p], BookTable(p), down)]
             /\ After(books[p], BookTable(p), down) \in SUBSET Entry
  <2>1. books[p] \in SUBSET Entry /\ down \in Seq(Message)
    BY <1>3, QueuesTyped DEF TradingTyped
  <2>2. After(books[p], BookTable(p), down) \in SUBSET Entry
    BY <2>1, BookTableType, AfterType
  <2> QED
    BY <1>3, <2>1, <2>2, BookTableType, AfterOneMore
<1>4. CASE /\ q.op = "subscribe" /\ subs' = subs \cup {q.pair}
           /\ down' = Append(down, [kind |-> "snapshot", pair |-> q.pair,
                                    offers |-> Live(q.pair), visit |-> q.visit])
  <2> DEFINE m == [kind |-> "snapshot", pair |-> q.pair,
                   offers |-> Live(q.pair), visit |-> q.visit]
  <2>1. q.pair \in Pair
    BY <1>1, <1>4 DEF TradingTyped
  <2>2. m \in Message /\ m.kind = "snapshot" /\ m.pair = q.pair /\ m.offers = Live(q.pair)
    BY <1>1, <2>1, LiveType DEF Snapshots, Message
  <2>3. p \in DOMAIN books
    BY <1>1, <1>2, <1>4
  <2> HIDE DEF m, q
  <2>4. down' = Append(down, m)
    BY <1>4 DEF m
  <2> DEFINE es == After(books[p], BookTable(p), down)
  <2>5. After(books[p], BookTable(p), down') = BookTable(p)[m][es] /\ es \in SUBSET Entry
    BY <1>3, <2>2, <2>3, <2>4
  <2>6. CASE p = q.pair
    <3>1. BookTable(p)[m][es] = Live(p)
      BY <2>2, <2>5, <2>6 DEF BookTable, OnBook
    <3> QED
      BY <2>3, <2>5, <3>1
  <2>7. CASE p # q.pair
    <3>1. es = Live(p)
      BY <1>2, <1>4, <2>7
    <3>2. BookTable(p)[m][es] = es
      BY <2>2, <2>5, <2>7, OtherMessages
    <3> QED
      BY <2>3, <2>5, <3>1, <3>2
  <2> QED
    BY <2>6, <2>7
<1>5. ASSUME p \in subs, NEW m \in Message, down' = Append(down, m), m.kind \in {"refused", "offers"}
      PROVE  p \in DOMAIN books /\ After(books[p], BookTable(p), down') = Live(p)
  <2> DEFINE es == After(books[p], BookTable(p), down)
  <2>1. p \in DOMAIN books /\ es = Live(p)
    BY <1>2, <1>5
  <2>2. After(books[p], BookTable(p), down') = BookTable(p)[m][es] /\ es \in SUBSET Entry
    BY <1>3, <1>5, <2>1
  <2> HIDE DEF es
  <2>3. BookTable(p)[m][es] = es
    BY <1>5, <2>2, OtherMessages
  <2> QED
    BY <2>1, <2>2, <2>3
<1>6. CASE /\ q.op = "subscribe" /\ subs' = subs
           /\ down' = Append(down, [kind |-> "refused", visit |-> q.visit])
  <2> DEFINE m == [kind |-> "refused", visit |-> q.visit]
  <2>1. m \in Message /\ m.kind = "refused"
    BY <1>1 DEF Message, Refusals
  <2>2. down' = Append(down, m) /\ p \in subs
    BY <1>6
  <2> HIDE DEF m
  <2> QED
    BY <1>5, <2>1, <2>2
<1>7. CASE subs' \subseteq subs /\ down' = down
  BY <1>2, <1>7
<1>8. CASE /\ q.op = "account_offers" /\ subs' = subs
           /\ down' = Append(down, [kind |-> "offers", offers |-> LiveOfMine, visit |-> q.visit])
  <2> DEFINE m == [kind |-> "offers", offers |-> LiveOfMine, visit |-> q.visit]
  <2>1. m \in Message /\ m.kind = "offers"
    BY <1>1, LiveType DEF Message, Listings
  <2>2. down' = Append(down, m) /\ p \in subs
    BY <1>8
  <2> HIDE DEF m
  <2> QED
    BY <1>5, <2>1, <2>2
<1> HIDE DEF q
<1> QED
  BY <1>4, <1>6, <1>7, <1>8 DEF TakeUp, q

(* What comes has the effect that was foreseen. *)
LEMMA DeliveryKeepsBooks ==
  ASSUME TradingTyped, BooksFollowLedger, Delivery
  PROVE  BooksFollowLedger'
<1> DEFINE m == Head(down)
<1>1. /\ TradingTyped' /\ down # <<>> /\ down' = Tail(down) /\ m \in Message
      /\ DOMAIN books' = DOMAIN books /\ subs' = subs /\ stage' = stage
  BY DeliveryTyped
<1>2. ASSUME NEW p \in DOMAIN books
      PROVE  books'[p] = BookTable(p)[m][books[p]]
  <2>1. books[p] \in SUBSET Entry
    BY DEF TradingTyped
  <2>2. CASE m.kind = "snapshot"
    <3>1. books' = [books EXCEPT ![m.pair] = m.offers]
      BY <2>2 DEF Delivery, ReceiveSnapshot, ReceiveRefusal, ReceiveOffers, ReceiveTransaction
    <3> QED
      BY <1>1, <2>1, <2>2, <3>1 DEF BookTable, OnBook
  <2>3. CASE m.kind = "tx"
    <3>1. books' = [x \in DOMAIN books |-> Ingest(books[x], m.tx, x)]
      BY <2>3 DEF Delivery, ReceiveSnapshot, ReceiveRefusal, ReceiveOffers, ReceiveTransaction
    <3> QED
      BY <1>1, <2>1, <2>3, <3>1 DEF BookTable, OnBook
  <2>4. CASE m.kind \notin {"snapshot", "tx"}
    <3>1. books' = books
      BY <2>4 DEF Delivery, ReceiveSnapshot, ReceiveRefusal, ReceiveOffers, ReceiveTransaction, bookVars
    <3> QED
      BY <1>1, <2>1, <2>4, <3>1, OtherMessages
  <2> QED
    BY <2>2, <2>3, <2>4
<1> HIDE DEF m
<1>3. ASSUME NEW p \in subs
      PROVE  p \in DOMAIN books' /\ BookInTime(p)' = Live(p)'
  <2>1. p \in DOMAIN books /\ books[p] \in SUBSET Entry /\ After(books[p], BookTable(p), down) = Live(p)
    BY InTimeAre DEF BooksFollowLedger, TradingTyped
  <2>2. After(books[p], BookTable(p), down) = After(BookTable(p)[m][books[p]], BookTable(p), down')
    BY <1>1, <2>1, QueuesTyped, BookTableType, AfterFirst DEF m
  <2>3. BookInTime(p)' = After(books'[p], BookTable(p), down')
    BY <1>1, InTimeAreNext
  <2>4. Live(p)' = Live(p)
    BY <1>1 DEF Live
  <2> QED
    BY <1>1, <1>2, <2>1, <2>2, <2>3, <2>4
<1> QED
  BY <1>1, <1>3 DEF BooksFollowLedger

LEMMA ChangePairKeepsBooks ==
  ASSUME TradingTyped, BooksFollowLedger, NEW p \in Pair \cup {NoPair}, ChangePair(p)
  PROVE  BooksFollowLedger'
<1>1. /\ TradingTyped' /\ subs' = subs /\ stage' = stage /\ down' = down
      /\ \A x \in DOMAIN books : x \in DOMAIN books' /\ books'[x] = books[x]
  BY ChangePairTyped DEF ChangePair
<1>2. ASSUME NEW x \in subs
      PROVE  x \in DOMAIN books' /\ BookInTime(x)' = Live(x)'
  <2>1. x \in DOMAIN books /\ BookInTime(x) = Live(x)
    BY DEF BooksFollowLedger
  <2>2. x \in DOMAIN books' /\ books'[x] = books[x]
    BY <1>1, <2>1
  <2>3. BookInTime(x)' = After(books'[x], BookTable(x), down')
    BY <1>1, InTimeAreNext
  <2>4. BookInTime(x) = After(books[x], BookTable(x), down)
    BY InTimeAre
  <2>5. Live(x)' = Live(x)
    BY <1>1 DEF Live
  <2> QED
    BY <1>1, <2>1, <2>2, <2>3, <2>4, <2>5
<1> QED
  BY <1>1, <1>2 DEF BooksFollowLedger

LEMMA OpenKeepsBooks ==
  ASSUME BooksFollowLedger, OpenPageAgain
  PROVE  BooksFollowLedger'
BY DEF BooksFollowLedger, OpenPageAgain, BookInTime, Live

-----------------------------------------------------------------------------
(***************************************************************************)
(* OneBookWatched.                                                         *)
(***************************************************************************)
LEMMA SubsEffects ==
  ASSUME NEW q \in Request, NEW ps \in SUBSET Pair
  PROVE  /\ q.op = "subscribe" => SubsTable[q][ps] = ps \cup {q.pair}
         /\ q.op = "unsubscribe" => SubsTable[q][ps] = ps \ {q.pair}
         /\ q.op = "account_offers" => SubsTable[q][ps] = ps
         /\ q.op \in {"subscribe", "unsubscribe", "account_offers"}
<1>1. SubsTable[q][ps] = CASE q.op = "subscribe" -> ps \cup {q.pair}
                            [] q.op = "unsubscribe" -> ps \ {q.pair}
                            [] OTHER -> ps
  BY DEF SubsTable, OnSubs
<1>2. q.op \in {"subscribe", "unsubscribe", "account_offers"}
  BY DEF Request
<1> QED
  BY <1>1, <1>2

(* One more request has its effect last. *)
LEMMA SubsAfterMore ==
  ASSUME NEW q \in Seq(Request), NEW ps \in SUBSET Pair, NEW m \in Request
  PROVE  /\ After(ps, SubsTable, Append(q, m)) = SubsTable[m][After(ps, SubsTable, q)]
         /\ Append(q, m) \in Seq(Request)
BY SubsTableType, AfterOneMore, Longer

LEMMA SubsOneMore ==
  ASSUME TradingTyped, TradingTyped', UNCHANGED <<subs, kept>>, NEW q \in Request, up' = Append(up, q)
  PROVE  SubsInTime' = SubsTable[q][SubsInTime] /\ SubsInTime \in SUBSET Pair
<1>1. /\ SubsInTime = After(subs \ kept, SubsTable, up) /\ SubsInTime' = After(subs' \ kept', SubsTable, up')
      /\ up \in Seq(Request) /\ subs \ kept \in SUBSET Pair
  BY InTimeAre, InTimeAreNext, QueuesTyped DEF TradingTyped
<1>2. After(subs \ kept, SubsTable, up) \in SUBSET Pair
  BY <1>1, SubsTableType, AfterType
<1>3. After(subs \ kept, SubsTable, Append(up, q)) = SubsTable[q][After(subs \ kept, SubsTable, up)]
  BY <1>1, SubsTableType, AfterOneMore
<1> QED
  BY <1>1, <1>2, <1>3

LEMMA ChangePairWatchesOne ==
  ASSUME TradingTyped, OneBookWatched, NEW p \in Pair \cup {NoPair}, ChangePair(p)
  PROVE  OneBookWatched'
<1>1. TradingTyped' /\ UNCHANGED <<subs, kept>> /\ left' = left /\ SetCurrentOrderBook(p)
  BY ChangePairTyped DEF ChangePair, refusalVars
<1>2. /\ SubsInTime = After(subs \ kept, SubsTable, up) /\ SubsInTime' = After(subs \ kept, SubsTable, up')
      /\ up \in Seq(Request) /\ subs \ kept \in SUBSET Pair /\ current \in Pair \cup {NoPair}
  BY <1>1, InTimeAre, InTimeAreNext, QueuesTyped DEF TradingTyped
<1>3. CASE up' = up /\ current' = current
  BY <1>1, <1>2, <1>3 DEF OneBookWatched
<1> DEFINE u == Ask("unsubscribe", current)
           s == Ask("subscribe", p)
           ps == SubsInTime
<1>4. /\ current # NoPair => u \in Request /\ u.op = "unsubscribe" /\ u.pair = current
      /\ p # NoPair => s \in Request /\ s.op = "subscribe" /\ s.pair = p
  BY <1>2, AskedRequests DEF Ask
<1>5. ps \in SUBSET Pair /\ ps \subseteq {current} \cup left
  BY <1>2, SubsTableType, AfterType DEF OneBookWatched
<1> HIDE DEF u, s, ps
<1>6. CASE current = NoPair /\ p # NoPair /\ current' = p /\ up' = Append(up, s)
  <2>1. After(subs \ kept, SubsTable, up') = SubsTable[s][ps]
    BY <1>2, <1>4, <1>6, SubsAfterMore DEF ps
  <2>2. SubsTable[s][ps] = ps \cup {p}
    BY <1>4, <1>5, <1>6, SubsEffects
  <2>3. ps \subseteq left
    BY <1>5, <1>6, TradingAssumption
  <2> QED
    BY <1>1, <1>2, <1>6, <2>1, <2>2, <2>3 DEF OneBookWatched
<1>7. CASE current # NoPair /\ p = NoPair /\ current' = p /\ up' = Append(up, u)
  <2>1. After(subs \ kept, SubsTable, up') = SubsTable[u][ps]
    BY <1>2, <1>4, <1>7, SubsAfterMore DEF ps
  <2>2. SubsTable[u][ps] = ps \ {current}
    BY <1>4, <1>5, <1>7, SubsEffects
  <2> QED
    BY <1>1, <1>2, <1>5, <1>7, <2>1, <2>2 DEF OneBookWatched
<1>8. CASE current # NoPair /\ p # NoPair /\ current' = p /\ up' = Append(Append(up, u), s)
  <2>1. After(subs \ kept, SubsTable, Append(up, u)) = SubsTable[u][ps] /\ Append(up, u) \in Seq(Request)
    BY <1>2, <1>4, <1>8, SubsAfterMore DEF ps
  <2>2. SubsTable[u][ps] = ps \ {current} /\ ps \ {current} \in SUBSET Pair
    BY <1>4, <1>5, <1>8, SubsEffects
  <2>3. After(subs \ kept, SubsTable, up') = SubsTable[s][ps \ {current}]
    <3> DEFINE q == Append(up, u)
    <3>1. q \in Seq(Request) /\ s \in Request /\ After(subs \ kept, SubsTable, q) = ps \ {current}
      BY <1>4, <1>8, <2>1, <2>2
    <3> HIDE DEF q
    <3>2. subs \ kept \in SUBSET Pair
      BY <1>2
    <3>3. After(subs \ kept, SubsTable, Append(q, s)) = SubsTable[s][After(subs \ kept, SubsTable, q)]
      BY <3>1, <3>2, SubsAfterMore
    <3> QED
      BY <1>8, <3>1, <3>3 DEF q
  <2>4. SubsTable[s][ps \ {current}] = (ps \ {current}) \cup {p}
    BY <1>4, <1>8, <2>2, SubsEffects
  <2> QED
    BY <1>1, <1>2, <1>5, <1>8, <2>3, <2>4 DEF OneBookWatched
<1> QED
  BY <1>1, <1>3, <1>6, <1>7, <1>8, BookChanges DEF u, s

LEMMA OpenWatchesOne ==
  ASSUME TradingTyped, OneBookWatched, OpenPageAgain
  PROVE  OneBookWatched'
<1> DEFINE q == [op |-> "account_offers", pair |-> NoPair, visit |-> visit + 1]
<1>1. q \in Request /\ q.op = "account_offers"
  BY DEF TradingTyped, Request
<1>2. up' = Append(up, q) /\ UNCHANGED <<subs, kept>>
  BY DEF OpenPageAgain, refusalVars
<1> HIDE DEF q
<1>3. SubsInTime' = SubsInTime
  BY <1>1, <1>2, OpenTyped, SubsOneMore, SubsEffects
<1>4. SubsInTime \subseteq Pair
  BY <1>1, <1>2, OpenTyped, SubsOneMore
<1> QED
  BY <1>3, <1>4, TradingAssumption DEF OneBookWatched, OpenPageAgain

(* The fewer pairs to begin with, the fewer in the end. *)
LEMMA FewerSubs ==
  ASSUME NEW q \in Seq(Request), NEW s \in SUBSET Pair, NEW t \in SUBSET Pair, s \subseteq t
  PROVE  After(s, SubsTable, q) \subseteq After(t, SubsTable, q)
<1> DEFINE F == SubsTable
<1>1. F \in Table(Request, SUBSET Pair)
  BY SubsTableType
<1>2. Monotone(F, Request, Pair)
  BY SubsEffects DEF Monotone
<1> HIDE DEF F
<1>3. After(s, F, q) \subseteq After(t, F, q)
  BY <1>1, <1>2, AfterMonotone
<1> QED
  BY <1>3 DEF F

LEMMA TakeUpWatchesOne ==
  ASSUME TradingTyped, OneBookWatched, TakeUp
  PROVE  OneBookWatched'
<1> DEFINE q == Head(up)
<1>1. /\ TradingTyped' /\ q \in Request /\ up # <<>> /\ up' = Tail(up)
      /\ current' = current /\ left' = left
  BY TakeUpTyped DEF TakeUp, bookVars
<1>2. /\ SubsInTime = After(subs \ kept, SubsTable, up) /\ SubsInTime' = After(subs' \ kept', SubsTable, up')
      /\ up \in Seq(Request) /\ up' \in Seq(Request) /\ subs \ kept \in SUBSET Pair /\ subs' \ kept' \in SUBSET Pair
  <2>1. up \in Seq(Request)
    BY QueuesTyped
  <2> QED
    BY <1>1, <2>1, InTimeAre, InTimeAreNext DEF TradingTyped
<1>3. /\ After(subs \ kept, SubsTable, up) = After(SubsTable[q][subs \ kept], SubsTable, up')
      /\ SubsTable[q][subs \ kept] \in SUBSET Pair
  <2>1. ASSUME NEW ps \in SUBSET Pair
        PROVE  /\ After(ps, SubsTable, up) = After(SubsTable[q][ps], SubsTable, up')
               /\ SubsTable[q][ps] \in SUBSET Pair
    BY <1>1, <1>2, SubsTableType, AfterFirst
  <2> QED
    BY <1>2, <2>1
<1>4. subs' \ kept' \subseteq SubsTable[q][subs \ kept]
  BY <1>1, <1>2, SubsEffects DEF TakeUp, refusalVars
<1> DEFINE r == up'
           s == subs' \ kept'
           t == SubsTable[q][subs \ kept]
<1>5. r \in Seq(Request) /\ s \in SUBSET Pair /\ t \in SUBSET Pair /\ s \subseteq t
  BY <1>2, <1>3, <1>4
<1> HIDE DEF q, r, s, t
<1>6. After(s, SubsTable, r) \subseteq After(t, SubsTable, r)
  BY <1>5, FewerSubs
<1> QED
  BY <1>1, <1>2, <1>3, <1>6 DEF OneBookWatched, r, s, t

LEMMA OthersWatchOne ==
  ASSUME OneBookWatched, UNCHANGED <<subs, kept, up, current, left>>
  PROVE  OneBookWatched'
BY DEF OneBookWatched, SubsInTime

-----------------------------------------------------------------------------
(***************************************************************************)
(* MyOffersAreListed.                                                      *)
(***************************************************************************)
Names(list) == {e[1] : e \in list}
Listed(list) == /\ Names(LiveOfMine) \subseteq Names(list)
                /\ Names(list) \subseteq Names(LiveOfMine) \cup selfCrossed

LEMMA ListedAre == MyOffersAreListed <=> (ListGranted => Listed(OffersInTime))
BY DEF MyOffersAreListed, Listed, Names

LEMMA StandingOfMine ==
  \A o : o \in Names(LiveOfMine) <=> o \in Offer /\ o \in Mine /\ stage[o] \in Standing
<1>1. ASSUME NEW o, o \in Names(LiveOfMine)
      PROVE  o \in Offer /\ o \in Mine /\ stage[o] \in Standing
  BY <1>1 DEF Names, LiveOfMine, Entry
<1>2. ASSUME NEW o \in Offer, o \in Mine, stage[o] \in Standing
      PROVE  o \in Names(LiveOfMine)
  <2> DEFINE e == <<o, stage[o]>>
  <2>1. e \in LiveOfMine /\ e[1] = o
    BY <1>2 DEF LiveOfMine, Entry
  <2> QED
    BY <2>1 DEF Names
<1> QED
  BY <1>1, <1>2

(* The names listed once a transaction has come. *)
LEMMA NamesAfter ==
  ASSUME TradingTyped, NEW tx, WellFormed(tx), NEW list \in SUBSET Entry
  PROVE  LET after == Names(MyOffersAfter(list, tx))
         IN  /\ tx.mine /\ tx.type = "cancel" => after = Names(list) \ {tx.offer}
             /\ tx.mine /\ tx.type = "create" =>
                  after = Names(list) \cup (IF tx.offer \in Affected(tx) THEN {tx.offer} ELSE {})
             /\ ~tx.mine =>
                  after = {o \in Names(list) : o \in Affected(tx) \cap Mine => tx.nodes[o] # Gone}
<1>1. CASE tx.mine /\ tx.type = "cancel"
  <2>1. MyOffersAfter(list, tx) = Without(list, tx.offer)
    BY <1>1 DEF MyOffersAfter
  <2> QED
    BY <1>1, <2>1 DEF Names, Without
<1>2. CASE tx.mine /\ tx.type = "create"
  <2>1. MyOffersAfter(list, tx) =
          IF tx.offer \in Affected(tx) THEN list \cup {<<tx.offer, Whole>>} ELSE list
    BY <1>2 DEF MyOffersAfter
  <2>2. Names(list \cup {<<tx.offer, Whole>>}) = Names(list) \cup {tx.offer}
    <3>1. Names(list \cup {<<tx.offer, Whole>>}) = Names(list) \cup Names({<<tx.offer, Whole>>})
      BY DEF Names
    <3> QED
      BY <3>1 DEF Names
  <2> QED
    BY <1>2, <2>1, <2>2
<1>3. CASE ~tx.mine
  <2> DEFINE hit == {o \in Affected(tx) \cap Mine : \E e \in list : e[1] = o}
             rest == {e \in list : e[1] \notin hit}
             put == {<<o, tx.nodes[o]>> : o \in {h \in hit : tx.nodes[h] # Gone}}
  <2>1. MyOffersAfter(list, tx) = rest \cup put
    BY <1>3 DEF MyOffersAfter
  <2>2. Names(rest) = {o \in Names(list) : o \notin Affected(tx) \cap Mine}
    BY DEF Names
  <2>3. Names(put) = {o \in Names(list) : o \in Affected(tx) \cap Mine /\ tx.nodes[o] # Gone}
    <3>1. hit = {o \in Affected(tx) \cap Mine : o \in Names(list)}
      BY DEF Names
    <3>2. ASSUME NEW h PROVE h \in Names(put) <=> h \in hit /\ tx.nodes[h] # Gone
      <4>1. ASSUME h \in hit, tx.nodes[h] # Gone PROVE h \in Names(put)
        <5>1. <<h, tx.nodes[h]>> \in put /\ <<h, tx.nodes[h]>>[1] = h
          BY <4>1
        <5> HIDE DEF put
        <5> QED
          BY <5>1 DEF Names
      <4>2. ASSUME h \in Names(put) PROVE h \in hit /\ tx.nodes[h] # Gone
        BY <4>2 DEF Names
      <4> QED
        BY <4>1, <4>2
    <3> HIDE DEF hit, put
    <3> QED
      BY <3>1, <3>2
  <2>4. Names(rest \cup put) = Names(rest) \cup Names(put)
    BY DEF Names
  <2> HIDE DEF rest, put
  <2> QED
    BY <1>3, <2>1, <2>2, <2>3, <2>4
<1> QED
  BY <1>1, <1>2, <1>3

(* A transaction that is heard keeps the names right, one that is not is of *)
(* no offer of the account's.                                               *)
LEMMA PublishKeepsListed ==
  ASSUME TradingTyped, NEW tx, WellFormed(tx), Publish(tx), NEW list \in SUBSET Entry, Listed(list)
  PROVE  IF Heard(tx) THEN Listed(MyOffersAfter(list, tx))' ELSE Listed(list)'
<1>1. /\ \A o \in Affected(tx) : o \in Offer /\ stage'[o] = tx.nodes[o]
      /\ \A o \in Offer \ Affected(tx) : o # tx.offer => stage'[o] = stage[o]
      /\ tx.offer \notin Affected(tx) => stage[tx.offer] = Unborn /\ stage'[tx.offer] = Gone
      /\ tx.offer \in Offer
  BY NodeStages DEF WellFormed, Publish, Transactions
<1>2. /\ \A o : o \in Names(LiveOfMine) <=> o \in Offer /\ o \in Mine /\ stage[o] \in Standing
      /\ \A o : o \in Names(LiveOfMine)' <=> o \in Offer /\ o \in Mine /\ stage'[o] \in Standing
  <2>1. ASSUME NEW o, o \in Names(LiveOfMine)'
        PROVE  o \in Offer /\ o \in Mine /\ stage'[o] \in Standing
    BY <2>1 DEF Names, LiveOfMine, Entry
  <2>2. ASSUME NEW o \in Offer, o \in Mine, stage'[o] \in Standing
        PROVE  o \in Names(LiveOfMine)'
    <3> DEFINE e == <<o, stage'[o]>>
    <3>1. e \in LiveOfMine' /\ e[1] = o
      BY <2>2 DEF LiveOfMine, Entry
    <3> QED
      BY <3>1 DEF Names
  <2> QED
    BY <2>1, <2>2, StandingOfMine
<1>3. selfCrossed' = IF tx.type = "create" /\ tx.mine
                     THEN selfCrossed \cup {o \in Affected(tx) \cap Mine : tx.nodes[o] = Gone}
                     ELSE selfCrossed
  BY DEF Publish
<1>4. tx.type \in {"create", "cancel"} /\ tx.mine \in BOOLEAN
  BY DEF WellFormed, Transactions
<1>5. Names(list)' = Names(list) /\ Names(MyOffersAfter(list, tx))' = Names(MyOffersAfter(list, tx))
  OBVIOUS
<1> DEFINE old == Names(list)
           new == Names(MyOffersAfter(list, tx))
           was == Names(LiveOfMine)
           is == Names(LiveOfMine)'
<1>6. was \subseteq old /\ old \subseteq was \cup selfCrossed
  BY DEF Listed
<1>7. /\ tx.mine /\ tx.type = "cancel" => new = old \ {tx.offer}
      /\ tx.mine /\ tx.type = "create" =>
           new = old \cup (IF tx.offer \in Affected(tx) THEN {tx.offer} ELSE {})
      /\ ~tx.mine => new = {o \in old : o \in Affected(tx) \cap Mine => tx.nodes[o] # Gone}
  BY NamesAfter
<1>8. /\ tx.mine <=> tx.offer \in Mine
      /\ tx.type = "cancel" => Affected(tx) = {tx.offer} /\ tx.nodes[tx.offer] = Gone
      /\ tx.type = "create" => /\ stage[tx.offer] = Unborn
                               /\ tx.offer \in Affected(tx) => tx.nodes[tx.offer] \in Standing
                               /\ \A x \in Affected(tx) \ {tx.offer} : stage[x] \in Standing
                               /\ tx.mine => \A x \in (Affected(tx) \cap Mine) \ {tx.offer} : tx.nodes[x] = Gone
      /\ \A o \in Affected(tx) : tx.nodes[o] \in {Whole, Partial, Gone}
  BY NodeStages DEF WellFormed
<1> HIDE DEF old, new, was, is
<1>9. /\ \A o : o \in was <=> o \in Offer /\ o \in Mine /\ stage[o] \in Standing
      /\ \A o : o \in is <=> o \in Offer /\ o \in Mine /\ stage'[o] \in Standing
  BY <1>2 DEF was, is
<1>10. Heard(tx) => is \subseteq new /\ new \subseteq is \cup selfCrossed'
  <2>1. CASE tx.mine /\ tx.type = "cancel"
    BY <1>1, <1>3, <1>6, <1>7, <1>8, <1>9, <2>1, Stages
  <2>2. CASE tx.mine /\ tx.type = "create"
    BY <1>1, <1>3, <1>6, <1>7, <1>8, <1>9, <2>2, Stages
  <2>3. CASE ~tx.mine
    BY <1>1, <1>3, <1>6, <1>7, <1>8, <1>9, <2>3, <1>4, Stages
  <2> QED
    BY <1>4, <2>1, <2>2, <2>3
<1>11. ~Heard(tx) => is \subseteq old /\ old \subseteq is \cup selfCrossed'
  <2>1. ~Heard(tx) => ~tx.mine /\ Affected(tx) \cap Mine = {}
    BY DEF Heard
  <2> QED
    BY <1>1, <1>3, <1>6, <1>8, <1>9, <2>1, Stages
<1> QED
  BY <1>5, <1>10, <1>11 DEF Listed, old, new, is

(* The list as it will be, now and after a step. *)
LEMMA ListInTime ==
  ASSUME TradingTyped
  PROVE  /\ OffersInTime = After(myOffers, ListTable(visit), down)
         /\ OffersInTime \in SUBSET Entry /\ down \in Seq(Message) /\ myOffers \in SUBSET Entry
<1>1. OffersInTime = After(myOffers, ListTable(visit), down) /\ down \in Seq(Message)
      /\ myOffers \in SUBSET Entry
  BY InTimeAre, QueuesTyped DEF TradingTyped
<1> QED
  BY <1>1, ListTableType, AfterType

(* One more message to come, with the page as it was. *)
LEMMA ListOneMore ==
  ASSUME TradingTyped, TradingTyped', UNCHANGED <<myOffers, visit>>,
         NEW m \in Message, down' = Append(down, m)
  PROVE  OffersInTime' = ListTable(visit)[m][OffersInTime]
<1>1. OffersInTime' = After(myOffers, ListTable(visit), Append(down, m))
  BY InTimeAreNext
<1> QED
  BY <1>1, ListInTime, ListTableType, AfterOneMore

LEMMA ListEffects ==
  ASSUME NEW m \in Message, NEW list \in SUBSET Entry, NEW v
  PROVE  /\ m.kind = "tx" => ListTable(v)[m][list] = MyOffersAfter(list, m.tx)
         /\ m.kind = "offers" /\ m.visit = v => ListTable(v)[m][list] = m.offers
         /\ m.kind # "tx" /\ ~(m.kind = "offers" /\ m.visit = v) => ListTable(v)[m][list] = list
<1>1. ListTable(v)[m][list] = CASE m.kind = "tx" -> MyOffersAfter(list, m.tx)
                                [] m.kind = "offers" /\ m.visit = v -> m.offers
                                [] OTHER -> list
  BY DEF ListTable, OnMyOffers
<1> QED
  BY <1>1

LEMMA PublishKeepsList ==
  ASSUME TradingTyped, MyOffersAreListed, NEW tx, WellFormed(tx), Publish(tx)
  PROVE  MyOffersAreListed'
<1>1. TradingTyped' /\ UNCHANGED <<myOffers, visit, up, unlisted>>
  BY PublishTyped DEF Publish, bookVars, refusalVars
<1> SUFFICES ASSUME ListGranted' PROVE Listed(OffersInTime)'
  BY DEF MyOffersAreListed, Listed, Names
<1>2. ListGranted
  BY <1>1 DEF ListGranted
<1>3. Listed(OffersInTime) /\ OffersInTime \in SUBSET Entry
  BY <1>2, ListedAre, ListInTime
<1> DEFINE list == OffersInTime
<1>4. CASE Heard(tx)
  <2> DEFINE m == [kind |-> "tx", tx |-> tx]
  <2>1. m \in Message /\ m.kind = "tx" /\ m.tx = tx
    BY DEF Message, News, WellFormed
  <2>2. down' = Append(down, m)
    BY <1>4 DEF Publish
  <2> HIDE DEF m
  <2>3. OffersInTime' = MyOffersAfter(list, tx)
    BY <1>1, <1>3, <2>1, <2>2, ListOneMore, ListEffects
  <2> QED
    <3>1. PICK l \in SUBSET Entry : l = list
      BY <1>3
    <3>2. Listed(MyOffersAfter(l, tx))'
      BY <1>3, <1>4, <3>1, PublishKeepsListed
    <3> QED
      BY <2>3, <3>1, <3>2 DEF Listed, Names
<1>5. CASE ~Heard(tx)
  <2>1. down' = down
    BY <1>5 DEF Publish
  <2>2. OffersInTime' = list
    BY <1>1, <2>1, InTimeAreNext, ListInTime
  <2>3. PICK l \in SUBSET Entry : l = list
    BY <1>3
  <2>4. Listed(l)'
    BY <1>3, <1>5, <2>3, PublishKeepsListed
  <2> QED
    BY <2>2, <2>3, <2>4 DEF Listed, Names
<1> QED
  BY <1>4, <1>5

LEMMA TakeUpKeepsList ==
  ASSUME TradingTyped, MyOffersAreListed, TakeUp
  PROVE  MyOffersAreListed'
<1> DEFINE q == Head(up)
<1>1. /\ TradingTyped' /\ q \in Request /\ q.visit \in Nat /\ (q.op = "subscribe" => q.pair \in DOMAIN books)
      /\ up # <<>> /\ up' = Tail(up) /\ UNCHANGED <<stage, myOffers, visit, selfCrossed>>
      /\ up \in Seq(Request)
  BY TakeUpTyped, QueuesTyped DEF TakeUp, bookVars, Request
<1> SUFFICES ASSUME ListGranted' PROVE Listed(OffersInTime)'
  BY DEF MyOffersAreListed, Listed, Names
<1>2. /\ Names(LiveOfMine)' = Names(LiveOfMine) /\ selfCrossed' = selfCrossed
  BY <1>1 DEF Names, LiveOfMine
<1>3. ASSUME OffersInTime' = OffersInTime, ~(q.op = "account_offers" /\ q.visit = visit)
      PROVE  Listed(OffersInTime)'
  <2>1. ListGranted
    <3>1. /\ Len(up) \in Nat \ {0} /\ DOMAIN up = 1..Len(up) /\ q = up[1]
          /\ DOMAIN up' = 1..Len(up) - 1 /\ \A i \in 1..Len(up) - 1 : up'[i] = up[i + 1]
      BY <1>1
    <3>2. \A i \in DOMAIN up : i # 1 => i - 1 \in 1..Len(up) - 1 /\ up'[i - 1] = up[i]
      BY <3>1
    <3>3. \A i \in 1..Len(up) - 1 : up'[i].op = "account_offers" => up'[i].visit # visit
      BY <1>1, <3>1 DEF ListGranted
    <3>4. ~unlisted
      BY <1>1 DEF ListGranted, TakeUp, refusalVars
    <3> QED
      BY <1>3, <3>1, <3>2, <3>3, <3>4 DEF ListGranted
  <2> QED
    BY <1>2, <1>3, <2>1, ListedAre DEF Listed, Names
<1>4. ASSUME NEW m \in Message, down' = Append(down, m), m.kind # "tx",
             ~(m.kind = "offers" /\ m.visit = visit)
      PROVE  OffersInTime' = OffersInTime
  <2>1. OffersInTime' = ListTable(visit)[m][OffersInTime]
    BY <1>1, <1>4, ListOneMore
  <2>2. OffersInTime \in SUBSET Entry
    BY ListInTime
  <2> QED
    BY <1>4, <2>1, <2>2, ListEffects
<1>5. CASE /\ q.op = "subscribe" /\ subs' = subs \cup {q.pair}
           /\ down' = Append(down, [kind |-> "snapshot", pair |-> q.pair,
                                    offers |-> Live(q.pair), visit |-> q.visit])
  <2> DEFINE m == [kind |-> "snapshot", pair |-> q.pair,
                   offers |-> Live(q.pair), visit |-> q.visit]
  <2>1. m \in Message /\ m.kind = "snapshot"
    BY <1>1, <1>5, LiveType DEF Snapshots, Message, TradingTyped
  <2>2. down' = Append(down, m) /\ q.op # "account_offers"
    BY <1>5
  <2> HIDE DEF m, q
  <2> QED
    BY <1>3, <1>4, <2>1, <2>2
<1>6. CASE /\ q.op = "subscribe" /\ subs' = subs
           /\ down' = Append(down, [kind |-> "refused", visit |-> q.visit])
  <2> DEFINE m == [kind |-> "refused", visit |-> q.visit]
  <2>1. m \in Message /\ m.kind = "refused"
    BY <1>1 DEF Message, Refusals
  <2>2. down' = Append(down, m) /\ q.op # "account_offers"
    BY <1>6
  <2> HIDE DEF m, q
  <2> QED
    BY <1>3, <1>4, <2>1, <2>2
<1>7. CASE (q.op = "account_offers" /\ q.visit = visit => unlisted') /\ down' = down
  <2>1. OffersInTime' = OffersInTime
    BY <1>1, <1>7, InTimeAreNext, ListInTime
  <2>2. q.op = "account_offers" => q.visit # visit
    BY <1>1, <1>7 DEF ListGranted
  <2> QED
    BY <1>3, <2>1, <2>2
<1>8. CASE /\ q.op = "account_offers" /\ subs' = subs
           /\ down' = Append(down, [kind |-> "offers", offers |-> LiveOfMine, visit |-> q.visit])
  <2> DEFINE m == [kind |-> "offers", offers |-> LiveOfMine, visit |-> q.visit]
  <2>1. m \in Message /\ m.kind = "offers" /\ m.visit = q.visit /\ m.offers = LiveOfMine
    BY <1>1, LiveType DEF Message, Listings
  <2>2. down' = Append(down, m)
    BY <1>8
  <2> HIDE DEF m, q
  <2>3. CASE q.visit = visit
    <3>1. OffersInTime' = ListTable(visit)[m][OffersInTime] /\ OffersInTime \in SUBSET Entry
      BY <1>1, <2>1, <2>2, ListOneMore, ListInTime
    <3>2. OffersInTime' = LiveOfMine
      BY <2>1, <2>3, <3>1, ListEffects
    <3>3. Names(OffersInTime)' = Names(LiveOfMine)
      BY <3>2 DEF Names
    <3> QED
      BY <1>2, <3>3 DEF Listed
  <2>4. CASE q.visit # visit
    BY <1>3, <1>4, <2>1, <2>2, <2>4
  <2> QED
    BY <2>3, <2>4
<1> HIDE DEF q
<1> QED
  BY <1>5, <1>6, <1>7, <1>8 DEF TakeUp, q

LEMMA DeliveryKeepsList ==
  ASSUME TradingTyped, MyOffersAreListed, Delivery
  PROVE  MyOffersAreListed'
<1> DEFINE m == Head(down)
<1>1. /\ TradingTyped' /\ down # <<>> /\ down' = Tail(down) /\ m \in Message
      /\ UNCHANGED <<stage, up, visit, selfCrossed, refusalVars>>
  BY DeliveryTyped
<1>2. down \in Seq(Message) /\ myOffers \in SUBSET Entry
  BY QueuesTyped DEF TradingTyped
<1>3. myOffers' = ListTable(visit)[m][myOffers]
  <2>1. CASE m.kind = "tx"
    <3>1. myOffers' = MyOffersAfter(myOffers, m.tx)
      BY <2>1 DEF Delivery, ReceiveSnapshot, ReceiveRefusal, ReceiveOffers, ReceiveTransaction
    <3> QED
      BY <1>1, <1>2, <2>1, <3>1, ListEffects
  <2>2. CASE m.kind = "offers"
    <3>1. myOffers' = IF m.visit = visit THEN m.offers ELSE myOffers
      BY <2>2 DEF Delivery, ReceiveSnapshot, ReceiveRefusal, ReceiveOffers, ReceiveTransaction
    <3> QED
      BY <1>1, <1>2, <2>2, <3>1, ListEffects
  <2>3. CASE m.kind \notin {"tx", "offers"}
    <3>1. myOffers' = myOffers
      BY <2>3 DEF Delivery, ReceiveSnapshot, ReceiveRefusal, ReceiveOffers, ReceiveTransaction
    <3> QED
      BY <1>1, <1>2, <2>3, <3>1, ListEffects
  <2> QED
    BY <2>1, <2>2, <2>3
<1>4. After(myOffers, ListTable(visit), down) = After(ListTable(visit)[m][myOffers], ListTable(visit), down')
  BY <1>1, <1>2, ListTableType, AfterFirst
<1> HIDE DEF m
<1>5. OffersInTime' = OffersInTime
  <2>1. OffersInTime' = After(myOffers', ListTable(visit), down')
    BY <1>1, InTimeAreNext
  <2>2. OffersInTime = After(myOffers, ListTable(visit), down)
    BY InTimeAre
  <2> QED
    BY <1>3, <1>4, <2>1, <2>2
<1> QED
  BY <1>1, <1>5 DEF MyOffersAreListed, ListGranted, refusalVars, LiveOfMine

LEMMA ChangePairKeepsList ==
  ASSUME TradingTyped, MyOffersAreListed, NEW p \in Pair \cup {NoPair}, ChangePair(p)
  PROVE  MyOffersAreListed'
<1>1. SetCurrentOrderBook(p) /\ UNCHANGED <<stage, down, visit, myOffers, selfCrossed, refusalVars>>
  BY DEF ChangePair
<1>2. ASSUME NEW q \in Seq(Request), NEW m \in Request
      PROVE  \A i \in DOMAIN q : i \in DOMAIN Append(q, m) /\ Append(q, m)[i] = q[i]
  OBVIOUS
<1>3. \A i \in DOMAIN up : i \in DOMAIN up' /\ up'[i] = up[i]
  <2> DEFINE u == Ask("unsubscribe", current)
             s == Ask("subscribe", p)
  <2>1. up \in Seq(Request) /\ (current # NoPair => u \in Request) /\ (p # NoPair => s \in Request)
    BY QueuesTyped, AskedRequests DEF TradingTyped
  <2> HIDE DEF u, s
  <2>2. CASE up' = up
    BY <2>2
  <2>3. CASE current = NoPair /\ p # NoPair /\ up' = Append(up, s)
    BY <1>2, <2>1, <2>3
  <2>4. CASE current # NoPair /\ p = NoPair /\ up' = Append(up, u)
    BY <1>2, <2>1, <2>4
  <2>5. CASE current # NoPair /\ p # NoPair /\ up' = Append(Append(up, u), s)
    <3>1. Append(up, u) \in Seq(Request)
      BY <2>1, <2>5, Longer
    <3> QED
      BY <1>2, <2>1, <2>5, <3>1
  <2> QED
    BY <1>1, <2>2, <2>3, <2>4, <2>5, BookChanges DEF u, s
<1>4. ListGranted' => ListGranted
  BY <1>1, <1>3 DEF ListGranted, refusalVars
<1>5. OffersInTime' = OffersInTime /\ LiveOfMine' = LiveOfMine
  BY <1>1 DEF OffersInTime, LiveOfMine
<1> QED
  BY <1>1, <1>4, <1>5 DEF MyOffersAreListed

(* A page just opened has asked for its list. *)
LEMMA OpenAsksForList ==
  ASSUME TradingTyped, OpenPageAgain
  PROVE  MyOffersAreListed'
<1> DEFINE q == [op |-> "account_offers", pair |-> NoPair, visit |-> visit + 1]
<1>1. up' = Append(up, q) /\ visit' = visit + 1 /\ up \in Seq(Request) /\ q \in Request
  BY QueuesTyped DEF OpenPageAgain, TradingTyped, Request
<1>2. q.op = "account_offers" /\ q.visit = visit'
  BY <1>1
<1> HIDE DEF q
<1>3. Len(up) + 1 \in DOMAIN up' /\ up'[Len(up) + 1] = q
  BY <1>1
<1>4. ~ListGranted'
  BY <1>2, <1>3 DEF ListGranted
<1> QED
  BY <1>4 DEF MyOffersAreListed

-----------------------------------------------------------------------------
(***************************************************************************)
(* The page and its form.                                                  *)
(***************************************************************************)
FormTyped ==
  /\ TradingTyped
  /\ state \in {"form", "confirm", "sending", "sent", "error"}
  /\ made \in 0..MaxOffers /\ unsettled \subseteq {made} \cap 1..made /\ resultOf \in 0..made
  /\ state = "confirm" => formPair # NoPair
  /\ ResultIsOfLastOffer

LEMMA FormSteps ==
  ASSUME FormNext
  PROVE  \/ \E p \in Pair \cup {NoPair} : ChangePair(p)
         \/ OpenPageAgain
         \/ TakeUp
         \/ Ledger
         \/ Delivery
         \/ UNCHANGED tradingVars
BY DEF FormNext, EditPair, Reopen, ConfirmOffer, EditForm, ResetFormSoft, CreateOffer, OfferSettled

LEMMA TradingStays ==
  ASSUME UNCHANGED tradingVars
  PROVE  /\ TradingTyped => TradingTyped'
         /\ BooksFollowLedger => BooksFollowLedger'
         /\ OneBookWatched => OneBookWatched'
         /\ MyOffersAreListed => MyOffersAreListed'
BY DEF tradingVars, bookVars, refusalVars, TradingTyped, BooksFollowLedger, BookInTime, Live, OneBookWatched,
       SubsInTime, MyOffersAreListed, OffersInTime, ListGranted, LiveOfMine

LEMMA TradingKept ==
  ASSUME TradingTyped, FormNext
  PROVE  /\ TradingTyped'
         /\ BooksFollowLedger => BooksFollowLedger'
         /\ OneBookWatched => OneBookWatched'
         /\ MyOffersAreListed => MyOffersAreListed'
<1>1. ASSUME NEW p \in Pair \cup {NoPair}, ChangePair(p)
      PROVE  /\ TradingTyped'
             /\ BooksFollowLedger => BooksFollowLedger'
             /\ OneBookWatched => OneBookWatched'
             /\ MyOffersAreListed => MyOffersAreListed'
  BY <1>1, ChangePairTyped, ChangePairKeepsBooks, ChangePairWatchesOne, ChangePairKeepsList
<1>2. CASE OpenPageAgain
  BY <1>2, OpenTyped, OpenKeepsBooks, OpenWatchesOne, OpenAsksForList
<1>3. CASE TakeUp
  BY <1>3, TakeUpTyped, TakeUpKeepsBooks, TakeUpWatchesOne, TakeUpKeepsList
<1>4. CASE Ledger
  <2>1. PICK tx : WellFormed(tx) /\ Publish(tx)
    BY <1>4, LedgerPublishes
  <2>2. UNCHANGED <<subs, kept, up, current, left>>
    BY <2>1 DEF Publish, bookVars, refusalVars
  <2> QED
    BY <2>1, <2>2, PublishTyped, PublishKeepsBooks, OthersWatchOne, PublishKeepsList
<1>5. CASE Delivery
  BY <1>5, DeliveryTyped, DeliveryKeepsBooks, OthersWatchOne, DeliveryKeepsList DEF refusalVars
<1>6. CASE UNCHANGED tradingVars
  BY <1>6, TradingStays
<1> QED
  BY <1>1, <1>2, <1>3, <1>4, <1>5, <1>6, FormSteps

LEMMA FormTypedAtFirst == FormInit => FormTyped
<1> SUFFICES ASSUME FormInit PROVE FormTyped
  OBVIOUS
<1>1. 0 \in 0..MaxOffers /\ 0 \in 0..0
  BY FormAssumption
<1> QED
  BY <1>1, InitTyped DEF FormInit, FormTyped, ResultIsOfLastOffer

LEMMA FormTypedKept == FormTyped /\ [FormNext]_allVars => FormTyped'
<1> SUFFICES ASSUME FormTyped, [FormNext]_allVars PROVE FormTyped'
  OBVIOUS
<1>1. CASE UNCHANGED allVars
  BY <1>1, TradingStays DEF FormTyped, allVars, formVars, tradingVars, bookVars, ResultIsOfLastOffer
<1>2. CASE FormNext
  <2>1. TradingTyped' /\ made \in Nat
    BY <1>2, TradingKept DEF FormTyped
  <2>2. CASE EditPair
    BY <2>1, <2>2 DEF FormTyped, EditPair, formVars, ResultIsOfLastOffer
  <2>3. CASE Reopen
    BY <2>1, <2>3 DEF FormTyped, Reopen, ResultIsOfLastOffer
  <2>4. CASE ConfirmOffer
    BY <2>1, <2>4 DEF FormTyped, ConfirmOffer, tradingVars, bookVars, ResultIsOfLastOffer
  <2>5. CASE EditForm \/ ResetFormSoft
    <3>1. /\ state' = "form" /\ resultOf' = 0 /\ UNCHANGED <<tradingVars, made, unsettled>>
      BY <2>5 DEF EditForm, ResetFormSoft
    <3>2. 0 \in 0..made
      BY <2>1
    <3> QED
      BY <2>1, <3>1, <3>2 DEF FormTyped, tradingVars, bookVars, ResultIsOfLastOffer
  <2>6. CASE CreateOffer
    <3>1. /\ made' = made + 1 /\ unsettled' = {made + 1} /\ state' = "sending"
          /\ made < MaxOffers /\ resultOf' = resultOf
      BY <2>6 DEF CreateOffer
    <3>2. made' \in 0..MaxOffers /\ unsettled' \subseteq {made'} \cap 1..made' /\ resultOf' \in 0..made'
      BY <2>1, <3>1, FormAssumption DEF FormTyped
    <3> QED
      BY <2>1, <3>1, <3>2 DEF FormTyped, ResultIsOfLastOffer
  <2>7. ASSUME NEW i \in unsettled, NEW r \in {"sent", "error"}, OfferSettled(i, r)
        PROVE  FormTyped'
    <3>1. i = made /\ made \in 0..made
      BY <2>1 DEF FormTyped
    <3> QED
      BY <2>1, <2>7, <3>1 DEF FormTyped, OfferSettled, tradingVars, bookVars, ResultIsOfLastOffer
  <2>8. CASE (TakeUp \/ Ledger \/ Delivery) /\ UNCHANGED formVars
    <3>1. TakeUp => formPair' = formPair
      BY DEF TakeUp, bookVars
    <3>2. Delivery => formPair' = formPair
      BY <2>1, DeliveryTyped DEF FormTyped
    <3>3. Ledger => formPair' = formPair
      <4>1. \A tx : Publish(tx) => formPair' = formPair
        BY DEF Publish, bookVars
      <4> QED
        BY <4>1, LedgerPublishes DEF FormTyped
    <3> QED
      BY <2>1, <2>8, <3>1, <3>2, <3>3 DEF FormTyped, formVars, ResultIsOfLastOffer
  <2> QED
    BY <1>2, <2>2, <2>3, <2>4, <2>5, <2>6, <2>7, <2>8 DEF FormNext
<1> QED
  BY <1>1, <1>2

(* The values the trading page keeps, and the messages and answers under    *)
(* way, are of their kinds: what the proofs below rest on.                  *)
THEOREM TradingFormTyped == FormSpec => []FormTyped
BY FormTypedAtFirst, FormTypedKept, PTL DEF FormSpec

LEMMA TypedIsTypeOK == FormTyped => FormTypeOK
<1> SUFFICES ASSUME FormTyped PROVE FormTypeOK
  OBVIOUS
<1>1. \A i \in DOMAIN up : up[i].op \in {"subscribe", "unsubscribe", "account_offers"}
  <2>1. \A i \in DOMAIN up : up[i] \in Request
    BY QueuesTyped DEF FormTyped
  <2> QED
    BY <2>1 DEF Request
<1>2. \A i \in DOMAIN down : down[i].kind \in {"snapshot", "refused", "offers", "tx"}
  <2>1. \A i \in DOMAIN down : down[i] \in Message
    BY QueuesTyped DEF FormTyped
  <2> QED
    BY <2>1, MessageKinds
<1>3. TradingTypeOK
  BY <1>1, <1>2 DEF FormTyped, TradingTyped, TradingTypeOK
<1> QED
  BY <1>3 DEF FormTyped, FormTypeOK

(* The type invariant of the form and of the service it works on            *)
(* (trading-service.js, trading-form-controller.js).                        *)
THEOREM TradingTypes == FormSpec => []FormTypeOK
BY TradingFormTyped, TypedIsTypeOK, PTL

(* The result the form shows is that of the offer it sent last              *)
(* (trading-form-controller.js 213-262).                                    *)
THEOREM LastOffersResult == FormSpec => []ResultIsOfLastOffer
<1>1. FormTyped => ResultIsOfLastOffer
  BY DEF FormTyped
<1> QED
  BY <1>1, TradingFormTyped, PTL

LEMMA NothingUnderWay ==
  ASSUME FormInit
  PROVE  BooksFollowLedger /\ OneBookWatched /\ MyOffersAreListed
<1>1. TradingTyped /\ subs = {} /\ kept = {} /\ current = NoPair /\ visit = 1 /\ subs \in SUBSET Pair
      /\ up = <<[op |-> "account_offers", pair |-> NoPair, visit |-> 1]>>
  BY InitTyped DEF FormInit, TradingInit
<1>2. BooksFollowLedger
  BY <1>1 DEF BooksFollowLedger
<1>3. OneBookWatched
  <2> DEFINE q == [op |-> "account_offers", pair |-> NoPair, visit |-> 1]
  <2>1. q \in Request /\ q.op = "account_offers"
    BY DEF Request
  <2>2. up = Append(<<>>, q) /\ <<>> \in Seq(Request)
    BY <1>1
  <2> HIDE DEF q
  <2>3. subs \ kept = {} /\ After({}, SubsTable, <<>>) = {}
    BY <1>1, SubsTableType, AfterNothing
  <2>4. After({}, SubsTable, up) = SubsTable[q][{}]
    BY <2>1, <2>2, <2>3, SubsAfterMore
  <2>5. SubsInTime = {}
    BY <1>1, <2>1, <2>3, <2>4, SubsEffects, InTimeAre
  <2> QED
    BY <2>5 DEF OneBookWatched
<1>4. ~ListGranted
  <2>1. 1 \in DOMAIN up /\ up[1].op = "account_offers" /\ up[1].visit = visit
    BY <1>1
  <2> QED
    BY <2>1 DEF ListGranted
<1> QED
  BY <1>2, <1>3, <1>4 DEF MyOffersAreListed

LEMMA FormKept ==
  ASSUME FormTyped, [FormNext]_allVars
  PROVE  /\ BooksFollowLedger => BooksFollowLedger'
         /\ OneBookWatched => OneBookWatched'
         /\ MyOffersAreListed => MyOffersAreListed'
<1>1. UNCHANGED allVars => UNCHANGED tradingVars
  BY DEF allVars
<1> QED
  BY <1>1, TradingKept, TradingStays DEF FormTyped

(* Every order book that is watched is the one the ledger has once what is  *)
(* on its way has come, however snapshots and transactions interleave       *)
(* (order-book.js).                                                         *)
THEOREM BooksFollow == FormSpec => []BooksFollowLedger
<1>1. FormInit => BooksFollowLedger
  BY NothingUnderWay
<1>2. FormTyped /\ BooksFollowLedger /\ [FormNext]_allVars => BooksFollowLedger'
  BY FormKept
<1> QED
  BY <1>1, <1>2, TradingFormTyped, PTL DEF FormSpec

(* Once the subscriptions under way have come about, the server sends the   *)
(* client no order book but the current one, save those a page was left on  *)
(* (trading-controller.js 53-76).                                           *)
THEOREM OneWatched == FormSpec => []OneBookWatched
<1>1. FormInit => OneBookWatched
  BY NothingUnderWay
<1>2. FormTyped /\ OneBookWatched /\ [FormNext]_allVars => OneBookWatched'
  BY FormKept
<1> QED
  BY <1>1, <1>2, TradingFormTyped, PTL DEF FormSpec

(* The list of own offers names those that stand in the ledger, and besides *)
(* only such as an own offer has consumed, once its answer is on the way and *)
(* what is on its way has come (current-offers-controller.js).              *)
THEOREM MyOffersListed == FormSpec => []MyOffersAreListed
<1>1. FormInit => MyOffersAreListed
  BY NothingUnderWay
<1>2. FormTyped /\ MyOffersAreListed /\ [FormNext]_allVars => MyOffersAreListed'
  BY FormKept
<1> QED
  BY <1>1, <1>2, TradingFormTyped, PTL DEF FormSpec

=============================================================================
