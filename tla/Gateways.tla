----------------------------- MODULE Gateways ------------------------------
(***************************************************************************)
(* The Gateways service: the gateways of the wallet, each with a status,   *)
(* and the trust lines that adding and removing one sets, one transaction  *)
(* per currency.  Every call of syncTrustlines works on all gateways that  *)
(* are being added or removed, whichever the call was for.                 *)
(*                                                                         *)
(* The account's transactions take effect in the order they are submitted. *)
(* The page can be reloaded at any time: the wallet is then the one saved  *)
(* last, the promises are gone, and what was submitted may still happen.   *)
(***************************************************************************)
EXTENDS Integers, Sequences, FiniteSets

SeqExt == INSTANCE SequencesExt

CONSTANTS
  Domain,         \* gateways, by domain
  CurrenciesOf,   \* [Domain -> the currencies it issues]
  MaxOps,         \* bound on the user's operations
  MaxReloads,     \* bound on the reloads
  LateAnswers     \* whether a search of before can be answered late

ASSUME GatewaysAssumption ==
  /\ IsFiniteSet(Domain) /\ MaxOps \in Nat /\ MaxReloads \in Nat
  /\ LateAnswers \in BOOLEAN
  /\ \A d \in Domain : IsFiniteSet(CurrenciesOf[d]) /\ CurrenciesOf[d] # {}

VARIABLES
  wallet,      \* mainData.gateways: the status of each gateway it holds
  saved,       \* the same in the wallet saved last
  jobs,        \* addGateway and removeGateway promises that have not settled
  txq,         \* TrustSet transactions submitted, oldest first
  trust,       \* the account's trust lines, by gateway
  load,        \* handleAccountLoad of this page: waiting, done or failed
  batches,     \* calls of syncTrustlines that found work; they number the jobs
  ops, reloads,
  lost         \* history variable: gateways whose saved status did not tell
               \* of what was under way when the page was reloaded

vars == <<wallet, saved, jobs, txq, trust, load, batches, ops, reloads, lost>>

Status == {"adding", "added", "add_failed", "removing", "removal_failed"}
Wallets == UNION {[ds -> Status] : ds \in SUBSET Domain}
Kind == {"adding", "removing"}
Currency == UNION {CurrenciesOf[d] : d \in Domain}

(* A job belongs to a batch; it has captured a gateway object, which is the *)
(* wallet's ("mine") until that is replaced or deleted; todo are the        *)
(* currencies whose result has not come.                                    *)
Job == [batch : 1..MaxOps + MaxReloads + 1, kind : Kind, domain : Domain,
        mine : BOOLEAN, todo : SUBSET Currency]

TypeOK ==
  /\ wallet \in Wallets /\ saved \in Wallets
  /\ jobs \subseteq Job
  /\ \A j, k \in jobs : j.batch = k.batch /\ j.domain = k.domain => j = k
  /\ \A i \in DOMAIN txq : txq[i].domain \in Domain /\ txq[i].kind \in Kind
                           /\ txq[i].currency \in CurrenciesOf[txq[i].domain]
  /\ \A d \in Domain : trust[d] \subseteq CurrenciesOf[d]
  /\ load \in {"waiting", "done", "failed"}
  /\ batches \in 0..MaxOps + MaxReloads + 1
  /\ ops \in 0..MaxOps /\ reloads \in 0..MaxReloads
  /\ lost \subseteq Domain

-----------------------------------------------------------------------------
StatusOf(w, d) == IF d \in DOMAIN w THEN w[d] ELSE "none"
With(w, d, status) == [e \in DOMAIN w \cup {d} |-> IF e = d THEN status ELSE w[e]]
WithoutGateway(w, d) == [e \in DOMAIN w \ {d} |-> w[e]]

(* The object of gateway d is no longer the wallet's. *)
Detach(js, d) == {IF j.domain = d THEN [j EXCEPT !.mine = FALSE] ELSE j : j \in js}

(* syncTrustlines on wallet w: a job, and a transaction per currency, for   *)
(* each gateway with a pending status, removals first.                      *)
BatchJobs(w, b) ==
  {[batch |-> b, kind |-> w[d], domain |-> d, mine |-> TRUE, todo |-> CurrenciesOf[d]] :
     d \in {e \in DOMAIN w : w[e] \in Kind}}

BatchTxs(kind, w, b) ==
  {t \in [batch : {b}, kind : {kind}, domain : {d \in DOMAIN w : w[d] = kind},
          currency : Currency] : t.currency \in CurrenciesOf[t.domain]}

SyncTrustlines(w, js) ==
  IF \A d \in DOMAIN w : w[d] \notin Kind
  THEN jobs' = js /\ UNCHANGED <<txq, batches>>
  ELSE /\ batches' = batches + 1
       /\ jobs' = js \cup BatchJobs(w, batches + 1)
       /\ txq' = txq \o SeqExt!SetToSeq(BatchTxs("removing", w, batches + 1))
                     \o SeqExt!SetToSeq(BatchTxs("adding", w, batches + 1))

(* syncWallet('update') saves w, or fails. *)
SyncWallet(w) == saved' = w \/ UNCHANGED saved

Operate == ops < MaxOps /\ ops' = ops + 1

Init ==
  /\ wallet = <<>> /\ saved = <<>> /\ jobs = {} /\ txq = <<>>
  /\ trust = [d \in Domain |-> {}]
  /\ load = "waiting" /\ batches = 0 /\ ops = 0 /\ reloads = 0 /\ lost = {}

-----------------------------------------------------------------------------
(* Gateways.add: of a gateway searched for, or to retry.  The wallet has    *)
(* not got it when the search begins, but may when a late answer offers it. *)
Add(d) ==
  /\ Operate
  /\ \/ StatusOf(wallet, d) \in {"none", "add_failed"}
     \/ LateAnswers
  /\ wallet' = With(wallet, d, "adding")
  /\ SyncTrustlines(wallet', Detach(jobs, d))
  /\ UNCHANGED <<saved, trust, load, reloads, lost>>

(* Gateways.remove, offered for a gateway that is added or that could not   *)
(* be removed.  A slip is to leave the call out when one is under way.      *)
RemoveUnlessBusy(d) ==
  /\ Operate
  /\ d \in DOMAIN wallet /\ wallet[d] \in {"added", "removal_failed"}
  /\ wallet' = With(wallet, d, "removing")
  /\ IF jobs = {} THEN SyncTrustlines(wallet', jobs) ELSE UNCHANGED <<jobs, txq, batches>>
  /\ UNCHANGED <<saved, trust, load, reloads, lost>>

Remove(d) ==
  /\ Operate
  /\ d \in DOMAIN wallet /\ wallet[d] \in {"added", "removal_failed"}
  /\ wallet' = With(wallet, d, "removing")
  /\ SyncTrustlines(wallet', jobs)
  /\ UNCHANGED <<saved, trust, load, reloads, lost>>

(* Gateways.forceRemove, to cancel an addition that failed. *)
ForceRemove(d) ==
  /\ Operate
  /\ d \in DOMAIN wallet /\ wallet[d] = "add_failed"
  /\ wallet' = WithoutGateway(wallet, d)
  /\ jobs' = Detach(jobs, d)
  /\ SyncWallet(wallet')
  /\ UNCHANGED <<txq, trust, load, batches, reloads, lost>>

(* Some other part of the client saves the wallet. *)
SaveElsewhere ==
  /\ saved # wallet /\ saved' = wallet
  /\ UNCHANGED <<wallet, jobs, txq, trust, load, batches, ops, reloads, lost>>

(* handleAccountLoad, once the account's entry has come. *)
LoadAccount ==
  /\ load = "waiting"
  /\ load' = "done"
  /\ SyncTrustlines(wallet, jobs)
  /\ UNCHANGED <<wallet, saved, trust, ops, reloads, lost>>

LoadFails ==
  /\ load = "waiting"
  /\ load' = "failed"
  /\ UNCHANGED <<wallet, saved, jobs, txq, trust, batches, ops, reloads, lost>>

-----------------------------------------------------------------------------
JobOf(t) == {j \in jobs : j.batch = t.batch /\ j.domain = t.domain}

(* A job leaves js and the wallet is w by then; the last of its batch saves *)
(* the wallet.                                                              *)
Settle(j, w, js) ==
  /\ wallet' = w
  /\ jobs' = js
  /\ IF \A k \in js : k.batch # j.batch THEN SyncWallet(w) ELSE UNCHANGED saved

(* addGateway's transactions are through: the gateway of that domain is     *)
(* added -- unless it is gone, which fails the promise.                     *)
AddedGateway(j) ==
  Settle(j, IF j.domain \in DOMAIN wallet THEN With(wallet, j.domain, "added") ELSE wallet,
         jobs \ {j})

(* removeGateway's: whatever gateway has that domain now is deleted. *)
RemovedGateway(j) ==
  Settle(j, WithoutGateway(wallet, j.domain), Detach(jobs \ {j}, j.domain))

(* One failed: the captured gateway is marked, and the results of the other *)
(* currencies are of no interest.  A slip is to leave its status.           *)
GatewayFailedSilently(j) == Settle(j, wallet, jobs \ {j})
GatewayFailed(j) ==
  Settle(j, IF j.mine
            THEN With(wallet, j.domain,
                      IF j.kind = "adding" THEN "add_failed" ELSE "removal_failed")
            ELSE wallet,
         jobs \ {j})

Through(j) ==
  \/ j.kind = "adding" /\ AddedGateway(j)
  \/ j.kind = "removing" /\ RemovedGateway(j)

(* A currency's result; the last one settles the job.  Slip: the first one. *)
SucceedAtFirst(j, t) == Through(j)

Succeed(j, t) ==
  IF j.todo = {t.currency}
  THEN Through(j)
  ELSE /\ jobs' = (jobs \ {j}) \cup {[j EXCEPT !.todo = @ \ {t.currency}]}
       /\ UNCHANGED <<wallet, saved>>

(* trustCurrency's transaction takes effect, or was redundant. *)
TrustSet ==
  /\ txq # <<>>
  /\ txq' = Tail(txq)
  /\ LET t == Head(txq) IN
     /\ trust' = [trust EXCEPT ![t.domain] =
                    IF t.kind = "adding" THEN @ \cup {t.currency} ELSE @ \ {t.currency}]
     /\ IF JobOf(t) = {} THEN UNCHANGED <<wallet, saved, jobs>>
        ELSE \E j \in JobOf(t) : Succeed(j, t)
  /\ UNCHANGED <<load, batches, ops, reloads, lost>>

(* It fails. *)
TrustSetFails ==
  /\ txq # <<>>
  /\ txq' = Tail(txq)
  /\ LET t == Head(txq) IN
     IF JobOf(t) = {} THEN UNCHANGED <<wallet, saved, jobs>>
     ELSE \E j \in JobOf(t) : GatewayFailed(j)
  /\ UNCHANGED <<trust, load, batches, ops, reloads, lost>>

(* The page is reloaded and the user logged in again; of the transactions   *)
(* not yet through, some first ones had been sent.                          *)
Reload ==
  /\ reloads < MaxReloads /\ reloads' = reloads + 1
  /\ lost' = lost \cup {d \in Domain :
       \/ StatusOf(saved, d) # StatusOf(wallet, d)
       \/ \E j \in jobs : j.domain = d /\ StatusOf(saved, d) # j.kind}
  /\ wallet' = saved /\ jobs' = {} /\ load' = "waiting"
  /\ \E n \in 0..Len(txq) : txq' = SubSeq(txq, 1, n)
  /\ UNCHANGED <<saved, trust, batches, ops>>

Next ==
  \/ \E d \in Domain : Add(d) \/ Remove(d) \/ ForceRemove(d)
  \/ SaveElsewhere
  \/ LoadAccount
  \/ LoadFails
  \/ TrustSet
  \/ TrustSetFails
  \/ Reload

(* The network goes on, and the account's entry or an error comes. *)
Fairness == WF_vars(TrustSet \/ TrustSetFails) /\ WF_vars(LoadAccount \/ LoadFails)

Spec == Init /\ [][Next]_vars /\ Fairness

-----------------------------------------------------------------------------
Pending(d) == StatusOf(wallet, d) \in Kind

(* A gateway the list shows as "added", with no transaction of its own      *)
(* under way, has all its trust lines -- though batches overlap and set     *)
(* each other's gateways -- unless a reload lost track of it.               *)
AddedIsTrusted ==
  \A d \in Domain \ lost :
    StatusOf(wallet, d) = "added" /\ (\A i \in DOMAIN txq : txq[i].domain # d)
      => trust[d] = CurrenciesOf[d]

(* A pending status is somebody's work: a job is under way that will set    *)
(* it, or the account's load will start one.  When that load fails the      *)
(* statuses it should have resumed stay, up to the next operation.          *)
PendingHasWork ==
  \A d \in Domain : Pending(d) =>
    \/ load # "done"
    \/ \E j \in jobs : j.domain = d /\ j.kind = wallet[d] /\ j.mine

(* "Establishing trustlines..." and "Removing trustlines..." come to an end. *)
PendingSettles ==
  \A d \in Domain : Pending(d) /\ load = "done" ~> ~Pending(d) \/ load # "done"

=============================================================================
