----------------------------- MODULE Connection ----------------------------
(***************************************************************************)
(* StellarNetwork's connection, what waits for it, the alert that tells of *)
(* it, and the account's entry that AppCtrl shows.                         *)
(*                                                                         *)
(* The library's remote reports what happens to its link at once; the      *)
(* service passes it on in a $timeout, so what it says of the connection   *)
(* lags behind by the reports that are still queued.                       *)
(*                                                                         *)
(* An account's entry is abstracted to its version at the ledger, and its  *)
(* balance to a number of fees, STR of which make one.                 *)
(***************************************************************************)
EXTENDS Integers, Sequences

CONSTANTS
  STR,          \* fees in one STR
  Payments,     \* what the balance can change by from outside, negative included
  First,        \* the balance at the start
  MaxChanges,   \* bound on the changes of the account
  MaxReports,   \* bound on the reports in the queue
  MaxLoads      \* bound on the logins and page changes that wait for the connection

ASSUME ConnectionAssumption ==
  /\ STR \in Nat \ {0} /\ First \in Nat /\ Payments \subseteq Int
  /\ MaxChanges \in Nat /\ MaxReports \in Nat /\ MaxLoads \in Nat

VARIABLES
  link,       \* the library's: "none" before there is a remote, "down" after a
              \* failure, "scheduled" for another try, "trying", "up"
  reports,    \* what handleConnect and the others have yet to pass on
  connected,  \* StellarNetwork.connected
  waitingForConnection,  \* its promise: "none", "pending", "resolved"
  loads,      \* logins so far
  waiting,    \* calls of handleAccountLoad that wait for the promise
  status,     \* the alert's
  retry,      \* the alert's reconnectTimer runs
  version,    \* at the ledger: changes of the account so far
  funds,      \* at the ledger: its balance
  inflation,  \* at the ledger: its inflation destination is set
  sets,       \* setInflationDest's transactions that are not in a ledger yet
  listeners,  \* AppCtrl's entry listeners; each goes at the next disconnect
  asked,      \* answers of account.entry that are awaited
  entries,    \* the account's entries on their way, answers among them
  account,    \* $rootScope.account: the version shown, NoAccount for none
  accountStatus,
  missed      \* history variable: "lost" since the account was asked for the link
              \* was lost, "failed" an answer failed, "no" neither

network == <<link, reports, connected, waitingForConnection>>
alert == <<status, retry>>
ledger == <<version, funds, inflation>>
loading == <<loads, waiting>>
entry == <<listeners, asked, entries, account, accountStatus, missed, sets>>
vars == <<network, loading, alert, ledger, entry>>

Report == {"connected", "disconnected", "reconnecting", "connecting"}
Entry == [version : 0..MaxChanges, funds : Nat, inflation : BOOLEAN, answer : BOOLEAN]
NoAccount == -1

TypeOK ==
  /\ link \in {"none", "down", "scheduled", "trying", "up"}
  /\ reports \in Seq(Report) /\ Len(reports) <= MaxReports
  /\ connected \in BOOLEAN
  /\ waitingForConnection \in {"none", "pending", "resolved"}
  /\ loads \in 0..MaxLoads /\ waiting \in 0..MaxLoads
  /\ status \in {""} \cup Report /\ retry \in BOOLEAN
  /\ version \in 0..MaxChanges /\ funds \in Nat /\ inflation \in BOOLEAN
  /\ listeners \in 0..MaxLoads /\ asked \in 0..MaxLoads
  /\ entries \in Seq(Entry)
  /\ account \in {NoAccount} \cup 0..MaxChanges
  /\ accountStatus \in {"connecting", "loaded", "error"}
  /\ sets \in Nat /\ missed \in {"no", "lost", "failed"}

Init ==
  /\ link = "none" /\ reports = <<>> /\ connected = FALSE /\ waitingForConnection = "none"
  /\ loads = 0 /\ waiting = 0
  /\ status = "" /\ retry = FALSE
  /\ version = 0 /\ funds = First /\ inflation = FALSE /\ sets = 0
  /\ listeners = 0 /\ asked = 0 /\ entries = <<>>
  /\ account = NoAccount /\ accountStatus = "connecting" /\ missed = "no"

-----------------------------------------------------------------------------
(* The library's link. *)

Tell(rs) == reports' = reports \o rs
(* Bound: a try to connect starts only with room for what it may report. *)
Room(n) == Len(reports) + n <= MaxReports

(* A lost link loses the entries on their way and runs the cleanup of every  *)
(* entry listener at once.  An answer awaited is lost or asked for again.    *)
Lose ==
  /\ listeners' = 0 /\ entries' = <<>> /\ missed' = "lost"
  /\ asked' \in {0, asked}
  /\ UNCHANGED <<account, accountStatus, sets>>

LinkUp == link = "trying" /\ link' = "up" /\ Tell(<<"connected">>) /\ UNCHANGED entry
LinkLost == link = "up" /\ Room(1) /\ link' = "down" /\ Tell(<<"disconnected">>) /\ Lose
LinkFails == link = "trying" /\ link' = "down" /\ UNCHANGED <<reports, entry>>
LinkScheduled == link = "down" /\ Room(3) /\ link' = "scheduled" /\ Tell(<<"reconnecting">>) /\ UNCHANGED entry
LinkTries == link = "scheduled" /\ link' = "trying" /\ Tell(<<"connecting">>) /\ UNCHANGED entry

Link ==
  /\ LinkUp \/ LinkLost \/ LinkFails \/ LinkScheduled \/ LinkTries
  /\ UNCHANGED <<connected, waitingForConnection, loading, alert, ledger>>

(* forceReconnect, the alert's link. *)
forceReconnect ==
  /\ status \in {"disconnected", "reconnecting"} /\ Room(3)
  /\ link' = "trying"
  /\ IF link = "up" THEN Tell(<<"disconnected", "connecting">>) /\ Lose
                    ELSE Tell(<<"connecting">>) /\ UNCHANGED entry
  /\ UNCHANGED <<connected, waitingForConnection, loading, alert, ledger>>

-----------------------------------------------------------------------------
(* handleAccountLoad, called n times *)
Reset == accountStatus' = "connecting" /\ missed' = "no"
handleAccountLoad(n) ==
  /\ listeners' = listeners + n /\ asked' = asked + n
  /\ Reset
  /\ UNCHANGED <<entries, account, sets>>

(* walletAddressLoaded: ensureConnection, then handleAccountLoad.  The       *)
(* promise stays resolved whatever becomes of the connection.                *)
GoesOn == connected \/ waitingForConnection = "resolved"
LoginAtOnce ==
  /\ GoesOn /\ handleAccountLoad(1)
  /\ UNCHANGED <<network, waiting>>
LoginWaits ==
  /\ ~GoesOn
  /\ waiting' = waiting + 1 /\ waitingForConnection' = "pending"
  /\ IF link = "none" THEN link' = "trying" /\ Tell(<<"connecting">>)
                      ELSE UNCHANGED <<link, reports>>
  /\ UNCHANGED <<connected, entry>>
Login ==
  /\ loads < MaxLoads /\ loads' = loads + 1
  /\ LoginAtOnce \/ LoginWaits
  /\ UNCHANGED <<alert, ledger>>

(* handleConnect.  Slip: the flag only.  The others, but for the flag that   *)
(* handleDisconnect takes back, only tell the alert.                         *)
HandleConnectUnresolved ==
  /\ connected' = TRUE /\ UNCHANGED <<waitingForConnection, waiting, entry>>
handleConnect ==
  /\ connected' = TRUE
  /\ waitingForConnection' = IF waitingForConnection = "none" THEN "none" ELSE "resolved"
  /\ waiting' = 0
  /\ IF waiting > 0 THEN handleAccountLoad(waiting) ELSE UNCHANGED entry
handleOther(report) ==
  /\ connected' = (connected /\ report # "disconnected")
  /\ UNCHANGED <<waitingForConnection, waiting, entry>>

(* A $timeout callback: the service, then the alert, hear of a report. *)
PassOn ==
  /\ reports # <<>> /\ reports' = Tail(reports)
  /\ IF Head(reports) = "connected" THEN handleConnect ELSE handleOther(Head(reports))
  /\ status' = Head(reports)
  /\ retry' = (retry \/ Head(reports) = "reconnecting")
  /\ UNCHANGED <<link, loads, ledger>>

(* The alert's reconnectTimer.  Slip: it does not look at the status. *)
StatusAfterRetryUnseen(s) == "connecting"
StatusAfterRetry(s) == IF s = "reconnecting" THEN "connecting" ELSE s
RetryTimer ==
  /\ retry /\ retry' = FALSE /\ status' = StatusAfterRetry(status)
  /\ UNCHANGED <<network, loading, ledger, entry>>

-----------------------------------------------------------------------------
(* The account at the ledger and what comes of it. *)

Now(answer) == [version |-> version', funds |-> funds', inflation |-> inflation', answer |-> answer]

(* The library subscribes to the account while anybody listens. *)
Notify == entries' = IF link = "up" /\ listeners > 0 THEN Append(entries, Now(FALSE)) ELSE entries

Change(p) ==
  /\ version < MaxChanges /\ version' = version + 1
  /\ funds + p >= 0 /\ funds' = funds + p
  /\ UNCHANGED <<network, loading, alert, inflation, listeners, asked, account, accountStatus, missed, sets>>
  /\ Notify

InflationSet ==
  /\ sets > 0 /\ sets' = sets - 1
  /\ version < MaxChanges /\ version' = version + 1
  /\ funds > 0 /\ funds' = funds - 1 /\ inflation' = TRUE
  /\ Notify
  /\ UNCHANGED <<network, loading, alert, listeners, asked, account, accountStatus, missed>>

(* account.entry's answer comes on the same connection as the entries. *)
AnswerEntry ==
  /\ asked > 0 /\ asked' = asked - 1 /\ link = "up"
  /\ UNCHANGED <<network, loading, alert, ledger, listeners, account, accountStatus, missed, sets>>
  /\ entries' = Append(entries, Now(TRUE))
EntryFails ==
  /\ asked > 0 /\ asked' = asked - 1 /\ accountStatus' = "error"
  /\ missed' = IF missed = "no" THEN "failed" ELSE missed
  /\ UNCHANGED <<network, loading, alert, ledger, listeners, entries, account, sets>>

(* setInflation: not if two fees would take an STR off what is shown. *)
Sets(e) ==
  /\ ~e.inflation /\ e.funds # 0
  /\ e.funds \div STR = (e.funds - 2) \div STR

(* handleAccountEntry, by every listener; actNotFound brings it no entry.    *)
(* Slip: an account whose inflation destination is set is taken for known.   *)
NotFound(e) == e.answer /\ e.funds = 0
AccountAfterKnown(e) == IF e.inflation /\ account # NoAccount THEN account ELSE e.version
AccountAfter(e) == IF e.funds = 0 THEN NoAccount ELSE e.version
handleAccountEntry(e) ==
  /\ account' = IF listeners = 0 \/ NotFound(e) THEN account ELSE AccountAfter(e)
  /\ sets' = IF Sets(e) THEN sets + listeners ELSE sets
  /\ accountStatus' = IF e.answer THEN "loaded" ELSE accountStatus

Receive ==
  /\ entries # <<>> /\ entries' = Tail(entries)
  /\ handleAccountEntry(Head(entries))
  /\ UNCHANGED <<network, loading, alert, ledger, listeners, asked, missed>>

Next ==
  \/ Link \/ forceReconnect \/ Login \/ PassOn \/ RetryTimer
  \/ (\E p \in Payments : Change(p)) \/ InflationSet
  \/ AnswerEntry \/ EntryFails \/ Receive

(* The browser runs its timeouts and the library keeps trying to connect. *)
Fairness ==
  /\ WF_vars(PassOn)
  /\ WF_vars(Link /\ (LinkScheduled \/ LinkTries)) /\ SF_vars(Link /\ LinkUp)

Spec == Init /\ [][Next]_vars /\ Fairness

-----------------------------------------------------------------------------
(* Once a connection has been reported the alert says so, and it says so only *)
(* while the service takes itself for connected: the timer of a try that is  *)
(* over does not overwrite what was reported since (the alert's directive,   *)
(* 29-44, and stellar-network-service.js 15-54).                             *)
AlertTellsConnection == connected <=> status = "connected"

(* While the link has been up since the account was asked for, the account   *)
(* shown is the ledger's as soon as everything on its way has come: the      *)
(* listener is there before the first answer and nothing falls between the   *)
(* two.  Of an account that is gone only the balance tells: actNotFound      *)
(* leaves the account shown (app-controller.js 49-85).                       *)
AccountFollowsLedger ==
  missed = "no" /\ accountStatus = "loaded" /\ asked = 0 /\ entries = <<>> /\ listeners > 0
    => funds = 0 \/ account = version

(* Who waits for the connection gets it, however often the link fails first  *)
(* (ensureConnection's promise, stellar-network-service.js 84-101).          *)
WaitingEnds == waiting > 0 ~> waiting = 0

=============================================================================
