-------------------------- MODULE ConnectionProofs --------------------------
(***************************************************************************)
(* The alert tells the connection and the account shown is the ledger's,   *)
(* for any number of reports, logins and changes and any payments.         *)
(***************************************************************************)
EXTENDS Connection, TLAPS

Typed ==
  /\ reports \in Seq(Report) /\ entries \in Seq(Entry)
  /\ connected \in BOOLEAN
  /\ waiting \in Nat /\ listeners \in Nat /\ asked \in Nat
  /\ version \in 0..MaxChanges /\ funds \in Nat /\ inflation \in BOOLEAN

(* Of the reports in the queue, after the one that the alert shows, each    *)
(* that follows "connected" is "disconnected"; the last is "connected" just *)
(* while the link is up.                                                    *)
Before(i) == IF i = 1 THEN status ELSE reports[i - 1]
ReportsOK ==
  /\ \A i \in 1..Len(reports) : Before(i) = "connected" => reports[i] = "disconnected"
  /\ link = "up" <=> Before(Len(reports) + 1) = "connected"

(* As long as nothing was missed, an account that is listened to has been   *)
(* asked for or answered, and after the answer the last entry on its way,   *)
(* or else the account shown, is the ledger's.                              *)
EntriesOK ==
  /\ link # "up" => entries = <<>>
  /\ missed = "no" /\ listeners > 0 /\ link # "up" => asked > 0
  /\ missed = "no" /\ listeners > 0 /\ asked = 0 =>
       IF entries = <<>> THEN funds = 0 \/ account = version
       ELSE /\ entries[Len(entries)].version = version
            /\ entries[Len(entries)].funds = funds

IInv == Typed /\ AlertTellsConnection /\ ReportsOK /\ EntriesOK

-----------------------------------------------------------------------------
LEMMA Constants == First \in Nat /\ MaxChanges \in Nat /\ Payments \subseteq Int
BY ConnectionAssumption

LEMMA InitInv == Init => IInv
<1> SUFFICES ASSUME Init PROVE IInv
  OBVIOUS
<1>1. /\ link = "none" /\ status = "" /\ missed = "no"
      /\ reports = <<>> /\ entries = <<>>
      /\ waiting = 0 /\ listeners = 0 /\ asked = 0 /\ version = 0 /\ funds = First
  BY DEF Init
<1>2. connected = FALSE /\ connected \in BOOLEAN /\ inflation \in BOOLEAN
  BY DEF Init
<1>3. Typed
  <2>1. reports \in Seq(Report) /\ entries \in Seq(Entry)
    <3>1. <<>> \in Seq(Report) /\ <<>> \in Seq(Entry)
      OBVIOUS
    <3> QED
      BY <1>1, <3>1, Zenon
  <2>2. /\ waiting \in Nat /\ listeners \in Nat /\ asked \in Nat
        /\ version \in 0..MaxChanges /\ funds \in Nat
    <3>1. 0 \in Nat /\ 0 \in 0..MaxChanges /\ First \in Nat
      BY Constants
    <3> QED
      BY <1>1, <3>1, Zenon
  <2> QED
    BY <1>2, <2>1, <2>2 DEF Typed
<1>4. AlertTellsConnection
  BY <1>1, <1>2 DEF AlertTellsConnection
<1>5. EntriesOK
  <2>1. listeners = 0 /\ link # "up" /\ entries = <<>>
    BY <1>1
  <2>2. ~(0 > 0)
    OBVIOUS
  <2> QED
    BY <2>1, <2>2, Zenon DEF EntriesOK
<1>6. ReportsOK
  <2>1. Len(reports) + 1 = 1 /\ 1..Len(reports) = {}
    <3>1. Len(reports) = 0
      BY <1>1
    <3> QED
      BY <3>1
  <2>2. Before(1) = ""
    BY <1>1 DEF Before
  <2>3. link # "up" /\ Before(Len(reports) + 1) # "connected"
    BY <1>1, <2>1, <2>2
  <2> QED
    BY <2>1, <2>3 DEF ReportsOK
<1> QED
  BY <1>3, <1>4, <1>5, <1>6 DEF IInv

(* Reports are told one or two at a time. *)
LEMMA TellOne ==
  ASSUME reports \in Seq(Report), ReportsOK, NEW r \in Report,
         Tell(<<r>>), status' = status,
         link = "up" => r = "disconnected",
         link' = "up" <=> r = "connected"
  PROVE  reports' \in Seq(Report) /\ ReportsOK'
<1>1. /\ reports' \in Seq(Report) /\ Len(reports') = Len(reports) + 1
      /\ reports'[Len(reports) + 1] = r
      /\ \A i \in 1..Len(reports) : reports'[i] = reports[i]
  BY DEF Tell
<1>2. Len(reports) \in Nat
  OBVIOUS
<1>3. \A i \in 1..Len(reports) + 1 : Before(i)' = Before(i)
  BY <1>1, <1>2 DEF Before
<1>4. ASSUME NEW i \in 1..Len(reports'), Before(i)' = "connected"
      PROVE  reports'[i] = "disconnected"
  <2>1. CASE i \in 1..Len(reports)
    BY <1>1, <1>3, <1>4, <2>1 DEF ReportsOK
  <2>2. CASE i = Len(reports) + 1
    BY <1>1, <1>2, <1>3, <1>4, <2>2 DEF ReportsOK
  <2> QED
    BY <1>1, <1>2, <2>1, <2>2
<1>5. link' = "up" <=> Before(Len(reports) + 1)' = "connected"
  BY <1>1, <1>2 DEF Before
<1> QED
  BY <1>1, <1>4, <1>5 DEF ReportsOK

LEMMA TellTwo ==
  ASSUME reports \in Seq(Report), ReportsOK, link = "up", link' = "trying",
         Tell(<<"disconnected", "connecting">>), status' = status
  PROVE  reports' \in Seq(Report) /\ ReportsOK'
<1>1. /\ reports' \in Seq(Report) /\ Len(reports') = Len(reports) + 2
      /\ reports'[Len(reports) + 1] = "disconnected"
      /\ reports'[Len(reports) + 2] = "connecting"
      /\ \A i \in 1..Len(reports) : reports'[i] = reports[i]
  BY DEF Tell, Report
<1>2. Len(reports) \in Nat
  OBVIOUS
<1>3. \A i \in 1..Len(reports) + 1 : Before(i)' = Before(i)
  BY <1>1, <1>2, SMTT(20) DEF Before
<1>4. \A k : /\ k = Len(reports) + 2 => Before(k)' = "disconnected"
           /\ k = Len(reports) + 3 => Before(k)' = "connecting"
  BY <1>1, <1>2 DEF Before
<1>5. ASSUME NEW i \in 1..Len(reports'), Before(i)' = "connected"
      PROVE  reports'[i] = "disconnected"
  <2>1. CASE i \in 1..Len(reports)
    BY <1>1, <1>3, <1>5, <2>1 DEF ReportsOK
  <2>2. CASE i = Len(reports) + 1
    BY <1>1, <2>2
  <2>3. CASE i = Len(reports) + 2
    <3>1. Before(i)' = "disconnected"
      BY <1>1, <1>2, <2>3 DEF Before
    <3> QED
      BY <1>5, <3>1
  <2> QED
    BY <1>1, <1>2, <2>1, <2>2, <2>3
<1>6. link' = "up" <=> Before(Len(reports) + 1)' = "connected"
  BY <1>1, <1>2, <1>4
<1> QED
  BY <1>1, <1>5, <1>6 DEF ReportsOK

(* What leaves the reports, the alert and the link alone. *)
LEMMA SameReports ==
  ASSUME ReportsOK, UNCHANGED <<reports, status, link>>
  PROVE  ReportsOK'
BY DEF ReportsOK, Before

LEMMA SameEntries ==
  ASSUME EntriesOK, UNCHANGED entry, UNCHANGED ledger, link' = link \/ (link # "up" /\ link' # "up")
  PROVE  EntriesOK'
BY DEF EntriesOK, entry, ledger

LEMMA LostEntries ==
  ASSUME Lose
  PROVE  EntriesOK' /\ entries' = <<>> /\ missed' = "lost" /\ listeners' = 0
BY DEF Lose, EntriesOK

LEMMA LoadedEntries ==
  ASSUME Typed, EntriesOK, NEW n \in Nat \ {0}, handleAccountLoad(n), UNCHANGED ledger,
         link' = link \/ (link # "up" /\ link' # "up")
  PROVE  EntriesOK' /\ entries' = entries /\ listeners' \in Nat /\ asked' \in Nat
BY DEF Typed, EntriesOK, handleAccountLoad, Reset, ledger

(* A new entry is the last on its way. *)
LEMMA NewEntry ==
  ASSUME Typed, link = "up", link' = "up", NEW a \in BOOLEAN, entries' = Append(entries, Now(a)),
         version' \in 0..MaxChanges, funds' \in Nat, inflation' \in BOOLEAN
  PROVE  EntriesOK' /\ entries' \in Seq(Entry)
<1>1. Now(a) \in Entry /\ Now(a).version = version' /\ Now(a).funds = funds'
  BY DEF Now, Entry
<1>2. /\ entries' \in Seq(Entry) /\ entries' # <<>>
      /\ entries'[Len(entries')] = Now(a)
  BY <1>1 DEF Typed
<1> QED
  BY <1>1, <1>2 DEF EntriesOK

-----------------------------------------------------------------------------
LEMMA LinkInv ==
  ASSUME IInv, Link
  PROVE  IInv'
<1>0. /\ Typed /\ AlertTellsConnection /\ ReportsOK /\ EntriesOK
      /\ UNCHANGED <<connected, waiting, status>> /\ UNCHANGED ledger
      /\ UNCHANGED <<version, funds, inflation>>
  BY DEF IInv, Link, loading, alert, ledger
<1>1. AlertTellsConnection'
  BY <1>0 DEF AlertTellsConnection
<1>2. CASE LinkUp
  <2>1. /\ link = "trying" /\ link' = "up" /\ Tell(<<"connected">>) /\ UNCHANGED entry
        /\ UNCHANGED <<listeners, asked, entries, account, missed>>
    BY <1>2 DEF LinkUp, entry
  <2>2. reports' \in Seq(Report) /\ ReportsOK'
    BY <1>0, <2>1, TellOne DEF Typed, Report
  <2>3. EntriesOK'
    BY <1>0, <2>1 DEF EntriesOK, Typed
  <2> QED
    BY <1>0, <1>1, <2>1, <2>2, <2>3 DEF IInv, Typed
<1>3. CASE LinkLost
  <2>1. link = "up" /\ link' = "down" /\ Tell(<<"disconnected">>) /\ Lose
    BY <1>3 DEF LinkLost
  <2>2. reports' \in Seq(Report) /\ ReportsOK'
    BY <1>0, <2>1, TellOne DEF Typed, Report
  <2>3. asked' \in Nat /\ listeners' \in Nat /\ entries' \in Seq(Entry)
    BY <1>0, <2>1 DEF Lose, Typed
  <2> QED
    BY <1>0, <1>1, <2>1, <2>2, <2>3, LostEntries DEF IInv, Typed
<1>4. CASE LinkFails
  <2>1. link = "trying" /\ link' = "down" /\ UNCHANGED reports /\ UNCHANGED entry
        /\ UNCHANGED <<listeners, asked, entries>>
    BY <1>4 DEF LinkFails, entry
  <2>2. ReportsOK'
    BY <1>0, <2>1 DEF ReportsOK, Before
  <2> QED
    BY <1>0, <1>1, <2>1, <2>2, SameEntries DEF IInv, Typed
<1>5. CASE LinkScheduled \/ LinkTries
  <2>1. PICK r \in {"reconnecting", "connecting"} : Tell(<<r>>)
    BY <1>5 DEF LinkScheduled, LinkTries
  <2>2. link # "up" /\ link' # "up" /\ UNCHANGED entry /\ UNCHANGED <<listeners, asked, entries>>
    BY <1>5 DEF LinkScheduled, LinkTries, entry
  <2>3. reports' \in Seq(Report) /\ ReportsOK'
    BY <1>0, <2>1, <2>2, TellOne DEF Typed, Report
  <2> QED
    BY <1>0, <1>1, <2>2, <2>3, SameEntries DEF IInv, Typed
<1> QED
  BY <1>2, <1>3, <1>4, <1>5 DEF Link

LEMMA ForceInv ==
  ASSUME IInv, forceReconnect
  PROVE  IInv'
<1>0. /\ Typed /\ AlertTellsConnection /\ ReportsOK /\ EntriesOK
      /\ UNCHANGED <<connected, waiting, status>> /\ UNCHANGED ledger
      /\ UNCHANGED <<version, funds, inflation>> /\ link' = "trying"
  BY DEF IInv, forceReconnect, loading, alert, ledger
<1>1. AlertTellsConnection'
  BY <1>0 DEF AlertTellsConnection
<1>2. CASE link = "up"
  <2>1. Tell(<<"disconnected", "connecting">>) /\ Lose
    BY <1>2 DEF forceReconnect
  <2>2. reports' \in Seq(Report) /\ ReportsOK'
    BY <1>0, <1>2, <2>1, TellTwo DEF Typed
  <2>3. asked' \in Nat /\ listeners' \in Nat /\ entries' \in Seq(Entry)
    BY <1>0, <2>1 DEF Lose, Typed
  <2> QED
    BY <1>0, <1>1, <2>1, <2>2, <2>3, LostEntries DEF IInv, Typed
<1>3. CASE link # "up"
  <2>1. Tell(<<"connecting">>) /\ UNCHANGED entry /\ UNCHANGED <<listeners, asked, entries>>
    BY <1>3 DEF forceReconnect, entry
  <2>2. reports' \in Seq(Report) /\ ReportsOK'
    BY <1>0, <1>3, <2>1, TellOne DEF Typed, Report
  <2> QED
    BY <1>0, <1>1, <1>3, <2>1, <2>2, SameEntries DEF IInv, Typed
<1> QED
  BY <1>2, <1>3

LEMMA LoginInv ==
  ASSUME IInv, Login
  PROVE  IInv'
<1>0. /\ Typed /\ AlertTellsConnection /\ ReportsOK /\ EntriesOK
      /\ UNCHANGED <<connected, status>> /\ UNCHANGED ledger
      /\ UNCHANGED <<version, funds, inflation>>
  <2>1. UNCHANGED connected
    BY DEF Login, LoginAtOnce, LoginWaits, network
  <2> QED
    BY <2>1 DEF IInv, Login, alert, ledger
<1>1. AlertTellsConnection'
  BY <1>0 DEF AlertTellsConnection
<1>2. CASE LoginAtOnce
  <2>1. handleAccountLoad(1) /\ UNCHANGED <<link, reports, waiting>>
    BY <1>2 DEF LoginAtOnce, network
  <2>2. EntriesOK' /\ entries' = entries /\ listeners' \in Nat /\ asked' \in Nat
    BY <1>0, <2>1, LoadedEntries
  <2> QED
    BY <1>0, <1>1, <2>1, <2>2, SameReports DEF IInv, Typed
<1>3. CASE LoginWaits
  <2>1. waiting' = waiting + 1 /\ UNCHANGED entry /\ UNCHANGED <<listeners, asked, entries>>
    BY <1>3 DEF LoginWaits, entry
  <2>2. CASE link = "none"
    <3>1. link' = "trying" /\ Tell(<<"connecting">>)
      BY <1>3, <2>2 DEF LoginWaits
    <3>2. reports' \in Seq(Report) /\ ReportsOK'
      BY <1>0, <2>2, <3>1, TellOne DEF Typed, Report
    <3> QED
      BY <1>0, <1>1, <2>1, <2>2, <3>1, <3>2, SameEntries DEF IInv, Typed
  <2>3. CASE link # "none"
    <3>1. UNCHANGED <<link, reports>>
      BY <1>3, <2>3 DEF LoginWaits
    <3> QED
      BY <1>0, <1>1, <2>1, <3>1, SameReports, SameEntries DEF IInv, Typed
  <2> QED
    BY <2>2, <2>3
<1> QED
  BY <1>2, <1>3 DEF Login

(* The service and the alert hear of the first report in the queue. *)
LEMMA PassOnInv ==
  ASSUME IInv, PassOn
  PROVE  IInv'
<1>0. /\ Typed /\ AlertTellsConnection /\ ReportsOK /\ EntriesOK
      /\ UNCHANGED link /\ UNCHANGED ledger /\ UNCHANGED <<version, funds, inflation>>
      /\ reports # <<>> /\ reports' = Tail(reports) /\ status' = Head(reports)
      /\ IF Head(reports) = "connected" THEN handleConnect ELSE handleOther(Head(reports))
  BY DEF IInv, PassOn, ledger
<1>1. /\ Len(reports) \in Nat \ {0} /\ Head(reports) = reports[1]
      /\ reports' \in Seq(Report) /\ Len(reports') = Len(reports) - 1
      /\ \A i \in 1..Len(reports) - 1 : reports'[i] = reports[i + 1]
  BY <1>0 DEF Typed
<1>2. ReportsOK'
  <2>1. \A i \in 1..Len(reports) : Before(i)' = Before(i + 1)
    BY <1>0, <1>1 DEF Before
  <2>2. ASSUME NEW i \in 1..Len(reports'), Before(i)' = "connected"
        PROVE  reports'[i] = "disconnected"
    <3>1. i + 1 \in 1..Len(reports) /\ i \in 1..Len(reports) /\ i \in 1..Len(reports) - 1
      BY <1>1
    <3> QED
      BY <1>0, <1>1, <2>1, <2>2, <3>1 DEF ReportsOK
  <2>3. link' = "up" <=> Before(Len(reports) + 1)' = "connected"
    <3>1. Len(reports') + 1 = Len(reports) /\ Len(reports) \in 1..Len(reports)
      BY <1>1
    <3> QED
      BY <1>0, <2>1, <3>1 DEF ReportsOK
  <2> QED
    BY <2>2, <2>3 DEF ReportsOK
<1>3. CASE Head(reports) = "connected"
  <2>1. connected' = TRUE /\ waiting' = 0
    BY <1>0, <1>3 DEF handleConnect
  <2>2. AlertTellsConnection'
    BY <1>0, <1>3, <2>1 DEF AlertTellsConnection
  <2>3. EntriesOK' /\ entries' = entries /\ listeners' \in Nat /\ asked' \in Nat
    <3>1. CASE waiting > 0
      <4>1. handleAccountLoad(waiting) /\ waiting \in Nat \ {0}
        BY <1>0, <1>3, <3>1 DEF handleConnect, Typed
      <4> QED
        BY <1>0, <4>1, LoadedEntries
    <3>2. CASE ~(waiting > 0)
      <4>1. UNCHANGED entry /\ UNCHANGED <<entries, listeners, asked>>
        BY <1>0, <1>3, <3>2 DEF handleConnect, entry
      <4> QED
        BY <1>0, <4>1, SameEntries DEF Typed
    <3> QED
      BY <3>1, <3>2
  <2> QED
    BY <1>0, <1>1, <1>2, <2>1, <2>2, <2>3 DEF IInv, Typed
<1>4. CASE Head(reports) # "connected"
  <2>1. /\ connected' = (connected /\ Head(reports) # "disconnected") /\ UNCHANGED waiting
        /\ UNCHANGED entry /\ UNCHANGED <<entries, listeners, asked>>
    BY <1>0, <1>4 DEF handleOther, entry
  <2>2. connected => Head(reports) = "disconnected"
    <3>1. connected => Before(1) = "connected"
      BY <1>0 DEF AlertTellsConnection, Before
    <3> QED
      BY <1>0, <1>1, <3>1 DEF ReportsOK
  <2>3. connected' = FALSE
    BY <2>1, <2>2
  <2>4. AlertTellsConnection'
    BY <1>0, <1>4, <2>3 DEF AlertTellsConnection
  <2> QED
    BY <1>0, <1>1, <1>2, <2>1, <2>3, <2>4, SameEntries DEF IInv, Typed
<1> QED
  BY <1>3, <1>4

LEMMA RetryInv ==
  ASSUME IInv, RetryTimer
  PROVE  IInv'
<1>0. /\ Typed /\ AlertTellsConnection /\ ReportsOK /\ EntriesOK
      /\ UNCHANGED <<link, reports, connected, waiting>> /\ UNCHANGED ledger /\ UNCHANGED entry
      /\ UNCHANGED <<version, funds, inflation, entries, listeners, asked>>
      /\ status' = StatusAfterRetry(status)
  BY DEF IInv, RetryTimer, network, loading, ledger, entry
<1>1. status' = "connected" <=> status = "connected"
  BY <1>0 DEF StatusAfterRetry
<1>2. AlertTellsConnection'
  BY <1>0, <1>1 DEF AlertTellsConnection
<1>3. \A i : Before(i)' = "connected" <=> Before(i) = "connected"
  BY <1>0, <1>1 DEF Before
<1>4. ReportsOK'
  BY <1>0, <1>3 DEF ReportsOK
<1> QED
  BY <1>0, <1>2, <1>4, SameEntries DEF IInv, Typed

(* The account changes, is asked for, and tells. *)
LEMMA LedgerInv ==
  ASSUME IInv,
         (\E p \in Payments : Change(p)) \/ InflationSet \/ AnswerEntry
  PROVE  IInv'
<1>0. /\ Typed /\ AlertTellsConnection /\ ReportsOK /\ EntriesOK
      /\ UNCHANGED <<link, reports, connected, waiting, status, listeners, account, missed>>
  BY DEF IInv, Change, InflationSet, AnswerEntry, network, loading, alert
<1>1. AlertTellsConnection' /\ ReportsOK'
  BY <1>0, SameReports DEF AlertTellsConnection
<1>2. version' \in 0..MaxChanges /\ funds' \in Nat /\ inflation' \in BOOLEAN /\ asked' \in Nat
  <2>1. CASE \E p \in Payments : Change(p)
    BY <1>0, <2>1, Constants DEF Change, Typed
  <2>2. CASE InflationSet
    BY <1>0, <2>2, Constants DEF InflationSet, Typed
  <2>3. CASE AnswerEntry
    BY <1>0, <2>3 DEF AnswerEntry, Typed, ledger
  <2> QED
    BY <2>1, <2>2, <2>3
<1>3. EntriesOK' /\ entries' \in Seq(Entry)
  <2>1. CASE AnswerEntry
    <3>1. entries' = Append(entries, Now(TRUE)) /\ link = "up"
      BY <2>1 DEF AnswerEntry
    <3> QED
      BY <1>0, <1>2, <3>1, NewEntry
  <2>2. CASE Notify /\ UNCHANGED asked
    <3>1. CASE link = "up" /\ listeners > 0
      <4>1. entries' = Append(entries, Now(FALSE))
        BY <2>2, <3>1 DEF Notify
      <4> QED
        BY <1>0, <1>2, <3>1, <4>1, NewEntry
    <3>2. CASE ~(link = "up" /\ listeners > 0)
      <4>1. entries' = entries
        BY <2>2, <3>2 DEF Notify
      <4> QED
        BY <1>0, <2>2, <3>2, <4>1 DEF EntriesOK, Typed
    <3> QED
      BY <3>1, <3>2
  <2> QED
    BY <2>1, <2>2 DEF Change, InflationSet
<1> QED
  BY <1>0, <1>1, <1>2, <1>3 DEF IInv, Typed

LEMMA FailsInv ==
  ASSUME IInv, EntryFails
  PROVE  IInv'
<1>0. /\ Typed /\ AlertTellsConnection /\ ReportsOK /\ EntriesOK
      /\ UNCHANGED <<link, reports, connected, waiting, status, listeners, entries>>
      /\ UNCHANGED <<version, funds, inflation>>
      /\ missed' # "no" /\ asked' = asked - 1 /\ asked > 0
  BY DEF IInv, EntryFails, network, loading, alert, ledger
<1>1. AlertTellsConnection' /\ ReportsOK'
  BY <1>0, SameReports DEF AlertTellsConnection
<1>2. EntriesOK'
  BY <1>0 DEF EntriesOK
<1> QED
  BY <1>0, <1>1, <1>2 DEF IInv, Typed

LEMMA ReceiveInv ==
  ASSUME IInv, Receive
  PROVE  IInv'
<1>0. /\ Typed /\ AlertTellsConnection /\ ReportsOK /\ EntriesOK
      /\ UNCHANGED <<link, reports, connected, waiting, status, listeners, asked, missed>>
      /\ UNCHANGED <<version, funds, inflation>>
      /\ entries # <<>> /\ entries' = Tail(entries) /\ handleAccountEntry(Head(entries))
  BY DEF IInv, Receive, network, loading, alert, ledger
<1>1. AlertTellsConnection' /\ ReportsOK'
  BY <1>0, SameReports DEF AlertTellsConnection
<1>2. /\ Len(entries) \in Nat \ {0} /\ Head(entries) = entries[1]
      /\ entries' \in Seq(Entry) /\ Len(entries') = Len(entries) - 1
      /\ \A i \in 1..Len(entries) - 1 : entries'[i] = entries[i + 1]
  BY <1>0 DEF Typed
<1>3. CASE entries' = <<>>
  <2>1. Head(entries) = entries[Len(entries)]
    <3>1. Len(entries) = 1
      BY <1>2, <1>3
    <3> QED
      BY <1>2, <3>1
  <2>2. ASSUME listeners > 0, Head(entries).version = version, Head(entries).funds = funds
        PROVE  funds = 0 \/ account' = version
    BY <1>0, <2>2 DEF handleAccountEntry, NotFound, AccountAfter, Typed
  <2>3. EntriesOK'
    BY <1>0, <1>3, <2>1, <2>2 DEF EntriesOK, Typed
  <2> QED
    BY <1>0, <1>1, <1>2, <2>3 DEF IInv, Typed
<1>4. CASE entries' # <<>>
  <2>1. entries'[Len(entries')] = entries[Len(entries)]
    BY <1>2, <1>4
  <2>2. EntriesOK'
    BY <1>0, <1>4, <2>1 DEF EntriesOK
  <2> QED
    BY <1>0, <1>1, <1>2, <2>2 DEF IInv, Typed
<1> QED
  BY <1>3, <1>4

LEMMA NextInv ==
  ASSUME IInv, [Next]_vars
  PROVE  IInv'
<1>1. CASE UNCHANGED vars
  <2>1. /\ UNCHANGED <<link, reports, connected, waiting, status>> /\ UNCHANGED ledger
        /\ UNCHANGED entry /\ UNCHANGED <<version, funds, inflation, entries, listeners, asked>>
    BY <1>1 DEF vars, network, loading, alert, ledger, entry
  <2> QED
    BY <2>1, SameReports, SameEntries DEF IInv, Typed, AlertTellsConnection
<1>2. CASE Next
  BY <1>2, LinkInv, ForceInv, LoginInv, PassOnInv, RetryInv, LedgerInv, FailsInv, ReceiveInv DEF Next
<1> QED
  BY <1>1, <1>2

(* After any reports, tries, logins and changes: what the queue of reports  *)
(* and the entries on their way will make of the alert and of the account.  *)
THEOREM Inductive == Spec => []IInv
<1>1. IInv /\ [Next]_vars => IInv'
  BY NextInv
<1> QED
  BY InitInv, <1>1, PTL DEF Spec

(* The alert says "connected" just while the service takes itself for       *)
(* connected (stellar-network-service.js, disconnected-alert-directive.js). *)
THEOREM AlertTells == Spec => []AlertTellsConnection
<1>1. IInv => AlertTellsConnection
  BY DEF IInv
<1> QED
  BY <1>1, Inductive, PTL

(* The account shown is the ledger's once everything on its way has come,   *)
(* unless the link was lost or an answer failed since it was asked for      *)
(* (app-controller.js 49-85).                                               *)
THEOREM AccountFollows == Spec => []AccountFollowsLedger
<1>1. IInv => AccountFollowsLedger
  BY DEF IInv, EntriesOK, AccountFollowsLedger
<1> QED
  BY <1>1, Inductive, PTL

=============================================================================
