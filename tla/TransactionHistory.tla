------------------------- MODULE TransactionHistory -------------------------
(***************************************************************************)
(* The TransactionHistory service and its readers, PaymentHistory and      *)
(* TradeHistory with their paged views.  The service grows one array from  *)
(* two ends: live transaction events at the front, pages of account_tx at  *)
(* the back, where the next page is asked for by the length of the array.  *)
(*                                                                         *)
(* A transaction is its rank in the account's ledgers, 1 the oldest.  The  *)
(* server's events and answers reach the client in the order it sent them; *)
(* it takes up requests in any order, and may refuse any of them.          *)
(***************************************************************************)
EXTENDS Integers, Sequences, SequencesExt, FiniteSets, FiniteSetsExt, Lists

CONSTANTS
  Reader,       \* the services that read the history through a filter
  Passes,       \* [Reader -> set of transactions that pass its filter]
  PerPage,      \* Options.TRANSACTIONS_PER_PAGE
  MaxLedger,    \* bound on the account's transactions
  MaxCalls,     \* bound on the times the user opens a view or turns a page
  MaxAtOnce,    \* bound on the calls under way when the user makes another
  MaxViews      \* bound on the times a view is opened

Tx == 1..MaxLedger

ASSUME HistoryAssumption ==
  /\ Passes \in [Reader -> SUBSET Tx]
  /\ PerPage \in Nat \ {0} /\ MaxLedger \in Nat /\ MaxCalls \in Nat
  /\ MaxAtOnce \in Nat /\ MaxViews \in Nat
  /\ \A r, s \in Reader : r # s => Passes[r] \cap Passes[s] = {}

VARIABLES
  ledger,       \* the account's transactions so far: 1..ledger
  history,      \* history
  allLoaded,    \* allTransactionsLoaded
  asked,        \* account_tx requests the server has not taken up
  wire,         \* the server's messages on their way, oldest first
  view,         \* the open view: its reader, currentPage, and the rows it shows
  views,        \* views opened so far; a call knows the view that made it
  calls,        \* views opened and pages turned so far
  missed,       \* history variable: the open view's last call was refused
  raced         \* history variable: a call was made, or a transaction came,
                \* while another call or an event was under way

vars == <<ledger, history, allLoaded, asked, wire, view, views, calls, missed, raced>>

Infinity == MaxLedger + MaxCalls + 2

(* A call of getPage: who made it, for which page; and what it has asked.  *)
Call == [id : 1..MaxCalls + MaxLedger + 1, view : 1..MaxViews, reader : Reader, page : Nat]
Message(m) ==
  \/ m.kind = "tx" /\ m.tx \in 1..ledger
  \/ m.kind = "page" /\ m.call \in Call /\ m.rows \in Seq(Tx)
  \/ m.kind = "refusal" /\ m.call \in Call

TypeOK ==
  /\ ledger \in 0..MaxLedger
  /\ history \in Seq(1..ledger)
  /\ allLoaded \in BOOLEAN /\ missed \in BOOLEAN /\ raced \in BOOLEAN
  /\ \A q \in asked : q.call \in Call /\ q.offset \in 0..Len(history)
  /\ \A i \in DOMAIN wire : Message(wire[i])
  /\ view.reader \in Reader /\ view.page \in Nat \ {0} /\ view.rows \in Seq(1..ledger)
  /\ view.page \in 1..Infinity
  /\ views \in 1..MaxViews /\ calls \in 0..MaxCalls

-----------------------------------------------------------------------------
Filtered(reader, rows) == Keep(rows, Passes[reader])

PageOf(rows, page) ==
  SubSeq(rows, (page - 1) * PerPage + 1,
         IF page * PerPage < Len(rows) THEN page * PerPage ELSE Len(rows))

Reaches(rows, page) == Len(rows) > (page - 1) * PerPage

(* Where the next page of account_tx starts; a slip is to count the rows the *)
(* reader can see.                                                           *)
OffsetOfFiltered(reader, rows) == Len(Filtered(reader, rows))
Offset(reader, rows) == Len(rows)

LastPage(reader) ==
  IF allLoaded
  THEN (Len(Filtered(reader, history)) + PerPage - 1) \div PerPage
  ELSE Infinity

(* Calls whose answer has not come, and events still on their way. *)
Outstanding(reqs, w) == {q.call : q \in reqs} \cup
                        {m.call : m \in {n \in Range(w) : n.kind # "tx"}}
Events(w) == {m \in Range(w) : m.kind = "tx"}

(* getPage, from its start or its recursive call: one extra page is wanted; *)
(* the promise resolves with the page, or is rejected when there is none.   *)
(* The rows go to the view that called, which may be closed by now.         *)
GetPage(call, v, h, all, reqs) ==
  LET rows == Filtered(call.reader, h)
      short == ~all /\ Len(rows) < (call.page + 1) * PerPage
  IN  /\ asked' = IF short
                  THEN reqs \cup {[call |-> call, offset |-> Offset(call.reader, h)]}
                  ELSE reqs
      /\ view' = IF ~short /\ Reaches(rows, call.page) /\ call.view = views'
                 THEN [v EXCEPT !.rows = PageOf(rows, call.page)]
                 ELSE v

(* updateTransactionPage, updateTradePage: the view asks for its page. *)
Refresh(v, h, w) ==
  LET out == Outstanding(asked, w)
      free == {i \in 1..Cardinality(out) + 1 : \A c \in out : c.id # i}
  IN  /\ raced' = (raced \/ out # {} \/ Events(w) # {})
      /\ missed' = FALSE
      /\ GetPage([id |-> Min(free), view |-> views', reader |-> v.reader, page |-> v.page],
                 v, h, allLoaded, asked)

MayCall == calls < MaxCalls /\ Cardinality(Outstanding(asked, wire)) < MaxAtOnce

NewView(reader) == [reader |-> reader, page |-> 1, rows |-> <<>>]

(* init, and the first view, which is about to ask for its first page. *)
Init ==
  /\ ledger \in Tx /\ history = <<>> /\ allLoaded = FALSE
  /\ wire = <<>> /\ views = 1 /\ calls = 0
  /\ missed = FALSE /\ raced = FALSE
  /\ \E r \in Reader :
       /\ view = NewView(r)
       /\ asked = {[call |-> [id |-> 1, view |-> 1, reader |-> r, page |-> 1],
                    offset |-> 0]}

(* Another view is opened in place of the present one. *)
OpenView(reader) ==
  /\ views < MaxViews /\ MayCall
  /\ views' = views + 1 /\ calls' = calls + 1
  /\ Refresh(NewView(reader), history, wire)
  /\ UNCHANGED <<ledger, history, allLoaded, wire>>

(* The pager is there while there is more than one page, as far as is known. *)
Turn(page) ==
  /\ LastPage(view.reader) > 1 /\ MayCall
  /\ calls' = calls + 1 /\ UNCHANGED views
  /\ Refresh([view EXCEPT !.page = page], history, wire)
  /\ UNCHANGED <<ledger, history, allLoaded, wire>>

NextPage ==
  LET last == LastPage(view.reader) IN
  Turn(IF view.page + 1 < last THEN view.page + 1 ELSE last)

PreviousPage == Turn(IF view.page > 1 THEN view.page - 1 ELSE 1)

(* A ledger closes with a transaction of the account. *)
Publish ==
  /\ ledger < MaxLedger
  /\ ledger' = ledger + 1
  /\ wire' = Append(wire, [kind |-> "tx", tx |-> ledger + 1])
  /\ raced' = (raced \/ Outstanding(asked, wire) # {})
  /\ UNCHANGED <<history, allLoaded, asked, view, views, calls, missed>>

(* The server takes up a request: its rows, newest first, from the offset. *)
Answer(q) ==
  LET rows == [i \in 1..ledger |-> ledger + 1 - i]
      last == IF q.offset + PerPage < ledger THEN q.offset + PerPage ELSE ledger
  IN
  /\ q \in asked
  /\ asked' = asked \ {q}
  /\ wire' = Append(wire, [kind |-> "page", call |-> q.call,
                           rows |-> SubSeq(rows, q.offset + 1, last)])
  /\ UNCHANGED <<ledger, history, allLoaded, view, views, calls, missed, raced>>

(* Or it refuses the request. *)
Refuse(q) ==
  /\ q \in asked
  /\ asked' = asked \ {q}
  /\ wire' = Append(wire, [kind |-> "refusal", call |-> q.call])
  /\ UNCHANGED <<ledger, history, allLoaded, view, views, calls, missed, raced>>

(* account.on('transaction'): the service puts it in front, and the view    *)
(* whose reader lets it pass asks for its page again.  A slip is to leave   *)
(* that to the pager.                                                       *)
ReceiveEventUnseen ==
  /\ wire # <<>> /\ Head(wire).kind = "tx"
  /\ wire' = Tail(wire)
  /\ history' = <<Head(wire).tx>> \o history
  /\ UNCHANGED <<ledger, allLoaded, asked, view, views, calls, missed, raced>>

ReceiveEvent ==
  /\ wire # <<>> /\ Head(wire).kind = "tx"
  /\ wire' = Tail(wire)
  /\ history' = <<Head(wire).tx>> \o history
  /\ IF Head(wire).tx \in Passes[view.reader]
     THEN /\ UNCHANGED <<views, calls>>
          /\ Refresh(view, history', wire')
     ELSE UNCHANGED <<asked, view, views, calls, missed, raced>>
  /\ UNCHANGED <<ledger, allLoaded>>

(* An answer: its rows go to the end, or it shows that all are loaded; then *)
(* the call goes on.  A slip is to never note the end.                      *)
ReceivePageEndless ==
  /\ wire # <<>> /\ Head(wire).kind = "page"
  /\ wire' = Tail(wire)
  /\ history' = history \o Head(wire).rows
  /\ UNCHANGED views
  /\ GetPage(Head(wire).call, view, history', allLoaded, asked)
  /\ UNCHANGED <<ledger, allLoaded, calls, missed, raced>>

ReceivePage ==
  /\ wire # <<>> /\ Head(wire).kind = "page"
  /\ wire' = Tail(wire)
  /\ history' = history \o Head(wire).rows
  /\ allLoaded' = (allLoaded \/ Head(wire).rows = <<>>)
  /\ UNCHANGED views
  /\ GetPage(Head(wire).call, view, history', allLoaded', asked)
  /\ UNCHANGED <<ledger, calls, missed, raced>>

(* A refusal: getPage's promise is rejected, with no rows added; the view's  *)
(* "then" does not run and it has no "catch".                                *)
ReceiveRefusal ==
  /\ wire # <<>> /\ Head(wire).kind = "refusal"
  /\ wire' = Tail(wire)
  /\ missed' = (missed \/ Head(wire).call.view = views)
  /\ UNCHANGED <<ledger, history, allLoaded, asked, view, views, calls, raced>>

Next ==
  \/ \E r \in Reader : OpenView(r)
  \/ NextPage
  \/ PreviousPage
  \/ Publish
  \/ \E q \in asked : Answer(q) \/ Refuse(q)
  \/ ReceiveEvent
  \/ ReceivePage
  \/ ReceiveRefusal

(* The server and the connection go on; nobody has to turn a page. *)
Fairness ==
  /\ WF_vars(\E q \in asked : Answer(q) \/ Refuse(q))
  /\ WF_vars(ReceiveEvent)
  /\ WF_vars(ReceivePage)
  /\ WF_vars(ReceiveRefusal)

Spec == Init /\ [][Next]_vars /\ Fairness

-----------------------------------------------------------------------------
(* While one call at a time is under way and no transaction comes in the    *)
(* middle of one, the array is the account's transactions, newest first,    *)
(* none twice and none left out, back from the newest event delivered; and  *)
(* the service takes them for complete only when the oldest is there.  It   *)
(* is what makes history.length the right offset for the next page.         *)
HistoryIsComplete ==
  ~raced =>
    /\ \A i \in 1..Len(history) - 1 : history[i] = history[i + 1] + 1
    /\ allLoaded /\ history # <<>> => Last(history) = 1

(* Under the same condition, a view that waits for nothing shows the page   *)
(* it stands at, unless that page is past the end or the server refused     *)
(* what the view asked for last: each live transaction that concerns it has *)
(* moved the rows, and a refusal before is made up for by the next call.    *)
ViewIsCurrent ==
  ~raced /\ ~missed /\ Outstanding(asked, wire) = {} =>
    LET rows == Filtered(view.reader, history) IN
    Reaches(rows, view.page) => view.rows = PageOf(rows, view.page)

(* Every call of getPage settles, whatever raced: the recursion asks again  *)
(* only while rows come, notes the end when none do, and ends on a refusal. *)
CallsSettle == []<>(Outstanding(asked, wire) = {})

=============================================================================
