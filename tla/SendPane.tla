------------------------------ MODULE SendPane ------------------------------
(***************************************************************************)
(* The send pane around the payment form: the form, the confirmation of a  *)
(* path, and the wait for the transaction's result.  The form can be       *)
(* edited only while the pane shows it; the network answers whenever.      *)
(***************************************************************************)
EXTENDS Payment

CONSTANT MaxSends     \* bound on the transactions submitted

ASSUME PaneAssumption == MaxSends \in Nat

VARIABLES
  pane,      \* send.state
  path,      \* send.path
  early,     \* history: that path was proposed while a lookup was open
  result,    \* send.result, "" for none
  online,    \* $rootScope.connected
  funded,    \* $rootScope.account.Balance is there
  tx,        \* the transaction submitted last
  sent,      \* how many were submitted; their numbers are 1..sent
  inFlight   \* those whose success or error event has not come

paneVars == <<pane, path, early, result, online, funded, tx, sent, inFlight>>
allVars == <<vars, paneVars>>

Payments == [address : Account, tag : Tag \cup {None}, amount : Amount,
             issuer : Account \cup {None}, path : Paths, early : BOOLEAN]
NoPayment == [address |-> None, tag |-> None, amount |-> None, issuer |-> None,
              path |-> NoPaths, early |-> FALSE]

PaneTypeOK ==
  /\ TypeOK
  /\ pane \in {"form", "confirm", "sending", "disconnected", "unfunded"}
  /\ path \in Paths \cup {NoPaths} /\ early \in BOOLEAN
  /\ result \in {"", "sending", "status", "error", "stellarerror"}
  /\ online \in BOOLEAN /\ funded \in BOOLEAN
  /\ tx \in Payments \cup {NoPayment}
  /\ sent \in 0..MaxSends
  /\ inFlight \subseteq 1..sent

(* setState *)
PaneState(state, isOnline, isFunded) ==
  CASE ~isOnline              -> "disconnected"
    [] isOnline /\ ~isFunded  -> "unfunded"
    [] OTHER                  -> state

Show(state) == pane' = PaneState(state, online, funded)

PaneInit ==
  /\ Init
  /\ online \in BOOLEAN /\ funded \in BOOLEAN
  /\ pane = PaneState("form", online, funded)
  /\ path = NoPaths /\ early = FALSE /\ result = ""
  /\ tx = NoPayment /\ sent = 0 /\ inFlight = {}

FormEdit == pane = "form" /\ Edit /\ UNCHANGED paneVars

Answered == NetworkAnswer /\ UNCHANGED paneVars

(* sendPropose, on the button of a path in the form *)
Propose ==
  /\ pane = "form" /\ shown.paths # NoPaths
  /\ path' = shown.paths /\ early' = lookup.asking
  /\ Show("confirm")
  /\ UNCHANGED <<vars, result, online, funded, tx, sent, inFlight>>

(* cancelConfirm: the Change button, and Back after an error *)
CancelConfirm ==
  /\ pane = "confirm" \/ (pane = "sending" /\ result = "error")
  /\ Show("form")
  /\ UNCHANGED <<vars, path, early, result, online, funded, tx, sent, inFlight>>

(* sendConfirm.  Without a destination address the library throws before    *)
(* anything is submitted.  Offline the transaction is submitted all the     *)
(* same, for the library to send when it can, and the pane turns to         *)
(* "disconnected".                                                          *)
SendConfirm ==
  /\ pane = "confirm" /\ payee.address # None
  /\ sent < MaxSends
  /\ sent' = sent + 1
  /\ tx' = [address |-> payee.address, tag |-> payee.tag,
            amount |-> sendAmount, issuer |-> issuer, path |-> path, early |-> early]
  /\ inFlight' = inFlight \cup {sent + 1}
  /\ result' = "sending"
  /\ Show("sending")
  /\ UNCHANGED <<vars, path, early, online, funded>>

(* onTransactionSuccess, onTransactionError, setEngineStatus: whatever the *)
(* pane shows by then.                                                     *)
TransactionEvent(i, r) ==
  /\ i \in inFlight
  /\ inFlight' = inFlight \ {i}
  /\ result' = r
  /\ UNCHANGED <<vars, pane, path, early, online, funded, tx, sent>>

(* reset: openSend, Stop waiting, Try again, Send another payment.  The path *)
(* and the result stay.                                                      *)
PaneReset ==
  /\ Reset
  /\ Show("form")
  /\ UNCHANGED <<path, early, result, online, funded, tx, sent, inFlight>>

Connected ==
  /\ ~online /\ online' = TRUE
  /\ pane' = IF pane = "disconnected" THEN PaneState("form", TRUE, funded) ELSE pane
  /\ UNCHANGED <<vars, path, early, result, funded, tx, sent, inFlight>>

Disconnected ==
  /\ online /\ online' = FALSE
  /\ UNCHANGED <<vars, pane, path, early, result, funded, tx, sent, inFlight>>

AccountLoaded ==
  /\ ~funded /\ funded' = TRUE
  /\ pane' = IF pane = "unfunded" THEN PaneState("form", online, TRUE) ELSE pane
  /\ UNCHANGED <<vars, path, early, result, online, tx, sent, inFlight>>

PaneNext ==
  \/ FormEdit
  \/ Answered
  \/ Propose
  \/ CancelConfirm
  \/ SendConfirm
  \/ \E i \in inFlight, r \in {"status", "error", "stellarerror"} : TransactionEvent(i, r)
  \/ PaneReset
  \/ Connected
  \/ Disconnected
  \/ AccountLoaded

PaneSpec == PaneInit /\ [][PaneNext]_allVars

-----------------------------------------------------------------------------
(* Destination, amount and issuer are read when the user confirms, the path   *)
(* when the user picks it: a transaction delivers the amount its path was     *)
(* found for and, unless the path was picked while a lookup was open, to the  *)
(* account it was found for, a credit of that account's issuer.               *)
SignedAsProposed ==
  /\ tx.amount = tx.path.amount
  /\ ~tx.early => /\ tx.address = tx.path.address
                  /\ tx.amount \in Amount \ Native => tx.issuer = tx.path.address

=============================================================================
