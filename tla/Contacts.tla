----------------------------- MODULE Contacts ------------------------------
(***************************************************************************)
(* The contacts service: federation records, which say what address a name *)
(* stands for, cached by address and by email, and saved in the browser's  *)
(* localStorage for every page (tab) that is opened later.  It asks the    *)
(* federation services; they ask for the domain's stellar.txt first, and   *)
(* that file and reverse federation's answers are remembered as long as    *)
(* the page is open.                                                       *)
(*                                                                         *)
(* Time is counted in steps of which MaxAge make MAX_CONTACT_AGE.  An      *)
(* answer tells what the server knows when it comes.                       *)
(***************************************************************************)
EXTENDS Integers, FiniteSets

CONSTANTS
  Page,        \* tabs of the browser
  Name,        \* names at the federation server, in full: name@domain
  Fairy,       \* the name checkFairyAddress gets the record of
  Address,
  MaxAge,      \* MAX_CONTACT_AGE
  MaxTime,     \* bound on the time
  MaxMoves,    \* bound on the changes at the server
  MaxReloads   \* bound on the reloads

ASSUME ContactsAssumption ==
  /\ Fairy \in Name /\ Address # {}
  /\ MaxAge \in Nat \ {0} /\ MaxTime \in Nat /\ MaxMoves \in Nat /\ MaxReloads \in Nat

VARIABLES
  now,
  holder,      \* at the server: the address of each name
  moves,       \* changes there so far
  byAddress, byEmail,  \* by page: contactsByAddress, contactsByEmail
  disk,        \* localStorage: both, as they were saved last
  txt,         \* by page: rpStellarTxt's promise for the federation domain
  memo,        \* by page: rpReverseFederation's promises, by address: {} or
               \* {the record} it was resolved with
  awaiting,    \* by page: addresses reverse federation has yet to answer
  asking,      \* by page: names federation has yet to answer
  opened,      \* by page: the time it was opened
  reloads,
  tooOld       \* history variable: whether a lookup by name has been answered
               \* with what the server said MaxAge or longer ago

vars == <<now, holder, moves, byAddress, byEmail, disk, txt, memo, awaiting,
          asking, opened, reloads, tooOld>>
contacts == <<byAddress, byEmail, disk>>
server == <<now, holder, moves>>
page == <<contacts, txt, memo, awaiting, asking, opened, reloads, tooOld>>

NoDate == -1

(* dateCached is the code's, told is when the server said it. *)
Record == [name : Name, address : Address, told : 0..MaxTime, dateCached : {NoDate} \cup 0..MaxTime]
Contact == {r \in Record : r.dateCached # NoDate}
Maps(f, S, T) == DOMAIN f \subseteq S /\ \A x \in DOMAIN f : f[x] \in T

(* Contacts are filed under their own address and name. *)
Filed(addresses, emails) ==
  /\ Maps(addresses, Address, Contact) /\ Maps(emails, Name, Contact)
  /\ \A a \in DOMAIN addresses : addresses[a].address = a
  /\ \A n \in DOMAIN emails : emails[n].name = n

TypeOK ==
  /\ now \in 0..MaxTime /\ moves \in 0..MaxMoves /\ reloads \in 0..MaxReloads
  /\ holder \in [Name -> Address]
  /\ \A p \in Page : Filed(byAddress[p], byEmail[p])
  /\ Filed(disk.byAddress, disk.byEmail)
  /\ txt \in [Page -> {"none", "asked", "found", "missing"}]
  /\ \A p \in Page : Maps(memo[p], Address, SUBSET Record)
                     /\ awaiting[p] \subseteq {a \in DOMAIN memo[p] : memo[p][a] = {}}
  /\ asking \in [Page -> SUBSET Name]
  /\ opened \in [Page -> 0..MaxTime]
  /\ tooOld \in BOOLEAN

-----------------------------------------------------------------------------
Put(f, key, value) == [k \in DOMAIN f \cup {key} |-> IF k = key THEN value ELSE f[k]]

(* What the server says of name n. *)
Served(n) == [name |-> n, address |-> holder[n], told |-> now, dateCached |-> NoDate]

(* addContact dates the record and files it.  Saving is two assignments to  *)
(* localStorage; either can fail and the second is not tried then.  Slip:   *)
(* the date left out.                                                       *)
File(p, r) ==
  /\ byAddress' = [byAddress EXCEPT ![p] = Put(@, r.address, r)]
  /\ byEmail' = [byEmail EXCEPT ![p] = Put(@, r.name, r)]
  /\ \/ UNCHANGED disk
     \/ disk' = [disk EXCEPT !.byAddress = byAddress'[p]]
     \/ disk' = [byAddress |-> byAddress'[p], byEmail |-> byEmail'[p]]

Dated(r) == [r EXCEPT !.dateCached = now]
AddContactUndated(p, r) == File(p, r)
AddContact(p, r) == File(p, Dated(r))

Recent(contact) == contact.dateCached > now - MaxAge
Answer(contact) == tooOld' = (tooOld \/ contact.told <= now - MaxAge)

(* rpStellarTxt.get. *)
GetTxt(p) == txt' = [txt EXCEPT ![p] = IF @ = "none" THEN "asked" ELSE @]

Init ==
  /\ now = 0 /\ moves = 0 /\ reloads = 0
  /\ holder \in [Name -> Address]
  /\ byAddress = [p \in Page |-> <<>>] /\ byEmail = [p \in Page |-> <<>>]
  /\ disk = [byAddress |-> <<>>, byEmail |-> <<>>]
  /\ txt = [p \in Page |-> "none"] /\ memo = [p \in Page |-> <<>>]
  /\ awaiting = [p \in Page |-> {}] /\ asking = [p \in Page |-> {}]
  /\ opened = [p \in Page |-> 0]
  /\ tooOld = FALSE

-----------------------------------------------------------------------------
(* rpReverseFederation.checkAddress(a), and what the contacts service does  *)
(* when it has settled before: a remembered answer is dated anew.  A new    *)
(* request fails at once without txt.                                       *)
CheckAddress(p, a) ==
  \/ /\ a \in DOMAIN memo[p]
     /\ \E r \in memo[p][a] : AddContact(p, r)
     /\ UNCHANGED <<memo, awaiting, txt>>
  \/ /\ a \notin DOMAIN memo[p]
     /\ memo' = [memo EXCEPT ![p] = Put(@, a, {})]
     /\ awaiting' = [awaiting EXCEPT ![p] = IF txt[p] = "missing" THEN @ ELSE @ \cup {a}]
     /\ GetTxt(p)
     /\ UNCHANGED contacts

(* fetchContactByAddress: the cached contact if it is recent by its date.   *)
(* Slip: a date put anew on what is found.                                  *)
FetchContactByAddressRedating(p, a) ==
  /\ IF a \in DOMAIN byAddress[p] /\ Recent(byAddress[p][a])
     THEN AddContact(p, byAddress[p][a]) /\ UNCHANGED <<txt, memo, awaiting>>
     ELSE CheckAddress(p, a)
  /\ UNCHANGED <<server, asking, opened, reloads, tooOld>>

FetchContactByAddress(p, a) ==
  /\ IF a \in DOMAIN byAddress[p] /\ Recent(byAddress[p][a])
     THEN UNCHANGED <<contacts, txt, memo, awaiting>>
     ELSE CheckAddress(p, a)
  /\ UNCHANGED <<server, asking, opened, reloads, tooOld>>

(* fetchContactByEmail: the cached contact if it is too old.  A name typed  *)
(* without its domain is not found in the cache.                            *)
FetchContactByEmail(p, n, typedInFull) ==
  /\ IF typedInFull /\ n \in DOMAIN byEmail[p] /\ byEmail[p][n].dateCached < now - MaxAge
     THEN Answer(byEmail[p][n]) /\ UNCHANGED <<txt, asking>>
     ELSE /\ txt[p] # "missing"
          /\ asking' = [asking EXCEPT ![p] = @ \cup {n}]
          /\ GetTxt(p)
          /\ UNCHANGED tooOld
  /\ UNCHANGED <<server, contacts, memo, awaiting, opened, reloads>>

(* stellar.txt comes, or none of the places it is looked for at has it:     *)
(* then what waits for it fails, and what is asked for later.  Slip: to     *)
(* tell one of the federation services only.                                *)
TxtFound(p) ==
  /\ txt[p] = "asked"
  /\ txt' = [txt EXCEPT ![p] = "found"]
  /\ UNCHANGED <<server, contacts, memo, awaiting, asking, opened, reloads, tooOld>>

TxtMissingUntold(p) ==
  /\ txt[p] = "asked"
  /\ txt' = [txt EXCEPT ![p] = "missing"]
  /\ asking' = [asking EXCEPT ![p] = {}]
  /\ UNCHANGED <<server, contacts, memo, awaiting, opened, reloads, tooOld>>

TxtMissing(p) ==
  /\ txt[p] = "asked"
  /\ txt' = [txt EXCEPT ![p] = "missing"]
  /\ asking' = [asking EXCEPT ![p] = {}]
  /\ awaiting' = [awaiting EXCEPT ![p] = {}]
  /\ UNCHANGED <<server, contacts, memo, opened, reloads, tooOld>>

(* Reverse federation answers with one of the address's names, or fails. *)
Told(p, a) ==
  /\ txt[p] = "found" /\ a \in awaiting[p]
  /\ awaiting' = [awaiting EXCEPT ![p] = @ \ {a}]

AddressAnswered(p, a) ==
  /\ Told(p, a)
  /\ \E n \in Name :
       /\ holder[n] = a
       /\ memo' = [memo EXCEPT ![p][a] = {Served(n)}]
       /\ AddContact(p, Served(n))
  /\ UNCHANGED <<server, txt, asking, opened, reloads, tooOld>>

AddressFailed(p, a) ==
  /\ Told(p, a)
  /\ UNCHANGED <<server, contacts, memo, txt, asking, opened, reloads, tooOld>>

(* Federation answers, or fails. *)
EmailAnswered(p, n) ==
  /\ txt[p] = "found" /\ n \in asking[p]
  /\ asking' = [asking EXCEPT ![p] = @ \ {n}]
  /\ AddContact(p, Served(n))
  /\ UNCHANGED <<server, txt, memo, awaiting, opened, reloads, tooOld>>

EmailFailed(p, n) ==
  /\ txt[p] = "found" /\ n \in asking[p]
  /\ asking' = [asking EXCEPT ![p] = @ \ {n}]
  /\ UNCHANGED <<server, contacts, txt, memo, awaiting, opened, reloads, tooOld>>

(* checkFairyAddress's answer, some time after a login. *)
FairyAnswered(p) ==
  /\ AddContact(p, Served(Fairy))
  /\ UNCHANGED <<server, txt, memo, awaiting, asking, opened, reloads, tooOld>>

(* The page is opened again, with the contacts localStorage has. *)
Reload(p) ==
  /\ reloads < MaxReloads /\ reloads' = reloads + 1
  /\ byAddress' = [byAddress EXCEPT ![p] = disk.byAddress]
  /\ byEmail' = [byEmail EXCEPT ![p] = disk.byEmail]
  /\ txt' = [txt EXCEPT ![p] = "none"]
  /\ memo' = [memo EXCEPT ![p] = <<>>]
  /\ asking' = [asking EXCEPT ![p] = {}]
  /\ opened' = [opened EXCEPT ![p] = now]
  /\ awaiting' = [awaiting EXCEPT ![p] = {}]
  /\ UNCHANGED <<server, disk, tooOld>>

(* The name gets another address at the server. *)
Move(n, a) ==
  /\ moves < MaxMoves /\ moves' = moves + 1
  /\ holder[n] # a /\ holder' = [holder EXCEPT ![n] = a]
  /\ UNCHANGED now /\ UNCHANGED page

Tick == now < MaxTime /\ now' = now + 1 /\ UNCHANGED <<holder, moves>> /\ UNCHANGED page

TxtSettled(p) == TxtFound(p) \/ TxtMissing(p)
AddressSettled(p, a) == AddressAnswered(p, a) \/ AddressFailed(p, a)
EmailSettled(p, n) == EmailAnswered(p, n) \/ EmailFailed(p, n)

Next ==
  \/ Tick
  \/ \E n \in Name, a \in Address : Move(n, a)
  \/ \E p \in Page :
       \/ \E a \in Address : FetchContactByAddress(p, a) \/ AddressSettled(p, a)
       \/ \E n \in Name, typedInFull \in BOOLEAN : FetchContactByEmail(p, n, typedInFull)
       \/ \E n \in Name : EmailSettled(p, n)
       \/ TxtSettled(p)
       \/ FairyAnswered(p)
       \/ Reload(p)

(* Every request is answered or fails: they have timeouts. *)
Fairness ==
  \A p \in Page :
    /\ WF_vars(TxtSettled(p))
    /\ \A a \in Address : WF_vars(AddressSettled(p, a))
    /\ \A n \in Name : WF_vars(EmailSettled(p, n))

Spec == Init /\ [][Next]_vars /\ Fairness

-----------------------------------------------------------------------------
(* "If there is no record in the cache or the record is too old, then a       *)
(* federation request will be made" (contacts.js 102-103), so that            *)
(* fetchContactByEmail answers with nothing a server said too long ago.       *)
EmailAnswersAreRecent == ~tooOld

(* A date later than the page's opening is on a record that a server told   *)
(* this page: remembered answers put a new date on old records, but never   *)
(* on those that localStorage or another page brought.                      *)
DatesAreOfThePage ==
  \A p \in Page : \A a \in DOMAIN byAddress[p] :
    byAddress[p][a].dateCached > opened[p] => byAddress[p][a].told >= opened[p]

(* Every lookup that waits settles. *)
LookupsSettle ==
  \A p \in Page :
    /\ \A a \in Address : a \in awaiting[p] ~> a \notin awaiting[p]
    /\ \A n \in Name : n \in asking[p] ~> n \notin asking[p]

=============================================================================
