--------------------------- MODULE ContactsProofs ---------------------------
(***************************************************************************)
(* What the run of Contacts checks for one tab, proved for any number of   *)
(* tabs, names and addresses, and any MaxAge.                              *)
(***************************************************************************)
EXTENDS Contacts, TLAPS

(* The caches and what localStorage keeps of them: no date is in the future, *)
(* and one later than the page's opening is on a record told to that page.   *)
DatedByNow(f) == \A a \in DOMAIN f : f[a].dateCached <= now

CachesInv ==
  /\ DOMAIN byAddress = Page /\ DOMAIN byEmail = Page
  /\ DOMAIN disk = {"byAddress", "byEmail"}
  /\ \A p \in Page : Filed(byAddress[p], byEmail[p]) /\ DatedByNow(byAddress[p])
  /\ Filed(disk.byAddress, disk.byEmail) /\ DatedByNow(disk.byAddress)
  /\ DatesAreOfThePage

(* The page's federation services: what they remember was told to this page. *)
ServicesInv ==
  /\ DOMAIN memo = Page /\ awaiting \in [Page -> SUBSET Address]
  /\ \A p \in Page :
       /\ Maps(memo[p], Address, SUBSET Record)
       /\ awaiting[p] \subseteq {a \in DOMAIN memo[p] : memo[p][a] = {}}
       /\ \A a \in DOMAIN memo[p] : \A r \in memo[p][a] : r.told >= opened[p]
  /\ txt \in [Page -> {"none", "asked", "found", "missing"}]
  /\ asking \in [Page -> SUBSET Name]

ServerInv ==
  /\ now \in 0..MaxTime /\ moves \in 0..MaxMoves /\ reloads \in 0..MaxReloads
  /\ holder \in [Name -> Address]
  /\ opened \in [Page -> 0..MaxTime]
  /\ \A p \in Page : opened[p] <= now
  /\ tooOld \in BOOLEAN

IInv == CachesInv /\ ServicesInv /\ ServerInv

-----------------------------------------------------------------------------
(* Lemmas about the helpers. *)

LEMMA PutMaps ==
  ASSUME NEW S, NEW T, NEW f, Maps(f, S, T), NEW k \in S, NEW v \in T
  PROVE  Maps(Put(f, k, v), S, T)
BY DEF Maps, Put

LEMMA DatedIsADate ==
  ASSUME ServerInv, NEW r \in Record
  PROVE  /\ Dated(r) \in Contact /\ Dated(r).told = r.told
         /\ Dated(r).dateCached = now
<1>1. now \in Nat /\ now \in 0..MaxTime
  BY ContactsAssumption DEF ServerInv
<1>2. Dated(r) = [r EXCEPT !.dateCached = now]
  BY DEF Dated
<1>3. Dated(r) \in Record /\ Dated(r).dateCached = now /\ Dated(r).told = r.told
  BY <1>1, <1>2 DEF Record
<1>4. now # NoDate
  BY <1>1 DEF NoDate
<1> QED
  BY <1>3, <1>4 DEF Contact

LEMMA ServedIsRecord ==
  ASSUME ServerInv, NEW n \in Name
  PROVE  Served(n) \in Record /\ Served(n).told = now
BY DEF ServerInv, Served, Record

(* addContact files a contact told to the page and dated now. *)
LEMMA FileCaches ==
  ASSUME CachesInv, ServerInv, NEW p \in Page, NEW r \in Contact,
         r.dateCached = now, r.told >= opened[p],
         File(p, r), UNCHANGED <<now, opened>>
  PROVE  CachesInv'
<1> DEFINE A == Put(byAddress[p], r.address, r)
           E == Put(byEmail[p], r.name, r)
<1>1. r.address \in Address /\ r.name \in Name /\ now \in Int /\ r.told \in Int
      /\ opened[p] \in Int
  BY DEF Contact, Record, ServerInv
<1>2. Filed(byAddress[p], byEmail[p]) /\ DatedByNow(byAddress[p])
  BY DEF CachesInv
<1>3. /\ Maps(A, Address, Contact)
      /\ \A x \in DOMAIN A : \/ A[x] = r /\ x = r.address
                             \/ x \in DOMAIN byAddress[p] /\ A[x] = byAddress[p][x]
  <2>1. Maps(byAddress[p], Address, Contact)
    BY <1>2 DEF Filed
  <2>2. Maps(A, Address, Contact)
    BY <1>1, <2>1, PutMaps
  <2>3. \A x \in DOMAIN A : \/ A[x] = r /\ x = r.address
                            \/ x \in DOMAIN byAddress[p] /\ A[x] = byAddress[p][x]
    BY DEF Put
  <2> QED
    BY <2>2, <2>3
<1>4. /\ Maps(E, Name, Contact)
      /\ \A x \in DOMAIN E : \/ E[x] = r /\ x = r.name
                             \/ x \in DOMAIN byEmail[p] /\ E[x] = byEmail[p][x]
  <2>1. Maps(byEmail[p], Name, Contact)
    BY <1>2 DEF Filed
  <2>2. Maps(E, Name, Contact)
    BY <1>1, <2>1, PutMaps
  <2>3. \A x \in DOMAIN E : \/ E[x] = r /\ x = r.name
                            \/ x \in DOMAIN byEmail[p] /\ E[x] = byEmail[p][x]
    BY DEF Put
  <2> QED
    BY <2>2, <2>3
<1>5. Filed(A, E)
  BY <1>2, <1>3, <1>4 DEF Filed
<1>6. DatedByNow(A) /\ now' = now
  BY <1>1, <1>2, <1>3 DEF DatedByNow
<1>7. \A x \in DOMAIN A : A[x].dateCached > opened[p] => A[x].told >= opened[p]
  BY <1>1, <1>3 DEF CachesInv, DatesAreOfThePage
<1>8. /\ byAddress' = [byAddress EXCEPT ![p] = A]
      /\ byEmail' = [byEmail EXCEPT ![p] = E]
  BY DEF File
<1>9. /\ DOMAIN byAddress' = Page /\ DOMAIN byEmail' = Page
      /\ byAddress'[p] = A /\ byEmail'[p] = E
      /\ \A q \in Page \ {p} : byAddress'[q] = byAddress[q] /\ byEmail'[q] = byEmail[q]
  BY <1>8 DEF CachesInv
<1>10. ASSUME NEW q \in Page
       PROVE  /\ Filed(byAddress'[q], byEmail'[q])
              /\ \A a \in DOMAIN byAddress'[q] : byAddress'[q][a].dateCached <= now'
              /\ \A a \in DOMAIN byAddress'[q] :
                   byAddress'[q][a].dateCached > opened'[q] => byAddress'[q][a].told >= opened'[q]
  <2>1. CASE q = p
    BY <2>1, <1>5, <1>6, <1>7, <1>9 DEF DatedByNow
  <2>2. CASE q # p
    BY <2>2, <1>9 DEF CachesInv, DatedByNow, DatesAreOfThePage
  <2> QED
    BY <2>1, <2>2
<1>11. /\ DOMAIN disk' = {"byAddress", "byEmail"}
       /\ disk'.byAddress \in {disk.byAddress, A}
       /\ disk'.byEmail \in {disk.byEmail, E}
  <2>1. \/ disk' = disk
        \/ disk' = [disk EXCEPT !.byAddress = A]
        \/ disk' = [byAddress |-> A, byEmail |-> E]
    BY <1>9 DEF File
  <2> QED
    BY <2>1 DEF CachesInv
<1>12. Filed(disk'.byAddress, disk'.byEmail)
  BY <1>5, <1>11 DEF CachesInv, Filed
<1>13. \A a \in DOMAIN disk'.byAddress : disk'.byAddress[a].dateCached <= now'
  BY <1>6, <1>11 DEF CachesInv, DatedByNow
<1> QED
  BY <1>9, <1>10, <1>11, <1>12, <1>13 DEF CachesInv, DatedByNow, DatesAreOfThePage

(* A record that is told to the page is added. *)
LEMMA AddContactCaches ==
  ASSUME CachesInv, ServerInv, NEW p \in Page, NEW r \in Record,
         r.told >= opened[p], AddContact(p, r), UNCHANGED <<now, opened>>
  PROVE  CachesInv'
<1>1. File(p, Dated(r))
  BY DEF AddContact
<1> QED
  BY <1>1, DatedIsADate, FileCaches

(* What leaves the caches, or the services, alone. *)
LEMMA SameCaches ==
  ASSUME CachesInv, UNCHANGED <<contacts, now, opened>>
  PROVE  CachesInv'
BY DEF CachesInv, contacts, DatedByNow, DatesAreOfThePage, Filed, Maps

LEMMA SameServices ==
  ASSUME ServicesInv, UNCHANGED <<memo, awaiting, txt, asking, opened>>
  PROVE  ServicesInv'
BY DEF ServicesInv, Maps

LEMMA SameServer ==
  ASSUME ServerInv, UNCHANGED <<server, opened, reloads>>,
         tooOld' \in BOOLEAN
  PROVE  ServerInv'
BY DEF ServerInv, server

-----------------------------------------------------------------------------
LEMMA InitIInv == Init => IInv
<1> SUFFICES ASSUME Init PROVE IInv
  OBVIOUS
<1>1. /\ now = 0 /\ moves = 0 /\ reloads = 0 /\ holder \in [Name -> Address]
      /\ byAddress = [p \in Page |-> <<>>] /\ byEmail = [p \in Page |-> <<>>]
      /\ disk = [byAddress |-> <<>>, byEmail |-> <<>>]
      /\ txt = [p \in Page |-> "none"] /\ memo = [p \in Page |-> <<>>]
      /\ awaiting = [p \in Page |-> {}] /\ asking = [p \in Page |-> {}]
      /\ opened = [p \in Page |-> 0] /\ tooOld = FALSE
  BY DEF Init
<1>2. DOMAIN <<>> = {}
  OBVIOUS
<1>3. CachesInv
  <2>1. Filed(<<>>, <<>>)
    BY <1>2 DEF Filed, Maps
  <2>2. \A p \in Page : byAddress[p] = <<>> /\ byEmail[p] = <<>>
    BY <1>1
  <2> QED
    BY <1>1, <1>2, <2>1, <2>2 DEF CachesInv, DatedByNow, DatesAreOfThePage
<1>4. ServicesInv
  BY <1>1, <1>2 DEF ServicesInv, Maps
<1>5. ServerInv
  <2>1. /\ now \in 0..MaxTime /\ moves \in 0..MaxMoves /\ reloads \in 0..MaxReloads
        /\ opened \in [Page -> 0..MaxTime]
        /\ \A p \in Page : opened[p] <= now
    BY <1>1, ContactsAssumption
  <2>2. tooOld \in BOOLEAN
    BY <1>1, Zenon
  <2> QED
    BY <1>1, <2>1, <2>2, Zenon DEF ServerInv
<1> QED
  BY <1>3, <1>4, <1>5 DEF IInv

(* Reverse federation's answer of before was told to this page; a new       *)
(* request remembers its promise unresolved.                                *)
LEMMA CheckAddressIInv ==
  ASSUME IInv, NEW p \in Page, NEW a \in Address, CheckAddress(p, a),
         UNCHANGED <<server, asking, opened, reloads, tooOld>>
  PROVE  IInv'
<1> USE DEF IInv
<1>1. UNCHANGED <<now, opened>>
  BY DEF server
<1>2. ASSUME a \in DOMAIN memo[p], NEW r \in memo[p][a], AddContact(p, r),
             UNCHANGED <<memo, awaiting, txt>>
      PROVE  IInv'
  <2>1. r \in Record /\ r.told >= opened[p]
    BY <1>2 DEF ServicesInv, Maps
  <2>2. CachesInv'
    BY <1>1, <1>2, <2>1, AddContactCaches
  <2>3. ServicesInv'
    BY <1>2, SameServices
  <2>4. ServerInv'
    BY <2>2, SameServer DEF ServerInv
  <2> QED
    BY <2>2, <2>3, <2>4
<1>3. ASSUME a \notin DOMAIN memo[p],
             memo' = [memo EXCEPT ![p] = Put(@, a, {})],
             awaiting' = [awaiting EXCEPT ![p] = IF txt[p] = "missing" THEN @ ELSE @ \cup {a}],
             GetTxt(p), UNCHANGED contacts
      PROVE  IInv'
  <2> DEFINE M == Put(memo[p], a, {})
  <2>1. /\ DOMAIN M = DOMAIN memo[p] \cup {a}
        /\ M[a] = {} /\ \A x \in DOMAIN memo[p] : x # a => M[x] = memo[p][x]
    BY DEF Put
  <2>2. Maps(M, Address, SUBSET Record)
    BY PutMaps DEF ServicesInv
  <2>3. /\ DOMAIN memo' = Page /\ memo'[p] = M
        /\ \A q \in Page \ {p} : memo'[q] = memo[q]
    BY <1>3 DEF ServicesInv
  <2>4. /\ awaiting' \in [Page -> SUBSET Address]
        /\ awaiting'[p] \subseteq awaiting[p] \cup {a}
        /\ \A q \in Page \ {p} : awaiting'[q] = awaiting[q]
    BY <1>3 DEF ServicesInv
  <2>5. txt' \in [Page -> {"none", "asked", "found", "missing"}]
    BY <1>3 DEF GetTxt, ServicesInv
  <2>6. awaiting'[p] \subseteq {x \in DOMAIN M : M[x] = {}}
    BY <1>3, <2>1, <2>4 DEF ServicesInv
  <2>7. \A x \in DOMAIN M : \A r \in M[x] : r.told >= opened'[p]
    BY <1>1, <2>1 DEF ServicesInv
  <2>8. ServicesInv'
    <3>1. ASSUME NEW q \in Page
          PROVE  /\ Maps(memo'[q], Address, SUBSET Record)
                 /\ awaiting'[q] \subseteq {x \in DOMAIN memo'[q] : memo'[q][x] = {}}
                 /\ \A x \in DOMAIN memo'[q] : \A r \in memo'[q][x] : r.told >= opened'[q]
      <4>1. CASE q = p
        BY <4>1, <2>2, <2>3, <2>6, <2>7
      <4>2. CASE q # p
        BY <4>2, <1>1, <2>3, <2>4 DEF ServicesInv
      <4> QED
        BY <4>1, <4>2
    <3> QED
      BY <3>1, <2>3, <2>4, <2>5 DEF ServicesInv
  <2>9. CachesInv'
    BY <1>1, <1>3, SameCaches
  <2>10. ServerInv'
    BY <1>3, SameServer DEF ServerInv
  <2> QED
    BY <2>8, <2>9, <2>10
<1> QED
  BY <1>2, <1>3 DEF CheckAddress

(* The cache answers by address, or reverse federation is asked. *)
LEMMA ByAddressIInv ==
  ASSUME IInv, NEW p \in Page, NEW a \in Address, FetchContactByAddress(p, a)
  PROVE  IInv'
<1>1. UNCHANGED <<server, asking, opened, reloads, tooOld>>
  BY DEF FetchContactByAddress
<1>2. CASE a \in DOMAIN byAddress[p] /\ Recent(byAddress[p][a])
  <2>1. UNCHANGED <<contacts, txt, memo, awaiting>>
    BY <1>2 DEF FetchContactByAddress
  <2>2. CachesInv' /\ ServicesInv' /\ ServerInv'
    BY <1>1, <2>1, SameCaches, SameServices, SameServer DEF IInv, server, ServerInv
  <2> QED
    BY <2>2 DEF IInv
<1>3. CASE ~(a \in DOMAIN byAddress[p] /\ Recent(byAddress[p][a]))
  <2>1. CheckAddress(p, a)
    BY <1>3 DEF FetchContactByAddress
  <2> QED
    BY <1>1, <2>1, CheckAddressIInv
<1> QED
  BY <1>2, <1>3

LEMMA ByEmailIInv ==
  ASSUME IInv, NEW p \in Page, NEW n \in Name, NEW typedInFull \in BOOLEAN,
         FetchContactByEmail(p, n, typedInFull)
  PROVE  IInv'
<1>1. UNCHANGED <<server, contacts, memo, awaiting, opened, reloads>>
  BY DEF FetchContactByEmail
<1>2. tooOld' \in BOOLEAN
  BY DEF FetchContactByEmail, Answer, IInv, ServerInv
<1>3. /\ txt' \in [Page -> {"none", "asked", "found", "missing"}]
      /\ asking' \in [Page -> SUBSET Name]
  BY DEF FetchContactByEmail, GetTxt, IInv, ServicesInv
<1>4. CachesInv' /\ ServerInv'
  BY <1>1, <1>2, SameCaches, SameServer DEF IInv, server
<1>5. ServicesInv'
  BY <1>1, <1>3 DEF IInv, ServicesInv
<1> QED
  BY <1>4, <1>5 DEF IInv

(* stellar.txt's answer. *)
LEMMA TxtIInv ==
  ASSUME IInv, NEW p \in Page, TxtSettled(p)
  PROVE  IInv'
<1>1. UNCHANGED <<server, contacts, memo, opened, reloads, tooOld>>
  BY DEF TxtSettled, TxtFound, TxtMissing
<1>2. /\ txt' \in [Page -> {"none", "asked", "found", "missing"}]
      /\ asking' \in [Page -> SUBSET Name]
      /\ awaiting' \in [Page -> SUBSET Address]
      /\ \A q \in Page : awaiting'[q] \subseteq awaiting[q]
  BY DEF TxtSettled, TxtFound, TxtMissing, IInv, ServicesInv
<1>3. CachesInv' /\ ServerInv'
  BY <1>1, SameCaches, SameServer DEF IInv, server, ServerInv
<1>4. ServicesInv'
  BY <1>1, <1>2 DEF IInv, ServicesInv
<1> QED
  BY <1>3, <1>4 DEF IInv

(* An answer that comes now is told to the page open now. *)
LEMMA AddressIInv ==
  ASSUME IInv, NEW p \in Page, NEW a \in Address, AddressSettled(p, a)
  PROVE  IInv'
<1> USE DEF IInv
<1>1. /\ a \in awaiting[p] /\ awaiting' = [awaiting EXCEPT ![p] = @ \ {a}]
      /\ UNCHANGED <<server, txt, asking, opened, reloads, tooOld>>
  BY DEF AddressSettled, AddressAnswered, AddressFailed, Told
<1>2. /\ awaiting' \in [Page -> SUBSET Address]
      /\ awaiting'[p] = awaiting[p] \ {a}
      /\ \A q \in Page \ {p} : awaiting'[q] = awaiting[q]
  BY <1>1 DEF ServicesInv
<1>3. CASE AddressFailed(p, a)
  <2>1. UNCHANGED <<contacts, memo>>
    BY <1>3 DEF AddressFailed
  <2>2. ServicesInv'
    BY <1>1, <1>2, <2>1, ZenonT(40) DEF ServicesInv
  <2>3. CachesInv' /\ ServerInv'
    BY <1>1, <2>1, SameCaches, SameServer DEF server, ServerInv
  <2> QED
    BY <2>2, <2>3
<1>4. CASE AddressAnswered(p, a)
  <2>1. PICK n \in Name : /\ memo' = [memo EXCEPT ![p][a] = {Served(n)}]
                          /\ AddContact(p, Served(n))
    BY <1>4 DEF AddressAnswered
  <2>2. Served(n) \in Record /\ Served(n).told >= opened[p]
    BY ServedIsRecord DEF ServerInv
  <2>3. CachesInv'
    BY <1>1, <2>1, <2>2, AddContactCaches DEF server
  <2>4. ServerInv'
    BY <1>1, <2>3, SameServer DEF ServerInv
  <2>5. a \in DOMAIN memo[p]
    BY <1>1 DEF ServicesInv
  <2>6. /\ DOMAIN memo' = Page /\ DOMAIN memo'[p] = DOMAIN memo[p]
        /\ memo'[p][a] = {Served(n)}
        /\ \A x \in DOMAIN memo[p] \ {a} : memo'[p][x] = memo[p][x]
        /\ \A q \in Page \ {p} : memo'[q] = memo[q]
    BY <2>1, <2>5 DEF ServicesInv
  <2>7. ASSUME NEW q \in Page
        PROVE  /\ Maps(memo'[q], Address, SUBSET Record)
               /\ awaiting'[q] \subseteq {x \in DOMAIN memo'[q] : memo'[q][x] = {}}
               /\ \A x \in DOMAIN memo'[q] : \A r \in memo'[q][x] : r.told >= opened'[q]
    <3>1. CASE q = p
      <4>1. Maps(memo[p], Address, SUBSET Record)
        BY DEF ServicesInv
      <4>2. Maps(memo'[p], Address, SUBSET Record)
        BY <2>2, <2>6, <4>1 DEF Maps
      <4>3. awaiting'[p] \subseteq {x \in DOMAIN memo'[p] : memo'[p][x] = {}}
        BY <1>2, <2>6 DEF ServicesInv
      <4>4. \A x \in DOMAIN memo'[p] : \A r \in memo'[p][x] : r.told >= opened'[p]
        BY <1>1, <2>2, <2>6 DEF ServicesInv
      <4> QED
        BY <3>1, <4>2, <4>3, <4>4
    <3>2. CASE q # p
      BY <3>2, <1>1, <1>2, <2>6 DEF ServicesInv
    <3> QED
      BY <3>1, <3>2
  <2>8. ServicesInv'
    BY <1>1, <1>2, <2>6, <2>7 DEF ServicesInv
  <2> QED
    BY <2>3, <2>4, <2>8
<1> QED
  BY <1>3, <1>4 DEF AddressSettled

LEMMA EmailIInv ==
  ASSUME IInv, NEW p \in Page, NEW n \in Name, EmailSettled(p, n)
  PROVE  IInv'
<1> USE DEF IInv
<1>1. /\ asking' = [asking EXCEPT ![p] = @ \ {n}]
      /\ UNCHANGED <<server, txt, memo, awaiting, opened, reloads, tooOld>>
  BY DEF EmailSettled, EmailAnswered, EmailFailed
<1>2. asking' \in [Page -> SUBSET Name]
  BY <1>1 DEF ServicesInv
<1>3. ServicesInv'
  BY <1>1, <1>2 DEF ServicesInv
<1>4. CachesInv'
  <2>1. CASE EmailFailed(p, n)
    BY <1>1, <2>1, SameCaches DEF EmailFailed, server
  <2>2. CASE EmailAnswered(p, n)
    <3>1. AddContact(p, Served(n))
      BY <2>2 DEF EmailAnswered
    <3>2. Served(n) \in Record /\ Served(n).told >= opened[p]
      BY ServedIsRecord DEF ServerInv
    <3> QED
      BY <1>1, <3>1, <3>2, AddContactCaches DEF server
  <2> QED
    BY <2>1, <2>2 DEF EmailSettled
<1>5. ServerInv'
  BY <1>1, <1>4, SameServer DEF ServerInv
<1> QED
  BY <1>3, <1>4, <1>5

LEMMA FairyIInv ==
  ASSUME IInv, NEW p \in Page, FairyAnswered(p)
  PROVE  IInv'
<1> USE DEF IInv
<1>1. /\ AddContact(p, Served(Fairy))
      /\ UNCHANGED <<server, txt, memo, awaiting, asking, opened, reloads, tooOld>>
  BY DEF FairyAnswered
<1>2. Served(Fairy) \in Record /\ Served(Fairy).told >= opened[p]
  BY ServedIsRecord, ContactsAssumption DEF ServerInv
<1>3. File(p, Dated(Served(Fairy)))
  BY <1>1 DEF AddContact
<1>4. CachesInv'
  BY <1>1, <1>2, <1>3, DatedIsADate, FileCaches DEF server
<1>5. ServicesInv' /\ ServerInv'
  BY <1>1, SameServices, SameServer DEF ServerInv
<1> QED
  BY <1>4, <1>5

(* A page opened now: no contact it takes from localStorage is dated later. *)
LEMMA ReloadIInv ==
  ASSUME IInv, NEW p \in Page, Reload(p)
  PROVE  IInv'
<1> USE DEF IInv
<1>1. /\ reloads < MaxReloads /\ reloads' = reloads + 1
      /\ byAddress' = [byAddress EXCEPT ![p] = disk.byAddress]
      /\ byEmail' = [byEmail EXCEPT ![p] = disk.byEmail]
      /\ txt' = [txt EXCEPT ![p] = "none"]
      /\ memo' = [memo EXCEPT ![p] = <<>>]
      /\ asking' = [asking EXCEPT ![p] = {}]
      /\ opened' = [opened EXCEPT ![p] = now]
      /\ awaiting' = [awaiting EXCEPT ![p] = {}]
      /\ now' = now /\ holder' = holder /\ moves' = moves
      /\ disk' = disk /\ tooOld' = tooOld
  BY DEF Reload, server
<1>2. /\ opened' \in [Page -> 0..MaxTime] /\ opened'[p] = now
      /\ \A q \in Page \ {p} : opened'[q] = opened[q]
  BY <1>1 DEF ServerInv
<1>3. ServerInv'
  BY <1>1, <1>2, ContactsAssumption DEF ServerInv
<1>4. /\ DOMAIN byAddress' = Page /\ DOMAIN byEmail' = Page
      /\ byAddress'[p] = disk.byAddress /\ byEmail'[p] = disk.byEmail
      /\ \A q \in Page \ {p} : byAddress'[q] = byAddress[q] /\ byEmail'[q] = byEmail[q]
  BY <1>1 DEF CachesInv
<1>5. ASSUME NEW q \in Page
      PROVE  /\ Filed(byAddress'[q], byEmail'[q])
             /\ \A a \in DOMAIN byAddress'[q] : byAddress'[q][a].dateCached <= now'
             /\ \A a \in DOMAIN byAddress'[q] :
                  byAddress'[q][a].dateCached > opened'[q] => byAddress'[q][a].told >= opened'[q]
  <2>1. CASE q = p
    <3>1. \A a \in DOMAIN disk.byAddress : disk.byAddress[a].dateCached \in Int /\ now \in Int
      BY DEF CachesInv, Filed, Maps, Contact, Record, NoDate, ServerInv
    <3> QED
      BY <2>1, <3>1, <1>1, <1>2, <1>4 DEF CachesInv, DatedByNow
  <2>2. CASE q # p
    BY <2>2, <1>1, <1>2, <1>4 DEF CachesInv, DatedByNow, DatesAreOfThePage
  <2> QED
    BY <2>1, <2>2
<1>6. CachesInv'
  BY <1>1, <1>4, <1>5 DEF CachesInv, DatedByNow, DatesAreOfThePage
<1>7. /\ DOMAIN memo' = Page /\ memo'[p] = <<>> /\ DOMAIN <<>> = {}
      /\ \A q \in Page \ {p} : memo'[q] = memo[q]
  BY <1>1 DEF ServicesInv
<1>8. /\ awaiting' \in [Page -> SUBSET Address] /\ awaiting'[p] = {}
      /\ \A q \in Page \ {p} : awaiting'[q] = awaiting[q]
      /\ txt' \in [Page -> {"none", "asked", "found", "missing"}]
      /\ asking' \in [Page -> SUBSET Name]
  BY <1>1 DEF ServicesInv
<1>9. ASSUME NEW q \in Page
      PROVE  /\ Maps(memo'[q], Address, SUBSET Record)
             /\ awaiting'[q] \subseteq {x \in DOMAIN memo'[q] : memo'[q][x] = {}}
             /\ \A x \in DOMAIN memo'[q] : \A r \in memo'[q][x] : r.told >= opened'[q]
  <2>1. CASE q = p
    BY <2>1, <1>7, <1>8 DEF Maps
  <2>2. CASE q # p
    BY <2>2, <1>2, <1>7, <1>8 DEF ServicesInv
  <2> QED
    BY <2>1, <2>2
<1>10. ServicesInv'
  BY <1>7, <1>8, <1>9 DEF ServicesInv
<1> QED
  BY <1>3, <1>6, <1>10

LEMMA MoveIInv ==
  ASSUME IInv, NEW n \in Name, NEW a \in Address, Move(n, a)
  PROVE  IInv'
<1>1. /\ moves < MaxMoves /\ moves' = moves + 1
      /\ holder' = [holder EXCEPT ![n] = a] /\ now' = now /\ UNCHANGED page
  BY DEF Move
<1>2. UNCHANGED <<contacts, txt, memo, awaiting, asking, opened, reloads, tooOld>>
  BY <1>1 DEF page
<1>3. CachesInv' /\ ServicesInv'
  BY <1>1, <1>2, SameCaches, SameServices DEF IInv
<1>4. ServerInv'
  BY <1>1, <1>2, ContactsAssumption DEF IInv, ServerInv
<1> QED
  BY <1>3, <1>4 DEF IInv

LEMMA TickIInv ==
  ASSUME IInv, Tick
  PROVE  IInv'
<1> USE DEF IInv
<1>1. /\ now < MaxTime /\ now' = now + 1 /\ now \in Nat /\ MaxTime \in Nat
      /\ UNCHANGED <<holder, moves>> /\ UNCHANGED page
  BY ContactsAssumption DEF Tick, ServerInv
<1>2. UNCHANGED <<contacts, txt, memo, awaiting, asking, opened, reloads, tooOld>>
  BY <1>1 DEF page
<1>3. UNCHANGED <<byAddress, byEmail, disk>>
  BY <1>2 DEF contacts
<1>4. \A f : Maps(f, Address, Contact) /\ DatedByNow(f)
              => \A a \in DOMAIN f : f[a].dateCached <= now'
  BY <1>1 DEF Maps, DatedByNow, Contact, Record, NoDate
<1>5. CachesInv'
  BY <1>2, <1>3, <1>4 DEF CachesInv, DatedByNow, DatesAreOfThePage, Filed
<1>6. ServicesInv'
  BY <1>2, SameServices
<1>7. ServerInv'
  BY <1>1, <1>2 DEF ServerInv
<1> QED
  BY <1>5, <1>6, <1>7

LEMMA NextIInv == IInv /\ [Next]_vars => IInv'
<1> SUFFICES ASSUME IInv, [Next]_vars PROVE IInv'
  OBVIOUS
<1>1. CASE UNCHANGED vars
  BY <1>1, SameCaches, SameServices, SameServer
  DEF vars, IInv, contacts, server, ServerInv
<1>2. CASE Next
  BY <1>2, TickIInv, MoveIInv, ByAddressIInv, AddressIInv, ByEmailIInv, EmailIInv,
     TxtIInv, FairyIInv, ReloadIInv DEF Next
<1> QED
  BY <1>1, <1>2

(* The strengthened invariant holds, of any number of tabs that share one   *)
(* localStorage.                                                            *)
THEOREM Inductive == Spec => []IInv
BY InitIInv, NextIInv, PTL DEF Spec

(* Every variable stays in its type; contacts are filed under their own     *)
(* address and name, in memory and in localStorage.                         *)
THEOREM Typing == Spec => []TypeOK
<1>1. IInv => TypeOK
  BY DEF IInv, CachesInv, ServicesInv, ServerInv, TypeOK
<1> QED
  BY <1>1, Inductive, PTL

(* A date later than the page's opening is on a record told to that page,   *)
(* whatever other tabs leave in localStorage and however its saves fail.    *)
THEOREM DatesOfThePage == Spec => []DatesAreOfThePage
<1>1. IInv => DatesAreOfThePage
  BY DEF IInv, CachesInv
<1> QED
  BY <1>1, Inductive, PTL

=============================================================================
