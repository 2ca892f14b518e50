--------------------------- MODULE AccountProofs ---------------------------
(***************************************************************************)
(* What the run of Account checks for a few codes and passwords, proved    *)
(* for any number of them.                                                 *)
(***************************************************************************)
EXTENDS Account, TLAPS

(* Where the client can be: a page after the login has a new wallet, the    *)
(* pages after a recovery have the data and the key it found.               *)
PagesOK ==
  /\ at \in {"mark", "hasRecovery", "flag", "settings"} => v2 # None
  /\ at \in {"change", "changing", "enabling"} =>
       recovery # NoRecovery /\ masterKey # None
  /\ at = "changing" => v2 # None /\ v2 < MaxPasswords
  /\ at = "enabling" => v2 # None

(* The flag: it is in the session's wallet if it is in the saved one, until *)
(* a code has been confirmed.                                               *)
FlagOK ==
  /\ v2 = None => ~needsReset
  /\ at \in {"mark", "hasRecovery"} => ~needsReset
  /\ at = "flag" => flagged
  /\ at = "settings" /\ needsReset /\ ~flagged => code # 0

(* The change of a code: the part the page has from the API server, or will *)
(* have, is that of the code being changed to, on a page whose form is left *)
(* alone.                                                                   *)
ChangeOK ==
  /\ newCode <= codes /\ newCode # 0
  /\ typed <= codes /\ typed # 0
  /\ resetting => serverRecoveryCode # None
  /\ ~hasty /\ newCode # None =>
       /\ resetting => serverRecoveryCode = newCode
       /\ \A n \in Request : answers[n].code \in {None, newCode}

(* A confirmation there runs alone.  Before enableRecovery it has the parts *)
(* of one code, or that is given up; then the data is there.                *)
Waits(k) == confirm[k] # "none"
Has(k) ==
  /\ confirm[k] = "check" /\ typed # None =>
       \/ typed = newCode /\ serverRecoveryCode = newCode
       \/ typed # newCode /\ "dropped" \in dead
  /\ confirm[k] = "enable" /\ typed # None /\ typed = newCode => Opens(typed)
ConfirmOK ==
  /\ \A k \in Confirmation : Waits(k) => at = "settings"
  /\ \A k \in Confirmation : confirm[k] \in {"finish", "getSettings", "sync"} => code # 0
  /\ ~hasty => /\ \A k, l \in Confirmation : Waits(k) /\ Waits(l) => k = l
               /\ \A k \in Confirmation : Has(k)

(* What is wrong with the recovery data is on record.                       *)
Parts(c) == recovery.user = c /\ recovery.server = c
DataOK ==
  /\ v2 = None => recovery = NoRecovery
  /\ code # None /\ v2 # None =>
       Parts(code) \/ dead \ {"rekeyed"} # {} \/ (newCode # None /\ newCode = recovery.user)
  /\ v2 # None => recovery.key = v2 \/ "rekeyed" \in dead \/ recovery = NoRecovery
  /\ v2 # None /\ recovery = NoRecovery => dead \ {"rekeyed"} # {}

IInv == TypeOK /\ PagesOK /\ FlagOK /\ ChangeOK /\ ConfirmOK /\ DataOK

LEMMA Constants ==
  /\ MaxCodes \in Nat /\ MaxPasswords \in Nat
  /\ 0 \in Code /\ 0 \in Password /\ None \notin Code /\ None \notin Password
  /\ Code \subseteq Int /\ None \in Int
BY AccountAssumption DEF Code, Password, None

LEMMA InitInv == Init => IInv
<1> SUFFICES ASSUME Init PROVE IInv
  OBVIOUS
<1>1. TypeOK
  BY Constants DEF Init, TypeOK, LoginSteps, Pages
<1>2. PagesOK /\ FlagOK
  BY DEF Init, PagesOK, FlagOK
<1>3. ChangeOK /\ ConfirmOK
  BY DEF Init, ChangeOK, ConfirmOK, Waits, Has, None
<1>4. DataOK
  BY DEF Init, DataOK
<1> QED
  BY <1>1, <1>2, <1>3, <1>4 DEF IInv

(* Steps that leave the code, its change and the data as they are.          *)
LEMMA Frame ==
  ASSUME ChangeOK, ConfirmOK, DataOK,
         UNCHANGED <<v2, recovery, code, newCode, codes, form, confirm, hasty, dead>>,
         UNCHANGED at \/ at # "settings"
  PROVE  ChangeOK' /\ ConfirmOK' /\ DataOK'
<1>1. ChangeOK'
  BY DEF ChangeOK, form
<1>2. ConfirmOK'
  BY DEF ConfirmOK, Waits, Has, Opens, form
<1>3. DataOK'
  BY DEF DataOK, Parts
<1> QED
  BY <1>1, <1>2, <1>3

(* Each step that is not one of the settings page, nor of a password's      *)
(* change, leaves what the code, its change and the data are.               *)
LEMMA LoginStep ==
  ASSUME IInv,
         \/ ShowLoginParams \/ LoginV1 \/ OpenBroken \/ MarkMigrated
         \/ UpdateApiRecover \/ StoreNeedsReset \/ SyncNeedsReset \/ LoginV2
  PROVE  IInv'
<1>0. TypeOK /\ PagesOK /\ FlagOK /\ ChangeOK /\ ConfirmOK /\ DataOK
  BY DEF IInv
<1>1. UNCHANGED <<v2, recovery, code, newCode, codes, settings, masterKey, dead>>
  BY DEF ShowLoginParams, LoginV1, OpenBroken, MarkMigrated, UpdateApiRecover, StoreNeedsReset,
         SyncNeedsReset, LoginV2, migration, api, settings, form
<1>2. TypeOK' /\ PagesOK' /\ FlagOK'
  <2>1. CASE ShowLoginParams
    BY <1>0, <1>1, <2>1 DEF TypeOK, PagesOK, FlagOK, ShowLoginParams, Go, LoginSteps, Pages,
                           migration, api, settings, form
  <2>2. CASE LoginV1
    BY <1>0, <1>1, <2>2 DEF TypeOK, PagesOK, FlagOK, LoginV1, Go, LoginSteps, Pages,
                           migration, api, settings, form
  <2>3. CASE OpenBroken
    BY <1>0, <1>1, <2>3 DEF TypeOK, PagesOK, FlagOK, OpenBroken, Asks, Go, LoginSteps, Pages,
                           api, settings, form
  <2>4. CASE MarkMigrated
    <3>1. offs' \in BOOLEAN
      BY <2>4, Zenon DEF MarkMigrated
    <3> QED
      BY <1>0, <1>1, <2>4, <3>1 DEF TypeOK, PagesOK, FlagOK, MarkMigrated, Asks, Go, LoginSteps,
                                   Pages, api, settings, form
  <2>5. CASE UpdateApiRecover
    <3>1. recover' \in BOOLEAN /\ UNCHANGED <<migration, settings, at, flagged>> /\ offs' = FALSE
      BY <1>0, <2>5 DEF TypeOK, UpdateApiRecover
    <3>2. offs' \in BOOLEAN
      BY <3>1
    <3>3. TypeOK'
      BY <1>0, <1>1, <3>1, <3>2 DEF TypeOK, migration, settings, form
    <3> QED
      BY <1>0, <1>1, <3>1, <3>3 DEF PagesOK, FlagOK, migration
  <2>6. CASE StoreNeedsReset
    <3>1. /\ UNCHANGED <<migration, recovery, api, settings, masterKey, offs, dead>>
          /\ at = "hasRecovery"
          /\ \/ flagged' = TRUE /\ at' = "flag"
             \/ flagged' = FALSE /\ at' = "settings"
      BY <2>6 DEF StoreNeedsReset, Go
    <3>2. flagged' \in BOOLEAN /\ at' \in LoginSteps \cup Pages
      BY <3>1 DEF LoginSteps, Pages
    <3>3. TypeOK'
      BY <1>0, <3>1, <3>2 DEF TypeOK, migration, api, settings, form
    <3> QED
      BY <1>0, <3>1, <3>3 DEF PagesOK, FlagOK, migration, api
  <2>7. CASE SyncNeedsReset
    <3>1. /\ UNCHANGED <<v1, v2, recovery, api, flagged, settings, masterKey, offs, dead>>
          /\ at = "flag" /\ at' = "settings"
      BY <2>7 DEF SyncNeedsReset, Asks, Go
    <3>2. needsReset' \in BOOLEAN
      <4>1. needsReset' = TRUE \/ needsReset' = needsReset
        BY <2>7 DEF SyncNeedsReset, Asks
      <4> QED
        BY <1>0, <4>1, Zenon DEF TypeOK
    <3>3. TypeOK'
      BY <1>0, <3>1, <3>2 DEF TypeOK, Pages, api, settings, form
    <3> QED
      BY <1>0, <3>1, <3>3 DEF PagesOK, FlagOK, api
  <2>8. CASE LoginV2
    BY <1>0, <1>1, <2>8 DEF TypeOK, PagesOK, FlagOK, LoginV2, Go, LoginSteps, Pages,
                           migration, api, settings, form
  <2> QED
    BY <2>1, <2>2, <2>3, <2>4, <2>5, <2>6, <2>7, <2>8
<1>3. UNCHANGED at \/ at # "settings"
  BY DEF ShowLoginParams, LoginV1, OpenBroken, MarkMigrated, UpdateApiRecover, StoreNeedsReset,
         SyncNeedsReset, LoginV2, Asks
<1>4. ChangeOK' /\ ConfirmOK' /\ DataOK'
  BY <1>0, <1>1, <1>3, Frame DEF settings
<1> QED
  BY <1>2, <1>4 DEF IInv

LEMMA MigrateStep ==
  ASSUME IInv, MigrateWallet
  PROVE  IInv'
<1>0. TypeOK /\ PagesOK /\ FlagOK /\ ChangeOK /\ ConfirmOK /\ DataOK
  BY DEF IInv
<1>1. /\ UNCHANGED <<v1, needsReset, recovery, api, flagged, settings, masterKey, offs>>
      /\ at = "create"
      /\ \/ v2 = None /\ v2' = 0 /\ dead' = dead \cup {"migrated"} /\ at' \in {"mark", "v1"}
         \/ UNCHANGED <<v2, dead>> /\ at' = "v1"
  BY DEF MigrateWallet, Asks, Go
<1>2. /\ v2' \in Password \cup {None}
      /\ dead' \subseteq {"migrated", "dropped", "rekeyed", "mixed"}
      /\ at' \in LoginSteps \cup Pages
  BY <1>0, <1>1, Constants DEF TypeOK, LoginSteps, Pages
<1>3. TypeOK'
  BY <1>0, <1>1, <1>2 DEF TypeOK, api, settings, form
<1>4. PagesOK' /\ FlagOK'
  BY <1>0, <1>1, Constants DEF PagesOK, FlagOK, TypeOK, api
<1>5. ChangeOK'
  BY <1>0, <1>1 DEF ChangeOK, api, settings, form
<1>6. ConfirmOK'
  <2>1. \A k \in Confirmation : confirm[k] = "none"
    BY <1>0, <1>1 DEF ConfirmOK, Waits
  <2> QED
    BY <1>1, <2>1 DEF ConfirmOK, Waits, Has, settings
<1>7. CASE UNCHANGED v2
  BY <1>0, <1>1, <1>7, <1>3, <1>4, <1>5, <1>6, Constants DEF DataOK, Parts, TypeOK, api, IInv
<1>8. CASE dead' = dead \cup {"migrated"}
  <2>1. dead' \ {"rekeyed"} # {}
    BY <1>8
  <2>2. (v2 = None /\ v2' # None) \/ UNCHANGED <<v2, recovery, dead>>
    BY <1>1, Constants
  <2>3. recovery' = NoRecovery \/ recovery'.key = v2' \/ "rekeyed" \in dead' \/ v2' = None
    BY <1>0, <1>1, <1>8, <2>2 DEF DataOK
  <2> QED
    BY <1>3, <1>4, <1>5, <1>6, <2>1, <2>2, <2>3 DEF DataOK, IInv
<1> QED
  BY <1>1, <1>7, <1>8

LEMMA LeaveStep ==
  ASSUME IInv, Leave
  PROVE  IInv'
<1>0. TypeOK /\ PagesOK /\ FlagOK /\ ChangeOK /\ ConfirmOK /\ DataOK
  BY DEF IInv
<1>1. /\ UNCHANGED <<migration, recovery, api, offs, dead>>
      /\ at' \in {"login", "recovery"} /\ masterKey' = None
      /\ resetting' = FALSE /\ serverRecoveryCode' = None /\ typed' = None
      /\ answers' = [n \in Request |-> NoAnswer]
      /\ confirm' = [k \in Confirmation |-> "none"]
      /\ hasRecovery' \in BOOLEAN /\ resetting' \in BOOLEAN /\ sending' \in BOOLEAN
      /\ hasty' \in BOOLEAN /\ flagged' \in BOOLEAN
  BY DEF Leave, Go, NoSettings
<1>2. /\ answers' \in [Request -> Answer \cup {NoAnswer}]
      /\ confirm' \in [Confirmation -> Confirming \cup {"none"}]
  BY <1>1
<1>3. TypeOK'
  BY <1>0, <1>1, <1>2, Constants DEF TypeOK, migration, api, LoginSteps, Pages
<1>4. PagesOK' /\ FlagOK'
  BY <1>0, <1>1 DEF PagesOK, FlagOK, migration, api
<1>5. ChangeOK'
  <2>1. codes \in Int /\ None <= codes /\ None # 0 /\ newCode <= codes /\ newCode # 0
    BY <1>0, Constants DEF TypeOK, ChangeOK, None, Code
  <2> QED
    BY <1>1, <2>1 DEF ChangeOK, NoAnswer, api
<1>6. ConfirmOK'
  BY <1>1 DEF ConfirmOK, Waits, Has
<1>7. DataOK'
  BY <1>0, <1>1 DEF DataOK, Parts, migration, api
<1> QED
  BY <1>3, <1>4, <1>5, <1>6, <1>7 DEF IInv

(* The settings page.  Its answers and its form.                            *)
LEMMA ViewStep ==
  ASSUME IInv, OpenSettings \/ (\E value \in BOOLEAN : ToggleRecovery(value))
  PROVE  IInv'
<1>0. TypeOK /\ PagesOK /\ FlagOK /\ ChangeOK /\ ConfirmOK /\ DataOK
  BY DEF IInv
<1>1. CASE OpenSettings
  <2>1. /\ UNCHANGED <<migration, recovery, api, at, flagged, serverRecoveryCode, confirm, hasty,
                       masterKey, offs, dead>>
        /\ at = "settings" /\ resetting' = FALSE /\ typed' = None
        /\ \/ UNCHANGED answers
           \/ \E n \in Request : answers' = [answers EXCEPT ![n] = [to |-> "getNew", code |-> newCode]]
    BY <1>1 DEF OpenSettings, OnSettings, Sends, migration
  <2>2. hasRecovery' \in BOOLEAN
    <3>1. hasRecovery' = hasRecovery \/ hasRecovery' = (code # None)
      BY <1>1 DEF OpenSettings
    <3> QED
      BY <1>0, <3>1, Zenon DEF TypeOK
  <2>3. resetting' \in BOOLEAN /\ sending' \in BOOLEAN
    BY <1>1 DEF OpenSettings
  <2>4. answers' \in [Request -> Answer \cup {NoAnswer}]
    BY <1>0, <2>1 DEF TypeOK, Answer
  <2>5. \A n \in Request : answers'[n].code \in {answers[n].code, newCode}
    BY <1>0, <2>1 DEF TypeOK
  <2>6. TypeOK'
    BY <1>0, <2>1, <2>2, <2>3, <2>4 DEF TypeOK, migration, api
  <2>7. PagesOK' /\ FlagOK'
    BY <1>0, <2>1 DEF PagesOK, FlagOK, migration, api
  <2>8. ChangeOK'
    <3>1. codes \in Int /\ None <= codes /\ None # 0
      BY <1>0, Constants DEF TypeOK, None, Code
    <3> QED
      BY <1>0, <2>1, <2>5, <3>1 DEF ChangeOK, api
  <2>9. ConfirmOK'
    BY <1>0, <2>1 DEF ConfirmOK, Waits, Has, api
  <2>10. DataOK'
    BY <1>0, <2>1 DEF DataOK, Parts, migration, api
  <2> QED
    BY <2>6, <2>7, <2>8, <2>9, <2>10 DEF IInv
<1>2. ASSUME NEW value \in BOOLEAN, ToggleRecovery(value) PROVE IInv'
  <2>1. /\ UNCHANGED <<migration, recovery, code, newCode, codes, at, flagged, settings, masterKey,
                       offs, dead>>
        /\ recover' \in BOOLEAN
    BY <1>2 DEF ToggleRecovery, OnSettings, migration
  <2>2. TypeOK'
    BY <1>0, <2>1 DEF TypeOK, migration, settings, form
  <2>3. PagesOK' /\ FlagOK'
    BY <1>0, <2>1 DEF PagesOK, FlagOK, migration
  <2>4. ChangeOK' /\ ConfirmOK' /\ DataOK'
    BY <1>0, <2>1, Frame DEF migration, settings
  <2> QED
    BY <2>2, <2>3, <2>4 DEF IInv
<1> QED
  BY <1>1, <1>2

LEMMA TypeStep ==
  ASSUME IInv, NEW c \in 1..codes, Type(c)
  PROVE  IInv'
<1>0. TypeOK /\ PagesOK /\ FlagOK /\ ChangeOK /\ ConfirmOK /\ DataOK
  BY DEF IInv
<1>1. /\ UNCHANGED <<migration, recovery, api, at, flagged, hasRecovery, resetting,
                     serverRecoveryCode, sending, answers, confirm, masterKey, offs, dead>>
      /\ at = "settings" /\ typed' = c /\ hasty' = (hasty \/ Confirms)
  BY DEF Type, OnSettings, migration
<1>2. c \in Code /\ c <= codes /\ c # 0
  BY <1>0, Constants DEF TypeOK, Code
<1>3. hasty' \in BOOLEAN
  BY <1>1
<1>4. ~hasty' => ~hasty /\ \A k \in Confirmation : confirm[k] = "none"
  BY <1>1 DEF Confirms
<1>5. TypeOK'
  BY <1>0, <1>1, <1>2, <1>3 DEF TypeOK, migration, api
<1>6. PagesOK' /\ FlagOK'
  BY <1>0, <1>1 DEF PagesOK, FlagOK, migration, api
<1>7. ChangeOK'
  BY <1>0, <1>1, <1>2, <1>4 DEF ChangeOK, api
<1>8. ConfirmOK'
  BY <1>0, <1>1, <1>4 DEF ConfirmOK, Waits, Has, api
<1>9. DataOK'
  BY <1>0, <1>1 DEF DataOK, Parts, migration, api
<1> QED
  BY <1>5, <1>6, <1>7, <1>8, <1>9 DEF IInv

LEMMA TakeStep ==
  ASSUME IInv, NEW n \in Request, TakeAnswer(n)
  PROVE  IInv'
<1>0. TypeOK /\ PagesOK /\ FlagOK /\ ChangeOK /\ ConfirmOK /\ DataOK
  BY DEF IInv
<1>1. /\ UNCHANGED <<migration, recovery, api, at, flagged, hasRecovery, typed, confirm, hasty,
                     masterKey, offs, dead>>
      /\ at = "settings" /\ answers' = [answers EXCEPT ![n] = NoAnswer]
      /\ \/ answers[n].code # None /\ serverRecoveryCode' = answers[n].code
         \/ UNCHANGED serverRecoveryCode /\ (resetting' => resetting)
  BY DEF TakeAnswer, OnSettings, migration
<1>2. resetting' \in BOOLEAN
  <2>1. resetting' = TRUE \/ resetting' = FALSE \/ resetting' = resetting
    BY DEF TakeAnswer
  <2> QED
    BY <1>0, <2>1, Zenon DEF TypeOK
<1>3. sending' \in BOOLEAN
  BY DEF TakeAnswer
<1>4. answers[n].code \in Code \cup {None}
  BY <1>0 DEF TypeOK, Answer, NoAnswer
<1>5. /\ answers' \in [Request -> Answer \cup {NoAnswer}]
      /\ \A m \in Request : answers'[m].code \in {answers[m].code, None}
  BY <1>0, <1>1 DEF TypeOK, NoAnswer
<1>6. serverRecoveryCode' \in Code \cup {None}
  BY <1>0, <1>1, <1>4 DEF TypeOK
<1>7. TypeOK'
  BY <1>0, <1>1, <1>2, <1>3, <1>5, <1>6 DEF TypeOK, migration, api
<1>8. PagesOK' /\ FlagOK'
  BY <1>0, <1>1 DEF PagesOK, FlagOK, migration, api
<1>9. ChangeOK'
  BY <1>0, <1>1, <1>5 DEF ChangeOK, api
<1>10. ConfirmOK'
  <2>1. ~hasty /\ newCode # None => serverRecoveryCode' \in {newCode, serverRecoveryCode}
    BY <1>0, <1>1 DEF ChangeOK
  <2> QED
    BY <1>0, <1>1, <2>1 DEF ConfirmOK, Waits, Has, Opens, migration, api
<1>11. DataOK'
  BY <1>0, <1>1 DEF DataOK, Parts, migration, api
<1> QED
  BY <1>7, <1>8, <1>9, <1>10, <1>11 DEF IInv

(* A change begun or given up: what hangs on the one before is on record.   *)
LEMMA ResetStep ==
  ASSUME IInv, ResetRecovery \/ CancelResetRecovery
  PROVE  IInv'
<1>0. TypeOK /\ PagesOK /\ FlagOK /\ ChangeOK /\ ConfirmOK /\ DataOK
  BY DEF IInv
<1>1. /\ UNCHANGED <<migration, recovery, recover, code, at, flagged, hasRecovery, resetting,
                     serverRecoveryCode, typed, confirm, masterKey, offs>>
      /\ at = "settings"
      /\ \/ /\ ~resetting /\ newCode' = codes + 1 /\ codes' = codes + 1 /\ codes < MaxCodes
            /\ dead' = Dropped /\ hasty' = (hasty \/ PartOnItsWay)
            /\ \E n \in Request, c \in {codes + 1, None} :
                 answers' = [answers EXCEPT ![n] = [to |-> "reset", code |-> c]]
         \/ /\ UNCHANGED <<codes, newCode, dead, hasty>>
            /\ \E n \in Request : answers' = [answers EXCEPT ![n] = [to |-> "reset", code |-> None]]
         \/ /\ newCode' = None /\ codes' = codes
            /\ dead' = Dropped /\ hasty' = (hasty \/ PartOnItsWay)
            /\ \/ UNCHANGED answers
               \/ \E n \in Request :
                    answers' = [answers EXCEPT ![n] = [to |-> "cancel", code |-> None]]
  BY DEF ResetRecovery, CancelResetRecovery, OnSettings, Sends, migration
<1>2. codes \in Int /\ None \in Int /\ None < 0 /\ (codes < MaxCodes => codes + 1 \in Code /\ codes + 1 # None)
      /\ typed \in Int /\ newCode \in Int /\ codes >= 0
  BY <1>0, Constants DEF TypeOK, Code, None
<1>3. dead' \subseteq {"migrated", "dropped", "rekeyed", "mixed"} /\ dead \subseteq dead'
  BY <1>0, <1>1 DEF TypeOK, Dropped
<1>4. sending' \in BOOLEAN
  <2>1. sending' = TRUE \/ sending' = sending
    BY DEF ResetRecovery, CancelResetRecovery
  <2> QED
    BY <1>0, <2>1, Zenon DEF TypeOK
<1>5. hasty' \in BOOLEAN
  <2>1. hasty' = hasty \/ hasty' = (hasty \/ PartOnItsWay)
    BY <1>1
  <2> QED
    BY <1>0, <2>1, Zenon DEF TypeOK
<1>6. /\ answers' \in [Request -> Answer \cup {NoAnswer}]
      /\ \A n \in Request : \/ answers'[n].code \in {answers[n].code, None}
                            \/ answers'[n].code = codes + 1 /\ newCode' = codes + 1
  <2>1. \/ UNCHANGED answers
        \/ \E n \in Request, c \in Code \cup {None}, to \in {"reset", "cancel"} :
             answers' = [answers EXCEPT ![n] = [to |-> to, code |-> c]]
    BY <1>1, <1>2
  <2>2. ASSUME NEW n \in Request, NEW c \in Code \cup {None}, NEW to \in {"reset", "cancel"},
               answers' = [answers EXCEPT ![n] = [to |-> to, code |-> c]]
        PROVE  answers' \in [Request -> Answer \cup {NoAnswer}]
    <3>1. [to |-> to, code |-> c] \in Answer
      BY DEF Answer
    <3> QED
      BY <1>0, <2>2, <3>1 DEF TypeOK
  <2>3. answers' \in [Request -> Answer \cup {NoAnswer}]
    BY <1>0, <2>1, <2>2 DEF TypeOK
  <2>4. \A n \in Request : \/ answers'[n].code \in {answers[n].code, None}
                           \/ answers'[n].code = codes + 1 /\ newCode' = codes + 1
    BY <1>0, <1>1 DEF TypeOK
  <2> QED
    BY <2>3, <2>4
<1>7. TypeOK'
  <2>1. newCode' \in Code \cup {None} /\ codes' \in Code
    BY <1>0, <1>1, <1>2 DEF TypeOK
  <2> QED
    BY <1>0, <1>1, <1>3, <1>4, <1>5, <1>6, <2>1 DEF TypeOK, migration
<1>8. PagesOK' /\ FlagOK'
  BY <1>0, <1>1 DEF PagesOK, FlagOK, migration
<1>9. ~hasty' =>
        ~hasty /\ (UNCHANGED <<newCode, codes, dead>> \/ \A n \in Request : answers[n].code = None)
  <2>1. CASE UNCHANGED <<newCode, codes, dead, hasty>>
    BY <2>1
  <2>2. CASE hasty' = (hasty \/ PartOnItsWay)
    BY <2>2 DEF PartOnItsWay
  <2> QED
    BY <1>1, <2>1, <2>2
<1>10. ChangeOK'
  <2>1. \/ codes' = codes /\ newCode' \in {newCode, None}
        \/ codes' = codes + 1 /\ newCode' = codes + 1
    BY <1>1
  <2>2. newCode' <= codes' /\ newCode' # 0 /\ typed' <= codes' /\ typed' # 0
    <3>1. typed' = typed /\ newCode <= codes /\ newCode # 0 /\ typed <= codes /\ typed # 0
      BY <1>0, <1>1 DEF ChangeOK
    <3>2. codes \in Int /\ None \in Int /\ None < 0 /\ codes >= 0 /\ typed \in Int
      BY <1>2
    <3>3. CASE codes' = codes /\ newCode' \in {newCode, None}
      BY <3>1, <3>2, <3>3
    <3>4. CASE codes' = codes + 1 /\ newCode' = codes + 1
      BY <3>1, <3>2, <3>4
    <3> QED
      BY <2>1, <3>3, <3>4
  <2>3. resetting' => serverRecoveryCode' # None
    BY <1>0, <1>1 DEF ChangeOK
  <2>4. ASSUME ~hasty', newCode' # None
        PROVE  /\ resetting' => serverRecoveryCode' = newCode'
               /\ \A n \in Request : answers'[n].code \in {None, newCode'}
    BY <1>0, <1>1, <1>6, <1>9, <2>4 DEF ChangeOK
  <2> QED
    BY <2>2, <2>3, <2>4 DEF ChangeOK
<1>11. ConfirmOK'
  <2>1. UNCHANGED <<newCode, dead>> \/ (newCode' # typed \/ typed = None)
    BY <1>0, <1>1, <1>2 DEF ChangeOK
  <2>2. ASSUME NEW k \in Confirmation, confirm[k] = "check", typed # None, Has(k)
        PROVE  UNCHANGED <<newCode, dead>> \/ "dropped" \in dead'
    <3>1. typed = newCode => newCode # None
      BY <2>2
    <3>2. typed # newCode => "dropped" \in dead'
      BY <1>3, <2>2 DEF Has
    <3>3. newCode # None => UNCHANGED <<newCode, dead>> \/ "dropped" \in dead'
      BY <1>1, <2>2 DEF Dropped
    <3> QED
      BY <3>1, <3>2, <3>3
  <2>3. ASSUME NEW k \in Confirmation, Has(k) PROVE Has(k)'
    BY <1>1, <1>3, <2>1, <2>2, <2>3 DEF Has, Opens, migration
  <2> QED
    BY <1>0, <1>1, <1>9, <2>3 DEF ConfirmOK, Waits
<1>12. DataOK'
  <2>1. newCode # None /\ recovery.user = newCode => "dropped" \in dead' \/ UNCHANGED newCode
    BY <1>1 DEF Dropped
  <2>2. dead \ {"rekeyed"} # {} => dead' \ {"rekeyed"} # {}
    BY <1>3
  <2>3. "dropped" \in dead' => dead' \ {"rekeyed"} # {}
    OBVIOUS
  <2>4. UNCHANGED <<v2, recovery, code>>
    BY <1>1 DEF migration
  <2>5. code # None /\ v2 # None =>
          Parts(code) \/ dead' \ {"rekeyed"} # {} \/ (newCode' # None /\ newCode' = recovery.user)
    BY <1>0, <2>1, <2>2, <2>3 DEF DataOK
  <2> QED
    BY <1>0, <1>3, <2>2, <2>4, <2>5 DEF DataOK, Parts
<1> QED
  BY <1>7, <1>8, <1>10, <1>11, <1>12 DEF IInv

(* The confirmation.  Only EnableRecovery changes the data and only         *)
(* FinishChange the code in force.                                          *)
LEMMA ConfirmStep ==
  ASSUME IInv, NEW k \in Confirmation, ConfirmResetRecovery(k)
  PROVE  IInv'
<1>0. TypeOK /\ PagesOK /\ FlagOK /\ ChangeOK /\ ConfirmOK /\ DataOK
  BY DEF IInv
<1>1. /\ UNCHANGED <<migration, recovery, api, at, flagged, hasRecovery, form, masterKey, offs, dead>>
      /\ at = "settings" /\ resetting /\ typed # None /\ typed = newCode
      /\ confirm' = [confirm EXCEPT ![k] = "check"] /\ hasty' = (hasty \/ Confirms)
  BY DEF ConfirmResetRecovery, CodeIsRight, OnSettings, migration
<1>2. hasty' \in BOOLEAN /\ confirm' \in [Confirmation -> Confirming \cup {"none"}]
  BY <1>0, <1>1 DEF TypeOK, Confirming
<1>3. ~hasty' => ~hasty /\ \A l \in Confirmation : l # k => confirm'[l] = "none"
  BY <1>0, <1>1 DEF Confirms, TypeOK
<1>4. TypeOK'
  BY <1>0, <1>1, <1>2 DEF TypeOK, migration, api, form
<1>5. PagesOK' /\ FlagOK'
  BY <1>0, <1>1 DEF PagesOK, FlagOK, migration, api
<1>6. ChangeOK'
  BY <1>0, <1>1, <1>3 DEF ChangeOK, form, api
<1>7. ConfirmOK'
  <2>1. confirm'[k] = "check" /\ \A l \in Confirmation : l # k => confirm'[l] = confirm[l]
    BY <1>0, <1>1 DEF TypeOK
  <2>2. ~hasty => serverRecoveryCode = newCode
    BY <1>0, <1>1 DEF ChangeOK
  <2>3. ~hasty' => \A l \in Confirmation : Has(l)'
    BY <1>1, <1>3, <2>1, <2>2 DEF Has, form, api
  <2> QED
    BY <1>0, <1>1, <1>3, <2>1, <2>3 DEF ConfirmOK, Waits, api
<1>8. DataOK'
  BY <1>0, <1>1 DEF DataOK, Parts, migration, api
<1> QED
  BY <1>4, <1>5, <1>6, <1>7, <1>8 DEF IInv

(* One confirmation goes on or ends, the others stay where they are.        *)
LEMMA Moves ==
  ASSUME TypeOK, NEW k \in Confirmation, NEW to \in Confirming,
         \/ confirm' = [confirm EXCEPT ![k] = to]
         \/ Ends(k)
  PROVE  /\ confirm' \in [Confirmation -> Confirming \cup {"none"}]
         /\ confirm'[k] \in {to, "none"}
         /\ \A l \in Confirmation : l # k => confirm'[l] = confirm[l]
BY DEF TypeOK, Ends

LEMMA EnableStep ==
  ASSUME IInv, NEW k \in Confirmation, EnableRecovery(k)
  PROVE  IInv'
<1>0. TypeOK /\ PagesOK /\ FlagOK /\ ChangeOK /\ ConfirmOK /\ DataOK
  BY DEF IInv
<1>1. /\ UNCHANGED <<migration, api, at, flagged, hasRecovery, form, hasty, masterKey, offs>>
      /\ at = "settings" /\ confirm[k] = "check"
      /\ \/ /\ typed # None /\ serverRecoveryCode # None /\ recovery' = NewData /\ dead' = Mixed
            /\ confirm' = [confirm EXCEPT ![k] = "enable"] \/ Ends(k)
         \/ UNCHANGED <<recovery, dead>> /\ Ends(k)
  BY DEF EnableRecovery, Enables, Continues, OnSettings, migration
<1>2. /\ confirm' \in [Confirmation -> Confirming \cup {"none"}]
      /\ confirm'[k] \in {"enable", "none"}
      /\ \A l \in Confirmation : l # k => confirm'[l] = confirm[l]
  BY <1>0, <1>1, Moves DEF Confirming
<1>3. v2 \in Password /\ v2 # None
  BY <1>0, <1>1 DEF TypeOK, PagesOK
<1>4. recovery' \in [user : Code, server : Code, key : Password] \cup {NoRecovery}
  BY <1>0, <1>1, <1>3 DEF TypeOK, NewData
<1>5. dead' \subseteq {"migrated", "dropped", "rekeyed", "mixed"} /\ dead \subseteq dead'
  BY <1>0, <1>1 DEF TypeOK, Mixed
<1>6. TypeOK'
  BY <1>0, <1>1, <1>2, <1>4, <1>5 DEF TypeOK, migration, api, form
<1>7. PagesOK' /\ FlagOK'
  BY <1>0, <1>1 DEF PagesOK, FlagOK, migration, api
<1>8. ChangeOK'
  BY <1>0, <1>1 DEF ChangeOK, form, api
<1>9. ConfirmOK'
  <2>1. ASSUME ~hasty PROVE \A l \in Confirmation : l # k => confirm'[l] = "none"
    BY <1>0, <1>1, <1>2, <2>1 DEF ConfirmOK, Waits
  <2>2. ~hasty /\ confirm'[k] = "enable" /\ typed # None /\ typed = newCode => Opens(typed)'
    <3>1. ~hasty => Has(k)
      BY <1>0 DEF ConfirmOK
    <3>2. confirm'[k] = "enable" => recovery' = NewData
      BY <1>0, <1>1 DEF Ends, TypeOK
    <3> QED
      BY <1>1, <3>1, <3>2 DEF Has, Opens, NewData, migration, form
  <2>3. ~hasty' => \A l \in Confirmation : Has(l)'
    BY <1>1, <1>2, <2>1, <2>2 DEF Has, form, api
  <2> QED
    BY <1>0, <1>1, <1>2, <2>1, <2>3 DEF ConfirmOK, Waits, api
<1>10. DataOK'
  <2>1. CASE UNCHANGED <<recovery, dead>>
    BY <1>0, <1>1, <2>1 DEF DataOK, Parts, migration, api
  <2>2. CASE typed # None /\ recovery' = NewData /\ dead' = Mixed
    <3>1. recovery'.user = typed /\ recovery'.key = v2 /\ recovery' # NoRecovery
      BY <2>2 DEF NewData, NoRecovery
    <3>2. hasty => "mixed" \in dead'
      BY <2>2 DEF Mixed
    <3>3. ~hasty => typed = newCode \/ "dropped" \in dead'
      BY <1>0, <1>1, <1>5, <2>2 DEF ConfirmOK, Has
    <3>4. dead' \ {"rekeyed"} # {} \/ (newCode # None /\ newCode = recovery'.user)
      BY <2>2, <3>1, <3>2, <3>3
    <3> QED
      BY <1>1, <1>3, <3>1, <3>4 DEF DataOK, migration, api
  <2> QED
    BY <1>1, <2>1, <2>2
<1> QED
  BY <1>6, <1>7, <1>8, <1>9, <1>10 DEF IInv

LEMMA FinishStep ==
  ASSUME IInv, NEW k \in Confirmation, FinishChange(k)
  PROVE  IInv' /\ (code' # code => hasty \/ Opens(code)')
<1>0. TypeOK /\ PagesOK /\ FlagOK /\ ChangeOK /\ ConfirmOK /\ DataOK
  BY DEF IInv
<1>1. /\ UNCHANGED <<migration, recovery, recover, codes, at, flagged, hasRecovery, form, hasty,
                     masterKey, offs>>
      /\ at = "settings" /\ confirm[k] = "enable"
      /\ \/ /\ Finishes
            /\ confirm' = [confirm EXCEPT ![k] = "finish"] \/ Ends(k)
         \/ UNCHANGED <<code, newCode, dead>> /\ Ends(k)
  BY DEF FinishChange, Continues, OnSettings, migration
<1>2. /\ confirm' \in [Confirmation -> Confirming \cup {"none"}]
      /\ confirm'[k] \in {"finish", "none"}
      /\ \A l \in Confirmation : l # k => confirm'[l] = confirm[l]
  BY <1>0, <1>1, Moves DEF Confirming
<1>3. confirm'[k] = "finish" => Finishes
  BY <1>0, <1>1 DEF Ends, TypeOK
<1>4. Finishes => typed \in Code /\ typed # 0 /\ code' = typed /\ newCode' = None
  BY <1>0 DEF Finishes, TypeOK, ChangeOK
<1>5. Finishes /\ ~hasty => Opens(typed) /\ dead' = {}
  <2>1. ~hasty => Has(k)
    BY <1>0 DEF ConfirmOK
  <2> QED
    BY <1>1, <2>1 DEF Has, Finishes
<1>6. Finishes /\ hasty => "mixed" \in dead' /\ dead \subseteq dead'
  BY DEF Finishes, Mixed
<1>7. TypeOK'
  <2>1. /\ code' \in Code \cup {None} /\ newCode' \in Code \cup {None}
        /\ dead' \subseteq {"migrated", "dropped", "rekeyed", "mixed"}
    BY <1>0, <1>1, <1>4 DEF TypeOK, Finishes, Mixed
  <2> QED
    BY <1>0, <1>1, <1>2, <2>1 DEF TypeOK, migration, form
<1>8. PagesOK' /\ FlagOK'
  BY <1>0, <1>1, <1>4 DEF PagesOK, FlagOK, migration
<1>9. ChangeOK'
  <2>1. codes \in Int /\ None <= codes /\ None # 0
    BY <1>0, Constants DEF TypeOK, None, Code
  <2> QED
    BY <1>0, <1>1, <1>4, <2>1 DEF ChangeOK, form
<1>10. ConfirmOK'
  <2>1. \A l \in Confirmation :
          confirm'[l] \in {"finish", "getSettings", "sync"} => code' # 0
    BY <1>0, <1>1, <1>2, <1>3, <1>4 DEF ConfirmOK
  <2>2. ASSUME ~hasty PROVE \A l \in Confirmation : l # k => confirm'[l] = "none"
    BY <1>0, <1>1, <1>2, <2>2 DEF ConfirmOK, Waits
  <2>3. ~hasty' => \A l \in Confirmation : Has(l)'
    BY <1>1, <1>2, <2>2 DEF Has
  <2> QED
    BY <1>0, <1>1, <1>2, <2>1, <2>2, <2>3 DEF ConfirmOK, Waits
<1>11. DataOK'
  <2>1. CASE Finishes /\ ~hasty
    <3>1. v2 # None /\ recovery # NoRecovery /\ recovery.user = typed /\ recovery.server = typed
          /\ recovery.key = v2
      BY <1>0, <1>1, <1>4, <1>5, <2>1, Constants DEF PagesOK, Opens, NoRecovery
    <3> QED
      BY <1>1, <1>4, <2>1, <3>1 DEF DataOK, Parts, migration
  <2>2. CASE Finishes /\ hasty
    BY <1>0, <1>1, <1>6, <2>2 DEF DataOK, migration
  <2>3. CASE UNCHANGED <<code, newCode, dead>>
    BY <1>0, <1>1, <2>3 DEF DataOK, Parts, migration
  <2> QED
    BY <1>1, <2>1, <2>2, <2>3
<1>12. code' # code => hasty \/ Opens(code)'
  BY <1>1, <1>4, <1>5 DEF Opens, migration
<1> QED
  BY <1>7, <1>8, <1>9, <1>10, <1>11, <1>12 DEF IInv

(* After the code has been confirmed nothing is left that concerns it.      *)
LEMMA EndStep ==
  ASSUME IInv, NEW k \in Confirmation, ReloadSettings(k) \/ SyncReset(k) \/ EndReset(k)
  PROVE  IInv'
<1>0. TypeOK /\ PagesOK /\ FlagOK /\ ChangeOK /\ ConfirmOK /\ DataOK
  BY DEF IInv
<1>1. /\ UNCHANGED <<v1, v2, recovery, api, at, serverRecoveryCode, sending, answers, hasty, dead,
                     masterKey, offs>>
      /\ at = "settings" /\ confirm[k] \in {"finish", "getSettings", "sync"}
      /\ typed' \in {typed, None} /\ (resetting' => resetting)
  BY DEF ReloadSettings, SyncReset, EndReset, Continues, OnSettings, form
<1>2. /\ confirm' \in [Confirmation -> Confirming \cup {"none"}]
      /\ confirm'[k] \in {"getSettings", "sync", "none"}
      /\ \A l \in Confirmation : l # k => confirm'[l] = confirm[l]
  <2>1. \/ confirm' = [confirm EXCEPT ![k] = "getSettings"]
        \/ confirm' = [confirm EXCEPT ![k] = "sync"]
        \/ Ends(k)
    BY DEF ReloadSettings, SyncReset, EndReset, Continues
  <2> QED
    BY <1>0, <2>1, Moves DEF Confirming
<1>3. code # 0 /\ v2 # None
  BY <1>0, <1>1 DEF ConfirmOK, PagesOK
<1>4. resetting' \in BOOLEAN /\ needsReset' \in BOOLEAN /\ flagged' \in BOOLEAN
  <2>1. /\ resetting' = FALSE \/ resetting' = resetting
        /\ needsReset' = FALSE \/ needsReset' = needsReset
        /\ flagged' = FALSE \/ flagged' = flagged
    BY DEF ReloadSettings, SyncReset, EndReset, Continues, form
  <2> QED
    BY <1>0, <2>1, Zenon DEF TypeOK
<1>5. hasRecovery' \in BOOLEAN
  <2>1. hasRecovery' = hasRecovery \/ hasRecovery' = (code # None)
    BY DEF ReloadSettings, SyncReset, EndReset, Continues
  <2> QED
    BY <1>0, <2>1, Zenon DEF TypeOK
<1>6. TypeOK'
  BY <1>0, <1>1, <1>2, <1>4, <1>5 DEF TypeOK, api
<1>7. PagesOK' /\ FlagOK'
  BY <1>0, <1>1, <1>3 DEF PagesOK, FlagOK, api
<1>8. ChangeOK'
  <2>1. codes \in Int /\ None <= codes /\ None # 0
    BY <1>0, Constants DEF TypeOK, None, Code
  <2> QED
    BY <1>0, <1>1, <2>1 DEF ChangeOK, api
<1>9. ConfirmOK'
  <2>1. ASSUME ~hasty PROVE \A l \in Confirmation : l # k => confirm'[l] = "none"
    BY <1>0, <1>1, <1>2, <2>1 DEF ConfirmOK, Waits
  <2>2. ~hasty' => \A l \in Confirmation : Has(l)'
    BY <1>1, <1>2, <2>1 DEF Has
  <2> QED
    BY <1>0, <1>1, <1>2, <1>3, <2>1, <2>2 DEF ConfirmOK, Waits, api
<1>10. DataOK'
  BY <1>0, <1>1 DEF DataOK, Parts, api
<1> QED
  BY <1>6, <1>7, <1>8, <1>9, <1>10 DEF IInv

(* Recovery and the change of the password.                                 *)
LEMMA RecoverStep ==
  ASSUME IInv, (\E c \in 0..codes : AttemptRecovery(c)) \/ GetWallet
  PROVE  IInv'
<1>0. TypeOK /\ PagesOK /\ FlagOK /\ ChangeOK /\ ConfirmOK /\ DataOK
  BY DEF IInv
<1>1. ASSUME NEW c \in 0..codes, AttemptRecovery(c) PROVE IInv'
  <2>1. /\ UNCHANGED <<migration, recovery, api, flagged, settings, offs, dead>>
        /\ at = "recovery" /\ at' = "change" /\ masterKey' = recovery.key
        /\ recovery.user = c
    BY <1>1 DEF AttemptRecovery, Recovers, Go
  <2>2. recovery # NoRecovery /\ recovery.key \in Password /\ recovery.key # None
    BY <1>0, <2>1, Constants DEF TypeOK, NoRecovery, None
  <2>3. TypeOK'
    BY <1>0, <2>1, <2>2 DEF TypeOK, Pages, migration, api, settings, form
  <2> QED
    BY <1>0, <2>1, <2>2, <2>3, Frame DEF IInv, PagesOK, FlagOK, migration, api, settings
<1>2. CASE GetWallet
  <2>1. /\ UNCHANGED <<migration, recovery, api, flagged, settings, masterKey, offs, dead>>
        /\ at = "change" /\ at' = "changing" /\ masterKey = v2 /\ v2 < MaxPasswords
    BY <1>2 DEF GetWallet, Go
  <2>2. TypeOK'
    BY <1>0, <2>1 DEF TypeOK, Pages, migration, api, settings, form
  <2> QED
    BY <1>0, <2>1, <2>2, Frame DEF IInv, PagesOK, FlagOK, migration, api, settings
<1> QED
  BY <1>1, <1>2

LEMMA ChangeStep ==
  ASSUME IInv, ChangePassword \/ EnableAgain
  PROVE  IInv'
<1>0. TypeOK /\ PagesOK /\ FlagOK /\ ChangeOK /\ ConfirmOK /\ DataOK
  BY DEF IInv
<1>1. CASE ChangePassword
  <2>1. /\ UNCHANGED <<v1, needsReset, recovery, api, flagged, settings, masterKey, offs>>
        /\ at = "changing" /\ at' \in {"enabling", "change"}
        /\ \/ v2' = v2 + 1 /\ dead' = dead \cup {"rekeyed"}
           \/ v2' = v2 /\ dead' = dead
    BY <1>1 DEF ChangePassword, Asks, Go
  <2>2. v2 \in Password /\ v2 # None /\ v2 + 1 \in Password /\ v2 + 1 # None
    BY <1>0, <2>1, Constants DEF TypeOK, PagesOK, Password, None
  <2>3. /\ dead' \subseteq {"migrated", "dropped", "rekeyed", "mixed"}
        /\ dead \ {"rekeyed"} = dead' \ {"rekeyed"}
        /\ "rekeyed" \in dead' \/ UNCHANGED <<v2, dead>>
    BY <1>0, <2>1 DEF TypeOK
  <2>4. TypeOK'
    BY <1>0, <2>1, <2>2, <2>3 DEF TypeOK, Pages, api, settings, form
  <2>5. PagesOK' /\ FlagOK'
    BY <1>0, <2>1, <2>2 DEF PagesOK, FlagOK, api
  <2>6. ChangeOK' /\ ConfirmOK'
    <3>1. \A k \in Confirmation : confirm[k] = "none"
      BY <1>0, <2>1 DEF ConfirmOK, Waits
    <3> QED
      BY <1>0, <2>1, <3>1 DEF ChangeOK, ConfirmOK, Waits, Has, api, settings, form
  <2>7. DataOK'
    BY <1>0, <2>1, <2>2, <2>3 DEF DataOK, Parts, api
  <2> QED
    BY <2>4, <2>5, <2>6, <2>7 DEF IInv
<1>2. CASE EnableAgain
  <2>1. /\ UNCHANGED <<migration, api, flagged, settings, offs>>
        /\ at = "enabling" /\ at' \in {"login", "change"}
        /\ masterKey' = IF at' = "login" THEN None ELSE masterKey
        /\ \/ recovery' = [recovery EXCEPT !.key = v2] /\ dead' = dead \ {"rekeyed"}
           \/ recovery' = recovery /\ dead' = dead
    BY <1>2 DEF EnableAgain, KeyAfterChange, Asks, Go
  <2>2. /\ v2 \in Password /\ recovery # NoRecovery /\ masterKey # None
        /\ recovery \in [user : Code, server : Code, key : Password]
    BY <1>0, <2>1 DEF TypeOK, PagesOK
  <2>3. /\ recovery' \in [user : Code, server : Code, key : Password]
        /\ recovery' # NoRecovery
        /\ recovery'.user = recovery.user /\ recovery'.server = recovery.server
        /\ recovery'.key = v2 \/ UNCHANGED <<recovery, dead>>
    BY <2>1, <2>2, Constants DEF NoRecovery
  <2>4. /\ dead' \subseteq {"migrated", "dropped", "rekeyed", "mixed"}
        /\ dead \ {"rekeyed"} = dead' \ {"rekeyed"}
    BY <1>0, <2>1 DEF TypeOK
  <2>5. TypeOK'
    BY <1>0, <2>1, <2>3, <2>4 DEF TypeOK, Pages, migration, api, settings, form
  <2>6. PagesOK' /\ FlagOK'
    BY <1>0, <2>1, <2>2, <2>3 DEF PagesOK, FlagOK, migration, api
  <2>7. ChangeOK' /\ ConfirmOK'
    <3>1. \A k \in Confirmation : confirm[k] = "none"
      BY <1>0, <2>1 DEF ConfirmOK, Waits
    <3> QED
      BY <1>0, <2>1, <3>1 DEF ChangeOK, ConfirmOK, Waits, Has, api, settings, form
  <2>8. DataOK'
    BY <1>0, <2>1, <2>2, <2>3, <2>4 DEF DataOK, Parts, migration, api
  <2> QED
    BY <2>5, <2>6, <2>7, <2>8 DEF IInv
<1> QED
  BY <1>1, <1>2

LEMMA NextInv == IInv /\ [Next]_vars => IInv'
<1> SUFFICES ASSUME IInv, [Next]_vars PROVE IInv'
  OBVIOUS
<1>1. CASE UNCHANGED vars
  <2>1. TypeOK' /\ PagesOK' /\ FlagOK'
    BY <1>1 DEF vars, IInv, TypeOK, PagesOK, FlagOK, migration, api, settings, form
  <2>2. ChangeOK' /\ ConfirmOK' /\ DataOK'
    BY <1>1, Frame DEF vars, IInv, migration, api, settings
  <2> QED
    BY <2>1, <2>2 DEF IInv
<1>2. CASE Next
  BY <1>2, LoginStep, MigrateStep, LeaveStep, ViewStep, TypeStep, TakeStep, ResetStep, ConfirmStep,
     EnableStep, FinishStep, EndStep, RecoverStep, ChangeStep DEF Next
<1> QED
  BY <1>1, <1>2

(* The invariant holds for any number of codes and passwords.               *)
THEOREM Inductive == Spec => []IInv
<1> QED
  BY InitInv, NextInv, PTL DEF Spec

(* Every variable of client and servers stays in its type.                  *)
THEOREM Typing == Spec => []TypeOK
<1>1. IInv => TypeOK
  BY DEF IInv
<1> QED
  BY <1>1, Inductive, PTL

(* Nothing but a step that is on record disables the code in force.         *)
THEOREM Reasons == Spec => []DeadForAReason
<1>1. IInv => DeadForAReason
  BY DEF IInv, DataOK, DeadForAReason, Opens, Parts, TypeOK, NoRecovery
<1> QED
  BY <1>1, Inductive, PTL

LEMMA CodeStep == IInv /\ [Next]_vars => [code' # code => hasty \/ Opens(code)']_vars
<1> SUFFICES ASSUME IInv, Next, code' # code PROVE hasty \/ Opens(code)'
  OBVIOUS
<1>1. \E k \in Confirmation : FinishChange(k)
  BY DEF Next, ShowLoginParams, LoginV1, OpenBroken, MigrateWallet, MarkMigrated, UpdateApiRecover,
         StoreNeedsReset, SyncNeedsReset, LoginV2, Leave, OpenSettings, ToggleRecovery,
         ResetRecovery, CancelResetRecovery, TakeAnswer, Type, ConfirmResetRecovery,
         EnableRecovery, ReloadSettings, SyncReset, EndReset, AttemptRecovery, GetWallet,
         ChangePassword, EnableAgain, api
<1> QED
  BY <1>1, FinishStep

(* The wallet server has the data for a code before it is in force, on a    *)
(* page whose form is left alone.                                           *)
THEOREM Confirmed == Spec => ConfirmedCodeOpens
<1> QED
  BY Inductive, CodeStep, PTL DEF Spec, ConfirmedCodeOpens

LEMMA SwitchStep ==
  IInv /\ [Next]_vars => [~recover /\ recover' /\ needsReset => code # 0]_vars
<1> SUFFICES ASSUME IInv, Next, ~recover, recover', needsReset PROVE code # 0
  OBVIOUS
<1>1. ~UpdateApiRecover
  BY DEF UpdateApiRecover
<1>2. ToggleRecovery(TRUE)
  BY <1>1
  DEF Next, ShowLoginParams, LoginV1, OpenBroken, MigrateWallet, MarkMigrated,
      StoreNeedsReset, SyncNeedsReset, LoginV2, Leave, OpenSettings, ToggleRecovery,
      ResetRecovery, CancelResetRecovery, TakeAnswer, Type, ConfirmResetRecovery,
      EnableRecovery, FinishChange, ReloadSettings, SyncReset, EndReset, AttemptRecovery,
      GetWallet, ChangePassword, EnableAgain, api
<1> QED
  BY <1>2 DEF ToggleRecovery, OnSettings, MayRecover, IInv, FlagOK

(* Recovery is switched on with the old wallet's code by nobody who has     *)
(* been told to reset it.                                                   *)
THEOREM Switch == Spec => SwitchIsHonest
<1> QED
  BY Inductive, SwitchStep, PTL DEF Spec, SwitchIsHonest
=============================================================================
