------------------------------ MODULE Account ------------------------------
(***************************************************************************)
(* An account's way from the first wallet version to the second, its       *)
(* recovery code and its password: one client and two servers, with pages  *)
(* left and requests failed or lost at any step.                           *)
(*                                                                         *)
(* A recovery code has two parts, the user's, sent by email, and the API   *)
(* server's; both are known by the number of the code.  The wallet server  *)
(* keeps recovery data that the whole code opens, and in it the master key *)
(* of the password it was made under.  Passwords are numbered as they are  *)
(* chosen; a password's number stands for its master key too.              *)
(***************************************************************************)
EXTENDS Integers

CONSTANTS
  MaxCodes, MaxPasswords,   \* bounds on new codes and on new passwords
  Request,       \* requests for a code's change with an answer on its way, at most
  Confirmation   \* confirmations of a code that run at once, at most

ASSUME AccountAssumption == MaxCodes \in Nat /\ MaxPasswords \in Nat

None == -1

VARIABLES
  v1,        \* wallet server: the old wallet, "broken" (kept under the broken key),
             \* "live" or "migrated"
  v2,        \* wallet server: the new wallet's password, None for no wallet
  recovery,  \* wallet server: recovery data [user, server, key]
  needsReset,  \* mainData.needsRecoveryCodeReset as saved
  recover,   \* API server: the user may recover
  code,      \* API server: the code in force
  newCode,   \* API server: the code that is being changed to
  codes,     \* codes sent so far, by their numbers 1..codes
  at,        \* the page, or what the login of its page waits for
  flagged,   \* mainData.needsRecoveryCodeReset in the session's wallet
  hasRecovery, resetting, serverRecoveryCode,   \* of the settings
  sending,   \* $scope.sendingRecoveryCode
  typed,     \* $scope.code, the code in the form's input
  answers,   \* the answers on their way to the page
  confirm,   \* what each confirmResetRecovery waits for, "none" when it has ended
  masterKey, \* what recovery gave to the password's page
  offs,      \* setrecover(false) of the migration is in flight
  hasty,     \* history variable: the form of this page was not left alone
  dead       \* history variable: why the code in force opens nothing

migration == <<v1, v2, needsReset>>
api == <<recover, code, newCode, codes>>
form == <<resetting, serverRecoveryCode, sending, typed, answers>>
settings == <<hasRecovery, form, confirm, hasty>>
vars == <<migration, recovery, api, at, flagged, settings, masterKey, offs, dead>>

Code == 0..MaxCodes
Password == 0..MaxPasswords
LoginSteps == {"open", "create", "mark", "hasRecovery", "flag"}
Pages == {"login", "v1", "v2", "settings", "recovery", "change", "changing", "enabling", "stuck"}
Confirming == {"check", "enable", "finish", "getSettings", "sync"}
Answer == [to : {"getNew", "reset", "cancel"}, code : Code \cup {None}]
NoAnswer == [to |-> "none", code |-> None]
NoRecovery == [user |-> None, server |-> None, key |-> None]

TypeOK ==
  /\ v1 \in {"broken", "live", "migrated"}
  /\ v2 \in Password \cup {None}
  /\ recovery \in [user : Code, server : Code, key : Password] \cup {NoRecovery}
  /\ needsReset \in BOOLEAN /\ flagged \in BOOLEAN
  /\ recover \in BOOLEAN /\ code \in Code \cup {None} /\ newCode \in Code \cup {None}
  /\ codes \in Code
  /\ at \in LoginSteps \cup Pages
  /\ hasRecovery \in BOOLEAN /\ resetting \in BOOLEAN /\ sending \in BOOLEAN
  /\ serverRecoveryCode \in Code \cup {None} /\ typed \in Code \cup {None}
  /\ answers \in [Request -> Answer \cup {NoAnswer}]
  /\ confirm \in [Confirmation -> Confirming \cup {"none"}]
  /\ masterKey \in Password \cup {None}
  /\ offs \in BOOLEAN /\ hasty \in BOOLEAN
  /\ dead \subseteq {"migrated", "dropped", "rekeyed", "mixed"}

(* Before the migration; code 0 is the one of the old wallet. *)
Init ==
  /\ v1 \in {"broken", "live"} /\ v2 = None /\ recovery = NoRecovery
  /\ code \in {0, None} /\ recover \in BOOLEAN /\ (code = None => ~recover)
  /\ newCode = None /\ codes = 0
  /\ at = "login" /\ needsReset = FALSE /\ flagged = FALSE
  /\ hasRecovery = FALSE /\ resetting = FALSE /\ serverRecoveryCode = None
  /\ sending = FALSE /\ typed = None /\ answers = [n \in Request |-> NoAnswer]
  /\ confirm = [k \in Confirmation |-> "none"] /\ hasty = FALSE
  /\ masterKey = None /\ offs = FALSE /\ dead = {}

-----------------------------------------------------------------------------
(* A request of the page: it is carried out and answered, carried out and   *)
(* the answer is lost, or not carried out.                                  *)
Go(page) == at' = page
Asks(from, effect, unchanged, to, back) ==
  /\ at = from
  /\ \/ effect /\ at' \in {to, back}
     \/ unchanged /\ Go(back)

(* LoginCtrl: which version the wallet has *)
ShowLoginParams ==
  /\ at = "login" /\ Go(IF v2 = None THEN "v1" ELSE "v2")
  /\ UNCHANGED <<migration, recovery, api, flagged, settings, masterKey, offs, dead>>

(* LoginV1Ctrl's performLogin, with the right password *)
LoginV1 ==
  /\ at = "v1" /\ Go(IF v1 = "broken" THEN "open" ELSE "create")
  /\ UNCHANGED <<migration, recovery, api, flagged, settings, masterKey, offs, dead>>

(* Wallet.open of a wallet under the broken key saves it under the right one; *)
(* when that fails the promise stays open and the page waits for ever.        *)
OpenBroken ==
  /\ Asks("open", v1' = "live", UNCHANGED v1, "create", "stuck")
  /\ UNCHANGED <<v2, needsReset, recovery, api, flagged, settings, masterKey, offs, dead>>

(* migrateWallet: the new wallet has no recovery data.  If the chain ends    *)
(* here, the API server goes by the old code.                                *)
MigrateWallet ==
  /\ Asks("create", v2 = None /\ v2' = 0 /\ dead' = dead \cup {"migrated"},
          UNCHANGED <<v2, dead>>, "mark", "v1")
  /\ UNCHANGED <<v1, needsReset, recovery, api, flagged, settings, masterKey, offs>>

(* markMigrated, then login and updateApiRecover, whose answer nobody awaits *)
MarkMigrated ==
  /\ Asks("mark", v1' = "migrated", UNCHANGED v1, "hasRecovery", "v1")
  /\ offs' = (at' = "hasRecovery")
  /\ UNCHANGED <<v2, needsReset, recovery, api, flagged, settings, masterKey, dead>>

UpdateApiRecover ==
  /\ offs /\ offs' = FALSE /\ recover' \in {recover, FALSE}
  /\ UNCHANGED <<migration, recovery, code, newCode, codes, at, flagged, settings, masterKey, dead>>

(* The settings tell whether there is a code to be reset. *)
StoreNeedsReset ==
  /\ at = "hasRecovery"
  /\ \/ code # None /\ flagged' = TRUE /\ Go("flag")
     \/ flagged' = FALSE /\ Go("settings")
  /\ UNCHANGED <<migration, recovery, api, settings, masterKey, offs, dead>>

(* syncWallet.  Without an answer the login never ends, but the user is       *)
(* logged in and can go on by the address bar.                                *)
SyncNeedsReset ==
  /\ Asks("flag", needsReset' = TRUE, UNCHANGED needsReset, "settings", "settings")
  /\ UNCHANGED <<v1, v2, recovery, api, flagged, settings, masterKey, offs, dead>>

(* LoginV2Ctrl, with the right password *)
LoginV2 ==
  /\ at = "v2" /\ v2 # None /\ Go("settings") /\ flagged' = needsReset
  /\ UNCHANGED <<migration, recovery, api, settings, masterKey, offs, dead>>

(* Another page, or the page again: what it waited for goes unheard, what it *)
(* has sent was carried out before or is not.                                *)
NoSettings ==
  /\ hasRecovery' = FALSE /\ resetting' = FALSE /\ serverRecoveryCode' = None
  /\ sending' = FALSE /\ typed' = None /\ answers' = [n \in Request |-> NoAnswer]
  /\ confirm' = [k \in Confirmation |-> "none"] /\ hasty' = FALSE
Leave ==
  /\ at # "login" /\ \E page \in {"login", "recovery"} : Go(page)
  /\ NoSettings /\ masterKey' = None /\ flagged' = FALSE
  /\ UNCHANGED <<migration, recovery, api, offs, dead>>

-----------------------------------------------------------------------------
(* SettingsRecoveryCtrl.  A request is carried out as it is sent, or not at   *)
(* all; its answer comes at any later time, in any order with the others',   *)
(* and until then everything on the page can be used.                        *)

OnSettings == at = "settings" /\ UNCHANGED <<at, v1, v2, masterKey, offs>>

Sends(n, to, c) ==
  answers[n] = NoAnswer /\ answers' = [answers EXCEPT ![n] = [to |-> to, code |-> c]]
Confirms == \E k \in Confirmation : confirm[k] # "none"
PartOnItsWay == \E n \in Request : answers[n].code # None

(* getSettings, which may fail, then reset: on opening the page and at every  *)
(* settings-refresh; getNewRecoveryCode's failure changes nothing.           *)
OpenSettings ==
  /\ OnSettings /\ hasRecovery' \in {hasRecovery, code # None}
  /\ resetting' = FALSE /\ sending' = FALSE /\ typed' = None
  /\ UNCHANGED answers \/ \E n \in Request : Sends(n, "getNew", newCode)
  /\ UNCHANGED <<needsReset, recovery, api, flagged, serverRecoveryCode, confirm, hasty, dead>>

(* toggleRecovery of a user with a verified address; slip: any code will do *)
MayRecoverAnyway == hasRecovery
MayRecover == hasRecovery /\ ~flagged
ToggleRecovery(value) ==
  /\ OnSettings /\ (value => MayRecover) /\ recover' = value
  /\ UNCHANGED <<needsReset, recovery, code, newCode, codes, flagged, settings, dead>>

(* A change is given up that the wallet server knows of, or will know of as  *)
(* soon as the API server's check of its code is answered.                   *)
Dropped ==
  IF newCode # None /\ (recovery.user = newCode \/ \E k \in Confirmation : confirm[k] = "check")
    THEN dead \cup {"dropped"} ELSE dead

ResetRecovery ==
  /\ OnSettings /\ ~resetting /\ ~sending /\ sending' = TRUE
  /\ \/ /\ codes < MaxCodes /\ codes' = codes + 1 /\ newCode' = codes + 1
        /\ \E n \in Request, c \in {codes + 1, None} : Sends(n, "reset", c)
        /\ dead' = Dropped /\ hasty' = (hasty \/ PartOnItsWay)
     \/ /\ \E n \in Request : Sends(n, "reset", None)
        /\ UNCHANGED <<codes, newCode, dead, hasty>>
  /\ UNCHANGED <<needsReset, recovery, recover, code, flagged, hasRecovery, resetting,
                 serverRecoveryCode, typed, confirm>>

CancelResetRecovery ==
  /\ OnSettings /\ resetting /\ newCode' = None
  /\ UNCHANGED answers \/ \E n \in Request : Sends(n, "cancel", None)
  /\ dead' = Dropped /\ hasty' = (hasty \/ PartOnItsWay)
  /\ UNCHANGED <<needsReset, recovery, recover, code, codes, flagged, hasRecovery, resetting,
                 serverRecoveryCode, sending, typed, confirm>>

(* An answer is taken as it is, whatever has been asked for since.           *)
TakeAnswer(n) ==
  /\ OnSettings /\ answers[n] # NoAnswer /\ answers' = [answers EXCEPT ![n] = NoAnswer]
  /\ \/ answers[n].code # None /\ resetting' = TRUE /\ serverRecoveryCode' = answers[n].code
     \/ /\ answers[n].code = None /\ UNCHANGED serverRecoveryCode
        /\ resetting' \in IF answers[n].to = "reset" THEN {FALSE, resetting} ELSE {FALSE}
  /\ sending' = (sending /\ answers[n].to # "reset")
  /\ UNCHANGED <<needsReset, recovery, api, flagged, hasRecovery, typed, confirm, hasty, dead>>

(* The user types one of the codes that were sent.                           *)
Type(c) ==
  /\ OnSettings /\ resetting /\ c # typed /\ typed' = c /\ hasty' = (hasty \/ Confirms)
  /\ UNCHANGED <<needsReset, recovery, api, flagged, hasRecovery, resetting, serverRecoveryCode,
                 sending, answers, confirm, dead>>

(* confirmResetRecovery, step by step: what it waits for has been carried     *)
(* out; it ends at the first that is not, or whose answer is lost.  Each step *)
(* reads the input and serverRecoveryCode anew.                              *)
(* Slip: the code is not checked.                                            *)
CodeIsSent == TRUE
CodeIsRight == typed = newCode
ConfirmResetRecovery(k) ==
  /\ OnSettings /\ resetting /\ confirm[k] = "none" /\ typed # None /\ CodeIsRight
  /\ confirm' = [confirm EXCEPT ![k] = "check"] /\ hasty' = (hasty \/ Confirms)
  /\ UNCHANGED <<needsReset, recovery, api, flagged, hasRecovery, form, dead>>

Ends(k) == confirm' = [confirm EXCEPT ![k] = "none"]
Continues(k, from, effect, unchanged, to) ==
  /\ OnSettings /\ confirm[k] = from
  /\ \/ effect /\ (confirm' = [confirm EXCEPT ![k] = to] \/ Ends(k))
     \/ unchanged /\ Ends(k)

(* enableRecovery under the session's master key, which throws for an empty   *)
(* input.  Slip: its promise is not returned, so what comes next does not    *)
(* wait for it.                                                              *)
NewData == [user |-> typed, server |-> serverRecoveryCode, key |-> v2]
EnablesUnheard == recovery' \in {recovery, NewData}
Enables == recovery' = NewData
Mixed == IF hasty THEN dead \cup {"mixed"} ELSE dead
EnableRecovery(k) ==
  /\ Continues(k, "check", typed # None /\ serverRecoveryCode # None /\ Enables /\ dead' = Mixed,
               UNCHANGED <<recovery, dead>>, "enable")
  /\ UNCHANGED <<needsReset, api, flagged, hasRecovery, form, hasty>>

(* finishChangeRecoveryToken *)
Finishes ==
  /\ typed # None /\ typed = newCode /\ code' = typed /\ newCode' = None
  /\ dead' = IF hasty THEN Mixed ELSE {}
FinishChange(k) ==
  /\ Continues(k, "enable", Finishes, UNCHANGED <<code, newCode, dead>>, "finish")
  /\ UNCHANGED <<needsReset, recovery, recover, codes, flagged, hasRecovery, form, hasty>>

ReloadSettings(k) ==
  /\ Continues(k, "finish", hasRecovery' = (code # None), UNCHANGED hasRecovery, "getSettings")
  /\ UNCHANGED <<needsReset, recovery, api, flagged, form, hasty, dead>>

(* The flag goes in the session's wallet before the wallet is saved. *)
SyncReset(k) ==
  /\ Continues(k, "getSettings", needsReset' = FALSE, UNCHANGED needsReset, "sync")
  /\ flagged' = FALSE
  /\ UNCHANGED <<recovery, api, hasRecovery, form, hasty, dead>>

EndReset(k) ==
  /\ OnSettings /\ confirm[k] = "sync" /\ Ends(k) /\ typed' = None /\ resetting' = FALSE
  /\ UNCHANGED <<needsReset, recovery, api, flagged, hasRecovery, serverRecoveryCode, sending,
                 answers, hasty, dead>>

-----------------------------------------------------------------------------
(* RecoveryV2Ctrl: the API server's part for the user's, then the wallet     *)
(* server's data for the whole.                                              *)
Recovers(c) == recover /\ c = code /\ recovery.user = c /\ recovery.server = c
AttemptRecovery(c) ==
  /\ at = "recovery" /\ Recovers(c)
  /\ Go("change") /\ masterKey' = recovery.key
  /\ UNCHANGED <<migration, recovery, api, flagged, settings, offs, dead>>

(* ChangePasswordV2Ctrl: getWallet with the master key, changePassword, then *)
(* enableRecovery with the code that recovery was done with.                 *)
GetWallet ==
  /\ at = "change" /\ masterKey = v2 /\ v2 < MaxPasswords /\ Go("changing")
  /\ UNCHANGED <<migration, recovery, api, flagged, settings, masterKey, offs, dead>>

ChangePassword ==
  /\ Asks("changing", v2' = v2 + 1 /\ dead' = dead \cup {"rekeyed"}, UNCHANGED <<v2, dead>>,
          "enabling", "change")
  /\ UNCHANGED <<v1, needsReset, recovery, api, flagged, settings, masterKey, offs>>

KeyAfterChange == v2
EnableAgain ==
  /\ Asks("enabling",
       recovery' = [recovery EXCEPT !.key = KeyAfterChange] /\ dead' = dead \ {"rekeyed"},
       UNCHANGED <<recovery, dead>>, "login", "change")
  /\ masterKey' = IF at' = "login" THEN None ELSE masterKey
  /\ UNCHANGED <<migration, api, flagged, settings, offs>>

Next ==
  \/ ShowLoginParams \/ LoginV1 \/ OpenBroken \/ MigrateWallet \/ MarkMigrated
  \/ UpdateApiRecover \/ StoreNeedsReset \/ SyncNeedsReset \/ LoginV2 \/ Leave
  \/ OpenSettings \/ (\E value \in BOOLEAN : ToggleRecovery(value))
  \/ ResetRecovery \/ CancelResetRecovery \/ (\E n \in Request : TakeAnswer(n))
  \/ (\E c \in 1..codes : Type(c))
  \/ (\E k \in Confirmation :
        \/ ConfirmResetRecovery(k) \/ EnableRecovery(k) \/ FinishChange(k) \/ ReloadSettings(k)
        \/ SyncReset(k) \/ EndReset(k))
  \/ (\E c \in 0..codes : AttemptRecovery(c))
  \/ GetWallet \/ ChangePassword \/ EnableAgain

Spec == Init /\ [][Next]_vars

-----------------------------------------------------------------------------
Opens(c) == recovery = [user |-> c, server |-> c, key |-> v2]

(* A code that comes into force recovers the wallet, whatever fails, is lost  *)
(* or comes late: the wallet server has the data for it before the API server *)
(* takes it for confirmed (settings-recovery-controller.js 107-130).  As the  *)
(* input and serverRecoveryCode are read anew at each step, that is so on a   *)
(* page whose form is left alone: the code typed in is not changed while a   *)
(* confirmation waits, no two confirmations run at once, and no change is    *)
(* begun or given up with the answer to an earlier one still on its way.     *)
ConfirmedCodeOpens == [][code' # code => hasty \/ Opens(code)']_vars

(* A wallet that cannot be recovered with the code in force has been migrated *)
(* or rekeyed with a step of it missing, or the user gave up a change that   *)
(* the wallet server had already made, may still finish it, or did not leave *)
(* the form alone.  Nothing else disables a code; who is told that the       *)
(* password has changed has a code that works                                *)
(* (change-password-v2-controller.js 67-84).                                 *)
DeadForAReason ==
  code # None /\ v2 # None =>
    Opens(code) \/ dead # {} \/ (newCode # None /\ newCode = recovery.user)

(* Recovery is not switched on with the code of the old wallet once the flag *)
(* that it has to be reset is saved, whatever the settings page has loaded   *)
(* (settings-recovery-controller.js 40-56, login-v1-controller.js 55-82).    *)
SwitchIsHonest == [][~recover /\ recover' /\ needsReset => code # 0]_vars
=============================================================================
