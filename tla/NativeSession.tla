---------------------------- MODULE NativeSession ----------------------------
(***************************************************************************)
(* The native session of auth.rs.  Several processes (a manager each)      *)
(* share one persisted credential, a rotating refresh token in the system  *)
(* keyring, and coordinate through a file lock, the audience lock.         *)
(*                                                                         *)
(*  - refresh: under the lock, read the credential, present it to the      *)
(*    server, which consumes it and returns the next one, and save that;   *)
(*  - login: commit the bundle of a completed browser exchange;            *)
(*  - clear: sign out, or drop a session the server refuses.               *)
(*                                                                         *)
(* One operation per manager runs at a time (AuthShared::operations).  The *)
(* keyring may fail or answer after the timeout; the late task then keeps  *)
(* a clone of the lock until it has cleaned up.                            *)
(***************************************************************************)
EXTENDS Naturals

CONSTANTS
    Managers,       \* processes that share the credential
    Workers,        \* bound: those whose validations and account work are followed
    Accounts,       \* account identifiers
    None,           \* no account, token or holder
    Faults,         \* which keyring operations may fail, of AllFaults
    MaxTokens,      \* bound on the tokens the server issues
    MaxGeneration   \* bound on a manager's identity generation

AllFaults ==
    {"lock", "load", "save", "delete", "slow save", "slow save error", "slow delete"}

ASSUME SessionAssumption ==
    /\ None \notin Accounts \cup Managers
    /\ Workers \subseteq Managers
    /\ Faults \subseteq AllFaults
    /\ MaxTokens \in Nat \ {0} /\ MaxGeneration \in Nat \ {0}

Tokens == [account : Accounts, n : 1..MaxTokens]
NoToken == [account |-> None, n |-> 0]
MaybeToken == Tokens \cup {NoToken}
MaybeAccount == Accounts \cup {None}

VARIABLES
    token, access, account, pending, unavailable, generation,   \* AuthState
    pc, kind, expected, bundle, previous, changed,   \* the manager's operation
    login,            \* generation a pending browser login started from
    val, bearer, read,   \* the manager's validate_with_revision
    keyring,          \* the persisted credential
    lock,             \* the manager whose file handle holds the audience lock
    late,             \* a keyring call that outlived its timeout
    issued, presented,   \* the server: tokens issued, and presented
    reused, abandoned,   \* history: presented again, or issued and given up
    home, told, strays   \* history of one account work of each manager

stateVars == <<token, access, account, pending, unavailable, generation>>
opVars == <<pc, kind, expected, bundle, previous, changed>>
valVars == <<val, bearer, read>>
sharedVars == <<keyring, lock, late>>
serverVars == <<issued, presented, reused>>
workVars == <<home, told, strays>>
vars == <<stateVars, opVars, login, valVars, sharedVars, serverVars, abandoned, workVars>>

NoLate == [kind |-> "none", token |-> NoToken, over |-> NoToken]

(* Processes start from one stored credential, or without it.              *)
Init ==
    /\ \E t \in {NoToken} \cup [account : Accounts, n : {1}] :
         /\ keyring = t /\ issued = t.n
         /\ token \in [Managers -> {NoToken, t}]
    /\ access = [m \in Managers |-> None] /\ account = [m \in Managers |-> None]
    /\ pending = [m \in Managers |-> FALSE] /\ unavailable = [m \in Managers |-> FALSE]
    /\ generation = [m \in Managers |-> 0]
    /\ pc = [m \in Managers |-> "idle"] /\ kind = [m \in Managers |-> "none"]
    /\ expected = [m \in Managers |-> NoToken] /\ bundle = [m \in Managers |-> NoToken]
    /\ previous = [m \in Managers |-> None] /\ changed = [m \in Managers |-> FALSE]
    /\ login = [m \in Managers |-> None]
    /\ val = [m \in Managers |-> "idle"] /\ bearer = [m \in Managers |-> None]
    /\ read = [m \in Managers |-> 0]
    /\ lock = None /\ late = NoLate
    /\ presented = {} /\ reused = {}
    /\ abandoned = {}
    /\ home = [m \in Managers |-> None] /\ strays = {}
    /\ told = [m \in Managers |-> FALSE]

-----------------------------------------------------------------------------
(* AuthState.                                                              *)

(* clear_local_authorization *)
ClearLocal(m, fails) ==
    /\ token' = [token EXCEPT ![m] = NoToken]
    /\ access' = [access EXCEPT ![m] = None]
    /\ account' = [account EXCEPT ![m] = None]
    /\ pending' = [pending EXCEPT ![m] = FALSE]
    /\ unavailable' = [unavailable EXCEPT ![m] = fails]
    /\ generation' = [generation EXCEPT ![m] = @ + 1]

(* Mutant: the adopted credential needs no validation. *)
MutAdoptUnmarked(m, t) ==
    /\ token' = [token EXCEPT ![m] = t]
    /\ access' = [access EXCEPT ![m] = None]
    /\ account' = [account EXCEPT ![m] = None]
    /\ unavailable' = [unavailable EXCEPT ![m] = FALSE]
    /\ generation' = [generation EXCEPT ![m] = @ + 1]
    /\ UNCHANGED pending

(* Mutant: adopting is not a change of identity. *)
MutAdoptQuietly(m, t) ==
    /\ token' = [token EXCEPT ![m] = t]
    /\ access' = [access EXCEPT ![m] = None]
    /\ account' = [account EXCEPT ![m] = None]
    /\ pending' = [pending EXCEPT ![m] = (t # NoToken)]
    /\ unavailable' = [unavailable EXCEPT ![m] = FALSE]
    /\ UNCHANGED generation

(* adopt_external_credential *)
AdoptExternal(m, t) ==
    /\ token' = [token EXCEPT ![m] = t]
    /\ access' = [access EXCEPT ![m] = None]
    /\ account' = [account EXCEPT ![m] = None]
    /\ pending' = [pending EXCEPT ![m] = (t # NoToken)]
    /\ unavailable' = [unavailable EXCEPT ![m] = FALSE]
    /\ generation' = [generation EXCEPT ![m] = @ + 1]

(* Work that is handed a bearer of an account it does not know of.         *)
Strays(m, a) == strays \cup (IF a # home[m] /\ ~told[m] THEN {m} ELSE {})

(* The operation returns; it answers the work, or the validation, that     *)
(* waits for its access token.                                             *)
Return(m, got) ==
    /\ pc' = [pc EXCEPT ![m] = "idle"]
    /\ kind' = [kind EXCEPT ![m] = "none"]
    /\ bundle' = [bundle EXCEPT ![m] = NoToken]
    /\ expected' = [expected EXCEPT ![m] = NoToken]
    /\ previous' = [previous EXCEPT ![m] = None]
    /\ changed' = [changed EXCEPT ![m] = FALSE]
    /\ strays' = IF kind[m] = "work" /\ got # None THEN Strays(m, got) ELSE strays
    /\ val' = IF kind[m] = "validate"
              THEN [val EXCEPT ![m] = IF got = None THEN "idle" ELSE "leased"]
              ELSE val
    /\ bearer' = IF kind[m] = "validate" THEN [bearer EXCEPT ![m] = got] ELSE bearer

Fails(m) == Return(m, None) /\ UNCHANGED <<login, read, home, told>>

(* How often an operation may change the generation, for the bound.        *)
Changes(k) == IF k \in {"login", "clear"} THEN 1 ELSE IF k = "none" THEN 0 ELSE 2
HasRoom(m, k) == generation[m] + Changes(kind[m]) + Changes(k) <= MaxGeneration

StartOperation(m, k) ==
    /\ pc[m] = "idle" /\ HasRoom(m, k) /\ (issued < MaxTokens \/ k = "clear")
    /\ pc' = [pc EXCEPT ![m] = "acquire"]
    /\ kind' = [kind EXCEPT ![m] = k]
    /\ UNCHANGED <<previous, changed>>

-----------------------------------------------------------------------------
(* access_token_internal, for a work and for a validation.                 *)

(* The cached bearer is returned while it is fresh ...                     *)
LeaseCached(m) ==
    /\ home[m] # None /\ ~pending[m] /\ access[m] # None
    /\ strays' = Strays(m, access[m])
    /\ UNCHANGED <<stateVars, opVars, login, valVars, sharedVars, serverVars,
                   abandoned, home, told>>

(* ... and is refreshed when it has expired.                               *)
LeaseRefresh(m) ==
    /\ home[m] # None /\ ~pending[m]
    /\ StartOperation(m, "work")
    /\ UNCHANGED <<stateVars, expected, bundle, login, valVars, sharedVars,
                   serverVars, abandoned, workVars>>

ValidateCached(m) ==
    /\ val[m] = "idle" /\ ~unavailable[m] /\ token[m] # NoToken
    /\ access[m] # None
    /\ val' = [val EXCEPT ![m] = "leased"]
    /\ bearer' = [bearer EXCEPT ![m] = access[m]]
    /\ UNCHANGED <<stateVars, opVars, login, read, sharedVars, serverVars, abandoned,
                   workVars>>

ValidateRefresh(m) ==
    /\ val[m] = "idle" /\ ~unavailable[m] /\ token[m] # NoToken
    /\ StartOperation(m, "validate")
    /\ val' = [val EXCEPT ![m] = "leasing"]
    /\ UNCHANGED <<stateVars, expected, bundle, login, bearer, read, sharedVars,
                   serverVars, abandoned, workVars>>

-----------------------------------------------------------------------------
(* The audience lock: acquire_credential_lock.                             *)

Acquire(m) ==
    /\ pc[m] = "acquire" /\ kind[m] \in {"login", "clear"} /\ lock = None
    /\ lock' = m
    /\ pc' = [pc EXCEPT ![m] = IF kind[m] = "login" THEN "commit" ELSE "discard"]
    /\ UNCHANGED <<stateVars, kind, expected, bundle, previous, changed, login,
                   valVars, keyring, late, serverVars, abandoned, workVars>>

AcquireFails(m) ==
    /\ "lock" \in Faults
    /\ pc[m] = "acquire"
    /\ ClearLocal(m, TRUE)
    /\ Fails(m)
    /\ abandoned' = abandoned \cup ({bundle[m]} \ {NoToken})
    /\ UNCHANGED <<sharedVars, serverVars>>

-----------------------------------------------------------------------------
(* refresh_under_lock.                                                     *)

(* The lock is taken and the credential read in one step, for only the     *)
(* holder of the lock touches the keyring.                                 *)
MayLoad(m) ==
    pc[m] = "acquire" /\ kind[m] \in {"work", "validate", "logout"} /\ lock = None

LoadFails(m) ==
    /\ "load" \in Faults
    /\ MayLoad(m)
    /\ ClearLocal(m, TRUE)
    /\ Fails(m)
    /\ UNCHANGED <<sharedVars, serverVars, abandoned>>

(* A peer has changed the credential and this manager knows no account, or *)
(* the credential is gone: adopt it.                                       *)
MustAdopt(m) == keyring # token[m] /\ (account[m] = None \/ keyring = NoToken)

AdoptIfNeeded(m) ==
    IF MustAdopt(m) THEN AdoptExternal(m, keyring) ELSE UNCHANGED stateVars

(* Only a validation goes on with an adopted credential. *)
LoadRefuses(m) ==
    /\ MayLoad(m)
    /\ keyring = NoToken \/ (MustAdopt(m) /\ kind[m] # "validate")
    /\ AdoptIfNeeded(m)
    /\ Fails(m)
    /\ UNCHANGED <<sharedVars, serverVars, abandoned>>

Load(m) ==
    /\ MayLoad(m)
    /\ keyring # NoToken /\ (MustAdopt(m) => kind[m] = "validate")
    /\ AdoptIfNeeded(m)
    /\ expected' = [expected EXCEPT ![m] = keyring]
    /\ changed' = [changed EXCEPT ![m] = (keyring # token[m])]
    /\ previous' = [previous EXCEPT ![m] = account[m]]
    /\ pc' = [pc EXCEPT ![m] = "send"]
    /\ lock' = m
    /\ UNCHANGED <<kind, bundle, login, valVars, keyring, late, serverVars, abandoned,
                   workVars>>

(* The rotating request: the server sees the token once it is sent.        *)
Present(m) ==
    /\ presented' = presented \cup {expected[m]}
    /\ reused' = reused \cup (presented \cap {expected[m]})

(* Rotated: the peer's token of another account is adopted first, so that  *)
(* this manager's identity changes before the bundle is committed.         *)
SwitchedAccount(m) ==
    changed[m] /\ previous[m] # None /\ previous[m] # expected[m].account

RefreshAnswered(m) ==
    /\ pc[m] = "send"
    /\ expected[m] \notin presented /\ issued < MaxTokens
    /\ Present(m)
    /\ issued' = issued + 1
    /\ bundle' = [bundle EXCEPT ![m] = [account |-> expected[m].account, n |-> issued + 1]]
    /\ IF SwitchedAccount(m) THEN AdoptExternal(m, expected[m]) ELSE UNCHANGED stateVars
    /\ pc' = [pc EXCEPT ![m] = "commit"]
    /\ UNCHANGED <<kind, expected, previous, changed, login, valVars, sharedVars,
                   abandoned, workVars>>

(* Mutant: an ambiguous answer leaves the credential for the next attempt. *)
MutRefreshLost(m) ==
    /\ pc[m] = "send"
    /\ Present(m)
    /\ Fails(m)
    /\ lock' = None
    /\ UNCHANGED <<stateVars, keyring, late, issued, abandoned>>

(* A lost answer, an error status, or an unusable body: the token may have *)
(* been consumed and is never tried again.                                 *)
RefreshLost(m) ==
    /\ pc[m] = "send"
    /\ Present(m)
    /\ pc' = [pc EXCEPT ![m] = "discard"]
    /\ UNCHANGED <<stateVars, kind, expected, bundle, previous, changed, login,
                   valVars, sharedVars, issued, abandoned, workVars>>

-----------------------------------------------------------------------------
(* Browser login: NativeLogin and finish_exchange.                         *)

(* start_native_login takes the lock but not `operations`: it adopts what  *)
(* a peer has stored, and goes on only if nobody is signed in.             *)
StartNativeLogin(m) ==
    /\ login[m] = None /\ ~unavailable[m] /\ lock = None
    /\ HasRoom(m, "login") /\ issued < MaxTokens
    /\ IF keyring # token[m] THEN AdoptExternal(m, keyring) ELSE UNCHANGED stateVars
    /\ login' = IF keyring = NoToken THEN [login EXCEPT ![m] = generation'[m]] ELSE login
    /\ UNCHANGED <<opVars, valVars, sharedVars, serverVars, abandoned, workVars>>

LoginStartFails(m) ==
    /\ Faults \cap {"lock", "load"} # {}
    /\ login[m] = None /\ ~unavailable[m]
    /\ HasRoom(m, "login")
    /\ ClearLocal(m, TRUE)
    /\ UNCHANGED <<opVars, login, valVars, sharedVars, serverVars, abandoned, workVars>>

(* The browser login is cancelled or expires.                              *)
CancelLogin(m) ==
    /\ login[m] # None
    /\ login' = [login EXCEPT ![m] = None]
    /\ UNCHANGED <<stateVars, opVars, valVars, sharedVars, serverVars, abandoned, workVars>>

(* A complete exchange has issued a session; it is committed if nothing    *)
(* has changed since the login started, and revoked otherwise.             *)
FinishExchange(m) ==
    /\ login[m] # None /\ issued < MaxTokens
    /\ pc[m] = "idle"
    /\ issued' = issued + 1
    /\ login' = [login EXCEPT ![m] = None]
    /\ \E a \in Accounts : LET new == [account |-> a, n |-> issued + 1] IN
         IF generation[m] # login[m]
         THEN abandoned' = abandoned \cup {new} /\ UNCHANGED opVars
         ELSE /\ StartOperation(m, "login")
              /\ bundle' = [bundle EXCEPT ![m] = new]
              /\ expected' = [expected EXCEPT ![m] = token[m]]
              /\ UNCHANGED abandoned
    /\ UNCHANGED <<stateVars, valVars, sharedVars, presented, reused, workVars>>

-----------------------------------------------------------------------------
(* commit_bundle_under_credential_lock.                                    *)

Abandon(m) == abandoned' = abandoned \cup {bundle[m]}

(* A rotation may not change the account that is known.                    *)
SameAccount(m) == kind[m] = "login" \/ account[m] \in {None, bundle[m].account}

(* An invalid bundle, or one of another account, is revoked.               *)
BundleRejected(m) ==
    /\ pc[m] = "commit"
    /\ Abandon(m)
    /\ pc' = [pc EXCEPT ![m] = "discard"]
    /\ UNCHANGED <<stateVars, kind, expected, bundle, previous, changed, login,
                   valVars, sharedVars, serverVars, workVars>>

CommitLoadFails(m) ==
    /\ "load" \in Faults
    /\ pc[m] = "commit" /\ SameAccount(m)
    /\ ClearLocal(m, TRUE)
    /\ Abandon(m)
    /\ Fails(m)
    /\ lock' = None
    /\ UNCHANGED <<keyring, late, serverVars>>

(* A peer has committed since: its credential wins.                        *)
CommitConflict(m) ==
    /\ pc[m] = "commit" /\ SameAccount(m) /\ keyring # expected[m]
    /\ AdoptExternal(m, keyring)
    /\ Abandon(m)
    /\ Fails(m)
    /\ lock' = None
    /\ UNCHANGED <<keyring, late, serverVars>>

(* Mutant: the comparison with the expected credential is dropped. *)
MutMaySave(m) == pc[m] = "commit" /\ SameAccount(m)

MaySave(m) == pc[m] = "commit" /\ SameAccount(m) /\ keyring = expected[m]

(* The bundle is durable and becomes this manager's session; work that     *)
(* belongs to the previous account is refused the new bearer.              *)
CommitSaved(m) ==
    /\ MaySave(m)
    /\ keyring' = bundle[m]
    /\ token' = [token EXCEPT ![m] = bundle[m]]
    /\ access' = [access EXCEPT ![m] = bundle[m].account]
    /\ account' = [account EXCEPT ![m] = bundle[m].account]
    /\ unavailable' = [unavailable EXCEPT ![m] = FALSE]
    /\ pending' = IF kind[m] = "login" THEN [pending EXCEPT ![m] = FALSE] ELSE pending
    /\ generation' = IF kind[m] = "login" \/ account[m] # bundle[m].account
                     THEN [generation EXCEPT ![m] = @ + 1] ELSE generation
    /\ told' = [told EXCEPT ![m] = @ \/ (home[m] # None /\ kind[m] = "login")]
    /\ Return(m, IF SwitchedAccount(m) /\ kind[m] # "validate" THEN None ELSE bundle[m].account)
    /\ lock' = None
    /\ UNCHANGED <<login, read, late, serverVars, abandoned, home>>

CommitSaveFails(m) ==
    /\ "save" \in Faults
    /\ MaySave(m)
    /\ Abandon(m)
    /\ pc' = [pc EXCEPT ![m] = "discard"]
    /\ UNCHANGED <<stateVars, kind, expected, bundle, previous, changed, login,
                   valVars, sharedVars, serverVars, workVars>>

(* Mutant: the late save keeps no clone of the lock. *)
MutCommitSaveTimesOut(m) ==
    /\ "slow save" \in Faults /\ late = NoLate
    /\ MaySave(m)
    /\ late' = [kind |-> "save", token |-> bundle[m], over |-> expected[m]]
    /\ ClearLocal(m, TRUE)
    /\ Abandon(m)
    /\ Fails(m)
    /\ lock' = None
    /\ UNCHANGED <<keyring, serverVars>>

CommitSaveTimesOut(m) ==
    /\ "slow save" \in Faults
    /\ MaySave(m)
    /\ late' = [kind |-> "save", token |-> bundle[m], over |-> expected[m]]
    /\ ClearLocal(m, TRUE)
    /\ Abandon(m)
    /\ Fails(m)
    /\ UNCHANGED <<keyring, lock, serverVars>>

-----------------------------------------------------------------------------
(* The late keyring call, which still owns the lock.                       *)

LateSave ==
    /\ late.kind = "save"
    /\ \/ keyring' = late.token /\ late' = [kind |-> "cleanup", token |-> late.token, over |-> late.over]
          /\ UNCHANGED lock
       \/ "slow save error" \in Faults
          /\ late' = NoLate /\ lock' = None /\ UNCHANGED keyring
    /\ UNCHANGED <<stateVars, opVars, login, valVars, serverVars, abandoned, workVars>>

(* Compare-and-delete of the exact late value; a failure is ignored.       *)
LateCleanup ==
    /\ late.kind = "cleanup"
    /\ \/ keyring' = IF keyring = late.token THEN NoToken ELSE keyring
       \/ Faults \cap {"load", "delete"} # {} /\ UNCHANGED keyring
    /\ late' = NoLate /\ lock' = None
    /\ UNCHANGED <<stateVars, opVars, login, valVars, serverVars, abandoned, workVars>>

LateDelete ==
    /\ late.kind = "delete"
    /\ keyring' = NoToken \/ ("delete" \in Faults /\ UNCHANGED keyring)
    /\ late' = NoLate /\ lock' = None
    /\ UNCHANGED <<stateVars, opVars, login, valVars, serverVars, abandoned, workVars>>

-----------------------------------------------------------------------------
(* delete_if_matches_and_clear_under_credential_lock.                      *)

Matches(m) == expected[m] # NoToken /\ keyring = expected[m]

Discard(m) ==
    /\ pc[m] = "discard"
    /\ keyring' = IF Matches(m) THEN NoToken ELSE keyring
    /\ ClearLocal(m, FALSE)
    /\ Fails(m)
    /\ lock' = None
    /\ UNCHANGED <<late, serverVars, abandoned>>

DiscardFails(m) ==
    /\ pc[m] = "discard"
    /\ "load" \in Faults \/ ("delete" \in Faults /\ Matches(m))
    /\ ClearLocal(m, TRUE)
    /\ Fails(m)
    /\ lock' = None
    /\ UNCHANGED <<keyring, late, serverVars, abandoned>>

DiscardTimesOut(m) ==
    /\ "slow delete" \in Faults
    /\ pc[m] = "discard" /\ Matches(m)
    /\ late' = [kind |-> "delete", token |-> expected[m], over |-> expected[m]]
    /\ ClearLocal(m, TRUE)
    /\ Fails(m)
    /\ UNCHANGED <<keyring, lock, serverVars, abandoned>>

-----------------------------------------------------------------------------
(* The rest of validate_with_revision, and logout.                         *)

ReadGeneration(m) ==
    /\ val[m] = "leased"
    /\ read' = [read EXCEPT ![m] = generation[m]]
    /\ val' = [val EXCEPT ![m] = "asked"]
    /\ UNCHANGED <<stateVars, opVars, login, bearer, sharedVars, serverVars, abandoned,
                   workVars>>

(* Mutant: the endpoint's answer relabels the session. *)
MutRelabels(m) == FALSE

(* The session endpoint names the bearer's account.                        *)
Relabels(m) == account[m] # None /\ account[m] # bearer[m]

ValidateOk(m) ==
    /\ val[m] = "asked" /\ generation[m] = read[m] /\ ~Relabels(m)
    /\ account' = [account EXCEPT ![m] = bearer[m]]
    /\ pending' = [pending EXCEPT ![m] = FALSE]
    /\ told' = [told EXCEPT ![m] = (home[m] # None)]
    /\ val' = [val EXCEPT ![m] = "idle"]
    /\ bearer' = [bearer EXCEPT ![m] = None]
    /\ read' = [read EXCEPT ![m] = 0]
    /\ UNCHANGED <<token, access, unavailable, generation, opVars, login, sharedVars,
                   serverVars, abandoned, home, strays>>

(* No usable answer, or the account changed meanwhile.                     *)
ValidateUnavailable(m) ==
    /\ val[m] = "asked"
    /\ val' = [val EXCEPT ![m] = "idle"]
    /\ bearer' = [bearer EXCEPT ![m] = None]
    /\ read' = [read EXCEPT ![m] = 0]
    /\ UNCHANGED <<stateVars, opVars, login, sharedVars, serverVars, abandoned,
                   workVars>>

(* Unauthorized, or another account: the session is over.                  *)
ValidateRefused(m) ==
    /\ val[m] = "asked"
    /\ val' = [val EXCEPT ![m] = "clearing"]
    /\ UNCHANGED <<stateVars, opVars, login, bearer, read, sharedVars, serverVars,
                   abandoned, workVars>>

(* delete_persisted_and_clear, under `operations`.                         *)
StartClear(m) ==
    /\ StartOperation(m, "clear")
    /\ expected' = [expected EXCEPT ![m] = token[m]]
    /\ UNCHANGED bundle

ClearIfGeneration(m) ==
    /\ val[m] = "clearing" /\ pc[m] = "idle"
    /\ IF generation[m] = read[m] THEN StartClear(m) ELSE UNCHANGED opVars
    /\ val' = [val EXCEPT ![m] = "idle"]
    /\ bearer' = [bearer EXCEPT ![m] = None]
    /\ read' = [read EXCEPT ![m] = 0]
    /\ UNCHANGED <<stateVars, login, sharedVars, serverVars, abandoned, workVars>>

(* logout_with_cancellation first asks for a bearer to revoke with.        *)
LogoutRefresh(m) ==
    /\ ~pending[m]
    /\ StartOperation(m, "logout")
    /\ UNCHANGED <<stateVars, expected, bundle, login, valVars, sharedVars,
                   serverVars, abandoned, workVars>>

Logout(m) ==
    /\ StartClear(m)
    /\ UNCHANGED <<stateVars, login, valVars, sharedVars, serverVars, abandoned,
                   workVars>>

-----------------------------------------------------------------------------
(* Account work, as AccountSwitch has it: registered for the validated     *)
(* account, and cancelled by the switch that follows a change.             *)

RegisterWork(m) ==
    /\ home[m] = None /\ account[m] # None /\ ~pending[m]
    /\ home' = [home EXCEPT ![m] = account[m]]
    /\ UNCHANGED <<told, strays>>
    /\ UNCHANGED <<stateVars, opVars, login, valVars, sharedVars, serverVars, abandoned>>

EndWork(m) ==
    /\ home[m] # None /\ kind[m] # "work"
    /\ home' = [home EXCEPT ![m] = None]
    /\ told' = [told EXCEPT ![m] = FALSE]
    /\ UNCHANGED strays
    /\ UNCHANGED <<stateVars, opVars, login, valVars, sharedVars, serverVars, abandoned>>

-----------------------------------------------------------------------------
Refresh(m) ==
    \/ LoadFails(m) \/ LoadRefuses(m) \/ Load(m) \/ RefreshAnswered(m) \/ RefreshLost(m)

Commit(m) ==
    \/ BundleRejected(m) \/ CommitLoadFails(m) \/ CommitConflict(m) \/ CommitSaved(m)
    \/ CommitSaveFails(m) \/ CommitSaveTimesOut(m)

Clear(m) == Discard(m) \/ DiscardFails(m) \/ DiscardTimesOut(m)

Validate(m) ==
    \/ ValidateCached(m) \/ ValidateRefresh(m) \/ ReadGeneration(m) \/ ValidateOk(m)
    \/ ValidateUnavailable(m) \/ ValidateRefused(m) \/ ClearIfGeneration(m)

Next ==
    \/ \E m \in Managers :
         \/ Acquire(m) \/ AcquireFails(m)
         \/ Refresh(m) \/ Commit(m) \/ Clear(m)
         \/ StartNativeLogin(m) \/ LoginStartFails(m) \/ CancelLogin(m) \/ FinishExchange(m)
         \/ LogoutRefresh(m) \/ Logout(m)
    \/ \E m \in Workers :
         \/ Validate(m)
         \/ RegisterWork(m) \/ LeaseCached(m) \/ LeaseRefresh(m) \/ EndWork(m)
    \/ LateSave \/ LateCleanup \/ LateDelete

Spec == Init /\ [][Next]_vars

-----------------------------------------------------------------------------
(* Types, and that a cached bearer is one of the account it is cached for. *)
TypeOK ==
    /\ token \in [Managers -> MaybeToken]
    /\ access \in [Managers -> MaybeAccount]
    /\ account \in [Managers -> MaybeAccount]
    /\ pending \in [Managers -> BOOLEAN] /\ unavailable \in [Managers -> BOOLEAN]
    /\ generation \in [Managers -> 0..MaxGeneration]
    /\ pc \in [Managers -> {"idle", "acquire", "send", "commit", "discard"}]
    /\ kind \in [Managers -> {"none", "work", "validate", "logout", "login", "clear"}]
    /\ expected \in [Managers -> MaybeToken] /\ bundle \in [Managers -> MaybeToken]
    /\ previous \in [Managers -> MaybeAccount] /\ changed \in [Managers -> BOOLEAN]
    /\ login \in [Managers -> 0..MaxGeneration \cup {None}]
    /\ val \in [Managers -> {"idle", "leasing", "leased", "asked", "clearing"}]
    /\ bearer \in [Managers -> MaybeAccount] /\ read \in [Managers -> 0..MaxGeneration]
    /\ keyring \in MaybeToken /\ lock \in Managers \cup {None}
    /\ late \in [kind : {"none", "save", "cleanup", "delete"}, token : MaybeToken,
                 over : MaybeToken]
    /\ issued \in 0..MaxTokens
    /\ presented \subseteq Tokens /\ reused \subseteq Tokens
    /\ abandoned \subseteq Tokens
    /\ home \in [Managers -> MaybeAccount] /\ strays \subseteq Managers
    /\ told \in [Managers -> BOOLEAN]
    /\ \A m \in Managers : access[m] # None => access[m] = account[m]

(* "Never retry that token and risk triggering family-reuse revocation":   *)
(* no two refresh requests, of any processes, carry the same token.        *)
NoTokenReuse == reused = {}

(* Whoever takes the audience lock finds a credential that can be used, or *)
(* none: never one that was presented, and never the late value of a save  *)
(* whose session was revoked.                                              *)
KeyringIsUsable == lock = None => keyring \notin presented \cup abandoned

(* "Compare-and-delete the exact late value ... A newly saved credential   *)
(* can therefore never be mistaken for ours": a stored credential is       *)
(* replaced or deleted only once it was presented or abandoned, by the     *)
(* sign-out or sign-in that holds the lock and found exactly this one, or  *)
(* by the late call that was started on it.                                *)
CredentialNotClobbered ==
    [][keyring' # keyring /\ keyring # NoToken =>
         \/ keyring \in presented \cup abandoned
         \/ \E m \in Managers :
              lock = m /\ kind[m] \in {"clear", "login"} /\ keyring = expected[m]
         \/ late # NoLate /\ keyring \in {late.over, late.token}]_vars

(* What account work can take from the cache (access_token_internal) is a  *)
(* bearer of the account it was registered for, until this process has     *)
(* validated or signed in to the other account itself: whatever a peer     *)
(* stores, and whenever it is adopted, `pending` outlives the rotation     *)
(* that caches the new bearer.                                             *)
CachedBearerIsHome ==
    \A m \in Managers :
        home[m] # None /\ ~pending[m] /\ access[m] # None /\ ~told[m] => access[m] = home[m]

(* "Never give it to work registered against the previous account's local  *)
(* store": until this process has validated or signed in to the other      *)
(* account itself, a peer's sign-in never gives its bearer to running      *)
(* work.  A refresh that was waiting for the lock when start_native_login  *)
(* adopted the peer's credential breaks it (run native_login_overtakes).   *)
PeerBearerStaysAway ==
    strays = {}

(* A manager's identity never changes within one generation, which is what *)
(* account_status_is_current and account_access_is_current compare.        *)
GenerationNamesIdentity ==
    [][\A m \in Managers :
         account[m] # None /\ account'[m] # account[m] => generation'[m] # generation[m]]_vars
=============================================================================
