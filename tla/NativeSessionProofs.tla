------------------------- MODULE NativeSessionProofs -------------------------
(***************************************************************************)
(* The proofs of NativeSession, for any number of processes, accounts and  *)
(* tokens.  First, the tokens: none is ever presented twice, and whoever   *)
(* takes the audience lock finds a usable credential, as long as the       *)
(* keyring can be read, a delete does not fail outright and a late save    *)
(* does not fail.  Then, whatever keyring call fails, the identities: a    *)
(* generation never names two of them, a stored credential is only         *)
(* replaced or deleted by an operation that meant it, and, when            *)
(* start_native_login reaches the keyring, work never finds another        *)
(* account's bearer in the cache.                                          *)
(***************************************************************************)
EXTENDS NativeSession, TLAPS

Critical == {"send", "commit", "discard"}

(* The faults after which the code leaves a consumed token in the keyring. *)
NoLeftovers == Faults \cap {"load", "delete", "slow save error"} = {}

-----------------------------------------------------------------------------
(* The inductive invariant of the tokens.                                  *)

TokenTypes ==
    /\ pc \in [Managers -> {"idle", "acquire", "send", "commit", "discard"}]
    /\ kind \in [Managers -> {"none", "work", "validate", "logout", "login", "clear"}]
    /\ expected \in [Managers -> MaybeToken] /\ bundle \in [Managers -> MaybeToken]
    /\ token \in [Managers -> MaybeToken]
    /\ keyring \in MaybeToken /\ lock \in Managers \cup {None}
    /\ late \in [kind : {"none", "save", "cleanup", "delete"}, token : MaybeToken,
                 over : MaybeToken]
    /\ issued \in 0..MaxTokens
    /\ presented \subseteq Tokens /\ abandoned \subseteq Tokens

(* The lock: its critical sections, the late call included, exclude each   *)
(* other.                                                                  *)
Exclusion ==
    /\ \A m \in Managers : pc[m] \in Critical => lock = m /\ late.kind = "none"
    /\ late.kind # "none" => lock # None

(* Serial numbers are handed out once.                                     *)
Issued ==
    /\ keyring.n <= issued
    /\ \A t \in presented \cup abandoned : t.n <= issued
    /\ \A m \in Managers : bundle[m].n <= issued

(* A bundle on its way to the keyring is known to nobody else.             *)
Fresh ==
    /\ \A m \in Managers : pc[m] = "idle" \/ (pc[m] = "acquire" /\ kind[m] # "login") =>
         bundle[m] = NoToken
    /\ \A m \in Managers : pc[m] = "commit" \/ (pc[m] = "acquire" /\ kind[m] = "login") =>
         bundle[m] # NoToken
    /\ \A m \in Managers : pc[m] \in {"acquire", "commit"} /\ bundle[m] # NoToken =>
         /\ bundle[m] \notin presented \cup abandoned
         /\ bundle[m] # keyring
         /\ \A k \in Managers : bundle[k] = bundle[m] => k = m

(* What is stored: usable when the lock is free; otherwise the holder is   *)
(* about to present it, or about to remove the one it has presented.       *)
Stored ==
    /\ lock = None => keyring \notin presented \cup abandoned
    /\ \A m \in Managers : pc[m] = "send" =>
         keyring = expected[m] /\ keyring # NoToken /\ keyring \notin presented \cup abandoned
    /\ \A m \in Managers : 
         pc[m] \in {"commit", "discard"} /\ keyring \in presented \cup abandoned =>
            keyring = expected[m] /\ keyring # NoToken
    /\ late.kind = "cleanup" => keyring = late.token
    /\ late.kind = "save" => late.token \in abandoned

TokenInv == TokenTypes /\ Exclusion /\ Issued /\ Fresh /\ Stored /\ reused = {}

-----------------------------------------------------------------------------
LEMMA TokenFacts ==
    /\ NoToken \notin Tokens /\ NoToken.n = 0
    /\ \A t \in MaybeToken : t.n \in 0..MaxTokens
    /\ \A t \in Tokens : t.n \in 1..MaxTokens /\ t # NoToken
    /\ \A a \in Accounts, i \in 1..MaxTokens :
         [account |-> a, n |-> i] \in Tokens /\ [account |-> a, n |-> i].n = i
  BY SessionAssumption DEF Tokens, NoToken, MaybeToken

LEMMA InitTokenInv == Init => TokenInv
  <1> SUFFICES ASSUME Init PROVE TokenInv
    OBVIOUS
  <1>1. PICK t \in {NoToken} \cup [account : Accounts, n : {1}] :
          keyring = t /\ issued = t.n /\ token \in [Managers -> {NoToken, t}]
    BY DEF Init
  <1>2. t \in MaybeToken
    BY <1>1, SessionAssumption DEF MaybeToken, Tokens
  <1>3. TokenTypes
    BY <1>1, <1>2, TokenFacts, SessionAssumption DEF Init, TokenTypes, NoLate, MaybeToken
  <1>4. Exclusion /\ Fresh /\ Stored /\ reused = {}
    BY <1>1, <1>2 DEF Init, Exclusion, Fresh, Stored, Critical, NoLate
  <1>5. Issued
    BY <1>1, <1>2, TokenFacts DEF Init, Issued
  <1> QED
    BY <1>3, <1>4, <1>5 DEF TokenInv

-----------------------------------------------------------------------------
(* What the parts of an action do to the token variables.                  *)

LEMMA ReturnEffect ==
    ASSUME NEW m \in Managers, NEW g, Return(m, g)
    PROVE  /\ pc' = [pc EXCEPT ![m] = "idle"] /\ kind' = [kind EXCEPT ![m] = "none"]
           /\ bundle' = [bundle EXCEPT ![m] = NoToken]
           /\ expected' = [expected EXCEPT ![m] = NoToken]
  BY DEF Return

LEMMA ClearTyped ==
    ASSUME TokenTypes, NEW m \in Managers, NEW b, ClearLocal(m, b)
    PROVE  token' \in [Managers -> MaybeToken]
  BY DEF TokenTypes, ClearLocal, MaybeToken

LEMMA AdoptTyped ==
    ASSUME TokenTypes, NEW m \in Managers, NEW t \in MaybeToken, AdoptExternal(m, t)
    PROVE  token' \in [Managers -> MaybeToken]
  BY DEF TokenTypes, AdoptExternal

(* An operation that ends leaves the other managers' operations alone, and *)
(* frees the lock or leaves it to the late call.                           *)
LEMMA EndKeepsInv ==
    ASSUME TokenInv, NEW m \in Managers, NEW g, Return(m, g),
           pc[m] \in Critical, lock' = None, late' = late,
           token' \in [Managers -> MaybeToken],
           issued' = issued, presented' = presented, reused' = reused,
           abandoned' \in {abandoned, abandoned \cup {bundle[m]}},
           bundle[m] # NoToken \/ abandoned' = abandoned,
           keyring' \in MaybeToken, keyring' \notin presented' \cup abandoned',
           keyring'.n <= issued,
           \A k \in Managers : k # m /\ bundle[k] # NoToken => bundle[k] # keyring'
    PROVE  TokenInv'
  <1>0. /\ pc' = [pc EXCEPT ![m] = "idle"] /\ kind' = [kind EXCEPT ![m] = "none"]
        /\ bundle' = [bundle EXCEPT ![m] = NoToken]
        /\ expected' = [expected EXCEPT ![m] = NoToken]
    BY ReturnEffect
  <1>1. TokenTypes'
    BY <1>0, TokenFacts DEF TokenInv, TokenTypes, MaybeToken
  <1>2. late.kind = "none" /\ \A k \in Managers : k # m => pc[k] \notin Critical
    BY SessionAssumption DEF TokenInv, Exclusion
  <1>3. Exclusion'
    BY <1>0, <1>2 DEF TokenInv, TokenTypes, Exclusion, Critical
  <1>4. Issued'
    BY <1>0, TokenFacts DEF TokenInv, TokenTypes, Issued, MaybeToken
  <1>5. \A k \in Managers : k # m /\ bundle[k] # NoToken /\ pc[k] \in {"acquire", "commit"} =>
          bundle[k] \notin abandoned'
    BY DEF TokenInv, Fresh
  <1>6. Fresh'
    BY <1>0, <1>5 DEF TokenInv, TokenTypes, Fresh
  <1>7. Stored'
    BY <1>0, <1>2 DEF TokenInv, TokenTypes, Stored, Critical
  <1> QED
    BY <1>1, <1>3, <1>4, <1>6, <1>7 DEF TokenInv

(* An operation whose keyring call is late leaves it the lock.             *)
LEMMA LateKeepsInv ==
    ASSUME TokenInv, NEW m \in Managers, NEW g, Return(m, g),
           pc[m] \in Critical, lock' = lock,
           late' \in [kind : {"save", "delete"}, token : MaybeToken, over : MaybeToken],
           token' \in [Managers -> MaybeToken],
           issued' = issued, presented' = presented, reused' = reused, keyring' = keyring,
           abandoned' \in {abandoned, abandoned \cup {bundle[m]}},
           bundle[m] # NoToken \/ abandoned' = abandoned,
           late'.kind = "save" => late'.token \in abandoned'
    PROVE  TokenInv'
  <1>0. /\ pc' = [pc EXCEPT ![m] = "idle"] /\ kind' = [kind EXCEPT ![m] = "none"]
        /\ bundle' = [bundle EXCEPT ![m] = NoToken]
        /\ expected' = [expected EXCEPT ![m] = NoToken]
    BY ReturnEffect
  <1>1. TokenTypes'
    BY <1>0, TokenFacts DEF TokenInv, TokenTypes, MaybeToken
  <1>2. lock = m /\ m # None /\ \A k \in Managers : k # m => pc[k] \notin Critical
    BY SessionAssumption DEF TokenInv, Exclusion
  <1>3. Exclusion'
    BY <1>0, <1>2 DEF TokenInv, TokenTypes, Exclusion, Critical
  <1>4. Issued'
    BY <1>0, TokenFacts DEF TokenInv, TokenTypes, Issued, MaybeToken
  <1>5. \A k \in Managers : k # m /\ bundle[k] # NoToken /\ pc[k] \in {"acquire", "commit"} =>
          bundle[k] \notin abandoned'
    BY DEF TokenInv, Fresh
  <1>6. Fresh'
    BY <1>0, <1>5 DEF TokenInv, TokenTypes, Fresh
  <1>7. Stored'
    BY <1>0, <1>2 DEF TokenInv, TokenTypes, Stored, Critical
  <1> QED
    BY <1>1, <1>3, <1>4, <1>6, <1>7 DEF TokenInv

(* An operation that gives up before it has the lock.                      *)
LEMMA AbortKeepsInv ==
    ASSUME TokenInv, NEW m \in Managers, NEW g, Return(m, g),
           pc[m] = "acquire", lock' = lock, late' = late, keyring' = keyring,
           token' \in [Managers -> MaybeToken],
           issued' = issued, presented' = presented, reused' = reused,
           abandoned' \in {abandoned, abandoned \cup ({bundle[m]} \ {NoToken})}
    PROVE  TokenInv'
  <1>0. /\ pc' = [pc EXCEPT ![m] = "idle"] /\ kind' = [kind EXCEPT ![m] = "none"]
        /\ bundle' = [bundle EXCEPT ![m] = NoToken]
        /\ expected' = [expected EXCEPT ![m] = NoToken]
    BY ReturnEffect
  <1>1. TokenTypes'
    BY <1>0, TokenFacts DEF TokenInv, TokenTypes, MaybeToken
  <1>3. Exclusion'
    BY <1>0 DEF TokenInv, TokenTypes, Exclusion, Critical
  <1>4. Issued'
    BY <1>0, TokenFacts DEF TokenInv, TokenTypes, Issued, MaybeToken
  <1>5. /\ \A k \in Managers : k # m /\ bundle[k] # NoToken /\ pc[k] \in {"acquire", "commit"} =>
              bundle[k] \notin abandoned'
        /\ keyring \notin presented \cup abandoned => keyring \notin presented' \cup abandoned'
        /\ keyring \in presented' \cup abandoned' => keyring \in presented \cup abandoned
    BY DEF TokenInv, Fresh
  <1>6. Fresh'
    BY <1>0, <1>5 DEF TokenInv, TokenTypes, Fresh
  <1>7. Stored'
    BY <1>0, <1>5 DEF TokenInv, TokenTypes, Stored, Critical
  <1> QED
    BY <1>1, <1>3, <1>4, <1>6, <1>7 DEF TokenInv

(* Steps that leave the token variables alone, but for the manager's copy. *)
LEMMA FrameKeepsInv ==
    ASSUME TokenInv, token' \in [Managers -> MaybeToken],
           pc' = pc, kind' = kind, expected' = expected, bundle' = bundle,
           keyring' = keyring, lock' = lock, late' = late,
           issued' = issued, presented' = presented, reused' = reused, abandoned' = abandoned
    PROVE  TokenInv'
  BY DEF TokenInv, TokenTypes, Exclusion, Issued, Fresh, Stored

(* A refresh, or a clear, that starts has no bundle.                       *)
LEMMA StartKeepsInv ==
    ASSUME TokenInv, NEW m \in Managers,
           NEW k \in {"work", "validate", "logout", "clear"}, StartOperation(m, k),
           expected' \in {expected, [expected EXCEPT ![m] = token[m]]},
           token' = token, bundle' = bundle, keyring' = keyring, lock' = lock, late' = late,
           issued' = issued, presented' = presented, reused' = reused, abandoned' = abandoned
    PROVE  TokenInv'
  <1>0. pc[m] = "idle" /\ pc' = [pc EXCEPT ![m] = "acquire"] /\ kind' = [kind EXCEPT ![m] = k]
    BY DEF StartOperation
  <1>1. TokenTypes'
    BY <1>0 DEF TokenInv, TokenTypes
  <1>2. Exclusion' /\ Issued'
    BY <1>0 DEF TokenInv, TokenTypes, Exclusion, Issued, Critical
  <1>3. Fresh'
    BY <1>0 DEF TokenInv, TokenTypes, Fresh
  <1>4. Stored'
    BY <1>0 DEF TokenInv, TokenTypes, Stored
  <1> QED
    BY <1>1, <1>2, <1>3, <1>4 DEF TokenInv

-----------------------------------------------------------------------------
(* The operations, one lemma for each group of actions.                    *)

LEMMA AcquireKeepsTokens ==
    ASSUME TokenInv, NEW m \in Managers, Acquire(m)
    PROVE  TokenInv'
  <1>0. pc[m] = "acquire" /\ pc'[m] \in {"commit", "discard"} /\ lock = None /\ lock' = m
    BY DEF Acquire, TokenInv, TokenTypes
  <1>1. TokenTypes'
    BY DEF Acquire, TokenInv, TokenTypes, stateVars, serverVars
  <1>2. late.kind = "none" /\ \A k \in Managers : pc[k] \notin Critical
    BY <1>0, SessionAssumption DEF TokenInv, Exclusion
  <1>3. Exclusion' /\ Issued'
    BY <1>0, <1>2, SessionAssumption
    DEF Acquire, TokenInv, TokenTypes, Exclusion, Issued, Critical, serverVars
  <1>4. keyring \notin presented \cup abandoned
    BY <1>0 DEF TokenInv, Stored
  <1>5. Stored'
    BY <1>0, <1>2, <1>4 DEF Acquire, TokenInv, TokenTypes, Stored, Critical, serverVars
  <1>6. /\ pc'[m] = "commit" => bundle[m] # NoToken
        /\ \A k \in Managers : k # m => pc'[k] = pc[k]
    BY <1>0 DEF Acquire, TokenInv, TokenTypes, Fresh
  <1>7. Fresh'
    BY <1>0, <1>6 DEF Acquire, TokenInv, TokenTypes, Fresh, serverVars
  <1> QED
    BY <1>1, <1>3, <1>5, <1>7 DEF TokenInv, Acquire, serverVars

LEMMA LoadKeepsTokens ==
    ASSUME TokenInv, NEW m \in Managers, Load(m)
    PROVE  TokenInv'
  <1>0. /\ pc[m] = "acquire" /\ kind[m] # "login" /\ lock = None /\ lock' = m
        /\ pc' = [pc EXCEPT ![m] = "send"] /\ expected' = [expected EXCEPT ![m] = keyring]
        /\ keyring # NoToken
        /\ kind' = kind /\ bundle' = bundle /\ keyring' = keyring /\ late' = late
        /\ issued' = issued /\ presented' = presented /\ reused' = reused
        /\ abandoned' = abandoned
    BY DEF Load, MayLoad, serverVars
  <1>t. token' \in [Managers -> MaybeToken]
    BY AdoptTyped DEF Load, AdoptIfNeeded, TokenInv, TokenTypes, stateVars
  <1>1. TokenTypes'
    BY <1>0, <1>t DEF TokenInv, TokenTypes
  <1>2. late.kind = "none" /\ \A k \in Managers : pc[k] \notin Critical
    BY <1>0, SessionAssumption DEF TokenInv, Exclusion
  <1>3. Exclusion' /\ Issued'
    BY <1>0, <1>2, SessionAssumption DEF TokenInv, TokenTypes, Exclusion, Issued, Critical
  <1>4. Fresh'
    BY <1>0 DEF TokenInv, TokenTypes, Fresh
  <1>5. Stored'
    BY <1>0, <1>2, SessionAssumption DEF TokenInv, TokenTypes, Stored, Critical
  <1> QED
    BY <1>0, <1>1, <1>3, <1>4, <1>5 DEF TokenInv

LEMMA LoadRefusesKeepsTokens ==
    ASSUME TokenInv, NEW m \in Managers, LoadRefuses(m)
    PROVE  TokenInv'
  <1>1. token' \in [Managers -> MaybeToken]
    BY AdoptTyped DEF LoadRefuses, AdoptIfNeeded, TokenInv, TokenTypes, stateVars
  <1> QED
    BY <1>1, AbortKeepsInv DEF LoadRefuses, MayLoad, Fails, sharedVars, serverVars

LEMMA AcquireFailsKeepsTokens ==
    ASSUME TokenInv, NEW m \in Managers, AcquireFails(m)
    PROVE  TokenInv'
  <1>1. token' \in [Managers -> MaybeToken]
    BY ClearTyped DEF AcquireFails, TokenInv
  <1> QED
    BY <1>1, AbortKeepsInv DEF AcquireFails, Fails, sharedVars, serverVars

(* Presenting: the token was never presented before, and stays stored only *)
(* until the holder of the lock has replaced or removed it.                *)
LEMMA PresentKeeps ==
    ASSUME TokenInv, NEW m \in Managers, pc[m] = "send", Present(m)
    PROVE  /\ presented' \subseteq Tokens /\ reused' = {}
           /\ presented' = presented \cup {keyring} /\ expected[m] = keyring
           /\ keyring \in Tokens /\ keyring.n <= issued
           /\ \A k \in Managers : k # m => pc[k] \notin Critical
           /\ lock = m /\ late.kind = "none"
  <1>1. keyring = expected[m] /\ keyring # NoToken /\ keyring \notin presented
    BY DEF TokenInv, Stored
  <1>2. keyring \in Tokens /\ keyring.n <= issued
    BY <1>1 DEF TokenInv, TokenTypes, MaybeToken, Issued
  <1> QED
    BY <1>1, <1>2, SessionAssumption
    DEF Present, TokenInv, TokenTypes, Exclusion, Critical

LEMMA RefreshLostKeepsTokens ==
    ASSUME TokenInv, NEW m \in Managers, RefreshLost(m)
    PROVE  TokenInv'
  <1>0. /\ pc[m] = "send" /\ pc' = [pc EXCEPT ![m] = "discard"] /\ Present(m)
        /\ kind' = kind /\ expected' = expected /\ bundle' = bundle /\ token' = token
        /\ keyring' = keyring /\ lock' = lock /\ late' = late /\ issued' = issued
        /\ abandoned' = abandoned
    BY DEF RefreshLost, stateVars, sharedVars
  <1>1. /\ presented' \subseteq Tokens /\ reused' = {}
        /\ presented' = presented \cup {keyring} /\ expected[m] = keyring
        /\ keyring \in Tokens /\ keyring.n <= issued
        /\ \A k \in Managers : k # m => pc[k] \notin Critical
        /\ lock = m /\ late.kind = "none"
    BY <1>0, PresentKeeps
  <1>2. TokenTypes'
    BY <1>0, <1>1 DEF TokenInv, TokenTypes
  <1>3. Exclusion' /\ Issued'
    BY <1>0, <1>1, SessionAssumption DEF TokenInv, TokenTypes, Exclusion, Issued, Critical
  <1>4. Fresh'
    BY <1>0, <1>1 DEF TokenInv, TokenTypes, Fresh
  <1>5. Stored'
    BY <1>0, <1>1, TokenFacts, SessionAssumption DEF TokenInv, TokenTypes, Stored, Critical
  <1> QED
    BY <1>1, <1>2, <1>3, <1>4, <1>5 DEF TokenInv

LEMMA RefreshAnsweredKeepsTokens ==
    ASSUME TokenInv, NEW m \in Managers, RefreshAnswered(m)
    PROVE  TokenInv'
  <1> DEFINE new == [account |-> expected[m].account, n |-> issued + 1]
  <1>0. /\ pc[m] = "send" /\ pc' = [pc EXCEPT ![m] = "commit"] /\ Present(m)
        /\ issued < MaxTokens /\ issued' = issued + 1
        /\ bundle' = [bundle EXCEPT ![m] = new]
        /\ kind' = kind /\ expected' = expected /\ keyring' = keyring /\ lock' = lock
        /\ late' = late /\ abandoned' = abandoned
    BY DEF RefreshAnswered, sharedVars
  <1>1. /\ presented' \subseteq Tokens /\ reused' = {}
        /\ presented' = presented \cup {keyring} /\ expected[m] = keyring
        /\ keyring \in Tokens /\ keyring.n <= issued
        /\ \A k \in Managers : k # m => pc[k] \notin Critical
        /\ lock = m /\ late.kind = "none"
    BY <1>0, PresentKeeps
  <1>2. token' \in [Managers -> MaybeToken]
    <2>1. expected[m] \in MaybeToken
      BY DEF TokenInv, TokenTypes
    <2> QED
      BY <2>1, AdoptTyped DEF RefreshAnswered, TokenInv, TokenTypes, stateVars
  <1>3. issued \in Nat /\ issued + 1 \in 1..MaxTokens
    BY <1>0, SessionAssumption DEF TokenInv, TokenTypes
  <1>4. new \in Tokens /\ new.n = issued + 1 /\ new # NoToken
    <2>1. expected[m].account \in Accounts
      BY <1>1 DEF Tokens
    <2> QED
      BY <2>1, <1>3, TokenFacts
  <1>5. /\ new \notin presented \cup abandoned /\ new # keyring
        /\ \A k \in Managers : bundle[k] # new
    BY <1>1, <1>3, <1>4 DEF TokenInv, Issued
  <1> HIDE DEF new
  <1>6. TokenTypes'
    <2>1. bundle' \in [Managers -> MaybeToken] /\ issued' \in 0..MaxTokens
      BY <1>0, <1>3, <1>4, SessionAssumption DEF TokenInv, TokenTypes, MaybeToken
    <2>2. pc' \in [Managers -> {"idle", "acquire", "send", "commit", "discard"}]
      BY <1>0 DEF TokenInv, TokenTypes
    <2> QED
      BY <2>1, <2>2, <1>0, <1>1, <1>2 DEF TokenInv, TokenTypes
  <1>7. Exclusion'
    BY <1>0, <1>1, SessionAssumption DEF TokenInv, TokenTypes, Exclusion, Critical
  <1>8. Issued'
    <2>1. \A t \in MaybeToken : t.n \in Nat
      BY TokenFacts, SessionAssumption
    <2>2. \A k \in Managers : bundle'[k].n <= issued + 1
      BY <2>1, <1>0, <1>3, <1>4 DEF TokenInv, TokenTypes, Issued
    <2>3. \A t \in presented' \cup abandoned' : t.n <= issued + 1
      BY <2>1, <1>0, <1>1, <1>3 DEF TokenInv, TokenTypes, Issued, MaybeToken
    <2> QED
      BY <2>1, <2>2, <2>3, <1>0, <1>1, <1>3 DEF TokenInv, TokenTypes, Issued
  <1>9. Fresh'
    <2>1. \A k \in Managers : bundle'[k] = IF k = m THEN new ELSE bundle[k]
      BY <1>0 DEF TokenInv, TokenTypes
    <2>2. \A k \in Managers : pc'[k] = IF k = m THEN "commit" ELSE pc[k]
      BY <1>0 DEF TokenInv, TokenTypes
    <2> QED
      BY <2>1, <2>2, <1>0, <1>1, <1>4, <1>5 DEF TokenInv, Fresh
  <1>10. Stored'
    BY <1>0, <1>1, TokenFacts, SessionAssumption DEF TokenInv, TokenTypes, Stored, Critical
  <1> QED
    BY <1>1, <1>6, <1>7, <1>8, <1>9, <1>10 DEF TokenInv

(* A bundle that cannot be used is given up, and the credential discarded. *)
LEMMA GiveUpKeepsTokens ==
    ASSUME TokenInv, NEW m \in Managers, pc[m] = "commit", Abandon(m),
           pc' = [pc EXCEPT ![m] = "discard"],
           kind' = kind, expected' = expected, bundle' = bundle, token' = token,
           keyring' = keyring, lock' = lock, late' = late, issued' = issued,
           presented' = presented, reused' = reused
    PROVE  TokenInv'
  <1>1. bundle[m] \in Tokens /\ bundle[m] # keyring
    BY DEF TokenInv, TokenTypes, Fresh, MaybeToken
  <1>2. TokenTypes'
    BY <1>1 DEF TokenInv, TokenTypes, Abandon
  <1>3. Exclusion' /\ Issued'
    BY <1>1 DEF TokenInv, TokenTypes, Exclusion, Issued, Critical, Abandon
  <1>4. Fresh'
    BY <1>1 DEF TokenInv, TokenTypes, Fresh, Abandon
  <1>5. Stored'
    <2>1. lock = m /\ m # None /\ late.kind = "none"
          /\ \A k \in Managers : k # m => pc[k] \notin Critical
      BY SessionAssumption DEF TokenInv, Exclusion, Critical
    <2> QED
      BY <1>1, <2>1 DEF TokenInv, TokenTypes, Stored, Abandon, Critical
  <1> QED
    BY <1>2, <1>3, <1>4, <1>5 DEF TokenInv

LEMMA CommitFacts ==
    ASSUME TokenInv, NEW m \in Managers, pc[m] \in {"commit", "discard"}
    PROVE  /\ lock = m /\ m # None /\ late.kind = "none"
           /\ \A k \in Managers : k # m /\ bundle[k] # NoToken => bundle[k] # keyring
           /\ keyring \in MaybeToken /\ expected[m] \in MaybeToken /\ keyring.n <= issued
           /\ pc[m] = "commit" =>
                /\ bundle[m] \in Tokens /\ bundle[m].n <= issued /\ bundle[m] # keyring
                /\ bundle[m] \notin presented \cup abandoned
                /\ \A k \in Managers : k # m => bundle[k] # bundle[m]
           /\ keyring \in presented \cup abandoned => keyring = expected[m] /\ keyring # NoToken
  <1>1. /\ lock = m /\ m # None /\ late.kind = "none"
        /\ \A k \in Managers : k # m => pc[k] \notin Critical
    BY SessionAssumption DEF TokenInv, Exclusion, Critical
  <1>2. \A k \in Managers : k # m => pc[k] \in {"idle", "acquire"}
    BY <1>1 DEF TokenInv, TokenTypes, Critical
  <1>3. \A k \in Managers : k # m /\ bundle[k] # NoToken => bundle[k] # keyring
    BY <1>2 DEF TokenInv, Fresh
  <1>4. pc[m] = "commit" =>
           /\ bundle[m] \in Tokens /\ bundle[m].n <= issued /\ bundle[m] # keyring
           /\ bundle[m] \notin presented \cup abandoned
           /\ \A k \in Managers : k # m => bundle[k] # bundle[m]
    BY DEF TokenInv, TokenTypes, Fresh, Issued, MaybeToken
  <1>5. /\ keyring \in MaybeToken /\ expected[m] \in MaybeToken /\ keyring.n <= issued
        /\ keyring \in presented \cup abandoned => keyring = expected[m] /\ keyring # NoToken
    BY DEF TokenInv, TokenTypes, Issued, Stored
  <1> QED
    BY <1>1, <1>3, <1>4, <1>5

LEMMA CommitKeeps ==
    ASSUME TokenInv, NoLeftovers, NEW m \in Managers, Commit(m)
    PROVE  TokenInv'
  <1>1. CASE BundleRejected(m)
    BY <1>1, GiveUpKeepsTokens DEF BundleRejected, stateVars, sharedVars, serverVars
  <1>2. CASE CommitSaveFails(m)
    BY <1>2, GiveUpKeepsTokens DEF CommitSaveFails, MaySave, stateVars, sharedVars, serverVars
  <1>3. CASE CommitLoadFails(m)
    BY <1>3 DEF CommitLoadFails, NoLeftovers
  <1>4. CASE CommitConflict(m)
    <2>1. /\ pc[m] = "commit" /\ keyring # expected[m] /\ Return(m, None) /\ lock' = None
          /\ AdoptExternal(m, keyring) /\ abandoned' = abandoned \cup {bundle[m]}
          /\ keyring' = keyring /\ late' = late /\ issued' = issued
          /\ presented' = presented /\ reused' = reused
      BY <1>4 DEF CommitConflict, Abandon, Fails, serverVars
    <2>2. /\ keyring \in MaybeToken /\ keyring.n <= issued /\ bundle[m] # keyring
          /\ keyring \notin presented \cup abandoned /\ bundle[m] # NoToken
          /\ \A k \in Managers : k # m /\ bundle[k] # NoToken => bundle[k] # keyring
      BY <2>1, CommitFacts, TokenFacts
    <2>3. token' \in [Managers -> MaybeToken]
      BY <2>1, <2>2, AdoptTyped DEF TokenInv
    <2> QED
      BY <2>1, <2>2, <2>3, EndKeepsInv DEF Critical
  <1>5. CASE CommitSaved(m)
    <2> DEFINE g == IF SwitchedAccount(m) /\ kind[m] # "validate" THEN None ELSE bundle[m].account
    <2>1. /\ pc[m] = "commit" /\ Return(m, g) /\ lock' = None
          /\ keyring' = bundle[m] /\ token' = [token EXCEPT ![m] = bundle[m]]
          /\ abandoned' = abandoned /\ late' = late /\ issued' = issued
          /\ presented' = presented /\ reused' = reused
      BY <1>5 DEF CommitSaved, MaySave, serverVars
    <2> HIDE DEF g
    <2>2. /\ bundle[m] \in MaybeToken /\ bundle[m].n <= issued
          /\ bundle[m] \notin presented \cup abandoned
          /\ \A k \in Managers : k # m => bundle[k] # bundle[m]
      BY <2>1, CommitFacts DEF MaybeToken
    <2>3. token' \in [Managers -> MaybeToken]
      BY <2>1, <2>2 DEF TokenInv, TokenTypes
    <2> QED
      BY <2>1, <2>2, <2>3, EndKeepsInv DEF Critical
  <1>6. CASE CommitSaveTimesOut(m)
    <2>1. /\ pc[m] = "commit" /\ Return(m, None) /\ lock' = lock /\ ClearLocal(m, TRUE)
          /\ late' = [kind |-> "save", token |-> bundle[m], over |-> expected[m]]
          /\ abandoned' = abandoned \cup {bundle[m]} /\ keyring' = keyring
          /\ issued' = issued /\ presented' = presented /\ reused' = reused
      BY <1>6 DEF CommitSaveTimesOut, MaySave, Abandon, Fails, serverVars
    <2>2. bundle[m] \in MaybeToken /\ bundle[m] # NoToken /\ expected[m] \in MaybeToken
      BY <2>1, CommitFacts, TokenFacts DEF MaybeToken
    <2>3. /\ late' \in [kind : {"save", "delete"}, token : MaybeToken, over : MaybeToken]
          /\ late'.token \in abandoned'
      BY <2>1, <2>2
    <2>4. token' \in [Managers -> MaybeToken]
      BY <2>1, ClearTyped DEF TokenInv
    <2> QED
      BY <2>1, <2>2, <2>3, <2>4, LateKeepsInv DEF Critical
  <1> QED
    BY <1>1, <1>2, <1>3, <1>4, <1>5, <1>6 DEF Commit

LEMMA ClearKeeps ==
    ASSUME TokenInv, NoLeftovers, NEW m \in Managers, Clear(m)
    PROVE  TokenInv'
  <1>1. CASE Discard(m)
    <2>1. /\ pc[m] = "discard" /\ Return(m, None) /\ lock' = None /\ ClearLocal(m, FALSE)
          /\ keyring' = (IF Matches(m) THEN NoToken ELSE keyring)
          /\ abandoned' = abandoned /\ late' = late /\ issued' = issued
          /\ presented' = presented /\ reused' = reused
      BY <1>1 DEF Discard, Fails, serverVars
    <2>2. /\ keyring' \in MaybeToken /\ keyring' \notin presented \cup abandoned
          /\ \A k \in Managers : k # m /\ bundle[k] # NoToken => bundle[k] # keyring'
      BY <2>1, CommitFacts, TokenFacts DEF Matches, MaybeToken, TokenInv, TokenTypes
    <2>3. keyring'.n <= issued
      BY <2>1, CommitFacts, TokenFacts, SessionAssumption DEF TokenInv, TokenTypes
    <2>4. token' \in [Managers -> MaybeToken]
      BY <2>1, ClearTyped DEF TokenInv
    <2> QED
      BY <2>1, <2>2, <2>3, <2>4, EndKeepsInv DEF Critical
  <1>2. CASE DiscardFails(m)
    BY <1>2 DEF DiscardFails, NoLeftovers
  <1>3. CASE DiscardTimesOut(m)
    <2>1. /\ pc[m] = "discard" /\ Return(m, None) /\ lock' = lock /\ ClearLocal(m, TRUE)
          /\ late' = [kind |-> "delete", token |-> expected[m], over |-> expected[m]]
          /\ abandoned' = abandoned /\ keyring' = keyring
          /\ issued' = issued /\ presented' = presented /\ reused' = reused
      BY <1>3 DEF DiscardTimesOut, Fails, serverVars
    <2>2. /\ late' \in [kind : {"save", "delete"}, token : MaybeToken, over : MaybeToken]
          /\ late'.kind # "save"
      BY <2>1, CommitFacts
    <2>3. token' \in [Managers -> MaybeToken]
      BY <2>1, ClearTyped DEF TokenInv
    <2> QED
      BY <2>1, <2>2, <2>3, LateKeepsInv DEF Critical
  <1> QED
    BY <1>1, <1>2, <1>3 DEF Clear

(* The late call ends and frees the lock.                                  *)
LEMMA LateEndKeeps ==
    ASSUME TokenInv, late.kind # "none", late' = NoLate, lock' = None, keyring' = NoToken,
           token' = token, pc' = pc, kind' = kind, expected' = expected, bundle' = bundle,
           issued' = issued, presented' = presented, reused' = reused, abandoned' = abandoned
    PROVE  TokenInv'
  <1>1. \A m \in Managers : pc[m] \notin Critical
    BY DEF TokenInv, Exclusion
  <1>2. TokenTypes'
    BY DEF TokenInv, TokenTypes, NoLate, MaybeToken
  <1>3. Exclusion'
    BY <1>1 DEF Exclusion, NoLate
  <1>4. Issued'
    BY TokenFacts DEF TokenInv, TokenTypes, Issued
  <1>5. Fresh'
    BY DEF TokenInv, Fresh
  <1>6. Stored'
    BY <1>1, TokenFacts DEF TokenInv, TokenTypes, Stored, Critical, NoLate
  <1> QED
    BY <1>2, <1>3, <1>4, <1>5, <1>6 DEF TokenInv

LEMMA LateKeepsTokens ==
    ASSUME TokenInv, NoLeftovers, LateSave \/ LateCleanup \/ LateDelete
    PROVE  TokenInv'
  <1>1. CASE LateSave
    <2>0. /\ late.kind = "save" /\ keyring' = late.token
          /\ late' = [kind |-> "cleanup", token |-> late.token, over |-> late.over]
          /\ lock' = lock /\ token' = token /\ pc' = pc /\ kind' = kind
          /\ expected' = expected /\ bundle' = bundle /\ issued' = issued
          /\ presented' = presented /\ reused' = reused /\ abandoned' = abandoned
      BY <1>1 DEF LateSave, NoLeftovers, stateVars, opVars, serverVars
    <2>1. late.token \in abandoned /\ lock # None /\ late.token \in Tokens
      BY <2>0 DEF TokenInv, TokenTypes, Stored, Exclusion
    <2>2. \A m \in Managers : pc[m] \notin Critical
      BY <2>0 DEF TokenInv, Exclusion
    <2>3. TokenTypes'
      BY <2>0, <2>1 DEF TokenInv, TokenTypes, MaybeToken
    <2>4. Exclusion' /\ Issued'
      BY <2>0, <2>1, <2>2 DEF TokenInv, TokenTypes, Exclusion, Issued
    <2>5. Fresh'
      BY <2>0, <2>1 DEF TokenInv, Fresh
    <2>6. Stored'
      BY <2>0, <2>1, <2>2 DEF TokenInv, Stored, Critical
    <2> QED
      BY <2>0, <2>3, <2>4, <2>5, <2>6 DEF TokenInv
  <1>2. CASE LateCleanup
    BY <1>2, LateEndKeeps
    DEF LateCleanup, NoLeftovers, TokenInv, Stored, stateVars, opVars, serverVars
  <1>3. CASE LateDelete
    BY <1>3, LateEndKeeps
    DEF LateDelete, NoLeftovers, stateVars, opVars, serverVars
  <1> QED
    BY <1>1, <1>2, <1>3

(* The session of a completed exchange is new to everyone.                 *)
LEMMA FinishExchangeKeepsTokens ==
    ASSUME TokenInv, NEW m \in Managers, FinishExchange(m)
    PROVE  TokenInv'
  <1>0. /\ pc[m] = "idle" /\ issued < MaxTokens /\ issued' = issued + 1
        /\ token' = token /\ keyring' = keyring /\ lock' = lock /\ late' = late
        /\ presented' = presented /\ reused' = reused
    BY DEF FinishExchange, stateVars, sharedVars
  <1>1. issued \in Nat /\ issued + 1 \in 1..MaxTokens /\ \A t \in MaybeToken : t.n \in Nat
    BY <1>0, TokenFacts, SessionAssumption DEF TokenInv, TokenTypes
  <1>2. PICK new \in Tokens :
          /\ new.n = issued + 1
          /\ \/ /\ abandoned' = abandoned \cup {new}
                /\ pc' = pc /\ kind' = kind /\ expected' = expected /\ bundle' = bundle
             \/ /\ StartOperation(m, "login") /\ bundle' = [bundle EXCEPT ![m] = new]
                /\ expected' = [expected EXCEPT ![m] = token[m]] /\ abandoned' = abandoned
    BY <1>1, TokenFacts DEF FinishExchange, opVars
  <1>3. /\ new \notin presented \cup abandoned /\ new # keyring /\ new # NoToken
        /\ new \in MaybeToken /\ \A k \in Managers : bundle[k] # new
    BY <1>1, <1>2, TokenFacts DEF TokenInv, Issued, MaybeToken
  <1>4. Issued'
    <2>1. \A k \in Managers : bundle'[k].n <= issued + 1
      BY <1>1, <1>2 DEF TokenInv, TokenTypes, Issued
    <2>2. \A t \in presented' \cup abandoned' : t.n <= issued + 1
      BY <1>0, <1>1, <1>2 DEF TokenInv, TokenTypes, Issued, MaybeToken
    <2> QED
      BY <2>1, <2>2, <1>0, <1>1 DEF TokenInv, TokenTypes, Issued
  <1>5. CASE abandoned' = abandoned \cup {new}
             /\ pc' = pc /\ kind' = kind /\ expected' = expected /\ bundle' = bundle
    <2>1. TokenTypes' /\ Exclusion'
      BY <1>0, <1>1, <1>2, <1>5 DEF TokenInv, TokenTypes, Exclusion
    <2>2. Fresh' /\ Stored'
      BY <1>0, <1>3, <1>5 DEF TokenInv, Fresh, Stored
    <2> QED
      BY <1>0, <1>4, <2>1, <2>2 DEF TokenInv
  <1>6. CASE /\ StartOperation(m, "login") /\ bundle' = [bundle EXCEPT ![m] = new]
             /\ expected' = [expected EXCEPT ![m] = token[m]] /\ abandoned' = abandoned
    <2>0. pc' = [pc EXCEPT ![m] = "acquire"] /\ kind' = [kind EXCEPT ![m] = "login"]
      BY <1>6 DEF StartOperation
    <2>1. TokenTypes'
      BY <1>0, <1>1, <1>3, <1>6, <2>0 DEF TokenInv, TokenTypes
    <2>2. Exclusion'
      BY <1>0, <2>0 DEF TokenInv, TokenTypes, Exclusion, Critical
    <2>3. Fresh'
      <3>1. \A k \in Managers : /\ bundle'[k] = IF k = m THEN new ELSE bundle[k]
                                /\ pc'[k] = IF k = m THEN "acquire" ELSE pc[k]
                                /\ kind'[k] = IF k = m THEN "login" ELSE kind[k]
        BY <1>6, <2>0 DEF TokenInv, TokenTypes
      <3> QED
        BY <3>1, <1>0, <1>3, <1>6 DEF TokenInv, Fresh
    <2>4. Stored'
      BY <1>0, <1>6, <2>0 DEF TokenInv, TokenTypes, Stored
    <2> QED
      BY <1>0, <1>4, <2>1, <2>2, <2>3, <2>4 DEF TokenInv
  <1> QED
    BY <1>2, <1>5, <1>6

LEMMA LoginKeeps ==
    ASSUME TokenInv, NEW m \in Managers,
           StartNativeLogin(m) \/ LoginStartFails(m) \/ CancelLogin(m)
    PROVE  TokenInv'
  <1>1. token' \in [Managers -> MaybeToken]
    BY AdoptTyped, ClearTyped
    DEF StartNativeLogin, LoginStartFails, CancelLogin, TokenInv, TokenTypes, stateVars
  <1> QED
    BY <1>1, FrameKeepsInv
    DEF StartNativeLogin, LoginStartFails, CancelLogin, opVars, sharedVars, serverVars

LEMMA LogoutKeepsTokens ==
    ASSUME TokenInv, NEW m \in Managers, LogoutRefresh(m) \/ Logout(m)
    PROVE  TokenInv'
  <1>1. CASE LogoutRefresh(m)
    BY <1>1, StartKeepsInv DEF LogoutRefresh, stateVars, sharedVars, serverVars
  <1>2. CASE Logout(m)
    BY <1>2, StartKeepsInv DEF Logout, StartClear, stateVars, sharedVars, serverVars
  <1> QED
    BY <1>1, <1>2

LEMMA ValidateKeepsTokens ==
    ASSUME TokenInv, NEW m \in Managers, Validate(m)
    PROVE  TokenInv'
  <1>1. CASE \/ ValidateCached(m) \/ ReadGeneration(m) \/ ValidateOk(m)
             \/ ValidateUnavailable(m) \/ ValidateRefused(m)
    <2>1. token' = token
      BY <1>1 DEF ValidateCached, ReadGeneration, ValidateOk, ValidateUnavailable,
                  ValidateRefused, stateVars
    <2> QED
      BY <1>1, <2>1, FrameKeepsInv
      DEF ValidateCached, ReadGeneration, ValidateOk, ValidateUnavailable, ValidateRefused,
          opVars, sharedVars, serverVars, TokenInv, TokenTypes
  <1>2. CASE ValidateRefresh(m)
    BY <1>2, StartKeepsInv DEF ValidateRefresh, stateVars, sharedVars, serverVars
  <1>3. CASE ClearIfGeneration(m)
    <2>1. CASE generation[m] = read[m]
      BY <1>3, <2>1, StartKeepsInv
      DEF ClearIfGeneration, StartClear, stateVars, sharedVars, serverVars
    <2>2. CASE generation[m] # read[m]
      BY <1>3, <2>2, FrameKeepsInv
      DEF ClearIfGeneration, stateVars, opVars, sharedVars, serverVars, TokenInv, TokenTypes
    <2> QED
      BY <2>1, <2>2
  <1> QED
    BY <1>1, <1>2, <1>3 DEF Validate

LEMMA WorkKeepsTokens ==
    ASSUME TokenInv, NEW m \in Managers,
           RegisterWork(m) \/ LeaseCached(m) \/ LeaseRefresh(m) \/ EndWork(m)
    PROVE  TokenInv'
  <1>1. CASE RegisterWork(m) \/ LeaseCached(m) \/ EndWork(m)
    BY <1>1, FrameKeepsInv
    DEF RegisterWork, LeaseCached, EndWork, stateVars, opVars, sharedVars, serverVars,
        TokenInv, TokenTypes
  <1>2. CASE LeaseRefresh(m)
    BY <1>2, StartKeepsInv DEF LeaseRefresh, stateVars, sharedVars, serverVars
  <1> QED
    BY <1>1, <1>2

-----------------------------------------------------------------------------
LEMMA NextKeepsTokenInv ==
    ASSUME TokenInv, NoLeftovers, [Next]_vars
    PROVE  TokenInv'
  <1>1. ASSUME NEW m \in Managers, Refresh(m) PROVE TokenInv'
    <2>1. CASE LoadFails(m)
      BY <2>1 DEF LoadFails, NoLeftovers
    <2> QED
      BY <1>1, <2>1, LoadRefusesKeepsTokens, LoadKeepsTokens, RefreshAnsweredKeepsTokens,
         RefreshLostKeepsTokens
      DEF Refresh
  <1>2. ASSUME NEW m \in Managers,
               \/ Acquire(m) \/ AcquireFails(m) \/ Commit(m) \/ Clear(m)
               \/ StartNativeLogin(m) \/ LoginStartFails(m) \/ CancelLogin(m)
               \/ FinishExchange(m) \/ LogoutRefresh(m) \/ Logout(m)
        PROVE  TokenInv'
    BY <1>2, AcquireKeepsTokens, AcquireFailsKeepsTokens, CommitKeeps, ClearKeeps, LoginKeeps,
       FinishExchangeKeepsTokens, LogoutKeepsTokens
  <1>3. ASSUME NEW m \in Workers,
               \/ Validate(m) \/ RegisterWork(m) \/ LeaseCached(m)
               \/ LeaseRefresh(m) \/ EndWork(m)
        PROVE  TokenInv'
    <2>1. m \in Managers
      BY SessionAssumption
    <2> QED
      BY <1>3, <2>1, ValidateKeepsTokens, WorkKeepsTokens
  <1>4. CASE LateSave \/ LateCleanup \/ LateDelete
    BY <1>4, LateKeepsTokens
  <1>5. CASE UNCHANGED vars
    BY <1>5, FrameKeepsInv
    DEF vars, stateVars, opVars, sharedVars, serverVars, TokenInv, TokenTypes
  <1> QED
    BY <1>1, <1>2, <1>3, <1>4, <1>5 DEF Next

(* Whatever the interleaving of the processes' refreshes, logins,          *)
(* sign-outs and late keyring calls, the invariant holds as long as no     *)
(* keyring fault leaves a consumed credential behind.                      *)
THEOREM TokenInvariant == ASSUME NoLeftovers PROVE Spec => []TokenInv
  <1>1. TokenInv /\ [Next]_vars => TokenInv'
    BY NextKeepsTokenInv
  <1> QED
    BY <1>1, InitTokenInv, PTL DEF Spec

(* No two refresh requests, of any processes, carry the same token: the    *)
(* audience lock, the comparison with the keyring before a commit, and the *)
(* removal of a token whose answer was lost together suffice               *)
(* (refresh_under_lock, auth.rs).                                          *)
THEOREM NoTokenIsReused == ASSUME NoLeftovers PROVE Spec => []NoTokenReuse
  <1>1. TokenInv => NoTokenReuse
    BY DEF TokenInv, NoTokenReuse
  <1> QED
    BY <1>1, TokenInvariant, PTL

(* Whoever takes the audience lock finds a credential that was neither     *)
(* presented nor revoked, or none: every early return of the commit and of *)
(* the discard, and the late keyring calls, leave it so.                   *)
THEOREM KeyringStaysUsable == ASSUME NoLeftovers PROVE Spec => []KeyringIsUsable
  <1>1. TokenInv => KeyringIsUsable
    BY DEF TokenInv, Stored, KeyringIsUsable
  <1> QED
    BY <1>1, TokenInvariant, PTL

-----------------------------------------------------------------------------
(* The identities.                                                         *)

Rotations == {"work", "validate", "logout"}

(* start_native_login can clear this manager under a running rotation.     *)
LoginsReachKeyring == Faults \cap {"lock", "load"} = {}

-----------------------------------------------------------------------------
(* Their inductive invariant.                                              *)

StateTypes ==
    /\ token \in [Managers -> MaybeToken]
    /\ access \in [Managers -> MaybeAccount] /\ account \in [Managers -> MaybeAccount]
    /\ pending \in [Managers -> BOOLEAN] /\ unavailable \in [Managers -> BOOLEAN]
    /\ generation \in [Managers -> 0..MaxGeneration]

OpTypes ==
    /\ pc \in [Managers -> {"idle", "acquire", "send", "commit", "discard"}]
    /\ kind \in [Managers -> {"none", "work", "validate", "logout", "login", "clear"}]
    /\ expected \in [Managers -> MaybeToken] /\ bundle \in [Managers -> MaybeToken]
    /\ previous \in [Managers -> MaybeAccount] /\ changed \in [Managers -> BOOLEAN]

ValTypes ==
    /\ login \in [Managers -> 0..MaxGeneration \cup {None}]
    /\ val \in [Managers -> {"idle", "leasing", "leased", "asked", "clearing"}]
    /\ bearer \in [Managers -> MaybeAccount] /\ read \in [Managers -> 0..MaxGeneration]

SharedTypes ==
    /\ keyring \in MaybeToken /\ lock \in Managers \cup {None}
    /\ late \in [kind : {"none", "save", "cleanup", "delete"}, token : MaybeToken,
                 over : MaybeToken]

ServerTypes ==
    /\ issued \in 0..MaxTokens
    /\ presented \subseteq Tokens /\ reused \subseteq Tokens /\ abandoned \subseteq Tokens

WorkTypes ==
    /\ home \in [Managers -> MaybeAccount] /\ strays \subseteq Managers
    /\ told \in [Managers -> BOOLEAN]

(* A cached bearer is one of the account that is known.                    *)
Cached == \A m \in Managers : access[m] # None => access[m] = account[m]

(* Which operation is where.                                               *)
Kinds ==
    \A m \in Managers :
        /\ pc[m] = "idle" <=> kind[m] = "none"
        /\ pc[m] = "send" => kind[m] \in Rotations
        /\ pc[m] = "commit" => kind[m] \in Rotations \cup {"login"}

(* A rotation has read a credential, a commit has a bundle, and a rotation *)
(* past its request has presented what it read.                            *)
Bundles ==
    \A m \in Managers :
        /\ pc[m] = "send" => expected[m] # NoToken
        /\ pc[m] = "commit" \/ kind[m] = "login" => bundle[m] # NoToken
        /\ kind[m] \in Rotations /\ pc[m] \in {"commit", "discard"} => expected[m] \in presented

(* How often the operation may still change the identity: a peer's         *)
(* credential is adopted when it is read or when it is answered, not both. *)
StillChanges(m) ==
    IF kind[m] = "none" THEN 0
    ELSE IF \/ kind[m] \in {"login", "clear"} \/ pc[m] \in {"commit", "discard"}
            \/ pc[m] = "send" /\ ~SwitchedAccount(m)
         THEN 1 ELSE 2

Room == \A m \in Managers : generation[m] + StillChanges(m) <= MaxGeneration

(* The lock: its critical sections, the late call included, exclude each   *)
(* other, and the late call finds what it was started on.                  *)
Exclusive ==
    /\ \A m \in Managers : pc[m] \in Critical => lock = m /\ late.kind = "none"
    /\ late.kind # "none" => lock # None
    /\ late.kind = "save" => keyring = late.over
    /\ late.kind \in {"cleanup", "delete"} => keyring = late.token

(* Work whose manager stands for another account finds it marked, unless   *)
(* it was told: only a manager that was cleared is unmarked and unknown,   *)
(* and no rotation of it is under way.                                     *)
Marked ==
    LoginsReachKeyring =>
        \A m \in Managers : home[m] # None /\ ~told[m] /\ ~pending[m] =>
            \/ account[m] = home[m]
            \/ /\ account[m] = None /\ token[m] = NoToken
               /\ ~(kind[m] \in Rotations /\ pc[m] \in {"send", "commit"})

Types == StateTypes /\ OpTypes /\ ValTypes /\ SharedTypes /\ ServerTypes /\ WorkTypes

IInv == Types /\ Cached /\ Kinds /\ Bundles /\ Room /\ Exclusive /\ Marked

(* What a step may do to an identity, and to the stored credential.        *)
Named ==
    \A m \in Managers :
        account[m] # None /\ account'[m] # account[m] => generation'[m] # generation[m]

Meant ==
    keyring' # keyring /\ keyring # NoToken =>
        \/ keyring \in presented \cup abandoned
        \/ \E m \in Managers :
             lock = m /\ kind[m] \in {"clear", "login"} /\ keyring = expected[m]
        \/ late # NoLate /\ keyring \in {late.over, late.token}

-----------------------------------------------------------------------------
LEMMA AccountFacts ==
    /\ NoToken \notin Tokens /\ NoToken \in MaybeToken /\ Tokens \subseteq MaybeToken
    /\ \A t \in MaybeToken : t # NoToken => t \in Tokens /\ t.account \in Accounts
    /\ \A a \in Accounts, i \in 1..MaxTokens :
         [account |-> a, n |-> i] \in Tokens /\ [account |-> a, n |-> i].account = a
    /\ None \notin Accounts /\ None \in MaybeAccount /\ Accounts \subseteq MaybeAccount
  BY SessionAssumption DEF Tokens, NoToken, MaybeToken, MaybeAccount

LEMMA InitIInv == Init => IInv
  <1> SUFFICES ASSUME Init PROVE IInv
    OBVIOUS
  <1>1. PICK t \in {NoToken} \cup [account : Accounts, n : {1}] :
          keyring = t /\ issued = t.n /\ token \in [Managers -> {NoToken, t}]
    BY DEF Init
  <1>2. t \in MaybeToken /\ t.n \in 0..MaxTokens
    BY <1>1, SessionAssumption DEF MaybeToken, Tokens, NoToken
  <1>3. token \in [Managers -> MaybeToken]
    BY <1>1, <1>2, AccountFacts
  <1>4. StateTypes /\ OpTypes /\ ValTypes
    BY <1>3, AccountFacts, SessionAssumption DEF Init, StateTypes, OpTypes, ValTypes
  <1>5. SharedTypes /\ ServerTypes /\ WorkTypes
    BY <1>1, <1>2, AccountFacts DEF Init, SharedTypes, ServerTypes, WorkTypes, NoLate
  <1>6. Cached /\ Kinds /\ Bundles /\ Marked
    BY DEF Init, Cached, Kinds, Bundles, Marked
  <1>7. Room
    <2> SUFFICES ASSUME NEW m \in Managers
                 PROVE  generation[m] + StillChanges(m) <= MaxGeneration
      BY DEF Room
    <2>1. generation[m] = 0 /\ kind[m] = "none"
      BY DEF Init
    <2>2. StillChanges(m) = 0
      BY <2>1 DEF StillChanges
    <2> QED
      BY <2>1, <2>2, SessionAssumption
  <1>8. Exclusive
    BY DEF Init, Exclusive, Critical, NoLate
  <1> QED
    BY <1>4, <1>5, <1>6, <1>7, <1>8 DEF IInv, Types

-----------------------------------------------------------------------------
(* What the parts of an action do.                                         *)

(* Clearing the session and adopting a credential both change the          *)
(* identity of this manager and of no other, in a new generation.          *)
LEMMA ClearStep ==
    ASSUME IInv, NEW m \in Managers, NEW f \in BOOLEAN, ClearLocal(m, f),
           generation[m] + 1 <= MaxGeneration
    PROVE  StateTypes' /\ Cached' /\ Named
  <1> USE AccountFacts DEF IInv, Types, StateTypes, ClearLocal
  <1>1. StateTypes'
    BY SessionAssumption
  <1>2. Cached'
    BY DEF Cached
  <1>3. Named
    BY DEF Named
  <1> QED
    BY <1>1, <1>2, <1>3

LEMMA AdoptStep ==
    ASSUME IInv, NEW m \in Managers, NEW t \in MaybeToken, AdoptExternal(m, t),
           generation[m] + 1 <= MaxGeneration
    PROVE  StateTypes' /\ Cached' /\ Named
  <1> USE AccountFacts DEF IInv, Types, StateTypes, AdoptExternal
  <1>1. StateTypes'
    <2>1. (t # NoToken) \in BOOLEAN
      OBVIOUS
    <2> QED
      BY <2>1, SessionAssumption
  <1>2. Cached'
    BY DEF Cached
  <1>3. Named
    BY DEF Named
  <1> QED
    BY <1>1, <1>2, <1>3

(* An operation that is under way has room for one more change.            *)
LEMMA OneMore ==
    ASSUME IInv, NEW m \in Managers, kind[m] # "none"
    PROVE  generation[m] + 1 <= MaxGeneration
  BY SessionAssumption DEF IInv, Types, StateTypes, Room, StillChanges

(* An operation that ends, having changed its own manager's identity at    *)
(* most once, leaves the operations of the others alone.                   *)
LEMMA EndStep ==
    ASSUME IInv, NEW m \in Managers, NEW g \in MaybeAccount, Return(m, g),
           kind[m] # "none", StateTypes',
           \A k \in Managers \ {m} : generation'[k] = generation[k],
           presented \subseteq presented', UNCHANGED <<login, read, home>>
    PROVE  OpTypes' /\ ValTypes' /\ strays' \subseteq Managers /\ Kinds' /\ Bundles' /\ Room'
  <1> USE AccountFacts DEF IInv, Types
  <1>0. /\ pc' = [pc EXCEPT ![m] = "idle"] /\ kind' = [kind EXCEPT ![m] = "none"]
        /\ bundle' = [bundle EXCEPT ![m] = NoToken]
        /\ expected' = [expected EXCEPT ![m] = NoToken]
        /\ previous' = [previous EXCEPT ![m] = None]
        /\ changed' = [changed EXCEPT ![m] = FALSE]
    BY DEF Return
  <1>1. OpTypes'
    BY <1>0 DEF OpTypes
  <1>2. ValTypes'
    BY DEF Return, ValTypes
  <1>3. strays' \subseteq Managers
    BY DEF Return, WorkTypes, Strays
  <1>4. Kinds'
    BY <1>0 DEF Kinds, OpTypes
  <1>5. Bundles'
    BY <1>0 DEF Bundles, OpTypes, Rotations
  <1>6. Room'
    <2> SUFFICES ASSUME NEW k \in Managers
                 PROVE  generation'[k] + StillChanges(k)' <= MaxGeneration
      BY DEF Room
    <2>1. CASE k = m
      <3>1. kind'[k] = "none"
        BY <1>0, <2>1 DEF OpTypes
      <3>2. StillChanges(k)' = 0
        BY <3>1 DEF StillChanges
      <3> QED
        BY <3>2, SessionAssumption DEF StateTypes
    <2>2. CASE k # m
      <3>1. /\ kind'[k] = kind[k] /\ pc'[k] = pc[k] /\ expected'[k] = expected[k]
            /\ previous'[k] = previous[k] /\ changed'[k] = changed[k]
        BY <1>0, <2>2 DEF OpTypes
      <3>2. StillChanges(k)' = StillChanges(k)
        BY <3>1 DEF StillChanges, SwitchedAccount
      <3> QED
        BY <2>2, <3>2 DEF Room
    <2> QED
      BY <2>1, <2>2
  <1> QED
    BY <1>1, <1>2, <1>3, <1>4, <1>5, <1>6

(* An operation that starts takes the room its kind asks for.              *)
LEMMA StartStep ==
    ASSUME IInv, NEW m \in Managers, NEW k \in Rotations \cup {"login", "clear"},
           StartOperation(m, k), UNCHANGED <<stateVars, sharedVars, presented, home, told>>,
           expected' \in [Managers -> MaybeToken],
           bundle' \in [Managers -> MaybeToken],
           \A i \in Managers \ {m} : expected'[i] = expected[i] /\ bundle'[i] = bundle[i],
           k = "login" => bundle'[m] # NoToken
    PROVE  /\ StateTypes' /\ OpTypes' /\ SharedTypes' /\ Cached' /\ Kinds' /\ Bundles'
           /\ Room' /\ Exclusive' /\ Marked' /\ Named /\ Meant
  <1> USE AccountFacts DEF IInv, Types, stateVars, sharedVars
  <1>0. /\ pc' = [pc EXCEPT ![m] = "acquire"] /\ kind' = [kind EXCEPT ![m] = k]
        /\ UNCHANGED <<previous, changed>>
        /\ pc[m] = "idle" /\ kind[m] = "none"
    BY DEF StartOperation, Kinds
  <1>1. StateTypes' /\ SharedTypes' /\ Cached' /\ Named /\ Meant
    BY DEF StateTypes, SharedTypes, Cached, Named, Meant
  <1>2. OpTypes'
    BY <1>0 DEF OpTypes, Rotations
  <1>3. Kinds'
    BY <1>0 DEF Kinds, OpTypes, Rotations
  <1>4. Bundles'
    BY <1>0 DEF Bundles, OpTypes, Rotations
  <1>5. Room'
    <2> SUFFICES ASSUME NEW i \in Managers
                 PROVE  generation'[i] + StillChanges(i)' <= MaxGeneration
      BY DEF Room
    <2>1. CASE i = m
      <3>1. generation[m] + Changes(k) <= MaxGeneration
        BY <1>0, SessionAssumption DEF StartOperation, HasRoom, Changes, StateTypes, Rotations
      <3>2. StillChanges(i)' <= Changes(k)
        <4>1. kind'[i] = k /\ pc'[i] = "acquire"
          BY <1>0, <2>1 DEF OpTypes
        <4> QED
          BY <4>1 DEF StillChanges, Changes, Rotations
      <3>3. StillChanges(i)' \in Nat /\ Changes(k) \in Nat
        BY DEF StillChanges, Changes
      <3> QED
        BY <2>1, <3>1, <3>2, <3>3, SessionAssumption DEF StateTypes
    <2>2. CASE i # m
      <3>1. /\ kind'[i] = kind[i] /\ pc'[i] = pc[i] /\ expected'[i] = expected[i]
            /\ previous'[i] = previous[i] /\ changed'[i] = changed[i]
        BY <1>0, <2>2 DEF OpTypes
      <3>2. StillChanges(i)' = StillChanges(i)
        BY <3>1 DEF StillChanges, SwitchedAccount
      <3> QED
        BY <3>2 DEF Room
    <2> QED
      BY <2>1, <2>2
  <1>6. Exclusive'
    BY <1>0 DEF Exclusive, OpTypes, Critical
  <1>7. Marked'
    BY <1>0 DEF Marked, OpTypes
  <1> QED
    BY <1>1, <1>2, <1>3, <1>4, <1>5, <1>6, <1>7

(* An operation that ends cleared, or with a peer's credential adopted,    *)
(* leaves its manager unknown: to work it is marked, or has no credential. *)
LEMMA EndCleared ==
    ASSUME IInv, NEW m \in Managers, NEW f \in BOOLEAN, ClearLocal(m, f), Fails(m),
           kind[m] # "none", presented \subseteq presented'
    PROVE  /\ StateTypes' /\ OpTypes' /\ ValTypes' /\ WorkTypes' /\ Cached' /\ Kinds'
           /\ Bundles' /\ Room' /\ Marked' /\ Named
  <1> USE DEF Fails
  <1>1. StateTypes' /\ Cached' /\ Named
    BY OneMore, ClearStep
  <1>2. \A k \in Managers \ {m} : generation'[k] = generation[k]
    BY DEF IInv, Types, StateTypes, ClearLocal
  <1>3. OpTypes' /\ ValTypes' /\ strays' \subseteq Managers /\ Kinds' /\ Bundles' /\ Room'
    BY <1>1, <1>2, AccountFacts, EndStep
  <1>4. WorkTypes'
    BY <1>3 DEF IInv, Types, WorkTypes
  <1>5. Marked'
    BY DEF IInv, Types, StateTypes, OpTypes, Marked, ClearLocal, Return
  <1> QED
    BY <1>1, <1>3, <1>4, <1>5

LEMMA EndAdopted ==
    ASSUME IInv, NEW m \in Managers, NEW t \in MaybeToken, AdoptExternal(m, t), Fails(m),
           kind[m] # "none", presented \subseteq presented'
    PROVE  /\ StateTypes' /\ OpTypes' /\ ValTypes' /\ WorkTypes' /\ Cached' /\ Kinds'
           /\ Bundles' /\ Room' /\ Marked' /\ Named
  <1> USE DEF Fails
  <1>1. StateTypes' /\ Cached' /\ Named
    BY OneMore, AdoptStep
  <1>2. \A k \in Managers \ {m} : generation'[k] = generation[k]
    BY DEF IInv, Types, StateTypes, AdoptExternal
  <1>3. OpTypes' /\ ValTypes' /\ strays' \subseteq Managers /\ Kinds' /\ Bundles' /\ Room'
    BY <1>1, <1>2, AccountFacts, EndStep
  <1>4. WorkTypes'
    BY <1>3 DEF IInv, Types, WorkTypes
  <1>5. Marked'
    <2>1. /\ account'[m] = None /\ token'[m] = t /\ pending'[m] = (t # NoToken)
          /\ pc'[m] = "idle"
      BY DEF IInv, Types, StateTypes, OpTypes, AdoptExternal, Return
    <2>2. \A k \in Managers \ {m} :
            /\ account'[k] = account[k] /\ token'[k] = token[k] /\ pending'[k] = pending[k]
            /\ pc'[k] = pc[k] /\ kind'[k] = kind[k]
      BY DEF IInv, Types, StateTypes, OpTypes, AdoptExternal, Return
    <2> QED
      BY <2>1, <2>2 DEF IInv, Marked
  <1> QED
    BY <1>1, <1>3, <1>4, <1>5

(* The operation frees the lock, or leaves it to a late call.              *)
LEMMA EndExclusion ==
    ASSUME IInv, NEW m \in Managers, NEW g, Return(m, g),
           \/ UNCHANGED sharedVars
           \/ pc[m] \in Critical /\ lock' = None /\ late' = late
           \/ /\ pc[m] \in Critical /\ lock' = lock /\ keyring' = keyring
              /\ \/ late'.kind = "save" /\ late'.over = keyring
                 \/ late'.kind = "delete" /\ late'.token = keyring
    PROVE  Exclusive'
  <1>1. pc' = [pc EXCEPT ![m] = "idle"]
    BY DEF Return
  <1>2. \A k \in Managers : pc'[k] \in Critical => k # m /\ pc[k] \in Critical
    BY <1>1 DEF IInv, Types, OpTypes, Critical
  <1>3. pc[m] \in Critical => \A k \in Managers : pc'[k] \notin Critical
    BY <1>2 DEF IInv, Exclusive
  <1>4. pc[m] \in Critical => lock # None /\ late.kind = "none"
    BY SessionAssumption DEF IInv, Exclusive
  <1> QED
    BY <1>2, <1>3, <1>4 DEF IInv, Exclusive, sharedVars

-----------------------------------------------------------------------------
(* The steps of an operation keep the invariant, name identities and touch *)
(* the stored credential only when they mean it.                           *)

LEMMA AcquireKeeps ==
    ASSUME IInv, NEW m \in Managers, Acquire(m)
    PROVE  IInv' /\ Named /\ Meant
  <1> USE AccountFacts DEF IInv, Types, Acquire, stateVars, valVars, serverVars, workVars
  <1>1. /\ StateTypes' /\ ValTypes' /\ ServerTypes' /\ WorkTypes' /\ Cached'
        /\ Named /\ Meant
    BY DEF StateTypes, ValTypes, ServerTypes, WorkTypes, Cached, Named, Meant
  <1>2. OpTypes' /\ SharedTypes'
    BY DEF OpTypes, SharedTypes
  <1>3. Kinds' /\ Bundles' /\ Marked'
    BY DEF OpTypes, Kinds, Bundles, Marked, Rotations
  <1>4. Room'
    BY DEF OpTypes, Room, StillChanges, SwitchedAccount
  <1>5. Exclusive'
    BY SessionAssumption DEF OpTypes, Exclusive, Critical
  <1> QED
    BY <1>1, <1>2, <1>3, <1>4, <1>5

LEMMA AcquireFailsKeeps ==
    ASSUME IInv, NEW m \in Managers, AcquireFails(m)
    PROVE  IInv' /\ Named /\ Meant
  <1> USE DEF AcquireFails
  <1>1. kind[m] # "none"
    BY DEF IInv, Kinds
  <1>2. /\ StateTypes' /\ OpTypes' /\ ValTypes' /\ WorkTypes' /\ Cached' /\ Kinds'
        /\ Bundles' /\ Room' /\ Marked' /\ Named
    BY <1>1, EndCleared DEF serverVars
  <1>3. Exclusive'
    BY EndExclusion DEF Fails
  <1>4. SharedTypes' /\ ServerTypes' /\ Meant
    BY AccountFacts
    DEF IInv, Types, OpTypes, SharedTypes, ServerTypes, Meant, sharedVars, serverVars
  <1> QED
    BY <1>2, <1>3, <1>4 DEF IInv, Types

LEMMA LoadFailsKeeps ==
    ASSUME IInv, NEW m \in Managers, LoadFails(m)
    PROVE  IInv' /\ Named /\ Meant
  <1> USE DEF LoadFails, MayLoad
  <1>1. kind[m] # "none"
    BY DEF IInv, Kinds
  <1>2. /\ StateTypes' /\ OpTypes' /\ ValTypes' /\ WorkTypes' /\ Cached' /\ Kinds'
        /\ Bundles' /\ Room' /\ Marked' /\ Named
    BY <1>1, EndCleared DEF serverVars
  <1>3. Exclusive'
    BY EndExclusion DEF Fails
  <1>4. SharedTypes' /\ ServerTypes' /\ Meant
    BY DEF IInv, Types, SharedTypes, ServerTypes, Meant, sharedVars, serverVars
  <1> QED
    BY <1>2, <1>3, <1>4 DEF IInv, Types

LEMMA LoadRefusesKeeps ==
    ASSUME IInv, NEW m \in Managers, LoadRefuses(m)
    PROVE  IInv' /\ Named /\ Meant
  <1> USE DEF LoadRefuses, MayLoad
  <1>1. kind[m] # "none"
    BY DEF IInv, Kinds
  <1>2. keyring \in MaybeToken
    BY DEF IInv, Types, SharedTypes
  <1>3. /\ StateTypes' /\ OpTypes' /\ ValTypes' /\ WorkTypes' /\ Cached' /\ Kinds'
        /\ Bundles' /\ Room' /\ Marked' /\ Named
    <2>1. CASE MustAdopt(m)
      BY <1>1, <1>2, <2>1, EndAdopted DEF AdoptIfNeeded, serverVars
    <2>2. CASE ~MustAdopt(m)
      <3> USE <2>2 DEF AdoptIfNeeded, stateVars, Fails
      <3>1. StateTypes' /\ Cached' /\ Named
        BY DEF IInv, Types, StateTypes, Cached, Named
      <3>2. OpTypes' /\ ValTypes' /\ strays' \subseteq Managers /\ Kinds' /\ Bundles' /\ Room'
        BY <1>1, <3>1, AccountFacts, EndStep DEF serverVars
      <3>3. WorkTypes'
        BY <3>2 DEF IInv, Types, WorkTypes
      <3>4. Marked'
        BY DEF IInv, Types, OpTypes, Marked, Return
      <3> QED
        BY <3>1, <3>2, <3>3, <3>4
    <2> QED
      BY <2>1, <2>2
  <1>4. Exclusive'
    BY EndExclusion DEF Fails
  <1>5. SharedTypes' /\ ServerTypes' /\ Meant
    BY DEF IInv, Types, SharedTypes, ServerTypes, Meant, sharedVars, serverVars
  <1> QED
    BY <1>3, <1>4, <1>5 DEF IInv, Types

(* What was read is adopted only when this manager knew no account, so     *)
(* that the answer will not be taken for a switch.                         *)
LEMMA LoadKeeps ==
    ASSUME IInv, NEW m \in Managers, Load(m)
    PROVE  IInv' /\ Named /\ Meant
  <1> USE AccountFacts DEF Load, MayLoad
  <1>0. keyring \in Tokens /\ kind[m] \in Rotations /\ pc[m] = "acquire" /\ lock = None
    BY DEF IInv, Types, SharedTypes, Rotations
  <1>1. StateTypes' /\ Cached' /\ Named
    <2>1. CASE MustAdopt(m)
      <3>1. generation[m] + 1 <= MaxGeneration
        BY <1>0, OneMore DEF Rotations
      <3> QED
        BY <1>0, <2>1, <3>1, AdoptStep DEF AdoptIfNeeded
    <2>2. CASE ~MustAdopt(m)
      BY <2>2 DEF AdoptIfNeeded, stateVars, IInv, Types, StateTypes, Cached, Named
    <2> QED
      BY <2>1, <2>2
  <1>2. OpTypes'
    <2>1. (keyring # token[m]) \in BOOLEAN /\ account[m] \in MaybeAccount
      BY DEF IInv, Types, StateTypes
    <2> QED
      BY <1>0, <2>1 DEF IInv, Types, OpTypes
  <1>3. ValTypes' /\ ServerTypes' /\ WorkTypes' /\ SharedTypes' /\ Meant
    BY DEF IInv, Types, ValTypes, ServerTypes, WorkTypes, SharedTypes, Meant, valVars,
       serverVars, workVars
  <1>4. Kinds' /\ Bundles'
    BY <1>0 DEF IInv, Types, OpTypes, Kinds, Bundles, serverVars, Rotations
  <1>5. Exclusive'
    BY <1>0, SessionAssumption DEF IInv, Types, OpTypes, Exclusive, Critical
  <1>6. Marked'
    <2> SUFFICES ASSUME LoginsReachKeyring, NEW k \in Managers, home[k] # None, ~told[k],
                        ~pending'[k]
                 PROVE  \/ account'[k] = home[k]
                        \/ /\ account'[k] = None /\ token'[k] = NoToken
                           /\ ~(kind'[k] \in Rotations /\ pc'[k] \in {"send", "commit"})
      BY DEF Marked, workVars
    <2>1. CASE k = m /\ MustAdopt(m)
      BY <1>0, <2>1 DEF AdoptIfNeeded, AdoptExternal, IInv, Types, StateTypes
    <2>2. CASE k = m /\ ~MustAdopt(m)
      <3>1. UNCHANGED <<account, token, pending>>
        BY <2>2 DEF AdoptIfNeeded, stateVars
      <3>2. account[m] # None \/ keyring = token[m]
        BY <2>2 DEF MustAdopt
      <3> QED
        BY <1>0, <2>2, <3>1, <3>2 DEF IInv, Marked
    <2>3. CASE k # m
      <3>1. account'[k] = account[k] /\ token'[k] = token[k] /\ pending'[k] = pending[k]
        BY <2>3 DEF AdoptIfNeeded, AdoptExternal, stateVars, IInv, Types, StateTypes
      <3>2. kind'[k] = kind[k] /\ pc'[k] = pc[k]
        BY <2>3 DEF IInv, Types, OpTypes
      <3> QED
        BY <3>1, <3>2 DEF IInv, Marked
    <2> QED
      BY <2>1, <2>2, <2>3
  <1>7. Room'
    <2> SUFFICES ASSUME NEW k \in Managers
                 PROVE  generation'[k] + StillChanges(k)' <= MaxGeneration
      BY DEF Room
    <2>1. CASE k = m
      <3>1. kind'[k] = kind[m] /\ pc'[k] = "send" /\ previous'[k] = account[m]
        BY <2>1 DEF IInv, Types, OpTypes
      <3>2. generation[m] + 2 <= MaxGeneration
        BY <1>0 DEF IInv, Room, StillChanges, Rotations
      <3>3. CASE MustAdopt(m)
        <4>1. previous'[k] = None
          BY <1>0, <3>1, <3>3 DEF MustAdopt
        <4>2. StillChanges(k)' = 1
          BY <1>0, <3>1, <4>1 DEF StillChanges, SwitchedAccount, Rotations
        <4>3. generation'[k] = generation[m] + 1
          BY <2>1, <3>3 DEF AdoptIfNeeded, AdoptExternal, IInv, Types, StateTypes
        <4> QED
          BY <2>1, <3>2, <4>2, <4>3, SessionAssumption DEF IInv, Types, StateTypes
      <3>4. CASE ~MustAdopt(m)
        <4>1. generation'[k] = generation[m]
          BY <2>1, <3>4 DEF AdoptIfNeeded, stateVars
        <4>2. StillChanges(k)' \in 0..2
          BY DEF StillChanges
        <4> QED
          BY <3>2, <4>1, <4>2, SessionAssumption DEF IInv, Types, StateTypes
      <3> QED
        BY <3>3, <3>4
    <2>2. CASE k # m
      <3>1. /\ kind'[k] = kind[k] /\ pc'[k] = pc[k] /\ expected'[k] = expected[k]
            /\ previous'[k] = previous[k] /\ changed'[k] = changed[k]
        BY <2>2 DEF IInv, Types, OpTypes
      <3>2. StillChanges(k)' = StillChanges(k)
        BY <3>1 DEF StillChanges, SwitchedAccount
      <3>3. generation'[k] = generation[k]
        BY <2>2 DEF AdoptIfNeeded, AdoptExternal, stateVars, IInv, Types, StateTypes
      <3> QED
        BY <3>2, <3>3 DEF IInv, Room
    <2> QED
      BY <2>1, <2>2
  <1> QED
    BY <1>1, <1>2, <1>3, <1>4, <1>5, <1>6, <1>7 DEF IInv, Types

LEMMA RefreshLostKeeps ==
    ASSUME IInv, NEW m \in Managers, RefreshLost(m)
    PROVE  IInv' /\ Named /\ Meant
  <1> USE AccountFacts DEF IInv, Types, RefreshLost, Present, stateVars, valVars, sharedVars,
          workVars
  <1>1. StateTypes' /\ ValTypes' /\ WorkTypes' /\ SharedTypes' /\ Cached' /\ Named /\ Meant
    BY DEF StateTypes, ValTypes, WorkTypes, SharedTypes, Cached, Named, Meant
  <1>2. OpTypes' /\ Kinds'
    BY DEF OpTypes, Kinds
  <1>3. ServerTypes'
    BY DEF OpTypes, Bundles, ServerTypes
  <1>4. Bundles' /\ Marked'
    BY DEF OpTypes, Bundles, Marked
  <1>5. Room'
    <2>1. \A k \in Managers : StillChanges(k)' \in 0..2 /\ StillChanges(k) \in 0..2
      BY DEF StillChanges
    <2>2. \A k \in Managers : StillChanges(k)' <= StillChanges(k)
      BY DEF OpTypes, Kinds, StillChanges, SwitchedAccount
    <2> QED
      BY <2>1, <2>2, SessionAssumption DEF Room, StateTypes
  <1>6. Exclusive'
    BY DEF OpTypes, Exclusive, Critical
  <1> QED
    BY <1>1, <1>2, <1>3, <1>4, <1>5, <1>6

(* A peer's token of another account changes the identity once more before *)
(* its bundle is committed, and marks it.                                  *)
LEMMA RefreshAnsweredKeeps ==
    ASSUME IInv, NEW m \in Managers, RefreshAnswered(m)
    PROVE  IInv' /\ Named /\ Meant
  <1> USE AccountFacts DEF RefreshAnswered, Present
  <1>0. expected[m] \in Tokens /\ kind[m] \in Rotations /\ pc[m] = "send"
    BY DEF IInv, Types, OpTypes, Kinds, Bundles
  <1>1. /\ issued' \in 0..MaxTokens
        /\ [account |-> expected[m].account, n |-> issued + 1] \in Tokens
    <2>1. issued + 1 \in 1..MaxTokens
      BY SessionAssumption DEF IInv, Types, ServerTypes
    <2> QED
      BY <1>0, <2>1
  <1>2. ServerTypes'
    BY <1>0, <1>1 DEF IInv, Types, ServerTypes
  <1>3. OpTypes'
    BY <1>1 DEF IInv, Types, OpTypes
  <1>4. ValTypes' /\ WorkTypes' /\ SharedTypes' /\ Meant
    BY DEF IInv, Types, ValTypes, WorkTypes, SharedTypes, Meant, valVars, workVars, sharedVars
  <1>5. Kinds' /\ Bundles'
    BY <1>0, <1>1 DEF IInv, Types, OpTypes, Kinds, Bundles, Rotations
  <1>6. Exclusive'
    BY <1>0 DEF IInv, Types, OpTypes, Exclusive, Critical, sharedVars
  <1>7. StateTypes' /\ Cached' /\ Named
    <2>1. CASE SwitchedAccount(m)
      <3>1. generation[m] + 1 <= MaxGeneration
        BY <1>0, OneMore DEF Rotations
      <3> QED
        BY <1>0, <2>1, <3>1, AdoptStep
    <2>2. CASE ~SwitchedAccount(m)
      BY <2>2 DEF stateVars, IInv, Types, StateTypes, Cached, Named
    <2> QED
      BY <2>1, <2>2
  <1>8. Room'
    <2> SUFFICES ASSUME NEW k \in Managers
                 PROVE  generation'[k] + StillChanges(k)' <= MaxGeneration
      BY DEF Room
    <2>1. CASE k = m
      <3>1. kind'[k] = kind[m] /\ pc'[k] = "commit"
        BY <2>1 DEF IInv, Types, OpTypes
      <3>2. StillChanges(k)' = 1
        BY <1>0, <3>1 DEF StillChanges, Rotations
      <3>3. CASE SwitchedAccount(m)
        <4>1. generation[m] + 2 <= MaxGeneration
          BY <1>0, <3>3 DEF IInv, Room, StillChanges, Rotations
        <4>2. generation'[k] = generation[m] + 1
          BY <2>1, <3>3 DEF AdoptExternal, IInv, Types, StateTypes
        <4> QED
          BY <3>2, <4>1, <4>2, SessionAssumption DEF IInv, Types, StateTypes
      <3>4. CASE ~SwitchedAccount(m)
        <4>1. generation[m] + 1 <= MaxGeneration
          BY <1>0, OneMore DEF Rotations
        <4> QED
          BY <2>1, <3>2, <3>4, <4>1 DEF stateVars
      <3> QED
        BY <3>3, <3>4
    <2>2. CASE k # m
      <3>1. kind'[k] = kind[k] /\ pc'[k] = pc[k]
        BY <2>2 DEF IInv, Types, OpTypes
      <3>2. StillChanges(k)' = StillChanges(k)
        BY <3>1 DEF StillChanges, SwitchedAccount
      <3>3. generation'[k] = generation[k]
        BY <2>2 DEF AdoptExternal, stateVars, IInv, Types, StateTypes
      <3> QED
        BY <3>2, <3>3 DEF IInv, Room
    <2> QED
      BY <2>1, <2>2
  <1>9. Marked'
    <2> SUFFICES ASSUME LoginsReachKeyring, NEW k \in Managers, home[k] # None, ~told[k],
                        ~pending'[k]
                 PROVE  \/ account'[k] = home[k]
                        \/ /\ account'[k] = None /\ token'[k] = NoToken
                           /\ ~(kind'[k] \in Rotations /\ pc'[k] \in {"send", "commit"})
      BY DEF Marked, workVars
    <2>1. CASE k = m /\ SwitchedAccount(m)
      BY <1>0, <2>1 DEF AdoptExternal, IInv, Types, StateTypes
    <2>2. CASE k = m /\ ~SwitchedAccount(m)
      BY <1>0, <2>2 DEF stateVars, IInv, Marked
    <2>3. CASE k # m
      <3>1. account'[k] = account[k] /\ token'[k] = token[k] /\ pending'[k] = pending[k]
        BY <2>3 DEF AdoptExternal, stateVars, IInv, Types, StateTypes
      <3>2. kind'[k] = kind[k] /\ pc'[k] = pc[k]
        BY <2>3 DEF IInv, Types, OpTypes
      <3> QED
        BY <3>1, <3>2 DEF IInv, Marked
    <2> QED
      BY <2>1, <2>2, <2>3
  <1> QED
    BY <1>2, <1>3, <1>4, <1>5, <1>6, <1>7, <1>8, <1>9 DEF IInv, Types

-----------------------------------------------------------------------------
(* commit_bundle_under_credential_lock.                                    *)

(* The holder of the lock meant the credential that it finds as expected:  *)
(* it presented it, or it is a sign-in or a sign-out.                      *)
LEMMA ExpectedIsMeant ==
    ASSUME IInv, NEW m \in Managers, pc[m] \in {"commit", "discard"},
           keyring' # keyring => keyring = expected[m]
    PROVE  Meant
  <1>1. lock = m /\ kind[m] # "none"
    BY DEF IInv, Exclusive, Critical, Kinds
  <1>2. kind[m] \in Rotations => expected[m] \in presented
    BY DEF IInv, Bundles
  <1>3. kind[m] \in Rotations \cup {"clear", "login"}
    BY <1>1 DEF IInv, Types, OpTypes, Rotations
  <1> QED
    BY <1>1, <1>2, <1>3 DEF Meant

(* The bundle is given up and the operation goes on to discard.            *)
LEMMA GiveUpKeeps ==
    ASSUME IInv, NEW m \in Managers, BundleRejected(m) \/ CommitSaveFails(m)
    PROVE  IInv' /\ Named /\ Meant
  <1>0. /\ pc[m] = "commit" /\ Abandon(m) /\ pc' = [pc EXCEPT ![m] = "discard"]
        /\ UNCHANGED <<stateVars, kind, expected, bundle, previous, changed, login,
                       valVars, sharedVars, serverVars, workVars>>
    BY DEF BundleRejected, CommitSaveFails, MaySave
  <1> USE <1>0, AccountFacts DEF IInv, Types, stateVars, valVars, sharedVars, serverVars, workVars
  <1>1. StateTypes' /\ ValTypes' /\ WorkTypes' /\ SharedTypes' /\ Cached' /\ Named /\ Meant
    BY DEF StateTypes, ValTypes, WorkTypes, SharedTypes, Cached, Named, Meant
  <1>2. OpTypes' /\ Kinds'
    BY DEF OpTypes, Kinds
  <1>3. ServerTypes'
    BY DEF OpTypes, Bundles, ServerTypes, Abandon
  <1>4. Bundles' /\ Marked'
    BY DEF OpTypes, Bundles, Marked
  <1>5. Room'
    BY DEF OpTypes, Room, StillChanges, SwitchedAccount
  <1>6. Exclusive'
    BY DEF OpTypes, Exclusive, Critical
  <1> QED
    BY <1>1, <1>2, <1>3, <1>4, <1>5, <1>6

LEMMA CommitEndsKeeps ==
    ASSUME IInv, NEW m \in Managers,
           CommitLoadFails(m) \/ CommitConflict(m) \/ CommitSaveTimesOut(m)
    PROVE  IInv' /\ Named /\ Meant
  <1>0. pc[m] = "commit" /\ kind[m] # "none" /\ bundle[m] \in Tokens /\ keyring \in MaybeToken
    BY AccountFacts
    DEF CommitLoadFails, CommitConflict, CommitSaveTimesOut, MaySave, IInv, Kinds, Bundles,
        Types, OpTypes, SharedTypes
  <1>1. /\ StateTypes' /\ OpTypes' /\ ValTypes' /\ WorkTypes' /\ Cached' /\ Kinds'
        /\ Bundles' /\ Room' /\ Marked' /\ Named
    BY <1>0, EndCleared, EndAdopted
    DEF CommitLoadFails, CommitConflict, CommitSaveTimesOut, serverVars
  <1>2. ServerTypes'
    BY <1>0
    DEF CommitLoadFails, CommitConflict, CommitSaveTimesOut, Abandon, serverVars,
        IInv, Types, ServerTypes
  <1>3. SharedTypes'
    <2>1. CASE CommitLoadFails(m) \/ CommitConflict(m)
      BY <2>1 DEF CommitLoadFails, CommitConflict, IInv, Types, SharedTypes
    <2>2. CASE CommitSaveTimesOut(m)
      <3>1. expected[m] \in MaybeToken /\ bundle[m] \in MaybeToken
        BY DEF IInv, Types, OpTypes
      <3> QED
        BY <2>2, <3>1 DEF CommitSaveTimesOut, IInv, Types, SharedTypes
    <2> QED
      BY <2>1, <2>2
  <1>4. Exclusive'
    <2>1. CASE CommitLoadFails(m) \/ CommitConflict(m)
      BY <1>0, <2>1, EndExclusion DEF CommitLoadFails, CommitConflict, Fails, Critical
    <2>2. CASE CommitSaveTimesOut(m)
      BY <1>0, <2>2, EndExclusion DEF CommitSaveTimesOut, MaySave, Fails, Critical
    <2> QED
      BY <2>1, <2>2
  <1>5. Meant
    BY DEF CommitLoadFails, CommitConflict, CommitSaveTimesOut, Meant
  <1> QED
    BY <1>1, <1>2, <1>3, <1>4, <1>5 DEF IInv, Types

(* The bundle becomes the session: of the account that was known, or in a  *)
(* new generation; and only a sign-in clears the mark, which tells work.   *)
LEMMA CommitSavedKeeps ==
    ASSUME IInv, NEW m \in Managers, CommitSaved(m)
    PROVE  IInv' /\ Named /\ Meant
  <1> USE AccountFacts DEF CommitSaved, MaySave
  <1> DEFINE a == bundle[m].account
             got == IF SwitchedAccount(m) /\ kind[m] # "validate" THEN None ELSE a
  <1>0. /\ pc[m] = "commit" /\ kind[m] \in Rotations \cup {"login"}
        /\ bundle[m] \in Tokens /\ a \in Accounts /\ got \in MaybeAccount
    BY DEF IInv, Kinds, Bundles, Types, OpTypes
  <1>1. generation[m] + 1 <= MaxGeneration
    BY <1>0, OneMore DEF Rotations
  <1>2. StateTypes'
    <2>1. generation' \in [Managers -> 0..MaxGeneration]
      BY <1>1, SessionAssumption DEF IInv, Types, StateTypes
    <2> QED
      BY <1>0, <2>1 DEF IInv, Types, StateTypes
  <1>3. Cached' /\ Named
    BY SessionAssumption DEF IInv, Types, StateTypes, Cached, Named
  <1>4. OpTypes' /\ ValTypes' /\ strays' \subseteq Managers /\ Kinds' /\ Bundles' /\ Room'
    <2>1. \A k \in Managers \ {m} : generation'[k] = generation[k]
      BY DEF IInv, Types, StateTypes
    <2>2. kind[m] # "none" /\ Return(m, got) /\ UNCHANGED <<login, read, home>>
      BY <1>0 DEF Rotations
    <2> QED
      BY <1>0, <1>2, <2>1, <2>2, EndStep DEF serverVars
  <1>5. WorkTypes'
    <2>1. told' \in [Managers -> BOOLEAN]
      BY DEF IInv, Types, WorkTypes
    <2> QED
      BY <1>4, <2>1 DEF IInv, Types, WorkTypes
  <1>6. ServerTypes' /\ SharedTypes'
    BY <1>0 DEF IInv, Types, ServerTypes, SharedTypes, serverVars
  <1>7. Exclusive'
    BY <1>0, EndExclusion DEF Critical
  <1>8. Meant
    BY <1>0, ExpectedIsMeant
  <1>9. Marked'
    <2> SUFFICES ASSUME LoginsReachKeyring, NEW k \in Managers, home[k] # None, ~told'[k],
                        ~pending'[k]
                 PROVE  \/ account'[k] = home[k]
                        \/ /\ account'[k] = None /\ token'[k] = NoToken
                           /\ ~(kind'[k] \in Rotations /\ pc'[k] \in {"send", "commit"})
      BY DEF Marked
    <2>1. ~told[k]
      BY DEF IInv, Types, WorkTypes
    <2>2. CASE k = m
      <3>1. kind[m] # "login"
        BY <2>2 DEF IInv, Types, WorkTypes
      <3>2. ~pending[m] /\ account'[m] = a /\ account[m] \in {None, a}
        BY <2>2, <3>1 DEF SameAccount, IInv, Types, StateTypes
      <3>3. account[m] = home[m]
        BY <1>0, <2>1, <2>2, <3>1, <3>2 DEF IInv, Marked
      <3> QED
        BY <2>2, <3>2, <3>3
    <2>3. CASE k # m
      <3>1. account'[k] = account[k] /\ token'[k] = token[k] /\ pending'[k] = pending[k]
        BY <2>3 DEF IInv, Types, StateTypes
      <3>2. kind'[k] = kind[k] /\ pc'[k] = pc[k]
        BY <2>3 DEF Return, IInv, Types, OpTypes
      <3> QED
        BY <2>1, <3>1, <3>2 DEF IInv, Marked
    <2> QED
      BY <2>2, <2>3
  <1> QED
    BY <1>2, <1>3, <1>4, <1>5, <1>6, <1>7, <1>8, <1>9 DEF IInv, Types

LEMMA DiscardKeeps ==
    ASSUME IInv, NEW m \in Managers, Clear(m)
    PROVE  IInv' /\ Named /\ Meant
  <1> USE AccountFacts DEF Clear, Discard, DiscardFails, DiscardTimesOut, Matches
  <1>0. pc[m] = "discard" /\ kind[m] # "none"
    BY DEF IInv, Kinds
  <1>1. /\ StateTypes' /\ OpTypes' /\ ValTypes' /\ WorkTypes' /\ Cached' /\ Kinds'
        /\ Bundles' /\ Room' /\ Marked' /\ Named
    BY <1>0, EndCleared DEF serverVars
  <1>2. ServerTypes' /\ SharedTypes'
    <2>1. ServerTypes'
      BY DEF IInv, Types, ServerTypes, serverVars
    <2>2. CASE Discard(m) \/ DiscardFails(m)
      BY <2>1, <2>2 DEF IInv, Types, SharedTypes
    <2>3. CASE DiscardTimesOut(m)
      <3>1. expected[m] \in MaybeToken
        BY DEF IInv, Types, OpTypes
      <3> QED
        BY <2>1, <2>3, <3>1 DEF IInv, Types, SharedTypes
    <2> QED
      BY <2>2, <2>3
  <1>3. Exclusive'
    <2>1. CASE Discard(m) \/ DiscardFails(m)
      BY <1>0, <2>1, EndExclusion DEF Fails, Critical
    <2>2. CASE DiscardTimesOut(m)
      BY <1>0, <2>2, EndExclusion DEF Fails, Critical
    <2> QED
      BY <2>1, <2>2
  <1>4. Meant
    BY <1>0, ExpectedIsMeant
  <1> QED
    BY <1>1, <1>2, <1>3, <1>4 DEF IInv, Types

-----------------------------------------------------------------------------
(* The late call finds what it was started on, and frees the lock.         *)
LEMMA LateKeeps ==
    ASSUME IInv, LateSave \/ LateCleanup \/ LateDelete
    PROVE  IInv' /\ Named /\ Meant
  <1>0. late.kind # "none" /\ \A m \in Managers : pc[m] \notin Critical
    BY DEF LateSave, LateCleanup, LateDelete, IInv, Exclusive
  <1>1. UNCHANGED <<stateVars, opVars, login, valVars, serverVars, abandoned, workVars>>
    BY DEF LateSave, LateCleanup, LateDelete
  <1>2. StateTypes' /\ OpTypes' /\ ValTypes' /\ ServerTypes' /\ WorkTypes'
    BY <1>1
    DEF IInv, Types, StateTypes, OpTypes, ValTypes, ServerTypes, WorkTypes, stateVars, opVars,
        valVars, serverVars, workVars
  <1>3. Cached' /\ Kinds' /\ Bundles' /\ Marked' /\ Named
    BY <1>1
    DEF IInv, Cached, Kinds, Bundles, Marked, Named, stateVars, opVars, serverVars, workVars
  <1>4. Room'
    BY <1>1 DEF IInv, Room, StillChanges, SwitchedAccount, stateVars, opVars
  <1>5. /\ late.token \in MaybeToken /\ late.over \in MaybeToken /\ keyring \in MaybeToken
        /\ NoLate.kind = "none" /\ lock \in Managers \cup {None} /\ lock # None
        /\ NoLate \in [kind : {"none", "save", "cleanup", "delete"}, token : MaybeToken,
                       over : MaybeToken]
    BY <1>0, AccountFacts DEF IInv, Types, SharedTypes, Exclusive, NoLate
  <1>6. /\ keyring' \in {keyring, late.token, NoToken}
        /\ \/ lock' = None /\ late' = NoLate
           \/ /\ lock' = lock /\ keyring' = late.token
              /\ late' = [kind |-> "cleanup", token |-> late.token, over |-> late.over]
    BY DEF LateSave, LateCleanup, LateDelete
  <1>7. SharedTypes'
    BY <1>5, <1>6, AccountFacts DEF SharedTypes
  <1>8. Exclusive'
    <2>1. \A m \in Managers : pc'[m] \notin Critical
      BY <1>0, <1>1 DEF opVars
    <2>2. CASE lock' = None /\ late' = NoLate
      BY <1>5, <2>1, <2>2 DEF Exclusive
    <2>3. CASE /\ lock' = lock /\ keyring' = late.token
               /\ late' = [kind |-> "cleanup", token |-> late.token, over |-> late.over]
      <3>1. late'.kind = "cleanup" /\ late'.token = late.token
        BY <2>3
      <3> QED
        BY <1>5, <2>1, <2>3, <3>1 DEF Exclusive
    <2> QED
      BY <1>6, <2>2, <2>3
  <1>9. Meant
    <2>1. late # NoLate
      BY <1>0, <1>5
    <2>2. keyring \in {late.over, late.token}
      BY DEF LateSave, LateCleanup, LateDelete, IInv, Exclusive
    <2> QED
      BY <2>1, <2>2 DEF Meant
  <1> QED
    BY <1>2, <1>3, <1>4, <1>7, <1>8, <1>9 DEF IInv, Types

-----------------------------------------------------------------------------
(* Sign-in and sign-out.                                                   *)

(* A manager that changes its identity outside an operation leaves room    *)
(* for the operation under way.                                            *)
LEMMA RoomBeside ==
    ASSUME IInv, NEW m \in Managers, HasRoom(m, "login"), UNCHANGED opVars,
           generation' = [generation EXCEPT ![m] = @ + 1]
    PROVE  Room' /\ generation[m] + 1 <= MaxGeneration
  <1>1. \A k \in Managers : StillChanges(k)' = StillChanges(k)
    BY DEF StillChanges, SwitchedAccount, opVars
  <1>2. StillChanges(m) \in 0..2 /\ StillChanges(m) <= Changes(kind[m]) /\ Changes(kind[m]) \in 0..2
    BY DEF StillChanges, Changes
  <1>3. generation[m] + Changes(kind[m]) + 1 <= MaxGeneration
    BY DEF HasRoom, Changes
  <1>4. generation[m] \in Nat /\ MaxGeneration \in Nat
    BY SessionAssumption DEF IInv, Types, StateTypes
  <1>5. /\ generation'[m] = generation[m] + 1
        /\ \A k \in Managers \ {m} : generation'[k] = generation[k]
    BY DEF IInv, Types, StateTypes
  <1>6. generation[m] + 1 + StillChanges(m) <= MaxGeneration
    BY <1>2, <1>3, <1>4
  <1> QED
    BY <1>1, <1>2, <1>4, <1>5, <1>6 DEF IInv, Room

LEMMA StartNativeLoginKeeps ==
    ASSUME IInv, NEW m \in Managers, StartNativeLogin(m)
    PROVE  IInv' /\ Named /\ Meant
  <1> USE AccountFacts DEF StartNativeLogin
  <1>0. keyring \in MaybeToken /\ pc[m] \notin Critical
    BY SessionAssumption DEF IInv, Types, SharedTypes, Exclusive
  <1>1. StateTypes' /\ Cached' /\ Named /\ Room' /\ Marked'
    <2>1. CASE keyring # token[m]
      <3>1. AdoptExternal(m, keyring)
        BY <2>1
      <3>2. generation' = [generation EXCEPT ![m] = @ + 1]
        BY <3>1 DEF AdoptExternal
      <3>3. Room' /\ generation[m] + 1 <= MaxGeneration
        BY <3>2, RoomBeside
      <3>4. StateTypes' /\ Cached' /\ Named
        BY <1>0, <3>1, <3>3, AdoptStep
      <3>5. Marked'
        <4>1. /\ account'[m] = None /\ token'[m] = keyring
              /\ pending'[m] = (keyring # NoToken) /\ pc'[m] \notin Critical
          BY <1>0, <3>1 DEF AdoptExternal, opVars, IInv, Types, StateTypes
        <4>2. \A k \in Managers \ {m} :
                account'[k] = account[k] /\ token'[k] = token[k] /\ pending'[k] = pending[k]
          BY <3>1 DEF AdoptExternal, IInv, Types, StateTypes
        <4> QED
          BY <4>1, <4>2 DEF IInv, Marked, Critical, opVars, workVars
      <3> QED
        BY <3>3, <3>4, <3>5
    <2>2. CASE keyring = token[m]
      <3> USE <2>2 DEF stateVars, opVars, workVars
      <3>1. StateTypes' /\ Cached' /\ Named /\ Marked'
        BY DEF IInv, Types, StateTypes, Cached, Named, Marked
      <3>2. Room'
        BY DEF IInv, Room, StillChanges, SwitchedAccount
      <3> QED
        BY <3>1, <3>2
    <2> QED
      BY <2>1, <2>2
  <1>2. ValTypes'
    BY <1>1 DEF IInv, Types, ValTypes, StateTypes, valVars
  <1>3. /\ OpTypes' /\ SharedTypes' /\ ServerTypes' /\ WorkTypes' /\ Kinds' /\ Bundles'
        /\ Exclusive' /\ Meant
    BY DEF IInv, Types, OpTypes, SharedTypes, ServerTypes, WorkTypes, Kinds, Bundles,
       Exclusive, Meant, opVars, sharedVars, serverVars, workVars
  <1> QED
    BY <1>1, <1>2, <1>3 DEF IInv, Types

LEMMA LoginStartFailsKeeps ==
    ASSUME IInv, NEW m \in Managers, LoginStartFails(m)
    PROVE  IInv' /\ Named /\ Meant
  <1> USE DEF LoginStartFails
  <1>1. generation' = [generation EXCEPT ![m] = @ + 1]
    BY DEF ClearLocal
  <1>2. Room' /\ generation[m] + 1 <= MaxGeneration
    BY <1>1, RoomBeside
  <1>3. StateTypes' /\ Cached' /\ Named
    BY <1>2, ClearStep
  <1>4. Marked'
    BY DEF Marked, LoginsReachKeyring
  <1>5. /\ OpTypes' /\ ValTypes' /\ SharedTypes' /\ ServerTypes' /\ WorkTypes' /\ Kinds'
        /\ Bundles' /\ Exclusive' /\ Meant
    BY DEF IInv, Types, OpTypes, ValTypes, SharedTypes, ServerTypes, WorkTypes, Kinds, Bundles,
       Exclusive, Meant, opVars, valVars, sharedVars, serverVars, workVars
  <1> QED
    BY <1>2, <1>3, <1>4, <1>5 DEF IInv, Types

(* Everything but the listed types, for a step that changes no operation,  *)
(* no session and no keyring.                                              *)
LEMMA FrameKeeps ==
    ASSUME IInv, UNCHANGED <<stateVars, opVars, sharedVars, serverVars, abandoned>>,
           ValTypes', WorkTypes', Marked'
    PROVE  IInv' /\ Named /\ Meant
  <1> USE DEF IInv, Types, stateVars, opVars, sharedVars, serverVars
  <1>1. StateTypes' /\ OpTypes' /\ SharedTypes' /\ ServerTypes'
    BY DEF StateTypes, OpTypes, SharedTypes, ServerTypes
  <1>2. Cached' /\ Kinds' /\ Bundles' /\ Exclusive' /\ Named /\ Meant
    BY DEF Cached, Kinds, Bundles, Exclusive, Named, Meant
  <1>3. Room'
    BY DEF Room, StillChanges, SwitchedAccount
  <1> QED
    BY <1>1, <1>2, <1>3

LEMMA CancelLoginKeeps ==
    ASSUME IInv, NEW m \in Managers, CancelLogin(m)
    PROVE  IInv' /\ Named /\ Meant
  <1> USE DEF CancelLogin
  <1>1. ValTypes'
    BY DEF IInv, Types, ValTypes, valVars
  <1>2. WorkTypes' /\ Marked'
    BY DEF IInv, Types, WorkTypes, Marked, workVars, stateVars, opVars
  <1> QED
    BY <1>1, <1>2, FrameKeeps

LEMMA FinishExchangeKeeps ==
    ASSUME IInv, NEW m \in Managers, FinishExchange(m)
    PROVE  IInv' /\ Named /\ Meant
  <1> USE AccountFacts DEF FinishExchange
  <1>0. PICK a \in Accounts : LET new == [account |-> a, n |-> issued + 1] IN
          IF generation[m] # login[m]
          THEN abandoned' = abandoned \cup {new} /\ UNCHANGED opVars
          ELSE /\ StartOperation(m, "login")
               /\ bundle' = [bundle EXCEPT ![m] = new]
               /\ expected' = [expected EXCEPT ![m] = token[m]]
               /\ UNCHANGED abandoned
    OBVIOUS
  <1> DEFINE new == [account |-> a, n |-> issued + 1]
  <1>1. new \in Tokens /\ issued' \in 0..MaxTokens
    <2>1. issued + 1 \in 1..MaxTokens
      BY SessionAssumption DEF IInv, Types, ServerTypes
    <2> QED
      BY <2>1
  <1>2. ServerTypes'
    BY <1>0, <1>1 DEF IInv, Types, ServerTypes
  <1>3. ValTypes' /\ WorkTypes'
    BY DEF IInv, Types, ValTypes, WorkTypes, valVars, workVars
  <1>4. CASE generation[m] # login[m]
    <2> USE <1>0, <1>4 DEF IInv, Types, stateVars, opVars, sharedVars
    <2>1. StateTypes' /\ OpTypes' /\ SharedTypes'
      BY DEF StateTypes, OpTypes, SharedTypes
    <2>2. Cached' /\ Kinds' /\ Bundles' /\ Exclusive' /\ Marked' /\ Named /\ Meant
      BY DEF Cached, Kinds, Bundles, Exclusive, Marked, Named, Meant, workVars
    <2>3. Room'
      BY DEF Room, StillChanges, SwitchedAccount
    <2> QED
      BY <1>2, <1>3, <2>1, <2>2, <2>3
  <1>5. CASE generation[m] = login[m]
    <2>1. /\ expected' \in [Managers -> MaybeToken] /\ bundle' \in [Managers -> MaybeToken]
          /\ bundle'[m] # NoToken
          /\ \A i \in Managers \ {m} : expected'[i] = expected[i] /\ bundle'[i] = bundle[i]
      BY <1>0, <1>1, <1>5 DEF IInv, Types, OpTypes, StateTypes
    <2>2. /\ StateTypes' /\ OpTypes' /\ SharedTypes' /\ Cached' /\ Kinds' /\ Bundles'
          /\ Room' /\ Exclusive' /\ Marked' /\ Named /\ Meant
      BY <1>0, <1>5, <2>1, StartStep DEF workVars
    <2> QED
      BY <1>2, <1>3, <2>2 DEF IInv, Types
  <1> QED
    BY <1>4, <1>5

(* A rotation or a sign-out starts.                                        *)
LEMMA StartKeeps ==
    ASSUME IInv, NEW m \in Managers, NEW k \in Rotations \cup {"clear"}, StartOperation(m, k),
           expected' \in {expected, [expected EXCEPT ![m] = token[m]]}, bundle' = bundle,
           UNCHANGED <<stateVars, sharedVars, serverVars, abandoned, workVars>>, ValTypes'
    PROVE  IInv' /\ Named /\ Meant
  <1>1. /\ expected' \in [Managers -> MaybeToken] /\ bundle' \in [Managers -> MaybeToken]
        /\ \A i \in Managers \ {m} : expected'[i] = expected[i] /\ bundle'[i] = bundle[i]
    BY DEF IInv, Types, OpTypes, StateTypes
  <1>2. k \in Rotations \cup {"login", "clear"} /\ k # "login"
    BY DEF Rotations
  <1>3. /\ StateTypes' /\ OpTypes' /\ SharedTypes' /\ Cached' /\ Kinds' /\ Bundles'
        /\ Room' /\ Exclusive' /\ Marked' /\ Named /\ Meant
    BY <1>1, <1>2, StartStep DEF workVars, serverVars
  <1>4. ServerTypes' /\ WorkTypes'
    BY DEF IInv, Types, ServerTypes, WorkTypes, serverVars, workVars
  <1> QED
    BY <1>3, <1>4 DEF IInv, Types

LEMMA LogoutKeeps ==
    ASSUME IInv, NEW m \in Managers, LogoutRefresh(m) \/ Logout(m)
    PROVE  IInv' /\ Named /\ Meant
  <1>1. ValTypes'
    BY DEF LogoutRefresh, Logout, IInv, Types, ValTypes, valVars
  <1>2. CASE LogoutRefresh(m)
    BY <1>1, <1>2, StartKeeps DEF LogoutRefresh, Rotations
  <1>3. CASE Logout(m)
    BY <1>1, <1>3, StartKeeps DEF Logout, StartClear
  <1> QED
    BY <1>2, <1>3

-----------------------------------------------------------------------------
(* Validation and work.                                                    *)

(* A validation that is answered relabels nobody who is known, and tells   *)
(* the work.                                                               *)
LEMMA ValidateOkKeeps ==
    ASSUME IInv, NEW m \in Managers, ValidateOk(m)
    PROVE  IInv' /\ Named /\ Meant
  <1> USE AccountFacts DEF ValidateOk, Relabels, IInv, Types
  <1>1. StateTypes'
    BY DEF StateTypes, ValTypes
  <1>2. Cached' /\ Named
    BY DEF StateTypes, Cached, Named
  <1>3. ValTypes'
    BY SessionAssumption DEF ValTypes
  <1>4. WorkTypes'
    <2>1. (home[m] # None) \in BOOLEAN
      OBVIOUS
    <2> QED
      BY <2>1 DEF WorkTypes
  <1>5. Marked'
    BY DEF Marked, StateTypes, WorkTypes, opVars
  <1>6. /\ OpTypes' /\ SharedTypes' /\ ServerTypes' /\ Kinds' /\ Bundles' /\ Exclusive' /\ Meant
    BY DEF OpTypes, SharedTypes, ServerTypes, Kinds, Bundles, Exclusive, Meant, opVars,
       sharedVars, serverVars
  <1>7. Room'
    BY DEF Room, StillChanges, SwitchedAccount, opVars
  <1> QED
    BY <1>1, <1>2, <1>3, <1>4, <1>5, <1>6, <1>7

LEMMA ValidateKeeps ==
    ASSUME IInv, NEW m \in Managers, Validate(m)
    PROVE  IInv' /\ Named /\ Meant
  <1> USE AccountFacts
  <1>1. CASE ValidateCached(m) \/ ReadGeneration(m) \/ ValidateUnavailable(m) \/ ValidateRefused(m)
    <2> USE <1>1 DEF ValidateCached, ReadGeneration, ValidateUnavailable, ValidateRefused
    <2>1. ValTypes'
      BY SessionAssumption DEF IInv, Types, ValTypes, StateTypes
    <2>2. WorkTypes' /\ Marked'
      BY DEF IInv, Types, WorkTypes, Marked, workVars, stateVars, opVars
    <2> QED
      BY <2>1, <2>2, FrameKeeps
  <1>2. CASE ValidateRefresh(m)
    <2>1. ValTypes'
      BY <1>2 DEF ValidateRefresh, IInv, Types, ValTypes
    <2> QED
      BY <1>2, <2>1, StartKeeps DEF ValidateRefresh, Rotations
  <1>3. CASE ClearIfGeneration(m)
    <2>1. ValTypes'
      BY <1>3, SessionAssumption DEF ClearIfGeneration, IInv, Types, ValTypes
    <2>2. CASE generation[m] = read[m]
      BY <1>3, <2>1, <2>2, StartKeeps DEF ClearIfGeneration, StartClear
    <2>3. CASE generation[m] # read[m]
      <3>1. WorkTypes' /\ Marked'
        BY <1>3, <2>3
        DEF ClearIfGeneration, IInv, Types, WorkTypes, Marked, workVars, stateVars, opVars
      <3> QED
        BY <1>3, <2>1, <2>3, <3>1, FrameKeeps DEF ClearIfGeneration
    <2> QED
      BY <2>2, <2>3
  <1> QED
    BY <1>1, <1>2, <1>3, ValidateOkKeeps DEF Validate

LEMMA WorkKeeps ==
    ASSUME IInv, NEW m \in Managers,
           RegisterWork(m) \/ LeaseCached(m) \/ LeaseRefresh(m) \/ EndWork(m)
    PROVE  IInv' /\ Named /\ Meant
  <1> USE AccountFacts
  <1>1. CASE LeaseRefresh(m)
    <2>1. ValTypes'
      BY <1>1 DEF LeaseRefresh, IInv, Types, ValTypes, valVars
    <2> QED
      BY <1>1, <2>1, StartKeeps DEF LeaseRefresh, Rotations
  <1>2. CASE RegisterWork(m) \/ LeaseCached(m) \/ EndWork(m)
    <2> USE <1>2 DEF RegisterWork, LeaseCached, EndWork
    <2>1. ValTypes'
      BY DEF IInv, Types, ValTypes, valVars
    <2>2. WorkTypes'
      BY DEF IInv, Types, WorkTypes, StateTypes, Strays
    <2>3. Marked'
      BY DEF IInv, Types, WorkTypes, Marked, stateVars, opVars
    <2> QED
      BY <2>1, <2>2, <2>3, FrameKeeps
  <1> QED
    BY <1>1, <1>2

-----------------------------------------------------------------------------
LEMMA NextKeeps ==
    ASSUME IInv, Next
    PROVE  IInv' /\ Named /\ Meant
  <1>1. ASSUME NEW m \in Managers, Refresh(m) PROVE IInv' /\ Named /\ Meant
    BY <1>1, LoadFailsKeeps, LoadRefusesKeeps, LoadKeeps, RefreshAnsweredKeeps,
       RefreshLostKeeps DEF Refresh
  <1>2. ASSUME NEW m \in Managers, Commit(m) PROVE IInv' /\ Named /\ Meant
    BY <1>2, GiveUpKeeps, CommitEndsKeeps, CommitSavedKeeps DEF Commit
  <1>3. ASSUME NEW m \in Managers,
               \/ Acquire(m) \/ AcquireFails(m) \/ Clear(m)
               \/ StartNativeLogin(m) \/ LoginStartFails(m) \/ CancelLogin(m)
               \/ FinishExchange(m) \/ LogoutRefresh(m) \/ Logout(m)
        PROVE  IInv' /\ Named /\ Meant
    BY <1>3, AcquireKeeps, AcquireFailsKeeps, DiscardKeeps, StartNativeLoginKeeps,
       LoginStartFailsKeeps, CancelLoginKeeps, FinishExchangeKeeps, LogoutKeeps
  <1>4. ASSUME NEW m \in Workers,
               \/ Validate(m) \/ RegisterWork(m) \/ LeaseCached(m)
               \/ LeaseRefresh(m) \/ EndWork(m)
        PROVE  IInv' /\ Named /\ Meant
    <2>1. m \in Managers
      BY SessionAssumption
    <2> QED
      BY <1>4, <2>1, ValidateKeeps, WorkKeeps
  <1> QED
    BY <1>1, <1>2, <1>3, <1>4, LateKeeps DEF Next

LEMMA StepKeeps == IInv /\ [Next]_vars => IInv'
  <1> SUFFICES ASSUME IInv, UNCHANGED vars PROVE IInv'
    BY NextKeeps
  <1>1. ValTypes' /\ WorkTypes' /\ Marked'
    BY DEF IInv, Types, ValTypes, WorkTypes, Marked, vars, stateVars, opVars, valVars, workVars
  <1> QED
    BY <1>1, FrameKeeps DEF vars

LEMMA Invariance == Spec => []IInv
  BY InitIInv, StepKeeps, PTL DEF Spec

(* Every state is typed, the generation within its bound, and a cached     *)
(* bearer is one of the account that is known, whatever keyring call fails.*)
THEOREM TypeCorrect == Spec => []TypeOK
  <1>1. IInv => TypeOK
    BY DEF IInv, Types, StateTypes, OpTypes, ValTypes, SharedTypes, ServerTypes, WorkTypes,
       Cached, TypeOK
  <1> QED
    BY <1>1, Invariance, PTL

(* What account_status_is_current relies on: every change of a known       *)
(* account is a change of generation, whatever keyring call fails and      *)
(* whichever rotation, sign-in or validation makes it.                     *)
THEOREM GenerationsNameIdentities == Spec => GenerationNamesIdentity
  <1>1. IInv /\ [Next]_vars => [Named]_vars
    BY NextKeeps
  <1>2. [][Named]_vars <=> GenerationNamesIdentity
    BY DEF Named, GenerationNamesIdentity
  <1> QED
    BY <1>1, <1>2, Invariance, PTL DEF Spec

(* The audience lock and the comparisons under it: a stored credential is  *)
(* replaced or deleted only by an operation that presented it, gave it up  *)
(* or found exactly the one it meant, late keyring calls included.         *)
THEOREM CredentialsAreMeant == Spec => CredentialNotClobbered
  <1>1. IInv /\ [Next]_vars => [Meant]_vars
    BY NextKeeps
  <1>2. [][Meant]_vars <=> CredentialNotClobbered
    BY DEF Meant, CredentialNotClobbered
  <1> QED
    BY <1>1, <1>2, Invariance, PTL DEF Spec

(* Work finds no bearer of another account in the cache before it is told, *)
(* as long as start_native_login, which takes the lock but not             *)
(* `operations`, never has to clear the manager under a rotation.          *)
THEOREM CacheStaysHome == ASSUME LoginsReachKeyring PROVE Spec => []CachedBearerIsHome
  <1>1. IInv => CachedBearerIsHome
    BY DEF IInv, Cached, Marked, CachedBearerIsHome
  <1> QED
    BY <1>1, Invariance, PTL
=============================================================================
