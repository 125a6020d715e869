------------------------- MODULE AccountSwitchProofs -------------------------
(***************************************************************************)
(* Proofs about AccountSwitch: its type invariant, that every database     *)
(* operation lands in the database it was meant for, that no result        *)
(* outlives the reset of its account, and that the store is replaced only  *)
(* behind a drained barrier; for any number of reservations, prompts,      *)
(* commands, handlers, accounts and activations.                           *)
(***************************************************************************)
EXTENDS AccountSwitch, TLAPS

(* The steps of a switcher between taking account_transition and leaving.  *)
Inside == {"locked", "starting", "restarting", "begun", "arming", "checking",
           "blocked", "closing", "opening", "finishing", "finished"}

(* The steps between start_switch and finish_switch. *)
Behind == {"begun", "arming", "checking", "blocked", "closing", "opening", "finishing"}

(* The steps after the drain has succeeded. *)
Alone == {"closing", "opening", "finishing"}

(* Only the holder of account_transition is inside. *)
OneInside == \A s \in Switchers : step[s] \in Inside => transition = s

(* The barrier is up, and excludes the switcher's own guard. *)
BarrierUp ==
    \A s \in Switchers : step[s] \in Behind =>
        /\ switching
        /\ excluded = IF s \in Commands THEN s ELSE None

(* After the drain nothing is left but the switcher's own guard. *)
NobodyElse ==
    \A s \in Switchers : step[s] \in Alone => active \subseteq {excluded} /\ sessions = {}

(* Work in progress holds a guard. *)
GuardHeld == \A w \in Guarded : work[w] \notin {"idle", "done"} => w \in active

(* A guard of a store work or of a prompt, and a loaded session, are of    *)
(* the current activation of the store.                                    *)
AtHome ==
    /\ sessions \subseteq {Here}
    /\ \A w \in StoreWorks \cup Prompts : w \in active => home[w] = Here

(* A home is chosen before the first operation, and never again. *)
Settled == \A x \in wrote : work[x.by] # "idle"

(* Work that is still welcome was registered after the last reset. *)
Fresh ==
    \A w \in StoreWorks : w \in active /\ w \notin cancelled =>
        ~switching /\ born[w] = resets

(* A result is published once, by work that ends with it. *)
PublishedOnce == \A w \in StoreWorks : published[w] # None => work[w] = "done"

IInv ==
    /\ TypeOK /\ OneInside /\ BarrierUp /\ NobodyElse /\ GuardHeld
    /\ AtHome /\ Settled /\ Fresh /\ PublishedOnce
    /\ WritesStayHome /\ NoPublicationAfterReset

-----------------------------------------------------------------------------
(* Every action keeps the inductive invariant.                             *)

(* Reserving the tracker and binding to the store: the barrier is down. *)
LEMMA RegisterKeeps ==
    ASSUME IInv, NEW w \in StoreWorks, RegisterStore(w)
    PROVE  IInv'
  <1> USE SwitchAssumption DEF IInv, RegisterStore, Register, storeVars,
          trackerVars, registryVars, drainVars, workVars, clientVars,
          switchVars, Guarded, Switchers, Here
  <1>1. TypeOK'
    BY DEF TypeOK, Home
  <1>2. NobodyElse'
    BY DEF NobodyElse, TypeOK, OneInside, BarrierUp, Inside, Behind, Alone
  <1>3. GuardHeld'
    BY DEF GuardHeld, TypeOK
  <1>4. AtHome'
    BY DEF AtHome, TypeOK, NobodyElse, Alone
  <1>5. Settled'
    BY DEF Settled, TypeOK
  <1>6. Fresh'
    BY DEF Fresh, TypeOK, BarrierUp, Inside, Behind, Alone
  <1>7. PublishedOnce'
    BY DEF PublishedOnce, TypeOK
  <1>8. WritesStayHome'
    BY DEF WritesStayHome, TypeOK, Settled
  <1>9. NoPublicationAfterReset'
    BY DEF NoPublicationAfterReset, TypeOK, Fresh, PublishedOnce
  <1> QED  BY <1>1, <1>2, <1>3, <1>4, <1>5, <1>6, <1>7, <1>8, <1>9 DEF
          OneInside, BarrierUp

(* A check that succeeds only advances the work. *)
LEMMA EnsureCurrentKeeps ==
    ASSUME IInv, NEW w \in StoreWorks, EnsureCurrent(w)
    PROVE  IInv'
  <1> USE SwitchAssumption DEF IInv, EnsureCurrent, storeVars, trackerVars,
          registryVars, drainVars, workVars, clientVars, switchVars, Guarded,
          Switchers, Here
  <1>1. TypeOK'
    <2>1. work' \in [Guarded -> {"idle", "bound", "checked", "operated", "confirmed",
                                "running", "done"}]
      BY DEF TypeOK
    <2> QED  BY <2>1 DEF TypeOK
  <1>2. GuardHeld'
    BY DEF GuardHeld, TypeOK
  <1>3. Settled'
    BY DEF Settled, TypeOK
  <1>4. PublishedOnce'
    BY DEF PublishedOnce, TypeOK
  <1> QED  BY <1>1, <1>2, <1>3, <1>4 DEF OneInside, BarrierUp, NobodyElse,
          AtHome, Fresh, WritesStayHome, NoPublicationAfterReset

(* The store operation checks the binding under its lock. *)
LEMMA OperateKeeps ==
    ASSUME IInv, NEW w \in StoreWorks, Operate(w)
    PROVE  IInv'
  <1> USE SwitchAssumption DEF IInv, Operate, storeVars, trackerVars,
          registryVars, drainVars, workVars, clientVars, switchVars, Guarded,
          Switchers, Here
  <1>1. TypeOK'
    BY DEF TypeOK, Home
  <1>2. GuardHeld'
    BY DEF GuardHeld, TypeOK
  <1>3. Settled'
    BY DEF Settled, TypeOK
  <1>4. PublishedOnce'
    BY DEF PublishedOnce, TypeOK
  <1>5. WritesStayHome'
    <2>1. home[w] = [account |-> connection, generation |-> generation]
      BY DEF TypeOK, BindingMatches
    <2> SUFFICES ASSUME NEW x \in wrote'
                 PROVE  home'[x.by] = [account |-> x.account, generation |-> x.generation]
      BY DEF WritesStayHome
    <2>2. CASE x \in wrote
      BY <2>2 DEF WritesStayHome
    <2>3. CASE x = [by |-> w, account |-> connection, generation |-> generation]
      BY <2>1, <2>3
    <2> QED  BY <2>2, <2>3
  <1> QED  BY <1>1, <1>2, <1>3, <1>4, <1>5 DEF OneInside, BarrierUp,
          NobodyElse, AtHome, Fresh, NoPublicationAfterReset

(* A publication is decided under the tracker's lock and ends the work. *)
LEMMA PublishKeeps ==
    ASSUME IInv, NEW w \in StoreWorks, Publish(w)
    PROVE  IInv'
  <1> USE SwitchAssumption DEF IInv, Publish, DropGuard, MayPublish, storeVars,
          trackerVars, registryVars, drainVars, workVars, clientVars,
          switchVars, Guarded, Switchers, Here
  <1>1. TypeOK'
    BY DEF TypeOK, AtHome, GuardHeld, Home
  <1>2. NobodyElse'
    BY DEF NobodyElse, TypeOK, OneInside, BarrierUp, AtHome, GuardHeld, Inside,
          Behind, Alone
  <1>3. GuardHeld'
    BY DEF GuardHeld, TypeOK, AtHome
  <1>4. AtHome'
    BY DEF AtHome, TypeOK, NobodyElse, GuardHeld, Alone
  <1>5. Settled'
    BY DEF Settled, TypeOK, AtHome, GuardHeld
  <1>6. Fresh'
    BY DEF Fresh, TypeOK, BarrierUp, AtHome, GuardHeld, Inside, Behind, Alone
  <1>7. PublishedOnce'
    BY DEF PublishedOnce, TypeOK, AtHome, GuardHeld
  <1>8. NoPublicationAfterReset'
    BY DEF NoPublicationAfterReset, TypeOK, Fresh, PublishedOnce, AtHome,
          GuardHeld
  <1> QED  BY <1>1, <1>2, <1>3, <1>4, <1>5, <1>6, <1>7, <1>8 DEF OneInside,
          BarrierUp, WritesStayHome

(* Dropping a guard ends its work: a failed check, a finished prompt, a    *)
(* cancelled command.                                                      *)
LEMMA EndsKeeps ==
    ASSUME IInv, NEW w \in Guarded, Ends(w)
    PROVE  IInv'
  <1> USE SwitchAssumption DEF IInv, Ends, DropGuard, storeVars, trackerVars,
          registryVars, drainVars, workVars, clientVars, switchVars, Guarded,
          Switchers, Here
  <1>1. TypeOK'
    BY DEF TypeOK, Home
  <1>2. NobodyElse'
    BY DEF NobodyElse, TypeOK, OneInside, BarrierUp, Inside, Behind, Alone
  <1>3. GuardHeld'
    BY DEF GuardHeld, TypeOK
  <1>4. AtHome'
    BY DEF AtHome, TypeOK, NobodyElse, Alone
  <1>5. Settled'
    BY DEF Settled, TypeOK
  <1>6. Fresh'
    BY DEF Fresh, TypeOK, BarrierUp, Inside, Behind, Alone
  <1>7. PublishedOnce'
    BY DEF PublishedOnce, TypeOK
  <1> QED  BY <1>1, <1>2, <1>3, <1>4, <1>5, <1>6, <1>7 DEF OneInside,
          BarrierUp, WritesStayHome, NoPublicationAfterReset

(* A session is loaded from the current store, with the barrier down. *)
LEMMA LoadSessionKeeps ==
    ASSUME IInv, LoadSession
    PROVE  IInv'
  <1> USE SwitchAssumption DEF IInv, LoadSession, storeVars, trackerVars,
          registryVars, drainVars, workVars, clientVars, switchVars, Guarded,
          Switchers, Here
  <1>1. TypeOK'
    BY DEF TypeOK, Home
  <1>2. NobodyElse'
    BY DEF NobodyElse, TypeOK, OneInside, BarrierUp, Inside, Behind, Alone
  <1>3. AtHome'
    BY DEF AtHome, TypeOK, NobodyElse, Alone, BarrierUp, Behind
  <1> QED  BY <1>1, <1>2, <1>3 DEF OneInside, BarrierUp, GuardHeld, Settled,
          Fresh, PublishedOnce, WritesStayHome, NoPublicationAfterReset

(* A prompt takes the home of a loaded session. *)
LEMMA StartPromptKeeps ==
    ASSUME IInv, NEW w \in Prompts \cup Commands, StartPrompt(w)
    PROVE  IInv'
  <1> USE SwitchAssumption DEF IInv, StartPrompt, Register, storeVars,
          trackerVars, registryVars, drainVars, workVars, clientVars,
          switchVars, Guarded, Switchers, Here
  <1>1. TypeOK'
    BY DEF TypeOK, Home
  <1>2. NobodyElse'
    BY DEF NobodyElse, TypeOK, OneInside, BarrierUp, Inside, Behind, Alone
  <1>3. GuardHeld'
    BY DEF GuardHeld, TypeOK
  <1>4. AtHome'
    BY DEF AtHome, TypeOK, NobodyElse, Alone
  <1>5. Settled'
    BY DEF Settled, TypeOK
  <1>6. Fresh'
    BY DEF Fresh, TypeOK, BarrierUp, Inside, Behind, Alone
  <1>7. PublishedOnce'
    BY DEF PublishedOnce, TypeOK
  <1>8. WritesStayHome'
    <2> SUFFICES ASSUME NEW x \in wrote
                 PROVE  home'[x.by] = [account |-> x.account, generation |-> x.generation]
      BY DEF WritesStayHome
    <2>1. x.by \in Guarded /\ x.by # w
      BY DEF Settled, TypeOK
    <2>2. home'[x.by] = home[x.by]
      BY <2>1 DEF TypeOK
    <2> QED  BY <2>2 DEF WritesStayHome
  <1>9. NoPublicationAfterReset'
    BY DEF NoPublicationAfterReset, TypeOK, Fresh, PublishedOnce
  <1> QED  BY <1>1, <1>2, <1>3, <1>4, <1>5, <1>6, <1>7, <1>8, <1>9 DEF
          OneInside, BarrierUp

(* A prompt writes to the unbound store, which is still its own. *)
LEMMA PromptAppendKeeps ==
    ASSUME IInv, NEW w \in Prompts, PromptAppend(w)
    PROVE  IInv'
  <1> USE SwitchAssumption DEF IInv, PromptAppend, storeVars, trackerVars,
          registryVars, drainVars, workVars, clientVars, switchVars, Guarded,
          Switchers, Here
  <1>1. TypeOK'
    BY DEF TypeOK, AtHome, GuardHeld, Home
  <1>2. Settled'
    BY DEF Settled, TypeOK, AtHome, GuardHeld
  <1>3. WritesStayHome'
    <2>1. home[w] = [account |-> connection, generation |-> generation]
      BY DEF TypeOK, AtHome, GuardHeld
    <2> SUFFICES ASSUME NEW x \in wrote'
                 PROVE  home'[x.by] = [account |-> x.account, generation |-> x.generation]
      BY DEF WritesStayHome
    <2>2. CASE x \in wrote
      BY <2>2 DEF WritesStayHome
    <2>3. CASE x = [by |-> w, account |-> connection, generation |-> generation]
      BY <2>1, <2>3
    <2> QED  BY <2>2, <2>3
  <1> QED  BY <1>1, <1>2, <1>3 DEF OneInside, BarrierUp, NobodyElse, GuardHeld,
          AtHome, Fresh, PublishedOnce, NoPublicationAfterReset

(* The wake-up after a drop changes nothing but the drain. *)
LEMMA NotifyKeeps ==
    ASSUME IInv, NEW w \in Guarded, NotifyWaiters(w)
    PROVE  IInv'
  <1> USE SwitchAssumption DEF IInv, NotifyWaiters, storeVars, trackerVars,
          registryVars, drainVars, workVars, clientVars, switchVars, Guarded,
          Switchers, Here
  <1>1. TypeOK'
    BY DEF TypeOK, Home
  <1> QED  BY <1>1 DEF OneInside, BarrierUp, NobodyElse, GuardHeld, AtHome,
          Settled, Fresh, PublishedOnce, WritesStayHome,
          NoPublicationAfterReset

(* Asking for a switch takes no lock. *)
LEMMA AsksKeeps ==
    ASSUME IInv, NEW s \in Switchers, NEW r \in {"status", "login", "logout"},
           NEW t \in Accounts \cup {None}, Asks(s, r, t)
    PROVE  IInv'
  <1> USE SwitchAssumption DEF IInv, Asks, MoveTo, storeVars, trackerVars,
          registryVars, drainVars, workVars, clientVars, switchVars, Guarded,
          Switchers, Here
  <1>1. TypeOK'
    BY DEF TypeOK, Home
  <1>2. OneInside'
    BY DEF OneInside, TypeOK, Inside, Behind, Alone
  <1>3. BarrierUp'
    BY DEF BarrierUp, OneInside, TypeOK, Inside, Behind, Alone
  <1>4. NobodyElse'
    BY DEF NobodyElse, TypeOK, OneInside, BarrierUp, Inside, Behind, Alone
  <1> QED  BY <1>1, <1>2, <1>3, <1>4 DEF GuardHeld, AtHome, Settled, Fresh,
          PublishedOnce, WritesStayHome, NoPublicationAfterReset

(* account_transition is taken when nobody is inside. *)
LEMMA LockKeeps ==
    ASSUME IInv, NEW s \in Switchers, LockTransition(s)
    PROVE  IInv'
  <1> USE SwitchAssumption DEF IInv, LockTransition, MoveTo, storeVars,
          trackerVars, registryVars, drainVars, workVars, clientVars,
          switchVars, Guarded, Switchers, Here
  <1>1. TypeOK'
    BY DEF TypeOK, Home
  <1>2. OneInside'
    BY DEF OneInside, TypeOK, Inside, Behind, Alone
  <1>3. BarrierUp'
    BY DEF BarrierUp, OneInside, TypeOK, Inside, Behind, Alone
  <1>4. NobodyElse'
    BY DEF NobodyElse, TypeOK, OneInside, BarrierUp, Inside, Behind, Alone
  <1> QED  BY <1>1, <1>2, <1>3, <1>4 DEF GuardHeld, AtHome, Settled, Fresh,
          PublishedOnce, WritesStayHome, NoPublicationAfterReset

(* A status that finds another account starts a switch under its lock. *)
LEMMA StatusSwitchesKeeps ==
    ASSUME IInv, NEW s \in Switchers, StatusSwitches(s)
    PROVE  IInv'
  <1> USE SwitchAssumption DEF IInv, StatusSwitches, MoveTo, storeVars,
          trackerVars, registryVars, drainVars, workVars, clientVars,
          switchVars, Guarded, Switchers, Here
  <1>1. TypeOK'
    BY DEF TypeOK, Home
  <1>2. OneInside'
    BY DEF OneInside, TypeOK, Inside, Behind, Alone
  <1>3. BarrierUp'
    BY DEF BarrierUp, OneInside, TypeOK, Inside, Behind, Alone
  <1>4. NobodyElse'
    BY DEF NobodyElse, TypeOK, OneInside, BarrierUp, Inside, Behind, Alone
  <1> QED  BY <1>1, <1>2, <1>3, <1>4 DEF GuardHeld, AtHome, Settled, Fresh,
          PublishedOnce, WritesStayHome, NoPublicationAfterReset

(* A switcher that leaves releases account_transition, and a command its   *)
(* guard; a barrier it could not drain stays up.                           *)
LEMMA LeaveKeeps ==
    ASSUME IInv, NEW s \in Switchers, NEW r \in {"ok", "failed"},
           step[s] \in Inside, Leave(s, r),
           UNCHANGED <<storeVars, registryVars, woken, home, wrote, clientVars, request,
                       target, cancelled>>
    PROVE  IInv'
  <1> USE SwitchAssumption DEF IInv, Leave, MoveTo, DropGuard, storeVars,
          trackerVars, registryVars, drainVars, workVars, clientVars,
          switchVars, Guarded, Switchers, Here
  <1>1. TypeOK'
    BY DEF TypeOK, Home
  <1>2. OneInside'
    BY DEF OneInside, TypeOK, Inside, Behind, Alone
  <1>3. BarrierUp'
    BY DEF BarrierUp, OneInside, TypeOK, Inside, Behind, Alone
  <1>4. NobodyElse'
    BY DEF NobodyElse, TypeOK, OneInside, BarrierUp, Inside, Behind, Alone
  <1>5. GuardHeld'
    BY DEF GuardHeld, TypeOK
  <1>6. AtHome'
    BY DEF AtHome, TypeOK, NobodyElse, Alone
  <1>7. Settled'
    BY DEF Settled, TypeOK
  <1>8. Fresh'
    BY DEF Fresh, TypeOK, BarrierUp, Inside, Behind, Alone
  <1>9. PublishedOnce'
    BY DEF PublishedOnce, TypeOK
  <1> QED  BY <1>1, <1>2, <1>3, <1>4, <1>5, <1>6, <1>7, <1>8, <1>9 DEF
          WritesStayHome, NoPublicationAfterReset

(* The barrier goes up and cancels every guard but the switcher's. *)
LEMMA BeginKeeps ==
    ASSUME IInv, NEW s \in Switchers, Begin(s)
    PROVE  IInv'
  <1> USE SwitchAssumption DEF IInv, Begin, MoveTo, storeVars, trackerVars,
          registryVars, drainVars, workVars, clientVars, switchVars, Guarded,
          Switchers, Here
  <1>1. TypeOK'
    BY DEF TypeOK, Home
  <1>2. OneInside'
    BY DEF OneInside, TypeOK, Inside, Behind, Alone
  <1>3. BarrierUp'
    BY DEF BarrierUp, OneInside, TypeOK, Inside, Behind, Alone
  <1>4. NobodyElse'
    BY DEF NobodyElse, TypeOK, OneInside, BarrierUp, Inside, Behind, Alone
  <1>5. Fresh'
    BY DEF Fresh, TypeOK, BarrierUp, Inside, Behind, Alone
  <1> QED  BY <1>1, <1>2, <1>3, <1>4, <1>5 DEF GuardHeld, AtHome, Settled,
          PublishedOnce, WritesStayHome, NoPublicationAfterReset

(* The reset is published when no welcome work is left. *)
LEMMA PublishResetKeeps ==
    ASSUME IInv, NEW s \in Switchers, PublishReset(s)
    PROVE  IInv'
  <1> USE SwitchAssumption DEF IInv, PublishReset, MoveTo, storeVars,
          trackerVars, registryVars, drainVars, workVars, clientVars,
          switchVars, Guarded, Switchers, Here
  <1>1. TypeOK'
    BY DEF TypeOK, Home
  <1>2. OneInside'
    BY DEF OneInside, TypeOK, Inside, Behind, Alone
  <1>3. BarrierUp'
    BY DEF BarrierUp, OneInside, TypeOK, Inside, Behind, Alone
  <1>4. NobodyElse'
    BY DEF NobodyElse, TypeOK, OneInside, BarrierUp, Inside, Behind, Alone
  <1>5. Fresh'
    BY DEF Fresh, TypeOK, BarrierUp, Inside, Behind, Alone
  <1> QED  BY <1>1, <1>2, <1>3, <1>4, <1>5 DEF GuardHeld, AtHome, Settled,
          PublishedOnce, WritesStayHome, NoPublicationAfterReset

(* The drain ends only when every other guard is gone. *)
LEMMA DrainKeeps ==
    ASSUME IInv, NEW s \in Switchers, Drain(s)
    PROVE  IInv'
  <1> USE SwitchAssumption DEF IInv, Drain, DrainLoop, DrainDone, Drained,
          MoveTo, storeVars, trackerVars, registryVars, drainVars, workVars,
          clientVars, switchVars, Guarded, Switchers, Here
  <1>1. TypeOK'
    <2>1. /\ sessions' \subseteq Home /\ woken' \in BOOLEAN
          /\ \E to \in {"arming", "checking", "blocked", "closing"} : MoveTo(s, to)
      BY DEF TypeOK
    <2> QED  BY <2>1 DEF TypeOK
  <1>2. OneInside'
    BY DEF OneInside, TypeOK, Inside, Behind, Alone
  <1>3. BarrierUp'
    BY DEF BarrierUp, OneInside, TypeOK, Inside, Behind, Alone
  <1>4. NobodyElse'
    BY DEF NobodyElse, TypeOK, OneInside, BarrierUp, Inside, Behind, Alone
  <1>5. AtHome'
    BY DEF AtHome, TypeOK, NobodyElse, Alone
  <1> QED  BY <1>1, <1>2, <1>3, <1>4, <1>5 DEF GuardHeld, Settled, Fresh,
          PublishedOnce, WritesStayHome, NoPublicationAfterReset

(* The store is closed when nobody else is left. *)
LEMMA CloseStoreKeeps ==
    ASSUME IInv, NEW s \in Switchers, CloseStore(s)
    PROVE  IInv'
  <1> USE SwitchAssumption DEF IInv, CloseStore, MoveTo, storeVars,
          trackerVars, registryVars, drainVars, workVars, clientVars,
          switchVars, Guarded, Switchers, Here
  <1>1. TypeOK'
    BY DEF TypeOK, Home
  <1>2. OneInside'
    BY DEF OneInside, TypeOK, Inside, Behind, Alone
  <1>3. BarrierUp'
    BY DEF BarrierUp, OneInside, TypeOK, Inside, Behind, Alone
  <1>4. NobodyElse'
    BY DEF NobodyElse, TypeOK, OneInside, BarrierUp, Inside, Behind, Alone
  <1>5. AtHome'
    BY DEF AtHome, TypeOK, NobodyElse, BarrierUp, Alone, Behind
  <1> QED  BY <1>1, <1>2, <1>3, <1>4, <1>5 DEF GuardHeld, Settled, Fresh,
          PublishedOnce, WritesStayHome, NoPublicationAfterReset

(* The store is opened when nobody else is left. *)
LEMMA OpenStoreKeeps ==
    ASSUME IInv, NEW s \in Switchers, OpenStore(s)
    PROVE  IInv'
  <1> USE SwitchAssumption DEF IInv, OpenStore, MoveTo, storeVars, trackerVars,
          registryVars, drainVars, workVars, clientVars, switchVars, Guarded,
          Switchers, Here
  <1>1. TypeOK'
    BY DEF TypeOK, Home
  <1>2. OneInside'
    BY DEF OneInside, TypeOK, Inside, Behind, Alone
  <1>3. BarrierUp'
    BY DEF BarrierUp, OneInside, TypeOK, Inside, Behind, Alone
  <1>4. NobodyElse'
    BY DEF NobodyElse, TypeOK, OneInside, BarrierUp, Inside, Behind, Alone
  <1>5. AtHome'
    BY DEF AtHome, TypeOK, NobodyElse, BarrierUp, Alone, Behind
  <1> QED  BY <1>1, <1>2, <1>3, <1>4, <1>5 DEF GuardHeld, Settled, Fresh,
          PublishedOnce, WritesStayHome, NoPublicationAfterReset

(* The barrier comes down for new work. *)
LEMMA FinishKeeps ==
    ASSUME IInv, NEW s \in Switchers, Finish(s)
    PROVE  IInv'
  <1> USE SwitchAssumption DEF IInv, Finish, MoveTo, storeVars, trackerVars,
          registryVars, drainVars, workVars, clientVars, switchVars, Guarded,
          Switchers, Here
  <1>1. TypeOK'
    BY DEF TypeOK, Home
  <1>2. OneInside'
    BY DEF OneInside, TypeOK, Inside, Behind, Alone
  <1>3. BarrierUp'
    BY DEF BarrierUp, OneInside, TypeOK, Inside, Behind, Alone
  <1>4. NobodyElse'
    BY DEF NobodyElse, TypeOK, OneInside, BarrierUp, Inside, Behind, Alone
  <1>5. Fresh'
    BY DEF Fresh, TypeOK, BarrierUp, Inside, Behind, Alone
  <1> QED  BY <1>1, <1>2, <1>3, <1>4, <1>5 DEF GuardHeld, AtHome, Settled,
          PublishedOnce, WritesStayHome, NoPublicationAfterReset

(* A login that is not valid switches again under the same lock. *)
LEMMA RevalidateKeeps ==
    ASSUME IInv, NEW s \in Switchers, Revalidate(s)
    PROVE  IInv'
  <1> USE SwitchAssumption DEF IInv, Revalidate, MoveTo, storeVars,
          trackerVars, registryVars, drainVars, workVars, clientVars,
          switchVars, Guarded, Switchers, Here
  <1>1. TypeOK'
    BY DEF TypeOK, Home
  <1>2. OneInside'
    BY DEF OneInside, TypeOK, Inside, Behind, Alone
  <1>3. BarrierUp'
    BY DEF BarrierUp, OneInside, TypeOK, Inside, Behind, Alone
  <1>4. NobodyElse'
    BY DEF NobodyElse, TypeOK, OneInside, BarrierUp, Inside, Behind, Alone
  <1> QED  BY <1>1, <1>2, <1>3, <1>4 DEF GuardHeld, AtHome, Settled, Fresh,
          PublishedOnce, WritesStayHome, NoPublicationAfterReset

(* The initial state, signed out, satisfies the invariant. *)
LEMMA InitIInv == Init => IInv
  <1> SUFFICES ASSUME Init PROVE IInv
    OBVIOUS
  <1>1. NoHome \in Home /\ 0 \in 0..MaxGeneration
    BY SwitchAssumption DEF NoHome, Home
  <1>2. TypeOK
    BY <1>1 DEF Init, TypeOK
  <1> QED
    BY <1>2 DEF Init, IInv, OneInside, BarrierUp, NobodyElse, GuardHeld, AtHome, Settled,
      Fresh, PublishedOnce, WritesStayHome, NoPublicationAfterReset, Guarded, Inside,
      Behind, Alone

(* Every step keeps the invariant. *)
LEMMA NextIInv == IInv /\ [Next]_vars => IInv'
  <1> SUFFICES ASSUME IInv, [Next]_vars PROVE IInv'
    OBVIOUS
  <1>1. ASSUME NEW w \in StoreWorks, StoreWork(w) PROVE IInv'
    BY <1>1, RegisterKeeps, EnsureCurrentKeeps, OperateKeeps, PublishKeeps, EndsKeeps
    DEF StoreWork, StoreWorkFails, Guarded
  <1>2. CASE LoadSession
    BY <1>2, LoadSessionKeeps
  <1>3. ASSUME NEW w \in Prompts \cup Commands, StartPrompt(w) PROVE IInv'
    BY <1>3, StartPromptKeeps
  <1>4. ASSUME NEW w \in Prompts, PromptAppend(w) \/ PromptEnds(w) PROVE IInv'
    BY <1>4, PromptAppendKeeps, EndsKeeps DEF PromptEnds, Guarded
  <1>5. ASSUME NEW w \in Guarded, NotifyWaiters(w) PROVE IInv'
    BY <1>5, NotifyKeeps
  <1>6. ASSUME NEW s \in Handlers,
               AskAccountStatus(s) \/ AskNativeLogin(s) \/ AskLogout(s)
        PROVE  IInv'
    BY <1>6, AsksKeeps DEF AskAccountStatus, AskNativeLogin, AskLogout, Switchers
  <1>7. ASSUME NEW s \in Commands, SlashLogin(s) \/ SlashLogout(s) \/ CommandCancelled(s)
        PROVE  IInv'
    BY <1>7, AsksKeeps, EndsKeeps
    DEF SlashLogin, SlashLogout, CommandCancelled, Switchers, Guarded
  <1>8. ASSUME NEW s \in Switchers, Switch(s) PROVE IInv'
    <2>1. CASE StatusSettled(s) \/ BeginFails(s) \/ DrainTimeout(s) \/ SwitchDone(s)
      <3>1. step[s] \in Inside
        BY <2>1 DEF StatusSettled, BeginFails, DrainTimeout, SwitchDone, Inside
      <3>2. /\ \E r \in {"ok", "failed"} : Leave(s, r)
            /\ UNCHANGED <<storeVars, registryVars, woken, home, wrote, clientVars,
                           request, target, cancelled>>
        BY <2>1 DEF StatusSettled, BeginFails, DrainTimeout, SwitchDone
      <3> QED  BY <3>1, <3>2, LeaveKeeps
    <2> QED
      BY <1>8, <2>1, LockKeeps, StatusSwitchesKeeps, BeginKeeps, PublishResetKeeps,
         DrainKeeps, CloseStoreKeeps, OpenStoreKeeps, FinishKeeps, RevalidateKeeps
      DEF Switch
  <1>9. CASE UNCHANGED vars
    BY <1>9
    DEF vars, IInv, TypeOK, OneInside, BarrierUp, NobodyElse, GuardHeld, AtHome, Settled,
        Fresh, PublishedOnce, WritesStayHome, NoPublicationAfterReset, Here, storeVars,
        trackerVars, registryVars, drainVars, workVars, clientVars, switchVars
  <1> QED  BY <1>1, <1>2, <1>3, <1>4, <1>5, <1>6, <1>7, <1>8, <1>9 DEF Next

(* The inductive invariant holds in every reachable state. *)
LEMMA SpecIInv == Spec => []IInv
  BY InitIInv, NextIInv, PTL DEF Spec

-----------------------------------------------------------------------------
(* Results. *)

(* Types, and that an open database is always the active account's and the *)
(* registry's flag is always the tracker's.                                *)
THEOREM TypeCorrect == Spec => []TypeOK
  BY SpecIInv, PTL DEF IInv

(* No store work and no prompt ever touches a database other than the one  *)
(* of the account and activation it was started for (SessionStore::lock,   *)
(* drain_account_switch), whatever is cancelled, late or deaf.             *)
THEOREM WritesAreHome == Spec => []WritesStayHome
  BY SpecIInv, PTL DEF IInv

(* No result computed from an account's data is published after the reset  *)
(* that ends the account (AccountStoreWork::publish, start_switch).        *)
THEOREM ResetEndsPublication == Spec => []NoPublicationAfterReset
  BY SpecIInv, PTL DEF IInv

(* A step that replaces the database is taken behind the barrier by a      *)
(* switcher whose drain has succeeded.                                     *)
LEMMA StoreStep ==
    ASSUME IInv, Next, connection' # connection \/ generation' # generation
    PROVE  /\ switching /\ accountSwitching
           /\ active \subseteq {excluded} /\ active' \subseteq {excluded}
  <1>1. PICK s \in Switchers : CloseStore(s) \/ OpenStore(s)
    BY DEF Next, StoreWork, RegisterStore, EnsureCurrent, Operate, StoreWorkFails, Publish,
       Ends, LoadSession, StartPrompt, PromptAppend, PromptEnds, NotifyWaiters, Asks,
       AskAccountStatus, AskNativeLogin, AskLogout, SlashLogin, SlashLogout,
       CommandCancelled, Switch, LockTransition, StatusSwitches, StatusSettled,
       BeginFails, Begin, PublishReset, Drain, DrainTimeout, Finish, Revalidate,
       SwitchDone, storeVars
  <1>2. step[s] \in Alone /\ step[s] \in Behind /\ active' = active
    BY <1>1 DEF CloseStore, OpenStore, Alone, Behind, trackerVars
  <1> QED  BY <1>2 DEF IInv, TypeOK, BarrierUp, NobodyElse

(* The database is replaced only behind the barrier, when no reservation   *)
(* but the switching command's own is left (drain_account_switch before    *)
(* activate_account and deactivate_account).                               *)
THEOREM StoreChangesDrained == Spec => StoreChangesOnlyWhenDrained
  <1> DEFINE Safe == connection' # connection \/ generation' # generation =>
                       /\ switching /\ accountSwitching
                       /\ active \subseteq {excluded} /\ active' \subseteq {excluded}
  <1>1. IInv /\ [Next]_vars => [Safe]_vars
    BY StoreStep
  <1>2. [][Safe]_vars <=> StoreChangesOnlyWhenDrained
    BY DEF StoreChangesOnlyWhenDrained
  <1> HIDE DEF Safe
  <1> QED  BY <1>1, <1>2, SpecIInv, PTL DEF Spec
=============================================================================
