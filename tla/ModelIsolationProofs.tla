------------------------- MODULE ModelIsolationProofs -------------------------
(***************************************************************************)
(* What is proved of the tenant memory under threads (memory_manager.py,      *)
(* multi_model.py), for any number of threads, tenants and calls: the usage   *)
(* of a tenant is exactly what it holds, the manager implements the ledger,   *)
(* a model has both its dictionaries or neither, and its statistics count     *)
(* what it holds.                                                           *)
(***************************************************************************)
EXTENDS ModelIsolationProps, CommonLemmas

Places ==
    {"idle", "allocLock", "allocQuota", "allocInsert", "account",
     "relLock", "relQuota", "relDelete", "enfScan", "enfNext", "enfDone",
     "accountWrite", "evictLock", "evictPick", "regStats", "cleanModel", "cleanStats"}

InAllocate == {"allocLock", "allocQuota", "allocInsert"}

(* What is known of a call at every step of it.                              *)
IsCall(c) ==
    /\ c \in [at : Places, tenant : Tenants \cup {"none"}, size : SizesOf \cup {0},
              id : {c.id}, seen : SUBSET Tenants, scan : SUBSET Tenants,
              todo : {c.todo}, over : SUBSET Tenants,
              back : {"idle", "account", "enfNext", "evictPick"}]
    /\ c.at \in InAllocate => c.tenant \in Tenants /\ c.size \in SizesOf /\ c.back = "account"
    /\ c.back = "account" => c.at \in InAllocate \cup {"account", "accountWrite"}
    /\ c.at \in {"account", "accountWrite"} => c.tenant \in Tenants /\ c.back = "account"
    /\ c.back = "evictPick" => c.at = "relLock"
    /\ c.at \in {"regStats", "cleanStats"} => c.tenant \in Tenants /\ c.back = "idle"
    /\ c.at \in {"cleanModel", "idle"} => c.back = "idle"

(* The calls that hold the manager's lock; an evict keeps it in its release. *)
Holds(c) ==
    c.at \in {"allocQuota", "allocInsert", "relQuota", "relDelete", "evictPick"} \/ c.back = "evictPick"

Types ==
    /\ nextId \in Nat
    /\ DOMAIN allocations \subseteq 0 .. nextId - 1
    /\ allocations \in [DOMAIN allocations -> [tenant : Tenants, size : SizesOf]]
    /\ usage \in [Tenants -> Nat]
    /\ quota \in [Tenants -> Nat]
    /\ known \subseteq Tenants
    /\ stats \subseteq Tenants
    /\ call \in [Threads -> {call[th] : th \in Threads}]
    /\ \A th \in Threads : IsCall(call[th])

Exclusion ==
    \A th \in Threads :
        /\ Holds(call[th]) => lock = th
        /\ call[th].at \in {"relQuota", "relDelete"} => call[th].id \in DOMAIN allocations

(* A step of a thread as the lock sees it.                                   *)
LockStep(th, c) ==
    \/ lock' = lock /\ (Holds(c) => Holds(call[th]))
    \/ lock = Free /\ lock' = th
    \/ Holds(call[th]) /\ ~Holds(c) /\ lock' = Free

(* A step of one thread that keeps the allocations and its own call in order  *)
(* keeps all of them in order.                                              *)
LEMMA OneThreadAtATime ==
    ASSUME Types, Exclusion, NEW th \in Threads, NEW c,
           IsCall(c), call' = [call EXCEPT ![th] = c], LockStep(th, c),
           \A x \in Threads \ {th} : call[x].at \in {"relQuota", "relDelete"} =>
                call[x].id \in DOMAIN allocations',
           c.at \in {"relQuota", "relDelete"} => c.id \in DOMAIN allocations'
    PROVE  /\ call' \in [Threads -> {call'[x] : x \in Threads}]
           /\ \A x \in Threads : IsCall(call'[x])
           /\ Exclusion'
<1>1. \A x \in Threads : call'[x] = IF x = th THEN c ELSE call[x]
  BY DEF Types
<1>2. ASSUME NEW x \in Threads, Holds(call'[x])
      PROVE  lock' = x
  BY <1>1, <1>2, TenantAssumption DEF LockStep, Exclusion
<1>3. DOMAIN call' = Threads
  BY DEF Types
<1> QED
  BY <1>1, <1>2, <1>3 DEF Types, Exclusion

Inv == Types /\ Exclusion

\* The types but those of the calls.
SharedTypes ==
    /\ nextId \in Nat
    /\ DOMAIN allocations \subseteq 0 .. nextId - 1
    /\ allocations \in [DOMAIN allocations -> [tenant : Tenants, size : SizesOf]]
    /\ usage \in [Tenants -> Nat]
    /\ quota \in [Tenants -> Nat]
    /\ known \subseteq Tenants
    /\ stats \subseteq Tenants

(* The steps that leave the allocations alone. *)
LEMMA QuietStep ==
    ASSUME Inv, NEW th \in Threads, NEW c,
           IsCall(c), call' = [call EXCEPT ![th] = c], LockStep(th, c),
           c.at \in {"relQuota", "relDelete"} => c.id \in DOMAIN allocations,
           UNCHANGED <<allocations, nextId>>,
           usage' \in [Tenants -> Nat], quota' \in [Tenants -> Nat],
           known' \subseteq Tenants, stats' \subseteq Tenants
    PROVE  Inv'
<1>1. \A x \in Threads \ {th} : call[x].at \in {"relQuota", "relDelete"} =>
          call[x].id \in DOMAIN allocations'
  BY DEF Inv, Exclusion
<1>2. /\ call' \in [Threads -> {call'[x] : x \in Threads}]
      /\ \A x \in Threads : IsCall(call'[x])
      /\ Exclusion'
  BY <1>1, OneThreadAtATime DEF Inv
<1> QED
  BY <1>2 DEF Inv, Types

LEMMA IdleCall == IsCall(Idle) /\ ~Holds(Idle) /\ Idle.at = "idle"
BY DEF IsCall, Idle, Places, InAllocate, Holds

\* A thread that is idle holds no lock.
LEMMA BeginCall ==
    ASSUME Inv, NEW th \in Threads, NEW op, NEW c, Begin(th, op, c), IsCall(c), ~Holds(c),
           c.at \notin {"relQuota", "relDelete"},
           UNCHANGED <<allocations, nextId, lock>>,
           usage' \in [Tenants -> Nat], quota' \in [Tenants -> Nat],
           known' \subseteq Tenants, stats' \subseteq Tenants
    PROVE  Inv'
<1>1. call' = [call EXCEPT ![th] = c] /\ LockStep(th, c)
  BY DEF Begin, Become, LockStep
<1> QED
  BY <1>1, QuietStep

LEMMA CallsKeepInv ==
    ASSUME Inv, NEW th \in Threads, IsolationCalls(th) \/ ManagerCalls(th)
    PROVE  Inv'
<1> USE DEF Inv, Types
<1>1. ASSUME NEW m \in Models, RegisterModel(th, m)
      PROVE  Inv'
  <2> DEFINE c == [Idle EXCEPT !.at = "regStats", !.tenant = m]
  <2>1. IsCall(c) /\ ~Holds(c) /\ c.at \notin {"relQuota", "relDelete"}
    BY DEF IsCall, Idle, Places, InAllocate, Holds, Models
  <2> QED
    BY <1>1, <2>1, BeginCall DEF RegisterModel, shared
<1>2. ASSUME NEW m \in Models, SwitchModel(th, m)
      PROVE  Inv'
  BY <1>2, IdleCall, BeginCall DEF SwitchModel, shared
<1>3. ASSUME NEW m \in Models, NEW size \in SizesOf, AllocateModelMemory(th, m, size)
      PROVE  Inv'
  <2> DEFINE c == [Idle EXCEPT !.at = "allocLock", !.tenant = m, !.size = size, !.back = "account"]
  <2>1. IsCall(c) /\ ~Holds(c) /\ c.at \notin {"relQuota", "relDelete"}
    BY DEF IsCall, Idle, Places, InAllocate, Holds, Models
  <2> QED
    BY <1>3, <2>1, BeginCall DEF AllocateModelMemory, shared, isolation
<1>4. ASSUME NEW m \in Models, NEW i \in 0 .. nextId - 1, ReleaseModelMemory(th, m, i)
      PROVE  Inv'
  <2> DEFINE c == [Idle EXCEPT !.at = "relLock", !.id = i]
  <2>1. IsCall(c) /\ ~Holds(c) /\ c.at \notin {"relQuota", "relDelete"}
    BY DEF IsCall, Idle, Places, InAllocate, Holds
  <2> QED
    BY <1>4, <2>1, BeginCall DEF ReleaseModelMemory, Release, shared, isolation
<1>5. ASSUME NEW inactive \in SUBSET stats, CleanupInactiveModels(th, inactive)
      PROVE  Inv'
  <2> DEFINE c == [Idle EXCEPT !.at = "cleanModel", !.scan = inactive]
  <2>1. IsCall(c) /\ ~Holds(c) /\ c.at \notin {"relQuota", "relDelete"}
    BY DEF IsCall, Idle, Places, InAllocate, Holds
  <2> QED
    BY <1>5, <2>1, BeginCall DEF CleanupInactiveModels, shared, isolation
<1>6. ASSUME NEW t \in Tenants, NEW q \in Quotas, SetQuota(th, t, q), UNCHANGED isolation
      PROVE  Inv'
  <2>1. quota' \in [Tenants -> Nat]
    BY <1>6, TenantAssumption DEF SetQuota
  <2> QED
    BY <1>6, <2>1, IdleCall, BeginCall DEF SetQuota, isolation
<1>7. ASSUME Enforce(th), UNCHANGED isolation
      PROVE  Inv'
  <2> DEFINE c == [Idle EXCEPT !.at = "enfScan", !.seen = known, !.scan = known]
  <2>1. IsCall(c) /\ ~Holds(c) /\ c.at \notin {"relQuota", "relDelete"}
    BY DEF IsCall, Idle, Places, InAllocate, Holds
  <2> QED
    BY <1>7, <2>1, BeginCall DEF Enforce, shared, isolation
<1>8. ASSUME Evict(th), UNCHANGED isolation
      PROVE  Inv'
  <2> DEFINE c == [Idle EXCEPT !.at = "evictLock"]
  <2>1. IsCall(c) /\ ~Holds(c) /\ c.at \notin {"relQuota", "relDelete"}
    BY DEF IsCall, Idle, Places, InAllocate, Holds
  <2> QED
    BY <1>8, <2>1, BeginCall DEF Evict, shared, isolation
<1> QED
  BY <1>1, <1>2, <1>3, <1>4, <1>5, <1>6, <1>7, <1>8 DEF IsolationCalls, ManagerCalls

\* Where a call stands after Goto and after Back.
CallAt(th, at) == [call[th] EXCEPT !.at = at]

BackTo(th, i) ==
    IF call[th].back = "idle" THEN Idle ELSE [call[th] EXCEPT !.at = call[th].back, !.id = i]

LEMMA GotoCall ==
    ASSUME Types, NEW th \in Threads, NEW at, Goto(th, at)
    PROVE  call' = [call EXCEPT ![th] = CallAt(th, at)]
BY DEF Goto, CallAt, Types

(* Whoever allocated or released is back at its place without the lock.      *)
LEMMA BackCall ==
    ASSUME Types, NEW th \in Threads, call[th].at \in {"allocInsert", "relLock", "relDelete"},
           call[th].back # "evictPick", NEW i
    PROVE  /\ IsCall(BackTo(th, i)) /\ ~Holds(BackTo(th, i))
           /\ BackTo(th, i).at \in {"idle", "account", "enfNext"}
           /\ BackTo(th, i).at = "account" => call[th].at = "allocInsert"
<1>1. IsCall(call[th])
  BY DEF Types
<1>2. CASE call[th].back = "idle"
  BY <1>2, IdleCall DEF BackTo
<1>3. CASE call[th].back # "idle"
  BY <1>1, <1>3 DEF BackTo, IsCall, Holds, Places, InAllocate
<1> QED
  BY <1>2, <1>3

LEMMA AllocateKeepsInv ==
    ASSUME Inv, NEW th \in Threads, UNCHANGED isolation,
           AllocLock(th) \/ AllocQuota(th) \/ AllocInsert(th)
    PROVE  Inv'
<1> USE DEF Inv
<1>0. IsCall(call[th]) /\ stats' \subseteq Tenants
  BY DEF Types, isolation
<1>1. CASE AllocLock(th)
  <2> DEFINE c == CallAt(th, "allocQuota")
  <2>1. call' = [call EXCEPT ![th] = c]
    BY <1>1, GotoCall DEF AllocLock
  <2>2. IsCall(c) /\ c.at = "allocQuota"
    BY <1>0, <1>1 DEF AllocLock, At, CallAt, IsCall, Places, InAllocate
  <2>3. LockStep(th, c)
    BY <1>1 DEF AllocLock, Acquire, LockStep
  <2> QED
    BY <1>0, <1>1, <2>1, <2>2, <2>3, QuietStep DEF AllocLock, Types
<1>2. CASE AllocQuota(th)
  <2> DEFINE t == call[th].tenant
             fits == usage[t] + call[th].size <= quota[t]
             c == IF fits THEN CallAt(th, "allocInsert") ELSE Idle
  <2>1. call' = [call EXCEPT ![th] = c]
    BY <1>2, GotoCall DEF AllocQuota, Become
  <2>2. /\ IsCall(CallAt(th, "allocInsert")) /\ CallAt(th, "allocInsert").at = "allocInsert"
        /\ t \in Tenants /\ call[th].size \in Nat
    BY <1>0, <1>2, TenantAssumption DEF AllocQuota, At, CallAt, IsCall, Places, InAllocate
  <2>3. IsCall(c) /\ c.at \in {"allocInsert", "idle"}
    BY <2>2, IdleCall
  <2>4. LockStep(th, c)
    <3>1. Holds(call[th])
      BY <1>2 DEF AllocQuota, At, Holds
    <3> QED
      BY <1>2, <3>1, IdleCall DEF AllocQuota, LockStep
  <2>5. usage' \in [Tenants -> Nat] /\ known' \subseteq Tenants
    BY <1>2, <2>2 DEF AllocQuota, Types
  <2> QED
    BY <1>0, <1>2, <2>1, <2>3, <2>4, <2>5, QuietStep DEF AllocQuota, Types
<1>3. CASE AllocInsert(th)
  <2> DEFINE c == BackTo(th, nextId)
  <2>1. call' = [call EXCEPT ![th] = c]
    BY <1>3 DEF AllocInsert, Back, Become, BackTo
  <2>2. IsCall(c) /\ ~Holds(c) /\ c.at \in {"idle", "account", "enfNext"}
    <3>1. call[th].back # "evictPick"
      BY <1>0, <1>3 DEF AllocInsert, At, IsCall
    <3> QED
      BY <1>3, <3>1, BackCall DEF AllocInsert, At
  <2>3. LockStep(th, c)
    BY <1>3, <2>2 DEF AllocInsert, At, Holds, LockStep
  <2>4. /\ nextId' \in Nat
        /\ DOMAIN allocations' \subseteq 0 .. nextId' - 1
        /\ allocations' \in [DOMAIN allocations' -> [tenant : Tenants, size : SizesOf]]
        /\ DOMAIN allocations \subseteq DOMAIN allocations'
    <3>1. call[th].tenant \in Tenants /\ call[th].size \in SizesOf
      BY <1>0, <1>3 DEF AllocInsert, At, IsCall, InAllocate
    <3>2. DOMAIN allocations' = DOMAIN allocations \cup {nextId} /\ nextId' = nextId + 1
      BY <1>3 DEF AllocInsert
    <3>3. \A i \in DOMAIN allocations' : allocations'[i] \in [tenant : Tenants, size : SizesOf]
      BY <1>3, <3>1, <3>2 DEF AllocInsert, Types
    <3>4. allocations' = [i \in DOMAIN allocations' |-> allocations'[i]]
      BY <1>3 DEF AllocInsert
    <3>5. nextId \in Nat /\ DOMAIN allocations \subseteq 0 .. nextId - 1
      BY DEF Types
    <3>6. DOMAIN allocations' \subseteq 0 .. nextId' - 1
      BY <3>2, <3>5
    <3> QED
      BY <3>2, <3>3, <3>4, <3>5, <3>6
  <2>5. \A x \in Threads \ {th} : call[x].at \in {"relQuota", "relDelete"} =>
            call[x].id \in DOMAIN allocations'
    BY <2>4 DEF Exclusion
  <2>6. /\ call' \in [Threads -> {call'[x] : x \in Threads}]
        /\ \A x \in Threads : IsCall(call'[x])
        /\ Exclusion'
    BY <2>1, <2>2, <2>3, <2>5, OneThreadAtATime
  <2> QED
    BY <1>0, <1>3, <2>4, <2>6 DEF AllocInsert, Types
<1> QED
  BY <1>1, <1>2, <1>3

LEMMA ReleaseKeepsInv ==
    ASSUME Inv, NEW th \in Threads, UNCHANGED isolation,
           ReleaseLock(th) \/ ReleaseQuota(th) \/ ReleaseDelete(th)
    PROVE  Inv'
<1> USE DEF Inv
<1>0. IsCall(call[th]) /\ stats' \subseteq Tenants
  BY DEF Types, isolation
<1>1. CASE ReleaseLock(th)
  <2>1. call[th].back # "evictPick"
    BY <1>1, TenantAssumption DEF ReleaseLock, Exclusion, Holds
  <2>2. CASE call[th].id \in DOMAIN allocations
    <3> DEFINE c == CallAt(th, "relQuota")
    <3>1. call' = [call EXCEPT ![th] = c] /\ LockStep(th, c)
      BY <1>1, <2>2, GotoCall DEF ReleaseLock, LockStep
    <3>2. IsCall(c) /\ c.id = call[th].id
      BY <1>0, <1>1, <2>1 DEF ReleaseLock, At, CallAt, IsCall, Places, InAllocate
    <3> QED
      BY <1>0, <1>1, <2>2, <3>1, <3>2, QuietStep DEF ReleaseLock, Types
  <2>3. CASE call[th].id \notin DOMAIN allocations
    <3> DEFINE c == BackTo(th, call[th].id)
    <3>1. IsCall(c) /\ ~Holds(c) /\ c.at \in {"idle", "account", "enfNext"}
      BY <1>1, <2>1, BackCall DEF ReleaseLock, At
    <3>2. call' = [call EXCEPT ![th] = c] /\ LockStep(th, c)
      BY <1>1, <2>3, <3>1 DEF ReleaseLock, Back, Become, BackTo, LockStep
    <3> QED
      BY <1>0, <1>1, <3>1, <3>2, QuietStep DEF ReleaseLock, Types
  <2> QED
    BY <2>2, <2>3
<1>2. CASE ReleaseQuota(th)
  <2> DEFINE c == CallAt(th, "relDelete")
             a == allocations[call[th].id]
  <2>1. call' = [call EXCEPT ![th] = c]
    BY <1>2, GotoCall DEF ReleaseQuota
  <2>2. IsCall(c) /\ c.id = call[th].id /\ Holds(call[th])
    BY <1>0, <1>2 DEF ReleaseQuota, At, CallAt, IsCall, Places, InAllocate, Holds
  <2>3. call[th].id \in DOMAIN allocations
    BY <1>2 DEF ReleaseQuota, At, Exclusion
  <2>4. usage' \in [Tenants -> Nat]
    <3>1. a.tenant \in Tenants /\ a.size \in Nat
      BY <2>3, TenantAssumption DEF Types
    <3>2. (IF usage[a.tenant] > a.size THEN usage[a.tenant] - a.size ELSE 0) \in Nat
      BY <3>1 DEF Types
    <3> HIDE DEF a
    <3> QED
      BY <1>2, <3>1, <3>2 DEF ReleaseQuota, Types, a
  <2>5. LockStep(th, c)
    BY <1>2, <2>2 DEF ReleaseQuota, LockStep
  <2> QED
    BY <1>0, <1>2, <2>1, <2>2, <2>3, <2>4, <2>5, QuietStep DEF ReleaseQuota, Types
<1>3. CASE ReleaseDelete(th)
  <2> DEFINE c == BackTo(th, call[th].id)
  <2>1. call' = [call EXCEPT ![th] = c]
    BY <1>3 DEF ReleaseDelete, Back, Become, BackTo
  <2>2. IsCall(c) /\ ~Holds(c) /\ c.at \in {"idle", "account", "enfNext"}
    <3>1. call[th].back # "evictPick"
      BY <1>0, <1>3 DEF ReleaseDelete, At, IsCall
    <3> QED
      BY <1>3, <3>1, BackCall DEF ReleaseDelete, At
  <2>3. Holds(call[th]) /\ LockStep(th, c)
    BY <1>3, <2>2 DEF ReleaseDelete, At, Holds, LockStep
  <2>4. /\ DOMAIN allocations' \subseteq 0 .. nextId - 1
        /\ allocations' \in [DOMAIN allocations' -> [tenant : Tenants, size : SizesOf]]
    BY <1>3 DEF ReleaseDelete, Types
  <2>5. \A x \in Threads \ {th} : call[x].at \notin {"relQuota", "relDelete"}
    BY <2>3 DEF Exclusion, Holds
  <2>6. /\ call' \in [Threads -> {call'[x] : x \in Threads}]
        /\ \A x \in Threads : IsCall(call'[x])
        /\ Exclusion'
    BY <2>1, <2>2, <2>3, <2>5, OneThreadAtATime
  <2> QED
    BY <1>0, <1>3, <2>4, <2>6 DEF ReleaseDelete, Types
<1> QED
  BY <1>1, <1>2, <1>3

LEMMA EnforceKeepsInv ==
    ASSUME Inv, NEW th \in Threads, UNCHANGED isolation,
           EnforceScan(th) \/ EnforceRaises(th) \/ EnforceList(th) \/ EnforceNext(th) \/ EnforceReturn(th)
    PROVE  Inv'
<1> USE DEF Inv
<1>0. IsCall(call[th]) /\ stats' \subseteq Tenants
  BY DEF Types, isolation
<1>1. ASSUME NEW c, IsCall(c), ~Holds(c), c.at \notin {"relQuota", "relDelete"},
             call' = [call EXCEPT ![th] = c], UNCHANGED shared
      PROVE  Inv'
  <2>1. LockStep(th, c)
    BY <1>1 DEF LockStep, shared
  <2> QED
    BY <1>0, <1>1, <2>1, QuietStep DEF shared, Types
<1>2. CASE EnforceScan(th)
  <2>1. PICK t \in call[th].scan :
          LET over == IF OverQuota(t) THEN {t} ELSE {} IN
          call' = [call EXCEPT ![th].scan = @ \ {t}, ![th].over = @ \cup over]
    BY <1>2 DEF EnforceScan
  <2> DEFINE c == [call[th] EXCEPT !.scan = @ \ {t},
                                   !.over = @ \cup (IF OverQuota(t) THEN {t} ELSE {})]
  <2>2. call' = [call EXCEPT ![th] = c]
    BY <2>1 DEF Types
  <2>3. IsCall(c) /\ c.at = "enfScan" /\ c.back # "evictPick"
    BY <1>0, <1>2 DEF EnforceScan, At, IsCall, Places, InAllocate
  <2> QED
    BY <1>1, <1>2, <2>2, <2>3 DEF EnforceScan, Holds
<1>3. CASE EnforceRaises(th) \/ EnforceReturn(th)
  BY <1>1, <1>3, IdleCall DEF EnforceRaises, EnforceReturn, Become
<1>4. CASE EnforceList(th)
  <2>1. call[th].at \in {"enfScan", "enfNext"}
    BY <1>4 DEF EnforceList, Listing, At
  <2>2. CASE call[th].over = {}
    <3> DEFINE c == CallAt(th, "enfDone")
    <3>1. call' = [call EXCEPT ![th] = c]
      BY <1>4, <2>2, GotoCall DEF EnforceList
    <3>2. IsCall(c) /\ c.at = "enfDone" /\ c.back # "evictPick"
      BY <1>0, <2>1 DEF CallAt, IsCall, Places, InAllocate
    <3> QED
      BY <1>1, <1>4, <3>1, <3>2 DEF EnforceList, Holds
  <2>3. CASE call[th].over # {}
    <3>1. PICK t \in call[th].over : \E ids :
            call' = [call EXCEPT ![th] = [call[th] EXCEPT
                  !.at = "enfNext", !.over = @ \ {t}, !.todo = ids]]
      BY <1>4, <2>3 DEF EnforceList, Become
    <3>2. PICK ids :
            call' = [call EXCEPT ![th] = [call[th] EXCEPT
                  !.at = "enfNext", !.over = @ \ {t}, !.todo = ids]]
      BY <3>1
    <3> DEFINE c == [call[th] EXCEPT !.at = "enfNext", !.over = @ \ {t}, !.todo = ids]
    <3>3. IsCall(c) /\ c.at = "enfNext" /\ c.back # "evictPick"
      BY <1>0, <2>1 DEF IsCall, Places, InAllocate
    <3> QED
      BY <1>1, <1>4, <3>2, <3>3 DEF EnforceList, Holds
  <2> QED
    BY <2>2, <2>3
<1>5. CASE EnforceNext(th)
  <2> DEFINE c == [call[th] EXCEPT !.at = "relLock", !.id = Head(call[th].todo),
                                   !.todo = Tail(call[th].todo), !.back = "enfNext"]
  <2>1. IsCall(c) /\ c.at = "relLock" /\ c.back = "enfNext"
    BY <1>0, <1>5 DEF EnforceNext, At, IsCall, Places, InAllocate
  <2> QED
    BY <1>1, <1>5, <2>1 DEF EnforceNext, Become, Holds
<1> QED
  BY <1>2, <1>3, <1>4, <1>5

LEMMA EvictKeepsInv ==
    ASSUME Inv, NEW th \in Threads, UNCHANGED isolation, EvictLock(th) \/ EvictPick(th)
    PROVE  Inv'
<1> USE DEF Inv
<1>0. IsCall(call[th]) /\ stats' \subseteq Tenants
  BY DEF Types, isolation
<1>1. CASE EvictLock(th)
  <2> DEFINE c == CallAt(th, "evictPick")
  <2>1. call' = [call EXCEPT ![th] = c] /\ LockStep(th, c)
    BY <1>1, GotoCall DEF EvictLock, Acquire, LockStep
  <2>2. IsCall(c) /\ c.at = "evictPick"
    BY <1>0, <1>1 DEF EvictLock, At, CallAt, IsCall, Places, InAllocate
  <2> QED
    BY <1>0, <1>1, <2>1, <2>2, QuietStep DEF EvictLock, Types
<1>2. CASE EvictPick(th)
  <2>1. Holds(call[th])
    BY <1>2 DEF EvictPick, At, Holds
  <2>2. CASE lock' = Free /\ Become(th, Idle)
    <3>1. call' = [call EXCEPT ![th] = Idle] /\ LockStep(th, Idle)
      BY <2>1, <2>2, IdleCall DEF Become, LockStep
    <3> QED
      BY <1>0, <1>2, <3>1, IdleCall, QuietStep DEF EvictPick, Types
  <2>3. ASSUME NEW i \in DOMAIN allocations,
               Become(th, [call[th] EXCEPT !.at = "relLock", !.id = i, !.back = "evictPick"]),
               UNCHANGED lock
        PROVE  Inv'
    <3> DEFINE c == [call[th] EXCEPT !.at = "relLock", !.id = i, !.back = "evictPick"]
    <3>1. call' = [call EXCEPT ![th] = c] /\ LockStep(th, c)
      BY <2>1, <2>3 DEF Become, LockStep
    <3>2. IsCall(c) /\ c.at = "relLock"
      BY <1>0, <1>2 DEF EvictPick, At, IsCall, Places, InAllocate
    <3> QED
      BY <1>0, <1>2, <3>1, <3>2, QuietStep DEF EvictPick, Types
  <2> QED
    BY <1>2, <2>2, <2>3 DEF EvictPick
<1> QED
  BY <1>1, <1>2

LEMMA IsolationKeepsInv ==
    ASSUME Inv, NEW th \in Threads,
           RegisterStats(th) \/ AccountRead(th) \/ AccountWrite(th) \/ CleanModel(th) \/ CleanStats(th)
    PROVE  Inv'
<1> USE DEF Inv
<1>0. IsCall(call[th])
  BY DEF Types
<1>1. ASSUME NEW c, IsCall(c), ~Holds(c), c.at \notin {"relQuota", "relDelete"},
             call' = [call EXCEPT ![th] = c], UNCHANGED shared, stats' \subseteq Tenants
      PROVE  Inv'
  <2>1. LockStep(th, c)
    BY <1>1 DEF LockStep, shared
  <2> QED
    BY <1>1, <2>1, QuietStep DEF shared, Types
<1>2. CASE RegisterStats(th)
  <2>1. stats' \subseteq Tenants
    BY <1>0, <1>2 DEF RegisterStats, At, IsCall, Types
  <2> QED
    BY <1>1, <1>2, <2>1, IdleCall DEF RegisterStats, Become
<1>3. CASE AccountRead(th)
  <2>1. CASE Goto(th, "accountWrite")
    <3> DEFINE c == CallAt(th, "accountWrite")
    <3>1. call' = [call EXCEPT ![th] = c]
      BY <2>1, GotoCall
    <3>2. IsCall(c) /\ c.at = "accountWrite" /\ c.back = "account"
      BY <1>0, <1>3 DEF AccountRead, At, CallAt, IsCall, Places, InAllocate
    <3> QED
      BY <1>1, <1>3, <3>1, <3>2 DEF AccountRead, Holds, Types
  <2>2. CASE Become(th, Idle)
    BY <1>1, <1>3, <2>2, IdleCall DEF AccountRead, Become, Types
  <2> QED
    BY <1>3, <2>1, <2>2 DEF AccountRead
<1>6. CASE AccountWrite(th)
  BY <1>1, <1>6, IdleCall DEF AccountWrite, Become, Types
<1>4. CASE CleanModel(th)
  <2>1. CASE Become(th, Idle)
    BY <1>1, <1>4, <2>1, IdleCall DEF CleanModel, Become, Types
  <2>2. ASSUME NEW m \in call[th].scan,
               Become(th, [call[th] EXCEPT !.at = "cleanStats", !.tenant = m, !.scan = @ \ {m}])
        PROVE  Inv'
    <3> DEFINE c == [call[th] EXCEPT !.at = "cleanStats", !.tenant = m, !.scan = @ \ {m}]
    <3>1. IsCall(c) /\ c.at = "cleanStats" /\ c.back = "idle"
      BY <1>0, <1>4 DEF CleanModel, At, IsCall, Places, InAllocate
    <3> QED
      BY <1>1, <1>4, <2>2, <3>1 DEF CleanModel, Become, Holds, Types
  <2> QED
    BY <1>4, <2>1, <2>2 DEF CleanModel
<1>5. CASE CleanStats(th)
  <2>1. stats' \subseteq Tenants
    BY <1>5 DEF CleanStats, Types
  <2>2. CASE Become(th, Idle)
    BY <1>1, <1>5, <2>1, <2>2, IdleCall DEF CleanStats, Become
  <2>3. CASE Goto(th, "cleanModel")
    <3> DEFINE c == CallAt(th, "cleanModel")
    <3>1. call' = [call EXCEPT ![th] = c]
      BY <2>3, GotoCall
    <3>2. IsCall(c) /\ c.at = "cleanModel" /\ c.back = "idle"
      BY <1>0, <1>5 DEF CleanStats, At, CallAt, IsCall, Places, InAllocate
    <3> QED
      BY <1>1, <1>5, <2>1, <3>1, <3>2 DEF CleanStats, Holds
  <2> QED
    BY <1>5, <2>2, <2>3 DEF CleanStats
<1> QED
  BY <1>2, <1>3, <1>4, <1>5, <1>6

LEMMA InitInv == Init => Inv
<1> SUFFICES ASSUME Init PROVE Inv
  OBVIOUS
<1>1. Types
  BY IdleCall, TenantAssumption DEF Init, TenantInit, IsolationInit, Types
<1>2. Exclusion
  BY IdleCall DEF Init, TenantInit, Exclusion
<1> QED
  BY <1>1, <1>2 DEF Inv

LEMMA NextInv == Inv /\ [Next]_allVars => Inv'
<1> SUFFICES ASSUME Inv, [Next]_allVars PROVE Inv'
  OBVIOUS
<1>1. ASSUME NEW th \in Threads, IsolationCalls(th) \/ ManagerCalls(th) PROVE Inv'
  BY <1>1, CallsKeepInv
<1>2. ASSUME NEW th \in Threads, IsolationSteps(th) PROVE Inv'
  BY <1>2, AllocateKeepsInv, ReleaseKeepsInv, EnforceKeepsInv, EvictKeepsInv, IsolationKeepsInv
     DEF IsolationSteps, Steps
<1>3. CASE UNCHANGED allVars
  BY <1>3 DEF allVars, vars, tenantVars, shared, isolation, Inv, Types, Exclusion
<1> QED
  BY <1>1, <1>2, <1>3 DEF Next
-----------------------------------------------------------------------------
LEMMA OneHolder ==
    ASSUME Inv, NEW x \in Threads, NEW y \in Threads, Holds(call[x]), Holds(call[y])
    PROVE  x = y
BY DEF Inv, Exclusion

\* A thread is between the two steps of an allocation or of a release.
Between(th) == call[th].at \in {"allocInsert", "relDelete"}

(* What is held, by who is between the two steps of its call.                *)
LEMMA HeldByNobody ==
    ASSUME Inv, \A th \in Threads : ~Between(th)
    PROVE  Granted = {} /\ Dropped = {} /\ Held = allocations
<1>1. Granted = {} /\ Dropped = {}
  BY DEF Granted, Dropped, At, Between
<1>2. nextId \notin DOMAIN allocations
  BY DEF Inv, Types
<1>3. allocations = [i \in DOMAIN allocations |-> allocations[i]]
  BY DEF Inv, Types
<1>4. Held = [i \in DOMAIN allocations |-> allocations[i]]
  BY <1>1, <1>2 DEF Held
<1> QED
  BY <1>1, <1>3, <1>4

LEMMA HeldByGranted ==
    ASSUME Inv, NEW th \in Threads, At(th, "allocInsert")
    PROVE  /\ Granted = {th} /\ Dropped = {}
           /\ Held = [i \in DOMAIN allocations \cup {nextId} |->
                        IF i = nextId THEN [tenant |-> call[th].tenant, size |-> call[th].size]
                        ELSE allocations[i]]
<1>1. \A x \in Threads : Between(x) => x = th
  BY OneHolder DEF Between, Holds, At
<1>2. Granted = {th} /\ Dropped = {}
  BY <1>1 DEF Granted, Dropped, At, Between
<1>3. (CHOOSE x \in Granted : TRUE) = th
  BY <1>2
<1> QED
  BY <1>2, <1>3 DEF Held

LEMMA HeldByDropped ==
    ASSUME Inv, NEW th \in Threads, At(th, "relDelete")
    PROVE  /\ Granted = {} /\ Dropped = {call[th].id}
           /\ Held = [i \in DOMAIN allocations \ {call[th].id} |-> allocations[i]]
<1>1. \A x \in Threads : Between(x) => x = th
  BY OneHolder DEF Between, Holds, At
<1>2. Granted = {} /\ Dropped = {call[th].id}
  BY <1>1 DEF Granted, Dropped, At, Between
<1>3. nextId \notin DOMAIN allocations
  BY DEF Inv, Types
<1> QED
  BY <1>2, <1>3 DEF Held

LEMMA HeldType ==
    ASSUME Inv
    PROVE  /\ DOMAIN Held \subseteq 0 .. nextId
           /\ IsFiniteSet(DOMAIN Held)
           /\ Held = [i \in DOMAIN Held |-> Held[i]]
           /\ \A i \in DOMAIN Held : Held[i].tenant \in Tenants /\ Held[i].size \in Nat
<1>1. /\ DOMAIN allocations \subseteq 0 .. nextId - 1 /\ nextId \in Nat
      /\ \A i \in DOMAIN allocations : allocations[i].tenant \in Tenants /\ allocations[i].size \in Nat
  BY TenantAssumption DEF Inv, Types
<1>2. ASSUME NEW th \in Threads, At(th, "allocInsert")
      PROVE  call[th].tenant \in Tenants /\ call[th].size \in Nat
  BY <1>2, TenantAssumption DEF Inv, Types, IsCall, InAllocate, At
<1>3. DOMAIN Held \subseteq 0 .. nextId
  BY <1>1 DEF Held
<1>4. IsFiniteSet(DOMAIN Held)
  <2>1. IsFiniteSet(0 .. nextId)
    BY <1>1, FS_Interval
  <2> QED
    BY <1>3, <2>1, FS_Subset
<1>5. \A i \in DOMAIN Held : Held[i].tenant \in Tenants /\ Held[i].size \in Nat
  <2>1. CASE \A th \in Threads : ~Between(th)
    BY <1>1, <2>1, HeldByNobody
  <2>2. ASSUME NEW th \in Threads, At(th, "allocInsert")
        PROVE  \A i \in DOMAIN Held : Held[i].tenant \in Tenants /\ Held[i].size \in Nat
    BY <1>1, <1>2, <2>2, HeldByGranted
  <2>3. ASSUME NEW th \in Threads, At(th, "relDelete")
        PROVE  \A i \in DOMAIN Held : Held[i].tenant \in Tenants /\ Held[i].size \in Nat
    BY <1>1, <2>3, HeldByDropped
  <2> QED
    BY <2>1, <2>2, <2>3 DEF Between, At
<1>6. Held = [i \in DOMAIN Held |-> Held[i]]
  BY DEF Held
<1> QED
  BY <1>3, <1>4, <1>5, <1>6

\* What a tenant holds.
Share(h, t) == {i \in DOMAIN h : h[i].tenant = t}

SumOver(h, t) == MapThenSumSet(LAMBDA i : h[i].size, Share(h, t))

LEMMA SumOverIsTotal ==
    ASSUME NEW h, NEW t
    PROVE  SumOver(h, t) = Total([i \in Share(h, t) |-> h[i].size], Share(h, t))
<1> DEFINE S == Share(h, t)
           w == [i \in S |-> h[i].size]
           A(g) == g = [s \in SUBSET S |-> IF s = {} THEN 0 ELSE h[Some(s)].size + g[s \ {Some(s)}]]
<1> HIDE DEF S
<1>1. MapThenSumSet(LAMBDA i : h[i].size, S) = (CHOOSE g : A(g))[S]
  BY DEF MapThenSumSet, MapThenFoldSet, Some
<1>2. ASSUME NEW s \in SUBSET S, s # {}
      PROVE  h[Some(s)].size = w[Some(s)]
  BY <1>2 DEF Some
<1>3. \A g : A(g) <=> Adds(g, w, S)
  BY <1>2 DEF Adds
<1>4. (CHOOSE g : A(g)) = CHOOSE g : Adds(g, w, S)
  <2> HIDE DEF A
  <2> QED BY <1>3
<1> QED
  BY <1>1, <1>4, TotalAsChoice DEF SumOver, S

\* Records of tenant and size under finitely many names.
IsHolding(h) ==
    IsFiniteSet(DOMAIN h) /\ \A i \in DOMAIN h : h[i].size \in Nat

(* One more, or one less, changes the sum of its tenant by its size.         *)
LEMMA SumOverChanges ==
    ASSUME NEW h, NEW k, IsHolding(h), IsHolding(k), NEW x \in DOMAIN k,
           DOMAIN h = DOMAIN k \ {x}, \A i \in DOMAIN h : h[i] = k[i], NEW t
    PROVE  /\ SumOver(h, t) \in Nat /\ SumOver(k, t) \in Nat
           /\ SumOver(k, t) = SumOver(h, t) + (IF k[x].tenant = t THEN k[x].size ELSE 0)
<1> DEFINE v == [i \in Share(h, t) |-> h[i].size]
           w == [i \in Share(k, t) |-> k[i].size]
<1>1. IsFiniteSet(Share(h, t)) /\ IsFiniteSet(Share(k, t))
  BY FS_Subset DEF Share, IsHolding
<1>2. /\ \A i \in Share(h, t) : v[i] \in Nat
      /\ \A i \in Share(k, t) : w[i] \in Nat
  BY DEF Share, IsHolding
<1>3. SumOver(h, t) = Total(v, Share(h, t)) /\ SumOver(k, t) = Total(w, Share(k, t))
  BY SumOverIsTotal
<1>4. Share(h, t) = Share(k, t) \ {x} /\ (x \in Share(k, t) <=> k[x].tenant = t)
  BY DEF Share
<1>5. Total(v, Share(h, t)) = Total(w, Share(h, t))
  <2>1. \A i \in Share(h, t) : v[i] = w[i]
    BY <1>4 DEF Share
  <2> HIDE DEF v, w
  <2> QED
    BY <1>1, <2>1, TotalSame
<1> HIDE DEF v, w
<1>6. Total(v, Share(h, t)) \in Nat /\ Total(w, Share(k, t)) \in Nat
  BY <1>1, <1>2, TotalIsNat
<1>7. CASE k[x].tenant = t
  <2>1. Total(w, Share(k, t)) = w[x] + Total(w, Share(k, t) \ {x})
    BY <1>1, <1>2, <1>4, <1>7, TotalWithout
  <2>2. w[x] = k[x].size /\ k[x].size \in Nat
    BY <1>4, <1>7 DEF w, IsHolding
  <2> QED
    BY <1>3, <1>4, <1>5, <1>6, <1>7, <2>1, <2>2
<1>8. CASE k[x].tenant # t
  <2>1. Share(h, t) = Share(k, t)
    BY <1>4, <1>8
  <2> QED
    BY <1>3, <1>5, <1>6, <1>8, <2>1
<1> QED
  BY <1>7, <1>8
-----------------------------------------------------------------------------
(* A step of a thread that is not between the two steps of its call, before   *)
(* or after, changes nothing of what is held.                               *)
LEMMA HeldStays ==
    ASSUME Inv, NEW th \in Threads, NEW c, call' = [call EXCEPT ![th] = c],
           call[th].at \notin {"allocInsert", "relDelete"}, c.at \notin {"allocInsert", "relDelete"},
           UNCHANGED <<allocations, nextId>>
    PROVE  Held' = Held
<1>1. \A x \in Threads : call'[x] = IF x = th THEN c ELSE call[x]
  BY DEF Inv, Types
<1>2. Granted' = Granted
  BY <1>1 DEF Granted, At
<1>3. Dropped' = Dropped
  <2>1. {x \in Threads : At(x, "relDelete")}' = {x \in Threads : At(x, "relDelete")}
    BY <1>1 DEF At
  <2>2. \A x \in {y \in Threads : At(y, "relDelete")} : call'[x] = call[x]
    BY <1>1 DEF At
  <2> QED
    BY <2>1, <2>2 DEF Dropped
<1> DEFINE x == CHOOSE y \in Granted : TRUE
<1>4. Granted # {} => call'[x] = call[x]
  BY <1>1 DEF Granted, At
<1>5. (CHOOSE y \in Granted' : TRUE) = x
  BY <1>2
<1>6. CASE Granted = {}
  <2>1. nextId \notin DOMAIN allocations
    BY DEF Inv, Types
  <2>2. /\ Held = [i \in DOMAIN allocations \ Dropped |-> allocations[i]]
        /\ Held' = [i \in DOMAIN allocations' \ Dropped' |-> allocations'[i]]
    BY <1>2, <1>6, <2>1 DEF Held
  <2> QED
    BY <1>3, <2>2
<1>7. CASE Granted # {}
  <2> DEFINE rec == [tenant |-> call[x].tenant, size |-> call[x].size]
  <2>1. Held = [i \in (DOMAIN allocations \ Dropped) \cup {nextId} |->
                   IF i = nextId THEN rec ELSE allocations[i]]
    BY <1>7 DEF Held
  <2>2. Held' = [i \in (DOMAIN allocations' \ Dropped') \cup {nextId'} |->
                   IF i = nextId' THEN [tenant |-> call'[x].tenant, size |-> call'[x].size]
                                  ELSE allocations'[i]]
    <3> HIDE DEF x
    <3> QED
      BY <1>2, <1>5, <1>7 DEF Held
  <2> QED
    BY <1>3, <1>4, <1>7, <2>1, <2>2
<1> QED
  BY <1>6, <1>7

\* A grant and a release as the ledger sees them.
Grants(th) ==
    /\ At(th, "allocQuota")
    /\ call[th].tenant \in Tenants /\ call[th].size \in SizesOf
    /\ nextId \notin DOMAIN Held
    /\ usage[call[th].tenant] + call[th].size <= quota[call[th].tenant]
    /\ Held' = [i \in DOMAIN Held \cup {nextId} |->
                  IF i = nextId THEN [tenant |-> call[th].tenant, size |-> call[th].size] ELSE Held[i]]
    /\ usage' = [usage EXCEPT ![call[th].tenant] = @ + call[th].size]
    /\ quota' = quota

Drops(i) ==
    /\ i \in DOMAIN Held
    /\ Held' = [j \in DOMAIN Held \ {i} |-> Held[j]]
    /\ usage' = [usage EXCEPT ![Held[i].tenant] = IF @ > Held[i].size THEN @ - Held[i].size ELSE 0]
    /\ quota' = quota

\* Who is between two steps after a step of a thread, when nobody else is.
LEMMA OthersBetween ==
    ASSUME Inv, NEW th \in Threads, NEW c, call' = [call EXCEPT ![th] = c],
           \A x \in Threads \ {th} : ~Between(x)
    PROVE  /\ Granted' = IF c.at = "allocInsert" THEN {th} ELSE {}
           /\ Dropped' = IF c.at = "relDelete" THEN {c.id} ELSE {}
<1>1. \A x \in Threads : call'[x] = IF x = th THEN c ELSE call[x]
  BY DEF Inv, Types
<1>2. \A x \in Threads \ {th} : call'[x].at \notin {"allocInsert", "relDelete"}
  BY <1>1 DEF Between
<1> QED
  BY <1>1, <1>2 DEF Granted, Dropped, At

LEMMA AllocQuotaGrants ==
    ASSUME Inv, NEW th \in Threads, AllocQuota(th), UNCHANGED isolation
    PROVE  \/ Grants(th)
           \/ Held' = Held /\ usage' = usage /\ quota' = quota
<1> DEFINE t == call[th].tenant
           fits == usage[t] + call[th].size <= quota[t]
<1>0. Inv'
  BY AllocateKeepsInv
<1>1. t \in Tenants /\ call[th].size \in SizesOf /\ Holds(call[th]) /\ quota' = quota
  BY DEF AllocQuota, At, Inv, Types, IsCall, InAllocate, Holds
<1>2. CASE fits
  <2>1. \A x \in Threads : ~Between(x)
    BY <1>1, OneHolder DEF AllocQuota, At, Between, Holds
  <2>2. Held = allocations /\ nextId \notin DOMAIN allocations
    BY <2>1, HeldByNobody DEF Inv, Types
  <2>3. call' = [call EXCEPT ![th] = CallAt(th, "allocInsert")]
    BY <1>2, GotoCall DEF AllocQuota, Inv
  <2>4. /\ call'[th].at = "allocInsert"
        /\ call'[th].tenant = t /\ call'[th].size = call[th].size
    BY <2>3 DEF CallAt, Inv, Types, IsCall
  <2>5. Held' = [i \in DOMAIN allocations' \cup {nextId'} |->
                    IF i = nextId' THEN [tenant |-> call'[th].tenant, size |-> call'[th].size]
                    ELSE allocations'[i]]
    <3>1. Granted' = {th} /\ Dropped' = {}
      BY <2>1, <2>3, <2>4, OthersBetween DEF CallAt
    <3>2. (CHOOSE x \in Granted' : TRUE) = th
      BY <3>1
    <3> QED
      BY <3>1, <3>2 DEF Held
  <2>6. allocations' = allocations /\ nextId' = nextId /\ usage' = [usage EXCEPT ![t] = @ + call[th].size]
    BY <1>2 DEF AllocQuota
  <2> QED
    BY <1>1, <1>2, <2>2, <2>4, <2>5, <2>6 DEF Grants, AllocQuota
<1>3. CASE ~fits
  <2>1. call' = [call EXCEPT ![th] = Idle]
    BY <1>3 DEF AllocQuota, Become
  <2>2. Held' = Held
    BY <2>1, IdleCall, HeldStays DEF AllocQuota, At
  <2> QED
    BY <1>1, <1>3, <2>2 DEF AllocQuota
<1> QED
  BY <1>2, <1>3

LEMMA AllocInsertHolds ==
    ASSUME Inv, NEW th \in Threads, AllocInsert(th)
    PROVE  Held' = Held
<1>1. \A x \in Threads \ {th} : ~Between(x)
  BY OneHolder DEF AllocInsert, At, Between, Holds
<1>2. call' = [call EXCEPT ![th] = BackTo(th, nextId)]
  BY DEF AllocInsert, Back, Become, BackTo
<1>3. BackTo(th, nextId).at \in {"idle", "account", "enfNext"}
  <2>1. call[th].back # "evictPick"
    BY DEF AllocInsert, At, Inv, Types, IsCall
  <2> QED
    BY <2>1, BackCall DEF AllocInsert, At, Inv
<1>4. Granted' = {} /\ Dropped' = {}
  BY <1>1, <1>2, <1>3, OthersBetween
<1>5. Held' = [i \in DOMAIN allocations' |-> allocations'[i]]
  <2>1. nextId' \notin DOMAIN allocations'
    BY DEF AllocInsert, Inv, Types
  <2> QED
    BY <1>4, <2>1 DEF Held
<1>6. allocations' = [i \in DOMAIN allocations \cup {nextId} |->
            IF i = nextId THEN [tenant |-> call[th].tenant, size |-> call[th].size]
                          ELSE allocations[i]]
  BY DEF AllocInsert
<1>7. Held = [i \in DOMAIN allocations \cup {nextId} |->
            IF i = nextId THEN [tenant |-> call[th].tenant, size |-> call[th].size]
                          ELSE allocations[i]]
  BY HeldByGranted DEF AllocInsert
<1> QED
  BY <1>5, <1>6, <1>7

LEMMA ReleaseQuotaDrops ==
    ASSUME Inv, NEW th \in Threads, ReleaseQuota(th)
    PROVE  Drops(call[th].id)
<1> DEFINE i == call[th].id
<1>1. \A x \in Threads : ~Between(x)
  BY OneHolder DEF ReleaseQuota, At, Between, Holds
<1>2. Held = allocations /\ i \in DOMAIN allocations
  BY <1>1, HeldByNobody DEF ReleaseQuota, At, Inv, Exclusion
<1>3. call' = [call EXCEPT ![th] = CallAt(th, "relDelete")]
  BY GotoCall DEF ReleaseQuota, Inv
<1>4. CallAt(th, "relDelete").at = "relDelete" /\ CallAt(th, "relDelete").id = i
  BY DEF CallAt, Inv, Types, IsCall
<1>5. Granted' = {} /\ Dropped' = {i}
  BY <1>1, <1>3, <1>4, OthersBetween
<1>6. Held' = [j \in DOMAIN allocations \ {i} |-> allocations[j]]
  <2>1. nextId \notin DOMAIN allocations
    BY DEF Inv, Types
  <2> QED
    BY <1>5, <2>1 DEF Held, ReleaseQuota
<1> QED
  BY <1>2, <1>6 DEF Drops, ReleaseQuota

LEMMA ReleaseDeleteHolds ==
    ASSUME Inv, NEW th \in Threads, ReleaseDelete(th)
    PROVE  Held' = Held
<1>1. \A x \in Threads \ {th} : ~Between(x)
  BY OneHolder DEF ReleaseDelete, At, Between, Holds
<1>2. call' = [call EXCEPT ![th] = BackTo(th, call[th].id)]
  BY DEF ReleaseDelete, Back, Become, BackTo
<1>3. BackTo(th, call[th].id).at \in {"idle", "account", "enfNext"}
  <2>1. call[th].back # "evictPick"
    BY DEF ReleaseDelete, At, Inv, Types, IsCall
  <2> QED
    BY <2>1, BackCall DEF ReleaseDelete, At, Inv
<1>4. Granted' = {} /\ Dropped' = {}
  BY <1>1, <1>2, <1>3, OthersBetween
<1>5. Held' = [i \in DOMAIN allocations' |-> allocations'[i]]
  <2>1. nextId' \notin DOMAIN allocations'
    BY DEF ReleaseDelete, Inv, Types
  <2> QED
    BY <1>4, <2>1 DEF Held
<1>6. Held = [i \in DOMAIN allocations \ {call[th].id} |-> allocations[i]]
  BY HeldByDropped DEF ReleaseDelete
<1> QED
  BY <1>5, <1>6 DEF ReleaseDelete

\* Nothing happens to what is held, to the usage and to the quotas.
Nothing == Held' = Held /\ usage' = usage /\ quota' = quota

Requotas == \E t \in Tenants, q \in Quotas :
    Held' = Held /\ usage' = usage /\ quota' = [quota EXCEPT ![t] = q]

LEMMA BeginHolds ==
    ASSUME Inv, NEW th \in Threads, NEW op, NEW c, Begin(th, op, c),
           c.at \notin {"allocInsert", "relDelete"}, UNCHANGED <<allocations, nextId>>
    PROVE  Held' = Held
BY HeldStays DEF Begin, Become, At

LEMMA CallsHold ==
    ASSUME Inv, NEW th \in Threads, IsolationCalls(th) \/ ManagerCalls(th)
    PROVE  Nothing \/ Requotas
<1>1. ASSUME NEW c, NEW op, c.at \notin {"allocInsert", "relDelete"}, Begin(th, op, c), UNCHANGED shared
      PROVE  Nothing
  BY <1>1, BeginHolds DEF shared, Nothing
<1>2. CASE IsolationCalls(th)
  <2>1. ASSUME NEW m \in Models, RegisterModel(th, m) \/ SwitchModel(th, m)
        PROVE  Nothing
    <3>1. [Idle EXCEPT !.at = "regStats", !.tenant = m].at = "regStats" /\ Idle.at = "idle"
      BY DEF Idle
    <3> QED
      BY <1>1, <2>1, <3>1 DEF RegisterModel, SwitchModel
  <2>2. ASSUME NEW m \in Models, NEW size \in SizesOf, AllocateModelMemory(th, m, size)
        PROVE  Nothing
    <3>1. [Idle EXCEPT !.at = "allocLock", !.tenant = m, !.size = size, !.back = "account"].at = "allocLock"
      BY DEF Idle
    <3> QED
      BY <1>1, <2>2, <3>1 DEF AllocateModelMemory
  <2>3. ASSUME NEW m \in Models, NEW i \in 0 .. nextId - 1, ReleaseModelMemory(th, m, i)
        PROVE  Nothing
    <3>1. [Idle EXCEPT !.at = "relLock", !.id = i].at = "relLock"
      BY DEF Idle
    <3> QED
      BY <1>1, <2>3, <3>1 DEF ReleaseModelMemory, Release
  <2>4. ASSUME NEW inactive \in SUBSET stats, CleanupInactiveModels(th, inactive)
        PROVE  Nothing
    <3>1. [Idle EXCEPT !.at = "cleanModel", !.scan = inactive].at = "cleanModel"
      BY DEF Idle
    <3> QED
      BY <1>1, <2>4, <3>1 DEF CleanupInactiveModels
  <2> QED
    BY <1>2, <2>1, <2>2, <2>3, <2>4 DEF IsolationCalls
<1>3. CASE ManagerCalls(th)
  <2>1. ASSUME NEW t \in Tenants, NEW q \in Quotas, SetQuota(th, t, q)
        PROVE  Requotas
    <3>1. Held' = Held
      BY <2>1, IdleCall, BeginHolds DEF SetQuota
    <3> QED
      BY <2>1, <3>1 DEF SetQuota, Requotas
  <2>2. ASSUME Enforce(th)
        PROVE  Nothing
    <3>1. [Idle EXCEPT !.at = "enfScan", !.seen = known, !.scan = known].at = "enfScan"
      BY DEF Idle
    <3> QED
      BY <1>1, <2>2, <3>1 DEF Enforce
  <2>3. ASSUME Evict(th)
        PROVE  Nothing
    <3>1. [Idle EXCEPT !.at = "evictLock"].at = "evictLock"
      BY DEF Idle
    <3> QED
      BY <1>1, <2>3, <3>1 DEF Evict
  <2> QED
    BY <1>3, <2>1, <2>2, <2>3 DEF ManagerCalls
<1> QED
  BY <1>2, <1>3

\* The steps of an enforcement, of an eviction and those that take the lock.
QuietSteps(th) ==
    \/ AllocLock(th) \/ ReleaseLock(th)
    \/ EnforceScan(th) \/ EnforceRaises(th) \/ EnforceList(th) \/ EnforceNext(th) \/ EnforceReturn(th)
    \/ EvictLock(th) \/ EvictPick(th)

DictionarySteps(th) ==
    RegisterStats(th) \/ AccountRead(th) \/ AccountWrite(th) \/ CleanModel(th) \/ CleanStats(th)

(* Where those steps lead: not between the two steps of an allocation or a    *)
(* release, and not into an allocation or an account from elsewhere.        *)
Moved(th, c) ==
    /\ call' = [call EXCEPT ![th] = c]
    /\ {call[th].at, c.at} \cap {"allocInsert", "relDelete"} = {}
    /\ c.at \in InAllocate => call[th].at \in InAllocate
    /\ c.back = "account" => call[th].back = "account" /\ c.tenant = call[th].tenant

OutsideDictionaries(th, c) == {call[th].at, c.at} \cap {"regStats", "cleanStats"} = {}

OutsideAccount(th, c) == {call[th].at, c.at} \cap {"account", "accountWrite"} = {}

LEMMA GotoMoves ==
    ASSUME Inv, NEW th \in Threads, NEW at, Goto(th, at),
           {call[th].at, at} \cap {"allocInsert", "relDelete"} = {},
           at \in InAllocate => call[th].at \in InAllocate
    PROVE  Moved(th, CallAt(th, at)) /\ CallAt(th, at).at = at
<1>1. call' = [call EXCEPT ![th] = CallAt(th, at)]
  BY GotoCall DEF Inv
<1>2. /\ CallAt(th, at).at = at
      /\ CallAt(th, at).back = call[th].back /\ CallAt(th, at).tenant = call[th].tenant
  BY DEF CallAt, Inv, Types, IsCall
<1> QED
  BY <1>1, <1>2 DEF Moved

LEMMA IdleMoves ==
    ASSUME NEW th \in Threads, Become(th, Idle), call[th].at \notin {"allocInsert", "relDelete"}
    PROVE  Moved(th, Idle) /\ Idle.at = "idle"
BY DEF Become, Moved, Idle, InAllocate

LEMMA QuietMoves ==
    ASSUME Inv, NEW th \in Threads, QuietSteps(th)
    PROVE  \E c : Moved(th, c) /\ OutsideDictionaries(th, c) /\ OutsideAccount(th, c)
<1>0. IsCall(call[th])
  BY DEF Inv, Types
<1> USE DEF OutsideDictionaries, OutsideAccount, InAllocate
<1>1. CASE AllocLock(th)
  BY <1>1, GotoMoves DEF AllocLock, At
<1>2. CASE ReleaseLock(th)
  <2>1. CASE call[th].id \in DOMAIN allocations
    BY <1>2, <2>1, GotoMoves DEF ReleaseLock, At
  <2>2. CASE call[th].id \notin DOMAIN allocations
    <3>1. call' = [call EXCEPT ![th] = BackTo(th, call[th].id)]
      BY <1>2, <2>2 DEF ReleaseLock, Back, Become, BackTo
    <3>2. call[th].back \in {"idle", "enfNext"}
      BY <1>0, <1>2, TenantAssumption DEF ReleaseLock, At, Inv, Exclusion, Holds, IsCall
    <3>3. BackTo(th, call[th].id).at \in {"idle", "enfNext"} /\ BackTo(th, call[th].id).back \in {"idle", "enfNext"}
      BY <1>0, <3>2 DEF BackTo, Idle, IsCall
    <3> QED
      BY <1>2, <3>1, <3>3 DEF ReleaseLock, At, Moved
  <2> QED
    BY <2>1, <2>2
<1>3. CASE EnforceScan(th)
  <2>1. PICK t \in call[th].scan :
          LET over == IF OverQuota(t) THEN {t} ELSE {} IN
          call' = [call EXCEPT ![th].scan = @ \ {t}, ![th].over = @ \cup over]
    BY <1>3 DEF EnforceScan
  <2> DEFINE c == [call[th] EXCEPT !.scan = @ \ {t},
                                   !.over = @ \cup (IF OverQuota(t) THEN {t} ELSE {})]
  <2>2. call' = [call EXCEPT ![th] = c]
    BY <2>1 DEF Inv, Types
  <2>3. c.at = "enfScan" /\ call[th].at = "enfScan" /\ c.back = call[th].back /\ c.tenant = call[th].tenant
    BY <1>0, <1>3 DEF EnforceScan, At, IsCall
  <2> QED
    BY <2>2, <2>3 DEF Moved
<1>4. CASE EnforceRaises(th) \/ EnforceReturn(th)
  BY <1>4, IdleMoves DEF EnforceRaises, EnforceReturn, Listing, At
<1>5. CASE EnforceList(th)
  <2>1. call[th].at \in {"enfScan", "enfNext"}
    BY <1>5 DEF EnforceList, Listing, At
  <2>2. CASE call[th].over = {}
    BY <1>5, <2>1, <2>2, GotoMoves DEF EnforceList
  <2>3. CASE call[th].over # {}
    <3>1. PICK t \in call[th].over : \E ids :
            call' = [call EXCEPT ![th] = [call[th] EXCEPT
                  !.at = "enfNext", !.over = @ \ {t}, !.todo = ids]]
      BY <1>5, <2>3 DEF EnforceList, Become
    <3>2. PICK ids :
            call' = [call EXCEPT ![th] = [call[th] EXCEPT
                  !.at = "enfNext", !.over = @ \ {t}, !.todo = ids]]
      BY <3>1
    <3> DEFINE c == [call[th] EXCEPT !.at = "enfNext", !.over = @ \ {t}, !.todo = ids]
    <3>3. c.at = "enfNext" /\ c.back = call[th].back /\ c.tenant = call[th].tenant
      BY <1>0 DEF IsCall
    <3> QED
      BY <2>1, <3>2, <3>3 DEF Moved
  <2> QED
    BY <2>2, <2>3
<1>6. CASE EnforceNext(th)
  <2> DEFINE c == [call[th] EXCEPT !.at = "relLock", !.id = Head(call[th].todo),
                                   !.todo = Tail(call[th].todo), !.back = "enfNext"]
  <2>1. c.at = "relLock" /\ c.back = "enfNext"
    BY <1>0 DEF IsCall
  <2> QED
    BY <1>6, <2>1 DEF EnforceNext, Become, At, Moved
<1>7. CASE EvictLock(th)
  BY <1>7, GotoMoves DEF EvictLock, At
<1>8. CASE EvictPick(th)
  <2>1. CASE Become(th, Idle)
    BY <1>8, <2>1, IdleMoves DEF EvictPick, At
  <2>2. ASSUME NEW i, Become(th, [call[th] EXCEPT !.at = "relLock", !.id = i, !.back = "evictPick"])
        PROVE  \E c : Moved(th, c) /\ OutsideDictionaries(th, c) /\ OutsideAccount(th, c)
    <3> DEFINE c == [call[th] EXCEPT !.at = "relLock", !.id = i, !.back = "evictPick"]
    <3>1. c.at = "relLock" /\ c.back = "evictPick"
      BY <1>0 DEF IsCall
    <3> QED
      BY <1>8, <2>2, <3>1 DEF EvictPick, Become, At, Moved
  <2> QED
    BY <1>8, <2>1, <2>2 DEF EvictPick
<1> QED
  BY <1>1, <1>2, <1>3, <1>4, <1>5, <1>6, <1>7, <1>8 DEF QuietSteps

LEMMA DictionaryMoves ==
    ASSUME Inv, NEW th \in Threads, DictionarySteps(th)
    PROVE  \E c : Moved(th, c)
<1>0. IsCall(call[th])
  BY DEF Inv, Types
<1> USE DEF InAllocate
<1>1. CASE RegisterStats(th) \/ AccountWrite(th)
  BY <1>1, IdleMoves DEF RegisterStats, AccountWrite, At
<1>4. CASE AccountRead(th)
  BY <1>4, GotoMoves, IdleMoves DEF AccountRead, At
<1>2. CASE CleanModel(th)
  <2>1. CASE Become(th, Idle)
    BY <1>2, <2>1, IdleMoves DEF CleanModel, At
  <2>2. ASSUME NEW m, Become(th, [call[th] EXCEPT !.at = "cleanStats", !.tenant = m, !.scan = @ \ {m}])
        PROVE  \E c : Moved(th, c)
    <3> DEFINE c == [call[th] EXCEPT !.at = "cleanStats", !.tenant = m, !.scan = @ \ {m}]
    <3>1. c.at = "cleanStats" /\ c.back = "idle"
      BY <1>0, <1>2 DEF CleanModel, At, IsCall
    <3> QED
      BY <1>2, <2>2, <3>1 DEF CleanModel, Become, At, Moved
  <2> QED
    BY <1>2, <2>1, <2>2 DEF CleanModel
<1>3. CASE CleanStats(th)
  BY <1>3, GotoMoves, IdleMoves DEF CleanStats, At
<1> QED
  BY <1>1, <1>2, <1>3, <1>4 DEF DictionarySteps

LEMMA QuietFrame ==
    ASSUME NEW th, QuietSteps(th) \/ DictionarySteps(th)
    PROVE  UNCHANGED <<allocations, nextId, usage, quota, calls>>
BY DEF QuietSteps, DictionarySteps, AllocLock, ReleaseLock, EnforceScan, EnforceRaises, EnforceList,
       EnforceNext, EnforceReturn, EvictLock, EvictPick, RegisterStats, AccountRead, AccountWrite, CleanModel, CleanStats, shared

LEMMA StepsHold ==
    ASSUME Inv, NEW th \in Threads, IsolationSteps(th)
    PROVE  Nothing \/ Grants(th) \/ Drops(call[th].id)
<1>1. CASE QuietSteps(th) \/ DictionarySteps(th)
  <2>1. PICK c : Moved(th, c)
    BY <1>1, QuietMoves, DictionaryMoves
  <2> QED
    BY <1>1, <2>1, QuietFrame, HeldStays DEF Moved, Nothing
<1>2. CASE AllocQuota(th) /\ UNCHANGED isolation
  BY <1>2, AllocQuotaGrants DEF Nothing
<1>3. CASE AllocInsert(th)
  BY <1>3, AllocInsertHolds DEF AllocInsert, Nothing
<1>4. CASE ReleaseQuota(th)
  BY <1>4, ReleaseQuotaDrops
<1>5. CASE ReleaseDelete(th)
  BY <1>5, ReleaseDeleteHolds DEF ReleaseDelete, Nothing
<1> QED
  BY <1>1, <1>2, <1>3, <1>4, <1>5 DEF IsolationSteps, Steps, QuietSteps, DictionarySteps

(* Every step is a grant, a release, a new quota, or none of the ledger's     *)
(* business.                                                                *)
LEMMA NextHolds ==
    ASSUME Inv, [Next]_allVars
    PROVE  \/ \E th \in Threads : Grants(th)
           \/ \E i \in DOMAIN Held : Drops(i)
           \/ Nothing \/ Requotas
<1>1. ASSUME NEW th \in Threads, IsolationCalls(th) \/ ManagerCalls(th) PROVE Nothing \/ Requotas
  BY <1>1, CallsHold
<1>2. ASSUME NEW th \in Threads, IsolationSteps(th)
      PROVE  Nothing \/ Grants(th) \/ \E i \in DOMAIN Held : Drops(i)
  BY <1>2, StepsHold DEF Drops
<1>3. CASE UNCHANGED allVars
  BY <1>3 DEF allVars, vars, tenantVars, shared, Nothing, Held, Granted, Dropped, At
<1> QED
  BY <1>1, <1>2, <1>3 DEF Next
-----------------------------------------------------------------------------
LEMMA UsageAsSum == UsageExact <=> \A t \in Tenants : usage[t] = SumOver(Held, t)
BY DEF UsageExact, SumOver, Share

LEMMA UsageAsSumNext == UsageExact' <=> \A t \in Tenants : usage'[t] = SumOver(Held', t)
<1>1. UsageExact' <=> (\A t \in Tenants : usage[t] = SumOver(Held, t))'
  BY UsageAsSum, PTL
<1> QED
  BY <1>1

LEMMA HeldHolding == Inv => IsHolding(Held)
BY HeldType DEF IsHolding

LEMMA HeldHoldingNext == Inv' => IsHolding(Held')
<1>1. Inv' => IsHolding(Held)'
  BY HeldHolding, PTL
<1> QED
  BY <1>1

LEMMA UsageStep ==
    ASSUME Inv, Inv', UsageExact, [Next]_allVars
    PROVE  UsageExact'
<1>0. /\ usage \in [Tenants -> Nat]
      /\ \A t \in Tenants : usage[t] = SumOver(Held, t)
      /\ IsHolding(Held) /\ IsHolding(Held')
  BY UsageAsSum, HeldHolding, HeldHoldingNext DEF Inv, Types
<1>1. ASSUME NEW th \in Threads, Grants(th)
      PROVE  UsageExact'
  <2> DEFINE x == call[th].tenant
             size == call[th].size
  <2>1. /\ nextId \in DOMAIN Held' /\ DOMAIN Held = DOMAIN Held' \ {nextId}
        /\ \A i \in DOMAIN Held : Held[i] = Held'[i]
        /\ Held'[nextId].tenant = x /\ Held'[nextId].size = size
    BY <1>1 DEF Grants
  <2>2. x \in Tenants /\ size \in Nat
    BY <1>1, TenantAssumption DEF Grants
  <2>3. ASSUME NEW t \in Tenants
        PROVE  usage'[t] = SumOver(Held', t)
    <3>1. /\ SumOver(Held, t) \in Nat
          /\ SumOver(Held', t) = SumOver(Held, t) + (IF x = t THEN size ELSE 0)
      BY <1>0, <2>1, SumOverChanges
    <3>2. usage'[t] = usage[t] + (IF x = t THEN size ELSE 0)
      BY <1>0, <1>1, <2>2 DEF Grants
    <3> QED
      BY <1>0, <3>1, <3>2
  <2> QED
    BY <2>3, UsageAsSumNext
<1>2. ASSUME NEW i \in DOMAIN Held, Drops(i)
      PROVE  UsageExact'
  <2> DEFINE a == Held[i]
  <2>1. /\ DOMAIN Held' = DOMAIN Held \ {i}
        /\ \A j \in DOMAIN Held' : Held'[j] = Held[j]
    BY <1>2 DEF Drops
  <2>2. a.tenant \in Tenants /\ a.size \in Nat
    BY HeldType
  <2>3. ASSUME NEW t \in Tenants
        PROVE  usage'[t] = SumOver(Held', t)
    <3>1. /\ SumOver(Held', t) \in Nat
          /\ SumOver(Held, t) = SumOver(Held', t) + (IF a.tenant = t THEN a.size ELSE 0)
      BY <1>0, <2>1, SumOverChanges
    <3>2. usage'[t] = IF a.tenant = t
                      THEN IF usage[t] > a.size THEN usage[t] - a.size ELSE 0
                      ELSE usage[t]
      BY <1>0, <1>2, <2>2 DEF Drops
    <3> HIDE DEF a
    <3> QED
      BY <1>0, <2>2, <3>1, <3>2
  <2> QED
    BY <2>3, UsageAsSumNext
<1>3. CASE Nothing \/ Requotas
  BY <1>0, <1>3, UsageAsSumNext DEF Nothing, Requotas
<1> QED
  BY <1>1, <1>2, <1>3, NextHolds

LEMMA HeldAtFirst ==
    ASSUME Init
    PROVE  Held = <<>>
<1>1. Inv /\ \A th \in Threads : ~Between(th)
  BY InitInv, IdleCall DEF Init, TenantInit, Between
<1> QED
  BY <1>1, HeldByNobody DEF Init, TenantInit

LEMMA InitUsage == Init => UsageExact
<1> SUFFICES ASSUME Init PROVE UsageExact
  OBVIOUS
<1>1. \A t : Share(<<>>, t) = {}
  BY DEF Share
<1>2. \A t \in Tenants : SumOver(Held, t) = 0
  BY <1>1, HeldAtFirst, SumOverIsTotal, TotalOfNone
<1> QED
  BY <1>2, UsageAsSum DEF Init, TenantInit

(* The usage of a tenant is what it holds, at every step of every call of any *)
(* number of threads: the quota manager's lock and the manager's lock        *)
(* together let no release count twice (allocate, release, enforce_quotas,   *)
(* evict of memory_manager.py).                                             *)
THEOREM UsageIsExact == Spec => []UsageExact
<1>1. Init => Inv /\ UsageExact
  BY InitInv, InitUsage
<1>2. (Inv /\ UsageExact) /\ [Next]_allVars => (Inv /\ UsageExact)'
  BY NextInv, UsageStep
<1> QED
  BY <1>1, <1>2, PTL DEF Spec
-----------------------------------------------------------------------------
\* The calls that have not yet allocated or been refused.
Pending == {th \in Threads : call[th].at \in InAllocate}

(* Every allocation was asked for by a call of its own. *)
Counted ==
    /\ nextId \in Nat /\ calls \in Nat /\ calls <= MaxCalls
    /\ nextId + Cardinality(Pending) <= calls

LEMMA PendingFinite == IsFiniteSet(Pending) /\ Cardinality(Pending) \in Nat
BY TenantAssumption, FS_Subset, FS_CardinalityType DEF Pending

(* The effect of a step of one thread on the calls that are pending.         *)
LEMMA PendingStep ==
    ASSUME Inv, NEW th \in Threads, NEW c, call' = [call EXCEPT ![th] = c]
    PROVE  Pending' = IF c.at \in InAllocate THEN Pending \cup {th} ELSE Pending \ {th}
<1>1. \A x \in Threads : call'[x] = IF x = th THEN c ELSE call[x]
  BY DEF Inv, Types
<1> QED
  BY <1>1 DEF Pending

LEMMA CountedCall ==
    ASSUME Inv, Counted, NEW th \in Threads, NEW op, NEW c, Begin(th, op, c), nextId' = nextId
    PROVE  Counted'
<1>1. calls' \in Nat /\ calls' <= MaxCalls /\ calls' = calls + 1
  BY TenantAssumption DEF Begin, Counted
<1>2. Pending' \subseteq Pending \cup {th}
  BY PendingStep DEF Begin, Become
<1>3. Cardinality(Pending') <= Cardinality(Pending) + 1 /\ Cardinality(Pending') \in Nat
  <2>1. IsFiniteSet(Pending \cup {th}) /\ Cardinality(Pending \cup {th}) <= Cardinality(Pending) + 1
    <3>1. /\ IsFiniteSet(Pending \cup {th})
          /\ Cardinality(Pending \cup {th}) =
                IF th \in Pending THEN Cardinality(Pending) ELSE Cardinality(Pending) + 1
      BY PendingFinite, FS_AddElement
    <3> QED
      BY <3>1, PendingFinite
  <2>2. IsFiniteSet(Pending') /\ Cardinality(Pending') <= Cardinality(Pending \cup {th})
    BY <1>2, <2>1, FS_Subset
  <2>3. Cardinality(Pending') \in Nat /\ Cardinality(Pending \cup {th}) \in Nat
    BY <2>1, <2>2, FS_CardinalityType
  <2> QED
    BY <2>1, <2>2, <2>3, PendingFinite
<1> QED
  BY <1>1, <1>3, PendingFinite DEF Begin, Counted

LEMMA CountedStep ==
    ASSUME Inv, Counted, NEW th \in Threads, NEW c, call' = [call EXCEPT ![th] = c],
           calls' = calls, nextId' = nextId,
           c.at \in InAllocate => call[th].at \in InAllocate
    PROVE  Counted'
<1>1. Pending' \subseteq Pending
  BY PendingStep DEF Pending
<1>2. Cardinality(Pending') <= Cardinality(Pending) /\ Cardinality(Pending') \in Nat
  BY <1>1, PendingFinite, FS_Subset, FS_CardinalityType
<1> QED
  BY <1>2, PendingFinite DEF Counted

LEMMA CountedInsert ==
    ASSUME Inv, Counted, NEW th \in Threads, AllocInsert(th)
    PROVE  Counted'
<1>1. call' = [call EXCEPT ![th] = BackTo(th, nextId)]
  BY DEF AllocInsert, Back, Become, BackTo
<1>2. BackTo(th, nextId).at \notin InAllocate
  <2>1. call[th].back # "evictPick"
    BY DEF AllocInsert, At, Inv, Types, IsCall
  <2> QED
    BY <2>1, BackCall DEF AllocInsert, At, Inv, InAllocate
<1>3. Pending' = Pending \ {th} /\ th \in Pending
  BY <1>1, <1>2, PendingStep DEF Pending, AllocInsert, At, InAllocate
<1>4. Cardinality(Pending') = Cardinality(Pending) - 1
  BY <1>3, PendingFinite, FS_RemoveElement
<1>5. nextId' = nextId + 1 /\ calls' = calls
  BY DEF AllocInsert
<1>6. Cardinality(Pending) \in Nat
  BY PendingFinite
<1>7. nextId' \in Nat /\ nextId' + Cardinality(Pending') <= calls'
  BY <1>4, <1>5, <1>6 DEF Counted
<1> QED
  BY <1>5, <1>7 DEF Counted

LEMMA CallsCounted ==
    ASSUME Inv, Counted, NEW th \in Threads, IsolationCalls(th) \/ ManagerCalls(th)
    PROVE  Counted'
BY CountedCall DEF IsolationCalls, ManagerCalls, RegisterModel, SwitchModel, AllocateModelMemory,
   ReleaseModelMemory, Release, CleanupInactiveModels, SetQuota, Enforce, Evict, shared

LEMMA StepsCounted ==
    ASSUME Inv, Counted, NEW th \in Threads, IsolationSteps(th)
    PROVE  Counted'
<1>0. IsCall(call[th])
  BY DEF Inv, Types
<1>1. CASE QuietSteps(th) \/ DictionarySteps(th)
  <2>1. PICK c : Moved(th, c)
    BY <1>1, QuietMoves, DictionaryMoves
  <2> QED
    BY <1>1, <2>1, QuietFrame, CountedStep DEF Moved
<1>2. CASE AllocQuota(th)
  <2>1. PICK c : call' = [call EXCEPT ![th] = c]
    BY <1>2, GotoCall DEF AllocQuota, Become, Inv
  <2> QED
    BY <1>2, <2>1, CountedStep DEF AllocQuota, At, InAllocate
<1>3. CASE AllocInsert(th)
  BY <1>3, CountedInsert
<1>4. CASE ReleaseQuota(th)
  <2>1. call' = [call EXCEPT ![th] = CallAt(th, "relDelete")] /\ CallAt(th, "relDelete").at = "relDelete"
    BY <1>0, <1>4, GotoCall DEF ReleaseQuota, Inv, CallAt, IsCall
  <2> QED
    BY <1>4, <2>1, CountedStep DEF ReleaseQuota, InAllocate
<1>5. CASE ReleaseDelete(th)
  <2>1. call' = [call EXCEPT ![th] = BackTo(th, call[th].id)]
    BY <1>5 DEF ReleaseDelete, Back, Become, BackTo
  <2>2. BackTo(th, call[th].id).at \notin InAllocate
    <3>1. call[th].back # "evictPick"
      BY <1>0, <1>5 DEF ReleaseDelete, At, IsCall
    <3> QED
      BY <1>5, <3>1, BackCall DEF ReleaseDelete, At, Inv, InAllocate
  <2> QED
    BY <1>5, <2>1, <2>2, CountedStep DEF ReleaseDelete
<1> QED
  BY <1>1, <1>2, <1>3, <1>4, <1>5 DEF IsolationSteps, Steps, QuietSteps, DictionarySteps

LEMMA NextCounted == Inv /\ Counted /\ [Next]_allVars => Counted'
<1> SUFFICES ASSUME Inv, Counted, [Next]_allVars PROVE Counted'
  OBVIOUS
<1>1. ASSUME NEW th \in Threads, IsolationCalls(th) \/ ManagerCalls(th) \/ IsolationSteps(th)
      PROVE  Counted'
  BY <1>1, CallsCounted, StepsCounted
<1>2. CASE UNCHANGED allVars
  BY <1>2 DEF allVars, vars, tenantVars, shared, Counted, Pending
<1> QED
  BY <1>1, <1>2 DEF Next

LEMMA InitCounted == Init => Counted
<1> SUFFICES ASSUME Init PROVE Counted
  OBVIOUS
<1>1. Pending = {}
  BY IdleCall DEF Init, TenantInit, Pending, InAllocate
<1> QED
  BY <1>1, FS_EmptySet, TenantAssumption DEF Init, TenantInit, Counted
-----------------------------------------------------------------------------
LEMMA LedgerSum == \A t : Ledger!HeldBy(t) = SumOver(Held, t)
BY DEF Ledger!HeldBy, Ledger!MapThenSumSet, Ledger!MapThenFoldSet,
       SumOver, Share, MapThenSumSet, MapThenFoldSet

LEMMA LedgerStep ==
    ASSUME Inv, UsageExact, Counted, [Next]_allVars
    PROVE  [Ledger!LedgerNext]_(Ledger!ledger)
<1>1. ASSUME NEW th \in Threads, Grants(th)
      PROVE  Ledger!LedgerNext
  <2>1. nextId \in 0 .. MaxCalls
    <3>1. th \in Pending
      BY <1>1 DEF Grants, At, InAllocate, Pending
    <3>2. Cardinality(Pending) # 0
      BY <3>1, PendingFinite, FS_EmptySet
    <3> QED
      BY <3>2, PendingFinite, TenantAssumption DEF Counted
  <2>2. Ledger!HeldBy(call[th].tenant) = usage[call[th].tenant]
    BY <1>1, UsageAsSum, LedgerSum DEF Grants
  <2>3. Ledger!Grant(nextId, call[th].tenant, call[th].size)
    BY <1>1, <2>2 DEF Grants, Ledger!Grant
  <2> QED
    BY <1>1, <2>1, <2>3 DEF Grants, Ledger!LedgerNext
<1>2. ASSUME NEW i \in DOMAIN Held, Drops(i)
      PROVE  Ledger!LedgerNext
  BY <1>2 DEF Drops, Ledger!LedgerNext, Ledger!Drop
<1>3. CASE Requotas
  BY <1>3 DEF Requotas, Ledger!LedgerNext, Ledger!SetQuota
<1>4. CASE Nothing
  BY <1>4 DEF Nothing, Ledger!ledger
<1> QED
  BY <1>1, <1>2, <1>3, <1>4, NextHolds

(* The manager implements the ledger: a thread is granted memory only within *)
(* the quota of its tenant at that moment, counting what every other thread  *)
(* was granted, and what was granted is dropped at most once                *)
(* (quota_manager.allocate, release).                                       *)
THEOREM Refinement == Spec => ImplementsLedger
<1>1. Init => Inv /\ UsageExact /\ Counted /\ Ledger!LedgerInit
  BY InitInv, InitUsage, InitCounted, HeldAtFirst DEF Ledger!LedgerInit, Init, TenantInit
<1>2. (Inv /\ UsageExact /\ Counted) /\ [Next]_allVars => (Inv /\ UsageExact /\ Counted)'
  BY NextInv, UsageStep, NextCounted
<1>3. (Inv /\ UsageExact /\ Counted) /\ [Next]_allVars => [Ledger!LedgerNext]_(Ledger!ledger)
  BY LedgerStep
<1> QED
  BY <1>1, <1>2, <1>3, PTL DEF Spec, ImplementsLedger, Ledger!LedgerSpec
-----------------------------------------------------------------------------
(* A model that no two calls have met in: whoever changes its dictionaries    *)
(* does so alone, and whoever allocates for it found it registered.          *)
OneModel(m) ==
    /\ Changing(m) = {} => (m \in models <=> m \in stats)
    /\ \A th \in Changing(m) : call[th].at = "regStats" <=> m \in models
    /\ Allocating(m) # {} => m \in models /\ m \in stats

Dictionaries == Meeting \subseteq met /\ \A m \in Models \ met : OneModel(m)

LEMMA TwoAreMany ==
    ASSUME NEW S \in SUBSET Threads, NEW x \in S, NEW y \in S, x # y
    PROVE  Cardinality(S) > 1
<1>1. IsFiniteSet(S) /\ {x, y} \subseteq S
  BY TenantAssumption, FS_Subset
<1>2. Cardinality({x, y}) = 2
  <2>1. IsFiniteSet({x}) /\ Cardinality({x}) = 1 /\ {x, y} = {x} \cup {y} /\ y \notin {x}
    BY FS_Singleton
  <2> QED
    BY <2>1, FS_AddElement
<1>3. Cardinality({x, y}) <= Cardinality(S)
  BY <1>1, FS_Subset
<1>4. Cardinality(S) \in Nat
  BY <1>1, FS_CardinalityType
<1> QED
  BY <1>2, <1>3, <1>4

(* Two calls in one model are a meeting. *)
LEMMA TwoMeet ==
    ASSUME NEW m \in Models, NEW x \in Changing(m), NEW y \in Changing(m) \cup Allocating(m), x # y
    PROVE  m \in Meeting
<1>1. Changing(m) \cup Allocating(m) \in SUBSET Threads
  BY DEF Changing, Allocating
<1>2. Cardinality(Changing(m) \cup Allocating(m)) > 1
  BY <1>1, TwoAreMany
<1> QED
  BY <1>2 DEF Meeting

LEMMA TwoWritersMeet ==
    ASSUME NEW m \in Models, NEW x \in Accounting(m), NEW y \in Accounting(m), x # y
    PROVE  m \in Meeting
<1>1. Accounting(m) \in SUBSET Threads
  BY DEF Accounting
<1>2. Cardinality(Accounting(m)) > 1
  BY <1>1, TwoAreMany
<1> QED
  BY <1>2 DEF Meeting

LEMMA TwoMeetNext ==
    \A m \in Models : \A x, y :
        /\ x \in Changing(m)'
        /\ y \in Changing(m)' \/ y \in Allocating(m)'
        /\ x # y
        => m \in Meeting'
<1>1. \A m \in Models : \A x, y :
        /\ x \in Changing(m) /\ (y \in Changing(m) \/ y \in Allocating(m)) /\ x # y
        => m \in Meeting
  BY TwoMeet
<1>2. (\A m \in Models : \A x, y :
        /\ x \in Changing(m) /\ (y \in Changing(m) \/ y \in Allocating(m)) /\ x # y
        => m \in Meeting)'
  BY <1>1, PTL
<1> QED
  BY <1>2 DEF Models

(* Who changes and who allocates after a step of one thread.                 *)
LEMMA ChangingStep ==
    ASSUME Inv, NEW th \in Threads, NEW c, call' = [call EXCEPT ![th] = c], NEW m
    PROVE  \A x :
             /\ x \in Changing(m)' <=>
                  \/ x # th /\ x \in Changing(m)
                  \/ x = th /\ c.at \in {"regStats", "cleanStats"} /\ c.tenant = m
             /\ x \in Allocating(m)' <=>
                  \/ x # th /\ x \in Allocating(m)
                  \/ x = th /\ c.back = "account" /\ c.tenant = m
<1>1. \A x \in Threads : call'[x] = IF x = th THEN c ELSE call[x]
  BY DEF Inv, Types
<1> QED
  BY <1>1 DEF Changing, Allocating

(* A step that leaves the dictionaries alone and starts no change and no     *)
(* allocation.                                                              *)
LEMMA ModelStays ==
    ASSUME Inv, NEW m \in Models, OneModel(m), NEW th \in Threads, NEW c,
           call' = [call EXCEPT ![th] = c],
           m \in models' <=> m \in models, m \in stats' <=> m \in stats,
           ~(call[th].at \in {"regStats", "cleanStats"} /\ call[th].tenant = m),
           ~(c.at \in {"regStats", "cleanStats"} /\ c.tenant = m),
           c.back = "account" /\ c.tenant = m => th \in Allocating(m)
    PROVE  OneModel(m)'
<1>1. \A x \in Threads : call'[x] = IF x = th THEN c ELSE call[x]
  BY DEF Inv, Types
<1>2. Changing(m)' = Changing(m) /\ \A x \in Changing(m) : call'[x] = call[x]
  BY <1>1, ChangingStep DEF Changing
<1>3. Allocating(m)' \subseteq Allocating(m)
  BY ChangingStep DEF Allocating
<1> QED
  BY <1>2, <1>3 DEF OneModel

(* A step that starts a change or an allocation in the model.                *)
LEMMA ChangeStarts ==
    ASSUME Inv, NEW m \in Models, NEW th \in Threads, th \notin Changing(m), th \notin Allocating(m),
           NEW c, call' = [call EXCEPT ![th] = c], c.tenant = m
    PROVE  /\ c.at = "regStats" /\ c.back = "idle" =>
              Changing(m)' = Changing(m) \cup {th} /\ Allocating(m)' = Allocating(m)
           /\ c.at = "allocLock" /\ c.back = "account" =>
              Changing(m)' = Changing(m) /\ th \in Allocating(m)'
<1>1. \A x \in Threads : call'[x] = IF x = th THEN c ELSE call[x]
  BY DEF Inv, Types
<1>2. ASSUME c.at = "regStats", c.back = "idle"
      PROVE  Changing(m)' = Changing(m) \cup {th}
  BY <1>1, <1>2 DEF Changing
<1>3. ASSUME c.at = "regStats", c.back = "idle"
      PROVE  Allocating(m)' = Allocating(m)
  BY <1>1, <1>3 DEF Allocating
<1>4. ASSUME c.at = "allocLock", c.back = "account"
      PROVE  Changing(m)' = Changing(m) /\ th \in Allocating(m)'
  BY <1>1, <1>4 DEF Changing, Allocating
<1> QED
  BY <1>2, <1>3, <1>4

LEMMA CallsKeepModel ==
    ASSUME Inv, NEW m \in Models, OneModel(m), m \notin Meeting', NEW th \in Threads,
           IsolationCalls(th) \/ ManagerCalls(th)
    PROVE  OneModel(m)'
<1>0. call[th].at = "idle" /\ call[th].back = "idle" /\ IsCall(call[th])
  BY DEF Inv, Types, IsCall, IsolationCalls, ManagerCalls, RegisterModel, SwitchModel,
     AllocateModelMemory, ReleaseModelMemory, Release, CleanupInactiveModels, SetQuota, Enforce, Evict,
     Begin, At
<1>1. th \notin Changing(m) /\ th \notin Allocating(m)
  BY <1>0 DEF Changing, Allocating
<1>2. ASSUME NEW op, NEW c, Begin(th, op, c), UNCHANGED <<models, stats>>,
             c.at \notin {"regStats", "cleanStats"}, c.back # "account"
      PROVE  OneModel(m)'
  BY <1>0, <1>2, ModelStays DEF Begin, Become
<1>3. ASSUME NEW k \in Models, RegisterModel(th, k)
      PROVE  OneModel(m)'
  <2> DEFINE c == [Idle EXCEPT !.at = "regStats", !.tenant = k]
  <2>1. call' = [call EXCEPT ![th] = c] /\ c.at = "regStats" /\ c.tenant = k /\ c.back = "idle"
    BY <1>3 DEF RegisterModel, Begin, Become, Idle
  <2> HIDE DEF c
  <2>2. models' = models \cup {k} /\ UNCHANGED stats
    BY <1>3 DEF RegisterModel
  <2>3. CASE k # m
    BY <1>0, <2>1, <2>2, <2>3, ModelStays
  <2>4. CASE k = m
    <3>1. /\ Changing(m)' = Changing(m) \cup {th}
          /\ Allocating(m)' = Allocating(m)
      BY <1>1, <2>1, <2>4, ChangeStarts
    <3>2. Changing(m) = {} /\ Allocating(m)' = {}
      BY <1>1, <3>1, TwoMeetNext
    <3>3. call'[th].at = "regStats"
      BY <2>1 DEF Inv, Types
    <3> QED
      BY <2>2, <2>4, <3>1, <3>2, <3>3 DEF OneModel
  <2> QED
    BY <2>3, <2>4
<1>4. ASSUME NEW k \in Models, SwitchModel(th, k)
      PROVE  OneModel(m)'
  BY <1>2, <1>4 DEF SwitchModel, Idle
<1>5. ASSUME NEW k \in Models, NEW size \in SizesOf, AllocateModelMemory(th, k, size)
      PROVE  OneModel(m)'
  <2> DEFINE c == [Idle EXCEPT !.at = "allocLock", !.tenant = k, !.size = size, !.back = "account"]
  <2>1. call' = [call EXCEPT ![th] = c] /\ c.at = "allocLock" /\ c.tenant = k
    BY <1>5 DEF AllocateModelMemory, Begin, Become, Idle
  <2>2. k \in models /\ UNCHANGED <<models, stats>>
    BY <1>5 DEF AllocateModelMemory, isolation
  <2>3. c.back = "account"
    BY DEF Idle
  <2> HIDE DEF c
  <2>4. CASE k # m
    BY <1>0, <2>1, <2>2, <2>4, ModelStays
  <2>5. CASE k = m
    <3>1. Changing(m)' = Changing(m) /\ th \in Allocating(m)'
      BY <1>1, <2>1, <2>3, <2>5, ChangeStarts
    <3>2. Changing(m) = {}
      BY <1>1, <3>1, TwoMeetNext
    <3> QED
      BY <2>2, <2>5, <3>1, <3>2 DEF OneModel
  <2> QED
    BY <2>4, <2>5
<1>6. ASSUME NEW k \in Models, NEW i \in 0 .. nextId - 1, ReleaseModelMemory(th, k, i)
      PROVE  OneModel(m)'
  BY <1>2, <1>6 DEF ReleaseModelMemory, Release, isolation, Idle
<1>7. ASSUME NEW inactive \in SUBSET stats, CleanupInactiveModels(th, inactive)
      PROVE  OneModel(m)'
  BY <1>2, <1>7 DEF CleanupInactiveModels, isolation, Idle
<1>8. CASE ManagerCalls(th)
  BY <1>2, <1>8 DEF ManagerCalls, SetQuota, Enforce, Evict, isolation, Idle
<1> QED
  BY <1>3, <1>4, <1>5, <1>6, <1>7, <1>8 DEF IsolationCalls

(* The steps of an allocation and of a release leave the model alone too.    *)
AllocationSteps(th) == AllocQuota(th) \/ AllocInsert(th) \/ ReleaseQuota(th) \/ ReleaseDelete(th)

LEMMA AllocationMoves ==
    ASSUME Inv, NEW th \in Threads, AllocationSteps(th)
    PROVE  \E c : /\ call' = [call EXCEPT ![th] = c]
                  /\ OutsideDictionaries(th, c)
                  /\ AllocInsert(th) \/ OutsideAccount(th, c)
                  /\ c.back = "account" => call[th].back = "account" /\ c.tenant = call[th].tenant
<1>0. IsCall(call[th])
  BY DEF Inv, Types
<1> USE DEF OutsideDictionaries, OutsideAccount
<1>1. /\ Idle.at = "idle" /\ Idle.back = "idle"
      /\ \A at : /\ CallAt(th, at).at = at /\ CallAt(th, at).back = call[th].back
                 /\ CallAt(th, at).tenant = call[th].tenant
  BY <1>0 DEF Idle, CallAt, IsCall
<1>2. ASSUME NEW at, Goto(th, at), {call[th].at, at} \cap {"regStats", "cleanStats"} = {}
      PROVE  /\ call' = [call EXCEPT ![th] = CallAt(th, at)] /\ OutsideDictionaries(th, CallAt(th, at))
             /\ {call[th].at, at} \cap {"account", "accountWrite"} = {} => OutsideAccount(th, CallAt(th, at))
  BY <1>1, <1>2, GotoCall DEF Inv
<1>3. CASE Become(th, Idle) /\ At(th, "allocQuota")
  BY <1>1, <1>3 DEF Become, At
<1>4. CASE AllocQuota(th) /\ Goto(th, "allocInsert")
  BY <1>1, <1>2, <1>4 DEF AllocQuota, At
<1>5. CASE ReleaseQuota(th)
  BY <1>1, <1>2, <1>5 DEF ReleaseQuota, At
<1>6. ASSUME NEW i, Back(th, i), call[th].at \in {"allocInsert", "relDelete"}
      PROVE  /\ call' = [call EXCEPT ![th] = BackTo(th, i)] /\ OutsideDictionaries(th, BackTo(th, i))
             /\ BackTo(th, i).at = "account" => call[th].at = "allocInsert"
             /\ BackTo(th, i).at \in {"idle", "account", "enfNext"}
             /\ BackTo(th, i).back = "account" =>
                    call[th].back = "account" /\ BackTo(th, i).tenant = call[th].tenant
  <2>1. call' = [call EXCEPT ![th] = BackTo(th, i)]
    BY <1>6 DEF Back, Become, BackTo
  <2>2. call[th].back # "evictPick"
    BY <1>0, <1>6 DEF IsCall
  <2>3. /\ BackTo(th, i).at \in {"idle", "account", "enfNext"}
        /\ BackTo(th, i).at = "account" => call[th].at = "allocInsert"
    BY <1>6, <2>2, BackCall DEF Inv
  <2>4. BackTo(th, i).back = "account" => call[th].back = "account" /\ BackTo(th, i).tenant = call[th].tenant
    BY <1>0, <1>1 DEF BackTo, IsCall
  <2> QED
    BY <1>6, <2>1, <2>3, <2>4
<1>7. CASE AllocInsert(th)
  BY <1>6, <1>7 DEF AllocInsert, At
<1>8. CASE ReleaseDelete(th)
  <2>1. Back(th, call[th].id) /\ call[th].at = "relDelete"
    BY <1>8 DEF ReleaseDelete, At
  <2> QED
    BY <1>6, <2>1
<1> QED
  BY <1>3, <1>4, <1>5, <1>7, <1>8 DEF AllocationSteps, AllocQuota

(* The only call that is changing the model leaves it.                       *)
LEMMA ChangeEnds ==
    ASSUME Inv, NEW m \in Models, m \notin Meeting, NEW th \in Changing(m),
           call' = [call EXCEPT ![th] = Idle] \/ call' = [call EXCEPT ![th] = CallAt(th, "cleanModel")]
    PROVE  Changing(m) = {th} /\ Changing(m)' = {} /\ Allocating(m)' = {}
<1>1. th \in Threads /\ call[th].back = "idle"
  BY DEF Changing, Inv, Types, IsCall
<1>2. PICK c : call' = [call EXCEPT ![th] = c] /\ c.at \in {"idle", "cleanModel"} /\ c.back = "idle"
  <2>1. Idle.at = "idle" /\ Idle.back = "idle"
    BY DEF Idle
  <2>2. CallAt(th, "cleanModel").at = "cleanModel" /\ CallAt(th, "cleanModel").back = "idle"
    BY <1>1 DEF CallAt, Inv, Types, IsCall
  <2> QED
    BY <2>1, <2>2
<1>3. \A x \in Threads : call'[x] = IF x = th THEN c ELSE call[x]
  BY <1>2 DEF Inv, Types
<1>4. \A y : y \in Changing(m) \cup Allocating(m) => y = th
  BY TwoMeet
<1>5. Changing(m)' = {}
  BY <1>2, <1>3, <1>4 DEF Changing
<1>6. Allocating(m)' = {}
  BY <1>2, <1>3, <1>4 DEF Allocating
<1> QED
  BY <1>4, <1>5, <1>6

LEMMA StepsKeepModel ==
    ASSUME Inv, NEW m \in Models, OneModel(m), m \notin Meeting, m \notin Meeting',
           NEW th \in Threads, IsolationSteps(th)
    PROVE  OneModel(m)'
<1>0. IsCall(call[th])
  BY DEF Inv, Types
<1>1. Idle.at = "idle" /\ Idle.back = "idle"
  BY DEF Idle
<1>2. CASE Steps(th) /\ UNCHANGED isolation
  <2>1. PICK c : /\ call' = [call EXCEPT ![th] = c]
                 /\ OutsideDictionaries(th, c)
                 /\ c.back = "account" => call[th].back = "account" /\ c.tenant = call[th].tenant
    BY <1>2, QuietMoves, AllocationMoves DEF Moved, Steps, QuietSteps, AllocationSteps
  <2>2. c.back = "account" /\ c.tenant = m => th \in Allocating(m)
    BY <2>1 DEF Allocating
  <2> QED
    BY <1>2, <2>1, <2>2, ModelStays DEF isolation, OutsideDictionaries
<1>3. CASE RegisterStats(th)
  <2>1. /\ call' = [call EXCEPT ![th] = Idle] /\ call[th].at = "regStats"
        /\ stats' = stats \cup {call[th].tenant} /\ UNCHANGED models
    BY <1>3 DEF RegisterStats, Become, At
  <2>2. CASE call[th].tenant = m
    <3>1. th \in Changing(m)
      BY <2>1, <2>2 DEF Changing
    <3>2. Changing(m)' = {} /\ Allocating(m)' = {} /\ m \in models
      BY <2>1, <3>1, ChangeEnds DEF OneModel
    <3> QED
      BY <2>1, <2>2, <3>2 DEF OneModel
  <2>3. CASE call[th].tenant # m
    BY <1>1, <2>1, <2>3, ModelStays
  <2> QED
    BY <2>2, <2>3
<1>4. CASE AccountRead(th)
  <2>1. /\ call' = [call EXCEPT ![th] = CallAt(th, "accountWrite")] \/ call' = [call EXCEPT ![th] = Idle]
        /\ call[th].at = "account" /\ UNCHANGED <<models, stats>>
    BY <1>4, GotoCall DEF AccountRead, Become, At, Inv
  <2>2. /\ CallAt(th, "accountWrite").at = "accountWrite"
        /\ CallAt(th, "accountWrite").back = call[th].back /\ CallAt(th, "accountWrite").tenant = call[th].tenant
    BY <1>0 DEF CallAt, IsCall
  <2>3. call[th].tenant = m => th \in Allocating(m)
    BY <1>0, <2>1 DEF Allocating, IsCall
  <2> QED
    BY <1>1, <2>1, <2>2, <2>3, ModelStays
<1>7. CASE AccountWrite(th)
  <2>1. call' = [call EXCEPT ![th] = Idle] /\ call[th].at = "accountWrite" /\ UNCHANGED <<models, stats>>
    BY <1>7 DEF AccountWrite, Become, At
  <2> QED
    BY <1>1, <2>1, ModelStays
<1>5. CASE CleanModel(th)
  <2>1. call[th].at = "cleanModel" /\ call[th].back = "idle" /\ UNCHANGED stats
    BY <1>0, <1>5 DEF CleanModel, At, IsCall
  <2>2. CASE Become(th, Idle) /\ UNCHANGED models
    BY <1>1, <2>1, <2>2, ModelStays DEF Become
  <2>3. ASSUME NEW k \in call[th].scan, k \in models, models' = models \ {k},
               Become(th, [call[th] EXCEPT !.at = "cleanStats", !.tenant = k, !.scan = @ \ {k}])
        PROVE  OneModel(m)'
    <3> DEFINE c == [call[th] EXCEPT !.at = "cleanStats", !.tenant = k, !.scan = @ \ {k}]
    <3>1. call' = [call EXCEPT ![th] = c] /\ c.at = "cleanStats" /\ c.tenant = k /\ c.back = "idle"
      BY <1>0, <2>1, <2>3 DEF Become, IsCall
    <3> HIDE DEF c
    <3>2. CASE k # m
      BY <2>1, <2>3, <3>1, <3>2, ModelStays
    <3>3. CASE k = m
      <4>1. \A x \in Threads : call'[x] = IF x = th THEN c ELSE call[x]
        BY <3>1 DEF Inv, Types
      <4>2. th \in Changing(m)' /\ th \notin Allocating(m)'
        BY <3>1, <3>3, <4>1 DEF Changing, Allocating
      <4>3. Changing(m)' = {th} /\ Allocating(m)' = {}
        BY <4>2, TwoMeetNext
      <4> QED
        BY <2>1, <2>3, <3>1, <3>3, <4>1, <4>3 DEF OneModel
    <3> QED
      BY <3>2, <3>3
  <2> QED
    BY <1>5, <2>2, <2>3 DEF CleanModel
<1>6. CASE CleanStats(th)
  <2>1. /\ call[th].at = "cleanStats" /\ call[th].back = "idle" /\ UNCHANGED models
        /\ stats' = stats \ {call[th].tenant}
    BY <1>0, <1>6 DEF CleanStats, At, IsCall
  <2>2. call' = [call EXCEPT ![th] = Idle] \/ call' = [call EXCEPT ![th] = CallAt(th, "cleanModel")]
    BY <1>6, GotoCall DEF CleanStats, Become, Inv
  <2>3. CallAt(th, "cleanModel").at = "cleanModel" /\ CallAt(th, "cleanModel").back = "idle"
    BY <1>0, <2>1 DEF CallAt, IsCall
  <2>4. CASE call[th].tenant = m
    <3>1. th \in Changing(m)
      BY <2>1, <2>4 DEF Changing
    <3>2. Changing(m)' = {} /\ Allocating(m)' = {} /\ m \notin models
      BY <2>1, <2>2, <3>1, ChangeEnds DEF OneModel
    <3> QED
      BY <2>1, <2>4, <3>2 DEF OneModel
  <2>5. CASE call[th].tenant # m
    BY <1>1, <2>1, <2>2, <2>3, <2>5, ModelStays
  <2> QED
    BY <2>4, <2>5
<1> QED
  BY <1>2, <1>3, <1>4, <1>5, <1>6, <1>7 DEF IsolationSteps

LEMMA NextDictionaries == Inv /\ Dictionaries /\ [Next]_allVars => Dictionaries'
<1> SUFFICES ASSUME Inv, Dictionaries, [Next]_allVars PROVE Dictionaries'
  OBVIOUS
<1>1. CASE Next
  <2>1. met' = met \cup Meeting'
    BY <1>1 DEF Next
  <2>2. ASSUME NEW m \in Models, m \notin met' PROVE OneModel(m)'
    <3>1. OneModel(m) /\ m \notin Meeting /\ m \notin Meeting'
      BY <2>1, <2>2 DEF Dictionaries, OneModel
    <3> QED
      BY <1>1, <3>1, CallsKeepModel, StepsKeepModel DEF Next
  <2> QED
    BY <2>1, <2>2 DEF Dictionaries, OneModel, Models
<1>2. CASE UNCHANGED allVars
  BY <1>2 DEF allVars, vars, tenantVars, isolation, Dictionaries, OneModel, Meeting, Changing, Allocating,
              Accounting, At
<1> QED
  BY <1>1, <1>2

LEMMA InitDictionaries == Init => Dictionaries
<1> SUFFICES ASSUME Init PROVE Dictionaries
  OBVIOUS
<1>1. \A th \in Threads : call[th].at = "idle" /\ call[th].back = "idle"
  BY DEF Init, TenantInit, Idle
<1>2. \A m : Changing(m) = {} /\ Allocating(m) = {}
  BY <1>1 DEF Changing, Allocating
<1> QED
  <2>1. \A m : Accounting(m) = {}
    BY <1>1 DEF Accounting, At
  <2>2. Cardinality({}) = 0
    BY FS_EmptySet
  <2> QED
    BY <1>2, <2>1, <2>2 DEF Init, IsolationInit, Dictionaries, OneModel, Meeting

-----------------------------------------------------------------------------
(* Of a model that no two calls have met in: whoever raises its memory usage  *)
(* has read what it is, and will write to the statistics it read; and it      *)
(* counts what the model holds.                                             *)
AllCounted(m) ==
    \A i \in DOMAIN allocations :
        allocations[i].tenant = m => i \in counted[m] \cup left \cup Uncounted(m)

Memory(m) ==
    /\ \A th \in Accounting(m) : th \notin stale /\ read[th] = counted[m]
    /\ AllCounted(m)

AccountShape ==
    /\ counted = [m \in Models |-> counted[m]]
    /\ read = [th \in Threads |-> read[th]]
    /\ \A th \in stale : th \in Threads /\ call[th].at = "accountWrite"

MemoryInv == AccountShape /\ \A m \in Models \ met : Memory(m)

\* The accounts as a step outside them leaves them.
Untouched == UNCHANGED <<counted, read, stale>>

(* A step of a thread that has nothing to do with the account of the model    *)
(* and adds no allocation.                                                  *)
LEMMA MemoryStays ==
    ASSUME Inv, NEW m \in Models, Memory(m), NEW th \in Threads, NEW c,
           call' = [call EXCEPT ![th] = c],
           counted'[m] = counted[m],
           \A x \in Accounting(m) \ {th} : read'[x] = read[x] /\ (x \in stale' => x \in stale),
           left \cap DOMAIN allocations' \subseteq left',
           \A i \in DOMAIN allocations' : i \in DOMAIN allocations /\ allocations'[i] = allocations[i],
           ~(call[th].at \in {"account", "accountWrite"} /\ call[th].tenant = m),
           ~(c.at \in {"account", "accountWrite"} /\ c.tenant = m)
    PROVE  Memory(m)'
<1>1. \A x \in Threads : call'[x] = IF x = th THEN c ELSE call[x]
  BY DEF Inv, Types
<1>2. Accounting(m)' \subseteq Accounting(m) \ {th}
  BY <1>1 DEF Accounting, At
<1>3. Uncounted(m) \subseteq Uncounted(m)'
  BY <1>1 DEF Uncounted
<1>4. \A x \in Accounting(m)' : x \notin stale' /\ read'[x] = counted'[m]
  BY <1>2 DEF Memory
<1>5. AllCounted(m)'
  BY <1>3 DEF Memory, AllCounted
<1> QED
  BY <1>4, <1>5 DEF Memory

(* What the history gains, and keeps.                                        *)
LEMMA LeftKeeps ==
    ASSUME left' = (left \cup Forgotten) \cap DOMAIN allocations'
    PROVE  /\ left \cap DOMAIN allocations' \subseteq left'
           /\ Forgotten \cap DOMAIN allocations' \subseteq left'
OBVIOUS

LEMMA CallsKeepMemory ==
    ASSUME Inv, AccountShape, NEW th \in Threads, IsolationCalls(th) \/ ManagerCalls(th),
           left \cap DOMAIN allocations' \subseteq left'
    PROVE  AccountShape' /\ \A m \in Models : Memory(m) => Memory(m)'
<1> DEFINE Begun == /\ call[th].at = "idle" /\ UNCHANGED <<allocations, counted, read, stale>>
                   /\ \E c : call' = [call EXCEPT ![th] = c] /\ c.at \notin {"account", "accountWrite"}
<1>1. Begun
  <2>1. ASSUME NEW op, NEW c, Begin(th, op, c), UNCHANGED <<allocations, counted, read, stale>>,
               c.at \notin {"account", "accountWrite"}
        PROVE  Begun
    BY <2>1 DEF Begin, Become, At
  <2> HIDE DEF Begun
  <2>2. CASE \E k \in Models : RegisterModel(th, k) \/ SwitchModel(th, k)
    BY <2>1, <2>2 DEF RegisterModel, SwitchModel, Idle, account, shared
  <2>3. CASE \E k \in Models, size \in SizesOf : AllocateModelMemory(th, k, size)
    BY <2>1, <2>3 DEF AllocateModelMemory, Idle, isolation, account, shared
  <2>4. CASE \E k \in Models, i \in 0 .. nextId - 1 : ReleaseModelMemory(th, k, i)
    BY <2>1, <2>4 DEF ReleaseModelMemory, Release, Idle, isolation, account, shared
  <2>5. CASE \E inactive \in SUBSET stats : CleanupInactiveModels(th, inactive)
    BY <2>1, <2>5 DEF CleanupInactiveModels, Idle, isolation, account, shared
  <2>6. CASE \E t \in Tenants, q \in Quotas : SetQuota(th, t, q) /\ UNCHANGED isolation
    BY <2>1, <2>6 DEF SetQuota, Idle, isolation, account
  <2>7. CASE (Enforce(th) \/ Evict(th)) /\ UNCHANGED isolation
    BY <2>1, <2>7 DEF Enforce, Evict, Idle, isolation, account, shared
  <2> QED
    BY <2>2, <2>3, <2>4, <2>5, <2>6, <2>7 DEF IsolationCalls, ManagerCalls
<1>2. PICK c : call' = [call EXCEPT ![th] = c] /\ c.at \notin {"account", "accountWrite"}
  BY <1>1
<1>3. AccountShape'
  BY <1>1, <1>2 DEF AccountShape, Inv, Types
<1>4. ASSUME NEW m \in Models, Memory(m)
      PROVE  Memory(m)'
  BY <1>1, <1>2, <1>4, MemoryStays
<1> QED
  BY <1>3, <1>4

(* The step that ends the statistics of a model.                             *)
LEMMA ForgettingKeepsMemory ==
    ASSUME Inv, AccountShape, NEW m \in Models, Memory(m), m \notin Meeting, NEW th \in Threads,
           call[th].at \in {"regStats", "cleanStats"}, Forget(call[th].tenant),
           call' = [call EXCEPT ![th] = Idle] \/ call' = [call EXCEPT ![th] = CallAt(th, "cleanModel")],
           UNCHANGED allocations,
           left' = (left \cup Forgotten) \cap DOMAIN allocations'
    PROVE  Memory(m)'
<1>0. IsCall(call[th])
  BY DEF Inv, Types
<1>1. PICK c : call' = [call EXCEPT ![th] = c] /\ c.at \in {"idle", "cleanModel"}
  <2>1. Idle.at = "idle" /\ CallAt(th, "cleanModel").at = "cleanModel"
    BY <1>0 DEF Idle, CallAt, IsCall
  <2> QED
    BY <2>1
<1>2. \A x \in Threads : call'[x] = IF x = th THEN c ELSE call[x]
  BY <1>1 DEF Inv, Types
<1>3. CASE call[th].tenant = m
  <2>1. th \in Changing(m)
    BY <1>3 DEF Changing
  <2>2. Allocating(m) \subseteq {th}
    BY <2>1, TwoMeet
  <2>3. Accounting(m)' = {}
    <3>1. ASSUME NEW x \in Accounting(m)' PROVE FALSE
      <4>1. x \in Threads /\ call'[x].at = "accountWrite" /\ call'[x].tenant = m
        BY <3>1 DEF Accounting, At
      <4>2. x # th /\ call[x] = call'[x] /\ IsCall(call[x])
        BY <1>1, <1>2, <4>1 DEF Inv, Types
      <4>3. x \in Allocating(m)
        BY <4>1, <4>2 DEF Allocating, IsCall
      <4> QED
        BY <2>2, <4>2, <4>3
    <3> QED
      BY <3>1
  <2>4. ASSUME NEW i \in DOMAIN allocations', allocations'[i].tenant = m
        PROVE  i \in left'
    <3>1. call'[th].at # call[th].at
      BY <1>1, <1>2
    <3>2. i \in Forgotten
      BY <1>3, <2>4, <3>1 DEF Forgotten
    <3> QED
      BY <2>4, <3>2
  <2> QED
    BY <2>3, <2>4 DEF Memory, AllCounted
<1>4. CASE call[th].tenant # m
  <2>1. counted'[m] = counted[m] /\ read' = read
    BY <1>4 DEF Forget, AccountShape
  <2>2. \A x \in Accounting(m) : x \in stale' => x \in stale
    BY <1>4 DEF Forget, Accounting
  <2> QED
    BY <1>1, <2>1, <2>2, LeftKeeps, MemoryStays
<1> QED
  BY <1>3, <1>4

(* The two steps of the account of an allocation.                            *)
LEMMA ReadingKeepsMemory ==
    ASSUME Inv, AccountShape, NEW m \in Models, OneModel(m), Memory(m), NEW th \in Threads,
           AccountRead(th), left \cap DOMAIN allocations' \subseteq left'
    PROVE  Memory(m)'
<1>0. IsCall(call[th])
  BY DEF Inv, Types
<1>1. /\ call[th].at = "account" /\ UNCHANGED <<allocations, counted, stale>>
      /\ \A x \in Threads \ {th} : read'[x] = read[x]
  BY DEF AccountRead, At, shared, AccountShape
<1>2. CASE call[th].tenant # m
  <2> DEFINE d == CallAt(th, "accountWrite")
  <2>1. call' = [call EXCEPT ![th] = d] \/ call' = [call EXCEPT ![th] = Idle]
    BY GotoCall DEF AccountRead, Become, Inv
  <2>2. d.tenant = call[th].tenant /\ Idle.at = "idle"
    BY <1>0 DEF CallAt, IsCall, Idle
  <2> HIDE DEF d
  <2>3. \A x \in Accounting(m) \ {th} : read'[x] = read[x] /\ (x \in stale' => x \in stale)
    BY <1>1 DEF Accounting
  <2>4. PICK c : call' = [call EXCEPT ![th] = c] /\ ~(c.at \in {"account", "accountWrite"} /\ c.tenant = m)
    BY <1>2, <2>1, <2>2
  <2> QED
    BY <1>1, <1>2, <2>3, <2>4, MemoryStays
<1>3. CASE call[th].tenant = m
  <2>1. th \in Allocating(m)
    BY <1>0, <1>1, <1>3 DEF Allocating, IsCall
  <2>2. m \in stats
    BY <2>1 DEF OneModel
  <2> DEFINE c == CallAt(th, "accountWrite")
  <2>3. call' = [call EXCEPT ![th] = c] /\ read'[th] = counted[m]
    BY <1>3, <2>2, GotoCall DEF AccountRead, Inv, AccountShape
  <2>4. c.at = "accountWrite" /\ c.tenant = m /\ c.id = call[th].id
    BY <1>0, <1>3 DEF CallAt, IsCall
  <2> HIDE DEF c
  <2>5. \A x \in Threads : call'[x] = IF x = th THEN c ELSE call[x]
    BY <2>3 DEF Inv, Types
  <2>6. Uncounted(m) \subseteq Uncounted(m)'
    BY <2>4, <2>5 DEF Uncounted
  <2>7. th \notin stale
    BY <1>1 DEF AccountShape
  <2>8. Accounting(m)' \subseteq Accounting(m) \cup {th}
    BY <2>5 DEF Accounting, At
  <2>9. \A x \in Accounting(m)' : x \notin stale' /\ read'[x] = counted'[m]
    <3>1. Accounting(m) \subseteq Threads
      BY DEF Accounting
    <3> QED
      BY <1>1, <2>3, <2>7, <2>8, <3>1 DEF Memory
  <2>10. AllCounted(m)'
    BY <1>1, <2>6 DEF Memory, AllCounted
  <2> QED
    BY <2>9, <2>10 DEF Memory
<1> QED
  BY <1>2, <1>3

LEMMA WritingKeepsMemory ==
    ASSUME Inv, AccountShape, NEW m \in Models, Memory(m), m \notin Meeting, NEW th \in Threads,
           AccountWrite(th), left \cap DOMAIN allocations' \subseteq left'
    PROVE  Memory(m)'
<1>0. IsCall(call[th])
  BY DEF Inv, Types
<1>1. /\ call[th].at = "accountWrite" /\ UNCHANGED allocations
      /\ \A x \in Threads \ {th} : read'[x] = read[x] /\ (x \in stale' => x \in stale)
      /\ call' = [call EXCEPT ![th] = Idle] /\ Idle.at = "idle"
  BY DEF AccountWrite, At, shared, AccountShape, Become, Idle
<1>2. CASE call[th].tenant # m
  <2>1. counted'[m] = counted[m]
    BY <1>2 DEF AccountWrite, AccountShape
  <2>2. \A x \in Accounting(m) \ {th} : read'[x] = read[x] /\ (x \in stale' => x \in stale)
    BY <1>1 DEF Accounting
  <2> QED
    BY <1>1, <1>2, <2>1, <2>2, MemoryStays
<1>3. CASE call[th].tenant = m
  <2>1. \A x \in Threads : call'[x] = IF x = th THEN Idle ELSE call[x]
    BY <1>1 DEF Inv, Types
  <2>2. th \in Accounting(m)
    BY <1>1, <1>3 DEF Accounting, At
  <2>3. Accounting(m) = {th}
    BY <2>2, TwoWritersMeet
  <2>4. Accounting(m)' = {}
    BY <1>1, <2>1, <2>3 DEF Accounting, At
  <2>5. counted'[m] = counted[m] \cup {call[th].id}
    <3>1. th \notin stale /\ read[th] = counted[m]
      BY <2>2 DEF Memory
    <3> QED
      BY <1>3, <3>1 DEF AccountWrite, AccountShape
  <2>6. Uncounted(m) \subseteq Uncounted(m)' \cup {call[th].id}
    BY <2>1 DEF Uncounted
  <2>7. AllCounted(m)'
    BY <1>1, <2>5, <2>6 DEF Memory, AllCounted
  <2> QED
    BY <2>4, <2>7 DEF Memory
<1> QED
  BY <1>2, <1>3

(* A new allocation is on its way into the statistics of its model.          *)
LEMMA InsertingKeepsMemory ==
    ASSUME Inv, NEW m \in Models, Memory(m), NEW th \in Threads, AllocInsert(th), Untouched,
           left \cap DOMAIN allocations' \subseteq left'
    PROVE  Memory(m)'
<1>0. /\ IsCall(call[th]) /\ call[th].at = "allocInsert" /\ call[th].back = "account"
      /\ nextId \notin DOMAIN allocations
  BY DEF Inv, Types, IsCall, AllocInsert, At, InAllocate
<1> DEFINE c == BackTo(th, nextId)
<1>1. call' = [call EXCEPT ![th] = c] /\ c.at = "account" /\ c.tenant = call[th].tenant /\ c.id = nextId
  BY <1>0 DEF AllocInsert, Back, Become, BackTo, IsCall
<1> HIDE DEF c
<1>2. \A x \in Threads : call'[x] = IF x = th THEN c ELSE call[x]
  BY <1>1 DEF Inv, Types
<1>3. /\ Accounting(m)' \subseteq Accounting(m)
      /\ Uncounted(m) \subseteq Uncounted(m)'
      /\ call[th].tenant = m => nextId \in Uncounted(m)'
  <2>1. Accounting(m)' \subseteq Accounting(m)
    BY <1>1, <1>2 DEF Accounting, At
  <2>2. Uncounted(m) \subseteq Uncounted(m)'
    BY <1>0, <1>2 DEF Uncounted
  <2>3. call[th].tenant = m => nextId \in Uncounted(m)'
    BY <1>1, <1>2 DEF Uncounted
  <2> QED
    BY <2>1, <2>2, <2>3
<1>4. ASSUME NEW i \in DOMAIN allocations', allocations'[i].tenant = m
      PROVE  i \in counted'[m] \cup left' \cup Uncounted(m)'
  <2>1. CASE i = nextId
    BY <1>3, <1>4, <2>1 DEF AllocInsert
  <2>2. CASE i # nextId
    <3>1. i \in DOMAIN allocations /\ allocations[i].tenant = m
      BY <1>4, <2>2 DEF AllocInsert
    <3>2. i \in counted[m] \cup left \cup Uncounted(m)
      BY <3>1 DEF Memory, AllCounted
    <3> QED
      BY <1>3, <1>4, <3>2 DEF Untouched
  <2> QED
    BY <2>1, <2>2
<1> QED
  BY <1>3, <1>4 DEF Memory, AllCounted, Untouched

LEMMA StepsKeepShape ==
    ASSUME Inv, AccountShape, NEW th \in Threads, IsolationSteps(th)
    PROVE  AccountShape'
<1>0. IsCall(call[th])
  BY DEF Inv, Types
<1>1. ASSUME NEW c, call' = [call EXCEPT ![th] = c], Untouched, call[th].at # "accountWrite"
      PROVE  AccountShape'
  <2>1. \A x \in Threads \ {th} : call'[x] = call[x]
    BY <1>1 DEF Inv, Types
  <2> QED
    BY <1>1, <2>1 DEF AccountShape, Untouched
<1>2. CASE Steps(th) /\ UNCHANGED isolation
  <2>1. PICK c : call' = [call EXCEPT ![th] = c]
    BY <1>2, QuietMoves, AllocationMoves DEF Moved, Steps, QuietSteps, AllocationSteps
  <2>2. Untouched
    BY <1>2 DEF isolation, account, Untouched
  <2>3. call[th].at # "accountWrite"
    BY <1>2 DEF Steps, AllocLock, AllocQuota, AllocInsert, ReleaseLock, ReleaseQuota, ReleaseDelete,
       EnforceScan, EnforceRaises, EnforceList, Listing, EnforceNext, EnforceReturn, EvictLock, EvictPick, At
  <2> QED
    BY <1>1, <2>1, <2>2, <2>3
<1>3. CASE CleanModel(th)
  <2>1. \E c : call' = [call EXCEPT ![th] = c]
    BY <1>3 DEF CleanModel, Become
  <2>2. Untouched /\ call[th].at # "accountWrite"
    BY <1>3 DEF CleanModel, account, Untouched, At
  <2> QED
    BY <1>1, <2>1, <2>2
<1>4. CASE RegisterStats(th) \/ CleanStats(th)
  <2>1. /\ Forget(call[th].tenant) /\ call[th].at # "accountWrite"
        /\ \E c : call' = [call EXCEPT ![th] = c]
    BY <1>4, GotoCall DEF RegisterStats, CleanStats, Become, At, Inv
  <2>2. \A x \in Threads \ {th} : call'[x] = call[x]
    BY <2>1 DEF Inv, Types
  <2>3. \A x \in stale' : x \in Threads \ {th} /\ call[x].at = "accountWrite"
    BY <2>1 DEF Forget, AccountShape, At
  <2> QED
    BY <2>1, <2>2, <2>3 DEF Forget, AccountShape
<1>5. CASE AccountRead(th)
  <2>1. /\ call[th].at = "account" /\ UNCHANGED <<counted, stale>>
        /\ \E c : call' = [call EXCEPT ![th] = c]
    BY <1>5, GotoCall DEF AccountRead, Become, At, Inv
  <2>2. \A x \in Threads \ {th} : call'[x] = call[x]
    BY <2>1 DEF Inv, Types
  <2>3. read' = [x \in Threads |-> read'[x]]
    BY <1>5 DEF AccountRead, AccountShape
  <2> QED
    BY <2>1, <2>2, <2>3 DEF AccountShape
<1>6. CASE AccountWrite(th)
  <2>1. stale' = stale \ {th} /\ \E c : call' = [call EXCEPT ![th] = c]
    BY <1>6 DEF AccountWrite, Become
  <2>2. \A x \in Threads \ {th} : call'[x] = call[x]
    BY <2>1 DEF Inv, Types
  <2>3. counted' = [m \in Models |-> counted'[m]] /\ read' = [x \in Threads |-> read'[x]]
    BY <1>6 DEF AccountWrite, AccountShape
  <2> QED
    BY <2>1, <2>2, <2>3 DEF AccountShape
<1> QED
  BY <1>2, <1>3, <1>4, <1>5, <1>6 DEF IsolationSteps

LEMMA StepsKeepMemory ==
    ASSUME Inv, AccountShape, NEW m \in Models, OneModel(m), Memory(m), m \notin Meeting,
           NEW th \in Threads, IsolationSteps(th), left' = (left \cup Forgotten) \cap DOMAIN allocations'
    PROVE  Memory(m)'
<1>0. IsCall(call[th]) /\ left \cap DOMAIN allocations' \subseteq left'
  BY LeftKeeps DEF Inv, Types
<1>1. CASE Steps(th) /\ UNCHANGED isolation
  <2>1. Untouched
    BY <1>1 DEF isolation, account, Untouched
  <2>2. CASE AllocInsert(th)
    BY <1>0, <2>1, <2>2, InsertingKeepsMemory
  <2>3. CASE ~AllocInsert(th)
    <3>1. PICK c : call' = [call EXCEPT ![th] = c] /\ OutsideAccount(th, c)
      BY <1>1, <2>3, QuietMoves, AllocationMoves DEF Moved, Steps, QuietSteps, AllocationSteps
    <3>2. \A i \in DOMAIN allocations' : i \in DOMAIN allocations /\ allocations'[i] = allocations[i]
      BY <1>1, <2>3, QuietFrame DEF Steps, QuietSteps, AllocQuota, ReleaseQuota, ReleaseDelete
    <3> QED
      BY <1>0, <2>1, <3>1, <3>2, MemoryStays DEF Untouched, OutsideAccount
  <2> QED
    BY <2>2, <2>3
<1>2. CASE RegisterStats(th) \/ CleanStats(th)
  <2>1. call[th].at \in {"regStats", "cleanStats"} /\ Forget(call[th].tenant) /\ UNCHANGED allocations
    BY <1>2 DEF RegisterStats, CleanStats, At, shared
  <2>2. call' = [call EXCEPT ![th] = Idle] \/ call' = [call EXCEPT ![th] = CallAt(th, "cleanModel")]
    BY <1>2, GotoCall DEF RegisterStats, CleanStats, Become, Inv
  <2> QED
    BY <2>1, <2>2, ForgettingKeepsMemory
<1>3. CASE AccountRead(th)
  BY <1>0, <1>3, ReadingKeepsMemory
<1>4. CASE AccountWrite(th)
  BY <1>0, <1>4, WritingKeepsMemory
<1>5. CASE CleanModel(th)
  <2>1. /\ call[th].at = "cleanModel" /\ UNCHANGED <<allocations, counted, read, stale>>
        /\ \E c : call' = [call EXCEPT ![th] = c] /\ c.at \in {"idle", "cleanStats"}
    <3>1. Idle.at = "idle"
      BY DEF Idle
    <3>2. \A k : [call[th] EXCEPT !.at = "cleanStats", !.tenant = k, !.scan = @ \ {k}].at = "cleanStats"
      BY <1>0 DEF IsCall
    <3> QED
      BY <1>5, <3>1, <3>2 DEF CleanModel, At, Become, shared, account
  <2>2. PICK c : call' = [call EXCEPT ![th] = c] /\ c.at \in {"idle", "cleanStats"}
    BY <2>1
  <2> QED
    BY <1>0, <2>1, <2>2, MemoryStays
<1> QED
  BY <1>1, <1>2, <1>3, <1>4, <1>5 DEF IsolationSteps

LEMMA NextMemory == Inv /\ Dictionaries /\ MemoryInv /\ [Next]_allVars => MemoryInv'
<1> SUFFICES ASSUME Inv, Dictionaries, MemoryInv, [Next]_allVars PROVE MemoryInv'
  OBVIOUS
<1>1. CASE Next
  <2>1. met' = met \cup Meeting' /\ left' = (left \cup Forgotten) \cap DOMAIN allocations'
    BY <1>1 DEF Next
  <2>2. AccountShape'
    BY <1>1, <2>1, LeftKeeps, CallsKeepMemory, StepsKeepShape DEF Next, MemoryInv
  <2>3. ASSUME NEW m \in Models, m \notin met' PROVE Memory(m)'
    <3>1. OneModel(m) /\ Memory(m) /\ m \notin Meeting
      BY <2>1, <2>3 DEF Dictionaries, MemoryInv
    <3> QED
      BY <1>1, <2>1, <3>1, LeftKeeps, CallsKeepMemory, StepsKeepMemory DEF Next, MemoryInv
  <2> QED
    BY <2>2, <2>3 DEF MemoryInv, Models
<1>2. CASE UNCHANGED allVars
  BY <1>2 DEF allVars, vars, tenantVars, shared, isolation, account, MemoryInv, AccountShape, Memory,
              AllCounted, Accounting, Uncounted, At
<1> QED
  BY <1>1, <1>2

LEMMA InitMemory == Init => MemoryInv
  BY DEF Init, TenantInit, IsolationInit, MemoryInv, AccountShape, Memory, AllCounted, Accounting, At, Idle

(* A model no two calls met in the middle of has its configuration and its    *)
(* statistics, or neither, and its statistics count every allocation it       *)
(* holds but those it held when a clean-up or another registration ended the  *)
(* statistics that counted them, whatever number of threads register, clean   *)
(* up and allocate for other models, and release and evict its own, meanwhile *)
(* (register_model, cleanup_inactive_models, allocate_model_memory).         *)
THEOREM DictionariesAgree == Spec => []OneModelTwoDictionaries
<1>1. Init => Inv /\ Dictionaries /\ MemoryInv
  BY InitInv, InitDictionaries, InitMemory
<1>2. (Inv /\ Dictionaries /\ MemoryInv) /\ [Next]_allVars => (Inv /\ Dictionaries /\ MemoryInv)'
  BY NextInv, NextDictionaries, NextMemory
<1>3. Dictionaries /\ MemoryInv => OneModelTwoDictionaries
  BY DEF Dictionaries, OneModel, MemoryInv, Memory, AllCounted, OneModelTwoDictionaries
<1> QED
  BY <1>1, <1>2, <1>3, PTL DEF Spec
=============================================================================
