-------------------------- MODULE ResultStoreProofs --------------------------
(***************************************************************************)
(* Memoisation by (TYPE, VERSION) is sound for callers whose runner        *)
(* instances of one identity resolve their options to the same program    *)
(* arguments: then every result a run returns, loaded or computed, is the  *)
(* one its own _generate_result and _read_result give, for any set of      *)
(* runner instances, options and assets.                                   *)
(***************************************************************************)
EXTENDS ResultStore, TLAPS

(* Runner instances with the same identity compute the same Result.       *)
IdentityDeterminesResult ==
    \A r1, r2 \in Runners, a \in Assets :
       ExecutorId(TypeOf(r1)) = ExecutorId(TypeOf(r2)) => Fresh(r1, a) = Fresh(r2, a)

Results == {Fresh(r, a) : r \in Runners, a \in Assets}

(* Every saved entry is what every runner that maps to its key computes.   *)
StoredAreFresh ==
    \A r \in Runners, a \in Assets :
       store[StoreKey(r, a)] # NoValue => store[StoreKey(r, a)] = Fresh(r, a)

SInv ==
    /\ store \in [StoreKeys -> Results \cup {NoValue}]
    /\ returned \in [Runners -> [Assets -> Results \cup {NoValue}]]
    /\ StoredAreFresh
    /\ CachedResultIsFresh

(* Two store keys are equal only for the same asset and the same identity. *)
LEMMA StoreKeyEqual ==
    ASSUME NEW r1 \in Runners, NEW r2 \in Runners, NEW a \in Assets, NEW b \in Assets,
           StoreKey(r1, a) = StoreKey(r2, b)
    PROVE  ExecutorId(TypeOf(r1)) = ExecutorId(TypeOf(r2)) /\ a = b
BY DEF StoreKey

(* Under the identity hypothesis, a lookup, a run-and-save or a removal    *)
(* keeps every stored and every returned result equal to its strategy's.  *)
LEMMA StoreStep ==
    ASSUME IdentityDeterminesResult
    PROVE  SInv /\ [Next]_vars => SInv'
<1> SUFFICES ASSUME SInv, [Next]_vars PROVE SInv'
    OBVIOUS
<1>1. ASSUME NEW r \in Runners, NEW a \in Assets, LoadFromStore(r, a) PROVE SInv'
    <2>1. store[StoreKey(r, a)] = Fresh(r, a)
        BY <1>1 DEF LoadFromStore, SInv, StoredAreFresh
    <2>2. returned' = [returned EXCEPT ![r][a] = Fresh(r, a)] /\ store' = store
        BY <1>1, <2>1 DEF LoadFromStore
    <2>3. Fresh(r, a) \in Results
        BY DEF Results
    <2>. QED
        BY <2>2, <2>3 DEF SInv, StoredAreFresh, CachedResultIsFresh
<1>2. ASSUME NEW r \in Runners, NEW a \in Assets, RunAndSave(r, a) PROVE SInv'
    <2>1. /\ store' = [store EXCEPT ![StoreKey(r, a)] = Fresh(r, a)]
          /\ returned' = [returned EXCEPT ![r][a] = Fresh(r, a)]
        BY <1>2 DEF RunAndSave
    <2>2. Fresh(r, a) \in Results /\ StoreKey(r, a) \in StoreKeys
        BY DEF Results, StoreKeys
    <2>3. StoredAreFresh'
        <3> SUFFICES ASSUME NEW r2 \in Runners, NEW b \in Assets,
                            store'[StoreKey(r2, b)] # NoValue
                     PROVE  store'[StoreKey(r2, b)] = Fresh(r2, b)
            BY DEF StoredAreFresh
        <3>1. StoreKey(r2, b) \in StoreKeys
            BY DEF StoreKeys
        <3>2. CASE StoreKey(r2, b) = StoreKey(r, a)
            <4>1. ExecutorId(TypeOf(r)) = ExecutorId(TypeOf(r2)) /\ a = b
                BY <3>2, StoreKeyEqual
            <4>2. Fresh(r, a) = Fresh(r2, b)
                BY <4>1 DEF IdentityDeterminesResult
            <4>. QED
                BY <2>1, <2>2, <3>2, <4>2 DEF SInv
        <3>3. CASE StoreKey(r2, b) # StoreKey(r, a)
            BY <2>1, <3>1, <3>3 DEF SInv, StoredAreFresh
        <3>. QED
            BY <3>2, <3>3
    <2>. QED
        BY <2>1, <2>2, <2>3 DEF SInv, CachedResultIsFresh
<1>3. ASSUME NEW r \in Runners, NEW a \in Assets, RemoveResult(r, a) PROVE SInv'
    <2>1. store' = [store EXCEPT ![StoreKey(r, a)] = NoValue] /\ returned' = returned
        BY <1>3 DEF RemoveResult
    <2>2. StoreKey(r, a) \in StoreKeys
        BY DEF StoreKeys
    <2>3. \A k \in StoreKeys : store'[k] # NoValue => store'[k] = store[k]
        BY <2>1, <2>2 DEF SInv
    <2>4. \A r2 \in Runners, b \in Assets : StoreKey(r2, b) \in StoreKeys
        BY DEF StoreKeys
    <2>. QED
        BY <2>1, <2>2, <2>3, <2>4 DEF SInv, StoredAreFresh, CachedResultIsFresh
<1>4. CASE UNCHANGED vars
    BY <1>4 DEF vars, SInv, StoredAreFresh, CachedResultIsFresh
<1>. QED
    BY <1>1, <1>2, <1>3, <1>4 DEF Next

(* _read_result depends on the runner only through its identity and the   *)
(* arguments its options resolve to, so equal arguments for equal          *)
(* identities make the identity determine the Result.                      *)
LEMMA ArgumentsDetermineResult ==
    IdentityFixesArguments => IdentityDeterminesResult
<1> SUFFICES ASSUME IdentityFixesArguments,
                    NEW r1 \in Runners, NEW r2 \in Runners, NEW a \in Assets,
                    ExecutorId(TypeOf(r1)) = ExecutorId(TypeOf(r2))
             PROVE  Fresh(r1, a) = Fresh(r2, a)
    BY DEF IdentityDeterminesResult
<1>1. TypeOf(r1) = TypeOf(r2)
    BY DEF ExecutorId
<1>2. ProgramArgs(r1) = ProgramArgs(r2)
    BY DEF IdentityFixesArguments
<1>. QED
    BY <1>1, <1>2 DEF Fresh

(* Executor's store lookup by (asset, TYPE, VERSION) never returns a       *)
(* result computed from other program arguments, as long as the runner    *)
(* instances sharing an identity resolve their optional_dict alike         *)
(* (VmafossExecQualityRunner._generate_result's defaults included).  The   *)
(* run store_options shows the hypothesis is needed: VERSION ignores       *)
(* phone_model.                                                            *)
THEOREM MemoisationSound ==
    IdentityFixesArguments => (Spec => []CachedResultIsFresh)
<1> SUFFICES ASSUME IdentityFixesArguments PROVE Spec => []CachedResultIsFresh
    OBVIOUS
<1>0. IdentityDeterminesResult
    BY ArgumentsDetermineResult
<1>1. Init => SInv
    <2> SUFFICES ASSUME Init PROVE SInv
        OBVIOUS
    <2>1. \A k \in StoreKeys : store[k] = NoValue
        BY DEF Init
    <2>2. \A r \in Runners, a \in Assets : StoreKey(r, a) \in StoreKeys
        BY DEF StoreKeys
    <2>. QED
        BY <2>1, <2>2 DEF Init, SInv, StoredAreFresh, CachedResultIsFresh
<1>2. SInv /\ [Next]_vars => SInv'
    BY <1>0, StoreStep
<1>3. SInv => CachedResultIsFresh
    BY DEF SInv
<1>. QED
    BY <1>1, <1>2, <1>3, PTL DEF Spec

=============================================================================
