---------------------------- MODULE RefCounter ----------------------------
(***************************************************************************)
(* The RefBase-style atomic counter behind every native binder             *)
(* (rsbinder/src/ref_counter.rs), one action per atomic instruction.  A    *)
(* member of Refs is one owner of at most one reference: an SIBinder        *)
(* (inc_strong in from_arc, dec_strong in Drop) or the extra reference a    *)
(* dispatch takes with attempt_inc_strong and gives back with decrease.     *)
(*                                                                         *)
(* Only attempt_inc(is_strong = true) has a caller (native.rs), so the      *)
(* is_strong = false arm is left out.  A weak compare-exchange that fails   *)
(* spuriously re-reads the same value, which is a stuttering step here.     *)
(***************************************************************************)
EXTENDS Integers, FiniteSets

CONSTANTS Refs,                 \* the possible reference owners
          INITIAL_STRONG_VALUE  \* the "never referenced" sentinel, 1 << 28

\* The sentinel must stay clear of every real count ("~2^28 headroom").
ASSUME RefsAssumption ==
    /\ IsFiniteSet(Refs)
    /\ INITIAL_STRONG_VALUE \in Nat
    /\ Cardinality(Refs) < INITIAL_STRONG_VALUE

VARIABLES count,   \* the AtomicI32
          pc,      \* pc[r]: where owner r stands inside inc / attempt_inc / dec
          curr     \* curr[r]: curr_count, the local of attempt_inc
vars == <<count, pc, curr>>

Init ==
    /\ count = INITIAL_STRONG_VALUE
    /\ pc = [r \in Refs |-> "none"]
    /\ curr = [r \in Refs |-> 0]

Goto(r, label) == pc' = [pc EXCEPT ![r] = label]

-----------------------------------------------------------------------------
(* inc *)

IncAdd(r) ==
    /\ pc[r] = "none"
    /\ count' = count + 1
    /\ Goto(r, IF count = INITIAL_STRONG_VALUE THEN "inc_sub" ELSE "held")
    /\ UNCHANGED curr

IncSub(r) ==
    /\ pc[r] = "inc_sub"
    /\ count' = count - INITIAL_STRONG_VALUE
    /\ Goto(r, "held")
    /\ UNCHANGED curr

-----------------------------------------------------------------------------
(* attempt_inc(is_strong = true) *)

\* Where the value just read sends the two retry loops.
AfterRead(v) ==
    IF v <= 0 THEN "none"
    ELSE IF v = INITIAL_STRONG_VALUE THEN "att_strong" ELSE "att_cas"

AttLoad(r) ==
    /\ pc[r] = "none"
    /\ curr' = [curr EXCEPT ![r] = count]
    /\ Goto(r, AfterRead(count))
    /\ UNCHANGED count

\* The first loop: the count is positive and not the sentinel.
AttCas(r) ==
    /\ pc[r] = "att_cas"
    /\ \/ /\ count = curr[r]
          /\ count' = count + 1
          /\ Goto(r, "held")
          /\ UNCHANGED curr
       \/ /\ count # curr[r]
          /\ curr' = [curr EXCEPT ![r] = count]
          /\ Goto(r, AfterRead(count))
          /\ UNCHANGED count

\* Fault model: the second loop gives up when its compare-exchange fails.
AttStrongFault(r) ==
    /\ pc[r] = "att_strong"
    /\ count' = IF count = curr[r] THEN count + 1 ELSE count
    /\ Goto(r, IF count # curr[r] THEN "none"
               ELSE IF curr[r] = INITIAL_STRONG_VALUE THEN "att_sub" ELSE "held")
    /\ UNCHANGED curr

\* The second loop: entered on the sentinel, it accepts any positive count.
AttStrong(r) ==
    /\ pc[r] = "att_strong"
    /\ \/ /\ count = curr[r]
          /\ count' = count + 1
          /\ Goto(r, IF curr[r] = INITIAL_STRONG_VALUE THEN "att_sub" ELSE "held")
          /\ UNCHANGED curr
       \/ /\ count # curr[r]
          /\ curr' = [curr EXCEPT ![r] = count]
          /\ Goto(r, IF count <= 0 THEN "none" ELSE "att_strong")
          /\ UNCHANGED count

AttSub(r) ==
    /\ pc[r] = "att_sub"
    /\ count' = count - INITIAL_STRONG_VALUE
    /\ Goto(r, "held")
    /\ UNCHANGED curr

-----------------------------------------------------------------------------
(* dec *)

\* Fault model: dec leaves the count at zero when it drops the last reference.
DecSubFault(r) ==
    /\ pc[r] = "held"
    /\ count' = count - 1
    /\ Goto(r, "none")
    /\ UNCHANGED curr

DecSub(r) ==
    /\ pc[r] = "held"
    /\ count' = count - 1
    /\ Goto(r, IF count = 1 THEN "dec_cas" ELSE "none")
    /\ UNCHANGED curr

\* Fault model: the re-arm as a plain store instead of a compare-exchange.
DecStoreFault(r) ==
    /\ pc[r] = "dec_cas"
    /\ count' = INITIAL_STRONG_VALUE
    /\ Goto(r, "none")
    /\ UNCHANGED curr

\* Re-arm the sentinel unless a concurrent inc revived the count.
DecCas(r) ==
    /\ pc[r] = "dec_cas"
    /\ count' = IF count = 0 THEN INITIAL_STRONG_VALUE ELSE count
    /\ Goto(r, "none")
    /\ UNCHANGED curr

-----------------------------------------------------------------------------
Next == \E r \in Refs :
    \/ IncAdd(r) \/ IncSub(r)
    \/ AttLoad(r) \/ AttCas(r) \/ AttStrong(r) \/ AttSub(r)
    \/ DecSub(r) \/ DecCas(r)

Spec == Init /\ [][Next]_vars

-----------------------------------------------------------------------------
(* Properties *)

Labels == {"none", "inc_sub", "att_cas", "att_strong", "att_sub", "held", "dec_cas"}

TypeOK ==
    /\ count \in Int
    /\ pc \in [Refs -> Labels]
    /\ curr \in [Refs -> Int]

\* Owners that removed the sentinel's first unit but not the sentinel itself.
Clearing == {r \in Refs : pc[r] \in {"inc_sub", "att_sub"}}

\* Owners whose reference is included in the count.
Counted == {r \in Refs : pc[r] \in {"held", "inc_sub", "att_sub"}}

\* The inductive invariant: the count is the number of references, plus the
\* sentinel while it is armed or one owner is about to remove it; a bare zero
\* is always about to be re-armed; the first loop never carries the sentinel.
CountInv ==
    /\ \/ Clearing = {} /\ count = Cardinality(Counted)
       \/ /\ \E r \in Refs : Clearing = {r}
          /\ count = INITIAL_STRONG_VALUE + Cardinality(Counted)
       \/ Counted = {} /\ count = INITIAL_STRONG_VALUE
    /\ count = 0 => \E r \in Refs : pc[r] = "dec_cas"
    /\ \A r \in Refs : pc[r] = "att_cas" => curr[r] # INITIAL_STRONG_VALUE

\* debug_assert!(c >= 1) in dec and debug_assert!(curr_count >= 0) in
\* attempt_inc never fire: a reference being dropped is always in the count,
\* and the count a reader sees is never negative, the transient values of inc
\* included (the reason ref_counter.rs gives for 1 << 28 over i32::MAX).
NoUnderflow ==
    /\ count >= 0
    /\ (\E r \in Refs : pc[r] = "held") => count >= 1

\* Once every owner is outside the counter with nothing held, the sentinel is
\* armed again, whatever order the last decrements, revivals and failed
\* compare-exchanges took: dec can neither lose the re-arm nor do it twice.
QuiescentIsArmed ==
    (\A r \in Refs : pc[r] = "none") => count = INITIAL_STRONG_VALUE

\* attempt_inc gives up only at an instant when nobody holds a reference: the
\* dispatch in execute_command, which takes one with from_arc first, can count
\* on its attempt_increase.
AttemptFailsOnlyUnreferenced ==
    [][\A r \in Refs :
         pc[r] \in {"att_cas", "att_strong"} /\ pc'[r] = "none" => Counted = {}]_vars

\* inc, attempt_inc and dec together keep the count a native binder lives by:
\* it is exact, never underflows, is armed again when the last owner is gone,
\* and refuses a reference only when there was none left.
CounterSafe == [](CountInv /\ NoUnderflow /\ QuiescentIsArmed) /\ AttemptFailsOnlyUnreferenced
=============================================================================
