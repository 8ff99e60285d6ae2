-------------------------- MODULE ConfigWatchProofs --------------------------
(***************************************************************************)
(* Theorems about ConfigWatch: the "pending reload covers any change"      *)
(* argument, for any number of edits and any interleaving.                 *)
(***************************************************************************)
EXTENDS ConfigWatch, TLAPS

WatchInv == TypeOK /\ Covered

\* Each action keeps the variables in their types.
LEMMA TypeStep == ASSUME TypeOK, [Next]_vars PROVE TypeOK'
<1>1. ASSUME NEW kind \in Kinds, Edit(kind) PROVE TypeOK'
  BY <1>1 DEF TypeOK, Edit, pumpVars
<1>2. CASE EditSibling
  BY <1>2 DEF TypeOK, EditSibling, pumpVars
<1>3. CASE StartWatch
  BY <1>3 DEF TypeOK, StartWatch, watchVars
<1>4. CASE LoopEvent
  BY <1>4 DEF TypeOK, LoopEvent, pumpVars
<1>5. CASE LoopSibling
  BY <1>5 DEF TypeOK, LoopSibling, pumpVars
<1>6. CASE LoopTimer
  BY <1>6 DEF TypeOK, LoopTimer, pumpVars
<1>7. CASE PumpTake
  BY <1>7 DEF TypeOK, PumpTake
<1>8. CASE PumpLoad
  BY <1>8 DEF TypeOK, PumpLoad, watchVars
<1>9. CASE PumpApply
  BY <1>9 DEF TypeOK, PumpApply, watchVars
<1>10. CASE Close
  BY <1>10 DEF TypeOK, Close
<1>11. CASE UNCHANGED vars
  BY <1>11 DEF TypeOK, vars, watchVars, pumpVars
<1>12. QED
  BY <1>1, <1>2, <1>3, <1>4, <1>5, <1>6, <1>7, <1>8, <1>9,
     <1>10, <1>11 DEF Next

\* The variables start in their types.
LEMMA TypeInit == Init => TypeOK
<1> SUFFICES ASSUME Init PROVE TypeOK
  OBVIOUS
<1>1. file \in [ver : Nat, kind : Kinds]
  BY DEF Init, Kinds
<1>2. {edits, others, events, siblings, attempted, loaded, reloads, since} \subseteq Nat
  BY DEF Init
<1>3. timer \in BOOLEAN /\ changes \in {0, 1}
  BY DEF Init
<1>4. pump \in {"starting", "select", "loading", "applying", "closed"}
  BY DEF Init
<1>5. QED
  BY <1>1, <1>2, <1>3, <1>4 DEF TypeOK

\* The variables keep their types in every behaviour.
THEOREM TypeCorrect == Spec => []TypeOK
<1>1. TypeOK /\ [Next]_vars => TypeOK'
  BY TypeStep
<1>2. QED
  BY TypeInit, <1>1, PTL DEF Spec

\* A change of the file made after the watch began is always on its way to a
\* reload until it is read.
THEOREM ChangesAreCovered == Spec => []Covered
<1>1. Init => WatchInv
  BY TypeInit DEF Init, WatchInv, Covered, Running
<1>2. WatchInv /\ [Next]_vars => WatchInv'
  <2> SUFFICES ASSUME WatchInv, [Next]_vars PROVE Covered'
    BY TypeStep DEF WatchInv
  <2> USE DEF WatchInv, TypeOK, Covered, Running
  <2>1. ASSUME NEW kind \in Kinds, Edit(kind) PROVE Covered'
    BY <2>1 DEF Edit, pumpVars
  <2>2. CASE EditSibling
    BY <2>2 DEF EditSibling, pumpVars
  <2>3. CASE StartWatch
    BY <2>3 DEF StartWatch, watchVars
  <2>4. CASE LoopEvent
    BY <2>4 DEF LoopEvent, pumpVars
  <2>5. CASE LoopSibling
    BY <2>5 DEF LoopSibling, pumpVars
  <2>6. CASE LoopTimer
    BY <2>6 DEF LoopTimer, pumpVars
  <2>7. CASE PumpTake
    BY <2>7 DEF PumpTake
  <2>8. CASE PumpLoad
    BY <2>8 DEF PumpLoad, watchVars
  <2>9. CASE PumpApply
    BY <2>9 DEF PumpApply, watchVars
  <2>10. CASE Close
    BY <2>10 DEF Close
  <2>11. CASE UNCHANGED vars
    BY <2>11 DEF vars, watchVars, pumpVars
  <2>12. QED
    BY <2>1, <2>2, <2>3, <2>4, <2>5, <2>6, <2>7, <2>8, <2>9,
       <2>10, <2>11 DEF Next
<1>3. WatchInv => Covered
  BY DEF WatchInv
<1>4. QED
  BY <1>1, <1>2, <1>3, PTL DEF Spec

\* A reload, waiting or done, can be charged to a change of the target that no
\* other reload is charged to.
THEOREM NoExtraReloads == Spec => []ReloadsAreCaused
<1> DEFINE Inv == TypeOK /\ ReloadsAreCaused
<1>1. Init => Inv
  BY TypeInit DEF Init, ReloadsAreCaused, Count
<1>2. Inv /\ [Next]_vars => Inv'
  <2> SUFFICES ASSUME Inv, [Next]_vars PROVE ReloadsAreCaused'
    BY TypeStep
  <2> USE DEF TypeOK, ReloadsAreCaused, Count
  <2>1. ASSUME NEW kind \in Kinds, Edit(kind) PROVE ReloadsAreCaused'
    BY <2>1 DEF Edit, pumpVars
  <2>2. CASE EditSibling
    BY <2>2 DEF EditSibling, pumpVars
  <2>3. CASE StartWatch
    BY <2>3 DEF StartWatch, watchVars
  <2>4. CASE LoopEvent
    BY <2>4 DEF LoopEvent, pumpVars
  <2>5. CASE LoopSibling
    BY <2>5 DEF LoopSibling, pumpVars
  <2>6. CASE LoopTimer
    BY <2>6 DEF LoopTimer, pumpVars
  <2>7. CASE PumpTake
    BY <2>7 DEF PumpTake
  <2>8. CASE PumpLoad
    BY <2>8 DEF PumpLoad, watchVars
  <2>9. CASE PumpApply
    BY <2>9 DEF PumpApply, watchVars
  <2>10. CASE Close
    BY <2>10 DEF Close
  <2>11. CASE UNCHANGED vars
    BY <2>11 DEF vars, watchVars, pumpVars
  <2>12. QED
    BY <2>1, <2>2, <2>3, <2>4, <2>5, <2>6, <2>7, <2>8, <2>9,
       <2>10, <2>11 DEF Next
<1>3. QED
  BY <1>1, <1>2, PTL DEF Spec
=============================================================================
