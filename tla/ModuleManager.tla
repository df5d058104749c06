---------------------------- MODULE ModuleManager -----------------------------
(***************************************************************************)
(* module_manager: modules are loaded by the application or by the startup *)
(* of another module, finalized in load order and shut down in reverse.    *)
(*                                                                         *)
(* One thread does all of it, but loads nest: `stack` is the C++ stack of  *)
(* startups that have not returned.  What the modules do in their startup  *)
(* is external: Requests gives the loads it asks for, StartupFails and     *)
(* FinalizeFails the modules that may answer false.                        *)
(***************************************************************************)
EXTENDS Integers, Sequences, FiniteSets, SequencesExt

CONSTANTS
  Module,
  Requests,       \* [Module -> Seq(request)]: the loads of a module's startup
  StartupFails,   \* modules whose startup may return false
  FinalizeFails   \* modules whose finalize may return false

VARIABLES
  m_modules,        \* "absent", "starting" (an entry without a module), "started" or "finalized"
  loadOrder,        \* module_storage::loadOrder
  m_nextLoadIndex,
  m_state,
  stack,            \* running startups: their module and the loads they have made
  sorted,           \* the modules that finalize or shutdown, in the order it sorted, has yet to reach
  obtained          \* ghost: the modules that the startup of each got from load

managerVars == <<m_modules, loadOrder, m_nextLoadIndex, m_state, stack, sorted, obtained>>

\* A request names a module by type (load<T>) or by the path of a library.
Request == [module : Module, by : {"type", "path"}]

ASSUME RequestsAssumption == Requests \in [Module -> Seq(Request)]

ManagerTypeOK ==
  /\ m_modules \in [Module -> {"absent", "starting", "started", "finalized"}]
  /\ loadOrder \in [Module -> Nat]
  /\ m_nextLoadIndex \in Nat
  /\ m_state \in {"idle", "loading", "finalizing", "finalized", "failed"}
  /\ stack \in Seq([module : Module, asked : Nat])
  /\ sorted \subseteq Module
  /\ obtained \in [Module -> SUBSET Module]

ManagerInit ==
  /\ m_modules = [m \in Module |-> "absent"]
  /\ loadOrder = [m \in Module |-> 0]
  /\ m_nextLoadIndex = 0
  /\ m_state = "idle"
  /\ stack = <<>>
  /\ sorted = {}
  /\ obtained = [m \in Module |-> {}]

Loaded == {m \in Module : m_modules[m] \in {"started", "finalized"}}

\* The startup at the top of s, if any, receives the pointer of m.
Receive(s, m) ==
  IF s = <<>> THEN obtained
  ELSE [obtained EXCEPT ![Last(s).module] = @ \cup {m}]

\* scoped_state_change: the state of the outermost load ends as it was.
StateIn(s) == IF s = <<>> THEN "idle" ELSE "loading"

\* load, called while the startups of s run.  load<T> finds a module that has
\* started; emplace then finds the entry of any module loaded before, and the
\* answer is a null pointer, which every caller is taken to survive.
Load(r, s) ==
  /\ m_state \in {"idle", "loading"}
  /\ \/ /\ r.by = "type" /\ r.module \in Loaded
        /\ obtained' = Receive(s, r.module)
        /\ stack' = s
        /\ UNCHANGED m_modules
     \/ /\ m_modules[r.module] # "absent"
        /\ r.by = "path" \/ r.module \notin Loaded
        /\ stack' = s
        /\ UNCHANGED <<m_modules, obtained>>
     \/ /\ m_modules[r.module] = "absent"
        /\ m_modules' = [m_modules EXCEPT ![r.module] = "starting"]
        /\ obtained' = [obtained EXCEPT ![r.module] = {}]
        /\ stack' = Append(s, [module |-> r.module, asked |-> 0])
  /\ m_state' = StateIn(stack')
  /\ UNCHANGED <<loadOrder, m_nextLoadIndex, sorted>>

StartupAsks ==
  /\ stack # <<>>
  /\ LET top == Last(stack) IN
       /\ top.asked < Len(Requests[top.module])
       /\ Load(Requests[top.module][top.asked + 1],
               [stack EXCEPT ![Len(stack)].asked = @ + 1])

\* The startup of m is at the top and has made its loads.
StartupDone(m) ==
  /\ stack # <<>>
  /\ m = Last(stack).module
  /\ Last(stack).asked = Len(Requests[m])

StartupSucceeds(m) ==
  /\ StartupDone(m)
  /\ m_modules' = [m_modules EXCEPT ![m] = "started"]
  /\ m_nextLoadIndex' = m_nextLoadIndex + 1
  /\ loadOrder' = [loadOrder EXCEPT ![m] = m_nextLoadIndex + 1]
  /\ obtained' = Receive(Front(stack), m)
  /\ stack' = Front(stack)
  /\ m_state' = StateIn(stack')
  /\ UNCHANGED sorted

\* The entry is erased; the modules that the startup loaded stay.
StartupFailsWith(m) ==
  /\ m \in StartupFails
  /\ StartupDone(m)
  /\ m_modules' = [m_modules EXCEPT ![m] = "absent"]
  /\ stack' = Front(stack)
  /\ m_state' = StateIn(stack')
  /\ UNCHANGED <<loadOrder, m_nextLoadIndex, sorted, obtained>>

\* The module that comes next in the copy sorted by load order.
NextInOrder(m) == m \in sorted /\ \A n \in sorted : loadOrder[m] <= loadOrder[n]
\* Mutant: the comparison of the other sort.
NextInReverse_LoadOrder(m) == NextInOrder(m)

\* And in the copy sorted by reverse load order.
NextInReverse(m) == m \in sorted /\ \A n \in sorted : loadOrder[m] >= loadOrder[n]

FinalizeBegins ==
  /\ stack = <<>>
  /\ m_state = "idle"
  /\ m_state' = "finalizing"
  /\ sorted' = Loaded
  /\ UNCHANGED <<m_modules, loadOrder, m_nextLoadIndex, stack, obtained>>

\* The next module finalizes, or fails and ends the loop.
FinalizeModule(m) ==
  /\ NextInOrder(m)
  /\ \/ /\ m_modules' = [m_modules EXCEPT ![m] = "finalized"]
        /\ sorted' = sorted \ {m}
        /\ UNCHANGED m_state
     \/ /\ m \in FinalizeFails
        /\ sorted' = {}
        /\ m_state' = "failed"
        /\ UNCHANGED m_modules

FinalizeStep ==
  /\ m_state = "finalizing"
  /\ \/ \E m \in Module : FinalizeModule(m)
     \/ /\ sorted = {}
        /\ m_state' = "finalized"
        /\ UNCHANGED <<m_modules, sorted>>
  /\ UNCHANGED <<loadOrder, m_nextLoadIndex, stack, obtained>>

ShutdownBegins ==
  /\ stack = <<>>
  /\ sorted' = Loaded
  /\ UNCHANGED <<m_modules, loadOrder, m_nextLoadIndex, m_state, stack, obtained>>

\* The module is shut down and its entry erased: the module is destroyed.
ShutdownStep(m) ==
  /\ NextInReverse(m)
  /\ m_modules' = [m_modules EXCEPT ![m] = "absent"]
  /\ sorted' = sorted \ {m}
  /\ UNCHANGED <<loadOrder, m_nextLoadIndex, m_state, stack, obtained>>

-------------------------------------------------------------------------------
\* The modules whose pointers the startup of a module got from load live as
\* long as that module, and were finalized before it: the order given when a
\* startup returns (module_manager.cpp:440), not when its load began, is what
\* finalize follows and shutdown reverses, through nested, repeated and failed
\* loads and after a finalize that stopped halfway.
ModulesNested ==
  \A m \in Module : m_modules[m] # "absent" =>
    \A d \in obtained[m] :
      /\ d \in Loaded
      /\ m_modules[m] = "finalized" => m_modules[d] = "finalized"
===============================================================================
