---------------------------- MODULE PythonBinding ----------------------------
(***************************************************************************)
(* The Python wrapper's loading of the native library (_lib and _bind of   *)
(* wrappers/python/hymmalm/__init__.py) by threads that each have a        *)
(* LicenseClient of their own.  A ctypes.CDLL object keeps, by function,   *)
(* the types _bind gave it; a function without them takes and returns a C  *)
(* int, and a pointer does not fit one.                                    *)
(***************************************************************************)
EXTENDS Naturals, Sequences

CONSTANTS
  Threads,
  Candidates,  \* bound: file names the library is looked for under
  NoLib

VARIABLES
  LIB,         \* _LIB: the CDLL object, named by the thread that made it
  bound,       \* how many functions of each CDLL object have their types
  pc, want,    \* each thread: where it is, the function it wants to call
  tries,       \* candidates it has left to try
  lib,         \* the CDLL object _lib or _bind has got
  handle       \* self._h: "none", "pointer", or "cut" to the width of an int

vars == <<LIB, bound, pc, want, tries, lib, handle>>

\* In the order of _bind.
Functions == <<"create", "destroy", "check">>
IsBound(l, f) == \E i \in 1 .. bound[l] : Functions[i] = f

\* A method of LicenseClient enters _lib.
Enter(t, f) ==
  /\ pc[t] = "idle" /\ (handle[t] = "none") = (f = "create")
  /\ want' = [want EXCEPT ![t] = f] /\ tries' = [tries EXCEPT ![t] = Candidates]
  /\ pc' = [pc EXCEPT ![t] = IF LIB # NoLib THEN "return" ELSE "load"]
  /\ UNCHANGED <<LIB, bound, lib, handle>>

Load(t) ==
  /\ pc[t] = "load" /\ tries[t] > 0
  /\ \/ /\ LIB' = t /\ bound' = [bound EXCEPT ![t] = 0]
        /\ pc' = [pc EXCEPT ![t] = "loaded"] /\ UNCHANGED tries
     \/ /\ tries' = [tries EXCEPT ![t] = @ - 1]
        /\ UNCHANGED <<LIB, bound, pc>>
  /\ UNCHANGED <<want, lib, handle>>

\* No candidate: OSError, unless another thread has found one meanwhile.
NotFound(t) ==
  /\ pc[t] = "load" /\ tries[t] = 0
  /\ pc' = [pc EXCEPT ![t] = IF LIB = NoLib THEN "idle" ELSE "loaded"]
  /\ UNCHANGED <<LIB, bound, want, tries, lib, handle>>

BeginBind(t) ==
  /\ pc[t] = "loaded"
  /\ lib' = [lib EXCEPT ![t] = LIB] /\ pc' = [pc EXCEPT ![t] = "bind"]
  /\ UNCHANGED <<LIB, bound, want, tries, handle>>

\* Setting the types of a function that has them changes nothing.
Bind(t) ==
  /\ pc[t] = "bind"
  /\ IF bound[lib[t]] < Len(Functions)
     THEN bound' = [bound EXCEPT ![lib[t]] = @ + 1] /\ UNCHANGED pc
     ELSE pc' = [pc EXCEPT ![t] = "return"] /\ UNCHANGED bound
  /\ UNCHANGED <<LIB, want, tries, lib, handle>>

Return(t) ==
  /\ pc[t] = "return"
  /\ lib' = [lib EXCEPT ![t] = LIB] /\ pc' = [pc EXCEPT ![t] = "call"]
  /\ UNCHANGED <<LIB, bound, want, tries, handle>>

Call(t) ==
  /\ pc[t] = "call" /\ pc' = [pc EXCEPT ![t] = "idle"]
  /\ handle' = [handle EXCEPT ![t] =
       IF ~IsBound(lib[t], want[t]) THEN "cut" ELSE CASE want[t] = "create" -> "pointer"
                                                      [] want[t] = "destroy" -> "none"
                                                      [] OTHER -> @]
  /\ UNCHANGED <<LIB, bound, want, tries, lib>>

Init ==
  /\ LIB = NoLib /\ bound = [t \in Threads |-> 0]
  /\ pc = [t \in Threads |-> "idle"] /\ want = [t \in Threads |-> "create"]
  /\ tries = [t \in Threads |-> 0] /\ lib = [t \in Threads |-> NoLib]
  /\ handle = [t \in Threads |-> "none"]

Next == \E t \in Threads : \/ \E f \in {"create", "destroy", "check"} : Enter(t, f)
                           \/ Load(t) \/ NotFound(t) \/ BeginBind(t) \/ Bind(t) \/ Return(t) \/ Call(t)

Spec == Init /\ [][Next]_vars

\* With one LicenseClient a thread, as the class asks, the native handle goes in and out of the
\* library whole: LicenseClient.__init__ and its methods call functions whose types are set.
HandlesAreWhole == \A t \in Threads : handle[t] # "cut"
==============================================================================
