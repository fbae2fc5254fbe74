----------------------------- MODULE MemoryGuard -----------------------------
(***************************************************************************)
(* The process-wide memory budget (src/src/mem.cpp): initialise computes   *)
(* the RAM cap from the requested limits and the host, installs RLIMIT_AS, *)
(* and reserve/release account for bulk operations against the cap.        *)
(*                                                                         *)
(* Every method takes the mutex, so each critical section is one action;   *)
(* initialise and enforce_rlimits leave it between their sections, and the *)
(* kernel calls happen outside it.  Callers are the threads that may call  *)
(* (the program has one), Scopes the live MemoryReservation objects.       *)
(***************************************************************************)
EXTENDS Naturals, FiniteSets

CONSTANTS
  Callers,        \* threads that call initialise and enforce_rlimits
  Scopes,         \* MemoryReservation objects
  Amounts,        \* sizes of reservations
  Requests,       \* values of MemoryLimits::ram_cap_bytes
  DefaultCap,     \* its default, 6 GiB
  CapFloor,       \* 128 MiB, the floor of the computed cap
  RequestFloor,   \* 256 MiB, the floor of the request
  CapCeiling,     \* 8 GiB - 64 MiB
  HostUsable,     \* min of installed * safety_fraction and available * 5/4
  RssFloor,       \* process_rss_bytes() + 64 MiB
  Word,           \* 2^64
  Unlimited,      \* RLIM_INFINITY
  Privileged,     \* may the process raise a hard limit
  NoScope         \* an object that does not hold a reservation

ASSUME SizesAssumption ==
  /\ Amounts \subseteq Nat /\ Requests \subseteq Nat
  /\ DefaultCap \in Requests
  /\ CapFloor \in Nat \ {0} /\ RequestFloor \in Nat /\ CapCeiling \in Nat
  /\ HostUsable \in Nat /\ RssFloor \in Nat
  /\ CapFloor <= RequestFloor /\ RequestFloor <= CapCeiling
  /\ DefaultCap <= CapCeiling
  /\ Word \in Nat /\ 2 * CapCeiling < Word
  /\ Unlimited \in Nat /\ 2 * CapCeiling < Unlimited
  /\ \A a \in Amounts : a < Word
ASSUME RssAssumption == RssFloor <= CapCeiling
ASSUME PrivilegeAssumption == Privileged \in BOOLEAN
ASSUME NoScopeAssumption == NoScope \notin [bytes : Nat, counted : BOOLEAN]

VARIABLES
  initialised,  \* initialised_
  cap,          \* limits_.ram_cap_bytes
  used,         \* used_
  peak,         \* peak_
  rlimitBytes,  \* rlimit_bytes_
  installed,    \* rlimits_installed_
  kernel,       \* the RLIMIT_AS in force, soft and hard
  scope,        \* what each MemoryReservation holds
  pc,           \* where each caller is in initialise / enforce_rlimits
  target        \* its local address_space_bytes

accounting == <<used, peak, scope>>
limits     == <<initialised, cap, rlimitBytes, installed>>
locals     == <<pc, target>>
vars       == <<limits, accounting, kernel, locals>>

Init ==
  /\ initialised = FALSE /\ cap = DefaultCap
  /\ used = 0 /\ peak = 0
  /\ rlimitBytes = 0 /\ installed = FALSE
  /\ kernel = Unlimited
  /\ scope = [s \in Scopes |-> NoScope]
  /\ pc = [c \in Callers |-> "idle"]
  /\ target = [c \in Callers |-> 0]

-----------------------------------------------------------------------------
Least(a, b) == IF a < b THEN a ELSE b
Clamp(v, lo, hi) == IF v < lo THEN lo ELSE IF v > hi THEN hi ELSE v

(* recompute_defaults: the cap for a request, and the address space for a   *)
(* cap.  Mutant: a request is bounded from below only.                      *)
Mutant_CapUnbounded(request) ==
  IF request < CapFloor THEN CapFloor ELSE request
CapFor(request) ==
  Clamp(Least(Clamp(request, RequestFloor, CapCeiling), HostUsable),
        CapFloor, CapCeiling)
AddressSpaceFor(c) == Clamp(c + c \div 8, RssFloor, CapCeiling)

(* initialise, under the lock.                                              *)
Initialise(c, request, install) ==
  /\ pc[c] = "idle"
  /\ initialised' = TRUE
  /\ cap' = CapFor(request)
  /\ rlimitBytes' = AddressSpaceFor(cap')
  /\ target' = [target EXCEPT ![c] = rlimitBytes']
  /\ pc' = [pc EXCEPT ![c] = IF install THEN "getrlimit" ELSE "idle"]
  /\ UNCHANGED <<installed, accounting, kernel>>

(* initialise_from_hardware sets initialised_ in a first section of its own *)
(* and calls initialise with the defaults afterwards.                       *)
DetectHardware(c) ==
  /\ pc[c] = "idle"
  /\ initialised' = TRUE
  /\ pc' = [pc EXCEPT ![c] = "detected"]
  /\ UNCHANGED <<cap, rlimitBytes, installed, accounting, kernel, target>>

InitialiseDefaults(c) ==
  /\ pc[c] = "detected"
  /\ cap' = CapFor(DefaultCap)
  /\ rlimitBytes' = AddressSpaceFor(cap')
  /\ target' = [target EXCEPT ![c] = rlimitBytes']
  /\ pc' = [pc EXCEPT ![c] = "getrlimit"]
  /\ UNCHANGED <<initialised, installed, accounting, kernel>>

(* enforce_rlimits called directly: its one caller, prepare_memory of the   *)
(* CLI, has initialised the guard and passes the budget and an eighth.      *)
EnforceRlimits(c) ==
  /\ pc[c] = "idle" /\ initialised
  /\ target' = [target EXCEPT ![c] = cap + cap \div 8]
  /\ pc' = [pc EXCEPT ![c] = "getrlimit"]
  /\ UNCHANGED <<limits, accounting, kernel>>

(* Its kernel calls, without the lock: never ask for more than the limit in *)
(* force.  Mutant: the current limit is not consulted.                      *)
Mutant_TightenedTrusts(bytes) == bytes
Tightened(bytes) ==
  IF kernel # Unlimited /\ kernel <= bytes THEN kernel ELSE bytes

GetRlimit(c) ==
  /\ pc[c] = "getrlimit"
  /\ target' = [target EXCEPT ![c] = Tightened(target[c])]
  /\ pc' = [pc EXCEPT ![c] = "setrlimit"]
  /\ UNCHANGED <<limits, accounting, kernel>>

SetRlimit(c) ==
  /\ pc[c] = "setrlimit"
  /\ IF target[c] <= kernel \/ Privileged
     THEN kernel' = target[c] /\ pc' = [pc EXCEPT ![c] = "record"]
     ELSE UNCHANGED kernel /\ pc' = [pc EXCEPT ![c] = "idle"]
  /\ UNCHANGED <<limits, accounting, target>>

RecordRlimit(c) ==
  /\ pc[c] = "record"
  /\ installed' = TRUE
  /\ rlimitBytes' = target[c]
  /\ pc' = [pc EXCEPT ![c] = "idle"]
  /\ UNCHANGED <<initialised, cap, accounting, kernel, target>>

-----------------------------------------------------------------------------
(* 64-bit addition of two words.                                            *)
Plus(a, b) == IF a + b < Word THEN a + b ELSE a + b - Word

(* Mutant: the request alone is not compared with the cap, so the sum can   *)
(* wrap.                                                                    *)
Mutant_FitsSumOnly(bytes) == Plus(used, bytes) <= cap
Fits(bytes) == bytes <= cap /\ Plus(used, bytes) <= cap

(* The constructor of MemoryReservation: reserve, and remember whether it   *)
(* was granted.  Before initialisation it is granted and not counted; a     *)
(* refused reservation changes nothing but the statistics.                  *)
Reserve(s, bytes) ==
  /\ scope[s] = NoScope
  /\ ~initialised \/ Fits(bytes)
  /\ scope' = [scope EXCEPT ![s] = [bytes |-> bytes, counted |-> initialised]]
  /\ used' = IF initialised THEN Plus(used, bytes) ELSE used
  /\ peak' = IF used' > peak THEN used' ELSE peak
  /\ UNCHANGED <<limits, kernel, locals>>

(* Its destructor: release what was granted, counted or not, never below 0. *)
(* Mutants: the subtraction is not guarded; nothing is given back.          *)
Mutant_MinusUnguarded(a, b) == a - b
Minus(a, b) == IF b > a THEN 0 ELSE a - b
Mutant_AfterReleaseForgotten(s) == used
AfterRelease(s) == Minus(used, scope[s].bytes)

Release(s) ==
  /\ scope[s] # NoScope
  /\ used' = AfterRelease(s)
  /\ scope' = [scope EXCEPT ![s] = NoScope]
  /\ UNCHANGED <<peak, limits, kernel, locals>>

Next ==
  \/ \E c \in Callers : \/ \E r \in Requests, i \in BOOLEAN : Initialise(c, r, i)
                        \/ DetectHardware(c) \/ InitialiseDefaults(c)
                        \/ EnforceRlimits(c)
                        \/ GetRlimit(c) \/ SetRlimit(c) \/ RecordRlimit(c)
  \/ \E s \in Scopes : \/ \E b \in Amounts : Reserve(s, b)
                       \/ Release(s)

Spec == Init /\ [][Next]_vars

-----------------------------------------------------------------------------
(* PROPERTIES                                                               *)
Held == [bytes : Amounts, counted : BOOLEAN]
CallerPC == {"idle", "detected", "getrlimit", "setrlimit", "record"}

(* Type invariant; a caller past the critical section of initialise finds   *)
(* the guard initialised.                                                   *)
TypeOK ==
  /\ initialised \in BOOLEAN /\ installed \in BOOLEAN
  /\ cap \in Nat /\ used \in Nat /\ peak \in Nat
  /\ rlimitBytes \in Nat /\ kernel \in Nat
  /\ scope \in [Scopes -> Held \cup {NoScope}]
  /\ pc \in [Callers -> CallerPC]
  /\ target \in [Callers -> Nat]
  /\ \A c \in Callers : pc[c] # "idle" => initialised

(* README.md:23, `strictly below 8 GiB': whatever is requested, however     *)
(* often the guard is initialised and however the reservations interleave   *)
(* with it, neither the cap nor what was ever accounted passes the ceiling. *)
EnvelopeHolds == cap <= CapCeiling /\ used <= peak /\ peak <= CapCeiling

(* The account is exact while no reservation made before initialisation was *)
(* released, which in the program is always: the guard is initialised before *)
(* anything is reserved.  The bytes held are told apart by their holder, so  *)
(* that their number is the sum over the live reservations.                  *)
LiveScopes == {s \in Scopes : scope[s] # NoScope}
HeldBytes == UNION {{s} \X (1 .. scope[s].bytes) :
                      s \in {t \in LiveScopes : scope[t].counted}}
CountedBytes == Cardinality(HeldBytes)
ExactAccount ==
  [][(used = CountedBytes /\ \A s \in LiveScopes : scope[s].counted)
       => used' = CountedBytes']_vars

(* What the granted reservations really hold together, counted byte by byte *)
(* and not by used_, fits the budget in force when one is granted: the      *)
(* 64-bit sum that reserve compares with the cap cannot have wrapped        *)
(* (350-357), and an initialise that lowered the cap in between is heeded.   *)
HeldFitsBudget ==
  [][(used = CountedBytes /\ CountedBytes' > CountedBytes)
       => CountedBytes' <= cap]_vars

(* The address-space limit of the process is only ever tightened, also when *)
(* initialise is called again with more (494-499).                          *)
KernelOnlyTightens == [][kernel' <= kernel]_kernel

(* mem.h:74-75: `Safe to call more than once; later calls only tighten the  *)
(* envelope.'                                                               *)
BudgetOnlyTightens == [][initialised => cap' <= cap]_cap
=============================================================================
