----------------------------- MODULE ZeProvider -----------------------------
(***************************************************************************)
(* The allocation tracking and residency control of the Level Zero memory *)
(* provider, src/src/provider/provider_level_zero.c.                      *)
(*                                                                         *)
(* Threads call alloc and free under the read side of the provider's      *)
(* rwlock; the ctl handlers add_resident_device and                       *)
(* remove_resident_device run under the write side and walk the           *)
(* `allocations` critnib with critnib_iter(0, UINTPTR_MAX).  The critnib  *)
(* is used through its abstract behaviour (module CritnibMap, which       *)
(* Critnib is checked to implement, and the full-range iteration checked  *)
(* by Critnib!IterFullRange): insert without update adds an absent key,    *)
(* remove deletes one, and iteration visits every key in ascending order.  *)
(* The driver (zeMemAlloc*, zeMemFree, zeContextMakeMemoryResident,       *)
(* zeContextEvictMemory) is a set of live addresses and a residency        *)
(* relation; with Failures, any of its calls and the critnib's allocation  *)
(* may fail.  A write-locked handler runs while no thread holds the read  *)
(* lock and nothing else can run, so it is one step.                      *)
(*                                                                         *)
(* The provider's life: the owner fills a parameter record through        *)
(* umfLevelZeroMemoryProviderParamsCreate and its setters, then            *)
(* ze_memory_provider_initialize checks the parameters,                    *)
(* parameters, acquires the host resources one by one, and allocates and  *)
(* frees one byte to learn the page size; only then is the provider       *)
(* handed out, so no other thread runs meanwhile.  The owner calls         *)
(* ze_memory_provider_finalize once no call is in flight.                  *)
(***************************************************************************)
EXTENDS Naturals, Sequences, FiniteSets

CONSTANTS
  Threads,   \* threads calling alloc and free
  Addrs,     \* addresses the driver may hand out (naturals: critnib keys)
  Devices,   \* ze_device_handle_t values passed to the residency handlers
  MaxDevs,   \* bound on resident_device_count
  Failures   \* whether driver calls and host allocations may fail

ASSUME Addrs \subseteq Nat /\ MaxDevs \in Nat /\ Failures \in BOOLEAN

VARIABLES
  pc,          \* per thread: where in alloc or free it is
  addr,        \* per thread: *resultPtr of alloc, ptr of free
  devs,        \* resident_device_handles[0 .. resident_device_count - 1]
  allocations, \* the keys of the allocations critnib
  live,        \* addresses the driver has allocated and not freed
  resident,    \* <<address, device>> pairs made resident by the driver
  owned,       \* addresses alloc returned to its callers, not yet freed
  prm,         \* the umf_level_zero_memory_provider_params_t passed to initialize
  life,        \* "params", the step of initialize to run next, "ready", "failed" or "finalized"
  held,        \* the provider's host resources not yet released
  qbuf,        \* the byte query_min_page_size allocated
  stuck        \* a read hold on the rwlock that nobody releases

ops == <<pc, addr, devs, allocations, live, resident, owned>>
lifevars == <<prm, life, held, qbuf, stuck>>
vars == <<ops, lifevars>>

NoAddr == 0

\* Threads inside alloc or free hold the read lock.
Readers == {t \in Threads : pc[t] # "idle"}

\* Make a resident on the devices in positions 1 .. j of the list.
ResidentUpTo(a, j) == {<<a, devs[i]>> : i \in 1 .. j}

-----------------------------------------------------------------------------
(* ze_memory_provider_alloc, lines 511-587.                                *)

\* Lines 511-563: read lock, zeMemAlloc* gives an address the driver does
\* not use.  A failing zeMemAlloc* (lines 563-566) changes nothing: a
\* stuttering step.
AllocBegin(t) ==
  /\ life = "ready" /\ pc[t] = "idle"
  /\ \E a \in Addrs \ live :
       /\ live' = live \cup {a}
       /\ addr' = [addr EXCEPT ![t] = a]
  /\ pc' = [pc EXCEPT ![t] = "alloc_resident"]
  /\ UNCHANGED <<devs, allocations, resident, owned, lifevars>>

\* Lines 568-577: make the memory resident on every listed device; when
\* device j fails the call returns the error at once, the memory still
\* allocated and resident on devices 1 .. j-1.
AllocResident(t) ==
  /\ pc[t] = "alloc_resident"
  /\ \/ /\ resident' = resident \cup ResidentUpTo(addr[t], Len(devs))
        /\ pc' = [pc EXCEPT ![t] = "alloc_insert"]
        /\ UNCHANGED addr
     \/ /\ Failures
        /\ \E j \in 1 .. Len(devs) :
             resident' = resident \cup ResidentUpTo(addr[t], j - 1)
        /\ pc' = [pc EXCEPT ![t] = "idle"]
        /\ addr' = [addr EXCEPT ![t] = NoAddr]
  /\ UNCHANGED <<devs, allocations, live, owned, lifevars>>

\* Lines 579-586: critnib_insert(..., 0), its result ignored (EEXIST when
\* the key is present, ENOMEM); read unlock and return the address.
AllocInsert(t) ==
  /\ pc[t] = "alloc_insert"
  /\ \/ allocations' = allocations \cup {addr[t]}
     \/ Failures /\ UNCHANGED allocations
  /\ owned' = owned \cup {addr[t]}
  /\ pc' = [pc EXCEPT ![t] = "idle"]
  /\ addr' = [addr EXCEPT ![t] = NoAddr]
  /\ UNCHANGED <<devs, live, resident, lifevars>>

-----------------------------------------------------------------------------
(* ze_memory_provider_free, lines 589-624.                                 *)

\* Lines 596-602 (and 611-616 with a free policy): read lock, zeMemFree,
\* which ends the memory's residency.  A failing zeMemFree returns the
\* error with nothing changed: a stuttering step.
FreeBegin(t, a) ==
  /\ life = "ready" /\ pc[t] = "idle" /\ a \in owned
  /\ owned' = owned \ {a}
  /\ live' = live \ {a}
  /\ resident' = {p \in resident : p[1] # a}
  /\ addr' = [addr EXCEPT ![t] = a]
  /\ pc' = [pc EXCEPT ![t] = "free_remove"]
  /\ UNCHANGED <<devs, allocations, lifevars>>

\* Mutation: the entry is not removed from allocations.
FreeRemoveNever(t) ==
  /\ pc[t] = "free_remove"
  /\ pc' = [pc EXCEPT ![t] = "idle"]
  /\ addr' = [addr EXCEPT ![t] = NoAddr]
  /\ UNCHANGED <<devs, allocations, live, resident, owned, lifevars>>

\* Lines 603-607: critnib_remove_release of the address (critnib_remove here), read unlock.
FreeRemove(t) ==
  /\ pc[t] = "free_remove"
  /\ allocations' = allocations \ {addr[t]}
  /\ pc' = [pc EXCEPT ![t] = "idle"]
  /\ addr' = [addr EXCEPT ![t] = NoAddr]
  /\ UNCHANGED <<devs, live, resident, owned, lifevars>>

-----------------------------------------------------------------------------
(* The ctl handlers, under the write lock.                                 *)

\* critnib_iter(0, UINTPTR_MAX) with a callback that stops at the first
\* failure: the keys before the failing one, in ascending order, are done.
Before(f) == {a \in allocations : a < f}

\* Lines 263-305: append the device (a failing umf_ba_global_alloc of the
\* new list returns with nothing changed: a stuttering step), then make
\* every allocation resident on it; a failure stops the walk, the device
\* stays listed.
AddResidentDevice(d) ==
  /\ life = "ready" /\ Readers = {} /\ Len(devs) < MaxDevs
  /\ devs' = Append(devs, d)
  /\ \/ resident' = resident \cup {<<a, d>> : a \in allocations}
     \/ /\ Failures
        /\ \E f \in allocations : resident' = resident \cup {<<a, d>> : a \in Before(f)}
  /\ UNCHANGED <<pc, addr, allocations, live, owned, lifevars>>

\* The list without its first occurrence of d (lines 326-336).
RemoveFirst(s, d) ==
  LET i == CHOOSE i \in 1 .. Len(s) : s[i] = d /\ \A j \in 1 .. i - 1 : s[j] # d
  IN  [j \in 1 .. Len(s) - 1 |-> IF j < i THEN s[j] ELSE s[j + 1]]

\* Lines 307-350: drop the first occurrence of the device (not listed:
\* success, nothing changed), then evict every allocation from it; a
\* failure stops the walk.
RemoveResidentDevice(d) ==
  /\ life = "ready" /\ Readers = {}
  /\ d \in {devs[i] : i \in 1 .. Len(devs)}
  /\ devs' = RemoveFirst(devs, d)
  /\ \/ resident' = resident \ {<<a, d>> : a \in allocations}
     \/ /\ Failures
        /\ \E f \in allocations : resident' = resident \ {<<a, d>> : a \in Before(f)}
  /\ UNCHANGED <<pc, addr, allocations, live, owned, lifevars>>

-----------------------------------------------------------------------------
(* The parameter API, lines 361-470.  A parameter record is the context   *)
(* and device handles (set or NULL), the memory type, the resident device *)
(* list and whether its array pointer is set.  The free policy and the    *)
(* device ordinal are only passed on to the driver and are left out.      *)

\* umf_usm_memory_type_t: the three types and UMF_MEMORY_TYPE_UNKNOWN.
UsmTypes == {"host", "device", "shared", "unknown"}

\* Resident device lists of at most one device.
ResidentLists == {<<>>} \cup {<<d>> : d \in Devices}

\* Lines 376-383: the defaults umfLevelZeroMemoryProviderParamsCreate
\* assigns (a failing allocation of the record returns with nothing made).
ParamsDefault == [context |-> FALSE, device |-> FALSE, type |-> "unknown",
                  devs |-> <<>>, handles |-> FALSE]

\* The setters change the record the owner holds before initialize.
Setting == life = "params" /\ UNCHANGED <<ops, life, held, qbuf, stuck>>

\* Lines 397-413: a NULL context is rejected with nothing changed.
SetContext == Setting /\ prm' = [prm EXCEPT !.context = TRUE]

\* Lines 415-426: any device handle, NULL included.
SetDevice(dev) == Setting /\ prm' = [prm EXCEPT !.device = dev]

\* Lines 428-439: any memory type, UNKNOWN included.
SetMemoryType(m) == Setting /\ prm' = [prm EXCEPT !.type = m]

\* Lines 453-470: a nonzero count with a NULL array is rejected with
\* nothing changed.
SetResidentDevices(l, arr) ==
  /\ l # <<>> => arr
  /\ Setting /\ prm' = [prm EXCEPT !.devs = l, !.handles = arr]

-----------------------------------------------------------------------------
(* ze_memory_provider_initialize, lines 660-766, and                       *)
(* ze_memory_provider_finalize, lines 650-658.                             *)

\* Whether a driver call or a host allocation succeeds.
Outcomes == IF Failures THEN BOOLEAN ELSE {TRUE}

\* ze2umf_memory_type (lines 146-157): the types alloc's switch handles.
MemTypes == {"host", "device", "shared"}

\* Lines 663-686: a context is set, a device is set exactly when the
\* memory type is not host, and a resident device count comes with an
\* array (which the setters already ensure).
Valid(p) ==
  /\ p.context
  /\ (p.type = "host") # p.device
  /\ p.devs # <<>> => p.handles

\* Lines 650-658: free the device array, destroy the rwlock, critnib_delete
\* the allocations map, free the provider.  Driver memory still in the
\* map stays allocated.
Finalized(l) ==
  /\ life' = l
  /\ held' = {}
  /\ allocations' = {}

\* Lines 663-692: the parameter checks, then utils_init_once of
\* init_ze_global_state, which fails when the loader or a symbol is
\* missing.  Nothing is held yet.
InitCheck ==
  /\ life = "params"
  /\ \E ok \in Outcomes :
       life' = IF Valid(prm) /\ ok THEN "create" ELSE "failed"
  /\ UNCHANGED <<ops, prm, held, qbuf, stuck>>

\* Lines 694-716: allocate the provider (failing: return), critnib_new
\* (failing: free the provider, return), utils_rwlock_init (failing: free
\* the provider and return, the critnib not deleted).
InitCreate ==
  /\ life = "create"
  /\ \/ Failures /\ life' = "failed" /\ UNCHANGED held
     \/ Failures /\ life' = "failed" /\ held' = {"critnib"}
     \/ life' = "props" /\ held' = {"provider", "critnib", "lock"}
  /\ UNCHANGED <<ops, prm, qbuf, stuck>>

\* Lines 718-733: with a device, zeDeviceGetProperties; a failure frees
\* the provider only.
InitProps ==
  /\ life = "props"
  /\ \E ok \in Outcomes :
       IF prm.device /\ ~ok
       THEN life' = "failed" /\ held' = held \ {"provider"}
       ELSE life' = "handles" /\ UNCHANGED held
  /\ UNCHANGED <<ops, prm, qbuf, stuck>>

\* Lines 735-753: copy the resident devices into a new array; a failing
\* allocation frees the provider only.
InitHandles ==
  /\ life = "handles"
  /\ \/ prm.devs = <<>> /\ life' = "query" /\ UNCHANGED <<held, devs>>
     \/ /\ prm.devs # <<>>
        /\ \E ok \in Outcomes :
             IF ok THEN life' = "query" /\ held' = held \cup {"handles"} /\ devs' = prm.devs
             ELSE life' = "failed" /\ held' = held \ {"provider"} /\ UNCHANGED devs
  /\ UNCHANGED <<pc, addr, allocations, live, resident, owned, prm, qbuf, stuck>>

\* Lines 626-632, 755-760: query_min_page_size allocates one byte with
\* ze_memory_provider_alloc (lines 511-586).  For a type its switch does
\* not handle, alloc returns UMF_RESULT_ERROR_UNKNOWN (lines 558-562)
\* without the read unlock.  A failing zeMemAlloc* unlocks and returns;
\* a failing zeContextMakeMemoryResident on device j returns with the
\* byte allocated and resident on devices 1 .. j-1.  Every error makes
\* initialize call finalize and return it.
QueryAlloc ==
  /\ life = "query"
  /\ \/ /\ prm.type \notin MemTypes
        /\ stuck' = TRUE
        /\ Finalized("failed")
        /\ UNCHANGED <<live, resident, qbuf>>
     \/ /\ prm.type \in MemTypes /\ Failures
        /\ Finalized("failed")
        /\ UNCHANGED <<live, resident, qbuf, stuck>>
     \/ /\ prm.type \in MemTypes
        /\ \E a \in Addrs \ live :
             /\ live' = live \cup {a}
             /\ \/ /\ Failures
                   /\ \E j \in 1 .. Len(devs) : resident' = resident \cup ResidentUpTo(a, j - 1)
                   /\ Finalized("failed")
                   /\ UNCHANGED qbuf
                \/ /\ resident' = resident \cup ResidentUpTo(a, Len(devs))
                   /\ \E ok \in Outcomes :
                        allocations' = IF ok THEN allocations \cup {a} ELSE allocations
                   /\ life' = "query_free" /\ qbuf' = a
                   /\ UNCHANGED held
        /\ UNCHANGED stuck
  /\ UNCHANGED <<pc, addr, devs, owned, prm>>

\* Lines 633-647: zeMemGetAllocProperties, then ze_memory_provider_free of
\* the byte (lines 589-624), whose result is ignored: a failing zeMemFree
\* leaves it allocated and in the map.  Initialize returns the result of
\* zeMemGetAllocProperties: on an error it calls finalize, otherwise it
\* hands the provider out (lines 762-766).
QueryFree ==
  /\ life = "query_free"
  /\ \E freed, ok \in Outcomes :
       /\ live' = IF freed THEN live \ {qbuf} ELSE live
       /\ resident' = IF freed THEN {p \in resident : p[1] # qbuf} ELSE resident
       /\ IF ok
          THEN /\ life' = "ready" /\ UNCHANGED held
               /\ allocations' = IF freed THEN allocations \ {qbuf} ELSE allocations
          ELSE Finalized("failed")
  /\ qbuf' = NoAddr
  /\ UNCHANGED <<pc, addr, devs, owned, prm, stuck>>

\* The owner destroys the provider once no call is in flight.
Finalize ==
  /\ life = "ready" /\ Readers = {}
  /\ Finalized("finalized")
  /\ UNCHANGED <<pc, addr, devs, live, resident, owned, prm, qbuf, stuck>>

-----------------------------------------------------------------------------
(* The specification.                                                      *)

Init ==
  /\ pc = [t \in Threads |-> "idle"]
  /\ addr = [t \in Threads |-> NoAddr]
  /\ devs = <<>>
  /\ allocations = {} /\ live = {} /\ resident = {} /\ owned = {}
  /\ prm = ParamsDefault
  /\ life = "params" /\ held = {} /\ qbuf = NoAddr /\ stuck = FALSE

Next ==
  \/ SetContext \/ \E dev \in BOOLEAN : SetDevice(dev)
  \/ \E m \in UsmTypes : SetMemoryType(m)
  \/ \E l \in ResidentLists, arr \in BOOLEAN : SetResidentDevices(l, arr)
  \/ InitCheck \/ InitCreate \/ InitProps \/ InitHandles
  \/ QueryAlloc \/ QueryFree \/ Finalize
  \/ \E t \in Threads : AllocBegin(t) \/ AllocResident(t) \/ AllocInsert(t)
  \/ \E t \in Threads, a \in Addrs : FreeBegin(t, a)
  \/ \E t \in Threads : FreeRemove(t)
  \/ \E d \in Devices : AddResidentDevice(d) \/ RemoveResidentDevice(d)

Spec == Init /\ [][Next]_vars

-----------------------------------------------------------------------------
(* Properties.  Each is stated for the moments when no thread is inside    *)
(* alloc or free, which is when a ctl handler can take the write lock.     *)

Quiet == Readers = {}

(* The residency handlers only walk memory the driver still holds: every   *)
(* key of allocations is a live allocation whenever the write lock can be *)
(* taken, because free removes the key before it drops the read lock.     *)
TrackedAreLive == Quiet => allocations \subseteq live

(* Every allocation a caller holds is in allocations, so that a device    *)
(* added later gets it made resident and a device removed gets it evicted. *)
Tracked == Quiet => owned \subseteq allocations

(* No tracked allocation stays resident on a device that is not in the    *)
(* list: remove_resident_device either evicts the memory from the device  *)
(* or leaves the device listed, so that the caller can retry the call     *)
(* (a call for an unlisted device returns success at once, lines 337-340, *)
(* and evicts nothing).                                                    *)
ResidentOnlyOnListed ==
  Quiet => \A p \in resident :
             p[1] \in allocations => p[2] \in {devs[i] : i \in 1 .. Len(devs)}

(* A failed ze_memory_provider_initialize leaves nothing behind: every     *)
(* host resource it acquired is released, no read hold on the rwlock      *)
(* outlives it (finalize destroys the lock), and the driver memory of the *)
(* page-size query is freed.  The comment at lines 559-561 relies on the  *)
(* parameter checks to keep alloc out of its default branch.               *)
InitFailureReleasesAll == life = "failed" => held = {} /\ ~stuck /\ live = {}
=============================================================================
