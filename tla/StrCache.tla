------------------------------ MODULE StrCache ------------------------------
(***************************************************************************)
(* The string validator of the error-tracking runtime, _FPC_SAFE_STR_ in   *)
(* FPC_Hashtable_Error.h.  Every file or function name a hook receives is  *)
(* a pointer; it is copied through a direct-mapped cache of 256 slots and  *)
(* the hook goes on with a pointer INTO THE SLOT, so what it later reads   *)
(* is whatever the slot holds by then.                                     *)
(*                                                                         *)
(* Pointers and texts are model values.  Content[p] is the NUL-terminated  *)
(* text at p, Prefix[t] its first 511 characters, SlotOf[p] is             *)
(* (p >> 3) % 256.                                                         *)
(***************************************************************************)
CONSTANTS
    Ptr,          \* pointers handed to the hooks
    LowPtr,       \* those that are NULL or below 4096
    UnreadablePtr,\* those pread() on /proc/self/mem cannot read
    NoPtr,        \* the zeroed ptr field of an empty slot
    Slot,         \* cache slots
    SlotOf,       \* slot a pointer maps to
    Text,         \* texts
    EmptyText,    \* ""
    Unknown,      \* "unknown"
    Content,      \* the text at a pointer
    Prefix        \* what fits in 511 characters

ASSUME StrAssumption ==
    /\ LowPtr \subseteq Ptr
    /\ UnreadablePtr \subseteq Ptr
    /\ NoPtr \notin Ptr
    /\ SlotOf \in [Ptr -> Slot]
    /\ EmptyText \in Text /\ Unknown \in Text
    /\ Content \in [Ptr -> Text]
    /\ Prefix \in [Text -> Text]

SlotContent == [ptr: Ptr \cup {NoPtr}, copy: Text]

\* memset of the cache on first use.
EmptyCache == [s \in Slot |-> [ptr |-> NoPtr, copy |-> EmptyText]]

\* What one validation of p copies into its slot.
SafeCopy(p) == IF p \in UnreadablePtr THEN Unknown ELSE Prefix[Content[p]]

\* The cache after _FPC_SAFE_STR_(p): a hit or a low pointer leaves it alone,
\* a miss evicts the slot.
Touch(c, p) ==
    IF p \in LowPtr \/ c[SlotOf[p]].ptr = p
    THEN c
    ELSE [c EXCEPT ![SlotOf[p]] = [ptr |-> p, copy |-> SafeCopy(p)]]

\* The text read through the pointer _FPC_SAFE_STR_(p) returned, when the
\* cache is c at the time of the read.
Deref(c, p) == IF p \in LowPtr THEN Unknown ELSE c[SlotOf[p]].copy

\* The text a hook means by p.
Meant(p) == IF p \in LowPtr THEN Unknown ELSE SafeCopy(p)

\* A slot that holds a pointer holds the text of that pointer.
CacheCoherent(c) ==
    \A s \in Slot : c[s].ptr # NoPtr => /\ SlotOf[c[s].ptr] = s
                                        /\ c[s].copy = SafeCopy(c[s].ptr)
=============================================================================
