---------------------------- MODULE ReferenceFfi ----------------------------
(***************************************************************************)
(* The reference implementation of the library's entry points that keep    *)
(* state: c_init, c_shutdown and c_store_result, over a heap that hands    *)
(* out any block that is not in use, or refuses.  A block that is freed    *)
(* while a slot still refers to it can thus come back with other contents. *)
(*                                                                         *)
(* An empty result needs no block (an allocation of length 0 takes nothing *)
(* from the heap, and freeing it gives nothing back).  Nothing appends to  *)
(* the list of items: c_get_total_items returns 0 and c_load_item an       *)
(* error, without effect.  The lists' own storage is the standard          *)
(* library's: an append either succeeds or leaves the list as it was.      *)
(***************************************************************************)
EXTENDS Integers, Sequences

CONSTANTS
  Blocks,     \* the addresses the allocator can return
  Contents,   \* non-empty results
  Empty,      \* the empty result, and the slot that refers to no block
  MaxResults  \* bound: indices passed to c_store_result are below it

ASSUME EmptyAssumption == Empty \notin Blocks \cup Contents
ASSUME MaxResultsAssumption == MaxResults \in Nat

Indices == 0 .. MaxResults - 1

VARIABLES
  initialized,  \* state # null
  results,      \* state.results: the block each slot refers to, or Empty
  live,         \* the blocks that are allocated
  memory,       \* what was last written to each block
  rc,           \* the last call's result code
  accepted,     \* history: what was stored last at each index since c_init
  lost          \* history: copies made by calls that then failed to append

vars == <<initialized, results, live, memory, rc, accepted, lost>>

Init ==
  /\ initialized = FALSE
  /\ results = <<>>
  /\ live = {}
  /\ memory = [b \in Blocks |-> Empty]
  /\ rc = "ok"
  /\ accepted = [i \in Indices |-> Empty]
  /\ lost = {}

\* Slot i of a list that counts from 0.
Slot(list, i) == list[i + 1]

Read(ref) == IF ref = Empty THEN Empty ELSE memory[ref]

CInit ==
  /\ ~initialized
  /\ initialized' = TRUE
  /\ results' = <<>>
  /\ rc' = "ok"
  /\ accepted' = [i \in Indices |-> Empty]
  /\ UNCHANGED <<live, memory, lost>>

\* A second c_init, or one of the other calls before the first.
Refused ==
  /\ rc' = "err"
  /\ UNCHANGED <<initialized, results, live, memory, accepted, lost>>

\* Mutant: the results are freed and the list still holds them.
CShutdown_KeepsList ==
  /\ initialized
  /\ live' = live \ {results[k] : k \in DOMAIN results}
  /\ initialized' = FALSE
  /\ rc' = "ok"
  /\ UNCHANGED <<results, memory, accepted, lost>>

\* deinit frees every result.
CShutdown ==
  /\ initialized
  /\ live' = live \ {results[k] : k \in DOMAIN results}
  /\ initialized' = FALSE
  /\ results' = <<>>
  /\ rc' = "ok"
  /\ UNCHANGED <<memory, accepted, lost>>

-----------------------------------------------------------------------------
(* c_store_result                                                          *)

\* A copy of value is at ref: any block not in use, none for an empty value.
Copied(value, ref) ==
  IF value = Empty
  THEN ref = Empty /\ UNCHANGED memory
  ELSE ref \in Blocks \ live /\ memory' = [memory EXCEPT ![ref] = value]

\* The list of results with n slots, the new ones empty.
Grown(n) == [k \in 1 .. n |-> IF k \in DOMAIN results THEN results[k] ELSE Empty]

NeededSlots(i) == IF Len(results) < i + 1 THEN i + 1 ELSE Len(results)

StoreOutOfMemory ==
  /\ rc' = "out_of_memory"
  /\ UNCHANGED <<initialized, results, live, memory, accepted, lost>>

\* An append on the way to slot i fails: the slots before it stay, and so
\* does the copy, to which nothing refers.
StoreCannotGrow(i, value) ==
  \E ref \in Blocks \cup {Empty} :
    /\ Copied(value, ref)
    /\ Len(results) < NeededSlots(i)
    /\ \E n \in Len(results) .. NeededSlots(i) - 1 : results' = Grown(n)
    /\ live' = live \cup ({ref} \ {Empty})
    /\ lost' = lost \cup ({ref} \ {Empty})
    /\ rc' = "out_of_memory"
    /\ UNCHANGED <<initialized, accepted>>

\* Mutant: the old result is freed and the slot keeps it.
Replaced_Kept(i, ref) ==
  LET grown == Grown(NeededSlots(i)) IN
  /\ live' = (live \cup ({ref} \ {Empty})) \ {Slot(grown, i)}
  /\ results' = grown

\* Mutant: the result that was there before is not freed.
Replaced_NotFreed(i, ref) ==
  LET grown == Grown(NeededSlots(i)) IN
  /\ live' = live \cup ({ref} \ {Empty})
  /\ results' = [grown EXCEPT ![i + 1] = ref]

\* The result that was in slot i, if any, is freed, and ref takes its place.
Replaced(i, ref) ==
  LET grown == Grown(NeededSlots(i)) IN
  /\ live' = (live \cup ({ref} \ {Empty})) \ {Slot(grown, i)}
  /\ results' = [grown EXCEPT ![i + 1] = ref]

Store(i, value) ==
  \E ref \in Blocks \cup {Empty} :
    /\ Copied(value, ref)
    /\ Replaced(i, ref)
    /\ accepted' = [accepted EXCEPT ![i] = value]
    /\ rc' = "ok"
    /\ UNCHANGED <<initialized, lost>>

CStoreResult ==
  \E i \in Indices, value \in Contents \cup {Empty} :
    /\ initialized
    /\ \/ value # Empty /\ StoreOutOfMemory
       \/ StoreCannotGrow(i, value)
       \/ Store(i, value)

Next == CInit \/ Refused \/ CShutdown \/ CStoreResult

Spec == Init /\ [][Next]_vars

-----------------------------------------------------------------------------
(* Types; before c_init and after c_shutdown the list is empty.            *)
TypeOK ==
  /\ initialized \in BOOLEAN
  /\ results \in Seq(Blocks \cup {Empty})
  /\ Len(results) <= IF initialized THEN MaxResults ELSE 0
  /\ live \subseteq Blocks
  /\ memory \in [Blocks -> Contents \cup {Empty}]
  /\ rc \in {"ok", "err", "out_of_memory"}
  /\ accepted \in [Indices -> Contents \cup {Empty}]
  /\ lost \subseteq Blocks

(* A block in use belongs to one slot, or is a copy that a failed append   *)
(* has lost: whatever the order of stores, replacements, failures and      *)
(* shutdowns, nothing else leaks and nothing is freed under a slot.        *)
EveryBlockAccounted ==
  LET owned == {results[k] : k \in DOMAIN results} \ {Empty} IN
  /\ live = owned \cup lost
  /\ owned \cap lost = {}
  /\ \A j, k \in DOMAIN results : results[j] = results[k] => j = k \/ results[j] = Empty

(* Each slot reads as the last result c_store_result accepted for its      *)
(* index, through replacements by longer or empty results and calls that   *)
(* failed half way; an index without a slot has had none accepted.         *)
ResultsAreLastAccepted ==
  initialized =>
    \A i \in Indices :
      accepted[i] = IF i < Len(results) THEN Read(Slot(results, i)) ELSE Empty
=============================================================================
