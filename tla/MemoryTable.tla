------------------------------ MODULE MemoryTable ------------------------------
(***************************************************************************)
(* The table of allocations of http_sys_linux.c.  Its mutex makes one step *)
(* of each call.  exit() ends the process: after it nothing happens.       *)
(***************************************************************************)
EXTENDS Integers

CONSTANTS
  Blocks,  \* addresses malloc may return
  Slots,   \* _memory_len
  NULL

ASSUME TableAssumption == Slots \in Nat /\ NULL \notin Blocks

VARIABLES
  entry,  \* _memory_map[i].p
  inUse,  \* what malloc has given out and free has not taken back
  died    \* the message exit() was called after

tableVars == <<entry, inUse, died>>

Indices == 1 .. Slots

Runs == died = "no"

Init ==
  /\ entry = [i \in Indices |-> NULL]
  /\ inUse = {}
  /\ died = "no"

\* The search of the three functions.  They take the first entry that holds p;
\* only empty entries are ever several, and which of them is taken is left open.
Find(p)  == {i \in Indices : entry[i] = p}
First(p) == CHOOSE i \in Find(p) : TRUE

Exit(message) == died' = message /\ UNCHANGED <<entry, inUse>>

\* http_malloc_: malloc has returned p when the table turns out to be full.
Malloc(p) ==
  /\ Runs /\ p \in Blocks \ inUse
  /\ inUse' = inUse \cup {p}
  /\ IF Find(NULL) = {}
     THEN died' = "full" /\ UNCHANGED entry
     ELSE entry' = [entry EXCEPT ![First(NULL)] = p] /\ UNCHANGED died

\* http_realloc_: the address may stay; NULL is looked for as any other p, and
\* an empty entry is found.  realloc to no bytes frees p and returns NULL.
Realloc(p, q) ==
  /\ Runs /\ q \in (Blocks \ inUse) \cup (IF p = NULL THEN {} ELSE {p, NULL})
  /\ IF Find(p) = {}
     THEN Exit("unknown")
     ELSE /\ entry' = [entry EXCEPT ![First(p)] = q]
          /\ inUse' = (inUse \ {p}) \cup ({q} \ {NULL})
          /\ UNCHANGED died

\* MUTANT: the entry is not emptied.
FreeKeeps(p) ==
  /\ Runs
  /\ IF p = NULL THEN UNCHANGED tableVars
     ELSE IF Find(p) = {} THEN Exit("unknown")
     ELSE inUse' = inUse \ {p} /\ UNCHANGED <<entry, died>>

\* http_free_, which exits with the mutex locked.
Free(p) ==
  /\ Runs
  /\ IF p = NULL THEN UNCHANGED tableVars
     ELSE IF Find(p) = {} THEN Exit("unknown")
     ELSE /\ entry' = [entry EXCEPT ![First(p)] = NULL]
          /\ inUse' = inUse \ {p}
          /\ UNCHANGED died

\* Callers may pass any pointer.
Next == \E p : Malloc(p) \/ Free(p) \/ \E q : Realloc(p, q)

Spec == Init /\ [][Next]_tableVars

-----------------------------------------------------------------------------
TableTypeOK ==
  /\ entry \in [Indices -> Blocks \cup {NULL}]
  /\ inUse \subseteq Blocks
  /\ died \in {"no", "full", "unknown"}

\* Each block in use is in one entry, and nothing else is: http_memory_dump
\* prints exactly what has not been freed, and http_free finds what it is for.
\* (The block for which there was no entry when the process ended is not there.)
TableExact ==
  /\ \A i \in Indices :
       entry[i] # NULL => entry[i] \in inUse /\ Find(entry[i]) = {i}
  /\ died # "full" => \A p \in inUse : Find(p) # {}
=============================================================================
