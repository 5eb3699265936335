------------------------------ MODULE CsdTables ------------------------------
(***************************************************************************)
(* The tables of the computational storage device that the commands of the *)
(* host work on: the subsystem-local memory namespaces (dev_mem_table),    *)
(* the memory range sets (memrangeset_hash_tables), whose entries keep the *)
(* addresses of the memory they name (quick_cache), and the program slots  *)
(* (program_list).  A command that changes them runs to completion in one  *)
(* pass of nvmf_mcdma_request_process, so each is one operator from        *)
(* tables to tables, and a predicate says whether its status is success.   *)
(* The ids of namespaces and range sets come from counters that are only   *)
(* ever incremented, so an id is not used again; here the id of an object  *)
(* says whose it is.                                                       *)
(***************************************************************************)
EXTENDS FiniteSets

CONSTANTS Slots,        \* the program indices in use, out of 64
          NoProgram

\* wild: memory that is not allocated was used, or freed once more.
NoTables == [mem |-> {}, rset |-> {}, prog |-> [s \in Slots |-> NoProgram], wild |-> FALSE]

\* spdk_hlsacccompute_devmem_malloc, _devmem_free and _devmem_lookup.  The free takes
\* whatever address the lookup left in its local variable, found or not.
DevmemMalloc(t, id) == [t EXCEPT !.mem = @ \cup {id}]
DevmemFree(t, id) == [t EXCEPT !.mem = @ \ {id}, !.wild = @ \/ id \notin t.mem]
DevmemLookup(t, id) == id \in t.mem

\* spdk_hlsacccompute_add_program_with_id refuses an occupied slot;
\* spdk_hlsacccompute_del_program succeeds on an empty one too.
AddProgramWithId(t, slot, by) ==
    IF t.prog[slot] = NoProgram
    THEN [t EXCEPT !.prog[slot] = [by |-> by, activated |-> FALSE]] ELSE t
DelProgram(t, slot) == [t EXCEPT !.prog[slot] = NoProgram]
LookupProgram(t, slot) == t.prog[slot] # NoProgram

\* NS_MANAGEMENT.
NsCreate(t, id) == DevmemMalloc(t, id)
NsDelete(t, id) == DevmemFree(t, id)

\* SLM_READ, SLM_WRITE, SLM_COPY: the result of the lookup is not tested before the
\* address is used.
SlmUse(t, id) == [t EXCEPT !.wild = @ \/ ~DevmemLookup(t, id)]

\* MEMORY_RANGE_SET_MGMT: the set is entered even if a namespace it names was not
\* found, with the error in the status of the command.
RangeSetFound(t, mems) == \A m \in mems : DevmemLookup(t, m)
RangeSetCreate(t, id, mems) == [t EXCEPT !.rset = @ \cup {[id |-> id, cache |-> mems]}]
RangeSetDelete(t, id) == [t EXCEPT !.rset = {r \in @ : r.id # id}]

\* PROGRAM_LOAD (load and unload) and PROGRAM_ACTIVATION_MGMT.
LoadFits(t, slot) == ~LookupProgram(t, slot)
ProgramLoad(t, slot, by) == AddProgramWithId(t, slot, by)
ProgramUnload(t, slot) == DelProgram(t, slot)
ProgramActivate(t, slot, on) ==
    IF LookupProgram(t, slot) THEN [t EXCEPT !.prog[slot].activated = on] ELSE t

\* PROGRAM_EXECUTE: the range set and the program are looked up (whether the program
\* is activated is not tested); the request keeps a pointer to the program and the
\* addresses of the quick cache until it is done.
ExecuteStarts(t, slot, rsid) == LookupProgram(t, slot) /\ \E r \in t.rset : r.id = rsid
ExecuteRequest(t, slot, rsid) ==
    [slot |-> slot, by |-> t.prog[slot].by,
     cache |-> (CHOOSE r \in t.rset : r.id = rsid).cache]
ExecuteDone(t, e) ==
    [t EXCEPT !.wild = \/ @
                       \/ ~(e.cache \subseteq t.mem)
                       \/ t.prog[e.slot] = NoProgram
                       \/ t.prog[e.slot].by # e.by]
=============================================================================
