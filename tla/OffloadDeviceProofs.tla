------------------------- MODULE OffloadDeviceProofs -------------------------
(****************************************************************************)
(* Proofs about Offload: what the applications leave on the device, and     *)
(* what the device works on.                                                *)
(****************************************************************************)
EXTENDS OffloadProofs

\* Most leaves are first-order reasoning over sets and functions, which Zenon finds at
\* once; the leaves with arithmetic, records or sequences name SMT.
USE Zenon

-----------------------------------------------------------------------------
(* The tables of the device.                                                *)
Owners == Procs \X (1 .. MaxRuns) \X Parts
Things == {"in", "out", "rs", "prog"}
Objs == Procs \X (1 .. MaxRuns) \X Parts \X Things
MemIds == Procs \X (1 .. MaxRuns) \X Parts \X {"in", "out"}
RsetIds == Procs \X (1 .. MaxRuns) \X Parts \X {"rs"}
Program == [by : Owners, activated : BOOLEAN]
Tables == [mem : SUBSET MemIds, rset : SUBSET [id : RsetIds, cache : SUBSET MemIds],
           prog : [Slots -> Program \cup {NoProgram}], wild : BOOLEAN]

\* A range set names the two memories of its owner, and a program is in the slot of its
\* owner.
MemsOf(o) == {<<o[1], o[2], o[3], "in">>, <<o[1], o[2], o[3], "out">>}
TablesOK(t) ==
    /\ t \in Tables
    /\ \A r \in t.rset : r.cache = MemsOf(r.id)
    /\ \A s \in Slots : t.prog[s] # NoProgram => t.prog[s].by[1] = s[1] /\ t.prog[s].by[3] = s[2]

\* Object o is on the device.
Loaded(t, o) ==
    t.prog[<<o[1], o[3]>>] # NoProgram /\ t.prog[<<o[1], o[3]>>].by = <<o[1], o[2], o[3]>>
Present(t, o) == o \in t.mem \/ (\E r \in t.rset : r.id = o) \/ (o[4] = "prog" /\ Loaded(t, o))

-----------------------------------------------------------------------------
(* The applications on the device.                                          *)

\* What an application of kind k holds where.
Working == {"copy", "write", "writing", "range", "unstale", "load", "activate", "execute", "wait",
            "read", "reading"}
HeldOK(k, a) ==
    /\ a.pc \in {"open", "call", "calling", "answered", "exit"} => a.held = {}
    /\ k = "full" /\ a.pc \in {"compare", "save", "passed"} => a.held = {}
    /\ a.pc = "output" => "in" \in a.held
    /\ a.pc \in Working => "in" \in a.held /\ "out" \in a.held
    /\ k = "elsewhere" => a.held = {} /\ a.pc \in {"call", "calling", "passed", "clean", "exit"}

\* Its program is in its slot, which was empty before.
SlotInv(p) ==
    /\ Pc(p) \in {"activate", "execute", "wait"} =>
          csd.prog[Slot(p)] # NoProgram /\ csd.prog[Slot(p)].by = Mine(p)
    /\ Pc(p) = "load" => csd.prog[Slot(p)] = NoProgram

\* What is held exists, and what exists of this run is held or excused.
OwnInv(p) ==
    /\ \A f \in {"in", "out"} : f \in Held(p) => Obj(p, f) \in csd.mem
    /\ \A o \in Objs : o[1] = p /\ o[2] = app[p].run /\ Present(csd, o) =>
          (o[3] = app[p].part /\ o[4] \in Held(p)) \/ o \in excused

\* Nothing on the device is younger than the run of its application.
TablesInv ==
    /\ TablesOK(csd)
    /\ \A o \in Objs : Present(csd, o) => o[2] <= app[o[1]].run
    /\ \A p \in Procs : HeldOK(Kind(p), app[p]) /\ SlotInv(p) /\ OwnInv(p)

\* A request executes the program of its owner over the memories of its owner; while
\* nobody gave up, its owner waits for it.
Exec(o) == [of |-> o, req |-> [slot |-> <<o[1], o[3]>>, by |-> o, cache |-> MemsOf(o)]]
ExeInv ==
    /\ adrift \in BOOLEAN
    /\ \A e \in exe : e.of \in Owners /\ e = Exec(e.of)
    /\ \A p \in Procs : Pc(p) = "wait" => Exec(Mine(p)) \in exe
    /\ ~adrift => \A e \in exe : Pc(e.of[1]) = "wait" /\ e.of = Mine(e.of[1])
DevInv == TablesInv /\ ExeInv /\ NoWildAccess

-----------------------------------------------------------------------------
(* What each command does to the tables.                                    *)

\* The type of the tables, field by field.
LEMMA TablesFields ==
    ASSUME NEW t
    PROVE  t \in Tables => /\ t.mem \in SUBSET MemIds
                           /\ t.rset \in SUBSET [id : RsetIds, cache : SUBSET MemIds]
                           /\ t.prog \in [Slots -> Program \cup {NoProgram}]
                           /\ t.wild \in BOOLEAN
BY DEF Tables

\* A namespace is created.
LEMMA NsCreateIs ==
    ASSUME NEW t, TablesOK(t), NEW id \in MemIds, NEW u, u = NsCreate(t, id)
    PROVE  /\ TablesOK(u) /\ u.mem = t.mem \cup {id} /\ u.rset = t.rset /\ u.prog = t.prog
           /\ u.wild = t.wild
<1>1. t \in Tables /\ u = [t EXCEPT !.mem = t.mem \cup {id}]
  BY DEF TablesOK, NsCreate, DevmemMalloc
<1>2. u.mem = t.mem \cup {id} /\ u.rset = t.rset /\ u.prog = t.prog /\ u.wild = t.wild
  BY <1>1 DEF Tables
<1>3. t.mem \cup {id} \in SUBSET MemIds
  BY <1>1, TablesFields
<1>4. u \in Tables
  BY <1>1, <1>3, Zenon DEF Tables
<1> QED BY <1>2, <1>4 DEF TablesOK

\* A namespace that exists is deleted.
LEMMA NsDeleteIs ==
    ASSUME NEW t, TablesOK(t), NEW id \in t.mem, NEW u, u = NsDelete(t, id)
    PROVE  /\ TablesOK(u) /\ u.mem = t.mem \ {id} /\ u.rset = t.rset /\ u.prog = t.prog
           /\ u.wild = t.wild
<1>0. t \in Tables /\ t.wild \in BOOLEAN
  BY TablesFields DEF TablesOK
<1>1. u = [[t EXCEPT !.mem = t.mem \ {id}] EXCEPT !.wild = t.wild \/ id \notin t.mem]
  BY DEF NsDelete, DevmemFree
<1>2. (t.wild \/ id \notin t.mem) = t.wild
  BY <1>0, Zenon
<1>3. u.mem = t.mem \ {id} /\ u.rset = t.rset /\ u.prog = t.prog
  BY <1>0, <1>1 DEF Tables
<1>4. u.wild = t.wild
  <2>1. u.wild = (t.wild \/ id \notin t.mem)
    BY <1>0, <1>1, Zenon DEF Tables
  <2> QED BY <1>2, <2>1
<1>5. t.mem \ {id} \in SUBSET MemIds
  BY <1>0, TablesFields
<1>6. (t.wild \/ id \notin t.mem) \in BOOLEAN
  OBVIOUS
<1>7. u \in Tables
  BY <1>0, <1>1, <1>5, <1>6, Zenon DEF Tables
<1> QED BY <1>3, <1>4, <1>7 DEF TablesOK

\* Memory that exists is used.
LEMMA SlmUseIs ==
    ASSUME NEW t, TablesOK(t), NEW id \in t.mem, NEW u, u = SlmUse(t, id)
    PROVE  u = t
<1>0. t \in Tables /\ t.wild \in BOOLEAN
  BY TablesFields DEF TablesOK
<1>1. u = [t EXCEPT !.wild = t.wild \/ ~(id \in t.mem)]
  BY DEF SlmUse, DevmemLookup
<1>2. (t.wild \/ ~(id \in t.mem)) = t.wild
  BY <1>0, Zenon
<1>3. u = [t EXCEPT !.wild = t.wild]
  BY <1>1, <1>2
<1> QED BY <1>0, <1>3, Zenon DEF Tables

\* A range set is created, and deleted.
LEMMA RangeSetCreateIs ==
    ASSUME NEW t, TablesOK(t), NEW o \in RsetIds, NEW u, u = RangeSetCreate(t, o, MemsOf(o))
    PROVE  /\ TablesOK(u) /\ u.mem = t.mem /\ u.prog = t.prog /\ u.wild = t.wild
           /\ u.rset = t.rset \cup {[id |-> o, cache |-> MemsOf(o)]}
<1> DEFINE r == [id |-> o, cache |-> MemsOf(o)]
<1>0. t \in Tables
  BY DEF TablesOK
<1>1. u = [t EXCEPT !.rset = t.rset \cup {r}]
  BY DEF RangeSetCreate
<1>2. MemsOf(o) \in SUBSET MemIds
  BY SMT DEF MemsOf, RsetIds, MemIds
<1>3. r \in [id : RsetIds, cache : SUBSET MemIds] /\ r.id = o /\ r.cache = MemsOf(o)
  BY <1>2
<1> HIDE DEF r
<1>4. u.rset = t.rset \cup {r} /\ u.mem = t.mem /\ u.prog = t.prog /\ u.wild = t.wild
  BY <1>0, <1>1 DEF Tables
<1>5. t.rset \cup {r} \in SUBSET [id : RsetIds, cache : SUBSET MemIds]
  BY <1>0, <1>3, TablesFields
<1>6. u \in Tables
  BY <1>0, <1>1, <1>5, Zenon DEF Tables
<1>7. \A q \in u.rset : q.cache = MemsOf(q.id)
  BY <1>3, <1>4 DEF TablesOK
<1>8. TablesOK(u)
  BY <1>4, <1>6, <1>7 DEF TablesOK
<1> QED BY <1>4, <1>8 DEF r

\* A range set is deleted: the others stay as they are.
LEMMA RangeSetDeleteIs ==
    ASSUME NEW t, TablesOK(t), NEW o, NEW u, u = RangeSetDelete(t, o)
    PROVE  /\ TablesOK(u) /\ u.mem = t.mem /\ u.prog = t.prog /\ u.wild = t.wild
           /\ u.rset \subseteq t.rset /\ \A r \in u.rset : r.id # o
<1>0. t \in Tables
  BY DEF TablesOK
<1> DEFINE R == {r \in t.rset : r.id # o}
<1>1. u = [t EXCEPT !.rset = R]
  BY DEF RangeSetDelete
<1>2. R \subseteq t.rset /\ \A r \in R : r.id # o
  OBVIOUS
<1> HIDE DEF R
<1>3. u.rset = R /\ u.mem = t.mem /\ u.prog = t.prog /\ u.wild = t.wild
  BY <1>0, <1>1 DEF Tables
<1>4. R \in SUBSET [id : RsetIds, cache : SUBSET MemIds]
  BY <1>0, <1>2, TablesFields
<1>5. u \in Tables
  BY <1>0, <1>1, <1>4, Zenon DEF Tables
<1> QED BY <1>2, <1>3, <1>5 DEF TablesOK

\* A slot is given a new content c.
InSlot(t, s, c) == [t EXCEPT !.prog[s] = c]
\* Only the slot s changes, and the tables stay well formed.
LEMMA SlotIs ==
    ASSUME NEW t, TablesOK(t), NEW s \in Slots, NEW c \in Program \cup {NoProgram},
           c # NoProgram => c.by[1] = s[1] /\ c.by[3] = s[2],
           NEW u, u = InSlot(t, s, c)
    PROVE  /\ TablesOK(u) /\ u.mem = t.mem /\ u.rset = t.rset /\ u.wild = t.wild
           /\ u.prog[s] = c /\ \A z \in Slots \ {s} : u.prog[z] = t.prog[z]
<1>0. t \in Tables /\ t.prog \in [Slots -> Program \cup {NoProgram}]
  BY TablesFields DEF TablesOK
<1>1. PICK g : g = [t.prog EXCEPT ![s] = c]
  OBVIOUS
<1>2. g \in [Slots -> Program \cup {NoProgram}] /\ g[s] = c /\ \A z \in Slots \ {s} : g[z] = t.prog[z]
  BY <1>0, <1>1
<1>3. u = [t EXCEPT !.prog = g]
  BY <1>1 DEF InSlot
<1>4. u.prog = g /\ u.mem = t.mem /\ u.rset = t.rset /\ u.wild = t.wild
  BY <1>0, <1>3 DEF Tables
<1>5. u \in Tables
  BY <1>0, <1>2, <1>3, Zenon DEF Tables
<1>6. \A z \in Slots : u.prog[z] # NoProgram => u.prog[z].by[1] = z[1] /\ u.prog[z].by[3] = z[2]
  BY <1>2, <1>4, SMT DEF TablesOK
<1> QED BY <1>2, <1>4, <1>5, <1>6 DEF TablesOK

\* A program is activated or deactivated: whose it is does not change.
LEMMA ActivateIs ==
    ASSUME NEW t, TablesOK(t), NEW s \in Slots, NEW on \in BOOLEAN, NEW u, u = ProgramActivate(t, s, on)
    PROVE  /\ TablesOK(u) /\ u.mem = t.mem /\ u.rset = t.rset /\ u.wild = t.wild
           /\ \A z \in Slots : /\ u.prog[z] = NoProgram <=> t.prog[z] = NoProgram
                               /\ u.prog[z] # NoProgram => u.prog[z].by = t.prog[z].by
           /\ \A z \in Slots \ {s} : u.prog[z] = t.prog[z]
<1>0. t \in Tables /\ t.prog[s] \in Program \cup {NoProgram}
  BY TablesFields DEF TablesOK
<1>1. CASE t.prog[s] = NoProgram
  <2>1. u = t
    BY <1>1 DEF ProgramActivate, LookupProgram
  <2> QED BY <2>1
<1>2. CASE t.prog[s] # NoProgram
  <2>1. PICK c : c = [t.prog[s] EXCEPT !.activated = on]
    OBVIOUS
  <2>2. c \in Program /\ c.by = t.prog[s].by
    BY <1>0, <1>2, <2>1 DEF Program
  <2>3. u = InSlot(t, s, c)
    BY <1>2, <2>1 DEF ProgramActivate, LookupProgram, InSlot
  <2>4. c # NoProgram
    BY <2>2, OffloadConstants DEF Program, Owners, Parts
  <2>5. c.by[1] = s[1] /\ c.by[3] = s[2]
    BY <1>2, <2>2 DEF TablesOK
  <2>6. /\ TablesOK(u) /\ u.mem = t.mem /\ u.rset = t.rset /\ u.wild = t.wild
        /\ u.prog[s] = c /\ \A z \in Slots \ {s} : u.prog[z] = t.prog[z]
    <3>1. c \in Program \cup {NoProgram}
      BY <2>2
    <3> QED BY <2>3, <2>5, <3>1, SlotIs, SMT
  <2> QED BY <1>2, <2>2, <2>4, <2>6
<1> QED BY <1>1, <1>2

-----------------------------------------------------------------------------
(* What a step has to keep.                                                 *)

\* The parts of the name of an object.
LEMMA ObjIs ==
    ASSUME AppType, NEW p \in Procs, NEW f \in Things
    PROVE  /\ Obj(p, f) \in Objs /\ Obj(p, f)[1] = p /\ Obj(p, f)[2] = app[p].run
           /\ Obj(p, f)[3] = app[p].part /\ Obj(p, f)[4] = f
           /\ f \in {"in", "out"} => Obj(p, f) \in MemIds
           /\ f = "rs" => Obj(p, f) \in RsetIds
           /\ Mine(p) \in Owners /\ Mine(p)[1] = p /\ Mine(p)[3] = app[p].part
           /\ Slot(p) \in Slots /\ Slot(p)[1] = p /\ Slot(p)[2] = app[p].part
           /\ <<Obj(p, f)[1], Obj(p, f)[2], Obj(p, f)[3]>> = Mine(p)
           /\ <<Obj(p, f)[1], Obj(p, f)[3]>> = Slot(p)
           /\ MemsOf(Mine(p)) = Mems(p) /\ MemsOf(Obj(p, f)) = Mems(p)
<1>1. app[p].run \in 1 .. MaxRuns /\ app[p].part \in Parts
  BY DEF AppType, App
<1> QED BY <1>1, OffloadConstants, SMT
        DEF Obj, Mine, Slot, Objs, MemIds, RsetIds, Owners, Parts, Mems, MemsOf

\* An object is present in the one table of its sort.
LEMMA PresentIs ==
    ASSUME NEW t, TablesOK(t), NEW o \in Objs
    PROVE  /\ o[4] \in {"in", "out"} => (Present(t, o) <=> o \in t.mem)
           /\ o[4] = "rs" => (Present(t, o) <=> \E r \in t.rset : r.id = o)
           /\ o[4] = "prog" => (Present(t, o) <=> Loaded(t, o))
           /\ o[4] \in Things
<1>1. t.mem \in SUBSET MemIds /\ t.rset \in SUBSET [id : RsetIds, cache : SUBSET MemIds]
  BY TablesFields DEF TablesOK
<1>2. \A m \in MemIds : m[4] \in {"in", "out"}
  BY SMT DEF MemIds
<1>3. \A m \in RsetIds : m[4] = "rs"
  BY SMT DEF RsetIds
<1>4. o[4] \in Things
  BY SMT DEF Objs
<1>5. \A r \in t.rset : r.id \in RsetIds
  BY <1>1
<1> QED BY <1>1, <1>2, <1>3, <1>4, <1>5 DEF Present, Things

\* A step of p in the same run leaves the others what is theirs.
LEMMA TablesKeep ==
    ASSUME TablesInv, AppType, NEW p \in Procs, mix' = mix,
           \A q \in Procs \ {p} : app'[q] = app[q], app'[p].run = app[p].run,
           TablesOK(csd'), excused \subseteq excused',
           \A o \in Objs : Present(csd', o) => Present(csd, o) \/ (o[1] = p /\ o[2] = app[p].run),
           \A o \in csd.mem : o[1] # p => o \in csd'.mem,
           \A s \in Slots : s[1] # p => csd'.prog[s] = csd.prog[s],
           HeldOK(Kind(p), app'[p]), SlotInv(p)', OwnInv(p)'
    PROVE  TablesInv'
<1>1. \A o \in Objs : Present(csd', o) => o[2] <= app'[o[1]].run
  <2> TAKE o \in Objs
  <2>1. o[1] \in Procs
    BY SMT DEF Objs
  <2>2. app[p].run <= app[p].run
    BY SMT DEF AppType, App
  <2>3. Present(csd, o) => o[2] <= app[o[1]].run
    BY DEF TablesInv
  <2>4. app'[o[1]].run = app[o[1]].run
    BY <2>1
  <2> QED BY <2>2, <2>3, <2>4
<1>2. ASSUME NEW q \in Procs, q # p
      PROVE  HeldOK(Kind(q)', app'[q]) /\ SlotInv(q)' /\ OwnInv(q)'
  <2>1. app'[q] = app[q] /\ HeldOK(Kind(q), app[q]) /\ SlotInv(q) /\ OwnInv(q)
    BY <1>2 DEF TablesInv
  <2>2. Slot(q) \in Slots /\ Slot(q)[1] = q
    BY ObjIs DEF Things
  <2>3. csd'.prog[Slot(q)] = csd.prog[Slot(q)]
    BY <1>2, <2>2
  <2>4. Slot(q)' = Slot(q) /\ Mine(q)' = Mine(q) /\ Pc(q)' = Pc(q) /\ Held(q)' = Held(q)
        /\ Kind(q)' = Kind(q)
    BY <2>1 DEF Slot, Mine, Pc, Held, Kind
  <2>5. SlotInv(q)'
    BY <2>1, <2>3, <2>4 DEF SlotInv
  <2>6. ASSUME NEW f \in {"in", "out"}, f \in Held(q) PROVE Obj(q, f)' \in csd'.mem
    <3>1. Obj(q, f)' = Obj(q, f) /\ Obj(q, f) \in csd.mem
      BY <2>1, <2>6 DEF Obj, OwnInv
    <3>2. Obj(q, f)[1] = q
      BY ObjIs, SMT DEF Things
    <3> QED BY <3>1, <3>2, <1>2
  <2>7. ASSUME NEW o \in Objs, o[1] = q, o[2] = app[q].run, Present(csd', o)
        PROVE  (o[3] = app[q].part /\ o[4] \in Held(q)) \/ o \in excused'
    BY <2>7, <1>2, <2>1 DEF OwnInv
  <2>8. OwnInv(q)'
    BY <2>1, <2>4, <2>6, <2>7 DEF OwnInv
  <2> QED BY <2>1, <2>4, <2>5, <2>8
<1>3. Kind(p)' = Kind(p)
  BY DEF Kind
<1> QED BY <1>1, <1>2, <1>3 DEF TablesInv

\* A step of p that does not start an execution, and ends none it waited for.
LEMMA ExeKeeps ==
    ASSUME ExeInv, NEW p \in Procs, \A q \in Procs \ {p} : app'[q] = app[q],
           exe' = exe, adrift' \in BOOLEAN, adrift => adrift', Pc(p) = "wait" => adrift',
           app'[p].pc # "wait"
    PROVE  ExeInv'
<1>1. \A q \in Procs : Pc(q)' = "wait" => Pc(q) = "wait" /\ Mine(q)' = Mine(q)
  BY DEF Pc, Mine
<1>2. \A q \in Procs : ~adrift' /\ Pc(q) = "wait" => Pc(q)' = "wait" /\ Mine(q)' = Mine(q)
  BY DEF Pc, Mine
<1>3. \A o \in Owners : o[1] \in Procs
  BY SMT DEF Owners
<1> QED BY <1>1, <1>2, <1>3 DEF ExeInv, Exec

-----------------------------------------------------------------------------
(* The steps of an application that leave the tables alone.                 *)
Pending == {"wait", "load", "activate", "execute"}

\* Nothing on the device changes, nor what p holds there.
LEMMA QuietKeeps ==
    ASSUME AppType, DevInv, NEW p \in Procs, mix' = mix,
           \A q \in Procs \ {p} : app'[q] = app[q], app'[p].run = app[p].run,
           \/ app'[p].part = app[p].part /\ app'[p].held = app[p].held
           \/ app[p].held \cap Things = {} /\ app'[p].held \cap Things = {},
           csd' = csd, exe' = exe, excused' = excused, adrift' \in BOOLEAN, adrift => adrift',
           Pc(p) = "wait" => adrift', app'[p].pc \notin Pending, HeldOK(Kind(p), app'[p])
    PROVE  DevInv'
<1>1. SlotInv(p)'
  BY DEF SlotInv, Pc, Pending
<1>2. OwnInv(p)'
  <2>1. OwnInv(p)
    BY DEF DevInv, TablesInv
  <2>2. ASSUME NEW f \in {"in", "out"}, f \in app'[p].held PROVE Obj(p, f)' \in csd'.mem
    BY <2>1, <2>2 DEF OwnInv, Obj, Held, Things
  <2>3. ASSUME NEW o \in Objs, o[1] = p, o[2] = app[p].run, Present(csd, o)
        PROVE  (o[3] = app'[p].part /\ o[4] \in app'[p].held) \/ o \in excused
    <3>1. o[4] \in Things
      BY SMT DEF Objs
    <3>2. (o[3] = app[p].part /\ o[4] \in app[p].held) \/ o \in excused
      BY <2>1, <2>3 DEF OwnInv, Held
    <3> QED BY <3>1, <3>2
  <2> QED BY <2>2, <2>3 DEF OwnInv, Held
<1>3. TablesInv'
  BY <1>1, <1>2, TablesKeep DEF DevInv, TablesInv
<1>4. ExeInv'
  BY ExeKeeps DEF DevInv, Pending
<1>5. NoWildAccess'
  BY DEF DevInv, NoWildAccess
<1> QED BY <1>3, <1>4, <1>5 DEF DevInv

\* A step of the host, the opening of the devices, and their closing.
LEMMA HostQuiet ==
    ASSUME AppType, DevInv, NEW p \in Procs, NEW from \in Pcs, NEW to \in Pcs,
           <<Kind(p), from, to>> \in HostEdges, to # "call", HostStep(p, from, to, FailTo(p, from))
    PROVE  DevInv'
<1>1. HeldOK(Kind(p), app[p]) /\ Held(p) \in SUBSET Flags /\ FailTo(p, from) \in Pcs
  BY DEF DevInv, TablesInv, AppType, App, Held, FailTo, Pcs
<1>2. /\ Pc(p) = from /\ mix' = mix /\ UNCHANGED <<csd, exe, excused, adrift>>
      /\ Goto(p, to, Held(p)) \/ Goto(p, FailTo(p, from), Held(p))
  BY DEF HostStep
<1>3. /\ \A q \in Procs \ {p} : app'[q] = app[q]
      /\ Same(app[p], app'[p]) /\ app'[p].pc \in {to, FailTo(p, from)} /\ app'[p].held = app[p].held
  BY <1>1, <1>2, GotoIs DEF Held
<1>4. to \notin Pending /\ FailTo(p, from) \notin Pending /\ from # "wait"
  BY DEF FailTo, Pending, HostEdges
<1>5. HeldOK(Kind(p), app'[p])
  <2>1. CASE app'[p].pc = to
    <3>1. to \in {"dump", "passed", "save", "release", "stored"}
      BY SMT DEF HostEdges
    <3>2. Kind(p) = "full" /\ to \in {"save", "passed"} => from \in {"compare", "save"}
      BY SMT DEF HostEdges
    <3>3. Kind(p) # "elsewhere"
      BY SMT DEF HostEdges
    <3> QED BY <2>1, <1>1, <1>2, <1>3, <3>1, <3>2, <3>3 DEF HeldOK, Pc, Working
  <2>2. CASE app'[p].pc = FailTo(p, from)
    BY <2>2, <1>1, <1>2, <1>3 DEF HeldOK, HostEdges, Pc, Working, FailTo
  <2> QED BY <1>3, <2>1, <2>2
<1>6. adrift \in BOOLEAN
  BY DEF DevInv, ExeInv
<1> QED BY <1>2, <1>3, <1>4, <1>5, <1>6, QuietKeeps DEF Same

\* Opening the device touches none of its objects.
LEMMA OpenQuiet ==
    ASSUME AppType, DevInv, NEW p \in Procs, NEW fail \in {"exit", "clean"}, Open(p, fail)
    PROVE  DevInv'
<1>1. /\ HeldOK(Kind(p), app[p]) /\ Held(p) \in SUBSET Flags /\ Held(p) \cup {"fd"} \in SUBSET Flags
      /\ fail \in Pcs /\ "input" \in Pcs
  BY DEF DevInv, TablesInv, AppType, App, Held, Flags, Pcs
<1>2. /\ Pc(p) = "open" /\ mix' = mix /\ UNCHANGED <<csd, exe, excused, adrift>>
      /\ Goto(p, "input", Held(p) \cup {"fd"}) \/ Goto(p, fail, Held(p))
  BY DEF Open
<1>3. app[p].held = {} /\ Kind(p) # "elsewhere"
  BY <1>1, <1>2 DEF HeldOK, Pc
<1>4. /\ \A q \in Procs \ {p} : app'[q] = app[q]
      /\ Same(app[p], app'[p])
      /\ \/ app'[p].pc = "input" /\ app'[p].held = {"fd"}
         \/ app'[p].pc = fail /\ app'[p].held = {}
  <2>1. Held(p) \cup {"fd"} = {"fd"} /\ Held(p) = {}
    BY <1>3 DEF Held
  <2>2. Goto(p, "input", {"fd"}) \/ Goto(p, fail, {})
    BY <1>2, <2>1
  <2>3. {"fd"} \in SUBSET Flags /\ {} \in SUBSET Flags
    BY DEF Flags
  <2> QED BY <1>1, <2>2, <2>3, GotoIs
<1>5. HeldOK(Kind(p), app'[p])
  BY <1>3, <1>4 DEF HeldOK, Working
<1>6. adrift \in BOOLEAN
  BY DEF DevInv, ExeInv
<1>7. app[p].held \cap Things = {} /\ app'[p].held \cap Things = {} /\ app'[p].pc \notin Pending
  BY <1>3, <1>4 DEF Things, Pending
<1> QED BY <1>2, <1>4, <1>5, <1>6, <1>7, QuietKeeps DEF Same

\* Closing it touches none either, and leaves no handle behind.
LEMMA CloseQuiet ==
    ASSUME AppType, DevInv, NEW p \in Procs, NEW from \in {"clean", "release"},
           NEW to \in {"exit", "call", "compare"}, Close(p, from, to), to # "exit" => Kind(p) # "elsewhere"
    PROVE  DevInv'
<1>1. {} \in SUBSET Flags /\ to \in Pcs
  BY DEF Pcs
<1>2. /\ Pc(p) = from /\ mix' = mix /\ UNCHANGED <<csd, exe, excused, adrift>>
      /\ Goto(p, to, {}) /\ ~HoldsObjects(p)
  BY DEF Close
<1>3. /\ \A q \in Procs \ {p} : app'[q] = app[q]
      /\ Same(app[p], app'[p]) /\ app'[p].pc = to /\ app'[p].held = {}
  BY <1>1, <1>2, GotoIs
<1>4. HeldOK(Kind(p), app'[p])
  BY <1>3 DEF HeldOK, Working
<1>5. app[p].held \cap Things = {} /\ app'[p].held \cap Things = {} /\ app'[p].pc \notin Pending
  BY <1>2, <1>3 DEF HoldsObjects, Held, Things, Pending
<1>6. adrift \in BOOLEAN
  BY DEF DevInv, ExeInv
<1> QED BY <1>2, <1>3, <1>4, <1>5, <1>6, QuietKeeps DEF Same

\* Success is reported.
LEMMA SucceedQuiet ==
    ASSUME AppType, DevInv, NEW p \in Procs, NEW from \in {"passed", "stored"},
           NEW to \in {"clean", "exit"}, Succeed(p, from, to),
           to = "exit" => from = "passed" /\ Kind(p) \in {"full", "elsewhere"}
    PROVE  DevInv'
<1>1. HeldOK(Kind(p), app[p]) /\ to \in Pcs /\ adrift \in BOOLEAN
  BY DEF DevInv, TablesInv, ExeInv, Pcs
<1>2. mix' = mix /\ UNCHANGED <<csd, exe, excused, adrift>>
  BY DEF Succeed
<1>3. /\ Pc(p) = from /\ \A q \in Procs \ {p} : app'[q] = app[q]
      /\ app'[p].run = app[p].run /\ app'[p].part = app[p].part /\ app'[p].pc = to
      /\ app'[p].held = app[p].held
  BY <1>1, SucceedIs
<1>4. HeldOK(Kind(p), app'[p])
  BY <1>1, <1>3 DEF HeldOK, Working, Pc
<1>5. app'[p].pc \notin Pending /\ Pc(p) # "wait"
  BY <1>3 DEF Pending
<1> QED BY <1>1, <1>2, <1>3, <1>4, <1>5, QuietKeeps

\* The remote call: nothing is held.
LEMMA CallQuiet ==
    ASSUME AppType, DevInv, NEW p \in Procs, NEW ops \in SUBSET Ops, NEW to \in Pcs, Call(p, ops, to),
           <<Kind(p), to>> \in CallEdges
    PROVE  DevInv'
<1>1. HeldOK(Kind(p), app[p]) /\ Held(p) \in SUBSET Flags /\ adrift \in BOOLEAN
  BY DEF DevInv, TablesInv, ExeInv, AppType, App, Held
<1>2. "calling" \in Pcs /\ "clean" \in Pcs
  BY DEF Pcs
<1>3. CASE CallStep(p)
  <2>1. UNCHANGED appVars
    BY <1>3 DEF CallStep
  <2> QED BY <2>1 DEF appVars, DevInv, TablesInv, ExeInv, NoWildAccess, SlotInv, OwnInv, Kind, Pc,
                      Held, Slot, Mine, Obj
<1>4. CASE CallStart(p, ops) \/ CallEnd(p, to)
  <2>1. /\ Pc(p) \in {"call", "calling"} /\ mix' = mix /\ UNCHANGED <<csd, exe, excused, adrift>>
        /\ Goto(p, "calling", Held(p)) \/ Goto(p, to, Held(p)) \/ Goto(p, "clean", Held(p))
    BY <1>4 DEF CallStart, CallEnd
  <2>2. app[p].held = {}
    BY <2>1, <1>1 DEF HeldOK, Pc
  <2>3. /\ \A q \in Procs \ {p} : app'[q] = app[q]
        /\ Same(app[p], app'[p]) /\ app'[p].pc \in {"calling", to, "clean"} /\ app'[p].held = {}
    BY <1>1, <1>2, <2>1, <2>2, GotoIs DEF Held
  <2>4. app'[p].pc \in {"calling", "clean", "check", "answered", "passed"}
        /\ (Kind(p) = "elsewhere" => app'[p].pc \in {"calling", "clean", "passed"})
    BY <2>3 DEF CallEdges
  <2>5. HeldOK(Kind(p), app'[p])
    BY <2>3, <2>4 DEF HeldOK, Working
  <2>6. app'[p].pc \notin Pending /\ Pc(p) # "wait"
    BY <2>1, <2>4 DEF Pending
  <2>7. app[p].held \cap Things = {} /\ app'[p].held \cap Things = {}
    BY <2>2, <2>3
  <2> QED BY <1>1, <2>1, <2>3, <2>5, <2>6, <2>7, QuietKeeps DEF Same
<1> QED BY <1>3, <1>4 DEF Call

\* Neither does the answer to the call.
LEMMA AnsweredQuiet ==
    ASSUME AppType, DevInv, NEW p \in Procs, Answered(p)
    PROVE  DevInv'
<1>1. HeldOK(Kind(p), app[p]) /\ adrift \in BOOLEAN
  BY DEF DevInv, TablesInv, ExeInv
<1>2. /\ Kind(p) = "full" /\ Pc(p) = "answered" /\ mix' = mix /\ UNCHANGED <<csd, exe, excused, adrift>>
  BY DEF Answered
<1>3. /\ \A q \in Procs \ {p} : app'[q] = app[q]
      /\ app'[p].run = app[p].run /\ app'[p].pc = "open" /\ app'[p].held = app[p].held
  BY AnsweredIs
<1>4. app[p].held = {}
  BY <1>1, <1>2 DEF HeldOK, Pc
<1>5. HeldOK(Kind(p), app'[p])
  BY <1>2, <1>3, <1>4 DEF HeldOK, Working
<1>6. app'[p].pc \notin Pending /\ app[p].held \cap Things = {} /\ app'[p].held \cap Things = {}
  BY <1>3, <1>4 DEF Pending
<1> QED BY <1>1, <1>2, <1>3, <1>5, <1>6, QuietKeeps

\* A transfer uses memory that the application holds.
LEMMA TransferQuiet ==
    ASSUME AppType, DevInv, NEW p \in Procs, NEW d, NEW from, NEW busy, NEW which, NEW to,
           Transfer(p, from, busy, which, d, to),
           \/ from = "write" /\ busy = "writing" /\ which = "in" /\ to = "range"
           \/ from = "read" /\ busy = "reading" /\ which = "out" /\ to = ReadTo(p)
    PROVE  DevInv'
<1>1. HeldOK(Kind(p), app[p]) /\ Held(p) \in SUBSET Flags /\ adrift \in BOOLEAN /\ app \in [Procs -> App]
  BY DEF DevInv, TablesInv, ExeInv, AppType, App, Held
<1>2. /\ busy \in Pcs /\ "clean" \in Pcs /\ to \in Pcs /\ which \in {"in", "out"}
      /\ to \in {"range", "store", "verify"} /\ busy \in {"writing", "reading"} /\ from \in {"write", "read"}
  BY DEF Pcs, ReadTo
<1>3. Pc(p) \in {from, busy} /\ mix' = mix /\ UNCHANGED <<exe, excused, adrift>>
  BY DEF Transfer, TransferStart, TransferStep, TransferEnd
<1>4. "in" \in app[p].held /\ "out" \in app[p].held /\ Kind(p) # "elsewhere"
  BY <1>1, <1>2, <1>3 DEF HeldOK, Pc, Working
<1>5. CASE TransferStep(p, busy, which)
  <2>1. app' = app /\ csd' = SlmUse(csd, Obj(p, which)) /\ Pc(p) = busy
    BY <1>5 DEF TransferStep
  <2>2. TablesOK(csd) /\ Obj(p, which) \in csd.mem
    BY <1>2, <1>4 DEF DevInv, TablesInv, OwnInv, Held
  <2>3. csd' = csd
    BY <2>1, <2>2, SlmUseIs
  <2>4. app'[p].pc \notin Pending /\ Pc(p) # "wait"
    BY <2>1, <1>2 DEF Pending, Pc
  <2> QED BY <1>1, <1>3, <2>1, <2>3, <2>4, QuietKeeps
<1>6. CASE TransferStart(p, from, busy, d) \/ TransferEnd(p, busy, to)
  <2>1. /\ Goto(p, busy, Held(p)) \/ Goto(p, to, Held(p)) \/ Goto(p, "clean", Held(p))
        /\ csd' = csd
    BY <1>6 DEF TransferStart, TransferEnd
  <2>2. /\ \A q \in Procs \ {p} : app'[q] = app[q]
        /\ Same(app[p], app'[p]) /\ app'[p].pc \in {busy, to, "clean"} /\ app'[p].held = app[p].held
    <3>1. PICK pc \in {busy, to, "clean"} : Goto(p, pc, Held(p))
      BY <2>1
    <3>2. pc \in Pcs
      BY <1>2
    <3> QED BY <1>1, <3>1, <3>2, GotoIs DEF Held
  <2>3. app'[p].pc \in {"writing", "reading", "range", "store", "verify", "clean"}
    BY <1>2, <2>2
  <2>4. HeldOK(Kind(p), app'[p])
    BY <1>4, <2>2, <2>3 DEF HeldOK
  <2>5. app'[p].pc \notin Pending /\ Pc(p) # "wait"
    BY <2>3, <1>2, <1>3 DEF Pending
  <2> QED BY <1>1, <1>3, <2>1, <2>2, <2>4, <2>5, QuietKeeps DEF Same
<1> QED BY <1>5, <1>6 DEF Transfer

\* The driver gives up on a request.
LEMMA TimeoutQuiet ==
    ASSUME AppType, DevInv, NEW p \in Procs, ExecuteTimesOut(p)
    PROVE  DevInv'
<1>1. HeldOK(Kind(p), app[p]) /\ Held(p) \in SUBSET Flags
  BY DEF DevInv, TablesInv, AppType, App, Held
<1>2. /\ Pc(p) = "wait" /\ Goto(p, "clean", Held(p)) /\ adrift' = TRUE /\ mix' = mix
      /\ UNCHANGED <<csd, exe, excused>>
  BY DEF ExecuteTimesOut
<1>3. /\ \A q \in Procs \ {p} : app'[q] = app[q]
      /\ Same(app[p], app'[p]) /\ app'[p].pc = "clean" /\ app'[p].held = app[p].held
  <2>1. "clean" \in Pcs
    BY DEF Pcs
  <2> QED BY <1>1, <1>2, <2>1, GotoIs DEF Held
<1>4. HeldOK(Kind(p), app'[p])
  BY <1>1, <1>2, <1>3 DEF HeldOK, Pc, Working
<1>5. app'[p].pc \notin Pending
  BY <1>3 DEF Pending
<1> QED BY <1>2, <1>3, <1>4, <1>5, QuietKeeps DEF Same

\* The device is given the program and the memories of the application to execute.
LEMMA ExecuteKeeps ==
    ASSUME AppType, DevInv, NEW p \in Procs, Execute(p)
    PROVE  DevInv'
<1>1. /\ HeldOK(Kind(p), app[p]) /\ Held(p) \in SUBSET Flags /\ adrift \in BOOLEAN /\ TablesOK(csd)
      /\ SlotInv(p) /\ OwnInv(p)
  BY DEF DevInv, TablesInv, ExeInv, AppType, App, Held
<1>2. Pc(p) = "execute" /\ mix' = mix /\ UNCHANGED <<csd, excused, adrift>>
  BY DEF Execute
<1>3. "in" \in app[p].held /\ "out" \in app[p].held /\ Kind(p) # "elsewhere"
  BY <1>1, <1>2 DEF HeldOK, Pc, Working
<1>4. "wait" \in Pcs /\ "clean" \in Pcs
  BY DEF Pcs
<1>5. CASE ~ExecuteStarts(csd, Slot(p), Obj(p, "rs"))
  <2>1. Goto(p, "clean", Held(p)) /\ exe' = exe
    BY <1>5 DEF Execute
  <2>2. /\ \A q \in Procs \ {p} : app'[q] = app[q]
        /\ Same(app[p], app'[p]) /\ app'[p].pc = "clean" /\ app'[p].held = app[p].held
    BY <1>1, <1>4, <2>1, GotoIs DEF Held
  <2>3. HeldOK(Kind(p), app'[p])
    BY <1>3, <2>2 DEF HeldOK, Working
  <2>4. app'[p].pc \notin Pending
    BY <2>2 DEF Pending
  <2> QED BY <1>1, <1>2, <2>1, <2>2, <2>3, <2>4, QuietKeeps DEF Same
<1>6. CASE ExecuteStarts(csd, Slot(p), Obj(p, "rs"))
  <2>1. /\ Goto(p, "wait", Held(p))
        /\ exe' = exe \cup {[of |-> Mine(p), req |-> ExecuteRequest(csd, Slot(p), Obj(p, "rs"))]}
    BY <1>6 DEF Execute
  <2>2. /\ \A q \in Procs \ {p} : app'[q] = app[q]
        /\ Same(app[p], app'[p]) /\ app'[p].pc = "wait" /\ app'[p].held = app[p].held
    BY <1>1, <1>4, <2>1, GotoIs DEF Held
  <2>3. HeldOK(Kind(p), app'[p])
    BY <1>3, <2>2 DEF HeldOK, Working
  <2>4. /\ Slot(p)' = Slot(p) /\ Mine(p)' = Mine(p) /\ Held(p)' = Held(p)
        /\ \A f \in Things : Obj(p, f)' = Obj(p, f)
    BY <2>2 DEF Slot, Mine, Held, Obj, Same
  <2>5. SlotInv(p)'
    BY <1>1, <1>2, <2>2, <2>4 DEF SlotInv, Pc
  <2>6. OwnInv(p)'
    BY <1>1, <1>2, <2>2, <2>4 DEF OwnInv, Things, Same
  <2>7. TablesInv'
    BY <1>1, <1>2, <2>2, <2>3, <2>5, <2>6, TablesKeep DEF DevInv, Same
  <2>8. [of |-> Mine(p), req |-> ExecuteRequest(csd, Slot(p), Obj(p, "rs"))] = Exec(Mine(p))
    <3>1. PICK r \in csd.rset : r = CHOOSE z \in csd.rset : z.id = Obj(p, "rs")
      BY <1>6 DEF ExecuteStarts
    <3>2. r.id = Obj(p, "rs")
      BY <1>6, <3>1 DEF ExecuteStarts
    <3>3. r.cache = Mems(p)
      <4>1. MemsOf(Obj(p, "rs")) = Mems(p)
        BY ObjIs DEF Things
      <4> QED BY <1>1, <3>2, <4>1 DEF TablesOK
    <3>4. csd.prog[Slot(p)].by = Mine(p)
      BY <1>1, <1>2 DEF SlotInv
    <3>5. ExecuteRequest(csd, Slot(p), Obj(p, "rs")) = [slot |-> Slot(p), by |-> Mine(p), cache |-> Mems(p)]
      BY <3>1, <3>3, <3>4 DEF ExecuteRequest
    <3>6. <<Mine(p)[1], Mine(p)[3]>> = Slot(p) /\ MemsOf(Mine(p)) = Mems(p)
      BY ObjIs DEF Mine, Slot, Things
    <3> QED BY <3>5, <3>6 DEF Exec
  <2>9. Mine(p) \in Owners /\ Mine(p)[1] = p /\ Exec(Mine(p)).of = Mine(p)
    BY ObjIs DEF Things, Exec
  <2>10. exe' = exe \cup {Exec(Mine(p))}
    BY <2>1, <2>8
  <2>11. \A q \in Procs : q # p => Pc(q)' = Pc(q) /\ Mine(q)' = Mine(q)
    BY <2>2 DEF Pc, Mine
  <2>12. Pc(p)' = "wait"
    BY <2>2 DEF Pc
  <2>13. ExeInv'
    <3>1. \A e \in exe' : e.of \in Owners /\ e = Exec(e.of)
      BY <2>9, <2>10 DEF DevInv, ExeInv
    <3>2. \A q \in Procs : Pc(q)' = "wait" => Exec(Mine(q)') \in exe'
      BY <2>4, <2>10, <2>11 DEF DevInv, ExeInv
    <3>3. ASSUME ~adrift, NEW e \in exe' PROVE Pc(e.of[1])' = "wait" /\ e.of = Mine(e.of[1])'
      <4>1. CASE e \in exe
        <5>1. Pc(e.of[1]) = "wait" /\ e.of = Mine(e.of[1]) /\ e.of \in Owners
          BY <3>3, <4>1 DEF DevInv, ExeInv
        <5>2. e.of[1] \in Procs
          BY <5>1, SMT DEF Owners
        <5>3. e.of[1] # p
          BY <5>1, <1>2
        <5> QED BY <5>1, <5>2, <5>3, <2>11
      <4>2. CASE e = Exec(Mine(p))
        BY <4>2, <2>4, <2>9, <2>12
      <4> QED BY <3>3, <4>1, <4>2, <2>10
    <3> QED BY <1>1, <1>2, <3>1, <3>2, <3>3 DEF ExeInv, Exec
  <2>14. NoWildAccess'
    BY <1>2 DEF DevInv, NoWildAccess
  <2> QED BY <2>7, <2>13, <2>14 DEF DevInv
<1> QED BY <1>5, <1>6

-----------------------------------------------------------------------------
(* The commands of the set-up.                                              *)

\* A command that is accepted, and adds to the device the objects it flags.
LEMMA CommandKeeps ==
    ASSUME AppType, DevInv, NEW p \in Procs, NEW from, from # "wait", Kind(p) # "elsewhere",
           NEW to \in {"output"} \cup Working, to # "wait",
           NEW flag \in SUBSET {"in", "out", "rs", "prog", "act"}, NEW accepted, accepted, NEW after,
           Command(p, from, to, flag, accepted, after),
           TablesOK(after), after.wild = csd.wild, csd.mem \subseteq after.mem,
           \A o \in Objs : Present(after, o) => Present(csd, o) \/ \E f \in flag \cap Things : o = Obj(p, f),
           \A f \in flag \cap {"in", "out"} : Obj(p, f) \in after.mem,
           \A s \in Slots : s[1] # p => after.prog[s] = csd.prog[s],
           "in" \in Held(p) \cup flag, to \in Working => "out" \in Held(p) \cup flag,
           to \in {"activate", "execute"} => after.prog[Slot(p)] # NoProgram /\ after.prog[Slot(p)].by = Mine(p),
           to = "load" => after.prog[Slot(p)] = NoProgram
    PROVE  DevInv'
<1>1. /\ Held(p) \in SUBSET Flags /\ Held(p) \cup flag \in SUBSET Flags /\ to \in Pcs /\ "clean" \in Pcs
  BY DEF AppType, App, Held, Flags, Pcs, Working
<1>2. /\ TablesInv /\ ExeInv /\ NoWildAccess /\ adrift \in BOOLEAN /\ TablesOK(csd) /\ OwnInv(p)
      /\ HeldOK(Kind(p), app[p])
  BY DEF DevInv, TablesInv, ExeInv
<1>3. Pc(p) = from /\ mix' = mix /\ UNCHANGED <<exe, adrift>>
  BY DEF Command
<1>4. \/ /\ csd' = after /\ Goto(p, to, Held(p) \cup flag) /\ excused' = excused
      \/ /\ csd' = csd /\ Goto(p, "clean", Held(p)) /\ excused' = excused
      \/ /\ csd' = after /\ Goto(p, "clean", Held(p))
         /\ excused' = excused \cup {Obj(p, f) : f \in flag}
  BY DEF Command
<1>5. csd' = csd \/ csd' = after
  BY <1>4
<1>6. excused \subseteq excused'
  BY <1>4
<1>7. /\ \A q \in Procs \ {p} : app'[q] = app[q]
      /\ Same(app[p], app'[p])
      /\ \/ /\ csd' = after /\ app'[p].pc = to /\ app'[p].held = Held(p) \cup flag
         \/ /\ app'[p].pc = "clean" /\ app'[p].held = Held(p)
            /\ \/ csd' = csd
               \/ csd' = after /\ excused' = excused \cup {Obj(p, f) : f \in flag}
  <2>1. CASE csd' = after /\ Goto(p, to, Held(p) \cup flag) /\ excused' = excused
    BY <2>1, <1>1, GotoIs, ZenonT(30)
  <2>2. ASSUME Goto(p, "clean", Held(p))
        PROVE  /\ \A q \in Procs \ {p} : app'[q] = app[q]
               /\ Same(app[p], app'[p]) /\ app'[p].pc = "clean" /\ app'[p].held = Held(p)
    BY <2>2, <1>1, GotoIs, ZenonT(30)
  <2>3. CASE csd' = csd /\ Goto(p, "clean", Held(p)) /\ excused' = excused
    BY <2>2, <2>3
  <2>4. CASE /\ csd' = after /\ Goto(p, "clean", Held(p))
             /\ excused' = excused \cup {Obj(p, f) : f \in flag}
    BY <2>2, <2>4
  <2> QED BY <1>4, <2>1, <2>3, <2>4
<1>8. HeldOK(Kind(p), app'[p])
  BY <1>2, <1>7 DEF HeldOK, Held, Working
<1>9. /\ Slot(p)' = Slot(p) /\ Mine(p)' = Mine(p)
      /\ \A f \in Things : Obj(p, f)' = Obj(p, f)
  BY <1>7 DEF Slot, Mine, Obj, Same
<1>10. SlotInv(p)'
  BY <1>7, <1>9 DEF SlotInv, Pc
<1>11. \A o \in Objs : Present(csd', o) => Present(csd, o) \/ \E f \in flag \cap Things : o = Obj(p, f)
  BY <1>5
<1>12. \A f \in Things : Obj(p, f)[1] = p /\ Obj(p, f)[2] = app[p].run /\ Obj(p, f)[3] = app[p].part
                          /\ Obj(p, f)[4] = f
  <2> TAKE f \in Things
  <2> QED BY ObjIs, ZenonT(30)
<1>13. OwnInv(p)'
  <2>1. ASSUME NEW f \in {"in", "out"}, f \in app'[p].held PROVE Obj(p, f)' \in csd'.mem
    <3>1. f \in Held(p) => Obj(p, f) \in csd.mem
      BY <1>2 DEF OwnInv
    <3>2. csd' = after \/ f \in Held(p)
      BY <2>1, <1>7
    <3>3. Obj(p, f) \in csd'.mem
      BY <2>1, <1>5, <1>7, <3>1, <3>2
    <3> QED BY <1>9, <3>3 DEF Things
  <2>2. ASSUME NEW o \in Objs, o[1] = p, o[2] = app[p].run, Present(csd', o)
        PROVE  (o[3] = app[p].part /\ o[4] \in app'[p].held) \/ o \in excused'
    <3>1. CASE Present(csd, o)
      <4>1. (o[3] = app[p].part /\ o[4] \in Held(p)) \/ o \in excused
        BY <3>1, <2>2, <1>2 DEF OwnInv
      <4>2. Held(p) \subseteq app'[p].held
        BY <1>7
      <4> QED BY <4>1, <4>2, <1>6
    <3>2. CASE ~Present(csd, o)
      <4>1. PICK f \in flag \cap Things : o = Obj(p, f)
        BY <3>2, <2>2, <1>11
      <4>2. o[3] = app[p].part /\ o[4] = f
        BY <4>1, <1>12
      <4>3. csd' # csd
        BY <3>2, <2>2
      <4>4. f \in app'[p].held \/ o \in excused'
        BY <4>1, <4>3, <1>7
      <4> QED BY <4>2, <4>4
    <3> QED BY <3>1, <3>2
  <2> QED BY <2>1, <2>2, <1>7 DEF OwnInv, Held, Same
<1>14. TablesInv'
  <2>1. TablesOK(csd')
    BY <1>2, <1>5
  <2>2. \A o \in Objs : Present(csd', o) => Present(csd, o) \/ (o[1] = p /\ o[2] = app[p].run)
    <3> SUFFICES ASSUME NEW o \in Objs, NEW f \in Things, o = Obj(p, f)
                 PROVE  o[1] = p /\ o[2] = app[p].run
      BY <1>11
    <3> QED BY <1>12
  <2>3. \A o \in csd.mem : o \in csd'.mem
    BY <1>5
  <2>4. \A s \in Slots : s[1] # p => csd'.prog[s] = csd.prog[s]
    BY <1>5
  <2> QED BY <1>2, <1>3, <1>6, <1>7, <1>8, <1>10, <1>13, <2>1, <2>2, <2>3, <2>4, TablesKeep DEF Same
<1>15. app'[p].pc # "wait"
  BY <1>7
<1>16. ExeInv'
  BY <1>2, <1>3, <1>7, <1>15, ExeKeeps
<1>17. NoWildAccess'
  BY <1>2, <1>3, <1>5 DEF NoWildAccess
<1> QED BY <1>14, <1>16, <1>17 DEF DevInv

\* The slot of an object, and the object a loaded program is.
LEMMA SlotOfIs ==
    ASSUME NEW o \in Objs
    PROVE  /\ <<o[1], o[3]>> \in Slots
           /\ \A p \in Procs : <<o[1], o[2], o[3]>> = Mine(p) /\ o[4] = "prog" => o = Obj(p, "prog")
BY OffloadConstants, SMT DEF Objs, Parts, Things, Mine, Obj

\* The namespaces.
LEMMA NsCreateKeeps ==
    ASSUME AppType, DevInv, NEW p \in Procs, NEW fill \in {"copy", "write"},
           \/ Command(p, "input", "output", {"in"}, TRUE, NsCreate(csd, Obj(p, "in")))
           \/ Command(p, "output", fill, {"out"}, TRUE, NsCreate(csd, Obj(p, "out")))
    PROVE  DevInv'
<1>1. HeldOK(Kind(p), app[p]) /\ TablesOK(csd)
  BY DEF DevInv, TablesInv
<1>2. ASSUME NEW from \in {"input", "output"}, NEW to \in {"output"} \cup Working, to # "wait",
             to \notin Pending, NEW f \in {"in", "out"},
             Command(p, from, to, {f}, TRUE, NsCreate(csd, Obj(p, f))),
             "in" \in Held(p) \cup {f}, to \in Working => "out" \in Held(p) \cup {f}
      PROVE  DevInv'
  <2>1. Pc(p) = from
    BY <1>2 DEF Command
  <2>2. Kind(p) # "elsewhere"
    BY <1>1, <2>1 DEF HeldOK, Pc
  <2>3. PICK u : u = NsCreate(csd, Obj(p, f))
    OBVIOUS
  <2>4. Obj(p, f) \in MemIds
    BY ObjIs DEF Things
  <2>5. /\ TablesOK(u) /\ u.mem = csd.mem \cup {Obj(p, f)} /\ u.rset = csd.rset /\ u.prog = csd.prog
        /\ u.wild = csd.wild
    BY <1>1, <2>3, <2>4, NsCreateIs, SMT
  <2>6. \A o \in Objs : Present(u, o) => Present(csd, o) \/ o = Obj(p, f)
    BY <2>5 DEF Present, Loaded
  <2>7. /\ csd.mem \subseteq u.mem /\ \A g \in {f} \cap {"in", "out"} : Obj(p, g) \in u.mem
        /\ \A s \in Slots : u.prog[s] = csd.prog[s]
        /\ {f} \in SUBSET {"in", "out", "rs", "prog", "act"} /\ f \in {f} \cap Things
    BY <2>5 DEF Things
  <2>8. to \notin {"activate", "execute", "load"} /\ from # "wait"
    BY <1>2 DEF Pending
  <2>9. \A o \in Objs : Present(u, o) => Present(csd, o) \/ \E g \in {f} \cap Things : o = Obj(p, g)
    BY <2>6, <2>7
  <2>10. Command(p, from, to, {f}, TRUE, u)
    BY <1>2, <2>3
  <2> QED BY <1>2, <2>2, <2>5, <2>7, <2>8, <2>9, <2>10, CommandKeeps
<1>3. CASE Command(p, "input", "output", {"in"}, TRUE, NsCreate(csd, Obj(p, "in")))
  BY <1>2, <1>3 DEF Working, Pending
<1>4. CASE Command(p, "output", fill, {"out"}, TRUE, NsCreate(csd, Obj(p, "out")))
  <2>1. "in" \in Held(p)
    BY <1>1, <1>4 DEF Command, HeldOK, Pc, Held
  <2> QED BY <1>2, <1>4, <2>1 DEF Working, Pending
<1> QED BY <1>3, <1>4

\* The copy from the SSD.
LEMMA CopyKeeps ==
    ASSUME AppType, DevInv, NEW p \in Procs, CopyFromSsd(p)
    PROVE  DevInv'
<1>1. HeldOK(Kind(p), app[p]) /\ TablesOK(csd) /\ Pc(p) = "copy" /\ OwnInv(p)
  BY DEF DevInv, TablesInv, CopyFromSsd, Command
<1>2. "in" \in Held(p) /\ "out" \in Held(p) /\ Kind(p) # "elsewhere"
  BY <1>1 DEF HeldOK, Pc, Held, Working
<1>3. SlmUse(csd, Obj(p, "in")) = csd
  BY <1>1, <1>2, SlmUseIs DEF OwnInv
<1>4. Command(p, "copy", "range", {}, TRUE, csd)
  BY <1>3 DEF CopyFromSsd
<1>5. "range" \in Working /\ {} \in SUBSET {"in", "out", "rs", "prog", "act"} /\ Held(p) \cup {} = Held(p)
  BY DEF Working
<1> QED BY <1>1, <1>2, <1>4, <1>5, CommandKeeps

\* The range set names memory that exists.
LEMMA RangeKeeps ==
    ASSUME AppType, DevInv, NEW p \in Procs,
           Command(p, "range", "unstale", {"rs"}, RangeSetFound(csd, Mems(p)),
                   RangeSetCreate(csd, Obj(p, "rs"), Mems(p)))
    PROVE  DevInv'
<1>1. HeldOK(Kind(p), app[p]) /\ TablesOK(csd) /\ Pc(p) = "range" /\ OwnInv(p)
  BY DEF DevInv, TablesInv, Command
<1>2. "in" \in Held(p) /\ "out" \in Held(p) /\ Kind(p) # "elsewhere"
  BY <1>1 DEF HeldOK, Pc, Held, Working
<1>3. RangeSetFound(csd, Mems(p))
  BY <1>1, <1>2 DEF RangeSetFound, Mems, DevmemLookup, OwnInv
<1>4. Obj(p, "rs") \in RsetIds /\ MemsOf(Obj(p, "rs")) = Mems(p)
  BY ObjIs DEF Things
<1>5. PICK u : u = RangeSetCreate(csd, Obj(p, "rs"), MemsOf(Obj(p, "rs")))
  OBVIOUS
<1>6. /\ TablesOK(u) /\ u.mem = csd.mem /\ u.prog = csd.prog /\ u.wild = csd.wild
      /\ u.rset = csd.rset \cup {[id |-> Obj(p, "rs"), cache |-> MemsOf(Obj(p, "rs"))]}
  BY <1>1, <1>4, <1>5, RangeSetCreateIs, SMT
<1>7. \A o \in Objs : Present(u, o) => Present(csd, o) \/ o = Obj(p, "rs")
  BY <1>6, SMT DEF Present, Loaded
<1>8. /\ "unstale" \in Working /\ {"rs"} \in SUBSET {"in", "out", "rs", "prog", "act"}
      /\ "rs" \in {"rs"} \cap Things /\ {"rs"} \cap {"in", "out"} = {}
  BY DEF Working, Things
<1>9. Command(p, "range", "unstale", {"rs"}, RangeSetFound(csd, Mems(p)), u)
  BY <1>4, <1>5
<1>10. \A o \in Objs : Present(u, o) => Present(csd, o) \/ \E g \in {"rs"} \cap Things : o = Obj(p, g)
  BY <1>7, <1>8
<1> QED BY <1>2, <1>3, <1>6, <1>8, <1>9, <1>10, CommandKeeps

\* A stale program is unloaded, whosever it is.
LEMMA UnstaleKeeps ==
    ASSUME AppType, DevInv, NEW p \in Procs,
           Command(p, "unstale", "load", {}, TRUE, ProgramUnload(csd, Slot(p)))
    PROVE  DevInv'
<1>1. HeldOK(Kind(p), app[p]) /\ TablesOK(csd) /\ Pc(p) = "unstale"
  BY DEF DevInv, TablesInv, Command
<1>2. "in" \in Held(p) /\ "out" \in Held(p) /\ Kind(p) # "elsewhere"
  BY <1>1 DEF HeldOK, Pc, Held, Working
<1>3. Slot(p) \in Slots /\ Slot(p)[1] = p
  BY ObjIs DEF Things
<1>4. PICK u : u = InSlot(csd, Slot(p), NoProgram)
  OBVIOUS
<1>5. NoProgram \in Program \cup {NoProgram}
  OBVIOUS
<1>6. /\ TablesOK(u) /\ u.mem = csd.mem /\ u.rset = csd.rset /\ u.wild = csd.wild
      /\ u.prog[Slot(p)] = NoProgram /\ \A z \in Slots \ {Slot(p)} : u.prog[z] = csd.prog[z]
  BY <1>1, <1>3, <1>4, <1>5, SlotIs, SMT
<1>7. \A o \in Objs : Present(u, o) => Present(csd, o)
  BY <1>6, SlotOfIs, SMT DEF Present, Loaded
<1>8. /\ "load" \in Working /\ {} \in SUBSET {"in", "out", "rs", "prog", "act"}
  BY DEF Working
<1>9. Command(p, "unstale", "load", {}, TRUE, u)
  BY <1>4 DEF ProgramUnload, DelProgram, InSlot
<1>10. \A s \in Slots : s[1] # p => u.prog[s] = csd.prog[s]
  BY <1>3, <1>6
<1> QED BY <1>2, <1>6, <1>7, <1>8, <1>9, <1>10, CommandKeeps

\* The program is loaded into the slot that was emptied for it.
LEMMA LoadKeeps ==
    ASSUME AppType, DevInv, NEW p \in Procs,
           Command(p, "load", "activate", {"prog"}, LoadFits(csd, Slot(p)),
                   ProgramLoad(csd, Slot(p), Mine(p)))
    PROVE  DevInv'
<1>1. HeldOK(Kind(p), app[p]) /\ TablesOK(csd) /\ Pc(p) = "load" /\ csd.prog[Slot(p)] = NoProgram
  BY DEF DevInv, TablesInv, SlotInv, Command
<1>2. "in" \in Held(p) /\ "out" \in Held(p) /\ Kind(p) # "elsewhere"
  BY <1>1 DEF HeldOK, Pc, Held, Working
<1>3. /\ Slot(p) \in Slots /\ Slot(p)[1] = p /\ Slot(p)[2] = app[p].part
      /\ Mine(p) \in Owners /\ Mine(p)[1] = p /\ Mine(p)[3] = app[p].part
  BY ObjIs DEF Things
<1>4. PICK c : c = [by |-> Mine(p), activated |-> FALSE]
  OBVIOUS
<1>5. c \in Program /\ c \in Program \cup {NoProgram} /\ c.by = Mine(p)
  BY <1>3, <1>4 DEF Program
<1>6. c # NoProgram
  BY <1>5, OffloadConstants DEF Program, Owners, Parts
<1>7. PICK u : u = InSlot(csd, Slot(p), c)
  OBVIOUS
<1>8. /\ TablesOK(u) /\ u.mem = csd.mem /\ u.rset = csd.rset /\ u.wild = csd.wild
      /\ u.prog[Slot(p)] = c /\ \A z \in Slots \ {Slot(p)} : u.prog[z] = csd.prog[z]
  <2>1. c # NoProgram => c.by[1] = Slot(p)[1] /\ c.by[3] = Slot(p)[2]
    BY <1>3, <1>5
  <2> QED BY <1>1, <1>3, <1>5, <1>7, <2>1, SlotIs, SMT
<1>9. ASSUME NEW o \in Objs, Present(u, o) PROVE Present(csd, o) \/ o = Obj(p, "prog")
  <2>1. CASE o[4] = "prog" /\ Loaded(u, o)
    <3>1. CASE <<o[1], o[3]>> = Slot(p)
      <4>1. <<o[1], o[2], o[3]>> = Mine(p)
        BY <2>1, <3>1, <1>5, <1>8 DEF Loaded
      <4> QED BY <2>1, <4>1, SlotOfIs
    <3>2. CASE <<o[1], o[3]>> # Slot(p)
      BY <2>1, <3>2, <1>8, SlotOfIs DEF Loaded, Present
    <3> QED BY <3>1, <3>2
  <2>2. CASE o \in u.mem \/ \E r \in u.rset : r.id = o
    BY <2>2, <1>8 DEF Present
  <2> QED BY <1>9, <2>1, <2>2 DEF Present
<1>10. /\ "activate" \in Working /\ {"prog"} \in SUBSET {"in", "out", "rs", "prog", "act"}
       /\ "prog" \in {"prog"} \cap Things /\ {"prog"} \cap {"in", "out"} = {}
  BY DEF Working, Things
<1>11. Command(p, "load", "activate", {"prog"}, LoadFits(csd, Slot(p)), u) /\ LoadFits(csd, Slot(p))
  BY <1>1, <1>4, <1>7 DEF ProgramLoad, AddProgramWithId, InSlot, LoadFits, LookupProgram
<1>12. \A o \in Objs : Present(u, o) => Present(csd, o) \/ \E g \in {"prog"} \cap Things : o = Obj(p, g)
  BY <1>9, <1>10
<1>13. \A s \in Slots : s[1] # p => u.prog[s] = csd.prog[s]
  BY <1>3, <1>8
<1> QED BY <1>2, <1>5, <1>6, <1>8, <1>10, <1>11, <1>12, <1>13, CommandKeeps, ZenonT(30)

\* Whose programs are in the slots does not change with their activation.
LEMMA ActivatePresent ==
    ASSUME NEW t, TablesOK(t), NEW s \in Slots, NEW on \in BOOLEAN, NEW u, u = ProgramActivate(t, s, on),
           NEW o \in Objs
    PROVE  Present(u, o) <=> Present(t, o)
<1>1. /\ u.mem = t.mem /\ u.rset = t.rset
      /\ \A z \in Slots : /\ u.prog[z] = NoProgram <=> t.prog[z] = NoProgram
                          /\ u.prog[z] # NoProgram => u.prog[z].by = t.prog[z].by
  BY ActivateIs, SMT
<1>2. Loaded(u, o) <=> Loaded(t, o)
  BY <1>1, SlotOfIs DEF Loaded
<1> QED BY <1>1, <1>2 DEF Present

\* Activating or deactivating a program keeps the invariant.
LEMMA ActivateKeeps ==
    ASSUME AppType, DevInv, NEW p \in Procs,
           Command(p, "activate", "execute", {"act"}, LookupProgram(csd, Slot(p)),
                   ProgramActivate(csd, Slot(p), TRUE))
    PROVE  DevInv'
<1>1. /\ HeldOK(Kind(p), app[p]) /\ TablesOK(csd) /\ Pc(p) = "activate"
      /\ csd.prog[Slot(p)] # NoProgram /\ csd.prog[Slot(p)].by = Mine(p)
  BY DEF DevInv, TablesInv, SlotInv, Command
<1>2. "in" \in Held(p) /\ "out" \in Held(p) /\ Kind(p) # "elsewhere"
  BY <1>1 DEF HeldOK, Pc, Held, Working
<1>3. Slot(p) \in Slots /\ Slot(p)[1] = p
  BY ObjIs DEF Things
<1>4. PICK u : u = ProgramActivate(csd, Slot(p), TRUE)
  OBVIOUS
<1>5. /\ TablesOK(u) /\ u.mem = csd.mem /\ u.rset = csd.rset /\ u.wild = csd.wild
      /\ u.prog[Slot(p)] # NoProgram /\ u.prog[Slot(p)].by = Mine(p)
      /\ \A z \in Slots \ {Slot(p)} : u.prog[z] = csd.prog[z]
  <2>1. PICK on \in BOOLEAN : u = ProgramActivate(csd, Slot(p), on)
    BY <1>4
  <2>2. /\ TablesOK(u) /\ u.mem = csd.mem /\ u.rset = csd.rset /\ u.wild = csd.wild
        /\ \A z \in Slots : /\ u.prog[z] = NoProgram <=> csd.prog[z] = NoProgram
                            /\ u.prog[z] # NoProgram => u.prog[z].by = csd.prog[z].by
        /\ \A z \in Slots \ {Slot(p)} : u.prog[z] = csd.prog[z]
    BY <1>1, <1>3, <2>1, ActivateIs, SMT
  <2> QED BY <1>1, <1>3, <2>2
<1>6. \A o \in Objs : Present(u, o) => Present(csd, o)
  <2>1. TRUE \in BOOLEAN
    OBVIOUS
  <2> QED BY <1>1, <1>3, <1>4, <2>1, ActivatePresent
<1>7. /\ "execute" \in Working /\ {"act"} \in SUBSET {"in", "out", "rs", "prog", "act"}
      /\ {"act"} \cap {"in", "out"} = {}
  BY DEF Working
<1>8. Command(p, "activate", "execute", {"act"}, LookupProgram(csd, Slot(p)), u) /\ LookupProgram(csd, Slot(p))
  BY <1>1, <1>4 DEF LookupProgram
<1>9. \A s \in Slots : s[1] # p => u.prog[s] = csd.prog[s]
  BY <1>3, <1>5
<1> QED BY <1>2, <1>5, <1>6, <1>7, <1>8, <1>9, CommandKeeps

\* All of the set-up.
LEMMA SetUpKeeps ==
    ASSUME AppType, DevInv, NEW p \in Procs, NEW fill \in {"copy", "write"}, SetUp(p, fill)
    PROVE  DevInv'
BY NsCreateKeeps, RangeKeeps, UnstaleKeeps, LoadKeeps, ActivateKeeps DEF SetUp

-----------------------------------------------------------------------------
(* The cleanup.                                                             *)

\* Taking down what p holds removes this one thing and no other.
LEMMA UndoIs ==
    ASSUME AppType, TablesInv, NEW p \in Procs, NEW flag \in Held(p) \ {"fd"}, NEW u, u = Undo(p, flag)
    PROVE  /\ TablesOK(u) /\ u.wild = csd.wild
           /\ \A o \in Objs : Present(u, o) => Present(csd, o) /\ o # Obj(p, flag)
           /\ \A o \in csd.mem : o # Obj(p, flag) => o \in u.mem
           /\ flag \in {"act", "prog"} => u.mem = csd.mem
           /\ \A s \in Slots : s # Slot(p) => u.prog[s] = csd.prog[s]
<1>1. flag \in {"act", "prog", "rs", "out", "in"} /\ TablesOK(csd) /\ OwnInv(p)
  BY DEF AppType, App, Held, Flags, TablesInv
<1>2. Slot(p) \in Slots /\ \A f \in Things : Obj(p, f) \in Objs /\ Obj(p, f)[4] = f
  <2>1. ASSUME NEW f \in Things PROVE Slot(p) \in Slots /\ Obj(p, f) \in Objs /\ Obj(p, f)[4] = f
    BY ObjIs, ZenonT(30)
  <2> QED BY <2>1 DEF Things
<1>3. CASE flag = "act"
  <2>1. PICK on \in BOOLEAN : u = ProgramActivate(csd, Slot(p), on)
    BY <1>3 DEF Undo
  <2>2. /\ TablesOK(u) /\ u.mem = csd.mem /\ u.rset = csd.rset /\ u.wild = csd.wild
        /\ \A z \in Slots \ {Slot(p)} : u.prog[z] = csd.prog[z]
    BY <1>1, <1>2, <2>1, ActivateIs, SMT
  <2>3. \A o \in Objs : Present(u, o) => Present(csd, o)
    BY <1>1, <1>2, <2>1, ActivatePresent
  <2>4. \A o \in Objs : o # Obj(p, "act")
    BY SMT DEF Objs, Things, Obj
  <2> QED BY <1>3, <2>2, <2>3, <2>4
<1>4. CASE flag = "prog"
  <2>1. u = InSlot(csd, Slot(p), NoProgram)
    BY <1>4 DEF Undo, ProgramUnload, DelProgram, InSlot
  <2>2. NoProgram \in Program \cup {NoProgram}
    OBVIOUS
  <2>3. /\ TablesOK(u) /\ u.mem = csd.mem /\ u.rset = csd.rset /\ u.wild = csd.wild
        /\ u.prog[Slot(p)] = NoProgram /\ \A z \in Slots \ {Slot(p)} : u.prog[z] = csd.prog[z]
    BY <1>1, <1>2, <2>1, <2>2, SlotIs, SMT
  <2>4. \A o \in Objs : Loaded(u, o) => Loaded(csd, o)
    BY <2>3, SlotOfIs, SMT DEF Loaded
  <2>5. \A o \in Objs : Present(u, o) => Present(csd, o)
    BY <2>3, <2>4 DEF Present
  <2>6. ~Present(u, Obj(p, "prog"))
    <3>1. Obj(p, "prog") \in Objs /\ Obj(p, "prog")[4] = "prog"
      BY <1>2 DEF Things
    <3>2. <<Obj(p, "prog")[1], Obj(p, "prog")[3]>> = Slot(p)
      BY ObjIs DEF Things
    <3>3. ~Loaded(u, Obj(p, "prog"))
      BY <2>3, <3>2 DEF Loaded
    <3> QED BY <2>3, <3>1, <3>3, PresentIs
  <2> QED BY <1>4, <2>3, <2>5, <2>6
<1>5. CASE flag = "rs"
  <2>1. u = RangeSetDelete(csd, Obj(p, "rs"))
    BY <1>5 DEF Undo
  <2>2. /\ TablesOK(u) /\ u.mem = csd.mem /\ u.prog = csd.prog /\ u.wild = csd.wild
        /\ u.rset \subseteq csd.rset /\ \A r \in u.rset : r.id # Obj(p, "rs")
    BY <1>1, <2>1, RangeSetDeleteIs, SMT
  <2>3. \A o \in Objs : Present(u, o) => Present(csd, o)
    BY <2>2 DEF Present, Loaded
  <2>4. ~Present(u, Obj(p, "rs"))
    <3>1. Obj(p, "rs") \in Objs /\ Obj(p, "rs")[4] = "rs"
      BY <1>2 DEF Things
    <3> QED BY <2>2, <3>1, PresentIs, ZenonT(30)
  <2> QED BY <1>5, <2>2, <2>3, <2>4
<1>6. CASE flag \in {"in", "out"}
  <2>1. u = NsDelete(csd, Obj(p, flag)) /\ Obj(p, flag) \in csd.mem
    BY <1>1, <1>6 DEF Undo, OwnInv
  <2>2. /\ TablesOK(u) /\ u.mem = csd.mem \ {Obj(p, flag)} /\ u.rset = csd.rset /\ u.prog = csd.prog
        /\ u.wild = csd.wild
    BY <1>1, <2>1, NsDeleteIs, SMT
  <2>3. \A o \in Objs : Present(u, o) => Present(csd, o)
    BY <2>2 DEF Present, Loaded
  <2>4. ~Present(u, Obj(p, flag))
    <3>1. Obj(p, flag) \in Objs /\ Obj(p, flag)[4] = flag
      BY <1>2, <1>6 DEF Things
    <3>2. Present(u, Obj(p, flag)) <=> Obj(p, flag) \in u.mem
      BY <1>6, <2>2, <3>1, PresentIs
    <3> QED BY <2>2, <3>2
  <2> QED BY <1>6, <2>2, <2>3, <2>4
<1> QED BY <1>1, <1>3, <1>4, <1>5, <1>6

\* A command of the cleanup.
LEMMA TakeDownKeeps ==
    ASSUME AppType, DevInv, NEW p \in Procs, NEW flag \in Held(p) \ {"fd"}, NEW stop,
           stop => flag \in {"act", "prog"}, Pc(p) \in {"clean", "release"}, TakeDown(p, flag, stop)
    PROVE  DevInv'
<1>1. /\ TablesInv /\ ExeInv /\ NoWildAccess /\ adrift \in BOOLEAN /\ TablesOK(csd) /\ OwnInv(p)
      /\ HeldOK(Kind(p), app[p])
  BY DEF DevInv, TablesInv, ExeInv
<1>2. PICK u : u = Undo(p, flag)
  OBVIOUS
<1>3. /\ TablesOK(u) /\ u.wild = csd.wild
      /\ \A o \in Objs : Present(u, o) => Present(csd, o) /\ o # Obj(p, flag)
      /\ \A o \in csd.mem : o # Obj(p, flag) => o \in u.mem
      /\ flag \in {"act", "prog"} => u.mem = csd.mem
      /\ \A s \in Slots : s # Slot(p) => u.prog[s] = csd.prog[s]
  BY <1>1, <1>2, UndoIs, SMT
<1>4. mix' = mix /\ UNCHANGED <<exe, adrift>>
  BY DEF TakeDown
<1>5. \/ csd' = u /\ Goto(p, Pc(p), Held(p) \ {flag}) /\ excused' = excused
      \/ csd' = csd /\ Goto(p, Pc(p), Held(p) \ {flag}) /\ excused' = excused \cup {Obj(p, flag)}
      \/ /\ csd' \in {csd, u} /\ Goto(p, "clean", Held(p)) /\ excused' = excused
         /\ flag \in {"act", "prog"}
  BY <1>2 DEF TakeDown
<1>6. csd' = csd \/ csd' = u
  BY <1>5
<1>7. excused \subseteq excused'
  BY <1>5
<1>8. /\ Held(p) \in SUBSET Flags /\ Held(p) \ {flag} \in SUBSET Flags /\ Pc(p) \in Pcs /\ "clean" \in Pcs
  BY DEF AppType, App, Held, Pcs
<1>9. /\ \A q \in Procs \ {p} : app'[q] = app[q]
      /\ Same(app[p], app'[p]) /\ app'[p].pc \in {"clean", "release"}
      /\ \/ /\ app'[p].held = Held(p) \ {flag}
            /\ \/ csd' = u
               \/ csd' = csd /\ excused' = excused \cup {Obj(p, flag)}
         \/ app'[p].held = Held(p) /\ flag \in {"act", "prog"}
  <2>1. ASSUME Goto(p, Pc(p), Held(p) \ {flag})
        PROVE  /\ \A q \in Procs \ {p} : app'[q] = app[q]
               /\ Same(app[p], app'[p]) /\ app'[p].pc \in {"clean", "release"} /\ app'[p].held = Held(p) \ {flag}
    BY <2>1, <1>8, GotoIs
  <2>2. ASSUME Goto(p, "clean", Held(p))
        PROVE  /\ \A q \in Procs \ {p} : app'[q] = app[q]
               /\ Same(app[p], app'[p]) /\ app'[p].pc \in {"clean", "release"} /\ app'[p].held = Held(p)
    BY <2>2, <1>8, GotoIs
  <2> QED BY <1>5, <2>1, <2>2
<1>10. Kind(p) # "elsewhere"
  BY <1>1 DEF HeldOK, Held
<1>11. HeldOK(Kind(p), app'[p])
  BY <1>9, <1>10 DEF HeldOK, Working
<1>12. \A f \in Things : Obj(p, f)' = Obj(p, f)
  BY <1>9 DEF Obj, Same
<1>13. SlotInv(p)'
  BY <1>9 DEF SlotInv, Pc
<1>14. \A o \in Objs : Present(csd', o) => Present(csd, o)
  BY <1>3, <1>6
<1>15. OwnInv(p)'
  <2>1. ASSUME NEW f \in {"in", "out"}, f \in app'[p].held PROVE Obj(p, f)' \in csd'.mem
    <3>1. f \in Held(p) /\ Obj(p, f) \in csd.mem
      BY <2>1, <1>1, <1>9 DEF OwnInv
    <3>2. CASE flag \in {"act", "prog"}
      BY <3>1, <3>2, <1>3, <1>6, <1>12 DEF Things
    <3>3. CASE flag \notin {"act", "prog"}
      <4>1. f # flag
        BY <2>1, <3>3, <1>9
      <4>2. Obj(p, f) # Obj(p, flag)
        BY <4>1, SMT DEF Obj
      <4> QED BY <3>1, <4>2, <1>3, <1>6, <1>12 DEF Things
    <3> QED BY <3>2, <3>3
  <2>2. ASSUME NEW o \in Objs, o[1] = p, o[2] = app[p].run, Present(csd', o)
        PROVE  (o[3] = app[p].part /\ o[4] \in app'[p].held) \/ o \in excused'
    <3>1. (o[3] = app[p].part /\ o[4] \in Held(p)) \/ o \in excused
      BY <2>2, <1>1, <1>14 DEF OwnInv
    <3>2. CASE o # Obj(p, flag)
      <4>1. o[3] = app[p].part => o[4] # flag
        BY <2>2, <3>2, SMT DEF Objs, Obj
      <4> QED BY <3>1, <4>1, <1>7, <1>9
    <3>3. CASE o = Obj(p, flag)
      <4>1. csd' # u
        BY <3>3, <2>2, <1>3
      <4> QED BY <3>1, <3>3, <4>1, <1>7, <1>9
    <3> QED BY <3>2, <3>3
  <2> QED BY <2>1, <2>2, <1>9 DEF OwnInv, Held, Same
<1>16. TablesInv'
  <2>1. TablesOK(csd')
    BY <1>1, <1>3, <1>6
  <2>2. Slot(p)[1] = p /\ Obj(p, flag)[1] = p
    BY DEF Slot, Obj
  <2>3. \A o \in csd.mem : o[1] # p => o \in csd'.mem
    BY <2>2, <1>3, <1>6
  <2>4. \A s \in Slots : s[1] # p => csd'.prog[s] = csd.prog[s]
    BY <2>2, <1>3, <1>6
  <2> QED BY <1>1, <1>4, <1>7, <1>9, <1>11, <1>13, <1>14, <1>15, <2>1, <2>3, <2>4, TablesKeep, ZenonT(30) DEF Same
<1>17. ExeInv'
  <2>1. app'[p].pc # "wait" /\ Pc(p) # "wait"
    BY <1>9
  <2> QED BY <1>1, <1>4, <1>9, <2>1, ExeKeeps
<1>18. NoWildAccess'
  BY <1>1, <1>3, <1>4, <1>6 DEF NoWildAccess
<1> QED BY <1>16, <1>17, <1>18 DEF DevInv

-----------------------------------------------------------------------------
(* The device finishes a request; an application is killed.                 *)

\* The memories and the program of request r are there.
Intact(t, r) ==
    r.cache \subseteq t.mem /\ t.prog[r.slot] # NoProgram /\ t.prog[r.slot].by = r.by

\* A request that is done changes nothing in the tables, and its accesses were right if
\* its memories and its program are still there.
LEMMA ExecuteDoneIs ==
    ASSUME NEW t, TablesOK(t), NEW r, NEW u, u = ExecuteDone(t, r)
    PROVE  /\ TablesOK(u) /\ u.mem = t.mem /\ u.rset = t.rset /\ u.prog = t.prog
           /\ Intact(t, r) => u.wild = t.wild
<1> DEFINE w == t.wild \/ ~(r.cache \subseteq t.mem) \/ t.prog[r.slot] = NoProgram
                \/ t.prog[r.slot].by # r.by
<1>0. t \in Tables /\ t.wild \in BOOLEAN
  BY TablesFields DEF TablesOK
<1>1. u = [t EXCEPT !.wild = w]
  BY DEF ExecuteDone
<1>2. w \in BOOLEAN
  OBVIOUS
<1>3. Intact(t, r) => w = t.wild
  BY <1>0 DEF Intact
<1> HIDE DEF w
<1>4. u.mem = t.mem /\ u.rset = t.rset /\ u.prog = t.prog /\ u.wild = w
  BY <1>0, <1>1 DEF Tables
<1>5. u \in Tables
  BY <1>0, <1>1, <1>2 DEF Tables
<1> QED BY <1>3, <1>4, <1>5 DEF TablesOK

\* The end of an execution keeps the invariant, however it ends.
LEMMA DoneKeepsDev ==
    ASSUME AppType, DevInv, NEW e \in exe, ExecuteDoneFor(e)
    PROVE  DevInv'
<1>1. /\ TablesInv /\ ExeInv /\ NoWildAccess /\ adrift \in BOOLEAN /\ TablesOK(csd)
      /\ e.of \in Owners /\ e = Exec(e.of)
  BY DEF DevInv, TablesInv, ExeInv
<1>2. PICK p \in Procs : p = e.of[1]
  BY <1>1, SMT DEF Owners
<1>3. /\ exe' = exe \ {e} /\ csd' = ExecuteDone(csd, e.req) /\ mix' = mix
      /\ UNCHANGED <<excused, adrift>>
  BY DEF ExecuteDoneFor
<1>4. /\ Pc(p) = "wait" /\ Mine(p) = e.of => Goto(p, "read", Held(p)) \/ Goto(p, "clean", Held(p))
      /\ ~(Pc(p) = "wait" /\ Mine(p) = e.of) => app' = app
  BY <1>2 DEF ExecuteDoneFor
<1>5. /\ TablesOK(csd') /\ csd'.mem = csd.mem /\ csd'.rset = csd.rset /\ csd'.prog = csd.prog
      /\ Intact(csd, e.req) => csd'.wild = csd.wild
  <2>1. PICK r, u : r = e.req /\ u = ExecuteDone(csd, r)
    OBVIOUS
  <2>2. /\ TablesOK(u) /\ u.mem = csd.mem /\ u.rset = csd.rset /\ u.prog = csd.prog
        /\ Intact(csd, r) => u.wild = csd.wild
    BY <1>1, <2>1, ExecuteDoneIs, ZenonT(30)
  <2> QED BY <1>3, <2>1, <2>2
<1>6. \A o \in Objs : Present(csd', o) <=> Present(csd, o)
  BY <1>5 DEF Present, Loaded
<1>7. HeldOK(Kind(p), app[p]) /\ SlotInv(p) /\ OwnInv(p) /\ Held(p) \in SUBSET Flags
  BY <1>1 DEF TablesInv, AppType, App, Held
<1>8. /\ \A q \in Procs \ {p} : app'[q] = app[q]
      /\ app'[p].run = app[p].run /\ app'[p].part = app[p].part /\ app'[p].held = app[p].held
      /\ \/ app'[p] = app[p] /\ ~(Pc(p) = "wait" /\ Mine(p) = e.of)
         \/ Pc(p) = "wait" /\ app'[p].pc \in {"read", "clean"}
  <2>1. CASE Pc(p) = "wait" /\ Mine(p) = e.of
    <3>1. "read" \in Pcs /\ "clean" \in Pcs
      BY DEF Pcs
    <3>2. PICK pc \in {"read", "clean"} : Goto(p, pc, Held(p))
      BY <1>4, <2>1
    <3>3. /\ \A q \in Procs \ {p} : app'[q] = app[q]
          /\ Same(app[p], app'[p]) /\ app'[p].pc = pc /\ app'[p].held = Held(p)
      <4>1. pc \in Pcs
        BY <3>1
      <4> QED BY <1>7, <3>2, <4>1, GotoIs
    <3> QED BY <2>1, <3>3 DEF Held, Same
  <2>2. CASE ~(Pc(p) = "wait" /\ Mine(p) = e.of)
    BY <1>4, <2>2
  <2> QED BY <2>1, <2>2
<1>9. HeldOK(Kind(p), app'[p])
  BY <1>7, <1>8 DEF HeldOK, Pc, Working
<1>10. /\ Slot(p)' = Slot(p) /\ Mine(p)' = Mine(p) /\ \A f \in Things : Obj(p, f)' = Obj(p, f)
  BY <1>8 DEF Slot, Mine, Obj
<1>11. SlotInv(p)'
  BY <1>5, <1>7, <1>8, <1>10 DEF SlotInv, Pc
<1>12. OwnInv(p)'
  BY <1>3, <1>5, <1>6, <1>7, <1>8, <1>10 DEF OwnInv, Held, Things
<1>13. TablesInv'
  BY <1>1, <1>3, <1>5, <1>6, <1>8, <1>9, <1>11, <1>12, TablesKeep
<1>14. ExeInv'
  <2>1. ASSUME NEW q \in Procs, Pc(q)' = "wait" PROVE Exec(Mine(q)') \in exe'
    <3>1. app'[q] = app[q] /\ ~(q = p /\ Mine(p) = e.of)
      BY <2>1, <1>8 DEF Pc
    <3>2. Pc(q) = "wait" /\ Mine(q)' = Mine(q)
      BY <2>1, <3>1 DEF Pc, Mine
    <3>3. Exec(Mine(q)) \in exe
      BY <1>1, <3>2 DEF ExeInv
    <3>4. Mine(q)[1] = q /\ Exec(Mine(q)).of = Mine(q)
      BY DEF Mine, Exec
    <3>5. Exec(Mine(q)) # e
      BY <1>2, <3>1, <3>4
    <3> QED BY <1>3, <3>2, <3>3, <3>5
  <2>2. ASSUME ~adrift, NEW g \in exe' PROVE Pc(g.of[1])' = "wait" /\ g.of = Mine(g.of[1])'
    <3>1. /\ g \in exe /\ g # e /\ Pc(g.of[1]) = "wait" /\ g.of = Mine(g.of[1])
          /\ g.of \in Owners /\ g = Exec(g.of)
      BY <2>2, <1>1, <1>3 DEF ExeInv
    <3>2. /\ Pc(p) = "wait" /\ e.of = Mine(p)
      BY <2>2, <1>1, <1>2 DEF ExeInv
    <3>3. g.of[1] # p
      BY <3>1, <3>2, <1>1
    <3>4. g.of[1] \in Procs
      BY <3>1, SMT DEF Owners
    <3>5. app'[g.of[1]] = app[g.of[1]]
      BY <3>3, <3>4, <1>8
    <3> QED BY <3>1, <3>5 DEF Pc, Mine
  <2>3. \A g \in exe' : g.of \in Owners /\ g = Exec(g.of)
    BY <1>1, <1>3 DEF ExeInv
  <2> QED BY <1>1, <1>3, <2>1, <2>2, <2>3 DEF ExeInv, Exec
<1>15. NoWildAccess'
  <2> SUFFICES ASSUME ~adrift PROVE csd'.wild = csd.wild
    BY <1>1, <1>3 DEF NoWildAccess
  <2>1. Pc(p) = "wait" /\ e.of = Mine(p)
    BY <1>1, <1>2 DEF ExeInv
  <2>2. "in" \in Held(p) /\ "out" \in Held(p)
    BY <2>1, <1>7 DEF HeldOK, Pc, Held, Working
  <2>3. Mems(p) \subseteq csd.mem
    BY <2>2, <1>7 DEF OwnInv, Mems
  <2>4. e.req = [slot |-> <<e.of[1], e.of[3]>>, by |-> e.of, cache |-> MemsOf(e.of)]
    BY <1>1, SMT DEF Exec
  <2>5. MemsOf(Mine(p)) = Mems(p) /\ <<Mine(p)[1], Mine(p)[3]>> = Slot(p)
    BY ObjIs DEF Mine, Slot, Things
  <2>6. e.req.slot = Slot(p) /\ e.req.by = Mine(p) /\ e.req.cache = Mems(p)
    BY <2>1, <2>4, <2>5, SMT
  <2>7. csd.prog[Slot(p)] # NoProgram /\ csd.prog[Slot(p)].by = Mine(p)
    BY <2>1, <1>7 DEF SlotInv
  <2> QED BY <1>5, <2>3, <2>6, <2>7 DEF Intact
<1> QED BY <1>13, <1>14, <1>15 DEF DevInv

\* A new run of an application holds nothing.
LEMMA NewAppHolds ==
    ASSUME NEW k \in Kinds, NEW run
    PROVE  /\ HeldOK(k, NewApp(run, k)) /\ NewApp(run, k).held = {} /\ NewApp(run, k).run = run
           /\ NewApp(run, k).pc \in {"exit", "call", "open"}
<1> DEFINE a == NewApp(run, k)
<1>1. /\ a.pc = CASE k = "none" -> "exit" [] k = "elsewhere" -> "call" [] OTHER -> "open"
      /\ a.held = {} /\ a.run = run
  BY DEF NewApp
<1>2. a.pc = IF k = "none" THEN "exit" ELSE IF k = "elsewhere" THEN "call" ELSE "open"
  BY <1>1
<1> HIDE DEF a
<1>3. HeldOK(k, a) /\ a.pc \in {"exit", "call", "open"}
  BY <1>1, <1>2 DEF HeldOK, Working
<1> QED BY <1>1, <1>3 DEF a

\* What a run that was killed left behind is not the new run's.
LEMMA KilledKeepsDev ==
    ASSUME AppType, DevInv, NEW p \in Procs, Killed(p)
    PROVE  DevInv'
<1>1. /\ TablesInv /\ ExeInv /\ NoWildAccess /\ adrift \in BOOLEAN /\ TablesOK(csd)
      /\ app \in [Procs -> App] /\ app[p].run \in Nat /\ mix \in Mixes
  BY SMT DEF DevInv, TablesInv, ExeInv, AppType, App
<1>2. /\ app' = [app EXCEPT ![p] = NewApp(app[p].run + 1, Kind(p))]
      /\ adrift' = (adrift \/ Pc(p) = "wait") /\ UNCHANGED <<mix, csd, exe, excused>>
  BY DEF Killed
<1>3. Kind(p) \in Kinds
  BY <1>1, OffloadConstants DEF Kind, Kinds
<1>4. /\ HeldOK(Kind(p), app'[p]) /\ app'[p].held = {} /\ app'[p].run = app[p].run + 1
      /\ app'[p].pc \in {"exit", "call", "open"}
  BY <1>1, <1>2, <1>3, NewAppHolds
<1>5. \A q \in Procs \ {p} : app'[q] = app[q]
  BY <1>1, <1>2
<1>6. app[p].run <= app[p].run + 1 /\ \A n \in Nat : n <= app[p].run => n <= app[p].run + 1 /\ n # app[p].run + 1
  BY <1>1, SMT
<1>7. \A o \in Objs : o[1] \in Procs /\ o[2] \in Nat
  BY SMT DEF Objs
<1>8. \A o \in Objs : Present(csd, o) => o[2] <= app[o[1]].run
  BY <1>1 DEF TablesInv
<1>9. \A o \in Objs : Present(csd, o) => o[2] <= app'[o[1]].run
  <2> TAKE o \in Objs
  <2>1. CASE o[1] = p
    BY <2>1, <1>4, <1>6, <1>7, <1>8
  <2>2. CASE o[1] # p
    BY <2>2, <1>5, <1>7, <1>8
  <2> QED BY <2>1, <2>2
<1>10. \A o \in Objs : o[1] = p /\ o[2] = app'[p].run => ~Present(csd, o)
  BY <1>4, <1>6, <1>7, <1>8
<1>11. SlotInv(p)' /\ OwnInv(p)'
  BY <1>2, <1>4, <1>10 DEF SlotInv, OwnInv, Pc, Held
<1>12. ASSUME NEW q \in Procs, q # p PROVE HeldOK(Kind(q)', app'[q]) /\ SlotInv(q)' /\ OwnInv(q)'
  <2>1. app'[q] = app[q] /\ HeldOK(Kind(q), app[q]) /\ SlotInv(q) /\ OwnInv(q)
    BY <1>1, <1>5, <1>12 DEF TablesInv
  <2> QED BY <2>1, <1>2 DEF SlotInv, OwnInv, Kind, Pc, Held, Slot, Mine, Obj
<1>13. TablesInv'
  <2>1. Kind(p)' = Kind(p)
    BY <1>2 DEF Kind
  <2> QED BY <1>1, <1>2, <1>4, <1>9, <1>11, <1>12, <2>1 DEF TablesInv
<1>14. ExeInv'
  <2>1. adrift' \in BOOLEAN /\ (adrift => adrift') /\ (Pc(p) = "wait" => adrift')
    BY <1>2
  <2> QED BY <1>1, <1>2, <1>4, <1>5, <2>1, ExeKeeps
<1>15. NoWildAccess'
  BY <1>1, <1>2 DEF NoWildAccess
<1> QED BY <1>13, <1>14, <1>15 DEF DevInv

-----------------------------------------------------------------------------
(* The invariant and what follows from it.                                  *)

\* It holds at the start.
LEMMA InitDev ==
    ASSUME Init PROVE DevInv
<1>1. mix \in Mixes /\ csd = NoTables /\ exe = {} /\ adrift = FALSE /\ \A p \in Procs : Kind(p) \in Kinds
  BY OffloadConstants DEF Init, Kinds, Kind
<1>2. \A p \in Procs : app[p] = NewApp(1, Kind(p))
  BY DEF Init, Kind
<1>3. /\ csd.mem = {} /\ csd.rset = {} /\ csd.prog = [s \in Slots |-> NoProgram] /\ csd.wild = FALSE
  BY <1>1 DEF NoTables
<1>4. csd \in Tables
  <2>1. csd.prog \in [Slots -> Program \cup {NoProgram}]
    BY <1>3
  <2> QED BY <1>1, <1>3, <2>1 DEF Tables, NoTables
<1>5. TablesOK(csd)
  BY <1>3, <1>4 DEF TablesOK
<1>6. \A o \in Objs : ~Present(csd, o)
  BY <1>3, SlotOfIs DEF Present, Loaded
<1>7. \A p \in Procs : /\ HeldOK(Kind(p), app[p]) /\ app[p].held = {}
                       /\ app[p].pc \in {"exit", "call", "open"}
  <2> TAKE p \in Procs
  <2>1. Kind(p) \in Kinds /\ app[p] = NewApp(1, Kind(p))
    BY <1>1, <1>2
  <2>2. PICK k \in Kinds : k = Kind(p)
    BY <2>1
  <2>4. PICK a : a = NewApp(1, k)
    OBVIOUS
  <2>3. HeldOK(k, a) /\ a.held = {} /\ a.pc \in {"exit", "call", "open"}
    BY <2>4, NewAppHolds
  <2> QED BY <2>1, <2>2, <2>3, <2>4
<1>8. TablesInv
  BY <1>5, <1>6, <1>7 DEF TablesInv, SlotInv, OwnInv, Pc, Held
<1>9. ExeInv /\ NoWildAccess
  BY <1>1, <1>3, <1>7 DEF ExeInv, NoWildAccess, Pc
<1> QED BY <1>8, <1>9 DEF DevInv

\* Every step of an application keeps it.
LEMMA AppStepDev ==
    ASSUME AppType, DevInv, NEW p \in Procs, AppStep(p)
    PROVE  DevInv'
<1>1. CASE DeviceStep(p)
  <2>1. ASSUME Clean(p) \/ Release(p) PROVE DevInv'
    <3>1. CASE Clean(p)
      <4>1. PICK flag \in Held(p) \ {"fd"} : TakeDown(p, flag, FALSE)
        BY <3>1 DEF Clean
      <4>2. Pc(p) \in {"clean", "release"}
        BY <3>1 DEF Clean
      <4> QED BY <4>1, <4>2, TakeDownKeeps
    <3>2. CASE Release(p)
      <4>1. PICK flag \in Held(p) \ {"fd"} : TakeDown(p, flag, flag \in {"act", "prog"})
        BY <3>2 DEF Release
      <4>2. Pc(p) \in {"clean", "release"}
        BY <3>2 DEF Release
      <4> QED BY <4>1, <4>2, TakeDownKeeps
    <3> QED BY <2>1, <3>1, <3>2
  <2>2. ASSUME NEW d, \/ Transfer(p, "write", "writing", "in", d, "range")
                      \/ Transfer(p, "read", "reading", "out", d, ReadTo(p))
        PROVE  DevInv'
    BY <2>2, TransferQuiet
  <2>3. ASSUME Open(p, "exit") \/ Open(p, "clean") PROVE DevInv'
    BY <2>3, OpenQuiet
  <2>4. ASSUME SetUp(p, "copy") \/ SetUp(p, "write") PROVE DevInv'
    BY <2>4, SetUpKeeps
  <2> QED BY <1>1, <2>1, <2>2, <2>3, <2>4, CopyKeeps, ExecuteKeeps, TimeoutQuiet, ZenonT(30) DEF DeviceStep
<1>2. CASE ForwardStep(p)
  BY <1>2, HostQuiet, CallQuiet, AnsweredQuiet DEF ForwardStep
<1>3. CASE EndStep(p)
  <2>1. ASSUME NEW from \in {"clean", "release"}, NEW to \in {"exit", "call", "compare"},
               Close(p, from, to), to # "exit" => Kind(p) # "elsewhere"
        PROVE  DevInv'
    BY <2>1, CloseQuiet
  <2>2. ASSUME NEW from \in {"passed", "stored"}, NEW to \in {"clean", "exit"}, Succeed(p, from, to),
               to = "exit" => from = "passed" /\ Kind(p) \in {"full", "elsewhere"}
        PROVE  DevInv'
    BY <2>2, SucceedQuiet
  <2> QED BY <1>3, <2>1, <2>2 DEF EndStep
<1> QED BY <1>1, <1>2, <1>3, AppStepCases

\* Every step of the system keeps the invariant.
LEMMA NextDev ==
    ASSUME AppType, DevInv, [Next]_vars PROVE DevInv'
<1>1. ASSUME UNCHANGED <<mix, app, csd, exe, excused, adrift>> PROVE DevInv'
  BY <1>1 DEF DevInv, TablesInv, ExeInv, NoWildAccess, SlotInv, OwnInv, Kind, Pc, Held, Slot, Mine, Obj
<1>2. CASE Server \/ ServerFails \/ UNCHANGED vars
  BY <1>1, <1>2 DEF Server, ServerFails, vars, appVars
<1> QED BY <1>2, AppStepDev, KilledKeepsDev, DoneKeepsDev DEF Next

\* What is on the device is accounted for by its owner, and what the device works on is
\* there, however the applications and the device interleave, whatever fails, and whoever is
\* killed and started again.
THEOREM DeviceInvariant == Spec => []DevInv
<1>1. Inv => AppType
  BY DEF Inv
<1> QED BY <1>1, InitDev, NextDev, OffloadInvariant, PTL DEF Spec

\* An application that has ended, or waits for the remote HPU, has left nothing on the
\* device but what a failed command created unseen or did not delete.
THEOREM NothingIsLeft == Spec => []NothingLeftBehind
<1>1. AppType /\ DevInv => NothingLeftBehind
  <2> SUFFICES ASSUME AppType, DevInv, NEW p \in Procs, Pc(p) \in {"exit", "call", "calling"}
               PROVE  Held(p) = {} /\ Owned(p) \subseteq excused
    BY DEF NothingLeftBehind
  <2>1. HeldOK(Kind(p), app[p]) /\ OwnInv(p) /\ TablesOK(csd)
    BY DEF DevInv, TablesInv
  <2>2. Held(p) = {}
    BY <2>1 DEF HeldOK, Held, Pc
  <2>3. \A o \in Objs : o[1] = p /\ o[2] = app[p].run /\ Present(csd, o) => o \in excused
    BY <2>1, <2>2 DEF OwnInv
  <2>4. csd.mem \in SUBSET MemIds /\ csd.rset \in SUBSET [id : RsetIds, cache : SUBSET MemIds]
    BY <2>1, TablesFields DEF TablesOK
  <2>5. MemIds \subseteq Objs /\ RsetIds \subseteq Objs
    BY SMT DEF MemIds, RsetIds, Objs, Things
  <2>6. ASSUME NEW o \in csd.mem \cup {r.id : r \in csd.rset}, o[1] = p, o[2] = app[p].run
        PROVE  o \in excused
    <3>1. o \in Objs /\ Present(csd, o)
      BY <2>4, <2>5 DEF Present
    <3> QED BY <2>3, <2>6, <3>1
  <2>7. ASSUME NEW s \in Slots, csd.prog[s] # NoProgram, csd.prog[s].by = <<p, app[p].run, s[2]>>
        PROVE  <<p, app[p].run, s[2], "prog">> \in excused
    <3>1. PICK o : o = <<p, app[p].run, s[2], "prog">>
      OBVIOUS
    <3>2. s = <<s[1], s[2]>> /\ s[2] \in Parts
      BY OffloadConstants, SMT DEF Parts
    <3>3. s[1] = p
      BY <2>1, <2>7, SMT DEF TablesOK
    <3>4. app[p].run \in 1 .. MaxRuns
      BY DEF AppType, App
    <3>5. /\ o \in Objs /\ o[1] = p /\ o[2] = app[p].run /\ o[4] = "prog"
          /\ <<o[1], o[3]>> = s /\ <<o[1], o[2], o[3]>> = <<p, app[p].run, s[2]>>
      BY <3>1, <3>2, <3>3, <3>4, SMT DEF Objs, Things
    <3>6. Present(csd, o)
      BY <2>7, <3>5 DEF Present, Loaded
    <3> QED BY <2>3, <3>1, <3>5, <3>6
  <2> QED BY <2>2, <2>6, <2>7 DEF Owned
<1>2. Inv => AppType
  BY DEF Inv
<1> QED BY <1>1, <1>2, OffloadInvariant, DeviceInvariant, PTL

\* Unless an application gave up on a request the device still executed, the device never
\* touches memory or a program that is gone, and nothing is freed twice.
THEOREM NothingIsWild == Spec => []NoWildAccess
<1>1. DevInv => NoWildAccess
  BY DEF DevInv
<1> QED BY <1>1, DeviceInvariant, PTL

\* What executes for an application is its own program over its own memories, and its slot
\* is free when it loads, whatever the others and its own earlier runs left there.
THEOREM EachRunsItsOwn == Spec => []RunsItsOwn
<1>1. AppType /\ DevInv => RunsItsOwn
  <2> SUFFICES ASSUME AppType, DevInv, NEW p \in Procs
               PROVE  /\ Pc(p) = "wait" =>
                            \E e \in exe : e.of = Mine(p) /\ e.req.by = Mine(p) /\ e.req.cache = Mems(p)
                      /\ Pc(p) = "load" => LoadFits(csd, Slot(p))
    BY DEF RunsItsOwn
  <2>1. ASSUME Pc(p) = "wait"
        PROVE  \E e \in exe : e.of = Mine(p) /\ e.req.by = Mine(p) /\ e.req.cache = Mems(p)
    <3>1. PICK e \in exe : e = Exec(Mine(p))
      BY <2>1 DEF DevInv, ExeInv
    <3>2. MemsOf(Mine(p)) = Mems(p)
      BY ObjIs DEF Things
    <3>3. e.of = Mine(p) /\ e.req.by = Mine(p) /\ e.req.cache = Mems(p)
      BY <3>1, <3>2, SMT DEF Exec
    <3> QED BY <3>3
  <2>2. Pc(p) = "load" => LoadFits(csd, Slot(p))
    BY DEF DevInv, TablesInv, SlotInv, LoadFits, LookupProgram
  <2> QED BY <2>1, <2>2
<1>2. Inv => AppType
  BY DEF Inv
<1> QED BY <1>1, <1>2, OffloadInvariant, DeviceInvariant, PTL

=============================================================================
