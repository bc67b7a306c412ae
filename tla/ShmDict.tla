------------------------------ MODULE ShmDict ------------------------------
(***************************************************************************)
(* include/iword.c: the dictionary in System V shared memory.              *)
(*                                                                         *)
(* A loader (iwordctl load, or a binding's load) removes the segment bound *)
(* to iword_key, creates a new one under the same key and copies the hash  *)
(* list into it.  A reader (iword_seek or iword_map, in any process) looks *)
(* the key up, attaches the segment, looks hashes up in it (iword_seekhash)*)
(* and detaches.  Nothing locks the key or the segment.                    *)
(*                                                                         *)
(* The kernel's part, as sys/shm.h is used here: a new segment is zero; a  *)
(* removed one loses its key at once but lives on while it is attached,    *)
(* and may be attached by its id until then; a process that ends detaches. *)
(*                                                                         *)
(* A segment is an array of cells, the 64-bit words of the list.  A cell   *)
(* holds the dictionary it was copied from, or None while it is zero.      *)
(* memcpy gives no order to its stores, so a reader may find any part of a *)
(* copy done.                                                              *)
(*                                                                         *)
(* The list begins with 32-bit words, two to a cell: word 0 is the block   *)
(* count, word j the header of block j, the place of its hashes and their  *)
(* number; then come the hashes and the mask.  iword_makelist writes the   *)
(* headers up to that of the last block with a hash in it (iword.c:283);   *)
(* those behind it are what malloc found there.                            *)
(***************************************************************************)
EXTENDS Naturals, Sequences

CONSTANTS
  Loaders, Readers,   \* the processes
  Dicts,              \* the dictionaries that are loaded
  Size,               \* the cells each of them takes
  Blocks,             \* its block count
  Reached,            \* the blocks of it whose header was written
  Far,                \* the last place that a word read as a header can lead to
  None,
  MaxLoads            \* loads in a behaviour

ASSUME ShmAssumption ==
  /\ Loaders \cap Readers = {} /\ None \notin Dicts
  /\ Size \in [Dicts -> Nat] /\ Blocks \in [Dicts -> Nat] /\ Reached \in [Dicts -> Nat]
  /\ \A d \in Dicts :
       Reached[d] <= Blocks[d] /\ Blocks[d] \div 2 + 2 <= Size[d] /\ Size[d] <= Far
  /\ Far \in Nat
  /\ MaxLoads \in Nat /\ None \notin Nat

VARIABLES
  key,                \* the segment bound to iword_key, or None
  made,               \* for each segment created, in order, the dictionary it was sized for
  cell,               \* the cells of each segment
  pc,                 \* where each process is
  id,                 \* the shmid it has looked up
  att,                \* the segment it has attached
  want,               \* loaders: the dictionary to load; None for iword_unload
  left,               \* loaders: the cells memcpy has yet to write
  loads,              \* loads begun
  alone,              \* no two loaders have been at work at once so far
  count,              \* readers: whose block count this lookup goes by
  reach,              \* readers: the last place this lookup's header leads to
  got,                \* readers: what they have read in this call
  settled             \* readers: the dictionary in force when the call began

segVars    == <<key, made, cell>>
loaderVars == <<want, left, loads, alone>>
readerVars == <<count, reach, got, settled>>
vars == <<key, made, cell, pc, id, att, want, left, loads, alone, count, reach, got, settled>>

Procs == Loaders \union Readers

Segs == 1 .. Len(made)

Cells(s) == 1 .. Size[made[s]]

Exists(s) == s = key \/ \E p \in Procs : att[p] = s

\* The segment holds the whole of the dictionary it was made for.
Complete(s) == \A k \in Cells(s) : cell[s][k] = made[s]

\* The dictionaries that a set of cell values is from.
Named(V) == V \ {None}

Init ==
  /\ key = None
  /\ made = <<>> /\ cell = <<>>
  /\ pc  = [p \in Procs |-> "idle"]
  /\ id  = [p \in Procs |-> None]
  /\ att = [p \in Procs |-> None]
  /\ want = [l \in Loaders |-> None]
  /\ left = [l \in Loaders |-> {}]
  /\ loads = 0 /\ alone = TRUE
  /\ count = [r \in Readers |-> None]
  /\ reach = [r \in Readers |-> 0]
  /\ got = [r \in Readers |-> {}]
  /\ settled = [r \in Readers |-> None]

Goto(p, where) == pc' = [pc EXCEPT ![p] = where]

\* A loader's call ends, and its locals and its mapping with it.
Return(l) ==
  /\ Goto(l, "idle")
  /\ id' = [id EXCEPT ![l] = None]
  /\ att' = [att EXCEPT ![l] = None]
  /\ want' = [want EXCEPT ![l] = None]
  /\ left' = [left EXCEPT ![l] = {}]
  /\ UNCHANGED <<loads, alone>>

-----------------------------------------------------------------------------
(* iword_unload, and iword_shmget that begins with it.                     *)

AllIdle == \A l \in Loaders : pc[l] = "idle"

Load(l, d) ==
  /\ pc[l] = "idle" /\ loads < MaxLoads
  /\ want' = [want EXCEPT ![l] = d]
  /\ loads' = loads + 1
  /\ alone' = (alone /\ AllIdle)
  /\ Goto(l, "lookup")
  /\ UNCHANGED <<segVars, id, att, left, readerVars>>

Unload(l) ==
  /\ pc[l] = "idle"
  /\ alone' = (alone /\ AllIdle)
  /\ Goto(l, "lookup")
  /\ UNCHANGED <<segVars, id, att, want, left, loads, readerVars>>

\* iword_unload has returned, whatever it returned.
AfterUnload(l) ==
  IF want[l] = None THEN Return(l)
  ELSE Goto(l, "create") /\ UNCHANGED <<id, att, loaderVars>>

LookupOld(l) ==
  /\ pc[l] = "lookup"
  /\ IF key = None THEN AfterUnload(l)
     ELSE /\ Goto(l, "remove")
          /\ id' = [id EXCEPT ![l] = key]
          /\ UNCHANGED <<att, loaderVars>>
  /\ UNCHANGED <<segVars, readerVars>>

\* Fault: the old segment is left under its key.
RemoveSkipped(l) ==
  /\ pc[l] = "remove"
  /\ AfterUnload(l)
  /\ UNCHANGED <<segVars, readerVars>>

\* shmctl IPC_RMID; an id another loader has removed is refused, and that is
\* not looked at.
RemoveOld(l) ==
  /\ pc[l] = "remove"
  /\ key' = IF key = id[l] THEN None ELSE key
  /\ AfterUnload(l)
  /\ UNCHANGED <<made, cell, readerVars>>

\* shmget IPC_CREAT with the key unbound.
Create(l) ==
  /\ pc[l] = "create" /\ key = None
  /\ made' = Append(made, want[l])
  /\ cell' = Append(cell, [k \in 1 .. Size[want[l]] |-> None])
  /\ key' = Len(made) + 1
  /\ id' = [id EXCEPT ![l] = Len(made) + 1]
  /\ Goto(l, "attach")
  /\ UNCHANGED <<att, loaderVars, readerVars>>

\* Fault: the size of the segment found is not compared.
ReuseSmaller(l) ==
  /\ pc[l] = "create" /\ key # None
  /\ id' = [id EXCEPT ![l] = key]
  /\ Goto(l, "attach")
  /\ UNCHANGED <<segVars, att, loaderVars, readerVars>>

\* shmget IPC_CREAT finds a segment under the key again.  One that is large
\* enough is taken as it is.
Reuse(l) ==
  /\ pc[l] = "create" /\ key # None /\ Size[want[l]] <= Size[made[key]]
  /\ id' = [id EXCEPT ![l] = key]
  /\ Goto(l, "attach")
  /\ UNCHANGED <<segVars, att, loaderVars, readerVars>>

\* shmget finds a smaller one (EINVAL), or the system has no memory left.
CreateFails(l) ==
  /\ pc[l] = "create"
  /\ Return(l)
  /\ UNCHANGED <<segVars, readerVars>>

AttachNew(l) ==
  /\ pc[l] = "attach" /\ Exists(id[l])
  /\ att' = [att EXCEPT ![l] = id[l]]
  /\ left' = [left EXCEPT ![l] = 1 .. Size[want[l]]]
  /\ Goto(l, "copy")
  /\ UNCHANGED <<segVars, id, want, loads, alone, readerVars>>

\* The segment is gone, or the address space is full: it stays as it is.
AttachNewFails(l) ==
  /\ pc[l] = "attach"
  /\ Return(l)
  /\ UNCHANGED <<segVars, readerVars>>

\* Fault: the last word of the list is not copied.
CopyShort(l) ==
  /\ pc[l] = "copy"
  /\ \E k \in left[l] :
       /\ cell' = [cell EXCEPT ![att[l]][k] = want[l]]
       /\ left' = [left EXCEPT ![l] = @ \ {k}]
       /\ Goto(l, IF left[l] \subseteq {k, Size[want[l]]} THEN "detach" ELSE "copy")
  /\ UNCHANGED <<key, made, id, att, want, loads, alone, readerVars>>

\* One cell of memcpy.
Copy(l) ==
  /\ pc[l] = "copy"
  /\ \E k \in left[l] :
       /\ cell' = [cell EXCEPT ![att[l]][k] = want[l]]
       /\ left' = [left EXCEPT ![l] = @ \ {k}]
       /\ Goto(l, IF left[l] = {k} THEN "detach" ELSE "copy")
  /\ UNCHANGED <<key, made, id, att, want, loads, alone, readerVars>>

\* shmdt, and iword_shmget returns 0.
Loaded(l) ==
  /\ pc[l] = "detach"
  /\ Return(l)
  /\ UNCHANGED <<segVars, readerVars>>

LoaderCrash(l) ==
  /\ pc[l] # "idle"
  /\ Return(l)
  /\ UNCHANGED <<segVars, readerVars>>

-----------------------------------------------------------------------------
(* iword_alloc, iword_seekhash, iword_free                                 *)

\* The dictionary in force, if there is a whole one.
InForce == IF key # None /\ Complete(key) THEN made[key] ELSE None

\* A reader's call ends, with or without an answer.
Answer(r) ==
  /\ Goto(r, "idle")
  /\ id' = [id EXCEPT ![r] = None]
  /\ att' = [att EXCEPT ![r] = None]
  /\ count' = [count EXCEPT ![r] = None]
  /\ reach' = [reach EXCEPT ![r] = 0]
  /\ got' = [got EXCEPT ![r] = {}]
  /\ settled' = [settled EXCEPT ![r] = None]

\* A call begins: shmget(iword_key, 0, 0).  With no segment it ends at once.
Lookup(r) ==
  /\ pc[r] = "idle" /\ key # None
  /\ id' = [id EXCEPT ![r] = key]
  /\ settled' = [settled EXCEPT ![r] = InForce]
  /\ Goto(r, "attach")
  /\ UNCHANGED <<segVars, att, loaderVars, count, reach, got>>

Attach(r) ==
  /\ pc[r] = "attach" /\ Exists(id[r])
  /\ att' = [att EXCEPT ![r] = id[r]]
  /\ Goto(r, "attached")
  /\ UNCHANGED <<segVars, id, loaderVars, readerVars>>

\* iword_alloc returns -2, and the call finds nothing.
AttachFails(r) ==
  /\ pc[r] = "attach"
  /\ Answer(r)
  /\ UNCHANGED <<segVars, loaderVars>>

\* Another hash is to be looked up, or the call is at its end.
Between(r) == pc[r] \in {"attached", "reading", "outside"}

Mapped(r) == Between(r) \/ pc[r] = "counted"

\* The block count a reader finds now.
Divisor(r) == IF cell[att[r]][1] = None THEN 0 ELSE Blocks[cell[att[r]][1]]

\* `h->a % *ol': the block count is read for every hash.
ReadCount(r) ==
  /\ Between(r) /\ Divisor(r) > 0
  /\ count' = [count EXCEPT ![r] = cell[att[r]][1]]
  /\ reach' = [reach EXCEPT ![r] = 0]
  /\ got' = [got EXCEPT ![r] = @ \union {cell[att[r]][1]}]
  /\ Goto(r, "counted")
  /\ UNCHANGED <<segVars, id, att, loaderVars, settled>>

\* A block count of zero: the remainder is a SIGFPE, and the process is gone.
DivideByZero(r) ==
  /\ Between(r) /\ Divisor(r) = 0
  /\ att' = [att EXCEPT ![r] = None]
  /\ Goto(r, "faulted")
  /\ UNCHANGED <<segVars, id, loaderVars, readerVars>>

\* Where word j leads to when it is taken for a header.  A zero has no hashes.
\* A word that is none of d's headers, but one of its hashes or one of the
\* headers that were never written, may name any place.
Leads(j, d) ==
  IF d = None THEN 0 ELSE IF j <= Reached[d] THEN Size[d] ELSE Far

\* `ol += h->a % *ol + 1': any word the block count allows.
ReadHeader(r) ==
  /\ pc[r] = "counted"
  /\ \E j \in 1 .. Blocks[count[r]] :
       LET d == cell[att[r]][j \div 2 + 1]
       IN  /\ reach' = [reach EXCEPT ![r] = Leads(j, d)]
           /\ got' = [got EXCEPT ![r] = @ \union {d}]
  /\ count' = [count EXCEPT ![r] = None]
  /\ Goto(r, "reading")
  /\ UNCHANGED <<segVars, id, att, loaderVars, settled>>

\* One comparison of the binary search, at a place inside the segment or not.
ReadPlace(r) ==
  /\ pc[r] \in {"reading", "outside"}
  /\ \E k \in 1 .. reach[r] :
       \/ /\ k \in Cells(att[r])
          /\ got' = [got EXCEPT ![r] = @ \union {cell[att[r]][k]}]
          /\ Goto(r, "reading")
       \/ /\ k \notin Cells(att[r])
          /\ Goto(r, "outside")
          /\ UNCHANGED got
  /\ UNCHANGED <<segVars, id, att, loaderVars, count, reach, settled>>

\* Nothing is mapped where the reader went.
SegFault(r) ==
  /\ pc[r] = "outside"
  /\ att' = [att EXCEPT ![r] = None]
  /\ Goto(r, "faulted")
  /\ UNCHANGED <<segVars, id, loaderVars, readerVars>>

\* Fault: the segment stays attached when the call ends.
FreeSkipped(r) ==
  /\ Between(r)
  /\ Goto(r, "idle")
  /\ UNCHANGED <<segVars, id, att, loaderVars, readerVars>>

Free(r) ==
  /\ Between(r)
  /\ Answer(r)
  /\ UNCHANGED <<segVars, loaderVars>>

\* The process is killed, or the one that faulted is started again.
ReaderCrash(r) ==
  /\ pc[r] # "idle"
  /\ Answer(r)
  /\ UNCHANGED <<segVars, loaderVars>>

-----------------------------------------------------------------------------
LoaderStep(l) ==
  \/ Unload(l) \/ \E d \in Dicts : Load(l, d)
  \/ LookupOld(l) \/ RemoveOld(l) \/ Create(l) \/ Reuse(l) \/ CreateFails(l)
  \/ AttachNew(l) \/ AttachNewFails(l) \/ Copy(l) \/ Loaded(l) \/ LoaderCrash(l)

ReaderStep(r) ==
  \/ Lookup(r) \/ Attach(r) \/ AttachFails(r) \/ ReadCount(r) \/ DivideByZero(r)
  \/ ReadHeader(r) \/ ReadPlace(r) \/ SegFault(r) \/ Free(r) \/ ReaderCrash(r)

Next ==
  \/ \E l \in Loaders : LoaderStep(l)
  \/ \E r \in Readers : ReaderStep(r)

Spec == Init /\ [][Next]_vars

\* A call that has begun goes on to its end: a text is finite, so that a
\* reader does not come back to the next hash for ever.  New calls, loads and
\* crashes are never owed.
LoadGoesOn(l) ==
  \/ LookupOld(l) \/ RemoveOld(l) \/ Create(l) \/ Reuse(l) \/ CreateFails(l)
  \/ AttachNew(l) \/ AttachNewFails(l) \/ Copy(l) \/ Loaded(l)

Fairness ==
  /\ \A l \in Loaders : WF_vars(LoadGoesOn(l))
  /\ \A r \in Readers :
       /\ WF_vars(Attach(r) \/ AttachFails(r))
       /\ WF_vars(ReadHeader(r)) /\ SF_vars(Free(r))

FairSpec == Spec /\ Fairness

-----------------------------------------------------------------------------
(* Properties                                                              *)

Arrays == UNION {[1 .. Size[d] -> Dicts \union {None}] : d \in Dicts}

Steps == {"idle", "lookup", "remove", "create", "attach", "copy", "detach",
          "attached", "counted", "reading", "outside", "faulted"}

TypeOK ==
  /\ made \in Seq(Dicts)
  /\ key \in Segs \union {None}
  /\ cell \in Seq(Arrays) /\ Len(cell) = Len(made)
  /\ \A s \in Segs : cell[s] \in [Cells(s) -> Dicts \union {None}]
  /\ pc \in [Procs -> Steps]
  /\ id \in [Procs -> Segs \union {None}]
  /\ att \in [Procs -> Segs \union {None}]
  /\ want \in [Loaders -> Dicts \union {None}]
  /\ left \in [Loaders -> SUBSET Nat]
  /\ loads \in Nat /\ alone \in BOOLEAN
  /\ count \in [Readers -> Dicts \union {None}]
  /\ reach \in [Readers -> Nat]
  /\ got \in [Readers -> SUBSET (Dicts \union {None})]
  /\ settled \in [Readers -> Dicts \union {None}]

\* Every block's header was written, and there is one: the list is not that of
\* a file of blank lines, nor does its last block lie empty.
Sound(d) == Blocks[d] > 0 /\ Reached[d] = Blocks[d]

\* As long as loads do not overlap, a reader of a sound dictionary stays in
\* its segment, though the header it reads may not be copied yet, or be
\* copied after the block count was read.
ReadsInside ==
  alone => \A r \in Readers : pc[r] = "outside" => ~Sound(made[att[r]])

\* As long as loads do not overlap, a call sees one dictionary (or zeros),
\* though dictionaries may be loaded and unloaded, or a load die half way,
\* while it reads.
OneDictionary ==
  alone => \A r \in Readers : \A d, e \in Named(got[r]) : d = e

\* A call that begins while a dictionary is in force reads that dictionary,
\* whole, to its end, or finds nothing because it was removed before the call
\* could attach it; and with a sound one its process lives.
SettledRead ==
  alone => \A r \in Readers : settled[r] # None =>
    /\ got[r] \subseteq {settled[r]}
    /\ Sound(settled[r]) => pc[r] # "faulted"

\* When a load is about to return 0, the dictionary it was given is whole and
\* in force.
LoadReports ==
  alone => \A l \in Loaders : pc[l] = "detach" =>
    key = att[l] /\ Complete(key) /\ made[key] = want[l]

\* The memory of a dictionary that was replaced or unloaded is given back.
Reclaimed == \A s \in 1 .. MaxLoads : (s \in Segs /\ s # key) ~> ~Exists(s)

\* "-1 if the search fails or there is no such word" (include/iword.c:381): a
\* call has an answer, and its process lives.
SeekAnswers == \A r \in Readers : pc[r] # "faulted"

-----------------------------------------------------------------------------
(* What every step relies on: the conjunction is inductive.                *)

\* Whatever is in a segment, or on its way into it, fits it.
SegsFit ==
  \A s \in Segs : \A k \in Cells(s) :
    cell[s][k] # None => Size[cell[s][k]] <= Size[made[s]]

LoadersFit ==
  \A l \in Loaders :
    /\ pc[l] \in {"create", "attach", "copy", "detach"} => want[l] # None
    /\ pc[l] \in {"attach", "copy", "detach"} =>
         id[l] # None /\ Size[want[l]] <= Size[made[id[l]]]
    /\ pc[l] \in {"copy", "detach"} => att[l] = id[l]
    /\ pc[l] = "copy" => left[l] \subseteq 1 .. Size[want[l]]

\* A reader has the segment mapped that it looked up, and the headers it goes
\* by are in it.
ReaderFits(r) ==
  /\ pc[r] = "attach" \/ Mapped(r) \/ pc[r] = "faulted" <=> id[r] # None
  /\ Mapped(r) => att[r] = id[r]
  /\ pc[r] = "counted" =>
       count[r] \in got[r] \ {None} /\ Size[count[r]] <= Size[made[id[r]]]
  /\ id[r] = None => got[r] = {}
  /\ pc[r] \in {"idle", "attach"} => reach[r] = 0

Fits == SegsFit /\ LoadersFit /\ \A r \in Readers : ReaderFits(r)

\* One loader at work, which has the key to itself.
OneLoader ==
  /\ \A l, m \in Loaders : pc[l] # "idle" /\ pc[m] # "idle" => l = m
  /\ \A l \in Loaders :
       /\ pc[l] = "remove" => id[l] = key
       /\ pc[l] = "create" => key = None
       /\ pc[l] \in {"attach", "copy", "detach"} =>
            key = id[l] /\ made[id[l]] = want[l]
       /\ pc[l] = "copy" =>
            \A k \in Cells(id[l]) \ left[l] : cell[id[l]][k] = want[l]
       /\ pc[l] = "detach" => Complete(id[l])

\* A segment only ever holds the dictionary it was made for.
Unmixed == \A s \in Segs : \A k \in Cells(s) : cell[s][k] \in {None, made[s]}

\* What readers have read, and where it leads them, is in the segment they
\* looked up, if its dictionary is sound.
ReaderShape(r) ==
  /\ id[r] # None => got[r] \subseteq {None, made[id[r]]}
  /\ Mapped(r) /\ Sound(made[id[r]]) =>
       pc[r] # "outside" /\ reach[r] <= Size[made[id[r]]]
  /\ settled[r] # None =>
       /\ id[r] # None /\ Complete(id[r]) /\ made[id[r]] = settled[r]
       /\ got[r] \subseteq {settled[r]}
       /\ Sound(settled[r]) => pc[r] # "faulted"

AloneInv == OneLoader /\ Unmixed /\ \A r \in Readers : ReaderShape(r)

IndInv == TypeOK /\ Fits /\ (alone => AloneInv)
=============================================================================
