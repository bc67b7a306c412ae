--------------------------- MODULE ShmDictProofs ---------------------------
(***************************************************************************)
(* Theorems about ShmDict, for any processes, dictionaries and sizes.      *)
(***************************************************************************)
EXTENDS ShmDict, SequenceTheorems, TLAPS

\* ShmAssumption without the cells that headers take.
LEMMA Constants ==
  /\ Loaders \cap Readers = {} /\ None \notin Dicts /\ None \notin Nat
  /\ Size \in [Dicts -> Nat \ {0}] /\ Blocks \in [Dicts -> Nat]
<1>1. ASSUME NEW d \in Dicts PROVE Size[d] \in Nat \ {0}
  <2>1. Blocks[d] \div 2 + 2 <= Size[d] /\ Size[d] \in Nat /\ Blocks[d] \in Nat
    BY ShmAssumption
  <2>2. Blocks[d] \div 2 \in Nat
    BY <2>1
  <2> QED BY <2>1, <2>2
<1>2. Size \in [Dicts -> Nat \ {0}]
  BY <1>1, ShmAssumption
<1> QED BY <1>2, ShmAssumption

LEMMA StepNames ==
  /\ {"idle", "lookup", "remove", "create", "attach", "copy", "detach"} \subseteq Steps
  /\ {"attached", "counted", "reading", "outside", "faulted"} \subseteq Steps
BY DEF Steps

\* A function that changes at one argument at most.
Changed(f, x, g) == \E v : g = f \/ g = [f EXCEPT ![x] = v]

LEMMA ChangedTyped ==
  ASSUME NEW A, NEW T, NEW f \in [A -> T], NEW x \in A, NEW g, Changed(f, x, g), g[x] \in T
  PROVE  g \in [A -> T] /\ \A y \in A \ {x} : g[y] = f[y]
BY DEF Changed

\* A step of a loader that makes no segment and copies nothing.
LEMMA LoaderTypes ==
  ASSUME TypeOK, NEW l \in Loaders, UNCHANGED <<made, cell, readerVars>>,
         key' \in Segs \union {None},
         Changed(pc, l, pc'), pc'[l] \in Steps,
         Changed(id, l, id'), id'[l] \in Segs \union {None},
         Changed(att, l, att'), att'[l] \in Segs \union {None},
         Changed(want, l, want'), want'[l] \in Dicts \union {None},
         Changed(left, l, left'), left'[l] \subseteq Nat,
         loads' \in Nat, alone' \in BOOLEAN
  PROVE  TypeOK'
<1>1. l \in Procs
  BY DEF Procs
<1>2. pc' \in [Procs -> Steps]
  BY <1>1, ChangedTyped DEF TypeOK
<1>3. id' \in [Procs -> Segs \union {None}]
  BY <1>1, ChangedTyped DEF TypeOK
<1>4. att' \in [Procs -> Segs \union {None}]
  BY <1>1, ChangedTyped DEF TypeOK
<1>5. want' \in [Loaders -> Dicts \union {None}]
  BY ChangedTyped DEF TypeOK
<1>6. left' \in [Loaders -> SUBSET Nat]
  BY ChangedTyped DEF TypeOK
<1> QED BY <1>2, <1>3, <1>4, <1>5, <1>6 DEF TypeOK, readerVars, Segs, Cells, Arrays

\* Nothing is loaded, mapped or read at first.
LEMMA InitIndInv == Init => IndInv
<1> SUFFICES ASSUME Init PROVE IndInv
  OBVIOUS
<1> USE Constants, StepNames
<1>1. TypeOK
  BY DEF Init, TypeOK, Procs, Segs
<1>2. SegsFit /\ LoadersFit
  BY DEF Init, SegsFit, LoadersFit, Segs, Procs
<1>3. \A r \in Readers : ReaderFits(r) /\ ReaderShape(r)
  BY DEF Init, ReaderFits, ReaderShape, Procs, Mapped, Between
<1>4. OneLoader /\ Unmixed
  BY DEF Init, OneLoader, Unmixed, Segs, Procs
<1> QED BY <1>1, <1>2, <1>3, <1>4 DEF IndInv, Fits, AloneInv

\* A step of loader l leaves the other processes where they are.
Others(l) ==
  /\ \A p \in Procs \ {l} : pc'[p] = pc[p] /\ id'[p] = id[p] /\ att'[p] = att[p]
  /\ \A m \in Loaders \ {l} : want'[m] = want[m] /\ left'[m] = left[m]

\* A step of a loader that leaves the segments made so far whole does not
\* disturb the readers.
LEMMA ReadersUndisturbed ==
  ASSUME IndInv, NEW l \in Loaders, Others(l), UNCHANGED readerVars, alone' => alone,
         \A s \in Segs : made'[s] = made[s],
         alone' => \A s \in Segs : Complete(s) => Complete(s)'
  PROVE  \A r \in Readers : ReaderFits(r)' /\ (alone' => ReaderShape(r)')
<1> USE Constants, StepNames DEF readerVars
<1> SUFFICES ASSUME NEW r \in Readers PROVE ReaderFits(r)' /\ (alone' => ReaderShape(r)')
  OBVIOUS
<1>1. /\ pc'[r] = pc[r] /\ id'[r] = id[r] /\ att'[r] = att[r]
      /\ count'[r] = count[r] /\ reach'[r] = reach[r]
      /\ got'[r] = got[r] /\ settled'[r] = settled[r]
  BY DEF Procs, Others
<1>2. Mapped(r)' <=> Mapped(r)
  BY <1>1 DEF Mapped, Between
<1>3. id[r] # None => id[r] \in Segs /\ made'[id[r]] = made[id[r]]
  BY DEF IndInv, TypeOK, Procs
<1>4. ReaderFits(r)'
  <2>1. ReaderFits(r)
    BY DEF IndInv, Fits
  <2>2. pc[r] = "counted" => id[r] # None
    BY <2>1 DEF ReaderFits, Mapped
  <2> DEFINE M == Mapped(r)
             N == Mapped(r)'
  <2>3. N = M
    BY <1>2 DEF Mapped, Between
  <2>4. /\ pc[r] = "attach" \/ M \/ pc[r] = "faulted" <=> id[r] # None
        /\ M => att[r] = id[r]
        /\ pc[r] = "counted" =>
             count[r] \in got[r] \ {None} /\ Size[count[r]] <= Size[made[id[r]]]
        /\ id[r] = None => got[r] = {}
        /\ pc[r] \in {"idle", "attach"} => reach[r] = 0
    BY <2>1 DEF ReaderFits
  <2> SUFFICES /\ pc'[r] = "attach" \/ N \/ pc'[r] = "faulted" <=> id'[r] # None
               /\ N => att'[r] = id'[r]
               /\ pc'[r] = "counted" =>
                    count'[r] \in got'[r] \ {None} /\ Size[count'[r]] <= Size[made'[id'[r]]]
               /\ id'[r] = None => got'[r] = {}
               /\ pc'[r] \in {"idle", "attach"} => reach'[r] = 0
    BY DEF ReaderFits
  <2> HIDE DEF M, N
  <2> QED BY <1>1, <1>3, <2>2, <2>3, <2>4
<1>5. ASSUME alone' PROVE ReaderShape(r)'
  <2>x. PICK x : x = id[r]
    OBVIOUS
  <2>1. ReaderShape(r) /\ (x # None /\ Complete(x) => Complete(x)')
    BY <1>3, <1>5, <2>x DEF IndInv, AloneInv
  <2>2. Mapped(r) => x # None
    BY <2>x DEF IndInv, Fits, ReaderFits
  <2>3. /\ x # None => got[r] \subseteq {None, made[x]}
        /\ Mapped(r) /\ Sound(made[x]) => pc[r] # "outside" /\ reach[r] <= Size[made[x]]
        /\ settled[r] # None => /\ x # None /\ Complete(x) /\ made[x] = settled[r]
                                /\ got[r] \subseteq {settled[r]}
                                /\ Sound(settled[r]) => pc[r] # "faulted"
    BY <2>x, <2>1 DEF ReaderShape
  <2>4. x # None => (Sound(made[id[r]])' <=> Sound(made[x]))
    BY <1>1, <1>3, <2>x DEF Sound
  <2>5. (Complete(id[r])' <=> Complete(x)') /\ (Sound(settled[r])' <=> Sound(settled[r]))
    BY <1>1, <2>x DEF Complete, Cells, Sound
  <2> QED BY <1>1, <1>2, <1>3, <2>x, <2>1, <2>2, <2>3, <2>4, <2>5 DEF ReaderShape
<1> QED BY <1>4, <1>5

\* A loader's call that ends leaves everything else as it is.
LEMMA ReturnStep ==
  ASSUME IndInv, NEW l \in Loaders, Return(l), pc[l] # "idle",
         key' = key \/ key' = None, UNCHANGED <<made, cell, readerVars>>
  PROVE  IndInv'
<1> USE Constants, StepNames
<1>1. TypeOK'
  BY DEF IndInv, readerVars, Return, Goto, Procs, TypeOK, Segs, Cells, Arrays
<1>2. pc'[l] = "idle" /\ Others(l) /\ UNCHANGED <<made, cell, readerVars, alone>>
  BY DEF IndInv, Return, Goto, Procs, TypeOK, Others
<1>3. \A r \in Readers : ReaderFits(r)' /\ (alone' => ReaderShape(r)')
  BY <1>2, ReadersUndisturbed DEF Complete, Cells
<1>4. SegsFit' /\ LoadersFit'
  BY <1>2 DEF IndInv, Fits, SegsFit, LoadersFit, Segs, Cells, Others, Procs
<1>5. alone' => OneLoader' /\ Unmixed'
  BY <1>2 DEF IndInv, AloneInv, OneLoader, Unmixed, Segs, Cells, Complete, Others, Procs
<1> QED BY <1>1, <1>3, <1>4, <1>5 DEF IndInv, Fits, AloneInv

\* A call of a loader begins, or it looks the old segment up or has it removed.
LEMMA UnloadStep ==
  ASSUME IndInv, NEW l \in Loaders,
         \/ Unload(l) \/ \E d \in Dicts : Load(l, d)
         \/ LookupOld(l) \/ RemoveOld(l)
  PROVE  IndInv'
<1> USE Constants, StepNames DEF segVars, loaderVars, readerVars, Goto
<1>t. TypeOK
  BY DEF IndInv
<1> DEFINE Moves ==
      \/ pc[l] = "idle" /\ pc'[l] = "lookup" /\ key' = key /\ (alone' => AllIdle)
      \/ pc[l] = "lookup" /\ pc'[l] = "remove" /\ key' = key /\ id'[l] = key
      \/ pc[l] = "lookup" /\ pc'[l] = "create" /\ key' = key /\ key = None
           /\ want'[l] # None
      \/ pc[l] = "remove" /\ pc'[l] = "create" /\ want'[l] # None
           /\ key' = IF key = id[l] THEN None ELSE key
    Quiet == UNCHANGED <<made, cell, count, reach, got, settled>> /\ (alone' => alone)
<1>1. CASE (LookupOld(l) \/ RemoveOld(l)) /\ want[l] = None /\ pc'[l] = "idle"
  <2>1. pc[l] # "idle" /\ Return(l)
    BY <1>1, <1>t DEF LookupOld, RemoveOld, AfterUnload, TypeOK, Procs
  <2>2. UNCHANGED <<made, cell, readerVars>> /\ (key' = key \/ key' = None)
    BY <1>1 DEF LookupOld, RemoveOld
  <2> QED BY <2>1, <2>2, ReturnStep
<1>2. ASSUME TypeOK', Others(l), Moves, Quiet PROVE IndInv'
  <2>0. /\ \A p \in Procs \ {l} : pc'[p] = pc[p] /\ id'[p] = id[p] /\ att'[p] = att[p]
        /\ \A m \in Loaders \ {l} : want'[m] = want[m] /\ left'[m] = left[m]
        /\ UNCHANGED <<made, cell, count, reach, got, settled>>
        /\ pc'[l] \in {"lookup", "remove", "create"}
        /\ pc'[l] = "create" => want'[l] # None
        /\ (alone' => alone)
    BY <1>2 DEF Others
  <2>1. SegsFit' /\ LoadersFit'
    BY <2>0 DEF IndInv, Procs, Fits, SegsFit, LoadersFit, Segs, Cells
  <2>2. \A r \in Readers : ReaderFits(r)' /\ (alone' => ReaderShape(r)')
    BY <1>2, <2>0, ReadersUndisturbed DEF Complete, Cells
  <2>3. ASSUME alone' PROVE OneLoader' /\ Unmixed'
    <3>1. /\ \A m \in Loaders \ {l} : pc'[m] = "idle"
          /\ pc'[l] = "remove" => id'[l] = key'
          /\ pc'[l] = "create" => key' = None
      BY <1>2, <2>0, <2>3 DEF IndInv, AloneInv, OneLoader, AllIdle, Procs
    <3> QED BY <2>0, <2>3, <3>1 DEF IndInv, AloneInv, OneLoader, Unmixed, Segs, Cells
  <2> QED BY <1>2, <2>1, <2>2, <2>3 DEF IndInv, Fits, AloneInv
<1> USE <1>t DEF Procs, TypeOK, Others, Segs, Cells, Arrays
<1>3. CASE Unload(l)
  BY <1>2, <1>3 DEF Unload
<1>4. ASSUME NEW d \in Dicts, Load(l, d) PROVE IndInv'
  <2>1. alone' \in BOOLEAN /\ (alone' => alone /\ AllIdle)
    BY <1>4 DEF Load
  <2>2. TypeOK'
    <3>1. /\ UNCHANGED <<made, cell, readerVars, key, id, att, left>>
          /\ pc' = [pc EXCEPT ![l] = "lookup"] /\ want' = [want EXCEPT ![l] = d]
          /\ loads' = loads + 1 /\ loads' \in Nat
      BY <1>4 DEF Load
    <3> QED BY <2>1, <3>1, LoaderTypes DEF Changed
  <2>3. Others(l) /\ Quiet /\ Moves
    BY <1>4, <2>1 DEF Load
  <2> QED BY <1>2, <2>2, <2>3
<1>5. CASE LookupOld(l) /\ key # None
  <2>0. /\ pc' = [pc EXCEPT ![l] = "remove"] /\ id' = [id EXCEPT ![l] = key]
        /\ UNCHANGED <<att, loaderVars, segVars, readerVars>>
    BY <1>5 DEF LookupOld
  <2>1. TypeOK' /\ Others(l) /\ Quiet
    BY <2>0
  <2>2. Moves
    BY <1>5 DEF LookupOld
  <2> QED BY <1>2, <2>1, <2>2
<1>6. CASE ((LookupOld(l) /\ key = None) \/ RemoveOld(l)) /\ want[l] # None
  <2>1. Others(l) /\ Quiet
    BY <1>6 DEF LookupOld, RemoveOld, AfterUnload
  <2>2. pc' = [pc EXCEPT ![l] = "create"] /\ key' \in {key, None}
        /\ UNCHANGED <<id, att, made, cell, loaderVars, readerVars>>
    BY <1>6 DEF LookupOld, RemoveOld, AfterUnload
  <2>3. TypeOK'
    BY <2>2, LoaderTypes DEF Changed
  <2>4. Moves
    BY <1>6 DEF LookupOld, RemoveOld, AfterUnload
  <2> QED BY <1>2, <2>1, <2>3, <2>4
<1>7. ((LookupOld(l) /\ key = None) \/ RemoveOld(l)) /\ want[l] = None => pc'[l] = "idle"
  BY DEF LookupOld, RemoveOld, AfterUnload, Return
<1> QED BY <1>1, <1>3, <1>4, <1>5, <1>6, <1>7

\* A segment with the right key and enough room is found.
LEMMA ReuseStep ==
  ASSUME IndInv, NEW l \in Loaders, Reuse(l)
  PROVE  IndInv'
<1> USE Constants, StepNames DEF segVars, loaderVars, readerVars, Goto, Reuse
<1>1. /\ Others(l) /\ pc'[l] = "attach" /\ id'[l] = key /\ want[l] # None
      /\ UNCHANGED <<key, made, cell, att, want, left, alone>>
  BY DEF IndInv, Others, TypeOK, Fits, LoadersFit, Procs
<1>2. TypeOK'
  BY DEF IndInv, TypeOK, Segs, Cells, Arrays, Procs
<1>3. SegsFit' /\ LoadersFit'
  BY <1>1 DEF IndInv, Others, Fits, SegsFit, LoadersFit, Segs, Cells, Procs
<1>4. \A r \in Readers : ReaderFits(r)'
  BY <1>1, ReadersUndisturbed DEF Complete, Cells
<1>5. ~alone'
  BY DEF IndInv, AloneInv, OneLoader
<1> QED BY <1>2, <1>3, <1>4, <1>5 DEF IndInv, Fits

\* The segment is mapped, and nothing of it copied yet.
LEMMA AttachNewStep ==
  ASSUME IndInv, NEW l \in Loaders, AttachNew(l)
  PROVE  IndInv'
<1> USE Constants, StepNames DEF segVars, loaderVars, readerVars, Goto, AttachNew
<1>1. want[l] \in Dicts /\ Size[want[l]] \in Nat /\ id[l] \in Segs
  BY DEF IndInv, TypeOK, Fits, LoadersFit, Procs
<1>2. TypeOK'
  <2>1. left'[l] \subseteq Nat
    BY <1>1 DEF IndInv, TypeOK
  <2> QED BY <1>1, <2>1 DEF IndInv, TypeOK, Segs, Cells, Arrays, Procs
<1>3. /\ Others(l) /\ pc[l] = "attach" /\ pc'[l] = "copy" /\ att'[l] = id[l]
      /\ left'[l] = 1 .. Size[want[l]] /\ UNCHANGED <<key, made, cell, id, want, alone>>
  BY DEF IndInv, Others, TypeOK, Procs
<1>4. SegsFit' /\ LoadersFit'
  BY <1>1, <1>3 DEF IndInv, Others, Procs, Fits, SegsFit, LoadersFit, Segs, Cells
<1>5. \A r \in Readers : ReaderFits(r)' /\ (alone' => ReaderShape(r)')
  BY <1>3, ReadersUndisturbed DEF Complete, Cells
<1>6. ASSUME alone' PROVE OneLoader' /\ Unmixed'
  <2>1. OneLoader /\ Unmixed
    BY <1>3, <1>6 DEF IndInv, AloneInv
  <2>2. Unmixed'
    BY <1>3, <2>1 DEF Unmixed, Segs, Cells
  <2>3. Cells(id[l]) \ left'[l] = {}
    BY <1>1, <1>3, <2>1 DEF OneLoader, Cells
  <2>4. \A m \in Loaders \ {l} : pc'[m] = "idle"
    BY <1>3, <2>1 DEF OneLoader, Others, Procs
  <2> QED BY <1>3, <2>1, <2>2, <2>3, <2>4 DEF OneLoader, Cells
<1> QED BY <1>2, <1>4, <1>5, <1>6 DEF IndInv, Fits, AloneInv

\* A new segment, of the size of the dictionary to load, and zero.
LEMMA CreateStep ==
  ASSUME IndInv, NEW l \in Loaders, Create(l)
  PROVE  IndInv'
<1> USE Constants, StepNames DEF segVars, loaderVars, readerVars, Goto, Create
<1>t. TypeOK
  BY DEF IndInv
<1>0. PICK s \in Nat : s = Len(made) + 1
  BY <1>t, LenProperties DEF TypeOK
<1> DEFINE zero == [k \in 1 .. Size[want[l]] |-> None]
<1>1. want[l] \in Dicts /\ Size[want[l]] \in Nat /\ Len(made) \in Nat /\ key = None
  BY <1>t, LenProperties DEF IndInv, TypeOK, Fits, LoadersFit
<1>2. zero \in Arrays
  BY <1>1 DEF Arrays
<1>3. /\ made' \in Seq(Dicts) /\ Len(made') = s /\ made'[s] = want[l]
      /\ \A x \in Segs : made'[x] = made[x]
  BY <1>t, <1>0, <1>1, AppendProperties DEF TypeOK, Segs
<1>4. /\ cell' \in Seq(Arrays) /\ Len(cell') = s /\ cell'[s] = zero
      /\ \A x \in Segs : cell'[x] = cell[x]
  BY <1>t, <1>0, <1>1, <1>2, AppendProperties DEF TypeOK, Segs
<1>5. Segs' = Segs \union {s} /\ s \in Segs' /\ s \notin Segs /\ Segs \subseteq Nat
  BY <1>0, <1>1, <1>3 DEF Segs
<1>6. /\ \A x \in Segs : Cells(x)' = Cells(x)
      /\ Cells(s)' = 1 .. Size[want[l]]
  BY <1>3 DEF Cells
<1>7. \A x \in Segs : Complete(x)' <=> Complete(x)
  BY <1>3, <1>4, <1>6 DEF Complete
<1>8. /\ key' = s /\ UNCHANGED <<att, want, left, loads, alone, count, reach, got, settled>>
      /\ pc' = [pc EXCEPT ![l] = "attach"] /\ id' = [id EXCEPT ![l] = s]
  BY <1>0
<1>9. TypeOK'
  <2>1. \A x \in Segs' : cell'[x] \in [Cells(x)' -> Dicts \union {None}]
    <3>1. cell'[s] \in [Cells(s)' -> Dicts \union {None}]
      BY <1>4, <1>6
    <3> QED BY <1>t, <1>4, <1>5, <1>6, <3>1 DEF TypeOK
  <2>2. /\ pc' \in [Procs -> Steps]
        /\ id' \in [Procs -> Segs' \union {None}]
        /\ att' \in [Procs -> Segs' \union {None}]
    BY <1>t, <1>5, <1>8 DEF TypeOK, Procs
  <2> QED BY <1>t, <1>3, <1>4, <1>5, <1>8, <2>1, <2>2 DEF TypeOK, Arrays
<1>10. /\ \A p \in Procs \ {l} : pc'[p] = pc[p] /\ id'[p] = id[p]
       /\ pc'[l] = "attach" /\ id'[l] = s /\ s # None
       /\ \A p \in Procs : id[p] # None => id[p] \in Segs
  BY <1>t, <1>5, <1>8 DEF TypeOK, Procs
<1>11. SegsFit' /\ LoadersFit'
  <2>1. ASSUME NEW x \in Segs', NEW k \in Cells(x)', cell'[x][k] # None
        PROVE  Size[cell'[x][k]] <= Size[made'[x]]
    <3>1. x \in Segs
      BY <1>4, <1>5, <1>6, <2>1
    <3> QED BY <1>3, <1>4, <1>6, <2>1, <3>1 DEF IndInv, Fits, SegsFit
  <2>2. Size[want[l]] <= Size[made'[s]]
    BY <1>1, <1>3
  <2>3. \A m \in Loaders :
          /\ pc'[m] \in {"create", "attach", "copy", "detach"} => want'[m] # None
          /\ pc'[m] \in {"attach", "copy", "detach"} =>
               id'[m] # None /\ Size[want'[m]] <= Size[made'[id'[m]]]
          /\ pc'[m] \in {"copy", "detach"} => att'[m] = id'[m]
          /\ pc'[m] = "copy" => left'[m] \subseteq 1 .. Size[want'[m]]
    <3> SUFFICES ASSUME NEW m \in Loaders
                 PROVE  /\ pc'[m] \in {"create", "attach", "copy", "detach"} => want'[m] # None
                        /\ pc'[m] \in {"attach", "copy", "detach"} =>
                             id'[m] # None /\ Size[want'[m]] <= Size[made'[id'[m]]]
                        /\ pc'[m] \in {"copy", "detach"} => att'[m] = id'[m]
                        /\ pc'[m] = "copy" => left'[m] \subseteq 1 .. Size[want'[m]]
      OBVIOUS
    <3>1. CASE m = l
      BY <1>1, <1>8, <1>10, <2>2, <3>1
    <3>2. CASE m # l
      <4>1. pc'[m] = pc[m] /\ id'[m] = id[m] /\ (id[m] # None => made'[id[m]] = made[id[m]])
        BY <1>3, <1>10, <3>2 DEF Procs
      <4> QED BY <1>8, <4>1 DEF IndInv, Fits, LoadersFit
    <3> QED BY <3>1, <3>2
  <2> QED BY <2>1, <2>3 DEF SegsFit, LoadersFit
<1>12. alone' => OneLoader'
  BY <1>1, <1>3, <1>7, <1>8, <1>10 DEF IndInv, AloneInv, OneLoader, Procs
<1>13. alone' => Unmixed'
  <2>1. \A k \in Cells(s)' : cell'[s][k] = None
    BY <1>4, <1>6
  <2>2. ASSUME alone', NEW x \in Segs, NEW k \in Cells(x)'
        PROVE  cell'[x][k] \in {None, made'[x]}
    <3>1. k \in Cells(x) /\ cell[x][k] \in {None, made[x]}
      BY <1>6, <1>8, <2>2 DEF IndInv, AloneInv, Unmixed
    <3> QED BY <1>3, <1>4, <3>1
  <2> QED BY <1>5, <2>1, <2>2 DEF Unmixed
<1>14. \A r \in Readers : ReaderFits(r)' /\ (alone' => ReaderShape(r)')
  <2>1. Others(l)
    BY <1>8, <1>10 DEF Others, Procs
  <2>2. UNCHANGED readerVars /\ (alone' => alone)
    BY <1>8
  <2>3. \A x \in Segs : made'[x] = made[x]
    BY <1>3
  <2>4. \A x \in Segs : Complete(x) => Complete(x)'
    BY <1>7
  <2> HIDE DEF readerVars, Create
  <2> QED BY <2>1, <2>2, <2>3, <2>4, ReadersUndisturbed
<1> QED BY <1>9, <1>11, <1>12, <1>13, <1>14 DEF IndInv, Fits, AloneInv

\* One cell is copied.
LEMMA CopyStep ==
  ASSUME IndInv, NEW l \in Loaders, Copy(l)
  PROVE  IndInv'
<1> USE Constants, StepNames DEF segVars, loaderVars, readerVars, Goto
<1>t. TypeOK /\ LoadersFit /\ SegsFit
  BY DEF IndInv, Fits
<1>1. PICK k \in left[l] :
        /\ cell' = [cell EXCEPT ![att[l]][k] = want[l]]
        /\ left' = [left EXCEPT ![l] = @ \ {k}]
        /\ pc' = [pc EXCEPT ![l] = IF left[l] = {k} THEN "detach" ELSE "copy"]
  BY DEF Copy
<1>s. PICK s : s = att[l]
  OBVIOUS
<1>2. /\ pc[l] = "copy" /\ UNCHANGED <<key, made, id, att, want, loads, alone, count, reach, got, settled>>
      /\ s = att[l] /\ s = id[l] /\ s \in Segs /\ want[l] \in Dicts
      /\ Size[want[l]] <= Size[made[s]] /\ made[s] \in Dicts
      /\ k \in 1 .. Size[want[l]] /\ k \in Cells(s)
  BY <1>t, <1>1, <1>s, ElementOfSeq DEF Copy, TypeOK, LoadersFit, Procs, Segs, Cells
<1>3. Segs \subseteq DOMAIN cell /\ DOMAIN cell = Segs
  BY <1>t, LenProperties DEF TypeOK, Segs
<1>4. /\ cell'[s][k] = want[l]
      /\ \A x \in Segs : \A j \in Cells(x) : x # s \/ j # k => cell'[x][j] = cell[x][j]
      /\ \A x \in Segs : cell'[x] \in [Cells(x) -> Dicts \union {None}]
  BY <1>t, <1>1, <1>2, <1>3 DEF TypeOK
<1>5. cell' \in Seq(Arrays) /\ Len(cell') = Len(made)
  <2>1. PICK e : e = [cell[s] EXCEPT ![k] = want[l]]
    OBVIOUS
  <2>2. cell' = [cell EXCEPT ![s] = e]
    BY <1>1, <1>2, <2>1
  <2>3. e \in Arrays
    <3>1. e \in [1 .. Size[made[s]] -> Dicts \union {None}]
      BY <1>t, <1>2, <2>1 DEF TypeOK, Cells
    <3> QED BY <1>2, <3>1 DEF Arrays
  <2> QED BY <1>t, <1>2, <2>2, <2>3, ExceptSeq DEF TypeOK, Segs
<1>6. /\ pc' \in [Procs -> Steps]
      /\ left' \in [Loaders -> SUBSET Nat]
      /\ \A p \in Procs \ {l} : pc'[p] = pc[p]
      /\ \A m \in Loaders \ {l} : left'[m] = left[m]
      /\ pc'[l] = IF left[l] = {k} THEN "detach" ELSE "copy"
      /\ left'[l] = left[l] \ {k}
  BY <1>t, <1>1 DEF TypeOK, Procs
<1>7. TypeOK'
  BY <1>t, <1>2, <1>4, <1>5, <1>6 DEF TypeOK, Segs, Cells, Arrays
<1>8. SegsFit' /\ LoadersFit'
  <2>1. \A x \in Segs : \A j \in Cells(x) :
          cell'[x][j] # None => Size[cell'[x][j]] <= Size[made[x]]
    BY <1>t, <1>2, <1>4 DEF SegsFit
  <2> QED BY <1>t, <1>2, <1>6, <2>1 DEF SegsFit, LoadersFit, Procs, Segs, Cells
<1>9. ASSUME alone' PROVE OneLoader /\ Unmixed /\ made[s] = want[l] /\ key = s
  BY <1>2, <1>9 DEF IndInv, AloneInv, OneLoader
<1>10. ASSUME alone' PROVE \A x \in Segs : Complete(x) => Complete(x)'
  BY <1>2, <1>4, <1>9, <1>10 DEF Complete, Cells
<1>11. \A r \in Readers : ReaderFits(r)' /\ (alone' => ReaderShape(r)')
  <2>1. Others(l)
    BY <1>2, <1>6 DEF Others, Procs
  <2> QED BY <1>2, <1>10, <2>1, ReadersUndisturbed
<1>12. ASSUME alone' PROVE OneLoader' /\ Unmixed'
  <2>1. OneLoader /\ Unmixed /\ made[s] = want[l] /\ key = s
    BY <1>9, <1>12
  <2>2. OneLoader'
    <3>1. \A j \in Cells(s) \ left'[l] : cell'[s][j] = want[l]
      BY <1>2, <1>4, <1>6, <2>1 DEF OneLoader
    <3>2. pc'[l] = "detach" => Complete(s)'
      BY <1>2, <1>6, <2>1, <3>1 DEF Complete, Cells
    <3> QED BY <1>2, <1>6, <2>1, <3>1, <3>2 DEF OneLoader, Procs, Cells
  <2>3. Unmixed'
    <3>1. \A x \in Segs : \A j \in Cells(x) : cell'[x][j] \in {None, made[x]}
      BY <1>2, <1>4, <2>1 DEF Unmixed
    <3> QED BY <1>2, <3>1 DEF Unmixed, Segs, Cells
  <2> QED BY <2>2, <2>3
<1> QED BY <1>7, <1>8, <1>11, <1>12 DEF IndInv, Fits, AloneInv

\* The steps of readers leave the segments, the key and the loaders alone.
LEMMA ReaderStepInv ==
  ASSUME IndInv, NEW r \in Readers, ReaderStep(r)
  PROVE  IndInv'
<1> USE Constants, StepNames DEF segVars, loaderVars, readerVars, Goto
<1>t. TypeOK /\ SegsFit /\ ReaderFits(r) /\ (alone => Unmixed /\ ReaderShape(r))
  BY DEF IndInv, Fits, AloneInv
<1> USE <1>t
<1>u. /\ UNCHANGED <<key, made, cell, want, left, loads, alone>>
      /\ Changed(pc, r, pc') /\ Changed(id, r, id') /\ Changed(att, r, att')
      /\ Changed(count, r, count') /\ Changed(reach, r, reach')
      /\ Changed(got, r, got') /\ Changed(settled, r, settled')
  <2> USE DEF Answer, Changed
  <2>1. CASE Lookup(r)
    BY <2>1 DEF Lookup
  <2>2. CASE Attach(r) \/ DivideByZero(r) \/ SegFault(r)
    BY <2>2 DEF Attach, DivideByZero, SegFault
  <2>3. CASE AttachFails(r) \/ Free(r) \/ ReaderCrash(r)
    BY <2>3 DEF AttachFails, Free, ReaderCrash
  <2>4. CASE ReadCount(r) \/ ReadHeader(r)
    BY <2>4 DEF ReadCount, ReadHeader
  <2>5. CASE ReadPlace(r)
    BY <2>5 DEF ReadPlace
  <2> QED BY <2>1, <2>2, <2>3, <2>4, <2>5 DEF ReaderStep
<1>r. r \in Procs
  BY DEF Procs
<1> DEFINE
  Held == {"attached", "counted", "reading", "outside"}
  Shape(i, a, p, c, x, g, e) ==
    /\ i \in Segs \union {None} /\ a \in Segs \union {None}
    /\ g \subseteq Dicts \union {None} /\ e \in Dicts \union {None}
    /\ c \in Dicts \union {None} /\ x \in Nat
    /\ p \in {"attach", "faulted"} \union Held <=> i # None
    /\ p \in Held => a = i
    /\ p = "counted" => c # None /\ Size[c] <= Size[made[i]] /\ c \in g
    /\ i = None => g = {}
    /\ p \in {"idle", "attach"} => x = 0
    /\ alone => /\ i # None => g \subseteq {None, made[i]}
                /\ p \in Held /\ Sound(made[i]) => p # "outside" /\ x <= Size[made[i]]
                /\ e # None => /\ i # None /\ Complete(i) /\ made[i] = e
                               /\ g \subseteq {e} /\ (Sound(e) => p # "faulted")
<1>s. Shape(id[r], att[r], pc[r], count[r], reach[r], got[r], settled[r])
  BY DEF TypeOK, ReaderFits, ReaderShape, Procs, Mapped, Between
<1> DEFINE Shape2 == Shape(id'[r], att'[r], pc'[r], count'[r], reach'[r], got'[r], settled'[r])
<1>h. Mapped(r) <=> pc[r] \in Held
  BY DEF Mapped, Between
<1>z. \A s \in Segs : made[s] \in Dicts
  BY ElementOfSeq DEF TypeOK, Segs
<1>c. \* what a cell of the segment holds
  ASSUME NEW s \in Segs, NEW k \in Cells(s)
  PROVE  /\ cell[s][k] \in Dicts \union {None}
         /\ cell[s][k] # None => Size[cell[s][k]] <= Size[made[s]]
         /\ alone => /\ cell[s][k] \in {None, made[s]}
                     /\ Complete(s) => cell[s][k] = made[s]
  BY DEF TypeOK, SegsFit, Unmixed, Complete
<1>2. Shape2 /\ pc'[r] \in Steps
  <2>1. CASE Lookup(r)
    <3>1. InForce \in Dicts \union {None} /\ (InForce # None => Complete(key) /\ made[key] = InForce)
      BY ElementOfSeq DEF InForce, TypeOK, Segs
    <3>2. key \in Segs /\ key # None /\ pc[r] = "idle" /\ got[r] = {}
      BY <1>s, <2>1 DEF Lookup, TypeOK
    <3>3. /\ pc'[r] = "attach" /\ id'[r] = key /\ att'[r] = att[r] /\ got'[r] = {}
          /\ count'[r] = count[r] /\ reach'[r] = reach[r] /\ settled'[r] = InForce
      BY <2>1, <3>2 DEF Lookup, TypeOK, Procs
    <3> QED BY <1>s, <3>1, <3>2, <3>3
  <2>2. CASE Attach(r)
    <3>1. pc'[r] = "attached" /\ att'[r] = id[r] /\ pc[r] = "attach"
          /\ UNCHANGED <<id, count, reach, got, settled>>
      BY <2>2 DEF Attach, TypeOK, Procs
    <3>3. reach[r] <= Size[made[id[r]]]
      BY <1>s, <1>z, <3>1
    <3> QED BY <1>s, <3>1, <3>3
  <2>3. CASE AttachFails(r) \/ Free(r) \/ ReaderCrash(r)
    <3>1. /\ pc'[r] = "idle" /\ att'[r] = None /\ id'[r] = None
          /\ count'[r] = None /\ reach'[r] = 0 /\ got'[r] = {} /\ settled'[r] = None
      BY <2>3 DEF AttachFails, Free, ReaderCrash, Answer, TypeOK, Procs
    <3> QED BY <3>1
  <2>4. Mapped(r) => att[r] = id[r] /\ id[r] \in Segs /\ 1 \in Cells(id[r])
    BY <1>h, <1>s, <1>z DEF Cells
  <2>5. CASE ReadCount(r)
    <3>1. PICK s \in Segs : s = att[r] /\ s = id[r] /\ 1 \in Cells(s)
      BY <2>4, <2>5 DEF ReadCount, Mapped
    <3>2. PICK d : d = cell[s][1]
      OBVIOUS
    <3>3. d \in Dicts
      BY <1>c, <2>5, <3>1, <3>2 DEF ReadCount, Divisor
    <3>4. /\ pc'[r] = "counted" /\ count'[r] = d /\ reach'[r] = 0
          /\ got'[r] = got[r] \union {d} /\ UNCHANGED <<id, att, settled>>
      BY <2>5, <3>1, <3>2 DEF ReadCount, TypeOK, Procs
    <3>6. /\ Size[d] <= Size[made[s]] /\ 0 <= Size[made[s]]
          /\ alone => d = made[s] /\ (Complete(s) => d = made[s])
      BY <1>c, <1>z, <3>1, <3>2, <3>3
    <3>7. pc[r] \in Held
      BY <1>h, <2>5 DEF ReadCount, Mapped
    <3>8. Shape(s, s, "counted", d, 0, got[r] \union {d}, settled[r])
      BY <1>s, <3>1, <3>3, <3>6, <3>7
    <3> QED BY <3>1, <3>3, <3>4, <3>8
  <2>6. CASE ReadHeader(r)
    <3>0. /\ pc[r] = "counted" /\ count[r] \in Dicts
          /\ Size[count[r]] <= Size[made[id[r]]] /\ count[r] \in got[r]
      BY <1>s, <2>6 DEF ReadHeader
    <3>1. PICK s \in Segs : s = att[r] /\ s = id[r]
      BY <2>4, <3>0 DEF Mapped
    <3>2. PICK j \in 1 .. Blocks[count[r]] :
            /\ reach' = [reach EXCEPT ![r] = Leads(j, cell[att[r]][j \div 2 + 1])]
            /\ got' = [got EXCEPT ![r] = @ \union {cell[att[r]][j \div 2 + 1]}]
      BY <2>6 DEF ReadHeader
    <3>3. j \div 2 + 1 \in Cells(s)
      <4>1. Blocks[count[r]] \in Nat /\ Blocks[count[r]] \div 2 + 2 <= Size[count[r]]
        BY <3>0, ShmAssumption
      <4>2. Size[made[s]] \in Nat /\ Size[count[r]] \in Nat
        BY <1>z, <3>0, <3>1
      <4>3. j \div 2 <= Blocks[count[r]] \div 2 /\ j \div 2 \in Nat
        BY <4>1
      <4> QED BY <3>0, <3>1, <4>1, <4>2, <4>3 DEF Cells
    <3>4. PICK d : d = cell[s][j \div 2 + 1]
      OBVIOUS
    <3>5. /\ d \in Dicts \union {None}
          /\ alone => d \in {None, made[s]} /\ (Complete(s) => d = made[s])
      BY <1>c, <3>1, <3>3, <3>4
    <3>6. Leads(j, d) \in Nat
      BY <3>5, ShmAssumption DEF Leads
    <3>7. alone /\ Sound(made[s]) => Leads(j, d) <= Size[made[s]]
      <4> SUFFICES ASSUME alone, Sound(made[s]), d # None PROVE Leads(j, d) <= Size[made[s]]
        BY <1>z, <3>1 DEF Leads
      <4>1. d = made[s] /\ count[r] = made[s]
        BY <1>s, <3>0, <3>1, <3>5
      <4>2. j <= Reached[made[s]]
        BY <3>2, <4>1, <1>z DEF Sound
      <4> QED BY <1>z, <4>1, <4>2 DEF Leads
    <3>8. /\ pc'[r] = "reading" /\ count'[r] = None /\ reach'[r] = Leads(j, d)
          /\ got'[r] = got[r] \union {d} /\ UNCHANGED <<id, att, settled>>
      BY <2>6, <3>1, <3>2, <3>4 DEF ReadHeader, TypeOK, Procs
    <3> QED BY <1>s, <3>0, <3>1, <3>5, <3>6, <3>7, <3>8
  <2>7. CASE ReadPlace(r)
    <3>0. PICK k \in 1 .. reach[r] :
            \/ /\ k \in Cells(att[r])
               /\ got' = [got EXCEPT ![r] = @ \union {cell[att[r]][k]}]
               /\ pc' = [pc EXCEPT ![r] = "reading"]
            \/ /\ k \notin Cells(att[r])
               /\ pc' = [pc EXCEPT ![r] = "outside"]
               /\ UNCHANGED got
      BY <2>7 DEF ReadPlace
    <3>1. PICK s \in Segs : s = att[r] /\ s = id[r]
      BY <2>4, <2>7 DEF ReadPlace, Mapped, Between
    <3>2. /\ UNCHANGED <<id, att, count, reach, settled>>
          /\ pc[r] \in Held /\ pc[r] # "counted" /\ pc'[r] \in {"reading", "outside"}
      BY <2>7, <3>0 DEF ReadPlace, TypeOK, Procs
    <3>3. CASE k \in Cells(s)
      <4>1. PICK d : d = cell[s][k]
        OBVIOUS
      <4>2. /\ d \in Dicts \union {None}
            /\ alone => d \in {None, made[s]} /\ (Complete(s) => d = made[s])
        BY <1>c, <3>1, <3>3, <4>1
      <4>3. got'[r] = got[r] \union {d} /\ pc'[r] = "reading"
        BY <3>0, <3>1, <3>3, <4>1 DEF TypeOK, Procs
      <4> QED BY <1>s, <3>1, <3>2, <4>2, <4>3
    <3>4. CASE k \notin Cells(s)
      <4>1. got'[r] = got[r] /\ pc'[r] = "outside"
        BY <3>0, <3>1, <3>4 DEF TypeOK, Procs
      <4>2. alone => ~Sound(made[s])
        <5> SUFFICES ASSUME alone, Sound(made[s]) PROVE FALSE
          OBVIOUS
        <5>1. reach[r] <= Size[made[s]] /\ Size[made[s]] \in Nat /\ reach[r] \in Nat
          BY <1>s, <1>z, <3>1, <3>2
        <5> QED BY <3>4, <5>1 DEF Cells
      <4> QED BY <1>s, <3>1, <3>2, <4>1, <4>2
    <3> QED BY <3>3, <3>4
  <2>8. CASE DivideByZero(r) \/ SegFault(r)
    <3>1. /\ pc'[r] = "faulted" /\ att'[r] = None /\ pc[r] \in Held
          /\ UNCHANGED <<id, count, reach, got, settled>>
      BY <2>8, <1>h DEF DivideByZero, SegFault, TypeOK, Procs, Mapped, Between
    <3>3. alone /\ settled[r] # None => ~Sound(settled[r])
      <4> SUFFICES ASSUME alone, settled[r] # None, Sound(settled[r]) PROVE FALSE
        OBVIOUS
      <4>1. /\ id[r] \in Segs /\ att[r] = id[r] /\ 1 \in Cells(id[r])
            /\ Complete(id[r]) /\ made[id[r]] = settled[r]
        BY <1>h, <1>s, <2>4, <3>1
      <4>2. pc[r] # "outside"
        BY <1>s, <3>1, <4>1
      <4>3. cell[att[r]][1] = settled[r]
        BY <4>1 DEF Complete
      <4>4. Divisor(r) = Blocks[settled[r]]
        BY <4>3 DEF Divisor
      <4>5. Divisor(r) = 0 \/ pc[r] = "outside"
        BY <2>8 DEF DivideByZero, SegFault
      <4> QED BY <4>2, <4>4, <4>5 DEF Sound
    <3> QED BY <1>s, <3>1, <3>3
  <2> QED BY <2>1, <2>2, <2>3, <2>5, <2>6, <2>7, <2>8 DEF ReaderStep
<1>1. /\ UNCHANGED <<key, made, cell, want, left, loads, alone>>
      /\ \A p \in Procs \ {r} : pc'[p] = pc[p] /\ id'[p] = id[p] /\ att'[p] = att[p]
      /\ \A p \in Readers \ {r} :
           /\ count'[p] = count[p] /\ reach'[p] = reach[p]
           /\ got'[p] = got[p] /\ settled'[p] = settled[p]
      /\ pc' \in [Procs -> Steps]
      /\ id' \in [Procs -> Segs \union {None}] /\ att' \in [Procs -> Segs \union {None}]
      /\ count' \in [Readers -> Dicts \union {None}] /\ reach' \in [Readers -> Nat]
      /\ got' \in [Readers -> SUBSET (Dicts \union {None})]
      /\ settled' \in [Readers -> Dicts \union {None}]
  <2>1. pc' \in [Procs -> Steps] /\ \A p \in Procs \ {r} : pc'[p] = pc[p]
    <3>1. r \in Procs /\ pc \in [Procs -> Steps]
      BY <1>r DEF TypeOK
    <3>2. Changed(pc, r, pc') /\ pc'[r] \in Steps
      BY <1>2, <1>u
    <3> QED BY ONLY <3>1, <3>2 DEF Changed
  <2>2. id' \in [Procs -> Segs \union {None}] /\ \A p \in Procs \ {r} : id'[p] = id[p]
    <3>1. r \in Procs /\ id \in [Procs -> Segs \union {None}]
      BY <1>r DEF TypeOK
    <3>2. Changed(id, r, id') /\ id'[r] \in Segs \union {None}
      BY <1>2, <1>u
    <3> QED BY ONLY <3>1, <3>2 DEF Changed
  <2>3. att' \in [Procs -> Segs \union {None}] /\ \A p \in Procs \ {r} : att'[p] = att[p]
    <3>1. r \in Procs /\ att \in [Procs -> Segs \union {None}]
      BY <1>r DEF TypeOK
    <3>2. Changed(att, r, att') /\ att'[r] \in Segs \union {None}
      BY <1>2, <1>u
    <3> QED BY ONLY <3>1, <3>2 DEF Changed
  <2>4. count' \in [Readers -> Dicts \union {None}] /\ \A p \in Readers \ {r} : count'[p] = count[p]
    <3>1. r \in Readers /\ count \in [Readers -> Dicts \union {None}]
      BY <1>r DEF TypeOK
    <3>2. Changed(count, r, count') /\ count'[r] \in Dicts \union {None}
      BY <1>2, <1>u
    <3> QED BY ONLY <3>1, <3>2 DEF Changed
  <2>5. reach' \in [Readers -> Nat] /\ \A p \in Readers \ {r} : reach'[p] = reach[p]
    <3>1. r \in Readers /\ reach \in [Readers -> Nat]
      BY <1>r DEF TypeOK
    <3>2. Changed(reach, r, reach') /\ reach'[r] \in Nat
      BY <1>2, <1>u
    <3> QED BY ONLY <3>1, <3>2 DEF Changed
  <2>6. got' \in [Readers -> SUBSET (Dicts \union {None})] /\ \A p \in Readers \ {r} : got'[p] = got[p]
    <3>1. r \in Readers /\ got \in [Readers -> SUBSET (Dicts \union {None})]
      BY <1>r DEF TypeOK
    <3>2. Changed(got, r, got') /\ got'[r] \in SUBSET (Dicts \union {None})
      BY <1>2, <1>u
    <3> QED BY ONLY <3>1, <3>2 DEF Changed
  <2>7. settled' \in [Readers -> Dicts \union {None}] /\ \A p \in Readers \ {r} : settled'[p] = settled[p]
    <3>1. r \in Readers /\ settled \in [Readers -> Dicts \union {None}]
      BY <1>r DEF TypeOK
    <3>2. Changed(settled, r, settled') /\ settled'[r] \in Dicts \union {None}
      BY <1>2, <1>u
    <3> QED BY ONLY <3>1, <3>2 DEF Changed
  <2> QED BY <1>u, <2>1, <2>2, <2>3, <2>4, <2>5, <2>6, <2>7
<1>3. TypeOK'
  BY <1>1 DEF TypeOK, Segs, Cells, Arrays
<1>4. SegsFit' /\ LoadersFit'
  <2>1. \A l \in Loaders : pc'[l] = pc[l] /\ id'[l] = id[l] /\ att'[l] = att[l]
    BY <1>1 DEF Procs
  <2>2. SegsFit'
    BY <1>1 DEF IndInv, Fits, SegsFit, Segs, Cells
  <2>3. LoadersFit'
    BY <1>1, <2>1 DEF IndInv, Fits, LoadersFit
  <2> QED BY <2>2, <2>3
<1>5. ASSUME NEW p \in Readers PROVE ReaderFits(p)' /\ (alone' => ReaderShape(p)')
  <2>1. CASE p = r
    <3>1. ReaderFits(r)'
      BY <1>1, <1>2 DEF ReaderFits, Mapped, Between
    <3>2. alone' => ReaderShape(r)'
      BY <1>1, <1>2 DEF ReaderShape, Mapped, Between, Complete, Cells, Sound
    <3> QED BY <2>1, <3>1, <3>2
  <2>2. CASE p # r
    <3>1. /\ pc'[p] = pc[p] /\ id'[p] = id[p] /\ att'[p] = att[p]
          /\ count'[p] = count[p] /\ reach'[p] = reach[p]
          /\ got'[p] = got[p] /\ settled'[p] = settled[p]
      BY <1>1, <2>2 DEF Procs
    <3>2. ReaderFits(p) /\ (alone => ReaderShape(p))
      BY DEF IndInv, Fits, AloneInv
    <3> QED BY <1>1, <3>1, <3>2 DEF ReaderFits, ReaderShape, Mapped, Between, Complete,
                                    Cells, Sound
  <2> QED BY <2>1, <2>2
<1>6. alone' => OneLoader' /\ Unmixed'
  <2>1. \A l \in Loaders : pc'[l] = pc[l] /\ id'[l] = id[l] /\ att'[l] = att[l]
    BY <1>1 DEF Procs
  <2>2. /\ \A x : Cells(x)' = Cells(x) /\ (Complete(x)' <=> Complete(x))
        /\ Segs' = Segs
    BY <1>1 DEF Cells, Complete, Segs
  <2>3. alone' => OneLoader'
    BY <1>1, <2>1, <2>2 DEF IndInv, AloneInv, OneLoader
  <2>4. alone' => Unmixed'
    BY <1>1, <2>2 DEF IndInv, AloneInv, Unmixed
  <2> QED BY <2>3, <2>4
<1> QED BY <1>3, <1>4, <1>5, <1>6 DEF IndInv, Fits, AloneInv

\* Every step keeps the invariant.
LEMMA NextIndInv == IndInv /\ [Next]_vars => IndInv'
<1> SUFFICES ASSUME IndInv, [Next]_vars PROVE IndInv'
  OBVIOUS
<1>1. ASSUME NEW l \in Loaders, LoaderStep(l) PROVE IndInv'
  <2>1. CASE CreateFails(l) \/ AttachNewFails(l) \/ Loaded(l) \/ LoaderCrash(l)
    BY <2>1, ReturnStep DEF CreateFails, AttachNewFails, Loaded, LoaderCrash, segVars
  <2> QED
    BY <1>1, <2>1, UnloadStep, ReuseStep, AttachNewStep, CreateStep, CopyStep
       DEF LoaderStep
<1>2. ASSUME NEW r \in Readers, ReaderStep(r) PROVE IndInv'
  BY <1>2, ReaderStepInv
<1>3. CASE UNCHANGED vars
  <2>1. TypeOK'
    BY <1>3 DEF vars, IndInv, TypeOK, Segs, Cells, Arrays
  <2>2. SegsFit' /\ LoadersFit'
    BY <1>3 DEF vars, IndInv, Fits, SegsFit, LoadersFit, Segs, Cells
  <2>3. \A r \in Readers : ReaderFits(r)'
    BY <1>3 DEF vars, IndInv, Fits, ReaderFits, Mapped, Between
  <2>4. alone' => OneLoader' /\ Unmixed'
    BY <1>3 DEF vars, IndInv, AloneInv, OneLoader, Unmixed, Segs, Cells, Complete
  <2>5. alone' => \A r \in Readers : ReaderShape(r)'
    BY <1>3 DEF vars, IndInv, AloneInv, ReaderShape, Mapped, Between, Cells, Complete, Sound
  <2> QED BY <2>1, <2>2, <2>3, <2>4, <2>5 DEF IndInv, Fits, AloneInv
<1> QED BY <1>1, <1>2, <1>3 DEF Next

\* IndInv holds throughout: the shape of segments, of what loaders are putting
\* into them and of what readers have taken out.
THEOREM Invariance == Spec => []IndInv
BY InitIndInv, NextIndInv, PTL DEF Spec

\* While loads do not overlap, no lookup in a sound dictionary leaves its
\* segment, however much of the copy it finds done.
THEOREM ReadersStayInside == Spec => []ReadsInside
<1>1. IndInv => ReadsInside
  BY DEF IndInv, Fits, ReaderFits, AloneInv, ReaderShape, ReadsInside, Mapped, Between
<1> QED BY <1>1, Invariance, PTL

\* While loads do not overlap, no call mixes two dictionaries, whatever is
\* loaded or unloaded under it and wherever a load dies.
THEOREM CallsSeeOneDictionary == Spec => []OneDictionary
<1>1. IndInv => OneDictionary
  BY DEF IndInv, Fits, ReaderFits, AloneInv, ReaderShape, OneDictionary, Named
<1> QED BY <1>1, Invariance, PTL

\* While loads do not overlap, a call that begins with a whole dictionary in
\* force reads that one and nothing else.
THEOREM SettledReads == Spec => []SettledRead
<1>1. IndInv => SettledRead
  BY DEF IndInv, AloneInv, ReaderShape, SettledRead
<1> QED BY <1>1, Invariance, PTL

\* While loads do not overlap, a load that is about to return 0 has put its
\* whole dictionary in force.
THEOREM LoadsReport == Spec => []LoadReports
<1>1. IndInv => LoadReports
  BY DEF IndInv, Fits, LoadersFit, AloneInv, OneLoader, LoadReports
<1> QED BY <1>1, Invariance, PTL
=============================================================================
