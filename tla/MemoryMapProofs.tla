-------------------------- MODULE MemoryMapProofs --------------------------
(***************************************************************************)
(* Proofs about MemoryMap, for every number of pages and frames, every     *)
(* size and order of calls and every failure.  No entry of the page table  *)
(* dangles, a frame has one owner, and all variables have their types; and *)
(* as long as no mapping is odd, the mappings are disjoint and the page    *)
(* table is what they say, a call that succeeds did what it is for, and    *)
(* what the program wrote stays where it belongs and shows nowhere else.   *)
(***************************************************************************)
EXTENDS MemoryMap, WellFoundedInduction, FiniteSetTheorems, TLAPS

\* The prover of the steps that name none.
USE ZenonT(30)

\* The places in the Vec are bounded, buffers have frames and ranks, there is
\* a buffer whenever one is to be mapped, and rebuild holds its frame until
\* it is mapped.
ShapeInv ==
  /\ DOMAIN maps = Frames
  /\ pos \in [Frames -> 0 .. Cardinality(Frames)]
  /\ foreign \subseteq Frames
  /\ hand \in Frames \cup {NoPage}
  /\ \A k \in keeps : k.frame \in Frames /\ k.rank \in Nat
  /\ pc = "remap" => keeps # {}

\* A call that is to place rebuild's frame has it.
JobInv ==
  /\ DOMAIN job = DOMAIN NoJob
  /\ job.then \in {"idle", "alloc", "done", "rebuild", "place"}
  /\ pc = "place" => job.then = "place"
  /\ pc \in {"tear", "remap", "place"} /\ job.then = "place" => hand # NoPage

IInv == ShapeInv /\ JobInv /\ OneOwner /\ NoDangling

-----------------------------------------------------------------------------
(* The choices *)

\* A non-empty set of natural numbers has a minimum, and Min is it: the first
\* mapping or gap that a loop over the Vec finds is one it looks for.
LEMMA MinIsMember ==
  ASSUME NEW S \in SUBSET Nat, S # {}
  PROVE  Min(S) \in S /\ \A y \in S : Min(S) =< y
<1>1. IsWellFoundedOn(OpToRel(<, Nat), Nat)
  BY NatLessThanWellFounded, Zenon
<1>2. PICK x \in S : \A y \in S : ~ (<<y, x>> \in OpToRel(<, Nat))
  BY <1>1, WFMin, Zenon
<1>3. \A y \in S : x =< y
  <2> SUFFICES ASSUME NEW y \in S PROVE x =< y
    OBVIOUS
  <2>1. ~ (<<y, x>> \in {ss \in Nat \X Nat : ss[1] < ss[2]})
    BY <1>2, Zenon DEF OpToRel
  <2> QED BY <2>1, SMT
<1> QED BY <1>3 DEF Min

\* The last of some mappings in the Vec is one of them.
LEMMA LastIsMember ==
  ASSUME pos \in [Frames -> 0 .. Cardinality(Frames)],
         NEW S \in SUBSET Frames, S # {}
  PROVE  Last(S) \in S
<1> DEFINE c == Cardinality(Frames)
           D == {c - pos[i] : i \in S}
<1>1. c \in Nat
  BY FS_CardinalityType, FramesAssumption
<1>2. \A i \in S : pos[i] \in Nat /\ c - pos[i] \in Nat
  BY <1>1, SMT
<1>3. D \in SUBSET Nat /\ D # {}
  BY <1>2
<1>4. Min(D) \in D /\ \A y \in D : Min(D) =< y
  BY <1>3, MinIsMember
<1>5. PICK m \in S : c - pos[m] = Min(D)
  BY <1>4
<1>6. \A j \in S : pos[j] =< pos[m]
  <2> SUFFICES ASSUME NEW j \in S PROVE pos[j] =< pos[m]
    OBVIOUS
  <2>1. c - pos[j] \in D
    OBVIOUS
  <2>2. c - pos[m] =< c - pos[j]
    BY <2>1, <1>4, <1>5
  <2> QED BY <2>2, <1>1, <1>2, SMT
<1> QED BY <1>6 DEF Last

\* unmap_range has a next buffer to map.
LEMMA NextKeepIsMember ==
  ASSUME ShapeInv, pc = "remap"
  PROVE  NextKeep \in keeps
<1> DEFINE R == {k.rank : k \in keeps}
<1>1. R \in SUBSET Nat /\ R # {}
  BY DEF ShapeInv
<1>2. Min(R) \in R /\ \A y \in R : Min(R) =< y
  BY <1>1, MinIsMember
<1>3. PICK m \in keeps : m.rank = Min(R)
  BY <1>2
<1>4. \A l \in keeps : m.rank =< l.rank
  BY <1>2, <1>3
<1> QED BY <1>4 DEF NextKeep

\* A set of mappings has no more members than there are frames.
LEMMA CountBound ==
  ASSUME NEW S \in SUBSET Frames
  PROVE  /\ IsFiniteSet(S)
         /\ Cardinality(S) \in 0 .. Cardinality(Frames)
         /\ \A i \in Frames \ S : Cardinality(S) + 1 \in 0 .. Cardinality(Frames)
<1>1. IsFiniteSet(S) /\ Cardinality(S) =< Cardinality(Frames)
  BY FS_Subset, FramesAssumption
<1>2. Cardinality(S) \in Nat /\ Cardinality(Frames) \in Nat
  BY <1>1, FS_CardinalityType, FramesAssumption
<1>3. ASSUME NEW i \in Frames \ S
      PROVE  Cardinality(S) + 1 \in 0 .. Cardinality(Frames)
  <2>1. Cardinality(S \cup {i}) = Cardinality(S) + 1
    BY <1>1, FS_AddElement
  <2>2. S \cup {i} \in SUBSET Frames
    OBVIOUS
  <2>3. Cardinality(S \cup {i}) =< Cardinality(Frames)
    BY <2>2, FS_Subset, FramesAssumption
  <2> QED BY <2>1, <2>3, <1>2, SMT
<1> QED BY <1>1, <1>2, <1>3, SMT

-----------------------------------------------------------------------------
(* map_frame *)

\* map_frame of a frame that backs no mapping adds the mapping and leaves no
\* dangling entry, whatever it maps over.
LEMMA MapFrameKeeps ==
  ASSUME ShapeInv, NoDangling, NEW i \in Frames \ Live, NEW va, NEW size, NEW rwx,
         MapFrame(va, i, size, rwx)
  PROVE  /\ NoDangling'
         /\ Live' \subseteq Live \cup {i}
         /\ DOMAIN maps' = Frames
         /\ pos' \in [Frames -> 0 .. Cardinality(Frames)]
<1> DEFINE new == [va |-> va, size |-> size, rwx |-> rwx]
<1>1. maps' = [maps EXCEPT ![i] = new] /\ DOMAIN maps = Frames
  BY DEF MapFrame, ShapeInv
<1>2. DOMAIN maps' = Frames /\ maps'[i] = new /\ \A j \in Frames \ {i} : maps'[j] = maps[j]
  BY <1>1
<1>3. Live' \subseteq Live \cup {i}
  BY <1>2 DEF Live
<1>4. pos' \in [Frames -> 0 .. Cardinality(Frames)]
  <2>1. Live \in SUBSET Frames
    BY DEF Live
  <2>2. Cardinality(Live) + 1 \in 0 .. Cardinality(Frames)
    BY <2>1, CountBound
  <2> QED BY <2>2 DEF MapFrame, ShapeInv
<1>5. NoDangling'
  <2> SUFFICES ASSUME NEW p \in Pages, pte'[p] # NoPage
               PROVE  /\ pte'[p][1] \in Live' /\ maps'[pte'[p][1]].rwx
                      /\ p \in PagesOf(maps'[pte'[p][1]].va, maps'[pte'[p][1]].size)
                      /\ pte'[p][2] = p - maps'[pte'[p][1]].va
    BY DEF NoDangling, mapping_range, PagesOf, Pages
  <2>1. CASE rwx /\ p \in PagesOf(va, size)
    <3>1. pte'[p] = <<i, p - va>>
      BY <2>1 DEF MapFrame
    <3>2. new # NoMapping
      BY <2>1 DEF NoMapping
    <3>3. i \in Live'
      BY <3>2, <1>2 DEF Live
    <3> QED BY <2>1, <3>1, <3>3, <1>2, SMT
  <2>2. CASE ~ (rwx /\ p \in PagesOf(va, size))
    <3>1. pte'[p] = pte[p]
      BY <2>2 DEF MapFrame
    <3> DEFINE j == pte[p][1]
    <3>2. j \in Live /\ maps[j].rwx /\ p \in PagesOf(maps[j].va, maps[j].size)
          /\ pte[p][2] = p - maps[j].va
      BY <3>1 DEF NoDangling, mapping_range
    <3>3. j \in Frames \ {i}
      BY <3>2 DEF Live
    <3>4. maps'[j] = maps[j] /\ j \in Live'
      BY <3>2, <3>3, <1>2 DEF Live
    <3> QED BY <3>1, <3>2, <3>4
  <2> QED BY <2>1, <2>2
<1> QED BY <1>2, <1>3, <1>4, <1>5

\* Clearing entries makes none dangle.
LEMMA ClearedKeeps ==
  ASSUME NoDangling, NEW S, pte' = Cleared(S), UNCHANGED maps
  PROVE  NoDangling'
BY DEF NoDangling, Cleared, Live, mapping_range, PagesOf

\* A map_frame that fails leaves no dangling entry.
LEMMA MapFrameFailsKeeps ==
  ASSUME NoDangling, NEW va, NEW size, NEW rwx, MapFrameFails(va, size, rwx)
  PROVE  NoDangling' /\ UNCHANGED <<maps, pos>>
<1>1. PICK q \in PagesOf(va, size) : pte' = RolledBack(va, q)
  BY DEF MapFrameFails
<1>2. UNCHANGED <<maps, pos>>
  BY DEF MapFrameFails
<1> QED BY <1>1, <1>2, ClearedKeeps DEF RolledBack

-----------------------------------------------------------------------------
(* The steps *)

\* What a step that creates no mapping of its own and touches neither the
\* buffers nor rebuild's frame leaves as it is.
LEMMA CallStep ==
  ASSUME IInv, UNCHANGED <<mapVars, foreign, keeps, hand>>,
         pc' \in {"tear", "alloc", "rebuild", "idle"},
         DOMAIN job' = DOMAIN NoJob, job'.then \in {"idle", "alloc", "done", "rebuild"}
  PROVE  IInv'
<1>1. ShapeInv'
  BY DEF IInv, ShapeInv, mapVars
<1>2. JobInv'
  BY DEF JobInv
<1>3. OneOwner'
  BY DEF IInv, OneOwner, Live, mapVars
<1>4. NoDangling'
  BY DEF IInv, NoDangling, Live, mapping_range, PagesOf, mapVars
<1> QED BY <1>1, <1>2, <1>3, <1>4 DEF IInv

\* A failing step drops the buffers and rebuild's frame.
LEMMA FailStep ==
  ASSUME IInv, NEW t, Fail(t), UNCHANGED <<maps, pos, foreign, job>>, NoDangling'
  PROVE  IInv'
<1>1. pc' = "failed" /\ keeps' = {} /\ hand' = NoPage
  BY DEF Fail
<1>2. ShapeInv'
  BY <1>1 DEF IInv, ShapeInv
<1>3. JobInv'
  BY <1>1 DEF IInv, JobInv
<1>4. OneOwner'
  BY <1>1, FramesAssumption DEF IInv, OneOwner, Live, ShapeInv
<1> QED BY <1>2, <1>3, <1>4 DEF IInv

\* Tearing: the buffers get free frames, and no entry of a mapping that goes
\* stays.
LEMMA TearStep ==
  ASSUME IInv, Tear
  PROVE  IInv'
<1> USE DEF overlapping_indices
<1> DEFINE over == Overlapping(job.lo, job.hi)
<1>1. PICK f \in [Pieces -> FreeFrames] :
        /\ \A k, l \in Pieces : f[k] = f[l] => k = l
        /\ keeps' = {Buffer(k, f[k]) : k \in Pieces}
  BY DEF Tear
<1>2. /\ maps' = [i \in Frames |-> IF i \in over THEN NoMapping ELSE maps[i]]
      /\ pte' = Cleared(TornPages(over))
      /\ UNCHANGED <<foreign, hand>>
      /\ job' = [job EXCEPT !.torn = @ \/ over # {}]
      /\ pc = "tear"
      /\ pc' = AfterKeeps(Pieces)
  BY DEF Tear
<1>3. Live' = Live \ over
  BY <1>2 DEF Live
<1>4. \A k \in keeps' : /\ k.frame \in FreeFrames
                        /\ \E l \in Pieces : k = Buffer(l, f[l]) /\ k.frame = f[l]
                                             /\ k.rank = l.rank
  BY <1>1, SMT DEF Buffer
<1>5. \A k \in Pieces : k.rank \in Nat
  <2>1. \A i \in Overlapping(job.lo, job.hi) : pos[i] \in Nat
    BY SMT DEF IInv, ShapeInv, Overlapping, Live
  <2> QED BY <2>1, SMT DEF Pieces
<1>6. pos' \in [Frames -> 0 .. Cardinality(Frames)]
  <2>1. \A i \in Frames : {j \in Live \ over : pos[j] =< pos[i]} \in SUBSET Frames
    BY DEF Live
  <2>2. \A i \in Frames : Cardinality({j \in Live \ over : pos[j] =< pos[i]})
                            \in 0 .. Cardinality(Frames)
    BY <2>1, CountBound
  <2>3. 0 \in 0 .. Cardinality(Frames)
    BY FS_CardinalityType, FramesAssumption, SMT
  <2>4. pos' = [i \in Frames |-> IF i \in Live \ over
                                 THEN Cardinality({j \in Live \ over : pos[j] =< pos[i]})
                                 ELSE 0]
    BY DEF Tear
  <2> QED BY <2>2, <2>3, <2>4
<1>7. ShapeInv'
  <2>1. DOMAIN maps' = Frames
    BY <1>2
  <2>2. \A k \in keeps' : k.frame \in Frames /\ k.rank \in Nat
    BY <1>4, <1>5 DEF FreeFrames
  <2>3. pc' = "remap" => keeps' # {}
    BY <1>1, <1>2, SMT DEF AfterKeeps, IInv, JobInv
  <2> QED BY <2>1, <2>2, <2>3, <1>2, <1>6 DEF ShapeInv, IInv
<1>8. JobInv'
  <2>1. DOMAIN job' = DOMAIN NoJob /\ job'.then = job.then
    BY <1>2 DEF IInv, JobInv, NoJob
  <2>2. pc' = "place" => job.then = "place"
    BY <1>2 DEF AfterKeeps
  <2> QED BY <2>1, <2>2, <1>2 DEF IInv, JobInv
<1>9. OneOwner'
  <2>1. Live' \cap foreign' = {} /\ hand' \notin Live' \cup foreign'
    BY <1>2, <1>3 DEF IInv, OneOwner
  <2>2. \A k \in keeps' : k.frame \notin Live' \cup foreign' \cup {hand'}
    BY <1>2, <1>3, <1>4 DEF FreeFrames, Owned
  <2>3. ASSUME NEW k \in keeps', NEW l \in keeps', k.frame = l.frame
        PROVE  k = l
    <3>1. PICK a \in Pieces : k = Buffer(a, f[a]) /\ k.frame = f[a]
      BY <1>4
    <3>2. PICK b \in Pieces : l = Buffer(b, f[b]) /\ l.frame = f[b]
      BY <1>4
    <3>3. a = b
      BY <3>1, <3>2, <2>3, <1>1
    <3> QED BY <3>1, <3>2, <3>3
  <2> QED BY <2>1, <2>2, <2>3 DEF OneOwner
<1>10. NoDangling'
  <2> SUFFICES ASSUME NEW p \in Pages, pte'[p] # NoPage
               PROVE  /\ pte'[p][1] \in Live' /\ maps'[pte'[p][1]].rwx
                      /\ p \in PagesOf(maps'[pte'[p][1]].va, maps'[pte'[p][1]].size)
                      /\ pte'[p][2] = p - maps'[pte'[p][1]].va
    BY DEF NoDangling, mapping_range, PagesOf, Pages
  <2>1. pte'[p] = pte[p] /\ p \notin TornPages(over)
    BY <1>2 DEF Cleared
  <2> DEFINE i == pte[p][1]
  <2>2. i \in Live /\ maps[i].rwx /\ p \in mapping_range(i) /\ pte[p][2] = p - maps[i].va
    BY <2>1 DEF IInv, NoDangling
  <2>3. i \notin over
    BY <2>1, <2>2 DEF TornPages
  <2>4. maps'[i] = maps[i] /\ i \in Live'
    BY <2>2, <2>3, <1>2, <1>3 DEF Live
  <2> QED BY <2>1, <2>2, <2>4 DEF mapping_range
<1> QED BY <1>7, <1>8, <1>9, <1>10 DEF IInv

\* A step that maps a buffer, rebuild's frame or a free frame: whoever owned
\* it, the mapping does now.
LEMMA MapStep ==
  ASSUME IInv, NEW i \in Frames, NEW va, NEW size, NEW rwx,
         MapFrame(va, i, size, rwx), i \notin Live \cup foreign,
         foreign' = foreign, keeps' \subseteq keeps, hand' \in {hand, NoPage},
         \A k \in keeps' : k.frame # i, hand' # i,
         pc' = "remap" => keeps' # {}, JobInv'
  PROVE  IInv'
<1>1. /\ NoDangling'
      /\ Live' \subseteq Live \cup {i}
      /\ DOMAIN maps' = Frames
      /\ pos' \in [Frames -> 0 .. Cardinality(Frames)]
  BY MapFrameKeeps DEF IInv
<1>2. ShapeInv'
  BY <1>1 DEF IInv, ShapeInv
<1>3. OneOwner'
  <2>1. NoPage \notin Live' \cup foreign'
    BY FramesAssumption DEF Live, IInv, ShapeInv
  <2>2. Live' \cap foreign' = {} /\ hand' \notin Live' \cup foreign'
    BY <1>1, <2>1 DEF IInv, OneOwner
  <2>3. \A k \in keeps' : k.frame \notin Live' \cup foreign' \cup {hand'}
    BY <1>1, FramesAssumption DEF IInv, OneOwner, ShapeInv
  <2>4. \A k, l \in keeps' : k.frame = l.frame => k = l
    BY DEF IInv, OneOwner
  <2> QED BY <2>2, <2>3, <2>4 DEF OneOwner
<1> QED BY <1>1, <1>2, <1>3 DEF IInv

\* Cloning: every entry of the child is a page of the child's own copy of the
\* mapping that covers it.
LEMMA CloneStep ==
  ASSUME IInv, Clone
  PROVE  IInv'
<1>1. PICK f \in [Live -> FreeFrames] :
        /\ \A i, j \in Live : f[i] = f[j] => i = j
        /\ maps' = [x \in Frames |-> IF x \in {f[i] : i \in Live}
                                     THEN maps[CHOOSE i \in Live : f[i] = x] ELSE NoMapping]
        /\ pos' = [x \in Frames |-> IF x \in {f[i] : i \in Live}
                                    THEN pos[CHOOSE i \in Live : f[i] = x] ELSE 0]
        /\ pte' = [p \in Pages |-> ChildEntry(f, p)]
  BY DEF Clone
<1>2. foreign' = Live /\ UNCHANGED <<pc, job, keeps, hand>>
  BY DEF Clone
<1>3. \A i \in Live : f[i] \in Frames /\ f[i] \notin Owned /\ (CHOOSE j \in Live : f[j] = f[i]) = i
  BY <1>1 DEF FreeFrames
<1>4. \A i \in Live : maps'[f[i]] = maps[i] /\ f[i] \in Live'
  BY <1>1, <1>3 DEF Live
<1>5. \A x \in Live' : \E i \in Live : x = f[i]
  BY <1>1 DEF Live
<1>6. ShapeInv'
  <2>1. 0 \in 0 .. Cardinality(Frames)
    BY FS_CardinalityType, FramesAssumption, SMT
  <2>2. pos' \in [Frames -> 0 .. Cardinality(Frames)]
    <3>1. \A x \in {f[i] : i \in Live} : (CHOOSE i \in Live : f[i] = x) \in Frames
      BY <1>3 DEF Live
    <3> QED BY <3>1, <1>1, <2>1 DEF IInv, ShapeInv
  <2>3. foreign' \subseteq Frames
    BY <1>2 DEF Live
  <2> QED BY <1>1, <1>2, <2>2, <2>3 DEF IInv, ShapeInv
<1>7. JobInv'
  BY <1>2 DEF IInv, JobInv
<1>8. OneOwner'
  <2>1. ASSUME NEW x \in Live' PROVE x \notin Owned
    <3>1. PICK i \in Live : x = f[i]
      BY <1>5
    <3> QED BY <3>1, <1>3
  <2>2. Live' \cap foreign' = {} /\ hand' \notin Live' \cup foreign'
    BY <1>2, <2>1 DEF IInv, OneOwner, Owned
  <2>3. \A k \in keeps' : k.frame \notin Live' \cup foreign' \cup {hand'}
    BY <1>2, <2>1 DEF IInv, OneOwner, Owned
  <2> QED BY <1>2, <2>2, <2>3 DEF IInv, OneOwner
<1>9. NoDangling'
  <2> SUFFICES ASSUME NEW p \in Pages, pte'[p] # NoPage
               PROVE  /\ pte'[p][1] \in Live' /\ maps'[pte'[p][1]].rwx
                      /\ p \in PagesOf(maps'[pte'[p][1]].va, maps'[pte'[p][1]].size)
                      /\ pte'[p][2] = p - maps'[pte'[p][1]].va
    BY DEF NoDangling, mapping_range, PagesOf, Pages
  <2> DEFINE covers == {i \in Live : maps[i].rwx /\ p \in mapping_range(i)}
             l == Last(covers)
  <2>1. pte'[p] = ChildEntry(f, p)
    BY <1>1
  <2>2. covers # {}
    <3> SUFFICES ASSUME covers = {} PROVE FALSE
      OBVIOUS
    <3>1. pte[p] # NoPage
      BY <2>1 DEF ChildEntry
    <3>2. pte[p][1] \in covers
      BY <3>1 DEF IInv, NoDangling
    <3> QED BY <3>2
  <2>3. l \in covers
    <3>1. covers \in SUBSET Frames
      BY DEF Live
    <3> QED BY <3>1, <2>2, LastIsMember DEF IInv, ShapeInv
  <2> HIDE DEF l
  <2>4. pte'[p] = <<f[l], p - maps[l].va>>
    BY <2>1, <2>2 DEF ChildEntry, l
  <2>5. maps'[f[l]] = maps[l] /\ f[l] \in Live' /\ maps[l].rwx /\ p \in mapping_range(l)
    BY <2>3, <1>4
  <2> QED BY <2>4, <2>5, SMT DEF mapping_range
<1> QED BY <1>6, <1>7, <1>8, <1>9 DEF IInv

-----------------------------------------------------------------------------
(* The theorems *)

\* The stack that load_elf maps is the only mapping at first.
LEMMA InitIInv == Init => IInv
<1> SUFFICES ASSUME Init PROVE IInv
  OBVIOUS
<1> DEFINE n == FramePages(StackPages)
           low == USER_STACK_LOWER_BOUND
<1>1. PICK i \in Frames :
        /\ maps = [x \in Frames |-> IF x # i THEN NoMapping
                     ELSE [va |-> low, size |-> n, rwx |-> TRUE]]
        /\ pos = [x \in Frames |-> IF x = i THEN 1 ELSE 0]
        /\ pte = [p \in Pages |-> IF p \in PagesOf(low, n) THEN <<i, p - low>> ELSE NoPage]
  BY DEF Init
<1> HIDE DEF n, low
<1>2. maps[i] = [va |-> low, size |-> n, rwx |-> TRUE] /\ Live = {i}
  BY <1>1 DEF Live, NoMapping
<1>3. ShapeInv
  <2>1. {} \in SUBSET Frames /\ i \in Frames \ {}
    OBVIOUS
  <2>2. Cardinality({}) + 1 \in 0 .. Cardinality(Frames)
    BY <2>1, CountBound
  <2>3. 1 \in 0 .. Cardinality(Frames) /\ 0 \in 0 .. Cardinality(Frames)
    BY <2>2, FS_EmptySet, FS_CardinalityType, FramesAssumption, SMT
  <2>4. DOMAIN maps = Frames /\ pos \in [Frames -> 0 .. Cardinality(Frames)]
    BY <1>1, <2>3
  <2> QED BY <2>4 DEF Init, ShapeInv
<1>4. JobInv
  BY DEF Init, JobInv, NoJob
<1>5. OneOwner
  BY <1>2, FramesAssumption DEF Init, OneOwner
<1>6. NoDangling
  <2> SUFFICES ASSUME NEW p \in Pages, pte[p] # NoPage
               PROVE  /\ pte[p][1] \in Live /\ maps[pte[p][1]].rwx
                      /\ p \in mapping_range(pte[p][1])
                      /\ pte[p][2] = p - maps[pte[p][1]].va
    BY DEF NoDangling
  <2>1. pte[p] = <<i, p - low>> /\ p \in PagesOf(low, n)
    BY <1>1
  <2> QED BY <1>2, <2>1, SMT DEF mapping_range
<1> QED BY <1>3, <1>4, <1>5, <1>6 DEF IInv

\* The beginning of a call changes no mapping.
LEMMA CallKeeps ==
  ASSUME IInv, Call
  PROVE  IInv'
<1>1. PICK addr \in Addrs, n \in Lens :
    \/ \E how \in {"hint", "fixed", "noreplace"}, rwx \in BOOLEAN : mmap(addr, n, how, rwx)
    \/ \E ragged \in BOOLEAN : munmap(addr, n, ragged)
    \/ \E size \in Lens :
         \/ mremap_in_place(addr, n, size)
         \/ mremap_maymove(addr, n, size)
         \/ \E dest \in Addrs : mremap_fixed(addr, n, size, dest)
  BY DEF Call
<1>2. ASSUME NEW how \in {"hint", "fixed", "noreplace"}, NEW rwx \in BOOLEAN,
             mmap(addr, n, how, rwx)
      PROVE  IInv'
  <2>1. /\ UNCHANGED <<mapVars, foreign, keeps, hand>>
        /\ pc' \in {"tear", "alloc"}
        /\ DOMAIN job' = DOMAIN NoJob /\ job'.then = "alloc"
    BY <1>2 DEF mmap, NoJob
  <2> QED BY <2>1, CallStep
<1>3. ASSUME NEW ragged \in BOOLEAN, munmap(addr, n, ragged)
      PROVE  IInv'
  <2>1. /\ UNCHANGED <<mapVars, foreign, keeps, hand>>
        /\ pc' = "tear"
        /\ DOMAIN job' = DOMAIN NoJob /\ job'.then = "done"
    BY <1>3 DEF munmap, NoJob
  <2> QED BY <2>1, CallStep
<1>4. ASSUME NEW dest, NEW size, NEW t \in {"tear", "rebuild"}, Mremap(addr, n, dest, size, t)
      PROVE  IInv'
  <2>1. /\ UNCHANGED <<mapVars, foreign, keeps, hand>>
        /\ pc' \in {"tear", "rebuild"}
        /\ DOMAIN job' = DOMAIN NoJob /\ job'.then = "rebuild"
    BY <1>4 DEF Mremap, NoJob
  <2> QED BY <2>1, CallStep
<1> QED
  BY <1>1, <1>2, <1>3, <1>4 DEF mremap_in_place, mremap_maymove, mremap_fixed

\* Every step of a call keeps the invariant.
LEMMA StepKeeps ==
  ASSUME IInv, Step
  PROVE  IInv'
<1>1. CASE Tear
  BY <1>1, TearStep
<1>2. ASSUME NEW t, Fail(t), UNCHANGED <<mapVars, foreign, job>>
      PROVE  IInv'
  <2>1. NoDangling'
    BY <1>2 DEF IInv, NoDangling, Live, mapping_range, PagesOf, mapVars
  <2> QED BY <1>2, <2>1, FailStep DEF mapVars
<1>3. CASE TearFails \/ AllocFails \/ RebuildFaults
  BY <1>2, <1>3 DEF TearFails, AllocFails, RebuildFaults
<1>4. CASE Remap
  <2> DEFINE k == NextKeep
  <2>1. k \in keeps
    BY <1>4, NextKeepIsMember DEF IInv, Remap
  <2> HIDE DEF k
  <2>2. /\ MapFrame(k.va, k.frame, k.size, k.rwx)
        /\ keeps' = keeps \ {k}
        /\ pc' = AfterKeeps(keeps \ {k})
        /\ UNCHANGED <<foreign, job, hand>>
        /\ pc = "remap"
    BY <1>4 DEF Remap, k
  <2>3. k.frame \in Frames /\ k.frame \notin Live \cup foreign /\ hand # k.frame
    BY <2>1 DEF IInv, ShapeInv, OneOwner
  <2>4. \A l \in keeps' : l.frame # k.frame
    BY <2>1, <2>2 DEF IInv, OneOwner
  <2>5. pc' = "remap" => keeps' # {}
    BY <2>2 DEF AfterKeeps, IInv, JobInv
  <2>6. JobInv'
    BY <2>2 DEF AfterKeeps, IInv, JobInv
  <2> QED BY <2>2, <2>3, <2>4, <2>5, <2>6, MapStep
<1>5. ASSUME NEW t, NEW va, NEW size, NEW rwx, Fail(t), MapFrameFails(va, size, rwx),
             UNCHANGED <<foreign, job>>
      PROVE  IInv'
  <2>1. NoDangling' /\ UNCHANGED <<maps, pos>>
    BY <1>5, MapFrameFailsKeeps DEF IInv
  <2> QED BY <1>5, <2>1, FailStep
<1>6. CASE RemapFails \/ PlaceFails
  BY <1>5, <1>6 DEF RemapFails, PlaceFails
<1>7. CASE mmap_maps
  <2> DEFINE size == FramePages(job.hi - job.lo)
  <2>1. PICK i \in FreeFrames :
          \/ /\ MapFrame(job.lo, i, size, job.rwx)
             /\ pc' = "done"
             /\ UNCHANGED <<keeps, hand, torn>>
          \/ MapFrameFails(job.lo, size, job.rwx) /\ Fail(job.torn)
    BY <1>7 DEF mmap_maps
  <2>2. UNCHANGED <<foreign, job>>
    BY <1>7 DEF mmap_maps
  <2> HIDE DEF size
  <2>3. CASE MapFrame(job.lo, i, size, job.rwx) /\ pc' = "done" /\ UNCHANGED <<keeps, hand, torn>>
    <3>1. i \in Frames /\ i \notin Live \cup foreign /\ hand' # i /\ \A k \in keeps' : k.frame # i
      BY <2>3 DEF FreeFrames, Owned
    <3>2. JobInv'
      BY <2>2, <2>3 DEF IInv, JobInv
    <3> QED BY <2>2, <2>3, <3>1, <3>2, MapStep
  <2> QED BY <1>5, <2>1, <2>2, <2>3
<1>8. CASE Rebuild
  <2>1. PICK i \in FreeFrames : hand' = i
    BY <1>8 DEF Rebuild
  <2>2. /\ UNCHANGED <<mapVars, foreign, keeps>>
        /\ pc' = "tear"
        /\ DOMAIN job' = DOMAIN NoJob /\ job'.then = "place"
    BY <1>8 DEF Rebuild, IInv, JobInv, NoJob
  <2>3. i \in Frames /\ i \notin Live \cup foreign /\ \A k \in keeps : k.frame # i
    BY <2>1 DEF FreeFrames, Owned
  <2>4. ShapeInv'
    BY <2>1, <2>2, <2>3 DEF IInv, ShapeInv, mapVars
  <2>5. JobInv'
    BY <2>1, <2>2, <2>3, FramesAssumption DEF JobInv
  <2>6. OneOwner'
    BY <2>1, <2>2, <2>3 DEF IInv, OneOwner, Live, mapVars
  <2>7. NoDangling'
    BY <2>2 DEF IInv, NoDangling, Live, mapping_range, PagesOf, mapVars
  <2> QED BY <2>4, <2>5, <2>6, <2>7 DEF IInv
<1>9. CASE Place
  <2> DEFINE size == FramePages(job.size)
  <2>1. /\ MapFrame(job.dest, hand, size, job.rwx)
        /\ hand' = NoPage
        /\ pc' = "done"
        /\ UNCHANGED <<foreign, job, keeps>>
        /\ pc = "place"
    BY <1>9 DEF Place
  <2> HIDE DEF size
  <2>2. hand \in Frames
    BY <2>1 DEF IInv, JobInv, ShapeInv
  <2>3. hand \notin Live \cup foreign /\ hand' # hand /\ \A k \in keeps' : k.frame # hand
    BY <2>1, <2>2, FramesAssumption DEF IInv, OneOwner
  <2>4. JobInv'
    BY <2>1 DEF IInv, JobInv
  <2> QED BY <2>1, <2>2, <2>3, <2>4, MapStep
<1>10. CASE Return
  <2>1. /\ UNCHANGED <<mapVars, foreign, keeps, hand>>
        /\ pc' = "idle"
        /\ job' = NoJob /\ job'.then = "idle"
    BY <1>10 DEF Return, NoJob
  <2> QED BY <2>1, CallStep
<1> QED
  BY <1>1, <1>3, <1>4, <1>6, <1>7, <1>8, <1>9, <1>10 DEF Step

\* IInv is inductive.
THEOREM Inductive == Spec => []IInv
<1>1. IInv /\ [Next]_vars => IInv'
  <2> SUFFICES ASSUME IInv, [Next]_vars PROVE IInv'
    OBVIOUS
  <2>1. CASE Call
    BY <2>1, CallKeeps
  <2>2. CASE Step
    BY <2>2, StepKeeps
  <2>3. CASE Clone
    BY <2>3, CloneStep
  <2>4. ASSUME UNCHANGED <<mapVars, foreign, pc, job, keeps, hand>>
        PROVE  IInv'
    BY <2>4 DEF IInv, ShapeInv, JobInv, OneOwner, NoDangling, Live,
                       mapping_range, PagesOf, mapVars
  <2>5. CASE \E p \in Pages : Store(p)
    BY <2>4, <2>5 DEF Store
  <2>6. CASE UNCHANGED vars
    BY <2>4, <2>6 DEF vars, mapVars
  <2> QED BY <2>1, <2>2, <2>3, <2>5, <2>6 DEF Next, Rest
<1> QED BY <1>1, InitIInv, PTL DEF Spec

\* No entry of the page table ever points to a frame that has been given
\* back, to a buffer of unmap_range, or to the memory of the parent.
THEOREM NoDanglingTheorem == Spec => []NoDangling
<1>1. IInv => NoDangling
  BY DEF IInv
<1> QED BY <1>1, Inductive, PTL

\* A frame backs one mapping, or is one buffer, or is the parent's.
THEOREM OneOwnerTheorem == Spec => []OneOwner
<1>1. IInv => OneOwner
  BY DEF IInv
<1> QED BY <1>1, Inductive, PTL

-----------------------------------------------------------------------------
(* Numbers of pages *)

\* A power of two is positive, and no smaller than its exponent: a block is
\* found for every number of pages.
LEMMA PowerBound ==
  ASSUME NEW n \in Nat
  PROVE  2 ^ n \in Nat \ {0} /\ n =< 2 ^ n
<1> DEFINE S == 1 .. n
           single == [x \in S |-> {x}]
<1>1. IsFiniteSet(S) /\ Cardinality(S) = n
  BY FS_Interval, SMT
<1>2. IsFiniteSet(SUBSET S) /\ Cardinality(SUBSET S) = 2 ^ n
  BY <1>1, FS_SUBSET
<1>3. 2 ^ n \in Nat
  BY <1>2, FS_CardinalityType
<1>4. single \in Injection(S, SUBSET S)
  BY DEF Injection, IsInjective
<1>5. n =< 2 ^ n
  <2>1. Cardinality(S) <= Cardinality(SUBSET S)
    BY <1>2, <1>4, FS_Injection
  <2> QED BY <2>1, <1>1, <1>2
<1>6. 2 ^ n # 0
  BY <1>2, FS_EmptySet
<1> QED BY <1>3, <1>5, <1>6

\* alloc_frames returns some pages for some pages.
LEMMA FramePagesPositive ==
  ASSUME NEW n \in Nat \ {0}
  PROVE  FramePages(n) \in Nat \ {0}
<1> DEFINE rest == n % MaxSegment
           E == {i \in 0 .. rest : 2 ^ i >= rest}
<1>1. rest \in Nat /\ rest =< n
  BY SegmentAssumption, SMT
<1> HIDE DEF rest
<1>2. rest \in E
  BY <1>1, PowerBound, SMT
<1>3. E \in SUBSET Nat
  BY <1>1, SMT
<1>4. Min(E) \in Nat
  BY <1>2, <1>3, MinIsMember
<1>5. SegmentPages(rest) \in Nat \ {0}
  BY <1>4, PowerBound DEF SegmentPages
<1>6. FramePages(n) = (n - rest) + (IF rest = 0 THEN 0 ELSE SegmentPages(rest))
  BY DEF FramePages, rest
<1> QED BY <1>1, <1>5, <1>6, SMT

\* The first of some mappings in the Vec is one of them.
LEMMA FirstIsMember ==
  ASSUME pos \in [Frames -> 0 .. Cardinality(Frames)],
         NEW S \in SUBSET Frames, S # {}
  PROVE  First(S) \in S
<1> DEFINE D == {pos[i] : i \in S}
<1>1. \A i \in S : pos[i] \in Nat
  BY SMT
<1>2. D \in SUBSET Nat /\ D # {}
  BY <1>1
<1>3. Min(D) \in D /\ \A y \in D : Min(D) =< y
  BY <1>2, MinIsMember
<1>4. PICK m \in S : pos[m] = Min(D)
  BY <1>3
<1>5. \A j \in S : pos[m] =< pos[j]
  BY <1>3, <1>4
<1> QED BY <1>5 DEF First

-----------------------------------------------------------------------------
(* Types and control *)

\* Mappings, entries, buffers and contents have their types, and nothing that
\* is mapped or kept is empty.
Types ==
  /\ maps \in [Frames -> [va : Nat, size : Nat, rwx : BOOLEAN]]
  /\ \A i \in Live : maps[i].size > 0
  /\ pte \in [Pages -> Entries]
  /\ \A k \in keeps : k.va \in Nat /\ k.size \in Nat \ {0} /\ k.rwx \in BOOLEAN
  /\ mem \in SUBSET (Frames \X Nat)

\* The places in the Vec are those of the mappings.
Places == {pos[i] : i \in Live} = 1 .. Cardinality(Live)

\* A call works on ranges that are not empty, and what comes next says which
\* call it is, where it works and what it holds.
CallInv ==
  /\ pc \in {"idle", "tear", "remap", "alloc", "rebuild", "place", "done", "failed"}
  /\ job.op \in {"none", "mmap", "munmap", "mremap"}
  /\ job.lo \in Nat /\ job.hi \in Nat /\ job.old \in Nat /\ job.oldEnd \in Nat
  /\ job.dest \in Nat /\ job.size \in Nat
  /\ job.rwx \in BOOLEAN /\ job.torn \in BOOLEAN
  /\ pc \in {"tear", "remap", "alloc", "rebuild"} => job.lo < job.hi
  /\ job.op = "mremap" => job.old < job.oldEnd /\ job.size > 0
  /\ pc = "idle" => job = NoJob
  /\ job.op = "none" => pc = "idle"
  /\ pc = "alloc" => job.then = "alloc"
  /\ pc = "rebuild" => job.then = "rebuild"
  /\ pc = "done" => job.then \in {"alloc", "done", "place"}
  /\ job.then = "idle" <=> job.op = "none"
  /\ job.then = "alloc" <=> job.op = "mmap"
  /\ job.then = "done" <=> job.op = "munmap"
  /\ pc # "remap" => keeps = {}
  /\ hand # NoPage <=> pc \in {"tear", "remap", "place"} /\ job.then = "place"
  /\ job.op = "mremap" /\ job.dest # job.old => job.dest + job.size =< LOW_HALF_END
  /\ job.then = "rebuild" => job.lo = job.dest /\ job.hi = job.dest + job.size
  /\ job.then = "place" => job.lo = job.old /\ job.hi = job.oldEnd

\* The datum is expected in a page of the instance, or nowhere.
DatumType == datum \in Pages \cup {NoPage}

TInv == IInv /\ Types /\ Places /\ CallInv /\ DatumType

\* map_frame of a free frame adds one mapping, at the end of the Vec.
LEMMA MapFrameTypes ==
  ASSUME IInv, Types, Places, NEW i \in Frames \ Live, NEW va \in Nat, NEW size \in Nat \ {0},
         NEW rwx \in BOOLEAN, MapFrame(va, i, size, rwx)
  PROVE  /\ maps' \in [Frames -> [va : Nat, size : Nat, rwx : BOOLEAN]]
         /\ Live' = Live \cup {i}
         /\ maps'[i] = [va |-> va, size |-> size, rwx |-> rwx]
         /\ \A j \in Live : maps'[j] = maps[j]
         /\ \A j \in Live' : maps'[j].size > 0
         /\ pte' \in [Pages -> Entries]
         /\ Places'
<1> DEFINE new == [va |-> va, size |-> size, rwx |-> rwx]
           c == Cardinality(Live)
<1>1. maps' = [maps EXCEPT ![i] = new] /\ maps \in [Frames -> [va : Nat, size : Nat, rwx : BOOLEAN]]
  BY DEF MapFrame, Types
<1>2. new \in [va : Nat, size : Nat, rwx : BOOLEAN] /\ new # NoMapping /\ new.size > 0
  BY SMT DEF NoMapping
<1> HIDE DEF new
<1>3. maps' \in [Frames -> [va : Nat, size : Nat, rwx : BOOLEAN]]
  BY <1>1, <1>2
<1>4. maps'[i] = new /\ \A j \in Frames \ {i} : maps'[j] = maps[j]
  BY <1>1
<1>5. Live' = Live \cup {i}
  BY <1>2, <1>4 DEF Live
<1>6. \A j \in Live : maps'[j] = maps[j]
  BY <1>4 DEF Live
<1>7. \A j \in Live' : maps'[j].size > 0
  BY <1>2, <1>4, <1>5, <1>6 DEF Types
<1>8. pte' \in [Pages -> Entries]
  <2>1. \A p \in PagesOf(va, size) : <<i, p - va>> \in Entries
    BY SMT DEF PagesOf, Pages, Entries
  <2> QED BY <2>1 DEF MapFrame, Types
<1>9. Places'
  <2>1. Live \in SUBSET Frames
    BY DEF Live
  <2>2. IsFiniteSet(Live) /\ c \in Nat
    BY <2>1, CountBound, FS_CardinalityType
  <2>3. Cardinality(Live') = c + 1
    BY <2>2, <1>5, FS_AddElement
  <2>4. pos' = [pos EXCEPT ![i] = c + 1] /\ DOMAIN pos = Frames
    BY DEF MapFrame, IInv, ShapeInv
  <2> HIDE DEF c
  <2>5. pos'[i] = c + 1 /\ \A j \in Live : pos'[j] = pos[j]
    BY <2>1, <2>4
  <2>6. {pos'[j] : j \in Live'} = {pos[j] : j \in Live} \cup {c + 1}
    BY <2>5, <1>5
  <2>7. {pos[j] : j \in Live} = 1 .. c
    BY DEF Places, c
  <2>8. (1 .. c) \cup {c + 1} = 1 .. (c + 1)
    BY <2>2, SMT DEF c
  <2> QED BY <2>3, <2>6, <2>7, <2>8 DEF Places
<1> QED BY <1>3, <1>4, <1>5, <1>6, <1>7, <1>8, <1>9 DEF new

\* Clearing entries and failing to map keep the types.
LEMMA ClearedTypes ==
  ASSUME pte \in [Pages -> Entries], NEW S, pte' = Cleared(S)
  PROVE  pte' \in [Pages -> Entries]
BY DEF Cleared, Entries

\* The places of different mappings are different.
LEMMA PlacesDiffer ==
  ASSUME IInv, Places, NEW i \in Live, NEW j \in Live, pos[i] = pos[j]
  PROVE  i = j
<1> DEFINE c == Cardinality(Live)
           g == [x \in Live |-> pos[x]]
<1>1. Live \in SUBSET Frames
  BY DEF Live
<1>2. IsFiniteSet(Live) /\ c \in Nat
  BY <1>1, CountBound, FS_CardinalityType
<1>3. IsFiniteSet(1 .. c) /\ Cardinality(1 .. c) = c
  BY <1>2, FS_Interval, SMT
<1>4. g \in Surjection(Live, 1 .. c)
  BY DEF Surjection, Places
<1>5. g \in Injection(Live, 1 .. c)
  BY <1>2, <1>3, <1>4, FS_SurjSameCardinalityImpliesInj
<1> QED BY <1>5 DEF Injection, IsInjective

-----------------------------------------------------------------------------
(* Tearing keeps the types *)

\* Where the right piece of a torn mapping begins.
From == IF job.ragged THEN job.hi - 1 ELSE job.hi

LeftOf(k, i) ==
  /\ maps[i].va < job.lo
  /\ k = [va |-> maps[i].va, size |-> job.lo - maps[i].va, rwx |-> maps[i].rwx,
          rank |-> 2 * pos[i]]

RightOf(k, i) ==
  /\ EndOf(i) > From
  /\ k = [va |-> From, size |-> EndOf(i) - From, rwx |-> maps[i].rwx,
          rank |-> 2 * pos[i] + 1]

\* A piece is what is left of an overlapping mapping to the left or to the
\* right of the range.
LEMMA PieceOf ==
  ASSUME NEW k \in Pieces
  PROVE  \E i \in Overlapping(job.lo, job.hi) : LeftOf(k, i) \/ RightOf(k, i)
BY DEF Pieces, From, LeftOf, RightOf

\* What an overlapping mapping is.
LEMMA OverlapFacts ==
  ASSUME IInv, Types, NEW lo, NEW hi, NEW i \in Overlapping(lo, hi)
  PROVE  /\ i \in Live /\ i \in Frames /\ maps[i].va < hi /\ lo < EndOf(i)
         /\ maps[i].va \in Nat /\ maps[i].size \in Nat \ {0} /\ maps[i].rwx \in BOOLEAN
         /\ EndOf(i) = maps[i].va + maps[i].size
         /\ pos[i] \in Nat
<1>1. i \in Live /\ i \in Frames /\ maps[i].va < hi /\ lo < EndOf(i)
  BY DEF Overlapping, Live
<1>2. maps[i] \in [va : Nat, size : Nat, rwx : BOOLEAN] /\ maps[i].size > 0
  BY <1>1 DEF Types
<1>3. pos[i] \in Nat
  BY <1>1, SMT DEF IInv, ShapeInv
<1> QED BY <1>1, <1>2, <1>3, SMT DEF EndOf

\* A piece is not empty.
LEMMA PieceTypes ==
  ASSUME TInv, pc = "tear", NEW k \in Pieces
  PROVE  /\ k.va \in Nat /\ k.size \in Nat \ {0} /\ k.rwx \in BOOLEAN
         /\ FramePages(k.size) \in Nat \ {0}
<1>1. PICK i \in Overlapping(job.lo, job.hi) : LeftOf(k, i) \/ RightOf(k, i)
  BY PieceOf
<1>2. /\ maps[i].va \in Nat /\ maps[i].size \in Nat \ {0} /\ maps[i].rwx \in BOOLEAN
      /\ EndOf(i) = maps[i].va + maps[i].size
  BY <1>1, OverlapFacts DEF TInv
<1>3. job.lo \in Nat /\ job.hi \in Nat /\ job.lo < job.hi
  BY DEF TInv, CallInv
<1>4. k.va \in Nat /\ k.size \in Nat \ {0} /\ k.rwx \in BOOLEAN
  BY <1>1, <1>2, <1>3, SMT DEF LeftOf, RightOf, From
<1> QED BY <1>4, FramePagesPositive

\* Removing mappings closes the gaps in the Vec.
LEMMA RankPlaces ==
  ASSUME IInv, Places, NEW L \in SUBSET Live, NEW g \in [L -> Nat],
         \A i \in L : g[i] = Cardinality({j \in L : pos[j] =< pos[i]})
  PROVE  {g[i] : i \in L} = 1 .. Cardinality(L)
<1> DEFINE c == Cardinality(L)
           B(i) == {j \in L : pos[j] =< pos[i]}
<1>1. L \in SUBSET Frames /\ \A i \in L : pos[i] \in Nat
  BY SMT DEF IInv, ShapeInv, Live
<1>2. IsFiniteSet(L) /\ c \in Nat
  BY <1>1, CountBound, FS_CardinalityType
<1>3. \A i \in L : B(i) \in SUBSET L /\ i \in B(i)
  BY <1>1, SMT
<1>4. ASSUME NEW i \in L
      PROVE  /\ IsFiniteSet(B(i)) /\ Cardinality(B(i)) \in Nat
             /\ Cardinality(B(i)) =< c /\ Cardinality(B(i)) # 0
  <2>1. B(i) \in SUBSET L /\ B(i) # {}
    BY <1>3
  <2> HIDE DEF B
  <2>2. IsFiniteSet(B(i)) /\ Cardinality(B(i)) =< c
    BY <2>1, <1>2, FS_Subset
  <2> QED BY <2>1, <2>2, FS_CardinalityType, FS_EmptySet
<1>5. \A i \in L : g[i] = Cardinality(B(i))
  OBVIOUS
<1>6. g \in [L -> 1 .. c]
  <2> HIDE DEF B
  <2>1. \A i \in L : g[i] \in 1 .. c
    BY <1>2, <1>4, <1>5, SMT
  <2> QED BY <2>1
<1>7. ASSUME NEW i \in L, NEW j \in L, pos[i] < pos[j]
      PROVE  g[i] # g[j]
  <2>1. B(i) \in SUBSET B(j) /\ j \in B(j) /\ j \notin B(i)
    BY <1>7, <1>1, SMT
  <2> HIDE DEF B
  <2>2. IsFiniteSet(B(j))
    BY <1>4
  <2>3. Cardinality(B(i)) # Cardinality(B(j))
    BY <2>1, <2>2, FS_Subset
  <2> QED BY <2>3, <1>5
<1>8. ASSUME NEW i \in L, NEW j \in L, g[i] = g[j]
      PROVE  i = j
  <2>1. pos[i] = pos[j]
    BY <1>1, <1>7, <1>8, SMT
  <2> QED BY <2>1, PlacesDiffer
<1>9. g \in Injection(L, 1 .. c)
  BY <1>6, <1>8 DEF Injection, IsInjective
<1>10. IsFiniteSet(1 .. c) /\ Cardinality(1 .. c) = c
  BY <1>2, FS_Interval, SMT
<1>11. g \in Surjection(L, 1 .. c)
  BY <1>9, <1>10, FS_Injection
<1> QED BY <1>6, <1>11 DEF Surjection

\* What is copied to frame i are pages of frame i.
LEMMA CopiedType ==
  ASSUME NEW i \in Frames, NEW va, NEW n \in Nat
  PROVE  Copied(i, va, n) \in SUBSET (Frames \X Nat)
BY SMT DEF Copied

\* Tearing keeps the types: the mappings that stay are renumbered, and the
\* pieces are in the buffers.
LEMMA TearTypes ==
  ASSUME TInv, Tear
  PROVE  Types' /\ Places' /\ CallInv' /\ Live' = Live \ Overlapping(job.lo, job.hi)
<1> USE DEF overlapping_indices
<1> DEFINE over == Overlapping(job.lo, job.hi)
           L == Live \ over
<1>1. PICK f \in [Pieces -> FreeFrames] :
        /\ keeps' = {Buffer(k, f[k]) : k \in Pieces}
        /\ mem' = AfterCopies(f)
  BY DEF Tear
<1>2. /\ maps' = [i \in Frames |-> IF i \in over THEN NoMapping ELSE maps[i]]
      /\ pte' = Cleared(TornPages(over))
      /\ UNCHANGED hand
      /\ job' = [job EXCEPT !.torn = @ \/ over # {}]
      /\ pc = "tear"
      /\ pc' = AfterKeeps(Pieces)
  BY DEF Tear
<1>3. Live' = L /\ \A i \in L : maps'[i] = maps[i]
  BY <1>2 DEF Live
<1>4. Types'
  <2>1. NoMapping \in [va : Nat, size : Nat, rwx : BOOLEAN]
    BY DEF NoMapping
  <2>2. maps' \in [Frames -> [va : Nat, size : Nat, rwx : BOOLEAN]]
    BY <1>2, <2>1 DEF TInv, Types
  <2>3. \A i \in Live' : maps'[i].size > 0
    BY <1>3 DEF TInv, Types
  <2>4. pte' \in [Pages -> Entries]
    BY <1>2, ClearedTypes DEF TInv, Types
  <2>5. \A k \in keeps' : k.va \in Nat /\ k.size \in Nat \ {0} /\ k.rwx \in BOOLEAN
    BY <1>1, <1>2, PieceTypes, SMT DEF Buffer
  <2>6. mem' \in SUBSET (Frames \X Nat)
    <3>1. \A k \in Pieces : f[k] \in Frames /\ k.size \in Nat
      BY <1>2, PieceTypes DEF FreeFrames
    <3>2. \A k \in Pieces : Copied(f[k], k.va, k.size) \in SUBSET (Frames \X Nat)
      BY <3>1, CopiedType
    <3>3. ASSUME NEW x \in mem' PROVE x \in Frames \X Nat
      <4>1. x \in mem \/ \E k \in Pieces : x \in Copied(f[k], k.va, k.size)
        BY <1>1, <3>3 DEF AfterCopies
      <4> QED BY <4>1, <3>2 DEF TInv, Types
    <3> QED BY <3>3
  <2> QED BY <2>2, <2>3, <2>4, <2>5, <2>6 DEF Types
<1>5. Places'
  <2> DEFINE g == [i \in L |-> pos'[i]]
  <2>1. pos' = [i \in Frames |-> IF i \in L THEN Cardinality({j \in L : pos[j] =< pos[i]}) ELSE 0]
    BY DEF Tear
  <2>2. L \in SUBSET Live /\ L \in SUBSET Frames
    BY DEF Live
  <2>3. \A i \in L : {j \in L : pos[j] =< pos[i]} \in SUBSET Frames
    BY <2>2
  <2>4. \A i \in L : Cardinality({j \in L : pos[j] =< pos[i]}) \in 0 .. Cardinality(Frames)
    BY <2>3, CountBound
  <2>5. \A i \in L : g[i] = Cardinality({j \in L : pos[j] =< pos[i]})
    BY <2>1, <2>2
  <2>6. g \in [L -> Nat]
    <3>1. \A x \in 0 .. Cardinality(Frames) : x \in Nat
      BY SMT
    <3>2. \A i \in L : g[i] \in Nat
      BY <2>4, <2>5, <3>1
    <3> QED BY <3>2
  <2> HIDE DEF L
  <2>7. {g[i] : i \in L} = 1 .. Cardinality(L)
    BY <2>2, <2>5, <2>6, RankPlaces DEF TInv
  <2>8. {g[i] : i \in L} = {pos'[i] : i \in L}
    OBVIOUS
  <2> QED BY <2>7, <2>8, <1>3 DEF Places
<1>6. CallInv'
  <2>1. DOMAIN job = DOMAIN NoJob
    BY DEF TInv, IInv, JobInv
  <2>2. /\ job'.op = job.op /\ job'.lo = job.lo /\ job'.hi = job.hi /\ job'.then = job.then
        /\ job'.old = job.old /\ job'.oldEnd = job.oldEnd /\ job'.dest = job.dest
        /\ job'.size = job.size /\ job'.rwx = job.rwx /\ job'.torn = (job.torn \/ over # {})
    BY <1>2, <2>1 DEF NoJob
  <2>3. job.then \in {"alloc", "done", "rebuild", "place"}
    BY <1>2, <2>1 DEF TInv, IInv, JobInv, CallInv, NoJob
  <2>4. pc' = "remap" \/ (pc' = job.then /\ keeps' = {})
    BY <1>1, <1>2 DEF AfterKeeps
  <2> QED BY <1>2, <2>2, <2>3, <2>4 DEF TInv, CallInv, IInv, JobInv
<1> QED BY <1>3, <1>4, <1>5, <1>6

-----------------------------------------------------------------------------
(* find_free_region *)

\* The greatest of some bounded numbers is one of them.
LEMMA MaxIsMember ==
  ASSUME NEW S \in SUBSET Nat, S # {}, NEW b \in Nat, \A x \in S : x =< b
  PROVE  Max(S) \in S
<1> DEFINE D == {b - x : x \in S}
<1>1. \A x \in S : b - x \in Nat
  BY SMT
<1>2. D \in SUBSET Nat /\ D # {}
  BY <1>1
<1>3. Min(D) \in D /\ \A y \in D : Min(D) =< y
  BY <1>2, MinIsMember
<1>4. PICK m \in S : b - m = Min(D)
  BY <1>3
<1>5. \A x \in S : m >= x
  <2> SUFFICES ASSUME NEW x \in S PROVE m >= x
    OBVIOUS
  <2>1. b - m =< b - x
    BY <1>3, <1>4
  <2> QED BY <2>1, SMT
<1> QED BY <1>5 DEF Max

\* What find_free_region looks at: the mappings below the stack, of those at
\* the same address the last one, where they begin, and where the gap above
\* each ends.
Below == {i \in Live : EndOf(i) =< USER_STACK_LOWER_BOUND}

Seen == {i \in Below : \A j \in Below : maps[j].va = maps[i].va => pos[j] =< pos[i]}

Starts == {maps[i].va : i \in Seen}

TopOf(i) == Min({s \in Starts : s > maps[i].va} \cup {USER_STACK_LOWER_BOUND})

\* What find_free_region returns is the top of a gap that is large enough, or
\* of the space below all mappings, less the size.
LEMMA FreeRegionCases ==
  ASSUME IInv, Types, NEW n \in Nat \ {0}, find_free_region(n) # NoPage
  PROVE  /\ find_free_region(n) \in Nat
         /\ \/ \E j \in Seen : /\ EndOf(j) =< find_free_region(n)
                               /\ find_free_region(n) + n = TopOf(j)
            \/ find_free_region(n) + n = Min(Starts \cup {USER_STACK_LOWER_BOUND})
<1> DEFINE r == find_free_region(n)
           low == USER_STACK_LOWER_BOUND
           G == {j \in Seen : Fits(TopOf(j), EndOf(j), n)}
           gaps == {TopOf(i) : i \in G}
           bottom == Min(Starts \cup {low})
<1>1. r = IF gaps # {} THEN Max(gaps) - n ELSE RegionBelow(bottom, n)
  BY DEF find_free_region, Below, Seen, Starts, TopOf
<1>2. \A i \in Seen : maps[i].va \in Nat /\ EndOf(i) \in Nat
  <2> SUFFICES ASSUME NEW i \in Seen PROVE maps[i].va \in Nat /\ EndOf(i) \in Nat
    OBVIOUS
  <2>1. i \in Frames
    BY DEF Seen, Below, Live
  <2>2. maps[i] \in [va : Nat, size : Nat, rwx : BOOLEAN]
    BY <2>1 DEF Types
  <2> QED BY <2>2, SMT DEF EndOf
<1>3. Starts \in SUBSET Nat /\ low \in Nat
  BY <1>2, StackAssumption DEF Starts
<1> HIDE DEF r, low
<1>4. ASSUME NEW i \in Seen PROVE TopOf(i) \in Nat /\ TopOf(i) =< low
  <2> DEFINE T == {s \in Starts : s > maps[i].va} \cup {low}
  <2>1. T \in SUBSET Nat /\ T # {} /\ low \in T
    BY <1>3
  <2> HIDE DEF T
  <2>2. Min(T) \in T /\ Min(T) =< low
    BY <2>1, MinIsMember
  <2>3. TopOf(i) = Min(T)
    BY DEF TopOf, T, low
  <2> QED BY <2>1, <2>2, <2>3
<1>5. CASE gaps # {}
  <2>1. gaps \in SUBSET Nat /\ \A x \in gaps : x =< low
    BY <1>4
  <2>2. Max(gaps) \in gaps
    BY <2>1, <1>3, <1>5, MaxIsMember
  <2>3. PICK j \in G : Max(gaps) = TopOf(j)
    BY <2>2
  <2>4. r = TopOf(j) - n
    BY <1>1, <1>5, <2>3
  <2>5. TopOf(j) \in Nat /\ EndOf(j) \in Nat /\ TopOf(j) - EndOf(j) >= n
    BY <1>2, <1>4 DEF Fits
  <2>6. r \in Nat /\ EndOf(j) =< r /\ r + n = TopOf(j)
    BY <2>4, <2>5, SMT
  <2> QED BY <2>6 DEF r
<1>6. CASE gaps = {}
  <2>1. Starts \cup {low} \in SUBSET Nat /\ Starts \cup {low} # {}
    BY <1>3
  <2>2. bottom \in Nat
    BY <2>1, MinIsMember
  <2> HIDE DEF bottom
  <2>3. r = RegionBelow(bottom, n)
    BY <1>1, <1>6
  <2>4. r \in Nat /\ r + n = bottom
    BY <2>2, <2>3, SMT DEF RegionBelow, r
  <2> QED BY <2>4 DEF r, bottom, low
<1> QED BY <1>5, <1>6

-----------------------------------------------------------------------------
(* The other steps keep the types *)

\* The fields of the call that a system call begins with.
LEMMA CallTypes ==
  ASSUME TInv, Call
  PROVE  TInv'
<1>1. PICK addr \in Addrs, n \in Lens :
    \/ \E how \in {"hint", "fixed", "noreplace"}, rwx \in BOOLEAN : mmap(addr, n, how, rwx)
    \/ \E ragged \in BOOLEAN : munmap(addr, n, ragged)
    \/ \E size \in Lens :
         \/ mremap_in_place(addr, n, size)
         \/ mremap_maymove(addr, n, size)
         \/ \E dest \in Addrs : mremap_fixed(addr, n, size, dest)
  BY DEF Call
<1>2. addr \in Nat /\ n \in Nat \ {0} /\ \A x \in Lens : x \in Nat \ {0}
  BY ArgumentAssumption
<1>3. IInv'
  BY CallKeeps DEF TInv
<1>4. ASSUME UNCHANGED <<mapVars, foreign, keeps, hand, mem, datum>>, pc = "idle", CallInv'
      PROVE  TInv'
  <2>1. Types' /\ Places' /\ DatumType'
    BY <1>4 DEF TInv, Types, Places, DatumType, mapVars, Live
  <2> QED BY <1>3, <1>4, <2>1 DEF TInv
<1>5. pc = "idle" => keeps = {} /\ hand = NoPage
  BY DEF TInv, CallInv
<1>6. ASSUME NEW how \in {"hint", "fixed", "noreplace"}, NEW rwx \in BOOLEAN,
             mmap(addr, n, how, rwx)
      PROVE  TInv'
  <2> DEFINE target == IF how # "hint" \/ (addr # 0 /\ range_is_free(addr, addr + n))
                       THEN addr ELSE find_free_region(n)
  <2>1. target # NoPage
    BY <1>6 DEF mmap
  <2>2. target \in Nat
    <3>1. CASE target = addr
      BY <3>1, <1>2
    <3>2. CASE target = find_free_region(n)
      BY <3>2, <2>1, <1>2, FreeRegionCases DEF TInv
    <3> QED BY <3>1, <3>2
  <2>3. job' = [NoJob EXCEPT !.op = "mmap", !.lo = target, !.hi = target + n,
                             !.then = "alloc", !.rwx = rwx]
    BY <1>6 DEF mmap
  <2> HIDE DEF target
  <2>4. /\ job'.op = "mmap" /\ job'.lo = target /\ job'.hi = target + n /\ job'.then = "alloc"
        /\ job'.old = 0 /\ job'.oldEnd = 0 /\ job'.dest = 0 /\ job'.size = 0
        /\ job'.rwx = rwx /\ job'.torn = FALSE
    BY <2>3 DEF NoJob
  <2>5. /\ UNCHANGED <<mapVars, foreign, keeps, hand, mem, datum>>
        /\ pc = "idle" /\ pc' \in {"tear", "alloc"}
    BY <1>6 DEF mmap
  <2>6. job'.rwx \in BOOLEAN /\ job'.torn \in BOOLEAN /\ keeps' = {} /\ hand' = NoPage
    BY <1>5, <2>4, <2>5
  <2>7. CallInv'
    BY <1>2, <2>2, <2>4, <2>5, <2>6, SMT DEF CallInv
  <2> QED BY <1>4, <2>5, <2>7
<1>7. ASSUME NEW ragged \in BOOLEAN, munmap(addr, n, ragged)
      PROVE  TInv'
  <2>1. job' = [NoJob EXCEPT !.op = "munmap", !.lo = addr, !.hi = addr + n,
                             !.then = "done", !.ragged = ragged]
    BY <1>7 DEF munmap
  <2>2. /\ job'.op = "munmap" /\ job'.lo = addr /\ job'.hi = addr + n /\ job'.then = "done"
        /\ job'.old = 0 /\ job'.oldEnd = 0 /\ job'.dest = 0 /\ job'.size = 0
        /\ job'.rwx = FALSE /\ job'.torn = FALSE
    BY <2>1 DEF NoJob
  <2>3. /\ UNCHANGED <<mapVars, foreign, keeps, hand, mem, datum>>
        /\ pc = "idle" /\ pc' = "tear"
    BY <1>7 DEF munmap
  <2>4. job'.rwx \in BOOLEAN /\ job'.torn \in BOOLEAN /\ keeps' = {} /\ hand' = NoPage
    BY <1>5, <2>2, <2>3
  <2>5. CallInv'
    BY <1>2, <2>2, <2>3, <2>4, SMT DEF CallInv
  <2> QED BY <1>4, <2>3, <2>5
<1>8. ASSUME NEW dest \in Nat, NEW size \in Lens, NEW t \in {"tear", "rebuild"}, pc = "idle",
             Mremap(addr, n, dest, size, t), dest # addr => dest + size =< LOW_HALF_END
      PROVE  TInv'
  <2>1. job' = [NoJob EXCEPT !.op = "mremap", !.old = addr, !.oldEnd = addr + n,
                             !.dest = dest, !.size = size, !.then = "rebuild",
                             !.lo = dest, !.hi = dest + size]
    BY <1>8 DEF Mremap
  <2>2. /\ job'.op = "mremap" /\ job'.lo = dest /\ job'.hi = dest + size
        /\ job'.then = "rebuild" /\ job'.old = addr /\ job'.oldEnd = addr + n
        /\ job'.dest = dest /\ job'.size = size /\ job'.rwx = FALSE /\ job'.torn = FALSE
    BY <2>1 DEF NoJob
  <2>3. /\ UNCHANGED <<mapVars, foreign, keeps, hand, mem, datum>>
        /\ pc' \in {"tear", "rebuild"}
    BY <1>8 DEF Mremap
  <2>4. size \in Nat \ {0}
    BY <1>2
  <2>5. job'.rwx \in BOOLEAN /\ job'.torn \in BOOLEAN /\ keeps' = {} /\ hand' = NoPage
    BY <1>5, <1>8, <2>2, <2>3
  <2>6. CallInv'
    BY <1>2, <1>8, <2>2, <2>3, <2>4, <2>5, SMT DEF CallInv
  <2> QED BY <1>4, <1>8, <2>3, <2>6
<1>9. ASSUME NEW size \in Lens, mremap_in_place(addr, n, size)
      PROVE  TInv'
  BY <1>2, <1>8, <1>9 DEF mremap_in_place
<1>10. ASSUME NEW size \in Lens, mremap_maymove(addr, n, size)
       PROVE  TInv'
  <2> DEFINE dest == find_free_region(size)
  <2>1. size \in Nat \ {0} /\ dest # NoPage
    BY <1>2, <1>10 DEF mremap_maymove
  <2>2. dest \in Nat
    BY <2>1, FreeRegionCases DEF TInv
  <2>3. pc = "idle" /\ Mremap(addr, n, dest, size, "rebuild") /\ dest + size =< LOW_HALF_END
    BY <1>10 DEF mremap_maymove, MayMove, is_canonical_user_range
  <2> HIDE DEF dest
  <2> QED BY <1>8, <2>2, <2>3
<1>11. ASSUME NEW size \in Lens, NEW dest \in Addrs, mremap_fixed(addr, n, size, dest)
       PROVE  TInv'
  <2>1. dest \in Nat
    BY ArgumentAssumption
  <2> QED BY <1>8, <1>11, <2>1 DEF mremap_fixed, MayMove, is_canonical_user_range
<1> QED BY <1>1, <1>6, <1>7, <1>9, <1>10, <1>11

\* A failing step keeps the types.
LEMMA FailTypes ==
  ASSUME TInv, IInv', NEW t, Fail(t), UNCHANGED <<maps, pos, job, datum>>, pc # "idle",
         pte' \in [Pages -> Entries], mem' \in SUBSET (Frames \X Nat)
  PROVE  TInv'
<1>1. pc' = "failed" /\ keeps' = {} /\ hand' = NoPage
  BY DEF Fail
<1>2. Types'
  BY <1>1 DEF TInv, Types, Live
<1>3. Places' /\ DatumType'
  BY DEF TInv, Places, Live, DatumType
<1>4. CallInv'
  BY <1>1 DEF TInv, CallInv
<1> QED BY <1>2, <1>3, <1>4 DEF TInv

\* A step that maps a frame keeps the types.
LEMMA MapTypes ==
  ASSUME TInv, IInv', CallInv', NEW i \in Frames \ Live, NEW va \in Nat, NEW size \in Nat \ {0},
         NEW rwx \in BOOLEAN, MapFrame(va, i, size, rwx), keeps' \subseteq keeps,
         mem' \in SUBSET mem, UNCHANGED datum
  PROVE  TInv'
<1>1. /\ maps' \in [Frames -> [va : Nat, size : Nat, rwx : BOOLEAN]]
      /\ \A j \in Live' : maps'[j].size > 0
      /\ pte' \in [Pages -> Entries]
      /\ Places'
  BY MapFrameTypes DEF TInv
<1>2. Types'
  BY <1>1 DEF TInv, Types
<1>3. DatumType'
  BY DEF TInv, DatumType
<1> QED BY <1>1, <1>2, <1>3 DEF TInv

\* A map_frame that fails keeps the types of the entries.
LEMMA MapFrameFailsTypes ==
  ASSUME Types, NEW va, NEW size, NEW rwx, MapFrameFails(va, size, rwx)
  PROVE  pte' \in [Pages -> Entries]
<1>1. PICK q \in PagesOf(va, size) : pte' = RolledBack(va, q)
  BY DEF MapFrameFails
<1> QED BY <1>1, ClearedTypes DEF RolledBack, Types

\* Every step of a call keeps the types.
LEMMA StepTypes ==
  ASSUME TInv, Step
  PROVE  TInv'
<1>1. IInv'
  BY StepKeeps DEF TInv
<1>2. CASE Tear
  <2>1. DatumType'
    BY <1>2 DEF Tear, TInv, DatumType
  <2> QED BY <1>1, <1>2, <2>1, TearTypes DEF TInv
<1>3. ASSUME NEW t, Fail(t), UNCHANGED <<mapVars, job, mem, datum>>, pc # "idle"
      PROVE  TInv'
  <2>1. pte' \in [Pages -> Entries] /\ mem' \in SUBSET (Frames \X Nat)
    BY <1>3 DEF TInv, Types, mapVars
  <2>2. UNCHANGED <<maps, pos, job, datum>>
    BY <1>3 DEF mapVars
  <2> QED BY <1>1, <1>3, <2>1, <2>2, FailTypes
<1>4. CASE TearFails \/ AllocFails \/ RebuildFaults
  <2>1. pc # "idle" /\ UNCHANGED <<mapVars, job, mem, datum>> /\ Fail(job.torn)
    BY <1>4 DEF TearFails, AllocFails, RebuildFaults
  <2> QED BY <1>3, <2>1
<1>5. ASSUME NEW t, NEW va, NEW size, NEW rwx, Fail(t), MapFrameFails(va, size, rwx),
             UNCHANGED <<job, datum>>, pc # "idle", mem' \in SUBSET mem
      PROVE  TInv'
  <2>1. pte' \in [Pages -> Entries] /\ mem' \in SUBSET (Frames \X Nat)
    BY <1>5, MapFrameFailsTypes DEF TInv, Types
  <2>2. UNCHANGED <<maps, pos, job, datum>>
    BY <1>5 DEF MapFrameFails
  <2> QED BY <1>1, <1>5, <2>1, <2>2, FailTypes
<1>6. CASE Remap
  <2> DEFINE k == NextKeep
  <2>1. k \in keeps
    BY <1>6, NextKeepIsMember DEF TInv, IInv, Remap
  <2> HIDE DEF k
  <2>2. /\ MapFrame(k.va, k.frame, k.size, k.rwx)
        /\ keeps' = keeps \ {k}
        /\ pc' = AfterKeeps(keeps \ {k})
        /\ UNCHANGED <<job, hand, mem, datum>>
        /\ pc = "remap"
    BY <1>6 DEF Remap, k
  <2>3. k.frame \in Frames \ Live /\ k.va \in Nat /\ k.size \in Nat \ {0} /\ k.rwx \in BOOLEAN
    BY <2>1 DEF TInv, IInv, ShapeInv, OneOwner, Types
  <2>4. CallInv'
    <3>1. pc' = "remap" \/ (pc' = job.then /\ keeps' = {})
      BY <2>2 DEF AfterKeeps
    <3>2. job.then \in {"alloc", "done", "rebuild", "place"}
      BY <2>2 DEF TInv, IInv, JobInv, CallInv
    <3> QED BY <2>2, <3>1, <3>2 DEF TInv, CallInv, IInv, JobInv
  <2>5. keeps' \subseteq keeps /\ mem' \in SUBSET mem /\ UNCHANGED datum
    BY <2>2
  <2> QED BY <1>1, <2>2, <2>3, <2>4, <2>5, MapTypes
<1>7. CASE RemapFails
  <2>1. pc # "idle" /\ UNCHANGED <<job, datum>> /\ mem' \in SUBSET mem
    BY <1>7 DEF RemapFails
  <2> QED BY <1>5, <1>7, <2>1 DEF RemapFails
<1>8. CASE PlaceFails
  <2>1. pc # "idle" /\ UNCHANGED <<job, datum>> /\ mem' \in SUBSET mem
    BY <1>8 DEF PlaceFails
  <2> QED BY <1>5, <1>8, <2>1 DEF PlaceFails
<1>9. CASE mmap_maps
  <2> DEFINE size == FramePages(job.hi - job.lo)
  <2>1. PICK i \in FreeFrames :
          /\ mem' = Zeroed(i)
          /\ \/ /\ MapFrame(job.lo, i, size, job.rwx)
                /\ pc' = "done"
                /\ UNCHANGED <<keeps, hand>>
             \/ MapFrameFails(job.lo, size, job.rwx) /\ Fail(job.torn)
    BY <1>9 DEF mmap_maps
  <2>2. UNCHANGED <<job, datum>> /\ pc = "alloc" /\ mem' \in SUBSET mem
    BY <1>9, <2>1 DEF mmap_maps, Zeroed
  <2>3. job.lo \in Nat /\ job.hi - job.lo \in Nat \ {0} /\ job.rwx \in BOOLEAN
    BY <2>2, SMT DEF TInv, CallInv
  <2>4. size \in Nat \ {0}
    BY <2>3, FramePagesPositive
  <2> HIDE DEF size
  <2>5. CASE MapFrame(job.lo, i, size, job.rwx) /\ pc' = "done" /\ UNCHANGED <<keeps, hand>>
    <3>1. i \in Frames \ Live
      BY DEF FreeFrames, Owned
    <3>2. CallInv'
      BY <2>2, <2>5 DEF TInv, CallInv
    <3> QED BY <1>1, <2>2, <2>3, <2>4, <2>5, <3>1, <3>2, MapTypes
  <2> QED BY <1>5, <2>1, <2>2, <2>5
<1>10. CASE Rebuild
  <2> DEFINE w == maps[First(Overlapping(job.old, job.old + 1))].rwx
  <2>1. PICK i \in FreeFrames : hand' = i /\ mem' = Zeroed(i) \cup Copied(i, job.old, CopyLen)
    BY <1>10 DEF Rebuild
  <2>2. /\ UNCHANGED <<mapVars, keeps, datum>> /\ pc = "rebuild" /\ pc' = "tear"
        /\ job' = [job EXCEPT !.lo = job.old, !.hi = job.oldEnd, !.then = "place", !.rwx = w]
        /\ range_fully_mapped(job.old, job.old + CopyLen)
    BY <1>10 DEF Rebuild
  <2>3. /\ job.old \in Nat /\ job.oldEnd \in Nat /\ job.size \in Nat
        /\ job.old < job.oldEnd /\ job.size > 0 /\ job.op = "mremap"
    BY <2>2 DEF TInv, CallInv, IInv, JobInv
  <2>4. CopyLen \in Nat \ {0}
    BY <2>3, SMT DEF CopyLen
  <2>5. w \in BOOLEAN
    <3>1. job.old \in job.old .. ((job.old + CopyLen) - 1)
      BY <2>3, <2>4, SMT
    <3>2. \A p \in job.old .. ((job.old + CopyLen) - 1) : Overlapping(p, p + 1) # {}
      BY <2>2 DEF range_fully_mapped, page_phys
    <3>3. Overlapping(job.old, job.old + 1) # {}
      BY <3>1, <3>2
    <3>4. Overlapping(job.old, job.old + 1) \in SUBSET Frames
      BY DEF Overlapping, Live
    <3>5. First(Overlapping(job.old, job.old + 1)) \in Frames
      BY <3>3, <3>4, FirstIsMember DEF TInv, IInv, ShapeInv
    <3>6. maps[First(Overlapping(job.old, job.old + 1))] \in [va : Nat, size : Nat, rwx : BOOLEAN]
      BY <3>5 DEF TInv, Types
    <3> QED BY <3>6
  <2> HIDE DEF w
  <2>6. i \in Frames
    BY DEF FreeFrames
  <2>7. mem' \in SUBSET (Frames \X Nat)
    <3>1. Copied(i, job.old, CopyLen) \in SUBSET (Frames \X Nat)
      BY <2>4, <2>6, CopiedType
    <3> QED BY <2>1, <3>1 DEF Zeroed, TInv, Types
  <2>8. Types'
    BY <2>2, <2>7 DEF TInv, Types, mapVars, Live
  <2>9. Places' /\ DatumType'
    BY <2>2 DEF TInv, Places, Live, DatumType, mapVars
  <2>10. CallInv'
    <3>1. DOMAIN job = DOMAIN NoJob
      BY DEF TInv, IInv, JobInv
    <3>2. /\ job'.op = job.op /\ job'.lo = job.old /\ job'.hi = job.oldEnd
          /\ job'.then = "place" /\ job'.old = job.old /\ job'.oldEnd = job.oldEnd
          /\ job'.dest = job.dest /\ job'.size = job.size /\ job'.rwx = w
          /\ job'.torn = job.torn
      BY <2>2, <3>1 DEF NoJob
    <3>3. hand' # NoPage /\ keeps' = {}
      BY <2>1, <2>2, <2>6, FramesAssumption DEF TInv, CallInv
    <3>4. job'.rwx \in BOOLEAN /\ job'.torn \in BOOLEAN
      BY <3>2, <2>5 DEF TInv, CallInv
    <3> QED BY <2>2, <2>3, <3>2, <3>3, <3>4 DEF TInv, CallInv
  <2> QED BY <1>1, <2>8, <2>9, <2>10 DEF TInv
<1>11. CASE Place
  <2> DEFINE size == FramePages(job.size)
  <2>1. /\ MapFrame(job.dest, hand, size, job.rwx)
        /\ hand' = NoPage
        /\ pc' = "done"
        /\ UNCHANGED <<job, keeps, mem, datum>>
        /\ pc = "place"
    BY <1>11 DEF Place
  <2>2. job.then = "place" /\ job.op = "mremap" /\ hand # NoPage
    BY <2>1 DEF TInv, CallInv, IInv, JobInv
  <2>3. job.dest \in Nat /\ job.size \in Nat \ {0} /\ job.rwx \in BOOLEAN
    BY <2>2, SMT DEF TInv, CallInv
  <2>4. size \in Nat \ {0}
    BY <2>3, FramePagesPositive
  <2> HIDE DEF size
  <2>5. hand \in Frames \ Live
    BY <2>2 DEF TInv, IInv, ShapeInv, OneOwner
  <2>6. CallInv'
    BY <2>1, <2>2 DEF TInv, CallInv
  <2>7. keeps' \subseteq keeps /\ mem' \in SUBSET mem /\ UNCHANGED datum
    BY <2>1
  <2> QED BY <1>1, <2>1, <2>3, <2>4, <2>5, <2>6, <2>7, MapTypes
<1>12. CASE Return
  <2>1. /\ UNCHANGED <<mapVars, keeps, hand, mem>>
        /\ pc \in {"done", "failed"} /\ pc' = "idle" /\ job' = NoJob
        /\ datum' = IF pc = "done" THEN NewDatum ELSE datum
    BY <1>12 DEF Return
  <2>2. Types' /\ Places'
    BY <2>1, SMT DEF TInv, Types, Places, Live, mapVars
  <2>3. NewDatum \in Pages \cup {NoPage}
    <3> DEFINE off == datum - job.old
    <3>1. /\ job.old \in Nat /\ job.oldEnd \in Nat /\ job.dest \in Nat /\ job.size \in Nat
          /\ job.op = "mremap" /\ job.dest # job.old => job.dest + job.size =< LOW_HALF_END
      BY DEF TInv, CallInv
    <3>2. CASE datum # NoPage /\ job.op = "mremap" /\ 0 =< off /\ off < CopyLen
      <4>1. NewDatum = job.dest + off
        BY <3>2 DEF NewDatum
      <4>2. datum \in Nat /\ datum =< LastPage
        BY <3>2, SMT DEF TInv, DatumType, Pages
      <4>3. off < job.size /\ off \in Nat
        BY <3>1, <3>2, <4>2, SMT DEF CopyLen
      <4>4. NewDatum \in Nat /\ NewDatum =< LastPage
        BY <3>1, <3>2, <4>1, <4>2, <4>3, StackAssumption, PagesAssumption, SMT
      <4> QED BY <4>4, PagesAssumption, SMT DEF Pages
    <3>3. CASE ~ (datum # NoPage /\ job.op = "mremap" /\ 0 =< off /\ off < CopyLen)
      <4>1. NewDatum \in {datum, NoPage}
        BY <3>3 DEF NewDatum
      <4> QED BY <4>1 DEF TInv, DatumType
    <3> QED BY <3>2, <3>3
  <2>4. DatumType'
    BY <2>1, <2>3 DEF TInv, DatumType
  <2>5. CallInv'
    <3>1. keeps' = {} /\ hand' = NoPage
      BY <2>1 DEF TInv, CallInv
    <3> QED BY <2>1, <3>1 DEF CallInv, NoJob
  <2> QED BY <1>1, <2>2, <2>4, <2>5 DEF TInv
<1> QED
  BY <1>2, <1>4, <1>6, <1>7, <1>8, <1>9, <1>10, <1>11, <1>12 DEF Step

\* Cloning keeps the types: every mapping has one copy, in the same place.
LEMMA CloneTypes ==
  ASSUME TInv, Clone
  PROVE  TInv'
<1>1. PICK f \in [Live -> FreeFrames] :
        /\ \A i, j \in Live : f[i] = f[j] => i = j
        /\ maps' = [x \in Frames |-> IF x \in {f[i] : i \in Live}
                                     THEN maps[CHOOSE i \in Live : f[i] = x] ELSE NoMapping]
        /\ pos' = [x \in Frames |-> IF x \in {f[i] : i \in Live}
                                    THEN pos[CHOOSE i \in Live : f[i] = x] ELSE 0]
        /\ pte' = [p \in Pages |-> ChildEntry(f, p)]
        /\ mem' = {x \in mem : \A i \in Live : f[i] # x[1]}
                  \cup {<<f[x[1]], x[2]>> : x \in {y \in mem : y[1] \in Live}}
  BY DEF Clone
<1>2. UNCHANGED <<pc, job, keeps, hand, datum>>
  BY DEF Clone
<1>3. \A i \in Live : f[i] \in Frames /\ (CHOOSE j \in Live : f[j] = f[i]) = i
  BY <1>1 DEF FreeFrames
<1>4. \A i \in Live : maps'[f[i]] = maps[i] /\ pos'[f[i]] = pos[i] /\ f[i] \in Live'
  BY <1>1, <1>3 DEF Live
<1>5. \A x \in Live' : \E i \in Live : x = f[i]
  BY <1>1 DEF Live
<1>6. Types'
  <2>1. maps' \in [Frames -> [va : Nat, size : Nat, rwx : BOOLEAN]]
    <3>1. ASSUME NEW x \in Frames PROVE maps'[x] \in [va : Nat, size : Nat, rwx : BOOLEAN]
      <4>1. CASE x \in {f[i] : i \in Live}
        <5>1. PICK i \in Live : x = f[i]
          BY <4>1
        <5>2. maps'[x] = maps[i] /\ i \in Frames
          BY <5>1, <1>4 DEF Live
        <5> QED BY <5>2 DEF TInv, Types
      <4>2. CASE x \notin {f[i] : i \in Live}
        <5>1. maps'[x] = NoMapping
          BY <4>2, <1>1
        <5> QED BY <5>1, SMT DEF NoMapping
      <4> QED BY <4>1, <4>2
    <3>2. maps' = [x \in Frames |-> maps'[x]]
      BY <1>1, SMT
    <3> QED BY <3>1, <3>2
  <2>2. ASSUME NEW x \in Live' PROVE maps'[x].size > 0
    <3>1. PICK i \in Live : x = f[i]
      BY <1>5
    <3> QED BY <3>1, <1>4 DEF TInv, Types
  <2>3. pte' \in [Pages -> Entries]
    <3>1. ASSUME NEW p \in Pages PROVE ChildEntry(f, p) \in Entries
      <4> DEFINE over == {i \in Live : maps[i].rwx /\ p \in mapping_range(i)}
                 l == Last(over)
      <4>1. CASE over = {}
        BY <4>1 DEF ChildEntry, TInv, Types
      <4>2. CASE over # {}
        <5>1. over \in SUBSET Frames
          BY DEF Live
        <5>2. l \in over
          BY <5>1, <4>2, LastIsMember DEF TInv, IInv, ShapeInv
        <5> HIDE DEF l
        <5>3. ChildEntry(f, p) = <<f[l], p - maps[l].va>>
          BY <4>2 DEF ChildEntry, l
        <5>4. f[l] \in Frames /\ maps[l] \in [va : Nat, size : Nat, rwx : BOOLEAN]
          BY <5>2, <1>3 DEF TInv, Types, Live
        <5>5. p - maps[l].va \in Nat
          BY <5>2, <5>4, SMT DEF mapping_range, PagesOf, Pages
        <5> QED BY <5>3, <5>4, <5>5, SMT DEF Entries
      <4> QED BY <4>1, <4>2
    <3> QED BY <1>1, <3>1
  <2>4. mem' \in SUBSET (Frames \X Nat)
    <3>1. ASSUME NEW y \in mem, y[1] \in Live PROVE <<f[y[1]], y[2]>> \in Frames \X Nat
      <4>1. y \in Frames \X Nat
        BY DEF TInv, Types
      <4>2. f[y[1]] \in Frames /\ y[2] \in Nat
        BY <3>1, <4>1, <1>3
      <4> QED BY <4>2
    <3>2. ASSUME NEW x \in mem' PROVE x \in Frames \X Nat
      <4>1. x \in mem \/ \E y \in mem : y[1] \in Live /\ x = <<f[y[1]], y[2]>>
        BY <1>1, <3>2
      <4> QED BY <4>1, <3>1 DEF TInv, Types
    <3> QED BY <3>2
  <2>5. \A k \in keeps' : k.va \in Nat /\ k.size \in Nat \ {0} /\ k.rwx \in BOOLEAN
    BY <1>2 DEF TInv, Types
  <2> QED BY <2>1, <2>2, <2>3, <2>4, <2>5 DEF Types
<1>7. Places'
  <2> DEFINE g == [i \in Live |-> f[i]]
  <2>1. g \in Injection(Live, Live')
    BY <1>1, <1>4 DEF Injection, IsInjective
  <2>2. g \in Surjection(Live, Live')
    BY <1>4, <1>5 DEF Surjection
  <2>3. Live \in SUBSET Frames
    BY DEF Live
  <2>4. IsFiniteSet(Live)
    BY <2>3, CountBound
  <2>5. Cardinality(Live') = Cardinality(Live)
    BY <2>1, <2>2, <2>4, FS_Surjection
  <2>6. {pos'[x] : x \in Live'} = {pos[i] : i \in Live}
    <3>1. \A x \in Live' : pos'[x] \in {pos[i] : i \in Live}
      BY <1>4, <1>5, SMT
    <3>2. \A i \in Live : pos[i] \in {pos'[x] : x \in Live'}
      BY <1>4
    <3> QED BY <3>1, <3>2
  <2> QED BY <2>5, <2>6 DEF TInv, Places
<1>8. CallInv' /\ DatumType'
  BY <1>2, SMT DEF TInv, CallInv, DatumType
<1>9. IInv'
  BY CloneStep DEF TInv
<1> QED BY <1>6, <1>7, <1>8, <1>9 DEF TInv

\* The stack of load_elf has its types.
LEMMA InitTInv == Init => TInv
<1> SUFFICES ASSUME Init PROVE TInv
  OBVIOUS
<1> DEFINE n == FramePages(StackPages)
           low == USER_STACK_LOWER_BOUND
           stack == [va |-> low, size |-> n, rwx |-> TRUE]
<1>1. PICK i \in Frames :
        /\ maps = [x \in Frames |-> IF x # i THEN NoMapping ELSE stack]
        /\ pos = [x \in Frames |-> IF x = i THEN 1 ELSE 0]
        /\ pte = [p \in Pages |-> IF p \in PagesOf(low, n) THEN <<i, p - low>> ELSE NoPage]
  BY DEF Init
<1>2. n \in Nat \ {0} /\ low \in Nat
  BY StackAssumption, FramePagesPositive
<1> HIDE DEF n, low
<1>3. stack \in [va : Nat, size : Nat, rwx : BOOLEAN] /\ stack # NoMapping /\ stack.size > 0
  BY <1>2, SMT DEF NoMapping
<1>4. NoMapping \in [va : Nat, size : Nat, rwx : BOOLEAN]
  BY DEF NoMapping
<1> HIDE DEF stack
<1>5. maps \in [Frames -> [va : Nat, size : Nat, rwx : BOOLEAN]] /\ maps[i] = stack
  BY <1>1, <1>3, <1>4
<1>6. Live = {i}
  BY <1>1, <1>3 DEF Live
<1>7. Types
  <2>1. \A p \in PagesOf(low, n) : <<i, p - low>> \in Entries
    BY <1>2, SMT DEF PagesOf, Pages, Entries
  <2>2. pte \in [Pages -> Entries]
    BY <1>1, <2>1 DEF Entries
  <2> QED BY <1>3, <1>5, <1>6, <2>2 DEF Types, Init
<1>8. Places
  <2>1. Cardinality(Live) = 1
    BY <1>6, FS_Singleton
  <2>2. {pos[x] : x \in Live} = {1}
    BY <1>1, <1>6
  <2> QED BY <2>1, <2>2, SMT DEF Places
<1>9. CallInv /\ DatumType
  BY DEF Init, CallInv, DatumType, NoJob
<1> QED BY <1>7, <1>8, <1>9, InitIInv DEF TInv

\* TInv is inductive.
THEOREM TypesInductive == Spec => []TInv
<1>1. TInv /\ [Next]_vars => TInv'
  <2> SUFFICES ASSUME TInv, [Next]_vars PROVE TInv'
    OBVIOUS
  <2>1. CASE Call
    BY <2>1, CallTypes
  <2>2. CASE Step
    BY <2>2, StepTypes
  <2>3. CASE Clone
    BY <2>3, CloneTypes
  <2>4. ASSUME UNCHANGED <<mapVars, foreign, pc, job, keeps, hand>>
        PROVE  IInv'
    BY <2>4 DEF TInv, IInv, ShapeInv, JobInv, OneOwner, NoDangling, Live,
                       mapping_range, PagesOf, mapVars
  <2>5. ASSUME NEW p \in Pages, Store(p) PROVE TInv'
    <3>1. /\ UNCHANGED <<mapVars, foreign, pc, job, keeps, hand>>
          /\ mem' = {pte[p]} /\ datum' = p /\ pte[p] # NoPage
      BY <2>5 DEF Store
    <3>2. pte[p] \in Frames \X Nat
      BY <3>1 DEF TInv, Types, Entries
    <3>3. Types'
      BY <3>1, <3>2 DEF TInv, Types, Live, mapVars
    <3>4. Places' /\ CallInv' /\ DatumType'
      BY <3>1, SMT DEF TInv, Places, CallInv, DatumType, Live, mapVars
    <3> QED BY <2>4, <3>1, <3>3, <3>4 DEF TInv
  <2>6. CASE UNCHANGED vars
    <3>1. UNCHANGED <<mapVars, foreign, pc, job, keeps, hand, mem, datum>>
      BY <2>6 DEF vars, mapVars
    <3>2. Types' /\ Places' /\ CallInv' /\ DatumType'
      BY <3>1, SMT DEF TInv, Types, Places, CallInv, DatumType, Live, mapVars
    <3> QED BY <2>4, <3>1, <3>2 DEF TInv
  <2> QED BY <2>1, <2>2, <2>3, <2>5, <2>6 DEF Next, Rest
<1> QED BY <1>1, InitTInv, PTL DEF Spec

\* Mappings, entries and the variables of a call keep their types, and the
\* places in the Vec are always 1, 2, ... up to the number of mappings.
THEOREM TypeTheorem == Spec => []TypeOK
<1>1. TInv => TypeOK
  <2> SUFFICES ASSUME TInv PROVE TypeOK
    OBVIOUS
  <2>1. pos \in [Frames -> Nat]
    BY SMT DEF TInv, IInv, ShapeInv
  <2> QED BY <2>1 DEF TInv, IInv, ShapeInv, Types, Places, CallInv, DatumType, TypeOK
<1> QED BY <1>1, TypesInductive, PTL

-----------------------------------------------------------------------------
(* The layout *)

\* size pages from va are all outside lo .. hi - 1.
Off(va, size, lo, hi) == va + size =< lo \/ hi =< va

LiveOff(lo, hi) == \A i \in Live : Off(maps[i].va, maps[i].size, lo, hi)

KeepsOff(lo, hi) == \A k \in keeps : Off(k.va, k.size, lo, hi)

Across(va, size) == va < USER_STACK_LOWER_BOUND /\ USER_STACK_LOWER_BOUND < va + size

\* The mappings are disjoint, none lies across the lower bound of the stack,
\* and the page table is what they say.
Apart ==
  \A i, j \in Live : i # j => Off(maps[i].va, maps[i].size, maps[j].va, maps[j].va + maps[j].size)

Clean == \A i \in Live : Mapped(i) /\ ~ Across(maps[i].va, maps[i].size)

\* The buffers of unmap_range are disjoint from the mappings and each other.
KeepsApart ==
  /\ \A k \in keeps : LiveOff(k.va, k.va + k.size) /\ ~ Across(k.va, k.size)
  /\ \A k, l \in keeps : k # l => Off(k.va, k.size, l.va, l.va + l.size)

\* The range that a call works on is free from the moment it has been checked
\* or torn until it is mapped.
WorkOff ==
  /\ ~ job.ragged
  /\ pc \in {"alloc", "remap", "place"} \/ (pc = "done" /\ job.op = "munmap") =>
       LiveOff(job.lo, job.hi) /\ KeepsOff(job.lo, job.hi)
  /\ job.then = "place" => ~ Odd(job.dest, job.size)

\* The new range of mremap: in place, and what it grows by is free, or apart
\* from the old range, and free but for what is still to be torn.
DestOff ==
  \/ /\ job.dest = job.old
     /\ job.oldEnd < job.dest + job.size =>
          LiveOff(job.oldEnd, job.dest + job.size) /\ KeepsOff(job.oldEnd, job.dest + job.size)
  \/ /\ Off(job.dest, job.size, job.old, job.oldEnd)
     /\ \/ pc = "tear" /\ job.then = "rebuild"
        \/ LiveOff(job.dest, job.dest + job.size) /\ KeepsOff(job.dest, job.dest + job.size)

DestInv == job.op = "mremap" /\ pc \in {"tear", "remap", "rebuild", "place"} => DestOff

\* What the call that succeeded has mapped.
DoneInv ==
  pc = "done" =>
    /\ job.op = "mmap" =>
         \E i \in Live : maps[i] = [va |-> job.lo, size |-> job.hi - job.lo, rwx |-> job.rwx]
    /\ job.op = "mremap" =>
         \E i \in Live :
           /\ maps[i] = [va |-> job.dest, size |-> job.size, rwx |-> job.rwx]
           /\ \A j \in Live \ {i} : Off(maps[j].va, maps[j].size, job.old, job.oldEnd)

LayInv == Apart /\ Clean /\ KeepsApart /\ WorkOff /\ DestInv /\ DoneInv

LInv == TInv /\ (~ odd => LayInv)

\* A mapping's address and size are numbers.
LEMMA LiveTypes ==
  ASSUME Types, NEW i \in Live
  PROVE  /\ i \in Frames /\ maps[i].va \in Nat /\ maps[i].size \in Nat \ {0}
         /\ maps[i].rwx \in BOOLEAN /\ EndOf(i) = maps[i].va + maps[i].size
<1>1. i \in Frames
  BY DEF Live
<1>2. maps[i] \in [va : Nat, size : Nat, rwx : BOOLEAN] /\ maps[i].size > 0
  BY <1>1 DEF Types
<1> QED BY <1>1, <1>2, SMT DEF EndOf

\* range_is_free says what its name says.
LEMMA RangeIsFree ==
  ASSUME Types, NEW lo \in Nat, NEW hi \in Nat
  PROVE  range_is_free(lo, hi) <=> LiveOff(lo, hi)
<1>1. ASSUME NEW i \in Live
      PROVE  i \notin Overlapping(lo, hi) <=> Off(maps[i].va, maps[i].size, lo, hi)
  BY LiveTypes, SMT DEF Overlapping, Off
<1>2. Overlapping(lo, hi) \subseteq Live
  BY DEF Overlapping
<1> QED BY <1>1, <1>2 DEF range_is_free, LiveOff

\* find_free_region returns a free region, when no mapping lies across the
\* lower bound of the stack.
LEMMA FreeRegionIsFree ==
  ASSUME IInv, Types, Apart, Clean, NEW n \in Nat \ {0}, find_free_region(n) # NoPage
  PROVE  LiveOff(find_free_region(n), find_free_region(n) + n)
<1> DEFINE r == find_free_region(n)
           low == USER_STACK_LOWER_BOUND
<1>1. /\ r \in Nat
      /\ (\E j \in Seen : EndOf(j) =< r /\ r + n = TopOf(j)) \/ r + n = Min(Starts \cup {low})
  BY FreeRegionCases
<1>2. low \in Nat
  BY StackAssumption
<1> HIDE DEF r, low
<1>3. Starts \in SUBSET Nat
  BY LiveTypes DEF Starts, Seen, Below
<1>4. ASSUME NEW i \in Live PROVE i \in Below \/ low =< maps[i].va
  BY <1>2, LiveTypes, SMT DEF Below, Clean, Across, low
<1>5. ASSUME NEW i \in Below PROVE maps[i].va \in Starts
  <2>1. i \in Live
    BY DEF Below
  <2>2. \A j \in Below : maps[j].va = maps[i].va => j = i
    <3> SUFFICES ASSUME NEW j \in Below, maps[j].va = maps[i].va, j # i PROVE FALSE
      OBVIOUS
    <3>1. j \in Live
      BY DEF Below
    <3>2. Off(maps[i].va, maps[i].size, maps[j].va, maps[j].va + maps[j].size)
      BY <2>1, <3>1 DEF Apart
    <3> QED BY <2>1, <3>1, <3>2, LiveTypes, SMT DEF Off
  <2>3. pos[i] \in Nat
    BY <2>1, SMT DEF IInv, ShapeInv, Live
  <2>4. i \in Seen
    BY <2>2, <2>3, SMT DEF Seen
  <2> QED BY <2>4 DEF Starts
<1>6. SUFFICES ASSUME NEW i \in Live PROVE Off(maps[i].va, maps[i].size, r, r + n)
  BY DEF LiveOff, r
<1>7. maps[i].va \in Nat /\ maps[i].size \in Nat \ {0} /\ EndOf(i) = maps[i].va + maps[i].size
  BY LiveTypes
<1>8. CASE r + n = Min(Starts \cup {low})
  <2> DEFINE T == Starts \cup {low}
  <2>1. T \in SUBSET Nat /\ T # {} /\ low \in T
    BY <1>2, <1>3
  <2>2. \A y \in T : Min(T) =< y
    BY <2>1, MinIsMember
  <2>3. r + n =< low /\ (i \in Below => r + n =< maps[i].va)
    BY <1>8, <2>1, <2>2, <1>5
  <2> QED BY <1>1, <1>2, <1>4, <1>7, <2>3, SMT DEF Off
<1>9. CASE \E j \in Seen : EndOf(j) =< r /\ r + n = TopOf(j)
  <2>1. PICK j \in Seen : EndOf(j) =< r /\ r + n = TopOf(j)
    BY <1>9
  <2>2. j \in Live
    BY DEF Seen, Below
  <2>3. maps[j].va \in Nat /\ maps[j].size \in Nat \ {0} /\ EndOf(j) = maps[j].va + maps[j].size
    BY <2>2, LiveTypes
  <2> DEFINE T == {s \in Starts : s > maps[j].va} \cup {low}
  <2>4. T \in SUBSET Nat /\ T # {} /\ low \in T
    BY <1>2, <1>3
  <2>5. \A y \in T : Min(T) =< y
    BY <2>4, MinIsMember
  <2>6. r + n = Min(T)
    BY <2>1 DEF TopOf, low
  <2>7. r + n =< low /\ (i \in Below /\ maps[i].va > maps[j].va => r + n =< maps[i].va)
    BY <2>4, <2>5, <2>6, <1>5
  <2> HIDE DEF T
  <2>8. i # j => Off(maps[i].va, maps[i].size, maps[j].va, maps[j].va + maps[j].size)
    BY <2>2 DEF Apart
  <2> QED BY <1>1, <1>2, <1>4, <1>7, <2>1, <2>3, <2>7, <2>8, SMT DEF Off
<1> QED BY <1>1, <1>8, <1>9

\* Two mappings that are apart have no page in common.
LEMMA OffPages ==
  ASSUME NEW va \in Nat, NEW size \in Nat, NEW lo \in Nat, NEW n \in Nat,
         Off(va, size, lo, lo + n)
  PROVE  PagesOf(va, size) \cap PagesOf(lo, n) = {}
BY SMT DEF Off, PagesOf, Pages

\* map_frame in free pages keeps the mappings disjoint and the page table
\* what they say: without permissions the pages have no entry, because none
\* dangles.
LEMMA MapFrameLayout ==
  ASSUME TInv, Apart, Clean, NEW i \in Frames \ Live, NEW va \in Nat, NEW size \in Nat \ {0},
         NEW rwx \in BOOLEAN, MapFrame(va, i, size, rwx), LiveOff(va, va + size),
         ~ Across(va, size)
  PROVE  Apart' /\ Clean'
<1>1. /\ Live' = Live \cup {i}
      /\ maps'[i] = [va |-> va, size |-> size, rwx |-> rwx]
      /\ \A j \in Live : maps'[j] = maps[j]
  BY MapFrameTypes, SMT DEF TInv
<1>2. maps'[i].va = va /\ maps'[i].size = size /\ maps'[i].rwx = rwx
  BY <1>1, SMT
<1>3. \A j \in Live : /\ maps[j].va \in Nat /\ maps[j].size \in Nat \ {0}
                      /\ Off(maps[j].va, maps[j].size, va, va + size)
                      /\ Off(va, size, maps[j].va, maps[j].va + maps[j].size)
  <2> SUFFICES ASSUME NEW j \in Live
               PROVE  /\ maps[j].va \in Nat /\ maps[j].size \in Nat \ {0}
                      /\ Off(maps[j].va, maps[j].size, va, va + size)
                      /\ Off(va, size, maps[j].va, maps[j].va + maps[j].size)
    OBVIOUS
  <2>1. maps[j].va \in Nat /\ maps[j].size \in Nat \ {0}
    BY LiveTypes DEF TInv
  <2>2. Off(maps[j].va, maps[j].size, va, va + size)
    BY DEF LiveOff
  <2> QED BY <2>1, <2>2 DEF Off
<1>4. Apart'
  <2> SUFFICES ASSUME NEW a \in Live', NEW b \in Live', a # b
               PROVE  Off(maps'[a].va, maps'[a].size, maps'[b].va, maps'[b].va + maps'[b].size)
    BY DEF Apart, Off
  <2>1. CASE a \in Live /\ b \in Live
    BY <2>1, <1>1 DEF Apart
  <2>2. CASE a = i /\ b \in Live
    BY <2>2, <1>1, <1>2, <1>3
  <2>3. CASE a \in Live /\ b = i
    BY <2>3, <1>1, <1>2, <1>3
  <2> QED BY <1>1, <2>1, <2>2, <2>3
<1>5. pte' = [p \in Pages |-> IF rwx /\ p \in PagesOf(va, size) THEN <<i, p - va>> ELSE pte[p]]
  BY DEF MapFrame
<1>6. ASSUME NEW j \in Live PROVE PagesOf(maps[j].va, maps[j].size) \cap PagesOf(va, size) = {}
  BY <1>3, OffPages
<1>7. ASSUME NEW p \in PagesOf(va, size) PROVE pte[p] = NoPage
  <2> SUFFICES ASSUME pte[p] # NoPage PROVE FALSE
    OBVIOUS
  <2>1. p \in Pages
    BY DEF PagesOf
  <2>2. pte[p][1] \in Live /\ p \in mapping_range(pte[p][1])
    BY <2>1 DEF TInv, IInv, NoDangling
  <2> QED BY <2>2, <1>6 DEF mapping_range
<1>8. ASSUME NEW a \in Live', NEW p \in PagesOf(maps'[a].va, maps'[a].size)
      PROVE  pte'[p] = IF maps'[a].rwx THEN <<a, p - maps'[a].va>> ELSE NoPage
  <2>1. p \in Pages
    BY DEF PagesOf
  <2>2. CASE a \in Live
    <3>1. maps'[a] = maps[a] /\ p \notin PagesOf(va, size)
      BY <2>2, <1>1, <1>6, <1>8
    <3>2. pte'[p] = pte[p]
      BY <2>1, <3>1, <1>5
    <3>3. pte[p] = IF maps[a].rwx THEN <<a, p - maps[a].va>> ELSE NoPage
      BY <2>2, <3>1, <1>8 DEF Clean, Mapped, mapping_range
    <3> QED BY <3>1, <3>2, <3>3
  <2>3. CASE a = i
    <3>1. p \in PagesOf(va, size)
      BY <2>3, <1>2, <1>8
    <3>2. pte[p] = NoPage
      BY <3>1, <1>7
    <3>3. pte'[p] = IF rwx THEN <<i, p - va>> ELSE pte[p]
      BY <2>1, <3>1, <1>5
    <3> QED BY <2>3, <3>2, <3>3, <1>2
  <2> QED BY <1>1, <2>2, <2>3
<1>9. ASSUME NEW a \in Live' PROVE ~ Across(maps'[a].va, maps'[a].size)
  BY <1>1, <1>2 DEF Clean
<1>10. Clean'
  <2> SUFFICES ASSUME NEW a \in Live' PROVE Mapped(a)' /\ ~ Across(maps'[a].va, maps'[a].size)
    BY DEF Clean, Across
  <2>1. Mapped(a)'
    BY <1>8 DEF Mapped, mapping_range, PagesOf
  <2> QED BY <2>1, <1>9
<1> QED BY <1>4, <1>10

\* Clearing entries outside all mappings keeps the layout.
LEMMA ClearedLayout ==
  ASSUME Types, Apart, Clean, NEW S, pte' = Cleared(S), UNCHANGED maps,
         \A i \in Live : mapping_range(i) \cap S = {}
  PROVE  Apart' /\ Clean'
<1>1. Live' = Live
  BY DEF Live
<1>2. Apart'
  BY <1>1 DEF Apart, Off
<1>3. ASSUME NEW a \in Live
      PROVE  Mapped(a)'
  <2>1. ASSUME NEW p \in PagesOf(maps[a].va, maps[a].size)
        PROVE  pte'[p] = IF maps[a].rwx THEN <<a, p - maps[a].va>> ELSE NoPage
    <3>1. p \in Pages /\ p \notin S
      BY DEF PagesOf, mapping_range
    <3>2. pte'[p] = pte[p]
      BY <3>1 DEF Cleared
    <3>3. pte[p] = IF maps[a].rwx THEN <<a, p - maps[a].va>> ELSE NoPage
      BY DEF Clean, Mapped, mapping_range
    <3> QED BY <3>2, <3>3
  <2> QED BY <2>1 DEF Mapped, mapping_range, PagesOf
<1>4. Clean'
  BY <1>1, <1>3 DEF Clean, Across
<1> QED BY <1>2, <1>4

\* A map_frame in free pages that fails clears nothing of any mapping.
LEMMA MapFrameFailsLayout ==
  ASSUME Types, Apart, Clean, NEW va \in Nat, NEW size \in Nat, NEW rwx,
         MapFrameFails(va, size, rwx), LiveOff(va, va + size)
  PROVE  Apart' /\ Clean'
<1>1. PICK q \in PagesOf(va, size) : pte' = Cleared(PagesOf(va, q - va))
  BY DEF MapFrameFails, RolledBack
<1>2. UNCHANGED maps
  BY DEF MapFrameFails
<1>3. PagesOf(va, q - va) \subseteq PagesOf(va, size)
  BY SMT DEF PagesOf, Pages
<1>4. ASSUME NEW i \in Live PROVE mapping_range(i) \cap PagesOf(va, q - va) = {}
  <2>1. maps[i].va \in Nat /\ maps[i].size \in Nat
    BY LiveTypes
  <2>2. Off(maps[i].va, maps[i].size, va, va + size)
    BY DEF LiveOff
  <2>3. PagesOf(maps[i].va, maps[i].size) \cap PagesOf(va, size) = {}
    BY <2>1, <2>2, OffPages
  <2> QED BY <2>3, <1>3 DEF mapping_range
<1> QED BY <1>1, <1>2, <1>4, ClearedLayout

\* A failing step keeps the layout when the mappings do.
LEMMA FailLayout ==
  ASSUME NEW t, Fail(t), UNCHANGED job, WorkOff, Apart', Clean'
  PROVE  LayInv'
<1>1. pc' = "failed" /\ keeps' = {}
  BY DEF Fail
<1>2. KeepsApart'
  BY <1>1 DEF KeepsApart
<1>3. WorkOff'
  BY <1>1 DEF WorkOff, Odd
<1>4. DestInv' /\ DoneInv'
  BY <1>1 DEF DestInv, DoneInv
<1> QED BY <1>2, <1>3, <1>4 DEF LayInv

\* A piece lies inside the mapping it is left of, and outside the range.
LEMMA PieceInside ==
  ASSUME TInv, pc = "tear", ~ job.ragged, NEW k \in Pieces
  PROVE  \E i \in Overlapping(job.lo, job.hi) :
           /\ LeftOf(k, i) \/ RightOf(k, i)
           /\ maps[i].va =< k.va /\ k.va + k.size =< maps[i].va + maps[i].size
           /\ Off(k.va, k.size, job.lo, job.hi)
<1>1. PICK i \in Overlapping(job.lo, job.hi) : LeftOf(k, i) \/ RightOf(k, i)
  BY PieceOf
<1>2. /\ maps[i].va \in Nat /\ maps[i].size \in Nat \ {0}
      /\ EndOf(i) = maps[i].va + maps[i].size
      /\ maps[i].va < job.hi /\ job.lo < EndOf(i)
  BY <1>1, OverlapFacts DEF TInv
<1>3. job.lo \in Nat /\ job.hi \in Nat /\ job.lo < job.hi
  BY DEF TInv, CallInv
<1>4. CASE LeftOf(k, i)
  <2>1. k.va = maps[i].va /\ k.size = job.lo - maps[i].va /\ maps[i].va < job.lo
    BY <1>4 DEF LeftOf
  <2> QED BY <1>2, <1>3, <1>4, <2>1, SMT DEF Off
<1>5. CASE RightOf(k, i)
  <2>1. k.va = job.hi /\ k.size = EndOf(i) - job.hi /\ EndOf(i) > job.hi
    BY <1>5 DEF RightOf, From
  <2> QED BY <1>2, <1>3, <1>5, <2>1, SMT DEF Off
<1> QED BY <1>1, <1>4, <1>5

\* Two pieces are apart.
LEMMA PiecesApart ==
  ASSUME TInv, pc = "tear", ~ job.ragged, Apart, NEW k \in Pieces, NEW l \in Pieces, k # l
  PROVE  Off(k.va, k.size, l.va, l.va + l.size)
<1>1. PICK i \in Overlapping(job.lo, job.hi) :
           /\ LeftOf(k, i) \/ RightOf(k, i)
           /\ maps[i].va =< k.va /\ k.va + k.size =< maps[i].va + maps[i].size
  BY PieceInside
<1>2. PICK j \in Overlapping(job.lo, job.hi) :
           /\ LeftOf(l, j) \/ RightOf(l, j)
           /\ maps[j].va =< l.va /\ l.va + l.size =< maps[j].va + maps[j].size
  BY PieceInside
<1>3. /\ i \in Live /\ maps[i].va \in Nat /\ maps[i].size \in Nat
      /\ EndOf(i) = maps[i].va + maps[i].size
  BY <1>1, OverlapFacts DEF TInv
<1>4. j \in Live /\ maps[j].va \in Nat /\ maps[j].size \in Nat
  BY <1>2, OverlapFacts DEF TInv
<1>5. k.va \in Nat /\ k.size \in Nat /\ l.va \in Nat /\ l.size \in Nat
  BY PieceTypes
<1>6. CASE i # j
  <2>1. Off(maps[i].va, maps[i].size, maps[j].va, maps[j].va + maps[j].size)
    BY <1>3, <1>4, <1>6 DEF Apart
  <2> QED BY <1>1, <1>2, <1>3, <1>4, <1>5, <2>1, SMT DEF Off
<1>7. CASE i = j
  <2>1. job.lo \in Nat /\ job.hi \in Nat /\ job.lo < job.hi
    BY DEF TInv, CallInv
  <2>2. ~ (LeftOf(k, i) /\ LeftOf(l, i)) /\ ~ (RightOf(k, i) /\ RightOf(l, i))
    BY DEF LeftOf, RightOf
  <2>3. LeftOf(k, i) => k.va + k.size = job.lo
    BY <1>3, <2>1, SMT DEF LeftOf
  <2>4. LeftOf(l, i) => l.va + l.size = job.lo
    BY <1>3, <2>1, SMT DEF LeftOf
  <2>5. (RightOf(k, i) => k.va = job.hi) /\ (RightOf(l, i) => l.va = job.hi)
    BY SMT DEF RightOf, From
  <2> QED BY <1>1, <1>2, <1>5, <1>7, <2>1, <2>2, <2>3, <2>4, <2>5, SMT DEF Off
<1> QED BY <1>6, <1>7

\* Tearing keeps the layout: the mappings that stay are untouched, and the
\* pieces are inside the mappings that went.
LEMMA TearLayout ==
  ASSUME TInv, TInv', Tear, ~ odd, ~ odd', LayInv
  PROVE  LayInv'
<1> USE DEF overlapping_indices
<1> DEFINE over == Overlapping(job.lo, job.hi)
<1>1. PICK f \in [Pieces -> FreeFrames] : keeps' = {Buffer(k, f[k]) : k \in Pieces}
  BY DEF Tear
<1>2. /\ maps' = [i \in Frames |-> IF i \in over THEN NoMapping ELSE maps[i]]
      /\ pte' = Cleared(TornPages(over))
      /\ job' = [job EXCEPT !.torn = @ \/ over # {}]
      /\ pc = "tear"
      /\ pc' = AfterKeeps(Pieces)
      /\ odd' = (odd \/ \E k \in Pieces : Odd(k.va, k.size))
  BY DEF Tear
<1>3. Live' = Live \ over /\ \A i \in Live' : i \in Live /\ maps'[i] = maps[i]
  BY <1>2 DEF Live
<1>4. ~ job.ragged /\ Apart
  BY DEF LayInv, WorkOff
<1>5. /\ job'.op = job.op /\ job'.lo = job.lo /\ job'.hi = job.hi /\ job'.then = job.then
      /\ job'.old = job.old /\ job'.oldEnd = job.oldEnd /\ job'.dest = job.dest
      /\ job'.size = job.size /\ job'.ragged = job.ragged
  BY <1>2 DEF TInv, IInv, JobInv, NoJob
<1>6. job.lo \in Nat /\ job.hi \in Nat /\ job.lo < job.hi
  BY <1>2 DEF TInv, CallInv
<1>7. \A k \in Pieces : FramePages(k.size) = k.size /\ ~ Across(k.va, k.size)
  BY <1>2 DEF Odd, Across
<1>8. ASSUME NEW b \in keeps'
      PROVE  \E k \in Pieces : b = Buffer(k, f[k]) /\ b.va = k.va /\ b.size = k.size
  <2>1. PICK k \in Pieces : b = Buffer(k, f[k])
    BY <1>1
  <2>2. b.va = k.va /\ b.size = FramePages(k.size)
    BY <2>1 DEF Buffer
  <2> QED BY <2>1, <2>2, <1>7
<1>9. Apart'
  <2> SUFFICES ASSUME NEW a \in Live', NEW b \in Live', a # b
               PROVE  Off(maps'[a].va, maps'[a].size, maps'[b].va, maps'[b].va + maps'[b].size)
    BY DEF Apart, Off
  <2> QED BY <1>3, <1>4 DEF Apart
<1>10. Clean'
  <2> SUFFICES ASSUME NEW a \in Live' PROVE Mapped(a)' /\ ~ Across(maps'[a].va, maps'[a].size)
    BY DEF Clean, Across
  <2>1. a \in Live /\ a \notin over /\ maps'[a] = maps[a]
    BY <1>3
  <2>2. ASSUME NEW p \in PagesOf(maps[a].va, maps[a].size)
        PROVE  pte'[p] = IF maps[a].rwx THEN <<a, p - maps[a].va>> ELSE NoPage
    <3>1. p \in Pages
      BY DEF PagesOf
    <3>2. p \notin TornPages(over)
      <4> SUFFICES ASSUME NEW i \in over, p \in PagesOf(maps[i].va, maps[i].size) PROVE FALSE
        BY DEF TornPages, mapping_range
      <4>1. i \in Live /\ i # a /\ maps[i].va \in Nat /\ maps[i].size \in Nat
        BY <2>1, OverlapFacts DEF TInv
      <4>2. maps[a].va \in Nat /\ maps[a].size \in Nat
        BY <2>1, LiveTypes DEF TInv
      <4>3. Off(maps[i].va, maps[i].size, maps[a].va, maps[a].va + maps[a].size)
        BY <1>4, <2>1, <4>1 DEF Apart
      <4> QED BY <4>1, <4>2, <4>3, OffPages
    <3>3. pte'[p] = pte[p]
      BY <1>2, <3>1, <3>2 DEF Cleared
    <3>4. pte[p] = IF maps[a].rwx THEN <<a, p - maps[a].va>> ELSE NoPage
      BY <2>1 DEF LayInv, Clean, Mapped, mapping_range
    <3> QED BY <3>3, <3>4
  <2>3. Mapped(a)'
    BY <2>1, <2>2 DEF Mapped, mapping_range, PagesOf
  <2> QED BY <2>1, <2>3 DEF LayInv, Clean
<1>11. ASSUME NEW lo \in Nat, NEW hi \in Nat, LiveOff(lo, hi), lo < hi
       PROVE  LiveOff(lo, hi)' /\ KeepsOff(lo, hi)'
  <2>1. LiveOff(lo, hi)'
    BY <1>3, <1>11 DEF LiveOff, Off
  <2>2. ASSUME NEW b \in keeps' PROVE Off(b.va, b.size, lo, hi)
    <3>1. PICK k \in Pieces : b.va = k.va /\ b.size = k.size
      BY <1>8
    <3>2. PICK i \in over : maps[i].va =< k.va /\ k.va + k.size =< maps[i].va + maps[i].size
      BY <1>2, <1>4, PieceInside
    <3>3. i \in Live /\ maps[i].va \in Nat /\ maps[i].size \in Nat
      BY OverlapFacts DEF TInv
    <3>4. k.va \in Nat /\ k.size \in Nat
      BY <1>2, PieceTypes
    <3>5. Off(maps[i].va, maps[i].size, lo, hi)
      BY <1>11, <3>3 DEF LiveOff
    <3> QED BY <3>1, <3>2, <3>3, <3>4, <3>5, <1>11, SMT DEF Off
  <2> QED BY <2>1, <2>2 DEF KeepsOff, Off
<1>12. LiveOff(job.lo, job.hi)' /\ KeepsOff(job.lo, job.hi)'
  <2>1. ASSUME NEW a \in Live' PROVE Off(maps'[a].va, maps'[a].size, job.lo, job.hi)
    <3>1. a \in Live /\ a \notin over /\ maps'[a] = maps[a]
      BY <1>3
    <3> QED BY <3>1, <1>6, LiveTypes, SMT DEF TInv, Overlapping, Off
  <2>2. ASSUME NEW b \in keeps' PROVE Off(b.va, b.size, job.lo, job.hi)
    <3>1. PICK k \in Pieces : b.va = k.va /\ b.size = k.size
      BY <1>8
    <3> QED BY <1>2, <1>4, <3>1, PieceInside
  <2> QED BY <2>1, <2>2, <1>5 DEF LiveOff, KeepsOff, Off
<1>13. KeepsApart'
  <2>1. ASSUME NEW b \in keeps'
        PROVE  ~ Across(b.va, b.size) /\ \A a \in Live' : Off(maps'[a].va, maps'[a].size, b.va, b.va + b.size)
    <3>1. PICK k \in Pieces : b.va = k.va /\ b.size = k.size
      BY <1>8
    <3>2. PICK i \in over : maps[i].va =< k.va /\ k.va + k.size =< maps[i].va + maps[i].size
      BY <1>2, <1>4, PieceInside
    <3>3. i \in Live /\ maps[i].va \in Nat /\ maps[i].size \in Nat
      BY OverlapFacts DEF TInv
    <3>4. k.va \in Nat /\ k.size \in Nat
      BY <1>2, PieceTypes
    <3>5. ASSUME NEW a \in Live' PROVE Off(maps'[a].va, maps'[a].size, b.va, b.va + b.size)
      <4>1. a \in Live /\ a # i /\ maps'[a] = maps[a]
        BY <1>3
      <4>2. maps[a].va \in Nat /\ maps[a].size \in Nat
        BY <4>1, LiveTypes DEF TInv
      <4>3. Off(maps[a].va, maps[a].size, maps[i].va, maps[i].va + maps[i].size)
        BY <1>4, <3>3, <4>1 DEF Apart
      <4> QED BY <3>1, <3>2, <3>3, <3>4, <4>1, <4>2, <4>3, SMT DEF Off
    <3> QED BY <3>1, <3>5, <1>7
  <2>2. ASSUME NEW b \in keeps', NEW c \in keeps', b # c
        PROVE  Off(b.va, b.size, c.va, c.va + c.size)
    <3>1. PICK k \in Pieces : b = Buffer(k, f[k]) /\ b.va = k.va /\ b.size = k.size
      BY <1>8
    <3>2. PICK l \in Pieces : c = Buffer(l, f[l]) /\ c.va = l.va /\ c.size = l.size
      BY <1>8
    <3>3. k # l
      BY <2>2, <3>1, <3>2
    <3> QED BY <1>2, <1>4, <3>1, <3>2, <3>3, PiecesApart
  <2> QED BY <2>1, <2>2 DEF KeepsApart, LiveOff, Off, Across
<1>14. WorkOff'
  <2>1. job.then = "place" => ~ Odd(job.dest, job.size)
    BY DEF LayInv, WorkOff
  <2> QED BY <1>4, <1>5, <1>12, <2>1 DEF WorkOff, Odd
<1>15. DestInv'
  <2> SUFFICES ASSUME job.op = "mremap" PROVE DestOff'
    BY <1>5 DEF DestInv
  <2>1. DestOff /\ job.dest \in Nat /\ job.size \in Nat /\ job.oldEnd \in Nat /\ job.old \in Nat
        /\ job.size > 0
    BY <1>2 DEF LayInv, DestInv, TInv, CallInv
  <2>2. CASE job.dest = job.old
             /\ (job.oldEnd < job.dest + job.size => LiveOff(job.oldEnd, job.dest + job.size))
    <3>1. job.oldEnd < job.dest + job.size =>
            LiveOff(job.oldEnd, job.dest + job.size)' /\ KeepsOff(job.oldEnd, job.dest + job.size)'
      <4> SUFFICES ASSUME job.oldEnd < job.dest + job.size
                   PROVE  LiveOff(job.oldEnd, job.dest + job.size)'
                          /\ KeepsOff(job.oldEnd, job.dest + job.size)'
        OBVIOUS
      <4> DEFINE a == job.oldEnd
                 b == job.dest + job.size
      <4>1. a \in Nat /\ b \in Nat /\ LiveOff(a, b) /\ a < b /\ a' = a /\ b' = b
        BY <2>1, <2>2, <1>5, SMT
      <4> HIDE DEF a, b
      <4>2. (\A i \in Live' : Off(maps'[i].va, maps'[i].size, a, b))
            /\ (\A k \in keeps' : Off(k.va, k.size, a, b))
        BY <1>11, <4>1 DEF LiveOff, KeepsOff, Off
      <4> QED BY <4>1, <4>2 DEF LiveOff, KeepsOff, Off, a, b
    <3> QED BY <2>2, <3>1, <1>5 DEF DestOff
  <2>3. CASE /\ Off(job.dest, job.size, job.old, job.oldEnd)
             /\ pc = "tear" /\ job.then = "rebuild"
    <3>1. job.lo = job.dest /\ job.hi = job.dest + job.size
      BY <2>3 DEF TInv, CallInv
    <3>2. LiveOff(job.dest, job.dest + job.size)' /\ KeepsOff(job.dest, job.dest + job.size)'
      BY <1>12, <1>5, <3>1 DEF LiveOff, KeepsOff, Off
    <3> QED BY <2>3, <3>2, <1>5 DEF DestOff, Off
  <2>4. CASE /\ Off(job.dest, job.size, job.old, job.oldEnd)
             /\ LiveOff(job.dest, job.dest + job.size)
    <3> DEFINE a == job.dest
               b == job.dest + job.size
    <3>1. a \in Nat /\ b \in Nat /\ LiveOff(a, b) /\ a < b /\ a' = a /\ b' = b
      BY <2>1, <2>4, <1>5, SMT
    <3> HIDE DEF a, b
    <3>2. (\A i \in Live' : Off(maps'[i].va, maps'[i].size, a, b))
          /\ (\A k \in keeps' : Off(k.va, k.size, a, b))
      BY <1>11, <3>1 DEF LiveOff, KeepsOff, Off
    <3>3. LiveOff(job.dest, job.dest + job.size)' /\ KeepsOff(job.dest, job.dest + job.size)'
      BY <3>1, <3>2 DEF LiveOff, KeepsOff, Off, a, b
    <3> QED BY <2>4, <3>3, <1>5 DEF DestOff, Off
  <2> QED BY <2>1, <2>2, <2>3, <2>4 DEF DestOff
<1>16. DoneInv'
  <2>1. pc' = "done" => job.then = "done"
    BY <1>2 DEF AfterKeeps
  <2> QED BY <1>5, <2>1 DEF DoneInv, TInv, CallInv
<1> QED BY <1>9, <1>10, <1>13, <1>14, <1>15, <1>16 DEF LayInv

\* A step that maps a frame in free pages keeps the buffers apart, and every
\* range that no mapping and no buffer, and now not the new mapping, is in.
LEMMA MapLayout ==
  ASSUME TInv, Apart, Clean, KeepsApart, NEW i \in Frames \ Live, NEW va \in Nat,
         NEW size \in Nat \ {0}, NEW rwx \in BOOLEAN, MapFrame(va, i, size, rwx),
         LiveOff(va, va + size), ~ Across(va, size), keeps' \subseteq keeps,
         \A k \in keeps' : Off(va, size, k.va, k.va + k.size)
  PROVE  /\ Apart' /\ Clean' /\ KeepsApart'
         /\ \A lo \in Nat, hi \in Nat :
              LiveOff(lo, hi) /\ KeepsOff(lo, hi) /\ Off(va, size, lo, hi) =>
                LiveOff(lo, hi)' /\ KeepsOff(lo, hi)'
<1>1. /\ Live' = Live \cup {i}
      /\ maps'[i] = [va |-> va, size |-> size, rwx |-> rwx]
      /\ \A j \in Live : maps'[j] = maps[j]
  BY MapFrameTypes, SMT DEF TInv
<1>2. maps'[i].va = va /\ maps'[i].size = size
  BY <1>1, SMT
<1>3. ASSUME NEW lo, NEW hi, LiveOff(lo, hi), Off(va, size, lo, hi)
      PROVE  \A j \in Live' : Off(maps'[j].va, maps'[j].size, lo, hi)
  <2> SUFFICES ASSUME NEW j \in Live' PROVE Off(maps'[j].va, maps'[j].size, lo, hi)
    OBVIOUS
  <2>1. CASE j \in Live
    BY <2>1, <1>1, <1>3 DEF LiveOff
  <2>2. CASE j = i
    BY <2>2, <1>2, <1>3
  <2> QED BY <2>1, <2>2, <1>1
<1>4. ASSUME NEW lo \in Nat, NEW hi \in Nat, LiveOff(lo, hi), KeepsOff(lo, hi), Off(va, size, lo, hi)
      PROVE  LiveOff(lo, hi)' /\ KeepsOff(lo, hi)'
  BY <1>3, <1>4 DEF LiveOff, KeepsOff, Off
<1>5. KeepsApart'
  <2>1. ASSUME NEW k \in keeps'
        PROVE  ~ Across(k.va, k.size) /\ \A j \in Live' : Off(maps'[j].va, maps'[j].size, k.va, k.va + k.size)
    <3>1. k \in keeps
      OBVIOUS
    <3>2. ~ Across(k.va, k.size) /\ LiveOff(k.va, k.va + k.size)
      BY <3>1 DEF KeepsApart
    <3> QED BY <1>3, <3>2
  <2>2. \A k, l \in keeps' : k # l => Off(k.va, k.size, l.va, l.va + l.size)
    BY DEF KeepsApart
  <2> QED BY <2>1, <2>2 DEF KeepsApart, LiveOff, Off, Across
<1>6. Apart' /\ Clean'
  BY MapFrameLayout
<1> QED BY <1>4, <1>5, <1>6

\* Mapping a buffer keeps the layout.
LEMMA RemapLayout ==
  ASSUME TInv, Remap, LayInv
  PROVE  LayInv'
<1> DEFINE k == NextKeep
<1>1. k \in keeps
  BY NextKeepIsMember DEF TInv, IInv, Remap
<1> HIDE DEF k
<1>2. /\ MapFrame(k.va, k.frame, k.size, k.rwx)
      /\ keeps' = keeps \ {k}
      /\ pc' = AfterKeeps(keeps \ {k})
      /\ UNCHANGED job
      /\ pc = "remap"
  BY DEF Remap, k
<1>3. k.frame \in Frames \ Live /\ k.va \in Nat /\ k.size \in Nat \ {0} /\ k.rwx \in BOOLEAN
  BY <1>1 DEF TInv, IInv, ShapeInv, OneOwner, Types
<1>4. LiveOff(k.va, k.va + k.size) /\ ~ Across(k.va, k.size)
  BY <1>1 DEF LayInv, KeepsApart
<1>5. keeps' \subseteq keeps /\ \A l \in keeps' : Off(k.va, k.size, l.va, l.va + l.size)
  BY <1>1, <1>2 DEF LayInv, KeepsApart
<1>6. /\ Apart' /\ Clean' /\ KeepsApart'
      /\ \A lo \in Nat, hi \in Nat :
           LiveOff(lo, hi) /\ KeepsOff(lo, hi) /\ Off(k.va, k.size, lo, hi) =>
             LiveOff(lo, hi)' /\ KeepsOff(lo, hi)'
  BY <1>2, <1>3, <1>4, <1>5, MapLayout DEF LayInv
<1>7. ASSUME NEW lo \in Nat, NEW hi \in Nat, LiveOff(lo, hi), KeepsOff(lo, hi)
      PROVE  /\ \A i \in Live' : Off(maps'[i].va, maps'[i].size, lo, hi)
             /\ \A l \in keeps' : Off(l.va, l.size, lo, hi)
  <2>1. Off(k.va, k.size, lo, hi)
    BY <1>1, <1>7 DEF KeepsOff
  <2> QED BY <1>6, <1>7, <2>1 DEF LiveOff, KeepsOff, Off
<1>8. /\ job.lo \in Nat /\ job.hi \in Nat /\ job.dest \in Nat /\ job.size \in Nat
      /\ job.oldEnd \in Nat
  BY DEF TInv, CallInv
<1>9. WorkOff'
  <2>1. LiveOff(job.lo, job.hi) /\ KeepsOff(job.lo, job.hi)
    BY <1>2 DEF LayInv, WorkOff
  <2>2. LiveOff(job.lo, job.hi)' /\ KeepsOff(job.lo, job.hi)'
    BY <1>2, <1>7, <1>8, <2>1 DEF LiveOff, KeepsOff, Off
  <2> QED BY <1>2, <2>2 DEF LayInv, WorkOff, Odd
<1>10. DestInv'
  <2> SUFFICES ASSUME job.op = "mremap" PROVE DestOff'
    BY <1>2 DEF DestInv
  <2>1. DestOff
    BY <1>2 DEF LayInv, DestInv
  <2>2. ASSUME LiveOff(job.oldEnd, job.dest + job.size), KeepsOff(job.oldEnd, job.dest + job.size)
        PROVE  LiveOff(job.oldEnd, job.dest + job.size)' /\ KeepsOff(job.oldEnd, job.dest + job.size)'
    <3>1. job.dest + job.size \in Nat
      BY <1>8, SMT
    <3> QED BY <1>2, <1>7, <1>8, <2>2, <3>1 DEF LiveOff, KeepsOff, Off
  <2>3. ASSUME LiveOff(job.dest, job.dest + job.size), KeepsOff(job.dest, job.dest + job.size)
        PROVE  LiveOff(job.dest, job.dest + job.size)' /\ KeepsOff(job.dest, job.dest + job.size)'
    <3>1. job.dest + job.size \in Nat
      BY <1>8, SMT
    <3> QED BY <1>2, <1>7, <1>8, <2>3, <3>1 DEF LiveOff, KeepsOff, Off
  <2> QED BY <1>2, <2>1, <2>2, <2>3 DEF DestOff, Off
<1>11. DoneInv'
  <2>1. pc' = "done" => job.then = "done"
    BY <1>2 DEF AfterKeeps
  <2> QED BY <1>2, <2>1 DEF DoneInv, TInv, CallInv
<1> QED BY <1>6, <1>9, <1>10, <1>11 DEF LayInv

\* mmap maps the range it found free, or tore.
LEMMA MmapLayout ==
  ASSUME TInv, TInv', mmap_maps, ~ odd, ~ odd', LayInv
  PROVE  LayInv'
<1> DEFINE n == job.hi - job.lo
           size == FramePages(n)
<1>1. PICK i \in FreeFrames :
          \/ /\ MapFrame(job.lo, i, size, job.rwx)
             /\ odd' = (odd \/ Odd(job.lo, n))
             /\ pc' = "done"
             /\ UNCHANGED <<keeps, hand>>
          \/ /\ MapFrameFails(job.lo, size, job.rwx)
             /\ odd' = (odd \/ Odd(job.lo, n))
             /\ Fail(job.torn)
  BY DEF mmap_maps
<1>2. UNCHANGED job /\ pc = "alloc"
  BY DEF mmap_maps
<1>3. /\ job.lo \in Nat /\ job.hi \in Nat /\ n \in Nat \ {0} /\ job.lo + n = job.hi
      /\ job.rwx \in BOOLEAN /\ job.op = "mmap" /\ keeps = {}
  BY <1>2, SMT DEF TInv, CallInv
<1>4. size = n /\ ~ Across(job.lo, n)
  BY <1>1 DEF Odd, Across
<1> HIDE DEF n, size
<1>5. LiveOff(job.lo, job.lo + n)
  BY <1>2, <1>3 DEF LayInv, WorkOff
<1>6. CASE MapFrame(job.lo, i, size, job.rwx) /\ pc' = "done" /\ UNCHANGED <<keeps, hand>>
  <2>1. i \in Frames \ Live
    BY DEF FreeFrames, Owned
  <2>2. MapFrame(job.lo, i, n, job.rwx) /\ keeps' = {}
    BY <1>3, <1>4, <1>6
  <2>3. Apart' /\ Clean' /\ KeepsApart'
    BY <1>3, <1>4, <1>5, <2>1, <2>2, MapLayout DEF LayInv
  <2>4. WorkOff'
    BY <1>2, <1>3, <1>6 DEF LayInv, WorkOff, TInv, CallInv
  <2>5. DestInv'
    BY <1>6 DEF DestInv
  <2>6. DoneInv'
    <3>1. i \in Live' /\ maps'[i] = [va |-> job.lo, size |-> n, rwx |-> job.rwx]
      BY <1>3, <2>1, <2>2, MapFrameTypes, SMT DEF TInv
    <3> QED BY <1>2, <1>3, <3>1 DEF DoneInv, n
  <2> QED BY <2>3, <2>4, <2>5, <2>6 DEF LayInv
<1>7. CASE MapFrameFails(job.lo, size, job.rwx) /\ Fail(job.torn)
  <2>1. Apart' /\ Clean'
    BY <1>3, <1>4, <1>5, <1>7, MapFrameFailsLayout DEF LayInv, TInv
  <2> QED BY <1>2, <1>7, <2>1, FailLayout DEF LayInv
<1> QED BY <1>1, <1>6, <1>7

\* When the old range has been torn the whole new range is free.
LEMMA PlaceIsFree ==
  ASSUME TInv, LayInv, pc = "place"
  PROVE  /\ LiveOff(job.dest, job.dest + job.size)
         /\ LiveOff(job.old, job.oldEnd)
         /\ FramePages(job.size) = job.size /\ ~ Across(job.dest, job.size)
         /\ job.op = "mremap" /\ job.dest \in Nat /\ job.size \in Nat \ {0} /\ job.rwx \in BOOLEAN
         /\ keeps = {} /\ hand \in Frames \ Live
<1>1. /\ job.then = "place" /\ job.op = "mremap" /\ job.dest \in Nat /\ job.size \in Nat \ {0}
      /\ job.rwx \in BOOLEAN /\ keeps = {} /\ hand # NoPage
      /\ job.lo = job.old /\ job.hi = job.oldEnd /\ job.old \in Nat /\ job.oldEnd \in Nat
      /\ job.old < job.oldEnd
  BY SMT DEF TInv, IInv, JobInv, CallInv
<1>2. hand \in Frames \ Live
  BY <1>1 DEF TInv, IInv, ShapeInv, OneOwner
<1>3. LiveOff(job.old, job.oldEnd)
  BY <1>1 DEF LayInv, WorkOff
<1>4. FramePages(job.size) = job.size /\ ~ Across(job.dest, job.size)
  BY <1>1 DEF LayInv, WorkOff, Odd, Across
<1>5. DestOff
  BY <1>1 DEF LayInv, DestInv
<1>6. ASSUME NEW i \in Live PROVE Off(maps[i].va, maps[i].size, job.dest, job.dest + job.size)
  <2>1. maps[i].va \in Nat /\ maps[i].size \in Nat \ {0}
    BY LiveTypes DEF TInv
  <2>2. Off(maps[i].va, maps[i].size, job.old, job.oldEnd)
    BY <1>3 DEF LiveOff
  <2>3. \/ /\ job.dest = job.old
           /\ job.oldEnd < job.dest + job.size =>
                Off(maps[i].va, maps[i].size, job.oldEnd, job.dest + job.size)
        \/ Off(maps[i].va, maps[i].size, job.dest, job.dest + job.size)
    BY <1>5 DEF DestOff, LiveOff
  <2> QED BY <1>1, <2>1, <2>2, <2>3, SMT DEF Off
<1> QED BY <1>1, <1>2, <1>3, <1>4, <1>6 DEF LiveOff

\* The new frame takes its place.
LEMMA PlaceLayout ==
  ASSUME TInv, Place, LayInv
  PROVE  LayInv'
<1>1. /\ MapFrame(job.dest, hand, FramePages(job.size), job.rwx)
      /\ pc' = "done" /\ UNCHANGED <<job, keeps>> /\ pc = "place"
  BY DEF Place
<1>2. /\ LiveOff(job.dest, job.dest + job.size)
      /\ LiveOff(job.old, job.oldEnd)
      /\ FramePages(job.size) = job.size /\ ~ Across(job.dest, job.size)
      /\ job.op = "mremap" /\ job.dest \in Nat /\ job.size \in Nat \ {0} /\ job.rwx \in BOOLEAN
      /\ keeps = {} /\ hand \in Frames \ Live
  BY <1>1, PlaceIsFree
<1>3. MapFrame(job.dest, hand, job.size, job.rwx) /\ keeps' = {}
  BY <1>1, <1>2
<1>4. Apart' /\ Clean' /\ KeepsApart'
  BY <1>2, <1>3, MapLayout DEF LayInv
<1>5. WorkOff'
  BY <1>1, <1>2 DEF LayInv, WorkOff, Odd
<1>6. DestInv'
  BY <1>1 DEF DestInv
<1>7. DoneInv'
  <2>1. /\ Live' = Live \cup {hand} /\ \A j \in Live : maps'[j] = maps[j]
        /\ maps'[hand] = [va |-> job.dest, size |-> job.size, rwx |-> job.rwx]
    BY <1>2, <1>3, MapFrameTypes, SMT DEF TInv
  <2>2. \A j \in Live' \ {hand} : Off(maps'[j].va, maps'[j].size, job.old, job.oldEnd)
    BY <1>2, <2>1 DEF LiveOff
  <2>3. hand \in Live'
    BY <2>1
  <2>4. job' = job
    BY <1>1
  <2> QED BY <1>2, <2>1, <2>2, <2>3, <2>4 DEF DoneInv, Off
<1> QED BY <1>4, <1>5, <1>6, <1>7 DEF LayInv

\* rebuild fills a frame and touches no mapping.
LEMMA RebuildLayout ==
  ASSUME TInv, Rebuild, ~ odd, ~ odd', LayInv
  PROVE  LayInv'
<1> DEFINE w == maps[First(Overlapping(job.old, job.old + 1))].rwx
<1>1. /\ UNCHANGED <<maps, pte, keeps>> /\ pc = "rebuild" /\ pc' = "tear"
      /\ job' = [job EXCEPT !.lo = job.old, !.hi = job.oldEnd, !.then = "place", !.rwx = w]
      /\ odd' = (odd \/ Odd(job.dest, job.size))
  BY DEF Rebuild, mapVars
<1> HIDE DEF w
<1>2. /\ job'.op = job.op /\ job'.then = "place" /\ job'.old = job.old /\ job'.oldEnd = job.oldEnd
      /\ job'.dest = job.dest /\ job'.size = job.size /\ job'.ragged = job.ragged
  BY <1>1 DEF TInv, IInv, JobInv, NoJob
<1>3. Live' = Live
  BY <1>1 DEF Live
<1>4. Apart' /\ Clean' /\ KeepsApart'
  BY <1>1, <1>3 DEF LayInv, Apart, Clean, KeepsApart, LiveOff, Off, Across, Mapped,
                           mapping_range, PagesOf
<1>5. WorkOff'
  BY <1>1, <1>2 DEF LayInv, WorkOff, Odd
<1>6. DestInv'
  <2> SUFFICES ASSUME job.op = "mremap" PROVE DestOff'
    BY <1>2 DEF DestInv
  <2>1. DestOff
    BY <1>1 DEF LayInv, DestInv
  <2> QED BY <1>1, <1>2, <1>3, <2>1 DEF DestOff, LiveOff, KeepsOff, Off
<1>7. DoneInv'
  BY <1>1 DEF DoneInv
<1> QED BY <1>4, <1>5, <1>6, <1>7 DEF LayInv

\* Nothing that the layout is about changes.
LEMMA SameLayout ==
  ASSUME LayInv, UNCHANGED <<maps, pte, keeps>>, ~ job'.ragged, pc' \in {"idle", "tear", "alloc", "rebuild"},
         job'.then # "place", pc' = "alloc" => LiveOff(job'.lo, job'.hi) /\ keeps = {}, DestInv'
  PROVE  LayInv'
<1>1. Live' = Live
  BY DEF Live
<1>2. Apart' /\ Clean' /\ KeepsApart'
  BY <1>1 DEF LayInv, Apart, Clean, KeepsApart, LiveOff, Off, Across, Mapped,
                     mapping_range, PagesOf
<1>3. pc' = "alloc" => LiveOff(job.lo, job.hi)' /\ KeepsOff(job.lo, job.hi)'
  BY <1>1 DEF LiveOff, KeepsOff, Off
<1>4. WorkOff'
  BY <1>3 DEF WorkOff
<1>5. DoneInv'
  BY DEF DoneInv
<1> QED BY <1>2, <1>4, <1>5 DEF LayInv

\* A call begins on a range that it has found free, or that it will tear.
LEMMA CallLayout ==
  ASSUME TInv, Call, ~ odd, ~ odd', LayInv
  PROVE  LayInv'
<1>1. PICK addr \in Addrs, n \in Lens :
    \/ \E how \in {"hint", "fixed", "noreplace"}, rwx \in BOOLEAN : mmap(addr, n, how, rwx)
    \/ \E ragged \in BOOLEAN : munmap(addr, n, ragged)
    \/ \E size \in Lens :
         \/ mremap_in_place(addr, n, size)
         \/ mremap_maymove(addr, n, size)
         \/ \E dest \in Addrs : mremap_fixed(addr, n, size, dest)
  BY DEF Call
<1>2. addr \in Nat /\ n \in Nat \ {0} /\ \A x \in Lens : x \in Nat \ {0}
  BY ArgumentAssumption
<1>3. IInv /\ Types /\ Apart /\ Clean /\ (pc = "idle" => keeps = {})
  BY DEF TInv, LayInv, CallInv
<1>4. ASSUME NEW how \in {"hint", "fixed", "noreplace"}, NEW rwx \in BOOLEAN,
             mmap(addr, n, how, rwx)
      PROVE  LayInv'
  <2> DEFINE target == IF how # "hint" \/ (addr # 0 /\ range_is_free(addr, addr + n))
                       THEN addr ELSE find_free_region(n)
  <2>1. target # NoPage /\ (how = "noreplace" => range_is_free(target, target + n))
    BY <1>4 DEF mmap
  <2>2. how # "fixed" => LiveOff(target, target + n)
    <3>1. CASE how = "noreplace"
      <4>1. target = addr /\ target \in Nat /\ target + n \in Nat
        BY <1>2, <3>1, SMT
      <4> HIDE DEF target
      <4> QED BY <1>3, <2>1, <3>1, <4>1, RangeIsFree
    <3>2. CASE how = "hint" /\ addr # 0 /\ range_is_free(addr, addr + n)
      <4>1. target = addr /\ addr + n \in Nat
        BY <1>2, <3>2, SMT
      <4> HIDE DEF target
      <4> QED BY <1>2, <1>3, <3>2, <4>1, RangeIsFree
    <3>3. CASE how = "hint" /\ ~ (addr # 0 /\ range_is_free(addr, addr + n))
      <4>1. target = find_free_region(n)
        BY <3>3
      <4> HIDE DEF target
      <4> QED BY <1>2, <1>3, <2>1, <4>1, FreeRegionIsFree
    <3> QED BY <3>1, <3>2, <3>3
  <2>3. job' = [NoJob EXCEPT !.op = "mmap", !.lo = target, !.hi = target + n,
                             !.then = "alloc", !.rwx = rwx]
    BY <1>4 DEF mmap
  <2> HIDE DEF target
  <2>4. /\ job'.op = "mmap" /\ job'.lo = target /\ job'.hi = target + n
        /\ job'.then = "alloc" /\ job'.ragged = FALSE
    BY <2>3 DEF NoJob
  <2>5. /\ UNCHANGED <<maps, pte, keeps>>
        /\ pc = "idle" /\ pc' = (IF how = "fixed" THEN "tear" ELSE "alloc")
    BY <1>4 DEF mmap, mapVars
  <2>6. DestInv'
    BY <2>4 DEF DestInv
  <2> QED BY <1>3, <2>2, <2>4, <2>5, <2>6, SameLayout
<1>5. ASSUME NEW ragged \in BOOLEAN, munmap(addr, n, ragged)
      PROVE  LayInv'
  <2>1. job' = [NoJob EXCEPT !.op = "munmap", !.lo = addr, !.hi = addr + n,
                             !.then = "done", !.ragged = ragged]
    BY <1>5 DEF munmap
  <2>2. job'.op = "munmap" /\ job'.then = "done" /\ job'.ragged = ragged
    BY <2>1 DEF NoJob
  <2>3. UNCHANGED <<maps, pte, keeps>> /\ pc' = "tear" /\ odd' = (odd \/ ragged)
    BY <1>5 DEF munmap, mapVars
  <2>4. ~ job'.ragged
    BY <2>2, <2>3
  <2>5. DestInv'
    BY <2>2 DEF DestInv
  <2> QED BY <2>2, <2>3, <2>4, <2>5, SameLayout
<1>6. ASSUME NEW dest \in Nat, NEW size \in Lens, NEW t \in {"tear", "rebuild"}, pc = "idle",
             Mremap(addr, n, dest, size, t),
             \/ dest = addr /\ (n < size => LiveOff(addr + n, dest + size))
             \/ /\ Off(dest, size, addr, addr + n)
                /\ t = "tear" \/ LiveOff(dest, dest + size)
      PROVE  LayInv'
  <2>1. job' = [NoJob EXCEPT !.op = "mremap", !.old = addr, !.oldEnd = addr + n,
                             !.dest = dest, !.size = size, !.then = "rebuild",
                             !.lo = dest, !.hi = dest + size]
    BY <1>6 DEF Mremap
  <2>2. /\ job'.op = "mremap" /\ job'.lo = dest /\ job'.hi = dest + size
        /\ job'.then = "rebuild" /\ job'.old = addr /\ job'.oldEnd = addr + n
        /\ job'.dest = dest /\ job'.size = size /\ job'.ragged = FALSE
    BY <2>1 DEF NoJob
  <2>3. UNCHANGED <<maps, pte, keeps>> /\ pc' = t
    BY <1>6 DEF Mremap, mapVars
  <2>4. Live' = Live /\ keeps' = {}
    BY <1>3, <1>6, <2>3 DEF Live
  <2>5. size \in Nat
    BY <1>2
  <2>6. DestOff'
    BY <1>2, <1>6, <2>2, <2>3, <2>4, <2>5, SMT DEF DestOff, LiveOff, KeepsOff, Off
  <2>7. DestInv'
    BY <2>6 DEF DestInv
  <2> QED BY <2>2, <2>3, <2>7, SameLayout
<1>7. ASSUME NEW size \in Lens, mremap_in_place(addr, n, size)
      PROVE  LayInv'
  <2>1. addr + n \in Nat /\ addr + size \in Nat /\ size \in Nat
    BY <1>2, SMT
  <2>2. n < size => LiveOff(addr + n, addr + size)
    BY <1>2, <1>3, <1>7, <2>1, RangeIsFree, SMT DEF mremap_in_place, Shrinks, GrowsInPlace
  <2> QED BY <1>2, <1>6, <1>7, <2>2 DEF mremap_in_place
<1>8. ASSUME NEW size \in Lens, mremap_maymove(addr, n, size)
      PROVE  LayInv'
  <2> DEFINE dest == find_free_region(size)
  <2>1. size \in Nat \ {0} /\ dest # NoPage
    BY <1>2, <1>8 DEF mremap_maymove
  <2>2. dest \in Nat
    BY <1>3, <2>1, FreeRegionCases
  <2>3. /\ pc = "idle" /\ Mremap(addr, n, dest, size, "rebuild")
        /\ ~ (dest < addr + n /\ addr < dest + size)
    BY <1>8 DEF mremap_maymove, MayMove
  <2>4. LiveOff(dest, dest + size)
    BY <1>3, <2>1, FreeRegionIsFree
  <2> HIDE DEF dest
  <2>5. Off(dest, size, addr, addr + n)
    BY <1>2, <2>1, <2>2, <2>3, SMT DEF Off
  <2> QED BY <1>6, <2>2, <2>3, <2>4, <2>5
<1>9. ASSUME NEW size \in Lens, NEW dest \in Addrs, mremap_fixed(addr, n, size, dest)
      PROVE  LayInv'
  <2>1. dest \in Nat /\ size \in Nat
    BY ArgumentAssumption
  <2>2. Off(dest, size, addr, addr + n)
    BY <1>2, <1>9, <2>1, SMT DEF mremap_fixed, MayMove, Off
  <2> QED BY <1>6, <1>9, <2>1, <2>2 DEF mremap_fixed
<1> QED BY <1>1, <1>4, <1>5, <1>7, <1>8, <1>9

\* The copies are where the mappings are, and each entry of the child is that
\* of the one mapping that covers the page.
LEMMA CloneLayout ==
  ASSUME TInv, Clone, LayInv
  PROVE  LayInv'
<1>1. PICK f \in [Live -> FreeFrames] :
        /\ \A i, j \in Live : f[i] = f[j] => i = j
        /\ maps' = [x \in Frames |-> IF x \in {f[i] : i \in Live}
                                     THEN maps[CHOOSE i \in Live : f[i] = x] ELSE NoMapping]
        /\ pte' = [p \in Pages |-> ChildEntry(f, p)]
  BY DEF Clone
<1>2. UNCHANGED <<pc, job, keeps>> /\ pc = "idle"
  BY DEF Clone
<1>3. \A i \in Live : f[i] \in Frames /\ (CHOOSE j \in Live : f[j] = f[i]) = i
  BY <1>1 DEF FreeFrames
<1>4. \A i \in Live : maps'[f[i]] = maps[i] /\ f[i] \in Live'
  BY <1>1, <1>3 DEF Live
<1>5. \A x \in Live' : \E i \in Live : x = f[i]
  BY <1>1 DEF Live
<1>6. Apart'
  <2> SUFFICES ASSUME NEW a \in Live', NEW b \in Live', a # b
               PROVE  Off(maps'[a].va, maps'[a].size, maps'[b].va, maps'[b].va + maps'[b].size)
    BY DEF Apart, Off
  <2>1. PICK i \in Live : a = f[i]
    BY <1>5
  <2>2. PICK j \in Live : b = f[j]
    BY <1>5
  <2>3. i # j /\ maps'[a] = maps[i] /\ maps'[b] = maps[j]
    BY <1>4, <2>1, <2>2
  <2> QED BY <2>3 DEF LayInv, Apart
<1>7. Clean'
  <2> SUFFICES ASSUME NEW a \in Live' PROVE Mapped(a)' /\ ~ Across(maps'[a].va, maps'[a].size)
    BY DEF Clean, Across
  <2>1. PICK i \in Live : a = f[i]
    BY <1>5
  <2>2. maps'[a] = maps[i]
    BY <1>4, <2>1
  <2>3. ASSUME NEW p \in PagesOf(maps[i].va, maps[i].size)
        PROVE  pte'[p] = IF maps[i].rwx THEN <<a, p - maps[i].va>> ELSE NoPage
    <3> DEFINE over == {j \in Live : maps[j].rwx /\ p \in mapping_range(j)}
    <3>1. p \in Pages /\ p \in mapping_range(i)
      BY DEF PagesOf, mapping_range
    <3>2. pte'[p] = ChildEntry(f, p)
      BY <1>1, <3>1
    <3>3. ASSUME NEW j \in Live, p \in mapping_range(j) PROVE j = i
      <4> SUFFICES ASSUME j # i PROVE FALSE
        OBVIOUS
      <4>1. maps[i].va \in Nat /\ maps[i].size \in Nat /\ maps[j].va \in Nat /\ maps[j].size \in Nat
        BY LiveTypes DEF TInv
      <4>2. Off(maps[j].va, maps[j].size, maps[i].va, maps[i].va + maps[i].size)
        BY DEF LayInv, Apart
      <4> QED BY <3>1, <3>3, <4>1, <4>2, OffPages DEF mapping_range
    <3>4. CASE maps[i].rwx
      <4>1. over = {i}
        BY <3>1, <3>3, <3>4
      <4>2. over \in SUBSET Frames /\ over # {}
        BY <4>1 DEF Live
      <4>3. Last(over) \in over
        BY <4>2, LastIsMember DEF TInv, IInv, ShapeInv
      <4>4. Last(over) = i
        BY <4>1, <4>3
      <4> QED BY <2>1, <3>2, <3>4, <4>2, <4>4 DEF ChildEntry
    <3>5. CASE ~ maps[i].rwx
      <4>1. over = {}
        BY <3>3, <3>5
      <4>2. pte[p] = NoPage
        BY <3>1, <3>5 DEF LayInv, Clean, Mapped
      <4> QED BY <3>2, <3>5, <4>1, <4>2 DEF ChildEntry
    <3> QED BY <3>4, <3>5
  <2>4. Mapped(a)'
    BY <2>2, <2>3 DEF Mapped, mapping_range, PagesOf
  <2> QED BY <2>2, <2>4 DEF LayInv, Clean
<1>8. keeps' = {} /\ ~ job'.ragged /\ job'.then # "place"
  BY <1>2, SMT DEF TInv, CallInv, NoJob
<1>9. KeepsApart'
  BY <1>8 DEF KeepsApart
<1>10. WorkOff' /\ DestInv' /\ DoneInv'
  BY <1>2, <1>8 DEF WorkOff, DestInv, DoneInv
<1> QED BY <1>6, <1>7, <1>9, <1>10 DEF LayInv

\* Every step of a call keeps the layout.
LEMMA StepLayout ==
  ASSUME TInv, TInv', Step, ~ odd, ~ odd', LayInv
  PROVE  LayInv'
<1>1. ASSUME NEW t, Fail(t), UNCHANGED <<mapVars, job>>
      PROVE  LayInv'
  <2>1. Live' = Live
    BY <1>1 DEF Live, mapVars
  <2>2. Apart' /\ Clean'
    BY <1>1, <2>1 DEF LayInv, Apart, Clean, Off, Across, Mapped, mapping_range,
                             PagesOf, mapVars
  <2> QED BY <1>1, <2>2, FailLayout DEF LayInv
<1>2. CASE TearFails \/ AllocFails \/ RebuildFaults
  BY <1>1, <1>2 DEF TearFails, AllocFails, RebuildFaults
<1>3. CASE RemapFails
  <2> DEFINE k == NextKeep
  <2>1. k \in keeps
    BY <1>3, NextKeepIsMember DEF TInv, IInv, RemapFails
  <2>2. MapFrameFails(k.va, k.size, k.rwx) /\ Fail(TRUE) /\ UNCHANGED job
    BY <1>3 DEF RemapFails
  <2> HIDE DEF k
  <2>3. k.va \in Nat /\ k.size \in Nat /\ LiveOff(k.va, k.va + k.size)
    BY <2>1 DEF TInv, Types, LayInv, KeepsApart
  <2>4. Apart' /\ Clean'
    BY <2>2, <2>3, MapFrameFailsLayout DEF LayInv, TInv
  <2> QED BY <2>2, <2>4, FailLayout DEF LayInv
<1>4. CASE PlaceFails
  <2>1. /\ MapFrameFails(job.dest, FramePages(job.size), job.rwx) /\ Fail(job.torn)
        /\ UNCHANGED job /\ pc = "place"
    BY <1>4 DEF PlaceFails
  <2>2. /\ LiveOff(job.dest, job.dest + job.size) /\ FramePages(job.size) = job.size
        /\ job.dest \in Nat /\ job.size \in Nat
    BY <2>1, PlaceIsFree
  <2>3. MapFrameFails(job.dest, job.size, job.rwx)
    BY <2>1, <2>2
  <2>4. Apart' /\ Clean'
    BY <2>2, <2>3, MapFrameFailsLayout DEF LayInv, TInv
  <2> QED BY <2>1, <2>4, FailLayout DEF LayInv
<1>5. CASE Return
  <2>1. UNCHANGED <<maps, pte, keeps>> /\ pc' = "idle" /\ job' = NoJob
    BY <1>5 DEF Return, mapVars
  <2>2. ~ job'.ragged /\ job'.then # "place" /\ job'.op = "none"
    BY <2>1 DEF NoJob
  <2>3. DestInv'
    BY <2>2 DEF DestInv
  <2> QED BY <2>1, <2>2, <2>3, SameLayout
<1> QED
  BY <1>2, <1>3, <1>4, <1>5, TearLayout, RemapLayout, MmapLayout, RebuildLayout, PlaceLayout
  DEF Step

\* A state without an odd mapping comes from one.
LEMMA OddStays ==
  ASSUME [Next]_vars, ~ odd'
  PROVE  ~ odd
<1>1. ASSUME Call PROVE ~ odd
  <2>1. ASSUME NEW addr, NEW n, NEW how, NEW rwx, mmap(addr, n, how, rwx) PROVE ~ odd
    BY <2>1 DEF mmap
  <2>2. ASSUME NEW addr, NEW n, NEW ragged, munmap(addr, n, ragged) PROVE ~ odd
    BY <2>2 DEF munmap
  <2>3. ASSUME NEW old, NEW n, NEW dest, NEW size, NEW t, Mremap(old, n, dest, size, t)
        PROVE  ~ odd
    BY <2>3 DEF Mremap
  <2> QED
    BY <1>1, <2>1, <2>2, <2>3 DEF Call, mremap_in_place, mremap_maymove, mremap_fixed
<1>2. ASSUME Step PROVE ~ odd
  BY <1>2 DEF Step, Tear, TearFails, Remap, RemapFails, AllocFails, mmap_maps,
                     RebuildFaults, Rebuild, Place, PlaceFails, Return
<1>3. ASSUME NEW p \in Pages, Store(p) PROVE ~ odd
  BY <1>3 DEF Store
<1>4. ASSUME Clone PROVE ~ odd
  BY <1>4 DEF Clone
<1> QED BY <1>1, <1>2, <1>3, <1>4 DEF Next, Rest, vars

\* The stack is alone, and its entries are written.
LEMMA InitLInv == Init => LInv
<1> SUFFICES ASSUME Init PROVE LInv
  OBVIOUS
<1> DEFINE n == FramePages(StackPages)
           low == USER_STACK_LOWER_BOUND
           stack == [va |-> low, size |-> n, rwx |-> TRUE]
<1>1. PICK i \in Frames :
        /\ maps = [x \in Frames |-> IF x # i THEN NoMapping ELSE stack]
        /\ pte = [p \in Pages |-> IF p \in PagesOf(low, n) THEN <<i, p - low>> ELSE NoPage]
  BY DEF Init
<1>2. low \in Nat
  BY StackAssumption
<1> HIDE DEF n, low
<1>3. Live = {i} /\ maps[i].va = low /\ maps[i].size = n /\ maps[i].rwx = TRUE
  BY <1>1 DEF Live, NoMapping
<1>4. Apart
  BY <1>3 DEF Apart
<1>5. Clean
  <2>1. ~ Across(low, n)
    BY <1>2, SMT DEF Across, low
  <2>2. \A p \in PagesOf(low, n) : pte[p] = <<i, p - low>>
    BY <1>1 DEF PagesOf
  <2> QED BY <1>3, <2>1, <2>2 DEF Clean, Mapped, mapping_range
<1>6. KeepsApart /\ WorkOff /\ DestInv /\ DoneInv
  BY DEF Init, KeepsApart, WorkOff, DestInv, DoneInv, NoJob
<1> QED BY <1>4, <1>5, <1>6, InitTInv DEF LInv, LayInv

\* LInv is inductive.
THEOREM LayoutInductive == Spec => []LInv
<1>1. LInv /\ TInv' /\ [Next]_vars => LInv'
  <2> SUFFICES ASSUME LInv, TInv', [Next]_vars, ~ odd' PROVE LayInv'
    BY DEF LInv
  <2>1. ~ odd /\ LayInv /\ TInv
    BY OddStays DEF LInv
  <2>2. CASE Call
    BY <2>1, <2>2, CallLayout
  <2>3. CASE Step
    BY <2>1, <2>3, StepLayout
  <2>4. CASE Clone
    BY <2>1, <2>4, CloneLayout
  <2>5. ASSUME UNCHANGED <<maps, pte, pc, job, keeps>> PROVE LayInv'
    <3>1. Live' = Live
      BY <2>5 DEF Live
    <3>2. Apart' /\ Clean' /\ KeepsApart'
      BY <2>1, <2>5, <3>1 DEF LayInv, Apart, Clean, KeepsApart, LiveOff, Off, Across,
                                     Mapped, mapping_range, PagesOf
    <3>3. WorkOff'
      BY <2>1, <2>5, <3>1 DEF LayInv, WorkOff, LiveOff, KeepsOff, Off, Odd
    <3>4. DestInv'
      BY <2>1, <2>5, <3>1 DEF LayInv, DestInv, DestOff, LiveOff, KeepsOff, Off
    <3>5. DoneInv'
      BY <2>1, <2>5, <3>1 DEF LayInv, DoneInv, Off
    <3> QED BY <3>2, <3>3, <3>4, <3>5 DEF LayInv
  <2>6. CASE \E p \in Pages : Store(p)
    BY <2>5, <2>6 DEF Store, mapVars
  <2>7. CASE UNCHANGED vars
    BY <2>5, <2>7 DEF vars
  <2> QED BY <2>2, <2>3, <2>4, <2>6, <2>7 DEF Next, Rest
<1> QED BY <1>1, InitLInv, TypesInductive, PTL DEF Spec

\* While no mapping is odd the mappings are disjoint and the page table is
\* what they say, at every step of every call, whatever fails.
THEOREM LayoutTheorem == Spec => []Layout
<1>1. LInv => Layout
  <2> SUFFICES ASSUME LInv, ~ odd, NEW i \in Live
               PROVE  Mapped(i) /\ \A j \in Live \ {i} : mapping_range(i) \cap mapping_range(j) = {}
    BY DEF Layout
  <2>1. Mapped(i)
    BY DEF LInv, LayInv, Clean
  <2>2. ASSUME NEW j \in Live \ {i} PROVE mapping_range(i) \cap mapping_range(j) = {}
    <3>1. maps[i].va \in Nat /\ maps[i].size \in Nat /\ maps[j].va \in Nat /\ maps[j].size \in Nat
      BY LiveTypes DEF LInv, TInv
    <3>2. Off(maps[i].va, maps[i].size, maps[j].va, maps[j].va + maps[j].size)
      BY DEF LInv, LayInv, Apart
    <3> QED BY <3>1, <3>2, OffPages DEF mapping_range
  <2> QED BY <2>1, <2>2
<1> QED BY <1>1, LayoutInductive, PTL

\* A call that returns success did what it is for: munmap left nothing in the
\* range, mmap mapped all of it, and mremap mapped all of the new range and
\* left nothing of the old one outside it.
THEOREM EffectTheorem == Spec => []Effect
<1>1. LInv => Effect
  <2> SUFFICES ASSUME LInv, pc = "done", ~ odd
               PROVE  /\ job.op = "munmap" => range_is_free(job.lo, job.hi)
                      /\ job.op = "mmap" =>
                           \E i \in Live : maps[i] = [va |-> job.lo, size |-> job.hi - job.lo,
                                                      rwx |-> job.rwx]
                      /\ job.op = "mremap" =>
                           /\ range_fully_mapped(job.dest, job.dest + job.size)
                           /\ \A p \in job.old .. (job.oldEnd - 1) :
                                page_phys(p) # NoPage => job.dest =< p /\ p < job.dest + job.size
                      /\ job.op \in {"munmap", "mmap", "mremap"}
    BY DEF Effect
  <2>1. job.op \in {"munmap", "mmap", "mremap"}
    BY DEF LInv, TInv, CallInv
  <2>2. job.op = "munmap" => range_is_free(job.lo, job.hi)
    <3>1. job.lo \in Nat /\ job.hi \in Nat /\ (job.op = "munmap" => LiveOff(job.lo, job.hi))
      BY DEF LInv, TInv, CallInv, LayInv, WorkOff
    <3> QED BY <3>1, RangeIsFree DEF LInv, TInv
  <2>3. job.op = "mmap" =>
          \E i \in Live : maps[i] = [va |-> job.lo, size |-> job.hi - job.lo, rwx |-> job.rwx]
    BY DEF LInv, LayInv, DoneInv
  <2>4. ASSUME job.op = "mremap"
        PROVE  /\ range_fully_mapped(job.dest, job.dest + job.size)
               /\ \A p \in job.old .. (job.oldEnd - 1) :
                    page_phys(p) # NoPage => job.dest =< p /\ p < job.dest + job.size
    <3>1. PICK i \in Live :
            /\ maps[i] = [va |-> job.dest, size |-> job.size, rwx |-> job.rwx]
            /\ \A j \in Live \ {i} : Off(maps[j].va, maps[j].size, job.old, job.oldEnd)
      BY <2>4 DEF LInv, LayInv, DoneInv
    <3>2. maps[i].va = job.dest /\ maps[i].size = job.size
      BY <3>1, SMT
    <3>3. job.dest \in Nat /\ job.size \in Nat /\ job.old \in Nat /\ job.oldEnd \in Nat
      BY DEF LInv, TInv, CallInv
    <3>4. range_fully_mapped(job.dest, job.dest + job.size)
      <4> SUFFICES ASSUME NEW p \in job.dest .. ((job.dest + job.size) - 1)
                   PROVE  page_phys(p) # NoPage
        BY DEF range_fully_mapped
      <4> DEFINE over == Overlapping(p, p + 1)
      <4>1. i \in over
        BY <3>2, <3>3, SMT DEF Overlapping, EndOf
      <4>2. over \in SUBSET Frames /\ over # {}
        BY <4>1 DEF Overlapping, Live
      <4>3. First(over) \in over
        BY <4>2, FirstIsMember DEF LInv, TInv, IInv, ShapeInv
      <4>4. /\ First(over) \in Frames /\ maps[First(over)].va < p + 1
            /\ maps[First(over)].va \in Nat
        BY <4>3, OverlapFacts DEF LInv, TInv
      <4>5. p - maps[First(over)].va \in Nat
        BY <3>3, <4>4, SMT
      <4>6. <<First(over), p - maps[First(over)].va>> \in Frames \X Nat
        BY <4>4, <4>5
      <4> QED BY <4>2, <4>6, EntryAssumption DEF page_phys
    <3>5. ASSUME NEW p \in job.old .. (job.oldEnd - 1), page_phys(p) # NoPage
          PROVE  job.dest =< p /\ p < job.dest + job.size
      <4>1. Overlapping(p, p + 1) # {}
        BY <3>5 DEF page_phys
      <4>2. PICK j \in Overlapping(p, p + 1) : TRUE
        BY <4>1
      <4>3. /\ j \in Live /\ maps[j].va < p + 1 /\ p < maps[j].va + maps[j].size
            /\ maps[j].va \in Nat /\ maps[j].size \in Nat
        BY OverlapFacts DEF LInv, TInv
      <4>4. j = i
        BY <3>1, <3>3, <4>3, SMT DEF Off
      <4> QED BY <3>2, <3>3, <4>3, <4>4, SMT
    <3> QED BY <3>4, <3>5
  <2> QED BY <2>1, <2>2, <2>3, <2>4
<1> QED BY <1>1, LayoutInductive, PTL

-----------------------------------------------------------------------------
(* The contents *)

\* Where the datum will be once the call has returned.
Expected == IF pc = "done" THEN NewDatum ELSE datum

\* Frame i, seen as size pages from va, shows the datum in page d.
Shows(va, size, i, d) == va =< d /\ d < va + size /\ <<i, d - va>> \in mem

LiveShows(d) == \E i \in Live : Shows(maps[i].va, maps[i].size, i, d)

KeepShows(d) == \E k \in keeps : Shows(k.va, k.size, k.frame, d)

\* ... and in no other page.
Only(va, size, i, d) == \A off \in 0 .. (size - 1) : <<i, off>> \in mem => va + off = d

\* No mapping, buffer or new frame shows the datum where it is not.
GhostInv ==
  /\ \A i \in Live : Only(maps[i].va, maps[i].size, i, Expected)
  /\ \A k \in keeps : Only(k.va, k.size, k.frame, datum)
  /\ hand # NoPage =>
       \A off \in 0 .. (job.size - 1) :
         <<hand, off>> \in mem => off < CopyLen /\ job.old + off = datum

\* Page d was in a range that the call has torn.
Gone(d) ==
  /\ job.torn
  /\ \/ job.op \in {"mmap", "munmap"} /\ job.lo =< d /\ d < job.hi
     \/ job.op = "mremap" /\ job.dest =< d /\ d < job.dest + job.size
     \/ /\ job.op = "mremap" /\ pc \in {"remap", "place"} /\ job.then = "place"
        /\ job.old =< d /\ d < job.oldEnd

\* The datum is in a mapping or in a buffer, unless the call has torn the
\* range it was in; and when it is to be moved, the new frame has it.
KeptInv ==
  /\ pc = "failed" => ~ job.torn
  /\ Expected # NoPage =>
       LiveShows(Expected) \/ KeepShows(Expected) \/ (pc # "done" /\ Gone(datum))
  /\ hand # NoPage /\ datum # NoPage /\ job.old =< datum /\ datum < job.old + CopyLen =>
       <<hand, datum - job.old>> \in mem
  /\ job.then = "rebuild" /\ (pc \in {"tear", "remap"} \/ job.torn) =>
       Off(job.dest, job.size, job.old, job.oldEnd)

DInv == LInv /\ (~ odd => GhostInv) /\ (~ odd /\ ~ torn => KeptInv)

\* The datum is a page.
LEMMA DatumIsNat ==
  ASSUME DatumType
  PROVE  datum # NoPage <=> datum \in Nat
BY EntryAssumption, SMT DEF DatumType, Pages

\* The frame that backs a page is that of the one mapping that covers it.
LEMMA PhysShows ==
  ASSUME TInv, Apart, NEW d \in Nat
  PROVE  page_phys(d) \in mem <=> LiveShows(d)
<1> DEFINE over == Overlapping(d, d + 1)
<1>1. over \in SUBSET Frames
  BY DEF Overlapping, Live
<1>2. ASSUME NEW i \in Live
      PROVE  i \in over <=> maps[i].va =< d /\ d < maps[i].va + maps[i].size
  BY LiveTypes, SMT DEF TInv, Overlapping
<1>3. ASSUME NEW i \in over, NEW j \in over PROVE i = j
  <2> SUFFICES ASSUME i # j PROVE FALSE
    OBVIOUS
  <2>1. i \in Live /\ j \in Live
    BY DEF Overlapping
  <2>2. Off(maps[i].va, maps[i].size, maps[j].va, maps[j].va + maps[j].size)
    BY <2>1 DEF Apart
  <2>3. /\ maps[i].va \in Nat /\ maps[i].size \in Nat /\ maps[j].va \in Nat /\ maps[j].size \in Nat
    BY <2>1, LiveTypes DEF TInv
  <2> QED BY <1>2, <2>1, <2>2, <2>3, SMT DEF Off
<1>4. CASE over = {}
  <2>1. page_phys(d) = NoPage
    BY <1>4 DEF page_phys
  <2>2. NoPage \notin mem
    BY EntryAssumption DEF TInv, Types
  <2>3. ~ LiveShows(d)
    BY <1>2, <1>4 DEF LiveShows, Shows
  <2> QED BY <2>1, <2>2, <2>3
<1>5. CASE over # {}
  <2> DEFINE i == First(over)
  <2>1. i \in over
    BY <1>1, <1>5, FirstIsMember DEF TInv, IInv, ShapeInv
  <2>2. page_phys(d) = <<i, d - maps[i].va>>
    BY <1>5 DEF page_phys
  <2> HIDE DEF i
  <2>3. i \in Live
    BY <2>1 DEF Overlapping
  <2>4. maps[i].va =< d /\ d < maps[i].va + maps[i].size
    BY <1>2, <2>1, <2>3
  <2>5. LiveShows(d) => <<i, d - maps[i].va>> \in mem
    <3> SUFFICES ASSUME NEW j \in Live, Shows(maps[j].va, maps[j].size, j, d)
                 PROVE  <<i, d - maps[i].va>> \in mem
      BY DEF LiveShows
    <3>1. j \in over
      BY <1>2 DEF Shows
    <3>2. j = i
      BY <1>3, <2>1, <3>1
    <3> QED BY <3>2 DEF Shows
  <2> QED BY <2>2, <2>3, <2>4, <2>5 DEF LiveShows, Shows
<1> QED BY <1>4, <1>5

\* What is copied is what the mappings show.
LEMMA CopiedShows ==
  ASSUME TInv, Apart, NEW va \in Nat, NEW n \in Nat, NEW i, NEW x, NEW o
  PROVE  <<x, o>> \in Copied(i, va, n) <=> x = i /\ o \in 0 .. (n - 1) /\ LiveShows(va + o)
<1>1. ASSUME NEW y \in 0 .. (n - 1) PROVE page_phys(va + y) \in mem <=> LiveShows(va + y)
  <2>1. va + y \in Nat
    BY SMT
  <2> QED BY <2>1, PhysShows
<1>2. <<x, o>> \in Copied(i, va, n) <=> x = i /\ o \in 0 .. (n - 1) /\ page_phys(va + o) \in mem
  BY DEF Copied
<1> QED BY <1>1, <1>2

\* Outside of a call a mapping shows the datum in its page only.
LEMMA ShownIsDatum ==
  ASSUME TInv, GhostInv, pc # "done", NEW d \in Nat, LiveShows(d)
  PROVE  d = datum
<1>1. PICK i \in Live : Shows(maps[i].va, maps[i].size, i, d)
  BY DEF LiveShows
<1>2. maps[i].va \in Nat /\ maps[i].size \in Nat
  BY LiveTypes DEF TInv
<1>3. d - maps[i].va \in 0 .. (maps[i].size - 1) /\ <<i, d - maps[i].va>> \in mem
  BY <1>1, <1>2, SMT DEF Shows
<1>4. maps[i].va + (d - maps[i].va) = datum
  BY <1>3 DEF GhostInv, Only, Expected
<1> QED BY <1>2, <1>4, SMT

\* What the buffers of a tear hold is what the mappings showed, and no other
\* frame changes.
LEMMA TearMem ==
  ASSUME TInv, Apart, pc = "tear", ~ job.ragged, NEW f \in [Pieces -> FreeFrames],
         \A k, l \in Pieces : f[k] = f[l] => k = l, mem' = AfterCopies(f)
  PROVE  /\ \A j, o : (\A k \in Pieces : f[k] # j) => (<<j, o>> \in mem' <=> <<j, o>> \in mem)
         /\ \A k \in Pieces : \A o \in 0 .. (k.size - 1) :
              <<f[k], o>> \in mem' <=> LiveShows(k.va + o)
<1> DEFINE kept == {x \in mem : \A k \in Pieces : x[1] = f[k] => x[2] >= k.size}
<1>1. \A x : x \in mem' <=> x \in kept \/ \E k \in Pieces : x \in Copied(f[k], k.va, k.size)
  <2>1. DOMAIN f = Pieces
    OBVIOUS
  <2>2. mem' = kept \cup UNION {Copied(f[k], k.va, k.size) : k \in Pieces}
    <3>1. {j \in DOMAIN f : ~ (job.ragged /\ j.va >= job.lo)} = Pieces
      BY <2>1
    <3> QED BY <2>1, <3>1 DEF AfterCopies
  <2> QED BY <2>2
<1>2. \A k \in Pieces : k.va \in Nat /\ k.size \in Nat
  BY PieceTypes
<1>3. ASSUME NEW k \in Pieces, NEW x, NEW o
      PROVE  <<x, o>> \in Copied(f[k], k.va, k.size) <=>
               x = f[k] /\ o \in 0 .. (k.size - 1) /\ LiveShows(k.va + o)
  BY <1>2, CopiedShows
<1>4. ASSUME NEW j, NEW o, \A k \in Pieces : f[k] # j
      PROVE  <<j, o>> \in mem' <=> <<j, o>> \in mem
  <2>1. <<j, o>> \in kept <=> <<j, o>> \in mem
    BY <1>4
  <2>2. ~ \E k \in Pieces : <<j, o>> \in Copied(f[k], k.va, k.size)
    BY <1>3, <1>4
  <2> QED BY <1>1, <2>1, <2>2
<1>5. ASSUME NEW k \in Pieces, NEW o \in 0 .. (k.size - 1)
      PROVE  <<f[k], o>> \in mem' <=> LiveShows(k.va + o)
  <2>1. <<f[k], o>> \notin kept
    <3>1. ~ (o >= k.size)
      BY <1>2, SMT
    <3> QED BY <3>1
  <2>2. (\E l \in Pieces : <<f[k], o>> \in Copied(f[l], l.va, l.size)) <=> LiveShows(k.va + o)
    BY <1>3
  <2> QED BY <1>1, <2>1, <2>2
<1> QED BY <1>4, <1>5

\* Tearing makes no ghost.
LEMMA TearGhost ==
  ASSUME TInv, TInv', Tear, ~ odd', LayInv, LayInv', GhostInv
  PROVE  GhostInv'
<1> USE DEF overlapping_indices
<1> DEFINE over == Overlapping(job.lo, job.hi)
<1>1. PICK f \in [Pieces -> FreeFrames] :
        /\ \A k, l \in Pieces : f[k] = f[l] => k = l
        /\ keeps' = {Buffer(k, f[k]) : k \in Pieces}
        /\ mem' = AfterCopies(f)
  BY DEF Tear
<1>2. /\ maps' = [i \in Frames |-> IF i \in over THEN NoMapping ELSE maps[i]]
      /\ job' = [job EXCEPT !.torn = @ \/ over # {}]
      /\ pc = "tear"
      /\ pc' = AfterKeeps(Pieces)
      /\ UNCHANGED <<hand, datum>>
  BY DEF Tear
<1>3. \A i \in Live' : i \in Live /\ maps'[i] = maps[i]
  BY <1>2 DEF Live
<1>4. ~ job.ragged /\ Apart
  BY DEF LayInv, WorkOff
<1>5. /\ job'.op = job.op /\ job'.lo = job.lo /\ job'.hi = job.hi /\ job'.then = job.then
      /\ job'.old = job.old /\ job'.oldEnd = job.oldEnd /\ job'.dest = job.dest
      /\ job'.size = job.size
  BY <1>2 DEF TInv, IInv, JobInv, NoJob
<1>6. /\ \A j, o : (\A k \in Pieces : f[k] # j) => (<<j, o>> \in mem' <=> <<j, o>> \in mem)
      /\ \A k \in Pieces : \A o \in 0 .. (k.size - 1) :
           <<f[k], o>> \in mem' <=> LiveShows(k.va + o)
  BY <1>1, <1>2, <1>4, TearMem
<1>7. \A j, o : j \in Live \cup {hand} => (<<j, o>> \in mem' <=> <<j, o>> \in mem)
  <2>1. \A j \in Live \cup {hand} : \A k \in Pieces : f[k] # j
    BY DEF FreeFrames, Owned
  <2> QED BY <1>6, <2>1
<1>8. ASSUME NEW i \in Live', NEW off \in 0 .. (maps'[i].size - 1), <<i, off>> \in mem'
      PROVE  maps'[i].va + off = Expected'
  <2>1. i \in Live /\ maps'[i] = maps[i] /\ <<i, off>> \in mem
    BY <1>3, <1>7, <1>8
  <2>2. maps[i].va + off = datum
    BY <1>2, <1>8, <2>1 DEF GhostInv, Only, Expected
  <2>3. CASE pc' # "done"
    BY <1>2, <2>1, <2>2, <2>3, SMT DEF Expected
  <2>4. CASE pc' = "done"
    <3>1. job.then = "done"
      BY <1>2, <2>4 DEF AfterKeeps
    <3>2. job'.op = "munmap"
      BY <1>5, <3>1 DEF TInv, CallInv
    <3>3. LiveOff(job.lo, job.hi)'
      BY <2>4, <3>2 DEF LayInv, WorkOff
    <3>4. Off(maps'[i].va, maps'[i].size, job'.lo, job'.hi)
      BY <3>3 DEF LiveOff, Off
    <3>5. maps[i].va \in Nat /\ maps[i].size \in Nat
      BY <2>1, LiveTypes DEF TInv
    <3>6. datum \in Nat /\ ~ (job'.lo =< datum /\ datum < job'.hi)
      <4>1. job'.lo \in Nat /\ job'.hi \in Nat
        BY DEF TInv, CallInv
      <4> QED BY <1>8, <2>1, <2>2, <3>4, <3>5, <4>1, SMT DEF Off
    <3>7. datum # NoPage
      BY <3>6, DatumIsNat DEF TInv
    <3>8. NewDatum' = datum
      BY <1>2, <3>2, <3>6, <3>7 DEF NewDatum
    <3> QED BY <2>1, <2>2, <2>4, <3>8 DEF Expected
  <2> QED BY <2>3, <2>4
<1>9. ASSUME NEW b \in keeps', NEW off \in 0 .. (b.size - 1), <<b.frame, off>> \in mem'
      PROVE  b.va + off = datum
  <2>1. PICK k \in Pieces : b = Buffer(k, f[k])
    BY <1>1
  <2>2. b.va = k.va /\ b.frame = f[k] /\ b.size = FramePages(k.size)
    BY <2>1 DEF Buffer
  <2>3. FramePages(k.size) = k.size
    <3>1. odd' = (odd \/ \E l \in Pieces : Odd(l.va, l.size))
      BY DEF Tear
    <3> QED BY <3>1 DEF Odd
  <2>4. k.va \in Nat /\ k.size \in Nat
    BY <1>2, PieceTypes
  <2>5. LiveShows(k.va + off)
    BY <1>6, <1>9, <2>2, <2>3
  <2>6. k.va + off \in Nat
    BY <1>9, <2>2, <2>3, <2>4, SMT
  <2> QED BY <1>2, <2>2, <2>5, <2>6, ShownIsDatum
<1>10. ASSUME hand # NoPage, NEW off \in 0 .. (job.size - 1), <<hand, off>> \in mem'
       PROVE  off < CopyLen' /\ job.old + off = datum
  <2>1. <<hand, off>> \in mem
    BY <1>7, <1>10
  <2>2. CopyLen' = CopyLen
    BY <1>5 DEF CopyLen
  <2> QED BY <1>10, <2>1, <2>2 DEF GhostInv
<1>11. (\A i \in Live : Only(maps[i].va, maps[i].size, i, Expected))'
  BY <1>8 DEF Only
<1>12. (\A k \in keeps : Only(k.va, k.size, k.frame, datum))'
  BY <1>2, <1>9 DEF Only
<1> QED BY <1>2, <1>5, <1>10, <1>11, <1>12 DEF GhostInv

\* Tearing keeps the datum, in a mapping or in a buffer, unless it was in the
\* range.
LEMMA TearKept ==
  ASSUME TInv, TInv', Tear, ~ odd', LayInv, KeptInv, GhostInv
  PROVE  KeptInv'
<1> USE DEF overlapping_indices
<1> DEFINE over == Overlapping(job.lo, job.hi)
<1>1. PICK f \in [Pieces -> FreeFrames] :
        /\ \A k, l \in Pieces : f[k] = f[l] => k = l
        /\ keeps' = {Buffer(k, f[k]) : k \in Pieces}
        /\ mem' = AfterCopies(f)
  BY DEF Tear
<1>2. /\ maps' = [i \in Frames |-> IF i \in over THEN NoMapping ELSE maps[i]]
      /\ job' = [job EXCEPT !.torn = @ \/ over # {}]
      /\ pc = "tear"
      /\ pc' = AfterKeeps(Pieces)
      /\ UNCHANGED <<hand, datum>>
      /\ odd' = (odd \/ \E l \in Pieces : Odd(l.va, l.size))
  BY DEF Tear
<1>3. Live' = Live \ over /\ \A i \in Live' : maps'[i] = maps[i]
  BY <1>2 DEF Live
<1>4. ~ job.ragged /\ Apart
  BY DEF LayInv, WorkOff
<1>5. /\ job'.op = job.op /\ job'.lo = job.lo /\ job'.hi = job.hi /\ job'.then = job.then
      /\ job'.old = job.old /\ job'.oldEnd = job.oldEnd /\ job'.dest = job.dest
      /\ job'.size = job.size /\ job'.torn = (job.torn \/ over # {})
  BY <1>2 DEF TInv, IInv, JobInv, NoJob
<1>6. /\ \A j, o : (\A k \in Pieces : f[k] # j) => (<<j, o>> \in mem' <=> <<j, o>> \in mem)
      /\ \A k \in Pieces : \A o \in 0 .. (k.size - 1) :
           <<f[k], o>> \in mem' <=> LiveShows(k.va + o)
  BY <1>1, <1>2, <1>4, TearMem
<1>7. \A j, o : j \in Live \cup {hand} => (<<j, o>> \in mem' <=> <<j, o>> \in mem)
  <2>1. \A j \in Live \cup {hand} : \A k \in Pieces : f[k] # j
    BY DEF FreeFrames, Owned
  <2> QED BY <1>6, <2>1
<1>8. /\ job.lo \in Nat /\ job.hi \in Nat /\ job.lo < job.hi
      /\ job.op \in {"mmap", "munmap", "mremap"}
      /\ job.then = "rebuild" => job.lo = job.dest /\ job.hi = job.dest + job.size
      /\ job.then = "place" => job.lo = job.old /\ job.hi = job.oldEnd
      /\ job.op = "mremap" => job.then \in {"rebuild", "place"}
      /\ keeps = {}
  BY <1>2 DEF TInv, CallInv, IInv, JobInv
<1> DEFINE shown == \E i \in Live' : /\ maps'[i].va =< datum /\ datum < maps'[i].va + maps'[i].size
                                     /\ <<i, datum - maps'[i].va>> \in mem'
           stored == \E b \in keeps' : /\ b.va =< datum /\ datum < b.va + b.size
                                       /\ <<b.frame, datum - b.va>> \in mem'
           torn_out == over # {} /\ job.lo =< datum /\ datum < job.hi
<1>9. ASSUME datum # NoPage, LiveShows(datum)
      PROVE  shown \/ stored \/ torn_out
  <2>1. PICK i \in Live : Shows(maps[i].va, maps[i].size, i, datum)
    BY <1>9 DEF LiveShows
  <2>2. maps[i].va \in Nat /\ maps[i].size \in Nat /\ EndOf(i) = maps[i].va + maps[i].size
    BY LiveTypes DEF TInv
  <2>3. datum \in Nat
    BY <1>9, DatumIsNat DEF TInv
  <2>4. CASE i \notin over
    <3>1. i \in Live' /\ maps'[i] = maps[i] /\ <<i, datum - maps[i].va>> \in mem'
      BY <1>3, <1>7, <2>1, <2>4 DEF Shows
    <3> QED BY <2>1, <3>1 DEF Shows
  <2>5. ASSUME NEW k \in Pieces, k.va =< datum, datum < k.va + k.size
        PROVE  stored
    <3> DEFINE b == Buffer(k, f[k])
    <3>1. k.va \in Nat /\ k.size \in Nat
      BY <1>2, PieceTypes
    <3>2. FramePages(k.size) = k.size
      BY <1>2 DEF Odd
    <3>3. b \in keeps' /\ b.va = k.va /\ b.frame = f[k] /\ b.size = k.size
      BY <1>1, <3>2 DEF Buffer
    <3>4. datum - k.va \in 0 .. (k.size - 1) /\ k.va + (datum - k.va) = datum
      BY <2>3, <2>5, <3>1, SMT
    <3>5. <<f[k], datum - k.va>> \in mem'
      BY <1>6, <1>9, <3>4
    <3> HIDE DEF b
    <3> QED BY <2>5, <3>3, <3>5
  <2>6. CASE i \in over /\ datum < job.lo
    <3> DEFINE k == [va |-> maps[i].va, size |-> job.lo - maps[i].va, rwx |-> maps[i].rwx,
                     rank |-> 2 * pos[i]]
    <3>1. maps[i].va < job.lo
      BY <1>8, <2>1, <2>2, <2>3, <2>6, SMT DEF Shows
    <3>2. k \in Pieces
      BY <2>6, <3>1 DEF Pieces
    <3>3. k.va =< datum /\ datum < k.va + k.size
      BY <1>8, <2>1, <2>2, <2>3, <2>6, SMT DEF Shows
    <3> HIDE DEF k
    <3> QED BY <2>5, <3>2, <3>3
  <2>7. CASE i \in over /\ job.hi =< datum
    <3> DEFINE k == [va |-> job.hi, size |-> EndOf(i) - job.hi, rwx |-> maps[i].rwx,
                     rank |-> 2 * pos[i] + 1]
    <3>1. EndOf(i) > job.hi
      BY <1>8, <2>1, <2>2, <2>3, <2>7, SMT DEF Shows
    <3>2. k \in Pieces
      BY <1>4, <2>7, <3>1 DEF Pieces
    <3>3. k.va =< datum /\ datum < k.va + k.size
      BY <1>8, <2>1, <2>2, <2>3, <2>7, SMT DEF Shows
    <3> HIDE DEF k
    <3> QED BY <2>5, <3>2, <3>3
  <2>8. CASE i \in over /\ job.lo =< datum /\ datum < job.hi
    BY <2>8
  <2>9. datum < job.lo \/ job.hi =< datum \/ (job.lo =< datum /\ datum < job.hi)
    BY <1>8, <2>3, SMT
  <2> QED BY <2>4, <2>6, <2>7, <2>8, <2>9
<1>10. Expected = datum
  BY <1>2 DEF Expected
<1>11. datum # NoPage => shown \/ stored \/ torn_out \/ Gone(datum)
  <2>1. ~ KeepShows(datum)
    BY <1>8 DEF KeepShows
  <2> QED BY <1>9, <1>10, <2>1 DEF KeptInv
<1>12. torn_out \/ Gone(datum) => job'.torn /\
         \/ job.op \in {"mmap", "munmap"} /\ job.lo =< datum /\ datum < job.hi
         \/ job.op = "mremap" /\ job.dest =< datum /\ datum < job.dest + job.size
         \/ job.op = "mremap" /\ job.then = "place" /\ job.old =< datum /\ datum < job.oldEnd
  BY <1>2, <1>5, <1>8 DEF Gone
<1> HIDE DEF shown, stored, torn_out
<1>13. CASE pc' # "done"
  <2>1. Expected' = datum
    BY <1>2, <1>13 DEF Expected
  <2>2. shown => LiveShows(Expected)'
    BY <2>1 DEF LiveShows, Shows, shown
  <2>3. stored => KeepShows(Expected)'
    BY <2>1 DEF KeepShows, Shows, stored
  <2>4. torn_out \/ Gone(datum) => Gone(datum)'
    <3>1. job.then = "place" => pc' \in {"remap", "place"}
      BY <1>2 DEF AfterKeeps
    <3> QED BY <1>2, <1>5, <1>12, <3>1 DEF Gone
  <2>5. (Expected # NoPage => LiveShows(Expected) \/ KeepShows(Expected)
                              \/ (pc # "done" /\ Gone(datum)))'
    BY <1>11, <1>13, <2>1, <2>2, <2>3, <2>4
  <2>6. pc' # "failed"
    BY <1>2, <1>8 DEF AfterKeeps, TInv, IInv, JobInv
  <2>7. (hand # NoPage /\ datum # NoPage /\ job.old =< datum /\ datum < job.old + CopyLen =>
           <<hand, datum - job.old>> \in mem)'
    <3>1. CopyLen' = CopyLen
      BY <1>5 DEF CopyLen
    <3> QED BY <1>2, <1>5, <1>7, <3>1 DEF KeptInv
  <2>8. (job.then = "rebuild" /\ (pc \in {"tear", "remap"} \/ job.torn) =>
           Off(job.dest, job.size, job.old, job.oldEnd))'
    BY <1>2, <1>5 DEF KeptInv, Off
  <2> QED BY <2>5, <2>6, <2>7, <2>8 DEF KeptInv
<1>14. CASE pc' = "done"
  <2>1. job.then = "done" /\ Pieces = {}
    BY <1>2, <1>8, <1>14 DEF AfterKeeps
  <2>2. job.op = "munmap" /\ hand' = NoPage
    BY <1>2, <2>1 DEF TInv, CallInv
  <2>3. ~ stored
    BY <1>1, <2>1 DEF stored
  <2>4. Expected' = NewDatum'
    BY <1>14 DEF Expected
  <2>5. ASSUME Expected' # NoPage PROVE LiveShows(Expected)'
    <3>1. datum # NoPage /\ ~ (job.lo =< datum /\ datum < job.hi) /\ Expected' = datum
      BY <1>2, <1>5, <2>2, <2>4, <2>5 DEF NewDatum
    <3>2. shown
      BY <1>11, <1>12, <2>2, <2>3, <3>1
    <3> QED BY <3>1, <3>2 DEF LiveShows, Shows, shown
  <2> QED BY <1>5, <1>14, <2>1, <2>2, <2>5 DEF KeptInv
<1> QED BY <1>13, <1>14

\* A mapping that stays, with its contents, still shows what it showed.
LEMMA StillShown ==
  ASSUME NEW d, LiveShows(d), Live \subseteq Live', \A i \in Live : maps'[i] = maps[i],
         \A i \in Live : \A o : <<i, o>> \in mem => <<i, o>> \in mem'
  PROVE  \E i \in Live' : /\ maps'[i].va =< d /\ d < maps'[i].va + maps'[i].size
                          /\ <<i, d - maps'[i].va>> \in mem'
<1>1. PICK i \in Live : maps[i].va =< d /\ d < maps[i].va + maps[i].size /\ <<i, d - maps[i].va>> \in mem
  BY DEF LiveShows, Shows
<1>2. i \in Live' /\ maps'[i] = maps[i] /\ <<i, d - maps[i].va>> \in mem'
  BY <1>1
<1> QED BY <1>1, <1>2

\* A call that fails without having torn anything leaves the datum where it
\* was.
LEMMA FailContents ==
  ASSUME TInv, NEW t, Fail(t), UNCHANGED <<maps, job, datum>>, pc # "done", pc # "failed",
         \A i \in Live : \A o : <<i, o>> \in mem' <=> <<i, o>> \in mem
  PROVE  /\ GhostInv => GhostInv'
         /\ ~ torn' /\ KeptInv /\ (t \/ (keeps = {} /\ (job.torn => t))) => KeptInv'
<1>1. pc' = "failed" /\ keeps' = {} /\ hand' = NoPage /\ torn' = (torn \/ t)
  BY DEF Fail
<1>2. Live' = Live /\ Expected = datum /\ Expected' = datum
  BY <1>1 DEF Live, Expected
<1>3. ASSUME GhostInv PROVE GhostInv'
  <2>1. (\A i \in Live : Only(maps[i].va, maps[i].size, i, Expected))'
    BY <1>2, <1>3 DEF GhostInv, Only
  <2> QED BY <1>1, <2>1 DEF GhostInv
<1>4. ASSUME ~ torn', KeptInv, t \/ (keeps = {} /\ (job.torn => t))
      PROVE  KeptInv'
  <2>1. ~ t /\ keeps = {} /\ ~ job.torn
    BY <1>1, <1>4
  <2>2. ~ KeepShows(datum) /\ ~ Gone(datum)
    BY <2>1 DEF KeepShows, Gone
  <2>3. datum # NoPage => LiveShows(datum)
    BY <1>2, <1>4, <2>2 DEF KeptInv
  <2>4. datum # NoPage => \E i \in Live' : /\ maps'[i].va =< datum
                                           /\ datum < maps'[i].va + maps'[i].size
                                           /\ <<i, datum - maps'[i].va>> \in mem'
    BY <1>2, <2>3, StillShown
  <2>5. Expected' # NoPage => LiveShows(Expected)'
    BY <1>2, <2>4 DEF LiveShows, Shows
  <2>6. (job.then = "rebuild" /\ (pc \in {"tear", "remap"} \/ job.torn) =>
           Off(job.dest, job.size, job.old, job.oldEnd))'
    BY <1>1, <2>1
  <2> QED BY <1>1, <2>1, <2>5, <2>6 DEF KeptInv
<1> QED BY <1>3, <1>4

\* Mapping a buffer shows what is in it.
LEMMA RemapContents ==
  ASSUME TInv, TInv', Remap, LayInv, LayInv', GhostInv
  PROVE  GhostInv' /\ (KeptInv => KeptInv')
<1> DEFINE k == NextKeep
<1>1. k \in keeps
  BY NextKeepIsMember DEF TInv, IInv, Remap
<1> HIDE DEF k
<1>2. /\ MapFrame(k.va, k.frame, k.size, k.rwx)
      /\ keeps' = keeps \ {k}
      /\ pc' = AfterKeeps(keeps \ {k})
      /\ UNCHANGED <<job, hand, mem, datum, torn>>
      /\ pc = "remap"
  BY DEF Remap, k
<1>3. k.frame \in Frames \ Live /\ k.va \in Nat /\ k.size \in Nat \ {0} /\ k.rwx \in BOOLEAN
  BY <1>1 DEF TInv, IInv, ShapeInv, OneOwner, Types
<1>4. /\ Live' = Live \cup {k.frame} /\ \A j \in Live : maps'[j] = maps[j]
      /\ maps'[k.frame] = [va |-> k.va, size |-> k.size, rwx |-> k.rwx]
  BY <1>2, <1>3, MapFrameTypes, SMT DEF TInv
<1>5. maps'[k.frame].va = k.va /\ maps'[k.frame].size = k.size
  BY <1>4, SMT
<1>6. ASSUME NEW i \in Live', NEW off \in 0 .. (maps'[i].size - 1), <<i, off>> \in mem'
      PROVE  maps'[i].va + off = datum
  <2>1. CASE i \in Live
    <3>1. maps'[i] = maps[i] /\ <<i, off>> \in mem
      BY <1>2, <1>4, <1>6, <2>1
    <3>2. Only(maps[i].va, maps[i].size, i, datum)
      BY <1>2, <2>1 DEF GhostInv, Expected
    <3> QED BY <1>6, <3>1, <3>2 DEF Only
  <2>2. CASE i = k.frame
    <3>1. Only(k.va, k.size, k.frame, datum)
      BY <1>1 DEF GhostInv
    <3> QED BY <1>2, <1>5, <1>6, <2>2, <3>1 DEF Only
  <2> QED BY <1>4, <2>1, <2>2
<1>7. (pc' = "done" => job.then = "done") /\ (pc' # "done" => Expected' = datum)
  BY <1>2 DEF AfterKeeps, Expected
<1>8. ASSUME NEW i \in Live', NEW off \in 0 .. (maps'[i].size - 1), <<i, off>> \in mem'
      PROVE  maps'[i].va + off = Expected'
  <2>1. maps'[i].va + off = datum
    BY <1>6, <1>8
  <2>2. CASE pc' # "done"
    BY <1>7, <2>1, <2>2
  <2>3. CASE pc' = "done"
    <3>1. job'.op = "munmap" /\ job'.lo \in Nat /\ job'.hi \in Nat
      BY <1>2, <1>7, <2>3 DEF TInv, CallInv
    <3>2. LiveOff(job.lo, job.hi)'
      BY <2>3, <3>1 DEF LayInv, WorkOff
    <3>3. Off(maps'[i].va, maps'[i].size, job'.lo, job'.hi)
      BY <3>2 DEF LiveOff, Off
    <3>4. maps'[i].va \in Nat /\ maps'[i].size \in Nat
      <4>1. maps' \in [Frames -> [va : Nat, size : Nat, rwx : BOOLEAN]] /\ i \in Frames
        BY DEF TInv, Types, Live
      <4> QED BY <4>1
    <3>5. datum \in Nat /\ ~ (job'.lo =< datum /\ datum < job'.hi)
      BY <1>8, <2>1, <3>1, <3>3, <3>4, SMT DEF Off
    <3>6. datum # NoPage
      BY <3>5, DatumIsNat DEF TInv
    <3>7. NewDatum' = datum
      BY <1>2, <3>1, <3>5, <3>6 DEF NewDatum
    <3> QED BY <2>1, <2>3, <3>7 DEF Expected
  <2> QED BY <2>2, <2>3
<1>9. GhostInv'
  <2>1. (\A i \in Live : Only(maps[i].va, maps[i].size, i, Expected))'
    BY <1>8 DEF Only
  <2>2. (\A l \in keeps : Only(l.va, l.size, l.frame, datum))'
    BY <1>2 DEF GhostInv, Only
  <2>3. CopyLen' = CopyLen
    BY <1>2 DEF CopyLen
  <2> QED BY <1>2, <2>1, <2>2, <2>3 DEF GhostInv
<1>10. ASSUME KeptInv PROVE KeptInv'
  <2> DEFINE shown == \E i \in Live' : /\ maps'[i].va =< datum /\ datum < maps'[i].va + maps'[i].size
                                       /\ <<i, datum - maps'[i].va>> \in mem'
  <2>1. LiveShows(datum) => shown
    BY <1>2, <1>4, StillShown
  <2>2. KeepShows(datum) => shown \/ KeepShows(datum)'
    <3> SUFFICES ASSUME NEW l \in keeps, Shows(l.va, l.size, l.frame, datum)
                 PROVE  shown \/ KeepShows(datum)'
      BY DEF KeepShows
    <3>1. CASE l = k
      <4>1. k.frame \in Live' /\ k.va =< datum /\ datum < k.va + k.size
            /\ <<k.frame, datum - k.va>> \in mem'
        BY <1>2, <1>4, <3>1 DEF Shows
      <4> QED BY <1>5, <4>1
    <3>2. CASE l # k
      BY <1>2, <3>2 DEF KeepShows, Shows
    <3> QED BY <3>1, <3>2
  <2> HIDE DEF shown
  <2>3. datum # NoPage => shown \/ KeepShows(datum)' \/ Gone(datum)
    BY <1>2, <1>10, <2>1, <2>2 DEF KeptInv, Expected
  <2>4. pc' # "failed" /\ (job.then = "place" => pc' \in {"remap", "place"})
    BY <1>2 DEF AfterKeeps, TInv, IInv, JobInv
  <2>5. Gone(datum) => Gone(datum)'
    BY <1>2, <2>4 DEF Gone
  <2>6. Expected' # NoPage => (LiveShows(Expected) \/ KeepShows(Expected)
                               \/ (pc # "done" /\ Gone(datum)))'
    <3>1. CASE pc' # "done"
      <4>1. Expected' = datum /\ datum' = datum
        BY <1>2, <1>7, <3>1
      <4>2. shown => LiveShows(Expected)'
        BY <4>1 DEF LiveShows, Shows, shown
      <4>3. KeepShows(datum)' => KeepShows(Expected)'
        BY <4>1 DEF KeepShows, Shows
      <4> QED BY <2>3, <2>5, <3>1, <4>1, <4>2, <4>3
    <3>2. CASE pc' = "done"
      <4> SUFFICES ASSUME Expected' # NoPage PROVE LiveShows(Expected)'
        OBVIOUS
      <4>1. job.op = "munmap" /\ Expected' = NewDatum' /\ keeps' = {}
        BY <1>2, <1>7, <3>2 DEF TInv, CallInv, Expected
      <4>2. datum # NoPage /\ ~ (job.lo =< datum /\ datum < job.hi) /\ Expected' = datum
        BY <1>2, <4>1 DEF NewDatum
      <4>3. ~ Gone(datum) /\ ~ KeepShows(datum)'
        BY <4>1, <4>2 DEF Gone, KeepShows
      <4>4. shown
        BY <2>3, <4>2, <4>3
      <4> QED BY <4>2, <4>4 DEF LiveShows, Shows, shown
    <3> QED BY <3>1, <3>2
  <2>7. (hand # NoPage /\ datum # NoPage /\ job.old =< datum /\ datum < job.old + CopyLen =>
           <<hand, datum - job.old>> \in mem)'
    <3>1. CopyLen' = CopyLen
      BY <1>2 DEF CopyLen
    <3> QED BY <1>2, <1>10, <3>1 DEF KeptInv
  <2>8. (job.then = "rebuild" /\ (pc \in {"tear", "remap"} \/ job.torn) =>
           Off(job.dest, job.size, job.old, job.oldEnd))'
    BY <1>2, <1>10 DEF KeptInv, Off
  <2> QED BY <2>4, <2>6, <2>7, <2>8 DEF KeptInv
<1> QED BY <1>9, <1>10

\* mmap maps pages that show nothing.
LEMMA MmapContents ==
  ASSUME TInv, TInv', mmap_maps, ~ odd', LayInv, GhostInv
  PROVE  GhostInv' /\ (~ torn' /\ KeptInv => KeptInv')
<1> DEFINE n == job.hi - job.lo
           size == FramePages(n)
<1>1. PICK i \in FreeFrames :
        /\ mem' = Zeroed(i)
        /\ \/ /\ MapFrame(job.lo, i, size, job.rwx)
              /\ odd' = (odd \/ Odd(job.lo, n))
              /\ pc' = "done"
              /\ UNCHANGED <<keeps, hand, torn>>
           \/ /\ MapFrameFails(job.lo, size, job.rwx)
              /\ odd' = (odd \/ Odd(job.lo, n))
              /\ Fail(job.torn)
  BY DEF mmap_maps
<1>2. UNCHANGED <<job, datum>> /\ pc = "alloc"
  BY DEF mmap_maps
<1>3. /\ job.lo \in Nat /\ job.hi \in Nat /\ n \in Nat \ {0} /\ job.lo + n = job.hi
      /\ job.rwx \in BOOLEAN /\ job.op = "mmap" /\ keeps = {} /\ job.then = "alloc"
      /\ hand = NoPage
  BY <1>2, SMT DEF TInv, CallInv
<1>4. size = n
  BY <1>1 DEF Odd
<1>5. i \in Frames \ Live
  BY DEF FreeFrames, Owned
<1> HIDE DEF n, size
<1>6. \A j, o : <<j, o>> \in mem' <=> <<j, o>> \in mem /\ j # i
  BY <1>1 DEF Zeroed
<1>7. CASE MapFrameFails(job.lo, size, job.rwx) /\ Fail(job.torn)
  <2>1. UNCHANGED maps
    BY <1>7 DEF MapFrameFails
  <2>2. \A j \in Live : \A o : <<j, o>> \in mem' <=> <<j, o>> \in mem
    BY <1>5, <1>6
  <2> QED BY <1>2, <1>3, <1>7, <2>1, <2>2, FailContents
<1>8. CASE MapFrame(job.lo, i, size, job.rwx) /\ pc' = "done" /\ UNCHANGED <<keeps, hand, torn>>
  <2>1. MapFrame(job.lo, i, n, job.rwx)
    BY <1>4, <1>8
  <2>2. Live' = Live \cup {i} /\ \A j \in Live : maps'[j] = maps[j]
    <3>1. /\ Live' = Live \cup {i} /\ \A j \in Live : maps'[j] = maps[j]
          /\ maps'[i] = [va |-> job.lo, size |-> n, rwx |-> job.rwx]
      BY <1>3, <1>5, <2>1, MapFrameTypes, SMT DEF TInv
    <3> QED BY <3>1
  <2>3. Expected = datum /\ Expected' = NewDatum'
    BY <1>2, <1>8 DEF Expected
  <2>4. NewDatum' = IF datum = NoPage THEN NoPage
                    ELSE IF job.lo =< datum /\ datum < job.hi THEN NoPage ELSE datum
    BY <1>2, <1>3 DEF NewDatum
  <2>5. ASSUME NEW j \in Live', NEW off \in 0 .. (maps'[j].size - 1), <<j, off>> \in mem'
        PROVE  maps'[j].va + off = Expected'
    <3>1. j \in Live /\ maps'[j] = maps[j] /\ <<j, off>> \in mem
      BY <1>6, <2>2, <2>5
    <3>2. maps[j].va + off = datum
      BY <2>3, <2>5, <3>1 DEF GhostInv, Only
    <3>3. maps[j].va \in Nat /\ maps[j].size \in Nat
      BY <3>1, LiveTypes DEF TInv
    <3>4. Off(maps[j].va, maps[j].size, job.lo, job.hi)
      BY <1>2, <3>1 DEF LayInv, WorkOff, LiveOff
    <3>5. datum \in Nat /\ ~ (job.lo =< datum /\ datum < job.hi)
      BY <1>3, <2>5, <3>1, <3>2, <3>3, <3>4, SMT DEF Off
    <3>6. datum # NoPage
      BY <3>5, DatumIsNat DEF TInv
    <3> QED BY <2>3, <2>4, <3>1, <3>2, <3>5, <3>6
  <2>6. GhostInv'
    <3>1. (\A j \in Live : Only(maps[j].va, maps[j].size, j, Expected))'
      BY <2>5 DEF Only
    <3> QED BY <1>3, <1>8, <3>1 DEF GhostInv
  <2>7. ASSUME KeptInv PROVE KeptInv'
    <3>1. ASSUME Expected' # NoPage PROVE LiveShows(Expected)'
      <4>1. datum # NoPage /\ Expected' = datum /\ ~ (job.lo =< datum /\ datum < job.hi)
        BY <2>3, <2>4, <3>1
      <4>2. ~ KeepShows(datum) /\ ~ Gone(datum)
        BY <1>2, <1>3, <4>1 DEF KeepShows, Gone
      <4>3. LiveShows(datum)
        BY <2>3, <2>7, <4>1, <4>2 DEF KeptInv
      <4>4. \A j \in Live : \A o : <<j, o>> \in mem => <<j, o>> \in mem'
        BY <1>5, <1>6
      <4>5. \E j \in Live' : /\ maps'[j].va =< datum /\ datum < maps'[j].va + maps'[j].size
                             /\ <<j, datum - maps'[j].va>> \in mem'
        BY <2>2, <4>3, <4>4, StillShown
      <4> QED BY <4>1, <4>5 DEF LiveShows, Shows
    <3> QED BY <1>2, <1>3, <1>8, <3>1 DEF KeptInv
  <2> QED BY <2>6, <2>7
<1> QED BY <1>1, <1>7, <1>8

\* rebuild copies some pages, no more than either range has.
LEMMA CopyLenFacts ==
  ASSUME TInv, job.op = "mremap"
  PROVE  CopyLen \in Nat \ {0} /\ CopyLen =< job.size /\ CopyLen =< job.oldEnd - job.old
BY SMT DEF TInv, CallInv, CopyLen

\* What rebuild copies is what the old range shows.
LEMMA RebuildContents ==
  ASSUME TInv, Rebuild, ~ odd', LayInv, GhostInv
  PROVE  GhostInv' /\ (KeptInv => KeptInv')
<1>1. PICK i \in FreeFrames : hand' = i /\ mem' = Zeroed(i) \cup Copied(i, job.old, CopyLen)
  BY DEF Rebuild
<1>2. /\ UNCHANGED <<maps, keeps, datum>> /\ pc = "rebuild" /\ pc' = "tear"
  BY DEF Rebuild, mapVars
<1>3. /\ job'.op = job.op /\ job'.then = "place" /\ job'.old = job.old /\ job'.oldEnd = job.oldEnd
      /\ job'.dest = job.dest /\ job'.size = job.size /\ job'.torn = job.torn
  BY DEF Rebuild, TInv, IInv, JobInv, NoJob
<1>4. Live' = Live /\ Expected = datum /\ Expected' = datum /\ CopyLen' = CopyLen
  BY <1>2, <1>3 DEF Live, Expected, CopyLen
<1>5. /\ job.then = "rebuild" /\ job.op = "mremap" /\ keeps = {} /\ job.torn \in BOOLEAN
      /\ job.old \in Nat /\ job.oldEnd \in Nat /\ job.dest \in Nat /\ job.size \in Nat \ {0}
  BY <1>2, SMT DEF TInv, CallInv
<1>6. CopyLen \in Nat \ {0} /\ CopyLen =< job.size /\ CopyLen =< job.oldEnd - job.old
  BY <1>5, CopyLenFacts
<1>7. i \in Frames \ Live /\ i # NoPage
  BY FramesAssumption DEF FreeFrames, Owned
<1>8. \A j, o : <<j, o>> \in mem' <=> (<<j, o>> \in mem /\ j # i)
                                      \/ (j = i /\ o \in 0 .. (CopyLen - 1) /\ LiveShows(job.old + o))
  <2>1. \A j, o : <<j, o>> \in Zeroed(i) <=> <<j, o>> \in mem /\ j # i
    BY DEF Zeroed
  <2>2. \A j, o : <<j, o>> \in Copied(i, job.old, CopyLen) <=>
                    j = i /\ o \in 0 .. (CopyLen - 1) /\ LiveShows(job.old + o)
    BY <1>5, <1>6, CopiedShows DEF LayInv
  <2> QED BY <1>1, <2>1, <2>2
<1>9. ASSUME NEW j \in Live, NEW o PROVE <<j, o>> \in mem' <=> <<j, o>> \in mem
  <2>1. j # i
    BY <1>7
  <2> QED BY <1>8, <2>1
<1>10. GhostInv'
  <2>1. (\A j \in Live : Only(maps[j].va, maps[j].size, j, Expected))'
    BY <1>2, <1>4, <1>9 DEF GhostInv, Only
  <2>2. ASSUME NEW off, <<i, off>> \in mem' PROVE off < CopyLen /\ job.old + off = datum
    <3>1. off \in 0 .. (CopyLen - 1) /\ LiveShows(job.old + off)
      BY <1>8, <2>2
    <3>2. job.old + off \in Nat /\ off < CopyLen
      BY <1>5, <1>6, <3>1, SMT
    <3> QED BY <1>2, <3>1, <3>2, ShownIsDatum
  <2>3. (\A k \in keeps : Only(k.va, k.size, k.frame, datum))'
    BY <1>2, <1>5
  <2> QED BY <1>1, <1>2, <1>3, <1>4, <2>1, <2>2, <2>3 DEF GhostInv
<1>11. ASSUME KeptInv PROVE KeptInv'
  <2>1. datum # NoPage => LiveShows(datum) \/ Gone(datum)
    BY <1>4, <1>5, <1>11 DEF KeptInv, KeepShows
  <2>2. LiveShows(datum) => LiveShows(Expected)'
    <3>1. \A j \in Live : \A o : <<j, o>> \in mem => <<j, o>> \in mem'
      BY <1>9
    <3>2. LiveShows(datum) =>
            \E j \in Live' : /\ maps'[j].va =< datum /\ datum < maps'[j].va + maps'[j].size
                             /\ <<j, datum - maps'[j].va>> \in mem'
      BY <1>2, <1>4, <3>1, StillShown
    <3> QED BY <1>4, <3>2 DEF LiveShows, Shows
  <2>3. Gone(datum) => Gone(datum)'
    BY <1>2, <1>3, <1>5 DEF Gone
  <2>4. ASSUME datum # NoPage, job.old =< datum, datum < job.old + CopyLen
        PROVE  <<i, datum - job.old>> \in mem'
    <3>1. datum \in Nat
      BY <2>4, DatumIsNat DEF TInv
    <3>2. ~ Gone(datum)
      <4> SUFFICES ASSUME Gone(datum) PROVE FALSE
        OBVIOUS
      <4>1. job.torn /\ job.dest =< datum /\ datum < job.dest + job.size
        BY <1>2, <1>5 DEF Gone
      <4>2. Off(job.dest, job.size, job.old, job.oldEnd)
        BY <1>5, <1>11, <4>1 DEF KeptInv
      <4> QED BY <1>5, <1>6, <2>4, <3>1, <4>1, <4>2, SMT DEF Off
    <3>3. LiveShows(datum)
      BY <2>1, <2>4, <3>2
    <3>4. datum - job.old \in 0 .. (CopyLen - 1) /\ job.old + (datum - job.old) = datum
      BY <1>5, <1>6, <2>4, <3>1, SMT
    <3>5. LiveShows(job.old + (datum - job.old))
      BY <3>3, <3>4
    <3> QED BY <1>8, <3>4, <3>5
  <2> QED BY <1>1, <1>2, <1>3, <1>4, <2>1, <2>2, <2>3, <2>4 DEF KeptInv
<1> QED BY <1>10, <1>11

\* The new frame has what the old range showed, where the call put it.
LEMMA PlaceContents ==
  ASSUME TInv, TInv', Place, LayInv, GhostInv
  PROVE  GhostInv' /\ (KeptInv => KeptInv')
<1>1. /\ MapFrame(job.dest, hand, FramePages(job.size), job.rwx)
      /\ pc' = "done" /\ UNCHANGED <<job, keeps, mem, datum>> /\ pc = "place" /\ hand' = NoPage
  BY DEF Place
<1>2. /\ LiveOff(job.dest, job.dest + job.size)
      /\ LiveOff(job.old, job.oldEnd)
      /\ FramePages(job.size) = job.size
      /\ job.op = "mremap" /\ job.dest \in Nat /\ job.size \in Nat \ {0} /\ job.rwx \in BOOLEAN
      /\ keeps = {} /\ hand \in Frames \ Live
  BY <1>1, PlaceIsFree
<1>3. MapFrame(job.dest, hand, job.size, job.rwx)
  BY <1>1, <1>2
<1>4. /\ Live' = Live \cup {hand} /\ \A j \in Live : maps'[j] = maps[j]
      /\ maps'[hand] = [va |-> job.dest, size |-> job.size, rwx |-> job.rwx]
  BY <1>2, <1>3, MapFrameTypes, SMT DEF TInv
<1>5. maps'[hand].va = job.dest /\ maps'[hand].size = job.size
  BY <1>4, SMT
<1>6. /\ job.old \in Nat /\ job.oldEnd \in Nat /\ job.lo = job.old /\ job.hi = job.oldEnd
      /\ job.then = "place" /\ hand # NoPage
  BY <1>1 DEF TInv, CallInv, IInv, JobInv
<1>7. CopyLen \in Nat \ {0} /\ CopyLen =< job.size /\ CopyLen =< job.oldEnd - job.old
  BY <1>2, CopyLenFacts
<1>8. Expected = datum /\ Expected' = NewDatum /\ (datum # NoPage <=> datum \in Nat)
  <2>1. NewDatum' = NewDatum
    BY <1>1 DEF NewDatum, CopyLen
  <2> QED BY <1>1, <2>1, DatumIsNat DEF Expected, TInv
<1>9. ASSUME NEW off \in Nat, off < CopyLen, job.old + off = datum
      PROVE  NewDatum = job.dest + off
  <2>1. datum \in Nat /\ datum - job.old = off
    BY <1>6, <1>9, SMT
  <2> QED BY <1>2, <1>8, <1>9, <2>1, SMT DEF NewDatum
<1>10. ASSUME datum \in Nat, ~ (job.old =< datum /\ datum < job.oldEnd),
              ~ (job.dest =< datum /\ datum < job.dest + job.size)
       PROVE  NewDatum = datum
  <2>1. ~ (0 =< datum - job.old /\ datum - job.old < CopyLen)
    BY <1>6, <1>7, <1>10, SMT
  <2> QED BY <1>6, <1>8, <1>10, <2>1 DEF NewDatum
<1>11. ASSUME NEW j \in Live', NEW off \in 0 .. (maps'[j].size - 1), <<j, off>> \in mem'
       PROVE  maps'[j].va + off = Expected'
  <2>1. CASE j \in Live
    <3>1. maps'[j] = maps[j] /\ <<j, off>> \in mem
      BY <1>1, <1>4, <1>11, <2>1
    <3>2. maps[j].va + off = datum
      BY <1>8, <1>11, <2>1, <3>1 DEF GhostInv, Only
    <3>3. maps[j].va \in Nat /\ maps[j].size \in Nat
      BY <2>1, LiveTypes DEF TInv
    <3>4. /\ Off(maps[j].va, maps[j].size, job.old, job.oldEnd)
          /\ Off(maps[j].va, maps[j].size, job.dest, job.dest + job.size)
      BY <1>2, <2>1 DEF LiveOff
    <3>5. /\ datum \in Nat /\ ~ (job.old =< datum /\ datum < job.oldEnd)
          /\ ~ (job.dest =< datum /\ datum < job.dest + job.size)
      BY <1>2, <1>6, <1>11, <3>1, <3>2, <3>3, <3>4, SMT DEF Off
    <3> QED BY <1>8, <1>10, <3>1, <3>2, <3>5
  <2>2. CASE j = hand
    <3>1. off \in 0 .. (job.size - 1) /\ <<hand, off>> \in mem
      BY <1>1, <1>5, <1>11, <2>2
    <3>2. off < CopyLen /\ job.old + off = datum
      BY <1>6, <3>1 DEF GhostInv
    <3>3. off \in Nat
      BY <1>2, <3>1, SMT
    <3> QED BY <1>5, <1>8, <1>9, <2>2, <3>2, <3>3
  <2> QED BY <1>4, <2>1, <2>2
<1>12. GhostInv'
  <2>1. (\A j \in Live : Only(maps[j].va, maps[j].size, j, Expected))'
    BY <1>11 DEF Only
  <2>2. (\A k \in keeps : Only(k.va, k.size, k.frame, datum))'
    BY <1>1, <1>2
  <2> QED BY <1>1, <2>1, <2>2 DEF GhostInv
<1>13. ASSUME KeptInv PROVE KeptInv'
  <2>1. ASSUME Expected' # NoPage
        PROVE  \E j \in Live' : /\ maps'[j].va =< NewDatum /\ NewDatum < maps'[j].va + maps'[j].size
                                /\ <<j, NewDatum - maps'[j].va>> \in mem'
    <3>1. datum \in Nat
      BY <1>8, <2>1 DEF NewDatum
    <3>2. CASE job.old =< datum /\ datum < job.old + CopyLen
      <4>1. <<hand, datum - job.old>> \in mem
        BY <1>6, <1>8, <1>13, <3>1, <3>2 DEF KeptInv
      <4>2. datum - job.old \in Nat /\ datum - job.old < CopyLen /\ job.old + (datum - job.old) = datum
        BY <1>6, <1>7, <3>1, <3>2, SMT
      <4>3. NewDatum = job.dest + (datum - job.old)
        BY <1>9, <4>2
      <4>4. /\ job.dest =< NewDatum /\ NewDatum < job.dest + job.size
            /\ NewDatum - job.dest = datum - job.old
        BY <1>2, <1>7, <4>2, <4>3, SMT
      <4>5. hand \in Live' /\ <<hand, NewDatum - job.dest>> \in mem'
        BY <1>1, <1>4, <4>1, <4>4
      <4> QED BY <1>5, <4>4, <4>5
    <3>3. CASE ~ (job.old =< datum /\ datum < job.old + CopyLen)
      <4>1. ~ (0 =< datum - job.old /\ datum - job.old < CopyLen)
        BY <1>6, <1>7, <3>1, <3>3, SMT
      <4>2. /\ ~ (job.old =< datum /\ datum < job.oldEnd)
            /\ ~ (job.dest =< datum /\ datum < job.dest + job.size)
        BY <1>2, <1>6, <1>8, <2>1, <4>1 DEF NewDatum
      <4>3. NewDatum = datum
        BY <1>10, <3>1, <4>2
      <4>4. ~ Gone(datum) /\ ~ KeepShows(datum)
        BY <1>2, <4>2 DEF Gone, KeepShows
      <4>5. LiveShows(datum)
        BY <1>8, <1>13, <3>1, <4>4 DEF KeptInv
      <4>6. \E j \in Live' : /\ maps'[j].va =< datum /\ datum < maps'[j].va + maps'[j].size
                             /\ <<j, datum - maps'[j].va>> \in mem'
        BY <1>1, <1>4, <4>5, StillShown
      <4> QED BY <4>3, <4>6
    <3> QED BY <3>2, <3>3
  <2>2. Expected' # NoPage => LiveShows(Expected)'
    BY <1>8, <2>1 DEF LiveShows, Shows
  <2>3. job'.then = "place"
    BY <1>1, <1>6
  <2> QED BY <1>1, <2>2, <2>3 DEF KeptInv
<1> QED BY <1>12, <1>13

\* Every step of a call keeps the contents.
LEMMA StepContents ==
  ASSUME TInv, TInv', Step, ~ odd', LayInv, LayInv', GhostInv
  PROVE  GhostInv' /\ (~ torn' /\ KeptInv => KeptInv')
<1>1. CASE TearFails \/ AllocFails \/ RebuildFaults
  <2>1. /\ Fail(job.torn) /\ UNCHANGED <<maps, job, datum, mem>> /\ pc \in {"tear", "alloc", "rebuild"}
    BY <1>1 DEF TearFails, AllocFails, RebuildFaults, mapVars
  <2>2. keeps = {}
    BY <2>1 DEF TInv, CallInv
  <2> QED BY <2>1, <2>2, FailContents
<1>2. CASE RemapFails
  <2>1. Fail(TRUE) /\ UNCHANGED <<maps, job, datum, mem>> /\ pc = "remap"
    BY <1>2 DEF RemapFails, MapFrameFails
  <2> QED BY <2>1, FailContents
<1>3. CASE PlaceFails
  <2>1. Fail(job.torn) /\ UNCHANGED <<maps, job, datum, mem>> /\ pc = "place"
    BY <1>3 DEF PlaceFails, MapFrameFails
  <2>2. keeps = {}
    BY <2>1 DEF TInv, CallInv
  <2> QED BY <2>1, <2>2, FailContents
<1>4. CASE Return
  <2>1. /\ UNCHANGED <<maps, keeps, hand, mem>> /\ pc \in {"done", "failed"} /\ pc' = "idle"
        /\ job' = NoJob
    BY <1>4 DEF Return, mapVars
  <2>2. Live' = Live /\ Expected' = Expected
    BY <1>4, <2>1 DEF Live, Return, Expected
  <2>3. keeps = {} /\ hand = NoPage
    BY <2>1 DEF TInv, CallInv
  <2>4. GhostInv'
    <3>1. (\A j \in Live : Only(maps[j].va, maps[j].size, j, Expected))'
      BY <2>1, <2>2 DEF GhostInv, Only
    <3> QED BY <2>1, <2>3, <3>1 DEF GhostInv
  <2>5. ASSUME KeptInv PROVE KeptInv'
    <3>1. ~ KeepShows(Expected) /\ ~ (pc # "done" /\ Gone(datum))
      BY <2>1, <2>3, <2>5 DEF KeepShows, Gone, KeptInv
    <3>2. Expected # NoPage => LiveShows(Expected)
      BY <2>5, <3>1 DEF KeptInv
    <3>3. Expected' # NoPage => LiveShows(Expected)'
      BY <2>1, <2>2, <3>2 DEF LiveShows, Shows
    <3>4. job'.then = "idle"
      BY <2>1 DEF NoJob
    <3> QED BY <2>1, <2>3, <3>3, <3>4 DEF KeptInv
  <2> QED BY <2>4, <2>5
<1>5. CASE Tear
  BY <1>5, TearGhost, TearKept
<1>6. CASE Remap
  BY <1>6, RemapContents
<1>7. CASE mmap_maps
  BY <1>7, MmapContents
<1>8. CASE Rebuild
  BY <1>8, RebuildContents
<1>9. CASE Place
  BY <1>9, PlaceContents
<1> QED BY <1>1, <1>2, <1>3, <1>4, <1>5, <1>6, <1>7, <1>8, <1>9 DEF Step

\* A call begins with the contents as they are.
LEMMA CallContents ==
  ASSUME TInv, Call, GhostInv
  PROVE  GhostInv' /\ (KeptInv => KeptInv')
<1>1. ASSUME UNCHANGED <<maps, keeps, hand, mem, datum>>, pc = "idle",
             pc' \in {"tear", "alloc", "rebuild"}, job'.torn = FALSE,
             job'.then = "rebuild" /\ pc' = "tear" =>
               Off(job'.dest, job'.size, job'.old, job'.oldEnd)
      PROVE  GhostInv' /\ (KeptInv => KeptInv')
  <2>1. Live' = Live /\ Expected = datum /\ Expected' = datum
    BY <1>1 DEF Live, Expected
  <2>2. keeps = {} /\ hand = NoPage /\ job.torn = FALSE
    BY <1>1, SMT DEF TInv, CallInv, NoJob
  <2>3. GhostInv'
    <3>1. (\A j \in Live : Only(maps[j].va, maps[j].size, j, Expected))'
      BY <1>1, <2>1 DEF GhostInv, Only
    <3> QED BY <1>1, <2>2, <3>1 DEF GhostInv
  <2>4. ASSUME KeptInv PROVE KeptInv'
    <3>1. datum # NoPage => LiveShows(datum)
      BY <2>1, <2>2, <2>4 DEF KeptInv, KeepShows, Gone
    <3>2. Expected' # NoPage => LiveShows(Expected)'
      BY <1>1, <2>1, <3>1 DEF LiveShows, Shows
    <3>3. (job.then = "rebuild" /\ (pc \in {"tear", "remap"} \/ job.torn) =>
             Off(job.dest, job.size, job.old, job.oldEnd))'
      BY <1>1 DEF Off
    <3> QED BY <1>1, <2>2, <3>2, <3>3 DEF KeptInv
  <2> QED BY <2>3, <2>4
<1>2. ASSUME NEW addr, NEW n, NEW how, NEW rwx, mmap(addr, n, how, rwx)
      PROVE  GhostInv' /\ (KeptInv => KeptInv')
  <2>1. /\ UNCHANGED <<maps, keeps, hand, mem, datum>> /\ pc = "idle"
        /\ pc' \in {"tear", "alloc"} /\ job'.torn = FALSE /\ job'.then = "alloc"
    BY <1>2 DEF mmap, mapVars, NoJob
  <2> QED BY <1>1, <2>1
<1>3. ASSUME NEW addr, NEW n, NEW ragged, munmap(addr, n, ragged)
      PROVE  GhostInv' /\ (KeptInv => KeptInv')
  <2>1. /\ UNCHANGED <<maps, keeps, hand, mem, datum>> /\ pc = "idle"
        /\ pc' = "tear" /\ job'.torn = FALSE /\ job'.then = "done"
    BY <1>3 DEF munmap, mapVars, NoJob
  <2> QED BY <1>1, <2>1
<1>4. ASSUME NEW old, NEW n, NEW dest, NEW size, NEW t \in {"tear", "rebuild"}, pc = "idle",
             Mremap(old, n, dest, size, t), t = "tear" => Off(dest, size, old, old + n)
      PROVE  GhostInv' /\ (KeptInv => KeptInv')
  <2>1. /\ UNCHANGED <<maps, keeps, hand, mem, datum>> /\ pc' = t /\ job'.torn = FALSE
        /\ job'.dest = dest /\ job'.size = size /\ job'.old = old /\ job'.oldEnd = old + n
    BY <1>4 DEF Mremap, mapVars, NoJob
  <2> QED BY <1>1, <1>4, <2>1
<1>5. ASSUME NEW addr \in Addrs, NEW n \in Lens, NEW size \in Lens, NEW dest \in Addrs,
             mremap_fixed(addr, n, size, dest)
      PROVE  GhostInv' /\ (KeptInv => KeptInv')
  <2>1. addr \in Nat /\ n \in Nat /\ dest \in Nat /\ size \in Nat
    BY ArgumentAssumption
  <2>2. Off(dest, size, addr, addr + n)
    BY <1>5, <2>1, SMT DEF mremap_fixed, MayMove, Off
  <2> QED BY <1>4, <1>5, <2>2 DEF mremap_fixed
<1>6. ASSUME NEW addr, NEW n, NEW size, mremap_in_place(addr, n, size) \/ mremap_maymove(addr, n, size)
      PROVE  GhostInv' /\ (KeptInv => KeptInv')
  <2>1. \E dest : pc = "idle" /\ Mremap(addr, n, dest, size, "rebuild")
    BY <1>6 DEF mremap_in_place, mremap_maymove
  <2> QED BY <1>4, <2>1
<1> QED BY <1>2, <1>3, <1>5, <1>6 DEF Call

\* The program writes through the entry of its page.
LEMMA StoreContents ==
  ASSUME TInv, NEW p \in Pages, Store(p)
  PROVE  GhostInv' /\ KeptInv'
<1>1. /\ pc = "idle" /\ pte[p] # NoPage /\ mem' = {pte[p]} /\ datum' = p
      /\ UNCHANGED <<maps, pc, job, keeps, hand>>
  BY DEF Store, mapVars
<1>2. keeps = {} /\ hand = NoPage /\ job = NoJob
  BY <1>1 DEF TInv, CallInv
<1>3. Live' = Live /\ Expected' = p
  BY <1>1 DEF Live, Expected
<1>4. pte[p] \in Frames \X Nat
  BY <1>1 DEF TInv, Types, Entries
<1>5. PICK i \in Frames, o \in Nat : pte[p] = <<i, o>>
  BY <1>4, SMT
<1>6. i \in Live /\ p \in mapping_range(i) /\ o = p - maps[i].va
  <2>1. pte[p][1] = i /\ pte[p][2] = o
    BY <1>5, SMT
  <2> QED BY <1>1, <2>1 DEF TInv, IInv, NoDangling
<1>7. maps[i].va \in Nat /\ maps[i].size \in Nat /\ p \in Nat
  BY <1>6, LiveTypes, SMT DEF TInv, Pages
<1>8. maps[i].va =< p /\ p < maps[i].va + maps[i].size
  BY <1>6, <1>7 DEF mapping_range, PagesOf
<1>9. GhostInv'
  <2>1. ASSUME NEW j \in Live, NEW off, <<j, off>> \in mem' PROVE maps[j].va + off = p
    <3>1. j = i /\ off = o
      BY <1>1, <1>5, <2>1, SMT
    <3> QED BY <1>6, <1>7, <3>1, SMT
  <2>2. (\A j \in Live : Only(maps[j].va, maps[j].size, j, Expected))'
    BY <1>1, <1>3, <2>1 DEF Only
  <2> QED BY <1>1, <1>2, <2>2 DEF GhostInv
<1>10. KeptInv'
  <2>1. i \in Live' /\ maps'[i] = maps[i] /\ <<i, p - maps[i].va>> \in mem'
    BY <1>1, <1>3, <1>5, <1>6
  <2>2. LiveShows(Expected)'
    BY <1>3, <1>8, <2>1 DEF LiveShows, Shows
  <2> QED BY <1>1, <1>2, <2>2 DEF KeptInv, NoJob
<1> QED BY <1>9, <1>10

\* The copies have the contents of what they are copies of.
LEMMA CloneContents ==
  ASSUME TInv, Clone, GhostInv
  PROVE  GhostInv' /\ (KeptInv => KeptInv')
<1>1. PICK f \in [Live -> FreeFrames] :
        /\ \A i, j \in Live : f[i] = f[j] => i = j
        /\ maps' = [x \in Frames |-> IF x \in {f[i] : i \in Live}
                                     THEN maps[CHOOSE i \in Live : f[i] = x] ELSE NoMapping]
        /\ mem' = {x \in mem : \A i \in Live : f[i] # x[1]}
                  \cup {<<f[x[1]], x[2]>> : x \in {y \in mem : y[1] \in Live}}
  BY DEF Clone
<1>2. UNCHANGED <<pc, job, keeps, hand, datum>> /\ pc = "idle"
  BY DEF Clone
<1>3. \A i \in Live : f[i] \in Frames /\ (CHOOSE j \in Live : f[j] = f[i]) = i
  BY <1>1 DEF FreeFrames
<1>4. \A i \in Live : maps'[f[i]] = maps[i] /\ f[i] \in Live'
  BY <1>1, <1>3 DEF Live
<1>5. \A x \in Live' : \E i \in Live : x = f[i]
  BY <1>1 DEF Live
<1>6. keeps = {} /\ hand = NoPage /\ job = NoJob
  BY <1>2 DEF TInv, CallInv
<1>7. Expected = datum /\ Expected' = datum
  BY <1>2 DEF Expected
<1>8. mem \in SUBSET (Frames \X Nat)
  BY DEF TInv, Types
<1>9. ASSUME NEW i \in Live, NEW o PROVE <<f[i], o>> \in mem' <=> <<i, o>> \in mem
  <2>1. ASSUME <<i, o>> \in mem PROVE <<f[i], o>> \in mem'
    <3>1. <<i, o>>[1] = i /\ <<i, o>>[2] = o
      OBVIOUS
    <3>2. <<i, o>> \in {y \in mem : y[1] \in Live}
      BY <2>1, <3>1
    <3> QED BY <1>1, <3>1, <3>2
  <2>2. ASSUME <<f[i], o>> \in mem' PROVE <<i, o>> \in mem
    <3>1. <<f[i], o>> \notin {x \in mem : \A j \in Live : f[j] # x[1]}
      OBVIOUS
    <3>2. PICK x \in mem : x[1] \in Live /\ <<f[i], o>> = <<f[x[1]], x[2]>>
      BY <1>1, <2>2, <3>1
    <3>3. f[i] = f[x[1]] /\ o = x[2]
      BY <3>2
    <3>4. x[1] = i
      BY <1>1, <3>2, <3>3
    <3>5. x = <<x[1], x[2]>>
      BY <1>8, SMT
    <3> QED BY <3>2, <3>3, <3>4, <3>5
  <2> QED BY <2>1, <2>2
<1>10. GhostInv'
  <2>1. ASSUME NEW a \in Live', NEW off \in 0 .. (maps'[a].size - 1), <<a, off>> \in mem'
        PROVE  maps'[a].va + off = datum
    <3>1. PICK i \in Live : a = f[i]
      BY <1>5
    <3>2. maps'[a] = maps[i] /\ <<i, off>> \in mem
      BY <1>4, <1>9, <2>1, <3>1
    <3> QED BY <1>7, <2>1, <3>2 DEF GhostInv, Only
  <2>2. (\A j \in Live : Only(maps[j].va, maps[j].size, j, Expected))'
    BY <1>7, <2>1 DEF Only
  <2> QED BY <1>2, <1>6, <2>2 DEF GhostInv
<1>11. ASSUME KeptInv PROVE KeptInv'
  <2>1. ASSUME datum # NoPage
        PROVE  \E a \in Live' : /\ maps'[a].va =< datum /\ datum < maps'[a].va + maps'[a].size
                                /\ <<a, datum - maps'[a].va>> \in mem'
    <3>1. LiveShows(datum)
      BY <1>6, <1>7, <1>11, <2>1 DEF KeptInv, KeepShows, Gone, NoJob
    <3>2. PICK i \in Live : /\ maps[i].va =< datum /\ datum < maps[i].va + maps[i].size
                            /\ <<i, datum - maps[i].va>> \in mem
      BY <3>1 DEF LiveShows, Shows
    <3>3. f[i] \in Live' /\ maps'[f[i]] = maps[i] /\ <<f[i], datum - maps[i].va>> \in mem'
      BY <1>4, <1>9, <3>2
    <3> QED BY <3>2, <3>3
  <2>2. Expected' # NoPage => LiveShows(Expected)'
    BY <1>7, <2>1 DEF LiveShows, Shows
  <2> QED BY <1>2, <1>6, <2>2 DEF KeptInv, NoJob
<1> QED BY <1>10, <1>11

\* A state in which no call has lost a range comes from one.
LEMMA TornStays ==
  ASSUME [Next]_vars, ~ torn'
  PROVE  ~ torn
<1>1. ASSUME Call PROVE ~ torn
  <2>1. ASSUME NEW addr, NEW n, NEW how, NEW rwx, mmap(addr, n, how, rwx) PROVE ~ torn
    BY <2>1 DEF mmap
  <2>2. ASSUME NEW addr, NEW n, NEW ragged, munmap(addr, n, ragged) PROVE ~ torn
    BY <2>2 DEF munmap
  <2>3. ASSUME NEW old, NEW n, NEW dest, NEW size, NEW t, Mremap(old, n, dest, size, t)
        PROVE  ~ torn
    BY <2>3 DEF Mremap
  <2> QED
    BY <1>1, <2>1, <2>2, <2>3 DEF Call, mremap_in_place, mremap_maymove, mremap_fixed
<1>2. ASSUME Step PROVE ~ torn
  BY <1>2 DEF Step, Tear, TearFails, Remap, RemapFails, AllocFails, mmap_maps,
                     RebuildFaults, Rebuild, Place, PlaceFails, Return, Fail
<1>3. ASSUME NEW p \in Pages, Store(p) PROVE ~ torn
  BY <1>3 DEF Store
<1>4. ASSUME Clone PROVE ~ torn
  BY <1>4 DEF Clone
<1> QED BY <1>1, <1>2, <1>3, <1>4 DEF Next, Rest, vars

\* Nothing has been written yet.
LEMMA InitDInv == Init => DInv
<1> SUFFICES ASSUME Init PROVE GhostInv /\ KeptInv
  BY InitLInv DEF DInv
<1>1. mem = {} /\ keeps = {} /\ hand = NoPage /\ datum = NoPage /\ pc = "idle" /\ job = NoJob
  BY DEF Init
<1>2. GhostInv
  BY <1>1 DEF GhostInv, Only
<1>3. KeptInv
  BY <1>1 DEF KeptInv, Expected, NoJob
<1> QED BY <1>2, <1>3

\* DInv is inductive.
THEOREM ContentsInductive == Spec => []DInv
<1>1. DInv /\ LInv' /\ [Next]_vars => DInv'
  <2> SUFFICES ASSUME DInv, LInv', [Next]_vars, ~ odd'
               PROVE  GhostInv' /\ (~ torn' => KeptInv')
    BY DEF DInv
  <2>1. TInv /\ TInv' /\ LayInv /\ LayInv' /\ GhostInv
    BY OddStays DEF DInv, LInv
  <2>2. ~ torn' => KeptInv
    BY OddStays, TornStays DEF DInv
  <2>3. CASE Call
    BY <2>1, <2>2, <2>3, CallContents
  <2>4. CASE Step
    BY <2>1, <2>2, <2>4, StepContents
  <2>5. CASE \E p \in Pages : Store(p)
    BY <2>1, <2>5, StoreContents
  <2>6. CASE Clone
    BY <2>1, <2>2, <2>6, CloneContents
  <2>7. CASE UNCHANGED vars
    <3>1. UNCHANGED <<maps, pc, job, keeps, hand, mem, datum>>
      BY <2>7 DEF vars
    <3>2. Live' = Live /\ CopyLen' = CopyLen
      BY <3>1 DEF Live, CopyLen
    <3>3. Expected' = Expected
      BY <3>1, <3>2 DEF Expected, NewDatum
    <3>4. GhostInv'
      BY <2>1, <3>1, <3>2, <3>3 DEF GhostInv, Only
    <3>5. KeptInv => KeptInv'
      BY <3>1, <3>2, <3>3 DEF KeptInv, LiveShows, KeepShows, Shows, Gone, Off
    <3> QED BY <2>2, <3>4, <3>5
  <2> QED BY <2>3, <2>4, <2>5, <2>6, <2>7 DEF Next, Rest
<1> QED BY <1>1, InitDInv, LayoutInductive, PTL DEF Spec

\* New pages are zero and copies are made where they belong: between calls, no
\* page shows the datum but the one the program expects it in.
THEOREM NoGhostTheorem == Spec => []NoGhost
<1>1. DInv => NoGhost
  <2> SUFFICES ASSUME DInv, pc = "idle", ~ odd, NEW p \in Pages, pte[p] \in mem
               PROVE  p = datum
    BY DEF NoGhost
  <2>1. TInv /\ GhostInv /\ Expected = datum
    BY DEF DInv, LInv, Expected
  <2>2. pte[p] \in Frames \X Nat
    BY <2>1 DEF TInv, Types
  <2>3. PICK i \in Frames, o \in Nat : pte[p] = <<i, o>>
    BY <2>2, SMT
  <2>4. pte[p] # NoPage
    BY <2>2, EntryAssumption
  <2>5. i \in Live /\ p \in mapping_range(i) /\ o = p - maps[i].va
    <3>1. pte[p][1] = i /\ pte[p][2] = o
      BY <2>3, SMT
    <3> QED BY <2>1, <2>4, <3>1 DEF TInv, IInv, NoDangling
  <2>6. maps[i].va \in Nat /\ maps[i].size \in Nat /\ p \in Nat
    BY <2>1, <2>5, LiveTypes, SMT DEF TInv, Pages
  <2>7. o \in 0 .. (maps[i].size - 1)
    BY <2>5, <2>6, SMT DEF mapping_range, PagesOf
  <2>8. maps[i].va + o = datum
    BY <2>1, <2>3, <2>5, <2>7 DEF GhostInv, Only
  <2> QED BY <2>5, <2>6, <2>8, SMT
<1> QED BY <1>1, ContentsInductive, PTL

\* Partial unmapping, resizing, moving and cloning keep what the program wrote
\* where it expects it, unless a mapping is odd or a call that failed had
\* already removed a mapping.
THEOREM DatumKeptTheorem == Spec => []DatumKept
<1>1. DInv => DatumKept
  <2> SUFFICES ASSUME DInv, pc = "idle", datum # NoPage, ~ odd, ~ torn
               PROVE  page_phys(datum) \in mem
    BY DEF DatumKept
  <2>1. TInv /\ Apart /\ KeptInv /\ Expected = datum
    BY DEF DInv, LInv, LayInv, Expected
  <2>2. keeps = {} /\ job = NoJob
    BY <2>1 DEF TInv, CallInv
  <2>3. ~ KeepShows(datum) /\ ~ Gone(datum)
    BY <2>2 DEF KeepShows, Gone, NoJob
  <2>4. LiveShows(datum)
    BY <2>1, <2>3 DEF KeptInv
  <2>5. datum \in Nat
    BY <2>1, DatumIsNat DEF TInv
  <2> QED BY <2>1, <2>4, <2>5, PhysShows
<1> QED BY <1>1, ContentsInductive, PTL

=============================================================================
