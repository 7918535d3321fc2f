----------------------- MODULE SharedMembershipProofs -----------------------
(***************************************************************************)
(* SharedMembership for any number of workers, generations and entries.    *)
(*                                                                         *)
(* The invariant says which generations can exist relative to the          *)
(* published one, p: at most p-2, p-1, p and p+1, and never p-2 together   *)
(* with p+1. A generation above p can only be the one being built, or one  *)
(* a failed build left, which is why no two builds share a segment; p-2    *)
(* only survives between a publish and the sweep that follows it, or when  *)
(* a crash falls there, and the next builder sweeps before it allocates.   *)
(***************************************************************************)
EXTENDS SharedMembership, FiniteSetTheorems, TLAPS

\* A worker's role fits the place its code is at.
RoleFits(w) ==
  /\ pc[w] \in {"down", "sizing", "building", "created", "waiting", "opening",
                "retry", "live"} => role[w] = "none"
  /\ pc[w] \in {"rebuilding", "rebuilt", "swapping"} => role[w] = "builder"
  /\ pc[w] = "serving" => role[w] # "none"
  /\ pc[w] = "adopting" => role[w] \in {"reader", "attaching"}

HoldsLock(w) ==
  lock = w <=> (pc[w] \in {"building", "created"} \/ role[w] = "builder")

\* What a worker is about to publish, or has read, against the published state.
HandFits(w) ==
  /\ pc[w] \in {"building", "created", "rebuilding", "rebuilt"}
       => hand[w].gen = published.gen + 1
  /\ pc[w] \in {"created", "rebuilt"} /\ hand[w].count > 0
       => size[hand[w].gen] = hand[w].count
  /\ pc[w] = "swapping" => hand[w] = published
  /\ pc[w] \in {"opening", "adopting"} =>
       /\ hand[w].gen =< published.gen
       /\ hand[w].count > 0 /\ size[hand[w].gen] > 0
            => size[hand[w].gen] = hand[w].count
  /\ pc[w] = "adopting" => mapped[w].gen < hand[w].gen

\* What a worker serves against the published state.
MappedFits(w) ==
  /\ role[w] \in {"none", "attaching"} => mapped[w] = NoState
  /\ role[w] = "reader" => mapped[w].gen =< published.gen
  /\ role[w] = "builder" =>
       /\ pc[w] # "swapping" => mapped[w] = published
       /\ pc[w] = "swapping" => mapped[w].gen = published.gen - 1
       /\ published.count > 0 => size[published.gen] > 0

PublishedFits ==
  published.count > 0 /\ size[published.gen] > 0
    => size[published.gen] = published.count

Exists(g) == g \in Gens /\ size[g] > 0

SegmentsFit ==
  /\ \A g \in Gens : size[g] > 0 => published.gen - 2 =< g /\ g =< published.gen + 1
  /\ ~ (Exists(published.gen - 2) /\ Exists(published.gen + 1))
  /\ \A w \in Workers :
       /\ pc[w] \in {"building", "created"}
            => ~ Exists(published.gen - 1) /\ ~ Exists(published.gen - 2)
       /\ role[w] = "builder" /\ pc[w] # "swapping" => ~ Exists(published.gen - 2)

IInv ==
  /\ TypeOK
  /\ \A w \in Workers : RoleFits(w)
  /\ \A w \in Workers : HoldsLock(w)
  /\ \A w \in Workers : HandFits(w)
  /\ \A w \in Workers : MappedFits(w)
  /\ PublishedFits
  /\ SegmentsFit

-----------------------------------------------------------------------------
\* The initial state, with no process and no file, satisfies the invariant.
LEMMA InitIInv == Init => IInv
  <1> SUFFICES ASSUME Init PROVE IInv
    OBVIOUS
  <1> USE NoneAssumption, MaxGenAssumption, MaxCountAssumption DEF Init
  <1>1. TypeOK
    BY DEF TypeOK, PCs, Gens, Counts, SharedState, NoState
  <1>2. \A w \in Workers : RoleFits(w)
    BY DEF RoleFits
  <1>3. \A w \in Workers : HoldsLock(w)
    BY DEF HoldsLock
  <1>4. \A w \in Workers : HandFits(w)
    BY DEF HandFits
  <1>5. \A w \in Workers : MappedFits(w)
    BY DEF MappedFits
  <1>6. PublishedFits
    BY DEF PublishedFits, NoState
  <1>7. SegmentsFit
    BY DEF SegmentsFit, Exists
  <1> QED
    BY <1>1, <1>2, <1>3, <1>4, <1>5, <1>6, <1>7 DEF IInv

\* The records a state file can hold.
LEMMA StateFacts ==
  /\ NoState \in SharedState
  /\ \A s \in SharedState : s.gen \in Gens /\ s.count \in Counts
  /\ \A g \in Gens, c \in Counts : [gen |-> g, count |-> c] \in SharedState
  /\ \A s \in SharedState, c \in Counts : [s EXCEPT !.count = c] \in SharedState
  /\ 0 \in Gens /\ 0 \in Counts /\ Gens \subseteq Int
  /\ \A g \in Gens : g < MaxGen => g + 1 \in Gens
  BY MaxGenAssumption, MaxCountAssumption DEF NoState, SharedState, Gens, Counts

\* Every step of load, watch, reconcile or the environment keeps the types.
LEMMA TypeStep == TypeOK /\ [Next]_vars => TypeOK'
  <1> SUFFICES ASSUME TypeOK, [Next]_vars PROVE TypeOK'
    OBVIOUS
  <1> USE StateFacts DEF TypeOK, PCs, Goto, shared
  <1>1. ASSUME NEW w \in Workers, Start(w) PROVE TypeOK'
    BY <1>1 DEF Start
  <1>2. ASSUME NEW w \in Workers, CountFails(w) PROVE TypeOK'
    BY <1>2 DEF CountFails
  <1>3. ASSUME NEW w \in Workers, SkipTooLarge(w) PROVE TypeOK'
    BY <1>3 DEF SkipTooLarge
  <1>4. ASSUME NEW w \in Workers, WinLock(w) PROVE TypeOK'
    BY <1>4 DEF WinLock, NextGeneration, LockFree, Swept, BootKeep
  <1>5. ASSUME NEW w \in Workers, LoseLock(w) PROVE TypeOK'
    BY <1>5 DEF LoseLock
  <1>6. ASSUME NEW w \in Workers, BuildFails(w) PROVE TypeOK'
    BY <1>6 DEF BuildFails, ReleaseBuilder
  <1>7. ASSUME NEW w \in Workers, CreateSegment(w) PROVE TypeOK'
    BY <1>7 DEF CreateSegment, AllocateSegment, Creatable
  <1>8. ASSUME NEW w \in Workers, CreateFails(w) PROVE TypeOK'
    BY <1>8 DEF CreateFails, BuildFails, ReleaseBuilder
  <1>9. ASSUME NEW w \in Workers, Publish(w) PROVE TypeOK'
    BY <1>9 DEF Publish
  <1>10. ASSUME NEW w \in Workers, PublishFails(w) PROVE TypeOK'
    BY <1>10 DEF PublishFails, ReleaseBuilder
  <1>11. ASSUME NEW w \in Workers, WaitRead(w) PROVE TypeOK'
    BY <1>11 DEF WaitRead
  <1>12. ASSUME NEW w \in Workers, WaitTimeout(w) PROVE TypeOK'
    BY <1>12 DEF WaitTimeout, ServeAttaching
  <1>13. ASSUME NEW w \in Workers, Attach(w) PROVE TypeOK'
    BY <1>13 DEF Attach, MapSegment, Attachable, Segments
  <1>14. ASSUME NEW w \in Workers, AttachFails(w) PROVE TypeOK'
    BY <1>14 DEF AttachFails, ServeAttaching
  <1>15. ASSUME NEW w \in Workers, Retry(w) PROVE TypeOK'
    BY <1>15 DEF Retry
  <1>16. ASSUME NEW w \in Workers, WatchRead(w) PROVE TypeOK'
    BY <1>16 DEF WatchRead
  <1>17. ASSUME NEW w \in Workers, WatchAttach(w) PROVE TypeOK'
    BY <1>17 DEF WatchAttach, MapSegment, Attachable, Segments
  <1>18. ASSUME NEW w \in Workers, WatchAttachFails(w) PROVE TypeOK'
    BY <1>18 DEF WatchAttachFails
  <1>19. ASSUME NEW w \in Workers, ReconcileStart(w) PROVE TypeOK'
    BY <1>19 DEF ReconcileStart, NextGeneration
  <1>20. ASSUME NEW w \in Workers, RebuildFails(w) PROVE TypeOK'
    BY <1>20 DEF RebuildFails
  <1>21. ASSUME NEW w \in Workers, RebuildCreate(w) PROVE TypeOK'
    BY <1>21 DEF RebuildCreate, AllocateSegment, Creatable
  <1>22. ASSUME NEW w \in Workers, RebuildCreateFails(w) PROVE TypeOK'
    BY <1>22 DEF RebuildCreateFails, RebuildFails
  <1>23. ASSUME NEW w \in Workers, RebuildPublish(w) PROVE TypeOK'
    BY <1>23 DEF RebuildPublish
  <1>24. ASSUME NEW w \in Workers, RebuildPublishFails(w) PROVE TypeOK'
    BY <1>24 DEF RebuildPublishFails
  <1>25. ASSUME NEW w \in Workers, SwapAndSweep(w) PROVE TypeOK'
    BY <1>25 DEF SwapAndSweep, Swept, ReconcileKeep
  <1>26. ASSUME NEW w \in Workers, Shutdown(w) PROVE TypeOK'
    BY <1>26 DEF Shutdown, Gone, ClosesOwnSegment, ReleaseBuilder
  <1>27. ASSUME NEW w \in Workers, Crash(w) PROVE TypeOK'
    BY <1>27 DEF Crash, Gone, ReleaseBuilder
  <1>28. CASE UNCHANGED vars
    BY <1>28 DEF vars
  <1>29. QED
    BY <1>1, <1>2, <1>3, <1>4, <1>5, <1>6, <1>7, <1>8, <1>9, <1>10, <1>11, <1>12, <1>13, <1>14, <1>15, <1>16, <1>17, <1>18, <1>19, <1>20, <1>21, <1>22, <1>23, <1>24, <1>25, <1>26, <1>27, <1>28
    DEF Next, Load, Watch, Reconcile, Disturb

\* Every step keeps the invariant; one step below per action of the module.
LEMMA StepIInv == IInv /\ [Next]_vars => IInv'
  <1> SUFFICES ASSUME IInv, [Next]_vars PROVE IInv'
    OBVIOUS
  <1>0. TypeOK /\ TypeOK'
    BY TypeStep DEF IInv
  <1> USE <1>0, NoneAssumption, StateFacts DEF TypeOK, Goto, shared
  <1>1. ASSUME NEW w \in Workers, Start(w) PROVE IInv'
    BY <1>1 DEF IInv, RoleFits, HoldsLock, HandFits, MappedFits, PublishedFits,
       SegmentsFit, Exists, NoState, Start
  <1>2. ASSUME NEW w \in Workers, CountFails(w) PROVE IInv'
    BY <1>2 DEF IInv, RoleFits, HoldsLock, HandFits, MappedFits, PublishedFits,
       SegmentsFit, Exists, NoState, CountFails
  <1>3. ASSUME NEW w \in Workers, SkipTooLarge(w) PROVE IInv'
    BY <1>3 DEF IInv, RoleFits, HoldsLock, HandFits, MappedFits, PublishedFits,
       SegmentsFit, Exists, NoState, SkipTooLarge
  <1>4. ASSUME NEW w \in Workers, WinLock(w) PROVE IInv'
    <2> USE <1>4 DEF IInv, WinLock, NextGeneration, LockFree, Swept, BootKeep
    <2>1. \A u \in Workers : RoleFits(u)'
      BY DEF RoleFits
    <2>2. \A u \in Workers : HoldsLock(u)'
      BY DEF HoldsLock, RoleFits
    <2>3. \A u \in Workers : HandFits(u)'
      BY DEF HandFits, MappedFits, RoleFits, PublishedFits, HoldsLock
    <2>4. \A u \in Workers : MappedFits(u)'
      BY DEF MappedFits, HandFits, RoleFits, HoldsLock, NoState
    <2>5. PublishedFits'
      BY DEF PublishedFits, HandFits
    <2>6. SegmentsFit'
      BY DEF SegmentsFit, Exists, HoldsLock, HandFits, MappedFits, RoleFits
    <2> QED
      BY <2>1, <2>2, <2>3, <2>4, <2>5, <2>6 DEF IInv
  <1>5. ASSUME NEW w \in Workers, LoseLock(w) PROVE IInv'
    BY <1>5 DEF IInv, RoleFits, HoldsLock, HandFits, MappedFits, PublishedFits,
       SegmentsFit, Exists, NoState, LoseLock
  <1>6. ASSUME NEW w \in Workers, BuildFails(w) PROVE IInv'
    BY <1>6 DEF IInv, RoleFits, HoldsLock, HandFits, MappedFits, PublishedFits,
       SegmentsFit, Exists, NoState, BuildFails, ReleaseBuilder
  <1>7. ASSUME NEW w \in Workers, CreateSegment(w) PROVE IInv'
    <2> USE <1>7 DEF IInv, CreateSegment, AllocateSegment, Creatable
    <2>1. \A u \in Workers : RoleFits(u)'
      BY DEF RoleFits
    <2>2. \A u \in Workers : HoldsLock(u)'
      BY DEF HoldsLock, RoleFits
    <2>3. \A u \in Workers : HandFits(u)'
      BY DEF HandFits, MappedFits, RoleFits, PublishedFits, HoldsLock
    <2>4. \A u \in Workers : MappedFits(u)'
      BY DEF MappedFits, HandFits, RoleFits, HoldsLock, NoState
    <2>5. PublishedFits'
      BY DEF PublishedFits, HandFits
    <2>6. SegmentsFit'
      BY DEF SegmentsFit, Exists, HoldsLock, HandFits, MappedFits, RoleFits
    <2> QED
      BY <2>1, <2>2, <2>3, <2>4, <2>5, <2>6 DEF IInv
  <1>8. ASSUME NEW w \in Workers, CreateFails(w) PROVE IInv'
    BY <1>8 DEF IInv, RoleFits, HoldsLock, HandFits, MappedFits, PublishedFits,
       SegmentsFit, Exists, NoState, CreateFails, BuildFails, ReleaseBuilder
  <1>9. ASSUME NEW w \in Workers, Publish(w) PROVE IInv'
    <2> USE <1>9 DEF IInv, Publish
    <2>1. \A u \in Workers : RoleFits(u)'
      BY DEF RoleFits
    <2>2. \A u \in Workers : HoldsLock(u)'
      BY DEF HoldsLock, RoleFits
    <2>3. \A u \in Workers : HandFits(u)'
      BY DEF HandFits, MappedFits, RoleFits, PublishedFits, HoldsLock
    <2>4. \A u \in Workers : MappedFits(u)'
      BY DEF MappedFits, HandFits, RoleFits, HoldsLock, NoState
    <2>5. PublishedFits'
      BY DEF PublishedFits, HandFits
    <2>6. SegmentsFit'
      <3>1. /\ published'.gen = published.gen + 1 /\ size' = size
            /\ published.gen \in Int
        BY DEF HandFits
      <3>2. ~ Exists(published.gen - 1) /\ ~ Exists(published.gen - 2)
        BY DEF SegmentsFit
      <3>3. \A u \in Workers :
              (pc[u] \in {"building", "created"} \/ role[u] = "builder") => u = w
        BY DEF HoldsLock
      <3>4. \A g \in Gens : size'[g] > 0 =>
              published.gen - 1 =< g /\ g =< published.gen + 1
        <4> SUFFICES ASSUME NEW g \in Gens, size[g] > 0
                     PROVE  published.gen - 1 =< g /\ g =< published.gen + 1
          BY <3>1
        <4>1. g \in Int /\ published.gen - 2 =< g /\ g =< published.gen + 1
          BY <3>1 DEF SegmentsFit
        <4>2. g # published.gen - 2
          BY <3>2 DEF Exists
        <4> HIDE <1>9 DEF Publish, IInv, TypeOK
        <4> QED
          BY <3>1, <4>1, <4>2
      <3>5. ~ (Exists(published.gen - 2) /\ Exists(published.gen + 1))'
        BY <3>1, <3>2 DEF SegmentsFit, Exists
      <3>6. ASSUME NEW u \in Workers
            PROVE  /\ pc'[u] \notin {"building", "created"}
                   /\ role'[u] = "builder" => ~ Exists(published.gen - 2)'
        BY <3>1, <3>2, <3>3 DEF Exists
      <3>7. \A g \in Gens : size'[g] > 0 =>
              published'.gen - 2 =< g /\ g =< published'.gen + 1
        <4> SUFFICES ASSUME NEW g \in Gens, size'[g] > 0
                     PROVE  published'.gen - 2 =< g /\ g =< published'.gen + 1
          OBVIOUS
        <4>1. g \in Int /\ published.gen - 1 =< g /\ g =< published.gen + 1
          BY <3>1, <3>4
        <4> HIDE <1>0, <1>9 DEF Publish, IInv, TypeOK
        <4> QED
          BY <3>1, <4>1
      <3> QED
        BY <3>5, <3>6, <3>7 DEF SegmentsFit, Exists
    <2> QED
      BY <2>1, <2>2, <2>3, <2>4, <2>5, <2>6 DEF IInv
  <1>10. ASSUME NEW w \in Workers, PublishFails(w) PROVE IInv'
    BY <1>10 DEF IInv, RoleFits, HoldsLock, HandFits, MappedFits, PublishedFits,
       SegmentsFit, Exists, NoState, PublishFails, ReleaseBuilder
  <1>11. ASSUME NEW w \in Workers, WaitRead(w) PROVE IInv'
    BY <1>11 DEF IInv, RoleFits, HoldsLock, HandFits, MappedFits, PublishedFits,
       SegmentsFit, Exists, NoState, WaitRead
  <1>12. ASSUME NEW w \in Workers, WaitTimeout(w) PROVE IInv'
    BY <1>12 DEF IInv, RoleFits, HoldsLock, HandFits, MappedFits, PublishedFits,
       SegmentsFit, Exists, NoState, WaitTimeout, ServeAttaching
  <1>13. ASSUME NEW w \in Workers, Attach(w) PROVE IInv'
    BY <1>13 DEF IInv, RoleFits, HoldsLock, HandFits, MappedFits, PublishedFits,
       SegmentsFit, Exists, NoState, Attach, MapSegment, Attachable, Segments
  <1>14. ASSUME NEW w \in Workers, AttachFails(w) PROVE IInv'
    BY <1>14 DEF IInv, RoleFits, HoldsLock, HandFits, MappedFits, PublishedFits,
       SegmentsFit, Exists, NoState, AttachFails, ServeAttaching
  <1>15. ASSUME NEW w \in Workers, Retry(w) PROVE IInv'
    BY <1>15 DEF IInv, RoleFits, HoldsLock, HandFits, MappedFits, PublishedFits,
       SegmentsFit, Exists, NoState, Retry
  <1>16. ASSUME NEW w \in Workers, WatchRead(w) PROVE IInv'
    BY <1>16 DEF IInv, RoleFits, HoldsLock, HandFits, MappedFits, PublishedFits,
       SegmentsFit, Exists, NoState, WatchRead
  <1>17. ASSUME NEW w \in Workers, WatchAttach(w) PROVE IInv'
    BY <1>17 DEF IInv, RoleFits, HoldsLock, HandFits, MappedFits, PublishedFits,
       SegmentsFit, Exists, NoState, WatchAttach, MapSegment, Attachable, Segments
  <1>18. ASSUME NEW w \in Workers, WatchAttachFails(w) PROVE IInv'
    BY <1>18 DEF IInv, RoleFits, HoldsLock, HandFits, MappedFits, PublishedFits,
       SegmentsFit, Exists, NoState, WatchAttachFails
  <1>19. ASSUME NEW w \in Workers, ReconcileStart(w) PROVE IInv'
    BY <1>19 DEF IInv, RoleFits, HoldsLock, HandFits, MappedFits, PublishedFits,
       SegmentsFit, Exists, NoState, ReconcileStart, NextGeneration
  <1>20. ASSUME NEW w \in Workers, RebuildFails(w) PROVE IInv'
    BY <1>20 DEF IInv, RoleFits, HoldsLock, HandFits, MappedFits, PublishedFits,
       SegmentsFit, Exists, NoState, RebuildFails
  <1>21. ASSUME NEW w \in Workers, RebuildCreate(w) PROVE IInv'
    <2> USE <1>21 DEF IInv, RebuildCreate, AllocateSegment, Creatable
    <2>1. \A u \in Workers : RoleFits(u)'
      BY DEF RoleFits
    <2>2. \A u \in Workers : HoldsLock(u)'
      BY DEF HoldsLock, RoleFits
    <2>3. \A u \in Workers : HandFits(u)'
      BY DEF HandFits, MappedFits, RoleFits, PublishedFits, HoldsLock
    <2>4. \A u \in Workers : MappedFits(u)'
      BY DEF MappedFits, HandFits, RoleFits, HoldsLock, NoState
    <2>5. PublishedFits'
      BY DEF PublishedFits, HandFits
    <2>6. SegmentsFit'
      BY DEF SegmentsFit, Exists, HoldsLock, HandFits, MappedFits, RoleFits
    <2> QED
      BY <2>1, <2>2, <2>3, <2>4, <2>5, <2>6 DEF IInv
  <1>22. ASSUME NEW w \in Workers, RebuildCreateFails(w) PROVE IInv'
    BY <1>22 DEF IInv, RoleFits, HoldsLock, HandFits, MappedFits, PublishedFits,
       SegmentsFit, Exists, NoState, RebuildCreateFails, RebuildFails
  <1>23. ASSUME NEW w \in Workers, RebuildPublish(w) PROVE IInv'
    <2> USE <1>23 DEF IInv, RebuildPublish
    <2>1. \A u \in Workers : RoleFits(u)'
      BY DEF RoleFits
    <2>2. \A u \in Workers : HoldsLock(u)'
      BY DEF HoldsLock, RoleFits
    <2>3. \A u \in Workers : HandFits(u)'
      BY DEF HandFits, MappedFits, RoleFits, PublishedFits, HoldsLock
    <2>4. \A u \in Workers : MappedFits(u)'
      <3>1. /\ published'.gen = published.gen + 1 /\ size' = size
            /\ published.gen \in Int /\ role[w] = "builder"
        BY DEF HandFits, RoleFits
      <3>2. \A u \in Workers : role[u] = "builder" => u = w
        BY <3>1 DEF HoldsLock
      <3>3. MappedFits(w)'
        BY <3>1 DEF MappedFits, HandFits, NoState
      <3>4. ASSUME NEW u \in Workers, u # w PROVE MappedFits(u)'
        BY <3>1, <3>2, <3>4 DEF MappedFits, NoState
      <3> QED
        BY <3>3, <3>4
    <2>5. PublishedFits'
      BY DEF PublishedFits, HandFits
    <2>6. SegmentsFit'
      <3>1. /\ published'.gen = published.gen + 1 /\ size' = size
            /\ published.gen \in Int /\ role[w] = "builder"
        BY DEF HandFits, RoleFits
      <3>2. ~ Exists(published.gen - 2)
        BY <3>1 DEF SegmentsFit
      <3>3. \A u \in Workers :
              (pc[u] \in {"building", "created"} \/ role[u] = "builder") => u = w
        BY <3>1 DEF HoldsLock
      <3>4. \A g \in Gens : size'[g] > 0 => published'.gen - 2 =< g /\ g =< published'.gen + 1
        BY <3>1, <3>2 DEF SegmentsFit, Exists
      <3>5. ~ Exists(published.gen + 1)'
        BY <3>1 DEF SegmentsFit, Exists
      <3>6. ASSUME NEW u \in Workers
            PROVE  /\ pc'[u] \notin {"building", "created"}
                   /\ role'[u] = "builder" => pc'[u] = "swapping"
        BY <3>3
      <3> QED
        BY <3>4, <3>5, <3>6 DEF SegmentsFit, Exists
    <2> QED
      BY <2>1, <2>2, <2>3, <2>4, <2>5, <2>6 DEF IInv
  <1>24. ASSUME NEW w \in Workers, RebuildPublishFails(w) PROVE IInv'
    BY <1>24 DEF IInv, RoleFits, HoldsLock, HandFits, MappedFits, PublishedFits,
       SegmentsFit, Exists, NoState, RebuildPublishFails
  <1>25. ASSUME NEW w \in Workers, SwapAndSweep(w) PROVE IInv'
    <2> USE <1>25 DEF IInv, SwapAndSweep, Swept, ReconcileKeep
    <2>1. \A u \in Workers : RoleFits(u)'
      BY DEF RoleFits
    <2>2. \A u \in Workers : HoldsLock(u)'
      BY DEF HoldsLock, RoleFits
    <2>3. \A u \in Workers : HandFits(u)'
      BY DEF HandFits, MappedFits, RoleFits, PublishedFits, HoldsLock
    <2>4. \A u \in Workers : MappedFits(u)'
      BY DEF MappedFits, HandFits, RoleFits, HoldsLock, NoState
    <2>5. PublishedFits'
      BY DEF PublishedFits, HandFits
    <2>6. SegmentsFit'
      BY DEF SegmentsFit, Exists, HoldsLock, HandFits, MappedFits, RoleFits
    <2> QED
      BY <2>1, <2>2, <2>3, <2>4, <2>5, <2>6 DEF IInv
  <1>26. ASSUME NEW w \in Workers, Shutdown(w) PROVE IInv'
    BY <1>26 DEF IInv, RoleFits, HoldsLock, HandFits, MappedFits, PublishedFits,
       SegmentsFit, Exists, NoState, Shutdown, Gone, ClosesOwnSegment, ReleaseBuilder
  <1>27. ASSUME NEW w \in Workers, Crash(w) PROVE IInv'
    BY <1>27 DEF IInv, RoleFits, HoldsLock, HandFits, MappedFits, PublishedFits,
       SegmentsFit, Exists, NoState, Crash, Gone, ReleaseBuilder
  <1>28. CASE UNCHANGED vars
    BY <1>28 DEF vars, IInv, RoleFits, HoldsLock, HandFits, MappedFits, PublishedFits, SegmentsFit, Exists
  <1>29. QED
    BY <1>1, <1>2, <1>3, <1>4, <1>5, <1>6, <1>7, <1>8, <1>9, <1>10, <1>11, <1>12, <1>13, <1>14, <1>15, <1>16, <1>17, <1>18, <1>19, <1>20, <1>21, <1>22, <1>23, <1>24, <1>25, <1>26, <1>27, <1>28
    DEF Next, Load, Watch, Reconcile, Disturb

\* Every reachable state of every instance satisfies the invariant.
THEOREM Invariant == Spec => []IInv
  BY InitIInv, StepIInv, PTL DEF Spec

-----------------------------------------------------------------------------
\* Every variable keeps its type: generations and counts stay in bounds.
THEOREM TypeCorrect == Spec => []TypeOK
  <1>1. IInv => TypeOK
    BY DEF IInv
  <1> QED
    BY <1>1, Invariant, PTL

\* Only one worker ever builds, and the lock is held exactly while it does.
THEOREM OneBuilder == Spec => []SoleBuilder
  <1>1. IInv => SoleBuilder
    BY DEF IInv, HoldsLock, SoleBuilder
  <1> QED
    BY <1>1, Invariant, PTL

\* While a builder serves, a worker that starts can map what was published.
THEOREM StarterCanAttach == Spec => []PublishedAttachable
  <1>1. IInv => PublishedAttachable
    BY DEF IInv, TypeOK, HandFits, MappedFits, PublishedAttachable, Segments, SharedState
  <1> QED
    BY <1>1, Invariant, PTL

\* A worker never maps a segment of another build than the one it read about.
THEOREM AttachIsConsistent == Spec => []AttachSeesWhatWasPublished
  <1>1. IInv => AttachSeesWhatWasPublished
    BY DEF IInv, HandFits, AttachSeesWhatWasPublished, Attachable, Segments
  <1> QED
    BY <1>1, Invariant, PTL

\* A set that only holds three given elements has at most three.
LEMMA AtMostThree ==
  ASSUME NEW a, NEW b, NEW c, NEW S, S \subseteq {a, b, c}
  PROVE  IsFiniteSet(S) /\ Cardinality(S) =< 3
  <1>1. IsFiniteSet({}) /\ Cardinality({}) = 0
    BY FS_EmptySet
  <1>2. IsFiniteSet({a}) /\ Cardinality({a}) = 1
    BY FS_Singleton
  <1>3. IsFiniteSet({a, b}) /\ Cardinality({a, b}) =< 2
    <2>1. {a, b} = {a} \cup {b}
      OBVIOUS
    <2> QED
      BY <1>2, <2>1, FS_AddElement
  <1>4. IsFiniteSet({a, b, c}) /\ Cardinality({a, b, c}) =< 3
    <2>1. {a, b, c} = {a, b} \cup {c}
      OBVIOUS
    <2>2. Cardinality({a, b}) \in Nat
      BY <1>3, FS_CardinalityType
    <2>3. /\ IsFiniteSet({a, b} \cup {c})
          /\ \/ Cardinality({a, b} \cup {c}) = Cardinality({a, b})
             \/ Cardinality({a, b} \cup {c}) = Cardinality({a, b}) + 1
      BY <1>3, FS_AddElement
    <2> DEFINE two == Cardinality({a, b})
               three == Cardinality({a, b} \cup {c})
    <2>4. two \in Nat /\ two =< 2 /\ (three = two \/ three = two + 1)
      BY <1>3, <2>2, <2>3
    <2> HIDE DEF two, three
    <2>5. three =< 3
      BY <2>4
    <2> QED
      BY <2>1, <2>3, <2>5 DEF three
  <1>5. IsFiniteSet(S) /\ Cardinality(S) =< Cardinality({a, b, c})
    BY <1>4, FS_Subset
  <1>6. Cardinality(S) \in Nat /\ Cardinality({a, b, c}) \in Nat
    BY <1>4, <1>5, FS_CardinalityType
  <1> QED
    BY <1>4, <1>5, <1>6

\* Whatever crashes, at most three segments exist, so the memory the service
\* can hold in /dev/shm is three times the budget of one.
THEOREM ThreeSegments == Spec => []SegmentBound
  <1>1. ASSUME IInv PROVE SegmentBound
    <2> DEFINE p == published.gen
    <2>1. p \in Int /\ Gens \subseteq Int
      BY <1>1, StateFacts DEF IInv, TypeOK
    <2>2. \/ Segments \subseteq {p - 2, p - 1, p}
          \/ Segments \subseteq {p - 1, p, p + 1}
      <3>1. \A g \in Segments : g \in Int /\ p - 2 =< g /\ g =< p + 1
        BY <1>1, <2>1 DEF IInv, SegmentsFit, Segments
      <3>2. ~ (p - 2 \in Segments /\ p + 1 \in Segments)
        BY <1>1 DEF IInv, SegmentsFit, Exists, Segments
      <3> HIDE DEF p
      <3> QED
        BY <2>1, <3>1, <3>2
    <2> QED
      BY <2>2, AtMostThree DEF SegmentBound
  <1> QED
    BY <1>1, Invariant, PTL

-----------------------------------------------------------------------------
\* The published segment goes only when its builder shuts down cleanly.
THEOREM PublishedStays == Spec => PublishedNeverSwept
  <1> DEFINE Stays == (published' = published /\ ~ \E w \in Workers : Shutdown(w))
                        => (published.gen \in Segments => published.gen \in Segments')
  <1>1. ASSUME IInv, [Next]_vars PROVE Stays
    <2> SUFFICES ASSUME published' = published, \A w \in Workers : ~ Shutdown(w),
                        size[published.gen] > 0
                 PROVE  size'[published.gen] > 0
      BY <1>1, StateFacts DEF IInv, TypeOK, Segments
    <2> USE <1>1, StateFacts DEF IInv, TypeOK, Goto, shared
    <2>1. ASSUME NEW w \in Workers, WinLock(w) PROVE size'[published.gen] > 0
      BY <2>1 DEF WinLock, Swept, BootKeep
    <2>2. ASSUME NEW w \in Workers, NEW c \in Counts, AllocateSegment(w, c)
          PROVE  size'[published.gen] > 0
      BY <2>2 DEF AllocateSegment
    <2>3. ASSUME NEW w \in Workers, SwapAndSweep(w) PROVE size'[published.gen] > 0
      BY <2>3 DEF SwapAndSweep, Swept, ReconcileKeep, HandFits
    <2>4. ASSUME UNCHANGED size PROVE size'[published.gen] > 0
      BY <2>4
    <2> QED
      BY <2>1, <2>2, <2>3, <2>4
      DEF Next, Load, Watch, Reconcile, Disturb, vars, Start, CountFails, SkipTooLarge,
          LoseLock, BuildFails, CreateSegment, CreateFails, Publish, PublishFails,
          WaitRead, WaitTimeout, ServeAttaching, Attach, MapSegment, AttachFails,
          Retry, WatchRead, WatchAttach, WatchAttachFails, ReconcileStart,
          RebuildFails, RebuildCreate, RebuildCreateFails, RebuildPublish,
          RebuildPublishFails, Crash
  <1>2. IInv /\ [Next]_vars => [Stays]_vars
    BY <1>1
  <1> QED
    BY <1>2, Invariant, PTL DEF Spec, PublishedNeverSwept

\* Neither the state file nor any process ever goes back a generation.
THEOREM ForwardOnly == Spec => GenerationsForward
  <1>1. ASSUME IInv, [Next]_vars PROVE NeverBack
    <2>1. TypeOK /\ TypeOK'
      BY <1>1, TypeStep DEF IInv
    <2> USE <1>1, <2>1, StateFacts DEF IInv, TypeOK, Goto, shared, NeverBack
    <2>2. /\ published.gen \in Int
          /\ \A u \in Workers : mapped[u].gen \in Int
      OBVIOUS
    <2>3. ASSUME NEW w \in Workers, Publish(w) PROVE NeverBack
      <3>1. published'.gen = published.gen + 1
        BY <2>3 DEF Publish, HandFits
      <3>2. mapped[w].gen = 0 /\ mapped'[w].gen \in Nat
        BY <2>3 DEF Publish, MappedFits, RoleFits, NoState, Gens, SharedState
      <3>3. \A u \in Workers \ {w} : mapped'[u] = mapped[u]
        BY <2>3 DEF Publish
      <3> HIDE <1>1, <2>1
      <3> QED
        BY <2>2, <3>1, <3>2, <3>3
    <2>4. ASSUME NEW w \in Workers, MapSegment(w), pc[w] \in {"opening", "adopting"}
          PROVE  NeverBack
      <3>1. published' = published
        BY <2>4 DEF MapSegment
      <3>2. mapped'[w].gen >= mapped[w].gen
        <4>1. mapped'[w] = hand[w] /\ hand[w].gen \in Nat
          BY <2>4 DEF MapSegment, Gens, SharedState
        <4>2. CASE pc[w] = "opening"
          BY <4>1, <4>2 DEF MappedFits, RoleFits, NoState
        <4>3. CASE pc[w] = "adopting"
          BY <2>2, <4>1, <4>3 DEF HandFits
        <4> QED
          BY <2>4, <4>2, <4>3
      <3>3. \A u \in Workers \ {w} : mapped'[u] = mapped[u]
        BY <2>4 DEF MapSegment
      <3>4. \A u \in Workers : mapped'[u].gen >= mapped[u].gen
        <4> HIDE <1>1, <2>1
        <4> SUFFICES ASSUME NEW u \in Workers PROVE mapped'[u].gen >= mapped[u].gen
          OBVIOUS
        <4>1. CASE u = w
          BY <3>2, <4>1
        <4>2. CASE u # w
          <5>1. mapped'[u] = mapped[u] /\ mapped[u].gen \in Int
            BY <2>2, <3>3, <4>2
          <5> QED
            BY <5>1
        <4> QED
          BY <4>1, <4>2
      <3> QED
        BY <2>2, <3>1, <3>4
    <2>5. ASSUME NEW w \in Workers, RebuildPublish(w) PROVE NeverBack
      BY <2>2, <2>5 DEF RebuildPublish, HandFits
    <2>6. ASSUME NEW w \in Workers, SwapAndSweep(w) PROVE NeverBack
      BY <2>2, <2>6 DEF SwapAndSweep, HandFits, MappedFits, RoleFits
    <2>7. ASSUME NEW w \in Workers, Gone(w) PROVE NeverBack
      BY <2>2, <2>7 DEF Gone
    <2>8. ASSUME UNCHANGED <<published, mapped>> PROVE NeverBack
      BY <2>2, <2>8
    <2> QED
      BY <2>3, <2>4, <2>5, <2>6, <2>7, <2>8
      DEF Next, Load, Watch, Reconcile, Disturb, vars, Start, CountFails, SkipTooLarge,
          WinLock, LoseLock, BuildFails, CreateSegment, CreateFails, AllocateSegment,
          PublishFails, WaitRead, WaitTimeout, ServeAttaching, Attach, AttachFails,
          Retry, WatchRead, WatchAttach, WatchAttachFails, ReconcileStart,
          RebuildFails, RebuildCreate, RebuildCreateFails, RebuildPublishFails,
          Shutdown, Crash
  <1>2. IInv /\ [Next]_vars => [NeverBack]_vars
    BY <1>1
  <1> QED
    BY <1>2, Invariant, PTL DEF Spec, GenerationsForward
=============================================================================
