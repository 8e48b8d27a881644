------------------------- MODULE EventStreamsProofs -------------------------
(***************************************************************************)
(* Proofs about EventStreams: for any number of writers, partitions, events *)
(* per chain and retries, each partition is one contiguous chain of events, *)
(* and a watermark a breaker bound to stays bound.                          *)
(*                                                                          *)
(* The argument: a chain continues the store it was built on (ChainFits),   *)
(* the store only grows, so it continues every later store as well; landing *)
(* it where none of its slots is taken gives a store that is contiguous     *)
(* again (LandingFits).                                                     *)
(***************************************************************************)
EXTENDS EventStreams, FiniteSetTheorems, SequenceTheorems, TLAPS

(***************************************************************************)
(* Facts about sets of events                                               *)
(***************************************************************************)
\* A predecessor or a filled slot is not lost when the set of events grows.
LEMMA LinksGrow ==
  ASSUME NEW e, NEW S, NEW T, S \subseteq T, GapFreeIn(e, S), LinkedIn(e, S)
  PROVE  GapFreeIn(e, T) /\ LinkedIn(e, T)
BY DEF GapFreeIn, LinkedIn

\* A chain built on a store continues every store that grew from it.
LEMMA StoreGrows ==
  ASSUME NEW C, NEW tails, NEW S, NEW T, S \subseteq T, ChainFits(C, tails, S)
  PROVE  ChainFits(C, tails, T)
<1>1. S \cup C \subseteq T \cup C
  OBVIOUS
<1>2. \A e \in C : GapFreeIn(e, T \cup C) /\ LinkedIn(e, T \cup C)
  BY <1>1, LinksGrow DEF ChainFits
<1> QED
  BY <1>2 DEF ChainFits

\* The chain a writer starts from is empty and fits any store.
LEMMA EmptyChainFits ==
  ASSUME NEW S
  PROVE  ChainFits({}, NoTails, S)
BY DEF ChainFits, UniqueIn, TailsFit, NoTails, In

\* An event fits at the end of a chain when it starts its partition or follows
\* the last event there is.
FollowsTail(x, C, S) ==
  \/ /\ x.offset = 0
     /\ x.previous = None
     /\ In(C, x.partition) = {}
  \/ \E t \in S \cup C :
       /\ t.partition = x.partition
       /\ x.offset = t.offset + 1
       /\ x.previous = t.digest
       /\ GapFreeIn(t, S \cup C)
       /\ Greatest(t, In(C, x.partition))

LEMMA ChainGrows ==
  ASSUME NEW C \in SUBSET Event, NEW S \in SUBSET Event, NEW tails \in References,
         ChainFits(C, tails, S), NEW x \in Event, FollowsTail(x, C, S)
  PROVE  ChainFits(C \cup {x},
                   [tails EXCEPT ![x.partition] = [offset |-> x.offset, digest |-> x.digest]], S)
<1> DEFINE D == C \cup {x}
           ends == [tails EXCEPT ![x.partition] = [offset |-> x.offset, digest |-> x.digest]]
<1>1. x.partition \in Partitions /\ x.offset \in Nat /\ x.digest \in Digest
  BY DEF Event
<1>2. \A e \in C : e.offset \in Nat
  BY DEF Event
<1>3. \A e \in S : e.offset \in Nat
  BY DEF Event
<1>4. \A e \in In(C, x.partition) : e.offset < x.offset
  BY <1>1, <1>2, <1>3 DEF FollowsTail, Greatest, In
<1>5. UniqueIn(D)
  <2> SUFFICES ASSUME NEW e \in D, NEW f \in D, SameSlot(e, f)
               PROVE  e = f
    BY DEF UniqueIn
  <2>1. CASE e \in C /\ f \in C
    BY <2>1 DEF ChainFits, UniqueIn
  <2>2. CASE e = x /\ f \in C
    BY <2>2, <1>1, <1>2, <1>4 DEF SameSlot, In
  <2>3. CASE e \in C /\ f = x
    BY <2>3, <1>1, <1>2, <1>4 DEF SameSlot, In
  <2> QED
    BY <2>1, <2>2, <2>3
<1>6. \A e \in C : GapFreeIn(e, S \cup D) /\ LinkedIn(e, S \cup D)
  <2>1. S \cup C \subseteq S \cup D
    OBVIOUS
  <2> QED
    BY <2>1, LinksGrow DEF ChainFits
<1>7. GapFreeIn(x, S \cup D) /\ LinkedIn(x, S \cup D)
  <2>1. CASE x.offset = 0 /\ x.previous = None
    <3>1. LinkedIn(x, S \cup D)
      BY <2>1 DEF LinkedIn
    <3>2. \A k \in 0 .. x.offset : k = x.offset
      BY <2>1
    <3> QED
      BY <3>1, <3>2 DEF GapFreeIn
  <2>2. ASSUME NEW t \in S \cup C,
               t.partition = x.partition, x.offset = t.offset + 1, x.previous = t.digest,
               GapFreeIn(t, S \cup C)
        PROVE  GapFreeIn(x, S \cup D) /\ LinkedIn(x, S \cup D)
    <3>1. t.offset \in Nat
      BY <1>2, <1>3
    <3>2. x.offset # 0 /\ t.offset = x.offset - 1
      BY <2>2, <3>1
    <3>3. LinkedIn(x, S \cup D)
      BY <2>2, <3>2 DEF LinkedIn
    <3>4. ASSUME NEW k \in 0 .. x.offset
          PROVE  \E f \in S \cup D : f.partition = x.partition /\ f.offset = k
      <4>1. CASE k = x.offset
        BY <4>1
      <4>2. CASE k # x.offset
        <5>1. k \in 0 .. t.offset
          BY <4>2, <3>1, <2>2
        <5> QED
          BY <5>1, <2>2 DEF GapFreeIn
      <4> QED
        BY <4>1, <4>2
    <3> QED
      BY <3>3, <3>4 DEF GapFreeIn
  <2> QED
    BY <2>1, <2>2 DEF FollowsTail
<1>8. TailsFit(D, ends)
  <2> SUFFICES ASSUME NEW p \in Partitions
               PROVE  IF ends[p] = None THEN In(D, p) = {}
                      ELSE \E e \in In(D, p) : /\ ends[p].offset = e.offset
                                              /\ ends[p].digest = e.digest
                                              /\ Greatest(e, In(D, p))
    BY DEF TailsFit
  <2>1. CASE p = x.partition
    <3>1. ends[p] = [offset |-> x.offset, digest |-> x.digest]
      BY <2>1, <1>1 DEF References
    <3>2. ends[p] # None
      BY <3>1, <1>1, NoneIsNull DEF Position
    <3>3. x \in In(D, p)
      BY <2>1 DEF In
    <3>4. Greatest(x, In(D, p))
      BY <2>1, <1>1, <1>2, <1>4 DEF Greatest, In
    <3> QED
      BY <3>1, <3>2, <3>3, <3>4
  <2>2. CASE p # x.partition
    <3>1. ends[p] = tails[p]
      BY <2>2 DEF References
    <3>2. In(D, p) = In(C, p)
      BY <2>2 DEF In
    <3> QED
      BY <3>1, <3>2 DEF ChainFits, TailsFit
  <2> QED
    BY <2>1, <2>2
<1> HIDE DEF ends
<1>9. ChainFits(D, ends, S)
  BY <1>5, <1>6, <1>7, <1>8 DEF ChainFits
<1> QED
  BY <1>9 DEF ends

\* A store without any event is contiguous.
LEMMA EmptyStoreFits == StoreFits({})
BY DEF StoreFits, UniqueIn, In

\* A chain that fits the store and collides with no stored event leaves the
\* store contiguous: an event beyond the chain's last one in a partition would
\* rest on an event in the last one's slot.
LEMMA LandingFits ==
  ASSUME NEW S \in SUBSET Event, NEW C \in SUBSET Event, NEW tails,
         StoreFits(S), ChainFits(C, tails, S),
         \A e \in C, f \in S : ~SameSlot(e, f)
  PROVE  StoreFits(S \cup C)
<1> DEFINE T == S \cup C
<1>1. \A e \in T : e.offset \in Nat
  BY DEF Event
<1>2. UniqueIn(T)
  <2> SUFFICES ASSUME NEW e \in T, NEW f \in T, SameSlot(e, f)
               PROVE  e = f
    BY DEF UniqueIn
  <2>1. CASE e \in S /\ f \in S
    BY <2>1 DEF StoreFits, UniqueIn
  <2>2. CASE e \in C /\ f \in C
    BY <2>2 DEF ChainFits, UniqueIn
  <2>3. CASE (e \in C /\ f \in S) \/ (e \in S /\ f \in C)
    BY <2>3 DEF SameSlot
  <2> QED
    BY <2>1, <2>2, <2>3
<1>3. \A e \in T : GapFreeIn(e, T) /\ LinkedIn(e, T)
  <2>1. \A e \in S : GapFreeIn(e, T) /\ LinkedIn(e, T)
    BY LinksGrow DEF StoreFits
  <2>2. \A e \in C : GapFreeIn(e, T) /\ LinkedIn(e, T)
    BY DEF ChainFits
  <2> QED
    BY <2>1, <2>2
<1>4. ASSUME NEW p \in Partitions, In(T, p) # {}
      PROVE  \E e \in In(T, p) : Greatest(e, In(T, p))
  <2>1. CASE In(C, p) = {}
    <3>1. In(T, p) = In(S, p)
      BY <2>1 DEF In
    <3> QED
      BY <3>1, <1>4 DEF StoreFits
  <2>2. CASE In(C, p) # {}
    <3>1. PICK e \in In(C, p) : Greatest(e, In(C, p))
      BY <2>2 DEF ChainFits, TailsFit
    <3>2. e \in T /\ e \in C /\ e.partition = p
      BY <3>1 DEF In
    <3>3. ASSUME NEW f \in In(S, p)
          PROVE  f.offset <= e.offset
      <4>1. f \in S /\ f.partition = p
        BY DEF In
      <4>2. SUFFICES ASSUME ~(f.offset <= e.offset)
                     PROVE  FALSE
        OBVIOUS
      <4>3. e.offset \in 0 .. f.offset
        BY <4>1, <4>2, <3>2, <1>1
      <4>4. PICK g \in S : g.partition = f.partition /\ g.offset = e.offset
        BY <4>1, <4>3 DEF StoreFits, GapFreeIn
      <4> QED
        BY <4>4, <4>1, <3>2 DEF SameSlot
    <3>4. Greatest(e, In(T, p))
      BY <3>1, <3>3 DEF Greatest, In
    <3> QED
      BY <3>2, <3>4 DEF In
  <2> QED
    BY <2>1, <2>2
<1> QED
  BY <1>2, <1>3, <1>4 DEF StoreFits

(***************************************************************************)
(* Types                                                                    *)
(***************************************************************************)
\* A fresh plan is a plan whose chain is empty.
LEMMA FreshPlan ==
  ASSUME NEW phase \in Phases, NEW attempt \in Attempts, NEW mark \in Watermark \cup {None}
  PROVE  /\ Fresh(phase, attempt, mark) \in Plan
         /\ Fresh(phase, attempt, mark).phase = phase
         /\ Fresh(phase, attempt, mark).chain = <<>>
         /\ Fresh(phase, attempt, mark).tails = NoTails
         /\ Fresh(phase, attempt, mark).watermark = mark
BY DEF Fresh, Plan, NoTails, References

\* The fields of a writer's plan.
LEMMA PlanFields ==
  ASSUME TypeOK, NEW w \in Writers
  PROVE  /\ plan[w] \in Plan
         /\ plan[w].phase \in Phases
         /\ plan[w].attempt \in Attempts
         /\ plan[w].chain \in Seq(Event)
         /\ plan[w].tails \in References
         /\ plan[w].watermark \in Watermark \cup {None}
         /\ Chain(w) \in SUBSET Event
BY DEF TypeOK, Plan, Chain

LEMMA RouteIsPath ==
  ASSUME NEW w \in Writers
  PROVE  Route(w) \in Seq(Partitions)
BY StreamConstants DEF Route

\* The tail of a partition that has events in a contiguous store.
LEMMA StreamTailFound ==
  ASSUME TypeOK, StoreFits(events), NEW p \in Partitions, In(events, p) # {}
  PROVE  \E t \in events : /\ t.partition = p
                           /\ Greatest(t, In(events, p))
                           /\ StreamTail(p) = [offset |-> t.offset, digest |-> t.digest]
                           /\ StreamTail(p) \in Position
<1> DEFINE last == CHOOSE e \in In(events, p) : Greatest(e, In(events, p))
<1>1. last \in In(events, p) /\ Greatest(last, In(events, p))
  BY DEF StoreFits
<1>2. StreamTail(p) = [offset |-> last.offset, digest |-> last.digest]
  BY DEF StreamTail, Greatest
<1>3. last \in events /\ last.partition = p
  BY <1>1 DEF In
<1>4. last.offset \in Nat /\ last.digest \in Digest
  BY <1>3 DEF TypeOK, Event
<1>5. StreamTail(p) \in Position
  BY <1>2, <1>4 DEF Position
<1> HIDE DEF last
<1> QED
  BY <1>1, <1>2, <1>3, <1>5

\* The event a writer builds next is an event, and follows the tail.
LEMMA NextEventFollows ==
  ASSUME StreamInvariant, NEW w \in Writers, NEW p \in Partitions
  PROVE  LET x == EventAfter(w, p, TailFor(w, p)) IN
         /\ x \in Event
         /\ x.partition = p
         /\ FollowsTail(x, Chain(w), events)
<1> DEFINE tail == TailFor(w, p)
           x == EventAfter(w, p, tail)
           C == Chain(w)
           tails == plan[w].tails
           id == [writer |-> w, phase |-> plan[w].phase, attempt |-> plan[w].attempt,
                  step |-> Len(plan[w].chain)]
<1>1. /\ TypeOK
      /\ StoreFits(events)
      /\ ChainFits(C, tails, events)
      /\ C \in SUBSET Event
      /\ events \in SUBSET Event
      /\ tails \in References
  BY PlanFields DEF StreamInvariant, TypeOK
<1>2. id \in Digest
  BY <1>1, PlanFields DEF Digest
<1>3. /\ x.partition = p
      /\ x.offset = IF tail = None THEN 0 ELSE tail.offset + 1
      /\ x.previous = IF tail = None THEN None ELSE tail.digest
      /\ x = [digest |-> id, partition |-> p, offset |-> x.offset, previous |-> x.previous]
  BY DEF EventAfter
<1>4. CASE tails[p] # None
  <2>1. tail = tails[p]
    BY <1>4 DEF TailFor
  <2>2. PICK t \in In(C, p) : /\ tails[p].offset = t.offset
                              /\ tails[p].digest = t.digest
                              /\ Greatest(t, In(C, p))
    BY <1>1, <1>4 DEF ChainFits, TailsFit
  <2>3. t \in C /\ t.partition = p /\ t.offset \in Nat /\ t.digest \in Digest
    BY <2>2, <1>1 DEF In, Event
  <2>4. x.offset = t.offset + 1 /\ x.previous = t.digest
    BY <1>3, <1>4, <2>1, <2>2
  <2>5. x \in Event
    BY <1>2, <1>3, <2>3, <2>4 DEF Event
  <2>6. GapFreeIn(t, events \cup C)
    BY <1>1, <2>3 DEF ChainFits
  <2>7. FollowsTail(x, C, events)
    BY <1>3, <2>2, <2>3, <2>4, <2>6 DEF FollowsTail
  <2> QED
    BY <1>3, <2>5, <2>7
<1>5. CASE tails[p] = None /\ In(events, p) = {}
  <2>1. tail = None
    BY <1>5 DEF TailFor
  <2>2. x.offset = 0 /\ x.previous = None
    BY <1>3, <2>1
  <2>3. x \in Event
    BY <1>2, <1>3, <2>2 DEF Event
  <2>4. In(C, p) = {}
    BY <1>1, <1>5 DEF ChainFits, TailsFit
  <2> QED
    BY <1>3, <2>2, <2>3, <2>4 DEF FollowsTail
<1>6. CASE tails[p] = None /\ In(events, p) # {}
  <2>1. tail = StreamTail(p)
    BY <1>6 DEF TailFor
  <2>2. PICK t \in events : /\ t.partition = p
                            /\ Greatest(t, In(events, p))
                            /\ StreamTail(p) = [offset |-> t.offset, digest |-> t.digest]
                            /\ StreamTail(p) \in Position
    BY <1>1, <1>6, StreamTailFound
  <2>3. tail # None
    BY <2>1, <2>2, NoneIsNull
  <2>4. t.offset \in Nat /\ t.digest \in Digest
    BY <1>1 DEF Event
  <2>5. x.offset = t.offset + 1 /\ x.previous = t.digest
    BY <1>3, <2>1, <2>2, <2>3
  <2>6. x \in Event
    BY <1>2, <1>3, <2>4, <2>5 DEF Event
  <2>7. GapFreeIn(t, events \cup C)
    BY <1>1, LinksGrow DEF StoreFits
  <2>8. Greatest(t, In(C, p))
    BY <1>1, <1>6 DEF ChainFits, TailsFit, Greatest
  <2> QED
    BY <1>3, <2>2, <2>5, <2>6, <2>7, <2>8 DEF FollowsTail
<1> QED
  BY <1>4, <1>5, <1>6

(***************************************************************************)
(* The initial state                                                        *)
(***************************************************************************)
LEMMA InitEstablishes == Init => StreamInvariant
<1> SUFFICES ASSUME Init
             PROVE  StreamInvariant
  OBVIOUS
<1>1. \A w \in Writers : plan[w] = Fresh("main", 0, None)
  BY DEF Init
<1>2. "main" \in Phases /\ 0 \in Attempts
  BY StreamConstants DEF Phases, Attempts
<1>3. \A w \in Writers : /\ plan[w] \in Plan
                         /\ plan[w].phase = "main"
                         /\ plan[w].chain = <<>>
                         /\ plan[w].tails = NoTails
                         /\ plan[w].watermark = None
  BY <1>1, <1>2, FreshPlan
<1>4. TypeOK
  <2>1. plan \in [Writers -> Plan]
    BY <1>3 DEF Init
  <2>2. told \in [Writers -> Answers]
    BY DEF Init, Answers
  <2> QED
    BY <2>1, <2>2 DEF Init, TypeOK
<1>5. InRoute
  BY <1>3, StreamConstants DEF InRoute, Route, Init
<1>6. StoreFits(events)
  BY EmptyStoreFits DEF Init
<1>7. \A w \in Writers : ChainFits(Chain(w), plan[w].tails, events)
  <2> TAKE w \in Writers
  <2>1. Chain(w) = {}
    BY <1>3 DEF Chain
  <2> QED
    BY <2>1, <1>3, EmptyChainFits
<1>8. WatermarksHold
  BY <1>3 DEF WatermarksHold, Init
<1> QED
  BY <1>4, <1>5, <1>6, <1>7, <1>8 DEF StreamInvariant

(***************************************************************************)
(* What a commit does to the store                                          *)
(***************************************************************************)
\* The references computed for a receipt are references.
LEMMA ReferencesAreTyped ==
  ASSUME StreamInvariant, NEW w \in Writers
  PROVE  ReceiptStreamReferences(w) \in References
<1>1. Chain(w) \in SUBSET Event /\ TailsFit(Chain(w), plan[w].tails)
  BY PlanFields DEF StreamInvariant, ChainFits
<1>2. ASSUME NEW p \in Partitions
      PROVE  ReceiptStreamReferences(w)[p] \in Position \cup {None}
  <2> DEFINE last == CHOOSE e \in In(Chain(w), p) : Greatest(e, In(Chain(w), p))
  <2>1. CASE In(Chain(w), p) = {}
    BY <2>1 DEF ReceiptStreamReferences
  <2>2. CASE In(Chain(w), p) # {}
    <3>1. last \in In(Chain(w), p)
      BY <1>1, <2>2 DEF TailsFit
    <3>2. last.offset \in Nat /\ last.digest \in Digest
      BY <1>1, <3>1 DEF In, Event
    <3>3. ReceiptStreamReferences(w)[p] = [offset |-> last.offset, digest |-> last.digest]
      BY <2>2 DEF ReceiptStreamReferences, Greatest
    <3> QED
      BY <3>2, <3>3 DEF Position
  <2> QED
    BY <2>1, <2>2
<1>3. ReceiptStreamReferences(w) = [p \in Partitions |-> ReceiptStreamReferences(w)[p]]
  BY DEF ReceiptStreamReferences
<1> QED
  BY <1>2, <1>3 DEF References

\* A watermark is not lost when the streams grow.
LEMMA WatermarksGrow ==
  ASSUME events \subseteq events', NEW mark, ObservedWatermarkHolds(mark)
  PROVE  \E e \in events' : /\ e.partition = mark.partition
                           /\ e.offset = mark.offset
                           /\ e.digest = mark.digest
BY DEF ObservedWatermarkHolds

StoreTypes ==
  /\ events \in SUBSET Event
  /\ holder \in [Keys -> Writers \cup {None}]
  /\ receipts \in SUBSET [writer : Writers, phase : Phases, refs : References]
  /\ observed \in [Writers -> Watermark \cup {None}]

DecisionsHold == \A v \in Writers : observed[v] # None => ObservedWatermarkHolds(observed[v])

\* The store after a writer's commit landed, or did not.
LEMMA StoreStep ==
  ASSUME StreamInvariant, NEW w \in Writers, Land(w) \/ UNCHANGED storeVars
  PROVE  /\ StoreTypes'
         /\ events \subseteq events'
         /\ StoreFits(events')
         /\ DecisionsHold'
<1>1. /\ TypeOK
      /\ StoreFits(events)
      /\ ChainFits(Chain(w), plan[w].tails, events)
      /\ WatermarksHold
  BY DEF StreamInvariant
<1>2. CASE UNCHANGED storeVars
  <2>1. StoreTypes' /\ events' = events
    BY <1>1, <1>2 DEF TypeOK, StoreTypes, storeVars
  <2>2. DecisionsHold'
    BY <1>1, <1>2 DEF DecisionsHold, WatermarksHold, ObservedWatermarkHolds, storeVars
  <2> QED
    BY <1>1, <2>1, <2>2
<1>3. CASE Land(w)
  <2>1. /\ events' = events \cup Chain(w)
        /\ ~OffsetTaken(w)
        /\ observed' = [observed EXCEPT ![w] = plan[w].watermark]
    BY <1>3 DEF Land
  <2>2. events \in SUBSET Event /\ Chain(w) \in SUBSET Event
    BY <1>1, PlanFields DEF TypeOK
  <2>3. StoreFits(events')
    BY <1>1, <2>1, <2>2, LandingFits DEF OffsetTaken
  <2>4. holder' \in [Keys -> Writers \cup {None}]
    <3>1. CASE Keyed(w)
      BY <1>1, <1>3, <3>1 DEF Land, TypeOK
    <3>2. CASE ~Keyed(w)
      BY <1>1, <1>3, <3>2 DEF Land, TypeOK
    <3> QED
      BY <3>1, <3>2
  <2>5. receipts' \in SUBSET [writer : Writers, phase : Phases, refs : References]
    <3>1. [writer |-> w, phase |-> plan[w].phase, refs |-> ReceiptStreamReferences(w)]
            \in [writer : Writers, phase : Phases, refs : References]
      BY <1>1, PlanFields, ReferencesAreTyped
    <3>2. \A r \in receipts' \ receipts :
            r = [writer |-> w, phase |-> plan[w].phase, refs |-> ReceiptStreamReferences(w)]
      BY <1>3 DEF Land
    <3> QED
      BY <1>1, <3>1, <3>2 DEF TypeOK
  <2>6. observed' \in [Writers -> Watermark \cup {None}]
    BY <1>1, <2>1, PlanFields DEF TypeOK
  <2>7. DecisionsHold'
    <3> SUFFICES ASSUME NEW v \in Writers, observed'[v] # None
                 PROVE  \E e \in events' : /\ e.partition = observed'[v].partition
                                          /\ e.offset = observed'[v].offset
                                          /\ e.digest = observed'[v].digest
      BY DEF DecisionsHold, ObservedWatermarkHolds
    <3>1. observed'[v] = observed[v] \/ observed'[v] = plan[v].watermark
      BY <1>1, <2>1 DEF TypeOK
    <3>2. ObservedWatermarkHolds(observed'[v])
      BY <1>1, <3>1 DEF WatermarksHold
    <3> QED
      BY <2>1, <3>2, WatermarksGrow
  <2> QED
    BY <2>1, <2>2, <2>3, <2>4, <2>5, <2>6, <2>7 DEF StoreTypes
<1> QED
  BY <1>2, <1>3

(***************************************************************************)
(* What a step does to the plans                                            *)
(***************************************************************************)
PlansFit ==
  /\ plan \in [Writers -> Plan]
  /\ \A v \in Writers :
       /\ ChainFits(Chain(v), plan[v].tails, events)
       /\ plan[v].watermark # None => ObservedWatermarkHolds(plan[v].watermark)

\* Plans that do not change fit the store that grew.
LEMMA PlansStand ==
  ASSUME StreamInvariant, events \subseteq events', plan' = plan
  PROVE  PlansFit'
<1>1. plan' \in [Writers -> Plan]
  BY DEF StreamInvariant, TypeOK
<1>2. ASSUME NEW v \in Writers
      PROVE  /\ ChainFits(Chain(v)', plan'[v].tails, events')
             /\ plan'[v].watermark # None => ObservedWatermarkHolds(plan[v].watermark)'
  <2>1. Chain(v)' = Chain(v)
    BY DEF Chain
  <2>2. ChainFits(Chain(v), plan[v].tails, events')
    BY StoreGrows DEF StreamInvariant
  <2>3. plan[v].watermark # None => ObservedWatermarkHolds(plan[v].watermark)
    BY DEF StreamInvariant, WatermarksHold
  <2> QED
    BY <2>1, <2>2, <2>3 DEF ObservedWatermarkHolds
<1> QED
  BY <1>1, <1>2 DEF PlansFit

\* One writer's plan is replaced by one that fits.
LEMMA PlanReplaced ==
  ASSUME StreamInvariant, events \subseteq events', NEW w \in Writers, NEW q \in Plan,
         plan' = [plan EXCEPT ![w] = q],
         ChainFits({q.chain[i] : i \in DOMAIN q.chain}, q.tails, events'),
         q.watermark # None => ObservedWatermarkHolds(q.watermark)
  PROVE  PlansFit'
<1>1. plan' \in [Writers -> Plan]
  BY DEF StreamInvariant, TypeOK
<1>2. plan'[w] = q /\ \A v \in Writers : v # w => plan'[v] = plan[v]
  BY DEF StreamInvariant, TypeOK
<1>3. ASSUME NEW v \in Writers
      PROVE  /\ ChainFits(Chain(v)', plan'[v].tails, events')
             /\ plan'[v].watermark # None => ObservedWatermarkHolds(plan[v].watermark)'
  <2>1. CASE v = w
    <3>1. Chain(v)' = {q.chain[i] : i \in DOMAIN q.chain}
      BY <1>2, <2>1 DEF Chain
    <3>2. plan'[v].watermark # None => ObservedWatermarkHolds(plan[v].watermark)'
      BY <1>2, <2>1 DEF ObservedWatermarkHolds
    <3> QED
      BY <1>2, <2>1, <3>1, <3>2
  <2>2. CASE v # w
    <3>1. Chain(v)' = Chain(v)
      BY <1>2, <2>2 DEF Chain
    <3>2. ChainFits(Chain(v), plan[v].tails, events')
      BY StoreGrows DEF StreamInvariant
    <3>3. plan[v].watermark # None => ObservedWatermarkHolds(plan[v].watermark)
      BY DEF StreamInvariant, WatermarksHold
    <3> QED
      BY <1>2, <2>2, <3>1, <3>2, <3>3 DEF ObservedWatermarkHolds
  <2> QED
    BY <2>1, <2>2
<1> QED
  BY <1>1, <1>3 DEF PlansFit

\* A writer starts over, in either phase.
LEMMA PlanRestarted ==
  ASSUME StreamInvariant, events \subseteq events', NEW w \in Writers,
         NEW phase \in Phases, NEW attempt \in Attempts, NEW mark \in Watermark \cup {None},
         mark # None => ObservedWatermarkHolds(mark),
         plan' = [plan EXCEPT ![w] = Fresh(phase, attempt, mark)]
  PROVE  PlansFit'
<1> DEFINE q == Fresh(phase, attempt, mark)
<1>1. q \in Plan /\ q.chain = <<>> /\ q.tails = NoTails /\ q.watermark = mark
  BY FreshPlan
<1>2. {q.chain[i] : i \in DOMAIN q.chain} = {}
  BY <1>1
<1>3. ChainFits({q.chain[i] : i \in DOMAIN q.chain}, q.tails, events')
  BY <1>1, <1>2, EmptyChainFits
<1> HIDE DEF q
<1> QED
  BY <1>1, <1>3, PlanReplaced DEF q

\* The invariant, put together after a step.
LEMMA Assembled ==
  ASSUME StoreTypes', StoreFits(events'), DecisionsHold', PlansFit', InRoute',
         pc' \in [Writers -> {"idle", "build", "commit", "done"}], told' \in [Writers -> Answers]
  PROVE  StreamInvariant'
<1>1. TypeOK'
  BY DEF StoreTypes, PlansFit, TypeOK
<1>2. WatermarksHold'
  BY DEF DecisionsHold, PlansFit, WatermarksHold
<1> QED
  BY <1>1, <1>2 DEF StreamInvariant, PlansFit

(***************************************************************************)
(* Every step preserves the invariant                                       *)
(***************************************************************************)
\* A step that leaves the streams and the plans alone and ends or continues
\* one writer.
LEMMA QuietStep ==
  ASSUME StreamInvariant, NEW w \in Writers,
         UNCHANGED <<storeVars, plan>>,
         \/ pc' = [pc EXCEPT ![w] = "done"] /\ \E answer \in Answers : told' = [told EXCEPT ![w] = answer]
         \/ pc[w] = "idle" /\ pc' = [pc EXCEPT ![w] = "build"] /\ told' = told
  PROVE  StreamInvariant'
<1>1. TypeOK /\ InRoute
  BY DEF StreamInvariant
<1>2. StoreTypes' /\ StoreFits(events') /\ DecisionsHold' /\ events \subseteq events'
  BY StoreStep
<1>3. PlansFit'
  BY <1>2, PlansStand
<1>4. pc' \in [Writers -> {"idle", "build", "commit", "done"}] /\ told' \in [Writers -> Answers]
  BY <1>1 DEF TypeOK
<1>5. InRoute'
  <2> SUFFICES ASSUME NEW v \in Writers
               PROVE  /\ Route(v)' # <<>>
                      /\ pc'[v] = "idle" => plan'[v].chain = <<>>
                      /\ pc'[v] = "build" => Len(plan'[v].chain) < Len(Route(v)')
    BY DEF InRoute
  <2>1. Route(v)' = Route(v) /\ Route(v) # <<>> /\ Route(v) \in Seq(Partitions)
    BY <1>1, RouteIsPath DEF InRoute, Route
  <2>2. Len(Route(v)) > 0 /\ Len(<<>>) = 0
    BY <2>1
  <2>3. pc'[v] = "idle" => plan'[v].chain = <<>>
    BY <1>1 DEF InRoute, TypeOK
  <2>4. pc'[v] = "build" => Len(plan'[v].chain) < Len(Route(v)')
    BY <1>1, <2>1, <2>2 DEF InRoute, TypeOK
  <2> QED
    BY <2>1, <2>3, <2>4
<1> QED
  BY <1>2, <1>3, <1>4, <1>5, Assembled

\* A step after which one writer builds a fresh chain.
LEMMA RestartStep ==
  ASSUME StreamInvariant, NEW w \in Writers,
         Land(w) \/ UNCHANGED storeVars,
         NEW phase \in Phases, NEW attempt \in Attempts, NEW mark \in Watermark \cup {None},
         mark # None => ObservedWatermarkHolds(mark),
         phase = "refusal" => RefusalBindings[w] # <<>>,
         plan' = [plan EXCEPT ![w] = Fresh(phase, attempt, mark)],
         pc' = [pc EXCEPT ![w] = "build"],
         told' = told
  PROVE  StreamInvariant'
<1>1. TypeOK /\ InRoute
  BY DEF StreamInvariant
<1>2. StoreTypes' /\ StoreFits(events') /\ DecisionsHold' /\ events \subseteq events'
  BY StoreStep
<1>3. PlansFit'
  BY <1>2, PlanRestarted
<1>4. pc' \in [Writers -> {"idle", "build", "commit", "done"}] /\ told' \in [Writers -> Answers]
  BY <1>1 DEF TypeOK
<1>5. InRoute'
  <2> SUFFICES ASSUME NEW v \in Writers
               PROVE  /\ Route(v)' # <<>>
                      /\ pc'[v] = "idle" => plan'[v].chain = <<>>
                      /\ pc'[v] = "build" => Len(plan'[v].chain) < Len(Route(v)')
    BY DEF InRoute
  <2>1. CASE v = w
    <3>1. plan'[v].phase = phase /\ plan'[v].chain = <<>> /\ pc'[v] = "build"
      BY <1>1, <2>1, FreshPlan DEF TypeOK
    <3>2. Route(v)' # <<>> /\ Route(v)' \in Seq(Partitions)
      BY <2>1, <3>1, StreamConstants DEF Route, Phases
    <3>3. Len(Route(v)') > 0 /\ Len(<<>>) = 0
      BY <3>2
    <3> QED
      BY <3>1, <3>2, <3>3
  <2>2. CASE v # w
    <3>1. plan'[v] = plan[v] /\ pc'[v] = pc[v] /\ Route(v)' = Route(v)
      BY <1>1, <2>2 DEF TypeOK, Route
    <3> QED
      BY <1>1, <3>1 DEF InRoute
  <2> QED
    BY <2>1, <2>2
<1> QED
  BY <1>2, <1>3, <1>4, <1>5, Assembled

\* A step that ends a writer, its commit landed or not.
LEMMA EndStep ==
  ASSUME StreamInvariant, NEW w \in Writers,
         Land(w) \/ UNCHANGED storeVars,
         plan' = plan, NEW answer \in Answers, Answer(w, answer)
  PROVE  StreamInvariant'
<1>1. TypeOK /\ InRoute
  BY DEF StreamInvariant
<1>2. StoreTypes' /\ StoreFits(events') /\ DecisionsHold' /\ events \subseteq events'
  BY StoreStep
<1>3. PlansFit'
  BY <1>2, PlansStand
<1>4. pc' \in [Writers -> {"idle", "build", "commit", "done"}] /\ told' \in [Writers -> Answers]
  BY <1>1 DEF TypeOK, Answer
<1>5. InRoute'
  BY <1>1 DEF InRoute, Route, Answer, TypeOK
<1> QED
  BY <1>2, <1>3, <1>4, <1>5, Assembled

LEMMA BuildEventStep ==
  ASSUME StreamInvariant, NEW w \in Writers, BuildEvent(w)
  PROVE  StreamInvariant'
<1> DEFINE step == Len(plan[w].chain) + 1
           p == Route(w)[step]
           x == EventAfter(w, p, TailFor(w, p))
           chain == Append(plan[w].chain, x)
           tails == [plan[w].tails EXCEPT ![p] = [offset |-> x.offset, digest |-> x.digest]]
           q == [plan[w] EXCEPT !.chain = chain, !.tails = tails]
<1>1. /\ TypeOK
      /\ InRoute
      /\ ChainFits(Chain(w), plan[w].tails, events)
      /\ plan[w].watermark # None => ObservedWatermarkHolds(plan[w].watermark)
  BY DEF StreamInvariant, WatermarksHold
<1>2. /\ pc[w] = "build"
      /\ plan' = [plan EXCEPT ![w] = q]
      /\ pc' = [pc EXCEPT ![w] = IF step = Len(Route(w)) THEN "commit" ELSE "build"]
      /\ UNCHANGED <<storeVars, told>>
  BY <1>1 DEF BuildEvent, TypeOK
<1>3. /\ Route(w) \in Seq(Partitions)
      /\ plan[w].chain \in Seq(Event)
      /\ plan[w] \in Plan
      /\ plan[w].tails \in References
      /\ Chain(w) \in SUBSET Event
      /\ events \in SUBSET Event
  BY <1>1, RouteIsPath, PlanFields DEF TypeOK
<1>4. step \in 1 .. Len(Route(w)) /\ p \in Partitions
  BY <1>1, <1>2, <1>3 DEF InRoute
<1>5. x \in Event /\ x.partition = p /\ FollowsTail(x, Chain(w), events)
  BY <1>4, NextEventFollows
<1> HIDE DEF x, p
<1>6. /\ chain \in Seq(Event)
      /\ Len(chain) = step
      /\ {chain[i] : i \in DOMAIN chain} = Chain(w) \cup {x}
  <2>1. chain \in Seq(Event) /\ Len(chain) = step /\ DOMAIN chain = 1 .. step
    BY <1>3, <1>5
  <2>2. chain[step] = x /\ \A i \in DOMAIN plan[w].chain : chain[i] = plan[w].chain[i]
    BY <1>3, <1>5
  <2>3. DOMAIN plan[w].chain = 1 .. (step - 1) /\ step \in Nat /\ step # 0
    BY <1>3
  <2>4. 1 .. step = DOMAIN plan[w].chain \cup {step}
    BY <2>3
  <2> HIDE DEF chain, step
  <2> QED
    BY <2>1, <2>2, <2>4 DEF Chain
<1>7. tails \in References
  <2>1. [offset |-> x.offset, digest |-> x.digest] \in Position
    BY <1>5 DEF Event, Position
  <2> QED
    BY <1>3, <2>1 DEF References
<1>8. q \in Plan /\ q.chain = chain /\ q.tails = tails /\ q.watermark = plan[w].watermark
      /\ q.phase = plan[w].phase
  BY <1>3, <1>6, <1>7 DEF Plan
<1>9. ChainFits(Chain(w) \cup {x}, tails, events)
  BY <1>1, <1>3, <1>5, ChainGrows
<1>10. StoreTypes' /\ StoreFits(events') /\ DecisionsHold' /\ events' = events
  BY <1>2, StoreStep DEF storeVars
<1> HIDE DEF q, chain, tails
<1>11. ChainFits({q.chain[i] : i \in DOMAIN q.chain}, q.tails, events')
  BY <1>6, <1>8, <1>9, <1>10
<1>12. PlansFit'
  BY <1>1, <1>2, <1>8, <1>10, <1>11, PlanReplaced
<1>13. pc' \in [Writers -> {"idle", "build", "commit", "done"}] /\ told' \in [Writers -> Answers]
  BY <1>1, <1>2 DEF TypeOK
<1>14. InRoute'
  <2> SUFFICES ASSUME NEW v \in Writers
               PROVE  /\ Route(v)' # <<>>
                      /\ pc'[v] = "idle" => plan'[v].chain = <<>>
                      /\ pc'[v] = "build" => Len(plan'[v].chain) < Len(Route(v)')
    BY DEF InRoute
  <2>1. CASE v = w
    <3>1. plan'[v] = q
      BY <1>1, <1>2, <2>1 DEF TypeOK
    <3>2. Route(v)' = Route(v) /\ Route(v) # <<>>
      BY <1>1, <1>8, <2>1, <3>1 DEF Route, InRoute
    <3>3. pc'[v] # "idle" /\ (pc'[v] = "build" => step # Len(Route(w)))
      BY <1>1, <1>2, <2>1 DEF TypeOK
    <3>4. Len(Route(w)) \in Nat
      BY <1>3
    <3> QED
      BY <1>4, <1>6, <1>8, <2>1, <3>1, <3>2, <3>3, <3>4
  <2>2. CASE v # w
    <3>1. plan'[v] = plan[v] /\ pc'[v] = pc[v] /\ Route(v)' = Route(v)
      BY <1>1, <1>2, <2>2 DEF TypeOK, Route
    <3> QED
      BY <1>1, <3>1 DEF InRoute
  <2> QED
    BY <2>1, <2>2
<1> QED
  BY <1>10, <1>12, <1>13, <1>14, Assembled

LEMMA AssertObservedWatermarkStep ==
  ASSUME StreamInvariant, NEW w \in Writers, NEW mark \in Watermarks,
         AssertObservedWatermark(w, mark)
  PROVE  StreamInvariant'
<1>1. /\ TypeOK
      /\ InRoute
      /\ ChainFits(Chain(w), plan[w].tails, events)
      /\ pc[w] = "idle"
      /\ UNCHANGED storeVars
  BY DEF StreamInvariant, AssertObservedWatermark
<1>2. CASE Answer(w, "watermark_refused") /\ UNCHANGED plan
  BY <1>1, <1>2, EndStep DEF Answers
<1>3. CASE /\ ObservedWatermarkHolds(mark)
           /\ plan' = [plan EXCEPT ![w].watermark = mark]
           /\ pc' = [pc EXCEPT ![w] = "build"]
           /\ UNCHANGED told
  <2> DEFINE q == [plan[w] EXCEPT !.watermark = mark]
  <2>1. StoreTypes' /\ StoreFits(events') /\ DecisionsHold' /\ events \subseteq events' /\ events' = events
    BY <1>1, StoreStep DEF storeVars
  <2>2. mark \in Watermark
    <3>1. \A v \in Writers : Chain(v) \in SUBSET Event
      BY <1>1, PlanFields
    <3>2. \A e \in events \cup UNION {Chain(v) : v \in Writers} : e \in Event
      BY <1>1, <3>1 DEF TypeOK
    <3> QED
      BY <3>2 DEF Watermarks, Watermark, Event
  <2>3. /\ q \in Plan
        /\ q.chain = plan[w].chain
        /\ q.tails = plan[w].tails
        /\ q.phase = plan[w].phase
        /\ q.watermark = mark
    BY <1>1, <2>2, PlanFields DEF Plan
  <2>4. plan' = [plan EXCEPT ![w] = q]
    BY <1>1, <1>3 DEF TypeOK
  <2> HIDE DEF q
  <2>5. ChainFits({q.chain[i] : i \in DOMAIN q.chain}, q.tails, events')
    BY <1>1, <2>1, <2>3 DEF Chain
  <2>6. PlansFit'
    BY <1>3, <2>1, <2>3, <2>4, <2>5, PlanReplaced
  <2>7. pc' \in [Writers -> {"idle", "build", "commit", "done"}] /\ told' \in [Writers -> Answers]
    BY <1>1, <1>3 DEF TypeOK
  <2>8. InRoute'
    <3> SUFFICES ASSUME NEW v \in Writers
                 PROVE  /\ Route(v)' # <<>>
                        /\ pc'[v] = "idle" => plan'[v].chain = <<>>
                        /\ pc'[v] = "build" => Len(plan'[v].chain) < Len(Route(v)')
      BY DEF InRoute
    <3>1. CASE v = w
      <4>1. plan'[v] = q /\ pc'[v] = "build"
        BY <1>1, <1>3, <2>4, <3>1 DEF TypeOK
      <4>2. Route(v)' = Route(v) /\ Route(v) # <<>> /\ Route(v) \in Seq(Partitions)
        BY <1>1, <2>3, <4>1, <3>1, RouteIsPath DEF Route, InRoute
      <4>3. Len(Route(v)) > 0 /\ Len(<<>>) = 0
        BY <4>2
      <4>4. plan'[v].chain = <<>>
        BY <1>1, <2>3, <4>1, <3>1 DEF InRoute
      <4> QED
        BY <4>1, <4>2, <4>3, <4>4
    <3>2. CASE v # w
      <4>1. plan'[v] = plan[v] /\ pc'[v] = pc[v] /\ Route(v)' = Route(v)
        BY <1>1, <1>3, <2>4, <3>2 DEF TypeOK, Route
      <4> QED
        BY <1>1, <4>1 DEF InRoute
    <3> QED
      BY <3>1, <3>2
  <2> QED
    BY <2>1, <2>6, <2>7, <2>8, Assembled
<1> QED
  BY <1>2, <1>3 DEF AssertObservedWatermark

\* A writer that rebuilds: in the refusal phase, or in its phase once more.
LEMMA RebuildStep ==
  ASSUME StreamInvariant, NEW w \in Writers, NEW phase \in Phases, NEW attempt \in Attempts,
         phase = "refusal" => RefusalBindings[w] # <<>>,
         Rebuild(w, phase, attempt)
  PROVE  StreamInvariant'
<1>1. plan[w].watermark \in Watermark \cup {None}
  BY PlanFields DEF StreamInvariant
<1>2. plan[w].watermark # None => ObservedWatermarkHolds(plan[w].watermark)
  BY DEF StreamInvariant, WatermarksHold
<1> QED
  BY <1>1, <1>2, RestartStep DEF Rebuild

LEMMA WriterStepPreserves ==
  ASSUME StreamInvariant, NEW w \in Writers, WriterStep(w)
  PROVE  StreamInvariant'
<1>1. /\ "refusal" \in Phases
      /\ 0 \in Attempts
      /\ plan[w].phase \in Phases
      /\ plan[w].attempt \in Attempts
      /\ plan[w].phase = "refusal" => RefusalBindings[w] # <<>>
  BY StreamConstants, PlanFields DEF StreamInvariant, InRoute, Route, Phases, Attempts
<1>2. CASE BuildEvent(w)
  BY <1>2, BuildEventStep
<1>3. CASE Commit(w)
  BY <1>3, EndStep DEF Commit, Answers
<1>4. CASE KeyConflict(w)
  BY <1>1, <1>4, RebuildStep, EndStep DEF KeyConflict, Answers
<1>5. CASE StreamConflict(w)
  <2>1. CASE plan[w].attempt < MaxRetries
    <3>1. plan[w].attempt + 1 \in Attempts
      BY <1>1, <2>1, StreamConstants DEF Attempts
    <3> QED
      BY <1>1, <1>5, <2>1, <3>1, RebuildStep DEF StreamConflict
  <2>2. CASE ~(plan[w].attempt < MaxRetries)
    BY <1>5, <2>2, EndStep DEF StreamConflict, Answers
  <2> QED
    BY <2>1, <2>2
<1>6. CASE CommitUnknown(w)
  <2>1. CASE w \in GatewayWriters /\ Keyed(w) /\ holder'[KeyOf[w]] # None
    <3>1. RefusalBindings[w] # <<>>
      BY <2>1, StreamConstants
    <3> QED
      BY <1>1, <1>6, <2>1, <3>1, RestartStep DEF CommitUnknown
  <2>2. CASE ~(w \in GatewayWriters /\ Keyed(w) /\ holder'[KeyOf[w]] # None)
    BY <1>6, <2>2, EndStep DEF CommitUnknown, Answers
  <2> QED
    BY <2>1, <2>2
<1> QED
  BY <1>2, <1>3, <1>4, <1>5, <1>6 DEF WriterStep

LEMMA NextPreserves == StreamInvariant /\ [Next]_vars => StreamInvariant'
<1> SUFFICES ASSUME StreamInvariant, [Next]_vars
             PROVE  StreamInvariant'
  OBVIOUS
<1>1. ASSUME NEW w \in Writers, Begin(w)
      PROVE  StreamInvariant'
  BY <1>1, QuietStep DEF Begin
<1>2. ASSUME NEW w \in Writers, NEW mark \in Watermarks, AssertObservedWatermark(w, mark)
      PROVE  StreamInvariant'
  BY <1>2, AssertObservedWatermarkStep
<1>3. ASSUME NEW w \in Writers, WriterStep(w)
      PROVE  StreamInvariant'
  BY <1>3, WriterStepPreserves
<1>4. CASE UNCHANGED vars
  BY <1>4 DEF vars, storeVars, StreamInvariant, TypeOK, InRoute, Route, WatermarksHold,
              ObservedWatermarkHolds, Chain
<1> QED
  BY <1>1, <1>2, <1>3, <1>4 DEF Next

(***************************************************************************)
(* The four things a step can do to a writer                                *)
(***************************************************************************)
\* It starts, its chain still empty.
Starts(w) ==
  /\ pc[w] = "idle" /\ pc'[w] = "build"
  /\ plan'[w].phase = plan[w].phase
  /\ plan'[w].attempt = plan[w].attempt
  /\ plan'[w].chain = plan[w].chain
  /\ UNCHANGED <<events, receipts>>

\* It builds one more event of its chain.
Extends(w) ==
  /\ pc[w] = "build" /\ pc'[w] # "done"
  /\ plan'[w].phase = plan[w].phase
  /\ plan'[w].attempt = plan[w].attempt
  /\ \E p \in Partitions :
       plan'[w].chain = Append(plan[w].chain, EventAfter(w, p, TailFor(w, p)))
  /\ UNCHANGED <<events, receipts>>

\* The store after its commit: all of it is there, and was not before.
Appends(w) ==
  /\ pc[w] = "commit"
  /\ ~OffsetTaken(w)
  /\ events' = events \cup Chain(w)
  /\ receipts' = receipts \cup
       {[writer |-> w, phase |-> plan[w].phase, refs |-> ReceiptStreamReferences(w)] :
          x \in {w} \cap GatewayWriters}

\* It starts over: for the refusal, whether its main commit landed or not, or
\* for another attempt, because an offset was taken.
Restarts(w) ==
  /\ pc[w] # "done" /\ pc'[w] = "build"
  /\ plan'[w].chain = <<>>
  /\ \/ /\ plan[w].phase = "main" /\ plan'[w].phase = "refusal"
        /\ plan'[w].attempt = 0
        /\ Appends(w) \/ UNCHANGED <<events, receipts>>
     \/ /\ OffsetTaken(w)
        /\ plan'[w].phase = plan[w].phase
        /\ plan'[w].attempt = plan[w].attempt + 1
        /\ UNCHANGED <<events, receipts>>

\* It answers.
Ends(w) ==
  /\ pc[w] # "done" /\ pc'[w] = "done"
  /\ plan'[w] = plan[w]
  /\ Appends(w) \/ UNCHANGED <<events, receipts>>
  /\ told'[w] = "stream_append_conflict" =>
       OffsetTaken(w) /\ plan[w].attempt >= MaxRetries /\ UNCHANGED <<events, receipts>>

OthersStand(w) ==
  \A v \in Writers : v # w => plan'[v] = plan[v] /\ pc'[v] = pc[v] /\ told'[v] = told[v]

StepOf(w) ==
  /\ OthersStand(w)
  /\ Starts(w) \/ Extends(w) \/ Restarts(w) \/ Ends(w)
  /\ told'[w] = told[w] \/ Ends(w)

LEMMA LandAppends ==
  ASSUME NEW w, pc[w] = "commit", Land(w) \/ UNCHANGED storeVars
  PROVE  Appends(w) \/ UNCHANGED <<events, receipts>>
BY DEF Land, Appends, storeVars

LEMMA AnswerEnds ==
  ASSUME TypeOK, NEW w \in Writers, NEW answer, Answer(w, answer), pc[w] # "done", plan' = plan,
         Appends(w) \/ UNCHANGED <<events, receipts>>,
         answer = "stream_append_conflict" =>
           OffsetTaken(w) /\ plan[w].attempt >= MaxRetries /\ UNCHANGED <<events, receipts>>
  PROVE  StepOf(w)
BY DEF TypeOK, Answer, StepOf, OthersStand, Ends

LEMMA FreshRestarts ==
  ASSUME TypeOK, NEW w \in Writers, NEW phase \in Phases, NEW attempt \in Attempts,
         NEW mark \in Watermark \cup {None},
         plan' = [plan EXCEPT ![w] = Fresh(phase, attempt, mark)],
         pc' = [pc EXCEPT ![w] = "build"], told' = told, pc[w] # "done",
         \/ /\ plan[w].phase = "main" /\ phase = "refusal" /\ attempt = 0
            /\ Appends(w) \/ UNCHANGED <<events, receipts>>
         \/ /\ OffsetTaken(w) /\ phase = plan[w].phase /\ attempt = plan[w].attempt + 1
            /\ UNCHANGED <<events, receipts>>
  PROVE  StepOf(w)
<1>1. plan'[w] = Fresh(phase, attempt, mark) /\ pc'[w] = "build" /\ OthersStand(w)
  BY DEF TypeOK, OthersStand
<1>2. plan'[w].phase = phase /\ plan'[w].attempt = attempt /\ plan'[w].chain = <<>>
  BY <1>1 DEF Fresh
<1>3. Restarts(w)
  BY <1>1, <1>2 DEF Restarts
<1> QED
  BY <1>1, <1>3 DEF StepOf

\* Every step of a started writer is one of the four.
LEMMA WriterStepShapes ==
  ASSUME StreamInvariant, NEW w \in Writers, WriterStep(w)
  PROVE  StepOf(w)
<1>1. TypeOK /\ InRoute
  BY DEF StreamInvariant
<1>2. /\ plan[w] \in Plan
      /\ plan[w].attempt \in Attempts
      /\ plan[w].phase \in Phases
      /\ plan[w].watermark \in Watermark \cup {None}
  BY <1>1, PlanFields
<1>3. MaxRetries \in Nat /\ 0 \in Attempts /\ "refusal" \in Phases /\ "main" \in Phases
  BY StreamConstants DEF Attempts, Phases
<1>4. CASE BuildEvent(w)
  <2> DEFINE step == Len(plan[w].chain) + 1
             p == Route(w)[step]
             x == EventAfter(w, p, TailFor(w, p))
  <2>1. /\ pc[w] = "build"
        /\ plan' = [plan EXCEPT
             ![w].chain = Append(@, x),
             ![w].tails = [@ EXCEPT ![p] = [offset |-> x.offset, digest |-> x.digest]]]
        /\ pc' = [pc EXCEPT ![w] = IF step = Len(Route(w)) THEN "commit" ELSE "build"]
        /\ UNCHANGED <<storeVars, told>>
    BY <1>4 DEF BuildEvent
  <2>2. p \in Partitions
    <3>1. Route(w) \in Seq(Partitions) /\ plan[w].chain \in Seq(Event)
      BY <1>1, RouteIsPath, PlanFields
    <3>2. step \in 1 .. Len(Route(w))
      BY <1>1, <2>1, <3>1 DEF InRoute
    <3> QED
      BY <3>1, <3>2
  <2> HIDE DEF p, x
  <2>3. /\ plan'[w].phase = plan[w].phase
        /\ plan'[w].attempt = plan[w].attempt
        /\ plan'[w].chain = Append(plan[w].chain, x)
        /\ OthersStand(w)
        /\ pc'[w] # "done"
    BY <1>1, <1>2, <2>1 DEF TypeOK, Plan, OthersStand
  <2>4. Extends(w)
    BY <2>1, <2>2, <2>3 DEF Extends, x, storeVars
  <2> QED
    BY <2>1, <2>3, <2>4 DEF StepOf
<1>5. CASE Commit(w)
  BY <1>1, <1>5, LandAppends, AnswerEnds DEF Commit
<1>6. CASE KeyConflict(w)
  <2>1. pc[w] = "commit" /\ plan[w].phase = "main"
    BY <1>6 DEF KeyConflict, KeyTaken, Keyed
  <2>2. CASE Rebuild(w, "refusal", 0)
    BY <1>1, <1>2, <1>3, <2>1, <2>2, FreshRestarts DEF Rebuild, storeVars
  <2>3. CASE Answer(w, "key_conflict") /\ UNCHANGED <<storeVars, plan>>
    BY <1>1, <2>1, <2>3, AnswerEnds DEF storeVars
  <2> QED
    BY <1>6, <2>2, <2>3 DEF KeyConflict
<1>7. CASE StreamConflict(w)
  <2>1. pc[w] = "commit" /\ OffsetTaken(w)
    BY <1>7 DEF StreamConflict
  <2>2. CASE plan[w].attempt < MaxRetries /\ Rebuild(w, plan[w].phase, plan[w].attempt + 1)
    <3>1. plan[w].attempt + 1 \in Attempts
      BY <1>2, <1>3, <2>2 DEF Attempts
    <3> QED
      BY <1>1, <1>2, <2>1, <2>2, <3>1, FreshRestarts DEF Rebuild, storeVars
  <2>3. CASE /\ ~(plan[w].attempt < MaxRetries)
             /\ Answer(w, "stream_append_conflict") /\ UNCHANGED <<storeVars, plan>>
    <3>1. plan[w].attempt >= MaxRetries
      BY <1>2, <1>3, <2>3 DEF Attempts
    <3> QED
      BY <1>1, <2>1, <2>3, <3>1, AnswerEnds DEF storeVars
  <2> QED
    BY <1>7, <2>2, <2>3 DEF StreamConflict
<1>8. CASE CommitUnknown(w)
  <2>1. pc[w] = "commit" /\ (Appends(w) \/ UNCHANGED <<events, receipts>>)
    BY <1>8, LandAppends DEF CommitUnknown
  <2>2. CASE /\ Keyed(w)
             /\ plan' = [plan EXCEPT ![w] = Fresh("refusal", 0, None)]
             /\ pc' = [pc EXCEPT ![w] = "build"]
             /\ UNCHANGED told
    BY <1>1, <1>3, <2>1, <2>2, FreshRestarts DEF Keyed
  <2>3. CASE Answer(w, "failed") /\ UNCHANGED plan
    BY <1>1, <2>1, <2>3, AnswerEnds
  <2> QED
    BY <1>8, <2>2, <2>3 DEF CommitUnknown
<1> QED
  BY <1>4, <1>5, <1>6, <1>7, <1>8 DEF WriterStep

\* Every step of the streams is one of the four, of one writer.
LEMMA StepShapes ==
  ASSUME StreamInvariant, Next
  PROVE  \E w \in Writers : StepOf(w)
<1>1. TypeOK /\ InRoute
  BY DEF StreamInvariant
<1>2. \A w \in Writers : /\ plan[w] \in Plan
  BY <1>1, PlanFields
<1>3. ASSUME NEW w \in Writers, Begin(w)
      PROVE  StepOf(w)
  BY <1>1, <1>3 DEF Begin, StepOf, OthersStand, Starts, TypeOK, storeVars
<1>4. ASSUME NEW w \in Writers, NEW mark \in Watermarks, AssertObservedWatermark(w, mark)
      PROVE  StepOf(w)
  <2>1. pc[w] = "idle" /\ UNCHANGED <<events, receipts>>
    BY <1>4 DEF AssertObservedWatermark, storeVars
  <2>2. CASE Answer(w, "watermark_refused") /\ plan' = plan
    BY <1>1, <2>1, <2>2, AnswerEnds
  <2>3. CASE plan' = [plan EXCEPT ![w].watermark = mark] /\ pc' = [pc EXCEPT ![w] = "build"]
             /\ told' = told
    <3>1. plan'[w] = [plan[w] EXCEPT !.watermark = mark] /\ OthersStand(w) /\ pc'[w] = "build"
      BY <1>1, <2>3 DEF TypeOK, OthersStand
    <3>2. /\ plan'[w].phase = plan[w].phase
          /\ plan'[w].attempt = plan[w].attempt
          /\ plan'[w].chain = plan[w].chain
      BY <1>2, <3>1 DEF Plan
    <3> QED
      BY <2>1, <2>3, <3>1, <3>2 DEF StepOf, Starts
  <2> QED
    BY <1>4, <2>2, <2>3 DEF AssertObservedWatermark
<1>5. ASSUME NEW w \in Writers, WriterStep(w)
      PROVE  StepOf(w)
  BY <1>5, WriterStepShapes
<1> QED
  BY <1>3, <1>4, <1>5 DEF Next

(***************************************************************************)
(* A commit lands at most once, and whole                                   *)
(***************************************************************************)
\* The chain of a writer in each of the four cases.
LEMMA ChainAfter ==
  ASSUME StreamInvariant, NEW w \in Writers
  PROVE  /\ plan'[w].chain = plan[w].chain => Chain(w)' = Chain(w)
         /\ plan'[w].chain = <<>> => Chain(w)' = {}
         /\ \A x \in Event : plan'[w].chain = Append(plan[w].chain, x) => Chain(w)' = Chain(w) \cup {x}
<1>1. plan[w].chain \in Seq(Event)
  BY PlanFields DEF StreamInvariant
<1>2. ASSUME NEW x \in Event, plan'[w].chain = Append(plan[w].chain, x)
      PROVE  Chain(w)' = Chain(w) \cup {x}
  <2> DEFINE chain == Append(plan[w].chain, x)
             n == Len(plan[w].chain)
  <2>1. DOMAIN chain = 1 .. n + 1 /\ DOMAIN plan[w].chain = 1 .. n /\ n \in Nat
    BY <1>1
  <2>2. chain[n + 1] = x /\ \A i \in 1 .. n : chain[i] = plan[w].chain[i]
    BY <1>1
  <2>3. 1 .. n + 1 = (1 .. n) \cup {n + 1}
    BY <2>1
  <2> HIDE DEF chain, n
  <2>4. {chain[i] : i \in DOMAIN chain} = {plan[w].chain[i] : i \in DOMAIN plan[w].chain} \cup {x}
    BY <2>1, <2>2, <2>3
  <2> QED
    BY <1>2, <2>4 DEF Chain, chain
<1>3. plan'[w].chain = plan[w].chain => Chain(w)' = Chain(w)
  BY DEF Chain
<1>4. plan'[w].chain = <<>> => Chain(w)' = {}
  BY DEF Chain
<1> QED
  BY <1>2, <1>3, <1>4

\* The event an extending writer adds is of its commit.
LEMMA EventAdded ==
  ASSUME StreamInvariant, NEW w \in Writers, Extends(w)
  PROVE  \E p \in Partitions : \E x \in Event :
           /\ x = EventAfter(w, p, TailFor(w, p))
           /\ x.partition = p
           /\ CommitOf(x) = <<w, plan[w].phase>>
           /\ Chain(w)' = Chain(w) \cup {x}
<1>1. PICK p \in Partitions : plan'[w].chain = Append(plan[w].chain, EventAfter(w, p, TailFor(w, p)))
  BY DEF Extends
<1> DEFINE x == EventAfter(w, p, TailFor(w, p))
<1>2. x \in Event /\ x.partition = p
  BY NextEventFollows
<1>3. CommitOf(x) = <<w, plan[w].phase>>
  BY DEF EventAfter, CommitOf
<1> HIDE DEF x
<1>4. Chain(w)' = Chain(w) \cup {x}
  BY <1>1, <1>2, ChainAfter DEF x
<1> QED
  BY <1>2, <1>3, <1>4 DEF x

\* Nothing is stored yet of the commit a writer is at.
LEMMA NothingStoredYet ==
  ASSUME CommitsLandOnce, NEW w \in Writers, pc[w] # "done"
  PROVE  /\ \A e \in events : CommitOf(e) # <<w, plan[w].phase>>
         /\ \A r \in receipts : ~(r.writer = w /\ r.phase = plan[w].phase)
BY DEF CommitsLandOnce, Closed, CommitOf

LEMMA ClosedStays ==
  ASSUME NEW w \in Writers, StepOf(w), NEW v \in Writers, NEW phase, Closed(v, phase)
  PROVE  Closed(v, phase)'
BY DEF StepOf, OthersStand, Starts, Extends, Restarts, Ends, Closed

LEMMA LandOnceStep ==
  ASSUME StreamInvariant, CommitsLandOnce, NEW w \in Writers, StepOf(w)
  PROVE  CommitsLandOnce'
<1>1. TypeOK
  BY DEF StreamInvariant
<1>2. ASSUME NEW v \in Writers
      PROVE  \A e \in Chain(v)' : CommitOf(e) = <<v, plan'[v].phase>>
  <2>1. CASE v # w
    <3>1. plan'[v] = plan[v] /\ Chain(v)' = Chain(v)
      BY <2>1, ChainAfter DEF StepOf, OthersStand
    <3> QED
      BY <3>1 DEF CommitsLandOnce
  <2>2. CASE v = w /\ (Starts(w) \/ Ends(w))
    <3>1. plan'[v].phase = plan[v].phase /\ Chain(v)' = Chain(v)
      BY <2>2, ChainAfter DEF Starts, Ends
    <3> QED
      BY <3>1 DEF CommitsLandOnce
  <2>3. CASE v = w /\ Restarts(w)
    <3>1. Chain(v)' = {}
      BY <2>3, ChainAfter DEF Restarts
    <3> QED
      BY <3>1
  <2>4. CASE v = w /\ Extends(w)
    <3>1. PICK x \in Event : /\ CommitOf(x) = <<w, plan[w].phase>>
                             /\ Chain(w)' = Chain(w) \cup {x}
      BY <2>4, EventAdded
    <3>2. plan'[w].phase = plan[w].phase
      BY <2>4 DEF Extends
    <3> QED
      BY <2>4, <3>1, <3>2 DEF CommitsLandOnce
  <2> QED
    BY <2>1, <2>2, <2>3, <2>4 DEF StepOf
<1>3. \/ Appends(w) /\ \A phase : phase = plan[w].phase => Closed(w, phase)'
      \/ UNCHANGED <<events, receipts>>
  BY DEF StepOf, Starts, Extends, Restarts, Ends, Closed
<1>4. ASSUME NEW e \in events'
      PROVE  Closed(e.digest.writer, e.digest.phase)'
  <2>1. CASE e \in events
    <3>1. e.digest.writer \in Writers
      BY <1>1, <2>1 DEF TypeOK, Event, Digest
    <3> QED
      BY <2>1, <3>1, ClosedStays DEF CommitsLandOnce
  <2>2. CASE e \notin events
    <3>1. e \in Chain(w) /\ \A phase : phase = plan[w].phase => Closed(w, phase)'
      BY <1>3, <2>2 DEF Appends
    <3>2. e.digest.writer = w /\ e.digest.phase = plan[w].phase
      BY <3>1 DEF CommitsLandOnce, CommitOf
    <3> QED
      BY <3>1, <3>2 DEF Closed
  <2> QED
    BY <2>1, <2>2
<1>5. ASSUME NEW r \in receipts'
      PROVE  Closed(r.writer, r.phase)'
  <2>1. CASE r \in receipts
    <3>1. r.writer \in Writers
      BY <1>1, <2>1 DEF TypeOK
    <3> QED
      BY <2>1, <3>1, ClosedStays DEF CommitsLandOnce
  <2>2. CASE r \notin receipts
    <3>1. /\ r.writer = w /\ r.phase = plan[w].phase
          /\ \A phase : phase = plan[w].phase => Closed(w, phase)'
      BY <1>3, <2>2 DEF Appends
    <3> QED
      BY <3>1 DEF Closed
  <2> QED
    BY <2>1, <2>2
<1>6. \A v \in Writers : \A e \in Chain(v)' : CommitOf(e)' = <<v, plan'[v].phase>>
  BY <1>2 DEF CommitOf
<1> QED
  BY <1>4, <1>5, <1>6 DEF CommitsLandOnce

(***************************************************************************)
(* Receipts                                                                 *)
(***************************************************************************)
\* What a receipt says of one event of its commit.
ReceiptHoldsFor(r, e, S) ==
  LET ref == r.refs[e.partition] IN
  /\ ref # None
  /\ e.offset <= ref.offset
  /\ \E f \in S : /\ f.partition = e.partition
                  /\ f.offset = ref.offset
                  /\ f.digest = ref.digest

\* The references of a receipt end at the last event of the chain in each
\* partition, wherever the writer's awaits put its events.
LEMMA ReferencesCover ==
  ASSUME StreamInvariant, NEW w \in Writers, NEW e \in Chain(w), NEW r,
         r.refs = ReceiptStreamReferences(w)
  PROVE  ReceiptHoldsFor(r, e, Chain(w))
<1> DEFINE p == e.partition
           last == CHOOSE x \in In(Chain(w), p) : Greatest(x, In(Chain(w), p))
<1>1. Chain(w) \in SUBSET Event /\ TailsFit(Chain(w), plan[w].tails)
  BY PlanFields DEF StreamInvariant, ChainFits
<1>2. p \in Partitions /\ e \in In(Chain(w), p)
  BY <1>1 DEF Event, In
<1>3. last \in In(Chain(w), p) /\ Greatest(last, In(Chain(w), p))
  BY <1>1, <1>2 DEF TailsFit
<1>4. ReceiptStreamReferences(w)[p] = [offset |-> last.offset, digest |-> last.digest]
  BY <1>2 DEF ReceiptStreamReferences, Greatest
<1> HIDE DEF last, p
<1>5. last \in Chain(w) /\ last.partition = p /\ last.offset \in Nat /\ last.digest \in Digest
  BY <1>1, <1>3 DEF In, Event
<1>6. r.refs[p] \in Position /\ r.refs[p].offset = last.offset /\ r.refs[p].digest = last.digest
  BY <1>4, <1>5 DEF Position
<1>7. e.offset <= last.offset
  BY <1>2, <1>3 DEF Greatest
<1>8. r.refs[p] # None
  BY <1>6, NoneIsNull
<1> QED
  BY <1>5, <1>6, <1>7, <1>8 DEF ReceiptHoldsFor, p

LEMMA ReceiptStep ==
  ASSUME StreamInvariant, CommitsLandOnce, ReceiptReferencesHold, NEW w \in Writers, StepOf(w)
  PROVE  ReceiptReferencesHold'
<1>1. (pc[w] # "done" /\ Appends(w)) \/ UNCHANGED <<events, receipts>>
  BY DEF StepOf, Starts, Extends, Restarts, Ends
<1>2. CASE UNCHANGED <<events, receipts>>
  BY <1>2 DEF ReceiptReferencesHold
<1>3. CASE pc[w] # "done" /\ Appends(w)
  <2>1. /\ \A e \in events : CommitOf(e) # <<w, plan[w].phase>>
        /\ \A r \in receipts : ~(r.writer = w /\ r.phase = plan[w].phase)
    BY <1>3, NothingStoredYet
  <2>2. \A e \in Chain(w) : e.digest.writer = w /\ e.digest.phase = plan[w].phase
    BY DEF CommitsLandOnce, CommitOf
  <2>3. events' = events \cup Chain(w)
    BY <1>3 DEF Appends
  <2> SUFFICES ASSUME NEW r \in receipts', NEW e \in events',
                      e.digest.writer = r.writer, e.digest.phase = r.phase
               PROVE  ReceiptHoldsFor(r, e, events')
    BY DEF ReceiptReferencesHold, ReceiptHoldsFor
  <2>4. CASE r \in receipts
    <3>1. e \in events
      BY <2>1, <2>2, <2>3, <2>4
    <3>2. ReceiptHoldsFor(r, e, events)
      BY <2>4, <3>1 DEF ReceiptReferencesHold, ReceiptHoldsFor
    <3> QED
      BY <2>3, <3>2 DEF ReceiptHoldsFor
  <2>5. CASE r \notin receipts
    <3>1. /\ r = [writer |-> w, phase |-> plan[w].phase, refs |-> ReceiptStreamReferences(w)]
      BY <1>3, <2>5 DEF Appends
    <3>2. r.writer = w /\ r.phase = plan[w].phase /\ r.refs = ReceiptStreamReferences(w)
      BY <3>1
    <3>3. e \in Chain(w)
      BY <2>1, <2>3, <3>2 DEF CommitOf
    <3>4. ReceiptHoldsFor(r, e, Chain(w))
      BY <3>2, <3>3, ReferencesCover
    <3> QED
      BY <2>3, <3>4 DEF ReceiptHoldsFor
  <2> QED
    BY <2>4, <2>5
<1> QED
  BY <1>1, <1>2, <1>3

(***************************************************************************)
(* Giving up                                                                *)
(***************************************************************************)
LEMMA ChainIsFinite ==
  ASSUME TypeOK, NEW w \in Writers
  PROVE  IsFiniteSet(Chain(w))
<1> DEFINE n == Len(plan[w].chain)
           f == [i \in 1 .. n |-> plan[w].chain[i]]
<1>1. n \in Nat /\ DOMAIN plan[w].chain = 1 .. n
  BY PlanFields
<1>2. f \in Surjection(1 .. n, Chain(w))
  BY <1>1 DEF Surjection, Chain
<1> HIDE DEF f, n
<1>3. IsFiniteSet(1 .. n)
  BY <1>1, FS_Interval
<1> QED
  BY <1>2, <1>3, FS_Surjection

\* Finitely many events are of finitely many commits, and more events are of no
\* fewer commits.
LEMMA CommitsAreFinite ==
  ASSUME NEW S, NEW T \in SUBSET S, NEW w, IsFiniteSet(S)
  PROVE  /\ IsFiniteSet(CommitsOfOthers(S, w))
         /\ Cardinality(CommitsOfOthers(S, w)) \in Nat
         /\ CommitsOfOthers(T, w) \subseteq CommitsOfOthers(S, w)
         /\ IsFiniteSet(CommitsOfOthers(T, w))
         /\ Cardinality(CommitsOfOthers(T, w)) \in Nat
         /\ Cardinality(CommitsOfOthers(T, w)) <= Cardinality(CommitsOfOthers(S, w))
<1> DEFINE f == [e \in S |-> CommitOf(e)]
<1>1. f \in Surjection(S, CommitsOf(S))
  BY DEF Surjection, CommitsOf
<1> HIDE DEF f
<1>2. IsFiniteSet(CommitsOf(S))
  BY <1>1, FS_Surjection
<1>3. CommitsOfOthers(S, w) \in SUBSET CommitsOf(S)
  BY DEF CommitsOfOthers
<1>4. IsFiniteSet(CommitsOfOthers(S, w))
  BY <1>2, <1>3, FS_Subset
<1>5. CommitsOfOthers(T, w) \in SUBSET CommitsOfOthers(S, w)
  BY DEF CommitsOfOthers, CommitsOf
<1>6. /\ IsFiniteSet(CommitsOfOthers(T, w))
      /\ Cardinality(CommitsOfOthers(T, w)) <= Cardinality(CommitsOfOthers(S, w))
  BY <1>4, <1>5, FS_Subset
<1> QED
  BY <1>4, <1>5, <1>6, FS_CardinalityType

\* The store stays finite.
LEMMA FiniteStep ==
  ASSUME StreamInvariant, IsFiniteSet(events), NEW w \in Writers, StepOf(w)
  PROVE  IsFiniteSet(events')
<1>1. events' = events \/ events' = events \cup Chain(w)
  BY DEF StepOf, Starts, Extends, Restarts, Ends, Appends
<1>2. IsFiniteSet(Chain(w))
  BY ChainIsFinite DEF StreamInvariant
<1> QED
  BY <1>1, <1>2, FS_Union

\* An attempt fails on an offset only when a commit of another writer landed
\* that was not there when the attempt began.
LEMMA AttemptLost ==
  ASSUME StreamInvariant, IsFiniteSet(events), NEW w \in Writers, OffsetTaken(w),
         NEW S \in SUBSET events, MetAtStart(w, S)
  PROVE  Cardinality(CommitsOfOthers(events, w)) >= plan[w].attempt + 1
<1>1. PICK e \in Chain(w), f \in events : SameSlot(e, f)
  BY DEF OffsetTaken
<1>2. e.offset \in Nat
  BY PlanFields DEF StreamInvariant, Event
<1>3. CommitOf(f) \notin CommitsOf(S)
  BY <1>1, <1>2 DEF MetAtStart, SameSlot
<1>4. CommitOf(f)[1] # w
  BY <1>3 DEF MetAtStart, CommitOf, CommitsOf
<1> DEFINE lost == CommitsOfOthers(S, w)
           all == CommitsOfOthers(events, w)
           new == CommitOf(f)
<1>5. new \in all /\ new \notin lost
  BY <1>3, <1>4 DEF CommitsOfOthers, CommitsOf
<1>6. /\ lost \subseteq all
      /\ IsFiniteSet(lost) /\ IsFiniteSet(all)
      /\ Cardinality(lost) \in Nat /\ Cardinality(all) \in Nat
  BY CommitsAreFinite
<1>7. plan[w].attempt \in Nat
  BY PlanFields, StreamConstants DEF StreamInvariant, Attempts
<1>8. Cardinality(lost) >= plan[w].attempt
  BY DEF MetAtStart
<1> HIDE DEF lost, all, new
<1>9. Cardinality(lost \cup {new}) = Cardinality(lost) + 1
  BY <1>5, <1>6, FS_AddElement
<1>10. lost \cup {new} \in SUBSET all
  BY <1>5, <1>6
<1>11. Cardinality(lost) + 1 <= Cardinality(all)
  BY <1>6, <1>9, <1>10, FS_Subset
<1> QED
  BY <1>6, <1>7, <1>8, <1>11 DEF all

\* The next event of a chain goes beyond all that is stored, or follows the
\* chain's own event in the partition.
LEMMA NextEventIsBeyond ==
  ASSUME StreamInvariant, NEW w \in Writers, NEW p \in Partitions,
         NEW f \in events, f.partition = p
  PROVE  \/ f.offset < EventAfter(w, p, TailFor(w, p)).offset
         \/ \E t \in Chain(w) : /\ t.partition = p
                                /\ EventAfter(w, p, TailFor(w, p)).offset = t.offset + 1
<1>1. /\ TypeOK
      /\ StoreFits(events)
      /\ TailsFit(Chain(w), plan[w].tails)
      /\ f.offset \in Nat
      /\ f \in In(events, p)
  BY DEF StreamInvariant, ChainFits, TypeOK, Event, In
<1>2. CASE plan[w].tails[p] # None
  <2>1. PICK t \in In(Chain(w), p) : plan[w].tails[p].offset = t.offset
    BY <1>1, <1>2 DEF TailsFit
  <2> QED
    BY <1>2, <2>1 DEF EventAfter, TailFor, In
<1>3. CASE plan[w].tails[p] = None
  <2>1. PICK t \in events : /\ t.partition = p
                            /\ Greatest(t, In(events, p))
                            /\ StreamTail(p) = [offset |-> t.offset, digest |-> t.digest]
                            /\ StreamTail(p) \in Position
    BY <1>1, StreamTailFound
  <2>2. TailFor(w, p) = StreamTail(p) /\ TailFor(w, p) # None
    BY <1>1, <1>3, <2>1, NoneIsNull DEF TailFor
  <2>3. EventAfter(w, p, TailFor(w, p)).offset = t.offset + 1
    BY <2>1, <2>2 DEF EventAfter
  <2>4. t.offset \in Nat /\ f.offset <= t.offset
    BY <1>1, <2>1 DEF Greatest, TypeOK, Event
  <2> QED
    BY <1>1, <2>3, <2>4
<1> QED
  BY <1>2, <1>3

\* The attempts of a writer while another one moves.
LEMMA AttemptsOfOthers ==
  ASSUME StreamInvariant, CommitsLandOnce, NEW w \in Writers, StepOf(w),
         NEW v \in Writers, v # w, NEW S \in SUBSET events, MetAtStart(v, S)
  PROVE  S \subseteq events' /\ MetAtStart(v, S)'
<1>1. plan'[v] = plan[v] /\ Chain(v)' = Chain(v)
  BY ChainAfter DEF StepOf, OthersStand
<1>2. \/ events' = events
      \/ events' = events \cup Chain(w) /\ pc[w] # "done"
  BY DEF StepOf, Starts, Extends, Restarts, Ends, Appends
<1>3. ASSUME NEW f \in events', f \notin events
      PROVE  f.digest.writer = w /\ CommitOf(f) \notin CommitsOf(S)
  <2>1. f \in Chain(w) /\ pc[w] # "done"
    BY <1>2, <1>3
  <2>2. CommitOf(f) = <<w, plan[w].phase>>
    BY <2>1 DEF CommitsLandOnce
  <2>3. \A e \in events : CommitOf(e) # <<w, plan[w].phase>>
    BY <2>1, NothingStoredYet
  <2> QED
    BY <2>2, <2>3 DEF CommitOf, CommitsOf
<1>4. \A e \in events' : e.digest.writer = v => e \in S
  BY <1>3 DEF MetAtStart
<1>5. \A e \in Chain(v), f \in events' :
        CommitOf(f) \in CommitsOf(S) /\ f.partition = e.partition => f.offset < e.offset
  BY <1>3 DEF MetAtStart
<1>6. S \subseteq events'
  BY <1>2
<1>7. CommitsOfOthers(S, v)' = CommitsOfOthers(S, v)
  BY DEF CommitsOfOthers, CommitsOf, CommitOf
<1>8. Cardinality(CommitsOfOthers(S, v)) >= plan'[v].attempt
  BY <1>1 DEF MetAtStart
<1> QED
  BY <1>1, <1>4, <1>5, <1>6, <1>8 DEF MetAtStart

\* The attempts of the writer that moves.
LEMMA AttemptsOfMover ==
  ASSUME StreamInvariant, IsFiniteSet(events), CommitsLandOnce, NEW w \in Writers, StepOf(w),
         pc'[w] # "done", NEW S \in SUBSET events, MetAtStart(w, S)
  PROVE  \E T \in SUBSET events' : MetAtStart(w, T)'
<1>1. CASE Starts(w)
  <2>1. Chain(w)' = Chain(w) /\ plan'[w].attempt = plan[w].attempt /\ events' = events
    BY <1>1, ChainAfter DEF Starts
  <2>2. MetAtStart(w, S)'
    BY <2>1 DEF MetAtStart
  <2> QED
    BY <2>1, <2>2
<1>2. CASE Extends(w)
  <2>1. PICK p \in Partitions : \E x \in Event :
           /\ x = EventAfter(w, p, TailFor(w, p))
           /\ x.partition = p
           /\ CommitOf(x) = <<w, plan[w].phase>>
           /\ Chain(w)' = Chain(w) \cup {x}
    BY <1>2, EventAdded
  <2>2. PICK x \in Event : /\ x = EventAfter(w, p, TailFor(w, p))
                           /\ x.partition = p
                           /\ Chain(w)' = Chain(w) \cup {x}
    BY <2>1
  <2>3. plan'[w].attempt = plan[w].attempt /\ events' = events
    BY <1>2 DEF Extends
  <2>4. ASSUME NEW f \in events, CommitOf(f) \in CommitsOf(S), f.partition = p
        PROVE  f.offset < x.offset
    <3>1. CASE f.offset < EventAfter(w, p, TailFor(w, p)).offset
      BY <2>2, <3>1
    <3>2. CASE \E t \in Chain(w) : /\ t.partition = p
                                   /\ EventAfter(w, p, TailFor(w, p)).offset = t.offset + 1
      <4>1. PICK t \in Chain(w) : t.partition = p /\ x.offset = t.offset + 1
        BY <2>2, <3>2
      <4>2. f.offset < t.offset
        BY <2>4, <4>1 DEF MetAtStart
      <4>3. f.offset \in Nat /\ t.offset \in Nat
        BY PlanFields DEF StreamInvariant, TypeOK, Event
      <4> QED
        BY <4>1, <4>2, <4>3
    <3> QED
      BY <2>4, <3>1, <3>2, NextEventIsBeyond
  <2>5. MetAtStart(w, S)'
    <3>1. \A e \in Chain(w)', f \in events' :
            CommitOf(f) \in CommitsOf(S) /\ f.partition = e.partition => f.offset < e.offset
      BY <2>2, <2>3, <2>4 DEF MetAtStart
    <3>2. /\ \A e \in events' : e.digest.writer = w => e \in S
          /\ Cardinality(CommitsOfOthers(S, w)) >= plan'[w].attempt
      BY <2>3 DEF MetAtStart
    <3> QED
      BY <3>1, <3>2 DEF MetAtStart
  <2> QED
    BY <2>3, <2>5
<1>3. CASE Restarts(w)
  <2>1. Chain(w)' = {}
    BY <1>3, ChainAfter DEF Restarts
  <2>2. Cardinality(CommitsOfOthers(events', w)) >= plan'[w].attempt
    <3>1. CASE plan'[w].attempt = 0
      <4>1. IsFiniteSet(events')
        BY FiniteStep
      <4>2. Cardinality(CommitsOfOthers(events', w)) \in Nat
        BY <4>1, CommitsAreFinite
      <4> QED
        BY <3>1, <4>2
    <3>2. CASE OffsetTaken(w) /\ plan'[w].attempt = plan[w].attempt + 1 /\ events' = events
      BY <3>2, AttemptLost
    <3> QED
      BY <1>3, <3>1, <3>2 DEF Restarts
  <2>3. MetAtStart(w, events)'
    BY <2>1, <2>2 DEF MetAtStart, CommitsOfOthers, CommitsOf, CommitOf
  <2> QED
    BY <2>3 DEF MetAtStart, CommitsOfOthers, CommitsOf, CommitOf
<1> QED
  BY <1>1, <1>2, <1>3 DEF StepOf, Ends

LEMMA AttemptsStep ==
  ASSUME StreamInvariant, IsFiniteSet(events), CommitsLandOnce, AttemptsLostToOthers,
         NEW w \in Writers, StepOf(w)
  PROVE  AttemptsLostToOthers'
<1> SUFFICES ASSUME NEW v \in Writers, pc'[v] # "done"
             PROVE  \E T \in SUBSET events' : MetAtStart(v, T)'
  BY DEF AttemptsLostToOthers
<1>1. pc[v] # "done"
  BY DEF StepOf, OthersStand, Starts, Extends, Restarts, Ends
<1>2. PICK S \in SUBSET events : MetAtStart(v, S)
  BY <1>1 DEF AttemptsLostToOthers
<1>3. CASE v = w
  BY <1>2, <1>3, AttemptsOfMover
<1>4. CASE v # w
  BY <1>2, <1>4, AttemptsOfOthers
<1> QED
  BY <1>3, <1>4

LEMMA GivingUpStep ==
  ASSUME StreamInvariant, IsFiniteSet(events), CommitsLandOnce, AttemptsLostToOthers,
         GivenUpOnlyUnderContention, NEW w \in Writers, StepOf(w)
  PROVE  GivenUpOnlyUnderContention'
<1> SUFFICES ASSUME NEW v \in Writers, told'[v] = "stream_append_conflict"
             PROVE  Cardinality(CommitsOfOthers(events', v)) > MaxRetries
  BY DEF GivenUpOnlyUnderContention, CommitsOfOthers, CommitsOf, CommitOf
<1>1. MaxRetries \in Nat /\ plan[v].attempt \in Nat
  BY StreamConstants, PlanFields DEF StreamInvariant, Attempts
<1>2. CASE told[v] = "stream_append_conflict"
  <2>1. events \in SUBSET events' /\ IsFiniteSet(events')
    BY FiniteStep DEF StepOf, Starts, Extends, Restarts, Ends, Appends
  <2>2. Cardinality(CommitsOfOthers(events, v)) > MaxRetries
    BY <1>2 DEF GivenUpOnlyUnderContention
  <2> QED
    BY <1>1, <2>1, <2>2, CommitsAreFinite
<1>3. CASE told[v] # "stream_append_conflict"
  <2>1. v = w /\ Ends(w)
    BY <1>3 DEF StepOf, OthersStand
  <2>2. pc[v] # "done" /\ OffsetTaken(v) /\ plan[v].attempt >= MaxRetries /\ events' = events
    BY <2>1 DEF Ends
  <2>3. PICK S \in SUBSET events : MetAtStart(v, S)
    BY <2>2 DEF AttemptsLostToOthers
  <2>4. Cardinality(CommitsOfOthers(events, v)) >= plan[v].attempt + 1
    BY <2>2, <2>3, AttemptLost
  <2>5. Cardinality(CommitsOfOthers(events, v)) \in Nat
    BY CommitsAreFinite
  <2> QED
    BY <1>1, <2>2, <2>4, <2>5
<1> QED
  BY <1>2, <1>3

(***************************************************************************)
(* The commits hold                                                         *)
(***************************************************************************)
LEMMA InitEstablishesCommits == Init => CommitInvariant
<1> SUFFICES ASSUME Init
             PROVE  CommitInvariant
  OBVIOUS
<1>1. events = {} /\ receipts = {} /\ IsFiniteSet(events) /\ IsFiniteSet({})
  BY FS_EmptySet DEF Init
<1>2. \A w \in Writers : plan[w].chain = <<>> /\ plan[w].attempt = 0
  BY DEF Init, Fresh
<1>3. \A w \in Writers : Chain(w) = {}
  BY <1>2 DEF Chain
<1>4. CommitsLandOnce
  BY <1>1, <1>3 DEF CommitsLandOnce
<1>5. ReceiptReferencesHold
  BY <1>1 DEF ReceiptReferencesHold
<1>6. AttemptsLostToOthers
  <2>1. \A w : Cardinality(CommitsOfOthers({}, w)) \in Nat
    BY <1>1, CommitsAreFinite
  <2>2. \A w \in Writers : MetAtStart(w, {})
    BY <1>1, <1>2, <1>3, <2>1 DEF MetAtStart
  <2> QED
    BY <1>1, <2>2 DEF AttemptsLostToOthers
<1>7. GivenUpOnlyUnderContention
  BY DEF Init, GivenUpOnlyUnderContention
<1> QED
  BY <1>1, <1>4, <1>5, <1>6, <1>7 DEF CommitInvariant

LEMMA NextPreservesCommits == StreamInvariant /\ CommitInvariant /\ [Next]_vars => CommitInvariant'
<1> SUFFICES ASSUME StreamInvariant, CommitInvariant, [Next]_vars
             PROVE  CommitInvariant'
  OBVIOUS
<1>1. /\ IsFiniteSet(events)
      /\ CommitsLandOnce
      /\ ReceiptReferencesHold
      /\ AttemptsLostToOthers
      /\ GivenUpOnlyUnderContention
  BY DEF CommitInvariant
<1>2. CASE Next
  <2>1. PICK w \in Writers : StepOf(w)
    BY <1>2, StepShapes
  <2> QED
    BY <1>1, <2>1, FiniteStep, LandOnceStep, ReceiptStep, AttemptsStep, GivingUpStep
       DEF CommitInvariant
<1>3. CASE UNCHANGED vars
  <2>1. UNCHANGED <<events, receipts, pc, plan, told>>
    BY <1>3 DEF vars, storeVars
  <2>2. CommitsLandOnce'
    BY <1>1, <2>1 DEF CommitsLandOnce, Chain, Closed, CommitOf
  <2>3. ReceiptReferencesHold'
    BY <1>1, <2>1 DEF ReceiptReferencesHold
  <2>4. AttemptsLostToOthers'
    <3> SUFFICES ASSUME NEW w \in Writers, pc'[w] # "done"
                 PROVE  \E S \in SUBSET events' : MetAtStart(w, S)'
      BY DEF AttemptsLostToOthers
    <3>1. PICK S \in SUBSET events : MetAtStart(w, S)
      BY <1>1, <2>1 DEF AttemptsLostToOthers
    <3>2. Chain(w)' = Chain(w)
      BY <2>1 DEF Chain
    <3>3. MetAtStart(w, S)'
      BY <2>1, <3>1, <3>2 DEF MetAtStart
    <3> QED
      BY <2>1, <3>3
  <2>5. GivenUpOnlyUnderContention'
    BY <1>1, <2>1 DEF GivenUpOnlyUnderContention, CommitsOfOthers, CommitsOf, CommitOf
  <2> QED
    BY <1>1, <2>1, <2>2, <2>3, <2>4, <2>5 DEF CommitInvariant
<1> QED
  BY <1>2, <1>3

(***************************************************************************)
(* The store as a log                                                       *)
(***************************************************************************)
\* A contiguous partition has as many events as its greatest offset says.
LEMMA OffsetsCount ==
  ASSUME NEW S \in SUBSET Event, StoreFits(S), NEW p \in Partitions
  PROVE  /\ Cardinality(In(S, p)) \in Nat
         /\ \A e \in In(S, p) : e.offset < Cardinality(In(S, p))
         /\ \A k \in Nat : k < Cardinality(In(S, p)) => \E e \in In(S, p) : e.offset = k
<1>1. \A e \in In(S, p) : e \in S /\ e.partition = p /\ e.offset \in Nat
  BY DEF In, Event
<1>2. CASE In(S, p) = {}
  BY <1>2, FS_EmptySet
<1>3. CASE In(S, p) # {}
  <2>1. PICK last \in In(S, p) : Greatest(last, In(S, p))
    BY <1>3 DEF StoreFits
  <2> DEFINE n == last.offset
             f == [k \in 0 .. n |-> CHOOSE e \in In(S, p) : e.offset = k]
  <2>2. n \in Nat /\ \A e \in In(S, p) : e.offset \in 0 .. n
    BY <1>1, <2>1 DEF Greatest
  <2>3. \A k \in 0 .. n : \E e \in In(S, p) : e.offset = k
    BY <1>1, <2>1 DEF StoreFits, GapFreeIn, In
  <2>4. \A k \in 0 .. n : f[k] \in In(S, p) /\ f[k].offset = k
    BY <2>3
  <2>5. f \in [0 .. n -> In(S, p)]
    BY <2>4
  <2> HIDE DEF f
  <2>6. \A e \in In(S, p) : f[e.offset] = e
    BY <1>1, <2>2, <2>4 DEF StoreFits, UniqueIn, SameSlot
  <2>7. f \in Bijection(0 .. n, In(S, p))
    <3>1. IsInjective(f)
      BY <2>4, <2>5 DEF IsInjective
    <3>2. \A e \in In(S, p) : \E k \in 0 .. n : f[k] = e
      BY <2>2, <2>6
    <3> QED
      BY <2>5, <3>1, <3>2 DEF Bijection, Injection, Surjection
  <2> HIDE DEF n
  <2>8. IsFiniteSet(0 .. n) /\ Cardinality(0 .. n) = n + 1
    BY <2>2, FS_Interval
  <2>9. Cardinality(In(S, p)) = n + 1
    BY <2>7, <2>8, FS_Bijection DEF ExistsBijection
  <2> QED
    BY <2>2, <2>3, <2>9
<1> QED
  BY <1>2, <1>3

\* The commits stored at an offset of a partition of S.
At(S, p, k) == CommitsOf({e \in In(S, p) : e.offset = k})

\* What the log of a partition is of a set of events.
LogOf(S, p) == [i \in 1 .. Cardinality(In(S, p)) |-> At(S, p, i - 1)]

\* In a store without forks one commit is stored at the slot of an event.
LEMMA OneCommitAt ==
  ASSUME NEW S \in SUBSET Event, UniqueIn(S), NEW p, NEW e \in In(S, p)
  PROVE  At(S, p, e.offset) = {CommitOf(e)}
<1>1. {f \in In(S, p) : f.offset = e.offset} = {e}
  BY DEF In, UniqueIn, SameSlot
<1> QED
  BY <1>1 DEF At, CommitsOf

\* The log of p for T is the log for S and then a block of c.
AddsBlock(S, T, p, c) ==
  /\ Len(LogOf(T, p)) >= Len(LogOf(S, p))
  /\ SubSeq(LogOf(T, p), 1, Len(LogOf(S, p))) = LogOf(S, p)
  /\ \A i \in Len(LogOf(S, p)) + 1 .. Len(LogOf(T, p)) : LogOf(T, p)[i] = {c}

\* Landing a chain that fits appends a block of its commit to the log of each
\* partition.
LEMMA LandingAppends ==
  ASSUME NEW S \in SUBSET Event, NEW C \in SUBSET Event, NEW c,
         StoreFits(S), StoreFits(S \cup C), \A e \in C : CommitOf(e) = c,
         NEW p \in Partitions
  PROVE  AddsBlock(S, S \cup C, p, c)
<1> DEFINE T == S \cup C
           n == Cardinality(In(S, p))
           m == Cardinality(In(T, p))
<1>1. /\ n \in Nat
      /\ \A e \in In(S, p) : e.offset < n
      /\ \A k \in Nat : k < n => \E e \in In(S, p) : e.offset = k
  BY OffsetsCount
<1>2. /\ m \in Nat
      /\ \A e \in In(T, p) : e.offset < m
      /\ \A k \in Nat : k < m => \E e \in In(T, p) : e.offset = k
  BY OffsetsCount
<1>3. LogOf(S, p) = [i \in 1 .. n |-> At(S, p, i - 1)] /\ LogOf(T, p) = [i \in 1 .. m |-> At(T, p, i - 1)]
  BY DEF LogOf
<1>4. UniqueIn(S) /\ UniqueIn(T)
  BY DEF StoreFits
<1>5. In(S, p) \subseteq In(T, p) /\ \A e \in In(T, p) : e \in In(S, p) \/ e \in C
  BY DEF In
<1> HIDE DEF n, m, T
<1>6. m >= n
  <2>1. CASE n = 0
    BY <1>2, <2>1
  <2>2. CASE n # 0
    <3>1. n - 1 \in Nat /\ n - 1 < n
      BY <1>1, <2>2
    <3>2. PICK e \in In(S, p) : e.offset = n - 1
      BY <1>1, <3>1
    <3> QED
      BY <1>1, <1>2, <1>5, <3>2
  <2> QED
    BY <2>1, <2>2
<1>7. ASSUME NEW i \in 1 .. n
      PROVE  At(T, p, i - 1) = At(S, p, i - 1)
  <2>1. i - 1 \in Nat /\ i - 1 < n
    BY <1>1
  <2>2. PICK e \in In(S, p) : e.offset = i - 1
    BY <1>1, <2>1
  <2>3. At(S, p, e.offset) = {CommitOf(e)}
    BY <1>4, OneCommitAt
  <2>4. At(T, p, e.offset) = {CommitOf(e)}
    BY <1>4, <1>5, OneCommitAt DEF T
  <2> QED
    BY <2>2, <2>3, <2>4
<1>8. ASSUME NEW i \in n + 1 .. m
      PROVE  At(T, p, i - 1) = {c}
  <2>1. i - 1 \in Nat /\ i - 1 < m /\ ~(i - 1 < n)
    BY <1>1, <1>2
  <2>2. PICK e \in In(T, p) : e.offset = i - 1
    BY <1>2, <2>1
  <2>3. CommitOf(e) = c
    BY <1>1, <1>5, <2>1, <2>2
  <2>4. At(T, p, e.offset) = {CommitOf(e)}
    BY <1>4, OneCommitAt DEF T
  <2> QED
    BY <2>2, <2>3, <2>4
<1> DEFINE before == LogOf(S, p)
           after == LogOf(T, p)
           V == {At(T, p, k) : k \in Nat} \cup {At(S, p, k) : k \in Nat}
<1>9. \A i \in 1 .. m : i - 1 \in Nat
  BY <1>2
<1>10. \A i \in 1 .. n : i - 1 \in Nat
  BY <1>1
<1>11. /\ before \in Seq(V) /\ Len(before) = n /\ \A i \in 1 .. n : before[i] = At(S, p, i - 1)
  <2>1. \A i \in 1 .. n : At(S, p, i - 1) \in V
    BY <1>10
  <2> HIDE DEF V
  <2> QED
    BY <1>1, <1>3, <2>1
<1>12. /\ after \in Seq(V) /\ Len(after) = m /\ \A i \in 1 .. m : after[i] = At(T, p, i - 1)
  <2>1. \A i \in 1 .. m : At(T, p, i - 1) \in V
    BY <1>9
  <2> HIDE DEF V
  <2> QED
    BY <1>2, <1>3, <2>1
<1> HIDE DEF before, after, V
<1>13. SubSeq(after, 1, n) = before
  <2>1. \A i \in 1 .. n : after[i] \in V /\ after[i] = before[i]
    <3>1. \A i \in 1 .. n : i \in 1 .. m
      BY <1>1, <1>2, <1>6
    <3> QED
      BY <3>1, <1>7, <1>11, <1>12, LenProperties
  <2>2. /\ SubSeq(after, 1, n) \in Seq(V)
        /\ Len(SubSeq(after, 1, n)) = IF 1 <= n THEN n - 1 + 1 ELSE 0
        /\ \A i \in 1 .. n - 1 + 1 : SubSeq(after, 1, n)[i] = after[1 + i - 1]
    BY <1>1, <2>1, SubSeqProperties
  <2>3. Len(SubSeq(after, 1, n)) = n /\ \A i \in 1 .. n : SubSeq(after, 1, n)[i] = before[i]
    BY <1>1, <2>1, <2>2
  <2> QED
    BY <1>1, <1>11, <2>2, <2>3, SeqEqual
<1>14. \A i \in n + 1 .. m : after[i] = {c}
  <2>1. \A i \in n + 1 .. m : i \in 1 .. m
    BY <1>1, <1>2
  <2> QED
    BY <2>1, <1>8, <1>12
<1> QED
  BY <1>6, <1>11, <1>12, <1>13, <1>14 DEF before, after, T, AddsBlock

LEMMA InitIsEmptyLog == Init => Log!Init
<1> SUFFICES ASSUME Init
             PROVE  Log!Init
  OBVIOUS
<1>1. \A p \in Partitions : In(events, p) = {}
  BY DEF Init, In
<1>2. \A p \in Partitions : Cardinality(In(events, p)) = 0
  BY <1>1, FS_EmptySet
<1>3. \A p \in Partitions : [i \in 1 .. Cardinality(In(events, p)) |-> CommitsAt(p, i - 1)] = <<>>
  BY <1>2
<1> QED
  BY <1>3 DEF Log!Init

\* A step stores nothing, or appends one commit that was not there.
LEMMA LogStep ==
  ASSUME StreamInvariant, StreamInvariant', CommitInvariant, NEW w \in Writers, StepOf(w)
  PROVE  \/ events' = events
         \/ \E c \in Commits :
              /\ \A p \in Partitions : AddsBlock(events, events', p, c)
              /\ \A p \in Partitions : \A i \in DOMAIN LogOf(events, p) : LogOf(events, p)[i] # {c}
<1> DEFINE c == <<w, plan[w].phase>>
<1>1. \/ events' = events
      \/ events' = events \cup Chain(w) /\ pc[w] # "done"
  BY DEF StepOf, Starts, Extends, Restarts, Ends, Appends
<1>2. CASE events' = events \cup Chain(w) /\ pc[w] # "done"
  <2>1. /\ \A e \in events : CommitOf(e) # c
        /\ \A e \in Chain(w) : CommitOf(e) = c
    BY <1>2, NothingStoredYet DEF CommitInvariant, CommitsLandOnce
  <2>2. /\ events \in SUBSET Event /\ Chain(w) \in SUBSET Event
        /\ StoreFits(events) /\ StoreFits(events \cup Chain(w))
    BY <1>2, PlanFields DEF StreamInvariant, TypeOK
  <2>3. c \in Commits
    BY PlanFields DEF Commits, StreamInvariant
  <2> HIDE DEF c
  <2>4. \A p \in Partitions : AddsBlock(events, events', p, c)
    BY <1>2, <2>1, <2>2, LandingAppends
  <2>5. \A p \in Partitions : \A i \in DOMAIN LogOf(events, p) : LogOf(events, p)[i] # {c}
    BY <2>1 DEF LogOf, At, CommitsOf, In
  <2> QED
    BY <2>3, <2>4, <2>5
<1> QED
  BY <1>1, <1>2

\* What is a step of the streams is a step of the log, or none.
LEMMA StepOfLog ==
  ASSUME StreamInvariant, StreamInvariant', CommitInvariant, NEW w \in Writers, StepOf(w)
  PROVE  events' = events \/ Log!Next
<1> SUFFICES ASSUME NEW c \in Commits,
                    \A p \in Partitions : AddsBlock(events, events', p, c),
                    \A p \in Partitions : \A i \in DOMAIN LogOf(events, p) : LogOf(events, p)[i] # {c}
             PROVE  Log!Next
  BY LogStep
<1> DEFINE log == [p \in Partitions |-> [i \in 1 .. Cardinality(In(events, p)) |-> CommitsAt(p, i - 1)]]
<1>1. log = [p \in Partitions |-> LogOf(events, p)]
  BY DEF LogOf, At, CommitsAt
<1>2. log' = [p \in Partitions |-> LogOf(events', p)]
  BY DEF LogOf, At, CommitsAt
<1>3. Log!Stored({c}) <=> \E p \in Partitions : \E i \in DOMAIN log[p] : log[p][i] = {c}
  BY DEF Log!Stored
<1>4. \A p \in Partitions : Log!AppendsBlock(p, {c}) <=>
        /\ Len(log'[p]) >= Len(log[p])
        /\ SubSeq(log'[p], 1, Len(log[p])) = log[p]
        /\ \A i \in Len(log[p]) + 1 .. Len(log'[p]) : log'[p][i] = {c}
  BY DEF Log!AppendsBlock
<1>5. Log!Next <=> \E d \in {{x} : x \in Commits} :
        ~Log!Stored(d) /\ DOMAIN log' = Partitions /\ \A p \in Partitions : Log!AppendsBlock(p, d)
  BY DEF Log!Next
<1> HIDE DEF log
<1>6. ~Log!Stored({c})
  BY <1>1, <1>3
<1>7. \A p \in Partitions : Log!AppendsBlock(p, {c})
  <2> TAKE p \in Partitions
  <2>1. log[p] = LogOf(events, p) /\ log'[p] = LogOf(events', p)
    BY <1>1, <1>2
  <2>2. AddsBlock(events, events', p, c)
    OBVIOUS
  <2>3. /\ Len(log'[p]) >= Len(log[p])
        /\ SubSeq(log'[p], 1, Len(log[p])) = log[p]
        /\ \A i \in Len(log[p]) + 1 .. Len(log'[p]) : log'[p][i] = {c}
    BY <2>1, <2>2 DEF AddsBlock
  <2> QED
    BY <1>4, <2>3
<1> QED
  BY <1>2, <1>5, <1>6, <1>7

(***************************************************************************)
(* The order of the commits                                                 *)
(***************************************************************************)
\* Logs in which the entries come in the same order.
Ordered(h) ==
  \A p, q \in Partitions : \A i, j \in DOMAIN h[p], k, l \in DOMAIN h[q] :
    h[p][i] = h[q][k] /\ h[p][j] = h[q][l] /\ h[p][i] # h[p][j] /\ i < j => k < l

\* The logs g are the logs f, and then a block of c in each.
GrowsBy(f, g, c) ==
  \A p \in Partitions :
    /\ DOMAIN g[p] \subseteq Nat
    /\ \A i \in DOMAIN f[p] : g[p][i] = f[p][i] /\ f[p][i] # c
    /\ \A j \in DOMAIN g[p] : j \notin DOMAIN f[p] =>
         g[p][j] = c /\ \A i \in DOMAIN f[p] : i \in Nat /\ i < j

\* A block of a new commit at the end of every log keeps the order of the rest.
LEMMA OrderKept ==
  ASSUME NEW f, NEW g, NEW c, Ordered(f), GrowsBy(f, g, c)
  PROVE  Ordered(g)
<1> SUFFICES ASSUME NEW p \in Partitions, NEW q \in Partitions,
                    NEW i \in DOMAIN g[p], NEW j \in DOMAIN g[p],
                    NEW k \in DOMAIN g[q], NEW l \in DOMAIN g[q],
                    g[p][i] = g[q][k], g[p][j] = g[q][l], g[p][i] # g[p][j], i < j
             PROVE  k < l
  BY DEF Ordered
<1>1. i \in Nat /\ j \in Nat /\ k \in Nat /\ l \in Nat
  BY DEF GrowsBy
<1>2. g[p][i] # c
  <2> SUFFICES ASSUME g[p][i] = c
               PROVE  FALSE
    OBVIOUS
  <2>1. i \notin DOMAIN f[p]
    BY DEF GrowsBy
  <2>2. j \in DOMAIN f[p]
    BY DEF GrowsBy
  <2>3. j < i
    BY <2>1, <2>2 DEF GrowsBy
  <2> QED
    BY <1>1, <2>3
<1>3. i \in DOMAIN f[p] /\ k \in DOMAIN f[q]
  BY <1>2 DEF GrowsBy
<1>4. CASE g[p][j] = c
  <2>1. l \notin DOMAIN f[q]
    <3>1. g[q][l] = c
      BY <1>4
    <3>2. l \in DOMAIN f[q] => g[q][l] # c
      BY DEF GrowsBy
    <3> QED
      BY <3>1, <3>2
  <2> QED
    BY <1>3, <2>1 DEF GrowsBy
<1>5. CASE g[p][j] # c
  <2>1. j \in DOMAIN f[p] /\ l \in DOMAIN f[q]
    BY <1>5 DEF GrowsBy
  <2>2. f[p][i] = f[q][k] /\ f[p][j] = f[q][l] /\ f[p][i] # f[p][j]
    BY <1>3, <2>1 DEF GrowsBy
  <2> QED
    BY <1>3, <2>1, <2>2 DEF Ordered
<1> QED
  BY <1>4, <1>5

\* The entries of the log of a contiguous partition are numbered from 1.
LEMMA LogOfIsSeq ==
  ASSUME NEW S \in SUBSET Event, StoreFits(S), NEW p \in Partitions
  PROVE  /\ Len(LogOf(S, p)) \in Nat
         /\ DOMAIN LogOf(S, p) = 1 .. Len(LogOf(S, p))
         /\ LogOf(S, p) \in Seq({At(S, p, k) : k \in Int})
<1> DEFINE n == Cardinality(In(S, p))
           V == {At(S, p, k) : k \in Int}
<1>1. n \in Nat
  BY OffsetsCount
<1>2. \A i \in 1 .. n : At(S, p, i - 1) \in V
  OBVIOUS
<1>3. LogOf(S, p) = [i \in 1 .. n |-> At(S, p, i - 1)]
  BY DEF LogOf
<1> HIDE DEF n, V
<1>4. LogOf(S, p) \in Seq(V)
  BY <1>1, <1>2, <1>3
<1>5. LogOf(S, p) \in Seq(V) /\ Len(LogOf(S, p)) \in Nat /\ DOMAIN LogOf(S, p) = 1 .. Len(LogOf(S, p))
  BY <1>4, LenProperties
<1> QED
  BY <1>5 DEF V

LEMMA AddedBlock ==
  ASSUME NEW S \in SUBSET Event, NEW T \in SUBSET Event, StoreFits(S), StoreFits(T),
         NEW p \in Partitions, NEW c, AddsBlock(S, T, p, c)
  PROVE  /\ DOMAIN LogOf(T, p) \subseteq Nat
         /\ \A i \in DOMAIN LogOf(S, p) : LogOf(T, p)[i] = LogOf(S, p)[i]
         /\ \A j \in DOMAIN LogOf(T, p) : j \notin DOMAIN LogOf(S, p) =>
              /\ LogOf(T, p)[j] = {c}
              /\ \A i \in DOMAIN LogOf(S, p) : i \in Nat /\ i < j
<1> DEFINE before == LogOf(S, p)
           after == LogOf(T, p)
           n == Len(before)
           V == {At(T, p, k) : k \in Int}
<1>1. n \in Nat /\ DOMAIN before = 1 .. n
  BY LogOfIsSeq
<1>2. Len(after) \in Nat /\ DOMAIN after = 1 .. Len(after) /\ after \in Seq(V)
  BY LogOfIsSeq
<1>3. /\ Len(after) >= n
      /\ SubSeq(after, 1, n) = before
      /\ \A i \in n + 1 .. Len(after) : after[i] = {c}
  BY DEF AddsBlock
<1> HIDE DEF before, after, n, V
<1>4. \A i \in 1 .. n : after[i] \in V
  BY <1>1, <1>2, <1>3, LenProperties
<1>5. \A i \in 1 .. n - 1 + 1 : SubSeq(after, 1, n)[i] = after[1 + i - 1]
  BY <1>1, <1>4, SubSeqProperties
<1>6. \A i \in 1 .. n : before[i] = after[i]
  BY <1>1, <1>3, <1>5
<1>7. \A j \in DOMAIN after : j \notin DOMAIN before => j \in n + 1 .. Len(after)
  BY <1>1, <1>2
<1>8. \A j \in DOMAIN after : j \notin DOMAIN before =>
        after[j] = {c} /\ \A i \in DOMAIN before : i \in Nat /\ i < j
  BY <1>1, <1>2, <1>3, <1>7
<1>9. DOMAIN after \subseteq Nat
  BY <1>2
<1> QED
  BY <1>1, <1>6, <1>8, <1>9 DEF before, after

\* A step of the streams keeps the order of the commits in their logs.
LEMMA LogStepKeepsOrder ==
  ASSUME StreamInvariant, StreamInvariant', CommitInvariant, [Next]_vars, Log!SameOrder
  PROVE  Log!SameOrder'
<1> DEFINE f == [p \in Partitions |-> [i \in 1 .. Cardinality(In(events, p)) |-> CommitsAt(p, i - 1)]]
           before == [p \in Partitions |-> LogOf(events, p)]
           after == [p \in Partitions |-> LogOf(events', p)]
<1>1. f = before /\ f' = after
  BY DEF LogOf, At, CommitsAt
<1>2. (Log!SameOrder <=> Ordered(f)) /\ (Log!SameOrder' <=> Ordered(f'))
  BY DEF Log!SameOrder, Ordered
<1> HIDE DEF f
<1>3. Ordered(before)
  BY <1>1, <1>2
<1>4. \/ events' = events
      \/ \E c \in Commits :
           /\ \A p \in Partitions : AddsBlock(events, events', p, c)
           /\ \A p \in Partitions : \A i \in DOMAIN LogOf(events, p) : LogOf(events, p)[i] # {c}
  BY StepShapes, LogStep DEF vars, storeVars
<1>5. CASE events' = events
  BY <1>1, <1>2, <1>3, <1>5
<1>6. ASSUME NEW c \in Commits,
             \A p \in Partitions : AddsBlock(events, events', p, c),
             \A p \in Partitions : \A i \in DOMAIN LogOf(events, p) : LogOf(events, p)[i] # {c}
      PROVE  Ordered(after)
  <2>1. /\ events \in SUBSET Event /\ events' \in SUBSET Event
        /\ StoreFits(events) /\ StoreFits(events')
    BY DEF StreamInvariant, TypeOK
  <2>2. GrowsBy(before, after, {c})
    <3> SUFFICES ASSUME NEW p \in Partitions
                 PROVE  /\ DOMAIN after[p] \subseteq Nat
                        /\ \A i \in DOMAIN before[p] : after[p][i] = before[p][i] /\ before[p][i] # {c}
                        /\ \A j \in DOMAIN after[p] : j \notin DOMAIN before[p] =>
                             after[p][j] = {c} /\ \A i \in DOMAIN before[p] : i \in Nat /\ i < j
      BY DEF GrowsBy
    <3>1. before[p] = LogOf(events, p) /\ after[p] = LogOf(events', p)
      OBVIOUS
    <3>2. AddsBlock(events, events', p, c)
      BY <1>6
    <3> HIDE DEF before, after
    <3> QED
      BY <1>6, <2>1, <3>1, <3>2, AddedBlock
  <2> HIDE DEF before, after
  <2> QED
    BY <1>3, <2>2, OrderKept
<1> QED
  BY <1>1, <1>2, <1>4, <1>5, <1>6

(***************************************************************************)
(* The loops end                                                            *)
(***************************************************************************)
\* The lengths and products that StepsLeft is made of.
LEMMA Lengths ==
  ASSUME TypeOK, NEW w \in Writers
  PROVE  /\ Len(Bindings[w]) \in Nat /\ Len(RefusalBindings[w]) \in Nat
         /\ RouteBound(w) \in Nat
         /\ Len(Route(w)) \in Nat /\ Len(Route(w)) < RouteBound(w)
         /\ Len(RefusalBindings[w]) < RouteBound(w)
         /\ Len(plan[w].chain) \in Nat
         /\ plan[w].attempt \in Nat /\ MaxRetries \in Nat /\ plan[w].attempt <= MaxRetries
<1>1. Bindings[w] \in Seq(Partitions) /\ RefusalBindings[w] \in Seq(Partitions)
  BY StreamConstants
<1>2. plan[w].chain \in Seq(Event) /\ plan[w].attempt \in Attempts /\ MaxRetries \in Nat
  BY PlanFields, StreamConstants
<1>3. /\ Len(Bindings[w]) \in Nat /\ Len(RefusalBindings[w]) \in Nat
      /\ Len(plan[w].chain) \in Nat
  BY <1>1, <1>2
<1>4. Len(Route(w)) = Len(Bindings[w]) \/ Len(Route(w)) = Len(RefusalBindings[w])
  BY DEF Route
<1>5. plan[w].attempt \in Nat /\ MaxRetries \in Nat /\ plan[w].attempt <= MaxRetries
  BY <1>2 DEF Attempts
<1> DEFINE m == Len(Bindings[w])
           r == Len(RefusalBindings[w])
           l == Len(Route(w))
           b == RouteBound(w)
<1>6. b = m + r + 1
  BY DEF RouteBound
<1>7. b \in Nat /\ l \in Nat /\ l < b /\ r < b
  <2>1. m \in Nat /\ r \in Nat /\ (l = m \/ l = r)
    BY <1>3, <1>4
  <2> HIDE DEF m, r, l, b
  <2> QED
    BY <1>6, <2>1
<1> QED
  BY <1>3, <1>5, <1>7

\* The shape of the products that StepsLeft adds.
LEMMA Product ==
  ASSUME NEW b \in Nat, NEW k \in Nat
  PROVE  b * k \in Nat /\ b * (k + 1) = b * k + b
OBVIOUS

\* No chain is under construction at first.
LEMMA InitWithinRoutes == Init => ChainsWithinRoutes
<1> SUFFICES ASSUME Init, NEW w \in Writers
             PROVE  Len(plan[w].chain) <= Len(Route(w))
  BY DEF ChainsWithinRoutes
<1>1. TypeOK
  BY InitEstablishes DEF StreamInvariant
<1>2. plan[w].chain = <<>>
  BY DEF Init, Fresh
<1> QED
  BY <1>1, <1>2, Lengths, EmptySeq

\* A writer builds no more than its route asks for.
LEMMA WithinRoutesStep ==
  ASSUME StreamInvariant, ChainsWithinRoutes, [Next]_vars
  PROVE  ChainsWithinRoutes'
<1>1. TypeOK /\ InRoute
  BY DEF StreamInvariant
<1>2. CASE Next
  <2>1. PICK w \in Writers : StepOf(w)
    BY <1>2, StepShapes
  <2> SUFFICES ASSUME NEW v \in Writers
               PROVE  Len(plan'[v].chain) <= Len(Route(v)')
    BY DEF ChainsWithinRoutes
  <2>2. CASE v # w \/ Starts(w) \/ Ends(w)
    <3>1. plan'[v].chain = plan[v].chain /\ plan'[v].phase = plan[v].phase
      BY <2>1, <2>2 DEF StepOf, OthersStand, Starts, Ends, Extends, Restarts
    <3>2. Route(v)' = Route(v)
      BY <3>1 DEF Route
    <3> QED
      BY <3>1, <3>2 DEF ChainsWithinRoutes
  <2>3. CASE v = w /\ Restarts(w)
    <3>1. plan'[v].chain = <<>>
      BY <2>3 DEF Restarts
    <3>2. Len(Route(v)') \in Nat
      <4>1. Bindings[v] \in Seq(Partitions) /\ RefusalBindings[v] \in Seq(Partitions)
        BY StreamConstants
      <4> QED
        BY <4>1 DEF Route
    <3>3. Len(<<>>) = 0
      BY EmptySeq
    <3> QED
      BY <3>1, <3>2, <3>3
  <2>4. CASE v = w /\ Extends(w)
    <3>1. PICK x : plan'[w].chain = Append(plan[w].chain, x)
      BY <2>4 DEF Extends
    <3>2. Route(w)' = Route(w) /\ Len(plan[w].chain) < Len(Route(w))
      BY <1>1, <2>4 DEF Extends, Route, InRoute
    <3>3. Len(plan'[w].chain) = Len(plan[w].chain) + 1
      BY <1>1, <3>1, PlanFields
    <3> QED
      BY <1>1, <2>4, <3>2, <3>3, Lengths
  <2> QED
    BY <2>1, <2>2, <2>3, <2>4 DEF StepOf
<1>3. CASE UNCHANGED vars
  BY <1>3 DEF vars, storeVars, ChainsWithinRoutes, Route
<1> QED
  BY <1>2, <1>3

\* The count never runs below zero, and a writer without an answer has a step left.
LEMMA StepsLeftIsNat ==
  ASSUME TypeOK, ChainsWithinRoutes, NEW w \in Writers
  PROVE  /\ StepsLeft(w) \in Nat
         /\ pc[w] # "done" => StepsLeft(w) >= 1
<1> DEFINE a == RouteBound(w) * (MaxRetries - plan[w].attempt)
           b == RouteBound(w) * (MaxRetries + 1)
           c == Len(Route(w)) - Len(plan[w].chain)
<1>1. a \in Nat /\ b \in Nat
  <2>1. RouteBound(w) \in Nat /\ MaxRetries - plan[w].attempt \in Nat /\ MaxRetries + 1 \in Nat
    BY Lengths
  <2> QED
    BY <2>1, Product
<1>2. c \in Nat
  BY Lengths DEF ChainsWithinRoutes
<1>3. StepsLeft(w) = IF pc[w] = "done" THEN 0 ELSE 1 + c + a + (IF plan[w].phase = "main" THEN b ELSE 0)
  BY DEF StepsLeft
<1> HIDE DEF a, b, c
<1> QED
  BY <1>1, <1>2, <1>3

\* One step of a writer, in each of the four cases.
LEMMA StepsLeftStep ==
  ASSUME StreamInvariant, StreamInvariant', ChainsWithinRoutes, NEW w \in Writers, StepOf(w)
  PROVE  /\ StepsLeft(w)' <= StepsLeft(w)
         /\ pc[w] # "idle" => StepsLeft(w)' < StepsLeft(w)
<1>1. TypeOK /\ TypeOK'
  BY DEF StreamInvariant
<1> DEFINE B == RouteBound(w)
           n == Len(Route(w))
           k == Len(plan[w].chain)
           d == MaxRetries - plan[w].attempt
           main == B * (MaxRetries + 1)
<1>2. /\ B \in Nat /\ n \in Nat /\ k \in Nat /\ d \in Nat /\ k <= n /\ n < B
      /\ MaxRetries \in Nat /\ Len(RefusalBindings[w]) \in Nat /\ Len(RefusalBindings[w]) < B
  BY <1>1, Lengths DEF ChainsWithinRoutes
<1>3. /\ B * d \in Nat /\ main \in Nat /\ B * MaxRetries \in Nat
      /\ main = B * MaxRetries + B
  BY <1>2, Product
<1>4. pc[w] # "done" =>
        StepsLeft(w) = 1 + (n - k) + B * d + (IF plan[w].phase = "main" THEN main ELSE 0)
  BY DEF StepsLeft
<1>5. StepsLeft(w) \in Nat /\ (pc[w] # "done" => StepsLeft(w) >= 1)
  BY <1>1, StepsLeftIsNat
<1> DEFINE now == StepsLeft(w)
           next == StepsLeft(w)'
           all == B * MaxRetries
           left == B * d
<1>6. pc'[w] # "done" =>
        StepsLeft(w)' = 1 + (Len(Route(w)') - Len(plan'[w].chain)) + B * (MaxRetries - plan'[w].attempt)
                          + (IF plan'[w].phase = "main" THEN main ELSE 0)
  BY DEF StepsLeft, RouteBound
<1>7. plan'[w].phase = plan[w].phase => Route(w)' = Route(w)
  BY DEF Route
<1> HIDE DEF B
<1>8. CASE Ends(w)
  <2>1. pc[w] # "done" /\ StepsLeft(w)' = 0
    BY <1>8 DEF Ends, StepsLeft
  <2> QED
    BY <1>5, <2>1
<1>9. CASE Starts(w)
  <2>1. StepsLeft(w)' = StepsLeft(w)
    <3>1. /\ pc[w] = "idle" /\ pc'[w] = "build"
          /\ plan'[w].phase = plan[w].phase
          /\ plan'[w].attempt = plan[w].attempt
          /\ plan'[w].chain = plan[w].chain
      BY <1>9 DEF Starts
    <3> QED
      BY <1>4, <1>6, <1>7, <3>1
  <2> QED
    BY <1>5, <1>9, <2>1 DEF Starts
<1>10. CASE Extends(w)
  <2>1. /\ pc[w] # "done" /\ pc'[w] # "done"
        /\ plan'[w].phase = plan[w].phase
        /\ plan'[w].attempt = plan[w].attempt
        /\ \E x : plan'[w].chain = Append(plan[w].chain, x)
    BY <1>10 DEF Extends
  <2>2. Len(plan'[w].chain) = k + 1
    BY <1>1, <2>1, PlanFields
  <2>3. StepsLeft(w)' = 1 + (n - (k + 1)) + B * d + (IF plan[w].phase = "main" THEN main ELSE 0)
    BY <1>6, <1>7, <2>1, <2>2
  <2> HIDE DEF n, k, d, main
  <2> QED
    BY <1>2, <1>3, <1>4, <2>1, <2>3
<1>11. CASE Restarts(w)
  <2>1. pc[w] # "done" /\ pc'[w] # "done" /\ Len(plan'[w].chain) = 0
    BY <1>11, EmptySeq DEF Restarts
  <2>2. CASE plan[w].phase = "main" /\ plan'[w].phase = "refusal" /\ plan'[w].attempt = 0
    <3>1. Route(w)' = RefusalBindings[w]
      BY <2>2 DEF Route
    <3> DEFINE r == Len(RefusalBindings[w])
    <3>2. next = 1 + (Len(Route(w)') - Len(plan'[w].chain)) + B * (MaxRetries - plan'[w].attempt) + 0
      <4>1. plan'[w].phase # "main"
        BY <2>2
      <4> HIDE DEF main, next
      <4> QED
        BY <1>6, <2>1, <4>1 DEF next
    <3>3. next = 1 + (r - 0) + B * (MaxRetries - 0) + 0
      <4> HIDE DEF next
      <4> QED
        BY <2>1, <2>2, <3>1, <3>2
    <3>4. MaxRetries - 0 = MaxRetries
      BY <1>2
    <3>5. next = 1 + (r - 0) + all + 0
      BY <3>3, <3>4
    <3>6. now = 1 + (n - k) + left + main
      BY <1>4, <2>1, <2>2
    <3>7. /\ n \in Nat /\ k \in Nat /\ k <= n /\ B \in Nat /\ r \in Nat /\ r < B
          /\ left \in Nat /\ main \in Nat /\ all \in Nat /\ main = all + B
      BY <1>2, <1>3
    <3>8. next < now
      <4> HIDE DEF n, k, r, left, all, main, now, next
      <4> QED
        BY <3>5, <3>6, <3>7
    <3>9. next <= now
      <4>1. next \in Nat /\ now \in Nat
        <5> HIDE DEF n, k, r, left, all, main, now, next
        <5> QED
          BY <3>5, <3>6, <3>7
      <4> HIDE DEF now, next
      <4> QED
        BY <3>8, <4>1
    <3> QED
      BY <3>8, <3>9
  <2>3. CASE plan'[w].phase = plan[w].phase /\ plan'[w].attempt = plan[w].attempt + 1
    <3> DEFINE e == MaxRetries - plan'[w].attempt
    <3>1. e \in Nat /\ d = e + 1
      <4>1. plan'[w].attempt \in Nat /\ plan[w].attempt \in Nat /\ plan'[w].attempt <= MaxRetries
        BY <1>1, PlanFields, StreamConstants DEF TypeOK, Plan, Attempts
      <4> DEFINE tried == plan[w].attempt
                 tries == plan'[w].attempt
      <4>2. tries = tried + 1 /\ tried \in Nat /\ tries <= MaxRetries
        BY <2>3, <4>1
      <4>3. MaxRetries \in Nat
        BY <1>2
      <4>4. d = MaxRetries - tried /\ e = MaxRetries - tries
        OBVIOUS
      <4> HIDE DEF tried, tries, d, e
      <4> QED
        BY <4>2, <4>3, <4>4
    <3>2. B * d = B * e + B /\ B * e \in Nat
      <4> HIDE DEF d, e
      <4> QED
        BY <1>2, <3>1, Product
    <3> DEFINE fewer == B * e
               rest == IF plan[w].phase = "main" THEN main ELSE 0
    <3>3. next = 1 + n + fewer + rest
      BY <1>2, <1>6, <1>7, <2>1, <2>3
    <3>4. now = 1 + (n - k) + left + rest
      BY <1>4, <2>1
    <3>5. /\ n \in Nat /\ k \in Nat /\ k <= n /\ B \in Nat /\ n < B /\ rest \in Nat
          /\ left \in Nat /\ fewer \in Nat /\ left = fewer + B
      BY <1>2, <1>3, <3>2
    <3>6. next < now /\ next <= now
      <4> HIDE DEF n, k, left, fewer, rest, now, next
      <4> QED
        BY <3>3, <3>4, <3>5
    <3> QED
      BY <3>6
  <2> QED
    BY <1>11, <2>2, <2>3 DEF Restarts
<1> QED
  BY <1>8, <1>9, <1>10, <1>11 DEF StepOf, Starts

\* A step of the streams uses up one of its writer's, and none of the others'.
LEMMA EveryStepCounts ==
  ASSUME StreamInvariant, StreamInvariant', ChainsWithinRoutes, [Next]_vars
  PROVE  UNCHANGED vars \/ \A w \in Writers : /\ WriterStep(w) => StepsLeft(w)' < StepsLeft(w)
                                              /\ StepsLeft(w)' <= StepsLeft(w)
<1> SUFFICES ASSUME Next, NEW w \in Writers
             PROVE  /\ WriterStep(w) => StepsLeft(w)' < StepsLeft(w)
                    /\ StepsLeft(w)' <= StepsLeft(w)
  OBVIOUS
<1>1. WriterStep(w) => StepsLeft(w)' < StepsLeft(w)
  <2>1. WriterStep(w) => StepOf(w)
    BY WriterStepShapes
  <2>2. WriterStep(w) => pc[w] # "idle"
    BY DEF WriterStep, BuildEvent, Commit, KeyConflict, StreamConflict, CommitUnknown
  <2> QED
    BY <2>1, <2>2, StepsLeftStep
<1>2. PICK v \in Writers : StepOf(v)
  BY StepShapes
<1>3. CASE v = w
  BY <1>1, <1>2, <1>3, StepsLeftStep
<1>4. CASE v # w
  <2>1. pc'[w] = pc[w] /\ plan'[w] = plan[w]
    BY <1>2, <1>4 DEF StepOf, OthersStand
  <2>2. StepsLeft(w)' = StepsLeft(w)
    BY <2>1 DEF StepsLeft, Route, RouteBound
  <2>3. StepsLeft(w) \in Nat
    BY StepsLeftIsNat DEF StreamInvariant
  <2> QED
    BY <1>1, <2>2, <2>3
<1> QED
  BY <1>1, <1>3, <1>4

(***************************************************************************)
(* Theorems                                                                 *)
(***************************************************************************)
\* The inductive invariant: every chain under construction continues the store
\* it will be committed to, however much was appended since its tails were read.
THEOREM StreamsHold == Spec => []StreamInvariant
<1> QED
  BY InitEstablishes, NextPreserves, PTL DEF Spec

\* The streams, the plans and the answers stay well formed; in particular no
\* writer exceeds its retries.
THEOREM StreamTypes == Spec => []TypeOK
<1>1. StreamInvariant => TypeOK
  BY DEF StreamInvariant
<1> QED
  BY <1>1, StreamsHold, PTL

\* buildEventChain and the store's offset check together keep each partition one
\* gapless, unforked chain of digests, on either store.
THEOREM StreamsAreContiguous == Spec => []ContiguousStreams
<1>1. StreamInvariant => ContiguousStreams
  BY DEF StreamInvariant, StoreFits, ContiguousStreams
<1> QED
  BY <1>1, StreamsHold, PTL

\* assertObservedWatermarks runs before the commit; what it found is still there
\* when the decision is recorded and from then on.
THEOREM WatermarksAreDurable == Spec => []WatermarksStayBound
<1>1. StreamInvariant => WatermarksStayBound
  BY StreamConstants DEF StreamInvariant, WatermarksHold, WatermarksStayBound, ObservedWatermarkHolds
<1> QED
  BY <1>1, StreamsHold, PTL

\* A commit lands at most once and whole, whatever a lost answer or a retry made
\* of it, and each attempt that failed was lost to one more foreign commit.
THEOREM CommitsHold == Spec => []CommitInvariant
<1> QED
  BY InitEstablishesCommits, NextPreservesCommits, StreamsHold, PTL DEF Spec

\* receiptStreamReferencesForEvents: the references of a receipt end at stored
\* events of its commit and cover them all, though the receipt is made of the
\* chain and not of the store.
THEOREM ReceiptReferencesAreHonest == Spec => []ReceiptReferencesHold
<1>1. CommitInvariant => ReceiptReferencesHold
  BY DEF CommitInvariant
<1> QED
  BY <1>1, CommitsHold, PTL

\* The retry loops around commitProtocolRecords: stream_append_conflict is the
\* answer only after more commits of others than there are retries.
THEOREM GivingUpMeansContention == Spec => []GivenUpOnlyUnderContention
<1>1. CommitInvariant => GivenUpOnlyUnderContention
  BY DEF CommitInvariant
<1> QED
  BY <1>1, CommitsHold, PTL

\* The streams implement the abstract log: a chain of awaits, conflicts and
\* retries amounts to appending whole commits, each at most once, to all their
\* partitions in one step.
THEOREM StreamsKeepAtomicAppendLog == Spec => LogSpec
<1> DEFINE log == [p \in Partitions |-> [i \in 1 .. Cardinality(In(events, p)) |-> CommitsAt(p, i - 1)]]
<1>1. Init => Log!Init
  BY InitIsEmptyLog
<1>2. StreamInvariant /\ StreamInvariant' /\ CommitInvariant /\ [Next]_vars => [Log!Next]_log
  <2> SUFFICES ASSUME StreamInvariant, StreamInvariant', CommitInvariant, [Next]_vars
               PROVE  Log!Next \/ log' = log
    OBVIOUS
  <2>1. events' = events => log' = log
    BY DEF CommitsAt, In, CommitsOf, CommitOf
  <2>2. CASE Next
    <3>1. PICK w \in Writers : StepOf(w)
      BY <2>2, StepShapes
    <3> QED
      BY <2>1, <3>1, StepOfLog
  <2>3. CASE UNCHANGED vars
    BY <2>1, <2>3 DEF vars, storeVars
  <2> QED
    BY <2>2, <2>3
<1> QED
  BY <1>1, <1>2, StreamsHold, CommitsHold, PTL DEF Spec, LogSpec, Log!Spec

\* Transitions that append to the streams of an action and of its run do so in
\* one order: a replay that follows either stream meets their commits alike.
THEOREM CommitsAreOrdered == Spec => []Log!SameOrder
<1>1. Init => Log!SameOrder
  <2>1. Init => \A p \in Partitions : In(events, p) = {}
    BY DEF Init, In
  <2>2. ASSUME Init, NEW p \in Partitions
        PROVE  DOMAIN [i \in 1 .. Cardinality(In(events, p)) |-> CommitsAt(p, i - 1)] = {}
    BY <2>1, <2>2, FS_EmptySet
  <2> QED
    BY <2>2 DEF Log!SameOrder
<1>2. /\ StreamInvariant /\ StreamInvariant' /\ CommitInvariant /\ Log!SameOrder /\ [Next]_vars
      => Log!SameOrder'
  BY LogStepKeepsOrder
<1> QED
  BY <1>1, <1>2, StreamsHold, CommitsHold, PTL DEF Spec

\* What bounds the retry loops of commitProtocolRecords: a writer never builds
\* more than its bindings and has a number of steps left.
THEOREM StepsAreCounted == Spec => [](\A w \in Writers : StepsLeft(w) \in Nat)
<1>1. Init => ChainsWithinRoutes
  BY InitWithinRoutes
<1>2. StreamInvariant /\ ChainsWithinRoutes => \A w \in Writers : StepsLeft(w) \in Nat
  BY StepsLeftIsNat DEF StreamInvariant
<1> QED
  BY <1>1, <1>2, WithinRoutesStep, StreamsHold, PTL DEF Spec

\* The bounded loops of a writer: each of its steps takes it closer to its
\* answer, a conflict or a lost answer included, and nobody else's step takes it
\* further away.  With weak fairness this is why EveryWriterAnswers.
THEOREM WritersRunOutOfSteps == Spec => StepsRunOut
<1>1. Init => ChainsWithinRoutes
  BY InitWithinRoutes
<1>2. StreamInvariant /\ StreamInvariant' /\ ChainsWithinRoutes /\ [Next]_vars =>
        UNCHANGED vars \/ \A w \in Writers : /\ WriterStep(w) => StepsLeft(w)' < StepsLeft(w)
                                             /\ StepsLeft(w)' <= StepsLeft(w)
  BY EveryStepCounts
<1> QED
  BY <1>1, <1>2, WithinRoutesStep, StreamsHold, PTL DEF Spec, StepsRunOut
=============================================================================
