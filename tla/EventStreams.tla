---------------------------- MODULE EventStreams ----------------------------
(***************************************************************************)
(* The hash-chained event streams (protocol/events) and the store commits   *)
(* that append to them.                                                     *)
(*                                                                          *)
(* Every transition commits its records together with a chain of events,    *)
(* one event per stream partition the transition touches.  A writer builds  *)
(* the chain on the tails it reads, one await per event, and commits; the   *)
(* store turns the commit down when another writer took one of the offsets, *)
(* and the writer starts over on fresh tails, MaxRetries times.             *)
(*                                                                          *)
(* A digest is the identity of the event it digests.  A partition stands    *)
(* for a stream id together with a partition key.                           *)
(***************************************************************************)
EXTENDS Integers, Sequences, FiniteSets

CONSTANTS
  Writers,        \* one-shot transitions that append events
  Partitions,     \* stream partitions
  Keys,           \* what the commits must not create twice
  Bindings,       \* writer -> the partition of each of its events, in order
  RefusalBindings, \* writer -> those of the refusal it commits instead, or <<>>
  KeyOf,          \* writer -> the key its commit claims, or None
  GatewayWriters, \* the writers that consume a greenlight and emit a receipt
  BreakerWriters, \* the writers that bind to an observed watermark
  MaxRetries,     \* MAX_STREAM_COMMIT_RETRIES
  Store,          \* "memory" or "d1"
  None            \* null

VARIABLES
  events,    \* stream_events
  holder,    \* key -> the writer whose commit claimed it
  receipts,  \* the stream references of each receipt
  observed,  \* breaker -> the watermark its recorded decision binds to
  pc,        \* where each writer is
  plan,      \* what each writer has built so far
  told       \* what each writer answered its caller

storeVars == <<events, holder, receipts, observed>>
vars == <<storeVars, pc, plan, told>>

Phases == {"main", "refusal"}
Attempts == 0 .. MaxRetries

\* The event that a writer builds at a step of an attempt; also its digest.
Digest == [writer : Writers, phase : Phases, attempt : Attempts, step : Nat]
Event == [digest : Digest, partition : Partitions, offset : Nat, previous : Digest \cup {None}]
Position == [offset : Nat, digest : Digest]
Watermark == [partition : Partitions, offset : Nat, digest : Digest]
References == [Partitions -> Position \cup {None}]
Plan == [phase : Phases, attempt : Attempts, chain : Seq(Event), tails : References,
         watermark : Watermark \cup {None}]
Answers == {"pending", "committed", "refused", "key_conflict", "stream_append_conflict",
            "watermark_refused", "failed"}

ASSUME StreamConstants ==
  /\ Bindings \in [Writers -> Seq(Partitions) \ {<<>>}]
  /\ RefusalBindings \in [Writers -> Seq(Partitions)]
  /\ KeyOf \in [Writers -> Keys \cup {None}]
  /\ GatewayWriters \subseteq Writers
  /\ \A w \in GatewayWriters : RefusalBindings[w] # <<>>
  /\ BreakerWriters \subseteq Writers
  /\ MaxRetries \in Nat
  /\ Store \in {"memory", "d1"}

ASSUME NoneIsNull ==
  /\ None \notin Writers
  /\ None \notin Position
  /\ None \notin Digest
  /\ None \notin Watermark

TypeOK ==
  /\ events \in SUBSET Event
  /\ holder \in [Keys -> Writers \cup {None}]
  /\ receipts \in SUBSET [writer : Writers, phase : Phases, refs : References]
  /\ observed \in [Writers -> Watermark \cup {None}]
  /\ pc \in [Writers -> {"idle", "build", "commit", "done"}]
  /\ plan \in [Writers -> Plan]
  /\ told \in [Writers -> Answers]

NoTails == [p \in Partitions |-> None]

\* A chain to be built on fresh tails.
Fresh(phase, attempt, watermark) ==
  [phase |-> phase, attempt |-> attempt, chain |-> <<>>, tails |-> NoTails, watermark |-> watermark]

Init ==
  /\ events = {}
  /\ holder = [k \in Keys |-> None]
  /\ receipts = {}
  /\ observed = [w \in Writers |-> None]
  /\ pc = [w \in Writers |-> "idle"]
  /\ plan = [w \in Writers |-> Fresh("main", 0, None)]
  /\ told = [w \in Writers |-> "pending"]

Chain(w) == {plan[w].chain[i] : i \in DOMAIN plan[w].chain}
In(S, p) == {e \in S : e.partition = p}

Answer(w, answer) ==
  /\ pc' = [pc EXCEPT ![w] = "done"]
  /\ told' = [told EXCEPT ![w] = answer]

Rebuild(w, phase, attempt) ==
  /\ plan' = [plan EXCEPT ![w] = Fresh(phase, attempt, plan[w].watermark)]
  /\ pc' = [pc EXCEPT ![w] = "build"]
  /\ UNCHANGED <<storeVars, told>>

(***************************************************************************)
(* Starting                                                                 *)
(***************************************************************************)
Begin(w) ==
  /\ pc[w] = "idle"
  /\ w \notin BreakerWriters
  /\ pc' = [pc EXCEPT ![w] = "build"]
  /\ UNCHANGED <<storeVars, plan, told>>

\* A watermark a listener may hold: of a stored event, or of one that was seen
\* while its writer was still to commit it.
Watermarks ==
  {[partition |-> e.partition, offset |-> e.offset, digest |-> e.digest] :
     e \in events \cup UNION {Chain(w) : w \in Writers}}

\* An assertion that compares offsets only.
ObservedAtSomeDigest(mark) ==
  \E e \in events : e.partition = mark.partition /\ e.offset = mark.offset

\* getStreamEvent and the digest comparison of assertObservedWatermarks
ObservedWatermarkHolds(mark) ==
  \E e \in events :
    e.partition = mark.partition /\ e.offset = mark.offset /\ e.digest = mark.digest

AssertObservedWatermark(w, mark) ==
  /\ pc[w] = "idle"
  /\ w \in BreakerWriters
  /\ \/ /\ ObservedWatermarkHolds(mark)
        /\ plan' = [plan EXCEPT ![w].watermark = mark]
        /\ pc' = [pc EXCEPT ![w] = "build"]
        /\ UNCHANGED told
     \/ /\ ~ObservedWatermarkHolds(mark)
        /\ Answer(w, "watermark_refused")
        /\ UNCHANGED plan
  /\ UNCHANGED storeVars

(***************************************************************************)
(* buildEventChain                                                          *)
(***************************************************************************)
Route(w) == IF plan[w].phase = "main" THEN Bindings[w] ELSE RefusalBindings[w]

\* getStreamTail of a partition that has events: the greatest offset.
StreamTail(p) ==
  LET last == CHOOSE e \in In(events, p) : \A f \in In(events, p) : f.offset <= e.offset
  IN [offset |-> last.offset, digest |-> last.digest]

\* The tail to build on: what this chain put there, else what the store has.
TailFor(w, p) ==
  IF plan[w].tails[p] # None THEN plan[w].tails[p]
  ELSE IF In(events, p) = {} THEN None ELSE StreamTail(p)

\* buildEventAt the next offset of the partition
EventAfter(w, p, tail) ==
  [digest |-> [writer |-> w, phase |-> plan[w].phase, attempt |-> plan[w].attempt,
               step |-> Len(plan[w].chain)],
   partition |-> p,
   offset |-> IF tail = None THEN 0 ELSE tail.offset + 1,
   previous |-> IF tail = None THEN None ELSE tail.digest]

BuildEvent(w) ==
  /\ pc[w] = "build"
  /\ LET step == Len(plan[w].chain) + 1
         p == Route(w)[step]
         event == EventAfter(w, p, TailFor(w, p))
     IN /\ plan' = [plan EXCEPT
             ![w].chain = Append(@, event),
             ![w].tails = [@ EXCEPT ![p] = [offset |-> event.offset, digest |-> event.digest]]]
        /\ pc' = [pc EXCEPT ![w] = IF step = Len(Route(w)) THEN "commit" ELSE "build"]
  /\ UNCHANGED <<storeVars, told>>

(***************************************************************************)
(* commitProtocolRecords, commitGatewayCheck and the retry loops            *)
(***************************************************************************)
SameSlot(e, f) == e.partition = f.partition /\ e.offset = f.offset

\* A commit that checks the first event of the chain only.
FirstOffsetTaken(w) == \E f \in events : SameSlot(plan[w].chain[1], f)

\* hasStreamOffset for any event of the chain; the unique index on D1
OffsetTaken(w) == \E e \in Chain(w), f \in events : SameSlot(e, f)

Keyed(w) == plan[w].phase = "main" /\ KeyOf[w] # None
KeyTaken(w) == Keyed(w) /\ holder[KeyOf[w]] # None

\* References to the first event put in each partition.
FirstReferences(w) ==
  [p \in Partitions |->
     IF In(Chain(w), p) = {} THEN None
     ELSE LET first == CHOOSE e \in In(Chain(w), p) : \A f \in In(Chain(w), p) : e.offset <= f.offset
          IN [offset |-> first.offset, digest |-> first.digest]]

\* receiptStreamReferencesForEvents: the last event put in each partition
ReceiptStreamReferences(w) ==
  [p \in Partitions |->
     IF In(Chain(w), p) = {} THEN None
     ELSE LET last == CHOOSE e \in In(Chain(w), p) : \A f \in In(Chain(w), p) : f.offset <= e.offset
          IN [offset |-> last.offset, digest |-> last.digest]]

\* Everything a commit writes, in one step of the store.
Land(w) ==
  /\ ~KeyTaken(w)
  /\ ~OffsetTaken(w)
  /\ events' = events \cup Chain(w)
  /\ holder' = IF Keyed(w) THEN [holder EXCEPT ![KeyOf[w]] = w] ELSE holder
  /\ receipts' = receipts \cup
       {[writer |-> w, phase |-> plan[w].phase, refs |-> ReceiptStreamReferences(w)] :
          x \in {w} \cap GatewayWriters}
  /\ observed' = [observed EXCEPT ![w] = plan[w].watermark]

Commit(w) ==
  /\ pc[w] = "commit"
  /\ Land(w)
  /\ Answer(w, IF plan[w].phase = "main" THEN "committed" ELSE "refused")
  /\ UNCHANGED plan

\* A handler that goes back to the commit whose key is taken.
KeyConflictRetried(w) ==
  /\ pc[w] = "commit"
  /\ KeyTaken(w)
  /\ Rebuild(w, "main", 0)

\* The key is taken, whatever the offsets: a refusal with a chain and retries
\* of its own, or the error is the answer.
KeyConflict(w) ==
  /\ pc[w] = "commit"
  /\ KeyTaken(w)
  /\ IF RefusalBindings[w] # <<>> THEN Rebuild(w, "refusal", 0)
     ELSE Answer(w, "key_conflict") /\ UNCHANGED <<storeVars, plan>>

\* A retry loop that keeps the chain it built.
StaleStreamConflict(w) ==
  /\ pc[w] = "commit"
  /\ ~KeyTaken(w)
  /\ OffsetTaken(w)
  /\ IF plan[w].attempt < MaxRetries
     THEN /\ plan' = [plan EXCEPT ![w].attempt = @ + 1]
          /\ UNCHANGED <<storeVars, pc, told>>
     ELSE Answer(w, "stream_append_conflict") /\ UNCHANGED <<storeVars, plan>>

\* An offset is taken: build again on fresh tails, or give up.
StreamConflict(w) ==
  /\ pc[w] = "commit"
  /\ ~KeyTaken(w)
  /\ OffsetTaken(w)
  /\ IF plan[w].attempt < MaxRetries
     THEN Rebuild(w, plan[w].phase, plan[w].attempt + 1)
     ELSE Answer(w, "stream_append_conflict") /\ UNCHANGED <<storeVars, plan>>

\* The D1 batch reports an error that is no conflict, whether it landed or not.
\* The gateway looks for a consumption of its greenlight, its own included.
CommitUnknown(w) ==
  /\ Store = "d1"
  /\ pc[w] = "commit"
  /\ Land(w) \/ UNCHANGED storeVars
  /\ IF w \in GatewayWriters /\ Keyed(w) /\ holder'[KeyOf[w]] # None
     THEN /\ plan' = [plan EXCEPT ![w] = Fresh("refusal", 0, None)]
          /\ pc' = [pc EXCEPT ![w] = "build"]
          /\ UNCHANGED told
     ELSE Answer(w, "failed") /\ UNCHANGED plan

WriterStep(w) ==
  BuildEvent(w) \/ Commit(w) \/ KeyConflict(w) \/ StreamConflict(w) \/ CommitUnknown(w)

Next ==
  \/ \E w \in Writers : Begin(w)
  \/ \E w \in Writers, mark \in Watermarks : AssertObservedWatermark(w, mark)
  \/ \E w \in Writers : WriterStep(w)

Spec == Init /\ [][Next]_vars

\* A started writer is an async function with bounded loops.
FairSpec == Spec /\ \A w \in Writers : WF_vars(WriterStep(w))

(***************************************************************************)
(* Properties                                                               *)
(***************************************************************************)
\* No two events of a partition share an offset.
UniqueIn(S) == \A e, f \in S : SameSlot(e, f) => e = f

\* Below e each offset of its partition from 0 is taken in S.
GapFreeIn(e, S) == \A k \in 0 .. e.offset : \E f \in S : f.partition = e.partition /\ f.offset = k

\* The previous event of e, by offset and by digest, is in S.
LinkedIn(e, S) ==
  IF e.offset = 0 THEN e.previous = None
  ELSE \E f \in S : /\ f.partition = e.partition
                    /\ f.offset = e.offset - 1
                    /\ f.digest = e.previous

\* "a contiguous contract stream": whatever tails the writers read and in which
\* order they commit, each partition is one chain of digests without gap or fork.
ContiguousStreams ==
  /\ UniqueIn(events)
  /\ \A e \in events : GapFreeIn(e, events) /\ LinkedIn(e, events)

Commits == Writers \X Phases
CommitOf(e) == <<e.digest.writer, e.digest.phase>>
CommitsOf(S) == {CommitOf(e) : e \in S}
CommitsOfOthers(S, w) == {c \in CommitsOf(S) : c[1] # w}

\* Retries are on fresh tails: a writer gives up only after losing each attempt
\* to a different commit of another writer.
GivenUpOnlyUnderContention ==
  \A w \in Writers : told[w] = "stream_append_conflict" =>
    Cardinality(CommitsOfOthers(events, w)) > MaxRetries

\* A receipt's stream references end at stored events of its own commit, and
\* cover every event of that commit.
ReceiptReferencesHold ==
  \A r \in receipts : \A e \in events :
    e.digest.writer = r.writer /\ e.digest.phase = r.phase =>
      LET ref == r.refs[e.partition] IN
      /\ ref # None
      /\ e.offset <= ref.offset
      /\ \E f \in events : /\ f.partition = e.partition
                           /\ f.offset = ref.offset
                           /\ f.digest = ref.digest

\* "Breaker decision watermarks must bind to a durable stream event digest":
\* also by the time the decision is committed, and ever after.
WatermarksStayBound ==
  \A w \in BreakerWriters : observed[w] # None =>
    \E e \in events : /\ e.partition = observed[w].partition
                      /\ e.offset = observed[w].offset
                      /\ e.digest = observed[w].digest

\* Every started writer answers, whatever conflicts and retries it meets: writers
\* are one-shot, so in the end none is under way.
EveryWriterAnswers == <>[](\A w \in Writers : pc[w] \in {"idle", "done"})

(***************************************************************************)
(* Why the streams stay contiguous: the inductive strengthening             *)
(***************************************************************************)
Greatest(e, S) == \A f \in S : f.offset <= e.offset

\* The store: contiguous, and getStreamTail finds the end of each partition.
StoreFits(S) ==
  /\ UniqueIn(S)
  /\ \A e \in S : GapFreeIn(e, S) /\ LinkedIn(e, S)
  /\ \A p \in Partitions : In(S, p) # {} => \E e \in In(S, p) : Greatest(e, In(S, p))

\* The tails a writer remembers are the ends of its own chain C.
TailsFit(C, tails) ==
  \A p \in Partitions :
    IF tails[p] = None THEN In(C, p) = {}
    ELSE \E e \in In(C, p) : /\ tails[p].offset = e.offset
                            /\ tails[p].digest = e.digest
                            /\ Greatest(e, In(C, p))

\* A chain C continues the store S and itself, with no slot used twice; it may
\* by now collide with S, which is what the commit looks for.
ChainFits(C, tails, S) ==
  /\ UniqueIn(C)
  /\ \A e \in C : GapFreeIn(e, S \cup C) /\ LinkedIn(e, S \cup C)
  /\ TailsFit(C, tails)

\* A writer still has an event to build as long as it builds.
InRoute ==
  \A w \in Writers :
    /\ Route(w) # <<>>
    /\ pc[w] = "idle" => plan[w].chain = <<>>
    /\ pc[w] = "build" => Len(plan[w].chain) < Len(Route(w))

\* A watermark once found stays found: nothing is removed from the streams.
WatermarksHold ==
  \A w \in Writers :
    /\ plan[w].watermark # None => ObservedWatermarkHolds(plan[w].watermark)
    /\ observed[w] # None => ObservedWatermarkHolds(observed[w])

StreamInvariant ==
  /\ TypeOK
  /\ InRoute
  /\ StoreFits(events)
  /\ \A w \in Writers : ChainFits(Chain(w), plan[w].tails, events)
  /\ WatermarksHold

(***************************************************************************)
(* Why a commit lands at most once, and what a writer lost its attempts to  *)
(***************************************************************************)
\* The commits a writer cannot make any more: it answered, or it has given up
\* its main commit, which may have landed all the same, for a refusal.
Closed(w, phase) == pc[w] = "done" \/ (phase = "main" /\ plan[w].phase = "refusal")

\* A chain belongs to the commit its writer is at, and nothing is stored of a
\* commit that can still be made.
CommitsLandOnce ==
  /\ \A w \in Writers : \A e \in Chain(w) : CommitOf(e) = <<w, plan[w].phase>>
  /\ \A e \in events : Closed(e.digest.writer, e.digest.phase)
  /\ \A r \in receipts : Closed(r.writer, r.phase)

\* S may be what was stored when the current attempt of w began: as many commits
\* of others as attempts were lost, and all there is of w.  The chain of w goes
\* beyond the events in S, so that only a later commit can take its offsets.
MetAtStart(w, S) ==
  /\ \A e \in events : e.digest.writer = w => e \in S
  /\ Cardinality(CommitsOfOthers(S, w)) >= plan[w].attempt
  /\ \A e \in Chain(w), f \in events :
       CommitOf(f) \in CommitsOf(S) /\ f.partition = e.partition => f.offset < e.offset

AttemptsLostToOthers ==
  \A w \in Writers : pc[w] # "done" => \E S \in SUBSET events : MetAtStart(w, S)

CommitInvariant ==
  /\ IsFiniteSet(events)
  /\ CommitsLandOnce
  /\ ReceiptReferencesHold
  /\ AttemptsLostToOthers
  /\ GivenUpOnlyUnderContention

(***************************************************************************)
(* Why a writer's loops end                                                 *)
(***************************************************************************)
ChainsWithinRoutes == \A w \in Writers : Len(plan[w].chain) <= Len(Route(w))

\* More than the events of either chain of a writer.
RouteBound(w) == Len(Bindings[w]) + Len(RefusalBindings[w]) + 1

\* The steps a writer has left at most: the events to build, the attempts that
\* remain, and a refusal with attempts of its own.
StepsLeft(w) ==
  IF pc[w] = "done" THEN 0
  ELSE 1 + (Len(Route(w)) - Len(plan[w].chain))
         + RouteBound(w) * (MaxRetries - plan[w].attempt)
         + (IF plan[w].phase = "main" THEN RouteBound(w) * (MaxRetries + 1) ELSE 0)

\* Whatever the store answers and however writers interleave, every step of a
\* writer that has started uses up some of what it has left, and no step of
\* another writer adds to it.
StepsRunOut ==
  [][\A w \in Writers : /\ WriterStep(w) => StepsLeft(w)' < StepsLeft(w)
                        /\ StepsLeft(w)' <= StepsLeft(w)]_vars

(***************************************************************************)
(* The abstract promise                                                     *)
(***************************************************************************)
\* The commits stored at an offset of a partition.
CommitsAt(p, offset) == CommitsOf({e \in In(events, p) : e.offset = offset})

Log == INSTANCE AtomicAppendLog
  WITH Commits <- {{c} : c \in Commits},
       log <- [p \in Partitions |-> [i \in 1 .. Cardinality(In(events, p)) |-> CommitsAt(p, i - 1)]]

LogSpec == Log!Spec
=============================================================================
