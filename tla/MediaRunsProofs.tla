---------------------------- MODULE MediaRunsProofs ----------------------------
(***************************************************************************)
(* Proofs about MediaRuns, for any number of runs, requests and frames,    *)
(* any video, stride and limit, both stores, any number of restarts.       *)
(***************************************************************************)
EXTENDS MediaRuns, NatFacts, FiniteSetTheorems

(***************************************************************************)
(* The loop of the media worker keeps every stride-th frame: after any     *)
(* number of frames, what is kept are the first c multiples of the stride, *)
(* and the next multiple is still to come unless the limit is reached.     *)
(***************************************************************************)

LEMMA Multiple ==
  ASSUME NEW n \in Nat, NEW s \in Nat \ {0}
  PROVE  /\ n % s = 0 => n = (n \div s) * s /\ n \div s \in Nat
         /\ (n * s) % s = 0
OBVIOUS

LEMMA Monotone ==
  ASSUME NEW a \in Nat, NEW b \in Nat, NEW s \in Nat \ {0}
  PROVE  a * s \in Nat /\ (a * s < b * s => a < b) /\ (a <= b => a * s <= b * s) /\ (a + 1) * s = a * s + s
OBVIOUS

KeptBy(f, stride, limit) ==
  /\ f[0] = {}
  /\ \A n \in Nat : f[n + 1] = IF Cardinality(f[n]) < limit /\ n % stride = 0
                               THEN f[n] \union {n} ELSE f[n]

\* The loop of extract, unfolded: frame n is kept or not, after those before it.
LEMMA KeptUnfolds ==
  ASSUME NEW total \in Nat, NEW stride \in Nat \ {0}, NEW limit \in Nat
  PROVE  \E f \in [Nat -> SUBSET Nat] : KeptBy(f, stride, limit) /\ KeptFrames(total, stride, limit) = f[total]
<1> DEFINE more(n, s) == IF Cardinality(s) < limit /\ n % stride = 0 THEN s \union {n} ELSE s
           step == [n \in Nat |-> [s \in SUBSET Nat |-> more(n, s)]]
           Loop(f) == [i \in Nat |->
             IF i = 0 THEN {}
             ELSE IF Cardinality(f[i - 1]) < limit /\ (i - 1) % stride = 0
                  THEN f[i - 1] \union {i - 1}
                  ELSE f[i - 1]]
           kept == CHOOSE f : f = Loop(f)
<1>1. \A n \in Nat : \A s \in SUBSET Nat : more(n, s) \in SUBSET Nat
  OBVIOUS
<1>2. PICK f \in [Nat -> SUBSET Nat] : f[0] = {} /\ \A n \in Nat : f[n + 1] = step[n][f[n]]
  <2>1. step \in [Nat -> [SUBSET Nat -> SUBSET Nat]]
    BY <1>1
  <2> HIDE DEF step
  <2>2. PICK A, none : A = SUBSET Nat /\ none = {}
    OBVIOUS
  <2>3. none \in A /\ step \in [Nat -> [A -> A]]
    BY <2>1, <2>2
  <2>4. \E f \in [Nat -> A] : Follows(f, none, step)
    BY <2>3, RecursionExists
  <2> QED  BY <2>2, <2>4 DEF Follows
<1>3. \A n \in Nat : f[n + 1] = more(n, f[n])
  BY <1>2
<1>4. f = Loop(f)
  <2>1. ASSUME NEW i \in Nat PROVE f[i] = Loop(f)[i]
    <3>1. CASE i = 0
      BY <1>2, <3>1
    <3>2. CASE i # 0
      <4>1. i - 1 \in Nat /\ (i - 1) + 1 = i
        BY <3>2
      <4>2. f[i] = more(i - 1, f[i - 1])
        BY <1>3, <4>1
      <4> QED  BY <3>2, <4>2
    <3> QED  BY <3>1, <3>2
  <2> QED  BY <1>2, <2>1
<1>5. kept = Loop(kept)
  <2> HIDE DEF Loop
  <2> QED  BY <1>4
<1>6. PICK k : k = kept
  OBVIOUS
<1>7. k = Loop(k)
  BY <1>5, <1>6
<1>8. KeptFrames(total, stride, limit) = k[total]
  BY <1>6 DEF KeptFrames
<1>9. k[0] = {} /\ \A n \in Nat : k[n + 1] = more(n, k[n])
  <2>1. \A i \in Nat : k[i] = Loop(k)[i]
    BY <1>7
  <2>2. k[0] = {}
    BY <2>1
  <2>3. ASSUME NEW n \in Nat PROVE k[n + 1] = more(n, k[n])
    <3>1. n + 1 \in Nat /\ n + 1 # 0 /\ (n + 1) - 1 = n
      OBVIOUS
    <3>2. k[n + 1] = Loop(k)[n + 1]
      BY <2>1, <3>1
    <3>3. Loop(k)[n + 1] = more((n + 1) - 1, k[(n + 1) - 1])
      BY <3>1
    <3> QED  BY <3>1, <3>2, <3>3
  <2> QED  BY <2>2, <2>3
<1>10. k \in [Nat -> SUBSET Nat]
  <2> DEFINE Fine == {n \in Nat : k[n] \in SUBSET Nat}
  <2>1. 0 \in Fine
    BY <1>9
  <2>2. ASSUME NEW n \in Nat, n \in Fine PROVE n + 1 \in Fine
    <3> HIDE DEF more
    <3> QED  BY <1>1, <1>9, <2>2
  <2>3. \A n \in Nat : n \in Fine
    <3> HIDE DEF Fine
    <3> QED  BY <2>1, <2>2, SetInduction
  <2>4. k = [n \in Nat |-> k[n]]
    BY <1>7
  <2> QED  BY <2>3, <2>4
<1>11. KeptBy(k, stride, limit)
  BY <1>9 DEF KeptBy
<1> QED  BY <1>8, <1>10, <1>11

Marks(stride, n) == {k * stride : k \in 0..(n - 1)}

\* After n frames c of them are kept: the first c multiples of the stride.
LEMMA KeptIsSampled ==
  ASSUME NEW total \in Nat, NEW stride \in Nat \ {0}, NEW limit \in Nat
  PROVE  \E c \in 0..limit :
           /\ KeptFrames(total, stride, limit) = Marks(stride, c)
           /\ IsFiniteSet(Marks(stride, c)) /\ Cardinality(Marks(stride, c)) = c
           /\ \A k \in 0..(c - 1) : k * stride < total
           /\ c < limit => total <= c * stride
<1>0. PICK f \in [Nat -> SUBSET Nat] : KeptBy(f, stride, limit) /\ KeptFrames(total, stride, limit) = f[total]
  BY KeptUnfolds
<1>1. /\ KeptFrames(total, stride, limit) = f[total]
      /\ f[0] = {}
      /\ \A n \in Nat : f[n + 1] = IF Cardinality(f[n]) < limit /\ n % stride = 0
                                   THEN f[n] \union {n} ELSE f[n]
  BY <1>0 DEF KeptBy
<1> DEFINE Sampled(n, c) ==
             /\ f[n] = Marks(stride, c)
             /\ IsFiniteSet(f[n]) /\ Cardinality(f[n]) = c
             /\ \A k \in 0..(c - 1) : k * stride < n
             /\ c < limit => n <= c * stride
           Good == {n \in Nat : \E c \in 0..limit : Sampled(n, c)}
<1>2. 0 \in Good
  <2>1. Marks(stride, 0) = {}
    BY DEF Marks
  <2>2. Sampled(0, 0)
    BY <1>1, <2>1, FS_EmptySet
  <2> HIDE DEF Sampled
  <2> QED  BY <2>2
<1>3. ASSUME NEW n \in Nat, n \in Good PROVE n + 1 \in Good
  <2>1. PICK c \in 0..limit : Sampled(n, c)
    BY <1>3
  <2>2. f[n + 1] = IF c < limit /\ n % stride = 0 THEN f[n] \union {n} ELSE f[n]
    BY <1>1, <2>1
  <2>3. CASE c < limit /\ n % stride = 0
    <3> DEFINE q == n \div stride
    <3>1. q \in Nat /\ n = q * stride
      BY <2>3, Multiple
    <3>2. q = c
      <4> HIDE DEF q
      <4>1. q * stride <= c * stride
        BY <2>1, <2>3, <3>1
      <4>2. q <= c
        BY <3>1, <4>1, Monotone
      <4>3. c # 0 => (c - 1) * stride < q * stride /\ c - 1 \in Nat
        BY <2>1, <3>1
      <4>4. c # 0 => c - 1 < q
        BY <3>1, <4>3, Monotone
      <4> QED  BY <3>1, <4>2, <4>4
    <3>3. n = c * stride
      BY <3>1, <3>2
    <3>4. f[n + 1] = f[n] \union {n}
      BY <2>2, <2>3
    <3>5. f[n + 1] = Marks(stride, c + 1)
      <4>1. 0..((c + 1) - 1) = 0..(c - 1) \union {c}
        OBVIOUS
      <4>2. Marks(stride, c + 1) = Marks(stride, c) \union {c * stride}
        BY <4>1 DEF Marks
      <4> QED  BY <2>1, <3>3, <3>4, <4>2
    <3>6. n \notin f[n]
      BY <2>1 DEF Marks
    <3>7. IsFiniteSet(f[n + 1]) /\ Cardinality(f[n + 1]) = c + 1
      <4>1. IsFiniteSet(f[n]) /\ Cardinality(f[n]) = c
        BY <2>1
      <4>2. IsFiniteSet(f[n] \union {n}) /\ Cardinality(f[n] \union {n}) = Cardinality(f[n]) + 1
        BY <3>6, <4>1, FS_AddElement
      <4> QED  BY <3>4, <4>1, <4>2
    <3>8. \A k \in 0..c : k * stride < n + 1
      <4> SUFFICES ASSUME NEW k \in 0..c PROVE k * stride < n + 1
        OBVIOUS
      <4> QED  BY <3>3, Monotone
    <3>9. n + 1 <= (c + 1) * stride
      BY <3>3, Monotone
    <3>10. c + 1 \in 0..limit
      BY <2>3
    <3>11. Sampled(n + 1, c + 1)
      BY <3>5, <3>7, <3>8, <3>9
    <3> HIDE DEF Sampled
    <3> QED  BY <3>10, <3>11
  <2>4. CASE ~(c < limit /\ n % stride = 0)
    <3>1. f[n + 1] = f[n]
      BY <2>2, <2>4
    <3>2. c < limit => n + 1 <= c * stride
      <4> SUFFICES ASSUME c < limit PROVE n + 1 <= c * stride
        OBVIOUS
      <4>1. n % stride # 0 /\ n <= c * stride /\ c * stride \in Nat
        BY <2>1, <2>4, Monotone
      <4>2. (c * stride) % stride = 0
        BY Multiple
      <4> QED  BY <4>1, <4>2
    <3>3. \A k \in 0..(c - 1) : k * stride < n + 1
      <4> SUFFICES ASSUME NEW k \in 0..(c - 1) PROVE k * stride < n + 1
        OBVIOUS
      <4>1. k * stride < n
        BY <2>1
      <4>2. k \in Nat /\ k * stride \in Nat
        BY Monotone
      <4> QED  BY <4>1, <4>2
    <3>4. Sampled(n + 1, c)
      BY <2>1, <3>1, <3>2, <3>3
    <3> HIDE DEF Sampled
    <3> QED  BY <3>4
  <2> QED  BY <2>3, <2>4
<1>4. total \in Good
  <2> HIDE DEF Good
  <2> QED  BY <1>2, <1>3, SetInduction
<1> QED  BY <1>1, <1>4

\* What is kept is every stride-th frame of the video, at most the limit.
LEMMA KeptIsExact ==
  ASSUME NEW total \in Nat, NEW stride \in Nat \ {0}, NEW limit \in Nat
  PROVE  /\ KeptFrames(total, stride, limit) = {k * stride : k \in 0..(limit - 1)} \intersect 0..(total - 1)
         /\ Cardinality(KeptFrames(total, stride, limit)) \in 0..limit
<1>1. PICK c \in 0..limit :
           /\ KeptFrames(total, stride, limit) = Marks(stride, c)
           /\ IsFiniteSet(Marks(stride, c)) /\ Cardinality(Marks(stride, c)) = c
           /\ \A k \in 0..(c - 1) : k * stride < total
           /\ c < limit => total <= c * stride
  BY KeptIsSampled
<1>2. ASSUME NEW k \in 0..(c - 1) PROVE k \in 0..(limit - 1) /\ k * stride \in 0..(total - 1)
  BY <1>1, Monotone
<1>3. ASSUME NEW k \in 0..(limit - 1), k * stride \in 0..(total - 1) PROVE k \in 0..(c - 1)
  <2> SUFFICES ASSUME c <= k PROVE FALSE
    OBVIOUS
  <2>1. c < limit /\ c * stride <= k * stride /\ c * stride \in Nat /\ k * stride \in Nat
    BY Monotone
  <2> QED  BY <1>1, <1>3, <2>1
<1>4. Marks(stride, c) = {k * stride : k \in 0..(limit - 1)} \intersect 0..(total - 1)
  BY <1>2, <1>3 DEF Marks
<1> QED  BY <1>1, <1>4

\* The stride is the product of rate and interval, rounded.
LEMMA StrideIsNear ==
  ASSUME NEW q \in Nat, q >= 4
  PROVE  4 * FrameStride(q) \in (q - 2)..(q + 2)
BY DEF FrameStride, RoundQuarters

\* The frames kept are the ones asked for: extract of the media worker.
THEOREM SamplingStaysExact == MdSpec => []SamplingIsExact
<1>1. SamplingIsExact
  <2>1. \A total \in 0..MdVideo, stride \in 1..MdVideo, limit \in 1..MdVideo :
          KeptFrames(total, stride, limit) = {k * stride : k \in 0..(limit - 1)} \intersect 0..(total - 1)
    <3> SUFFICES ASSUME NEW total \in 0..MdVideo, NEW stride \in 1..MdVideo, NEW limit \in 1..MdVideo
                 PROVE  KeptFrames(total, stride, limit)
                          = {k * stride : k \in 0..(limit - 1)} \intersect 0..(total - 1)
      OBVIOUS
    <3>1. total \in Nat /\ stride \in Nat \ {0} /\ limit \in Nat
      BY MediaRunsAssumption
    <3> QED  BY <3>1, KeptIsExact
  <2>2. \A q \in 4..(4 * MdVideo) : 4 * FrameStride(q) \in (q - 2)..(q + 2)
    BY StrideIsNear, MediaRunsAssumption
  <2> QED  BY <2>1, <2>2 DEF SamplingIsExact
<1> QED  BY <1>1, PTL

(***************************************************************************)
(* The invariant, part one: what thread, row and tasks of a run can be to  *)
(* each other.  t, row and tasks are those of one run.                     *)
(***************************************************************************)

BeforeFrames == {"absent", "queued", "load", "markExtracting", "source", "extract"}

PhaseOK(t, row, tasks) ==
  /\ t.pc = "absent" => row = NoMediaRun
  /\ t.pc \in {"queued", "load", "markExtracting"} => row.status = "queued" /\ row.frames = {}
  /\ t.pc \in {"source", "extract", "frames", "record", "fail"} => row.status = "extracting" /\ row.frames = {}
  /\ t.pc \in {"markExtracting", "source", "extract", "frames", "record", "fail"} => t.local = row
  /\ t.pc \in BeforeFrames => t.made = 0
  /\ t.pc = "frames" => t.made < t.total
  /\ t.pc = "record" => t.made = t.total /\ t.total > 0
  /\ t.pc = "done" => \/ row.status = "failed"
                      \/ /\ row.status \in {"running", "completed"}
                         /\ row.frames = 1..t.total /\ t.total > 0 /\ t.made = t.total
  /\ t.pc = "lost" => row.status = "failed"
  /\ \A f \in MdFrame : tasks[f] = "absent" <=> f > t.made

\* A refresh under way is about a run whose thread is done, and has its frames.
RefreshOK(q) ==
  LET w == mdRefresh[q] IN
  w.pc # "idle" =>
    /\ mdThread[w.run].pc = "done"
    /\ mdRow[w.run].status \in {"running"} \union MdSettled
    /\ w.snapshot.status = "running" /\ w.snapshot.frames = mdRow[w.run].frames
    /\ w.snapshot.frames \subseteq 1..mdThread[w.run].made
    /\ w.todo \subseteq w.snapshot.frames
    /\ w.pc = "read" => w.todo # {}
    /\ w.pc = "store" => w.todo = {}

(***************************************************************************)
(* Part two: a frame task that has completed never fails and the other way *)
(* round, also when a cancellation has hidden which it was.  `said` is     *)
(* what a frame has said so far: "ok", "bad", or "open" as long as it may  *)
(* still say either.  Refreshes and rows that disagree would need a frame  *)
(* that said both.                                                         *)
(***************************************************************************)

SaidType == [MdRun -> [MdFrame -> {"ok", "bad", "open"}]]

SaidByTasks(said) ==
  \A r \in MdRun, f \in MdFrame :
    /\ mdTask[r][f] = "completed" => said[r][f] = "ok"
    /\ mdTask[r][f] = "failed" => said[r][f] = "bad"
    /\ mdTask[r][f] \in {"absent", "active", "fading"} => said[r][f] = "open"

HeardBy(said, q) ==
  LET w == mdRefresh[q]  heard == w.snapshot.frames \ w.todo IN
  w.pc # "idle" =>
    /\ "failed" \in w.seen => \E f \in heard : said[w.run][f] = "bad"
    /\ w.seen \subseteq {"completed"} => \A f \in heard : said[w.run][f] = "ok"
    /\ mdRow[w.run].status = "failed" => \E f \in w.snapshot.frames : said[w.run][f] = "bad"

ToldByRow(said, r) ==
  mdRow[r].status = "completed" => \A f \in mdRow[r].frames : said[r][f] = "ok"

Consistent(said) ==
  /\ SaidByTasks(said)
  /\ \A q \in MdRefresh : HeardBy(said, q)
  /\ \A r \in MdRun : ToldByRow(said, r)

MdInv ==
  /\ MediaRunsTypeOK
  /\ \A r \in MdRun : PhaseOK(mdThread[r], mdRow[r], mdTask[r])
  /\ \A q \in MdRefresh : RefreshOK(q)
  /\ \E said \in SaidType : Consistent(said)

--------------------------------------------------------------------------
LEMMA MdTypes ==
  /\ NoMediaRun \in MdRowType
  /\ NoRefresh \in MdRefreshType /\ NoRefresh.pc = "idle"
  /\ MdFrame \subseteq Nat \ {0}
  /\ \A n \in 0..MdMaxFrames : 1..n \subseteq MdFrame
BY MediaRunsAssumption DEF NoMediaRun, MdRowType, NoRefresh, MdRefreshType, MdFrame, MdSettled

LEMMA MdInitInv == ASSUME MdInit PROVE MdInv
<1> DEFINE t == [pc |-> "absent", local |-> NoMediaRun, total |-> 0, made |-> 0]
<1>1. t \in MdThreadType
  BY MdTypes, MediaRunsAssumption DEF MdThreadType
<1>2. MediaRunsTypeOK
  BY <1>1, MdTypes, MediaRunsAssumption DEF MdInit, MediaRunsTypeOK, TaskState
<1>3. \A r \in MdRun : PhaseOK(mdThread[r], mdRow[r], mdTask[r])
  BY MdTypes DEF MdInit, PhaseOK, NoMediaRun
<1>4. \A q \in MdRefresh : RefreshOK(q)
  BY MdTypes DEF MdInit, RefreshOK
<1>5. Consistent([r \in MdRun |-> [f \in MdFrame |-> "open"]])
  BY MdTypes DEF MdInit, Consistent, SaidByTasks, HeardBy, ToldByRow, NoMediaRun
<1>6. [r \in MdRun |-> [f \in MdFrame |-> "open"]] \in SaidType
  BY DEF SaidType
<1> QED  BY <1>2, <1>3, <1>4, <1>5, <1>6 DEF MdInv

(***************************************************************************)
(* Steps of a run's own thread, and its creation.  No refresh is about     *)
(* that run, and it has said nothing about its frames in its row.          *)
(***************************************************************************)

RunMoves(r, t, row, tasks) ==
  /\ mdThread' = [mdThread EXCEPT ![r] = t]
  /\ mdRow' = [mdRow EXCEPT ![r] = row]
  /\ mdTask' = [mdTask EXCEPT ![r] = tasks]
  /\ UNCHANGED <<mdStore, mdSource, mdRefresh, mdRestarts>>

LEMMA RunMovesKeep ==
  ASSUME MdInv, NEW r \in MdRun, NEW t \in MdThreadType, NEW row \in MdRowType,
         NEW tasks \in [MdFrame -> TaskState], RunMoves(r, t, row, tasks),
         mdThread[r].pc # "done", row.status # "completed",
         \A f \in MdFrame : tasks[f] # mdTask[r][f] => tasks[f] = "active" /\ mdTask[r][f] = "absent",
         PhaseOK(t, row, tasks)
  PROVE  MdInv'
<1>1. MediaRunsTypeOK'
  BY DEF RunMoves, MdInv, MediaRunsTypeOK
<1>2. /\ mdThread'[r] = t /\ mdRow'[r] = row /\ mdTask'[r] = tasks
      /\ \A o \in MdRun \ {r} : mdThread'[o] = mdThread[o] /\ mdRow'[o] = mdRow[o] /\ mdTask'[o] = mdTask[o]
      /\ mdRefresh' = mdRefresh
  BY DEF RunMoves, MdInv, MediaRunsTypeOK
<1>3. \A o \in MdRun : PhaseOK(mdThread[o], mdRow[o], mdTask[o])'
  BY <1>2 DEF MdInv, PhaseOK
<1>4. ASSUME NEW q \in MdRefresh, mdRefresh[q].pc # "idle"
      PROVE  mdRefresh[q].run \in MdRun \ {r}
  <2>1. mdRefresh[q].run \in MdRun
    BY DEF MdInv, MediaRunsTypeOK, MdRefreshType
  <2>2. mdThread[mdRefresh[q].run].pc = "done"
    BY <1>4 DEF MdInv, RefreshOK
  <2> QED  BY <2>1, <2>2
<1>5. \A q \in MdRefresh : RefreshOK(q)'
  BY <1>2, <1>4 DEF MdInv, RefreshOK
<1>6. PICK said \in SaidType : Consistent(said)
  BY DEF MdInv
<1>7. SaidByTasks(said)'
  BY <1>2, <1>6 DEF Consistent, SaidByTasks
<1>8. \A q \in MdRefresh : HeardBy(said, q)'
  BY <1>2, <1>4, <1>6 DEF Consistent, HeardBy
<1>9. \A o \in MdRun : ToldByRow(said, o)'
  BY <1>2, <1>6 DEF Consistent, ToldByRow
<1>10. Consistent(said)'
  BY <1>7, <1>8, <1>9 DEF Consistent
<1> QED  BY <1>1, <1>3, <1>5, <1>6, <1>10 DEF MdInv

\* A step of the thread that leaves row and tasks alone.
LEMMA ThreadMoves ==
  ASSUME MdInv, NEW r \in MdRun, NEW pc, NEW t \in MdThreadType, MdStep(r, pc, t), UNCHANGED <<mdRow, mdTask>>,
         pc # "done", mdRow[r].status # "completed",
         PhaseOK(t, mdRow[r], mdTask[r])
  PROVE  MdInv'
<1>1. /\ mdRow[r] \in MdRowType /\ mdTask[r] \in [MdFrame -> TaskState]
      /\ mdRow' = [mdRow EXCEPT ![r] = mdRow[r]] /\ mdTask' = [mdTask EXCEPT ![r] = mdTask[r]]
      /\ mdThread[r].pc = pc
  BY DEF MdInv, MediaRunsTypeOK, MdStep
<1>2. RunMoves(r, t, mdRow[r], mdTask[r])
  BY <1>1 DEF RunMoves, MdStep
<1> QED  BY <1>1, <1>2, RunMovesKeep

\* A step of the thread that stores its copy.
LEMMA ThreadSaves ==
  ASSUME MdInv, NEW r \in MdRun, NEW pc, NEW next, NEW row \in MdRowType, MdSave(r, pc, next, row),
         [mdThread[r] EXCEPT !.pc = next, !.local = row] \in MdThreadType,
         pc # "done", row.status # "completed",
         PhaseOK([mdThread[r] EXCEPT !.pc = next, !.local = row], row, mdTask[r])
  PROVE  MdInv'
<1>1. /\ mdTask[r] \in [MdFrame -> TaskState] /\ mdTask' = [mdTask EXCEPT ![r] = mdTask[r]]
      /\ mdThread[r].pc = pc
  BY DEF MdInv, MediaRunsTypeOK, MdSave, MdStep
<1>2. RunMoves(r, [mdThread[r] EXCEPT !.pc = next, !.local = row], row, mdTask[r])
  BY <1>1 DEF RunMoves, MdStep, MdSave
<1> QED  BY <1>1, <1>2, RunMovesKeep

LEMMA CreateKeeps == ASSUME MdInv, NEW r \in MdRun, CreateMediaRun(r) PROVE MdInv'
<1> DEFINE t == [mdThread[r] EXCEPT !.pc = "queued"]
           row == [mdRow[r] EXCEPT !.status = "queued"]
<1>1. /\ mdThread[r] \in MdThreadType /\ mdRow[r] \in MdRowType /\ mdTask[r] \in [MdFrame -> TaskState]
      /\ PhaseOK(mdThread[r], mdRow[r], mdTask[r]) /\ mdRow[r] = NoMediaRun
  BY DEF MdInv, MediaRunsTypeOK, CreateMediaRun
<1>2. mdThread[r].pc = "absent"
  BY <1>1 DEF PhaseOK, NoMediaRun, MdThreadType, MdWorking
<1>3. t \in MdThreadType /\ t.pc = "queued" /\ t.made = mdThread[r].made
  BY <1>1 DEF MdThreadType
<1>4. row \in MdRowType /\ row.status = "queued" /\ row.frames = {}
  BY <1>1 DEF MdRowType, NoMediaRun
<1>5. RunMoves(r, t, row, mdTask[r])
  BY <1>1 DEF RunMoves, CreateMediaRun, MdInv, MediaRunsTypeOK
<1>6. PhaseOK(t, row, mdTask[r])
  BY <1>1, <1>2, <1>3, <1>4 DEF PhaseOK, BeforeFrames
<1> HIDE DEF t, row
<1> QED  BY <1>1, <1>2, <1>3, <1>4, <1>5, <1>6, RunMovesKeep

LEMMA TakeKeeps == ASSUME MdInv, NEW r \in MdRun, TakeMediaRun(r) PROVE MdInv'
<1> DEFINE t == [mdThread[r] EXCEPT !.pc = "load"]
<1>1. /\ mdThread[r] \in MdThreadType /\ PhaseOK(mdThread[r], mdRow[r], mdTask[r]) /\ mdThread[r].pc = "queued"
  BY DEF MdInv, MediaRunsTypeOK, TakeMediaRun
<1>2. t \in MdThreadType /\ t.pc = "load" /\ t.made = mdThread[r].made
  BY <1>1 DEF MdThreadType, MdWorking
<1>3. MdStep(r, "queued", t) /\ UNCHANGED <<mdRow, mdTask>>
  BY DEF TakeMediaRun, MdStep
<1>4. PhaseOK(t, mdRow[r], mdTask[r]) /\ mdRow[r].status = "queued"
  BY <1>1, <1>2 DEF PhaseOK, BeforeFrames
<1> HIDE DEF t
<1> QED  BY <1>2, <1>3, <1>4, ThreadMoves

LEMMA LoadKeeps == ASSUME MdInv, NEW r \in MdRun, LoadMediaRun(r) PROVE MdInv'
<1> DEFINE t == [mdThread[r] EXCEPT !.pc = "markExtracting", !.local = mdRow[r]]
<1>1. /\ mdThread[r] \in MdThreadType /\ mdRow[r] \in MdRowType /\ PhaseOK(mdThread[r], mdRow[r], mdTask[r])
      /\ mdThread[r].pc = "load" /\ MdStep(r, "load", t) /\ UNCHANGED <<mdRow, mdTask>>
  BY DEF MdInv, MediaRunsTypeOK, LoadMediaRun, MdStep
<1>2. t \in MdThreadType /\ t.pc = "markExtracting" /\ t.made = mdThread[r].made /\ t.local = mdRow[r]
  BY <1>1 DEF MdThreadType, MdWorking
<1> HIDE DEF t
<1>3. PhaseOK(t, mdRow[r], mdTask[r]) /\ mdRow[r].status = "queued"
  BY <1>1, <1>2 DEF PhaseOK, BeforeFrames
<1> QED  BY <1>1, <1>2, <1>3, ThreadMoves

LEMMA MarkKeeps == ASSUME MdInv, NEW r \in MdRun, MarkExtracting(r) PROVE MdInv'
<1> DEFINE row == [mdThread[r].local EXCEPT !.status = "extracting"]
           t == [mdThread[r] EXCEPT !.pc = "source", !.local = row]
<1>1. /\ mdThread[r] \in MdThreadType /\ mdRow[r] \in MdRowType /\ PhaseOK(mdThread[r], mdRow[r], mdTask[r])
      /\ mdThread[r].pc = "markExtracting" /\ MdSave(r, "markExtracting", "source", row)
  BY DEF MdInv, MediaRunsTypeOK, MarkExtracting, MdSave, MdStep
<1>2. mdThread[r].local = mdRow[r] /\ mdRow[r].frames = {}
  BY <1>1 DEF PhaseOK
<1>3. row \in MdRowType /\ row.status = "extracting" /\ row.frames = {}
  BY <1>1, <1>2 DEF MdRowType
<1> HIDE DEF row
<1>4. t \in MdThreadType /\ t.pc = "source" /\ t.made = mdThread[r].made /\ t.local = row
  BY <1>1, <1>3 DEF MdThreadType, MdWorking
<1>5. PhaseOK(t, row, mdTask[r])
  <2> HIDE DEF t
  <2> QED  BY <1>1, <1>3, <1>4 DEF PhaseOK, BeforeFrames
<1> QED  BY <1>1, <1>3, <1>4, <1>5, ThreadSaves

LEMMA SourceKeeps == ASSUME MdInv, NEW r \in MdRun, ReadSource(r) PROVE MdInv'
<1> DEFINE pc == IF mdSource = "stored" THEN "extract" ELSE "fail"
           t == [mdThread[r] EXCEPT !.pc = pc]
<1>1. /\ mdThread[r] \in MdThreadType /\ mdRow[r] \in MdRowType /\ PhaseOK(mdThread[r], mdRow[r], mdTask[r])
      /\ mdThread[r].pc = "source" /\ MdStep(r, "source", t) /\ UNCHANGED <<mdRow, mdTask>>
  BY DEF MdInv, MediaRunsTypeOK, ReadSource, MdStep
<1>2. pc \in {"extract", "fail"}
  OBVIOUS
<1> HIDE DEF pc
<1>3. t \in MdThreadType /\ t.pc = pc /\ t.made = mdThread[r].made /\ t.local = mdThread[r].local
  BY <1>1, <1>2 DEF MdThreadType, MdWorking
<1> HIDE DEF t
<1>4. PhaseOK(t, mdRow[r], mdTask[r]) /\ mdRow[r].status = "extracting"
  BY <1>1, <1>2, <1>3 DEF PhaseOK, BeforeFrames
<1> QED  BY <1>1, <1>3, <1>4, ThreadMoves

LEMMA ExtractKeeps == ASSUME MdInv, NEW r \in MdRun, ExtractFrames(r) PROVE MdInv'
<1>1. PICK n \in 0..MdVideo :
        LET frames == Cardinality(KeptFrames(n, MdStride, MdMaxFrames)) IN
        MdStep(r, "extract", [mdThread[r] EXCEPT !.pc = IF frames = 0 THEN "fail" ELSE "frames",
                                                  !.total = frames])
  BY DEF ExtractFrames
<1> DEFINE frames == Cardinality(KeptFrames(n, MdStride, MdMaxFrames))
           pc == IF frames = 0 THEN "fail" ELSE "frames"
           t == [mdThread[r] EXCEPT !.pc = pc, !.total = frames]
<1>2. frames \in 0..MdMaxFrames
  BY KeptIsExact, MediaRunsAssumption
<1> HIDE DEF frames
<1>3. /\ mdThread[r] \in MdThreadType /\ mdRow[r] \in MdRowType /\ PhaseOK(mdThread[r], mdRow[r], mdTask[r])
      /\ mdThread[r].pc = "extract" /\ MdStep(r, "extract", t) /\ UNCHANGED <<mdRow, mdTask>>
  BY <1>1 DEF MdInv, MediaRunsTypeOK, ExtractFrames, MdStep, frames
<1>4. pc \in {"fail", "frames"} /\ (pc = "frames" => frames > 0)
  BY <1>2
<1> HIDE DEF pc
<1>5. t \in MdThreadType /\ t.pc = pc /\ t.made = mdThread[r].made /\ t.total = frames
      /\ t.local = mdThread[r].local
  BY <1>2, <1>3, <1>4 DEF MdThreadType, MdWorking
<1> HIDE DEF t
<1>6. PhaseOK(t, mdRow[r], mdTask[r]) /\ mdRow[r].status = "extracting"
  BY <1>3, <1>4, <1>5 DEF PhaseOK, BeforeFrames
<1> QED  BY <1>3, <1>5, <1>6, ThreadMoves

LEMMA FrameKeeps == ASSUME MdInv, NEW r \in MdRun, CreateFrameTask(r) PROVE MdInv'
<1> DEFINE f == mdThread[r].made + 1
           pc == IF f = mdThread[r].total THEN "record" ELSE "frames"
           t == [mdThread[r] EXCEPT !.made = f, !.pc = pc]
           tasks == [mdTask[r] EXCEPT ![f] = "active"]
<1>1. /\ mdThread[r] \in MdThreadType /\ mdRow[r] \in MdRowType /\ PhaseOK(mdThread[r], mdRow[r], mdTask[r])
      /\ mdTask[r] \in [MdFrame -> TaskState] /\ mdTask \in [MdRun -> [MdFrame -> TaskState]]
      /\ mdThread[r].made < mdThread[r].total
      /\ MdStep(r, "frames", t) /\ UNCHANGED mdRow /\ mdTask' = [mdTask EXCEPT ![r][f] = "active"]
  BY DEF MdInv, MediaRunsTypeOK, CreateFrameTask, MdStep
<1>2. mdThread[r].pc = "frames" /\ mdTask' = [mdTask EXCEPT ![r] = tasks]
  BY <1>1 DEF MdStep
<1>3. f \in MdFrame /\ f \in 0..MdMaxFrames /\ f > mdThread[r].made /\ mdThread[r].total \in Nat
  BY <1>1, MediaRunsAssumption DEF MdThreadType, MdFrame
<1>4. tasks \in [MdFrame -> TaskState] /\ tasks[f] = "active"
      /\ \A g \in MdFrame \ {f} : tasks[g] = mdTask[r][g]
  BY <1>1, <1>3 DEF TaskState, TaskUnsettled
<1>5. mdTask[r][f] = "absent"
  BY <1>1, <1>3 DEF PhaseOK
<1>6. pc \in {"record", "frames"} /\ (pc = "record" <=> f = mdThread[r].total)
  OBVIOUS
<1> HIDE DEF pc, f
<1>7. t \in MdThreadType /\ t.pc = pc /\ t.made = f /\ t.total = mdThread[r].total
      /\ t.local = mdThread[r].local
  BY <1>1, <1>3, <1>6 DEF MdThreadType, MdWorking
<1> HIDE DEF t, tasks
<1>8. f <= mdThread[r].total /\ \A g \in MdFrame : g > f => g # f /\ g > mdThread[r].made
  BY <1>1, <1>3, MdTypes DEF f, MdThreadType
<1>9. PhaseOK(t, mdRow[r], tasks) /\ mdRow[r].status = "extracting"
  <2>1. \A g \in MdFrame : tasks[g] = "absent" <=> g > f
    <3> SUFFICES ASSUME NEW g \in MdFrame PROVE tasks[g] = "absent" <=> g > f
      OBVIOUS
    <3>1. CASE g = f
      BY <1>4, <3>1, MdTypes
    <3>2. CASE g # f
      <4>1. g > f <=> g > mdThread[r].made
        BY <1>1, <3>2, MdTypes DEF f, MdThreadType
      <4> QED  BY <1>1, <1>4, <3>2, <4>1 DEF PhaseOK
    <3> QED  BY <3>1, <3>2
  <2>2. t.pc = "frames" => f < t.total
    BY <1>3, <1>6, <1>7, <1>8 DEF f
  <2>3. t.pc = "record" => f = t.total /\ t.total > 0
    BY <1>3, <1>6, <1>7, MdTypes
  <2> QED  BY <1>1, <1>2, <1>6, <1>7, <2>1, <2>2, <2>3 DEF PhaseOK, BeforeFrames
<1>10. RunMoves(r, t, mdRow[r], tasks)
  BY <1>1, <1>2 DEF RunMoves, MdStep, MdInv, MediaRunsTypeOK
<1>11. \A g \in MdFrame : tasks[g] # mdTask[r][g] => tasks[g] = "active" /\ mdTask[r][g] = "absent"
  BY <1>4, <1>5
<1>12. mdThread[r].pc # "done" /\ mdRow[r].status # "completed"
  BY <1>2, <1>9
<1> QED  BY <1>1, <1>4, <1>7, <1>9, <1>10, <1>11, <1>12, RunMovesKeep

LEMMA RefusedKeeps == ASSUME MdInv, NEW r \in MdRun, FrameTaskRefused(r) PROVE MdInv'
<1> DEFINE t == [mdThread[r] EXCEPT !.pc = "fail"]
<1>1. /\ mdThread[r] \in MdThreadType /\ mdRow[r] \in MdRowType /\ PhaseOK(mdThread[r], mdRow[r], mdTask[r])
      /\ mdThread[r].pc = "frames" /\ MdStep(r, "frames", t) /\ UNCHANGED <<mdRow, mdTask>>
  BY DEF MdInv, MediaRunsTypeOK, FrameTaskRefused, MdStep
<1>2. t \in MdThreadType /\ t.pc = "fail" /\ t.made = mdThread[r].made /\ t.local = mdThread[r].local
  BY <1>1 DEF MdThreadType, MdWorking
<1> HIDE DEF t
<1>3. PhaseOK(t, mdRow[r], mdTask[r]) /\ mdRow[r].status = "extracting"
  BY <1>1, <1>2 DEF PhaseOK, BeforeFrames
<1> QED  BY <1>1, <1>2, <1>3, ThreadMoves

LEMMA RecordKeeps == ASSUME MdInv, NEW r \in MdRun, RecordFrames(r) PROVE MdInv'
<1> DEFINE row == [mdThread[r].local EXCEPT !.status = "running", !.frames = 1..mdThread[r].made]
           t == [mdThread[r] EXCEPT !.pc = "done", !.local = row]
<1>1. /\ mdThread[r] \in MdThreadType /\ mdRow[r] \in MdRowType /\ PhaseOK(mdThread[r], mdRow[r], mdTask[r])
      /\ mdThread[r].pc = "record" /\ MdSave(r, "record", "done", row)
  BY DEF MdInv, MediaRunsTypeOK, RecordFrames, MdSave, MdStep
<1>2. /\ mdThread[r].local = mdRow[r] /\ mdThread[r].made = mdThread[r].total /\ mdThread[r].total > 0
      /\ 1..mdThread[r].made \subseteq MdFrame
  BY <1>1, MdTypes DEF PhaseOK, MdThreadType
<1>3. row \in MdRowType /\ row.status = "running" /\ row.frames = 1..mdThread[r].made
  BY <1>1, <1>2 DEF MdRowType
<1> HIDE DEF row
<1>4. t \in MdThreadType /\ t.pc = "done" /\ t.made = mdThread[r].made /\ t.total = mdThread[r].total
  BY <1>1, <1>3 DEF MdThreadType
<1>5. PhaseOK(t, row, mdTask[r])
  <2> HIDE DEF t
  <2> QED  BY <1>1, <1>2, <1>3, <1>4 DEF PhaseOK, BeforeFrames
<1> QED  BY <1>1, <1>3, <1>4, <1>5, ThreadSaves

LEMMA FailKeeps == ASSUME MdInv, NEW r \in MdRun, FailMediaRun(r) PROVE MdInv'
<1> DEFINE row == [mdThread[r].local EXCEPT !.status = "failed"]
           t == [mdThread[r] EXCEPT !.pc = "done", !.local = row]
<1>1. /\ mdThread[r] \in MdThreadType /\ mdRow[r] \in MdRowType /\ PhaseOK(mdThread[r], mdRow[r], mdTask[r])
      /\ mdThread[r].pc = "fail" /\ MdSave(r, "fail", "done", row)
  BY DEF MdInv, MediaRunsTypeOK, FailMediaRun, MdSave, MdStep
<1>2. mdThread[r].local = mdRow[r]
  BY <1>1 DEF PhaseOK
<1>3. row \in MdRowType /\ row.status = "failed"
  BY <1>1, <1>2 DEF MdRowType, MdSettled
<1> HIDE DEF row
<1>4. t \in MdThreadType /\ t.pc = "done" /\ t.made = mdThread[r].made
  BY <1>1, <1>3 DEF MdThreadType
<1>5. PhaseOK(t, row, mdTask[r])
  <2> HIDE DEF t
  <2> QED  BY <1>1, <1>3, <1>4 DEF PhaseOK, BeforeFrames
<1> QED  BY <1>1, <1>3, <1>4, <1>5, ThreadSaves

(***************************************************************************)
(* The refreshes                                                           *)
(***************************************************************************)

\* A refresh that stores nothing.
LEMMA RefreshMoves ==
  ASSUME MdInv, NEW q \in MdRefresh, NEW pc, NEW next \in MdRefreshType, RefreshStep(q, pc, next),
         UNCHANGED mdRow, RefreshOK(q)',
         \A said \in SaidType : Consistent(said) => HeardBy(said, q)'
  PROVE  MdInv'
<1>1. MediaRunsTypeOK'
  BY DEF RefreshStep, MdInv, MediaRunsTypeOK
<1>2. \A p \in MdRefresh \ {q} : mdRefresh'[p] = mdRefresh[p]
  BY DEF RefreshStep, MdInv, MediaRunsTypeOK
<1>3. \A r \in MdRun : PhaseOK(mdThread[r], mdRow[r], mdTask[r])'
  BY DEF RefreshStep, MdInv
<1>4. \A p \in MdRefresh : RefreshOK(p)'
  BY <1>2 DEF RefreshStep, MdInv, RefreshOK
<1>5. PICK said \in SaidType : Consistent(said)
  BY DEF MdInv
<1>6. SaidByTasks(said)' /\ \A r \in MdRun : ToldByRow(said, r)'
  BY <1>5 DEF RefreshStep, Consistent, SaidByTasks, ToldByRow
<1>7. \A p \in MdRefresh : HeardBy(said, p)'
  <2>1. ASSUME NEW p \in MdRefresh \ {q} PROVE HeardBy(said, p)'
    BY <1>2, <1>5, <2>1 DEF RefreshStep, Consistent, HeardBy
  <2> QED  BY <1>5, <2>1
<1>8. Consistent(said)'
  BY <1>6, <1>7 DEF Consistent
<1> QED  BY <1>1, <1>3, <1>4, <1>5, <1>8 DEF MdInv

LEMMA AskKeeps == ASSUME MdInv, NEW q \in MdRefresh, NEW r \in MdRun, AskMediaRun(q, r) PROVE MdInv'
<1> DEFINE next == [NoRefresh EXCEPT !.pc = "read", !.run = r, !.snapshot = mdRow[r], !.todo = mdRow[r].frames]
<1>1. /\ mdRow[r] \in MdRowType /\ mdRow[r].status = "running" /\ PhaseOK(mdThread[r], mdRow[r], mdTask[r])
      /\ mdThread[r] \in MdThreadType
      /\ RefreshStep(q, "idle", next) /\ UNCHANGED mdRow
  BY DEF MdInv, MediaRunsTypeOK, AskMediaRun
<1>2. /\ next \in MdRefreshType /\ next.pc = "read" /\ next.run = r /\ next.snapshot = mdRow[r]
      /\ next.todo = mdRow[r].frames /\ next.seen = {}
  BY <1>1, MdTypes DEF MdRefreshType, MdRowType, NoRefresh
<1> HIDE DEF next
<1>3. mdRefresh'[q] = next /\ UNCHANGED <<mdRow, mdThread>>
  BY <1>1 DEF RefreshStep, MdInv, MediaRunsTypeOK
<1>4. mdThread[r].pc = "done" /\ mdRow[r].frames # {} /\ mdRow[r].frames = 1..mdThread[r].made
  <2>1. mdThread[r].pc = "done"
    BY <1>1 DEF PhaseOK, NoMediaRun, MdThreadType, MdWorking
  <2>2. /\ mdRow[r].frames = 1..mdThread[r].total /\ mdThread[r].total > 0 /\ mdThread[r].total \in Nat
        /\ mdThread[r].made = mdThread[r].total
    BY <1>1, <2>1 DEF PhaseOK, MdThreadType
  <2>3. 1 \in 1..mdThread[r].total
    BY <2>2
  <2> QED  BY <2>1, <2>2, <2>3
<1>5. RefreshOK(q)'
  BY <1>1, <1>2, <1>3, <1>4 DEF RefreshOK
<1>6. ASSUME NEW said \in SaidType PROVE HeardBy(said, q)'
  BY <1>1, <1>2, <1>3 DEF HeardBy
<1> QED  BY <1>1, <1>2, <1>5, <1>6, RefreshMoves

LEMMA ReadKeeps == ASSUME MdInv, NEW q \in MdRefresh, ReadFrameTask(q) PROVE MdInv'
<1> DEFINE w == mdRefresh[q]
           f == CHOOSE f \in w.todo : \A g \in w.todo : f <= g
           left == w.todo \ {f}
           pc == IF left = {} THEN "store" ELSE "read"
           next == [w EXCEPT !.todo = left, !.seen = @ \union {Shown(mdTask[w.run][f])}, !.pc = pc]
<1>1. /\ w \in MdRefreshType /\ w.pc = "read" /\ w.todo # {} /\ RefreshOK(q)
      /\ RefreshStep(q, "read", next) /\ UNCHANGED mdRow
  BY DEF MdInv, MediaRunsTypeOK, ReadFrameTask, RefreshStep
<1>2. f \in w.todo
  <2>1. w.todo \subseteq Nat
    BY <1>1, MdTypes DEF MdRefreshType
  <2> QED  BY <1>1, <2>1, LeastIsIn
<1>3. /\ w.run \in MdRun /\ f \in MdFrame /\ f \in w.snapshot.frames /\ mdTask[w.run][f] \in TaskState
      /\ mdThread[w.run].pc = "done"
  BY <1>1, <1>2 DEF MdRefreshType, RefreshOK, MdInv, MediaRunsTypeOK
<1> HIDE DEF f
<1>4. mdTask[w.run][f] # "absent"
  <2>1. PhaseOK(mdThread[w.run], mdRow[w.run], mdTask[w.run]) /\ mdThread[w.run] \in MdThreadType
    BY <1>3 DEF MdInv, MediaRunsTypeOK
  <2>2. f \in 1..mdThread[w.run].made
    BY <1>1, <1>3 DEF RefreshOK
  <2> QED  BY <1>3, <2>1, <2>2 DEF PhaseOK, MdThreadType
<1>5. Shown(mdTask[w.run][f]) \in TaskSettled \union {"active"}
  BY <1>3, <1>4 DEF Shown, TaskState, TaskUnsettled, TaskSettled
<1>6. pc \in {"read", "store"} /\ (pc = "store" <=> left = {}) /\ left \subseteq w.todo
  OBVIOUS
<1> HIDE DEF pc
<1> DEFINE status == Shown(mdTask[w.run][f])
<1>7. /\ next \in MdRefreshType /\ next.pc = pc /\ next.run = w.run /\ next.snapshot = w.snapshot
      /\ next.todo = left /\ next.seen = w.seen \union {status}
  BY <1>1, <1>5, <1>6 DEF MdRefreshType
<1> HIDE DEF next, status
<1>8. mdRefresh'[q] = next /\ UNCHANGED <<mdRow, mdThread>>
  BY <1>1 DEF RefreshStep, MdInv, MediaRunsTypeOK
<1>9. RefreshOK(q)'
  BY <1>1, <1>6, <1>7, <1>8 DEF RefreshOK
<1>10. ASSUME NEW said \in SaidType, Consistent(said) PROVE HeardBy(said, q)'
  <2>1. HeardBy(said, q) /\ SaidByTasks(said)
    BY <1>10 DEF Consistent
  <2>2. w.snapshot.frames \ left = (w.snapshot.frames \ w.todo) \union {f}
    BY <1>2, <1>3
  <2>3. status = "failed" => said[w.run][f] = "bad"
    BY <1>3, <2>1 DEF SaidByTasks, status, Shown
  <2>4. status = "completed" => said[w.run][f] = "ok"
    BY <1>3, <2>1 DEF SaidByTasks, status, Shown
  <2>5. "failed" \in next.seen => \E g \in next.snapshot.frames \ next.todo : said[next.run][g] = "bad"
    BY <1>1, <1>7, <2>1, <2>2, <2>3 DEF HeardBy
  <2>6. next.seen \subseteq {"completed"} => \A g \in next.snapshot.frames \ next.todo : said[next.run][g] = "ok"
    BY <1>1, <1>7, <2>1, <2>2, <2>4 DEF HeardBy
  <2> QED  BY <1>1, <1>7, <1>8, <2>1, <2>5, <2>6 DEF HeardBy
<1> QED  BY <1>1, <1>7, <1>9, <1>10, RefreshMoves

\* Two refreshes of a run cannot come to different outcomes, and the second one
\* stores what is there already.
LEMMA VerdictAgrees ==
  ASSUME MdInv, NEW q \in MdRefresh, StoreVerdict(q)
  PROVE  LET w == mdRefresh[q] IN
         /\ w.run \in MdRun /\ RefreshOK(q) /\ w.pc = "store" /\ w.todo = {}
         /\ Verdict(w.seen) \in {"running"} \union MdSettled
         /\ \A said \in SaidType : Consistent(said) =>
              /\ Verdict(w.seen) = "completed" => \A f \in w.snapshot.frames : said[w.run][f] = "ok"
              /\ Verdict(w.seen) = "failed" => \E f \in w.snapshot.frames : said[w.run][f] = "bad"
         /\ mdRow[w.run].status \in MdSettled => mdRow' = mdRow
<1> DEFINE w == mdRefresh[q]
<1>1. w \in MdRefreshType /\ w.run \in MdRun /\ RefreshOK(q) /\ w.pc = "store" /\ w.todo = {}
  BY DEF MdInv, MediaRunsTypeOK, MdRefreshType, StoreVerdict, RefreshStep, RefreshOK
<1>2. Verdict(w.seen) \in {"running"} \union MdSettled
  BY DEF Verdict, MdSettled
<1>3. ASSUME NEW said \in SaidType, Consistent(said)
      PROVE  /\ Verdict(w.seen) = "completed" => \A f \in w.snapshot.frames : said[w.run][f] = "ok"
             /\ Verdict(w.seen) = "failed" => \E f \in w.snapshot.frames : said[w.run][f] = "bad"
             /\ mdRow[w.run].status = "completed" => \A f \in w.snapshot.frames : said[w.run][f] = "ok"
             /\ mdRow[w.run].status = "failed" => \E f \in w.snapshot.frames : said[w.run][f] = "bad"
  <2>1. HeardBy(said, q) /\ ToldByRow(said, w.run) /\ mdRow[w.run].frames = w.snapshot.frames
    BY <1>1, <1>3 DEF Consistent, RefreshOK
  <2>2. w.snapshot.frames \ w.todo = w.snapshot.frames
    BY <1>1
  <2>3. Verdict(w.seen) = "completed" => w.seen = {"completed"}
    BY DEF Verdict
  <2>4. Verdict(w.seen) = "failed" => "failed" \in w.seen
    BY DEF Verdict
  <2> QED  BY <1>1, <2>1, <2>2, <2>3, <2>4 DEF HeardBy, ToldByRow
<1>4. ASSUME mdRow[w.run].status \in MdSettled PROVE mdRow' = mdRow
  <2>1. PICK said \in SaidType : Consistent(said)
    BY DEF MdInv
  <2>2. Verdict(w.seen) = "running" \/ Verdict(w.seen) = mdRow[w.run].status
    BY <1>2, <1>3, <1>4, <2>1 DEF MdSettled
  <2>3. CASE Verdict(w.seen) = "running"
    BY <2>3 DEF StoreVerdict
  <2>4. CASE Verdict(w.seen) = mdRow[w.run].status /\ Verdict(w.seen) # "running"
    <3>1. mdRow[w.run] \in MdRowType /\ w.snapshot \in MdRowType /\ w.snapshot.frames = mdRow[w.run].frames
      BY <1>1 DEF MdInv, MediaRunsTypeOK, MdRefreshType, RefreshOK
    <3>2. [w.snapshot EXCEPT !.status = Verdict(w.seen)] = mdRow[w.run]
      BY <2>4, <3>1 DEF MdRowType
    <3>3. mdRow' = [mdRow EXCEPT ![w.run] = mdRow[w.run]]
      BY <2>4, <3>2 DEF StoreVerdict
    <3> QED  BY <1>1, <3>3 DEF MdInv, MediaRunsTypeOK
  <2> QED  BY <2>2, <2>3, <2>4
<1> QED  BY <1>1, <1>2, <1>3, <1>4

LEMMA StoreKeeps == ASSUME MdInv, NEW q \in MdRefresh, StoreVerdict(q) PROVE MdInv'
<1> DEFINE w == mdRefresh[q]
           row == [w.snapshot EXCEPT !.status = Verdict(w.seen)]
<1>1. /\ w \in MdRefreshType /\ w.run \in MdRun /\ RefreshOK(q) /\ w.pc = "store" /\ mdRefresh' = [mdRefresh EXCEPT ![q] = NoRefresh]
      /\ UNCHANGED <<mdStore, mdSource, mdThread, mdTask, mdRestarts>>
  BY VerdictAgrees DEF StoreVerdict, RefreshStep, MdInv, MediaRunsTypeOK
<1>2. \A p \in MdRefresh : mdRefresh'[p] = IF p = q THEN NoRefresh ELSE mdRefresh[p]
  BY <1>1 DEF MdInv, MediaRunsTypeOK
<1>3. CASE mdRow' = mdRow
  <2>1. RefreshStep(q, "store", NoRefresh) /\ UNCHANGED mdRow
    BY <1>3 DEF StoreVerdict
  <2>2. RefreshOK(q)' /\ \A said \in SaidType : HeardBy(said, q)'
    BY <1>2, MdTypes DEF RefreshOK, HeardBy
  <2> QED  BY <2>1, <2>2, MdTypes, RefreshMoves
<1>4. CASE mdRow' # mdRow
  <2>1. /\ Verdict(w.seen) \in MdSettled /\ mdRow[w.run].status = "running"
        /\ mdRow' = [mdRow EXCEPT ![w.run] = row]
    BY <1>1, <1>4, VerdictAgrees DEF StoreVerdict, RefreshOK
  <2>2. /\ row \in MdRowType /\ row.status = Verdict(w.seen) /\ row.frames = mdRow[w.run].frames
        /\ row.frames = w.snapshot.frames
    BY <1>1, <2>1 DEF MdRefreshType, MdRowType, RefreshOK
  <2> HIDE DEF row
  <2>3. /\ mdRow'[w.run] = row /\ \A r \in MdRun \ {w.run} : mdRow'[r] = mdRow[r]
        /\ mdRow' \in [MdRun -> MdRowType]
    BY <1>1, <2>1, <2>2 DEF MdInv, MediaRunsTypeOK
  <2>4. MediaRunsTypeOK'
    BY <1>1, <2>3, MdTypes DEF MdInv, MediaRunsTypeOK
  <2>5. ASSUME NEW r \in MdRun PROVE PhaseOK(mdThread[r], mdRow[r], mdTask[r])'
    <3>1. CASE r # w.run
      BY <1>1, <2>3, <3>1 DEF MdInv
    <3>2. CASE r = w.run
      <4>1. PhaseOK(mdThread[r], mdRow[r], mdTask[r]) /\ mdThread[r].pc = "done"
        BY <1>1, <3>2 DEF MdInv, RefreshOK
      <4> QED  BY <1>1, <2>1, <2>2, <2>3, <3>2, <4>1 DEF PhaseOK, MdSettled, BeforeFrames
    <3> QED  BY <3>1, <3>2
  <2>6. ASSUME NEW p \in MdRefresh PROVE RefreshOK(p)'
    <3>1. CASE p = q
      BY <1>2, <3>1, MdTypes DEF RefreshOK
    <3>2. CASE p # q
      <4>1. RefreshOK(p) /\ mdRefresh'[p] = mdRefresh[p] /\ mdThread' = mdThread
        BY <1>1, <1>2, <3>2 DEF MdInv
      <4>2. mdRefresh[p].run \in MdRun
        BY DEF MdInv, MediaRunsTypeOK, MdRefreshType
      <4>3. CASE mdRefresh[p].pc = "idle"
        BY <4>1, <4>3 DEF RefreshOK
      <4>4. CASE mdRefresh[p].pc # "idle"
        <5>1. mdRow'[mdRefresh[p].run].frames = mdRow[mdRefresh[p].run].frames
          BY <2>2, <2>3, <4>2
        <5>2. mdRow[mdRefresh[p].run].status \in {"running"} \union MdSettled
          BY <4>1, <4>4 DEF RefreshOK
        <5>3. mdRow'[mdRefresh[p].run].status \in {"running"} \union MdSettled
          BY <2>1, <2>2, <2>3, <4>2, <5>2
        <5> QED  BY <4>1, <4>4, <5>1, <5>3 DEF RefreshOK
      <4> QED  BY <4>3, <4>4
    <3> QED  BY <3>1, <3>2
  <2>7. PICK said \in SaidType : Consistent(said)
    BY DEF MdInv
  <2>8. SaidByTasks(said)'
    BY <1>1, <2>7 DEF Consistent, SaidByTasks
  <2>9. /\ row.status = "completed" => \A f \in row.frames : said[w.run][f] = "ok"
        /\ row.status = "failed" => \E f \in row.frames : said[w.run][f] = "bad"
    BY <2>2, <2>7, VerdictAgrees
  <2>10. ASSUME NEW p \in MdRefresh PROVE HeardBy(said, p)'
    <3>1. CASE p = q
      BY <1>2, <3>1, MdTypes DEF HeardBy
    <3>2. CASE p # q
      <4>1. HeardBy(said, p) /\ RefreshOK(p) /\ mdRefresh'[p] = mdRefresh[p] /\ mdRefresh[p].run \in MdRun
        BY <1>2, <2>7, <3>2 DEF Consistent, MdInv, MediaRunsTypeOK, MdRefreshType
      <4>2. CASE mdRefresh[p].pc = "idle"
        BY <4>1, <4>2 DEF HeardBy
      <4>3. CASE mdRefresh[p].pc # "idle" /\ mdRefresh[p].run = w.run
        <5>1. mdRefresh[p].snapshot.frames = row.frames
          BY <2>2, <4>1, <4>3 DEF RefreshOK
        <5> QED  BY <2>3, <2>9, <4>1, <4>3, <5>1 DEF HeardBy
      <4>4. CASE mdRefresh[p].pc # "idle" /\ mdRefresh[p].run # w.run
        <5>1. mdRow'[mdRefresh[p].run] = mdRow[mdRefresh[p].run]
          BY <2>3, <4>1, <4>4
        <5> QED  BY <4>1, <5>1 DEF HeardBy
      <4> QED  BY <4>2, <4>3, <4>4
    <3> QED  BY <3>1, <3>2
  <2>11. \A r \in MdRun : ToldByRow(said, r)'
    BY <2>3, <2>7, <2>9 DEF Consistent, ToldByRow
  <2>12. Consistent(said)'
    BY <2>8, <2>10, <2>11 DEF Consistent
  <2> QED  BY <2>4, <2>5, <2>6, <2>7, <2>12 DEF MdInv
<1> QED  BY <1>3, <1>4

(***************************************************************************)
(* The frame tasks, restarts and sources                                   *)
(***************************************************************************)

\* A frame that has said nothing may say something now; nothing is taken back.
LEMMA SaidMore ==
  ASSUME NEW said \in SaidType, NEW more \in SaidType, Consistent(said), MdInv,
         \A r \in MdRun, f \in MdFrame : said[r][f] # "open" => more[r][f] = said[r][f]
  PROVE  /\ \A q \in MdRefresh : HeardBy(more, q)
         /\ \A r \in MdRun : ToldByRow(more, r)
<1>1. ASSUME NEW q \in MdRefresh PROVE HeardBy(more, q)
  <2>1. /\ HeardBy(said, q) /\ mdRefresh[q].run \in MdRun /\ mdRefresh[q].snapshot.frames \subseteq MdFrame
    BY DEF Consistent, MdInv, MediaRunsTypeOK, MdRefreshType, MdRowType
  <2> QED  BY <2>1 DEF HeardBy
<1>2. ASSUME NEW r \in MdRun PROVE ToldByRow(more, r)
  <2>1. ToldByRow(said, r) /\ mdRow[r].frames \subseteq MdFrame
    BY DEF Consistent, MdInv, MediaRunsTypeOK, MdRowType
  <2> QED  BY <2>1 DEF ToldByRow
<1> QED  BY <1>1, <1>2

\* What a task that is now s says: what it said before, unless that was nothing.
Says(s, before) ==
  IF before # "open" THEN before
  ELSE CASE s = "completed" -> "ok"
         [] s = "failed" -> "bad"
         [] OTHER -> "open"

\* The moves of a task: it does not come from nowhere, and its outcome stays.
TaskGoes(s, next) ==
  /\ next \in TaskState
  /\ s = "absent" <=> next = "absent"
  /\ s \in TaskSettled => next = s \/ next = "cancelled"

LEMMA TasksMoveOn ==
  ASSUME MdInv, mdTask' \in [MdRun -> [MdFrame -> TaskState]],
         \A r \in MdRun, f \in MdFrame : TaskGoes(mdTask[r][f], mdTask'[r][f])
  PROVE  /\ \A r \in MdRun : PhaseOK(mdThread[r], mdRow[r], mdTask'[r])
         /\ \E more \in SaidType : /\ SaidByTasks(more)'
                                   /\ \A q \in MdRefresh : HeardBy(more, q)
                                   /\ \A r \in MdRun : ToldByRow(more, r)
<1>1. ASSUME NEW r \in MdRun PROVE PhaseOK(mdThread[r], mdRow[r], mdTask'[r])
  <2>1. \A f \in MdFrame : mdTask'[r][f] = "absent" <=> mdTask[r][f] = "absent"
    BY DEF TaskGoes
  <2> QED  BY <2>1 DEF MdInv, PhaseOK
<1>2. PICK said \in SaidType : Consistent(said)
  BY DEF MdInv
<1>3. PICK more \in [MdRun -> [MdFrame -> {"ok", "bad", "open"}]] :
        \A r \in MdRun, f \in MdFrame : more[r][f] = Says(mdTask'[r][f], said[r][f])
  <2> DEFINE M == [r \in MdRun |-> [f \in MdFrame |-> Says(mdTask'[r][f], said[r][f])]]
  <2>1. \A r \in MdRun, f \in MdFrame : Says(mdTask'[r][f], said[r][f]) \in {"ok", "bad", "open"}
    BY DEF SaidType, Says
  <2>2. M \in [MdRun -> [MdFrame -> {"ok", "bad", "open"}]]
    BY <2>1
  <2> QED  BY <2>2
<1>4. more \in SaidType
  BY DEF SaidType
<1>5. \A r \in MdRun, f \in MdFrame : said[r][f] # "open" => more[r][f] = said[r][f]
  BY <1>3 DEF Says
<1>6. ASSUME NEW r \in MdRun, NEW f \in MdFrame
      PROVE  /\ mdTask'[r][f] = "completed" => more[r][f] = "ok"
             /\ mdTask'[r][f] = "failed" => more[r][f] = "bad"
             /\ mdTask'[r][f] \in {"absent", "active", "fading"} => more[r][f] = "open"
  <2>1. TaskGoes(mdTask[r][f], mdTask'[r][f]) /\ mdTask[r][f] \in TaskState
    BY DEF MdInv, MediaRunsTypeOK
  <2>2. /\ mdTask[r][f] = "completed" => said[r][f] = "ok"
        /\ mdTask[r][f] = "failed" => said[r][f] = "bad"
        /\ mdTask[r][f] \in {"absent", "active", "fading"} => said[r][f] = "open"
    BY <1>2 DEF Consistent, SaidByTasks
  <2>3. more[r][f] = Says(mdTask'[r][f], said[r][f])
    BY <1>3
  <2> QED  BY <2>1, <2>2, <2>3 DEF TaskGoes, Says, TaskState, TaskSettled, TaskUnsettled
<1>7. SaidByTasks(more)'
  BY <1>6 DEF SaidByTasks
<1> QED  BY <1>1, <1>2, <1>4, <1>5, <1>7, SaidMore

LEMMA FrameMovesKeep ==
  ASSUME MdInv, NEW r \in MdRun, NEW f \in MdFrame, FrameTaskMoves(r, f) PROVE MdInv'
<1>1. PICK s \in TaskState :
        /\ \/ <<mdTask[r][f], s>> \in WorkerMoves
           \/ mdTask[r][f] \in TaskUnsettled \union TaskSettled /\ s = AfterCancel(mdTask[r][f])
        /\ mdTask' = [mdTask EXCEPT ![r][f] = s]
  BY DEF FrameTaskMoves
<1>2. UNCHANGED <<mdStore, mdSource, mdRow, mdThread, mdRefresh, mdRestarts>>
  BY DEF FrameTaskMoves
<1>3. mdTask \in [MdRun -> [MdFrame -> TaskState]]
  BY DEF MdInv, MediaRunsTypeOK
<1>4. TaskGoes(mdTask[r][f], s)
  BY <1>1, <1>3 DEF TaskGoes, WorkerMoves, AfterCancel, TaskState, TaskSettled, TaskUnsettled
<1>5. mdTask' \in [MdRun -> [MdFrame -> TaskState]]
  BY <1>1, <1>3
<1>6. ASSUME NEW o \in MdRun, NEW g \in MdFrame PROVE TaskGoes(mdTask[o][g], mdTask'[o][g])
  <2>1. CASE o = r /\ g = f
    BY <1>1, <1>3, <1>4, <2>1
  <2>2. CASE ~(o = r /\ g = f)
    <3>1. mdTask'[o][g] = mdTask[o][g]
      BY <1>1, <1>3, <2>2
    <3> QED  BY <1>3, <3>1 DEF TaskGoes
  <2> QED  BY <2>1, <2>2
<1>7. /\ \A o \in MdRun : PhaseOK(mdThread[o], mdRow[o], mdTask'[o])
      /\ \E more \in SaidType : /\ SaidByTasks(more)'
                                /\ \A q \in MdRefresh : HeardBy(more, q)
                                /\ \A o \in MdRun : ToldByRow(more, o)
  BY <1>5, <1>6, TasksMoveOn
<1>8. PICK more \in SaidType : /\ SaidByTasks(more)'
                               /\ \A q \in MdRefresh : HeardBy(more, q)
                               /\ \A o \in MdRun : ToldByRow(more, o)
  BY <1>7
<1>9. Consistent(more)'
  BY <1>2, <1>8 DEF Consistent, HeardBy, ToldByRow
<1>10. MediaRunsTypeOK'
  BY <1>2, <1>5 DEF MdInv, MediaRunsTypeOK
<1>11. \A q \in MdRefresh : RefreshOK(q)'
  BY <1>2 DEF MdInv, RefreshOK
<1>12. \A o \in MdRun : PhaseOK(mdThread[o], mdRow[o], mdTask[o])'
  BY <1>2, <1>7
<1> QED  BY <1>8, <1>9, <1>10, <1>11, <1>12 DEF MdInv

LEMMA RestartKeeps == ASSUME MdInv, RestartMediaRuns PROVE MdInv'
<1>1. mdTask \in [MdRun -> [MdFrame -> TaskState]] /\ mdRow \in [MdRun -> MdRowType]
      /\ mdThread \in [MdRun -> MdThreadType]
  BY DEF MdInv, MediaRunsTypeOK
<1>2. \A r \in MdRun, f \in MdFrame : mdTask'[r][f] = AfterRestart(mdTask[r][f])
  BY DEF RestartMediaRuns
<1>3. ASSUME NEW r \in MdRun, NEW f \in MdFrame
      PROVE  AfterRestart(mdTask[r][f]) \in TaskState /\ TaskGoes(mdTask[r][f], mdTask'[r][f])
  <2>1. mdTask[r][f] \in TaskState
    BY <1>1
  <2> QED  BY <1>2, <2>1 DEF AfterRestart, TaskGoes, TaskState, TaskSettled, TaskUnsettled
<1>4. mdTask' \in [MdRun -> [MdFrame -> TaskState]]
  BY <1>3 DEF RestartMediaRuns
<1>5. ASSUME NEW r \in MdRun
      PROVE  /\ mdRow'[r] \in MdRowType /\ mdRow'[r].frames = mdRow[r].frames
             /\ mdRow'[r].status = IF MdInterrupted(mdRow[r].status) THEN "failed" ELSE mdRow[r].status
             /\ mdRow[r] = NoMediaRun => mdRow'[r] = mdRow[r]
             /\ mdThread'[r] \in MdThreadType
             /\ mdThread[r].pc \in {"absent", "done"} => mdThread'[r] = mdThread[r]
             /\ mdThread[r].pc \notin {"absent", "done"} => mdThread'[r].pc = "lost"
             /\ mdThread'[r].made = mdThread[r].made /\ mdThread'[r].total = mdThread[r].total
  <2>1. mdRow[r] \in MdRowType /\ mdThread[r] \in MdThreadType
    BY <1>1
  <2>2. /\ mdRow'[r] = IF MdInterrupted(mdRow[r].status) THEN [mdRow[r] EXCEPT !.status = "failed"] ELSE mdRow[r]
        /\ mdThread'[r] = IF mdThread[r].pc \in {"absent", "done"} THEN mdThread[r]
                          ELSE [mdThread[r] EXCEPT !.pc = "lost"]
    BY DEF RestartMediaRuns
  <2>3. /\ [mdRow[r] EXCEPT !.status = "failed"] \in MdRowType
        /\ [mdRow[r] EXCEPT !.status = "failed"].frames = mdRow[r].frames
        /\ [mdRow[r] EXCEPT !.status = "failed"].status = "failed"
    BY <2>1 DEF MdRowType, MdSettled
  <2>4. /\ [mdThread[r] EXCEPT !.pc = "lost"] \in MdThreadType
        /\ [mdThread[r] EXCEPT !.pc = "lost"].pc = "lost"
        /\ [mdThread[r] EXCEPT !.pc = "lost"].made = mdThread[r].made
        /\ [mdThread[r] EXCEPT !.pc = "lost"].total = mdThread[r].total
    BY <2>1 DEF MdThreadType
  <2>5. mdRow[r] = NoMediaRun => ~MdInterrupted(mdRow[r].status)
    BY DEF NoMediaRun, MdInterrupted
  <2> QED  BY <2>1, <2>2, <2>3, <2>4, <2>5
<1>6. MediaRunsTypeOK'
  <2>1. mdRow' \in [MdRun -> MdRowType] /\ mdThread' \in [MdRun -> MdThreadType]
    BY <1>5 DEF RestartMediaRuns
  <2>2. mdRestarts' \in 0..MdMaxRestarts
    BY MediaRunsAssumption DEF RestartMediaRuns, MdInv, MediaRunsTypeOK
  <2>3. mdRefresh' \in [MdRefresh -> MdRefreshType]
    BY MdTypes DEF RestartMediaRuns
  <2> QED  BY <1>4, <2>1, <2>2, <2>3 DEF RestartMediaRuns, MdInv, MediaRunsTypeOK
<1>7. /\ \A o \in MdRun : PhaseOK(mdThread[o], mdRow[o], mdTask'[o])
      /\ \E more \in SaidType : /\ SaidByTasks(more)'
                                /\ \A q \in MdRefresh : HeardBy(more, q)
                                /\ \A o \in MdRun : ToldByRow(more, o)
  BY <1>3, <1>4, TasksMoveOn
<1>8. ASSUME NEW r \in MdRun PROVE PhaseOK(mdThread[r], mdRow[r], mdTask[r])'
  <2>1. PhaseOK(mdThread[r], mdRow[r], mdTask'[r]) /\ mdThread[r] \in MdThreadType
    BY <1>1, <1>7
  <2>2. CASE mdThread[r].pc = "absent"
    <3>1. mdRow'[r] = mdRow[r] /\ mdThread'[r] = mdThread[r]
      BY <1>5, <2>1, <2>2 DEF PhaseOK
    <3> QED  BY <2>1, <3>1
  <2>3. CASE mdThread[r].pc = "done"
    <3>1. mdThread'[r] = mdThread[r] /\ mdRow'[r].frames = mdRow[r].frames
      BY <1>5, <2>3
    <3>2. mdRow'[r].status = mdRow[r].status \/ mdRow'[r].status = "failed"
      BY <1>5
    <3> QED  BY <2>1, <2>3, <3>1, <3>2 DEF PhaseOK, BeforeFrames
  <2>4. CASE mdThread[r].pc \notin {"absent", "done"}
    <3>1. mdThread'[r].pc = "lost" /\ mdThread'[r].made = mdThread[r].made
      BY <1>5, <2>4
    <3>2. mdRow[r].status \in {"queued", "extracting", "failed"}
      BY <2>1, <2>4 DEF PhaseOK, MdThreadType, MdWorking
    <3>3. mdRow'[r].status = "failed"
      BY <1>5, <3>2 DEF MdInterrupted
    <3> QED  BY <2>1, <3>1, <3>3 DEF PhaseOK, BeforeFrames
  <2> QED  BY <2>2, <2>3, <2>4
<1>9. ASSUME NEW q \in MdRefresh PROVE RefreshOK(q)' /\ mdRefresh'[q].pc = "idle"
  BY MdTypes DEF RestartMediaRuns, RefreshOK
<1>10. PICK more \in SaidType : SaidByTasks(more)' /\ \A o \in MdRun : ToldByRow(more, o)
  BY <1>7
<1>11. Consistent(more)'
  <2>1. \A q \in MdRefresh : HeardBy(more, q)'
    BY <1>9 DEF HeardBy
  <2>2. ASSUME NEW r \in MdRun PROVE ToldByRow(more, r)'
    <3>1. mdRow'[r].status = "completed" => mdRow[r].status = "completed"
      BY <1>5
    <3>2. mdRow'[r].frames = mdRow[r].frames
      BY <1>5
    <3> QED  BY <1>10, <3>1, <3>2 DEF ToldByRow
  <2> QED  BY <1>10, <2>1, <2>2 DEF Consistent
<1> QED  BY <1>6, <1>8, <1>9, <1>10, <1>11 DEF MdInv

\* What does not touch runs, tasks or refreshes.
LEMMA OthersKeep ==
  ASSUME MdInv, UNCHANGED <<mdStore, mdRow, mdThread, mdTask, mdRefresh, mdRestarts>>,
         mdSource' \in {"absent", "stored", "deleted"}
  PROVE  MdInv'
<1>1. PICK said \in SaidType : Consistent(said)
  BY DEF MdInv
<1>2. Consistent(said)'
  BY <1>1 DEF Consistent, SaidByTasks, HeardBy, ToldByRow
<1>3. MediaRunsTypeOK' /\ (\A r \in MdRun : PhaseOK(mdThread[r], mdRow[r], mdTask[r])')
      /\ \A q \in MdRefresh : RefreshOK(q)'
  BY DEF MdInv, MediaRunsTypeOK, RefreshOK
<1> QED  BY <1>1, <1>2, <1>3 DEF MdInv

LEMMA MdStepKeeps == ASSUME MdInv, [MdNext \/ MdIdle]_mdVars PROVE MdInv'
<1>1. CASE CreateSource \/ DeleteSource \/ MdIdle \/ UNCHANGED mdVars
  <2>1. /\ UNCHANGED <<mdStore, mdRow, mdThread, mdTask, mdRefresh, mdRestarts>>
        /\ mdSource' \in {"absent", "stored", "deleted"}
    BY <1>1 DEF CreateSource, DeleteSource, MdIdle, mdVars, MdInv, MediaRunsTypeOK
  <2> QED  BY <2>1, OthersKeep
<1>2. ASSUME NEW r \in MdRun, CreateMediaRun(r) \/ TakeMediaRun(r) \/ MdThreadSteps(r) PROVE MdInv'
  BY <1>2, CreateKeeps, TakeKeeps, LoadKeeps, MarkKeeps, SourceKeeps, ExtractKeeps, FrameKeeps, RefusedKeeps,
     RecordKeeps, FailKeeps DEF MdThreadSteps
<1>3. ASSUME NEW q \in MdRefresh, MdRefreshSteps(q) PROVE MdInv'
  BY <1>3, AskKeeps, ReadKeeps, StoreKeeps DEF MdRefreshSteps
<1> QED  BY <1>1, <1>2, <1>3, FrameMovesKeep, RestartKeeps DEF MdNext

LEMMA MdInvariant == MdSpec => []MdInv
BY MdInitInv, MdStepKeeps, PTL DEF MdSpec

\* Type correctness of the media runs.
THEOREM MediaRunsTypeCorrect == MdSpec => []MediaRunsTypeOK
<1>1. MdInv => MediaRunsTypeOK
  BY DEF MdInv
<1> QED  BY <1>1, MdInvariant, PTL

\* A run shows completed only when each of the frames that were extracted has a
\* completed task: refresh of MediaRunService.
THEOREM CompletedMediaRunsAreWhole == MdSpec => []CompletedMediaRunIsWhole
<1>1. MdInv => CompletedMediaRunIsWhole
  <2> SUFFICES ASSUME MdInv, NEW r \in MdRun, mdRow[r].status = "completed"
               PROVE  /\ mdThread[r].total > 0 /\ mdRow[r].frames = 1..mdThread[r].total
                      /\ \A f \in mdRow[r].frames : mdTask[r][f] \in {"completed", "cancelled"}
    BY DEF CompletedMediaRunIsWhole
  <2>1. /\ PhaseOK(mdThread[r], mdRow[r], mdTask[r]) /\ mdThread[r] \in MdThreadType /\ mdRow[r] \in MdRowType
        /\ mdTask[r] \in [MdFrame -> TaskState]
    BY DEF MdInv, MediaRunsTypeOK
  <2>2. mdThread[r].pc = "done"
    BY <2>1 DEF PhaseOK, MdThreadType, MdWorking, NoMediaRun
  <2>3. mdThread[r].total > 0 /\ mdRow[r].frames = 1..mdThread[r].total
    BY <2>1, <2>2 DEF PhaseOK
  <2>4. PICK said \in SaidType : SaidByTasks(said) /\ ToldByRow(said, r)
    BY DEF MdInv, Consistent
  <2>5. ASSUME NEW f \in mdRow[r].frames PROVE mdTask[r][f] \in {"completed", "cancelled"}
    <3>1. f \in MdFrame /\ said[r][f] = "ok" /\ mdTask[r][f] \in TaskState
      BY <2>1, <2>4 DEF ToldByRow, MdRowType
    <3> QED  BY <2>4, <3>1 DEF SaidByTasks, TaskState, TaskSettled, TaskUnsettled
  <2> QED  BY <2>3, <2>5
<1> QED  BY <1>1, MdInvariant, PTL

\* An outcome that is stored stays, whoever else refreshes the run meanwhile.
THEOREM SettledMediaRunsAreFinal == MdSpec => SettledMediaRunIsFinal
<1>1. MdInv /\ [MdNext \/ MdIdle]_mdVars
      => [\A r \in MdRun : mdRow[r].status \in MdSettled => mdRow'[r] = mdRow[r]]_mdVars
  <2> SUFFICES ASSUME MdInv, [MdNext \/ MdIdle]_mdVars, NEW r \in MdRun, mdRow[r].status \in MdSettled
               PROVE  mdRow'[r] = mdRow[r]
    OBVIOUS
  <2>0. /\ PhaseOK(mdThread[r], mdRow[r], mdTask[r]) /\ mdRow \in [MdRun -> MdRowType]
        /\ mdThread[r].pc \notin {"absent", "queued", "load"} \union MdWorking
    BY DEF MdInv, MediaRunsTypeOK, PhaseOK, NoMediaRun, MdSettled, MdWorking
  <2>1. CASE UNCHANGED mdRow
    BY <2>1
  <2>2. ASSUME NEW o \in MdRun, CreateMediaRun(o) \/ MarkExtracting(o) \/ RecordFrames(o) \/ FailMediaRun(o)
        PROVE  mdRow'[r] = mdRow[r]
    <3>1. o # r
      BY <2>0, <2>2
      DEF CreateMediaRun, MarkExtracting, RecordFrames, FailMediaRun, MdSave, MdStep, NoMediaRun, MdSettled, MdWorking
    <3> QED  BY <2>0, <2>2, <3>1 DEF CreateMediaRun, MarkExtracting, RecordFrames, FailMediaRun, MdSave
  <2>3. ASSUME NEW q \in MdRefresh, StoreVerdict(q) PROVE mdRow'[r] = mdRow[r]
    <3>1. CASE mdRefresh[q].run = r
      BY <2>3, <3>1, VerdictAgrees
    <3>2. CASE mdRefresh[q].run # r
      BY <2>0, <2>3, <3>2 DEF StoreVerdict
    <3> QED  BY <3>1, <3>2
  <2>4. CASE RestartMediaRuns
    BY <2>4 DEF RestartMediaRuns, MdInterrupted, MdSettled
  <2> QED
    BY <2>1, <2>2, <2>3, <2>4
    DEF MdNext, MdIdle, mdVars, CreateSource, DeleteSource, TakeMediaRun, MdThreadSteps, LoadMediaRun, ReadSource,
        ExtractFrames, CreateFrameTask, FrameTaskRefused, MdRefreshSteps, AskMediaRun, ReadFrameTask, FrameTaskMoves
<1> QED  BY <1>1, MdInvariant, PTL DEF MdSpec, SettledMediaRunIsFinal

\* A run that shows queued or extracting has a thread, and a frame task runs
\* outside its run only while the thread makes the frames or after it failed.
THEOREM MediaRunsStayAttended == MdSpec => []MediaRunIsAttended
<1>1. MdInv => MediaRunIsAttended
  <2> SUFFICES ASSUME MdInv, NEW r \in MdRun
               PROVE  /\ mdRow[r].status \in {"queued", "extracting"} => mdThread[r].pc \in {"queued"} \union MdWorking
                      /\ \A f \in MdFrame : mdTask[r][f] = "active" /\ f \notin mdRow[r].frames =>
                           mdThread[r].pc \in {"frames", "record", "fail"} \/ mdRow[r].status = "failed"
    BY DEF MediaRunIsAttended, MdShownRunIsAlive, FrameTaskIsRecorded
  <2>1. PhaseOK(mdThread[r], mdRow[r], mdTask[r]) /\ mdThread[r] \in MdThreadType
    BY DEF MdInv, MediaRunsTypeOK
  <2>2. mdRow[r].status \in {"queued", "extracting"} => mdThread[r].pc \in {"queued"} \union MdWorking
    BY <2>1 DEF PhaseOK, MdThreadType, MdWorking, NoMediaRun
  <2>3. ASSUME NEW f \in MdFrame, mdTask[r][f] = "active", f \notin mdRow[r].frames,
               mdRow[r].status # "failed", mdThread[r].pc \notin {"frames", "record", "fail"}
        PROVE  FALSE
    <3>1. f \in Nat /\ f > 0 /\ ~(f > mdThread[r].made) /\ mdThread[r].made \in Nat
      BY <2>1, <2>3, MdTypes DEF PhaseOK, MdThreadType
    <3>2. mdThread[r].pc = "done"
      BY <2>1, <2>3, <3>1 DEF PhaseOK, MdThreadType, MdWorking, BeforeFrames
    <3>3. mdRow[r].frames = 1..mdThread[r].made
      BY <2>1, <2>3, <3>2 DEF PhaseOK
    <3> QED  BY <2>3, <3>1, <3>3
  <2> QED  BY <2>2, <2>3
<1> QED  BY <1>1, MdInvariant, PTL
=============================================================================
