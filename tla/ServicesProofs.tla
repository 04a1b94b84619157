--------------------------- MODULE ServicesProofs ---------------------------
(***************************************************************************)
(* Proofs about the services around tasks and instances: the reconcile     *)
(* loop and the placement of replicas (ClusterScaling), the gate every     *)
(* request passes (RequestGate), the rate limit before it (RateLimiter)    *)
(* and the assets (Assets).  At the end the services together: what is     *)
(* proved of each of them holds in every behaviour of MCServices.          *)
(***************************************************************************)
EXTENDS MCServices, WorkflowsProofs, MediaRunsProofs, AlgorithmVersionsProofs, ClientsProofs, NatFacts, FiniteSetTheorems, SequenceTheorems

(* RequestGate *)

LEMMA AtEaseTyped ==
  /\ AtEase \in RgThreadType /\ AtEase.token \in RgToken /\ AtEase.pc = "idle"
  /\ Gone \in [state : {"unused", "live", "gone"}, user : RgUser, role : RgRole] /\ Gone.state = "gone"
BY RequestGateAssumption DEF AtEase, Gone, RgThreadType, RgKind, RgRole

LEMMA RgStepTyped ==
  ASSUME RequestGateTypeOK, NEW q \in RgThread, NEW pc, NEW next \in RgThreadType, RgStep(q, pc, next)
  PROVE  rgThread' \in [RgThread -> RgThreadType] /\ rgStore' \in {"memory", "postgres"}
BY DEF RequestGateTypeOK, RgStep

LEMMA RgTyped == ASSUME RequestGateTypeOK, [RgNext \/ RgIdle]_rgVars PROVE RequestGateTypeOK'
<1> USE DEF KeepUsers, KeepSessions
<1>1. ASSUME NEW q \in RgThread, CallFails(q) \/ CallLogout(q) PROVE RequestGateTypeOK'
  BY <1>1, AtEaseTyped, RgStepTyped DEF CallFails, CallLogout, RequestGateTypeOK
<1>2. ASSUME NEW q \in RgThread, CheckOwner(q) PROVE RequestGateTypeOK'
  <2>1. [rgThread[q] EXCEPT !.pc = "allowed"] \in RgThreadType
    BY DEF RequestGateTypeOK, RgThreadType
  <2> QED  BY <1>2, <2>1, AtEaseTyped, RgStepTyped DEF CheckOwner, RequestGateTypeOK
<1>3. ASSUME NEW q \in RgThread, NEW u \in RgUser, Login(q, u) PROVE RequestGateTypeOK'
  <2>1. [AtEase EXCEPT !.pc = "open", !.user = u, !.role = rgUser[u].role] \in RgThreadType
    BY AtEaseTyped DEF RequestGateTypeOK, RgThreadType
  <2> QED  BY <1>3, <2>1, RgStepTyped DEF Login, RequestGateTypeOK
<1>4. ASSUME NEW q \in RgThread, NEW t \in RgToken, OpenSession(q, t) PROVE RequestGateTypeOK'
  <2>1. [state |-> "live", user |-> rgThread[q].user, role |-> rgThread[q].role]
          \in [state : {"unused", "live", "gone"}, user : RgUser, role : RgRole]
    BY DEF RequestGateTypeOK, RgThreadType
  <2> QED  BY <1>4, <2>1, AtEaseTyped, RgStepTyped DEF OpenSession, RequestGateTypeOK
<1>5. ASSUME NEW q \in RgThread, NEW t \in RgToken, NEW kind \in RgKind, Refuse(q, t, kind)
      PROVE  RequestGateTypeOK'
  BY <1>5, AtEaseTyped, RgStepTyped DEF Refuse, RequestGateTypeOK
<1>6. ASSUME NEW q \in RgThread, NEW t \in RgToken, NEW kind \in RgKind, Admit(q, t, kind)
      PROVE  RequestGateTypeOK'
  <2>1. [AtEase EXCEPT !.pc = "call", !.kind = kind, !.token = t, !.user = rgSession[t].user] \in RgThreadType
    BY AtEaseTyped DEF RequestGateTypeOK, RgThreadType
  <2> QED  BY <1>6, <2>1, AtEaseTyped, RgStepTyped DEF Admit, RequestGateTypeOK
<1>7. ASSUME NEW q \in RgThread, NEW u \in RgUser, NEW new \in RgUpdate, UpdateUser(q, u, new)
      PROVE  RequestGateTypeOK'
  <2>1. new \in [enabled : BOOLEAN, role : RgRole]
    BY RequestGateAssumption DEF RgRole
  <2>2. rgChanges' \in 0..RgMaxChanges
    BY <1>7, RequestGateAssumption DEF UpdateUser, RequestGateTypeOK
  <2>3. rgUser' \in [RgUser -> [enabled : BOOLEAN, role : RgRole]]
    BY <1>7, <2>1 DEF UpdateUser, RequestGateTypeOK
  <2>4. rgSession' \in [RgToken -> [state : {"unused", "live", "gone"}, user : RgUser, role : RgRole]]
    BY <1>7, AtEaseTyped DEF UpdateUser, RequestGateTypeOK
  <2>5. rgRevoked' \subseteq RgToken
    BY <1>7 DEF UpdateUser, RequestGateTypeOK, SessionsOf
  <2> QED  BY <1>7, <2>2, <2>3, <2>4, <2>5, AtEaseTyped, RgStepTyped DEF UpdateUser, RequestGateTypeOK
<1>8. ASSUME NEW q \in RgThread, NEW u \in RgUser, NEW role \in RgMembership, AddMember(q, u, role)
      PROVE  RequestGateTypeOK'
  <2>1. rgMember' \in [RgUser -> RgMemberRole] /\ rgChanges' \in 0..RgMaxChanges
    BY <1>8, RequestGateAssumption DEF AddMember, RequestGateTypeOK, RgMemberRole
  <2> QED  BY <1>8, <2>1, AtEaseTyped, RgStepTyped DEF AddMember, RequestGateTypeOK
<1>9. ASSUME NEW t \in RgToken, Expire(t) PROVE RequestGateTypeOK'
  BY <1>9, AtEaseTyped DEF Expire, RequestGateTypeOK
<1>10. CASE RgIdle \/ UNCHANGED rgVars
  BY <1>10 DEF RgIdle, rgVars, RequestGateTypeOK
<1> QED  BY <1>1, <1>2, <1>3, <1>4, <1>5, <1>6, <1>7, <1>8, <1>9, <1>10 DEF RgNext

LEMMA RgInitTyped == ASSUME RgInit PROVE RequestGateTypeOK
<1>1. [Gone EXCEPT !.state = "unused"] \in [state : {"unused", "live", "gone"}, user : RgUser, role : RgRole]
  BY AtEaseTyped
<1> QED  BY <1>1, AtEaseTyped, RequestGateAssumption DEF RgInit, RequestGateTypeOK, RgRole, RgMemberRole

\* Type correctness of the gate.
THEOREM RequestGateTypeCorrect == RgSpec => []RequestGateTypeOK
BY RgInitTyped, RgTyped, PTL DEF RgSpec

(***************************************************************************)
(* A session that was revoked is gone, and a session that is gone does not *)
(* come back: only unused ones are opened.                                 *)
(***************************************************************************)

RevokedIsGone == \A t \in rgRevoked : rgSession[t].state = "gone"

LEMMA RevokedStaysGone ==
  ASSUME RequestGateTypeOK, RevokedIsGone, [RgNext \/ RgIdle]_rgVars
  PROVE  RevokedIsGone'
<1> USE DEF KeepUsers, KeepSessions, RevokedIsGone
<1>1. CASE UNCHANGED <<rgSession, rgRevoked>>
  BY <1>1
<1>2. ASSUME NEW q \in RgThread, NEW t \in RgToken, OpenSession(q, t) PROVE RevokedIsGone'
  BY <1>2 DEF OpenSession, Unopened, RequestGateTypeOK
<1>3. ASSUME NEW t \in RgToken, rgSession' = [rgSession EXCEPT ![t] = Gone], UNCHANGED rgRevoked
      PROVE  RevokedIsGone'
  BY <1>3, AtEaseTyped DEF RequestGateTypeOK
<1>4. ASSUME NEW q \in RgThread, CallLogout(q) PROVE RevokedIsGone'
  <2>1. rgThread[q].token \in RgToken
    BY DEF RequestGateTypeOK, RgThreadType
  <2> QED  BY <1>3, <1>4, <2>1 DEF CallLogout
<1>5. ASSUME NEW q \in RgThread, NEW u \in RgUser, NEW new \in RgUpdate, UpdateUser(q, u, new)
      PROVE  RevokedIsGone'
  BY <1>5, AtEaseTyped DEF UpdateUser, RequestGateTypeOK, SessionsOf
<1> QED
  BY <1>1, <1>2, <1>3, <1>4, <1>5
  DEF RgNext, RgIdle, rgVars, CallFails, CheckOwner, Login, Refuse, Admit, AddMember, Expire

\* Requests reach a handler that changes something by Admit alone.
LEMMA OnlyAdmitted ==
  ASSUME RequestGateTypeOK, [RgNext \/ RgIdle]_rgVars, NEW q \in RgThread,
         rgThread[q].pc = "idle", rgThread'[q].pc = "call"
  PROVE  \E t \in RgToken, kind \in RgKind :
           /\ LetIn(t, kind)
           /\ rgThread'[q].token = t /\ rgThread'[q].kind = kind /\ rgThread'[q].user = rgSession[t].user
           /\ UNCHANGED <<rgStore, rgUser>>
<1>1. ASSUME NEW p \in RgThread, NEW pc, NEW next, RgStep(p, pc, next), next.pc # "call" \/ pc # "idle"
      PROVE  FALSE
  BY <1>1 DEF RgStep, RequestGateTypeOK
<1>2. ASSUME NEW p \in RgThread, CheckOwner(p) PROVE FALSE
  <2>1. [rgThread[p] EXCEPT !.pc = "allowed"].pc = "allowed"
    BY DEF RequestGateTypeOK, RgThreadType
  <2> QED  BY <1>1, <1>2, <2>1, AtEaseTyped DEF CheckOwner
<1>3. ASSUME NEW p \in RgThread, NEW u \in RgUser, Login(p, u) PROVE FALSE
  <2>1. [AtEase EXCEPT !.pc = "open", !.user = u, !.role = rgUser[u].role].pc = "open"
    BY AtEaseTyped DEF RgThreadType
  <2> QED  BY <1>1, <1>3, <2>1 DEF Login
<1>4. ASSUME NEW p \in RgThread, NEW t \in RgToken, NEW kind \in RgKind, Admit(p, t, kind)
      PROVE  /\ LetIn(t, kind)
             /\ rgThread'[q].token = t /\ rgThread'[q].kind = kind /\ rgThread'[q].user = rgSession[t].user
             /\ UNCHANGED <<rgStore, rgUser>>
  <2> DEFINE call == [AtEase EXCEPT !.pc = "call", !.kind = kind, !.token = t, !.user = rgSession[t].user]
  <2>1. call.token = t /\ call.kind = kind /\ call.user = rgSession[t].user
    BY AtEaseTyped DEF RgThreadType
  <2>2. LetIn(t, kind) /\ RgStep(p, "idle", IF kind \in {"task", "build"} THEN AtEase ELSE call)
    BY <1>4 DEF Admit
  <2> HIDE DEF call
  <2>3. kind \notin {"task", "build"} /\ p = q
    BY <1>1, <2>2, AtEaseTyped DEF RgStep, RequestGateTypeOK
  <2>4. rgThread'[q] = call
    BY <2>2, <2>3 DEF RgStep, RequestGateTypeOK
  <2> QED  BY <1>4, <2>1, <2>2, <2>4 DEF Admit, RgStep, KeepUsers
<1> QED
  BY <1>1, <1>2, <1>3, <1>4, AtEaseTyped
  DEF RgNext, RgIdle, rgVars, CallFails, CallLogout, OpenSession, Refuse, UpdateUser, AddMember, Expire

\* A session its user had when the user was disabled lets nothing through.
THEOREM RevokedIsRefused == RgSpec => RevokedNeverServes
<1> DEFINE Inv == RequestGateTypeOK /\ RevokedIsGone
<1>1. RgInit => Inv
  BY RgInitTyped DEF RgInit, RevokedIsGone
<1>2. Inv /\ [RgNext \/ RgIdle]_rgVars => Inv'
  BY RgTyped, RevokedStaysGone
<1>3. Inv /\ [RgNext \/ RgIdle]_rgVars
      => [\A q \in RgThread : rgThread[q].pc = "idle" /\ rgThread'[q].pc = "call"
                               => rgThread'[q].token \notin rgRevoked]_rgVars
  BY OnlyAdmitted DEF RevokedIsGone, LetIn, Accepted
<1> QED  BY <1>1, <1>2, <1>3, PTL DEF RgSpec, RevokedNeverServes

\* With PostgreSQL a change of role counts from the next request on.
THEOREM RoleStaysCurrent == RgSpec => RoleIsCurrent
<1>1. RequestGateTypeOK /\ [RgNext \/ RgIdle]_rgVars
      => [\A q \in RgThread : rgStore = "postgres" /\ rgThread[q].pc = "idle" /\ rgThread'[q].pc = "call"
            => RoleAllows(rgThread'[q].kind, rgUser[rgThread'[q].user].role)]_rgVars
  BY OnlyAdmitted DEF LetIn, RoleOf
<1> QED  BY <1>1, RgInitTyped, RgTyped, PTL DEF RgSpec, RoleIsCurrent

--------------------------------------------------------------------------
(* Assets *)

LEMMA AsInitTyped == ASSUME AsInit PROVE AssetsTypeOK
BY AssetsAssumption DEF AsInit, AssetsTypeOK, AsRowType, AsUploadType

\* The upload that moves is at its new place, and no other has moved.
LEMMA AsMoved ==
  ASSUME AssetsTypeOK, NEW u \in AsUpload, NEW pc, NEW next \in AsUploadType, AsStep(u, pc, next)
  PROVE  /\ asUpload[u].pc = pc /\ asUpload'[u] = next
         /\ \A v \in AsUpload \ {u} : asUpload'[v] = asUpload[v]
         /\ asUpload' \in [AsUpload -> AsUploadType]
         /\ asStore' = asStore /\ asCrashes' = asCrashes
BY DEF AsStep, AssetsTypeOK

(***************************************************************************)
(* The inductive invariant.  An upload under way says what is there: its   *)
(* file once it looks for rows, a row of its image if the project had one  *)
(* when it began; and a row is of the upload it is named after, which did  *)
(* not begin with the image known.                                         *)
(***************************************************************************)

RowsAreBacked ==
  \A row \in asRow :
    /\ row.image \in asFile
    /\ asUpload[row.id].pc \in {"answered", "lost"}
    /\ ~asUpload[row.id].known
    /\ asStore = "postgres" => RowsOf(row.project, row.image) = {row}

UploadIsBacked(u) ==
  /\ asUpload[u].pc \in {"dedupe", "add", "answered"} => asUpload[u].image \in asFile
  /\ asUpload[u].pc = "add" => ~asUpload[u].known
  /\ asUpload[u].pc \in {"spool", "inspect", "place", "move", "dedupe"} /\ asUpload[u].known
       => Existing(u) # {}
  /\ asUpload[u].pc \notin {"answered", "lost"} => asUpload[u].answer = u

AsIInv ==
  /\ AssetsTypeOK
  /\ RowsAreBacked
  /\ \A u \in AsUpload : UploadIsBacked(u)
  /\ AnswerIsOwn
  /\ TempIsAttended

\* What an upload that does not move relies on goes on: files and rows stay.
LEMMA AsOthersBacked ==
  ASSUME AsIInv, NEW u \in AsUpload, NEW pc, NEW next \in AsUploadType, AsStep(u, pc, next),
         asFile \subseteq asFile', asRow \subseteq asRow',
         NEW v \in AsUpload, v # u
  PROVE  /\ UploadIsBacked(v)'
         /\ asUpload'[v].pc = "answered" =>
              \E row \in asRow' : /\ row.id = asUpload'[v].answer
                                  /\ row.project = asUpload'[v].project /\ row.image = asUpload'[v].image
BY AsMoved DEF AsIInv, UploadIsBacked, Existing, RowsOf, AnswerIsOwn

\* An upload that does not add a row keeps the invariant when it holds for itself.
LEMMA AsQuietStep ==
  ASSUME AsIInv, NEW u \in AsUpload, NEW pc, NEW next \in AsUploadType, AsStep(u, pc, next),
         asRow' = asRow, asFile \subseteq asFile', asFile' \subseteq AsImage,
         asTemp' \subseteq asTemp \union {u},
         u \in asTemp' => next.pc \in {"inspect", "place", "move", "lost"},
         pc \notin {"answered", "lost"},
         next.pc = "answered" =>
           \E row \in asRow : row.id = next.answer /\ row.project = next.project /\ row.image = next.image,
         UploadIsBacked(u)'
  PROVE  AsIInv'
<1>1. AssetsTypeOK'
  BY AsMoved DEF AsIInv, AssetsTypeOK
<1>2. RowsAreBacked'
  <2>1. \A row \in asRow : row.id # u
    BY AsMoved DEF AsIInv, RowsAreBacked
  <2>2. \A row \in asRow : asUpload'[row.id] = asUpload[row.id]
    BY <2>1, AsMoved DEF AsIInv, AssetsTypeOK, AsRowType
  <2> QED  BY <2>2, AsMoved DEF AsIInv, RowsAreBacked, RowsOf
<1>3. \A v \in AsUpload : UploadIsBacked(v)'
  BY AsOthersBacked
<1>4. AnswerIsOwn'
  BY AsOthersBacked, AsMoved DEF AsIInv, AnswerIsOwn
<1>5. TempIsAttended'
  BY AsMoved DEF AsIInv, TempIsAttended, AssetsTypeOK
<1> QED  BY <1>1, <1>2, <1>3, <1>4, <1>5 DEF AsIInv

--------------------------------------------------------------------------
(* One lemma per action *)

LEMMA Begun ==
  ASSUME AssetsTypeOK, NEW u \in AsUpload, NEW p \in AsProject, NEW i \in AsImage, NEW k \in BOOLEAN
  PROVE  LET next == [asUpload[u] EXCEPT !.pc = "spool", !.project = p, !.image = i, !.known = k] IN
         /\ next \in AsUploadType /\ next.pc = "spool" /\ next.project = p /\ next.image = i
         /\ next.answer = asUpload[u].answer /\ next.known = k
<1>1. asUpload[u] \in AsUploadType
  BY DEF AssetsTypeOK
<1>2. CASE k = TRUE
  BY <1>1, <1>2 DEF AsUploadType
<1>3. CASE k = FALSE
  BY <1>1, <1>3 DEF AsUploadType
<1> QED  BY <1>2, <1>3

LEMMA BeginKeeps ==
  ASSUME AsIInv, NEW u \in AsUpload, NEW p \in AsProject, NEW i \in AsImage, BeginUpload(u, p, i)
  PROVE  AsIInv'
<1> DEFINE k == RowsOf(p, i) # {}
           next == [asUpload[u] EXCEPT !.pc = "spool", !.project = p, !.image = i, !.known = k]
<1>1. /\ next \in AsUploadType /\ next.pc = "spool" /\ next.project = p /\ next.image = i
      /\ next.answer = asUpload[u].answer /\ (next.known = TRUE => k)
  <2>1. CASE k
    <3>1. next = [asUpload[u] EXCEPT !.pc = "spool", !.project = p, !.image = i, !.known = TRUE]
      BY <2>1
    <3> DEFINE begun == [asUpload[u] EXCEPT !.pc = "spool", !.project = p, !.image = i, !.known = TRUE]
    <3>2. /\ begun \in AsUploadType /\ begun.pc = "spool" /\ begun.project = p /\ begun.image = i
          /\ begun.answer = asUpload[u].answer /\ begun.known = TRUE
      BY Begun DEF AsIInv
    <3> HIDE DEF next, k, begun
    <3>3. next = begun
      BY <3>1 DEF begun
    <3> QED  BY <2>1, <3>2, <3>3
  <2>2. CASE ~k
    <3>1. next = [asUpload[u] EXCEPT !.pc = "spool", !.project = p, !.image = i, !.known = FALSE]
      BY <2>2
    <3> DEFINE begun == [asUpload[u] EXCEPT !.pc = "spool", !.project = p, !.image = i, !.known = FALSE]
    <3>2. /\ begun \in AsUploadType /\ begun.pc = "spool" /\ begun.project = p /\ begun.image = i
          /\ begun.answer = asUpload[u].answer /\ begun.known = FALSE
      <4>1. asUpload[u] \in AsUploadType
        BY DEF AsIInv, AssetsTypeOK
      <4>2. begun.known = FALSE
        BY <4>1 DEF AsUploadType
      <4>3. /\ begun \in AsUploadType /\ begun.pc = "spool" /\ begun.project = p /\ begun.image = i
            /\ begun.answer = asUpload[u].answer
        BY <4>1 DEF AsUploadType
      <4> QED  BY <4>2, <4>3
    <3> HIDE DEF next, k, begun
    <3>3. next = begun
      BY <3>1 DEF begun
    <3> QED  BY <2>2, <3>2, <3>3
  <2> QED  BY <2>1, <2>2
<1>2. AsStep(u, "unused", next) /\ UNCHANGED <<asFile, asTemp, asRow>>
  BY DEF BeginUpload
<1> HIDE DEF next
<1>3. asUpload'[u] = next /\ asUpload[u].pc = "unused"
  BY <1>1, <1>2, AsMoved DEF AsIInv
<1>4. UploadIsBacked(u)'
  <2>1. Existing(u)' = RowsOf(p, i)
    BY <1>1, <1>2, <1>3 DEF Existing, RowsOf
  <2>2. asUpload[u].answer = u
    BY <1>3 DEF AsIInv, UploadIsBacked
  <2>3. asUpload'[u].known = TRUE => Existing(u)' # {}
    BY <1>1, <1>3, <2>1
  <2> QED  BY <1>1, <1>3, <2>2, <2>3 DEF UploadIsBacked
<1>5. u \notin asTemp
  BY <1>3 DEF AsIInv, TempIsAttended
<1> QED  BY <1>1, <1>2, <1>4, <1>5, AsQuietStep DEF AsIInv, AssetsTypeOK

UploadPlaces == {"spool", "inspect", "place", "move", "dedupe", "add", "answered", "refused", "lost"}

\* A step of an upload that changes nothing but where it is.
LEMMA Onward ==
  ASSUME AssetsTypeOK, NEW u \in AsUpload, NEW pc \in UploadPlaces
  PROVE  LET next == [asUpload[u] EXCEPT !.pc = pc] IN
         /\ next \in AsUploadType /\ next.pc = pc
         /\ next.image = asUpload[u].image /\ next.project = asUpload[u].project
         /\ next.known = asUpload[u].known /\ next.answer = asUpload[u].answer
BY DEF AssetsTypeOK, AsUploadType, UploadPlaces

LEMMA SpoolKeeps == ASSUME AsIInv, NEW u \in AsUpload, Spool(u) PROVE AsIInv'
<1> DEFINE next == [asUpload[u] EXCEPT !.pc = "inspect"]
<1>1. /\ next \in AsUploadType /\ next.pc = "inspect" /\ next.image = asUpload[u].image
      /\ next.project = asUpload[u].project /\ next.known = asUpload[u].known
      /\ next.answer = asUpload[u].answer
  BY Onward DEF AsIInv, UploadPlaces
<1>2. AsStep(u, "spool", next) /\ asTemp' = asTemp \union {u} /\ UNCHANGED <<asFile, asRow>>
  BY DEF Spool
<1> HIDE DEF next
<1>3. asUpload'[u] = next /\ asUpload[u].pc = "spool"
  BY <1>1, <1>2, AsMoved DEF AsIInv
<1>4. UploadIsBacked(u)'
  BY <1>1, <1>2, <1>3 DEF AsIInv, UploadIsBacked, Existing, RowsOf
<1> QED  BY <1>1, <1>2, <1>4, AsQuietStep DEF AsIInv, AssetsTypeOK

LEMMA InspectKeeps ==
  ASSUME AsIInv, NEW u \in AsUpload, NEW ok \in BOOLEAN, InspectImage(u, ok) PROVE AsIInv'
<1> DEFINE pc == IF ok THEN "place" ELSE "refused"
           next == [asUpload[u] EXCEPT !.pc = pc]
<1>a. pc \in UploadPlaces
  BY DEF UploadPlaces
<1> HIDE DEF pc
<1>1. /\ next \in AsUploadType /\ next.pc = pc /\ next.image = asUpload[u].image
      /\ next.project = asUpload[u].project /\ next.known = asUpload[u].known
      /\ next.answer = asUpload[u].answer
  BY <1>a, Onward DEF AsIInv
<1> USE DEF pc
<1>2. /\ AsStep(u, "inspect", next) /\ UNCHANGED <<asFile, asRow>>
      /\ asTemp' = IF ok THEN asTemp ELSE asTemp \ {u}
  BY DEF InspectImage
<1> HIDE DEF next
<1>3. asUpload'[u] = next /\ asUpload[u].pc = "inspect"
  BY <1>1, <1>2, AsMoved DEF AsIInv
<1>4. UploadIsBacked(u)'
  BY <1>1, <1>2, <1>3 DEF AsIInv, UploadIsBacked, Existing, RowsOf
<1> QED  BY <1>1, <1>2, <1>4, AsQuietStep DEF AsIInv, AssetsTypeOK

LEMMA LookKeeps == ASSUME AsIInv, NEW u \in AsUpload, LookForFile(u) PROVE AsIInv'
<1> DEFINE there == asUpload[u].image \in asFile
           pc == IF there THEN "dedupe" ELSE "move"
           next == [asUpload[u] EXCEPT !.pc = pc]
<1>a. pc \in UploadPlaces
  BY DEF UploadPlaces
<1> HIDE DEF pc
<1>1. /\ next \in AsUploadType /\ next.pc = pc /\ next.image = asUpload[u].image
      /\ next.project = asUpload[u].project /\ next.known = asUpload[u].known
      /\ next.answer = asUpload[u].answer
  BY <1>a, Onward DEF AsIInv
<1> USE DEF pc
<1>2. /\ AsStep(u, "place", next) /\ UNCHANGED <<asFile, asRow>>
      /\ asTemp' = IF there THEN asTemp \ {u} ELSE asTemp
  BY DEF LookForFile
<1> HIDE DEF next
<1>3. asUpload'[u] = next /\ asUpload[u].pc = "place"
  BY <1>1, <1>2, AsMoved DEF AsIInv
<1>4. UploadIsBacked(u)'
  BY <1>1, <1>2, <1>3 DEF AsIInv, UploadIsBacked, Existing, RowsOf
<1> QED  BY <1>1, <1>2, <1>4, AsQuietStep DEF AsIInv, AssetsTypeOK

LEMMA MoveKeeps == ASSUME AsIInv, NEW u \in AsUpload, MoveFile(u) PROVE AsIInv'
<1> DEFINE next == [asUpload[u] EXCEPT !.pc = "dedupe"]
<1>1. /\ next \in AsUploadType /\ next.pc = "dedupe" /\ next.image = asUpload[u].image
      /\ next.project = asUpload[u].project /\ next.known = asUpload[u].known
      /\ next.answer = asUpload[u].answer
  BY Onward DEF AsIInv, UploadPlaces
<1>2. /\ AsStep(u, "move", next) /\ UNCHANGED asRow /\ asTemp' = asTemp \ {u}
      /\ asFile' = asFile \union {asUpload[u].image}
  BY DEF MoveFile
<1>3. asUpload[u].image \in AsImage
  BY DEF AsIInv, AssetsTypeOK, AsUploadType
<1> HIDE DEF next
<1>4. asUpload'[u] = next /\ asUpload[u].pc = "move"
  BY <1>1, <1>2, AsMoved DEF AsIInv
<1>5. UploadIsBacked(u)'
  BY <1>1, <1>2, <1>4 DEF AsIInv, UploadIsBacked, Existing, RowsOf
<1> QED  BY <1>1, <1>2, <1>3, <1>5, AsQuietStep DEF AsIInv, AssetsTypeOK

LEMMA DedupeKeeps == ASSUME AsIInv, NEW u \in AsUpload, Dedupe(u) PROVE AsIInv'
<1>0. AssetsTypeOK /\ asUpload[u].pc = "dedupe" /\ UNCHANGED <<asFile, asTemp, asRow>> /\ u \notin asTemp
  BY DEF AsIInv, Dedupe, AsStep, TempIsAttended
<1>1. CASE Existing(u) = {} /\ AsStep(u, "dedupe", [asUpload[u] EXCEPT !.pc = "add"])
  <2> DEFINE next == [asUpload[u] EXCEPT !.pc = "add"]
  <2>1. /\ next \in AsUploadType /\ next.pc = "add" /\ next.image = asUpload[u].image
        /\ next.known = asUpload[u].known /\ next.answer = asUpload[u].answer
    BY <1>0, Onward DEF UploadPlaces
  <2>2. AsStep(u, "dedupe", next)
    BY <1>1
  <2> HIDE DEF next
  <2>3. asUpload'[u] = next
    BY <1>0, <2>1, <2>2, AsMoved
  <2>4. UploadIsBacked(u)'
    BY <1>0, <1>1, <2>1, <2>3 DEF AsIInv, UploadIsBacked
  <2> QED  BY <1>0, <2>1, <2>2, <2>4, AsQuietStep DEF AssetsTypeOK
<1>2. ASSUME NEW row \in Existing(u),
             AsStep(u, "dedupe", [asUpload[u] EXCEPT !.pc = "answered", !.answer = row.id])
      PROVE  AsIInv'
  <2> DEFINE next == [asUpload[u] EXCEPT !.pc = "answered", !.answer = row.id]
  <2>1. row \in asRow /\ row.id \in AsUpload /\ row.project = asUpload[u].project /\ row.image = asUpload[u].image
    BY <1>0 DEF Existing, RowsOf, AssetsTypeOK, AsRowType
  <2>2. /\ next \in AsUploadType /\ next.pc = "answered" /\ next.image = asUpload[u].image
        /\ next.project = asUpload[u].project /\ next.answer = row.id
    BY <1>0, <2>1 DEF AssetsTypeOK, AsUploadType
  <2>3. AsStep(u, "dedupe", next)
    BY <1>2
  <2> HIDE DEF next
  <2>4. asUpload'[u] = next
    BY <1>0, <2>2, <2>3, AsMoved
  <2>5. UploadIsBacked(u)'
    BY <1>0, <2>2, <2>4 DEF AsIInv, UploadIsBacked
  <2> QED  BY <1>0, <2>1, <2>2, <2>3, <2>5, AsQuietStep DEF AssetsTypeOK
<1> QED  BY <1>1, <1>2 DEF Dedupe

LEMMA AddKeeps == ASSUME AsIInv, NEW u \in AsUpload, Add(u) PROVE AsIInv'
<1> DEFINE up == asUpload[u]
           pc == IF Clashes(u) THEN "refused" ELSE "answered"
           next == [up EXCEPT !.pc = pc]
           new == [id |-> u, project |-> up.project, image |-> up.image]
<1>0. AssetsTypeOK /\ u \notin asTemp /\ UNCHANGED <<asFile, asTemp>> /\ up.pc = "add" /\ ~up.known
      /\ up.image \in asFile /\ up.image \in AsImage /\ up.project \in AsProject
  BY DEF AsIInv, Add, AsStep, TempIsAttended, UploadIsBacked, AssetsTypeOK, AsUploadType
<1>a. pc \in UploadPlaces
  BY DEF UploadPlaces
<1> HIDE DEF pc
<1>1. /\ next \in AsUploadType /\ next.pc = pc /\ next.image = up.image
      /\ next.project = up.project /\ next.known = up.known /\ next.answer = up.answer
  BY <1>0, <1>a, Onward
<1> USE DEF pc
<1>2. AsStep(u, "add", next)
  BY DEF Add
<1>3. CASE Clashes(u)
  <2>1. asRow' = asRow /\ next.pc = "refused"
    BY <1>1, <1>3 DEF Add
  <2> HIDE DEF next
  <2>2. asUpload'[u] = next
    BY <1>0, <1>1, <1>2, AsMoved
  <2>3. UploadIsBacked(u)'
    BY <1>0, <1>1, <2>1, <2>2 DEF AsIInv, UploadIsBacked
  <2> QED  BY <1>0, <1>1, <1>2, <2>1, <2>3, AsQuietStep DEF AssetsTypeOK
<1>4. CASE ~Clashes(u)
  <2>1. asRow' = asRow \union {new} /\ next.pc = "answered"
    BY <1>1, <1>4 DEF Add
  <2>2. new \in AsRowType /\ new.id = u /\ new.project = up.project /\ new.image = up.image
    BY <1>0 DEF AsRowType
  <2>3. AssetsTypeOK'
    BY <1>0, <1>1, <1>2, <2>1, <2>2, AsMoved DEF AssetsTypeOK
  <2> HIDE DEF next, new
  <2>4. asUpload'[u] = next /\ \A v \in AsUpload \ {u} : asUpload'[v] = asUpload[v]
    BY <1>0, <1>1, <1>2, AsMoved
  <2>5. RowsAreBacked'
    <3>1. asStore' = asStore
      BY <1>2 DEF AsStep
    <3>2. \A row \in asRow : row.id # u /\ row.id \in AsUpload
      BY <1>0 DEF AsIInv, RowsAreBacked, AssetsTypeOK, AsRowType
    <3>3. ASSUME NEW row \in asRow', asStore = "postgres"
          PROVE  RowsOf(row.project, row.image)' = {row}
      <4>1. RowsOf(up.project, up.image) = {}
        BY <1>4, <3>3 DEF Clashes
      <4>2. CASE row = new
        BY <2>1, <2>2, <4>1, <4>2 DEF RowsOf
      <4>3. CASE row \in asRow
        <5>1. RowsOf(row.project, row.image) = {row}
          BY <3>3, <4>3 DEF AsIInv, RowsAreBacked
        <5>2. new.project # row.project \/ new.image # row.image
          BY <2>2, <4>1, <4>3 DEF RowsOf
        <5> QED  BY <2>1, <5>1, <5>2 DEF RowsOf
      <4> QED  BY <2>1, <4>2, <4>3
    <3> QED  BY <1>0, <1>1, <2>1, <2>2, <2>4, <3>1, <3>2, <3>3 DEF AsIInv, RowsAreBacked
  <2>6. \A v \in AsUpload : UploadIsBacked(v)'
    <3>1. UploadIsBacked(u)'
      BY <1>0, <1>1, <2>1, <2>4 DEF UploadIsBacked
    <3> QED  BY <1>0, <1>1, <1>2, <2>1, <3>1, AsOthersBacked
  <2>7. AnswerIsOwn'
    <3>1. next.answer = u /\ next.project = up.project /\ next.image = up.image
      BY <1>0, <1>1 DEF AsIInv, UploadIsBacked
    <3>2. ASSUME NEW v \in AsUpload, asUpload'[v].pc = "answered"
          PROVE  \E row \in asRow' : /\ row.id = asUpload'[v].answer
                                     /\ row.project = asUpload'[v].project /\ row.image = asUpload'[v].image
      <4>1. CASE v = u
        BY <2>1, <2>2, <2>4, <3>1, <4>1
      <4>2. CASE v # u
        BY <1>0, <1>1, <1>2, <2>1, <3>2, <4>2, AsOthersBacked
      <4> QED  BY <4>1, <4>2
    <3> QED  BY <3>2 DEF AnswerIsOwn
  <2>8. TempIsAttended'
    BY <1>0, <2>4 DEF AsIInv, TempIsAttended, AssetsTypeOK
  <2> QED  BY <2>3, <2>5, <2>6, <2>7, <2>8 DEF AsIInv
<1> QED  BY <1>3, <1>4

LEMMA CrashKeeps == ASSUME AsIInv, AssetsCrash PROVE AsIInv'
<1>1. \A u \in AsUpload :
        asUpload'[u] = IF asUpload[u].pc = "unused" THEN asUpload[u] ELSE [asUpload[u] EXCEPT !.pc = "lost"]
  BY DEF AssetsCrash
<1>2. ASSUME NEW u \in AsUpload
      PROVE  /\ asUpload'[u] \in AsUploadType
             /\ asUpload[u].pc = "unused" => asUpload'[u] = asUpload[u]
             /\ asUpload[u].pc # "unused" =>
                  /\ asUpload'[u].pc = "lost" /\ asUpload'[u].known = asUpload[u].known
                  /\ asUpload'[u].project = asUpload[u].project /\ asUpload'[u].image = asUpload[u].image
  <2>1. CASE asUpload[u].pc = "unused"
    BY <1>1, <2>1 DEF AsIInv, AssetsTypeOK
  <2>2. CASE asUpload[u].pc # "unused"
    <3>1. asUpload'[u] = [asUpload[u] EXCEPT !.pc = "lost"]
      BY <1>1, <2>2
    <3> DEFINE next == [asUpload[u] EXCEPT !.pc = "lost"]
    <3>2. /\ next \in AsUploadType /\ next.pc = "lost" /\ next.known = asUpload[u].known
          /\ next.project = asUpload[u].project /\ next.image = asUpload[u].image
      BY Onward DEF AsIInv, UploadPlaces
    <3> HIDE DEF next
    <3>3. asUpload'[u] = next
      BY <3>1 DEF next
    <3> QED  BY <2>2, <3>2, <3>3
  <2> QED  BY <2>1, <2>2
<1>3. AssetsTypeOK'
  <2>1. asUpload' \in [AsUpload -> AsUploadType]
    BY <1>2 DEF AssetsCrash
  <2>2. asCrashes' \in 0..AsMaxCrashes
    BY AssetsAssumption DEF AssetsCrash, AsIInv, AssetsTypeOK
  <2> QED  BY <2>1, <2>2 DEF AssetsCrash, AsIInv, AssetsTypeOK
<1>4. RowsAreBacked'
  <2>1. \A row \in asRow : row.id \in AsUpload
    BY DEF AsIInv, AssetsTypeOK, AsRowType
  <2>2. CASE asRow' = {}
    BY <2>2 DEF RowsAreBacked
  <2>3. CASE asRow' = asRow
    BY <1>2, <2>1, <2>3 DEF AssetsCrash, AsIInv, RowsAreBacked, RowsOf
  <2> QED  BY <2>2, <2>3 DEF AssetsCrash
<1>5. \A u \in AsUpload : UploadIsBacked(u)'
  BY <1>2 DEF AsIInv, UploadIsBacked
<1>6. AnswerIsOwn' /\ TempIsAttended'
  BY <1>2 DEF AssetsCrash, AsIInv, AnswerIsOwn, TempIsAttended, AssetsTypeOK
<1> QED  BY <1>3, <1>4, <1>5, <1>6 DEF AsIInv

LEMMA AsStepKeeps == ASSUME AsIInv, [AsNext \/ AsIdle]_asVars PROVE AsIInv'
<1>1. CASE UNCHANGED asVars
  BY <1>1 DEF asVars, AsIInv, AssetsTypeOK, RowsAreBacked, RowsOf, UploadIsBacked, Existing, AnswerIsOwn,
              TempIsAttended
<1>2. CASE AsNext
  BY <1>2, BeginKeeps, SpoolKeeps, InspectKeeps, LookKeeps, MoveKeeps, DedupeKeeps, AddKeeps, CrashKeeps
  DEF AsNext
<1> QED  BY <1>1, <1>2 DEF AsIdle

\* The inductive invariant of the assets.
THEOREM AssetsInvariant == AsSpec => []AsIInv
<1>1. AsInit => AsIInv
  <2> SUFFICES ASSUME AsInit PROVE AsIInv
    OBVIOUS
  <2>1. RowsAreBacked /\ AnswerIsOwn /\ TempIsAttended /\ \A u \in AsUpload : UploadIsBacked(u)
    BY DEF AsInit, RowsAreBacked, AnswerIsOwn, TempIsAttended, UploadIsBacked
  <2> QED  BY <2>1, AsInitTyped DEF AsIInv
<1>2. AsIInv /\ [AsNext \/ AsIdle]_asVars => AsIInv'
  BY AsStepKeeps
<1> QED  BY <1>1, <1>2, PTL DEF AsSpec

\* Every row has its file, every answer is the caller's own asset, no image a
\* project has is added to it again (nor, with PostgreSQL, twice at once), and
\* temporary files are left only by running or crashed uploads: AssetService.create
\* and LocalAssetStorage, whatever runs side by side or is cut short.
THEOREM AssetsStaySound == AsSpec => []AssetsAreSound
<1>1. AsIInv => AssetsAreSound
  <2> SUFFICES ASSUME AsIInv PROVE RowHasFile /\ AddedOnce
    BY DEF AsIInv, AssetsAreSound
  <2> QED  BY DEF AsIInv, RowsAreBacked, RowHasFile, AddedOnce
<1> QED  BY <1>1, AssetsInvariant, PTL

--------------------------------------------------------------------------
(* ClusterScaling *)

(***************************************************************************)
(* ClusterScaling.  A pass that places replicas has nodes to ask.          *)
(***************************************************************************)

ScIInv ==
  /\ ClusterScalingTypeOK
  /\ scLoop.pc = "apply" => scLoop.todo # {}

\* Running totals.
TotalBy(sum, f, nodes) ==
  /\ sum \in [Nat -> Nat] /\ sum[0] = 0
  /\ \A n \in Nat : sum[n + 1] = sum[n] + (IF n + 1 \in nodes THEN f[n + 1] ELSE 0)

LEMMA TotalUnfolds ==
  ASSUME NEW f, NEW nodes, \A n \in nodes : f[n] \in Nat
  PROVE  \E sum : TotalBy(sum, f, nodes) /\ TotalOf(f, nodes) = sum[ScNodes]
<1> DEFINE more(n, s) == s + (IF n \in nodes THEN f[n] ELSE 0)
           step == [n \in Nat |-> [s \in Nat |-> more(n + 1, s)]]
           Loop(g) == [k \in Nat |-> IF k = 0 THEN 0 ELSE g[k - 1] + (IF k \in nodes THEN f[k] ELSE 0)]
           total == CHOOSE g : g = Loop(g)
<1>1. \A n \in Nat : \A s \in Nat : more(n, s) \in Nat
  OBVIOUS
<1>2. PICK g \in [Nat -> Nat] : g[0] = 0 /\ \A n \in Nat : g[n + 1] = step[n][g[n]]
  <2>1. step \in [Nat -> [Nat -> Nat]]
    BY <1>1
  <2> HIDE DEF step
  <2>2. PICK A, zero : A = Nat /\ zero = 0
    OBVIOUS
  <2>3. zero \in A /\ step \in [Nat -> [A -> A]]
    BY <2>1, <2>2
  <2>4. \E g \in [Nat -> A] : Follows(g, zero, step)
    BY <2>3, RecursionExists
  <2> QED  BY <2>2, <2>4 DEF Follows
<1>3. \A n \in Nat : g[n + 1] = more(n + 1, g[n])
  BY <1>2
<1>4. g = Loop(g)
  <2>1. ASSUME NEW i \in Nat PROVE g[i] = Loop(g)[i]
    <3>1. CASE i = 0
      BY <1>2, <3>1
    <3>2. CASE i # 0
      <4>1. i - 1 \in Nat /\ (i - 1) + 1 = i
        BY <3>2
      <4>2. g[i] = more(i, g[i - 1])
        BY <1>3, <4>1
      <4> QED  BY <3>2, <4>2
    <3> QED  BY <3>1, <3>2
  <2> QED  BY <1>2, <2>1
<1>5. total = Loop(total)
  <2> HIDE DEF Loop
  <2> QED  BY <1>4
<1>6. PICK k : k = total
  OBVIOUS
<1>7. k = Loop(k)
  BY <1>5, <1>6
<1>8. TotalOf(f, nodes) = k[ScNodes]
  BY <1>6 DEF TotalOf
<1>9. k[0] = 0 /\ \A n \in Nat : k[n + 1] = more(n + 1, k[n])
  <2>1. \A i \in Nat : k[i] = Loop(k)[i]
    BY <1>7
  <2>2. k[0] = 0
    BY <2>1
  <2>3. ASSUME NEW n \in Nat PROVE k[n + 1] = more(n + 1, k[n])
    <3>1. n + 1 \in Nat /\ n + 1 # 0 /\ (n + 1) - 1 = n
      OBVIOUS
    <3>2. k[n + 1] = Loop(k)[n + 1]
      BY <2>1, <3>1
    <3>3. Loop(k)[n + 1] = more(n + 1, k[(n + 1) - 1])
      BY <3>1
    <3> QED  BY <3>1, <3>2, <3>3
  <2> QED  BY <2>2, <2>3
<1>10. k \in [Nat -> Nat]
  <2> DEFINE Fine == {n \in Nat : k[n] \in Nat}
  <2>1. 0 \in Fine
    BY <1>9
  <2>2. ASSUME NEW n \in Nat, n \in Fine PROVE n + 1 \in Fine
    <3>1. n + 1 \in Nat /\ k[n] \in Nat
      BY <2>2
    <3> HIDE DEF more
    <3>2. k[n + 1] \in Nat
      BY <1>1, <1>9, <3>1
    <3> QED  BY <3>1, <3>2
  <2>3. \A n \in Nat : n \in Fine
    <3> HIDE DEF Fine
    <3> QED  BY <2>1, <2>2, SetInduction
  <2>4. k = [n \in Nat |-> k[n]]
    BY <1>7
  <2> QED  BY <2>3, <2>4
<1>11. TotalBy(k, f, nodes)
  BY <1>9, <1>10 DEF TotalBy
<1> QED  BY <1>8, <1>11

LEMMA TotalIsNat ==
  ASSUME NEW f, NEW nodes, \A n \in nodes : f[n] \in Nat
  PROVE  TotalOf(f, nodes) \in Nat
BY TotalUnfolds, ClusterScalingAssumption DEF TotalBy

\* No node gets more than there are replicas.
LEMMA TargetsTyped ==
  ASSUME NEW nodes, NEW free, NEW current, NEW memory, NEW replicas \in Nat
  PROVE  Targets(nodes, free, current, memory, replicas) \in [nodes -> 0..replicas]
<1>1. ASSUME NEW S \in SUBSET (1..replicas) PROVE Cardinality(S) \in 0..replicas
  <2>1. IsFiniteSet(1..replicas) /\ Cardinality(1..replicas) = replicas
    BY FS_Interval
  <2>2. IsFiniteSet(S) /\ Cardinality(S) <= replicas
    BY <2>1, FS_Subset
  <2>3. Cardinality(S) \in Nat
    BY <2>2, FS_CardinalityType
  <2> QED  BY <2>2, <2>3
<1> QED  BY <1>1 DEF Targets

\* One of a number of nodes is worth at least as much as each of the others.
LEMMA BestExists ==
  ASSUME NEW S \in SUBSET ScNode, S # {}, NEW worth \in [ScNode -> Int]
  PROVE  \E n \in S : \A o \in S : worth[n] >= worth[o]
<1> DEFINE Fine == {m \in Nat : \A T \in SUBSET S : T # {} /\ (\A n \in T : n <= m) =>
                                  \E n \in T : \A o \in T : worth[n] >= worth[o]}
<1>1. 0 \in Fine
  <2>1. S \subseteq Nat \ {0}
    BY ClusterScalingAssumption DEF ScNode
  <2>2. ASSUME NEW T \in SUBSET S, T # {} PROVE ~ \A n \in T : n <= 0
    <3>1. PICK n \in T : TRUE
      BY <2>2
    <3>2. n \in Nat \ {0}
      BY <2>1
    <3>3. ~(n <= 0)
      BY <3>2
    <3> QED  BY <3>1, <3>3
  <2>3. \A T \in SUBSET S : ~(T # {} /\ \A n \in T : n <= 0)
    BY <2>2
  <2> QED  BY <2>3
<1>2. ASSUME NEW m \in Nat, m \in Fine PROVE m + 1 \in Fine
  <2>1. SUFFICES ASSUME NEW T \in SUBSET S, T # {}, \A n \in T : n <= m + 1
        PROVE  \E n \in T : \A o \in T : worth[n] >= worth[o]
    OBVIOUS
  <2>2. S \subseteq Nat /\ \A n \in S : worth[n] \in Int
    BY DEF ScNode
  <2>3. CASE m + 1 \notin T
    <3>1. \A n \in T : n <= m
      BY <2>1, <2>2, <2>3
    <3> QED  BY <1>2, <2>1, <3>1
  <2>4. CASE T = {m + 1}
    BY <2>2, <2>4
  <2>5. CASE m + 1 \in T /\ T # {m + 1}
    <3>1. T \ {m + 1} \in SUBSET S /\ T \ {m + 1} # {} /\ \A n \in T \ {m + 1} : n <= m
      BY <2>1, <2>2, <2>5
    <3>2. PICK n \in T \ {m + 1} : \A o \in T \ {m + 1} : worth[n] >= worth[o]
      BY <1>2, <3>1
    <3>3. CASE worth[n] >= worth[m + 1]
      BY <3>2, <3>3
    <3>4. CASE ~(worth[n] >= worth[m + 1])
      <4>1. \A o \in T : worth[m + 1] >= worth[o]
        BY <2>2, <2>5, <3>2, <3>4
      <4> QED  BY <2>5, <4>1
    <3> QED  BY <3>3, <3>4
  <2> QED  BY <2>3, <2>4, <2>5
<1>3. ScNodes \in Fine
  <2>1. ScNodes \in Nat
    BY ClusterScalingAssumption
  <2> HIDE DEF Fine
  <2> QED  BY <1>1, <1>2, <2>1, SetInduction
<1> QED  BY <1>3, ClusterScalingAssumption DEF ScNode

LEMMA ScTypes ==
  ASSUME ClusterScalingTypeOK
  PROVE  /\ \A n \in ScNode : /\ scNode[n].enabled \in BOOLEAN /\ scNode[n].reachable \in BOOLEAN
                              /\ scNode[n].healthy \in 0..ScMaxReplicas /\ scNode[n].healthy \in Nat
                              /\ scNode[n].idle \in Nat /\ scNode[n].free \in Nat
         /\ scLoop.pc \in {"tasks", "policy", "count", "get", "plan", "apply", "dead"}
         /\ scLoop.active \in 0..ScMaxTasks /\ scLoop.policy \in ScPolicy \union {NoPolicy} /\ scLoop.desired \in Nat
         /\ scLoop.todo \subseteq ScNode /\ scLoop.targets \in [ScNode -> 0..ScMaxReplicas]
         /\ {ScMaxTasks, ScMaxReplicas, ScMaxChanges} \subseteq Nat
BY ClusterScalingAssumption DEF ClusterScalingTypeOK, ScNodeType, ScLoopType

LEMMA AsleepTyped == Asleep \in ScLoopType /\ Asleep.pc = "tasks"
<1>1. 0 \in 0..ScMaxTasks /\ 0 \in 0..ScMaxReplicas /\ 0 \in Nat
  BY ClusterScalingAssumption
<1> QED  BY <1>1 DEF Asleep, ScLoopType

\* A number of replicas.
LEMMA WantedIsNat ==
  ASSUME NEW policy \in ScPolicy \union {NoPolicy}, NEW active \in Nat
  PROVE  Wanted(policy, active) \in Nat
<1>1. policy.min \in Nat /\ policy.max \in Nat /\ policy.target \in Nat \ {0}
  BY ClusterScalingAssumption DEF NoPolicy
<1>2. \A a \in Nat, t \in Nat \ {0} : (a + t - 1) \div t \in Nat
  OBVIOUS
<1> QED  BY <1>1, <1>2 DEF Wanted, Bigger, Smaller

LEMMA ScInitInv == ASSUME ScInit PROVE ScIInv
<1>1. ClusterScalingTypeOK
  <2>1. 0 \in 0..ScMaxTasks /\ 0 \in 0..ScMaxReplicas /\ 0 \in 0..ScMaxChanges
    BY ClusterScalingAssumption
  <2>2. [n \in ScNode |-> [enabled |-> TRUE, reachable |-> TRUE, free |-> ScMemory[n], healthy |-> 0, idle |-> 0]]
          \in [ScNode -> ScNodeType]
    BY <2>1, ClusterScalingAssumption DEF ScNodeType
  <2> QED  BY <2>1, <2>2, AsleepTyped DEF ScInit, ClusterScalingTypeOK
<1> QED  BY <1>1, AsleepTyped DEF ScInit, ScIInv

\* The loop goes on to next, and touches at most the nodes and the idle time.
LEMMA LoopKeeps ==
  ASSUME ScIInv, NEW pc, NEW next \in ScLoopType, LoopStep(pc, next),
         scNode' \in [ScNode -> ScNodeType], scRecent' \in BOOLEAN,
         next.pc = "apply" => next.todo # {}
  PROVE  ScIInv'
BY DEF LoopStep, ScIInv, ClusterScalingTypeOK

LEMMA ReadTasksKeeps == ASSUME ScIInv, ReadTasks PROVE ScIInv'
<1> DEFINE next == [Asleep EXCEPT !.pc = "policy", !.active = scTasks]
<1>1. LoopStep("tasks", next) /\ UNCHANGED <<scNode, scRecent>>
  BY DEF ReadTasks
<1>2. next \in ScLoopType /\ next.pc = "policy"
  BY AsleepTyped DEF ScIInv, ClusterScalingTypeOK, ScLoopType
<1> HIDE DEF next
<1> QED  BY <1>1, <1>2, LoopKeeps DEF ScIInv, ClusterScalingTypeOK

LEMMA ReadPolicyKeeps == ASSUME ScIInv, ReadPolicy PROVE ScIInv'
<1> DEFINE pc == IF scLoop.active > 0 THEN "get" ELSE "count"
           read == [scLoop EXCEPT !.pc = pc, !.policy = scPolicy, !.desired = Wanted(scPolicy, scLoop.active)]
           next == IF scPolicy = NoPolicy THEN Asleep ELSE read
<1>1. LoopStep("policy", next) /\ UNCHANGED scNode
      /\ scRecent' = (scRecent \/ (scPolicy # NoPolicy /\ scLoop.active > 0))
  BY DEF ReadPolicy
<1>2. read \in ScLoopType /\ read.pc \in {"get", "count"}
  <2>1. scLoop \in ScLoopType /\ scPolicy \in ScPolicy \union {NoPolicy} /\ scLoop.active \in Nat
    BY ScTypes DEF ScIInv, ClusterScalingTypeOK
  <2>2. Wanted(scPolicy, scLoop.active) \in Nat
    BY <2>1, WantedIsNat
  <2> QED  BY <2>1, <2>2 DEF ScLoopType
<1> HIDE DEF read
<1>3. next \in ScLoopType /\ next.pc \in {"tasks", "get", "count"}
  BY <1>2, AsleepTyped
<1> HIDE DEF next
<1>4. scNode' \in [ScNode -> ScNodeType] /\ scRecent' \in BOOLEAN
  BY <1>1 DEF ScIInv, ClusterScalingTypeOK
<1> QED  BY <1>1, <1>3, <1>4, LoopKeeps

LEMMA CountKeeps == ASSUME ScIInv, CountInstances PROVE ScIInv'
<1> DEFINE count == IF ScExists THEN TotalOf(Records, Answering) ELSE 0
           next == [scLoop EXCEPT !.pc = "get", !.desired = IF scRecent THEN Bigger(@, count) ELSE @]
<1>1. LoopStep("count", next) /\ UNCHANGED <<scNode, scRecent>> /\ scLoop.pc = "count"
  BY DEF CountInstances, LoopStep
<1>2. count \in Nat
  <2>1. \A n \in Answering : Records[n] \in Nat
    BY ScTypes DEF ScIInv, Answering, Records
  <2> QED  BY <2>1, TotalIsNat
<1> HIDE DEF count
<1>3. next \in ScLoopType /\ next.pc = "get"
  <2>1. scLoop \in ScLoopType /\ scLoop.desired \in Nat /\ (IF scRecent THEN Bigger(scLoop.desired, count) ELSE scLoop.desired) \in Nat
    BY <1>2, ScTypes DEF ScIInv, ClusterScalingTypeOK, Bigger
  <2> QED  BY <2>1 DEF ScLoopType
<1> HIDE DEF next
<1> QED  BY <1>1, <1>3, LoopKeeps DEF ScIInv, ClusterScalingTypeOK

LEMMA GetVersionKeeps == ASSUME ScIInv, GetVersion PROVE ScIInv'
<1> DEFINE next == [scLoop EXCEPT !.pc = IF ScExists THEN "plan" ELSE "dead"]
<1>1. LoopStep("get", next) /\ UNCHANGED <<scNode, scRecent>> /\ scLoop.pc = "get"
  BY DEF GetVersion, LoopStep
<1>2. next \in ScLoopType /\ next.pc \in {"plan", "dead"}
  BY DEF ScIInv, ClusterScalingTypeOK, ScLoopType
<1> HIDE DEF next
<1> QED  BY <1>1, <1>2, LoopKeeps DEF ScIInv, ClusterScalingTypeOK

LEMMA PlanKeeps == ASSUME ScIInv, PlanReplicas PROVE ScIInv'
<1> DEFINE targets == Targets(Fitting, Free, Healthy, ScReplicaMemory, scLoop.desired)
           plan == [n \in ScNode |-> IF n \in Fitting THEN targets[n] ELSE 0]
           placed == [scLoop EXCEPT !.pc = "apply", !.todo = Fitting, !.targets = plan]
           fits == ScExists /\ Fitting # {} /\ scLoop.desired <= ScMaxReplicas
           next == IF fits THEN placed ELSE Asleep
<1>1. LoopStep("plan", next) /\ UNCHANGED <<scNode, scRecent>> /\ scLoop.pc = "plan"
  BY DEF PlanReplicas, LoopStep
<1>2. ASSUME fits PROVE placed \in ScLoopType /\ placed.pc = "apply" /\ placed.todo # {}
  <2>1. scLoop \in ScLoopType /\ scLoop.desired \in Nat /\ ScMaxReplicas \in Nat /\ Fitting \subseteq ScNode
    BY ScTypes, ClusterScalingAssumption DEF ScIInv, ClusterScalingTypeOK, Fitting, Answering
  <2>2. targets \in [Fitting -> 0..scLoop.desired]
    BY <2>1, TargetsTyped
  <2>3. \A k \in 0..scLoop.desired : k \in 0..ScMaxReplicas
    BY <1>2, <2>1
  <2> HIDE DEF targets
  <2>4. plan \in [ScNode -> 0..ScMaxReplicas]
    BY <2>1, <2>2, <2>3
  <2> HIDE DEF plan
  <2> QED  BY <1>2, <2>1, <2>4 DEF ScLoopType
<1> HIDE DEF placed
<1>3. next \in ScLoopType /\ next.pc \in {"apply", "tasks"} /\ (next.pc = "apply" => next.todo # {})
  <2> HIDE DEF fits
  <2> QED  BY <1>2, AsleepTyped
<1> HIDE DEF next
<1> QED  BY <1>1, <1>3, LoopKeeps DEF ScIInv, ClusterScalingTypeOK

LEMMA ApplyKeeps == ASSUME ScIInv, ApplyTarget PROVE ScIInv'
<1> DEFINE n == CHOOSE n \in scLoop.todo : \A o \in scLoop.todo : n <= o
           left == scLoop.todo \ {n}
           next == IF NodeAnswers(n) /\ left # {} THEN [scLoop EXCEPT !.todo = left] ELSE Asleep
<1>1. /\ LoopStep("apply", next) /\ UNCHANGED scRecent /\ scLoop.pc = "apply"
      /\ scNode' = IF NodeAnswers(n) THEN [scNode EXCEPT ![n].healthy = scLoop.targets[n]] ELSE scNode
  BY DEF ApplyTarget
<1>2. n \in ScNode
  <2>1. scLoop.todo # {} /\ scLoop.todo \subseteq ScNode
    BY <1>1, ScTypes DEF ScIInv
  <2>2. ScNode \subseteq Nat
    BY ClusterScalingAssumption DEF ScNode
  <2> QED  BY <2>1, <2>2, LeastIsIn
<1> HIDE DEF n
<1>3. /\ next \in ScLoopType /\ next.pc \in {"apply", "tasks"} /\ (next.pc = "apply" => next.todo # {})
  <2>1. scLoop \in ScLoopType /\ left \subseteq ScNode
    BY ScTypes DEF ScIInv, ClusterScalingTypeOK
  <2>2. [scLoop EXCEPT !.todo = left] \in ScLoopType /\ [scLoop EXCEPT !.todo = left].todo = left
        /\ [scLoop EXCEPT !.todo = left].pc = "apply"
    BY <1>1, <2>1 DEF ScLoopType
  <2> QED  BY <2>2, AsleepTyped
<1> HIDE DEF next
<1>4. scNode' \in [ScNode -> ScNodeType]
  <2>1. scLoop.targets[n] \in 0..ScMaxReplicas /\ scNode \in [ScNode -> ScNodeType] /\ scNode[n] \in ScNodeType
    BY <1>2, ScTypes DEF ScIInv, ClusterScalingTypeOK
  <2>2. [scNode[n] EXCEPT !.healthy = scLoop.targets[n]] \in ScNodeType
    BY <2>1 DEF ScNodeType
  <2> QED  BY <1>1, <1>2, <2>1, <2>2
<1> QED  BY <1>1, <1>3, <1>4, LoopKeeps DEF ScIInv, ClusterScalingTypeOK

\* What touches neither the loop nor the policy.
LEMMA AroundLoop ==
  ASSUME ScIInv, UNCHANGED <<scPolicy, scLoop>>, scNode' \in [ScNode -> ScNodeType],
         scVersion' \in {"unused", "used", "deleted"},
         scTasks' \in 0..ScMaxTasks, scRecent' \in BOOLEAN,
         scStart' \in [ScWorker -> {NoStart, LookFirst} \union ScNode], scChanges' \in 0..ScMaxChanges
  PROVE  ScIInv'
BY DEF ScIInv, ClusterScalingTypeOK

LEMMA Changed == ASSUME ScIInv, Change PROVE scChanges' \in 0..ScMaxChanges
BY ClusterScalingAssumption DEF Change, ScIInv, ClusterScalingTypeOK

LEMMA LookForKeeps == ASSUME ScIInv, NEW w \in ScWorker, LookForInstance(w) PROVE ScIInv'
<1> DEFINE Worth(n) == scNode[n].free - (scNode[n].healthy + scNode[n].idle) * 1024
           best == {n \in Fitting : \A o \in Fitting : Worth(n) >= Worth(o)}
           least == CHOOSE n \in best : \A o \in best : n <= o
<1>1. Answering \subseteq ScNode /\ Fitting \subseteq ScNode /\ ScNode \subseteq Nat
  BY ClusterScalingAssumption DEF Answering, Fitting, ScNode
<1>2. Fitting # {} => least \in ScNode
  <2> DEFINE worth == [n \in ScNode |-> Worth(n)]
  <2>1. worth \in [ScNode -> Int]
    <3>1. ASSUME NEW n \in ScNode PROVE Worth(n) \in Int
      <4>1. scNode[n].free \in Nat /\ scNode[n].healthy \in Nat /\ scNode[n].idle \in Nat
        BY ScTypes DEF ScIInv
      <4> QED  BY <4>1
    <3> HIDE DEF Worth
    <3> QED  BY <3>1
  <2>2. \A n \in ScNode : worth[n] = Worth(n)
    OBVIOUS
  <2> HIDE DEF worth, Worth
  <2>3. ASSUME Fitting # {} PROVE best # {}
    <3>1. PICK n \in Fitting : \A o \in Fitting : worth[n] >= worth[o]
      BY <1>1, <2>1, <2>3, BestExists
    <3> QED  BY <1>1, <2>2, <3>1
  <2>4. best \subseteq ScNode /\ best \subseteq Nat
    BY <1>1
  <2> HIDE DEF best
  <2> QED  BY <2>3, <2>4, LeastIsIn
<1> HIDE DEF least
<1>3. PICK next \in {NoStart} \union ScNode : StartStep(w, LookFirst, next)
  <2>1. CASE \E n \in {n \in Answering : scNode[n].healthy > 0} : StartStep(w, LookFirst, n)
    BY <1>1, <2>1
  <2>2. CASE StartStep(w, LookFirst, NoStart)
    BY <2>2
  <2>3. CASE Fitting # {} /\ StartStep(w, LookFirst, least)
    BY <1>2, <2>3
  <2> QED  BY <2>1, <2>2, <2>3 DEF LookForInstance, least
<1>4. scStart' \in [ScWorker -> {NoStart, LookFirst} \union ScNode]
  BY <1>3 DEF StartStep, ScIInv, ClusterScalingTypeOK
<1> QED  BY <1>3, <1>4, AroundLoop DEF LookForInstance, StartStep, ScIInv, ClusterScalingTypeOK

LEMMA ScStartKeeps == ASSUME ScIInv, NEW w \in ScWorker, NEW n \in ScNode, StartOnNode(w, n) PROVE ScIInv'
<1> DEFINE one == [scNode[n] EXCEPT !.healthy = 1, !.idle = IF @ > 0 THEN @ - 1 ELSE 0]
<1>1. StartStep(w, n, NoStart)
  BY DEF StartOnNode
<1>2. scNode' = scNode \/ (ScMaxReplicas # 0 /\ scNode' = [scNode EXCEPT ![n] = one])
  BY DEF StartOnNode
<1>3. ScMaxReplicas # 0 => one \in ScNodeType
  <2>1. scNode[n] \in ScNodeType /\ scNode[n].idle \in Nat /\ ScMaxReplicas \in Nat
    BY ScTypes DEF ScIInv, ClusterScalingTypeOK
  <2>2. (IF scNode[n].idle > 0 THEN scNode[n].idle - 1 ELSE 0) \in Nat /\ (ScMaxReplicas # 0 => 1 \in 0..ScMaxReplicas)
    BY <2>1
  <2> QED  BY <2>1, <2>2 DEF ScNodeType
<1> HIDE DEF one
<1>4. scNode' \in [ScNode -> ScNodeType]
  BY <1>2, <1>3 DEF ScIInv, ClusterScalingTypeOK
<1>5. scStart' \in [ScWorker -> {NoStart, LookFirst} \union ScNode]
  BY <1>1 DEF StartStep, ScIInv, ClusterScalingTypeOK
<1> QED  BY <1>1, <1>4, <1>5, AroundLoop DEF StartStep, ScIInv, ClusterScalingTypeOK

LEMMA PolicyKeeps ==
  ASSUME ScIInv, PassDies \/ \E p \in ScPolicy : SetPolicy(p)
  PROVE  ScIInv'
<1>1. scChanges' \in 0..ScMaxChanges
  BY Changed DEF SetPolicy, PassDies
<1>2. CASE PassDies
  <2>1. scLoop' \in ScLoopType /\ scLoop'.pc = "dead"
    BY <1>2 DEF PassDies, ScIInv, ClusterScalingTypeOK, ScLoopType
  <2> QED  BY <1>1, <1>2, <2>1 DEF PassDies, ScIInv, ClusterScalingTypeOK
<1>3. CASE \E p \in ScPolicy : SetPolicy(p)
  BY <1>1, <1>3 DEF SetPolicy, ScIInv, ClusterScalingTypeOK
<1> QED  BY <1>2, <1>3

\* Any amount of memory becomes free.
LEMMA MemoryKeeps == ASSUME ScIInv, NEW n \in ScNode, MemoryChanges(n) PROVE ScIInv'
<1>1. PICK free \in 0..ScMemory[n] : scNode' = [scNode EXCEPT ![n].free = free]
  BY DEF MemoryChanges
<1>2. free \in Nat
  BY ClusterScalingAssumption
<1>3. scNode \in [ScNode -> ScNodeType] /\ [scNode[n] EXCEPT !.free = free] \in ScNodeType
  BY <1>2 DEF ScNodeType, ScIInv, ClusterScalingTypeOK
<1>4. scNode' \in [ScNode -> ScNodeType]
  BY <1>1, <1>3
<1> QED  BY <1>4, AroundLoop DEF MemoryChanges, ScIInv, ClusterScalingTypeOK

LEMMA NodesKeep ==
  ASSUME ScIInv, DeleteScaledVersion \/ \E n \in ScNode : NodeChanges(n) \/ InstanceStops(n)
  PROVE  ScIInv'
<1>1. scChanges' \in 0..ScMaxChanges
  BY Changed DEF DeleteScaledVersion, NodeChanges, InstanceStops
<1>2. \A n \in ScNode : scNode[n] \in ScNodeType
  BY DEF ScIInv, ClusterScalingTypeOK
<1>3. CASE DeleteScaledVersion
  <2>1. ASSUME NEW n \in ScNode PROVE [scNode[n] EXCEPT !.healthy = 0, !.idle = 0] \in ScNodeType
    <3>1. 0 \in 0..ScMaxReplicas
      BY ClusterScalingAssumption
    <3> QED  BY <1>2, <3>1 DEF ScNodeType
  <2>2. scNode' \in [ScNode -> ScNodeType]
    BY <1>2, <1>3, <2>1 DEF DeleteScaledVersion
  <2> QED  BY <1>1, <1>3, <2>2, AroundLoop DEF DeleteScaledVersion, ScIInv, ClusterScalingTypeOK
<1>4. ASSUME NEW n \in ScNode, NodeChanges(n) \/ InstanceStops(n) PROVE ScIInv'
  <2>1. PICK node \in ScNodeType : scNode' = [scNode EXCEPT ![n] = node]
    <3>1. CASE NodeChanges(n)
      <4>1. [scNode[n] EXCEPT !.enabled = ~@] \in ScNodeType /\ [scNode[n] EXCEPT !.reachable = ~@] \in ScNodeType
        BY <1>2 DEF ScNodeType
      <4> QED  BY <3>1, <4>1 DEF NodeChanges
    <3>2. CASE InstanceStops(n)
      <4> DEFINE node == [scNode[n] EXCEPT !.healthy = @ - 1, !.idle = @ + 1]
      <4>1. scNode[n].healthy \in 0..ScMaxReplicas /\ scNode[n].idle \in Nat /\ scNode[n].healthy > 0
        BY <3>2, ScTypes DEF InstanceStops, ScIInv
      <4>2. scNode[n].healthy - 1 \in 0..ScMaxReplicas /\ scNode[n].idle + 1 \in Nat
        BY <4>1, ClusterScalingAssumption
      <4>3. node \in ScNodeType
        BY <1>2, <4>2 DEF ScNodeType
      <4>4. scNode' = [scNode EXCEPT ![n] = node]
        BY <3>2 DEF InstanceStops
      <4> HIDE DEF node
      <4> QED  BY <4>3, <4>4
    <3> QED  BY <1>4, <3>1, <3>2
  <2>2. scNode' \in [ScNode -> ScNodeType]
    BY <2>1 DEF ScIInv, ClusterScalingTypeOK
  <2> QED  BY <1>1, <1>4, <2>2, AroundLoop DEF NodeChanges, InstanceStops, ScIInv, ClusterScalingTypeOK
<1> QED  BY <1>3, <1>4

LEMMA ScTasksKeep ==
  ASSUME ScIInv, TaskEnds \/ IdleTimePasses \/ \E w \in ScWorker : TaskArrives(w)
  PROVE  ScIInv'
<1>1. scTasks \in 0..ScMaxTasks /\ ScMaxTasks \in Nat
  BY ScTypes DEF ScIInv, ClusterScalingTypeOK
<1>2. CASE TaskEnds
  BY <1>1, <1>2, AroundLoop DEF TaskEnds, ScIInv, ClusterScalingTypeOK
<1>3. CASE IdleTimePasses
  BY <1>3, AroundLoop DEF IdleTimePasses, ScIInv, ClusterScalingTypeOK
<1>4. ASSUME NEW w \in ScWorker, TaskArrives(w) PROVE ScIInv'
  <2>1. scChanges' \in 0..ScMaxChanges /\ scTasks' \in 0..ScMaxTasks
    BY <1>1, <1>4, Changed DEF TaskArrives
  <2>2. scStart' \in [ScWorker -> {NoStart, LookFirst} \union ScNode]
    BY <1>4 DEF TaskArrives, ScIInv, ClusterScalingTypeOK
  <2> QED  BY <1>4, <2>1, <2>2, AroundLoop DEF TaskArrives, ScIInv, ClusterScalingTypeOK
<1> QED  BY <1>2, <1>3, <1>4

LEMMA ScRestartKeeps == ASSUME ScIInv, RestartScaling PROVE ScIInv'
<1>1. scChanges' \in 0..ScMaxChanges /\ 0 \in 0..ScMaxTasks
  BY Changed, ClusterScalingAssumption DEF RestartScaling
<1> QED  BY <1>1, AsleepTyped DEF RestartScaling, ScIInv, ClusterScalingTypeOK

LEMMA ScStepKeeps == ASSUME ScIInv, [ScNext \/ ScIdle]_scVars PROVE ScIInv'
<1>1. CASE ScIdle \/ UNCHANGED scVars
  BY <1>1 DEF ScIdle, scVars, ScIInv, ClusterScalingTypeOK
<1>2. CASE ScLoopSteps
  BY <1>2, ReadTasksKeeps, ReadPolicyKeeps, CountKeeps, GetVersionKeeps, PlanKeeps, ApplyKeeps DEF ScLoopSteps
<1>3. CASE \E w \in ScWorker : ScStartSteps(w)
  BY <1>3, LookForKeeps, ScStartKeeps DEF ScStartSteps
<1>4. CASE PassDies \/ \E p \in ScPolicy : SetPolicy(p)
  BY <1>4, PolicyKeeps
<1>5. CASE TaskEnds \/ IdleTimePasses \/ \E w \in ScWorker : TaskArrives(w)
  BY <1>5, ScTasksKeep
<1>6. CASE DeleteScaledVersion \/ \E n \in ScNode : NodeChanges(n) \/ InstanceStops(n)
  BY <1>6, NodesKeep
<1>7. CASE RestartScaling
  BY <1>7, ScRestartKeeps
<1>8. CASE \E n \in ScNode : MemoryChanges(n)
  BY <1>8, MemoryKeeps
<1> QED  BY <1>1, <1>2, <1>3, <1>4, <1>5, <1>6, <1>7, <1>8 DEF ScNext

LEMMA ScAlwaysInv == ScSpec => []ScIInv
<1>1. ScInit => ScIInv
  BY ScInitInv
<1>2. ScIInv /\ [ScNext \/ ScIdle]_scVars => ScIInv'
  BY ScStepKeeps
<1> QED  BY <1>1, <1>2, PTL DEF ScSpec

\* Nodes, replicas, policies, the loop and the callers keep their types.
THEOREM ClusterScalingTypeCorrect == ScSpec => []ClusterScalingTypeOK
<1>1. ScIInv => ClusterScalingTypeOK
  BY DEF ScIInv
<1> QED  BY <1>1, ScAlwaysInv, PTL

(***************************************************************************)
(* The placement.  The replicas taken are the first ones in a strict total *)
(* order: by score, then by replicas, then by node.                        *)
(***************************************************************************)

\* B is a strict total order of P.
Orders(B, P) ==
  /\ \A x \in P : <<x, x>> \notin B
  /\ \A x, y, z \in P : <<x, y>> \in B /\ <<y, z>> \in B => <<x, z>> \in B
  /\ \A x, y \in P : x = y \/ <<x, y>> \in B \/ <<y, x>> \in B

Above(B, P, x) == {s \in P : <<s, x>> \in B}

\* Whoever comes later has more before it.
LEMMA LaterHasMore ==
  ASSUME NEW P, IsFiniteSet(P), NEW B, Orders(B, P), NEW x \in P, NEW y \in P, <<x, y>> \in B
  PROVE  /\ IsFiniteSet(Above(B, P, x)) /\ IsFiniteSet(Above(B, P, y))
         /\ Cardinality(Above(B, P, x)) \in Nat /\ Cardinality(Above(B, P, y)) \in Nat
         /\ Cardinality(Above(B, P, x)) < Cardinality(Above(B, P, y))
<1>1. Above(B, P, x) \subseteq Above(B, P, y) /\ x \in Above(B, P, y) /\ x \notin Above(B, P, x)
  BY DEF Above, Orders
<1>2. Above(B, P, y) \in SUBSET P
  BY DEF Above
<1>3. IsFiniteSet(Above(B, P, y))
  BY <1>2, FS_Subset
<1>4. /\ IsFiniteSet(Above(B, P, x)) /\ Cardinality(Above(B, P, x)) <= Cardinality(Above(B, P, y))
      /\ Cardinality(Above(B, P, x)) # Cardinality(Above(B, P, y))
  <2>1. Above(B, P, x) \in SUBSET Above(B, P, y)
    BY <1>1
  <2>2. Above(B, P, x) # Above(B, P, y)
    BY <1>1
  <2> QED  BY <1>3, <2>1, <2>2, FS_Subset
<1> QED  BY <1>3, <1>4, FS_CardinalityType

FirstIn(B, P, m) == {p \in P : Cardinality(Above(B, P, p)) < m}

\* The first m elements are m.
LEMMA FirstAreMany ==
  ASSUME NEW P, IsFiniteSet(P), NEW B, Orders(B, P), NEW m \in Nat, m <= Cardinality(P)
  PROVE  IsFiniteSet(FirstIn(B, P, m)) /\ Cardinality(FirstIn(B, P, m)) = m
<1> DEFINE rank(p) == Cardinality(Above(B, P, p))
           Fine == {i \in Nat : i <= Cardinality(P) => Cardinality(FirstIn(B, P, i)) = i}
<1>1. \A p \in P : IsFiniteSet(Above(B, P, p)) /\ rank(p) \in Nat
  <2>1. ASSUME NEW p \in P PROVE IsFiniteSet(Above(B, P, p))
    <3>1. Above(B, P, p) \in SUBSET P
      BY DEF Above
    <3> QED  BY <3>1, FS_Subset
  <2> QED  BY <2>1, FS_CardinalityType
<1>2. ASSUME NEW i PROVE IsFiniteSet(FirstIn(B, P, i))
  <2>1. FirstIn(B, P, i) \in SUBSET P
    BY DEF FirstIn
  <2> QED  BY <2>1, FS_Subset
<1>3. Cardinality(P) \in Nat
  BY FS_CardinalityType
<1>4. 0 \in Fine
  <2>1. FirstIn(B, P, 0) = {}
    BY <1>1 DEF FirstIn
  <2> QED  BY <2>1, FS_EmptySet
<1>5. ASSUME NEW i \in Nat, i \in Fine, i + 1 <= Cardinality(P)
      PROVE  Cardinality(FirstIn(B, P, i + 1)) = i + 1
  <2> DEFINE T == FirstIn(B, P, i)
             rest == P \ T
             ranks == {rank(p) : p \in rest}
  <2>1. Cardinality(T) = i /\ T \subseteq P /\ IsFiniteSet(T)
    BY <1>2, <1>3, <1>5 DEF FirstIn
  <2>2. rest # {}
    <3>1. T # P
      BY <1>3, <1>5, <2>1
    <3> QED  BY <2>1, <3>1
  <2>3. PICK least \in ranks : \A x \in ranks : least <= x
    <3>1. ranks \in SUBSET Nat /\ ranks # {}
      BY <1>1, <2>2
    <3> HIDE DEF ranks
    <3> QED  BY <3>1, LeastExists
  <2>4. PICK b \in rest : rank(b) = least
    OBVIOUS
  <2>5. b \in P /\ b \notin T /\ \A c \in rest : rank(b) <= rank(c)
    BY <2>3, <2>4
  <2>6. \A c \in rest : c = b \/ <<b, c>> \in B
    <3>1. SUFFICES ASSUME NEW c \in rest, <<c, b>> \in B PROVE FALSE
      BY <2>5 DEF Orders
    <3>2. rank(c) < rank(b) /\ rank(c) \in Nat /\ rank(b) \in Nat
      BY <2>5, <3>1, LaterHasMore
    <3>3. rank(b) <= rank(c)
      BY <2>5
    <3> HIDE DEF rank
    <3> QED  BY <3>2, <3>3
  <2>7. Above(B, P, b) = T
    <3>1. Above(B, P, b) \subseteq T
      BY <2>5, <2>6 DEF Above, Orders
    <3>2. ASSUME NEW x \in T, <<x, b>> \notin B PROVE FALSE
      <4>1. x \in P /\ <<b, x>> \in B
        BY <2>1, <2>5, <3>2 DEF Orders
      <4>2. rank(b) < rank(x) /\ rank(x) \in Nat /\ rank(b) \in Nat
        BY <2>5, <4>1, LaterHasMore
      <4>3. rank(x) < i /\ ~(rank(b) < i)
        BY <2>5, <3>2 DEF FirstIn
      <4> HIDE DEF rank
      <4> QED  BY <4>2, <4>3
    <3> QED  BY <2>1, <3>1, <3>2 DEF Above
  <2>8. rank(b) = i
    BY <2>1, <2>7
  <2>9. FirstIn(B, P, i + 1) = T \union {b}
    <3>1. ASSUME NEW c \in P, rank(c) < i + 1 PROVE c \in T \union {b}
      <4>1. SUFFICES ASSUME c \notin T, c # b PROVE FALSE
        OBVIOUS
      <4>2. <<b, c>> \in B
        BY <2>6, <4>1
      <4>3. rank(b) < rank(c) /\ rank(c) \in Nat
        BY <2>5, <4>2, LaterHasMore
      <4> HIDE DEF rank
      <4> QED  BY <2>8, <3>1, <4>3
    <3>2. ASSUME NEW c \in T \union {b} PROVE c \in P /\ rank(c) < i + 1
      <4>1. c \in P /\ rank(c) \in Nat
        BY <1>1, <2>1, <2>5
      <4>2. c \in T => rank(c) < i
        BY DEF FirstIn
      <4> HIDE DEF rank, T
      <4> QED  BY <2>8, <4>1, <4>2
    <3> QED  BY <3>1, <3>2 DEF FirstIn
  <2> HIDE DEF T
  <2> QED  BY <2>1, <2>5, <2>9, FS_AddElement
<1>6. \A i \in Nat : i \in Fine
  <2>1. ASSUME NEW i \in Nat, i \in Fine PROVE i + 1 \in Fine
    BY <1>5, <2>1
  <2> HIDE DEF Fine
  <2> QED  BY <1>4, <2>1, SetInduction
<1> QED  BY <1>2, <1>6

\* Numbers from 1 without a gap.
LEMMA PrefixIsInterval ==
  ASSUME NEW m \in Nat, NEW S \in SUBSET (1..m), \A k \in S : \A j \in 1..k : j \in S
  PROVE  Cardinality(S) \in 0..m /\ S = 1..Cardinality(S)
<1>1. PICK x \in (1..(m + 1)) \ S : \A y \in (1..(m + 1)) \ S : x <= y
  <2>1. (1..(m + 1)) \ S \in SUBSET Nat /\ m + 1 \in (1..(m + 1)) \ S
    OBVIOUS
  <2> QED  BY <2>1, LeastExists
<1>2. S = 1..(x - 1)
  <2>1. ASSUME NEW k \in S PROVE k \in 1..(x - 1)
    <3>1. k \in Nat /\ 1 <= k /\ x \in Nat /\ 1 <= x /\ x \notin S
      BY <1>1
    <3>2. ~(x <= k)
      BY <2>1, <3>1
    <3> QED  BY <3>1, <3>2
  <2>2. ASSUME NEW k \in 1..(x - 1) PROVE k \in S
    <3>1. k \in 1..(m + 1) /\ ~(x <= k)
      BY <1>1
    <3> QED  BY <1>1, <3>1
  <2> QED  BY <2>1, <2>2
<1>3. Cardinality(1..(x - 1)) = x - 1
  BY <1>1, FS_Interval
<1> QED  BY <1>1, <1>2, <1>3

\* The replicas of a set that are on node n.
Placed(T, m, n) == {k \in 1..m : <<n, k>> \in T}

\* A total counts the pairs it is made of.
LEMMA TotalCounts ==
  ASSUME NEW nodes \in SUBSET ScNode, NEW m \in Nat, NEW T \in SUBSET (nodes \X (1..m)), IsFiniteSet(T),
         NEW f, \A n \in nodes : f[n] = Cardinality(Placed(T, m, n))
  PROVE  TotalOf(f, nodes) = Cardinality(T)
<1> DEFINE Upto(i) == {p \in T : p[1] <= i}
           ks(n) == Placed(T, m, n)
<1>1. nodes \subseteq Nat /\ \A n \in nodes : n <= ScNodes /\ n # 0
  BY ClusterScalingAssumption DEF ScNode
<1>2. \A n \in nodes : IsFiniteSet(ks(n)) /\ f[n] = Cardinality(ks(n)) /\ f[n] \in Nat
  <2>1. ASSUME NEW n \in nodes PROVE IsFiniteSet(ks(n))
    <3>1. ks(n) \in SUBSET (1..m)
      BY DEF Placed
    <3> HIDE DEF ks
    <3>2. IsFiniteSet(1..m)
      BY FS_Interval
    <3> QED  BY <3>1, <3>2, FS_Subset
  <2> HIDE DEF ks
  <2>2. \A n \in nodes : f[n] = Cardinality(ks(n))
    BY DEF ks
  <2> QED  BY <2>1, <2>2, FS_CardinalityType
<1>3. PICK sum : TotalBy(sum, f, nodes) /\ TotalOf(f, nodes) = sum[ScNodes]
  BY <1>2, TotalUnfolds
<1>4. \A i \in Nat : IsFiniteSet(Upto(i)) /\ Cardinality(Upto(i)) \in Nat
  <2>1. ASSUME NEW i \in Nat PROVE IsFiniteSet(Upto(i))
    <3>1. Upto(i) \in SUBSET T
      OBVIOUS
    <3> HIDE DEF Upto
    <3> QED  BY <3>1, FS_Subset
  <2> HIDE DEF Upto
  <2> QED  BY <2>1, FS_CardinalityType
<1> DEFINE Fine == {i \in Nat : sum[i] = Cardinality(Upto(i))}
<1>5. 0 \in Fine
  <2>1. Upto(0) = {}
    <3>1. ASSUME NEW p \in T, p[1] <= 0 PROVE FALSE
      <4>1. p[1] \in nodes
        OBVIOUS
      <4>2. p[1] \in Nat /\ p[1] # 0
        BY <1>1, <4>1
      <4> QED  BY <3>1, <4>2
    <3> QED  BY <3>1
  <2> QED  BY <1>3, <2>1, FS_EmptySet DEF TotalBy
<1>6. ASSUME NEW i \in Nat, i \in Fine PROVE i + 1 \in Fine
  <2>1. sum[i + 1] = sum[i] + (IF i + 1 \in nodes THEN f[i + 1] ELSE 0) /\ sum[i] = Cardinality(Upto(i))
    BY <1>3, <1>6 DEF TotalBy
  <2> DEFINE added == {p \in T : p[1] = i + 1}
  <2>2. Upto(i + 1) = Upto(i) \union added /\ Upto(i) \intersect added = {}
    <3>1. \A p \in T : p[1] \in Nat
      BY <1>1
    <3>2. \A p \in T : (p[1] <= i + 1 <=> p[1] <= i \/ p[1] = i + 1) /\ ~(p[1] <= i /\ p[1] = i + 1)
      BY <3>1
    <3> QED  BY <3>2
  <2>3. CASE i + 1 \notin nodes
    <3>1. added = {}
      BY <2>3
    <3>2. Upto(i + 1) = Upto(i)
      BY <2>2, <3>1
    <3>3. Cardinality(Upto(i)) \in Nat
      BY <1>4
    <3> HIDE DEF Upto
    <3> QED  BY <2>1, <2>3, <3>2, <3>3
  <2>4. CASE i + 1 \in nodes
    <3>1. added = {i + 1} \X ks(i + 1)
      <4>1. ASSUME NEW p \in added PROVE p \in {i + 1} \X ks(i + 1)
        <5>1. p \in nodes \X (1..m) /\ p \in T /\ p[1] = i + 1
          OBVIOUS
        <5>2. p = <<i + 1, p[2]>> /\ p[2] \in 1..m
          BY <5>1
        <5> QED  BY <5>1, <5>2 DEF Placed
      <4>2. ASSUME NEW k \in ks(i + 1) PROVE <<i + 1, k>> \in added
        BY DEF Placed
      <4> HIDE DEF added, ks
      <4> QED  BY <4>1, <4>2
    <3>2. IsFiniteSet(added) /\ Cardinality(added) = f[i + 1] /\ f[i + 1] \in Nat
      <4>1. IsFiniteSet({i + 1}) /\ Cardinality({i + 1}) = 1
        BY FS_Singleton
      <4>2. IsFiniteSet(ks(i + 1)) /\ f[i + 1] = Cardinality(ks(i + 1)) /\ f[i + 1] \in Nat
        BY <1>2, <2>4
      <4> HIDE DEF added, ks
      <4>3. IsFiniteSet(added) /\ Cardinality(added) = Cardinality({i + 1}) * Cardinality(ks(i + 1))
        BY <3>1, <4>1, <4>2, FS_Product
      <4> QED  BY <4>1, <4>2, <4>3
    <3>3. IsFiniteSet(Upto(i)) /\ Cardinality(Upto(i)) \in Nat
      BY <1>4
    <3> HIDE DEF added, Upto
    <3>4. Cardinality(Upto(i + 1)) = Cardinality(Upto(i)) + f[i + 1]
      <4>1. Cardinality(Upto(i) \union added) = Cardinality(Upto(i)) + Cardinality(added) - Cardinality({})
        BY <2>2, <3>2, <3>3, FS_Union
      <4>2. Cardinality({}) = 0
        BY FS_EmptySet
      <4>3. Cardinality(Upto(i + 1)) = Cardinality(Upto(i) \union added)
        BY <2>2
      <4>4. Cardinality(Upto(i) \union added) = Cardinality(Upto(i)) + f[i + 1]
        <5>1. Cardinality(Upto(i)) + f[i + 1] - 0 = Cardinality(Upto(i)) + f[i + 1]
          BY <3>2, <3>3
        <5> QED  BY <3>2, <4>1, <4>2, <5>1
      <4> QED  BY <4>3, <4>4
    <3> QED  BY <2>1, <2>4, <3>4
  <2> QED  BY <2>3, <2>4
<1>7. \A i \in Nat : i \in Fine
  <2> HIDE DEF Fine
  <2> QED  BY <1>5, <1>6, SetInduction
<1>8. Upto(ScNodes) = T
  <2>1. \A p \in T : p[1] <= ScNodes
    BY <1>1
  <2> QED  BY <2>1
<1>9. ScNodes \in Fine
  BY <1>7, ClusterScalingAssumption
<1> HIDE DEF Upto
<1> QED  BY <1>3, <1>8, <1>9

\* One replica more on a node leaves less.
LEMMA ScoreFalls ==
  ASSUME NEW free \in Nat, NEW memory \in Nat, NEW k \in Nat
  PROVE  /\ Score(free, k, memory) \in Int
         /\ Score(free, k + 1, memory) <= Score(free, k, memory)
<1>1. k * memory \in Nat /\ (k + 1) * memory = k * memory + memory
  OBVIOUS
<1>2. PICK x : x = k * memory
  OBVIOUS
<1>3. PICK y : y = (k + 1) * memory
  OBVIOUS
<1>4. x \in Nat /\ y = x + memory
  BY <1>1, <1>2, <1>3
<1>5. /\ Score(free, k, memory) = IF free = 0 THEN -k ELSE free - x
      /\ Score(free, k + 1, memory) = IF free = 0 THEN -(k + 1) ELSE free - y
  BY <1>2, <1>3 DEF Score
<1> QED  BY <1>4, <1>5

\* The replicas of a placement in their order: `score` and `rest` are the parts
\* of the key, the number of the node decides between equals.
Earlier(P, score, rest) ==
  {rs \in P \X P : LET r == rs[1]  s == rs[2] IN
     \/ score[r] > score[s]
     \/ score[r] = score[s] /\ rest[r] > rest[s]
     \/ score[r] = score[s] /\ rest[r] = rest[s] /\ r[1] < s[1]}

LEMMA KeysDiffer ==
  ASSUME NEW a \in Int, NEW b \in Int, NEW c \in Int, NEW d \in Int, NEW i \in Nat, NEW j \in Nat,
         a # b \/ c # d \/ i # j
  PROVE  \/ a > b \/ (a = b /\ c > d) \/ (a = b /\ c = d /\ i < j)
         \/ b > a \/ (b = a /\ d > c) \/ (b = a /\ d = c /\ j < i)
OBVIOUS

LEMMA EarlierOrders ==
  ASSUME NEW P, NEW score, NEW rest, \A r \in P : score[r] \in Int /\ rest[r] \in Int /\ r[1] \in Nat,
         \A r, s \in P : r[1] = s[1] /\ rest[r] = rest[s] => r = s
  PROVE  Orders(Earlier(P, score, rest), P)
<1> DEFINE B == Earlier(P, score, rest)
<1>1. \A r, s \in P : <<r, s>> \in B <=>
         \/ score[r] > score[s]
         \/ score[r] = score[s] /\ rest[r] > rest[s]
         \/ score[r] = score[s] /\ rest[r] = rest[s] /\ r[1] < s[1]
  BY DEF Earlier
<1>2. \A r \in P : score[r] \in Int /\ rest[r] \in Int /\ r[1] \in Nat
  OBVIOUS
<1> HIDE DEF B
<1>3. \A x \in P : <<x, x>> \notin B
  BY <1>1, <1>2
<1>4. \A x, y, z \in P : <<x, y>> \in B /\ <<y, z>> \in B => <<x, z>> \in B
  <2>1. SUFFICES ASSUME NEW x \in P, NEW y \in P, NEW z \in P, <<x, y>> \in B, <<y, z>> \in B
                 PROVE  <<x, z>> \in B
    OBVIOUS
  <2>2. /\ {score[x], score[y], score[z], rest[x], rest[y], rest[z]} \subseteq Int
        /\ {x[1], y[1], z[1]} \subseteq Nat
    BY <1>2
  <2>3. \/ score[x] > score[y]
        \/ score[x] = score[y] /\ rest[x] > rest[y]
        \/ score[x] = score[y] /\ rest[x] = rest[y] /\ x[1] < y[1]
    BY <1>1, <2>1
  <2>4. \/ score[y] > score[z]
        \/ score[y] = score[z] /\ rest[y] > rest[z]
        \/ score[y] = score[z] /\ rest[y] = rest[z] /\ y[1] < z[1]
    BY <1>1, <2>1
  <2>5. \/ score[x] > score[z]
        \/ score[x] = score[z] /\ rest[x] > rest[z]
        \/ score[x] = score[z] /\ rest[x] = rest[z] /\ x[1] < z[1]
    BY <2>2, <2>3, <2>4
  <2> QED  BY <1>1, <2>5
<1>5. \A x, y \in P : x = y \/ <<x, y>> \in B \/ <<y, x>> \in B
  <2>1. SUFFICES ASSUME NEW x \in P, NEW y \in P, x # y PROVE <<x, y>> \in B \/ <<y, x>> \in B
    OBVIOUS
  <2>2. /\ score[x] \in Int /\ score[y] \in Int /\ rest[x] \in Int /\ rest[y] \in Int
        /\ x[1] \in Nat /\ y[1] \in Nat
    BY <1>2
  <2>3. score[x] # score[y] \/ rest[x] # rest[y] \/ x[1] # y[1]
    BY <2>1
  <2>4. \/ score[x] > score[y]
        \/ score[x] = score[y] /\ rest[x] > rest[y]
        \/ score[x] = score[y] /\ rest[x] = rest[y] /\ x[1] < y[1]
        \/ score[y] > score[x]
        \/ score[y] = score[x] /\ rest[y] > rest[x]
        \/ score[y] = score[x] /\ rest[y] = rest[x] /\ y[1] < x[1]
    <3>1. PICK a, b, c, d, i, j : /\ a = score[x] /\ b = score[y] /\ c = rest[x] /\ d = rest[y]
                                  /\ i = x[1] /\ j = y[1]
      OBVIOUS
    <3>2. /\ a \in Int /\ b \in Int /\ c \in Int /\ d \in Int /\ i \in Nat /\ j \in Nat
          /\ a # b \/ c # d \/ i # j
      BY <2>2, <2>3, <3>1
    <3>3. \/ a > b \/ (a = b /\ c > d) \/ (a = b /\ c = d /\ i < j)
          \/ b > a \/ (b = a /\ d > c) \/ (b = a /\ d = c /\ j < i)
      BY <3>2, KeysDiffer
    <3> QED  BY <3>1, <3>3
  <2> QED  BY <1>1, <2>1, <2>4
<1> QED  BY <1>3, <1>4, <1>5 DEF Orders, B

\* What ensure_replicas asks of the nodes: all the replicas, and each of them
\* where it leaves most.
LEMMA TargetsAreGreedy ==
  ASSUME NEW nodes \in SUBSET ScNode, nodes # {}, NEW free, NEW current, NEW memory \in Nat, NEW m \in Nat,
         \A n \in nodes : free[n] \in Nat /\ current[n] \in Nat
  PROVE  LET t == Targets(nodes, free, current, memory, m) IN
         /\ TotalOf(t, nodes) = m
         /\ \A n, o \in nodes : t[n] > 0 => Score(free[n], t[n] - 1, memory) >= Score(free[o], t[o], memory)
<1> DEFINE P == nodes \X (1..m)
           score == [r \in P |-> Score(free[r[1]], r[2] - 1, memory)]
           rest == [r \in P |-> current[r[1]] - (r[2] - 1)]
           B == Earlier(P, score, rest)
           T == FirstIn(B, P, m)
           t == Targets(nodes, free, current, memory, m)
<1>1. nodes \subseteq Nat /\ IsFiniteSet(nodes) /\ Cardinality(nodes) \in Nat \ {0}
  <2>1. IsFiniteSet(ScNode) /\ ScNode \subseteq Nat
    BY ClusterScalingAssumption, FS_Interval DEF ScNode
  <2>2. IsFiniteSet(nodes)
    BY <2>1, FS_Subset
  <2> QED  BY <2>1, <2>2, FS_CardinalityType, FS_EmptySet
<1>2. IsFiniteSet(P) /\ m <= Cardinality(P) /\ Cardinality(P) \in Nat
  <2>1. IsFiniteSet(1..m) /\ Cardinality(1..m) = m
    BY FS_Interval
  <2>2. PICK n \in nodes : TRUE
    OBVIOUS
  <2>3. IsFiniteSet({n}) /\ Cardinality({n}) = 1
    BY FS_Singleton
  <2>4. IsFiniteSet(P)
    BY <1>1, <2>1, FS_Product
  <2>5. Cardinality({n} \X (1..m)) = Cardinality({n}) * Cardinality(1..m)
    BY <2>1, <2>3, FS_Product
  <2>6. Cardinality({n} \X (1..m)) = m
    BY <2>1, <2>3, <2>5
  <2>7. {n} \X (1..m) \in SUBSET P
    OBVIOUS
  <2> HIDE DEF P
  <2> QED  BY <2>4, <2>6, <2>7, FS_Subset, FS_CardinalityType
<1>3. score \in [P -> Int] /\ rest \in [P -> Int]
  <2>1. ASSUME NEW r \in P PROVE score[r] \in Int /\ rest[r] \in Int
    <3>1. r[1] \in nodes /\ r[2] - 1 \in Nat /\ free[r[1]] \in Nat /\ current[r[1]] \in Nat
      OBVIOUS
    <3>2. Score(free[r[1]], r[2] - 1, memory) \in Int
      BY <3>1, ScoreFalls
    <3> QED  BY <3>1, <3>2
  <2> QED  BY <2>1
<1>4. Orders(B, P)
  <2>1. ASSUME NEW r \in P, NEW s \in P, r[1] = s[1], rest[r] = rest[s] PROVE r = s
    <3>1. /\ r[2] \in Nat /\ s[2] \in Nat /\ current[r[1]] \in Nat
          /\ current[r[1]] - (r[2] - 1) = current[r[1]] - (s[2] - 1)
      BY <2>1
    <3>2. r[2] = s[2]
      BY <3>1
    <3> QED  BY <2>1, <3>2
  <2>2. P = nodes \X (1..m)
    OBVIOUS
  <2> HIDE DEF P, score, rest
  <2>3. \A r, s \in P : r[1] = s[1] /\ rest[r] = rest[s] => r = s
    BY <2>1
  <2>4. nodes \in SUBSET Nat /\ m \in Nat
    BY <1>1
  <2>5. \A r \in P : score[r] \in Int /\ rest[r] \in Int /\ r[1] \in Nat
    BY <1>3, <2>2, <2>4
  <2> QED  BY <2>3, <2>5, EarlierOrders
<1>5. IsFiniteSet(T) /\ Cardinality(T) = m /\ T \in SUBSET P
  <2>1. T \in SUBSET P
    BY DEF FirstIn
  <2> HIDE DEF B, P
  <2> QED  BY <1>2, <1>4, <2>1, FirstAreMany
<1>6. t = [n \in nodes |-> Cardinality(Placed(T, m, n))]
  <2> DEFINE Key(r) == <<Score(free[r[1]], r[2] - 1, memory), current[r[1]] - (r[2] - 1)>>
             Better(r, s) == \/ Key(r)[1] > Key(s)[1]
                             \/ Key(r)[1] = Key(s)[1] /\ Key(r)[2] > Key(s)[2]
                             \/ Key(r) = Key(s) /\ r[1] < s[1]
             Beating(r) == {s \in nodes \X (1..m) : Better(s, r)}
  <2>1. t = [n \in nodes |-> Cardinality({k \in 1..m : Cardinality(Beating(<<n, k>>)) < m})]
    BY DEF Targets
  <2>2. ASSUME NEW r \in P PROVE Beating(r) = Above(B, P, r)
    <3>1. ASSUME NEW s \in P PROVE Better(s, r) <=> <<s, r>> \in B
      <4>1. Key(r)[1] = score[r] /\ Key(s)[1] = score[s] /\ Key(r)[2] = rest[r] /\ Key(s)[2] = rest[s]
        OBVIOUS
      <4>2. Key(s) = Key(r) <=> score[s] = score[r] /\ rest[s] = rest[r]
        OBVIOUS
      <4>3. <<s, r>> \in B <=> \/ score[s] > score[r]
                               \/ score[s] = score[r] /\ rest[s] > rest[r]
                               \/ score[s] = score[r] /\ rest[s] = rest[r] /\ s[1] < r[1]
        <5> HIDE DEF score, rest
        <5> QED  BY DEF Earlier
      <4> HIDE DEF Key, B, score, rest
      <4> QED  BY <4>1, <4>2, <4>3
    <3> HIDE DEF Better, B
    <3> QED  BY <3>1 DEF Above
  <2>3. ASSUME NEW n \in nodes, NEW k \in 1..m PROVE Cardinality(Beating(<<n, k>>)) < m <=> <<n, k>> \in T
    <3>1. <<n, k>> \in P
      OBVIOUS
    <3> HIDE DEF Beating, P, B
    <3> QED  BY <2>2, <3>1 DEF FirstIn
  <2> HIDE DEF Beating, T, t
  <2> QED  BY <2>1, <2>3 DEF Placed
<1>7. \A n \in nodes : t[n] = Cardinality(Placed(T, m, n))
  <2> HIDE DEF T, t
  <2> QED  BY <1>6
<1> HIDE DEF t
<1>8. TotalOf(t, nodes) = m
  <2>1. T \in SUBSET (nodes \X (1..m))
    BY <1>5
  <2> HIDE DEF T, P
  <2> QED  BY <1>5, <1>7, <2>1, TotalCounts
\* An earlier replica is taken before a later one.
<1>9. ASSUME NEW x \in P, NEW y \in T, <<x, y>> \in B PROVE x \in T
  <2>1. y \in P /\ Cardinality(Above(B, P, y)) < m
    BY DEF FirstIn
  <2> HIDE DEF B, P
  <2>2. Cardinality(Above(B, P, x)) < Cardinality(Above(B, P, y)) /\ Cardinality(Above(B, P, x)) \in Nat
        /\ Cardinality(Above(B, P, y)) \in Nat
    BY <1>2, <1>4, <1>9, <2>1, LaterHasMore
  <2>3. Cardinality(Above(B, P, x)) < m
    BY <2>1, <2>2
  <2> QED  BY <1>9, <2>3 DEF FirstIn
<1>10. \A r, s \in P : <<r, s>> \in B <=>
         \/ score[r] > score[s]
         \/ score[r] = score[s] /\ rest[r] > rest[s]
         \/ score[r] = score[s] /\ rest[r] = rest[s] /\ r[1] < s[1]
  <2> HIDE DEF score, rest
  <2> QED  BY DEF Earlier
<1>11. \A n \in nodes : \A k \in 1..m : score[<<n, k>>] = Score(free[n], k - 1, memory)
  OBVIOUS
\* The replicas taken on a node are its first ones.
<1>12. ASSUME NEW n \in nodes PROVE t[n] \in 0..m /\ Placed(T, m, n) = 1..t[n]
  <2> DEFINE S == Placed(T, m, n)
             Kept == {j \in Nat : \A k \in S : k - j >= 1 => k - j \in S}
  <2>1. ASSUME NEW k \in S, k - 1 >= 1 PROVE k - 1 \in S
    <3>1. k - 1 \in 1..m /\ k \in 1..m /\ <<n, k - 1>> \in P /\ <<n, k>> \in P /\ <<n, k>> \in T
      BY <2>1 DEF Placed
    <3>2. score[<<n, k>>] <= score[<<n, k - 1>>] /\ {score[<<n, k>>], score[<<n, k - 1>>]} \subseteq Int
      <4>1. k - 2 \in Nat /\ k - 2 = (k - 1) - 1 /\ (k - 2) + 1 = k - 1
        BY <3>1
      <4>2. Score(free[n], (k - 2) + 1, memory) <= Score(free[n], k - 2, memory)
        BY <4>1, ScoreFalls
      <4>3. score[<<n, k>>] = Score(free[n], k - 1, memory) /\ score[<<n, k - 1>>] = Score(free[n], k - 2, memory)
        BY <1>11, <3>1, <4>1
      <4> HIDE DEF score
      <4> QED  BY <1>3, <3>1, <4>1, <4>2, <4>3
    <3>3. rest[<<n, k - 1>>] > rest[<<n, k>>] /\ {rest[<<n, k>>], rest[<<n, k - 1>>]} \subseteq Int
      <4>1. rest[<<n, k - 1>>] = current[n] - ((k - 1) - 1) /\ rest[<<n, k>>] = current[n] - (k - 1)
        BY <3>1
      <4>2. current[n] \in Nat /\ k \in Nat
        BY <3>1
      <4> HIDE DEF rest
      <4> QED  BY <4>1, <4>2
    <3> HIDE DEF score, rest, B
    <3>4. <<<<n, k - 1>>, <<n, k>>>> \in B
      <4>1. \/ score[<<n, k - 1>>] > score[<<n, k>>]
            \/ score[<<n, k - 1>>] = score[<<n, k>>] /\ rest[<<n, k - 1>>] > rest[<<n, k>>]
        BY <3>2, <3>3
      <4> QED  BY <1>10, <3>1, <4>1
    <3> HIDE DEF T, P
    <3> QED  BY <1>9, <3>1, <3>4 DEF Placed
  <2>2. 0 \in Kept
    BY DEF Placed
  <2>3. ASSUME NEW j \in Nat, j \in Kept PROVE j + 1 \in Kept
    <3>1. ASSUME NEW k \in S, k - (j + 1) >= 1 PROVE k - (j + 1) \in S
      <4>1. k \in Nat /\ k - j >= 1 /\ (k - j) - 1 >= 1 /\ (k - j) - 1 = k - (j + 1)
        BY <3>1 DEF Placed
      <4>2. k - j \in S
        BY <2>3, <4>1
      <4> HIDE DEF S
      <4> QED  BY <2>1, <4>1, <4>2
    <3> HIDE DEF S
    <3> QED  BY <3>1
  <2>4. \A j \in Nat : j \in Kept
    <3> HIDE DEF Kept
    <3> QED  BY <2>2, <2>3, SetInduction
  <2>5. \A k \in S : \A i \in 1..k : i \in S
    <3>1. SUFFICES ASSUME NEW k \in S, NEW i \in 1..k PROVE i \in S
      OBVIOUS
    <3>2. k \in Nat /\ k - i \in Nat /\ k - (k - i) = i /\ i >= 1
      BY DEF Placed
    <3>3. k - i \in Kept
      BY <2>4, <3>2
    <3> QED  BY <3>2, <3>3
  <2>6. S \in SUBSET (1..m)
    BY DEF Placed
  <2>7. t[n] = Cardinality(S)
    BY <1>7
  <2> HIDE DEF S
  <2>8. Cardinality(S) \in 0..m /\ S = 1..Cardinality(S)
    BY <2>5, <2>6, PrefixIsInterval
  <2> QED  BY <2>7, <2>8 DEF S
<1> HIDE DEF P, T
<1>13. ASSUME NEW n \in nodes, NEW o \in nodes, t[n] > 0
       PROVE  Score(free[n], t[n] - 1, memory) >= Score(free[o], t[o], memory)
  <2>1. t[n] \in 1..m /\ <<n, t[n]>> \in T /\ <<n, t[n]>> \in P
    <3>1. t[n] \in 1..t[n]
      BY <1>12, <1>13
    <3>2. t[n] \in Placed(T, m, n)
      BY <1>12, <3>1
    <3> QED  BY <3>2 DEF Placed, P
  <2>2. CASE t[o] < m
    <3>1. t[o] + 1 \in 1..m /\ t[o] \in Nat /\ t[o] + 1 \notin 1..t[o] /\ <<o, t[o] + 1>> \in P
      BY <1>12, <2>2 DEF P
    <3>2. <<o, t[o] + 1>> \notin T
      BY <1>12, <3>1 DEF Placed
    <3>3. <<<<o, t[o] + 1>>, <<n, t[n]>>>> \notin B
      <4> HIDE DEF B
      <4> QED  BY <1>9, <2>1, <3>1, <3>2
    <3> HIDE DEF B
    <3>4. ~(score[<<o, t[o] + 1>>] > score[<<n, t[n]>>])
      <4> HIDE DEF score, rest
      <4> QED  BY <1>10, <2>1, <3>1, <3>3
    <3>5. score[<<o, t[o] + 1>>] = Score(free[o], t[o], memory) /\ score[<<n, t[n]>>] = Score(free[n], t[n] - 1, memory)
      <4>1. (t[o] + 1) - 1 = t[o]
        BY <3>1
      <4> HIDE DEF score
      <4> QED  BY <1>11, <2>1, <3>1, <4>1
    <3>6. {score[<<o, t[o] + 1>>], score[<<n, t[n]>>]} \subseteq Int
      <4> HIDE DEF score
      <4> QED  BY <1>3, <2>1, <3>1
    <3> HIDE DEF score
    <3> QED  BY <3>4, <3>5, <3>6
  <2>3. CASE ~(t[o] < m)
    <3>1. t[o] = m
      BY <1>12, <2>3
    <3>2. ({o} \X (1..m)) \subseteq T
      <4>1. ASSUME NEW k \in 1..m PROVE <<o, k>> \in T
        <5>1. k \in Placed(T, m, o)
          BY <1>12, <3>1
        <5> QED  BY <5>1 DEF Placed
      <4> HIDE DEF T
      <4> QED  BY <4>1
    <3>3. Cardinality({o} \X (1..m)) = m
      <4> HIDE DEF T, P, B
      <4>1. /\ IsFiniteSet(1..m) /\ Cardinality(1..m) = m
            /\ IsFiniteSet({o}) /\ Cardinality({o}) = 1
        <5>1. IsFiniteSet(1..m) /\ Cardinality(1..m) = m
          BY FS_Interval
        <5>2. IsFiniteSet({o}) /\ Cardinality({o}) = 1
          BY FS_Singleton
        <5> QED  BY <5>1, <5>2
      <4>2. Cardinality({o} \X (1..m)) = Cardinality({o}) * Cardinality(1..m)
        BY <4>1, FS_Product
      <4> QED  BY <4>1, <4>2
    <3>4. T = {o} \X (1..m)
      <4> HIDE DEF T
      <4> QED  BY <1>5, <3>2, <3>3, FS_Subset
    <3>5. n = o
      <4> HIDE DEF T
      <4> QED  BY <2>1, <3>4
    <3>6. PICK k \in Nat : t[n] - 1 = k /\ k + 1 = t[n]
      BY <2>1
    <3>7. PICK x \in Nat : free[n] = x
      BY <2>1
    <3>8. Score(x, k, memory) \in Int /\ Score(x, k + 1, memory) <= Score(x, k, memory)
      BY ScoreFalls
    <3>9. Score(x, k + 1, memory) \in Int
      BY ScoreFalls
    <3> QED  BY <3>5, <3>6, <3>7, <3>8, <3>9
  <2> QED  BY <2>2, <2>3
<1> QED  BY <1>8, <1>13 DEF t

\* ensure_replicas places exactly the replicas asked for, each where it leaves
\* most: for every number of nodes and replicas, whatever free memory the nodes
\* report and whatever runs on them when a pass comes to plan.
THEOREM PlacementStaysGreedy == ScSpec => []PlacementIsGreedy
<1>1. ASSUME ClusterScalingTypeOK PROVE PlacementIsGreedy
  <2>1. SUFFICES ASSUME Fitting # {}, NEW replicas \in 0..ScMaxReplicas
                 PROVE  LET t == Targets(Fitting, Free, Healthy, ScReplicaMemory, replicas)
                            Left(n, k) == IF Free[n] = 0 THEN -k ELSE Free[n] - k * ScReplicaMemory
                        IN  /\ TotalOf(t, Fitting) = replicas
                            /\ \A n, o \in Fitting : t[n] > 0 => Left(n, t[n] - 1) >= Left(o, t[o])
    BY DEF PlacementIsGreedy
  <2>2. /\ Fitting \in SUBSET ScNode /\ replicas \in Nat /\ ScReplicaMemory \in Nat
        /\ \A n \in Fitting : Free[n] \in Nat /\ Healthy[n] \in Nat
    BY <1>1, ScTypes, ClusterScalingAssumption DEF Fitting, Answering, Healthy, Free
  <2> DEFINE t == Targets(Fitting, Free, Healthy, ScReplicaMemory, replicas)
  <2>3. /\ TotalOf(t, Fitting) = replicas
        /\ \A n, o \in Fitting :
             t[n] > 0 => Score(Free[n], t[n] - 1, ScReplicaMemory) >= Score(Free[o], t[o], ScReplicaMemory)
    BY <2>1, <2>2, TargetsAreGreedy
  <2> HIDE DEF t
  <2>4. \A n, k : Score(Free[n], k, ScReplicaMemory) = IF Free[n] = 0 THEN -k ELSE Free[n] - k * ScReplicaMemory
    BY DEF Score
  <2> QED  BY <2>3, <2>4 DEF t
<1> QED  BY <1>1, ClusterScalingTypeCorrect, PTL

--------------------------------------------------------------------------
(* RateLimiter *)

(***************************************************************************)
(* RateLimiter.  The deque is the end of the history; what it lacks has    *)
(* expired, and in the history RlLimit requests never lie in one window.   *)
(***************************************************************************)

Fallen == Len(rlAllowed) - Len(rlHits)

RlIInv ==
  /\ rlClock \in Nat /\ rlHits \in Seq(Nat) /\ rlAllowed \in Seq(Nat)
  /\ Fallen \in Nat
  /\ \A i \in 1..Len(rlHits) : rlHits[i] = rlAllowed[i + Fallen]
  /\ \A i \in 1..Fallen : Expired(rlAllowed[i])
  /\ \A i, j \in 1..Len(rlAllowed) : i <= j => rlAllowed[i] <= rlAllowed[j]
  /\ \A i \in 1..Len(rlAllowed) : rlAllowed[i] <= rlClock
  /\ \A i \in 1..Len(rlAllowed) : i + RlLimit <= Len(rlAllowed) =>
                                     rlAllowed[i] + RlWindow <= rlAllowed[i + RlLimit]

\* What the loop of allow leaves of the deque: the requests of the history that
\* have not expired.
LEMMA RecentIsTheEnd ==
  ASSUME RlIInv
  PROVE  \E m \in 0..Len(rlAllowed) :
           /\ Recent \in Seq(Nat) /\ Len(Recent) = Len(rlAllowed) - m
           /\ \A i \in 1..Len(Recent) : Recent[i] = rlAllowed[i + m]
           /\ \A i \in 1..m : Expired(rlAllowed[i])
           /\ \A i \in (m + 1)..Len(rlAllowed) : ~Expired(rlAllowed[i])
<1> DEFINE staying == {i \in DOMAIN rlHits : ~Expired(rlHits[i])} \union {Len(rlHits) + 1}
           first == CHOOSE i \in staying : \A j \in staying : i <= j
           m == Fallen + first - 1
<1>1. /\ rlClock \in Nat /\ rlHits \in Seq(Nat) /\ rlAllowed \in Seq(Nat) /\ Fallen \in Nat
      /\ Len(rlHits) \in Nat /\ Len(rlAllowed) \in Nat /\ DOMAIN rlHits = 1..Len(rlHits)
      /\ Len(rlAllowed) = Fallen + Len(rlHits)
      /\ \A i \in 1..Len(rlAllowed) : rlAllowed[i] \in Nat
  BY DEF RlIInv, Fallen
<1>2. first \in staying /\ \A j \in staying : first <= j
  <2>1. staying \in SUBSET Nat /\ staying # {}
    BY <1>1
  <2> HIDE DEF staying
  <2> QED  BY <2>1, LeastExists
<1>3. /\ first \in 1..(Len(rlHits) + 1)
      /\ \A i \in 1..Len(rlHits) : i < first => Expired(rlHits[i])
      /\ first <= Len(rlHits) => ~Expired(rlHits[first])
  <2>1. \A i \in staying : i \in 1..(Len(rlHits) + 1) /\ (i <= Len(rlHits) => ~Expired(rlHits[i]))
    BY <1>1
  <2>2. \A i \in 1..Len(rlHits) : i \in staying \/ Expired(rlHits[i])
    BY <1>1
  <2> HIDE DEF staying, first
  <2>3. first \in 1..(Len(rlHits) + 1) /\ (first <= Len(rlHits) => ~Expired(rlHits[first]))
    BY <1>2, <2>1
  <2>4. ASSUME NEW i \in 1..Len(rlHits), i < first PROVE Expired(rlHits[i])
    <3>1. ~(first <= i)
      BY <1>1, <2>3, <2>4
    <3> QED  BY <1>2, <2>2, <3>1
  <2> QED  BY <2>3, <2>4
<1>4. Recent = SubSeq(rlHits, first, Len(rlHits))
  BY DEF Recent
<1> HIDE DEF staying, first
<1>5. /\ Recent \in Seq(Nat) /\ Len(Recent) = Len(rlHits) - first + 1
      /\ \A i \in 1..Len(Recent) : Recent[i] = rlHits[first + i - 1]
  <2>1. ASSUME NEW i \in first..Len(rlHits) PROVE rlHits[i] \in Nat
    <3>1. first \in 1..(Len(rlHits) + 1) /\ Len(rlHits) \in Nat /\ rlHits \in Seq(Nat)
      BY <1>1, <1>3
    <3>2. i \in 1..Len(rlHits)
      BY <3>1
    <3> QED  BY <3>1, <3>2
  <2>2. first \in Int /\ Len(rlHits) \in Int
    BY <1>1, <1>3
  <2> DEFINE n == Len(rlHits)
  <2>3. /\ SubSeq(rlHits, first, n) \in Seq(Nat)
        /\ Len(SubSeq(rlHits, first, n)) = IF first <= n THEN n - first + 1 ELSE 0
        /\ \A i \in 1..(n - first + 1) : SubSeq(rlHits, first, n)[i] = rlHits[first + i - 1]
    <3> HIDE DEF n
    <3> QED  BY <2>1, <2>2, SubSeqProperties DEF n
  <2>4. Len(Recent) = n - first + 1
    BY <1>1, <1>3, <1>4, <2>3
  <2> QED  BY <1>4, <2>3, <2>4
<1>6. m \in 0..Len(rlAllowed) /\ Len(Recent) = Len(rlAllowed) - m
  <2> DEFINE h == Len(rlHits)
             a == Len(rlAllowed)
             d == Fallen
             r == Len(Recent)
  <2>1. h \in Nat /\ a \in Nat /\ d \in Nat /\ a = d + h
    BY <1>1
  <2>2. first \in 1..(h + 1) /\ r = h - first + 1
    BY <1>3, <1>5
  <2> HIDE DEF h, a, d, r
  <2>3. d + first - 1 \in 0..a /\ r = a - (d + first - 1)
    BY <2>1, <2>2
  <2> QED  BY <2>3 DEF a, d, r
<1>7. ASSUME NEW i \in 1..Len(Recent) PROVE Recent[i] = rlAllowed[i + m]
  <2>1. PICK h \in Nat, d \in Nat : h = Len(rlHits) /\ d = Fallen
    BY <1>1
  <2>2. first \in 1..(h + 1) /\ i \in 1..(h - first + 1)
    BY <1>3, <1>5, <2>1
  <2>3. first + i - 1 \in 1..h /\ (first + i - 1) + d = i + (d + first - 1)
    BY <2>1, <2>2
  <2>4. first + i - 1 \in 1..Len(rlHits) /\ (first + i - 1) + Fallen = i + m
    BY <2>1, <2>3
  <2> HIDE DEF m
  <2> QED  BY <1>5, <2>4 DEF RlIInv
<1>8. ASSUME NEW i \in 1..m PROVE Expired(rlAllowed[i])
  <2>1. CASE i \in 1..Fallen
    BY <2>1 DEF RlIInv
  <2>2. CASE i \notin 1..Fallen
    <3>1. i - Fallen \in 1..Len(rlHits) /\ i - Fallen < first /\ (i - Fallen) + Fallen = i
      BY <1>1, <1>3, <2>2
    <3> QED  BY <1>3, <3>1 DEF RlIInv
  <2> QED  BY <2>1, <2>2
<1>9. ASSUME NEW i \in (m + 1)..Len(rlAllowed) PROVE ~Expired(rlAllowed[i])
  <2>1. /\ first \in 1..Len(rlHits) /\ first + Fallen \in 1..Len(rlAllowed)
        /\ i \in 1..Len(rlAllowed) /\ first + Fallen <= i
    BY <1>1, <1>3
  <2>2. ~Expired(rlAllowed[first + Fallen]) /\ rlAllowed[first + Fallen] <= rlAllowed[i]
    BY <1>3, <2>1 DEF RlIInv
  <2>3. PICK a, b, c, w : /\ a = rlAllowed[first + Fallen] /\ b = rlAllowed[i] /\ c = rlClock /\ w = RlWindow
                          /\ a \in Nat /\ b \in Nat /\ c \in Nat /\ w \in Nat
    BY <1>1, <2>1, RateLimiterAssumption
  <2>4. ~(a + w <= c) /\ a <= b
    BY <2>2, <2>3 DEF Expired
  <2>5. ~(b + w <= c)
    BY <2>3, <2>4
  <2> QED  BY <2>3, <2>5 DEF Expired
<1> HIDE DEF m
<1> QED  BY <1>5, <1>6, <1>7, <1>8, <1>9

\* A call prunes the deque; one that is let through is added at the end.
LEMMA RlStepKeeps == ASSUME RlIInv, [RlNext \/ RlIdle]_rlVars PROVE RlIInv'
<1>1. /\ rlClock \in Nat /\ rlHits \in Seq(Nat) /\ rlAllowed \in Seq(Nat) /\ Len(rlAllowed) \in Nat
      /\ \A i \in 1..Len(rlAllowed) : rlAllowed[i] \in Nat /\ rlAllowed[i] <= rlClock
  BY DEF RlIInv
<1>2. PICK m \in 0..Len(rlAllowed) :
        /\ Recent \in Seq(Nat) /\ Len(Recent) = Len(rlAllowed) - m
        /\ \A i \in 1..Len(Recent) : Recent[i] = rlAllowed[i + m]
        /\ \A i \in 1..m : Expired(rlAllowed[i])
        /\ \A i \in (m + 1)..Len(rlAllowed) : ~Expired(rlAllowed[i])
  BY RecentIsTheEnd
<1>3. CASE Deny
  <2>1. rlHits' = Recent /\ rlClock' = rlClock /\ rlAllowed' = rlAllowed
    BY <1>3 DEF Deny
  <2>2. Fallen' = m
    BY <1>1, <1>2, <2>1 DEF Fallen
  <2>3. \A t : Expired(t)' <=> Expired(t)
    BY <2>1 DEF Expired
  <2>4. \A i \in 1..Fallen' : Expired(rlAllowed[i])'
    BY <1>2, <2>1, <2>2, <2>3
  <2>5. \A i \in 1..Len(rlHits') : rlHits'[i] = rlAllowed'[i + Fallen']
    BY <1>2, <2>1, <2>2
  <2> QED  BY <1>1, <1>2, <2>1, <2>2, <2>4, <2>5 DEF RlIInv
<1>4. CASE Allow
  <2>1. /\ rlHits' = Append(Recent, rlClock) /\ rlAllowed' = Append(rlAllowed, rlClock) /\ rlClock' = rlClock
        /\ Len(Recent) < RlLimit /\ RlLimit \in Nat \ {0} /\ RlWindow \in Nat \ {0}
    BY <1>4, RateLimiterAssumption DEF Allow
  <2>2. /\ rlHits' \in Seq(Nat) /\ Len(rlHits') = Len(Recent) + 1
        /\ \A i \in 1..Len(Recent) : rlHits'[i] = Recent[i]
        /\ rlHits'[Len(Recent) + 1] = rlClock
    <3>1. Recent \in Seq(Nat) /\ rlClock \in Nat
      BY <1>1, <1>2
    <3>2. /\ Append(Recent, rlClock) \in Seq(Nat) /\ Len(Append(Recent, rlClock)) = Len(Recent) + 1
          /\ \A i \in 1..Len(Recent) : Append(Recent, rlClock)[i] = Recent[i]
          /\ Append(Recent, rlClock)[Len(Recent) + 1] = rlClock
      BY <3>1, AppendProperties
    <3> QED  BY <2>1, <3>2
  <2>3. /\ rlAllowed' \in Seq(Nat) /\ Len(rlAllowed') = Len(rlAllowed) + 1
        /\ \A i \in 1..Len(rlAllowed) : rlAllowed'[i] = rlAllowed[i]
        /\ rlAllowed'[Len(rlAllowed) + 1] = rlClock
    BY <1>1, <2>1, AppendProperties
  <2>4. Fallen' = m /\ Len(Recent) \in Nat
    BY <1>1, <1>2, <2>2, <2>3 DEF Fallen
  <2>5. ASSUME NEW i \in 1..Len(rlHits') PROVE rlHits'[i] = rlAllowed'[i + m]
    <3>1. CASE i = Len(Recent) + 1
      <4>1. i + m = Len(rlAllowed) + 1
        BY <1>1, <1>2, <3>1
      <4> QED  BY <2>2, <2>3, <3>1, <4>1
    <3>2. CASE i # Len(Recent) + 1
      <4>1. i \in 1..Len(Recent) /\ i + m \in 1..Len(rlAllowed)
        <5>1. PICK l \in Nat, a \in Nat : l = Len(Recent) /\ a = Len(rlAllowed)
          BY <1>1, <2>4
        <5>2. l = a - m /\ i \in 1..(l + 1) /\ i # l + 1 /\ m \in Nat
          BY <1>2, <2>2, <3>2, <5>1
        <5>3. i \in 1..l /\ i + m \in 1..a
          BY <5>1, <5>2
        <5> QED  BY <5>1, <5>3
      <4> QED  BY <1>2, <2>2, <2>3, <4>1
    <3> QED  BY <3>1, <3>2
  <2>6. ASSUME NEW i \in 1..m PROVE Expired(rlAllowed[i])' /\ rlAllowed'[i] = rlAllowed[i]
    <3>1. i \in 1..Len(rlAllowed)
      BY <1>1, <1>2
    <3> QED  BY <1>2, <2>1, <2>3, <3>1 DEF Expired
  <2>7. \A i, j \in 1..Len(rlAllowed') : i <= j => rlAllowed'[i] <= rlAllowed'[j]
    <3>1. SUFFICES ASSUME NEW i \in 1..Len(rlAllowed'), NEW j \in 1..Len(rlAllowed'), i <= j
                   PROVE  rlAllowed'[i] <= rlAllowed'[j]
      OBVIOUS
    <3>2. CASE j = Len(rlAllowed) + 1
      <4>1. rlAllowed'[j] = rlClock /\ rlClock \in Nat
        BY <1>1, <2>3, <3>2
      <4>2. CASE i = Len(rlAllowed) + 1
        BY <3>2, <4>1, <4>2
      <4>3. CASE i # Len(rlAllowed) + 1
        <5>1. i \in 1..Len(rlAllowed)
          BY <1>1, <2>3, <3>1, <4>3
        <5> QED  BY <1>1, <2>3, <4>1, <5>1
      <4> QED  BY <4>2, <4>3
    <3>3. CASE j # Len(rlAllowed) + 1
      <4>1. i \in 1..Len(rlAllowed) /\ j \in 1..Len(rlAllowed)
        BY <1>1, <2>3, <3>1, <3>3
      <4> QED  BY <2>3, <3>1, <4>1 DEF RlIInv
    <3> QED  BY <3>2, <3>3
  <2>8. ASSUME NEW i \in 1..Len(rlAllowed') PROVE rlAllowed'[i] <= rlClock
    <3>1. CASE i = Len(rlAllowed) + 1
      BY <1>1, <2>3, <3>1
    <3>2. CASE i # Len(rlAllowed) + 1
      <4>1. i \in 1..Len(rlAllowed)
        BY <1>1, <2>3, <3>2
      <4> QED  BY <1>1, <2>3, <4>1
    <3> QED  BY <3>1, <3>2
  <2>9. ASSUME NEW i \in 1..Len(rlAllowed'), i + RlLimit <= Len(rlAllowed')
        PROVE  rlAllowed'[i] + RlWindow <= rlAllowed'[i + RlLimit]
    <3>1. i \in 1..Len(rlAllowed) /\ i + RlLimit \in 1..Len(rlAllowed')
      BY <1>1, <2>1, <2>3, <2>9
    <3>2. CASE i + RlLimit = Len(rlAllowed) + 1
      <4>1. i \in 1..m
        BY <1>1, <1>2, <2>1, <3>1, <3>2
      <4>2. rlAllowed[i] + RlWindow <= rlClock
        BY <1>2, <4>1 DEF Expired
      <4> QED  BY <2>3, <3>1, <3>2, <4>2
    <3>3. CASE i + RlLimit # Len(rlAllowed) + 1
      <4>1. i + RlLimit \in 1..Len(rlAllowed) /\ i + RlLimit <= Len(rlAllowed)
        <5> DEFINE n == Len(rlAllowed)
        <5>1. n \in Nat /\ i + RlLimit \in 1..(n + 1) /\ i + RlLimit # n + 1
          BY <1>1, <2>3, <3>1, <3>3
        <5> HIDE DEF n
        <5>2. i + RlLimit \in 1..n /\ i + RlLimit <= n
          BY <2>1, <5>1
        <5> QED  BY <5>2 DEF n
      <4> QED  BY <2>3, <3>1, <4>1 DEF RlIInv
    <3> QED  BY <3>2, <3>3
  <2>10. /\ \A i \in 1..Len(rlHits') : rlHits'[i] = rlAllowed'[i + Fallen']
         /\ \A i \in 1..Fallen' : Expired(rlAllowed[i])'
    BY <1>2, <2>4, <2>5, <2>6
  <2>11. /\ \A i \in 1..Len(rlAllowed') : rlAllowed'[i] <= rlClock'
         /\ \A i \in 1..Len(rlAllowed') : i + RlLimit <= Len(rlAllowed') =>
                                             rlAllowed'[i] + RlWindow <= rlAllowed'[i + RlLimit]
    BY <2>1, <2>8, <2>9
  <2>12. rlClock' \in Nat /\ rlHits' \in Seq(Nat) /\ rlAllowed' \in Seq(Nat) /\ Fallen' \in Nat
    BY <1>1, <1>2, <2>1, <2>2, <2>3, <2>4
  <2> QED  BY <2>7, <2>10, <2>11, <2>12 DEF RlIInv
<1>5. CASE TimePasses
  <2>1. rlHits' = rlHits /\ rlClock' = rlClock + 1 /\ rlAllowed' = rlAllowed
    BY <1>5 DEF TimePasses
  <2>2. Fallen' = Fallen /\ rlClock' \in Nat
    BY <1>1, <2>1 DEF Fallen
  <2>3. ASSUME NEW i \in 1..Fallen PROVE Expired(rlAllowed[i])'
    <3>1. rlAllowed[i] + RlWindow <= rlClock /\ rlAllowed[i] \in Nat
      <4>1. i \in 1..Len(rlAllowed)
        BY <1>1 DEF RlIInv, Fallen
      <4> QED  BY <1>1, <4>1 DEF RlIInv, Expired
    <3> QED  BY <1>1, <2>1, <3>1, RateLimiterAssumption DEF Expired
  <2>4. \A i \in 1..Len(rlAllowed) : rlAllowed[i] <= rlClock'
    BY <1>1, <2>1
  <2> QED  BY <2>1, <2>2, <2>3, <2>4 DEF RlIInv
<1>6. CASE UNCHANGED rlVars
  BY <1>6 DEF rlVars, RlIInv, Fallen, Expired
<1> QED  BY <1>3, <1>4, <1>5, <1>6 DEF RlNext, RlIdle

\* The deque, pruned in passing, refuses exactly when RlLimit requests were let
\* through in the window that ends now, and no window of the whole history holds
\* more: for every limit, window and sequence of calls.
THEOREM LimiterStaysExact == RlSpec => []LimiterIsExact
<1>1. ASSUME RlInit PROVE RlIInv
  <2>1. <<>> \in Seq(Nat) /\ Len(<<>>) = 0
    OBVIOUS
  <2> QED  BY <1>1, <2>1 DEF RlInit, RlIInv, Fallen
<1>2. RlIInv /\ [RlNext \/ RlIdle]_rlVars => RlIInv'
  BY RlStepKeeps
<1>3. ASSUME RlIInv PROVE LimiterIsExact
  <2>1. /\ rlClock \in Nat /\ rlAllowed \in Seq(Nat) /\ Len(rlAllowed) \in Nat
        /\ DOMAIN rlAllowed = 1..Len(rlAllowed)
        /\ \A i \in 1..Len(rlAllowed) : rlAllowed[i] \in Nat
        /\ RlLimit \in Nat \ {0} /\ RlWindow \in Nat \ {0}
    BY <1>3, RateLimiterAssumption DEF RlIInv
  <2>2. Len(Recent) = AllowedInWindow
    <3>1. PICK m \in 0..Len(rlAllowed) :
            /\ Len(Recent) = Len(rlAllowed) - m
            /\ \A i \in 1..m : Expired(rlAllowed[i])
            /\ \A i \in (m + 1)..Len(rlAllowed) : ~Expired(rlAllowed[i])
      BY <1>3, RecentIsTheEnd
    <3>2. {i \in DOMAIN rlAllowed : rlAllowed[i] + RlWindow > rlClock} = (m + 1)..Len(rlAllowed)
      <4>1. \A i \in 1..Len(rlAllowed) : rlAllowed[i] + RlWindow > rlClock <=> ~Expired(rlAllowed[i])
        BY <2>1 DEF Expired
      <4>2. \A i \in 1..Len(rlAllowed) : i \in (m + 1)..Len(rlAllowed) \/ i \in 1..m
        BY <2>1
      <4>3. (m + 1)..Len(rlAllowed) \subseteq 1..Len(rlAllowed)
        BY <2>1
      <4> QED  BY <2>1, <3>1, <4>1, <4>2, <4>3
    <3>3. Cardinality((m + 1)..Len(rlAllowed)) = Len(rlAllowed) - m
      <4>1. m + 1 \in Int /\ Len(rlAllowed) \in Int
        BY <2>1
      <4>2. Cardinality((m + 1)..Len(rlAllowed)) = IF m + 1 > Len(rlAllowed) THEN 0 ELSE Len(rlAllowed) - (m + 1) + 1
        BY <4>1, FS_Interval
      <4> QED  BY <2>1, <4>2
    <3> QED  BY <3>1, <3>2, <3>3 DEF AllowedInWindow
  <2>3. ASSUME NEW start \in 0..rlClock
        PROVE  Cardinality({i \in DOMAIN rlAllowed : rlAllowed[i] \in start..(start + RlWindow - 1)}) <= RlLimit
    <3> DEFINE S == {i \in DOMAIN rlAllowed : rlAllowed[i] \in start..(start + RlWindow - 1)}
    <3>1. S \in SUBSET Nat /\ \A i \in S : i \in 1..Len(rlAllowed)
      BY <2>1
    <3>2. CASE S = {}
      <4> HIDE DEF S
      <4>1. Cardinality(S) = 0
        BY <3>2, FS_EmptySet
      <4> QED  BY <2>1, <4>1 DEF S
    <3>3. CASE S # {}
      <4>1. PICK x \in S : \A y \in S : x <= y
        <5> HIDE DEF S
        <5> QED  BY <3>1, <3>3, LeastExists
      <4>2. S \subseteq x..(x + RlLimit - 1)
        <5>1. SUFFICES ASSUME NEW y \in S, ~(y <= x + RlLimit - 1) PROVE FALSE
          BY <2>1, <3>1, <4>1
        <5>2. /\ x \in 1..Len(rlAllowed) /\ y \in 1..Len(rlAllowed) /\ x + RlLimit \in 1..Len(rlAllowed)
              /\ x + RlLimit <= y /\ x + RlLimit <= Len(rlAllowed)
          <6> DEFINE l == Len(rlAllowed)
          <6>1. x \in 1..l /\ y \in 1..l /\ l \in Nat
            BY <2>1, <3>1, <4>1, <5>1
          <6> HIDE DEF S, l
          <6>2. x + RlLimit \in 1..l /\ x + RlLimit <= y /\ x + RlLimit <= l
            BY <2>1, <5>1, <6>1
          <6> QED  BY <6>1, <6>2 DEF l
        <5>3. rlAllowed[x] + RlWindow <= rlAllowed[x + RlLimit] /\ rlAllowed[x + RlLimit] <= rlAllowed[y]
          BY <1>3, <5>2 DEF RlIInv
        <5>4. rlAllowed[x] >= start /\ rlAllowed[y] <= start + RlWindow - 1 /\ start \in Nat
          BY <2>1, <4>1, <5>1
        <5>5. rlAllowed[x] \in Nat /\ rlAllowed[y] \in Nat /\ rlAllowed[x + RlLimit] \in Nat
          BY <2>1, <5>2
        <5>6. PICK a, b, c, w : /\ a = rlAllowed[x] /\ b = rlAllowed[x + RlLimit] /\ c = rlAllowed[y] /\ w = RlWindow
                                /\ a \in Nat /\ b \in Nat /\ c \in Nat /\ w \in Nat
          BY <2>1, <5>5
        <5>7. a + w <= b /\ b <= c /\ a >= start /\ c <= start + w - 1 /\ start \in Nat
          BY <5>3, <5>4, <5>6
        <5> HIDE DEF S
        <5> QED  BY <5>6, <5>7
      <4> HIDE DEF S
      <4>3. IsFiniteSet(x..(x + RlLimit - 1)) /\ Cardinality(x..(x + RlLimit - 1)) = RlLimit
        <5>1. x \in Int /\ x + RlLimit - 1 \in Int
          BY <2>1, <3>1, <4>1
        <5>2. /\ IsFiniteSet(x..(x + RlLimit - 1))
              /\ Cardinality(x..(x + RlLimit - 1)) = IF x > x + RlLimit - 1 THEN 0 ELSE (x + RlLimit - 1) - x + 1
          BY <5>1, FS_Interval
        <5> QED  BY <2>1, <3>1, <4>1, <5>2
      <4>4. Cardinality(S) <= Cardinality(x..(x + RlLimit - 1))
        BY <4>2, <4>3, FS_Subset
      <4> QED  BY <4>3, <4>4 DEF S
    <3> QED  BY <3>2, <3>3
  <2> QED  BY <2>2, <2>3 DEF LimiterIsExact
<1> QED  BY <1>1, <1>2, <1>3, PTL DEF RlSpec

(***************************************************************************)
(* The parts together (MCServices).  A step of the whole is a step of the  *)
(* part that moves and a stutter of every other, so each part behaves as   *)
(* its own specification says, and all that is proved of it carries over.  *)
(***************************************************************************)

PartsStart ==
  WfInit /\ MdInit /\ AlInit /\ ScInit /\ RgInit /\ RlInit /\ AsInit /\ TrInit /\ PgInit /\ TlInit /\ BpInit

PartsStep ==
  /\ [WfNext \/ WfIdle]_wfVars /\ [MdNext \/ MdIdle]_mdVars /\ [AlNext \/ AlIdle]_alVars
  /\ [ScNext \/ ScIdle]_scVars /\ [RgNext \/ RgIdle]_rgVars /\ [RlNext \/ RlIdle]_rlVars
  /\ [AsNext \/ AsIdle]_asVars /\ [TrNext \/ TrIdle]_trVars /\ [PgNext \/ PgIdle]_pgVars
  /\ [TlNext]_tlVars /\ [BpNext \/ BpIdle]_bpVars

PartsSpec ==
  WfSpec /\ MdSpec /\ AlSpec /\ ScSpec /\ RgSpec /\ RlSpec /\ AsSpec /\ TrSpec /\ PgSpec /\ TlSpec /\ BpSpec

\* Only one part moves at a time.
LEMMA OnePartMoves == [Next]_allVars => PartsStep
<1>1. CASE Next
  BY <1>1 DEF Next, PartsStep
<1>2. CASE UNCHANGED allVars
  BY <1>2 DEF allVars, PartsStep
<1> QED  BY <1>1, <1>2

\* A behaviour of the whole is one of every part: the choice of the part that
\* moves and the fairness only leave behaviours out.
THEOREM PartsBehaveAsSpecified == Spec => PartsSpec
<1>1. Init => PartsStart
  BY DEF Init, PartsStart
<1>2. [Next]_allVars => PartsStep
  BY OnePartMoves
<1> QED
  BY <1>1, <1>2, PTL
     DEF Spec, PartsStart, PartsStep, PartsSpec, WfSpec, MdSpec, AlSpec, ScSpec, RgSpec, RlSpec, AsSpec, TrSpec,
         PgSpec, TlSpec, BpSpec

\* The variables of all the parts have their types, in every behaviour of the
\* whole.
THEOREM ServicesTypeCorrect == Spec => []ServicesTypeOK
<1>1. PartsSpec => /\ []WorkflowsTypeOK /\ []MediaRunsTypeOK /\ []AlgorithmsTypeOK /\ []ClusterScalingTypeOK
                   /\ []RequestGateTypeOK /\ []TaskReadersTypeOK /\ []TaskPageTypeOK /\ []TaskListTypeOK
                   /\ []BuildPageTypeOK
  BY WorkflowsTypeCorrect, MediaRunsTypeCorrect, AlgorithmsTypeCorrect, ClusterScalingTypeCorrect,
     RequestGateTypeCorrect, TaskReadersTypeCorrect, TaskPageTypeCorrect, TaskListTypeCorrect, BuildPageTypeCorrect
     DEF PartsSpec
<1>2. AsIInv => AssetsTypeOK
  BY DEF AsIInv
<1>3. PartsSpec => []AsIInv
  BY AssetsInvariant DEF PartsSpec
<1> QED  BY <1>1, <1>2, <1>3, PartsBehaveAsSpecified, PTL DEF ServicesTypeOK

\* The page of a task and the list of tasks, once they have stopped asking, show
\* what stays, and a page that was left is silent (TaskPage, TaskList).
THEOREM QuietPagesAreAlwaysRight == Spec => []QuietPagesAreRight
<1>1. PartsSpec => [](QuietPageIsRight /\ LeftPageIsSilent) /\ []QuietListIsRight
  BY QuietPagesStayRight, QuietListsAreRight DEF PartsSpec
<1> QED  BY <1>1, PartsBehaveAsSpecified, PTL DEF QuietPagesAreRight

\* What is proved of each part holds in every behaviour of the whole: all the
\* invariants and action properties of the services, for every value of the
\* constants.
ServicesInvariant ==
  /\ ValidationIsExact /\ NodesRunInOrder /\ CompletedRunIsWhole /\ WorkflowIsAttended
  /\ SamplingIsExact /\ CompletedMediaRunIsWhole /\ MediaRunIsAttended
  /\ PublishedHasDigest /\ BuildIsAttended /\ RegisteredPackageIsWhole /\ SplitIsExact /\ ComparisonIsWhole
  /\ PlacementIsGreedy
  /\ LimiterIsExact /\ AssetsAreSound /\ ReadingsStand /\ BuildPageIsRight

THEOREM ServicesStaySafe == Spec => []ServicesInvariant /\ OutcomeIsKept /\ SettledMediaRunIsFinal /\ RevokedNeverServes
<1>1. PartsSpec => /\ []ValidationIsExact /\ []NodesRunInOrder /\ []CompletedRunIsWhole /\ []WorkflowIsAttended
                   /\ OutcomeIsKept
  BY ValidationStaysExact, StartsInOrder, CompletesWhole, WorkflowsStayAttended, KeepsOutcome DEF PartsSpec
<1>2. PartsSpec => /\ []SamplingIsExact /\ []CompletedMediaRunIsWhole /\ []MediaRunIsAttended
                   /\ SettledMediaRunIsFinal
  BY SamplingStaysExact, CompletedMediaRunsAreWhole, MediaRunsStayAttended, SettledMediaRunsAreFinal DEF PartsSpec
<1>3. PartsSpec => /\ []PublishedHasDigest /\ []BuildIsAttended /\ []RegisteredPackageIsWhole
                   /\ []SplitIsExact /\ []ComparisonIsWhole
  BY PublishedAlwaysHasDigest, BuildsAlwaysAttended, RegisteredPackagesStayWhole, SplitStaysExact,
     ComparisonsStayWhole DEF PartsSpec
<1>4. PartsSpec => /\ []PlacementIsGreedy /\ []LimiterIsExact /\ []AssetsAreSound /\ RevokedNeverServes
  BY PlacementStaysGreedy, LimiterStaysExact, AssetsStaySound, RevokedIsRefused DEF PartsSpec
<1>5. PartsSpec => []ReadingsStand /\ []BuildPageIsRight
  BY ReadingsAlwaysStand, BuildPageStaysRight DEF PartsSpec
<1> QED  BY <1>1, <1>2, <1>3, <1>4, <1>5, PartsBehaveAsSpecified, PTL DEF ServicesInvariant
=============================================================================
