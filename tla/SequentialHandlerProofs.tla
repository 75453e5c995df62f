----------------------- MODULE SequentialHandlerProofs -----------------------
(***************************************************************************)
(* What a request goes through in SequentialHandler.ts, for every set of   *)
(* requests, routes and buckets: AsyncQueue serves callers one at a time   *)
(* and in order, whoever aborts, and so does each queue of Buckets; no     *)
(* refused request comes back before its window is over; and if every      *)
(* route has a bucket of its own, an exhausted one is left alone.  And of  *)
(* Routes, for every set of entities: whose requests share a queue.        *)
(***************************************************************************)
EXTENDS AsyncQueue, Buckets, Routes, FiniteSetTheorems, SequenceTheorems, TLAPS

-----------------------------------------------------------------------------
(* AsyncQueue.                                                             *)

QueueInv == QueueTypeOK /\ ChainInv /\ SizeCounts

LEMMA ActiveFinite ==
  /\ IsFiniteSet(Active) /\ Cardinality(Active) \in Nat
  /\ \A c \in Active :
       Cardinality(Active \ {c}) = Cardinality(Active) - 1 /\ Cardinality(Active) > 0
  /\ \A c \in Callers \ Active :
       Cardinality(Active \cup {c}) = Cardinality(Active) + 1
<1>1. IsFiniteSet(Active)
  BY QueueAssumption, FS_Subset DEF Active
<1>2. Cardinality(Active) \in Nat
  BY <1>1, FS_CardinalityType
<1>3. ASSUME NEW c \in Active
      PROVE  Cardinality(Active \ {c}) = Cardinality(Active) - 1 /\ Cardinality(Active) > 0
  <2>1. Cardinality(Active \ {c}) = Cardinality(Active) - 1
    BY <1>1, <1>3, FS_RemoveElement
  <2>2. Cardinality(Active) # 0
    BY <1>1, <1>3, FS_EmptySet
  <2> QED
    BY <2>1, <2>2, <1>2
<1>4. ASSUME NEW c \in Callers \ Active
      PROVE  Cardinality(Active \cup {c}) = Cardinality(Active) + 1
  BY <1>1, <1>4, FS_AddElement
<1> QED
  BY <1>1, <1>2, <1>3, <1>4

LEMMA QueueInitInv == QueueInit => QueueInv
<1> SUFFICES ASSUME QueueInit PROVE QueueInv
  OBVIOUS
<1>1. Active = {}
  BY DEF QueueInit, Active
<1>2. SizeCounts
  BY <1>1, FS_EmptySet DEF QueueInit, SizeCounts
<1>3. QueueTypeOK /\ ChainInv
  BY <1>1, QueueAssumption DEF QueueInit, QueueTypeOK, ChainInv, Holding
<1> QED
  BY <1>2, <1>3 DEF QueueInv

\* Every step but one of the promise chain enters or leaves Active by one caller.
LEMMA QueueStepInv == QueueInv /\ [QueueNext]_queueVars => QueueInv'
<1> SUFFICES ASSUME QueueInv, [QueueNext]_queueVars PROVE QueueInv'
  OBVIOUS
<1> USE QueueAssumption DEF QueueInv, QueueTypeOK, ChainInv, Holding
<1>1. ASSUME NEW c \in Callers, NEW aborted \in BOOLEAN, Acquire(c, aborted)
      PROVE  QueueInv'
  <2>1. Active' = Active \cup {c} /\ c \notin Active
    BY <1>1 DEF Acquire, Active
  <2>2. SizeCounts'
    BY <1>1, <2>1, ActiveFinite DEF Acquire, SizeCounts
  <2>3. QueueTypeOK'
    BY <1>1 DEF Acquire
  <2>4. ChainInv'
    BY <1>1, <2>1 DEF Acquire, Active
  <2> QED
    BY <2>2, <2>3, <2>4
<1>2. ASSUME NEW c \in Callers, SignalAborts(c) PROVE QueueInv'
  <2>1. Active' = Active
    BY <1>2 DEF SignalAborts, Active
  <2>2. QueueTypeOK' /\ ChainInv' /\ SizeCounts'
    BY <1>2, <2>1 DEF SignalAborts, SizeCounts, Active
  <2> QED
    BY <2>2
<1>3. ASSUME NEW c \in Callers, Rejected(c) PROVE QueueInv'
  <2>1. Active' = Active \ {c} /\ c \in Active
    BY <1>3 DEF Rejected, Active
  <2>2. SizeCounts' /\ size' \in Nat
    BY <1>3, <2>1, ActiveFinite DEF Rejected, GiveUp, SizeCounts
  <2>3. QueueTypeOK'
    BY <1>3, <2>1, <2>2 DEF Rejected, GiveUp, Active
  <2>4. ChainInv'
    BY <1>3, <2>1 DEF Rejected, GiveUp, Active
  <2> QED
    BY <2>2, <2>3, <2>4
<1>4. ASSUME NEW c \in Callers, Take(c) PROVE QueueInv'
  <2>1. Active' = Active
    BY <1>4 DEF Take, Active
  <2>2. QueueTypeOK' /\ ChainInv' /\ SizeCounts'
    BY <1>4, <2>1 DEF Take, SizeCounts, Active
  <2> QED
    BY <2>2
<1>5. ASSUME NEW c \in Callers, Release(c) PROVE QueueInv'
  <2>1. Active' = Active \ {c} /\ c \in Active
    BY <1>5 DEF Release, Active
  <2>2. SizeCounts' /\ size' \in Nat
    BY <1>5, <2>1, ActiveFinite DEF Release, ReleaseOnce, SizeCounts
  <2>3. QueueTypeOK'
    <3>1. slot[c] \in 0 .. tail
      OBVIOUS
    <3>2. resolved' = resolved \cup {slot[c]} /\ tail' = tail
      BY <1>5 DEF Release, ReleaseOnce
    <3>3. resolved' \subseteq 0 .. tail'
      BY <3>1, <3>2
    <3> QED
      BY <1>5, <2>2, <3>2, <3>3 DEF Release
  <2>4. ASSUME NEW n \in resolved', NEW m \in 0 .. n PROVE m \in resolved'
    <3>1. slot[c] \in 1 .. tail /\ slot[c] - 1 \in resolved
      BY <1>5, <2>1 DEF Release
    <3>2. resolved' = resolved \cup {slot[c]}
      BY <1>5 DEF Release, ReleaseOnce
    <3>3. CASE n \in resolved
      BY <3>2, <3>3
    <3>4. CASE n = slot[c] /\ m # slot[c]
      <4>1. m \in 0 .. slot[c] - 1
        BY <3>1, <3>4
      <4> QED
        BY <3>1, <3>2, <4>1
    <3> QED
      BY <3>2, <3>3, <3>4
  <2>5. ChainInv'
    BY ZenonT(30), <1>5, <2>1, <2>4 DEF Release, ReleaseOnce, Active
  <2> QED
    BY <2>2, <2>3, <2>5
<1>6. ASSUME NEW n \in 1 .. MaxSlots, Forward(n) PROVE QueueInv'
  <2>1. Active' = Active
    BY <1>6 DEF Forward, Active
  <2>2. QueueTypeOK' /\ SizeCounts'
    BY <1>6, <2>1 DEF Forward, SizeCounts
  <2>3. ChainInv'
    BY <1>6, <2>1 DEF Forward, Active
  <2> QED
    BY <2>2, <2>3
<1>7. CASE UNCHANGED queueVars
  BY <1>7 DEF queueVars, Active, SizeCounts
<1> QED
  BY <1>1, <1>2, <1>3, <1>4, <1>5, <1>6, <1>7 DEF QueueNext, QueueStep
-----------------------------------------------------------------------------
LEMMA OneHolder == QueueInv => MutualExclusion
<1> SUFFICES ASSUME QueueInv, NEW c \in Holding, NEW d \in Holding, slot[c] < slot[d]
             PROVE  FALSE
  BY DEF QueueInv, QueueTypeOK, ChainInv, MutualExclusion, Holding, Active
<1>1. slot[d] - 1 \in resolved /\ slot[c] \in 0 .. slot[d] - 1
  BY DEF QueueInv, QueueTypeOK, ChainInv, Holding, Active
<1>2. slot[c] \in resolved
  BY <1>1 DEF QueueInv, ChainInv
<1> QED
  BY <1>2 DEF QueueInv, ChainInv, Holding, Active

LEMMA QueueInvHolds == QueueSpec => []QueueInv
  BY QueueInitInv, QueueStepInv, PTL DEF QueueSpec

\* The variables keep their types: #size is never negative, no promise resolves
\* that was not installed.
THEOREM QueueTypeCorrect == QueueSpec => []QueueTypeOK
<1>1. QueueInv => QueueTypeOK
  BY DEF QueueInv
<1> QED
  BY <1>1, QueueInvHolds, PTL

\* At most one caller is between acquire() and its release function.
THEOREM OneAtATime == QueueSpec => []MutualExclusion
  BY OneHolder, QueueInvHolds, PTL

\* #size is the number of callers that hold the queue or wait in it, so a handler
\* that looks inactive is one nobody is in.
THEOREM SizeIsExact == QueueSpec => []SizeCounts
<1>1. QueueInv => SizeCounts
  BY DEF QueueInv
<1> QED
  BY <1>1, QueueInvHolds, PTL

LEMMA LockInit == QueueInit => Lock!Init
  BY DEF QueueInit, Lock!Init, InLine, Holding, Ahead

\* Every step of the promise chain is a step of the lock or leaves it alone.
LEMMA LockStep == QueueInv /\ [QueueNext]_queueVars => [Lock!Next]_<<InLine, Holding, Ahead>>
<1> SUFFICES ASSUME QueueInv, [QueueNext]_queueVars PROVE [Lock!Next]_<<InLine, Holding, Ahead>>
  OBVIOUS
<1> USE DEF QueueInv, QueueTypeOK
<1>1. ASSUME NEW c \in Callers, Acquire(c, TRUE)
      PROVE  UNCHANGED <<InLine, Holding, Ahead>>
  <2>1. UNCHANGED <<InLine, Holding>>
    BY <1>1 DEF Acquire, InLine, Holding
  <2>2. UNCHANGED Ahead
    BY <1>1, <2>1 DEF Acquire, Ahead, InLine
  <2> QED
    BY <2>1, <2>2
<1>2. ASSUME NEW c \in Callers, Acquire(c, FALSE) PROVE Lock!Join(c)
  <2>1. c \notin InLine /\ InLine' = InLine \cup {c} /\ UNCHANGED Holding
    BY <1>2 DEF Acquire, InLine, Holding
  <2>2. Ahead'[c] = InLine
    BY <1>2, <2>1 DEF Acquire, Ahead, InLine
  <2>3. \A e \in Callers \ {c} : Ahead'[e] = Ahead[e]
    BY <1>2, <2>1 DEF Acquire, Ahead, InLine
  <2>4. Ahead' = [Ahead EXCEPT ![c] = InLine]
    BY <2>2, <2>3 DEF Ahead
  <2> QED
    BY <2>1, <2>4 DEF Lock!Join
<1>3. ASSUME NEW c \in Callers, SignalAborts(c) \/ Release(c) PROVE Lock!Leave(c)
  <2>1. c \in InLine /\ InLine' = InLine \ {c} /\ Holding' = Holding \ {c}
    BY <1>3 DEF SignalAborts, Release, InLine, Holding
  <2>2. slot' = slot
    BY <1>3 DEF SignalAborts, Release
  <2>3. Ahead' = Lock!Without(c)
    BY <2>1, <2>2 DEF Ahead, Lock!Without, InLine
  <2> QED
    BY <2>1, <2>3 DEF Lock!Leave
<1>4. ASSUME NEW c \in Callers, Take(c) PROVE Lock!Grant(c)
  <2>1. c \in InLine \ Holding /\ UNCHANGED InLine /\ Holding' = Holding \cup {c}
    BY <1>4 DEF Take, InLine, Holding
  <2>2. ASSUME NEW e \in InLine, slot[e] < slot[c] PROVE FALSE
    <3>1. slot[e] \in 0 .. slot[c] - 1
      BY <2>2, <1>4 DEF InLine
    <3>2. slot[e] \in resolved
      BY <3>1, <1>4 DEF Take, ChainInv
    <3> QED
      BY <3>2 DEF ChainInv, Active, InLine
  <2>3. Ahead[c] = {}
    BY <2>2 DEF Ahead
  <2>4. UNCHANGED Ahead
    BY <1>4, <2>1 DEF Take, Ahead
  <2> QED
    BY <2>1, <2>3, <2>4 DEF Lock!Grant
<1>5. ASSUME NEW c \in Callers, Rejected(c) PROVE UNCHANGED <<InLine, Holding, Ahead>>
  <2>1. UNCHANGED <<InLine, Holding, slot>>
    BY <1>5 DEF Rejected, InLine, Holding
  <2> QED
    BY <2>1 DEF Ahead
<1>6. ASSUME NEW n \in 1 .. MaxSlots, Forward(n)
      PROVE  UNCHANGED <<InLine, Holding, Ahead>>
  BY <1>6 DEF Forward, InLine, Holding, Ahead
<1>7. CASE UNCHANGED queueVars
  BY <1>7 DEF queueVars, InLine, Holding, Ahead
<1> QED
  <2>1. ASSUME NEW c \in Callers, NEW aborted \in BOOLEAN, Acquire(c, aborted)
        PROVE  [Lock!Next]_<<InLine, Holding, Ahead>>
    <3>1. CASE aborted = TRUE
      BY <2>1, <3>1, <1>1
    <3>2. CASE aborted = FALSE
      BY <2>1, <3>2, <1>2 DEF Lock!Next
    <3> QED
      BY <3>1, <3>2
  <2> QED
    BY <2>1, <1>3, <1>4, <1>5, <1>6, <1>7 DEF QueueNext, QueueStep, Lock!Next

\* The promise chain serves callers one at a time and in the order they arrived.
THEOREM Implements == QueueSpec => ServesInOrder
<1>1. QueueInv /\ [QueueNext]_queueVars => [Lock!Next]_<<InLine, Holding, Ahead>>
  BY LockStep
<1> QED
  BY <1>1, LockInit, QueueInvHolds, PTL DEF QueueSpec, ServesInOrder, Lock!Spec

-----------------------------------------------------------------------------
(* Types.                                                                  *)

LEMMA Kinds ==
  /\ Limit \in Nat \ {0} /\ Window \in Nat \ {0} /\ Retries \in Nat /\ Infinity \in Nat
  /\ None \notin States /\ NewState \in States /\ Idle \in Runs
  /\ Own \notin Keys /\ None \notin Routes \cup Hashes /\ Routes \cap Hashes = {}
  /\ \A r \in Requests : /\ Of[r] \in Routes \X Majors /\ Of[r] = <<Route(r), Of[r][2]>>
                         /\ Route(r) \in Routes /\ Of[r][2] \in Majors
<1>1. /\ Limit \in Nat \ {0} /\ Window \in Nat \ {0} /\ Retries \in Nat /\ Infinity \in Nat
      /\ None \notin States /\ None \notin Routes \cup Hashes /\ Routes \cap Hashes = {}
  BY BucketsAssumption DEF Infinity
<1>2. NewState \in States
  BY <1>1 DEF NewState, States
<1>3. Own \notin Keys
  BY <1>1 DEF Own, Keys
<1>4. NoAnswer \in Answers
  BY <1>1 DEF NoAnswer, Answers
<1>5. Idle \in Runs
  BY <1>1, <1>2, <1>4 DEF Idle, Runs, Phases
<1>6. ASSUME NEW r \in Requests
      PROVE  /\ Of[r] \in Routes \X Majors /\ Of[r] = <<Route(r), Of[r][2]>>
             /\ Route(r) \in Routes /\ Of[r][2] \in Majors
  BY BucketsAssumption DEF Route
<1> QED
  BY <1>1, <1>2, <1>3, <1>5, <1>6

LEMMA Places ==
  ASSUME TypeOK, NEW r \in Requests
  PROVE  /\ StateKey(r) \in Keys /\ Bucket(r) \in Buckets /\ req[r] \in Runs
         /\ State(r) \in States
<1>1. hashes[Route(r)] \in Hashes \cup {None} /\ assigned[Route(r)] \in Hashes
  BY Kinds DEF TypeOK
<1>2. StateKey(r) \in Keys /\ Bucket(r) \in Buckets
  BY <1>1, Kinds DEF StateKey, Bucket, Keys, Buckets
<1>3. req[r] \in Runs
  BY DEF TypeOK
<1>4. State(r) \in States \cup {None}
  <2>1. req[r].at \in Keys \cup {Own} /\ req[r].own \in States
    BY <1>3 DEF Runs
  <2> QED
    BY <2>1 DEF TypeOK, State
<1> QED
  BY <1>2, <1>3, <1>4 DEF TypeOK

LEMMA Fresh ==
  ASSUME NEW s \in States
  PROVE  /\ AssumeFresh(s) \in States
         /\ AssumeFresh(s).remaining > 0 /\ AssumeFresh(s).resetIn = s.resetIn
<1>1. s.limit \in {Limit, Infinity} /\ Limit \in Nat \ {0}
  BY Kinds DEF States
<1>2. ASSUME NEW n \in Nat, n <= Limit PROVE [s EXCEPT !.remaining = n] \in States
  BY <1>2 DEF States
<1>3. CASE s.limit = Infinity
  BY <1>1, <1>2, <1>3 DEF AssumeFresh, States
<1>4. CASE s.limit # Infinity
  BY <1>1, <1>2, <1>4 DEF AssumeFresh, States
<1> QED
  BY <1>3, <1>4

\* What TypeOK says of requests and states.
Sound(r) == /\ State(r) # None
            /\ req[r].phase = "answered" => req[r].answer.bucket \in Buckets

Typed ==
  /\ req \in [Requests -> Runs] /\ states \in [Keys -> States \cup {None}]
  /\ \A r \in Requests : Sound(r)

LEMMA PutTypes ==
  ASSUME TypeOK, NEW r \in Requests, NEW q \in Runs, NEW s \in States, Put(r, q, s),
         q.phase # "answered"
  PROVE  /\ Typed' /\ \A o \in Requests : o # r => req'[o] = req[o]
         /\ \A k \in Keys \ {q.at} : states'[k] = states[k]
         /\ q.at # Own => req'[r] = q /\ states'[q.at] = s
         /\ q.at = Own => states' = states
         /\ req'[r].phase = q.phase /\ req'[r].timer = q.timer /\ req'[r].answer = q.answer
         /\ req'[r].at = q.at /\ req'[r].attempt = q.attempt
<1>1. q.at \in Keys \cup {Own} /\ [q EXCEPT !.own = s] \in Runs
  BY DEF Runs
<1>2. req \in [Requests -> Runs] /\ states \in [Keys -> States \cup {None}]
  BY DEF TypeOK
<1>3. CASE q.at = Own
  <2> DEFINE p == [q EXCEPT !.own = s]
  <2>1. req' = [req EXCEPT ![r] = p] /\ states' = states
    BY <1>3 DEF Put
  <2>2. p.at = Own /\ p.own = s /\ p.phase = q.phase /\ p.timer = q.timer /\ p.answer = q.answer
        /\ p.attempt = q.attempt
    BY <1>3 DEF Runs
  <2>3. p \in Runs
    BY <1>1
  <2> HIDE DEF p
  <2>4. req'[r] = p /\ \A o \in Requests : o # r => req'[o] = req[o]
    BY <1>2, <2>1
  <2>5. req' \in [Requests -> Runs]
    BY <1>2, <2>1, <2>3
  <2>6. Sound(r)'
    BY <2>2, <2>4, Kinds DEF Sound, State
  <2>7. ASSUME NEW o \in Requests, o # r PROVE Sound(o)'
    BY <2>1, <2>4, <2>7 DEF Sound, State, TypeOK
  <2> QED
    BY <1>2, <1>3, <2>1, <2>2, <2>4, <2>5, <2>6, <2>7 DEF Typed
<1>4. CASE q.at # Own
  <2>1. req' = [req EXCEPT ![r] = q] /\ states' = [states EXCEPT ![q.at] = s] /\ q.at \in Keys
    BY <1>1, <1>4 DEF Put
  <2>2. req'[r] = q /\ \A o \in Requests : o # r => req'[o] = req[o]
    BY <1>2, <2>1
  <2>3. states'[q.at] = s /\ \A k \in Keys \ {q.at} : states'[k] = states[k]
    BY <1>2, <2>1
  <2>4. req' \in [Requests -> Runs] /\ states' \in [Keys -> States \cup {None}]
    BY <1>2, <2>1
  <2>5. Sound(r)'
    BY <1>4, <2>2, <2>3, Kinds DEF Sound, State
  <2>6. ASSUME NEW o \in Requests, o # r PROVE Sound(o)'
    <3>1. req'[o] = req[o] /\ Sound(o) /\ req[o] \in Runs
      BY <2>2, <2>6, <1>2 DEF TypeOK, Sound
    <3>2. State(o)' # None
      <4>1. CASE req[o].at = Own
        BY <3>1, <4>1 DEF State, Sound
      <4>2. CASE req[o].at = q.at
        BY <3>1, <4>2, <1>4, <2>3, Kinds DEF State
      <4>3. CASE req[o].at \in Keys \ {q.at}
        BY <3>1, <4>3, <2>3, Kinds DEF State, Sound
      <4> QED
        BY <3>1, <4>1, <4>2, <4>3 DEF Runs
    <3> QED
      BY <3>1, <3>2 DEF Sound
  <2> QED
    BY <1>4, <2>2, <2>3, <2>4, <2>5, <2>6 DEF Typed
<1> QED
  BY <1>3, <1>4

\* A step that leaves the bucket states alone.
LEMMA ReplaceTypes ==
  ASSUME TypeOK, NEW r \in Requests, NEW q \in Runs,
         req' = [req EXCEPT ![r] = q], UNCHANGED states,
         q = Idle \/ (q.at = req[r].at /\ q.own = req[r].own),
         q.phase = "answered" => q.answer.bucket \in Buckets
  PROVE  Typed' /\ req'[r] = q /\ \A o \in Requests : o # r => req'[o] = req[o]
<1>1. req \in [Requests -> Runs] /\ states \in [Keys -> States \cup {None}]
      /\ \A o \in Requests : Sound(o)
  BY DEF TypeOK, Sound
<1>2. req'[r] = q /\ \A o \in Requests : o # r => req'[o] = req[o]
  BY <1>1
<1>3. req' \in [Requests -> Runs]
  BY <1>1
<1>4. ASSUME NEW o \in Requests, o # r PROVE Sound(o)'
  BY <1>1, <1>2, <1>4 DEF Sound, State
<1>5. State(r)' # None
  <2>1. CASE q = Idle
    BY <1>2, <2>1, Kinds DEF State, Idle
  <2>2. CASE q.at = req[r].at /\ q.own = req[r].own
    BY <1>1, <1>2, <2>2 DEF State, Sound
  <2> QED
    BY <2>1, <2>2
<1> QED
  BY <1>1, <1>2, <1>3, <1>4, <1>5 DEF Typed, Sound

LEMMA LineTypes ==
  ASSUME TypeOK, NEW r \in Requests, LeaveLine(r)
  PROVE  ahead' \in [Requests -> SUBSET Requests]
  BY DEF LeaveLine, TypeOK

LEMMA LeaveKeeps ==
  ASSUME TypeOK, NEW r \in Requests, Leave(r), UNCHANGED states
  PROVE  /\ Typed' /\ ahead' \in [Requests -> SUBSET Requests]
         /\ req'[r] = Idle /\ \A o \in Requests : o # r => req'[o] = req[o]
<1>1. Idle \in Runs /\ Idle.phase # "answered"
  BY Kinds DEF Idle
<1> QED
  BY <1>1, ReplaceTypes, LineTypes DEF Leave

\* #awaitAvailability lets the request through, has it sleep or has it leave.
LetThrough(r, q, s) ==
  /\ s.remaining > 0 \/ s.resetIn = 0
  /\ ahead' = ahead /\ req'[r].phase = "ready" /\ req'[r].timer = q.timer

MadeToWait(r, q, s) ==
  /\ s.remaining <= 0 /\ s.resetIn > 0
  /\ ahead' = ahead /\ req'[r].phase = "asleep" /\ req'[r].timer = s.resetIn
  /\ q.at # Own => states'[q.at] = s

SentAway(r) == LeaveLine(r) /\ req'[r] = Idle /\ states' = states

LEMMA CheckKeeps ==
  ASSUME TypeOK, NEW r \in Requests, NEW q \in Runs, NEW s \in States, Check(r, q, s)
  PROVE  /\ Typed' /\ ahead' \in [Requests -> SUBSET Requests]
         /\ \A o \in Requests : o # r => req'[o] = req[o]
         /\ \A k \in Keys \ {q.at} : states'[k] = states[k]
         /\ \/ SentAway(r)
            \/ /\ LetThrough(r, q, s) \/ MadeToWait(r, q, s)
               /\ req'[r].answer = q.answer /\ req'[r].at = q.at
               /\ q.at # Own => states'[q.at] # None
<1> DEFINE on == [q EXCEPT !.phase = "ready"]
           off == [q EXCEPT !.phase = "asleep", !.timer = s.resetIn]
<1>1. /\ on \in Runs /\ on.phase = "ready" /\ on.timer = q.timer /\ on.at = q.at
      /\ on.answer = q.answer
  BY DEF Runs, Phases
<1>2. /\ off \in Runs /\ off.phase = "asleep" /\ off.timer = s.resetIn /\ off.at = q.at
      /\ off.answer = q.answer
  BY DEF Runs, Phases, States
<1>3. ahead \in [Requests -> SUBSET Requests] /\ None \notin States
  BY Kinds DEF TypeOK
<1> HIDE DEF on, off
<1>4. CASE s.remaining > 0 /\ Put(r, on, s) /\ UNCHANGED ahead
  BY <1>1, <1>3, <1>4, PutTypes DEF LetThrough
<1>5. CASE s.remaining <= 0 /\ s.resetIn = 0 /\ Put(r, on, AssumeFresh(s)) /\ UNCHANGED ahead
  BY <1>1, <1>3, <1>5, PutTypes, Fresh DEF LetThrough
<1>6. CASE /\ s.remaining <= 0 /\ s.resetIn > 0
           /\ Put(r, off, s) /\ UNCHANGED ahead
  BY <1>2, <1>3, <1>6, PutTypes DEF MadeToWait
<1>7. CASE Leave(r) /\ UNCHANGED states
  BY <1>7, LeaveKeeps DEF Leave, SentAway
<1> QED
  BY <1>4, <1>5, <1>6, <1>7 DEF Check, on, off

-----------------------------------------------------------------------------
(* setHash.                                                                *)

LEMMA MergedType ==
  ASSUME NEW a \in States, NEW b \in States
  PROVE  Merged(a, b) \in States
<1>1. /\ Lower(a.limit, b.limit) \in {Limit, Infinity}
      /\ Higher(a.resetIn, b.resetIn) \in 0 .. Window
  BY DEF States, Lower, Higher
<1>2. Lower(a.remaining, b.remaining) \in {n \in Int : n <= Limit}
  BY DEF States, Lower
<1> QED
  BY <1>1, <1>2 DEF Merged, States

LEMMA MigratedType ==
  ASSUME TypeOK, NEW route \in Routes, NEW hash \in Hashes
  PROVE  Migrated(route, hash) \in [Keys -> States \cup {None}]
<1>1. states \in [Keys -> States \cup {None}]
  BY DEF TypeOK
<1>2. ASSUME NEW k \in Keys
      PROVE  (IF k[1] = route THEN None
              ELSE IF k[1] # hash \/ states[<<route, k[2]>>] = None THEN states[k]
              ELSE IF states[k] = None THEN states[<<route, k[2]>>]
              ELSE Merged(states[k], states[<<route, k[2]>>])) \in States \cup {None}
  <2>1. <<route, k[2]>> \in Keys
    BY DEF Keys
  <2>2. states[k] \in States \cup {None} /\ states[<<route, k[2]>>] \in States \cup {None}
    BY <1>1, <2>1
  <2> QED
    BY <2>2, MergedType
<1> QED
  BY <1>1, <1>2 DEF Migrated

\* A request still finds its state.
LEMMA FollowedKept ==
  ASSUME TypeOK, NEW o \in Requests, NEW route \in Routes, NEW hash \in Hashes,
         NEW q, q = Followed(req[o], route, hash)
  PROVE  /\ q \in Runs /\ q.phase = req[o].phase /\ q.timer = req[o].timer
         /\ q.answer = req[o].answer /\ q.attempt = req[o].attempt
         /\ q.at # Own => Migrated(route, hash)[q.at] # None
         /\ hashes[route] = hash \/ req[o].at[1] # route => q = req[o]
<1>1. /\ req[o] \in Runs /\ req[o].at \in Keys \cup {Own} /\ State(o) # None
      /\ states \in [Keys -> States \cup {None}]
  BY DEF TypeOK, Runs
<1>2. hash # route /\ None \notin States /\ None # route
  BY Kinds
<1>3. CASE hashes[route] = hash
  BY <1>1, <1>3 DEF Followed, Migrated, State
<1>4. CASE hashes[route] # hash /\ req[o].at[1] # route
  <2>1. q = req[o]
    BY <1>4 DEF Followed
  <2>2. ASSUME req[o].at # Own PROVE Migrated(route, hash)[req[o].at] # None
    <3> DEFINE k == req[o].at
    <3>1. k \in Keys /\ states[k] # None /\ states[k] \in States
      BY <1>1, <2>2 DEF State
    <3>2. <<route, k[2]>> \in Keys
      BY <3>1 DEF Keys
    <3>3. states[<<route, k[2]>>] # None => Merged(states[k], states[<<route, k[2]>>]) \in States
      BY <1>1, <3>1, <3>2, MergedType
    <3> QED
      BY <1>2, <1>4, <3>1, <3>3 DEF Migrated
  <2> QED
    BY <1>1, <2>1, <2>2
<1>5. CASE hashes[route] # hash /\ req[o].at[1] = route
  <2> DEFINE k == req[o].at
             new == <<hash, k[2]>>
  <2>1. k \in Keys /\ k = <<route, k[2]>> /\ states[k] # None /\ states[k] \in States
    BY <1>1, <1>2, <1>5 DEF State, Keys, Own
  <2>2. new \in Keys /\ new[1] = hash /\ new[2] = k[2]
    BY <2>1 DEF Keys
  <2>3. CASE states[new] = None
    <3>1. q = [req[o] EXCEPT !.at = new]
      BY <1>5, <2>3 DEF Followed
    <3>2. Migrated(route, hash)[new] = states[k]
      BY <1>2, <1>5, <2>1, <2>2, <2>3 DEF Migrated
    <3> QED
      BY <1>1, <1>5, <2>1, <2>2, <3>1, <3>2 DEF Runs
  <2>4. CASE states[new] # None
    <3>1. q = [req[o] EXCEPT !.own = states[k], !.at = Own]
      BY <1>5, <2>4 DEF Followed
    <3> QED
      BY <1>1, <1>5, <2>1, <3>1 DEF Runs
  <2> QED
    BY <2>3, <2>4
<1> QED
  BY <1>3, <1>4, <1>5

\* What an answer says of a bucket, the bucket's hash, and where setHash leaves the
\* state that its request holds.
Headers(r) == [limit |-> Limit, remaining |-> req[r].answer.remaining,
               resetIn |-> req[r].answer.resetIn]
Hash(r) == req[r].answer.bucket[1]
Place(r) == Followed(req[r], Route(r), Hash(r)).at

LEMMA AnswerTypes ==
  ASSUME TypeOK, NEW r \in Requests, req[r].phase = "answered"
  PROVE  /\ req[r].answer \in Answers /\ req[r].answer.bucket \in Buckets
         /\ Hash(r) \in Hashes /\ Headers(r) \in States
<1>1. req[r].answer \in Answers
  BY DEF TypeOK, Runs
<1>2. req[r].answer.bucket \in Buckets
  BY DEF TypeOK
<1>3. Hash(r) \in Hashes
  BY <1>2 DEF Buckets, Hash
<1>4. req[r].answer.remaining \in 0 .. Limit /\ req[r].answer.resetIn \in 0 .. Window
  BY <1>1 DEF Answers
<1>5. Headers(r) \in States
  BY <1>4, Kinds DEF States, Headers
<1> QED
  BY <1>1, <1>2, <1>3, <1>5

\* The headers reach the state that the request holds, wherever setHash left it.
LEMMA ApplyKeeps ==
  ASSUME TypeOK, NEW r \in Requests, req[r].phase = "answered",
         NEW after \in Runs, ApplyHeaders(r, after), after.phase # "answered"
  PROVE  /\ Typed' /\ hashes' = [hashes EXCEPT ![Route(r)] = Hash(r)]
         /\ hashes' \in [Routes -> Hashes \cup {None}]
         /\ Place(r) \in Keys \cup {Own}
         /\ states' = IF Place(r) = Own THEN Migrated(Route(r), Hash(r))
                      ELSE [Migrated(Route(r), Hash(r)) EXCEPT ![Place(r)] = Headers(r)]
         /\ \A o \in Requests : o # r => req'[o] = Followed(req[o], Route(r), Hash(r))
         /\ IF after.phase = "idle" THEN req'[r] = Idle
            ELSE /\ req'[r].phase = after.phase /\ req'[r].timer = after.timer
                 /\ req'[r].answer = after.answer /\ req'[r].at = Place(r)
<1> DEFINE route == Route(r)
           hash == Hash(r)
           at == Place(r)
           s == Headers(r)
           followed == [o \in Requests |-> Followed(req[o], route, hash)]
           q == IF after.phase = "idle" THEN Idle
                ELSE [after EXCEPT !.at = at, !.own = IF at = Own THEN s ELSE NewState]
           migrated == Migrated(route, hash)
<1>1. route \in Routes /\ hash \in Hashes /\ s \in States /\ None \notin States
      /\ NewState \in States /\ Idle \in Runs
  BY AnswerTypes, Kinds
<1>2. /\ hashes' = [hashes EXCEPT ![route] = hash]
      /\ states' = IF at = Own THEN migrated ELSE [migrated EXCEPT ![at] = s]
      /\ req' = [followed EXCEPT ![r] = q]
  BY DEF ApplyHeaders, Hash, Place, Headers
<1>3. hashes' \in [Routes -> Hashes \cup {None}]
  <2>1. hashes \in [Routes -> Hashes \cup {None}]
    BY DEF TypeOK
  <2> QED
    BY <1>1, <1>2, <2>1
<1>4. migrated \in [Keys -> States \cup {None}]
  BY <1>1, MigratedType
<1>5. \A o \in Requests : /\ followed[o] \in Runs
                          /\ followed[o].phase = req[o].phase /\ followed[o].answer = req[o].answer
                          /\ followed[o].at # Own => migrated[followed[o].at] # None
  BY <1>1, FollowedKept
<1>6. at \in Keys \cup {Own} /\ (at # Own => migrated[at] # None)
  <2>1. at = followed[r].at
    BY DEF Place
  <2> QED
    BY <2>1, <1>5 DEF Runs
<1>7. /\ q \in Runs /\ q.phase # "answered"
      /\ q.at = Own => q.own \in States
      /\ IF after.phase = "idle" THEN q = Idle
         ELSE /\ q.phase = after.phase /\ q.timer = after.timer
              /\ q.answer = after.answer /\ q.at = at
  <2>1. CASE after.phase = "idle"
    BY <1>1, <2>1 DEF Idle
  <2>2. CASE after.phase # "idle"
    BY <1>1, <1>6, <2>2 DEF Runs
  <2> QED
    BY <2>1, <2>2
<1>8. q.at # Own => q.at = at
  BY <1>7 DEF Idle
<1> HIDE DEF q, followed, migrated
<1>9. req'[r] = q /\ \A o \in Requests : o # r => req'[o] = followed[o]
  <2>1. DOMAIN followed = Requests
    BY DEF followed
  <2> QED
    BY <1>2, <2>1
<1>10. req' \in [Requests -> Runs]
  <2>1. followed \in [Requests -> Runs]
    BY <1>5 DEF followed
  <2> QED
    BY <1>2, <1>7, <2>1
<1>11. /\ states' \in [Keys -> States \cup {None}]
       /\ \A k \in Keys : states'[k] = migrated[k] \/ (k = at /\ states'[k] = s)
       /\ at # Own => states'[at] = s
  BY <1>1, <1>2, <1>4, <1>6
<1>12. Sound(r)'
  <2>1. CASE q.at = Own
    BY <1>1, <1>7, <1>9, <2>1 DEF Sound, State
  <2>2. CASE q.at # Own
    BY <1>1, <1>7, <1>8, <1>9, <1>11, <2>2 DEF Sound, State
  <2> QED
    BY <2>1, <2>2
<1>13. ASSUME NEW o \in Requests, o # r PROVE Sound(o)'
  <2> DEFINE p == followed[o]
  <2>1. req'[o] = p /\ p \in Runs /\ p.at \in Keys \cup {Own} /\ p.own \in States
    BY <1>5, <1>9, <1>13 DEF Runs
  <2>2. State(o)' # None
    <3>1. CASE p.at = Own
      BY <1>1, <2>1, <3>1 DEF State
    <3>2. CASE p.at # Own
      <4>1. states'[p.at] = migrated[p.at] \/ states'[p.at] = s
        BY <2>1, <3>2, <1>11
      <4>2. migrated[p.at] # None
        BY <1>5, <3>2
      <4> QED
        BY <1>1, <2>1, <3>2, <4>1, <4>2 DEF State
    <3> QED
      BY <3>1, <3>2
  <2>3. p.phase = "answered" => p.answer.bucket \in Buckets
    BY <1>5 DEF TypeOK
  <2> QED
    BY <2>1, <2>2, <2>3 DEF Sound
<1>14. Typed'
  BY <1>10, <1>11, <1>12, <1>13 DEF Typed
<1> QED
  BY <1>2, <1>3, <1>6, <1>7, <1>9, <1>14 DEF followed, migrated

-----------------------------------------------------------------------------
(* Types, action by action.                                                *)

LEMMA OpenedType ==
  ASSUME TypeOK, NEW b \in Buckets
  PROVE  /\ Opened(b) \in [left : 0 .. Limit, resetIn : 0 .. Window] /\ Opened(b).resetIn > 0
         /\ srv[b].resetIn > 0 => Opened(b) = srv[b]
<1>1. srv[b] \in [left : 0 .. Limit, resetIn : 0 .. Window]
  BY DEF TypeOK
<1> QED
  BY <1>1, Kinds DEF Opened

LEMMA CountedType ==
  ASSUME TypeOK, NEW b \in Buckets, Opened(b).left # 0, Counted(b)
  PROVE  /\ srv' \in [Buckets -> [left : 0 .. Limit, resetIn : 0 .. Window]]
         /\ srv'[b].left = Opened(b).left - 1 /\ srv'[b].resetIn = Opened(b).resetIn
         /\ \A c \in Buckets \ {b} : srv'[c] = srv[c]
<1> DEFINE w == Opened(b)
           v == [w EXCEPT !.left = @ - 1]
<1>1. w \in [left : 0 .. Limit, resetIn : 0 .. Window] /\ w.left # 0
  BY OpenedType
<1>2. w.left - 1 \in 0 .. Limit
  BY <1>1, Kinds
<1>3. v \in [left : 0 .. Limit, resetIn : 0 .. Window]
      /\ v.left = w.left - 1 /\ v.resetIn = w.resetIn
  BY <1>1, <1>2
<1>4. srv' = [srv EXCEPT ![b] = v]
  BY DEF Counted
<1>5. srv \in [Buckets -> [left : 0 .. Limit, resetIn : 0 .. Window]]
  BY DEF TypeOK
<1> HIDE DEF v
<1> QED
  BY <1>3, <1>4, <1>5

LEMMA LostType ==
  ASSUME TypeOK, NEW r \in Requests, Lost(r)
  PROVE  /\ srv' \in [Buckets -> [left : 0 .. Limit, resetIn : 0 .. Window]]
         /\ assigned' \in [Routes -> Hashes] /\ told' \subseteq Buckets
         /\ overrun' \in BOOLEAN /\ unheard' \in BOOLEAN
<1>1. Bucket(r) \in Buckets
  BY Places
<1>2. /\ srv \in [Buckets -> [left : 0 .. Limit, resetIn : 0 .. Window]]
      /\ assigned' \in [Routes -> Hashes] /\ told' \subseteq Buckets
      /\ overrun' \in BOOLEAN
  BY DEF TypeOK, Lost
<1>3. CASE UNCHANGED <<srv, unheard>>
  BY <1>2, <1>3 DEF TypeOK
<1>4. CASE Opened(Bucket(r)).left > 0 /\ Counted(Bucket(r)) /\ unheard' = TRUE
  BY <1>1, <1>2, <1>4, CountedType
<1> QED
  BY <1>3, <1>4 DEF Lost

\* What the service and the histories keep when a step leaves them alone.
ServiceTypes ==
  /\ assigned \in [Routes -> Hashes]
  /\ srv \in [Buckets -> [left : 0 .. Limit, resetIn : 0 .. Window]]
  /\ told \subseteq Buckets /\ overrun \in BOOLEAN /\ unheard \in BOOLEAN

LEMMA TypeParts ==
  /\ TypeOK <=> /\ ahead \in [Requests -> SUBSET Requests] /\ Typed
                /\ hashes \in [Routes -> Hashes \cup {None}] /\ ServiceTypes
                /\ breached \in BOOLEAN
  /\ ServiceTypes /\ UNCHANGED service => ServiceTypes'
  BY DEF TypeOK, Typed, Sound, ServiceTypes, service

LEMMA TypeNext ==
  ASSUME ahead' \in [Requests -> SUBSET Requests], Typed',
         hashes' \in [Routes -> Hashes \cup {None}], ServiceTypes', breached' \in BOOLEAN
  PROVE  TypeOK'
  BY DEF TypeOK, Typed, Sound, ServiceTypes

LEMMA AgainType ==
  ASSUME NEW q \in Runs, q.attempt < Retries, NEW phase \in Phases
  PROVE  /\ [Again(q) EXCEPT !.phase = phase] \in Runs
         /\ \A timer \in 0 .. Window :
              [Again(q) EXCEPT !.phase = phase, !.timer = timer] \in Runs
<1>1. q.attempt + 1 \in 0 .. Retries
  BY Kinds DEF Runs
<1> DEFINE n == q.attempt + 1
<1>2. Again(q) = [q EXCEPT !.attempt = n]
  BY DEF Again
<1> HIDE DEF n
<1> QED
  BY <1>1, <1>2 DEF Runs, n

\* What is left of a request when its answer is delivered.
LEMMA DeliverApplies ==
  ASSUME TypeOK, NEW r \in Requests, Deliver(r), NEW a, a = req[r].answer
  PROVE  \E after \in Runs :
           /\ ApplyHeaders(r, after) /\ after.phase \in {"idle", "asleep", "backoff"}
           /\ IF after.phase = "idle" THEN LeaveLine(r) ELSE ahead' = ahead /\ after.answer = a
           /\ after.phase = "asleep" => after.timer = a.resetIn
           /\ after.phase = "backoff" => ~a.limited
<1>1. req[r] \in Runs /\ Idle \in Runs /\ Idle.phase = "idle"
  BY Kinds DEF TypeOK, Idle
<1>2. a.resetIn \in 0 .. Window
  BY AnswerTypes DEF Answers, Deliver
<1>3. CASE req[r].attempt < Retries /\ UNCHANGED ahead
           /\ ApplyHeaders(r, [Again(req[r]) EXCEPT !.phase = "asleep", !.timer = Pause(a)])
  <2> DEFINE after == [Again(req[r]) EXCEPT !.phase = "asleep", !.timer = Pause(a)]
  <2>1. after \in Runs
    BY <1>1, <1>2, <1>3, AgainType DEF Pause, Phases
  <2>2. after.phase = "asleep" /\ after.timer = a.resetIn /\ after.answer = a
    BY <1>1, <2>1 DEF Again, Runs, Pause
  <2>3. ApplyHeaders(r, after) /\ ahead' = ahead
    BY <1>3
  <2> HIDE DEF after
  <2> QED
    BY <2>1, <2>2, <2>3
<1>4. CASE req[r].attempt < Retries /\ UNCHANGED ahead /\ ~a.limited
           /\ ApplyHeaders(r, [Again(req[r]) EXCEPT !.phase = "backoff"])
  <2> DEFINE after == [Again(req[r]) EXCEPT !.phase = "backoff"]
  <2>1. after \in Runs
    BY <1>1, <1>4, AgainType DEF Phases
  <2>2. after.phase = "backoff" /\ after.answer = a
    BY <1>1, <2>1 DEF Again, Runs
  <2>3. ApplyHeaders(r, after) /\ ahead' = ahead
    BY <1>4
  <2> HIDE DEF after
  <2> QED
    BY <1>4, <2>1, <2>2, <2>3
<1>5. CASE LeaveLine(r) /\ ApplyHeaders(r, Idle)
  BY <1>1, <1>5
<1> QED
  BY <1>3, <1>4, <1>5 DEF Deliver

\* What the delivery of an answer does to its request.
Retried(r) ==
  /\ ahead' = ahead /\ req'[r].answer = req[r].answer /\ req'[r].at = Place(r)
  /\ \/ req'[r].phase = "asleep" /\ req'[r].timer = req[r].answer.resetIn
     \/ req'[r].phase = "backoff" /\ ~req[r].answer.limited

LEMMA DeliverKeeps ==
  ASSUME TypeOK, NEW r \in Requests, Deliver(r)
  PROVE  /\ Typed' /\ hashes' = [hashes EXCEPT ![Route(r)] = Hash(r)]
         /\ hashes' \in [Routes -> Hashes \cup {None}]
         /\ Place(r) \in Keys \cup {Own}
         /\ states' = IF Place(r) = Own THEN Migrated(Route(r), Hash(r))
                      ELSE [Migrated(Route(r), Hash(r)) EXCEPT ![Place(r)] = Headers(r)]
         /\ \A o \in Requests : o # r => req'[o] = Followed(req[o], Route(r), Hash(r))
         /\ (req'[r] = Idle /\ LeaveLine(r)) \/ Retried(r)
<1>1. req[r].phase = "answered"
  BY DEF Deliver
<1>2. PICK after \in Runs :
        /\ ApplyHeaders(r, after) /\ after.phase \in {"idle", "asleep", "backoff"}
        /\ IF after.phase = "idle" THEN LeaveLine(r)
           ELSE ahead' = ahead /\ after.answer = req[r].answer
        /\ after.phase = "asleep" => after.timer = req[r].answer.resetIn
        /\ after.phase = "backoff" => ~req[r].answer.limited
  BY DeliverApplies
<1>3. ApplyHeaders(r, after) /\ after.phase # "answered"
  BY <1>2
<1>4. IF after.phase = "idle" THEN req'[r] = Idle
      ELSE /\ req'[r].phase = after.phase /\ req'[r].timer = after.timer
           /\ req'[r].answer = after.answer /\ req'[r].at = Place(r)
  BY ONLY TypeOK, <1>1, <1>3, ApplyKeeps, after \in Runs, r \in Requests
<1>5. (req'[r] = Idle /\ LeaveLine(r)) \/ Retried(r)
  BY ONLY <1>2, <1>4 DEF Retried
<1>6. /\ Typed' /\ hashes' = [hashes EXCEPT ![Route(r)] = Hash(r)]
      /\ hashes' \in [Routes -> Hashes \cup {None}]
      /\ Place(r) \in Keys \cup {Own}
      /\ states' = IF Place(r) = Own THEN Migrated(Route(r), Hash(r))
                   ELSE [Migrated(Route(r), Hash(r)) EXCEPT ![Place(r)] = Headers(r)]
      /\ \A o \in Requests : o # r => req'[o] = Followed(req[o], Route(r), Hash(r))
  BY ONLY TypeOK, <1>1, <1>3, ApplyKeeps, after \in Runs, r \in Requests
<1> QED
  BY <1>5, <1>6

LEMMA AdmitType ==
  ASSUME NEW r, breached \in BOOLEAN, Admit(r)
  PROVE  breached' \in BOOLEAN
  BY DEF Admit

\* The state that a request begins with.
BeginState(r) == IF states[StateKey(r)] = None THEN NewState ELSE states[StateKey(r)]

LEMMA BeginTypes ==
  ASSUME TypeOK, NEW r \in Requests
  PROVE  BeginState(r) \in States /\ [req[r] EXCEPT !.at = StateKey(r)] \in Runs
<1>1. StateKey(r) \in Keys /\ req[r] \in Runs
  BY Places
<1>2. states[StateKey(r)] \in States \cup {None}
  BY <1>1 DEF TypeOK
<1> QED
  BY <1>1, <1>2, Kinds DEF BeginState, Runs

LEMMA StepTypes ==
  ASSUME TypeOK, NEW r \in Requests, Step(r)
  PROVE  TypeOK'
<1>1. /\ req[r] \in Runs /\ State(r) \in States /\ Bucket(r) \in Buckets
      /\ Idle \in Runs /\ Idle.phase = "idle"
  BY Places, Kinds DEF Idle
<1>2. /\ ahead \in [Requests -> SUBSET Requests] /\ Typed
      /\ hashes \in [Routes -> Hashes \cup {None}] /\ ServiceTypes
      /\ breached \in BOOLEAN
  BY TypeParts
<1>3. CASE Enqueue(r)
  <2> DEFINE q == [req[r] EXCEPT !.phase = "queued"]
  <2>1. q \in Runs /\ q.phase = "queued" /\ q.at = req[r].at /\ q.own = req[r].own
    BY <1>1 DEF Runs, Phases
  <2>2. req' = [req EXCEPT ![r] = q] /\ UNCHANGED states
    BY <1>2, <1>3 DEF Enqueue, Typed
  <2> HIDE DEF q
  <2>3. Typed'
    BY <2>1, <2>2, ReplaceTypes
  <2>4. ahead' \in [Requests -> SUBSET Requests]
    BY <1>2, <1>3 DEF Enqueue, Queued
  <2> QED
    BY <1>2, <1>3, <2>3, <2>4, TypeParts, TypeNext DEF Enqueue
<1>4. CASE Begin(r)
  <2>1. Check(r, [req[r] EXCEPT !.at = StateKey(r)], BeginState(r)) /\ Admit(r)
        /\ UNCHANGED <<hashes, service>>
    BY <1>4 DEF Begin, BeginState
  <2>2. Typed' /\ ahead' \in [Requests -> SUBSET Requests]
    BY <2>1, BeginTypes, CheckKeeps
  <2> QED
    BY <1>2, <2>1, <2>2, AdmitType, TypeParts, TypeNext
<1>5. CASE Wake(r)
  <2> DEFINE q == [req[r] EXCEPT !.phase = "ready"]
  <2>1. q \in Runs /\ q.phase = "ready"
    BY <1>1 DEF Runs, Phases
  <2>2. Put(r, q, AssumeFresh(State(r))) /\ Admit(r) /\ UNCHANGED <<ahead, hashes, service>>
    BY <1>5 DEF Wake
  <2> HIDE DEF q
  <2>3. Typed'
    BY <1>1, <2>1, <2>2, PutTypes, Fresh
  <2> QED
    BY <1>2, <2>2, <2>3, AdmitType, TypeParts, TypeNext
<1>6. CASE Send(r)
  <2> DEFINE q == [req[r] EXCEPT !.phase = "sent"]
             s == [State(r) EXCEPT !.remaining = @ - 1]
  <2>1. q \in Runs /\ q.phase = "sent"
    BY <1>1 DEF Runs, Phases
  <2>2. s \in States
    BY <1>1, Kinds DEF States
  <2>3. Put(r, q, s) /\ UNCHANGED <<ahead, hashes, service, breached>>
    BY <1>6 DEF Send
  <2> HIDE DEF q, s
  <2>4. Typed'
    BY <2>1, <2>2, <2>3, PutTypes
  <2> QED
    BY <1>2, <2>3, <2>4, TypeParts, TypeNext
<1>7. CASE Deliver(r)
  <2> DEFINE a == req[r].answer
  <2>1. /\ req[r].phase = "answered" /\ breached' = breached
        /\ UNCHANGED <<assigned, srv, breached, overrun, unheard>>
        /\ told' = IF a.current /\ a.remaining = 0 THEN told \cup {a.bucket} ELSE told
    BY <1>7 DEF Deliver
  <2>2. a \in Answers /\ a.bucket \in Buckets /\ a.resetIn \in 0 .. Window
    BY <2>1, AnswerTypes DEF Answers
  <2>3. ServiceTypes'
    BY <1>2, <2>1, <2>2 DEF ServiceTypes
  <2>4. LeaveLine(r) \/ ahead' = ahead
    BY <1>7, DeliverKeeps DEF Retried
  <2>5. Typed' /\ hashes' \in [Routes -> Hashes \cup {None}]
    BY <1>7, DeliverKeeps
  <2>6. ahead' \in [Requests -> SUBSET Requests]
    BY <1>2, <2>4, LineTypes
  <2> QED
    BY <1>2, <2>1, <2>3, <2>5, <2>6, TypeNext
<1>8. ASSUME NEW phase \in {"asleep", "backoff"}, req[r].attempt < Retries, UNCHANGED states,
             NEW q, q = [Again(req[r]) EXCEPT !.phase = phase] \/
                    q = [Again(req[r]) EXCEPT !.phase = phase, !.timer = 0],
             req' = [req EXCEPT ![r] = q]
      PROVE  Typed'
  <2>1. q \in Runs
    <3>1. phase \in Phases /\ 0 \in 0 .. Window
      BY Kinds DEF Phases
    <3> QED
      <4>1. [Again(req[r]) EXCEPT !.phase = phase] \in Runs
        BY <1>1, <1>8, <3>1, AgainType
      <4>2. [Again(req[r]) EXCEPT !.phase = phase, !.timer = 0] \in Runs
        BY <1>1, <1>8, <3>1, AgainType
      <4> QED
        BY <1>8, <4>1, <4>2
  <2>2. q.phase # "answered" /\ q.at = req[r].at /\ q.own = req[r].own
    BY <1>1, <1>8 DEF Again, Runs
  <2> QED
    BY <1>8, <2>1, <2>2, ReplaceTypes
<1>9. CASE Throttled(r)
  <2>1. UNCHANGED <<hashes, states, service, breached>>
    BY <1>9 DEF Throttled
  <2>2. CASE Leave(r)
    BY <1>2, <2>1, <2>2, LeaveKeeps, TypeParts, TypeNext
  <2>3. CASE /\ req[r].attempt < Retries /\ UNCHANGED ahead
             /\ req' = [req EXCEPT ![r] = [Again(@) EXCEPT !.phase = "asleep", !.timer = 0]]
    <3>1. req' = [req EXCEPT ![r] = [Again(req[r]) EXCEPT !.phase = "asleep", !.timer = 0]]
      BY <1>2, <2>3 DEF Typed
    <3>2. Typed'
      BY <1>8, <2>1, <2>3, <3>1
    <3> QED
      BY <1>2, <2>1, <2>3, <3>2, TypeParts, TypeNext
  <2> QED
    BY <1>9, <2>2, <2>3 DEF Throttled
<1>10. CASE Serve(r)
  <2> DEFINE b == Bucket(r)
             full == Opened(b).left = 0
             a == [bucket |-> b, limited |-> full, current |-> TRUE,
                   remaining |-> IF full THEN 0 ELSE Opened(b).left - 1,
                   resetIn |-> Opened(b).resetIn]
             q == [req[r] EXCEPT !.phase = "answered", !.answer = a]
  <2>1. /\ IF full THEN UNCHANGED srv ELSE Counted(b)
        /\ overrun' = (overrun \/ full) /\ req' = [req EXCEPT ![r] = q]
        /\ UNCHANGED <<ahead, hashes, states, assigned, told, breached, unheard>>
    BY <1>2, <1>10 DEF Serve, Typed
  <2>2. Opened(b) \in [left : 0 .. Limit, resetIn : 0 .. Window]
    BY <1>1, OpenedType
  <2>3. a \in Answers /\ a.bucket \in Buckets
    <3>1. (IF full THEN 0 ELSE Opened(b).left - 1) \in 0 .. Limit
      BY <2>2, Kinds
    <3> QED
      BY <1>1, <2>2, <3>1 DEF Answers
  <2> HIDE DEF a
  <2>4. q \in Runs /\ q.at = req[r].at /\ q.own = req[r].own /\ q.answer = a
    BY <1>1, <2>3 DEF Runs, Phases
  <2> HIDE DEF q
  <2>5. Typed'
    BY <2>1, <2>3, <2>4, ReplaceTypes
  <2>6. ServiceTypes'
    BY <1>1, <1>2, <2>1, CountedType DEF ServiceTypes
  <2> QED
    BY <1>2, <2>1, <2>5, <2>6, TypeParts, TypeNext
<1>11. CASE Fail(r)
  <2>1. Lost(r) /\ UNCHANGED <<hashes, states, breached>>
    BY <1>11 DEF Fail
  <2>2. ServiceTypes'
    BY <2>1, LostType DEF ServiceTypes
  <2>3. CASE Leave(r)
    BY <1>2, <2>1, <2>2, <2>3, LeaveKeeps, TypeParts, TypeNext
  <2>4. CASE /\ req[r].attempt < Retries /\ UNCHANGED ahead
             /\ req' = [req EXCEPT ![r] = [Again(@) EXCEPT !.phase = "backoff"]]
    <3>1. req' = [req EXCEPT ![r] = [Again(req[r]) EXCEPT !.phase = "backoff"]]
      BY <1>2, <2>4 DEF Typed
    <3>2. Typed'
      BY <1>8, <2>1, <2>4, <3>1
    <3> QED
      BY <1>2, <2>1, <2>2, <2>4, <3>2, TypeParts, TypeNext
  <2> QED
    BY <1>11, <2>3, <2>4 DEF Fail
<1>12. CASE BackedOff(r)
  <2>1. Check(r, req[r], State(r)) /\ Admit(r) /\ UNCHANGED <<hashes, service>>
    BY <1>12 DEF BackedOff
  <2>2. Typed' /\ ahead' \in [Requests -> SUBSET Requests]
    BY <1>1, <2>1, CheckKeeps
  <2> QED
    BY <1>2, <2>1, <2>2, AdmitType, TypeParts, TypeNext
<1>13. CASE Abandon(r)
  <2>1. Leave(r) /\ UNCHANGED <<hashes, states, breached>>
    BY <1>13 DEF Abandon
  <2>2. ServiceTypes'
    <3>1. CASE Lost(r)
      BY <3>1, LostType DEF ServiceTypes
    <3>2. CASE /\ unheard' = (unheard \/ req[r].phase = "answered")
               /\ UNCHANGED <<assigned, srv, told, overrun>>
      BY <1>2, <3>2 DEF ServiceTypes
    <3> QED
      BY <1>13, <3>1, <3>2 DEF Abandon
  <2> QED
    BY <1>2, <2>1, <2>2, LeaveKeeps, TypeParts, TypeNext
<1> QED
  BY <1>3, <1>4, <1>5, <1>6, <1>7, <1>9, <1>10, <1>11, <1>12, <1>13 DEF Step

LEMMA SoonerType ==
  ASSUME NEW n \in 0 .. Window
  PROVE  Sooner(n) \in 0 .. Window
  BY Kinds DEF Sooner

\* What a tick makes of a request and of a state.
LEMMA TickTypes ==
  ASSUME TypeOK, Tick
  PROVE  TypeOK'
<1>1. \A s \in States : Later(s) \in States /\ Later(s) # None
  BY SoonerType, Kinds DEF Later, States
<1>2. Later(None) = None
  BY DEF Later
<1>3. states' \in [Keys -> States \cup {None}]
  BY <1>1, <1>2 DEF TypeOK, Tick
<1>4. srv' \in [Buckets -> [left : 0 .. Limit, resetIn : 0 .. Window]]
  <2>1. ASSUME NEW b \in Buckets
        PROVE  (IF srv[b].resetIn <= 1 THEN [left |-> 0, resetIn |-> 0]
                ELSE [srv[b] EXCEPT !.resetIn = @ - 1]) \in [left : 0 .. Limit, resetIn : 0 .. Window]
    <3>1. srv[b] \in [left : 0 .. Limit, resetIn : 0 .. Window]
      BY DEF TypeOK
    <3> QED
      BY <3>1, Kinds
  <2> QED
    BY <2>1 DEF Tick
<1>5. ASSUME NEW r \in Requests
      PROVE  req'[r] \in Runs /\ Sound(r)'
  <2> DEFINE q == req[r]
             a == [q.answer EXCEPT !.current = @ /\ srv[q.answer.bucket].resetIn > 1]
             p == [q EXCEPT !.timer = Sooner(q.timer), !.own = Later(q.own), !.answer = a]
  <2>1. q \in Runs /\ q.answer \in Answers /\ q.own \in States /\ q.timer \in 0 .. Window
    BY DEF TypeOK, Runs
  <2>2. a \in Answers /\ a.bucket = q.answer.bucket
    BY <2>1 DEF Answers
  <2>3. p \in Runs /\ p.own = Later(q.own) /\ p.at = q.at /\ p.phase = q.phase /\ p.answer = a
    BY <1>1, <2>1, <2>2, SoonerType DEF Runs
  <2>4. req'[r] = p
    BY DEF Tick
  <2> HIDE DEF p, a
  <2>5. State(r)' # None
    <3>1. CASE q.at = Own
      BY <1>1, <2>1, <2>3, <2>4, <3>1 DEF State
    <3>2. CASE q.at # Own
      <4>1. q.at \in Keys /\ states[q.at] \in States
        BY <2>1, <3>2 DEF TypeOK, Runs, State
      <4>2. states'[q.at] = Later(states[q.at])
        BY <4>1 DEF Tick
      <4> QED
        BY <1>1, <2>3, <2>4, <3>2, <4>1, <4>2 DEF State
    <3> QED
      BY <3>1, <3>2
  <2> QED
    BY <2>2, <2>3, <2>4, <2>5 DEF Sound, TypeOK
<1>6. req' \in [Requests -> Runs]
  <2> DEFINE f == [r \in Requests |-> [req[r] EXCEPT !.timer = Sooner(@), !.own = Later(@),
       !.answer.current = @ /\ srv[req[r].answer.bucket].resetIn > 1]]
  <2>1. req' = f
    BY DEF Tick
  <2>2. \A r \in Requests : f[r] \in Runs
    BY <1>5, <2>1
  <2> QED
    BY <2>1, <2>2
<1>7. Typed'
  BY <1>3, <1>5, <1>6 DEF Typed
<1>8. ServiceTypes' /\ breached' \in BOOLEAN /\ ahead' \in [Requests -> SUBSET Requests]
      /\ hashes' \in [Routes -> Hashes \cup {None}]
  BY <1>4 DEF Tick, TypeOK, ServiceTypes
<1> QED
  BY <1>7, <1>8, TypeNext

LEMMA SweepTypes ==
  ASSUME TypeOK, NEW k \in Keys, SweepState(k)
  PROVE  TypeOK'
<1>1. /\ states \in [Keys -> States \cup {None}] /\ states' = [states EXCEPT ![k] = None]
      /\ UNCHANGED <<ahead, req, hashes, service, breached>>
      /\ \A r \in Requests : req[r].at # k
  BY DEF SweepState, Quiet, TypeOK
<1>2. states' \in [Keys -> States \cup {None}] /\ \A j \in Keys \ {k} : states'[j] = states[j]
  BY <1>1
<1>3. ASSUME NEW r \in Requests PROVE Sound(r)'
  <2>1. req[r].at \in Keys \cup {Own} /\ req'[r] = req[r]
    BY <1>1 DEF TypeOK, Runs
  <2> QED
    BY <1>1, <1>2, <2>1 DEF Sound, State, TypeOK
<1> QED
  BY <1>1, <1>2, <1>3 DEF TypeOK, Sound, service

LEMMA TypeStep ==
  ASSUME TypeOK, [Next]_vars
  PROVE  TypeOK'
<1>1. CASE \E r \in Requests : Step(r)
  BY <1>1, StepTypes
<1>2. ASSUME NEW route \in Routes, Remap(route) PROVE TypeOK'
  <2>1. PICK hash \in Hashes : assigned' = [assigned EXCEPT ![route] = hash]
    BY <1>2 DEF Remap
  <2>2. UNCHANGED <<ahead, req, hashes, states, srv, told, breached, overrun, unheard>>
    BY <1>2 DEF Remap
  <2>3. assigned' \in [Routes -> Hashes]
    BY <2>1 DEF TypeOK
  <2> QED
    BY <2>2, <2>3 DEF TypeOK, State
<1>3. ASSUME NEW route \in Routes, SweepHash(route) PROVE TypeOK'
  BY <1>3 DEF SweepHash, service, TypeOK, State
<1>4. CASE \E k \in Keys : SweepState(k)
  BY <1>4, SweepTypes
<1>5. CASE Tick
  BY <1>5, TickTypes
<1>6. CASE UNCHANGED vars
  BY <1>6 DEF vars, TypeOK, State
<1> QED
  BY <1>1, <1>2, <1>3, <1>4, <1>5, <1>6 DEF Next

LEMMA TypeInit == Init => TypeOK
<1> SUFFICES ASSUME Init PROVE TypeOK
  OBVIOUS
<1>1. req \in [Requests -> Runs] /\ \A r \in Requests : req[r] = Idle
  BY Kinds DEF Init
<1>2. \A r \in Requests : State(r) # None /\ req[r].phase # "answered"
  BY <1>1, Kinds DEF State, Idle
<1>3. srv \in [Buckets -> [left : 0 .. Limit, resetIn : 0 .. Window]]
  BY Kinds DEF Init
<1> QED
  BY <1>1, <1>2, <1>3, BucketsAssumption DEF Init, TypeOK

-----------------------------------------------------------------------------
(* What a step of one request does to the line, the others and the windows. *)

Same(o) ==
  /\ req'[o].phase = req[o].phase /\ req'[o].timer = req[o].timer
  /\ req'[o].answer = req[o].answer

OthersSame(r) == \A o \in Requests : o # r => Same(o)

WindowsStay == \A b \in Buckets : srv[b].resetIn > 0 => srv'[b].resetIn = srv[b].resetIn

Joins(r) ==
  /\ req[r].phase = "idle" /\ req'[r].phase = "queued" /\ req'[r].answer = req[r].answer
  /\ ahead' = [ahead EXCEPT ![r] = Queued(Of[r])]

Leaves(r) ==
  /\ req[r].phase # "idle" /\ req'[r] = Idle /\ LeaveLine(r)

Works(r) ==
  /\ ahead[r] = {} \/ Running(r)
  /\ req[r].phase # "idle" /\ req'[r].phase \notin {"idle", "queued"} /\ ahead' = ahead

Moves(r) == OthersSame(r) /\ (Joins(r) \/ Leaves(r) \/ Works(r))

LEMMA WindowKept ==
  ASSUME TypeOK, NEW b \in Buckets, Opened(b).left # 0, Counted(b)
  PROVE  WindowsStay
  BY CountedType, OpenedType DEF WindowsStay

LEMMA LostKeeps ==
  ASSUME TypeOK, NEW r \in Requests, Lost(r)
  PROVE  WindowsStay
<1>1. Bucket(r) \in Buckets
  BY Places
<1>2. CASE UNCHANGED srv
  BY <1>2 DEF WindowsStay
<1>3. CASE Opened(Bucket(r)).left > 0 /\ Counted(Bucket(r))
  BY <1>1, <1>3, WindowKept
<1> QED
  BY <1>2, <1>3 DEF Lost

LEMMA LeaveMoves ==
  ASSUME TypeOK, NEW r \in Requests, Leave(r), UNCHANGED states, req[r].phase # "idle"
  PROVE  Moves(r)
  BY LeaveKeeps DEF Moves, OthersSame, Same, Leaves, Leave

LEMMA CheckMoves ==
  ASSUME TypeOK, NEW r \in Requests, NEW q \in Runs, NEW s \in States, Check(r, q, s),
         req[r].phase # "idle", ahead[r] = {} \/ Running(r)
  PROVE  Moves(r)
<1>1. /\ \A o \in Requests : o # r => req'[o] = req[o]
      /\ SentAway(r) \/ LetThrough(r, q, s) \/ MadeToWait(r, q, s)
  BY CheckKeeps
<1> QED
  BY <1>1 DEF Moves, OthersSame, Same, Leaves, Works, SentAway, LetThrough, MadeToWait

LEMMA DeliverMoves ==
  ASSUME TypeOK, NEW r \in Requests, Deliver(r)
  PROVE  Moves(r)
<1>1. req[r].phase = "answered"
  BY DEF Deliver
<1>2. Hash(r) \in Hashes /\ Route(r) \in Routes
  BY <1>1, AnswerTypes, Kinds
<1>3. /\ \A o \in Requests : o # r => req'[o] = Followed(req[o], Route(r), Hash(r))
      /\ (req'[r] = Idle /\ LeaveLine(r)) \/ Retried(r)
  BY DeliverKeeps
<1>4. OthersSame(r)
  BY <1>2, <1>3, FollowedKept DEF OthersSame, Same
<1> QED
  BY <1>1, <1>3, <1>4 DEF Moves, Leaves, Works, Running, Retried

LEMMA StepMoves ==
  ASSUME TypeOK, NEW r \in Requests, Step(r)
  PROVE  Moves(r)
<1>1. req[r] \in Runs /\ State(r) \in States /\ req \in [Requests -> Runs]
      /\ AssumeFresh(State(r)) \in States
  BY Places, Fresh DEF TypeOK
<1>2. CASE Enqueue(r)
  BY <1>1, <1>2 DEF Enqueue, Moves, OthersSame, Same, Joins, Runs
<1>3. CASE Begin(r)
  <2>1. /\ Check(r, [req[r] EXCEPT !.at = StateKey(r)], BeginState(r))
        /\ req[r].phase # "idle" /\ ahead[r] = {}
    BY <1>3 DEF Begin, BeginState, FirstInLine
  <2> QED
    BY <2>1, BeginTypes, CheckMoves
<1>4. CASE Wake(r)
  <2> DEFINE q == [req[r] EXCEPT !.phase = "ready"]
  <2>1. q \in Runs /\ q.phase = "ready"
    BY <1>1 DEF Runs, Phases
  <2>2. Put(r, q, AssumeFresh(State(r))) /\ ahead' = ahead /\ req[r].phase = "asleep"
    BY <1>4 DEF Wake
  <2> HIDE DEF q
  <2>3. req'[r].phase = "ready" /\ \A o \in Requests : o # r => req'[o] = req[o]
    BY <1>1, <2>1, <2>2, PutTypes
  <2> QED
    BY <2>2, <2>3 DEF Moves, OthersSame, Same, Works, Running
<1>5. CASE Send(r)
  <2> DEFINE q == [req[r] EXCEPT !.phase = "sent"]
             s == [State(r) EXCEPT !.remaining = @ - 1]
  <2>1. q \in Runs /\ q.phase = "sent"
    BY <1>1 DEF Runs, Phases
  <2>2. s \in States
    BY <1>1, Kinds DEF States
  <2>3. Put(r, q, s) /\ ahead' = ahead /\ req[r].phase = "ready"
    BY <1>5 DEF Send
  <2> HIDE DEF q, s
  <2>4. req'[r].phase = "sent" /\ \A o \in Requests : o # r => req'[o] = req[o]
    BY <2>1, <2>2, <2>3, PutTypes
  <2> QED
    BY <2>3, <2>4 DEF Moves, OthersSame, Same, Works, Running
<1>6. CASE Deliver(r)
  BY <1>6, DeliverMoves
<1>7. CASE Throttled(r)
  <2>1. req[r].phase = "sent" /\ UNCHANGED states
    BY <1>7 DEF Throttled
  <2>2. CASE Leave(r)
    BY <2>1, <2>2, LeaveMoves
  <2>3. CASE /\ UNCHANGED ahead
             /\ req' = [req EXCEPT ![r] = [Again(@) EXCEPT !.phase = "asleep", !.timer = 0]]
    BY <1>1, <2>1, <2>3 DEF Moves, OthersSame, Same, Works, Running, Again, Runs
  <2> QED
    BY <1>7, <2>2, <2>3 DEF Throttled
<1>8. CASE Serve(r)
  <2>1. PICK q : req' = [req EXCEPT ![r].phase = "answered", ![r].answer = q]
    BY <1>8 DEF Serve
  <2>2. ahead' = ahead /\ req[r].phase = "sent"
    BY <1>8 DEF Serve
  <2> QED
    BY <1>1, <2>1, <2>2 DEF Moves, OthersSame, Same, Works, Running, Runs
<1>9. CASE Fail(r)
  <2>1. req[r].phase = "sent" /\ UNCHANGED states
    BY <1>9 DEF Fail
  <2>2. CASE Leave(r)
    BY <2>1, <2>2, LeaveMoves
  <2>3. CASE /\ UNCHANGED ahead
             /\ req' = [req EXCEPT ![r] = [Again(@) EXCEPT !.phase = "backoff"]]
    BY <1>1, <2>1, <2>3 DEF Moves, OthersSame, Same, Works, Running, Again, Runs
  <2> QED
    BY <1>9, <2>2, <2>3 DEF Fail
<1>10. CASE BackedOff(r)
  <2>1. Check(r, req[r], State(r)) /\ req[r].phase = "backoff"
    BY <1>10 DEF BackedOff
  <2> QED
    BY <1>1, <2>1, CheckMoves DEF Running
<1>11. CASE Abandon(r)
  BY <1>11, LeaveMoves DEF Abandon
<1> QED
  BY <1>2, <1>3, <1>4, <1>5, <1>6, <1>7, <1>8, <1>9, <1>10, <1>11 DEF Step

LEMMA StepWindows ==
  ASSUME TypeOK, NEW r \in Requests, Step(r)
  PROVE  WindowsStay
<1>1. CASE Serve(r)
  <2>1. Bucket(r) \in Buckets
    BY Places
  <2>2. CASE Opened(Bucket(r)).left = 0
    BY <1>1, <2>2 DEF Serve, WindowsStay
  <2>3. CASE Opened(Bucket(r)).left # 0
    BY <1>1, <2>1, <2>3, WindowKept DEF Serve
  <2> QED
    BY <2>2, <2>3
<1>2. CASE Fail(r) \/ (Abandon(r) /\ Lost(r))
  BY <1>2, LostKeeps DEF Fail
<1>3. CASE UNCHANGED srv
  BY <1>3 DEF WindowsStay
<1> QED
  BY <1>1, <1>2, <1>3
  DEF Step, Enqueue, Begin, Wake, Send, Deliver, Throttled, BackedOff, Abandon, service

-----------------------------------------------------------------------------
(* The queues.                                                             *)

LEMMA LineStep ==
  ASSUME TypeOK, OneAtWork, [Next]_vars
  PROVE  OneAtWork'
<1>1. ahead \in [Requests -> SUBSET Requests]
  BY DEF TypeOK
<1>2. ASSUME NEW r \in Requests, OthersSame(r), Joins(r) PROVE OneAtWork'
  BY <1>1, <1>2 DEF OthersSame, Same, Joins, OneAtWork, Queued, Running
<1>3. ASSUME NEW r \in Requests, OthersSame(r), Leaves(r) PROVE OneAtWork'
  BY <1>1, <1>3 DEF OthersSame, Same, Leaves, OneAtWork, Queued, Running, LeaveLine, Idle
<1>4. ASSUME NEW r \in Requests, OthersSame(r), Works(r) PROVE OneAtWork'
  BY <1>1, <1>4 DEF OthersSame, Same, Works, OneAtWork, Queued, Running
<1>5. CASE \E r \in Requests : Step(r)
  BY <1>2, <1>3, <1>4, <1>5, StepMoves DEF Moves
<1>6. CASE ahead' = ahead /\ \A r \in Requests : req'[r].phase = req[r].phase
  BY <1>6 DEF OneAtWork, Queued, Running
<1>7. CASE Tick
  <2>1. \A r \in Requests : req'[r].phase = req[r].phase
    BY <1>7 DEF Tick, TypeOK, Runs
  <2> QED
    BY <1>6, <1>7, <2>1 DEF Tick
<1> QED
  BY <1>5, <1>6, <1>7 DEF Next, Remap, SweepHash, SweepState, vars

-----------------------------------------------------------------------------
(* Refusals.                                                               *)

Heard(r) ==
  LET a == req[r].answer
  IN /\ a.current => a.bucket \in Buckets /\ srv[a.bucket].resetIn \in 1 .. a.resetIn
     /\ a.limited /\ a.current =>
          \/ req[r].phase = "answered"
          \/ req[r].phase = "asleep" /\ srv[a.bucket].resetIn <= req[r].timer

\* No window that refused the request is open.
Free(r) == ~(req[r].answer.limited /\ req[r].answer.current)

LEMMA HeardKept ==
  ASSUME TypeOK, NEW r \in Requests, Heard(r), WindowsStay, req'[r].answer = req[r].answer,
         Free(r) \/ (req'[r].phase = req[r].phase /\ req'[r].timer = req[r].timer)
  PROVE  Heard(r)'
  BY DEF Heard, Free, WindowsStay

LEMMA IdleHeard ==
  ASSUME NEW r \in Requests, req'[r] = Idle
  PROVE  Heard(r)'
  BY DEF Heard, Idle, NoAnswer

LEMMA CheckHeard ==
  ASSUME TypeOK, NEW r \in Requests, NEW q \in Runs, NEW s \in States, Check(r, q, s),
         Heard(r), Free(r), WindowsStay, q.answer = req[r].answer
  PROVE  Heard(r)'
<1>1. req'[r] = Idle \/ req'[r].answer = q.answer
  BY CheckKeeps DEF SentAway
<1> QED
  BY <1>1, HeardKept, IdleHeard

\* A 429 sleeps out its window, anything else does not matter.
LEMMA DeliverHeard ==
  ASSUME TypeOK, NEW r \in Requests, Deliver(r), Heard(r)
  PROVE  Heard(r)'
<1>1. req[r].phase = "answered" /\ srv' = srv
  BY DEF Deliver
<1>2. req'[r] = Idle \/ Retried(r)
  BY DeliverKeeps
<1>3. req[r].answer.resetIn \in 0 .. Window /\ Window \in Nat
  BY <1>1, AnswerTypes, Kinds DEF Answers
<1>4. CASE Retried(r)
  BY <1>1, <1>3, <1>4 DEF Heard, Retried
<1> QED
  BY <1>2, <1>4, IdleHeard

LEMMA ServeHeard ==
  ASSUME TypeOK, NEW r \in Requests, Serve(r)
  PROVE  Heard(r)'
<1> DEFINE b == Bucket(r)
           a == [bucket |-> b, limited |-> Opened(b).left = 0, current |-> TRUE,
                 remaining |-> IF Opened(b).left = 0 THEN 0 ELSE Opened(b).left - 1,
                 resetIn |-> Opened(b).resetIn]
           q == [req[r] EXCEPT !.phase = "answered", !.answer = a]
<1>1. req \in [Requests -> Runs] /\ b \in Buckets
  BY Places DEF TypeOK
<1>2. req' = [req EXCEPT ![r] = q]
  BY <1>1 DEF Serve
<1>3. a.bucket = b /\ a.resetIn = Opened(b).resetIn
  OBVIOUS
<1> HIDE DEF a
<1>4. req'[r].phase = "answered" /\ req'[r].answer = a
  BY <1>1, <1>2 DEF Runs
<1>5. Opened(b).resetIn \in 1 .. Window
  BY <1>1, OpenedType
<1>6. srv'[b].resetIn = Opened(b).resetIn
  <2>1. CASE Opened(b).left = 0
    BY <2>1, Kinds DEF Serve, Opened
  <2>2. CASE Opened(b).left # 0
    BY <1>1, <2>2, CountedType DEF Serve
  <2> QED
    BY <2>1, <2>2
<1> QED
  BY <1>1, <1>3, <1>4, <1>5, <1>6 DEF Heard

LEMMA StepHeard ==
  ASSUME TypeOK, NEW r \in Requests, Step(r), \A o \in Requests : Heard(o), NEW o \in Requests
  PROVE  Heard(o)'
<1>1. /\ req[r] \in Runs /\ State(r) \in States /\ req \in [Requests -> Runs]
      /\ AssumeFresh(State(r)) \in States /\ WindowsStay /\ OthersSame(r)
  BY Places, Fresh, StepMoves, StepWindows DEF TypeOK, Moves
<1>2. CASE o # r
  BY <1>1, <1>2, HeardKept DEF OthersSame, Same
<1>3. CASE o = r
  <2>1. CASE Leaves(r)
    BY <1>3, <2>1, IdleHeard DEF Leaves
  <2>2. req[r].phase \notin {"answered", "asleep"} => Free(r)
    BY DEF Heard, Free
  <2>3. CASE Enqueue(r)
    <3>1. req'[r].answer = req[r].answer /\ req[r].phase = "idle"
      BY <1>1, <2>3 DEF Enqueue, Runs
    <3> QED
      BY <1>1, <1>3, <2>2, <3>1, HeardKept
  <2>4. CASE Begin(r)
    <3> DEFINE q == [req[r] EXCEPT !.at = StateKey(r)]
    <3>1. Check(r, q, BeginState(r)) /\ req[r].phase = "queued"
      BY <2>4 DEF Begin, BeginState
    <3>2. q \in Runs /\ q.answer = req[r].answer
      BY <1>1, BeginTypes DEF Runs
    <3> HIDE DEF q
    <3> QED
      BY <1>1, <1>3, <2>2, <3>1, <3>2, BeginTypes, CheckHeard
  <2>5. CASE Wake(r)
    <3> DEFINE q == [req[r] EXCEPT !.phase = "ready"]
    <3>1. q \in Runs /\ q.phase = "ready" /\ q.answer = req[r].answer
      BY <1>1 DEF Runs, Phases
    <3>2. Put(r, q, AssumeFresh(State(r))) /\ req[r].phase = "asleep" /\ req[r].timer = 0
      BY <2>5 DEF Wake
    <3> HIDE DEF q
    <3>3. req'[r].answer = req[r].answer
      BY <1>1, <3>1, <3>2, PutTypes
    <3>4. Free(r)
      BY <3>2 DEF Heard, Free, TypeOK
    <3> QED
      BY <1>1, <1>3, <3>3, <3>4, HeardKept
  <2>6. CASE Send(r)
    <3> DEFINE q == [req[r] EXCEPT !.phase = "sent"]
               s == [State(r) EXCEPT !.remaining = @ - 1]
    <3>1. q \in Runs /\ q.phase = "sent" /\ q.answer = req[r].answer
      BY <1>1 DEF Runs, Phases
    <3>2. s \in States
      BY <1>1, Kinds DEF States
    <3>3. Put(r, q, s) /\ req[r].phase = "ready"
      BY <2>6 DEF Send
    <3> HIDE DEF q, s
    <3>4. req'[r].answer = req[r].answer
      BY <1>1, <3>1, <3>2, <3>3, PutTypes
    <3> QED
      BY <1>1, <1>3, <2>2, <3>3, <3>4, HeardKept
  <2>7. CASE Deliver(r)
    BY <1>3, <2>7, DeliverHeard
  <2>8. CASE req' = [req EXCEPT ![r] = [Again(@) EXCEPT !.phase = "asleep", !.timer = 0]]
             /\ req[r].phase = "sent"
    <3>1. req'[r].answer = req[r].answer
      BY <1>1, <2>8 DEF Again, Runs
    <3> QED
      BY <1>1, <1>3, <2>2, <2>8, <3>1, HeardKept
  <2>9. CASE req' = [req EXCEPT ![r] = [Again(@) EXCEPT !.phase = "backoff"]]
             /\ req[r].phase = "sent"
    <3>1. req'[r].answer = req[r].answer
      BY <1>1, <2>9 DEF Again, Runs
    <3> QED
      BY <1>1, <1>3, <2>2, <2>9, <3>1, HeardKept
  <2>10. CASE Serve(r)
    BY <1>3, <2>10, ServeHeard
  <2>11. CASE BackedOff(r)
    <3>1. Check(r, req[r], State(r)) /\ req[r].phase = "backoff"
      BY <2>11 DEF BackedOff
    <3> QED
      BY <1>1, <1>3, <2>2, <3>1, CheckHeard
  <2>12. CASE Leave(r)
    BY <1>1, <1>3, <2>12, IdleHeard DEF Leave
  <2> QED
    BY <2>3, <2>4, <2>5, <2>6, <2>7, <2>8, <2>9, <2>10, <2>11, <2>12
    DEF Step, Throttled, Fail, Abandon
<1> QED
  BY <1>2, <1>3

LEMMA TickRequest ==
  ASSUME TypeOK, Tick, NEW r \in Requests, NEW q, q = req[r], NEW p, p = req'[r]
  PROVE  /\ p.phase = q.phase /\ p.at = q.at /\ p.timer = Sooner(q.timer)
         /\ p.answer.bucket = q.answer.bucket /\ p.answer.limited = q.answer.limited
         /\ p.answer.remaining = q.answer.remaining /\ p.answer.resetIn = q.answer.resetIn
         /\ p.answer.current => q.answer.current /\ srv[q.answer.bucket].resetIn > 1
<1> DEFINE a == [q.answer EXCEPT !.current = @ /\ srv[q.answer.bucket].resetIn > 1]
<1>1. q \in Runs /\ q.answer \in Answers
  BY DEF TypeOK, Runs
<1>2. /\ a.bucket = q.answer.bucket /\ a.limited = q.answer.limited
      /\ a.remaining = q.answer.remaining /\ a.resetIn = q.answer.resetIn
      /\ a.current => q.answer.current /\ srv[q.answer.bucket].resetIn > 1
  BY <1>1 DEF Answers
<1>3. p = [q EXCEPT !.timer = Sooner(q.timer), !.own = Later(q.own), !.answer = a]
  BY DEF Tick
<1> HIDE DEF a
<1>4. p.phase = q.phase /\ p.at = q.at /\ p.timer = Sooner(q.timer) /\ p.answer = a
  BY <1>1, <1>3 DEF Runs
<1> QED
  BY <1>2, <1>4

LEMMA TickWindow ==
  ASSUME TypeOK, Tick, NEW b \in Buckets
  PROVE  /\ srv[b].resetIn \in 0 .. Window
         /\ IF srv[b].resetIn > 1
            THEN srv'[b].resetIn = srv[b].resetIn - 1 /\ srv'[b].left = srv[b].left
            ELSE srv'[b].resetIn = 0
<1>1. srv[b] \in [left : 0 .. Limit, resetIn : 0 .. Window] /\ Window \in Nat
  BY Kinds DEF TypeOK
<1>2. srv' = [c \in Buckets |-> IF srv[c].resetIn <= 1 THEN [left |-> 0, resetIn |-> 0]
                                ELSE [srv[c] EXCEPT !.resetIn = @ - 1]]
  BY DEF Tick
<1>3. srv'[b] = IF srv[b].resetIn <= 1 THEN [left |-> 0, resetIn |-> 0]
                ELSE [srv[b] EXCEPT !.resetIn = @ - 1]
  BY <1>2
<1> QED
  BY <1>1, <1>3

LEMMA TickHeard ==
  ASSUME TypeOK, Tick, NEW r \in Requests, Heard(r)
  PROVE  Heard(r)'
<1> DEFINE q == req[r]
           p == req'[r]
           b == q.answer.bucket
<1>1. /\ p.phase = q.phase /\ p.timer = Sooner(q.timer)
      /\ p.answer.bucket = b /\ p.answer.limited = q.answer.limited
      /\ p.answer.resetIn = q.answer.resetIn
      /\ p.answer.current => q.answer.current /\ srv[b].resetIn > 1
  BY TickRequest
<1>2. q.timer \in 0 .. Window /\ q.answer.resetIn \in 0 .. Window /\ Window \in Nat
  BY Kinds DEF TypeOK, Runs, Answers
<1>3. CASE ~p.answer.current
  BY <1>3 DEF Heard
<1>4. CASE p.answer.current
  <2>1. b \in Buckets /\ srv[b].resetIn > 1 /\ srv[b].resetIn \in 1 .. q.answer.resetIn
    BY <1>1, <1>4 DEF Heard
  <2>2. srv'[b].resetIn = srv[b].resetIn - 1
    BY <2>1, TickWindow
  <2>3. srv[b].resetIn <= q.timer => srv[b].resetIn - 1 <= Sooner(q.timer)
    BY <1>2, <2>1 DEF Sooner
  <2>4. q.answer.limited => q.phase = "answered" \/ (q.phase = "asleep" /\ srv[b].resetIn <= q.timer)
    BY <1>1, <1>4 DEF Heard
  <2> QED
    BY <1>1, <1>2, <2>1, <2>2, <2>3, <2>4 DEF Heard
<1> QED
  BY <1>3, <1>4

LEMMA RefusalStep ==
  ASSUME TypeOK, RefusalsHeard, [Next]_vars
  PROVE  RefusalsHeard'
<1>1. \A r \in Requests : Heard(r)
  BY DEF RefusalsHeard, Heard
<1>2. \A r \in Requests : Heard(r)'
  <2>1. CASE \E r \in Requests : Step(r)
    BY <1>1, <2>1, StepHeard
  <2>2. CASE UNCHANGED <<req, srv>>
    BY <1>1, <2>2 DEF Heard
  <2>3. CASE Tick
    BY <1>1, <2>3, TickHeard
  <2> QED
    BY <2>1, <2>2, <2>3 DEF Next, Remap, SweepHash, SweepState, service, vars
<1> QED
  BY <1>2 DEF RefusalsHeard, Heard

Inv == TypeOK /\ OneAtWork /\ RefusalsHeard

LEMMA InvInit == Init => Inv
<1> SUFFICES ASSUME Init PROVE Inv
  OBVIOUS
<1>1. \A r \in Requests : req[r] = Idle /\ ahead[r] = {}
  BY DEF Init
<1>2. OneAtWork /\ RefusalsHeard
  BY <1>1 DEF OneAtWork, RefusalsHeard, Queued, Running, Idle, NoAnswer
<1> QED
  BY <1>2, TypeInit DEF Inv

LEMMA InvHolds == Spec => []Inv
<1>1. Init => Inv
  BY InvInit
<1>2. Inv /\ [Next]_vars => Inv'
  BY TypeStep, LineStep, RefusalStep DEF Inv
<1> QED
  BY <1>1, <1>2, PTL DEF Spec

\* A step is one of FifoLock in the queue it is in, and none in the others.
LEMMA QueuesStep ==
  ASSUME TypeOK, OneAtWork, [Next]_vars, NEW i \in Queues
  PROVE  [Queue(i)!Next]_<<Queued(i), AtWork(i), Order(i)>>
<1> DEFINE Stays == UNCHANGED <<Queued(i), AtWork(i), Order(i)>>
<1>1. ahead \in [Requests -> SUBSET Requests]
  BY DEF TypeOK
<1>2. ASSUME ahead' = ahead,
             \A r \in Requests : /\ req'[r].phase = "idle" <=> req[r].phase = "idle"
                                 /\ Running(r)' <=> Running(r)
      PROVE  Stays
  BY <1>2 DEF Queued, AtWork, Order, Users
<1>3. ASSUME NEW r \in Requests, OthersSame(r), Joins(r)
      PROVE  Queue(i)!Next \/ Stays
  <2>1. /\ req[r].phase = "idle" /\ req'[r].phase = "queued"
        /\ \A o \in Requests : o # r => req'[o].phase = req[o].phase
        /\ ahead' = [ahead EXCEPT ![r] = Queued(Of[r])]
    BY <1>3 DEF OthersSame, Same, Joins
  <2>2. AtWork(i)' = AtWork(i)
    BY <2>1 DEF AtWork, Running, Users
  <2>3. CASE Of[r] = i
    <3>1. r \in Users(i) /\ r \notin Queued(i) /\ Queued(i)' = Queued(i) \cup {r}
      BY <2>1, <2>3 DEF Queued, Users
    <3>2. Order(i)' = [Order(i) EXCEPT ![r] = Queued(i)]
      BY <1>1, <2>1, <2>3 DEF Order, Users
    <3> QED
      BY <2>2, <3>1, <3>2 DEF Queue!Next, Queue!Join
  <2>4. CASE Of[r] # i
    <3>1. Queued(i)' = Queued(i)
      BY <2>1, <2>4 DEF Queued
    <3>2. Order(i)' = Order(i)
      BY <1>1, <2>1, <2>4 DEF Order, Users
    <3> QED
      BY <2>2, <3>1, <3>2
  <2> QED
    BY <2>3, <2>4
<1>4. ASSUME NEW r \in Requests, OthersSame(r), Leaves(r)
      PROVE  Queue(i)!Next \/ Stays
  <2>1. /\ req[r].phase # "idle" /\ req'[r].phase = "idle"
        /\ \A o \in Requests : o # r => req'[o].phase = req[o].phase
        /\ ahead' = [o \in Requests |-> IF o = r THEN {} ELSE ahead[o] \ {r}]
    BY <1>4 DEF OthersSame, Same, Leaves, LeaveLine, Idle
  <2>2. CASE Of[r] = i
    <3>1. r \in Users(i) /\ r \in Queued(i) /\ Queued(i)' = Queued(i) \ {r}
      BY <2>1, <2>2 DEF Queued, Users
    <3>2. AtWork(i)' = AtWork(i) \ {r}
      BY <2>1, <2>2 DEF AtWork, Running, Users
    <3>3. Order(i)' = [o \in Users(i) |-> IF o = r THEN {} ELSE Order(i)[o] \ {r}]
      BY <1>1, <2>1 DEF Order, Users
    <3> QED
      BY <3>1, <3>2, <3>3 DEF Queue!Next, Queue!Leave, Queue!Without
  <2>3. CASE Of[r] # i
    <3>1. Queued(i)' = Queued(i)
      BY <2>1, <2>3 DEF Queued
    <3>2. AtWork(i)' = AtWork(i)
      BY <2>1, <2>3 DEF AtWork, Running, Users
    <3>3. \A o \in Users(i) : r \notin ahead[o] /\ o # r
      BY <2>3 DEF OneAtWork, Users, Queued
    <3>4. Order(i)' = Order(i)
      BY <1>1, <2>1, <3>3 DEF Order, Users
    <3> QED
      BY <3>1, <3>2, <3>4
  <2> QED
    BY <2>2, <2>3
<1>5. ASSUME NEW r \in Requests, OthersSame(r), Works(r)
      PROVE  Queue(i)!Next \/ Stays
  <2>1. /\ req[r].phase # "idle" /\ Running(r)' /\ ahead' = ahead /\ req'[r].phase # "idle"
        /\ \A o \in Requests : o # r => req'[o].phase = req[o].phase
        /\ ahead[r] = {} \/ Running(r)
    BY <1>5 DEF OthersSame, Same, Works, Running
  <2>2. CASE Running(r) \/ Of[r] # i
    BY <2>1, <2>2 DEF Queued, AtWork, Order, Users, Running
  <2>3. CASE ~Running(r) /\ Of[r] = i
    <3>1. Queued(i)' = Queued(i) /\ Order(i)' = Order(i)
      BY <2>1 DEF Queued, Order, Users
    <3>2. /\ r \in Users(i) /\ r \in Queued(i) \ AtWork(i) /\ Order(i)[r] = {}
      BY <2>1, <2>3 DEF Queued, AtWork, Order, Users
    <3>3. AtWork(i)' = AtWork(i) \cup {r}
      BY <2>1, <2>3 DEF AtWork, Users, Running
    <3> QED
      BY <3>1, <3>2, <3>3 DEF Queue!Next, Queue!Grant
  <2> QED
    BY <2>2, <2>3
<1>6. CASE \E r \in Requests : Step(r)
  BY <1>3, <1>4, <1>5, <1>6, StepMoves DEF Moves
<1>7. CASE Tick
  <2>1. \A r \in Requests : req'[r].phase = req[r].phase
    BY <1>7, TickRequest
  <2> QED
    BY <1>2, <1>7, <2>1 DEF Tick, Running
<1>8. CASE ahead' = ahead /\ req' = req
  BY <1>2, <1>8 DEF Running
<1> QED
  BY <1>6, <1>7, <1>8 DEF Next, Remap, SweepHash, SweepState, vars

\* The state of SequentialHandler and BucketRegistry keeps its types.
THEOREM BucketsTypeCorrect == Spec => []TypeOK
<1>1. Inv => TypeOK
  BY DEF Inv
<1> QED
  BY <1>1, InvHolds, PTL

\* Each queue implements FifoLock, as AsyncQueue does: whoever aborts, fails or retries,
\* requests of one route and major parameter get through one at a time and in order.
THEOREM QueuesImplement == Spec => QueuesServeInOrder
<1>1. Init => \A i \in Queues : Queue(i)!Init
  BY DEF Init, Idle, Queue!Init, Queued, AtWork, Order, Users, Running
<1>2. Inv /\ [Next]_vars =>
        [\A i \in Queues : [Queue(i)!Next]_<<Queued(i), AtWork(i), Order(i)>>]_vars
  BY QueuesStep DEF Inv
<1> QED
  BY <1>1, <1>2, InvHolds, PTL DEF Spec, QueuesServeInOrder

\* "Retrying at exactly `retry_after` is how one 429 becomes two": however routes share
\* buckets and are moved between them, a request that a window refused is not sent
\* again until that window is over.
THEOREM RetriesWait == Spec => []RetriesAfterReset
<1>1. Inv => RetriesAfterReset
  BY DEF Inv, RetriesAfterReset, RefusalsHeard
<1> QED
  BY <1>1, InvHolds, PTL

-----------------------------------------------------------------------------
(* Routes with buckets of their own: where their states are.               *)

LEMMA OwnKeys ==
  ASSUME OwnBuckets
  PROVE  /\ First \in [Routes -> Hashes]
         /\ \A i \in Queues : Its(i) \in Keys /\ Its(i) \in Buckets /\ i = <<i[1], i[2]>>
                              /\ i[1] \in Routes /\ i[2] \in Majors
         /\ \A i, j \in Queues : Its(i) = Its(j) => i = j
         /\ \A r \in Requests : Of[r] \in Queues
<1>1. First \in [Routes -> Hashes] /\ \A p, q \in Routes : First[p] = First[q] => p = q
  BY BucketsAssumption DEF OwnBuckets
<1>2. ASSUME NEW i \in Queues
      PROVE  Its(i) \in Keys /\ Its(i) \in Buckets /\ i = <<i[1], i[2]>>
             /\ i[1] \in Routes /\ i[2] \in Majors
  BY <1>1 DEF Queues, Its, Keys, Buckets
<1>3. ASSUME NEW i \in Queues, NEW j \in Queues, Its(i) = Its(j)
      PROVE  i = j
  <2>1. First[i[1]] = First[j[1]] /\ i[2] = j[2]
    BY <1>3 DEF Its
  <2> QED
    BY <1>1, <1>2, <2>1
<1> QED
  BY <1>1, <1>2, <1>3, Kinds DEF Queues

LEMMA OwnPlaces ==
  ASSUME OwnBuckets, TypeOK, OnePlace, NEW r \in Requests
  PROVE  /\ Bucket(r) = Its(Of[r])
         /\ StateKey(r) = IF hashes[Route(r)] = None THEN Of[r] ELSE Its(Of[r])
         /\ \A i \in Queues : i # Of[r] => StateKey(r) # Its(i)
         /\ \A i \in Queues : hashes[i[1]] # None => StateKey(r) # i
<1>1. /\ Of[r] = <<Route(r), Of[r][2]>> /\ Route(r) \in Routes /\ Of[r][2] \in Majors
      /\ Of[r] \in Queues
  BY Kinds DEF Queues
<1>2. assigned = First /\ hashes[Route(r)] \in {None, First[Route(r)]}
  BY <1>1 DEF OnePlace
<1>3. Bucket(r) = Its(Of[r])
  BY <1>2 DEF Bucket, Its, Route
<1>4. StateKey(r) = IF hashes[Route(r)] = None THEN Of[r] ELSE Its(Of[r])
  BY <1>1, <1>2 DEF StateKey, Its, Route
<1>5. \A i \in Queues : Of[r] # Its(i) /\ Its(Of[r]) # i
  <2>1. ASSUME NEW i \in Queues, NEW j \in Queues PROVE j # Its(i)
    <3>1. Its(i)[1] \in Hashes /\ j[1] \in Routes
      BY OwnKeys DEF Its
    <3> QED
      BY <3>1, Kinds
  <2> QED
    BY <1>1, <2>1
<1>6. ASSUME NEW i \in Queues, i # Of[r] PROVE StateKey(r) # Its(i)
  BY <1>1, <1>4, <1>5, <1>6, OwnKeys
<1>7. ASSUME NEW i \in Queues, hashes[i[1]] # None PROVE StateKey(r) # i
  BY <1>4, <1>5, <1>7 DEF Route
<1> QED
  BY <1>3, <1>4, <1>6, <1>7

\* What every step of a request but one does to where states are.
Plain(r) ==
  /\ UNCHANGED <<hashes, assigned>>
  /\ \A o \in Requests : o # r => req'[o] = req[o]
  /\ \A k \in Keys : k # StateKey(r) => states'[k] = states[k]
  /\ Running(r)' => req'[r].at = StateKey(r)
  /\ req'[r].phase = "answered" => req'[r].answer.bucket = Bucket(r)

\* The states of the other queues stay, and so does every hash that is known.
Placed(r) ==
  /\ \A i \in Queues : i # Of[r] /\ hashes[i[1]] # None => states'[Its(i)] = states[Its(i)]
  /\ \A p \in Routes : hashes[p] # None => hashes'[p] = hashes[p]

LEMMA PlainPlaced ==
  ASSUME OwnBuckets, TypeOK, OnePlace, NEW r \in Requests, Plain(r)
  PROVE  OnePlace' /\ Placed(r)
<1>1. Placed(r)
  BY OwnPlaces, OwnKeys DEF Placed, Plain
<1>2. assigned' = First /\ \A p \in Routes : hashes'[p] \in {None, First[p]}
  BY DEF Plain, OnePlace
<1>3. ASSUME NEW p \in Routes, NEW m \in Majors
      PROVE  IF hashes'[p] = None THEN states'[<<First[p], m>>] = None
             ELSE states'[<<p, m>>] = None
  <2> DEFINE i == <<p, m>>
  <2>1. /\ i \in Queues /\ i[1] = p /\ Its(i) = <<First[p], m>>
        /\ i \in Keys /\ Its(i) \in Keys /\ hashes'[p] = hashes[p]
    BY OwnKeys DEF Queues, Its, Keys, Plain
  <2>2. CASE hashes[p] = None
    <3>1. states[Its(i)] = None
      BY <2>1, <2>2 DEF OnePlace
    <3>2. StateKey(r) # Its(i)
      <4>1. CASE Of[r] = i
        <5>1. StateKey(r) = i
          BY <2>1, <2>2, <4>1, OwnPlaces DEF Route
        <5>2. i[1] \in Routes /\ Its(i)[1] \in Hashes
          BY <2>1, OwnKeys DEF Its
        <5> QED
          BY <5>1, <5>2, Kinds
      <4>2. CASE Of[r] # i
        BY <2>1, <4>2, OwnPlaces
      <4> QED
        BY <4>1, <4>2
    <3> QED
      BY <2>1, <2>2, <3>1, <3>2 DEF Plain
  <2>3. CASE hashes[p] # None
    <3>1. states[i] = None
      BY <2>3 DEF OnePlace
    <3>2. StateKey(r) # i
      BY <2>1, <2>3, OwnPlaces
    <3> QED
      BY <2>1, <2>3, <3>1, <3>2 DEF Plain
  <2> QED
    BY <2>2, <2>3
<1>4. ASSUME NEW o \in Requests
      PROVE  /\ Running(o)' => req'[o].at = StateKey(o)'
             /\ req'[o].phase = "answered" => req'[o].answer.bucket = Bucket(o)'
  <2>1. StateKey(o)' = StateKey(o) /\ Bucket(o)' = Bucket(o)
    BY DEF Plain, StateKey, Bucket, Route
  <2>2. CASE o = r
    BY <2>1, <2>2 DEF Plain
  <2>3. CASE o # r
    BY <2>1, <2>3 DEF Plain, OnePlace, Running
  <2> QED
    BY <2>2, <2>3
<1>5. OnePlace'
  BY <1>2, <1>3, <1>4 DEF OnePlace
<1> QED
  BY <1>1, <1>5

LEMMA CheckPlain ==
  ASSUME TypeOK, NEW r \in Requests, NEW q \in Runs, NEW s \in States, Check(r, q, s),
         q.at = StateKey(r), UNCHANGED <<hashes, assigned>>
  PROVE  Plain(r)
<1>1. /\ \A o \in Requests : o # r => req'[o] = req[o]
      /\ \A k \in Keys \ {q.at} : states'[k] = states[k]
      /\ \/ SentAway(r)
         \/ (LetThrough(r, q, s) \/ MadeToWait(r, q, s)) /\ req'[r].at = q.at
  BY CheckKeeps
<1> QED
  BY <1>1 DEF Plain, Running, SentAway, LetThrough, MadeToWait, Idle

LEMMA PutPlain ==
  ASSUME TypeOK, NEW r \in Requests, NEW q \in Runs, NEW s \in States, Put(r, q, s),
         q.phase # "answered", q.at = StateKey(r), UNCHANGED <<hashes, assigned>>
  PROVE  Plain(r)
<1>1. /\ \A o \in Requests : o # r => req'[o] = req[o]
      /\ \A k \in Keys \ {q.at} : states'[k] = states[k]
      /\ req'[r].at = q.at /\ req'[r].phase = q.phase
  BY PutTypes
<1> QED
  BY <1>1 DEF Plain

LEMMA ReplacePlain ==
  ASSUME TypeOK, OnePlace, NEW r \in Requests, NEW q, req' = [req EXCEPT ![r] = q],
         UNCHANGED <<hashes, assigned, states>>,
         q.phase \notin {"idle", "queued"} => q.at = StateKey(r),
         q.phase = "answered" => q.answer.bucket = Bucket(r)
  PROVE  Plain(r)
  BY DEF Plain, TypeOK, Running

LEMMA StepPlain ==
  ASSUME OwnBuckets, TypeOK, OnePlace, NEW r \in Requests, Step(r), ~Deliver(r)
  PROVE  Plain(r)
<1>1. req[r] \in Runs /\ State(r) \in States /\ AssumeFresh(State(r)) \in States
      /\ req \in [Requests -> Runs]
  BY Places, Fresh DEF TypeOK
<1>2. Running(r) => req[r].at = StateKey(r)
  BY DEF OnePlace
<1>3. UNCHANGED <<hashes, assigned>>
  BY DEF Step, Enqueue, Begin, Wake, Send, Throttled, Serve, Fail, BackedOff, Abandon, Lost, service
<1>4. CASE Enqueue(r)
  BY <1>1, <1>3, <1>4 DEF Enqueue, Plain, Running, Runs
<1>5. CASE Begin(r)
  <2> DEFINE q == [req[r] EXCEPT !.at = StateKey(r)]
  <2>1. q.at = StateKey(r) /\ q \in Runs /\ Check(r, q, BeginState(r))
    BY <1>1, <1>5, BeginTypes DEF Begin, BeginState, Runs
  <2> HIDE DEF q
  <2> QED
    BY <1>3, <2>1, BeginTypes, CheckPlain
<1>6. CASE Wake(r)
  <2> DEFINE q == [req[r] EXCEPT !.phase = "ready"]
  <2>1. q \in Runs /\ q.phase = "ready" /\ q.at = req[r].at
    BY <1>1 DEF Runs, Phases
  <2>2. Put(r, q, AssumeFresh(State(r))) /\ Running(r)
    BY <1>6 DEF Wake, Running
  <2> HIDE DEF q
  <2> QED
    BY <1>1, <1>2, <1>3, <2>1, <2>2, PutPlain
<1>7. CASE Send(r)
  <2> DEFINE q == [req[r] EXCEPT !.phase = "sent"]
             s == [State(r) EXCEPT !.remaining = @ - 1]
  <2>1. q \in Runs /\ q.phase = "sent" /\ q.at = req[r].at
    BY <1>1 DEF Runs, Phases
  <2>2. s \in States
    BY <1>1, Kinds DEF States
  <2>3. Put(r, q, s) /\ Running(r)
    BY <1>7 DEF Send, Running
  <2> HIDE DEF q, s
  <2> QED
    BY <1>1, <1>2, <1>3, <2>1, <2>2, <2>3, PutPlain
<1>8. CASE Leave(r) /\ UNCHANGED states
  BY <1>3, <1>8, ReplacePlain DEF Leave, Idle
<1>9. CASE /\ req' = [req EXCEPT ![r] = [Again(@) EXCEPT !.phase = "asleep", !.timer = 0]]
           /\ UNCHANGED states /\ req[r].phase = "sent"
  <2> DEFINE q == [Again(req[r]) EXCEPT !.phase = "asleep", !.timer = 0]
  <2>1. q.phase = "asleep" /\ q.at = req[r].at /\ req' = [req EXCEPT ![r] = q]
    BY <1>1, <1>9 DEF Again, Runs
  <2> HIDE DEF q
  <2> QED
    BY <1>2, <1>3, <1>9, <2>1, ReplacePlain DEF Running
<1>10. CASE /\ req' = [req EXCEPT ![r] = [Again(@) EXCEPT !.phase = "backoff"]]
            /\ UNCHANGED states /\ req[r].phase = "sent"
  <2> DEFINE q == [Again(req[r]) EXCEPT !.phase = "backoff"]
  <2>1. q.phase = "backoff" /\ q.at = req[r].at /\ req' = [req EXCEPT ![r] = q]
    BY <1>1, <1>10 DEF Again, Runs
  <2> HIDE DEF q
  <2> QED
    BY <1>2, <1>3, <1>10, <2>1, ReplacePlain DEF Running
<1>11. CASE Serve(r)
  <2> DEFINE a == [bucket |-> Bucket(r), limited |-> Opened(Bucket(r)).left = 0, current |-> TRUE,
                   remaining |-> IF Opened(Bucket(r)).left = 0 THEN 0 ELSE Opened(Bucket(r)).left - 1,
                   resetIn |-> Opened(Bucket(r)).resetIn]
             q == [req[r] EXCEPT !.phase = "answered", !.answer = a]
  <2>1. req' = [req EXCEPT ![r] = q] /\ UNCHANGED states /\ req[r].phase = "sent"
    BY <1>1, <1>11 DEF Serve
  <2>2. a.bucket = Bucket(r)
    OBVIOUS
  <2> HIDE DEF a
  <2>3. q.at = req[r].at /\ q.answer = a
    BY <1>1 DEF Runs
  <2> HIDE DEF q
  <2> QED
    BY <1>2, <1>3, <2>1, <2>2, <2>3, ReplacePlain DEF Running
<1>12. CASE BackedOff(r)
  <2>1. Check(r, req[r], State(r)) /\ Running(r)
    BY <1>12 DEF BackedOff, Running
  <2> QED
    BY <1>1, <1>2, <1>3, <2>1, CheckPlain
<1> QED
  BY <1>4, <1>5, <1>6, <1>7, <1>8, <1>9, <1>10, <1>11, <1>12
  DEF Step, Throttled, Fail, Abandon

\* The first answer tells a route its bucket, and nothing has been there yet.
LEMMA MigratedOwn ==
  ASSUME OwnBuckets, TypeOK, OnePlace, NEW route \in Routes, hashes[route] = None
  PROVE  /\ \A p \in Routes \ {route}, m \in Majors :
              /\ Migrated(route, First[route])[<<p, m>>] = states[<<p, m>>]
              /\ Migrated(route, First[route])[<<First[p], m>>] = states[<<First[p], m>>]
         /\ \A m \in Majors : Migrated(route, First[route])[<<route, m>>] = None
<1>1. /\ \A p \in Routes : First[p] \in Hashes /\ First[p] \notin Routes
      /\ \A p \in Routes : First[p] = First[route] => p = route
      /\ hashes[route] # First[route]
  BY OwnKeys, Kinds DEF OwnBuckets
<1>2. \A p \in Routes, m \in Majors :
        <<p, m>> \in Keys /\ <<First[p], m>> \in Keys
  BY <1>1 DEF Keys
<1> QED
  BY <1>1, <1>2 DEF Migrated

LEMMA FollowedOwn ==
  ASSUME OwnBuckets, TypeOK, OnePlace, NEW route \in Routes, hashes[route] = None,
         hashes' = [hashes EXCEPT ![route] = First[route]],
         NEW o \in Requests, Running(o)
  PROVE  Followed(req[o], route, First[route]).at = StateKey(o)'
<1>1. /\ Of[o] = <<Route(o), Of[o][2]>> /\ Route(o) \in Routes /\ Of[o][2] \in Majors
      /\ req[o] \in Runs /\ req[o].at = StateKey(o)
      /\ hashes \in [Routes -> Hashes \cup {None}]
      /\ First[route] \in Hashes /\ First[route] # None /\ hashes[route] # First[route]
  BY Kinds, OwnKeys DEF TypeOK, OnePlace
<1>2. CASE Route(o) = route
  <2>1. req[o].at = <<route, Of[o][2]>> /\ StateKey(o)' = <<First[route], Of[o][2]>>
    BY <1>1, <1>2 DEF StateKey, Route
  <2>2. states[<<First[route], Of[o][2]>>] = None
    BY <1>1 DEF OnePlace
  <2> QED
    BY <1>1, <2>1, <2>2 DEF Followed, Runs
<1>3. CASE Route(o) # route
  <2>1. StateKey(o)' = StateKey(o)
    BY <1>1, <1>3 DEF StateKey, Route
  <2>2. StateKey(o)[1] # route
    BY <1>1, <1>3, Kinds DEF StateKey
  <2> QED
    BY <1>1, <2>1, <2>2 DEF Followed
<1> QED
  BY <1>2, <1>3

LEMMA DeliverPlaced ==
  ASSUME OwnBuckets, TypeOK, OnePlace, NEW r \in Requests, Deliver(r)
  PROVE  /\ OnePlace' /\ Placed(r)
         /\ hashes'[Route(r)] # None /\ states'[Its(Of[r])] = Headers(r)
<1> DEFINE route == Route(r)
           hash == Hash(r)
           at == Place(r)
           s == Headers(r)
<1>1. /\ req[r].phase = "answered" /\ Running(r) /\ req[r].at = StateKey(r)
      /\ req[r].answer.bucket = Its(Of[r]) /\ req[r] \in Runs /\ assigned' = assigned
  BY OwnPlaces DEF Deliver, Running, OnePlace, TypeOK
<1>2. /\ Of[r] = <<route, Of[r][2]>> /\ route \in Routes /\ Of[r] \in Queues
      /\ hash = First[route] /\ hash \in Hashes /\ hash # None /\ Its(Of[r]) \in Keys
      /\ Its(Of[r]) # Own
  BY <1>1, Kinds, OwnKeys DEF Its, Route, Hash
<1>3. (req'[r] = Idle /\ LeaveLine(r)) \/ Retried(r)
  BY DeliverKeeps
<1>4. at = Followed(req[r], route, hash).at
  BY DEF Place
<1>5. /\ hashes' = [hashes EXCEPT ![route] = hash]
      /\ at \in Keys \cup {Own}
      /\ states' = IF at = Own THEN Migrated(route, hash) ELSE [Migrated(route, hash) EXCEPT ![at] = s]
      /\ \A o \in Requests : o # r => req'[o] = Followed(req[o], route, hash)
  BY DeliverKeeps
<1>6. /\ hashes \in [Routes -> Hashes \cup {None}] /\ states \in [Keys -> States \cup {None}]
      /\ Migrated(route, hash) \in [Keys -> States \cup {None}]
      /\ hashes[route] \in {None, hash}
  BY <1>2, MigratedType DEF TypeOK, OnePlace
<1>7. /\ req'[r].phase # "answered"
      /\ Running(r)' => req'[r].at = at
  BY <1>3 DEF Running, Idle, Retried
<1>8. hashes'[route] = hash
  BY <1>2, <1>5, <1>6
<1>9. CASE hashes[route] = hash
  <2>1. \A o \in Requests : Followed(req[o], route, hash) = req[o]
    BY <1>9 DEF Followed
  <2>2. Migrated(route, hash) = states
    BY <1>9 DEF Migrated
  <2>3. at = StateKey(r) /\ StateKey(r) = Its(Of[r])
    BY <1>1, <1>2, <1>4, <1>9, <2>1, OwnPlaces
  <2>4. hashes' = hashes
    BY <1>2, <1>5, <1>6, <1>9
  <2>5. states' = [states EXCEPT ![Its(Of[r])] = s]
    BY <1>2, <1>5, <2>2, <2>3
  <2>6. Plain(r)
    BY <1>1, <1>5, <1>6, <1>7, <2>1, <2>3, <2>4, <2>5 DEF Plain
  <2>7. states'[Its(Of[r])] = s
    BY <1>2, <1>6, <2>5
  <2> QED
    BY <1>2, <1>8, <2>6, <2>7, PlainPlaced
<1>10. CASE hashes[route] = None
  <2> DEFINE M == Migrated(route, hash)
  <2>1. \A o \in Requests : Running(o) => Followed(req[o], route, hash).at = StateKey(o)'
    BY <1>2, <1>5, <1>10, FollowedOwn
  <2>2. at = Its(Of[r])
    <3>1. StateKey(r)' = <<hash, Of[r][2]>>
      BY <1>2, <1>8 DEF StateKey
    <3> QED
      BY <1>1, <1>2, <1>4, <2>1, <3>1 DEF Its, Route
  <2>3. states' = [M EXCEPT ![Its(Of[r])] = s]
    BY <1>2, <1>5, <2>2
  <2>4. /\ states'[Its(Of[r])] = s /\ \A k \in Keys : k # Its(Of[r]) => states'[k] = M[k]
    BY <1>2, <1>6, <2>3
  <2>5. /\ \A p \in Routes \ {route}, m \in Majors :
              M[<<p, m>>] = states[<<p, m>>] /\ M[<<First[p], m>>] = states[<<First[p], m>>]
        /\ \A m \in Majors : M[<<route, m>>] = None
    BY <1>2, <1>10, MigratedOwn
  <2> HIDE DEF M
  <2>6. \A p \in Routes \ {route} : hashes'[p] = hashes[p]
    BY <1>5, <1>6
  <2>7. \A i \in Queues, p \in Routes, m \in Majors :
          /\ <<p, m>> \in Keys /\ <<p, m>> # Its(i)
          /\ <<First[p], m>> \in Keys /\ (p # i[1] => <<First[p], m>> # Its(i))
    BY OwnKeys, Kinds DEF OwnBuckets, Its, Keys
  <2>8. Of[r][1] = route
    BY DEF Route
  <2>9. ASSUME NEW p \in Routes, NEW m \in Majors
        PROVE  IF hashes'[p] = None THEN states'[<<First[p], m>>] = None
               ELSE states'[<<p, m>>] = None
    <3>1. CASE p = route
      BY <1>2, <1>8, <2>4, <2>5, <2>7, <3>1
    <3>2. CASE p # route
      BY <1>2, <2>4, <2>5, <2>6, <2>7, <2>8, <3>2 DEF OnePlace
    <3> QED
      BY <3>1, <3>2
  <2>10. ASSUME NEW o \in Requests
         PROVE  /\ Running(o)' => req'[o].at = StateKey(o)'
                /\ req'[o].phase = "answered" => req'[o].answer.bucket = Bucket(o)'
    <3>1. CASE o = r
      BY <1>1, <1>4, <1>7, <2>1, <3>1
    <3>2. CASE o # r
      <4>1. req'[o] = Followed(req[o], route, hash)
        BY <1>5, <3>2
      <4>2. req'[o].phase = req[o].phase /\ req'[o].answer = req[o].answer
        BY <1>2, <4>1, FollowedKept
      <4>3. Bucket(o)' = Bucket(o) /\ (Running(o)' <=> Running(o))
        BY <1>1, <4>2 DEF Bucket, Running, Route
      <4> QED
        BY <2>1, <4>1, <4>2, <4>3 DEF OnePlace
    <3> QED
      BY <3>1, <3>2
  <2>11. assigned' = First /\ \A p \in Routes : hashes'[p] \in {None, First[p]}
    BY <1>1, <1>2, <1>8, <2>6 DEF OnePlace
  <2>12. OnePlace'
    BY <2>9, <2>10, <2>11 DEF OnePlace
  <2>13. ASSUME NEW i \in Queues, hashes[i[1]] # None
         PROVE  states'[Its(i)] = states[Its(i)]
    <3>1. i[1] \in Routes \ {route} /\ i[2] \in Majors /\ Its(i) = <<First[i[1]], i[2]>>
      BY <1>10, <2>13, OwnKeys DEF Its
    <3>2. Its(i) \in Keys /\ Its(i) # Its(Of[r])
      BY <1>2, <2>7, <2>8, <3>1
    <3>3. states'[Its(i)] = M[Its(i)]
      BY <2>4, <3>2
    <3>4. M[<<First[i[1]], i[2]>>] = states[<<First[i[1]], i[2]>>]
      BY <2>5, <3>1
    <3> QED
      BY <3>1, <3>3, <3>4
  <2>14. Placed(r)
    BY <1>10, <2>6, <2>13 DEF Placed
  <2> QED
    BY <1>2, <1>8, <2>4, <2>12, <2>14
<1> QED
  BY <1>6, <1>9, <1>10

LEMMA StepPlaced ==
  ASSUME OwnBuckets, TypeOK, OnePlace, NEW r \in Requests, Step(r)
  PROVE  OnePlace' /\ Placed(r)
  BY StepPlain, PlainPlaced, DeliverPlaced

LEMMA PlaceStep ==
  ASSUME OwnBuckets, TypeOK, OnePlace, [Next]_vars
  PROVE  OnePlace'
<1>1. CASE \E r \in Requests : Step(r)
  BY <1>1, StepPlaced
<1>2. ASSUME NEW route \in Routes, Remap(route) PROVE FALSE
  BY <1>2 DEF Remap, OwnBuckets
<1>3. ASSUME NEW route \in Routes, SweepHash(route) PROVE OnePlace'
  <2>1. /\ hashes \in [Routes -> Hashes \cup {None}] /\ hashes[route] # None
        /\ hashes' = [hashes EXCEPT ![route] = None]
        /\ UNCHANGED <<req, states, assigned>>
        /\ \A r \in Requests : Route(r) = route => ~Running(r)
    BY <1>3 DEF SweepHash, service, TypeOK, Running
  <2>2. hashes[route] = First[route] /\ \A p \in Routes \ {route} : hashes[p] # hashes[route]
    BY <2>1, OwnKeys, Kinds DEF OnePlace, OwnBuckets
  <2>3. \A m \in Majors : states[<<First[route], m>>] = None
    BY <1>3, <2>1, <2>2 DEF SweepHash
  <2>4. hashes'[route] = None /\ \A p \in Routes \ {route} : hashes'[p] = hashes[p]
    BY <2>1
  <2>5. ASSUME NEW p \in Routes, NEW m \in Majors
        PROVE  IF hashes'[p] = None THEN states'[<<First[p], m>>] = None
               ELSE states'[<<p, m>>] = None
    BY <2>1, <2>3, <2>4 DEF OnePlace
  <2>6. ASSUME NEW r \in Requests
        PROVE  /\ Running(r)' => req'[r].at = StateKey(r)'
               /\ req'[r].phase = "answered" => req'[r].answer.bucket = Bucket(r)'
    <3>1. (Running(r)' <=> Running(r)) /\ Bucket(r)' = Bucket(r) /\ req'[r] = req[r]
      BY <2>1 DEF Running, Bucket, Route
    <3>2. Running(r) => StateKey(r)' = StateKey(r)
      BY <2>1, <2>4, Kinds DEF StateKey, Route
    <3> QED
      BY <3>1, <3>2 DEF OnePlace
  <2> QED
    BY <2>1, <2>4, <2>5, <2>6 DEF OnePlace
<1>4. ASSUME UNCHANGED <<hashes, assigned>>,
             \A k \in Keys : states[k] = None => states'[k] = None,
             \A r \in Requests : /\ req'[r].at = req[r].at /\ req'[r].phase = req[r].phase
                                 /\ req'[r].answer.bucket = req[r].answer.bucket
      PROVE  OnePlace'
  <2>1. \A p \in Routes, m \in Majors : <<p, m>> \in Keys /\ <<First[p], m>> \in Keys
    BY OwnKeys DEF Keys
  <2> QED
    BY <1>4, <2>1 DEF OnePlace, Running, StateKey, Bucket, Route
<1>5. ASSUME NEW k \in Keys, SweepState(k) PROVE OnePlace'
  <2>1. states' = [states EXCEPT ![k] = None] /\ states \in [Keys -> States \cup {None}]
        /\ UNCHANGED <<req, hashes, assigned>>
    BY <1>5 DEF SweepState, TypeOK, service
  <2> QED
    BY <1>4, <2>1
<1>6. CASE Tick
  <2>1. \A k \in Keys : states[k] = None => states'[k] = None
    BY <1>6 DEF Tick, Later
  <2>2. \A r \in Requests : /\ req'[r].at = req[r].at /\ req'[r].phase = req[r].phase
                            /\ req'[r].answer.bucket = req[r].answer.bucket
    BY <1>6, TickRequest
  <2> QED
    BY <1>4, <1>6, <2>1, <2>2 DEF Tick
<1>7. CASE UNCHANGED vars
  BY <1>4, <1>7 DEF vars
<1> QED
  BY <1>1, <1>2, <1>3, <1>5, <1>6, <1>7 DEF Next

-----------------------------------------------------------------------------
(* An exhausted bucket is left alone until its window is over.             *)

\* Nobody of the queue goes out: Respected, of one request.
Kept(i, r) ==
  Of[r] = i => /\ req[r].phase \notin {"ready", "sent", "answered"}
               /\ req[r].phase = "asleep" => req[r].timer >= srv[Its(i)].resetIn

\* What the client has of the bucket.
Spent(i) ==
  /\ hashes[i[1]] # None /\ states[Its(i)] # None
  /\ states[Its(i)].remaining <= 0 /\ states[Its(i)].resetIn >= srv[Its(i)].resetIn

LEMMA RespectedParts ==
  ASSUME NEW i
  PROVE  /\ Respected(i) <=> Spent(i) /\ \A r \in Requests : Kept(i, r)
         /\ Respected(i)' <=> Spent(i)' /\ \A r \in Requests : Kept(i, r)'
  BY DEF Respected, Spent, Kept

LEMMA CheckRespected ==
  ASSUME OwnBuckets, TypeOK, NEW r \in Requests, NEW i, i = Of[r],
         NEW q \in Runs, NEW s \in States, Check(r, q, s), q.at = Its(i),
         s.remaining <= 0, s.resetIn >= srv[Its(i)].resetIn, srv[Its(i)].resetIn > 0,
         Spent(i), UNCHANGED <<hashes, srv>>
  PROVE  Spent(i)' /\ Kept(i, r)'
<1>1. Its(i) \in Keys /\ Its(i) # Own /\ Its(i) \in Buckets
  BY OwnKeys, Kinds
<1>2. srv[Its(i)].resetIn \in Nat /\ s.resetIn \in Nat /\ s.remaining \in Int
  BY <1>1, Kinds DEF TypeOK, States
<1>3. SentAway(r) \/ MadeToWait(r, q, s) \/ LetThrough(r, q, s)
  BY CheckKeeps
<1>4. ~LetThrough(r, q, s)
  BY <1>2 DEF LetThrough
<1>5. CASE SentAway(r)
  BY <1>5 DEF SentAway, Spent, Kept, Idle
<1>6. CASE MadeToWait(r, q, s)
  BY <1>1, <1>6, Kinds DEF MadeToWait, Spent, Kept
<1> QED
  BY <1>3, <1>4, <1>5, <1>6

LEMMA RespectedStep ==
  ASSUME OwnBuckets, TypeOK, OnePlace, NEW i \in Queues, Respected(i), srv[Its(i)].resetIn > 0,
         NEW r \in Requests, Step(r)
  PROVE  Respected(i)' /\ srv'[Its(i)].resetIn = srv[Its(i)].resetIn
<1>1. /\ Spent(i) /\ \A o \in Requests : Kept(i, o)
      /\ Its(i) \in Buckets /\ Its(i) \in Keys /\ i[1] \in Routes
  BY RespectedParts, OwnKeys
<1>2. srv'[Its(i)].resetIn = srv[Its(i)].resetIn
  BY <1>1, StepWindows DEF WindowsStay
<1>3. OthersSame(r) /\ Placed(r)
  BY StepMoves, StepPlaced DEF Moves
<1>4. \A o \in Requests : o # r => Kept(i, o)'
  BY <1>1, <1>2, <1>3 DEF Kept, OthersSame, Same
<1>5. CASE Of[r] # i
  <2>1. Kept(i, r)'
    BY <1>5 DEF Kept
  <2>2. Spent(i)'
    BY <1>1, <1>2, <1>3, <1>5 DEF Spent, Placed
  <2> QED
    BY <1>2, <1>4, <2>1, <2>2, RespectedParts
<1>6. CASE Of[r] = i
  <2>1. /\ StateKey(r) = Its(i) /\ req[r] \in Runs /\ req[r].phase \notin {"ready", "sent", "answered"}
        /\ req[r].phase = "asleep" => req[r].timer >= srv[Its(i)].resetIn
        /\ states[Its(i)] \in States
    BY <1>1, <1>6, OwnPlaces DEF Spent, Kept, TypeOK, Route
  <2>2. Spent(i)' /\ Kept(i, r)'
    <3>1. CASE Enqueue(r)
      BY <1>1, <2>1, <3>1 DEF Enqueue, Spent, Kept, service, TypeOK, Runs
    <3>2. CASE Begin(r)
      <4> DEFINE q == [req[r] EXCEPT !.at = StateKey(r)]
                 s == states[Its(i)]
      <4>1. q \in Runs /\ q.at = Its(i)
        BY <2>1, BeginTypes DEF Runs
      <4>2. Check(r, q, s) /\ UNCHANGED <<hashes, srv>>
        BY <1>1, <2>1, <3>2 DEF Begin, Spent, service
      <4>3. s.remaining <= 0 /\ s.resetIn >= srv[Its(i)].resetIn
        BY <1>1 DEF Spent
      <4> HIDE DEF q, s
      <4>4. s \in States
        BY <2>1 DEF s
      <4> QED
        BY <1>1, <1>6, <4>1, <4>2, <4>3, <4>4, CheckRespected
    <3>3. CASE Wake(r)
      <4>1. srv[Its(i)].resetIn \in Nat
        BY <1>1, Kinds DEF TypeOK
      <4> QED
        BY <2>1, <3>3, <4>1 DEF Wake
    <3>4. CASE BackedOff(r)
      <4> DEFINE s == State(r)
      <4>1. req[r].at = Its(i) /\ s = states[Its(i)]
        BY <2>1, <3>4, <1>1, Kinds DEF BackedOff, OnePlace, Running, State
      <4>2. Check(r, req[r], s) /\ UNCHANGED <<hashes, srv>>
        BY <3>4 DEF BackedOff, service
      <4>3. s.remaining <= 0 /\ s.resetIn >= srv[Its(i)].resetIn /\ s \in States
        BY <1>1, <2>1, <4>1 DEF Spent
      <4> HIDE DEF s
      <4> QED
        BY <1>1, <1>6, <2>1, <4>1, <4>2, <4>3, CheckRespected
    <3>5. CASE Abandon(r)
      <4>1. req'[r] = Idle /\ UNCHANGED <<hashes, states>>
        BY <3>5, LeaveKeeps DEF Abandon
      <4> QED
        BY <1>1, <1>2, <4>1 DEF Spent, Kept, Idle
    <3> QED
      BY <2>1, <3>1, <3>2, <3>3, <3>4, <3>5
      DEF Step, Send, Deliver, Throttled, Serve, Fail
  <2> QED
    BY <1>2, <1>4, <2>2, RespectedParts
<1> QED
  BY <1>5, <1>6

\* An answer that says nothing is left makes the client keep to it.
LEMMA DeliverRespected ==
  ASSUME OwnBuckets, TypeOK, OneAtWork, OnePlace, NEW r \in Requests, Deliver(r),
         NEW i, i = Of[r], req[r].answer.remaining = 0,
         req[r].answer.resetIn >= srv[Its(i)].resetIn
  PROVE  Respected(i)'
<1>1. /\ req[r].phase = "answered" /\ Running(r) /\ srv' = srv /\ i \in Queues /\ i[1] = Route(r)
  BY OwnKeys DEF Deliver, Running, Route
<1>2. hashes'[i[1]] # None /\ states'[Its(i)] = Headers(r) /\ Headers(r) \in States
  BY <1>1, DeliverPlaced, AnswerTypes
<1>3. Spent(i)'
  <2>1. /\ Headers(r).remaining = 0 /\ Headers(r).resetIn = req[r].answer.resetIn
        /\ Headers(r) # None
    BY <1>2, Kinds DEF Headers
  <2> QED
    BY <1>1, <1>2, <2>1 DEF Spent
<1>4. req'[r] = Idle \/ Retried(r)
  BY DeliverKeeps
<1>5. Kept(i, r)'
  BY <1>1, <1>4 DEF Kept, Idle, Retried
<1>6. ASSUME NEW o \in Requests, o # r PROVE Kept(i, o)'
  <2>1. Of[o] = i => ~Running(o)
    BY <1>1, <1>6 DEF OneAtWork, Running, Queued
  <2>2. Same(o)
    BY <1>6, StepMoves DEF Moves, OthersSame, Step
  <2> QED
    BY <2>1, <2>2 DEF Kept, Running, Same
<1> QED
  BY <1>3, <1>5, <1>6, RespectedParts

LEMMA TickRespected ==
  ASSUME OwnBuckets, TypeOK, NEW i \in Queues, Respected(i), Tick, srv[Its(i)].resetIn > 1
  PROVE  Respected(i)'
<1> DEFINE b == Its(i)
<1>1. b \in Buckets /\ b \in Keys /\ i[1] \in Routes
  BY OwnKeys
<1>2. srv'[b].resetIn = srv[b].resetIn - 1 /\ srv[b].resetIn \in Nat
  BY <1>1, TickWindow, Kinds
<1>3. Spent(i)'
  <2>1. states[b] \in States /\ Spent(i)
    BY <1>1, RespectedParts DEF Spent, TypeOK
  <2>2. states'[b] = [states[b] EXCEPT !.resetIn = Sooner(states[b].resetIn)]
    BY <1>1, <2>1, Kinds DEF Tick, Later
  <2>3. states[b].resetIn \in Nat
    BY <2>1, Kinds DEF States
  <2>4. states'[b].remaining = states[b].remaining /\ states'[b].resetIn = Sooner(states[b].resetIn)
        /\ states'[b] \in States
    BY <2>1, <2>2, SoonerType DEF States
  <2>5. Sooner(states[b].resetIn) >= srv[b].resetIn - 1
    BY <1>2, <2>1, <2>3 DEF Sooner, Spent
  <2> QED
    BY <1>2, <2>1, <2>4, <2>5, Kinds DEF Spent, Tick
<1>4. ASSUME NEW r \in Requests PROVE Kept(i, r)'
  <2>1. req'[r].phase = req[r].phase /\ req'[r].timer = Sooner(req[r].timer)
    BY TickRequest
  <2>2. req[r].timer \in Nat
    BY Kinds DEF TypeOK, Runs
  <2>3. Kept(i, r)
    BY RespectedParts
  <2>4. req[r].timer >= srv[b].resetIn => Sooner(req[r].timer) >= srv[b].resetIn - 1
    BY <1>2, <2>2 DEF Sooner
  <2> QED
    BY <1>2, <2>1, <2>3, <2>4 DEF Kept
<1> QED
  BY <1>3, <1>4, RespectedParts

\* Neither sweep forgets it.
LEMMA SweepRespected ==
  ASSUME OwnBuckets, TypeOK, OnePlace, NEW i \in Queues, Respected(i), srv[Its(i)].resetIn > 0,
         (\E route \in Routes : SweepHash(route)) \/ (\E k \in Keys : SweepState(k))
  PROVE  Respected(i)' /\ srv' = srv
<1>1. /\ Its(i) \in Buckets /\ Its(i) \in Keys /\ i[1] \in Routes /\ i[2] \in Majors
      /\ Its(i) = <<First[i[1]], i[2]>> /\ Spent(i)
  BY OwnKeys, RespectedParts DEF Its
<1>2. ASSUME NEW route \in Routes, SweepHash(route) PROVE Respected(i)' /\ srv' = srv
  <2>1. /\ hashes \in [Routes -> Hashes \cup {None}] /\ hashes[route] # None
        /\ hashes' = [hashes EXCEPT ![route] = None]
        /\ UNCHANGED <<req, states, srv>>
    BY <1>2 DEF SweepHash, service, TypeOK
  <2>2. hashes[route] = First[route] /\ \A p \in Routes \ {route} : hashes[p] # hashes[route]
    BY <2>1, OwnKeys, Kinds DEF OnePlace, OwnBuckets
  <2>3. \A m \in Majors : states[<<First[route], m>>] = None
    BY <1>2, <2>1, <2>2 DEF SweepHash
  <2>4. i[1] # route
    BY <1>1, <2>3 DEF Spent
  <2>5. hashes'[i[1]] = hashes[i[1]]
    BY <1>1, <2>1, <2>4
  <2> QED
    BY <2>1, <2>5 DEF Respected
<1>3. ASSUME NEW k \in Keys, SweepState(k) PROVE Respected(i)' /\ srv' = srv
  <2>1. /\ states \in [Keys -> States \cup {None}] /\ states' = [states EXCEPT ![k] = None]
        /\ UNCHANGED <<req, hashes, srv>> /\ states[k].resetIn = 0
    BY <1>3 DEF SweepState, Quiet, service, TypeOK
  <2>2. Its(i) # k
    <3>1. srv[Its(i)].resetIn \in Nat
      BY <1>1, Kinds DEF TypeOK
    <3> QED
      BY <1>1, <2>1, <3>1 DEF Spent
  <2>3. states'[Its(i)] = states[Its(i)]
    BY <1>1, <2>1, <2>2
  <2> QED
    BY <2>1, <2>3 DEF Respected
<1> QED
  BY <1>2, <1>3

LEMMA ToldStep ==
  ASSUME OwnBuckets, TypeOK, OneAtWork, RefusalsHeard, OnePlace, ToldIsRespected, [Next]_vars
  PROVE  ToldIsRespected'
<1> SUFFICES ASSUME NEW i \in Queues, Its(i) \in told'
             PROVE  srv'[Its(i)].resetIn > 0 /\ Respected(i)'
  <2>1. \A i : Its(i)' = Its(i)
    BY DEF Its
  <2> QED
    BY <2>1 DEF ToldIsRespected, Queues
<1>1. Its(i) \in Buckets /\ (Its(i) \in told => srv[Its(i)].resetIn > 0 /\ Respected(i))
  BY OwnKeys DEF ToldIsRespected, Queues
<1>2. ASSUME NEW r \in Requests, Step(r), Its(i) \in told
      PROVE  srv'[Its(i)].resetIn > 0 /\ Respected(i)'
  BY <1>1, <1>2, RespectedStep
<1>3. ASSUME NEW r \in Requests, Step(r), Its(i) \notin told
      PROVE  srv'[Its(i)].resetIn > 0 /\ Respected(i)'
  <2> DEFINE a == req[r].answer
  <2>1. Deliver(r) /\ a.current /\ a.remaining = 0 /\ a.bucket = Its(i)
    BY <1>3 DEF Step, Enqueue, Begin, Wake, Send, Deliver, Throttled, Serve, Fail, BackedOff,
                Abandon, Lost, service
  <2>2. a.bucket = Its(Of[r]) /\ Of[r] \in Queues
    BY <2>1, OwnPlaces, OwnKeys DEF Deliver, OnePlace
  <2>3. i = Of[r]
    BY <2>1, <2>2, OwnKeys
  <2>4. srv[Its(i)].resetIn \in 1 .. a.resetIn /\ srv' = srv /\ a.resetIn \in 0 .. Window
    BY <2>1, AnswerTypes DEF RefusalsHeard, Deliver, Answers
  <2>5. srv[Its(i)].resetIn > 0 /\ a.resetIn >= srv[Its(i)].resetIn
    BY <2>4, Kinds
  <2> QED
    BY <2>1, <2>3, <2>4, <2>5, DeliverRespected
<1>4. CASE Tick
  <2>1. Its(i) \in told /\ srv[Its(i)].resetIn > 1
    BY <1>4 DEF Tick
  <2>2. srv'[Its(i)].resetIn > 0
    BY <1>1, <1>4, <2>1, TickWindow, Kinds
  <2> QED
    BY <1>1, <1>4, <2>1, <2>2, TickRespected
<1>5. CASE (\E route \in Routes : SweepHash(route)) \/ (\E k \in Keys : SweepState(k))
  <2>1. told' = told
    BY <1>5 DEF SweepHash, SweepState, service
  <2> QED
    BY <1>1, <1>5, <2>1, SweepRespected
<1>6. ASSUME NEW route \in Routes, Remap(route) PROVE FALSE
  BY <1>6 DEF Remap, OwnBuckets
<1>7. CASE UNCHANGED vars
  BY <1>1, <1>7 DEF vars, Respected
<1> QED
  BY <1>2, <1>3, <1>4, <1>5, <1>6, <1>7 DEF Next

LEMMA BreachStep ==
  ASSUME OwnBuckets, TypeOK, OnePlace, ToldIsRespected', KnownExhaustedRespected, [Next]_vars
  PROVE  KnownExhaustedRespected'
<1>1. ASSUME NEW r \in Requests, Step(r), Admit(r), UNCHANGED <<hashes, service>>
      PROVE  ~breached'
  <2>1. ASSUME req'[r].phase = "ready", KnownExhausted(r) PROVE FALSE
    <3>1. Its(Of[r]) \in told' /\ Of[r] \in Queues /\ Its(Of[r])' = Its(Of[r])
      BY <1>1, <2>1, OwnPlaces, OwnKeys DEF KnownExhausted, service, Its
    <3>2. Respected(Of[r])'
      BY <3>1 DEF ToldIsRespected, Queues
    <3> QED
      BY <2>1, <3>2 DEF Respected
  <2> QED
    BY <1>1, <2>1 DEF Admit, KnownExhaustedRespected
<1>2. CASE UNCHANGED breached
  BY <1>2 DEF KnownExhaustedRespected
<1> QED
  BY <1>1, <1>2
  DEF Next, Step, Enqueue, Begin, Wake, Send, Deliver, Throttled, Serve, Fail, BackedOff, Abandon,
      Remap, SweepHash, SweepState, Tick, vars, KnownExhaustedRespected

-----------------------------------------------------------------------------
(* Discord refuses only what it counted unheard.                           *)

LEMMA AnsweredKept ==
  ASSUME NEW i, NEW r \in Requests, Of[r] = i, req[r].phase = "answered",
         req[r].answer.remaining = 0, req[r].answer.resetIn >= srv[Its(i)].resetIn,
         Same(r), srv'[Its(i)].resetIn = srv[Its(i)].resetIn
  PROVE  Answered(i)'
<1>1. Its(i)' = Its(i)
  BY DEF Its
<1> QED
  BY <1>1 DEF Answered, Same

LEMMA OpenedLast ==
  ASSUME TypeOK, NEW b \in Buckets
  PROVE  Opened(b).left = 0 <=> srv[b].left = 0 /\ srv[b].resetIn > 0
<1>1. srv[b] \in [left : 0 .. Limit, resetIn : 0 .. Window] /\ Limit \in Nat \ {0} /\ Window \in Nat
  BY Kinds DEF TypeOK
<1> QED
  BY <1>1 DEF Opened

LEMMA UnheardStays ==
  ASSUME TypeOK, [Next]_vars, ~unheard'
  PROVE  ~unheard
  BY DEF Next, Step, Enqueue, Begin, Wake, Send, Deliver, Throttled, Serve, Fail, BackedOff,
         Abandon, Lost, service, Remap, SweepHash, SweepState, Tick, vars

\* What the last request of a window was answered is known, or on its way.
LEMMA LastStep ==
  ASSUME OwnBuckets, TypeOK, TypeOK', OneAtWork, OnePlace, NEW i \in Queues, ~unheard', ~unheard,
         NEW r \in Requests, Step(r),
         Opened(Its(i)).left = 0 => Answered(i) \/ Respected(i),
         srv'[Its(i)].left = 0, srv'[Its(i)].resetIn > 0
  PROVE  Answered(i)' \/ Respected(i)'
<1> DEFINE b == Its(i)
<1>1. b \in Buckets /\ Of[r] \in Queues
  BY OwnKeys
<1>2. OthersSame(r) /\ WindowsStay
  BY StepMoves, StepWindows DEF Moves
<1>3. CASE Opened(b).left = 0
  <2>1. srv[b].resetIn > 0 /\ srv'[b].resetIn = srv[b].resetIn
    BY <1>1, <1>2, <1>3, OpenedLast DEF WindowsStay
  <2>2. CASE Respected(i)
    BY <2>1, <2>2, RespectedStep
  <2>3. CASE Answered(i)
    <3>1. PICK o \in Requests :
            /\ Of[o] = i /\ req[o].phase = "answered"
            /\ req[o].answer.remaining = 0 /\ req[o].answer.resetIn >= srv[b].resetIn
      BY <2>3 DEF Answered
    <3>2. CASE o # r
      BY <1>2, <2>1, <3>1, <3>2, AnsweredKept DEF OthersSame
    <3>3. CASE o = r
      <4>1. Deliver(r) \/ Abandon(r)
        BY <3>1, <3>3 DEF Step, Enqueue, Begin, Wake, Send, Throttled, Serve, Fail, BackedOff
      <4>2. ~Abandon(r)
        BY <3>1, <3>3 DEF Abandon, Lost
      <4> QED
        BY <3>1, <3>3, <4>1, <4>2, DeliverRespected
    <3> QED
      BY <3>2, <3>3
  <2> QED
    BY <1>3, <2>2, <2>3
<1>4. CASE Opened(b).left # 0
  <2>1. srv' # srv
    BY <1>1, <1>4, OpenedLast
  <2>2. Serve(r) /\ Counted(Bucket(r))
    BY <2>1 DEF Step, Enqueue, Begin, Wake, Send, Deliver, Throttled, Serve, Fail, BackedOff,
                Abandon, Lost, service
  <2>3. Bucket(r) = Its(Of[r]) /\ Bucket(r) \in Buckets
    BY OwnPlaces, Places
  <2>4. Opened(Bucket(r)).left # 0
    BY <2>1, <2>2 DEF Serve
  <2>5. b = Bucket(r)
    <3>1. b # Bucket(r) => srv'[b] = srv[b]
      BY <1>1, <2>2, <2>3, <2>4, CountedType
    <3> QED
      BY <1>1, <1>4, <3>1, OpenedLast
  <2>6. i = Of[r]
    BY <1>1, <2>3, <2>5, OwnKeys
  <2>7. Opened(b).left - 1 = 0 /\ srv'[b].resetIn = Opened(b).resetIn
    BY <2>2, <2>3, <2>4, <2>5, CountedType
  <2> DEFINE a == [bucket |-> b, limited |-> Opened(b).left = 0, current |-> TRUE,
                   remaining |-> IF Opened(b).left = 0 THEN 0 ELSE Opened(b).left - 1,
                   resetIn |-> Opened(b).resetIn]
             q == [req[r] EXCEPT !.phase = "answered", !.answer = a]
  <2>8. a.remaining = 0 /\ a.resetIn = Opened(b).resetIn
    BY <2>7
  <2>9. req' = [req EXCEPT ![r] = q] /\ req \in [Requests -> Runs]
    BY <2>2, <2>5 DEF Serve, TypeOK
  <2> HIDE DEF a
  <2>10. req'[r].phase = "answered" /\ req'[r].answer = a
    BY <2>9 DEF Runs
  <2>11. Its(i)' = Its(i) /\ Opened(b).resetIn \in Nat
    BY <1>1, OpenedType, Kinds DEF Its
  <2> QED
    BY <2>6, <2>7, <2>8, <2>10, <2>11 DEF Answered
<1> QED
  BY <1>3, <1>4

LEMMA TickAnswered ==
  ASSUME OwnBuckets, TypeOK, NEW i \in Queues, Answered(i), Tick, srv[Its(i)].resetIn > 1
  PROVE  Answered(i)'
<1>1. PICK r \in Requests :
        /\ Of[r] = i /\ req[r].phase = "answered"
        /\ req[r].answer.remaining = 0 /\ req[r].answer.resetIn >= srv[Its(i)].resetIn
  BY DEF Answered
<1>2. /\ req'[r].phase = "answered" /\ req'[r].answer.remaining = 0
      /\ req'[r].answer.resetIn = req[r].answer.resetIn
  BY <1>1, TickRequest
<1>3. /\ srv'[Its(i)].resetIn = srv[Its(i)].resetIn - 1 /\ srv[Its(i)].resetIn \in Nat
      /\ req[r].answer.resetIn \in Nat /\ Its(i)' = Its(i)
  BY OwnKeys, TickWindow, Kinds DEF TypeOK, Runs, Answers, Its
<1> QED
  BY <1>1, <1>2, <1>3 DEF Answered

LEMMA SpentStep ==
  ASSUME OwnBuckets, TypeOK, TypeOK', OneAtWork, OnePlace, SpentIsKnown, [Next]_vars
  PROVE  SpentIsKnown'
<1> SUFFICES ASSUME ~unheard', NEW i \in Queues, Opened(Its(i))'.left = 0
             PROVE  Answered(i)' \/ Respected(i)'
  BY DEF SpentIsKnown, Queues
<1>1. ~unheard
  BY UnheardStays
<1>2. Its(i) \in Buckets /\ (Opened(Its(i)).left = 0 => Answered(i) \/ Respected(i))
  BY <1>1, OwnKeys DEF SpentIsKnown, Queues
<1>3. srv'[Its(i)].left = 0 /\ srv'[Its(i)].resetIn > 0
  <2>1. srv'[Its(i)] \in [left : 0 .. Limit, resetIn : 0 .. Window]
    BY <1>2 DEF TypeOK
  <2> QED
    BY <2>1, Kinds DEF Opened, Its
<1>4. CASE \E r \in Requests : Step(r)
  BY <1>1, <1>2, <1>3, <1>4, LastStep
<1>5. CASE Tick
  <2>1. srv[Its(i)].resetIn > 1 /\ srv[Its(i)].left = 0
    BY <1>2, <1>3, <1>5, TickWindow, Kinds
  <2>2. Opened(Its(i)).left = 0
    <3>1. srv[Its(i)].resetIn > 0
      BY <1>2, <1>5, <2>1, TickWindow, Kinds
    <3> QED
      BY <1>2, <2>1, <3>1, OpenedLast
  <2> QED
    BY <1>2, <1>5, <2>1, <2>2, TickRespected, TickAnswered
<1>6. CASE (\E route \in Routes : SweepHash(route)) \/ (\E k \in Keys : SweepState(k))
  <2>1. srv' = srv /\ req' = req
    BY <1>6 DEF SweepHash, SweepState, service
  <2>2. Opened(Its(i)).left = 0 /\ srv[Its(i)].resetIn > 0
    BY <1>2, <1>3, <2>1, OpenedLast
  <2>3. Answered(i) => Answered(i)'
    BY <2>1 DEF Answered, Its
  <2> QED
    BY <1>2, <1>6, <2>2, <2>3, SweepRespected
<1>7. ASSUME NEW route \in Routes, Remap(route) PROVE FALSE
  BY <1>7 DEF Remap, OwnBuckets
<1>8. CASE UNCHANGED vars
  <2>1. Opened(Its(i)).left = 0
    BY <1>2, <1>3, <1>8, OpenedLast DEF vars
  <2> QED
    BY <1>2, <1>8, <2>1 DEF vars, Answered, Respected, Its
<1> QED
  BY <1>4, <1>5, <1>6, <1>7, <1>8 DEF Next

LEMMA OverrunStep ==
  ASSUME OwnBuckets, TypeOK, OneAtWork, OnePlace, SpentIsKnown, NeverRefused, [Next]_vars
  PROVE  NeverRefused'
<1>1. ASSUME NEW r \in Requests, Serve(r) PROVE NeverRefused'
  <2>1. /\ Of[r] \in Queues /\ Bucket(r) = Its(Of[r]) /\ req[r].phase = "sent"
    BY <1>1, OwnKeys, OwnPlaces DEF Serve
  <2>2. ASSUME Opened(Bucket(r)).left = 0 PROVE unheard
    <3>1. unheard \/ Answered(Of[r]) \/ Respected(Of[r])
      BY <2>1, <2>2 DEF SpentIsKnown, Queues
    <3>2. ~Respected(Of[r])
      BY <2>1 DEF Respected
    <3>3. ~Answered(Of[r])
      BY <2>1 DEF Answered, OneAtWork, Queued, Running
    <3> QED
      BY <3>1, <3>2, <3>3
  <2> QED
    BY <1>1, <2>2 DEF Serve, NeverRefused
<1>2. CASE UNCHANGED overrun
  BY <1>2, UnheardStays DEF NeverRefused, TypeOK
<1> QED
  BY <1>1, <1>2
  DEF Next, Step, Enqueue, Begin, Wake, Send, Deliver, Throttled, Fail, BackedOff, Abandon, Lost,
      service, Remap, SweepHash, SweepState, Tick, vars

-----------------------------------------------------------------------------
OwnInv ==
  /\ Inv /\ OnePlace /\ ToldIsRespected /\ SpentIsKnown
  /\ KnownExhaustedRespected /\ NeverRefused

LEMMA OwnInit == OwnBuckets /\ Init => OwnInv
<1> SUFFICES ASSUME OwnBuckets, Init PROVE OwnInv
  OBVIOUS
<1>1. \A r \in Requests : req[r] = Idle
  BY DEF Init
<1>2. OnePlace
  <2>1. \A p \in Routes, m \in Majors : <<First[p], m>> \in Keys
    BY OwnKeys DEF Keys
  <2> QED
    BY <1>1, <2>1 DEF Init, OnePlace, Running, Idle
<1>3. ToldIsRespected
  BY DEF Init, ToldIsRespected
<1>4. SpentIsKnown
  <2>1. \A i \in Queues : Opened(Its(i)).left = Limit
    BY OwnKeys DEF Init, Opened
  <2> QED
    BY <2>1, Kinds DEF SpentIsKnown, Queues
<1>5. KnownExhaustedRespected /\ NeverRefused
  BY DEF Init, KnownExhaustedRespected, NeverRefused
<1> QED
  BY <1>2, <1>3, <1>4, <1>5, InvInit DEF OwnInv

LEMMA OwnHolds == ASSUME OwnBuckets PROVE Spec => []OwnInv
<1>1. Init => OwnInv
  BY OwnInit
<1>2. OwnInv /\ [Next]_vars => OwnInv'
  <2> SUFFICES ASSUME OwnInv, [Next]_vars PROVE OwnInv'
    OBVIOUS
  <2>1. TypeOK /\ OneAtWork /\ RefusalsHeard /\ OnePlace /\ ToldIsRespected /\ SpentIsKnown
        /\ KnownExhaustedRespected /\ NeverRefused
    BY DEF OwnInv, Inv
  <2>2. TypeOK' /\ OneAtWork' /\ RefusalsHeard' /\ OnePlace'
    BY <2>1, TypeStep, LineStep, RefusalStep, PlaceStep
  <2>3. ToldIsRespected' /\ SpentIsKnown'
    BY <2>1, <2>2, ToldStep, SpentStep
  <2>4. KnownExhaustedRespected' /\ NeverRefused'
    BY <2>1, <2>3, BreachStep, OverrunStep
  <2> QED
    BY <2>2, <2>3, <2>4 DEF OwnInv, Inv
<1> QED
  BY <1>1, <1>2, PTL DEF Spec

\* "a known-exhausted window is never optimistically forgotten": if each route has a
\* bucket of its own, which it keeps, no request is let through to a bucket that the
\* client has been told is exhausted, whatever is lost, aborted, retried or swept.
THEOREM ExhaustedIsRespected ==
  ASSUME OwnBuckets
  PROVE  Spec => []KnownExhaustedRespected
<1>1. OwnInv => KnownExhaustedRespected
  BY DEF OwnInv
<1> QED
  BY <1>1, OwnHolds, PTL

\* Then Discord refuses a request for its own bucket only after it counted one whose
\* headers the client never saw: every 429 counts towards a ban.
THEOREM RefusedOnlyUnheard ==
  ASSUME OwnBuckets
  PROVE  Spec => []NeverRefused
<1>1. OwnInv => NeverRefused
  BY DEF OwnInv
<1> QED
  BY <1>1, OwnHolds, PTL

-----------------------------------------------------------------------------
(* Routes: the paths of the endpoints.                                     *)

Known == Words \cup PollAnswers
Segments == Known \cup Ids \cup Tokens \cup Emojis \cup Codes

\* A path has each kind of segment where the routes are sorted by it.
KnownPath(path) ==
  /\ path \in Seq(Segments) /\ path # <<>> /\ path[1] \in Known
  /\ path[1] = "interactions" <=> path[Len(path)] = "callback"
  /\ \A i \in DOMAIN path :
       /\ path[i] \in Codes => path[1] = "invites"
       /\ path[i] \in Emojis => i = 6 /\ path[5] = "reactions"
       /\ path[i] \in Tokens => i = 3 /\ path[1] \in {"webhooks", "interactions"} /\ path[2] \in Ids
       /\ path[i] = "reactions" => i = 5
       /\ i = 2 /\ path[1] \in Scoped => path[2] \in Ids
       /\ i = 3 /\ path[1] \in {"webhooks", "interactions"} => path[3] \in Tokens
       /\ i >= 6 /\ path[5] = "reactions" =>
            path[6] \in Emojis /\ (i = 7 => path[7] \in Ids \cup {"@me"}) /\ i <= 7
Public(path) == KnownPath(path) /\ \A i \in DOMAIN path : path[i] \notin Tokens

KnownRequest(r) == KnownPath(r.path) /\ (r.auth => Public(r.path))
AreKnown(requests) == \A r \in requests : KnownRequest(r)

\* None of them is taken for a word of a path or of a route.
NotWord(x) == x \notin Known \cup Placeholders

LEMMA SegmentsDiffer ==
  /\ \A x \in Ids : NotWord(x) /\ x \notin Tokens /\ x \notin Emojis /\ x \notin Codes
  /\ \A x \in Tokens : NotWord(x) /\ x \notin Ids /\ x \notin Emojis /\ x \notin Codes
  /\ \A x \in Emojis : NotWord(x) /\ x \notin Ids /\ x \notin Tokens /\ x \notin Codes
  /\ \A x \in Codes : NotWord(x) /\ x \notin Ids /\ x \notin Tokens /\ x \notin Emojis
  BY SegmentsAssumption DEF NotWord, Known

LEMMA PathsAreKnown ==
  \A methods, path : Public(path) => AreKnown(To(methods, path))
  BY DEF AreKnown, To, KnownRequest, Public

LEMMA AnonymousAreKnown ==
  /\ \A methods, path :
       KnownPath(path) \/ Public(path) => AreKnown(Anonymous(To(methods, path)))
  /\ \A A, B : Anonymous(A \cup B) = Anonymous(A) \cup Anonymous(B)
<1>1. ASSUME NEW methods, NEW path, KnownPath(path) PROVE AreKnown(Anonymous(To(methods, path)))
  <2> SUFFICES ASSUME NEW r \in To(methods, path)
               PROVE  KnownRequest([r EXCEPT !.auth = FALSE])
    BY DEF AreKnown, Anonymous
  <2>1. PICK m \in methods : r = [method |-> m, path |-> path, auth |-> TRUE]
    BY DEF To
  <2> QED
    BY <1>1, <2>1 DEF KnownRequest
<1>2. \A A, B : Anonymous(A \cup B) = Anonymous(A) \cup Anonymous(B)
  BY DEF Anonymous
<1> QED
  BY <1>1, <1>2 DEF Public

LEMMA ChannelMessagesKnown ==
  ASSUME NEW c \in Ids, NEW m \in Ids
  PROVE  AreKnown(ChannelMessages(c, m))
<1>1. /\ Public(<<"channels", c>>)
      /\ Public(<<"channels", c, "messages">>)
      /\ Public(<<"channels", c, "messages", m>>)
      /\ Public(<<"channels", c, "messages", "bulk-delete">>)
  BY SegmentsDiffer DEF Public, KnownPath, Known, Segments, NotWord, Words, PollAnswers, Scoped
<1> QED
  BY <1>1, PathsAreKnown DEF ChannelMessages, AreKnown

LEMMA ChannelReactionsKnown ==
  ASSUME NEW c \in Ids, NEW m \in Ids, NEW emoji \in Emojis, NEW u \in Ids
  PROVE  AreKnown(ChannelReactions(c, m, emoji, u))
<1>1. /\ Public(<<"channels", c, "messages", m, "reactions", emoji, "@me">>)
      /\ Public(<<"channels", c, "messages", m, "reactions", emoji, u>>)
      /\ Public(<<"channels", c, "messages", m, "reactions", emoji>>)
      /\ Public(<<"channels", c, "messages", m, "reactions">>)
  BY SegmentsDiffer DEF Public, KnownPath, Known, Segments, NotWord, Words, PollAnswers, Scoped
<1> QED
  BY <1>1, PathsAreKnown DEF ChannelReactions, AreKnown

LEMMA ChannelPinsAndInvitesKnown ==
  ASSUME NEW c \in Ids, NEW m \in Ids
  PROVE  AreKnown(ChannelPinsAndInvites(c, m))
<1>1. /\ Public(<<"channels", c, "pins">>)
      /\ Public(<<"channels", c, "pins", m>>)
      /\ Public(<<"channels", c, "invites">>)
      /\ Public(<<"channels", c, "messages", m, "threads">>)
      /\ Public(<<"channels", c, "threads">>)
  BY SegmentsDiffer DEF Public, KnownPath, Known, Segments, NotWord, Words, PollAnswers, Scoped
<1> QED
  BY <1>1, PathsAreKnown DEF ChannelPinsAndInvites, AreKnown

LEMMA ChannelPermissionsKnown ==
  ASSUME NEW c \in Ids, NEW overwrite \in Ids
  PROVE  AreKnown(ChannelPermissions(c, overwrite))
<1>1. /\ Public(<<"channels", c, "permissions", overwrite>>)
      /\ Public(<<"channels", c, "typing">>)
  BY SegmentsDiffer DEF Public, KnownPath, Known, Segments, NotWord, Words, PollAnswers, Scoped
<1> QED
  BY <1>1, PathsAreKnown DEF ChannelPermissions, AreKnown

LEMMA ThreadMembersKnown ==
  ASSUME NEW t \in Ids, NEW u \in Ids
  PROVE  AreKnown(ThreadMembers(t, u))
<1>1. /\ Public(<<"channels", t, "thread-members", "@me">>)
      /\ Public(<<"channels", t, "thread-members", u>>)
      /\ Public(<<"channels", t, "thread-members">>)
  BY SegmentsDiffer DEF Public, KnownPath, Known, Segments, NotWord, Words, PollAnswers, Scoped
<1> QED
  BY <1>1, PathsAreKnown DEF ThreadMembers, AreKnown

LEMMA ArchivedThreadsKnown ==
  ASSUME NEW c \in Ids
  PROVE  AreKnown(ArchivedThreads(c))
<1>1. /\ Public(<<"channels", c, "threads", "archived", "public">>)
      /\ Public(<<"channels", c, "threads", "archived", "private">>)
      /\ Public(<<"channels", c, "users", "@me", "threads", "archived", "private">>)
  BY SegmentsDiffer DEF Public, KnownPath, Known, Segments, NotWord, Words, PollAnswers, Scoped
<1> QED
  BY <1>1, PathsAreKnown DEF ArchivedThreads, AreKnown

LEMMA PollRoutesKnown ==
  ASSUME NEW c \in Ids, NEW m \in Ids, NEW answer \in PollAnswers
  PROVE  AreKnown(PollRoutes(c, m, answer))
<1>1. /\ Public(<<"channels", c, "polls", m, "answers", answer>>)
      /\ Public(<<"channels", c, "polls", m, "expire">>)
  BY SegmentsDiffer DEF Public, KnownPath, Known, Segments, NotWord, Words, PollAnswers, Scoped
<1> QED
  BY <1>1, PathsAreKnown DEF PollRoutes, AreKnown

LEMMA GuildsKnown ==
  ASSUME NEW g \in Ids
  PROVE  AreKnown(Guilds(g))
<1>1. /\ Public(<<"guilds", g>>)
      /\ Public(<<"guilds", g, "preview">>)
      /\ Public(<<"guilds", g, "prune">>)
  BY SegmentsDiffer DEF Public, KnownPath, Known, Segments, NotWord, Words, PollAnswers, Scoped
<1> QED
  BY <1>1, PathsAreKnown DEF Guilds, AreKnown

LEMMA GuildDisplayKnown ==
  ASSUME NEW g \in Ids, NEW integration \in Ids
  PROVE  AreKnown(GuildDisplay(g, integration))
<1>1. /\ Public(<<"guilds", g, "regions">>)
      /\ Public(<<"guilds", g, "vanity-url">>)
      /\ Public(<<"guilds", g, "welcome-screen">>)
      /\ Public(<<"guilds", g, "channels">>)
      /\ Public(<<"guilds", g, "integrations">>)
      /\ Public(<<"guilds", g, "integrations", integration>>)
  BY SegmentsDiffer DEF Public, KnownPath, Known, Segments, NotWord, Words, PollAnswers, Scoped
<1> QED
  BY <1>1, PathsAreKnown DEF GuildDisplay, AreKnown

LEMMA GuildOnboardingKnown ==
  ASSUME NEW g \in Ids
  PROVE  AreKnown(GuildOnboarding(g))
<1>1. /\ Public(<<"guilds", g, "onboarding">>)
      /\ Public(<<"guilds", g, "widget">>)
      /\ Public(<<"guilds", g, "widget.json">>)
  BY SegmentsDiffer DEF Public, KnownPath, Known, Segments, NotWord, Words, PollAnswers, Scoped
<1> QED
  BY <1>1, PathsAreKnown, AnonymousAreKnown DEF GuildOnboarding, AreKnown

LEMMA GuildChannelsKnown ==
  ASSUME NEW g \in Ids
  PROVE  AreKnown(GuildChannels(g))
<1>1. /\ Public(<<"guilds", g, "channels">>)
      /\ Public(<<"guilds", g, "invites">>)
      /\ Public(<<"guilds", g, "threads", "active">>)
  BY SegmentsDiffer DEF Public, KnownPath, Known, Segments, NotWord, Words, PollAnswers, Scoped
<1> QED
  BY <1>1, PathsAreKnown DEF GuildChannels, AreKnown

LEMMA MemberRoutesKnown ==
  ASSUME NEW g \in Ids, NEW u \in Ids
  PROVE  AreKnown(MemberRoutes(g, u))
<1>1. /\ Public(<<"guilds", g, "members">>)
      /\ Public(<<"guilds", g, "members", "search">>)
      /\ Public(<<"guilds", g, "members", u>>)
      /\ Public(<<"guilds", g, "members", "@me">>)
  BY SegmentsDiffer DEF Public, KnownPath, Known, Segments, NotWord, Words, PollAnswers, Scoped
<1> QED
  BY <1>1, PathsAreKnown DEF MemberRoutes, AreKnown

LEMMA MemberRolesKnown ==
  ASSUME NEW g \in Ids, NEW u \in Ids, NEW role \in Ids
  PROVE  AreKnown(MemberRoles(g, u, role))
<1>1. Public(<<"guilds", g, "members", u, "roles", role>>)
  BY SegmentsDiffer DEF Public, KnownPath, Known, Segments, NotWord, Words, PollAnswers, Scoped
<1> QED
  BY <1>1, PathsAreKnown DEF MemberRoles, AreKnown

LEMMA BanRoutesKnown ==
  ASSUME NEW g \in Ids, NEW u \in Ids
  PROVE  AreKnown(BanRoutes(g, u))
<1>1. /\ Public(<<"guilds", g, "bans">>)
      /\ Public(<<"guilds", g, "bans", u>>)
      /\ Public(<<"guilds", g, "bulk-ban">>)
  BY SegmentsDiffer DEF Public, KnownPath, Known, Segments, NotWord, Words, PollAnswers, Scoped
<1> QED
  BY <1>1, PathsAreKnown DEF BanRoutes, AreKnown

LEMMA RoleRoutesKnown ==
  ASSUME NEW g \in Ids, NEW role \in Ids
  PROVE  AreKnown(RoleRoutes(g, role))
<1>1. /\ Public(<<"guilds", g, "roles">>)
      /\ Public(<<"guilds", g, "roles", role>>)
  BY SegmentsDiffer DEF Public, KnownPath, Known, Segments, NotWord, Words, PollAnswers, Scoped
<1> QED
  BY <1>1, PathsAreKnown DEF RoleRoutes, AreKnown

LEMMA AuditLogRoutesKnown ==
  ASSUME NEW g \in Ids
  PROVE  AreKnown(AuditLogRoutes(g))
<1>1. Public(<<"guilds", g, "audit-logs">>)
  BY SegmentsDiffer DEF Public, KnownPath, Known, Segments, NotWord, Words, PollAnswers, Scoped
<1> QED
  BY <1>1, PathsAreKnown DEF AuditLogRoutes, AreKnown

LEMMA AutoModerationRoutesKnown ==
  ASSUME NEW g \in Ids, NEW rule \in Ids
  PROVE  AreKnown(AutoModerationRoutes(g, rule))
<1>1. /\ Public(<<"guilds", g, "auto-moderation", "rules">>)
      /\ Public(<<"guilds", g, "auto-moderation", "rules", rule>>)
  BY SegmentsDiffer DEF Public, KnownPath, Known, Segments, NotWord, Words, PollAnswers, Scoped
<1> QED
  BY <1>1, PathsAreKnown DEF AutoModerationRoutes, AreKnown

LEMMA ScheduledEventRoutesKnown ==
  ASSUME NEW g \in Ids, NEW event \in Ids
  PROVE  AreKnown(ScheduledEventRoutes(g, event))
<1>1. /\ Public(<<"guilds", g, "scheduled-events">>)
      /\ Public(<<"guilds", g, "scheduled-events", event>>)
      /\ Public(<<"guilds", g, "scheduled-events", event, "users">>)
  BY SegmentsDiffer DEF Public, KnownPath, Known, Segments, NotWord, Words, PollAnswers, Scoped
<1> QED
  BY <1>1, PathsAreKnown DEF ScheduledEventRoutes, AreKnown

LEMMA StageInstanceRoutesKnown ==
  ASSUME NEW c \in Ids
  PROVE  AreKnown(StageInstanceRoutes(c))
<1>1. /\ Public(<<"stage-instances">>)
      /\ Public(<<"stage-instances", c>>)
  BY SegmentsDiffer DEF Public, KnownPath, Known, Segments, NotWord, Words, PollAnswers, Scoped
<1> QED
  BY <1>1, PathsAreKnown DEF StageInstanceRoutes, AreKnown

LEMMA GuildEmojisKnown ==
  ASSUME NEW g \in Ids, NEW emojiId \in Ids
  PROVE  AreKnown(GuildEmojis(g, emojiId))
<1>1. /\ Public(<<"guilds", g, "emojis">>)
      /\ Public(<<"guilds", g, "emojis", emojiId>>)
  BY SegmentsDiffer DEF Public, KnownPath, Known, Segments, NotWord, Words, PollAnswers, Scoped
<1> QED
  BY <1>1, PathsAreKnown DEF GuildEmojis, AreKnown

LEMMA ApplicationEmojisKnown ==
  ASSUME NEW app \in Ids, NEW emojiId \in Ids
  PROVE  AreKnown(ApplicationEmojis(app, emojiId))
<1>1. /\ Public(<<"applications", app, "emojis">>)
      /\ Public(<<"applications", app, "emojis", emojiId>>)
  BY SegmentsDiffer DEF Public, KnownPath, Known, Segments, NotWord, Words, PollAnswers, Scoped
<1> QED
  BY <1>1, PathsAreKnown DEF ApplicationEmojis, AreKnown

LEMMA StickerRoutesKnown ==
  ASSUME NEW g \in Ids, NEW sticker \in Ids
  PROVE  AreKnown(StickerRoutes(g, sticker))
<1>1. /\ Public(<<"stickers", sticker>>)
      /\ Public(<<"sticker-packs">>)
      /\ Public(<<"sticker-packs", sticker>>)
      /\ Public(<<"guilds", g, "stickers">>)
      /\ Public(<<"guilds", g, "stickers", sticker>>)
  BY SegmentsDiffer DEF Public, KnownPath, Known, Segments, NotWord, Words, PollAnswers, Scoped
<1> QED
  BY <1>1, PathsAreKnown DEF StickerRoutes, AreKnown

LEMMA UserRoutesKnown ==
  ASSUME NEW g \in Ids, NEW u \in Ids
  PROVE  AreKnown(UserRoutes(g, u))
<1>1. /\ Public(<<"users", "@me">>)
      /\ Public(<<"users", u>>)
      /\ Public(<<"users", "@me", "channels">>)
      /\ Public(<<"users", "@me", "guilds">>)
      /\ Public(<<"users", "@me", "guilds", g, "member">>)
      /\ Public(<<"users", "@me", "guilds", g>>)
      /\ Public(<<"users", "@me", "connections">>)
  BY SegmentsDiffer DEF Public, KnownPath, Known, Segments, NotWord, Words, PollAnswers, Scoped
<1> QED
  BY <1>1, PathsAreKnown DEF UserRoutes, AreKnown

LEMMA InviteRoutesKnown ==
  ASSUME NEW code \in Codes
  PROVE  AreKnown(InviteRoutes(code))
<1>1. Public(<<"invites", code>>)
  BY SegmentsDiffer DEF Public, KnownPath, Known, Segments, NotWord, Words, PollAnswers, Scoped
<1> QED
  BY <1>1, PathsAreKnown DEF InviteRoutes, AreKnown

LEMMA ApplicationRoutesKnown ==
  ASSUME NEW app \in Ids
  PROVE  AreKnown(ApplicationRoutes(app))
<1>1. /\ Public(<<"applications", "@me">>)
      /\ Public(<<"applications", app>>)
  BY SegmentsDiffer DEF Public, KnownPath, Known, Segments, NotWord, Words, PollAnswers, Scoped
<1> QED
  BY <1>1, PathsAreKnown DEF ApplicationRoutes, AreKnown

LEMMA GlobalCommandsKnown ==
  ASSUME NEW app \in Ids, NEW command \in Ids
  PROVE  AreKnown(GlobalCommands(app, command))
<1>1. /\ Public(<<"applications", app, "commands">>)
      /\ Public(<<"applications", app, "commands", command>>)
  BY SegmentsDiffer DEF Public, KnownPath, Known, Segments, NotWord, Words, PollAnswers, Scoped
<1> QED
  BY <1>1, PathsAreKnown DEF GlobalCommands, AreKnown

LEMMA GuildCommandsKnown ==
  ASSUME NEW app \in Ids, NEW g \in Ids, NEW command \in Ids
  PROVE  AreKnown(GuildCommands(app, g, command))
<1>1. /\ Public(<<"applications", app, "guilds", g, "commands">>)
      /\ Public(<<"applications", app, "guilds", g, "commands", command>>)
      /\ Public(<<"applications", app, "guilds", g, "commands", "permissions">>)
  BY SegmentsDiffer DEF Public, KnownPath, Known, Segments, NotWord, Words, PollAnswers, Scoped
<1> QED
  BY <1>1, PathsAreKnown DEF GuildCommands, AreKnown

LEMMA EntitlementsKnown ==
  ASSUME NEW app \in Ids, NEW entitlement \in Ids
  PROVE  AreKnown(Entitlements(app, entitlement))
<1>1. /\ Public(<<"applications", app, "skus">>)
      /\ Public(<<"applications", app, "entitlements">>)
      /\ Public(<<"applications", app, "entitlements", entitlement>>)
      /\ Public(<<"applications", app, "entitlements", entitlement, "consume">>)
  BY SegmentsDiffer DEF Public, KnownPath, Known, Segments, NotWord, Words, PollAnswers, Scoped
<1> QED
  BY <1>1, PathsAreKnown DEF Entitlements, AreKnown

LEMMA SubscriptionsKnown ==
  ASSUME NEW sku \in Ids, NEW subscription \in Ids
  PROVE  AreKnown(Subscriptions(sku, subscription))
<1>1. /\ Public(<<"skus", sku, "subscriptions">>)
      /\ Public(<<"skus", sku, "subscriptions", subscription>>)
  BY SegmentsDiffer DEF Public, KnownPath, Known, Segments, NotWord, Words, PollAnswers, Scoped
<1> QED
  BY <1>1, PathsAreKnown DEF Subscriptions, AreKnown

LEMMA GatewayRoutesKnown == AreKnown(GatewayRoutes)
<1>1. /\ Public(<<"gateway">>)
      /\ Public(<<"gateway", "bot">>)
  BY SegmentsDiffer DEF Public, KnownPath, Known, Segments, NotWord, Words, PollAnswers, Scoped
<1> QED
  BY <1>1, PathsAreKnown, AnonymousAreKnown DEF GatewayRoutes, AreKnown

LEMMA WebhooksKnown ==
  ASSUME NEW c \in Ids, NEW g \in Ids, NEW w \in Ids
  PROVE  AreKnown(Webhooks(c, g, w))
<1>1. /\ Public(<<"channels", c, "webhooks">>)
      /\ Public(<<"guilds", g, "webhooks">>)
      /\ Public(<<"webhooks", w>>)
  BY SegmentsDiffer DEF Public, KnownPath, Known, Segments, NotWord, Words, PollAnswers, Scoped
<1> QED
  BY <1>1, PathsAreKnown DEF Webhooks, AreKnown

LEMMA WebhookWithTokenKnown ==
  ASSUME NEW w \in Ids, NEW token \in Tokens
  PROVE  AreKnown(WebhookWithToken(w, token))
<1>1. KnownPath(<<"webhooks", w, token>>)
  BY SegmentsDiffer DEF Public, KnownPath, Known, Segments, NotWord, Words, PollAnswers, Scoped
<1> QED
  BY <1>1, PathsAreKnown, AnonymousAreKnown DEF WebhookWithToken, AreKnown

LEMMA WebhookMessagesKnown ==
  ASSUME NEW w \in Ids, NEW token \in Tokens, NEW m \in Ids
  PROVE  AreKnown(WebhookMessages(w, token, m))
<1>1. KnownPath(<<"webhooks", w, token, "messages", m>>)
  BY SegmentsDiffer DEF Public, KnownPath, Known, Segments, NotWord, Words, PollAnswers, Scoped
<1> QED
  BY <1>1, PathsAreKnown, AnonymousAreKnown DEF WebhookMessages, AreKnown

LEMMA InteractionReplyKnown ==
  ASSUME NEW i \in Ids, NEW app \in Ids, NEW token \in Tokens
  PROVE  AreKnown(InteractionReply(i, app, token))
<1>1. /\ KnownPath(<<"interactions", i, token, "callback">>)
      /\ KnownPath(<<"webhooks", app, token, "messages", "@original">>)
  BY SegmentsDiffer DEF Public, KnownPath, Known, Segments, NotWord, Words, PollAnswers, Scoped
<1> QED
  BY <1>1, PathsAreKnown, AnonymousAreKnown DEF InteractionReply, AreKnown

LEMMA InteractionFollowUpsKnown ==
  ASSUME NEW app \in Ids, NEW token \in Tokens, NEW m \in Ids
  PROVE  AreKnown(InteractionFollowUps(app, token, m))
<1>1. /\ KnownPath(<<"webhooks", app, token>>)
      /\ KnownPath(<<"webhooks", app, token, "messages", m>>)
  BY SegmentsDiffer DEF Public, KnownPath, Known, Segments, NotWord, Words, PollAnswers, Scoped
<1> QED
  BY <1>1, PathsAreKnown, AnonymousAreKnown DEF InteractionFollowUps, AreKnown

LEMMA EndpointsKnown == AreKnown(Endpoints)
<1>1. AreKnown(WithOneId)
  BY ArchivedThreadsKnown, GuildsKnown, GuildOnboardingKnown, GuildChannelsKnown,
     AuditLogRoutesKnown, StageInstanceRoutesKnown, ApplicationRoutesKnown
     DEF AreKnown, WithOneId
<1>2. AreKnown(WithTwoIds)
  BY ChannelMessagesKnown, ChannelPinsAndInvitesKnown, ThreadMembersKnown,
     ChannelPermissionsKnown, GuildDisplayKnown, MemberRoutesKnown, BanRoutesKnown,
     RoleRoutesKnown, AutoModerationRoutesKnown, ScheduledEventRoutesKnown, GuildEmojisKnown,
     UserRoutesKnown, ApplicationEmojisKnown, StickerRoutesKnown, GlobalCommandsKnown,
     EntitlementsKnown, SubscriptionsKnown
     DEF AreKnown, WithTwoIds
<1>3. AreKnown(WithThreeIds)
  BY GuildCommandsKnown, MemberRolesKnown, WebhooksKnown DEF AreKnown, WithThreeIds
<1>4. AreKnown(WithToken)
  BY WebhookWithTokenKnown, WebhookMessagesKnown, InteractionReplyKnown,
     InteractionFollowUpsKnown
     DEF AreKnown, WithToken
<1>5. AreKnown(WithEmoji)
  BY ChannelReactionsKnown DEF AreKnown, WithEmoji
<1>6. AreKnown(WithAnswer)
  BY PollRoutesKnown DEF AreKnown, WithAnswer
<1>7. AreKnown(WithCode)
  BY InviteRoutesKnown DEF AreKnown, WithCode
<1> QED
  BY <1>1, <1>2, <1>3, <1>4, <1>5, <1>6, <1>7, GatewayRoutesKnown DEF AreKnown, Endpoints

-----------------------------------------------------------------------------
(* What a route makes of a segment.                                        *)

Made(path, i) ==
  IF path[i] \in Emojis THEN ":emoji"
  ELSE IF i = 7 /\ path[5] = "reactions" THEN ":user"
  ELSE IF path[i] \in Ids THEN ":id"
  ELSE IF path[i] \in Tokens THEN ":token"
  ELSE path[i]

LEMMA CollapsedIs ==
  ASSUME NEW path, KnownPath(path)
  PROVE  Collapsed(path) = [i \in DOMAIN path |-> Made(path, i)]
<1> DEFINE I == {i \in 1 .. Len(path) : path[i] = "reactions"}
           after == SelectInSeq(path, LAMBDA segment : segment = "reactions")
           named == IF after = 0 THEN path
               ELSE [i \in DOMAIN path |-> IF i = after + 1 THEN ":emoji"
                                           ELSE IF i = after + 2 THEN ":user" ELSE path[i]]
           ids == [i \in DOMAIN path |-> IF named[i] \in Ids THEN ":id" ELSE named[i]]
           secret == ids[1] \in {"webhooks", "interactions"} /\ Len(ids) > 2 /\ ids[2] = ":id"
<1>1. /\ path \in Seq(Segments) /\ Len(path) \in Nat /\ Len(path) >= 1
      /\ DOMAIN path = 1 .. Len(path)
  BY DEF KnownPath
<1>2. I \subseteq {5}
  BY <1>1 DEF KnownPath
<1>3. after = IF 5 \in I THEN 5 ELSE 0
  BY <1>2 DEF SelectInSeq, Min
<1>4. 5 \in I <=> Len(path) >= 5 /\ path[5] = "reactions"
  BY <1>1
<1>5. \A i \in DOMAIN path :
        named[i] = IF path[i] \in Emojis THEN ":emoji"
                   ELSE IF i = 7 /\ path[5] = "reactions" THEN ":user" ELSE path[i]
  <2> SUFFICES ASSUME NEW i \in DOMAIN path
               PROVE  named[i] = IF path[i] \in Emojis THEN ":emoji"
                          ELSE IF i = 7 /\ path[5] = "reactions" THEN ":user" ELSE path[i]
    OBVIOUS
  <2>1. CASE 5 \in I
    <3>1. named[i] = IF i = 6 THEN ":emoji" ELSE IF i = 7 THEN ":user" ELSE path[i]
      BY <2>1, <1>3
    <3>2. path[5] = "reactions" /\ (i >= 6 => path[6] \in Emojis)
      BY <2>1, <1>4 DEF KnownPath
    <3>3. path[i] \in Emojis => i = 6
      BY DEF KnownPath
    <3> QED
      BY <3>1, <3>2, <3>3
  <2>2. CASE 5 \notin I
    <3>1. named[i] = path[i] /\ ~(Len(path) >= 5 /\ path[5] = "reactions")
      BY <2>2, <1>3, <1>4
    <3>2. path[i] \in Emojis => i = 6 /\ path[5] = "reactions"
      BY DEF KnownPath
    <3> QED
      BY <3>1, <3>2, <1>1
  <2> QED
    BY <2>1, <2>2
<1> HIDE DEF named
<1>6. DOMAIN ids = 1 .. Len(path) /\ Len(ids) = Len(path)
  BY <1>1
<1>7. \A i \in DOMAIN path :
        ids[i] = IF path[i] \in Tokens THEN path[i] ELSE Made(path, i)
  <2> SUFFICES ASSUME NEW i \in DOMAIN path
               PROVE  ids[i] = IF path[i] \in Tokens THEN path[i] ELSE Made(path, i)
    OBVIOUS
  <2>1. ids[i] = IF named[i] \in Ids THEN ":id" ELSE named[i]
    OBVIOUS
  <2>2. ":emoji" \notin Ids /\ ":user" \notin Ids
    BY SegmentsDiffer DEF NotWord, Placeholders
  <2>3. path[i] \in Tokens => i = 3 /\ path[i] \notin Ids \cup Emojis
    BY SegmentsDiffer DEF KnownPath
  <2> HIDE DEF ids
  <2> QED
    BY <1>5, <2>1, <2>2, <2>3 DEF Made
<1>8. ids[1] = path[1]
  <2>1. path[1] \in Known /\ 1 \in DOMAIN path
    BY <1>1 DEF KnownPath
  <2> QED
    BY <2>1, <1>7, SegmentsDiffer DEF Made, NotWord
<1> HIDE DEF ids
<1>9. ASSUME NEW i \in DOMAIN path
      PROVE  (IF i = 3 /\ secret THEN ":token" ELSE ids[i]) = Made(path, i)
  <2>1. CASE path[i] \in Tokens
    <3>1. i = 3 /\ path[1] \in {"webhooks", "interactions"} /\ path[2] \in Ids /\ 2 \in DOMAIN path
      BY <2>1, <1>1 DEF KnownPath
    <3>2. ids[2] = ":id" /\ Len(ids) > 2
      BY <3>1, <1>1, <1>6, <1>7, SegmentsDiffer DEF Made
    <3> QED
      BY <2>1, <3>1, <3>2, <1>8, SegmentsDiffer DEF Made
  <2>2. CASE path[i] \notin Tokens
    <3>1. ~(i = 3 /\ secret)
      BY <2>2, <1>8 DEF KnownPath
    <3> QED
      BY <3>1, <2>2, <1>7
  <2> QED
    BY <2>1, <2>2
<1> QED
  BY <1>9 DEF Collapsed, named, ids

MadeOf(path) == [i \in DOMAIN path |-> Made(path, i)]

LEMMA RoutesOfOneMethod ==
  ASSUME NEW r, NEW q, KnownPath(r.path), KnownPath(q.path), r.method = q.method
  PROVE  RouteOf(r) = RouteOf(q) <=> MadeOf(r.path) = MadeOf(q.path)
<1> DEFINE message == <<"channels", ":id", "messages", ":id">>
           longer == Append(message, "delete")
           Longer(x) == x.method = "DELETE" /\ MadeOf(x.path) = message
<1>1. ASSUME NEW x, KnownPath(x.path)
      PROVE  /\ RouteOf(x) = IF Longer(x) THEN longer ELSE MadeOf(x.path)
             /\ MadeOf(x.path) # longer
  <2>1. Collapsed(x.path) = MadeOf(x.path)
    BY <1>1, CollapsedIs DEF MadeOf
  <2>2. ASSUME MadeOf(x.path) = longer PROVE FALSE
    <3>1. 5 \in DOMAIN longer /\ longer[5] = "delete"
      <4>1. message \in Seq({"channels", ":id", "messages", "delete"})
        OBVIOUS
      <4>2. Len(message) = 4
        OBVIOUS
      <4>3. ASSUME NEW S, NEW s \in Seq(S), NEW e \in S, Len(s) = 4
            PROVE  5 \in DOMAIN Append(s, e) /\ Append(s, e)[5] = e
        <5>1. Len(s) + 1 \in DOMAIN Append(s, e) /\ Append(s, e)[Len(s) + 1] = e
          BY AppendProperties
        <5>2. Len(s) + 1 = 5
          BY <4>3
        <5> QED
          BY <5>1, <5>2
      <4>4. "delete" \in {"channels", ":id", "messages", "delete"}
        OBVIOUS
      <4> HIDE DEF message
      <4> QED
        BY <4>1, <4>2, <4>3, <4>4
    <3>2. 5 \in DOMAIN MadeOf(x.path) /\ MadeOf(x.path)[5] = "delete"
      BY <2>2, <3>1
    <3>3. 5 \in DOMAIN x.path /\ Made(x.path, 5) = "delete"
      BY <3>2 DEF MadeOf
    <3>4. x.path[5] = "delete" /\ x.path[5] \in Segments
      BY <3>3, <1>1 DEF Made, KnownPath
    <3>5. "delete" \notin Known
      BY DEF Known, Words, PollAnswers
    <3> QED
      BY <3>4, <3>5, SegmentsDiffer DEF Segments, NotWord, Placeholders
  <2> QED
    BY <2>1, <2>2 DEF RouteOf
<1>2. /\ RouteOf(r) = IF Longer(r) THEN longer ELSE MadeOf(r.path)
      /\ RouteOf(q) = IF Longer(q) THEN longer ELSE MadeOf(q.path)
      /\ MadeOf(r.path) # longer /\ MadeOf(q.path) # longer
  BY <1>1
<1> HIDE DEF longer
<1>3. CASE Longer(r) \/ Longer(q)
  BY <1>2, <1>3
<1>4. CASE ~Longer(r) /\ ~Longer(q)
  BY <1>2, <1>4
<1> QED
  BY <1>3, <1>4

\* Two segments at one place.
LEMMA WordsMade ==
  ASSUME NEW p, KnownPath(p), NEW i \in DOMAIN p, p[i] \in Known, i # 7
  PROVE  Made(p, i) = p[i]
  BY SegmentsDiffer DEF Made, NotWord

LEMMA FirstIsWord ==
  ASSUME NEW p, KnownPath(p)
  PROVE  /\ 1 \in DOMAIN p /\ p[1] \in Known /\ Made(p, 1) = p[1]
         /\ DOMAIN p = 1 .. Len(p) /\ Len(p) \in Nat /\ Len(p) >= 1
<1>1. /\ 1 \in DOMAIN p /\ p[1] \in Known
      /\ DOMAIN p = 1 .. Len(p) /\ Len(p) \in Nat /\ Len(p) >= 1
  BY DEF KnownPath
<1> QED
  BY <1>1, WordsMade

Interchanged(r, q, i) ==
  LET a == r.path[i] b == q.path[i]
  IN ~Major(r.path, i) /\
       \/ \E kind \in {Ids, Tokens, Emojis} : {a, b} \subseteq kind
       \/ Reactor(r.path, i) /\ Reactor(q.path, i)

LEMMA MadeAlike ==
  ASSUME NEW r, NEW q, KnownPath(r.path), KnownPath(q.path), MadeOf(r.path) = MadeOf(q.path),
         \A i \in DOMAIN r.path : Major(r.path, i) => r.path[i] = q.path[i],
         NEW i \in DOMAIN r.path
  PROVE  r.path[i] = q.path[i] \/ Interchanged(r, q, i)
<1> DEFINE p == r.path
           s == q.path
<1>1. DOMAIN p = DOMAIN s /\ \A j \in DOMAIN p : Made(p, j) = Made(s, j)
  BY DEF MadeOf
<1>2. p[i] \in Segments /\ s[i] \in Segments
  BY <1>1 DEF KnownPath
<1>3. Segments \cap Placeholders = {}
  BY SegmentsDiffer DEF Segments, NotWord, Known, Words, PollAnswers, Placeholders
<1>4. i >= 6 => (p[5] = "reactions" <=> s[5] = "reactions")
  <2>1. CASE i >= 6
    <3>1. 5 \in DOMAIN p /\ 5 \in DOMAIN s
      BY <2>1, <1>1, FirstIsWord
    <3>2. "reactions" \in Known
      BY DEF Known, Words
    <3>3. /\ p[5] = "reactions" => Made(p, 5) = "reactions"
          /\ s[5] = "reactions" => Made(s, 5) = "reactions"
      BY <3>1, <3>2, WordsMade
    <3>4. /\ Made(p, 5) = "reactions" => p[5] = "reactions"
          /\ Made(s, 5) = "reactions" => s[5] = "reactions"
      BY DEF Made
    <3> QED
      BY <3>1, <3>3, <3>4, <1>1
  <2> QED
    BY <2>1
<1>5. Made(p, i) = Made(s, i)
  BY <1>1
<1>6. CASE Made(p, i) = ":emoji"
  <2>1. p[i] \in Emojis /\ s[i] \in Emojis /\ i = 6
    BY <1>1, <1>2, <1>3, <1>5, <1>6 DEF Made, Placeholders, KnownPath
  <2> QED
    BY <2>1 DEF Interchanged, Major
<1>7. CASE Made(p, i) = ":user"
  <2>1. i = 7 /\ p[5] = "reactions" /\ s[5] = "reactions"
    BY <1>2, <1>3, <1>5, <1>7 DEF Made, Placeholders
  <2>2. p[7] \in Ids \cup {"@me"} /\ s[7] \in Ids \cup {"@me"}
    BY <1>1, <2>1 DEF KnownPath
  <2> QED
    BY <2>1, <2>2 DEF Interchanged, Major, Reactor
<1>8. CASE Made(p, i) = ":id"
  <2>1. p[i] \in Ids /\ s[i] \in Ids
    BY <1>2, <1>3, <1>5, <1>8 DEF Made, Placeholders
  <2> QED
    BY <2>1 DEF Interchanged
<1>9. CASE Made(p, i) = ":token"
  <2>1. p[i] \in Tokens /\ s[i] \in Tokens
    BY <1>2, <1>3, <1>5, <1>9 DEF Made, Placeholders
  <2> QED
    BY <2>1 DEF Interchanged
<1>10. CASE Made(p, i) \notin {":emoji", ":user", ":id", ":token"}
  BY <1>5, <1>10 DEF Made
<1> QED
  BY <1>6, <1>7, <1>8, <1>9, <1>10

LEMMA AlikeMade ==
  ASSUME NEW r, NEW q, KnownPath(r.path), KnownPath(q.path), DOMAIN r.path = DOMAIN q.path,
         \A i \in DOMAIN r.path : r.path[i] = q.path[i] \/ Interchanged(r, q, i)
  PROVE  MadeOf(r.path) = MadeOf(q.path) /\ r.path[1] = q.path[1]
<1> DEFINE p == r.path
           s == q.path
<1>1. p[1] = s[1]
  BY FirstIsWord, SegmentsDiffer DEF Interchanged, Reactor, NotWord
<1>2. 5 \in DOMAIN p => (p[5] = "reactions" <=> s[5] = "reactions")
  <2>1. "reactions" \in Known
    BY DEF Known, Words
  <2> QED
    BY <2>1, SegmentsDiffer DEF Interchanged, Reactor, NotWord
<1>3. ASSUME NEW i \in DOMAIN p PROVE Made(p, i) = Made(s, i)
  <2>1. i = 7 => 5 \in DOMAIN p
    BY FirstIsWord
  <2>2. CASE p[i] = s[i]
    BY <1>2, <2>1, <2>2 DEF Made
  <2>3. CASE {p[i], s[i]} \subseteq Ids
    BY <1>2, <2>1, <2>3, SegmentsDiffer DEF Made
  <2>4. CASE {p[i], s[i]} \subseteq Tokens
    <3>1. i = 3
      BY <2>4 DEF KnownPath
    <3> QED
      BY <3>1, <2>4, SegmentsDiffer DEF Made
  <2>5. CASE {p[i], s[i]} \subseteq Emojis
    BY <2>5 DEF Made
  <2>6. CASE Reactor(p, i) /\ Reactor(s, i)
    <3>1. p[i] \notin Emojis /\ s[i] \notin Emojis
      BY <2>6 DEF KnownPath, Reactor
    <3> QED
      BY <2>6, <3>1 DEF Made, Reactor
  <2> QED
    BY <2>2, <2>3, <2>4, <2>5, <2>6 DEF Interchanged
<1> QED
  BY <1>1, <1>3 DEF MadeOf

OneQueue(r, q) ==
  /\ r.method = q.method /\ Len(r.path) = Len(q.path)
  /\ \A i \in DOMAIN r.path : r.path[i] = q.path[i] \/ Interchanged(r, q, i)

LEMMA OneQueueIs ==
  ASSUME NEW r, NEW q
  PROVE  OneQueue(r, q) <=> OneEndpoint(r, q) /\ UnderOneMajor(r, q) /\ OneText(r, q)
<1>1. ASSUME OneQueue(r, q) PROVE OneEndpoint(r, q)
  BY <1>1 DEF OneQueue, OneEndpoint, Interchanged, Arguments
<1>2. ASSUME OneQueue(r, q) PROVE UnderOneMajor(r, q)
  BY <1>2 DEF OneQueue, UnderOneMajor, Interchanged
<1>3. ASSUME OneQueue(r, q) PROVE OneText(r, q)
  <2>1. ASSUME NEW x \in Codes \cup PollAnswers
        PROVE  x \notin Ids \cup Tokens \cup Emojis \cup {"@me"}
    BY <2>1, SegmentsDiffer DEF NotWord, Known, Words, PollAnswers
  <2> QED
    BY <1>3, <2>1 DEF OneQueue, OneText, Interchanged, Reactor
<1>4. ASSUME OneEndpoint(r, q), UnderOneMajor(r, q), OneText(r, q) PROVE OneQueue(r, q)
  <2>1. ASSUME NEW i \in DOMAIN r.path, r.path[i] # q.path[i] PROVE Interchanged(r, q, i)
    <3>1. ~Major(r.path, i) /\ r.path[i] \notin Codes \cup PollAnswers
      BY <1>4, <2>1 DEF UnderOneMajor, OneText
    <3>2. Arguments(r, q, i)
      BY <1>4, <2>1 DEF OneEndpoint
    <3> QED
      BY <3>1, <3>2 DEF Arguments, Interchanged
  <2> QED
    BY <1>4, <2>1 DEF OneQueue, OneEndpoint
<1> QED
  BY <1>1, <1>2, <1>3, <1>4

\* Two requests wait in one queue if, and only if, they are of one endpoint, under one channel,
\* guild or webhook, and name the same invite or the same answer if they name one.
LEMMA KeyIsOneQueue ==
  ASSUME NEW r \in Endpoints, NEW q \in Endpoints
  PROVE  HandlerKey(r) = HandlerKey(q) <=> OneQueue(r, q)
<1> DEFINE p == r.path
           s == q.path
           majors == \A i \in DOMAIN p : Major(p, i) => p[i] = s[i]
<1>1. KnownPath(p) /\ KnownPath(s)
  BY EndpointsKnown DEF AreKnown, KnownRequest
<1>2. /\ DOMAIN p = 1 .. Len(p) /\ DOMAIN s = 1 .. Len(s) /\ Len(p) \in Nat /\ Len(s) \in Nat
      /\ 1 \in DOMAIN p /\ 1 \in DOMAIN s /\ Len(p) >= 1 /\ Len(s) >= 1
      /\ Made(p, 1) = p[1] /\ Made(s, 1) = s[1]
  BY <1>1, FirstIsWord
<1>3. ASSUME Len(p) = Len(s), p[1] = s[1]
      PROVE  MajorParameter(p) = MajorParameter(s) <=> majors
  <2>1. CASE Len(p) < 2 \/ p[1] \notin Scoped
    <3>1. MajorParameter(p) = MajorParameter(s)
      BY <2>1, <1>3 DEF MajorParameter
    <3>2. majors
      BY <2>1, <1>2, <1>3 DEF Major, Scoped
    <3> QED
      BY <3>1, <3>2
  <2>2. CASE Len(p) >= 2 /\ p[1] \in Scoped
    <3>1. p[2] \in Ids /\ s[2] \in Ids
      BY <2>2, <1>1, <1>2, <1>3 DEF KnownPath
    <3>2. CASE p[1] = "webhooks" /\ Len(p) > 2
      <4>1. MajorParameter(p) = <<p[2], p[3]>> /\ MajorParameter(s) = <<s[2], s[3]>>
        BY <2>2, <3>1, <3>2, <1>2, <1>3 DEF MajorParameter
      <4>2. majors <=> p[2] = s[2] /\ p[3] = s[3]
        BY <2>2, <3>2, <1>2 DEF Major
      <4> QED
        BY <4>1, <4>2
    <3>3. CASE ~(p[1] = "webhooks" /\ Len(p) > 2)
      <4>1. MajorParameter(p) = <<p[2]>> /\ MajorParameter(s) = <<s[2]>>
        BY <2>2, <3>1, <3>3, <1>2, <1>3 DEF MajorParameter
      <4>2. majors <=> p[2] = s[2]
        BY <2>2, <3>3, <1>2 DEF Major
      <4> QED
        BY <4>1, <4>2
    <3> QED
      BY <3>2, <3>3
  <2> QED
    BY <2>1, <2>2, <1>2
<1>4. ASSUME HandlerKey(r) = HandlerKey(q) PROVE OneQueue(r, q)
  <2>1. r.method = q.method /\ RouteOf(r) = RouteOf(q) /\ MajorParameter(p) = MajorParameter(s)
    BY <1>4 DEF HandlerKey
  <2>2. MadeOf(p) = MadeOf(s)
    BY <2>1, <1>1, RoutesOfOneMethod
  <2>3. DOMAIN p = DOMAIN s /\ p[1] = s[1]
    BY <2>2, <1>2 DEF MadeOf
  <2>4. Len(p) = Len(s)
    <3>1. Len(p) \in DOMAIN p /\ Len(s) \in DOMAIN s
      BY <1>2
    <3>2. Len(p) \in DOMAIN s /\ Len(s) \in DOMAIN p
      BY <2>3, <3>1
    <3> QED
      BY <3>2, <1>2
  <2>5. majors
    BY <2>1, <2>3, <2>4, <1>3
  <2>6. \A i \in DOMAIN p : p[i] = s[i] \/ Interchanged(r, q, i)
    BY <1>1, <2>2, <2>5, MadeAlike
  <2> QED
    BY <2>1, <2>4, <2>6 DEF OneQueue
<1>5. ASSUME OneQueue(r, q) PROVE HandlerKey(r) = HandlerKey(q)
  <2>1. /\ r.method = q.method /\ Len(p) = Len(s)
        /\ \A i \in DOMAIN p : p[i] = s[i] \/ Interchanged(r, q, i)
    BY <1>5 DEF OneQueue
  <2>2. DOMAIN p = DOMAIN s
    BY <2>1, <1>2
  <2>3. MadeOf(p) = MadeOf(s) /\ p[1] = s[1]
    BY <1>1, <2>1, <2>2, AlikeMade
  <2>4. majors
    BY <2>1 DEF Interchanged
  <2>5. RouteOf(r) = RouteOf(q)
    BY <1>1, <2>1, <2>3, RoutesOfOneMethod
  <2> QED
    BY <1>3, <2>1, <2>3, <2>4, <2>5 DEF HandlerKey
<1> QED
  BY <1>4, <1>5

\* No route names an entity, a token or an emoji.
LEMMA RouteTellsNothing ==
  ASSUME NEW r, KnownPath(r.path)
  PROVE  ToSet(RouteOf(r)) \cap (Ids \cup Tokens \cup Emojis) = {}
<1>1. ASSUME NEW i \in DOMAIN r.path PROVE Made(r.path, i) \notin Ids \cup Tokens \cup Emojis
  <2>1. {":emoji", ":user", ":id", ":token"} \cap (Ids \cup Tokens \cup Emojis) = {}
    BY SegmentsDiffer DEF NotWord, Placeholders
  <2> QED
    BY <2>1 DEF Made
<1>2. ToSet(MadeOf(r.path)) \cap (Ids \cup Tokens \cup Emojis) = {}
  BY <1>1 DEF ToSet, MadeOf
<1>3. Collapsed(r.path) = MadeOf(r.path)
  BY CollapsedIs DEF MadeOf
<1>4. CASE RouteOf(r) = MadeOf(r.path)
  BY <1>2, <1>4
<1>5. CASE RouteOf(r) = Append(<<"channels", ":id", "messages", ":id">>, "delete")
  <2>1. {"channels", ":id", "messages", "delete"} \cap (Ids \cup Tokens \cup Emojis) = {}
    BY SegmentsDiffer DEF NotWord, Placeholders, Known, Words
  <2>2. <<"channels", ":id", "messages", ":id">> \in Seq({"channels", ":id", "messages", "delete"})
    OBVIOUS
  <2>3. "delete" \in {"channels", ":id", "messages", "delete"}
    OBVIOUS
  <2>4. RouteOf(r) \in Seq({"channels", ":id", "messages", "delete"})
    BY <1>5, <2>2, <2>3, AppendProperties
  <2>5. ToSet(RouteOf(r)) \subseteq {"channels", ":id", "messages", "delete"}
    BY <2>4 DEF ToSet
  <2> QED
    BY <2>1, <2>5
<1> QED
  BY <1>3, <1>4, <1>5 DEF RouteOf

-----------------------------------------------------------------------------
(* Handlers and their queues.                                              *)

Calls == [request : Endpoints, handler : Nat]

\* A handler serves one key, and the handler of a request that waits is that of its key still.
RoutesInv ==
  /\ requested \in Nat /\ outstanding \in Seq(Calls)
  /\ \A key \in DOMAIN handlers :
       /\ handlers[key] \in 1 .. requested
       /\ \E r \in Endpoints : key = HandlerKey(r)
  /\ \A k, l \in DOMAIN handlers : handlers[k] = handlers[l] => k = l
  /\ \A i \in DOMAIN outstanding : Serialised(outstanding[i].request) =>
       LET key == HandlerKey(outstanding[i].request)
       IN key \in DOMAIN handlers /\ handlers[key] = outstanding[i].handler

LEMMA RemovedAre ==
  ASSUME NEW S, NEW s \in Seq(S), NEW i \in DOMAIN s
  PROVE  /\ RemoveAt(s, i) \in Seq(S)
         /\ \A j \in DOMAIN RemoveAt(s, i) : \E k \in DOMAIN s : RemoveAt(s, i)[j] = s[k]
<1>1. ASSUME NEW T, \A k \in DOMAIN s : s[k] \in T PROVE RemoveAt(s, i) \in Seq(T)
  <2>1. /\ i \in Int /\ 1 <= i /\ i <= Len(s) /\ Len(s) \in Nat
        /\ \A k \in 1 .. Len(s) : s[k] \in T
    BY <1>1
  <2>2. \A k \in 1 .. i - 1 : s[k] \in T
    BY <2>1
  <2>3. \A k \in i + 1 .. Len(s) : s[k] \in T
    BY <2>1
  <2>4. SubSeq(s, 1, i - 1) \in Seq(T) /\ SubSeq(s, i + 1, Len(s)) \in Seq(T)
    BY <2>1, <2>2, <2>3, SubSeqProperties
  <2> QED
    BY <2>4, ConcatProperties DEF RemoveAt
<1>2. RemoveAt(s, i) \in Seq(S)
  BY <1>1
<1>3. RemoveAt(s, i) \in Seq({s[k] : k \in DOMAIN s})
  BY <1>1
<1>4. \A j \in DOMAIN RemoveAt(s, i) : RemoveAt(s, i)[j] \in {s[k] : k \in DOMAIN s}
  BY <1>3
<1> QED
  BY <1>2, <1>4

LEMMA RawSound ==
  ASSUME RoutesInv, NEW r \in Endpoints, Raw(r) PROVE RoutesInv'
<1> DEFINE key == HandlerKey(r)
           call == [request |-> r, handler |-> handlers'[key]]
<1>1. /\ requested \in Nat /\ requested' = requested + 1 /\ outstanding \in Seq(Calls)
      /\ outstanding' = Append(outstanding, call)
  BY DEF RoutesInv, Raw
<1>2. /\ DOMAIN handlers' = DOMAIN handlers \cup {key}
      /\ \A k \in DOMAIN handlers : handlers'[k] = handlers[k]
      /\ key \notin DOMAIN handlers => handlers'[key] = requested + 1
  BY <1>1 DEF Raw
<1>3. \A k \in DOMAIN handlers : handlers[k] \in 1 .. requested
  BY DEF RoutesInv
<1> HIDE DEF key
<1>4. \A k \in DOMAIN handlers' : handlers'[k] \in 1 .. requested'
  BY <1>1, <1>2, <1>3
<1>5. \A k, l \in DOMAIN handlers' : handlers'[k] = handlers'[l] => k = l
  BY <1>1, <1>2, <1>3 DEF RoutesInv
<1>6. \A k \in DOMAIN handlers' : \E q \in Endpoints : k = HandlerKey(q)
  BY <1>2 DEF RoutesInv, key
<1>7. call \in Calls
  BY <1>2, <1>4, <1>1 DEF Calls
<1> HIDE DEF call
<1>8. /\ outstanding' \in Seq(Calls) /\ Len(outstanding') = Len(outstanding) + 1
      /\ \A i \in DOMAIN outstanding' :
           IF i \in DOMAIN outstanding THEN outstanding'[i] = outstanding[i]
           ELSE outstanding'[i] = call
  BY <1>1, <1>7
<1>9. ASSUME NEW i \in DOMAIN outstanding', Serialised(outstanding'[i].request)
      PROVE  /\ HandlerKey(outstanding'[i].request) \in DOMAIN handlers'
             /\ handlers'[HandlerKey(outstanding'[i].request)] = outstanding'[i].handler
  <2>1. CASE i \in DOMAIN outstanding
    BY <1>2, <1>8, <1>9, <2>1 DEF RoutesInv
  <2>2. CASE i \notin DOMAIN outstanding
    BY <1>2, <1>8, <2>2 DEF call, key
  <2> QED
    BY <2>1, <2>2
<1> QED
  BY <1>1, <1>4, <1>5, <1>6, <1>8, <1>9 DEF RoutesInv

LEMMA RespondSound ==
  ASSUME RoutesInv, NEW i \in DOMAIN outstanding, Respond(i) PROVE RoutesInv'
<1>1. /\ outstanding' = RemoveAt(outstanding, i) /\ outstanding \in Seq(Calls)
      /\ handlers' = handlers /\ requested' = requested
  BY DEF RoutesInv, Respond
<1>2. /\ outstanding' \in Seq(Calls)
      /\ \A j \in DOMAIN outstanding' : \E k \in DOMAIN outstanding :
           outstanding'[j] = outstanding[k]
  BY <1>1, RemovedAre
<1> QED
  BY <1>1, <1>2 DEF RoutesInv

LEMMA SweepSound == ASSUME RoutesInv, Sweep PROVE RoutesInv'
<1>1. /\ outstanding' = outstanding /\ requested' = requested
      /\ DOMAIN handlers' = {key \in DOMAIN handlers : ~Inactive(handlers[key])}
      /\ \A key \in DOMAIN handlers' : handlers'[key] = handlers[key]
  BY DEF Sweep, Restrict
<1>2. ASSUME NEW i \in DOMAIN outstanding, Serialised(outstanding[i].request)
      PROVE  HandlerKey(outstanding[i].request) \in DOMAIN handlers'
  BY <1>1, <1>2 DEF RoutesInv, Inactive
<1> QED
  BY <1>1, <1>2 DEF RoutesInv

LEMMA RoutesInvIsEnough == RoutesInv => RoutesKeepApart
<1> SUFFICES ASSUME RoutesInv PROVE RoutesKeepApart
  OBVIOUS
<1>1. \A i \in DOMAIN outstanding : outstanding[i].request \in Endpoints
  <2>1. \A i \in DOMAIN outstanding : outstanding[i] \in Calls
    BY DEF RoutesInv
  <2> QED
    BY <2>1 DEF Calls
<1>2. QueuesAreApart /\ QueuesAreWhole
  <2>1. ASSUME NEW i \in InAQueue, NEW j \in InAQueue
        PROVE  outstanding[i].handler = outstanding[j].handler
                 <=> /\ OneEndpoint(outstanding[i].request, outstanding[j].request)
                     /\ UnderOneMajor(outstanding[i].request, outstanding[j].request)
                     /\ OneText(outstanding[i].request, outstanding[j].request)
    <3>1. /\ i \in DOMAIN outstanding /\ j \in DOMAIN outstanding
          /\ Serialised(outstanding[i].request) /\ Serialised(outstanding[j].request)
      BY DEF InAQueue
    <3>2. outstanding[i].handler = outstanding[j].handler
            <=> HandlerKey(outstanding[i].request) = HandlerKey(outstanding[j].request)
      BY <3>1 DEF RoutesInv
    <3> QED
      BY <1>1, <3>1, <3>2, KeyIsOneQueue, OneQueueIs
  <2> QED
    BY <2>1 DEF QueuesAreApart, QueuesAreWhole
<1>3. NothingLeaks
  <2>1. ASSUME NEW key \in DOMAIN handlers
        PROVE  ToSet(key[2]) \cap (Ids \cup Tokens \cup Emojis) = {}
    <3>1. PICK r \in Endpoints : key = HandlerKey(r)
      BY DEF RoutesInv
    <3>2. KnownPath(r.path)
      BY EndpointsKnown DEF AreKnown, KnownRequest
    <3> QED
      BY <3>1, <3>2, RouteTellsNothing DEF HandlerKey
  <2>2. ASSUME NEW i \in DOMAIN outstanding, ToSet(outstanding[i].request.path) \cap Tokens # {}
        PROVE  ~outstanding[i].request.auth
    BY <1>1, <2>2, EndpointsKnown DEF AreKnown, KnownRequest, Public, ToSet
  <2> QED
    BY <2>1, <2>2 DEF NothingLeaks
<1>4. OnlyCallbacksOvertake
  BY <1>1, EndpointsKnown
  DEF OnlyCallbacksOvertake, AreKnown, KnownRequest, KnownPath, Serialised, Last
<1> QED
  BY <1>2, <1>3, <1>4 DEF RoutesKeepApart

RoutesSpec == RoutesInit /\ [][RoutesNext]_routesVars

\* Whatever is asked for, answered and swept, no queue is of two endpoints or of two channels,
\* guilds or webhooks; calls of one endpoint under one of them wait in one queue, but for those
\* of different invites or answers; no route names an entity, a token or an emoji; only an
\* interaction's callback overtakes; and no request with a token of its own carries the bot's.
THEOREM RoutesStayApart == RoutesSpec => []RoutesKeepApart
<1>1. RoutesInit => RoutesInv
  <2> SUFFICES ASSUME RoutesInit PROVE RoutesInv
    OBVIOUS
  <2>1. outstanding \in Seq(Calls) /\ DOMAIN outstanding = {} /\ DOMAIN handlers = {}
    BY DEF RoutesInit
  <2> QED
    BY <2>1 DEF RoutesInit, RoutesInv
<1>2. RoutesInv /\ [RoutesNext]_routesVars => RoutesInv'
  <2> SUFFICES ASSUME RoutesInv, [RoutesNext]_routesVars PROVE RoutesInv'
    OBVIOUS
  <2>1. CASE SetToken \/ UNCHANGED routesVars
    BY <2>1 DEF SetToken, routesVars, RoutesInv
  <2>2. CASE \E r \in Endpoints : Raw(r)
    BY <2>2, RawSound
  <2>3. CASE \E i \in DOMAIN outstanding : Respond(i)
    BY <2>3, RespondSound
  <2>4. CASE Sweep
    BY <2>4, SweepSound
  <2> QED
    BY <2>1, <2>2, <2>3, <2>4 DEF RoutesNext
<1> QED
  BY <1>1, <1>2, RoutesInvIsEnough, PTL DEF RoutesSpec
=============================================================================
