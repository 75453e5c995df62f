----------------------------- MODULE ShardProofs -----------------------------
(***************************************************************************)
(* Theorems about Shard, for every number of slots, calls, session ids,    *)
(* sequence numbers and attempts.                                          *)
(*                                                                         *)
(* TypeCorrect and RetriesAreBounded hold of every caller and store.  The  *)
(* others assume the calls ShardManager makes and a store that answers     *)
(* promptly, and neither assumption can be dropped: see                    *)
(* shard_stopped_reconnects and README.md.                                 *)
(***************************************************************************)
EXTENDS Shard, TLAPS

-----------------------------------------------------------------------------
(* Type correctness. *)

\* TypeOK is not inductive alone: #clearTimers decrements rcArmed only because a
\* timer the shard holds is still armed.
TypeInv == TypeOK /\ (rcHeld => rcArmed > 0)

LEMMA CodeTypes ==
  /\ Abnormal \in Nat /\ RateLimited \in Nat /\ CLOSE_RESUMABLE \in Nat
  BY DEF Abnormal, RateLimited, CLOSE_RESUMABLE

LEMMA BumpType == ASSUME NEW n \in Nat, NEW b \in Nat PROVE Bump(n, b) \in Nat
  BY DEF Bump

LEMMA FreeSocketType == FreeSocket \in Sockets
  BY ShardAssumption DEF FreeSocket, Sockets

LEMMA NoSessionTypes == NoSession \in Sessions /\ NoRecord \in Records
  BY ShardAssumption DEF NoSession, Sessions, NoRecord, Records

LEMMA IdleCallType == IdleCall \in CallRecords
  BY NoSessionTypes DEF IdleCall, CallRecords

\* Disposing of a socket, closing it or recording its end leaves sockets.
LEMMA SocketOps ==
  ASSUME NEW sk \in [Slots -> Sockets], NEW s \in Slots \cup {0}
  PROVE  /\ Dispose(sk, s) \in [Slots -> Sockets]
         /\ Close(sk, s) \in [Slots -> Sockets]
         /\ s # 0 => Ended(sk, s) \in [Slots -> Sockets]
  <1>1. Dispose(sk, s) \in [Slots -> Sockets]
    BY FreeSocketType DEF Dispose
  <1>2. Close(sk, s) \in [Slots -> Sockets]
    <2>1. CASE s = 0
      BY <2>1 DEF Close
    <2>2. CASE s # 0
      <3>1. s \in Slots /\ sk[s] \in Sockets
        BY <2>2
      <3>2. [sk[s] EXCEPT !.beating = FALSE, !.phase =
               IF sk[s].phase = "open" THEN "closing" ELSE @] \in Sockets
        BY <3>1 DEF Sockets
      <3>3. Close(sk, s) = [sk EXCEPT ![s] = [sk[s] EXCEPT !.beating = FALSE,
               !.phase = IF sk[s].phase = "open" THEN "closing" ELSE @]]
        BY <2>2, <3>1 DEF Close
      <3>4. QED  BY <3>2, <3>3
    <2>3. QED  BY <2>1, <2>2
  <1>3. s # 0 => Ended(sk, s) \in [Slots -> Sockets]
    BY <1>1 DEF Ended, Sockets
  <1>4. QED  BY <1>1, <1>2, <1>3

\* Scheduling a reconnect keeps the types, whatever well-typed outcome of the
\* handler it is given.
LEMMA ScheduleTypes ==
  ASSUME TypeInv, NEW sk \in [Slots -> Sockets], NEW ses \in Sessions,
         NEW rec \in Records, NEW att \in Nat,
         ScheduleReconnect(sk, ses, rec, att),
         closingIntent' \in ClosingIntent,
         hsArmed' \in SUBSET Slots, hsHeld' \in Slots \cup {0}
  PROVE  TypeInv'
  <1>1. sock' \in [Slots -> Sockets]
    BY SocketOps DEF ScheduleReconnect, TypeInv, TypeOK
  <1>2. session' \in Sessions /\ store' \in Records
    BY NoSessionTypes DEF ScheduleReconnect
  <1>3. attempt' \in Nat /\ retries' \in Nat
    <2>1. AttemptBound \in Nat /\ MaxAttempts + 1 \in Nat
      BY ShardAssumption DEF AttemptBound, Max2
    <2>2. Bump(att, AttemptBound) \in Nat /\ Bump(retries, MaxAttempts + 1) \in Nat
      BY <2>1, BumpType DEF TypeInv, TypeOK
    <2>3. QED  BY <2>2 DEF ScheduleReconnect, TypeInv, TypeOK
  <1>4. rcArmed' \in Nat /\ rcHeld' \in BOOLEAN /\ (rcHeld' => rcArmed' > 0)
    <2>1. CASE UNCHANGED <<rcArmed, rcHeld>>
      BY <2>1 DEF TypeInv, TypeOK
    <2>2. CASE ArmReconnect
      BY <2>2 DEF ArmReconnect, TypeInv, TypeOK
    <2>3. QED  BY <2>1, <2>2 DEF ScheduleReconnect
  <1>5. /\ state' \in ShardState /\ connection' \in Slots \cup {0}
        /\ gaveUp' \in BOOLEAN
    BY DEF ScheduleReconnect, ShardState, TypeInv, TypeOK
  <1>6. QED
    BY <1>1, <1>2, <1>3, <1>4, <1>5 DEF ScheduleReconnect, TypeInv, TypeOK

LEMMA OpenTypes ==
  ASSUME TypeInv, NEW ses \in Sessions, OpenConnection(ses),
         session' \in Sessions,
         rcArmed' \in Nat, rcHeld' \in BOOLEAN, rcHeld' => rcArmed' > 0,
         calls' \in [Calls -> CallRecords],
         UNCHANGED <<attempt, store, delivered, retries, gaveUp>>
  PROVE  TypeInv'
  <1>1. PICK s \in Slots :
          /\ sock' = [sock EXCEPT ![s].phase = "connecting"]
          /\ connection' = s /\ hsArmed' = hsArmed \cup {s} /\ hsHeld' = s
          /\ intent' = ConnectIntent(ses)
          /\ closingIntent' = "null" /\ replaying' = FALSE /\ state' = "connecting"
          /\ resumeOpens' = IF Resumable(ses) THEN Bump(resumeOpens, TriesBound) ELSE 0
    BY DEF OpenConnection
  <1>2. sock' \in [Slots -> Sockets]
    BY <1>1 DEF TypeInv, TypeOK, Sockets
  <1>3. /\ resumeOpens' \in Nat /\ state' \in ShardState
        /\ intent' \in {"identify", "resume"} /\ closingIntent' \in ClosingIntent
        /\ replaying' \in BOOLEAN
    <2>1. TriesBound \in Nat
      BY ShardAssumption DEF TriesBound
    <2>2. Bump(resumeOpens, TriesBound) \in Nat
      BY <2>1, BumpType DEF TypeInv, TypeOK
    <2>3. resumeOpens' \in Nat
      BY <1>1, <2>2
    <2>4. intent' \in {"identify", "resume"}
      BY <1>1 DEF ConnectIntent
    <2>5. QED
      BY <1>1, <2>3, <2>4 DEF ShardState, ClosingIntent
  <1>4. QED  BY <1>1, <1>2, <1>3 DEF TypeInv, TypeOK

LEMMA CallTypes ==
  ASSUME TypeInv, NEW c \in Calls, CallStep(c)
  PROVE  TypeInv'
  <1>1. CASE Connect(c)
    <2>1. [IdleCall EXCEPT !.op = "connect",
             !.rec = IF session.id # 0 THEN NoRecord ELSE store] \in CallRecords
      BY NoSessionTypes, IdleCallType DEF TypeInv, TypeOK, CallRecords
    <2>2. calls' \in [Calls -> CallRecords]
      BY <1>1, <2>1 DEF Connect, TypeInv, TypeOK
    <2>3. QED
      BY <1>1, <2>2 DEF Connect, TypeInv, TypeOK, machine, timers, history
  <1>2. CASE ConnectLoaded(c)
    <2> DEFINE rec == calls[c].rec
               ses == IF rec.id = 0 THEN session
                      ELSE [session EXCEPT !.id = rec.id, !.seq = rec.seq]
    <2>1. rec \in Records
      BY DEF TypeInv, TypeOK, CallRecords
    <2>2. ses \in Sessions
      BY <2>1 DEF TypeInv, TypeOK, Sessions, Records
    <2>3. calls' \in [Calls -> CallRecords]
      BY <1>2, IdleCallType DEF ConnectLoaded, TypeInv, TypeOK
    <2>4. /\ session' = ses /\ OpenConnection(ses)
          /\ UNCHANGED <<rcArmed, rcHeld, attempt, store, delivered, retries, gaveUp>>
      BY <1>2 DEF ConnectLoaded
    <2> HIDE DEF ses
    <2>5. QED  BY <2>2, <2>3, <2>4, OpenTypes DEF TypeInv, TypeOK
  <1>3. CASE DestroyStored(c)
    <2>1. calls[c].conn \in Slots \cup {0}
      BY DEF TypeInv, TypeOK, CallRecords
    <2>2. /\ sock' \in [Slots -> Sockets] /\ connection' \in Slots \cup {0}
          /\ state' \in ShardState /\ closingIntent' \in ClosingIntent
      BY <1>3, <2>1, SocketOps
      DEF DestroyStored, StateAfterDestroy, ShardState, ClosingIntent, TypeInv, TypeOK
    <2>3. calls' \in [Calls -> CallRecords]
      BY <1>3, IdleCallType DEF DestroyStored, TypeInv, TypeOK
    <2>4. QED
      BY <1>3, <2>2, <2>3 DEF DestroyStored, TypeInv, TypeOK, timers, history
  <1>4. ASSUME NEW recover \in Recovers, Destroy(c, recover)
        PROVE  TypeInv'
    <2>1. [IdleCall EXCEPT !.op = "destroy", !.conn = connection,
                           !.recover = recover] \in CallRecords
      BY ShardAssumption, IdleCallType DEF TypeInv, TypeOK, CallRecords
    <2>2. calls' \in [Calls -> CallRecords]
      BY <1>4, <2>1 DEF Destroy, TypeInv, TypeOK
    <2>3. session' \in Sessions /\ store' \in Records
      BY <1>4, NoSessionTypes DEF Destroy, TypeInv, TypeOK, Sessions, Records
    <2>4. /\ hsArmed' \in SUBSET Slots /\ hsHeld' \in Slots \cup {0}
      BY <1>4 DEF Destroy, ClearHandshakeTimer, TypeInv, TypeOK
    <2>5. rcArmed' \in Nat /\ rcHeld' = FALSE
      <3>1. CASE rcHeld
        BY <1>4, <3>1 DEF Destroy, ClearReconnectTimer, TypeInv, TypeOK
      <3>2. CASE ~rcHeld
        BY <1>4, <3>2 DEF Destroy, ClearReconnectTimer, TypeInv, TypeOK
      <3>3. QED  BY <3>1, <3>2
    <2>6. QED
      BY <1>4, <2>2, <2>3, <2>4, <2>5 DEF Destroy, TypeInv, TypeOK, machine, history
  <1>5. QED  BY <1>1, <1>2, <1>3, <1>4 DEF CallStep

\* What the close event leads to keeps the types.
LEMMA OnCloseTypes ==
  ASSUME TypeInv, NEW sk \in [Slots -> Sockets], NEW code \in Nat, OnClose(sk, code)
  PROVE  TypeInv'
  <1>1. /\ hsArmed' \in SUBSET Slots /\ hsHeld' \in Slots \cup {0}
        /\ closingIntent' \in ClosingIntent
    BY DEF OnClose, ClearHandshakeTimer, TypeInv, TypeOK
  <1>2. CASE state \in {"closing", "closed"}
    BY <1>1, <1>2 DEF OnClose, TypeInv, TypeOK, history
  <1>3. CASE /\ state \notin {"closing", "closed"}
             /\ ResolveCloseVerdict(closingIntent # "null", code) = "fatal"
    <2>1. Dispose(sk, connection) \in [Slots -> Sockets]
      BY SocketOps DEF TypeInv, TypeOK
    <2>2. /\ sock' = Dispose(sk, connection) /\ connection' = 0
          /\ state' = "fatal" /\ gaveUp' = FALSE
          /\ UNCHANGED <<intent, replaying, rcArmed, rcHeld, session, attempt,
                         store, calls, delivered, retries, resumeOpens>>
      BY <1>3 DEF OnClose
    <2>3. QED
      BY <1>1, <2>1, <2>2 DEF ShardState, TypeInv, TypeOK
  <1>4. CASE /\ state \notin {"closing", "closed"}
             /\ ResolveCloseVerdict(closingIntent # "null", code) # "fatal"
    <2> DEFINE lost == ResolveCloseVerdict(closingIntent # "null", code) = "re-identify"
               ses == IF lost THEN NoSession ELSE session
               rec == IF lost THEN NoRecord ELSE store
               att == IF code = RateLimited THEN Max2(attempt, CapAttempt) ELSE attempt
    <2>1. ses \in Sessions /\ rec \in Records
      BY NoSessionTypes DEF TypeInv, TypeOK
    <2>2. att \in Nat
      BY ShardAssumption DEF Max2, TypeInv, TypeOK
    <2>3. ScheduleReconnect(sk, ses, rec, att)
      BY <1>4 DEF OnClose
    <2> HIDE DEF ses, rec, att
    <2>4. QED  BY <1>1, <2>1, <2>2, <2>3, ScheduleTypes
  <1>5. QED  BY <1>2, <1>3, <1>4

LEMMA SocketTypes ==
  ASSUME TypeInv, NEW s \in Slots, SocketStep(s)
  PROVE  TypeInv'
  <1> USE DEF TypeInv, TypeOK
  <1>0. sock[s] \in Sockets /\ s # 0
    BY ShardAssumption
  <1>1. CASE SocketOpen(s)
    <2>1. sock' \in [Slots -> Sockets]
      BY <1>1, <1>0 DEF SocketOpen, Sockets
    <2>2. QED  BY <1>1, <2>1 DEF SocketOpen, ShardState, timers, history
  <1>2. CASE DecompressionFailed(s)
    BY <1>2, OnCloseTypes, CodeTypes DEF DecompressionFailed
  <1>3. CASE Backpressure(s)
    <2>1. sock' \in [Slots -> Sockets]
      BY <1>3, SocketOps DEF Backpressure
    <2>2. QED  BY <1>3, <2>1 DEF Backpressure, ClosingIntent, timers, history
  <1>4. CASE Zombie(s)
    <2>1. [sock EXCEPT ![s].beating = FALSE] \in [Slots -> Sockets]
      BY <1>0 DEF Sockets
    <2>2. closingIntent' \in ClosingIntent
      BY <1>4 DEF Zombie, ClosingIntent
    <2>3. QED  BY <1>4, <2>1, <2>2, ScheduleTypes DEF Zombie
  <1>5. CASE SendHandshake(s)
    <2>1. sock' \in [Slots -> Sockets]
      <3>1. PICK p \in {"waiting", "identified", "resuming", "live"} :
              sock' = [sock EXCEPT ![s] = [sock[s] EXCEPT !.out = "none", !.peer = p]]
        BY <1>5, <1>0 DEF SendHandshake, Sockets
      <3>2. [sock[s] EXCEPT !.out = "none", !.peer = p] \in Sockets
        BY <1>0 DEF Sockets
      <3>3. QED  BY <3>1, <3>2
    <2>2. QED  BY <1>5, <2>1 DEF SendHandshake, machine, timers, history
  <1>6. CASE PeerGone(s)
    <2>1. sock' \in [Slots -> Sockets]
      BY <1>6, <1>0 DEF PeerGone, Sockets
    <2>2. QED  BY <1>6, <2>1 DEF PeerGone, machine, timers, history
  <1>7. CASE HandshakeTimeout(s)
    <2>1. hsArmed' \in SUBSET Slots /\ hsHeld' \in Slots \cup {0}
      BY <1>7 DEF HandshakeTimeout
    <2>2. CASE state # "handshaking"
      BY <1>7, <2>1, <2>2 DEF HandshakeTimeout, machine, history
    <2>3. CASE state = "handshaking"
      <3>1. closingIntent' \in ClosingIntent
        BY <1>7, <2>3 DEF HandshakeTimeout, ClosingIntent
      <3>2. ScheduleReconnect(sock, session, store, attempt)
        BY <1>7, <2>3 DEF HandshakeTimeout
      <3>3. QED  BY <2>1, <3>1, <3>2, ScheduleTypes
    <2>4. QED  BY <2>2, <2>3
  <1>8. ASSUME NEW code \in PeerCodes \cup {Abnormal}, SocketClose(s, code)
        PROVE  TypeInv'
    <2>1. Ended(sock, s) \in [Slots -> Sockets] /\ code \in Nat
      BY <1>0, SocketOps, CodeTypes, ShardAssumption
    <2>2. QED  BY <1>8, <2>1, OnCloseTypes DEF SocketClose
  <1>9. QED
    BY <1>1, <1>2, <1>3, <1>4, <1>5, <1>6, <1>7, <1>8 DEF SocketStep

LEMMA FrameTypes ==
  ASSUME TypeInv, NEW s \in Slots, FrameStep(s)
  PROVE  TypeInv'
  <1> USE DEF TypeInv, TypeOK
  <1>0. sock[s] \in Sockets /\ s # 0
    BY ShardAssumption
  <1>1. CASE Hello(s)
    <2> DEFINE heard == [sock EXCEPT ![s].hello = TRUE]
    <2>1. heard \in [Slots -> Sockets]
      BY <1>0 DEF Sockets
    <2>2. hsArmed' \in SUBSET Slots /\ hsHeld' \in Slots \cup {0}
      BY <1>1 DEF Hello, ClearHandshakeTimer
    <2>3. state' \in ShardState
      BY <1>1 DEF Hello, ShardState
    <2>4. session' \in Sessions
      <3>1. TriesBound \in Nat /\ session.tries \in Nat
        BY ShardAssumption DEF TriesBound, Sessions
      <3>2. Bump(session.tries, TriesBound) \in Nat
        BY <3>1, BumpType
      <3>3. QED  BY <1>1, <3>2 DEF Hello, Sessions
    <2>5. sock' \in [Slots -> Sockets]
      <3>1. CASE connection = 0
        BY <1>1, <2>1, <3>1 DEF Hello
      <3>2. CASE connection # 0
        <4> DEFINE k == heard[connection]
        <4>1. connection \in Slots /\ k \in Sockets /\ session \in Sessions
          BY <3>2, <2>1
        <4>2. /\ [k EXCEPT !.beating = TRUE] \in Sockets
              /\ [k EXCEPT !.beating = TRUE, !.out = "identify"] \in Sockets
              /\ [k EXCEPT !.beating = TRUE, !.out = "resume", !.sid = session.id,
                           !.cur = session.seq] \in Sockets
          <5>1. k \in Sockets /\ session.id \in Sids \cup {0} /\ session.seq \in 0 .. MaxSeq
            BY <4>1 DEF Sessions
          <5> HIDE DEF k
          <5> QED
            BY <5>1 DEF Sockets
        <4>3. \/ sock' = [heard EXCEPT ![connection] = [k EXCEPT !.beating = TRUE]]
              \/ sock' = [heard EXCEPT ![connection] =
                            [k EXCEPT !.beating = TRUE, !.out = "identify"]]
              \/ sock' = [heard EXCEPT ![connection] =
                            [k EXCEPT !.beating = TRUE, !.out = "resume",
                                      !.sid = session.id, !.cur = session.seq]]
          <5>1. CASE intent = "identify"
            <6>1. sock' = [heard EXCEPT ![connection].beating = TRUE,
                             ![connection].out = "identify"]
              BY <1>1, <3>2, <5>1 DEF Hello
            <6> HIDE DEF heard
            <6>2. QED  BY <2>1, <4>1, <6>1 DEF Sockets
          <5>2. CASE intent = "resume" /\ Resumable(session)
            <6>1. sock' = [heard EXCEPT ![connection].beating = TRUE,
                             ![connection].out = "resume",
                             ![connection].sid = session.id,
                             ![connection].cur = session.seq]
              BY <1>1, <3>2, <5>2 DEF Hello
            <6> HIDE DEF heard
            <6>2. QED  BY <2>1, <4>1, <6>1 DEF Sockets
          <5>3. CASE intent = "resume" /\ ~Resumable(session)
            <6>1. sock' = [heard EXCEPT ![connection].beating = TRUE]
              BY <1>1, <3>2, <5>3 DEF Hello
            <6> HIDE DEF heard
            <6>2. QED  BY <2>1, <4>1, <6>1 DEF Sockets
          <5>4. QED  BY <5>1, <5>2, <5>3
        <4> HIDE DEF k, heard
        <4>4. QED  BY <2>1, <4>1, <4>2, <4>3
      <3>3. QED  BY <3>1, <3>2
    <2>6. QED
      BY <1>1, <2>2, <2>3, <2>4, <2>5 DEF Hello, history
  <1>2. CASE ReconnectRequested(s)
    <2>1. sock' \in [Slots -> Sockets]
      BY <1>2, SocketOps DEF ReconnectRequested
    <2>2. QED  BY <1>2, <2>1 DEF ReconnectRequested, ClosingIntent, timers, history
  <1>3. ASSUME NEW resumable \in BOOLEAN, InvalidSession(s, resumable)
        PROVE  TypeInv'
    <2> DEFINE can == resumable /\ state # "identifying"
               ses == IF can THEN session ELSE NoSession
               rec == IF can THEN store ELSE NoRecord
    <2>1. ses \in Sessions /\ rec \in Records
      BY NoSessionTypes
    <2>2. /\ closingIntent' \in ClosingIntent
          /\ hsArmed' \in SUBSET Slots /\ hsHeld' \in Slots \cup {0}
      BY <1>3 DEF InvalidSession, ClosingIntent
    <2>3. ScheduleReconnect(sock, ses, rec, attempt)
      BY <1>3 DEF InvalidSession
    <2> HIDE DEF ses, rec
    <2>4. QED  BY <2>1, <2>2, <2>3, ScheduleTypes
  <1>4. ASSUME NEW i \in Sids, Ready(s, i)
        PROVE  TypeInv'
    <2>1. /\ session' \in Sessions /\ store' \in Records
          /\ delivered' \in [Sids -> 0 .. MaxSeq]
      BY <1>4, ShardAssumption DEF Ready, Established, Sessions, Records
    <2>2. sock' \in [Slots -> Sockets]
      <3>1. [sock[s] EXCEPT !.peer = "live", !.sid = i, !.cur = 1] \in Sockets
        <4>1. 1 \in 0 .. MaxSeq
          BY ShardAssumption
        <4>2. QED  BY <1>0, <1>4, <4>1 DEF Sockets
      <3>2. sock' = [sock EXCEPT ![s] =
                      [sock[s] EXCEPT !.peer = "live", !.sid = i, !.cur = 1]]
        BY <1>4, <1>0 DEF Ready, Sockets
      <3>3. QED  BY <3>1, <3>2
    <2>3. QED  BY <1>4, <2>1, <2>2 DEF Ready, ShardState, timers
  <1>5. ASSUME sock[s].cur < MaxSeq
        PROVE  /\ sock[s].cur + 1 \in 0 .. MaxSeq
               /\ Emitted(s) \in [Sids -> 0 .. MaxSeq]
    <2>1. sock[s].cur + 1 \in 0 .. MaxSeq
      BY <1>0, <1>5, ShardAssumption DEF Sockets
    <2>2. \A n \in 0 .. MaxSeq : Max2(n, sock[s].cur + 1) \in 0 .. MaxSeq
      BY <2>1 DEF Max2
    <2> HIDE DEF TypeInv
    <2>3. delivered \in [Sids -> 0 .. MaxSeq]
      BY DEF TypeInv
    <2>4. QED  BY <2>1, <2>2, <2>3 DEF Emitted
  <1>6. CASE Resumed(s)
    <2>1. session' \in Sessions
      BY <1>5, <1>6 DEF Resumed, Sessions
    <2>2. sock' \in [Slots -> Sockets]
      <3>1. [sock[s] EXCEPT !.cur = @ + 1, !.peer = "live"] \in Sockets
        BY <1>0, <1>5, <1>6 DEF Resumed, Sockets
      <3>2. sock' = [sock EXCEPT ![s] = [sock[s] EXCEPT !.cur = @ + 1, !.peer = "live"]]
        BY <1>0, <1>6 DEF Resumed, Sockets
      <3>3. QED  BY <3>1, <3>2
    <2>3. QED
      BY <1>5, <1>6, <2>1, <2>2 DEF Resumed, StopReplaying, ShardState, timers
  <1>7. CASE Dispatch(s)
    <2>1. session' \in Sessions
      BY <1>5, <1>7 DEF Dispatch, Sessions
    <2>2. sock' \in [Slots -> Sockets]
      BY <1>0, <1>5, <1>7 DEF Dispatch, Sockets
    <2>3. state' \in ShardState /\ replaying' \in BOOLEAN
      BY <1>7 DEF Dispatch, ShardState
    <2>4. QED
      BY <1>5, <1>7, <2>1, <2>2, <2>3 DEF Dispatch, timers
  <1>8. QED
    BY <1>1, <1>2, <1>3, <1>4, <1>6, <1>7 DEF FrameStep

\* Every step keeps the types, whoever calls and whatever the store does.
LEMMA TypeStep == TypeInv /\ [Next]_vars => TypeInv'
  <1> SUFFICES ASSUME TypeInv, [Next]_vars PROVE TypeInv'
    OBVIOUS
  <1>1. ASSUME NEW c \in Calls, CallStep(c) PROVE TypeInv'
    BY <1>1, CallTypes
  <1>2. ASSUME NEW s \in Slots, SocketStep(s) \/ FrameStep(s) PROVE TypeInv'
    BY <1>2, SocketTypes, FrameTypes
  <1>3. CASE ReconnectTimeout
    <2>1. /\ rcArmed' \in Nat /\ rcHeld' = FALSE
          /\ session' \in Sessions /\ calls' \in [Calls -> CallRecords]
      BY <1>3 DEF ReconnectTimeout, TypeInv, TypeOK
    <2>2. /\ session \in Sessions /\ OpenConnection(session)
          /\ UNCHANGED <<attempt, store, delivered, retries, gaveUp>>
      BY <1>3 DEF ReconnectTimeout, TypeInv, TypeOK
    <2>3. QED  BY <2>1, <2>2, OpenTypes
  <1>4. CASE Restart
    <2>1. /\ state' \in ShardState /\ closingIntent' \in ClosingIntent
          /\ sock' \in [Slots -> Sockets] /\ calls' \in [Calls -> CallRecords]
          /\ session' \in Sessions
      BY <1>4, FreeSocketType, NoSessionTypes, IdleCallType
      DEF Restart, ShardState, ClosingIntent
    <2>2. QED  BY <1>4, <2>1 DEF Restart, TypeInv, TypeOK
  <1>5. CASE UNCHANGED vars
    BY <1>5 DEF vars, machine, timers, history, TypeInv, TypeOK
  <1>6. QED  BY <1>1, <1>2, <1>3, <1>4, <1>5 DEF Next

LEMMA TypeInit == Init => TypeInv
  <1> SUFFICES ASSUME Init PROVE TypeInv
    OBVIOUS
  <1>1. /\ state \in ShardState /\ closingIntent \in ClosingIntent
        /\ sock \in [Slots -> Sockets] /\ calls \in [Calls -> CallRecords]
        /\ session \in Sessions /\ store \in Records
    BY FreeSocketType, NoSessionTypes, IdleCallType DEF Init, ShardState, ClosingIntent
  <1>2. delivered \in [Sids -> 0 .. MaxSeq]
    BY ShardAssumption DEF Init
  <1>3. QED  BY <1>1, <1>2 DEF Init, TypeInv, TypeOK

\* TypeOK, of every caller and every store.
THEOREM TypeCorrect == Spec => []TypeOK
  <1>1. TypeInv => TypeOK
    BY DEF TypeInv
  <1>2. QED  BY <1>1, TypeInit, TypeStep, PTL DEF Spec

-----------------------------------------------------------------------------
(* One shard whose calls do not overlap, with a prompt store. *)

Idle == \A c \in Calls : calls[c].op = "idle"

\* With the calls at rest, a reconnect scheduled by the current connection
\* leaves no socket and exactly one armed reconnect.
LEMMA ScheduleSerial ==
  ASSUME TypeInv, SerialInv, Idle, connection # 0,
         NEW sk \in [Slots -> Sockets], NEW ses, NEW rec, NEW att,
         \A t \in Slots : t # connection => sk[t] = sock[t],
         ScheduleReconnect(sk, ses, rec, att), hsArmed' \subseteq hsArmed
  PROVE  SerialInv'
  <1>1. \A t \in Slots : sock'[t] = FreeSocket
    <2>1. \A t \in Slots : t # connection => sk[t] = FreeSocket
      BY DEF SerialInv, OneSocket, FreeIsFree
    <2>2. QED  BY <2>1 DEF ScheduleReconnect, Dispose, TypeInv, TypeOK
  <1>2. state \notin {"idle", "closed", "fatal", "reconnecting"} /\ ~rcHeld /\ rcArmed = 0
    BY DEF SerialInv, ConnectionMatchesState, TimersMatch
  <1>3. connection' = 0 /\ calls' = calls
    BY DEF ScheduleReconnect
  <1>4. \/ state' = "fatal" /\ rcHeld' = FALSE /\ rcArmed' = 0
        \/ state' = "reconnecting" /\ rcHeld' = TRUE /\ rcArmed' = 1
    BY <1>2 DEF ScheduleReconnect, ArmReconnect, TypeInv, TypeOK
  <1>5. OneSocket' /\ FreeIsFree' /\ HelloMatches'
    BY <1>1 DEF OneSocket, FreeIsFree, HelloMatches, FreeSocket
  <1>6. ConnectionMatchesState' /\ TimersMatch'
    BY <1>3, <1>4, ShardAssumption DEF ConnectionMatchesState, TimersMatch, TypeInv, TypeOK
  <1>7. CallsMatch'
    BY <1>3 DEF SerialInv, CallsMatch, Idle
  <1>8. QED  BY <1>5, <1>6, <1>7 DEF SerialInv

\* A socket opened while there is none becomes the one connection.
LEMMA OpenSerial ==
  ASSUME TypeInv, SerialInv, connection = 0, NEW ses, OpenConnection(ses),
         rcHeld' = FALSE, rcArmed' = 0,
         \A c \in Calls : calls'[c].op = "idle" /\ calls'[c].conn = 0
  PROVE  SerialInv'
  <1>1. PICK s \in Slots :
          /\ Unused(s)
          /\ sock' = [sock EXCEPT ![s].phase = "connecting"]
          /\ connection' = s /\ state' = "connecting"
          /\ hsArmed' = hsArmed \cup {s} /\ hsHeld' = s
    BY DEF OpenConnection
  <1>2. \A t \in Slots : sock[t] = FreeSocket
    BY ShardAssumption DEF SerialInv, OneSocket, FreeIsFree
  <1>4. /\ \A t \in Slots \ {s} : sock'[t] = FreeSocket
        /\ sock'[s] = [FreeSocket EXCEPT !.phase = "connecting"]
    BY <1>1, <1>2 DEF TypeInv, TypeOK
  <1>5. OneSocket' /\ FreeIsFree' /\ HelloMatches'
    BY <1>1, <1>4 DEF OneSocket, FreeIsFree, HelloMatches, FreeSocket
  <1>6. s # 0
    BY ShardAssumption
  <1>7. ConnectionMatchesState' /\ TimersMatch'
    BY <1>1, <1>6 DEF ConnectionMatchesState, TimersMatch
  <1>8. CallsMatch'
    BY DEF CallsMatch
  <1>9. QED  BY <1>5, <1>7, <1>8 DEF SerialInv

LEMMA CallSerial ==
  ASSUME SerialCaller, TypeInv, SerialInv, NEW c \in Calls, CallStep(c)
  PROVE  SerialInv'
  <1> USE DEF SerialInv
  <1>0. calls[c] \in CallRecords /\ connection \in Slots \cup {0} /\ 0 \notin Slots
    BY ShardAssumption DEF TypeInv, TypeOK
  <1>1. CASE Connect(c)
    <2>1. /\ Idle /\ state \in {"idle", "closed"}
          /\ UNCHANGED <<machine, timers, sock>>
      BY <1>1 DEF Connect, Idle
    <2>2. /\ \A d \in Calls \ {c} : calls'[d] = calls[d]
          /\ calls'[c].op = "connect" /\ calls'[c].conn = 0
      BY <1>1 DEF Connect, IdleCall, TypeInv, TypeOK
    <2>3. CallsMatch'
      BY <2>1, <2>2 DEF CallsMatch, Idle, machine
    <2>4. TimersMatch'
      BY <2>1 DEF TimersMatch, machine, timers
    <2>5. OneSocket' /\ FreeIsFree' /\ ConnectionMatchesState' /\ HelloMatches'
      BY <2>1 DEF OneSocket, FreeIsFree, ConnectionMatchesState, HelloMatches,
                  machine, timers
    <2>6. QED  BY <2>3, <2>4, <2>5
  <1>2. CASE ConnectLoaded(c)
    <2>1. state \in {"idle", "closed"} /\ calls[c].op = "connect"
      BY <1>2 DEF ConnectLoaded, CallsMatch
    <2>2. connection = 0 /\ ~rcHeld /\ rcArmed = 0
      BY <2>1 DEF ConnectionMatchesState, TimersMatch
    <2>3. rcHeld' = FALSE /\ rcArmed' = 0
      BY <1>2, <2>2 DEF ConnectLoaded, TypeInv, TypeOK
    <2>4. \A d \in Calls : calls'[d].op = "idle" /\ calls'[d].conn = 0
      BY <1>2, <2>1 DEF ConnectLoaded, CallsMatch, IdleCall, TypeInv, TypeOK
    <2>5. \E ses : OpenConnection(ses)
      BY <1>2 DEF ConnectLoaded
    <2>6. QED  BY <2>2, <2>3, <2>4, <2>5, OpenSerial
  <1>3. CASE DestroyStored(c)
    <2>1. /\ calls[c].op = "destroy" /\ calls[c].conn = connection /\ ~rcHeld
          /\ \A d \in Calls \ {c} : calls[d].op = "idle" /\ calls[d].conn = 0
      BY <1>3 DEF DestroyStored, CallsMatch
    <2>2. \A d \in Calls : calls'[d].op = "idle" /\ calls'[d].conn = 0
      BY <1>3, <2>1 DEF DestroyStored, IdleCall, TypeInv, TypeOK
    <2>3. connection' = 0 /\ state' \in {"closed", "fatal"}
      BY <1>3, <2>1 DEF DestroyStored, StateAfterDestroy
    <2>4. \A t \in Slots : sock'[t] = FreeSocket
      BY <1>0, <1>3, <2>1
      DEF DestroyStored, Dispose, OneSocket, FreeIsFree, TypeInv, TypeOK
    <2>5. UNCHANGED <<hsArmed, hsHeld, rcArmed, rcHeld>>
      BY <1>3 DEF DestroyStored, timers
    <2>6. TimersMatch' /\ ConnectionMatchesState'
      BY <1>0, <2>1, <2>3, <2>5 DEF TimersMatch, ConnectionMatchesState, TypeInv, TypeOK
    <2>7. OneSocket' /\ FreeIsFree' /\ HelloMatches'
      BY <2>4 DEF OneSocket, FreeIsFree, HelloMatches, FreeSocket
    <2>8. CallsMatch'
      BY <2>2 DEF CallsMatch
    <2>9. QED  BY <2>6, <2>7, <2>8
  <1>4. ASSUME NEW recover \in Recovers, Destroy(c, recover)
        PROVE  SerialInv'
    <2>1. Idle /\ UNCHANGED <<machine, sock>>
      BY <1>4 DEF Destroy, Idle
    <2>2. hsArmed' \subseteq hsArmed /\ connection \notin hsArmed'
      BY <1>4 DEF Destroy, ClearHandshakeTimer, TimersMatch
    <2>3. rcHeld' = FALSE /\ rcArmed' = 0
      BY <1>4 DEF Destroy, ClearReconnectTimer, TimersMatch
    <2>4. /\ \A d \in Calls \ {c} : calls'[d] = calls[d]
          /\ calls'[c].op = "destroy" /\ calls'[c].conn = connection
      BY <1>4 DEF Destroy, IdleCall, TypeInv, TypeOK
    <2>5. CallsMatch'
      BY <2>1, <2>2, <2>3, <2>4 DEF CallsMatch, Idle, machine
    <2>6. TimersMatch'
      BY <2>1, <2>2, <2>3, <2>4 DEF TimersMatch, machine
    <2>7. OneSocket' /\ FreeIsFree' /\ ConnectionMatchesState' /\ HelloMatches'
      BY <2>1, <2>2 DEF OneSocket, FreeIsFree, ConnectionMatchesState, HelloMatches,
                        machine
    <2>8. QED  BY <2>5, <2>6, <2>7
  <1>5. QED  BY <1>1, <1>2, <1>3, <1>4 DEF CallStep

\* The socket a task of the event loop comes from is the connection.
LEMMA TaskContext ==
  ASSUME PromptStore, SerialInv, TypeInv, Task, NEW s \in Slots,
         sock[s].phase # "free"
  PROVE  /\ Idle /\ s = connection /\ connection # 0
         /\ state \notin {"idle", "closed", "fatal", "reconnecting", "closing"}
         /\ ~rcHeld
  BY ShardAssumption
  DEF Task, Idle, SerialInv, OneSocket, ConnectionMatchesState, TimersMatch

\* A step that keeps the connection, and the calls at rest.
LEMMA SameConnectionSerial ==
  ASSUME TypeInv, SerialInv, Idle, connection # 0,
         UNCHANGED <<connection, calls, rcArmed, rcHeld>>,
         state' \notin {"idle", "closed", "fatal", "reconnecting", "closing"},
         \/ UNCHANGED <<hsArmed, hsHeld>> /\ (sock'[connection].hello => sock[connection].hello)
         \/ connection \notin hsArmed',
         \A t \in Slots : t # connection => sock'[t] = sock[t],
         sock'[connection].phase # "free",
         ~sock'[connection].hello =>
           /\ ~sock'[connection].beating
           /\ sock'[connection].out = "none" /\ sock'[connection].peer = "waiting"
  PROVE  SerialInv'
  <1> USE DEF SerialInv
  <1>1. \A t \in Slots : t # connection => sock'[t] = FreeSocket
    BY DEF OneSocket, FreeIsFree
  <1>2. OneSocket' /\ FreeIsFree'
    BY <1>1 DEF OneSocket, FreeIsFree, FreeSocket
  <1>3. ConnectionMatchesState' /\ TimersMatch'
    BY DEF ConnectionMatchesState, TimersMatch
  <1>4. CallsMatch'
    BY DEF CallsMatch, Idle
  <1>5. HelloMatches'
    BY <1>1 DEF HelloMatches, FreeSocket, TypeInv, TypeOK
  <1>6. QED  BY <1>2, <1>3, <1>4, <1>5

LEMMA OnCloseSerial ==
  ASSUME TypeInv, SerialInv, Idle, connection # 0,
         NEW sk \in [Slots -> Sockets], NEW code \in Nat,
         \A t \in Slots : t # connection => sk[t] = sock[t],
         OnClose(sk, code)
  PROVE  SerialInv'
  <1>1. /\ state \notin {"idle", "closed", "fatal", "reconnecting", "closing"}
        /\ ~rcHeld /\ rcArmed = 0
    BY DEF SerialInv, ConnectionMatchesState, TimersMatch
  <1>2. hsArmed' \subseteq hsArmed
    BY DEF OnClose, ClearHandshakeTimer
  <1>3. CASE \E ses, rec, att : ScheduleReconnect(sk, ses, rec, att)
    BY <1>2, <1>3, ScheduleSerial
  <1>4. CASE ResolveCloseVerdict(closingIntent # "null", code) = "fatal"
    <2>1. /\ sock' = Dispose(sk, connection) /\ connection' = 0 /\ state' = "fatal"
          /\ UNCHANGED <<rcArmed, rcHeld, calls>>
      BY <1>1, <1>4 DEF OnClose
    <2>2. \A t \in Slots : sock'[t] = FreeSocket
      BY <2>1 DEF Dispose, SerialInv, OneSocket, FreeIsFree, TypeInv, TypeOK
    <2>3. OneSocket' /\ FreeIsFree' /\ HelloMatches'
      BY <2>2 DEF OneSocket, FreeIsFree, HelloMatches, FreeSocket
    <2>4. ConnectionMatchesState' /\ TimersMatch'
      BY <1>1, <1>2, <2>1, ShardAssumption
      DEF ConnectionMatchesState, TimersMatch, TypeInv, TypeOK
    <2>5. CallsMatch'
      BY <2>1 DEF CallsMatch, Idle, SerialInv
    <2>6. QED  BY <2>3, <2>4, <2>5 DEF SerialInv
  <1>5. QED  BY <1>1, <1>3, <1>4 DEF OnClose

LEMMA SocketSerial ==
  ASSUME PromptStore, TypeInv, SerialInv, NEW s \in Slots, SocketStep(s)
  PROVE  SerialInv'
  <1>0. sock \in [Slots -> Sockets] /\ sock[s] \in Sockets /\ s # 0
    BY ShardAssumption DEF TypeInv, TypeOK
  <1>1. CASE SocketOpen(s)
    <2>1. Idle /\ s = connection /\ connection # 0
      BY <1>1, TaskContext DEF SocketOpen
    <2>2. /\ UNCHANGED <<connection, calls, rcArmed, rcHeld, hsArmed, hsHeld>>
          /\ state' = "handshaking"
      BY <1>1 DEF SocketOpen, timers
    <2>3. /\ \A t \in Slots : t # connection => sock'[t] = sock[t]
          /\ sock'[s] = [sock[s] EXCEPT !.phase = "open"]
      BY <1>0, <1>1, <2>1 DEF SocketOpen
    <2>4. /\ sock'[s].phase = "open" /\ sock'[s].hello = sock[s].hello
          /\ sock'[s].beating = sock[s].beating /\ sock'[s].out = sock[s].out
          /\ sock'[s].peer = sock[s].peer
      BY <1>0, <2>3 DEF Sockets
    <2>5. QED
      BY <2>1, <2>2, <2>3, <2>4, SameConnectionSerial DEF SerialInv, HelloMatches
  <1>2. CASE DecompressionFailed(s)
    <2>1. Idle /\ connection # 0
      BY <1>2, TaskContext DEF DecompressionFailed
    <2>2. QED
      BY <1>0, <1>2, <2>1, CodeTypes, OnCloseSerial DEF DecompressionFailed
  <1>3. CASE Backpressure(s)
    <2>1. /\ Idle /\ s = connection /\ connection # 0
          /\ state \notin {"idle", "closed", "fatal", "reconnecting", "closing"}
      BY <1>3, TaskContext DEF Backpressure
    <2>2. UNCHANGED <<state, connection, calls, rcArmed, rcHeld, hsArmed, hsHeld>>
      BY <1>3 DEF Backpressure, timers
    <2>3. /\ \A t \in Slots : t # connection => sock'[t] = sock[t]
          /\ sock'[s].phase = "closing" /\ sock'[s].hello = sock[s].hello
          /\ sock'[s].beating = FALSE /\ sock'[s].out = sock[s].out
          /\ sock'[s].peer = sock[s].peer
      BY <1>0, <1>3, <2>1 DEF Backpressure, Close, Sockets
    <2>4. QED
      BY <2>1, <2>2, <2>3, SameConnectionSerial DEF SerialInv, HelloMatches
  <1>4. CASE Zombie(s)
    <2>1. sock[s].beating /\ sock[s].phase # "free"
      BY <1>4 DEF Zombie, SerialInv, FreeIsFree, FreeSocket
    <2>2. Idle /\ s = connection /\ connection # 0
      BY <1>4, <2>1, TaskContext DEF Zombie
    <2>3. [sock EXCEPT ![s].beating = FALSE] \in [Slots -> Sockets]
      BY <1>0 DEF Sockets
    <2>4. \A t \in Slots : t # connection => [sock EXCEPT ![s].beating = FALSE][t] = sock[t]
      BY <1>0, <2>2
    <2>5. /\ ScheduleReconnect([sock EXCEPT ![s].beating = FALSE], session, store, attempt)
          /\ hsArmed' \subseteq hsArmed
      BY <1>4, <2>1 DEF Zombie
    <2>6. QED  BY <2>2, <2>3, <2>4, <2>5, ScheduleSerial
  <1>5. CASE SendHandshake(s) \/ PeerGone(s)
    <2>1. /\ UNCHANGED <<machine, timers, calls>>
          /\ \A t \in Slots : /\ sock'[t].phase = sock[t].phase
                             /\ sock'[t].hello = sock[t].hello
                             /\ sock'[t].beating = sock[t].beating
      BY <1>0, <1>5 DEF SendHandshake, PeerGone, Sockets
    <2>2. sock[s].phase # "free" /\ (\A t \in Slots : t # s => sock'[t] = sock[t])
      BY <1>0, <1>5 DEF SendHandshake, PeerGone, SerialInv, FreeIsFree, FreeSocket
    <2>3. ~sock'[s].hello => sock'[s].out = "none" /\ sock'[s].peer = "waiting"
      BY <1>0, <1>5 DEF SendHandshake, PeerGone, SerialInv, HelloMatches, Sockets
    <2>4. OneSocket' /\ FreeIsFree' /\ HelloMatches'
      BY <2>1, <2>2, <2>3
      DEF SerialInv, OneSocket, FreeIsFree, HelloMatches, machine, timers
    <2>5. ConnectionMatchesState' /\ TimersMatch' /\ CallsMatch'
      BY <2>1 DEF SerialInv, ConnectionMatchesState, TimersMatch, CallsMatch, machine, timers
    <2>6. QED  BY <2>4, <2>5 DEF SerialInv
  <1>6. CASE HandshakeTimeout(s)
    <2>1. Idle /\ hsArmed' \subseteq hsArmed
      BY <1>6 DEF HandshakeTimeout, Task, Idle
    <2>3. CASE state # "handshaking"
      <3>1. UNCHANGED <<machine, hsHeld, rcArmed, rcHeld, sock, calls>>
        BY <1>6, <2>3 DEF HandshakeTimeout
      <3>2. /\ OneSocket' /\ FreeIsFree' /\ HelloMatches' /\ ConnectionMatchesState'
            /\ TimersMatch' /\ CallsMatch'
        BY <2>1, <3>1 DEF SerialInv, OneSocket, FreeIsFree, HelloMatches,
                          ConnectionMatchesState, TimersMatch, CallsMatch, machine
      <3>3. QED  BY <3>2 DEF SerialInv
    <2>4. CASE state = "handshaking"
      <3>1. connection # 0
        BY <2>4 DEF SerialInv, ConnectionMatchesState
      <3>2. QED  BY <1>0, <1>6, <2>1, <2>4, <3>1, ScheduleSerial DEF HandshakeTimeout
    <2>5. QED  BY <2>3, <2>4
  <1>7. ASSUME NEW code \in PeerCodes \cup {Abnormal}, SocketClose(s, code)
        PROVE  SerialInv'
    <2>1. Idle /\ s = connection /\ connection # 0
      BY <1>7, TaskContext DEF SocketClose
    <2>2. /\ Ended(sock, s) \in [Slots -> Sockets] /\ code \in Nat
          /\ \A t \in Slots : t # connection => Ended(sock, s)[t] = sock[t]
      <3>1. Ended(sock, s) \in [Slots -> Sockets] /\ code \in Nat
        BY <1>0, SocketOps, CodeTypes, ShardAssumption
      <3>2. \A t \in Slots : t # s => Ended(sock, s)[t] = sock[t]
        BY <1>0 DEF Ended, Dispose
      <3>3. QED  BY <2>1, <3>1, <3>2
    <2>3. QED  BY <1>7, <2>1, <2>2, OnCloseSerial DEF SocketClose
  <1>8. QED
    BY <1>1, <1>2, <1>3, <1>4, <1>5, <1>6, <1>7 DEF SocketStep

LEMMA FrameSerial ==
  ASSUME PromptStore, TypeInv, SerialInv, NEW s \in Slots, FrameStep(s)
  PROVE  SerialInv'
  <1>0. sock \in [Slots -> Sockets] /\ sock[s] \in Sockets /\ s # 0
    BY ShardAssumption DEF TypeInv, TypeOK
  <1>1. /\ Idle /\ s = connection /\ connection # 0 /\ sock[s].phase # "free"
        /\ state \notin {"idle", "closed", "fatal", "reconnecting", "closing"}
    <2>1. Frame(s)
      BY DEF FrameStep, Hello, ReconnectRequested, Resumed, Dispatch, InvalidSession, Ready
    <2>2. QED  BY <2>1, TaskContext DEF Frame
  <1>2. CASE Hello(s)
    <2>1. connection \notin hsArmed'
      BY <1>2 DEF Hello, ClearHandshakeTimer, SerialInv, TimersMatch
    <2>2. /\ UNCHANGED <<connection, calls, rcArmed, rcHeld>>
          /\ state' \in {"resuming", "identifying"}
      BY <1>1, <1>2 DEF Hello
    <2>3. /\ \A t \in Slots : t # s => sock'[t] = sock[t]
          /\ sock'[s].phase = sock[s].phase /\ sock'[s].hello = TRUE
      BY <1>0, <1>1, <1>2 DEF Hello, Sockets
    <2>4. QED  BY <1>1, <2>1, <2>2, <2>3, SameConnectionSerial
  <1>3. CASE ReconnectRequested(s)
    <2>1. UNCHANGED <<state, connection, calls, rcArmed, rcHeld, hsArmed, hsHeld>>
      BY <1>3 DEF ReconnectRequested, timers
    <2>2. /\ \A t \in Slots : t # s => sock'[t] = sock[t]
          /\ sock'[s].phase # "free" /\ sock'[s].hello = sock[s].hello
          /\ sock'[s].beating = FALSE /\ sock'[s].out = sock[s].out
          /\ sock'[s].peer = sock[s].peer
      BY <1>0, <1>1, <1>3 DEF ReconnectRequested, Close, Sockets
    <2>3. QED
      BY <1>1, <2>1, <2>2, SameConnectionSerial DEF SerialInv, HelloMatches
  <1>4. ASSUME NEW resumable \in BOOLEAN, InvalidSession(s, resumable)
        PROVE  SerialInv'
    <2>1. hsArmed' \subseteq hsArmed
      BY <1>4 DEF InvalidSession
    <2>2. \E ses, rec, att : ScheduleReconnect(sock, ses, rec, att)
      BY <1>4 DEF InvalidSession
    <2>3. QED  BY <1>0, <1>1, <2>1, <2>2, ScheduleSerial
  <1>5. CASE Resumed(s) \/ Dispatch(s) \/ \E i \in Sids : Ready(s, i)
    <2>1. /\ UNCHANGED <<connection, calls, rcArmed, rcHeld, hsArmed, hsHeld>>
          /\ state' \in {state, "ready", "replaying"}
      BY <1>5 DEF Resumed, Dispatch, Ready, timers
    <2>2. sock[s].hello
      BY <1>5 DEF Resumed, Dispatch, Ready, SerialInv, HelloMatches
    <2>3. /\ \A t \in Slots : t # s => sock'[t] = sock[t]
          /\ sock'[s].phase = sock[s].phase /\ sock'[s].hello = sock[s].hello
      <3>1. CASE Resumed(s)
        BY <1>0, <3>1 DEF Resumed, Sockets
      <3>2. CASE Dispatch(s)
        BY <1>0, <3>2 DEF Dispatch, Sockets
      <3>3. ASSUME NEW i \in Sids, Ready(s, i)
            PROVE  /\ \A t \in Slots : t # s => sock'[t] = sock[t]
                   /\ sock'[s].phase = sock[s].phase /\ sock'[s].hello = sock[s].hello
        BY <1>0, <3>3 DEF Ready, Sockets
      <3>4. QED  BY <1>5, <3>1, <3>2, <3>3
    <2>4. QED
      BY <1>1, <2>1, <2>2, <2>3, SameConnectionSerial
  <1>6. QED
    BY <1>2, <1>3, <1>4, <1>5 DEF FrameStep

LEMMA SerialStep ==
  ASSUME SerialCaller, PromptStore, TypeInv, SerialInv, [Next]_vars
  PROVE  SerialInv'
  <1>1. ASSUME NEW c \in Calls, CallStep(c) PROVE SerialInv'
    BY <1>1, CallSerial
  <1>2. ASSUME NEW s \in Slots, SocketStep(s) \/ FrameStep(s) PROVE SerialInv'
    BY <1>2, SocketSerial, FrameSerial
  <1>3. CASE ReconnectTimeout
    <2>1. Idle /\ rcHeld /\ rcArmed = 1 /\ connection = 0
      BY <1>3 DEF ReconnectTimeout, Task, Idle, SerialInv, TimersMatch,
                  ConnectionMatchesState
    <2>2. rcHeld' = FALSE /\ rcArmed' = 0 /\ calls' = calls /\ OpenConnection(session)
      BY <1>3, <2>1 DEF ReconnectTimeout
    <2>3. \A c \in Calls : calls[c].op = "idle" /\ calls[c].conn = 0
      BY <2>1 DEF Idle, SerialInv, CallsMatch
    <2>4. QED  BY <2>1, <2>2, <2>3, OpenSerial
  <1>4. CASE Restart
    <2>1. /\ \A t \in Slots : sock'[t] = FreeSocket
          /\ \A c \in Calls : calls'[c] = IdleCall
          /\ state' = "idle" /\ connection' = 0 /\ hsArmed' = {}
          /\ rcArmed' = 0 /\ rcHeld' = FALSE
      BY <1>4 DEF Restart
    <2>2. /\ OneSocket' /\ FreeIsFree' /\ HelloMatches' /\ ConnectionMatchesState'
          /\ TimersMatch' /\ CallsMatch'
      BY <2>1 DEF OneSocket, FreeIsFree, HelloMatches, ConnectionMatchesState,
                  TimersMatch, CallsMatch, FreeSocket, IdleCall
    <2>3. QED  BY <2>2 DEF SerialInv
  <1>5. CASE UNCHANGED vars
    <2>1. /\ OneSocket' /\ FreeIsFree' /\ HelloMatches' /\ ConnectionMatchesState'
          /\ TimersMatch' /\ CallsMatch'
      BY <1>5 DEF vars, machine, timers, SerialInv, OneSocket, FreeIsFree, HelloMatches,
                  ConnectionMatchesState, TimersMatch, CallsMatch
    <2>2. QED  BY <2>1 DEF SerialInv
  <1>6. QED  BY <1>1, <1>2, <1>3, <1>4, <1>5 DEF Next

LEMMA SerialInit == Init => SerialInv
  <1> SUFFICES ASSUME Init PROVE SerialInv
    OBVIOUS
  <1>1. /\ \A t \in Slots : sock[t] = FreeSocket
        /\ \A c \in Calls : calls[c] = IdleCall
    BY DEF Init
  <1>2. OneSocket /\ FreeIsFree /\ HelloMatches
    BY <1>1 DEF Init, OneSocket, FreeIsFree, HelloMatches, FreeSocket
  <1>3. ConnectionMatchesState /\ TimersMatch /\ CallsMatch
    BY <1>1 DEF Init, ConnectionMatchesState, TimersMatch, CallsMatch, IdleCall
  <1>4. QED  BY <1>2, <1>3 DEF SerialInv

LEMMA InvHolds ==
  ASSUME SerialCaller, PromptStore
  PROVE  Spec => [](TypeInv /\ SerialInv)
  <1>1. Init => TypeInv /\ SerialInv
    BY TypeInit, SerialInit
  <1>2. TypeInv /\ SerialInv /\ [Next]_vars => (TypeInv /\ SerialInv)'
    BY TypeStep, SerialStep
  <1>3. QED  BY <1>1, <1>2, PTL DEF Spec

\* One gateway connection: a socket that can still call the shard back is
\* #connection, for any number of slots, sessions and attempts.
THEOREM OneSocketHolds ==
  ASSUME SerialCaller, PromptStore PROVE Spec => []OneSocket
  <1>1. TypeInv /\ SerialInv => OneSocket
    BY DEF SerialInv
  <1>2. QED  BY <1>1, InvHolds, PTL

\* A stopped or failed shard has no socket and nothing armed to open one.
THEOREM StoppedHolds ==
  ASSUME SerialCaller, PromptStore PROVE Spec => []StoppedIsQuiet
  <1>1. TypeInv /\ SerialInv => StoppedIsQuiet
    BY DEF SerialInv, ConnectionMatchesState, TimersMatch, StoppedIsQuiet
  <1>2. QED  BY <1>1, InvHolds, PTL

\* A shard in reconnecting has exactly one reconnect armed, unless destroy() has
\* just cleared it.
THEOREM ReconnectHolds ==
  ASSUME SerialCaller, PromptStore PROVE Spec => []ReconnectIsArmed
  <1>1. TypeInv /\ SerialInv => ReconnectIsArmed
    BY DEF SerialInv, ConnectionMatchesState, TimersMatch, ReconnectIsArmed
  <1>2. QED  BY <1>1, InvHolds, PTL

\* Under the same two assumptions what a shard has armed fits its state: nothing that
\* opens a socket in one that was stopped, one reconnect in one that waits for it.
THEOREM TimersHold ==
  ASSUME SerialCaller, PromptStore PROVE Spec => []TimersAgree
  BY StoppedHolds, ReconnectHolds, PTL DEF TimersAgree

\* Before the call, task or frame no timeout was left behind; after it none is, unless
\* it was an opcode 9 on a socket that had no Hello.
LEMMA CallTimeouts ==
  ASSUME TypeInv, SerialInv, NoStaleHandshakeTimer, NEW c \in Calls, CallStep(c)
  PROVE  NoStaleHandshakeTimer'
  <1> USE DEF NoStaleHandshakeTimer
  <1>0. hsArmed \subseteq Slots /\ 0 \notin Slots
    BY ShardAssumption DEF TypeInv, TypeOK
  <1>1. CASE Connect(c)
    BY <1>1 DEF Connect, machine, timers
  <1>2. CASE ConnectLoaded(c)
    <2>1. connection = 0
      BY <1>2 DEF ConnectLoaded, SerialInv, CallsMatch, ConnectionMatchesState
    <2>2. QED  BY <1>0, <1>2, <2>1 DEF ConnectLoaded, OpenConnection
  <1>3. CASE DestroyStored(c)
    <2>1. connection \notin hsArmed /\ hsArmed' = hsArmed
      BY <1>3 DEF DestroyStored, timers, SerialInv, CallsMatch
    <2>2. QED  BY <2>1
  <1>4. ASSUME NEW recover \in Recovers, Destroy(c, recover)
        PROVE  NoStaleHandshakeTimer'
    BY <1>4 DEF Destroy, ClearHandshakeTimer, machine
  <1>5. QED  BY <1>1, <1>2, <1>3, <1>4 DEF CallStep

LEMMA OnCloseTimeouts ==
  ASSUME SerialInv, NoStaleHandshakeTimer, NEW sk, NEW code, OnClose(sk, code)
  PROVE  NoStaleHandshakeTimer'
  BY DEF OnClose, ClearHandshakeTimer, SerialInv, TimersMatch, NoStaleHandshakeTimer

LEMMA SocketTimeouts ==
  ASSUME PromptStore, TypeInv, SerialInv, NoStaleHandshakeTimer,
         NEW s \in Slots, SocketStep(s)
  PROVE  NoStaleHandshakeTimer'
  <1> USE DEF NoStaleHandshakeTimer
  <1>1. CASE SocketOpen(s) \/ Backpressure(s) \/ SendHandshake(s) \/ PeerGone(s)
    BY <1>1 DEF SocketOpen, Backpressure, SendHandshake, PeerGone, machine, timers
  <1>2. CASE DecompressionFailed(s)
    BY <1>2, OnCloseTimeouts DEF DecompressionFailed
  <1>3. CASE Zombie(s)
    <2>1. sock[s].hello /\ sock[s].phase # "free" /\ Task /\ hsArmed' = hsArmed
      BY <1>3 DEF Zombie, SerialInv, HelloMatches, FreeIsFree, FreeSocket
    <2>2. s = connection /\ s \notin hsArmed
      BY <2>1, TaskContext DEF SerialInv, HelloMatches
    <2>3. QED  BY <2>1, <2>2
  <1>4. CASE HandshakeTimeout(s)
    BY <1>4 DEF HandshakeTimeout
  <1>5. ASSUME NEW code \in PeerCodes \cup {Abnormal}, SocketClose(s, code)
        PROVE  NoStaleHandshakeTimer'
    BY <1>5, OnCloseTimeouts DEF SocketClose
  <1>6. QED  BY <1>1, <1>2, <1>3, <1>4, <1>5 DEF SocketStep

LEMMA FrameTimeouts ==
  ASSUME PromptStore, TypeInv, SerialInv, NoStaleHandshakeTimer,
         NEW s \in Slots, FrameStep(s)
  PROVE  \/ NoStaleHandshakeTimer'
         \/ \E resumable \in BOOLEAN : ~sock[s].hello /\ InvalidSession(s, resumable)
  <1> USE DEF NoStaleHandshakeTimer
  <1>1. CASE Hello(s)
    BY <1>1 DEF Hello, ClearHandshakeTimer
  <1>2. CASE \/ ReconnectRequested(s) \/ Resumed(s) \/ Dispatch(s)
             \/ \E i \in Sids : Ready(s, i)
    BY <1>2 DEF ReconnectRequested, Resumed, Dispatch, Ready, timers
  <1>3. ASSUME NEW resumable \in BOOLEAN, InvalidSession(s, resumable), sock[s].hello
        PROVE  NoStaleHandshakeTimer'
    <2>1. Task /\ sock[s].phase # "free" /\ hsArmed' = hsArmed
      BY <1>3 DEF InvalidSession, Frame
    <2>2. s = connection /\ s \notin hsArmed
      BY <1>3, <2>1, TaskContext DEF SerialInv, HelloMatches
    <2>3. QED  BY <2>1, <2>2
  <1>4. QED  BY <1>1, <1>2, <1>3 DEF FrameStep

\* A handshake timeout comes to outlive its connection only by an opcode 9 before
\* Hello: every close, timeout, zombie, refusal and call clears it, spends it or keeps
\* the connection it belongs to.
THEOREM TimeoutsHold ==
  ASSUME SerialCaller, PromptStore PROVE Spec => OnlyOpcode9LeavesTimeout
  <1>1. ASSUME TypeInv, SerialInv, [Next]_vars, NoStaleHandshakeTimer
        PROVE  \/ NoStaleHandshakeTimer'
               \/ \E s \in Slots, resumable \in BOOLEAN :
                    ~sock[s].hello /\ InvalidSession(s, resumable)
    <2>1. ASSUME NEW c \in Calls, CallStep(c) PROVE NoStaleHandshakeTimer'
      BY <1>1, <2>1, CallTimeouts
    <2>2. ASSUME NEW s \in Slots, SocketStep(s) PROVE NoStaleHandshakeTimer'
      BY <1>1, <2>2, SocketTimeouts
    <2>3. CASE ReconnectTimeout
      <3>1. connection = 0 /\ hsArmed \subseteq Slots /\ 0 \notin Slots
        BY <1>1, <2>3, ShardAssumption
        DEF ReconnectTimeout, Task, SerialInv, TimersMatch, ConnectionMatchesState,
            TypeInv, TypeOK
      <3>2. QED
        BY <1>1, <2>3, <3>1 DEF ReconnectTimeout, OpenConnection, NoStaleHandshakeTimer
    <2>4. CASE Restart \/ UNCHANGED vars
      BY <1>1, <2>4 DEF Restart, vars, machine, timers, NoStaleHandshakeTimer
    <2>5. QED  BY <1>1, <2>1, <2>2, <2>3, <2>4, FrameTimeouts DEF Next
  <1>2. TypeInv /\ SerialInv /\ [Next]_vars =>
          [NoStaleHandshakeTimer /\ ~NoStaleHandshakeTimer' =>
             \E s \in Slots, resumable \in BOOLEAN :
               ~sock[s].hello /\ InvalidSession(s, resumable)]_vars
    BY <1>1
  <1>3. QED  BY <1>2, InvHolds, PTL DEF Spec, OnlyOpcode9LeavesTimeout

\* Fatal is left by a new process only.
THEOREM FatalHolds ==
  ASSUME SerialCaller, PromptStore PROVE Spec => FatalIsTerminal
  <1>1. TypeInv /\ SerialInv /\ [Next]_vars
          => [state = "fatal" => state' \in {"fatal", "idle"}]_vars
    <2> SUFFICES ASSUME TypeInv, SerialInv, [Next]_vars, state = "fatal"
                 PROVE  state' \in {"fatal", "idle"}
      OBVIOUS
    <2>1. /\ connection = 0 /\ ~rcHeld /\ rcArmed = 0
          /\ \A s \in Slots : sock[s] = FreeSocket
      BY ShardAssumption
      DEF SerialInv, ConnectionMatchesState, TimersMatch, OneSocket, FreeIsFree,
          TypeInv, TypeOK
    <2>2. ASSUME NEW c \in Calls, CallStep(c) PROVE state' = "fatal"
      <3>1. calls[c].op # "connect"
        BY DEF SerialInv, CallsMatch
      <3>2. calls[c].op = "destroy" => calls[c].conn = 0
        BY <2>1 DEF SerialInv, CallsMatch
      <3>3. QED
        <4>1. ~Connect(c) /\ ~ConnectLoaded(c)
          BY <3>1 DEF Connect, ConnectLoaded
        <4>2. DestroyStored(c) => state' = "fatal"
          BY <3>2 DEF DestroyStored, StateAfterDestroy
        <4>3. \A recover \in Recovers : Destroy(c, recover) => state' = "fatal"
          BY DEF Destroy, machine
        <4>4. QED  BY <2>2, <4>1, <4>2, <4>3 DEF CallStep
    <2>3. ASSUME NEW s \in Slots, SocketStep(s) \/ FrameStep(s) PROVE state' = "fatal"
      <3>1. sock[s] = FreeSocket
        BY <2>1
      <3>2. /\ sock[s].phase = "free" /\ ~sock[s].beating /\ sock[s].out = "none"
        BY <3>1 DEF FreeSocket
      <3>3. QED
        BY <2>3, <3>1, <3>2 DEF SocketStep, FrameStep, SocketOpen, DecompressionFailed,
             Backpressure, Zombie, SendHandshake, PeerGone, HandshakeTimeout, SocketClose,
             Hello, ReconnectRequested, Resumed, Dispatch, InvalidSession, Ready, Frame,
             machine
    <2>4. QED
      BY <2>1, <2>2, <2>3 DEF Next, ReconnectTimeout, Restart, vars, machine
  <1>2. QED  BY <1>1, InvHolds, PTL DEF Spec, FatalIsTerminal

-----------------------------------------------------------------------------
(* The session: what is held has been heard, and the shard and the peer     *)
(* agree about it.                                                          *)

\* Nothing but the connection is not a free slot, so it is all there is to show.
LEMMA Elsewhere ==
  ASSUME TypeInv, SerialInv, NEW s \in Slots,
         sock[s].phase # "free" \/ sock[s].out # "none" \/ sock[s].peer # "waiting"
           \/ sock[s].hello \/ sock[s].beating
  PROVE  s = connection /\ connection # 0
  BY ShardAssumption DEF SerialInv, OneSocket, FreeIsFree, FreeSocket

\* A reconnect keeps the session or drops it, and leaves no connection.
LEMMA ScheduleSession ==
  ASSUME SessionInv, NEW sk, NEW att,
         NEW ses \in {session, NoSession}, NEW rec \in {store, NoRecord},
         ScheduleReconnect(sk, ses, rec, att)
  PROVE  SessionInv'
  <1>1. /\ connection' = 0 /\ state' \in {"fatal", "reconnecting"}
        /\ UNCHANGED <<calls, delivered>>
        /\ session' \in {session, NoSession} /\ store' \in {store, NoRecord}
    BY DEF ScheduleReconnect
  <1>2. SessionsHeard'
    BY <1>1 DEF SessionInv, SessionsHeard, Heard, NoSession, NoRecord
  <1>3. QED  BY <1>1, <1>2 DEF SessionInv, ResumeHasSession

\* A socket is opened with the session it will resume, or to identify.
LEMMA OpenSession ==
  ASSUME TypeInv, SerialInv, SessionInv, connection = 0,
         NEW ses \in Sessions, Heard(ses.id, ses.seq), OpenConnection(ses),
         session' = ses, UNCHANGED <<store, delivered>>,
         \A c \in Calls : calls'[c].rec \in {calls[c].rec, NoRecord}
  PROVE  SessionInv'
  <1>1. PICK s \in Slots :
          /\ sock' = [sock EXCEPT ![s].phase = "connecting"]
          /\ connection' = s /\ state' = "connecting" /\ replaying' = FALSE
          /\ intent' = ConnectIntent(ses)
    BY DEF OpenConnection
  <1>2. sock[s] = FreeSocket
    BY ShardAssumption DEF SerialInv, OneSocket, FreeIsFree
  <1>3. sock'[connection'] = [FreeSocket EXCEPT !.phase = "connecting"]
    BY <1>1, <1>2 DEF TypeInv, TypeOK
  <1>4. PeerMatches(sock[connection])'
    BY <1>1, <1>3 DEF PeerMatches, FreeSocket
  <1>5. SessionsHeard'
    BY DEF SessionInv, SessionsHeard, Heard, NoRecord
  <1>6. ResumeHasSession'
    BY <1>1 DEF ResumeHasSession, ConnectIntent
  <1>7. QED  BY <1>4, <1>5, <1>6 DEF SessionInv

LEMMA CallSession ==
  ASSUME SerialCaller, TypeInv, SerialInv, SessionInv, NEW c \in Calls, CallStep(c)
  PROVE  SessionInv'
  <1> USE DEF SessionInv
  <1>1. CASE Connect(c)
    <2>1. connection = 0 /\ UNCHANGED <<machine, session, store, delivered>>
          /\ state \in {"idle", "closed"}
      BY <1>1 DEF Connect, history
    <2>2. /\ \A d \in Calls \ {c} : calls'[d] = calls[d]
          /\ calls'[c].rec \in {NoRecord, store}
      BY <1>1 DEF Connect, IdleCall, TypeInv, TypeOK
    <2>3. SessionsHeard'
      BY <2>1, <2>2 DEF SessionsHeard, Heard, NoRecord
    <2>4. QED  BY <2>1, <2>3 DEF ResumeHasSession, machine
  <1>2. CASE ConnectLoaded(c)
    <2> DEFINE rec == calls[c].rec
               ses == IF rec.id = 0 THEN session
                      ELSE [session EXCEPT !.id = rec.id, !.seq = rec.seq]
    <2>1. connection = 0
      BY <1>2 DEF ConnectLoaded, SerialInv, CallsMatch, ConnectionMatchesState
    <2>2. ses \in Sessions /\ Heard(ses.id, ses.seq)
      <3>1. rec \in Records /\ session \in Sessions
        BY DEF TypeInv, TypeOK, CallRecords
      <3>2. ses \in Sessions
        BY <3>1 DEF Sessions, Records
      <3>3. /\ rec.id = 0 => ses = session
            /\ rec.id # 0 => ses.id = rec.id /\ ses.seq = rec.seq
        BY <3>1 DEF Sessions
      <3>4. Heard(rec.id, rec.seq) /\ Heard(session.id, session.seq)
        BY DEF SessionsHeard
      <3> HIDE DEF rec, ses
      <3>5. QED  BY <3>2, <3>3, <3>4 DEF Heard
    <2>3. /\ session' = ses /\ OpenConnection(ses) /\ UNCHANGED <<store, delivered>>
          /\ \A d \in Calls : calls'[d].rec \in {calls[d].rec, NoRecord}
      BY <1>2 DEF ConnectLoaded, IdleCall, TypeInv, TypeOK
    <2> HIDE DEF ses
    <2>4. QED  BY <2>1, <2>2, <2>3, OpenSession
  <1>3. CASE DestroyStored(c)
    <2>1. calls[c].conn = connection
      BY <1>3 DEF DestroyStored, SerialInv, CallsMatch
    <2>2. /\ connection' = 0 /\ state' \in {"closed", "fatal"}
          /\ UNCHANGED <<session, store, delivered>>
      BY <1>3, <2>1 DEF DestroyStored, StateAfterDestroy, history
    <2>3. \A d \in Calls : calls'[d].rec \in {calls[d].rec, NoRecord}
      BY <1>3 DEF DestroyStored, IdleCall, TypeInv, TypeOK
    <2>4. SessionsHeard'
      BY <2>2, <2>3 DEF SessionsHeard, Heard, NoRecord
    <2>5. QED  BY <2>2, <2>4 DEF ResumeHasSession
  <1>4. ASSUME NEW recover \in Recovers, Destroy(c, recover)
        PROVE  SessionInv'
    <2>1. /\ UNCHANGED <<machine, sock, delivered>>
          /\ session' \in {session, NoSession}
          /\ \/ store' \in {store, NoRecord}
             \/ session.id # 0 /\ store' = [id |-> session.id, seq |-> session.seq]
      BY <1>4 DEF Destroy, history
    <2>2. calls'[c].op = "destroy"
          /\ \A d \in Calls : calls'[d].rec \in {calls[d].rec, NoRecord}
      BY <1>4 DEF Destroy, IdleCall, TypeInv, TypeOK
    <2>3. SessionsHeard'
      BY <2>1, <2>2 DEF SessionsHeard, Heard, NoRecord, NoSession
    <2>4. ResumeHasSession'
      BY <2>2 DEF ResumeHasSession
    <2>5. connection # 0 => PeerMatches(sock[connection])'
      BY <2>1 DEF PeerMatches, machine, NoSession
    <2>6. QED  BY <2>1, <2>3, <2>4, <2>5 DEF machine
  <1>5. QED  BY <1>1, <1>2, <1>3, <1>4 DEF CallStep
\* The close event keeps the session, or drops it and its record.
LEMMA OnCloseSession ==
  ASSUME SessionInv, connection # 0, state \notin {"closing", "closed"},
         NEW sk, NEW code, OnClose(sk, code)
  PROVE  SessionInv'
  <1>1. CASE ResolveCloseVerdict(closingIntent # "null", code) = "fatal"
    <2>1. /\ connection' = 0 /\ state' = "fatal"
          /\ UNCHANGED <<session, store, calls, delivered>>
      BY <1>1 DEF OnClose
    <2>2. QED
      BY <2>1 DEF SessionInv, SessionsHeard, Heard, ResumeHasSession
  <1>2. CASE ResolveCloseVerdict(closingIntent # "null", code) # "fatal"
    <2> DEFINE lost == ResolveCloseVerdict(closingIntent # "null", code) = "re-identify"
               ses == IF lost THEN NoSession ELSE session
               rec == IF lost THEN NoRecord ELSE store
               att == IF code = RateLimited THEN Max2(attempt, CapAttempt) ELSE attempt
    <2>1. ScheduleReconnect(sk, ses, rec, att)
      BY <1>2 DEF OnClose
    <2>2. ses \in {session, NoSession} /\ rec \in {store, NoRecord}
      OBVIOUS
    <2> HIDE DEF ses, rec, att
    <2>3. QED  BY <2>1, <2>2, ScheduleSession
  <1>3. QED  BY <1>1, <1>2

\* A step on the connection that leaves the session, the calls and the store alone.
LEMMA SameSession ==
  ASSUME SessionInv, connection # 0,
         UNCHANGED <<connection, intent, session, store, calls, delivered>>,
         state' = state \/ state' \notin {"connecting", "handshaking"}
           \/ state \in {"connecting", "handshaking"},
         PeerMatches(sock[connection])'
  PROVE  SessionInv'
  BY DEF SessionInv, SessionsHeard, Heard, ResumeHasSession

LEMMA SocketSession ==
  ASSUME PromptStore, TypeInv, SerialInv, SessionInv, NEW s \in Slots, SocketStep(s)
  PROVE  SessionInv'
  <1>0. sock \in [Slots -> Sockets] /\ sock[s] \in Sockets /\ s # 0
    BY ShardAssumption DEF TypeInv, TypeOK
  <1>1. CASE SocketOpen(s)
    <2>1. s = connection /\ connection # 0 /\ sock[s].phase = "connecting"
          /\ state \notin {"idle", "closed", "fatal", "reconnecting", "closing"}
      BY <1>1, TaskContext DEF SocketOpen
    <2>2. /\ UNCHANGED <<connection, intent, replaying, session, store, calls, delivered>>
          /\ state' = "handshaking"
      BY <1>1 DEF SocketOpen, history
    <2>3. sock'[s] = [sock[s] EXCEPT !.phase = "open"]
      BY <1>0, <1>1 DEF SocketOpen
    <2>4. /\ PeerMatches(sock[s]) /\ state \in {"connecting", "handshaking"}
      BY <2>1 DEF SessionInv, PeerMatches, TypeInv, TypeOK, ShardState
    <2>5. PeerMatches(sock[connection])'
      BY <1>0, <2>1, <2>2, <2>3, <2>4 DEF PeerMatches, Sockets
    <2>6. QED  BY <2>1, <2>2, <2>4, <2>5, SameSession
  <1>2. CASE DecompressionFailed(s)
    BY <1>2, TaskContext, OnCloseSession DEF DecompressionFailed
  <1>3. CASE Backpressure(s)
    <2>1. s = connection /\ connection # 0
      BY <1>3, TaskContext DEF Backpressure
    <2>2. UNCHANGED <<state, connection, intent, replaying, session, store, calls,
                      delivered>>
      BY <1>3 DEF Backpressure, history
    <2>3. sock'[s] = [sock[s] EXCEPT !.beating = FALSE, !.phase = "closing"]
      BY <1>0, <1>3, <2>1 DEF Backpressure, Close, Sockets
    <2>4. PeerMatches(sock[connection])'
      BY <1>0, <2>1, <2>2, <2>3 DEF SessionInv, PeerMatches, Sockets
    <2>5. QED  BY <2>1, <2>2, <2>4, SameSession
  <1>4. CASE Zombie(s)
    BY <1>4, ScheduleSession DEF Zombie
  <1>5. CASE SendHandshake(s) \/ PeerGone(s)
    <2>1. s = connection /\ connection # 0
      BY <1>5, Elsewhere DEF SendHandshake, PeerGone
    <2>2. UNCHANGED <<state, connection, intent, replaying, session, store, calls,
                      delivered>>
      BY <1>5 DEF SendHandshake, PeerGone, machine, history
    <2>3. PeerMatches(sock[s])
      BY <2>1 DEF SessionInv
    <2>4. CASE SendHandshake(s)
      <3>1. /\ sock'[s].phase = sock[s].phase /\ sock'[s].hello = sock[s].hello
            /\ sock'[s].sid = sock[s].sid /\ sock'[s].out = "none"
            /\ sock'[s].peer = IF sock[s].phase # "open" \/ sock[s].peer # "waiting"
                              THEN sock[s].peer
                              ELSE IF sock[s].out = "identify" THEN "identified"
                                   ELSE "resuming"
        BY <1>0, <2>4 DEF SendHandshake, Sockets
      <3>2. sock[s].out \in {"identify", "resume"} /\ sock[s].peer = "waiting"
        BY <1>0, <2>3, <2>4 DEF SendHandshake, PeerMatches, Sockets
      <3>3. PeerMatches(sock[connection])'
        BY <2>1, <2>2, <2>3, <3>1, <3>2 DEF PeerMatches
      <3>4. QED  BY <2>1, <2>2, <3>3, SameSession
    <2>5. CASE PeerGone(s)
      <3>1. sock'[s] = [sock[s] EXCEPT !.gone = TRUE]
        BY <1>0, <2>5 DEF PeerGone
      <3>2. PeerMatches(sock[connection])'
        BY <1>0, <2>1, <2>2, <2>3, <3>1 DEF PeerMatches, Sockets
      <3>3. QED  BY <2>1, <2>2, <3>2, SameSession
    <2>6. QED  BY <1>5, <2>4, <2>5
  <1>6. CASE HandshakeTimeout(s)
    <2>1. CASE state # "handshaking"
      BY <1>6, <2>1
      DEF HandshakeTimeout, SessionInv, SessionsHeard, Heard, ResumeHasSession,
          PeerMatches, machine, history
    <2>2. CASE state = "handshaking"
      BY <1>6, <2>2, ScheduleSession DEF HandshakeTimeout
    <2>3. QED  BY <2>1, <2>2
  <1>7. ASSUME NEW code \in PeerCodes \cup {Abnormal}, SocketClose(s, code)
        PROVE  SessionInv'
    BY <1>7, TaskContext, OnCloseSession DEF SocketClose
  <1>8. QED
    BY <1>1, <1>2, <1>3, <1>4, <1>5, <1>6, <1>7 DEF SocketStep

LEMMA FrameSession ==
  ASSUME PromptStore, TypeInv, SerialInv, SessionInv, NEW s \in Slots, FrameStep(s)
  PROVE  SessionInv'
  <1>0. sock \in [Slots -> Sockets] /\ sock[s] \in Sockets /\ s # 0
    BY ShardAssumption DEF TypeInv, TypeOK
  <1>1. /\ Idle /\ s = connection /\ connection # 0 /\ sock[s].phase \in {"open", "closing"}
        /\ state \notin {"idle", "closed", "fatal", "reconnecting", "closing"}
    <2>1. Frame(s)
      BY DEF FrameStep, Hello, ReconnectRequested, Resumed, Dispatch, InvalidSession, Ready
    <2>2. QED  BY <2>1, TaskContext DEF Frame
  <1>2. PeerMatches(sock[s]) /\ SessionsHeard
    BY <1>1 DEF SessionInv
  <1>3. CASE Hello(s)
    <2>1. /\ UNCHANGED <<connection, intent, replaying, store, calls, delivered>>
          /\ session'.id = session.id /\ session'.seq = session.seq
          /\ ~sock[s].hello
      BY <1>1, <1>3 DEF Hello, history, TypeInv, TypeOK, Sessions
    <2>2. sock[s].out = "none" /\ sock[s].peer = "waiting"
          /\ state \in {"connecting", "handshaking"}
      BY <1>1, <1>2, <2>1
      DEF SerialInv, HelloMatches, PeerMatches, TypeInv, TypeOK, ShardState
    <2>3. /\ sock'[s].hello /\ sock'[s].phase = sock[s].phase /\ sock'[s].peer = "waiting"
          /\ \/ state' = "identifying" /\ sock'[s].out = "identify"
             \/ /\ state' = "resuming" /\ sock'[s].out = "resume"
                /\ sock'[s].sid = session.id /\ session.id # 0
      <3>1. CASE intent = "identify"
        BY <1>0, <1>1, <1>3, <2>2, <3>1 DEF Hello, Sockets
      <3>2. CASE intent = "resume"
        <4>1. Resumable(session)
          BY <1>1, <2>2, <3>2 DEF SessionInv, ResumeHasSession, Idle
        <4>2. sock' = [[sock EXCEPT ![s].hello = TRUE] EXCEPT ![s].beating = TRUE,
                 ![s].out = "resume", ![s].sid = session.id, ![s].cur = session.seq]
              /\ state' = "resuming"
          BY <1>1, <1>3, <3>2, <4>1 DEF Hello
        <4>3. QED  BY <1>0, <2>2, <4>1, <4>2 DEF Resumable, Sockets
      <3>3. QED  BY <3>1, <3>2 DEF TypeInv, TypeOK
    <2>4. PeerMatches(sock[connection])'
      BY <1>1, <1>2, <2>1, <2>2, <2>3 DEF PeerMatches
    <2>5. SessionsHeard' /\ ResumeHasSession'
      BY <1>2, <2>1, <2>3 DEF SessionsHeard, Heard, ResumeHasSession
    <2>6. QED  BY <2>4, <2>5 DEF SessionInv
  <1>4. CASE ReconnectRequested(s)
    <2>1. UNCHANGED <<state, connection, intent, replaying, session, store, calls,
                      delivered>>
      BY <1>4 DEF ReconnectRequested, history
    <2>2. sock'[s] = [sock[s] EXCEPT !.beating = FALSE, !.phase = "closing"]
      BY <1>0, <1>1, <1>4 DEF ReconnectRequested, Close, Sockets
    <2>3. PeerMatches(sock[connection])'
      BY <1>0, <1>1, <1>2, <2>1, <2>2 DEF PeerMatches, Sockets
    <2>4. QED  BY <1>1, <2>1, <2>3, SameSession
  <1>5. ASSUME NEW resumable \in BOOLEAN, InvalidSession(s, resumable)
        PROVE  SessionInv'
    <2> DEFINE can == resumable /\ state # "identifying"
               ses == IF can THEN session ELSE NoSession
               rec == IF can THEN store ELSE NoRecord
    <2>1. ScheduleReconnect(sock, ses, rec, attempt)
      BY <1>5 DEF InvalidSession
    <2>2. ses \in {session, NoSession} /\ rec \in {store, NoRecord}
      OBVIOUS
    <2> HIDE DEF ses, rec
    <2>3. QED  BY <2>1, <2>2, ScheduleSession
  <1>6. ASSUME NEW i \in Sids, Ready(s, i)
        PROVE  SessionInv'
    <2>1. i # 0 /\ delivered \in [Sids -> 0 .. MaxSeq]
      BY ShardAssumption DEF TypeInv, TypeOK
    <2>2. /\ session' = [id |-> i, seq |-> 1, tries |-> 0]
          /\ store' = [id |-> i, seq |-> 1]
          /\ state' = "ready" /\ delivered' = [delivered EXCEPT ![i] = 1]
          /\ UNCHANGED <<connection, intent, replaying, calls>>
          /\ sock[s].peer = "identified" /\ \A c \in Calls : calls[c].rec.id # i
      BY <1>6 DEF Ready, Established, FreshSid
    <2>3. /\ sock'[s].peer = "live" /\ sock'[s].sid = i
          /\ sock'[s].phase = sock[s].phase /\ sock'[s].hello = sock[s].hello
          /\ sock'[s].out = sock[s].out
      BY <1>0, <1>6 DEF Ready, Sockets
    <2>4. SessionsHeard'
      <3>1. /\ session'.id = i /\ session'.seq = 1 /\ store'.id = i /\ store'.seq = 1
            /\ delivered'[i] = 1
        BY <2>1, <2>2
      <3>2. ASSUME NEW c \in Calls PROVE Heard(calls[c].rec.id, calls[c].rec.seq)'
        <4>1. calls[c].rec.id # 0 => delivered'[calls[c].rec.id] = delivered[calls[c].rec.id]
          BY <2>1, <2>2 DEF TypeInv, TypeOK, CallRecords, Records
        <4>2. QED  BY <1>2, <2>2, <4>1 DEF SessionsHeard, Heard
      <3>3. QED  BY <2>2, <3>1, <3>2 DEF SessionsHeard, Heard
    <2>5. PeerMatches(sock[connection])'
      BY <1>1, <1>2, <2>1, <2>2, <2>3 DEF PeerMatches
    <2>6. QED  BY <2>2, <2>4, <2>5 DEF SessionInv, ResumeHasSession
  <1>7. CASE Resumed(s) \/ Dispatch(s)
    <2>1. /\ UNCHANGED <<connection, intent, store, calls>>
          /\ session' \in {[session EXCEPT !.seq = sock[s].cur + 1, !.tries = 0],
                           [session EXCEPT !.seq = sock[s].cur + 1]}
          /\ delivered' = Emitted(s)
          /\ sock[s].peer \in {"resuming", "live"}
      BY <1>7 DEF Resumed, Dispatch
    <2>2. /\ session'.id = session.id /\ session'.seq = sock[s].cur + 1
          /\ sock[s].sid # 0 /\ session.id \in {0, sock[s].sid}
          /\ sock[s].sid \in Sids /\ sock[s].cur \in Nat
          /\ delivered \in [Sids -> Nat]
      <3>1. session \in Sessions /\ delivered \in [Sids -> Nat]
        BY ShardAssumption DEF TypeInv, TypeOK
      <3>2. session'.id = session.id /\ session'.seq = sock[s].cur + 1
        BY <2>1, <3>1 DEF Sessions
      <3>3. sock[s].sid # 0 /\ session.id \in {0, sock[s].sid}
        BY <1>2, <2>1 DEF PeerMatches
      <3>4. sock[s].sid \in Sids /\ sock[s].cur \in Nat
        BY <1>0, <3>3 DEF Sockets
      <3>5. QED  BY <3>1, <3>2, <3>3, <3>4
    <2>3. /\ \A i \in Sids : delivered'[i] \in Nat /\ delivered'[i] >= delivered[i]
          /\ delivered'[sock[s].sid] >= sock[s].cur + 1
      BY <2>1, <2>2 DEF Emitted, Max2
    <2>4. SessionsHeard'
      <3>1. ASSUME NEW i \in Sids \cup {0}, NEW n, Heard(i, n)
            PROVE  i # 0 => n \in 1 .. delivered'[i]
        BY <2>2, <2>3, <3>1 DEF Heard
      <3>2. /\ store.id \in Sids \cup {0}
            /\ \A c \in Calls : calls[c].rec.id \in Sids \cup {0}
        BY DEF TypeInv, TypeOK, Records, CallRecords
      <3>3. Heard(store.id, store.seq)'
        BY <1>2, <2>1, <3>1, <3>2 DEF SessionsHeard, Heard
      <3>4. \A c \in Calls : Heard(calls[c].rec.id, calls[c].rec.seq)'
        BY <1>2, <2>1, <3>1, <3>2 DEF SessionsHeard, Heard
      <3>5. Heard(session.id, session.seq)'
        BY <2>2, <2>3 DEF Heard
      <3>6. QED  BY <3>3, <3>4, <3>5 DEF SessionsHeard
    <2>5. CASE Resumed(s)
      <3>1. /\ sock'[s].peer = "live" /\ sock'[s].sid = sock[s].sid
            /\ sock'[s].phase = sock[s].phase /\ sock'[s].hello = sock[s].hello
            /\ sock'[s].out = sock[s].out
        BY <1>0, <2>5 DEF Resumed, Sockets
      <3>2. state' = "ready" /\ replaying' = FALSE /\ sock[s].peer = "resuming"
        BY <2>5 DEF Resumed, StopReplaying
      <3>3. PeerMatches(sock[connection])'
        BY <1>1, <1>2, <2>1, <2>2, <3>1, <3>2 DEF PeerMatches
      <3>4. QED  BY <2>4, <3>2, <3>3 DEF SessionInv, ResumeHasSession
    <2>6. CASE Dispatch(s)
      <3>1. /\ sock'[s].peer = sock[s].peer /\ sock'[s].sid = sock[s].sid
            /\ sock'[s].phase = sock[s].phase /\ sock'[s].hello = sock[s].hello
            /\ sock'[s].out = sock[s].out
        BY <1>0, <2>6 DEF Dispatch, Sockets
      <3>2. /\ replaying' = (replaying \/ state = "resuming")
            /\ state' = IF state = "resuming" THEN "replaying" ELSE state
        BY <2>6 DEF Dispatch
      <3>3. state \in {"resuming", "replaying", "ready"}
        BY <1>2, <2>1 DEF PeerMatches
      <3>4. PeerMatches(sock[connection])'
        BY <1>1, <1>2, <2>1, <2>2, <3>1, <3>2, <3>3 DEF PeerMatches
      <3>5. QED  BY <2>4, <3>2, <3>3, <3>4 DEF SessionInv, ResumeHasSession
    <2>7. QED  BY <1>7, <2>5, <2>6
  <1>8. QED
    BY <1>3, <1>4, <1>5, <1>6, <1>7 DEF FrameStep

LEMMA SessionStep ==
  ASSUME SerialCaller, PromptStore, TypeInv, SerialInv, SessionInv, [Next]_vars
  PROVE  SessionInv'
  <1>1. ASSUME NEW c \in Calls, CallStep(c) PROVE SessionInv'
    BY <1>1, CallSession
  <1>2. ASSUME NEW s \in Slots, SocketStep(s) \/ FrameStep(s) PROVE SessionInv'
    BY <1>2, SocketSession, FrameSession
  <1>3. CASE ReconnectTimeout
    <2>1. connection = 0
      BY <1>3 DEF ReconnectTimeout, Task, Idle, SerialInv, TimersMatch,
                  ConnectionMatchesState
    <2>2. /\ session \in Sessions /\ Heard(session.id, session.seq)
          /\ OpenConnection(session) /\ UNCHANGED <<session, store, calls, delivered>>
      BY <1>3 DEF ReconnectTimeout, TypeInv, TypeOK, SessionInv, SessionsHeard
    <2>3. QED  BY <2>1, <2>2, OpenSession
  <1>4. CASE Restart
    <2>1. /\ connection' = 0 /\ state' = "idle" /\ session' = NoSession
          /\ UNCHANGED <<store, delivered>>
          /\ \A c \in Calls : calls'[c].rec = NoRecord
      BY <1>4 DEF Restart, IdleCall
    <2>2. SessionsHeard'
      BY <2>1 DEF SessionInv, SessionsHeard, Heard, NoSession, NoRecord
    <2>3. QED  BY <2>1, <2>2 DEF SessionInv, ResumeHasSession
  <1>5. CASE UNCHANGED vars
    BY <1>5 DEF vars, machine, history, SessionInv, SessionsHeard, Heard,
                ResumeHasSession, PeerMatches
  <1>6. QED  BY <1>1, <1>2, <1>3, <1>4, <1>5 DEF Next

LEMMA SessionInit == Init => SessionInv
  BY DEF Init, SessionInv, SessionsHeard, Heard, ResumeHasSession, NoSession, NoRecord,
         IdleCall

LEMMA SessionHolds ==
  ASSUME SerialCaller, PromptStore
  PROVE  Spec => [](TypeInv /\ SerialInv /\ SessionInv)
  <1>1. Init => TypeInv /\ SerialInv /\ SessionInv
    BY TypeInit, SerialInit, SessionInit
  <1>2. TypeInv /\ SerialInv /\ SessionInv /\ [Next]_vars
          => (TypeInv /\ SerialInv /\ SessionInv)'
    BY TypeStep, SerialStep, SessionStep
  <1>3. QED  BY <1>1, <1>2, PTL DEF Spec

\* No dispatch is skipped: whatever the shard resumes with, from memory or from the
\* store, is a sequence number the bot has been given of that very session, across
\* reconnects, destroy() and new processes.
THEOREM NothingSkipped ==
  ASSUME SerialCaller, PromptStore PROVE Spec => []NoSkippedDispatch
  <1>1. SessionInv => NoSkippedDispatch
    BY DEF SessionInv, SessionsHeard, Heard, NoSkippedDispatch
  <1>2. QED  BY <1>1, SessionHolds, PTL

\* A connection set up to resume has its session until it does, and the shard's state
\* is the one the gateway has accepted on that connection.
THEOREM SessionsAgree ==
  ASSUME SerialCaller, PromptStore PROVE Spec => []SessionAgrees
  <1>1. TypeInv /\ SerialInv /\ SessionInv => SessionAgrees
    BY DEF SessionInv, PeerMatches, SessionAgrees, AgreesWithPeer
  <1>2. QED  BY <1>1, SessionHolds, PTL

-----------------------------------------------------------------------------
(* Giving up: of every caller and every store. *)

\* Every reconnect is counted by the backoff before the next one is considered.
LEMMA ScheduleCounted ==
  ASSUME TypeInv, RetriesCounted, NEW sk, NEW ses, NEW rec,
         NEW att \in Nat, att >= attempt, ScheduleReconnect(sk, ses, rec, att)
  PROVE  RetriesCounted'
  <1>1. /\ attempt \in Nat /\ retries \in Nat /\ MaxAttempts \in Nat
        /\ AttemptBound \in Nat /\ AttemptBound >= MaxAttempts
    BY ShardAssumption DEF TypeInv, TypeOK, AttemptBound, Max2
  <1>2. CASE Exhausted(att) /\ attempt' = att /\ retries' = retries
    BY <1>1, <1>2 DEF RetriesCounted
  <1>3. CASE /\ ~Exhausted(att) /\ attempt' = Bump(att, AttemptBound)
             /\ retries' = Bump(retries, MaxAttempts + 1)
    BY <1>1, <1>3 DEF RetriesCounted, Exhausted, Bump
  <1>4. QED  BY <1>2, <1>3 DEF ScheduleReconnect

LEMMA OnCloseCounted ==
  ASSUME TypeInv, RetriesCounted, NEW sk, NEW code, OnClose(sk, code)
  PROVE  RetriesCounted'
  <1> DEFINE att == IF code = RateLimited THEN Max2(attempt, CapAttempt) ELSE attempt
  <1>1. att \in Nat /\ att >= attempt
    BY ShardAssumption DEF Max2, TypeInv, TypeOK
  <1>2. \/ UNCHANGED <<attempt, retries>>
        \/ \E ses, rec : ScheduleReconnect(sk, ses, rec, att)
    BY DEF OnClose, history
  <1> HIDE DEF att
  <1>3. QED  BY <1>1, <1>2, ScheduleCounted DEF RetriesCounted

LEMMA CountedStep == TypeInv /\ RetriesCounted /\ [Next]_vars => RetriesCounted'
  <1> SUFFICES ASSUME TypeInv, RetriesCounted, [Next]_vars PROVE RetriesCounted'
    OBVIOUS
  <1>0. attempt \in Nat /\ attempt >= attempt /\ MaxAttempts \in Nat
    BY ShardAssumption DEF TypeInv, TypeOK
  <1>1. ASSUME NEW c \in Calls, CallStep(c) PROVE RetriesCounted'
    BY <1>1 DEF CallStep, Connect, ConnectLoaded, Destroy, DestroyStored, history,
                RetriesCounted
  <1>2. ASSUME NEW s \in Slots, SocketStep(s) PROVE RetriesCounted'
    <2>1. \/ UNCHANGED <<attempt, retries>>
          \/ \E sk, code : OnClose(sk, code)
          \/ \E sk : ScheduleReconnect(sk, session, store, attempt)
      BY <1>2 DEF SocketStep, SocketOpen, DecompressionFailed, Backpressure, Zombie,
                  SendHandshake, PeerGone, HandshakeTimeout, SocketClose, history
    <2>2. QED  BY <1>0, <2>1, OnCloseCounted, ScheduleCounted DEF RetriesCounted
  <1>3. ASSUME NEW s \in Slots, FrameStep(s) PROVE RetriesCounted'
    <2>1. \/ UNCHANGED <<attempt, retries>>
          \/ attempt' = 0 /\ retries' = 0
          \/ \E sk, ses, rec : ScheduleReconnect(sk, ses, rec, attempt)
      BY <1>3 DEF FrameStep, Hello, ReconnectRequested, InvalidSession, Ready, Resumed,
                  Dispatch, history
    <2>2. QED  BY <1>0, <2>1, ScheduleCounted DEF RetriesCounted
  <1>4. CASE ReconnectTimeout \/ Restart \/ UNCHANGED vars
    BY <1>0, <1>4 DEF ReconnectTimeout, Restart, vars, history, RetriesCounted
  <1>5. QED  BY <1>1, <1>2, <1>3, <1>4 DEF Next

\* options.backoff.maxAttempts bounds the reconnects made without a READY or RESUMED,
\* whoever calls, however slow the store and whatever ends each connection.
THEOREM RetriesAreBounded == Spec => []BoundedRetries
  <1>1. Init => RetriesCounted
    BY ShardAssumption DEF Init, RetriesCounted
  <1>2. RetriesCounted => BoundedRetries
    BY DEF RetriesCounted, BoundedRetries
  <1>3. QED  BY <1>1, <1>2, TypeInit, TypeStep, CountedStep, PTL DEF Spec
=============================================================================
