------------------------------- MODULE Shard -------------------------------
(***************************************************************************)
(* One gateway shard: the state machine of packages/gateway/src/Shard.ts   *)
(* with its ShardSession, Backoff, the two timers, the sockets it owns     *)
(* (ShardConnection and its transport), the session store, and the peer.   *)
(*                                                                         *)
(* JavaScript runs one handler at a time, so one handler is one action.    *)
(* connect() and destroy() are cut in two at their await of the store.     *)
(*                                                                         *)
(* A socket lives in a slot.  Slots are recycled once nothing refers to    *)
(* them, so the number of connections of a run is not bounded; a second    *)
(* slot exists to show a socket the shard has lost track of.               *)
(***************************************************************************)
EXTENDS Naturals, FiniteSets, CloseCodes

CONSTANTS
  Slots,              \* socket slots, positive naturals
  Sids,               \* session ids the gateway hands out, positive naturals
  MaxSeq,             \* bound: sequence numbers of one session
  PeerCodes,          \* the close codes the peer may send
  MaxResumeAttempts,  \* options.maxResumeAttempts
  GivesUp,            \* whether options.backoff.maxAttempts is set ...
  MaxAttempts,        \* ... and its value
  CapAttempt,         \* ceil(log2(capMs / baseMs))
  Calls,              \* bound: connect() and destroy() calls in flight
  MaxTimers,          \* bound: reconnects armed when connect() is called
  Recovers,           \* the arguments destroy() is called with
  SerialCaller,       \* calls are made as ShardManager makes them
  PromptStore         \* the store answers before the next event-loop task

ASSUME ShardAssumption ==
  /\ Slots \subseteq Nat \ {0} /\ Sids \subseteq Nat \ {0}
  /\ MaxSeq \in Nat \ {0} /\ MaxResumeAttempts \in Nat \ {0}
  /\ MaxAttempts \in Nat /\ CapAttempt \in Nat /\ MaxTimers \in Nat
  /\ Recovers \subseteq {"none", "resume"}
  /\ GivesUp \in BOOLEAN /\ SerialCaller \in BOOLEAN /\ PromptStore \in BOOLEAN
  /\ PeerCodes \subseteq Nat

VARIABLES
  state, connection, intent, closingIntent, replaying,
  hsArmed,        \* slots whose handshake timeout has yet to fire
  hsHeld,         \* the slot #handshakeTimer refers to, 0 for null
  rcArmed,        \* how many reconnect timeouts have yet to fire
  rcHeld,         \* whether #reconnectTimer is not null
  session,        \* ShardSession: id, seq (0 for null) and resumeAttempts
  attempt,        \* Backoff
  sock,           \* the sockets and the peer's end of each
  store,          \* this shard's record in the session store
  calls,          \* connect() and destroy() calls suspended at their await
  delivered,      \* history: highest sequence emitted to the bot, by session
  retries,        \* history: reconnects scheduled since the last success
  resumeOpens,    \* history: sockets opened to resume since the last success
  gaveUp          \* whether the last fatal error was "Gave up reconnecting"

machine == <<state, connection, intent, closingIntent, replaying>>
timers == <<hsArmed, hsHeld, rcArmed, rcHeld>>
history == <<delivered, retries, resumeOpens, gaveUp>>
vars == <<machine, timers, session, attempt, sock, store, calls, history>>

ShardState == {"idle", "connecting", "handshaking", "identifying", "resuming",
               "replaying", "ready", "reconnecting", "closing", "closed", "fatal"}
ClosingIntent == {"null", "zombie", "user", "resume", "backpressure"}

Records == [id : Sids \cup {0}, seq : 0 .. MaxSeq]
NoRecord == [id |-> 0, seq |-> 0]
Sessions == [id : Sids \cup {0}, seq : 0 .. MaxSeq, tries : Nat]
NoSession == [id |-> 0, seq |-> 0, tries |-> 0]
Resumable(ses) == ses.id # 0 /\ ses.seq # 0

Sockets ==
  [phase   : {"free", "connecting", "open", "closing", "closed"},
   beating : BOOLEAN,                                \* its Heartbeater runs
   hello   : BOOLEAN,                                \* Hello has arrived
   out     : {"none", "identify", "resume"},         \* handshake yet to be sent
   peer    : {"waiting", "identified", "resuming", "live"},
   sid     : Sids \cup {0},                          \* session of this socket
   cur     : 0 .. MaxSeq,                            \* last sequence sent on it
   gone    : BOOLEAN]                                \* the peer went silent
FreeSocket == [phase |-> "free", beating |-> FALSE, hello |-> FALSE, out |-> "none",
               peer |-> "waiting", sid |-> 0, cur |-> 0, gone |-> FALSE]

IdleCall == [op |-> "idle", rec |-> NoRecord, conn |-> 0, recover |-> "none"]
CallRecords == [op : {"idle", "connect", "destroy"}, rec : Records,
                conn : Slots \cup {0}, recover : {"none", "resume"}]

Max2(a, b) == IF a >= b THEN a ELSE b
\* A counter only ever compared with the bound saturates there.
Bump(n, bound) == IF n < bound THEN n + 1 ELSE n
TriesBound == MaxResumeAttempts + 1
AttemptBound == Max2(MaxAttempts, CapAttempt)

Init ==
  /\ state = "idle" /\ connection = 0 /\ intent = "identify"
  /\ closingIntent = "null" /\ replaying = FALSE
  /\ hsArmed = {} /\ hsHeld = 0 /\ rcArmed = 0 /\ rcHeld = FALSE
  /\ session = NoSession /\ attempt = 0
  /\ sock = [s \in Slots |-> FreeSocket]
  /\ store = NoRecord /\ calls = [c \in Calls |-> IdleCall]
  /\ delivered = [i \in Sids |-> 0]
  /\ retries = 0 /\ resumeOpens = 0 /\ gaveUp = FALSE

-----------------------------------------------------------------------------
(* Steps the handlers share.  A definition no other one uses is a faulty     *)
(* variant of the one after it: the mutants of PROJECT.json put it there to  *)
(* show that a property would notice.                                        *)

\* A prompt store resumes its caller from the microtask queue, before any timer
\* or socket event is taken.
Task == PromptStore => \A c \in Calls : calls[c].op = "idle"

DisposeNothing(sk, s) == sk

\* ShardConnection.dispose: detached for good, heartbeater stopped.
Dispose(sk, s) == IF s = 0 THEN sk ELSE [sk EXCEPT ![s] = FreeSocket]

\* ShardConnection.close: stops the heartbeater and starts a closing handshake.
Close(sk, s) ==
  IF s = 0 THEN sk
  ELSE [sk EXCEPT ![s].beating = FALSE,
                  ![s].phase = IF sk[s].phase = "open" THEN "closing" ELSE @]

\* The transport reported the close: nothing more arrives on the socket.
Ended(sk, s) ==
  IF sk[s].beating THEN [sk EXCEPT ![s].phase = "closed"] ELSE Dispose(sk, s)

ExhaustedLate(a) == GivesUp /\ a > MaxAttempts

\* Backoff.exhausted.
Exhausted(a) == GivesUp /\ a >= MaxAttempts

ForgetHandshakeTimer == UNCHANGED hsArmed /\ hsHeld' = 0

ClearHandshakeTimer ==
  /\ hsArmed' = hsArmed \ {hsHeld}
  /\ hsHeld' = 0

LeaveReconnectTimer == UNCHANGED <<rcArmed, rcHeld>>

\* The second half of #clearTimers.
ClearReconnectTimer ==
  /\ rcArmed' = IF rcHeld THEN rcArmed - 1 ELSE rcArmed
  /\ rcHeld' = FALSE

ArmNoReconnect == UNCHANGED <<rcArmed, rcHeld>>

ArmReconnect == rcArmed' = rcArmed + 1 /\ rcHeld' = TRUE

IntentKept(ses) == IF Resumable(ses) \/ intent = "resume" THEN "resume" ELSE "identify"

ConnectIntent(ses) == IF Resumable(ses) THEN "resume" ELSE "identify"

\* A slot can be used again when no socket, timer or suspended call refers to it.
Unused(s) ==
  /\ sock[s].phase = "free"
  /\ s \notin hsArmed
  /\ \A c \in Calls : calls[c].conn # s

OpenConnection(ses) ==
  \E s \in Slots :
    /\ Unused(s)
    /\ sock' = [sock EXCEPT ![s].phase = "connecting"]
    /\ connection' = s
    /\ intent' = ConnectIntent(ses)
    /\ closingIntent' = "null"
    /\ replaying' = FALSE
    /\ state' = "connecting"
    /\ hsArmed' = hsArmed \cup {s}
    /\ hsHeld' = s
    /\ resumeOpens' = IF Resumable(ses) THEN Bump(resumeOpens, TriesBound) ELSE 0

\* scheduleReconnect, after a handler that leaves the sockets sk, the session
\* ses, its record rec and the attempt count att.
ScheduleReconnect(sk, ses, rec, att) ==
  /\ sock' = Dispose(sk, connection)
  /\ connection' = 0
  /\ UNCHANGED <<intent, replaying, calls, delivered, resumeOpens>>
  /\ \/ /\ Exhausted(att)
        /\ state' = "fatal" /\ gaveUp' = TRUE
        /\ session' = ses /\ store' = rec /\ attempt' = att
        /\ UNCHANGED <<rcArmed, rcHeld, retries>>
     \/ /\ ~Exhausted(att)
        /\ state' = "reconnecting"
        /\ session' = IF ses.tries >= MaxResumeAttempts THEN NoSession ELSE ses
        /\ store' = IF ses.tries >= MaxResumeAttempts THEN NoRecord ELSE rec
        /\ attempt' = Bump(att, AttemptBound)
        /\ ArmReconnect
        /\ retries' = Bump(retries, MaxAttempts + 1)
        /\ UNCHANGED gaveUp

-----------------------------------------------------------------------------
(* The user's calls. *)

\* connect() up to its await of ShardSession.load.  The record is the one stored
\* when the call is made.
Connect(c) ==
  /\ calls[c].op = "idle"
  /\ state # "fatal" /\ connection = 0 /\ rcArmed <= MaxTimers
  /\ SerialCaller => /\ state \in {"idle", "closed"}
                     /\ \A d \in Calls : calls[d].op = "idle"
  /\ calls' = [calls EXCEPT ![c] =
       [IdleCall EXCEPT !.op = "connect",
                        !.rec = IF session.id # 0 THEN NoRecord ELSE store]]
  /\ UNCHANGED <<machine, timers, session, attempt, sock, store, history>>

\* The rest of load() and of connect().
ConnectLoaded(c) ==
  LET rec == calls[c].rec
      ses == IF rec.id = 0 THEN session
             ELSE [session EXCEPT !.id = rec.id, !.seq = rec.seq]
  IN /\ calls[c].op = "connect"
     /\ calls' = [calls EXCEPT ![c] = IdleCall]
     /\ session' = ses
     /\ OpenConnection(ses)
     /\ UNCHANGED <<rcArmed, rcHeld, attempt, store, delivered, retries, gaveUp>>

\* destroy() up to its await of the store.
Destroy(c, recover) ==
  /\ calls[c].op = "idle"
  /\ SerialCaller => \A d \in Calls : calls[d].op = "idle"
  /\ ClearHandshakeTimer
  /\ ClearReconnectTimer
  /\ calls' = [calls EXCEPT ![c] =
       [IdleCall EXCEPT !.op = "destroy", !.conn = connection, !.recover = recover]]
  /\ \/ /\ recover = "resume"
        /\ store' = IF session.id = 0 THEN store
                    ELSE [id |-> session.id, seq |-> session.seq]
        /\ UNCHANGED session
     \/ /\ recover = "none"
        /\ session' = NoSession /\ store' = NoRecord
  /\ UNCHANGED <<machine, attempt, sock, history>>

ClosedEvenIfFatal == "closed"

StateAfterDestroy == IF state = "fatal" THEN "fatal" ELSE "closed"

\* The rest of destroy().
DestroyStored(c) ==
  LET conn == calls[c].conn
  IN /\ calls[c].op = "destroy"
     /\ calls' = [calls EXCEPT ![c] = IdleCall]
     /\ \/ /\ conn = 0
           /\ state' = StateAfterDestroy
           /\ UNCHANGED <<connection, closingIntent, sock>>
        \/ /\ conn # 0
           /\ state' = "closed" /\ closingIntent' = "user"
           /\ sock' = Dispose(sock, conn)
           /\ connection' = 0
     /\ UNCHANGED <<intent, replaying, timers, session, attempt, store, history>>

-----------------------------------------------------------------------------
(* The socket: open, close, and what stops it from being read. *)

SocketOpen(s) ==
  /\ Task
  /\ sock[s].phase = "connecting"
  /\ sock' = [sock EXCEPT ![s].phase = "open"]
  /\ state' = "handshaking"
  /\ UNCHANGED <<connection, intent, closingIntent, replaying, timers, session,
                 attempt, store, calls, history>>

\* Shard.#onClose, on sockets sk.
OnClose(sk, code) ==
  LET verdict == ResolveCloseVerdict(closingIntent # "null", code)
      lost == verdict = "re-identify"
  IN /\ ClearHandshakeTimer
     /\ UNCHANGED closingIntent
     /\ \/ /\ state \in {"closing", "closed"}
           /\ sock' = sk
           /\ UNCHANGED <<state, connection, intent, replaying, rcArmed, rcHeld,
                          session, attempt, store, calls, history>>
        \/ /\ state \notin {"closing", "closed"} /\ verdict = "fatal"
           /\ sock' = Dispose(sk, connection) /\ connection' = 0
           /\ state' = "fatal" /\ gaveUp' = FALSE
           /\ UNCHANGED <<intent, replaying, rcArmed, rcHeld, session, attempt,
                          store, calls, delivered, retries, resumeOpens>>
        \/ /\ state \notin {"closing", "closed"} /\ verdict # "fatal"
           /\ ScheduleReconnect(sk,
                IF lost THEN NoSession ELSE session,
                IF lost THEN NoRecord ELSE store,
                IF code = RateLimited THEN Max2(attempt, CapAttempt) ELSE attempt)

\* The close event; before the socket opened it can only be an abnormal one,
\* real or made up from the error event.
SocketClose(s, code) ==
  /\ Task
  /\ \/ sock[s].phase = "connecting" /\ code = Abnormal
     \/ sock[s].phase \in {"open", "closing"} /\ (sock[s].gone => code = Abnormal)
  /\ OnClose(Ended(sock, s), code)

\* The decompressor failed: the shard is told 4000, the socket is not closed.
DecompressionFailed(s) ==
  /\ Task
  /\ sock[s].phase \in {"open", "closing"} /\ ~sock[s].gone
  /\ OnClose(sock, CLOSE_RESUMABLE)

\* Too much undelivered traffic: a graceful close, and the shard waits for it.
Backpressure(s) ==
  /\ Task
  /\ sock[s].phase = "open" /\ ~sock[s].gone
  /\ closingIntent' = "backpressure"
  /\ sock' = Close(sock, s)
  /\ UNCHANGED <<state, connection, intent, replaying, timers, session, attempt,
                 store, calls, history>>

\* A whole interval without an acknowledgement.
Zombie(s) ==
  /\ Task
  /\ sock[s].beating
  /\ closingIntent' = "zombie"
  /\ ScheduleReconnect([sock EXCEPT ![s].beating = FALSE], session, store, attempt)
  /\ UNCHANGED <<hsArmed, hsHeld>>

\* The throttle and the send queue let the handshake out.  A socket that is not
\* open drops it with an error event.
SendHandshake(s) ==
  /\ sock[s].out # "none"
  /\ sock' = [sock EXCEPT
       ![s].out = "none",
       ![s].peer = IF sock[s].phase # "open" \/ @ # "waiting" THEN @
                   ELSE IF sock[s].out = "identify" THEN "identified" ELSE "resuming"]
  /\ UNCHANGED <<machine, timers, session, attempt, store, calls, history>>

-----------------------------------------------------------------------------
(* Frames.  After close() the ones still in the decompressor arrive too. *)

Frame(s) == Task /\ sock[s].phase \in {"open", "closing"} /\ ~sock[s].gone

Hello(s) ==
  LET c == connection
      heard == [sock EXCEPT ![s].hello = TRUE]
  IN /\ Frame(s) /\ ~sock[s].hello
     /\ ClearHandshakeTimer
     /\ \/ /\ c = 0
           /\ sock' = heard
           /\ UNCHANGED <<state, session>>
        \/ /\ c # 0 /\ intent = "resume"
           /\ state' = "resuming"
           /\ session' = [session EXCEPT !.tries = Bump(@, TriesBound)]
           /\ sock' = IF Resumable(session)
                      THEN [heard EXCEPT ![c].beating = TRUE, ![c].out = "resume",
                                         ![c].sid = session.id, ![c].cur = session.seq]
                      ELSE [heard EXCEPT ![c].beating = TRUE]
        \/ /\ c # 0 /\ intent = "identify"
           /\ state' = "identifying"
           /\ sock' = [heard EXCEPT ![c].beating = TRUE, ![c].out = "identify"]
           /\ UNCHANGED session
     /\ UNCHANGED <<connection, intent, closingIntent, replaying, rcArmed, rcHeld,
                    attempt, store, calls, history>>

\* Opcode 7: closed gracefully, and the close event is what reconnects.
ReconnectRequested(s) ==
  /\ Frame(s)
  /\ closingIntent' = "resume"
  /\ sock' = Close(sock, connection)
  /\ UNCHANGED <<state, connection, intent, replaying, timers, session, attempt,
                 store, calls, history>>

\* Opcode 9, which may come at any time.  It leaves the handshake timer alone: one
\* that Hello has not cleared stays armed.
InvalidSession(s, resumable) ==
  LET canResume == resumable /\ state # "identifying"
  IN /\ Frame(s)
     /\ closingIntent' = IF canResume THEN "resume" ELSE "null"
     /\ ScheduleReconnect(sock,
          IF canResume THEN session ELSE NoSession,
          IF canResume THEN store ELSE NoRecord,
          attempt)
     /\ UNCHANGED <<hsArmed, hsHeld>>

\* An id no session, record, socket or call still mentions.
FreshSid(i) ==
  /\ i # session.id /\ i # store.id
  /\ \A s \in Slots : sock[s].sid # i
  /\ \A c \in Calls : calls[c].rec.id # i

EstablishedAtNext(i) == [id |-> i, seq |-> 2, tries |-> 0]

\* ShardSession.establish.
Established(i) == [id |-> i, seq |-> 1, tries |-> 0]

Ready(s, i) ==
  /\ Frame(s) /\ sock[s].peer = "identified" /\ FreshSid(i)
  /\ session' = Established(i)
  /\ store' = [id |-> i, seq |-> 1]
  /\ attempt' = 0 /\ retries' = 0 /\ resumeOpens' = 0
  /\ state' = "ready"
  /\ sock' = [sock EXCEPT ![s].peer = "live", ![s].sid = i, ![s].cur = 1]
  /\ delivered' = [delivered EXCEPT ![i] = 1]
  /\ UNCHANGED <<connection, intent, closingIntent, replaying, timers, calls, gaveUp>>

\* A dispatch on socket s carries the number after the last one sent there.
Emitted(s) == [delivered EXCEPT ![sock[s].sid] = Max2(@, sock[s].cur + 1)]

StopReplaying == replaying' = FALSE

Resumed(s) ==
  /\ Frame(s) /\ sock[s].peer = "resuming" /\ sock[s].cur < MaxSeq
  /\ sock' = [sock EXCEPT ![s].cur = @ + 1, ![s].peer = "live"]
  /\ delivered' = Emitted(s)
  /\ session' = [session EXCEPT !.seq = sock[s].cur + 1, !.tries = 0]
  /\ StopReplaying
  /\ attempt' = 0 /\ retries' = 0 /\ resumeOpens' = 0
  /\ state' = "ready"
  /\ UNCHANGED <<connection, intent, closingIntent, timers, store, calls, gaveUp>>

Dispatch(s) ==
  /\ Frame(s) /\ sock[s].peer \in {"resuming", "live"} /\ sock[s].cur < MaxSeq
  /\ sock' = [sock EXCEPT ![s].cur = @ + 1]
  /\ delivered' = Emitted(s)
  /\ session' = [session EXCEPT !.seq = sock[s].cur + 1]
  /\ replaying' = (replaying \/ state = "resuming")
  /\ state' = IF state = "resuming" THEN "replaying" ELSE state
  /\ UNCHANGED <<connection, intent, closingIntent, timers, attempt, store, calls,
                 retries, resumeOpens, gaveUp>>

-----------------------------------------------------------------------------
(* Timers, the peer falling silent, and the process. *)

\* The handshake timeout armed with socket s.  It looks at the state only.
HandshakeTimeout(s) ==
  /\ Task
  /\ s \in hsArmed
  /\ hsArmed' = hsArmed \ {s}
  /\ UNCHANGED hsHeld
  /\ \/ /\ state # "handshaking"
        /\ UNCHANGED <<machine, rcArmed, rcHeld, session, attempt, sock, store,
                       calls, history>>
     \/ /\ state = "handshaking"
        /\ closingIntent' = "resume"
        /\ ScheduleReconnect(sock, session, store, attempt)

ReconnectTimeout ==
  /\ Task
  /\ rcArmed > 0
  /\ rcArmed' = rcArmed - 1
  /\ rcHeld' = FALSE
  /\ OpenConnection(session)
  /\ UNCHANGED <<session, attempt, store, calls, delivered, retries, gaveUp>>

PeerGone(s) ==
  /\ sock[s].phase \in {"open", "closing"} /\ ~sock[s].gone
  /\ sock' = [sock EXCEPT ![s].gone = TRUE]
  /\ UNCHANGED <<machine, timers, session, attempt, store, calls, history>>

\* The process dies and a new one starts: only the store survives.
Restart ==
  /\ state' = "idle" /\ connection' = 0 /\ intent' = "identify"
  /\ closingIntent' = "null" /\ replaying' = FALSE
  /\ hsArmed' = {} /\ hsHeld' = 0 /\ rcArmed' = 0 /\ rcHeld' = FALSE
  /\ session' = NoSession /\ attempt' = 0
  /\ sock' = [s \in Slots |-> FreeSocket]
  /\ calls' = [c \in Calls |-> IdleCall]
  /\ retries' = 0 /\ resumeOpens' = 0 /\ gaveUp' = FALSE
  /\ UNCHANGED <<store, delivered>>

CallStep(c) ==
  \/ Connect(c) \/ ConnectLoaded(c) \/ DestroyStored(c)
  \/ \E recover \in Recovers : Destroy(c, recover)

SocketStep(s) ==
  \/ SocketOpen(s) \/ DecompressionFailed(s) \/ Backpressure(s) \/ Zombie(s)
  \/ SendHandshake(s) \/ PeerGone(s) \/ HandshakeTimeout(s)
  \/ \E code \in PeerCodes \cup {Abnormal} : SocketClose(s, code)

FrameStep(s) ==
  \/ Hello(s) \/ ReconnectRequested(s) \/ Resumed(s) \/ Dispatch(s)
  \/ \E resumable \in BOOLEAN : InvalidSession(s, resumable)
  \/ \E i \in Sids : Ready(s, i)

Next ==
  \/ \E c \in Calls : CallStep(c)
  \/ \E s \in Slots : SocketStep(s) \/ FrameStep(s)
  \/ ReconnectTimeout
  \/ Restart

Spec == Init /\ [][Next]_vars

-----------------------------------------------------------------------------
(* Properties. *)

\* Every variable has its type (the fields Shard.ts declares at lines 37-48).
TypeOK ==
  /\ state \in ShardState /\ connection \in Slots \cup {0}
  /\ intent \in {"identify", "resume"} /\ closingIntent \in ClosingIntent
  /\ replaying \in BOOLEAN
  /\ hsArmed \in SUBSET Slots /\ hsHeld \in Slots \cup {0}
  /\ rcArmed \in Nat /\ rcHeld \in BOOLEAN
  /\ session \in Sessions /\ attempt \in Nat
  /\ sock \in [Slots -> Sockets]
  /\ store \in Records /\ calls \in [Calls -> CallRecords]
  /\ delivered \in [Sids -> 0 .. MaxSeq]
  /\ retries \in Nat /\ resumeOpens \in Nat /\ gaveUp \in BOOLEAN

\* "One gateway connection" (Shard.ts:27): every socket that can still call the
\* shard back, by a frame, a close or its heartbeat timer, is #connection.
OneSocket == \A s \in Slots : sock[s].phase # "free" => s = connection

\* A stopped shard stays stopped: in idle, closed and fatal no socket is open
\* and no reconnect is armed, so only connect() can bring it back.
StoppedIsQuiet ==
  state \in {"idle", "closed", "fatal"} => connection = 0 /\ rcArmed = 0

\* A shard that waits to reconnect will: unless destroy() is under way exactly
\* one timer is armed, it is the one the shard can cancel, and no socket is open.
ReconnectIsArmed ==
  state = "reconnecting" /\ (\A c \in Calls : calls[c].op # "destroy") =>
    connection = 0 /\ rcArmed = 1 /\ rcHeld

\* What is armed fits the state: nothing in a shard that was stopped, and one
\* reconnect in one that waits for it.
TimersAgree == StoppedIsQuiet /\ ReconnectIsArmed

\* No handshake timeout outlives the connection it was armed for.
NoStaleHandshakeTimer == hsArmed \subseteq {connection}

\* "How long to wait for Hello after the socket opens": the callback reads only the
\* state, so a timeout left armed abandons the next connection and leaves that
\* one's timeout behind as well.  Of all the ways a connection ends only one starts
\* this, an opcode 9 that comes before Hello.
OnlyOpcode9LeavesTimeout ==
  [][NoStaleHandshakeTimer /\ ~NoStaleHandshakeTimer' =>
       \E s \in Slots, resumable \in BOOLEAN :
          ~sock[s].hello /\ InvalidSession(s, resumable)]_vars

\* No dispatch is skipped: what the shard or its stored record would claim in a
\* Resume is a sequence number of that very session that the bot has been given.
NoSkippedDispatch ==
  /\ session.id # 0 => session.seq \in 1 .. delivered[session.id]
  /\ store.id # 0 => store.seq \in 1 .. delivered[store.id]

\* While a connection is being set up to resume, the session it will name is
\* still held: #resume() returns silently, and for ever, when it is not.
ResumeHasSession ==
  state \in {"connecting", "handshaking"} /\ intent = "resume"
    /\ (\A c \in Calls : calls[c].op # "destroy") => Resumable(session)

\* Shard and gateway agree: once the gateway has accepted the session of this
\* connection the shard is ready and marks nothing as a replay, and before that
\* a shard that is not closing has its handshake sent or still on its way.
AgreesWithPeer ==
  LET k == sock[connection]
  IN connection # 0 =>
       /\ k.peer = "live" => state = "ready" /\ ~replaying
       /\ k.phase = "open" /\ state = "identifying" =>
            k.out = "identify" \/ k.peer = "identified"
       /\ k.phase = "open" /\ state \in {"resuming", "replaying"} =>
            k.out = "resume" \/ k.peer = "resuming"

\* The session the shard holds is the one it resumes and the one the gateway accepted.
SessionAgrees == ResumeHasSession /\ AgreesWithPeer

\* maxAttempts bounds the reconnects made without reaching READY or RESUMED,
\* however far each of them got (Backoff.reset is not called on open).
BoundedRetries == GivesUp => retries <= MaxAttempts

\* Fatal is terminal (ShardState.ts): only a new process leaves it.
FatalIsTerminal == [][state = "fatal" => state' \in {"fatal", "idle"}]_vars

\* "Gave up reconnecting after the configured number of attempts": that many
\* reconnects were made.
GaveUpAfterAttempts == gaveUp => retries >= MaxAttempts

\* "The resume path is bounded": no more than maxResumeAttempts connections in
\* a row are opened to the host of a session that does not answer.
ResumesBounded == resumeOpens <= MaxResumeAttempts

-----------------------------------------------------------------------------
(* What makes the properties inductive when calls do not overlap and the    *)
(* store is prompt (ShardProofs).                                           *)

FreeIsFree == \A s \in Slots : sock[s].phase = "free" => sock[s] = FreeSocket

\* The connection is null exactly in the states that have none; "closing" is
\* left by the handler that enters it.
ConnectionMatchesState ==
  /\ connection = 0 <=> state \in {"idle", "closed", "fatal", "reconnecting"}
  /\ state # "closing"

TimersMatch ==
  /\ connection \in hsArmed => hsHeld = connection
  /\ rcArmed = IF rcHeld THEN 1 ELSE 0
  /\ rcHeld => state = "reconnecting"
  /\ state = "reconnecting" => rcHeld \/ \E c \in Calls : calls[c].op = "destroy"

CallsMatch ==
  /\ \A c, d \in Calls : calls[c].op # "idle" /\ calls[d].op # "idle" => c = d
  /\ \A c \in Calls :
       /\ calls[c].op = "connect" => state \in {"idle", "closed"}
       /\ calls[c].op = "destroy" =>
            calls[c].conn = connection /\ ~rcHeld /\ connection \notin hsArmed
       /\ calls[c].op # "destroy" => calls[c].conn = 0

\* Before Hello a socket has no heartbeat timer and no handshake under way, and Hello
\* clears the handshake timeout: a zombie leaves none behind, nor an invalid session
\* after it.
HelloMatches ==
  \A s \in Slots :
    /\ ~sock[s].hello =>
         ~sock[s].beating /\ sock[s].out = "none" /\ sock[s].peer = "waiting"
    /\ sock[s].hello => s \notin hsArmed

SerialInv ==
  /\ OneSocket /\ FreeIsFree /\ ConnectionMatchesState
  /\ TimersMatch /\ CallsMatch /\ HelloMatches

\* A sequence number held for session i is one the bot has been given of i.
Heard(i, seq) == i # 0 => seq \in 1 .. delivered[i]

SessionsHeard ==
  /\ Heard(session.id, session.seq) /\ Heard(store.id, store.seq)
  /\ \A c \in Calls : Heard(calls[c].rec.id, calls[c].rec.seq)

\* What the shard has done and what the peer has accepted, on the socket k: the
\* shard holds no session but the one k resumes or has established.
PeerMatches(k) ==
  /\ k.hello <=> state \in {"identifying", "resuming", "replaying", "ready"}
  /\ k.phase = "connecting" => ~k.hello
  /\ k.out # "none" => k.peer = "waiting"
  /\ k.out = "identify" \/ k.peer = "identified" => state = "identifying"
  /\ k.out = "resume" => state = "resuming"
  /\ k.peer = "resuming" => state \in {"resuming", "replaying"}
  /\ k.peer = "live" => state = "ready"
  /\ k.out = "resume" \/ k.peer \in {"resuming", "live"} =>
       k.sid # 0 /\ session.id \in {0, k.sid}
  /\ k.phase = "open" /\ state = "identifying" =>
       k.out = "identify" \/ k.peer = "identified"
  /\ k.phase = "open" /\ state \in {"resuming", "replaying"} =>
       k.out = "resume" \/ k.peer = "resuming"
  /\ replaying => state = "replaying"

SessionInv ==
  /\ SessionsHeard /\ ResumeHasSession
  /\ connection # 0 => PeerMatches(sock[connection])

\* Of every caller and store: a reconnect is never scheduled without counting it.
RetriesCounted == GivesUp => retries <= attempt /\ retries <= MaxAttempts

-----------------------------------------------------------------------------
(* Liveness.  Timers fire, promises of the store and of the send queue      *)
(* settle, a socket reports that it opened or failed, and a heartbeater     *)
(* whose peer is silent finds out.  Nothing is assumed of the peer.         *)

ConnectAttemptEnds(s) ==
  SocketOpen(s) \/ (sock[s].phase = "connecting" /\ SocketClose(s, Abnormal))
SilenceNoticed(s) == sock[s].gone /\ Zombie(s)

Fairness ==
  /\ WF_vars(ReconnectTimeout)
  /\ \A c \in Calls : WF_vars(ConnectLoaded(c)) /\ WF_vars(DestroyStored(c))
  /\ \A s \in Slots : /\ WF_vars(ConnectAttemptEnds(s)) /\ WF_vars(SilenceNoticed(s))
                      /\ WF_vars(HandshakeTimeout(s)) /\ WF_vars(SendHandshake(s))

FairSpec == Spec /\ Fairness

\* A shard never rests in reconnecting.
ReconnectingEnds == state = "reconnecting" ~> state # "reconnecting"

\* A peer that falls silent after Hello is noticed: the socket is abandoned
\* without waiting for a closing handshake.
SilentPeerNoticed ==
  \A s \in Slots :
    sock[s].gone /\ sock[s].beating ~> sock[s].phase = "free"

\* "a socket that opens and then says nothing would otherwise hang the shard
\* indefinitely": the handshake ends one way or another.
HandshakeEnds == state = "handshaking" ~> state # "handshaking"

\* "a shard that waits for the close event before reconnecting hangs
\* permanently": a socket the shard closed to reconnect is given up in the end.
ClosingEnds ==
  \A s \in Slots : sock[s].phase = "closing" ~> sock[s].phase # "closing"
=============================================================================
