------------------------------- MODULE Bridge -------------------------------
(***************************************************************************)
(* What stands between a shard and the client's handlers:                  *)
(* packages/core/src/gateway/ShardBridge.ts, which composes DispatchQueue, *)
(* MemberChunker and the GuildReadyTracker of each session, and hands each *)
(* dispatch to EventRouter.                                                *)
(***************************************************************************)
EXTENDS DispatchQueue, MemberChunker, Functions

CONSTANTS
  Populations,  \* bound: the sets of guilds a READY may name
  MaxSessions,  \* bound: fresh identifies
  MaxArrivals   \* bound: dispatches

ASSUME BridgeAssumption ==
  Populations \subseteq SUBSET Guilds /\ MaxSessions \in Nat /\ MaxArrivals \in Nat

VARIABLES
  serial,     \* whether options.serialDispatch is on
  arrived,    \* dispatches so far
  ready,      \* the arrival of each session's READY
  tracker,    \* the tracker of each session
  guildsPending, destroyed,
  expected,   \* history: the guilds of each READY that have not come
  told,       \* history: what onGuildsReady was told, and when
  unheard,    \* history: the sessions whose READY a listener kept from the router
  announced   \* history: the sessions onReady was told of, in order

bridgeVars == <<serial, arrived, ready, tracker, guildsPending, destroyed,
                expected, told, unheard, announced>>
vars == <<queueVars, chunkerVars, bridgeVars>>

Sessions == 1 .. MaxSessions
Session == Len(ready)
NoTracker == [pending |-> {}, armed |-> FALSE, done |-> TRUE]

Init ==
  /\ QueueInit /\ ChunkerInit
  /\ serial \in BOOLEAN /\ arrived = 0 /\ ready = <<>>
  /\ tracker = [s \in Sessions |-> NoTracker] /\ guildsPending = FALSE /\ destroyed = FALSE
  /\ expected = [s \in Sessions |-> {}] /\ told = <<>>
  /\ unheard = {} /\ announced = <<>>

-----------------------------------------------------------------------------
(* The router: it contains what a handler throws, so that neither the      *)
(* announcement nor the drain depends on it.                               *)

\* after, which is there for a READY only.
Announce(n) ==
  announced' =
    IF \E s \in DOMAIN ready' : ready'[s] = n
    THEN Append(announced, CHOOSE s \in DOMAIN ready' : ready'[s] = n) ELSE announced

\* Push, after clear('identify') if it is a READY.
Enqueue(n, fresh) == IF fresh THEN ClearThenPush(n) ELSE Push(n)

\* Straight to the router, or to the queue.
Deliver(fresh) ==
  LET n == arrived + 1
  IN /\ ~destroyed /\ drain # "running" /\ arrived < MaxArrivals
     /\ arrived' = n
     /\ IF serial THEN Enqueue(n, fresh) /\ UNCHANGED announced
        ELSE last' = n /\ Announce(n) /\ UNCHANGED <<backlog, head, drain>>

\* A listener of shardGuildsReady throws first, out of #onDispatch: the dispatch goes
\* nowhere, and nothing is cleared.
Lose ==
  /\ ~destroyed /\ drain # "running" /\ arrived < MaxArrivals
  /\ arrived' = arrived + 1
  /\ UNCHANGED <<queueVars, announced>>

-----------------------------------------------------------------------------
(* The trackers.                                                           *)

\* #complete: onGuildsReady hears of the guilds that never came.
Tells(s, missing) ==
  told' = Append(told, [of |-> s, during |-> Len(ready'), unresolved |-> missing,
                        exact |-> missing = expected'[s]])

ResolveDisarms(s, g) ==
  LET left == tracker[s].pending \ {g}
  IN IF tracker[s].done \/ g \notin tracker[s].pending
     THEN UNCHANGED <<tracker, guildsPending, told>>
     ELSE IF left = {}
     THEN tracker' = [tracker EXCEPT ![s] = NoTracker] /\ guildsPending' = FALSE /\ Tells(s, {})
     ELSE /\ tracker' = [tracker EXCEPT ![s] = [@ EXCEPT !.pending = left, !.armed = FALSE]]
          /\ UNCHANGED <<guildsPending, told>>

\* resolve
Resolve(s, g) ==
  LET left == tracker[s].pending \ {g}
  IN IF tracker[s].done \/ g \notin tracker[s].pending
     THEN UNCHANGED <<tracker, guildsPending, told>>
     ELSE IF left = {}
     THEN tracker' = [tracker EXCEPT ![s] = NoTracker] /\ guildsPending' = FALSE /\ Tells(s, {})
     ELSE tracker' = [tracker EXCEPT ![s].pending = left] /\ UNCHANGED <<guildsPending, told>>

\* #arm's timer.
Idle(s) ==
  /\ drain # "running" /\ tracker[s].armed
  /\ tracker' = [tracker EXCEPT ![s] = NoTracker] /\ guildsPending' = FALSE
  /\ UNCHANGED <<queueVars, chunkerVars, serial, arrived, ready, destroyed, expected, unheard,
                 announced>>
  /\ Tells(s, tracker[s].pending)

KeepOld == tracker
\* stop
StopOld == IF Session = 0 THEN tracker ELSE [tracker EXCEPT ![Session] = NoTracker]

\* #startTracker; without the Guilds intent, or without guilds, it completes at once.
StartTracker(guilds) ==
  IF guilds = {}
  THEN tracker' = StopOld /\ guildsPending' = FALSE /\ Tells(Session + 1, {})
  ELSE /\ tracker' = [StopOld EXCEPT ![Session + 1] =
                        [pending |-> guilds, armed |-> TRUE, done |-> FALSE]]
       /\ guildsPending' = TRUE /\ UNCHANGED told

-----------------------------------------------------------------------------
(* #onDispatch                                                             *)

\* Without guilds, shardGuildsReady is emitted before READY is handed on.
Ready(guilds, throws) ==
  /\ Session < MaxSessions /\ (throws => guilds = {})
  /\ ready' = Append(ready, arrived + 1)
  /\ expected' = [expected EXCEPT ![Session + 1] = guilds]
  /\ Reset
  /\ StartTracker(guilds)
  /\ IF throws THEN Lose ELSE Deliver(TRUE)
  /\ unheard' = IF throws THEN unheard \cup {Session + 1} ELSE unheard
  /\ UNCHANGED <<serial, destroyed>>

\* GUILD_CREATE or GUILD_DELETE, of a guild of READY or of one joined since; the last
\* guild of READY emits shardGuildsReady.
Guild(g, throws) ==
  /\ Session > 0
  /\ expected' = [expected EXCEPT ![Session] = @ \ {g}]
  /\ UNCHANGED ready
  /\ Resolve(Session, g)
  /\ IF throws THEN told' # told /\ Lose ELSE Deliver(FALSE)
  /\ UNCHANGED <<chunkerVars, serial, destroyed, unheard>>

MembersChunk(r) ==
  /\ UNCHANGED <<serial, ready, tracker, guildsPending, destroyed, expected, told, unheard>>
  /\ HandleChunk(r) /\ Deliver(FALSE)

RateLimited(r) ==
  /\ UNCHANGED <<serial, ready, tracker, guildsPending, destroyed, expected, told, unheard>>
  /\ HandleRateLimited(r) /\ Deliver(FALSE)

Other ==
  /\ Session > 0
  /\ UNCHANGED <<chunkerVars, serial, ready, tracker, guildsPending, destroyed, expected, told,
                 unheard>>
  /\ Deliver(FALSE)

\* A listener of ready may throw, in the after() of a READY.
Drain ==
  /\ UNCHANGED <<chunkerVars, serial, arrived, ready, tracker, guildsPending, destroyed,
                 expected, told, unheard>>
  /\ \/ \E then \in {"running", "awaiting", "ended"} :
          Take(then) /\ Announce(last') /\ (then = "ended" => last' \in Range(ready))
     \/ (TakeNone \/ Settle) /\ UNCHANGED announced

\* destroy(), which the client calls once.
Destroy ==
  /\ ~destroyed /\ drain # "running"
  /\ destroyed' = TRUE
  /\ tracker' = StopOld
  /\ Clear /\ UNCHANGED <<drain, last>>
  /\ Reset
  /\ UNCHANGED <<serial, arrived, ready, guildsPending, expected, told, unheard, announced>>

\* fetchMembers() of the client, which refuses when it is destroyed.
FetchMembers(r) == ~destroyed /\ Session > 0 /\ Request(r)

Members ==
  /\ drain # "running"
  /\ \/ \E r \in Requests : FetchMembers(r) \/ Sent(r) \/ SendFails(r) \/ Timeout(r)
     \/ \E g \in Guilds : GateOpens(g)
  /\ UNCHANGED <<queueVars, bridgeVars>>

Next ==
  \/ \E throws \in BOOLEAN :
       \/ \E guilds \in Populations : Ready(guilds, throws)
       \/ \E g \in Guilds : Guild(g, throws)
  \/ \E r \in Requests : MembersChunk(r) \/ RateLimited(r)
  \/ Other \/ Drain \/ Members \/ Destroy
  \/ \E s \in Sessions : Idle(s)

Spec == Init /\ [][Next]_vars

\* Listeners end, timers fire, and sends end because a closed connection rejects them.
Fairness ==
  /\ WF_vars(Drain) /\ \A s \in Sessions : WF_vars(Idle(s))
  /\ \A r \in Requests :
       WF_vars((Sent(r) \/ SendFails(r)) /\ drain # "running" /\ UNCHANGED <<queueVars, bridgeVars>>)
       /\ WF_vars(Timeout(r) /\ drain # "running" /\ UNCHANGED <<queueVars, bridgeVars>>)

FairSpec == Spec /\ Fairness

-----------------------------------------------------------------------------
BridgeTypeOK ==
  /\ QueueTypeOK /\ ChunkerTypeOK
  /\ {serial, guildsPending, destroyed} \subseteq BOOLEAN
  /\ arrived \in Nat /\ ready \in Seq(Nat) /\ Session <= MaxSessions
  /\ tracker \in [Sessions -> [pending : SUBSET Guilds, armed : BOOLEAN, done : BOOLEAN]]
  /\ expected \in [Sessions -> SUBSET Guilds]
  /\ unheard \subseteq Sessions /\ announced \in Seq(Sessions)

D == INSTANCE Delivery WITH waiting <- Live

\* "Delivers dispatches to listeners one at a time" and in order, whatever is dropped,
\* cleared or awaited meanwhile.
InOrder == D!Spec

\* onReady hears of each session at most once and in order, and the READY that carries
\* the announcement of the session that is on is not lost to overflow: only a listener of
\* shardGuildsReady that throws keeps it from being handed on.
AnnouncedInOrder ==
  /\ \A i, j \in DOMAIN announced : i < j => announced[i] < announced[j]
  /\ Session > 0 /\ ~destroyed =>
       Session \in Range(announced) \cup unheard \/ ready[Session] \in Live

\* "Called once, with any guilds that never arrived": onGuildsReady is told once per
\* session, by the tracker of the session that is on, and names just the guilds of its
\* READY that did not come.
GuildsToldOnce ==
  \A i \in DOMAIN told :
    /\ told[i].of = told[i].during /\ told[i].exact
    /\ \A j \in DOMAIN told : told[i].of = told[j].of => i = j

\* destroy() leaves nothing behind that could still call anybody.
DestroyedIsQuiet ==
  destroyed => pending = {} /\ Live = {} /\ \A s \in Sessions : ~tracker[s].armed

\* What the listeners of a shard hear of its sessions, and when they hear nothing more.
SessionsAreTold == BridgeTypeOK /\ AnnouncedInOrder /\ GuildsToldOnce /\ DestroyedIsQuiet

\* A member request that is registered has a caller, and its reply is whole and its own.
RepliesMatch == PendingIsAwaited /\ WholeReply

\* The inductive part of it.  Dispatches are numbered as they arrive, READYs among them,
\* and no session is announced before its READY is routed.
Numbered ==
  /\ last <= arrived /\ \A n \in Live : n <= arrived
  /\ \A s \in DOMAIN ready : ready[s] \in 1 .. arrived
  /\ \A s, t \in DOMAIN ready : s < t => ready[s] < ready[t]
  /\ \A s \in Range(announced) : s <= Session /\ ready[s] <= last
  /\ ~serial => drain = "ended" /\ Live = {}

\* Only the session that is on has a tracker, which has told nothing yet and waits for
\* the guilds that have not come.
OneTracker ==
  /\ \A s \in Sessions :
       tracker[s] # NoTracker =>
         /\ s = Session /\ ~destroyed /\ \A i \in DOMAIN told : told[i].of # s
         /\ tracker[s] = [pending |-> expected[s], armed |-> TRUE, done |-> FALSE]
  /\ told \in Seq([of : 1 .. Session, during : Nat, unresolved : SUBSET Guilds, exact : BOOLEAN])

\* The client hears that a shard is up, which login() waits for, however slow the listeners
\* are and whatever those of dispatches and of ready throw, unless another session or
\* destroy() comes first.  Only a listener of shardGuildsReady that throws at a READY
\* without guilds keeps it from the client.
ReadyIsAnnounced ==
  \A s \in Sessions :
    Session = s ~> s \in Range(announced) \cup unheard \/ Session > s \/ destroyed

\* And that its guilds are there, however many never come.
GuildsAreTold ==
  \A s \in Sessions :
    Session = s ~> (\E i \in DOMAIN told : told[i].of = s) \/ Session > s \/ destroyed

-----------------------------------------------------------------------------
(* What the code does not meet.                                            *)

\* Client.#onShardReady calls "a consumer-side bug wedging the client" what EventRouter
\* contains everywhere else, and READY is announced to settle login(): not if a listener of
\* shardGuildsReady throws.
ReadyAlwaysAnnounced ==
  \A s \in Sessions :
    Session = s ~> s \in Range(announced) \/ Session > s \/ destroyed

\* While its send is awaited nobody handles the promise of a
\* request, although MemberChunker.ts means to "make certain it cannot surface later".
NeverSurfaces == \A r \in Requests : call[r] = "sending" => promise[r] # "rejected"
=============================================================================
