--------------------------- MODULE MemberChunker ---------------------------
(***************************************************************************)
(* Requests of guild members over the gateway, packages/gateway/src/       *)
(* members/MemberChunker.ts, and the client.fetchMembers that waits for    *)
(* them.  A nonce is the request it was made for.                          *)
(***************************************************************************)
EXTENDS Integers, Sequences

CONSTANTS
  Requests,
  Guilds,
  Target,     \* the guild of each request
  Everyone,   \* the requests for all members of it
  Chunks      \* the chunks of a reply

ASSUME ChunkerAssumption ==
  Target \in [Requests -> Guilds] /\ Everyone \subseteq Requests /\ Chunks \in Nat \ {0}

VARIABLES
  call,      \* where each request() is
  promise,   \* its members promise
  pending,   \* #pending, by nonce
  got,       \* the chunks of each
  gate,      \* guilds of #allMembersGate whose time has not come
  reply      \* the service: how many chunks of its reply each request has had

chunkerVars == <<call, promise, pending, got, gate, reply>>

Unsent == -1

ChunkerInit ==
  /\ call = [r \in Requests |-> "idle"] /\ promise = [r \in Requests |-> "open"]
  /\ pending = {} /\ got = [r \in Requests |-> <<>>] /\ gate = {}
  /\ reply = [r \in Requests |-> Unsent]

Gated(r) == r \in Everyone /\ Target[r] \in gate

\* request() up to the await of its send.
Request(r) ==
  /\ call[r] = "idle"
  /\ \/ /\ Gated(r) /\ call' = [call EXCEPT ![r] = "rejected"]
        /\ UNCHANGED <<pending, gate>>
     \/ /\ ~Gated(r) /\ call' = [call EXCEPT ![r] = "sending"]
        /\ pending' = pending \cup {r}
        /\ gate' = IF r \in Everyone THEN gate \cup {Target[r]} ELSE gate
  /\ UNCHANGED <<promise, got, reply>>

\* A call that awaits its promise ends with it.
CallsEnd(p) ==
  [r \in Requests |-> IF call[r] = "awaiting" /\ p[r] # "open" THEN p[r] ELSE call[r]]

Abandon(some) ==
  /\ pending' = pending \ some
  /\ UNCHANGED <<promise, call>>

\* The promises of some pending requests are rejected.
Reject(some) ==
  /\ pending' = pending \ some
  /\ promise' = [r \in Requests |-> IF r \in some THEN "rejected" ELSE promise[r]]
  /\ call' = CallsEnd(promise')

Sent(r) ==
  /\ call[r] = "sending"
  /\ call' = [call EXCEPT ![r] = IF promise[r] = "open" THEN "awaiting" ELSE promise[r]]
  /\ reply' = [reply EXCEPT ![r] = 0]
  /\ UNCHANGED <<promise, pending, got, gate>>

\* The catch of request().
SendFails(r) ==
  /\ call[r] = "sending"
  /\ call' = [call EXCEPT ![r] = "rejected"]
  /\ pending' = pending \ {r}
  /\ gate' = IF r \in Everyone THEN gate \ {Target[r]} ELSE gate
  /\ UNCHANGED <<promise, got, reply>>

\* The timer of the request.
Timeout(r) ==
  /\ r \in pending
  /\ Reject({r})
  /\ UNCHANGED <<got, gate, reply>>

CompleteByCount(k, index) == TRUE
\* "Completion is decided by chunk_index === chunk_count - 1".
Complete(k, index) == index = Chunks - 1

\* handleChunk of the next chunk of r's reply, which may be nobody's by now.
HandleChunk(r) ==
  /\ reply[r] \in 0 .. Chunks - 1
  /\ reply' = [reply EXCEPT ![r] = @ + 1]
  /\ IF r \notin pending THEN UNCHANGED <<call, promise, pending, got>>
     ELSE /\ got' = [got EXCEPT ![r] = Append(@, reply[r])]
          /\ IF Complete(got', reply[r])
             THEN /\ pending' = pending \ {r}
                  /\ promise' = [promise EXCEPT ![r] = "resolved"]
                  /\ call' = CallsEnd(promise')
             ELSE UNCHANGED <<call, promise, pending>>
  /\ UNCHANGED <<gate>>

\* handleRateLimited, in place of a reply.
HandleRateLimited(r) ==
  /\ reply[r] = 0
  /\ reply' = [reply EXCEPT ![r] = Chunks]
  /\ gate' = gate \cup {Target[r]}
  /\ Reject({r} \cap pending)
  /\ UNCHANGED got

\* reset, of a fresh identify or of destroy: the service replies to nobody any more.
Reset ==
  /\ Reject(pending)
  /\ reply' = [r \in Requests |-> IF reply[r] = Unsent THEN Unsent ELSE Chunks]
  /\ UNCHANGED <<got, gate>>

GateOpens(g) ==
  /\ g \in gate
  /\ gate' = gate \ {g}
  /\ UNCHANGED <<call, promise, pending, got, reply>>

-----------------------------------------------------------------------------
ChunkerTypeOK ==
  /\ call \in [Requests -> {"idle", "sending", "awaiting", "resolved", "rejected"}]
  /\ promise \in [Requests -> {"open", "resolved", "rejected"}]
  /\ pending \subseteq Requests /\ got \in [Requests -> Seq(0 .. Chunks - 1)]
  /\ gate \subseteq Guilds /\ reply \in [Requests -> Unsent .. Chunks]

\* "The caller's promise hangs forever" is what the nonce, the timer and the resets are
\* for, and an entry nobody awaits would surface a minute later: a request is pending
\* exactly while somebody waits for an outcome that has not come.
PendingIsAwaited ==
  \A r \in Requests :
    r \in pending <=> call[r] \in {"sending", "awaiting"} /\ promise[r] = "open"

\* The first n chunks of a reply.
First(n) == [k \in 1 .. n |-> k - 1]

\* A request that resolves has its whole reply and nothing else, however replies
\* interleave with each other and with resets.
WholeReply ==
  \A r \in Requests :
    call[r] = "resolved" => got[r] = First(Chunks)

\* The inductive part: a promise is open until its outcome, and what a pending request
\* has got is what the service has sent.
InStep ==
  \A r \in Requests :
    /\ call[r] = "idle" => promise[r] = "open"
    /\ call[r] \in {"idle", "sending"} => reply[r] = Unsent /\ got[r] = <<>>
    /\ call[r] = "awaiting" =>
         promise[r] = "open" /\ reply[r] \in 0 .. Chunks - 1 /\ got[r] = First(reply[r])
    /\ call[r] = "resolved" => promise[r] = "resolved"
    /\ promise[r] = "resolved" => got[r] = First(Chunks)

\* Every request() ends.
RequestsEnd == \A r \in Requests : call[r] \in {"sending", "awaiting"} ~> call[r] \in {"resolved", "rejected"}
=============================================================================
