------------------------------ MODULE CoreProofs ------------------------------
(***************************************************************************)
(* Bridge for any guilds, member requests and number of sessions and       *)
(* dispatches, whatever order they come in: what the listeners of a shard  *)
(* are told, the replies of member requests, and that serial dispatch      *)
(* implements Delivery.  The permissions for any flags, roles and edits,   *)
(* and the structures for any patches.                                     *)
(***************************************************************************)
EXTENDS Bridge, Structures, Permissions, FiniteSetTheorems, TLAPS

-----------------------------------------------------------------------------
(* DispatchQueue. *)

QueueInv == QueueTypeOK /\ Sorted

LEMMA QueueStart == QueueInit => QueueInv /\ Live = {}
  BY DEF QueueInit, QueueInv, QueueTypeOK, Sorted, Live

LEMMA PushStep ==
  ASSUME QueueInv, NEW n \in Nat, n > last, \A m \in Live : n > m, Push(n)
  PROVE  QueueInv' /\ last' = last /\ Live' \in {Live, Live \cup {n}}
<1> DEFINE len == Len(backlog)
<1>1. /\ backlog \in Seq(Nat) /\ head \in 0 .. len /\ len \in Nat
      /\ last \in Nat /\ drain \in {"ended", "running", "awaiting"}
      /\ \A j, k \in head + 1 .. len : j < k => backlog[j] < backlog[k]
      /\ \A m \in Live : m > last
  BY DEF QueueInv, QueueTypeOK, Sorted
<1>2. CASE Depth >= MaxQueued
  BY <1>2 DEF Push, QueueInv, QueueTypeOK, Sorted, Live
<1>3. CASE ~(Depth >= MaxQueued)
  <2>1. /\ backlog' = Append(backlog, n) /\ head' = head /\ last' = last
        /\ drain' = IF drain = "ended" THEN "running" ELSE drain
    BY <1>3 DEF Push
  <2>2. /\ backlog' \in Seq(Nat) /\ Len(backlog') = len + 1 /\ backlog'[len + 1] = n
        /\ \A k \in 1 .. len : backlog'[k] = backlog[k]
    BY <1>1, <2>1
  <2>3. /\ head' \in 0 .. len + 1 /\ drain' \in {"running", "awaiting"}
        /\ \A k \in head + 1 .. len : k \in 1 .. len
        /\ \A k \in head + 1 .. len + 1 : k \in head + 1 .. len \/ k = len + 1
        /\ len + 1 \in head + 1 .. len + 1 /\ len \in Nat
    BY <1>1, <2>1
  <2> HIDE DEF len
  <2>4. Live' = Live \cup {n}
    <3>1. Live' = {backlog'[k] : k \in head + 1 .. len + 1}
      BY <2>1, <2>2 DEF Live
    <3>2. Live = {backlog[k] : k \in head + 1 .. len}
      BY DEF Live, len
    <3>3. ASSUME NEW m \in Live PROVE m \in Live'
      BY <2>2, <2>3, <3>1, <3>2
    <3>4. ASSUME NEW m \in Live' PROVE m \in Live \cup {n}
      BY <2>2, <2>3, <3>1, <3>2
    <3>5. n \in Live'
      BY <2>2, <2>3, <3>1
    <3> QED
      BY <3>3, <3>4, <3>5
  <2>5. ASSUME NEW j \in head + 1 .. len + 1, NEW k \in head + 1 .. len + 1, j < k
        PROVE  backlog'[j] < backlog'[k]
    <3>1. j \in head + 1 .. len /\ backlog'[j] = backlog[j]
      BY <1>1, <2>2, <2>3, <2>5
    <3>2. CASE k \in head + 1 .. len
      BY <1>1, <2>2, <2>3, <2>5, <3>1, <3>2 DEF len
    <3>3. CASE k = len + 1
      <4>1. backlog[j] \in Live
        BY <3>1 DEF Live, len
      <4> QED
        BY <2>2, <3>1, <3>3, <4>1
    <3> QED
      BY <2>3, <3>2, <3>3
  <2>6. Sorted'
    BY <1>1, <2>1, <2>2, <2>3, <2>4, <2>5 DEF Sorted
  <2> QED
    BY <1>1, <2>1, <2>2, <2>3, <2>4, <2>6 DEF QueueInv, QueueTypeOK
<1> QED
  BY <1>2, <1>3

LEMMA ClearThenPushStep ==
  ASSUME QueueInv, NEW n \in Nat, n > last, ClearThenPush(n)
  PROVE  QueueInv' /\ last' = last /\ Live' = {n}
<1>1. backlog' = <<n>> /\ head' = 0 /\ last' = last /\ drain' \in {"running", "awaiting"}
  BY DEF ClearThenPush, QueueInv, QueueTypeOK
<1>2. backlog' \in Seq(Nat) /\ Len(backlog') = 1 /\ backlog'[1] = n /\ head' + 1 .. 1 = {1}
  BY <1>1
<1>3. Live' = {n}
  BY <1>2 DEF Live
<1> QED
  BY <1>1, <1>2, <1>3 DEF QueueInv, QueueTypeOK, Sorted

LEMMA ClearStep ==
  ASSUME QueueInv, Clear, last' = last, drain' \in {"ended", "running", "awaiting"}
  PROVE  QueueInv' /\ Live' = {}
<1>1. backlog' = <<>> /\ head' = 0
  BY DEF Clear
<1>2. backlog' \in Seq(Nat) /\ Len(backlog') = 0 /\ head' + 1 .. Len(backlog') = {}
  BY <1>1
<1>3. Live' = {}
  BY <1>2 DEF Live
<1> QED
  BY <1>1, <1>2, <1>3 DEF QueueInv, QueueTypeOK, Sorted

\* The one that has waited longest is routed.
LEMMA TakeStep ==
  ASSUME QueueInv, NEW then \in {"running", "awaiting", "ended"}, Take(then)
  PROVE  /\ QueueInv' /\ drain # "ended"
         /\ last' \in Live /\ Live' = Live \ {last'} /\ \A m \in Live : last' <= m
<1> DEFINE len == Len(backlog)
           k1 == head + 1
<1>1. /\ backlog \in Seq(Nat) /\ head \in 0 .. len /\ len \in Nat
      /\ last \in Nat
      /\ \A j, k \in k1 .. len : j < k => backlog[j] < backlog[k]
      /\ \A m \in Live : m > last
  BY DEF QueueInv, QueueTypeOK, Sorted
<1>2. /\ drain = "running" /\ k1 \in 1 .. len /\ last' = backlog[k1]
      /\ backlog' = [backlog EXCEPT ![k1] = 0] /\ head' = k1
      /\ drain' = then
  BY <1>1 DEF Take, Taken
<1>3. /\ backlog' \in Seq(Nat) /\ Len(backlog') = len
      /\ \A k \in k1 + 1 .. len : backlog'[k] = backlog[k]
  BY <1>1, <1>2
<1>4. /\ \A k \in k1 + 1 .. len : k \in k1 .. len /\ k > k1 /\ k \in 1 .. len
      /\ \A k \in k1 .. len : (k \in k1 + 1 .. len \/ k = k1) /\ k \in 1 .. len
      /\ k1 \in k1 .. len
  BY <1>1, <1>2
<1>5. \A k \in 1 .. len : backlog[k] \in Nat
  BY <1>1
<1>6. Live = {backlog[k] : k \in k1 .. len}
  BY DEF Live
<1>7. Live' = {backlog'[k] : k \in k1 + 1 .. len}
  BY <1>2, <1>3 DEF Live
<1> HIDE DEF len, k1
<1>8. last' \in Live /\ last' \in Nat
  BY <1>2, <1>4, <1>5, <1>6
<1>9. \A k \in k1 + 1 .. len : backlog[k] > last' /\ backlog[k] \in Live
  BY <1>1, <1>2, <1>4, <1>5, <1>6
<1>10. \A m \in Live : m \in Nat /\ last' <= m
  <2>1. \A k \in k1 .. len : backlog[k] \in Nat /\ last' <= backlog[k]
    BY <1>2, <1>4, <1>5, <1>8, <1>9
  <2> QED
    BY <1>6, <2>1
<1>11. Live' = Live \ {last'}
  <2>1. ASSUME NEW m \in Live' PROVE m \in Live \ {last'}
    <3>1. PICK k \in k1 + 1 .. len : m = backlog[k]
      BY <1>3, <1>7
    <3> QED
      BY <1>8, <1>9, <1>10, <3>1
  <2>2. ASSUME NEW m \in Live, m # last' PROVE m \in Live'
    <3>1. PICK k \in k1 .. len : m = backlog[k]
      BY <1>6
    <3>2. k \in k1 + 1 .. len
      BY <1>2, <1>4, <2>2, <3>1
    <3> QED
      BY <1>3, <1>7, <3>1, <3>2
  <2> QED
    BY <2>1, <2>2
<1>12. Sorted'
  <2>1. \A j, k \in k1 + 1 .. len : j < k => backlog'[j] < backlog'[k]
    BY <1>1, <1>3, <1>4
  <2>2. \A m \in Live' : m > last'
    BY <1>8, <1>10, <1>11
  <2> QED
    BY <1>2, <1>3, <2>1, <2>2 DEF Sorted
<1>13. QueueTypeOK'
  BY <1>1, <1>2, <1>3, <1>8 DEF QueueTypeOK, len, k1
<1> QED
  BY <1>2, <1>8, <1>10, <1>11, <1>12, <1>13 DEF QueueInv

LEMMA TakeNoneStep ==
  ASSUME QueueInv, TakeNone
  PROVE  QueueInv' /\ last' = last /\ Live = {} /\ Live' = {} /\ drain # "ended"
<1>1. drain = "running" /\ head >= Len(backlog) /\ drain' = "ended" /\ last' = last
      /\ head \in 0 .. Len(backlog) /\ backlog \in Seq(Nat)
  BY DEF TakeNone, QueueInv, QueueTypeOK
<1>2. head + 1 .. Len(backlog) = {}
  BY <1>1
<1>3. Live = {}
  BY <1>2 DEF Live
<1>4. CASE head > 0
  BY <1>1, <1>3, <1>4, ClearStep DEF TakeNone
<1>5. CASE ~(head > 0)
  <2>1. UNCHANGED <<backlog, head>>
    BY <1>5 DEF TakeNone
  <2> QED
    BY <1>1, <1>3, <2>1 DEF QueueInv, QueueTypeOK, Sorted, Live
<1> QED
  BY <1>1, <1>3, <1>4, <1>5

LEMMA SettleStep ==
  ASSUME QueueInv, Settle
  PROVE  QueueInv' /\ last' = last /\ Live' = Live /\ drain # "ended"
  BY DEF Settle, QueueInv, QueueTypeOK, Sorted, Live
-----------------------------------------------------------------------------
(* MemberChunker. *)

ChunkerInv == ChunkerTypeOK /\ PendingIsAwaited /\ InStep

\* Both of one request.
CallInv(r) ==
  /\ r \in pending <=> call[r] \in {"sending", "awaiting"} /\ promise[r] = "open"
  /\ call[r] = "idle" => promise[r] = "open"
  /\ call[r] \in {"idle", "sending"} => reply[r] = Unsent /\ got[r] = <<>>
  /\ call[r] = "awaiting" =>
       promise[r] = "open" /\ reply[r] \in 0 .. Chunks - 1 /\ got[r] = First(reply[r])
  /\ call[r] = "resolved" => promise[r] = "resolved"
  /\ promise[r] = "resolved" => got[r] = First(Chunks)

LEMMA CallByCall ==
  /\ ChunkerInv <=> ChunkerTypeOK /\ \A r \in Requests : CallInv(r)
  /\ ChunkerInv' <=> ChunkerTypeOK' /\ \A r \in Requests : CallInv(r)'
  BY Zenon DEF ChunkerInv, PendingIsAwaited, InStep, CallInv

LEMMA ChunkerStart == ChunkerInit => ChunkerInv
<1> SUFFICES ASSUME ChunkerInit PROVE ChunkerInv
  OBVIOUS
<1>1. \A r \in Requests : got[r] = <<>> /\ <<>> \in Seq(0 .. Chunks - 1)
  BY DEF ChunkerInit
<1>2. -1 \in Unsent .. Chunks
  BY ChunkerAssumption DEF Unsent
<1>3. ChunkerTypeOK
  BY <1>1, <1>2 DEF ChunkerInit, ChunkerTypeOK, Unsent
<1>4. PendingIsAwaited
  BY DEF ChunkerInit, PendingIsAwaited
<1>5. InStep
  BY <1>1 DEF ChunkerInit, InStep
<1> QED
  BY <1>3, <1>4, <1>5 DEF ChunkerInv

LEMMA FirstMore ==
  /\ First(0) = <<>>
  /\ \A n \in Nat : Append(First(n), n) = First(n + 1)
<1>1. First(0) = <<>>
  BY DEF First
<1>2. ASSUME NEW n \in Nat PROVE Append(First(n), n) = First(n + 1)
  <2> DEFINE s == First(n)
             t == First(n + 1)
  <2>1. /\ s \in Seq(Int) /\ Len(s) = n /\ \A k \in 1 .. n : s[k] = k - 1
        /\ t \in Seq(Int) /\ Len(t) = n + 1 /\ \A k \in 1 .. n + 1 : t[k] = k - 1
    BY DEF First
  <2> HIDE DEF s, t
  <2>2. /\ Append(s, n) \in Seq(Int) /\ Len(Append(s, n)) = n + 1
        /\ \A k \in 1 .. n : Append(s, n)[k] = s[k]
        /\ Append(s, n)[n + 1] = n
    BY <2>1
  <2>3. \A k \in 1 .. n + 1 : Append(s, n)[k] = t[k]
    BY <2>1, <2>2
  <2>4. Append(s, n) = t
    BY <2>1, <2>2, <2>3
  <2> QED
    BY <2>4 DEF s, t
<1> QED
  BY <1>1, <1>2

\* Some pending requests are rejected.
LEMMA RejectStep ==
  ASSUME ChunkerInv, NEW some \in SUBSET pending, Reject(some),
         gate' \subseteq Guilds, got' = got, reply' \in [Requests -> Unsent .. Chunks],
         \A r \in Requests : reply[r] = Unsent => reply'[r] = Unsent,
         \A r \in pending \ some : reply'[r] = reply[r]
  PROVE  ChunkerInv'
<1>1. /\ pending' = pending \ some
      /\ promise' = [r \in Requests |-> IF r \in some THEN "rejected" ELSE promise[r]]
      /\ call' = [r \in Requests |-> IF call[r] = "awaiting" /\ promise'[r] # "open"
                                     THEN promise'[r] ELSE call[r]]
  BY DEF Reject, CallsEnd
<1>2. ChunkerTypeOK
  BY DEF ChunkerInv
<1>3. ChunkerTypeOK'
  <2>1. pending' \subseteq Requests
    BY <1>1, <1>2 DEF ChunkerTypeOK
  <2>2. promise' \in [Requests -> {"open", "resolved", "rejected"}]
    BY <1>1, <1>2 DEF ChunkerTypeOK
  <2>3. call' \in [Requests -> {"idle", "sending", "awaiting", "resolved", "rejected"}]
    BY <1>1, <1>2, <2>2 DEF ChunkerTypeOK
  <2> QED
    BY <1>2, <2>1, <2>2, <2>3 DEF ChunkerTypeOK
<1>4. ASSUME NEW r \in Requests PROVE CallInv(r)'
  <2>1. CallInv(r)
    BY CallByCall
  <2>2. promise[r] \in {"open", "resolved", "rejected"}
        /\ call[r] \in {"idle", "sending", "awaiting", "resolved", "rejected"}
    BY <1>2 DEF ChunkerTypeOK
  <2>3. CASE r \in some
    <3>1. promise'[r] = "rejected" /\ r \notin pending'
          /\ call'[r] = IF call[r] = "awaiting" THEN "rejected" ELSE call[r]
      BY <1>1, <2>3
    <3> QED
      BY <2>1, <2>2, <2>3, <3>1 DEF CallInv
  <2>4. CASE r \notin some
    <3>1. promise'[r] = promise[r] /\ (r \in pending' <=> r \in pending)
          /\ call'[r] = IF call[r] = "awaiting" /\ promise[r] # "open" THEN promise[r]
                        ELSE call[r]
      BY <1>1, <2>4
    <3>2. call'[r] = call[r]
      BY <2>1, <3>1 DEF CallInv
    <3>3. r \in pending => reply'[r] = reply[r]
      BY <2>4
    <3> QED
      BY <2>1, <3>1, <3>2, <3>3 DEF CallInv
  <2> QED
    BY <2>3, <2>4
<1> QED
  BY <1>3, <1>4, CallByCall

\* The steps of one call.
LEMMA CallStep ==
  ASSUME ChunkerInv, NEW r \in Requests,
         Request(r) \/ Sent(r) \/ SendFails(r) \/ Timeout(r)
  PROVE  ChunkerInv'
<1>1. /\ ChunkerTypeOK /\ \A d \in Requests : CallInv(d)
      /\ gate \subseteq Guilds /\ pending \subseteq Requests
  BY CallByCall DEF ChunkerInv, ChunkerTypeOK
<1>2. Target[r] \in Guilds /\ Chunks \in Nat /\ Chunks >= 1
  BY ChunkerAssumption
<1>3. CASE Request(r)
  <2>1. CASE Gated(r)
    <3>1. call' = [call EXCEPT ![r] = "rejected"] /\ call[r] = "idle"
          /\ UNCHANGED <<promise, pending, got, gate, reply>>
      BY <1>3, <2>1 DEF Request
    <3>2. ChunkerTypeOK'
      BY <1>1, <3>1 DEF ChunkerTypeOK
    <3>3. ASSUME NEW d \in Requests PROVE CallInv(d)'
      <4>1. CallInv(d) /\ call'[d] = IF d = r THEN "rejected" ELSE call[d]
        BY <1>1, <3>1 DEF ChunkerTypeOK
      <4> QED
        BY <3>1, <4>1 DEF CallInv
    <3> QED
      BY <3>2, <3>3, CallByCall
  <2>2. CASE ~Gated(r)
    <3>1. /\ call' = [call EXCEPT ![r] = "sending"] /\ call[r] = "idle"
          /\ pending' = pending \cup {r}
          /\ gate' = IF r \in Everyone THEN gate \cup {Target[r]} ELSE gate
          /\ UNCHANGED <<promise, got, reply>>
      BY <1>3, <2>2 DEF Request
    <3>2. ChunkerTypeOK'
      BY <1>1, <1>2, <3>1 DEF ChunkerTypeOK
    <3>3. ASSUME NEW d \in Requests PROVE CallInv(d)'
      <4>1. CallInv(d) /\ call'[d] = IF d = r THEN "sending" ELSE call[d]
        BY <1>1, <3>1 DEF ChunkerTypeOK
      <4> QED
        BY <3>1, <4>1 DEF CallInv
    <3> QED
      BY <3>2, <3>3, CallByCall
  <2> QED
    BY <2>1, <2>2
<1>4. CASE Sent(r)
  <2>1. /\ call[r] = "sending" /\ reply' = [reply EXCEPT ![r] = 0]
        /\ call' = [call EXCEPT ![r] = IF promise[r] = "open" THEN "awaiting" ELSE promise[r]]
        /\ UNCHANGED <<promise, pending, got, gate>>
    BY <1>4 DEF Sent
  <2>2. ChunkerTypeOK'
    <3>1. 0 \in Unsent .. Chunks
      BY <1>2 DEF Unsent
    <3> QED
      BY <1>1, <2>1, <3>1 DEF ChunkerTypeOK
  <2>3. ASSUME NEW d \in Requests PROVE CallInv(d)'
    <3>1. /\ CallInv(d)
          /\ call'[d] = IF d # r THEN call[d]
                        ELSE IF promise[r] = "open" THEN "awaiting" ELSE promise[r]
          /\ reply'[d] = IF d = r THEN 0 ELSE reply[d]
          /\ promise[d] \in {"open", "resolved", "rejected"}
      BY <1>1, <2>1 DEF ChunkerTypeOK
    <3>2. 0 \in 0 .. Chunks - 1 /\ First(0) = <<>>
      BY <1>2, FirstMore
    <3>3. CASE d = r
      BY <2>1, <3>1, <3>2, <3>3 DEF CallInv
    <3>4. CASE d # r
      BY <2>1, <3>1, <3>4 DEF CallInv
    <3> QED
      BY <3>3, <3>4
  <2> QED
    BY <2>2, <2>3, CallByCall
<1>5. CASE SendFails(r)
  <2>1. /\ call[r] = "sending" /\ call' = [call EXCEPT ![r] = "rejected"]
        /\ pending' = pending \ {r}
        /\ gate' = IF r \in Everyone THEN gate \ {Target[r]} ELSE gate
        /\ UNCHANGED <<promise, got, reply>>
    BY <1>5 DEF SendFails
  <2>2. ChunkerTypeOK'
    BY <1>1, <2>1 DEF ChunkerTypeOK
  <2>3. ASSUME NEW d \in Requests PROVE CallInv(d)'
    <3>1. CallInv(d) /\ call'[d] = IF d = r THEN "rejected" ELSE call[d]
      BY <1>1, <2>1 DEF ChunkerTypeOK
    <3> QED
      BY <2>1, <3>1 DEF CallInv
  <2> QED
    BY <2>2, <2>3, CallByCall
<1>6. CASE Timeout(r)
  BY <1>1, <1>6, RejectStep DEF Timeout, ChunkerTypeOK
<1> QED
  BY <1>3, <1>4, <1>5, <1>6

LEMMA ChunkStep ==
  ASSUME ChunkerInv, NEW r \in Requests, HandleChunk(r) PROVE ChunkerInv'
<1> DEFINE n == reply[r]
<1>1. /\ ChunkerTypeOK /\ \A d \in Requests : CallInv(d)
      /\ Chunks \in Nat /\ Chunks >= 1
  BY CallByCall, ChunkerAssumption
<1>2. /\ n \in 0 .. Chunks - 1 /\ n + 1 \in 0 .. Chunks /\ n + 1 \in Unsent .. Chunks
      /\ reply' = [reply EXCEPT ![r] = n + 1] /\ gate' = gate
  BY <1>1 DEF HandleChunk, Unsent
<1>3. reply' \in [Requests -> Unsent .. Chunks]
  BY <1>1, <1>2 DEF ChunkerTypeOK
<1>4. CASE r \notin pending
  <2>1. UNCHANGED <<call, promise, pending, got, gate>>
    BY <1>2, <1>4 DEF HandleChunk
  <2>2. ChunkerTypeOK'
    BY <1>1, <1>3, <2>1 DEF ChunkerTypeOK
  <2>3. ASSUME NEW d \in Requests PROVE CallInv(d)'
    <3>1. CallInv(d) /\ CallInv(r) /\ reply'[d] = IF d = r THEN n + 1 ELSE reply[d]
      BY <1>1, <1>2 DEF ChunkerTypeOK
    <3>2. n # Unsent
      BY <1>2 DEF Unsent
    <3> QED
      BY <1>4, <2>1, <3>1, <3>2 DEF CallInv
  <2> QED
    BY <2>2, <2>3, CallByCall
<1>5. CASE r \in pending
  <2>1. got' = [got EXCEPT ![r] = Append(got[r], n)]
    BY <1>1, <1>5 DEF HandleChunk, ChunkerTypeOK
  <2>2. CallInv(r) /\ n # Unsent
    BY <1>1, <1>2 DEF Unsent
  <2>3. call[r] = "awaiting" /\ promise[r] = "open" /\ got[r] = First(n)
    BY <1>5, <2>2 DEF CallInv
  <2>4. got'[r] = First(n + 1) /\ \A d \in Requests : d # r => got'[d] = got[d]
    <3>1. n \in Nat
      BY <1>2
    <3>2. Append(First(n), n) = First(n + 1)
      BY <3>1, FirstMore
    <3> QED
      BY <1>1, <2>1, <2>3, <3>2 DEF ChunkerTypeOK
  <2>5. got' \in [Requests -> Seq(0 .. Chunks - 1)]
    <3>1. got[r] \in Seq(0 .. Chunks - 1)
      BY <1>1 DEF ChunkerTypeOK
    <3>2. Append(got[r], n) \in Seq(0 .. Chunks - 1)
      BY <1>2, <3>1
    <3> QED
      BY <1>1, <2>1, <3>2 DEF ChunkerTypeOK
  <2>6. CASE n = Chunks - 1
    <3>1. /\ pending' = pending \ {r}
          /\ promise' = [promise EXCEPT ![r] = "resolved"]
          /\ call' = CallsEnd(promise')
      BY <1>5, <2>6 DEF HandleChunk, Complete
    <3>2. ASSUME NEW d \in Requests
          PROVE  /\ promise'[d] = IF d = r THEN "resolved" ELSE promise[d]
                 /\ call'[d] = IF d = r THEN "resolved" ELSE call[d]
      <4>1. promise'[d] = IF d = r THEN "resolved" ELSE promise[d]
        BY <1>1, <3>1 DEF ChunkerTypeOK
      <4>2. call'[d] = IF call[d] = "awaiting" /\ promise'[d] # "open" THEN promise'[d]
                       ELSE call[d]
        BY <3>1 DEF CallsEnd
      <4>3. CallInv(d)
        BY <1>1
      <4> QED
        BY <2>3, <4>1, <4>2, <4>3 DEF CallInv
    <3>3. ChunkerTypeOK'
      <4>1. promise' \in [Requests -> {"open", "resolved", "rejected"}]
        BY <1>1, <3>1 DEF ChunkerTypeOK
      <4>2. call' \in [Requests -> {"idle", "sending", "awaiting", "resolved", "rejected"}]
        BY <1>1, <3>1, <4>1 DEF ChunkerTypeOK, CallsEnd
      <4> QED
        BY <1>1, <1>2, <1>3, <2>5, <3>1, <4>1, <4>2 DEF ChunkerTypeOK
    <3>4. ASSUME NEW d \in Requests PROVE CallInv(d)'
      <4>1. CallInv(d) /\ (d # r => reply'[d] = reply[d] /\ got'[d] = got[d])
        BY <1>1, <1>2, <2>4 DEF ChunkerTypeOK
      <4>2. got'[r] = First(Chunks)
        BY <1>1, <2>4, <2>6
      <4> QED
        BY <3>1, <3>2, <4>1, <4>2 DEF CallInv
    <3> QED
      BY <3>3, <3>4, CallByCall
  <2>7. CASE n # Chunks - 1
    <3>1. UNCHANGED <<call, promise, pending>>
      BY <1>5, <2>7 DEF HandleChunk, Complete
    <3>2. ChunkerTypeOK'
      BY <1>1, <1>2, <1>3, <2>5, <3>1 DEF ChunkerTypeOK
    <3>3. ASSUME NEW d \in Requests PROVE CallInv(d)'
      <4>1. CallInv(d) /\ (d # r => reply'[d] = reply[d] /\ got'[d] = got[d])
            /\ reply'[r] = n + 1
        BY <1>1, <1>2, <2>4 DEF ChunkerTypeOK
      <4>2. n + 1 \in 0 .. Chunks - 1
        BY <1>1, <1>2, <2>7
      <4> QED
        BY <2>3, <2>4, <3>1, <4>1, <4>2 DEF CallInv
    <3> QED
      BY <3>2, <3>3, CallByCall
  <2> QED
    BY <2>6, <2>7
<1> QED
  BY <1>4, <1>5

LEMMA RateLimitedStep ==
  ASSUME ChunkerInv, NEW r \in Requests, HandleRateLimited(r) PROVE ChunkerInv'
<1>1. /\ ChunkerTypeOK /\ Target[r] \in Guilds /\ Chunks \in Unsent .. Chunks
  BY ChunkerAssumption DEF ChunkerInv, Unsent
<1>2. /\ gate' \subseteq Guilds /\ got' = got /\ reply' \in [Requests -> Unsent .. Chunks]
      /\ Reject({r} \cap pending)
  BY <1>1 DEF HandleRateLimited, ChunkerTypeOK
<1>3. \A d \in Requests : reply'[d] = IF d = r THEN Chunks ELSE reply[d]
  BY <1>1 DEF HandleRateLimited, ChunkerTypeOK
<1>4. reply[r] # Unsent /\ pending \subseteq Requests
  BY <1>1 DEF HandleRateLimited, Unsent, ChunkerTypeOK
<1> QED
  BY <1>2, <1>3, <1>4, RejectStep

LEMMA ResetStep == ASSUME ChunkerInv, Reset PROVE ChunkerInv' /\ pending' = {}
<1>1. /\ ChunkerTypeOK /\ Chunks \in Unsent .. Chunks /\ Unsent \in Unsent .. Chunks
  BY ChunkerAssumption DEF ChunkerInv, Unsent
<1>2. /\ gate' \subseteq Guilds /\ got' = got /\ reply' \in [Requests -> Unsent .. Chunks]
      /\ Reject(pending)
  BY <1>1 DEF Reset, ChunkerTypeOK
<1>3. \A d \in Requests : reply[d] = Unsent => reply'[d] = Unsent
  BY DEF Reset
<1>4. pending' = {}
  BY DEF Reset, Reject
<1> QED
  BY <1>2, <1>3, <1>4, RejectStep

LEMMA ChunkerSame ==
  ASSUME ChunkerInv, UNCHANGED <<call, promise, pending, got, reply>>, gate' \subseteq Guilds
  PROVE  ChunkerInv'
  BY DEF ChunkerInv, ChunkerTypeOK, PendingIsAwaited, InStep
-----------------------------------------------------------------------------
(* ShardBridge. *)

RouteInv == QueueInv /\ Numbered /\ AnnouncedInOrder

SpeakInv == GuildsToldOnce /\ OneTracker

BridgeInv ==
  /\ BridgeTypeOK /\ RouteInv /\ ChunkerInv /\ SpeakInv /\ DestroyedIsQuiet

\* The variables of the bridge alone have their types.
OwnTypes ==
  /\ {serial, guildsPending, destroyed} \subseteq BOOLEAN
  /\ arrived \in Nat /\ ready \in Seq(Nat) /\ Session <= MaxSessions
  /\ tracker \in [Sessions -> [pending : SUBSET Guilds, armed : BOOLEAN, done : BOOLEAN]]
  /\ expected \in [Sessions -> SUBSET Guilds]
  /\ unheard \subseteq Sessions /\ announced \in Seq(Sessions)

LEMMA Types ==
  /\ BridgeTypeOK <=> QueueTypeOK /\ ChunkerTypeOK /\ OwnTypes
  /\ BridgeTypeOK' <=> QueueTypeOK' /\ ChunkerTypeOK' /\ OwnTypes'
  BY DEF BridgeTypeOK, OwnTypes

\* What waits, by the numbers of Delivery.

\* What waits longest, as Delivery says it.
LEMMA LeastWaiting ==
  ASSUME NEW n \in Live, \A m \in Live : n <= m, Live \subseteq Nat
  PROVE  D!Min(Live) = n
<1> DEFINE c == CHOOSE x \in Live : \A y \in Live : x <= y
<1>1. c \in Live /\ \A y \in Live : c <= y
  OBVIOUS
<1>2. D!Min(Live) = c
  BY Zenon DEF D!Min
<1> HIDE DEF c
<1>3. c = n
  BY <1>1
<1> QED
  BY <1>2, <1>3

LEMMA ReadyAppended ==
  ASSUME ready \in Seq(Nat), NEW n \in Nat, ready' = Append(ready, n)
  PROVE  /\ Session \in Nat /\ Session' = Session + 1 /\ ready' \in Seq(Nat)
         /\ DOMAIN ready = 1 .. Session /\ DOMAIN ready' = 1 .. Session + 1
         /\ ready'[Session + 1] = n /\ \A s \in 1 .. Session : ready'[s] = ready[s]
  BY DEF Session

\* A session is told of once its READY is routed, after all the earlier ones.
LEMMA AnnounceStep ==
  ASSUME announced \in Seq(Sessions), ready' \in Seq(Nat), Session' <= MaxSessions,
         \A i, j \in DOMAIN announced : i < j => announced[i] < announced[j],
         \A s, t \in DOMAIN ready' : s < t => ready'[s] < ready'[t],
         NEW n \in Nat, \A s \in Range(announced) : s <= Session' /\ ready'[s] < n,
         Announce(n)
  PROVE  /\ announced' \in Seq(Sessions)
         /\ \A i, j \in DOMAIN announced' : i < j => announced'[i] < announced'[j]
         /\ \A s \in Range(announced') : s <= Session' /\ ready'[s] <= n
         /\ \A s \in DOMAIN ready' : ready'[s] = n => s \in Range(announced')
         /\ Range(announced) \subseteq Range(announced')
<1>1. /\ DOMAIN ready' = 1 .. Session' /\ Session' \in Nat
      /\ \A s \in 1 .. Session' : ready'[s] \in Nat
  BY DEF Session
<1>2. Range(announced) \subseteq Sessions /\ MaxSessions \in Nat
  BY BridgeAssumption DEF Range
<1>3. \A s \in Range(announced) : s \in 1 .. Session' /\ ready'[s] \in Nat
  BY <1>1, <1>2 DEF Sessions
<1>4. CASE ~(\E s \in DOMAIN ready' : ready'[s] = n)
  BY <1>3, <1>4 DEF Announce
<1>5. CASE \E s \in DOMAIN ready' : ready'[s] = n
  <2> DEFINE new == CHOOSE s \in DOMAIN ready' : ready'[s] = n
             len == Len(announced)
  <2>1. new \in DOMAIN ready' /\ ready'[new] = n
    BY <1>5
  <2>2. announced' = Append(announced, new)
    BY <1>5 DEF Announce
  <2> HIDE DEF new
  <2>3. new \in 1 .. Session' /\ new \in Sessions
    BY <1>1, <1>2, <2>1 DEF Sessions
  <2>4. \A s \in DOMAIN ready' : ready'[s] = n => s = new
    <3> SUFFICES ASSUME NEW s \in DOMAIN ready', ready'[s] = n, s # new PROVE FALSE
      OBVIOUS
    <3>1. s \in 1 .. Session' /\ (s < new \/ new < s)
      BY <1>1, <2>3
    <3> QED
      BY <1>1, <2>1, <3>1
  <2>5. \A s \in Range(announced) : s < new
    <3> SUFFICES ASSUME NEW s \in Range(announced), ~(s < new) PROVE FALSE
      OBVIOUS
    <3>1. s \in 1 .. Session' /\ ready'[s] < n /\ ready'[s] \in Nat
      BY <1>3
    <3>2. s = new \/ new < s
      BY <2>3, <3>1
    <3>3. s # new
      BY <2>1, <3>1
    <3>4. new < s => ready'[new] < ready'[s]
      BY <1>1, <2>1, <3>1
    <3> QED
      BY <2>1, <3>1, <3>2, <3>3, <3>4
  <2>6. /\ announced' \in Seq(Sessions) /\ DOMAIN announced = 1 .. len /\ len \in Nat
        /\ DOMAIN announced' = 1 .. len + 1 /\ announced'[len + 1] = new
        /\ \A i \in 1 .. len : announced'[i] = announced[i]
    BY <2>2, <2>3
  <2> HIDE DEF len
  <2>7. Range(announced') = Range(announced) \cup {new}
    <3>1. /\ Range(announced') = {announced'[i] : i \in 1 .. len + 1}
          /\ Range(announced) = {announced[i] : i \in 1 .. len}
      BY <2>6 DEF Range
    <3>2. \A i \in 1 .. len + 1 : i \in 1 .. len \/ i = len + 1
      BY <2>6
    <3>3. \A i \in 1 .. len : i \in 1 .. len + 1
      BY <2>6
    <3>4. len + 1 \in 1 .. len + 1
      BY <2>6
    <3>5. ASSUME NEW s \in Range(announced) PROVE s \in Range(announced')
      BY <2>6, <3>1, <3>3
    <3>6. ASSUME NEW s \in Range(announced') PROVE s \in Range(announced) \cup {new}
      BY <2>6, <3>1, <3>2
    <3>7. new \in Range(announced')
      BY <2>6, <3>1, <3>4
    <3> QED
      BY <3>5, <3>6, <3>7
  <2>8. ASSUME NEW i \in DOMAIN announced', NEW j \in DOMAIN announced', i < j
        PROVE  announced'[i] < announced'[j]
    <3>1. i \in 1 .. len /\ announced'[i] = announced[i]
      BY <2>6, <2>8
    <3>2. CASE j \in 1 .. len
      BY <2>6, <2>8, <3>1, <3>2
    <3>3. CASE j = len + 1
      <4>1. announced[i] \in Range(announced)
        BY <2>6, <3>1 DEF Range
      <4> QED
        BY <2>5, <2>6, <3>1, <3>3, <4>1
    <3> QED
      BY <2>6, <3>2, <3>3
  <2>9. \A s \in Range(announced') : s <= Session' /\ ready'[s] <= n
    BY <1>1, <1>3, <2>1, <2>3, <2>7
  <2> QED
    BY <2>4, <2>6, <2>7, <2>8, <2>9
<1> QED
  BY <1>4, <1>5

\* The facts of RouteInv that a step of the dispatches needs.
LEMMA Routed ==
  ASSUME RouteInv, OwnTypes
  PROVE  /\ QueueInv /\ arrived \in Nat /\ arrived + 1 \in Nat /\ last \in Nat
         /\ last <= arrived /\ Live \subseteq Nat /\ \A m \in Live : m <= arrived
         /\ Session \in Nat /\ DOMAIN ready = 1 .. Session /\ ready \in Seq(Nat)
         /\ announced \in Seq(Sessions) /\ Range(announced) \subseteq 1 .. Session
         /\ \A s \in 1 .. Session : ready[s] \in 1 .. arrived
         /\ \A s, t \in 1 .. Session : s < t => ready[s] < ready[t]
         /\ \A s \in Range(announced) : ready[s] <= last
<1>1. Live \subseteq Nat /\ last \in Nat
  <2>1. backlog \in Seq(Nat) /\ head \in 0 .. Len(backlog) /\ last \in Nat
    BY DEF RouteInv, QueueInv, QueueTypeOK
  <2>2. \A k \in head + 1 .. Len(backlog) : backlog[k] \in Nat
    BY <2>1
  <2> QED
    BY <2>1, <2>2 DEF Live
<1>2. /\ Session \in Nat /\ DOMAIN ready = 1 .. Session /\ ready \in Seq(Nat)
      /\ announced \in Seq(Sessions) /\ arrived \in Nat /\ arrived + 1 \in Nat
  BY DEF OwnTypes, Session
<1>3. Range(announced) \subseteq 1 .. Session
  <2>1. Range(announced) \subseteq Sessions
    BY <1>2 DEF Range
  <2> QED
    BY <1>2, <2>1 DEF Sessions, RouteInv, Numbered
<1> QED
  BY <1>1, <1>2, <1>3 DEF RouteInv, Numbered

\* The READYs are numbered as they arrive, and older than what arrives next.
LEMMA Arrives ==
  ASSUME RouteInv, OwnTypes, NEW fresh \in BOOLEAN,
         ready' = IF fresh THEN Append(ready, arrived + 1) ELSE ready
  PROVE  /\ ready' \in Seq(Nat) /\ Session' \in Nat /\ Session <= Session'
         /\ DOMAIN ready' = 1 .. Session'
         /\ \A s \in 1 .. Session : s \in 1 .. Session' /\ ready'[s] = ready[s]
         /\ fresh => /\ Session' = Session + 1 /\ ready'[Session'] = arrived + 1
                     /\ ready' = Append(ready, arrived + 1)
         /\ ~fresh => Session' = Session /\ ready' = ready
         /\ \A s \in 1 .. Session' : ready'[s] \in 1 .. arrived + 1
         /\ \A s, t \in 1 .. Session' : s < t => ready'[s] < ready'[t]
         /\ \A s \in Range(announced) : s <= Session' /\ ready'[s] <= last /\ ready'[s] < arrived + 1
<1> DEFINE n == arrived + 1
<1>1. n \in Nat /\ n > last /\ \A m \in Live : n > m
  BY Routed
<1>2. /\ ready' \in Seq(Nat) /\ Session' \in Nat /\ Session <= Session'
      /\ DOMAIN ready' = 1 .. Session'
      /\ \A s \in 1 .. Session : s \in 1 .. Session' /\ ready'[s] = ready[s]
      /\ fresh => Session' = Session + 1 /\ ready'[Session'] = n /\ ready' = Append(ready, n)
      /\ ~fresh => Session' = Session /\ ready' = ready
  <2>1. CASE fresh
    <3>1. ready' = Append(ready, n) /\ ready \in Seq(Nat)
      BY <2>1, Routed
    <3> HIDE DEF n
    <3>2. /\ Session \in Nat /\ Session' = Session + 1 /\ ready' \in Seq(Nat)
          /\ DOMAIN ready' = 1 .. Session + 1
          /\ ready'[Session + 1] = n /\ \A s \in 1 .. Session : ready'[s] = ready[s]
      BY <1>1, <3>1, ReadyAppended
    <3> QED
      BY <2>1, <3>1, <3>2
  <2>2. CASE ~fresh
    <3>1. ready' = ready
      BY <2>2
    <3>2. Session' = Session
      BY <3>1 DEF Session
    <3> QED
      BY <2>2, <3>1, <3>2, Routed
  <2> QED
    BY <2>1, <2>2
<1>3. /\ \A s \in 1 .. Session' : ready'[s] \in 1 .. n
      /\ \A s, t \in 1 .. Session' : s < t => ready'[s] < ready'[t]
  <2>1. \A s \in 1 .. Session' : s \in 1 .. Session \/ (fresh /\ s = Session + 1)
    BY <1>2, Routed
  <2>2. ASSUME NEW s \in 1 .. Session' PROVE ready'[s] \in 1 .. n
    BY <1>1, <1>2, <2>1, Routed
  <2>3. ASSUME NEW s \in 1 .. Session', NEW t \in 1 .. Session', s < t
        PROVE  ready'[s] < ready'[t]
    <3>1. s \in 1 .. Session
      BY <1>2, <2>1, <2>3, Routed
    <3>2. CASE t \in 1 .. Session
      BY <1>2, <2>3, <3>1, <3>2, Routed
    <3>3. CASE fresh /\ t = Session + 1
      <4>1. ready'[t] = n /\ ready'[s] = ready[s] /\ ready[s] \in 1 .. arrived
        BY <1>2, <3>1, <3>3, Routed
      <4>2. arrived \in Nat /\ ready[s] <= arrived /\ ready[s] \in Nat
        BY <4>1, Routed
      <4>3. ready[s] < n
        BY <4>2
      <4> HIDE DEF n
      <4> QED
        BY <4>1, <4>3
    <3> QED
      BY <2>1, <3>2, <3>3
  <2> QED
    BY <2>2, <2>3
<1>4. \A s \in Range(announced) : s <= Session' /\ ready'[s] <= last /\ ready'[s] < n
  <2> SUFFICES ASSUME NEW s \in Range(announced)
               PROVE  s <= Session' /\ ready'[s] <= last /\ ready'[s] < n
    OBVIOUS
  <2>1. s \in 1 .. Session /\ ready'[s] = ready[s] /\ ready[s] <= last /\ ready[s] \in 1 .. arrived
    BY <1>2, Routed
  <2> QED
    BY <1>1, <1>2, <2>1, Routed
<1> QED
  BY <1>2, <1>3, <1>4

\* A dispatch arrives, and goes to the queue or straight to the router.
LEMMA DeliverStep ==
  ASSUME RouteInv, OwnTypes, NEW fresh \in BOOLEAN, Deliver(fresh),
         ready' = IF fresh THEN Append(ready, arrived + 1) ELSE ready,
         Session' <= MaxSessions, UNCHANGED <<serial, destroyed, unheard>>
  PROVE  /\ RouteInv' /\ ~destroyed /\ arrived' \in Nat /\ announced' \in Seq(Sessions)
         /\ D!Next
<1> DEFINE n == arrived + 1
<1>1. arrived' = n /\ n \in Nat /\ ~destroyed /\ n > last /\ \A m \in Live : n > m
  BY Routed DEF Deliver
<1>2. /\ ready' \in Seq(Nat) /\ Session' \in Nat /\ Session <= Session'
      /\ DOMAIN ready' = 1 .. Session'
      /\ \A s \in 1 .. Session : s \in 1 .. Session' /\ ready'[s] = ready[s]
      /\ fresh => Session' = Session + 1 /\ ready'[Session'] = n /\ ready' = Append(ready, n)
      /\ ~fresh => Session' = Session /\ ready' = ready
  BY Arrives
<1>3. /\ \A s \in 1 .. Session' : ready'[s] \in 1 .. n
      /\ \A s, t \in 1 .. Session' : s < t => ready'[s] < ready'[t]
  BY Arrives
<1>4. /\ \A s \in Range(announced) : s <= Session' /\ ready'[s] <= last /\ ready'[s] < n
      /\ \A i, j \in DOMAIN announced : i < j => announced[i] < announced[j]
  BY Arrives DEF RouteInv, AnnouncedInOrder
<1>5. CASE serial
  <2>1. Enqueue(n, fresh) /\ announced' = announced
    BY <1>5 DEF Deliver
  <2>2. /\ QueueInv' /\ last' = last
        /\ fresh => Live' = {n}
        /\ ~fresh => Live' \in {Live, Live \cup {n}}
    <3> HIDE DEF n
    <3>1. CASE fresh
      BY <1>1, <2>1, <3>1, Routed, ClearThenPushStep DEF Enqueue
    <3>2. CASE ~fresh
      BY <1>1, <2>1, <3>2, Routed, PushStep DEF Enqueue
    <3> QED
      BY <3>1, <3>2
  <2>3. \A m \in Live' : m <= n
    BY <1>1, <2>2, Routed
  <2>4. Numbered'
    <3>1. last' <= arrived'
      BY <1>1, <2>2, Routed
    <3>2. \A s \in Range(announced') : s <= Session' /\ ready'[s] <= last'
      BY <1>4, <2>1, <2>2
    <3>3. /\ \A s \in DOMAIN ready' : ready'[s] \in 1 .. arrived'
          /\ \A s, t \in DOMAIN ready' : s < t => ready'[s] < ready'[t]
      BY <1>1, <1>2, <1>3
    <3>4. \A m \in Live' : m <= arrived'
      BY <1>1, <2>3
    <3> QED
      BY <1>5, <3>1, <3>2, <3>3, <3>4 DEF Numbered
  <2>5. AnnouncedInOrder'
    <3>1. Session' > 0 /\ ~destroyed' =>
            Session' \in Range(announced') \cup unheard' \/ ready'[Session'] \in Live'
      <4>1. CASE fresh
        BY <1>2, <2>2, <4>1
      <4>2. CASE ~fresh
        BY <1>2, <2>1, <2>2, <4>2 DEF RouteInv, AnnouncedInOrder
      <4> QED
        BY <4>1, <4>2
    <3> QED
      BY <1>4, <2>1, <3>1 DEF AnnouncedInOrder
  <2>6. D!Next
    <3>1. CASE fresh
      <4>1. D!Renew
        BY <1>1, <1>2, <2>2, <3>1, Zenon DEF D!Renew
      <4> QED
        BY <4>1 DEF D!Next
    <3>2. CASE ~fresh
      <4>1. D!Arrive
        BY <1>1, <1>2, <2>2, <3>2, Zenon DEF D!Arrive
      <4> QED
        BY <4>1 DEF D!Next
    <3> QED
      BY <3>1, <3>2
  <2>7. announced' \in Seq(Sessions)
    BY <2>1, Routed
  <2> QED
    BY <1>1, <2>2, <2>4, <2>5, <2>6, <2>7 DEF RouteInv
<1>6. CASE ~serial
  <2>1. last' = n /\ Announce(n) /\ UNCHANGED <<backlog, head, drain>>
    BY <1>6 DEF Deliver
  <2>2. Live = {} /\ Live' = {} /\ QueueInv'
    <3>1. Live = {}
      BY <1>6 DEF RouteInv, Numbered
    <3>2. Live' = {}
      BY <2>1, <3>1 DEF Live
    <3> QED
      BY <1>1, <2>1, <3>1, <3>2, Routed DEF QueueInv, QueueTypeOK, Sorted
  <2>3. /\ announced' \in Seq(Sessions)
        /\ \A i, j \in DOMAIN announced' : i < j => announced'[i] < announced'[j]
        /\ \A s \in Range(announced') : s <= Session' /\ ready'[s] <= n
        /\ \A s \in DOMAIN ready' : ready'[s] = n => s \in Range(announced')
        /\ Range(announced) \subseteq Range(announced')
    <3> HIDE DEF n
    <3> QED
      BY <1>1, <1>2, <1>3, <1>4, <2>1, AnnounceStep, Routed
  <2>4. Numbered'
    <3>1. ~serial' => drain' = "ended" /\ Live' = {}
      BY <2>1, <2>2 DEF RouteInv, Numbered
    <3>2. /\ \A s \in DOMAIN ready' : ready'[s] \in 1 .. arrived'
          /\ \A s, t \in DOMAIN ready' : s < t => ready'[s] < ready'[t]
      BY <1>1, <1>2, <1>3
    <3>3. last' <= arrived' /\ \A s \in Range(announced') : s <= Session' /\ ready'[s] <= last'
      <4>1. n <= n
        BY <1>1
      <4> HIDE DEF n
      <4> QED
        BY <1>1, <2>1, <2>3, <4>1
    <3> QED
      BY <2>2, <3>1, <3>2, <3>3 DEF Numbered
  <2>5. AnnouncedInOrder'
    <3>1. Session' > 0 /\ ~destroyed' => Session' \in Range(announced') \cup unheard'
      <4>1. CASE fresh
        BY <1>2, <2>3, <4>1
      <4>2. CASE ~fresh
        BY <1>2, <2>2, <2>3, <4>2 DEF RouteInv, AnnouncedInOrder
      <4> QED
        BY <4>1, <4>2
    <3> QED
      BY <2>3, <3>1 DEF AnnouncedInOrder
  <2>6. D!Next
    <3>1. ready' \in {ready, Append(ready, n)}
      BY <1>2
    <3>2. D!Pass
      BY <1>1, <2>1, <2>2, <3>1, Zenon DEF D!Pass
    <3> QED
      BY <3>2 DEF D!Next
  <2> QED
    BY <1>1, <2>2, <2>3, <2>4, <2>5, <2>6 DEF RouteInv
<1> QED
  BY <1>5, <1>6

\* One that a listener keeps from it is to Delivery one without room, or a READY missed.
LEMMA LoseStep ==
  ASSUME RouteInv, OwnTypes, NEW fresh \in BOOLEAN, Lose,
         ready' = IF fresh THEN Append(ready, arrived + 1) ELSE ready,
         unheard' = IF fresh THEN unheard \cup {Session + 1} ELSE unheard,
         Session' <= MaxSessions, UNCHANGED <<serial, destroyed>>
  PROVE  /\ RouteInv' /\ ~destroyed /\ arrived' \in Nat /\ announced' = announced
         /\ D!Next
<1> DEFINE n == arrived + 1
<1>1. /\ arrived' = n /\ ~destroyed /\ UNCHANGED <<backlog, head, drain, last, announced>>
      /\ n \in Nat /\ last <= n /\ \A m \in Live : m <= n
  BY Routed DEF Lose, queueVars
<1>2. Live' = Live /\ QueueInv'
  BY <1>1, Routed DEF Live, QueueInv, QueueTypeOK, Sorted
<1> HIDE DEF n
<1>3. Numbered'
  <2>1. /\ \A s \in DOMAIN ready' : ready'[s] \in 1 .. n
        /\ \A s, t \in DOMAIN ready' : s < t => ready'[s] < ready'[t]
        /\ \A s \in Range(announced) : s <= Session' /\ ready'[s] <= last
    BY Arrives DEF n
  <2> QED
    BY <1>1, <1>2, <2>1 DEF RouteInv, Numbered
<1>4. AnnouncedInOrder'
  <2>1. CASE fresh
    <3>1. Session' \in unheard'
      BY <2>1, Arrives
    <3> QED
      BY <1>1, <3>1 DEF RouteInv, AnnouncedInOrder
  <2>2. CASE ~fresh
    <3>1. Session' = Session /\ ready' = ready /\ unheard' = unheard
      BY <2>2, Arrives
    <3> QED
      BY <1>1, <1>2, <3>1 DEF RouteInv, AnnouncedInOrder
  <2> QED
    BY <2>1, <2>2
<1>5. D!Next
  <2>1. CASE fresh
    <3>1. ready' = Append(ready, n)
      BY <2>1 DEF n
    <3>2. D!Miss
      BY <1>1, <1>2, <3>1, Zenon DEF D!Miss, n
    <3> QED
      BY <3>2 DEF D!Next
  <2>2. CASE ~fresh
    <3>1. D!Arrive
      BY <1>1, <1>2, <2>2, Zenon DEF D!Arrive, n
    <3> QED
      BY <3>1 DEF D!Next
  <2> QED
    BY <2>1, <2>2
<1> QED
  BY <1>1, <1>2, <1>3, <1>4, <1>5 DEF RouteInv

\* Steps that neither bring nor route a dispatch.
LEMMA RouteSame ==
  ASSUME RouteInv, QueueInv', last' = last, Live' = Live,
         UNCHANGED <<serial, arrived, ready, destroyed, unheard, announced>>,
         drain' = drain \/ drain # "ended"
  PROVE  RouteInv'
  BY DEF RouteInv, Numbered, AnnouncedInOrder, Session

LEMMA DrainStep ==
  ASSUME RouteInv, OwnTypes, Drain
  PROVE  /\ RouteInv' /\ announced' \in Seq(Sessions) /\ (Live = {} => Live' = {})
         /\ D!Next \/ UNCHANGED <<arrived, ready, Live, last>>
<1>1. UNCHANGED <<serial, arrived, ready, destroyed, unheard>>
  BY DEF Drain
<1>2. ASSUME NEW then \in {"running", "awaiting", "ended"}, Take(then), Announce(last')
      PROVE  /\ RouteInv' /\ announced' \in Seq(Sessions) /\ (Live = {} => Live' = {})
             /\ D!Next
  <2>1. /\ QueueInv' /\ drain # "ended" /\ last' \in Live
        /\ Live' = Live \ {last'} /\ \A m \in Live : last' <= m
    BY <1>2, TakeStep, Routed
  <2>2. last' \in Nat /\ last < last' /\ last' <= arrived
    BY <2>1, Routed DEF QueueInv, Sorted
  <2>3. Session' = Session /\ DOMAIN ready' = DOMAIN ready
    BY <1>1 DEF Session
  <2>4. /\ announced' \in Seq(Sessions)
        /\ \A i, j \in DOMAIN announced' : i < j => announced'[i] < announced'[j]
        /\ \A s \in Range(announced') : s <= Session' /\ ready'[s] <= last'
        /\ \A s \in DOMAIN ready' : ready'[s] = last' => s \in Range(announced')
        /\ Range(announced) \subseteq Range(announced')
    <3>1. \A s \in Range(announced) : s <= Session' /\ ready'[s] < last'
      <4> SUFFICES ASSUME NEW s \in Range(announced) PROVE s <= Session' /\ ready'[s] < last'
        OBVIOUS
      <4>1. s \in 1 .. Session /\ ready[s] <= last /\ ready[s] \in 1 .. arrived
        BY Routed
      <4> QED
        BY <1>1, <2>2, <2>3, <4>1, Routed
    <3>2. Session' <= MaxSessions
      BY <2>3 DEF OwnTypes
    <3>3. /\ \A s, t \in DOMAIN ready' : s < t => ready'[s] < ready'[t]
          /\ \A i, j \in DOMAIN announced : i < j => announced[i] < announced[j]
          /\ ready' \in Seq(Nat) /\ announced \in Seq(Sessions)
      BY <1>1, <2>3, Routed DEF RouteInv, AnnouncedInOrder
    <3> QED
      BY <1>2, <2>2, <3>1, <3>2, <3>3, AnnounceStep
  <2>5. Numbered'
    <3>1. \A m \in Live' : m <= arrived
      BY <2>1, Routed
    <3>2. serial
      BY <2>1 DEF RouteInv, Numbered
    <3>3. /\ \A s \in DOMAIN ready' : ready'[s] \in 1 .. arrived'
          /\ \A s, t \in DOMAIN ready' : s < t => ready'[s] < ready'[t]
      BY <1>1 DEF RouteInv, Numbered
    <3> QED
      BY <1>1, <2>2, <2>4, <3>1, <3>2, <3>3 DEF Numbered
  <2>6. AnnouncedInOrder'
    <3>1. ASSUME Session' > 0, ~destroyed'
          PROVE  Session' \in Range(announced') \cup unheard' \/ ready'[Session'] \in Live'
      <4>1. Session \in Range(announced) \cup unheard \/ ready[Session] \in Live
        BY <1>1, <2>3, <3>1 DEF RouteInv, AnnouncedInOrder
      <4>2. Session \in DOMAIN ready'
        BY <1>1, <2>3, <3>1, Routed
      <4> QED
        BY <1>1, <2>1, <2>3, <2>4, <4>1, <4>2
    <3> QED
      BY <2>4, <3>1 DEF AnnouncedInOrder
  <2>7. D!Next
    <3>1. D!Min(Live) = last'
      <4> DEFINE m == last'
      <4>1. m \in Live /\ (\A k \in Live : m <= k) /\ Live \subseteq Nat
        BY <2>1, Routed
      <4> HIDE DEF m
      <4>2. D!Min(Live) = m
        BY <4>1, LeastWaiting
      <4> QED
        BY <4>2 DEF m
    <3>2. D!Deliver
      BY <1>1, <2>1, <3>1 DEF D!Deliver
    <3> QED
      BY <3>2 DEF D!Next
  <2> QED
    BY <2>1, <2>4, <2>5, <2>6, <2>7 DEF RouteInv
<1>3. CASE TakeNone /\ announced' = announced
  <2>1. QueueInv' /\ last' = last /\ Live = {} /\ Live' = {} /\ drain # "ended"
    BY <1>3, TakeNoneStep, Routed
  <2> QED
    BY <1>1, <1>3, <2>1, RouteSame, Routed
<1>4. CASE Settle /\ announced' = announced
  <2>1. QueueInv' /\ last' = last /\ Live' = Live /\ drain # "ended"
    BY <1>4, SettleStep, Routed
  <2> QED
    BY <1>1, <1>4, <2>1, RouteSame, Routed
<1> QED
  BY <1>2, <1>3, <1>4 DEF Drain

\* What onGuildsReady may have been told after k sessions.
Entries(k) == [of : 1 .. k, during : Nat, unresolved : SUBSET Guilds, exact : BOOLEAN]
Trackers == [pending : SUBSET Guilds, armed : BOOLEAN, done : BOOLEAN]

\* The facts of SpeakInv that a step of the trackers needs.
LEMMA Spoken ==
  ASSUME SpeakInv, OwnTypes
  PROVE  /\ Session \in Nat /\ Session <= MaxSessions /\ MaxSessions \in Nat
         /\ Session > 0 => Session \in Sessions
         /\ GuildsToldOnce /\ told \in Seq(Entries(Session))
         /\ tracker \in [Sessions -> Trackers] /\ NoTracker \in Trackers
         /\ expected \in [Sessions -> SUBSET Guilds]
         /\ \A t \in Sessions :
              tracker[t] # NoTracker =>
                /\ t = Session /\ ~destroyed /\ \A i \in DOMAIN told : told[i].of # t
                /\ tracker[t] = [pending |-> expected[t], armed |-> TRUE, done |-> FALSE]
<1>1. Session \in Nat /\ Session <= MaxSessions /\ MaxSessions \in Nat
  BY BridgeAssumption DEF OwnTypes, Session
<1>2. Session > 0 => Session \in Sessions
  BY <1>1 DEF Sessions
<1>3. GuildsToldOnce /\ told \in Seq(Entries(Session))
  BY Zenon DEF SpeakInv, OneTracker, Entries
<1>4. /\ tracker \in [Sessions -> Trackers] /\ NoTracker \in Trackers
      /\ expected \in [Sessions -> SUBSET Guilds]
  BY DEF OwnTypes, Trackers, NoTracker
<1>5. \A t \in Sessions :
        tracker[t] # NoTracker =>
          /\ t = Session /\ ~destroyed /\ \A i \in DOMAIN told : told[i].of # t
          /\ tracker[t] = [pending |-> expected[t], armed |-> TRUE, done |-> FALSE]
  BY Zenon DEF SpeakInv, OneTracker
<1> QED
  BY <1>1, <1>2, <1>3, <1>4, <1>5

LEMMA MoreEntries ==
  ASSUME NEW k \in Nat, NEW l \in Nat, k <= l, NEW s \in Seq(Entries(k))
  PROVE  s \in Seq(Entries(l))
<1>1. Entries(k) \subseteq Entries(l)
  BY DEF Entries
<1> DEFINE A == Entries(k)
           B == Entries(l)
<1>2. A \subseteq B /\ s \in Seq(A)
  BY <1>1
<1> HIDE DEF A, B
<1>3. s \in Seq(B)
  BY <1>2
<1> QED
  BY <1>3 DEF B

LEMMA TellStep ==
  ASSUME SpeakInv, OwnTypes, NEW s, s = Session', s \in Nat, s > 0, Session <= s,
         \A i \in DOMAIN told : told[i].of # s,
         NEW missing \in SUBSET Guilds, missing = expected'[s], Tells(s, missing)
  PROVE  /\ told' \in Seq(Entries(Session')) /\ GuildsToldOnce'
         /\ \A t : t # s /\ (\A i \in DOMAIN told : told[i].of # t) =>
                     \A i \in DOMAIN told' : told'[i].of # t
<1> DEFINE e == [of |-> s, during |-> s, unresolved |-> missing, exact |-> TRUE]
           len == Len(told)
<1>1. told \in Seq(Entries(s))
  BY Spoken, MoreEntries
<1>2. told' = Append(told, e)
  <2>1. Len(ready') = s /\ (missing = expected'[s]) = TRUE
    BY DEF Session
  <2> QED
    BY <2>1, Zenon DEF Tells
<1>3. e \in Entries(s)
  BY DEF Entries
<1>4. e.of = s /\ e.during = s /\ e.exact
  OBVIOUS
<1> HIDE DEF e
<1>5. /\ told' \in Seq(Entries(s)) /\ DOMAIN told = 1 .. len /\ len \in Nat
      /\ DOMAIN told' = 1 .. len + 1 /\ told'[len + 1] = e
      /\ \A i \in 1 .. len : told'[i] = told[i]
  BY <1>1, <1>2, <1>3
<1> HIDE DEF len
<1>6. \A i \in DOMAIN told' : (i \in DOMAIN told /\ told'[i] = told[i]) \/ (i = len + 1 /\ told'[i] = e)
  BY <1>5
<1>7. GuildsToldOnce'
  <2>1. ASSUME NEW i \in DOMAIN told'
        PROVE  /\ told'[i].of = told'[i].during /\ told'[i].exact
               /\ \A j \in DOMAIN told' : told'[i].of = told'[j].of => i = j
    BY <1>4, <1>6, Spoken DEF GuildsToldOnce
  <2> QED
    BY <2>1, Zenon DEF GuildsToldOnce
<1> QED
  BY <1>4, <1>5, <1>6, <1>7

\* One tracker stops or goes on; the others are stopped.
LEMMA SpeakBy ==
  ASSUME told' \in Seq(Entries(Session')), GuildsToldOnce',
         \A t \in Sessions :
           tracker'[t] # NoTracker =>
             /\ t = Session' /\ ~destroyed' /\ \A i \in DOMAIN told' : told'[i].of # t
             /\ tracker'[t] = [pending |-> expected'[t], armed |-> TRUE, done |-> FALSE]
  PROVE  SpeakInv'
  BY DEF SpeakInv, OneTracker, Entries

LEMMA FewerPending ==
  ASSUME NEW r \in Trackers, NEW left \in SUBSET Guilds, r.armed = TRUE, r.done = FALSE
  PROVE  [r EXCEPT !.pending = left] = [pending |-> left, armed |-> TRUE, done |-> FALSE]
<1> DEFINE new == [r EXCEPT !.pending = left]
<1>1. new \in Trackers /\ new.pending = left /\ new.armed = TRUE /\ new.done = FALSE
  BY DEF Trackers
<1> HIDE DEF new
<1>2. new = [pending |-> left, armed |-> TRUE, done |-> FALSE]
  BY <1>1 DEF Trackers
<1> QED
  BY <1>2 DEF new

LEMMA ResolveStep ==
  ASSUME SpeakInv, OwnTypes, Session > 0, NEW g \in Guilds, Resolve(Session, g),
         expected' = [expected EXCEPT ![Session] = @ \ {g}], UNCHANGED <<ready, destroyed>>
  PROVE  /\ SpeakInv' /\ tracker' \in [Sessions -> Trackers] /\ guildsPending' \in BOOLEAN
<1> DEFINE s == Session
           left == tracker[s].pending \ {g}
<1>1. s \in Sessions /\ Session' = s /\ s \in Nat /\ guildsPending \in BOOLEAN
  BY Spoken DEF Session, OwnTypes
<1> HIDE DEF s
<1>2. expected' \in [Sessions -> SUBSET Guilds] /\ expected'[s] = expected[s] \ {g}
      /\ \A t \in Sessions : t # s => expected'[t] = expected[t]
  BY <1>1, Spoken DEF s
<1>3. tracker[s].done \/ tracker[s] = [pending |-> expected[s], armed |-> TRUE, done |-> FALSE]
  BY <1>1, Spoken DEF NoTracker
<1>4. \A t \in Sessions : t # s => tracker[t] = NoTracker
  BY <1>1, Spoken DEF s
<1>5. CASE tracker[s].done \/ g \notin tracker[s].pending
  <2>1. UNCHANGED <<tracker, guildsPending, told>>
    BY <1>5 DEF Resolve, s
  <2>2. tracker[s] # NoTracker => expected'[s] = expected[s]
    <3>1. tracker[s] # NoTracker => ~tracker[s].done /\ tracker[s].pending = expected[s]
      BY <1>1, Spoken
    <3> QED
      BY <1>2, <1>5, <3>1
  <2>3. told' \in Seq(Entries(Session')) /\ GuildsToldOnce'
    BY <1>1, <2>1, Spoken DEF GuildsToldOnce, s
  <2>4. ASSUME NEW t \in Sessions, tracker'[t] # NoTracker
        PROVE  /\ t = Session' /\ ~destroyed' /\ \A i \in DOMAIN told' : told'[i].of # t
               /\ tracker'[t] = [pending |-> expected'[t], armed |-> TRUE, done |-> FALSE]
    <3>1. t = s /\ tracker[s] # NoTracker
      BY <1>4, <2>1, <2>4
    <3> QED
      BY <1>1, <2>1, <2>2, <3>1, Spoken
  <2>5. SpeakInv'
    BY <2>3, <2>4, SpeakBy
  <2> QED
    BY <1>1, <2>1, <2>5, Spoken
<1>6. CASE ~tracker[s].done /\ g \in tracker[s].pending
  <2>1. tracker[s] = [pending |-> expected[s], armed |-> TRUE, done |-> FALSE]
        /\ tracker[s] # NoTracker
    BY <1>3, <1>6 DEF NoTracker
  <2>2. /\ left = expected'[s] /\ left \in SUBSET Guilds /\ ~destroyed
        /\ \A i \in DOMAIN told : told[i].of # s
    BY <1>1, <1>2, <2>1, Spoken
  <2>3. CASE left = {}
    <3>1. tracker' = [tracker EXCEPT ![s] = NoTracker] /\ guildsPending' = FALSE /\ Tells(s, {})
      BY <1>6, <2>3 DEF Resolve, s
    <3>2. \A t \in Sessions : tracker'[t] = NoTracker
      BY <1>4, <3>1, Spoken
    <3>3. told' \in Seq(Entries(Session')) /\ GuildsToldOnce'
      <4>1. {} \in SUBSET Guilds /\ {} = expected'[s]
        BY <2>2, <2>3
      <4>2. s = Session' /\ s > 0 /\ Session <= s
        BY <1>1 DEF s
      <4> QED
        BY <1>1, <2>2, <3>1, <4>1, <4>2, TellStep
    <3>4. SpeakInv'
      BY <3>2, <3>3, SpeakBy
    <3> QED
      BY <3>1, <3>4, Spoken
  <2>4. CASE left # {}
    <3>1. tracker' = [tracker EXCEPT ![s].pending = left] /\ UNCHANGED <<guildsPending, told>>
      BY <1>6, <2>4 DEF Resolve, s
    <3>2. /\ tracker'[s] = [pending |-> expected'[s], armed |-> TRUE, done |-> FALSE]
          /\ \A t \in Sessions : t # s => tracker'[t] = NoTracker
          /\ tracker' \in [Sessions -> Trackers]
      <4>1. tracker' = [tracker EXCEPT ![s] = [tracker[s] EXCEPT !.pending = left]]
        BY <3>1
      <4>2. [tracker[s] EXCEPT !.pending = left] = [pending |-> left, armed |-> TRUE, done |-> FALSE]
        <5>1. tracker[s] \in Trackers /\ tracker[s].armed = TRUE /\ tracker[s].done = FALSE
          <6>1. tracker[s] \in Trackers
            BY <1>1, Spoken
          <6>2. tracker[s].armed = TRUE /\ tracker[s].done = FALSE
            BY ONLY <2>1
          <6> QED
            BY <6>1, <6>2
        <5> QED
          BY <2>2, <5>1, FewerPending
      <4>3. [pending |-> left, armed |-> TRUE, done |-> FALSE] \in Trackers
        BY <2>2 DEF Trackers
      <4> QED
        BY <1>1, <1>4, <2>2, <4>1, <4>2, <4>3, Spoken
    <3>3. told' \in Seq(Entries(Session')) /\ GuildsToldOnce'
      BY <1>1, <3>1, Spoken DEF GuildsToldOnce, s
    <3>4. SpeakInv'
      BY <1>1, <2>2, <3>1, <3>2, <3>3, SpeakBy
    <3> QED
      BY <1>1, <3>1, <3>2, <3>4
  <2> QED
    BY <2>3, <2>4
<1> QED
  BY <1>5, <1>6

LEMMA IdleStep ==
  ASSUME SpeakInv, OwnTypes, NEW s \in Sessions, tracker[s].armed,
         tracker' = [tracker EXCEPT ![s] = NoTracker], Tells(s, tracker[s].pending),
         UNCHANGED <<ready, destroyed, expected>>
  PROVE  SpeakInv' /\ tracker' \in [Sessions -> Trackers]
<1>1. tracker[s] # NoTracker
  BY DEF NoTracker
<1>2. /\ s = Session /\ Session' = Session /\ ~destroyed /\ Session > 0 /\ s \in Nat
      /\ \A i \in DOMAIN told : told[i].of # s
      /\ tracker[s] = [pending |-> expected[s], armed |-> TRUE, done |-> FALSE]
  BY <1>1, Spoken DEF Session, Sessions
<1>3. \A t \in Sessions : tracker'[t] = NoTracker
  BY <1>2, Spoken
<1>4. told' \in Seq(Entries(Session')) /\ GuildsToldOnce'
  <2> DEFINE missing == tracker[s].pending
  <2>1. missing = expected'[s] /\ missing \in SUBSET Guilds /\ Tells(s, missing)
    BY <1>2, Spoken
  <2> HIDE DEF missing
  <2>2. s = Session' /\ s > 0 /\ Session <= s
    BY <1>2
  <2> QED
    BY <1>2, <2>1, <2>2, TellStep
<1>5. SpeakInv'
  BY <1>3, <1>4, SpeakBy
<1> QED
  BY <1>5, Spoken

LEMMA Stopped ==
  ASSUME SpeakInv, OwnTypes
  PROVE  StopOld = [t \in Sessions |-> NoTracker]
<1>1. \A t \in Sessions : t # Session => tracker[t] = NoTracker
  BY Spoken
<1>2. CASE Session = 0
  <2>1. \A t \in Sessions : t # Session
    BY <1>2 DEF Sessions
  <2> QED
    BY <1>1, <1>2, <2>1, Spoken DEF StopOld
<1>3. CASE Session # 0
  BY <1>1, <1>3, Spoken DEF StopOld
<1> QED
  BY <1>2, <1>3

LEMMA StartStep ==
  ASSUME SpeakInv, OwnTypes, NEW guilds \in Populations, Session < MaxSessions,
         StartTracker(guilds), expected' = [expected EXCEPT ![Session + 1] = guilds],
         Session' = Session + 1, ~destroyed, destroyed' = destroyed
  PROVE  /\ SpeakInv' /\ tracker' \in [Sessions -> Trackers] /\ guildsPending' \in BOOLEAN
         /\ expected' \in [Sessions -> SUBSET Guilds]
<1> DEFINE s == Session + 1
<1>1. /\ s \in Sessions /\ s \in Nat /\ s > 0 /\ Session <= s /\ Session \in Nat
      /\ guilds \in SUBSET Guilds
  BY Spoken, BridgeAssumption DEF Sessions
<1>2. /\ expected' \in [Sessions -> SUBSET Guilds] /\ expected'[s] = guilds
  BY <1>1, Spoken
<1>3. \A i \in DOMAIN told : told[i].of # s
  <2> SUFFICES ASSUME NEW i \in DOMAIN told PROVE told[i].of # s
    OBVIOUS
  <2>1. told[i] \in Entries(Session)
    BY Spoken
  <2>2. told[i].of \in 1 .. Session
    BY <2>1 DEF Entries
  <2> QED
    BY <1>1, <2>2
<1>4. StopOld = [t \in Sessions |-> NoTracker]
  BY Stopped
<1>5. CASE guilds = {}
  <2>1. tracker' = StopOld /\ guildsPending' = FALSE /\ Tells(s, {})
    BY <1>5 DEF StartTracker
  <2>2. told' \in Seq(Entries(Session')) /\ GuildsToldOnce'
    <3>1. {} \in SUBSET Guilds /\ {} = expected'[s] /\ s = Session'
      BY <1>2, <1>5
    <3> HIDE DEF s
    <3> QED
      BY <1>1, <1>3, <2>1, <3>1, TellStep
  <2>3. \A t \in Sessions : tracker'[t] = NoTracker
    BY <1>4, <2>1
  <2>4. SpeakInv'
    BY <2>2, <2>3, SpeakBy
  <2>5. tracker' \in [Sessions -> Trackers]
    BY <1>4, <2>1, Spoken
  <2> QED
    BY <1>2, <2>1, <2>4, <2>5
<1>6. CASE guilds # {}
  <2> DEFINE new == [pending |-> guilds, armed |-> TRUE, done |-> FALSE]
  <2>1. tracker' = [StopOld EXCEPT ![s] = new] /\ guildsPending' = TRUE /\ told' = told
    BY <1>6 DEF StartTracker
  <2>2. new \in Trackers
    BY <1>1 DEF Trackers
  <2>3. /\ tracker' \in [Sessions -> Trackers] /\ tracker'[s] = new
        /\ \A t \in Sessions : t # s => tracker'[t] = NoTracker
    <3> HIDE DEF new, s
    <3> QED
      BY <1>1, <1>4, <2>1, <2>2, Spoken
  <2>4. told' \in Seq(Entries(Session')) /\ GuildsToldOnce'
    <3>1. told \in Seq(Entries(s))
      BY <1>1, Spoken, MoreEntries
    <3> QED
      BY <2>1, <3>1, Spoken DEF GuildsToldOnce
  <2>5. SpeakInv'
    BY <1>2, <1>3, <2>1, <2>3, <2>4, SpeakBy
  <2> QED
    BY <1>2, <2>1, <2>3, <2>5
<1> QED
  BY <1>5, <1>6

\* Steps that no tracker sees.
LEMMA SpeakSame ==
  ASSUME SpeakInv, UNCHANGED <<ready, tracker, destroyed, expected, told>>
  PROVE  SpeakInv'
  BY DEF SpeakInv, GuildsToldOnce, OneTracker, Session

LEMMA QuietByTracker ==
  ASSUME BridgeInv
  PROVE  destroyed => \A s \in Sessions : tracker[s] = NoTracker
  BY DEF BridgeInv, SpeakInv, OneTracker

\* A destroyed bridge brings nothing back.
LEMMA StaysQuiet ==
  ASSUME SpeakInv', destroyed' => pending' = {} /\ Live' = {}
  PROVE  DestroyedIsQuiet'
<1>1. destroyed' => \A s \in Sessions : tracker'[s] = NoTracker
  BY DEF SpeakInv, OneTracker
<1>2. NoTracker.armed = FALSE
  BY DEF NoTracker
<1> QED
  BY <1>1, <1>2 DEF DestroyedIsQuiet

LEMMA BridgeStart == Init => BridgeInv /\ D!Init
<1> SUFFICES ASSUME Init PROVE BridgeInv /\ D!Init
  OBVIOUS
<1>1. QueueInv /\ Live = {} /\ ChunkerInv /\ drain = "ended" /\ last = 0
  BY QueueStart, ChunkerStart DEF Init, QueueInit
<1>2. MaxSessions \in Nat /\ Session = 0
  BY BridgeAssumption DEF Init, Session
<1>3. OwnTypes
  <2>1. ready \in Seq(Nat) /\ unheard \subseteq Sessions /\ announced \in Seq(Sessions)
    BY DEF Init
  <2>2. tracker \in [Sessions -> Trackers] /\ expected \in [Sessions -> SUBSET Guilds]
    BY DEF Init, NoTracker, Trackers
  <2>3. {serial, guildsPending, destroyed} \subseteq BOOLEAN
    BY DEF Init
  <2>4. arrived \in Nat /\ Session <= MaxSessions
    BY <1>2 DEF Init
  <2> QED
    BY <2>1, <2>2, <2>3, <2>4, Zenon DEF OwnTypes, Trackers
<1>4. RouteInv
  <2>1. DOMAIN ready = {} /\ DOMAIN announced = {} /\ Range(announced) = {}
    BY DEF Init, Range
  <2> QED
    BY <1>1, <1>2, <2>1 DEF RouteInv, Numbered, AnnouncedInOrder, Init
<1>5. SpeakInv
  <2>1. DOMAIN told = {} /\ told \in Seq(Entries(Session))
    BY DEF Init
  <2> QED
    BY <2>1 DEF SpeakInv, GuildsToldOnce, OneTracker, Init, Entries
<1>6. DestroyedIsQuiet
  BY DEF DestroyedIsQuiet, Init
<1>7. D!Init
  BY <1>1 DEF D!Init, Init
<1> QED
  BY <1>1, <1>3, <1>4, <1>5, <1>6, <1>7, Types DEF BridgeInv, QueueInv, ChunkerInv

\* What each step keeps, and what it is to Delivery.
Moves == D!Next \/ UNCHANGED <<arrived, ready, Live, last>>

LEMMA ReadyStep ==
  ASSUME BridgeInv, NEW guilds \in Populations, NEW throws \in BOOLEAN, Ready(guilds, throws)
  PROVE  BridgeInv' /\ Moves
<1>1. /\ RouteInv /\ ChunkerInv /\ SpeakInv /\ DestroyedIsQuiet /\ OwnTypes
  BY Types DEF BridgeInv
<1>2. /\ Session < MaxSessions /\ Reset /\ StartTracker(guilds)
      /\ IF throws THEN Lose ELSE Deliver(TRUE)
      /\ ready' = Append(ready, arrived + 1)
      /\ expected' = [expected EXCEPT ![Session + 1] = guilds]
      /\ unheard' = IF throws THEN unheard \cup {Session + 1} ELSE unheard
      /\ UNCHANGED <<serial, destroyed>>
  BY DEF Ready
<1>3. /\ Session \in Nat /\ Session' = Session + 1 /\ ready' \in Seq(Nat)
      /\ Session' <= MaxSessions /\ Session + 1 \in Sessions
  <2>1. arrived + 1 \in Nat /\ ready \in Seq(Nat) /\ MaxSessions \in Nat
    BY <1>1, Routed, BridgeAssumption
  <2>2. Session \in Nat /\ Session' = Session + 1 /\ ready' \in Seq(Nat)
    BY <1>2, <2>1, ReadyAppended
  <2> QED
    BY <1>2, <2>1, <2>2 DEF Sessions
<1>4. /\ RouteInv' /\ ~destroyed /\ arrived' \in Nat /\ announced' \in Seq(Sessions)
      /\ D!Next /\ unheard' \subseteq Sessions
  <2>1. ready' = IF TRUE THEN Append(ready, arrived + 1) ELSE ready
    BY <1>2
  <2>2. unheard \subseteq Sessions /\ announced \in Seq(Sessions)
    BY <1>1 DEF OwnTypes
  <2>3. CASE throws
    <3>1. unheard' = IF TRUE THEN unheard \cup {Session + 1} ELSE unheard
      BY <1>2, <2>3
    <3>2. /\ RouteInv' /\ ~destroyed /\ arrived' \in Nat /\ announced' = announced
          /\ D!Next
      BY <1>1, <1>2, <1>3, <2>1, <2>3, <3>1, LoseStep
    <3> QED
      BY <1>2, <1>3, <2>2, <2>3, <3>2
  <2>4. CASE ~throws
    <3>1. /\ RouteInv' /\ ~destroyed /\ arrived' \in Nat /\ announced' \in Seq(Sessions)
          /\ D!Next
      BY <1>1, <1>2, <1>3, <2>1, <2>4, DeliverStep
    <3> QED
      BY <1>2, <2>2, <2>4, <3>1
  <2> QED
    BY <2>3, <2>4
<1>5. ChunkerInv' /\ pending' = {}
  BY <1>1, <1>2, ResetStep
<1>6. /\ SpeakInv' /\ tracker' \in [Sessions -> Trackers] /\ guildsPending' \in BOOLEAN
      /\ expected' \in [Sessions -> SUBSET Guilds]
  BY <1>1, <1>2, <1>3, <1>4, StartStep
<1>7. OwnTypes'
  BY <1>1, <1>2, <1>3, <1>4, <1>6 DEF OwnTypes, Trackers
<1>8. DestroyedIsQuiet'
  BY <1>2, <1>4 DEF DestroyedIsQuiet
<1> QED
  BY <1>4, <1>5, <1>6, <1>7, <1>8, Types DEF BridgeInv, RouteInv, QueueInv, ChunkerInv, Moves

\* Any other dispatch.
LEMMA OtherDispatch ==
  ASSUME BridgeInv, Deliver(FALSE) \/ Lose, UNCHANGED <<serial, ready, destroyed, unheard>>,
         ChunkerInv', SpeakInv', tracker' \in [Sessions -> Trackers],
         guildsPending' \in BOOLEAN, expected' \in [Sessions -> SUBSET Guilds]
  PROVE  BridgeInv' /\ Moves
<1>1. RouteInv /\ OwnTypes /\ Session' = Session
  BY Types DEF BridgeInv, Session
<1>2. /\ RouteInv' /\ ~destroyed /\ arrived' \in Nat /\ announced' \in Seq(Sessions)
      /\ D!Next
  <2>1. ready' = IF FALSE THEN Append(ready, arrived + 1) ELSE ready
    OBVIOUS
  <2>2. Session' <= MaxSessions
    BY <1>1 DEF OwnTypes
  <2>3. CASE Deliver(FALSE)
    BY <1>1, <2>1, <2>2, <2>3, DeliverStep
  <2>4. CASE Lose
    <3>1. unheard' = IF FALSE THEN unheard \cup {Session + 1} ELSE unheard
      OBVIOUS
    <3>2. /\ RouteInv' /\ ~destroyed /\ arrived' \in Nat /\ announced' = announced
          /\ D!Next
      BY <1>1, <2>1, <2>2, <2>4, <3>1, LoseStep
    <3> QED
      BY <1>1, <3>2 DEF OwnTypes
  <2> QED
    BY <2>3, <2>4
<1>3. OwnTypes'
  BY <1>1, <1>2 DEF OwnTypes, Trackers
<1>4. DestroyedIsQuiet'
  BY <1>2 DEF DestroyedIsQuiet
<1> QED
  BY <1>2, <1>3, <1>4, Types DEF BridgeInv, RouteInv, QueueInv, ChunkerInv, Moves

LEMMA DestroyStep == ASSUME BridgeInv, Destroy PROVE BridgeInv' /\ Moves
<1>1. /\ RouteInv /\ ChunkerInv /\ SpeakInv /\ OwnTypes
  BY Types DEF BridgeInv
<1>2. /\ destroyed' = TRUE /\ tracker' = StopOld /\ Clear /\ Reset
      /\ UNCHANGED <<drain, last, serial, arrived, ready, guildsPending, expected, told, unheard,
                     announced>>
  BY DEF Destroy
<1>3. QueueInv' /\ Live' = {}
  <2>1. drain' \in {"ended", "running", "awaiting"}
    BY <1>1, <1>2 DEF RouteInv, QueueInv, QueueTypeOK
  <2> QED
    BY <1>1, <1>2, <2>1, ClearStep DEF RouteInv
<1>4. Session' = Session
  BY <1>2 DEF Session
<1>5. RouteInv'
  BY <1>1, <1>2, <1>3, <1>4 DEF RouteInv, Numbered, AnnouncedInOrder
<1>6. ChunkerInv' /\ pending' = {}
  BY <1>1, <1>2, ResetStep
<1>7. SpeakInv' /\ tracker' \in [Sessions -> Trackers]
  <2>1. tracker' = [t \in Sessions |-> NoTracker]
    BY <1>1, <1>2, Stopped
  <2>2. told' \in Seq(Entries(Session')) /\ GuildsToldOnce'
    BY <1>1, <1>2, <1>4, Spoken DEF GuildsToldOnce
  <2>3. \A t \in Sessions : tracker'[t] = NoTracker
    BY <2>1
  <2>4. SpeakInv'
    BY <2>2, <2>3, SpeakBy
  <2> QED
    BY <1>1, <2>1, <2>4, Spoken
<1>8. OwnTypes'
  BY <1>1, <1>2, <1>4, <1>7 DEF OwnTypes, Trackers
<1>9. DestroyedIsQuiet'
  BY <1>3, <1>6, <1>7, StaysQuiet
<1>10. Moves
  <2>1. D!Forget
    BY <1>2, <1>3 DEF D!Forget
  <2> QED
    BY <2>1 DEF D!Next, Moves
<1> QED
  BY <1>3, <1>5, <1>6, <1>7, <1>8, <1>9, <1>10, Types DEF BridgeInv, QueueInv, ChunkerInv

LEMMA BridgeStep == BridgeInv /\ [Next]_vars => BridgeInv' /\ Moves
<1> SUFFICES ASSUME BridgeInv, [Next]_vars PROVE BridgeInv' /\ Moves
  OBVIOUS
<1>0. /\ RouteInv /\ ChunkerInv /\ SpeakInv /\ DestroyedIsQuiet /\ OwnTypes
      /\ tracker \in [Sessions -> Trackers] /\ expected \in [Sessions -> SUBSET Guilds]
      /\ guildsPending \in BOOLEAN /\ gate \subseteq Guilds
  BY Types DEF BridgeInv, OwnTypes, Trackers, BridgeTypeOK, ChunkerTypeOK
<1>1. ASSUME NEW throws \in BOOLEAN, NEW guilds \in Populations, Ready(guilds, throws)
      PROVE  BridgeInv' /\ Moves
  BY <1>1, ReadyStep
<1>2. ASSUME NEW throws \in BOOLEAN, NEW g \in Guilds, Guild(g, throws)
      PROVE  BridgeInv' /\ Moves
  <2>1. /\ Session > 0 /\ expected' = [expected EXCEPT ![Session] = @ \ {g}]
        /\ Resolve(Session, g) /\ (Deliver(FALSE) \/ Lose)
        /\ UNCHANGED <<chunkerVars, serial, ready, destroyed, unheard>>
    BY <1>2 DEF Guild
  <2>2. ChunkerInv'
    BY <1>0, <2>1, ChunkerSame DEF chunkerVars
  <2>3. SpeakInv' /\ tracker' \in [Sessions -> Trackers] /\ guildsPending' \in BOOLEAN
    BY <1>0, <2>1, ResolveStep
  <2>4. expected' \in [Sessions -> SUBSET Guilds]
    <3>1. Session \in Sessions
      BY <1>0, <2>1, Spoken
    <3> QED
      BY <1>0, <2>1, <3>1
  <2> QED
    BY <2>1, <2>2, <2>3, <2>4, OtherDispatch
<1>3. ASSUME NEW r \in Requests, MembersChunk(r) \/ RateLimited(r) PROVE BridgeInv' /\ Moves
  <2>1. /\ HandleChunk(r) \/ HandleRateLimited(r)
        /\ Deliver(FALSE)
        /\ UNCHANGED <<serial, ready, tracker, guildsPending, destroyed, expected, told, unheard>>
    BY <1>3 DEF MembersChunk, RateLimited
  <2>2. ChunkerInv'
    BY <1>0, <2>1, ChunkStep, RateLimitedStep
  <2>3. SpeakInv'
    BY <1>0, <2>1, SpeakSame
  <2> QED
    BY <1>0, <2>1, <2>2, <2>3, OtherDispatch
<1>4. CASE Other
  <2>1. /\ Deliver(FALSE)
        /\ UNCHANGED <<chunkerVars, serial, ready, tracker, guildsPending, destroyed, expected, told,
                       unheard>>
    BY <1>4 DEF Other
  <2>2. ChunkerInv' /\ SpeakInv'
    BY <1>0, <2>1, ChunkerSame, SpeakSame DEF chunkerVars
  <2> QED
    BY <1>0, <2>1, <2>2, OtherDispatch
<1>5. CASE Drain
  <2>1. UNCHANGED <<chunkerVars, serial, arrived, ready, tracker, guildsPending, destroyed,
                    expected, told, unheard>>
    BY <1>5 DEF Drain
  <2>2. ChunkerInv' /\ SpeakInv' /\ pending' = pending
    BY <1>0, <2>1, ChunkerSame, SpeakSame DEF chunkerVars
  <2>3. RouteInv' /\ announced' \in Seq(Sessions) /\ (Live = {} => Live' = {}) /\ Moves
    BY <1>0, <1>5, DrainStep DEF Moves
  <2>4. DestroyedIsQuiet'
    <3>1. destroyed' => pending' = {} /\ Live' = {}
      BY <1>0, <2>1, <2>2, <2>3 DEF DestroyedIsQuiet
    <3> QED
      BY <2>2, <3>1, StaysQuiet
  <2>5. OwnTypes'
    BY <1>0, <2>1, <2>3 DEF OwnTypes, Session
  <2> QED
    BY <2>2, <2>3, <2>4, <2>5, Types DEF BridgeInv, RouteInv, QueueInv, ChunkerInv
<1>6. ASSUME UNCHANGED <<queueVars, serial, arrived, ready, destroyed, unheard, announced>>,
             ChunkerInv', SpeakInv', tracker' \in [Sessions -> Trackers],
             guildsPending' \in BOOLEAN, expected' = expected,
             destroyed => pending' = {}
      PROVE  BridgeInv' /\ Moves
  <2>1. UNCHANGED <<backlog, head, drain, last>>
    BY <1>6 DEF queueVars
  <2>2. Live' = Live /\ QueueInv'
    BY <1>0, <2>1 DEF Live, RouteInv, QueueInv, QueueTypeOK, Sorted
  <2>3. RouteInv'
    BY <1>0, <1>6, <2>1, <2>2, RouteSame
  <2>4. OwnTypes'
    BY <1>0, <1>6 DEF OwnTypes, Trackers, Session
  <2>5. DestroyedIsQuiet'
    <3>1. destroyed' => pending' = {} /\ Live' = {}
      BY <1>0, <1>6, <2>2 DEF DestroyedIsQuiet
    <3> QED
      BY <1>6, <3>1, StaysQuiet
  <2>6. Moves
    BY <1>6, <2>1, <2>2 DEF Moves
  <2> QED
    BY <1>6, <2>2, <2>3, <2>4, <2>5, <2>6, Types DEF BridgeInv, QueueInv, ChunkerInv
<1>7. CASE Members
  <2>1. UNCHANGED <<queueVars, serial, arrived, ready, tracker, guildsPending, destroyed,
                    expected, told, unheard, announced>>
    BY <1>7 DEF Members, bridgeVars
  <2>2. SpeakInv'
    BY <1>0, <2>1, SpeakSame
  <2>3. ChunkerInv' /\ (destroyed => pending' = {})
    <3>1. ASSUME NEW r \in Requests, FetchMembers(r) \/ Sent(r) \/ SendFails(r) \/ Timeout(r)
          PROVE  ChunkerInv' /\ (destroyed => pending' = {})
      <4>1. ChunkerInv'
        BY <1>0, <3>1, CallStep DEF FetchMembers
      <4>2. destroyed => pending' \subseteq pending
        BY <3>1 DEF FetchMembers, Sent, SendFails, Timeout, Reject
      <4> QED
        BY <1>0, <4>1, <4>2 DEF DestroyedIsQuiet
    <3>2. ASSUME NEW g \in Guilds, GateOpens(g)
          PROVE  ChunkerInv' /\ (destroyed => pending' = {})
      <4>1. UNCHANGED <<call, promise, pending, got, reply>> /\ gate' \subseteq Guilds
        BY <1>0, <3>2 DEF GateOpens
      <4> QED
        BY <1>0, <4>1, ChunkerSame DEF DestroyedIsQuiet
    <3> QED
      BY <1>7, <3>1, <3>2 DEF Members
  <2> QED
    BY <1>0, <1>6, <2>1, <2>2, <2>3
<1>8. CASE Destroy
  BY <1>8, DestroyStep
<1>9. ASSUME NEW s \in Sessions, Idle(s) PROVE BridgeInv' /\ Moves
  <2>1. /\ tracker[s].armed /\ tracker' = [tracker EXCEPT ![s] = NoTracker]
        /\ guildsPending' = FALSE /\ Tells(s, tracker[s].pending)
        /\ UNCHANGED <<queueVars, chunkerVars, serial, arrived, ready, destroyed, expected, unheard,
                       announced>>
    BY <1>9 DEF Idle
  <2>2. SpeakInv' /\ tracker' \in [Sessions -> Trackers]
    BY <1>0, <2>1, IdleStep
  <2>3. ChunkerInv' /\ (destroyed => pending' = {})
    BY <1>0, <2>1, ChunkerSame DEF chunkerVars, DestroyedIsQuiet
  <2> QED
    BY <1>6, <2>1, <2>2, <2>3
<1>10. CASE UNCHANGED vars
  <2>1. UNCHANGED <<queueVars, chunkerVars, serial, arrived, ready, tracker, guildsPending,
                    destroyed, expected, told, unheard, announced>>
    BY <1>10 DEF vars, bridgeVars
  <2>2. SpeakInv' /\ ChunkerInv' /\ (destroyed => pending' = {})
    BY <1>0, <2>1, SpeakSame, ChunkerSame DEF chunkerVars, DestroyedIsQuiet
  <2> QED
    BY <1>0, <1>6, <2>1, <2>2
<1> QED
  BY <1>1, <1>2, <1>3, <1>4, <1>5, <1>7, <1>8, <1>9, <1>10 DEF Next

LEMMA BridgeHolds == Spec => []BridgeInv
<1>1. Init => BridgeInv
  BY BridgeStart
<1>2. BridgeInv /\ [Next]_vars => BridgeInv'
  BY BridgeStep
<1> QED
  BY <1>1, <1>2, PTL DEF Spec

\* Whatever comes from the gateway and in what order, onReady hears of each session at
\* most once and in order, onGuildsReady once and of exactly the guilds that are missing,
\* and nobody hears anything after destroy() (ShardBridge, GuildReadyTracker).
THEOREM SessionsHear == Spec => []SessionsAreTold
<1>1. BridgeInv => SessionsAreTold
  BY DEF BridgeInv, RouteInv, SpeakInv, SessionsAreTold
<1> QED
  BY <1>1, BridgeHolds, PTL

\* MemberChunker resolves a request with its own whole reply or not at all, and keeps
\* an entry for exactly the requests whose callers wait.
THEOREM RepliesHold == Spec => []RepliesMatch
<1>1. BridgeInv => RepliesMatch
  BY DEF BridgeInv, ChunkerInv, InStep, WholeReply, RepliesMatch
<1> QED
  BY <1>1, BridgeHolds, PTL

\* DispatchQueue, as ShardBridge uses it, implements Delivery: one dispatch at a time,
\* in the order of arrival, and none of a session after its successor's READY, unless a
\* listener of shardGuildsReady kept that one from it.
THEOREM DeliveredInOrder == Spec => InOrder
<1>1. Init => D!Init
  BY BridgeStart
<1>2. BridgeInv /\ [Next]_vars => [D!Next]_<<arrived, ready, Live, last>>
  BY BridgeStep DEF Moves
<1> QED
  BY <1>1, <1>2, BridgeHolds, PTL DEF Spec, InOrder, D!Spec

-----------------------------------------------------------------------------
(* Permissions: type correctness.                                          *)

LEMMA PermissionsTypeInit == PermissionsInit => PermissionsTypeOK
BY FlagsAssumption, RolesAssumption
DEF PermissionsInit, PermissionsTypeOK, Overwrite

LEMMA PermissionsTypeStep ==
  PermissionsTypeOK /\ [PermissionsNext]_permissionsVars => PermissionsTypeOK'
<1> SUFFICES ASSUME PermissionsTypeOK, [PermissionsNext]_permissionsVars
             PROVE  PermissionsTypeOK'
  OBVIOUS
<1>1. ASSUME NEW r \in Roles, EditRole(r) PROVE PermissionsTypeOK'
  BY <1>1 DEF PermissionsTypeOK, EditRole, Edited
<1>2. ASSUME NEW t \in Roles \cup {member}, EditOverwrite(t) PROVE PermissionsTypeOK'
  <2>1. PICK flag \in Flags \ {Administrator}, allow \in BOOLEAN, deny \in BOOLEAN :
          overwrites' = [overwrites EXCEPT ![t] =
            [allow |-> IF allow THEN @.allow \cup {flag} ELSE @.allow \ {flag},
             deny |-> IF deny THEN @.deny \cup {flag} ELSE @.deny \ {flag}]]
    BY <1>2 DEF EditOverwrite
  <2>2. overwrites' \in [Roles \cup {member} -> Overwrite]
    BY <2>1 DEF PermissionsTypeOK, Overwrite
  <2>3. QED
    BY <1>2, <2>2 DEF PermissionsTypeOK, EditOverwrite, Edited
<1>3. CASE EditMember
  BY <1>3 DEF PermissionsTypeOK, EditMember, Edited
<1>4. CASE TimeoutRunsOut
  BY <1>4 DEF PermissionsTypeOK, TimeoutRunsOut
<1>5. CASE CacheChanges
  BY <1>5 DEF PermissionsTypeOK, CacheChanges, Edited, guildVars
<1>6. CASE UNCHANGED permissionsVars
  BY <1>6 DEF PermissionsTypeOK, permissionsVars, guildVars
<1>7. QED
  BY <1>1, <1>2, <1>3, <1>4, <1>5, <1>6 DEF PermissionsNext

\* Permissions, overwrites and the cached part of them are always sets of what they should be.
THEOREM PermissionsTypeCorrect == PermissionsSpec => []PermissionsTypeOK
BY PermissionsTypeInit, PermissionsTypeStep, PTL DEF PermissionsSpec

-----------------------------------------------------------------------------
(* The computation, against Discord's rule.                                *)

\* The base never exceeds the flags of the member's roles, unless they or owning the guild
\* give all of them, and is just that when the cache is complete.
LEMMA BaseIsSound ==
  ASSUME PermissionsTypeOK
  PROVE  /\ ComputeBasePermissions \subseteq Flags
         /\ Administrator \in ComputeBasePermissions => Privileged
         /\ \A flag \in ComputeBasePermissions :
              Privileged \/ \E r \in {everyone} \cup roles : flag \in permissions[r]
         /\ CacheComplete /\ Privileged => ComputeBasePermissions = Flags
         /\ CacheComplete =>
              \A r \in {everyone} \cup roles : permissions[r] \subseteq ComputeBasePermissions
<1> DEFINE bits == UNION {permissions[r] : r \in ({everyone} \cup roles) \cap cachedRoles}
<1>1. bits \subseteq Flags
  BY RolesAssumption DEF PermissionsTypeOK
<1>2. \A flag \in bits : \E r \in {everyone} \cup roles : flag \in permissions[r]
  OBVIOUS
<1>3. CacheComplete =>
        \A r \in {everyone} \cup roles : permissions[r] \subseteq bits
  BY DEF CacheComplete
<1>4. ComputeBasePermissions =
        IF (cachedGuild /\ owner) \/ Administrator \in bits THEN Flags ELSE bits
  BY DEF ComputeBasePermissions
<1> HIDE DEF bits
<1>5. Administrator \in Flags
  BY FlagsAssumption
<1>6. CacheComplete => cachedGuild
  BY DEF CacheComplete
<1>7. \A r \in {everyone} \cup roles : permissions[r] \subseteq Flags
  BY RolesAssumption DEF PermissionsTypeOK
<1>8. QED
  BY <1>1, <1>2, <1>3, <1>4, <1>5, <1>6, <1>7 DEF Privileged

\* For a member without Administrator the overwrites leave a flag if and only if the most
\* specific one that mentions it does.
LEMMA OverwritesAreSound ==
  ASSUME NEW base, Administrator \notin base, NEW flag
  PROVE  flag \in ComputeOverwrites(base) <=>
           \/ flag \in overwrites[member].allow
           \/ /\ flag \notin overwrites[member].deny
              /\ \/ \E r \in roles : flag \in overwrites[r].allow
                 \/ /\ \A r \in roles : flag \notin overwrites[r].deny
                    /\ \/ flag \in overwrites[everyone].allow
                       \/ flag \notin overwrites[everyone].deny /\ flag \in base
<1> DEFINE guildWide == Apply(base, overwrites[everyone].allow, overwrites[everyone].deny)
           allowed == UNION {overwrites[r].allow : r \in roles}
           denied == UNION {overwrites[r].deny : r \in roles}
           byRoles == Apply(guildWide, allowed, denied)
<1>1. flag \in guildWide <=> \/ flag \in overwrites[everyone].allow
                             \/ flag \notin overwrites[everyone].deny /\ flag \in base
  BY DEF Apply
<1>2. flag \in allowed <=> \E r \in roles : flag \in overwrites[r].allow
  OBVIOUS
<1>3. flag \in denied <=> \E r \in roles : flag \in overwrites[r].deny
  OBVIOUS
<1>4. ComputeOverwrites(base) =
        Apply(byRoles, overwrites[member].allow, overwrites[member].deny)
  BY DEF ComputeOverwrites
<1>5. flag \in byRoles <=> flag \in allowed \/ (flag \notin denied /\ flag \in guildWide)
  <2> HIDE DEF guildWide, allowed, denied
  <2> QED BY DEF Apply
<1>6. flag \in ComputeOverwrites(base) <=>
        \/ flag \in overwrites[member].allow
        \/ flag \notin overwrites[member].deny /\ flag \in byRoles
  <2> HIDE DEF byRoles
  <2> QED BY <1>4 DEF Apply
<1> HIDE DEF guildWide, allowed, denied, byRoles
<1>7. QED
  BY <1>1, <1>2, <1>3, <1>5, <1>6

\* What permissionsIn grants without a timeout is what Discord grants, or less if the cache is
\* incomplete.
LEMMA ComputationIsSound ==
  ASSUME PermissionsTypeOK, NEW flag \in Flags
  PROVE  LET granted == ComputeOverwrites(ComputeBasePermissions)
             entitled ==
               \/ Privileged
               \/ flag \in overwrites[member].allow
               \/ /\ flag \notin overwrites[member].deny
                  /\ \/ \E r \in roles : flag \in overwrites[r].allow
                     \/ /\ \A r \in roles : flag \notin overwrites[r].deny
                        /\ \/ flag \in overwrites[everyone].allow
                           \/ /\ flag \notin overwrites[everyone].deny
                              /\ \E r \in {everyone} \cup roles : flag \in permissions[r]
         IN /\ flag \in granted => entitled
            /\ CacheComplete /\ entitled => flag \in granted
            /\ Administrator \in granted => Privileged
<1> DEFINE base == ComputeBasePermissions
           granted == ComputeOverwrites(base)
           byRole(f) == \E r \in {everyone} \cup roles : f \in permissions[r]
<1>1. CASE Administrator \in base
  <2>1. granted = Flags
    BY <1>1 DEF ComputeOverwrites
  <2>2. Privileged
    BY <1>1, BaseIsSound
  <2>3. QED
    BY <2>1, <2>2
<1>2. CASE Administrator \notin base
  <2>1. CacheComplete => ~Privileged
    BY <1>2, BaseIsSound, FlagsAssumption
  <2>2. flag \in base => Privileged \/ byRole(flag)
    BY BaseIsSound
  <2>3. CacheComplete /\ byRole(flag) => flag \in base
    BY BaseIsSound
  <2>4. flag \in granted <=>
          \/ flag \in overwrites[member].allow
          \/ /\ flag \notin overwrites[member].deny
             /\ \/ \E r \in roles : flag \in overwrites[r].allow
                \/ /\ \A r \in roles : flag \notin overwrites[r].deny
                   /\ \/ flag \in overwrites[everyone].allow
                      \/ flag \notin overwrites[everyone].deny /\ flag \in base
    BY <1>2, OverwritesAreSound
  <2>5. Administrator \notin granted
    <3>1. /\ Administrator \notin overwrites[member].allow
          /\ Administrator \notin overwrites[everyone].allow
          /\ \A r \in roles : Administrator \notin overwrites[r].allow
      BY RolesAssumption DEF PermissionsTypeOK, Overwrite
    <3>2. QED
      BY <1>2, <3>1, OverwritesAreSound
  <2> HIDE DEF base, granted, byRole
  <2>6. /\ flag \in granted =>
             \/ Privileged
             \/ flag \in overwrites[member].allow
             \/ /\ flag \notin overwrites[member].deny
                /\ \/ \E r \in roles : flag \in overwrites[r].allow
                   \/ /\ \A r \in roles : flag \notin overwrites[r].deny
                      /\ \/ flag \in overwrites[everyone].allow
                         \/ flag \notin overwrites[everyone].deny /\ byRole(flag)
        /\ /\ CacheComplete
           /\ \/ flag \in overwrites[member].allow
              \/ /\ flag \notin overwrites[member].deny
                 /\ \/ \E r \in roles : flag \in overwrites[r].allow
                    \/ /\ \A r \in roles : flag \notin overwrites[r].deny
                       /\ \/ flag \in overwrites[everyone].allow
                          \/ flag \notin overwrites[everyone].deny /\ byRole(flag)
           => flag \in granted
    BY <2>2, <2>3, <2>4
  <2>7. QED
    BY <2>1, <2>5, <2>6 DEF base, granted, byRole
<1>3. QED
  BY <1>1, <1>2

LEMMA NeverOverstatedInvariant == PermissionsTypeOK => NeverOverstated
<1> SUFFICES ASSUME PermissionsTypeOK, NEW flag \in Flags
             PROVE  /\ Has(PermissionsIn, flag) => Entitled(flag)
                    /\ CacheComplete /\ Entitled(flag) => Has(PermissionsIn, flag)
  BY DEF NeverOverstated
<1>1. CASE timeout = "running"
  <2>1. Administrator \notin PermissionsIn
    BY <1>1, FlagsAssumption DEF PermissionsIn, ApplyTimeout
  <2>2. flag \in PermissionsIn <=>
          flag \in ComputeOverwrites(ComputeBasePermissions) /\ flag \in Spared
    BY <1>1 DEF PermissionsIn, ApplyTimeout
  <2>3. QED
    BY <1>1, <2>1, <2>2, ComputationIsSound DEF Entitled, Has
<1>2. CASE timeout # "running"
  <2>1. PermissionsIn = ComputeOverwrites(ComputeBasePermissions)
    BY <1>2 DEF PermissionsIn, ApplyTimeout
  <2>2. QED
    BY <1>2, <2>1, ComputationIsSound DEF Entitled, Has
<1>3. QED
  BY <1>1, <1>2

\* permissionsIn never says a member has a permission that Discord would refuse, whatever the
\* cache lacks, and is Discord's answer when it lacks nothing.
THEOREM PermissionsAreSound == PermissionsSpec => []NeverOverstated
BY PermissionsTypeCorrect, NeverOverstatedInvariant, PTL

-----------------------------------------------------------------------------
(* The tables of the structures.                                           *)

ShapeOf(c, f) == IF f \in AlwaysLists[c] THEN List ELSE Plain

\* A class builds each field as its payload says.
Builds(c) ==
  /\ AlwaysLists[c] \subseteq Lists /\ "partial" \notin DOMAIN Constructor[c]
  /\ \A f \in DOMAIN Constructor[c] : Constructor[c][f] = ShapeOf(c, f)

\* Its patch treats a field as the constructor does, leaves alone what may be absent because it
\* is unchanged, and only that, and records the changes that the types promise, and no others.
RecordsAs(f, way) ==
  \/ way.records = "identity" /\ f \notin Objects
  \/ way.records = "contents"
  \/ way.records = "any" /\ f \in {"attachments", "embeds"}
PatchesField(c, f, way) ==
  /\ way.value = ShapeOf(c, f)
  /\ \/ way.assigns = "always" /\ f \notin Partial[c]
     \/ way.assigns = "ifSent" /\ (f \in Optional[c] => f \in Partial[c])
  /\ \/ c = "VoiceState"
     \/ f \in ChangeField[c] /\ RecordsAs(f, way)
     \/ f \notin ChangeField[c] /\ way.records = "never"
Patches(c) ==
  /\ DOMAIN Constructor[c] \ {"user", "member"} \subseteq DOMAIN PatchOf[c]
  /\ ChangeField[c] \subseteq DOMAIN PatchOf[c]
  /\ DOMAIN PatchOf[c] \subseteq DOMAIN Constructor[c]
  /\ c = "VoiceState" => CloneVoiceState = ChangeField[c]
  /\ \A f \in DOMAIN PatchOf[c] : PatchesField(c, f, PatchOf[c][f])

LEMMA ClassesAre ==
  /\ DOMAIN ChannelConstructor =
       {"Text", "Announcement", "Voice", "Category", "Forum", "Media", "Thread", "DM",
        "GroupDM"}
  /\ DOMAIN PatchOf = DOMAIN ChannelConstructor \cup
       {"User", "ClientUser", "Role", "Guild", "GuildMember", "Message", "Presence",
        "VoiceState", "Emoji", "Sticker", "GuildScheduledEvent"}
  /\ Classes = DOMAIN PatchOf \cup
       {"StageInstance", "Invite", "AuditLogEntry", "AutoModerationRule",
        "AutoModerationActionExecution", "Activity", "Interaction"}
  BY DEF ++, Classes, Constructor, ChannelConstructor, PatchOf

LEMMA ChannelClassesAre == ChannelClasses = DOMAIN ChannelConstructor
<1>1. ASSUME NEW type \in ChannelTypes, NEW g \in BOOLEAN, CreateChannel(type, g) # "none"
      PROVE  CreateChannel(type, g) \in DOMAIN ChannelConstructor
  BY <1>1, ClassesAre DEF ChannelTypes, CreateChannel
<1>2. ASSUME NEW c \in DOMAIN ChannelConstructor
      PROVE  c # "none" /\ \E type \in ChannelTypes : CreateChannel(type, TRUE) = c
  BY <1>2, ClassesAre DEF ChannelTypes, CreateChannel
<1>3. ASSUME NEW c \in ChannelClasses PROVE c \in DOMAIN ChannelConstructor
  <2>1. PICK type \in ChannelTypes, g \in BOOLEAN : c = CreateChannel(type, g)
    BY DEF ChannelClasses
  <2>2. CreateChannel(type, g) # "none"
    BY <2>1 DEF ChannelClasses
  <2> QED
    BY <2>1, <2>2, <1>1
<1>4. ASSUME NEW c \in DOMAIN ChannelConstructor PROVE c \in ChannelClasses
  <2>1. PICK type \in ChannelTypes : CreateChannel(type, TRUE) = c
    BY <1>2
  <2>2. \E t \in ChannelTypes, g \in BOOLEAN : c = CreateChannel(t, g)
    <3> WITNESS type \in ChannelTypes, TRUE \in BOOLEAN
    <3> QED
      BY <2>1
  <2>3. c # "none"
    BY <1>2
  <2> QED
    BY <2>2, <2>3 DEF ChannelClasses
<1> QED
  BY <1>3, <1>4

\* The classes of channels have one another's tables and something beside them.
ChannelLists == {"permissionOverwrites", "appliedTags", "availableTags", "recipients"}
ChannelShape(f) == IF f \in ChannelLists THEN List ELSE Plain
ChannelPatches(f, way) ==
  /\ f \in ChannelFields \cup ChannelLists
  /\ way.value = ChannelShape(f) /\ way.assigns = "always"
  /\ \/ f \in ChannelFields /\ RecordsAs(f, way)
     \/ f \notin ChannelFields /\ way.records = "never"
ChannelTables(new, patch) ==
  /\ DOMAIN new = DOMAIN patch
  /\ \A f \in DOMAIN new : new[f] = ChannelShape(f) /\ ChannelPatches(f, patch[f])

LEMMA Beside ==
  ASSUME NEW new, NEW patch, ChannelTables(new, patch), NEW S, NEW v, NEW way,
         \A f \in S : v = ChannelShape(f) /\ ChannelPatches(f, way)
  PROVE  ChannelTables(new ++ Each(S, v), patch ++ Each(S, way))
BY DEF ++, ChannelTables, Each

LEMMA UserTables == Builds("User") /\ Patches("User")
<1>1. Constructor["User"] = NewUser
  BY DEF ++, Constructor, ChannelConstructor
<1>2. AlwaysLists["User"] = {}
  BY ClassesAre, ChannelClassesAre DEF ++, AlwaysLists
<1>3. PatchOf["User"] = PatchUser
  BY DEF PatchOf
<1>4. ChangeField["User"] = UserChangeField
  BY ClassesAre, ChannelClassesAre DEF ++, ChangeField, PatchOf
<1>5. Optional["User"] = APIUser
  BY ClassesAre, ChannelClassesAre DEF ++, Optional
<1>6. Partial["User"] = {}
  BY ClassesAre, ChannelClassesAre DEF ++, Partial
<1> QED
  BY <1>1, <1>2, <1>3, <1>4, <1>5, <1>6
    DEF ++, ShapeOf, Builds, Lists, Objects, Patches, PatchesField, RecordsAs, NewUser, Each,
        Plain, PatchUser, Whole, Patching, UserChangeField, APIUser, List

LEMMA ClientUserTables == Builds("ClientUser") /\ Patches("ClientUser")
<1>1. Constructor["ClientUser"] = NewClientUser
  BY DEF ++, Constructor, ChannelConstructor
<1>2. AlwaysLists["ClientUser"] = {}
  BY ClassesAre, ChannelClassesAre DEF ++, AlwaysLists
<1>3. PatchOf["ClientUser"] = PatchClientUser
  BY DEF PatchOf
<1>4. ChangeField["ClientUser"] = ClientUserChangeField
  BY ClassesAre, ChannelClassesAre DEF ++, ChangeField, PatchOf
<1>5. Optional["ClientUser"] = APIUser
  BY ClassesAre, ChannelClassesAre DEF ++, Optional
<1>6. Partial["ClientUser"] = {}
  BY ClassesAre, ChannelClassesAre DEF ++, Partial
<1> QED
  BY <1>1, <1>2, <1>3, <1>4, <1>5, <1>6
    DEF ++, ShapeOf, Builds, Lists, Objects, Patches, PatchesField, RecordsAs, NewClientUser,
        NewUser, Each, Plain, PatchClientUser, PatchUser, Whole, Patching,
        ClientUserChangeField, UserChangeField, APIUser, List

LEMMA RoleTables == Builds("Role") /\ Patches("Role")
<1>1. Constructor["Role"] = NewRole
  BY DEF ++, Constructor, ChannelConstructor
<1>2. AlwaysLists["Role"] = {}
  BY ClassesAre, ChannelClassesAre DEF ++, AlwaysLists
<1>3. PatchOf["Role"] = PatchRole
  BY DEF PatchOf
<1>4. ChangeField["Role"] = RoleChangeField
  BY ClassesAre, ChannelClassesAre DEF ++, ChangeField, PatchOf
<1>5. Optional["Role"] = APIRole
  BY ClassesAre, ChannelClassesAre DEF ++, Optional
<1>6. Partial["Role"] = {}
  BY ClassesAre, ChannelClassesAre DEF ++, Partial
<1> QED
  BY <1>1, <1>2, <1>3, <1>4, <1>5, <1>6
    DEF ++, ShapeOf, Builds, Lists, Objects, Patches, PatchesField, RecordsAs, NewRole, Each,
        Plain, PatchRole, Whole, Patching, WholeAlike, RoleChangeField, APIRole, List

LEMMA GuildTables == Builds("Guild") /\ Patches("Guild")
<1>1. Constructor["Guild"] = NewGuild
  BY DEF ++, Constructor, ChannelConstructor
<1>2. AlwaysLists["Guild"] = {}
  BY ClassesAre, ChannelClassesAre DEF ++, AlwaysLists
<1>3. PatchOf["Guild"] = PatchGuild
  BY DEF PatchOf
<1>4. ChangeField["Guild"] = GuildChangeField
  BY ClassesAre, ChannelClassesAre DEF ++, ChangeField, PatchOf
<1>5. Optional["Guild"] = APIGuild \cup GuildCreateExtraFields
  BY ClassesAre, ChannelClassesAre DEF ++, Optional
<1>6. Partial["Guild"] = GuildCreateExtraFields
  BY ClassesAre, ChannelClassesAre DEF ++, Partial
<1>7. Builds("Guild")
  BY <1>1, <1>2
    DEF ++, ShapeOf, Builds, Lists, NewGuild, Each, Plain, List
<1>8. /\ DOMAIN NewGuild \ {"user", "member"} \subseteq DOMAIN PatchGuild
      /\ DOMAIN PatchGuild \subseteq DOMAIN NewGuild
  BY
    DEF ++, NewGuild, Each, Plain, PatchGuild, Whole, Patching, WholeAlike, Kept, List
<1>9. GuildChangeField \subseteq DOMAIN PatchGuild
  BY
    DEF ++, GuildChangeField, PatchGuild, Each, Whole, Patching, Plain, WholeAlike, Kept, List
<1>10. ASSUME NEW f \in DOMAIN PatchGuild PROVE PatchesField("Guild", f, PatchGuild[f])
  <2>1. \/ PatchGuild[f] = WholeAlike /\ f = "features"
        \/ PatchGuild[f] = Kept /\ f \in GuildCreateExtraFields
        \/ PatchGuild[f] = Whole /\ f \notin Objects \cup GuildCreateExtraFields
    BY DEF ++, PatchGuild, Each, GuildCreateExtraFields, Objects, Lists
  <2>2. f \in GuildChangeField
    BY DEF ++, PatchGuild, Each, GuildChangeField
  <2>3. GuildCreateExtraFields \cap Objects = {} /\ "features" \notin GuildCreateExtraFields
    BY DEF GuildCreateExtraFields, Objects, Lists
  <2>4. ShapeOf("Guild", f) = Plain
    BY <1>2 DEF ShapeOf
  <2> QED
    BY <1>4, <1>5, <1>6, <2>1, <2>2, <2>3, <2>4
      DEF PatchesField, RecordsAs, Whole, WholeAlike, Kept, Patching
<1> QED
  BY <1>1, <1>2, <1>3, <1>4, <1>5, <1>6, <1>7, <1>8, <1>9, <1>10 DEF Patches

LEMMA GuildMemberTables == Builds("GuildMember") /\ Patches("GuildMember")
<1>1. Constructor["GuildMember"] = NewGuildMember
  BY DEF ++, Constructor, ChannelConstructor
<1>2. AlwaysLists["GuildMember"] = {}
  BY ClassesAre, ChannelClassesAre DEF ++, AlwaysLists
<1>3. PatchOf["GuildMember"] = PatchGuildMember
  BY DEF PatchOf
<1>4. ChangeField["GuildMember"] = GuildMemberChangeField
  BY ClassesAre, ChannelClassesAre DEF ++, ChangeField, PatchOf
<1>5. Optional["GuildMember"] = GuildMemberUpdate
  BY ClassesAre, ChannelClassesAre DEF ++, Optional
<1>6. Partial["GuildMember"] = GuildMemberUpdate
  BY ClassesAre, ChannelClassesAre DEF ++, Partial
<1>7. Builds("GuildMember")
  BY <1>1, <1>2 DEF ShapeOf, Builds, Lists, NewGuildMember, Each
<1>8. /\ DOMAIN NewGuildMember \ {"user", "member"} \subseteq DOMAIN PatchGuildMember
      /\ DOMAIN PatchGuildMember \subseteq DOMAIN NewGuildMember
      /\ GuildMemberChangeField \subseteq DOMAIN PatchGuildMember
  BY DEF ++, NewGuildMember, Each, PatchGuildMember, GuildMemberChangeField
<1>9. ASSUME NEW f \in DOMAIN PatchGuildMember
      PROVE  PatchesField("GuildMember", f, PatchGuildMember[f])
  <2>1. \/ PatchGuildMember[f] = KeptQuiet /\ f = "user"
        \/ PatchGuildMember[f] = WholeAlike /\ f = "roles"
        \/ PatchGuildMember[f] = Kept /\ f \notin Objects \cup {"user", "roles"}
    BY DEF ++, PatchGuildMember, Each, Objects, Lists
  <2>2. /\ f # "roles" => f \in GuildMemberUpdate
        /\ f # "user" => f \in GuildMemberChangeField
    BY DEF ++, PatchGuildMember, Each, GuildMemberUpdate, GuildMemberChangeField
  <2>3. "user" \notin GuildMemberChangeField /\ "roles" \notin GuildMemberUpdate
    BY DEF GuildMemberChangeField, GuildMemberUpdate
  <2>4. ShapeOf("GuildMember", f) = Plain
    BY <1>2 DEF ShapeOf
  <2> QED
    BY <1>4, <1>5, <1>6, <2>1, <2>2, <2>3, <2>4
      DEF PatchesField, RecordsAs, Kept, WholeAlike, KeptQuiet, Patching
<1> QED
  BY <1>1, <1>2, <1>3, <1>4, <1>5, <1>6, <1>7, <1>8, <1>9 DEF Patches

LEMMA MessageTables == Builds("Message") /\ Patches("Message")
<1>1. Constructor["Message"] = NewMessage
  BY DEF ++, Constructor, ChannelConstructor
<1>2. AlwaysLists["Message"] = {}
  BY ClassesAre, ChannelClassesAre DEF ++, AlwaysLists
<1>3. PatchOf["Message"] = PatchMessage
  BY DEF PatchOf
<1>4. ChangeField["Message"] = MessageChangeField
  BY ClassesAre, ChannelClassesAre DEF ++, ChangeField, PatchOf
<1>5. Optional["Message"] = MessageUpdateFields
  BY ClassesAre, ChannelClassesAre DEF ++, Optional
<1>6. Partial["Message"] = MessageUpdateFields
  BY ClassesAre, ChannelClassesAre DEF ++, Partial
<1>7. Builds("Message")
  BY <1>1, <1>2
    DEF ++, ShapeOf, Builds, Lists, NewMessage, Each, Plain, List
<1>8. /\ DOMAIN NewMessage \ {"user", "member"} \subseteq DOMAIN PatchMessage
      /\ DOMAIN PatchMessage \subseteq DOMAIN NewMessage
  BY
    DEF ++, NewMessage, Each, Plain, PatchMessage, Kept, Patching, KeptAlike, Fresh, KeptQuiet,
        List
<1>9. MessageChangeField \subseteq DOMAIN PatchMessage
  BY
    DEF ++, MessageChangeField, PatchMessage, Each, Kept, Patching, Plain, KeptAlike, Fresh,
        KeptQuiet, List
<1>10. ASSUME NEW f \in DOMAIN PatchMessage PROVE PatchesField("Message", f, PatchMessage[f])
  <2>1. \/ PatchMessage[f] = KeptQuiet /\ f = "author"
        \/ /\ f \in MessageChangeField
           /\ \/ PatchMessage[f] = KeptAlike
              \/ PatchMessage[f] = Fresh /\ f \in {"attachments", "embeds"}
              \/ PatchMessage[f] = Kept /\ f \notin Objects
    BY DEF ++, PatchMessage, Each, MessageChangeField, Objects, Lists
  <2>2. f \in MessageUpdateFields
    BY <1>8 DEF MessageUpdateFields
  <2>3. "author" \notin MessageChangeField
    BY DEF MessageChangeField
  <2>4. ShapeOf("Message", f) = Plain
    BY <1>2 DEF ShapeOf
  <2> QED
    BY <1>4, <1>5, <1>6, <2>1, <2>2, <2>3, <2>4
      DEF PatchesField, RecordsAs, Kept, KeptAlike, KeptQuiet, Fresh, Patching
<1> QED
  BY <1>1, <1>2, <1>3, <1>4, <1>5, <1>6, <1>7, <1>8, <1>9, <1>10 DEF Patches

LEMMA PresenceTables == Builds("Presence") /\ Patches("Presence")
<1>1. Constructor["Presence"] = NewPresence
  BY DEF ++, Constructor, ChannelConstructor
<1>2. AlwaysLists["Presence"] = {}
  BY ClassesAre, ChannelClassesAre DEF ++, AlwaysLists
<1>3. PatchOf["Presence"] = PatchPresence
  BY DEF PatchOf
<1>4. ChangeField["Presence"] = PresenceChangeField
  BY ClassesAre, ChannelClassesAre DEF ++, ChangeField, PatchOf
<1>5. Optional["Presence"] = {}
  BY ClassesAre, ChannelClassesAre DEF ++, Optional
<1>6. Partial["Presence"] = {}
  BY ClassesAre, ChannelClassesAre DEF ++, Partial
<1> QED
  BY <1>1, <1>2, <1>3, <1>4, <1>5, <1>6
    DEF ++, ShapeOf, Builds, Lists, Objects, Patches, PatchesField, RecordsAs, NewPresence,
        Each, Plain, PatchPresence, Whole, Patching, WholeAlike, Quiet, PresenceChangeField,
        List

LEMMA VoiceStateTables == Builds("VoiceState") /\ Patches("VoiceState")
<1>1. Constructor["VoiceState"] = NewVoiceState
  BY DEF ++, Constructor, ChannelConstructor
<1>2. AlwaysLists["VoiceState"] = {}
  BY ClassesAre, ChannelClassesAre DEF ++, AlwaysLists
<1>3. PatchOf["VoiceState"] = PatchVoiceState
  BY DEF PatchOf
<1>4. ChangeField["VoiceState"] = CloneVoiceState
  BY ClassesAre, ChannelClassesAre DEF ++, ChangeField, PatchOf
<1>5. Optional["VoiceState"] = APIVoiceState
  BY ClassesAre, ChannelClassesAre DEF ++, Optional
<1>6. Partial["VoiceState"] = {}
  BY ClassesAre, ChannelClassesAre DEF ++, Partial
<1> QED
  BY <1>1, <1>2, <1>3, <1>4, <1>5, <1>6
    DEF ++, ShapeOf, Builds, Lists, Objects, Patches, PatchesField, RecordsAs, NewVoiceState,
        Each, Plain, PatchVoiceState, Quiet, Patching, CloneVoiceState, APIVoiceState, List

LEMMA EmojiTables == Builds("Emoji") /\ Patches("Emoji")
<1>1. Constructor["Emoji"] = NewEmoji
  BY DEF ++, Constructor, ChannelConstructor
<1>2. AlwaysLists["Emoji"] = {"roles"}
  BY ClassesAre, ChannelClassesAre DEF ++, AlwaysLists
<1>3. PatchOf["Emoji"] = PatchEmoji
  BY DEF PatchOf
<1>4. ChangeField["Emoji"] = {}
  BY ClassesAre, ChannelClassesAre DEF ++, ChangeField, PatchOf
<1>5. Optional["Emoji"] = APIEmoji
  BY ClassesAre, ChannelClassesAre DEF ++, Optional
<1>6. Partial["Emoji"] = {}
  BY ClassesAre, ChannelClassesAre DEF ++, Partial
<1> QED
  BY <1>1, <1>2, <1>3, <1>4, <1>5, <1>6
    DEF ++, ShapeOf, Builds, Lists, Objects, Patches, PatchesField, RecordsAs, NewEmoji, Each,
        Plain, List, PatchEmoji, Quiet, Patching, QuietList, APIEmoji

LEMMA StickerTables == Builds("Sticker") /\ Patches("Sticker")
<1>1. Constructor["Sticker"] = NewSticker
  BY DEF ++, Constructor, ChannelConstructor
<1>2. AlwaysLists["Sticker"] = {}
  BY ClassesAre, ChannelClassesAre DEF ++, AlwaysLists
<1>3. PatchOf["Sticker"] = PatchSticker
  BY DEF PatchOf
<1>4. ChangeField["Sticker"] = {}
  BY ClassesAre, ChannelClassesAre DEF ++, ChangeField, PatchOf
<1>5. Optional["Sticker"] = APISticker
  BY ClassesAre, ChannelClassesAre DEF ++, Optional
<1>6. Partial["Sticker"] = {}
  BY ClassesAre, ChannelClassesAre DEF ++, Partial
<1> QED
  BY <1>1, <1>2, <1>3, <1>4, <1>5, <1>6
    DEF ++, ShapeOf, Builds, Lists, Objects, Patches, PatchesField, RecordsAs, NewSticker, Each,
        Plain, PatchSticker, Quiet, Patching, APISticker, List

LEMMA GuildScheduledEventTables == Builds("GuildScheduledEvent") /\ Patches("GuildScheduledEvent")
<1>1. Constructor["GuildScheduledEvent"] = NewGuildScheduledEvent
  BY DEF ++, Constructor, ChannelConstructor
<1>2. AlwaysLists["GuildScheduledEvent"] = {}
  BY ClassesAre, ChannelClassesAre DEF ++, AlwaysLists
<1>3. PatchOf["GuildScheduledEvent"] = PatchGuildScheduledEvent
  BY DEF PatchOf
<1>4. ChangeField["GuildScheduledEvent"] = {}
  BY ClassesAre, ChannelClassesAre DEF ++, ChangeField, PatchOf
<1>5. Optional["GuildScheduledEvent"] = APIGuildScheduledEvent
  BY ClassesAre, ChannelClassesAre DEF ++, Optional
<1>6. Partial["GuildScheduledEvent"] = APIGuildScheduledEvent
  BY ClassesAre, ChannelClassesAre DEF ++, Partial
<1> QED
  BY <1>1, <1>2, <1>3, <1>4, <1>5, <1>6
    DEF ++, ShapeOf, Builds, Lists, Objects, Patches, PatchesField, RecordsAs,
        NewGuildScheduledEvent, Each, Plain, PatchGuildScheduledEvent, Quiet, Patching,
        KeptQuiet, APIGuildScheduledEvent, List

LEMMA StageInstanceTables == Builds("StageInstance")
<1>1. Constructor["StageInstance"] = NewStageInstance
  BY DEF ++, Constructor, ChannelConstructor
<1>2. AlwaysLists["StageInstance"] = {}
  BY ClassesAre, ChannelClassesAre DEF ++, AlwaysLists
<1> QED
  BY <1>1, <1>2
    DEF ++, ShapeOf, Builds, Lists, NewStageInstance, Each, Plain, List

LEMMA InviteTables == Builds("Invite")
<1>1. Constructor["Invite"] = NewInvite
  BY DEF ++, Constructor, ChannelConstructor
<1>2. AlwaysLists["Invite"] = {}
  BY ClassesAre, ChannelClassesAre DEF ++, AlwaysLists
<1> QED
  BY <1>1, <1>2
    DEF ++, ShapeOf, Builds, Lists, NewInvite, Each, Plain, List

LEMMA AuditLogEntryTables == Builds("AuditLogEntry")
<1>1. Constructor["AuditLogEntry"] = NewAuditLogEntry
  BY DEF ++, Constructor, ChannelConstructor
<1>2. AlwaysLists["AuditLogEntry"] = {}
  BY ClassesAre, ChannelClassesAre DEF ++, AlwaysLists
<1> QED
  BY <1>1, <1>2
    DEF ++, ShapeOf, Builds, Lists, NewAuditLogEntry, Each, Plain, List

LEMMA AutoModerationRuleTables == Builds("AutoModerationRule")
<1>1. Constructor["AutoModerationRule"] = NewAutoModerationRule
  BY DEF ++, Constructor, ChannelConstructor
<1>2. AlwaysLists["AutoModerationRule"] = {}
  BY ClassesAre, ChannelClassesAre DEF ++, AlwaysLists
<1> QED
  BY <1>1, <1>2
    DEF ++, ShapeOf, Builds, Lists, NewAutoModerationRule, Each, Plain, List

LEMMA AutoModerationActionExecutionTables == Builds("AutoModerationActionExecution")
<1>1. Constructor["AutoModerationActionExecution"] = NewAutoModerationActionExecution
  BY DEF ++, Constructor, ChannelConstructor
<1>2. AlwaysLists["AutoModerationActionExecution"] = {}
  BY ClassesAre, ChannelClassesAre DEF ++, AlwaysLists
<1> QED
  BY <1>1, <1>2
    DEF ++, ShapeOf, Builds, Lists, NewAutoModerationActionExecution, Each, Plain, List

LEMMA ActivityTables == Builds("Activity")
<1>1. Constructor["Activity"] = NewActivity
  BY DEF ++, Constructor, ChannelConstructor
<1>2. AlwaysLists["Activity"] = {"buttons"}
  BY ClassesAre, ChannelClassesAre DEF ++, AlwaysLists
<1> QED
  BY <1>1, <1>2
    DEF ++, ShapeOf, Builds, Lists, NewActivity, Each, Plain, List

LEMMA InteractionTables == Builds("Interaction")
<1>1. Constructor["Interaction"] = NewInteraction
  BY DEF ++, Constructor, ChannelConstructor
<1>2. AlwaysLists["Interaction"] = {}
  BY ClassesAre, ChannelClassesAre DEF ++, AlwaysLists
<1> QED
  BY <1>1, <1>2
    DEF ++, ShapeOf, Builds, Lists, NewInteraction, Each, Plain, List

LEMMA ChannelTable == ChannelTables(NewChannel, PatchChannel)
BY DEF ChannelTables, ChannelPatches, ChannelShape, ChannelLists, ChannelFields, RecordsAs, Objects,
       Lists, NewChannel, PatchChannel, Each, Whole, Patching, Plain

\* A field of no list, and one that is parsed anew.
Simple(S) == S \subseteq ChannelFields /\ S \cap (Objects \cup ChannelLists) = {}
LEMMA SimpleBeside ==
  ASSUME NEW new, NEW patch, ChannelTables(new, patch), NEW S, Simple(S)
  PROVE  ChannelTables(new ++ Each(S, Plain), patch ++ Each(S, Whole))
<1>1. \A f \in S : Plain = ChannelShape(f) /\ ChannelPatches(f, Whole)
  BY DEF Simple, ChannelShape, ChannelPatches, RecordsAs, Whole, Patching
<1> QED
  BY <1>1, Beside

LEMMA GuildChannelTable == ChannelTables(NewGuildChannel, PatchGuildChannel)
<1> DEFINE S == {"name", "position", "parentId", "nsfw"}
           T == {"permissionOverwrites"}
<1>1. Simple(S)
  BY DEF Simple, ChannelFields, Objects, Lists, ChannelLists
<1>2. ChannelTables(NewChannel ++ Each(S, Plain), PatchChannel ++ Each(S, Whole))
  BY <1>1, ChannelTable, SimpleBeside
<1>3. \A f \in T : List = ChannelShape(f) /\ ChannelPatches(f, WholeList)
  BY DEF ChannelShape, ChannelLists, ChannelPatches, ChannelFields, RecordsAs, WholeList, Patching
<1> HIDE DEF S, T
<1>4. ChannelTables(NewChannel ++ Each(S, Plain) ++ Each(T, List),
                    PatchChannel ++ Each(S, Whole) ++ Each(T, WholeList))
  BY <1>2, <1>3, Beside
<1> QED
  BY <1>4 DEF NewGuildChannel, PatchGuildChannel, S, T

LEMMA GuildTextBasedChannelTable ==
  ChannelTables(NewGuildTextBasedChannel, PatchGuildTextBasedChannel)
<1>1. Simple({"lastMessageId", "lastPinTimestamp", "rateLimitPerUser", "topic"})
  BY DEF Simple, ChannelFields, Objects, Lists, ChannelLists
<1> QED
  BY <1>1, GuildChannelTable, SimpleBeside
  DEF NewGuildTextBasedChannel, PatchGuildTextBasedChannel

LEMMA TextChannelTables ==
  /\ ChannelTables(NewTextChannel, PatchTextChannel)
  /\ ChannelTables(NewAnnouncementChannel, PatchAnnouncementChannel)
<1>1. Simple({"defaultAutoArchiveDuration"})
  BY DEF Simple, ChannelFields, Objects, Lists, ChannelLists
<1> QED
  BY <1>1, GuildTextBasedChannelTable, SimpleBeside
  DEF NewTextChannel, PatchTextChannel, NewAnnouncementChannel, PatchAnnouncementChannel

LEMMA VoiceChannelTable == ChannelTables(NewVoiceChannel, PatchVoiceChannel)
<1>1. Simple({"bitrate", "userLimit", "rtcRegion", "videoQualityMode"})
  BY DEF Simple, ChannelFields, Objects, Lists, ChannelLists
<1> QED
  BY <1>1, GuildTextBasedChannelTable, SimpleBeside DEF NewVoiceChannel, PatchVoiceChannel

LEMMA ThreadOnlyChannelTable == ChannelTables(NewThreadOnlyChannel, PatchThreadOnlyChannel)
<1> DEFINE S == {"topic", "rateLimitPerUser", "lastThreadId", "defaultAutoArchiveDuration",
                 "defaultThreadRateLimitPerUser", "defaultSortOrder"}
           R == {"defaultReactionEmoji"}
           Q == {"topic", "rateLimitPerUser", "lastThreadId", "defaultAutoArchiveDuration",
                 "defaultReactionEmoji", "defaultThreadRateLimitPerUser", "defaultSortOrder"}
           T == {"availableTags"}
<1>1. Simple(S) /\ Q = S \cup R
  BY DEF Simple, ChannelFields, Objects, Lists, ChannelLists
<1>2. \A f \in R : Plain = ChannelShape(f) /\ ChannelPatches(f, WholeAlike)
  BY DEF ChannelShape, ChannelLists, ChannelPatches, ChannelFields, RecordsAs, WholeAlike, Patching
<1>3. \A f \in T : List = ChannelShape(f) /\ ChannelPatches(f, QuietList)
  BY DEF ChannelShape, ChannelLists, ChannelPatches, ChannelFields, RecordsAs, QuietList, Patching
<1> HIDE DEF S, R, Q, T
<1>4. ChannelTables(NewGuildChannel ++ Each(S, Plain), PatchGuildChannel ++ Each(S, Whole))
  BY <1>1, GuildChannelTable, SimpleBeside
<1>5. ChannelTables(NewGuildChannel ++ Each(S, Plain) ++ Each(R, Plain),
                    PatchGuildChannel ++ Each(S, Whole) ++ Each(R, WholeAlike))
  BY <1>2, <1>4, Beside
<1>6. NewGuildChannel ++ Each(S, Plain) ++ Each(R, Plain) = NewGuildChannel ++ Each(Q, Plain)
  BY <1>1 DEF ++, Each
<1>7. ChannelTables(NewGuildChannel ++ Each(Q, Plain) ++ Each(T, List),
                    PatchGuildChannel ++ Each(S, Whole) ++ Each(R, WholeAlike)
                      ++ Each(T, QuietList))
  BY <1>3, <1>5, <1>6, Beside
<1> QED
  BY <1>7 DEF NewThreadOnlyChannel, PatchThreadOnlyChannel, S, R, Q, T

LEMMA ForumChannelTable == ChannelTables(NewForumChannel, PatchForumChannel)
<1>1. Simple({"defaultForumLayout"})
  BY DEF Simple, ChannelFields, Objects, Lists, ChannelLists
<1> QED
  BY <1>1, ThreadOnlyChannelTable, SimpleBeside DEF NewForumChannel, PatchForumChannel

LEMMA ThreadChannelTable == ChannelTables(NewThreadChannel, PatchThreadChannel)
<1> DEFINE S == {"ownerId", "archived", "autoArchiveDuration", "archiveTimestamp", "locked",
                 "invitable", "createTimestamp", "messageCount", "memberCount",
                 "totalMessageSent"}
           T == {"appliedTags"}
<1>1. Simple(S)
  BY DEF Simple, ChannelFields, Objects, Lists, ChannelLists
<1>2. \A f \in T : List = ChannelShape(f) /\ ChannelPatches(f, WholeList)
  BY DEF ChannelShape, ChannelLists, ChannelPatches, ChannelFields, RecordsAs, WholeList, Patching
<1> HIDE DEF S, T
<1>3. ChannelTables(NewGuildTextBasedChannel ++ Each(S, Plain),
                    PatchGuildTextBasedChannel ++ Each(S, Whole))
  BY <1>1, GuildTextBasedChannelTable, SimpleBeside
<1>4. ChannelTables(NewGuildTextBasedChannel ++ Each(S, Plain) ++ Each(T, List),
                    PatchGuildTextBasedChannel ++ Each(S, Whole) ++ Each(T, WholeList))
  BY <1>2, <1>3, Beside
<1> QED
  BY <1>4 DEF NewThreadChannel, PatchThreadChannel, S, T

LEMMA DMChannelTables ==
  /\ ChannelTables(NewDMChannel, PatchDMChannel)
  /\ ChannelTables(NewGroupDMChannel, PatchGroupDMChannel)
<1> DEFINE S == {"lastMessageId"}
           G == {"name", "icon", "ownerId", "applicationId", "managed", "lastMessageId"}
           T == {"recipients"}
<1>1. Simple(S) /\ Simple(G)
  BY DEF Simple, ChannelFields, Objects, Lists, ChannelLists
<1>2. \A f \in T : List = ChannelShape(f) /\ ChannelPatches(f, QuietList)
  BY DEF ChannelShape, ChannelLists, ChannelPatches, ChannelFields, RecordsAs, QuietList, Patching
<1> HIDE DEF S, G, T
<1>3. /\ ChannelTables(NewChannel ++ Each(S, Plain), PatchChannel ++ Each(S, Whole))
      /\ ChannelTables(NewChannel ++ Each(G, Plain), PatchChannel ++ Each(G, Whole))
  BY <1>1, ChannelTable, SimpleBeside
<1>4. /\ ChannelTables(NewChannel ++ Each(S, Plain) ++ Each(T, List),
                       PatchChannel ++ Each(S, Whole) ++ Each(T, QuietList))
      /\ ChannelTables(NewChannel ++ Each(G, Plain) ++ Each(T, List),
                       PatchChannel ++ Each(G, Whole) ++ Each(T, QuietList))
  BY <1>2, <1>3, Beside
<1> QED
  BY <1>4 DEF NewDMChannel, PatchDMChannel, NewGroupDMChannel, PatchGroupDMChannel, S, G, T

LEMMA ChannelsPatch ==
  ASSUME NEW c \in DOMAIN ChannelConstructor PROVE Builds(c) /\ Patches(c)
<1>1. ChannelTables(Constructor[c], PatchOf[c])
  <2>1. c \in {"Text", "Announcement", "Voice", "Category", "Forum", "Media", "Thread", "DM",
               "GroupDM"}
    BY ClassesAre
  <2>2. Constructor[c] = ChannelConstructor[c]
    BY DEF ++, Constructor
  <2> QED
    BY <2>1, <2>2, TextChannelTables, VoiceChannelTable, GuildChannelTable, ForumChannelTable,
       ThreadOnlyChannelTable, ThreadChannelTable, DMChannelTables
    DEF ChannelConstructor, PatchOf
<1>2. c \in ChannelClasses
  BY ChannelClassesAre
<1>3. c \notin {"Emoji", "Activity", "VoiceState", "Guild", "GuildMember", "Message",
                "GuildScheduledEvent", "User", "ClientUser", "Role", "Presence"}
  BY ClassesAre
<1>4. AlwaysLists[c] = ChannelLists
  BY <1>2, <1>3 DEF ++, AlwaysLists, ChannelLists
<1>5. ChangeField[c] = ChannelFields \cap DOMAIN PatchOf[c]
  BY <1>2, <1>3 DEF ++, ChangeField
<1>6. Partial[c] = {}
  BY <1>2, <1>3, ClassesAre DEF ++, Partial
<1>7. Builds(c)
  <2>1. "partial" \notin DOMAIN Constructor[c]
    BY <1>1 DEF ChannelTables, ChannelPatches, ChannelFields, ChannelLists
  <2> QED
    BY <1>1, <1>4, <2>1 DEF Builds, ShapeOf, ChannelTables, ChannelShape, ChannelLists, Lists
<1>8. ASSUME NEW f \in DOMAIN PatchOf[c] PROVE PatchesField(c, f, PatchOf[c][f])
  BY <1>1, <1>4, <1>5, <1>6 DEF PatchesField, ChannelTables, ChannelPatches, ShapeOf, ChannelShape
<1> QED
  BY <1>1, <1>3, <1>5, <1>7, <1>8 DEF Patches, ChannelTables

-----------------------------------------------------------------------------
(* What the reports say of a former value.                                 *)

LEMMA LeastIs ==
  ASSUME NEW S \in SUBSET Nat, S # {}
  PROVE  Least(S) \in S /\ \A j \in S : Least(S) <= j
<1>1. PICK i \in S : \A j \in S : ~(<<j, i>> \in OpToRel(<, Nat))
  BY NatLessThanWellFounded, WFMin
<1>2. ASSUME NEW j \in S, j < i PROVE FALSE
  <2>1. <<j, i>> \in OpToRel(<, Nat)
    BY <1>2 DEF OpToRel
  <2> QED
    BY <1>1, <2>1
<1>3. i \in S /\ \A j \in S : i <= j
  BY <1>2
<1> QED
  BY <1>3 DEF Least

\* Before, of any reports and structure.
Reporting(rs, i, f) == {j \in i .. Len(rs) : f \in DOMAIN rs[j]}
Former(rs, s, i, f) ==
  IF Reporting(rs, i, f) = {} THEN s[f] ELSE rs[Least(Reporting(rs, i, f))][f]

LEMMA BeforeIsFormer ==
  /\ \A i, f : Before(i, f) = Former(reports, structure, i, f)
  /\ \A i, f : Before(i, f)' = Former(reports', structure', i, f)
BY DEF Before, Former, Reporting

\* One more report: what it tells of, it tells from then on, and the rest is as it was.
FormerMoves(rs, e, s, t, f) ==
  /\ Former(Append(rs, e), t, Len(rs) + 2, f) = t[f]
  /\ \A i \in 1 .. Len(rs) + 1 :
       \/ Former(Append(rs, e), t, i, f) = Former(rs, s, i, f)
       \/ /\ f \notin DOMAIN e
          /\ Former(rs, s, i, f) = s[f]
          /\ Former(Append(rs, e), t, i, f) = t[f]

LEMMA FormerAfter ==
  ASSUME NEW S, NEW rs \in Seq(S), NEW e, NEW s, NEW t, NEW f, f \in DOMAIN e => e[f] = s[f]
  PROVE  FormerMoves(rs, e, s, t, f)
<1> DEFINE q == Append(rs, e)
           n == Len(rs)
<1>1. n \in Nat /\ Len(q) = n + 1 /\ q[n + 1] = e /\ \A j \in 1 .. n : q[j] = rs[j]
  OBVIOUS
<1> HIDE DEF q, n
<1>2. Reporting(q, n + 2, f) = {}
  BY <1>1 DEF Reporting, n
<1>3. ASSUME NEW i \in 1 .. n + 1
      PROVE  \/ Former(q, t, i, f) = Former(rs, s, i, f)
             \/ f \notin DOMAIN e /\ Former(rs, s, i, f) = s[f] /\ Former(q, t, i, f) = t[f]
  <2> DEFINE A == Reporting(rs, i, f)
             B == Reporting(q, i, f)
  <2>1. B = A \cup {j \in {n + 1} : f \in DOMAIN e}
    BY <1>1 DEF Reporting, n
  <2>2. A \subseteq i .. n /\ A \in SUBSET Nat /\ B \in SUBSET Nat
    BY <1>1, <2>1 DEF Reporting, n
  <2> HIDE DEF A, B
  <2>3. CASE A # {}
    <3>1. Least(A) \in A /\ \A j \in A : Least(A) <= j
      BY <2>2, <2>3, LeastIs
    <3>2. Least(B) \in B /\ \A j \in B : Least(B) <= j
      BY <2>1, <2>2, <2>3, LeastIs
    <3>4. Least(A) \in Nat /\ Least(B) \in Nat /\ Least(A) \in i .. n
      BY <3>1, <3>2, <2>2
    <3>5. Least(A) \in Nat /\ Least(B) \in Nat /\ Least(A) <= n /\ i <= Least(A)
          /\ i \in Nat /\ i >= 1
      BY <3>4, <1>1
    <3>6. Least(B) <= Least(A)
      BY <3>1, <3>2, <2>1
    <3>7. Least(B) \in A
      BY <3>2, <3>5, <3>6, <2>1, <1>1
    <3>3. Least(A) = Least(B)
      BY <3>1, <3>5, <3>6, <3>7
    <3>8. Least(A) \in 1 .. n
      BY <3>1, <3>5, <2>2, <1>1
    <3>9. q[Least(B)] = rs[Least(A)]
      BY <3>3, <3>8, <1>1
    <3> QED
      BY <3>9, <2>1, <2>3 DEF Former, A, B
  <2>4. CASE A = {} /\ f \in DOMAIN e
    <3>1. B = {n + 1}
      BY <2>1, <2>4
    <3>2. Least(B) \in B
      BY <3>1, <2>2, LeastIs
    <3> QED
      BY <3>1, <3>2, <2>4, <1>1 DEF Former, A, B
  <2>5. CASE A = {} /\ f \notin DOMAIN e
    <3>1. B = {}
      BY <2>1, <2>5
    <3> QED
      BY <3>1, <2>5 DEF Former, A, B
  <2> QED
    BY <2>3, <2>4, <2>5
<1> QED
  BY <1>2, <1>3 DEF Former, FormerMoves, q, n

-----------------------------------------------------------------------------
(* A structure through its life.                                           *)

LEMMA AlikeIsEquivalence ==
  /\ \A f, v : Alike(f, v, v)
  /\ \A f, v, w : Alike(f, v, w) => Alike(f, w, v)
  /\ \A f, u, v, w : Alike(f, u, v) /\ Alike(f, v, w) => Alike(f, u, w)
BY DEF Alike

LEMMA TablesHold ==
  /\ \A c \in Classes : Builds(c)
  /\ \A c \in PatchedClasses : Patches(c)
BY ClassesAre, ChannelsPatch, UserTables, ClientUserTables, RoleTables, GuildTables,
   GuildMemberTables, MessageTables, PresenceTables, VoiceStateTables, EmojiTables,
   StickerTables, GuildScheduledEventTables, StageInstanceTables, InviteTables,
   AuditLogEntryTables, AutoModerationRuleTables, AutoModerationActionExecutionTables,
   ActivityTables, InteractionTables
DEF PatchedClasses

LEMMA Followed ==
  ASSUME NEW c \in Classes, NEW F \in Followings(c)
  PROVE  F \cap DOMAIN Constructor[c] # {} /\ "partial" \notin F
<1>1. "partial" \notin DOMAIN Constructor[c]
  BY TablesHold DEF Builds
<1>2. CASE F \in {{f} : f \in DOMAIN Constructor[c] \ UNION Together[c]}
  BY <1>1, <1>2
<1>3. CASE F \in Together[c]
  <2>1. CASE c = "Message"
    <3>1. F \in {{"author", "content"}, {"author", "guildId", "member"}}
      BY <1>3, <2>1 DEF ++, Together
    <3>2. "author" \in DOMAIN Constructor[c]
      BY <2>1 DEF ++, Constructor, ChannelConstructor, NewMessage, Each
    <3> QED
      BY <3>1, <3>2
  <2>2. CASE c = "Interaction"
    <3>1. F = {"guildId", "member", "user"}
      BY <1>3, <2>2 DEF ++, Together
    <3>2. "guildId" \in DOMAIN Constructor[c]
      BY <2>2 DEF ++, Constructor, ChannelConstructor, NewInteraction, Each
    <3> QED
      BY <3>1, <3>2
  <2>3. CASE c \notin {"Message", "Interaction"}
    BY <1>3, <2>3 DEF ++, Together
  <2> QED
    BY <2>1, <2>2, <2>3
<1> QED
  BY <1>2, <1>3 DEF Followings

-----------------------------------------------------------------------------
(* The structures tell the truth.                                          *)

\* What else has to hold of a structure: which fields it has.
StructureInv ==
  /\ class \in Classes /\ followed \in Followings(class)
  /\ \E S : reports \in Seq(S)
  /\ structure = <<>> => reports = <<>>
  /\ structure # <<>> =>
       /\ followed \cap DOMAIN Constructor[class] \subseteq DOMAIN structure
       /\ DOMAIN structure \subseteq DOMAIN Constructor[class] \cup {"partial", "member", "user"}
       /\ "partial" \in DOMAIN structure =>
            class = "Message" /\ {"author", "content"} \subseteq followed
  /\ StructuresAgree

LEMMA StructuresInitSound == StructuresInit => StructureInv
<1> SUFFICES ASSUME StructuresInit PROVE StructureInv
  OBVIOUS
<1>1. class \in Classes
  BY ChannelClassesAre, ClassesAre DEF StructuresInit, Others
<1>2. reports \in Seq({}) /\ DOMAIN structure = {} /\ structure = <<>>
  BY DEF StructuresInit
<1> QED
  BY <1>1, <1>2
  DEF StructuresInit, StructureInv, StructuresAgree, HoldsWhatWasSaid, ReportsAddUp, PromisesKept

LEMMA DerivedIs ==
  ASSUME NEW data
  PROVE  /\ DOMAIN Derived(data) \subseteq {"partial", "member", "user"}
         /\ "partial" \in DOMAIN Derived(data) =>
              /\ class = "Message" /\ {"author", "content"} \subseteq followed
              /\ Derived(data)["partial"] = Partiality(data)
         /\ class = "Interaction" /\ "user" \in followed =>
              "user" \in DOMAIN Derived(data) /\ Derived(data)["user"] = Invoker(data)
<1>1. CASE class = "Message" /\ {"author", "content"} \subseteq followed
  BY <1>1 DEF Derived
<1>2. CASE class = "Message" /\ ~({"author", "content"} \subseteq followed) /\ "member" \in followed
  BY <1>2 DEF Derived
<1>3. CASE class = "Interaction" /\ "user" \in followed
  BY <1>3 DEF Derived
<1>4. CASE /\ ~(class = "Message" /\ {"author", "content"} \subseteq followed)
           /\ ~(class = "Message" /\ "member" \in followed)
           /\ ~(class = "Interaction" /\ "user" \in followed)
  <2>1. Derived(data) = <<>> /\ DOMAIN <<>> = {}
    BY <1>4 DEF Derived
  <2> QED
    BY <1>4, <2>1
<1> QED
  BY <1>1, <1>2, <1>3, <1>4

LEMMA ConstructSound == StructureInv /\ Construct => StructureInv'
<1> SUFFICES ASSUME StructureInv, Construct PROVE StructureInv'
  OBVIOUS
<1> DEFINE C == Constructor[class]
<1>1. PICK data \in Payloads : structure' = Build(data) /\ first' = Build(data) /\ known' = data
  BY DEF Construct
<1> DEFINE fields == Derived(data)
           new == [f \in followed \cap DOMAIN C |-> Shaped(C[f], data[f])]
<1>2. /\ class' = class /\ followed' = followed /\ reports' = reports /\ reports = <<>>
      /\ class \in Classes /\ followed \in Followings(class)
  BY DEF Construct, StructureInv
<1>3. /\ structure' = fields ++ new /\ DOMAIN structure' = DOMAIN fields \cup (followed \cap DOMAIN C)
      /\ \A f \in DOMAIN fields : structure'[f] = fields[f]
      /\ \A f \in (followed \cap DOMAIN C) \ DOMAIN fields : structure'[f] = Shaped(C[f], data[f])
  BY <1>1 DEF ++, Build
<1>4. Builds(class) /\ followed \cap DOMAIN C # {} /\ "partial" \notin followed
  BY <1>2, TablesHold, Followed
<1>5. /\ DOMAIN fields \subseteq {"partial", "member", "user"}
      /\ "partial" \in DOMAIN fields =>
           /\ class = "Message" /\ {"author", "content"} \subseteq followed
           /\ fields["partial"] = Partiality(data)
      /\ class = "Interaction" /\ "user" \in followed =>
           "user" \in DOMAIN fields /\ fields["user"] = Invoker(data)
  BY DerivedIs
<1> HIDE DEF fields, new
<1>6. structure' # <<>>
  BY <1>3, <1>4
<1>7. HoldsWhatWasSaid'
  <2> SUFFICES ASSUME NEW f \in (followed \cap DOMAIN structure') \ {"member", "user"}
               PROVE  structure'[f] =
                        Shaped(IF f \in AlwaysLists[class] THEN List ELSE Plain, known'[f])
    BY <1>2 DEF HoldsWhatWasSaid
  <2>1. f \in DOMAIN C \ DOMAIN fields
    BY <1>3, <1>4, <1>5
  <2> QED
    BY <2>1, <1>1, <1>3, <1>4 DEF Builds, ShapeOf
<1>8. ReportsAddUp'
  <2>1. \A f : Reporting(reports', 1, f) = {}
    BY <1>2 DEF Reporting
  <2>2. \A f : Before(1, f)' = first'[f]
    BY <2>1, <1>1, BeforeIsFormer DEF Former
  <2>3. DOMAIN reports' = {}
    BY <1>2
  <2> QED
    BY <2>2, <2>3, AlikeIsEquivalence DEF ReportsAddUp
<1>9. PromisesKept'
  <2>1. ASSUME "partial" \in DOMAIN structure', structure'["partial"] = "complete"
        PROVE  Absent \notin {structure'["author"], structure'["content"]}
    <3>1. "partial" \in DOMAIN fields
      BY <2>1, <1>3, <1>4
    <3>2. class = "Message" /\ {"author", "content"} \subseteq followed
          /\ Partiality(data) = "complete"
      BY <3>1, <2>1, <1>3, <1>5
    <3>3. data["author"] # Absent /\ data["content"] # Absent
      BY <3>2 DEF Partiality
    <3>4. /\ "author" \in DOMAIN C /\ C["author"] = Plain
          /\ "content" \in DOMAIN C /\ C["content"] = Plain
      BY <3>2 DEF ++, Constructor, ChannelConstructor, NewMessage, Each
    <3> QED
      BY <3>2, <3>3, <3>4, <1>3, <1>5 DEF Shaped, Plain, List
  <2>2. ASSUME class = "Interaction", "user" \in followed
        PROVE  structure'["user"] # Absent
    <3>1. followed = {"guildId", "member", "user"}
      <4>1. "user" \notin DOMAIN C
        BY <2>2 DEF ++, Constructor, ChannelConstructor, NewInteraction, Each
      <4>2. followed \in Together[class]
        BY <4>1, <2>2, <1>2 DEF Followings
      <4> QED
        BY <4>2, <2>2 DEF ++, Together
    <3>2. data \in [followed -> Given \cup {Absent, Empty, Null}] /\ Possible(class, data)
      BY DEF Payloads
    <3>3. /\ (data["member"] = Absent) = (data["guildId"] = Absent)
          /\ (data["user"] = Absent) = (data["member"] # Absent)
      BY <3>1, <3>2, <2>2 DEF Possible
    <3>4. Invoker(data) # Absent
      BY <3>3 DEF Invoker, InteractionMember
    <3> QED
      BY <3>4, <2>2, <1>3, <1>5
  <2> QED
    BY <2>1, <2>2, <1>2 DEF PromisesKept
<1>10. \E S : reports' \in Seq(S)
  BY <1>2 DEF StructureInv
<1>11. /\ followed \cap DOMAIN C \subseteq DOMAIN structure'
       /\ DOMAIN structure' \subseteq DOMAIN C \cup {"partial", "member", "user"}
       /\ "partial" \in DOMAIN structure' =>
            class = "Message" /\ {"author", "content"} \subseteq followed
  BY <1>3, <1>4, <1>5
<1> QED
  BY <1>2, <1>6, <1>7, <1>8, <1>9, <1>10, <1>11 DEF StructureInv, StructuresAgree

\* A patch records each change of a field that its type promises, and no other.
LEMMA ReportedIs ==
  ASSUME StructureInv, class \in PatchedClasses, structure # <<>>, NEW data \in Payloads,
         NEW f \in followed \cap DOMAIN structure
  PROVE  /\ \/ f \in DOMAIN Reported(data) /\ Reported(data)[f] = structure[f]
            \/ f \notin DOMAIN Reported(data)
         /\ f \in ChangeField[class] =>
              f \in DOMAIN Reported(data) \/ Alike(f, structure[f], Patch(data)[f])
         /\ f \in DOMAIN Reported(data) =>
              /\ f \in ChangeField[class]
              /\ class = "VoiceState" \/ f \in {"attachments", "embeds"}
                   \/ ~Alike(f, structure[f], Patch(data)[f])
<1> DEFINE p == PatchOf[class]
           A == {g \in PatchedFields : Assigns(p[g], data, g)}
           s == Patch(data)
<1>1. Patches(class) /\ Builds(class)
  BY TablesHold DEF StructureInv
<1>2. s[f] = IF f \in A THEN Shaped(p[f].value, data[f]) ELSE structure[f]
  BY DEF ++, Patch
<1>3. CASE class = "VoiceState"
  <2>1. Reported(data) = [g \in followed \cap CloneVoiceState |-> structure[g]]
    BY <1>3 DEF Reported
  <2> QED
    BY <2>1, <1>1, <1>3 DEF Patches
<1>4. CASE class # "VoiceState"
  <2> DEFINE B == {g \in PatchedFields : Records(p[g], data, g)}
  <2>1. Reported(data) = [g \in B |-> structure[g]]
    BY <1>4 DEF Reported
  <2>2. CASE f \notin DOMAIN p
    BY <2>1, <2>2, <1>1 DEF PatchedFields, Patches
  <2>3. CASE f \in DOMAIN p
    <3> DEFINE way == p[f]
    <3>1. PatchesField(class, f, way) /\ f \in PatchedFields
      BY <2>3, <1>1 DEF Patches, PatchedFields
    <3>2. f \in A <=> Assigns(way, data, f)
      BY <3>1
    <3>3. f \in DOMAIN Reported(data) <=> Records(way, data, f)
      BY <3>1, <2>1
    <3>4. /\ way.value = List => f \in Lists
          /\ way.value \in {List, Plain}
      BY <3>1, <1>1 DEF PatchesField, ShapeOf, Builds, List, Plain
    <3> HIDE DEF way, A, s, B
    <3>5. Alike(f, data[f], Shaped(way.value, data[f]))
      BY <3>4 DEF Alike, Blank, Shaped, List, Plain
    <3>6. Patch(data)[f] = IF Assigns(way, data, f) THEN Shaped(way.value, data[f]) ELSE structure[f]
      BY <3>2, <1>2 DEF way, s
    <3>7. Reported(data)[f] = structure[f] \/ f \notin DOMAIN Reported(data)
      BY <2>1
    <3>8. CASE f \notin ChangeField[class]
      <4>1. way.records = "never"
        BY <3>1, <3>8, <1>4 DEF PatchesField
      <4>2. ~Records(way, data, f)
        BY <4>1 DEF Records
      <4> QED
        BY <4>2, <3>3, <3>8
    <3>9. CASE f \in ChangeField[class]
      <4>1. RecordsAs(f, way)
        BY <3>1, <3>9, <1>4 DEF PatchesField
      <4>2. CASE way.records = "identity" /\ f \notin Objects
        <5>1. f \notin Lists /\ f # "defaultReactionEmoji" /\ Shaped(way.value, data[f]) = data[f]
          BY <4>2, <3>4 DEF Objects, Shaped
        <5>2. \A v, w : Alike(f, v, w) <=> v = w
          BY <5>1 DEF Alike, Blank
        <5> QED
          BY <4>2, <5>1, <5>2, <3>3, <3>6, <3>7, <3>9 DEF Records
      <4>3. CASE way.records = "contents"
        <5>1. Records(way, data, f)
                <=> Assigns(way, data, f) /\ ~Alike(f, structure[f], data[f])
          BY <4>3 DEF Records
        <5> QED
          BY <5>1, <3>3, <3>5, <3>6, <3>7, <3>9, AlikeIsEquivalence
      <4>4. CASE way.records = "any" /\ f \in {"attachments", "embeds"}
        <5>1. Records(way, data, f) <=> Assigns(way, data, f)
          BY <4>4 DEF Records
        <5> QED
          BY <5>1, <4>4, <3>3, <3>6, <3>7, <3>9, AlikeIsEquivalence
      <4> QED
        BY <4>1, <4>2, <4>3, <4>4 DEF RecordsAs
    <3> QED
      BY <3>8, <3>9
  <2> QED
    BY <2>2, <2>3
<1> QED
  BY <1>3, <1>4

LEMMA UpdateSound == StructureInv /\ Update => StructureInv'
<1> SUFFICES ASSUME StructureInv, Update PROVE StructureInv'
  OBVIOUS
<1> DEFINE p == PatchOf[class]
<1>1. PICK data \in Payloads :
        /\ structure' = Patch(data)
        /\ reports' = Append(reports, Reported(data))
        /\ known' = [f \in followed |->
                       IF data[f] = Absent /\ f \in Partial[class] THEN known[f] ELSE data[f]]
  BY DEF Update
<1> DEFINE e == Reported(data)
           A == {g \in PatchedFields : Assigns(p[g], data, g)}
<1>2. /\ class' = class /\ followed' = followed /\ first' = first
      /\ class \in PatchedClasses /\ structure # <<>>
      /\ class \in Classes /\ followed \in Followings(class)
      /\ followed \cap DOMAIN Constructor[class] \subseteq DOMAIN structure
      /\ DOMAIN structure \subseteq DOMAIN Constructor[class] \cup {"partial", "member", "user"}
      /\ "partial" \in DOMAIN structure =>
           class = "Message" /\ {"author", "content"} \subseteq followed
  BY DEF Update, StructureInv
<1>3. Patches(class) /\ Builds(class) /\ "partial" \notin followed
      /\ followed \cap DOMAIN Constructor[class] # {}
  BY <1>2, TablesHold, Followed
<1>4. A \subseteq followed \cap DOMAIN p /\ followed \cap DOMAIN p \subseteq DOMAIN structure
  BY <1>2, <1>3 DEF PatchedFields, Patches
<1>5. /\ DOMAIN structure' = DOMAIN structure
      /\ \A f \in A : structure'[f] = Shaped(p[f].value, data[f])
      /\ \A f \in DOMAIN structure \ A : structure'[f] = structure[f]
  BY <1>1, <1>4 DEF ++, Patch
<1>6. structure' # <<>>
  BY <1>2, <1>3, <1>5
<1>7. HoldsWhatWasSaid'
  <2> SUFFICES ASSUME NEW f \in (followed \cap DOMAIN structure) \ {"member", "user"}
               PROVE  structure'[f] = Shaped(ShapeOf(class, f), known'[f])
    BY <1>2, <1>5 DEF HoldsWhatWasSaid, ShapeOf
  <2>1. f \in DOMAIN p /\ PatchesField(class, f, p[f])
    BY <1>2, <1>3 DEF Patches
  <2>2. structure[f] = Shaped(ShapeOf(class, f), known[f])
    BY DEF StructureInv, StructuresAgree, HoldsWhatWasSaid, ShapeOf
  <2>3. known'[f] = IF data[f] = Absent /\ f \in Partial[class] THEN known[f] ELSE data[f]
    BY <1>1
  <2>4. data[f] = Absent => f \in Optional[class]
    BY DEF Payloads, Sayings, Absent, Empty, Null, Given
  <2>5. p[f].value = ShapeOf(class, f)
    BY <2>1 DEF PatchesField
  <2>6. f \in A <=> Assigns(p[f], data, f)
    BY <2>1 DEF PatchedFields
  <2>7. CASE p[f].assigns = "always" /\ f \notin Partial[class]
    BY <2>3, <2>5, <2>6, <2>7, <1>5 DEF Assigns
  <2>8. CASE p[f].assigns = "ifSent" /\ (f \in Optional[class] => f \in Partial[class])
    <3>1. f \in A <=> data[f] # Absent
      BY <2>6, <2>8 DEF Assigns
    <3> QED
      BY <2>2, <2>3, <2>4, <2>5, <2>8, <3>1, <1>5
  <2> QED
    BY <2>1, <2>7, <2>8 DEF PatchesField
<1>8. ReportsAddUp'
  <2> DEFINE N(i, f) == Former(reports', structure', i, f)
             B(i, f) == Former(reports, structure, i, f)
  <2> SUFFICES ASSUME NEW f \in followed \cap DOMAIN structure
               PROVE  /\ f \in ChangeField[class] => Alike(f, N(1, f), first[f])
                      /\ \A i \in DOMAIN reports' : f \in DOMAIN reports'[i] =>
                           /\ f \in ChangeField[class]
                           /\ class = "VoiceState" \/ f \in {"attachments", "embeds"}
                                \/ ~Alike(f, reports'[i][f], N(i + 1, f))
    BY <1>2, <1>5, BeforeIsFormer DEF ReportsAddUp
  <2>1. PICK S : reports \in Seq(S)
    BY DEF StructureInv
  <2> DEFINE n == Len(reports)
  <2>2. /\ f \in DOMAIN e => e[f] = structure[f]
        /\ f \in ChangeField[class] => f \in DOMAIN e \/ Alike(f, structure[f], structure'[f])
        /\ f \in DOMAIN e =>
             /\ f \in ChangeField[class]
             /\ class = "VoiceState" \/ f \in {"attachments", "embeds"}
                  \/ ~Alike(f, structure[f], structure'[f])
    BY <1>1, <1>2, ReportedIs
  <2>3. /\ f \in ChangeField[class] => Alike(f, B(1, f), first[f])
        /\ \A i \in DOMAIN reports : f \in DOMAIN reports[i] =>
             /\ f \in ChangeField[class]
             /\ class = "VoiceState" \/ f \in {"attachments", "embeds"}
                  \/ ~Alike(f, reports[i][f], B(i + 1, f))
    BY BeforeIsFormer DEF StructureInv, StructuresAgree, ReportsAddUp
  <2> HIDE DEF e
  <2>4. /\ N(n + 2, f) = structure'[f]
        /\ \A i \in 1 .. n + 1 :
             \/ N(i, f) = B(i, f)
             \/ /\ f \notin DOMAIN e
                /\ B(i, f) = structure[f] /\ N(i, f) = structure'[f]
    <3>1. reports' = Append(reports, e)
      BY <1>1 DEF e
    <3>2. f \in DOMAIN e => e[f] = structure[f]
      BY <2>2
    <3>3. FormerMoves(reports, e, structure, structure', f)
      BY <2>1, <3>2, FormerAfter
    <3> QED
      BY <3>1, <3>3 DEF FormerMoves
  <2>5. /\ n \in Nat /\ DOMAIN reports = 1 .. n /\ DOMAIN reports' = 1 .. n + 1
        /\ reports'[n + 1] = e /\ \A i \in 1 .. n : reports'[i] = reports[i]
    BY <2>1, <1>1 DEF e
  <2>6. \A i \in 1 .. n + 1 :
          f \in ChangeField[class] => Alike(f, B(i, f), N(i, f))
    BY <2>2, <2>4, AlikeIsEquivalence
  <2> HIDE DEF n
  <2>7. f \in ChangeField[class] => Alike(f, N(1, f), first[f])
    <3>1. 1 \in 1 .. n + 1
      BY <2>5
    <3> QED
      BY <3>1, <2>3, <2>6, AlikeIsEquivalence
  <2>8. ASSUME NEW i \in 1 .. n + 1, f \in DOMAIN reports'[i]
        PROVE  /\ f \in ChangeField[class]
               /\ class = "VoiceState" \/ f \in {"attachments", "embeds"}
                    \/ ~Alike(f, reports'[i][f], N(i + 1, f))
    <3>1. CASE i = n + 1
      <4>1. i + 1 = n + 2 /\ reports'[i] = e
        BY <3>1, <2>5
      <4> QED
        BY <4>1, <2>2, <2>4, <2>8
    <3>2. CASE i # n + 1
      <4>1. i \in 1 .. n /\ i + 1 \in 1 .. n + 1 /\ reports'[i] = reports[i]
        BY <3>2, <2>5
      <4>2. /\ f \in ChangeField[class]
            /\ class = "VoiceState" \/ f \in {"attachments", "embeds"}
                 \/ ~Alike(f, reports[i][f], B(i + 1, f))
        BY <4>1, <2>3, <2>5, <2>8
      <4>3. Alike(f, B(i + 1, f), N(i + 1, f))
        BY <4>1, <4>2, <2>6
      <4> QED
        BY <4>1, <4>2, <4>3, AlikeIsEquivalence
    <3> QED
      BY <3>1, <3>2
  <2> QED
    BY <2>5, <2>7, <2>8
<1>9. PromisesKept'
  <2>1. ASSUME "partial" \in DOMAIN structure', structure'["partial"] = "complete"
        PROVE  Absent \notin {structure'["author"], structure'["content"]}
    <3>1. /\ class = "Message" /\ {"author", "content"} \subseteq followed
          /\ structure'["partial"] = structure["partial"]
      BY <2>1, <1>2, <1>3, <1>4, <1>5
    <3>2. Absent \notin {structure["author"], structure["content"]}
      BY <2>1, <3>1, <1>2, <1>5 DEF StructureInv, StructuresAgree, PromisesKept
    <3>3. ASSUME NEW f \in {"author", "content"}
          PROVE  f \in DOMAIN p /\ p[f] \in {Kept, KeptQuiet}
      BY <3>1 DEF ++, PatchOf, PatchMessage, Each
    <3>4. ASSUME NEW f \in {"author", "content"} PROVE structure'[f] # Absent
      <4>1. f \in A <=> data[f] # Absent
        BY <3>1, <3>3 DEF PatchedFields, Assigns, Kept, KeptQuiet, Patching
      <4>2. p[f].value = Plain
        BY <3>3 DEF Kept, KeptQuiet, Patching
      <4>3. f \in DOMAIN structure /\ structure[f] # Absent
        BY <3>1, <3>2, <3>3, <1>4
      <4> QED
        BY <4>1, <4>2, <4>3, <1>5 DEF Shaped, Plain, List
    <3> QED
      BY <3>4
  <2>2. class # "Interaction"
    BY <1>2, ClassesAre DEF PatchedClasses
  <2> QED
    BY <2>1, <2>2, <1>2 DEF PromisesKept
<1>10. \E S : reports' \in Seq(S)
  <2>1. PICK S : reports \in Seq(S)
    BY DEF StructureInv
  <2> HIDE DEF e
  <2>2. reports \in Seq(S \cup {e}) /\ e \in S \cup {e}
    BY <2>1
  <2>3. Append(reports, e) \in Seq(S \cup {e})
    BY <2>2
  <2> QED
    BY <2>3, <1>1 DEF e
<1> QED
  BY <1>2, <1>5, <1>6, <1>7, <1>8, <1>9, <1>10 DEF StructureInv, StructuresAgree

StructuresSpec == StructuresInit /\ [][StructuresNext]_structureVars

\* A structure tells the truth about its entity however often it is patched, and what its
\* updates report adds up.
THEOREM StructuresTellTheTruth == StructuresSpec => []StructuresAgree
<1>1. StructureInv /\ UNCHANGED structureVars => StructureInv'
  <2> SUFFICES ASSUME StructureInv, UNCHANGED structureVars PROVE StructureInv'
    OBVIOUS
  <2>1. /\ class' = class /\ followed' = followed /\ structure' = structure
        /\ known' = known /\ reports' = reports /\ first' = first
    BY DEF structureVars
  <2>2. \A i, f : Before(i, f)' = Before(i, f)
    BY <2>1, BeforeIsFormer
  <2>3. StructuresAgree'
    BY <2>1, <2>2 DEF StructureInv, StructuresAgree, HoldsWhatWasSaid, ReportsAddUp, PromisesKept
  <2> QED
    BY <2>1, <2>3 DEF StructureInv
<1>2. StructureInv /\ [StructuresNext]_structureVars => StructureInv'
  BY <1>1, ConstructSound, UpdateSound DEF StructuresNext
<1>3. StructureInv => StructuresAgree
  BY DEF StructureInv
<1> QED
  BY <1>2, <1>3, StructuresInitSound, PTL DEF StructuresSpec
=============================================================================
