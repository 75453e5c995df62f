----------------------------- MODULE CloseCodes -----------------------------
(***************************************************************************)
(* What a gateway close code means to a shard                              *)
(* (packages/gateway/src/connection/CloseCodes.ts).  Pure operators; the   *)
(* texts of the verdicts are left out.                                     *)
(***************************************************************************)
EXTENDS Naturals

CloseActions == {"resume", "re-identify", "fatal"}

\* UnrecoverableGatewayCloseCodes: Discord's "Reconnect: false" column.
UnrecoverableGatewayCloseCodes == {4004, 4010, 4011, 4012, 4013, 4014}

\* InvalidSeq, SessionTimedOut and the ambiguous NotAuthenticated.
RequiresNewSession == {4003, 4007, 4009}

RateLimited == 4008

\* The code a socket reports that died without a close frame.
Abnormal == 1006

CLOSE_PERMANENT == 1000
CLOSE_RESUMABLE == 4000

\* classifyCloseCode.  Every code the code base does not recognise resumes, as
\* do the client-bug codes 4001, 4002 and 4005 (they only differ in a warning).
ClassifyCloseCode(code) ==
  CASE code \in UnrecoverableGatewayCloseCodes -> "fatal"
    [] code \in RequiresNewSession            -> "re-identify"
    [] code \in {1000, 1001}                  -> "re-identify"
    [] OTHER                                  -> "resume"

\* resolveCloseVerdict: a close the shard asked for itself always resumes.  An
\* unclean 1006 is classified as "no code", which resumes as 1006 itself does.
ResolveCloseVerdict(deliberate, code) ==
  IF deliberate THEN "resume" ELSE ClassifyCloseCode(code)
=============================================================================
