------------------------------ MODULE HttpPost ------------------------------
(***************************************************************************)
(* agent/tls_egress.c: one POST of an NDJSON body to the collector, over   *)
(* plain TCP or through mbedTLS, and its repetition by the next flush when *)
(* it failed.  The collector, the network and the agent interleave: the    *)
(* collector may answer early, late, in two pieces or not at all, close in *)
(* the middle, and store a body the agent has given up on.                 *)
(*                                                                         *)
(* A request is sent in Parts pieces, the first of which is the header.    *)
(* What is written into the header (URL, Basic Auth) is not modelled.      *)
(***************************************************************************)
EXTENDS Integers

CONSTANTS
  Schemes,    \* the URL schemes the collector may be configured with
  Parts,      \* send calls for header and body
  MaxTries    \* bound on the POSTs of this body

ASSUME PostAssumption ==
  /\ Schemes \subseteq {"http", "https"} /\ Schemes # {}
  /\ Parts \in Nat \ {0} /\ MaxTries \in Nat

VARIABLES
  scheme,    \* is_https, from the URL: plain TCP or mbedTLS
  stage,     \* where http_post is
  unsent,    \* pieces still to be sent
  peer,      \* the connection: "open", "fin" after the collector closed it,
             \*   "dead" when data sent after that was reset, "reset" when the
             \*   collector closed with data unread
  inbox,     \* pieces that reached the collector
  srv,       \* the collector's end: "reading", "stored", "gone"
  answer,    \* the response under way: "none", "short" (fewer than the 12
             \*   bytes of a status line), "full"
  code,      \* its status: "2xx" or "err"
  result,    \* what the latest POST returned
  tries,     \* how many POSTs were begun
  late,      \* complete bodies the agent gave up on that the collector still has
  stored     \* POSTs whose body the collector stored

connVars == <<unsent, peer, inbox, srv, answer, code>>
postVars == <<scheme, stage, connVars, result, tries, late, stored>>

NoConnection ==
  /\ unsent = 0 /\ peer = "open" /\ inbox = 0
  /\ srv = "gone" /\ answer = "none" /\ code = "err"

PostInit ==
  /\ scheme \in Schemes
  /\ stage = "idle"
  /\ NoConnection
  /\ result = "none"
  /\ tries = 0 /\ late = {} /\ stored = {}

(***************************************************************************)
(* The agent.                                                              *)
(***************************************************************************)
(* emit_flush posts what is at the head of the ring until a POST succeeds; *)
(* a reload may have changed the URL since the last attempt.               *)
Begin ==
  /\ stage = "idle" /\ result # "ok"
  /\ tries < MaxTries
  /\ scheme' \in Schemes
  /\ tries' = tries + 1
  /\ result' = "none"
  /\ stage' = "connect"
  /\ UNCHANGED <<connVars, late, stored>>

Return(r) == stage' = "idle" /\ result' = r

(* A body the collector has in full may still be stored after the close. *)
Abandoned == IF inbox = Parts /\ srv = "reading" THEN late \cup {tries} ELSE late

Fail == Return("failed") /\ late' = Abandoned /\ UNCHANGED <<scheme, connVars, tries, stored>>

(* Name resolution, connect or the TLS set-up and handshake may fail. *)
ConnectFails ==
  stage = "connect" /\ Return("failed") /\ UNCHANGED <<scheme, connVars, tries, late, stored>>

Connected ==
  /\ stage = "connect"
  /\ stage' = "send"
  /\ unsent' = Parts /\ peer' = "open" /\ inbox' = 0
  /\ srv' = "reading" /\ answer' = "none" /\ code' = "err"
  /\ UNCHANGED <<scheme, result, tries, late, stored>>

(* The send loop.  After a FIN the kernel still takes data, and the peer   *)
(* answers it with a reset.                                                *)
SendPart ==
  /\ stage = "send" /\ unsent > 0
  /\ peer \in {"open", "fin"}
  /\ unsent' = unsent - 1
  /\ inbox' = IF peer = "open" THEN inbox + 1 ELSE inbox
  /\ peer' = IF peer = "fin" THEN "dead" ELSE peer
  /\ UNCHANGED <<scheme, stage, srv, answer, code, result, tries, late, stored>>

SendReset == stage = "send" /\ unsent > 0 /\ peer = "reset" /\ Fail

(* EPIPE: send raises SIGPIPE, which nothing in the agent ignores; the     *)
(* sockets of mbedTLS do ignore it.                                        *)
SendBrokenPipe ==
  /\ stage = "send" /\ unsent > 0 /\ peer = "dead"
  /\ IF scheme = "https" THEN Fail
     ELSE stage' = "killed" /\ UNCHANGED <<scheme, connVars, result, tries, late, stored>>

SendDone ==
  /\ stage = "send" /\ unsent = 0
  /\ stage' = "wait"
  /\ UNCHANGED <<scheme, connVars, result, tries, late, stored>>

TimeoutNever == FALSE   \* mutant: poll without a limit

(* Plain HTTP polls for 15 s; mbedtls_ssl_read has no timeout. *)
Timeout == stage = "wait" /\ scheme = "http" /\ answer = "none" /\ Fail

StatusOkAny == answer = "full"   \* mutant: any status will do

(* http_status_ok looks at what one read returned. *)
StatusOk == answer = "full" /\ code = "2xx"

ReadAnswer ==
  /\ stage = "wait" /\ answer # "none"
  /\ IF StatusOk THEN Return("ok") /\ UNCHANGED <<scheme, connVars, tries, late, stored>> ELSE Fail

ReadEnd == stage = "wait" /\ answer = "none" /\ peer # "open" /\ Fail

HttpPost ==
  \/ ConnectFails \/ Connected \/ SendPart \/ SendReset \/ SendBrokenPipe \/ SendDone
  \/ Timeout \/ ReadAnswer \/ ReadEnd

(***************************************************************************)
(* The collector, as the agent depends on it: it acknowledges a body only  *)
(* after storing it.                                                       *)
(***************************************************************************)
Busy == stage \in {"send", "wait"} /\ srv # "gone"

CollectorStores ==
  /\ Busy /\ srv = "reading" /\ inbox = Parts
  /\ srv' = "stored"
  /\ stored' = stored \cup {tries}
  /\ UNCHANGED <<scheme, stage, unsent, peer, inbox, answer, code, result, tries, late>>

CollectorAnswers ==
  /\ Busy
  /\ \/ /\ answer = "none"
        /\ answer' \in {"short", "full"}
        /\ code' \in (IF srv = "stored" THEN {"2xx", "err"} ELSE {"err"})
     \/ answer = "short" /\ answer' = "full" /\ UNCHANGED code
  /\ UNCHANGED <<scheme, stage, unsent, peer, inbox, srv, result, tries, late, stored>>

CollectorCloses ==
  /\ Busy
  /\ srv' = "gone"
  /\ peer' \in {"fin", "reset"}
  /\ UNCHANGED <<scheme, stage, unsent, inbox, answer, code, result, tries, late, stored>>

StoresLate ==
  /\ \E t \in late : late' = late \ {t} /\ stored' = stored \cup {t}
  /\ UNCHANGED <<scheme, stage, connVars, result, tries>>

Collector == CollectorStores \/ CollectorAnswers \/ CollectorCloses \/ StoresLate

PostNext == Begin \/ HttpPost \/ Collector

PostSpec == PostInit /\ [][PostNext]_postVars

(* A POST that was begun goes on; connect and poll give up by themselves.  *)
PostFairSpec == PostSpec /\ WF_postVars(HttpPost)
-----------------------------------------------------------------------------
(* Every variable holds a value of its type.                               *)
PostTypeOK ==
  /\ scheme \in Schemes
  /\ stage \in {"idle", "connect", "send", "wait", "killed"}
  /\ unsent \in 0..Parts /\ inbox \in 0..Parts
  /\ peer \in {"open", "fin", "dead", "reset"}
  /\ srv \in {"reading", "stored", "gone"}
  /\ answer \in {"none", "short", "full"} /\ code \in {"2xx", "err"}
  /\ result \in {"none", "ok", "failed"}
  /\ tries \in 0..MaxTries
  /\ late \subseteq 1..MaxTries /\ stored \subseteq 1..MaxTries

(* A POST is reported as successful only if the collector has its body, so *)
(* emit_flush never drops lines that were not stored.                      *)
OkMeansStored == result = "ok" => tries \in stored

(* A plain POST always returns, whatever the collector does or does not    *)
(* do: the loop that called it gets its turn again.                        *)
PostReturns ==
  stage = "connect" /\ scheme = "http" ~> stage \in {"idle", "killed"}

(* cpe_agent_http_post returns 0 on a 2xx and -1 on failure.               *)
ReturnsOnFailure == stage # "killed"
=============================================================================
