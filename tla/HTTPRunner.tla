----------------------------- MODULE HTTPRunner -----------------------------
(***************************************************************************)
(* The HTTP runner (internal/runner/httprun): the preflight, Do with the   *)
(* trace of one request, and the phases it is reduced to.                  *)
(*                                                                         *)
(* The request asks for a connection and takes whichever comes first, one  *)
(* that became idle or the one being dialled for it; a dial that lost goes *)
(* on.  A redirect, and a request sent again because an idle connection    *)
(* turned out closed, ask for a connection once more and overwrite the     *)
(* stamps of the trace.  The stamps of the dial itself (lookup, connect,   *)
(* handshake) come from other goroutines and feed three phases that are    *)
(* not parts of the call's time; they are left out.                        *)
(*                                                                         *)
(* The clock moves by at most one at each reading, up to MaxNow.           *)
(***************************************************************************)
EXTENDS RunnerCall

CONSTANTS
  Requests,     \* the configured requests, see RequestType
  Statuses,     \* the statuses a target may answer with
  MaxRedirects, \* how many redirects the client follows: 10 in buildClient
  MaxNow        \* bound: where the clock stops

\* A request: its weight, whether http.NewRequest accepts it, the statuses it expects
\* (none when it has no expectation) and whether it limits the body.
RequestType == [weight : Int, valid : BOOLEAN, expect : SUBSET (100 .. 599), limited : BOOLEAN]

ASSUME RequestAssumption ==
  /\ Requests \in Seq(RequestType) /\ Requests # <<>>
  /\ Statuses \subseteq 100 .. 599
  /\ MaxRedirects \in Nat /\ MaxNow \in Nat \ {0}

Stamps == {"getConn", "gotConn", "firstByte"}

\* How a dial may end without a connection.
DialErrors == {"nohost", "refused", "stalled", "certificate"}

VARIABLES
  http,         \* "new", "ready", "failed" or "closed"
  preflighted,  \* how many requests the preflight has been through
  now,          \* the clock, as an offset from the start of the run
  trace,        \* the stamps of each call's trace, 0 when unset
  reused, haveConn,        \* its two flags
  dial,         \* the dial started for the call: "none", "dialling", "up" or "failed"
  redirects,    \* how many redirects the call has followed
  status,       \* the status of the response it has
  overLimit,    \* the body was longer than the request allows
  started, connAcquired, firstByte, ended,   \* stamps of the outcome
  phases        \* what phases() made of the call's trace

traceVars   == <<trace, reused, haveConn, dial>>
outcomeVars == <<status, overLimit, started, connAcquired, firstByte, ended, phases>>
httpVars == <<http, preflighted, now, traceVars, redirects, outcomeVars>>

HTTPWeights == [i \in DOMAIN Requests |-> Requests[i].weight]
Request(w)  == Requests[unit[w]]

NoPhases == [connWait |-> 0, ttfb |-> 0, transfer |-> 0, connected |-> FALSE]

ForAll(value) == [w \in Workers |-> value]

HTTPInit ==
  /\ http = "new" /\ preflighted = 0 /\ now = 1
  /\ trace = ForAll([s \in Stamps |-> 0])
  /\ reused = ForAll(FALSE) /\ haveConn = ForAll(FALSE)
  /\ dial = ForAll("none")
  /\ redirects = ForAll(0) /\ status = ForAll(0) /\ overLimit = ForAll(FALSE)
  /\ started = ForAll(0) /\ connAcquired = ForAll(0)
  /\ firstByte = ForAll(0) /\ ended = ForAll(0)
  /\ phases = ForAll(NoPhases)

\* clock.Now: the readings one step may make, and the clock after it.
Readings == now .. IF now < MaxNow THEN now + 1 ELSE now

(***************************************************************************)
(* Prepare and Close.                                                      *)
(***************************************************************************)
\* One request per label; what cannot be built or sent, or answers 5xx, ends it.
Preflight ==
  /\ http = "new" /\ preflighted < Len(Requests)
  /\ \/ /\ Requests[preflighted + 1].valid
        /\ \E answer \in Statuses :
             IF answer < 500 THEN preflighted' = preflighted + 1 /\ UNCHANGED http
             ELSE http' = "failed" /\ UNCHANGED preflighted
     \/ http' = "failed" /\ UNCHANGED preflighted
  /\ UNCHANGED <<now, traceVars, redirects, outcomeVars>>

Preflighted ==
  /\ http = "new" /\ preflighted = Len(Requests)
  /\ http' = "ready"
  /\ UNCHANGED <<preflighted, now, traceVars, redirects, outcomeVars>>

HTTPClose ==
  /\ http \in {"ready", "failed"} /\ \A w \in Workers : ~Busy(w)
  /\ http' = "closed"
  /\ UNCHANGED <<preflighted, now, traceVars, redirects, outcomeVars>>

(***************************************************************************)
(* Asking for a connection.                                                *)
(***************************************************************************)
BeginRequest(w) ==
  /\ http = "ready"
  /\ Begin(w, "http", HTTPWeights, "build")
  /\ started' = [started EXCEPT ![w] = now]
  /\ UNCHANGED <<http, preflighted, now, traceVars, redirects, status, overLimit, connAcquired,
                 firstByte, ended, phases>>

\* The stamps of a call that never had a connection.
Build(w) ==
  /\ phase[w] = "build"
  /\ IF Request(w).valid
     THEN GoTo(w, "ask") /\ UNCHANGED <<connAcquired, ended>>
     ELSE /\ Decide(w, "other", "record")
          /\ connAcquired' = [connAcquired EXCEPT ![w] = now]
          /\ ended' = [ended EXCEPT ![w] = now]
  /\ UNCHANGED <<http, preflighted, now, traceVars, redirects, status, overLimit, started,
                 firstByte, phases>>

\* phaseTrace.set
Stamp(w, s) ==
  \E t \in Readings : now' = t /\ trace' = [trace EXCEPT ![w][s] = t]

\* The transport looks at the context, then GetConn is called; with no idle connection
\* at hand a dial is started, unless the one of an earlier hop is still going on.
Ask(w) ==
  /\ phase[w] = "ask" /\ ctx[w] = "live"
  /\ Stamp(w, "getConn")
  /\ \E idle \in BOOLEAN :
       dial' = IF idle \/ dial[w] = "dialling" THEN dial ELSE [dial EXCEPT ![w] = "dialling"]
  /\ GoTo(w, "conn")
  /\ UNCHANGED <<http, preflighted, reused, haveConn, redirects, outcomeVars>>

\* The dial ends, on its goroutine, whatever has become of the request.
DialEnds(w) ==
  /\ Busy(w) /\ dial[w] = "dialling"
  /\ \E end \in {"up", "failed"} : dial' = [dial EXCEPT ![w] = end]
  /\ UNCHANGED <<callVars, http, preflighted, now, trace, reused, haveConn, redirects, outcomeVars>>

\* GotConn: the dialled connection, or one that another request gave back.
GotConn(w) ==
  /\ phase[w] = "conn"
  /\ Stamp(w, "gotConn")
  /\ \E idle \in BOOLEAN :
       /\ idle \/ dial[w] = "up"
       /\ reused' = [reused EXCEPT ![w] = idle]
       /\ dial' = IF idle THEN dial ELSE [dial EXCEPT ![w] = "none"]
  /\ haveConn' = [haveConn EXCEPT ![w] = TRUE]
  /\ GoTo(w, "exchange")
  /\ UNCHANGED <<http, preflighted, redirects, outcomeVars>>

(***************************************************************************)
(* The exchange.                                                           *)
(***************************************************************************)
FirstByte(w) ==
  /\ phase[w] = "exchange"
  /\ Stamp(w, "firstByte")
  /\ GoTo(w, "head")
  /\ UNCHANGED <<http, preflighted, reused, haveConn, dial, redirects, outcomeVars>>

\* A reused connection that was closed under the request: the transport starts again.
AskAgain(w) ==
  /\ phase[w] = "exchange" /\ reused[w]
  /\ GoTo(w, "ask")
  /\ UNCHANGED httpVars

\* The response's head: a redirect that is followed, or the response Do goes on with.
Redirected(w) ==
  /\ phase[w] = "head" /\ redirects[w] < MaxRedirects
  /\ redirects' = [redirects EXCEPT ![w] = @ + 1]
  /\ GoTo(w, "ask")
  /\ UNCHANGED <<http, preflighted, now, traceVars, outcomeVars>>

\* l.390-392; FirstByte is read without the trace's lock.
Response(w) ==
  /\ phase[w] = "head"
  /\ \E s \in Statuses : status' = [status EXCEPT ![w] = s]
  /\ connAcquired' = [connAcquired EXCEPT ![w] = IF haveConn[w] THEN trace[w].gotConn ELSE started[w]]
  /\ firstByte' = [firstByte EXCEPT ![w] = trace[w].firstByte]
  /\ GoTo(w, "drain")
  /\ UNCHANGED <<http, preflighted, now, traceVars, redirects, overLimit, started, ended, phases>>

\* client.Do fails: the context ended, the dial or the exchange failed, or there was one
\* redirect too many.
TransportErrors(w) ==
  (IF ctx[w] = "live" THEN {} ELSE {ctx[w]})
    \cup (IF phase[w] = "conn" /\ dial[w] = "failed" THEN DialErrors ELSE {})
    \cup (IF phase[w] = "exchange" THEN {"eof"} ELSE {})
    \cup (IF phase[w] = "head" /\ redirects[w] = MaxRedirects THEN {"redirects"} ELSE {})

ClientFails(w) ==
  /\ phase[w] \in {"ask", "conn", "exchange", "head"}
  /\ \E e \in TransportErrors(w) : FailTo(w, e, "failedDo")
  /\ UNCHANGED httpVars

\* l.383-387: the fallback is read before the trace is looked at, and the end after.
FailedDo(w) ==
  /\ phase[w] = "failedDo"
  /\ \E t \in Readings :
       /\ connAcquired' = [connAcquired EXCEPT ![w] = IF haveConn[w] THEN trace[w].gotConn ELSE now]
       /\ ended' = [ended EXCEPT ![w] = t]
       /\ now' = t
  /\ GoTo(w, "classifyError")
  /\ UNCHANGED <<http, preflighted, traceVars, redirects, status, overLimit, started, firstByte,
                 phases>>

\* drain: a body over the limit is drained without its error; otherwise an error
\* counts.  The clock is read at the end of it.
Drain(w) ==
  /\ phase[w] = "drain"
  /\ \/ \E over \in {FALSE, Request(w).limited} :
          /\ overLimit' = [overLimit EXCEPT ![w] = over]
          /\ GoTo(w, "observe")
     \/ /\ \E e \in {"eof"} \cup (IF ctx[w] = "live" THEN {} ELSE {ctx[w]}) : FailTo(w, e, "observe")
        /\ UNCHANGED overLimit
  /\ \E t \in Readings : now' = t /\ ended' = [ended EXCEPT ![w] = t]
  /\ UNCHANGED <<http, preflighted, traceVars, redirects, status, started, connAcquired,
                 firstByte, phases>>

(***************************************************************************)
(* phases and the class of the outcome.                                    *)
(***************************************************************************)
Since(from, to) == IF to > from THEN to - from ELSE 0

\* Mutant of Phases: the time to the first byte is taken from the start of the wait.
PhasesFromAsk(w, end) ==
  LET t == trace[w]
  IN  [connWait |-> Since(t.getConn, t.gotConn), ttfb |-> Since(t.getConn, t.firstByte),
       transfer |-> Since(t.firstByte, end), connected |-> haveConn[w]]

\* phaseTrace.phases, under its lock.
Phases(w, end) ==
  LET t == trace[w]
  IN  [connWait  |-> Since(t.getConn, t.gotConn),
       ttfb      |-> IF haveConn[w] THEN Since(t.gotConn, t.firstByte) ELSE 0,
       transfer  |-> IF t.firstByte > 0 THEN Since(t.firstByte, end) ELSE 0,
       connected |-> haveConn[w]]

Observe(w) ==
  /\ phase[w] = "observe"
  /\ phases' = [phases EXCEPT ![w] = Phases(w, ended[w])]
  /\ GoTo(w, IF err[w] = "none" THEN "classifyResponse" ELSE "classifyError")
  /\ UNCHANGED <<http, preflighted, now, traceVars, redirects, status, overLimit, started,
                 connAcquired, firstByte, ended>>

StatusClass(s) ==
  CASE s >= 500 -> "http_5xx"
    [] s >= 400 /\ s < 500 -> "http_4xx"
    [] OTHER -> "expect_failed"

ClassifyResponse(s, request, over) ==
  IF request.limited /\ over THEN "expect_failed"
  ELSE IF request.expect # {}
       THEN IF s \in request.expect THEN "ok" ELSE StatusClass(s)
       ELSE IF s >= 200 /\ s < 400 THEN "ok" ELSE StatusClass(s)

ClassifyTransportError(e) ==
  CASE e \in {"deadline", "stalled"} -> "timeout"
    [] e = "canceled" -> "canceled"
    [] e = "nohost" -> "dns"
    [] e = "certificate" -> "tls"
    [] e \in {"refused", "eof"} -> "connection"
    [] OTHER -> "other"

Classify(w) ==
  /\ \/ /\ phase[w] = "classifyResponse"
        /\ Decide(w, ClassifyResponse(status[w], Request(w), overLimit[w]), "record")
     \/ /\ phase[w] = "classifyError"
        /\ Decide(w, ClassifyTransportError(err[w]), "record")
  /\ UNCHANGED httpVars

RecordRequest(w) ==
  /\ runnerOf[w] = "http" /\ Record(w)
  /\ trace' = [trace EXCEPT ![w] = [s \in Stamps |-> 0]]
  /\ reused' = [reused EXCEPT ![w] = FALSE] /\ haveConn' = [haveConn EXCEPT ![w] = FALSE]
  /\ dial' = [dial EXCEPT ![w] = "none"]
  /\ redirects' = [redirects EXCEPT ![w] = 0]
  /\ status' = [status EXCEPT ![w] = 0] /\ overLimit' = [overLimit EXCEPT ![w] = FALSE]
  /\ started' = [started EXCEPT ![w] = 0] /\ connAcquired' = [connAcquired EXCEPT ![w] = 0]
  /\ firstByte' = [firstByte EXCEPT ![w] = 0] /\ ended' = [ended EXCEPT ![w] = 0]
  /\ phases' = [phases EXCEPT ![w] = NoPhases]
  /\ UNCHANGED <<http, preflighted, now>>

\* The steps of a call but its start and the end of its dial.
RequestStep(w) ==
  \/ Build(w) \/ Ask(w) \/ GotConn(w) \/ FirstByte(w) \/ AskAgain(w) \/ Redirected(w)
  \/ Response(w) \/ ClientFails(w) \/ FailedDo(w) \/ Drain(w) \/ Observe(w)
  \/ Classify(w) \/ RecordRequest(w)

=============================================================================
