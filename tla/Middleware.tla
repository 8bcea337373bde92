----------------------------- MODULE Middleware -----------------------------
(***************************************************************************)
(* The middleware of pkg/http/server around the user's handler: the        *)
(* responseWriter that captures status and size, the recovery of panics    *)
(* with WriteProblem, and the metrics, for requests served concurrently.   *)
(*                                                                         *)
(* res is the response net/http keeps behind the writer (external).  The   *)
(* handler is the user's: it calls the writer as it likes, then returns or *)
(* panics.  Requests are not HEAD, whose bodies net/http drops.            *)
(***************************************************************************)
EXTENDS Integers, Sequences, FiniteSets

CONSTANTS
    Requests,   \* the requests the server is given
    Patterns,   \* the patterns of the mux
    Codes,      \* the status codes handlers use, 0 for an invalid one
    MaxCalls    \* bound: calls of the writer a handler makes

NoPattern == ""  \* r.Pattern before the mux has matched the request
Labels == Patterns \cup {NoPattern}

ASSUME RequestsFinite == IsFiniteSet(Requests)
ASSUME PatternsMatch == NoPattern \notin Patterns
ASSUME CodesAreInts == Codes \subseteq Int
ASSUME MaxCallsType == MaxCalls \in Nat

VARIABLES
    pc,        \* where the request is
    pattern,   \* r.Pattern
    inflightPattern,  \* the pattern read on entry
    rw,        \* the responseWriter: statusCode, size, wroteHeader
    res,       \* net/http's response: status, body, whether informational
               \* headers went out, whether a Flush sent the status, whether
               \* the connection was hijacked
    calls,     \* how often the handler has called the writer
    panicked,  \* the handler panicked
    gone,      \* the client's end of the connection is closed
    inflight,  \* http_requests_inflight, by http_handler
    panics,    \* http_panic_recovery_total, by http_handler
    observed   \* what was recorded for the request: http_handler, code, size

muxVars == <<pattern, inflightPattern>>
metricVars == <<inflight, panics, observed>>
vars == <<pc, pattern, inflightPattern, rw, res, calls, panicked, gone,
          inflight, panics, observed>>

-----------------------------------------------------------------------------
(* net/http.                                                                *)

Sent(s) == s.status # 0
Informational(c) == c \in 100 .. 199 /\ c # 101
Valid(c) == c \in 100 .. 999
BodyAllowed(c) == c >= 200 /\ c \notin {204, 304}

\* A final status is sent once; an informational one goes out before it.
NetWriteHeader(s, c) ==
    IF s.hijacked \/ Sent(s) \/ ~Valid(c) THEN s
    ELSE IF Informational(c) THEN [s EXCEPT !.informed = TRUE]
    ELSE [s EXCEPT !.status = c]

NetFlush(s) == NetWriteHeader(s, 200)

\* Write sends the header first if nothing did, and n is 0 when it fails.
NetAccepts(s) == ~s.hijacked /\ BodyAllowed(NetFlush(s).status)
NetWrite(s, part, n) ==
    IF n = 0 THEN NetFlush(s) ELSE [NetFlush(s) EXCEPT !.body = Append(@, part)]

-----------------------------------------------------------------------------
(* responseWriter.                                                          *)

WriteHeader(w, c) ==
    IF w.wroteHeader THEN w ELSE [w EXCEPT !.statusCode = c, !.wroteHeader = TRUE]

\* FAULTY: only WriteHeader marks the header as written.
WriteForgets(w, n) == [w EXCEPT !.size = @ + n]

Write(w, n) == [w EXCEPT !.wroteHeader = TRUE, !.size = @ + n]

\* WriteProblem: a header with status 500, then the document.
WriteProblem(w, n) == Write(WriteHeader(w, 500), n)

\* The outcomes n of a write: a client that is gone makes it fail sooner or later.
Outcomes(r, s) ==
    IF ~NetAccepts(s) THEN {0} ELSE IF gone[r] THEN {0, 1} ELSE {1}

-----------------------------------------------------------------------------
Init ==
    /\ pc = [r \in Requests |-> "idle"]
    /\ pattern = [r \in Requests |-> NoPattern]
    /\ inflightPattern = [r \in Requests |-> NoPattern]
    /\ rw = [r \in Requests |-> [statusCode |-> 200, size |-> 0, wroteHeader |-> FALSE]]
    /\ res = [r \in Requests |-> [status |-> 0, body |-> <<>>, informed |-> FALSE,
                                  flushed |-> FALSE, hijacked |-> FALSE]]
    /\ calls = [r \in Requests |-> 0]
    /\ panicked = [r \in Requests |-> FALSE]
    /\ gone = [r \in Requests |-> FALSE]
    /\ inflight = [l \in Labels |-> 0]
    /\ panics = [l \in Labels |-> 0]
    /\ observed = [r \in Requests |-> <<>>]

Moves(r, from, to) == pc[r] = from /\ pc' = [pc EXCEPT ![r] = to]

\* The middleware is entered: r.Pattern is read and the gauge incremented under it.
Enter(r) ==
    /\ Moves(r, "idle", "entered")
    /\ inflightPattern' = [inflightPattern EXCEPT ![r] = pattern[r]]
    /\ inflight' = [inflight EXCEPT ![pattern[r]] = @ + 1]
    /\ UNCHANGED <<pattern, rw, res, calls, panicked, gone, panics, observed>>

\* The mux matches the request and sets r.Pattern in place, or answers it itself.
Route(r) ==
    /\ Moves(r, "entered", "handling")
    /\ \E p \in Labels : pattern' = [pattern EXCEPT ![r] = p]
    /\ UNCHANGED <<inflightPattern, rw, res, calls, panicked, gone, metricVars>>

(* The handler calls the writer.                                            *)

Call(r, w, s) ==
    /\ pc[r] = "handling"
    /\ calls[r] < MaxCalls
    /\ calls' = [calls EXCEPT ![r] = @ + 1]
    /\ rw' = [rw EXCEPT ![r] = w]
    /\ res' = [res EXCEPT ![r] = s]
    /\ UNCHANGED <<muxVars, metricVars, gone>>

\* net/http panics on an invalid code, after the wrapper has taken note of it.
CallWriteHeader(r, c) ==
    /\ Call(r, WriteHeader(rw[r], c), NetWriteHeader(res[r], c))
    /\ pc' = IF Valid(c) \/ Sent(res[r]) \/ res[r].hijacked
             THEN pc ELSE [pc EXCEPT ![r] = "panicking"]
    /\ panicked' = [panicked EXCEPT ![r] = pc'[r] = "panicking"]

CallWrite(r) ==
    /\ \E n \in Outcomes(r, res[r]) :
          Call(r, Write(rw[r], n), NetWrite(res[r], "part", n))
    /\ UNCHANGED <<pc, panicked>>

CallFlush(r) ==
    /\ Call(r, rw[r], [NetFlush(res[r]) EXCEPT !.flushed = @ \/ ~Sent(res[r])])
    /\ UNCHANGED <<pc, panicked>>

\* A second Hijack is an error and changes nothing.
CallHijack(r) ==
    /\ Call(r, rw[r], [res[r] EXCEPT !.hijacked = TRUE])
    /\ UNCHANGED <<pc, panicked>>

HandlerReturns(r) ==
    /\ Moves(r, "handling", "observing")
    /\ UNCHANGED <<muxVars, metricVars, rw, res, calls, panicked, gone>>

HandlerPanics(r) ==
    /\ Moves(r, "handling", "panicking")
    /\ panicked' = [panicked EXCEPT ![r] = TRUE]
    /\ UNCHANGED <<muxVars, metricVars, rw, res, calls, gone>>

(* The deferred function.                                                   *)

\* FAULTY: the problem document is written without its status.
RecoverWithoutStatus(r) ==
    /\ Moves(r, "panicking", "observing")
    /\ \E n \in Outcomes(r, res[r]) :
          /\ rw' = [rw EXCEPT ![r] = IF @.wroteHeader THEN @ ELSE Write(@, n)]
          /\ res' = [res EXCEPT ![r] = IF rw[r].wroteHeader THEN @
                                       ELSE NetWrite(@, "problem", n)]
    /\ panics' = [panics EXCEPT ![pattern[r]] = @ + 1]
    /\ UNCHANGED <<muxVars, inflight, observed, calls, panicked, gone>>

\* The panic is recovered and counted; if the wrapper has seen no header,
\* WriteProblem sends status 500 and the problem document.
Recover(r) ==
    /\ Moves(r, "panicking", "observing")
    /\ IF rw[r].wroteHeader
       THEN UNCHANGED <<rw, res>>
       ELSE LET s == NetWriteHeader(res[r], 500) IN
            \E n \in Outcomes(r, s) :
                /\ rw' = [rw EXCEPT ![r] = WriteProblem(@, n)]
                /\ res' = [res EXCEPT ![r] = NetWrite(s, "problem", n)]
    /\ panics' = [panics EXCEPT ![pattern[r]] = @ + 1]
    /\ UNCHANGED <<muxVars, inflight, observed, calls, panicked, gone>>

ObservedOf(r) == <<[handler |-> pattern[r], code |-> rw[r].statusCode, size |-> rw[r].size]>>

\* FAULTY: the gauge is decremented under the pattern the mux has set.
ObserveUnderPattern(r) ==
    /\ Moves(r, "observing", "finishing")
    /\ observed' = [observed EXCEPT ![r] = ObservedOf(r)]
    /\ inflight' = [inflight EXCEPT ![pattern[r]] = @ - 1]
    /\ UNCHANGED <<muxVars, rw, res, calls, panicked, gone, panics>>

\* Duration and size are recorded under the pattern that was matched, the gauge is
\* decremented under the one read on entry.
Observe(r) ==
    /\ Moves(r, "observing", "finishing")
    /\ observed' = [observed EXCEPT ![r] = ObservedOf(r)]
    /\ inflight' = [inflight EXCEPT ![inflightPattern[r]] = @ - 1]
    /\ UNCHANGED <<muxVars, rw, res, calls, panicked, gone, panics>>

\* net/http ends the response, with status 200 if nobody chose one.
Finish(r) ==
    /\ Moves(r, "finishing", "done")
    /\ res' = [res EXCEPT ![r] = NetFlush(@)]
    /\ UNCHANGED <<muxVars, metricVars, rw, calls, panicked, gone>>

ClientGone(r) ==
    /\ ~gone[r]
    /\ gone' = [gone EXCEPT ![r] = TRUE]
    /\ UNCHANGED <<pc, muxVars, metricVars, rw, res, calls, panicked>>

HandlerStep(r) ==
    \/ \E c \in Codes : CallWriteHeader(r, c)
    \/ CallWrite(r) \/ CallFlush(r) \/ CallHijack(r)
    \/ HandlerReturns(r) \/ HandlerPanics(r)

ServerStep(r) ==
    Enter(r) \/ Route(r) \/ Recover(r) \/ Observe(r) \/ Finish(r)

Next == \E r \in Requests : ServerStep(r) \/ HandlerStep(r) \/ ClientGone(r)

Spec == Init /\ [][Next]_vars

-----------------------------------------------------------------------------
(* Properties.                                                              *)

Writers == [statusCode : Int, size : Nat, wroteHeader : BOOLEAN]
Responses == [status : Int, body : Seq({"part", "problem"}),
              informed : BOOLEAN, flushed : BOOLEAN, hijacked : BOOLEAN]

\* The state of the requests is well formed.
TypeOK ==
    /\ pc \in [Requests -> {"idle", "entered", "handling", "panicking",
                            "observing", "finishing", "done"}]
    /\ pattern \in [Requests -> Labels]
    /\ inflightPattern \in [Requests -> Labels]
    /\ rw \in [Requests -> Writers]
    /\ res \in [Requests -> Responses]
    /\ calls \in [Requests -> 0 .. MaxCalls]
    /\ panicked \in [Requests -> BOOLEAN]
    /\ gone \in [Requests -> BOOLEAN]
    /\ inflight \in [Labels -> Int]
    /\ panics \in [Labels -> Nat]
    /\ observed \in [Requests -> Seq([handler : Labels, code : Int, size : Nat])]

InProgress(l) ==
    {r \in Requests : /\ pc[r] \in {"entered", "handling", "panicking", "observing"}
                      /\ inflightPattern[r] = l}

\* The gauge of every label counts the requests in progress that were counted
\* under it, although the mux changes r.Pattern in between and handlers panic.
InflightMatches == \A l \in Labels : inflight[l] = Cardinality(InProgress(l))

\* What net/http does that the wrapper does not see: an informational header, a
\* status sent by Flush, a hijacked connection, a code that was refused.
Unseen(r) ==
    res[r].informed \/ res[r].flushed \/ res[r].hijacked \/ ~Valid(rw[r].statusCode)

\* What is recorded for a request is what its client was sent: the bytes of the
\* body always, the code except in the cases the wrapper cannot see.
RecordedIsSent ==
    \A r \in Requests : pc[r] = "done" =>
        /\ observed[r][1].size = Len(res[r].body)
        /\ Unseen(r) \/ observed[r][1].code = res[r].status

Recovered(r) == panicked[r] /\ pc[r] \in {"observing", "finishing", "done"}

\* The panic counter of every label counts the requests routed to it whose panic
\* was recovered, each once, the panics net/http raises inside the writer included.
PanicsCounted ==
    \A l \in Labels :
        panics[l] = Cardinality({r \in Requests : Recovered(r) /\ pattern[r] = l})

\* A handler that panics before it has begun its response is answered with status
\* 500 and the problem document; a response it has begun is left as it is.
PanicAnswered ==
    \A r \in Requests : Recovered(r) /\ ~Unseen(r) =>
        IF calls[r] = 0
        THEN res[r].status = 500 /\ (gone[r] \/ res[r].body = <<"problem">>)
        ELSE \A i \in 1 .. Len(res[r].body) : res[r].body[i] = "part"

\* The problem document is only ever the body of a response with status 500:
\* nothing is added to a response that has begun.
ProblemIsWholeResponse ==
    \A r \in Requests : \A i \in 1 .. Len(res[r].body) :
        res[r].body[i] = "problem" => res[r].status = 500 /\ Len(res[r].body) = 1
=============================================================================
