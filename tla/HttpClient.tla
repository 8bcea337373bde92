----------------------------- MODULE HttpClient -----------------------------
(***************************************************************************)
(* Do of pkg/http/client against a server of pkg/http/server: the client   *)
(* sends the request, waits for the header, reads the body while the       *)
(* handler may still be writing it, checks the status and decodes, and may *)
(* give up at any moment.  The server is module Middleware.                *)
(*                                                                         *)
(* The handler means to send a JSON document in two writes.  The transport *)
(* and encoding/json are external.                                         *)
(***************************************************************************)
EXTENDS Middleware

VARIABLES
    do,      \* where Do is
    answer   \* what Do returned: an error, the zero value, or a decoded value

doVars == <<do, answer>>
xvars == <<vars, doVars>>

Document == <<"part", "part">>

\* Documents that json.Unmarshal accepts for a struct T; a problem is one of them.
Decodable == {Document, <<"problem">>}

-----------------------------------------------------------------------------
XInit ==
    /\ Init
    /\ do = [r \in Requests |-> "none"]
    /\ answer = [r \in Requests |-> "none"]

\* http.NewRequestWithContext, the options, and the call of the transport.
Send(r) ==
    /\ do[r] = "none"
    /\ do' = [do EXCEPT ![r] = "sending"]
    /\ UNCHANGED <<vars, answer>>

NewRequestFails(r) ==
    /\ do[r] = "none"
    /\ do' = [do EXCEPT ![r] = "returned"]
    /\ answer' = [answer EXCEPT ![r] = "error"]
    /\ UNCHANGED vars

\* Do returns an error and the connection is given up.
GivesUp(r, from) ==
    /\ do[r] = from
    /\ do' = [do EXCEPT ![r] = "returned"]
    /\ answer' = [answer EXCEPT ![r] = "error"]
    /\ gone' = [gone EXCEPT ![r] = TRUE]
    /\ UNCHANGED <<pc, muxVars, metricVars, rw, res, calls, panicked>>

\* c.http.Do returns an error: no connection, a broken one, ctx done, or Timeout.
SendFails(r) == GivesUp(r, "sending")

\* The header arrives, when the handler flushes or ends or fills the buffer;
\* the transport passes over informational ones.
HeaderArrives(r) ==
    /\ do[r] = "sending"
    /\ Sent(res[r]) /\ ~gone[r]
    /\ do' = [do EXCEPT ![r] = "reading"]
    /\ UNCHANGED <<vars, answer>>

\* io.ReadAll fails: a broken connection, ctx done, or Timeout.
ReadFails(r) == GivesUp(r, "reading")

\* FAULTY: the status is not looked at.
DecodeAnyStatus(status, body) ==
    IF body = <<>> THEN "zero"
    ELSE IF body \in Decodable THEN "value" ELSE "error"

\* What Do returns for a body that was read to its end.
Decode(status, body) ==
    IF status \notin 200 .. 299 THEN "error"
    ELSE IF body = <<>> THEN "zero"
    ELSE IF body \in Decodable THEN "value" ELSE "error"

\* The server ended the response, the body is read to its end and closed.
ReadEnds(r) ==
    /\ do[r] = "reading"
    /\ pc[r] = "done" /\ ~gone[r] /\ ~res[r].hijacked
    /\ do' = [do EXCEPT ![r] = "returned"]
    /\ answer' = [answer EXCEPT ![r] = Decode(res[r].status, res[r].body)]
    /\ UNCHANGED vars

DoStep(r) ==
    \/ Send(r) \/ NewRequestFails(r) \/ SendFails(r) \/ HeaderArrives(r)
    \/ ReadFails(r) \/ ReadEnds(r)

\* The server sees a request that was sent, perhaps after the client gave up.
ServeStep(r) ==
    /\ pc[r] = "idle" => do[r] = "sending" \/ gone[r]
    /\ ServerStep(r) \/ HandlerStep(r)
    /\ UNCHANGED doVars

ConnectionBreaks(r) ==
    /\ do[r] \in {"sending", "reading"}
    /\ ClientGone(r)
    /\ UNCHANGED doVars

XNext == \E r \in Requests : DoStep(r) \/ ServeStep(r) \/ ConnectionBreaks(r)

XSpec == XInit /\ [][XNext]_xvars

-----------------------------------------------------------------------------
(* Properties.                                                              *)

\* Do returns no error only for a response that came to its end, and only if the
\* handler did not panic, or had begun the response before it did; a value is the
\* handler's whole document, unless a Flush had sent status 200 ahead of a panic.
SuccessIsServed ==
    \A r \in Requests : answer[r] \in {"zero", "value"} =>
        /\ pc[r] = "done"
        /\ panicked[r] => calls[r] > 0
        /\ answer[r] = "value" => res[r].body = Document \/ res[r].flushed
=============================================================================
