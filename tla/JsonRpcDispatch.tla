-------------------------- MODULE JsonRpcDispatch --------------------------
(***************************************************************************)
(* What the control API answers to one frame: the first checks of          *)
(* _handle_client (api/jsonrpc_ws.py) and dispatch_request                 *)
(* (api/jsonrpc.py), above the handlers of api/server.py.                  *)
(*                                                                         *)
(* A frame is not JSON, not an object, or a request: its version, its      *)
(* method, and its parameters as a record of what the code tells apart in  *)
(* a value.  A number is "integral", "infinite" (JSON text like Infinity   *)
(* or 1e999) or, for everything else that int() refuses, "other".          *)
(***************************************************************************)
EXTENDS Naturals

NotJson   == [form |-> "text"]
NotObject == [form |-> "value"]
Request(version, method, params) ==
    [form |-> "request", version |-> version, method |-> method, params |-> params]

(* params is missing or null; params is not an object.                     *)
NoParams  == [params |-> "none"]
BadParams == [params |-> "other"]

Result == [kind |-> "result"]
Error(code) == [kind |-> "error", code |-> code]
Replies == {Result} \cup {Error(code) : code \in {1000, 1001, 1100, 1200}}

Given(request, name) == name \in DOMAIN request.params

-----------------------------------------------------------------------------
(* Calling a method *)

Returns == "returns"

(* int(value) as the code guards it, for a parameter with a default.       *)
AsInteger(request, name) ==
    IF ~Given(request, name) THEN Returns
    ELSE CASE request.params[name] = "integral" -> Returns
           [] request.params[name] = "other"    -> "ValueError"
           [] request.params[name] = "infinite" -> "OverflowError"

(* What a known method does in a runtime of this status and these agents:  *)
(* it returns, raises, or lacks a parameter.                               *)
Called(status, agents, request) ==
    CASE request.method \in {"runtime.get_status", "swarm.get_overview"} -> Returns
      [] request.method = "runtime.shutdown" ->
           IF AsInteger(request, "timeout_seconds") # Returns
           THEN AsInteger(request, "timeout_seconds")
           ELSE IF status = "Running" THEN Returns ELSE "RuntimeError"
      [] request.method = "agent.get_detail" ->
           IF ~Given(request, "agent_id") THEN "invalid"
           ELSE IF AsInteger(request, "max_events") # Returns
           THEN AsInteger(request, "max_events")
           ELSE IF request.params.agent_id \in agents THEN Returns ELSE "KeyError"
      [] request.method = "events.subscribe" ->
           IF Given(request, "agent_ids") /\ request.params.agent_ids = "other"
           THEN "invalid" ELSE Returns
      [] request.method = "events.unsubscribe" ->
           IF Given(request, "subscription_id") THEN Returns ELSE "invalid"
      [] OTHER -> "invalid"

(* The except clauses of dispatch_request, and its own error answers.      *)
CodeOf(outcome) ==
    CASE outcome \in {"invalid", "ValueError"} -> 1000
      [] outcome = "KeyError"                  -> 1001
      [] outcome = "RuntimeError"              -> 1100
      [] OTHER                                 -> 1200

WellFormed(frame) ==
    /\ frame.form = "request"
    /\ frame.version = "2.0"
    /\ frame.method # "none"
    /\ frame.params # BadParams

(* The answer to a frame.                                                  *)
Reply(status, agents, frame) ==
    IF ~WellFormed(frame) THEN Error(1000)
    ELSE LET outcome == Called(status, agents, frame)
         IN  IF outcome = Returns THEN Result ELSE Error(CodeOf(outcome))

(* Only an answered runtime.shutdown changes what these modules follow of  *)
(* a runtime; a subscription is undone when its connection ends.           *)
ShutsDown(frame, reply) ==
    frame.form = "request" /\ frame.method = "runtime.shutdown" /\ reply = Result
=============================================================================
