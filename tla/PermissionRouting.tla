-------------------------- MODULE PermissionRouting --------------------------
(***************************************************************************)
(* The permission requests of one agent: which handler owns them           *)
(* (session-bridge.ts connect and disconnect, session.ts unregisterBridge, *)
(* the headless handler of core.ts), the pipeline of resolvePermission(),  *)
(* and the gate that holds the one request a user can answer               *)
(* (permission-gate.ts).                                                   *)
(***************************************************************************)
EXTENDS Naturals, FiniteSets

CONSTANTS
  Bridges,      \* the adapters that may be attached
  Channel,      \* the adapter of the session's own channel, never detached
  Requests,     \* the permission requests of the agent
  Allowable,    \* the requests that offer an allow option
  NoRequest     \* no request is pending in the gate

ASSUME RequestsAssumption == NoRequest \notin Requests /\ Allowable \subseteq Requests

VARIABLES
  lifecycle,  \* Session._lifecycleState
  conn,       \* the connected bridges
  owner,      \* who agentInstance.onPermissionRequest belongs to
  frame,      \* what the handler of every request awaits
  via,        \* the bridge whose resolvePermission() handles the request
  promise,    \* the promise setPending() returned for every request
  gate,       \* the request pending in the gate, or NoRequest
  shown,      \* <<adapter, request>> prompts a user can still answer
  answer,     \* history: how every request was answered
  chosen      \* history: the requests a user answered

vars == <<lifecycle, conn, owner, frame, via, promise, gate, shown, answer, chosen>>

Frames  == {"new", "middleware", "sending", "waiting", "stuck", "done"}
Answers == {"none", "denied", "automatic", "headless", "user", "error"}
Outcomes == {"pass", "block", "resolve", "bypass"}

Init ==
  /\ lifecycle = "live" /\ conn = {} /\ owner = "headless"
  /\ frame = [r \in Requests |-> "new"] /\ via = [r \in Requests |-> "none"]
  /\ promise = [r \in Requests |-> "none"] /\ gate = NoRequest
  /\ shown = {} /\ answer = [r \in Requests |-> "none"] /\ chosen = {}

\* isCurrentLiveBridge() of the bridge handling the request.
CurrentLive(r) == via[r] \in conn /\ lifecycle = "live"

\* The handler returns and the agent is told nothing.
MutantAnswersNothing(r, how) ==
  frame' = [frame EXCEPT ![r] = "done"] /\ UNCHANGED answer

Answered(r, how) ==
  /\ frame' = [frame EXCEPT ![r] = "done"]
  /\ answer' = [answer EXCEPT ![r] = how]

(***************************************************************************)
(* The gate.                                                               *)
(***************************************************************************)
\* The promise of a superseded request is forgotten instead of rejected.
MutantForgetsSuperseded(r) ==
  promise' = [promise EXCEPT ![r] = "pending"] /\ gate' = r

\* setPending() rejects the request it supersedes.
SetPending(r) ==
  /\ promise' = [q \in Requests |-> CASE q = r -> "pending"
                                      [] q = gate -> "rejected"
                                      [] OTHER -> promise[q]]
  /\ gate' = r

\* The gate is cleared before the promise is settled.
MutantClearsFirst(how) == gate' = NoRequest /\ UNCHANGED promise

\* resolve() and reject(): no-ops once settled.
Settle(how) ==
  /\ gate' = NoRequest
  /\ promise' = IF gate = NoRequest THEN promise ELSE [promise EXCEPT ![gate] = how]

(***************************************************************************)
(* A request of the agent goes to the handler that owns it at that moment. *)
(***************************************************************************)
AskHeadless(r) ==
  /\ owner = "headless"
  /\ IF r \in Allowable
     THEN Answered(r, "headless")
     ELSE frame' = [frame EXCEPT ![r] = "stuck"] /\ UNCHANGED answer
  /\ UNCHANGED via

AskBridge(r) ==
  /\ owner \in Bridges /\ lifecycle = "live"
  /\ frame' = [frame EXCEPT ![r] = "middleware"]
  /\ via' = [via EXCEPT ![r] = owner] /\ UNCHANGED answer

AskNobody(r) ==
  /\ owner = "noop" \/ (owner \in Bridges /\ lifecycle # "live")
  /\ Answered(r, "denied") /\ UNCHANGED via

Ask(r) ==
  /\ frame[r] = "new" /\ lifecycle # "destroyed"
  /\ AskHeadless(r) \/ AskBridge(r) \/ AskNobody(r)
  /\ UNCHANGED <<lifecycle, conn, owner, promise, gate, shown, chosen>>

\* Middleware, auto-approval, and the gate with the prompts of every adapter.
\* An auto-approved request is shown by the secondary bridges if the gate
\* happens to hold another one.
PipelineDecides(r, outcome) ==
  /\ frame[r] = "middleware"
  /\ IF ~CurrentLive(r) \/ outcome = "block"
     THEN Answered(r, "denied") /\ UNCHANGED <<promise, gate, shown, via>>
     ELSE \/ /\ outcome = "resolve" /\ Answered(r, "automatic")
             /\ UNCHANGED <<promise, gate, shown, via>>
          \/ /\ outcome = "bypass" /\ r \in Allowable /\ Answered(r, "automatic")
             /\ shown' = IF gate = NoRequest THEN shown
                         ELSE shown \cup ((conn \ {owner}) \X {r})
             /\ UNCHANGED <<promise, gate, via>>
          \/ /\ outcome = "pass" /\ SetPending(r)
             /\ shown' = shown \cup (conn \X {r})
             /\ frame' = [frame EXCEPT ![r] = "sending"] /\ UNCHANGED <<via, answer>>
  /\ UNCHANGED <<lifecycle, conn, owner, chosen>>

\* The adapter's sendPermissionRequest() settles.
SendSettles(r, ok) ==
  /\ frame[r] = "sending"
  /\ CASE ~ok                   -> Answered(r, "error")
       [] ok /\ ~CurrentLive(r) -> Answered(r, "denied")
       [] ok /\ CurrentLive(r)  -> frame' = [frame EXCEPT ![r] = "waiting"] /\ UNCHANGED answer
  /\ UNCHANGED <<lifecycle, conn, owner, via, promise, gate, shown, chosen>>

PromiseObserved(r) ==
  /\ frame[r] = "waiting" /\ promise[r] \in {"resolved", "rejected"}
  /\ Answered(r, IF promise[r] = "resolved" THEN "user" ELSE "error")
  /\ UNCHANGED <<lifecycle, conn, owner, via, promise, gate, shown, chosen>>

\* A click on a stale prompt resolves whatever the gate holds.
MutantAnswersAnything(b, r) ==
  /\ <<b, r>> \in shown /\ shown' = shown \ {<<b, r>>} /\ chosen' = chosen \cup {r}
  /\ Settle("resolved")
  /\ UNCHANGED <<lifecycle, conn, owner, frame, via, answer>>

\* A user answers a prompt of an adapter: only the request of the gate counts.
UserAnswers(b, r) ==
  /\ <<b, r>> \in shown /\ shown' = shown \ {<<b, r>>} /\ chosen' = chosen \cup {r}
  /\ IF gate = r THEN Settle("resolved") ELSE UNCHANGED <<gate, promise>>
  /\ UNCHANGED <<lifecycle, conn, owner, frame, via, answer>>

\* The REST routes resolve the pending request only under its own id.
ApiAnswers(r) ==
  /\ gate = r /\ Settle("resolved") /\ chosen' = chosen \cup {r}
  /\ UNCHANGED <<lifecycle, conn, owner, frame, via, shown, answer>>

GateTimesOut ==
  /\ gate # NoRequest /\ Settle("rejected")
  /\ UNCHANGED <<lifecycle, conn, owner, frame, via, shown, answer, chosen>>

(***************************************************************************)
(* Ownership of the handler.                                               *)
(***************************************************************************)
\* connect(): the first bridge takes the handler, later ones leave it alone.
Connect(b) ==
  /\ lifecycle = "live" /\ b \notin conn
  /\ conn' = conn \cup {b}
  /\ owner' = IF owner \in Bridges THEN owner ELSE b
  /\ UNCHANGED <<lifecycle, frame, via, promise, gate, shown, answer, chosen>>

\* disconnect(): the owner leaves a no-op, then unregisterBridge() restores the
\* headless handler once the last bridge of a live session is gone.
OwnerWithout(S) ==
  IF conn \ S = {} THEN "headless" ELSE IF owner \in S THEN "noop" ELSE owner

Disconnect(b) ==
  /\ lifecycle = "live" /\ b \in conn \ {Channel}
  /\ conn' = conn \ {b} /\ owner' = OwnerWithout({b})
  /\ UNCHANGED <<lifecycle, frame, via, promise, gate, shown, answer, chosen>>

\* beginTermination() and the disconnection of every bridge, in one turn.
Terminate ==
  /\ lifecycle = "live" /\ lifecycle' = "terminating"
  /\ conn' = {} /\ owner' = IF owner \in Bridges THEN "noop" ELSE owner
  /\ UNCHANGED <<frame, via, promise, gate, shown, answer, chosen>>

\* performDestroy() rejects the pending request.
Destroy ==
  /\ lifecycle = "terminating" /\ lifecycle' = "destroyed"
  /\ Settle("rejected")
  /\ UNCHANGED <<conn, owner, frame, via, shown, answer, chosen>>

Pipeline(r) == \/ \E outcome \in Outcomes : PipelineDecides(r, outcome)
               \/ \E ok \in BOOLEAN : SendSettles(r, ok)
               \/ PromiseObserved(r)

Next ==
  \/ \E r \in Requests : Ask(r) \/ Pipeline(r) \/ ApiAnswers(r)
  \/ \E b \in Bridges, r \in Requests : UserAnswers(b, r)
  \/ \E b \in Bridges : Connect(b) \/ Disconnect(b)
  \/ GateTimesOut \/ Terminate \/ Destroy

Spec == Init /\ [][Next]_vars

\* Middleware is bounded, adapters settle their sends, timers fire; nothing
\* makes a user answer or the session end.
FairSpec == /\ Spec /\ WF_vars(GateTimesOut)
            /\ \A r \in Requests : WF_vars(Pipeline(r))

(***************************************************************************)
(* Properties.                                                             *)
(***************************************************************************)
\* Every variable keeps its type; a bridge handles only requests it was asked.
TypeOK ==
  /\ lifecycle \in {"live", "terminating", "destroyed"}
  /\ conn \subseteq Bridges /\ owner \in Bridges \cup {"headless", "noop"}
  /\ frame \in [Requests -> Frames] /\ via \in [Requests -> Bridges \cup {"none"}]
  /\ promise \in [Requests -> {"none", "pending", "resolved", "rejected"}]
  /\ gate \in Requests \cup {NoRequest} /\ shown \subseteq Bridges \X Requests
  /\ answer \in [Requests -> Answers] /\ chosen \subseteq Requests
  /\ \A r \in Requests : (frame[r] = "done") = (answer[r] # "none")

\* The gate's request is the only one whose promise is unsettled, so that
\* superseding a request can leave no caller waiting.
OnePromisePending ==
  \A r \in Requests : (promise[r] = "pending") = (gate = r)

\* What the agent is told a user chose for a request was chosen for it, however
\* late the click and whatever superseded the request.
AnswersReachTheirRequest ==
  \A r \in Requests : answer[r] = "user" => r \in chosen

\* Every request a bridge took on is answered, although it is superseded, its
\* bridge disconnected, nobody clicks, or the session destroyed.
BridgedRequestAnswered ==
  \A r \in Requests : frame[r] \in {"middleware", "sending", "waiting"} ~> frame[r] = "done"

\* Superseding, a late click or a lost bridge never mixes two requests up, and
\* never leaves one without its answer.
RequestsKeepApart == [](OnePromisePending /\ AnswersReachTheirRequest) /\ BridgedRequestAnswered
=============================================================================
