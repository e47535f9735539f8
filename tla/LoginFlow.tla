------------------------------ MODULE LoginFlow ------------------------------
(***************************************************************************)
(* `login` commands running the authorization-code flow on one machine:    *)
(* each binds a loopback port, serves the callback, opens the browser,     *)
(* waits for the redirect, exchanges the code, verifies the ID token and   *)
(* shuts its server down                                                   *)
(* (internal/oauthlogin/login.go, pkg/cliapp/login.go).                    *)
(*                                                                         *)
(* Browser tabs outlive the login that opened them: a redirect goes to the *)
(* port in its URI, whoever listens there by then, and may be reloaded.    *)
(* A tab's state parameter is the login it was opened by.  What is saved   *)
(* after the exchange is TokenStore's.                                     *)
(***************************************************************************)
EXTENDS Naturals, Sequences, SequencesExt

CONSTANTS Logins,      \* login commands
          AllPorts,    \* the registered callback ports, in the order tried
          MaxVisits    \* bound on the times one tab is sent to its port

ASSUME LoginFlowAssumption == MaxVisits \in Nat \ {0}

VARIABLES pc,         \* where each login is
          port,       \* the port it is bound to, or NoPort
          result,     \* its one-slot result channel
          code,       \* the login whose code it exchanges, or NoLogin
          cancelled,  \* is its context cancelled
          tabs,       \* the browser tabs that have a redirect to follow
          handlers    \* callback requests being handled

vars == <<pc, port, result, code, cancelled, tabs, handlers>>

NoPort == "none"
NoLogin == "none"

(* A redirect carries a code, or an error or nothing.                      *)
Outcomes == {"code", "refused"}

(* What a handler or the server pushes; Nil is the empty channel.          *)
Nil == [kind |-> "nil"]
Failure == [kind |-> "error"]
Code(l) == [kind |-> "code", of |-> l]

(* The server runs from serveCallback on until Shutdown.                   *)
Serving(l) == pc[l] \in {"serve", "opening", "wait", "exchange", "verify"}

Init ==
  /\ pc = [l \in Logins |-> "idle"]
  /\ port = [l \in Logins |-> NoPort]
  /\ result = [l \in Logins |-> Nil]
  /\ code = [l \in Logins |-> NoLogin]
  /\ cancelled = [l \in Logins |-> FALSE]
  /\ tabs = {}
  /\ handlers = {}

Goto(l, label) == pc' = [pc EXCEPT ![l] = label]

Free(p) == \A l \in Logins : port[l] # p

(* The command starts.  validateCallbackPort: one registered port is       *)
(* pinned, or all are tried; listenForCallback takes the first of the list *)
(* nobody listens on.                                                      *)
Bind(l) ==
  /\ pc[l] = "idle"
  /\ \E list \in {AllPorts} \cup {<<p>> : p \in Range(AllPorts)} :
       LET free == SelectSeq(list, Free)
       IN  IF free = <<>>
           THEN Goto(l, "returned") /\ UNCHANGED port
           ELSE Goto(l, "discover") /\ port' = [port EXCEPT ![l] = Head(free)]
  /\ UNCHANGED <<result, code, cancelled, tabs, handlers>>

(* The provider is discovered and serveCallback starts the server.         *)
Discover(l) ==
  /\ pc[l] = "discover"
  /\ Goto(l, "serve")
  /\ UNCHANGED <<port, result, code, cancelled, tabs, handlers>>

(* No state, or discovery fails or is cancelled: only the listener has to  *)
(* be closed.                                                              *)
DiscoverFails(l) ==
  /\ pc[l] = "discover"
  /\ Goto(l, "returned")
  /\ port' = [port EXCEPT ![l] = NoPort]
  /\ UNCHANGED <<result, code, cancelled, tabs, handlers>>

(* The browser is started, or the URL printed; the redirect that will come *)
(* back is a tab from now on, even before BrowserOpen has returned.        *)
Open(l) ==
  /\ pc[l] = "serve"
  /\ \E o \in Outcomes :
       tabs' = tabs \cup {[state |-> l, port |-> port[l], outcome |-> o, visits |-> MaxVisits]}
  /\ Goto(l, "opening")
  /\ UNCHANGED <<port, result, code, cancelled, handlers>>

Opened(l) ==
  /\ pc[l] = "opening"
  /\ Goto(l, "wait")
  /\ UNCHANGED <<port, result, code, cancelled, tabs, handlers>>

(* The deferred calls: Shutdown closes the listener at once.               *)
Leave(l) ==
  /\ Goto(l, "shutdown")
  /\ port' = [port EXCEPT ![l] = NoPort]

OpenFails(l) ==
  /\ pc[l] \in {"serve", "opening"}
  /\ Leave(l)
  /\ UNCHANGED <<result, code, cancelled, tabs, handlers>>

-----------------------------------------------------------------------------
(* The callback server.                                                    *)

(* A tab reaches the server that listens on its port; it is closed when it *)
(* has no visits left.                                                     *)
Visit(t, l) ==
  /\ t \in tabs
  /\ Serving(l) /\ port[l] = t.port
  /\ tabs' = (tabs \ {t}) \cup {u \in {[t EXCEPT !.visits = @ - 1]} : u.visits > 0}
  /\ handlers' = handlers \cup {[state |-> t.state, outcome |-> t.outcome, at |-> l]}
  /\ UNCHANGED <<pc, port, result, code, cancelled>>

(* Mutant: the state parameter is not compared.                            *)
AnswerAnyState(h) ==
  IF h.outcome = "code" THEN Code(h.state) ELSE Failure

(* The handler's three checks.                                             *)
Answer(h) ==
  IF h.outcome = "code" /\ h.state = h.at THEN Code(h.state) ELSE Failure

(* Mutant: the channel has no slot; a response nobody waits for is lost.   *)
PushUnbuffered(l, response) ==
  result' = IF pc[l] = "wait" /\ result[l] = Nil
            THEN [result EXCEPT ![l] = response] ELSE result

(* pushResult: the first response stays, the others are dropped.           *)
Push(l, response) ==
  result' = IF result[l] = Nil THEN [result EXCEPT ![l] = response] ELSE result

Handle(h) ==
  /\ h \in handlers
  /\ Push(h.at, Answer(h))
  /\ handlers' = handlers \ {h}
  /\ UNCHANGED <<pc, port, code, cancelled, tabs>>

(* Serve returns an error of its own.                                      *)
ServeFails(l) ==
  /\ Serving(l) /\ port[l] # NoPort
  /\ Push(l, Failure)
  /\ port' = [port EXCEPT ![l] = NoPort]
  /\ UNCHANGED <<pc, code, cancelled, tabs, handlers>>

-----------------------------------------------------------------------------
(* waitForCallback: the response, or the end of the context.               *)
Receive(l) ==
  /\ pc[l] = "wait" /\ result[l] # Nil
  /\ IF result[l].kind = "code"
     THEN /\ Goto(l, "exchange")
          /\ code' = [code EXCEPT ![l] = result[l].of]
          /\ UNCHANGED port
     ELSE Leave(l) /\ UNCHANGED code
  /\ result' = [result EXCEPT ![l] = Nil]
  /\ UNCHANGED <<cancelled, tabs, handlers>>

(* Mutant: waitForCallback waits for the response only.                    *)
GiveUpNever(l) ==
  /\ pc[l] = "wait" /\ cancelled[l]
  /\ UNCHANGED vars

GiveUp(l) ==
  /\ pc[l] = "wait" /\ cancelled[l]
  /\ Leave(l)
  /\ UNCHANGED <<result, code, cancelled, tabs, handlers>>

(* The exchange with the login's own verifier, under defaultHTTPTimeout,   *)
(* and the checks of what came back.                                       *)
Exchange(l) ==
  /\ pc[l] = "exchange"
  /\ \/ Goto(l, "verify") /\ UNCHANGED port
     \/ Leave(l)
  /\ UNCHANGED <<result, code, cancelled, tabs, handlers>>

(* The ID token is verified against the IdP's key set, fetched under the   *)
(* command's own context, which has no deadline; then the claims are       *)
(* checked and the tokens saved, successfully or not.                      *)
Verify(l) ==
  /\ pc[l] = "verify"
  /\ Leave(l)
  /\ UNCHANGED <<result, code, cancelled, tabs, handlers>>

(* Shutdown waits for the handlers, for a second at most; the process      *)
(* exits, and what is left of it goes with it.                             *)
Return(l) ==
  /\ pc[l] = "shutdown"
  /\ Goto(l, "returned")
  /\ result' = [result EXCEPT ![l] = Nil]
  /\ code' = [code EXCEPT ![l] = NoLogin]
  /\ cancelled' = [cancelled EXCEPT ![l] = FALSE]
  /\ handlers' = {h \in handlers : h.at # l}
  /\ UNCHANGED <<port, tabs>>

(* Ctrl-C; a call it cuts short fails, one that has its answer goes on.    *)
Cancel(l) ==
  /\ pc[l] \notin {"idle", "shutdown", "returned"}
  /\ ~cancelled[l]
  /\ cancelled' = [cancelled EXCEPT ![l] = TRUE]
  /\ UNCHANGED <<pc, port, result, code, tabs, handlers>>

Command(l) ==
  \/ Bind(l) \/ Discover(l) \/ DiscoverFails(l) \/ Open(l) \/ Opened(l)
  \/ OpenFails(l) \/ Receive(l) \/ GiveUp(l) \/ Exchange(l) \/ Return(l)

Next ==
  \/ \E l \in Logins :
       \/ Command(l) \/ Verify(l) \/ ServeFails(l) \/ Cancel(l)
       \/ \E t \in tabs : Visit(t, l)
  \/ \E h \in handlers : Handle(h)

(* Commands and handlers keep running: discovery and the exchange time     *)
(* out, and a cancelled context ends the wait for the key set.  Without    *)
(* that, nothing bounds Verify, and no tab has to come back.               *)
Spec ==
  /\ Init /\ [][Next]_vars
  /\ \A l \in Logins : /\ WF_vars(pc[l] # "idle" /\ Command(l))
                       /\ WF_vars(cancelled[l] /\ Verify(l))
  /\ WF_vars(\E h \in handlers : Handle(h))

-----------------------------------------------------------------------------
(* The state parameter keeps logins apart: the code a login exchanges, and *)
(* whose tokens it verifies and saves, is the one its own tab brought      *)
(* back, whatever tabs of earlier logins on a reused port, reloads and     *)
(* concurrent logins bring.                                                *)
CodeIsMine == \A l \in Logins : pc[l] \in {"exchange", "verify"} => code[l] = l

(* The IdP answers the fetch of its key set, or refuses it, some day.      *)
KeySetAnswers == \A l \in Logins : WF_vars(Verify(l))

(* The one-slot channel loses no first response: a login whose callback    *)
(* server was reached, even before waitForCallback began to wait, returns, *)
(* provided that the IdP answers the one fetch that has no timeout.        *)
AnsweredReturns ==
  KeySetAnswers =>
    \A l \in Logins : (\E h \in handlers : h.at = l) ~> pc[l] = "returned"

(* Ctrl-C ends the login wherever it meets it: in discovery, before or in  *)
(* the wait for the redirect, in the exchange, or in the fetch of the key  *)
(* set, which nothing else bounds.                                         *)
CancelledReturns == \A l \in Logins : cancelled[l] ~> pc[l] = "returned"
=============================================================================
