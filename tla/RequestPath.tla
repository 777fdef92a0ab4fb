----------------------------- MODULE RequestPath -----------------------------
(***************************************************************************)
(* A mutation on its way: honorFetch in the browser, proxy.ts and the BFF  *)
(* (proxyToApi) in the web server, require_owner and the handler in the    *)
(* API.  ApiIdempotency is the handler; here it is entered through its     *)
(* gates and answered through theirs.                                      *)
(*                                                                         *)
(* A call is one mutation that the browser sends, and at most one          *)
(* execution in the API.  The BFF waits 15 seconds for the API and then    *)
(* answers for it, but it does not stop the execution: a call that has     *)
(* been answered may still be waiting for the API, or have its effect      *)
(* later.  The owner repeats a request by another call with the same key   *)
(* and content, which may overtake the first.  Meanwhile another tab of    *)
(* the browser changes the cookies.                                        *)
(***************************************************************************)
EXTENDS ApiIdempotency

CONSTANTS PoolSize,   \* connections in the pool of the API (max_size)
          MaxTokens   \* bound: CSRF tokens in one behaviour

ASSUME PoolAssumption == PoolSize \in Nat \ {0} /\ MaxTokens \in Nat \ {0}

VARIABLES csrf,       \* the CSRF cookie of the browser: the number of the token
          session,    \* the session in its cookies: of the owner, or none
          carried,    \* carried[c]: the token in the X-HONOR-CSRF header of c, and
                      \*   the cookies with it, until it leaves the web server
          web,        \* web[c]: where c is between the browser and the BFF
          api,        \* api[c]: where c is before the handler, or how it was refused
          answer      \* answer[c]: what the browser was answered

handlerVars == <<records, effects, newRecord, acted, late, told, pc>>
browser == <<csrf, session>>
pathVars == <<csrf, session, carried, web, api, answer>>
allVars == <<vars, pathVars>>

Tokens == 1 .. MaxTokens
Sessions == {"owner", "none"}
Carried == [header : Tokens, token : Tokens, session : Sessions]
Nothing == [header |-> 1, token |-> 1, session |-> "none"]

WebPlaces == {"unsent", "read", "sent", "bff", "guarded", "waiting", "answered"}

\* What require_owner raises.
Refusals == {"AUTH_INVALID", "AUTH_PROVIDER_UNAVAILABLE", "OWNER_FORBIDDEN",
             "PROVIDER_UNAVAILABLE"}
ApiPlaces == {"absent", "arriving", "authorizing", "checking", "admitted", "lost"}

Answers == Refusals \cup {"CSRF_INVALID", "AUTH_REQUIRED", "VALIDATION_ERROR",
                          "INTERNAL_ERROR", "success"}

\* The browser is signed in: every page it shows has found a token in the jar.
PathInit ==
  /\ Init
  /\ csrf = 1
  /\ session = "owner"
  /\ carried = [c \in Calls |-> Nothing]
  /\ web = [c \in Calls |-> "unsent"]
  /\ api = [c \in Calls |-> "absent"]
  /\ answer = [c \in Calls |-> NoAnswer]

-----------------------------------------------------------------------------
(* The browser.                                                            *)

\* honorFetch reads the token from the cookie,
ReadToken(c) ==
  /\ web[c] = "unsent"
  /\ carried' = [carried EXCEPT ![c] =
       [header |-> csrf, token |-> @.token, session |-> @.session]]
  /\ web' = [web EXCEPT ![c] = "read"]
  /\ UNCHANGED <<vars, browser, api, answer>>

\* and the browser adds the cookies when it sends the request.
Send(c) ==
  /\ web[c] = "read"
  /\ carried' = [carried EXCEPT ![c] =
       [header |-> @.header, token |-> csrf, session |-> session]]
  /\ web' = [web EXCEPT ![c] = "sent"]
  /\ UNCHANGED <<vars, browser, api, answer>>

\* rotateCsrfCookie: a new token, whatever there was.
Rotate ==
  /\ csrf < MaxTokens
  /\ csrf' = csrf + 1

\* Another tab signs in or confirms an invitation;
SignIn ==
  /\ Rotate
  /\ session' = "owner"
  /\ UNCHANGED <<vars, carried, web, api, answer>>

\* sets a password, for which it needs a session;
SetPassword ==
  /\ session = "owner"
  /\ Rotate
  /\ UNCHANGED <<vars, session, carried, web, api, answer>>

\* signs out, and the token is rotated even if the provider fails;
SignOut ==
  /\ Rotate
  /\ session' \in {"none", session}
  /\ UNCHANGED <<vars, carried, web, api, answer>>

\* or signs in as somebody else, which ends the session and nothing more.
SignInAsAnother ==
  /\ session = "owner"
  /\ session' = "none"
  /\ UNCHANGED <<vars, csrf, carried, web, api, answer>>

-----------------------------------------------------------------------------
(* The web server.                                                         *)

AnsweredWith(c, a) ==
  /\ answer' = [answer EXCEPT ![c] = a]
  /\ web' = [web EXCEPT ![c] = "answered"]
  /\ carried' = [carried EXCEPT ![c] = Nothing]

Proceeds(c, place) ==
  /\ web' = [web EXCEPT ![c] = place]
  /\ UNCHANGED <<carried, answer>>

\* proxy.ts lets a request through that has a session,
ProxyPasses(c) ==
  /\ web[c] = "sent"
  /\ carried[c].session = "owner"
  /\ Proceeds(c, "bff")
  /\ UNCHANGED <<vars, browser, api>>

ProxyRefuses(c) ==
  /\ web[c] = "sent"
  /\ carried[c].session = "none"
  /\ AnsweredWith(c, "AUTH_REQUIRED")
  /\ UNCHANGED <<vars, browser, api>>

\* unless the provider fails: getClaims raises, or reports an error.
ProxyOutage(c) ==
  /\ Fault
  /\ web[c] = "sent"
  /\ \E a \in {"AUTH_PROVIDER_UNAVAILABLE", "AUTH_REQUIRED"} : AnsweredWith(c, a)
  /\ UNCHANGED <<handlerVars, browser, api>>

\* assertMutationProtection; the request comes from a page of the public origin.
GuardPasses(c) ==
  /\ web[c] = "bff"
  /\ carried[c].header = carried[c].token
  /\ Proceeds(c, "guarded")
  /\ UNCHANGED <<vars, browser, api>>

GuardRefuses(c) ==
  /\ web[c] = "bff"
  /\ carried[c].header # carried[c].token
  /\ AnsweredWith(c, "CSRF_INVALID")
  /\ UNCHANGED <<vars, browser, api>>

\* Mutant of TooLarge: the body is measured while it is forwarded.
TooLargeLate(c) ==
  /\ web[c] \in {"guarded", "waiting"}
  /\ AnsweredWith(c, "VALIDATION_ERROR")
  /\ UNCHANGED <<vars, browser, api>>

\* The body is larger than its limit, as declared or as received.
TooLarge(c) ==
  /\ web[c] = "guarded"
  /\ AnsweredWith(c, "VALIDATION_ERROR")
  /\ UNCHANGED <<vars, browser, api>>

\* getOwnerSession finds no session any more.
SessionGone(c) ==
  /\ Fault
  /\ web[c] = "guarded"
  /\ AnsweredWith(c, "AUTH_REQUIRED")
  /\ UNCHANGED <<handlerVars, browser, api>>

\* fetch: the request is on its way to the API.
Forward(c) ==
  /\ web[c] = "guarded"
  /\ web' = [web EXCEPT ![c] = "waiting"]
  /\ carried' = [carried EXCEPT ![c] = Nothing]
  /\ api' = [api EXCEPT ![c] = "arriving"]
  /\ UNCHANGED <<vars, browser, answer>>

-----------------------------------------------------------------------------
(* The API.                                                                *)

\* Mutant of Connected: the connection of the profile check is kept for the handler.
ConnectedFromTheCheckOn ==
  {c \in Calls : api[c] \in {"checking", "admitted"} /\ pc[c] \notin Ended}

\* Whoever has a transaction open holds a connection of the pool.
Connected == {c \in Calls : api[c] = "checking" \/ pc[c] \notin {"idle"} \cup Ended}
ConnectionFree == Cardinality(Connected) < PoolSize

\* validate_owner_token accepts the token,
TokenAccepted(c) ==
  /\ api[c] = "arriving"
  /\ api' = [api EXCEPT ![c] = "authorizing"]
  /\ UNCHANGED <<vars, browser, carried, web, answer>>

\* which may have expired on the way, or whose key may be out of reach.
TokenRefused(c) ==
  /\ Fault
  /\ api[c] = "arriving"
  /\ \E a \in {"AUTH_INVALID", "AUTH_PROVIDER_UNAVAILABLE", "OWNER_FORBIDDEN"} :
       api' = [api EXCEPT ![c] = a]
  /\ UNCHANGED <<handlerVars, browser, carried, web, answer>>

\* owner_profile_is_active waits for a connection, asks, and gives it back.
AskProfile(c) ==
  /\ api[c] = "authorizing"
  /\ ConnectionFree
  /\ api' = [api EXCEPT ![c] = "checking"]
  /\ UNCHANGED <<vars, browser, carried, web, answer>>

ProfileActive(c) ==
  /\ api[c] = "checking"
  /\ api' = [api EXCEPT ![c] = "admitted"]
  /\ UNCHANGED <<vars, browser, carried, web, answer>>

\* The profile is not active, or the database fails.
ProfileRefused(c) ==
  /\ Fault
  /\ api[c] \in {"authorizing", "checking"}
  /\ \E a \in {"OWNER_FORBIDDEN", "PROVIDER_UNAVAILABLE"} :
       /\ a = "OWNER_FORBIDDEN" => api[c] = "checking"
       /\ api' = [api EXCEPT ![c] = a]
  /\ UNCHANGED <<handlerVars, browser, carried, web, answer>>

\* The handler opens its own transaction.
Enter(c) ==
  /\ api[c] = "admitted"
  /\ ConnectionFree
  /\ Begin(c)
  /\ UNCHANGED pathVars

Handle(c) == CallStep(c) /\ UNCHANGED pathVars

HandlerFails(c) == (Break(c) \/ CommitUnheard(c)) /\ UNCHANGED pathVars

\* The API dies or hangs up on the call: no answer will come.
ExecutionLost(c) ==
  /\ Fault
  /\ api[c] \notin {"absent", "lost"} \cup Refusals
  /\ pc[c] \notin Ended
  /\ api' = [api EXCEPT ![c] = "lost"]
  /\ CloseTransaction(c)
  /\ GoesTo(c, "broken")
  /\ UNCHANGED <<records, effects, late, told, browser, carried, web, answer>>

\* The response of the API, if there is one.  A reused key is a ValueError and a
\* clash a database error: the handler of unhandled errors answers for both.
ApiAnswer(c) ==
  IF api[c] \in Refusals THEN api[c]
  ELSE IF api[c] # "admitted" \/ pc[c] \notin Ended THEN NoAnswer
  ELSE IF pc[c] = "done" THEN "success" ELSE "INTERNAL_ERROR"

-----------------------------------------------------------------------------
(* The answer.                                                             *)

Answer(c) ==
  /\ web[c] = "waiting"
  /\ ApiAnswer(c) # NoAnswer
  /\ AnsweredWith(c, ApiAnswer(c))
  /\ UNCHANGED <<vars, browser, api>>

\* Mutant of FetchFails: there is no timer; only a connection that cannot be made fails.
FetchFailsOnLoss(c) ==
  /\ web[c] = "waiting"
  /\ api[c] = "arriving"
  /\ AnsweredWith(c, "PROVIDER_UNAVAILABLE")
  /\ UNCHANGED <<vars, browser, api>>

\* AbortSignal.timeout, or a connection that fails: the BFF answers; the execution,
\* wherever it is, goes on.
FetchFails(c) ==
  /\ web[c] = "waiting"
  /\ AnsweredWith(c, "PROVIDER_UNAVAILABLE")
  /\ UNCHANGED <<vars, browser, api>>

WebStep(c) ==
  \/ ProxyPasses(c) \/ ProxyRefuses(c)
  \/ GuardPasses(c) \/ GuardRefuses(c) \/ TooLarge(c) \/ Forward(c)
  \/ Answer(c) \/ FetchFails(c)

ApiStep(c) ==
  TokenAccepted(c) \/ AskProfile(c) \/ ProfileActive(c) \/ Enter(c) \/ Handle(c)

PathFault(c) ==
  \/ ProxyOutage(c) \/ SessionGone(c)
  \/ TokenRefused(c) \/ ProfileRefused(c) \/ HandlerFails(c) \/ ExecutionLost(c)

OtherTab == SignIn \/ SetPassword \/ SignOut \/ SignInAsAnother

PathNext ==
  \/ OtherTab
  \/ \E c \in Calls :
       ReadToken(c) \/ Send(c) \/ WebStep(c) \/ ApiStep(c) \/ PathFault(c)

PathSpec == PathInit /\ [][PathNext]_allVars

\* A call that can go on goes on, in the web server, where the timer of fetch runs,
\* or in the API; nobody has to send, and nothing has to fail.
FairPathSpec ==
  PathSpec /\ \A c \in Calls : WF_allVars(WebStep(c) \/ ApiStep(c))

-----------------------------------------------------------------------------
(* Properties.                                                             *)

\* Every variable has its type; who is in the handler was admitted and sent.
PathTypeOK ==
  /\ TypeOK
  /\ csrf \in Tokens /\ session \in Sessions
  /\ carried \in [Calls -> Carried]
  /\ web \in [Calls -> WebPlaces]
  /\ api \in [Calls -> ApiPlaces \cup Refusals]
  /\ answer \in [Calls -> Answers \cup {NoAnswer}]
  /\ \A c \in Calls :
       /\ pc[c] # "idle" => api[c] \in {"admitted", "lost"}
       /\ api[c] # "absent" => web[c] \in {"waiting", "answered"}
       /\ answer[c] # NoAnswer <=> web[c] = "answered"
  /\ Cardinality(Connected) <= PoolSize

\* A success that the browser sees is the recorded response to the very request
\* that it sent, though repetitions overtake each other and answers are lost.
SuccessIsTheRecord ==
  \A c \in Calls : answer[c] = "success" =>
    [key |-> asked[c].key, content |-> asked[c].content, response |-> told[c]] \in records

\* Every error but PROVIDER_UNAVAILABLE and INTERNAL_ERROR is final: the call has
\* had no effect and will not have one later, so that after these two alone the
\* owner has to repeat the request with its key to learn what became of it.
FirmErrorsAreFinal ==
  \A c \in Calls :
    answer[c] \notin {NoAnswer, "success", "PROVIDER_UNAVAILABLE", "INTERNAL_ERROR"} =>
      c \notin effects

\* Every request that was sent is answered, even if the API never answers: sooner or
\* later no call is between the browser and its answer any more.  Of the waiting in
\* the web server fetch alone has a timer; the provider's claims and the body have
\* the platform's.
EveryCallIsAnswered ==
  <>[](\A c \in Calls : web[c] \in {"unsent", "read", "answered"})

\* Every execution ends, answered or not: calls that hold connections of the pool,
\* wait for more of them and for each other's records never wait for ever.
EveryExecutionEnds ==
  <>[](\A c \in Calls : api[c] \in {"absent"} \cup Refusals \/ pc[c] \in Ended)
=============================================================================
