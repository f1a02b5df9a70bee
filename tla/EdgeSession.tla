----------------------------- MODULE EdgeSession -----------------------------
(***************************************************************************)
(* One MCP session of the Cloudflare deployment                            *)
(* (deploy/cloudflare/src): the Worker's request handlers (mcp-api.ts),    *)
(* which run concurrently, and the session object they call (session.ts),  *)
(* which holds one container with one workspace.                           *)
(*                                                                         *)
(* A request is checked by isUsable, handed to proxy, waits in a promise   *)
(* chain, and is forwarded to the container under a deadline.  isUsable,   *)
(* proxy and terminate are calls of their own, so others run in between;   *)
(* inside a call the object is left only where it awaits the container or  *)
(* its destruction, since awaiting its storage keeps other events out.     *)
(*                                                                         *)
(* Of the Container base class, which is not part of the repository, the   *)
(* model has: containerFetch starts a container when none runs, and so may *)
(* any call that reaches the object (mcp-api.ts:26-28); destroy stops it,  *)
(* or fails; when a container stops by itself onStop or onError is called  *)
(* some time later; and onError may report an error at any time.           *)
(***************************************************************************)
EXTENDS Naturals, Sequences, FiniteSets

CONSTANTS
  Opener,     \* the initialize request, which mints the session
  Calls,      \* tool calls and file transfers that present its id
  Deletes,    \* DELETE requests
  EdgeFaults   \* bound: starts, fetches and destroys that fail, errors that are
               \* reported, and containers that start before they are asked for

ASSUME EdgeRequestsAssumption == Opener \notin Calls \cup Deletes /\ Calls \cap Deletes = {}
ASSUME EdgeFaultsAssumption   == EdgeFaults \in Nat

EdgeRequests == {Opener} \cup Calls \cup Deletes

VARIABLES
  dead,       \* storage: the session was marked unusable
  started,    \* storage: begin recorded a creation time
  expired,    \* MAX_SESSION_MS have passed since
  up,         \* a container runs
  gen,        \* containers started so far; each has a workspace of its own
  untold,     \* a container stopped, and the object has not been called about it
  chain,      \* requests in the promise chain, the running one first
  at,         \* where each request is
  answer,     \* the status the request is answered with
  ranOn,      \* the container a request was forwarded to, or 0
  late,       \* when it was forwarded the session was dead, or a stop untold
  spared,     \* containers whose destroy failed
  edgeFaults

session   == <<dead, started, expired>>
container == <<up, gen, untold>>
observed  == <<ranOn, late, spared>>
edgeVars == <<session, container, chain, at, answer, observed, edgeFaults>>

\* "checked": between isUsable and proxy; "stopping": awaits destroy.
Places  == {"new", "checked", "queued", "forwarded", "stopping", "answered"}
Answers == {"none", "ok", "204", "404", "502", "503", "504"}

EdgeTypeOK ==
  /\ {dead, started, expired, up, untold} \subseteq BOOLEAN
  /\ gen \in Nat
  /\ spared \subseteq 1 .. gen
  /\ chain \in Seq(EdgeRequests \ Deletes)
  /\ at \in [EdgeRequests -> Places]
  /\ answer \in [EdgeRequests -> Answers]
  /\ ranOn \in [EdgeRequests -> 0 .. gen]
  /\ late \in [EdgeRequests -> BOOLEAN]
  /\ edgeFaults \in 0 .. EdgeFaults
  /\ \A r \in EdgeRequests : at[r] = "answered" => answer[r] # "none"

-----------------------------------------------------------------------------
Go(r, place)     == at' = [at EXCEPT ![r] = place] /\ UNCHANGED answer
Reply(r, status) == /\ at' = [at EXCEPT ![r] = "answered"]
                    /\ answer' = [answer EXCEPT ![r] = status]

\* terminate: the session is marked dead, then its container is destroyed.
Terminate(r, status) ==
  /\ dead' = TRUE
  /\ at' = [at EXCEPT ![r] = "stopping"]
  /\ answer' = [answer EXCEPT ![r] = status]
  /\ UNCHANGED <<started, expired, chain>>

\* Mutant: a request that is over keeps the others waiting.
LeaveNever(r) == UNCHANGED chain

\* The chain goes on with the next request, whatever became of this one.
LeaveChain(r) == chain' = IF chain # <<>> /\ Head(chain) = r THEN Tail(chain) ELSE chain

EdgeFault == edgeFaults < EdgeFaults /\ edgeFaults' = edgeFaults + 1

\* The call reached the object, which may have started a container by that.
Reach ==
  \/ UNCHANGED <<container, edgeFaults>>
  \/ ~up /\ up' = TRUE /\ gen' = gen + 1 /\ EdgeFault /\ UNCHANGED untold

\* initialize: the session id is minted and begin records its creation.
Begin ==
  /\ at[Opener] = "new"
  /\ started' = TRUE
  /\ Go(Opener, "checked")
  /\ Reach
  /\ UNCHANGED <<dead, expired, chain, observed>>

\* The id is in the answer to initialize, whatever its status.
KnowsSession == at[Opener] = "answered"

\* isUsable, which ends a session that is too old.
IsUsable(r) ==
  /\ r \in Calls /\ at[r] = "new" /\ KnowsSession
  /\ \/ /\ dead \/ ~started
        /\ Reply(r, "404")
        /\ UNCHANGED <<session, chain>>
     \/ /\ ~dead /\ started /\ expired
        /\ Terminate(r, "404")
     \/ /\ ~dead /\ started /\ ~expired
        /\ Go(r, "checked")
        /\ UNCHANGED <<session, chain>>
  /\ Reach
  /\ UNCHANGED observed

Delete(r) ==
  /\ r \in Deletes /\ at[r] = "new" /\ KnowsSession
  /\ Terminate(r, "204")
  /\ Reach
  /\ UNCHANGED observed

\* Mutant: proxy trusts the check made before.
ProxyTrusting(r) ==
  /\ at[r] = "checked"
  /\ chain' = Append(chain, r)
  /\ Go(r, "queued")
  /\ Reach
  /\ UNCHANGED <<session, observed>>

\* proxy looks at the dead flag again, and then queues the request.
Proxy(r) ==
  /\ at[r] = "checked"
  /\ \/ dead /\ Reply(r, "404") /\ UNCHANGED chain
     \/ ~dead /\ chain' = Append(chain, r) /\ Go(r, "queued")
  /\ Reach
  /\ UNCHANGED <<session, observed>>

MyTurn(r) == at[r] = "queued" /\ Head(chain) = r

\* forward: containerFetch, in the container that runs or in a new one.
Forward(r) ==
  /\ MyTurn(r)
  /\ up' = TRUE
  /\ gen' = IF up THEN gen ELSE gen + 1
  /\ ranOn' = [ranOn EXCEPT ![r] = gen']
  /\ late' = [late EXCEPT ![r] = dead \/ untold]
  /\ Go(r, "forwarded")
  /\ UNCHANGED <<session, untold, spared, chain, edgeFaults>>

\* No container can be started: no instance is left, or another error.
StartFails(r) ==
  /\ MyTurn(r) /\ ~up
  /\ EdgeFault
  /\ \/ Terminate(r, "503")
     \/ Reply(r, "502") /\ LeaveChain(r) /\ UNCHANGED session
  /\ UNCHANGED <<container, observed>>

Serving(r) == at[r] = "forwarded" /\ up /\ ranOn[r] = gen

FetchAnswers(r) ==
  /\ Serving(r)
  /\ Reply(r, "ok")
  /\ LeaveChain(r)
  /\ UNCHANGED <<session, container, observed, edgeFaults>>

\* The fetch rejects: its container is gone, or a transient failure.
FetchFails(r) ==
  /\ at[r] = "forwarded"
  /\ IF Serving(r) THEN EdgeFault ELSE UNCHANGED edgeFaults
  /\ Reply(r, "502")
  /\ LeaveChain(r)
  /\ UNCHANGED <<session, container, observed>>

Timeout(r) ==
  /\ at[r] = "forwarded"
  /\ Terminate(r, "504")
  /\ UNCHANGED <<container, observed, edgeFaults>>

\* Mutant: the answer is given without waiting for destroy.
DestroyLater(r) ==
  /\ at[r] = "stopping"
  /\ at' = [at EXCEPT ![r] = "answered"]
  /\ LeaveChain(r)
  /\ UNCHANGED <<session, container, answer, observed, edgeFaults>>

\* terminate returns: destroy has stopped the container, or has failed, which
\* terminate swallows.
Destroy(r) ==
  /\ at[r] = "stopping"
  /\ at' = [at EXCEPT ![r] = "answered"]
  /\ LeaveChain(r)
  /\ \/ up' = FALSE /\ UNCHANGED <<spared, edgeFaults>>
     \/ up /\ EdgeFault /\ spared' = spared \cup {gen} /\ UNCHANGED up
  /\ UNCHANGED <<session, gen, untold, answer, ranOn, late>>

\* Idle sleep, a crash or an eviction: the container is gone before the object
\* is called about it.  (Only the first call matters: a session stays dead.)
Stop ==
  /\ up /\ up' = FALSE
  /\ untold' = ~dead
  /\ UNCHANGED <<session, gen, chain, at, answer, observed, edgeFaults>>

\* Mutant: onStop leaves the session usable.
ToldQuietly ==
  /\ untold /\ untold' = FALSE
  /\ UNCHANGED <<session, up, gen, chain, at, answer, observed, edgeFaults>>

\* onStop, or onError, for a container that stopped.
Told ==
  /\ untold /\ untold' = FALSE
  /\ dead' = TRUE
  /\ UNCHANGED <<started, expired, up, gen, chain, at, answer, observed, edgeFaults>>

\* onError for anything else, such as a start that failed.
OnError ==
  /\ EdgeFault
  /\ dead' = TRUE
  /\ UNCHANGED <<started, expired, container, chain, at, answer, observed>>

Expire ==
  /\ started /\ ~expired /\ expired' = TRUE
  /\ UNCHANGED <<dead, started, container, chain, at, answer, observed, edgeFaults>>

EdgeInit ==
  /\ dead = FALSE /\ started = FALSE /\ expired = FALSE
  /\ up = FALSE /\ gen = 0 /\ untold = FALSE
  /\ chain = <<>>
  /\ at = [r \in EdgeRequests |-> "new"]
  /\ answer = [r \in EdgeRequests |-> "none"]
  /\ ranOn = [r \in EdgeRequests |-> 0]
  /\ late = [r \in EdgeRequests |-> FALSE] /\ spared = {}
  /\ edgeFaults = 0

\* A promise chain runs on in a microtask: when the first request of it has
\* not been forwarded yet, no other event reaches the object before.
Settled == \A r \in EdgeRequests : ~MyTurn(r)

\* What the Worker and the object do for a request by themselves.
ServeRequest(r) ==
  \/ Forward(r) \/ StartFails(r)
  \/ Settled /\ (Proxy(r) \/ FetchFails(r) \/ Destroy(r))

Overruns(r) == Settled /\ Timeout(r)
Handle(r) == ServeRequest(r) \/ Overruns(r) \/ (Settled /\ (IsUsable(r) \/ Delete(r) \/ FetchAnswers(r)))

AllAnswered ==
  /\ \A r \in EdgeRequests : at[r] = "answered"
  /\ UNCHANGED edgeVars

EdgeNext ==
  \/ \E r \in EdgeRequests : Handle(r)
  \/ Settled /\ (Begin \/ Told \/ OnError)
  \/ Stop \/ Expire \/ AllAnswered

EdgeSpec == EdgeInit /\ [][EdgeNext]_edgeVars

\* Every started handler goes on and every deadline passes; a container need
\* not answer, and a client need not send.
EdgeFairSpec ==
  EdgeSpec /\ \A r \in EdgeRequests : WF_edgeVars(ServeRequest(r)) /\ WF_edgeVars(Overruns(r))

-----------------------------------------------------------------------------
(* Properties.                                                             *)

\* A session that lives, and has been called about every container that stopped,
\* answers from its first workspace: a container that stops, for whatever reason
\* and between whatever two steps, is replaced by an empty one only until onStop
\* or onError has run.
ReplacedOnlyUntilTold ==
  \A r \in EdgeRequests : answer[r] = "ok" /\ ~late[r] => ranOn[r] = 1

\* A request that learns that its deadline has passed leaves nothing behind:
\* the container it may still be writing in is gone before the answer is out,
\* unless the destroy failed that terminate asked for.
NothingPartialSurvives ==
  \A r \in EdgeRequests :
    at[r] = "answered" /\ answer[r] = "504"
      => ~(up /\ gen = ranOn[r]) \/ ranOn[r] \in spared

\* The container is never asked two things at a time, and the chain is what it
\* is asked and what waits, each request once.
OneAtATime ==
  /\ \A r, q \in EdgeRequests : at[r] = "forwarded" /\ at[q] = "forwarded" => r = q
  /\ \A i, j \in 1 .. Len(chain) : chain[i] = chain[j] => i = j
  /\ \A i \in 2 .. Len(chain) : at[chain[i]] = "queued"

\* Once the session is dead nobody joins the chain any more: isUsable and proxy
\* are two calls, and the session may die between them.
DeadAdmitsNobody ==
  [][ dead => \A i \in 1 .. Len(chain') : \E j \in 1 .. Len(chain) : chain'[i] = chain[j] ]_edgeVars

\* Every request that was let in is answered, whatever becomes of the ones
\* before it in the chain.
EveryRequestIsAnswered ==
  \A r \in EdgeRequests : (at[r] = "checked") ~> (at[r] = "answered")

=============================================================================
