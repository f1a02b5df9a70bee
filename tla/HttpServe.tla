------------------------------ MODULE HttpServe ------------------------------
(***************************************************************************)
(* hwp serve (crates/hwp-cli/src/commands/mcp/http.rs): the main thread    *)
(* that polls SHUTDOWN, the accept thread, and one thread per connection,  *)
(* with the dispatch lock, the connection slots, the --files workspace and *)
(* the termination signals between them.                                   *)
(*                                                                         *)
(* A request is a route with a body length; bytes are counted in units.    *)
(* Clients that stall or leave, sockets that fail, threads that cannot be  *)
(* spawned and files that cannot be removed are faults, at most MaxFaults. *)
(***************************************************************************)
EXTENDS Naturals, FiniteSetsExt, Totals

CONSTANTS
  Conns,            \* the connections clients open
  Names,            \* the file names of the workspace
  Routes,           \* the routes in use, out of AllRoutes
  Sizes,            \* the body lengths clients declare
  Expects,          \* whether they send Expect: 100-continue
  MaxConnections,   \* MAX_CONNECTIONS
  MaxBody,          \* MAX_REQUEST_LINE_BYTES
  MaxFile,          \* MAX_FILE_BYTES
  Quota,            \* MAX_WORKSPACE_BYTES
  MaxSignals,       \* bound: termination signals
  MaxFaults,        \* bound: faults
  NoConn,           \* nobody
  Main,             \* the main thread, as a holder of the lock
  Tool              \* a tool call, as the writer of a file

AllRoutes == {"health", "mcp", "post", "get", "other"}

ASSUME RoutesAssumption == Routes \subseteq AllRoutes
ASSUME SizesAssumption  == Sizes \subseteq Nat \ {0} /\ Expects \subseteq BOOLEAN
ASSUME LimitsAssumption ==
  {MaxConnections, MaxBody, MaxFile, Quota, MaxSignals, MaxFaults} \subseteq Nat
ASSUME NamesAssumption  ==
  {NoConn, Main, Tool} \cap Conns = {} /\ NoConn # Main /\ IsFiniteSet(Names)

VARIABLES
  request,   \* request[c]: what the client of c asks
  pc,        \* pc[c]: where connection c stands
  received,  \* received[c]: how much of its body c's thread has read
  status,    \* status[c]: the status decided for c
  answered,  \* connections whose whole response was written
  live,      \* the slot counter of the accept loop
  accepting, \* the connection in the accept thread's hands
  acceptPc,
  lock,      \* who holds the dispatch lock
  mainPc,
  signals,   \* signals delivered: SHUTDOWN is signals > 0
  exit,      \* how the process ended
  files,     \* files[n]: the workspace
  leftover,  \* observer: names whose removal failed
  faults

threads   == <<request, pc, received, status, answered>>
acceptor  == <<live, accepting, acceptPc>>
workspace == <<files, leftover>>
process   == <<mainPc, signals, exit>>
vars      == <<threads, acceptor, lock, process, workspace, faults>>

\* Only the routes of the workspace name a file, and only two have a body.
Requests ==
  LET Asks(routes, sizes, names, expects) ==
        [route : Routes \cap routes, size : sizes, name : names, expect : expects]
  IN Asks({"health", "other"}, {0}, {NoConn}, {FALSE})
       \cup Asks({"mcp"}, Sizes, {NoConn}, Expects)
       \cup Asks({"post"}, Sizes, Names, Expects)
       \cup Asks({"get"}, {0}, Names, {FALSE})
Absent   == [writer |-> NoConn, size |-> 0]

\* The stages of a connection thread that hold the dispatch lock.
Dispatching == {"call", "store", "refuse", "receive", "check", "fetch"}
\* The stages of a live connection thread.
Running == {"head", "body", "lock", "respond", "linger"} \cup Dispatching

Stages == Running \cup {"off", "backlog", "accepted", "dropped", "gone"}

Threads == {c \in Conns : pc[c] \in Running}

TypeOK ==
  /\ \A c \in Conns : pc[c] # "off" => request[c] \in Requests
  /\ pc \in [Conns -> Stages]
  /\ \A c \in Conns : received[c] <= IF pc[c] = "off" THEN 0 ELSE request[c].size
  /\ status \in [Conns -> {0, 200, 400, 404, 405, 413, 500}]
  /\ answered \subseteq {c \in Conns : status[c] # 0}
  /\ accepting \in Conns \cup {NoConn}
  /\ acceptPc \in {"accept", "check", "cap", "spawn", "stopped"}
  /\ live \in Nat
  /\ lock \in Conns \cup {NoConn, Main}
  /\ mainPc \in {"poll", "wait", "leave", "left"}
  /\ signals \in 0..MaxSignals
  /\ exit \in {"none", "clean", "forced"}
  /\ \A n \in Names : files[n].writer \in Conns \cup {NoConn, Tool} /\ files[n].size \in Nat
  /\ leftover \subseteq Names
  /\ faults \in 0..MaxFaults

Init ==
  /\ request = [c \in Conns |-> NoConn]
  /\ pc = [c \in Conns |-> "off"]
  /\ received = [c \in Conns |-> 0]
  /\ status = [c \in Conns |-> 0]
  /\ answered = {}
  /\ live = 0
  /\ accepting = NoConn
  /\ acceptPc = "accept"
  /\ lock = NoConn
  /\ mainPc = "poll"
  /\ signals = 0
  /\ exit = "none"
  /\ files = [n \in Names |-> Absent]
  /\ leftover = {}
  /\ faults = 0

Alive    == exit = "none"
Spend(n) == faults + n <= MaxFaults /\ faults' = faults + n
Fault    == Spend(1)
NoFault  == Spend(0)
Shutdown == signals > 0

Goto(c, next) == pc' = [pc EXCEPT ![c] = next]

(***************************************************************************)
(* Clients and the accept thread                                           *)
(***************************************************************************)

Connect(c) ==
  /\ Alive /\ pc[c] = "off"
  /\ \E r \in Requests : request' = [request EXCEPT ![c] = r]
  /\ Goto(c, "backlog")
  /\ UNCHANGED <<received, status, answered, acceptor, lock, process, workspace, faults>>

Accept(c) ==
  /\ Alive /\ acceptPc = "accept" /\ pc[c] = "backlog"
  /\ Goto(c, "accepted")
  /\ accepting' = c
  /\ acceptPc' = "check"
  /\ UNCHANGED <<request, received, status, answered, live, lock, process, workspace, faults>>

\* An error of accept ends the loop after a signal, else it is retried.
AcceptError ==
  /\ Alive /\ acceptPc = "accept" /\ Shutdown
  /\ Fault
  /\ acceptPc' = "stopped"
  /\ UNCHANGED <<threads, live, accepting, lock, process, workspace>>

\* The stream in hand is dropped: the client sees a close without an answer.
DropStream(next) ==
  /\ Goto(accepting, "dropped")
  /\ accepting' = NoConn
  /\ acceptPc' = next

CheckShutdown ==
  /\ Alive /\ acceptPc = "check"
  /\ \/ Shutdown /\ DropStream("stopped")
     \/ ~Shutdown /\ acceptPc' = "cap" /\ UNCHANGED <<pc, accepting>>
  /\ UNCHANGED <<request, received, status, answered, live, lock, process, workspace, faults>>

\* The cap is compared, then the counter is raised, by this thread only.
CheckCap ==
  /\ Alive /\ acceptPc = "cap"
  /\ \/ live >= MaxConnections /\ DropStream("accept") /\ live' = live
     \/ /\ live < MaxConnections
        /\ live' = live + 1
        /\ acceptPc' = "spawn"
        /\ UNCHANGED <<pc, accepting>>
  /\ UNCHANGED <<request, received, status, answered, lock, process, workspace, faults>>

\* A failed spawn drops the closure, and the slot with it.
Spawn ==
  /\ Alive /\ acceptPc = "spawn"
  /\ \/ /\ Goto(accepting, "head")
        /\ accepting' = NoConn /\ acceptPc' = "accept"
        /\ live' = live /\ NoFault
     \/ Fault /\ DropStream("accept") /\ live' = live - 1
  /\ UNCHANGED <<request, received, status, answered, lock, process, workspace>>

(***************************************************************************)
(* A connection thread                                                     *)
(***************************************************************************)

Unlock(c) == lock' = IF lock = c THEN NoConn ELSE lock

\* The thread ends: ConnectionSlot returns the slot, the guard the lock.
Leave(c) == Goto(c, "gone") /\ live' = live - 1 /\ Unlock(c)

\* The status is decided; the response is written by Respond.
Answer(c, s) == Goto(c, "respond") /\ status' = [status EXCEPT ![c] = s]

Stay == UNCHANGED <<live, lock>>
Conn == UNCHANGED <<request, answered, accepting, acceptPc, process>>

\* Mutant: every route is dispatched under the lock.
RouteAllLocked(c) ==
  LET r == request[c] IN
  \/ r.route \in {"health", "other", "post", "get"} /\ Goto(c, "lock") /\ status' = status
  \/ r.route = "mcp" /\ r.size > MaxBody /\ Answer(c, 413)
  \/ r.route = "mcp" /\ r.size <= MaxBody /\ Goto(c, "body") /\ status' = status

\* Where a well-formed head leads: route_request and the caps of handle_mcp.
Route(c) ==
  LET r == request[c] IN
  \/ r.route = "health" /\ Answer(c, 200)
  \/ r.route = "other" /\ \E s \in {404, 405} : Answer(c, s)
  \/ r.route = "mcp" /\ r.size > MaxBody /\ Answer(c, 413)
  \/ r.route = "mcp" /\ r.size <= MaxBody /\ Goto(c, "body") /\ status' = status
  \/ r.route \in {"post", "get"} /\ Goto(c, "lock") /\ status' = status

\* read_head: routed, refused, or the client never sent a byte.
ReadHead(c) ==
  /\ Alive /\ pc[c] = "head"
  /\ \/ Route(c) /\ Stay /\ NoFault
     \/ Fault /\ Answer(c, 400) /\ Stay
     \/ Fault /\ Leave(c) /\ status' = status
  /\ UNCHANGED <<received, workspace>> /\ Conn

\* handle_mcp reads the body before it takes the lock; a client that stalls
\* ends in the socket timeout.
ReadBody(c) ==
  /\ Alive /\ pc[c] = "body"
  /\ \/ /\ received' = [received EXCEPT ![c] = request[c].size]
        /\ Goto(c, "lock")
        /\ status' = status /\ Stay /\ NoFault
     \/ Fault /\ Answer(c, 400) /\ Stay /\ received' = received
     \/ Fault /\ request[c].expect /\ Leave(c) /\ UNCHANGED <<status, received>>
  /\ UNCHANGED workspace /\ Conn

TakeLock(c) ==
  /\ Alive /\ pc[c] = "lock" /\ lock = NoConn
  /\ lock' = c
  /\ Goto(c, CASE request[c].route = "post" -> "store"
               [] request[c].route = "get"  -> "fetch"
               [] OTHER                     -> "call")
  /\ UNCHANGED <<received, status, live, workspace, faults>> /\ Conn

\* A tool call may write a file of the workspace; its panic is caught.  (The
\* empty response to a notification, 202, is a success like 200.)
Call(c) ==
  /\ Alive /\ pc[c] = "call"
  /\ \E s \in {200, 500} : Answer(c, s)
  /\ \/ files' = files
     \/ \E n \in Names, s \in Sizes : files' = [files EXCEPT ![n] = [writer |-> Tool, size |-> s]]
  /\ UNCHANGED <<received, leftover, faults>> /\ Stay /\ Conn

\* GET of a file: a regular file or 404.
Fetch(c) ==
  /\ Alive /\ pc[c] = "fetch"
  /\ Answer(c, IF files[request[c].name] = Absent THEN 404 ELSE 200)
  /\ UNCHANGED <<received, workspace, faults>> /\ Stay /\ Conn

\* workspace_bytes; a directory that cannot be read counts as empty.
Used == Total([n \in Names |-> files[n].size], Names)
Reads(u) == (u = Used /\ NoFault) \/ (u = 0 /\ Used # 0 /\ Fault)

\* store_file up to the first byte: the caps, then File::create, which empties
\* a file of that name.
Store(c) ==
  LET r == request[c] IN
  /\ Alive /\ pc[c] = "store"
  /\ \/ r.size > MaxFile /\ Answer(c, 413) /\ files' = files /\ NoFault
     \/ /\ r.size <= MaxFile
        /\ \E u \in {0, Used} :
             /\ Reads(u)
             /\ \/ u + r.size > Quota /\ r.expect /\ Answer(c, 413) /\ files' = files
                \/ /\ u + r.size > Quota /\ ~r.expect /\ Goto(c, "refuse")
                   /\ UNCHANGED <<status, files>>
                \/ /\ u + r.size <= Quota
                   /\ files' = [files EXCEPT ![r.name] = [writer |-> c, size |-> 0]]
                   /\ Goto(c, "receive")
                   /\ status' = status
     \/ r.size <= MaxFile /\ Fault /\ Answer(c, 500) /\ files' = files
  /\ UNCHANGED <<received, leftover>> /\ Stay /\ Conn

\* The body of a refused upload is taken before the answer.
Refuse(c) ==
  /\ Alive /\ pc[c] = "refuse"
  /\ Answer(c, 413)
  /\ UNCHANGED <<received, workspace, faults>> /\ Stay /\ Conn

\* remove_file, whose failure is ignored.
Remove(n, cost) ==
  \/ files' = [files EXCEPT ![n] = Absent] /\ leftover' = leftover /\ Spend(cost)
  \/ files' = files /\ leftover' = leftover \cup {n} /\ Spend(cost + 1)

\* Mutant: a body that ends early leaves what was written.
ReceiveKeeps(c) ==
  LET n == request[c].name IN
  /\ Alive /\ pc[c] = "receive"
  /\ \/ /\ received' = [received EXCEPT ![c] = @ + 1]
        /\ files' = [files EXCEPT ![n].size = @ + 1]
        /\ IF received'[c] = request[c].size THEN Goto(c, "check") ELSE pc' = pc
        /\ UNCHANGED <<status, leftover>> /\ NoFault /\ Stay
     \/ Fault /\ Answer(c, 400) /\ UNCHANGED <<received, workspace>> /\ Stay
  /\ Conn

\* io::copy into the file, one unit at a time; a short body is a 400 and a
\* failed read or write a 500, both after the file is removed.  When the
\* interim response cannot be written there is no answer at all.
Receive(c) ==
  LET n == request[c].name IN
  /\ Alive /\ pc[c] = "receive"
  /\ \/ /\ received' = [received EXCEPT ![c] = @ + 1]
        /\ files' = [files EXCEPT ![n].size = @ + 1]
        /\ IF received'[c] = request[c].size THEN Goto(c, "check") ELSE pc' = pc
        /\ UNCHANGED <<status, leftover>> /\ NoFault /\ Stay
     \/ /\ Remove(n, 1)
        /\ \E s \in {400, 500} : Answer(c, s)
        /\ received' = received /\ Stay
     \/ /\ received[c] = 0 /\ request[c].expect
        /\ Remove(n, 1) /\ Leave(c)
        /\ UNCHANGED <<received, status>>
  /\ Conn

\* Mutant: the quota is not looked at again.
CheckTrusts(c) ==
  /\ Alive /\ pc[c] = "check"
  /\ Answer(c, 200)
  /\ UNCHANGED workspace
  /\ received' = received /\ NoFault /\ Stay /\ Conn

\* The quota again, with the file in place.
Check(c) ==
  /\ Alive /\ pc[c] = "check"
  /\ \/ Used > Quota /\ Answer(c, 413) /\ Remove(request[c].name, 0)
     \/ /\ \E u \in {0, Used} : u <= Quota /\ Reads(u)
        /\ Answer(c, 200)
        /\ UNCHANGED workspace
  /\ received' = received /\ Stay /\ Conn

\* Mutant: a response that cannot be written keeps the lock.
RespondLeaks(c) ==
  /\ Alive /\ pc[c] = "respond"
  /\ \/ Goto(c, "linger") /\ answered' = answered \cup {c} /\ Unlock(c) /\ live' = live /\ NoFault
     \/ Fault /\ Goto(c, "gone") /\ live' = live - 1 /\ lock' = lock /\ answered' = answered
  /\ UNCHANGED <<request, received, status, accepting, acceptPc, process, workspace>>

\* Mutant: a response that cannot be written keeps the slot.
RespondKeepsSlot(c) ==
  /\ Alive /\ pc[c] = "respond"
  /\ \/ Goto(c, "linger") /\ answered' = answered \cup {c} /\ live' = live /\ NoFault
     \/ Fault /\ Goto(c, "gone") /\ live' = live /\ answered' = answered
  /\ Unlock(c)
  /\ UNCHANGED <<request, received, status, accepting, acceptPc, process, workspace>>

\* The response is written, under the lock when the thread holds it.
Respond(c) ==
  /\ Alive /\ pc[c] = "respond"
  /\ \/ Goto(c, "linger") /\ answered' = answered \cup {c} /\ Unlock(c) /\ live' = live /\ NoFault
     \/ Fault /\ Leave(c) /\ answered' = answered
  /\ UNCHANGED <<request, received, status, accepting, acceptPc, process, workspace>>

\* linger is bounded by its deadline.
Linger(c) ==
  /\ Alive /\ pc[c] = "linger"
  /\ Leave(c)
  /\ UNCHANGED <<received, status, workspace, faults>> /\ Conn

(***************************************************************************)
(* Signals and the main thread                                             *)
(***************************************************************************)

\* on_terminate: the first signal asks for a shutdown, the second ends the
\* process at once.
Signal ==
  /\ Alive /\ signals < MaxSignals
  /\ signals' = signals + 1
  /\ exit' = IF Shutdown THEN "forced" ELSE "none"
  /\ UNCHANGED <<threads, acceptor, lock, mainPc, workspace, faults>>

SeeShutdown ==
  /\ Alive /\ mainPc = "poll" /\ Shutdown
  /\ mainPc' = "wait"
  /\ UNCHANGED <<threads, acceptor, lock, signals, exit, workspace, faults>>

\* Mutant: the guard is dropped instead of forgotten.
WaitForDispatchOnly ==
  /\ Alive /\ mainPc = "wait" /\ lock = NoConn
  /\ mainPc' = "leave"
  /\ UNCHANGED <<threads, acceptor, lock, signals, exit, workspace, faults>>

\* The main thread takes the dispatch lock and never gives it back.
WaitForDispatch ==
  /\ Alive /\ mainPc = "wait" /\ lock = NoConn
  /\ lock' = Main
  /\ mainPc' = "leave"
  /\ UNCHANGED <<threads, acceptor, signals, exit, workspace, faults>>

\* serve returns and the process exits, whatever the other threads do.
Exit ==
  /\ Alive /\ mainPc = "leave"
  /\ mainPc' = "left"
  /\ exit' = "clean"
  /\ UNCHANGED <<threads, acceptor, lock, signals, workspace, faults>>

AcceptStep == (\E c \in Conns : Accept(c)) \/ CheckShutdown \/ CheckCap \/ Spawn
MainStep   == SeeShutdown \/ WaitForDispatch \/ Exit
\* A thread anywhere but inside a tool call.
Serve(c)   ==
  \/ ReadHead(c) \/ ReadBody(c) \/ TakeLock(c) \/ Fetch(c) \/ Store(c) \/ Refuse(c)
  \/ Receive(c) \/ Check(c) \/ Respond(c) \/ Linger(c)

Next ==
  \/ \E c \in Conns : Connect(c) \/ Serve(c) \/ Call(c)
  \/ AcceptStep \/ AcceptError
  \/ Signal \/ MainStep

Spec == Init /\ [][Next]_vars

\* Threads are scheduled, a read or a write ends by its socket timeout, and a
\* lock that stays free is taken.  A tool call may never return.
FairSpec ==
  /\ Spec
  /\ WF_vars(AcceptStep)
  /\ WF_vars(MainStep)
  /\ \A c \in Conns : WF_vars(Serve(c))

\* The further assumption that tool calls return.
CallsReturn == \A c \in Conns : WF_vars(Call(c))

(***************************************************************************)
(* Properties                                                              *)
(***************************************************************************)

\* The slot counter is the number of connection threads, plus the one that is
\* being spawned: no panic, lost response or failed spawn leaks or frees a slot
\* twice (ConnectionSlot).
SlotsMatchThreads ==
  /\ live = Cardinality(Threads) + (IF acceptPc = "spawn" THEN 1 ELSE 0)
  /\ live <= MaxConnections

\* A graceful exit cuts off no tool call, upload or download: the main thread
\* leaves with the lock in hand, so a queued request cannot start in between
\* (serve, mem::forget of the guard).
GracefulExitIsClean ==
  exit = "clean" => \A c \in Conns : pc[c] \notin Dispatching

\* A file shorter than its upload declared is being received right now, or was
\* cut off by the second signal, or could not be removed (store_file).
NoPartialUpload ==
  \A n \in Names \ leftover :
    LET w == files[n].writer IN
    w \in Conns /\ files[n].size < request[w].size
      => pc[w] = "receive" /\ request[w].name = n

\* When an upload is answered 200 the file is whole, it is the uploader's, and
\* the workspace is within its quota, even when one of the two looks at its
\* size failed (store_file).
UploadIsAcknowledgedWhole ==
  [][\A c \in Conns :
       status[c] = 0 /\ status'[c] = 200 /\ request[c].route = "post" =>
         /\ files'[request[c].name] = [writer |-> c, size |-> request[c].size]
         /\ Used' <= Quota \/ faults' > 1]_vars

\* The first signal ends the process once the call in progress has answered,
\* however many requests are queued on the lock, and without a signal every
\* connection is answered or closed: no lost slot, no lock that nobody returns
\* (serve, ConnectionSlot, lock_dispatch).  Tool calls return.
EverythingEnds ==
  CallsReturn =>
    /\ Shutdown ~> ~Alive
    /\ \A c \in Conns :
         pc[c] = "backlog" ~> pc[c] \in {"gone", "dropped"} \/ Shutdown

\* A probe that has a thread is answered although a tool call may hold the
\* lock for ever (route_request).
ProbeIsAnswered ==
  \A c \in Conns :
    pc[c] = "head" /\ request[c].route = "health" ~> pc[c] = "gone" \/ ~Alive
=============================================================================
