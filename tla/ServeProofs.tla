------------------------------ MODULE ServeProofs ------------------------------
(***************************************************************************)
(* The two servers.  The lock, the slots and the workspace of hwp serve,   *)
(* for any number of connections, files, signals and faults (HttpServe);   *)
(* and a session of the Worker that forwards to it, for any number of      *)
(* requests, deletions and faults (EdgeSession): which container a request *)
(* ran on, and the promise chain.                                          *)
(***************************************************************************)
EXTENDS HttpServe, EdgeSession, FoldFacts

-----------------------------------------------------------------------------
(* The dispatch lock.                                                      *)

\* Whoever works on the workspace holds the lock, and it is not main's.
HoldersDispatch == \A c \in Conns : pc[c] \in Dispatching => lock = c

\* Main leaves with the lock, and the process exits cleanly only behind it.
MainKeepsLock == mainPc \in {"leave", "left"} => lock = Main
CleanByMain   == exit = "clean" => mainPc = "left"

IInv ==
  /\ pc \in [Conns -> Stages]
  /\ HoldersDispatch
  /\ MainKeepsLock
  /\ CleanByMain

\* The main thread is not a connection.
LEMMA MainIsNoConn == Main \notin Conns
BY NamesAssumption

\* The lock discipline holds at the start.
LEMMA IInvInit == Init => IInv
BY DEF Init, IInv, HoldersDispatch, MainKeepsLock, CleanByMain, Stages, Running, Dispatching

\* A thread that leaves or moves among the stages without the lock disturbs
\* nobody: the others neither gain nor lose it.
LEMMA OtherStages ==
  ASSUME IInv, NEW c \in Conns, NEW s \in Stages \ Dispatching,
         pc' = [pc EXCEPT ![c] = s], Unlock(c) \/ lock' = lock,
         UNCHANGED <<mainPc, exit>>
  PROVE  IInv'
BY MainIsNoConn DEF IInv, HoldersDispatch, MainKeepsLock, CleanByMain, Unlock

\* A thread that holds the lock may go from stage to stage.
LEMMA LockedStages ==
  ASSUME IInv, NEW c \in Conns, pc[c] \in Dispatching, NEW s \in Stages,
         pc' = [pc EXCEPT ![c] = s],
         lock' = lock, UNCHANGED <<mainPc, exit>>
  PROVE  IInv'
BY DEF IInv, HoldersDispatch, MainKeepsLock, CleanByMain

\* Nothing the discipline speaks of has changed.
LEMMA Untouched ==
  ASSUME IInv, UNCHANGED <<pc, lock, mainPc, exit>>
  PROVE  IInv'
BY DEF IInv, HoldersDispatch, MainKeepsLock, CleanByMain

\* Every step keeps the lock discipline.
LEMMA IInvStep == IInv /\ [Next]_vars => IInv'
<1> SUFFICES ASSUME IInv, [Next]_vars PROVE IInv'
  OBVIOUS
<1> USE DEF threads, acceptor, workspace, process, Conn, Stay
<1>1. ASSUME NEW c \in Conns, Connect(c) PROVE IInv'
  BY <1>1, OtherStages DEF Connect, Goto, Stages, Running, Dispatching
<1>2. ASSUME NEW c \in Conns, ReadHead(c) PROVE IInv'
  <2>1. CASE Route(c) /\ Stay
    BY <1>2, <2>1, OtherStages DEF ReadHead, Route, Answer, Goto, Stages, Running, Dispatching
  <2>2. CASE Answer(c, 400) /\ Stay
    BY <1>2, <2>2, OtherStages DEF ReadHead, Answer, Goto, Stages, Running, Dispatching
  <2>3. CASE Leave(c)
    BY <1>2, <2>3, OtherStages DEF ReadHead, Leave, Goto, Stages, Running, Dispatching
  <2> QED
    BY <1>2, <2>1, <2>2, <2>3 DEF ReadHead
<1>3. ASSUME NEW c \in Conns, ReadBody(c) PROVE IInv'
  BY <1>3, OtherStages DEF ReadBody, Answer, Leave, Goto, Stages, Running, Dispatching
<1>4. ASSUME NEW c \in Conns, TakeLock(c) PROVE IInv'
  BY <1>4, MainIsNoConn, NamesAssumption
  DEF TakeLock, Goto, Stages, Running, Dispatching, IInv, HoldersDispatch, MainKeepsLock, CleanByMain
<1>5. ASSUME NEW c \in Conns, Call(c) \/ Fetch(c) \/ Refuse(c) \/ Check(c) PROVE IInv'
  BY <1>5, LockedStages DEF Call, Fetch, Refuse, Check, Answer, Goto, Stages, Running, Dispatching
<1>6. ASSUME NEW c \in Conns, Store(c) PROVE IInv'
  BY <1>6, LockedStages DEF Store, Answer, Goto, Stages, Running, Dispatching
<1>7. ASSUME NEW c \in Conns, Receive(c) PROVE IInv'
  <2>1. CASE Goto(c, "check") /\ Stay
    BY <1>7, <2>1, LockedStages DEF Receive, Goto, Stages, Running, Dispatching
  <2>2. CASE pc' = pc /\ Stay
    BY <1>7, <2>2, Untouched DEF Receive
  <2>3. CASE \E s \in {400, 500} : Answer(c, s) /\ Stay
    BY <1>7, <2>3, LockedStages DEF Receive, Answer, Goto, Stages, Running, Dispatching
  <2>4. CASE Leave(c)
    BY <1>7, <2>4, OtherStages DEF Receive, Leave, Goto, Stages, Running, Dispatching
  <2> QED
    BY <1>7, <2>1, <2>2, <2>3, <2>4 DEF Receive
<1>8. ASSUME NEW c \in Conns, Respond(c) \/ Linger(c) PROVE IInv'
  BY <1>8, OtherStages DEF Respond, Linger, Leave, Goto, Stages, Running, Dispatching
<1>9. ASSUME NEW c \in Conns, Accept(c) PROVE IInv'
  BY <1>9, OtherStages DEF Accept, Goto, Stages, Running, Dispatching
<1>10. CASE AcceptError
  BY <1>10, Untouched DEF AcceptError
<1>11. CASE CheckShutdown \/ CheckCap \/ Spawn
  <2>1. CASE accepting \in Conns
    BY <1>11, <2>1, OtherStages, Untouched
    DEF CheckShutdown, CheckCap, Spawn, DropStream, Goto, Stages, Running, Dispatching
  <2>2. CASE accepting \notin Conns
    <3>1. UNCHANGED <<pc, lock, mainPc, exit>>
      BY <1>11, <2>2 DEF CheckShutdown, CheckCap, Spawn, DropStream, Goto, IInv
    <3> QED
      BY <3>1, Untouched
  <2> QED
    BY <2>1, <2>2
<1>12. CASE Signal
  BY <1>12 DEF Signal, Alive, IInv, HoldersDispatch, MainKeepsLock, CleanByMain
<1>13. CASE SeeShutdown
  BY <1>13 DEF SeeShutdown, Alive, IInv, HoldersDispatch, MainKeepsLock, CleanByMain
<1>14. CASE WaitForDispatch
  BY <1>14, NamesAssumption
  DEF WaitForDispatch, Alive, IInv, HoldersDispatch, MainKeepsLock, CleanByMain
<1>15. CASE Exit
  BY <1>15 DEF Exit, IInv, HoldersDispatch, MainKeepsLock, CleanByMain
<1>16. CASE UNCHANGED vars
  BY <1>16, Untouched DEF vars
<1> QED
  BY <1>1, <1>2, <1>3, <1>4, <1>5, <1>6, <1>7, <1>8, <1>9, <1>10, <1>11, <1>12,
     <1>13, <1>14, <1>15, <1>16
  DEF Next, Serve, AcceptStep, MainStep

\* When the process exits cleanly no connection is in a dispatched stage: a
\* tool call, an upload or a download that has begun is answered first (serve
\* holds the dispatch lock until the process ends).
THEOREM GracefulExit == Spec => []GracefulExitIsClean
<1>1. IInv => GracefulExitIsClean
  BY MainIsNoConn DEF IInv, HoldersDispatch, MainKeepsLock, CleanByMain, GracefulExitIsClean
<1> QED
  BY <1>1, IInvInit, IInvStep, PTL DEF Spec

-----------------------------------------------------------------------------
(* The slots.                                                              *)

\* The stream in the accept thread's hands has no thread yet.
InHand ==
  acceptPc \in {"check", "cap", "spawn"} => accepting \in Conns /\ pc[accepting] = "accepted"

SlotInv ==
  /\ pc \in [Conns -> Stages]
  /\ InHand
  /\ IsFiniteSet(Threads)
  /\ SlotsMatchThreads

\* No thread, no slot.
LEMMA SlotInit == Init => SlotInv
<1> SUFFICES ASSUME Init PROVE SlotInv
  OBVIOUS
<1>1. pc \in [Conns -> Stages] /\ InHand
  BY DEF Init, Stages, InHand
<1>2. Threads = {}
  BY DEF Init, Threads, Running, Dispatching
<1>3. IsFiniteSet(Threads) /\ Cardinality(Threads) = 0
  BY <1>2, FS_EmptySet
<1>4. SlotsMatchThreads
  BY <1>3, LimitsAssumption DEF Init, SlotsMatchThreads
<1> QED
  BY <1>1, <1>3, <1>4 DEF SlotInv

\* A connection moves, but neither into nor out of a thread.
LEMMA SameThreads ==
  ASSUME pc \in [Conns -> Stages], NEW c \in Conns, NEW s \in Stages,
         pc[c] \in Running <=> s \in Running, pc' = [pc EXCEPT ![c] = s]
  PROVE  Threads' = Threads
BY DEF Threads

\* A thread goes on and keeps its slot.
LEMMA ThreadGoesOn ==
  ASSUME SlotInv, NEW c \in Conns, pc[c] \in Running, NEW s \in Running,
         pc' = [pc EXCEPT ![c] = s], UNCHANGED acceptor
  PROVE  SlotInv'
<1>1. Threads' = Threads
  BY SameThreads DEF SlotInv, Stages
<1> QED
  BY <1>1 DEF SlotInv, InHand, SlotsMatchThreads, acceptor, Stages, Running, Dispatching

\* A thread ends and gives its slot back.
LEMMA ThreadEnds ==
  ASSUME SlotInv, NEW c \in Conns, pc[c] \in Running,
         pc' = [pc EXCEPT ![c] = "gone"], live' = live - 1,
         UNCHANGED <<accepting, acceptPc>>
  PROVE  SlotInv'
<1>1. Threads' = Threads \ {c} /\ c \in Threads
  BY DEF SlotInv, Threads, Running, Dispatching
<1>2. /\ IsFiniteSet(Threads') /\ Cardinality(Threads') = Cardinality(Threads) - 1
      /\ Cardinality(Threads) \in Nat
  BY <1>1, FS_RemoveElement, FS_CardinalityType DEF SlotInv
<1>3. SlotsMatchThreads'
  BY <1>2, LimitsAssumption DEF SlotInv, SlotsMatchThreads
<1>4. pc' \in [Conns -> Stages] /\ InHand'
  BY DEF SlotInv, InHand, Stages, Running, Dispatching
<1> QED
  BY <1>2, <1>3, <1>4 DEF SlotInv

\* The accept thread does what it does with the stream in hand.
LEMMA AcceptKeepsSlots ==
  ASSUME SlotInv, AcceptStep \/ AcceptError
  PROVE  SlotInv'
<1> USE DEF Goto, Stages, Running, Dispatching
<1>1. ASSUME NEW c \in Conns, Accept(c) PROVE SlotInv'
  <2>1. Threads' = Threads
    BY <1>1, SameThreads DEF Accept, SlotInv
  <2> QED
    BY <1>1, <2>1 DEF Accept, SlotInv, InHand, SlotsMatchThreads
<1>2. CASE AcceptError
  BY <1>2 DEF AcceptError, threads, SlotInv, InHand, SlotsMatchThreads, Threads
<1>3. CASE CheckShutdown
  <2>1. CASE DropStream("stopped")
    <3>1. Threads' = Threads
      BY <1>3, <2>1, SameThreads DEF CheckShutdown, DropStream, SlotInv, InHand
    <3> QED
      BY <1>3, <2>1, <3>1 DEF CheckShutdown, DropStream, SlotInv, InHand, SlotsMatchThreads
  <2>2. CASE acceptPc' = "cap" /\ UNCHANGED <<pc, accepting>>
    BY <1>3, <2>2 DEF CheckShutdown, SlotInv, InHand, SlotsMatchThreads, Threads
  <2> QED
    BY <1>3, <2>1, <2>2 DEF CheckShutdown
<1>4. CASE CheckCap
  <2>1. CASE DropStream("accept") /\ live' = live
    <3>1. Threads' = Threads
      BY <1>4, <2>1, SameThreads DEF CheckCap, DropStream, SlotInv, InHand
    <3> QED
      BY <1>4, <2>1, <3>1 DEF CheckCap, DropStream, SlotInv, InHand, SlotsMatchThreads
  <2>2. CASE live < MaxConnections /\ live' = live + 1 /\ acceptPc' = "spawn" /\ UNCHANGED <<pc, accepting>>
    <3>1. Threads' = Threads /\ Cardinality(Threads) \in Nat
      BY <2>2, FS_CardinalityType DEF Threads, SlotInv
    <3> QED
      BY <1>4, <2>2, <3>1, LimitsAssumption DEF CheckCap, SlotInv, InHand, SlotsMatchThreads
  <2> QED
    BY <1>4, <2>1, <2>2 DEF CheckCap
<1>5. CASE Spawn
  <2>0. accepting \in Conns /\ pc[accepting] = "accepted" /\ Cardinality(Threads) \in Nat
    BY <1>5, FS_CardinalityType DEF Spawn, SlotInv, InHand
  <2>1. CASE Goto(accepting, "head") /\ acceptPc' = "accept" /\ live' = live
    <3>1. Threads' = Threads \cup {accepting} /\ accepting \notin Threads
      BY <2>0, <2>1 DEF Threads, SlotInv
    <3>2. IsFiniteSet(Threads') /\ Cardinality(Threads') = Cardinality(Threads) + 1
      BY <3>1, FS_AddElement DEF SlotInv
    <3> QED
      BY <1>5, <2>0, <2>1, <3>2 DEF Spawn, SlotInv, InHand, SlotsMatchThreads
  <2>2. CASE DropStream("accept") /\ live' = live - 1
    <3>1. Threads' = Threads
      BY <2>0, <2>2, SameThreads DEF DropStream, SlotInv
    <3> QED
      BY <1>5, <2>0, <2>2, <3>1, LimitsAssumption DEF Spawn, DropStream, SlotInv, InHand, SlotsMatchThreads
  <2> QED
    BY <1>5, <2>1, <2>2 DEF Spawn
<1> QED
  BY <1>1, <1>2, <1>3, <1>4, <1>5 DEF AcceptStep

\* Every step that begins or ends a thread moves the counter with it.
LEMMA SlotStep == SlotInv /\ [Next]_vars => SlotInv'
<1> SUFFICES ASSUME SlotInv, [Next]_vars PROVE SlotInv'
  OBVIOUS
<1> USE DEF Goto, Answer, Stay, Conn, acceptor
<1>1. ASSUME NEW c \in Conns, Connect(c) PROVE SlotInv'
  <2>1. Threads' = Threads
    BY <1>1, SameThreads DEF Connect, SlotInv, Stages, Running, Dispatching
  <2> QED
    BY <1>1, <2>1 DEF Connect, SlotInv, InHand, SlotsMatchThreads, Stages, Running, Dispatching
<1>2. ASSUME NEW c \in Conns, pc[c] \in Running, Leave(c), UNCHANGED <<accepting, acceptPc>>
      PROVE  SlotInv'
  BY <1>2, ThreadEnds DEF Leave
<1>3. ASSUME NEW c \in Conns, ReadHead(c) PROVE SlotInv'
  <2>1. CASE Route(c) /\ Stay
    BY <1>3, <2>1, ThreadGoesOn DEF ReadHead, Route, Running, Dispatching
  <2>2. CASE Answer(c, 400) /\ Stay
    BY <1>3, <2>2, ThreadGoesOn DEF ReadHead, Running, Dispatching
  <2>3. CASE Leave(c)
    BY <1>3, <2>3, <1>2 DEF ReadHead, Running, Dispatching
  <2> QED
    BY <1>3, <2>1, <2>2, <2>3 DEF ReadHead
<1>4. ASSUME NEW c \in Conns, ReadBody(c) PROVE SlotInv'
  BY <1>4, <1>2, ThreadGoesOn DEF ReadBody, Running, Dispatching
<1>5. ASSUME NEW c \in Conns, TakeLock(c) PROVE SlotInv'
  BY <1>5, ThreadGoesOn DEF TakeLock, Running, Dispatching
<1>6. ASSUME NEW c \in Conns, Call(c) \/ Fetch(c) \/ Refuse(c) \/ Check(c) PROVE SlotInv'
  BY <1>6, ThreadGoesOn DEF Call, Fetch, Refuse, Check, Running, Dispatching
<1>7. ASSUME NEW c \in Conns, Store(c) PROVE SlotInv'
  BY <1>7, ThreadGoesOn DEF Store, Running, Dispatching
<1>8. ASSUME NEW c \in Conns, Receive(c) PROVE SlotInv'
  <2>1. CASE Goto(c, "check") /\ Stay
    BY <1>8, <2>1, ThreadGoesOn DEF Receive, Running, Dispatching
  <2>2. CASE pc' = pc /\ Stay
    BY <1>8, <2>2 DEF Receive, SlotInv, InHand, SlotsMatchThreads, Threads
  <2>3. CASE \E s \in {400, 500} : Answer(c, s) /\ Stay
    BY <1>8, <2>3, ThreadGoesOn DEF Receive, Running, Dispatching
  <2>4. CASE Leave(c)
    BY <1>8, <2>4, <1>2 DEF Receive, Running, Dispatching
  <2> QED
    BY <1>8, <2>1, <2>2, <2>3, <2>4 DEF Receive
<1>9. ASSUME NEW c \in Conns, Respond(c) \/ Linger(c) PROVE SlotInv'
  BY <1>9, <1>2, ThreadGoesOn DEF Respond, Linger, Running, Dispatching
<1>10. CASE AcceptStep \/ AcceptError
  BY <1>10, AcceptKeepsSlots
<1>11. CASE UNCHANGED <<pc, acceptor>>
  BY <1>11 DEF SlotInv, InHand, SlotsMatchThreads, Threads
<1> QED
  BY <1>1, <1>3, <1>4, <1>5, <1>6, <1>7, <1>8, <1>9, <1>10, <1>11
  DEF Next, Serve, MainStep, Signal, SeeShutdown, WaitForDispatch, Exit, threads, vars

\* The slot counter is the number of connection threads, plus the one being
\* spawned, and never exceeds the cap (ConnectionSlot, accept_loop).
THEOREM SlotsAreExact == Spec => []SlotsMatchThreads
<1>1. SlotInv => SlotsMatchThreads
  BY DEF SlotInv
<1> QED
  BY <1>1, SlotInit, SlotStep, PTL DEF Spec

-----------------------------------------------------------------------------
(* Uploads.                                                                *)

\* The stages before the first byte of a body is written.
Early == {"off", "backlog", "accepted", "head", "lock", "store"}

UploadTypes ==
  /\ DOMAIN request = Conns
  /\ received \in [Conns -> Nat]
  /\ DOMAIN files = Names
  /\ \A n \in Names : DOMAIN files[n] = {"writer", "size"} /\ files[n].size \in Nat

\* What a connection asks fits the stage it has reached.
Asked ==
  \A c \in Conns :
    /\ pc[c] = "off" => received[c] = 0
    /\ pc[c] # "off" =>
         /\ request[c] \in Requests
         /\ pc[c] = "body" => request[c].route = "mcp"
         /\ pc[c] \in {"store", "receive", "check"} => request[c].route = "post"
         /\ request[c].route = "post" /\ pc[c] \in Early => received[c] = 0

\* The file an upload is being received into is what has been received.
Receiving ==
  \A c \in Conns : pc[c] = "receive" =>
    /\ received[c] < request[c].size
    /\ files[request[c].name] = [writer |-> c, size |-> received[c]]

\* Only connections that exist have written files.
WritersExist == \A n \in Names : files[n].writer \in Conns => pc[files[n].writer] # "off"

UploadInv == IInv /\ UploadTypes /\ Asked /\ Receiving /\ WritersExist /\ NoPartialUpload

\* What is known of a request.
LEMMA RequestFacts ==
  ASSUME NEW r \in Requests
  PROVE  /\ r.size \in Nat
         /\ r.route = "post" => r.size > 0
         /\ r.route = "post" => r.name \in Names
<1> DEFINE Asks(routes, sizes, names, expects) ==
      [route : Routes \cap routes, size : sizes, name : names, expect : expects]
<1>1. Requests = Asks({"health", "other"}, {0}, {NoConn}, {FALSE})
        \cup Asks({"mcp"}, Sizes, {NoConn}, Expects)
        \cup Asks({"post"}, Sizes, Names, Expects)
        \cup Asks({"get"}, {0}, Names, {FALSE})
  BY Zenon DEF Requests
<1>2. CASE r \in Asks({"health", "other"}, {0}, {NoConn}, {FALSE})
  BY <1>2
<1>3. CASE r \in Asks({"mcp"}, Sizes, {NoConn}, Expects)
  BY <1>3, SizesAssumption
<1>4. CASE r \in Asks({"post"}, Sizes, Names, Expects)
  <2>1. r.size \in Sizes /\ r.name \in Names
    BY <1>4
  <2>2. r.size \in Nat \ {0}
    BY <2>1, SizesAssumption
  <2> QED
    BY <2>1, <2>2
<1>5. CASE r \in Asks({"get"}, {0}, Names, {FALSE})
  BY <1>5
<1> QED
  BY <1>1, <1>2, <1>3, <1>4, <1>5

\* The workspace is empty at first.
LEMMA UploadInit == Init => UploadInv
<1> SUFFICES ASSUME Init PROVE UploadInv
  OBVIOUS
<1>1. IInv
  BY IInvInit
<1>2. UploadTypes /\ Asked /\ Receiving
  BY DEF Init, UploadTypes, Asked, Receiving, Absent
<1>3. WritersExist /\ NoPartialUpload
  BY NamesAssumption DEF Init, WritersExist, NoPartialUpload, Absent
<1> QED
  BY <1>1, <1>2, <1>3 DEF UploadInv

\* Two connections do not receive at a time.
LEMMA OneReceives ==
  ASSUME IInv, NEW c \in Conns, NEW d \in Conns,
         pc[c] \in Dispatching, pc[d] \in Dispatching
  PROVE  c = d
BY DEF IInv, HoldersDispatch

\* A connection that does not receive goes on, and no file changes.
LEMMA NoFileTouched ==
  ASSUME UploadInv, IInv', NEW c \in Conns, NEW s \in Stages \ {"off", "receive"},
         s = "body" => request[c].route = "mcp",
         pc[c] \notin {"off", "receive"}, pc' = [pc EXCEPT ![c] = s],
         s \in {"store", "check"} => request[c].route = "post",
         \/ received' = received /\ (s \in Early => pc[c] \in Early \cup {"body"})
         \/ /\ request[c].route = "mcp"
            /\ \E x \in Nat : received' = [received EXCEPT ![c] = x],
         UNCHANGED <<request, files, leftover>>
  PROVE  UploadInv'
<1>1. UploadTypes' /\ Receiving'
  BY DEF UploadInv, UploadTypes, Receiving, IInv
<1>2. WritersExist' /\ NoPartialUpload'
  BY DEF UploadInv, WritersExist, NoPartialUpload, IInv
<1>3. Asked'
  BY DEF UploadInv, Asked, UploadTypes, IInv, Early
<1> QED
  BY <1>1, <1>2, <1>3 DEF UploadInv

\* The holder of the lock is done with its upload, whose file is whole, gone,
\* or known to be left over; or it never had one.
LEMMA UploadEnds ==
  ASSUME UploadInv, IInv', NEW c \in Conns, pc[c] \in Dispatching,
         NEW s \in {"respond", "gone", "check", "refuse"}, pc' = [pc EXCEPT ![c] = s],
         s = "check" => request[c].route = "post",
         UploadTypes', \A d \in Conns \ {c} : received'[d] = received[d],
         UNCHANGED request, leftover \subseteq leftover',
         \A n \in Names \ leftover' :
           \/ files'[n].writer \notin Conns
           \/ files'[n].writer = c /\ ~(files'[n].size < request[c].size)
           \/ files'[n] = files[n] /\ ~(pc[c] = "receive" /\ n = request[c].name),
         \A n \in Names : files'[n].writer \in {files[n].writer, c} \/ files'[n].writer \notin Conns
  PROVE  UploadInv'
<1> USE DEF UploadInv
<1>1. \A d \in Conns : pc'[d] # "receive"
  BY OneReceives DEF IInv, Dispatching
<1>2. Receiving'
  BY <1>1 DEF Receiving
<1>3. WritersExist'
  BY DEF WritersExist, IInv, Dispatching
<1>4. Asked'
  BY DEF Asked, IInv, Early, Dispatching
<1>5. ASSUME NEW n \in Names \ leftover', files'[n].writer \in Conns
      PROVE  ~(files'[n].size < request'[files'[n].writer].size)
  <2>1. CASE files'[n].writer = c /\ ~(files'[n].size < request[c].size)
    BY <2>1
  <2>2. CASE files'[n] = files[n] /\ ~(pc[c] = "receive" /\ n = request[c].name)
    <3>1. files[n].size < request[files[n].writer].size
            => pc[files[n].writer] = "receive" /\ request[files[n].writer].name = n
      BY <1>5, <2>2 DEF NoPartialUpload
    <3>2. pc[files[n].writer] = "receive" => files[n].writer = c
      BY <1>5, <2>2, OneReceives DEF Dispatching
    <3> QED
      BY <2>2, <3>1, <3>2
  <2> QED
    BY <1>5, <2>1, <2>2
<1>6. NoPartialUpload'
  BY <1>5 DEF NoPartialUpload
<1> QED
  BY <1>2, <1>3, <1>4, <1>6

\* remove_file: the file is gone, or known to be left over.
LEMMA Removes ==
  ASSUME UploadTypes, NEW n, NEW cost, Remove(n, cost)
  PROVE  /\ leftover \subseteq leftover'
         /\ DOMAIN files' = Names
         /\ \A m \in Names : /\ DOMAIN files'[m] = {"writer", "size"} /\ files'[m].size \in Nat
                             /\ files'[m] = files[m] \/ files'[m] = Absent
                             /\ m \notin leftover' /\ m = n => files'[m] = Absent
                             /\ m # n => files'[m] = files[m]
BY DEF UploadTypes, Remove, Absent

\* store_file up to the first byte: nobody else is receiving, whatever file is
\* emptied.
LEMMA StoreKeepsUploads ==
  ASSUME UploadInv, IInv', NEW c \in Conns, Store(c)
  PROVE  UploadInv'
<1> USE DEF Conn, Stay, Goto, Answer
<1>1. /\ pc[c] = "store" /\ request[c] \in Requests /\ request[c].route = "post"
      /\ received[c] = 0 /\ pc \in [Conns -> Stages]
  BY DEF Store, UploadInv, Asked, Early, IInv
<1>2. CASE files' = files /\ \E s \in {"respond", "refuse"} : pc' = [pc EXCEPT ![c] = s]
  <2>1. UNCHANGED <<request, received, files, leftover>>
    BY <1>2 DEF Store
  <2>2. PICK s \in {"respond", "refuse"} : pc' = [pc EXCEPT ![c] = s]
    BY <1>2
  <2>3. s \in Stages \ ({"off", "receive", "body", "store", "check"} \cup Early)
    BY DEF Stages, Running, Dispatching, Early
  <2> QED
    BY <1>1, <2>1, <2>2, <2>3, NoFileTouched
<1>3. CASE /\ files' = [files EXCEPT ![request[c].name] = [writer |-> c, size |-> 0]]
           /\ pc' = [pc EXCEPT ![c] = "receive"]
  <2> DEFINE n == request[c].name
  <2>0. n \in Names /\ request[c].size > 0 /\ UNCHANGED <<request, received, leftover>>
    BY <1>1, RequestFacts DEF Store
  <2>1. \A d \in Conns \ {c} : pc[d] # "receive"
    BY <1>1, OneReceives DEF UploadInv, Dispatching
  <2>2. UploadTypes'
    BY <1>3, <2>0 DEF UploadInv, UploadTypes
  <2>3. Receiving'
    BY <1>1, <1>3, <2>0, <2>1 DEF UploadInv, UploadTypes, Receiving
  <2>4. Asked'
    BY <1>1, <1>3, <2>0 DEF UploadInv, Asked, Early
  <2>5. WritersExist'
    BY <1>1, <1>3, <2>0 DEF UploadInv, UploadTypes, WritersExist
  <2>6. NoPartialUpload'
    BY <1>1, <1>3, <2>0 DEF UploadInv, UploadTypes, NoPartialUpload
  <2> QED
    BY <2>2, <2>3, <2>4, <2>5, <2>6 DEF UploadInv
<1> QED
  BY <1>2, <1>3 DEF Store

\* A unit is received, or the upload ends early and its file is removed.
LEMMA ReceiveKeepsUploads ==
  ASSUME UploadInv, IInv', NEW c \in Conns, Receive(c)
  PROVE  UploadInv'
<1> USE DEF Conn, Stay, Goto, Answer, Leave
<1> DEFINE n == request[c].name
<1>1. /\ pc[c] = "receive" /\ request[c] \in Requests /\ request[c].route = "post"
      /\ n \in Names /\ request[c].size \in Nat /\ received[c] < request[c].size
      /\ files[n] = [writer |-> c, size |-> received[c]]
      /\ pc \in [Conns -> Stages] /\ UNCHANGED request
  BY RequestFacts DEF Receive, UploadInv, Asked, Receiving, IInv
<1>2. CASE /\ received' = [received EXCEPT ![c] = @ + 1]
           /\ files' = [files EXCEPT ![n].size = @ + 1]
           /\ IF received'[c] = request[c].size THEN Goto(c, "check") ELSE pc' = pc
           /\ UNCHANGED leftover
  <2>1. /\ files'[n] = [writer |-> c, size |-> received[c] + 1]
        /\ \A m \in Names \ {n} : files'[m] = files[m]
        /\ received'[c] = received[c] + 1
        /\ \A d \in Conns \ {c} : received'[d] = received[d]
    BY <1>1, <1>2 DEF UploadInv, UploadTypes
  <2>2. UploadTypes'
    BY <1>1, <1>2 DEF UploadInv, UploadTypes
  <2>3. CASE received'[c] = request[c].size
    <3>1. \A m \in Names \ leftover' :
            \/ files'[m].writer = c /\ ~(files'[m].size < request[c].size)
            \/ files'[m] = files[m] /\ ~(pc[c] = "receive" /\ m = request[c].name)
      BY <1>1, <2>1, <2>3
    <3>2. \A m \in Names : files'[m].writer \in {files[m].writer, c}
      BY <2>1
    <3> QED
      BY <1>1, <1>2, <2>1, <2>2, <2>3, <3>1, <3>2, UploadEnds DEF Dispatching
  <2>4. CASE received'[c] # request[c].size
    <3>1. pc' = pc /\ received'[c] < request[c].size
      BY <1>1, <1>2, <2>1, <2>4 DEF UploadInv, UploadTypes
    <3>2. \A d \in Conns \ {c} : pc[d] # "receive"
      BY <1>1, OneReceives DEF UploadInv, Dispatching
    <3>3. Receiving'
      BY <1>1, <2>1, <3>1, <3>2 DEF Receiving
    <3>4. Asked'
      BY <1>1, <2>1, <3>1 DEF UploadInv, Asked, Early
    <3>5. WritersExist' /\ NoPartialUpload'
      BY <1>1, <1>2, <2>1, <3>1 DEF UploadInv, WritersExist, NoPartialUpload
    <3> QED
      BY <2>2, <3>3, <3>4, <3>5 DEF UploadInv
  <2> QED
    BY <2>3, <2>4
<1>3. CASE /\ \E cost \in {1} : Remove(n, cost)
           /\ \E s \in {"respond", "gone"} : pc' = [pc EXCEPT ![c] = s]
           /\ received' = received
  <2>1. UploadTypes'
    BY <1>1, <1>3, Removes DEF UploadInv, UploadTypes
  <2>2. \A m \in Names : /\ files'[m].writer \in {files[m].writer, NoConn}
                         /\ \/ m \in leftover'
                            \/ files'[m].writer \notin Conns
                            \/ files'[m] = files[m] /\ m # n
    BY <1>1, <1>3, Removes, NamesAssumption DEF UploadInv, Absent
  <2>3. leftover \subseteq leftover'
    BY <1>3, Removes DEF UploadInv
  <2> QED
    BY <1>1, <1>3, <2>1, <2>2, <2>3, UploadEnds, NamesAssumption DEF Dispatching
<1> QED
  BY <1>2, <1>3 DEF Receive

\* Every step keeps what is known of the workspace; that the stream in hand
\* has no thread yet comes from the slots.
LEMMA UploadStep == SlotInv /\ UploadInv /\ [Next]_vars => UploadInv'
<1> SUFFICES ASSUME SlotInv, UploadInv, [Next]_vars PROVE UploadInv'
  OBVIOUS
<1>i. IInv' /\ pc \in [Conns -> Stages]
  BY IInvStep DEF UploadInv, IInv
<1> USE DEF threads, acceptor, workspace, process, Conn, Stay, Goto, Answer, Leave
<1>1. ASSUME NEW c \in Conns, Connect(c) PROVE UploadInv'
  <2>0. /\ pc' = [pc EXCEPT ![c] = "backlog"] /\ pc[c] = "off" /\ received' = received
        /\ \A d \in Conns \ {c} : request'[d] = request[d]
        /\ request'[c] \in Requests /\ DOMAIN request' = Conns
        /\ files' = files
    BY <1>1 DEF Connect, UploadInv, UploadTypes
  <2>1. UploadTypes' /\ Receiving'
    BY <1>i, <2>0 DEF UploadInv, UploadTypes, Receiving
  <2>3. request'[c].route = "post" => received[c] = 0
    BY <2>0 DEF UploadInv, Asked
  <2>4. Asked'
    BY <1>i, <2>0, <2>3 DEF UploadInv, Asked, Early
  <2>2. WritersExist' /\ NoPartialUpload'
    BY <1>i, <1>1 DEF Connect, UploadInv, UploadTypes, WritersExist, NoPartialUpload
  <2> QED
    BY <1>i, <2>1, <2>2, <2>4 DEF UploadInv
<1>2. ASSUME NEW c \in Conns, ReadHead(c) PROVE UploadInv'
  BY <1>i, <1>2, NoFileTouched DEF ReadHead, Route, Stages, Running, Dispatching, Early
<1>3. ASSUME NEW c \in Conns, ReadBody(c) PROVE UploadInv'
  <2>1. request[c].route = "mcp" /\ request[c].size \in Nat
    BY <1>3, RequestFacts DEF ReadBody, UploadInv, Asked
  <2> QED
    BY <1>i, <1>3, <2>1, NoFileTouched DEF ReadBody, Stages, Running, Dispatching, Early
<1>4. ASSUME NEW c \in Conns, TakeLock(c) PROVE UploadInv'
  BY <1>i, <1>4, NoFileTouched DEF TakeLock, Stages, Running, Dispatching, Early
<1>5. ASSUME NEW c \in Conns, Fetch(c) \/ Refuse(c) \/ Respond(c) \/ Linger(c) PROVE UploadInv'
  BY <1>i, <1>5, NoFileTouched DEF Fetch, Refuse, Respond, Linger, Stages, Running, Dispatching, Early
<1>6. ASSUME NEW c \in Conns, Call(c) PROVE UploadInv'
  <2>0. PICK s \in {"respond"} : pc' = [pc EXCEPT ![c] = s]
    BY <1>6 DEF Call
  <2>1. pc[c] = "call" /\ UNCHANGED <<request, received, leftover>>
    BY <1>6 DEF Call
  <2>2. CASE files' = files
    BY <1>i, <2>0, <2>1, <2>2, NoFileTouched DEF Stages, Running, Dispatching, Early
  <2>3. ASSUME NEW n \in Names, NEW s1 \in Sizes,
               files' = [files EXCEPT ![n] = [writer |-> Tool, size |-> s1]]
        PROVE  UploadInv'
    <3>1. UploadTypes'
      BY <2>1, <2>3, SizesAssumption DEF UploadInv, UploadTypes
    <3>2. \A m \in Names : files'[m] = files[m] \/ files'[m].writer = Tool
      BY <2>3 DEF UploadInv, UploadTypes
    <3>3. /\ \A m \in Names \ leftover' :
               \/ files'[m].writer \notin Conns
               \/ files'[m] = files[m] /\ ~(pc[c] = "receive" /\ m = request[c].name)
          /\ \A m \in Names : files'[m].writer \in {files[m].writer, c} \/ files'[m].writer \notin Conns
      BY <2>1, <3>2, NamesAssumption
    <3> QED
      BY <1>i, <2>0, <2>1, <3>1, <3>3, UploadEnds DEF Dispatching
  <2> QED
    BY <1>6, <2>2, <2>3 DEF Call
<1>7. ASSUME NEW c \in Conns, Store(c) \/ Receive(c) PROVE UploadInv'
  BY <1>i, <1>7, StoreKeepsUploads, ReceiveKeepsUploads
<1>8. ASSUME NEW c \in Conns, Check(c) PROVE UploadInv'
  <2>1. CASE UNCHANGED workspace
    BY <1>i, <1>8, <2>1, NoFileTouched DEF Check, Stages, Running, Dispatching, Early
  <2>2. CASE \E cost \in {0} : Remove(request[c].name, cost)
    <3>1. UploadTypes'
      BY <1>8, <2>2, Removes DEF Check, UploadInv, UploadTypes
    <3>2. \A m \in Names : files'[m] = files[m] \/ files'[m].writer = NoConn
      BY <2>2, Removes DEF UploadInv, Absent
    <3>3. leftover \subseteq leftover'
      BY <2>2, Removes DEF UploadInv
    <3> QED
      BY <1>i, <1>8, <3>1, <3>2, <3>3, UploadEnds, NamesAssumption DEF Check, Dispatching
  <2> QED
    BY <1>8, <2>1, <2>2 DEF Check
<1>9. ASSUME NEW c \in Conns, Accept(c) PROVE UploadInv'
  BY <1>i, <1>9, NoFileTouched DEF Accept, Stages, Running, Dispatching, Early
<1>10. CASE CheckShutdown \/ CheckCap \/ Spawn
  <2>1. CASE UNCHANGED pc
    BY <1>i, <1>10, <2>1
    DEF CheckShutdown, CheckCap, Spawn, UploadInv, UploadTypes, Asked, Receiving, WritersExist, NoPartialUpload
  <2>2. CASE \E s \in {"dropped", "head"} : pc' = [pc EXCEPT ![accepting] = s]
    <3>1. accepting \in Conns /\ pc[accepting] = "accepted"
      BY <1>10 DEF CheckShutdown, CheckCap, Spawn, SlotInv, InHand
    <3>2. UNCHANGED <<request, received, files, leftover>>
      BY <1>10 DEF CheckShutdown, CheckCap, Spawn
    <3>3. PICK s \in {"dropped", "head"} : pc' = [pc EXCEPT ![accepting] = s]
      BY <2>2
    <3> QED
      BY <1>i, <3>1, <3>2, <3>3, NoFileTouched DEF Stages, Running, Dispatching, Early
  <2> QED
    BY <1>10, <2>1, <2>2 DEF CheckShutdown, CheckCap, Spawn, DropStream
<1>11. CASE UNCHANGED <<request, pc, received, files, leftover>>
  BY <1>i, <1>11 DEF UploadInv, UploadTypes, Asked, Receiving, WritersExist, NoPartialUpload
<1> QED
  BY <1>1, <1>2, <1>3, <1>4, <1>5, <1>6, <1>7, <1>8, <1>9, <1>10, <1>11
  DEF Next, Serve, AcceptStep, AcceptError, MainStep, Signal, SeeShutdown, WaitForDispatch, Exit, vars

\* A file shorter than its upload declared is being received right now, could
\* not be removed, or was cut off by the second signal (store_file).
THEOREM UploadsAreWhole == Spec => []NoPartialUpload
<1>1. UploadInv => NoPartialUpload
  BY DEF UploadInv
<1> QED
  BY <1>1, UploadInit, UploadStep, SlotInit, SlotStep, PTL DEF Spec

-----------------------------------------------------------------------------
(* Answers to uploads.                                                     *)

\* The sizes of files.
SizesOf(f, S) == [m \in S |-> f[m].size]

\* Sizes of files that differ in the size of one.
LEMMA OneSize ==
  ASSUME NEW S, IsFiniteSet(S), NEW f, NEW g, NEW n \in S,
         \A m \in S : f[m].size \in Nat /\ g[m].size \in Nat,
         \A m \in S \ {n} : g[m].size = f[m].size
  PROVE  LET u == Total(SizesOf(f, S), S)
             v == Total(SizesOf(g, S), S)
         IN  u \in Nat /\ v \in Nat /\ v + f[n].size = u + g[n].size
<1> DEFINE F == SizesOf(f, S)
           G == SizesOf(g, S)
           R == S \ {n}
           u == Total(F, S)
           v == Total(G, S)
           x == Total(F, R)
           y == Total(G, R)
<1>1. \A m \in S : F[m] \in Nat /\ G[m] \in Nat
  BY DEF SizesOf
<1>2. F[n] = f[n].size /\ G[n] = g[n].size
  BY DEF SizesOf
<1>3. \A m \in R : F[m] \in Int /\ G[m] = F[m]
  BY DEF SizesOf
<1>4. IsFiniteSet(R)
  BY FS_Subset
<1> HIDE DEF F, G
<1>5. u \in Nat /\ v \in Nat
  BY <1>1, TotalNat
<1>6. \A m \in S : F[m] \in Int /\ G[m] \in Int
  BY <1>1
<1>7. u = F[n] + x /\ v = G[n] + y
  BY <1>6, TotalOut
<1>8. y = x
  <2> HIDE DEF R
  <2> QED
    BY <1>3, <1>4, TotalSame
<1>9. x \in Int
  <2> HIDE DEF R
  <2>1. \A m \in R : F[m] \in Int
    BY <1>3
  <2> QED
    BY <1>4, <2>1, TotalOut
<1>10. F[n] \in Nat /\ G[n] \in Nat
  BY <1>1
<1> HIDE DEF u, v, x, y
<1>11. v + F[n] = u + G[n]
  BY <1>5, <1>7, <1>8, <1>9, <1>10
<1> QED
  BY <1>2, <1>5, <1>11 DEF u, v, F, G

\* A file is written or removed: what is in use changes by as much.
LEMMA UsedChanges ==
  ASSUME UploadTypes, UploadTypes', NEW n \in Names,
         \A m \in Names \ {n} : files'[m] = files[m]
  PROVE  Used \in Nat /\ Used' \in Nat /\ Used' + files[n].size = Used + files'[n].size
<1>1. \A m \in Names : files[m].size \in Nat /\ files'[m].size \in Nat
  BY DEF UploadTypes
<1>2. \A m \in Names \ {n} : files'[m].size = files[m].size
  OBVIOUS
<1>3. IsFiniteSet(Names)
  BY NamesAssumption
<1> DEFINE f == files
           g == files'
           u == Total(SizesOf(f, Names), Names)
           v == Total(SizesOf(g, Names), Names)
<1>4. u = Used /\ v = Used'
  BY DEF Used, SizesOf
<1>5. u \in Nat /\ v \in Nat /\ v + f[n].size = u + g[n].size
  <2> HIDE DEF f, g
  <2>1. \A m \in Names : f[m].size \in Nat /\ g[m].size \in Nat
    BY <1>1 DEF f, g
  <2>2. \A m \in Names \ {n} : g[m].size = f[m].size
    BY <1>2 DEF f, g
  <2> QED
    BY <1>3, <2>1, <2>2, OneSize
<1> HIDE DEF u, v
<1> QED
  BY <1>4, <1>5

\* An upload that is being received or looked at once more: its file is what
\* has been received, and what is still to come fits the quota, unless a look
\* at the workspace has failed.
Uploading ==
  \A c \in Conns : pc[c] \in {"receive", "check"} =>
    /\ files[request[c].name] = [writer |-> c, size |-> received[c]]
    /\ pc[c] = "check" => received[c] = request[c].size
    /\ faults >= 1 \/ Used + request[c].size <= Quota + received[c]

\* Uploads are stored, not called or fetched.
NoUpload == \A c \in Conns : pc[c] \in {"call", "fetch"} => request[c].route # "post"

AckInv == faults \in Nat /\ DOMAIN status = Conns /\ Uploading /\ NoUpload

\* What UploadIsAcknowledgedWhole says of a step.
Acknowledged ==
  \A c \in Conns :
    status[c] = 0 /\ status'[c] = 200 /\ request[c].route = "post" =>
      /\ files'[request[c].name] = [writer |-> c, size |-> request[c].size]
      /\ Used' <= Quota \/ faults' > 1

\* Nobody uploads at first.
LEMMA AckInit == Init => AckInv
BY DEF Init, AckInv, Uploading, NoUpload

\* Faults are counted.
LEMMA FaultsCount ==
  ASSUME AckInv, NEW n \in Nat, Spend(n)
  PROVE  faults' \in Nat /\ faults' = faults + n
BY DEF AckInv, Spend

\* A step of c that does not lead it into an upload, and leaves the files
\* alone or is made with the lock.
LEMMA Aside ==
  ASSUME UploadInv, AckInv, NEW c \in Conns, NEW s \in Stages \ {"receive", "check"},
         pc' = [pc EXCEPT ![c] = s],
         s \in {"call", "fetch"} => request'[c].route # "post",
         \A d \in Conns \ {c} : request'[d] = request[d] /\ received'[d] = received[d],
         files' = files \/ pc[c] \in Dispatching,
         faults' \in Nat, faults' >= faults, DOMAIN status' = Conns
  PROVE  AckInv'
<1>1. /\ pc'[c] = s /\ pc \in [Conns -> Stages]
      /\ \A d \in Conns \ {c} : pc'[d] = pc[d]
  BY DEF UploadInv, IInv
<1>2. ASSUME NEW d \in Conns, pc'[d] \in {"receive", "check"}
      PROVE  /\ files'[request'[d].name] = [writer |-> d, size |-> received'[d]]
             /\ pc'[d] = "check" => received'[d] = request'[d].size
             /\ faults' >= 1 \/ Used' + request'[d].size <= Quota + received'[d]
  <2>1. d # c /\ pc[d] \in {"receive", "check"} /\ pc'[d] = pc[d]
    BY <1>1, <1>2
  <2>2. request'[d] = request[d] /\ received'[d] = received[d]
    BY <2>1
  <2>3. pc[c] \notin Dispatching
    BY <2>1, OneReceives DEF UploadInv, Dispatching
  <2>4. files' = files
    BY <2>3
  <2>5. Used' = Used
    BY <2>4 DEF Used
  <2>6. /\ files[request[d].name] = [writer |-> d, size |-> received[d]]
        /\ pc[d] = "check" => received[d] = request[d].size
        /\ faults >= 1 \/ Used + request[d].size <= Quota + received[d]
    BY <2>1 DEF AckInv, Uploading
  <2>7. faults >= 1 => faults' >= 1
    BY DEF AckInv
  <2> QED
    BY <2>1, <2>2, <2>4, <2>5, <2>6, <2>7
<1>3. Uploading'
  BY <1>2 DEF Uploading
<1>4. NoUpload'
  <2>1. ASSUME NEW d \in Conns, pc'[d] \in {"call", "fetch"} PROVE request'[d].route # "post"
    <3>1. CASE d = c
      BY <1>1, <2>1, <3>1
    <3>2. CASE d # c
      BY <1>1, <2>1, <3>2 DEF AckInv, NoUpload
    <3> QED
      BY <3>1, <3>2
  <2> QED
    BY <2>1 DEF NoUpload
<1> QED
  BY <1>3, <1>4 DEF AckInv

\* A step that decides no status 200 for an upload.
LEMMA NoAck ==
  ASSUME AckInv, NEW c \in Conns, NEW s,
         status' = status \/ status' = [status EXCEPT ![c] = s],
         s # 200 \/ request[c].route # "post"
  PROVE  Acknowledged /\ DOMAIN status' = Conns
BY DEF AckInv, Acknowledged

\* What is known of a connection that stores a file.
LEMMA Uploader ==
  ASSUME UploadInv, NEW c \in Conns, pc[c] \in {"store", "receive", "check"}
  PROVE  /\ request[c] \in Requests /\ request[c].route = "post"
         /\ request[c].name \in Names /\ request[c].size \in Nat /\ request[c].size > 0
         /\ received[c] \in Nat /\ pc \in [Conns -> Stages]
         /\ pc[c] = "store" => received[c] = 0
<1>1. /\ request[c] \in Requests /\ request[c].route = "post"
      /\ pc[c] = "store" => received[c] = 0
  BY DEF UploadInv, Asked, Early
<1>2. received[c] \in Nat /\ pc \in [Conns -> Stages]
  BY DEF UploadInv, UploadTypes, IInv
<1> QED
  BY <1>1, <1>2, RequestFacts

\* The holder of the lock goes on with its upload: nobody else is there.
LEMMA UploadGoesOn ==
  ASSUME UploadInv, AckInv, NEW c \in Conns, pc[c] \in Dispatching,
         NEW s \in {"receive", "check"}, pc' = [pc EXCEPT ![c] = s],
         files'[request[c].name] = [writer |-> c, size |-> received'[c]],
         s = "check" => received'[c] = request[c].size,
         faults' >= 1 \/ Used' + request[c].size <= Quota + received'[c],
         request' = request, faults' \in Nat, DOMAIN status' = Conns
  PROVE  AckInv'
<1>1. /\ pc'[c] = s /\ pc \in [Conns -> Stages]
      /\ \A d \in Conns \ {c} : pc'[d] = pc[d]
  BY DEF UploadInv, IInv
<1>2. ASSUME NEW d \in Conns, d # c PROVE pc'[d] \notin Dispatching
  <2>1. pc'[d] = pc[d]
    BY <1>1, <1>2
  <2> QED
    BY <1>2, <2>1, OneReceives DEF UploadInv
<1>3. ASSUME NEW d \in Conns, pc'[d] \in {"receive", "check"} PROVE d = c
  BY <1>2, <1>3 DEF Dispatching
<1>4. Uploading'
  BY <1>1, <1>3 DEF Uploading
<1>5. ASSUME NEW d \in Conns PROVE pc'[d] \notin {"call", "fetch"}
  BY <1>1, <1>2 DEF Dispatching
<1>6. NoUpload'
  BY <1>5 DEF NoUpload
<1> QED
  BY <1>4, <1>6 DEF AckInv

\* The holder of the lock leaves its upload, or its call, for good.
LEMMA Away ==
  ASSUME UploadInv, AckInv, NEW c \in Conns, pc[c] \in Dispatching,
         NEW s \in {"respond", "gone", "refuse"}, pc' = [pc EXCEPT ![c] = s],
         request' = request, received' = received,
         faults' \in Nat, faults' >= faults, DOMAIN status' = Conns
  PROVE  AckInv'
<1>1. s \in Stages \ {"receive", "check"}
  BY DEF Stages, Running, Dispatching
<1>2. s \in {"call", "fetch"} => request'[c].route # "post"
  OBVIOUS
<1>3. \A d \in Conns \ {c} : request'[d] = request[d] /\ received'[d] = received[d]
  OBVIOUS
<1>4. files' = files \/ pc[c] \in Dispatching
  OBVIOUS
<1> QED
  BY <1>1, <1>2, <1>3, <1>4, Aside

\* store_file up to the first byte: the file is emptied, and the body fits
\* what was looked up, unless the look failed.
LEMMA StoreAck ==
  ASSUME UploadInv, UploadInv', AckInv, NEW c \in Conns, Store(c)
  PROVE  AckInv' /\ Acknowledged
<1> DEFINE r == request[c]
<1>1. /\ pc[c] = "store" /\ request' = request /\ received' = received
      /\ pc[c] \in Dispatching
  BY DEF Store, Conn, Dispatching
<1>2. /\ r.route = "post" /\ r.name \in Names /\ r.size \in Nat /\ received[c] = 0
  BY <1>1, Uploader
<1>3. ASSUME NEW s \in {413, 500}, Answer(c, s), faults' \in Nat, faults' >= faults
      PROVE  AckInv' /\ Acknowledged
  <2>1. pc' = [pc EXCEPT ![c] = "respond"] /\ status' = [status EXCEPT ![c] = s]
    BY <1>3 DEF Answer, Goto
  <2>2. s # 200 /\ (status' = status \/ status' = [status EXCEPT ![c] = s])
    BY <1>3, <2>1
  <2>3. Acknowledged /\ DOMAIN status' = Conns
    BY <2>2, NoAck
  <2>4. AckInv'
    BY <1>1, <1>3, <2>1, <2>3, Away
  <2> QED
    BY <2>3, <2>4
<1>4. ASSUME Goto(c, "refuse"), UNCHANGED status, faults' \in Nat, faults' >= faults
      PROVE  AckInv' /\ Acknowledged
  <2>1. Acknowledged /\ DOMAIN status' = Conns
    BY <1>4 DEF AckInv, Acknowledged
  <2>2. pc' = [pc EXCEPT ![c] = "refuse"]
    BY <1>4 DEF Goto
  <2>3. AckInv'
    BY <1>1, <1>4, <2>1, <2>2, Away
  <2> QED
    BY <2>1, <2>3
<1>5. ASSUME NEW u \in {0, Used}, Reads(u), u + r.size <= Quota,
             files' = [files EXCEPT ![r.name] = [writer |-> c, size |-> 0]],
             Goto(c, "receive"), UNCHANGED status
      PROVE  AckInv' /\ Acknowledged
  <2>1. UploadTypes /\ UploadTypes' /\ \A m \in Names \ {r.name} : files'[m] = files[m]
    BY <1>2, <1>5 DEF UploadInv, UploadTypes
  <2>2. files'[r.name] = [writer |-> c, size |-> 0]
    BY <1>2, <1>5, <2>1 DEF UploadTypes
  <2>3. /\ Used \in Nat /\ Used' \in Nat
        /\ Used' + files[r.name].size = Used + files'[r.name].size
    BY <1>2, <2>1, UsedChanges
  <2>4. files[r.name].size \in Nat /\ files'[r.name].size = 0
    BY <1>2, <2>1, <2>2 DEF UploadTypes
  <2>5. Used' <= Used
    BY <2>3, <2>4
  <2>6. faults' \in Nat /\ (u = Used \/ faults' >= 1)
    <3>1. CASE u = Used /\ NoFault
      BY <3>1, FaultsCount DEF NoFault
    <3>2. CASE Fault
      <4>1. faults' \in Nat /\ faults' = faults + 1
        BY <3>2, FaultsCount DEF Fault
      <4> QED
        BY <4>1 DEF AckInv
    <3> QED
      BY <1>5, <3>1, <3>2 DEF Reads
  <2>7. faults' >= 1 \/ Used' + r.size <= Quota + 0
    BY <1>2, <1>5, <2>3, <2>5, <2>6, LimitsAssumption
  <2>8. pc' = [pc EXCEPT ![c] = "receive"] /\ received'[c] = 0
    BY <1>1, <1>2, <1>5 DEF Goto
  <2>9. Acknowledged /\ DOMAIN status' = Conns
    BY <1>5 DEF AckInv, Acknowledged
  <2> QED
    BY <1>1, <2>2, <2>6, <2>7, <2>8, <2>9, UploadGoesOn
<1>6. NoFault => faults' \in Nat /\ faults' >= faults
  BY FaultsCount DEF NoFault, AckInv
<1>7. Fault => faults' \in Nat /\ faults' >= faults
  BY FaultsCount DEF Fault, AckInv
<1>8. ASSUME NEW u, Reads(u) PROVE faults' \in Nat /\ faults' >= faults
  BY <1>6, <1>7, <1>8 DEF Reads
<1>9. CASE \/ r.size > MaxFile /\ Answer(c, 413) /\ files' = files /\ NoFault
           \/ r.size <= MaxFile /\ Fault /\ Answer(c, 500) /\ files' = files
  BY <1>3, <1>6, <1>7, <1>9
<1>10. CASE \E u \in {0, Used} :
              /\ Reads(u)
              /\ \/ u + r.size > Quota /\ r.expect /\ Answer(c, 413) /\ files' = files
                 \/ /\ u + r.size > Quota /\ ~r.expect /\ Goto(c, "refuse")
                    /\ UNCHANGED <<status, files>>
                 \/ /\ u + r.size <= Quota
                    /\ files' = [files EXCEPT ![r.name] = [writer |-> c, size |-> 0]]
                    /\ Goto(c, "receive")
                    /\ status' = status
  <2>1. PICK u \in {0, Used} :
              /\ Reads(u)
              /\ \/ u + r.size > Quota /\ r.expect /\ Answer(c, 413) /\ files' = files
                 \/ /\ u + r.size > Quota /\ ~r.expect /\ Goto(c, "refuse")
                    /\ UNCHANGED <<status, files>>
                 \/ /\ u + r.size <= Quota
                    /\ files' = [files EXCEPT ![r.name] = [writer |-> c, size |-> 0]]
                    /\ Goto(c, "receive")
                    /\ status' = status
    BY <1>10
  <2>2. faults' \in Nat /\ faults' >= faults
    BY <1>8, <2>1
  <2> QED
    BY <1>3, <1>4, <1>5, <2>1, <2>2
<1> QED
  BY <1>9, <1>10 DEF Store

\* One more unit of a body counts in the file and in what was received.
LEMMA ReceiveAck ==
  ASSUME UploadInv, UploadInv', AckInv, NEW c \in Conns, Receive(c)
  PROVE  AckInv' /\ Acknowledged
<1> DEFINE n == request[c].name
<1>1. /\ pc[c] = "receive" /\ request' = request /\ pc[c] \in Dispatching
  BY DEF Receive, Conn, Dispatching
<1>2. /\ n \in Names /\ request[c].size \in Nat /\ received[c] \in Nat /\ request[c].route = "post"
  BY <1>1, Uploader
<1>3. /\ files[n] = [writer |-> c, size |-> received[c]]
      /\ faults >= 1 \/ Used + request[c].size <= Quota + received[c]
      /\ faults \in Nat
  BY <1>1 DEF AckInv, Uploading
<1>4. CASE /\ received' = [received EXCEPT ![c] = @ + 1]
           /\ files' = [files EXCEPT ![n].size = @ + 1]
           /\ IF received'[c] = request[c].size THEN Goto(c, "check") ELSE pc' = pc
           /\ UNCHANGED <<status, leftover>> /\ NoFault /\ Stay
  <2>1. UploadTypes /\ UploadTypes' /\ \A m \in Names \ {n} : files'[m] = files[m]
    BY <1>2, <1>4 DEF UploadInv, UploadTypes
  <2>2. received'[c] = received[c] + 1
    BY <1>4, <2>1 DEF UploadTypes
  <2>3. files'[n] = [writer |-> c, size |-> received[c] + 1]
    BY <1>2, <1>3, <1>4, <2>1 DEF UploadTypes
  <2>4. /\ Used \in Nat /\ Used' \in Nat
        /\ Used' + files[n].size = Used + files'[n].size
    BY <1>2, <2>1, UsedChanges
  <2>5. Used' = Used + 1
    <3>1. Used' + received[c] = Used + (received[c] + 1)
      BY <1>3, <2>3, <2>4
    <3> QED
      BY <1>2, <2>4, <3>1
  <2>6. faults' \in Nat /\ faults' = faults
    BY <1>3, <1>4, FaultsCount DEF NoFault
  <2>7. faults' >= 1 \/ Used' + request[c].size <= Quota + received'[c]
    BY <1>2, <1>3, <2>2, <2>4, <2>5, <2>6, LimitsAssumption
  <2>8. Acknowledged /\ DOMAIN status' = Conns
    BY <1>4 DEF AckInv, Acknowledged
  <2>9. files'[n] = [writer |-> c, size |-> received'[c]]
    BY <2>2, <2>3
  <2>10. CASE received'[c] = request[c].size
    <3>1. pc' = [pc EXCEPT ![c] = "check"]
      BY <1>4, <2>10 DEF Goto
    <3> QED
      BY <1>1, <2>6, <2>7, <2>8, <2>9, <2>10, <3>1, UploadGoesOn
  <2>11. CASE received'[c] # request[c].size
    <3>1. pc' = [pc EXCEPT ![c] = "receive"]
      BY <1>1, <1>4, <2>11 DEF UploadInv, IInv
    <3> QED
      BY <1>1, <2>6, <2>7, <2>8, <2>9, <3>1, UploadGoesOn
  <2> QED
    BY <2>10, <2>11
<1>5. ASSUME NEW cost \in Nat, Remove(n, cost) PROVE faults' \in Nat /\ faults' >= faults
  BY <1>3, <1>5, FaultsCount DEF Remove
<1>6. CASE /\ Remove(n, 1)
           /\ \E s \in {400, 500} : Answer(c, s)
           /\ received' = received /\ Stay
  <2>1. PICK s \in {400, 500} : Answer(c, s)
    BY <1>6
  <2>2. pc' = [pc EXCEPT ![c] = "respond"] /\ status' = [status EXCEPT ![c] = s]
    BY <2>1 DEF Answer, Goto
  <2>3. s # 200 /\ (status' = status \/ status' = [status EXCEPT ![c] = s])
    BY <2>2
  <2>4. Acknowledged /\ DOMAIN status' = Conns
    BY <2>3, NoAck
  <2>5. faults' \in Nat /\ faults' >= faults
    BY <1>5, <1>6
  <2>6. received' = received
    BY <1>6
  <2>7. AckInv'
    BY <1>1, <2>2, <2>4, <2>5, <2>6, Away
  <2> QED
    BY <2>4, <2>7
<1>7. CASE Remove(n, 1) /\ Leave(c) /\ UNCHANGED <<received, status>>
  <2>1. pc' = [pc EXCEPT ![c] = "gone"]
    BY <1>7 DEF Leave, Goto
  <2>2. Acknowledged /\ DOMAIN status' = Conns
    BY <1>7 DEF AckInv, Acknowledged
  <2>3. faults' \in Nat /\ faults' >= faults
    BY <1>5, <1>7
  <2>4. AckInv'
    BY <1>1, <1>7, <2>1, <2>2, <2>3, Away
  <2> QED
    BY <2>2, <2>4
<1> QED
  BY <1>4, <1>6, <1>7 DEF Receive

\* The second look at the quota, and the answer.
LEMMA CheckAck ==
  ASSUME UploadInv, AckInv, NEW c \in Conns, Check(c)
  PROVE  AckInv' /\ Acknowledged
<1> DEFINE n == request[c].name
<1>1. /\ pc[c] = "check" /\ request' = request /\ received' = received /\ pc[c] \in Dispatching
  BY DEF Check, Conn, Dispatching
<1>2. /\ n \in Names /\ request[c].size \in Nat /\ received[c] \in Nat
  BY <1>1, Uploader
<1>3. /\ files[n] = [writer |-> c, size |-> request[c].size]
      /\ received[c] = request[c].size
      /\ faults >= 1 \/ Used + request[c].size <= Quota + request[c].size
      /\ faults \in Nat
  BY <1>1 DEF AckInv, Uploading
<1>4. CASE Used > Quota /\ Answer(c, 413) /\ Remove(n, 0)
  <2>1. pc' = [pc EXCEPT ![c] = "respond"] /\ status' = [status EXCEPT ![c] = 413]
    BY <1>4 DEF Answer, Goto
  <2>2. 413 # 200 /\ (status' = status \/ status' = [status EXCEPT ![c] = 413])
    BY <2>1
  <2>3. Acknowledged /\ DOMAIN status' = Conns
    BY <2>2, NoAck
  <2>4. faults' \in Nat /\ faults' >= faults
    BY <1>3, <1>4, FaultsCount DEF Remove
  <2>5. AckInv'
    BY <1>1, <2>1, <2>3, <2>4, Away
  <2> QED
    BY <2>3, <2>5
<1>5. ASSUME NEW u \in {0, Used}, u <= Quota, Reads(u), Answer(c, 200), UNCHANGED workspace
      PROVE  AckInv' /\ Acknowledged
  <2>1. pc' = [pc EXCEPT ![c] = "respond"] /\ status' = [status EXCEPT ![c] = 200]
    BY <1>5 DEF Answer, Goto
  <2>2. files' = files
    BY <1>5 DEF workspace
  <2>3. Used' = Used
    BY <2>2 DEF Used
  <2>4. Used \in Nat
    <3>1. UploadTypes /\ (UNCHANGED <<request, received, files>> => UploadTypes')
      BY DEF UploadInv, UploadTypes
    <3>2. UploadTypes'
      BY <1>1, <2>2, <3>1
    <3> QED
      BY <1>2, <2>2, <3>1, <3>2, UsedChanges
  <2>5. CASE u = Used /\ NoFault
    <3>1. faults' \in Nat /\ faults' >= faults /\ Used' <= Quota
      BY <1>3, <1>5, <2>3, <2>5, FaultsCount DEF NoFault
    <3>2. DOMAIN status' = Conns /\ \A d \in Conns \ {c} : status'[d] = status[d]
      BY <2>1 DEF AckInv
    <3>3. Acknowledged
      BY <1>3, <2>2, <3>1, <3>2 DEF Acknowledged
    <3>4. AckInv'
      BY <1>1, <2>1, <3>1, <3>2, Away
    <3> QED
      BY <3>3, <3>4
  <2>6. CASE Fault
    <3>1. faults' \in Nat /\ faults' = faults + 1
      BY <2>6, FaultsCount DEF Fault
    <3>2. faults' >= faults /\ (Used' <= Quota \/ faults' > 1)
      BY <1>2, <1>3, <2>3, <2>4, <3>1, LimitsAssumption
    <3>3. DOMAIN status' = Conns /\ \A d \in Conns \ {c} : status'[d] = status[d]
      BY <2>1 DEF AckInv
    <3>4. Acknowledged
      BY <1>3, <2>2, <3>2, <3>3 DEF Acknowledged
    <3>5. faults' \in Nat /\ faults' >= faults
      BY <3>1, <3>2
    <3>6. AckInv'
      BY <1>1, <2>1, <3>3, <3>5, Away
    <3> QED
      BY <3>4, <3>6
  <2> QED
    BY <1>5, <2>5, <2>6 DEF Reads
<1> QED
  BY <1>4, <1>5 DEF Check

\* A step that leaves the statuses alone answers no upload.
LEMMA NoStatus ==
  ASSUME AckInv, status' = status
  PROVE  Acknowledged /\ DOMAIN status' = Conns
BY DEF AckInv, Acknowledged

\* A fault counts, and nothing is taken back.
LEMMA FaultsGrow ==
  ASSUME AckInv, NoFault \/ Fault \/ faults' = faults
  PROVE  faults' \in Nat /\ faults' >= faults
<1>1. CASE NoFault
  BY <1>1, FaultsCount DEF NoFault, AckInv
<1>2. CASE Fault
  BY <1>2, FaultsCount DEF Fault, AckInv
<1>3. CASE faults' = faults
  BY <1>3 DEF AckInv
<1> QED
  BY <1>1, <1>2, <1>3

\* No other step answers an upload.
LEMMA AckStep ==
  SlotInv /\ UploadInv /\ UploadInv' /\ AckInv /\ [Next]_vars => AckInv' /\ Acknowledged
<1> SUFFICES ASSUME SlotInv, UploadInv, UploadInv', AckInv, [Next]_vars
             PROVE  AckInv' /\ Acknowledged
  OBVIOUS
<1>s. {"backlog", "respond", "gone", "body", "lock", "call", "store", "fetch", "linger",
       "accepted", "dropped", "head"} \subseteq Stages \ {"receive", "check"}
  BY DEF Stages, Running, Dispatching
<1>1. ASSUME NEW c \in Conns, Connect(c) PROVE AckInv' /\ Acknowledged
  <2>1. /\ pc' = [pc EXCEPT ![c] = "backlog"] /\ files' = files /\ status' = status
        /\ received' = received /\ faults' = faults
        /\ \A d \in Conns \ {c} : request'[d] = request[d]
    BY <1>1 DEF Connect, Goto, threads, workspace, UploadInv, UploadTypes
  <2>2. faults' \in Nat /\ faults' >= faults
    BY <2>1, FaultsGrow
  <2>3. \A d \in Conns \ {c} : request'[d] = request[d] /\ received'[d] = received[d]
    BY <2>1
  <2>4. Acknowledged /\ DOMAIN status' = Conns
    BY <2>1, NoStatus
  <2>5. "backlog" \in Stages \ {"receive", "check"}
    BY <1>s
  <2>6. files' = files \/ pc[c] \in Dispatching
    BY <2>1
  <2>7. AckInv'
    BY <2>1, <2>2, <2>3, <2>4, <2>5, <2>6, Aside
  <2> QED
    BY <2>4, <2>7
\* A thread that is not inside an upload goes on, answers or ends.
<1>2. ASSUME NEW c \in Conns, NEW s \in {"respond", "gone", "body", "lock", "store", "linger",
                                          "accepted", "dropped", "head"},
             pc' = [pc EXCEPT ![c] = s], request' = request,
             \A d \in Conns \ {c} : received'[d] = received[d],
             files' = files \/ pc[c] \in Dispatching,
             NoFault \/ Fault \/ faults' = faults,
             Acknowledged, DOMAIN status' = Conns
      PROVE  AckInv' /\ Acknowledged
  <2>1. faults' \in Nat /\ faults' >= faults
    BY <1>2, FaultsGrow
  <2>2. \A d \in Conns \ {c} : request'[d] = request[d] /\ received'[d] = received[d]
    BY <1>2
  <2>3. s \in Stages \ {"receive", "check"}
    BY <1>s
  <2>4. s \in {"call", "fetch"} => request'[c].route # "post"
    OBVIOUS
  <2>5. AckInv'
    BY <1>2, <2>1, <2>2, <2>3, <2>4, Aside
  <2> QED
    BY <1>2, <2>5
<1>3. ASSUME NEW c \in Conns, ReadHead(c) PROVE AckInv' /\ Acknowledged
  <2>1. request' = request /\ received' = received /\ files' = files
    BY <1>3 DEF ReadHead, Conn, workspace
  <2>2. NoFault \/ Fault \/ faults' = faults
    BY <1>3 DEF ReadHead
  <2>3. PICK s \in {"respond", "gone", "body", "lock"} : pc' = [pc EXCEPT ![c] = s]
    BY <1>3 DEF ReadHead, Route, Answer, Leave, Goto
  <2>4. PICK a \in {0, 200, 400, 404, 405, 413} :
          /\ status' = status \/ status' = [status EXCEPT ![c] = a]
          /\ a # 200 \/ request[c].route # "post"
    BY <1>3 DEF ReadHead, Route, Answer, Leave
  <2>5. Acknowledged /\ DOMAIN status' = Conns
    BY <2>4, NoAck
  <2> QED
    BY <1>2, <2>1, <2>2, <2>3, <2>5
<1>4. ASSUME NEW c \in Conns, ReadBody(c) PROVE AckInv' /\ Acknowledged
  <2>1. request' = request /\ files' = files
    BY <1>4 DEF ReadBody, Conn, workspace
  <2>2. NoFault \/ Fault \/ faults' = faults
    BY <1>4 DEF ReadBody
  <2>3. \A d \in Conns \ {c} : received'[d] = received[d]
    BY <1>4 DEF ReadBody, UploadInv, UploadTypes
  <2>4. PICK s \in {"respond", "gone", "lock"} : pc' = [pc EXCEPT ![c] = s]
    BY <1>4 DEF ReadBody, Answer, Leave, Goto
  <2>5. 400 # 200 /\ (status' = status \/ status' = [status EXCEPT ![c] = 400])
    BY <1>4 DEF ReadBody, Answer
  <2>6. Acknowledged /\ DOMAIN status' = Conns
    BY <2>5, NoAck
  <2> QED
    BY <1>2, <2>1, <2>2, <2>3, <2>4, <2>6
<1>5. ASSUME NEW c \in Conns, TakeLock(c) PROVE AckInv' /\ Acknowledged
  <2>1. /\ request' = request /\ received' = received /\ files' = files
        /\ status' = status /\ faults' = faults
    BY <1>5 DEF TakeLock, Conn, workspace
  <2>2. PICK s \in {"store", "fetch", "call"} :
          pc' = [pc EXCEPT ![c] = s] /\ (s \in {"call", "fetch"} => request[c].route # "post")
    <3>1. CASE request[c].route = "post"
      BY <1>5, <3>1 DEF TakeLock, Goto
    <3>2. CASE request[c].route = "get"
      BY <1>5, <3>2 DEF TakeLock, Goto
    <3>3. CASE request[c].route \notin {"post", "get"}
      BY <1>5, <3>3 DEF TakeLock, Goto
    <3> QED
      BY <3>1, <3>2, <3>3
  <2>3. faults' \in Nat /\ faults' >= faults
    BY <2>1, FaultsGrow
  <2>4. \A d \in Conns \ {c} : request'[d] = request[d] /\ received'[d] = received[d]
    BY <2>1
  <2>5. Acknowledged /\ DOMAIN status' = Conns
    BY <2>1, NoStatus
  <2>6. s \in Stages \ {"receive", "check"}
    BY <1>s
  <2>7. s \in {"call", "fetch"} => request'[c].route # "post"
    BY <2>1, <2>2
  <2>8. pc' = [pc EXCEPT ![c] = s] /\ (files' = files \/ pc[c] \in Dispatching)
    BY <2>1, <2>2
  <2>9. AckInv'
    BY <2>3, <2>4, <2>5, <2>6, <2>7, <2>8, Aside
  <2> QED
    BY <2>5, <2>9
<1>6. ASSUME NEW c \in Conns, Fetch(c) \/ Refuse(c) \/ Call(c) PROVE AckInv' /\ Acknowledged
  <2>1. request' = request /\ received' = received /\ faults' = faults /\ pc[c] \in Dispatching
    BY <1>6 DEF Fetch, Refuse, Call, Conn, Dispatching
  <2>2. pc[c] \in {"call", "fetch"} => request[c].route # "post"
    BY DEF AckInv, NoUpload
  <2>3. pc' = [pc EXCEPT ![c] = "respond"]
    BY <1>6 DEF Fetch, Refuse, Call, Answer, Goto
  <2>4. PICK a \in {200, 404, 413, 500} :
          /\ status' = status \/ status' = [status EXCEPT ![c] = a]
          /\ a # 200 \/ request[c].route # "post"
    BY <1>6, <2>2 DEF Fetch, Refuse, Call, Answer
  <2>5. Acknowledged /\ DOMAIN status' = Conns
    BY <2>4, NoAck
  <2> QED
    BY <1>2, <2>1, <2>3, <2>5
<1>7. ASSUME NEW c \in Conns, Respond(c) \/ Linger(c) PROVE AckInv' /\ Acknowledged
  <2>1. request' = request /\ received' = received /\ files' = files /\ status' = status
    BY <1>7 DEF Respond, Linger, Conn, workspace
  <2>2. NoFault \/ Fault \/ faults' = faults
    BY <1>7 DEF Respond, Linger
  <2>3. PICK s \in {"gone", "linger"} : pc' = [pc EXCEPT ![c] = s]
    BY <1>7 DEF Respond, Linger, Leave, Goto
  <2>4. Acknowledged /\ DOMAIN status' = Conns
    BY <2>1, NoStatus
  <2> QED
    BY <1>2, <2>1, <2>2, <2>3, <2>4
<1>8. ASSUME NEW c \in Conns, Store(c) \/ Receive(c) \/ Check(c) PROVE AckInv' /\ Acknowledged
  BY <1>8, StoreAck, ReceiveAck, CheckAck
\* The steps that touch neither a thread nor the workspace.
<1>10. ASSUME UNCHANGED <<threads, workspace>>, NoFault \/ Fault \/ faults' = faults
       PROVE  AckInv' /\ Acknowledged
  <2>1. request' = request /\ received' = received /\ status' = status /\ pc' = pc /\ files' = files
    BY <1>10 DEF threads, workspace
  <2>2. Used' = Used
    BY <2>1 DEF Used
  <2>3. faults' \in Nat /\ faults' >= faults
    BY <1>10, FaultsGrow
  <2>4. Uploading'
    <3>1. faults >= 1 => faults' >= 1
      BY <2>3 DEF AckInv
    <3> QED
      BY <2>1, <2>2, <3>1 DEF AckInv, Uploading
  <2>5. NoUpload'
    BY <2>1 DEF AckInv, NoUpload
  <2>6. Acknowledged
    BY <2>1 DEF Acknowledged
  <2> QED
    BY <2>1, <2>3, <2>4, <2>5, <2>6 DEF AckInv
<1>11. ASSUME NEW c \in Conns, Accept(c) PROVE AckInv' /\ Acknowledged
  <2>1. /\ pc' = [pc EXCEPT ![c] = "accepted"] /\ faults' = faults
        /\ request' = request /\ received' = received /\ files' = files /\ status' = status
    BY <1>11 DEF Accept, Goto, workspace
  <2>2. Acknowledged /\ DOMAIN status' = Conns
    BY <2>1, NoStatus
  <2> QED
    BY <1>2, <2>1, <2>2
<1>12. CASE CheckShutdown \/ CheckCap \/ Spawn
  <2>1. accepting \in Conns
    BY <1>12 DEF CheckShutdown, CheckCap, Spawn, SlotInv, InHand
  <2>2. /\ request' = request /\ received' = received /\ files' = files /\ status' = status
        /\ answered' = answered /\ leftover' = leftover
        /\ NoFault \/ Fault \/ faults' = faults
    BY <1>12 DEF CheckShutdown, CheckCap, Spawn, workspace
  <2>3. pc' = pc \/ \E s \in {"dropped", "head"} : pc' = [pc EXCEPT ![accepting] = s]
    BY <1>12 DEF CheckShutdown, CheckCap, Spawn, DropStream, Goto
  <2>4. CASE pc' = pc
    BY <1>10, <2>2, <2>4 DEF threads, workspace
  <2>5. ASSUME NEW c \in Conns, NEW s \in {"dropped", "head"}, pc' = [pc EXCEPT ![c] = s]
        PROVE  AckInv' /\ Acknowledged
    <3>1. Acknowledged /\ DOMAIN status' = Conns
      BY <2>2, NoStatus
    <3> QED
      BY <1>2, <2>2, <2>5, <3>1
  <2> QED
    BY <2>1, <2>3, <2>4, <2>5
<1>13. CASE AcceptError \/ Signal \/ MainStep \/ UNCHANGED vars
  <2>1. UNCHANGED <<threads, workspace>>
    BY <1>13 DEF AcceptError, Signal, MainStep, SeeShutdown, WaitForDispatch, Exit, vars
  <2>2. NoFault \/ Fault \/ faults' = faults
    BY <1>13 DEF AcceptError, Signal, MainStep, SeeShutdown, WaitForDispatch, Exit, vars
  <2> QED
    BY <1>10, <2>1, <2>2
<1> QED
  BY <1>1, <1>3, <1>4, <1>5, <1>6, <1>7, <1>8, <1>11, <1>12, <1>13 DEF Next, Serve, AcceptStep

\* When an upload is answered 200 the file is whole, it is the uploader's, and
\* the workspace is within its quota, even when one of the two looks at its
\* size failed (store_file).
THEOREM UploadAcknowledged == Spec => UploadIsAcknowledgedWhole
<1>1. SlotInv /\ UploadInv /\ AckInv /\ [Next]_vars => AckInv' /\ UploadInv'
  BY UploadStep, AckStep
<1>2. SlotInv /\ UploadInv /\ AckInv /\ [Next]_vars =>
        [\A c \in Conns :
           status[c] = 0 /\ status'[c] = 200 /\ request[c].route = "post" =>
             /\ files'[request[c].name] = [writer |-> c, size |-> request[c].size]
             /\ Used' <= Quota \/ faults' > 1]_vars
  BY UploadStep, AckStep DEF Acknowledged
<1> QED
  BY <1>1, <1>2, UploadInit, SlotInit, SlotStep, AckInit, PTL DEF Spec, UploadIsAcknowledgedWhole

-----------------------------------------------------------------------------
(* Containers.                                                             *)

ContainerTypes ==
  /\ dead \in BOOLEAN /\ up \in BOOLEAN /\ gen \in Nat
  /\ at \in [EdgeRequests -> Places]
  /\ answer \in [EdgeRequests -> Answers]
  /\ ranOn \in [EdgeRequests -> Nat]
  /\ late \in [EdgeRequests -> BOOLEAN]
  /\ untold \in BOOLEAN

\* A session that lives, and has been called about every stop, has its first
\* container or none yet, and terminate has ended the session before it waits.
FirstContainer ==
  /\ ~dead /\ ~untold => gen = IF up THEN 1 ELSE 0
  /\ \A r \in EdgeRequests : at[r] = "stopping" => dead

\* What was forwarded to such a session ran on that container.
RanOnFirst ==
  \A r \in EdgeRequests :
    /\ ranOn[r] <= gen
    /\ at[r] = "forwarded" \/ answer[r] = "ok" => late[r] \/ ranOn[r] = 1

ContainerInv == ContainerTypes /\ FirstContainer /\ RanOnFirst /\ NothingPartialSurvives

\* A session begins without a container.
LEMMA ContainerInit == EdgeInit => ContainerInv
<1> SUFFICES ASSUME EdgeInit PROVE ContainerInv
  OBVIOUS
<1>1. ContainerTypes
  BY DEF EdgeInit, ContainerTypes, Places, Answers
<1>2. \A r \in EdgeRequests : at[r] = "new" /\ answer[r] = "none" /\ ranOn[r] = 0
  BY DEF EdgeInit
<1>3. FirstContainer
  BY <1>2 DEF EdgeInit, FirstContainer
<1>4. RanOnFirst
  BY <1>2 DEF EdgeInit, RanOnFirst
<1>5. NothingPartialSurvives
  BY <1>2 DEF NothingPartialSurvives
<1> QED
  BY <1>1, <1>3, <1>4, <1>5 DEF ContainerInv

\* Reaching the object keeps the invariant, whatever the call then does to a
\* request it neither forwards nor answers late.
LEMMA ReachKeeps ==
  ASSUME ContainerInv, Reach, UNCHANGED observed,
         at' \in [EdgeRequests -> Places], answer' \in [EdgeRequests -> Answers],
         dead' \in BOOLEAN, dead => dead',
         \A r \in EdgeRequests :
           /\ at'[r] = "stopping" => dead'
           /\ at'[r] = "forwarded" \/ answer'[r] = "ok"
                => at[r] = "forwarded" \/ answer[r] = "ok"
           /\ at'[r] = "answered" /\ answer'[r] = "504"
                => at[r] = "answered" /\ answer[r] = "504"
  PROVE  ContainerInv'
<1>1. /\ up' \in BOOLEAN /\ gen' \in Nat /\ untold' = untold
      /\ \/ up' = up /\ gen' = gen
         \/ ~up /\ up' = TRUE /\ gen' = gen + 1
  <2>0. ContainerTypes
    BY DEF ContainerInv
  <2>1. CASE UNCHANGED <<container, edgeFaults>>
    <3>1. up' = up /\ gen' = gen /\ untold' = untold
      BY <2>1 DEF container
    <3> QED
      BY <2>0, <3>1 DEF ContainerTypes
  <2>2. CASE ~up /\ up' = TRUE /\ gen' = gen + 1 /\ EdgeFault /\ UNCHANGED untold
    <3>1. untold' = untold
      BY <2>2
    <3>2. up' = TRUE /\ gen' = gen + 1 /\ gen' \in Nat
      BY <2>0, <2>2 DEF ContainerTypes
    <3>3. ~up
      BY <2>2
    <3> QED
      BY <3>1, <3>2, <3>3
  <2> QED
    BY <2>1, <2>2 DEF Reach
<1>2. ranOn' = ranOn /\ late' = late /\ spared' = spared
  BY DEF observed
<1>3. ContainerTypes'
  BY <1>1, <1>2 DEF ContainerInv, ContainerTypes
<1>4. FirstContainer'
  BY <1>1 DEF ContainerInv, ContainerTypes, FirstContainer
<1>5. RanOnFirst'
  BY <1>1, <1>2 DEF ContainerInv, ContainerTypes, RanOnFirst
<1>6. NothingPartialSurvives'
  <2> SUFFICES ASSUME NEW r \in EdgeRequests, at'[r] = "answered", answer'[r] = "504"
               PROVE  ~(up' /\ gen' = ranOn'[r]) \/ ranOn'[r] \in spared'
    BY DEF NothingPartialSurvives
  <2>1. ~(up /\ gen = ranOn[r]) \/ ranOn[r] \in spared
    BY DEF ContainerInv, NothingPartialSurvives
  <2>2. ranOn[r] \in Nat /\ ranOn[r] <= gen /\ gen \in Nat
    BY DEF ContainerInv, ContainerTypes, RanOnFirst
  <2> QED
    BY <2>1, <2>2, <1>1, <1>2
<1> QED
  BY <1>3, <1>4, <1>5, <1>6 DEF ContainerInv

\* Only a step that ends the session, or a stop it is still to be called about,
\* can part it from its container.
LEMMA ContainerStep == ContainerInv /\ [EdgeNext]_edgeVars => ContainerInv'
<1> SUFFICES ASSUME ContainerInv, [EdgeNext]_edgeVars PROVE ContainerInv'
  OBVIOUS
<1>0. ContainerTypes /\ FirstContainer
  BY DEF ContainerInv
<1>1. CASE Begin
  BY <1>0, <1>1, ReachKeeps DEF Begin, Go, session, ContainerTypes, FirstContainer, Places
<1>2. ASSUME NEW r \in EdgeRequests, IsUsable(r) PROVE ContainerInv'
  <2>1. CASE Reply(r, "404") /\ UNCHANGED <<session, chain>>
    BY <1>0, <1>2, <2>1, ReachKeeps
    DEF IsUsable, Reply, session, ContainerTypes, FirstContainer, Places, Answers
  <2>2. CASE Terminate(r, "404")
    BY <1>0, <1>2, <2>2, ReachKeeps
    DEF IsUsable, Terminate, ContainerTypes, FirstContainer, Places, Answers
  <2>3. CASE Go(r, "checked") /\ UNCHANGED <<session, chain>>
    BY <1>0, <1>2, <2>3, ReachKeeps
    DEF IsUsable, Go, session, ContainerTypes, FirstContainer, Places
  <2> QED
    BY <1>2, <2>1, <2>2, <2>3 DEF IsUsable
<1>3. ASSUME NEW r \in EdgeRequests, Delete(r) PROVE ContainerInv'
  BY <1>0, <1>3, ReachKeeps
  DEF Delete, Terminate, ContainerTypes, FirstContainer, Places, Answers
<1>4. ASSUME NEW r \in EdgeRequests, Proxy(r) PROVE ContainerInv'
  BY <1>0, <1>4, ReachKeeps
  DEF Proxy, Go, Reply, session, ContainerTypes, FirstContainer, Places, Answers
<1> USE DEF ContainerInv, ContainerTypes, FirstContainer, RanOnFirst,
            NothingPartialSurvives, Places, Answers, Go, Reply, Terminate,
            session, container, observed
<1>5. ASSUME NEW r \in EdgeRequests, Forward(r) PROVE ContainerInv'
  BY <1>5 DEF Forward
<1>6. ASSUME NEW r \in EdgeRequests, StartFails(r) PROVE ContainerInv'
  <2>1. CASE Terminate(r, "503")
    BY <1>6, <2>1 DEF StartFails
  <2>2. CASE Reply(r, "502") /\ UNCHANGED session
    BY <1>6, <2>2 DEF StartFails
  <2> QED
    BY <1>6, <2>1, <2>2 DEF StartFails
<1>7. ASSUME NEW r \in EdgeRequests, FetchAnswers(r) PROVE ContainerInv'
  BY <1>7 DEF FetchAnswers, Serving
<1>8. ASSUME NEW r \in EdgeRequests, FetchFails(r) PROVE ContainerInv'
  BY <1>8 DEF FetchFails
<1>9. ASSUME NEW r \in EdgeRequests, Timeout(r) PROVE ContainerInv'
  BY <1>9 DEF Timeout
<1>10. ASSUME NEW r \in EdgeRequests, Destroy(r) PROVE ContainerInv'
  BY <1>10 DEF Destroy
<1>11. CASE Stop
  BY <1>11 DEF Stop
<1>11a. CASE Told
  BY <1>11a DEF Told
<1>11b. CASE OnError
  BY <1>11b DEF OnError
<1>12. CASE Expire
  BY <1>12 DEF Expire
<1>13. CASE UNCHANGED edgeVars
  BY <1>13 DEF edgeVars
<1> QED
  BY <1>1, <1>2, <1>3, <1>4, <1>5, <1>6, <1>7, <1>8, <1>9, <1>10, <1>11,
     <1>11a, <1>11b, <1>12, <1>13
  DEF EdgeNext, Handle, ServeRequest, Overruns, AllAnswered

\* A session that lives and knows of every stop answers from its first
\* workspace, for any number of requests and faults (onStop and onError mark the
\* session dead; until they run a stopped container may be replaced).
THEOREM OneWorkspace == EdgeSpec => []ReplacedOnlyUntilTold
<1>1. ContainerInv => ReplacedOnlyUntilTold
  BY DEF ContainerInv, RanOnFirst, ReplacedOnlyUntilTold
<1> QED
  BY <1>1, ContainerInit, ContainerStep, PTL DEF EdgeSpec

\* A request that overran its deadline is answered after its container is gone,
\* or after its destroy failed (forward awaits terminate).
THEOREM NoPartialWork == EdgeSpec => []NothingPartialSurvives
<1>1. ContainerInv => NothingPartialSurvives
  BY DEF ContainerInv
<1> QED
  BY <1>1, ContainerInit, ContainerStep, PTL DEF EdgeSpec

-----------------------------------------------------------------------------
(* The promise chain.                                                      *)

InChain(r) == \E i \in 1 .. Len(chain) : chain[i] = r

ChainTypes == chain \in Seq(EdgeRequests) /\ at \in [EdgeRequests -> Places]
NoRepeats  == \A i, j \in 1 .. Len(chain) : chain[i] = chain[j] => i = j

\* The first of the chain is with the container or on its way; all others wait.
OthersWait ==
  /\ \A i \in 1 .. Len(chain) : at[chain[i]] \in {"queued", "forwarded", "stopping"}
  /\ \A i \in 2 .. Len(chain) : at[chain[i]] = "queued"

\* Nobody is with the container, or waits for it, outside the chain.
AllInChain == \A r \in EdgeRequests : at[r] \in {"queued", "forwarded"} => InChain(r)

ChainInv == ChainTypes /\ NoRepeats /\ OthersWait /\ AllInChain

\* The chain is empty at first.
LEMMA ChainInit == EdgeInit => ChainInv
BY DEF EdgeInit, ChainInv, ChainTypes, NoRepeats, OthersWait, AllInChain, Places

\* A request that is with the container is the first of the chain.
LEMMA ForwardedIsFirst ==
  ASSUME ChainInv, NEW r \in EdgeRequests, at[r] = "forwarded"
  PROVE  chain # <<>> /\ Head(chain) = r
BY DEF ChainInv, ChainTypes, OthersWait, AllInChain, InChain

\* A request moves to a place outside the chain, or among those outside it.
LEMMA Elsewhere ==
  ASSUME ChainInv, NEW r \in EdgeRequests, ~InChain(r), chain' = chain,
         NEW p \in {"checked", "stopping", "answered"},
         at' = [at EXCEPT ![r] = p]
  PROVE  ChainInv'
BY DEF ChainInv, ChainTypes, NoRepeats, OthersWait, AllInChain, InChain, Places

\* The first of the chain goes on to the container or waits for its end.
LEMMA FirstMoves ==
  ASSUME ChainInv, NEW r \in EdgeRequests, chain # <<>>, Head(chain) = r, chain' = chain,
         NEW p \in {"forwarded", "stopping"}, at' = [at EXCEPT ![r] = p]
  PROVE  ChainInv'
BY DEF ChainInv, ChainTypes, NoRepeats, OthersWait, AllInChain, InChain, Places

\* The first of the chain is answered and the next one takes its turn.
LEMMA FirstLeaves ==
  ASSUME ChainInv, NEW r \in EdgeRequests, chain # <<>>, Head(chain) = r,
         chain' = Tail(chain), at' = [at EXCEPT ![r] = "answered"]
  PROVE  ChainInv'
<1>1. /\ chain' \in Seq(EdgeRequests) /\ Len(chain') = Len(chain) - 1
      /\ \A i \in 1 .. Len(chain') : chain'[i] = chain[i + 1]
  BY DEF ChainInv, ChainTypes
<1>2. Len(chain) \in Nat \ {0} /\ chain[1] = r
  BY DEF ChainInv, ChainTypes
<1>3. \A i \in 2 .. Len(chain) : chain[i] # r /\ chain[i] \in EdgeRequests
  BY <1>2 DEF ChainInv, ChainTypes, NoRepeats
<1>4. ChainTypes' /\ NoRepeats'
  BY <1>1, <1>2 DEF ChainInv, ChainTypes, NoRepeats, Places
<1>5. OthersWait'
  BY <1>1, <1>2, <1>3 DEF ChainInv, ChainTypes, OthersWait
<1>6. ASSUME NEW q \in EdgeRequests, at'[q] \in {"queued", "forwarded"}
      PROVE  \E i \in 1 .. Len(chain') : chain'[i] = q
  <2>1. q # r /\ at[q] \in {"queued", "forwarded"}
    BY <1>6 DEF ChainInv, ChainTypes
  <2>2. PICK i \in 1 .. Len(chain) : chain[i] = q
    BY <2>1 DEF ChainInv, AllInChain, InChain
  <2>3. i - 1 \in 1 .. Len(chain') /\ chain'[i - 1] = q
    BY <2>1, <2>2, <1>1, <1>2
  <2> QED
    BY <2>3
<1> QED
  BY <1>4, <1>5, <1>6 DEF ChainInv, AllInChain, InChain

\* Whoever is answered leaves the chain, if it was the first of it.
LEMMA Leaves ==
  ASSUME ChainInv, NEW r \in EdgeRequests, LeaveChain(r),
         at[r] # "queued" \/ (chain # <<>> /\ Head(chain) = r),
         at' = [at EXCEPT ![r] = "answered"]
  PROVE  ChainInv'
<1>1. CASE chain # <<>> /\ Head(chain) = r
  BY <1>1, FirstLeaves DEF LeaveChain
<1>2. CASE ~(chain # <<>> /\ Head(chain) = r)
  <2>1. ~InChain(r)
    BY <1>2 DEF ChainInv, ChainTypes, OthersWait, InChain
  <2> QED
    BY <1>2, <2>1, Elsewhere DEF LeaveChain
<1> QED
  BY <1>1, <1>2

\* A checked request joins at the end.
LEMMA Joins ==
  ASSUME ChainInv, NEW r \in EdgeRequests, at[r] = "checked",
         chain' = Append(chain, r), at' = [at EXCEPT ![r] = "queued"]
  PROVE  ChainInv'
<1>1. /\ chain' \in Seq(EdgeRequests) /\ Len(chain') = Len(chain) + 1
      /\ Len(chain) \in Nat /\ chain'[Len(chain) + 1] = r
      /\ \A i \in 1 .. Len(chain) : chain'[i] = chain[i]
  BY DEF ChainInv, ChainTypes
<1>2. \A i \in 1 .. Len(chain) : chain[i] # r /\ chain[i] \in EdgeRequests
  BY DEF ChainInv, ChainTypes, OthersWait
<1>3. ChainTypes' /\ NoRepeats'
  BY <1>1, <1>2 DEF ChainInv, ChainTypes, NoRepeats, Places
<1>4. OthersWait'
  BY <1>1, <1>2 DEF ChainInv, ChainTypes, OthersWait
<1>5. AllInChain'
  BY <1>1 DEF ChainInv, ChainTypes, AllInChain, InChain
<1> QED
  BY <1>3, <1>4, <1>5 DEF ChainInv

\* Every step moves one request along, in, or out of the chain.
LEMMA ChainStep == ChainInv /\ [EdgeNext]_edgeVars => ChainInv'
<1> SUFFICES ASSUME ChainInv, [EdgeNext]_edgeVars PROVE ChainInv'
  OBVIOUS
<1> USE DEF Go, Reply, Terminate, session, container, observed
<1>o. \A r \in EdgeRequests : at[r] \in {"new", "checked", "answered"} => ~InChain(r)
  BY DEF ChainInv, ChainTypes, OthersWait, InChain
<1>1. CASE Begin
  BY <1>1, <1>o, Elsewhere DEF Begin, EdgeRequests
<1>2. ASSUME NEW r \in EdgeRequests, IsUsable(r) \/ Delete(r) PROVE ChainInv'
  BY <1>2, <1>o, Elsewhere DEF IsUsable, Delete
<1>3. ASSUME NEW r \in EdgeRequests, Proxy(r) PROVE ChainInv'
  BY <1>3, <1>o, Elsewhere, Joins DEF Proxy
<1>4. ASSUME NEW r \in EdgeRequests, MyTurn(r) PROVE chain # <<>> /\ Head(chain) = r
  BY <1>4 DEF MyTurn, ChainInv, ChainTypes, AllInChain, InChain
<1>5. ASSUME NEW r \in EdgeRequests, Forward(r) PROVE ChainInv'
  BY <1>5, <1>4, FirstMoves DEF Forward
<1>6. ASSUME NEW r \in EdgeRequests, StartFails(r) PROVE ChainInv'
  BY <1>6, <1>4, FirstMoves, Leaves DEF StartFails
<1>7. ASSUME NEW r \in EdgeRequests, FetchAnswers(r) \/ FetchFails(r) \/ Destroy(r) PROVE ChainInv'
  BY <1>7, Leaves DEF FetchAnswers, Serving, FetchFails, Destroy
<1>8. ASSUME NEW r \in EdgeRequests, Timeout(r) PROVE ChainInv'
  BY <1>8, ForwardedIsFirst, FirstMoves DEF Timeout
<1>9. CASE UNCHANGED <<chain, at>>
  BY <1>9 DEF ChainInv, ChainTypes, NoRepeats, OthersWait, AllInChain, InChain
<1> QED
  BY <1>1, <1>2, <1>3, <1>5, <1>6, <1>7, <1>8, <1>9
  DEF EdgeNext, Handle, ServeRequest, Overruns, AllAnswered, Stop, Told, OnError, Expire, edgeVars

\* The container is never asked two things at a time (proxy: each request is
\* run in the continuation of the one before it).
THEOREM Serialized == EdgeSpec => []OneAtATime
<1>1. ChainInv => OneAtATime
  BY ForwardedIsFirst DEF OneAtATime, ChainInv, NoRepeats, OthersWait
<1> QED
  BY <1>1, ChainInit, ChainStep, PTL DEF EdgeSpec

\* A dead session admits nobody (proxy asks again, and only proxy appends).
THEOREM NobodyJoinsTheDead == EdgeSpec => DeadAdmitsNobody
<1> DEFINE OnlyOld ==
      dead => \A i \in 1 .. Len(chain') : \E j \in 1 .. Len(chain) : chain'[i] = chain[j]
<1>1. ASSUME ChainInv, [EdgeNext]_edgeVars PROVE OnlyOld
  <2>1. CASE chain' = chain
    BY <2>1
  <2>2. CASE chain # <<>> /\ chain' = Tail(chain)
    <3>1. \A i \in 1 .. Len(chain') : i + 1 \in 1 .. Len(chain) /\ chain'[i] = chain[i + 1]
      BY <1>1, <2>2 DEF ChainInv, ChainTypes
    <3> QED
      BY <3>1
  <2>3. dead => chain' = chain \/ (chain # <<>> /\ chain' = Tail(chain))
    BY <1>1 DEF EdgeNext, Handle, ServeRequest, Overruns, AllAnswered, Begin, Stop, Told, OnError, Expire, IsUsable,
       Delete, Proxy, Forward, StartFails, FetchAnswers, FetchFails, Timeout, Destroy, LeaveChain,
       Terminate, session, container, observed, edgeVars
  <2> QED
    BY <2>1, <2>2, <2>3
<1>2. ChainInv /\ [EdgeNext]_edgeVars => [OnlyOld]_edgeVars
  BY <1>1
<1> QED
  BY <1>2, ChainInit, ChainStep, PTL DEF EdgeSpec, DeadAdmitsNobody
=============================================================================
