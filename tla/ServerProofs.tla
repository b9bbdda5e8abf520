---------------------------- MODULE ServerProofs ----------------------------
(***************************************************************************)
(* The log as the server drives it.  First, about AOFLog alone: how far a  *)
(* log that has failed can deceive its clients.  Then the server with its  *)
(* connections and its shutdown, an instance of the log's environment:     *)
(* what is proved of AOFLog holds of it, and what AOFLog's Close takes for *)
(* granted is what main's shutdown brings about.                           *)
(***************************************************************************)
EXTENDS Server, AOFLogProofs, FiniteSetTheorems

-----------------------------------------------------------------------------
(***************************************************************************)
(* A log that has failed.                                                  *)
(***************************************************************************)
Busy == {w \in Writers : pc[w] # "idle"}

\* Each write told OK in spite of the failure has used up a connection that was past the
\* MISCONF check when the log failed.
BlindBound ==
    /\ blind # {} => err \/ up # "up"
    /\ Cardinality(blind) + Cardinality(Busy) <= Cardinality(Writers)

\* The sets counted are finite.
LEMMA Counted ==
  ASSUME TypeOK
  PROVE  /\ IsFiniteSet(blind) /\ Cardinality(blind) \in Nat
         /\ IsFiniteSet(Busy) /\ Cardinality(Busy) \in Nat
         /\ IsFiniteSet(Writers) /\ Cardinality(Writers) \in Nat
         /\ Cardinality(Busy) <= Cardinality(Writers)
<1>1. IsFiniteSet(Writers) /\ IsFiniteSet(Recs)
  BY LogAssumption, FS_Interval DEF Recs
<1>2. blind \in SUBSET Recs /\ Busy \in SUBSET Writers
  BY DEF TypeOK, Busy
<1>3. IsFiniteSet(blind) /\ IsFiniteSet(Busy) /\ Cardinality(Busy) <= Cardinality(Writers)
  BY <1>1, <1>2, FS_Subset
<1> QED BY <1>1, <1>3, FS_CardinalityType

\* A step that blinds nobody and starts nothing.
LEMMA BoundKept ==
  ASSUME TypeOK, BlindBound, blind' = blind \/ blind' = {}, Busy' \subseteq Busy,
         blind' # {} => err' \/ up' # "up"
  PROVE  BlindBound'
<1>1. IsFiniteSet(Busy') /\ Cardinality(Busy') <= Cardinality(Busy) /\ Cardinality(Busy') \in Nat
  <2>1. Busy' \in SUBSET Busy /\ IsFiniteSet(Busy)
    BY Counted
  <2>2. IsFiniteSet(Busy') /\ Cardinality(Busy') <= Cardinality(Busy)
    BY <2>1, FS_Subset
  <2> QED BY <2>2, FS_CardinalityType
<1>2. Cardinality(blind') <= Cardinality(blind) /\ Cardinality(blind') \in Nat
  BY Counted, FS_EmptySet
<1>3. Cardinality(blind') + Cardinality(Busy') <= Cardinality(Writers)
  <2>1. Cardinality(blind) + Cardinality(Busy) <= Cardinality(Writers)
    BY DEF BlindBound
  <2> QED BY <1>1, <1>2, <2>1, Counted
<1> QED BY Zenon, <1>3 DEF BlindBound

\* The end of a command, well or badly: the connection becomes idle.
LEMMA BoundReply ==
  ASSUME TypeOK, BlindBound, NEW w \in Writers, pc[w] # "idle", NEW ok \in BOOLEAN, Reply(w, ok),
         ok => UNCHANGED <<err, up>>, ~ok => err'
  PROVE  BlindBound'
<1>1. Busy' = Busy \ {w} /\ w \in Busy
  BY DEF Reply, Goto, Busy, TypeOK, Procs
<1>2. CASE ok
  BY <1>1, <1>2, BoundKept DEF Reply, BlindBound
<1>3. CASE ~ok
  <2>1. blind' = blind \cup {id[w]} /\ err'
    BY <1>3 DEF Reply
  <2>2. Cardinality(Busy') = Cardinality(Busy) - 1
    BY <1>1, Counted, FS_RemoveElement
  <2>3. Cardinality(blind') = Cardinality(blind) \/ Cardinality(blind') = Cardinality(blind) + 1
    BY <2>1, Counted, FS_AddElement
  <2>4. Cardinality(blind) + Cardinality(Busy) <= Cardinality(Writers)
    BY DEF BlindBound
  <2>5. Cardinality(blind') + Cardinality(Busy') <= Cardinality(Writers)
    BY <2>2, <2>3, <2>4, Counted
  <2> QED BY Zenon, <2>1, <2>5 DEF BlindBound
<1> QED BY <1>2, <1>3

\* The end of Append.
LEMMA BoundAppended ==
  ASSUME TypeOK, BlindBound, NEW w \in Writers, pc[w] = "append", NEW ok \in BOOLEAN,
         Appended(w, ok), up' = up, ok => err' = err, ~ok => err'
  PROVE  BlindBound'
<1>1. CASE Policy = "always"
  <2>1. pc' = [pc EXCEPT ![w] = "sync"] /\ blind' = blind
    BY <1>1 DEF Appended, Goto
  <2>2. Busy' = Busy
    BY <2>1 DEF Busy, TypeOK, Procs
  <2> QED BY <2>1, <2>2, BoundKept DEF BlindBound
<1>2. CASE Policy # "always"
  BY <1>2, BoundReply DEF Appended
<1> QED BY <1>1, <1>2

\* The end of a sync.
LEMMA BoundSyncDone ==
  ASSUME TypeOK, BlindBound, NEW p \in Procs, p # Syncer => pc[p] # "idle", NEW ok \in BOOLEAN,
         SyncDone(p, ok), up' = up, ok => err' = err, ~ok => err'
  PROVE  BlindBound'
<1>1. CASE p = Syncer
  <2>1. pc' = [pc EXCEPT ![Syncer] = "idle"] /\ blind' = blind
    BY <1>1 DEF SyncDone, Goto
  <2>2. Busy' = Busy
    BY <2>1, LogAssumption DEF Busy, TypeOK, Procs
  <2> QED BY <2>1, <2>2, BoundKept DEF BlindBound
<1>2. CASE p # Syncer
  BY <1>2, BoundReply DEF SyncDone, Procs
<1> QED BY <1>1, <1>2

\* Every step keeps the bound.
LEMMA BoundStep ==
  ASSUME Control, BlindBound, [Next]_vars
  PROVE  BlindBound'
<1> USE DEF Control
<1>0. \A w \in Writers : w \in Procs
  BY DEF Procs
<1>1. ASSUME NEW w \in Writers, Admit(w) PROVE BlindBound'
  <2>1. blind = {} /\ blind' = {}
    BY <1>1 DEF Admit, BlindBound
  <2>2. TypeOK'
    BY <1>1, LogTypeStep DEF Next, Write
  <2>3. Cardinality(Busy') \in Nat /\ Cardinality(Busy') <= Cardinality(Writers)
    <3>1. IsFiniteSet(Writers) /\ Busy' \in SUBSET Writers
      BY LogAssumption DEF Busy
    <3>2. IsFiniteSet(Busy') /\ Cardinality(Busy') <= Cardinality(Writers)
      BY <3>1, FS_Subset
    <3> QED BY <3>2, FS_CardinalityType
  <2>4. Cardinality(blind') + Cardinality(Busy') <= Cardinality(Writers)
    BY <2>1, <2>3, FS_EmptySet, Counted
  <2> QED BY Zenon, <2>1, <2>4 DEF BlindBound
<1>2. ASSUME NEW w \in Writers, Commit(w) PROVE BlindBound'
  <2>1. pc[w] = "gate" /\ pc' = [pc EXCEPT ![w] = "append"] /\ UNCHANGED <<blind, err, up>>
    BY <1>2 DEF Commit, Goto
  <2>2. Busy' = Busy
    BY <1>0, <2>1 DEF Busy, TypeOK
  <2> QED BY <2>1, <2>2, BoundKept DEF BlindBound
<1>3. ASSUME NEW w \in Writers, AppendOk(w) PROVE BlindBound'
  BY Zenon, <1>3, BoundAppended DEF AppendOk
<1>4. ASSUME NEW w \in Writers, AppendFails(w) PROVE BlindBound'
  <2>1. err'
    BY <1>4 DEF AppendFails, WriteFails
  <2> QED BY Zenon, <1>4, <2>1, BoundAppended DEF AppendFails
<1>5. ASSUME NEW w \in Writers, SyncRefused(w) PROVE BlindBound'
  BY Zenon, <1>5, BoundReply DEF SyncRefused
<1>6. ASSUME NEW p \in Procs, Flush(p) PROVE BlindBound'
  <2>1. UNCHANGED <<blind, err, up>>
    BY <1>6 DEF Flush
  <2>2. Busy' = Busy
    <3>1. p \in Writers => pc[p] = "sync"
      BY <1>6, LogAssumption DEF Flush, AtSync
    <3>2. pc' = pc \/ pc' = [pc EXCEPT ![p] = "fsync"]
      BY <1>6 DEF Flush, Goto
    <3> QED BY <1>0, <3>1, <3>2 DEF Busy, TypeOK
  <2> QED BY <2>1, <2>2, BoundKept DEF BlindBound
<1>7. ASSUME NEW p \in Procs, FlushFails(p) PROVE BlindBound'
  <2>1. err' /\ up' = up /\ SyncDone(p, FALSE) /\ (p # Syncer => pc[p] # "idle")
    BY Zenon, <1>7 DEF FlushFails, WriteFails, AtSync
  <2> QED BY Zenon, <2>1, BoundSyncDone
<1>8. ASSUME NEW p \in Procs, Fsync(p) PROVE BlindBound'
  BY Zenon, <1>8, BoundSyncDone DEF Fsync
<1>9. ASSUME NEW p \in Procs, FsyncFails(p) PROVE BlindBound'
  BY Zenon, <1>9, BoundSyncDone DEF FsyncFails
<1>10. CASE BeginRewrite \/ abortRewrite \/ \E s \in Shards : AOFSnapshot(s)
  <2>1. UNCHANGED <<blind, err, up, pc>>
    BY <1>10 DEF BeginRewrite, abortRewrite, AOFSnapshot
  <2> QED BY <2>1, BoundKept DEF BlindBound, Busy
<1>11. CASE FinishRewrite
  <2>1. UNCHANGED <<blind, up, pc>> /\ ~err
    BY <1>11 DEF FinishRewrite
  <2> QED BY <2>1, BoundKept DEF BlindBound, Busy
<1>12. CASE Close \/ CloseFails
  <2>1. UNCHANGED <<blind, pc>> /\ up' = "closed"
    BY <1>12 DEF Close, CloseFails
  <2> QED BY <2>1, BoundKept DEF BlindBound, Busy
<1>13. CASE ProcessCrash \/ MachineCrash
  <2>1. blind' = blind /\ up' = "down" /\ Busy' = {}
    BY <1>13 DEF ProcessCrash, MachineCrash, Die, Busy, Procs
  <2> QED BY <2>1, BoundKept
<1>14. CASE Replay
  <2>1. blind' = {} /\ pc' = pc
    BY <1>14 DEF Replay
  <2> QED BY <2>1, BoundKept DEF Busy
<1>15. CASE UNCHANGED vars
  <2>1. UNCHANGED <<blind, err, up, pc>>
    BY <1>15 DEF vars
  <2> QED BY <2>1, BoundKept DEF BlindBound, Busy
<1> QED
  BY <1>1, <1>2, <1>3, <1>4, <1>5, <1>6, <1>7, <1>8, <1>9, <1>10, <1>11, <1>12, <1>13, <1>14, <1>15
  DEF Next, Write, Sync, Rewrite, Lifecycle

\* From a failure of the log on, at most one write per connection is told OK without
\* being durable: dispatch asks Log.Err before it lets a write in.
THEOREM FailuresAreContained == Spec => []FailureContained
<1>1. Init => BlindBound
  <2> SUFFICES ASSUME Init PROVE BlindBound
    OBVIOUS
  <2>1. blind = {} /\ TypeOK
    BY ControlInit DEF Init, Control
  <2>2. Cardinality(blind) + Cardinality(Busy) <= Cardinality(Writers)
    BY <2>1, Counted, FS_EmptySet
  <2> QED BY Zenon, <2>1, <2>2 DEF BlindBound
<1>2. Control /\ BlindBound /\ [Next]_vars => BlindBound'
  BY BoundStep
<1>3. Control /\ BlindBound => FailureContained
  BY Counted DEF Control, BlindBound, FailureContained
<1> QED BY <1>1, <1>2, <1>3, ControlInvariant, PTL DEF Spec

-----------------------------------------------------------------------------
(***************************************************************************)
(* Server implements AOFLog.                                               *)
(***************************************************************************)

\* Every step of the server is a step of the log's specification, or leaves it alone.
LEMMA ServerStepIsLogStep == [ServerNext]_allVars => [Next]_vars
<1> SUFFICES ASSUME [ServerNext]_allVars PROVE [Next]_vars
  OBVIOUS
<1>0. Syncer \in Procs /\ \A w \in Writers : w \in Procs
  BY DEF Procs
<1>1. ASSUME NEW w \in Writers, Send(w) \/ Quit(w) \/ Accept(w) PROVE UNCHANGED vars
  BY <1>1 DEF Send, Quit, Accept
<1>2. ASSUME NEW w \in Writers, HandleConn(w) PROVE [Next]_vars
  <2>1. CASE FlushReplies(w) \/ Receive(w) \/ Answer(w) \/ Return(w)
    BY <2>1 DEF FlushReplies, Receive, Answer, Return
  <2>2. CASE Dispatch(w)
    <3>1. Admit(w) \/ BeginRewrite \/ UNCHANGED vars
      BY <2>2 DEF Dispatch, DispatchWrite, DispatchRewrite, DispatchOther
    <3> QED BY <3>1 DEF Next, Write, Rewrite
  <2>3. CASE Work(w)
    <3>1. Proceed(w) \/ Sync(w)
      BY <2>3 DEF Work
    <3> QED BY <1>0, <3>1 DEF Next, Write, Proceed
  <2> QED BY <1>2, <2>1, <2>2, <2>3 DEF HandleConn
<1>3. CASE SyncLoop
  BY <1>0, <1>3 DEF SyncLoop, Next
<1>4. CASE RewriteLoop
  BY <1>4 DEF RewriteLoop, RewriteStep, Next, Rewrite
<1>5. CASE Shutdown \/ DrainTimeout \/ Drained \/ WaitBackground
  BY <1>5 DEF Shutdown, DrainTimeout, Drained, WaitBackground
<1>6. CASE CloseLog
  BY <1>6 DEF CloseLog, Next, Lifecycle
<1>7. CASE ServeFails
  BY <1>7 DEF ServeFails, Next, Lifecycle
<1>8. CASE UNCHANGED allVars
  BY <1>8 DEF allVars
<1> QED BY <1>1, <1>2, <1>3, <1>4, <1>5, <1>6, <1>7, <1>8 DEF ServerNext, Main

\* Connections, dispatch and shutdown use the log only in ways AOFLog allows: the
\* server's specification implements the log's.
THEOREM ServerImplementsLog == ServerSpec => Spec
<1>1. ServerInit => Init
  BY DEF ServerInit
<1> QED BY <1>1, ServerStepIsLogStep, PTL DEF ServerSpec, Spec

\* Whatever the connections do, and with a rewrite under way when the signal comes, the
\* log that main closes in good order has every mutation on disk.
THEOREM ServerShutdownIsComplete == ServerSpec => []ShutdownKeepsAll
BY ServerImplementsLog, ShutdownIsComplete, PTL

\* No connection's commands make a log in good order forget a mutation.
THEOREM ServerForgetsNothing == ServerSpec => []NothingForgotten
BY ServerImplementsLog, NoneForgotten, PTL

-----------------------------------------------------------------------------
(***************************************************************************)
(* The shutdown.                                                           *)
(***************************************************************************)

\* Only a mutation in flight holds the gate.
GateHeld == gate # Nobody => gate \in Writers /\ pc[gate] = "append"

\* A goroutine's step in the log moves no other goroutine.
LEMMA OthersStay ==
  ASSUME TypeOK, NEW p \in Procs, (p \in Writers /\ Write(p)) \/ Sync(p)
  PROVE  \A q \in Procs \ {p} : pc'[q] = pc[q]
<1>1. pc' = pc \/ \E l : pc' = [pc EXCEPT ![p] = l]
  <2>1. ASSUME NEW ok \in BOOLEAN, Reply(p, ok) PROVE \E l : pc' = [pc EXCEPT ![p] = l]
    BY Zenon, <2>1 DEF Reply, Goto
  <2>2. ASSUME NEW ok \in BOOLEAN, Appended(p, ok) PROVE \E l : pc' = [pc EXCEPT ![p] = l]
    BY Zenon, <2>1, <2>2 DEF Appended, Goto
  <2>3. ASSUME NEW ok \in BOOLEAN, SyncDone(p, ok) PROVE \E l : pc' = [pc EXCEPT ![p] = l]
    BY Zenon, <2>1, <2>3 DEF SyncDone, Goto
  <2>4. CASE Admit(p) \/ Commit(p)
    BY Zenon, <2>4 DEF Admit, Commit, Goto
  <2>5. CASE AppendOk(p) \/ AppendFails(p)
    BY Zenon, <2>2, <2>5 DEF AppendOk, AppendFails
  <2>6. CASE SyncRefused(p)
    BY Zenon, <2>1, <2>6 DEF SyncRefused
  <2>7. CASE Flush(p)
    BY Zenon, <2>7 DEF Flush, Goto
  <2>8. CASE FlushFails(p) \/ Fsync(p) \/ FsyncFails(p)
    BY Zenon, <2>3, <2>8 DEF FlushFails, Fsync, FsyncFails
  <2> QED BY Zenon, <2>4, <2>5, <2>6, <2>7, <2>8 DEF Write, Sync
<1> QED BY <1>1 DEF TypeOK

\* Every step of the log keeps the gate with the mutation in flight.
LEMMA GateStep ==
  ASSUME TypeOK, GateHeld, [Next]_vars
  PROVE  GateHeld'
<1>0. Nobody \notin Writers /\ \A w \in Writers : w \in Procs
  BY LogAssumption DEF Procs
<1>1. ASSUME UNCHANGED <<gate, pc>> PROVE GateHeld'
  BY Zenon, <1>1 DEF GateHeld
<1>2. ASSUME gate' = Nobody PROVE GateHeld'
  BY <1>2 DEF GateHeld
<1>3. ASSUME NEW p \in Procs, pc[p] # "append", gate' = gate,
             \A q \in Procs \ {p} : pc'[q] = pc[q]
      PROVE  GateHeld'
  BY <1>0, <1>3 DEF GateHeld
<1>4. ASSUME NEW w \in Writers, Write(w) PROVE GateHeld'
  <2>1. CASE Admit(w) \/ SyncRefused(w)
    <3>1. pc[w] # "append" /\ gate' = gate
      BY <2>1 DEF Admit, SyncRefused
    <3> QED BY <1>0, <1>3, <1>4, <3>1, OthersStay
  <2>2. CASE Commit(w)
    BY <1>0, <2>2 DEF Commit, Goto, TypeOK, GateHeld
  <2>3. CASE AppendOk(w) \/ AppendFails(w)
    BY Zenon, <1>2, <2>3 DEF AppendOk, AppendFails, Appended
  <2> QED BY <1>4, <2>1, <2>2, <2>3 DEF Write
<1>5. ASSUME NEW p \in Procs, Sync(p) PROVE GateHeld'
  <2>1. pc[p] # "append" /\ gate' = gate
    BY Zenon, <1>5 DEF Sync, Flush, FlushFails, Fsync, FsyncFails, AtSync
  <2> QED BY <1>3, <1>5, <2>1, OthersStay
<1>6. CASE Rewrite
  BY <1>1, <1>6 DEF Rewrite, BeginRewrite, AOFSnapshot, abortRewrite, FinishRewrite
<1>7. CASE Lifecycle \/ UNCHANGED vars
  BY <1>1, <1>2, <1>7 DEF Lifecycle, Close, CloseFails, ProcessCrash, MachineCrash, Die, Replay, vars
<1> QED BY <1>4, <1>5, <1>6, <1>7 DEF Next

\* A command is at work in the log only for a handler that waits for it; from the end of
\* Drain on there is no handler, and from the end of WaitBackground on no rewrite.
Shutting ==
    /\ handler \in [Writers -> {"none", "read", "cmd", "reply", "error", "bye", "done"}]
    /\ \A w \in Writers : pc[w] # "idle" => handler[w] = "cmd"
    /\ main \in {"background", "close", "exit"} => Finished
    /\ main = "close" => rpc = "idle"

\* Every step of the server keeps Shutting.
LEMMA ShuttingStep ==
  ASSUME Control, Shutting, [ServerNext]_allVars
  PROVE  Shutting'
<1> USE DEF Control
<1>0. \A w \in Writers : w \in Procs /\ w # Syncer
  BY LogAssumption DEF Procs
<1>a. ASSUME UNCHANGED <<handler, pc, main, rpc>> PROVE Shutting'
  BY Zenon, <1>a DEF Shutting, Finished, Connected
<1>1. ASSUME NEW w \in Writers, Send(w) \/ Quit(w) PROVE Shutting'
  BY <1>a, <1>1 DEF Send, Quit, vars, rwVars, procVars
\* a handler that is not waiting for its command moves on
<1>2. ASSUME NEW w \in Writers, NEW l \in {"read", "reply", "error", "bye", "done"}, At(w, l),
             handler[w] # "cmd", handler[w] \notin {"none", "done"} \/ main = "serve",
             UNCHANGED <<pc, main>>, rpc' = rpc \/ handler[w] = "read"
      PROVE  Shutting'
  <2>1. handler' = [handler EXCEPT ![w] = l]
    BY <1>2 DEF At
  <2>2. handler' \in [Writers -> {"none", "read", "cmd", "reply", "error", "bye", "done"}]
    BY <2>1 DEF Shutting
  <2>3. \A v \in Writers : pc'[v] # "idle" => handler'[v] = "cmd"
    BY <1>2, <2>1 DEF Shutting
  <2>4. main \notin {"background", "close", "exit"}
    BY <1>2 DEF Shutting, Finished, Connected
  <2> QED BY <1>2, <2>2, <2>3, <2>4 DEF Shutting
<1>3. ASSUME NEW w \in Writers, Accept(w) PROVE Shutting'
  BY <1>2, <1>3 DEF Accept, vars, rwVars, procVars
<1>4. ASSUME NEW w \in Writers, HandleConn(w) PROVE Shutting'
  <2>1. CASE FlushReplies(w)
    <3>1. handler[w] = "read" /\ UNCHANGED <<pc, main, rpc>> /\ (At(w, "bye") \/ handler' = handler)
      BY <2>1 DEF FlushReplies, vars, rwVars, procVars
    <3> QED BY <1>2, <1>a, <3>1
  <2>2. CASE Receive(w)
    <3>1. handler[w] = "read" /\ UNCHANGED <<pc, main, rpc>> /\ (At(w, "bye") \/ handler' = handler)
      BY <2>2 DEF Receive, vars, rwVars, procVars
    <3> QED BY <1>2, <1>a, <3>1
  <2>3. CASE DispatchWrite(w)
    <3>1. handler[w] = "read" /\ UNCHANGED <<main, rpc>>
      BY <2>3 DEF DispatchWrite, Take, Admit, vars, rwVars, procVars
    <3>2. CASE At(w, "reply") /\ UNCHANGED vars
      BY <1>2, <3>1, <3>2 DEF vars
    <3>3. CASE Admit(w) /\ At(w, "cmd")
      <4>1. handler' = [handler EXCEPT ![w] = "cmd"] /\ pc' = [pc EXCEPT ![w] = "gate"]
        BY <3>3 DEF At, Admit, Goto
      <4>2. handler' \in [Writers -> {"none", "read", "cmd", "reply", "error", "bye", "done"}]
        BY <4>1 DEF Shutting
      <4>3. \A v \in Writers : pc'[v] # "idle" => handler'[v] = "cmd"
        BY <1>0, <4>1 DEF Shutting, TypeOK
      <4>4. main \notin {"background", "close", "exit"}
        BY <3>1 DEF Shutting, Finished, Connected
      <4> QED BY <3>1, <4>2, <4>3, <4>4 DEF Shutting
    <3> QED BY <2>3, <3>2, <3>3 DEF DispatchWrite
  <2>4. CASE DispatchRewrite(w)
    <3>1. handler[w] = "read" /\ At(w, "reply") /\ UNCHANGED <<pc, main>>
      BY <2>4 DEF DispatchRewrite, Take, BeginRewrite, vars, procVars
    <3> QED BY <1>2, <3>1
  <2>5. CASE DispatchOther(w)
    <3>1. /\ handler[w] = "read" /\ UNCHANGED <<pc, main, rpc>>
          /\ \E l \in {"reply", "read", "error"} : At(w, l)
      BY <2>5 DEF DispatchOther, Take, vars, rwVars, procVars
    <3> QED BY <1>2, <3>1
  <2>6. CASE Work(w)
    <3>1. /\ handler[w] = "cmd" /\ main' = main
          /\ IF pc'[w] = "idle" THEN At(w, "reply") ELSE handler' = handler
      BY <2>6 DEF Work, procVars
    <3>2. Write(w) \/ Sync(w)
      BY <2>6 DEF Work, Proceed, Write
    <3>3. \A v \in Writers \ {w} : pc'[v] = pc[v]
      BY <1>0, <3>2, OthersStay
    <3>4. main \notin {"background", "close", "exit"}
      BY <3>1 DEF Shutting, Finished, Connected
    <3>5. CASE pc'[w] = "idle"
      <4>1. handler' = [handler EXCEPT ![w] = "reply"]
        BY <3>1, <3>5 DEF At
      <4> QED BY <3>1, <3>3, <3>4, <3>5, <4>1 DEF Shutting
    <3>6. CASE pc'[w] # "idle"
      BY <3>1, <3>3, <3>4, <3>6 DEF Shutting
    <3> QED BY <3>5, <3>6
  <2>7. CASE Answer(w)
    <3>1. /\ handler[w] \in {"reply", "error"} /\ UNCHANGED <<pc, main, rpc>>
          /\ At(w, "read") \/ At(w, "bye")
      BY <2>7 DEF Answer, vars, rwVars, procVars
    <3> QED BY <1>2, <3>1
  <2>8. CASE Return(w)
    <3>1. handler[w] = "bye" /\ At(w, "done") /\ UNCHANGED <<pc, main, rpc>>
      BY <2>8 DEF Return, vars, rwVars, procVars
    <3> QED BY <1>2, <3>1
  <2> QED BY <1>4, <2>1, <2>2, <2>3, <2>4, <2>5, <2>6, <2>7, <2>8 DEF HandleConn, Dispatch
<1>5. CASE SyncLoop
  <2>1. UNCHANGED <<handler, main>> /\ \A w \in Writers : pc'[w] = pc[w]
    <3>1. Syncer \in Procs /\ Sync(Syncer)
      BY <1>5 DEF SyncLoop, Procs
    <3> QED BY <1>0, <1>5, <3>1, OthersStay DEF SyncLoop, connVars
  <2>2. rpc' = rpc
    BY Zenon, <1>5 DEF SyncLoop, Sync, Flush, FlushFails, Fsync, FsyncFails, rwVars
  <2> QED BY <2>1, <2>2 DEF Shutting, Finished, Connected
<1>6. CASE RewriteLoop
  <2>1. UNCHANGED <<handler, main, pc>> /\ rpc # "idle"
    BY <1>6 DEF RewriteLoop, RewriteStep, AOFSnapshot, abortRewrite, FinishRewrite, connVars, procVars
  <2> QED BY <2>1 DEF Shutting, Finished, Connected
<1>7. CASE Shutdown \/ DrainTimeout
  <2>1. UNCHANGED <<handler, pc, rpc>> /\ main' \in {"drain", "forced"}
    BY <1>7 DEF Shutdown, DrainTimeout, vars, rwVars, connVars
  <2> QED BY <2>1 DEF Shutting
<1>8. CASE Drained \/ WaitBackground
  <2>1. UNCHANGED <<handler, pc, rpc>> /\ Finished /\ (main' = "close" => rpc = "idle")
    BY <1>8 DEF Drained, WaitBackground, Shutting, vars, rwVars, connVars
  <2> QED BY <2>1 DEF Shutting, Finished, Connected
<1>9. CASE CloseLog
  <2>1. UNCHANGED <<handler, pc>> /\ main = "close" /\ main' = "exit"
    BY <1>9 DEF CloseLog, Close, CloseFails, connVars
  <2> QED BY <2>1 DEF Shutting, Finished, Connected
<1>10. CASE ServeFails
  <2>1. main' = "exit" /\ handler' = [w \in Writers |-> "done"] /\ \A w \in Writers : pc'[w] = "idle"
    BY <1>0, <1>10 DEF ServeFails, ProcessCrash, Die
  <2> QED BY <2>1 DEF Shutting, Finished, Connected
<1>11. CASE UNCHANGED allVars
  BY <1>a, <1>11 DEF allVars, vars, rwVars, connVars, procVars
<1> QED BY <1>1, <1>3, <1>4, <1>5, <1>6, <1>7, <1>8, <1>9, <1>10, <1>11 DEF ServerNext, Main

\* When main closes the log, Drain has seen every handler return and WaitBackground
\* every rewrite end: no command holds the gate and nothing is left to write to the log.
THEOREM ShutdownIsQuiet == ServerSpec => []QuietAtClose
<1>1. ServerInit => GateHeld /\ Shutting
  BY DEF ServerInit, Init, GateHeld, Shutting, Finished, Connected, Procs
<1>2. Control /\ GateHeld /\ Shutting /\ [ServerNext]_allVars => GateHeld' /\ Shutting'
  BY ServerStepIsLogStep, GateStep, ShuttingStep DEF Control
<1>3. Control /\ GateHeld /\ Shutting => QuietAtClose
  <2> SUFFICES ASSUME Control, GateHeld, Shutting, main = "close"
               PROVE  (\A w \in Writers : pc[w] = "idle") /\ gate = Nobody /\ rpc = "idle" /\ ~rewriting
    BY DEF QuietAtClose
  <2>1. \A w \in Writers : pc[w] = "idle"
    BY DEF Shutting, Finished, Connected
  <2>2. gate = Nobody /\ rpc = "idle"
    BY <2>1 DEF GateHeld, Shutting
  <2> QED BY <2>1, <2>2 DEF Control, RewritePos
<1>4. ServerSpec => []Control
  BY ServerImplementsLog, ControlInvariant, PTL
<1> QED BY <1>1, <1>2, <1>3, <1>4, PTL DEF ServerSpec

-----------------------------------------------------------------------------
(***************************************************************************)
(* The bounds of the connections: halves sent and read, commands taken,    *)
(* replies held.                                                           *)
(***************************************************************************)

\* Halves and whole commands.
LEMMA Halves ==
  ASSUME NEW a \in Nat, NEW b \in Nat
  PROVE  a <= b \div 2 <=> 2 * a <= b
OBVIOUS

\* The counters of one connection: s halves sent, r read, c commands taken, q replies.
Counters(w, s, r, c, q) ==
    /\ s \in Nat /\ r \in Nat /\ c \in Nat /\ q \in Nat
    /\ s <= MaxSent[w] /\ r <= s /\ 2 * c <= r /\ q <= WriteCap

\* The bounds of every connection, with what the model's other variables hold.
Connections ==
    /\ client \in [Writers -> {"talk", "mute", "gone"}]
    /\ main \in {"serve", "drain", "forced", "background", "close", "exit"}
    /\ lastSync \in BOOLEAN
    /\ sent \in [Writers -> Nat] /\ recv \in [Writers -> Nat]
    /\ parsed \in [Writers -> Nat] /\ replies \in [Writers -> Nat]
    /\ \A w \in Writers : Counters(w, sent[w], recv[w], parsed[w], replies[w])

\* A step that changes the counters of one connection only.
Counts(w, s, r, c, q) ==
    /\ sent' = [sent EXCEPT ![w] = s] /\ recv' = [recv EXCEPT ![w] = r]
    /\ parsed' = [parsed EXCEPT ![w] = c] /\ replies' = [replies EXCEPT ![w] = q]
    /\ client' \in [Writers -> {"talk", "mute", "gone"}]
    /\ UNCHANGED procVars

\* Such a step, within the bounds, keeps the invariant.
LEMMA OneConnection ==
  ASSUME Connections, NEW w \in Writers, NEW s, NEW r, NEW c, NEW q,
         Counters(w, s, r, c, q), Counts(w, s, r, c, q)
  PROVE  Connections'
<1> USE DEF Counts
<1>1. /\ sent' \in [Writers -> Nat] /\ recv' \in [Writers -> Nat]
      /\ parsed' \in [Writers -> Nat] /\ replies' \in [Writers -> Nat]
  BY DEF Connections, Counters
<1>2. ASSUME NEW v \in Writers PROVE Counters(v, sent'[v], recv'[v], parsed'[v], replies'[v])
  <2>1. CASE v = w
    <3>1. sent'[v] = s /\ recv'[v] = r /\ parsed'[v] = c /\ replies'[v] = q
      BY <2>1 DEF Connections
    <3> QED BY <2>1, <3>1
  <2>2. CASE v # w
    <3>1. sent'[v] = sent[v] /\ recv'[v] = recv[v] /\ parsed'[v] = parsed[v] /\ replies'[v] = replies[v]
      BY <2>2 DEF Connections
    <3>2. Counters(v, sent[v], recv[v], parsed[v], replies[v])
      BY DEF Connections
    <3> QED BY <3>1, <3>2
  <2> QED BY <2>1, <2>2
<1> QED BY <1>1, <1>2 DEF Connections, procVars

\* Every step of the server keeps the counters of every connection within their bounds.
LEMMA ConnectionsStep ==
  ASSUME Connections, [ServerNext]_allVars
  PROVE  Connections'
<1>0. ASSUME NEW w \in Writers
      PROVE  /\ Counters(w, sent[w], recv[w], parsed[w], replies[w])
             /\ sent = [sent EXCEPT ![w] = sent[w]] /\ recv = [recv EXCEPT ![w] = recv[w]]
             /\ parsed = [parsed EXCEPT ![w] = parsed[w]] /\ replies = [replies EXCEPT ![w] = replies[w]]
             /\ MaxSent[w] \in Nat /\ WriteCap \in Nat \ {0}
  BY ServerAssumption DEF Connections
<1>1. ASSUME UNCHANGED <<client, sent, recv, parsed, replies>>, lastSync' \in BOOLEAN,
             main' \in {"serve", "drain", "forced", "background", "close", "exit"}
      PROVE  Connections'
  <2>1. \A w \in Writers : Counters(w, sent'[w], recv'[w], parsed'[w], replies'[w])
    BY <1>1, Zenon DEF Connections
  <2> QED BY <1>1, <2>1 DEF Connections
<1>2. ASSUME NEW w \in Writers, Send(w) PROVE Connections'
  <2>1. PICK n \in sent[w] + 1 .. MaxSent[w] : sent' = [sent EXCEPT ![w] = n]
    BY <1>2 DEF Send
  <2>2. Counters(w, n, recv[w], parsed[w], replies[w])
    BY <1>0, <2>1 DEF Counters
  <2>3. UNCHANGED <<client, recv, parsed, replies, procVars>>
    BY <1>2 DEF Send
  <2>4. /\ recv' = [recv EXCEPT ![w] = recv[w]] /\ parsed' = [parsed EXCEPT ![w] = parsed[w]]
        /\ replies' = [replies EXCEPT ![w] = replies[w]]
    BY <1>0, <2>3, Zenon
  <2>5. client' \in [Writers -> {"talk", "mute", "gone"}]
    BY <2>3 DEF Connections
  <2>9. Counts(w, n, recv[w], parsed[w], replies[w])
    BY Zenon, <2>1, <2>3, <2>4, <2>5 DEF Counts
  <2> QED BY <2>9, <2>2, OneConnection
<1>3. ASSUME NEW w \in Writers, Quit(w) PROVE Connections'
  <2>1. UNCHANGED <<sent, recv, parsed, replies, procVars>> /\ client' \in [Writers -> {"talk", "mute", "gone"}]
    BY <1>3 DEF Quit, Connections
  <2> QED BY <2>1 DEF Connections, procVars
<1>4. ASSUME NEW w \in Writers, Accept(w) \/ Work(w) PROVE Connections'
  <2>1. UNCHANGED <<client, sent, recv, parsed, replies, procVars>>
    BY <1>4 DEF Accept, Work
  <2> QED BY <2>1 DEF Connections, procVars
<1>5. ASSUME NEW w \in Writers, FlushReplies(w) \/ Answer(w) PROVE Connections'
  <2>1. UNCHANGED <<client, sent, recv, parsed, procVars>>
    BY <1>5 DEF FlushReplies, Answer
  <2>2. PICK q \in Nat : replies' = [replies EXCEPT ![w] = q] /\ q <= WriteCap
    <3>1. replies[w] \in Nat /\ replies[w] <= WriteCap
      BY <1>0 DEF Counters
    <3>2. \/ replies' = [replies EXCEPT ![w] = 0] \/ replies' = replies \/ replies' = [replies EXCEPT ![w] = 1]
          \/ replies[w] < WriteCap /\ replies' = [replies EXCEPT ![w] = replies[w] + 1]
      BY <1>5 DEF FlushReplies, Answer
    <3> QED BY <1>0, <3>1, <3>2
  <2>3. Counters(w, sent[w], recv[w], parsed[w], q)
    BY <1>0, <2>2 DEF Counters
  <2>4. /\ sent' = [sent EXCEPT ![w] = sent[w]] /\ recv' = [recv EXCEPT ![w] = recv[w]]
        /\ parsed' = [parsed EXCEPT ![w] = parsed[w]]
    BY <1>0, <2>1, Zenon
  <2>5. client' \in [Writers -> {"talk", "mute", "gone"}]
    BY <2>1 DEF Connections
  <2>9. Counts(w, sent[w], recv[w], parsed[w], q)
    BY Zenon, <2>1, <2>2, <2>4, <2>5 DEF Counts
  <2> QED BY <2>9, <2>3, OneConnection
<1>6. ASSUME NEW w \in Writers, Receive(w) PROVE Connections'
  <2>1. UNCHANGED <<client, sent, parsed, replies, procVars>>
    BY <1>6 DEF Receive
  <2>2. recv' = [recv EXCEPT ![w] = sent[w]] \/ recv' = recv
    BY <1>6 DEF Receive
  <2>3. Counters(w, sent[w], sent[w], parsed[w], replies[w])
    BY <1>0 DEF Counters
  <2>4. /\ sent' = [sent EXCEPT ![w] = sent[w]] /\ parsed' = [parsed EXCEPT ![w] = parsed[w]]
        /\ replies' = [replies EXCEPT ![w] = replies[w]]
        /\ recv' = [recv EXCEPT ![w] = sent[w]] \/ recv' = [recv EXCEPT ![w] = recv[w]]
    BY <1>0, <2>1, <2>2, Zenon
  <2>5. client' \in [Writers -> {"talk", "mute", "gone"}]
    BY <2>1 DEF Connections
  <2>6. Counters(w, sent[w], recv[w], parsed[w], replies[w])
    BY <1>0
  <2>9. Counts(w, sent[w], sent[w], parsed[w], replies[w]) \/ Counts(w, sent[w], recv[w], parsed[w], replies[w])
    BY Zenon, <2>1, <2>4, <2>5 DEF Counts
  <2> QED BY <2>9, <2>3, <2>6, OneConnection
<1>7. ASSUME NEW w \in Writers, Dispatch(w) PROVE Connections'
  <2>1. WholeCommand(w) /\ parsed' = [parsed EXCEPT ![w] = parsed[w] + 1]
        /\ UNCHANGED <<client, sent, recv, replies, procVars>>
    BY <1>7 DEF Dispatch, DispatchWrite, DispatchRewrite, DispatchOther, Take
  <2>2. Counters(w, sent[w], recv[w], parsed[w] + 1, replies[w])
    BY <1>0, <2>1 DEF Counters, WholeCommand
  <2>3. /\ sent' = [sent EXCEPT ![w] = sent[w]] /\ recv' = [recv EXCEPT ![w] = recv[w]]
        /\ replies' = [replies EXCEPT ![w] = replies[w]]
    BY <1>0, <2>1, Zenon
  <2>4. client' \in [Writers -> {"talk", "mute", "gone"}]
    BY <2>1 DEF Connections
  <2>9. Counts(w, sent[w], recv[w], parsed[w] + 1, replies[w])
    BY Zenon, <2>1, <2>3, <2>4 DEF Counts
  <2> QED BY <2>9, <2>2, OneConnection
<1>8. ASSUME NEW w \in Writers, Return(w) PROVE Connections'
  <2>1. /\ sent' = [sent EXCEPT ![w] = 0] /\ recv' = [recv EXCEPT ![w] = 0] /\ parsed' = [parsed EXCEPT ![w] = 0]
        /\ replies' = [replies EXCEPT ![w] = 0] /\ UNCHANGED procVars
        /\ client' \in [Writers -> {"talk", "mute", "gone"}]
    BY <1>8 DEF Return, Connections
  <2>2. Counters(w, 0, 0, 0, 0)
    BY <1>0 DEF Counters
  <2>9. Counts(w, 0, 0, 0, 0)
    BY Zenon, <2>1 DEF Counts
  <2> QED BY <2>9, <2>2, OneConnection
<1>9. CASE SyncLoop \/ RewriteLoop
  BY <1>1, <1>9 DEF SyncLoop, RewriteLoop, connVars, procVars, Connections
<1>10. CASE Shutdown \/ DrainTimeout \/ Drained \/ WaitBackground \/ CloseLog \/ ServeFails
  BY <1>1, <1>10 DEF Shutdown, DrainTimeout, Drained, WaitBackground, CloseLog, ServeFails, connVars, Connections
<1>11. CASE UNCHANGED allVars
  BY <1>1, <1>11 DEF allVars, connVars, procVars, Connections
<1> QED
  BY <1>2, <1>3, <1>4, <1>5, <1>6, <1>7, <1>8, <1>9, <1>10, <1>11 DEF ServerNext, HandleConn, Main

\* A connection reads no more than was sent, takes no more commands than it has read
\* whole, and buffers no more replies than fit.
THEOREM ServerTypes == ServerSpec => []ServerTypeOK
<1>1. ServerInit => GateHeld /\ Shutting /\ Connections
  <2>1. ServerInit => GateHeld /\ Shutting
    BY DEF ServerInit, Init, GateHeld, Shutting, Finished, Connected, Procs
  <2>2. ServerInit => Connections
    <3> SUFFICES ASSUME ServerInit PROVE Connections
      OBVIOUS
    <3>1. /\ client = [w \in Writers |-> "talk"] /\ main = "serve" /\ lastSync = FALSE
          /\ sent = [w \in Writers |-> 0] /\ recv = [w \in Writers |-> 0]
          /\ parsed = [w \in Writers |-> 0] /\ replies = [w \in Writers |-> 0]
      BY DEF ServerInit
    <3>2. \A w \in Writers : Counters(w, 0, 0, 0, 0)
      BY ServerAssumption DEF Counters
    <3> QED BY <3>1, <3>2 DEF Connections
  <2> QED BY <2>1, <2>2
<1>2. Control /\ Shutting /\ Connections /\ [ServerNext]_allVars => Shutting' /\ Connections'
  BY ShuttingStep, ConnectionsStep
<1>3. Shutting /\ Connections => ServerTypeOK
  <2> SUFFICES ASSUME Shutting, Connections PROVE ServerTypeOK
    OBVIOUS
  <2>1. ASSUME NEW w \in Writers
        PROVE  /\ sent[w] \in 0 .. MaxSent[w] /\ recv[w] \in 0 .. sent[w]
               /\ parsed[w] \in 0 .. recv[w] \div 2 /\ replies[w] \in 0 .. WriteCap
    <3>1. Counters(w, sent[w], recv[w], parsed[w], replies[w]) /\ MaxSent[w] \in Nat /\ WriteCap \in Nat
      BY ServerAssumption DEF Connections
    <3>2. parsed[w] <= recv[w] \div 2
      <4>1. parsed[w] \in Nat /\ recv[w] \in Nat /\ 2 * parsed[w] <= recv[w]
        BY <3>1 DEF Counters
      <4> QED BY <4>1, Halves
    <3>3. recv[w] \in Nat /\ recv[w] \div 2 \in Nat
      BY <3>1 DEF Counters
    <3> QED BY <3>1, <3>2, <3>3 DEF Counters
  <2> QED BY <2>1 DEF ServerTypeOK, Shutting, Connections
<1>4. ServerSpec => []Control
  BY ServerImplementsLog, ControlInvariant, PTL
<1> QED BY <1>1, <1>2, <1>3, <1>4, PTL DEF ServerSpec
=============================================================================
