------------------------------- MODULE Server -------------------------------
(***************************************************************************)
(* internal/server's connections and main's shutdown, around the log of    *)
(* module AOFLog.  A client's bytes arrive in halves of a command, so that *)
(* a read may end inside one; replies collect in a buffer that is flushed  *)
(* before the connection blocks on its socket.  What a command does, and   *)
(* which it is, is decided when it is dispatched.                          *)
(***************************************************************************)
EXTENDS AOFLog

CONSTANTS
    MaxSent,     \* bound: halves of commands each client sends
    WriteCap     \* replies that fit a connection's write buffer

ASSUME ServerAssumption ==
    /\ WriteCap \in Nat \ {0}
    /\ MaxSent \in [Writers -> Nat]

VARIABLES
    client,      \* "talk"; "mute" when it stops reading and sending; "gone"
    handler,     \* HandleConn: where each connection's goroutine is
    sent, recv,  \* halves the client has sent, and the goroutine has read
    parsed,      \* commands taken out of the read buffer
    replies,     \* replies in the write buffer
    main,        \* where main is
    lastSync     \* RunSyncLoop has seen the cancellation and made its last sync

connVars == <<client, handler, sent, recv, parsed, replies>>
procVars == <<main, lastSync>>
allVars  == <<vars, connVars, procVars>>

\* A connection reads no more than was sent, takes no more commands than it has read
\* whole, and keeps no more replies than its write buffer holds.
ServerTypeOK ==
    /\ client \in [Writers -> {"talk", "mute", "gone"}]
    /\ handler \in [Writers -> {"none", "read", "cmd", "reply", "error", "bye", "done"}]
    /\ main \in {"serve", "drain", "forced", "background", "close", "exit"}
    /\ lastSync \in BOOLEAN
    /\ \A w \in Writers :
         /\ sent[w] \in 0 .. MaxSent[w]
         /\ recv[w] \in 0 .. sent[w]
         /\ parsed[w] \in 0 .. recv[w] \div 2
         /\ replies[w] \in 0 .. WriteCap

\* Under "always" dispatch puts the reply into the write buffer before it syncs, which
\* AOFLog, where the reply is the sync's last step, does not show.
ServerInit ==
    /\ Init
    /\ Policy # "always"
    /\ client = [w \in Writers |-> "talk"]
    /\ handler = [w \in Writers |-> "none"]
    /\ sent = [w \in Writers |-> 0]
    /\ recv = [w \in Writers |-> 0]
    /\ parsed = [w \in Writers |-> 0]
    /\ replies = [w \in Writers |-> 0]
    /\ main = "serve"
    /\ lastSync = FALSE

At(w, l) == handler' = [handler EXCEPT ![w] = l]

-----------------------------------------------------------------------------
(***************************************************************************)
(* The clients.                                                            *)
(***************************************************************************)
Connected(w) == handler[w] \notin {"none", "done"}

Send(w) ==
    /\ Connected(w) /\ client[w] = "talk"
    /\ \E n \in sent[w] + 1 .. MaxSent[w] : sent' = [sent EXCEPT ![w] = n]
    /\ UNCHANGED <<vars, client, handler, recv, parsed, replies, procVars>>

\* The client stops reading, or closes its end.
Quit(w) ==
    /\ Connected(w) /\ client[w] = "talk"
    /\ \E c \in {"mute", "gone"} : client' = [client EXCEPT ![w] = c]
    /\ UNCHANGED <<vars, handler, sent, recv, parsed, replies, procVars>>

-----------------------------------------------------------------------------
(***************************************************************************)
(* Serve and HandleConn.                                                   *)
(***************************************************************************)
Accept(w) ==
    /\ main = "serve" /\ handler[w] = "none"
    /\ At(w, "read")
    /\ UNCHANGED <<vars, client, sent, recv, parsed, replies, procVars>>

\* Mutant: Drain's timeout closes nothing.
Closed_never(w) == FALSE

\* Drain has closed this connection's socket.
Closed(w) == main = "forced"

Writable(w) == client[w] # "mute" /\ ~Closed(w)      \* a write may succeed
Broken(w)   == client[w] = "gone" \/ Closed(w)       \* a write may fail

\* Mutant: the parser hands out a command before it has all of it.
WholeCommand_early(w) == recv[w] > 2 * parsed[w]

\* ReadCommand can return without reading from the socket.
WholeCommand(w) == recv[w] >= 2 * (parsed[w] + 1)

\* Mutant: the flush is skipped while the read buffer holds part of a command.
MustFlush_onlyWhenEmpty(w) == replies[w] > 0 /\ recv[w] = 2 * parsed[w]

\* flushBeforeRead: the socket is read, when the read buffer holds no whole command,
\* only after the replies have gone out.
MustFlush(w) == replies[w] > 0

FlushReplies(w) ==
    /\ handler[w] = "read" /\ ~WholeCommand(w)
    /\ MustFlush(w)
    /\ \/ Writable(w) /\ replies' = [replies EXCEPT ![w] = 0] /\ UNCHANGED handler
       \/ Broken(w) /\ At(w, "bye") /\ UNCHANGED replies
    /\ UNCHANGED <<vars, client, sent, recv, parsed, procVars>>

\* conn.Read waits until something has arrived, or there will be no more.
Receive(w) ==
    /\ handler[w] = "read" /\ ~WholeCommand(w)
    /\ ~MustFlush(w)
    /\ \/ recv[w] < sent[w] /\ ~Closed(w)
          /\ recv' = [recv EXCEPT ![w] = sent[w]] /\ UNCHANGED handler
       \/ recv[w] = sent[w] /\ client[w] = "gone" /\ At(w, "bye") /\ UNCHANGED recv
       \/ Closed(w) /\ At(w, "bye") /\ UNCHANGED recv
    /\ UNCHANGED <<vars, client, sent, parsed, replies, procVars>>

Take(w) ==
    /\ handler[w] = "read" /\ WholeCommand(w)
    /\ parsed' = [parsed EXCEPT ![w] = @ + 1]
    /\ UNCHANGED <<client, sent, recv, replies, procVars>>

\* dispatch of a write: Log.Err decides whether it is admitted or refused.
DispatchWrite(w) ==
    /\ Take(w)
    /\ \/ Admit(w) /\ At(w, "cmd")
       \/ err /\ mu = Nobody /\ At(w, "reply") /\ UNCHANGED vars

\* bgrewriteaof, which BeginRewrite may refuse.
DispatchRewrite(w) ==
    /\ Take(w)
    /\ At(w, "reply")
    /\ BeginRewrite \/ ((err \/ rewriting) /\ mu = Nobody /\ UNCHANGED vars)

\* Any other command or command error; an empty array, which has no reply; and bytes
\* that are no command, which end the connection after an error reply.
DispatchOther(w) ==
    /\ Take(w)
    /\ \E l \in {"reply", "read", "error"} : At(w, l)
    /\ UNCHANGED vars

\* A write command's work in store and log; its reply comes after it.
Work(w) ==
    /\ handler[w] = "cmd"
    /\ Proceed(w) \/ Sync(w)
    /\ IF pc'[w] = "idle" THEN At(w, "reply") ELSE UNCHANGED handler
    /\ UNCHANGED <<client, sent, recv, parsed, replies, procVars>>

\* The reply goes into the write buffer; one that does not fit pushes out the
\* earlier ones.
Answer(w) ==
    /\ handler[w] \in {"reply", "error"}
    /\ \/ /\ replies[w] < WriteCap
          /\ replies' = [replies EXCEPT ![w] = @ + 1]
          /\ At(w, IF handler[w] = "reply" THEN "read" ELSE "bye")
       \/ /\ replies[w] = WriteCap /\ Writable(w)
          /\ replies' = [replies EXCEPT ![w] = 1]
          /\ At(w, IF handler[w] = "reply" THEN "read" ELSE "bye")
       \/ /\ replies[w] = WriteCap /\ Broken(w)
          /\ At(w, "bye") /\ UNCHANGED replies
    /\ UNCHANGED <<vars, client, sent, recv, parsed, procVars>>

\* The deferred flush, conn.Close and connWG.Done; nothing of the connection remains.
Return(w) ==
    /\ handler[w] = "bye"
    /\ replies[w] = 0 \/ Writable(w) \/ Broken(w)
    /\ At(w, "done")
    /\ client' = [client EXCEPT ![w] = "gone"]
    /\ sent' = [sent EXCEPT ![w] = 0]
    /\ recv' = [recv EXCEPT ![w] = 0]
    /\ parsed' = [parsed EXCEPT ![w] = 0]
    /\ replies' = [replies EXCEPT ![w] = 0]
    /\ UNCHANGED <<vars, procVars>>

Dispatch(w) == DispatchWrite(w) \/ DispatchRewrite(w) \/ DispatchOther(w)
HandleConn(w) == FlushReplies(w) \/ Receive(w) \/ Dispatch(w) \/ Work(w) \/ Answer(w) \/ Return(w)

-----------------------------------------------------------------------------
(***************************************************************************)
(* main, and RunSyncLoop under its context.                                *)
(***************************************************************************)
Finished == \A w \in Writers : ~Connected(w)

\* A signal cancels the context and closes the listener; Serve returns.
Shutdown ==
    /\ main = "serve"
    /\ main' = "drain"
    /\ UNCHANGED <<vars, connVars, lastSync>>

\* Drain's timeout: every connection still open is closed.
DrainTimeout ==
    /\ main = "drain" /\ ~Finished
    /\ main' = "forced"
    /\ UNCHANGED <<vars, connVars, lastSync>>

\* Drain returns when every handler has.
Drained ==
    /\ main \in {"drain", "forced"}
    /\ Finished
    /\ main' = "background"
    /\ UNCHANGED <<vars, connVars, lastSync>>

\* Mutant: main does not wait for a rewrite.
WaitBackground_skipped ==
    /\ main = "background"
    /\ main' = "close"
    /\ UNCHANGED <<vars, connVars, lastSync>>

WaitBackground ==
    /\ main = "background"
    /\ rpc = "idle"
    /\ main' = "close"
    /\ UNCHANGED <<vars, connVars, lastSync>>

\* The deferred Log.Close, and the end of the process.
CloseLog ==
    /\ main = "close"
    /\ Close \/ CloseFails
    /\ main' = "exit"
    /\ UNCHANGED <<connVars, lastSync>>

\* Accept fails for good (no file descriptor is left): Serve returns the error, and
\* log.Fatalf ends the process without running main's deferred calls.
ServeFails ==
    /\ main = "serve"
    /\ ProcessCrash
    /\ main' = "exit"
    /\ handler' = [w \in Writers |-> "done"]
    /\ UNCHANGED <<client, sent, recv, parsed, replies, lastSync>>

\* The timer's syncs, until the cancellation is noticed; then one more.
SyncLoop ==
    /\ Sync(Syncer)
    /\ IF pc[Syncer] = "idle" THEN ~lastSync /\ lastSync' \in {FALSE, main # "serve"}
                              ELSE UNCHANGED lastSync
    /\ UNCHANGED <<connVars, main>>

RewriteLoop == RewriteStep /\ UNCHANGED <<connVars, procVars>>

Main == DrainTimeout \/ Drained \/ WaitBackground \/ CloseLog

ServerNext ==
    \/ \E w \in Writers : Send(w) \/ Quit(w) \/ Accept(w) \/ HandleConn(w)
    \/ SyncLoop \/ RewriteLoop
    \/ Shutdown \/ Main \/ ServeFails

ServerSpec == ServerInit /\ [][ServerNext]_allVars

\* Goroutines are scheduled, mutexes do not starve a waiter, the ticker and Drain's
\* timer fire.  Clients owe nothing: they may fall silent, stop reading or leave.
ServerFairSpec ==
    /\ ServerSpec
    /\ \A w \in Writers : SF_allVars(HandleConn(w))
    /\ SF_allVars(SyncLoop)
    /\ SF_allVars(RewriteLoop)
    /\ SF_allVars(Main)

-----------------------------------------------------------------------------
(***************************************************************************)
(* Properties.                                                             *)
(***************************************************************************)

\* When main closes the log, no handler and no rewrite is left to write to it: what
\* AOFLog's Close takes for granted is what Drain and WaitBackground bring about.
QuietAtClose ==
    main = "close" =>
        /\ \A w \in Writers : pc[w] = "idle"
        /\ gate = Nobody /\ rpc = "idle" /\ ~rewriting

\* A signal leads to the end of the process, whatever the clients do: also with
\* a client that never reads its replies, never closes, or has sent half a command.
ShutdownEnds == main = "drain" ~> main = "exit"

Owed(w) == sent[w] \div 2 > parsed[w] \/ handler[w] \in {"cmd", "reply"} \/ replies[w] > 0

\* A client that reads its replies gets one for every whole command it has sent, also
\* when it waits for it with the next command half sent, unless it has broken the
\* protocol or the server is going down.
Answered ==
    \A w \in Writers :
        Owed(w) ~> \/ ~Owed(w)
                   \/ client[w] # "talk"
                   \/ handler[w] \in {"bye", "done"}
                   \/ main # "serve"
=============================================================================
