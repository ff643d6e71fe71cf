----------------------------- MODULE LocalRestart -----------------------------
(***************************************************************************)
(* Stopping and starting this server's own OCR processor                   *)
(* (crates/bunko-server/src/ocr/control.rs): restart_local, start_local,   *)
(* start_local_if_stopped and the task start_local spawns to forward one   *)
(* processor's events to the scheduler.                                    *)
(*                                                                         *)
(* The scheduler is its mailbox (a FIFO channel with many senders) and the *)
(* machine registered as "local".  A processor instance n runs until its   *)
(* scheduler link is dropped or it ends by itself; its forwarder then      *)
(* sends Drop, unless a restart has moved the generation on.  The test of  *)
(* the generation and the send are two steps of the forwarder.             *)
(***************************************************************************)
EXTENDS Integers, Sequences

CONSTANTS
    MaxStarts,      \* bound: processor instances started
    MaxRestarts     \* bound: restarts asked for

ASSUME RestartAssumption == MaxStarts \in Nat \ {0} /\ MaxRestarts \in Nat

Instances == 1..MaxStarts

VARIABLES
    queue,       \* the scheduler's mailbox
    registered,  \* the instance behind the machine "local", or 0
    local_gen,   \* bumped by every restart of a running processor
    processor,   \* instance -> "unused", "running" or "ended"
    forwarder,   \* instance -> "none", "forwarding", "ending" (its test said current) or "done"
    fwdGen,      \* instance -> the generation its forwarder loaded
    started,     \* instances started so far
    restart,     \* restart_local, under its lock: "idle", "asked", "answered", "bumped", "waiting" or "starting"
    ifStopped,   \* TRUE: the caller is start_local_if_stopped
    running,     \* the scheduler's answer: machines contains "local"
    asked        \* restarts asked for

restartVars == <<queue, registered, local_gen, processor, forwarder, fwdGen, started,
          restart, ifStopped, running, asked>>

-----------------------------------------------------------------------------
Send(m) == queue' = Append(queue, m)

\* restart_local or start_local_if_stopped takes the lock and asks.
Ask(only) ==
    /\ restart = "idle" /\ asked < MaxRestarts
    /\ asked' = asked + 1
    /\ ifStopped' = only
    /\ Send([kind |-> "ask", by |-> asked + 1])
    /\ restart' = "asked"
    /\ UNCHANGED <<registered, local_gen, processor, forwarder, fwdGen, started, running>>

\* ask gives up after 30 s (or the scheduler stopped), and so does the restart.
GiveUp ==
    /\ restart = "asked"
    /\ restart' = "idle"
    /\ UNCHANGED <<queue, registered, local_gen, processor, forwarder, fwdGen, started, ifStopped,
                   running, asked>>

\* A processor is running: a new generation first.
Bump ==
    /\ restart = "answered" /\ running /\ ~ifStopped
    /\ local_gen' = local_gen + 1
    /\ restart' = "bumped"
    /\ UNCHANGED <<queue, registered, processor, forwarder, fwdGen, started, ifStopped, running, asked>>

\* None is running, so none is dropped; or start_local_if_stopped has nothing to do.
Proceed ==
    /\ restart = "answered" /\ (~running \/ ifStopped)
    /\ restart' = IF running THEN "idle" ELSE "starting"
    /\ UNCHANGED <<queue, registered, local_gen, processor, forwarder, fwdGen, started, ifStopped,
                   running, asked>>

\* Mutant: the old processor is left to end by itself.
DropForgotten ==
    /\ restart = "bumped"
    /\ restart' = "waiting"
    /\ UNCHANGED <<queue, registered, local_gen, processor, forwarder, fwdGen, started, ifStopped,
                   running, asked>>

DropOld ==
    /\ restart = "bumped"
    /\ Send([kind |-> "drop", by |-> 0])
    /\ restart' = "waiting"
    /\ UNCHANGED <<registered, local_gen, processor, forwarder, fwdGen, started, ifStopped, running, asked>>

\* local_finished is awaited, for LOCAL_STOP_WAIT at most.
Waited ==
    /\ restart = "waiting"
    /\ restart' = "starting"
    /\ UNCHANGED <<queue, registered, local_gen, processor, forwarder, fwdGen, started, ifStopped,
                   running, asked>>

LoadedGen == local_gen

\* start_local: LocalUp first, then the forwarder; or the factory fails, or
\* local processing is off.
Start ==
    LET n == started + 1
    IN  /\ restart = "starting" /\ started < MaxStarts
        /\ started' = n
        /\ processor' = [processor EXCEPT ![n] = "running"]
        /\ Send([kind |-> "up", by |-> n])
        /\ forwarder' = [forwarder EXCEPT ![n] = "forwarding"]
        /\ fwdGen' = [fwdGen EXCEPT ![n] = LoadedGen]
        /\ restart' = "idle"
        /\ UNCHANGED <<registered, local_gen, ifStopped, running, asked>>

NotStarted ==
    /\ restart = "starting"
    /\ restart' = "idle"
    /\ UNCHANGED <<queue, registered, local_gen, processor, forwarder, fwdGen, started, ifStopped,
                   running, asked>>

-----------------------------------------------------------------------------
\* The scheduler handles its next message.
Handle ==
    /\ queue # <<>>
    /\ queue' = Tail(queue)
    /\ LET m == Head(queue)
       IN  CASE m.kind = "ask"  -> /\ IF restart = "asked" /\ m.by = asked
                                        THEN running' = (registered # 0) /\ restart' = "answered"
                                        ELSE UNCHANGED <<running, restart>>
                                   /\ UNCHANGED registered
             [] m.kind = "up"   -> registered' = m.by /\ UNCHANGED <<running, restart>>
             [] m.kind = "drop" -> registered' = 0 /\ UNCHANGED <<running, restart>>
    /\ UNCHANGED <<local_gen, processor, forwarder, fwdGen, started, ifStopped, asked>>

\* The instance ends by itself, or because the scheduler dropped its link.
ProcessorEnds(n) ==
    /\ processor[n] = "running"
    /\ processor' = [processor EXCEPT ![n] = "ended"]
    /\ UNCHANGED <<queue, registered, local_gen, forwarder, fwdGen, started, restart, ifStopped,
                   running, asked>>

\* Its LocalUp was handled, and it is no longer the registered one.
LinkDropped(n) == registered # n /\ \A k \in 1..Len(queue) : queue[k] # [kind |-> "up", by |-> n]

\* Mutant: the forwarder ends without a word.
TestNever(n) ==
    /\ forwarder[n] = "forwarding" /\ processor[n] = "ended"
    /\ forwarder' = [forwarder EXCEPT ![n] = "done"]
    /\ UNCHANGED <<queue, registered, local_gen, processor, fwdGen, started, restart, ifStopped,
                   running, asked>>

\* The forwarder saw the last event and tests the generation.
Test(n) ==
    /\ forwarder[n] = "forwarding" /\ processor[n] = "ended"
    /\ forwarder' = [forwarder EXCEPT ![n] = IF fwdGen[n] = local_gen THEN "ending" ELSE "done"]
    /\ UNCHANGED <<queue, registered, local_gen, processor, fwdGen, started, restart, ifStopped,
                   running, asked>>

SendEnded(n) ==
    /\ forwarder[n] = "ending"
    /\ Send([kind |-> "drop", by |-> n])
    /\ forwarder' = [forwarder EXCEPT ![n] = "done"]
    /\ UNCHANGED <<registered, local_gen, processor, fwdGen, started, restart, ifStopped, running, asked>>

-----------------------------------------------------------------------------
\* OcrControl::start starts the first instance when local processing is on: that
\* is a Start from the "starting" step, without the question.
RestartInit ==
    /\ queue = <<>>
    /\ registered = 0 /\ local_gen = 0
    /\ processor = [n \in Instances |-> "unused"]
    /\ forwarder = [n \in Instances |-> "none"]
    /\ fwdGen = [n \in Instances |-> 0]
    /\ started = 0
    /\ restart = "starting" /\ ifStopped = FALSE /\ running = FALSE
    /\ asked = 0

RestartStep == GiveUp \/ Bump \/ Proceed \/ DropOld \/ Waited \/ Start \/ NotStarted

RestartNext ==
    \/ \E only \in BOOLEAN : Ask(only)
    \/ RestartStep
    \/ Handle
    \/ \E n \in Instances : ProcessorEnds(n) \/ Test(n) \/ SendEnded(n)

\* The lock's holder, the scheduler and every forwarder keep going; an
\* instance whose link was dropped ends.
RestartFairness ==
    /\ WF_restartVars(RestartStep) /\ WF_restartVars(Handle)
    /\ \A n \in Instances : /\ WF_restartVars(Test(n)) /\ WF_restartVars(SendEnded(n))
                            /\ WF_restartVars(LinkDropped(n) /\ ProcessorEnds(n))

RestartSpec == RestartInit /\ [][RestartNext]_restartVars /\ RestartFairness

-----------------------------------------------------------------------------
(* Properties *)

Messages == [kind : {"ask", "up", "drop"}, by : Instances \cup 0..MaxRestarts]

\* Mailbox, registration, tasks and generations keep their shapes, and no
\* forwarder waits for a generation that has not begun.
RestartTypeOK ==
    /\ queue \in Seq(Messages)
    /\ registered \in Instances \cup {0}
    /\ local_gen \in 0..MaxRestarts
    /\ processor \in [Instances -> {"unused", "running", "ended"}]
    /\ forwarder \in [Instances -> {"none", "forwarding", "ending", "done"}]
    /\ fwdGen \in [Instances -> 0..local_gen]
    /\ started \in 0..MaxStarts
    /\ restart \in {"idle", "asked", "answered", "bumped", "waiting", "starting"}
    /\ ifStopped \in BOOLEAN /\ running \in BOOLEAN
    /\ asked \in 0..MaxRestarts

\* local_up inserts the machine whether or not one is there; replacing one would
\* orphan its sessions and claims.  The question asked under the lock, and the
\* Drop sent before, see to it that none is there.
UpFindsNone == queue # <<>> /\ Head(queue).kind = "up" => registered = 0

\* A processor that ended does not stay registered: its claims go back, even
\* when a restart moved the generation on before its forwarder could say so.
DeadLocalIsDropped == \A n \in Instances : (registered = n /\ processor[n] = "ended") ~> registered # n

\* restart_local's comment (control.rs:387): "A new generation first: the old
\* processor's "ended" must not drop the new."
OldEndedNeverDropsNew ==
    [][registered # 0 /\ registered' = 0 /\ Head(queue).by # 0 => Head(queue).by = registered]_restartVars

===============================================================================
