----------------------------- MODULE CheckQueue -----------------------------
(***************************************************************************)
(* checkqueue.h: the pool of script verification threads.  ConnectBlock is *)
(* the master: it opens a CCheckQueueControl, adds script checks while it  *)
(* walks the block, and then joins the pool until every check is done.     *)
(*                                                                         *)
(* One step is one critical section of the queue's mutex, together with    *)
(* the lock-free execution of the batch that precedes it.  A check is      *)
(* represented by the result it will return.                               *)
(***************************************************************************)
EXTENDS Integers, Sequences, FiniteSets

CONSTANTS Workers,     \* ThreadScriptCheck threads
          Master,      \* the thread running ConnectBlock
          nBatchSize,  \* largest batch a thread takes (128 in main.cpp)
          MaxChecks    \* bound: checks added under one control

ASSUME CheckQueueAssumption ==
  /\ IsFiniteSet(Workers) /\ Master \notin Workers
  /\ nBatchSize \in Nat \ {0}
  /\ MaxChecks \in Nat

Threads == Workers \cup {Master}

VARIABLES queue,    \* results of the checks not yet taken, top at the end
          nIdle, nTotal, nTodo, fAllOk,
          pc,       \* per thread: out, new, wait, woken, exec, unwind, gone
          vChecks,  \* the batch each thread took
          fOk,      \* fAllOk as the thread read it when it took the batch
          control,  \* a CCheckQueueControl exists
          interrupted, \* the master thread was interrupted (once, at shutdown)
          added,    \* results added under the current (or last) control
          fRet      \* what Wait() last returned

vars == <<queue, nIdle, nTotal, nTodo, fAllOk, pc, vChecks, fOk, control,
          interrupted, added, fRet>>

Init ==
  /\ queue = <<>>
  /\ nIdle = 0 /\ nTotal = 0 /\ nTodo = 0 /\ fAllOk = TRUE
  /\ pc = [t \in Threads |-> IF t = Master THEN "out" ELSE "new"]
  /\ vChecks = [t \in Threads |-> <<>>]
  /\ fOk = [t \in Threads |-> TRUE]
  /\ control = FALSE /\ interrupted = FALSE
  /\ added = <<>>
  /\ fRet = TRUE

AllTrue(results) == \A i \in DOMAIN results : results[i]

\* nNow = max(1, min(nBatchSize, queue.size() / (nTotal + nIdle + 1)))
BatchLen(total, idle) ==
  LET share == Len(queue) \div (total + idle + 1)
  IN  CASE share < 1 -> 1
        [] share > nBatchSize -> nBatchSize
        [] OTHER -> share

\* Nothing to take: nIdle++ and block on the condition variable.
Park(t, p, todo, ok, total, idle) ==
  /\ pc' = [p EXCEPT ![t] = "wait"]
  /\ nIdle' = idle + 1
  /\ nTodo' = todo /\ fAllOk' = ok /\ nTotal' = total
  /\ vChecks' = [vChecks EXCEPT ![t] = <<>>]
  /\ UNCHANGED <<queue, fOk, control, fRet>>

\* Swap nNow jobs from the back of the queue into the local batch.
Take(t, p, todo, ok, total, idle) ==
  LET nNow == BatchLen(total, idle) IN
  /\ vChecks' = [vChecks EXCEPT ![t] = SubSeq(queue, Len(queue) - nNow + 1, Len(queue))]
  /\ queue' = SubSeq(queue, 1, Len(queue) - nNow)
  /\ fOk' = [fOk EXCEPT ![t] = ok]
  /\ pc' = [p EXCEPT ![t] = "exec"]
  /\ nTodo' = todo /\ fAllOk' = ok /\ nTotal' = total /\ nIdle' = idle
  /\ UNCHANGED <<control, fRet>>

\* Mutant: the result is not reset for the next block.
Return_NoReset(t, p, todo, ok, total, idle) ==
  /\ pc' = [p EXCEPT ![t] = "out"]
  /\ fRet' = ok
  /\ fAllOk' = ok
  /\ control' = FALSE
  /\ nTotal' = total - 1 /\ nTodo' = todo /\ nIdle' = idle
  /\ vChecks' = [vChecks EXCEPT ![t] = <<>>]
  /\ UNCHANGED <<queue, fOk>>

\* The master leaves with the verdict and resets it for the next block.
Return(t, p, todo, ok, total, idle) ==
  /\ pc' = [p EXCEPT ![t] = "out"]
  /\ fRet' = ok
  /\ fAllOk' = TRUE
  /\ control' = FALSE
  /\ nTotal' = total - 1 /\ nTodo' = todo /\ nIdle' = idle
  /\ vChecks' = [vChecks EXCEPT ![t] = <<>>]
  /\ UNCHANGED <<queue, fOk>>

\* Mutant: the master leaves as soon as the queue is empty.
LoopBody_EarlyExit(t, p, todo, ok, total, idle) ==
  \/ queue # <<>> /\ Take(t, p, todo, ok, total, idle)
  \/ queue = <<>> /\ t = Master /\ Return(t, p, todo, ok, total, idle)
  \/ queue = <<>> /\ t # Master /\ Park(t, p, todo, ok, total, idle)

\* Loop() from "logically, the do loop starts here", with the lock held.
\* fQuit is never set, so a worker never returns.
LoopBody(t, p, todo, ok, total, idle) ==
  \/ queue # <<>> /\ Take(t, p, todo, ok, total, idle)
  \/ queue = <<>> /\ t = Master /\ todo = 0 /\ Return(t, p, todo, ok, total, idle)
  \/ queue = <<>> /\ ~(t = Master /\ todo = 0) /\ Park(t, p, todo, ok, total, idle)

\* A script check thread enters Loop(): first iteration, nTotal++.
StartWorker(w) ==
  /\ pc[w] = "new"
  /\ LoopBody(w, pc, nTodo, fAllOk, nTotal + 1, nIdle)
  /\ UNCHANGED <<added, interrupted>>

IsIdle == nTotal = nIdle /\ nTodo = 0 /\ fAllOk

\* CCheckQueueControl(pqueue), which asserts IsIdle().
OpenControl ==
  /\ pc[Master] = "out" /\ ~control
  /\ IsIdle
  /\ control' = TRUE
  /\ added' = <<>>
  /\ UNCHANGED <<queue, nIdle, nTotal, nTodo, fAllOk, pc, vChecks, fOk,
                 interrupted, fRet>>

\* condWorker.notify_one / notify_all: the threads that become runnable.
Notified(n) ==
  LET waiting == {w \in Workers : pc[w] = "wait"} IN
  CASE n = 0 -> {{}}
    [] n = 1 -> IF waiting = {} THEN {{}} ELSE {{w} : w \in waiting}
    [] n > 1 -> {waiting}

\* control.Add(vChecks) for one transaction.
Add(results) ==
  /\ pc[Master] = "out" /\ control
  /\ Len(added) + Len(results) =< MaxChecks
  /\ queue' = queue \o results
  /\ added' = added \o results
  /\ nTodo' = nTodo + Len(results)
  /\ \E woken \in Notified(Len(results)) :
       pc' = [t \in Threads |-> IF t \in woken THEN "woken" ELSE pc[t]]
  /\ UNCHANGED <<nIdle, nTotal, fAllOk, vChecks, fOk, control, interrupted, fRet>>

\* control.Wait(), or ~CCheckQueueControl after an early return.
Wait ==
  /\ pc[Master] = "out" /\ control
  /\ LoopBody(Master, pc, nTodo, fAllOk, nTotal + 1, nIdle)
  /\ UNCHANGED <<added, interrupted>>

\* Mutant: the thread that finishes the last batch does not tell the master.
Finish_Silent(t) ==
  /\ pc[t] = "exec"
  /\ LoopBody(t, pc, nTodo - Len(vChecks[t]), fAllOk /\ fOk[t] /\ AllTrue(vChecks[t]), nTotal, nIdle)
  /\ UNCHANGED <<added, interrupted>>

\* Mutant: the verdict of the last batch replaces the earlier ones.
Finish_LastBatchWins(t) ==
  LET ok   == AllTrue(vChecks[t])
      todo == nTodo - Len(vChecks[t])
      p    == IF todo = 0 /\ t # Master /\ pc[Master] = "wait"
              THEN [pc EXCEPT ![Master] = "woken"]
              ELSE pc
  IN  /\ pc[t] = "exec"
      /\ LoopBody(t, p, todo, ok, nTotal, nIdle)
      /\ UNCHANGED <<added, interrupted>>

\* Execute the batch, then clean up under the lock and look for more work.
\* Checks after a known failure are skipped.
Finish(t) ==
  LET ok   == fAllOk /\ fOk[t] /\ AllTrue(vChecks[t])
      todo == nTodo - Len(vChecks[t])
      p    == IF todo = 0 /\ t # Master /\ pc[Master] = "wait"
              THEN [pc EXCEPT ![Master] = "woken"]
              ELSE pc
  IN  /\ pc[t] = "exec"
      /\ LoopBody(t, p, todo, ok, nTotal, nIdle)
      /\ UNCHANGED <<added, interrupted>>

\* Mutant: a thread that wakes up stays counted as idle.
Resume_StaysIdle(t) ==
  /\ pc[t] = "woken"
  /\ LoopBody(t, pc, nTodo, fAllOk, nTotal, nIdle)
  /\ UNCHANGED <<added, interrupted>>

\* cond.wait returned and the lock is held again: nIdle--.
Resume(t) ==
  /\ pc[t] = "woken"
  /\ LoopBody(t, pc, nTodo, fAllOk, nTotal, nIdle - 1)
  /\ UNCHANGED <<added, interrupted>>

\* Condition variables may wake up without a notification.
SpuriousWakeup(t) ==
  /\ pc[t] = "wait"
  /\ pc' = [pc EXCEPT ![t] = "woken"]
  /\ UNCHANGED <<queue, nIdle, nTotal, nTodo, fAllOk, vChecks, fOk, control,
                 added, interrupted, fRet>>

\* threadGroup.interrupt_all() at shutdown: cond.wait throws, the worker dies
\* and neither counter is adjusted.
Interrupt(w) ==
  /\ pc[w] \in {"wait", "woken"}
  /\ pc' = [pc EXCEPT ![w] = "gone"]
  /\ UNCHANGED <<queue, nIdle, nTotal, nTodo, fAllOk, vChecks, fOk, control,
                 added, interrupted, fRet>>

\* The same for a master of the thread group (import, staking): Wait() throws
\* and nIdle and nTotal keep counting the abandoned call.
InterruptMaster ==
  /\ pc[Master] \in {"wait", "woken"} /\ ~interrupted
  /\ pc' = [pc EXCEPT ![Master] = "unwind"]
  /\ interrupted' = TRUE
  /\ UNCHANGED <<queue, nIdle, nTotal, nTodo, fAllOk, vChecks, fOk, control, added, fRet>>

\* ~CCheckQueueControl during stack unwinding: fDone is not set, Wait() again.
DestroyControl ==
  /\ pc[Master] = "unwind"
  /\ LoopBody(Master, pc, nTodo, fAllOk, nTotal + 1, nIdle)
  /\ UNCHANGED <<added, interrupted>>

\* The checks of one transaction: one per input.
Batches == {<<>>, <<TRUE>>, <<FALSE>>, <<TRUE, TRUE>>, <<FALSE, TRUE>>, <<TRUE, FALSE>>}

Next ==
  \/ \E w \in Workers : StartWorker(w)
  \/ OpenControl
  \/ \E results \in Batches : Add(results)
  \/ Wait
  \/ \E t \in Threads : Finish(t)
  \/ \E t \in Threads : Resume(t)
  \/ \E t \in Threads : SpuriousWakeup(t)
  \/ \E w \in Workers : Interrupt(w)
  \/ InterruptMaster
  \/ DestroyControl

\* The scheduler runs every runnable thread, script checks terminate, and
\* ConnectBlock reaches Wait() or the destructor of its control.
Fairness ==
  /\ \A t \in Threads : WF_vars(Finish(t)) /\ WF_vars(Resume(t))
  /\ WF_vars(Wait) /\ WF_vars(DestroyControl)

Spec == Init /\ [][Next]_vars /\ Fairness

-----------------------------------------------------------------------------
(* Properties.                                                             *)

\* Every variable has its type.  nTodo is an unsigned int in the code and
\* never goes below zero.
TypeOK ==
  /\ queue \in Seq(BOOLEAN)
  /\ nIdle \in Nat /\ nTotal \in Nat /\ nTodo \in Nat
  /\ fAllOk \in BOOLEAN /\ control \in BOOLEAN /\ interrupted \in BOOLEAN /\ fRet \in BOOLEAN
  /\ pc \in [Threads -> {"out", "new", "wait", "woken", "exec", "unwind", "gone"}]
  /\ vChecks \in [Threads -> Seq(BOOLEAN)]
  /\ fOk \in [Threads -> BOOLEAN]
  /\ added \in Seq(BOOLEAN)

\* ConnectBlock's verdict: Wait() returned TRUE exactly when every script
\* check added under the control is successful, whoever executed it and
\* whatever was skipped after a failure.
VerdictExact == ~control => fRet = AllTrue(added)

\* When the control is gone no thread holds or will run a check of the block:
\* checks point into the block and its precomTxData, which are freed next.
ChecksDoNotOutliveControl ==
  ~control => queue = <<>> /\ \A t \in Threads : vChecks[t] = <<>>

\* The assertion of CCheckQueueControl: between blocks the queue is idle,
\* although workers may still be on their way back to the condition variable.
IdleBetweenBlocks == ~control => IsIdle

\* nTotal - nIdle is the number of threads that execute a batch, on which the
\* batch length and IsIdle() rely.
IdleAccounting ==
  nTotal - nIdle = Cardinality({t \in Threads : pc[t] = "exec"})

\* The master always gets its verdict, with spurious wakeups and even when
\* threads are interrupted while they wait: what the workers left in the queue
\* the master runs itself.
MasterReturns == control ~> ~control
=============================================================================
