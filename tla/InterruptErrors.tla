--------------------------- MODULE InterruptErrors ---------------------------
(***************************************************************************)
(* The interrupt path of one connection of src/sqlitecluster/SQLite.cpp:   *)
(* the time limit set by startTiming() and cleared by resetTiming(), the   *)
(* progress handler the engine calls while a statement runs, and           *)
(* _checkInterruptErrors(), which read() and _writeIdempotent() call after *)
(* every statement to turn what the handler recorded into timeout_error or *)
(* checkpoint_required_error.  The checkpoint thread is the environment:   *)
(* _checkpointThreadBusy is raised and cleared at any moment.  Time is a   *)
(* clock in microseconds that advances one tick at a time.                 *)
(***************************************************************************)
EXTENDS Naturals

CONSTANTS
    MaxTime,        \* bound on the clock (model bound)
    TimeLimits      \* the timeLimitUS values callers pass to startTiming()

ASSUME /\ MaxTime \in Nat \ {0}
       /\ TimeLimits \subseteq Nat \ {0}

VARIABLES
    now,                        \* STimeNow()
    timeoutStart,               \* _timeoutStart
    timeoutLimit,               \* _timeoutLimit (0: no limit)
    timeoutError,               \* _timeoutError
    abandonForCheckpoint,       \* _abandonForCheckpoint
    enableCheckpointInterrupt,  \* _enableCheckpointInterrupt
    checkpointBusy,             \* _sharedData._checkpointThreadBusy > 0
    insideTransaction,          \* _insideTransaction
    autoRolledBack,             \* _autoRolledBack
    txnOpen,                    \* the engine has the transaction open (autocommit off)
    stmt,                       \* "none", "running", "returned" or "interrupted"
    raised                      \* what the last _checkInterruptErrors threw

vars == <<now, timeoutStart, timeoutLimit, timeoutError, abandonForCheckpoint,
          enableCheckpointInterrupt, checkpointBusy, insideTransaction, autoRolledBack,
          txnOpen, stmt, raised>>
timingVars == <<timeoutStart, timeoutLimit, timeoutError>>

Init ==
    /\ now = 0
    /\ timeoutStart = 0 /\ timeoutLimit = 0 /\ timeoutError = 0
    /\ abandonForCheckpoint = FALSE
    /\ enableCheckpointInterrupt = TRUE
    /\ checkpointBusy = FALSE
    /\ insideTransaction = FALSE /\ autoRolledBack = FALSE /\ txnOpen = FALSE
    /\ stmt = "none"
    /\ raised = "none"

-----------------------------------------------------------------------------
(* The environment: the clock and the checkpoint thread                   *)

Tick ==
    /\ now < MaxTime
    /\ now' = now + 1
    /\ UNCHANGED <<timingVars, abandonForCheckpoint, enableCheckpointInterrupt, checkpointBusy,
                   insideTransaction, autoRolledBack, txnOpen, stmt, raised>>

CheckpointBusyChanges ==
    /\ checkpointBusy' = ~checkpointBusy
    /\ UNCHANGED <<now, timingVars, abandonForCheckpoint, enableCheckpointInterrupt,
                   insideTransaction, autoRolledBack, txnOpen, stmt, raised>>

-----------------------------------------------------------------------------
(* Calls made between statements                                           *)

\* startTiming(timeLimitUS).
StartTiming(limit) ==
    /\ stmt = "none"
    /\ timeoutStart' = now
    /\ timeoutLimit' = now + limit
    /\ timeoutError' = 0
    /\ UNCHANGED <<now, abandonForCheckpoint, enableCheckpointInterrupt, checkpointBusy,
                   insideTransaction, autoRolledBack, txnOpen, stmt, raised>>

\* resetTiming().
ResetTiming ==
    /\ stmt = "none"
    /\ timeoutLimit' = 0 /\ timeoutStart' = 0 /\ timeoutError' = 0
    /\ UNCHANGED <<now, abandonForCheckpoint, enableCheckpointInterrupt, checkpointBusy,
                   insideTransaction, autoRolledBack, txnOpen, stmt, raised>>

\* The setter of _enableCheckpointInterrupt (declared in the header): callers
\* turn the interrupt off for sections that must not be abandoned.
DisableCheckpointInterrupt ==
    /\ stmt = "none"
    /\ enableCheckpointInterrupt' = FALSE
    /\ UNCHANGED <<now, timingVars, abandonForCheckpoint, checkpointBusy,
                   insideTransaction, autoRolledBack, txnOpen, stmt, raised>>

\* beginTransaction(): the interrupt flags are reset before BEGIN CONCURRENT.
BeginTransaction ==
    /\ stmt = "none"
    /\ ~insideTransaction
    /\ abandonForCheckpoint' = FALSE
    /\ autoRolledBack' = FALSE
    /\ insideTransaction' = TRUE
    /\ txnOpen' = TRUE
    /\ UNCHANGED <<now, timingVars, enableCheckpointInterrupt, checkpointBusy, stmt, raised>>

\* commit() or rollback() ends the transaction and sets
\* _enableCheckpointInterrupt back to true.  rollback() sends ROLLBACK unless
\* _autoRolledBack; commit() is possible only on an open transaction.
EndTransaction ==
    /\ stmt = "none"
    /\ insideTransaction
    /\ \/ txnOpen
       \/ autoRolledBack
    /\ insideTransaction' = FALSE
    /\ autoRolledBack' = FALSE
    /\ txnOpen' = FALSE
    /\ enableCheckpointInterrupt' = TRUE
    /\ UNCHANGED <<now, timingVars, abandonForCheckpoint, checkpointBusy, stmt, raised>>

-----------------------------------------------------------------------------
(* One statement: read() or _writeIdempotent()                             *)

RunStatement ==
    /\ stmt = "none"
    /\ stmt' = "running"
    /\ UNCHANGED <<now, timingVars, abandonForCheckpoint, enableCheckpointInterrupt,
                   checkpointBusy, insideTransaction, autoRolledBack, txnOpen, raised>>

\* Mutant: the progress handler subtracts in the wrong order.
ProgressHandler_SwappedElapsed ==
    /\ stmt = "running"
    /\ \/ /\ timeoutLimit # 0 /\ now > timeoutLimit
          /\ timeoutError' = timeoutStart - now
          /\ UNCHANGED abandonForCheckpoint
       \/ /\ ~(timeoutLimit # 0 /\ now > timeoutLimit)
          /\ checkpointBusy /\ enableCheckpointInterrupt
          /\ abandonForCheckpoint' = TRUE
          /\ UNCHANGED timeoutError
    /\ stmt' = "interrupted"
    /\ txnOpen' \in {txnOpen, FALSE}
    /\ UNCHANGED <<now, timeoutStart, timeoutLimit, enableCheckpointInterrupt, checkpointBusy,
                   insideTransaction, autoRolledBack, raised>>

\* _progressHandlerCallback(): past the time limit, record the elapsed time
\* and interrupt; otherwise, while the checkpoint thread is busy and the
\* interrupt is enabled, set _abandonForCheckpoint and interrupt.  An
\* interrupted engine may roll the open transaction back itself.
ProgressHandler ==
    /\ stmt = "running"
    /\ \/ /\ timeoutLimit # 0 /\ now > timeoutLimit
          /\ timeoutError' = now - timeoutStart
          /\ UNCHANGED abandonForCheckpoint
       \/ /\ ~(timeoutLimit # 0 /\ now > timeoutLimit)
          /\ checkpointBusy /\ enableCheckpointInterrupt
          /\ abandonForCheckpoint' = TRUE
          /\ UNCHANGED timeoutError
    /\ stmt' = "interrupted"
    /\ txnOpen' \in {txnOpen, FALSE}
    /\ UNCHANGED <<now, timeoutStart, timeoutLimit, enableCheckpointInterrupt, checkpointBusy,
                   insideTransaction, autoRolledBack, raised>>

\* The statement finishes without being interrupted.
StatementReturns ==
    /\ stmt = "running"
    /\ stmt' = "returned"
    /\ UNCHANGED <<now, timingVars, abandonForCheckpoint, enableCheckpointInterrupt,
                   checkpointBusy, insideTransaction, autoRolledBack, txnOpen, raised>>

\* The error code _checkInterruptErrors computes: the timeout branch first
\* (recording the elapsed time when the limit has passed), then
\* _abandonForCheckpoint, which assigns errorCode again.
TimedOut ==
    /\ timeoutLimit # 0
    /\ (IF now > timeoutLimit THEN now - timeoutStart ELSE timeoutError) # 0
ErrorCode == IF abandonForCheckpoint THEN 2 ELSE IF TimedOut THEN 1 ELSE 0
ErrorName == CASE ErrorCode = 1 -> "timeout"
               [] ErrorCode = 2 -> "checkpoint"
               [] OTHER -> "none"

\* The timing after the timeout branch: resetTiming() when it fired.
TimingAfterCheck ==
    IF TimedOut
    THEN timeoutLimit' = 0 /\ timeoutStart' = 0 /\ timeoutError' = 0
    ELSE /\ timeoutError' = IF timeoutLimit # 0 /\ now > timeoutLimit
                            THEN now - timeoutStart ELSE timeoutError
         /\ UNCHANGED <<timeoutStart, timeoutLimit>>

\* Mutant: _autoRolledBack is set without asking the engine for autocommit.
CheckInterruptErrors_NoAutocommitTest ==
    /\ stmt \in {"returned", "interrupted"}
    /\ TimingAfterCheck
    /\ autoRolledBack' = (autoRolledBack \/ (ErrorCode # 0 /\ insideTransaction))
    /\ abandonForCheckpoint' = FALSE
    /\ raised' = ErrorName
    /\ stmt' = "none"
    /\ UNCHANGED <<now, enableCheckpointInterrupt, checkpointBusy, insideTransaction, txnOpen>>

\* _checkInterruptErrors(): after an error inside a transaction whose engine
\* transaction is gone (autocommit on), set _autoRolledBack; reset
\* _abandonForCheckpoint whatever happened; throw the error.
CheckInterruptErrors ==
    /\ stmt \in {"returned", "interrupted"}
    /\ TimingAfterCheck
    /\ autoRolledBack' = (autoRolledBack \/ (ErrorCode # 0 /\ insideTransaction /\ ~txnOpen))
    /\ abandonForCheckpoint' = FALSE
    /\ raised' = ErrorName
    /\ stmt' = "none"
    /\ UNCHANGED <<now, enableCheckpointInterrupt, checkpointBusy, insideTransaction, txnOpen>>

-----------------------------------------------------------------------------
Next ==
    \/ Tick
    \/ CheckpointBusyChanges
    \/ \E limit \in TimeLimits : StartTiming(limit)
    \/ ResetTiming
    \/ DisableCheckpointInterrupt
    \/ BeginTransaction
    \/ EndTransaction
    \/ RunStatement
    \/ ProgressHandler
    \/ StatementReturns
    \/ CheckInterruptErrors

Spec == Init /\ [][Next]_vars

-----------------------------------------------------------------------------
(* Properties                                                              *)

TypeOK ==
    /\ now \in 0..MaxTime
    /\ timeoutStart \in 0..MaxTime
    /\ timeoutLimit \in Nat
    /\ timeoutError \in 0..MaxTime
    /\ {abandonForCheckpoint, enableCheckpointInterrupt, checkpointBusy, insideTransaction,
        autoRolledBack, txnOpen} \subseteq BOOLEAN
    /\ stmt \in {"none", "running", "returned", "interrupted"}
    /\ raised \in {"none", "timeout", "checkpoint"}

\* A step of _checkInterruptErrors.
CheckStep == stmt \in {"returned", "interrupted"} /\ stmt' = "none"

\* Auto-rollback flag (_checkInterruptErrors, rollback): between statements
\* of a transaction, _autoRolledBack is set exactly when the engine no longer
\* has the transaction open, so rollback() skips ROLLBACK only when the
\* engine has already rolled back and never leaves an engine transaction open.
AutoRollbackFlagExact ==
    stmt = "none" /\ insideTransaction => (autoRolledBack <=> ~txnOpen)

\* Timeout beats checkpoint (the comment on _checkInterruptErrors, spec
\* section 4.4): a check made after the time limit has passed throws
\* timeout_error, so that a command cannot be retried on
\* checkpoint_required_error forever without noticing its timeout.
TimeoutReported ==
    [][CheckStep /\ timeoutLimit # 0 /\ now > timeoutLimit => raised' = "timeout"]_vars
=============================================================================
