---- MODULE ServerThreadsProofs ----
(***************************************************************************)
(* Proofs about ServerThreads, for any number of worker threads, calls and *)
(* kinds of call.                                                          *)
(***************************************************************************)
EXTENDS ServerThreads, SequenceTheorems, TLAPS

\* A call is recorded at the end of calls.
LEMMA CallAppended ==
  ASSUME calls \in Seq(Call), NEW c \in Call
  PROVE  LET new == Append(calls, c) IN
         /\ new \in Seq(Call)
         /\ Len(new) = Len(calls) + 1
         /\ Len(calls) \in Nat
         /\ DOMAIN new = 1..(Len(calls) + 1)
         /\ DOMAIN calls = 1..Len(calls)
         /\ new[Len(calls) + 1] = c
         /\ \A n \in DOMAIN calls : new[n] = calls[n]
<1>1. Len(calls) \in Nat /\ DOMAIN calls = 1..Len(calls)
  BY LenProperties
<1>2. /\ Append(calls, c) \in Seq(Call)
      /\ Len(Append(calls, c)) = Len(calls) + 1
      /\ Append(calls, c)[Len(calls) + 1] = c
      /\ \A n \in 1..Len(calls) : Append(calls, c)[n] = calls[n]
  BY AppendProperties
<1>3. DOMAIN Append(calls, c) = 1..(Len(calls) + 1)
  BY <1>2, LenProperties
<1> QED
  BY <1>1, <1>2, <1>3

\* A field of one call is set.
LEMMA CallUpdated ==
  ASSUME calls \in Seq(Call), NEW n \in DOMAIN calls, NEW c \in Call
  PROVE  LET new == [calls EXCEPT ![n] = c] IN
         /\ new \in Seq(Call)
         /\ Len(new) = Len(calls)
         /\ DOMAIN new = DOMAIN calls
         /\ new[n] = c
         /\ \A m \in DOMAIN calls : m # n => new[m] = calls[m]
<1>1. Len(calls) \in Nat /\ DOMAIN calls = 1..Len(calls)
  BY LenProperties
<1>2. [calls EXCEPT ![n] = c] \in Seq(Call) /\ Len([calls EXCEPT ![n] = c]) = Len(calls)
  BY <1>1, ExceptSeq
<1> QED
  BY <1>1, <1>2

\* The call of a worker that has one.
LEMMA CallOfWorker ==
  ASSUME TypeOK, CallInv, NEW t \in Worker, pc[t] # "idle"
  PROVE  /\ call[t] \in DOMAIN calls
         /\ calls[call[t]] \in Call
         /\ Len(calls) \in Nat
<1>1. calls \in Seq(Call) /\ call[t] \in 0..Len(calls) /\ call[t] # 0
  BY DEF TypeOK, CallInv, Thread
<1>2. Len(calls) \in Nat /\ DOMAIN calls = 1..Len(calls)
  BY <1>1, LenProperties
<1> QED
  BY <1>1, <1>2, ElementOfSeq

----------------------------------------------------------------------------
(* The initial states. *)

\* The inductive invariant holds initially.
THEOREM InitHolds == Init => IInv
<1> SUFFICES ASSUME Init PROVE IInv
  OBVIOUS
<1>1. calls \in Seq(Call) /\ Len(calls) = 0 /\ DOMAIN calls = {}
  BY EmptySeq DEF Init
<1>2. \A t \in Thread : pc[t] \in {"idle", "test", "done"}
  BY DEF Init
<1>3. TypeOK
  <2>1. pc \in [Thread -> {"idle", "enter", "body", "test", "await", "retest", "look", "import",
                           "load", "encode", "statements", "trace", "done", "hung"}]
    BY DEF Init
  <2>2. call \in [Thread -> 0..Len(calls)]
    BY <1>1 DEF Init
  <2>3. outcome \in [Thread -> Results \union {"pending"}]
    BY DEF Init
  <2>4. loads \in Nat /\ model \in BOOLEAN /\ offline \in {"unset", "0", "1"} /\ inTime \in BOOLEAN
    BY DEF Init
  <2> QED
    BY <1>1, <2>1, <2>2, <2>3, <2>4 DEF Init, TypeOK
<1>4. LockInv /\ CallInv
  BY ThreadAssumption DEF Init, LockInv, CallInv, InBody, Thread
<1>5. ModelInv /\ HubInv
  BY <1>2 DEF Init, ModelInv, HubInv
<1>6. AnswerInv
  BY <1>1 DEF Init, AnswerInv, AnswersTell, Thread
<1> QED
  BY <1>3, <1>4, <1>5, <1>6 DEF IInv

----------------------------------------------------------------------------
(* Locks: an owner is where the code holds its lock. *)

\* Every step keeps each lock with the thread that has entered it.
THEOREM LockStep == TypeOK /\ LockInv /\ [Next]_vars => LockInv'
<1> SUFFICES ASSUME TypeOK, LockInv, [Next]_vars PROVE LockInv'
  OBVIOUS
<1> USE ThreadAssumption
<1>1. ASSUME NEW t \in Worker, Receive(t) PROVE LockInv'
  <2>1. At(t, "idle") /\ Goto(t, "enter") /\ UNCHANGED locks
    BY <1>1 DEF Receive
  <2> QED
    BY <2>1 DEF At, Goto, LockInv, InBody, TypeOK, locks, Thread
<1>2. ASSUME NEW t \in Worker, Enter(t) PROVE LockInv'
  BY <1>2 DEF Enter, At, Goto, LockInv, InBody, TypeOK, locks, disk, Thread
<1>3. ASSUME NEW t \in Worker, Refuse(t) PROVE LockInv'
  BY <1>3 DEF Refuse, Leave, At, Goto, LockInv, InBody, TypeOK, locks, disk, Thread
<1>4. ASSUME NEW t \in Worker, Scan(t) PROVE LockInv'
  <2>1. At(t, "body") /\ UNCHANGED modelLock
    BY <1>4 DEF Scan
  <2>2. CASE Goto(t, "test") /\ UNCHANGED serverLock
    BY <2>1, <2>2 DEF At, Goto, LockInv, InBody, TypeOK, Thread
  <2>3. CASE Goto(t, "trace") /\ serverLock' = NoThread
    BY <2>1, <2>3 DEF At, Goto, LockInv, InBody, TypeOK, Thread
  <2> QED
    BY <1>4, <2>2, <2>3 DEF Scan, Leave
<1>5. ASSUME NEW t \in Worker, Prepare(t) PROVE LockInv'
  <2>1. At(t, "body") /\ UNCHANGED locks
    BY <1>5 DEF Prepare
  <2>2. PICK label \in {"test", "statements"} : Goto(t, label)
    BY <1>5 DEF Prepare
  <2> QED
    BY <2>1, <2>2 DEF At, Goto, LockInv, InBody, TypeOK, locks, Thread
<1>6. ASSUME NEW t \in Worker, StatementFails(t) PROVE LockInv'
  <2>1. /\ pc[t] \in {"body", "statements"} /\ UNCHANGED modelLock
        /\ Goto(t, "trace") /\ serverLock' = NoThread
    BY <1>6 DEF StatementFails, Leave
  <2> QED
    BY <2>1 DEF Goto, LockInv, InBody, TypeOK, Thread
<1>7. ASSUME NEW t \in Worker, Statements(t) PROVE LockInv'
  BY <1>7 DEF Statements, Leave, At, Goto, LockInv, InBody, TypeOK, locks, disk, Thread
<1>8. ASSUME NEW t \in Worker, Reply(t) PROVE LockInv'
  BY <1>8 DEF Reply, Answer, At, Goto, LockInv, InBody, TypeOK, locks, disk, Thread
<1>9. ASSUME NEW t \in Worker, TraceFails(t) PROVE LockInv'
  BY <1>9 DEF TraceFails, Answer, At, Goto, LockInv, InBody, TypeOK, locks, disk, Thread
<1>10. ASSUME NEW t \in Thread, Test(t) PROVE LockInv'
  BY <1>10 DEF Test, At, Goto, LockInv, InBody, TypeOK, locks, disk, Thread
<1>11. ASSUME NEW t \in Thread, Await(t) PROVE LockInv'
  BY <1>11 DEF Await, At, Goto, LockInv, InBody, TypeOK, locks, disk, Thread
<1>12. ASSUME NEW t \in Thread, Retest(t) PROVE LockInv'
  BY <1>12 DEF Retest, At, Goto, LockInv, InBody, TypeOK, locks, disk, Thread
<1>13. ASSUME NEW t \in Thread, Look(t) PROVE LockInv'
  BY <1>13 DEF Look, At, Goto, LockInv, InBody, TypeOK, locks, disk, Thread
<1>14. ASSUME NEW t \in Thread, Import(t) PROVE LockInv'
  BY <1>14 DEF Import, At, Goto, LockInv, InBody, TypeOK, locks, disk, Thread
<1>15. ASSUME NEW t \in Thread, Load(t) PROVE LockInv'
  BY <1>15 DEF Load, At, Goto, LockInv, InBody, TypeOK, locks, disk, Thread
<1>16. ASSUME NEW t \in Thread, LoadFails(t) PROVE LockInv'
  BY <1>16 DEF LoadFails, Raise, Leave, At, Goto, LockInv, InBody, TypeOK, locks, disk, Thread
<1>17. ASSUME NEW t \in Thread, ImportFails(t) PROVE LockInv'
  BY <1>17 DEF ImportFails, Raise, Leave, At, Goto, LockInv, InBody, TypeOK, locks, disk, Thread
<1>18. ASSUME NEW t \in Thread, Encode(t) PROVE LockInv'
  BY <1>18 DEF Encode, At, Goto, LockInv, InBody, TypeOK, locks, disk, Thread
<1>19. ASSUME NEW t \in Thread, EncodeFails(t) PROVE LockInv'
  <2>1. At(t, "encode") /\ UNCHANGED modelLock
    BY <1>19 DEF EncodeFails
  <2>2. CASE t \in Worker
    <3>1. Goto(t, "trace") /\ serverLock' = NoThread
      BY <1>19, <2>2 DEF EncodeFails, Raise, Leave
    <3> QED
      BY <2>1, <2>2, <3>1 DEF At, Goto, LockInv, InBody, TypeOK, Thread
  <2>3. CASE t \notin Worker
    <3>1. Goto(t, "done") /\ UNCHANGED serverLock
      BY <1>19, <2>3 DEF EncodeFails, Raise
    <3> QED
      BY <2>1, <2>3, <3>1 DEF At, Goto, LockInv, InBody, TypeOK, Thread
  <2> QED
    BY <2>2, <2>3
<1>20. ASSUME NEW t \in Thread, LoadHangs(t) PROVE LockInv'
  BY <1>20 DEF LoadHangs, At, Goto, LockInv, InBody, TypeOK, locks, disk, Thread
<1>21. CASE OtherDownload
  BY <1>21 DEF OtherDownload, At, Goto, LockInv, InBody, TypeOK, locks, disk, Thread
<1>22. CASE Rest
  BY <1>22 DEF Rest, At, Goto, LockInv, InBody, TypeOK, locks, disk, Thread, vars
<1>23. CASE UNCHANGED vars
  BY <1>23 DEF vars, At, Goto, LockInv, InBody, TypeOK, locks, disk, Thread
<1>24. ASSUME NEW t \in Worker, HistoryFails(t) PROVE LockInv'
  BY <1>24 DEF HistoryFails, Leave, At, Goto, LockInv, InBody, TypeOK, locks, disk, Thread
<1> QED
  BY <1>1, <1>2, <1>3, <1>4, <1>5, <1>6, <1>7, <1>8, <1>9, <1>10, <1>11, <1>12, <1>13, <1>14, <1>15, <1>16, <1>17, <1>18, <1>19, <1>20, <1>21, <1>22, <1>23, <1>24 DEF Next, Run, Embed

----------------------------------------------------------------------------
(* The model: constructed once. *)

\* Every step keeps the model constructed at most once, by the thread that found none.
THEOREM ModelStep == TypeOK /\ LockInv /\ ModelInv /\ [Next]_vars => ModelInv'
<1> SUFFICES ASSUME TypeOK, LockInv, ModelInv, [Next]_vars PROVE ModelInv'
  OBVIOUS
<1> USE ThreadAssumption
<1>1. ASSUME NEW t \in Worker, Receive(t) PROVE ModelInv'
  BY <1>1 DEF Receive, At, Goto, LockInv, ModelInv, TypeOK, locks, disk, Thread
<1>2. ASSUME NEW t \in Worker, Enter(t) PROVE ModelInv'
  BY <1>2 DEF Enter, At, Goto, LockInv, ModelInv, TypeOK, locks, disk, Thread
<1>3. ASSUME NEW t \in Worker, Refuse(t) PROVE ModelInv'
  BY <1>3 DEF Refuse, Leave, At, Goto, LockInv, ModelInv, TypeOK, locks, disk, Thread
<1>4. ASSUME NEW t \in Worker, Scan(t) PROVE ModelInv'
  BY <1>4 DEF Scan, Leave, At, Goto, LockInv, ModelInv, TypeOK, locks, disk, Thread
<1>5. ASSUME NEW t \in Worker, Prepare(t) PROVE ModelInv'
  BY <1>5 DEF Prepare, At, Goto, LockInv, ModelInv, TypeOK, locks, disk, Thread
<1>6. ASSUME NEW t \in Worker, StatementFails(t) PROVE ModelInv'
  BY <1>6 DEF StatementFails, Leave, At, Goto, LockInv, ModelInv, TypeOK, locks, disk, Thread
<1>7. ASSUME NEW t \in Worker, Statements(t) PROVE ModelInv'
  BY <1>7 DEF Statements, Leave, At, Goto, LockInv, ModelInv, TypeOK, locks, disk, Thread
<1>8. ASSUME NEW t \in Worker, Reply(t) PROVE ModelInv'
  BY <1>8 DEF Reply, Answer, At, Goto, LockInv, ModelInv, TypeOK, locks, disk, Thread
<1>9. ASSUME NEW t \in Worker, TraceFails(t) PROVE ModelInv'
  BY <1>9 DEF TraceFails, Answer, At, Goto, LockInv, ModelInv, TypeOK, locks, disk, Thread
<1>10. ASSUME NEW t \in Thread, Test(t) PROVE ModelInv'
  BY <1>10 DEF Test, At, Goto, LockInv, ModelInv, TypeOK, locks, disk, Thread
<1>11. ASSUME NEW t \in Thread, Await(t) PROVE ModelInv'
  BY <1>11 DEF Await, At, Goto, LockInv, ModelInv, TypeOK, locks, disk, Thread
<1>12. ASSUME NEW t \in Thread, Retest(t) PROVE ModelInv'
  BY <1>12 DEF Retest, At, Goto, LockInv, ModelInv, TypeOK, locks, disk, Thread
<1>13. ASSUME NEW t \in Thread, Look(t) PROVE ModelInv'
  BY <1>13 DEF Look, At, Goto, LockInv, ModelInv, TypeOK, locks, disk, Thread
<1>14. ASSUME NEW t \in Thread, Import(t) PROVE ModelInv'
  BY <1>14 DEF Import, At, Goto, LockInv, ModelInv, TypeOK, locks, disk, Thread
<1>15. ASSUME NEW t \in Thread, Load(t) PROVE ModelInv'
  BY <1>15 DEF Load, At, Goto, LockInv, ModelInv, TypeOK, locks, disk, Thread
<1>16. ASSUME NEW t \in Thread, LoadFails(t) PROVE ModelInv'
  BY <1>16 DEF LoadFails, Raise, Leave, At, Goto, LockInv, ModelInv, TypeOK, locks, disk, Thread
<1>17. ASSUME NEW t \in Thread, ImportFails(t) PROVE ModelInv'
  BY <1>17 DEF ImportFails, Raise, Leave, At, Goto, LockInv, ModelInv, TypeOK, locks, disk, Thread
<1>18. ASSUME NEW t \in Thread, Encode(t) PROVE ModelInv'
  BY <1>18 DEF Encode, At, Goto, LockInv, ModelInv, TypeOK, locks, disk, Thread
<1>19. ASSUME NEW t \in Thread, EncodeFails(t) PROVE ModelInv'
  BY <1>19 DEF EncodeFails, Raise, Leave, At, Goto, LockInv, ModelInv, TypeOK, locks, disk, Thread
<1>20. ASSUME NEW t \in Thread, LoadHangs(t) PROVE ModelInv'
  BY <1>20 DEF LoadHangs, At, Goto, LockInv, ModelInv, TypeOK, locks, disk, Thread
<1>21. CASE OtherDownload
  BY <1>21 DEF OtherDownload, At, Goto, LockInv, ModelInv, TypeOK, locks, disk, Thread
<1>22. CASE Rest
  BY <1>22 DEF Rest, At, Goto, LockInv, ModelInv, TypeOK, locks, disk, Thread, vars
<1>23. CASE UNCHANGED vars
  BY <1>23 DEF vars, At, Goto, LockInv, ModelInv, TypeOK, locks, disk, Thread
<1>24. ASSUME NEW t \in Worker, HistoryFails(t) PROVE ModelInv'
  BY <1>24 DEF HistoryFails, Leave, At, Goto, LockInv, ModelInv, TypeOK, locks, disk, Thread
<1> QED
  BY <1>1, <1>2, <1>3, <1>4, <1>5, <1>6, <1>7, <1>8, <1>9, <1>10, <1>11, <1>12, <1>13, <1>14, <1>15, <1>16, <1>17, <1>18, <1>19, <1>20, <1>21, <1>22, <1>23, <1>24 DEF Next, Run, Embed

----------------------------------------------------------------------------
(* The cache: what it looked like first decides where models come from. *)

\* Every step keeps the setting of the hub ahead of the libraries that read it.
THEOREM HubStep == TypeOK /\ HubInv /\ [Next]_vars => HubInv'
<1> SUFFICES ASSUME TypeOK, HubInv, [Next]_vars PROVE HubInv'
  OBVIOUS
<1> USE ThreadAssumption
<1>1. ASSUME NEW t \in Worker, Receive(t) PROVE HubInv'
  BY <1>1 DEF Receive, At, Goto, HubInv, TypeOK, locks, disk, Thread, HubRead, Cached, SetDefault
<1>2. ASSUME NEW t \in Worker, Enter(t) PROVE HubInv'
  BY <1>2 DEF Enter, At, Goto, HubInv, TypeOK, locks, disk, Thread, HubRead, Cached, SetDefault
<1>3. ASSUME NEW t \in Worker, Refuse(t) PROVE HubInv'
  BY <1>3 DEF Refuse, Leave, At, Goto, HubInv, TypeOK, locks, disk, Thread, HubRead, Cached, SetDefault
<1>4. ASSUME NEW t \in Worker, Scan(t) PROVE HubInv'
  BY <1>4 DEF Scan, Leave, At, Goto, HubInv, TypeOK, locks, disk, Thread, HubRead, Cached, SetDefault
<1>5. ASSUME NEW t \in Worker, Prepare(t) PROVE HubInv'
  BY <1>5 DEF Prepare, At, Goto, HubInv, TypeOK, locks, disk, Thread, HubRead, Cached, SetDefault
<1>6. ASSUME NEW t \in Worker, StatementFails(t) PROVE HubInv'
  BY <1>6 DEF StatementFails, Leave, At, Goto, HubInv, TypeOK, locks, disk, Thread, HubRead, Cached, SetDefault
<1>7. ASSUME NEW t \in Worker, Statements(t) PROVE HubInv'
  BY <1>7 DEF Statements, Leave, At, Goto, HubInv, TypeOK, locks, disk, Thread, HubRead, Cached, SetDefault
<1>8. ASSUME NEW t \in Worker, Reply(t) PROVE HubInv'
  BY <1>8 DEF Reply, Answer, At, Goto, HubInv, TypeOK, locks, disk, Thread, HubRead, Cached, SetDefault
<1>9. ASSUME NEW t \in Worker, TraceFails(t) PROVE HubInv'
  BY <1>9 DEF TraceFails, Answer, At, Goto, HubInv, TypeOK, locks, disk, Thread, HubRead, Cached, SetDefault
<1>10. ASSUME NEW t \in Thread, Test(t) PROVE HubInv'
  BY <1>10 DEF Test, At, Goto, HubInv, TypeOK, locks, disk, Thread, HubRead, Cached, SetDefault
<1>11. ASSUME NEW t \in Thread, Await(t) PROVE HubInv'
  BY <1>11 DEF Await, At, Goto, HubInv, TypeOK, locks, disk, Thread, HubRead, Cached, SetDefault
<1>12. ASSUME NEW t \in Thread, Retest(t) PROVE HubInv'
  BY <1>12 DEF Retest, At, Goto, HubInv, TypeOK, locks, disk, Thread, HubRead, Cached, SetDefault
<1>13. ASSUME NEW t \in Thread, Look(t) PROVE HubInv'
  BY <1>13 DEF Look, At, Goto, HubInv, TypeOK, locks, disk, Thread, HubRead, Cached, SetDefault
<1>14. ASSUME NEW t \in Thread, Import(t) PROVE HubInv'
  BY <1>14 DEF Import, At, Goto, HubInv, TypeOK, locks, disk, Thread, HubRead, Cached, SetDefault
<1>15. ASSUME NEW t \in Thread, Load(t) PROVE HubInv'
  BY <1>15 DEF Load, At, Goto, HubInv, TypeOK, locks, disk, Thread, HubRead, Cached, SetDefault
<1>16. ASSUME NEW t \in Thread, LoadFails(t) PROVE HubInv'
  BY <1>16 DEF LoadFails, Raise, Leave, At, Goto, HubInv, TypeOK, locks, disk, Thread, HubRead, Cached, SetDefault
<1>17. ASSUME NEW t \in Thread, ImportFails(t) PROVE HubInv'
  BY <1>17 DEF ImportFails, Raise, Leave, At, Goto, HubInv, TypeOK, locks, disk, Thread, HubRead, Cached, SetDefault
<1>18. ASSUME NEW t \in Thread, Encode(t) PROVE HubInv'
  BY <1>18 DEF Encode, At, Goto, HubInv, TypeOK, locks, disk, Thread, HubRead, Cached, SetDefault
<1>19. ASSUME NEW t \in Thread, EncodeFails(t) PROVE HubInv'
  BY <1>19 DEF EncodeFails, Raise, Leave, At, Goto, HubInv, TypeOK, locks, disk, Thread, HubRead, Cached, SetDefault
<1>20. ASSUME NEW t \in Thread, LoadHangs(t) PROVE HubInv'
  BY <1>20 DEF LoadHangs, At, Goto, HubInv, TypeOK, locks, disk, Thread, HubRead, Cached, SetDefault
<1>21. CASE OtherDownload
  BY <1>21 DEF OtherDownload, At, Goto, HubInv, TypeOK, locks, disk, Thread, HubRead, Cached, SetDefault
<1>22. CASE Rest
  BY <1>22 DEF Rest, At, Goto, HubInv, TypeOK, locks, disk, Thread, HubRead, Cached, SetDefault, vars
<1>23. CASE UNCHANGED vars
  BY <1>23 DEF vars, At, Goto, HubInv, TypeOK, locks, disk, Thread, HubRead, Cached, SetDefault
<1>24. ASSUME NEW t \in Worker, HistoryFails(t) PROVE HubInv'
  BY <1>24 DEF HistoryFails, Leave, At, Goto, HubInv, TypeOK, locks, disk, Thread, HubRead, Cached, SetDefault
<1> QED
  BY <1>1, <1>2, <1>3, <1>4, <1>5, <1>6, <1>7, <1>8, <1>9, <1>10, <1>11, <1>12, <1>13, <1>14, <1>15, <1>16, <1>17, <1>18, <1>19, <1>20, <1>21, <1>22, <1>23, <1>24 DEF Next, Run, Embed

----------------------------------------------------------------------------
(* What a step does to the calls: it receives one, ends the body of one,     *)
(* answers one, or changes none.                                             *)

\* The call a thread leaves is its own, and is only marked as done.
LEMMA LeftCalls ==
  ASSUME TypeOK, CallInv, NEW t \in Worker, pc[t] # "idle",
         NEW result \in Results, NEW done \in BOOLEAN, Leave(t, result, done)
  PROVE  /\ call[t] \in DOMAIN calls
         /\ calls' \in Seq(Call) /\ Len(calls') = Len(calls) /\ DOMAIN calls' = DOMAIN calls
         /\ calls'[call[t]].done = done
         /\ calls'[call[t]].answer = calls[call[t]].answer
         /\ calls'[call[t]].tool = calls[call[t]].tool
         /\ \A n \in DOMAIN calls : n # call[t] => calls'[n] = calls[n]
<1> DEFINE c == [calls[call[t]] EXCEPT !.done = done]
<1>1. call[t] \in DOMAIN calls /\ calls[call[t]] \in Call /\ calls \in Seq(Call)
  BY CallOfWorker DEF TypeOK
<1>2. /\ c \in Call /\ c.done = done
      /\ c.answer = calls[call[t]].answer /\ c.tool = calls[call[t]].tool
  BY <1>1 DEF Call
<1>3. calls' = [calls EXCEPT ![call[t]] = c]
  BY DEF Leave
<1> HIDE DEF c
<1> QED
  BY <1>1, <1>2, <1>3, CallUpdated

\* The call that is answered is the thread's own, and it stays done or not.
LEMMA AnsweredCalls ==
  ASSUME TypeOK, CallInv, NEW t \in Worker, pc[t] # "idle",
         NEW answer \in Results, Answer(t, answer)
  PROVE  /\ call[t] \in DOMAIN calls
         /\ calls' \in Seq(Call) /\ Len(calls') = Len(calls) /\ DOMAIN calls' = DOMAIN calls
         /\ calls'[call[t]].done = calls[call[t]].done
         /\ calls'[call[t]].answer = answer
         /\ calls'[call[t]].tool = calls[call[t]].tool
         /\ \A n \in DOMAIN calls : n # call[t] => calls'[n] = calls[n]
<1> DEFINE c == [calls[call[t]] EXCEPT !.answer = answer]
<1>1. call[t] \in DOMAIN calls /\ calls[call[t]] \in Call /\ calls \in Seq(Call)
  BY CallOfWorker DEF TypeOK
<1>2. /\ c \in Call /\ c.done = calls[call[t]].done
      /\ c.answer = answer /\ c.tool = calls[call[t]].tool
  BY <1>1 DEF Call
<1>3. calls' = [calls EXCEPT ![call[t]] = c]
  BY DEF Answer
<1> HIDE DEF c
<1> QED
  BY <1>1, <1>2, <1>3, CallUpdated

\* A call that arrives is the last of calls, not done and not answered.
LEMMA ReceivedCalls ==
  ASSUME TypeOK, NEW t \in Worker, Receive(t)
  PROVE  /\ calls' \in Seq(Call) /\ Len(calls) \in Nat /\ Len(calls') = Len(calls) + 1
         /\ DOMAIN calls = 1..Len(calls) /\ DOMAIN calls' = 1..(Len(calls) + 1)
         /\ ~calls'[Len(calls) + 1].done
         /\ calls'[Len(calls) + 1].answer = "pending"
         /\ \A n \in DOMAIN calls : calls'[n] = calls[n]
<1>1. PICK tool \in Tools :
        calls' = Append(calls, [tool |-> tool, done |-> FALSE, answer |-> "pending"])
  BY DEF Receive
<1> DEFINE c == [tool |-> tool, done |-> FALSE, answer |-> "pending"]
<1>2. c \in Call /\ ~c.done /\ c.answer = "pending"
  BY DEF Call
<1>3. calls \in Seq(Call) /\ calls' = Append(calls, c)
  BY <1>1 DEF TypeOK
<1> HIDE DEF c
<1> QED
  BY <1>2, <1>3, CallAppended

\* The body of a call ends with this result, the database's part done or not.
Ends(t, result, done) ==
  /\ Leave(t, result, done)
  /\ pc[t] \in {"body", "statements", "import", "load", "encode"}
  /\ result = "ok" => done
  /\ result \in {"locked", "error"} /\ done => calls[call[t]].tool = "get"

\* The calls stay as they are, and so does where they stand.
CallsStay ==
  /\ UNCHANGED <<calls, call, outcome>>
  /\ \A t \in Worker : (pc'[t] = "idle" <=> pc[t] = "idle") /\ (pc'[t] = "trace" <=> pc[t] = "trace")

\* One of the four things a step does to the calls.
CallsStep ==
  \/ \E t \in Worker : Receive(t) \/ Reply(t) \/ TraceFails(t)
  \/ \E t \in Worker, result \in Results, done \in BOOLEAN : Ends(t, result, done)
  \/ CallsStay

\* Every step does one of these things to the calls.
LEMMA CallsStepOfNext == TypeOK /\ [Next]_vars => CallsStep
<1> SUFFICES ASSUME TypeOK, [Next]_vars PROVE CallsStep
  OBVIOUS
<1>1. ASSUME NEW t \in Worker, Receive(t) PROVE CallsStep
  BY <1>1 DEF CallsStep
<1>2. ASSUME NEW t \in Worker, Enter(t) PROVE CallsStep
  BY <1>2 DEF Enter, CallsStep, CallsStay, At, Goto, TypeOK, Thread
<1>3. ASSUME NEW t \in Worker, Refuse(t) PROVE CallsStep
  BY <1>3 DEF Refuse, CallsStep, Ends, At, Results
<1>4. ASSUME NEW t \in Worker, Scan(t) PROVE CallsStep
  <2>1. CASE Leave(t, "ok", TRUE)
    BY <1>4, <2>1 DEF Scan, CallsStep, Ends, At, Results
  <2>2. CASE Goto(t, "test") /\ UNCHANGED <<env, calls, call, outcome, serverLock, model, loads>>
    BY <1>4, <2>2 DEF Scan, CallsStep, CallsStay, At, Goto, TypeOK, Thread
  <2> QED
    BY <1>4, <2>1, <2>2 DEF Scan
<1>5. ASSUME NEW t \in Worker, Prepare(t) PROVE CallsStep
  BY <1>5 DEF Prepare, CallsStep, CallsStay, At, Goto, TypeOK, Thread
<1>6. ASSUME NEW t \in Worker, StatementFails(t) PROVE CallsStep
  BY <1>6 DEF StatementFails, CallsStep, Ends, At, Results
<1>7. ASSUME NEW t \in Worker, Statements(t) PROVE CallsStep
  BY <1>7 DEF Statements, CallsStep, Ends, At, Results
<1>8. ASSUME NEW t \in Worker, Reply(t) PROVE CallsStep
  BY <1>8 DEF CallsStep
<1>9. ASSUME NEW t \in Worker, TraceFails(t) PROVE CallsStep
  BY <1>9 DEF CallsStep
<1>10. ASSUME NEW t \in Thread, Test(t) PROVE CallsStep
  BY <1>10 DEF Test, CallsStep, CallsStay, At, Goto, TypeOK, Thread
<1>11. ASSUME NEW t \in Thread, Await(t) PROVE CallsStep
  BY <1>11 DEF Await, CallsStep, CallsStay, At, Goto, TypeOK, Thread
<1>12. ASSUME NEW t \in Thread, Retest(t) PROVE CallsStep
  BY <1>12 DEF Retest, CallsStep, CallsStay, At, Goto, TypeOK, Thread
<1>13. ASSUME NEW t \in Thread, Look(t) PROVE CallsStep
  BY <1>13 DEF Look, CallsStep, CallsStay, At, Goto, TypeOK, Thread
<1>14. ASSUME NEW t \in Thread, Import(t) PROVE CallsStep
  BY <1>14 DEF Import, CallsStep, CallsStay, At, Goto, TypeOK, Thread
<1>15. ASSUME NEW t \in Thread, Load(t) PROVE CallsStep
  BY <1>15 DEF Load, CallsStep, CallsStay, At, Goto, TypeOK, Thread
<1>16. ASSUME NEW t \in Thread, LoadFails(t) PROVE CallsStep
  <2>1. CASE t \in Worker
    BY <1>16, <2>1 DEF LoadFails, Raise, CallsStep, Ends, At, Results
  <2>2. CASE t \notin Worker
    BY <1>16, <2>2 DEF LoadFails, Raise, CallsStep, CallsStay, Goto, TypeOK, Thread
  <2> QED
    BY <2>1, <2>2
<1>17. ASSUME NEW t \in Thread, ImportFails(t) PROVE CallsStep
  <2>1. CASE t \in Worker
    BY <1>17, <2>1 DEF ImportFails, Raise, CallsStep, Ends, At, Results
  <2>2. CASE t \notin Worker
    BY <1>17, <2>2 DEF ImportFails, Raise, CallsStep, CallsStay, Goto, TypeOK, Thread
  <2> QED
    BY <2>1, <2>2
<1>18. ASSUME NEW t \in Thread, Encode(t) PROVE CallsStep
  BY <1>18 DEF Encode, CallsStep, CallsStay, At, Goto, TypeOK, Thread
<1>19. ASSUME NEW t \in Thread, EncodeFails(t) PROVE CallsStep
  <2>1. CASE t \in Worker
    BY <1>19, <2>1 DEF EncodeFails, Raise, CallsStep, Ends, At, Results
  <2>2. CASE t \notin Worker
    BY <1>19, <2>2 DEF EncodeFails, Raise, CallsStep, CallsStay, Goto, TypeOK, Thread
  <2> QED
    BY <2>1, <2>2
<1>20. ASSUME NEW t \in Thread, LoadHangs(t) PROVE CallsStep
  BY <1>20 DEF LoadHangs, CallsStep, CallsStay, At, Goto, TypeOK, Thread
<1>21. CASE OtherDownload
  BY <1>21 DEF OtherDownload, CallsStep, CallsStay
<1>22. CASE Rest
  BY <1>22 DEF Rest, vars, CallsStep, CallsStay
<1>23. CASE UNCHANGED vars
  BY <1>23 DEF vars, CallsStep, CallsStay
<1>24. ASSUME NEW t \in Worker, HistoryFails(t) PROVE CallsStep
  BY <1>24 DEF HistoryFails, CallsStep, Ends, At, Results, Tool
<1> QED
  BY <1>1, <1>2, <1>3, <1>4, <1>5, <1>6, <1>7, <1>8, <1>9, <1>10, <1>11, <1>12, <1>13, <1>14, <1>15, <1>16, <1>17, <1>18, <1>19, <1>20, <1>21, <1>22, <1>23, <1>24 DEF Next, Run, Embed

----------------------------------------------------------------------------
(* Calls belong to workers, and answers are true. *)

\* Every step keeps each call with one worker, until it is answered.
THEOREM CallStep == TypeOK /\ CallInv /\ [Next]_vars => CallInv'
<1> SUFFICES ASSUME TypeOK, CallInv, [Next]_vars PROVE CallInv'
  OBVIOUS
<1> USE ThreadAssumption
<1>1. calls \in Seq(Call) /\ Len(calls) \in Nat
  BY LenProperties DEF TypeOK
<1>2. ASSUME NEW t \in Worker, Receive(t) PROVE CallInv'
  <2>1. /\ call' = [call EXCEPT ![t] = Len(calls) + 1] /\ pc[t] = "idle"
        /\ pc' = [pc EXCEPT ![t] = "enter"]
    BY <1>2 DEF Receive, At, Goto
  <2>2. \A u \in Worker : call[u] \in 0..Len(calls)
    BY DEF TypeOK, Thread
  <2> QED
    BY <1>1, <2>1, <2>2 DEF CallInv, TypeOK, Thread
<1>3. ASSUME NEW t \in Worker, Reply(t) \/ TraceFails(t) PROVE CallInv'
  <2>1. call' = [call EXCEPT ![t] = 0] /\ pc' = [pc EXCEPT ![t] = "idle"]
    BY <1>3 DEF Reply, TraceFails, Answer, Goto
  <2> QED
    BY <2>1 DEF CallInv, TypeOK, Thread
<1>4. ASSUME NEW t \in Worker, NEW result \in Results, NEW done \in BOOLEAN,
             Ends(t, result, done)
      PROVE  CallInv'
  <2>1. call' = call /\ pc' = [pc EXCEPT ![t] = "trace"] /\ pc[t] # "idle"
    BY <1>4 DEF Ends, Leave, Goto
  <2> QED
    BY <2>1 DEF CallInv, TypeOK, Thread
<1>5. CASE CallsStay
  BY <1>5 DEF CallsStay, CallInv
<1> QED
  BY <1>2, <1>3, <1>4, <1>5, CallsStepOfNext DEF CallsStep

\* What is answered is the outcome, or the error of the log.
LEMMA AnswerOf ==
  ASSUME TypeOK, CallInv, AnswerInv, NEW t \in Worker, Reply(t) \/ TraceFails(t)
  PROVE  \E answer \in Results :
           /\ Answer(t, answer) /\ pc[t] = "trace"
           /\ answer = outcome[t] \/ (answer = "error" /\ env.debugLog)
<1>1. pc[t] = "trace" /\ outcome[t] \in Results \union {"pending"}
  BY DEF Reply, TraceFails, At, TypeOK, Thread
<1>2. outcome[t] \in Results
  BY <1>1 DEF AnswerInv, CallInv
<1>3. CASE Reply(t)
  BY <1>1, <1>2, <1>3 DEF Reply
<1>4. CASE TraceFails(t)
  BY <1>1, <1>4 DEF TraceFails, Results
<1> QED
  BY <1>3, <1>4

\* Every step keeps the answers with the calls they answer.
THEOREM AnswerStep == TypeOK /\ CallInv /\ AnswerInv /\ [Next]_vars => AnswerInv'
<1> SUFFICES ASSUME TypeOK, CallInv, AnswerInv, [Next]_vars PROVE AnswerInv'
  OBVIOUS
<1> USE ThreadAssumption
<1>1. ASSUME NEW u \in Worker, call[u] # 0 PROVE call[u] \in DOMAIN calls
  <2>1. pc[u] # "idle"
    BY <1>1 DEF CallInv
  <2> QED
    BY <2>1, CallOfWorker
<1>2. /\ pc = [u \in Thread |-> pc[u]] /\ call = [u \in Thread |-> call[u]]
      /\ outcome = [u \in Thread |-> outcome[u]]
  BY DEF TypeOK
<1>3. env' = env
  BY DEF Next, Run, Embed, Receive, Enter, Refuse, Scan, Prepare, StatementFails, HistoryFails,
         Statements, Reply, TraceFails, Test, Await, Retest, Look, Import, Load, LoadFails, ImportFails,
         Encode, EncodeFails, LoadHangs, OtherDownload, Rest, Raise, Leave, Answer, vars
<1>4. ASSUME NEW t \in Worker, Receive(t) PROVE AnswerInv'
  <2>1. /\ call' = [call EXCEPT ![t] = Len(calls) + 1] /\ pc' = [pc EXCEPT ![t] = "enter"]
        /\ outcome' = outcome /\ Len(calls) \in Nat
    BY <1>4, ReceivedCalls DEF Receive, Goto
  <2>2. AnswersTell'
    BY <1>3, <1>4, ReceivedCalls DEF AnswerInv, AnswersTell
  <2>3. ASSUME NEW u \in Worker, u # t, call[u] # 0
        PROVE  calls'[call'[u]] = calls[call[u]] /\ call'[u] = call[u]
    BY <1>1, <1>2, <1>4, <2>1, <2>3, ReceivedCalls DEF Thread
  <2>4. /\ call'[t] = Len(calls) + 1 /\ pc'[t] = "enter" /\ ~calls'[call'[t]].done
        /\ calls'[call'[t]].answer = "pending"
    BY <1>2, <1>4, <2>1, ReceivedCalls DEF Thread
  <2>5. \A u \in Worker : u # t => call'[u] = call[u] /\ pc'[u] = pc[u] /\ outcome'[u] = outcome[u]
    BY <1>2, <2>1 DEF Thread
  <2> QED
    BY <2>2, <2>3, <2>4, <2>5 DEF AnswerInv
<1>5. ASSUME NEW t \in Worker, Reply(t) \/ TraceFails(t) PROVE AnswerInv'
  <2>1. PICK answer \in Results :
          /\ Answer(t, answer) /\ pc[t] = "trace"
          /\ answer = outcome[t] \/ (answer = "error" /\ env.debugLog)
    BY <1>5, AnswerOf
  <2>2. call[t] # 0
    BY <2>1 DEF CallInv
  <2>3. /\ call' = [call EXCEPT ![t] = 0] /\ pc' = [pc EXCEPT ![t] = "idle"]
        /\ outcome' = [outcome EXCEPT ![t] = "pending"]
    BY <2>1 DEF Answer, Goto
  <2>8. /\ answer = "ok" => calls[call[t]].done
        /\ answer = "locked" /\ calls[call[t]].done => calls[call[t]].tool = "get"
        /\ answer = "error" /\ calls[call[t]].done =>
             env.debugLog \/ calls[call[t]].tool = "get"
    BY <2>1, <2>2 DEF AnswerInv
  <2>4. AnswersTell'
    BY <1>3, <2>1, <2>8, AnsweredCalls DEF AnswerInv, AnswersTell
  <2>5. ASSUME NEW u \in Worker, u # t, call[u] # 0
        PROVE  calls'[call[u]] = calls[call[u]]
    BY <1>1, <2>1, <2>2, <2>5, AnsweredCalls DEF CallInv
  <2>6. \A u \in Worker : u # t => call'[u] = call[u] /\ pc'[u] = pc[u] /\ outcome'[u] = outcome[u]
    BY <1>2, <2>3 DEF Thread
  <2>7. call'[t] = 0
    BY <1>2, <2>3 DEF Thread
  <2> QED
    BY <2>4, <2>5, <2>6, <2>7 DEF AnswerInv
<1>6. ASSUME NEW t \in Worker, NEW result \in Results, NEW done \in BOOLEAN,
             Ends(t, result, done)
      PROVE  AnswerInv'
  <2>1. /\ Leave(t, result, done) /\ pc[t] # "idle" /\ pc[t] # "trace"
        /\ result = "ok" => done
        /\ result \in {"locked", "error"} /\ done => calls[call[t]].tool = "get"
    BY <1>6 DEF Ends
  <2>2. call[t] # 0 /\ ~calls[call[t]].done
    BY <2>1 DEF CallInv, AnswerInv
  <2>3. /\ call' = call /\ pc' = [pc EXCEPT ![t] = "trace"]
        /\ outcome' = [outcome EXCEPT ![t] = result]
    BY <2>1 DEF Leave, Goto
  <2>4. calls[call[t]].answer = "pending"
    BY <2>2 DEF AnswerInv
  <2>5. AnswersTell'
    BY <1>3, <2>1, <2>4, LeftCalls DEF AnswerInv, AnswersTell
  <2>6. ASSUME NEW u \in Worker, u # t, call[u] # 0
        PROVE  calls'[call[u]] = calls[call[u]]
    BY <1>1, <2>1, <2>2, <2>6, LeftCalls DEF CallInv
  <2>7. \A u \in Worker : u # t => pc'[u] = pc[u] /\ outcome'[u] = outcome[u]
    BY <1>2, <2>3 DEF Thread
  <2>8. /\ pc'[t] = "trace" /\ outcome'[t] = result /\ result # "pending"
        /\ calls'[call[t]].done = done /\ calls'[call[t]].answer = "pending"
        /\ calls'[call[t]].tool = calls[call[t]].tool
    BY <1>2, <2>1, <2>3, <2>4, LeftCalls DEF Thread, Results
  <2>9. outcome'[t] \in {"locked", "error"} /\ calls'[call[t]].done =>
          calls'[call[t]].tool = "get"
    BY <2>1, <2>8
  <2>10. outcome'[t] = "ok" => calls'[call[t]].done
    BY <2>1, <2>8
  <2> QED
    BY <2>3, <2>5, <2>6, <2>7, <2>8, <2>9, <2>10 DEF AnswerInv
<1>7. CASE CallsStay
  BY <1>3, <1>7 DEF CallsStay, AnswerInv, AnswersTell
<1> QED
  BY <1>4, <1>5, <1>6, <1>7, CallsStepOfNext DEF CallsStep

----------------------------------------------------------------------------
(* Types. *)

\* The types of what is not about calls.
ThreadTypes ==
  /\ env \in [embeddings: BOOLEAN, preload: BOOLEAN, debugLog: BOOLEAN]
  /\ pc \in [Thread -> {"idle", "enter", "body", "test", "await", "retest", "look", "import",
                        "load", "encode", "statements", "trace", "done", "hung"}]
  /\ serverLock \in Worker \union {NoThread}
  /\ modelLock \in Thread \union {NoThread}
  /\ model \in BOOLEAN /\ loads \in Nat
  /\ cache \in {"absent", "partial", "whole"}
  /\ offline \in {"unset", "0", "1"}
  /\ hub \in {"unread", "online", "offline"}
  /\ inTime \in BOOLEAN

\* Every step keeps the types of the threads.
LEMMA ThreadTypesStep == ThreadTypes /\ [Next]_vars => ThreadTypes'
<1> SUFFICES ASSUME ThreadTypes, [Next]_vars PROVE ThreadTypes'
  OBVIOUS
<1>1. ASSUME NEW t \in Worker, Receive(t) PROVE ThreadTypes'
  BY <1>1 DEF Receive, Goto, ThreadTypes, locks, disk, Thread
<1>2. ASSUME NEW t \in Worker, Enter(t) PROVE ThreadTypes'
  BY <1>2 DEF Enter, Goto, ThreadTypes, locks, disk, Thread
<1>3. ASSUME NEW t \in Worker, Refuse(t) PROVE ThreadTypes'
  BY <1>3 DEF Refuse, Leave, Goto, ThreadTypes, locks, disk, Thread
<1>4. ASSUME NEW t \in Worker, Scan(t) PROVE ThreadTypes'
  BY <1>4 DEF Scan, Leave, Goto, ThreadTypes, locks, disk, Thread
<1>5. ASSUME NEW t \in Worker, Prepare(t) PROVE ThreadTypes'
  BY <1>5 DEF Prepare, Goto, ThreadTypes, locks, disk, Thread
<1>6. ASSUME NEW t \in Worker, StatementFails(t) PROVE ThreadTypes'
  BY <1>6 DEF StatementFails, Leave, Goto, ThreadTypes, locks, disk, Thread
<1>7. ASSUME NEW t \in Worker, Statements(t) PROVE ThreadTypes'
  BY <1>7 DEF Statements, Leave, Goto, ThreadTypes, locks, disk, Thread
<1>8. ASSUME NEW t \in Worker, Reply(t) PROVE ThreadTypes'
  BY <1>8 DEF Reply, Answer, Goto, ThreadTypes, locks, disk, Thread
<1>9. ASSUME NEW t \in Worker, TraceFails(t) PROVE ThreadTypes'
  BY <1>9 DEF TraceFails, Answer, Goto, ThreadTypes, locks, disk, Thread
<1>10. ASSUME NEW t \in Thread, Test(t) PROVE ThreadTypes'
  BY <1>10 DEF Test, Goto, ThreadTypes, locks, disk, Thread
<1>11. ASSUME NEW t \in Thread, Await(t) PROVE ThreadTypes'
  BY <1>11 DEF Await, Goto, ThreadTypes, locks, disk, Thread
<1>12. ASSUME NEW t \in Thread, Retest(t) PROVE ThreadTypes'
  BY <1>12 DEF Retest, Goto, ThreadTypes, locks, disk, Thread
<1>13. ASSUME NEW t \in Thread, Look(t) PROVE ThreadTypes'
  BY <1>13 DEF Look, Goto, ThreadTypes, locks, disk, Thread, Cached, SetDefault
<1>14. ASSUME NEW t \in Thread, Import(t) PROVE ThreadTypes'
  BY <1>14 DEF Import, Goto, ThreadTypes, locks, disk, Thread, HubRead
<1>15. ASSUME NEW t \in Thread, Load(t) PROVE ThreadTypes'
  BY <1>15 DEF Load, Goto, ThreadTypes, locks, disk, Thread
<1>16. ASSUME NEW t \in Thread, LoadFails(t) PROVE ThreadTypes'
  BY <1>16 DEF LoadFails, Raise, Leave, Goto, ThreadTypes, locks, disk, Thread
<1>17. ASSUME NEW t \in Thread, ImportFails(t) PROVE ThreadTypes'
  BY <1>17 DEF ImportFails, Raise, Leave, Goto, ThreadTypes, locks, disk, Thread, HubRead
<1>18. ASSUME NEW t \in Thread, Encode(t) PROVE ThreadTypes'
  BY <1>18 DEF Encode, Goto, ThreadTypes, locks, disk, Thread
<1>19. ASSUME NEW t \in Thread, EncodeFails(t) PROVE ThreadTypes'
  BY <1>19 DEF EncodeFails, Raise, Leave, Goto, ThreadTypes, locks, disk, Thread
<1>20. ASSUME NEW t \in Thread, LoadHangs(t) PROVE ThreadTypes'
  BY <1>20 DEF LoadHangs, Goto, ThreadTypes, locks, disk, Thread
<1>21. CASE OtherDownload
  BY <1>21 DEF OtherDownload, ThreadTypes, locks, disk
<1>22. CASE Rest
  BY <1>22 DEF Rest, vars, ThreadTypes, locks, disk
<1>23. CASE UNCHANGED vars
  BY <1>23 DEF vars, ThreadTypes, locks, disk
<1>24. ASSUME NEW t \in Worker, HistoryFails(t) PROVE ThreadTypes'
  BY <1>24 DEF HistoryFails, Leave, Goto, ThreadTypes, locks, disk, Thread
<1> QED
  BY <1>1, <1>2, <1>3, <1>4, <1>5, <1>6, <1>7, <1>8, <1>9, <1>10, <1>11, <1>12, <1>13, <1>14, <1>15, <1>16, <1>17, <1>18, <1>19, <1>20, <1>21, <1>22, <1>23, <1>24 DEF Next, Run, Embed

\* Every step keeps every type.
THEOREM TypeStep == TypeOK /\ CallInv /\ AnswerInv /\ [Next]_vars => TypeOK'
<1> SUFFICES ASSUME TypeOK, CallInv, AnswerInv, [Next]_vars PROVE TypeOK'
  OBVIOUS
<1>1. ThreadTypes'
  BY ThreadTypesStep DEF TypeOK, ThreadTypes
<1> SUFFICES /\ calls' \in Seq(Call)
             /\ call' \in [Thread -> 0..Len(calls')]
             /\ outcome' \in [Thread -> Results \union {"pending"}]
  BY <1>1 DEF TypeOK, ThreadTypes
<1>2. calls \in Seq(Call) /\ Len(calls) \in Nat
  BY LenProperties DEF TypeOK
<1>3. ASSUME NEW t \in Worker, Receive(t)
      PROVE  /\ calls' \in Seq(Call)
             /\ call' \in [Thread -> 0..Len(calls')]
             /\ outcome' \in [Thread -> Results \union {"pending"}]
  <2>1. calls' \in Seq(Call) /\ Len(calls') = Len(calls) + 1
    BY <1>3, ReceivedCalls
  <2>2. call' = [call EXCEPT ![t] = Len(calls) + 1] /\ outcome' = outcome
    BY <1>3 DEF Receive
  <2>3. call \in [Thread -> 0..Len(calls')] /\ Len(calls) + 1 \in 0..Len(calls')
    BY <1>2, <2>1 DEF TypeOK
  <2> QED
    BY <2>1, <2>2, <2>3 DEF TypeOK
<1>4. ASSUME NEW t \in Worker, Reply(t) \/ TraceFails(t)
      PROVE  /\ calls' \in Seq(Call)
             /\ call' \in [Thread -> 0..Len(calls')]
             /\ outcome' \in [Thread -> Results \union {"pending"}]
  <2>1. PICK answer \in Results : Answer(t, answer) /\ pc[t] = "trace"
    BY <1>4, AnswerOf
  <2>2. call' = [call EXCEPT ![t] = 0] /\ outcome' = [outcome EXCEPT ![t] = "pending"]
    BY <2>1 DEF Answer
  <2>3. calls' \in Seq(Call) /\ Len(calls') = Len(calls)
    BY <2>1, AnsweredCalls
  <2>4. call \in [Thread -> 0..Len(calls')] /\ 0 \in 0..Len(calls')
    BY <1>2, <2>3 DEF TypeOK
  <2> QED
    BY <2>2, <2>3, <2>4 DEF TypeOK
<1>5. ASSUME NEW t \in Worker, NEW result \in Results, NEW done \in BOOLEAN,
             Ends(t, result, done)
      PROVE  /\ calls' \in Seq(Call)
             /\ call' \in [Thread -> 0..Len(calls')]
             /\ outcome' \in [Thread -> Results \union {"pending"}]
  <2>1. Leave(t, result, done) /\ pc[t] # "idle"
    BY <1>5 DEF Ends
  <2>2. call' = call /\ outcome' = [outcome EXCEPT ![t] = result]
    BY <2>1 DEF Leave
  <2>3. calls' \in Seq(Call) /\ Len(calls') = Len(calls)
    BY <2>1, LeftCalls
  <2> QED
    BY <2>2, <2>3 DEF TypeOK
<1>6. CASE CallsStay
  BY <1>6 DEF CallsStay, TypeOK
<1> QED
  BY <1>3, <1>4, <1>5, <1>6, CallsStepOfNext DEF CallsStep

----------------------------------------------------------------------------
(* The invariant, and what it gives. *)

\* The invariant holds of every behaviour.
THEOREM Invariant == Spec => []IInv
<1>1. Init => IInv
  BY InitHolds
<1>2. IInv /\ [Next]_vars => IInv'
  BY TypeStep, LockStep, CallStep, ModelStep, HubStep, AnswerStep DEF IInv
<1> QED
  BY <1>1, <1>2, PTL DEF Spec

\* Every variable keeps its type.
THEOREM TypeCorrect == Spec => []TypeOK
<1>1. IInv => TypeOK
  BY DEF IInv
<1> QED
  BY <1>1, Invariant, PTL

\* However many worker threads the SDK has, one uses the connection at a time
\* (_SERVER_LOCK, memory_server.py:287).
THEOREM OneUser == Spec => []ConnectionHasOneUser
<1>1. IInv => ConnectionHasOneUser
  BY DEF IInv, LockInv, ConnectionHasOneUser
<1> QED
  BY <1>1, Invariant, PTL

\* The double-checked load constructs one model and nobody encodes without it
\* (_embed, memory_server.py:225-249).
THEOREM LoadedOnce == Spec => []ModelLoadedOnce
<1>1. IInv => ModelLoadedOnce
  BY DEF IInv, ModelInv, ModelLoadedOnce
<1> QED
  BY <1>1, Invariant, PTL

\* A process that found the model cached before it imported the libraries never goes
\* online for it (memory_server.py:233-241), however many loads fail, unless it was
\* started with HF_HUB_OFFLINE=0, which os.environ.setdefault leaves alone.
THEOREM NeverOnline == Spec => []CachedNeverOnline
<1>1. IInv => CachedNeverOnline
  BY DEF IInv, HubInv, CachedNeverOnline, TypeOK
<1> QED
  BY <1>1, Invariant, PTL

\* Answers are true to what was committed (_tool_guard, memory_server.py:267-315).
THEOREM AnswersAreTrue == Spec => []AnswersTell
<1>1. IInv => AnswersTell
  BY DEF IInv, AnswerInv
<1> QED
  BY <1>1, Invariant, PTL

----------------------------------------------------------------------------
(* Why calls return: what FairSpec needs of the safety of the model.       *)

\* t waits for a lock that u holds.
Waits(t, u) ==
  \/ At(t, "enter") /\ serverLock = u
  \/ At(t, "await") /\ modelLock = u

\* memory_server.py:226, 287: _SERVER_LOCK is taken before _model_lock by calls, and
\* _model_lock alone by the preload thread.  Who waits for the server lock may wait for
\* one who waits for the model lock, and whose holder waits for nobody: no threads can
\* be waiting for one another.
THEOREM WaitsEnd ==
  Spec => [](\A t, u, v, w \in Thread : ~(Waits(t, u) /\ Waits(u, v) /\ Waits(v, w)))
<1>1. IInv => \A t, u, v, w \in Thread : ~(Waits(t, u) /\ Waits(u, v) /\ Waits(v, w))
  <2> SUFFICES ASSUME IInv, NEW u \in Thread, NEW v \in Thread, NEW t \in Thread, NEW w \in Thread,
                      Waits(t, u), Waits(u, v), Waits(v, w)
               PROVE  FALSE
    OBVIOUS
  <2>1. LockInv /\ TypeOK
    BY DEF IInv
  <2>2. pc[u] # "enter"
    <3>1. CASE serverLock = u
      BY <2>1, <3>1, ThreadAssumption DEF LockInv, TypeOK, InBody, Thread
    <3>2. CASE modelLock = u
      BY <2>1, <3>2 DEF LockInv
    <3> QED
      BY <3>1, <3>2 DEF Waits
  <2>3. modelLock = v
    BY <2>2 DEF Waits, At
  <2> QED
    BY <2>1, <2>3 DEF LockInv, Waits, At
<1> QED
  BY <1>1, Invariant, PTL

\* How many of its own steps may lie before a thread that is at a label.
Left(label) ==
  CASE label = "enter" -> 11 [] label = "body" -> 10 [] label = "test" -> 9
    [] label = "await" -> 8 [] label = "retest" -> 7 [] label = "look" -> 6
    [] label = "import" -> 5 [] label = "load" -> 4 [] label = "encode" -> 3
    [] label = "statements" -> 2 [] label = "trace" -> 1 [] OTHER -> 0

\* The steps of the others leave a thread where it is, and its own bring it nearer to
\* its answer.
Forward ==
  \A t \in Thread :
    /\ pc'[t] # pc[t] => Receive(t) \/ Run(t) \/ Embed(t) \/ LoadHangs(t)
    /\ Run(t) \/ Embed(t) => Left(pc'[t]) < Left(pc[t])

\* A step between two labels.
LEMMA MoveForward ==
  ASSUME NEW t \in Thread, NEW label, DOMAIN pc = Thread, Goto(t, label)
  PROVE  pc'[t] = label /\ \A u \in Thread : u # t => pc'[u] = pc[u]
BY DEF Goto

\* memory_server.py:287: no call goes round in a loop; after at most eleven steps of its
\* own, whatever fails on the way, it is answered or hangs in an online load.
THEOREM CallsGoForward == Spec => [][Forward]_vars
<1>1. TypeOK /\ [Next]_vars => [Forward]_vars
  <2> SUFFICES ASSUME TypeOK, Next PROVE Forward
    OBVIOUS
  <2>1. DOMAIN pc = Thread
    BY DEF TypeOK
  <2>2. ASSUME NEW t \in Thread, Run(t) \/ Embed(t)
        PROVE  /\ \E label : Goto(t, label)
               /\ Left(pc'[t]) < Left(pc[t])
    <3>1. CASE Enter(t) \/ Refuse(t) \/ Scan(t) \/ Prepare(t)
      BY <2>1, <3>1 DEF Enter, Refuse, Scan, Prepare, Leave, Goto, At, Left
    <3>2. CASE StatementFails(t) \/ HistoryFails(t) \/ Statements(t) \/ Reply(t) \/ TraceFails(t)
      BY <2>1, <3>2 DEF StatementFails, HistoryFails, Statements, Reply, TraceFails, Answer, Leave,
           Goto, At, Left
    <3>3. CASE Test(t) \/ Await(t) \/ Retest(t) \/ Look(t) \/ Import(t) \/ Load(t)
      BY <2>1, <3>3 DEF Test, Await, Retest, Look, Import, Load, Goto, At, Left
    <3>4. CASE LoadFails(t) \/ ImportFails(t) \/ Encode(t) \/ EncodeFails(t)
      BY <2>1, <3>4 DEF LoadFails, ImportFails, Encode, EncodeFails, Raise, Leave, Goto, At, Left
    <3> QED
      BY <2>2, <3>1, <3>2, <3>3, <3>4 DEF Run, Embed
  <2>3. ASSUME NEW t \in Thread, pc'[t] # pc[t]
        PROVE  Receive(t) \/ Run(t) \/ Embed(t) \/ LoadHangs(t)
    <3>1. ASSUME NEW u \in Thread, Receive(u) \/ Run(u) \/ Embed(u) \/ LoadHangs(u)
          PROVE  u = t
      <4>1. \E label : Goto(u, label)
        BY <2>2, <3>1 DEF Receive, LoadHangs
      <4> QED
        BY <2>1, <2>3, <4>1, MoveForward
    <3>2. CASE OtherDownload \/ Rest
      BY <2>3, <3>2 DEF OtherDownload, Rest, vars
    <3> QED
      BY <3>1, <3>2 DEF Next, Thread
  <2> QED
    BY <2>2, <2>3 DEF Forward
<1> QED
  BY <1>1, TypeCorrect, PTL DEF Spec

====
