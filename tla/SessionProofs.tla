----------------------------- MODULE SessionProofs -----------------------------
(***************************************************************************)
(* One browser session, for any number of messages, clears, compactions,   *)
(* cancels and tracked writes.  The invariant is built in layers, each     *)
(* inductive on top of the earlier ones:                                   *)
(*   Typed      types, and a cancel that grips a run grips a real one;     *)
(*   Exclusive  who holds the session, what s.running and the controller   *)
(*              say about it, run by run and operation by operation;       *)
(*   HistoryIsHeld, WritesEndWithTheRun   on top of Exclusive;             *)
(*   Aimed      a run whose context was cancelled has started, and a       *)
(*              cancel holds it or it is over;                             *)
(*   Yielding   a title request under way is either still wanted or        *)
(*              awaited by the one run that holds the session.             *)
(***************************************************************************)
EXTENDS Session, TLAPS

\* A gripped run is a run, and only a cancel that got that far has one.
Gripping ==
  \A c \in Canceller : /\ pcC[c] = "gripped" => grip[c] # None
                       /\ pcC[c] = "idle" => grip[c] = None

Typed == TypeOK /\ Gripping

\* Runs whose cancel function the controller has.
Controlled(r) == pcR[r] \in {"begun", "launched", "working", "answered"}

\* SessionIsExclusive, with runs and operations told apart.
Exclusive ==
  /\ \A r, q \in Message : RunHolds(r) /\ RunHolds(q) => r = q
  /\ \A o, p \in Op : OpHolds(o) /\ OpHolds(p) => o = p
  /\ \A r \in Message, o \in Op : ~(RunHolds(r) /\ OpHolds(o))
  /\ running <=> (\E r \in Message : RunHolds(r)) \/ (\E o \in Op : OpHolds(o))
  /\ \A r \in Message : active = r <=> Controlled(r)

\* Who may have been cancelled: runs that started, found by a cancel or over.
Aimed ==
  /\ \A r \in halted : pcR[r] # "idle"
  /\ \A c \in Canceller : grip[c] # None => pcR[grip[c]] # "idle"
  /\ CancelHitsItsRun

Left(r) == pcR[r] \in {"released", "spawning", "naming", "ended"}
Wanted  == titlePending /\ ~titleDone

\* One title request at a time, made by a run that is over, and either still
\* wanted or awaited by the run that cancelled it.
Yielding ==
  /\ \A g \in Message : asker = g <=> pcG[g] \in {"asking", "leaving"}
  /\ \A g \in Message : pcG[g] # "none" => Left(g)
  /\ \A g \in Message : pcG[g] = "asking" =>
       Wanted \/ \E r \in Message : pcR[r] \in {"begun", "launched"} /\ awaits[r] = g
  /\ \A r, g \in Message : pcG[g] = "asking" /\ RunHolds(r) =>
       pcR[r] \in {"begun", "launched"} /\ awaits[r] = g

IInv == Typed /\ Exclusive /\ HistoryIsHeld /\ WritesEndWithTheRun /\ Aimed /\ Yielding

-----------------------------------------------------------------------------
\* The initial values have their types.
LEMMA InitTyped == Init => Typed
<1> USE NoneAssumption, CoordinatorAssumption DEF Typed, TypeOK, Gripping, RunPcs
<1> SUFFICES ASSUME Init PROVE Typed
  OBVIOUS
<1>1. <<>> \in Seq(Message)
  OBVIOUS
<1>2. TypeOK
  BY <1>1 DEF Init
<1> QED
  BY <1>2 DEF Init

\* Every variable keeps its type, because a cancel that goes on has a run.
LEMMA NextTyped == Typed /\ [Next]_vars => Typed'
<1> USE NoneAssumption, CoordinatorAssumption DEF Typed, TypeOK, Gripping, RunPcs
<1> SUFFICES ASSUME Typed, [Next]_vars PROVE Typed'
  OBVIOUS
<1>1. ASSUME NEW r \in Message, StartRun(r) PROVE Typed'
  <2>1. titlePending' \in BOOLEAN /\ hushed' \in SUBSET Message
    BY ZenonT(60), <1>1 DEF StartRun, YieldTitle
  <2>2. awaits' \in [Message -> Message \cup {None}]
    BY <1>1 DEF StartRun, YieldTitle
  <2>3. active' \in Message \cup {None} /\ pcR' \in [Message -> RunPcs]
    BY <1>1 DEF StartRun, Accept
  <2>4. history' \in [Message -> Seq(Message)]
    BY <1>1 DEF StartRun, Accept
  <2> HIDE DEF RunPcs
  <2> QED
    BY <1>1, <2>1, <2>2, <2>3, <2>4
    DEF StartRun, Accept, stopVars, opVars, cancelVars, dreamVars
<1>2. ASSUME NEW r \in Message, RefuseRun(r) PROVE Typed'
  BY <1>2 DEF RefuseRun, stopVars, titleVars, opVars, cancelVars, dreamVars
<1>3. ASSUME NEW r \in Message, KillDream(r) PROVE Typed'
  BY <1>3 DEF KillDream, RunStep, stopVars, titleVars, opVars, cancelVars
<1>4. ASSUME NEW r \in Message, Work(r) PROVE Typed'
  BY <1>4 DEF Work, RunStep, stopVars, titleVars, opVars, cancelVars, dreamVars
<1>5. ASSUME NEW r \in Message, PrepFails(r) PROVE Typed'
  BY <1>5 DEF PrepFails, RunStep, stopVars, titleVars, opVars, cancelVars, dreamVars
<1>6. ASSUME NEW r \in Message, Terminal(r) PROVE Typed'
  BY <1>6 DEF Terminal, RunStep, stopVars, opVars, cancelVars, dreamVars
<1>6a. ASSUME NEW r \in Message, EndUntold(r) PROVE Typed'
  BY <1>6a DEF EndUntold, RunStep, stopVars, titleVars, opVars, cancelVars, dreamVars
<1>7. ASSUME NEW r \in Message, Finish(r) PROVE Typed'
  BY <1>7 DEF Finish, RunStep, stopVars, titleVars, opVars, cancelVars, dreamVars
<1>8. ASSUME NEW r \in Message, ClearFileWrites(r) PROVE Typed'
  BY <1>8 DEF ClearFileWrites, RunStep, stopVars, titleVars, opVars, cancelVars, dreamVars
<1>9. ASSUME NEW r \in Message, Release(r) PROVE Typed'
  BY <1>9 DEF Release, RunStep, stopVars, opVars, cancelVars, dreamVars
<1>10. ASSUME NEW r \in Message, SkipDream(r) PROVE Typed'
  BY <1>10 DEF SkipDream, stopVars, titleVars, opVars, cancelVars, dreamVars
<1>11. ASSUME NEW r \in Message, CheckDream(r) PROVE Typed'
  BY <1>11 DEF CheckDream, RunStep, stopVars, titleVars, opVars, cancelVars, dreamVars
<1>12. ASSUME NEW r \in Message, StartDream(r) PROVE Typed'
  BY <1>12 DEF StartDream, RunStep, stopVars, titleVars, opVars, cancelVars
<1>13. ASSUME NEW r \in Message, RecordDream(r) PROVE Typed'
  BY <1>13 DEF RecordDream, RunStep, stopVars, titleVars, opVars, cancelVars
<1>14. ASSUME NEW r \in Message, DreamEnds(r) PROVE Typed'
  BY <1>14 DEF DreamEnds, stopVars, runVars, titleVars, opVars, cancelVars
<1>15. ASSUME NEW r \in Message, SkipTitle(r) PROVE Typed'
  BY <1>15 DEF SkipTitle, stopVars, runVars, opVars, cancelVars, dreamVars
<1>16. ASSUME NEW r \in Message, AskTitle(r) PROVE Typed'
  BY <1>16 DEF AskTitle, stopVars, runVars, opVars, cancelVars, dreamVars
<1>17. ASSUME NEW r \in Message, KeepTitle(r) PROVE Typed'
  BY ZenonT(60), <1>17 DEF KeepTitle, stopVars, runVars, opVars, cancelVars, dreamVars
<1>18. ASSUME NEW r \in Message, LeaveTitle(r) PROVE Typed'
  BY <1>18 DEF LeaveTitle, stopVars, runVars, opVars, cancelVars, dreamVars
<1>19. ASSUME NEW r \in Message, NEW w \in Write, ToolUseStart(r, w) PROVE Typed'
  BY <1>19 DEF ToolUseStart, stopVars, runVars, titleVars, opVars, cancelVars, dreamVars
<1>20. ASSUME NEW r \in Message, NEW w \in Write, ToolUseResult(r, w) PROVE Typed'
  BY <1>20 DEF ToolUseResult, stopVars, runVars, titleVars, opVars, cancelVars, dreamVars
<1>21. ASSUME NEW o \in Op, BeginOp(o) PROVE Typed'
  BY <1>21 DEF BeginOp, stopVars, runVars, titleVars, cancelVars, dreamVars
<1>22. ASSUME NEW o \in Op, RefuseOp(o) PROVE Typed'
  BY <1>22 DEF RefuseOp, stopVars, runVars, titleVars, cancelVars, dreamVars
<1>23. ASSUME NEW o \in Op, Clear(o) PROVE Typed'
  BY <1>23 DEF Clear, stopVars, runVars, titleVars, cancelVars, dreamVars
<1>24. ASSUME NEW o \in Op, ReadHistory(o) PROVE Typed'
  BY <1>24 DEF ReadHistory, stopVars, runVars, titleVars, cancelVars, dreamVars
<1>25. ASSUME NEW o \in Op, Compact(o) PROVE Typed'
  <2>1. conversation' \in Seq(Message)
    <3>1. snapshot[o] \in Seq(Message)
      OBVIOUS
    <3>2. ASSUME NEW k \in 1..Len(snapshot[o])
          PROVE  SubSeq(snapshot[o], k, Len(snapshot[o])) \in Seq(Message)
      BY <3>1
    <3> QED
      BY ZenonT(60), <1>25, <3>2 DEF Compact
  <2> QED
    BY <1>25, <2>1 DEF Compact, stopVars, runVars, titleVars, cancelVars, dreamVars
<1>26. ASSUME NEW o \in Op, EndOp(o) PROVE Typed'
  BY <1>26 DEF EndOp, stopVars, runVars, titleVars, cancelVars, dreamVars
<1>27. ASSUME NEW c \in Canceller, GripRun(c) PROVE Typed'
  BY <1>27 DEF GripRun, stopVars, runVars, titleVars, opVars, dreamVars
<1>28. ASSUME NEW c \in Canceller, Halt(c) PROVE Typed'
  BY <1>28 DEF Halt, stopVars, titleVars, opVars, dreamVars
<1>29. CASE Evict
  BY <1>29 DEF Evict, runVars, titleVars, opVars, cancelVars, dreamVars
<1>30. CASE StopCancel
  BY <1>30 DEF StopCancel, runVars, titleVars, opVars, cancelVars, dreamVars
<1>31. CASE StopClear
  BY <1>31 DEF StopClear, runVars, titleVars, opVars, cancelVars, dreamVars
<1>32. CASE StopClose
  BY <1>32 DEF StopClose, runVars, titleVars, opVars, cancelVars, dreamVars
<1>33. CASE UNCHANGED vars
  BY <1>33 DEF vars, stopVars, runVars, titleVars, opVars, cancelVars, dreamVars
<1> QED
  BY <1>1, <1>2, <1>3, <1>4, <1>5, <1>6, <1>6a, <1>7, <1>8, <1>9, <1>10, <1>11, <1>12, <1>13,
     <1>14, <1>15, <1>16, <1>17, <1>18, <1>19, <1>20, <1>21, <1>22, <1>23, <1>24, <1>25,
     <1>26, <1>27, <1>28, <1>29, <1>30, <1>31, <1>32, <1>33
     DEF Next, RunProgress, DreamStep, TitleStep, OpStep, StopStep

-----------------------------------------------------------------------------
\* StartRun, beginIdleOp and what gives the session back keep it exclusive.
LEMMA ExclusiveStep ==
  ASSUME TypeOK, Exclusive, [Next]_vars
  PROVE  Exclusive'
<1> USE NoneAssumption DEF TypeOK, Exclusive, RunHolds, OpHolds, Controlled
<1>1. ASSUME NEW r \in Message, StartRun(r) PROVE Exclusive'
  BY <1>1 DEF StartRun, Accept, YieldTitle, opVars
<1>2. ASSUME NEW r \in Message, RefuseRun(r) PROVE Exclusive'
  BY <1>2 DEF RefuseRun, opVars
<1>3. ASSUME NEW r \in Message, KillDream(r) PROVE Exclusive'
  BY <1>3 DEF KillDream, RunStep, opVars
<1>4. ASSUME NEW r \in Message, Work(r) PROVE Exclusive'
  BY <1>4 DEF Work, RunStep, opVars
<1>5. ASSUME NEW r \in Message, PrepFails(r) PROVE Exclusive'
  BY <1>5 DEF PrepFails, RunStep, opVars
<1>6. ASSUME NEW r \in Message, Terminal(r) PROVE Exclusive'
  BY <1>6 DEF Terminal, RunStep, opVars
<1>6a. ASSUME NEW r \in Message, EndUntold(r) PROVE Exclusive'
  BY <1>6a DEF EndUntold, RunStep, opVars
<1>7. ASSUME NEW r \in Message, Finish(r) PROVE Exclusive'
  BY <1>7 DEF Finish, RunStep, opVars
<1>8. ASSUME NEW r \in Message, ClearFileWrites(r) PROVE Exclusive'
  BY <1>8 DEF ClearFileWrites, RunStep, opVars
<1>9. ASSUME NEW r \in Message, Release(r) PROVE Exclusive'
  BY <1>9 DEF Release, RunStep, opVars
<1>10. ASSUME NEW r \in Message, SkipDream(r) PROVE Exclusive'
  BY <1>10 DEF SkipDream, opVars
<1>11. ASSUME NEW r \in Message, CheckDream(r) PROVE Exclusive'
  BY <1>11 DEF CheckDream, RunStep, opVars
<1>12. ASSUME NEW r \in Message, StartDream(r) PROVE Exclusive'
  BY <1>12 DEF StartDream, RunStep, opVars
<1>13. ASSUME NEW r \in Message, RecordDream(r) PROVE Exclusive'
  BY <1>13 DEF RecordDream, RunStep, opVars
<1>14. ASSUME NEW o \in Op, BeginOp(o) PROVE Exclusive'
  BY <1>14 DEF BeginOp, runVars
<1>15. ASSUME NEW o \in Op, RefuseOp(o) PROVE Exclusive'
  BY <1>15 DEF RefuseOp, runVars
<1>16. ASSUME NEW o \in Op, Clear(o) PROVE Exclusive'
  BY <1>16 DEF Clear, runVars
<1>17. ASSUME NEW o \in Op, ReadHistory(o) PROVE Exclusive'
  BY <1>17 DEF ReadHistory, runVars
<1>18. ASSUME NEW o \in Op, Compact(o) PROVE Exclusive'
  BY <1>18 DEF Compact, runVars
<1>19. ASSUME NEW o \in Op, EndOp(o) PROVE Exclusive'
  BY <1>19 DEF EndOp, runVars
<1>20. CASE UNCHANGED <<running, active, pcR, pcO>>
  BY <1>20
<1> QED
  BY <1>1, <1>2, <1>3, <1>4, <1>5, <1>6, <1>6a, <1>7, <1>8, <1>9, <1>10, <1>11, <1>12,
     <1>13, <1>14, <1>15, <1>16, <1>17, <1>18, <1>19, <1>20
     DEF Next, RunProgress, DreamStep, TitleStep, OpStep, StopStep, vars, runVars, opVars,
         DreamEnds, SkipTitle, AskTitle, KeepTitle, LeaveTitle, ToolUseStart,
         ToolUseResult, GripRun, Halt, Evict, StopCancel, StopClear, StopClose

\* No turn is added or dropped while a run or a compaction works on the history.
LEMMA HistoryStep ==
  ASSUME TypeOK, Exclusive, HistoryIsHeld, [Next]_vars
  PROVE  HistoryIsHeld'
<1> USE DEF TypeOK, Exclusive, HistoryIsHeld, RunHolds, OpHolds
<1>1. ASSUME NEW r \in Message, StartRun(r) PROVE HistoryIsHeld'
  BY <1>1 DEF StartRun, Accept, YieldTitle, opVars
<1>2. ASSUME NEW r \in Message, RefuseRun(r) PROVE HistoryIsHeld'
  BY <1>2 DEF RefuseRun, opVars
<1>3. ASSUME NEW r \in Message, KillDream(r) PROVE HistoryIsHeld'
  BY <1>3 DEF KillDream, RunStep, opVars
<1>4. ASSUME NEW r \in Message, Work(r) PROVE HistoryIsHeld'
  BY <1>4 DEF Work, RunStep, opVars
<1>5. ASSUME NEW r \in Message, PrepFails(r) PROVE HistoryIsHeld'
  BY <1>5 DEF PrepFails, RunStep, opVars
<1>6. ASSUME NEW r \in Message, Terminal(r) PROVE HistoryIsHeld'
  BY <1>6 DEF Terminal, RunStep, opVars
<1>6a. ASSUME NEW r \in Message, EndUntold(r) PROVE HistoryIsHeld'
  BY <1>6a DEF EndUntold, RunStep, opVars
<1>7. ASSUME NEW r \in Message, Finish(r) PROVE HistoryIsHeld'
  BY <1>7 DEF Finish, RunStep, opVars
<1>8. ASSUME NEW r \in Message, ClearFileWrites(r) PROVE HistoryIsHeld'
  BY <1>8 DEF ClearFileWrites, RunStep, opVars
<1>9. ASSUME NEW r \in Message, Release(r) PROVE HistoryIsHeld'
  BY <1>9 DEF Release, RunStep, opVars
<1>10. ASSUME NEW r \in Message, SkipDream(r) PROVE HistoryIsHeld'
  BY <1>10 DEF SkipDream, opVars
<1>11. ASSUME NEW r \in Message, CheckDream(r) PROVE HistoryIsHeld'
  BY <1>11 DEF CheckDream, RunStep, opVars
<1>12. ASSUME NEW r \in Message, StartDream(r) PROVE HistoryIsHeld'
  BY <1>12 DEF StartDream, RunStep, opVars
<1>13. ASSUME NEW r \in Message, RecordDream(r) PROVE HistoryIsHeld'
  BY <1>13 DEF RecordDream, RunStep, opVars
<1>14. ASSUME NEW o \in Op, BeginOp(o) PROVE HistoryIsHeld'
  BY <1>14 DEF BeginOp, runVars
<1>15. ASSUME NEW o \in Op, RefuseOp(o) PROVE HistoryIsHeld'
  BY <1>15 DEF RefuseOp, runVars
<1>16. ASSUME NEW o \in Op, Clear(o) PROVE HistoryIsHeld'
  BY <1>16 DEF Clear, runVars
<1>17. ASSUME NEW o \in Op, ReadHistory(o) PROVE HistoryIsHeld'
  BY <1>17 DEF ReadHistory, runVars
<1>18. ASSUME NEW o \in Op, Compact(o) PROVE HistoryIsHeld'
  BY <1>18 DEF Compact, runVars
<1>19. ASSUME NEW o \in Op, EndOp(o) PROVE HistoryIsHeld'
  BY <1>19 DEF EndOp, runVars
<1>20. CASE UNCHANGED <<conversation, history, snapshot, pcR, pcO>>
  BY <1>20
<1> QED
  BY <1>1, <1>2, <1>3, <1>4, <1>5, <1>6, <1>6a, <1>7, <1>8, <1>9, <1>10, <1>11, <1>12,
     <1>13, <1>14, <1>15, <1>16, <1>17, <1>18, <1>19, <1>20
     DEF Next, RunProgress, DreamStep, TitleStep, OpStep, StopStep, vars, runVars, opVars,
         DreamEnds, SkipTitle, AskTitle, KeepTitle, LeaveTitle, ToolUseStart,
         ToolUseResult, GripRun, Halt, Evict, StopCancel, StopClear, StopClose

\* A write is tracked by the run that works, and dropped when that run is told
\* to have ended or, untold, before it gives the session back.
LEMMA WritesStep ==
  ASSUME TypeOK, Exclusive, WritesEndWithTheRun, [Next]_vars
  PROVE  WritesEndWithTheRun'
<1> USE DEF TypeOK, Exclusive, WritesEndWithTheRun, RunHolds, Halted, stopVars
<1>1. ASSUME NEW r \in Message, StartRun(r) PROVE WritesEndWithTheRun'
  BY <1>1 DEF StartRun, Accept, YieldTitle
<1>2. ASSUME NEW r \in Message, RefuseRun(r) PROVE WritesEndWithTheRun'
  BY <1>2 DEF RefuseRun
<1>3. ASSUME NEW r \in Message, KillDream(r) PROVE WritesEndWithTheRun'
  BY <1>3 DEF KillDream, RunStep
<1>4. ASSUME NEW r \in Message, Work(r) PROVE WritesEndWithTheRun'
  BY <1>4 DEF Work, RunStep
<1>5. ASSUME NEW r \in Message, PrepFails(r) PROVE WritesEndWithTheRun'
  BY <1>5 DEF PrepFails, RunStep
<1>6. ASSUME NEW r \in Message, Terminal(r) PROVE WritesEndWithTheRun'
  BY <1>6 DEF Terminal, RunStep
<1>6a. ASSUME NEW r \in Message, EndUntold(r) PROVE WritesEndWithTheRun'
  BY <1>6a DEF EndUntold, RunStep, Halted
<1>7. ASSUME NEW r \in Message, Finish(r) PROVE WritesEndWithTheRun'
  BY <1>7 DEF Finish, RunStep
<1>8. ASSUME NEW r \in Message, ClearFileWrites(r) PROVE WritesEndWithTheRun'
  BY <1>8 DEF ClearFileWrites, RunStep
<1>9. ASSUME NEW r \in Message, Release(r) PROVE WritesEndWithTheRun'
  BY <1>9 DEF Release, RunStep
<1>10. ASSUME NEW r \in Message, SkipDream(r) PROVE WritesEndWithTheRun'
  BY <1>10 DEF SkipDream
<1>11. ASSUME NEW r \in Message, CheckDream(r) PROVE WritesEndWithTheRun'
  BY <1>11 DEF CheckDream, RunStep
<1>12. ASSUME NEW r \in Message, StartDream(r) PROVE WritesEndWithTheRun'
  BY <1>12 DEF StartDream, RunStep
<1>13. ASSUME NEW r \in Message, RecordDream(r) PROVE WritesEndWithTheRun'
  BY <1>13 DEF RecordDream, RunStep
<1>14. ASSUME NEW r \in Message, NEW w \in Write, ToolUseStart(r, w) PROVE
        WritesEndWithTheRun'
  BY <1>14 DEF ToolUseStart, runVars
<1>15. ASSUME NEW r \in Message, NEW w \in Write, ToolUseResult(r, w) PROVE
        WritesEndWithTheRun'
  BY <1>15 DEF ToolUseResult, runVars
<1>16. CASE StopClear
  BY <1>16 DEF StopClear, runVars
<1>16a. ASSUME NEW c \in Canceller, Halt(c) PROVE WritesEndWithTheRun'
  BY <1>16a DEF Halt, stopVars
<1>16b. CASE StopCancel
  BY <1>16b DEF StopCancel, runVars
<1>17. CASE UNCHANGED <<writes, pcR, halted, stopped>>
  BY <1>17
<1> QED
  BY <1>1, <1>2, <1>3, <1>4, <1>5, <1>6, <1>6a, <1>7, <1>8, <1>9, <1>10, <1>11, <1>12,
     <1>13, <1>14, <1>15, <1>16, <1>16a, <1>16b, <1>17
     DEF Next, RunProgress, DreamStep, TitleStep, OpStep, StopStep, vars, stopVars, runVars,
         DreamEnds, SkipTitle, AskTitle, KeepTitle, LeaveTitle, BeginOp, RefuseOp, Clear,
         ReadHistory, Compact, EndOp, GripRun, Halt, Evict, StopCancel, StopClose

\* Cancels find runs that started; a run that has not started is not cancelled.
LEMMA AimedStep ==
  ASSUME Typed, Exclusive, Aimed, [Next]_vars
  PROVE  Aimed'
<1> USE DEF Typed, TypeOK, Gripping, Exclusive, Controlled, Aimed, CancelHitsItsRun
<1>1. ASSUME NEW r \in Message, StartRun(r) PROVE Aimed'
  BY <1>1 DEF StartRun, Accept, YieldTitle, cancelVars
<1>2. ASSUME NEW r \in Message, RefuseRun(r) PROVE Aimed'
  BY <1>2 DEF RefuseRun, cancelVars
<1>3. ASSUME NEW r \in Message, KillDream(r) PROVE Aimed'
  BY <1>3 DEF KillDream, RunStep, cancelVars
<1>4. ASSUME NEW r \in Message, Work(r) PROVE Aimed'
  BY <1>4 DEF Work, RunStep, cancelVars
<1>5. ASSUME NEW r \in Message, PrepFails(r) PROVE Aimed'
  BY <1>5 DEF PrepFails, RunStep, cancelVars
<1>6. ASSUME NEW r \in Message, Terminal(r) PROVE Aimed'
  BY <1>6 DEF Terminal, RunStep, cancelVars
<1>6a. ASSUME NEW r \in Message, EndUntold(r) PROVE Aimed'
  BY <1>6a DEF EndUntold, RunStep, cancelVars
<1>7. ASSUME NEW r \in Message, Finish(r) PROVE Aimed'
  BY <1>7 DEF Finish, RunStep, cancelVars
<1>8. ASSUME NEW r \in Message, ClearFileWrites(r) PROVE Aimed'
  BY <1>8 DEF ClearFileWrites, RunStep, cancelVars
<1>9. ASSUME NEW r \in Message, Release(r) PROVE Aimed'
  BY <1>9 DEF Release, RunStep, cancelVars
<1>10. ASSUME NEW r \in Message, SkipDream(r) PROVE Aimed'
  BY <1>10 DEF SkipDream, cancelVars
<1>11. ASSUME NEW r \in Message, CheckDream(r) PROVE Aimed'
  BY <1>11 DEF CheckDream, RunStep, cancelVars
<1>12. ASSUME NEW r \in Message, StartDream(r) PROVE Aimed'
  BY <1>12 DEF StartDream, RunStep, cancelVars
<1>13. ASSUME NEW r \in Message, RecordDream(r) PROVE Aimed'
  BY <1>13 DEF RecordDream, RunStep, cancelVars
<1>14. ASSUME NEW c \in Canceller, GripRun(c) PROVE Aimed'
  BY ZenonT(60), <1>14 DEF GripRun, runVars
<1>15. ASSUME NEW c \in Canceller, Halt(c) PROVE Aimed'
  BY <1>15 DEF Halt
<1>16. CASE UNCHANGED <<halted, grip, pcR, active>>
  BY <1>16
<1> QED
  BY <1>1, <1>2, <1>3, <1>4, <1>5, <1>6, <1>6a, <1>7, <1>8, <1>9, <1>10, <1>11, <1>12,
     <1>13, <1>14, <1>15, <1>16
     DEF Next, RunProgress, DreamStep, TitleStep, OpStep, StopStep, vars, runVars,
         cancelVars, DreamEnds, SkipTitle, AskTitle, KeepTitle, LeaveTitle, ToolUseStart,
         ToolUseResult, BeginOp, RefuseOp, Clear, ReadHistory, Compact, EndOp, Evict,
         StopCancel, StopClear, StopClose

\* Runs cancel and await the title request that is under way; requests start
\* only while nobody holds the session.
LEMMA YieldingStep ==
  ASSUME TypeOK, Exclusive, Yielding, [Next]_vars
  PROVE  Yielding'
<1> USE NoneAssumption DEF TypeOK, Exclusive, RunHolds, Yielding, Left, Wanted, Awaited
<1>1. ASSUME NEW r \in Message, StartRun(r) PROVE Yielding'
  <2>1. \A q \in Message : ~RunHolds(q)
    BY <1>1 DEF StartRun
  <2>2. ASSUME NEW g \in Message, pcG[g] = "asking" PROVE asker = g /\ Wanted
    BY <2>1, <2>2
  <2>3. ASSUME NEW g \in Message, pcG[g] = "asking" PROVE awaits'[r] = g
    BY <1>1, <2>2, <2>3 DEF StartRun, YieldTitle
  <2>4. /\ pcR'[r] = "begun" /\ pcG' = pcG /\ asker' = asker
        /\ \A q \in Message \ {r} : pcR'[q] = pcR[q] /\ ~RunHolds(q)'
    BY <1>1, <2>1 DEF StartRun, Accept
  <2>5. \A g \in Message : pcG[g] # "none" => Left(g)'
    BY <1>1, <2>4 DEF StartRun
  <2>6. /\ \A g \in Message : asker' = g <=> pcG'[g] \in {"asking", "leaving"}
        /\ \A g \in Message : pcG'[g] = "asking" =>
             \E q \in Message : pcR'[q] \in {"begun", "launched"} /\ awaits'[q] = g
    BY <2>3, <2>4
  <2>7. \A q, g \in Message : pcG'[g] = "asking" /\ RunHolds(q)' =>
          pcR'[q] \in {"begun", "launched"} /\ awaits'[q] = g
    BY <2>3, <2>4
  <2> QED
    BY <2>4, <2>5, <2>6, <2>7
<1>2. ASSUME NEW r \in Message, RefuseRun(r) PROVE Yielding'
  BY <1>2 DEF RefuseRun, titleVars
<1>3. ASSUME NEW r \in Message, KillDream(r) PROVE Yielding'
  BY <1>3 DEF KillDream, RunStep, titleVars
<1>4. ASSUME NEW r \in Message, Work(r) PROVE Yielding'
  BY <1>4 DEF Work, RunStep, titleVars
<1>5. ASSUME NEW r \in Message, PrepFails(r) PROVE Yielding'
  BY <1>5 DEF PrepFails, RunStep, titleVars
<1>6. ASSUME NEW r \in Message, Terminal(r) PROVE Yielding'
  BY <1>6 DEF Terminal, RunStep
<1>6a. ASSUME NEW r \in Message, EndUntold(r) PROVE Yielding'
  BY <1>6a DEF EndUntold, RunStep, titleVars
<1>7. ASSUME NEW r \in Message, Finish(r) PROVE Yielding'
  BY <1>7 DEF Finish, RunStep, titleVars
<1>8. ASSUME NEW r \in Message, ClearFileWrites(r) PROVE Yielding'
  BY <1>8 DEF ClearFileWrites, RunStep, titleVars
<1>9. ASSUME NEW r \in Message, Release(r) PROVE Yielding'
  <2>1. /\ RunHolds(r) /\ ~Left(r)
        /\ \A q \in Message \ {r} : ~RunHolds(q)
    BY <1>9 DEF Release, RunStep
  <2>2. pcG[r] = "none"
    BY <2>1
  <2>3. \A g \in Message : pcG[g] # "asking"
    BY <1>9, <2>1 DEF Release, RunStep
  <2>4. /\ asker' = asker /\ pcG'[r] \in {"scheduled", "done"} /\ pcR'[r] = "released"
        /\ \A q \in Message \ {r} : pcG'[q] = pcG[q] /\ pcR'[q] = pcR[q]
    BY <1>9 DEF Release, RunStep
  <2>5. \A g \in Message : asker' = g <=> pcG'[g] \in {"asking", "leaving"}
    BY <2>2, <2>4
  <2>6. \A g \in Message : pcG'[g] # "none" => Left(g)'
    BY <2>4
  <2>7. \A g \in Message : pcG'[g] # "asking"
    BY <2>3, <2>4
  <2> QED
    BY <2>5, <2>6, <2>7
<1>10. ASSUME NEW r \in Message, SkipDream(r) PROVE Yielding'
  BY <1>10 DEF SkipDream, titleVars
<1>11. ASSUME NEW r \in Message, CheckDream(r) PROVE Yielding'
  BY <1>11 DEF CheckDream, RunStep, titleVars
<1>12. ASSUME NEW r \in Message, StartDream(r) PROVE Yielding'
  BY <1>12 DEF StartDream, RunStep, titleVars
<1>13. ASSUME NEW r \in Message, RecordDream(r) PROVE Yielding'
  BY <1>13 DEF RecordDream, RunStep, titleVars
<1>14. ASSUME NEW r \in Message, SkipTitle(r) PROVE Yielding'
  BY <1>14 DEF SkipTitle, runVars, TitleUnwanted
<1>15. ASSUME NEW r \in Message, AskTitle(r) PROVE Yielding'
  BY <1>15 DEF AskTitle, runVars, TitleUnwanted
<1>16. ASSUME NEW r \in Message, KeepTitle(r) PROVE Yielding'
  BY <1>16 DEF KeepTitle, runVars, TitleUnwanted
<1>17. ASSUME NEW r \in Message, LeaveTitle(r) PROVE Yielding'
  BY <1>17 DEF LeaveTitle, runVars
<1>18. ASSUME NEW o \in Op, BeginOp(o) PROVE Yielding'
  BY <1>18 DEF BeginOp, runVars, titleVars
<1>19. ASSUME NEW o \in Op, EndOp(o) PROVE Yielding'
  BY <1>19 DEF EndOp, runVars, titleVars
<1>20. CASE UNCHANGED <<running, titlePending, titleDone, asker, pcG, pcR, awaits>>
  BY <1>20
<1> QED
  BY <1>1, <1>2, <1>3, <1>4, <1>5, <1>6, <1>6a, <1>7, <1>8, <1>9, <1>10, <1>11, <1>12,
     <1>13, <1>14, <1>15, <1>16, <1>17, <1>18, <1>19, <1>20
     DEF Next, RunProgress, DreamStep, TitleStep, OpStep, StopStep, vars, runVars,
         titleVars, DreamEnds, ToolUseStart, ToolUseResult, RefuseOp, Clear, ReadHistory,
         Compact, GripRun, Halt, Evict, StopCancel, StopClear, StopClose

-----------------------------------------------------------------------------
\* The invariant holds at the start, where nobody holds the session.
LEMMA InitIInv == Init => IInv
<1> SUFFICES ASSUME Init PROVE IInv
  OBVIOUS
<1>1. Typed
  BY InitTyped
<1> QED
  BY <1>1, NoneAssumption
     DEF Init, IInv, Exclusive, RunHolds, OpHolds, Controlled, HistoryIsHeld,
         WritesEndWithTheRun, Aimed, CancelHitsItsRun, Yielding, Left

\* Every step keeps it, layer by layer.
LEMMA Inductive == Spec => []IInv
<1>1. IInv /\ [Next]_vars => IInv'
  BY NextTyped, ExclusiveStep, HistoryStep, WritesStep, AimedStep, YieldingStep
     DEF IInv, Typed
<1> QED
  BY <1>1, InitIInv, PTL DEF Spec

\* Every variable of a session keeps its type, whoever races whom.
THEOREM SessionTypes == Spec => []TypeOK
<1>1. IInv => TypeOK
  BY DEF IInv, Typed
<1> QED
  BY <1>1, Inductive, PTL

\* Runs, clears and compactions take turns on the session, s.running says
\* whether one holds it, and the controller controls the run that does.
THEOREM SessionExclusion == Spec => []SessionIsExclusive
<1>1. IInv => SessionIsExclusive
  <2> SUFFICES ASSUME IInv PROVE SessionIsExclusive
    OBVIOUS
  <2> USE DEF IInv, Exclusive
  <2>1. \A x, y \in {r \in Message : RunHolds(r)} \cup {o \in Op : OpHolds(o)} : x = y
    OBVIOUS
  <2>2. running <=> {r \in Message : RunHolds(r)} \cup {o \in Op : OpHolds(o)} # {}
    OBVIOUS
  <2>3. \A r \in Message : Controlled(r) <=> RunHolds(r) /\ pcR[r] \notin {"finished", "cleared"}
    BY DEF Controlled, RunHolds
  <2>4. active # None <=> \E r \in Message : Controlled(r)
    BY NoneAssumption DEF Typed, TypeOK
  <2>5. active # None => RunHolds(active)
    BY <2>3, <2>4
  <2> QED
    BY <2>1, <2>2, <2>3, <2>4, <2>5 DEF SessionIsExclusive
<1> QED
  BY <1>1, Inductive, PTL

\* The history a run answers and the one a compaction summarises is still the
\* session's own until the result is put back.
THEOREM SessionHistory == Spec => []HistoryIsHeld
<1>1. IInv => HistoryIsHeld
  BY DEF IInv
<1> QED
  BY <1>1, Inductive, PTL

\* A write is tracked only while a run works, or until a cancelled run that ended
\* without a Terminal has cleared its own: no save is answered 423 for ever.
THEOREM SessionWrites == Spec => []WritesEndWithTheRun
<1>1. IInv => WritesEndWithTheRun
  BY DEF IInv
<1> QED
  BY <1>1, Inductive, PTL

\* A cancel request aborts the run it found and never a later one.
THEOREM SessionCancels == Spec => []CancelHitsItsRun
<1>1. IInv => CancelHitsItsRun
  BY DEF IInv, Aimed
<1> QED
  BY <1>1, Inductive, PTL

\* No title request is under way once the agent works.
THEOREM SessionTitles == Spec => []TitleYieldsToRun
<1>1. IInv => TitleYieldsToRun
  BY DEF IInv, Yielding, TitleYieldsToRun, RunHolds
<1> QED
  BY <1>1, Inductive, PTL

\* The agent's Terminal puts a run's turn on top of the very history the run
\* was given, and a compaction leaves a part of the history it read: no turn
\* that came in between is lost.
THEOREM TurnsAreKept ==
  Spec => [][/\ \A r \in Message : Terminal(r) => conversation' = Append(history[r], r)
             /\ \A o \in Op : Compact(o) =>
                  \/ conversation' = conversation
                  \/ \E k \in 1..Len(conversation) :
                       conversation' = SubSeq(conversation, k, Len(conversation))]_vars
<1>1. IInv => /\ \A r \in Message : Terminal(r) => conversation' = Append(history[r], r)
              /\ \A o \in Op : Compact(o) =>
                   \/ conversation' = conversation
                   \/ \E k \in 1..Len(conversation) :
                        conversation' = SubSeq(conversation, k, Len(conversation))
  BY DEF IInv, HistoryIsHeld, Terminal, RunStep, Compact
<1> QED
  BY <1>1, Inductive, PTL
=============================================================================
